--------------------------- MODULE TranscriptFlow ---------------------------
(***************************************************************************)
(* How the GPT-Live provider turns transcript deltas into the final        *)
(* transcripts it publishes (gpt-live-api-provider.ts, flush and           *)
(* drainTranscripts): the current segment is flushed by the other speaker, *)
(* by a pause or by its timer; finals are held back so that a short        *)
(* interruption does not cut the other speaker's sentence in two.          *)
(* Segments are numbered as they begin.  Whether a segment is blank, brief *)
(* or resumes at once is the input's choice.                                *)
(***************************************************************************)
EXTENDS Naturals, SequencesExt

CONSTANT MaxSegments   \* bound: segments spoken

Roles == {"caller", "assistant"}

VARIABLES cur,       \* transcript: the current segment, or none
          pending,   \* pendingTranscripts
          finals,    \* the final transcripts published
          blank,     \* segments of punctuation only, which are dropped
          turns,     \* turnDone events
          spoken,    \* segments begun
          open       \* the session's socket is there
flowVars == <<cur, pending, finals, blank, turns, spoken, open>>

Nobody == [role |-> "none", id |-> 0]
Init == /\ cur = Nobody /\ pending = <<>> /\ finals = <<>>
        /\ blank = {} /\ turns = 0 /\ spoken = 0 /\ open = TRUE

Final(t) == [role |-> t.role, ids |-> t.ids]

\* Mutant: who speaks is not compared.
Interrupted_AnyRole(p, resumes) ==
  /\ p[2].brief /\ resumes
\* The loop of drainTranscripts, which at most three segments enter: of three,
\* a brief one is published after the sentence it interrupted, or the first is
\* published alone.  resumes is after.start - before.end < interruptionMs.
Interrupted(p, resumes) ==
  /\ p[1].role = p[3].role /\ p[1].role # p[2].role /\ p[2].brief /\ resumes
Drain(p, resumes) ==
  IF Len(p) < 3 THEN /\ pending' = p /\ UNCHANGED finals
  ELSE IF Interrupted(p, resumes)
  THEN /\ pending' = <<>>
       /\ finals' = finals \o <<[role |-> p[1].role, ids |-> p[1].ids \o p[3].ids], Final(p[2])>>
  ELSE /\ pending' = Tail(p) /\ finals' = Append(finals, Final(p[1]))

\* flush
Flush(next) ==
  \E brief, resumes, mute \in BOOLEAN :
    /\ cur' = next
    /\ blank' = IF mute THEN blank \cup {cur.id} ELSE blank
    /\ turns' = IF cur.role = "assistant" THEN turns + 1 ELSE turns
    /\ Drain(IF mute THEN pending
             ELSE Append(pending, [role |-> cur.role, ids |-> <<cur.id>>, brief |-> brief]), resumes)

\* A delta of the current segment changes nothing here; the other role, or a
\* pause, begins a new one.
Delta(role) ==
  LET next == [role |-> role, id |-> spoken + 1]
  IN /\ open /\ spoken < MaxSegments /\ spoken' = spoken + 1
     /\ IF cur = Nobody THEN cur' = next /\ UNCHANGED <<pending, finals, blank, turns>> ELSE Flush(next)
     /\ UNCHANGED open
FlushTimer == /\ cur # Nobody /\ Flush(Nobody) /\ UNCHANGED <<spoken, open>>
\* drainTranscripts(true)
DrainTimer ==
  /\ pending # <<>> /\ pending' = <<>>
  /\ finals' = finals \o [i \in DOMAIN pending |-> Final(pending[i])]
  /\ UNCHANGED <<cur, blank, turns, spoken, open>>
\* The end of the session: flush, then drainTranscripts(true).
End ==
  /\ open /\ open' = FALSE /\ cur' = Nobody /\ pending' = <<>>
  /\ \E mute, brief, resumes \in BOOLEAN :
       LET last == IF cur = Nobody \/ mute THEN <<>>
                   ELSE <<[role |-> cur.role, ids |-> <<cur.id>>, brief |-> brief]>>
           p == pending \o last
       IN /\ finals' = finals \o
               (IF Len(p) = 3 /\ Interrupted(p, resumes)
                THEN <<[role |-> p[1].role, ids |-> p[1].ids \o p[3].ids], Final(p[2])>>
                ELSE [i \in DOMAIN p |-> Final(p[i])])
          /\ blank' = IF cur # Nobody /\ mute THEN blank \cup {cur.id} ELSE blank
  /\ turns' = IF cur.role = "assistant" THEN turns + 1 ELSE turns
  /\ UNCHANGED spoken

Next == \/ \E r \in Roles : Delta(r)
        \/ FlushTimer \/ DrainTimer \/ End

Fairness == WF_flowVars(FlushTimer) /\ WF_flowVars(DrainTimer)
Spec == Init /\ [][Next]_flowVars /\ Fairness

(***************************************************************************)
(* Properties                                                               *)
(***************************************************************************)
\* Every variable has its type; at most two segments are held back.
TypeOK ==
  /\ cur \in [role : Roles \cup {"none"}, id : 0..MaxSegments]
  /\ Len(pending) <= 2 /\ {pending[i].role : i \in DOMAIN pending} \subseteq Roles
  /\ blank \subseteq 1..MaxSegments /\ turns \in 0..MaxSegments /\ spoken \in 0..MaxSegments

Ids(seq) == FlattenSeq([i \in DOMAIN seq |-> seq[i].ids])
\* Everything said is kept: each segment is current, held back, published or
\* blank, and exactly one of these, whatever timers and endings interleave.
NothingLostOrRepeated ==
  LET kept == Ids(finals) \o Ids(pending) \o (IF cur = Nobody THEN <<>> ELSE <<cur.id>>)
  IN /\ IsInjective(kept) /\ ToSet(kept) \cap blank = {}
     /\ ToSet(kept) \cup blank = 1..spoken

\* The words of one speaker are published in the order they were said; only
\* words said in between by the other are overtaken, each of them once.
PublishedInOrder ==
  LET order == Ids(finals)
  IN /\ \A j \in DOMAIN order : Cardinality({i \in 1..(j - 1) : order[i] > order[j]}) <= 1
     /\ \A r \in Roles : LET mine == Ids(SelectSeq(finals, LAMBDA f : f.role = r))
                         IN \A i, j \in DOMAIN mine : i < j => mine[i] < mine[j]

\* What was said is published although nobody speaks again.
EverythingIsPublished == (cur # Nobody \/ pending # <<>>) ~> (cur = Nobody /\ pending = <<>>)
=============================================================================
