------------------------------ MODULE CrmSync -------------------------------
(***************************************************************************)
(* The notes written to the CRM after a call: main/crm/post-call-sync.ts   *)
(* with the client of crm/zoho/client.ts.  A job looks the number up,      *)
(* creates a lead if nobody has it, adds a note, and announces crm.synced. *)
(* Each of the three is a request that may fail, or be carried out and     *)
(* fail all the same; the client repeats a request the server refused,     *)
(* up to three times, and the job repeats them all.                        *)
(***************************************************************************)
EXTENDS JobQueue

VARIABLES job,    \* crm_sync_jobs.status of each call, "none" without a row
          tries,  \* crm_sync_jobs.attempts
          pc,     \* the await at which the job that is processing stands
          sends,  \* how often the client has sent the request of that await
          known,  \* calls whose number the CRM knows
          notes,  \* notes[c]: notes of call c in the CRM: 0, 1, or 2 for more
          synced, \* calls for which crm.synced was published
          stops

crmVars == <<job, tries, pc, sends, known, notes, synced, stops>>

MaxSends == 3
Requests == {"lookup", "lead", "note"}

Init == /\ job = [c \in Items |-> "none"]
        /\ tries = [c \in Items |-> 0]
        /\ pc = "idle"
        /\ sends = 0
        /\ known \in SUBSET Items
        /\ notes = [c \in Items |-> 0]
        /\ synced = {}
        /\ stops = 0

Serving(c) == job[c] = "processing" /\ pc \in Requests

\* The listener of call.ended; while the sync is switched off it does nothing,
\* which is a step that changes nothing.
CallEnded(c) ==
  /\ job' = [job EXCEPT ![c] = Enqueued(@)]
  /\ UNCHANGED <<tries, pc, sends, known, notes, synced, stops>>

ProcessDue(c) ==
  /\ \A d \in Items : job[d] # "processing"
  /\ Due(job[c])
  /\ job' = [job EXCEPT ![c] = "processing"]
  /\ pc' = "lookup" /\ sends' = 1
  /\ UNCHANGED <<tries, known, notes, synced, stops>>

\* What the CRM may have done with the request, answered or not.
NoEffect == UNCHANGED <<known, notes>>
Effect(c) == CASE pc = "lookup" -> NoEffect
               [] pc = "lead" -> known' = known \cup {c} /\ UNCHANGED notes
               [] pc = "note" -> /\ notes' = [notes EXCEPT ![c] = IF @ = 2 THEN 2 ELSE @ + 1]
                                 /\ UNCHANGED known

Found(c) == pc = "lookup" /\ c \in known

\* lookupByPhone answers: a contact gets the note, a new number becomes a lead;
\* createLead answers: the lead gets the note.
NextRequest(c) ==
  /\ Serving(c) /\ pc \in {"lookup", "lead"}
  /\ Effect(c)
  /\ pc' = (IF pc = "lead" \/ Found(c) THEN "note" ELSE "lead") /\ sends' = 1
  /\ UNCHANGED <<job, tries, synced, stops>>

\* Mutant: the error of addNote is swallowed.
Succeed_Anyway(c) ==
  /\ Serving(c) /\ pc = "note"
  /\ Effect(c) \/ NoEffect
  /\ job' = [job EXCEPT ![c] = "succeeded"]
  /\ tries' = [tries EXCEPT ![c] = @ + 1]
  /\ pc' = "idle" /\ sends' = 0

\* addNote answers: the job is done, and crm.synced published before anything else runs.
Succeed(c) ==
  /\ Serving(c) /\ pc = "note"
  /\ Effect(c)
  /\ job' = [job EXCEPT ![c] = "succeeded"]
  /\ tries' = [tries EXCEPT ![c] = @ + 1]
  /\ pc' = "idle" /\ sends' = 0

NoteAnswers(c) == Succeed(c) /\ synced' = synced \cup {c} /\ UNCHANGED stops

\* The server answers 429 or 5xx: the client sends the request again.
SendAgain(c) ==
  /\ Serving(c) /\ sends < MaxSends
  /\ Effect(c) \/ NoEffect
  /\ sends' = sends + 1
  /\ UNCHANGED <<job, tries, pc, synced, stops>>

\* The request fails for good: network, another status, or refused too often.
Fails(c) ==
  /\ Serving(c)
  /\ Effect(c) \/ NoEffect
  /\ job' = [job EXCEPT ![c] = AfterFailure(tries[c])]
  /\ tries' = [tries EXCEPT ![c] = @ + 1]
  /\ pc' = "idle" /\ sends' = 0
  /\ UNCHANGED <<synced, stops>>

\* The application stops, with a request under way or not, and starts again.
Restart ==
  /\ stops < MaxStops
  /\ stops' = stops + 1
  /\ NoEffect \/ \E c \in Items : Serving(c) /\ Effect(c)
  /\ job' = [c \in Items |-> Resumed(job[c])]
  /\ pc' = "idle" /\ sends' = 0
  /\ UNCHANGED <<tries, synced>>

\* It may stop between the row of the job and the publication.
StopAfterSuccess(c) ==
  stops < MaxStops /\ stops' = stops + 1 /\ Succeed(c) /\ UNCHANGED synced

CrmStep(c) == NextRequest(c) \/ NoteAnswers(c) \/ Fails(c)

Next == \/ \E c \in Items : \/ CallEnded(c) \/ ProcessDue(c) \/ CrmStep(c)
                            \/ SendAgain(c) \/ StopAfterSuccess(c)
        \/ Restart

Spec == Init /\ [][Next]_crmVars

\* The scheduler ticks, and requests settle (fetch gives up at last).
Fairness == /\ WF_crmVars(\E c \in Items : ProcessDue(c))
            /\ WF_crmVars(\E c \in Items : CrmStep(c))
-----------------------------------------------------------------------------
TypeOK == /\ job \in [Items -> JobStatus]
          /\ tries \in [Items -> 0 .. MaxTries]
          /\ pc \in Requests \cup {"idle"}
          /\ sends \in 0 .. MaxSends
          /\ known \in SUBSET Items
          /\ notes \in [Items -> 0 .. 2]
          /\ synced \in SUBSET Items
          /\ stops \in 0 .. MaxStops

\* Nothing is claimed that did not happen: a job that succeeded, and a call
\* announced as crm.synced, has a note in the CRM, on a contact it knows, and a
\* note is never sent to a number without a record.
SyncedHasNote ==
  \A c \in Items : /\ c \in synced => job[c] = "succeeded"
                   /\ job[c] = "succeeded" => notes[c] > 0
                   /\ notes[c] > 0 => c \in known
                   /\ pc = "note" /\ job[c] = "processing" => c \in known

Durable == INSTANCE DurableJob WITH
             Jobs <- Items, Limit <- MaxTries, stage <- [c \in Items |-> Stage(job[c])]

\* The rows of crm_sync_jobs keep the promises of DurableJob.
ImplementsDurable == Durable!DSpec

\* A call that ended while the sync was on has its note, or was given up after the
\* last attempt; nothing stays in crm_sync_jobs for ever.
JobSettles == \A c \in Items : job[c] = "pending" ~> job[c] \in {"succeeded", "dead"}
=============================================================================
