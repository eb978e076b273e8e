---------------------------- MODULE CallRecords ----------------------------
(***************************************************************************)
(* The records of calls: the call store (main/call-store.ts) from opening  *)
(* and migrating its database to the rows of calls and their transcripts,  *)
(* and recordTranscript of the main process (main/index.ts), which books   *)
(* what the voice session hears on the active call.  The application may   *)
(* stop at any moment; what is in memory is gone then.  Calls are numbered *)
(* in the order they are reported.                                         *)
(***************************************************************************)
EXTENDS Naturals, FiniteSets

CONSTANTS MaxReported,   \* bound: calls
          MaxEntries,    \* bound: transcript entries
          MaxStops       \* bound: times the application stops

ASSUME RecordsAssumption == {MaxReported, MaxEntries, MaxStops} \subseteq Nat

Reported == 1..MaxReported
Roles == {"caller", "assistant"}
Latest == 7              \* schema_version
None == [call |-> 0, said |-> 0, seq |-> 0, final |-> FALSE, stray |-> FALSE]

VARIABLES up,        \* down, opening, up
          stops,     \* times it stopped
          version,   \* the schema_version recorded
          shape,     \* the version the tables really have
          rows,      \* call_sessions: status, call.ended audits, call.orphaned audits
          emitted,   \* call.started events of each call
          activeId,  \* activeCallId, 0 for none
          entries,   \* transcript_entries
          counters,  \* transcriptCounters
          line,      \* activeTranscripts: the entry a role is speaking, 0 for none
          nextId,    \* entries begun
          speech,    \* the call whose voice session is open, 0 for none
          barrier,   \* calls with copilot.call.end_requested in the audit log
          lost       \* history: the call whose own words were dropped while it was on
recordVars == <<up, stops, version, shape, rows, emitted, activeId, entries, counters, line, nextId, speech, barrier, lost>>

Init ==
  /\ up = "down" /\ stops = 0 /\ version \in {0, 4, Latest} /\ shape = version
  /\ rows = [c \in Reported |-> [status |-> "none", ends |-> 0, orphaned |-> FALSE]]
  /\ emitted = [c \in Reported |-> 0] /\ activeId = 0 /\ entries = [i \in 1..MaxEntries |-> None]
  /\ counters = [c \in Reported |-> 0] /\ line = [r \in Roles |-> 0] /\ nextId = 1 /\ speech = 0
  /\ barrier = {} /\ lost = {}

durable == <<version, shape, rows, entries, barrier>>
memory == <<activeId, counters, line, nextId, speech>>

(***************************************************************************)
(* Opening                                                                  *)
(***************************************************************************)
Open ==
  /\ up = "down" /\ up' = "opening"
  /\ UNCHANGED <<stops, durable, memory, emitted, lost>>
Migrating(from) == up = "opening" /\ version \in from /\ UNCHANGED <<up, stops, rows, entries, barrier, memory, emitted, lost>>
\* migrate begins with the first tables, which are made unless they are there:
\* they and the number 1 are not written in one transaction.
Creates == Migrating({0}) /\ shape = 0 /\ shape' = 1 /\ UNCHANGED version
Numbers == Migrating({0}) /\ shape >= 1 /\ version' = 1 /\ UNCHANGED shape
\* The steps that follow each change tables and the version in one transaction,
\* and cannot be done to tables that have it done.
Migrate == Migrating(1..(Latest - 2)) /\ shape = version /\ version' = version + 1 /\ shape' = shape + 1
\* migrateTenantScope, the last: tables that lack the columns or the keys of a
\* tenant are rebuilt, with foreign keys off, in one transaction.
ScopesTenants == Migrating({Latest - 1}) /\ version' = Latest /\ shape' = Latest
\* When it throws nothing is changed, and whoever needed the store asks again.
ScopingFails ==
  /\ up = "opening" /\ version = Latest - 1 /\ up' = "down"
  /\ UNCHANGED <<stops, durable, memory, emitted, lost>>
\* finalizeOrphanedSessions: a call that was being connected, more than ten
\* minutes ago, is over; old is the set of these.
Opened ==
  /\ up = "opening" /\ version = Latest /\ up' = "up"
  /\ \E old \in SUBSET {c \in Reported : rows[c].status = "dialing"} :
       rows' = [c \in Reported |-> IF c \in old THEN [rows[c] EXCEPT !.status = "ended", !.orphaned = TRUE] ELSE rows[c]]
  /\ UNCHANGED <<stops, version, shape, entries, barrier, memory, emitted, lost>>
Stop ==
  /\ up # "down" /\ stops < MaxStops /\ stops' = stops + 1 /\ up' = "down"
  /\ activeId' = 0 /\ counters' = [c \in Reported |-> 0] /\ line' = [r \in Roles |-> 0] /\ speech' = 0
  /\ UNCHANGED <<durable, nextId, emitted, lost>>

(***************************************************************************)
(* Calls                                                                    *)
(***************************************************************************)
Over(status) == status = "ended"
\* report, for the call c and its new status.
Report(c, status) ==
  /\ up = "up"
  /\ rows' = [rows EXCEPT ![c].status = status,
                          ![c].ends = IF Over(status) /\ rows[c].status \notin {"none", "ended"} THEN @ + 1 ELSE @]
  /\ activeId' = IF ~Over(status) THEN c ELSE IF activeId = c THEN 0 ELSE activeId
  /\ emitted' = IF rows[c].status = "none" THEN [emitted EXCEPT ![c] = @ + 1] ELSE emitted
  /\ UNCHANGED <<up, stops, version, shape, entries, counters, line, nextId, speech, barrier, lost>>
\* The renderer reports a call from its start to its end; the end of one may
\* be reported after the next began, and more than once.  A call of before a
\* stop is not reported any more.
Begins(c) == rows[c].status = "none" /\ (\A d \in 1..(c - 1) : rows[d].status # "none") /\ \E s \in {"dialing", "ended"} : Report(c, s)
Answers(c) == rows[c].status = "dialing" /\ activeId = c /\ Report(c, "active")
Ends(c) == /\ \/ rows[c].status = "ended" /\ ~rows[c].orphaned
              \/ rows[c].status \in {"dialing", "active"} /\ (activeId = c \/ speech = c)
           /\ Report(c, "ended")

(***************************************************************************)
(* Transcripts                                                              *)
(***************************************************************************)
VoiceStarts ==
  /\ up = "up" /\ speech = 0 /\ activeId # 0 /\ rows[activeId].status = "active" /\ speech' = activeId
  /\ UNCHANGED <<up, stops, durable, activeId, counters, line, nextId, emitted, lost>>
\* closed: what was being said is not made final here.
VoiceCloses ==
  /\ up = "up" /\ speech # 0 /\ speech' = 0 /\ line' = [r \in Roles |-> 0]
  /\ UNCHANGED <<up, stops, durable, activeId, counters, nextId, emitted, lost>>
\* end_call of the copilot is audited on the active call.
EndRequested ==
  /\ up = "up" /\ activeId # 0 /\ barrier' = barrier \cup {activeId}
  /\ UNCHANGED <<up, stops, version, shape, rows, entries, memory, emitted, lost>>
\* The renderer has one call at a time: those before the newest are over.
Newest(c) == \A d \in Reported : rows[d].status # "none" => d <= c
\* The entry e with the next place of the active call, which it is of if it is new.
Placed(e, final) ==
  LET place == counters[activeId] + 1 crosses == activeId # speech IN
  IF e.call = 0
  THEN [call |-> activeId, said |-> speech, seq |-> place, final |-> final, stray |-> crosses]
  ELSE [e EXCEPT !.seq = place, !.final = final, !.stray = @ \/ crosses]
\* Mutant: an entry that is changed keeps the counter where it is.
Booked_sameplace(i, final) ==
  IF activeId = 0
  THEN /\ lost' = IF rows[speech].status = "active" /\ Newest(speech) THEN lost \cup {speech} ELSE lost
       /\ UNCHANGED <<entries, counters>>
  ELSE /\ counters' = [counters EXCEPT ![activeId] = IF entries[i].call = 0 THEN @ ELSE @ + 1]
       /\ entries' = [entries EXCEPT ![i] = Placed(entries[i], final)]
       /\ UNCHANGED lost
\* reportTranscriptEntry: the entry i is written to the active call, or, when
\* it exists, changed where it is.
Booked(i, final) ==
  IF activeId = 0
  THEN /\ lost' = IF rows[speech].status = "active" /\ Newest(speech) THEN lost \cup {speech} ELSE lost
       /\ UNCHANGED <<entries, counters>>
  ELSE /\ counters' = [counters EXCEPT ![activeId] = @ + 1]
       /\ entries' = [entries EXCEPT ![i] = Placed(entries[i], final)]
       /\ UNCHANGED lost
\* recordTranscript: after an end request the assistant begins no entry.
Heard(r, final) ==
  /\ up = "up" /\ speech # 0
  /\ LET begins == line[r] = 0 i == IF begins THEN nextId ELSE line[r] IN
     /\ ~(begins /\ r = "assistant" /\ activeId \in barrier)
     /\ i <= MaxEntries /\ nextId' = IF begins THEN nextId + 1 ELSE nextId
     /\ line' = [line EXCEPT ![r] = IF final THEN 0 ELSE i]
     /\ Booked(i, final)
  /\ UNCHANGED <<up, stops, version, shape, rows, barrier, activeId, speech, emitted>>

Next ==
  \/ Open \/ Creates \/ Numbers \/ Migrate \/ ScopesTenants \/ ScopingFails \/ Opened \/ Stop \/ VoiceStarts \/ VoiceCloses \/ EndRequested
  \/ \E c \in Reported : Begins(c) \/ Answers(c) \/ Ends(c)
  \/ \E r \in Roles, final \in BOOLEAN : Heard(r, final) /\ (~final => line[r] = 0)

Fairness == WF_recordVars(Creates \/ Numbers \/ Migrate \/ ScopesTenants) /\ WF_recordVars(Opened)
Spec == Init /\ [][Next]_recordVars /\ Fairness

(***************************************************************************)
(* Properties                                                               *)
(***************************************************************************)
\* Every variable has its type.
TypeOK ==
  /\ up \in {"down", "opening", "up"} /\ stops \in 0..MaxStops /\ {version, shape} \subseteq 0..Latest
  /\ rows \in [Reported -> [status : {"none", "dialing", "active", "ended"}, ends : 0..1, orphaned : BOOLEAN]]
  /\ emitted \in [Reported -> 0..1] /\ {activeId, speech} \subseteq 0..MaxReported
  /\ entries \in [1..MaxEntries -> [call : 0..MaxReported, said : 0..MaxReported, seq : Nat, final : BOOLEAN, stray : BOOLEAN]]
  /\ counters \in [Reported -> Nat] /\ line \in [Roles -> 0..MaxEntries] /\ nextId \in 1..(MaxEntries + 1)
  /\ barrier \cup lost \subseteq Reported

\* The database that is being opened does open, whenever and however often the
\* application stopped in the middle of a migration, unless it stops again.
DatabaseOpens == up = "opening" ~> up \in {"up", "down"}

\* The words of a call that is on are not dropped, although the end of the
\* call before it may be reported meanwhile.
OwnWordsAreKept == lost = {}

\* The entries of a call are in one order: two have the same place in it only
\* when one was spoken or finished while another call was the active one.
OneOrder ==
  \A i, j \in 1..MaxEntries :
    i # j /\ entries[i].call # 0 /\ entries[i].call = entries[j].call /\ entries[i].seq = entries[j].seq
      => entries[i].stray \/ entries[j].stray

\* A call starts once and is audited as ended at most once, and as orphaned
\* only if it was not, however reports repeat and the application stops.
EndedOnce == \A c \in Reported : /\ emitted[c] <= 1 /\ rows[c].ends <= 1
                                 /\ rows[c].orphaned => rows[c].ends = 0

\* A call that is over is not shown as going on again.
OverStaysOver == [][\A c \in Reported : rows[c].status = "ended" => rows'[c].status = "ended"]_recordVars
=============================================================================
