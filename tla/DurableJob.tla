----------------------------- MODULE DurableJob -----------------------------
(***************************************************************************)
(* What a table of jobs promises, whatever its jobs do: a job is done or   *)
(* buried once and for good, one job is worked on at a time, every attempt *)
(* that failed is counted, and the last one permitted buries the job.  An  *)
(* attempt cut short by a stop of the application is not counted, so that  *)
(* the job waits as if it had not been taken.  AnalysisJobs, CrmSync,      *)
(* AppointmentSync and WebhookOutbox implement it.                         *)
(***************************************************************************)
EXTENDS Naturals

CONSTANTS Jobs,
          Limit   \* the number of attempts a job is given

VARIABLES stage,  \* absent, waiting, working, done, dead
          tries   \* attempts that have come to an end

durableVars == <<stage, tries>>

DInit == stage = [j \in Jobs |-> "absent"] /\ tries = [j \in Jobs |-> 0]

GoTo(j, from, to) == stage[j] = from /\ stage' = [stage EXCEPT ![j] = to]
Uncounted == tries' = tries
Counted(j) == tries' = [tries EXCEPT ![j] = @ + 1]

\* The handler of one event may create several jobs.
Create(S) == /\ \A j \in S : stage[j] = "absent"
             /\ stage' = [j \in Jobs |-> IF j \in S THEN "waiting" ELSE stage[j]]
             /\ Uncounted

Take(j) == /\ \A k \in Jobs : stage[k] # "working"
           /\ GoTo(j, "waiting", "working") /\ Uncounted

\* The application stops: whatever was being worked on waits again.
Drop(j) == GoTo(j, "working", "waiting") /\ Uncounted

Finish(j) == GoTo(j, "working", "done") /\ Counted(j)
Retry(j) == tries[j] + 1 < Limit /\ GoTo(j, "working", "waiting") /\ Counted(j)
Bury(j) == tries[j] + 1 = Limit /\ GoTo(j, "working", "dead") /\ Counted(j)

DNext == \/ \E S \in SUBSET Jobs : Create(S)
         \/ \E j \in Jobs : Take(j) \/ Drop(j) \/ Finish(j) \/ Retry(j) \/ Bury(j)

DSpec == DInit /\ [][DNext]_durableVars
=============================================================================
