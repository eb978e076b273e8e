------------------------------ MODULE JobQueue ------------------------------
(***************************************************************************)
(* What the three tables of post-call jobs have in common: analysis_jobs,  *)
(* crm_sync_jobs and appointment_sync_jobs hold one row per call or        *)
(* appointment, written by the listener of call.ended, taken by processDue *)
(* when it is due, and put back as failed by the migration that runs when  *)
(* the application starts.  Whether a row that failed is due is a matter   *)
(* of time: its backoff passes.                                            *)
(***************************************************************************)
EXTENDS Naturals

CONSTANTS Items,      \* calls, or appointments
          MaxTries,   \* the length of RETRY_BACKOFF_MS
          MaxStops    \* bound of the model: stops of the application

\* "none" stands for no row, or for nothing being sent: it is not a row's name.
ASSUME JobAssumption == MaxTries \in Nat \ {0} /\ MaxStops \in Nat /\ "none" \notin Items

JobStatus == {"none", "pending", "processing", "failed", "succeeded", "dead"}

\* INSERT ... ON CONFLICT DO NOTHING: an event that comes again changes nothing.
Enqueued(s) == IF s = "none" THEN "pending" ELSE s

Due(s) == s \in {"pending", "failed"}

\* The status after an attempt failed, when n attempts had ended before it.
AfterFailure(n) == IF n + 1 >= MaxTries THEN "dead" ELSE "failed"

\* Mutant: a row that was processing is left as it was.
Resumed_Not(s) == s

\* What the migration at the start makes of a row.
Resumed(s) == IF s = "processing" THEN "failed" ELSE s

\* Rows as stages of DurableJob.
Stage(s) == CASE s = "none" -> "absent"
              [] Due(s) -> "waiting"
              [] s = "processing" -> "working"
              [] s = "succeeded" -> "done"
              [] s = "dead" -> "dead"
=============================================================================
