---------------------------- MODULE AnalysisJobs ----------------------------
(***************************************************************************)
(* Analysis of finished calls: apps/desktop/src/main/analysis/service.ts   *)
(* and the tables analysis_jobs and call_results of call-store.ts.         *)
(*                                                                         *)
(* Two callers ask for the analysis of a call: the job that call.ended     *)
(* created and the task runner that placed the call.  Whoever comes first  *)
(* runs the model (at most two turns, the second when the first answer was *)
(* not valid); the other joins the promise in inFlight, or is given the    *)
(* stored result.  The key call_id + schema_hash is the call: a task with  *)
(* another schema has a result of its own and does not meet the job.       *)
(***************************************************************************)
EXTENDS JobQueue

VARIABLES job,       \* analysis_jobs.status of each call, "none" without a row
          tries,     \* analysis_jobs.attempts
          result,    \* call_results: none, ok, or the error result
          at,        \* at[c][w]: where caller w of analyze(c) stands
          announced, \* calls onAnalyzed was called for
          stops      \* how often the application has stopped

analysisVars == <<job, tries, result, at, announced, stops>>

Callers == {"job", "task"}

\* first, second: this caller runs the model; joined: it awaits the other's promise;
\* returned, rejected: the promise is settled and the caller is to go on.
At == {"out", "first", "second", "joined", "returned", "rejected"}
Running == {"first", "second"}

Init == /\ job = [c \in Items |-> "none"]
        /\ tries = [c \in Items |-> 0]
        /\ result = [c \in Items |-> "none"]
        /\ at = [c \in Items |-> [w \in Callers |-> "out"]]
        /\ announced = {}
        /\ stops = 0

Goes(c, w, to) == at' = [at EXCEPT ![c][w] = to]

\* Mutant: whoever joined the promise is not told of its end.
Settles_StarterOnly(c, w, to) == Goes(c, w, to)

\* The promise of w's run settles: w and all who joined it go on.
Settles(c, w, to) ==
  at' = [at EXCEPT ![c] = [v \in Callers |->
           IF v = w \/ @[v] = "joined" THEN to ELSE @[v]]]

InFlight(c) == \E w \in Callers : at[c][w] \in Running

\* putCallResult: the first result of a call stays.
Put(c, r) == result' = [result EXCEPT ![c] = IF @ = "none" THEN r ELSE @]

\* persist: a result that was already there is handed out and not announced.
Persist(c, w, r) ==
  /\ Put(c, r)
  /\ announced' = IF result[c] = "none" THEN announced \cup {c} ELSE announced
  /\ Settles(c, w, "returned")

\* Mutant: a caller does not look for a run of another.
Analyze_NoInFlight(c, w) ==
  /\ at[c][w] = "out"
  /\ IF result[c] # "none" THEN Goes(c, w, "returned") ELSE Goes(c, w, "first")
  /\ UNCHANGED <<result, announced>>

\* What analyze does before its first await, for a caller that is not yet in it.
\* A transcript that is too short is classified by rules, unless the schema
\* refuses a result without facts.
Analyze(c, w) ==
  /\ at[c][w] = "out"
  /\ \/ /\ result[c] # "none"
        /\ Goes(c, w, "returned") /\ UNCHANGED <<result, announced>>
     \/ /\ result[c] = "none" /\ InFlight(c)
        /\ Goes(c, w, "joined") /\ UNCHANGED <<result, announced>>
     \/ /\ result[c] = "none" /\ ~InFlight(c)
        /\ \/ Goes(c, w, "first") /\ UNCHANGED <<result, announced>>
           \/ Persist(c, w, "ok")
           \/ Goes(c, w, "rejected") /\ UNCHANGED <<result, announced>>

CallEnded(c) ==
  /\ job' = [job EXCEPT ![c] = Enqueued(@)]
  /\ UNCHANGED <<tries, result, at, announced, stops>>

ProcessDue(c) ==
  /\ \A d \in Items : job[d] # "processing"
  /\ Due(job[c])
  /\ job' = [job EXCEPT ![c] = "processing"]
  /\ Analyze(c, "job")
  /\ UNCHANGED <<tries, stops>>

\* The task runner waits for call.ended, whose listeners create the job too.
TaskAnalyze(c) ==
  /\ job[c] # "none"
  /\ Analyze(c, "task")
  /\ UNCHANGED <<job, tries, stops>>

\* A turn of the model: a valid answer is stored, a first invalid one is tried
\* again, a second one is stored as an error; or runExtraction throws.
ModelAnswers(c, w) ==
  /\ \/ at[c][w] \in Running /\ Persist(c, w, "ok")
     \/ at[c][w] = "first" /\ Goes(c, w, "second") /\ UNCHANGED <<result, announced>>
     \/ at[c][w] = "second" /\ Persist(c, w, "error")
     \/ at[c][w] \in Running /\ Settles(c, w, "rejected") /\ UNCHANGED <<result, announced>>
  /\ UNCHANGED <<job, tries, stops>>

\* Mutant: an attempt that failed is not counted.
JobReturns_Uncounted(c) ==
  /\ at[c]["job"] \in {"returned", "rejected"}
  /\ job' = [job EXCEPT ![c] = IF at[c]["job"] = "returned" THEN "succeeded" ELSE "failed"]
  /\ Goes(c, "job", "out")
  /\ UNCHANGED <<tries, result, announced, stops>>

JobReturns(c) ==
  /\ at[c]["job"] \in {"returned", "rejected"}
  /\ job' = [job EXCEPT ![c] = IF at[c]["job"] = "returned"
                               THEN "succeeded" ELSE AfterFailure(tries[c])]
  /\ tries' = [tries EXCEPT ![c] = @ + 1]
  /\ Goes(c, "job", "out")
  /\ UNCHANGED <<result, announced, stops>>

TaskReturns(c) ==
  /\ at[c]["task"] \in {"returned", "rejected"}
  /\ Goes(c, "task", "out")
  /\ UNCHANGED <<job, tries, result, announced, stops>>

\* The application stops and starts again: rows stay, promises are gone.
Stopped ==
  /\ stops < MaxStops
  /\ stops' = stops + 1
  /\ job' = [c \in Items |-> Resumed(job[c])]
  /\ at' = [c \in Items |-> [w \in Callers |-> "out"]]
  /\ UNCHANGED <<tries, announced>>

Restart == Stopped /\ UNCHANGED result

\* It may stop after putCallResult and before onAnalyzed.
StopAfterPut(c, w) ==
  /\ at[c][w] \in Running
  /\ Stopped
  /\ Put(c, "ok")

AnalysisStep(c) == \/ ProcessDue(c)
                   \/ \E w \in Callers : ModelAnswers(c, w)
                   \/ JobReturns(c) \/ TaskReturns(c)

Next == \/ \E c \in Items : \/ CallEnded(c) \/ TaskAnalyze(c) \/ AnalysisStep(c)
                            \/ \E w \in Callers : StopAfterPut(c, w)
        \/ Restart

Spec == Init /\ [][Next]_analysisVars

\* The scheduler ticks, a model turn ends or times out, promises settle.
Fairness == /\ WF_analysisVars(\E c \in Items : ProcessDue(c))
            /\ \A c \in Items :
                 /\ WF_analysisVars(\E w \in Callers : ModelAnswers(c, w))
                 /\ WF_analysisVars(JobReturns(c))
                 /\ WF_analysisVars(TaskReturns(c))
-----------------------------------------------------------------------------
TypeOK == /\ job \in [Items -> JobStatus]
          /\ tries \in [Items -> 0 .. MaxTries]
          /\ result \in [Items -> {"none", "ok", "error"}]
          /\ at \in [Items -> [Callers -> At]]
          /\ announced \in SUBSET Items
          /\ stops \in 0 .. MaxStops

\* "The same callId + schemaHash returns the stored result without running
\* another model turn", and the job and the task share one run: for a call
\* nobody runs the model once a result is stored, and never two callers do.
OneModelRun ==
  \A c \in Items : /\ InFlight(c) => result[c] = "none"
                   /\ ~ \A w \in Callers : at[c][w] \in Running

\* A job that succeeded left a result, and a caller that waits for another's
\* run waits for one that is there: nobody joins a promise that is gone.
NobodyWaitsInVain ==
  \A c \in Items : /\ job[c] = "succeeded" => result[c] # "none"
                   /\ (\E w \in Callers : at[c][w] = "joined") => InFlight(c)
                   /\ job[c] = "processing" <=> at[c]["job"] # "out"

Durable == INSTANCE DurableJob WITH
             Jobs <- Items, Limit <- MaxTries, stage <- [c \in Items |-> Stage(job[c])]

\* The rows of analysis_jobs keep the promises of DurableJob.
AnalysisIsDurable == Durable!DSpec

\* The job of a call that ended is settled, whatever the model and the task do.
JobSettles == \A c \in Items : job[c] = "pending" ~> job[c] \in {"succeeded", "dead"}
=============================================================================
