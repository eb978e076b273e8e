--------------------------- MODULE PostCallProofs ---------------------------
(***************************************************************************)
(* Proofs about the four modules of MCPostCall, for any items, attempts    *)
(* and stops.  A behaviour of MCPostCall is one of each of its modules     *)
(* (PartsRun), so that what is proved of AnalysisJobs, CrmSync,            *)
(* AppointmentSync and WebhookOutbox holds of it.  The three tables with   *)
(* the statuses of JobQueue change by the moves of TableMove, which keep   *)
(* one job processing at a time and attempts left to whatever is not       *)
(* settled, and which DurableJob permits.                                  *)
(***************************************************************************)
EXTENDS MCPostCall, FiniteSetTheorems, TLAPS

-----------------------------------------------------------------------------
(* The analysis: besides the types, the two properties of AnalysisJobs of   *)
(* callers and promises; Handed, that a caller that returns has a stored    *)
(* result; and JobInv, one job is processed at a time and has attempts left *)

JobInv ==
  /\ \A c, d \in Items : job[c] = "processing" /\ job[d] = "processing" => c = d
  /\ \A c \in Items : job[c] \notin {"succeeded", "dead"} => tries[c] < MaxTries

Handed == \A c \in Items, w \in Callers : at[c][w] = "returned" => result[c] # "none"

Values == /\ job \in [Items -> JobStatus]
          /\ tries \in [Items -> 0 .. MaxTries]
          /\ result \in [Items -> {"none", "ok", "error"}]
          /\ at \in [Items -> [Callers -> At]]
          /\ stops \in 0 .. MaxStops

Inv == Values /\ OneModelRun /\ NobodyWaitsInVain /\ Handed /\ JobInv

-----------------------------------------------------------------------------
(* Where the callers are, after one of them goes on, or all that joined do *)

\* What one caller of analyze does changes that caller alone.
LEMMA GoesAt ==
  ASSUME Values, NEW c \in Items, NEW w \in Callers, NEW to \in At, Goes(c, w, to)
  PROVE  /\ at' \in [Items -> [Callers -> At]]
         /\ at'[c][w] = to
         /\ \A d \in Items, v \in Callers : d # c \/ v # w => at'[d][v] = at[d][v]
BY SMT DEF Values, Goes

\* Where the promise of a call settles, its callers go on.
LEMMA SettlesAt ==
  ASSUME Values, NEW c \in Items, NEW w \in Callers, NEW to \in At, Settles(c, w, to)
  PROVE  /\ at' \in [Items -> [Callers -> At]]
         /\ \A d \in Items, v \in Callers :
              at'[d][v] = IF d = c /\ (v = w \/ at[c][v] = "joined") THEN to ELSE at[d][v]
BY SMT DEF Values, Settles

\* The first result stays; nobody else's changes.
LEMMA PutResult ==
  ASSUME Values, NEW c \in Items, NEW r \in {"ok", "error"}, Put(c, r)
  PROVE  /\ result' \in [Items -> {"none", "ok", "error"}]
         /\ result'[c] # "none"
         /\ \A d \in Items : d # c => result'[d] = result[d]
         /\ \A d \in Items : result[d] # "none" => result'[d] # "none"
BY SMT DEF Values, Put

\* A step that leaves the table alone keeps what is said of the table alone.
LEMMA TableKept ==
  ASSUME JobInv, UNCHANGED <<job, tries>> PROVE JobInv'
BY SMT DEF JobInv

-----------------------------------------------------------------------------
(* The steps of a promise: somebody asks, the run settles *)

\* What analyze and persist do to the callers of c, and to nobody else.
CallersOf(c) ==
  /\ InFlight(c) => result[c] = "none"
  /\ ~ \A w \in Callers : at[c][w] \in Running
  /\ (\E w \in Callers : at[c][w] = "joined") => InFlight(c)
  /\ \A w \in Callers : at[c][w] = "returned" => result[c] # "none"

\* A run that settles leaves nobody running or waiting, and what the others of
\* the call were doing before.
LEMMA SettledCallers ==
  ASSUME Values, NEW c \in Items, CallersOf(c), NEW w \in Callers, ~InFlight(c) \/ at[c][w] \in Running,
         NEW to \in {"returned", "rejected"}, Settles(c, w, to),
         result' \in [Items -> {"none", "ok", "error"}],
         to = "returned" => result'[c] # "none",
         result[c] # "none" => result'[c] # "none"
  PROVE  /\ CallersOf(c)' /\ at' \in [Items -> [Callers -> At]]
         /\ at'[c][w] = to
         /\ \A v \in Callers : (at[c][v] = "out" /\ v # w) <=> at'[c][v] = "out"
         /\ \A d \in Items \ {c}, v \in Callers : at'[d][v] = at[d][v]
<1>1. to \in At
    BY SMT DEF At
<1>2. /\ at' \in [Items -> [Callers -> At]]
      /\ \A d \in Items, v \in Callers :
           at'[d][v] = IF d = c /\ (v = w \/ at[c][v] = "joined") THEN to ELSE at[d][v]
    BY <1>1, SettlesAt
<1>3. \A v \in Callers : at'[c][v] \notin Running /\ at'[c][v] # "joined"
    BY <1>2, SMT DEF CallersOf, InFlight, Callers, Running, Values, At
<1>4. \A v \in Callers : at'[c][v] = "returned" => result'[c] # "none"
    BY <1>2, SMT DEF CallersOf
<1>5. CallersOf(c)'
    BY <1>3, <1>4, SMT DEF CallersOf, InFlight, Callers
<1> QED BY <1>2, <1>5, SMT DEF Callers

\* Whoever asks is with the run, runs it, or is to go on.
LEMMA AskingCaller ==
  ASSUME Values, NEW c \in Items, CallersOf(c), NEW w \in Callers, Analyze(c, w)
  PROVE  /\ CallersOf(c)' /\ at' \in [Items -> [Callers -> At]]
         /\ at'[c][w] # "out"
         /\ \A v \in Callers \ {w} : at[c][v] = "out" <=> at'[c][v] = "out"
         /\ \A d \in Items \ {c}, v \in Callers : at'[d][v] = at[d][v]
         /\ result' \in [Items -> {"none", "ok", "error"}]
         /\ \A d \in Items \ {c} : result'[d] = result[d]
         /\ result[c] # "none" => result'[c] # "none"
<1>1. at[c][w] = "out"
    BY DEF Analyze
<1>2. CASE \E to \in At : /\ Goes(c, w, to) /\ UNCHANGED <<result, announced>>
                          /\ to # "out"
                          /\ to = "joined" => InFlight(c)
                          /\ to = "returned" => result[c] # "none"
                          /\ to \in Running => to = "first" /\ result[c] = "none" /\ ~InFlight(c)
    <2>1. PICK to \in At : /\ Goes(c, w, to) /\ UNCHANGED <<result, announced>>
                           /\ to # "out"
                           /\ to = "joined" => InFlight(c)
                           /\ to = "returned" => result[c] # "none"
                           /\ to \in Running => to = "first" /\ result[c] = "none" /\ ~InFlight(c)
        BY <1>2
    <2>2. /\ at' \in [Items -> [Callers -> At]]
          /\ at'[c][w] = to
          /\ \A d \in Items, v \in Callers : d # c \/ v # w => at'[d][v] = at[d][v]
        BY <2>1, GoesAt
    <2>3. CallersOf(c)'
        BY <1>1, <2>1, <2>2, SMT DEF CallersOf, InFlight, Callers, Running, Values, At
    <2> QED BY <2>1, <2>2, <2>3, SMT DEF Values, Callers
<1>3. CASE result[c] = "none" /\ ~InFlight(c) /\ Persist(c, w, "ok")
    <2>1. Put(c, "ok") /\ Settles(c, w, "returned")
        BY <1>3 DEF Persist
    <2>2. /\ result' \in [Items -> {"none", "ok", "error"}]
          /\ result'[c] # "none"
          /\ \A d \in Items : d # c => result'[d] = result[d]
        BY <2>1, PutResult
    <2> QED BY <1>3, <2>1, <2>2, SettledCallers, SMT DEF Callers
<1> QED
    <2>1. {"returned", "joined", "first", "rejected"} \subseteq At
        BY DEF At
    <2> QED BY <1>2, <1>3, <2>1, Zenon DEF Analyze, Running

-----------------------------------------------------------------------------
(* One lemma per action *)

\* What a row of the table says of the result and of the job's own caller.
RowOf(c) == /\ job[c] = "succeeded" => result[c] # "none"
            /\ job[c] = "processing" <=> at[c]["job"] # "out"

CallsInv == \A c \in Items : CallersOf(c) /\ RowOf(c)

\* The invariant, call by call.
LEMMA InvParts == Inv <=> Values /\ CallsInv /\ JobInv
BY Zenon DEF Inv, OneModelRun, NobodyWaitsInVain, Handed, CallsInv, CallersOf, RowOf

\* A call whose row, result and callers do not change is as it was.
LEMMA CallKept ==
  ASSUME Values, at' \in [Items -> [Callers -> At]], NEW d \in Items, CallersOf(d), RowOf(d),
         job'[d] = job[d], result'[d] = result[d], \A v \in Callers : at'[d][v] = at[d][v]
  PROVE  CallersOf(d)' /\ RowOf(d)'
BY SMT DEF CallersOf, RowOf, InFlight, Callers

\* The call ends.
LEMMA EndedStep ==
  ASSUME Values, CallsInv, JobInv, NEW c \in Items, CallEnded(c)
  PROVE  Values' /\ CallsInv' /\ JobInv'
<1>1. Values' /\ JobInv'
    BY SMT DEF Values, JobInv, CallEnded, Enqueued, JobStatus
<1>2. \A d \in Items : RowOf(d)'
    BY SMT DEF Values, CallsInv, RowOf, CallEnded, Enqueued
<1>3. \A d \in Items : CallersOf(d)'
    BY SMT DEF CallsInv, CallEnded, CallersOf, InFlight
<1> QED BY <1>1, <1>2, <1>3 DEF CallsInv

\* A batch takes a job that is due.
LEMMA DueStep ==
  ASSUME Values, CallsInv, JobInv, NEW c \in Items, ProcessDue(c)
  PROVE  Values' /\ CallsInv' /\ JobInv'
<1>1. /\ \A d \in Items : job[d] # "processing"
      /\ Due(job[c]) /\ job' = [job EXCEPT ![c] = "processing"]
      /\ UNCHANGED <<tries, stops>>
    BY DEF ProcessDue
<1>2. "job" \in Callers /\ CallersOf(c) /\ Analyze(c, "job")
    BY DEF Callers, CallsInv, ProcessDue
<1>3. /\ CallersOf(c)' /\ at' \in [Items -> [Callers -> At]]
      /\ at'[c]["job"] # "out"
      /\ \A d \in Items \ {c}, v \in Callers : at'[d][v] = at[d][v]
      /\ result' \in [Items -> {"none", "ok", "error"}]
      /\ \A d \in Items \ {c} : result'[d] = result[d]
    BY <1>2, AskingCaller
<1>4. /\ job' \in [Items -> JobStatus] /\ job'[c] = "processing"
      /\ \A d \in Items \ {c} : job'[d] = job[d]
    BY <1>1, SMT DEF Values, JobStatus
<1>5. JobInv'
    BY <1>1, <1>4, SMT DEF JobInv, Due
<1>6. Values' /\ JobInv'
    BY <1>1, <1>3, <1>4, <1>5 DEF Values
<1>7. RowOf(c)'
    BY <1>1, <1>3, SMT DEF RowOf, Values
<1>8. \A d \in Items \ {c} : job'[d] = job[d]
    BY <1>1 DEF Values
<1>9. \A d \in Items \ {c} : CallersOf(d)' /\ RowOf(d)'
    BY <1>3, <1>8, CallKept, Zenon DEF CallsInv
<1> QED BY <1>3, <1>6, <1>7, <1>9 DEF CallsInv

\* A caller asks for the analysis.
LEMMA AskStep ==
  ASSUME Values, CallsInv, JobInv, NEW c \in Items, TaskAnalyze(c)
  PROVE  Values' /\ CallsInv' /\ JobInv'
<1>1. Analyze(c, "task") /\ UNCHANGED <<job, tries, stops>>
    BY DEF TaskAnalyze
<1>2. "task" \in Callers /\ "job" \in Callers \ {"task"} /\ CallersOf(c) /\ RowOf(c)
    BY DEF Callers, CallsInv
<1>3. /\ CallersOf(c)' /\ at' \in [Items -> [Callers -> At]]
      /\ at[c]["job"] = "out" <=> at'[c]["job"] = "out"
      /\ \A d \in Items \ {c}, v \in Callers : at'[d][v] = at[d][v]
      /\ result' \in [Items -> {"none", "ok", "error"}]
      /\ \A d \in Items \ {c} : result'[d] = result[d]
      /\ result[c] # "none" => result'[c] # "none"
    BY <1>1, <1>2, AskingCaller
<1>4. Values' /\ JobInv'
    BY <1>1, <1>3, SMT DEF Values, JobInv
<1>5. RowOf(c)'
    BY <1>1, <1>2, <1>3, SMT DEF RowOf
<1>6. \A d \in Items \ {c} : CallersOf(d)' /\ RowOf(d)'
    BY <1>1, <1>3, CallKept, SMT DEF CallsInv
<1> QED BY <1>3, <1>4, <1>5, <1>6 DEF CallsInv

\* A run that settles, whatever became of it.
LEMMA SettledStep ==
  ASSUME Values, CallsInv, JobInv, NEW c \in Items, NEW w \in Callers, at[c][w] \in Running,
         NEW to \in {"returned", "rejected"}, Settles(c, w, to), UNCHANGED <<job, tries, stops>>,
         result' \in [Items -> {"none", "ok", "error"}],
         result[c] # "none" => result'[c] # "none",
         to = "returned" => result'[c] # "none",
         \A d \in Items \ {c} : result'[d] = result[d]
  PROVE  Values' /\ CallsInv' /\ JobInv'
<1>1. CallersOf(c) /\ RowOf(c)
    BY DEF CallsInv
<1>2. /\ CallersOf(c)' /\ at' \in [Items -> [Callers -> At]]
      /\ at'[c][w] = to
      /\ \A v \in Callers : (at[c][v] = "out" /\ v # w) <=> at'[c][v] = "out"
      /\ \A d \in Items \ {c}, v \in Callers : at'[d][v] = at[d][v]
    BY <1>1, SettledCallers
<1>3. Values' /\ JobInv'
    BY <1>2, SMT DEF Values, JobInv
<1>4. RowOf(c)'
    BY <1>1, <1>2, SMT DEF RowOf, Callers, Running
<1>5. \A d \in Items \ {c} : CallersOf(d)' /\ RowOf(d)'
    BY <1>2, CallKept, SMT DEF CallsInv
<1> QED BY <1>2, <1>3, <1>4, <1>5 DEF CallsInv

\* The model answers, or fails.
LEMMA AnswerStep ==
  ASSUME Values, CallsInv, JobInv, NEW c \in Items, NEW w \in Callers, ModelAnswers(c, w)
  PROVE  Values' /\ CallsInv' /\ JobInv'
<1>1. UNCHANGED <<job, tries, stops>>
    BY DEF ModelAnswers
<1>2. ASSUME NEW r \in {"ok", "error"}, at[c][w] \in Running, Persist(c, w, r)
      PROVE  Values' /\ CallsInv' /\ JobInv'
    <2>1. Put(c, r) /\ Settles(c, w, "returned")
        BY <1>2 DEF Persist
    <2>2. /\ result' \in [Items -> {"none", "ok", "error"}]
          /\ result'[c] # "none"
          /\ \A d \in Items : d # c => result'[d] = result[d]
        BY <2>1, PutResult
    <2> QED BY <1>1, <1>2, <2>1, <2>2, SettledStep
<1>3. CASE at[c][w] = "first" /\ Goes(c, w, "second") /\ UNCHANGED <<result, announced>>
    <2>1. "second" \in At
        BY DEF At
    <2>2. /\ at' \in [Items -> [Callers -> At]]
          /\ at'[c][w] = "second"
          /\ \A d \in Items, v \in Callers : d # c \/ v # w => at'[d][v] = at[d][v]
        BY <1>3, <2>1, GoesAt
    <2>3. CallersOf(c) /\ RowOf(c)
        BY DEF CallsInv
    <2>4. CallersOf(c)' /\ RowOf(c)'
        BY <1>1, <1>3, <2>2, <2>3, SMT DEF CallersOf, RowOf, InFlight, Running, Callers
    <2>5. \A d \in Items \ {c} : CallersOf(d)' /\ RowOf(d)'
        BY <1>1, <1>3, <2>2, CallKept, SMT DEF CallsInv
    <2>6. Values' /\ JobInv'
        BY <1>1, <1>3, <2>2, SMT DEF Values, JobInv
    <2> QED BY <2>4, <2>5, <2>6 DEF CallsInv
<1>4. CASE at[c][w] \in Running /\ Settles(c, w, "rejected") /\ UNCHANGED <<result, announced>>
    <2>1. result' \in [Items -> {"none", "ok", "error"}] /\ result' = result
        BY <1>4 DEF Values
    <2> QED BY <1>1, <1>4, <2>1, SettledStep
<1>5. "first" \in Running /\ "second" \in Running
    BY DEF Running
<1> QED BY <1>2, <1>3, <1>4, <1>5, Zenon DEF ModelAnswers

\* What was awaited returns to the job or to the task.
LEMMA ReturnStep ==
  ASSUME Values, CallsInv, JobInv, NEW c \in Items, JobReturns(c) \/ TaskReturns(c)
  PROVE  Values' /\ CallsInv' /\ JobInv'
<1> DEFINE Back(w) == at[c][w] \in {"returned", "rejected"} /\ Goes(c, w, "out")
<1>1. CallersOf(c) /\ RowOf(c) /\ "out" \in At /\ MaxTries \in Nat \ {0}
    BY JobAssumption DEF CallsInv, At
<1>2. ASSUME NEW w \in Callers, Back(w)
      PROVE  /\ at' \in [Items -> [Callers -> At]]
             /\ at'[c][w] = "out"
             /\ \A d \in Items, v \in Callers : d # c \/ v # w => at'[d][v] = at[d][v]
    BY <1>1, <1>2, GoesAt
<1>3. ASSUME NEW w \in Callers, Back(w), UNCHANGED result
      PROVE  CallersOf(c)'
    BY <1>1, <1>2, <1>3, SMT DEF CallersOf, InFlight, Running, Callers
<1>4. CASE JobReturns(c)
    <2>1. Back("job") /\ "job" \in Callers
        BY <1>4 DEF JobReturns, Callers
    <2>2. /\ UNCHANGED <<result, stops>> /\ at[c]["job"] \in {"returned", "rejected"}
          /\ job' = [job EXCEPT ![c] = IF at[c]["job"] = "returned"
                                       THEN "succeeded" ELSE AfterFailure(tries[c])]
          /\ tries' = [tries EXCEPT ![c] = @ + 1]
        BY <1>4 DEF JobReturns
    <2>3. /\ at' \in [Items -> [Callers -> At]] /\ at'[c]["job"] = "out"
          /\ \A d \in Items \ {c}, v \in Callers : at'[d][v] = at[d][v]
        BY <1>2, <2>1
    <2>4. job[c] = "processing" /\ tries[c] < MaxTries
        BY <1>1, <2>2, SMT DEF RowOf, JobInv
    <2>5. /\ job'[c] = IF at[c]["job"] = "returned" THEN "succeeded" ELSE AfterFailure(tries[c])
          /\ \A d \in Items \ {c} : job'[d] = job[d] /\ tries'[d] = tries[d]
          /\ tries'[c] = tries[c] + 1
        BY <2>2, SMT DEF Values
    <2>6. /\ job'[c] \in {"succeeded", "failed", "dead"}
          /\ job'[c] = "failed" => tries[c] + 1 < MaxTries
          /\ job'[c] = "succeeded" => at[c]["job"] = "returned"
        BY <1>1, <2>5, SMT DEF AfterFailure, Values
    <2>7. job' \in [Items -> JobStatus]
        BY <2>2, <2>5, <2>6, SMT DEF Values, JobStatus
    <2>8. tries' \in [Items -> 0 .. MaxTries]
        BY <1>1, <2>2, <2>4, SMT DEF Values
    <2>9. JobInv'
        BY <2>5, <2>6, SMT DEF JobInv
    <2>10. Values' /\ JobInv'
        BY <2>2, <2>3, <2>7, <2>8, <2>9 DEF Values
    <2>11. RowOf(c)'
        BY <1>1, <2>1, <2>2, <2>3, <2>6, SMT DEF RowOf, CallersOf
    <2>12. \A d \in Items \ {c} : job'[d] = job[d] /\ result'[d] = result[d]
        BY <2>2, <2>5 DEF Values
    <2>13. \A d \in Items \ {c} : CallersOf(d)' /\ RowOf(d)'
        BY <2>3, <2>12, CallKept, Zenon DEF CallsInv
    <2> QED BY <1>3, <2>1, <2>2, <2>10, <2>11, <2>13 DEF CallsInv
<1>5. CASE TaskReturns(c)
    <2>1. /\ Back("task") /\ UNCHANGED <<job, tries, result, stops>>
          /\ "task" \in Callers /\ "job" \in Callers /\ "job" # "task"
        BY <1>5 DEF TaskReturns, Callers
    <2>2. /\ at' \in [Items -> [Callers -> At]] /\ at'[c]["job"] = at[c]["job"]
          /\ \A d \in Items \ {c}, v \in Callers : at'[d][v] = at[d][v]
        BY <1>2, <2>1
    <2>3. Values' /\ JobInv' /\ RowOf(c)'
        BY <1>1, <2>1, <2>2, SMT DEF Values, JobInv, RowOf
    <2>4. \A d \in Items \ {c} : CallersOf(d)' /\ RowOf(d)'
        BY <2>1, <2>2, CallKept, SMT DEF CallsInv
    <2> QED BY <1>3, <2>1, <2>3, <2>4 DEF CallsInv
<1> QED BY <1>4, <1>5

\* The application stops.
LEMMA StopStep ==
  ASSUME Values, CallsInv, JobInv, Stopped,
         \/ UNCHANGED result
         \/ \E c \in Items : Put(c, "ok")
  PROVE  Values' /\ CallsInv' /\ JobInv'
<1>1. MaxStops \in Nat
    BY JobAssumption
<1>2. /\ result' \in [Items -> {"none", "ok", "error"}]
      /\ \A d \in Items : result[d] # "none" => result'[d] # "none"
    <2>1. CASE UNCHANGED result
        BY <2>1 DEF Values
    <2>2. CASE \E c \in Items : Put(c, "ok")
        BY <2>2, PutResult
    <2> QED BY <2>1, <2>2
<1>3. /\ at' = [c \in Items |-> [w \in Callers |-> "out"]]
      /\ job' = [c \in Items |-> Resumed(job[c])]
      /\ stops' = stops + 1 /\ stops < MaxStops /\ tries' = tries
    BY DEF Stopped
<1>4. Values' /\ JobInv'
    BY <1>1, <1>2, <1>3, SMT DEF Values, JobInv, Resumed, JobStatus, At
<1>5. \A d \in Items : CallersOf(d)'
    BY <1>3, SMT DEF CallersOf, InFlight, Running, Callers
<1>6. \A d \in Items : RowOf(d)'
    BY <1>2, <1>3, SMT DEF CallsInv, RowOf, Resumed, Callers
<1> QED BY <1>4, <1>5, <1>6 DEF CallsInv

-----------------------------------------------------------------------------
(* The theorems *)

\* The invariant holds at first.
LEMMA InitInv == Init => Inv
<1> SUFFICES ASSUME Init PROVE Inv
    OBVIOUS
<1>1. MaxTries \in Nat \ {0} /\ MaxStops \in Nat
    BY JobAssumption
<1>2. Values /\ JobInv
    BY <1>1, SMT DEF Init, Values, JobInv, JobStatus, At
<1>3. /\ "job" \in Callers
      /\ \A c \in Items : job[c] = "none" /\ \A w \in Callers : at[c][w] = "out"
    BY DEF Init, Callers
<1>4. "out" \notin Running /\ "out" \notin {"joined", "returned"}
      /\ "none" \notin {"succeeded", "processing"}
    BY DEF Running
<1>5. \A c \in Items : CallersOf(c)
    BY <1>3, <1>4, Zenon DEF CallersOf, InFlight
<1>6. \A c \in Items : RowOf(c)
    BY <1>3, <1>4, Zenon DEF RowOf
<1> QED BY <1>2, <1>5, <1>6, InvParts DEF CallsInv

\* Every step keeps it.
LEMMA StepInv == Inv /\ [Next]_analysisVars => Inv'
<1> SUFFICES ASSUME Values, CallsInv, JobInv, [Next]_analysisVars
             PROVE  Values' /\ CallsInv' /\ JobInv'
    BY InvParts, Zenon DEF Inv, OneModelRun, NobodyWaitsInVain, Handed, CallsInv, CallersOf, RowOf
<1>1. ASSUME NEW c \in Items, CallEnded(c) PROVE Values' /\ CallsInv' /\ JobInv'
    BY <1>1, EndedStep
<1>2. ASSUME NEW c \in Items, TaskAnalyze(c) PROVE Values' /\ CallsInv' /\ JobInv'
    BY <1>2, AskStep
<1>3. ASSUME NEW c \in Items, AnalysisStep(c) PROVE Values' /\ CallsInv' /\ JobInv'
    BY <1>3, DueStep, AnswerStep, ReturnStep, Zenon DEF AnalysisStep
<1>4. ASSUME NEW c \in Items, NEW w \in Callers, StopAfterPut(c, w)
      PROVE  Values' /\ CallsInv' /\ JobInv'
    BY <1>4, StopStep, Zenon DEF StopAfterPut
<1>5. CASE Restart
    BY <1>5, StopStep, Zenon DEF Restart
<1>6. CASE UNCHANGED analysisVars
    <2>1. UNCHANGED <<job, tries, result, at, stops>>
        BY <1>6 DEF analysisVars
    <2>2. Values' /\ JobInv'
        BY <2>1 DEF Values, JobInv
    <2>3. CallsInv'
        BY <2>1 DEF CallsInv, CallersOf, RowOf, InFlight
    <2> QED BY <2>2, <2>3
<1> QED BY <1>1, <1>2, <1>3, <1>4, <1>5, <1>6, Zenon DEF Next

\* In every reachable state the invariant holds.
THEOREM AnalysisInvariant == Spec => []Inv
<1> QED BY InitInv, StepInv, PTL DEF Spec

\* A second request for the analysis of a call (analyze) never runs the model
\* beside the first, nor after a result is stored.
THEOREM AnalysisRunsOnce == Spec => []OneModelRun
<1>1. Inv => OneModelRun
    BY DEF Inv
<1> QED BY <1>1, AnalysisInvariant, PTL

\* A caller that joined inFlight waits for a run that is there, and a job that
\* succeeded left its result in call_results.
THEOREM AnalysisAnswersAll == Spec => []NobodyWaitsInVain
<1>1. Inv => NobodyWaitsInVain
    BY DEF Inv
<1> QED BY <1>1, AnalysisInvariant, PTL

-----------------------------------------------------------------------------
(* The table keeps the promises of DurableJob *)

Stages == [c \in Items |-> Stage(job[c])]

\* A row that changes alone is a job that changes its stage alone.
LEMMA OneStage ==
  ASSUME job \in [Items -> JobStatus], NEW c \in Items, NEW s, job' = [job EXCEPT ![c] = s]
  PROVE  Stages' = [Stages EXCEPT ![c] = Stage(s)]
<1>1. \A d \in Items : job'[d] = IF d = c THEN s ELSE job[d]
    BY DEF JobStatus
<1> QED BY <1>1, Zenon DEF Stages

\* The stages of the jobs, from their statuses.
LEMMA StageOf ==
  /\ Stage("none") = "absent" /\ Stage("pending") = "waiting" /\ Stage("failed") = "waiting"
  /\ Stage("processing") = "working" /\ Stage("succeeded") = "done" /\ Stage("dead") = "dead"
BY DEF Stage, Due

\* Every step of the module is a step of DurableJob, or leaves its rows alone.
LEMMA DurableStep ==
  ASSUME Inv, [Next]_analysisVars
  PROVE  [Durable!DNext]_(Durable!durableVars)
<1>1. Values /\ CallsInv /\ JobInv
    BY InvParts
<1>2. /\ job \in [Items -> JobStatus] /\ tries \in [Items -> 0 .. MaxTries]
      /\ \A c \in Items : Stages[c] = Stage(job[c])
    BY <1>1 DEF Values, Stages
<1>3. ASSUME UNCHANGED <<job, tries>> PROVE UNCHANGED Durable!durableVars
    BY <1>3 DEF Durable!durableVars
<1>4. ASSUME NEW c \in Items, CallEnded(c)
      PROVE  Durable!DNext \/ UNCHANGED Durable!durableVars
    <2>1. job' = [job EXCEPT ![c] = Enqueued(job[c])] /\ UNCHANGED tries
        BY <1>4 DEF CallEnded
    <2>2. CASE job[c] = "none"
        <3>1. job' = [job EXCEPT ![c] = "pending"]
            BY <2>1, <2>2 DEF Enqueued
        <3>2. Stages' = [Stages EXCEPT ![c] = "waiting"]
            <4>1. Stages' = [Stages EXCEPT ![c] = Stage("pending")]
                BY <1>2, <3>1, OneStage
            <4> QED BY <4>1, StageOf
        <3>3. Stages' = [d \in Items |-> IF d \in {c} THEN "waiting" ELSE Stages[d]]
            BY <3>2 DEF Stages
        <3>4. Durable!Create({c})
            BY <1>2, <2>1, <2>2, <3>3, StageOf DEF Durable!Create, Durable!Uncounted, Stages
        <3> QED BY <3>4 DEF Durable!DNext
    <2>3. CASE job[c] # "none"
        <3>1. job' = job
            BY <1>2, <2>1, <2>3 DEF Enqueued
        <3> QED BY <1>3, <2>1, <3>1
    <2> QED BY <2>2, <2>3
<1>5. ASSUME NEW c \in Items, ProcessDue(c) PROVE Durable!DNext
    <2>1. /\ \A d \in Items : job[d] # "processing"
          /\ Due(job[c]) /\ job' = [job EXCEPT ![c] = "processing"] /\ UNCHANGED tries
        BY <1>5 DEF ProcessDue
    <2>2. Stages' = [Stages EXCEPT ![c] = "working"]
        <3>1. Stages' = [Stages EXCEPT ![c] = Stage("processing")]
            BY <1>2, <2>1, OneStage
        <3> QED BY <3>1, StageOf
    <2>3. Stages[c] = "waiting" /\ \A d \in Items : Stages[d] # "working"
        BY <1>2, <2>1, StageOf DEF Due, JobStatus
    <2>4. Durable!Take(c)
        BY <2>1, <2>2, <2>3 DEF Durable!Take, Durable!GoTo, Durable!Uncounted, Stages
    <2> QED BY <2>4 DEF Durable!DNext
<1>6. ASSUME NEW c \in Items, JobReturns(c) PROVE Durable!DNext
    <2>1. /\ at[c]["job"] \in {"returned", "rejected"}
          /\ job' = [job EXCEPT ![c] = IF at[c]["job"] = "returned"
                                       THEN "succeeded" ELSE AfterFailure(tries[c])]
          /\ tries' = [tries EXCEPT ![c] = @ + 1]
        BY <1>6 DEF JobReturns
    <2>2. job[c] = "processing" /\ tries[c] < MaxTries /\ tries[c] \in Nat /\ MaxTries \in Nat
        BY <1>1, <1>2, <2>1, JobAssumption, SMT DEF CallsInv, RowOf, JobInv
    <2>3. Stages[c] = "working"
        BY <1>2, <2>2, StageOf
    <2>4. CASE at[c]["job"] = "returned"
        <3>1. job' = [job EXCEPT ![c] = "succeeded"]
            BY <2>1, <2>4
        <3>2. Stages' = [Stages EXCEPT ![c] = "done"]
            <4>1. Stages' = [Stages EXCEPT ![c] = Stage("succeeded")]
                BY <1>2, <3>1, OneStage
            <4> QED BY <4>1, StageOf
        <3>3. Durable!Finish(c)
            BY <2>1, <2>3, <3>2 DEF Durable!Finish, Durable!GoTo, Durable!Counted, Stages
        <3> QED BY <3>3 DEF Durable!DNext
    <2>5. CASE at[c]["job"] # "returned" /\ tries[c] + 1 < MaxTries
        <3>1. AfterFailure(tries[c]) = "failed"
            BY <2>2, <2>5, SMT DEF AfterFailure
        <3>2. job' = [job EXCEPT ![c] = "failed"]
            BY <2>1, <2>5, <3>1
        <3>3. Stages' = [Stages EXCEPT ![c] = "waiting"]
            <4>1. Stages' = [Stages EXCEPT ![c] = Stage("failed")]
                BY <1>2, <3>2, OneStage
            <4> QED BY <4>1, StageOf
        <3>4. Durable!Retry(c)
            BY <2>1, <2>3, <2>5, <3>3 DEF Durable!Retry, Durable!GoTo, Durable!Counted, Stages
        <3> QED BY <3>4 DEF Durable!DNext
    <2>6. CASE at[c]["job"] # "returned" /\ tries[c] + 1 = MaxTries
        <3>1. AfterFailure(tries[c]) = "dead"
            BY <2>2, <2>6, SMT DEF AfterFailure
        <3>2. job' = [job EXCEPT ![c] = "dead"]
            BY <2>1, <2>6, <3>1
        <3>3. Stages' = [Stages EXCEPT ![c] = "dead"]
            <4>1. Stages' = [Stages EXCEPT ![c] = Stage("dead")]
                BY <1>2, <3>2, OneStage
            <4> QED BY <4>1, StageOf
        <3>4. Durable!Bury(c)
            BY <2>1, <2>3, <2>6, <3>3 DEF Durable!Bury, Durable!GoTo, Durable!Counted, Stages
        <3> QED BY <3>4 DEF Durable!DNext
    <2> QED BY <2>2, <2>4, <2>5, <2>6, SMT
<1>7. ASSUME Stopped PROVE Durable!DNext \/ UNCHANGED Durable!durableVars
    <2>1. job' = [d \in Items |-> Resumed(job[d])] /\ UNCHANGED tries
        BY <1>7 DEF Stopped
    <2>2. CASE \E c \in Items : job[c] = "processing"
        <3>1. PICK c \in Items : job[c] = "processing"
            BY <2>2
        <3>2. \A d \in Items : d # c => job[d] # "processing"
            BY <1>1, <3>1 DEF JobInv
        <3>3. \A d \in Items : Resumed(job[d]) = IF d = c THEN "failed" ELSE job[d]
            BY <3>1, <3>2 DEF Resumed
        <3>4. job' = [job EXCEPT ![c] = "failed"]
            BY <1>2, <2>1, <3>3
        <3>5. Stages' = [Stages EXCEPT ![c] = "waiting"]
            <4>1. Stages' = [Stages EXCEPT ![c] = Stage("failed")]
                BY <1>2, <3>4, OneStage
            <4> QED BY <4>1, StageOf
        <3>6. Stages[c] = "working"
            BY <1>2, <3>1, StageOf
        <3>7. Durable!Drop(c)
            BY <2>1, <3>5, <3>6 DEF Durable!Drop, Durable!GoTo, Durable!Uncounted, Stages
        <3> QED BY <3>7 DEF Durable!DNext
    <2>3. CASE \A c \in Items : job[c] # "processing"
        <3>1. job' = job
            BY <1>2, <2>1, <2>3, SMT DEF Resumed
        <3> QED BY <1>3, <2>1, <3>1
    <2> QED BY <2>2, <2>3
<1>8. ASSUME NEW c \in Items, TaskAnalyze(c) \/ TaskReturns(c) \/ \E w \in Callers : ModelAnswers(c, w)
      PROVE  UNCHANGED Durable!durableVars
    BY <1>3, <1>8, Zenon DEF TaskAnalyze, TaskReturns, ModelAnswers
<1>9. CASE UNCHANGED analysisVars
    BY <1>3, <1>9 DEF analysisVars
<1> QED BY <1>4, <1>5, <1>6, <1>7, <1>8, <1>9, Zenon DEF Next, AnalysisStep, StopAfterPut, Restart

\* The table analysis_jobs keeps what DurableJob promises of a job: no attempt
\* uncounted, none beyond the last permitted, one at a time, settled for good.
THEOREM AnalysisKeepsJobs == Spec => AnalysisIsDurable
<1>1. Init => Durable!DInit
    BY Zenon, StageOf DEF Init, Durable!DInit
<1>2. Inv /\ [Next]_analysisVars => [Durable!DNext]_(Durable!durableVars)
    BY DurableStep
<1> QED BY <1>1, <1>2, AnalysisInvariant, PTL DEF Spec, AnalysisIsDurable, Durable!DSpec

-----------------------------------------------------------------------------
(* Rows of JobQueue: f and t are the statuses and attempts before a step,  *)
(* g and u the ones after it                                               *)

TableInv(f, t) ==
  /\ f \in [Items -> JobStatus]
  /\ t \in [Items -> 0 .. MaxTries]
  /\ \A c, d \in Items : f[c] = "processing" /\ f[d] = "processing" => c = d
  /\ \A c \in Items : f[c] \notin {"succeeded", "dead"} => t[c] < MaxTries

Added(f, t, g, u) ==
  u = t /\ \E S \in SUBSET Items : g = [c \in Items |-> IF c \in S THEN Enqueued(f[c]) ELSE f[c]]
Taken(f, t, g, u) == \E c \in Items : /\ \A d \in Items : f[d] # "processing"
                                      /\ Due(f[c]) /\ g = [f EXCEPT ![c] = "processing"] /\ u = t
PutBack(f, t, g, u) == g = [c \in Items |-> Resumed(f[c])] /\ u = t
Ended(f, t, g, u) == \E c \in Items : /\ f[c] = "processing"
                                      /\ \/ g = [f EXCEPT ![c] = "succeeded"]
                                         \/ g = [f EXCEPT ![c] = AfterFailure(t[c])]
                                      /\ u = [t EXCEPT ![c] = @ + 1]

TableMove(f, t, g, u) ==
  \/ g = f /\ u = t
  \/ Added(f, t, g, u) \/ Taken(f, t, g, u) \/ PutBack(f, t, g, u) \/ Ended(f, t, g, u)

\* The moves of a table keep what is said of it.
LEMMA MoveKeepsTable ==
  ASSUME NEW f, NEW t, NEW g, NEW u, TableInv(f, t), TableMove(f, t, g, u)
  PROVE  TableInv(g, u)
<1>1. /\ MaxTries \in Nat \ {0}
      /\ f \in [Items -> JobStatus] /\ t \in [Items -> 0 .. MaxTries]
    BY JobAssumption DEF TableInv
<1>2. CASE Added(f, t, g, u)
    <2>1. PICK S \in SUBSET Items : g = [c \in Items |-> IF c \in S THEN Enqueued(f[c]) ELSE f[c]]
        BY <1>2 DEF Added
    <2>2. \A c \in Items : g[c] = IF c \in S THEN Enqueued(f[c]) ELSE f[c]
        BY <2>1
    <2>3. \A c \in Items : g[c] = f[c] \/ (f[c] = "none" /\ g[c] = "pending")
        BY <2>2, Zenon DEF Enqueued
    <2>4. g \in [Items -> JobStatus] /\ u = t
        BY <1>1, <1>2, <2>1, <2>3 DEF Added, JobStatus
    <2> QED BY <2>3, <2>4 DEF TableInv
<1>3. CASE Taken(f, t, g, u)
    BY <1>1, <1>3, SMT DEF Taken, JobStatus, Due, TableInv
<1>4. CASE PutBack(f, t, g, u)
    BY <1>1, <1>4, SMT DEF PutBack, JobStatus, Resumed, TableInv
<1>5. CASE Ended(f, t, g, u)
    <2>1. PICK c \in Items : /\ f[c] = "processing"
                             /\ \/ g = [f EXCEPT ![c] = "succeeded"]
                                \/ g = [f EXCEPT ![c] = AfterFailure(t[c])]
                             /\ u = [t EXCEPT ![c] = @ + 1]
        BY <1>5 DEF Ended
    <2>2. t[c] \in Nat /\ t[c] < MaxTries
        BY <1>1, <2>1, SMT DEF TableInv
    <2>3. AfterFailure(t[c]) = "dead" \/ (AfterFailure(t[c]) = "failed" /\ t[c] + 1 < MaxTries)
        BY <1>1, <2>2, SMT DEF AfterFailure
    <2>4. PICK s \in {"succeeded", "dead", "failed"} :
             g = [f EXCEPT ![c] = s] /\ (s = "failed" => t[c] + 1 < MaxTries)
        BY <2>1, <2>3
    <2>5. g \in [Items -> JobStatus]
        BY <1>1, <2>4, SMT DEF JobStatus
    <2>6. u \in [Items -> 0 .. MaxTries]
        BY <1>1, <2>1, <2>2, SMT
    <2>7. \A d \in Items \ {c} : g[d] = f[d] /\ u[d] = t[d]
        BY <1>1, <2>1, <2>4
    <2>8. g[c] = s /\ u[c] = t[c] + 1
        BY <1>1, <2>1, <2>4
    <2> QED BY <2>1, <2>4, <2>5, <2>6, <2>7, <2>8, SMT DEF TableInv
<1>6. CASE g = f /\ u = t
    BY <1>6
<1> QED BY <1>2, <1>3, <1>4, <1>5, <1>6 DEF TableMove

-----------------------------------------------------------------------------
(* What DurableJob says of a step, of the stages p and q before and after it *)

GoesTo(p, q, c, from, to) == p[c] = from /\ q = [p EXCEPT ![c] = to]

StageMove(p, t, q, u) ==
  \/ \E S \in SUBSET Items : /\ \A c \in S : p[c] = "absent"
                             /\ q = [c \in Items |-> IF c \in S THEN "waiting" ELSE p[c]]
                             /\ u = t
  \/ \E c \in Items :
       \/ (\A d \in Items : p[d] # "working") /\ GoesTo(p, q, c, "waiting", "working") /\ u = t
       \/ GoesTo(p, q, c, "working", "waiting") /\ u = t
       \/ /\ u = [t EXCEPT ![c] = @ + 1]
          /\ \/ GoesTo(p, q, c, "working", "done")
             \/ t[c] + 1 < MaxTries /\ GoesTo(p, q, c, "working", "waiting")
             \/ t[c] + 1 = MaxTries /\ GoesTo(p, q, c, "working", "dead")

StagesOf(f) == [c \in Items |-> Stage(f[c])]

\* A row that changes alone is a job that changes its stage alone.
LEMMA OneRowOneStage ==
  ASSUME NEW f \in [Items -> JobStatus], NEW c \in Items, NEW s \in JobStatus,
         NEW g, g = [f EXCEPT ![c] = s]
  PROVE  StagesOf(g) = [StagesOf(f) EXCEPT ![c] = Stage(s)]
<1>1. \A d \in Items : g[d] = IF d = c THEN s ELSE f[d]
    BY DEF JobStatus
<1> QED BY <1>1, Zenon DEF StagesOf

\* Every move of a table is one that DurableJob permits, or moves no row.
LEMMA MoveIsDurable ==
  ASSUME NEW f, NEW t, NEW g, NEW u, TableInv(f, t), TableMove(f, t, g, u)
  PROVE  StageMove(StagesOf(f), t, StagesOf(g), u) \/ (StagesOf(g) = StagesOf(f) /\ u = t)
<1>1. /\ f \in [Items -> JobStatus] /\ MaxTries \in Nat
      /\ \A c \in Items : StagesOf(f)[c] = Stage(f[c])
    BY JobAssumption DEF TableInv, StagesOf
<1>2. CASE g = f /\ u = t
    BY <1>2
<1>3. CASE Added(f, t, g, u)
    <2>1. PICK S \in SUBSET Items : g = [c \in Items |-> IF c \in S THEN Enqueued(f[c]) ELSE f[c]]
        BY <1>3 DEF Added
    <2> DEFINE New == {c \in S : f[c] = "none"}
    <2>2. \A c \in Items : Stage(g[c]) = IF c \in New THEN "waiting" ELSE Stage(f[c])
        BY <2>1, StageOf DEF Enqueued
    <2>3. StagesOf(g) = [c \in Items |-> IF c \in New THEN "waiting" ELSE StagesOf(f)[c]]
        BY <1>1, <2>2, Zenon DEF StagesOf
    <2>4. New \in SUBSET Items /\ (\A c \in New : StagesOf(f)[c] = "absent") /\ u = t
        BY <1>1, <1>3, StageOf DEF Added
    <2> HIDE DEF New
    <2> QED BY <2>3, <2>4 DEF StageMove
<1>4. CASE Taken(f, t, g, u)
    <2>1. PICK c \in Items : /\ \A d \in Items : f[d] # "processing"
                             /\ Due(f[c]) /\ g = [f EXCEPT ![c] = "processing"] /\ u = t
        BY <1>4 DEF Taken
    <2>2. StagesOf(g) = [StagesOf(f) EXCEPT ![c] = "working"]
        <3>1. StagesOf(g) = [StagesOf(f) EXCEPT ![c] = Stage("processing")]
            BY <1>1, <2>1, OneRowOneStage DEF JobStatus
        <3> QED BY <3>1, StageOf
    <2>3. StagesOf(f)[c] = "waiting" /\ \A d \in Items : StagesOf(f)[d] # "working"
        BY <1>1, <2>1, StageOf DEF Due, JobStatus
    <2> QED BY <2>1, <2>2, <2>3 DEF StageMove, GoesTo
<1>5. CASE PutBack(f, t, g, u)
    <2>1. g = [c \in Items |-> Resumed(f[c])] /\ u = t
        BY <1>5 DEF PutBack
    <2>2. CASE \E c \in Items : f[c] = "processing"
        <3>1. PICK c \in Items : f[c] = "processing"
            BY <2>2
        <3>2. \A d \in Items : d # c => f[d] # "processing"
            BY <3>1 DEF TableInv
        <3>3. g = [f EXCEPT ![c] = "failed"]
            BY <1>1, <2>1, <3>1, <3>2 DEF Resumed
        <3>4. StagesOf(g) = [StagesOf(f) EXCEPT ![c] = "waiting"]
            <4>1. StagesOf(g) = [StagesOf(f) EXCEPT ![c] = Stage("failed")]
                BY <1>1, <3>3, OneRowOneStage DEF JobStatus
            <4> QED BY <4>1, StageOf
        <3>5. StagesOf(f)[c] = "working"
            BY <1>1, <3>1, StageOf
        <3> QED BY <2>1, <3>4, <3>5 DEF StageMove, GoesTo
    <2>3. CASE \A c \in Items : f[c] # "processing"
        <3>1. g = f
            BY <1>1, <2>1, <2>3, SMT DEF Resumed
        <3> QED BY <2>1, <3>1
    <2> QED BY <2>2, <2>3
<1>6. CASE Ended(f, t, g, u)
    <2>1. PICK c \in Items : /\ f[c] = "processing"
                             /\ \/ g = [f EXCEPT ![c] = "succeeded"]
                                \/ g = [f EXCEPT ![c] = AfterFailure(t[c])]
                             /\ u = [t EXCEPT ![c] = @ + 1]
        BY <1>6 DEF Ended
    <2>2. t[c] \in Nat /\ t[c] < MaxTries
        BY <2>1 DEF TableInv
    <2>3. StagesOf(f)[c] = "working"
        BY <1>1, <2>1, StageOf
    <2>4. CASE g = [f EXCEPT ![c] = "succeeded"]
        <3>1. StagesOf(g) = [StagesOf(f) EXCEPT ![c] = "done"]
            <4>1. StagesOf(g) = [StagesOf(f) EXCEPT ![c] = Stage("succeeded")]
                BY <1>1, <2>4, OneRowOneStage DEF JobStatus
            <4> QED BY <4>1, StageOf
        <3> QED BY <2>1, <2>3, <3>1 DEF StageMove, GoesTo
    <2>5. CASE g = [f EXCEPT ![c] = AfterFailure(t[c])] /\ t[c] + 1 < MaxTries
        <3>1. AfterFailure(t[c]) = "failed"
            BY <1>1, <2>2, <2>5, SMT DEF AfterFailure
        <3>2. StagesOf(g) = [StagesOf(f) EXCEPT ![c] = "waiting"]
            <4>1. StagesOf(g) = [StagesOf(f) EXCEPT ![c] = Stage("failed")]
                BY <1>1, <2>5, <3>1, OneRowOneStage DEF JobStatus
            <4> QED BY <4>1, StageOf
        <3> QED BY <2>1, <2>3, <2>5, <3>2 DEF StageMove, GoesTo
    <2>6. CASE g = [f EXCEPT ![c] = AfterFailure(t[c])] /\ t[c] + 1 = MaxTries
        <3>1. AfterFailure(t[c]) = "dead"
            BY <1>1, <2>2, <2>6, SMT DEF AfterFailure
        <3>2. StagesOf(g) = [StagesOf(f) EXCEPT ![c] = "dead"]
            <4>1. StagesOf(g) = [StagesOf(f) EXCEPT ![c] = Stage("dead")]
                BY <1>1, <2>6, <3>1, OneRowOneStage DEF JobStatus
            <4> QED BY <4>1, StageOf
        <3> QED BY <2>1, <2>3, <2>6, <3>2 DEF StageMove, GoesTo
    <2>7. t[c] + 1 < MaxTries \/ t[c] + 1 = MaxTries
        BY <1>1, <2>2, SMT
    <2> QED BY <2>1, <2>4, <2>5, <2>6, <2>7
<1> QED BY <1>2, <1>3, <1>4, <1>5, <1>6 DEF TableMove

-----------------------------------------------------------------------------
(* The CRM *)

CrmInv == Crm!TypeOK /\ TableInv(cJob, cTries) /\ Crm!SyncedHasNote

\* Every step of the CRM is a move of its table.
LEMMA CrmMoves ==
  ASSUME TableInv(cJob, cTries), [Crm!Next]_(Crm!crmVars)
  PROVE  TableMove(cJob, cTries, cJob', cTries')
<1>1. ASSUME NEW c \in Items, Crm!CallEnded(c) PROVE Added(cJob, cTries, cJob', cTries')
    <2>1. cJob' = [cJob EXCEPT ![c] = Enqueued(cJob[c])] /\ cTries' = cTries
        BY <1>1 DEF Crm!CallEnded, Crm!Enqueued, Enqueued
    <2>2. cJob \in [Items -> JobStatus]
        BY DEF TableInv
    <2>3. cJob' = [d \in Items |-> IF d \in {c} THEN Enqueued(cJob[d]) ELSE cJob[d]]
        BY <2>1, <2>2
    <2> QED BY <2>1, <2>3 DEF Added
<1>2. ASSUME NEW c \in Items, Crm!ProcessDue(c) PROVE Taken(cJob, cTries, cJob', cTries')
    BY <1>2 DEF Crm!ProcessDue, Crm!Due, Due, Taken
<1>3. ASSUME NEW c \in Items, Crm!NextRequest(c) \/ Crm!SendAgain(c)
      PROVE  cJob' = cJob /\ cTries' = cTries
    BY <1>3 DEF Crm!NextRequest, Crm!SendAgain
<1>4. ASSUME NEW c \in Items, Crm!Succeed(c) PROVE Ended(cJob, cTries, cJob', cTries')
    BY <1>4 DEF Crm!Succeed, Crm!Serving, Ended
<1>5. ASSUME NEW c \in Items, Crm!Fails(c) PROVE Ended(cJob, cTries, cJob', cTries')
    BY <1>5 DEF Crm!Fails, Crm!Serving, Crm!AfterFailure, AfterFailure, Ended
<1>6. ASSUME Crm!Restart PROVE PutBack(cJob, cTries, cJob', cTries')
    BY <1>6 DEF Crm!Restart, Crm!Resumed, Resumed, PutBack
<1> QED BY <1>1, <1>2, <1>3, <1>4, <1>5, <1>6
        DEF Crm!Next, Crm!CrmStep, Crm!NoteAnswers, Crm!StopAfterSuccess, Crm!crmVars, TableMove

\* What a request does in the CRM, carried out or not: it only adds, and a note
\* only to a number that is known.
LEMMA CrmEffect ==
  ASSUME CrmInv, NEW c \in Items, Crm!Serving(c), cJob[c] = "processing",
         Crm!Effect(c) \/ Crm!NoEffect
  PROVE  /\ cKnown' \in SUBSET Items /\ cKnown \subseteq cKnown'
         /\ cNotes' \in [Items -> 0 .. 2]
         /\ \A d \in Items : /\ cNotes[d] > 0 => cNotes'[d] > 0
                             /\ cNotes'[d] > 0 => d \in cKnown'
         /\ cPc = "note" /\ Crm!Effect(c) => cNotes'[c] > 0
         /\ cPc = "lead" /\ Crm!Effect(c) => c \in cKnown'
<1>1. /\ cKnown \in SUBSET Items /\ cNotes \in [Items -> 0 .. 2]
      /\ \A d \in Items : cNotes[d] > 0 => d \in cKnown
      /\ cPc = "note" => c \in cKnown
      /\ cPc \in {"lookup", "lead", "note"}
    BY DEF CrmInv, Crm!TypeOK, Crm!SyncedHasNote, Crm!Serving, Crm!Requests
<1>2. CASE Crm!NoEffect /\ ~Crm!Effect(c)
    BY <1>1, <1>2 DEF Crm!NoEffect
<1>3. CASE cPc = "lookup" /\ Crm!Effect(c)
    <2>1. UNCHANGED <<cKnown, cNotes>>
        BY <1>3 DEF Crm!NoEffect, Crm!Effect
    <2> QED BY <1>1, <1>3, <2>1
<1>4. CASE cPc = "lead" /\ Crm!Effect(c)
    <2>1. cKnown' = cKnown \cup {c} /\ cNotes' = cNotes
        BY <1>4 DEF Crm!Effect
    <2> QED BY <1>1, <1>4, <2>1
<1>5. CASE cPc = "note" /\ Crm!Effect(c)
    <2>1. cKnown' = cKnown /\ cNotes' = [cNotes EXCEPT ![c] = IF @ = 2 THEN 2 ELSE @ + 1]
        BY <1>5 DEF Crm!Effect
    <2>2. cNotes' \in [Items -> 0 .. 2] /\ cNotes'[c] > 0
        BY <1>1, <2>1, SMT
    <2>3. \A d \in Items \ {c} : cNotes'[d] = cNotes[d]
        BY <1>1, <2>1
    <2> QED BY <1>1, <1>5, <2>1, <2>2, <2>3
<1> QED BY <1>1, <1>2, <1>3, <1>4, <1>5

\* Every step of the CRM keeps its invariant.
LEMMA CrmStepInv == CrmInv /\ [Crm!Next]_(Crm!crmVars) => CrmInv'
<1> SUFFICES ASSUME CrmInv, [Crm!Next]_(Crm!crmVars) PROVE CrmInv'
    OBVIOUS
<1>1. TableInv(cJob', cTries')
    BY CrmMoves, MoveKeepsTable, Zenon DEF CrmInv
<1>2. cJob' \in [Items -> Crm!JobStatus] /\ cTries' \in [Items -> 0 .. MaxTries]
    BY <1>1 DEF TableInv, JobStatus, Crm!JobStatus
<1>3. /\ cJob \in [Items -> JobStatus] /\ cTries \in [Items -> 0 .. MaxTries]
      /\ \A c, d \in Items : cJob[c] = "processing" /\ cJob[d] = "processing" => c = d
      /\ cPc \in {"idle", "lookup", "lead", "note"} /\ cSends \in 0 .. 3
      /\ cKnown \in SUBSET Items /\ cNotes \in [Items -> 0 .. 2] /\ cSynced \in SUBSET Items
      /\ cStops \in 0 .. MaxStops /\ MaxStops \in Nat
      /\ \A c \in Items : /\ c \in cSynced => cJob[c] = "succeeded"
                          /\ cJob[c] = "succeeded" => cNotes[c] > 0
                          /\ cNotes[c] > 0 => c \in cKnown
                          /\ cPc = "note" /\ cJob[c] = "processing" => c \in cKnown
    BY JobAssumption DEF CrmInv, TableInv, Crm!TypeOK, Crm!Requests, Crm!MaxSends, Crm!SyncedHasNote
<1> DEFINE Rest == /\ cPc' \in {"idle", "lookup", "lead", "note"} /\ cSends' \in 0 .. 3
                   /\ cKnown' \in SUBSET Items /\ cNotes' \in [Items -> 0 .. 2]
                   /\ cSynced' \in SUBSET Items /\ cStops' \in 0 .. MaxStops
           Agree == \A c \in Items : /\ c \in cSynced' => cJob'[c] = "succeeded"
                                     /\ cJob'[c] = "succeeded" => cNotes'[c] > 0
                                     /\ cNotes'[c] > 0 => c \in cKnown'
                                     /\ cPc' = "note" /\ cJob'[c] = "processing" => c \in cKnown'
<1>4. Rest /\ Agree => CrmInv'
    BY <1>1, <1>2 DEF CrmInv, Crm!TypeOK, Crm!Requests, Crm!MaxSends, Crm!SyncedHasNote
<1>5. ASSUME NEW c \in Items, Crm!CallEnded(c) PROVE Rest /\ Agree
    <2>1. UNCHANGED <<cPc, cSends, cKnown, cNotes, cSynced, cStops>>
        BY <1>5 DEF Crm!CallEnded
    <2>2. \A d \in Items : \/ cJob'[d] = cJob[d]
                           \/ cJob[d] = "none" /\ cJob'[d] = "pending"
        BY <1>3, <1>5 DEF Crm!CallEnded, Crm!Enqueued
    <2> QED BY <1>3, <2>1, <2>2
<1>6. ASSUME NEW c \in Items, Crm!ProcessDue(c) PROVE Rest /\ Agree
    <2>1. /\ UNCHANGED <<cKnown, cNotes, cSynced, cStops>>
          /\ cPc' = "lookup" /\ cSends' = 1
          /\ cJob[c] # "succeeded" /\ cJob' = [cJob EXCEPT ![c] = "processing"]
        BY <1>6 DEF Crm!ProcessDue, Crm!Due
    <2> QED BY <1>3, <2>1
<1>7. ASSUME NEW c \in Items, cJob[c] = "processing", Crm!Serving(c), Crm!Effect(c) \/ Crm!NoEffect
      PROVE  /\ cKnown' \in SUBSET Items /\ cKnown \subseteq cKnown'
             /\ cNotes' \in [Items -> 0 .. 2]
             /\ \A d \in Items : /\ cNotes[d] > 0 => cNotes'[d] > 0
                                 /\ cNotes'[d] > 0 => d \in cKnown'
             /\ cPc = "note" /\ Crm!Effect(c) => cNotes'[c] > 0
             /\ cPc = "lead" /\ Crm!Effect(c) => c \in cKnown'
    BY <1>7, CrmEffect
<1>8. ASSUME NEW c \in Items, Crm!NextRequest(c) PROVE Rest /\ Agree
    <2>1. /\ cJob[c] = "processing" /\ Crm!Serving(c) /\ Crm!Effect(c)
          /\ UNCHANGED <<cJob, cSynced, cStops>> /\ cSends' = 1
          /\ cPc' \in {"note", "lead"} /\ (cPc' = "note" => cPc = "lead" \/ c \in cKnown)
        BY <1>8 DEF Crm!NextRequest, Crm!Serving, Crm!Found
    <2>2. cPc' = "note" => c \in cKnown'
        BY <1>7, <2>1
    <2> QED BY <1>3, <1>7, <2>1, <2>2
<1>9. ASSUME NEW c \in Items, Crm!SendAgain(c) PROVE Rest /\ Agree
    <2>1. /\ cJob[c] = "processing" /\ Crm!Serving(c) /\ (Crm!Effect(c) \/ Crm!NoEffect)
          /\ UNCHANGED <<cJob, cPc, cSynced, cStops>> /\ cSends < 3 /\ cSends' = cSends + 1
        BY <1>9 DEF Crm!SendAgain, Crm!Serving, Crm!MaxSends
    <2> QED BY <1>3, <1>7, <2>1, SMT
<1>10. ASSUME NEW c \in Items, Crm!Succeed(c), cSynced' \in {cSynced, cSynced \cup {c}},
              cStops' \in 0 .. MaxStops
       PROVE  Rest /\ Agree
    <2>1. /\ cJob[c] = "processing" /\ Crm!Serving(c) /\ cPc = "note" /\ Crm!Effect(c)
          /\ cJob' = [cJob EXCEPT ![c] = "succeeded"] /\ cPc' = "idle" /\ cSends' = 0
        BY <1>10 DEF Crm!Succeed, Crm!Serving
    <2>2. cJob'[c] = "succeeded" /\ \A d \in Items \ {c} : cJob'[d] = cJob[d]
        BY <1>3, <2>1
    <2>3. cSynced' \in SUBSET Items
        BY <1>3, <1>10
    <2> QED BY <1>3, <1>7, <1>10, <2>1, <2>2, <2>3
<1>11. ASSUME NEW c \in Items, Crm!Fails(c) PROVE Rest /\ Agree
    <2>1. /\ cJob[c] = "processing" /\ Crm!Serving(c) /\ (Crm!Effect(c) \/ Crm!NoEffect)
          /\ cJob' = [cJob EXCEPT ![c] = Crm!AfterFailure(cTries[c])] /\ cPc' = "idle" /\ cSends' = 0
          /\ UNCHANGED <<cSynced, cStops>>
        BY <1>11 DEF Crm!Fails, Crm!Serving
    <2>2. Crm!AfterFailure(cTries[c]) # "succeeded"
        BY DEF Crm!AfterFailure
    <2>3. cJob'[c] # "succeeded" /\ \A d \in Items \ {c} : cJob'[d] = cJob[d]
        BY <1>3, <2>1, <2>2
    <2> QED BY <1>3, <1>7, <2>1, <2>3
<1>12. ASSUME Crm!Restart PROVE Rest /\ Agree
    <2>1. /\ cStops < MaxStops /\ cStops' = cStops + 1 /\ cPc' = "idle" /\ cSends' = 0
          /\ cSynced' = cSynced /\ \A d \in Items : cJob'[d] = Crm!Resumed(cJob[d])
        BY <1>12 DEF Crm!Restart
    <2>2. /\ cKnown' \in SUBSET Items /\ cNotes' \in [Items -> 0 .. 2]
          /\ \A d \in Items : /\ cNotes[d] > 0 => cNotes'[d] > 0
                              /\ cNotes'[d] > 0 => d \in cKnown'
        <3>1. CASE Crm!NoEffect
            BY <1>3, <3>1 DEF Crm!NoEffect
        <3>2. CASE \E c \in Items : Crm!Serving(c) /\ Crm!Effect(c)
            BY <1>7, <3>2 DEF Crm!Serving
        <3> QED BY <1>12, <3>1, <3>2 DEF Crm!Restart
    <2>3. \A d \in Items : cJob'[d] = "succeeded" <=> cJob[d] = "succeeded"
        BY <2>1, Zenon DEF Crm!Resumed
    <2>4. cStops' \in 0 .. MaxStops
        BY <1>3, <2>1, SMT
    <2> QED BY <1>3, <2>1, <2>2, <2>3, <2>4
<1>13. ASSUME UNCHANGED Crm!crmVars PROVE Rest /\ Agree
    BY <1>3, <1>13 DEF Crm!crmVars
<1>14. ASSUME NEW c \in Items, Crm!NoteAnswers(c) \/ Crm!StopAfterSuccess(c) PROVE Rest /\ Agree
    <2>1. /\ Crm!Succeed(c) /\ cSynced' \in {cSynced, cSynced \cup {c}}
          /\ cStops' = cStops \/ (cStops < MaxStops /\ cStops' = cStops + 1)
        BY <1>14 DEF Crm!NoteAnswers, Crm!StopAfterSuccess
    <2>2. cStops' \in 0 .. MaxStops
        BY <1>3, <2>1, SMT
    <2> QED BY <1>10, <2>1, <2>2
<1> HIDE DEF Rest, Agree
<1> QED BY <1>4, <1>5, <1>6, <1>8, <1>9, <1>11, <1>12, <1>13, <1>14 DEF Crm!Next, Crm!CrmStep

\* A move of the table of the CRM is a step of a durable job.
LEMMA CrmDurableStep ==
  ASSUME CrmInv, [Crm!Next]_(Crm!crmVars)
  PROVE  [Crm!Durable!DNext]_(Crm!Durable!durableVars)
<1> DEFINE p == [c \in Items |-> Crm!Stage(cJob[c])]
<1>1. p = StagesOf(cJob) /\ p' = StagesOf(cJob')
    BY DEF StagesOf, Stage, Crm!Stage, Due, Crm!Due
<1>2. StageMove(p, cTries, p', cTries') \/ UNCHANGED <<p, cTries>>
    BY <1>1, CrmMoves, MoveIsDurable, Zenon DEF CrmInv
<1>3. ASSUME StageMove(p, cTries, p', cTries') PROVE Crm!Durable!DNext
    BY <1>3, Zenon DEF StageMove, GoesTo, Crm!Durable!DNext,
       Crm!Durable!Create, Crm!Durable!Take, Crm!Durable!Drop,
       Crm!Durable!Finish, Crm!Durable!Retry, Crm!Durable!Bury, Crm!Durable!GoTo,
       Crm!Durable!Counted, Crm!Durable!Uncounted
<1> QED BY <1>2, <1>3 DEF Crm!Durable!durableVars

\* The invariant of the CRM, of any behaviour of it.
LEMMA CrmSafe == Crm!Spec => []CrmInv
<1>1. Crm!Init => CrmInv
    <2> SUFFICES ASSUME Crm!Init PROVE CrmInv
        OBVIOUS
    <2>1. MaxTries \in Nat \ {0} /\ MaxStops \in Nat
        BY JobAssumption
    <2>2. TableInv(cJob, cTries)
        BY <2>1, SMT DEF Crm!Init, TableInv, JobStatus
    <2>3. Crm!TypeOK
        BY <2>1, SMT DEF Crm!Init, Crm!TypeOK, Crm!JobStatus, Crm!MaxSends
    <2>4. Crm!SyncedHasNote
        <3>1. /\ cSynced = {} /\ cPc = "idle"
              /\ \A c \in Items : cJob[c] = "none" /\ cNotes[c] = 0
            BY DEF Crm!Init
        <3>2. ~(0 > 0)
            BY SMT
        <3> QED BY <3>1, <3>2, Zenon DEF Crm!SyncedHasNote
    <2> QED BY <2>2, <2>3, <2>4 DEF CrmInv
<1> QED BY <1>1, CrmStepInv, PTL DEF Crm!Spec

\* The rows of crm_sync_jobs keep what DurableJob promises.
LEMMA CrmDurable == Crm!Spec => Crm!ImplementsDurable
<1>1. Crm!Init => Crm!Durable!DInit
    BY Zenon, StageOf DEF Crm!Init, Crm!Durable!DInit, Crm!Stage, Stage, Crm!Due, Due
<1>2. CrmInv /\ [Crm!Next]_(Crm!crmVars) => [Crm!Durable!DNext]_(Crm!Durable!durableVars)
    BY CrmDurableStep
<1> QED BY <1>1, <1>2, CrmSafe, PTL DEF Crm!Spec, Crm!ImplementsDurable, Crm!Durable!DSpec

-----------------------------------------------------------------------------
(* The appointments *)

ApptInv == /\ Appointments!TypeOK /\ TableInv(pJob, pTries)
           /\ Appointments!JobMatchesAppointment
           /\ pOccupied = {} \/ \E a \in Items : pOccupied = {a} /\ pAppt[a] = "confirmed"

\* Every step of the appointments is a move of their table.
LEMMA ApptMoves ==
  ASSUME TableInv(pJob, pTries), [Appointments!Next]_(Appointments!appointmentVars)
  PROVE  TableMove(pJob, pTries, pJob', pTries')
<1>0. pJob \in [Items -> JobStatus]
    BY DEF TableInv
<1>1. ASSUME NEW A \in SUBSET Items, Appointments!CallEnded(A)
      PROVE  TableMove(pJob, pTries, pJob', pTries')
    <2>1. CASE pJob' = pJob
        BY <1>1, <2>1 DEF Appointments!CallEnded, TableMove
    <2>2. CASE pJob' = [a \in Items |-> IF a \in A THEN Enqueued(pJob[a]) ELSE pJob[a]]
        BY <1>1, <2>2 DEF Appointments!CallEnded, Added, TableMove
    <2> QED BY <1>1, <2>1, <2>2 DEF Appointments!CallEnded, Appointments!Enqueued, Enqueued
<1>2. ASSUME NEW a \in Items, Appointments!ProcessDue(a) PROVE Taken(pJob, pTries, pJob', pTries')
    BY <1>2 DEF Appointments!ProcessDue, Appointments!Due, Due, Taken
<1>3. ASSUME NEW a \in Items, Appointments!Make(a) \/ Appointments!Created(a)
      PROVE  pJob' = pJob /\ pTries' = pTries
    BY <1>3 DEF Appointments!Make, Appointments!Created, Appointments!Asked
<1>4. ASSUME NEW a \in Items,
             Appointments!Ends(a, "succeeded") \/ Appointments!Ends(a, AfterFailure(pTries[a]))
      PROVE  Ended(pJob, pTries, pJob', pTries')
    BY <1>4 DEF Appointments!Ends, Ended
<1>5. ASSUME NEW a \in Items, Appointments!AppointmentStep(a) \/ Appointments!StopAfterSuccess(a)
      PROVE  Ended(pJob, pTries, pJob', pTries')
    <2>1. Appointments!AfterFailure(pTries[a]) = AfterFailure(pTries[a])
        BY DEF Appointments!AfterFailure, AfterFailure
    <2>2. Appointments!Ends(a, "succeeded") \/ Appointments!Ends(a, Appointments!AfterFailure(pTries[a]))
        BY <1>5 DEF Appointments!AppointmentStep, Appointments!AlreadyConfirmed, Appointments!Confirms,
           Appointments!Refuses, Appointments!StopAfterSuccess
    <2> QED BY <1>4, <2>1, <2>2
<1>6. ASSUME NEW a \in Items, Appointments!StopBetweenRows(a)
      PROVE  PutBack(pJob, pTries, pJob', pTries')
    <2>1. /\ pJob[a] = "processing" /\ pJob' = [pJob EXCEPT ![a] = "failed"] /\ pTries' = pTries
        BY <1>6 DEF Appointments!StopBetweenRows
    <2>2. \A b \in Items : pJob[b] = "processing" <=> b = a
        BY <2>1 DEF TableInv
    <2>3. pJob' = [b \in Items |-> Resumed(pJob[b])]
        BY <1>0, <2>1, <2>2 DEF Resumed
    <2> QED BY <2>1, <2>3 DEF PutBack
<1>7. ASSUME Appointments!Save PROVE pJob' = pJob /\ pTries' = pTries
    BY <1>7 DEF Appointments!Save
<1>8. ASSUME Appointments!Restart PROVE PutBack(pJob, pTries, pJob', pTries')
    BY <1>8 DEF Appointments!Restart, Appointments!Resumed, Resumed, PutBack
<1> QED BY <1>1, <1>2, <1>3, <1>5, <1>6, <1>7, <1>8
        DEF Appointments!Next, Appointments!appointmentVars, TableMove

\* Every step of the appointments keeps their invariant.
LEMMA ApptStepInv == ApptInv /\ [Appointments!Next]_(Appointments!appointmentVars) => ApptInv'
<1> SUFFICES ASSUME ApptInv, [Appointments!Next]_(Appointments!appointmentVars) PROVE ApptInv'
    OBVIOUS
<1>1. TableInv(pJob', pTries')
    BY ApptMoves, MoveKeepsTable, Zenon DEF ApptInv
<1>2. pJob' \in [Items -> Appointments!JobStatus] /\ pTries' \in [Items -> 0 .. MaxTries]
    BY <1>1 DEF TableInv, JobStatus, Appointments!JobStatus
<1>3. /\ pJob \in [Items -> JobStatus]
      /\ pAppt \in [Items -> {"none", "tentative", "confirmed", "failed"}]
      /\ pAsking \in [Items -> 0 .. 2]
      /\ pCalendar \in {"open", "shut", "zoho"} /\ pAuto \in BOOLEAN /\ pOccupied \in SUBSET Items
      /\ pPublished \in [Items -> SUBSET {"created", "confirmed", "failed"}]
      /\ pStops \in 0 .. MaxStops /\ MaxStops \in Nat
      /\ \A a \in Items : /\ pJob[a] = "succeeded" => pAppt[a] = "confirmed"
                          /\ pJob[a] = "dead" => pAppt[a] = "failed"
                          /\ pJob[a] = "none" => pAppt[a] \in {"none", "tentative"}
                          /\ "confirmed" \in pPublished[a] => pAppt[a] = "confirmed"
      /\ pOccupied = {} \/ \E a \in Items : pOccupied = {a} /\ pAppt[a] = "confirmed"
      /\ \A a, b \in Items : pJob[a] = "processing" /\ pJob[b] = "processing" => a = b
    BY JobAssumption DEF ApptInv, TableInv, Appointments!TypeOK, Appointments!Calendars,
       Appointments!JobMatchesAppointment
<1> DEFINE Types == /\ pAppt' \in [Items -> {"none", "tentative", "confirmed", "failed"}]
                    /\ pAsking' \in [Items -> 0 .. 2]
                    /\ pCalendar' \in {"open", "shut", "zoho"} /\ pAuto' \in BOOLEAN
                    /\ pOccupied' \in SUBSET Items
                    /\ pPublished' \in [Items -> SUBSET {"created", "confirmed", "failed"}]
                    /\ pStops' \in 0 .. MaxStops
           Rows == \A a \in Items : /\ pJob'[a] = "succeeded" => pAppt'[a] = "confirmed"
                                    /\ pJob'[a] = "dead" => pAppt'[a] = "failed"
                                    /\ pJob'[a] = "none" => pAppt'[a] \in {"none", "tentative"}
                                    /\ "confirmed" \in pPublished'[a] => pAppt'[a] = "confirmed"
           OneThere == pOccupied' = {} \/ \E a \in Items : pOccupied' = {a} /\ pAppt'[a] = "confirmed"
<1>4. Types /\ Rows /\ OneThere => ApptInv'
    BY <1>1, <1>2 DEF ApptInv, Appointments!TypeOK, Appointments!Calendars,
       Appointments!JobMatchesAppointment
<1>5. ASSUME NEW A \in SUBSET Items, Appointments!CallEnded(A) PROVE Types /\ Rows /\ OneThere
    <2>1. /\ UNCHANGED <<pAppt, pAsking, pCalendar, pAuto, pOccupied, pStops>>
          /\ \A a \in A : pAppt[a] = "tentative"
          /\ pPublished' = pPublished
             \/ pPublished' = [a \in Items |-> IF a \in A THEN pPublished[a] \cup {"created"}
                                                         ELSE pPublished[a]]
          /\ pJob' = pJob
             \/ pJob' = [a \in Items |-> IF a \in A THEN Appointments!Enqueued(pJob[a]) ELSE pJob[a]]
        BY <1>5 DEF Appointments!CallEnded
    <2>2. \A a \in Items : pJob'[a] = pJob[a] \/ (pJob[a] = "none" /\ pJob'[a] = "pending")
        BY <2>1, Zenon DEF Appointments!Enqueued
    <2>3. /\ pPublished' \in [Items -> SUBSET {"created", "confirmed", "failed"}]
          /\ \A a \in Items : "confirmed" \in pPublished'[a] => "confirmed" \in pPublished[a]
        BY <1>3, <2>1, SMT
    <2> QED BY <1>3, <2>1, <2>2, <2>3
<1>6. ASSUME NEW a \in Items, Appointments!Make(a) PROVE Types /\ Rows /\ OneThere
    <2>1. /\ UNCHANGED <<pAppt, pJob, pTries, pCalendar, pAuto, pOccupied, pPublished, pStops>>
          /\ pAsking[a] < 2 /\ pAsking' = [pAsking EXCEPT ![a] = @ + 1]
        BY <1>6 DEF Appointments!Make
    <2>2. pAsking' \in [Items -> 0 .. 2]
        BY <1>3, <2>1, SMT
    <2> QED BY <1>3, <2>1, <2>2
<1>7. ASSUME NEW a \in Items, Appointments!Created(a) PROVE Types /\ Rows /\ OneThere
    <2>1. /\ UNCHANGED <<pJob, pTries, pCalendar, pAuto, pOccupied, pPublished, pStops>>
          /\ pAsking[a] > 0 /\ pAsking' = [pAsking EXCEPT ![a] = @ - 1]
          /\ IF pAppt[a] = "none" THEN pAppt' = [pAppt EXCEPT ![a] = "tentative"] ELSE pAppt' = pAppt
        BY <1>7 DEF Appointments!Created, Appointments!Asked, Appointments!SetAppt
    <2>2. pAsking' \in [Items -> 0 .. 2]
        BY <1>3, <2>1, SMT
    <2>3. /\ pAppt' \in [Items -> {"none", "tentative", "confirmed", "failed"}]
          /\ \A b \in Items : pAppt'[b] = pAppt[b] \/ (pAppt[b] = "none" /\ pAppt'[b] = "tentative")
        BY <1>3, <2>1
    <2> QED BY <1>3, <2>1, <2>2, <2>3
<1>8. ASSUME NEW a \in Items, Appointments!ProcessDue(a) PROVE Types /\ Rows /\ OneThere
    <2>1. /\ UNCHANGED <<pAppt, pAsking, pCalendar, pAuto, pOccupied, pPublished, pStops>>
          /\ pJob' = [pJob EXCEPT ![a] = "processing"]
        BY <1>8 DEF Appointments!ProcessDue
    <2> QED BY <1>3, <2>1
\* A job that ends, or is cut short, with the appointment as it should be.
<1>9. ASSUME NEW a \in Items, pJob[a] = "processing",
             NEW s \in {"succeeded", "failed", "dead"}, pJob' = [pJob EXCEPT ![a] = s],
             NEW v \in {"confirmed", "failed"}, pAppt' = [pAppt EXCEPT ![a] = v],
             s = "succeeded" => v = "confirmed", s = "dead" => v = "failed",
             pAppt[a] = "confirmed" => v = "confirmed",
             pPublished' \in {pPublished, [pPublished EXCEPT ![a] = @ \cup {v}]}
      PROVE  /\ pAppt' \in [Items -> {"none", "tentative", "confirmed", "failed"}]
             /\ pPublished' \in [Items -> SUBSET {"created", "confirmed", "failed"}]
             /\ Rows
             /\ \A b \in Items : pAppt[b] = "confirmed" => pAppt'[b] = "confirmed"
    <2>1. /\ pJob'[a] = s /\ pAppt'[a] = v
          /\ \A b \in Items \ {a} : pJob'[b] = pJob[b] /\ pAppt'[b] = pAppt[b]
        BY <1>3, <1>9
    <2>2. /\ pPublished' \in [Items -> SUBSET {"created", "confirmed", "failed"}]
          /\ \A b \in Items \ {a} : pPublished'[b] = pPublished[b]
          /\ "confirmed" \in pPublished'[a] => "confirmed" \in pPublished[a] \/ v = "confirmed"
        BY <1>3, <1>9, SMT
    <2> QED BY <1>3, <1>9, <2>1, <2>2
<1>10. ASSUME NEW a \in Items, Appointments!AlreadyConfirmed(a) PROVE Types /\ Rows /\ OneThere
    <2>1. /\ pAppt[a] = "confirmed" /\ pJob[a] = "processing" /\ pJob' = [pJob EXCEPT ![a] = "succeeded"]
          /\ UNCHANGED <<pAppt, pAsking, pCalendar, pAuto, pOccupied, pPublished, pStops>>
        BY <1>10 DEF Appointments!AlreadyConfirmed, Appointments!Ends
    <2>2. pAppt' = [pAppt EXCEPT ![a] = "confirmed"]
        BY <1>3, <2>1
    <2>3. Rows
        BY <1>9, <2>1, <2>2
    <2> QED BY <1>3, <2>1, <2>3
<1>11. ASSUME NEW a \in Items, Appointments!Confirms(a) PROVE Types /\ Rows /\ OneThere
    <2>1. /\ pOccupied = {} /\ pOccupied' = pOccupied \cup {a}
          /\ pJob[a] = "processing" /\ pJob' = [pJob EXCEPT ![a] = "succeeded"]
          /\ pAppt' = [pAppt EXCEPT ![a] = "confirmed"]
          /\ pPublished' = [pPublished EXCEPT ![a] = @ \cup {"confirmed"}]
          /\ UNCHANGED <<pAsking, pCalendar, pAuto, pStops>>
        BY <1>11 DEF Appointments!Confirms, Appointments!CreateEvent, Appointments!Available,
           Appointments!SetAppt, Appointments!Ends, Appointments!Publish
    <2>2. /\ pAppt' \in [Items -> {"none", "tentative", "confirmed", "failed"}]
          /\ pPublished' \in [Items -> SUBSET {"created", "confirmed", "failed"}]
          /\ Rows
        BY <1>9, <2>1
    <2>3. pOccupied' = {a} /\ pAppt'[a] = "confirmed"
        BY <1>3, <2>1
    <2> QED BY <1>3, <2>1, <2>2, <2>3
<1>12. ASSUME NEW a \in Items, Appointments!Refuses(a) PROVE Types /\ Rows /\ OneThere
    <2>1. /\ pAppt[a] # "confirmed"
          /\ pJob[a] = "processing" /\ pJob' = [pJob EXCEPT ![a] = Appointments!AfterFailure(pTries[a])]
          /\ pAppt' = [pAppt EXCEPT ![a] = "failed"]
          /\ pPublished' = [pPublished EXCEPT ![a] = @ \cup {"failed"}]
          /\ UNCHANGED <<pAsking, pCalendar, pAuto, pOccupied, pStops>>
        BY <1>12 DEF Appointments!Refuses, Appointments!Refused, Appointments!SetAppt,
           Appointments!Ends, Appointments!Publish
    <2>2. Appointments!AfterFailure(pTries[a]) \in {"failed", "dead"}
        BY DEF Appointments!AfterFailure
    <2>3. PICK s \in {"failed", "dead"} : pJob' = [pJob EXCEPT ![a] = s]
        BY <2>1, <2>2
    <2>4. /\ pAppt' \in [Items -> {"none", "tentative", "confirmed", "failed"}]
          /\ pPublished' \in [Items -> SUBSET {"created", "confirmed", "failed"}]
          /\ Rows /\ \A b \in Items : pAppt[b] = "confirmed" => pAppt'[b] = "confirmed"
        BY <1>9, <2>1, <2>3
    <2> QED BY <1>3, <2>1, <2>4
<1>13. ASSUME Appointments!Stopped
       PROVE  /\ pAsking' \in [Items -> 0 .. 2] /\ pOccupied' = {} /\ pStops' \in 0 .. MaxStops
              /\ UNCHANGED <<pCalendar, pAuto>>
    BY <1>3, <1>13, SMT DEF Appointments!Stopped, Appointments!Settings
<1>14. ASSUME NEW a \in Items, Appointments!StopBetweenRows(a) PROVE Types /\ Rows /\ OneThere
    <2>1. /\ Appointments!Stopped
          /\ pJob[a] = "processing" /\ pJob' = [pJob EXCEPT ![a] = "failed"]
          /\ \/ pAppt' = [pAppt EXCEPT ![a] = "confirmed"] /\ pPublished' = pPublished
             \/ /\ pAppt[a] # "confirmed" /\ pAppt' = [pAppt EXCEPT ![a] = "failed"]
                /\ pPublished' = [pPublished EXCEPT ![a] = @ \cup {"failed"}]
        BY <1>14 DEF Appointments!StopBetweenRows, Appointments!CreateEvent, Appointments!Refused,
           Appointments!SetAppt, Appointments!Publish
    <2>2. PICK v \in {"confirmed", "failed"} :
             /\ pAppt' = [pAppt EXCEPT ![a] = v] /\ (pAppt[a] = "confirmed" => v = "confirmed")
             /\ pPublished' \in {pPublished, [pPublished EXCEPT ![a] = @ \cup {v}]}
        BY <2>1
    <2>3. /\ pAppt' \in [Items -> {"none", "tentative", "confirmed", "failed"}]
          /\ pPublished' \in [Items -> SUBSET {"created", "confirmed", "failed"}]
          /\ Rows
        BY <1>9, <2>1, <2>2
    <2> QED BY <1>3, <1>13, <2>1, <2>3
<1>15. ASSUME NEW a \in Items, Appointments!StopAfterSuccess(a) PROVE Types /\ Rows /\ OneThere
    <2>1. /\ Appointments!Stopped /\ pPublished' = pPublished
          /\ pJob[a] = "processing" /\ pJob' = [pJob EXCEPT ![a] = "succeeded"]
          /\ pAppt' = [pAppt EXCEPT ![a] = "confirmed"]
        BY <1>15 DEF Appointments!StopAfterSuccess, Appointments!CreateEvent, Appointments!SetAppt,
           Appointments!Ends
    <2>2. /\ pAppt' \in [Items -> {"none", "tentative", "confirmed", "failed"}]
          /\ pPublished' \in [Items -> SUBSET {"created", "confirmed", "failed"}]
          /\ Rows
        BY <1>9, <2>1
    <2> QED BY <1>3, <1>13, <2>1, <2>2
<1>16. ASSUME Appointments!Save PROVE Types /\ Rows /\ OneThere
    <2>1. /\ pCalendar' \in {"open", "shut", "zoho"} /\ pAuto' \in BOOLEAN /\ pOccupied' = {}
          /\ UNCHANGED <<pAppt, pAsking, pJob, pPublished, pStops>>
        BY <1>16 DEF Appointments!Save, Appointments!Calendars
    <2> QED BY <1>3, <2>1
<1>17. ASSUME Appointments!Restart PROVE Types /\ Rows /\ OneThere
    <2>1. /\ Appointments!Stopped /\ UNCHANGED <<pAppt, pPublished>>
          /\ \A a \in Items : pJob'[a] = Appointments!Resumed(pJob[a])
        BY <1>17 DEF Appointments!Restart
    <2>2. \A a \in Items : pJob'[a] = pJob[a] \/ pJob'[a] = "failed"
        BY <2>1, Zenon DEF Appointments!Resumed
    <2> QED BY <1>3, <1>13, <2>1, <2>2
<1>18. ASSUME UNCHANGED Appointments!appointmentVars PROVE Types /\ Rows /\ OneThere
    BY <1>3, <1>18 DEF Appointments!appointmentVars
<1> HIDE DEF Types, Rows, OneThere
<1> QED BY <1>4, <1>5, <1>6, <1>7, <1>8, <1>10, <1>11, <1>12, <1>14, <1>15, <1>16, <1>17, <1>18
        DEF Appointments!Next, Appointments!AppointmentStep

\* The operator of FiniteSets under the name the instance has for it.
LEMMA SameCardinality == ASSUME NEW S PROVE Appointments!Cardinality(S) = Cardinality(S)
BY Zenon DEF Appointments!Cardinality, Cardinality

\* What the run checks of the appointments.
LEMMA ApptInvGives ==
  ApptInv => /\ Appointments!TypeOK /\ Appointments!JobMatchesAppointment
             /\ Appointments!CalendarHoldsOne
<1> SUFFICES ASSUME ApptInv PROVE Appointments!CalendarHoldsOne
    BY DEF ApptInv
<1>1. CASE pOccupied = {}
    <2>1. Appointments!Cardinality(pOccupied) = 0
        BY <1>1, FS_EmptySet, SameCardinality
    <2> QED BY <1>1, <2>1, SMT DEF Appointments!CalendarHoldsOne
<1>2. ASSUME NEW a \in Items, pOccupied = {a}, pAppt[a] = "confirmed"
      PROVE  Appointments!CalendarHoldsOne
    <2>1. Appointments!Cardinality(pOccupied) = 1
        BY <1>2, FS_Singleton, SameCardinality
    <2> QED BY <1>2, <2>1, SMT DEF Appointments!CalendarHoldsOne
<1> QED BY <1>1, <1>2 DEF ApptInv

\* A move of the table of appointments is a step of a durable job.
LEMMA ApptDurableStep ==
  ASSUME ApptInv, [Appointments!Next]_(Appointments!appointmentVars)
  PROVE  [Appointments!Durable!DNext]_(Appointments!Durable!durableVars)
<1> DEFINE p == [a \in Items |-> Appointments!Stage(pJob[a])]
<1>1. p = StagesOf(pJob) /\ p' = StagesOf(pJob')
    BY DEF StagesOf, Stage, Appointments!Stage, Due, Appointments!Due
<1>2. StageMove(p, pTries, p', pTries') \/ UNCHANGED <<p, pTries>>
    BY <1>1, ApptMoves, MoveIsDurable, Zenon DEF ApptInv
<1>3. ASSUME StageMove(p, pTries, p', pTries') PROVE Appointments!Durable!DNext
    BY <1>3, Zenon DEF StageMove, GoesTo, Appointments!Durable!DNext,
       Appointments!Durable!Create, Appointments!Durable!Take, Appointments!Durable!Drop,
       Appointments!Durable!Finish, Appointments!Durable!Retry, Appointments!Durable!Bury,
       Appointments!Durable!GoTo, Appointments!Durable!Counted, Appointments!Durable!Uncounted
<1> QED BY <1>2, <1>3 DEF Appointments!Durable!durableVars

\* The invariant of the appointments, of any behaviour of them.
LEMMA ApptSafe == Appointments!Spec => []ApptInv
<1>1. Appointments!Init => ApptInv
    <2> SUFFICES ASSUME Appointments!Init PROVE ApptInv
        OBVIOUS
    <2>1. MaxTries \in Nat \ {0} /\ MaxStops \in Nat
        BY JobAssumption
    <2>2. TableInv(pJob, pTries)
        BY <2>1, SMT DEF Appointments!Init, TableInv, JobStatus
    <2>3. Appointments!TypeOK
        BY <2>1, SMT DEF Appointments!Init, Appointments!TypeOK, Appointments!JobStatus,
           Appointments!Calendars
    <2>4. Appointments!JobMatchesAppointment /\ pOccupied = {}
        BY DEF Appointments!Init, Appointments!JobMatchesAppointment
    <2> QED BY <2>2, <2>3, <2>4 DEF ApptInv
<1> QED BY <1>1, ApptStepInv, PTL DEF Appointments!Spec

\* The rows of appointment_sync_jobs keep what DurableJob promises.
LEMMA ApptDurable == Appointments!Spec => Appointments!ImplementsDurable
<1>1. Appointments!Init => Appointments!Durable!DInit
    BY Zenon, StageOf DEF Appointments!Init, Appointments!Durable!DInit, Appointments!Stage,
       Stage, Appointments!Due, Due
<1>2. ApptInv /\ [Appointments!Next]_(Appointments!appointmentVars)
        => [Appointments!Durable!DNext]_(Appointments!Durable!durableVars)
    BY ApptDurableStep
<1> QED BY <1>1, <1>2, ApptSafe, PTL
        DEF Appointments!Spec, Appointments!ImplementsDurable, Appointments!Durable!DSpec

-----------------------------------------------------------------------------
(* The webhooks *)

\* A row that is being sent is delivering, a row of the batch waits to be sent,
\* and whatever the receiver has it was sent by an attempt or before a stop.
HookInv ==
  /\ Webhooks!TypeOK
  /\ wSending # "none" => wRow[wSending] = "delivering"
  /\ \A e \in wBatch : e # wSending /\ Webhooks!DueRow(wRow[e])
  /\ \A e \in Items : /\ wRow[e] \notin {"delivered", "dead"} => wTries[e] < MaxTries
                      /\ wRow[e] = "delivered" => wGot[e] > 0
                      /\ wRow[e] = "none" => wGot[e] = 0
                      /\ wGot[e] <= wTries[e] + wStops

\* A row that is marked as delivered was received.
LEMMA HookInvGives == HookInv => Webhooks!DeliveredWasReceived
<1> SUFFICES ASSUME HookInv, NEW e \in Items
             PROVE  /\ wRow[e] = "delivered" => wGot[e] > 0
                    /\ wRow[e] = "none" => wGot[e] = 0
                    /\ wGot[e] > 1 => wTries[e] + wStops > 1
    BY DEF Webhooks!DeliveredWasReceived
<1>1. wGot[e] \in Nat /\ wTries[e] \in Nat /\ wStops \in Nat
    BY JobAssumption, SMT DEF HookInv, Webhooks!TypeOK
<1>2. /\ wRow[e] = "delivered" => wGot[e] > 0
      /\ wRow[e] = "none" => wGot[e] = 0
      /\ wGot[e] <= wTries[e] + wStops
    BY DEF HookInv
<1> QED BY <1>1, <1>2, SMT

\* Every step of the outbox keeps its invariant.
LEMMA HookStepInv == HookInv /\ [Webhooks!Next]_(Webhooks!outboxVars) => HookInv'
<1> SUFFICES ASSUME HookInv, [Webhooks!Next]_(Webhooks!outboxVars) PROVE HookInv'
    OBVIOUS
<1>1. /\ MaxTries \in Nat \ {0} /\ MaxStops \in Nat /\ "none" \notin Items
      /\ wRow \in [Items -> {"none", "pending", "delivering", "delivered", "failed", "dead"}]
      /\ wTries \in [Items -> 0 .. MaxTries] /\ wSubscribed \in SUBSET Items
      /\ wBatch \in SUBSET Items /\ wSending \in Items \cup {"none"}
      /\ wGot \in [Items -> 0 .. 2] /\ wStops \in 0 .. MaxStops
      /\ wSending # "none" => wRow[wSending] = "delivering"
      /\ \A e \in wBatch : e # wSending /\ wRow[e] \in {"pending", "failed", "delivering"}
      /\ \A e \in Items : /\ wRow[e] \notin {"delivered", "dead"} => wTries[e] < MaxTries
                          /\ wRow[e] = "delivered" => wGot[e] > 0
                          /\ wRow[e] = "none" => wGot[e] = 0
                          /\ wGot[e] <= wTries[e] + wStops
    BY JobAssumption DEF HookInv, Webhooks!TypeOK, Webhooks!RowStatus, Webhooks!DueRow
<1> DEFINE Types == /\ wRow' \in [Items -> {"none", "pending", "delivering", "delivered", "failed", "dead"}]
                    /\ wTries' \in [Items -> 0 .. MaxTries] /\ wSubscribed' \in SUBSET Items
                    /\ wBatch' \in SUBSET Items /\ wSending' \in Items \cup {"none"}
                    /\ wGot' \in [Items -> 0 .. 2] /\ wStops' \in 0 .. MaxStops
           Sent == /\ wSending' # "none" => wRow'[wSending'] = "delivering"
                   /\ \A e \in wBatch' : e # wSending' /\ wRow'[e] \in {"pending", "failed", "delivering"}
           Rows == \A e \in Items : /\ wRow'[e] \notin {"delivered", "dead"} => wTries'[e] < MaxTries
                                    /\ wRow'[e] = "delivered" => wGot'[e] > 0
                                    /\ wRow'[e] = "none" => wGot'[e] = 0
                                    /\ wGot'[e] <= wTries'[e] + wStops'
<1>2. Types /\ Sent /\ Rows => HookInv'
    BY DEF HookInv, Webhooks!TypeOK, Webhooks!RowStatus, Webhooks!DueRow
<1>3. ASSUME NEW e \in Items, Webhooks!Publish(e) PROVE Types /\ Sent /\ Rows
    <2>1. UNCHANGED <<wTries, wSubscribed, wBatch, wSending, wGot, wStops>>
        BY <1>3 DEF Webhooks!Publish
    <2>2. wRow' = wRow \/ (wRow[e] = "none" /\ wRow' = [wRow EXCEPT ![e] = "pending"])
        <3>1. wRow' = [wRow EXCEPT ![e] = Webhooks!Enqueued(wRow[e])]
            BY <1>3 DEF Webhooks!Publish, Webhooks!Enqueue
        <3>2. CASE wRow[e] = "none"
            BY <3>1, <3>2 DEF Webhooks!Enqueued
        <3>3. CASE wRow[e] # "none"
            <4>1. wRow' = [wRow EXCEPT ![e] = wRow[e]]
                BY <3>1, <3>3 DEF Webhooks!Enqueued
            <4> QED BY <1>1, <4>1
        <3> QED BY <3>2, <3>3
    <2> QED BY <1>1, <2>1, <2>2
<1>4. ASSUME Webhooks!SaveConfig PROVE Types /\ Sent /\ Rows
    BY <1>1, <1>4 DEF Webhooks!SaveConfig
<1>5. ASSUME Webhooks!StartBatch PROVE Types /\ Sent /\ Rows
    <2>1. /\ UNCHANGED <<wRow, wTries, wSubscribed, wSending, wGot, wStops>>
          /\ wSending = "none" /\ wBatch' \in SUBSET {e \in wSubscribed : Webhooks!DueRow(wRow[e])}
        BY <1>5 DEF Webhooks!StartBatch, Webhooks!Delivering
    <2>2. /\ wBatch' \in SUBSET Items
          /\ \A e \in wBatch' : e # "none" /\ wRow[e] \in {"pending", "failed", "delivering"}
        BY <1>1, <2>1 DEF Webhooks!DueRow
    <2> QED BY <1>1, <2>1, <2>2
<1>6. ASSUME NEW e \in Items, Webhooks!Send(e) PROVE Types /\ Sent /\ Rows
    <2>1. /\ UNCHANGED <<wTries, wSubscribed, wGot, wStops>>
          /\ e \in wBatch /\ wSending' = e /\ wBatch' = wBatch \ {e}
          /\ wRow' = [wRow EXCEPT ![e] = "delivering"]
        BY <1>6 DEF Webhooks!Send
    <2> QED BY <1>1, <2>1
\* What becomes of the row that was being sent.
<1>7. ASSUME NEW e \in Items, NEW s \in {"delivered", "failed", "dead"}, Webhooks!Settled(e, s),
             s = "failed" => wTries[e] + 1 < MaxTries,
             Webhooks!Receives(e) \/ (s # "delivered" /\ UNCHANGED wGot)
      PROVE  Types /\ Sent /\ Rows
    <2>1. /\ wSending = e /\ wSending' = "none" /\ wRow' = [wRow EXCEPT ![e] = s]
          /\ wTries' = [wTries EXCEPT ![e] = @ + 1]
          /\ UNCHANGED <<wSubscribed, wBatch, wStops>>
        BY <1>7 DEF Webhooks!Settled
    <2>2. /\ wRow[e] = "delivering" /\ wTries[e] \in Nat /\ wTries[e] < MaxTries
          /\ wGot[e] \in 0 .. 2 /\ wStops \in Nat
        BY <1>1, <2>1, SMT
    <2>3. /\ wRow'[e] = s /\ wTries'[e] = wTries[e] + 1
          /\ \A d \in Items \ {e} : wRow'[d] = wRow[d] /\ wTries'[d] = wTries[d]
        BY <1>1, <2>1
    <2>4. /\ wRow' \in [Items -> {"none", "pending", "delivering", "delivered", "failed", "dead"}]
          /\ wTries' \in [Items -> 0 .. MaxTries]
        BY <1>1, <2>1, <2>2, SMT
    <2>5. /\ wGot' \in [Items -> 0 .. 2] /\ \A d \in Items \ {e} : wGot'[d] = wGot[d]
          /\ wGot'[e] <= wGot[e] + 1 /\ (s = "delivered" => wGot'[e] > 0)
        BY <1>1, <1>7, <2>2, SMT DEF Webhooks!Receives
    <2>6. Types /\ Sent
        BY <1>1, <2>1, <2>3, <2>4, <2>5
    <2>7. ASSUME NEW d \in Items \ {e}
          PROVE  /\ wRow'[d] \notin {"delivered", "dead"} => wTries'[d] < MaxTries
                 /\ wRow'[d] = "delivered" => wGot'[d] > 0
                 /\ wRow'[d] = "none" => wGot'[d] = 0
                 /\ wGot'[d] <= wTries'[d] + wStops'
        BY <1>1, <2>1, <2>3, <2>5
    <2>8. wGot'[e] <= wTries'[e] + wStops'
        <3>1. wGot'[e] \in Nat /\ wGot[e] <= wTries[e] + wStops
            BY <1>1, <2>5, SMT
        <3> QED BY <2>1, <2>2, <2>3, <2>5, <3>1, SMT
    <2>9. /\ wRow'[e] \notin {"delivered", "dead"} => wTries'[e] < MaxTries
          /\ wRow'[e] = "delivered" => wGot'[e] > 0
          /\ wRow'[e] # "none"
        BY <1>7, <2>3, <2>5
    <2> QED BY <2>6, <2>7, <2>8, <2>9
<1>8. ASSUME NEW e \in Items, Webhooks!Accepted(e) PROVE Types /\ Sent /\ Rows
    BY <1>7, <1>8 DEF Webhooks!Accepted
<1>9. ASSUME NEW e \in Items, Webhooks!Refused(e) PROVE Types /\ Sent /\ Rows
    <2>1. wTries[e] \in Nat
        BY <1>1, SMT
    <2>2. \/ Webhooks!AfterFailure(wTries[e]) = "dead"
          \/ Webhooks!AfterFailure(wTries[e]) = "failed" /\ wTries[e] + 1 < MaxTries
        BY <1>1, <2>1, SMT DEF Webhooks!AfterFailure
    <2>3. PICK s \in {"dead", "failed"} :
             Webhooks!Settled(e, s) /\ (s = "failed" => wTries[e] + 1 < MaxTries)
        BY <1>9, <2>2 DEF Webhooks!Refused
    <2> QED BY <1>7, <1>9, <2>3 DEF Webhooks!Refused
<1>10. ASSUME Webhooks!Restart PROVE Types /\ Sent /\ Rows
    <2>1. /\ wStops < MaxStops /\ wStops' = wStops + 1 /\ wBatch' = {} /\ wSending' = "none"
          /\ UNCHANGED <<wRow, wTries, wSubscribed>>
          /\ UNCHANGED wGot \/ \E e \in Items : wSending = e /\ Webhooks!Receives(e)
        BY <1>10 DEF Webhooks!Restart
    <2>2. wStops' \in 0 .. MaxStops
        BY <1>1, <2>1, SMT
    <2>3. ASSUME NEW e \in Items, wSending = e, Webhooks!Receives(e)
          PROVE  /\ wRow[e] = "delivering" /\ wGot' \in [Items -> 0 .. 2]
                 /\ wGot'[e] <= wGot[e] + 1 /\ \A d \in Items \ {e} : wGot'[d] = wGot[d]
        BY <1>1, <2>3, SMT DEF Webhooks!Receives
    <2>4. /\ wGot' \in [Items -> 0 .. 2]
          /\ \A d \in Items : \/ wGot'[d] = wGot[d]
                              \/ wRow[d] = "delivering" /\ wGot'[d] <= wGot[d] + 1
        BY <1>1, <2>1, <2>3
    <2>5. Types /\ Sent
        BY <1>1, <2>1, <2>2, <2>4
    <2>6. ASSUME NEW d \in Items
          PROVE  /\ wRow'[d] \notin {"delivered", "dead"} => wTries'[d] < MaxTries
                 /\ wRow'[d] = "delivered" => wGot'[d] > 0
                 /\ wRow'[d] = "none" => wGot'[d] = 0
        BY <1>1, <2>1, <2>4
    <2>7. ASSUME NEW d \in Items PROVE wGot'[d] <= wTries'[d] + wStops'
        <3>1. /\ wGot'[d] \in Nat /\ wGot[d] \in Nat /\ wTries[d] \in Nat /\ wStops \in Nat
              /\ wGot[d] <= wTries[d] + wStops /\ wTries'[d] = wTries[d]
              /\ wGot'[d] = wGot[d] \/ wGot'[d] <= wGot[d] + 1
            BY <1>1, <2>1, <2>4, SMT
        <3> QED BY <2>1, <3>1, SMT
    <2> QED BY <2>5, <2>6, <2>7
<1>11. ASSUME UNCHANGED Webhooks!outboxVars PROVE Types /\ Sent /\ Rows
    BY <1>1, <1>11 DEF Webhooks!outboxVars
<1> HIDE DEF Types, Sent, Rows
<1> QED BY <1>2, <1>3, <1>4, <1>5, <1>6, <1>8, <1>9, <1>10, <1>11 DEF Webhooks!Next

\* The stages of the rows r while a row, or none, is being sent.
StageOfRow(s, here) ==
  CASE s = "delivering" -> (IF here THEN "working" ELSE "waiting")
    [] s = "delivered" -> "done"
    [] OTHER -> Stage(s)

HookStages(r, sending) == [e \in Items |-> StageOfRow(r[e], sending = e)]

\* The stages of the deliveries, from the statuses of their rows.
LEMMA HookStageOf ==
  /\ \A here \in BOOLEAN : /\ StageOfRow("none", here) = "absent"
                           /\ StageOfRow("pending", here) = "waiting"
                           /\ StageOfRow("failed", here) = "waiting"
                           /\ StageOfRow("delivered", here) = "done"
                           /\ StageOfRow("dead", here) = "dead"
  /\ StageOfRow("delivering", TRUE) = "working"
  /\ StageOfRow("delivering", FALSE) = "waiting"
BY StageOf, Zenon DEF StageOfRow

\* Every step of the outbox is a move of its rows.
LEMMA HookMoves ==
  ASSUME HookInv, [Webhooks!Next]_(Webhooks!outboxVars)
  PROVE  \/ StageMove(HookStages(wRow, wSending), wTries, HookStages(wRow', wSending'), wTries')
         \/ HookStages(wRow', wSending') = HookStages(wRow, wSending) /\ wTries' = wTries
<1> DEFINE p == HookStages(wRow, wSending)
           q == HookStages(wRow', wSending')
           Moves == StageMove(p, wTries, q, wTries') \/ (q = p /\ wTries' = wTries)
<1>1. /\ wRow \in [Items -> {"none", "pending", "delivering", "delivered", "failed", "dead"}]
      /\ "none" \notin Items
      /\ wSending # "none" => wRow[wSending] = "delivering"
      /\ wSending \in Items \cup {"none"}
      /\ \A e \in wBatch : wRow[e] \in {"pending", "failed", "delivering"}
      /\ \A e \in Items : wTries[e] \in Nat /\ p[e] = StageOfRow(wRow[e], wSending = e)
      /\ MaxTries \in Nat
    BY JobAssumption, SMT
       DEF HookInv, Webhooks!TypeOK, Webhooks!RowStatus, Webhooks!DueRow, HookStages
<1>2. ASSUME UNCHANGED <<wRow, wTries, wSending>> PROVE Moves
    BY <1>2
\* A row that moves, or begins or ceases to be sent, while the others stay.
<1>one. ASSUME NEW e \in Items,
               \A d \in Items \ {e} : wRow'[d] = wRow[d] /\ ((wSending' = d) <=> (wSending = d)),
               NEW to, StageOfRow(wRow'[e], wSending' = e) = to
        PROVE  q = [p EXCEPT ![e] = to]
    <2>1. \A d \in Items : q[d] = IF d = e THEN to ELSE p[d]
        BY <1>one, Zenon DEF HookStages
    <2>2. q = [d \in Items |-> q[d]] /\ p = [d \in Items |-> p[d]]
        BY Zenon DEF HookStages
    <2> HIDE DEF p, q
    <2> QED BY <2>1, <2>2
<1>3. ASSUME NEW e \in Items, Webhooks!Publish(e) PROVE Moves
    <2>1. wRow' = [wRow EXCEPT ![e] = Webhooks!Enqueued(wRow[e])] /\ UNCHANGED <<wTries, wSending>>
        BY <1>3 DEF Webhooks!Publish, Webhooks!Enqueue
    <2>2. CASE wRow[e] # "none"
        <3>1. wRow' = wRow
            BY <1>1, <2>1, <2>2 DEF Webhooks!Enqueued
        <3> QED BY <1>2, <2>1, <3>1
    <2>3. CASE wRow[e] = "none"
        <3>1. wRow' = [wRow EXCEPT ![e] = "pending"]
            BY <2>1, <2>3 DEF Webhooks!Enqueued
        <3>2. wRow'[e] = "pending" /\ \A d \in Items \ {e} : wRow'[d] = wRow[d]
            BY <1>1, <3>1
        <3>3. q = [p EXCEPT ![e] = "waiting"]
            <4>1. StageOfRow("pending", wSending' = e) = "waiting"
                BY HookStageOf
            <4>2. StageOfRow(wRow'[e], wSending' = e) = "waiting"
                BY <3>2, <4>1
            <4>3. \A d \in Items \ {e} : wRow'[d] = wRow[d] /\ ((wSending' = d) <=> (wSending = d))
                BY <2>1, <3>2
            <4> HIDE DEF p, q
            <4> QED BY <1>one, <4>2, <4>3, Zenon
        <3>4. q = [d \in Items |-> IF d \in {e} THEN "waiting" ELSE p[d]]
            BY <3>3 DEF HookStages
        <3>5. p[e] = "absent"
            BY <1>1, <2>3, HookStageOf
        <3> HIDE DEF p, q
        <3> QED BY <2>1, <3>4, <3>5 DEF StageMove
    <2> QED BY <2>2, <2>3
<1>4. ASSUME NEW e \in Items, Webhooks!Send(e) PROVE Moves
    <2>1. /\ wSending = "none" /\ e \in wBatch /\ wSending' = e /\ wTries' = wTries
          /\ wRow' = [wRow EXCEPT ![e] = "delivering"]
        BY <1>4 DEF Webhooks!Send
    <2>2. wRow'[e] = "delivering" /\ \A d \in Items \ {e} : wRow'[d] = wRow[d] /\ wSending # d
        BY <1>1, <2>1
    <2>3. q = [p EXCEPT ![e] = "working"]
        <3>1. (wSending' = e) = TRUE
            BY <2>1
        <3>2. StageOfRow(wRow'[e], wSending' = e) = "working"
            BY <2>2, <3>1, HookStageOf
        <3>3. \A d \in Items \ {e} : wRow'[d] = wRow[d] /\ ((wSending' = d) <=> (wSending = d))
            BY <2>1, <2>2
        <3> HIDE DEF p, q
        <3> QED BY <1>one, <3>2, <3>3, Zenon
    <2>4. \A d \in Items : (wSending = d) = FALSE
        BY <1>1, <2>1
    <2>5. p[e] = "waiting"
        BY <1>1, <2>1, <2>4, HookStageOf
    <2>6. \A d \in Items : p[d] # "working"
        BY <1>1, <2>4, HookStageOf
    <2> HIDE DEF p, q
    <2> QED BY <2>1, <2>3, <2>5, <2>6 DEF StageMove, GoesTo
\* The row that is being sent, and what becomes of it.
<1>5. ASSUME NEW e \in Items, wSending = e PROVE p[e] = "working"
    BY <1>1, <1>5, HookStageOf
<1>6. ASSUME NEW e \in Items, NEW s \in {"delivered", "failed", "dead"}, Webhooks!Settled(e, s),
             NEW to, \A here \in BOOLEAN : StageOfRow(s, here) = to
      PROVE  p[e] = "working" /\ q = [p EXCEPT ![e] = to] /\ wTries' = [wTries EXCEPT ![e] = @ + 1]
    <2>1. /\ wSending = e /\ wSending' = "none" /\ wRow' = [wRow EXCEPT ![e] = s]
          /\ wTries' = [wTries EXCEPT ![e] = @ + 1]
        BY <1>6 DEF Webhooks!Settled
    <2>2. /\ wRow'[e] = s
          /\ \A d \in Items \ {e} : wRow'[d] = wRow[d] /\ wSending # d /\ wSending' # d
        BY <1>1, <2>1
    <2>3. q = [p EXCEPT ![e] = to]
        <3>1. (wSending' = e) \in BOOLEAN
            OBVIOUS
        <3>2. StageOfRow(s, wSending' = e) = to
            BY <1>6, <3>1
        <3>3. StageOfRow(wRow'[e], wSending' = e) = to
            BY <2>2, <3>2
        <3>4. \A d \in Items \ {e} : wRow'[d] = wRow[d] /\ ((wSending' = d) <=> (wSending = d))
            BY <2>2
        <3> HIDE DEF p, q
        <3> QED BY <1>one, <3>3, <3>4, Zenon
    <2> QED BY <1>5, <2>1, <2>3
<1>7. ASSUME NEW e \in Items, Webhooks!Accepted(e) PROVE Moves
    <2>1. p[e] = "working" /\ q = [p EXCEPT ![e] = "done"] /\ wTries' = [wTries EXCEPT ![e] = @ + 1]
        <3>1. /\ Webhooks!Settled(e, "delivered")
              /\ \A here \in BOOLEAN : StageOfRow("delivered", here) = "done"
            BY <1>7, HookStageOf DEF Webhooks!Accepted
        <3> HIDE DEF p, q
        <3> QED BY <1>6, <3>1
    <2> HIDE DEF p, q
    <2> QED BY <2>1 DEF StageMove, GoesTo
<1>8. ASSUME NEW e \in Items, Webhooks!Refused(e) PROVE Moves
    <2>1. wTries[e] \in Nat /\ wTries[e] < MaxTries
        BY <1>1, <1>8 DEF HookInv, Webhooks!Refused, Webhooks!Settled
    <2>2. CASE wTries[e] + 1 < MaxTries
        <3>1. Webhooks!AfterFailure(wTries[e]) = "failed"
            BY <1>1, <2>1, <2>2, SMT DEF Webhooks!AfterFailure
        <3>2. Webhooks!Settled(e, "failed")
            BY <1>8, <3>1 DEF Webhooks!Refused
        <3>3. /\ p[e] = "working" /\ q = [p EXCEPT ![e] = "waiting"]
              /\ wTries' = [wTries EXCEPT ![e] = @ + 1]
            <4>1. \A here \in BOOLEAN : StageOfRow("failed", here) = "waiting"
                BY HookStageOf
            <4> HIDE DEF p, q
            <4> QED BY <1>6, <3>2, <4>1
        <3> HIDE DEF p, q
        <3> QED BY <2>2, <3>3 DEF StageMove, GoesTo
    <2>3. CASE wTries[e] + 1 = MaxTries
        <3>1. Webhooks!AfterFailure(wTries[e]) = "dead"
            BY <1>1, <2>1, <2>3, SMT DEF Webhooks!AfterFailure
        <3>2. Webhooks!Settled(e, "dead")
            BY <1>8, <3>1 DEF Webhooks!Refused
        <3>3. /\ p[e] = "working" /\ q = [p EXCEPT ![e] = "dead"]
              /\ wTries' = [wTries EXCEPT ![e] = @ + 1]
            <4>1. \A here \in BOOLEAN : StageOfRow("dead", here) = "dead"
                BY HookStageOf
            <4> HIDE DEF p, q
            <4> QED BY <1>6, <3>2, <4>1
        <3> HIDE DEF p, q
        <3> QED BY <2>3, <3>3 DEF StageMove, GoesTo
    <2> QED BY <1>1, <2>1, <2>2, <2>3, SMT
<1>9. ASSUME Webhooks!Restart PROVE Moves
    <2>1. wSending' = "none" /\ UNCHANGED <<wRow, wTries>>
        BY <1>9 DEF Webhooks!Restart
    <2>2. CASE wSending = "none"
        BY <1>2, <2>1, <2>2
    <2>3. CASE wSending # "none"
        <3>1. PICK e \in Items : wSending = e
            BY <1>1, <2>3
        <3>2. /\ wRow'[e] = "delivering" /\ (wSending' = e) = FALSE
              /\ \A d \in Items \ {e} : wRow'[d] = wRow[d] /\ wSending # d /\ wSending' # d
            BY <1>1, <2>1, <3>1
        <3>3. StageOfRow(wRow'[e], wSending' = e) = "waiting"
            BY <3>2, HookStageOf
        <3>4. q = [p EXCEPT ![e] = "waiting"]
            <4>1. \A d \in Items \ {e} : wRow'[d] = wRow[d] /\ ((wSending' = d) <=> (wSending = d))
                BY <3>2
            <4> HIDE DEF p, q
            <4> QED BY <1>one, <3>3, <4>1, Zenon
        <3>5. p[e] = "working"
            BY <1>5, <3>1
        <3> HIDE DEF p, q
        <3> QED BY <2>1, <3>4, <3>5 DEF StageMove, GoesTo
    <2> QED BY <2>2, <2>3
<1>10. ASSUME Webhooks!SaveConfig \/ Webhooks!StartBatch \/ UNCHANGED Webhooks!outboxVars
       PROVE  Moves
    BY <1>2, <1>10, Zenon DEF Webhooks!SaveConfig, Webhooks!StartBatch, Webhooks!outboxVars
<1> HIDE DEF Moves
<1>11. Moves
    BY <1>3, <1>4, <1>7, <1>8, <1>9, <1>10 DEF Webhooks!Next
<1> QED BY <1>11 DEF Moves

\* A move of the rows is a step of a durable job.
LEMMA HookDurableStep ==
  ASSUME HookInv, [Webhooks!Next]_(Webhooks!outboxVars)
  PROVE  [Webhooks!Durable!DNext]_(Webhooks!Durable!durableVars)
<1> DEFINE p == [e \in Items |-> Webhooks!RowStage(e)]
<1>1. p = HookStages(wRow, wSending) /\ p' = HookStages(wRow', wSending')
    BY DEF HookStages, StageOfRow, Webhooks!RowStage, Stage, Webhooks!Stage, Due, Webhooks!Due
<1>2. StageMove(p, wTries, p', wTries') \/ UNCHANGED <<p, wTries>>
    BY <1>1, HookMoves, Zenon
<1>3. ASSUME StageMove(p, wTries, p', wTries') PROVE Webhooks!Durable!DNext
    BY <1>3, Zenon DEF StageMove, GoesTo, Webhooks!Durable!DNext,
       Webhooks!Durable!Create, Webhooks!Durable!Take, Webhooks!Durable!Drop,
       Webhooks!Durable!Finish, Webhooks!Durable!Retry, Webhooks!Durable!Bury,
       Webhooks!Durable!GoTo, Webhooks!Durable!Counted, Webhooks!Durable!Uncounted
<1> QED BY <1>2, <1>3 DEF Webhooks!Durable!durableVars

\* The invariant of the outbox, of any behaviour of it.
LEMMA HookSafe == Webhooks!Spec => []HookInv
<1>1. Webhooks!Init => HookInv
    <2> SUFFICES ASSUME Webhooks!Init PROVE HookInv
        OBVIOUS
    <2>1. MaxTries \in Nat \ {0} /\ MaxStops \in Nat
        BY JobAssumption
    <2>2. Webhooks!TypeOK
        BY <2>1, SMT DEF Webhooks!Init, Webhooks!TypeOK, Webhooks!RowStatus
    <2>3. /\ wSending = "none" /\ wBatch = {} /\ wStops = 0
          /\ \A e \in Items : wRow[e] = "none" /\ wTries[e] = 0 /\ wGot[e] = 0
        BY DEF Webhooks!Init
    <2>4. 0 < MaxTries /\ 0 <= 0 + 0
        BY <2>1, SMT
    <2> QED BY <2>2, <2>3, <2>4, Zenon DEF HookInv
<1> QED BY <1>1, HookStepInv, PTL DEF Webhooks!Spec

\* The rows of webhook_outbox keep what DurableJob promises.
LEMMA HookDurable == Webhooks!Spec => Webhooks!ImplementsDurable
<1>1. Webhooks!Init => Webhooks!Durable!DInit
    <2> SUFFICES ASSUME Webhooks!Init PROVE Webhooks!Durable!DInit
        OBVIOUS
    <2>1. \A e \in Items : Webhooks!RowStage(e) = "absent"
        BY DEF Webhooks!Init, Webhooks!RowStage, Webhooks!Stage, Webhooks!Due
    <2> QED BY <2>1 DEF Webhooks!Init, Webhooks!Durable!DInit
<1>2. HookInv /\ [Webhooks!Next]_(Webhooks!outboxVars)
        => [Webhooks!Durable!DNext]_(Webhooks!Durable!durableVars)
    BY HookDurableStep
<1> QED BY <1>1, <1>2, HookSafe, PTL
        DEF Webhooks!Spec, Webhooks!ImplementsDurable, Webhooks!Durable!DSpec

-----------------------------------------------------------------------------
(* The composition *)

\* A behaviour of the four modules together is one of each.
LEMMA PartsRun == MCSpec => Spec /\ Crm!Spec /\ Appointments!Spec /\ Webhooks!Spec
<1>1. MCInit => Init /\ Crm!Init /\ Appointments!Init /\ Webhooks!Init
    BY DEF MCInit
<1>2. [MCNext]_vars => /\ [Next]_analysisVars /\ [Crm!Next]_(Crm!crmVars)
                       /\ [Appointments!Next]_(Appointments!appointmentVars)
                       /\ [Webhooks!Next]_(Webhooks!outboxVars)
    BY Zenon DEF MCNext, vars, cVars, pVars, wVars, Crm!crmVars, Appointments!appointmentVars,
       Webhooks!outboxVars
<1> QED BY <1>1, <1>2, PTL DEF MCSpec, Spec, Crm!Spec, Appointments!Spec, Webhooks!Spec

\* What is announced is announced of calls.
LEMMA AnnouncedCalls == Spec => [](announced \in SUBSET Items)
<1>1. Init => announced \in SUBSET Items
    BY DEF Init
<1>2. announced \in SUBSET Items /\ [Next]_analysisVars => (announced \in SUBSET Items)'
    <2> SUFFICES ASSUME announced \in SUBSET Items, [Next]_analysisVars
                 PROVE  announced' \in SUBSET Items
        OBVIOUS
    <2>1. announced' = announced \/ \E c \in Items : announced' = announced \cup {c}
        BY Zenon DEF Next, CallEnded, TaskAnalyze, AnalysisStep, ProcessDue, ModelAnswers, JobReturns,
           TaskReturns, StopAfterPut, Restart, Stopped, Analyze, Persist, analysisVars
    <2> QED BY <2>1
<1> QED BY <1>1, <1>2, PTL DEF Spec

\* However the application is stopped, what the tables say is so outside: a call
\* announced as synced has its note, appointments agree with their jobs and the
\* calendar, and a delivery marked as delivered was received.
THEOREM TablesAgree == MCSpec => []TablesMatchOutside
<1>1. Inv /\ announced \in SUBSET Items /\ CrmInv /\ ApptInv /\ HookInv => TablesMatchOutside
    <2>1. Inv /\ announced \in SUBSET Items => TypeOK
        BY DEF Inv, Values, TypeOK
    <2>2. CrmInv => Crm!TypeOK /\ Crm!SyncedHasNote
        BY DEF CrmInv
    <2>3. HookInv => Webhooks!TypeOK
        BY DEF HookInv
    <2> QED BY <2>1, <2>2, <2>3, ApptInvGives, HookInvGives DEF TablesMatchOutside
<1> QED BY <1>1, PartsRun, AnalysisInvariant, AnnouncedCalls, CrmSafe, ApptSafe, HookSafe, PTL

\* The tables of the CRM, the appointments and the webhooks keep the promises of
\* DurableJob: one job at a time, every failed attempt counted, settled for good.
THEOREM OthersKeepJobs == MCSpec => OthersAreDurable
BY PartsRun, CrmDurable, ApptDurable, HookDurable, PTL DEF OthersAreDurable
=============================================================================
