-------------------------- MODULE TaskQueueProofs --------------------------
(***************************************************************************)
(* Theorems about TaskQueue for every number of tasks, clients, attempts,  *)
(* calls and restarts.  The argument is layered: TypeInv (types, and what  *)
(* the runner and the gate record of each other) is inductive by itself;   *)
(* each later invariant is inductive relative to the ones before it.       *)
(***************************************************************************)
EXTENDS TaskQueue, TLAPS

-----------------------------------------------------------------------------
(* The inductive strengthening of TypeOK, one conjunct per group of variables *)

\* A task that waits has an attempt left.
TaskRows ==
    /\ status   \in [Tasks -> TaskStatus]
    /\ attempts \in [Tasks -> 0 .. MaxAttempts]
    /\ callOf   \in [Tasks -> Calls \cup {0}]
    /\ error    \in [Tasks -> {"none", "busy", "other"}]
    /\ \A t \in Tasks : /\ status[t] = "unsubmitted" => attempts[t] = 0
                        /\ status[t] = "queued" => attempts[t] < MaxAttempts

\* A runner that is not idle has a task and the number of its attempt.
RunRows ==
    \/ runPc = "idle" /\ runTask = "none" /\ runTry = 0
    \/ /\ runPc \in {"dialing", "in_call", "analyzing"}
       /\ runTask \in Tasks /\ runTry \in 1 .. MaxAttempts

\* A shut gate knows for which dial.
DialRows ==
    /\ \/ dialStage = "none" /\ dialReq = NoReq
       \/ dialStage \in {"approval", "sent"} /\ dialReq \in dialKeys
    /\ callLease \in BOOLEAN
    /\ dialKeys \subseteq Req

LineRows ==
    /\ latest    \in {"unready", "no_call", "live", "over"}
    /\ cmd       \in [Req -> {"none", "queued", "checked", "started"}]
    /\ lineCall  \in Calls \cup {0}
    /\ linePhase \in {"idle", "live", "ending", "reported", "over"}
    /\ hangups   \subseteq Tasks

CallRows ==
    /\ session \in [Calls -> {"none", "live", "ended"}]
    /\ owner   \in [Calls -> Req \cup {NoReq}]

RestRows ==
    /\ consent \in [Req -> {"none", "direct", "asked", "granted"}]
    /\ crashes \in 0 .. MaxCrashes

TypeInv == TaskRows /\ RunRows /\ DialRows /\ LineRows /\ CallRows /\ RestRows

\* The invariant has all of the types.
LEMMA TypeInvGivesTypeOK == TypeInv => TypeOK
  BY TaskQueueAssumption, SMT
     DEF TypeInv, TypeOK, TaskRows, RunRows, DialRows, LineRows, CallRows, RestRows

\* A transition of a task keeps the rows well formed, given that it is put back
\* in the queue only with an attempt left.
LEMMA MoveTaskRows ==
  ASSUME TaskRows,
         NEW t \in Tasks, NEW s \in TaskStatus \ {"unsubmitted"},
         NEW n \in 0 .. MaxAttempts, NEW e \in {"none", "busy", "other"},
         s = "queued" => n < MaxAttempts,
         MoveTask(t, s, n, e)
  PROVE  TaskRows'
  BY TaskQueueAssumption, SMT DEF TaskRows, MoveTask, SetTask, taskVars

\* failOrRetry keeps the types of what it writes.
LEMMA FailOrRetryRows ==
  ASSUME TaskRows,
         NEW t \in Tasks, NEW n \in 0 .. MaxAttempts, NEW kind,
         NEW e \in {"none", "busy", "other"},
         FailOrRetry(t, n, kind, e)
  PROVE  TaskRows'
<1> DEFINE s == IF kind = "retry" /\ n < MaxAttempts THEN "queued" ELSE "failed"
<1>1. s \in TaskStatus \ {"unsubmitted"}
  BY DEF TaskStatus, TerminalStatus
<1>2. s = "queued" => n < MaxAttempts
  OBVIOUS
<1>3. MoveTask(t, s, n, e)
  BY DEF FailOrRetry
<1> HIDE DEF s
<1> QED
  BY <1>1, <1>2, <1>3, MoveTaskRows

\* So does a dial that throws.
LEMMA DialThrowsRows ==
  ASSUME TaskRows, RunRows, DialRows, dialStage # "none",
         NEW kind, NEW e \in {"none", "busy", "other"},
         DialThrows(kind, e)
  PROVE  TaskRows' /\ RunRows' /\ DialRows'
<1>1. DialRows'
  BY SMT DEF DialRows, DialThrows
<1>2. CASE dialReq.by = runTask
  <2>1. runTask \in Tasks /\ runTry \in 0 .. MaxAttempts
    BY <1>2, TaskQueueAssumption, SMT DEF RunRows, DialRows, Req
  <2>2. RunRows'
    BY <1>2 DEF DialThrows, EndRun, RunRows
  <2>3. CASE kind = "final"
    <3>1. MoveTask(runTask, "failed", attempts[runTask], e)
      BY <1>2, <2>3 DEF DialThrows
    <3>2. attempts[runTask] \in 0 .. MaxAttempts
      BY <2>1 DEF TaskRows
    <3>3. "failed" \in TaskStatus \ {"unsubmitted"}
      BY DEF TaskStatus, TerminalStatus
    <3> QED
      BY <3>1, <3>2, <3>3, <2>1, <2>2, <1>1, MoveTaskRows
  <2>4. CASE kind # "final"
    <3>1. FailOrRetry(runTask, runTry, kind, e)
      BY <1>2, <2>4 DEF DialThrows
    <3> QED
      BY <3>1, <2>1, <2>2, <1>1, FailOrRetryRows
  <2> QED
    BY <2>3, <2>4
<1>3. CASE dialReq.by # runTask
  BY <1>1, <1>3 DEF DialThrows, TaskRows, RunRows, taskVars, runVars
<1> QED
  BY <1>2, <1>3

\* So does a dial that begins.
LEMMA BeginDialRows ==
  ASSUME DialRows, LineRows, RestRows, NEW r \in Req, NEW approve \in BOOLEAN,
         BeginDial(r, approve)
  PROVE  /\ DialRows'
         /\ cmd' \in [Req -> {"none", "queued", "checked", "started"}]
         /\ consent' \in [Req -> {"none", "direct", "asked", "granted"}]
<1>1. DialRows'
  BY SMT DEF BeginDial, DialRows, LeaseSeen, DialBlocked
<1> QED
  BY <1>1, SMT DEF BeginDial, LineRows, RestRows

-----------------------------------------------------------------------------
(* TypeInv is inductive *)

\* The types hold at first.
LEMMA InitTypeInv == Init => TypeInv
<1> SUFFICES ASSUME Init PROVE TypeInv
  OBVIOUS
<1>1. TaskRows
  BY TaskQueueAssumption, SMT DEF Init, TaskRows, TaskStatus, TerminalStatus
<1>2. RunRows /\ DialRows
  BY DEF Init, RunRows, DialRows
<1>3. LineRows /\ CallRows /\ RestRows
  BY TaskQueueAssumption, SMT DEF Init, LineRows, CallRows, RestRows
<1> QED
  BY <1>1, <1>2, <1>3 DEF TypeInv

\* Every step keeps them.
LEMMA StepTypeInv == TypeInv /\ [Next]_vars => TypeInv'
<1> SUFFICES ASSUME TypeInv, [Next]_vars PROVE TypeInv'
  OBVIOUS
<1> USE DEF TypeInv
<1> USE DEF taskVars, runVars, dialVars, lineVars, callVars
<1>1. ASSUME NEW t \in Tasks, Submit(t) PROVE TypeInv'
  <2>1. TaskRows'
    BY <1>1, TaskQueueAssumption, SMT
       DEF Submit, SetTask, TaskRows, TaskStatus, TerminalStatus
  <2> QED
    BY <1>1, <2>1 DEF Submit, RunRows, DialRows, LineRows, CallRows, RestRows
<1>2. ASSUME NEW t \in Tasks, Cancel(t) PROVE TypeInv'
  <2>1. TaskRows'
    BY <1>2, SMT DEF Cancel, SetTask, TaskRows, TaskStatus, TerminalStatus
  <2>2. LineRows'
    BY <1>2 DEF Cancel, LineRows
  <2> QED
    BY <1>2, <2>1, <2>2 DEF Cancel, RunRows, DialRows, CallRows, RestRows
<1>3. ASSUME NEW k \in ClientKeys, ClientDial(k) PROVE TypeInv'
  <2>1. [by |-> k, n |-> 1] \in Req
    BY TaskQueueAssumption DEF Req
  <2>2. /\ DialRows'
        /\ cmd' \in [Req -> {"none", "queued", "checked", "started"}]
        /\ consent' \in [Req -> {"none", "direct", "asked", "granted"}]
    BY <1>3, <2>1, BeginDialRows DEF ClientDial
  <2> QED
    BY <1>3, <2>2 DEF ClientDial, TaskRows, RunRows, LineRows, CallRows, RestRows
<1>4. ASSUME ClientDialRefused PROVE TypeInv'
  BY <1>4 DEF ClientDialRefused, LeaseSeen, TaskRows, RunRows, DialRows,
              LineRows, CallRows, RestRows
<1>5. ASSUME NEW t \in Tasks, RejectBeforeDial(t) PROVE TypeInv'
  <2>1. attempts[t] \in 0 .. MaxAttempts /\ "failed" \in TaskStatus \ {"unsubmitted"}
    BY DEF TaskRows, TaskStatus, TerminalStatus
  <2>2. TaskRows'
    BY <1>5, <2>1, MoveTaskRows DEF RejectBeforeDial
  <2> QED
    BY <1>5, <2>2 DEF RejectBeforeDial, RunRows, DialRows, LineRows, CallRows, RestRows
<1>6. ASSUME NEW t \in Tasks, DialRefused(t) PROVE TypeInv'
  <2>1. attempts[t] + 1 \in 0 .. MaxAttempts
    BY <1>6, TaskQueueAssumption, SMT DEF DialRefused, Runnable, TaskRows
  <2>2. TaskRows'
    <3>1. PICK kind \in {"retry", "fatal"}, e \in {"none", "busy", "other"} :
             FailOrRetry(t, attempts[t] + 1, kind, e)
      BY <1>6, Zenon DEF DialRefused
    <3> QED
      BY <3>1, <2>1, FailOrRetryRows
  <2> QED
    BY <1>6, <2>2 DEF DialRefused, LeaseSeen, RunRows, DialRows, LineRows, CallRows,
                      RestRows
<1>7. ASSUME NEW t \in Tasks, NEW approve \in BOOLEAN, StartDial(t, approve)
      PROVE  TypeInv'
  <2>1. status[t] = "queued" /\ attempts[t] + 1 \in 1 .. MaxAttempts
    BY <1>7, TaskQueueAssumption, SMT DEF StartDial, Runnable, TaskRows
  <2>2. [by |-> t, n |-> attempts[t] + 1] \in Req
    BY <2>1 DEF Req
  <2>3. /\ DialRows'
        /\ cmd' \in [Req -> {"none", "queued", "checked", "started"}]
        /\ consent' \in [Req -> {"none", "direct", "asked", "granted"}]
    BY <1>7, <2>2, BeginDialRows DEF StartDial
  <2>4. TaskRows'
    <3>1. /\ attempts[t] \in 0 .. MaxAttempts
          /\ attempts[t] + 1 \in 0 .. MaxAttempts
          /\ error[t] \in {"none", "busy", "other"}
      BY <2>1, TaskQueueAssumption, SMT DEF TaskRows
    <3>2. {"awaiting_approval", "dialing"} \subseteq TaskStatus \ {"unsubmitted"}
      BY DEF TaskStatus, ActiveStatus
    <3> QED
      BY <1>7, <3>1, <3>2, MoveTaskRows DEF StartDial
  <2>5. RunRows'
    BY <1>7, <2>1 DEF StartDial, RunRows
  <2> QED
    BY <1>7, <2>3, <2>4, <2>5 DEF StartDial, LineRows, CallRows, RestRows
<1>8. ASSUME Approve PROVE TypeInv'
  <2>1. dialReq \in Req
    BY <1>8 DEF Approve, DialRows
  <2>2. RestRows'
    BY <1>8, <2>1 DEF Approve, RestRows
  <2>3. CASE latest = "unready"
    <3>1. DialThrows("final", "other") /\ dialStage # "none"
      BY <1>8, <2>3 DEF Approve
    <3> QED
      BY <1>8, <2>2, <2>3, <3>1, DialThrowsRows DEF Approve, LineRows, CallRows
  <2>4. CASE latest # "unready"
    BY <1>8, <2>1, <2>2, <2>4 DEF Approve, TaskRows, RunRows, DialRows, LineRows, CallRows
  <2> QED
    BY <2>3, <2>4
<1>9. ASSUME Refuse PROVE TypeInv'
  <2>1. TaskRows' /\ RunRows' /\ DialRows'
    BY <1>9, DialThrowsRows DEF Refuse
  <2> QED
    BY <1>9, <2>1 DEF Refuse, LineRows, CallRows, RestRows
<1>10. ASSUME GatewayTimeout PROVE TypeInv'
  <2>1. TaskRows' /\ RunRows' /\ DialRows'
    BY <1>10, DialThrowsRows DEF GatewayTimeout
  <2> QED
    BY <1>10, <2>1 DEF GatewayTimeout, LineRows, CallRows, RestRows
<1>11. ASSUME RendererGone PROVE TypeInv'
  <2>1. TaskRows' /\ RunRows' /\ DialRows'
    <3>1. CASE dialStage = "sent"
      BY <1>11, <3>1, DialThrowsRows DEF RendererGone
    <3>2. CASE dialStage # "sent"
      BY <1>11, <3>2 DEF RendererGone, TaskRows, RunRows, DialRows
    <3> QED
      BY <3>1, <3>2
  <2> QED
    BY <1>11, <2>1 DEF RendererGone, LineRows, CallRows, RestRows
<1>12. ASSUME RendererReady PROVE TypeInv'
  BY <1>12 DEF RendererReady, TaskRows, RunRows, DialRows, LineRows, CallRows, RestRows
<1>13. ASSUME NEW r \in Req, NEW kind, NEW e \in {"none", "busy", "other"},
              AnswerError(r, kind, e)
       PROVE  TypeInv'
  <2>1. TaskRows' /\ RunRows' /\ DialRows'
    <3>1. CASE Awaited(r)
      BY <1>13, <3>1, DialThrowsRows DEF AnswerError, Awaited
    <3>2. CASE ~Awaited(r)
      BY <1>13, <3>2 DEF AnswerError, TaskRows, RunRows, DialRows
    <3> QED
      BY <3>1, <3>2
  <2> QED
    BY <1>13, <2>1 DEF AnswerError, LineRows, CallRows, RestRows
<1>14. ASSUME NEW r \in Req, CheckLine(r) PROVE TypeInv'
  BY <1>14 DEF CheckLine, TaskRows, RunRows, DialRows, LineRows, CallRows, RestRows
<1>15. ASSUME NEW r \in Req, AnswerBusy(r) \/ AnswerRefused(r) \/ AnswerBroken(r)
       PROVE  TypeInv'
  BY <1>13, <1>15 DEF AnswerBusy, AnswerRefused, AnswerBroken
<1>16. ASSUME NEW c \in Calls, NEW r \in Req \cup {NoReq}, PutOnLine(c, r)
       PROVE  CallRows' /\ lineCall' \in Calls /\ linePhase' = "live" /\ latest' = "live"
  BY <1>16 DEF PutOnLine, CallRows
<1>17. ASSUME NEW r \in Req, Connect(r) PROVE TypeInv'
  BY <1>16, <1>17 DEF Connect, TaskRows, RunRows, DialRows, LineRows, RestRows
<1>18. ASSUME NEW r \in Req, AnswerOk(r) PROVE TypeInv'
  <2>1. /\ cmd' \in [Req -> {"none", "queued", "checked", "started"}]
        /\ latest' \in {"unready", "no_call", "live", "over"}
    BY <1>18 DEF AnswerOk, LineRows
  <2>2. LineRows' /\ CallRows' /\ RestRows'
    BY <1>18, <2>1 DEF AnswerOk, LineRows, CallRows, RestRows
  <2>3. DialRows'
    <3>1. callLease' \in BOOLEAN
      <4>1. LineBusy \in BOOLEAN
        BY DEF LineBusy
      <4>2. callLease' = LineBusy \/ callLease' = callLease
        BY <1>18 DEF AnswerOk
      <4> QED
        BY <4>1, <4>2 DEF DialRows
    <3>2. CASE Awaited(r)
      BY <1>18, <3>1, <3>2 DEF AnswerOk, DialRows
    <3>3. CASE ~Awaited(r)
      BY <1>18, <3>1, <3>3 DEF AnswerOk, DialRows
    <3> QED
      BY <3>2, <3>3
  <2>4. CASE ~Awaited(r) \/ dialReq.by # runTask
    BY <1>18, <2>2, <2>3, <2>4 DEF AnswerOk, TaskRows, RunRows
  <2>5. CASE Awaited(r) /\ dialReq.by = runTask
    <3>1. runTask \in Tasks /\ runTry \in 1 .. MaxAttempts
      BY <2>5, TaskQueueAssumption, SMT DEF Awaited, RunRows, DialRows, Req
    <3>2. CASE status[runTask] = "cancelled"
      BY <1>18, <2>2, <2>3, <2>5, <3>2 DEF AnswerOk, TaskRows, RunRows, EndRun
    <3>3. CASE status[runTask] # "cancelled"
      <4>1. PICK s \in {"in_call", "analyzing"} :
               /\ SetTask(runTask, s, runTry, lineCall, error[runTask])
               /\ runPc' = s
               /\ UNCHANGED <<runTask, runTry>>
        BY <1>18, <2>5, <3>3 DEF AnswerOk
      <4>2. TaskRows'
        BY <4>1, <3>1, TaskQueueAssumption, SMT
           DEF SetTask, TaskRows, LineRows, TaskStatus, ActiveStatus
      <4>3. RunRows'
        BY <4>1, <3>1 DEF RunRows
      <4> QED
        BY <2>2, <2>3, <4>2, <4>3
    <3> QED
      BY <3>2, <3>3
  <2> QED
    BY <2>4, <2>5
<1>19. ASSUME OtherCall PROVE TypeInv'
  BY <1>16, <1>19 DEF OtherCall, TaskRows, RunRows, DialRows, LineRows, RestRows
<1>20. ASSUME CallEnds PROVE TypeInv'
  BY <1>20 DEF CallEnds, TaskRows, RunRows, DialRows, LineRows, CallRows, RestRows
<1>21. ASSUME NEW t \in Tasks, HangupArrives(t) PROVE TypeInv'
  BY <1>21 DEF HangupArrives, TaskRows, RunRows, DialRows, LineRows, CallRows, RestRows
<1>22. ASSUME ReportEnded PROVE TypeInv'
  <2>1. DialRows' /\ LineRows' /\ CallRows' /\ RestRows'
    BY <1>22 DEF ReportEnded, DialRows, LineRows, CallRows, RestRows
  <2>2. CASE runPc = "in_call" /\ callOf[runTask] = lineCall
             /\ status[runTask] # "cancelled"
    <3>1. /\ runTask \in Tasks
          /\ attempts[runTask] \in 0 .. MaxAttempts
          /\ error[runTask] \in {"none", "busy", "other"}
          /\ "analyzing" \in TaskStatus \ {"unsubmitted"}
      BY <2>2 DEF RunRows, TaskRows, TaskStatus, ActiveStatus
    <3>2. MoveTask(runTask, "analyzing", attempts[runTask], error[runTask])
      BY <1>22, <2>2 DEF ReportEnded
    <3>3. TaskRows'
      BY <3>1, <3>2, MoveTaskRows
    <3>4. RunRows'
      BY <1>22, <2>2 DEF ReportEnded, RunRows
    <3> QED
      BY <2>1, <3>3, <3>4
  <2>3. CASE ~(runPc = "in_call" /\ callOf[runTask] = lineCall
               /\ status[runTask] # "cancelled")
    BY <1>22, <2>1, <2>3 DEF ReportEnded, TaskRows, RunRows, EndRun
  <2> QED
    BY <2>2, <2>3
<1>23. ASSUME PublishEnded PROVE TypeInv'
  BY <1>23 DEF PublishEnded, TaskRows, RunRows, DialRows, LineRows, CallRows, RestRows
<1>24. ASSUME CallWaitTimeout PROVE TypeInv'
  <2>1. runTask \in Tasks /\ runTry \in 0 .. MaxAttempts
    BY <1>24, TaskQueueAssumption, SMT DEF CallWaitTimeout, RunRows
  <2>2. TaskRows' /\ RunRows'
    BY <1>24, <2>1, FailOrRetryRows DEF CallWaitTimeout, EndRun, RunRows
  <2> QED
    BY <1>24, <2>2 DEF CallWaitTimeout, DialRows, LineRows, CallRows, RestRows
<1>25. ASSUME FinishAnalysis PROVE TypeInv'
  <2>1. runTask \in Tasks /\ runTry \in 0 .. MaxAttempts
    BY <1>25, TaskQueueAssumption, SMT DEF FinishAnalysis, RunRows
  <2>2. {"queued", "completed"} \subseteq TaskStatus \ {"unsubmitted"}
    BY DEF TaskStatus, TerminalStatus
  <2>3. TaskRows'
    BY <1>25, <2>1, <2>2, FailOrRetryRows, MoveTaskRows DEF FinishAnalysis
  <2> QED
    BY <1>25, <2>3 DEF FinishAnalysis, EndRun, RunRows, DialRows, LineRows, CallRows,
                       RestRows
<1>26. ASSUME Restart PROVE TypeInv'
  <2>1. RunRows' /\ DialRows' /\ LineRows'
    BY <1>26 DEF Restart, LoseProcess, EndRun, RunRows, DialRows, LineRows
  <2>2. CallRows'
    BY <1>26 DEF Restart, CallRows
  <2>3. RestRows'
    BY <1>26, TaskQueueAssumption, SMT DEF Restart, RestRows
  <2> QED
    BY <1>26, <2>1, <2>2, <2>3 DEF Restart, TaskRows
<1>27. CASE UNCHANGED vars
  BY <1>27 DEF vars, TaskRows, RunRows, DialRows, LineRows, CallRows, RestRows
<1> QED
  BY <1>1, <1>2, <1>3, <1>4, <1>5, <1>6, <1>7, <1>8, <1>9, <1>10, <1>11, <1>12,
     <1>14, <1>15, <1>17, <1>18, <1>19, <1>20, <1>21, <1>22, <1>23, <1>24, <1>25,
     <1>26, <1>27
     DEF Next, RunnerStep

\* Every variable stays in its type, whatever the number of tasks, calls and
\* restarts: in particular no task is ever dialed beyond maxAttempts.
THEOREM TypeCorrect == Spec => []TypeOK
<1>1. Init => TypeInv
  BY InitTypeInv
<1>2. TypeInv /\ [Next]_vars => TypeInv'
  BY StepTypeInv
<1>3. TypeInv => TypeOK
  BY TypeInvGivesTypeOK
<1> QED
  BY <1>1, <1>2, <1>3, PTL DEF Spec

-----------------------------------------------------------------------------
(* The runner, the gate and the row of the task being run agree *)

\* The dial the gate is shut for is the runner's exactly while the runner waits
\* for it, and the row is at the step the runner is at, or cancelled.
GateInv ==
    /\ runPc = "dialing" => dialReq = [by |-> runTask, n |-> runTry]
    /\ dialReq.by \in Tasks => runPc = "dialing"
    /\ runPc = "dialing"
         => status[runTask] \in {"awaiting_approval", "dialing", "cancelled"}
    /\ runPc = "in_call" => status[runTask] \in {"in_call", "cancelled"}
    /\ runPc = "analyzing" => status[runTask] \in {"analyzing", "cancelled"}
    /\ runPc # "idle" /\ status[runTask] = "awaiting_approval"
         => runTry = attempts[runTask] + 1
    /\ runPc # "idle" /\ status[runTask] \in {"dialing", "in_call", "analyzing"}
         => runTry = attempts[runTask]

\* The rows of the TRANSITIONS table, read off its definition.
LEMMA AllowedTable ==
  /\ Life!Allowed["unsubmitted"] = {"queued"}
  /\ Life!Allowed["queued"] = {"awaiting_approval", "dialing", "failed", "cancelled"}
  /\ Life!Allowed["awaiting_approval"] = {"dialing", "failed", "cancelled"}
  /\ Life!Allowed["dialing"] = {"in_call", "queued", "failed", "cancelled"}
  /\ Life!Allowed["in_call"] = {"analyzing", "queued", "completed", "failed", "cancelled"}
  /\ Life!Allowed["analyzing"] = {"queued", "completed", "failed", "cancelled"}
  /\ Life!Allowed["completed"] = {}
  /\ Life!Allowed["failed"] = {}
  /\ Life!Allowed["cancelled"] = {}
  BY SMT DEF Life!Allowed

\* A run that ends, or a dial that throws, leaves the runner idle and the gate
\* open to it: nothing is left for GateInv to relate.
LEMMA DialThrowsGate ==
  ASSUME TypeInv, GateInv, dialStage # "none", NEW kind, NEW e, DialThrows(kind, e)
  PROVE  GateInv'
<1>1. dialReq' = NoReq /\ NoReq.by \notin Tasks
  BY TaskQueueAssumption DEF DialThrows, NoReq
<1>2. CASE dialReq.by = runTask
  BY <1>1, <1>2 DEF DialThrows, EndRun, GateInv
<1>3. CASE dialReq.by # runTask
  <2>1. runPc # "dialing"
    BY <1>3 DEF GateInv
  <2> QED
    BY <1>1, <1>3, <2>1 DEF DialThrows, GateInv, taskVars, runVars
<1> QED
  BY <1>2, <1>3

\* Every step keeps the gate and the runner in agreement.
LEMMA StepGateInv == TypeInv /\ GateInv /\ [Next]_vars => GateInv'
<1> SUFFICES ASSUME TypeInv, GateInv, [Next]_vars PROVE GateInv'
  OBVIOUS
<1> USE DEF taskVars, runVars, dialVars, lineVars, callVars
<1>0. /\ NoReq.by \notin Tasks
      /\ dialStage # "none" => dialReq \in Req
      /\ runPc # "idle" => runTask \in Tasks /\ runTry \in 1 .. MaxAttempts
      /\ status \in [Tasks -> TaskStatus]
      /\ attempts \in [Tasks -> 0 .. MaxAttempts]
  BY TaskQueueAssumption DEF NoReq, TypeInv, TaskRows, RunRows, DialRows
<1>1. ASSUME NEW t \in Tasks, Submit(t) PROVE GateInv'
  <2>1. runPc # "idle" => runTask # t
    BY <1>1 DEF Submit, GateInv, TypeInv, RunRows
  <2> QED
    BY <1>0, <1>1, <2>1 DEF Submit, SetTask, GateInv
<1>2. ASSUME NEW t \in Tasks, Cancel(t) PROVE GateInv'
  BY <1>0, <1>2 DEF Cancel, SetTask, GateInv
<1>3. ASSUME NEW k \in ClientKeys, ClientDial(k) PROVE GateInv'
  <2>1. dialStage = "none" /\ dialReq' = [by |-> k, n |-> 1]
    BY <1>3 DEF ClientDial, BeginDial, DialBlocked
  <2>2. k \notin Tasks
    BY TaskQueueAssumption
  <2>3. runPc # "dialing"
    BY <2>1, <1>0 DEF GateInv, TypeInv, DialRows, NoReq
  <2> QED
    BY <1>3, <2>1, <2>2, <2>3 DEF ClientDial, GateInv
<1>4. ASSUME ClientDialRefused PROVE GateInv'
  BY <1>4 DEF ClientDialRefused, GateInv
<1>5. ASSUME NEW t \in Tasks, RejectBeforeDial(t) \/ DialRefused(t) PROVE GateInv'
  BY <1>5 DEF RejectBeforeDial, DialRefused, Runnable, GateInv
<1>6. ASSUME NEW t \in Tasks, NEW approve \in BOOLEAN, StartDial(t, approve)
      PROVE  GateInv'
  <2>1. /\ status[t] = "queued"
        /\ runPc' = "dialing" /\ runTask' = t /\ runTry' = attempts[t] + 1
        /\ dialReq' = [by |-> t, n |-> attempts[t] + 1]
    BY <1>6 DEF StartDial, Runnable, BeginDial
  <2>2. \/ status'[t] = "awaiting_approval" /\ attempts'[t] = attempts[t]
        \/ status'[t] = "dialing" /\ attempts'[t] = attempts[t] + 1
    <3>1. CanMove(t, "awaiting_approval") /\ CanMove(t, "dialing")
      BY <2>1, AllowedTable DEF CanMove
    <3> QED
      BY <1>0, <1>6, <3>1 DEF StartDial, MoveTask, SetTask
  <2> QED
    BY <2>1, <2>2, <1>0 DEF GateInv
<1>7. ASSUME Approve PROVE GateInv'
  <2>1. CASE latest = "unready"
    BY <1>7, <2>1, DialThrowsGate DEF Approve
  <2>2. CASE latest # "unready"
    BY <1>7, <2>2 DEF Approve, GateInv
  <2> QED
    BY <2>1, <2>2
<1>8. ASSUME Refuse \/ GatewayTimeout PROVE GateInv'
  BY <1>8, DialThrowsGate DEF Refuse, GatewayTimeout
<1>9. ASSUME RendererGone PROVE GateInv'
  <2>1. CASE dialStage = "sent"
    BY <1>9, <2>1, DialThrowsGate DEF RendererGone
  <2>2. CASE dialStage # "sent"
    BY <1>9, <2>2 DEF RendererGone, GateInv
  <2> QED
    BY <2>1, <2>2
<1>10. ASSUME NEW r \in Req, AnswerBusy(r) \/ AnswerRefused(r) \/ AnswerBroken(r)
       PROVE  GateInv'
  <2>1. PICK kind \in {"retry", "fatal"}, e \in {"busy", "other"} : AnswerError(r, kind, e)
    BY <1>10, Zenon DEF AnswerBusy, AnswerRefused, AnswerBroken
  <2>2. CASE Awaited(r)
    BY <2>1, <2>2, DialThrowsGate DEF AnswerError, Awaited
  <2>3. CASE ~Awaited(r)
    BY <2>1, <2>3 DEF AnswerError, GateInv
  <2> QED
    BY <2>2, <2>3
<1>11. ASSUME NEW r \in Req, AnswerOk(r) PROVE GateInv'
  <2>1. CASE ~Awaited(r)
    BY <1>11, <2>1 DEF AnswerOk, GateInv
  <2>2. CASE Awaited(r) /\ dialReq.by # runTask
    <3>1. runPc # "dialing"
      BY <2>2 DEF GateInv
    <3> QED
      BY <1>0, <1>11, <2>2, <3>1 DEF AnswerOk, GateInv
  <2>3. CASE Awaited(r) /\ dialReq.by = runTask /\ status[runTask] = "cancelled"
    BY <1>0, <1>11, <2>3 DEF AnswerOk, GateInv, EndRun
  <2>4. CASE Awaited(r) /\ dialReq.by = runTask /\ status[runTask] # "cancelled"
    <3>1. runTask \in Tasks
      BY <1>0, <2>4, TaskQueueAssumption, SMT DEF Awaited, TypeInv, RunRows, Req
    <3>2. PICK s \in {"in_call", "analyzing"} :
             /\ SetTask(runTask, s, runTry, lineCall, error[runTask])
             /\ runPc' = s
             /\ UNCHANGED <<runTask, runTry>>
      BY <1>11, <2>4 DEF AnswerOk
    <3>3. dialReq' = NoReq
      BY <1>11, <2>4 DEF AnswerOk
    <3> QED
      BY <1>0, <3>1, <3>2, <3>3 DEF GateInv, SetTask
  <2> QED
    BY <2>1, <2>2, <2>3, <2>4
<1>12. ASSUME ReportEnded PROVE GateInv'
  <2>1. CASE runPc = "in_call" /\ callOf[runTask] = lineCall
             /\ status[runTask] # "cancelled"
    <3>1. /\ status[runTask] = "in_call" /\ dialReq' = dialReq
          /\ runPc' = "analyzing" /\ runTask' = runTask /\ runTry' = runTry
          /\ MoveTask(runTask, "analyzing", attempts[runTask], error[runTask])
      BY <1>12, <2>1 DEF ReportEnded, GateInv
    <3>2. CanMove(runTask, "analyzing")
      BY <3>1, AllowedTable DEF CanMove
    <3>3. status'[runTask] = "analyzing" /\ attempts'[runTask] = attempts[runTask]
      BY <1>0, <2>1, <3>1, <3>2 DEF MoveTask, SetTask
    <3> QED
      BY <2>1, <3>1, <3>3 DEF GateInv
  <2>2. CASE ~(runPc = "in_call" /\ callOf[runTask] = lineCall
               /\ status[runTask] # "cancelled")
    BY <1>12, <2>2 DEF ReportEnded, GateInv, EndRun
  <2> QED
    BY <2>1, <2>2
<1>13. ASSUME CallWaitTimeout \/ FinishAnalysis PROVE GateInv'
  BY <1>13 DEF CallWaitTimeout, FinishAnalysis, EndRun, GateInv
<1>14. ASSUME Restart PROVE GateInv'
  BY <1>0, <1>14 DEF Restart, LoseProcess, EndRun, GateInv
<1>15. ASSUME UNCHANGED <<taskVars, runVars, dialReq>> PROVE GateInv'
  BY <1>15 DEF GateInv
<1>16. ASSUME \/ RendererReady \/ OtherCall \/ CallEnds \/ PublishEnded
              \/ \E t \in Tasks : HangupArrives(t)
              \/ \E r \in Req : CheckLine(r) \/ Connect(r)
              \/ UNCHANGED vars
       PROVE  GateInv'
  BY <1>15, <1>16 DEF RendererReady, OtherCall, CallEnds, PublishEnded, HangupArrives,
                      CheckLine, Connect, vars
<1> QED
  BY <1>1, <1>2, <1>3, <1>4, <1>5, <1>6, <1>7, <1>8, <1>9, <1>10, <1>11, <1>12, <1>13,
     <1>14, <1>16
     DEF Next, RunnerStep

-----------------------------------------------------------------------------
(* The call a task refers to *)

\* A dial that is under way shows a call, and a task that has got as far as a
\* call names one; the last conjunct is AnalyzedCallEnded in its own words.
CallInv ==
    /\ \A r \in Req : cmd[r] = "started" => lineCall # 0
    /\ linePhase # "idle" => lineCall # 0
    /\ \A t \in Tasks : status[t] \in {"in_call", "analyzing", "completed"}
                            => callOf[t] # 0
    /\ AnalyzedCallEnded

\* What a step that moves at most one task may do to CallInv: nothing, when it
\* takes no task into a call and lets no ended session come back.
LEMMA SameCalls ==
  ASSUME TypeInv, CallInv, TypeInv',
         callOf' = callOf,
         \A c \in Calls : session[c] = "ended" => session'[c] = "ended",
         \A r \in Req : cmd'[r] = "started" => lineCall' # 0,
         linePhase' # "idle" => lineCall' # 0,
         \A t \in Tasks :
            \/ status'[t] = status[t]
            \/ status'[t] \notin {"in_call", "analyzing", "completed"}
            \/ status[t] = "analyzing"
  PROVE  CallInv'
  BY SMT DEF TypeInv, TaskRows, CallRows, CallInv, AnalyzedCallEnded

\* A transition of the table to a status before the call, or to a failure.
LEMMA MoveTaskCalls ==
  ASSUME TypeInv, NEW t \in Tasks, NEW s, NEW n, NEW e, MoveTask(t, s, n, e),
         s \notin {"in_call", "analyzing", "completed"}
  PROVE  /\ callOf' = callOf
         /\ \A u \in Tasks : \/ status'[u] = status[u]
                            \/ status'[u] \notin {"in_call", "analyzing", "completed"}
  BY SMT DEF TypeInv, TaskRows, MoveTask, SetTask, taskVars

\* failOrRetry leaves the call of a task alone.
LEMMA FailOrRetryCalls ==
  ASSUME TypeInv, NEW t \in Tasks, NEW n, NEW kind, NEW e, FailOrRetry(t, n, kind, e)
  PROVE  /\ callOf' = callOf
         /\ \A u \in Tasks : \/ status'[u] = status[u]
                            \/ status'[u] \notin {"in_call", "analyzing", "completed"}
<1> DEFINE s == IF kind = "retry" /\ n < MaxAttempts THEN "queued" ELSE "failed"
<1>1. MoveTask(t, s, n, e) /\ s \notin {"in_call", "analyzing", "completed"}
  BY DEF FailOrRetry
<1> HIDE DEF s
<1> QED
  BY <1>1, MoveTaskCalls

\* So does a dial that throws.
LEMMA DialThrowsCalls ==
  ASSUME TypeInv, dialStage # "none", NEW kind, NEW e, DialThrows(kind, e)
  PROVE  /\ callOf' = callOf
         /\ \A u \in Tasks : \/ status'[u] = status[u]
                            \/ status'[u] \notin {"in_call", "analyzing", "completed"}
<1>1. dialReq.by = runTask => runTask \in Tasks
  BY TaskQueueAssumption, SMT DEF TypeInv, RunRows, DialRows, Req
<1>2. CASE dialReq.by = runTask /\ kind = "final"
  BY <1>1, <1>2, MoveTaskCalls DEF DialThrows
<1>3. CASE dialReq.by = runTask /\ kind # "final"
  BY <1>1, <1>3, FailOrRetryCalls DEF DialThrows
<1>4. CASE dialReq.by # runTask
  BY <1>4 DEF DialThrows, taskVars
<1> QED
  BY <1>2, <1>3, <1>4

\* Every step keeps the rows and the calls in agreement.
LEMMA StepCallInv == TypeInv /\ GateInv /\ CallInv /\ [Next]_vars => CallInv'
<1> SUFFICES ASSUME TypeInv, GateInv, CallInv, [Next]_vars PROVE CallInv'
  OBVIOUS
<1> USE DEF taskVars, runVars, dialVars, lineVars, callVars
<1> DEFINE Quiet == \A u \in Tasks :
                      \/ status'[u] = status[u]
                      \/ status'[u] \notin {"in_call", "analyzing", "completed"}
           LineKept == linePhase' # "idle" => lineCall' # 0
           CmdKept == \A r \in Req : cmd'[r] = "started" => lineCall' # 0
<1>0. /\ TypeInv'
      /\ status \in [Tasks -> TaskStatus] /\ callOf \in [Tasks -> Calls \cup {0}]
      /\ session \in [Calls -> {"none", "live", "ended"}]
      /\ cmd \in [Req -> {"none", "queued", "checked", "started"}]
      /\ lineCall \in Calls \cup {0}
      /\ 0 \notin Calls
  BY StepTypeInv DEF TypeInv, TaskRows, CallRows, LineRows, Calls
<1>1. ASSUME callOf' = callOf, session' = session, Quiet, LineKept, CmdKept
      PROVE  CallInv'
  BY <1>0, <1>1, SameCalls
<1>2. ASSUME UNCHANGED <<callOf, session, lineCall, linePhase>>, Quiet,
             \A r \in Req : cmd'[r] = "started" => cmd[r] = "started"
      PROVE  CallInv'
  BY <1>1, <1>2 DEF CallInv
<1>3. ASSUME NEW t \in Tasks, Submit(t) PROVE CallInv'
  <2>1. \A u \in Tasks : \/ status'[u] = status[u] /\ callOf'[u] = callOf[u]
                         \/ status'[u] = "queued"
    BY <1>0, <1>3 DEF Submit, SetTask
  <2> QED
    BY <1>0, <1>3, <2>1 DEF Submit, CallInv, AnalyzedCallEnded
<1>4. ASSUME NEW t \in Tasks, Cancel(t) PROVE CallInv'
  BY <1>0, <1>2, <1>4 DEF Cancel, SetTask
<1>5. ASSUME NEW r \in Req, NEW approve \in BOOLEAN, BeginDial(r, approve)
      PROVE  \A q \in Req : cmd'[q] = "started" => cmd[q] = "started"
  BY <1>0, <1>5 DEF BeginDial
<1>6. ASSUME NEW k \in ClientKeys, ClientDial(k) PROVE CallInv'
  <2>1. [by |-> k, n |-> 1] \in Req
    BY DEF Req
  <2> QED
    BY <1>2, <1>5, <1>6, <2>1 DEF ClientDial
<1>7. ASSUME ClientDialRefused PROVE CallInv'
  BY <1>2, <1>7 DEF ClientDialRefused
<1>8. ASSUME NEW t \in Tasks, RejectBeforeDial(t) PROVE CallInv'
  <2>1. callOf' = callOf /\ Quiet
    BY <1>8, MoveTaskCalls DEF RejectBeforeDial
  <2> QED
    BY <1>2, <1>8, <2>1 DEF RejectBeforeDial
<1>9. ASSUME NEW t \in Tasks, DialRefused(t) PROVE CallInv'
  <2>1. callOf' = callOf /\ Quiet
    <3>1. PICK kind \in {"retry", "fatal"}, e \in {"busy", "other"} :
             FailOrRetry(t, attempts[t] + 1, kind, e)
      BY <1>9, Zenon DEF DialRefused
    <3> QED
      BY <3>1, FailOrRetryCalls
  <2> QED
    BY <1>2, <1>9, <2>1 DEF DialRefused
<1>10. ASSUME NEW t \in Tasks, NEW approve \in BOOLEAN, StartDial(t, approve)
       PROVE  CallInv'
  <2>1. callOf' = callOf /\ Quiet
    BY <1>10, MoveTaskCalls DEF StartDial
  <2>2. [by |-> t, n |-> attempts[t] + 1] \in Req
    BY <1>10, TaskQueueAssumption, SMT DEF StartDial, Runnable, Req, TypeInv, TaskRows
  <2> QED
    BY <1>2, <1>5, <1>10, <2>1, <2>2 DEF StartDial
<1>11. ASSUME Approve PROVE CallInv'
  <2>1. dialReq \in Req
    BY <1>11 DEF Approve, TypeInv, DialRows
  <2>2. callOf' = callOf /\ Quiet
    BY <1>11, DialThrowsCalls DEF Approve
  <2>3. \A q \in Req : cmd'[q] = "started" => cmd[q] = "started"
    BY <1>0, <1>11, <2>1 DEF Approve
  <2> QED
    BY <1>2, <1>11, <2>2, <2>3 DEF Approve
<1>12. ASSUME Refuse \/ GatewayTimeout PROVE CallInv'
  <2>1. callOf' = callOf /\ Quiet
    BY <1>12, DialThrowsCalls DEF Refuse, GatewayTimeout
  <2> QED
    BY <1>2, <1>12, <2>1 DEF Refuse, GatewayTimeout
<1>13. ASSUME RendererGone PROVE CallInv'
  <2>1. callOf' = callOf /\ Quiet
    BY <1>13, DialThrowsCalls DEF RendererGone
  <2> QED
    BY <1>1, <1>13, <2>1 DEF RendererGone
<1>14. ASSUME NEW r \in Req, AnswerBusy(r) \/ AnswerRefused(r) \/ AnswerBroken(r)
       PROVE  CallInv'
  <2>1. PICK kind \in {"retry", "fatal"}, e \in {"busy", "other"} : AnswerError(r, kind, e)
    BY <1>14, Zenon DEF AnswerBusy, AnswerRefused, AnswerBroken
  <2>2. callOf' = callOf /\ Quiet
    BY <2>1, DialThrowsCalls DEF AnswerError, Awaited
  <2>3. \A q \in Req : cmd'[q] = "started" => cmd[q] = "started"
    BY <1>0, <2>1 DEF AnswerError
  <2> QED
    BY <1>2, <2>1, <2>2, <2>3 DEF AnswerError
<1>15. ASSUME NEW c \in Calls, NEW r, PutOnLine(c, r)
       PROVE  /\ lineCall' = c
              /\ \A d \in Calls : session[d] = "ended" => session'[d] = "ended"
  BY <1>0, <1>15 DEF PutOnLine, NextCall
<1>16. ASSUME OtherCall \/ \E r \in Req : Connect(r) PROVE CallInv'
  <2>1. PICK c \in Calls : \E r : PutOnLine(c, r)
    BY <1>16 DEF OtherCall, Connect
  <2>2. UNCHANGED <<status, callOf>>
    BY <1>16 DEF OtherCall, Connect
  <2> QED
    BY <1>0, <1>15, <2>1, <2>2, SameCalls
<1>17. ASSUME NEW r \in Req, CheckLine(r) PROVE CallInv'
  BY <1>0, <1>2, <1>17 DEF CheckLine
<1>18. ASSUME NEW r \in Req, AnswerOk(r) PROVE CallInv'
  <2>1. \A q \in Req : cmd'[q] = "started" => cmd[q] = "started"
    BY <1>0, <1>18 DEF AnswerOk
  <2>2. lineCall \in Calls /\ UNCHANGED <<session, lineCall, linePhase>>
    BY <1>0, <1>18 DEF AnswerOk, CallInv
  <2>3. CASE UNCHANGED taskVars
    BY <1>2, <2>1, <2>2, <2>3
  <2>4. CASE ~UNCHANGED taskVars
    <3>1. PICK s \in {"in_call", "analyzing"} :
             /\ (s = "analyzing") = (session[lineCall] = "ended")
             /\ SetTask(runTask, s, runTry, lineCall, error[runTask])
             /\ dialReq.by = runTask /\ dialStage = "sent"
      BY <1>18, <2>4 DEF AnswerOk, Awaited
    <3>2. \A u \in Tasks :
             \/ status'[u] = status[u] /\ callOf'[u] = callOf[u]
             \/ /\ callOf'[u] = lineCall
                /\ \/ status'[u] = "in_call"
                   \/ status'[u] = "analyzing" /\ session[lineCall] = "ended"
      BY <1>0, <3>1 DEF SetTask
    <3> QED
      BY <1>0, <2>1, <2>2, <3>2 DEF CallInv, AnalyzedCallEnded
  <2> QED
    BY <2>3, <2>4
<1>19. ASSUME CallEnds \/ \E t \in Tasks : HangupArrives(t) PROVE CallInv'
  <2>1. UNCHANGED <<status, callOf, session, cmd, lineCall>>
    BY <1>19 DEF CallEnds, HangupArrives
  <2>2. linePhase' # "idle" => linePhase # "idle"
    BY <1>19 DEF CallEnds, HangupArrives
  <2> QED
    BY <1>1, <2>1, <2>2 DEF CallInv
<1>20. ASSUME ReportEnded PROVE CallInv'
  <2>1. /\ lineCall \in Calls /\ lineCall' = lineCall /\ cmd' = cmd
        /\ session' = [session EXCEPT ![lineCall] = "ended"]
    BY <1>0, <1>20 DEF ReportEnded, CallInv
  <2>2. CASE UNCHANGED taskVars
    BY <1>0, <2>1, <2>2, SameCalls DEF CallInv
  <2>3. CASE ~UNCHANGED taskVars
    <3>1. /\ runTask \in Tasks /\ callOf[runTask] = lineCall
          /\ MoveTask(runTask, "analyzing", attempts[runTask], error[runTask])
      BY <1>20, <2>3 DEF ReportEnded, TypeInv, RunRows
    <3>2. \A u \in Tasks : /\ callOf'[u] = callOf[u]
                           /\ \/ status'[u] = status[u]
                              \/ status'[u] = "analyzing" /\ callOf[u] = lineCall
      BY <1>0, <3>1 DEF MoveTask, SetTask
    <3> QED
      BY <1>0, <2>1, <3>2 DEF CallInv, AnalyzedCallEnded
  <2> QED
    BY <2>2, <2>3
<1>21. ASSUME PublishEnded PROVE CallInv'
  BY <1>1, <1>21 DEF PublishEnded, CallInv
<1>22. ASSUME CallWaitTimeout PROVE CallInv'
  <2>1. callOf' = callOf /\ Quiet
    BY <1>22, FailOrRetryCalls DEF CallWaitTimeout, TypeInv, RunRows
  <2> QED
    BY <1>2, <1>22, <2>1 DEF CallWaitTimeout
<1>23. ASSUME FinishAnalysis PROVE CallInv'
  <2>1. runTask \in Tasks
    BY <1>23 DEF FinishAnalysis, TypeInv, RunRows
  <2>2. CASE MoveTask(runTask, "completed", runTry, "none")
    <3>1. status[runTask] \in {"analyzing", "cancelled"}
      BY <1>23 DEF FinishAnalysis, GateInv
    <3>2. callOf' = callOf /\ \A u \in Tasks : status'[u] = status[u] \/ status[u] = "analyzing"
      BY <1>0, <2>1, <2>2, <3>1, AllowedTable DEF MoveTask, SetTask, CanMove
    <3> QED
      BY <1>0, <1>23, <3>2, SameCalls DEF FinishAnalysis, CallInv
  <2>3. CASE ~MoveTask(runTask, "completed", runTry, "none")
    <3>1. callOf' = callOf /\ Quiet
      BY <1>23, <2>1, <2>3, FailOrRetryCalls, MoveTaskCalls DEF FinishAnalysis
    <3> QED
      BY <1>2, <1>23, <3>1 DEF FinishAnalysis
  <2> QED
    BY <2>2, <2>3
<1>24. ASSUME Restart PROVE CallInv'
  <2>1. \A c \in Calls : session[c] = "ended" => session'[c] = "ended"
    BY <1>24 DEF Restart
  <2> QED
    BY <1>0, <1>24, <2>1, SameCalls DEF Restart, LoseProcess
<1>25. ASSUME RendererReady \/ UNCHANGED vars PROVE CallInv'
  BY <1>2, <1>25 DEF RendererReady, vars
<1> QED
  BY <1>3, <1>4, <1>6, <1>7, <1>8, <1>9, <1>10, <1>11, <1>12, <1>13, <1>14, <1>16,
     <1>17, <1>18, <1>19, <1>20, <1>21, <1>22, <1>23, <1>24, <1>25
     DEF Next, RunnerStep

\* An analysis, and the result of a completed task, are always about a call that
\* is over: through ends that race the answer of the dial, retries and restarts.
THEOREM AnalysisAfterCall == Spec => []AnalyzedCallEnded
<1>1. Init => TypeInv /\ GateInv /\ CallInv
  <2>1. ASSUME Init PROVE GateInv /\ CallInv
    BY <2>1, TaskQueueAssumption DEF Init, GateInv, CallInv, AnalyzedCallEnded, NoReq
  <2> QED
    BY <2>1, InitTypeInv
<1>2. TypeInv /\ GateInv /\ CallInv /\ [Next]_vars => (TypeInv /\ GateInv /\ CallInv)'
  BY StepTypeInv, StepGateInv, StepCallInv
<1>3. CallInv => AnalyzedCallEnded
  BY DEF CallInv
<1> QED
  BY <1>1, <1>2, <1>3, PTL DEF Spec

-----------------------------------------------------------------------------
(* The queue implements the task lifecycle *)

LifeStep == (\E t \in Tasks : Life!Move(t)) \/ UNCHANGED <<status, attempts, callOf>>

\* The rows of Observed, read off its definition.
LEMMA ObservedTable ==
  /\ \A s \in TaskStatus : Life!Allowed[s] \subseteq Life!Observed[s]
  /\ Life!Observed["awaiting_approval"]
       = Life!Allowed["awaiting_approval"] \cup {"in_call", "analyzing"}
  /\ Life!Observed["dialing"] = Life!Allowed["dialing"] \cup {"analyzing"}
  /\ \A s \in TaskStatus \ {"awaiting_approval", "dialing"} :
        Life!Observed[s] = Life!Allowed[s]
<1>1. /\ Life!Observed["unsubmitted"] = Life!Allowed["unsubmitted"]
      /\ Life!Observed["queued"] = Life!Allowed["queued"]
      /\ Life!Observed["awaiting_approval"]
           = Life!Allowed["awaiting_approval"] \cup {"in_call", "analyzing"}
      /\ Life!Observed["dialing"] = Life!Allowed["dialing"] \cup {"analyzing"}
      /\ Life!Observed["in_call"] = Life!Allowed["in_call"]
      /\ Life!Observed["analyzing"] = Life!Allowed["analyzing"]
      /\ Life!Observed["completed"] = Life!Allowed["completed"]
      /\ Life!Observed["failed"] = Life!Allowed["failed"]
      /\ Life!Observed["cancelled"] = Life!Allowed["cancelled"]
  BY SMT DEF Life!Observed, Life!Allowed
<1> QED
  BY <1>1 DEF TaskStatus, ActiveStatus, TerminalStatus

\* When setting the row of one task is a move of the lifecycle.
LEMMA SetTaskMoves ==
  ASSUME TypeInv, NEW t \in Tasks, NEW s,
         NEW n \in {attempts[t], attempts[t] + 1} \cap (0 .. MaxAttempts),
         NEW c \in Calls \cup {0}, NEW e, SetTask(t, s, n, c, e),
         s \in Life!Observed[status[t]] \/ (s = "queued" /\ status[t] = "queued"),
         status[t] # "unsubmitted" /\ s = "queued" => n < MaxAttempts,
         status[t] = "awaiting_approval" /\ s \notin {"failed", "cancelled"}
            => n = attempts[t] + 1,
         s \in {"in_call", "analyzing", "completed"} => c # 0
  PROVE  Life!Move(t)
<1>1. status'[t] = s /\ attempts'[t] = n /\ callOf'[t] = c
  BY DEF SetTask, TypeInv, TaskRows
<1>2. /\ \E x \in Life!Observed[status[t]] \cup ({"queued"} \cap {status[t]}) :
            status' = [status EXCEPT ![t] = x]
      /\ \E m \in {attempts[t], attempts[t] + 1} \cap (0 .. MaxAttempts) :
            attempts' = [attempts EXCEPT ![t] = m]
      /\ \E d \in Calls \cup {0} : callOf' = [callOf EXCEPT ![t] = d]
  BY DEF SetTask
<1> QED
  BY <1>1, <1>2 DEF Life!Move

\* A transition of the runner: what it asks for, in terms of where the task is.
LEMMA MoveTaskMoves ==
  ASSUME TypeInv, CallInv, NEW t \in Tasks, NEW s,
         NEW n \in {attempts[t], attempts[t] + 1} \cap (0 .. MaxAttempts),
         NEW e, MoveTask(t, s, n, e),
         s = "queued" => n < MaxAttempts,
         \/ s = "failed" /\ status[t] # "failed"
         \/ s = "queued"
         \/ s \in {"awaiting_approval", "dialing"} /\ status[t] = "queued"
         \/ s = "analyzing" /\ status[t] = "in_call"
         \/ s = "completed" /\ status[t] \in {"analyzing", "cancelled"}
  PROVE  LifeStep
<1>1. CASE ~CanMove(t, s)
  BY <1>1 DEF MoveTask, taskVars, LifeStep
<1>2. CASE CanMove(t, s)
  <2>1. SetTask(t, s, n, callOf[t], e)
    BY <1>2 DEF MoveTask
  <2>2. status[t] \in TaskStatus /\ callOf[t] \in Calls \cup {0}
    BY DEF TypeInv, TaskRows
  <2>3. s \in Life!Observed[status[t]] \/ (s = "queued" /\ status[t] = "queued")
    BY <1>2, <2>2, ObservedTable DEF CanMove
  <2>4. status[t] = "awaiting_approval" => s = "failed"
    BY <1>2, AllowedTable DEF CanMove
  <2>5. s \in {"in_call", "analyzing", "completed"} => callOf[t] # 0
    BY <1>2, AllowedTable DEF CanMove, CallInv
  <2> QED
    BY <2>1, <2>2, <2>3, <2>4, <2>5, SetTaskMoves DEF LifeStep
<1> QED
  BY <1>1, <1>2

\* failOrRetry is a move of the lifecycle, or refused.
LEMMA FailOrRetryMoves ==
  ASSUME TypeInv, CallInv, NEW t \in Tasks,
         NEW n \in {attempts[t], attempts[t] + 1} \cap (0 .. MaxAttempts),
         NEW kind, NEW e, FailOrRetry(t, n, kind, e), status[t] # "failed"
  PROVE  LifeStep
<1> DEFINE s == IF kind = "retry" /\ n < MaxAttempts THEN "queued" ELSE "failed"
<1>1. /\ MoveTask(t, s, n, e)
      /\ s = "failed" \/ s = "queued"
      /\ s = "queued" => n < MaxAttempts
  BY DEF FailOrRetry
<1> HIDE DEF s
<1> QED
  BY <1>1, MoveTaskMoves

\* Where the runner's task and attempt are, in the terms of the two lemmas above.
LEMMA RunnerTask ==
  ASSUME TypeInv, GateInv, runPc # "idle"
  PROVE  /\ runTask \in Tasks
         /\ status[runTask] \notin {"failed", "queued", "unsubmitted"}
         /\ status[runTask] # "cancelled"
              => runTry \in {attempts[runTask], attempts[runTask] + 1}
         /\ runTry \in 0 .. MaxAttempts
         /\ attempts[runTask] \in 0 .. MaxAttempts
  BY TaskQueueAssumption, SMT DEF TypeInv, RunRows, TaskRows, GateInv

\* A cancelled task does not move again.
LEMMA CancelledStays ==
  ASSUME NEW t \in Tasks, status[t] = "cancelled", NEW s, s # "cancelled",
         NEW n, NEW e, MoveTask(t, s, n, e)
  PROVE  LifeStep
  BY AllowedTable DEF MoveTask, CanMove, taskVars, LifeStep

\* What the runner gives up is moved by the lifecycle.
LEMMA RunnerFails ==
  ASSUME TypeInv, GateInv, CallInv, runPc # "idle", NEW kind, NEW e,
         FailOrRetry(runTask, runTry, kind, e)
  PROVE  LifeStep
<1>1. CASE status[runTask] = "cancelled"
  BY <1>1, RunnerTask, CancelledStays DEF FailOrRetry
<1>2. CASE status[runTask] # "cancelled"
  BY <1>2, RunnerTask, FailOrRetryMoves
<1> QED
  BY <1>1, <1>2

\* So is the task whose dial throws.
LEMMA DialThrowsMoves ==
  ASSUME TypeInv, GateInv, CallInv, dialStage # "none", NEW kind, NEW e,
         DialThrows(kind, e)
  PROVE  LifeStep
<1>1. CASE dialReq.by # runTask
  BY <1>1 DEF DialThrows, taskVars, LifeStep
<1>2. CASE dialReq.by = runTask
  <2>1. runPc # "idle"
    BY <1>2, TaskQueueAssumption, SMT DEF TypeInv, RunRows, DialRows, Req
  <2>2. CASE kind = "final"
    BY <1>2, <2>1, <2>2, RunnerTask, MoveTaskMoves DEF DialThrows
  <2>3. CASE kind # "final"
    BY <1>2, <2>1, <2>3, RunnerFails DEF DialThrows
  <2> QED
    BY <2>2, <2>3
<1> QED
  BY <1>1, <1>2

\* Every step is one of the lifecycle, or a stutter.
LEMMA StepLife == TypeInv /\ GateInv /\ CallInv /\ [Next]_vars => LifeStep
<1> SUFFICES ASSUME TypeInv, GateInv, CallInv, [Next]_vars PROVE LifeStep
  OBVIOUS
<1> USE DEF taskVars, runVars, dialVars, lineVars, callVars
<1>0. ASSUME UNCHANGED taskVars PROVE LifeStep
  BY <1>0 DEF LifeStep
<1>1. ASSUME NEW t \in Tasks, Submit(t) PROVE LifeStep
  <2>1. status[t] = "unsubmitted" /\ attempts[t] = 0
    BY <1>1 DEF Submit, TypeInv, TaskRows
  <2>2. "queued" \in Life!Observed[status[t]]
    BY <2>1, AllowedTable, ObservedTable DEF TaskStatus
  <2>3. 0 \in {attempts[t], attempts[t] + 1} \cap (0 .. MaxAttempts)
    BY <2>1, TaskQueueAssumption, SMT
  <2> QED
    BY <1>1, <2>1, <2>2, <2>3, SetTaskMoves DEF Submit, LifeStep
<1>2. ASSUME NEW t \in Tasks, Cancel(t) PROVE LifeStep
  <2>1. /\ attempts[t] \in 0 .. MaxAttempts /\ callOf[t] \in Calls \cup {0}
        /\ status[t] \in TaskStatus
        /\ status[t] \notin TerminalStatus \cup {"unsubmitted"}
    BY <1>2 DEF Cancel, TypeInv, TaskRows
  <2>2. "cancelled" \in Life!Observed[status[t]]
    BY <2>1, AllowedTable, ObservedTable DEF TaskStatus, ActiveStatus
  <2> QED
    BY <1>2, <2>1, <2>2, SetTaskMoves DEF Cancel, LifeStep
<1>3. ASSUME NEW t \in Tasks, Runnable(t)
      PROVE  /\ status[t] = "queued" /\ attempts[t] \in 0 .. MaxAttempts
             /\ attempts[t] + 1 \in 0 .. MaxAttempts
  BY <1>3, TaskQueueAssumption, SMT DEF Runnable, TypeInv, TaskRows
<1>4. ASSUME NEW t \in Tasks, RejectBeforeDial(t) PROVE LifeStep
  BY <1>3, <1>4, MoveTaskMoves DEF RejectBeforeDial
<1>5. ASSUME NEW t \in Tasks, DialRefused(t) PROVE LifeStep
  <2>1. PICK kind \in {"retry", "fatal"}, e \in {"busy", "other"} :
           FailOrRetry(t, attempts[t] + 1, kind, e)
    BY <1>5, Zenon DEF DialRefused
  <2> QED
    BY <1>3, <1>5, <2>1, FailOrRetryMoves DEF DialRefused
<1>6. ASSUME NEW t \in Tasks, NEW approve \in BOOLEAN, StartDial(t, approve)
      PROVE  LifeStep
  BY <1>3, <1>6, MoveTaskMoves DEF StartDial
<1>7. ASSUME Approve \/ Refuse \/ GatewayTimeout \/ RendererGone PROVE LifeStep
  BY <1>0, <1>7, DialThrowsMoves DEF Approve, Refuse, GatewayTimeout, RendererGone
<1>8. ASSUME NEW r \in Req, AnswerBusy(r) \/ AnswerRefused(r) \/ AnswerBroken(r)
      PROVE  LifeStep
  BY <1>0, <1>8, DialThrowsMoves
     DEF AnswerBusy, AnswerRefused, AnswerBroken, AnswerError, Awaited
<1>9. ASSUME NEW r \in Req, AnswerOk(r) PROVE LifeStep
  <2>1. CASE UNCHANGED taskVars
    BY <1>0, <2>1
  <2>2. CASE ~UNCHANGED taskVars
    <3>1. PICK s \in {"in_call", "analyzing"} :
             /\ SetTask(runTask, s, runTry, lineCall, error[runTask])
             /\ dialReq.by = runTask /\ dialStage = "sent"
             /\ status[runTask] # "cancelled"
      BY <1>9, <2>2 DEF AnswerOk, Awaited
    <3>2. lineCall \in Calls \cup {0} /\ lineCall # 0
      BY <1>9 DEF AnswerOk, CallInv, TypeInv, LineRows
    <3>3. runPc = "dialing"
      BY <3>1, TaskQueueAssumption, SMT
         DEF TypeInv, RunRows, DialRows, GateInv, Req
    <3>4. status[runTask] \in {"awaiting_approval", "dialing"}
      BY <3>1, <3>3 DEF GateInv
    <3>5. status[runTask] = "awaiting_approval" => runTry = attempts[runTask] + 1
      BY <3>3 DEF GateInv
    <3>6. s \in Life!Observed[status[runTask]]
      BY <3>4, AllowedTable, ObservedTable DEF TaskStatus, ActiveStatus
    <3> QED
      BY <3>1, <3>2, <3>3, <3>5, <3>6, RunnerTask, SetTaskMoves DEF LifeStep
  <2> QED
    BY <2>1, <2>2
<1>10. ASSUME ReportEnded PROVE LifeStep
  <2>1. CASE UNCHANGED taskVars
    BY <1>0, <2>1
  <2>2. CASE ~UNCHANGED taskVars
    <3>1. /\ runPc = "in_call" /\ status[runTask] = "in_call"
          /\ MoveTask(runTask, "analyzing", attempts[runTask], error[runTask])
      BY <1>10, <2>2 DEF ReportEnded, GateInv
    <3> QED
      BY <3>1, RunnerTask, MoveTaskMoves
  <2> QED
    BY <2>1, <2>2
<1>11. ASSUME CallWaitTimeout PROVE LifeStep
  BY <1>11, RunnerFails DEF CallWaitTimeout
<1>12. ASSUME FinishAnalysis PROVE LifeStep
  <2>1. runPc # "idle" /\ status[runTask] \in {"analyzing", "cancelled"}
    BY <1>12 DEF FinishAnalysis, GateInv
  <2>2. CASE FailOrRetry(runTask, runTry, "retry", "other")
    BY <2>1, <2>2, RunnerFails
  <2>3. ASSUME NEW s \in {"queued", "completed"}, MoveTask(runTask, s, runTry, "none"),
               s = "queued" => runTry < MaxAttempts
        PROVE  LifeStep
    <3>1. CASE status[runTask] = "cancelled"
      BY <2>1, <2>3, <3>1, RunnerTask, CancelledStays
    <3>2. CASE status[runTask] # "cancelled"
      BY <2>1, <2>3, <3>2, RunnerTask, MoveTaskMoves
    <3> QED
      BY <3>1, <3>2
  <2> QED
    BY <1>12, <2>2, <2>3 DEF FinishAnalysis
<1>13. ASSUME \/ ClientDialRefused \/ RendererReady \/ OtherCall \/ CallEnds
              \/ PublishEnded \/ Restart \/ UNCHANGED vars
              \/ \E k \in ClientKeys : ClientDial(k)
              \/ \E t \in Tasks : HangupArrives(t)
              \/ \E r \in Req : CheckLine(r) \/ Connect(r)
       PROVE  LifeStep
  BY <1>0, <1>13 DEF ClientDialRefused, RendererReady, OtherCall, CallEnds,
     PublishEnded, Restart, ClientDial, HangupArrives, CheckLine, Connect, vars
<1> QED
  BY <1>1, <1>2, <1>4, <1>5, <1>6, <1>7, <1>8, <1>9, <1>10, <1>11, <1>12, <1>13
     DEF Next, RunnerStep

\* The queue is a refinement of the task lifecycle: whatever the calls, renderers
\* and users do, a submitter only ever sees a task go along the table, its
\* attempts counted once each and never beyond maxAttempts.
THEOREM QueueImplementsLifecycle == Spec => ImplementsLifecycle
<1>1. Init => TypeInv /\ GateInv /\ CallInv
  <2>1. ASSUME Init PROVE GateInv /\ CallInv
    BY <2>1, TaskQueueAssumption DEF Init, GateInv, CallInv, AnalyzedCallEnded, NoReq
  <2> QED
    BY <2>1, InitTypeInv
<1>2. TypeInv /\ GateInv /\ CallInv /\ [Next]_vars => (TypeInv /\ GateInv /\ CallInv)'
  BY StepTypeInv, StepGateInv, StepCallInv
<1>3. Init => Life!LInit
  BY DEF Init, Life!LInit
<1>4. TypeInv /\ GateInv /\ CallInv /\ [Next]_vars => [Life!LNext]_(Life!lifecycleVars)
  BY StepLife DEF LifeStep, Life!LNext, Life!lifecycleVars
<1> QED
  BY <1>1, <1>2, <1>3, <1>4, PTL DEF Spec, ImplementsLifecycle, Life!LSpec

-----------------------------------------------------------------------------
(* No dial without consent *)

\* The gate has seen every dial the renderer holds, and the renderer has not seen
\* the dial that awaits its approval.  Without the first part ConsentBeforeDial
\* is not inductive: a dial could begin again, asking anew, while the renderer
\* still holds its first command.
ConsentInv ==
    /\ \A r \in Req : cmd[r] # "none" => r \in dialKeys
    /\ dialStage = "approval" => cmd[dialReq] = "none"
    /\ ConsentBeforeDial

\* A step that begins no dial and hands the renderer nothing new.
LEMMA SameConsent ==
  ASSUME TypeInv, ConsentInv, consent' = consent, dialKeys' = dialKeys,
         dialStage' = "approval" => dialStage = "approval" /\ dialReq' = dialReq,
         \A r \in Req : cmd'[r] # "none" => cmd[r] # "none"
  PROVE  ConsentInv'
  BY DEF TypeInv, DialRows, ConsentInv, ConsentBeforeDial, Consented

\* A dial that begins has consent, or waits for it.
LEMMA BeginDialConsent ==
  ASSUME TypeInv, ConsentInv, NEW r \in Req, NEW approve \in BOOLEAN,
         approve \/ r.by \in Tasks, BeginDial(r, approve)
  PROVE  ConsentInv'
<1>1. /\ cmd \in [Req -> {"none", "queued", "checked", "started"}]
      /\ consent \in [Req -> {"none", "direct", "asked", "granted"}]
  BY DEF TypeInv, LineRows, RestRows
<1>2. cmd[r] = "none"
  BY <1>1 DEF BeginDial, ConsentInv
<1>3. CASE approve
  BY <1>1, <1>2, <1>3 DEF BeginDial, ConsentInv, ConsentBeforeDial, Consented
<1>4. CASE ~approve
  BY <1>1, <1>2, <1>4 DEF BeginDial, ConsentInv, ConsentBeforeDial, Consented
<1> QED
  BY <1>3, <1>4

\* Every step keeps the renderer behind the gate, and both behind consent.
LEMMA StepConsentInv == TypeInv /\ ConsentInv /\ [Next]_vars => ConsentInv'
<1> SUFFICES ASSUME TypeInv, ConsentInv, [Next]_vars PROVE ConsentInv'
  OBVIOUS
<1> USE DEF taskVars, runVars, dialVars, lineVars, callVars
<1>0. /\ cmd \in [Req -> {"none", "queued", "checked", "started"}]
      /\ consent \in [Req -> {"none", "direct", "asked", "granted"}]
  BY DEF TypeInv, LineRows, RestRows
<1>1. ASSUME NEW k \in ClientKeys, ClientDial(k) PROVE ConsentInv'
  <2>1. [by |-> k, n |-> 1] \in Req
    BY DEF Req
  <2> QED
    BY <1>1, <2>1, BeginDialConsent DEF ClientDial
<1>2. ASSUME NEW t \in Tasks, NEW approve \in BOOLEAN, StartDial(t, approve)
      PROVE  ConsentInv'
  <2>1. [by |-> t, n |-> attempts[t] + 1] \in Req
    BY <1>2, TaskQueueAssumption, SMT DEF StartDial, Runnable, Req, TypeInv, TaskRows
  <2> QED
    BY <1>2, <2>1, BeginDialConsent DEF StartDial
<1>3. ASSUME Approve PROVE ConsentInv'
  <2>1. dialReq \in Req /\ dialReq \in dialKeys
    BY <1>3 DEF Approve, TypeInv, DialRows
  <2>2. /\ dialKeys' = dialKeys /\ dialStage' # "approval"
        /\ consent' = [consent EXCEPT ![dialReq] = "granted"]
        /\ cmd' = cmd \/ cmd' = [cmd EXCEPT ![dialReq] = "queued"]
    BY <1>3 DEF Approve, DialThrows
  <2> QED
    BY <1>0, <2>1, <2>2 DEF ConsentInv, ConsentBeforeDial, Consented
<1>4. ASSUME NEW r \in Req,
             \/ AnswerBusy(r) \/ AnswerRefused(r) \/ AnswerBroken(r)
             \/ CheckLine(r) \/ Connect(r) \/ AnswerOk(r)
      PROVE  ConsentInv'
  <2>1. /\ consent' = consent /\ dialKeys' = dialKeys
        /\ dialStage' = "none" \/ UNCHANGED <<dialStage, dialReq>>
        /\ cmd[r] # "none" /\ \E x : cmd' = [cmd EXCEPT ![r] = x]
    BY <1>4 DEF AnswerBusy, AnswerRefused, AnswerBroken, AnswerError, DialThrows,
                CheckLine, Connect, AnswerOk
  <2> QED
    BY <1>0, <2>1, SameConsent
<1>5. ASSUME RendererGone \/ Restart PROVE ConsentInv'
  <2>1. /\ cmd' = [r \in Req |-> "none"]
        /\ dialStage' = "approval" => dialStage = "approval" /\ dialReq' = dialReq
    BY <1>5 DEF RendererGone, DialThrows, Restart, LoseProcess
  <2>2. dialStage = "approval" => dialReq \in Req
    BY DEF TypeInv, DialRows
  <2> QED
    BY <2>1, <2>2 DEF ConsentInv, ConsentBeforeDial
<1>6. ASSUME \/ ClientDialRefused \/ Refuse \/ GatewayTimeout \/ RendererReady
             \/ OtherCall \/ CallEnds \/ ReportEnded \/ PublishEnded
             \/ CallWaitTimeout \/ FinishAnalysis \/ UNCHANGED vars
             \/ \E t \in Tasks : \/ Submit(t) \/ Cancel(t) \/ HangupArrives(t)
                                \/ RejectBeforeDial(t) \/ DialRefused(t)
      PROVE  ConsentInv'
  <2>1. /\ UNCHANGED <<cmd, consent, dialKeys>>
        /\ dialStage' = "none" \/ UNCHANGED <<dialStage, dialReq>>
    BY <1>6 DEF ClientDialRefused, Refuse, GatewayTimeout, DialThrows, RendererReady,
       OtherCall, CallEnds, ReportEnded, PublishEnded, CallWaitTimeout, FinishAnalysis,
       vars, Submit, Cancel, HangupArrives, RejectBeforeDial, DialRefused
  <2> QED
    BY <2>1, SameConsent
<1> QED
  BY <1>1, <1>2, <1>3, <1>4, <1>5, <1>6 DEF Next, RunnerStep

\* The renderer never holds a dial that was neither approved nor covered by the
\* budget: no denial, expiry, lost renderer, late answer, retry or restart lets
\* one through.
THEOREM DialsAreConsented == Spec => []ConsentBeforeDial
<1>1. Init => TypeInv /\ ConsentInv
  <2>1. ASSUME Init PROVE ConsentInv
    BY <2>1, SMT DEF Init, ConsentInv, ConsentBeforeDial
  <2> QED
    BY <2>1, InitTypeInv
<1>2. TypeInv /\ ConsentInv /\ [Next]_vars => (TypeInv /\ ConsentInv)'
  BY StepTypeInv, StepConsentInv
<1>3. ConsentInv => ConsentBeforeDial
  BY DEF ConsentInv
<1> QED
  BY <1>1, <1>2, <1>3, PTL DEF Spec

-----------------------------------------------------------------------------
(* One call per attempt *)

\* A dial that was begun is not ahead of its task's attempt counter, unless the
\* task can no longer dial.  This is what makes "taskId:attempt" a fresh key
\* although the gate's own record of the keys is lost with the process.
NotBeyond(r) ==
    r.by \in Tasks =>
        /\ status[r.by] # "unsubmitted"
        /\ status[r.by] \in {"queued", "dialing", "in_call", "analyzing"}
             => r.n <= attempts[r.by]
        /\ status[r.by] = "awaiting_approval" => r.n <= attempts[r.by] + 1

NoCallYet(r) == r.by \in Tasks => \A c \in Calls : owner[c] # r

KeyInv ==
    /\ dialStage # "none" => NotBeyond(dialReq)
    /\ \A r \in Req : cmd[r] # "none" => NotBeyond(r)
    /\ \A c \in Calls : NotBeyond(owner[c])
    /\ dialStage = "approval" => NoCallYet(dialReq)
    /\ \A r \in Req : cmd[r] \in {"queued", "checked"} => NoCallYet(r)
    /\ OneCallPerAttempt

\* No move of the lifecycle takes a counter back behind a dial.
LEMMA MovesKeepNotBeyond ==
  ASSUME TypeInv, TypeInv', LifeStep, NEW r \in Req \cup {NoReq}, NotBeyond(r)
  PROVE  NotBeyond(r)'
<1>1. CASE UNCHANGED <<status, attempts, callOf>>
  BY <1>1 DEF NotBeyond
<1>2. ASSUME NEW t \in Tasks, Life!Move(t), r.by = t PROVE NotBeyond(r)'
  <2>1. r.n \in Nat /\ attempts[t] \in Nat /\ attempts'[t] \in Nat
    <3>1. r.n \in 1 .. MaxAttempts \/ r.n = 0 \/ r.n = 1
      BY SMT DEF Req, NoReq
    <3> QED
      BY <3>1, TaskQueueAssumption, SMT DEF TypeInv, TaskRows
  <2>2. /\ status[t] \in TaskStatus
        /\ status'[t] \in Life!Observed[status[t]] \cup ({"queued"} \cap {status[t]})
        /\ attempts'[t] \in {attempts[t], attempts[t] + 1}
        /\ status[t] = "awaiting_approval" /\ status'[t] \notin {"failed", "cancelled"}
              => attempts'[t] = attempts[t] + 1
    BY <1>2 DEF Life!Move, TypeInv, TaskRows
  <2>3. /\ status'[t] # "unsubmitted"
        /\ status'[t] \in {"queued", "dialing", "in_call", "analyzing", "awaiting_approval"}
              => status[t] \in {"queued", "dialing", "in_call", "analyzing",
                                "awaiting_approval", "unsubmitted"}
    BY <2>2, AllowedTable, ObservedTable DEF TaskStatus, ActiveStatus, TerminalStatus
  <2> QED
    BY <1>2, <2>1, <2>2, <2>3, SMT DEF NotBeyond
<1>3. ASSUME NEW t \in Tasks, Life!Move(t), r.by # t PROVE NotBeyond(r)'
  <2>1. r.by \in Tasks => /\ status'[r.by] = status[r.by]
                          /\ attempts'[r.by] = attempts[r.by]
    BY <1>3 DEF Life!Move, TypeInv, TaskRows
  <2> QED
    BY <2>1 DEF NotBeyond
<1> QED
  BY <1>1, <1>2, <1>3 DEF LifeStep

\* A step that begins no dial and places no call.
LEMMA SameKeys ==
  ASSUME TypeInv, TypeInv', LifeStep, KeyInv,
         dialStage' # "none" => dialReq' = dialReq /\ dialStage # "none",
         dialStage' = "approval" => dialStage = "approval",
         \A r \in Req :
            /\ cmd'[r] # "none" => cmd[r] # "none" \/ (dialStage # "none" /\ r = dialReq)
            /\ cmd'[r] \in {"queued", "checked"} =>
                  \/ cmd[r] \in {"queued", "checked"}
                  \/ dialStage = "approval" /\ r = dialReq,
         owner' = owner
  PROVE  KeyInv'
<1>1. /\ dialStage # "none" => dialReq \in Req
      /\ \A c \in Calls : owner[c] \in Req \cup {NoReq}
  BY DEF TypeInv, DialRows, CallRows
<1>2. \A r \in Req \cup {NoReq} : NotBeyond(r) => NotBeyond(r)'
  BY MovesKeepNotBeyond
<1>3. dialStage' # "none" => NotBeyond(dialReq)'
  BY <1>1, <1>2 DEF KeyInv, NotBeyond
<1>4. \A r \in Req : cmd'[r] # "none" => NotBeyond(r)'
  BY <1>1, <1>2 DEF KeyInv
<1>5. \A c \in Calls : NotBeyond(owner[c])'
  BY <1>1, <1>2 DEF KeyInv, NotBeyond
<1>6. dialStage' = "approval" => NoCallYet(dialReq)'
  BY DEF KeyInv, NoCallYet
<1>7. \A r \in Req : cmd'[r] \in {"queued", "checked"} => NoCallYet(r)'
  BY DEF KeyInv, NoCallYet
<1>8. OneCallPerAttempt'
  BY DEF KeyInv, OneCallPerAttempt
<1> QED
  BY <1>3, <1>4, <1>5, <1>6, <1>7, <1>8 DEF KeyInv

\* A step that begins the dial r, which nothing stems from yet.
LEMMA NewKey ==
  ASSUME TypeInv, TypeInv', LifeStep, KeyInv, owner' = owner,
         NEW r \in Req, NEW approve \in BOOLEAN, BeginDial(r, approve),
         NoCallYet(r), NotBeyond(r)'
  PROVE  KeyInv'
<1>1. /\ \A c \in Calls : owner[c] \in Req \cup {NoReq}
      /\ cmd \in [Req -> {"none", "queued", "checked", "started"}]
  BY DEF TypeInv, CallRows, LineRows
<1>2. \A q \in Req \cup {NoReq} : NotBeyond(q) => NotBeyond(q)'
  BY MovesKeepNotBeyond
<1>3. dialReq' = r /\ \A q \in Req : cmd'[q] = cmd[q] \/ q = r
  BY <1>1 DEF BeginDial
<1>4. dialStage' # "none" => NotBeyond(dialReq)'
  BY <1>3 DEF NotBeyond
<1>5. \A q \in Req : cmd'[q] # "none" => NotBeyond(q)'
  BY <1>2, <1>3 DEF KeyInv
<1>6. \A c \in Calls : NotBeyond(owner[c])'
  BY <1>1, <1>2 DEF KeyInv, NotBeyond
<1>7. dialStage' = "approval" => NoCallYet(dialReq)'
  BY <1>3 DEF NoCallYet
<1>8. \A q \in Req : cmd'[q] \in {"queued", "checked"} => NoCallYet(q)'
  BY <1>3 DEF KeyInv, NoCallYet
<1>9. OneCallPerAttempt'
  BY DEF KeyInv, OneCallPerAttempt
<1> QED
  BY <1>4, <1>5, <1>6, <1>7, <1>8, <1>9 DEF KeyInv

\* A new call on the line, for the dial r or for nobody here.
LEMMA NewCall ==
  ASSUME TypeInv, TypeInv', KeyInv, NEW c \in Calls, NEW r \in Req \cup {NoReq},
         PutOnLine(c, r), NoCallYet(r), NotBeyond(r),
         UNCHANGED <<status, attempts, dialStage, dialReq>>,
         r \in Req => cmd' = [cmd EXCEPT ![r] = "started"] /\ cmd[r] # "none",
         r \notin Req => cmd' = cmd,
         dialStage = "approval" => dialReq # r \/ r.by \notin Tasks
  PROVE  KeyInv'
<1>1. /\ owner \in [Calls -> Req \cup {NoReq}]
      /\ cmd \in [Req -> {"none", "queued", "checked", "started"}]
  BY DEF TypeInv, CallRows, LineRows
<1>2. owner' = [owner EXCEPT ![c] = r]
  BY DEF PutOnLine
<1>3. \A q : NotBeyond(q) => NotBeyond(q)'
  BY DEF NotBeyond
<1>4. dialStage' # "none" => NotBeyond(dialReq)'
  BY DEF KeyInv, NotBeyond
<1>5. \A q \in Req : cmd'[q] # "none" => NotBeyond(q)'
  BY <1>1, <1>3 DEF KeyInv
<1>6. \A d \in Calls : NotBeyond(owner[d])'
  BY <1>1, <1>2 DEF KeyInv, NotBeyond
<1>7. dialStage' = "approval" => NoCallYet(dialReq)'
  BY <1>1, <1>2 DEF KeyInv, NoCallYet
<1>8. \A q \in Req : cmd'[q] \in {"queued", "checked"} => NoCallYet(q)'
  BY <1>1, <1>2 DEF KeyInv, NoCallYet
<1>9. OneCallPerAttempt'
  BY <1>1, <1>2 DEF KeyInv, OneCallPerAttempt, NoCallYet
<1> QED
  BY <1>4, <1>5, <1>6, <1>7, <1>8, <1>9 DEF KeyInv

\* Every step keeps dials within the attempts of their tasks.
LEMMA StepKeyInv ==
  TypeInv /\ GateInv /\ CallInv /\ ConsentInv /\ KeyInv /\ [Next]_vars => KeyInv'
<1> SUFFICES ASSUME TypeInv, GateInv, CallInv, ConsentInv, KeyInv, [Next]_vars
             PROVE  KeyInv'
  OBVIOUS
<1> USE DEF taskVars, runVars, dialVars, lineVars, callVars
<1>0. /\ TypeInv' /\ LifeStep
      /\ cmd \in [Req -> {"none", "queued", "checked", "started"}]
      /\ owner \in [Calls -> Req \cup {NoReq}]
      /\ dialStage # "none" => dialReq \in Req
      /\ NoReq.by \notin Tasks /\ NoReq \notin Req
  <2>1. NoReq.by \notin Tasks /\ NoReq \notin Req
    BY TaskQueueAssumption, SMT DEF NoReq, Req
  <2> QED
    BY <2>1, StepTypeInv, StepLife DEF TypeInv, LineRows, CallRows, DialRows
<1>1. ASSUME UNCHANGED <<cmd, owner>>,
             dialStage' = "none" \/ UNCHANGED <<dialStage, dialReq>>
      PROVE  KeyInv'
  BY <1>0, <1>1, SameKeys
<1>2. ASSUME NEW k \in ClientKeys, ClientDial(k) PROVE KeyInv'
  <2> DEFINE r == [by |-> k, n |-> 1]
  <2>1. r \in Req /\ r.by \notin Tasks
    BY TaskQueueAssumption DEF Req
  <2>2. NoCallYet(r) /\ NotBeyond(r)'
    BY <2>1 DEF NoCallYet, NotBeyond
  <2> QED
    BY <1>0, <1>2, <2>1, <2>2, NewKey DEF ClientDial
<1>3. ASSUME NEW t \in Tasks, NEW approve \in BOOLEAN, StartDial(t, approve)
      PROVE  KeyInv'
  <2>0. /\ status[t] = "queued" /\ attempts[t] \in Nat
        /\ [by |-> t, n |-> attempts[t] + 1] \in Req
    BY <1>3, TaskQueueAssumption, SMT
       DEF StartDial, Runnable, TypeInv, TaskRows, Req
  <2> PICK r \in Req : r = [by |-> t, n |-> attempts[t] + 1]
    BY <2>0
  <2>1. /\ status[t] = "queued" /\ attempts[t] \in Nat
        /\ r.by = t /\ r.n = attempts[t] + 1
    BY <2>0
  <2>2. NoCallYet(r)
    <3>1. SUFFICES ASSUME NEW c \in Calls, owner[c] = r PROVE FALSE
      BY DEF NoCallYet
    <3>2. r.n <= attempts[t]
      BY <2>1, <3>1 DEF KeyInv, NotBeyond
    <3> QED
      BY <2>1, <3>2, SMT
  <2>3. NotBeyond(r)'
    <3>1. \/ status'[t] = "awaiting_approval" /\ attempts'[t] = attempts[t]
          \/ status'[t] = "dialing" /\ attempts'[t] = attempts[t] + 1
      <4>1. CanMove(t, "awaiting_approval") /\ CanMove(t, "dialing")
        BY <2>1, AllowedTable DEF CanMove
      <4> QED
        BY <1>3, <4>1 DEF StartDial, MoveTask, SetTask, TypeInv, TaskRows
    <3> QED
      BY <2>1, <3>1, SMT DEF NotBeyond
  <2>4. BeginDial(r, approve) /\ owner' = owner
    BY <1>3 DEF StartDial
  <2> QED
    BY <1>0, <2>1, <2>2, <2>3, <2>4, NewKey
<1>4. ASSUME Approve PROVE KeyInv'
  <2>1. dialStage = "approval" /\ owner' = owner
    BY <1>4 DEF Approve
  <2>2. \/ dialStage' = "none" /\ cmd' = cmd
        \/ /\ dialStage' = "sent" /\ dialReq' = dialReq
           /\ cmd' = [cmd EXCEPT ![dialReq] = "queued"]
    BY <1>4 DEF Approve, DialThrows
  <2> QED
    BY <1>0, <2>1, <2>2, SameKeys
<1>5. ASSUME NEW r \in Req, AnswerBusy(r) \/ AnswerRefused(r) \/ AnswerBroken(r) \/ AnswerOk(r)
      PROVE  KeyInv'
  <2>1. /\ owner' = owner /\ cmd' = [cmd EXCEPT ![r] = "none"]
        /\ dialStage' = "none" \/ UNCHANGED <<dialStage, dialReq>>
    BY <1>5 DEF AnswerBusy, AnswerRefused, AnswerBroken, AnswerError, DialThrows, AnswerOk
  <2> QED
    BY <1>0, <2>1, SameKeys
<1>6. ASSUME NEW r \in Req, CheckLine(r) PROVE KeyInv'
  <2>1. /\ UNCHANGED <<owner, dialStage, dialReq>> /\ cmd[r] = "queued"
        /\ cmd' = [cmd EXCEPT ![r] = "checked"]
    BY <1>6 DEF CheckLine
  <2> QED
    BY <1>0, <2>1, SameKeys
<1>7. ASSUME NEW r \in Req, Connect(r) PROVE KeyInv'
  <2>1. PICK c \in Calls : PutOnLine(c, r)
    BY <1>7 DEF Connect
  <2>2. /\ UNCHANGED <<status, attempts, dialStage, dialReq>> /\ cmd[r] = "checked"
        /\ cmd' = [cmd EXCEPT ![r] = "started"]
    BY <1>7 DEF Connect
  <2>3. NoCallYet(r) /\ NotBeyond(r)
    BY <2>2 DEF KeyInv
  <2>4. dialStage = "approval" => dialReq # r
    BY <2>2 DEF ConsentInv
  <2> QED
    BY <1>0, <2>1, <2>2, <2>3, <2>4, NewCall
<1>8. ASSUME OtherCall PROVE KeyInv'
  <2>1. PICK c \in Calls : PutOnLine(c, NoReq)
    BY <1>8 DEF OtherCall
  <2>2. UNCHANGED <<status, attempts, dialStage, dialReq, cmd>>
    BY <1>8 DEF OtherCall
  <2>3. NoCallYet(NoReq) /\ NotBeyond(NoReq)
    BY <1>0 DEF NoCallYet, NotBeyond
  <2> QED
    BY <1>0, <2>1, <2>2, <2>3, NewCall
<1>9. ASSUME RendererGone \/ Restart PROVE KeyInv'
  <2>1. /\ owner' = owner /\ cmd' = [r \in Req |-> "none"]
        /\ dialStage' = "none" \/ UNCHANGED <<dialStage, dialReq>>
    BY <1>9 DEF RendererGone, DialThrows, Restart, LoseProcess
  <2> QED
    BY <1>0, <2>1, SameKeys
<1>10. ASSUME \/ ClientDialRefused \/ Refuse \/ GatewayTimeout \/ RendererReady
              \/ CallEnds \/ ReportEnded \/ PublishEnded
              \/ CallWaitTimeout \/ FinishAnalysis \/ UNCHANGED vars
              \/ \E t \in Tasks : \/ Submit(t) \/ Cancel(t) \/ HangupArrives(t)
                                 \/ RejectBeforeDial(t) \/ DialRefused(t)
       PROVE  KeyInv'
  BY <1>1, <1>10 DEF ClientDialRefused, Refuse, GatewayTimeout, DialThrows,
     RendererReady, CallEnds, ReportEnded, PublishEnded, CallWaitTimeout,
     FinishAnalysis, vars, Submit, Cancel, HangupArrives, RejectBeforeDial, DialRefused
<1> QED
  BY <1>2, <1>3, <1>4, <1>5, <1>6, <1>7, <1>8, <1>9, <1>10 DEF Next, RunnerStep

\* An attempt of a task is dialed at most once, although the keys TaskService
\* remembers are lost with the process: lost answers, retries, cancellations and
\* restarts never call the same person twice for the same attempt.
THEOREM AttemptsDialOnce == Spec => []OneCallPerAttempt
<1> DEFINE Inv == TypeInv /\ GateInv /\ CallInv /\ ConsentInv /\ KeyInv
<1>1. Init => Inv
  <2>1. ASSUME Init PROVE GateInv /\ CallInv
    BY <2>1, TaskQueueAssumption DEF Init, GateInv, CallInv, AnalyzedCallEnded, NoReq
  <2>2. ASSUME Init PROVE ConsentInv /\ KeyInv
    BY <2>2, TaskQueueAssumption, SMT
       DEF Init, ConsentInv, ConsentBeforeDial, KeyInv, NotBeyond, OneCallPerAttempt, NoReq
  <2> QED
    BY <2>1, <2>2, InitTypeInv
<1>2. Inv /\ [Next]_vars => Inv'
  BY StepTypeInv, StepGateInv, StepCallInv, StepConsentInv, StepKeyInv
<1>3. Inv => OneCallPerAttempt
  BY DEF KeyInv
<1> QED
  BY <1>1, <1>2, <1>3, PTL DEF Spec

-----------------------------------------------------------------------------
(* No dial while a call is live *)

\* A call that is live on the line was published as live, and nothing else has
\* been published since.
SeenInv == linePhase = "live" => latest = "live"

\* A dial that throws is no longer in progress.
LEMMA DialThrowsOpens ==
  ASSUME NEW kind, NEW e, DialThrows(kind, e) PROVE dialStage' = "none"
  BY DEF DialThrows

\* A live call is published when it comes.
LEMMA StepSeenInv == SeenInv /\ [Next]_vars => SeenInv'
<1> SUFFICES ASSUME SeenInv, [Next]_vars PROVE SeenInv'
  OBVIOUS
<1> USE DEF SeenInv, lineVars
<1>1. ASSUME UNCHANGED <<latest, linePhase>> PROVE SeenInv'
  BY <1>1
<1>2. ASSUME NEW r \in Req, Connect(r) \/ AnswerOk(r) PROVE SeenInv'
  BY <1>2 DEF Connect, PutOnLine, AnswerOk, LineBusy
<1>3. ASSUME RendererGone \/ RendererReady \/ OtherCall \/ CallEnds \/ ReportEnded \/ PublishEnded
      PROVE  SeenInv'
  BY <1>3 DEF RendererGone, RendererReady, OtherCall, PutOnLine, CallEnds, ReportEnded, PublishEnded
<1>4. ASSUME NEW t \in Tasks, HangupArrives(t) PROVE SeenInv'
  BY <1>4 DEF HangupArrives
<1>5. ASSUME Restart PROVE SeenInv'
  BY <1>5 DEF Restart, LoseProcess
<1>6. ASSUME NEW t \in Tasks, \/ Submit(t) \/ Cancel(t) \/ RejectBeforeDial(t) \/ DialRefused(t)
                              \/ \E approve \in BOOLEAN : StartDial(t, approve)
      PROVE  SeenInv'
  BY <1>1, <1>6 DEF Submit, Cancel, RejectBeforeDial, DialRefused, StartDial
<1>7. ASSUME \/ \E k \in ClientKeys : ClientDial(k)
             \/ ClientDialRefused \/ Approve \/ Refuse \/ GatewayTimeout
             \/ CallWaitTimeout \/ FinishAnalysis \/ UNCHANGED vars
      PROVE  SeenInv'
  BY <1>1, <1>7 DEF ClientDial, ClientDialRefused, Approve, Refuse, GatewayTimeout,
                    CallWaitTimeout, FinishAnalysis, vars
<1>8. ASSUME NEW r \in Req, CheckLine(r) \/ AnswerBusy(r) \/ AnswerRefused(r) \/ AnswerBroken(r)
      PROVE  SeenInv'
  BY <1>1, <1>8 DEF CheckLine, AnswerBusy, AnswerRefused, AnswerBroken, AnswerError
<1> QED
  BY <1>2, <1>3, <1>4, <1>5, <1>6, <1>7, <1>8 DEF Next, RunnerStep

\* A step that shuts the gate is the beginning of a dial, which finds the line free.
LEMMA GateShuts ==
  ASSUME SeenInv, [Next]_vars, dialStage = "none", dialStage' # "none"
  PROVE  linePhase # "live"
<1>1. ASSUME NEW r \in Req, NEW approve \in BOOLEAN, BeginDial(r, approve)
      PROVE  linePhase # "live"
  BY <1>1 DEF BeginDial, DialBlocked, SeenInv
<1>2. ASSUME NEW t \in Tasks, NEW approve \in BOOLEAN, StartDial(t, approve)
      PROVE  linePhase # "live"
  BY <1>2 DEF StartDial, BeginDial, DialBlocked, SeenInv
<1>3. ASSUME NEW k \in ClientKeys, ClientDial(k) PROVE linePhase # "live"
  BY <1>3 DEF ClientDial, BeginDial, DialBlocked, SeenInv
<1>4. ASSUME dialStage' = dialStage PROVE FALSE
  BY <1>4
<1>5. ASSUME NEW t \in Tasks, \/ Submit(t) \/ Cancel(t) \/ RejectBeforeDial(t) \/ DialRefused(t)
                              \/ HangupArrives(t)
      PROVE  FALSE
  BY <1>4, <1>5 DEF Submit, Cancel, RejectBeforeDial, DialRefused, HangupArrives, dialVars
<1>6. ASSUME \/ ClientDialRefused \/ RendererReady \/ OtherCall \/ CallEnds \/ ReportEnded
             \/ PublishEnded \/ CallWaitTimeout \/ FinishAnalysis \/ Restart \/ UNCHANGED vars
      PROVE  FALSE
  BY <1>4, <1>6 DEF ClientDialRefused, RendererReady, OtherCall, CallEnds, ReportEnded, PublishEnded,
                    CallWaitTimeout, FinishAnalysis, Restart, LoseProcess, dialVars, vars
<1>7. ASSUME Approve \/ Refuse \/ GatewayTimeout PROVE FALSE
  BY <1>7 DEF Approve, Refuse, GatewayTimeout
<1>8. ASSUME RendererGone PROVE FALSE
  BY <1>4, <1>8 DEF RendererGone, dialVars
<1>9. ASSUME NEW r \in Req, \/ CheckLine(r) \/ AnswerBusy(r) \/ AnswerRefused(r) \/ Connect(r)
                            \/ AnswerOk(r) \/ AnswerBroken(r)
      PROVE  FALSE
  BY <1>4, <1>9 DEF CheckLine, AnswerBusy, AnswerRefused, Connect, AnswerOk, AnswerBroken,
                    AnswerError, Awaited, dialVars
<1> QED
  BY <1>2, <1>3, <1>5, <1>6, <1>7, <1>8, <1>9 DEF Next, RunnerStep

\* The gate only knows what the renderer has published, and the end of a call is
\* reported before it is published; a dial begins on a free line all the same.
THEOREM GateFindsLineFree == Spec => GateSeesLiveCall
<1>1. Init => SeenInv
  BY DEF Init, SeenInv
<1>2. SeenInv /\ [Next]_vars => SeenInv'
  BY StepSeenInv
<1>3. SeenInv /\ [Next]_vars
        => [dialStage = "none" /\ dialStage' # "none" => linePhase # "live"]_vars
  BY GateShuts
<1> QED
  BY <1>1, <1>2, <1>3, PTL DEF Spec, GateSeesLiveCall

-----------------------------------------------------------------------------
(* Active tasks are run *)

\* A task left in awaiting_approval by an error worth another attempt: the table
\* has no way from there back to the queue, so that failOrRetry throws.
Stranded(t) == status[t] = "awaiting_approval" /\ attempts[t] + 1 < MaxAttempts

ActiveRows == \A t \in Tasks : status[t] \in ActiveStatus => runTask = t \/ Stranded(t)

\* Until the application is restarted for the first time.
ActiveInv == crashes = 0 => ActiveRows

\* One row moves, to where nobody need run it or to where somebody does.
LEMMA OneRow ==
  ASSUME ActiveRows, NEW t \in Tasks,
         \A u \in Tasks \ {t} : /\ status'[u] = status[u] /\ attempts'[u] = attempts[u]
                                /\ runTask = u => runTask' = u,
         status'[t] \in ActiveStatus => runTask' = t \/ Stranded(t)'
  PROVE  ActiveRows'
  BY DEF ActiveRows, Stranded

\* A transition moves one row, to where it says if the table lets it.
LEMMA MoveTaskRow ==
  ASSUME TypeInv, NEW t \in Tasks, NEW s, NEW n, NEW e, MoveTask(t, s, n, e)
  PROVE  /\ \A u \in Tasks \ {t} : status'[u] = status[u] /\ attempts'[u] = attempts[u]
         /\ CanMove(t, s) => status'[t] = s
         /\ ~CanMove(t, s) => status'[t] = status[t] /\ attempts'[t] = attempts[t]
  BY SMT DEF TypeInv, TaskRows, MoveTask, SetTask, taskVars

\* Every active status may fail, and every one but awaiting_approval be retried.
LEMMA ActiveMoves ==
  ASSUME NEW t \in Tasks, status[t] \in ActiveStatus
  PROVE  /\ CanMove(t, "failed")
         /\ status[t] # "awaiting_approval" /\ status[t] # "queued" => CanMove(t, "queued")
  BY AllowedTable DEF CanMove, ActiveStatus

\* What failOrRetry makes of the task being run: no active one, or a stranded one.
LEMMA FailOrRetryActive ==
  ASSUME TypeInv, GateInv, runPc # "idle", NEW t, t = runTask, NEW kind, NEW e,
         FailOrRetry(t, runTry, kind, e)
  PROVE  /\ \A u \in Tasks \ {t} : status'[u] = status[u] /\ attempts'[u] = attempts[u]
         /\ status'[t] \in ActiveStatus => Stranded(t)'
<1> DEFINE s == IF kind = "retry" /\ runTry < MaxAttempts THEN "queued" ELSE "failed"
<1>1. MoveTask(t, s, runTry, e) /\ s \notin ActiveStatus
  BY DEF FailOrRetry, ActiveStatus
<1>2. s = "queued" => runTry < MaxAttempts
  OBVIOUS
<1>3. s \in {"queued", "failed"}
  OBVIOUS
<1> HIDE DEF s
<1>4. t \in Tasks
  BY RunnerTask
<1>5. /\ \A u \in Tasks \ {t} : status'[u] = status[u] /\ attempts'[u] = attempts[u]
      /\ CanMove(t, s) => status'[t] = s
      /\ ~CanMove(t, s) => status'[t] = status[t]
                                 /\ attempts'[t] = attempts[t]
  BY <1>1, <1>4, MoveTaskRow
<1>6. ASSUME status'[t] \in ActiveStatus PROVE Stranded(t)'
  <2>1. ~CanMove(t, s) /\ status[t] \in ActiveStatus
    BY <1>1, <1>5, <1>6
  <2>2. s = "queued" /\ status[t] = "awaiting_approval"
    BY <1>3, <1>4, <2>1, ActiveMoves DEF ActiveStatus
  <2>3. attempts[t] + 1 < MaxAttempts
    BY <1>2, <2>2 DEF GateInv
  <2> QED
    BY <1>5, <2>1, <2>2, <2>3 DEF Stranded
<1> QED
  BY <1>5, <1>6

\* A dial that throws moves the task on, or strands it as is known.
LEMMA DialThrowsActive ==
  ASSUME TypeInv, GateInv, ActiveRows, dialStage # "none", NEW kind, NEW e,
         DialThrows(kind, e)
  PROVE  ActiveRows'
<1>1. CASE dialReq.by # runTask
  BY <1>1 DEF DialThrows, ActiveRows, Stranded, taskVars, runVars
<1>2. CASE dialReq.by = runTask
  <2>1. runPc # "idle"
    BY <1>2, TaskQueueAssumption, SMT DEF TypeInv, RunRows, DialRows, Req
  <2>2. runTask \in Tasks /\ runPc = "dialing"
    BY <1>2, <2>1, RunnerTask DEF GateInv
  <2>3. status[runTask] \in {"awaiting_approval", "dialing", "cancelled"}
    BY <2>2 DEF GateInv
  <2>4. CASE kind = "final"
    <3>1. MoveTask(runTask, "failed", attempts[runTask], e)
      BY <1>2, <2>4 DEF DialThrows
    <3>2. status[runTask] \in ActiveStatus => CanMove(runTask, "failed")
      BY <2>2, ActiveMoves
    <3>3. /\ \A u \in Tasks \ {runTask} : status'[u] = status[u] /\ attempts'[u] = attempts[u]
          /\ status'[runTask] \notin ActiveStatus
      BY <2>2, <3>1, <3>2, MoveTaskRow DEF ActiveStatus
    <3> QED
      BY <2>2, <3>3, OneRow
  <2>5. CASE kind # "final"
    <3>1. FailOrRetry(runTask, runTry, kind, e)
      BY <1>2, <2>5 DEF DialThrows
    <3>2. PICK t \in Tasks : t = runTask
      BY <2>2
    <3>3. /\ \A u \in Tasks \ {t} : status'[u] = status[u] /\ attempts'[u] = attempts[u]
          /\ status'[t] \in ActiveStatus => Stranded(t)'
      BY <2>1, <3>1, <3>2, FailOrRetryActive
    <3> QED
      BY <3>2, <3>3, OneRow
  <2> QED
    BY <2>4, <2>5
<1> QED
  BY <1>1, <1>2

\* Every step keeps an active task with the runner, or stranded as is known.
LEMMA StepActiveInv == TypeInv /\ GateInv /\ ActiveInv /\ [Next]_vars => ActiveInv'
<1> SUFFICES ASSUME TypeInv, GateInv, ActiveInv, [Next]_vars, crashes' = 0
             PROVE  ActiveRows'
  BY DEF ActiveInv
<1> USE DEF taskVars, runVars, dialVars, lineVars, callVars
<1>0. /\ crashes \in Nat
      /\ status \in [Tasks -> TaskStatus]
      /\ attempts \in [Tasks -> 0 .. MaxAttempts]
      /\ callOf \in [Tasks -> Calls \cup {0}]
      /\ error \in [Tasks -> {"none", "busy", "other"}]
  BY TaskQueueAssumption, SMT DEF TypeInv, TaskRows, RestRows
<1>1. ASSUME Restart PROVE FALSE
  BY <1>0, <1>1, SMT DEF Restart
<1>2. ASSUME crashes = 0, NEW t \in Tasks, Submit(t) \/ Cancel(t) PROVE ActiveRows'
  <2>1. /\ ActiveRows /\ runTask' = runTask
        /\ \E s \in {"queued", "cancelled"} : \E n, c, e : SetTask(t, s, n, c, e)
    BY <1>2 DEF Submit, Cancel, ActiveInv
  <2>2. PICK s, n, c, e : s \in {"queued", "cancelled"} /\ SetTask(t, s, n, c, e)
    BY <2>1
  <2>3. /\ \A u \in Tasks \ {t} : status'[u] = status[u] /\ attempts'[u] = attempts[u]
        /\ status'[t] \notin ActiveStatus
    BY <1>0, <2>2 DEF SetTask, ActiveStatus
  <2> QED
    BY <2>1, <2>3, OneRow
<1>3. ASSUME crashes = 0, UNCHANGED <<status, attempts, runTask>> PROVE ActiveRows'
  BY <1>3 DEF ActiveInv, ActiveRows, Stranded
<1>4. ASSUME crashes = 0, NEW t \in Tasks, RejectBeforeDial(t) \/ DialRefused(t)
      PROVE  ActiveRows'
  <2>1. /\ ActiveRows /\ runTask' = runTask /\ status[t] = "queued"
        /\ \E s \in {"queued", "failed"} : \E n, e : MoveTask(t, s, n, e)
    BY <1>4, Zenon DEF RejectBeforeDial, DialRefused, FailOrRetry, Runnable, ActiveInv
  <2>2. PICK s, n, e : s \in {"queued", "failed"} /\ MoveTask(t, s, n, e)
    BY <2>1
  <2>3. /\ \A u \in Tasks \ {t} : status'[u] = status[u] /\ attempts'[u] = attempts[u]
        /\ status'[t] \notin ActiveStatus
    BY <2>1, <2>2, MoveTaskRow DEF ActiveStatus
  <2> QED
    BY <2>1, <2>3, OneRow
<1>5. ASSUME crashes = 0, NEW t \in Tasks, NEW approve \in BOOLEAN, StartDial(t, approve)
      PROVE  ActiveRows'
  <2>1. /\ ActiveRows /\ runTask' = t /\ runTask = "none"
        /\ \E s, n, e : MoveTask(t, s, n, e)
    BY <1>5 DEF StartDial, Runnable, ActiveInv, TypeInv, RunRows
  <2>2. \A u \in Tasks \ {t} : status'[u] = status[u] /\ attempts'[u] = attempts[u]
    BY <2>1, MoveTaskRow
  <2>3. "none" \notin Tasks
    BY TaskQueueAssumption
  <2> QED
    BY <2>1, <2>2, <2>3, OneRow
<1>6. ASSUME crashes = 0, dialStage # "none",
             \E kind, e : DialThrows(kind, e)
      PROVE  ActiveRows'
  BY <1>6, DialThrowsActive DEF ActiveInv
<1>7. ASSUME crashes = 0, Approve \/ Refuse \/ GatewayTimeout \/ RendererGone
      PROVE  ActiveRows'
  <2>1. \/ UNCHANGED <<status, attempts, runTask>>
        \/ dialStage # "none" /\ \E kind, e : DialThrows(kind, e)
    BY <1>7, Zenon DEF Approve, Refuse, GatewayTimeout, RendererGone
  <2> QED
    BY <1>3, <1>6, <1>7, <2>1
<1>8. ASSUME crashes = 0, NEW r \in Req, AnswerBusy(r) \/ AnswerRefused(r) \/ AnswerBroken(r)
      PROVE  ActiveRows'
  <2>1. \E kind, e : AnswerError(r, kind, e)
    BY <1>8, Zenon DEF AnswerBusy, AnswerRefused, AnswerBroken
  <2>2. \/ UNCHANGED <<status, attempts, runTask>>
        \/ dialStage # "none" /\ \E kind, e : DialThrows(kind, e)
    BY <2>1 DEF AnswerError, Awaited
  <2> QED
    BY <1>3, <1>6, <1>8, <2>2
<1>9. ASSUME crashes = 0, NEW r \in Req, AnswerOk(r) PROVE ActiveRows'
  <2>1. CASE ~Awaited(r) \/ dialReq.by # runTask
    BY <1>3, <1>9, <2>1 DEF AnswerOk
  <2>2. CASE Awaited(r) /\ dialReq.by = runTask
    <3>1. runTask \in Tasks /\ runPc # "idle" /\ ActiveRows
      <4>1. runPc # "idle"
        BY <2>2, TaskQueueAssumption, SMT DEF TypeInv, RunRows, DialRows, Req, Awaited
      <4> QED
        BY <1>9, <4>1, RunnerTask DEF ActiveInv
    <3>2. CASE status[runTask] = "cancelled"
      <4>1. UNCHANGED <<status, attempts>>
        BY <1>9, <2>2, <3>2 DEF AnswerOk
      <4> QED
        BY <3>1, <3>2, <4>1, OneRow DEF ActiveStatus
    <3>3. CASE status[runTask] # "cancelled"
      <4>1. /\ runTask' = runTask
            /\ \E s, n, c, e : SetTask(runTask, s, n, c, e)
        BY <1>9, <2>2, <3>3, Zenon DEF AnswerOk
      <4>2. \A u \in Tasks \ {runTask} : status'[u] = status[u] /\ attempts'[u] = attempts[u]
        BY <1>0, <4>1 DEF SetTask
      <4> QED
        BY <3>1, <4>1, <4>2, OneRow
    <3> QED
      BY <3>2, <3>3
  <2> QED
    BY <2>1, <2>2
<1>10. ASSUME crashes = 0, ReportEnded PROVE ActiveRows'
  <2>1. CASE ~(runPc = "in_call" /\ callOf[runTask] = lineCall)
    BY <1>3, <1>10, <2>1 DEF ReportEnded
  <2>2. CASE runPc = "in_call" /\ callOf[runTask] = lineCall
    <3>1. runTask \in Tasks /\ ActiveRows
      BY <1>10, <2>2, RunnerTask DEF ActiveInv
    <3>2. CASE status[runTask] = "cancelled"
      <4>1. UNCHANGED <<status, attempts>>
        BY <1>10, <2>2, <3>2 DEF ReportEnded
      <4> QED
        BY <3>1, <3>2, <4>1, OneRow DEF ActiveStatus
    <3>3. CASE status[runTask] # "cancelled"
      <4>1. /\ runTask' = runTask
            /\ \E s, n, e : MoveTask(runTask, s, n, e)
        BY <1>10, <2>2, <3>3, Zenon DEF ReportEnded
      <4>2. \A u \in Tasks \ {runTask} : status'[u] = status[u] /\ attempts'[u] = attempts[u]
        BY <3>1, <4>1, MoveTaskRow
      <4> QED
        BY <3>1, <4>1, <4>2, OneRow
    <3> QED
      BY <3>2, <3>3
  <2> QED
    BY <2>1, <2>2
<1>11. ASSUME crashes = 0, CallWaitTimeout \/ FinishAnalysis PROVE ActiveRows'
  <2>1. /\ runPc \in {"in_call", "analyzing"} /\ runPc # "idle" /\ ActiveRows
        /\ \/ FailOrRetry(runTask, runTry, "retry", "other")
           \/ runPc = "analyzing" /\ \E s \in {"queued", "completed"} : \E n, e : MoveTask(runTask, s, n, e)
    BY <1>11, Zenon DEF CallWaitTimeout, FinishAnalysis, ActiveInv
  <2>2. runTask \in Tasks
    BY <2>1, RunnerTask
  <2>3. CASE FailOrRetry(runTask, runTry, "retry", "other")
    <3>1. PICK t \in Tasks : t = runTask
      BY <2>2
    <3>2. /\ \A u \in Tasks \ {t} : status'[u] = status[u] /\ attempts'[u] = attempts[u]
          /\ status'[t] \in ActiveStatus => Stranded(t)'
      BY <2>1, <2>3, <3>1, FailOrRetryActive
    <3> QED
      BY <2>1, <3>1, <3>2, OneRow
  <2>4. ASSUME runPc = "analyzing", NEW s \in {"queued", "completed"}, NEW n, NEW e,
               MoveTask(runTask, s, n, e)
        PROVE  ActiveRows'
    <3>1. status[runTask] \in {"analyzing", "cancelled"}
      BY <2>4 DEF GateInv
    <3>2. status[runTask] \in ActiveStatus => CanMove(runTask, s)
      BY <3>1, AllowedTable DEF CanMove, ActiveStatus
    <3>3. /\ \A u \in Tasks \ {runTask} : status'[u] = status[u] /\ attempts'[u] = attempts[u]
          /\ status'[runTask] \notin ActiveStatus
      BY <2>2, <2>4, <3>2, MoveTaskRow DEF ActiveStatus
    <3> QED
      BY <2>1, <2>2, <3>3, OneRow
  <2> QED
    BY <2>1, <2>3, <2>4
<1>12. ASSUME crashes = 0,
              \/ ClientDialRefused \/ RendererReady \/ OtherCall \/ CallEnds \/ PublishEnded
              \/ \E k \in ClientKeys : ClientDial(k)
              \/ \E t \in Tasks : HangupArrives(t)
              \/ \E r \in Req : CheckLine(r) \/ Connect(r)
              \/ UNCHANGED vars
       PROVE  ActiveRows'
  BY <1>3, <1>12 DEF ClientDialRefused, RendererReady, OtherCall, CallEnds, PublishEnded,
     ClientDial, HangupArrives, CheckLine, Connect, vars
<1>13. crashes = 0
  <2>1. crashes' = crashes \/ Restart
    BY DEF Next, RunnerStep, Submit, Cancel, HangupArrives, RejectBeforeDial, DialRefused,
       StartDial, ClientDial, ClientDialRefused, Approve, Refuse, GatewayTimeout, RendererGone,
       RendererReady, CheckLine, AnswerBusy, AnswerRefused, AnswerError, Connect, AnswerOk,
       AnswerBroken, OtherCall, CallEnds, ReportEnded, PublishEnded, CallWaitTimeout,
       FinishAnalysis, vars
  <2> QED
    BY <1>1, <2>1
<1> QED
  BY <1>1, <1>2, <1>4, <1>5, <1>7, <1>8, <1>9, <1>10, <1>11, <1>12, <1>13
     DEF Next, RunnerStep

\* Whatever is lost, late or cancelled, the row of a task is in an active status
\* only while the runner runs it or, unless a restart lost the runner, when a
\* retry out of awaiting_approval was refused (failOrRetry and TRANSITIONS).
THEOREM OnlyApprovalsStrand == Spec => []ActiveInv
<1> DEFINE Inv == TypeInv /\ GateInv /\ ActiveInv
<1>1. Init => Inv
  <2>1. ASSUME Init PROVE GateInv /\ ActiveInv
    BY <2>1, TaskQueueAssumption
       DEF Init, GateInv, ActiveInv, ActiveRows, ActiveStatus, NoReq
  <2> QED
    BY <2>1, InitTypeInv
<1>2. Inv /\ [Next]_vars => Inv'
  BY StepTypeInv, StepGateInv, StepActiveInv
<1>3. Inv => ActiveInv
  OBVIOUS
<1> QED
  BY <1>1, <1>2, <1>3, PTL DEF Spec

\* With one attempt there is nothing to retry, and an active task of an
\* application that is not restarted is the one the runner runs.
THEOREM ActiveRuns ==
  ASSUME MaxAttempts = 1, MaxCrashes = 0
  PROVE  Spec => []ActiveTaskIsRunning
<1>1. TypeInv /\ ActiveInv => ActiveTaskIsRunning
  BY SMT DEF TypeInv, TaskRows, RestRows, ActiveInv, ActiveRows, Stranded, ActiveTaskIsRunning
<1>2. Spec => []TypeInv
  BY InitTypeInv, StepTypeInv, PTL DEF Spec
<1> QED
  BY <1>1, <1>2, OnlyApprovalsStrand, PTL
=============================================================================
