----------------------------- MODULE TaskQueue -----------------------------
(***************************************************************************)
(* The outbound call path of the desktop: TaskService (submission,         *)
(* cancellation, the managed-dial gate), TaskRunner (one task at a time),  *)
(* ApprovalService (the local approval of a dial), PhoneCommandGateway     *)
(* (commands to the renderer and the status it publishes) and, as far as   *)
(* the main process can tell, the renderer's phone and the call sessions   *)
(* CallStore keeps of it.                                                  *)
(*                                                                         *)
(* The main process is one JavaScript thread: what runs between two awaits *)
(* is one action here, the continuation of a promise included, since it    *)
(* runs before the next event is handled.  Time is abstracted: a deadline  *)
(* (approval, gateway, call wait) may pass whenever it is armed, and a     *)
(* queued task may be due at any moment (notBefore, back-off).             *)
(***************************************************************************)
EXTENDS Naturals, FiniteSets

CONSTANTS Tasks,        \* the task ids
          ClientKeys,   \* idempotency keys of dials asked for over HTTP or MCP
          MaxAttempts,  \* constraints.maxAttempts (1 to 4 in the code)
          MaxCalls,     \* bound: how many call sessions a behaviour may have
          MaxCrashes    \* bound: how often the application may be restarted

ASSUME TaskQueueAssumption ==
    /\ MaxAttempts \in Nat \ {0}
    /\ MaxCalls \in Nat
    /\ MaxCrashes \in Nat
    /\ Tasks \cap ClientKeys = {}
    /\ "none" \notin Tasks \cup ClientKeys

VARIABLES
    \* call_tasks rows
    status, attempts, callOf, error,
    \* TaskRunner: where runTask stands, currentTaskId, nextAttempt
    runPc, runTask, runTry,
    \* TaskService: the managed dial in progress, callLease, dialResults
    dialStage, dialReq, callLease, dialKeys,
    \* PhoneCommandGateway.latestStatus
    latest,
    \* the renderer: dial commands it has, the call it shows, hangups on the way
    cmd, lineCall, linePhase, hangups,
    \* call_sessions rows, and the dial each call came from
    session, owner,
    \* the approval history of each dial, kept for the properties only
    consent,
    crashes

taskVars == <<status, attempts, callOf, error>>
runVars  == <<runPc, runTask, runTry>>
dialVars == <<dialStage, dialReq, callLease, dialKeys>>
lineVars == <<cmd, lineCall, linePhase, hangups>>
callVars == <<session, owner>>
vars == <<taskVars, runVars, dialVars, latest, lineVars, callVars, consent,
          crashes>>

Calls == 1 .. MaxCalls

Life == INSTANCE TaskLifecycle

TerminalStatus == {"completed", "failed", "cancelled"}
ActiveStatus   == {"awaiting_approval", "dialing", "in_call", "analyzing"}
TaskStatus     == {"unsubmitted", "queued"} \cup ActiveStatus \cup TerminalStatus

\* The idempotency keys of managed dials: "taskId:attempt", or a client's own.
Req   == [by : Tasks, n : 1 .. MaxAttempts] \cup [by : ClientKeys, n : {1}]
NoReq == [by |-> "none", n |-> 0]

TypeOK ==
    /\ status   \in [Tasks -> TaskStatus]
    /\ attempts \in [Tasks -> 0 .. MaxAttempts]
    /\ callOf   \in [Tasks -> Calls \cup {0}]
    /\ error    \in [Tasks -> {"none", "busy", "other"}]
    /\ runPc    \in {"idle", "dialing", "in_call", "analyzing"}
    /\ runTask  \in Tasks \cup {"none"}
    /\ runTry   \in 0 .. MaxAttempts
    /\ dialStage \in {"none", "approval", "sent"}
    /\ dialReq   \in Req \cup {NoReq}
    /\ callLease \in BOOLEAN
    /\ dialKeys  \subseteq Req
    /\ latest    \in {"unready", "no_call", "live", "over"}
    /\ cmd       \in [Req -> {"none", "queued", "checked", "started"}]
    /\ lineCall  \in Calls \cup {0}
    /\ linePhase \in {"idle", "live", "ending", "reported", "over"}
    /\ hangups   \subseteq Tasks
    /\ session   \in [Calls -> {"none", "live", "ended"}]
    /\ owner     \in [Calls -> Req \cup {NoReq}]
    /\ consent   \in [Req -> {"none", "direct", "asked", "granted"}]
    /\ crashes   \in 0 .. MaxCrashes

Init ==
    /\ status   = [t \in Tasks |-> "unsubmitted"]
    /\ attempts = [t \in Tasks |-> 0]
    /\ callOf   = [t \in Tasks |-> 0]
    /\ error    = [t \in Tasks |-> "none"]
    /\ runPc = "idle" /\ runTask = "none" /\ runTry = 0
    /\ dialStage = "none" /\ dialReq = NoReq
    /\ callLease = FALSE /\ dialKeys = {}
    /\ latest = "unready"
    /\ cmd = [r \in Req |-> "none"]
    /\ lineCall = 0 /\ linePhase = "idle" /\ hangups = {}
    /\ session = [c \in Calls |-> "none"]
    /\ owner = [c \in Calls |-> NoReq]
    /\ consent = [r \in Req |-> "none"]
    /\ crashes = 0

-----------------------------------------------------------------------------
(* TaskService.transition and the runner's handling of failures *)

CanMove(t, s) == s = status[t] \/ s \in Life!Allowed[status[t]]

SetTask(t, s, n, c, e) ==
    /\ status'   = [status EXCEPT ![t] = s]
    /\ attempts' = [attempts EXCEPT ![t] = n]
    /\ callOf'   = [callOf EXCEPT ![t] = c]
    /\ error'    = [error EXCEPT ![t] = e]

\* Mutant: transition does not consult the table.
MoveTask_Unchecked(t, s, n, e) == SetTask(t, s, n, callOf[t], e)

\* A refused transition throws CONFLICT, which ends the run and changes no row;
\* a cancelled task is left alone as well.
MoveTask(t, s, n, e) ==
    IF CanMove(t, s) THEN SetTask(t, s, n, callOf[t], e) ELSE UNCHANGED taskVars

\* Mutant: the last attempt is retried as well.
FailOrRetry_OneMore(t, n, kind, e) ==
    MoveTask(t, IF kind = "retry" /\ n <= MaxAttempts THEN "queued" ELSE "failed",
             n, e)

\* failOrRetry: kind is "retry" for an error worth another attempt, "fatal" for
\* GUARDRAIL_BLOCKED, INVALID_NUMBER and NOT_FOUND.
FailOrRetry(t, n, kind, e) ==
    MoveTask(t, IF kind = "retry" /\ n < MaxAttempts THEN "queued" ELSE "failed",
             n, e)

EndRun == runPc' = "idle" /\ runTask' = "none" /\ runTry' = 0

\* completeDial throws: the gate opens and, if the dial was the runner's, runTask
\* continues in its catch.  kind is "final" for a denied or expired approval and
\* for a renderer that is not there: the task fails, its attempts untouched.
DialThrows(kind, e) ==
    /\ dialStage' = "none" /\ dialReq' = NoReq
    /\ UNCHANGED <<callLease, dialKeys>>
    /\ IF dialReq.by = runTask
         THEN /\ IF kind = "final"
                   THEN MoveTask(runTask, "failed", attempts[runTask], e)
                   ELSE FailOrRetry(runTask, runTry, kind, e)
              /\ EndRun
         ELSE UNCHANGED <<taskVars, runVars>>

-----------------------------------------------------------------------------
(* Submission and cancellation *)

\* submit: a known idempotency key returns its task, so a task is created once.
Submit(t) ==
    /\ status[t] = "unsubmitted"
    /\ SetTask(t, "queued", 0, 0, "none")
    /\ UNCHANGED <<runVars, dialVars, latest, lineVars, callVars, consent, crashes>>

\* Mutant: no cancel handler is registered.
Cancel_NoHandler(t) ==
    /\ status[t] \notin TerminalStatus \cup {"unsubmitted"}
    /\ SetTask(t, "cancelled", attempts[t], callOf[t], "none")
    /\ UNCHANGED <<runVars, dialVars, latest, lineVars, callVars, consent, crashes>>

\* cancel, with the runner's handleCancel: a hangup is sent only for the task
\* being run, and only once that task has a call id.
Cancel(t) ==
    /\ status[t] \notin TerminalStatus \cup {"unsubmitted"}
    /\ SetTask(t, "cancelled", attempts[t], callOf[t], "none")
    /\ hangups' = IF runTask = t /\ callOf[t] # 0 /\ latest # "unready"
                    THEN hangups \cup {t} ELSE hangups
    /\ UNCHANGED <<runVars, dialVars, latest, cmd, lineCall, linePhase, callVars,
                   consent, crashes>>

-----------------------------------------------------------------------------
(* The managed-dial gate: startManagedDial up to its first await *)

\* No call in the published status releases the lease before it is tested.
LeaseSeen == callLease /\ latest # "no_call"

\* Mutant: only the gate's own flags are tested, not the published status.
DialBlocked_FlagsOnly == latest = "unready" \/ dialStage # "none" \/ LeaseSeen

DialBlocked == latest \in {"unready", "live"} \/ dialStage # "none" \/ LeaseSeen

BeginDial(r, approve) ==
    /\ ~DialBlocked
    /\ r \notin dialKeys          \* a known key returns the earlier dial
    /\ dialReq' = r
    /\ callLease' = LeaseSeen
    /\ dialKeys' = dialKeys \cup {r}
    /\ IF approve
         THEN /\ dialStage' = "approval"
              /\ consent' = [consent EXCEPT ![r] = "asked"]
              /\ UNCHANGED cmd
         ELSE /\ dialStage' = "sent"
              /\ consent' = [consent EXCEPT ![r] = "direct"]
              /\ cmd' = [cmd EXCEPT ![r] = "queued"]

\* An HTTP or MCP client dials through PhoneService, always with an approval.
ClientDial(k) ==
    /\ BeginDial([by |-> k, n |-> 1], TRUE)
    /\ UNCHANGED <<taskVars, runVars, latest, lineCall, linePhase, hangups,
                   callVars, crashes>>

\* A refused client dial may still have released the lease.
ClientDialRefused ==
    /\ ClientKeys # {}
    /\ callLease' = LeaseSeen
    /\ UNCHANGED <<taskVars, runVars, dialStage, dialReq, dialKeys, latest,
                   lineVars, callVars, consent, crashes>>

-----------------------------------------------------------------------------
(* TaskRunner.runTask up to its first await *)

Runnable(t) == runPc = "idle" /\ status[t] = "queued"

\* The calling window has passed, or the budget's kill switch is on.
RejectBeforeDial(t) ==
    /\ Runnable(t)
    /\ MoveTask(t, "failed", attempts[t], "other")
    /\ UNCHANGED <<runVars, dialVars, latest, lineVars, callVars, consent, crashes>>

\* startManagedDial throws: the gate is shut, or (gate open) the rate limit or
\* the campaign forbids the call.
DialRefused(t) ==
    /\ Runnable(t)
    /\ IF DialBlocked
         THEN FailOrRetry(t, attempts[t] + 1, "retry",
                          IF latest = "unready" THEN "other" ELSE "busy")
         ELSE \E kind \in {"retry", "fatal"} :
                 FailOrRetry(t, attempts[t] + 1, kind, "other")
    /\ callLease' = LeaseSeen
    /\ UNCHANGED <<runVars, dialStage, dialReq, dialKeys, latest, lineVars,
                   callVars, consent, crashes>>

\* The budget decides whether the dial needs the local approval.
StartDial(t, approve) ==
    /\ Runnable(t)
    /\ BeginDial([by |-> t, n |-> attempts[t] + 1], approve)
    /\ runPc' = "dialing" /\ runTask' = t /\ runTry' = attempts[t] + 1
    /\ IF approve
         THEN MoveTask(t, "awaiting_approval", attempts[t], error[t])
         ELSE MoveTask(t, "dialing", attempts[t] + 1, error[t])
    /\ UNCHANGED <<latest, lineCall, linePhase, hangups, callVars, crashes>>

-----------------------------------------------------------------------------
(* ApprovalService.settle, and completeDial after it *)

\* The send that follows fails at once when no renderer has published a status.
Approve ==
    /\ dialStage = "approval"
    /\ consent' = [consent EXCEPT ![dialReq] = "granted"]
    /\ IF latest = "unready"
         THEN DialThrows("final", "other") /\ UNCHANGED cmd
         ELSE /\ dialStage' = "sent"
              /\ cmd' = [cmd EXCEPT ![dialReq] = "queued"]
              /\ UNCHANGED <<taskVars, runVars, dialReq, callLease, dialKeys>>
    /\ UNCHANGED <<latest, lineCall, linePhase, hangups, callVars, crashes>>

\* Mutant: the expiry of an approval counts as consent.
Refuse_Sends ==
    /\ dialStage = "approval" /\ dialStage' = "sent"
    /\ cmd' = [cmd EXCEPT ![dialReq] = "queued"]
    /\ UNCHANGED <<taskVars, runVars, dialReq, callLease, dialKeys, latest,
                   lineCall, linePhase, hangups, callVars, consent, crashes>>

\* Denied, expired, or the service disposed.
Refuse ==
    /\ dialStage = "approval"
    /\ DialThrows("final", "other")
    /\ UNCHANGED <<latest, lineVars, callVars, consent, crashes>>

-----------------------------------------------------------------------------
(* PhoneCommandGateway: how a sent dial is settled *)

\* A command is settled once, by its answer, by the deadline or by the loss of
\* the renderer; what arrives for a settled command is dropped.
Awaited(r) == dialStage = "sent" /\ dialReq = r

\* Mutant: the deadline forgets the command without settling its promise.
GatewayTimeout_Unsettled ==
    /\ dialStage = "sent"
    /\ dialStage' = "none" /\ dialReq' = NoReq
    /\ UNCHANGED <<taskVars, runVars, callLease, dialKeys, latest, lineVars,
                   callVars, consent, crashes>>

\* The 10 s deadline.  The renderer keeps the command.
GatewayTimeout ==
    /\ dialStage = "sent"
    /\ DialThrows("retry", "other")
    /\ UNCHANGED <<latest, lineVars, callVars, consent, crashes>>

\* The page reloads or its process is gone: its call and commands go with it.
RendererGone ==
    /\ latest # "unready"
    /\ latest' = "unready"
    /\ cmd' = [r \in Req |-> "none"]
    /\ lineCall' = 0 /\ linePhase' = "idle" /\ hangups' = {}
    /\ IF dialStage = "sent"
         THEN DialThrows("final", "other")
         ELSE UNCHANGED <<taskVars, runVars, dialVars>>
    /\ UNCHANGED <<callVars, consent, crashes>>

RendererReady ==
    /\ latest = "unready"
    /\ latest' = "no_call"
    /\ UNCHANGED <<taskVars, runVars, dialVars, lineVars, callVars, consent, crashes>>

-----------------------------------------------------------------------------
(* The renderer's handlePhoneCommand, seen from the main process *)

\* hasCallInProgress: the controller shows a call as live until the report of
\* its end has been answered by the main process.
LineBusy == linePhase \in {"live", "ending", "reported"}

\* The command fails: an error answers it.
AnswerError(r, kind, e) ==
    /\ cmd' = [cmd EXCEPT ![r] = "none"]
    /\ IF Awaited(r) THEN DialThrows(kind, e)
                     ELSE UNCHANGED <<taskVars, runVars, dialVars>>
    /\ UNCHANGED <<latest, lineCall, linePhase, hangups, callVars, consent, crashes>>

\* The line is tested on arrival, the campaign is fetched after that test.
CheckLine(r) ==
    /\ cmd[r] = "queued" /\ ~LineBusy
    /\ cmd' = [cmd EXCEPT ![r] = "checked"]
    /\ UNCHANGED <<taskVars, runVars, dialVars, latest, lineCall, linePhase,
                   hangups, callVars, consent, crashes>>

AnswerBusy(r) ==
    /\ cmd[r] = "queued" /\ LineBusy
    /\ AnswerError(r, "retry", "busy")

\* An invalid number, a guard, or a failure before the call exists.
AnswerRefused(r) ==
    /\ cmd[r] = "checked" \/ (cmd[r] = "queued" /\ ~LineBusy)
    /\ \E kind \in {"retry", "fatal"} : AnswerError(r, kind, "other")

\* A new call on the line: shown, published and reported to the call store.
NextCall(c) == session[c] = "none" /\ \A d \in 1 .. (c - 1) : session[d] # "none"

PutOnLine(c, r) ==
    /\ NextCall(c)
    /\ session' = [session EXCEPT ![c] = "live"]
    /\ owner' = [owner EXCEPT ![c] = r]
    /\ lineCall' = c /\ linePhase' = "live"
    /\ latest' = "live"

\* The dial is placed without another look at the line: a call that arrived
\* since the test is displaced.
Connect(r) ==
    /\ cmd[r] = "checked" /\ linePhase \notin {"ending", "reported"}
    /\ \E c \in Calls : PutOnLine(c, r)
    /\ cmd' = [cmd EXCEPT ![r] = "started"]
    /\ UNCHANGED <<taskVars, runVars, dialVars, hangups, consent, crashes>>

\* The dial is done (carrier connected, voice session warm): the answer carries
\* the controller's present call, whichever it is.  completeDial records the
\* lease, and runTask goes on up to its next await.
AnswerOk(r) ==
    /\ cmd[r] = "started"
    /\ cmd' = [cmd EXCEPT ![r] = "none"]
    /\ IF Awaited(r)
         THEN /\ latest' = IF LineBusy THEN "live" ELSE "over"
              /\ callLease' = LineBusy
              /\ dialStage' = "none" /\ dialReq' = NoReq
              /\ IF dialReq.by # runTask
                   THEN UNCHANGED <<taskVars, runVars>>
                   ELSE IF status[runTask] = "cancelled"
                     THEN UNCHANGED taskVars /\ EndRun
                     ELSE \E s \in {"in_call", "analyzing"} :
                            /\ (s = "analyzing") = (session[lineCall] = "ended")
                            /\ SetTask(runTask, s, runTry, lineCall, error[runTask])
                            /\ runPc' = s
                            /\ UNCHANGED <<runTask, runTry>>
         ELSE UNCHANGED <<taskVars, runVars, dialStage, dialReq, callLease, latest>>
    /\ UNCHANGED <<dialKeys, lineCall, linePhase, hangups, callVars, consent, crashes>>

\* The carrier or the voice session failed after the call was shown.
AnswerBroken(r) ==
    /\ cmd[r] = "started"
    /\ linePhase # "live" \/ owner[lineCall] # r
    /\ AnswerError(r, "retry", "other")

\* A call nobody dialed here: inbound, or dialed by the owner.
OtherCall ==
    /\ latest # "unready" /\ linePhase \in {"idle", "over"}
    /\ \E c \in Calls : PutOnLine(c, NoReq)
    /\ UNCHANGED <<taskVars, runVars, dialVars, cmd, hangups, consent, crashes>>

\* The far end, the owner, a client, the duration guard or a carrier error.
CallEnds ==
    /\ linePhase = "live"
    /\ linePhase' = "ending"
    /\ UNCHANGED <<taskVars, runVars, dialVars, latest, cmd, lineCall, hangups,
                   callVars, consent, crashes>>

\* A hangup command acts on the call that is up when it arrives.
HangupArrives(t) ==
    /\ t \in hangups
    /\ hangups' = hangups \ {t}
    /\ linePhase' = IF linePhase = "live" THEN "ending" ELSE linePhase
    /\ UNCHANGED <<taskVars, runVars, dialVars, latest, cmd, lineCall, callVars,
                   consent, crashes>>

-----------------------------------------------------------------------------
(* The end of a call, and the rest of runTask *)

\* Mutant: the runner takes the end of any call for the end of its own.
ReportEnded_AnyCall ==
    /\ linePhase = "ending"
    /\ linePhase' = "reported"
    /\ session' = [session EXCEPT ![lineCall] = "ended"]
    /\ callLease' = FALSE
    /\ IF runPc = "in_call" /\ status[runTask] # "cancelled"
         THEN /\ MoveTask(runTask, "analyzing", attempts[runTask], error[runTask])
              /\ runPc' = "analyzing"
              /\ UNCHANGED <<runTask, runTry>>
         ELSE UNCHANGED <<taskVars, runVars>>
    /\ UNCHANGED <<dialStage, dialReq, dialKeys, latest, cmd, lineCall, hangups,
                   owner, consent, crashes>>

\* CallStore.report emits call.ended: TaskService drops the lease and a runner
\* waiting for this call goes on.
ReportEnded ==
    /\ linePhase = "ending"
    /\ linePhase' = "reported"
    /\ session' = [session EXCEPT ![lineCall] = "ended"]
    /\ callLease' = FALSE
    /\ IF runPc = "in_call" /\ callOf[runTask] = lineCall
         THEN IF status[runTask] = "cancelled"
                THEN UNCHANGED taskVars /\ EndRun
                ELSE /\ MoveTask(runTask, "analyzing", attempts[runTask], error[runTask])
                     /\ runPc' = "analyzing"
                     /\ UNCHANGED <<runTask, runTry>>
         ELSE UNCHANGED <<taskVars, runVars>>
    /\ UNCHANGED <<dialStage, dialReq, dialKeys, latest, cmd, lineCall, hangups,
                   owner, consent, crashes>>

\* The renderer, its report answered, shows and publishes the call as ended.
PublishEnded ==
    /\ linePhase = "reported"
    /\ linePhase' = "over" /\ latest' = "over"
    /\ UNCHANGED <<taskVars, runVars, dialVars, cmd, lineCall, hangups, callVars,
                   consent, crashes>>

\* Mutant: the wait ends and the task is left as it is.
CallWaitTimeout_Forgets ==
    /\ runPc = "in_call"
    /\ EndRun
    /\ UNCHANGED <<taskVars, dialVars, latest, lineVars, callVars, consent, crashes>>

\* waitForCallEnd gives up after an hour.
CallWaitTimeout ==
    /\ runPc = "in_call"
    /\ FailOrRetry(runTask, runTry, "retry", "other")
    /\ EndRun
    /\ UNCHANGED <<dialVars, latest, lineVars, callVars, consent, crashes>>

\* The analysis throws, asks for another attempt (no answer, error), or is final.
FinishAnalysis ==
    /\ runPc = "analyzing"
    /\ \/ FailOrRetry(runTask, runTry, "retry", "other")
       \/ /\ runTry < MaxAttempts
          /\ MoveTask(runTask, "queued", runTry, "none")
       \/ MoveTask(runTask, "completed", runTry, "none")
    /\ EndRun
    /\ UNCHANGED <<dialVars, latest, lineVars, callVars, consent, crashes>>

\* What only lives in the main process and in the renderer.
LoseProcess ==
    /\ EndRun
    /\ dialStage' = "none" /\ dialReq' = NoReq
    /\ callLease' = FALSE /\ dialKeys' = {}
    /\ latest' = "unready"
    /\ cmd' = [r \in Req |-> "none"]
    /\ lineCall' = 0 /\ linePhase' = "idle" /\ hangups' = {}

\* Mutant: a restart puts the tasks it interrupts back in the queue as they are.
Restart_Requeues ==
    /\ crashes < MaxCrashes
    /\ crashes' = crashes + 1
    /\ status' = [t \in Tasks |-> IF status[t] \in ActiveStatus THEN "queued"
                                                             ELSE status[t]]
    /\ LoseProcess
    /\ UNCHANGED <<attempts, callOf, error, callVars, consent>>

\* The application stops and starts again: the rows stay, the rest is gone.  A
\* session that was never answered and is old enough is closed when the call
\* store opens (finalizeOrphanedSessions); the others stay as they were.
Restart ==
    /\ crashes < MaxCrashes
    /\ crashes' = crashes + 1
    /\ LoseProcess
    /\ \E orphans \in SUBSET {c \in Calls : session[c] = "live"} :
          session' = [c \in Calls |-> IF c \in orphans THEN "ended" ELSE session[c]]
    /\ UNCHANGED <<taskVars, owner, consent>>

-----------------------------------------------------------------------------
RunnerStep ==
    \E t \in Tasks :
        \/ RejectBeforeDial(t)
        \/ DialRefused(t)
        \/ \E approve \in BOOLEAN : StartDial(t, approve)

Next ==
    \/ \E t \in Tasks : Submit(t) \/ Cancel(t) \/ HangupArrives(t)
    \/ RunnerStep
    \/ \E k \in ClientKeys : ClientDial(k)
    \/ ClientDialRefused
    \/ Approve \/ Refuse
    \/ GatewayTimeout \/ RendererGone \/ RendererReady
    \/ \E r \in Req : \/ CheckLine(r) \/ AnswerBusy(r) \/ AnswerRefused(r)
                      \/ Connect(r) \/ AnswerOk(r) \/ AnswerBroken(r)
    \/ OtherCall \/ CallEnds \/ ReportEnded \/ PublishEnded
    \/ CallWaitTimeout \/ FinishAnalysis
    \/ Restart

Spec == Init /\ [][Next]_vars

\* The scheduler ticks every second, the three deadlines are timers, a model
\* turn has its own time limit, and a live renderer serves its event queue.
\* Nothing obliges a call to end, a user to answer or a page to stay.
Fairness ==
    /\ WF_vars(RunnerStep)
    /\ WF_vars(Refuse)
    /\ WF_vars(GatewayTimeout)
    /\ WF_vars(CallWaitTimeout)
    /\ WF_vars(FinishAnalysis)
    /\ WF_vars(\E t \in Tasks : HangupArrives(t))

FairSpec == Spec /\ Fairness

-----------------------------------------------------------------------------
(* Properties that hold *)

\* A task in an active status is the one the runner is running, so something
\* will move it on.  True of a process that is not restarted, and of tasks that
\* have a single attempt (see RetryableErrorRequeues below).
ActiveTaskIsRunning ==
    \A t \in Tasks : status[t] \in ActiveStatus => runTask = t

Consented(r) ==
    consent[r] = "granted" \/ (consent[r] = "direct" /\ r.by \in Tasks)

\* The renderer never holds a dial command without a local approval of that very
\* attempt or, for a task only, a budget that covers it.  A denial, an expiry, a
\* late answer, a retry or a restart never lets a dial slip through.
ConsentBeforeDial == \A r \in Req : cmd[r] # "none" => Consented(r)

\* An attempt of a task places at most one call: whatever is lost, late, retried
\* or restarted, the key "taskId:attempt" is never dialed twice.
OneCallPerAttempt ==
    \A c, d \in Calls :
        owner[c] = owner[d] /\ owner[c].by \in Tasks => c = d

\* Analysis only ever looks at a call whose session is over, and a completed
\* task refers to such a call.
AnalyzedCallEnded ==
    \A t \in Tasks : status[t] \in {"analyzing", "completed"}
                        => callOf[t] # 0 /\ session[callOf[t]] = "ended"

\* The gate never lets a managed dial begin while the renderer has a live call,
\* although it only sees the status the renderer last published.
GateSeesLiveCall ==
    [][dialStage = "none" /\ dialStage' # "none" => linePhase # "live"]_vars

\* The task rows go through the life TaskLifecycle promises.
ImplementsLifecycle == Life!LSpec

CallUp(c) == c # 0 /\ lineCall = c /\ linePhase = "live"

\* Every task that is submitted reaches a terminal status, however calls,
\* renderer and users behave: no wait of the runner is without a deadline.
EveryTaskEnds ==
    \A t \in Tasks : status[t] = "queued" ~> status[t] \in TerminalStatus

\* A call whose task is cancelled while the runner waits for its end is hung up.
CancelEndsCall ==
    \A t \in Tasks :
        (runTask = t /\ runPc = "in_call" /\ status[t] = "cancelled" /\ CallUp(callOf[t]))
            ~> ~CallUp(callOf[t])

-----------------------------------------------------------------------------
(* What the repository says and the code does not do *)

\* docs/tasks.md: "retryable no-answer or errors back off" - a retryable error
\* leaves no task in an active status that nothing will move on.
RetryableErrorRequeues == ActiveTaskIsRunning

\* docs/tasks.md: a "durable task" - a restart does not leave it in the middle of
\* its life for ever.
DurableTask ==
    \A t \in Tasks : status[t] \in ActiveStatus ~> status[t] \notin ActiveStatus

\* docs/tasks.md: "cancellation is terminal; an active task also requests
\* hangup" - a cancelled task does not keep a call going.
CancelledTaskLeavesNoCall ==
    \A t \in Tasks, c \in Calls :
        (status[t] = "cancelled" /\ CallUp(c) /\ owner[c].by = t) ~> ~CallUp(c)

\* docs/tasks.md: a completed task has "the related callId" - the call a task
\* refers to is one its own dial placed.
TaskCallIsItsOwn ==
    \A t \in Tasks : callOf[t] # 0 => owner[callOf[t]].by = t

\* docs/tasks.md: "the desktop serializes outbound calls" - a queued task is
\* not failed as busy because of the call of the task completed before it.
NotBusyWithCompletedTask ==
    [][\A t, u \in Tasks :
          /\ status[t] = "queued" /\ status'[t] = "failed" /\ error'[t] = "busy"
          /\ status[u] = "completed" /\ callOf[u] = lineCall
          => dialStage # "none"]_vars

\* The gate's own error, "A managed call is already pending or leased": a lease
\* that shuts the gate belongs to a call that is not over.
LeaseMeansCall == LeaseSeen /\ latest # "unready" => session[lineCall] = "live"

\* docs/tasks.md: "analyzing: the call ended" and only "an active task also
\* requests hangup" - cancelling a task never ends somebody else's call.
HangupEndsOwnCall ==
    [][\A t \in Tasks :
          t \in hangups \ hangups' /\ linePhase = "live" /\ linePhase' = "ending"
          => owner[lineCall].by = t]_vars
=============================================================================
