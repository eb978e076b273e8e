--------------------------- MODULE TaskLifecycle ---------------------------
(***************************************************************************)
(* What a call task promises to whoever submitted it, with nothing about   *)
(* how the promise is kept: the statuses of TaskService and the moves its  *)
(* TRANSITIONS table admits (services/task-service.ts), an attempt counter *)
(* that never goes back and never passes maxAttempts, and a link to a call *)
(* that exists from the moment the task is in_call.  TaskQueue implements  *)
(* this specification.                                                     *)
(***************************************************************************)
EXTENDS Naturals

CONSTANTS Tasks,        \* the task ids
          MaxAttempts,  \* constraints.maxAttempts
          Calls         \* the ids of the call sessions; 0 is no call

VARIABLES status, attempts, callOf

lifecycleVars == <<status, attempts, callOf>>

TerminalStatus == {"completed", "failed", "cancelled"}

TaskStatus == {"unsubmitted", "queued", "awaiting_approval", "dialing",
               "in_call", "analyzing"} \cup TerminalStatus

\* The TRANSITIONS table, with the submission itself as a first row.
Allowed ==
    [unsubmitted       |-> {"queued"},
     queued            |-> {"awaiting_approval", "dialing", "failed", "cancelled"},
     awaiting_approval |-> {"dialing", "failed", "cancelled"},
     dialing           |-> {"in_call", "queued", "failed", "cancelled"},
     in_call           |-> {"analyzing", "queued", "completed", "failed", "cancelled"},
     analyzing         |-> {"queued", "completed", "failed", "cancelled"},
     completed         |-> {},
     failed            |-> {},
     cancelled         |-> {}]

LInit ==
    /\ status = [t \in Tasks |-> "unsubmitted"]
    /\ attempts = [t \in Tasks |-> 0]
    /\ callOf = [t \in Tasks |-> 0]

-----------------------------------------------------------------------------
\* The runner makes some moves of the table back to back, without waiting for
\* anything in between: an approved dial is answered (awaiting_approval,
\* dialing, in_call), and the call may already be over by then (analyzing).
Observed ==
    [Allowed EXCEPT !.awaiting_approval = @ \cup {"in_call", "analyzing"},
                    !.dialing = @ \cup {"analyzing"}]

\* A task moves along the table, or stays in the queue having used up an
\* attempt.  It is back in the queue only while attempts are left, a dial counts
\* as an attempt before it can lead to a call, and from in_call on the task names
\* the call it is about.
Move(t) ==
    /\ \E s \in Observed[status[t]] \cup ({"queued"} \cap {status[t]}) :
          status' = [status EXCEPT ![t] = s]
    /\ \E n \in {attempts[t], attempts[t] + 1} \cap (0 .. MaxAttempts) :
          attempts' = [attempts EXCEPT ![t] = n]
    /\ status[t] # "unsubmitted" /\ status'[t] = "queued"
          => attempts'[t] < MaxAttempts
    /\ status[t] = "awaiting_approval" /\ status'[t] \notin {"failed", "cancelled"}
          => attempts'[t] = attempts[t] + 1
    /\ \E c \in Calls \cup {0} : callOf' = [callOf EXCEPT ![t] = c]
    /\ status'[t] \in {"in_call", "analyzing", "completed"} => callOf'[t] # 0

LNext == \E t \in Tasks : Move(t)

LSpec == LInit /\ [][LNext]_lifecycleVars
=============================================================================
