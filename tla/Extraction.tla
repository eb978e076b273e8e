----------------------------- MODULE Extraction -----------------------------
(***************************************************************************)
(* How the analysis of a call asks a model: a thread of the app-server     *)
(* with one turn, whose messages are put together when it completes        *)
(* (main/analysis/backend.ts), for a caller that may have gone             *)
(* (text-model-adapter.ts).  Notifications and the answers to requests     *)
(* arrive in any order; the answer to startTurn may come when its turn is  *)
(* over already.  The retries of an analysis are AnalysisJobs'.            *)
(***************************************************************************)
EXTENDS Naturals

CONSTANT MaxMessages   \* bound: messages of the agent in a turn

VARIABLES pc,         \* runExtraction: idle, thread and turn (awaits), race, ok, failed
          caller,     \* complete(): waiting, answered, failed, aborted
          turn,       \* the turn in the app-server: none, asked, running, over
          said,       \* messages the agent has sent
          heard,      \* messages: those the listener joined
          listening,  \* the listener is subscribed
          completed,  \* completedTurns has the turn
          completion  \* the promise: pending, resolved, rejected
extractVars == <<pc, caller, turn, said, heard, listening, completed, completion>>

Init ==
  /\ pc = "idle" /\ caller = "waiting" /\ turn = "none" /\ said = 0 /\ heard = 0 /\ listening = FALSE
  /\ completed = FALSE /\ completion = "pending"

(***************************************************************************)
(* The requests                                                             *)
(***************************************************************************)
\* What follows is in a `finally`, but a caller that has gone is not told.
Told(outcome) == caller' = IF caller = "waiting" THEN outcome ELSE caller
Fails == pc' = "failed" /\ listening' = FALSE /\ Told("failed")
Begin ==
  /\ pc = "idle" /\ caller = "waiting" /\ pc' = "thread"
  /\ UNCHANGED <<caller, turn, said, heard, listening, completed, completion>>
ThreadMade ==
  /\ pc = "thread" /\ pc' = "turn" /\ listening' = TRUE /\ turn' = "asked"
  /\ UNCHANGED <<caller, said, heard, completed, completion>>
\* Refused, given up, or the process is gone.
ThreadFails == pc = "thread" /\ Fails /\ UNCHANGED <<turn, said, heard, completed, completion>>
Settled(value) == completion' = IF completion = "pending" THEN value ELSE completion
\* Mutant: the answer to startTurn is taken for the end of the turn
TurnAnswered_early ==
  /\ pc = "turn" /\ pc' = "race" /\ Settled("resolved")
  /\ UNCHANGED <<caller, turn, said, heard, listening, completed>>
\* Now the turn is known, which may have completed; and the time runs.
TurnAnswered ==
  /\ pc = "turn" /\ pc' = "race"
  /\ IF completed THEN Settled("resolved") ELSE UNCHANGED completion
  /\ UNCHANGED <<caller, turn, said, heard, listening, completed>>
TurnFails == pc = "turn" /\ Fails /\ UNCHANGED <<turn, said, heard, completed, completion>>

(***************************************************************************)
(* The turn, and what the listener does                                     *)
(***************************************************************************)
TurnRuns ==
  /\ turn = "asked" /\ turn' = "running"
  /\ UNCHANGED <<pc, caller, said, heard, listening, completed, completion>>
Message ==
  /\ turn = "running" /\ said < MaxMessages /\ said' = said + 1
  /\ heard' = IF listening THEN heard + 1 ELSE heard
  /\ UNCHANGED <<pc, caller, turn, listening, completed, completion>>
\* Mutant: a turn that completes before its request is answered is forgotten
TurnOver_unnoted ==
  /\ turn = "running" /\ turn' = "over" /\ UNCHANGED completed
  /\ IF listening /\ pc = "race" THEN Settled("resolved") ELSE UNCHANGED completion
  /\ UNCHANGED <<pc, caller, said, heard, listening>>
\* turn/completed, whatever became of the turn.
TurnOver ==
  /\ turn = "running" /\ turn' = "over" /\ completed' = (completed \/ listening)
  /\ IF listening /\ pc = "race" THEN Settled("resolved") ELSE UNCHANGED completion
  /\ UNCHANGED <<pc, caller, said, heard, listening>>
\* An error notification, of which the turn need not end.
Errors ==
  /\ turn \in {"asked", "running"} /\ listening /\ Settled("rejected")
  /\ UNCHANGED <<pc, caller, turn, said, heard, listening, completed>>

(***************************************************************************)
(* The end                                                                  *)
(***************************************************************************)
\* The race is over; a turn without a message is an error.
Settles ==
  /\ pc = "race" /\ completion # "pending"
  /\ IF completion = "resolved" /\ heard > 0 THEN pc' = "ok" /\ listening' = FALSE /\ Told("answered") ELSE Fails
  /\ UNCHANGED <<turn, said, heard, completed, completion>>
\* Mutant: the time limit goes with the caller.
TimesOut_waiting ==
  /\ pc = "race" /\ completion = "pending" /\ caller = "waiting" /\ Fails
  /\ UNCHANGED <<turn, said, heard, completed, completion>>
TimesOut ==
  /\ pc = "race" /\ completion = "pending" /\ Fails
  /\ UNCHANGED <<turn, said, heard, completed, completion>>
\* The caller's signal: the extraction goes on without it.
Abort ==
  /\ pc \in {"idle", "thread", "turn", "race"} /\ caller = "waiting" /\ caller' = "aborted"
  /\ UNCHANGED <<pc, turn, said, heard, listening, completed, completion>>

Next ==
  \/ Begin \/ ThreadMade \/ ThreadFails \/ TurnAnswered \/ TurnFails
  \/ TurnRuns \/ Message \/ TurnOver \/ Errors \/ Settles \/ TimesOut \/ Abort

\* Requests have a limit, which is not that of the turn.  Of the app-server
\* nothing is assumed but that what it does in a turn ends.
Fairness ==
  /\ WF_extractVars(ThreadMade \/ ThreadFails) /\ WF_extractVars(TurnAnswered \/ TurnFails)
  /\ WF_extractVars(Settles) /\ WF_extractVars(TimesOut)
Spec == Init /\ [][Next]_extractVars /\ Fairness

(***************************************************************************)
(* Properties                                                               *)
(***************************************************************************)
\* Every variable has its type.
TypeOK ==
  /\ pc \in {"idle", "thread", "turn", "race", "ok", "failed"} /\ caller \in {"waiting", "answered", "failed", "aborted"}
  /\ turn \in {"none", "asked", "running", "over"} /\ said \in 0..MaxMessages /\ heard \in 0..said
  /\ listening \in BOOLEAN /\ completed \in BOOLEAN /\ completion \in {"pending", "resolved", "rejected"}

\* What the analysis is given is all the agent said in a turn that is over.
AnswerIsWhole == pc = "ok" => turn = "over" /\ heard = said /\ said > 0

\* A caller waits for its extraction only as long as that goes on, and no
\* listener is left when it is over.
NothingIsLeft == pc \in {"ok", "failed"} => caller # "waiting" /\ ~listening

\* An extraction ends, although the turn completes before it is known, after an
\* error, or never.
ExtractionEnds == pc = "thread" ~> pc \in {"ok", "failed"}

\* A turn that is over is not waited for until the time runs out, in whatever
\* order the answer to its request and its end came.
OverIsNoticed == pc = "race" /\ turn = "over" => completion # "pending"
=============================================================================
