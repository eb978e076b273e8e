-------------------------------- MODULE Cli ---------------------------------
(***************************************************************************)
(* Invocations of the command-line client (apps/cli/mishu.mjs) against an  *)
(* application that may stop, rotate its token, refuse, or lose an answer. *)
(* An invocation resolves its connection, checks its options, sends one    *)
(* request after the other and exits with a code; --wait follows the call  *)
(* or the task to its end.  Who gets a code reads it and may invoke again. *)
(***************************************************************************)
EXTENDS Naturals

CONSTANT MaxRuns   \* bound: invocations

\* One request that reads, or that changes something.
Reads == {"read"}
Changes == {"change"}
\* call, task submit, task wait, call recording, call get --transcript.
Kinds == {"call", "submit", "wait", "recording", "pair"} \cup Reads \cup Changes
\* What is wrong with the options: an argument or a file, the time limit, the
\* interval of the polls in the environment.
Faults == {"none", "arguments", "timeout", "interval"}
Codes == {"OK", "APP_UNAVAILABLE", "NETWORK", "AUTH", "API", "USAGE", "TIMEOUT"}
Posts(c) == c.kind \in {"call", "submit"}
Follows(c) == c.kind = "wait" \/ (Posts(c) /\ c.waits)

VARIABLES
  cmd,      \* the command: its kind, --wait, what is wrong with it, whether the endpoint is discovered
  app,      \* the application: up, rotated (it has a token the command does not know), down
  made,     \* calls and tasks made, and changes carried out, so far
  thing,    \* the one the command is about: none, approval (asked for), open, over
  step,     \* start, first, second, poll, write, pause, done
  req,      \* the request: none, sent, its answer (ok, error, unauthorized), how it failed (refused, lost, cut)
  late,     \* the deadline is past
  code,     \* the exit code
  shown,    \* what the document on stdout says of the thing: nothing, approval, open, over
  before,   \* made, when the invocation began
  runs,     \* invocations so far
  file      \* the recording was written
cliVars == <<cmd, app, made, thing, step, req, late, code, shown, before, runs, file>>

Init ==
  /\ cmd \in [kind : Kinds, waits : BOOLEAN, fault : Faults, local : BOOLEAN]
  /\ cmd.waits => Posts(cmd)
  /\ cmd.fault = "timeout" => cmd.kind \in {"call", "submit", "wait"}
  /\ cmd.fault = "interval" => Follows(cmd)
  /\ app \in {"up", "down"} /\ made = 0 /\ thing \in (IF cmd.kind = "wait" THEN {"open", "over"} ELSE {"none"})
  /\ step = "done" /\ req = "none" /\ late = FALSE /\ code = "none" /\ shown = "none"
  /\ before = 0 /\ runs = 0 /\ file = FALSE

world == <<cmd, app, made, thing, before, runs>>
Exit(c) == step' = "done" /\ code' = c /\ req' = "none" /\ UNCHANGED <<late, shown, file>>
Prints(what) == step' = "done" /\ code' = "OK" /\ req' = "none" /\ shown' = what /\ UNCHANGED <<late, file>>
Ask(s) == step' = s /\ req' = "sent" /\ UNCHANGED <<late, code, shown, file>>

(***************************************************************************)
(* The invocation                                                           *)
(***************************************************************************)
\* What the options are checked for before the first request.  The time limit
\* of task submit is read after it, as is the interval of the polls of call.
Early == {"arguments"} \cup (IF cmd.kind = "submit" THEN {} ELSE {"timeout"}) \cup (IF cmd.kind = "wait" THEN {"interval"} ELSE {})
\* resolveConnection, then runCommand up to its first request.
Begin ==
  /\ step = "start" /\ UNCHANGED world
  /\ \/ cmd.local /\ app = "down" /\ Exit("APP_UNAVAILABLE")
     \/ cmd.fault \in Early /\ Exit("USAGE")
     \/ cmd.fault \notin Early /\ Ask(IF cmd.kind = "wait" THEN "poll" ELSE "first")

\* Mutant: a request that fails is sent again, under a key of its own.
Failed_resent ==
  /\ req \in {"refused", "lost", "cut", "error", "unauthorized"} /\ UNCHANGED world
  /\ IF req = "lost" THEN Ask(step)
     ELSE Exit(IF req = "refused" THEN (IF cmd.local THEN "APP_UNAVAILABLE" ELSE "NETWORK") ELSE IF req = "unauthorized" THEN "AUTH" ELSE "API")
\* request: a refused or reset connection to a discovered application says that
\* it is gone; a body that breaks off is no error of the client's own.
Failed ==
  /\ req \in {"refused", "lost", "cut", "error", "unauthorized"} /\ UNCHANGED world
  /\ Exit(CASE req = "refused" /\ cmd.local -> "APP_UNAVAILABLE"
            [] req = "lost" \/ (req = "refused" /\ ~cmd.local) -> "NETWORK"
            [] req = "unauthorized" -> "AUTH"
            [] OTHER -> "API")
Answered(s) == step = s /\ req = "ok" /\ UNCHANGED world

\* createCall and submitTask after their POST, getCall after its first GET, and
\* every command of one request.
FirstAnswered ==
  /\ Answered("first")
  /\ IF cmd.kind = "call" /\ thing = "approval" THEN Prints("approval")
     ELSE IF Posts(cmd) /\ ~cmd.waits THEN Prints("open")
     ELSE \/ Follows(cmd) /\ cmd.fault # "none" /\ Exit("USAGE")
          \/ Follows(cmd) /\ cmd.fault = "none" /\ Ask("poll")
          \/ cmd.kind = "pair" /\ Ask("second")
          \/ cmd.kind = "recording" /\ step' = "write" /\ req' = "none" /\ UNCHANGED <<late, code, shown, file>>
          \/ cmd.kind \in Reads \cup Changes /\ Prints("none")
\* The transcript of a call.
SecondAnswered == Answered("second") /\ Prints(IF cmd.kind = "call" THEN "over" ELSE "none")
\* downloadRecording, with its bytes.
Write ==
  /\ step = "write" /\ UNCHANGED world
  /\ \/ step' = "done" /\ code' = "OK" /\ file' = TRUE /\ UNCHANGED <<req, late, shown>>
     \/ Exit("API")

\* Mutant: the end is looked for only while there is time.
PollAnswered_late ==
  /\ Answered("poll")
  /\ IF thing = "over" /\ ~late THEN Prints("over")
     ELSE step' = "pause" /\ req' = "none" /\ UNCHANGED <<late, code, shown, file>>
\* waitForCall and waitForTask: what is over when the answer comes is returned,
\* however late that is, a call with its transcript.
PollAnswered ==
  /\ Answered("poll")
  /\ IF thing = "over" THEN (IF cmd.kind = "call" THEN Ask("second") ELSE Prints("over"))
     ELSE step' = "pause" /\ req' = "none" /\ UNCHANGED <<late, code, shown, file>>
\* The pause between polls, after which the deadline is looked at.
Pause ==
  /\ step = "pause" /\ UNCHANGED world
  /\ IF late THEN Exit("TIMEOUT") ELSE Ask("poll")
Expire == step \in {"poll", "pause"} /\ Follows(cmd) /\ ~late /\ late' = TRUE
          /\ UNCHANGED <<world, step, req, code, shown, file>>

\* The command is invoked, or invoked again: discovery reads the token anew.
Invoke ==
  /\ step = "done" /\ runs < MaxRuns /\ runs' = runs + 1 /\ before' = made
  /\ step' = "start" /\ late' = FALSE /\ code' = "none" /\ shown' = "none" /\ file' = FALSE
  /\ thing' = (IF Posts(cmd) THEN "none" ELSE thing)
  /\ app' = (IF app = "rotated" THEN "up" ELSE app)
  /\ UNCHANGED <<cmd, made, req>>

(***************************************************************************)
(* The application and the connection to it                                 *)
(***************************************************************************)
client == <<cmd, step, late, code, shown, before, runs, file>>
\* A POST that is accepted makes a task, or a call that may need an approval.
Serve ==
  /\ req = "sent" /\ app = "up" /\ UNCHANGED <<client, app>>
  /\ \/ req' = "error" /\ UNCHANGED <<made, thing>>
     \/ req' = "ok" /\ (IF step = "first" /\ Posts(cmd)
          THEN made' = made + 1 /\ thing' \in (IF cmd.kind = "call" THEN {"open", "approval"} ELSE {"open"})
          ELSE UNCHANGED thing /\ made' = IF cmd.kind \in Changes THEN made + 1 ELSE made)
Deny == req = "sent" /\ app = "rotated" /\ req' = "unauthorized" /\ UNCHANGED <<client, app, made, thing>>
\* Nobody listens, the connection is reset, the time limit of the request
\* passes, or its body breaks off, with the request carried out or not.
Break ==
  /\ \/ req = "sent" /\ app = "down" /\ req' = "refused"
     \/ req = "sent" /\ req' = "lost"
     \/ req = "ok" /\ req' \in {"refused", "lost", "cut"}
  /\ UNCHANGED <<client, app, made, thing>>
Ends ==
  /\ thing \in {"approval", "open"}
  /\ thing' = IF thing = "approval" THEN "open" ELSE "over"
  /\ UNCHANGED <<client, app, made, req>>
Stop == app # "down" /\ app' = "down" /\ UNCHANGED <<client, req, made, thing>>
Rotate == app = "up" /\ app' = "rotated" /\ UNCHANGED <<client, req, made, thing>>

Proceed == Begin \/ Failed \/ FirstAnswered \/ SecondAnswered \/ Write \/ PollAnswered \/ Pause
Next == Proceed \/ Invoke \/ Expire \/ Serve \/ Deny \/ Break \/ Ends \/ Stop \/ Rotate
\* The client runs on, a request has a time limit (AbortSignal.timeout), and the
\* deadline of a wait passes.
Fairness ==
  /\ WF_cliVars(Proceed) /\ WF_cliVars(Expire)
  /\ WF_cliVars(Serve \/ Deny \/ Break)
Spec == Init /\ [][Next]_cliVars /\ Fairness

(***************************************************************************)
(* Properties                                                               *)
(***************************************************************************)
\* Every variable has its type.
TypeOK ==
  /\ cmd \in [kind : Kinds, waits : BOOLEAN, fault : Faults, local : BOOLEAN]
  /\ app \in {"up", "rotated", "down"} /\ thing \in {"none", "approval", "open", "over"}
  /\ step \in {"start", "first", "second", "poll", "write", "pause", "done"}
  /\ req \in {"none", "sent", "ok", "error", "unauthorized", "refused", "lost", "cut"}
  /\ code \in Codes \cup {"none"} /\ shown \in {"none", "approval", "open", "over"}
  /\ {late, file} \subseteq BOOLEAN /\ {made, before, runs} \subseteq 0..MaxRuns

\* Whatever fails, an invocation makes one call, task or change at most, and a code
\* that tells of the command (6) says that it made none, unless what was wrong
\* was looked at after the request.
OnePerRun ==
  /\ made - before \in {0, 1}
  /\ code = "USAGE" /\ cmd.fault \in Early => made = before

\* What is printed as a success is one: a command that waits has an end to
\* show or an approval to ask for, a download its file, and exit 7 means that
\* there is something to wait for and that its time was up.
CodesAreTrue ==
  /\ code = "OK" /\ Follows(cmd) => shown \in {"over", "approval"} /\ (shown = "over" => thing = "over")
  /\ code = "OK" /\ (Posts(cmd) \/ cmd.kind \in Changes) => made = before + 1
  /\ code = "OK" /\ cmd.kind = "recording" => file
  /\ code = "TIMEOUT" => late /\ Follows(cmd) /\ (Posts(cmd) => made = before + 1)

\* A wait whose call or task is over when an answer tells it so does not end as
\* a timeout.
EndIsTaken == [][step = "poll" /\ req = "ok" /\ thing = "over" => step' # "pause"]_cliVars

\* Every invocation exits, with the application there or not.
Exits == step = "start" ~> step = "done"
=============================================================================
