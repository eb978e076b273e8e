---------------------------- MODULE ToolRequests ----------------------------
(***************************************************************************)
(* The tools that the app-server asks the application to run, and whose    *)
(* they are (main/copilot/index.ts, codex/app-server-client.ts; in mock    *)
(* mode copilot/runner.ts is the app-server).  Every call may have a       *)
(* copilot session: one in transcript mode has a thread of its own, one in *)
(* delegation mode serves the thread of the voice, which it is told when   *)
(* the call starts, or learns from the first request that no session owns. *)
(* What a session does inside a turn is Copilot's; here it may refuse.     *)
(***************************************************************************)
EXTENDS Naturals, FiniteSets

CONSTANTS MaxSessions,  \* bound: calls, numbered as they start
          MaxAsked      \* bound: tool requests of a thread

Calls == 1..MaxSessions
Threads == Calls \X {"voice", "own"}
NoThread == <<0, "none">>
Requests == Threads \X (1..MaxAsked)

VARIABLES mock,      \* ctx.isMock: the backend is MockCopilotBackend
          call,      \* none, on, over
          mode,      \* what the call's policy asks for: delegation, transcript, or off
          named,     \* delegation calls whose first report had the thread of the voice
          threads,   \* threads there are in the app-server
          live,      \* the calls in `sessions`
          bound,     \* CopilotSession.threadId
          asked,     \* each request: none, asked, running for a call, unheard, over; its call and answer
          handler    \* the client has a dynamicToolHandler
toolVars == <<mock, call, mode, named, threads, live, bound, asked, handler>>

Unasked == [pc |-> "none", call |-> 0, answer |-> "none"]
Init ==
  /\ mock \in BOOLEAN /\ call = [c \in Calls |-> "none"] /\ mode = [c \in Calls |-> "off"] /\ named = {}
  /\ threads = {} /\ live = {} /\ bound = [c \in Calls |-> NoThread] /\ asked = [r \in Requests |-> Unasked]
  /\ handler = TRUE

(***************************************************************************)
(* Calls, their sessions and their threads                                  *)
(***************************************************************************)
\* call.started: a call without a campaign, with a policy that is not enabled,
\* or in delegation mode on the realtime API, has no session.
Start(c) ==
  /\ handler /\ call[c] = "none" /\ \A d \in 1..(c - 1) : call[d] # "none"
  /\ call' = [call EXCEPT ![c] = "on"]
  /\ \E m \in {"delegation", "transcript", "off"}, known \in BOOLEAN :
       /\ known => (m = "delegation" /\ <<c, "voice">> \in threads)
       /\ mode' = [mode EXCEPT ![c] = m] /\ live' = IF m = "off" THEN live ELSE live \cup {c}
       /\ named' = IF known THEN named \cup {c} ELSE named
       /\ bound' = IF known THEN [bound EXCEPT ![c] = <<c, "voice">>] ELSE bound
  /\ UNCHANGED <<mock, threads, asked, handler>>
\* The thread of the voice, made with tools: delegationThreadOptions goes by
\* the campaign of the active call, or before there is one by that selected.
VoiceBegins(c) ==
  /\ ~mock /\ call[c] # "over" /\ <<c, "voice">> \notin threads
  /\ call[c] = "on" => (mode[c] = "delegation" \/ \E d \in Calls \ {c} : call[d] = "on")
  /\ threads' = threads \cup {<<c, "voice">>}
  /\ UNCHANGED <<mock, call, mode, named, live, bound, asked, handler>>
\* startThread of a session in transcript mode returns; a session that ended
\* meanwhile leaves the thread alone.
ThreadMade(c) ==
  /\ mode[c] = "transcript" /\ call[c] # "none" /\ <<c, "own">> \notin threads
  /\ threads' = threads \cup {<<c, "own">>}
  /\ bound' = IF c \in live THEN [bound EXCEPT ![c] = <<c, "own">>] ELSE bound
  /\ UNCHANGED <<mock, call, mode, named, live, asked, handler>>
\* Mutant: the session of a call that ended is kept
End_kept(c) ==
  /\ handler /\ call[c] = "on" /\ call' = [call EXCEPT ![c] = "over"]
  /\ UNCHANGED <<mock, mode, named, threads, live, bound, asked, handler>>
\* call.ended: the session is taken out of the map, and disposed of.
End(c) ==
  /\ handler /\ call[c] = "on" /\ call' = [call EXCEPT ![c] = "over"]
  /\ live' = live \ {c} /\ bound' = [bound EXCEPT ![c] = NoThread]
  /\ UNCHANGED <<mock, mode, named, threads, asked, handler>>
\* The module is disposed of with the application.
Quit ==
  /\ handler /\ handler' = FALSE /\ live' = {} /\ bound' = [c \in Calls |-> NoThread]
  /\ UNCHANGED <<mock, call, mode, named, threads, asked>>

(***************************************************************************)
(* Requests                                                                 *)
(***************************************************************************)
First(calls) == CHOOSE c \in calls : \A d \in calls : c <= d
Owners(t) == {c \in live : bound[c] = t}
\* Mutant: any session in delegation mode takes a thread that nobody owns
CanBind_any == {c \in live : mode[c] = "delegation"}
\* canBindDelegationThread
CanBind == {c \in live : mode[c] = "delegation" /\ bound[c] = NoThread}
Refused(r) == asked' = [asked EXCEPT ![r] = [pc |-> "over", call |-> 0, answer |-> "failed"]]
\* The session of the call c is given the request, and runs it or refuses.
Given(r, c) ==
  \/ asked' = [asked EXCEPT ![r] = [pc |-> "running", call |-> c, answer |-> "none"]]
  \/ Refused(r)
\* The agent in the thread t calls a tool: in mock mode, in a turn that
\* startTurn has queued; a turn may go on when its call is over.
Ask(r) ==
  /\ r[1] \in threads /\ asked[r].pc = "none" /\ \A n \in 1..(r[2] - 1) : asked[<<r[1], n>>].answer # "none"
  /\ asked' = [asked EXCEPT ![r].pc = "asked"]
  /\ UNCHANGED <<mock, call, mode, named, threads, live, bound, handler>>
\* The request arrives.
Route(r) ==
  /\ asked[r].pc = "asked"
  /\ IF ~handler THEN Refused(r) /\ UNCHANGED bound
     ELSE IF Owners(r[1]) # {} THEN Given(r, First(Owners(r[1]))) /\ UNCHANGED bound
     ELSE IF CanBind = {} THEN Refused(r) /\ UNCHANGED bound
     ELSE bound' = [bound EXCEPT ![First(CanBind)] = r[1]] /\ Given(r, First(CanBind))
  /\ UNCHANGED <<mock, call, mode, named, threads, live, handler>>
\* Mutant: what the tool returned is the answer, whatever was answered
Returns_again(r) ==
  /\ asked[r].pc \in {"running", "unheard"}
  /\ \E ok \in BOOLEAN :
       /\ ok => asked[r].call \in live
       /\ asked' = [asked EXCEPT ![r].pc = "over", ![r].answer = IF ok THEN "ok" ELSE "failed"]
  /\ UNCHANGED <<mock, call, mode, named, threads, live, bound, handler>>
\* handleToolCall returns: of a session that was disposed of, a failure.  The
\* race was lost when the request was answered before.
Returns(r) ==
  /\ asked[r].pc \in {"running", "unheard"}
  /\ \E ok \in BOOLEAN :
       /\ ok => asked[r].call \in live
       /\ asked' = [asked EXCEPT ![r].pc = "over",
                                 ![r].answer = IF @ # "none" THEN @ ELSE IF ok THEN "ok" ELSE "failed"]
  /\ UNCHANGED <<mock, call, mode, named, threads, live, bound, handler>>
\* The client gives up; the tool goes on.  The mock has no limit.
TimesOut(r) ==
  /\ ~mock /\ asked[r].pc = "running" /\ asked' = [asked EXCEPT ![r].pc = "unheard", ![r].answer = "failed"]
  /\ UNCHANGED <<mock, call, mode, named, threads, live, bound, handler>>

Next ==
  \/ \E c \in Calls : Start(c) \/ VoiceBegins(c) \/ ThreadMade(c) \/ End(c)
  \/ \E r \in Requests : Ask(r) \/ Route(r) \/ Returns(r) \/ TimesOut(r)
  \/ Quit

\* Requests are delivered; the client has a limit, and in mock mode the tools return.
Fairness ==
  /\ \A r \in Requests : WF_toolVars(Route(r)) /\ WF_toolVars(TimesOut(r))
  /\ mock => \A r \in Requests : WF_toolVars(Returns(r))
Spec == Init /\ [][Next]_toolVars /\ Fairness

(***************************************************************************)
(* Properties                                                               *)
(***************************************************************************)
\* Every variable has its type.
TypeOK ==
  /\ mock \in BOOLEAN /\ call \in [Calls -> {"none", "on", "over"}] /\ mode \in [Calls -> {"delegation", "transcript", "off"}]
  /\ named \cup live \subseteq Calls /\ threads \subseteq Threads /\ bound \in [Calls -> Threads \cup {NoThread}]
  /\ asked \in [Requests -> [pc : {"none", "asked", "running", "unheard", "over"}, call : 0..MaxSessions,
                             answer : {"none", "ok", "failed"}]]
  /\ handler \in BOOLEAN

\* A tool runs for the call whose agent asked for it, but for a call in
\* delegation mode that was not told its thread: it takes the first request
\* that nobody owns, which may be of the call before it.
RunsForItsCall ==
  \A r \in Requests : LET c == asked[r].call IN
    c # 0 => r[1][1] = c \/ (mode[c] = "delegation" /\ c \notin named)

\* No tool is begun for a call that is over, whoever asks late.
NothingAfterTheEnd ==
  [][\A r \in Requests : asked'[r].pc = "running" /\ asked[r].pc # "running" => call[asked'[r].call] = "on"]_toolVars

\* The agent is answered once: what a tool does after its request was given up
\* does not change what the agent was told.
AnswerStands == [][\A r \in Requests : asked[r].answer # "none" => asked'[r].answer = asked[r].answer]_toolVars

\* The agent is always answered: tools that hang, calls that end and the quit
\* of the application included.
AgentIsAnswered == \A r \in Requests : asked[r].pc = "asked" ~> asked[r].answer # "none"
=============================================================================
