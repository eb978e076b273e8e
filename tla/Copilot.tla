------------------------------ MODULE Copilot ------------------------------
(***************************************************************************)
(* The in-call copilot of one call, in transcript mode: the session that   *)
(* gives the caller's words to a thread of the Codex app-server turn by    *)
(* turn (main/copilot/session.ts), the executor its tools run in           *)
(* (tool-executor.ts), and the end_call tool (call-control/tools.ts).      *)
(* There are two tools: "write", which needs an approval, and "end"; a     *)
(* turn calls each at most once, one after the other, always with the same *)
(* arguments, so the executor's cache has one entry per tool.              *)
(***************************************************************************)
EXTENDS Naturals, FiniteSets

CONSTANTS MaxWords,   \* bound: final transcripts of the caller
          MaxCalls    \* policy.maxToolCallsPerTurn

Words == 1..MaxWords
Turns == 1..MaxWords
Calls == Turns \X {"write", "end"}
NoCall == <<0, "none">>

VARIABLES session,   \* none, starting, ready, off (not started), over
          said,      \* transcripts so far
          pending,   \* pendingTranscript: the words in it
          context,   \* transcriptContext
          gen,       \* generation
          drain,     \* where drain() awaits: its turn, generation and input
          turns,     \* what the session knows of each turn
          asked,     \* history: the words startTurn was called with, per turn
          server,    \* a turn in the app-server: none, asked, running, over
          active,    \* activeTurnId, 0 for none
          control,   \* the call whose AbortController activeTool has
          aborted,   \* calls whose controller was aborted
          waits,     \* <<c, e>>: the tool call c awaits the execution e made
          made,      \* tool calls made
          exec,      \* the execution a call began
          cache,     \* the executor's entry of a tool
          voice,     \* turns whose result is on its way to the voice, and told
          discarded, \* turns audited as copilot.injection.discarded
          ended,     \* endRequested
          hang,      \* the continuation of end_call: no, waiting, asked
          crossed,   \* history: turns whose result was on its way when the caller interrupted
          adrift     \* history: turns whose start the client gave up, which may run
copilotVars == <<session, said, pending, context, gen, drain, turns, asked, server, active, control, aborted, waits,
                 made, exec, cache, voice, discarded, ended, hang, crossed, adrift>>

Unknown == [known |-> FALSE, gen |-> 0, input |-> {}, calls |-> 0, cut |-> FALSE, completed |-> FALSE,
            text |-> FALSE, mute |-> FALSE, given |-> FALSE]
Idle == [pc |-> "idle", turn |-> 0, gen |-> 0, input |-> {}]

Init ==
  /\ session = "none" /\ said = 0 /\ pending = {} /\ context = {} /\ gen = 0 /\ drain = Idle
  /\ turns = [t \in Turns |-> Unknown] /\ asked = [t \in Turns |-> {}] /\ server = [t \in Turns |-> "none"] /\ active = 0
  /\ control = NoCall /\ aborted = {} /\ waits = {} /\ made = {} /\ exec = [c \in Calls |-> "none"]
  /\ cache = [k \in {"write", "end"} |-> NoCall] /\ voice = [way |-> {}, told |-> {}] /\ discarded = {}
  /\ ended = FALSE /\ hang = "no" /\ crossed = {} /\ adrift = {}

toolVars == <<control, aborted, waits, made, exec, cache>>
endVars == <<ended, hang>>
Current(t) == ~turns[t].cut /\ turns[t].gen = gen
Known(t, g, input) == [turns EXCEPT ![t] = IF @.known THEN @ ELSE [Unknown EXCEPT !.known = TRUE, !.gen = g, !.input = input]]

(***************************************************************************)
(* drain: the loop that gives what is pending to the next turn              *)
(***************************************************************************)
NextTurn == Cardinality({t \in Turns : server[t] # "none"}) + 1
\* The head of the loop, with p pending in generation g.
Looped(p, g) ==
  IF p = {} THEN drain' = Idle /\ pending' = {} /\ UNCHANGED <<asked, server>>
  ELSE /\ drain' = [pc |-> "asking", turn |-> NextTurn, gen |-> g, input |-> p]
       /\ pending' = {} /\ asked' = [asked EXCEPT ![NextTurn] = p]
       /\ server' = [server EXCEPT ![NextTurn] = "asked"]
\* drain() is called; it is one loop at a time, and needs the thread.
Drained(p, g) ==
  IF drain.pc = "idle" /\ session = "ready" THEN Looped(p, g)
  ELSE pending' = p /\ UNCHANGED <<drain, asked, server>>
\* Those who wait for the turn t to complete go on.
Resumed(t, p, g) ==
  IF drain.pc = "waiting" /\ drain.turn = t THEN Looped(p, g)
  ELSE pending' = p /\ UNCHANGED <<drain, asked, server>>

(***************************************************************************)
(* The call's events                                                        *)
(***************************************************************************)
CallStarted ==
  /\ session = "none" /\ session' \in {"starting", "off"}
  /\ UNCHANGED <<said, pending, context, gen, drain, turns, asked, server, active, toolVars, voice, discarded, endVars, crossed, adrift>>
ThreadReady ==
  /\ session = "starting" /\ session' = "ready" /\ Looped(pending, gen)
  /\ UNCHANGED <<said, context, gen, turns, active, toolVars, voice, discarded, endVars, crossed, adrift>>
StartFails ==
  /\ session = "starting" /\ session' = "off"
  /\ UNCHANGED <<said, pending, context, gen, drain, turns, asked, server, active, toolVars, voice, discarded, endVars, crossed, adrift>>

Interrupts == active # 0 /\ turns[active].known /\ turns[active].calls > 0 /\ ~turns[active].given
\* Mutant: only the newest words are asked again
Interrupted_forgets(t, w) ==
  LET all == pending \cup {w} IN
  /\ turns' = [turns EXCEPT ![t].cut = TRUE] /\ gen' = gen + 1 /\ active' = 0
  /\ aborted' = aborted \cup ({control} \ {NoCall}) /\ control' = NoCall
  /\ context' = all
  /\ discarded' = IF turns[t].text THEN discarded \cup {t} ELSE discarded
  /\ crossed' = crossed \cup voice.way
  /\ IF drain.pc = "idle" THEN Drained(all, gen + 1) ELSE Resumed(t, all, gen + 1)
\* interruptForTranscript: the turn is cut off, its tool is aborted, and what
\* it was asked is asked again together with the new words w.
Interrupted(t, w) ==
  LET all == turns[t].input \cup pending \cup {w} IN
  /\ turns' = [turns EXCEPT ![t].cut = TRUE] /\ gen' = gen + 1 /\ active' = 0
  /\ aborted' = aborted \cup ({control} \ {NoCall}) /\ control' = NoCall
  /\ context' = all
  /\ discarded' = IF turns[t].text THEN discarded \cup {t} ELSE discarded
  /\ crossed' = crossed \cup voice.way
  /\ IF drain.pc = "idle" THEN Drained(all, gen + 1) ELSE Resumed(t, all, gen + 1)
Say ==
  /\ session \in {"starting", "ready", "off"} /\ ~ended /\ said < MaxWords /\ said' = said + 1
  /\ IF Interrupts THEN Interrupted(active, said + 1)
     ELSE /\ context' = context \cup {said + 1} /\ Drained(pending \cup {said + 1}, gen)
          /\ UNCHANGED <<gen, turns, active, control, aborted, discarded, crossed>>
  /\ UNCHANGED <<session, waits, made, exec, cache, voice, endVars, adrift>>

\* call.ended: dispose.  Everybody who waits for a turn of the voice goes on,
\* the continuation of end_call too.
Dispose ==
  /\ session # "over" /\ session' = "over" /\ gen' = gen + 1 /\ pending' = {} /\ drain' = Idle
  /\ aborted' = aborted \cup ({control} \ {NoCall}) /\ control' = NoCall /\ active' = 0
  /\ hang' = IF hang = "waiting" THEN "asked" ELSE hang
  /\ UNCHANGED <<said, context, turns, asked, server, waits, made, exec, cache, voice, discarded, ended, crossed, adrift>>

(***************************************************************************)
(* Turns                                                                    *)
(***************************************************************************)
\* turn/started, before or after the answer to startTurn.
TurnStarted(t) ==
  /\ server[t] = "asked" /\ server' = [server EXCEPT ![t] = "running"]
  /\ IF session = "over" \/ turns[t].cut THEN UNCHANGED <<turns, active>>
     ELSE active' = t /\ turns' = Known(t, gen, context)
  /\ UNCHANGED <<session, said, pending, context, gen, drain, asked, toolVars, voice, discarded, endVars, crossed, adrift>>
\* The answer to startTurn: a turn of an older generation is not waited for.
TurnAccepted ==
  /\ drain.pc = "asking"
  /\ IF drain.gen # gen THEN Looped(pending, gen) /\ UNCHANGED <<turns, active>>
     ELSE LET t == drain.turn IN
          /\ turns' = Known(t, drain.gen, drain.input)
          /\ IF turns[t].completed THEN Looped(pending, gen) /\ active' = 0
             ELSE active' = t /\ drain' = [drain EXCEPT !.pc = "waiting"] /\ UNCHANGED <<pending, asked, server>>
  /\ UNCHANGED <<session, said, context, gen, toolVars, voice, discarded, endVars, crossed, adrift>>
\* startTurn throws: the request was refused, or gave up a turn that may run yet.
TurnRefused ==
  /\ drain.pc = "asking"
  /\ \/ /\ adrift' = adrift \cup {drain.turn}
        /\ IF pending # {} THEN Looped(pending, gen) ELSE drain' = Idle /\ UNCHANGED <<pending, asked, server>>
     \/ /\ pending = {} /\ server[drain.turn] = "asked" /\ UNCHANGED <<pending, asked, adrift>>
        /\ server' = [server EXCEPT ![drain.turn] = "over"] /\ drain' = Idle
  /\ UNCHANGED <<session, said, context, gen, turns, active, toolVars, voice, discarded, endVars, crossed>>

\* The end of finishTurn: those who wait for the turn go on.
Finished(t) == Resumed(t, pending, gen) /\ active' = IF active = t THEN 0 ELSE active
\* turn/completed: the result of its tool is told to the voice, unless the
\* agent said NO_ACTION or the caller has spoken since.
TurnCompleted(t) ==
  /\ server[t] = "running" /\ ~turns[t].completed /\ session # "over"
  /\ \A w \in waits : w[1][1] # t
  /\ \E mute \in (IF turns[t].text THEN BOOLEAN ELSE {FALSE}) :
       /\ turns' = [turns EXCEPT ![t].completed = TRUE, ![t].mute = mute]
       /\ IF turns[t].text /\ ~mute /\ Current(t)
          THEN /\ voice' = [voice EXCEPT !.way = @ \cup {t}]
               /\ UNCHANGED <<pending, drain, asked, server, active, discarded>>
          ELSE /\ discarded' = IF turns[t].text /\ ~mute THEN discarded \cup {t} ELSE discarded
               /\ Finished(t) /\ UNCHANGED voice
  /\ UNCHANGED <<session, said, context, gen, toolVars, endVars, crossed, adrift>>
\* appendVoiceText returns: the caller may have spoken meanwhile.
Told(t) ==
  /\ t \in voice.way /\ voice' = [way |-> voice.way \ {t}, told |-> voice.told \cup {t}]
  /\ IF session # "over" /\ Current(t)
     THEN turns' = [turns EXCEPT ![t].given = TRUE] /\ UNCHANGED discarded
     ELSE discarded' = discarded \cup {t} /\ UNCHANGED turns
  /\ Finished(t)
  /\ UNCHANGED <<session, said, context, gen, toolVars, endVars, crossed, adrift>>
NotTold(t) ==
  /\ t \in voice.way /\ voice' = [voice EXCEPT !.way = @ \ {t}] /\ Finished(t)
  /\ UNCHANGED <<session, said, context, gen, turns, toolVars, discarded, endVars, crossed, adrift>>

(***************************************************************************)
(* Tools                                                                    *)
(***************************************************************************)
Refuses(t) == session = "over" \/ ended \/ ~(session = "ready")
              \/ (turns[t].known /\ (~Current(t) \/ turns[t].calls >= MaxCalls))
\* What the calls that await the execution e do with its outcome.
Answered(e, ok) ==
  LET who == {c \in made : <<c, e>> \in waits}
      stale == {c \in who : ~Current(c[1])} IN
  /\ waits' = {w \in waits : w[2] # e}
  /\ control' = IF control \in who THEN NoCall ELSE control
  /\ IF session = "over" THEN UNCHANGED <<turns, discarded>>
     ELSE /\ discarded' = discarded \cup {c[1] : c \in stale}
          /\ turns' = [t \in Turns |-> IF ok /\ \E c \in who \ stale : c[1] = t
                                       THEN [turns[t] EXCEPT !.text = TRUE] ELSE turns[t]]
\* handleToolCall, and execute: an execution of the same tool is shared.
ToolCall(c) ==
  LET t == c[1] k == c[2] IN
  /\ server[t] = "running" /\ c \notin made /\ made' = made \cup {c}
  /\ ~turns[t].completed /\ \A w \in waits : w[1][1] # t
  /\ IF Refuses(t)
     THEN UNCHANGED <<pending, turns, active, control, waits, exec, cache, endVars>>
     ELSE /\ turns' = [Known(t, gen, context) EXCEPT ![t].calls = @ + 1]
          /\ active' = t
          /\ IF k = "end"
             THEN \* automatic, and the answer is there at once
               /\ ended' = TRUE /\ pending' = {} /\ exec' = [exec EXCEPT ![c] = "ok"]
               /\ cache' = [cache EXCEPT ![k] = c] /\ hang' = "waiting" /\ control' = NoCall
               /\ UNCHANGED waits
             ELSE /\ UNCHANGED <<pending, endVars>>
                  /\ IF cache[k] = NoCall
                     THEN /\ exec' = [exec EXCEPT ![c] = "approval"] /\ cache' = [cache EXCEPT ![k] = c]
                          /\ waits' = waits \cup {<<c, c>>} /\ control' = c
                     ELSE /\ UNCHANGED <<exec, cache>>
                          /\ waits' = waits \cup {<<c, cache[k]>>} /\ control' = c
  /\ UNCHANGED <<session, said, context, gen, drain, asked, server, aborted, voice, discarded, crossed, adrift>>
\* A finished execution in the cache answers at once.
CachedAnswer(e) ==
  /\ exec[e] = "ok" /\ (\E w \in waits : w[2] = e) /\ Answered(e, TRUE)
  /\ UNCHANGED <<session, said, pending, context, gen, drain, asked, server, active, aborted, made, exec, cache, voice, endVars, crossed, adrift>>
\* An outcome without success is not kept.
Over(e, outcome) ==
  /\ exec' = [exec EXCEPT ![e] = outcome]
  /\ cache' = IF outcome # "ok" /\ cache[e[2]] = e THEN [cache EXCEPT ![e[2]] = NoCall] ELSE cache
  /\ Answered(e, outcome = "ok")
  /\ UNCHANGED <<session, said, pending, context, gen, drain, asked, server, active, aborted, made, voice, endVars, crossed, adrift>>
\* Denied or expired; or approved, and given up when the caller has spoken since.
Denied(e) == exec[e] = "approval" /\ Over(e, "failed")
Approved(e) ==
  /\ exec[e] = "approval"
  /\ IF e \in aborted THEN Over(e, "failed")
     ELSE /\ exec' = [exec EXCEPT ![e] = "run"]
          /\ UNCHANGED <<session, said, pending, context, gen, drain, turns, asked, server, active, control, aborted, waits,
                         made, cache, voice, discarded, endVars, crossed, adrift>>
\* The tool returns or throws; or its time is over and it goes on unheard.
ToolEnds(e) == exec[e] = "run" /\ \E outcome \in {"ok", "failed", "late"} : Over(e, outcome)

\* turn.done of the voice, or four seconds: phone.hangup, which names no call.
HangUp ==
  /\ hang = "waiting" /\ hang' = "asked"
  /\ UNCHANGED <<session, said, pending, context, gen, drain, turns, asked, server, active, toolVars, voice, discarded, ended, crossed, adrift>>

Next ==
  \/ CallStarted \/ ThreadReady \/ StartFails \/ Say \/ Dispose \/ TurnAccepted \/ TurnRefused \/ HangUp
  \/ \E t \in Turns : TurnStarted(t) \/ TurnCompleted(t) \/ Told(t) \/ NotTold(t)
  \/ \E c \in Calls : ToolCall(c) \/ CachedAnswer(c) \/ Denied(c) \/ Approved(c) \/ ToolEnds(c)

\* Requests, approvals, tools and the hangup have deadlines; that the
\* app-server completes the turns it began is assumed of it.
Fairness ==
  /\ WF_copilotVars(TurnAccepted \/ TurnRefused) /\ WF_copilotVars(HangUp)
  /\ \A t \in Turns : /\ WF_copilotVars(TurnStarted(t)) /\ WF_copilotVars(TurnCompleted(t))
                      /\ WF_copilotVars(Told(t) \/ NotTold(t))
  /\ \A c \in Calls : WF_copilotVars(CachedAnswer(c)) /\ WF_copilotVars(Denied(c) \/ Approved(c)) /\ WF_copilotVars(ToolEnds(c))
Spec == Init /\ [][Next]_copilotVars /\ Fairness

(***************************************************************************)
(* Properties                                                               *)
(***************************************************************************)
\* Every variable has its type.
TypeOK ==
  /\ session \in {"none", "starting", "ready", "off", "over"} /\ said \in 0..MaxWords
  /\ pending \cup context \subseteq Words /\ gen \in 0..MaxWords
  /\ drain \in [pc : {"idle", "asking", "waiting"}, turn : 0..MaxWords, gen : 0..MaxWords, input : SUBSET Words]
  /\ turns \in [Turns -> [known : BOOLEAN, gen : 0..MaxWords, input : SUBSET Words, calls : 0..MaxCalls,
                          cut : BOOLEAN, completed : BOOLEAN, text : BOOLEAN, mute : BOOLEAN, given : BOOLEAN]]
  /\ asked \in [Turns -> SUBSET Words] /\ server \in [Turns -> {"none", "asked", "running", "over"}] /\ active \in 0..MaxWords
  /\ control \in Calls \cup {NoCall} /\ aborted \cup made \subseteq Calls /\ waits \subseteq Calls \X Calls
  /\ exec \in [Calls -> {"none", "approval", "run", "ok", "failed", "late"}]
  /\ cache \in [{"write", "end"} -> Calls \cup {NoCall}]
  /\ voice.way \cup voice.told \cup discarded \cup crossed \cup adrift \subseteq Turns
  /\ ended \in BOOLEAN /\ hang \in {"no", "waiting", "asked"}

\* What an interrupted turn was asked is asked again, or waits to be, until
\* the call is to end.
InterruptedIsReasked ==
  session = "ready" /\ ~ended =>
    \A t \in Turns : turns[t].cut =>
      turns[t].input \subseteq pending \cup UNION {asked[u] : u \in {u \in Turns : u > t}}

\* The result of a tool in a turn the caller interrupted is audited as
\* discarded, unless the agent had withheld it.
ResultAccounted ==
  session = "ready" =>
    \A t \in Turns : turns[t].text /\ turns[t].cut => turns[t].mute \/ t \in discarded

\* A result the audit says was discarded reached the voice only if the caller
\* interrupted while it was on its way, be it this turn or the one after it.
DiscardedIsUnheard == session # "over" => discarded \cap voice.told \subseteq crossed

\* A tool with side effects that succeeded, or runs, is not run again for the
\* same call and arguments, whatever is interrupted and asked again.
RunsOnce == Cardinality({c \in Calls : c[2] = "write" /\ exec[c] \in {"run", "ok"}}) <= 1

\* A tool of a turn the caller interrupted before it was approved does not
\* start, unless a turn runs beside it that the session gave up waiting for.
InterruptedNeverStarts ==
  [][adrift = {} => \A c \in Calls : exec[c] = "approval" /\ exec'[c] = "run" => ~turns[c[1]].cut]_copilotVars

\* No hangup is left to come when the call is over: it could reach the next call.
NoHangupOutlives == session = "over" => hang # "waiting"

\* Words heard while the copilot is ready become part of a turn, although turns
\* are interrupted, refused, or wait for approvals and tools, or the call ends.
WordsReachATurn == \A w \in Words : w \in pending /\ session = "ready" ~> w \notin pending \/ session # "ready"

\* A call that the agent decided to end is hung up, although the voice never finishes its turn.
EndHangsUp == ended ~> hang = "asked"
=============================================================================
