------------------------------ MODULE LiveLink ------------------------------
(***************************************************************************)
(* The renderer's end of a voice session (services/gpt-live-session.ts): a *)
(* peer connection, and the session of the main process it is for.  start  *)
(* and stop await several times and may overlap; a start that fails stops  *)
(* what there is.  Stops are numbered by who asked: 0 for the controller,  *)
(* s for the start s.  main is the peer whose session the main process     *)
(* keeps, 0 for none.                                                       *)
(***************************************************************************)
EXTENDS Naturals

CONSTANTS MaxPeers,   \* bound: peer connections made
          MaxGen      \* bound: starts and stops begun

Starts == {1, 2}
Owners == {0} \cup Starts

VARIABLES setting,   \* the provider the settings name
          gen,       \* generation
          provider,  \* provider: none, codex, api
          peer,      \* the current peer connection
          made,      \* peers made
          status,    \* connection.status
          starts,    \* where each start awaits
          stops,     \* where each stop awaits: before or after the peer is let go
          main,      \* the session of the main process
          refused,   \* history: the main process failed to stop a session
          overtaken  \* history: a start that was overtaken has written provider
linkVars == <<setting, gen, provider, peer, made, status, starts, stops, main, refused, overtaken>>

IdleStart == [pc |-> "none", gen |-> 0, peer |-> 0]
Init ==
  /\ setting \in {"codex", "api"} /\ gen = 0 /\ provider = "none" /\ peer = 0 /\ made = 0
  /\ status = "idle" /\ starts = [s \in Starts |-> IdleStart] /\ stops = [o \in Owners |-> "none"]
  /\ main = 0 /\ refused = FALSE /\ overtaken = FALSE

(***************************************************************************)
(* stop                                                                     *)
(***************************************************************************)
\* What the start s does when its stop is over: it goes on, or reports the error.
Resumed(o) ==
  IF o = 0 \/ starts[o].pc \notin {"again", "failing"} THEN UNCHANGED starts
  ELSE IF starts[o].pc = "again" THEN starts' = [starts EXCEPT ![o].pc = "ready"]
  ELSE starts' = [starts EXCEPT ![o] = IdleStart]
StatusAfter(o, s) == IF o # 0 /\ starts[o].pc = "failing" THEN "error" ELSE s
\* Up to its await: a session of the API is stopped before the peer is let go,
\* one of Codex after; for a session of the API without a peer nobody is asked.
BeginStop(o) ==
  /\ gen < MaxGen /\ gen' = gen + 1
  /\ \/ /\ provider # "api"
        /\ stops' = [stops EXCEPT ![o] = "after"] /\ peer' = 0 /\ UNCHANGED <<provider, status>>
     \/ /\ provider = "api" /\ peer # 0
        /\ stops' = [stops EXCEPT ![o] = "before"] /\ UNCHANGED <<provider, peer, status>>
     \/ /\ provider = "api" /\ peer = 0
        /\ provider' = "none" /\ status' = (IF o = 0 THEN "idle" ELSE "error")
        /\ UNCHANGED <<stops, peer>>
\* stopRealtime of the main process waits for a start it has begun.
MainStops == /\ \A s \in Starts : starts[s].pc # "asking"
             /\ main' = 0
StopBefore(o) ==
  /\ stops[o] = "before" /\ MainStops /\ peer' = 0
  /\ IF provider = "api"
     THEN /\ stops' = [stops EXCEPT ![o] = "none"] /\ provider' = "none"
          /\ status' = StatusAfter(o, "idle") /\ Resumed(o)
     ELSE stops' = [stops EXCEPT ![o] = "after"] /\ UNCHANGED <<provider, status, starts>>
  /\ UNCHANGED <<setting, gen, made, refused, overtaken>>
\* When the session is the API's, nothing is left to stop after the peer.
StopAfter(o) ==
  /\ stops[o] = "after" /\ stops' = [stops EXCEPT ![o] = "none"]
  /\ IF provider = "api" THEN UNCHANGED main ELSE MainStops
  /\ provider' = "none" /\ status' = StatusAfter(o, "idle") /\ Resumed(o)
  /\ UNCHANGED <<setting, gen, peer, made, refused, overtaken>>
\* stopRealtime throws, and stop with it.
StopThrows(o) ==
  /\ stops[o] # "none" /\ (stops[o] = "before" \/ provider # "api")
  /\ stops' = [stops EXCEPT ![o] = "none"] /\ refused' = TRUE
  /\ status' = StatusAfter(o, status) /\ Resumed(o)
  /\ UNCHANGED <<setting, gen, provider, peer, made, main, overtaken>>
Stop == /\ stops[0] = "none" /\ BeginStop(0)
        /\ UNCHANGED <<setting, made, starts, main, refused, overtaken>>

(***************************************************************************)
(* start                                                                    *)
(***************************************************************************)
Goes(s, pc) == starts' = [starts EXCEPT ![s].pc = pc]
\* A peer in error is rebuilt; with any other peer only the input changes.
Start(s) ==
  /\ starts[s].pc = "none"
  /\ IF peer # 0 /\ status = "error"
     THEN BeginStop(s) /\ Goes(s, "again")
     ELSE /\ peer = 0 /\ gen < MaxGen /\ gen' = gen + 1
          /\ starts' = [starts EXCEPT ![s] = [IdleStart EXCEPT !.pc = "settings", !.gen = gen + 1]]
          /\ UNCHANGED <<provider, peer, status, stops>>
  /\ UNCHANGED <<setting, made, main, refused, overtaken>>
StartAgain(s) ==
  /\ starts[s].pc = "ready"
  /\ IF peer # 0 THEN starts' = [starts EXCEPT ![s] = IdleStart] /\ UNCHANGED gen
     ELSE /\ gen < MaxGen /\ gen' = gen + 1
          /\ starts' = [starts EXCEPT ![s] = [IdleStart EXCEPT !.pc = "settings", !.gen = gen + 1]]
  /\ UNCHANGED <<setting, provider, peer, made, status, stops, main, refused, overtaken>>
\* The settings are there: a start that was overtaken gives up here, and only here.
SettingsGot(s) ==
  /\ starts[s].pc = "settings" /\ provider' = setting
  /\ IF starts[s].gen # gen
     THEN /\ starts' = [starts EXCEPT ![s] = IdleStart] /\ overtaken' = TRUE
          /\ UNCHANGED <<peer, made, status>>
     ELSE /\ made < MaxPeers /\ made' = made + 1 /\ peer' = made + 1 /\ status' = "connecting"
          /\ starts' = [starts EXCEPT ![s] = [@ EXCEPT !.pc = "offering", !.peer = made + 1]]
          /\ UNCHANGED overtaken
  /\ UNCHANGED <<setting, gen, stops, main, refused>>
Offered(s) ==
  /\ starts[s].pc = "offering" /\ Goes(s, "asking")
  /\ UNCHANGED <<setting, gen, provider, peer, made, status, stops, main, refused, overtaken>>
\* The catch block: stop, then the error.
Caught(s) == /\ BeginStop(s)
             /\ IF stops[s]' = "none" THEN starts' = [starts EXCEPT ![s] = IdleStart]
                ELSE Goes(s, "failing")
StartFails(s) ==
  /\ starts[s].pc \in {"offering", "asking", "remote"} /\ Caught(s)
  /\ UNCHANGED <<setting, made, main, refused, overtaken>>
\* Mutant: the answer is taken although the peer was let go.
Answered_Anyway(s) ==
  /\ starts[s].pc = "asking" /\ main = 0 /\ main' = starts[s].peer
  /\ Goes(s, "remote") /\ provider' = setting /\ UNCHANGED <<gen, peer, status, stops>>
  /\ UNCHANGED <<setting, made, refused, overtaken>>
Answered(s) ==
  /\ starts[s].pc = "asking" /\ main = 0 /\ main' = starts[s].peer
  /\ IF peer # starts[s].peer
     THEN Caught(s)
     ELSE Goes(s, "remote") /\ provider' = setting /\ UNCHANGED <<gen, peer, status, stops>>
  /\ UNCHANGED <<setting, made, refused, overtaken>>
\* setRemoteDescription answers, perhaps after a stop.
Described(s) ==
  /\ starts[s].pc = "remote" /\ starts' = [starts EXCEPT ![s] = IdleStart]
  /\ status' \in IF peer = starts[s].peer THEN {"connecting", "ready"} ELSE {"connecting"}
  /\ UNCHANGED <<setting, gen, provider, peer, made, stops, main, refused, overtaken>>

\* Events of the peer and of its data channel; refreshReady.
PeerConnects ==
  /\ peer # 0 /\ main = peer /\ status = "connecting" /\ status' = "ready"
  /\ UNCHANGED <<setting, gen, provider, peer, made, starts, stops, main, refused, overtaken>>
PeerFails ==
  /\ peer # 0 /\ status # "error" /\ status' = "error"
  /\ UNCHANGED <<setting, gen, provider, peer, made, starts, stops, main, refused, overtaken>>

Next ==
  \/ Stop \/ PeerConnects \/ PeerFails
  \/ \E o \in Owners : StopBefore(o) \/ StopAfter(o) \/ StopThrows(o)
  \/ \E s \in Starts : \/ Start(s) \/ StartAgain(s) \/ SettingsGot(s) \/ Offered(s)
                       \/ StartFails(s) \/ Answered(s) \/ Described(s)

\* Calls of the main process and of WebRTC are answered.
Fairness ==
  /\ \A o \in Owners : WF_linkVars(StopBefore(o) \/ StopAfter(o))
  /\ \A s \in Starts : WF_linkVars(StartAgain(s) \/ SettingsGot(s) \/ Offered(s) \/ Answered(s)
                                   \/ StartFails(s) \/ Described(s))
Spec == Init /\ [][Next]_linkVars /\ Fairness

(***************************************************************************)
(* Properties                                                               *)
(***************************************************************************)
\* Every variable has its type.
TypeOK ==
  /\ gen \in 0..MaxGen /\ {peer, made, main} \subseteq 0..MaxPeers /\ provider \in {"none", "codex", "api"}
  /\ status \in {"idle", "connecting", "ready", "error"} /\ {refused, overtaken} \subseteq BOOLEAN
  /\ starts \in [Starts -> [pc : {"none", "again", "ready", "settings", "offering", "asking",
                                  "remote", "failing"}, gen : 0..MaxGen, peer : 0..MaxPeers]]
  /\ stops \in [Owners -> {"none", "before", "after"}]

Quiet == (\A s \in Starts : starts[s].pc = "none") /\ \A o \in Owners : stops[o] = "none"
\* Whatever starts and stops overlapped, when none is left the main process
\* keeps no session that the renderer has no peer for, unless it failed to stop
\* one; or a start that was overtaken wrote provider after a stop, so that the
\* next stop, without a peer, does not ask for the session of the API to end.
NoSessionLeaks == Quiet /\ ~refused /\ ~overtaken => main \in {0, peer}

\* A link that shows itself ready while nobody stops it has a peer.
ReadyHasPeer == status = "ready" /\ ~refused /\ (\A o \in Owners : stops[o] = "none") => peer # 0

\* A start always returns, also when it was overtaken.
StartReturns == \A s \in Starts : starts[s].pc # "none" /\ gen < MaxGen /\ made < MaxPeers
                  ~> (starts[s].pc = "none" \/ gen = MaxGen \/ made = MaxPeers)
=============================================================================
