----------------------------- MODULE AppServer -----------------------------
(***************************************************************************)
(* The Codex app-server and its client (main/codex/app-server-client.ts on *)
(* json-rpc-stdio.ts): a child process that is started when it is needed   *)
(* and may exit at any time, requests that are answered, refused, given up *)
(* or rejected with the child, and the one realtime session the client     *)
(* keeps.  Two starts of a session may overlap; the start s makes the      *)
(* thread s.  A request the client gave up is still the server's, which    *)
(* may act on it later.                                                    *)
(***************************************************************************)
EXTENDS Naturals, FiniteSets

CONSTANT MaxSpawns   \* bound: processes started

Starts == {1, 2}

VARIABLES child,     \* the process: none, spawning, up
          spawns,    \* processes started
          ready,     \* CodexAppServerClient.startPromise: none, pending, ok, failed
          pend,      \* requests the client waits for
          sent,      \* requests the server has not acted on
          starts,    \* where each startRealtime awaits, and its SDP
          active,    \* activeThreadId, 0 for none
          server,    \* threads with a session in the server
          stopping,  \* the thread a stopRealtime is for, 0 for none
          disposing, \* no, begun, done
          displaced  \* history: sessions whose thread another start took the place of
appVars == <<child, spawns, ready, pend, sent, starts, active, server, stopping, disposing, displaced>>

Request(kind, s) == <<kind, s>>
Requests == {"init", "thread", "realtime", "stop"} \X (0..2)
Init ==
  /\ child = "none" /\ spawns = 0 /\ ready = "none" /\ pend = {} /\ sent = {}
  /\ starts = [s \in Starts |-> [pc |-> "none", ack |-> FALSE, sdp |-> "none"]]
  /\ active = 0 /\ server = {} /\ stopping = 0 /\ disposing = "no" /\ displaced = {}

Ask(q) == pend' = pend \cup {q} /\ sent' = sent \cup {q}
In(pcs) == {s \in Starts : starts[s].pc \in pcs}
\* The catch block of startRealtime; a waiter for an SDP is let go.
Failed(set) == [s \in Starts |-> IF s \in set THEN [starts[s] EXCEPT !.pc = "failed", !.sdp = "none"] ELSE starts[s]]
\* Mutant: any failure forgets the active thread
ActiveWithout_all(set) == 0
ActiveWithout(set) == IF active \in set THEN 0 ELSE active
AwaitsSdp == {s \in Starts : starts[s].sdp = "waiting"}

(***************************************************************************)
(* The child process                                                        *)
(***************************************************************************)
Spawned ==
  /\ child = "spawning" /\ child' = "up" /\ Ask(Request("init", 0))
  /\ UNCHANGED <<spawns, ready, starts, active, server, stopping, disposing, displaced>>
\* handleStartupError lets the process be spawned again, but the promise of
\* the client stays rejected.
SpawnFails ==
  /\ child = "spawning" /\ child' = "none" /\ ready' = "failed"
  /\ starts' = Failed(In({"init"}))
  /\ UNCHANGED <<spawns, pend, sent, active, server, stopping, disposing, displaced>>
\* handleExit: every request is rejected, every waiter fails, and all is forgotten.
Exit ==
  /\ child = "up" /\ child' = "none" /\ ready' = "none" /\ pend' = {} /\ sent' = {} /\ active' = 0 /\ server' = {}
  /\ starts' = Failed(In({"init", "thread", "realtime"})) /\ stopping' = 0
  /\ UNCHANGED <<spawns, disposing, displaced>>
\* A line that is not JSON, or no message: the error event fails whoever
\* waits for an SDP.
BadLine ==
  /\ child = "up" /\ AwaitsSdp # {}
  /\ starts' = Failed(AwaitsSdp) /\ active' = ActiveWithout(AwaitsSdp)
  /\ UNCHANGED <<child, spawns, ready, pend, sent, server, stopping, disposing, displaced>>

(***************************************************************************)
(* startRealtime                                                            *)
(***************************************************************************)
StartRealtime(s) ==
  /\ starts[s].pc = "none" /\ \A r \in Starts : r < s => starts[r].pc # "none"
  /\ IF ready = "failed" \/ disposing = "done"
     THEN starts' = Failed({s}) /\ UNCHANGED <<child, spawns, ready>>
     ELSE /\ starts' = [starts EXCEPT ![s].pc = "init"]
          /\ IF ready # "none" THEN UNCHANGED <<child, spawns, ready>>
             ELSE /\ child = "none" /\ spawns < MaxSpawns /\ spawns' = spawns + 1
                  /\ child' = "spawning" /\ ready' = "pending"
  /\ UNCHANGED <<pend, sent, active, server, stopping, disposing, displaced>>
\* The client is initialised: a session that is active refuses the start.
Checked(s) ==
  /\ starts[s].pc = "init" /\ ready = "ok"
  /\ IF active # 0 THEN starts' = Failed({s}) /\ UNCHANGED <<pend, sent>>
     ELSE starts' = [starts EXCEPT ![s].pc = "thread"] /\ Ask(Request("thread", s))
  /\ UNCHANGED <<child, spawns, ready, active, server, stopping, disposing, displaced>>
\* The thread is there and becomes the active one, whether one is active or not.
ThreadStarted(s) ==
  /\ starts' = [starts EXCEPT ![s] = [pc |-> "realtime", ack |-> FALSE, sdp |-> "waiting"]]
  /\ active' = s /\ displaced' = displaced \cup ({active} \ {0})
  /\ pend' = (pend \ {Request("thread", s)}) \cup {Request("realtime", s)}
  /\ sent' = (sent \ {Request("thread", s)}) \cup {Request("realtime", s)}
  /\ UNCHANGED <<ready, server, stopping>>
Settled(s, f) == IF f[s].ack /\ f[s].sdp = "got" THEN [f EXCEPT ![s].pc = "done"] ELSE f
Sdp(s) ==
  /\ s \in server /\ s \in AwaitsSdp
  /\ starts' = Settled(s, [starts EXCEPT ![s].sdp = "got"])
  /\ UNCHANGED <<child, spawns, ready, pend, sent, active, server, stopping, disposing, displaced>>
\* No SDP in time, or an error notification: the session is not stopped.
SdpFails(s) ==
  /\ s \in AwaitsSdp
  /\ starts' = Failed({s}) /\ active' = ActiveWithout({s})
  /\ UNCHANGED <<child, spawns, ready, pend, sent, server, stopping, disposing, displaced>>
\* thread/realtime/closed
Closed(s) ==
  /\ s \in server /\ server' = server \ {s} /\ active' = ActiveWithout({s})
  /\ starts' = IF s \in AwaitsSdp THEN Failed({s})
               ELSE starts
  /\ UNCHANGED <<child, spawns, ready, pend, sent, stopping, disposing, displaced>>

(***************************************************************************)
(* stopRealtime and dispose                                                 *)
(***************************************************************************)
Stop ==
  /\ active # 0 /\ stopping = 0 /\ disposing = "no" /\ stopping' = active /\ Ask(Request("stop", active))
  /\ UNCHANGED <<child, spawns, ready, starts, active, server, disposing, displaced>>
Dispose ==
  /\ disposing = "no" /\ stopping = 0 /\ disposing' = "begun"
  /\ IF active = 0 THEN UNCHANGED <<stopping, pend, sent>>
     ELSE stopping' = active /\ Ask(Request("stop", active))
  /\ UNCHANGED <<child, spawns, ready, starts, active, server, displaced>>
Disposed ==
  /\ disposing = "begun" /\ stopping = 0 /\ disposing' = "done"
  /\ child' = "none" /\ ready' = "none" /\ pend' = {} /\ sent' = {} /\ active' = 0 /\ server' = {}
  /\ starts' = Failed(In({"init", "thread"}) \cup {s \in Starts : Request("realtime", s) \in pend})
  /\ UNCHANGED <<spawns, stopping, displaced>>

(***************************************************************************)
(* Requests                                                                 *)
(***************************************************************************)
\* What the client does when the request q is answered with success.
Resolved(q) ==
  LET s == q[2] IN
  \/ /\ q[1] = "init" /\ ready' = "ok" /\ UNCHANGED <<starts, active, stopping, displaced>>
     /\ pend' = pend \ {q} /\ sent' = sent \ {q} /\ UNCHANGED server
  \/ q[1] = "thread" /\ ThreadStarted(s)
  \/ /\ q[1] = "realtime" /\ starts' = Settled(s, [starts EXCEPT ![s].ack = TRUE])
     /\ server' = server \cup {s} /\ pend' = pend \ {q} /\ sent' = sent \ {q}
     /\ UNCHANGED <<ready, active, stopping, displaced>>
  \/ /\ q[1] = "stop" /\ active' = ActiveWithout({s}) /\ stopping' = 0 /\ server' = server \ {s}
     /\ pend' = pend \ {q} /\ sent' = sent \ {q} /\ UNCHANGED <<ready, starts, displaced>>
\* ... and when it is refused, cannot be written, or is not answered in time;
\* an initialisation that fails is not tried again while the child lives.
Rejected(q) ==
  LET s == q[2] IN
  /\ \/ /\ q[1] = "init" /\ ready' = "failed" /\ starts' = Failed(In({"init"}))
        /\ UNCHANGED <<active, stopping>>
     \/ /\ q[1] = "thread" /\ starts' = Failed({s}) /\ UNCHANGED <<ready, active, stopping>>
     \/ /\ q[1] = "realtime" /\ starts' = Failed({s})
        /\ active' = ActiveWithout({s}) /\ UNCHANGED <<ready, stopping>>
     \/ /\ q[1] = "stop" /\ stopping' = 0 /\ UNCHANGED <<ready, starts, active>>
  /\ UNCHANGED <<server, displaced>>
\* The server acts on the requests for a thread in their order.
InTurn(q) == q[1] = "stop" => Request("realtime", q[2]) \notin sent
Answer(q) ==
  /\ q \in pend \cap sent /\ InTurn(q)
  /\ \/ Resolved(q)
     \/ Rejected(q) /\ pend' = pend \ {q} /\ sent' = sent \ {q}
  /\ UNCHANGED <<child, spawns, disposing>>
Timeout(q) ==
  /\ q \in pend /\ pend' = pend \ {q} /\ Rejected(q)
  /\ UNCHANGED <<child, spawns, sent, disposing>>
\* The server acts on a request nobody waits for; its answer is ignored.
LateAnswer(q) ==
  /\ q \in sent \ pend /\ InTurn(q) /\ sent' = sent \ {q}
  /\ server' = IF q[1] = "realtime" THEN server \cup {q[2]}
               ELSE IF q[1] = "stop" THEN server \ {q[2]} ELSE server
  /\ UNCHANGED <<child, spawns, ready, pend, starts, active, stopping, disposing, displaced>>

Next ==
  \/ Spawned \/ SpawnFails \/ Exit \/ BadLine \/ Stop \/ Dispose \/ Disposed
  \/ \E s \in Starts : StartRealtime(s) \/ Checked(s) \/ Sdp(s) \/ SdpFails(s) \/ Closed(s)
  \/ \E q \in pend \cup sent : Answer(q) \/ Timeout(q) \/ LateAnswer(q)

\* A process starts or does not, and requests and SDP have deadlines.
Fairness ==
  /\ WF_appVars(Spawned \/ SpawnFails) /\ WF_appVars(Disposed)
  /\ \A q \in Requests : WF_appVars(Timeout(q))
  /\ \A s \in Starts : WF_appVars(Checked(s)) /\ WF_appVars(SdpFails(s))
Spec == Init /\ [][Next]_appVars /\ Fairness

(***************************************************************************)
(* Properties                                                               *)
(***************************************************************************)
\* Every variable has its type.
TypeOK ==
  /\ child \in {"none", "spawning", "up"} /\ spawns \in 0..MaxSpawns
  /\ ready \in {"none", "pending", "ok", "failed"} /\ disposing \in {"no", "begun", "done"}
  /\ pend \cup sent \subseteq Requests
  /\ starts \in [Starts -> [pc : {"none", "init", "thread", "realtime", "done", "failed"},
                            ack : BOOLEAN, sdp : {"none", "waiting", "got"}]]
  /\ {active, stopping} \subseteq 0..2 /\ server \cup displaced \subseteq Starts

\* Nothing is asked of a process that was not initialised, however processes
\* exit and are started anew between the steps of a start.
InitializedFirst ==
  (\E q \in pend : q[1] # "init") \/ active # 0 => child = "up" /\ ready = "ok"

\* A session that nobody can stop any more is one of a start that failed after
\* it had asked for it, or of one that another start took the place of.
SessionsAccounted ==
  \A s \in server : s = active \/ starts[s].pc = "failed" \/ s \in displaced

\* A start that failed does not keep the client from starting again.
FailedStartFrees == \A s \in Starts : starts[s].pc = "failed" => active # s

\* A start comes to an end, although the process does not start, exits, does
\* not answer, or answers and sends no SDP.
StartSettles == \A s \in Starts : starts[s].pc \notin {"none", "done", "failed"} ~> starts[s].pc \in {"done", "failed"}
=============================================================================
