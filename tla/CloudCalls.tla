----------------------------- MODULE CloudCalls -----------------------------
(***************************************************************************)
(* The calls of the headless host: MockTelephony (packages/adapters-mock), *)
(* a TelephonyPort of many calls whose owner transfers run under timers,   *)
(* and CloudEngineTelephony (apps/cloud), which shows one of these calls   *)
(* as the phone of the engine and reports it to the call store.  Clients   *)
(* of the port send commands under ids of their own, again when they doubt *)
(* the first; the engine mints calls and commands.  The observations of a  *)
(* step are delivered within it.                                           *)
(***************************************************************************)
EXTENDS Integers, FiniteSets

CONSTANTS Calls, Commands, Handoffs

None == "none"

VARIABLES options,  \* connectDelayMs > 0, ownerOutcome, ownerJoinDelayMs > 0
          call,     \* call -> status, direction, armed connect timer, pending transfer
          seen,     \* seenCommands: ids that were carried out
          tracked,  \* the engine's calls that have not ended
          snap,     \* the engine's snapshot: call and status shown, control mode
          heard,    \* call -> last observation of it, handoff -> last observation of it
          report,   \* call -> status last reported to the call store
          stopped   \* the engine was disposed and its stores closed

vars == <<options, call, seen, tracked, snap, heard, report, stopped>>

Live(c) == call[c].status \in {"ringing", "connected"}
ShownLive == snap.call # None /\ snap.status # "ended"
NoCall == [status |-> None, direction |-> None, connecting |-> FALSE, transfer |-> None, joining |-> FALSE]

PhoneStatusFor(event, direction) ==
  IF event = "ended" THEN "ended" ELSE IF event = "connected" THEN "active"
  ELSE IF direction = "inbound" THEN "ringing" ELSE "dialing"

\* emit to a listener that counts, and onObservation: the engine shows and
\* reports the calls it tracks until it unsubscribes.
Observed(c, event, track) ==
  LET shown == PhoneStatusFor(event, call'[c].direction)
      mine  == c \in track /\ ~stopped
  IN  /\ heard' = [heard EXCEPT ![c] = event]
      /\ snap' = IF mine THEN [snap EXCEPT !.call = c, !.status = shown] ELSE snap
      /\ report' = IF mine THEN [report EXCEPT ![c] = shown] ELSE report
      /\ tracked' = IF mine /\ event = "ended" THEN track \ {c} ELSE track

\* dial and simulateInbound; without a delay the call connects at once.
Placed(c, direction, track) ==
  LET now == IF direction = "outbound" /\ ~options.delayed THEN "connected" ELSE "ringing"
  IN  /\ call' = [call EXCEPT ![c] = [NoCall EXCEPT !.status = now, !.direction = direction,
                                      !.connecting = direction = "outbound" /\ options.delayed]]
      /\ Observed(c, now, track)

\* Mutant: the transfer of a call that ends goes on.
Ended_transfer(c) ==
  /\ call' = [call EXCEPT ![c] = [call[c] EXCEPT !.status = "ended", !.connecting = FALSE]]
  /\ Observed(c, "ended", tracked)
\* endCall clears the timers of the call and drops its transfer.
Ended(c) ==
  /\ call' = [call EXCEPT ![c] = [NoCall EXCEPT !.status = "ended", !.direction = call[c].direction]]
  /\ Observed(c, "ended", tracked)

Answered(c) ==
  /\ call' = [call EXCEPT ![c].status = "connected", ![c].connecting = FALSE]
  /\ Observed(c, "connected", tracked)

CanAnswer(c) == call[c].status = "ringing" /\ call[c].direction = "inbound"

Init ==
  /\ options \in [delayed : BOOLEAN, outcome : {"joined", "failed", "timeout"}, joinDelayed : BOOLEAN]
  /\ call = [c \in Calls |-> NoCall]
  /\ seen = {} /\ tracked = {} /\ stopped = FALSE
  /\ snap = [call |-> None, status |-> None, mode |-> "ai"]
  /\ heard = [x \in Calls \cup Handoffs |-> None]
  /\ report = [c \in Calls |-> None]

\* The engine's commands (execute).  What the phone does not admit is refused
\* without an effect.
EngineDial(c) ==
  /\ ~stopped /\ ~ShownLive /\ call[c].status = None
  /\ \E direction \in {"outbound", "inbound"} : Placed(c, direction, tracked \cup {c})
  /\ UNCHANGED <<options, seen, stopped>>

EngineHangup ==
  /\ ~stopped /\ ShownLive /\ Live(snap.call)
  /\ Ended(snap.call)
  /\ UNCHANGED <<options, seen, stopped>>

EngineAnswer ==
  /\ ~stopped /\ ShownLive /\ CanAnswer(snap.call)
  /\ Answered(snap.call)
  /\ UNCHANGED <<options, seen, stopped>>

SetControlMode ==
  /\ ~stopped
  /\ \E mode \in {"ai", "human"} : mode # snap.mode /\ snap' = [snap EXCEPT !.mode = mode]
  /\ UNCHANGED <<options, call, seen, tracked, heard, report, stopped>>

\* Commands of a client of the port.  An id that was carried out does nothing
\* again; an id that was refused is forgotten and may be sent again.
PortDial(c, id) ==
  /\ id \notin seen /\ ~Live(c) /\ report[c] = None
  /\ seen' = seen \cup {id}
  /\ Placed(c, "outbound", tracked)
  /\ UNCHANGED <<options, stopped>>

PortAnswer(c, id) ==
  /\ id \notin seen /\ CanAnswer(c)
  /\ seen' = seen \cup {id}
  /\ Answered(c)
  /\ UNCHANGED <<options, stopped>>

PortReject(c, id) ==
  /\ id \notin seen /\ CanAnswer(c)
  /\ seen' = seen \cup {id}
  /\ Ended(c)
  /\ UNCHANGED <<options, stopped>>

\* A hangup of a call that is over is accepted, and its id is used up.
PortHangup(c, id) ==
  /\ id \notin seen
  /\ seen' = seen \cup {id}
  /\ IF Live(c) THEN Ended(c) ELSE UNCHANGED <<call, tracked, snap, heard, report>>
  /\ UNCHANGED <<options, stopped>>

\* transferToOwner: an earlier transfer of the call loses its timers and is
\* forgotten; without a delay the owner's answer comes in the same step.
Transfer(c, id, h) ==
  /\ id \notin seen /\ call[c].status = "connected" /\ heard[h] = None
  /\ seen' = seen \cup {id}
  /\ LET atOnce == options.outcome # "timeout" /\ ~options.joinDelayed
         waits == options.outcome # "timeout" /\ options.joinDelayed
     IN  /\ call' = [call EXCEPT ![c].transfer = IF atOnce THEN None ELSE h, ![c].joining = waits]
         /\ heard' = [heard EXCEPT ![h] = IF atOnce THEN options.outcome ELSE "owner_ringing"]
  /\ UNCHANGED <<options, tracked, snap, report, stopped>>

\* completeOwnerJoin and failOwner: the first to come clears the other's timer.
OwnerDecides(c, outcome) ==
  /\ call[c].transfer # None
  /\ heard' = [heard EXCEPT ![call[c].transfer] = outcome]
  /\ call' = [call EXCEPT ![c].transfer = None, ![c].joining = FALSE]
  /\ UNCHANGED <<options, seen, tracked, snap, report, stopped>>

JoinTimer(c) == call[c].joining /\ OwnerDecides(c, options.outcome)
TransferTimeout(c) == OwnerDecides(c, "timed_out")

ConnectTimer(c) ==
  /\ call[c].connecting /\ call[c].status = "ringing"
  /\ Answered(c)
  /\ UNCHANGED <<options, seen, stopped>>

\* dispose unsubscribes before the stores are closed.
Stop ==
  /\ ~stopped
  /\ stopped' = TRUE
  /\ UNCHANGED <<options, call, seen, tracked, snap, heard, report>>

Next ==
  \/ \E c \in Calls :
       \/ EngineDial(c) \/ JoinTimer(c) \/ TransferTimeout(c) \/ ConnectTimer(c)
       \/ \E id \in Commands :
            \/ PortDial(c, id) \/ PortAnswer(c, id) \/ PortReject(c, id) \/ PortHangup(c, id)
            \/ \E h \in Handoffs : Transfer(c, id, h)
  \/ EngineHangup \/ EngineAnswer \/ SetControlMode \/ Stop

\* Timers fire.
Fairness == \A c \in Calls : WF_vars(TransferTimeout(c)) /\ WF_vars(ConnectTimer(c))
Spec == Init /\ [][Next]_vars /\ Fairness

TypeOK ==
  /\ \A c \in Calls : call[c].status \in {None, "ringing", "connected", "ended"}
                      /\ call[c].transfer \in Handoffs \cup {None}
  /\ seen \subseteq Commands /\ tracked \subseteq Calls /\ stopped \in BOOLEAN
  /\ snap.call \in Calls \cup {None} /\ snap.mode \in {"ai", "human"}

\* While the engine runs, the phone it shows and the call store know the very
\* state of the line, whoever changed it; a call that is up is tracked.
ShownIsReal ==
  (~stopped /\ snap.call # None) =>
    /\ snap.status = PhoneStatusFor(call[snap.call].status, call[snap.call].direction)
    /\ report[snap.call] = snap.status
    /\ (snap.call \in tracked) = Live(snap.call)

\* The engine has one call at a time, although the port carries many.
OneEngineCall == Cardinality({c \in tracked : Live(c)}) <= 1

\* A handoff has one outcome: no timer that was overtaken tells the listeners
\* of another one, and none speaks of a call that is over.
OneOutcome ==
  [][\A h \in Handoffs :
       heard[h] # heard'[h] =>
         \/ heard[h] = None
         \/ heard[h] = "owner_ringing" /\ \E c \in Calls : call[c].transfer = h /\ Live(c)]_vars

\* A transfer does not wait for ever: it is decided, or the call ends, or
\* another transfer takes its place (and the first is then never decided).
TransferEnds ==
  \A h \in Handoffs : (\E c \in Calls : call[c].transfer = h) ~> (\A c \in Calls : call[c].transfer # h)

\* Once disposed, the engine writes nothing to the stores it has closed.
QuietWhenStopped == [][stopped => report' = report]_vars
=============================================================================
