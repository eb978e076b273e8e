---------------------------- MODULE DesktopPort -----------------------------
(***************************************************************************)
(* Orders to the phone of the desktop: DesktopTelephonyAdapter, the      *)
(* TelephonyPort of the main process (telephony/desktop-telephony-adapter  *)
(* .ts), over PhoneCommandGateway (main/phone-gateway.ts), which sends     *)
(* them to the renderer, waits for its results and keeps the last status   *)
(* that arrived.  Messages of the renderer arrive in their order.  The     *)
(* renderer is reduced to the call it shows and to handlePhoneCommand.     *)
(* Who controls the call, and what is observed of it, is left out.         *)
(* A call of the phone is a number; 0 is the call the port dials, and a    *)
(* command is its own id.                                                  *)
(***************************************************************************)
EXTENDS Naturals, Sequences

CONSTANTS MaxIssues,   \* bound: commands issued, repeated ones included
          MaxRings,    \* bound: calls of the phone
          MaxLoads,    \* bound: reloads of the renderer
          MaxQueue     \* bound: messages under way, when the line changes

Issues == 1..MaxIssues
Rings == 1..MaxRings
Ports == 0..MaxRings   \* a call that rang in goes by its own id
\* bound: commands are issued for the call that the port dials and for the first
\* that rings in.
Orders == ({"dial", "transfer", "hangup"} \X {0}) \cup ({"answer", "reject"} \X {1})

VARIABLES phone,     \* what the renderer shows: a call and its status
          rings,     \* calls of the phone so far
          up,        \* messages of the renderer on their way
          latest,    \* PhoneCommandGateway.latestStatus
          last,      \* DesktopTelephonyAdapter.lastSnapshot
          seen,      \* seenCommands
          bound,     \* gatewayByPortId, 0 for none
          issue,     \* the commands issued, where each is, and at the renderer
          loads,     \* reloads so far
          heard,     \* history: what was observed of the call the port dials, up to when it connects
          own,       \* history: the call the port dialled
          loose,     \* history: calls of the port bound by a command that is for whatever rings
          crossed,   \* history: calls that began while a command waited, or that it did not know of yet
          shadowed,  \* history: the renderer had a dial to do along with another command
          stray      \* history: a hangup ended a call it was not for, which did not cross it
portVars == <<phone, rings, up, latest, last, seen, bound, issue, loads, heard, own, loose, crossed,
              shadowed, stray>>

Silent == [id |-> 0, st |-> "none"]
Unpublished == [id |-> 0, st |-> "unknown"]
Fresh == [cmd |-> <<"dial", 0>>, pc |-> "new", at |-> "none", for |-> 0]
Status(p) == [of |-> 0, ok |-> TRUE, phone |-> p]
Early == {"calling", "ringing"}
Live(p) == p.st \in Early \cup {"active"}

Init ==
  /\ phone = Silent /\ rings = 0 /\ up = <<>> /\ latest = Silent /\ last = Unpublished /\ seen = {}
  /\ bound = [p \in Ports |-> 0] /\ issue = [i \in Issues |-> Fresh] /\ loads = 0
  /\ heard = {} /\ own = 0 /\ loose = {} /\ crossed = {} /\ shadowed = FALSE /\ stray = {}

Waiting == {i \in Issues : issue[i].pc = "waiting"}
\* What the renderer may still act on: giving up on it does not recall it.
Outstanding == Waiting \cup {i \in Issues : issue[i].at # "none"}
\* sameLiveCall: the call shown is the one that this call of the port is bound to.
Same(p, s) == s.id # 0 /\ s.id \in {p, bound[p]}
\* Mutant: a hangup is for whatever call there is.
IsLive_any(p, s) == Live(s)
\* isLiveCall
IsLive(p, s) == Live(s) /\ Same(p, s)

(***************************************************************************)
(* The port                                                                 *)
(***************************************************************************)
unheard == <<phone, rings, up, latest, bound, loads, heard, own, loose, stray>>
Ended(i, pc) == [issue EXCEPT ![i].pc = pc]
\* runOnce and finish: the id of a command that failed is forgotten.
Forgotten(c) == seen' = seen \ {c}
\* Mutant: the id of a command is noted when it is done only.
Kept_late(c) == UNCHANGED seen
Kept(c) == seen' = seen \cup {c}

\* A command in its turn: one whose id is known returns at once.  Else the port
\* notes what is shown, and a dial or a hangup asks whether it may go on; both
\* fail while the renderer has published nothing, as what is sent then does.
Repeated(i, c) == c \in seen /\ issue' = [issue EXCEPT ![i].cmd = c, ![i].pc = "repeated"]
                  /\ UNCHANGED <<unheard, last, seen, shadowed, crossed>>
Barred(c) ==
  \/ latest = Unpublished
  \/ c[1] = "dial" /\ Live(latest) /\ ~Same(0, latest)
Moot(c) == c[1] = "hangup" /\ latest # Unpublished /\ ~IsLive(c[2], latest)
Begin(i, c, pc, at) ==
  /\ c \notin seen /\ last' = latest /\ shadowed' = (shadowed \/ \E j \in Outstanding : "dial" \in {c[1], issue[j].cmd[1]})
  /\ crossed' = IF phone.id # latest.id THEN crossed \cup {phone.id} ELSE crossed
  /\ issue' = [issue EXCEPT ![i] = [cmd |-> c, pc |-> pc, at |-> at, for |-> IF c[1] = "hangup" THEN latest.id ELSE 0]]
  /\ UNCHANGED unheard
\* A hangup of a call that is not shown returns as if it were done.
Skip(i, c) == Moot(c) /\ Begin(i, c, "moot", "none") /\ Kept(c)
Refuse(i, c) == Barred(c) /\ Begin(i, c, "failed", "none") /\ UNCHANGED seen
Send(i, c) == ~Barred(c) /\ ~Moot(c) /\ Begin(i, c, "waiting", "sent") /\ Kept(c)
Issue(i) ==
  /\ issue[i].pc = "new" /\ (i > 1 => issue[i - 1].pc # "new")
  /\ \E c \in Orders : Repeated(i, c) \/ Skip(i, c) \/ Refuse(i, c) \/ Send(i, c)

\* observationsFromSnapshot, of the call: what changed since the snapshot the port knows.
Observed(s) ==
  LET before == IF last.id # 0 /\ last.id = s.id THEN last.st ELSE "none" IN
  (IF s.st \in Early /\ before # s.st THEN {"ringing"} ELSE {}) \cup
  (IF s.st = "active" /\ before # "active"
   THEN {"connected"} \cup (IF before \notin Early /\ last.id # s.id THEN {"ringing"} ELSE {}) ELSE {}) \cup
  (IF s.st = "ended" /\ before # "ended" THEN {"ended"} ELSE {})
\* finish of a command that went well: the call of the port is bound to whatever
\* call the renderer shows by now.
Finish(i, s) ==
  LET c == issue[i].cmd p == c[2] IN
  /\ bound' = IF s.id = 0 THEN bound ELSE [bound EXCEPT ![p] = s.id]
  /\ loose' = IF c[1] \in {"answer", "reject", "transfer"} /\ s.id \notin {0, p} /\ ~(p = 0 /\ s.id = own) THEN loose \cup {p} ELSE loose
  /\ heard' = (IF p = 0 THEN heard \cup (Observed(s) \cap {"ringing", "connected"}) ELSE heard) /\ last' = s /\ issue' = Ended(i, "done")

(***************************************************************************)
(* The gateway                                                              *)
(***************************************************************************)
kept == <<phone, rings, loads, own, crossed, shadowed, stray>>
\* handleStatus and handleResult, in the order the renderer sent them; nobody
\* waits for a result that came too late.
Receive ==
  /\ up # <<>> /\ up' = Tail(up) /\ UNCHANGED kept
  /\ LET m == Head(up) i == m.of IN
     \/ i = 0 /\ latest' = m.phone /\ UNCHANGED <<last, seen, bound, issue, heard, loose>>
     \/ i # 0 /\ i \notin Waiting /\ UNCHANGED <<latest, last, seen, bound, issue, heard, loose>>
     \/ i \in Waiting /\ m.ok /\ latest' = m.phone /\ Finish(i, m.phone) /\ UNCHANGED seen
     \/ i \in Waiting /\ ~m.ok /\ issue' = Ended(i, "failed") /\ Forgotten(issue[i].cmd)
        /\ UNCHANGED <<latest, last, bound, heard, loose>>
Timeout(i) == i \in Waiting /\ issue' = Ended(i, "failed") /\ Forgotten(issue[i].cmd)
              /\ UNCHANGED <<phone, rings, up, latest, last, bound, loads, heard, own, loose, crossed, shadowed, stray>>
\* handleRendererUnavailable: the page goes, with its call and what it was about
\* to say, and comes again.
Reload ==
  /\ Outstanding # {} /\ loads < MaxLoads /\ loads' = loads + 1 /\ latest' = Unpublished
  /\ phone' = Silent /\ up' = <<Status(Silent)>> /\ seen' = seen \ {issue[i].cmd : i \in Waiting}
  /\ issue' = [i \in Issues |-> IF i \in Waiting THEN [issue[i] EXCEPT !.pc = "failed", !.at = "none"]
                                ELSE [issue[i] EXCEPT !.at = "none"]]
  /\ UNCHANGED <<rings, last, bound, heard, own, loose, crossed, shadowed, stray>>

(***************************************************************************)
(* The renderer and the line                                                *)
(***************************************************************************)
\* bound: nothing happens on the line when the last command is over.
GoesOn == Len(up) < MaxQueue /\ (issue[MaxIssues].pc = "new" \/ Outstanding # {})
main == <<latest, last, seen, bound, loads, heard, loose, shadowed>>
At(i, at) == [issue EXCEPT ![i].at = at]
Shows(p) == phone' = p /\ up' = Append(up, Status(p))
New(st) == [id |-> rings + 1, st |-> st]
\* A call begins: it crosses the commands that wait.
Begins(st, others) ==
  /\ rings < MaxRings /\ ~Live(phone) /\ GoesOn /\ rings' = rings + 1 /\ Shows(New(st))
  /\ crossed' = IF others # {} THEN crossed \cup {rings + 1} ELSE crossed
RingsIn == Begins("ringing", Outstanding) /\ UNCHANGED <<main, issue, own, stray>>
Turns(st) == GoesOn /\ Shows([phone EXCEPT !.st = st]) /\ UNCHANGED <<main, rings, issue, own, crossed, stray>>
PeerAnswers == phone.st = "calling" /\ Turns("active")
PeerEnds == Live(phone) /\ Turns("ended")

\* handlePhoneCommand, up to where the call has changed: a command is for the
\* call there is, and fails when there is none of its kind.
Able(kind) ==
  CASE kind = "dial" -> ~Live(phone) [] kind \in {"answer", "reject"} -> phone.st = "ringing" [] OTHER -> Live(phone)
Hits(i) == LET c == issue[i].cmd IN
  c[1] = "hangup" /\ phone.id # c[2] /\ ~(c[2] = 0 /\ phone.id = own) /\ c[2] \notin loose /\ phone.id \notin crossed
Acts(i) ==
  /\ issue[i].at = "sent" /\ Able(issue[i].cmd[1]) /\ issue' = At(i, "acted") /\ UNCHANGED main
  /\ stray' = IF Hits(i) THEN stray \cup {phone.id} ELSE stray
  /\ IF issue[i].cmd[1] = "dial" THEN Begins("calling", Outstanding \ {i}) /\ own' = rings + 1
     ELSE /\ UNCHANGED <<rings, own, crossed>>
          /\ Shows(CASE issue[i].cmd[1] = "answer" -> [phone EXCEPT !.st = "active"]
                     [] issue[i].cmd[1] = "transfer" -> phone
                     [] OTHER -> [phone EXCEPT !.st = "ended"])
\* The result goes out with what is shown by then.  A command that fails after
\* it acted is to the port as one that was timed out.
Answers(i) ==
  /\ UNCHANGED <<main, phone, rings, own, crossed, stray>> /\ issue' = At(i, "none")
  /\ \/ issue[i].at = "acted" /\ up' = Append(up, [of |-> i, ok |-> TRUE, phone |-> phone])
     \/ issue[i].at = "sent" /\ ~Able(issue[i].cmd[1]) /\ up' = Append(up, [of |-> i, ok |-> FALSE, phone |-> phone])

Next ==
  \/ \E i \in Issues : Issue(i) \/ Timeout(i) \/ Acts(i) \/ Answers(i)
  \/ Receive \/ Reload \/ RingsIn \/ PeerAnswers \/ PeerEnds
\* A command that waits is timed out at last, whatever the renderer does.
Fairness == \A i \in Issues : WF_portVars(Timeout(i))
Spec == Init /\ [][Next]_portVars /\ Fairness

(***************************************************************************)
(* Properties                                                               *)
(***************************************************************************)
\* Every variable has its type.
TypeOK ==
  /\ rings \in 0..MaxRings /\ loads \in 0..MaxLoads /\ seen \subseteq Orders /\ bound \in [Ports -> Ports]
  /\ {phone.id, latest.id, last.id, own} \subseteq Ports /\ phone.st \in Early \cup {"none", "active", "ended"}
  /\ \A i \in Issues : /\ issue[i].pc \in {"new", "waiting", "done", "moot", "failed", "repeated"}
                       /\ issue[i].at \in {"none", "sent", "acted"} /\ issue[i].cmd \in Orders

\* Of a command with its id, one is with the renderer at a time, and none after
\* one that was done: what failed may be tried again, nothing else is.
\* (runOnce, finish)
OneAtATime ==
  \A i, j \in Issues : i < j /\ issue[i].cmd = issue[j].cmd /\ issue[i].pc \in {"waiting", "done", "moot"} =>
                         issue[j].pc \in {"new", "repeated"}

\* A hangup ends no call but its own, unless that call began while the hangup
\* waited, or while another command did that bound the call of the port to what
\* rang. (isLiveCall, bindCallIds)
HangupIsForItsCall == stray = {}

\* After a hangup that went well, the call shown when it was sent is over.
\* (hangup)
HungUpIsOver ==
  \A i \in Issues : issue[i].pc = "done" /\ issue[i].cmd[1] = "hangup" =>
                      ~(Live(phone) /\ phone.id = issue[i].for)

\* The call the port dials is not said to connect before it was said to ring,
\* unless the dial failed, another command went along with it, or the port took
\* another call for it. (telephony-port-contract.ts: ringing then
\* connected; captureStatus)
ConnectedHasRung ==
  ("connected" \in heard /\ "ringing" \notin heard) =>
    (shadowed \/ 0 \in loose \/ \E i \in Issues : issue[i].cmd[1] = "dial" /\ issue[i].pc = "failed")

\* The status of the phone does not go back to an earlier one. (handleStatus,
\* handleResult)
Rank(s) == CASE s.st \in {"none", "unknown"} -> 0 [] s.st \in Early -> 1 [] s.st = "active" -> 2 [] OTHER -> 3
StatusGoesOn ==
  [][(latest # Unpublished /\ latest' # Unpublished) =>
       (latest'.id > latest.id \/ (latest'.id = latest.id /\ Rank(latest') >= Rank(latest)))]_portVars

\* A command that waits is answered, or fails. (send)
CommandsSettle == \A i \in Issues : (issue[i].pc = "waiting") ~> (issue[i].pc # "waiting")
=============================================================================
