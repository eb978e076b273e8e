---------------------------- MODULE BrowserPhone ----------------------------
(***************************************************************************)
(* The Twilio phone of the renderer (renderer/src/services/twilio-phone.ts): *)
(* one activeCall, the call shown to the controller, and the call objects  *)
(* of the Twilio SDK, which may outlive both.  A dial waits for             *)
(* Device.connect, and a generation number tells whether it was cancelled  *)
(* meanwhile: turn is the dial whose number is current.  A call object is  *)
(* dialing (connect not answered), waiting (ringing or connecting), open,  *)
(* leaving (disconnect asked) or gone.                                      *)
(***************************************************************************)
EXTENDS Naturals, FiniteSets

CONSTANT MaxCalls   \* bound: calls placed and received

Calls == 1..MaxCalls

VARIABLES sdk,      \* the call objects of the SDK
          inbound,  \* the calls that came in
          active,   \* activeCall, 0 for none
          shown,    \* state.call: the id and the status
          stream,   \* callerStream, the call it is of
          turn,     \* the dial whose generation is current, 0 for none
          leaving,  \* hangups that wait for the disconnect event
          crossed   \* calls that came in while a dial waited for connect
phoneVars == <<sdk, inbound, active, shown, stream, turn, leaving, crossed>>

Fresh == CHOOSE c \in Calls : sdk[c] = "unused" /\ \A d \in Calls : sdk[d] = "unused" => c <= d
Room == \E c \in Calls : sdk[c] = "unused"
Present(c) == sdk[c] \in {"waiting", "open", "leaving"}
Terminal == {"none", "ended", "error"}

Init ==
  /\ sdk = [c \in Calls |-> "unused"] /\ inbound = {} /\ active = 0
  /\ shown = [id |-> 0, status |-> "none"] /\ stream = 0 /\ turn = 0
  /\ leaving = {} /\ crossed = {}

\* endCall and failCall: those of another call than activeCall are ignored.
Finish(status) ==
  /\ active' = 0 /\ stream' = 0 /\ shown' = [shown EXCEPT !.status = status]
FinishOf(c, status) ==
  IF active = c THEN Finish(status) ELSE UNCHANGED <<active, stream, shown>>
\* bindCall
Bind(c, status) == active' = c /\ shown' = [id |-> c, status |-> status]

\* dial, up to its await; the controller and the interface dial when no call
\* is in progress.
Dial ==
  /\ Room /\ shown.status \in Terminal
  /\ sdk' = [sdk EXCEPT ![Fresh] = "dialing"] /\ turn' = Fresh
  /\ shown' = [id |-> Fresh, status |-> "dialing"]
  /\ UNCHANGED <<inbound, active, stream, leaving, crossed>>
Connected(c) ==
  /\ sdk[c] = "dialing"
  /\ IF turn = c THEN Bind(c, "connecting") /\ sdk' = [sdk EXCEPT ![c] = "waiting"]
     ELSE sdk' = [sdk EXCEPT ![c] = "gone"] /\ UNCHANGED <<active, shown>>
  /\ UNCHANGED <<inbound, stream, turn, leaving, crossed>>
ConnectFails(c) ==
  /\ sdk[c] = "dialing" /\ sdk' = [sdk EXCEPT ![c] = "gone"]
  /\ IF turn = c THEN Finish("error") ELSE UNCHANGED <<active, stream, shown>>
  /\ UNCHANGED <<inbound, turn, leaving, crossed>>

Incoming ==
  /\ Room /\ inbound' = inbound \cup {Fresh}
  /\ crossed' = IF \E d \in Calls : sdk[d] = "dialing" /\ turn = d THEN crossed \cup {Fresh} ELSE crossed
  /\ IF active # 0 THEN sdk' = [sdk EXCEPT ![Fresh] = "gone"] /\ UNCHANGED <<active, shown>>
     ELSE sdk' = [sdk EXCEPT ![Fresh] = "waiting"] /\ Bind(Fresh, "ringing")
  /\ UNCHANGED <<stream, turn, leaving>>

Answer ==
  /\ active # 0 /\ shown.status = "ringing" /\ shown' = [shown EXCEPT !.status = "connecting"]
  /\ UNCHANGED <<sdk, inbound, active, stream, turn, leaving, crossed>>
\* The accept event; setCallStatus does not look whose event it is.  A call
\* that came in is accepted when it was answered.
Accepted(c) ==
  /\ sdk[c] = "waiting"
  /\ c \in inbound => shown.status # "ringing" \/ shown.id # c
  /\ sdk' = [sdk EXCEPT ![c] = "open"] /\ stream' = c
  /\ shown' = [shown EXCEPT !.status = "active"]
  /\ UNCHANGED <<inbound, active, turn, leaving, crossed>>
\* disconnect, cancel and reject end the call; so does error.
Ended(c, status) ==
  /\ Present(c) /\ sdk' = [sdk EXCEPT ![c] = "gone"] /\ FinishOf(c, status)
  /\ leaving' = leaving \ {c}
  /\ UNCHANGED <<inbound, turn, crossed>>
\* Mutant: the SDK is not told.
Reject_Local ==
  /\ active # 0 /\ sdk' = sdk /\ Finish("ended")
  /\ leaving' = leaving \ {active} /\ UNCHANGED <<inbound, turn, crossed>>
Reject ==
  /\ active # 0 /\ sdk' = [sdk EXCEPT ![active] = "gone"] /\ Finish("ended")
  /\ leaving' = leaving \ {active} /\ UNCHANGED <<inbound, turn, crossed>>

\* Device.disconnectAll
AllGone == sdk' = [c \in Calls |-> IF Present(c) THEN "gone" ELSE sdk[c]]
\* hangup: with no call object, the dial that waits for connect is cancelled.
CancelDial ==
  /\ active = 0 /\ shown.status \notin Terminal
  /\ turn' = 0 /\ AllGone /\ Finish("ended") /\ leaving' = {}
  /\ UNCHANGED <<inbound, crossed>>
Hangup ==
  /\ active # 0 /\ leaving' = leaving \cup {active}
  /\ sdk' = [sdk EXCEPT ![active] = "leaving"]
  /\ UNCHANGED <<inbound, active, shown, stream, turn, crossed>>
HangupTimeout(c) ==
  /\ c \in leaving /\ leaving' = {} /\ AllGone
  /\ IF active # 0 THEN Finish("ended") ELSE UNCHANGED <<active, stream, shown>>
  /\ UNCHANGED <<inbound, turn, crossed>>

Dispose ==
  /\ turn' = 0 /\ active' = 0 /\ stream' = 0 /\ leaving' = {} /\ AllGone
  /\ shown' = [id |-> 0, status |-> "none"] /\ UNCHANGED <<inbound, crossed>>

Next ==
  \/ Dial \/ Incoming \/ Answer \/ Reject \/ CancelDial \/ Hangup \/ Dispose
  \/ \E c \in Calls : \/ Connected(c) \/ ConnectFails(c) \/ Accepted(c)
                      \/ Ended(c, "ended") \/ Ended(c, "error") \/ HangupTimeout(c)

\* connect is answered, and a hangup has a timer.
Fairness == \A c \in Calls : WF_phoneVars(Connected(c) \/ ConnectFails(c)) /\ WF_phoneVars(HangupTimeout(c))

Spec == Init /\ [][Next]_phoneVars /\ Fairness

(***************************************************************************)
(* Properties                                                               *)
(***************************************************************************)
\* Every variable has its type.
TypeOK ==
  /\ sdk \in [Calls -> {"unused", "dialing", "waiting", "open", "leaving", "gone"}]
  /\ {inbound, leaving, crossed} \subseteq SUBSET Calls /\ {active, stream, turn} \subseteq 0..MaxCalls
  /\ shown \in [id : 0..MaxCalls,
                status : Terminal \cup {"dialing", "ringing", "connecting", "active"}]

\* No call of the SDK goes on without the application holding it, with one
\* exception: a call that came in while a dial waited for connect, which the
\* dial's call, or its failure, replaces without rejecting it.
OrphansOnlyByCrossing ==
  \A c \in Calls : Present(c) => c = active \/ c \in crossed

\* The call shown as active is one whose audio flows, and its audio is what
\* is heard, as long as no call crossed a dial.
ShownIsHeard ==
  crossed = {} => /\ shown.status = "active" => Present(shown.id) /\ sdk[shown.id] # "waiting"
                  /\ stream # 0 => stream = active

\* A call that was shown as over is not shown as live again by a late event.
EndedStaysEnded ==
  [][shown.status \in Terminal /\ shown'.id = shown.id /\ crossed = {}
       => shown'.status \in Terminal]_phoneVars

\* A dial that was hung up or superseded before connect was answered never
\* becomes the active call, and its call object is closed.
CancelledNeverBinds ==
  [][\A c \in Calls : sdk[c] = "dialing" /\ turn # c => active' # c]_phoneVars
CancelledIsClosed ==
  \A c \in Calls : (sdk[c] = "dialing" /\ turn # c) ~> sdk[c] = "gone"

\* A hangup ends its call, whether the SDK says so or not.
HangupEnds == \A c \in Calls : c \in leaving ~> sdk[c] = "gone"
=============================================================================
