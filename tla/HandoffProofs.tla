--------------------------- MODULE HandoffProofs ---------------------------
(***************************************************************************)
(* Proofs about Handoff, for every set Kinds of owner endpoints.  TypeOK   *)
(* is inductive.  MoveInv ties the history variable moves to the state of  *)
(* the handoff, LegInv the state to what Twilio has reported; together     *)
(* they carry the remaining properties.                                    *)
(***************************************************************************)
EXTENDS Handoff, TLAPS

Seeking == {"requested", "owner_ringing", "accepted"}

\* The caller is told to move when the state leaves Seeking for connecting.
MoveInv ==
    /\ moves <= 1
    /\ state \in Seeking \cup {"none"} => moves = 0

\* The owner's leg is created once, by an accepted request, and is asked to end
\* only when its sid is known, which is after it was created.
LegInv ==
    /\ state = "none" => /\ create = "idle" /\ redirect = "idle" /\ move = "idle"
                         /\ ownerLeg = "none" /\ has = {} /\ ending = {}
    /\ "owner" \in ending => "sid" \in has
    /\ create = "sent" => ownerLeg = "none" /\ "sid" \notin has
    /\ create = "acted" \/ "sid" \in has => ownerLeg # "none"

\* The leg answers or it does not; what follows an answer is reported after it.
SeenInv ==
    /\ ownerLeg \in {"none", "ringing"} => "answered" \notin seen /\ "no-answer" \notin seen
    /\ ownerLeg \in {"up", "joined"} => "answered" \in seen
    /\ "no-answer" \in seen => ownerLeg = "gone" /\ "answered" \notin seen
    /\ "confirmed" \in seen \/ "joined" \in seen => "answered" \in seen

\* An owner who has accepted has answered, and confirmed if that is asked for.
AcceptInv ==
    /\ state = "accepted" => kind = "pstn" /\ "confirmed" \in seen
    /\ moves > 0 => "answered" \in seen
    /\ NoMoveWithoutOwner

\* A handoff that timed out is over.
CauseInv == cause = "timed_out" => state = "fallback_message" /\ moves = 0

-----------------------------------------------------------------------------
(* Types: the sets, and everything else *)

SetTypes ==
    /\ has \subseteq {"sid", "timer", "moved"}
    /\ ended \subseteq {"owner", "caller"}
    /\ ending \subseteq {"owner", "caller"}
    /\ seen \subseteq Callback

ValueTypes ==
    /\ kind \in Kinds
    /\ state \in HandoffState
    /\ cause \in {"none", "completed", "declined", "timed_out", "failed", "cancelled"}
    /\ create \in {"idle", "sent", "acted"}
    /\ redirect \in {"idle", "sent", "acted"}
    /\ move \in {"idle", "sent", "acted"}
    /\ ownerLeg \in {"none", "ringing", "up", "joined", "gone"}
    /\ callerLeg \in {"assistant", "conference", "gone"}
    /\ moves \in Nat

\* The type invariant is that of the sets and that of the values.
LEMMA TypeOKSplit == TypeOK <=> SetTypes /\ ValueTypes
BY Zenon DEF TypeOK, SetTypes, ValueTypes

\* Ending what is left of a handoff keeps the types.
LEMMA EndTypes ==
    ASSUME SetTypes, NEW legs, NEW also, legs \subseteq {"owner", "caller"},
           also \subseteq {"owner", "caller"}, End(legs, also)
    PROVE  ended' \subseteq {"owner", "caller"} /\ ending' \subseteq {"owner", "caller"}
BY Zenon DEF SetTypes, End

\* Fallback keeps the types of the sets.
LEMMA FallbackSets ==
    ASSUME SetTypes, NEW c, Fallback(c), UNCHANGED seen PROVE SetTypes'
<1>1. KnownOwner \subseteq {"owner", "caller"}
    BY Zenon DEF KnownOwner
<1>2. CASE End(KnownOwner, {}) /\ has' = has \ {"moved", "timer"}
    BY <1>1, <1>2, EndTypes, Zenon DEF SetTypes
<1> QED BY <1>2, Zenon DEF Fallback, SetTypes

\* So does the completion of the move.
LEMMA CompleteSets ==
    ASSUME SetTypes, NEW legs, NEW also, legs \subseteq {"owner", "caller"},
           also \subseteq {"owner", "caller"}, CompleteAfter(legs, also), UNCHANGED seen
    PROVE  SetTypes'
BY EndTypes, Zenon DEF SetTypes, CompleteAfter

\* So does a caller who has gone.
LEMMA CallerGoneSets ==
    ASSUME SetTypes, NEW also, also \subseteq {"owner", "caller"}, CallerGone(also),
           UNCHANGED seen
    PROVE  SetTypes'
<1>1. KnownOwner \subseteq {"owner", "caller"}
    BY Zenon DEF KnownOwner
<1>2. CASE CompleteAfter(KnownOwner, also)
    BY <1>1, <1>2, CompleteSets
<1>3. CASE End({}, also) /\ UNCHANGED has
    BY <1>3, EndTypes, Zenon DEF SetTypes
<1>4. CASE End(KnownOwner, also) /\ has' = has \ {"moved", "timer"}
    BY <1>1, <1>4, EndTypes, Zenon DEF SetTypes
<1> QED BY <1>2, <1>3, <1>4, Zenon DEF CallerGone

\* So does a status of the owner leg.
LEMMA OwnerStatusSets ==
    ASSUME SetTypes, NEW s, OnOwnerStatus(s), UNCHANGED seen PROVE SetTypes'
<1>1. CASE UNCHANGED <<has, ended, ending>>
    BY <1>1, Zenon DEF SetTypes
<1>2. CASE CompleteAfter({"caller"}, {})
    BY <1>2, CompleteSets
<1>3. CASE \E c : Fallback(c)
    BY <1>3, FallbackSets
<1> QED
    BY <1>1, <1>2, <1>3, Zenon DEF OnOwnerStatus, Ring, OnAnswered, OnConfirmed,
       OnOwnerJoined, Claim, Ignore, recVars, restVars

\* So does whatever callback is delivered.
LEMMA DeliverSets ==
    ASSUME SetTypes, NEW e, Deliver(e) PROVE SetTypes'
<1>1. UNCHANGED seen
    BY Zenon DEF Deliver, worldVars
<1>2. CASE OnOwnerStatus(e)
    BY <1>1, <1>2, OwnerStatusSets
<1>3. CASE CallerGone({})
    BY <1>1, <1>3, CallerGoneSets
<1>4. CASE OnOwnerGone
    <2>1. CASE CompleteAfter({"caller"}, {})
        BY <1>1, <2>1, CompleteSets
    <2> QED BY <1>1, <1>4, <2>1, OwnerStatusSets, Zenon DEF OnOwnerGone
<1>5. CASE OnConferenceEnded
    <2>1. KnownOwner \cup {"caller"} \subseteq {"owner", "caller"}
        BY Zenon DEF KnownOwner
    <2>2. CASE CompleteAfter(KnownOwner \cup {"caller"}, {})
        BY <1>1, <2>1, <2>2, CompleteSets
    <2>3. CASE Ignore
        BY <1>1, <2>3, Zenon DEF Ignore, recVars, restVars, SetTypes
    <2> QED BY <1>5, <2>2, <2>3, Zenon DEF OnConferenceEnded
<1> QED BY <1>2, <1>3, <1>4, <1>5, Zenon DEF Deliver

\* So does every step.
LEMMA SetStep == SetTypes /\ [Next]_vars => SetTypes'
<1> SUFFICES ASSUME SetTypes, [Next]_vars PROVE SetTypes'
    OBVIOUS
<1>1. CASE Request
    BY <1>1, FallbackSets, Zenon DEF Request, SetTypes, worldVars
<1>2. CASE CreateAnswers \/ MoveAnswers \/ RedirectAnswers
    BY <1>2, Zenon DEF CreateAnswers, MoveAnswers, RedirectAnswers, SetTypes, recVars,
                       worldVars
<1>3. CASE CreateFails \/ RedirectFails
    BY <1>3, FallbackSets, Zenon DEF CreateFails, RedirectFails, worldVars
<1>4. CASE \E e \in Callback : Deliver(e)
    BY <1>4, DeliverSets
<1>5. CASE OnDeadline
    BY <1>5, FallbackSets, Zenon DEF OnDeadline, Keep, SetTypes, worldVars
<1>6. CASE Hangup
    BY <1>6, CallerGoneSets, Zenon DEF Hangup, worldVars
<1>7. CASE MoveFails
    BY <1>7, FallbackSets, Zenon DEF MoveFails, SetTypes, worldVars
<1>8. CASE EndsLeg
    BY <1>8, Zenon DEF EndsLeg, OwnerLeaves, CallerLeaves, TearDown, SetTypes, recVars,
                       worldVars, Callback, OwnerStatus
<1>9. CASE CreatesOwnerLeg \/ OwnerEntersConference \/ CallerEntersConference
    BY <1>9, Zenon DEF CreatesOwnerLeg, OwnerEntersConference, CallerEntersConference,
                       SetTypes, recVars, Callback, OwnerStatus
<1>10. CASE OwnerPicksUp \/ OwnerDoesNotPickUp \/ OwnerPresses1
    BY <1>10, Zenon DEF OwnerPicksUp, OwnerDoesNotPickUp, OwnerPresses1, SetTypes, recVars,
                        restVars, Callback, OwnerStatus
<1>11. CASE OwnerHangsUp \/ CallerHangsUp
    BY <1>11, Zenon DEF OwnerHangsUp, CallerHangsUp, OwnerLeaves, CallerLeaves, TearDown,
                        SetTypes, recVars, restVars, Callback, OwnerStatus
<1>12. CASE UNCHANGED vars
    BY <1>12, Zenon DEF vars, SetTypes, recVars, restVars, worldVars
<1> QED
    BY <1>1, <1>2, <1>3, <1>4, <1>5, <1>6, <1>7, <1>8, <1>9, <1>10, <1>11, <1>12, Zenon
       DEF Next, ControllerStep, WorldStep

\* Every step keeps the types of the values.
LEMMA ValueStep == ValueTypes /\ [Next]_vars => ValueTypes'
<1> SUFFICES ASSUME ValueTypes, [Next]_vars PROVE ValueTypes'
    OBVIOUS
<1> USE DEF ValueTypes, HandoffState, ActiveProgress, TerminalStates, Keep, Ignore, recVars,
            restVars, worldVars
<1>1. CASE Request \/ CreateFails \/ RedirectFails \/ MoveFails \/ OnDeadline
    BY <1>1, SMT DEF Request, CreateFails, RedirectFails, MoveFails, OnDeadline, Fallback
<1>2. CASE CreateAnswers \/ MoveAnswers \/ RedirectAnswers
    BY <1>2, SMT DEF CreateAnswers, MoveAnswers, RedirectAnswers
<1>3. CASE Hangup
    BY <1>3, SMT DEF Hangup, CallerGone, CompleteAfter
<1>4. ASSUME NEW e \in Callback, Deliver(e) PROVE ValueTypes'
    <2>1. CASE OnOwnerStatus(e)
        BY <1>4, <2>1, SMT DEF Deliver, OnOwnerStatus, Ring, OnAnswered, OnConfirmed,
           OnOwnerJoined, Claim, CompleteAfter, Fallback
    <2>2. CASE CallerGone({})
        BY <1>4, <2>2, SMT DEF Deliver, CallerGone, CompleteAfter
    <2>3. CASE OnOwnerGone
        BY <1>4, <2>3, SMT DEF Deliver, OnOwnerGone, OnOwnerStatus, CompleteAfter, Fallback
    <2>4. CASE OnConferenceEnded
        BY <1>4, <2>4, SMT DEF Deliver, OnConferenceEnded, CompleteAfter
    <2> QED BY <1>4, <2>1, <2>2, <2>3, <2>4, Zenon DEF Deliver
<1>5. CASE CreatesOwnerLeg \/ OwnerEntersConference \/ CallerEntersConference
    BY <1>5, SMT DEF CreatesOwnerLeg, OwnerEntersConference, CallerEntersConference
<1>6. CASE EndsLeg \/ OwnerHangsUp \/ CallerHangsUp
    BY <1>6, SMT DEF EndsLeg, OwnerHangsUp, CallerHangsUp, OwnerLeaves, CallerLeaves,
                     TearDown
<1>7. CASE OwnerPicksUp \/ OwnerDoesNotPickUp \/ OwnerPresses1
    BY <1>7, SMT DEF OwnerPicksUp, OwnerDoesNotPickUp, OwnerPresses1
<1>8. CASE UNCHANGED vars
    BY <1>8, SMT DEF vars
<1> QED
    BY <1>1, <1>2, <1>3, <1>4, <1>5, <1>6, <1>7, <1>8, Zenon
       DEF Next, ControllerStep, WorldStep

\* The record, the requests to Twilio and the reported callbacks are well formed in
\* every reachable state, for every mix of endpoint kinds.
THEOREM TypeCorrect == Spec => []TypeOK
<1>1. Init => SetTypes /\ ValueTypes
    BY SMT DEF Init, SetTypes, ValueTypes, HandoffState
<1>2. (SetTypes /\ ValueTypes) /\ [Next]_vars => (SetTypes /\ ValueTypes)'
    BY SetStep, ValueStep
<1> QED BY <1>1, <1>2, TypeOKSplit, PTL DEF Spec

-----------------------------------------------------------------------------
(* The caller is moved once *)

\* A move is told only from a state in which nothing has moved.
LEMMA MoveStep ==
    TypeOK /\ MoveInv /\ [Next]_vars => MoveInv'
<1> SUFFICES ASSUME TypeOK, MoveInv, [Next]_vars PROVE MoveInv'
    OBVIOUS
<1>0. moves \in Nat
    BY DEF TypeOK
<1> USE <1>0 DEF MoveInv, Seeking, Keep, Ignore, recVars, restVars
<1>1. CASE Request \/ CreateFails \/ RedirectFails \/ MoveFails \/ OnDeadline
    BY <1>1, SMT DEF Request, CreateFails, RedirectFails, MoveFails, OnDeadline, Fallback
<1>2. CASE CreateAnswers \/ MoveAnswers \/ RedirectAnswers
    BY <1>2, SMT DEF CreateAnswers, MoveAnswers, RedirectAnswers
<1>3. CASE Hangup
    BY <1>3, SMT DEF Hangup, CallerGone, CompleteAfter
<1>4. ASSUME NEW e \in Callback, Deliver(e) PROVE MoveInv'
    <2>1. CASE OnOwnerStatus(e)
        BY <1>4, <2>1, SMT DEF Deliver, OnOwnerStatus, Ring, OnAnswered, OnConfirmed,
           OnOwnerJoined, Claim, CompleteAfter, Fallback
    <2>2. CASE CallerGone({})
        BY <1>4, <2>2, SMT DEF Deliver, CallerGone, CompleteAfter
    <2>3. CASE OnOwnerGone
        BY <1>4, <2>3, SMT DEF Deliver, OnOwnerGone, OnOwnerStatus, CompleteAfter, Fallback
    <2>4. CASE OnConferenceEnded
        BY <1>4, <2>4, SMT DEF Deliver, OnConferenceEnded, CompleteAfter
    <2> QED BY <1>4, <2>1, <2>2, <2>3, <2>4, Zenon DEF Deliver
<1>5. CASE WorldStep \/ UNCHANGED vars
    BY <1>5, SMT DEF WorldStep, CreatesOwnerLeg, OwnerEntersConference,
       CallerEntersConference, EndsLeg, OwnerHangsUp, CallerHangsUp, OwnerPicksUp,
       OwnerDoesNotPickUp, OwnerPresses1, vars
<1> QED
    BY <1>1, <1>2, <1>3, <1>4, <1>5, Zenon DEF Next, ControllerStep

\* "Safe only because the caller is moved into the conference at most once" holds
\* however often and in whatever order the owner's leg reports that it answered,
\* confirmed or joined.
THEOREM CallerMovesOnce == Spec => []MovesCallerOnce
<1>1. Init => MoveInv
    BY SMT DEF Init, MoveInv
<1>2. MoveInv => MovesCallerOnce
    BY DEF MoveInv, MovesCallerOnce
<1> QED BY <1>1, <1>2, MoveStep, TypeCorrect, PTL DEF Spec

-----------------------------------------------------------------------------
(* The end is final *)

\* No step leaves a terminal state.
LEMMA TerminalStep == [Next]_vars => (Terminal => state' = state)
<1> SUFFICES ASSUME [Next]_vars, Terminal PROVE state' = state
    OBVIOUS
<1> USE DEF Terminal, TerminalStates, Keep, Ignore, recVars, restVars
<1>1. CASE Request \/ CreateFails \/ RedirectFails \/ MoveFails \/ OnDeadline
    BY <1>1, SMT DEF Request, CreateFails, RedirectFails, MoveFails, OnDeadline, Fallback
<1>2. CASE CreateAnswers \/ MoveAnswers \/ RedirectAnswers
    BY <1>2, SMT DEF CreateAnswers, MoveAnswers, RedirectAnswers
<1>3. CASE Hangup
    BY <1>3, SMT DEF Hangup, CallerGone, CompleteAfter
<1>4. CASE \E e \in Callback : Deliver(e)
    BY <1>4, SMT DEF Deliver, OnOwnerStatus, CallerGone, OnOwnerGone, OnConferenceEnded,
       CompleteAfter
<1>5. CASE WorldStep \/ UNCHANGED vars
    BY <1>5, SMT DEF WorldStep, CreatesOwnerLeg, OwnerEntersConference,
       CallerEntersConference, EndsLeg, OwnerHangsUp, CallerHangsUp, OwnerPicksUp,
       OwnerDoesNotPickUp, OwnerPresses1, vars
<1> QED
    BY <1>1, <1>2, <1>3, <1>4, <1>5, Zenon DEF Next, ControllerStep

\* A handoff that is completed, cancelled or given up is not revived by what comes
\* late: the answer to a request, its error, a callback or the deadline.
THEOREM EndIsFinal == Spec => TerminalStays
BY TerminalStep, PTL DEF Spec, TerminalStays

-----------------------------------------------------------------------------
(* What has been reported of the owner's leg *)

\* Every step keeps what the legs are.
LEMMA LegStep == LegInv /\ [Next]_vars => LegInv'
<1> SUFFICES ASSUME LegInv, [Next]_vars PROVE LegInv'
    OBVIOUS
<1> USE DEF LegInv, KnownOwner, End, Keep, Ignore, recVars, restVars, worldVars
<1>1. CASE Request
    BY <1>1, Zenon DEF Request, Fallback
<1>2. CASE CreateAnswers \/ MoveAnswers \/ RedirectAnswers
    BY <1>2, Zenon DEF CreateAnswers, MoveAnswers, RedirectAnswers
<1>3. CASE CreateFails
    BY <1>3, Zenon DEF CreateFails, Fallback
<1>4. CASE RedirectFails
    BY <1>4, Zenon DEF RedirectFails, Fallback
<1>5. CASE MoveFails
    BY <1>5, Zenon DEF MoveFails, Fallback
<1>6. CASE OnDeadline
    BY <1>6, Zenon DEF OnDeadline, Fallback
<1>7. CASE Hangup
    BY <1>7, Zenon DEF Hangup, CallerGone, CompleteAfter
<1>8. ASSUME NEW e \in Callback, Deliver(e) PROVE LegInv'
    <2>1. CASE OnOwnerStatus(e)
        BY <1>8, <2>1, Zenon DEF Deliver, OnOwnerStatus, Ring, OnAnswered, OnConfirmed,
           OnOwnerJoined, Claim, CompleteAfter, Fallback
    <2>2. CASE CallerGone({})
        BY <1>8, <2>2, Zenon DEF Deliver, CallerGone, CompleteAfter
    <2>3. CASE OnOwnerGone
        BY <1>8, <2>3, Zenon DEF Deliver, OnOwnerGone, OnOwnerStatus, CompleteAfter, Fallback
    <2>4. CASE OnConferenceEnded
        BY <1>8, <2>4, Zenon DEF Deliver, OnConferenceEnded, CompleteAfter
    <2> QED BY <1>8, <2>1, <2>2, <2>3, <2>4, Zenon DEF Deliver
<1>9. CASE CreatesOwnerLeg \/ OwnerEntersConference \/ CallerEntersConference
    BY <1>9, Zenon DEF CreatesOwnerLeg, OwnerEntersConference, CallerEntersConference
<1>10. CASE EndsLeg
    BY <1>10, Zenon DEF EndsLeg, OwnerLeaves, CallerLeaves, TearDown, Together
<1>11. CASE OwnerHangsUp \/ CallerHangsUp
    BY <1>11, Zenon DEF OwnerHangsUp, CallerHangsUp, OwnerLeaves, CallerLeaves,
                     TearDown, Together
<1>12. CASE OwnerPicksUp \/ OwnerDoesNotPickUp \/ OwnerPresses1
    BY <1>12, Zenon DEF OwnerPicksUp, OwnerDoesNotPickUp, OwnerPresses1
<1>13. CASE UNCHANGED vars
    BY <1>13, Zenon DEF vars
<1> QED
    BY <1>1, <1>2, <1>3, <1>4, <1>5, <1>6, <1>7, <1>8, <1>9, <1>10, <1>11, <1>12, <1>13,
       Zenon DEF Next, ControllerStep, WorldStep

\* The controller only asks: the world is changed by its own steps.
LEMMA ControllerKeepsLegs == ControllerStep => UNCHANGED worldVars
BY Zenon DEF ControllerStep, Request, CreateAnswers, CreateFails, Deliver, OnDeadline, Hangup,
       MoveAnswers, MoveFails, RedirectAnswers, RedirectFails

\* What may be reported goes on agreeing with the leg.
LEMMA SeenStep == LegInv /\ SeenInv /\ [Next]_vars => SeenInv'
<1> SUFFICES ASSUME LegInv, SeenInv, [Next]_vars PROVE SeenInv'
    OBVIOUS
<1> USE DEF SeenInv
<1>1. CASE ControllerStep \/ UNCHANGED vars
    BY <1>1, ControllerKeepsLegs, Zenon DEF worldVars, vars
<1>2. CASE CreatesOwnerLeg
    BY <1>2, Zenon DEF CreatesOwnerLeg, LegInv
<1>3. CASE OwnerEntersConference
    BY <1>3, Zenon DEF OwnerEntersConference
<1>4. CASE CallerEntersConference
    BY <1>4, Zenon DEF CallerEntersConference
<1>5. CASE EndsLeg
    <2>1. CASE OwnerLeaves
        BY <2>1, Zenon DEF OwnerLeaves, TearDown, Together
    <2>2. CASE CallerLeaves
        BY <2>2, Zenon DEF CallerLeaves, TearDown, Together
    <2> QED BY <1>5, <2>1, <2>2, Zenon DEF EndsLeg, worldVars
<1>6. CASE OwnerHangsUp
    BY <1>6, Zenon DEF OwnerHangsUp, OwnerLeaves, TearDown, Together
<1>7. CASE CallerHangsUp
    BY <1>7, Zenon DEF CallerHangsUp, CallerLeaves, TearDown, Together
<1>8. CASE OwnerPicksUp
    BY <1>8, Zenon DEF OwnerPicksUp
<1>9. CASE OwnerDoesNotPickUp
    BY <1>9, Zenon DEF OwnerDoesNotPickUp
<1>10. CASE OwnerPresses1
    BY <1>10, Zenon DEF OwnerPresses1
<1> QED
    BY <1>1, <1>2, <1>3, <1>4, <1>5, <1>6, <1>7, <1>8, <1>9, <1>10, Zenon
       DEF Next, WorldStep

\* What may be delivered may be delivered again.
LEMMA SeenGrows == [Next]_vars => seen \subseteq seen'
<1>1. ASSUME OwnerLeaves \/ CallerLeaves PROVE seen \subseteq seen'
    BY <1>1, Zenon DEF OwnerLeaves, CallerLeaves, TearDown
<1>2. ASSUME WorldStep PROVE seen \subseteq seen'
    BY <1>1, <1>2, Zenon DEF WorldStep, CreatesOwnerLeg, OwnerEntersConference,
       CallerEntersConference, EndsLeg, OwnerHangsUp, CallerHangsUp, OwnerPicksUp,
       OwnerDoesNotPickUp, OwnerPresses1, worldVars
<1> QED BY <1>2, ControllerKeepsLegs, Zenon DEF Next, vars, worldVars

-----------------------------------------------------------------------------
(* The caller moves only to an owner who has agreed *)

\* A handoff is accepted only when the owner has agreed.
LEMMA AcceptStep ==
    TypeOK /\ MoveInv /\ SeenInv /\ AcceptInv /\ [Next]_vars => AcceptInv'
<1> SUFFICES ASSUME TypeOK, MoveInv, SeenInv, AcceptInv, [Next]_vars PROVE AcceptInv'
    OBVIOUS
<1>0. seen \subseteq seen' /\ kind' = kind /\ moves \in Nat
    <2>1. kind' = kind
        BY Zenon DEF Next, ControllerStep, WorldStep, Request, CreateAnswers, CreateFails,
           Deliver, OnDeadline, Hangup, MoveAnswers, MoveFails, RedirectAnswers,
           RedirectFails, OnOwnerStatus, Ring, OnAnswered, OnConfirmed, OnOwnerJoined,
           Claim, CompleteAfter, CallerGone, OnOwnerGone, OnConferenceEnded, Keep, Ignore,
           CreatesOwnerLeg, OwnerEntersConference, CallerEntersConference, EndsLeg,
           OwnerHangsUp, CallerHangsUp, OwnerPicksUp, OwnerDoesNotPickUp, OwnerPresses1,
           vars, recVars
    <2> QED BY <2>1, SeenGrows DEF TypeOK
<1>1. CASE moves' = moves /\ (state' = "accepted" => state = "accepted")
    BY <1>0, <1>1, Zenon DEF AcceptInv, NoMoveWithoutOwner
<1>2. ASSUME NEW e \in seen, kind = "pstn" => e = "joined",
             kind # "pstn" => e \in {"joined", "answered"}, OnOwnerJoined
      PROVE  AcceptInv' \/ (moves' = moves /\ state' = state)
    <2>1. "answered" \in seen
        BY <1>2, Zenon DEF SeenInv
    <2>2. CASE Ignore
        BY <2>2, Zenon DEF Ignore, recVars
    <2>3. CASE ~Ignore
        <3>1. state' = "connecting" /\ (kind = "pstn" => state = "accepted")
            BY <1>2, <2>3, Zenon DEF OnOwnerJoined, Claim
        <3> QED BY <1>0, <1>2, <2>1, <3>1, Zenon DEF AcceptInv, NoMoveWithoutOwner
    <2> QED BY <2>2, <2>3
<1>3. ASSUME NEW e \in Callback, Deliver(e) PROVE AcceptInv'
    <2>1. CASE OnOwnerStatus(e)
        <3>1. CASE e = "joined" /\ OnOwnerJoined
            BY <1>1, <1>2, <1>3, <3>1, Zenon DEF Deliver
        <3>2. CASE e = "answered" /\ kind = "client" /\ OnOwnerJoined
            BY <1>1, <1>2, <1>3, <3>2, Zenon DEF Deliver
        <3>3. CASE e = "confirmed" /\ OnConfirmed
            <4>1. "confirmed" \in seen /\ "answered" \in seen
                BY <1>3, <3>3, Zenon DEF Deliver, SeenInv
            <4> QED BY <1>0, <3>3, <4>1, Zenon DEF OnConfirmed, Ignore, recVars, AcceptInv,
                       NoMoveWithoutOwner
        <3>4. CASE Ring \/ Ignore
            BY <1>1, <3>4, SMT DEF Ring, Ignore, recVars
        <3>5. CASE CompleteAfter({"caller"}, {})
            BY <1>1, <3>5, SMT DEF CompleteAfter
        <3>6. CASE \E c : Fallback(c)
            BY <1>1, <3>6, SMT DEF Fallback
        <3> QED BY <2>1, <3>1, <3>2, <3>3, <3>4, <3>5, <3>6, Zenon
                   DEF OnOwnerStatus, OnAnswered
    <2>2. CASE CallerGone({})
        BY <1>1, <2>2, SMT DEF CallerGone, CompleteAfter
    <2>3. CASE OnOwnerGone
        BY <1>1, <2>3, SMT DEF OnOwnerGone, OnOwnerStatus, CompleteAfter, Fallback, Ignore,
           recVars
    <2>4. CASE OnConferenceEnded
        BY <1>1, <2>4, SMT DEF OnConferenceEnded, CompleteAfter, Ignore, recVars
    <2> QED BY <1>3, <2>1, <2>2, <2>3, <2>4, Zenon DEF Deliver
<1>4. CASE Request \/ CreateFails \/ RedirectFails \/ MoveFails \/ OnDeadline
    BY <1>1, <1>4, SMT DEF Request, CreateFails, RedirectFails, MoveFails, OnDeadline,
                           Fallback
<1>5. CASE CreateAnswers \/ MoveAnswers \/ RedirectAnswers
    BY <1>1, <1>5, SMT DEF CreateAnswers, MoveAnswers, RedirectAnswers, recVars
<1>6. CASE Hangup
    BY <1>1, <1>6, SMT DEF Hangup, CallerGone, CompleteAfter
<1>7. CASE WorldStep \/ UNCHANGED vars
    BY <1>1, <1>7, SMT DEF WorldStep, CreatesOwnerLeg, OwnerEntersConference,
       CallerEntersConference, EndsLeg, OwnerHangsUp, CallerHangsUp, OwnerPicksUp,
       OwnerDoesNotPickUp, OwnerPresses1, vars, recVars
<1> QED
    BY <1>3, <1>4, <1>5, <1>6, <1>7, Zenon DEF Next, ControllerStep

\* The caller is only taken to an owner who is on the line and agreed: a client who
\* answered, a PSTN owner who pressed 1 and then entered the conference.
THEOREM OwnerAgreedFirst == Spec => []NoMoveWithoutOwner
<1>1. Init => MoveInv /\ LegInv /\ SeenInv /\ AcceptInv
    BY SMT DEF Init, MoveInv, LegInv, SeenInv, AcceptInv, NoMoveWithoutOwner
<1>2. AcceptInv => NoMoveWithoutOwner
    BY DEF AcceptInv
<1> QED BY <1>1, <1>2, MoveStep, LegStep, SeenStep, AcceptStep, TypeCorrect, PTL DEF Spec

-----------------------------------------------------------------------------
(* A timeout never undoes a move *)

\* A step that sets the cause to timed_out finds the caller not moved.
LEMMA TimeoutFindsNoMove ==
    ASSUME MoveInv, SeenInv, AcceptInv, TypeOK, [Next]_vars, cause' = "timed_out",
           cause # "timed_out"
    PROVE  state' = "fallback_message" /\ moves' = 0
<1> USE DEF Keep, Ignore, recVars, restVars
<1>0. moves \in Nat /\ state \in HandoffState
    BY DEF TypeOK
<1>1. CASE OnDeadline
    <2>1. state \in {"none", "requested", "owner_ringing"}
        BY <1>0, <1>1, SMT DEF OnDeadline, Fallback, Terminal, ActiveProgress,
                               TerminalStates, HandoffState
    <2> QED BY <1>1, <2>1, SMT DEF OnDeadline, Fallback, Terminal, MoveInv, Seeking
<1>2. ASSUME NEW e \in Callback, Deliver(e) PROVE state' = "fallback_message" /\ moves' = 0
    <2>1. CASE e = "no-answer" /\ Fallback("timed_out")
        <3>1. "answered" \notin seen
            BY <1>2, <2>1, Zenon DEF Deliver, SeenInv
        <3>2. moves = 0
            BY <1>0, <3>1, SMT DEF AcceptInv
        <3> QED BY <2>1, <3>2, SMT DEF Fallback
    <2>2. CASE OnOwnerStatus(e) /\ ~(e = "no-answer" /\ Fallback("timed_out"))
        BY <2>2, SMT DEF OnOwnerStatus, Ring, OnAnswered, OnConfirmed, OnOwnerJoined, Claim,
           CompleteAfter, Fallback
    <2>3. CASE CallerGone({})
        BY <2>3, SMT DEF CallerGone, CompleteAfter
    <2>4. CASE OnOwnerGone
        BY <2>4, SMT DEF OnOwnerGone, OnOwnerStatus, CompleteAfter, Fallback
    <2>5. CASE OnConferenceEnded
        BY <2>5, SMT DEF OnConferenceEnded, CompleteAfter
    <2> QED BY <1>2, <2>1, <2>2, <2>3, <2>4, <2>5, Zenon DEF Deliver
<1>3. CASE Request \/ CreateFails \/ RedirectFails \/ MoveFails
    BY <1>3, SMT DEF Request, CreateFails, RedirectFails, MoveFails, Fallback
<1>4. CASE CreateAnswers \/ MoveAnswers \/ RedirectAnswers
    BY <1>4, SMT DEF CreateAnswers, MoveAnswers, RedirectAnswers
<1>5. CASE Hangup
    BY <1>5, SMT DEF Hangup, CallerGone, CompleteAfter
<1>6. CASE WorldStep \/ UNCHANGED vars
    BY <1>6, SMT DEF WorldStep, CreatesOwnerLeg, OwnerEntersConference,
       CallerEntersConference, EndsLeg, OwnerHangsUp, CallerHangsUp, OwnerPicksUp,
       OwnerDoesNotPickUp, OwnerPresses1, vars
<1> QED BY <1>1, <1>2, <1>3, <1>4, <1>5, <1>6, Zenon DEF Next, ControllerStep

\* The caller is not told to move once the handoff has ended.
LEMMA NoMoveAfterEnd == [Next]_vars => (Terminal => moves' = moves)
<1> SUFFICES ASSUME [Next]_vars, Terminal PROVE moves' = moves
    OBVIOUS
<1> USE DEF Terminal, TerminalStates, Keep, Ignore, recVars, restVars
<1>1. CASE \E e \in Callback : Deliver(e)
    BY <1>1, SMT DEF Deliver, OnOwnerStatus, CallerGone, OnOwnerGone, OnConferenceEnded,
       CompleteAfter
<1>2. CASE ControllerStep /\ ~(\E e \in Callback : Deliver(e))
    BY <1>2, SMT DEF ControllerStep, Request, CreateAnswers, CreateFails, OnDeadline,
       Hangup, CallerGone, CompleteAfter, MoveAnswers, MoveFails, RedirectAnswers,
       RedirectFails, Fallback
<1>3. CASE WorldStep \/ UNCHANGED vars
    BY <1>3, SMT DEF WorldStep, CreatesOwnerLeg, OwnerEntersConference,
       CallerEntersConference, EndsLeg, OwnerHangsUp, CallerHangsUp, OwnerPicksUp,
       OwnerDoesNotPickUp, OwnerPresses1, vars
<1> QED BY <1>1, <1>2, <1>3 DEF Next

\* A handoff that times out has moved nobody, and falls back.
LEMMA CauseStep ==
    TypeOK /\ MoveInv /\ SeenInv /\ AcceptInv /\ CauseInv /\ [Next]_vars => CauseInv'
<1> SUFFICES ASSUME TypeOK, MoveInv, SeenInv, AcceptInv, CauseInv, [Next]_vars,
                    cause' = "timed_out"
             PROVE  state' = "fallback_message" /\ moves' = 0
    BY DEF CauseInv
<1>1. CASE cause # "timed_out"
    BY <1>1, TimeoutFindsNoMove
<1>2. CASE cause = "timed_out"
    <2>1. Terminal /\ state = "fallback_message" /\ moves = 0
        BY <1>2 DEF CauseInv, Terminal, TerminalStates
    <2> QED BY <2>1, TerminalStep, NoMoveAfterEnd
<1> QED BY <1>1, <1>2

\* Whatever the order of the deadline, the owner's acceptance and a late no-answer,
\* a handoff that ends as timed out is one whose caller was never told to move.
THEOREM TimeoutIsHarmless == Spec => []TimeoutNeverUndoesMove
<1>1. Init => MoveInv /\ LegInv /\ SeenInv /\ AcceptInv /\ CauseInv
    BY SMT DEF Init, MoveInv, LegInv, SeenInv, AcceptInv, CauseInv, NoMoveWithoutOwner
<1>2. CauseInv => TimeoutNeverUndoesMove
    BY DEF CauseInv, TimeoutNeverUndoesMove
<1> QED
    BY <1>1, <1>2, MoveStep, LegStep, SeenStep, AcceptStep, CauseStep, TypeCorrect,
       PTL DEF Spec

-----------------------------------------------------------------------------
(* The controller keeps the promise of a handoff *)

\* The moves of the state that the controller may make, and what they do to moves.
Leads ==
    \/ state' = state /\ moves' = moves
    \/ state = "none" /\ state' \in {"requested", "fallback_message"} /\ moves' = moves
    \/ state \in Seeking /\ state' \in Seeking /\ moves' = moves
    \/ state \in Seeking /\ state' = "connecting" /\ moves' = moves + 1
    \/ state = "connecting" /\ state' = "connected" /\ moves' = moves
    \/ state \in {"connecting", "connected"} /\ state' = "completed" /\ moves' = moves
    \/ state \in Seeking /\ state' = "cancelled" /\ moves' = moves
    \/ /\ state \in Seeking \cup {"connecting", "connected"}
       /\ state' = "fallback_message" /\ moves' = moves

\* Every step leads from a state to one the table has, or stays.
LEMMA StepLeads ==
    ASSUME TypeOK, LegInv, [Next]_vars PROVE Leads
<1>0. state \in HandoffState
    BY DEF TypeOK
<1> USE <1>0 DEF Leads, Seeking, HandoffState, ActiveProgress, TerminalStates, Terminal,
                 Keep, Ignore, recVars, restVars
<1>1. CASE Request
    BY <1>1, SMT DEF Request, Fallback
<1>2. CASE CreateFails \/ RedirectFails \/ MoveFails \/ OnDeadline
    <2>1. state # "none"
        BY <1>2, SMT DEF LegInv, CreateFails, RedirectFails, MoveFails, OnDeadline
    <2> QED BY <1>2, <2>1, SMT DEF CreateFails, RedirectFails, MoveFails, OnDeadline,
               Fallback
<1>3. CASE CreateAnswers \/ MoveAnswers \/ RedirectAnswers
    BY <1>3, SMT DEF CreateAnswers, MoveAnswers, RedirectAnswers
<1>4. CASE Hangup
    BY <1>4, SMT DEF Hangup, CallerGone, CompleteAfter, Bridged
<1>5. ASSUME NEW e \in Callback, Deliver(e) PROVE Leads
    <2>1. CASE OnOwnerStatus(e)
        BY <1>5, <2>1, SMT DEF Deliver, OnOwnerStatus, Ring, OnAnswered, OnConfirmed,
           OnOwnerJoined, Claim, CompleteAfter, Fallback, Bridged
    <2>2. CASE CallerGone({})
        BY <1>5, <2>2, SMT DEF Deliver, CallerGone, CompleteAfter, Bridged
    <2>3. CASE OnOwnerGone
        BY <1>5, <2>3, SMT DEF Deliver, OnOwnerGone, OnOwnerStatus, CompleteAfter, Fallback,
           Bridged
    <2>4. CASE OnConferenceEnded
        BY <1>5, <2>4, SMT DEF Deliver, OnConferenceEnded, CompleteAfter
    <2> QED BY <1>5, <2>1, <2>2, <2>3, <2>4, Zenon DEF Deliver
<1>6. CASE WorldStep \/ UNCHANGED vars
    BY <1>6, SMT DEF WorldStep, CreatesOwnerLeg, OwnerEntersConference,
       CallerEntersConference, EndsLeg, OwnerHangsUp, CallerHangsUp, OwnerPicksUp,
       OwnerDoesNotPickUp, OwnerPresses1, vars
<1> QED BY <1>1, <1>2, <1>3, <1>4, <1>5, <1>6, Zenon DEF Next, ControllerStep

\* What leads so is a step of the promise, or a stutter.
LEMMA LeadsKeepsPromise ==
    ASSUME TypeOK, Leads PROVE [Promise!PNext]_(Promise!promiseVars)
BY SMT DEF TypeOK, HandoffState, ActiveProgress, TerminalStates, Leads, Seeking,
       Promise!PNext, Promise!Seek, Promise!Take, Promise!Meet, Promise!Part,
       Promise!GiveUp, Promise!promiseVars

\* For every mix of endpoint kinds and every order of callbacks, answers, errors and
\* the deadline, the controller runs one handoff as promised.
THEOREM ControllerKeepsPromise == Spec => ImplementsPromise
<1>1. Init => LegInv /\ Promise!PInit
    BY SMT DEF Init, LegInv, Promise!PInit
<1>2. TypeOK /\ LegInv /\ [Next]_vars => [Promise!PNext]_(Promise!promiseVars)
    BY StepLeads, LeadsKeepsPromise
<1> QED
    BY <1>1, <1>2, LegStep, TypeCorrect, PTL DEF Spec, ImplementsPromise, Promise!PSpec
=============================================================================
