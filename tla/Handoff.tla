------------------------------ MODULE Handoff ------------------------------
(***************************************************************************)
(* The handoff of a caller to the owner over a Twilio conference: the      *)
(* machine of packages/core/src/handoff and the ConferenceHandoffController *)
(* of packages/adapters-cloud that drives it, for one handoff of one call. *)
(*                                                                         *)
(* The controller is a set of async handlers on one thread.  Each handler  *)
(* is split where it awaits Twilio: the request is sent, Twilio may act on *)
(* it, and the answer comes back later, or an error does, whether Twilio   *)
(* acted or not.  Callbacks come in any order, before or after the answers *)
(* to the requests they are about, and any number of times.                *)
(***************************************************************************)
EXTENDS Naturals, FiniteSets

CONSTANT Kinds  \* the kinds of owner endpoint considered

ASSUME HandoffAssumption == Kinds \subseteq {"client", "pstn", "invalid"}

VARIABLES
    \* InternalHandoff: owner.kind, state, cause; which of ownerCallSid ("sid"),
    \* timeoutId ("timer") and callerMovedToConference ("moved") are set; the legs
    \* with ownerLegEnded or callerLegEnded
    kind, state, cause, has, ended,
    \* requests to Twilio: create the owner leg, put it in the conference, move
    \* the caller there ("sent", "acted" on, or neither), and legs to be ended
    create, redirect, move, ending,
    \* Twilio: the two legs, and the callbacks it may deliver from now on
    ownerLeg, callerLeg, seen,
    \* history: how often the caller was told to move
    moves

recVars   == <<kind, state, cause, has, ended>>
restVars  == <<create, redirect, move, ending>>
worldVars == <<ownerLeg, callerLeg, seen>>
vars == <<recVars, restVars, worldVars, moves>>

OwnerStatus == {"ringing", "answered", "confirmed", "joined", "busy", "no-answer",
                "failed", "canceled"}
Callback == OwnerStatus \cup {"owner_gone", "caller_gone", "conference_end"}

TerminalStates == {"completed", "fallback_message", "cancelled"}
ActiveProgress == {"accepted", "connecting", "connected", "completed"}
HandoffState   == {"none", "requested", "owner_ringing"} \cup ActiveProgress
                     \cup TerminalStates

TypeOK ==
    /\ kind \in Kinds
    /\ state \in HandoffState
    /\ cause \in {"none", "completed", "declined", "timed_out", "failed", "cancelled"}
    /\ has \subseteq {"sid", "timer", "moved"}
    /\ ended \subseteq {"owner", "caller"}
    /\ create \in {"idle", "sent", "acted"}
    /\ redirect \in {"idle", "sent", "acted"}
    /\ move \in {"idle", "sent", "acted"}
    /\ ending \subseteq {"owner", "caller"}
    /\ ownerLeg \in {"none", "ringing", "up", "joined", "gone"}
    /\ callerLeg \in {"assistant", "conference", "gone"}
    /\ seen \subseteq Callback
    /\ moves \in Nat

Init ==
    /\ kind \in Kinds
    /\ state = "none" /\ cause = "none"
    /\ has = {} /\ ended = {}
    /\ create = "idle" /\ redirect = "idle" /\ move = "idle" /\ ending = {}
    /\ ownerLeg = "none" /\ callerLeg = "assistant" /\ seen = {}
    /\ moves = 0

-----------------------------------------------------------------------------
(* The machine, and the helpers of the controller *)

Terminal == state \in TerminalStates

\* hasBridgedHandoff
Bridged == "moved" \in has \/ state \in {"connecting", "connected", "completed"}

\* hangupOwner and endCaller: each leg is asked to end once, the owner's if its sid
\* is known.  "also" is what is asked without being recorded.
End(legs, also) ==
    /\ ended' = ended \cup legs
    /\ ending' = ending \cup also \cup (legs \ ended)

KnownOwner == IF "sid" \in has THEN {"owner"} ELSE {}

Ignore == UNCHANGED <<recVars, restVars, moves>>

\* Mutant: the cause is recorded as the state, and no fallback follows.
Fallback_Rests(c) ==
    /\ state' = c /\ cause' = c /\ has' = has \ {"timer"}
    /\ UNCHANGED <<ended, ending, moves>>

\* A transition to c and toFallback after it.  Only a terminal state keeps its
\* cause; fallback_message is entered again, from a request that fails late.
Fallback(c) ==
    \/ /\ state \in {"cancelled", "completed"}
       /\ UNCHANGED <<state, cause, has, ended, ending, moves>>
    \/ /\ state \notin {"cancelled", "completed"}
       /\ state' = "fallback_message"
       /\ cause' = IF Terminal THEN cause ELSE c
       /\ has' = has \ {"moved", "timer"}
       /\ End(KnownOwner, {})
       /\ UNCHANGED moves

\* completeAfterPartyGone, which ends the legs that are left
CompleteAfter(legs, also) ==
    /\ \/ /\ state \in {"connecting", "connected"}
          /\ state' = "completed" /\ cause' = "completed" /\ has' = has \ {"timer"}
       \/ /\ state \notin {"connecting", "connected"}
          /\ UNCHANGED <<state, cause, has>>
    /\ End(legs, also)
    /\ UNCHANGED <<kind, create, redirect, move, moves>>

Keep == UNCHANGED <<kind, create, redirect, move>>

-----------------------------------------------------------------------------
(* request, up to its await and after it *)

Request ==
    /\ state = "none" /\ callerLeg = "assistant"
    /\ \/ kind = "invalid" /\ Fallback("failed") /\ UNCHANGED create
       \/ /\ kind # "invalid"
          /\ state' = "requested" /\ has' = {"timer"} /\ create' = "sent"
          /\ UNCHANGED <<cause, ended, ending, moves>>
    /\ UNCHANGED <<kind, redirect, move, worldVars>>

CreateAnswers ==
    /\ create = "acted"
    /\ create' = "idle" /\ has' = has \cup {"sid"}
    /\ UNCHANGED <<kind, state, cause, ended, redirect, move, ending, worldVars, moves>>

CreateFails ==
    /\ create # "idle"
    /\ create' = "idle"
    /\ Fallback("failed")
    /\ UNCHANGED <<kind, redirect, move, worldVars>>

-----------------------------------------------------------------------------
(* onOwnerStatus and the other callbacks, up to their await *)

\* Mutant: every join moves the caller, whoever won before.
Claim_NoCas(accepted) ==
    \/ /\ accepted \/ state = "connecting"
       /\ state' = "connecting" /\ move' = "sent" /\ moves' = moves + 1
       /\ UNCHANGED <<kind, cause, has, ended, create, redirect, ending>>
    \/ ~(accepted \/ state = "connecting") /\ Ignore

\* claimCallerMove: only the accepted -> connecting winner tells the caller to move.
Claim(accepted) ==
    \/ /\ accepted /\ "moved" \notin has
       /\ state' = "connecting" /\ move' = "sent" /\ moves' = moves + 1
       /\ UNCHANGED <<kind, cause, has, ended, create, redirect, ending>>
    \/ ~(accepted /\ "moved" \notin has) /\ Ignore

Ring ==
    /\ state' = IF state = "requested" THEN "owner_ringing" ELSE state
    /\ UNCHANGED <<kind, cause, has, ended, restVars, moves>>

\* canApplyOwnerJoined and ownerAcceptsOnJoined: a client has accepted by joining,
\* a PSTN owner must have confirmed before.
OnOwnerJoined ==
    Claim(\/ state = "accepted"
          \/ kind # "pstn" /\ state \in {"requested", "owner_ringing"})

\* Mutant: the callback of a leg that answers is taken for one that joins.
OnAnswered_AnyKind == OnOwnerJoined

OnAnswered == (kind = "client" /\ OnOwnerJoined) \/ (kind # "client" /\ Ring)

\* The confirmed owner is put into the conference, if the leg's sid is known.
OnConfirmed ==
    LET confirms == kind = "pstn" /\ state \in {"requested", "owner_ringing", "accepted"}
    IN  \/ /\ confirms
           /\ state' = "accepted"
           /\ redirect' = IF "sid" \in has THEN "sent" ELSE redirect
           /\ UNCHANGED <<kind, cause, has, ended, create, move, ending, moves>>
        \/ ~confirms /\ Ignore

OnOwnerStatus(s) ==
    \/ Terminal /\ Ignore
    \/ /\ ~Terminal
       /\ \/ s = "ringing" /\ Ring
          \/ s = "answered" /\ OnAnswered
          \/ s = "confirmed" /\ OnConfirmed
          \/ s = "joined" /\ OnOwnerJoined
          \/ s \in {"busy", "canceled"} /\ Bridged /\ CompleteAfter({"caller"}, {})
          \/ s \in {"busy", "canceled"} /\ ~Bridged /\ Fallback("declined") /\ Keep
          \/ s = "no-answer" /\ Fallback("timed_out") /\ Keep
          \/ s = "failed" /\ Fallback("failed") /\ Keep

\* Mutant: a caller who hangs up is not told from one who never moved, and a
\* handoff that has ended is cancelled once more.
CallerGone_AnyState(also) ==
    /\ state' = "cancelled" /\ cause' = "cancelled"
    /\ has' = has \ {"moved", "timer"}
    /\ End(KnownOwner, also)
    /\ Keep /\ UNCHANGED moves

\* onCallerHangup; "also" is what its caller ends besides the owner's leg.
CallerGone(also) ==
    \/ Bridged /\ CompleteAfter(KnownOwner, also)
    \/ /\ ~Bridged /\ Terminal
       /\ End({}, also)
       /\ UNCHANGED <<state, cause, has, moves>> /\ Keep
    \/ /\ ~Bridged /\ ~Terminal
       /\ state' = "cancelled" /\ cause' = "cancelled"
       /\ has' = has \ {"moved", "timer"}
       /\ End(KnownOwner, also)
       /\ UNCHANGED moves /\ Keep

\* The owner's leg is over: interpretCompletedLeg makes it the end of the pair, or
\* a decline.
OnOwnerGone ==
    \/ Bridged /\ CompleteAfter({"caller"}, {})
    \/ ~Bridged /\ OnOwnerStatus("canceled")

OnConferenceEnded ==
    \/ Bridged /\ CompleteAfter(KnownOwner \cup {"caller"}, {})
    \/ ~Bridged /\ Ignore

\* Any callback Twilio has issued, for the first time or again.
Deliver(e) ==
    /\ state # "none" /\ e \in seen
    /\ \/ e \in OwnerStatus /\ OnOwnerStatus(e)
       \/ e = "caller_gone" /\ CallerGone({})
       \/ e = "owner_gone" /\ OnOwnerGone
       \/ e = "conference_end" /\ OnConferenceEnded
    /\ UNCHANGED worldVars

\* Mutant: the deadline also ends a handoff the owner has accepted.
OnDeadline_AnyTime ==
    /\ "timer" \in has
    /\ IF Terminal THEN has' = has \ {"timer"}
                        /\ UNCHANGED <<state, cause, ended, ending, moves>>
                   ELSE Fallback("timed_out")
    /\ Keep /\ UNCHANGED worldVars

OnDeadline ==
    /\ "timer" \in has
    /\ \/ /\ Terminal \/ state \in ActiveProgress
          /\ has' = has \ {"timer"}
          /\ UNCHANGED <<state, cause, ended, ending, moves>>
       \/ ~(Terminal \/ state \in ActiveProgress) /\ Fallback("timed_out")
    /\ Keep /\ UNCHANGED worldVars

\* TwilioRestTelephonyAdapter.hangup: the assistant's side ends the call.
Hangup ==
    /\ state # "none" /\ callerLeg # "gone"
    /\ CallerGone({"caller"})
    /\ UNCHANGED worldVars

-----------------------------------------------------------------------------
(* The answers to moveCallerOnce and onConfirmed *)

\* Mutant: the answer connects a handoff that ended in the meantime.
MoveAnswers_NoRecheck ==
    /\ move = "acted"
    /\ move' = "idle"
    /\ state' = "connected" /\ has' = (has \ {"timer"}) \cup {"moved"}
    /\ UNCHANGED <<kind, cause, ended, create, redirect, ending, worldVars, moves>>

MoveAnswers ==
    /\ move = "acted"
    /\ move' = "idle"
    /\ \/ /\ state = "connecting"
          /\ state' = "connected" /\ has' = (has \ {"timer"}) \cup {"moved"}
       \/ state # "connecting" /\ UNCHANGED <<state, has>>
    /\ UNCHANGED <<kind, cause, ended, create, redirect, ending, worldVars, moves>>

\* Mutant: the error of a move is swallowed.
MoveFails_Silent ==
    /\ move # "idle"
    /\ move' = "idle"
    /\ UNCHANGED <<recVars, create, redirect, ending, worldVars, moves>>

MoveFails ==
    /\ move # "idle"
    /\ move' = "idle"
    /\ \/ state = "connecting" /\ Fallback("failed")
       \/ state # "connecting" /\ UNCHANGED <<state, cause, has, ended, ending, moves>>
    /\ UNCHANGED <<kind, create, redirect, worldVars>>

RedirectAnswers ==
    /\ redirect = "acted"
    /\ redirect' = "idle"
    /\ UNCHANGED <<recVars, create, move, ending, worldVars, moves>>

RedirectFails ==
    /\ redirect # "idle"
    /\ redirect' = "idle"
    /\ Fallback("failed")
    /\ UNCHANGED <<kind, create, move, worldVars>>

-----------------------------------------------------------------------------
(* Twilio and the two parties (external) *)

Together == ownerLeg = "joined" /\ callerLeg = "conference"

\* Either party leaving the conference tears it down (endConferenceOnExit).
TearDown ==
    /\ Together
    /\ ownerLeg' = "gone" /\ callerLeg' = "gone"
    /\ seen' = seen \cup {"owner_gone", "caller_gone", "conference_end"}

OwnerLeaves ==
    \/ TearDown
    \/ /\ ~Together
       /\ ownerLeg' = "gone" /\ callerLeg' = callerLeg
       /\ seen' = seen \cup {IF ownerLeg = "ringing" THEN "canceled" ELSE "owner_gone"}

CallerLeaves ==
    \/ TearDown
    \/ /\ ~Together
       /\ callerLeg' = "gone" /\ ownerLeg' = ownerLeg
       /\ seen' = seen \cup {"caller_gone"}

CreatesOwnerLeg ==
    /\ create = "sent" /\ create' = "acted"
    /\ ownerLeg' = "ringing" /\ seen' = seen \cup {"ringing"}
    /\ UNCHANGED <<recVars, callerLeg, redirect, move, ending, moves>>

OwnerEntersConference ==
    /\ redirect = "sent" /\ redirect' = "acted"
    /\ \/ ownerLeg = "up" /\ ownerLeg' = "joined" /\ seen' = seen \cup {"joined"}
       \/ ownerLeg # "up" /\ UNCHANGED <<ownerLeg, seen>>
    /\ UNCHANGED <<recVars, callerLeg, create, move, ending, moves>>

CallerEntersConference ==
    /\ move = "sent" /\ callerLeg # "gone" /\ move' = "acted"
    /\ callerLeg' = "conference"
    /\ UNCHANGED <<recVars, ownerLeg, seen, create, redirect, ending, moves>>

\* A request to end a leg is carried out, or it is refused or comes too late.
EndsLeg ==
    /\ \E leg \in ending :
         /\ ending' = ending \ {leg}
         /\ \/ leg = "owner" /\ ownerLeg # "gone" /\ OwnerLeaves
            \/ leg = "caller" /\ callerLeg # "gone" /\ CallerLeaves
            \/ UNCHANGED worldVars
    /\ UNCHANGED <<recVars, create, redirect, move, moves>>

OwnerPicksUp ==
    /\ ownerLeg = "ringing"
    /\ \/ /\ kind = "client"
          /\ ownerLeg' = "joined" /\ seen' = seen \cup {"answered", "joined"}
       \/ /\ kind # "client"
          /\ ownerLeg' = "up" /\ seen' = seen \cup {"answered"}
    /\ UNCHANGED <<recVars, restVars, callerLeg, moves>>

OwnerDoesNotPickUp ==
    /\ ownerLeg = "ringing" /\ ownerLeg' = "gone"
    /\ \E e \in {"busy", "no-answer", "failed", "canceled"} : seen' = seen \cup {e}
    /\ UNCHANGED <<recVars, restVars, callerLeg, moves>>

OwnerPresses1 ==
    /\ ownerLeg = "up" /\ seen' = seen \cup {"confirmed"}
    /\ UNCHANGED <<recVars, restVars, ownerLeg, callerLeg, moves>>

OwnerHangsUp ==
    /\ ownerLeg \in {"up", "joined"} /\ OwnerLeaves
    /\ UNCHANGED <<recVars, restVars, moves>>

CallerHangsUp ==
    /\ callerLeg # "gone" /\ CallerLeaves
    /\ UNCHANGED <<recVars, restVars, moves>>

-----------------------------------------------------------------------------
ControllerStep ==
    \/ Request \/ CreateAnswers \/ CreateFails
    \/ \E e \in Callback : Deliver(e)
    \/ OnDeadline \/ Hangup
    \/ MoveAnswers \/ MoveFails \/ RedirectAnswers \/ RedirectFails

WorldStep ==
    \/ CreatesOwnerLeg \/ OwnerEntersConference \/ CallerEntersConference \/ EndsLeg
    \/ OwnerPicksUp \/ OwnerDoesNotPickUp \/ OwnerPresses1 \/ OwnerHangsUp
    \/ CallerHangsUp

Next == ControllerStep \/ WorldStep

Spec == Init /\ [][Next]_vars

\* The deadline is a timer, and every request to Twilio is answered or times out.
Fairness ==
    /\ WF_vars(OnDeadline)
    /\ WF_vars(CreateAnswers \/ CreateFails)
    /\ WF_vars(MoveAnswers \/ MoveFails)
    /\ WF_vars(RedirectAnswers \/ RedirectFails)

FairSpec == Spec /\ Fairness

-----------------------------------------------------------------------------
(* Properties that hold *)

\* "Safe only because the caller is moved into the conference at most once": so
\* many answered and joined callbacks there are, in whatever order, the caller is
\* told to move once.
MovesCallerOnce == moves <= 1

\* The caller is only moved to an owner who is there and has agreed: a client by
\* answering, a PSTN owner by pressing 1 and being in the conference.
NoMoveWithoutOwner ==
    moves > 0 => IF kind = "pstn" THEN {"confirmed", "joined"} \subseteq seen
                                  ELSE "answered" \in seen

\* A handoff that timed out never had the caller moved: neither the deadline nor a
\* late no-answer undoes what the owner has accepted.
TimeoutNeverUndoesMove == cause = "timed_out" => moves = 0

\* A handoff that is completed, cancelled or given up stays so: no answer, error
\* or callback that comes after the end brings it back.
TerminalStays == [][Terminal => state' = state]_vars

Promise == INSTANCE HandoffPromise WITH
    stage <- CASE state = "none" -> "none"
               [] state \in {"requested", "owner_ringing", "accepted"} -> "seeking"
               [] state = "connecting" -> "moving"
               [] state = "connected" -> "together"
               [] state = "completed" -> "over"
               [] state = "cancelled" -> "cancelled"
               [] state = "fallback_message" -> "message",
    taken <- moves

\* The controller keeps the promise of a handoff.
ImplementsPromise == Promise!PSpec

Decided == Terminal \/ state = "connected"

\* A handoff to a client endpoint is decided, whatever gets lost: the deadline
\* runs until the owner accepts, and then only an answer is waited for.
ClientHandoffDecided == (kind # "pstn" /\ state = "requested") ~> Decided

-----------------------------------------------------------------------------
(* What the repository says and the code does not do *)

\* machine.ts: "Fallback-message intent: keep the caller on the original leg" - a
\* caller who is to leave a message is not in the conference.
FallbackKeepsCaller == state = "fallback_message" => callerLeg # "conference"

\* ADR 0002: "Counterparty hangup cancels and stops ringing the Owner" - when the
\* owner's leg of a cancelled handoff is known, it has been asked to end.
CancelStopsRinging == state = "cancelled" /\ "sid" \in has => "owner" \in ended

\* ADR 0002: "Decline, timeout, and failure fall back to a message" - a handoff to
\* a PSTN owner is decided as well.
PstnHandoffDecided == state = "requested" ~> Decided
=============================================================================
