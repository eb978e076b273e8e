----------------------------- MODULE MCAssistant ----------------------------
(***************************************************************************)
(* One run for the assistant of a call: Copilot, which this module         *)
(* extends, with the app-server it asks reduced to its answers; AppServer, *)
(* the client of that process, ToolRequests, whose the tools are that it   *)
(* asks for, and Extraction, the analysis of a call by it; and what the    *)
(* assistant goes by: the policy of its campaign (CampaignRules,           *)
(* Directory), how much it may call (DialGate), what it may tell a caller  *)
(* (Knowledge), who the caller is (Contacts), and the CRM its tools write  *)
(* to (CrmClient).  A behaviour is one of a single module; the others stay *)
(* in an initial state.                                                    *)
(***************************************************************************)
EXTENDS Copilot, TLC

CONSTANTS MaxSpawns, Numbers, Callers, Slots, Lengths, MaxCompiled, Items, Campaigns, Absent,
          MaxClients, MaxAttempts, MaxSessions, MaxAsked, MaxMessages, DayLength, Minute, Cooldown,
          MaxPerMinute, DailyMax, MaxTime, MaxDialled, MaxSaves

ASSUME LimitsAssumption ==
  /\ DayLength \in Nat \ {0}
  /\ {Minute, Cooldown, MaxPerMinute, DailyMax, MaxTime, MaxSaves, Slots, MaxCompiled,
      MaxClients, MaxSpawns, MaxMessages, MaxSessions, MaxAsked, MaxCalls} \subseteq Nat
  /\ {MaxAttempts, MaxWords} \subseteq Nat \ {0}
  /\ Lengths \subseteq Nat
  /\ Numbers # {}

VARIABLE part   \* the module this behaviour is one of

VARIABLES aChild, aSpawns, aReady, aPend, aSent, aStarts, aActive, aServer, aStopping, aDisposing,
          aDisplaced
Client == INSTANCE AppServer WITH
  child <- aChild, spawns <- aSpawns, ready <- aReady, pend <- aPend, sent <- aSent, starts <- aStarts,
  active <- aActive, server <- aServer, stopping <- aStopping, disposing <- aDisposing,
  displaced <- aDisplaced
aVars == <<aChild, aSpawns, aReady, aPend, aSent, aStarts, aActive, aServer, aStopping, aDisposing,
           aDisplaced>>

VARIABLES rWritten, rPolicy, rDialled, rCompiled
Rules == INSTANCE CampaignRules WITH
  written <- rWritten, policy <- rPolicy, dialled <- rDialled, compiled <- rCompiled
rVars == <<rWritten, rPolicy, rDialled, rCompiled>>

VARIABLES kItem, kTrust, kTold
Answers == INSTANCE Knowledge WITH
  item <- kItem, trust <- kTrust, told <- kTold
kVars == <<kItem, kTrust, kTold>>

VARIABLES dRow, dAge, dSelected, dPending, dAnswer, dHeld
Campaign == INSTANCE Directory WITH
  None <- Absent, row <- dRow, age <- dAge, selected <- dSelected, pending <- dPending,
  answer <- dAnswer, held <- dHeld
\* What is absent is no row and no write.
ASSUME AbsentAssumption == Absent \notin Campaign!Rows \cup Campaign!SecondWrites
dVars == <<dRow, dAge, dSelected, dPending, dAnswer, dHeld>>

VARIABLES cCard, cBatch, cPeer, cSnapshot
Contact == INSTANCE Contacts WITH
  Numbers <- Callers, Calls <- {"call"}, None <- Absent, card <- cCard, batch <- cBatch, peer <- cPeer,
  snapshot <- cSnapshot
cVars == <<cCard, cBatch, cPeer, cSnapshot>>

VARIABLES zConfig, zSecrets, zClient, zClients, zAuth, zOp, zLanded, zLied, zExchange, zFailed, zCrossed
Crm == INSTANCE CrmClient WITH
  config <- zConfig, secrets <- zSecrets, client <- zClient, clients <- zClients, auth <- zAuth, op <- zOp,
  landed <- zLanded, lied <- zLied, exchange <- zExchange, failed <- zFailed, crossed <- zCrossed
zVars == <<zConfig, zSecrets, zClient, zClients, zAuth, zOp, zLanded, zLied, zExchange, zFailed, zCrossed>>

VARIABLES tMock, tCall, tMode, tNamed, tThreads, tLive, tBound, tAsked, tHandler
Tools == INSTANCE ToolRequests WITH
  mock <- tMock, call <- tCall, mode <- tMode, named <- tNamed, threads <- tThreads, live <- tLive,
  bound <- tBound, asked <- tAsked, handler <- tHandler
tVars == <<tMock, tCall, tMode, tNamed, tThreads, tLive, tBound, tAsked, tHandler>>

VARIABLES ePc, eCaller, eTurn, eSaid, eHeard, eListening, eCompleted, eCompletion
Extract == INSTANCE Extraction WITH
  pc <- ePc, caller <- eCaller, turn <- eTurn, said <- eSaid, heard <- eHeard, listening <- eListening,
  completed <- eCompleted, completion <- eCompletion
eVars == <<ePc, eCaller, eTurn, eSaid, eHeard, eListening, eCompleted, eCompletion>>

VARIABLES gNow, gBudget, gDial, gLate, gCalls, gLine, gDialTimes, gPeerAt, gSaves, gPaused, gEarlier
Gate == INSTANCE DialGate WITH
  Peers <- Numbers, Allowed <- Numbers, now <- gNow, budget <- gBudget, dial <- gDial, late <- gLate,
  calls <- gCalls, line <- gLine, dialTimes <- gDialTimes, peerAt <- gPeerAt, saves <- gSaves,
  paused <- gPaused, earlier <- gEarlier
gVars == <<gNow, gBudget, gDial, gLate, gCalls, gLine, gDialTimes, gPeerAt, gSaves, gPaused, gEarlier>>

vars == <<part, copilotVars, aVars, rVars, kVars, dVars, cVars, zVars, tVars, eVars, gVars>>

PublicItem == [tenant |-> "ours", visibility |-> "public", sensitive |-> "none", stale |-> FALSE, conflictsWith |-> {}]
\* bound: items do not name themselves, and of another tenant's one kind is enough.
Bounded(item) ==
  \A i \in Items :
    /\ i \notin item[i].conflictsWith
    /\ item[i].tenant = "theirs" => (item[i].visibility = "public" /\ item[i].sensitive = "none")

MCInit ==
  /\ part \in {"copilot", "client", "rules", "answers", "campaigns", "contacts", "crm", "tools",
                "extraction", "gate"}
  /\ Init
  /\ Client!Init
  /\ part = "rules" \/ rWritten = Rules!Plain
  /\ Rules!Init
  /\ part = "answers" \/ kItem = [i \in Items |-> PublicItem]
  /\ Answers!Init /\ Bounded(kItem)
  /\ part = "campaigns" \/ dSelected = CHOOSE c \in Campaigns : TRUE
  /\ dAge = CHOOSE f \in Campaign!Ages : TRUE \* bound: an order of those there are not yet
  /\ Campaign!Init
  /\ part = "contacts" \/ cPeer = [x \in {"call"} |-> CHOOSE n \in Callers : TRUE]
  /\ Contact!Init
  /\ Crm!Init
  /\ part = "tools" \/ tMock = FALSE
  /\ Tools!Init
  /\ Extract!Init
  /\ Gate!Init

MCNext ==
  /\ UNCHANGED part
  /\ \/ part = "copilot" /\ Next /\ UNCHANGED <<aVars, rVars, kVars, dVars, cVars, zVars, tVars, eVars, gVars>>
     \/ part = "client" /\ Client!Next /\ UNCHANGED <<copilotVars, rVars, kVars, dVars, cVars, zVars, tVars, eVars, gVars>>
     \/ part = "rules" /\ Rules!Next /\ UNCHANGED <<copilotVars, aVars, kVars, dVars, cVars, zVars, tVars, eVars, gVars>>
     \/ part = "answers" /\ Answers!Next /\ UNCHANGED <<copilotVars, aVars, rVars, dVars, cVars, zVars, tVars, eVars, gVars>>
     \/ part = "campaigns" /\ Campaign!Next /\ UNCHANGED <<copilotVars, aVars, rVars, kVars, cVars, zVars, tVars, eVars, gVars>>
     \/ part = "contacts" /\ Contact!Next /\ UNCHANGED <<copilotVars, aVars, rVars, kVars, dVars, zVars, tVars, eVars, gVars>>
     \/ part = "crm" /\ Crm!Next /\ UNCHANGED <<copilotVars, aVars, rVars, kVars, dVars, cVars, tVars, eVars, gVars>>
     \/ part = "tools" /\ Tools!Next /\ UNCHANGED <<copilotVars, aVars, rVars, kVars, dVars, cVars, zVars, eVars, gVars>>
     \/ part = "extraction" /\ Extract!Next /\ UNCHANGED <<copilotVars, aVars, rVars, kVars, dVars, cVars, zVars, tVars, gVars>>
     \/ part = "gate" /\ Gate!Next /\ UNCHANGED <<copilotVars, aVars, rVars, kVars, dVars, cVars, zVars, tVars, eVars>>

\* A behaviour of one module has that module's fairness, which its promises
\* of progress assume.
MCSpec == MCInit /\ [][MCNext]_vars

\* The copilot: what an interruption threw away is asked again and starts
\* nothing; a tool runs once for a call of it; a result that was not heard is
\* accounted for; no hangup outlives its call.  The tools the agents of several
\* calls ask for run for the call that asked, unless it is not known, never for
\* a call that is over, and an agent is answered once.
CopilotPromise ==
  /\ [](part = "copilot" => TypeOK /\ InterruptedIsReasked /\ ResultAccounted /\ DiscardedIsUnheard
       /\ RunsOnce /\ NoHangupOutlives)
  /\ InterruptedNeverStarts
  /\ [](part = "tools" => Tools!TypeOK /\ Tools!RunsForItsCall)
  /\ Tools!NothingAfterTheEnd /\ Tools!AnswerStands

\* The client of the app-server: nothing is asked of a process that was not
\* initialised; a session that nobody can stop is one of a start that failed,
\* or was displaced; a failed start does not keep the client from starting.  An
\* extraction gives all its agent said in a turn that is over, notices that it
\* is over, and leaves no listener.
ClientPromise ==
  /\ [](part = "client" => Client!TypeOK /\ Client!InitializedFirst /\ Client!SessionsAccounted
       /\ Client!FailedStartFrees)
  /\ [](part = "extraction" => Extract!TypeOK /\ Extract!AnswerIsWhole /\ Extract!NothingIsLeft
       /\ Extract!OverIsNoticed)

\* The policy of a call: reading a stored policy does not change it, a number
\* on the list is not dialled however it is spelled, nor anybody outside the
\* calling hours; a call is cut at its limit; an assistant asks before it
\* writes outside; an opening yields to what the instructions must keep.
PolicyPromise ==
  part = "rules" =>
    /\ Rules!TypeOK /\ Rules!StoredIsStable /\ Rules!ListedIsNotDialled /\ Rules!ClosedMeansClosed
    /\ Rules!WindowsShareTheDay /\ Rules!LimitIsKept /\ Rules!AssistantAsks /\ Rules!OpeningYields

\* How much may be called: no more calls unasked in a day than the budget has,
\* nor managed ones in a minute than are allowed, and the switch stops all but
\* one.  What a caller may be told: never what is private, old, contested or
\* of another tenant; verifying never costs a caller what they could hear; an
\* answer given as a whole keeps nothing back.  What is known of them: what a
\* call knew of its contact is not changed later, and only deleting a card
\* takes its tier away.
LimitsPromise ==
  /\ [](part = "gate" => Gate!TypeOK /\ Gate!DayIsKept /\ Gate!RateIsKept /\ Gate!PauseIsKept)
  /\ [](part = "answers" => Answers!TypeOK /\ Answers!NeverTold /\ Answers!AllowedIsComplete)
  /\ Answers!TrustOnlyAdds
  /\ [](part = "contacts" => Contact!TypeOK)
  /\ Contact!SnapshotIsHistory /\ Contact!KnownStaysKnown

\* Campaigns and the CRM: the campaign selected exists and is not ephemeral, a
\* do-not-call list is replaced only by a policy that a client has read.  The
\* client of the CRM is the one configured, what is marked as connected was
\* asked, and a note is added once, where its customer was found and with a
\* token that had time left.
DirectoryPromise ==
  /\ [](part = "campaigns" => Campaign!TypeOK /\ Campaign!SelectionIsThere)
  /\ Campaign!OthersKeepTheList /\ Campaign!EphemeralStaysAside
  /\ [](part = "crm" => Crm!TypeOK /\ Crm!ClientIsConfigured /\ Crm!ConnectedWasAsked
       /\ Crm!NoteOnceInItsPlace /\ Crm!TokenIsValid)

\* What comes to an end: words reach a turn of the copilot and the end of a
\* call hangs up; every agent is answered; a start of the app-server's client
\* settles, whatever the process does, and so does an extraction; and every
\* operation on the CRM.
ProgressPromise ==
  /\ part = "copilot" /\ Fairness => WordsReachATurn /\ EndHangsUp
  /\ part = "tools" /\ Tools!Fairness => Tools!AgentIsAnswered
  /\ part = "client" /\ Client!Fairness => Client!StartSettles
  /\ part = "extraction" /\ Extract!Fairness => Extract!ExtractionEnds
  /\ part = "crm" /\ Crm!Fairness => Crm!OperationsEnd
=============================================================================
