------------------------------- MODULE MCHost -------------------------------
(***************************************************************************)
(* One run for the applications around a call: CallRecords, which this     *)
(* module extends, the desktop application as a whole (AppHost), its       *)
(* control server and the requests it answers (ControlServer, ControlApi), *)
(* its settings (Settings), the calls of the headless host (CloudCalls),   *)
(* the commands of the main process to the phone (DesktopPort),            *)
(* the call history and the forms of the window (HistoryView,              *)
(* SettingsForms), and the command-line client (Cli).  A behaviour is one  *)
(* of a single module; the others stay in an initial state.                *)
(***************************************************************************)
EXTENDS CallRecords, TLC

CONSTANTS MaxServers, MaxLives, MaxRequests, MaxStarts, MaxWrites, Absent, Torn, PortCalls, Commands,
          Handoffs, PageSize, FirstStored, MaxStored, MaxAsked, MaxOthers, MaxActs, MaxRuns, MaxIssues,
          MaxRings, MaxLoads, MaxQueue

\* The bounds are numbers; there is at least one life, one ring,
\* one request for a page, and one call in a page.
ASSUME HostAssumption ==
  /\ {MaxServers, MaxLives, MaxRequests, MaxRuns, MaxStored, MaxOthers, MaxActs, MaxLoads} \subseteq Nat
  /\ {MaxStarts, PageSize, MaxAsked, MaxRings, MaxIssues} \subseteq Nat \ {0} /\ FirstStored \in 0..MaxStored

VARIABLE part   \* the module this behaviour is one of

VARIABLES hPhase, hLive, hHidden, hTodo, hTold, hFaulty, hChild, hLate
Host == INSTANCE AppHost WITH
  phase <- hPhase, live <- hLive, hidden <- hHidden, todo <- hTodo, told <- hTold, faulty <- hFaulty,
  child <- hChild, late <- hLate
hVars == <<hPhase, hLive, hHidden, hTodo, hTold, hFaulty, hChild, hLate>>

VARIABLES sLife, sRunning, sAttached, sEnabled, sSaved, sListener, sHeld, sTimer, sNamed, sStale, sCrossed
Server == INSTANCE ControlServer WITH
  life <- sLife, running <- sRunning, attached <- sAttached, enabled <- sEnabled, saved <- sSaved,
  listener <- sListener, held <- sHeld, timer <- sTimer, named <- sNamed, stale <- sStale,
  crossed <- sCrossed
sVars == <<sLife, sRunning, sAttached, sEnabled, sSaved, sListener, sHeld, sTimer, sNamed, sStale, sCrossed>>

VARIABLES aLife, aRunning, aScoped, aToken, aReqs, aCache, aRuns, aTasks, aSpare, aApproval
Api == INSTANCE ControlApi WITH
  life <- aLife, running <- aRunning, scoped <- aScoped, token <- aToken, reqs <- aReqs, cache <- aCache,
  runs <- aRuns, tasks <- aTasks, spare <- aSpare, approval <- aApproval
aVars == <<aLife, aRunning, aScoped, aToken, aReqs, aCache, aRuns, aTasks, aSpare, aApproval>>

VARIABLES cDisk, cMemory, cAcked, cCut, cSaving, cOverride, cEnv, cRunning, cLine, cRelaunch, cWrites
Config == INSTANCE Settings WITH
  None <- Absent, disk <- cDisk, memory <- cMemory, acked <- cAcked, cut <- cCut, saving <- cSaving,
  override <- cOverride, env <- cEnv, running <- cRunning, line <- cLine, relaunch <- cRelaunch,
  writes <- cWrites
cVars == <<cDisk, cMemory, cAcked, cCut, cSaving, cOverride, cEnv, cRunning, cLine, cRelaunch, cWrites>>

VARIABLES kOptions, kCall, kSeen, kTracked, kSnap, kHeard, kReport, kStopped
Cloud == INSTANCE CloudCalls WITH
  Calls <- PortCalls, options <- kOptions, call <- kCall, seen <- kSeen, tracked <- kTracked,
  snap <- kSnap, heard <- kHeard, report <- kReport, stopped <- kStopped
kVars == <<kOptions, kCall, kSeen, kTracked, kSnap, kHeard, kReport, kStopped>>

ASSUME PortAssumption == "none" \notin PortCalls \cup Handoffs /\ PortCalls \cap Handoffs = {}

VARIABLES vCalls, vLive, vSeen, vTimer, vOpen, vList, vLoading, vHasMore, vFailed, vAsked, vSelected,
          vWant, vDetail, vExtra, vCrossed
View == INSTANCE HistoryView WITH
  calls <- vCalls, live <- vLive, seen <- vSeen, timer <- vTimer, open <- vOpen, list <- vList,
  loading <- vLoading, hasMore <- vHasMore, failed <- vFailed, asked <- vAsked, selected <- vSelected,
  want <- vWant, detail <- vDetail, extra <- vExtra, crossed <- vCrossed
vVars == <<vCalls, vLive, vSeen, vTimer, vOpen, vList, vLoading, vHasMore, vFailed, vAsked, vSelected,
           vWant, vDetail, vExtra, vCrossed>>

VARIABLES fKind, fStore, fShown, fTouched, fHydrated, fKnown, fLoading, fBusy, fQueue, fMounts, fOthers,
          fActs, fRaced
Forms == INSTANCE SettingsForms WITH
  kind <- fKind, store <- fStore, shown <- fShown, touched <- fTouched, hydrated <- fHydrated,
  known <- fKnown, loading <- fLoading, busy <- fBusy, queue <- fQueue, mounts <- fMounts,
  others <- fOthers, acts <- fActs, raced <- fRaced
fVars == <<fKind, fStore, fShown, fTouched, fHydrated, fKnown, fLoading, fBusy, fQueue, fMounts, fOthers,
           fActs, fRaced>>

VARIABLES iCmd, iApp, iMade, iThing, iStep, iReq, iLate, iCode, iShown, iBefore, iRuns, iFile
Client == INSTANCE Cli WITH
  cmd <- iCmd, app <- iApp, made <- iMade, thing <- iThing, step <- iStep, req <- iReq, late <- iLate,
  code <- iCode, shown <- iShown, before <- iBefore, runs <- iRuns, file <- iFile
iVars == <<iCmd, iApp, iMade, iThing, iStep, iReq, iLate, iCode, iShown, iBefore, iRuns, iFile>>

VARIABLES dPhone, dRings, dUp, dLatest, dLast, dSeen, dBound, dIssue, dLoads, dHeard, dOwn, dLoose,
          dCrossed, dShadowed, dStray
Port == INSTANCE DesktopPort WITH
  phone <- dPhone, rings <- dRings, up <- dUp, latest <- dLatest, last <- dLast, seen <- dSeen,
  bound <- dBound, issue <- dIssue, loads <- dLoads, heard <- dHeard, own <- dOwn, loose <- dLoose,
  crossed <- dCrossed, shadowed <- dShadowed, stray <- dStray
dVars == <<dPhone, dRings, dUp, dLatest, dLast, dSeen, dBound, dIssue, dLoads, dHeard, dOwn, dLoose,
           dCrossed, dShadowed, dStray>>

vars == <<part, recordVars, hVars, sVars, aVars, cVars, kVars, vVars, fVars, iVars, dVars>>

\* What is absent, and what a crash leaves of a file, are no settings.
ASSUME SettingsAssumption ==
  /\ MaxWrites \in Nat
  /\ Absent # Torn /\ Absent \notin {"mock", "twilio", "0", "1"}
  /\ {Absent, Torn} \cap [Config!Fields -> Config!Values] = {}
  /\ Absent \notin [category : Config!Categories, value : [Config!Fields -> Config!Values]]

MCInit ==
  /\ part \in {"records", "application", "server", "requests", "settings", "cloud", "history", "forms",
                "cli", "port"}
  /\ part = "records" \/ version = 0
  /\ Init
  /\ part = "application" \/ hFaulty = {}
  /\ Host!Init
  /\ part = "server" \/ sSaved = FALSE
  /\ Server!Init
  /\ part = "requests" \/ aScoped = FALSE
  /\ Api!Init
  /\ part = "settings" \/ cOverride = Absent
  /\ Config!Init
  /\ part = "cloud" \/ kOptions = [delayed |-> FALSE, outcome |-> "joined", joinDelayed |-> FALSE]
  /\ Cloud!Init
  /\ View!Init
  /\ part = "forms" \/ fKind = "voice"
  /\ Forms!Init
  /\ part = "cli" \/ (iCmd = [kind |-> "read", waits |-> FALSE, fault |-> "none", local |-> FALSE] /\ iApp = "up")
  /\ Client!Init
  /\ Port!Init

MCNext ==
  /\ UNCHANGED part
  /\ \/ part = "records" /\ Next /\ UNCHANGED <<hVars, sVars, aVars, cVars, kVars, vVars, fVars, iVars, dVars>>
     \/ part = "application" /\ Host!Next /\ UNCHANGED <<recordVars, sVars, aVars, cVars, kVars, vVars, fVars, iVars, dVars>>
     \/ part = "server" /\ Server!Next /\ UNCHANGED <<recordVars, hVars, aVars, cVars, kVars, vVars, fVars, iVars, dVars>>
     \/ part = "requests" /\ Api!Next /\ UNCHANGED <<recordVars, hVars, sVars, cVars, kVars, vVars, fVars, iVars, dVars>>
     \/ part = "settings" /\ Config!Next /\ UNCHANGED <<recordVars, hVars, sVars, aVars, kVars, vVars, fVars, iVars, dVars>>
     \/ part = "cloud" /\ Cloud!Next /\ UNCHANGED <<recordVars, hVars, sVars, aVars, cVars, vVars, fVars, iVars, dVars>>
     \/ part = "history" /\ View!Next /\ UNCHANGED <<recordVars, hVars, sVars, aVars, cVars, kVars, fVars, iVars, dVars>>
     \/ part = "forms" /\ Forms!Next /\ UNCHANGED <<recordVars, hVars, sVars, aVars, cVars, kVars, vVars, iVars, dVars>>
     \/ part = "cli" /\ Client!Next /\ UNCHANGED <<recordVars, hVars, sVars, aVars, cVars, kVars, vVars, fVars, dVars>>
     \/ part = "port" /\ Port!Next /\ UNCHANGED <<recordVars, hVars, sVars, aVars, cVars, kVars, vVars, fVars, iVars>>

\* A behaviour of one module has that module's fairness, which its promises
\* of progress assume.
MCSpec == MCInit /\ [][MCNext]_vars

\* What is recorded.  Of calls: a transcript line is kept once, in its place,
\* and with the call it was said in; a call ends once and what is over stays
\* over.  Of requests: an idempotency key is acted on once in a life of the
\* application and makes one task in all of them; of two decisions of an
\* approval one counts.
RecordsPromise ==
  /\ [](part = "records" => TypeOK /\ OwnWordsAreKept /\ OneOrder /\ EndedOnce)
  /\ OverStaysOver
  /\ [](part = "requests" => Api!TypeOK /\ Api!OneAnswerPerKey /\ Api!OneTaskPerKey
       /\ Api!OneDecision)

\* The quit of the application: whatever exists is disposed of, users before
\* what they use, and comes back only by an event that came too late.
QuitPromise ==
  /\ [](part = "application" => Host!TypeOK /\ Host!NothingIsLeftBehind /\ Host!ReopenedByEventOnly)
  /\ Host!UsersFirst

\* Settings: what a save has answered survives a crash, for files that are
\* renamed; a save keeps the fields it does not name; the telephone mode
\* changes by a start only.
SettingsPromise ==
  /\ [](part = "settings" => Config!TypeOK /\ Config!AnsweredIsDurable)
  /\ Config!SaveKeepsTheRest /\ Config!ModeChangesByStart

\* The control server and its client: what the endpoint file names does
\* listen, and nothing does when it is switched off.  The command-line client
\* makes one request a run, tells by its code what it was answered, and is not
\* told a task goes on that has ended.
ControlPromise ==
  /\ [](part = "server" => Server!TypeOK /\ Server!NamedListens /\ Server!OffIsClosed)
  /\ [](part = "cli" => Client!TypeOK /\ Client!OnePerRun /\ Client!CodesAreTrue)
  /\ Client!EndIsTaken

\* The telephone of the headless host: the phone it shows is the state of the
\* line, it has one call at a time, a handoff of the mock telephone has one
\* outcome, and nothing is written once it is disposed of.  That of the
\* desktop: a command that was done is not sent again, a hangup ends its own
\* call, which is over when it is answered, unless calls crossed; what
\* connects was said to ring; the status of the phone does not go back.
PortsPromise ==
  /\ [](part = "cloud" => Cloud!TypeOK /\ Cloud!ShownIsReal /\ Cloud!OneEngineCall)
  /\ Cloud!OneOutcome /\ Cloud!QuietWhenStopped
  /\ [](part = "port" => Port!TypeOK /\ Port!OneAtATime /\ Port!HangupIsForItsCall
       /\ Port!HungUpIsOver /\ Port!ConnectedHasRung)
  /\ Port!StatusGoesOn

\* The window: the list of calls skips none of the store's, unless pages were
\* crossed, and the detail shown is of the call selected; a form does
\* not replace what the operator edits, a save changes only what was edited
\* unless somebody else wrote, and a form at rest shows what is stored.
ScreensPromise ==
  /\ [](part = "history" => View!TypeOK /\ View!DetailIsOfSelected /\ View!NoCallIsSkipped)
  /\ [](part = "forms" => Forms!TypeOK /\ Forms!ShowsStored)
  /\ Forms!EditsAreKept /\ Forms!OnlyTouchedIsChanged

\* What comes to an end: the database opens after any stop in the middle of a
\* migration; a quit ends, and an accepted relaunch brings the application
\* back; a lost endpoint file comes back, every request is answered or the
\* application stops, and the command line exits; a handoff of the mock
\* telephone does not wait for ever, and a command to the phone is answered or
\* fails; a list is read to its end, and a form is freed.
ProgressPromise ==
  /\ part = "records" /\ Fairness => DatabaseOpens
  /\ part = "application" /\ Host!Fairness => Host!QuitEnds
  /\ part = "settings" /\ Config!Fairness => Config!RelaunchReturns
  /\ part = "server" /\ Server!Fairness => Server!FileComesBack
  /\ part = "requests" /\ Api!Fairness => Api!AllAnswered
  /\ part = "cli" /\ Client!Fairness => Client!Exits
  /\ part = "cloud" /\ Cloud!Fairness => Cloud!TransferEnds
  /\ part = "port" /\ Port!Fairness => Port!CommandsSettle
  /\ part = "history" /\ View!Fairness => View!EndIsListed /\ View!LoadingEnds
  /\ part = "forms" /\ Forms!Fairness => Forms!FormIsFreed
=============================================================================
