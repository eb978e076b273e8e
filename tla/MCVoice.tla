------------------------------ MODULE MCVoice ------------------------------
(***************************************************************************)
(* One run for the modules of a call's audio: MediaBridge, which this      *)
(* module extends, and five instances; the last is BrowserPhone, the       *)
(* adapter through which the window hears and leads a call.  A behaviour   *)
(* of the model is a behaviour of one of them, picked in the initial       *)
(* state, while the others stay in theirs: the states of the modules add   *)
(* up.                                                                     *)
(***************************************************************************)
EXTENDS MediaBridge, TLC

CONSTANTS QueueCap, MaxSessions, MaxSegments, MaxPeers, MaxGen, MaxRecordings, MaxChunks,
          MaxSdkCalls

VARIABLES part,
          pStarting, pSocket, pFlags, pQueue, pClose, pText, pSaid, pAfter, pHush, pRunning, pSessions,
          tCur, tPending, tFinals, tBlank, tTurns, tSpoken, tOpen,
          lSetting, lGen, lProvider, lPeer, lMade, lStatus, lStarts, lStops, lMain, lRefused, lOvertaken,
          rCalls, rCur, rSeq, rStopping, rRecorder, rTaken, rChain, rStop, rGraph, rWriter, rFile, rRow,
          rUp, rLate, rBroken, rCrossed,
          bSdk, bInbound, bActive, bShown, bStream, bTurn, bLeaving, bCrossed

Provider == INSTANCE LiveProvider WITH
  starting <- pStarting, socket <- pSocket, flags <- pFlags, queue <- pQueue, close <- pClose,
  text <- pText, said <- pSaid, after <- pAfter, hush <- pHush, running <- pRunning, sessions <- pSessions
Flow == INSTANCE TranscriptFlow WITH
  cur <- tCur, pending <- tPending, finals <- tFinals, blank <- tBlank, turns <- tTurns,
  spoken <- tSpoken, open <- tOpen
Link == INSTANCE LiveLink WITH
  setting <- lSetting, gen <- lGen, provider <- lProvider, peer <- lPeer, made <- lMade,
  status <- lStatus, starts <- lStarts, stops <- lStops, main <- lMain, refused <- lRefused,
  overtaken <- lOvertaken
Rec == INSTANCE Recording WITH
  calls <- rCalls, cur <- rCur, seq <- rSeq, stopping <- rStopping, recorder <- rRecorder,
  taken <- rTaken, chain <- rChain, stop <- rStop, graph <- rGraph, writer <- rWriter, file <- rFile,
  row <- rRow, up <- rUp, late <- rLate, broken <- rBroken, crossed <- rCrossed
Browser == INSTANCE BrowserPhone WITH
  MaxCalls <- MaxSdkCalls, sdk <- bSdk, inbound <- bInbound, active <- bActive, shown <- bShown,
  stream <- bStream, turn <- bTurn, leaving <- bLeaving, crossed <- bCrossed

pVars == <<pStarting, pSocket, pFlags, pQueue, pClose, pText, pSaid, pAfter, pHush, pRunning, pSessions>>
tVars == <<tCur, tPending, tFinals, tBlank, tTurns, tSpoken, tOpen>>
lVars == <<lSetting, lGen, lProvider, lPeer, lMade, lStatus, lStarts, lStops, lMain, lRefused, lOvertaken>>
rVars == <<rCalls, rCur, rSeq, rStopping, rRecorder, rTaken, rChain, rStop, rGraph, rWriter, rFile, rRow,
           rUp, rLate, rBroken, rCrossed>>
bVars == <<bSdk, bInbound, bActive, bShown, bStream, bTurn, bLeaving, bCrossed>>
vars == <<part, bridgeVars, pVars, tVars, lVars, rVars, bVars>>

MCInit ==
  /\ part \in {"bridge", "provider", "flow", "link", "recording", "browser"}
  /\ Init /\ Provider!Init /\ Flow!Init /\ Link!Init /\ Rec!Init /\ Browser!Init
  /\ part # "bridge" => opts = [opening |-> FALSE, energy |-> FALSE, rest |-> FALSE]
  /\ ~opts.rest => ~opts.opening /\ ~opts.energy
  /\ part # "link" => lSetting = "api"

MCNext ==
  /\ UNCHANGED part
  /\ \/ part = "bridge" /\ Next /\ UNCHANGED <<pVars, tVars, lVars, rVars, bVars>>
     \/ part = "provider" /\ Provider!Next /\ UNCHANGED <<bridgeVars, tVars, lVars, rVars, bVars>>
     \/ part = "flow" /\ Flow!Next /\ UNCHANGED <<bridgeVars, pVars, lVars, rVars, bVars>>
     \/ part = "link" /\ Link!Next /\ UNCHANGED <<bridgeVars, pVars, tVars, rVars, bVars>>
     \/ part = "recording" /\ Rec!Next /\ UNCHANGED <<bridgeVars, pVars, tVars, lVars, bVars>>
     \/ part = "browser" /\ Browser!Next /\ UNCHANGED <<bridgeVars, pVars, tVars, lVars, rVars>>

\* A behaviour of one module has that module's fairness, which its promises
\* of progress assume.
MCSpec == MCInit /\ [][MCNext]_vars

\* The media bridge: the bridge never believes that more is playing than is;
\* a call is hung up once; only what plays is cleared, never a greeting;
\* guards and suppression end; every word is judged.
BridgePromise ==
  /\ [](part = "bridge" => TypeOK /\ NeverOvercounts /\ EndsOnce)
  /\ ClearsOnlyPlayback
  /\ part = "bridge" /\ Fairness => GuardIsLifted /\ SuppressionEnds /\ EveryWordIsJudged

\* What is said: a model told to be quiet before its session was ready is told
\* so then; a session that was closed does not start; a stop is answered;
\* whatever was transcribed is published, each segment once, in the order of
\* its speaker, although nobody speaks again.
SpeechPromise ==
  /\ [](part = "provider" => Provider!TypeOK /\ Provider!HushReachesModel)
  /\ Provider!StartedThenClosed
  /\ [](part = "flow" => Flow!TypeOK /\ Flow!NothingLostOrRepeated /\ Flow!PublishedInOrder)
  /\ part = "provider" /\ Provider!Fairness => Provider!StopSettles
       /\ Provider!TranscriptIsPublished
  /\ part = "flow" /\ Flow!Fairness => Flow!EverythingIsPublished

\* Recordings: a complete one has every chunk in order; its audio is of its
\* call; what records has its graph and its writer; every recording ends,
\* through stops of the application.
RecordingPromise ==
  /\ [](part = "recording" => Rec!TypeOK /\ Rec!CompleteIsWhole /\ Rec!OwnAudio
       /\ Rec!RecordedHasGraph /\ Rec!RowIsWritten)
  /\ part = "recording" /\ Rec!Fairness => Rec!RecordingSettles

\* The audio of the window.  The live link: no session is left without a peer,
\* a link shown as ready has one, and every start returns, overtaken or not.
\* The browser phone: no call of the SDK goes on unheld, unless it crossed a
\* dial; the call shown as active is heard; what is over stays over; a
\* cancelled dial never binds and is closed; a hangup ends its call, whether
\* the SDK says so or not.
WindowPromise ==
  /\ [](part = "link" => Link!TypeOK /\ Link!NoSessionLeaks /\ Link!ReadyHasPeer)
  /\ part = "link" /\ Link!Fairness => Link!StartReturns
  /\ [](part = "browser" => Browser!TypeOK /\ Browser!OrphansOnlyByCrossing /\ Browser!ShownIsHeard)
  /\ Browser!EndedStaysEnded /\ Browser!CancelledNeverBinds
  /\ part = "browser" /\ Browser!Fairness => Browser!CancelledIsClosed /\ Browser!HangupEnds
=============================================================================
