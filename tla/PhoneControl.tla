---------------------------- MODULE PhoneControl ----------------------------
(***************************************************************************)
(* PhoneController of the renderer (services/phone-controller.ts) in its   *)
(* real mode: the calls of the phone adapter, the voice session, the       *)
(* commands of the main process and the operator meet in it, and nearly    *)
(* every handler awaits something while the others go on.                  *)
(* A call is its id and its status; 0 is no call.  A campaign is a number: *)
(* 0 is the one selected, 1 comes with commands.                      *)
(***************************************************************************)
EXTENDS Naturals, FiniteSets

CONSTANTS MaxCalls,  \* bound: calls of a run
          Overlap    \* whether a call may begin while handlers of the one before it await

Calls == 1..MaxCalls
Campaigns == 0..1
NoContext == 2      \* commandCampaignRestore is not set

VARIABLES phone,    \* the call of the phone adapter
          ids,      \* calls so far
          dir,      \* their directions
          c,        \* the fields of the controller
          link,     \* the voice session
          fin,      \* where finishTerminalState of a call awaits
          ring,     \* ringing calls whose handler awaits the voice settings
          serve,    \* active calls whose handler awaits the session or the caller's audio
          say,      \* greetings about to be spoken
          cmd,      \* the dial command in hand
          ends,     \* calls the adapter was told to end
          hung,     \* calls somebody hung up through the controller
          h         \* history, for the properties
phoneVars == <<phone, ids, dir, c, link, fin, ring, serve, say, cmd, ends, hung, h>>

NoCall == [id |-> 0, st |-> "none"]
NoCmd == [pc |-> "none", camp |-> 0]
InProgress(call) == call.st \in {"dialing", "ringing", "active"}

Init ==
  /\ phone = NoCall /\ ids = 0 /\ dir = [i \in Calls |-> "inbound"] /\ link = "idle" /\ fin = [i \in Calls |-> "none"]
  /\ c = [call |-> NoCall, mode |-> "ai", accepts |-> FALSE, endReq |-> 0, bridged |-> 0, greeted |-> 0,
          announcing |-> 0, audio |-> 0, prewarmed |-> 0, instr |-> "none", campaign |-> 0,
          restore |-> NoContext]
  /\ ring = {} /\ serve = {} /\ say = [i \in Calls |-> 0] /\ cmd = NoCmd /\ ends = {} /\ hung = {}
  /\ h = [reported |-> {}, greetings |-> [i \in Calls |-> 0], tried |-> {}]

(***************************************************************************)
(* Helpers                                                                  *)
(***************************************************************************)
\* handleRealtimeConnection: speech is accepted while there is a session and
\* nobody has asked for the end of the call shown.
Sync(f, l) == [f EXCEPT !.accepts = (f.endReq # f.call.id /\ l \in {"connecting", "ready"})]
\* The session of a call the assistant leads is gone.
SessionLost(f, l) == f.accepts /\ ~Sync(f, l).accepts /\ f.mode = "ai" /\ InProgress(f.call)
\* announceReadyCall, up to its await.
MayGreet(f, l) ==
  /\ f.mode = "ai" /\ f.call.st = "active" /\ f.call.id = f.bridged /\ f.call.id = f.audio
  /\ l = "ready" /\ f.call.id \notin {f.greeted, f.announcing}
\* syncLiveState
SyncLive(f, l) ==
  LET s == Sync(f, l) IN
  IF MayGreet(s, l)
  THEN /\ c' = [s EXCEPT !.announcing = s.call.id] /\ say' = [say EXCEPT ![s.call.id] = @ + 1]
  ELSE c' = s /\ UNCHANGED say
\* GptLiveSession.start: with a session that is not broken it only takes the input.
Started(l) == IF l \in {"idle", "error"} THEN "connecting" ELSE l
\* stopLiveBridge, up to its await
BridgeReset(f) == [f EXCEPT !.accepts = FALSE, !.bridged = 0, !.greeted = 0, !.announcing = 0,
                            !.prewarmed = 0, !.instr = "none", !.audio = 0]
Restored(f) == IF f.restore = NoContext THEN f
               ELSE [f EXCEPT !.campaign = f.restore, !.restore = NoContext]
\* A hangup of the adapter is for the call it has.
Hangup(set) == set \cup {i \in Calls : i = phone.id /\ InProgress(phone)}
Finishing == \E i \in Calls : fin[i] \notin {"none", "done"}
Settled == ~Finishing /\ cmd.pc = "none" /\ ring \cup serve = {} /\ \A i \in Calls : say[i] = 0
MayBegin == Overlap \/ Settled

(***************************************************************************)
(* onPhoneStateChange: the adapter's call is now p                          *)
(***************************************************************************)
Seen(p) == [c EXCEPT !.endReq = IF p.id # @ /\ p.st \in {"ringing", "dialing"} THEN 0 ELSE @]
\* Mutant: the end is shown before it is reported.
OnTerminal_ShowsFirst(p) ==
  /\ c' = [Seen(p) EXCEPT !.accepts = FALSE, !.call = p] /\ fin' = [fin EXCEPT ![p.id] = "report"]
  /\ UNCHANGED <<link, ring, serve, say>>
OnTerminal(p) ==
  /\ c' = [Seen(p) EXCEPT !.accepts = FALSE] /\ fin' = [fin EXCEPT ![p.id] = "report"]
  /\ UNCHANGED <<link, ring, serve, say>>
OnRinging(p) ==
  LET f == [Seen(p) EXCEPT !.call = p, !.prewarmed = p.id] IN
  /\ \/ c' = f /\ ends' = ends \cup {p.id} /\ UNCHANGED ring        \* a blocked caller is rejected
     \/ c' = [f EXCEPT !.instr = "inbound"] /\ ring' = ring \cup {p.id} /\ UNCHANGED ends
  /\ UNCHANGED <<link, fin, serve, say>>
OnDialing(p) == /\ c' = [Seen(p) EXCEPT !.call = p] /\ UNCHANGED <<fin, ring, serve, say>>
OnActive(p) ==
  LET f == [Seen(p) EXCEPT !.call = p, !.bridged = p.id] IN
  /\ IF f.mode = "ai" /\ p.id # c.bridged
     THEN /\ link' = Started(link) /\ serve' = serve \cup {p.id}
          /\ IF link' = link THEN c' = f /\ UNCHANGED say ELSE SyncLive(f, link')
     ELSE c' = f /\ UNCHANGED <<link, serve, say>>
  /\ UNCHANGED <<fin, ring>>

(***************************************************************************)
(* The phone adapter                                                        *)
(***************************************************************************)
Rings ==
  /\ ids < MaxCalls /\ ~InProgress(phone) /\ MayBegin
  /\ ids' = ids + 1 /\ phone' = [id |-> ids', st |-> "ringing"] /\ UNCHANGED dir
  /\ OnRinging(phone') /\ UNCHANGED <<cmd, hung, h>>
Answered ==
  /\ phone.st = "ringing" \/ (phone.st = "dialing" /\ cmd.pc # "connecting")
  /\ phone.id \notin ends /\ phone' = [phone EXCEPT !.st = "active"]
  /\ OnActive(phone') /\ UNCHANGED <<ids, dir, cmd, ends, hung, h>>
Ends(i) ==
  /\ InProgress(phone) /\ phone.id = i /\ phone' = [phone EXCEPT !.st = "ended"]
  /\ OnTerminal(phone') /\ UNCHANGED <<ids, dir, cmd, ends, hung, h>>

(***************************************************************************)
(* Dial command: handlePhoneCommand and dial                                *)
(***************************************************************************)
DialCommand(k) ==
  /\ cmd.pc = "none" /\ ids < MaxCalls /\ ~InProgress(c.call) /\ MayBegin
  /\ cmd' = [pc |-> IF k = 0 THEN "guard" ELSE "campaign", camp |-> k]
  /\ UNCHANGED <<phone, ids, dir, c, link, fin, ring, serve, say, ends, hung, h>>
\* getCampaign answers: the campaign takes the place of the one there is, which is kept.
CampaignLoaded ==
  /\ cmd.pc = "campaign"
  /\ \/ /\ cmd' = [cmd EXCEPT !.pc = "guard"]
        /\ c' = [c EXCEPT !.restore = c.campaign, !.campaign = cmd.camp]
     \/ cmd' = NoCmd /\ UNCHANGED c                                 \* an inbound campaign
  /\ UNCHANGED <<phone, ids, dir, link, fin, ring, serve, say, ends, hung, h>>
Guard ==
  /\ cmd.pc = "guard"
  /\ \/ cmd' = [cmd EXCEPT !.pc = "settings"] /\ c' = [c EXCEPT !.instr = "outbound"]
     \/ /\ cmd' = NoCmd                                             \* blocked
        /\ c' = IF InProgress(c.call) THEN c ELSE Restored(c)
  /\ UNCHANGED <<phone, ids, dir, link, fin, ring, serve, say, ends, hung, h>>
\* The start policy is known: warm the session up, or not, and dial.
Dial ==
  /\ cmd.pc = "settings" /\ ids < MaxCalls /\ cmd' = [cmd EXCEPT !.pc = "connecting"]
  /\ ids' = ids + 1 /\ phone' = [id |-> ids', st |-> "dialing"]
  /\ dir' = [dir EXCEPT ![ids'] = "outbound"]
  /\ OnDialing(phone')
  /\ link' \in {link} \cup (IF c.mode = "ai" THEN {Started(link)} ELSE {})
  /\ UNCHANGED <<ends, hung, h>>
Connected ==
  /\ cmd.pc = "connecting" /\ phone.st = "dialing" /\ cmd' = NoCmd
  /\ UNCHANGED <<phone, ids, dir, c, link, fin, ring, serve, say, ends, hung, h>>
\* Device.connect fails, or the call was hung up before it answered; a session
\* that was warmed up is stopped.
DialFails ==
  /\ cmd.pc = "connecting" /\ cmd' = NoCmd
  /\ LET dials == phone.st = "dialing"
         f == IF dials THEN [Seen(phone) EXCEPT !.accepts = FALSE] ELSE c
         g == IF InProgress(c.call) THEN f ELSE Restored(f)
     IN /\ phone' = IF dials THEN [phone EXCEPT !.st = "ended"] ELSE phone
        /\ fin' = IF dials THEN [fin EXCEPT ![phone.id] = "report"] ELSE fin
        /\ \/ c' = g /\ UNCHANGED link
           \/ c' = BridgeReset(g) /\ link' = "idle"
  /\ UNCHANGED <<ids, dir, ring, serve, say, ends, hung, h>>

(***************************************************************************)
(* The voice session and the call it is for                                 *)
(***************************************************************************)
\* The voice settings are there: the ringing call may have gone.
RingSettings(i) ==
  /\ i \in ring /\ ring' = ring \ {i}
  /\ IF phone.id = i /\ phone.st = "ringing" /\ c.mode = "ai"
     THEN \/ UNCHANGED <<c, link, say>>                             \* on_answer
          \/ link' = Started(link) /\ SyncLive(c, link')
     ELSE UNCHANGED <<c, link, say>>
  /\ UNCHANGED <<phone, ids, dir, fin, serve, cmd, ends, hung, h>>
LinkReady ==
  /\ link = "connecting" /\ link' = "ready" /\ SyncLive(c, link')
  /\ UNCHANGED <<phone, ids, dir, fin, ring, serve, cmd, ends, hung, h>>
\* A start that fails ends the call in progress; so does the loss of a session.
LinkFails ==
  /\ link \in {"connecting", "ready"} /\ link' = "error" /\ c' = Sync(c, link')
  /\ ends' = IF SessionLost(c, link') \/ (link = "connecting" /\ InProgress(c.call)) THEN Hangup(ends) ELSE ends
  /\ UNCHANGED <<phone, ids, dir, fin, ring, serve, say, cmd, hung, h>>
\* attachCallerStreamWhenReady
Leads(i) == c.call.id = i /\ c.call.st = "active" /\ c.mode = "ai"
Attached(i) ==
  /\ i \in serve /\ serve' = serve \ {i} /\ link \in {"connecting", "ready"}
  /\ SyncLive(IF Leads(i) THEN [c EXCEPT !.audio = i] ELSE c, link)
  /\ UNCHANGED <<phone, ids, dir, link, fin, ring, cmd, ends, hung, h>>
\* No audio in time, or no session: the call shown is ended.
ServeFails(i) ==
  /\ i \in serve /\ serve' = serve \ {i} /\ (Leads(i) \/ link \in {"idle", "error"})
  /\ ends' = IF InProgress(c.call) THEN Hangup(ends) ELSE ends
  /\ UNCHANGED <<phone, ids, dir, c, link, fin, ring, say, cmd, hung, h>>
\* After its delay an outbound greeting looks again at what it is for.
Greet(i) ==
  /\ say[i] > 0 /\ say' = [say EXCEPT ![i] = @ - 1]
  /\ LET f == [c EXCEPT !.announcing = IF @ = i THEN 0 ELSE @]
         speaks == dir[i] = "inbound" \/ (Leads(i) /\ link = "ready")
     IN \/ /\ speaks /\ c' = [f EXCEPT !.greeted = i]
           /\ h' = [h EXCEPT !.greetings[i] = @ + 1, !.tried = @ \cup {i}]
        \/ speaks /\ c' = f /\ h' = [h EXCEPT !.tried = @ \cup {i}] \* the speech is refused
        \/ ~speaks /\ c' = f /\ UNCHANGED h
  /\ UNCHANGED <<phone, ids, dir, link, fin, ring, serve, cmd, ends, hung>>

(***************************************************************************)
(* The operator and the assistant                                           *)
(***************************************************************************)
\* hangup, also by the duration timer
HangupCall ==
  /\ InProgress(c.call) /\ InProgress(phone) /\ phone.id \notin ends
  /\ ends' = Hangup(ends) /\ hung' = hung \cup {phone.id}
  /\ UNCHANGED <<phone, ids, dir, c, link, fin, ring, serve, say, cmd, h>>
EndRequested ==
  /\ InProgress(c.call) /\ c.endReq # c.call.id
  /\ c' = [c EXCEPT !.endReq = c.call.id, !.accepts = FALSE]
  /\ UNCHANGED <<phone, ids, dir, link, fin, ring, serve, say, cmd, ends, hung, h>>
\* setControlMode; a forbidden claim may take the call from the assistant too.
TakeOver ==
  /\ InProgress(c.call) /\ c.mode = "ai" /\ c' = [c EXCEPT !.mode = "human"]
  /\ UNCHANGED <<phone, ids, dir, link, fin, ring, serve, say, cmd, ends, hung, h>>
GiveBack ==
  /\ InProgress(c.call) /\ c.mode = "human"
  /\ LET f == [c EXCEPT !.mode = "ai"] IN
     IF c.call.st = "active"
     THEN /\ link' = Started(link) /\ serve' = serve \cup {c.call.id}
          /\ IF link' = link THEN c' = f /\ UNCHANGED say ELSE SyncLive(f, link')
     ELSE c' = f /\ UNCHANGED <<link, serve, say>>
  /\ UNCHANGED <<phone, ids, dir, fin, ring, cmd, ends, hung, h>>

(***************************************************************************)
(* finishTerminalState, and what hangup does after it                       *)
(***************************************************************************)
\* The end is reported; the state captured before that is shown now.
Reported(i) ==
  /\ fin[i] = "report" /\ fin' = [fin EXCEPT ![i] = "recorder"]
  /\ c' = [c EXCEPT !.call = [@ EXCEPT !.id = i, !.st = "ended"], !.mode = "ai"]
  /\ h' = [h EXCEPT !.reported = @ \cup {i}]
  /\ UNCHANGED <<phone, ids, dir, link, ring, serve, say, cmd, ends, hung>>
StopBridge(i) ==
  /\ fin[i] \in {"recorder", "again"} /\ c' = BridgeReset(c)
  /\ fin' = [fin EXCEPT ![i] = IF @ = "recorder" THEN IF link = "idle" THEN "mode" ELSE "bridge"
                               ELSE IF link = "idle" THEN "done" ELSE "last"]
  /\ UNCHANGED <<phone, ids, dir, link, ring, serve, say, cmd, ends, hung, h>>
LinkStopped(i) ==
  /\ fin[i] \in {"bridge", "last"}
  /\ fin' = [fin EXCEPT ![i] = IF @ = "bridge" THEN "mode" ELSE "done"]
  /\ link' = "idle" /\ c' = Sync(c, "idle")
  /\ ends' = IF SessionLost(c, "idle") THEN Hangup(ends) ELSE ends
  /\ UNCHANGED <<phone, ids, dir, ring, serve, say, cmd, hung, h>>
Restore(i) ==
  /\ fin[i] = "mode" /\ fin' = [fin EXCEPT ![i] = IF i \in hung THEN "again" ELSE "done"]
  /\ c' = Restored(c)
  /\ UNCHANGED <<phone, ids, dir, link, ring, serve, say, cmd, ends, hung, h>>

FinishStep(i) == Reported(i) \/ StopBridge(i) \/ LinkStopped(i) \/ Restore(i)
DialStep == CampaignLoaded \/ Guard \/ Dial \/ Connected \/ DialFails
Next ==
  \/ Rings \/ Answered \/ (\E k \in Campaigns : DialCommand(k)) \/ DialStep
  \/ LinkReady \/ LinkFails \/ HangupCall \/ EndRequested \/ TakeOver \/ GiveBack
  \/ \E i \in Calls : \/ Ends(i) \/ RingSettings(i) \/ Attached(i) \/ ServeFails(i) \/ Greet(i)
                      \/ FinishStep(i)

\* Promises settle, timers run, and a call the adapter was told to end ends.
Fairness ==
  /\ WF_phoneVars(DialStep) /\ WF_phoneVars(link = "connecting" /\ (LinkReady \/ LinkFails))
  /\ \A i \in Calls : /\ WF_phoneVars(FinishStep(i)) /\ WF_phoneVars(Greet(i))
                      /\ WF_phoneVars(RingSettings(i)) /\ WF_phoneVars(Attached(i) \/ ServeFails(i))
                      /\ WF_phoneVars(i \in ends /\ Ends(i))
Spec == Init /\ [][Next]_phoneVars /\ Fairness

(***************************************************************************)
(* Properties                                                               *)
(***************************************************************************)
\* Every variable has its type.
TypeOK ==
  /\ ids \in 0..MaxCalls /\ dir \in [Calls -> {"inbound", "outbound"}]
  /\ \A call \in {phone, c.call} : call.id \in 0..MaxCalls /\ call.st \in {"none", "dialing", "ringing", "active", "ended"}
  /\ c.mode \in {"ai", "human"} /\ c.accepts \in BOOLEAN /\ c.instr \in {"none", "inbound", "outbound"}
  /\ {c.endReq, c.bridged, c.greeted, c.announcing, c.audio, c.prewarmed} \subseteq 0..MaxCalls
  /\ c.campaign \in Campaigns /\ c.restore \in Campaigns \cup {NoContext}
  /\ link \in {"idle", "connecting", "ready", "error"} /\ cmd.camp \in Campaigns
  /\ fin \in [Calls -> {"none", "report", "recorder", "bridge", "mode", "again", "last", "done"}]
  /\ ring \cup serve \cup ends \cup hung \cup h.reported \cup h.tried \subseteq Calls
  /\ say \in [Calls -> 0..2]

\* A call is shown as ended only once its end has been reported
\* ('persists a terminal lifecycle before publishing ended state').
EndedIsReported == c.call.st = "ended" => c.call.id \in h.reported

\* Once the end of the call shown is asked for, no speech is accepted for it,
\* whatever the session does meanwhile ('stops accepting speech ... after end_call is requested').
NoSpeechAfterEnd == c.endReq = c.call.id => ~c.accepts

\* A call is greeted once, through takeovers and sessions lost and found.
GreetsOnce == \A i \in Calls : h.greetings[i] <= 1

\* When no call is in progress and none is being finished, the next call will
\* find the assistant in control, the campaign selected and no instructions of another call.
Idle == /\ cmd.pc = "none" /\ ~InProgress(c.call) /\ ~InProgress(phone) /\ ~Finishing
NextCallFresh ==
  Idle => c.mode = "ai" /\ c.campaign = 0 /\ c.restore = NoContext /\ ~c.accepts

\* The campaign selected is there again whenever no call is in progress or being
\* finished ('loads a command campaign without changing the selected campaign').
\* This code breaks it: a command that comes while the call before it is being
\* finished keeps that call's campaign as the one to come back to.
SelectedCampaignStays == Idle => c.campaign = 0

\* The call shown and the adapter's agree when nothing is being finished.
ShowsPhone == ~Finishing => c.call = phone

\* A call the assistant leads is greeted, or ends, or is taken over: it is not
\* left in silence.
ActiveIsServed ==
  \A i \in Calls : c.call = [id |-> i, st |-> "active"] /\ c.mode = "ai" ~>
     \/ i \in h.tried \/ c.call.id # i \/ c.call.st = "ended" \/ c.mode = "human" \/ c.endReq = i

\* A call whose session is lost ends, or is taken over.
LostSessionEndsCall ==
  \A i \in Calls : c.call = [id |-> i, st |-> "active"] /\ c.mode = "ai" /\ link = "error" ~>
     c.call.id # i \/ c.call.st = "ended" \/ c.mode = "human" \/ c.endReq = i

\* All of these: an end is reported before it is shown; no speech is accepted
\* once the end is asked for; a call is greeted once; the next call finds no
\* trace of the last; what is shown is the call of the phone; an active call
\* is served, and ended when its session is lost.
ControllerPromise ==
  /\ [](TypeOK /\ EndedIsReported /\ NoSpeechAfterEnd /\ GreetsOnce /\ NextCallFresh /\ ShowsPhone)
  /\ ActiveIsServed /\ LostSessionEndsCall
=============================================================================
