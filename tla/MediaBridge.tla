---------------------------- MODULE MediaBridge ----------------------------
(***************************************************************************)
(* The media bridge of a cloud call: audio frames and marks of a Twilio    *)
(* media stream on one side, the events of a GPT-Live session on the other *)
(* (packages/adapters-cloud/src/voice/media-bridge.ts).  Twilio plays what *)
(* it is sent and returns one mark per frame when it has played it, or when *)
(* a clear message dropped it; what it still owes is in twilio.  A handler *)
(* of the bridge runs to its end, so that outboundQueue, which is filled   *)
(* and flushed by one handler, is empty between two steps, and playback is *)
(* unackedMarks alone.  awaitingNewAssistantTurn is set and cleared with   *)
(* suppressOutbound, and is not kept beside it.  Payloads, texts, metrics  *)
(* and logs are left out.                                                  *)
(***************************************************************************)
EXTENDS Naturals

CONSTANTS InboundCap,     \* inboundCap
          OutboundCap,    \* outboundCap
          EnergyFrames,   \* energyFrames
          SilenceFrames,  \* unsuppressSilenceFrames
          MaxPending      \* bound: frames Twilio has not returned the mark of

ASSUME CapsAssumption == {InboundCap, OutboundCap, EnergyFrames, SilenceFrames, MaxPending} \subseteq Nat \ {0}

VARIABLES opts,      \* openingLine, energyBargeIn and twilioRest of the call
          stream,    \* streamSid is known
          gpt,       \* the GPT-Live session: off, asked, ready, ended, lost
          phase,     \* open, closing, closed
          failed,    \* gptFailed
          queued,    \* length of inboundQueue
          out,       \* suppressOutbound, unackedMarks, marksHeard > 0
          caller,    \* lastInboundWasSpeech, energyRun, postInterruptSilenceRun, interrupted before
          greet,     \* greetingGuard, greetingAudioFlushed, greetingTimer
          hang,      \* hangupTimer, the check in flight, recheck, requested
          fresh,     \* a transcript came after the turns the last judge was given
          ends,      \* endCall requests sent
          twilio     \* marks Twilio owes: of frames playing, of frames cleared

audioVars == <<out, caller, greet, twilio>>
bridgeVars == <<opts, stream, gpt, phase, failed, queued, out, caller, greet, hang, fresh, ends, twilio>>

Least(a, b) == IF a < b THEN a ELSE b

Init ==
  /\ opts \in [opening : BOOLEAN, energy : BOOLEAN, rest : BOOLEAN]
  /\ stream = FALSE /\ gpt = "off" /\ phase = "open" /\ failed = FALSE /\ queued = 0
  /\ out = [suppress |-> FALSE, unacked |-> 0, heard |-> FALSE]
  /\ caller = [speech |-> FALSE, energy |-> 0, silence |-> 0, before |-> FALSE]
  /\ greet = [guard |-> FALSE, flushed |-> FALSE, timer |-> FALSE]
  /\ hang = [timer |-> FALSE, check |-> "none", recheck |-> FALSE, requested |-> FALSE]
  /\ fresh = FALSE /\ ends = 0 /\ twilio = [playing |-> 0, cleared |-> 0]

(***************************************************************************)
(* Audio                                                                    *)
(***************************************************************************)
HasPlayback == out.unacked > 0
CanInterrupt == /\ phase = "open" /\ stream /\ ~greet.guard
                /\ HasPlayback /\ ~out.suppress

\* Everything queued is dropped and Twilio is told to clear; it will return
\* the marks of what it had.
Cleared == [out EXCEPT !.suppress = TRUE, !.unacked = 0]
TwilioCleared == [playing |-> 0, cleared |-> twilio.cleared + twilio.playing]
Interrupt ==
  /\ CanInterrupt
  /\ out' = Cleared /\ twilio' = TwilioCleared
  /\ caller' = [caller EXCEPT !.energy = 0, !.silence = 0, !.before = TRUE]

GuardLifted == [greet EXCEPT !.guard = FALSE, !.timer = FALSE]

TwilioStart ==
  /\ ~stream /\ stream' = TRUE /\ gpt' = "asked"
  /\ UNCHANGED <<opts, phase, failed, queued, audioVars, hang, fresh, ends>>

Quiet == caller.silence + 1
\* One frame of the caller: its energy is noted, it may barge in, and it may
\* be the silence that ends the greeting guard or the suppression.
Media(speech) ==
  LET energy == IF ~opts.energy \/ greet.guard THEN caller.energy
                ELSE IF HasPlayback /\ speech THEN caller.energy + 1 ELSE 0
      fires == opts.energy /\ energy >= EnergyFrames /\ CanInterrupt
      heard == [caller EXCEPT !.speech = speech, !.energy = energy]
      enough == Quiet >= SilenceFrames
  IN /\ stream /\ phase = "open"
     /\ queued' = IF gpt = "ready" THEN queued ELSE Least(queued + 1, InboundCap)
     /\ IF fires
        THEN /\ out' = Cleared /\ twilio' = TwilioCleared /\ UNCHANGED greet
             /\ caller' = [heard EXCEPT !.energy = 0, !.silence = 0, !.before = TRUE]
        ELSE /\ UNCHANGED twilio
             /\ IF greet.guard /\ greet.flushed /\ ~speech
                THEN /\ caller' = [heard EXCEPT !.silence = Quiet] /\ UNCHANGED out
                     /\ greet' = IF enough THEN GuardLifted ELSE greet
                ELSE /\ UNCHANGED greet
                     /\ caller' = [heard EXCEPT !.silence =
                                     IF ~out.suppress THEN @ ELSE IF speech THEN 0 ELSE Quiet]
                     /\ out' = [out EXCEPT !.suppress = @ /\ (speech \/ ~enough)]
     /\ UNCHANGED <<opts, stream, gpt, phase, failed, hang, fresh, ends>>

\* The assistant's audio, as n frames: each is followed by a mark.
AssistantAudio(n) ==
  LET sent == Least(n, OutboundCap)
  IN /\ gpt = "ready" /\ phase = "open" /\ ~out.suppress
     /\ twilio.playing + twilio.cleared + sent <= MaxPending
     /\ out' = [out EXCEPT !.unacked = @ + sent]
     /\ twilio' = [twilio EXCEPT !.playing = @ + sent]
     /\ greet' = [greet EXCEPT !.flushed = TRUE]
     /\ UNCHANGED <<opts, stream, gpt, phase, failed, queued, caller, hang, fresh, ends>>

\* Twilio returns marks in the order of the frames: cleared ones come first,
\* and the bridge does not look at their names.
Mark ==
  /\ twilio.playing + twilio.cleared > 0
  /\ twilio' = IF twilio.cleared > 0 THEN [twilio EXCEPT !.cleared = @ - 1]
               ELSE [twilio EXCEPT !.playing = @ - 1]
  /\ out' = [out EXCEPT !.heard = TRUE, !.unacked = IF @ > 0 THEN @ - 1 ELSE 0]
  /\ greet' = IF greet.guard /\ greet.flushed /\ out'.unacked = 0 THEN GuardLifted ELSE greet
  /\ UNCHANGED <<opts, stream, gpt, phase, failed, queued, caller, hang, fresh, ends>>

GreetingTimeout ==
  /\ greet.timer /\ greet' = GuardLifted
  /\ UNCHANGED <<opts, stream, gpt, phase, failed, queued, out, caller, hang, fresh, ends, twilio>>

(***************************************************************************)
(* The hangup check                                                         *)
(***************************************************************************)
Over == phase # "open"
\* noteTranscriptActivity and scheduleHangupCheck.
Scheduled == IF hang.requested \/ Over THEN hang
             ELSE [hang EXCEPT !.timer = TRUE, !.recheck = @ \/ hang.check # "none"]

\* considerHangup up to its await: the judge is given the turns so far.
Considered(h) ==
  IF h.requested \/ Over THEN h
  ELSE IF h.check # "none" THEN [h EXCEPT !.recheck = TRUE]
  ELSE [h EXCEPT !.check = "judging", !.recheck = FALSE]
GivenAll(h) == ~(h.requested \/ Over \/ h.check # "none")

HangupTimer ==
  LET fired == [hang EXCEPT !.timer = FALSE]
  IN /\ hang.timer /\ hang' = Considered(fired)
     /\ fresh' = (fresh /\ ~GivenAll(fired))
     /\ UNCHANGED <<opts, stream, gpt, phase, failed, queued, audioVars, ends>>

\* The end of considerHangup: a check that was asked for meanwhile is made
\* now if the silence has already passed, that is if no timer is pending.
Finished(h) ==
  LET free == [h EXCEPT !.check = "none"]
      again == h.recheck /\ ~h.requested /\ ~Over
      ready == [free EXCEPT !.recheck = FALSE]
  IN IF ~again THEN /\ hang' = free /\ UNCHANGED fresh
     ELSE IF h.timer THEN /\ hang' = ready /\ UNCHANGED fresh
     ELSE /\ hang' = Considered(ready) /\ fresh' = FALSE

\* The verdict.  A judge that fails never ends the call.
JudgeKeeps ==
  /\ hang.check = "judging" /\ Finished(hang)
  /\ UNCHANGED <<opts, stream, gpt, phase, failed, queued, audioVars, ends>>
PlaybackBusy == out.heard /\ out.unacked > 0
\* executeHangup: without a call or a REST client nothing is sent.
Execute(h) ==
  IF stream /\ opts.rest
  THEN /\ ends' = ends + 1 /\ hang' = [h EXCEPT !.check = "ending"] /\ UNCHANGED fresh
  ELSE /\ UNCHANGED ends /\ Finished(h)
\* Mutant: the decision is not kept.
Decided_Forgets == [hang EXCEPT !.timer = FALSE]
Decided == [hang EXCEPT !.requested = TRUE, !.timer = FALSE]
JudgeEnds ==
  /\ hang.check = "judging"
  /\ IF PlaybackBusy
     THEN hang' = [Decided EXCEPT !.check = "waiting"] /\ UNCHANGED <<ends, fresh>>
     ELSE Execute(Decided)
  /\ UNCHANGED <<opts, stream, gpt, phase, failed, queued, audioVars>>
PlaybackWaited ==
  /\ hang.check = "waiting" /\ Execute(hang)
  /\ UNCHANGED <<opts, stream, gpt, phase, failed, queued, audioVars>>
\* endCall answered or failed: a failure is noted, and not tried again.
EndCallAnswered ==
  /\ hang.check = "ending" /\ Finished(hang)
  /\ UNCHANGED <<opts, stream, gpt, phase, failed, queued, audioVars, ends>>

(***************************************************************************)
(* The events of GPT-Live                                                   *)
(***************************************************************************)
SessionStarted ==
  /\ gpt = "asked" /\ gpt' = "ready" /\ queued' = 0
  /\ greet' = IF opts.opening THEN [greet EXCEPT !.guard = TRUE, !.timer = TRUE] ELSE greet
  /\ UNCHANGED <<opts, stream, phase, failed, out, caller, hang, fresh, ends, twilio>>

\* A transcript of the caller; fires is classifyTranscriptInterrupt of what
\* the caller has said since the last interruption.
CallerTranscript(fires) ==
  /\ gpt = "ready" /\ fresh' = TRUE /\ hang' = Scheduled
  /\ \/ /\ fires /\ (caller.speech \/ ~caller.before) /\ Interrupt
     \/ /\ ~(fires /\ (caller.speech \/ ~caller.before) /\ CanInterrupt)
        /\ UNCHANGED <<out, caller, twilio>>
  /\ UNCHANGED <<opts, stream, gpt, phase, failed, queued, greet, ends>>
\* session.input_audio.speech_started, and discardPlayback of the adapter.
SpeechStarted ==
  /\ gpt = "ready" /\ Interrupt
  /\ UNCHANGED <<opts, stream, gpt, phase, failed, queued, greet, hang, fresh, ends>>
AssistantTranscript ==
  /\ gpt = "ready" /\ fresh' = TRUE /\ hang' = Scheduled
  /\ out' = [out EXCEPT !.suppress = @ /\ caller.speech]
  /\ UNCHANGED <<opts, stream, gpt, phase, failed, queued, caller, greet, ends, twilio>>

\* close: session.close is sent once; the bridge is closed when GPT-Live says so.
Closing == /\ phase' = IF phase = "open" THEN "closing" ELSE phase
           /\ hang' = IF phase = "open" THEN [hang EXCEPT !.timer = FALSE] ELSE hang
Close ==
  /\ phase = "open" /\ stream /\ Closing
  /\ UNCHANGED <<opts, stream, gpt, failed, queued, audioVars, fresh, ends>>
\* fail: an error event, a socket that closed or a session that timed out.
\* Only the first is reported, whatever the phase.
Fail(kind) ==
  /\ gpt # "off" /\ gpt # "lost"
  /\ kind # "disconnect" => gpt # "ended"
  /\ kind = "disconnect" \/ ~failed
  /\ gpt' = IF kind = "disconnect" THEN "lost" ELSE gpt
  /\ failed' = TRUE
  /\ IF failed THEN UNCHANGED <<phase, hang>> ELSE Closing
  /\ UNCHANGED <<opts, stream, queued, audioVars, fresh, ends>>
\* finish
SessionClosed ==
  /\ gpt \in {"asked", "ready"} /\ gpt' = "ended" /\ phase' = "closed" /\ queued' = 0
  /\ hang' = [hang EXCEPT !.timer = FALSE]
  /\ UNCHANGED <<opts, stream, failed, audioVars, fresh, ends>>

Next ==
  \/ TwilioStart \/ \E s \in BOOLEAN : Media(s)
  \/ \E n \in 1..2 : AssistantAudio(n)
  \/ Mark \/ GreetingTimeout \/ HangupTimer
  \/ JudgeKeeps \/ JudgeEnds \/ PlaybackWaited \/ EndCallAnswered
  \/ SessionStarted \/ \E f \in BOOLEAN : CallerTranscript(f)
  \/ SpeechStarted \/ AssistantTranscript
  \/ Close \/ \E k \in {"error", "disconnect", "timeout"} : Fail(k)
  \/ SessionClosed

\* Timers fire, the judge is given a deadline, REST requests are answered, and
\* Twilio sends a frame of the caller every 20 ms: what is promised to a caller
\* who is silent needs the silent ones.
Fairness ==
  /\ WF_bridgeVars(GreetingTimeout) /\ WF_bridgeVars(HangupTimer)
  /\ WF_bridgeVars(JudgeKeeps \/ JudgeEnds) /\ WF_bridgeVars(PlaybackWaited)
  /\ WF_bridgeVars(EndCallAnswered) /\ WF_bridgeVars(Media(FALSE))

Spec == Init /\ [][Next]_bridgeVars /\ Fairness

(***************************************************************************)
(* Properties                                                               *)
(***************************************************************************)
\* Every variable has its type, the queue its cap, the runs their thresholds.
TypeOK ==
  /\ opts \in [opening : BOOLEAN, energy : BOOLEAN, rest : BOOLEAN]
  /\ {stream, failed, fresh} \subseteq BOOLEAN
  /\ gpt \in {"off", "asked", "ready", "ended", "lost"} /\ phase \in {"open", "closing", "closed"}
  /\ queued \in 0..InboundCap /\ ends \in Nat
  /\ out \in [suppress : BOOLEAN, unacked : Nat, heard : BOOLEAN]
  /\ caller \in [speech : BOOLEAN, energy : Nat, silence : Nat, before : BOOLEAN]
  /\ greet \in [guard : BOOLEAN, flushed : BOOLEAN, timer : BOOLEAN]
  /\ hang \in [timer : BOOLEAN, check : {"none", "judging", "waiting", "ending"},
               recheck : BOOLEAN, requested : BOOLEAN]
  /\ twilio \in [playing : Nat, cleared : Nat]

\* Late marks of audio that was cleared are taken for marks of the new audio:
\* the bridge may then believe too early that nothing plays, but never that
\* something plays when Twilio has played or dropped all of it.
NeverOvercounts == out.unacked <= twilio.playing

\* Twilio is told to clear only while it plays something, and nobody
\* interrupts the greeting: an interruption is never for nothing.
ClearsOnlyPlayback ==
  [][out'.suppress /\ ~out.suppress => twilio.playing > 0 /\ ~greet.guard]_bridgeVars

\* A call is hung up at most once, whatever transcripts, verdicts and timers
\* come while the judge, the wait for playback or endCall are in flight.
EndsOnce == ends <= 1 /\ (ends = 1 => hang.requested)

\* A greeting guard is always lifted: by the marks, by silence or by its timer.
GuardIsLifted == greet.guard ~> ~greet.guard

\* After an interruption the assistant is heard again once the caller has
\* been silent: suppression cannot outlast a caller who says nothing.
SuppressionEnds == (out.suppress /\ phase = "open") ~> (~out.suppress \/ caller.speech \/ phase # "open")

\* Whatever was said is judged: a transcript that arrives while a check is in
\* flight gets a check of its own, unless the call ends first.
EveryWordIsJudged == (fresh /\ phase = "open") ~> (~fresh \/ hang.requested \/ phase # "open")
=============================================================================
