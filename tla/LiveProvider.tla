---------------------------- MODULE LiveProvider ----------------------------
(***************************************************************************)
(* A voice session of the desktop application: the GPT-Live provider that  *)
(* creates it over HTTP, attaches a control socket to it and closes it     *)
(* (apps/desktop/src/main/voice/gpt-live-api-provider.ts), as driven by the *)
(* RealtimeService.  start, stop and silence are calls of the renderer or  *)
(* of the phone; everything else is the network's or a timer's.  text is   *)
(* what was transcribed and not yet published as final (how it is put in   *)
(* order is module TranscriptFlow); the queue holds what is said before    *)
(* the session is ready.                                                   *)
(***************************************************************************)
EXTENDS Naturals, Sequences

CONSTANTS QueueCap,     \* length of the queue of commands, 8 in the code
          MaxSessions   \* bound: sessions started

VARIABLES starting,  \* startInternal: none, creating, attaching
          socket,    \* the control socket exists
          flags,     \* opened, observedStarted, ready, failed, ending
          queue,     \* commands held until the session is ready
          close,     \* closePromise: none, waiting for the start, closing, done
          text,      \* a transcript is not yet published
          said,      \* what the session has published of its life: none, started, closed
          after,     \* something was published after closed
          hush,      \* the stop-speaking instruction: none, asked, sent
          running,   \* RealtimeService.running
          sessions   \* sessions started
liveVars == <<starting, socket, flags, queue, close, text, said, after, hush, running, sessions>>

NoFlags == [opened |-> FALSE, observed |-> FALSE, ready |-> FALSE, failed |-> FALSE, ending |-> FALSE]

Init ==
  /\ starting = "none" /\ socket = FALSE /\ flags = NoFlags /\ queue = <<>>
  /\ close = "none" /\ text = FALSE /\ said = "none" /\ after = FALSE
  /\ hush = "none" /\ running = FALSE /\ sessions = 0

Idle == starting = "none" /\ ~socket

Start ==
  /\ Idle /\ close # "waiting" /\ sessions < MaxSessions /\ sessions' = sessions + 1
  /\ starting' = "creating" /\ flags' = NoFlags /\ queue' = <<>>
  /\ close' = "none" /\ said' = "none" /\ after' = FALSE /\ hush' = "none" /\ running' = TRUE
  /\ UNCHANGED <<socket, text>>
\* A second start is refused, and its failure stops nothing.
StartRefused ==
  /\ ~Idle /\ running /\ running' = FALSE
  /\ UNCHANGED <<starting, socket, flags, queue, close, text, said, after, hush, sessions>>

\* cleanup: what is left of the transcript is published, the socket is let go.
CleanedUp(f) ==
  /\ socket' = FALSE /\ queue' = <<>> /\ text' = FALSE
  /\ flags' = [f EXCEPT !.opened = FALSE, !.ready = FALSE]

\* The start fails: creating or attaching the session was refused or timed out.
StartFails ==
  /\ starting # "none" /\ starting' = "none" /\ running' = FALSE
  /\ CleanedUp(flags)
  /\ UNCHANGED <<close, said, after, hush, sessions>>
Created ==
  /\ starting = "creating" /\ starting' = "attaching" /\ socket' = TRUE
  /\ UNCHANGED <<flags, queue, close, text, said, after, hush, running, sessions>>

\* becomeReady: the queue is sent when the socket is open and the session has
\* been seen to start, by the socket or by the renderer.
BecomeReady(f) ==
  IF f.opened /\ f.observed /\ ~f.ready
  THEN /\ flags' = [f EXCEPT !.ready = TRUE] /\ queue' = <<>> /\ said' = "started"
       /\ hush' = IF \E i \in DOMAIN queue : queue[i] = "hush" THEN "sent" ELSE hush
  ELSE flags' = f /\ UNCHANGED <<queue, hush, said>>
Opened ==
  /\ starting = "attaching" /\ starting' = "none"
  /\ BecomeReady([flags EXCEPT !.opened = TRUE])
  /\ UNCHANGED <<socket, close, text, after, running, sessions>>
MarkStarted ==
  /\ socket /\ ~flags.observed /\ BecomeReady([flags EXCEPT !.observed = TRUE])
  /\ UNCHANGED <<starting, socket, close, text, after, running, sessions>>

Enqueue(kind, q) == IF Len(q) = QueueCap THEN Append(Tail(q), kind) ELSE Append(q, kind)
\* appendSpeech, appendText and a declined delegation.
Speak ==
  /\ starting # "none" \/ socket
  /\ ~flags.ending /\ ~flags.ready
  /\ queue' = Enqueue("speech", queue)
  /\ UNCHANGED <<starting, socket, flags, close, text, said, after, hush, running, sessions>>
\* Mutant: speech is still queued after the instruction to stop.
Silence_NotEnding ==
  /\ starting # "none" \/ socket
  /\ hush = "none"
  /\ flags' = flags
  /\ IF flags.ready THEN queue' = <<>> /\ hush' = "sent"
     ELSE queue' = Enqueue("hush", <<>>) /\ hush' = "asked"
  /\ UNCHANGED <<starting, socket, close, text, said, after, running, sessions>>
Silence ==
  /\ starting # "none" \/ socket
  /\ hush = "none"
  /\ flags' = [flags EXCEPT !.ending = TRUE]
  /\ IF flags.ready THEN queue' = <<>> /\ hush' = "sent"
     ELSE queue' = Enqueue("hush", <<>>) /\ hush' = "asked"
  /\ UNCHANGED <<starting, socket, close, text, said, after, running, sessions>>

Delta ==
  /\ socket /\ flags.opened /\ ~text /\ text' = TRUE
  /\ UNCHANGED <<starting, socket, flags, queue, close, said, after, hush, running, sessions>>
Flush ==
  /\ text /\ socket /\ text' = FALSE /\ after' = (after \/ said = "closed")
  /\ UNCHANGED <<starting, socket, flags, queue, close, said, hush, running, sessions>>

\* stop: one close is in flight at a time, and it waits for a start.
BeginClose(f) ==
  IF starting # "none"
  THEN close' = "waiting" /\ flags' = f /\ UNCHANGED <<socket, queue, text, running>>
  ELSE IF close \in {"closing", "done"} \/ ~socket
  THEN /\ close' = IF close = "waiting" THEN "none" ELSE close
       /\ flags' = f /\ running' = (running /\ socket) /\ UNCHANGED <<socket, queue, text>>
  ELSE \/ close' = "closing" /\ flags' = f /\ UNCHANGED <<socket, queue, text, running>>
       \/ \* session.close cannot be sent: the session is dropped without a word
          close' = "done" /\ CleanedUp(f) /\ running' = FALSE
Ending == [flags EXCEPT !.ending = TRUE]
Stop ==
  /\ BeginClose(Ending) /\ UNCHANGED <<starting, said, after, hush, sessions>>
StopResumes ==
  /\ close = "waiting" /\ starting = "none" /\ BeginClose(Ending)
  /\ UNCHANGED <<starting, said, after, hush, sessions>>
\* fail: an error of the socket once open, an error event, a message that
\* does not parse, or no session.started in time.
Fail ==
  /\ socket /\ flags.opened /\ ~flags.failed
  /\ BeginClose([Ending EXCEPT !.failed = TRUE])
  /\ after' = (after \/ said = "closed")
  /\ UNCHANGED <<starting, said, hush, sessions>>

\* The end of a session: session.closed, or the socket closed.  The last
\* transcript is published first.
SessionClosed ==
  /\ socket /\ said' = "closed" /\ starting' = "none" /\ running' = FALSE
  /\ CleanedUp(flags) /\ close' = IF close = "closing" THEN "done" ELSE close
  /\ UNCHANGED <<after, hush, sessions>>
\* Nobody answered the close: closed is published, and then the transcript.
FinalizationTimeout ==
  /\ close = "closing" /\ close' = "done" /\ said' = "closed" /\ running' = FALSE
  /\ after' = (after \/ text) /\ CleanedUp(flags)
  /\ UNCHANGED <<starting, hush, sessions>>

Next ==
  \/ Start \/ StartRefused \/ StartFails \/ Created \/ Opened \/ MarkStarted
  \/ Speak \/ Silence \/ Delta \/ Flush
  \/ Stop \/ StopResumes \/ Fail \/ SessionClosed \/ FinalizationTimeout

\* The HTTP request and the attach have deadlines, the close has a timer.
Fairness ==
  /\ WF_liveVars(StartFails \/ Created \/ Opened) /\ WF_liveVars(StopResumes)
  /\ WF_liveVars(FinalizationTimeout) /\ WF_liveVars(Flush)

Spec == Init /\ [][Next]_liveVars /\ Fairness

(***************************************************************************)
(* Properties                                                               *)
(***************************************************************************)
\* Every variable has its type; nothing waits in the queue of a ready session.
TypeOK ==
  /\ starting \in {"none", "creating", "attaching"}
  /\ flags \in [DOMAIN NoFlags -> BOOLEAN] /\ {socket, text, after, running} \subseteq BOOLEAN
  /\ queue \in Seq({"speech", "hush"}) /\ Len(queue) <= QueueCap /\ (flags.ready => queue = <<>>)
  /\ close \in {"none", "waiting", "closing", "done"} /\ said \in {"none", "started", "closed"}
  /\ hush \in {"none", "asked", "sent"} /\ sessions \in 0..MaxSessions

\* The last command of a call is not lost: a model that was told to stop
\* speaking before its session was ready is told so as soon as it is ready,
\* whatever else was to be said, and however often, while it started.
HushReachesModel == flags.ready /\ hush # "none" => hush = "sent"

\* A session that was closed does not start any more, whichever of the socket
\* and the renderer reports its start last.
StartedThenClosed == [][said = "closed" => said' # "started"]_liveVars

\* stop answers: the start it waits for ends, and the close it sent is
\* answered or given up.
StopSettles == close \in {"waiting", "closing"} ~> close \in {"none", "done"}

\* Whatever was transcribed is published as final, however the session ends.
TranscriptIsPublished == text ~> ~text

\* What the contract of the voice port says: no events after closed.
SilentAfterClosed == ~after
=============================================================================
