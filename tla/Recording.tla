----------------------------- MODULE Recording -----------------------------
(***************************************************************************)
(* The recording of calls: CallRecorder in the renderer takes the audio of *)
(* a call in chunks and sends them one after the other; RecordingService   *)
(* and RecordingWriter of the main process write them to the file of the   *)
(* call and keep its row.  The end of a recording awaits three times, and  *)
(* the next call may come in between.  A chunk is [of |-> the recording    *)
(* whose recorder made it, seq |-> its number].                            *)
(***************************************************************************)
EXTENDS Naturals, Sequences, SequencesExt

CONSTANTS MaxRecordings,  \* bound: calls, which are 1..MaxRecordings
          MaxChunks       \* bound: chunks a recorder makes before its last one

Recordings == 1..MaxRecordings

VARIABLES calls,     \* calls begun
          cur,       \* recordingCallId, 0 for none
          seq,       \* seq
          stopping,  \* stopping
          recorder,  \* the MediaRecorder of a call
          taken,     \* chunks a recorder has made
          chain,     \* chunkQueue of a recording: chunks not yet sent, and for which call
          stop,      \* what the stop of a recording awaits
          graph,     \* the recording whose audio graph there is, 0 for none
          writer,    \* calls with a file open
          file,      \* the chunks in the file of a call
          row,       \* status of the call's recording
          up,        \* the application runs
          late,      \* history: recordings whose last chunk came after the stop gave up on it
          broken,    \* history: calls one of whose chunks did not get to the writer
          crossed    \* history: a recording began while the stop of another awaited its chunks
recVars == <<calls, cur, seq, stopping, recorder, taken, chain, stop, graph, writer, file, row,
             up, late, broken, crossed>>
rendererVars == <<calls, cur, seq, stopping, recorder, taken, chain, stop, graph, late, crossed>>

None(v) == [c \in Recordings |-> v]
Init ==
  /\ calls = 0 /\ cur = 0 /\ seq = 0 /\ stopping = FALSE /\ recorder = None("none")
  /\ taken = None(0) /\ chain = None(<<>>) /\ stop = None("none") /\ graph = 0
  /\ writer = {} /\ file = None(<<>>) /\ row = None("none")
  /\ up = TRUE /\ late = {} /\ broken = {} /\ crossed = FALSE

(***************************************************************************)
(* CallRecorder                                                             *)
(***************************************************************************)
\* The writer takes the call if it is the active session; the recorder goes on either way.
Start ==
  /\ up /\ cur = 0 /\ calls < MaxRecordings
  /\ LET c == calls + 1 IN
     /\ calls' = c /\ cur' = c /\ seq' = 0 /\ recorder' = [recorder EXCEPT ![c] = "on"] /\ graph' = c
     /\ \/ writer' = writer \cup {c} /\ row' = [row EXCEPT ![c] = "recording"]
        \/ UNCHANGED <<writer, row>>
  /\ crossed' = (crossed \/ \E c \in Recordings : stop[c] = "queue")
  /\ UNCHANGED <<stopping, taken, chain, stop, file, up, late, broken>>
\* A call that begins while another is recorded, or being stopped, is not recorded.
StartIgnored ==
  /\ up /\ cur # 0 /\ calls < MaxRecordings /\ calls' = calls + 1
  /\ UNCHANGED <<cur, seq, stopping, recorder, taken, chain, stop, graph, writer, file, row,
                 up, late, broken, crossed>>
\* sendChunk: a chunk is for the call recorded now, whichever recorder made it.
SendChunk(c) ==
  IF cur = 0 THEN UNCHANGED <<seq, chain>>
  ELSE /\ seq' = seq + 1
       /\ chain' = [chain EXCEPT ![cur] = Append(@, [of |-> c, seq |-> seq])]
Collect(c) ==
  /\ up /\ recorder[c] = "on" /\ taken[c] < MaxChunks
  /\ taken' = [taken EXCEPT ![c] = @ + 1] /\ SendChunk(c)
  /\ UNCHANGED <<calls, cur, stopping, recorder, stop, graph, writer, file, row, up, late, broken, crossed>>
Stop ==
  /\ up /\ cur # 0 /\ ~stopping /\ stopping' = TRUE
  /\ recorder' = [recorder EXCEPT ![cur] = "last"] /\ stop' = [stop EXCEPT ![cur] = "last"]
  /\ UNCHANGED <<calls, cur, seq, taken, chain, graph, writer, file, row, up, late, broken, crossed>>
\* The last chunk, or 500 ms without it; stop goes on.
LastChunk(c) ==
  /\ up /\ recorder[c] = "last" /\ recorder' = [recorder EXCEPT ![c] = "off"] /\ SendChunk(c)
  /\ IF stop[c] = "last" THEN stop' = [stop EXCEPT ![c] = "resumed"] /\ UNCHANGED late
     ELSE late' = late \cup {c} /\ UNCHANGED stop
  /\ UNCHANGED <<calls, cur, stopping, taken, graph, writer, file, row, up, broken, crossed>>
LastChunkTimeout(c) ==
  /\ up /\ stop[c] = "last" /\ stop' = [stop EXCEPT ![c] = "resumed"]
  /\ UNCHANGED <<calls, cur, seq, stopping, recorder, taken, chain, graph, writer, file, row,
                 up, late, broken, crossed>>
Resumed(c) ==
  /\ up /\ stop[c] = "resumed" /\ stop' = [stop EXCEPT ![c] = "queue"]
  /\ cur' = 0 /\ stopping' = FALSE
  /\ UNCHANGED <<calls, seq, recorder, taken, chain, graph, writer, file, row, up, late, broken, crossed>>
\* Mutant: the end does not wait for the chunks to be sent.
Teardown_NoWait(c) ==
  /\ up /\ stop[c] = "queue" /\ stop' = [stop EXCEPT ![c] = "finish"]
  /\ graph' = 0
  /\ UNCHANGED <<calls, cur, seq, stopping, recorder, taken, chain, writer, file, row, up, late, broken, crossed>>
\* The graph that is let go is the present one, whose recording it may be of.
Teardown(c) ==
  /\ up /\ stop[c] = "queue" /\ chain[c] = <<>> /\ stop' = [stop EXCEPT ![c] = "finish"]
  /\ graph' = 0
  /\ UNCHANGED <<calls, cur, seq, stopping, recorder, taken, chain, writer, file, row, up, late, broken, crossed>>

(***************************************************************************)
(* RecordingService and RecordingWriter                                     *)
(***************************************************************************)
\* A chunk is written, or rejected; one too large ends the recording.  A chunk
\* that fails on the way is not sent again.
ChunkArrives(c) ==
  /\ up /\ chain[c] # <<>> /\ chain' = [chain EXCEPT ![c] = Tail(@)]
  /\ \/ /\ c \in writer /\ file' = [file EXCEPT ![c] = Append(@, Head(chain[c]))]
        /\ UNCHANGED <<writer, row, broken>>
     \/ c \notin writer /\ UNCHANGED <<writer, row, file, broken>>
     \/ /\ c \in writer /\ writer' = writer \ {c} /\ row' = [row EXCEPT ![c] = "incomplete"]
        /\ UNCHANGED <<file, broken>>
     \/ broken' = broken \cup {c} /\ UNCHANGED <<writer, row, file>>
  /\ UNCHANGED <<calls, cur, seq, stopping, recorder, taken, stop, graph, up, late, crossed>>
Finish(c) ==
  /\ up /\ stop[c] = "finish" /\ stop' = [stop EXCEPT ![c] = "none"]
  /\ IF c \in writer THEN writer' = writer \ {c} /\ row' = [row EXCEPT ![c] = "complete"]
     ELSE UNCHANGED <<writer, row>>
  /\ UNCHANGED <<calls, cur, seq, stopping, recorder, taken, chain, graph, file, up, late, broken, crossed>>
\* The application closes its writer, or crashes; what the renderer had is gone.
Halt(closes) ==
  /\ up /\ up' = FALSE /\ writer' = {}
  /\ row' = [c \in Recordings |-> IF closes /\ c \in writer THEN "incomplete" ELSE row[c]]
  /\ cur' = 0 /\ seq' = 0 /\ stopping' = FALSE /\ recorder' = None("none") /\ chain' = None(<<>>)
  /\ stop' = None("none") /\ graph' = 0 /\ UNCHANGED <<calls, taken, file, late, broken, crossed>>
Initialize ==
  /\ ~up /\ up' = TRUE
  /\ row' = [c \in Recordings |-> IF row[c] = "recording" THEN "incomplete" ELSE row[c]]
  /\ UNCHANGED <<rendererVars, writer, file, broken>>

Next ==
  \/ Start \/ StartIgnored \/ Stop \/ Initialize \/ \E closes \in BOOLEAN : Halt(closes)
  \/ \E c \in Recordings : \/ Collect(c) \/ LastChunk(c) \/ LastChunkTimeout(c) \/ Resumed(c)
                           \/ Teardown(c) \/ ChunkArrives(c) \/ Finish(c)

\* Timers run, promises settle, and the application is started again.
Fairness ==
  /\ WF_recVars(Initialize)
  /\ \A c \in Recordings : WF_recVars(LastChunkTimeout(c) \/ Resumed(c) \/ Teardown(c) \/ ChunkArrives(c)
                                      \/ Finish(c))
Spec == Init /\ [][Next]_recVars /\ Fairness

(***************************************************************************)
(* Properties                                                               *)
(***************************************************************************)
\* Every variable has its type.
TypeOK ==
  /\ calls \in 0..MaxRecordings /\ {cur, graph} \subseteq 0..MaxRecordings /\ seq \in Nat
  /\ {stopping, up, crossed} \subseteq BOOLEAN
  /\ recorder \in [Recordings -> {"none", "on", "last", "off"}] /\ taken \in [Recordings -> 0..MaxChunks]
  /\ stop \in [Recordings -> {"none", "last", "resumed", "queue", "finish"}]
  /\ row \in [Recordings -> {"none", "recording", "complete", "incomplete"}]
  /\ writer \cup late \cup broken \subseteq Recordings
  /\ \A c \in Recordings : \A k \in ToSet(chain[c]) \cup ToSet(file[c]) : k.of \in Recordings

\* A recording said to be complete is: its file has every chunk in order and
\* once, although stop and the sending of chunks overlap, unless a chunk got lost.
CompleteIsWhole ==
  \A c \in Recordings : row[c] = "complete" /\ c \notin broken =>
    /\ \A i \in DOMAIN file[c] : file[c][i].seq = i - 1
    /\ c \notin late /\ taken[c] > 0 => Len(file[c]) >= taken[c]

\* The file of a call has no audio of another, except for the last chunk of a
\* recorder that took longer than its stop waits.
OwnAudio == \A c \in Recordings : \A k \in ToSet(file[c]) : k.of \in late \cup {c}

\* What is recorded has its audio graph, unless it began while the stop before
\* it still waited for its chunks.
RecordedHasGraph == cur # 0 /\ ~crossed => graph = cur

\* No row says that it is being recorded when nobody writes it.
RowIsWritten == up => \A c \in Recordings : row[c] = "recording" => c \in writer

\* A recording that is stopped, or whose application stops, comes to an end.
RecordingSettles == \A c \in Recordings : stop[c] # "none" \/ ~up ~> row[c] # "recording"
=============================================================================
