-------------------------------- MODULE Stream --------------------------------
(***************************************************************************)
(* A streamed chat response, app.go: StreamState.                          *)
(*                                                                         *)
(* Two goroutines share a StreamState.  The reader (ReadLoop) reads the    *)
(* backend's body and puts each chunk into a bounded channel, without ever *)
(* waiting: a full channel ends the stream.  The writer (run, cleanup)     *)
(* takes the chunks to the client, watches the client's context, and when  *)
(* either side has ended closes the body, waits for the reader for a       *)
(* bounded time, settles the slot's KV cache and gives the slot back.      *)
(* The backend may send, stop, fail or hang; the client may leave.         *)
(*                                                                         *)
(* A chunk is its number in the body.  SlotSession composes this module    *)
(* with the worker that opens the stream and owns the slot.                *)
(*                                                                         *)
(* An operator X_Something, just before X, is X with a plausible bug: see  *)
(* Dispatcher.                                                             *)
(***************************************************************************)
EXTENDS Naturals, Sequences

CONSTANTS
    QueueSize,  (* streamQueueSize: capacity of the chunk channel           *)
    MaxChunks   (* bound: chunks a backend sends in one response            *)

ASSUME StreamAssumption == QueueSize \in Nat \ {0} /\ MaxChunks \in Nat

VARIABLES
    reader,     (* the reader; "ended" is the closed Done channel           *)
    ending,     (* why it ends: [DONE], the end of the body, an error of    *)
                (* the body or a full channel                               *)
    read,       (* chunks read from the body                                *)
    chunks,     (* the channel Chunks                                       *)
    bodyOpen,   (* neither closeBody nor cancel has been called             *)
    writer,     (* the writer's place in run and cleanup                    *)
    written,    (* the chunks written to the client                         *)
    cancelled,  (* StreamState.cancelled                                    *)
    clientGone, (* the client's context is done                             *)
    status      (* status that cleanup records for the request              *)

streamVars == <<reader, ending, read, chunks, bodyOpen, writer, written,
                cancelled, clientGone, status>>

Endings == {"none", "done", "eof", "error", "full"}
ReaderPlaces == {"off", "reading", "finishing", "ended"}
WriterPlaces == {"off", "serving", "draining", "waiting", "settling", "settled", "recording"}
Statuses == {"none", "complete", "cancelled", "backend_error"}

\* StreamState.StreamComplete
StreamComplete == ending \in {"done", "eof"}

StreamInit ==
    /\ reader = "off" /\ ending = "none" /\ read = 0 /\ chunks = <<>>
    /\ bodyOpen = FALSE /\ writer = "off" /\ written = <<>>
    /\ cancelled = FALSE /\ clientGone = FALSE /\ status = "none"

\* The end of serveStream: a new StreamState, go ReadLoop, run.  The client may
\* have left before that.
Open ==
    /\ writer = "off"
    /\ reader' = "reading" /\ bodyOpen' = TRUE /\ writer' = "serving"
    /\ clientGone' \in BOOLEAN
    /\ UNCHANGED <<ending, read, chunks, written, cancelled, status>>

-----------------------------------------------------------------------------
(* The reader *)

Offer_Unbounded(queue, chunk) == Append(queue, chunk)

\* The send with a default branch: the chunk is dropped when there is no room.
Offer(queue, chunk) == IF Len(queue) < QueueSize THEN Append(queue, chunk) ELSE queue

ReadChunk_SkipsWhenFull ==
    /\ reader = "reading" /\ bodyOpen /\ read < MaxChunks
    /\ read' = read + 1
    /\ chunks' = Offer(chunks, read')
    /\ UNCHANGED <<reader, ending, bodyOpen, writer, written, cancelled, clientGone, status>>

\* A chunk without [DONE].  When the channel is full the stream is given up.
ReadChunk ==
    /\ reader = "reading" /\ bodyOpen /\ read < MaxChunks
    /\ read' = read + 1
    /\ chunks' = Offer(chunks, read')
    /\ IF Len(chunks) < QueueSize
         THEN UNCHANGED <<reader, ending, cancelled>>
         ELSE reader' = "finishing" /\ ending' = "full" /\ cancelled' = TRUE
    /\ UNCHANGED <<bodyOpen, writer, written, clientGone, status>>

\* A chunk with [DONE]: the stream is complete whether or not the channel has room.
ReadDone ==
    /\ reader = "reading" /\ bodyOpen /\ read < MaxChunks
    /\ read' = read + 1
    /\ chunks' = Offer(chunks, read')
    /\ reader' = "finishing" /\ ending' = "done"
    /\ UNCHANGED <<bodyOpen, writer, written, cancelled, clientGone, status>>

\* The body ends, or fails; reading a closed body fails.
ReadEnd ==
    /\ reader = "reading"
    /\ reader' = "finishing"
    /\ ending' \in IF bodyOpen THEN {"eof", "error"} ELSE {"error"}
    /\ UNCHANGED <<read, chunks, bodyOpen, writer, written, cancelled, clientGone, status>>

\* finish: the Done channel is closed.
Finish ==
    /\ reader = "finishing"
    /\ reader' = "ended"
    /\ UNCHANGED <<ending, read, chunks, bodyOpen, writer, written, cancelled, clientGone, status>>

Reader == ReadChunk \/ ReadDone \/ ReadEnd \/ Finish

-----------------------------------------------------------------------------
(* The writer *)

EndBody_KeepsReading == bodyOpen' = bodyOpen

\* closeBody and cancel
EndBody == bodyOpen' = FALSE

\* cleanup up to its wait for the reader
StartCleanup == writer' = "waiting" /\ EndBody

\* One write of the head of the channel.  It can fail once the client is gone.
WriteHead ==
    /\ chunks # <<>>
    /\ chunks' = Tail(chunks)
    /\ \/ /\ written' = Append(written, Head(chunks))
          /\ UNCHANGED <<writer, bodyOpen, cancelled>>
       \/ /\ clientGone
          /\ cancelled' = TRUE
          /\ StartCleanup
          /\ UNCHANGED written
    /\ UNCHANGED <<reader, ending, read, clientGone, status>>

\* run: a chunk is ready.
WriteChunk == writer = "serving" /\ WriteHead

SeeDone_NoDrain ==
    /\ writer = "serving" /\ reader = "ended"
    /\ StartCleanup
    /\ UNCHANGED <<reader, ending, read, chunks, written, cancelled, clientGone, status>>

\* run: Done is closed; what the channel still holds is written first.
SeeDone ==
    /\ writer = "serving" /\ reader = "ended"
    /\ IF cancelled THEN StartCleanup
       ELSE writer' = "draining" /\ UNCHANGED bodyOpen
    /\ UNCHANGED <<reader, ending, read, chunks, written, cancelled, clientGone, status>>

\* The drain loop of run
Drain ==
    /\ writer = "draining"
    /\ \/ WriteHead
       \/ /\ chunks = <<>>
          /\ StartCleanup
          /\ UNCHANGED <<reader, ending, read, chunks, written, cancelled, clientGone, status>>

\* run: the client's context is done (or the heartbeat sees that it is).
SeeClientGone ==
    /\ writer = "serving" /\ clientGone
    /\ cancelled' = TRUE
    /\ StartCleanup
    /\ UNCHANGED <<reader, ending, read, chunks, written, clientGone, status>>

AwaitReader_Unbounded ==
    /\ writer = "waiting" /\ reader = "ended"
    /\ writer' = "settling"
    /\ UNCHANGED <<reader, ending, read, chunks, bodyOpen, written, cancelled, clientGone, status>>

\* cleanup's wait ends when Done is closed, or after 5 seconds.
AwaitReader ==
    /\ writer = "waiting"
    /\ writer' = "settling"
    /\ UNCHANGED <<reader, ending, read, chunks, bodyOpen, written, cancelled, clientGone, status>>

\* cleanup: save or Invalidate, by StreamComplete.  What they do to the slot is
\* SlotSession's part of the step.
Settle ==
    /\ writer = "settling"
    /\ writer' = "settled"
    /\ UNCHANGED <<reader, ending, read, chunks, bodyOpen, written, cancelled, clientGone, status>>

Release_BeforeSettling ==
    /\ writer \in {"waiting", "settled"}
    /\ writer' = "recording"
    /\ UNCHANGED <<reader, ending, read, chunks, bodyOpen, written, cancelled, clientGone, status>>

\* cleanup: Release
Release ==
    /\ writer = "settled"
    /\ writer' = "recording"
    /\ UNCHANGED <<reader, ending, read, chunks, bodyOpen, written, cancelled, clientGone, status>>

\* The status that cleanup records.
EndStatus ==
    IF StreamComplete THEN "complete" ELSE IF cancelled THEN "cancelled" ELSE "backend_error"

\* cleanup's end: the status goes to the metrics and the request is finished.
\* Nobody uses the StreamState any more, save a reader that cleanup gave up on,
\* which can only end.
RecordStatus ==
    /\ writer = "recording"
    /\ status' = EndStatus
    /\ writer' = "off"
    /\ reader' = "off" /\ ending' = "none" /\ read' = 0 /\ chunks' = <<>>
    /\ bodyOpen' = FALSE /\ written' = <<>>
    /\ cancelled' = FALSE /\ clientGone' = FALSE

\* The writer's steps that leave the slot's cache and the request's record alone
Serve == WriteChunk \/ SeeDone \/ Drain \/ SeeClientGone \/ AwaitReader \/ Release
Writer == Serve \/ Settle \/ RecordStatus

\* The client disconnects.
ClientLeaves ==
    /\ writer # "off" /\ ~clientGone
    /\ clientGone' = TRUE
    /\ UNCHANGED <<reader, ending, read, chunks, bodyOpen, writer, written, cancelled, status>>

StreamNext == Open \/ Reader \/ Writer \/ ClientLeaves

\* Nothing is assumed of the backend or the client: the writer's steps are
\* taken because its select has a ticker and its waits a timer.
StreamSpec == StreamInit /\ [][StreamNext]_streamVars /\ WF_streamVars(Writer)

-----------------------------------------------------------------------------
(* Properties *)

StreamTypeOK ==
    /\ reader \in ReaderPlaces /\ ending \in Endings
    /\ read \in 0 .. MaxChunks
    /\ chunks \in Seq(1 .. MaxChunks) /\ Len(chunks) <= QueueSize
    /\ bodyOpen \in BOOLEAN /\ writer \in WriterPlaces
    /\ written \in Seq(1 .. MaxChunks)
    /\ cancelled \in BOOLEAN /\ clientGone \in BOOLEAN /\ status \in Statuses

\* The client never sees a gap: what it has been sent is the beginning of what
\* the backend sent, although the reader drops chunks when the channel is full
\* and both ends of the stream can close it at any time.
NoGap == \A i \in 1 .. Len(written) : written[i] = i

\* When the backend ended the response and the client stayed, the client has
\* every chunk before the slot is settled, save the one that held [DONE], which
\* the reader drops when the channel is full.
CompleteReachesClient ==
    writer \in {"waiting", "settling", "settled", "recording"} /\ ~clientGone =>
       /\ ending = "eof" => Len(written) = read
       /\ ending = "done" => Len(written) + 1 >= read

\* The stream implements StreamService: one settlement, after the last write and
\* before the slot is given back.
Service == INSTANCE StreamService WITH
    phase <- CASE writer \in {"serving", "draining", "waiting", "settling"} -> "open"
               [] writer = "settled" -> "settled"
               [] writer = "recording" -> "released"
               [] OTHER -> "closed",
    received <- written
ImplementsStream == Service!Spec

\* Once the client is gone or the reader has ended, the slot is given back and
\* the request is finished, whatever the backend does.
StreamEnds == (clientGone \/ reader = "ended") /\ writer # "off" ~> writer = "off"
=============================================================================
