----------------------------- MODULE StreamProofs -----------------------------
(***************************************************************************)
(* Theorems about Stream, for every QueueSize and MaxChunks.  FlowInv is   *)
(* inductive; it adds to the properties how the writer's place, the        *)
(* reader's place and the reason why it ended belong together (Phases) and *)
(* that the client's chunks and the channel's are one line (Line).         *)
(*                                                                         *)
(* Flow is a step of the stream as SlotSession takes it: StreamNext, or a  *)
(* step of the worker that touches at most the recorded status.            *)
(***************************************************************************)
EXTENDS Stream, SequenceTheorems, TLAPS

flowVars == <<reader, ending, read, chunks, bodyOpen, writer, written,
              cancelled, clientGone>>

Flow == StreamNext \/ (UNCHANGED flowVars /\ status' \in Statuses)

\* cleanup, from its wait for the reader on
Closing == {"waiting", "settling", "settled", "recording"}

Phases ==
    /\ reader = "off" <=> writer = "off"
    /\ ending = "none" <=> reader \in {"off", "reading"}
    /\ writer = "off" =>
          /\ read = 0 /\ chunks = <<>> /\ written = <<>>
          /\ bodyOpen = FALSE /\ cancelled = FALSE /\ clientGone = FALSE
    /\ writer = "draining" => reader = "ended"
    /\ writer \in Closing => bodyOpen = FALSE
    /\ cancelled => ending = "full" \/ clientGone

\* What the client has and what is queued are one line, from which at most the
\* last chunk is missing when the channel was full.
Line ==
    /\ NoGap
    /\ writer \in {"serving", "draining"} =>
          /\ \A i \in 1 .. Len(chunks) : chunks[i] = Len(written) + i
          /\ \/ Len(written) + Len(chunks) = read
             \/ ending \in {"full", "done"} /\ Len(written) + Len(chunks) + 1 = read

\* Cleanup begins when the reader has ended, unless the client has gone.
Sent ==
    /\ CompleteReachesClient
    /\ writer \in Closing /\ ~clientGone => reader = "ended"

FlowInv == StreamTypeOK /\ Phases /\ Line /\ Sent

LEMMA FlowInit == StreamInit => FlowInv
<1> SUFFICES ASSUME StreamInit PROVE FlowInv
  OBVIOUS
<1>1. /\ Len(chunks) = 0 /\ Len(written) = 0
      /\ chunks \in Seq(1 .. MaxChunks) /\ written \in Seq(1 .. MaxChunks)
      /\ read = 0 /\ 0 \in 0 .. MaxChunks /\ 0 <= QueueSize
  BY StreamAssumption DEF StreamInit
<1>2. StreamTypeOK
  BY <1>1 DEF StreamInit, StreamTypeOK, ReaderPlaces, Endings, WriterPlaces, Statuses
<1>3. Phases
  BY DEF StreamInit, Phases, Closing
<1>4. Line /\ Sent
  BY <1>1 DEF StreamInit, Line, Sent, NoGap, CompleteReachesClient, Closing
<1> QED
  BY <1>2, <1>3, <1>4 DEF FlowInv

LEMMA OpenKeeps == FlowInv /\ Open => FlowInv'
  BY DEF Open, FlowInv, StreamTypeOK, Phases, Line, Sent, NoGap, CompleteReachesClient,
         ReaderPlaces, Endings, WriterPlaces, Statuses, Closing

-----------------------------------------------------------------------------
(* The reader *)

\* The reader reads only while the writer serves, and then nothing is missing.
LEMMA ReadingShape ==
    ASSUME FlowInv, reader = "reading", bodyOpen
    PROVE  /\ writer = "serving" /\ ending = "none"
           /\ Len(written) + Len(chunks) = read
           /\ \A i \in 1 .. Len(chunks) : chunks[i] = Len(written) + i
  BY DEF FlowInv, StreamTypeOK, Phases, Line, WriterPlaces, Closing

\* The channel after a chunk was offered to it.
LEMMA Offered ==
    ASSUME FlowInv, reader = "reading", bodyOpen, read < MaxChunks,
           chunks' = Offer(chunks, read + 1)
    PROVE  /\ chunks' \in Seq(1 .. MaxChunks) /\ Len(chunks') <= QueueSize
           /\ \A i \in 1 .. Len(chunks') : chunks'[i] = Len(written) + i
           /\ IF Len(chunks) < QueueSize THEN Len(chunks') = Len(chunks) + 1
                                         ELSE Len(chunks') = Len(chunks)
<1>1. /\ chunks \in Seq(1 .. MaxChunks) /\ Len(chunks) <= QueueSize
      /\ written \in Seq(1 .. MaxChunks) /\ read + 1 \in 1 .. MaxChunks
      /\ Len(chunks) \in Nat /\ QueueSize \in Nat
  BY StreamAssumption DEF FlowInv, StreamTypeOK
<1>2. CASE Len(chunks) < QueueSize
  <2>1. chunks' = Append(chunks, read + 1)
    BY <1>2 DEF Offer
  <2>2. /\ chunks' \in Seq(1 .. MaxChunks) /\ Len(chunks') = Len(chunks) + 1
        /\ \A i \in 1 .. Len(chunks) : chunks'[i] = chunks[i]
        /\ chunks'[Len(chunks) + 1] = read + 1
    <3> DEFINE longer == Append(chunks, read + 1)
    <3>1. /\ longer \in Seq(1 .. MaxChunks) /\ Len(longer) = Len(chunks) + 1
          /\ \A i \in 1 .. Len(chunks) : longer[i] = chunks[i]
          /\ longer[Len(chunks) + 1] = read + 1
      BY <1>1, AppendProperties
    <3> QED
      BY <3>1, <2>1
  <2>3. ASSUME NEW i \in 1 .. Len(chunks')
        PROVE  chunks'[i] = Len(written) + i
    <3>1. CASE i = Len(chunks) + 1
      BY <3>1, <2>2, <1>1, ReadingShape
    <3>2. CASE i # Len(chunks) + 1
      <4>1. i \in 1 .. Len(chunks)
        BY <3>2, <2>2, <1>1
      <4> QED
        BY <4>1, <2>2, ReadingShape
    <3> QED
      BY <3>1, <3>2
  <2> QED
    BY <2>2, <2>3, <1>1, <1>2
<1>3. CASE ~(Len(chunks) < QueueSize)
  BY <1>1, <1>3, ReadingShape DEF Offer
<1> QED
  BY <1>2, <1>3

\* One more chunk is read, and offered to the channel.
LEMMA ReadKeeps ==
    ASSUME FlowInv, ReadChunk \/ ReadDone
    PROVE  FlowInv'
<1>1. /\ reader = "reading" /\ bodyOpen /\ read < MaxChunks
      /\ read' = read + 1 /\ chunks' = Offer(chunks, read + 1)
      /\ UNCHANGED <<bodyOpen, writer, written, clientGone, status>>
  BY DEF ReadChunk, ReadDone
<1>2. /\ writer = "serving" /\ ending = "none"
      /\ Len(written) + Len(chunks) = read
  BY <1>1, ReadingShape
<1>3. /\ chunks' \in Seq(1 .. MaxChunks) /\ Len(chunks') <= QueueSize
      /\ \A i \in 1 .. Len(chunks') : chunks'[i] = Len(written) + i
      /\ IF Len(chunks) < QueueSize THEN Len(chunks') = Len(chunks) + 1
                                    ELSE Len(chunks') = Len(chunks)
  BY <1>1, Offered
<1>4. \/ Len(chunks) < QueueSize /\ UNCHANGED <<reader, ending, cancelled>>
      \/ /\ ~(Len(chunks) < QueueSize)
         /\ reader' = "finishing" /\ ending' = "full" /\ cancelled' = TRUE
      \/ reader' = "finishing" /\ ending' = "done" /\ cancelled' = cancelled
  BY DEF ReadChunk, ReadDone
<1>5. StreamTypeOK'
  <2>1. read' \in 0 .. MaxChunks
    BY <1>1, StreamAssumption DEF FlowInv, StreamTypeOK
  <2>2. reader' \in ReaderPlaces /\ ending' \in Endings
    BY <1>4 DEF FlowInv, StreamTypeOK, ReaderPlaces, Endings
  <2>3. cancelled' \in BOOLEAN
    BY <1>4 DEF FlowInv, StreamTypeOK
  <2>4. /\ bodyOpen' \in BOOLEAN /\ writer' \in WriterPlaces
        /\ written' \in Seq(1 .. MaxChunks)
        /\ clientGone' \in BOOLEAN /\ status' \in Statuses
    BY <1>1 DEF FlowInv, StreamTypeOK
  <2> QED
    BY <2>1, <2>2, <2>3, <2>4, <1>3 DEF StreamTypeOK
<1>6. Phases'
  BY <1>1, <1>2, <1>4 DEF FlowInv, Phases, Closing
<1>7. Line'
  <2>1. Len(written) \in Nat /\ Len(chunks) \in Nat /\ Len(chunks') \in Nat /\ read \in Nat
    BY <1>3 DEF FlowInv, StreamTypeOK
  <2>2. \/ Len(written) + Len(chunks') = read'
        \/ ending' \in {"full", "done"} /\ Len(written) + Len(chunks') + 1 = read'
    BY <1>1, <1>2, <1>3, <1>4, <2>1
  <2> QED
    BY <1>1, <1>3, <2>2 DEF FlowInv, Line, NoGap
<1>8. Sent'
  BY <1>1, <1>2 DEF Sent, CompleteReachesClient, Closing
<1> QED
  BY <1>5, <1>6, <1>7, <1>8 DEF FlowInv

LEMMA ReadEndKeeps ==
    ASSUME FlowInv, ReadEnd
    PROVE  FlowInv'
<1>1. /\ reader = "reading" /\ reader' = "finishing"
      /\ ending' \in {"eof", "error"} /\ (~bodyOpen => ending' = "error")
      /\ UNCHANGED <<read, chunks, bodyOpen, writer, written, cancelled, clientGone, status>>
  BY DEF ReadEnd
<1>2. ending = "none" /\ writer # "off"
  BY <1>1 DEF FlowInv, Phases
<1>3. StreamTypeOK'
  BY <1>1 DEF FlowInv, StreamTypeOK, ReaderPlaces, Endings
<1>4. Phases'
  BY <1>1, <1>2 DEF FlowInv, Phases
<1>5. Line'
  BY <1>1, <1>2 DEF FlowInv, Line, NoGap
<1>6. Sent'
  BY <1>1, <1>2 DEF FlowInv, Sent, CompleteReachesClient, Closing
<1> QED
  BY <1>3, <1>4, <1>5, <1>6 DEF FlowInv

LEMMA FinishKeeps == FlowInv /\ Finish => FlowInv'
<1> SUFFICES ASSUME FlowInv, Finish PROVE FlowInv'
  OBVIOUS
<1>1. /\ reader = "finishing" /\ reader' = "ended"
      /\ UNCHANGED <<ending, read, chunks, bodyOpen, writer, written, cancelled,
                     clientGone, status>>
  BY DEF Finish
<1>2. StreamTypeOK'
  BY <1>1 DEF FlowInv, StreamTypeOK, ReaderPlaces
<1>3. Phases'
  BY <1>1 DEF FlowInv, Phases, Closing
<1>4. Line' /\ Sent'
  BY <1>1 DEF FlowInv, Line, NoGap, Sent, CompleteReachesClient, Closing
<1> QED
  BY <1>2, <1>3, <1>4 DEF FlowInv

-----------------------------------------------------------------------------
(* The writer *)

\* The head of the channel is the client's next chunk.
LEMMA HeadIsNext ==
    ASSUME FlowInv, writer \in {"serving", "draining"}, chunks # <<>>,
           chunks' = Tail(chunks), written' = Append(written, Head(chunks))
    PROVE  /\ chunks' \in Seq(1 .. MaxChunks) /\ Len(chunks') + 1 = Len(chunks)
           /\ written' \in Seq(1 .. MaxChunks) /\ Len(written') = Len(written) + 1
           /\ written' = Append(written, Len(written) + 1)
           /\ NoGap'
           /\ \A i \in 1 .. Len(chunks') : chunks'[i] = Len(written') + i
<1>1. /\ chunks \in Seq(1 .. MaxChunks) /\ written \in Seq(1 .. MaxChunks)
      /\ NoGap /\ \A i \in 1 .. Len(chunks) : chunks[i] = Len(written) + i
      /\ Len(chunks) \in Nat \ {0} /\ Len(written) \in Nat
  BY DEF FlowInv, StreamTypeOK, Line
<1> DEFINE rest == Tail(chunks)
           next == Append(written, Head(chunks))
<1>2. /\ rest \in Seq(1 .. MaxChunks) /\ Len(rest) = Len(chunks) - 1
      /\ \A i \in 1 .. Len(rest) : rest[i] = chunks[i + 1]
      /\ Head(chunks) \in 1 .. MaxChunks /\ Head(chunks) = Len(written) + 1
  <2>1. Head(chunks) = chunks[1] /\ 1 \in 1 .. Len(chunks)
    BY <1>1
  <2>2. /\ rest \in Seq(1 .. MaxChunks) /\ Len(rest) = Len(chunks) - 1
        /\ \A i \in 1 .. Len(rest) : rest[i] = chunks[i + 1]
        /\ Head(chunks) \in 1 .. MaxChunks
    BY <1>1, HeadTailProperties
  <2>3. Head(chunks) = Len(written) + 1
    BY <1>1, <2>1
  <2> QED
    BY <2>2, <2>3
<1>3. /\ next \in Seq(1 .. MaxChunks) /\ Len(next) = Len(written) + 1
      /\ \A i \in 1 .. Len(written) : next[i] = written[i]
      /\ next[Len(written) + 1] = Len(written) + 1
  BY <1>1, <1>2, AppendProperties
<1>4. \A i \in 1 .. Len(next) : next[i] = i
  <2> SUFFICES ASSUME NEW i \in 1 .. Len(next) PROVE next[i] = i
    OBVIOUS
  <2>1. CASE i = Len(written) + 1
    BY <2>1, <1>3
  <2>2. CASE i # Len(written) + 1
    <3>1. i \in 1 .. Len(written)
      BY <2>2, <1>1, <1>3
    <3> QED
      BY <3>1, <1>1, <1>3 DEF NoGap
  <2> QED
    BY <2>1, <2>2
<1>5. \A i \in 1 .. Len(rest) : rest[i] = Len(next) + i
  <2> SUFFICES ASSUME NEW i \in 1 .. Len(rest) PROVE rest[i] = Len(next) + i
    OBVIOUS
  <2>1. i + 1 \in 1 .. Len(chunks)
    BY <1>1, <1>2
  <2> QED
    BY <2>1, <1>1, <1>2, <1>3
<1>6. chunks' = rest /\ written' = next
  OBVIOUS
<1> HIDE DEF rest, next
<1>7. Len(rest) + 1 = Len(chunks)
  BY <1>1, <1>2
<1>8. next = Append(written, Len(written) + 1)
  BY <1>2 DEF next
<1> QED
  BY <1>2, <1>3, <1>4, <1>5, <1>6, <1>7, <1>8 DEF NoGap

\* Cleanup starts: because the client is gone, or with everything written that
\* was queued, or after the reader gave the stream up.
LEMMA CleanupKeeps ==
    ASSUME FlowInv, writer \in {"serving", "draining"}, StartCleanup,
           UNCHANGED <<reader, ending, read, written, clientGone, status>>,
           chunks' \in {chunks, Tail(chunks)}, chunks' # chunks => chunks # <<>>,
           cancelled' \in {cancelled, TRUE}, cancelled' # cancelled => clientGone,
           \/ clientGone
           \/ reader = "ended" /\ (cancelled \/ chunks = <<>>)
    PROVE  FlowInv'
<1>1. writer' = "waiting" /\ bodyOpen' = FALSE
  BY DEF StartCleanup, EndBody
<1>2. chunks' \in Seq(1 .. MaxChunks) /\ Len(chunks') <= QueueSize
  <2>1. /\ chunks \in Seq(1 .. MaxChunks) /\ Len(chunks) <= QueueSize
        /\ Len(chunks) \in Nat /\ QueueSize \in Nat
    BY StreamAssumption DEF FlowInv, StreamTypeOK
  <2>2. CASE chunks' = chunks
    BY <2>1, <2>2
  <2>3. CASE chunks' # chunks
    <3>1. /\ Tail(chunks) \in Seq(1 .. MaxChunks)
          /\ Len(Tail(chunks)) = Len(chunks) - 1
      BY <2>1, <2>3, HeadTailProperties
    <3> QED
      BY <3>1, <2>1, <2>3
  <2> QED
    BY <2>2, <2>3
<1>3. StreamTypeOK'
  BY <1>1, <1>2 DEF FlowInv, StreamTypeOK, WriterPlaces
<1>4. Phases'
  BY <1>1 DEF FlowInv, Phases, Closing
<1>5. Line'
  BY <1>1 DEF FlowInv, Line, NoGap
<1>6. Sent'
  <2>1. CASE clientGone
    BY <2>1, <1>1 DEF Sent, CompleteReachesClient
  <2>2. CASE ~clientGone
    <3>1. reader = "ended" /\ (cancelled => ending = "full")
      BY <2>2 DEF FlowInv, Phases
    <3>2. CASE cancelled
      BY <3>1, <3>2, <2>2, <1>1 DEF Sent, CompleteReachesClient
    <3>3. CASE chunks = <<>>
      <4>1. Len(chunks) = 0 /\ Len(written) \in Nat /\ read \in Nat
        BY <3>3 DEF FlowInv, StreamTypeOK
      <4>2. \/ Len(written) = read
            \/ ending \in {"full", "done"} /\ Len(written) + 1 = read
        BY <4>1 DEF FlowInv, Line
      <4> QED
        BY <3>1, <4>1, <4>2, <1>1 DEF Sent, CompleteReachesClient
    <3> QED
      BY <2>2, <3>2, <3>3
  <2> QED
    BY <2>1, <2>2
<1> QED
  BY <1>3, <1>4, <1>5, <1>6 DEF FlowInv

LEMMA WriteHeadKeeps ==
    ASSUME FlowInv, writer \in {"serving", "draining"}, WriteHead
    PROVE  FlowInv'
<1>1. chunks # <<>> /\ chunks' = Tail(chunks)
      /\ UNCHANGED <<reader, ending, read, clientGone, status>>
  BY DEF WriteHead
<1>2. CASE /\ written' = Append(written, Head(chunks))
           /\ UNCHANGED <<writer, bodyOpen, cancelled>>
  <2>1. /\ chunks' \in Seq(1 .. MaxChunks) /\ Len(chunks') + 1 = Len(chunks)
        /\ written' \in Seq(1 .. MaxChunks) /\ Len(written') = Len(written) + 1
        /\ NoGap'
        /\ \A i \in 1 .. Len(chunks') : chunks'[i] = Len(written') + i
    BY <1>1, <1>2, HeadIsNext
  <2>2. /\ Len(chunks) \in Nat /\ Len(chunks') \in Nat /\ Len(written) \in Nat
        /\ read \in Nat /\ Len(chunks) <= QueueSize /\ QueueSize \in Nat
    BY <2>1, StreamAssumption DEF FlowInv, StreamTypeOK
  <2>3. Len(chunks') <= QueueSize
    BY <2>1, <2>2
  <2>4. StreamTypeOK'
    BY <1>1, <1>2, <2>1, <2>3 DEF FlowInv, StreamTypeOK
  <2>5. Phases'
    BY <1>1, <1>2 DEF FlowInv, Phases, Closing
  <2>6. Len(written') + Len(chunks') = Len(written) + Len(chunks)
    BY <2>1, <2>2
  <2>7. Line'
    BY <1>1, <1>2, <2>1, <2>6 DEF FlowInv, Line
  <2>8. Sent'
    BY <1>1, <1>2 DEF Sent, CompleteReachesClient, Closing
  <2> QED
    BY <2>4, <2>5, <2>7, <2>8 DEF FlowInv
<1>3. CASE clientGone /\ cancelled' = TRUE /\ StartCleanup /\ UNCHANGED written
  BY <1>1, <1>3, CleanupKeeps
<1> QED
  BY <1>2, <1>3 DEF WriteHead

LEMMA SeeDoneKeeps == FlowInv /\ SeeDone => FlowInv'
<1> SUFFICES ASSUME FlowInv, SeeDone PROVE FlowInv'
  OBVIOUS
<1>1. /\ writer = "serving" /\ reader = "ended"
      /\ UNCHANGED <<reader, ending, read, chunks, written, cancelled, clientGone, status>>
  BY DEF SeeDone
<1>2. CASE cancelled
  <2>1. StartCleanup
    BY <1>2 DEF SeeDone
  <2> QED
    BY <1>1, <1>2, <2>1, CleanupKeeps
<1>3. CASE ~cancelled
  <2>1. writer' = "draining" /\ UNCHANGED bodyOpen
    BY <1>3 DEF SeeDone
  <2>2. StreamTypeOK'
    BY <1>1, <2>1 DEF FlowInv, StreamTypeOK, WriterPlaces
  <2>3. Phases'
    BY <1>1, <2>1 DEF FlowInv, Phases, Closing
  <2>4. Line' /\ Sent'
    BY <1>1, <2>1 DEF FlowInv, Line, NoGap, Sent, CompleteReachesClient, Closing
  <2> QED
    BY <2>2, <2>3, <2>4 DEF FlowInv
<1> QED
  BY <1>2, <1>3

LEMMA DrainKeeps == FlowInv /\ Drain => FlowInv'
<1> SUFFICES ASSUME FlowInv, Drain PROVE FlowInv'
  OBVIOUS
<1>1. writer = "draining" /\ reader = "ended"
  BY DEF Drain, FlowInv, Phases
<1>2. CASE WriteHead
  BY <1>1, <1>2, WriteHeadKeeps
<1>3. CASE /\ chunks = <<>> /\ StartCleanup
           /\ UNCHANGED <<reader, ending, read, chunks, written, cancelled, clientGone, status>>
  BY <1>1, <1>3, CleanupKeeps
<1> QED
  BY <1>2, <1>3 DEF Drain

LEMMA SeeClientGoneKeeps == FlowInv /\ SeeClientGone => FlowInv'
<1> SUFFICES ASSUME FlowInv, SeeClientGone PROVE FlowInv'
  OBVIOUS
<1>1. /\ writer = "serving" /\ clientGone /\ cancelled' = TRUE /\ StartCleanup
      /\ UNCHANGED <<reader, ending, read, chunks, written, clientGone, status>>
  BY DEF SeeClientGone
<1> QED
  BY <1>1, CleanupKeeps

\* From its wait on, the writer only moves on to its end.
LEMMA ClosingKeeps ==
    ASSUME FlowInv, AwaitReader \/ Settle \/ Release
    PROVE  FlowInv'
<1>1. /\ writer \in Closing /\ writer' \in Closing
      /\ UNCHANGED <<reader, ending, read, chunks, bodyOpen, written, cancelled,
                     clientGone, status>>
  BY DEF AwaitReader, Settle, Release, Closing
<1>2. StreamTypeOK'
  BY <1>1 DEF FlowInv, StreamTypeOK, WriterPlaces, Closing
<1>3. Phases'
  BY <1>1 DEF FlowInv, Phases, Closing
<1>4. Line'
  BY <1>1 DEF FlowInv, Line, NoGap, Closing
<1>5. Sent'
  BY <1>1 DEF FlowInv, Sent, CompleteReachesClient, Closing
<1> QED
  BY <1>2, <1>3, <1>4, <1>5 DEF FlowInv

LEMMA RecordStatusKeeps == FlowInv /\ RecordStatus => FlowInv'
<1> SUFFICES ASSUME FlowInv, RecordStatus PROVE FlowInv'
  OBVIOUS
<1>1. /\ writer' = "off" /\ reader' = "off" /\ ending' = "none" /\ read' = 0
      /\ chunks' = <<>> /\ bodyOpen' = FALSE /\ written' = <<>>
      /\ cancelled' = FALSE /\ clientGone' = FALSE
      /\ status' \in Statuses
  BY DEF RecordStatus, EndStatus, Statuses
<1>2. /\ Len(chunks') = 0 /\ Len(written') = 0
      /\ chunks' \in Seq(1 .. MaxChunks) /\ written' \in Seq(1 .. MaxChunks)
      /\ 0 \in 0 .. MaxChunks /\ 0 <= QueueSize
  BY <1>1, StreamAssumption
<1>3. StreamTypeOK'
  BY <1>1, <1>2 DEF StreamTypeOK, ReaderPlaces, Endings, WriterPlaces
<1>4. Phases'
  BY <1>1 DEF Phases, Closing
<1>5. Line' /\ Sent'
  BY <1>1, <1>2 DEF Line, NoGap, Sent, CompleteReachesClient, Closing
<1> QED
  BY <1>3, <1>4, <1>5 DEF FlowInv

LEMMA ClientLeavesKeeps == FlowInv /\ ClientLeaves => FlowInv'
<1> SUFFICES ASSUME FlowInv, ClientLeaves PROVE FlowInv'
  OBVIOUS
<1>1. /\ writer # "off" /\ clientGone' = TRUE
      /\ UNCHANGED <<reader, ending, read, chunks, bodyOpen, writer, written,
                     cancelled, status>>
  BY DEF ClientLeaves
<1>2. StreamTypeOK' /\ Phases'
  BY <1>1 DEF FlowInv, StreamTypeOK, Phases, Closing
<1>3. Line' /\ Sent'
  BY <1>1 DEF FlowInv, Line, NoGap, Sent, CompleteReachesClient, Closing
<1> QED
  BY <1>2, <1>3 DEF FlowInv

-----------------------------------------------------------------------------
(* The theorems *)

LEMMA FlowStep == FlowInv /\ Flow => FlowInv'
<1> SUFFICES ASSUME FlowInv, Flow PROVE FlowInv'
  OBVIOUS
<1>1. CASE Open
  BY <1>1, OpenKeeps
<1>2. CASE Reader
  BY <1>2, ReadKeeps, ReadEndKeeps, FinishKeeps DEF Reader
<1>3. CASE WriteChunk
  BY <1>3, WriteHeadKeeps DEF WriteChunk
<1>4. CASE SeeDone \/ Drain \/ SeeClientGone
  BY <1>4, SeeDoneKeeps, DrainKeeps, SeeClientGoneKeeps
<1>5. CASE AwaitReader \/ Settle \/ Release
  BY <1>5, ClosingKeeps
<1>6. CASE RecordStatus \/ ClientLeaves
  BY <1>6, RecordStatusKeeps, ClientLeavesKeeps
<1>7. CASE UNCHANGED flowVars /\ status' \in Statuses
  <2>1. StreamTypeOK' /\ Phases'
    BY <1>7 DEF FlowInv, flowVars, StreamTypeOK, Phases, Closing
  <2>2. Line' /\ Sent'
    BY <1>7 DEF FlowInv, flowVars, Line, NoGap, Sent, CompleteReachesClient, Closing
  <2> QED
    BY <2>1, <2>2 DEF FlowInv
<1> QED
  BY <1>1, <1>2, <1>3, <1>4, <1>5, <1>6, <1>7 DEF Flow, StreamNext, Writer, Serve

\* The place of the writer, as StreamService sees it.
ServicePhase ==
    CASE writer \in {"serving", "draining", "waiting", "settling"} -> "open"
      [] writer = "settled" -> "settled"
      [] writer = "recording" -> "released"
      [] OTHER -> "closed"

Outward == <<ServicePhase, written>>

\* A step of the stream is a step of StreamService, or one it does not show.
LEMMA ServiceStep ==
    ASSUME FlowInv, Flow
    PROVE  Service!Next \/ UNCHANGED Outward
<1>1. CASE Open
  <2>1. ServicePhase = "closed" /\ ServicePhase' = "open" /\ UNCHANGED written
    BY <1>1 DEF Open, ServicePhase
  <2> QED
    BY <2>1 DEF Service!Next, Service!Open, ServicePhase
<1>2. CASE Reader \/ ClientLeaves
  <2>1. UNCHANGED <<writer, written>>
    BY <1>2 DEF Reader, ReadChunk, ReadDone, ReadEnd, Finish, ClientLeaves
  <2> QED
    BY <2>1 DEF Outward, ServicePhase
<1>3. ASSUME WriteHead, writer \in {"serving", "draining"}
      PROVE  Service!Next \/ UNCHANGED Outward
  <2>1. CASE chunks # <<>> /\ chunks' = Tail(chunks)
             /\ written' = Append(written, Head(chunks)) /\ UNCHANGED writer
    <3>1. written' = Append(written, Len(written) + 1)
      BY <2>1, <1>3, HeadIsNext
    <3>2. ServicePhase = "open" /\ UNCHANGED ServicePhase
      BY <2>1, <1>3 DEF ServicePhase
    <3> QED
      BY <3>1, <3>2 DEF Service!Next, Service!Deliver, ServicePhase
  <2>2. CASE StartCleanup /\ UNCHANGED written
    BY <2>2, <1>3 DEF StartCleanup, Outward, ServicePhase
  <2> QED
    BY <1>3, <2>1, <2>2 DEF WriteHead
<1>4. CASE WriteChunk
  BY <1>3, <1>4 DEF WriteChunk
<1>5. CASE SeeDone \/ SeeClientGone \/ AwaitReader
  BY <1>5 DEF SeeDone, SeeClientGone, AwaitReader, StartCleanup, Outward, ServicePhase
<1>6. CASE Drain
  <2>1. CASE WriteHead
    BY <1>3, <1>6, <2>1 DEF Drain
  <2>2. CASE chunks = <<>> /\ StartCleanup /\ UNCHANGED written
    BY <1>6, <2>2 DEF Drain, StartCleanup, Outward, ServicePhase
  <2> QED
    BY <1>6, <2>1, <2>2 DEF Drain
<1>7. CASE Settle
  <2>1. ServicePhase = "open" /\ ServicePhase' = "settled" /\ UNCHANGED written
    BY <1>7 DEF Settle, ServicePhase
  <2> QED
    BY <2>1 DEF Service!Next, Service!Settle, ServicePhase
<1>8. CASE Release
  <2>1. ServicePhase = "settled" /\ ServicePhase' = "released" /\ UNCHANGED written
    BY <1>8 DEF Release, ServicePhase
  <2> QED
    BY <2>1 DEF Service!Next, Service!GiveBack, ServicePhase
<1>9. CASE RecordStatus
  <2>1. ServicePhase = "released" /\ ServicePhase' = "closed" /\ written' = <<>>
    BY <1>9 DEF RecordStatus, ServicePhase
  <2> QED
    BY <2>1 DEF Service!Next, Service!Close, ServicePhase
<1>10. CASE UNCHANGED flowVars
  BY <1>10 DEF flowVars, Outward, ServicePhase
<1> QED
  BY <1>1, <1>2, <1>4, <1>5, <1>6, <1>7, <1>8, <1>9, <1>10
  DEF Flow, StreamNext, Writer, Serve

LEMMA ServiceInit == StreamInit => Service!Init
  BY DEF StreamInit, Service!Init

LEMMA NextFlows == FlowInv /\ [StreamNext]_streamVars => Flow
  BY DEF FlowInv, StreamTypeOK, Flow, flowVars, streamVars

LEMMA FlowInvariant == StreamSpec => []FlowInv
<1>1. FlowInv /\ [StreamNext]_streamVars => FlowInv'
  BY NextFlows, FlowStep
<1> QED
  BY FlowInit, <1>1, PTL DEF StreamSpec

\* StreamTypeOK: in particular the channel never exceeds its capacity.
THEOREM StreamTypeCorrect == StreamSpec => []StreamTypeOK
<1>1. FlowInv => StreamTypeOK
  BY DEF FlowInv
<1> QED
  BY <1>1, FlowInvariant, PTL

\* NoGap, for every channel size and every length of a body.
THEOREM ClientSeesNoGap == StreamSpec => []NoGap
<1>1. FlowInv => NoGap
  BY DEF FlowInv, Line
<1> QED
  BY <1>1, FlowInvariant, PTL

\* CompleteReachesClient: a client that stays receives all that was queued.
THEOREM CompleteStreamsArrive == StreamSpec => []CompleteReachesClient
<1>1. FlowInv => CompleteReachesClient
  BY DEF FlowInv, Sent
<1> QED
  BY <1>1, FlowInvariant, PTL

\* ImplementsStream: the two goroutines and the channel implement StreamService.
THEOREM StreamImplementsService == StreamSpec => ImplementsStream
<1>1. FlowInv /\ [StreamNext]_streamVars => [Service!Next]_(Service!serviceVars)
  <2> SUFFICES ASSUME FlowInv, [StreamNext]_streamVars
               PROVE  Service!Next \/ UNCHANGED Service!serviceVars
    OBVIOUS
  <2>1. Service!Next \/ UNCHANGED Outward
    BY NextFlows, ServiceStep
  <2> QED
    BY <2>1 DEF Outward, ServicePhase, Service!serviceVars
<1> QED
  BY <1>1, FlowInvariant, ServiceInit, PTL DEF StreamSpec, ImplementsStream, Service!Spec
===============================================================================
