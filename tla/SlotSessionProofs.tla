--------------------------- MODULE SlotSessionProofs ---------------------------
(***************************************************************************)
(* Theorems about SlotSession, for every set of prompts and blocks and     *)
(* every threshold.  SessionInv is inductive.  Beside the properties it    *)
(* says which places of the worker leave no skipped save behind (Shape),   *)
(* when the slot's real content is known (ContentKnown), and what the      *)
(* tracking and the fate are between the settling of a request and its end *)
(* (Tracks, Records, Skips).  What the stream contributes is FlowInv, from *)
(* StreamProofs: once cleanup has begun, the body is closed and no reader  *)
(* can complete the stream any more.                                       *)
(***************************************************************************)
EXTENDS SlotSession, StreamProofs

\* The writer has settled the slot, and not yet finished.
SettledPlaces == {"settled", "recording"}

WorkerTypes ==
    /\ place \in Places /\ req \in Requests \cup {None} /\ prev \in Prompts \cup {None}
    /\ tracked \in Prompts \cup {None} /\ skipped \in Prompts \cup {None}
    /\ content \in Prompts \cup {Empty, Partial}
    /\ files \in [Prompts -> Prompts \cup {Empty, Partial, None}] /\ listed \subseteq Prompts
    /\ fate \in Fates

\* Between the flush and the decision of a request the slot has no skipped save.
Shape ==
    /\ place # "idle" => req \in Requests
    /\ place = "streaming" <=> writer # "off"
    /\ place \in {"restore", "chat", "decide"} => skipped = None
    /\ place = "streaming" /\ writer \notin SettledPlaces => skipped = None

\* A slot with a skipped save, or after a whole answer, holds that prompt, or its
\* backend has restarted.
ContentKnown ==
    /\ skipped # None => content \in {skipped, Empty}
    /\ place = "decide" => content \in {req.prompt, Empty}
    /\ place = "streaming" /\ StreamComplete => content \in {req.prompt, Empty}

Tracks ==
    /\ TrackingHonest
    /\ place \in {"flush", "restore", "chat", "decide"} => tracked = req.prompt
    /\ place = "streaming" =>
          IF writer \in SettledPlaces
            THEN tracked = None \/ (StreamComplete /\ tracked = req.prompt)
            ELSE tracked = req.prompt

Records ==
    /\ StatusMatchesFate
    /\ writer \in SettledPlaces => (StreamComplete <=> fate \in CompleteFates)

\* A save counted as skipped is remembered, and was tracked, up to the flush.
Remembered == skipped # None /\ ~NearFullSkip(skipped)

Skips ==
    fate = "skipped" =>
       /\ place = "idle" => Remembered /\ tracked = skipped
       /\ place = "flush" => Remembered /\ prev = skipped
       /\ writer \in SettledPlaces => Remembered /\ tracked = skipped

WorkerInv == WorkerTypes /\ Shape /\ ContentKnown /\ FilesHonest /\ Tracks /\ Records /\ Skips

SessionInv == FlowInv /\ WorkerInv

LEMMA SessionInit == Init => SessionInv
<1> SUFFICES ASSUME Init PROVE SessionInv
  OBVIOUS
<1>1. FlowInv /\ writer = "off"
  BY FlowInit DEF Init, StreamInit
<1>2. WorkerTypes
  BY DEF Init, WorkerTypes, Places, Fates
<1>3. Shape /\ ContentKnown /\ Tracks /\ Records /\ Skips
  BY <1>1 DEF Init, Shape, ContentKnown, Tracks, TrackingHonest, Records, StatusMatchesFate,
         Skips, Remembered, NearFullSkip, CompleteFates, SettledPlaces
<1>4. FilesHonest
  BY DEF Init, FilesHonest
<1> QED
  BY <1>1, <1>2, <1>3, <1>4 DEF SessionInv, WorkerInv

-----------------------------------------------------------------------------
(* What the stream's steps mean for the worker *)

LEMMA ServeShape ==
    ASSUME FlowInv, Serve \/ ClientLeaves
    PROVE  /\ writer # "off" /\ writer' # "off"
           /\ ending' = ending /\ status' = status
           /\ writer' \in SettledPlaces <=> writer \in SettledPlaces
  BY DEF Serve, ClientLeaves, WriteChunk, WriteHead, SeeDone, Drain, SeeClientGone,
         AwaitReader, Release, StartCleanup, SettledPlaces

\* A reader completes a stream only while the writer serves it.
LEMMA ReadShape ==
    ASSUME FlowInv, Reader
    PROVE  /\ writer # "off" /\ writer' = writer /\ status' = status
           /\ StreamComplete => StreamComplete'
           /\ ~StreamComplete /\ StreamComplete' => writer = "serving"
<1>1. CASE ReadChunk \/ ReadDone
  <2>1. writer = "serving" /\ ending = "none" /\ writer' = writer /\ status' = status
    BY <1>1, ReadingShape DEF ReadChunk, ReadDone
  <2> QED
    BY <2>1 DEF StreamComplete
<1>2. CASE ReadEnd
  <2>1. /\ reader = "reading" /\ writer' = writer /\ status' = status
        /\ bodyOpen \/ ending' = "error"
    BY <1>2 DEF ReadEnd
  <2>2. ending = "none" /\ writer # "off"
    BY <2>1 DEF FlowInv, Phases
  <2>3. CASE bodyOpen
    BY <2>1, <2>2, <2>3, ReadingShape DEF StreamComplete
  <2>4. CASE ending' = "error"
    BY <2>1, <2>2, <2>4 DEF StreamComplete
  <2> QED
    BY <2>1, <2>3, <2>4
<1>3. CASE Finish
  BY <1>3 DEF Finish, FlowInv, Phases, StreamComplete
<1> QED
  BY <1>1, <1>2, <1>3 DEF Reader

\* The worker's own steps leave the stream alone.
LEMMA WorkerFlows ==
    ASSUME SessionInv, [Next]_vars
    PROVE  Flow
<1>1. status \in Statuses
  BY DEF SessionInv, FlowInv, StreamTypeOK
<1>2. CASE OpenStream \/ ReadStream \/ ServeStream \/ ClientGoes \/ EndStream
  BY <1>2 DEF OpenStream, ReadStream, ServeStream, ClientGoes, EndStream, Flow, StreamNext,
              Writer
<1>3. ASSUME NEW recompute \in BOOLEAN, SettleStream(recompute)
      PROVE  Flow
  BY <1>3 DEF SettleStream, Flow, StreamNext, Writer
<1>4. ASSUME NEW r \in Requests, Take(r)
      PROVE  Flow
  BY <1>4 DEF Take, Flow, flowVars, Statuses
<1>5. CASE ChatFails \/ StreamFails
  BY <1>5 DEF ChatFails, StreamFails, Flow, flowVars, Statuses
<1>6. ASSUME NEW recompute \in BOOLEAN, Decide(recompute)
      PROVE  Flow
  BY <1>6 DEF Decide, Flow, flowVars, Statuses
<1>7. CASE UNCHANGED streamVars
  BY <1>1, <1>7 DEF streamVars, flowVars, Flow
<1>8. CASE Flush \/ Restore \/ ChatAnswers \/ BackendRestarts \/ PoolForgetsSlot
  BY <1>7, <1>8 DEF Flush, Restore, ChatAnswers, BackendRestarts, PoolForgetsSlot
<1>9. ASSUME NEW k \in Prompts, FileGoes(k) \/ MetaGoes(k) \/ FileComes(k)
      PROVE  Flow
  BY <1>7, <1>9 DEF FileGoes, MetaGoes, FileComes
<1> QED
  BY <1>2, <1>3, <1>4, <1>5, <1>6, <1>7, <1>8, <1>9 DEF Next, vars

-----------------------------------------------------------------------------
(* One lemma per action *)

LEMMA TakeKeeps ==
    ASSUME SessionInv, NEW r \in Requests, Take(r)
    PROVE  WorkerInv'
<1>1. /\ place = "idle" /\ place' = "flush" /\ req' = r /\ writer = "off"
      /\ prev' = tracked /\ tracked' = r.prompt /\ status' = "none"
      /\ UNCHANGED <<writer, ending, skipped, content, files, listed, fate>>
  BY DEF Take, KVBefore, SessionInv, WorkerInv, Shape
<1>2. r.prompt \in Prompts
  BY DEF Requests
<1>3. WorkerTypes'
  BY <1>1, <1>2 DEF SessionInv, WorkerInv, WorkerTypes, Places
<1>4. Shape' /\ ContentKnown' /\ FilesHonest'
  BY <1>1 DEF SessionInv, WorkerInv, Shape, ContentKnown, FilesHonest, StreamComplete
<1>5. Tracks' /\ Records'
  BY <1>1 DEF Tracks, TrackingHonest, Records, StatusMatchesFate, SettledPlaces
<1>6. Skips'
  BY <1>1 DEF SessionInv, WorkerInv, Skips, Remembered, NearFullSkip, SettledPlaces
<1> QED
  BY <1>3, <1>4, <1>5, <1>6 DEF WorkerInv

\* Whatever the flush decides, the slot's content, if saved, goes to its own file.
LEMMA FlushKeeps ==
    ASSUME SessionInv, Flush
    PROVE  WorkerInv'
<1>1. /\ place = "flush" /\ place' = "restore" /\ skipped' = None
      /\ writer = "off" /\ tracked = req.prompt /\ tracked' = tracked
      /\ UNCHANGED <<writer, ending, status, req, prev, content>>
  BY DEF Flush, TakeEntry, Retrack, streamVars, SessionInv, WorkerInv, Shape, Tracks
<1>2. \/ files' = files /\ listed' = listed /\ fate' \in {fate, "save_failed"}
      \/ /\ skipped \in Prompts /\ content \in {skipped, Empty}
         /\ files' = [files EXCEPT ![skipped] = content] /\ listed' = listed \cup {skipped}
         /\ fate' = "saved"
  BY DEF Flush, SavedAs, MustFlush, SessionInv, WorkerInv, WorkerTypes, ContentKnown
<1>3. /\ files' \in [Prompts -> Prompts \cup {Empty, Partial, None}]
      /\ listed' \subseteq Prompts /\ fate' \in Fates
  BY <1>2 DEF SessionInv, WorkerInv, WorkerTypes, Fates
<1>4. WorkerTypes'
  BY <1>1, <1>3 DEF SessionInv, WorkerInv, WorkerTypes, Places
<1>5. FilesHonest'
  BY <1>2 DEF SessionInv, WorkerInv, WorkerTypes, FilesHonest
<1>6. Shape' /\ ContentKnown'
  BY <1>1 DEF SessionInv, WorkerInv, Shape, ContentKnown, StreamComplete
<1>7. Tracks' /\ Records' /\ Skips'
  BY <1>1 DEF Tracks, TrackingHonest, Records, StatusMatchesFate, Skips, Remembered,
              NearFullSkip, SettledPlaces
<1> QED
  BY <1>4, <1>5, <1>6, <1>7 DEF WorkerInv

LEMMA RestoreKeeps ==
    ASSUME SessionInv, Restore
    PROVE  WorkerInv'
<1>1. /\ place = "restore" /\ place' = "chat" /\ writer = "off" /\ skipped = None
      /\ req \in Requests /\ tracked = req.prompt
      /\ req' = [req EXCEPT !.disk = None, !.local = FALSE] /\ fate' = "none"
      /\ UNCHANGED <<writer, ending, status, prev, tracked, skipped, files, listed>>
  BY DEF Restore, streamVars, SessionInv, WorkerInv, Shape, Tracks
<1>2. req' \in Requests /\ req'.prompt = req.prompt
  BY <1>1 DEF Requests
<1>3. RestoreKey \in Prompts \cup {None}
  BY <1>1 DEF RestoreKey, Requests
<1>4. content' \in Prompts \cup {Empty, Partial}
  BY <1>3 DEF Restore, SessionInv, WorkerInv, WorkerTypes
<1>5. WorkerTypes'
  BY <1>1, <1>2, <1>4 DEF SessionInv, WorkerInv, WorkerTypes, Places, Fates
<1>6. Shape' /\ ContentKnown' /\ FilesHonest'
  BY <1>1, <1>2 DEF SessionInv, WorkerInv, Shape, ContentKnown, FilesHonest, StreamComplete
<1>7. Tracks' /\ Records' /\ Skips'
  BY <1>1, <1>2 DEF Tracks, TrackingHonest, Records, StatusMatchesFate, Skips, Remembered,
                    NearFullSkip, SettledPlaces
<1> QED
  BY <1>5, <1>6, <1>7 DEF WorkerInv

\* After an error the proxy's idea of the slot is not trusted by any property.
LEMMA FailureKeeps ==
    ASSUME SessionInv, ChatFails \/ StreamFails
    PROVE  WorkerInv'
<1>1. /\ place = "chat" /\ place' = "idle" /\ writer = "off" /\ skipped = None
      /\ req' = None /\ prev' = None /\ fate' = "error" /\ status' = "backend_error"
      /\ content' \in {content, Partial} /\ tracked' \in {tracked, prev}
      /\ UNCHANGED <<writer, ending, skipped, files, listed>>
  BY DEF ChatFails, StreamFails, Return, LeavesContent, SessionInv, WorkerInv, Shape
<1>2. WorkerTypes'
  BY <1>1 DEF SessionInv, WorkerInv, WorkerTypes, Places, Fates
<1>3. Shape' /\ ContentKnown' /\ FilesHonest'
  BY <1>1 DEF SessionInv, WorkerInv, Shape, ContentKnown, FilesHonest
<1>4. Tracks' /\ Records' /\ Skips'
  BY <1>1 DEF Tracks, TrackingHonest, Records, StatusMatchesFate, Skips, Remembered,
              NearFullSkip, SettledPlaces, CompleteFates
<1> QED
  BY <1>2, <1>3, <1>4 DEF WorkerInv

LEMMA AnswerKeeps ==
    ASSUME SessionInv, ChatAnswers
    PROVE  WorkerInv'
<1>1. /\ place = "chat" /\ place' = "decide" /\ writer = "off" /\ skipped = None
      /\ req \in Requests /\ tracked = req.prompt
      /\ content' = req.prompt /\ prev' = None
      /\ UNCHANGED <<writer, ending, status, req, tracked, skipped, files, listed, fate>>
  BY DEF ChatAnswers, streamVars, SessionInv, WorkerInv, Shape, Tracks
<1>2. WorkerTypes'
  BY <1>1 DEF SessionInv, WorkerInv, WorkerTypes, Places, Requests
<1>3. Shape' /\ ContentKnown' /\ FilesHonest'
  BY <1>1 DEF SessionInv, WorkerInv, Shape, ContentKnown, FilesHonest
<1>4. Tracks' /\ Records' /\ Skips'
  BY <1>1 DEF Tracks, TrackingHonest, Records, StatusMatchesFate, Skips, Remembered,
              NearFullSkip, SettledPlaces
<1> QED
  BY <1>2, <1>3, <1>4 DEF WorkerInv

LEMMA OpenStreamKeeps ==
    ASSUME SessionInv, OpenStream
    PROVE  WorkerInv'
<1>1. /\ place = "chat" /\ place' = "streaming" /\ writer = "off" /\ writer' = "serving"
      /\ skipped = None /\ req \in Requests /\ tracked = req.prompt
      /\ content' = Partial /\ prev' = None
      /\ UNCHANGED <<ending, status, req, tracked, skipped, files, listed, fate>>
  BY DEF OpenStream, Open, SessionInv, WorkerInv, Shape, Tracks
<1>2. ~StreamComplete'
  BY <1>1 DEF SessionInv, FlowInv, Phases, StreamComplete
<1>3. WorkerTypes'
  BY <1>1 DEF SessionInv, WorkerInv, WorkerTypes, Places
<1>4. Shape' /\ ContentKnown' /\ FilesHonest'
  BY <1>1, <1>2 DEF SessionInv, WorkerInv, Shape, ContentKnown, FilesHonest
<1>5. Tracks' /\ Records' /\ Skips'
  BY <1>1 DEF Tracks, TrackingHonest, Records, StatusMatchesFate, Skips, Remembered,
              NearFullSkip, SettledPlaces
<1> QED
  BY <1>3, <1>4, <1>5 DEF WorkerInv

\* After a whole answer: what is saved or remembered is this request's prompt.
LEMMA SaveSettles ==
    ASSUME SessionInv, NEW recompute \in BOOLEAN, SaveOrSkip(recompute),
           req \in Requests, skipped = None, tracked = req.prompt,
           content \in {req.prompt, Empty}
    PROVE  /\ tracked' = req.prompt /\ fate' \in CompleteFates
           /\ skipped' \in {None, req.prompt}
           /\ fate' = "skipped" => skipped' = req.prompt /\ ~NearFullSkip(req.prompt)
           /\ files' \in [Prompts -> Prompts \cup {Empty, Partial, None}]
           /\ listed' \subseteq Prompts
           /\ FilesHonest'
<1>1. req.prompt \in Prompts
  BY DEF Requests
<1>2. \/ /\ UNCHANGED <<files, listed, tracked>> /\ skipped' = req.prompt
         /\ fate' = "class_skipped" \/ (fate' = "skipped" /\ ~NearFullSkip(req.prompt))
      \/ /\ UNCHANGED <<files, listed>> /\ tracked' = req.prompt /\ skipped' = None
         /\ fate' = "save_failed"
      \/ /\ files' = [files EXCEPT ![req.prompt] = content]
         /\ listed' = listed \cup {req.prompt}
         /\ tracked' = req.prompt /\ skipped' = None /\ fate' = "saved"
  BY DEF SaveOrSkip, SavedAs, ClassSkip, NearFullSkip
<1>3. /\ files \in [Prompts -> Prompts \cup {Empty, Partial, None}]
      /\ listed \subseteq Prompts
      /\ FilesHonest
  BY DEF SessionInv, WorkerInv, WorkerTypes
<1>4. files' \in [Prompts -> Prompts \cup {Empty, Partial, None}] /\ FilesHonest'
  BY <1>1, <1>2, <1>3 DEF FilesHonest
<1>5. listed' \subseteq Prompts
  BY <1>1, <1>2, <1>3
<1> QED
  BY <1>2, <1>4, <1>5 DEF CompleteFates

LEMMA DecideKeeps ==
    ASSUME SessionInv, NEW recompute \in BOOLEAN, Decide(recompute)
    PROVE  WorkerInv'
<1>1. /\ place = "decide" /\ place' = "idle" /\ writer = "off" /\ skipped = None
      /\ req \in Requests /\ tracked = req.prompt /\ content \in {req.prompt, Empty}
      /\ SaveOrSkip(recompute) /\ req' = None /\ prev' = None /\ status' = "complete"
      /\ UNCHANGED <<writer, ending, content>>
  BY DEF Decide, Return, SessionInv, WorkerInv, Shape, Tracks, ContentKnown
<1>2. req.prompt \in Prompts /\ req.prompt # None
  BY <1>1, SessionAssumption DEF Requests
<1>3. /\ tracked' = req.prompt /\ fate' \in CompleteFates
      /\ skipped' \in {None, req.prompt}
      /\ fate' = "skipped" => skipped' = req.prompt /\ ~NearFullSkip(req.prompt)
      /\ files' \in [Prompts -> Prompts \cup {Empty, Partial, None}]
      /\ listed' \subseteq Prompts /\ FilesHonest'
  BY <1>1, SaveSettles
<1>4. WorkerTypes'
  BY <1>1, <1>2, <1>3 DEF SessionInv, WorkerInv, WorkerTypes, Places, Fates, CompleteFates
<1>5. Shape' /\ ContentKnown'
  BY <1>1, <1>3 DEF Shape, ContentKnown
<1>6. Tracks' /\ Records' /\ Skips'
  BY <1>1, <1>2, <1>3 DEF Tracks, TrackingHonest, Records, StatusMatchesFate, Skips,
                          Remembered, NearFullSkip, SettledPlaces
<1> QED
  BY <1>3, <1>4, <1>5, <1>6 DEF WorkerInv

LEMMA SettleStreamKeeps ==
    ASSUME SessionInv, NEW recompute \in BOOLEAN, SettleStream(recompute)
    PROVE  WorkerInv'
<1>1. /\ place = "streaming" /\ writer = "settling" /\ writer' = "settled"
      /\ req \in Requests /\ skipped = None /\ tracked = req.prompt
      /\ StreamComplete => content \in {req.prompt, Empty}
      /\ UNCHANGED <<ending, status, place, req, prev, content>>
  BY DEF SettleStream, Settle, SessionInv, WorkerInv, Shape, Tracks, ContentKnown, SettledPlaces
<1>2. req.prompt \in Prompts /\ req.prompt # None
  BY <1>1, SessionAssumption DEF Requests
<1>3. CASE StreamComplete
  <2>1. StreamComplete'
    BY <1>1, <1>3 DEF StreamComplete
  <2>2. /\ tracked' = req.prompt /\ fate' \in CompleteFates
        /\ skipped' \in {None, req.prompt}
        /\ fate' = "skipped" => skipped' = req.prompt /\ ~NearFullSkip(req.prompt)
        /\ files' \in [Prompts -> Prompts \cup {Empty, Partial, None}]
        /\ listed' \subseteq Prompts /\ FilesHonest'
    BY <1>1, <1>3, SaveSettles DEF SettleStream
  <2>3. WorkerTypes'
    BY <1>1, <1>2, <2>2 DEF SessionInv, WorkerInv, WorkerTypes, Fates, CompleteFates
  <2>4. Shape' /\ ContentKnown'
    BY <1>1, <1>3, <2>2 DEF Shape, ContentKnown, SettledPlaces
  <2>5. Tracks' /\ Records' /\ Skips'
    BY <1>1, <1>2, <2>1, <2>2
       DEF Tracks, TrackingHonest, Records, StatusMatchesFate, Skips, Remembered, NearFullSkip,
           SettledPlaces
  <2> QED
    BY <2>2, <2>3, <2>4, <2>5 DEF WorkerInv
<1>4. CASE ~StreamComplete
  <2>1. ~StreamComplete'
    BY <1>1, <1>4 DEF StreamComplete
  <2>2. tracked' = None /\ fate' = "invalidated" /\ UNCHANGED <<skipped, files, listed>>
    BY <1>4 DEF SettleStream, Invalidate
  <2>3. WorkerTypes'
    BY <1>1, <2>2 DEF SessionInv, WorkerInv, WorkerTypes, Fates
  <2>4. Shape' /\ ContentKnown' /\ FilesHonest'
    BY <1>1, <2>1, <2>2 DEF SessionInv, WorkerInv, Shape, ContentKnown, FilesHonest,
                            SettledPlaces
  <2>5. Tracks' /\ Records' /\ Skips'
    BY <1>1, <2>1, <2>2 DEF Tracks, TrackingHonest, Records, StatusMatchesFate, Skips,
                            Remembered, NearFullSkip, SettledPlaces, CompleteFates
  <2> QED
    BY <2>3, <2>4, <2>5 DEF WorkerInv
<1> QED
  BY <1>3, <1>4

LEMMA ReadStreamKeeps ==
    ASSUME SessionInv, ReadStream
    PROVE  WorkerInv'
<1>1. /\ writer # "off" /\ writer' = writer /\ status' = status
      /\ StreamComplete => StreamComplete'
      /\ ~StreamComplete /\ StreamComplete' => writer = "serving"
  BY ReadShape DEF SessionInv, ReadStream
<1>2. /\ place = "streaming" /\ req \in Requests /\ req.prompt \in Prompts
      /\ writer = "serving" => skipped = None
      /\ UNCHANGED <<place, req, prev, tracked, skipped, files, listed, fate>>
      /\ content' = IF ~StreamComplete /\ StreamComplete' THEN req.prompt ELSE content
  BY <1>1 DEF ReadStream, SessionInv, WorkerInv, Shape, SettledPlaces, Requests
<1>3. WorkerTypes'
  BY <1>2 DEF SessionInv, WorkerInv, WorkerTypes
<1>4. Shape' /\ FilesHonest'
  BY <1>1, <1>2 DEF SessionInv, WorkerInv, Shape, FilesHonest
<1>5. ContentKnown'
  BY <1>1, <1>2 DEF SessionInv, WorkerInv, ContentKnown
<1>6. writer \in SettledPlaces => (StreamComplete <=> StreamComplete')
  BY <1>1 DEF SettledPlaces
<1>7. Tracks' /\ Records' /\ Skips'
  BY <1>1, <1>2, <1>6 DEF SessionInv, WorkerInv, Tracks, TrackingHonest, Records,
                          StatusMatchesFate, Skips, Remembered, NearFullSkip
<1> QED
  BY <1>3, <1>4, <1>5, <1>7 DEF WorkerInv

LEMMA ServeStreamKeeps ==
    ASSUME SessionInv, ServeStream \/ ClientGoes
    PROVE  WorkerInv'
<1>1. /\ writer # "off" /\ writer' # "off"
      /\ ending' = ending /\ status' = status
      /\ writer' \in SettledPlaces <=> writer \in SettledPlaces
  BY ServeShape DEF SessionInv, ServeStream, ClientGoes
<1>2. UNCHANGED <<place, req, prev, tracked, skipped, content, files, listed, fate>>
  BY DEF ServeStream, ClientGoes, sessionVars
<1>3. StreamComplete' <=> StreamComplete
  BY <1>1 DEF StreamComplete
<1>4. WorkerTypes' /\ FilesHonest'
  BY <1>2 DEF SessionInv, WorkerInv, WorkerTypes, FilesHonest
<1>5. Shape' /\ ContentKnown'
  BY <1>1, <1>2, <1>3 DEF SessionInv, WorkerInv, Shape, ContentKnown
<1>6. Tracks' /\ Records' /\ Skips'
  BY <1>1, <1>2, <1>3 DEF SessionInv, WorkerInv, Tracks, TrackingHonest, Records,
                          StatusMatchesFate, Skips, Remembered, NearFullSkip
<1> QED
  BY <1>4, <1>5, <1>6 DEF WorkerInv

LEMMA EndStreamKeeps ==
    ASSUME SessionInv, EndStream
    PROVE  WorkerInv'
<1>1. /\ writer = "recording" /\ place = "streaming" /\ place' = "idle"
      /\ writer' = "off" /\ ending' = "none" /\ status' = EndStatus
      /\ req' = None /\ prev' = None
      /\ UNCHANGED <<tracked, skipped, content, files, listed, fate>>
  BY DEF EndStream, RecordStatus, Return, SessionInv, WorkerInv, Shape
<1>2. EndStatus = "complete" <=> StreamComplete
  BY DEF EndStatus
<1>3. /\ tracked = None \/ (StreamComplete /\ tracked = req.prompt)
      /\ StreamComplete <=> fate \in CompleteFates
      /\ StreamComplete => content \in {req.prompt, Empty}
      /\ fate = "skipped" => Remembered /\ tracked = skipped
  BY <1>1 DEF SessionInv, WorkerInv, Tracks, Records, ContentKnown, Skips, Remembered,
              NearFullSkip, SettledPlaces
<1>4. WorkerTypes' /\ FilesHonest'
  BY <1>1 DEF SessionInv, WorkerInv, WorkerTypes, FilesHonest, Places
<1>5. Shape' /\ ContentKnown'
  BY <1>1 DEF SessionInv, WorkerInv, Shape, ContentKnown
<1>6. Tracks' /\ Records' /\ Skips'
  BY <1>1, <1>2, <1>3 DEF Tracks, TrackingHonest, Records, StatusMatchesFate, Skips,
                          Remembered, NearFullSkip, SettledPlaces
<1> QED
  BY <1>4, <1>5, <1>6 DEF WorkerInv

\* Files come and go, backends restart, slots are forgotten.
LEMMA WorldKeeps ==
    ASSUME SessionInv,
           \/ \E k \in Prompts : FileGoes(k) \/ MetaGoes(k) \/ FileComes(k)
           \/ BackendRestarts \/ PoolForgetsSlot \/ UNCHANGED vars
    PROVE  WorkerInv'
<1>1. /\ UNCHANGED <<writer, ending, status, place, req, prev>>
      /\ StreamComplete' <=> StreamComplete
  BY DEF FileGoes, MetaGoes, FileComes, BackendRestarts, PoolForgetsSlot, vars, streamVars,
         sessionVars,
         StreamComplete
<1>2. ASSUME NEW k \in Prompts, FileGoes(k) \/ MetaGoes(k) \/ FileComes(k)
      PROVE  WorkerInv'
  <2>1. /\ \/ files' = [files EXCEPT ![k] = None] \/ files' = [files EXCEPT ![k] = k]
           \/ files' = files
        /\ listed' \subseteq listed \cup {k}
        /\ UNCHANGED <<tracked, skipped, content, fate>>
    BY <1>2 DEF FileGoes, MetaGoes, FileComes
  <2>2. WorkerTypes' /\ FilesHonest'
    BY <1>1, <2>1 DEF SessionInv, WorkerInv, WorkerTypes, FilesHonest
  <2>3. Shape' /\ ContentKnown'
    BY <1>1, <2>1 DEF SessionInv, WorkerInv, Shape, ContentKnown
  <2>4. Tracks' /\ Records' /\ Skips'
    BY <1>1, <2>1 DEF SessionInv, WorkerInv, Tracks, TrackingHonest, Records,
                      StatusMatchesFate, Skips, Remembered, NearFullSkip
  <2> QED
    BY <2>2, <2>3, <2>4 DEF WorkerInv
<1>3. CASE BackendRestarts \/ UNCHANGED vars
  <2>1. content' \in {content, Empty} /\ UNCHANGED <<tracked, skipped, files, listed, fate>>
    BY <1>3 DEF BackendRestarts, vars, sessionVars
  <2>2. WorkerTypes' /\ FilesHonest'
    BY <1>1, <2>1 DEF SessionInv, WorkerInv, WorkerTypes, FilesHonest
  <2>3. Shape' /\ ContentKnown'
    BY <1>1, <2>1 DEF SessionInv, WorkerInv, Shape, ContentKnown
  <2>4. Tracks' /\ Records' /\ Skips'
    BY <1>1, <2>1 DEF SessionInv, WorkerInv, Tracks, TrackingHonest, Records,
                      StatusMatchesFate, Skips, Remembered, NearFullSkip
  <2> QED
    BY <2>2, <2>3, <2>4 DEF WorkerInv
<1>4. CASE PoolForgetsSlot
  <2>1. /\ place = "idle" /\ writer = "off" /\ tracked' = None /\ skipped' = None
        /\ fate' = "none" /\ UNCHANGED <<content, files, listed>>
    BY <1>4 DEF PoolForgetsSlot, SessionInv, WorkerInv, Shape
  <2>2. WorkerTypes' /\ FilesHonest'
    BY <1>1, <2>1 DEF SessionInv, WorkerInv, WorkerTypes, FilesHonest, Fates
  <2>3. Shape' /\ ContentKnown'
    BY <1>1, <2>1 DEF Shape, ContentKnown
  <2>4. Tracks' /\ Records' /\ Skips'
    BY <1>1, <2>1 DEF Tracks, TrackingHonest, Records, StatusMatchesFate, Skips, Remembered,
                      NearFullSkip, SettledPlaces
  <2> QED
    BY <2>2, <2>3, <2>4 DEF WorkerInv
<1> QED
  BY <1>2, <1>3, <1>4

-----------------------------------------------------------------------------
(* The theorems *)

LEMMA SessionStep == SessionInv /\ [Next]_vars => SessionInv'
<1> SUFFICES ASSUME SessionInv, [Next]_vars PROVE SessionInv'
  OBVIOUS
<1>1. FlowInv'
  BY WorkerFlows, FlowStep DEF SessionInv
<1> SUFFICES WorkerInv'
  BY <1>1 DEF SessionInv
<1>2. ASSUME NEW r \in Requests, Take(r)
      PROVE  WorkerInv'
  BY <1>2, TakeKeeps
<1>3. CASE Flush
  BY <1>3, FlushKeeps
<1>4. CASE Restore
  BY <1>4, RestoreKeeps
<1>5. CASE ChatFails \/ StreamFails
  BY <1>5, FailureKeeps
<1>6. CASE ChatAnswers
  BY <1>6, AnswerKeeps
<1>7. CASE OpenStream
  BY <1>7, OpenStreamKeeps
<1>8. ASSUME NEW recompute \in BOOLEAN, Decide(recompute)
      PROVE  WorkerInv'
  BY <1>8, DecideKeeps
<1>9. ASSUME NEW recompute \in BOOLEAN, SettleStream(recompute)
      PROVE  WorkerInv'
  BY <1>9, SettleStreamKeeps
<1>10. CASE ReadStream
  BY <1>10, ReadStreamKeeps
<1>11. CASE ServeStream \/ ClientGoes
  BY <1>11, ServeStreamKeeps
<1>12. CASE EndStream
  BY <1>12, EndStreamKeeps
<1>13. CASE \/ \E k \in Prompts : FileGoes(k) \/ MetaGoes(k) \/ FileComes(k)
            \/ BackendRestarts \/ PoolForgetsSlot \/ UNCHANGED vars
  BY <1>13, WorldKeeps
<1> QED
  BY <1>2, <1>3, <1>4, <1>5, <1>6, <1>7, <1>8, <1>9, <1>10, <1>11, <1>12, <1>13 DEF Next

LEMMA SessionInvariant == SessionSpec => []SessionInv
  BY SessionInit, SessionStep, PTL DEF SessionSpec

\* SessionTypeOK: the worker's, the slot's and the stream's variables keep their types.
THEOREM SessionTypeCorrect == SessionSpec => []SessionTypeOK
<1>1. SessionInv => SessionTypeOK
  BY DEF SessionInv, FlowInv, WorkerInv, WorkerTypes, SessionTypeOK
<1> QED
  BY <1>1, SessionInvariant, PTL

\* FilesHonest: whatever fails, is skipped, flushed or copied, a cache file of a
\* prompt holds that prompt's state or an empty one.
THEOREM CacheFilesHonest == SessionSpec => []FilesHonest
<1>1. SessionInv => FilesHonest
  BY DEF SessionInv, WorkerInv
<1> QED
  BY <1>1, SessionInvariant, PTL

\* TrackingHonest: after a request that completed or was cut off the slot holds what
\* slotKVState says, or nothing is tracked.
THEOREM SlotTrackingHonest == SessionSpec => []TrackingHonest
<1>1. SessionInv => TrackingHonest
  BY DEF SessionInv, WorkerInv, Tracks
<1> QED
  BY <1>1, SessionInvariant, PTL

\* StatusMatchesFate: the recorded status and the decision about the cache agree.
THEOREM StatusMatches == SessionSpec => []StatusMatchesFate
<1>1. SessionInv => StatusMatchesFate
  BY DEF SessionInv, WorkerInv, Records
<1> QED
  BY <1>1, SessionInvariant, PTL

\* NoGap and CompleteReachesClient, for every stream that the worker opens.
THEOREM SessionStreamsArrive == SessionSpec => [](NoGap /\ CompleteReachesClient)
<1>1. SessionInv => NoGap /\ CompleteReachesClient
  BY DEF SessionInv, FlowInv, Line, Sent
<1> QED
  BY <1>1, SessionInvariant, PTL

\* ImplementsStream: the worker with all its streams implements StreamService.
THEOREM SessionImplementsStream == SessionSpec => ImplementsStream
<1>1. SessionInv /\ [Next]_vars => [Service!Next]_(Service!serviceVars)
  <2> SUFFICES ASSUME SessionInv, [Next]_vars
               PROVE  Service!Next \/ UNCHANGED Service!serviceVars
    OBVIOUS
  <2>1. Service!Next \/ UNCHANGED Outward
    BY WorkerFlows, ServiceStep DEF SessionInv
  <2> QED
    BY <2>1 DEF Outward, ServicePhase, Service!serviceVars
<1>2. Init => Service!Init
  BY ServiceInit DEF Init
<1> QED
  BY <1>1, <1>2, SessionInvariant, PTL DEF SessionSpec, ImplementsStream, Service!Spec

\* What SkippedSaveKept asks of one step.
KeepsSkippedSave ==
    /\ place = "flush" /\ place' = "restore" /\ fate = "skipped"
    /\ content # Empty /\ ~Warm(content, req.prompt)
    => \/ files'[content] # None \/ \E k \in Candidates(content) : CoversWell(k, content)
       \/ fate' = "save_failed"

LEMMA FlushKeepsSkipped ==
    ASSUME SessionInv, Flush
    PROVE  KeepsSkippedSave
<1> SUFFICES ASSUME fate = "skipped", content # Empty, ~Warm(content, req.prompt)
             PROVE  \/ files'[content] # None
                    \/ \E k \in Candidates(content) : CoversWell(k, content)
                    \/ fate' = "save_failed"
  BY DEF KeepsSkippedSave
\* The slot's content is the prompt whose save was skipped, and what prevKV says.
<1>1. /\ skipped \in Prompts /\ skipped # None /\ ~NearFullSkip(skipped)
      /\ content = skipped /\ prev = skipped
      /\ files \in [Prompts -> Prompts \cup {Empty, Partial, None}]
  BY DEF Flush, SessionInv, WorkerInv, WorkerTypes, Skips, Remembered, ContentKnown
<1>2. ~CanSkip
  BY <1>1 DEF CanSkip
<1>3. PICK best \in Candidates(skipped) \cup {None} :
          IF MustFlush(skipped, best)
            THEN (SavedAs(skipped) /\ fate' = "saved") \/ fate' = "save_failed"
            ELSE files' = files
  BY DEF Flush
<1>4. CASE MustFlush(skipped, best)
  <2>1. files' = [files EXCEPT ![skipped] = content] \/ fate' = "save_failed"
    BY <1>3, <1>4 DEF SavedAs
  <2> QED
    BY <1>1, <2>1
<1>5. CASE ~MustFlush(skipped, best)
  <2>1. files' = files
    BY <1>3, <1>5
  <2>2. files[skipped] # None \/ (best # None /\ CoversWell(best, skipped))
    BY <1>1, <1>2, <1>5 DEF MustFlush
  <2> QED
    BY <1>1, <1>3, <2>1, <2>2
<1> QED
  BY <1>4, <1>5

\* SkippedSaveKept: no request overwrites a slot whose save was skipped before the
\* save is made up for, unless a file or metadata covers it, or saving fails.
THEOREM SkippedSavesKept == SessionSpec => SkippedSaveKept
<1>1. SessionInv /\ [Next]_vars => KeepsSkippedSave
  <2> SUFFICES ASSUME SessionInv, [Next]_vars PROVE KeepsSkippedSave
    OBVIOUS
  <2>1. CASE Flush
    BY <2>1, FlushKeepsSkipped
  <2>2. CASE ~Flush
    <3>1. ~(place = "flush" /\ place' = "restore")
      BY <2>2 DEF Next, vars, sessionVars, Take, Restore, ChatFails, StreamFails, ChatAnswers,
                  OpenStream, Decide, SettleStream, ReadStream, ServeStream, ClientGoes,
                  EndStream, FileGoes, MetaGoes, FileComes, BackendRestarts, PoolForgetsSlot, Return
    <3> QED
      BY <3>1 DEF KeepsSkippedSave
  <2> QED
    BY <2>1, <2>2
<1>2. KeepsSkippedSave =>
         [(/\ place = "flush" /\ place' = "restore" /\ fate = "skipped"
           /\ content # Empty /\ ~Warm(content, req.prompt))
          => \/ files'[content] # None \/ \E k \in Candidates(content) : CoversWell(k, content)
             \/ fate' = "save_failed"]_vars
  BY DEF KeepsSkippedSave
<1> QED
  BY <1>1, <1>2, SessionInvariant, PTL DEF SessionSpec, SkippedSaveKept

\* What NearFullNotSaved asks of one step.
SavesNoNearFull == WorkerActs => \A k \in NearFull : files'[k] = files[k]

\* The two steps that write files, for one near-full prompt k
LEMMA FlushSkipsNearFull ==
    ASSUME SessionInv, Flush, NEW k \in NearFull
    PROVE  files'[k] = files[k]
<1>1. files' = files \/ (~NearFullSkip(skipped) /\ SavedAs(skipped))
  BY DEF Flush, MustFlush
<1>2. files \in [Prompts -> Prompts \cup {Empty, Partial, None}] /\ k \in Prompts
  BY SessionAssumption DEF SessionInv, WorkerInv, WorkerTypes
<1> QED
  BY <1>1, <1>2 DEF SavedAs, NearFullSkip

LEMMA AnswerSkipsNearFull ==
    ASSUME SessionInv, NEW recompute \in BOOLEAN, SaveOrSkip(recompute), NEW k \in NearFull
    PROVE  files'[k] = files[k]
<1>1. files' = files \/ (~NearFullSkip(req.prompt) /\ SavedAs(req.prompt))
  BY DEF SaveOrSkip, ClassSkip, NearFullSkip
<1>2. files \in [Prompts -> Prompts \cup {Empty, Partial, None}] /\ k \in Prompts
  BY SessionAssumption DEF SessionInv, WorkerInv, WorkerTypes
<1> QED
  BY <1>1, <1>2 DEF SavedAs, NearFullSkip

\* NearFullNotSaved: whatever other requests, failures, restarts and copies come
\* between, no step of the slot's worker writes the file of a near-full prompt.
THEOREM NearFullSkips == SessionSpec => NearFullNotSaved
<1>1. SessionInv /\ [Next]_vars => SavesNoNearFull
  <2> SUFFICES ASSUME SessionInv, [Next]_vars, WorkerActs, NEW k \in NearFull
               PROVE  files'[k] = files[k]
    BY DEF SavesNoNearFull
  <2>1. CASE Flush
    BY <2>1, FlushSkipsNearFull
  <2>2. ASSUME NEW recompute \in BOOLEAN, Decide(recompute) \/ SettleStream(recompute)
        PROVE  files'[k] = files[k]
    <3>1. SaveOrSkip(recompute) \/ files' = files
      BY <2>2 DEF Decide, SettleStream
    <3> QED
      BY <3>1, AnswerSkipsNearFull
  <2>3. CASE \/ \E r \in Requests : Take(r)
             \/ Restore \/ ChatFails \/ StreamFails \/ ChatAnswers \/ OpenStream
             \/ ReadStream \/ ServeStream \/ ClientGoes \/ EndStream
    BY <2>3 DEF Take, Restore, ChatFails, StreamFails, ChatAnswers, OpenStream, ReadStream,
                ServeStream, ClientGoes, EndStream, sessionVars
  <2>4. CASE \/ \E j \in Prompts : FileGoes(j) \/ MetaGoes(j) \/ FileComes(j)
             \/ BackendRestarts \/ PoolForgetsSlot \/ UNCHANGED vars
    <3>1. UNCHANGED <<place, writer>>
      BY <2>4 DEF FileGoes, MetaGoes, FileComes, BackendRestarts, PoolForgetsSlot, vars,
                  streamVars, sessionVars
    <3> QED
      BY <3>1 DEF WorkerActs
  <2> QED
    BY <2>1, <2>2, <2>3, <2>4 DEF Next
<1>2. SavesNoNearFull => [WorkerActs => \A k \in NearFull : files'[k] = files[k]]_vars
  BY DEF SavesNoNearFull
<1> QED
  BY <1>1, <1>2, SessionInvariant, PTL DEF SessionSpec, NearFullNotSaved
===============================================================================
