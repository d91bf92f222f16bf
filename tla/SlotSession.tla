----------------------------- MODULE SlotSession -----------------------------
(***************************************************************************)
(* The requests that one slot of a backend serves, one after another:      *)
(* processor.go, app.go and the slot state of slotmanager.go.              *)
(*                                                                         *)
(* The proxy cannot see a slot's KV cache.  It tracks which prompt's       *)
(* blocks the slot should hold (slotKVState), and remembers a save that it *)
(* skipped (slotSaveSkipped) so as to make up for it before the content is *)
(* overwritten.  Both are guesses about another process, which may fail,   *)
(* answer late or restart; cache files come and go meanwhile.  The model   *)
(* keeps the slot's real content beside the proxy's idea of it.            *)
(*                                                                         *)
(* A prompt stands for its token ids: it has a sequence of blocks and is   *)
(* the key of its cache file.  Ratios are in percent.  Streamed responses  *)
(* are Stream's.                                                           *)
(*                                                                         *)
(* An operator X_Something, just before X, is X with a plausible bug: see  *)
(* Dispatcher.                                                             *)
(***************************************************************************)
EXTENDS Stream

CONSTANTS
    Prompts,
    Blocks,         (* Blocks[p]: the block hashes of prompt p              *)
    NearFull,       (* above CACHE_SAVE_CTX_THRESHOLD of this backend's n_ctx *)
    Summaries,      (* prompts classified as summarization                  *)
    SingleSlot,     (* every pool of the backend has one slot               *)
    SkipThreshold,  (* KV_CACHE_SKIP_THRESHOLD                              *)
    SkipMaxDiff,    (* KV_CACHE_SKIP_MAX_BLOCK_DIFF_PCT                     *)
    SaveRatio,      (* CACHE_SAVE_RATIO_THRESHOLD                           *)
    HitRatio,       (* LCP_TH                                               *)
    None,           (* no prompt, no file                                   *)
    Empty,          (* content of a slot of a backend that has restarted    *)
    Partial         (* content left by a request that did not complete      *)

ASSUME SessionAssumption ==
    /\ \A p \in Prompts : Blocks[p] \in Seq(Nat) /\ Blocks[p] # <<>>
    /\ NearFull \subseteq Prompts /\ Summaries \subseteq Prompts
    /\ SingleSlot \in BOOLEAN
    /\ {SkipThreshold, SkipMaxDiff, SaveRatio, HitRatio} \subseteq 0 .. 100
    /\ None \notin Prompts /\ Empty \notin Prompts /\ Partial \notin Prompts

Requests == [prompt : Prompts,       \* what is asked
             stream : BOOLEAN,
             disk : Prompts \cup {None},  \* diskRestoreKey of the scan
             local : BOOLEAN,        \* diskRestoreBackend is this backend
             covered : BOOLEAN]      \* its backendCacheRatios is above SaveRatio

VARIABLES
    place,      (* the worker's place in processWorkerRequest               *)
    req,        (* the request it serves                                    *)
    prev,       (* prevKV: the slot's tracked prompt before this request    *)
    tracked,    (* slotKVState of the slot                                  *)
    skipped,    (* slotSaveSkipped of the slot                              *)
    content,    (* what the slot really holds                               *)
    files,      (* files[k]: whose state the cache file of k holds          *)
    listed,     (* the keys with a metadata file of this backend            *)
    fate        (* what became of the last request's cache, until the next  *)
                (* one begins to use the slot (it is no state of the code)  *)

sessionVars == <<place, req, prev, tracked, skipped, content, files, listed, fate>>
vars == <<streamVars, sessionVars>>

Places == {"idle", "flush", "restore", "chat", "decide", "streaming"}
Fates == {"none", "saved", "save_failed", "skipped", "class_skipped", "invalidated", "error"}
CompleteFates == {"saved", "save_failed", "skipped", "class_skipped"}

Init ==
    /\ StreamInit
    /\ place = "idle" /\ req = None /\ prev = None
    /\ tracked = None /\ skipped = None /\ content = Empty
    /\ files = [k \in Prompts |-> None] /\ listed = {} /\ fate = "none"

-----------------------------------------------------------------------------
(* Comparing block lists *)

SmallerOf(m, n) == IF m < n THEN m ELSE n

\* LCPBlocks
Shared(p, q) ==
    LET agree == {n \in 0 .. SmallerOf(Len(Blocks[p]), Len(Blocks[q])) :
                    \A i \in 1 .. n : Blocks[p][i] = Blocks[q][i]}
    IN  CHOOSE n \in agree : \A m \in agree : m <= n

\* The ratio FindBestRestoreCandidate gives candidate k for request p; a longer
\* candidate is no candidate.
CoverRatio(k, p) ==
    IF Len(Blocks[k]) > Len(Blocks[p]) THEN 0 ELSE (100 * Shared(k, p)) \div Len(Blocks[p])

\* ShouldSkipRestore: the slot tracked as old is warm for p.
Warm(old, p) ==
    /\ SingleSlot /\ old # None
    /\ LET nOld == Len(Blocks[old])
           nNew == Len(Blocks[p])
       IN  /\ nOld <= nNew
           /\ 100 * (nNew - nOld) <= SkipMaxDiff * nNew
           /\ 100 * Shared(old, p) >= SkipThreshold * nOld

CanSkip == Warm(prev, req.prompt)

\* The keys FindBestRestoreCandidate can return for p.  Which one has the best
\* score depends on the recompute penalties too: any of them may, or none.
Candidates(p) == {k \in listed : p # None /\ CoverRatio(k, p) > 0 /\ CoverRatio(k, p) >= HitRatio}

\* Does candidate k cover p well enough for ShouldSaveCache to say no?
CoversWell(k, p) == CoverRatio(k, p) > SaveRatio

\* ShouldSkipSaveHeuristic, without and with the request's messages
NearFullSkip(p) == p \in NearFull
ClassSkip(p) == p \in NearFull \cup Summaries

\* What the scan can have found for p, long enough ago for anything to be stale.
Scanned(r) ==
    /\ r.disk # None => CoverRatio(r.disk, r.prompt) >= HitRatio
    /\ r.local => r.disk # None
    /\ r.covered => \E k \in Prompts : CoverRatio(k, r.prompt) > SaveRatio

-----------------------------------------------------------------------------
(* The worker *)

KVBefore_Replaced(r) == prev' = r.prompt

\* The state that the request is compared with: what it finds in the slot.
KVBefore(r) == prev' = tracked

\* The pump has acquired the slot for r: prevKV is read and replaced.
Take(r) ==
    /\ place = "idle"
    /\ Scanned(r)
    /\ place' = "flush" /\ req' = r
    /\ KVBefore(r) /\ tracked' = r.prompt
    /\ status' = "none"
    /\ UNCHANGED <<reader, ending, read, chunks, bodyOpen, writer, written,
                   cancelled, clientGone, skipped, content, files, listed, fate>>

\* The slot's content goes to the file of key, with metadata, or the backend fails
\* to save it.  Either way SaveAfter tracks key's blocks from then on.
SavedAs(key) ==
    /\ files' = [files EXCEPT ![key] = content]
    /\ listed' = listed \cup {key}

MustFlush_IgnoresClass(p, best) ==
    /\ p # None /\ ~CanSkip
    /\ files[p] = None
    /\ best = None \/ ~CoversWell(best, p)

\* flushSkippedSave: must the skipped save of p be made up for, with best as the
\* best candidate there is for it?
MustFlush(p, best) ==
    /\ p # None /\ ~CanSkip
    /\ files[p] = None
    /\ ~NearFullSkip(p)
    /\ best = None \/ ~CoversWell(best, p)

Retrack_KeepsSaved(saved) == tracked' = saved

\* SaveAfter tracked the older blocks; this request's are put back.
Retrack(saved) == tracked' = req.prompt

TakeEntry_Keeps == skipped' = skipped

\* FlushSaveSkipped
TakeEntry == skipped' = None

\* flushSkippedSave, before anything overwrites the slot
Flush ==
    /\ place = "flush"
    /\ place' = "restore"
    /\ TakeEntry
    /\ \E best \in Candidates(skipped) \cup {None} :
          IF MustFlush(skipped, best)
            THEN /\ \/ SavedAs(skipped) /\ fate' = "saved"
                    \/ UNCHANGED <<files, listed>> /\ fate' = "save_failed"
                 /\ Retrack(skipped)
            ELSE UNCHANGED <<files, listed, fate, tracked>>
    /\ UNCHANGED <<streamVars, req, prev, content>>

\* resolveRestoreKey, after its wait for a transfer
RestoreKey ==
    IF req.disk = None \/ (req.local /\ CanSkip) \/ (~req.local /\ files[req.disk] = None)
      THEN None ELSE req.disk

\* doWorkerRestore; the outcome of Restore is ignored.  The scan's disk key and the
\* last request's fate have served their purpose.
Restore ==
    /\ place = "restore"
    /\ place' = "chat"
    /\ \/ UNCHANGED content
       \/ /\ ~CanSkip /\ RestoreKey # None
          /\ files[RestoreKey] # None
          /\ content' = files[RestoreKey]
    /\ req' = [req EXCEPT !.disk = None, !.local = FALSE]
    /\ fate' = "none"
    /\ UNCHANGED <<streamVars, prev, tracked, skipped, files, listed>>

\* The worker returns; its locals are gone.
Return == place' = "idle" /\ req' = None /\ prev' = None

\* An error answer: the backend may have worked on the prompt or not have seen it.
LeavesContent == content' \in {content, Partial}

\* A timeout, or an error of a request that is not streamed: processNonStream
\* restores the state it read after SetKVState, which is this request's.
ChatFails ==
    /\ place = "chat"
    /\ LeavesContent
    /\ Return /\ fate' = "error" /\ status' = "backend_error"
    /\ UNCHANGED <<reader, ending, read, chunks, bodyOpen, writer, written,
                   cancelled, clientGone, tracked, skipped, files, listed>>

\* serveStream: an error other than a timeout; restorePrevKV(oldKV).
StreamFails ==
    /\ place = "chat" /\ req.stream
    /\ LeavesContent
    /\ tracked' = IF prev # None THEN prev ELSE tracked
    /\ Return /\ fate' = "error" /\ status' = "backend_error"
    /\ UNCHANGED <<reader, ending, read, chunks, bodyOpen, writer, written,
                   cancelled, clientGone, skipped, files, listed>>

\* A whole answer that is not streamed
ChatAnswers ==
    /\ place = "chat" /\ ~req.stream
    /\ place' = "decide" /\ content' = req.prompt
    /\ prev' = None
    /\ UNCHANGED <<streamVars, req, tracked, skipped, files, listed, fate>>

\* The stream is open; the backend is working on the prompt.
OpenStream ==
    /\ place = "chat" /\ req.stream
    /\ Open
    /\ place' = "streaming" /\ content' = Partial
    /\ prev' = None
    /\ UNCHANGED <<req, tracked, skipped, files, listed, fate>>

\* After a whole answer (processNonStream, StreamState.save): save it, or remember
\* that the save was skipped.  recompute: the restore turned out useless.
SaveOrSkip(recompute) ==
    LET p == req.prompt
    IN  IF ClassSkip(p) \/ (req.covered /\ ~recompute)
          THEN /\ skipped' = p
               /\ fate' = IF ClassSkip(p) THEN "class_skipped" ELSE "skipped"
               /\ UNCHANGED <<files, listed, tracked>>
          ELSE /\ \/ SavedAs(p) /\ fate' = "saved"
                  \/ UNCHANGED <<files, listed>> /\ fate' = "save_failed"
               /\ tracked' = p
               /\ UNCHANGED skipped

Decide(recompute) ==
    /\ place = "decide"
    /\ SaveOrSkip(recompute)
    /\ Return /\ status' = "complete"
    /\ UNCHANGED <<reader, ending, read, chunks, bodyOpen, writer, written,
                   cancelled, clientGone, content>>

Invalidate == tracked' = None

\* cleanup settles the slot's cache.
SettleStream(recompute) ==
    /\ Settle
    /\ IF StreamComplete
         THEN SaveOrSkip(recompute)
         ELSE Invalidate /\ fate' = "invalidated" /\ UNCHANGED <<skipped, files, listed>>
    /\ UNCHANGED <<place, req, prev, content>>

\* The backend has computed the whole answer when the reader sees its end.
ReadStream ==
    /\ Reader
    /\ content' = IF ~StreamComplete /\ StreamComplete' THEN req.prompt ELSE content
    /\ UNCHANGED <<place, req, prev, tracked, skipped, files, listed, fate>>

\* The other steps of the stream
ServeStream == Serve /\ UNCHANGED sessionVars
ClientGoes == ClientLeaves /\ UNCHANGED sessionVars

EndStream ==
    /\ RecordStatus
    /\ Return
    /\ UNCHANGED <<tracked, skipped, content, files, listed, fate>>

-----------------------------------------------------------------------------
(* The world around the worker *)

\* A file is evicted, or dies with its backend's disk.  Its metadata goes later.
FileGoes(k) ==
    /\ files[k] # None
    /\ files' = [files EXCEPT ![k] = None]
    /\ UNCHANGED <<streamVars, place, req, prev, tracked, skipped, content, listed, fate>>

\* The eviction, or a Reconcile, deletes the metadata of a file that has gone.
\* (Metadata lost while its file stays acts as a candidate without a score.)
MetaGoes(k) ==
    /\ k \in listed /\ files[k] = None
    /\ listed' = listed \ {k}
    /\ UNCHANGED <<streamVars, place, req, prev, tracked, skipped, content, files, fate>>

\* A copy of k arrives from another backend, which may have saved any prompt: its
\* n_ctx may be larger.  It may replace what was saved here since it was asked for.
\* Whether its sidecars have come as well is CacheStore's concern.
FileComes(k) ==
    /\ files[k] # k
    /\ files' = [files EXCEPT ![k] = k] /\ listed' = listed \cup {k}
    /\ UNCHANGED <<streamVars, place, req, prev, tracked, skipped, content, fate>>

\* The backend restarts between two requests, or before an answer is saved.
BackendRestarts ==
    /\ content # Empty
    /\ place = "streaming" => StreamComplete
    /\ content' = Empty
    /\ UNCHANGED <<streamVars, place, req, prev, tracked, skipped, files, listed, fate>>

\* EnsurePool: the slot, not in use, is dropped from its pool and comes back later.
PoolForgetsSlot ==
    /\ place = "idle" /\ <<tracked, skipped>> # <<None, None>>
    /\ tracked' = None /\ skipped' = None /\ fate' = "none"
    /\ UNCHANGED <<streamVars, place, req, prev, content, files, listed>>

Next ==
    \/ \E r \in Requests : Take(r)
    \/ Flush \/ Restore \/ ChatFails \/ StreamFails \/ ChatAnswers \/ OpenStream
    \/ \E recompute \in BOOLEAN : Decide(recompute) \/ SettleStream(recompute)
    \/ ReadStream \/ ServeStream \/ ClientGoes \/ EndStream
    \/ \E k \in Prompts : FileGoes(k) \/ MetaGoes(k) \/ FileComes(k)
    \/ BackendRestarts \/ PoolForgetsSlot

WriteStream ==
    ServeStream \/ EndStream \/ \E recompute \in BOOLEAN : SettleStream(recompute)

\* The writer of a stream goes on, see Stream; nothing else has to happen.
SessionSpec == Init /\ [][Next]_vars /\ WF_vars(WriteStream)

-----------------------------------------------------------------------------
(* Properties *)

SessionTypeOK ==
    /\ StreamTypeOK
    /\ place \in Places /\ req \in Requests \cup {None} /\ prev \in Prompts \cup {None}
    /\ tracked \in Prompts \cup {None} /\ skipped \in Prompts \cup {None}
    /\ content \in Prompts \cup {Empty, Partial}
    /\ files \in [Prompts -> Prompts \cup {Empty, Partial, None}] /\ listed \subseteq Prompts
    /\ fate \in Fates

\* A cache file never holds another prompt's state, nor what a request that failed
\* has left: a later restore from it would give a slot content that its key does not
\* describe.  (A file saved from a backend that has just restarted is empty.)
FilesHonest == \A k \in Prompts : files[k] \in {k, Empty, None}

\* An idle slot whose last request completed or was cut off holds what the proxy
\* tracks, or the proxy tracks nothing.  After an error answer it need not: see
\* ChatFails and StreamFails.
TrackingHonest ==
    place = "idle" /\ fate \in CompleteFates \cup {"invalidated"}
       => tracked = None \/ content \in {tracked, Empty}

\* A skipped save is made up for before the next request overwrites its content,
\* unless a file of it exists, or metadata of a good enough ancestor ("clobbering
\* without saving would make the loss permanent").
SkippedSaveKept ==
    [][(/\ place = "flush" /\ place' = "restore" /\ fate = "skipped"
        /\ content # Empty /\ ~Warm(content, req.prompt))
         => \/ files'[content] # None \/ \E k \in Candidates(content) : CoversWell(k, content)
            \/ fate' = "save_failed"]_vars

\* A step of the worker, none of the world around it
WorkerActs == <<place, writer>>' # <<place, writer>>

\* A prompt near the end of this backend's context is never written to a file by the
\* slot that served it: not when its answer is complete, and not when a later request
\* flushes the skipped save ("explicit content-class skips (near-max-context ...) are
\* respected either way").  The comment's other class, summarization, is not promised:
\* the flush sees tokens only, and saves such a prompt like any other.
NearFullNotSaved ==
    [][WorkerActs => \A k \in NearFull : files'[k] = files[k]]_vars

\* The status recorded for a request says what was done with its cache, however
\* the end of the stream, the client's leaving and the timers interleave.
StatusMatchesFate ==
    place = "idle" /\ status # "none" /\ fate # "none"
       => (status = "complete" <=> fate \in CompleteFates)
=============================================================================
