------------------------------ MODULE CacheStore ------------------------------
(***************************************************************************)
(* Saved KV caches: the cache files of every backend, their metadata, the  *)
(* cache ring with its byte budget (slotmanager.go, kvmeta.go), the copies *)
(* between backends (transfer.go, cacheagent.go), the restore and the save *)
(* of a worker (processor.go), and a crash and restart (entry.go).         *)
(*                                                                         *)
(* Actors: the requests on the slots of a backend (pc), the transfer       *)
(* goroutines (tpc), and on each backend whoever holds RingMu: evict[b] is *)
(* how far EvictIfNeeded has come, one file operation at a time.  Files    *)
(* and metadata survive a crash; everything else is memory.                *)
(*                                                                         *)
(* A key is a model value, its blocks are present or empty.  The age and   *)
(* similarity score that orders an eviction is a free choice of the order. *)
(* Which backend holds the best cache for a request is a free choice among *)
(* the metadata that has blocks.  A file is copied, deleted, or written by *)
(* llama.cpp in one step, its sidecars (<key>.ckpt, ...) apart from it.    *)
(* Any call of a backend's cache agent can fail: a delete then leaves the  *)
(* file, and a question about a file is answered as if there were none.    *)
(*                                                                         *)
(* An operator X_Something, always just before X, is X with a plausible    *)
(* bug; no specification uses it.                                          *)
(***************************************************************************)
EXTENDS Integers, Sequences, FiniteSets, SequencesExt

CONSTANTS
    DirOrder,       (* the backends, in the order of their meta directories *)
    Agents,         (* those whose files are reached through a cache agent, *)
                    (* not through a local directory                        *)
    Slots,          (* slots of each backend                                *)
    Keys,           (* cache keys                                           *)
    Checkpointed,   (* keys whose cache has checkpoint sidecars             *)
    Sizes,          (* bound: sizes a saved cache can have                  *)
    BlocksKnown,    (* is a saved request's block list non-empty: TRUE, or  *)
                    (* FALSE for a backend that was down during its scan    *)
    MaxBytes,       (* cache_max_size_gb of each backend                    *)
    Transfers,      (* bound: transfer goroutines alive at the same time    *)
    MaxCrashes,     (* bound: crashes of the proxy                          *)
    None            (* no metadata, no key, no backend, no copy             *)

Backends == Range(DirOrder)

ASSUME CacheAssumption ==
    /\ DirOrder \in Seq(Backends) /\ IsInjective(DirOrder) /\ Agents \subseteq Backends
    /\ IsFiniteSet(Keys) /\ Checkpointed \subseteq Keys
    /\ IsFiniteSet(Transfers)
    /\ Sizes \subseteq Nat \ {0}
    /\ BlocksKnown \subseteq BOOLEAN
    /\ MaxBytes \in Nat \ {0}
    /\ MaxCrashes \in Nat
    /\ None \notin Keys \cup Backends

VARIABLES
    file,       (* file[b][k]: size of b's cache file for k, 0 if missing   *)
    sidecar,    (* sidecar[b]: the keys with sidecar files on b             *)
    meta,       (* meta[b][k]: b's meta file for k, or None                 *)
    ring,       (* ring[b]: CacheRing                                       *)
    totalBytes, (* totalBytes[b]                                            *)
    evict,      (* evict[b]: the eviction under RingMu, stage free if none  *)
    pc,         (* pc[p]: where the request on p = <<backend, slot>> is;    *)
                (* idle: none, or one that restores at home or is answered  *)
    want,       (* want[p]: the key it restores or saves                    *)
    size,       (* size[p]: the bytes SaveSlot reported                     *)
    tpc,        (* tpc[t]: where transfer goroutine t is                    *)
    copy,       (* copy[t]: what it copies, as far as still used, or None   *)
    tracker,    (* theTransferTracker.inFlight                              *)
    boot,       (* how far Main has come                                    *)
    loaded,     (* the backends whose ring InitFromDisk has rebuilt         *)
    crashes     (* crashes so far                                           *)

diskVars     == <<file, sidecar, meta>>
ringVars     == <<ring, totalBytes, evict>>
requestVars  == <<pc, want, size>>
transferVars == <<tpc, copy, tracker>>
bootVars     == <<boot, loaded, crashes>>
vars == <<diskVars, ringVars, requestVars, transferVars, bootVars>>

Places == Backends \X Slots
Entries == [key : Keys, size : Sizes]
Metas == [size : Sizes, blocks : BOOLEAN]
Evictions == [stage : {"free", "prune", "evict"}, todo : Seq(Entries),
              victims : SUBSET Keys, unlinked : Keys \cup {None}]
Copies == [key : Keys, src : Backends, dst : Backends, size : Sizes \cup {0},
           blocks : BOOLEAN, sidecars : BOOLEAN]

\* The variables have their types: above all no entry of zero bytes is ever
\* registered, and no total is negative.
TypeOK ==
    /\ file \in [Backends -> [Keys -> Sizes \cup {0}]]
    /\ sidecar \in [Backends -> SUBSET Keys]
    /\ meta \in [Backends -> [Keys -> Metas \cup {None}]]
    /\ ring \in [Backends -> Seq(Entries)]
    /\ totalBytes \in [Backends -> Nat]
    /\ evict \in [Backends -> Evictions]
    /\ pc \in [Places -> {"idle", "resolve", "restore", "saved", "evicting"}]
    /\ want \in [Places -> Keys \cup {None}]
    /\ size \in [Places -> Sizes \cup {0}]
    /\ tpc \in [Transfers -> {"idle", "read", "main", "sidecars", "meta",
                              "register", "evicting", "end"}]
    /\ copy \in [Transfers -> Copies \cup {None}]
    /\ tracker \subseteq Keys \X Backends
    /\ boot \in {"load", "up"}
    /\ loaded \subseteq Backends
    /\ crashes \in 0 .. MaxCrashes

Released == [stage |-> "free", todo |-> <<>>, victims |-> {}, unlinked |-> None]

\* A proxy that has started on empty cache and meta directories.
Init ==
    /\ file = [b \in Backends |-> [k \in Keys |-> 0]]
    /\ sidecar = [b \in Backends |-> {}]
    /\ meta = [b \in Backends |-> [k \in Keys |-> None]]
    /\ ring = [b \in Backends |-> <<>>]
    /\ totalBytes = [b \in Backends |-> 0]
    /\ evict = [b \in Backends |-> Released]
    /\ pc = [p \in Places |-> "idle"]
    /\ want = [p \in Places |-> None]
    /\ size = [p \in Places |-> 0]
    /\ tpc = [t \in Transfers |-> "idle"]
    /\ copy = [t \in Transfers |-> None]
    /\ tracker = {}
    /\ boot = "up" /\ loaded = Backends /\ crashes = 0

-----------------------------------------------------------------------------
(* The ring, under RingMu *)

RingMuFree(b) == evict[b].stage = "free"

\* GetBlocks: nil for a missing meta file, empty for one without blocks.
HasBlocks(b, k) == meta[b][k] # None /\ meta[b][k].blocks

KeysOf(entries) == {entries[i].key : i \in DOMAIN entries}

\* The bytes a ring counts for the entries at those positions.
BytesAt(entries, positions) ==
    SumFunctionOnSet([i \in DOMAIN entries |-> entries[i].size], positions)

BytesOf(entries) == BytesAt(entries, DOMAIN entries)

\* The bytes it counts for a key, 0 if it is not listed.
SizeIn_Forgets(entries, k) == 0
SizeIn(entries, k) == BytesAt(entries, {i \in DOMAIN entries : entries[i].key = k})

\* The entry of that key replaced, or a new one at the end.
Place(entries, e) ==
    IF e.key \in KeysOf(entries)
    THEN [i \in DOMAIN entries |-> IF entries[i].key = e.key THEN e ELSE entries[i]]
    ELSE Append(entries, e)

\* EvictIfNeeded up to its first early return: below the budget RingMu is
\* released at once, else pruneOrphans starts on the first entry.
EvictIfNeeded(entries, bytes) ==
    IF bytes <= MaxBytes THEN Released
    ELSE [stage |-> "prune", todo |-> entries, victims |-> {}, unlinked |-> None]

\* The ring of b becomes entries with a recorded total of bytes.
SetRing(b, entries, bytes) ==
    /\ ring' = [ring EXCEPT ![b] = entries]
    /\ totalBytes' = [totalBytes EXCEPT ![b] = bytes]
    /\ evict' = [evict EXCEPT ![b] = EvictIfNeeded(entries, bytes)]

\* Whoever holds RingMu of b gives it back and returns.
Unlock(b) ==
    /\ evict' = [evict EXCEPT ![b] = Released]
    /\ pc' = [p \in Places |->
                IF p[1] = b /\ pc[p] = "evicting" THEN "idle" ELSE pc[p]]
    /\ tpc' = [t \in Transfers |->
                 IF tpc[t] = "evicting" /\ copy[t].dst = b THEN "end" ELSE tpc[t]]
    /\ UNCHANGED <<ring, totalBytes>>

\* CacheExists may answer no.
SeemsMissing(b, k) == file[b][k] = 0 \/ b \in Agents

\* CacheDelete: without the main file it fails before it looks for sidecars.
CacheDelete(b, k) ==
    \/ /\ file' = [file EXCEPT ![b][k] = 0]
       /\ sidecar' = [sidecar EXCEPT ![b] = IF file[b][k] = 0 THEN @ ELSE @ \ {k}]
    \/ b \in Agents /\ UNCHANGED <<file, sidecar>>

\* An entry leaves the ring and deleteEntry removes its file; its meta file
\* is next, whether that has worked or not.
DropEntry(b, e) ==
    /\ ring' = [ring EXCEPT ![b] = RemoveFirst(@, e)]
    /\ totalBytes' = [totalBytes EXCEPT ![b] = @ - e.size]
    /\ CacheDelete(b, e.key)
    /\ evict' = [evict EXCEPT ![b].todo = Tail(@), ![b].unlinked = e.key]

\* An entry stays in the ring.
KeepEntry(b) ==
    /\ evict' = [evict EXCEPT ![b].todo = Tail(@)]
    /\ UNCHANGED <<ring, totalBytes, file, sidecar>>

\* pruneOrphans visits the next entry: one whose meta file is gone or has no
\* blocks is dropped.
PruneOrphans(b) ==
    /\ evict[b].stage = "prune" /\ evict[b].unlinked = None /\ evict[b].todo # <<>>
    /\ IF HasBlocks(b, Head(evict[b].todo).key)
       THEN KeepEntry(b)
       ELSE DropEntry(b, Head(evict[b].todo))
    /\ UNCHANGED <<meta, requestVars, transferVars, bootVars>>

BytesLeft(b, V) ==
    totalBytes[b] - BytesAt(ring[b], {i \in DOMAIN ring[b] : ring[b][i].key \in V})

\* The keys the budget asks to evict: a shortest prefix of the entries, in
\* some order of their scores, that brings the total within the budget.
Victims_OneShort(b) ==
    {V \in SUBSET KeysOf(ring[b]) : \E last \in KeysOf(ring[b]) \ V :
       BytesLeft(b, V) > MaxBytes /\ BytesLeft(b, V \cup {last}) <= MaxBytes}
Victims(b) ==
    {V \in SUBSET KeysOf(ring[b]) :
       /\ BytesLeft(b, V) <= MaxBytes \/ V = KeysOf(ring[b])
       /\ \E last \in V : BytesLeft(b, V \ {last}) > MaxBytes}

\* After the pruning: back if that was enough, else choose what to evict.
ChooseVictims(b) ==
    /\ evict[b].stage = "prune" /\ evict[b].unlinked = None /\ evict[b].todo = <<>>
    /\ \/ /\ ring[b] = <<>> \/ totalBytes[b] <= MaxBytes
          /\ Unlock(b)
       \/ /\ ring[b] # <<>> /\ totalBytes[b] > MaxBytes
          /\ \E V \in Victims(b) :
               evict' = [evict EXCEPT ![b].stage = "evict", ![b].todo = ring[b],
                                      ![b].victims = V]
          /\ UNCHANGED <<ring, totalBytes, pc, tpc>>
    /\ UNCHANGED <<diskVars, want, size, copy, tracker, bootVars>>

\* EvictIfNeeded visits the next entry of the ring: the victims are dropped.
EvictNext(b) ==
    /\ evict[b].stage = "evict" /\ evict[b].unlinked = None /\ evict[b].todo # <<>>
    /\ IF Head(evict[b].todo).key \in evict[b].victims
       THEN DropEntry(b, Head(evict[b].todo))
       ELSE KeepEntry(b)
    /\ UNCHANGED <<meta, requestVars, transferVars, bootVars>>

EvictionDone(b) ==
    /\ evict[b].stage = "evict" /\ evict[b].unlinked = None /\ evict[b].todo = <<>>
    /\ Unlock(b)
    /\ UNCHANGED <<diskVars, want, size, copy, tracker, bootVars>>

\* DeleteMetaFile removes the first meta file of that key it comes upon, in
\* the directory of whichever backend.
FirstWithMeta(k) ==
    LET at == SelectInSeq(DirOrder, LAMBDA b : meta[b][k] # None)
    IN  IF at = 0 THEN {} ELSE {DirOrder[at]}

DeleteMetaFile(k) ==
    meta' = [b \in Backends |->
               IF b \in FirstWithMeta(k) THEN [meta[b] EXCEPT ![k] = None] ELSE meta[b]]

\* The second half of deleteEntry.
DeleteMeta(b) ==
    /\ evict[b].unlinked # None
    /\ DeleteMetaFile(evict[b].unlinked)
    /\ evict' = [evict EXCEPT ![b].unlinked = None]
    /\ UNCHANGED <<file, sidecar, ring, totalBytes, requestVars, transferVars, bootVars>>

-----------------------------------------------------------------------------
(* A request on a slot: routing, restore, save *)

WriteMeta(b, k, bytes, blocks) ==
    meta' = [meta EXCEPT ![b][k] = [size |-> bytes, blocks |-> blocks]]

\* RequestCacheTransfer, under the tracker's lock: not if that key is on its
\* way to dst or the file is there.
Starts_Repeated(k, dst) == SeemsMissing(dst, k)
Starts(k, dst) == <<k, dst>> \notin tracker /\ SeemsMissing(dst, k)

RequestCacheTransfer(src, dst, k) ==
    \/ (<<k, dst>> \in tracker \/ file[dst][k] # 0) /\ UNCHANGED transferVars
    \/ /\ Starts(k, dst)
       /\ tracker' = tracker \cup {<<k, dst>>}
       /\ \E t \in Transfers :
            /\ tpc[t] = "idle"
            /\ tpc' = [tpc EXCEPT ![t] = "read"]
            /\ copy' = [copy EXCEPT ![t] =
                 [key |-> k, src |-> src, dst |-> dst, size |-> 0,
                  blocks |-> FALSE, sidecars |-> FALSE]]

\* match finds the best cache of a request on src but chooses the backend of
\* p, or migrateStale moves the request there: the cache is sent after it.
RouteAway(p, src, k) ==
    /\ boot = "up" /\ pc[p] = "idle"
    /\ src # p[1] /\ HasBlocks(src, k)
    /\ RequestCacheTransfer(src, p[1], k)
    /\ pc' = [pc EXCEPT ![p] = "resolve"]
    /\ want' = [want EXCEPT ![p] = k]
    /\ UNCHANGED <<size, diskVars, ringVars, bootVars>>

\* resolveRestoreKey: the worker waits for the transfer, but not for ever, and
\* then restores if the file is there.
ResolveRestoreKey(p) ==
    /\ pc[p] = "resolve"
    /\ \/ /\ file[p[1]][want[p]] # 0
          /\ pc' = [pc EXCEPT ![p] = "restore"]
          /\ UNCHANGED want
       \/ /\ SeemsMissing(p[1], want[p])
          /\ pc' = [pc EXCEPT ![p] = "idle"]
          /\ want' = [want EXCEPT ![p] = None]
    /\ UNCHANGED <<size, diskVars, ringVars, transferVars, bootVars>>

\* Restore: the worker goes on to the reply whether it succeeds or not.
Restore(p) ==
    /\ pc[p] = "restore"
    /\ pc' = [pc EXCEPT ![p] = "idle"]
    /\ want' = [want EXCEPT ![p] = None]
    /\ UNCHANGED <<size, diskVars, ringVars, transferVars, bootVars>>

\* SaveAfter, outside RingMu: llama.cpp writes the cache file and its sidecars.
SaveSlot(p, k, bytes) ==
    /\ boot = "up" /\ pc[p] = "idle"
    /\ file' = [file EXCEPT ![p[1]][k] = bytes]
    /\ sidecar' = [sidecar EXCEPT ![p[1]] = @ \cup ({k} \cap Checkpointed)]
    /\ pc' = [pc EXCEPT ![p] = "saved"]
    /\ want' = [want EXCEPT ![p] = k]
    /\ size' = [size EXCEPT ![p] = bytes]
    /\ UNCHANGED <<meta, ringVars, transferVars, bootVars>>

\* SaveAfter, under RingMu: metadata, ring entry, total, eviction.
SaveAfter(p, blocks) ==
    LET b == p[1]
        k == want[p]
    IN  /\ pc[p] = "saved" /\ RingMuFree(b)
        /\ WriteMeta(b, k, size[p], blocks)
        /\ SetRing(b, Place(ring[b], [key |-> k, size |-> size[p]]),
                   totalBytes[b] - SizeIn(ring[b], k) + size[p])
        /\ pc' = [pc EXCEPT ![p] = IF evict'[b] = Released THEN "idle" ELSE "evicting"]
        /\ want' = [want EXCEPT ![p] = None]
        /\ size' = [size EXCEPT ![p] = 0]
        /\ UNCHANGED <<file, sidecar, transferVars, bootVars>>

-----------------------------------------------------------------------------
(* A transfer goroutine: runCacheTransfer *)

GoTo(t, place) == tpc' = [tpc EXCEPT ![t] = place]

\* A source file of size 0 or none at all ends the transfer.
SourceMissing_Ignored(bytes) == FALSE
SourceMissing(bytes) == bytes = 0

\* The size of the source file, as far as it can be learned
SizesSeen(c) == {file[c.src][c.key]} \cup (IF c.src \in Agents THEN {0} ELSE {})

\* The sidecars to send, if they can be learned; an agent that sends to an agent
\* looks for them itself.
SidecarsSeen(c) ==
    {c.key \in sidecar[c.src]}
    \cup (IF c.src \in Agents /\ c.dst \notin Agents THEN {FALSE} ELSE {})

\* Metadata, size, blocks and sidecars of the source, as they are now.
ReadSource(t) ==
    LET c == copy[t]
    IN  /\ tpc[t] = "read"
        /\ \E bytes \in SizesSeen(c), sidecars \in SidecarsSeen(c) :
             /\ copy' = [copy EXCEPT ![t].size = bytes,
                                     ![t].blocks = HasBlocks(c.src, c.key),
                                     ![t].sidecars = sidecars]
             /\ GoTo(t, IF SourceMissing(bytes) THEN "end" ELSE "main")
        /\ UNCHANGED <<tracker, diskVars, ringVars, requestVars, bootVars>>

\* The main file appears at the target, whole.
CopyMain(t) ==
    LET c == copy[t]
    IN  /\ tpc[t] = "main" /\ file[c.src][c.key] # 0
        /\ file' = [file EXCEPT ![c.dst][c.key] = file[c.src][c.key]]
        /\ GoTo(t, IF c.sidecars THEN "sidecars" ELSE "meta")
        /\ copy' = [copy EXCEPT ![t].sidecars = FALSE]
        /\ UNCHANGED <<sidecar, meta, tracker, ringVars, requestVars, bootVars>>

\* Then its sidecars.
CopySidecars(t) ==
    LET c == copy[t]
    IN  /\ tpc[t] = "sidecars" /\ c.key \in sidecar[c.src]
        /\ sidecar' = [sidecar EXCEPT ![c.dst] = @ \cup {c.key}]
        /\ GoTo(t, "meta")
        /\ UNCHANGED <<file, meta, copy, tracker, ringVars, requestVars, bootVars>>

\* A copy fails: the source is gone, the network or the disk.  What has been
\* copied stays.
CopyFails(t) ==
    /\ tpc[t] \in {"main", "sidecars"}
    /\ GoTo(t, "end")
    /\ copy' = [copy EXCEPT ![t].size = 0, ![t].blocks = FALSE, ![t].sidecars = FALSE]
    /\ UNCHANGED <<tracker, diskVars, ringVars, requestVars, bootVars>>

PutMeta(t) ==
    LET c == copy[t]
    IN  /\ tpc[t] = "meta"
        /\ WriteMeta(c.dst, c.key, c.size, c.blocks)
        /\ GoTo(t, "register")
        /\ copy' = [copy EXCEPT ![t].blocks = FALSE]
        /\ UNCHANGED <<file, sidecar, tracker, ringVars, requestVars, bootVars>>

\* AddTransferredEntry.
Listed_Unchecked(b, k) == FALSE
Listed(b, k) == k \in KeysOf(ring[b])

AddTransferredEntry(t) ==
    LET c == copy[t]
    IN  /\ tpc[t] = "register" /\ RingMuFree(c.dst)
        /\ \/ /\ Listed(c.dst, c.key)
              /\ GoTo(t, "end")
              /\ UNCHANGED ringVars
           \/ /\ ~Listed(c.dst, c.key)
              /\ SetRing(c.dst, Append(ring[c.dst], [key |-> c.key, size |-> c.size]),
                         totalBytes[c.dst] + c.size)
              /\ GoTo(t, IF evict'[c.dst] = Released THEN "end" ELSE "evicting")
        /\ UNCHANGED <<copy, tracker, diskVars, requestVars, bootVars>>

\* The goroutine's deferred delete from the tracker.
EndTransfer(t) ==
    /\ tpc[t] = "end"
    /\ tracker' = tracker \ {<<copy[t].key, copy[t].dst>>}
    /\ GoTo(t, "idle")
    /\ copy' = [copy EXCEPT ![t] = None]
    /\ UNCHANGED <<diskVars, ringVars, requestVars, bootVars>>

-----------------------------------------------------------------------------
(* Crash and restart: Main *)

\* The proxy dies anywhere; what the backends have on disk stays.
Crash ==
    /\ crashes < MaxCrashes
    /\ crashes' = crashes + 1
    /\ boot' = "load" /\ loaded' = {}
    /\ ring' = [b \in Backends |-> <<>>]
    /\ totalBytes' = [b \in Backends |-> 0]
    /\ evict' = [b \in Backends |-> Released]
    /\ pc' = [p \in Places |-> "idle"]
    /\ want' = [p \in Places |-> None]
    /\ size' = [p \in Places |-> 0]
    /\ tpc' = [t \in Transfers |-> "idle"]
    /\ copy' = [t \in Transfers |-> None]
    /\ tracker' = {}
    /\ UNCHANGED diskVars

\* InitFromDisk, one backend after the other: every meta file becomes a ring
\* entry of the size it records.
InitFromDisk(b) ==
    LET keys    == SetToSeq({k \in Keys : meta[b][k] # None})
        entries == [i \in DOMAIN keys |-> [key |-> keys[i], size |-> meta[b][keys[i]].size]]
    IN  /\ boot = "load" /\ b \notin loaded
        /\ \A c \in Backends : RingMuFree(c)
        /\ SetRing(b, entries, BytesOf(entries))
        /\ loaded' = loaded \cup {b}
        /\ UNCHANGED <<boot, crashes, diskVars, requestVars, transferVars>>

\* Reconcile removes the meta files whose cache file is gone, or seems to be.
Reconcile_Skipped == meta' = meta
Reconcile ==
    \E unseen \in SUBSET (Agents \X Keys) :
       meta' = [b \in Backends |-> [k \in Keys |->
                  IF file[b][k] = 0 \/ <<b, k>> \in unseen THEN None ELSE meta[b][k]]]

StartServing ==
    /\ boot = "load" /\ loaded = Backends
    /\ \A b \in Backends : RingMuFree(b)
    /\ Reconcile
    /\ boot' = "up"
    /\ UNCHANGED <<loaded, crashes, file, sidecar, ringVars, requestVars, transferVars>>

-----------------------------------------------------------------------------

EvictionStep(b) ==
    PruneOrphans(b) \/ ChooseVictims(b) \/ EvictNext(b) \/ EvictionDone(b) \/ DeleteMeta(b)

RequestStep(p) ==
    \/ \E src \in Backends, k \in Keys : RouteAway(p, src, k)
    \/ ResolveRestoreKey(p) \/ Restore(p)
    \/ \E k \in Keys, bytes \in Sizes : SaveSlot(p, k, bytes)
    \/ \E blocks \in BlocksKnown : SaveAfter(p, blocks)

TransferStep(t) ==
    ReadSource(t) \/ CopyMain(t) \/ CopySidecars(t) \/ CopyFails(t) \/ PutMeta(t)
    \/ AddTransferredEntry(t) \/ EndTransfer(t)

Next ==
    \/ \E b \in Backends : EvictionStep(b) \/ InitFromDisk(b)
    \/ \E p \in Places : RequestStep(p)
    \/ \E t \in Transfers : TransferStep(t)
    \/ Crash \/ StartServing

Spec == Init /\ [][Next]_vars

-----------------------------------------------------------------------------
(* Properties *)

\* A backend's total is the sum of its ring at every moment, whatever saves,
\* replacements, transfers, prunings and restarts have gone before: else the
\* budget drifts.
TotalIsSum == \A b \in Backends : totalBytes[b] = BytesOf(ring[b])

\* A key is listed once on a backend, although a save and a transfer of it
\* can register at the same time: an entry listed twice is counted twice.
KeysListedOnce ==
    \A b \in Backends : Cardinality(KeysOf(ring[b])) = Len(ring[b])

\* Whoever gives RingMu back leaves the backend within its budget, at start-up
\* and after a copy as well.
WithinBudget == \A b \in Backends : RingMuFree(b) => totalBytes[b] <= MaxBytes

\* The tracker knows the copies under way, each once: two goroutines with the
\* same key and target would write the same temporary file; a pair left behind
\* would never be sent again and every worker that wants it waits in vain.
TrackerExact ==
    LET running == {t \in Transfers : tpc[t] # "idle"}
    IN  /\ tracker = {<<copy[t].key, copy[t].dst>> : t \in running}
        /\ Cardinality(tracker) = Cardinality(running)

\* One backend: nobody else's eviction finds its metadata, nothing is copied.
OneHome == \A b, c \in Backends : b = c

\* One backend of one slot: no save runs while an eviction does.
OneSaver == OneHome /\ \A p, q \in Places : p = q

\* "files and meta stay in sync": whenever nobody is evicting, registering or
\* starting, what has metadata on a backend has its file there and is in
\* its ring.
MetaInSync ==
    /\ boot = "up"
    /\ \A b \in Backends : RingMuFree(b)
    /\ \A t \in Transfers : tpc[t] # "register"
    =>
        \A b \in Backends, k \in Keys :
            meta[b][k] # None => file[b][k] # 0 /\ k \in KeysOf(ring[b])

\* "Checkpoint sidecars make the entry complete only when transferred too": no
\* worker is about to restore from a copy that lacks them.
CopiesRestoreWhole ==
    \A p \in Places :
        pc[p] = "restore" /\ file[p[1]][want[p]] # 0
        => want[p] \notin Checkpointed \ sidecar[p[1]]
=============================================================================
