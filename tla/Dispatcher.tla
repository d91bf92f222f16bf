------------------------------ MODULE Dispatcher ------------------------------
(***************************************************************************)
(* The request dispatcher of matcher.go with the slot pools of             *)
(* slotmanager.go and the slot acquisition of processor.go.                *)
(*                                                                         *)
(* Actors: the HTTP handlers that submit requests and the clients that     *)
(* hang up; the one dispatcher goroutine (phase); one worker goroutine per *)
(* dispatched request (pc); the liveness checker that changes the backend  *)
(* states and the registry; the caller of Stop and AbortAll.               *)
(*                                                                         *)
(* Every step is one critical section of d.mu or PoolMu, or one blocking   *)
(* call, with the local code that follows it.  Prompts, caches and replies *)
(* are left out: which backend holds the best cache is a free choice of    *)
(* the scan (hit), and whether a queued request is old enough to migrate   *)
(* is a free choice of the clock.  The wake-up channel activity is left    *)
(* out: the loop's ticker can fire whenever a wake-up could.               *)
(*                                                                         *)
(* An operator X_Something, always just before X, is X with a plausible    *)
(* bug.  No specification uses it: put in the place of X it shows that a   *)
(* property fails when the code goes wrong there.                          *)
(***************************************************************************)
EXTENDS Integers, Sequences, FiniteSets, Functions, BackendSelection

CONSTANTS
    Requests,       (* chat requests                                        *)
    Backends,       (* configured backends                                  *)
    Models,         (* canonical model names                                *)
    Options,        (* Options[r]: the models the client's name resolves to *)
    Hosts,          (* pairs <<backend, model>> discovery can ever report   *)
    SlotCounts,     (* numbers of slots a backend can report for a model    *)
    Workers,        (* bound: worker goroutines alive at the same time      *)
    IncomingCap,    (* bound: capacity of the channel incoming (128)        *)
    MaxChanges,     (* bound: registry and backend state changes            *)
    AllowStop,      (* does the environment call Stop?                      *)
    AllowAbortAll,  (* does the environment call AbortAll?                  *)
    None            (* no request, no model                                 *)

ASSUME DispatcherAssumption ==
    /\ Options \in [Requests -> SUBSET Models]
    /\ Hosts \subseteq Backends \X Models
    /\ SlotCounts \subseteq Nat \ {0}
    /\ IncomingCap \in Nat \ {0}
    /\ MaxChanges \in Nat
    /\ {AllowStop, AllowAbortAll} \subseteq BOOLEAN
    /\ None \notin Requests \cup Models
    /\ NoHit \notin Backends \X Models

\* slotID of a worker that has none: -2 in the code for one that has to
\* discover the pool itself; the same value marks a worker whose slot is back.
NoSlot == -2

VARIABLES
    client,     (* client[r]: the handler's progress in Submit              *)
    dead,       (* requests whose context is cancelled                      *)
    done,       (* requests whose channel done is closed                    *)
    outcome,    (* outcome[r]: how the request was settled                  *)
    incoming,   (* the channel incoming                                     *)
    phase,      (* where the dispatcher goroutine is                        *)
    burst,      (* its local slice burst                                    *)
    held,       (* the overflow head drainOverflow has popped, or None      *)
    idle,       (* migrateStale's idle backends                             *)
    unpumped,   (* the backends pumpAll has still to visit                  *)
    overflow,   (* the global overflow queue                                *)
    queue,      (* queue[b]: backendWorker.queue                            *)
    inFlight,   (* inFlight[b]: the workers on backendWorker.inFlight       *)
    model,      (* model[r]: route.selected.ModelName, None before a route  *)
    migrated,   (* requests with migratedFrom set                           *)
    pc,         (* pc[w]: where worker w is, "free" if there is none        *)
    work,       (* work[w]: the request w processes                         *)
    site,       (* site[w]: the backend w runs on                           *)
    slot,       (* slot[w]: the slot w holds, or NoSlot                     *)
    pool,       (* pool[b][m]: size of the slot pool, 0 if there is none    *)
    inUse,      (* inUse[b]: the slots marked in use                        *)
    registry,   (* pairs <<backend, model>> of DiscoveredModels             *)
    up,         (* backends whose BackendState is true                      *)
    changes,    (* registry and state changes so far                        *)
    stopped,    (* d.stopped                                                *)
    aborted     (* AbortAll was called                                      *)

clientVars == <<client, dead, done, outcome>>
loopVars   == <<phase, burst, held, idle, unpumped>>
queueVars  == <<overflow, queue, model, migrated>>
workerVars == <<inFlight, pc, work, site, slot>>
poolVars   == <<pool, inUse>>
envVars    == <<registry, up, changes, stopped, aborted>>
vars == <<clientVars, incoming, loopVars, queueVars, workerVars, poolVars,
          envVars>>

ClientStates == {"new", "sending", "accepted", "refused"}
Outcomes == {"open", "served", "rejected", "discarded"}
Phases == {"select", "arrive", "drain", "migrate", "migrating", "pump", "exited"}
WorkerStates == {"free", "handoff", "start", "acquire", "refresh", "gate",
                 "backoff", "serve", "finish", "drop"}

ClientTypes ==
    /\ client \in [Requests -> ClientStates]
    /\ dead \subseteq Requests
    /\ done \subseteq Requests
    /\ outcome \in [Requests -> Outcomes]

LoopTypes ==
    /\ incoming \in Seq(Requests)
    /\ phase \in Phases
    /\ burst \in Seq(Requests)
    /\ held \in Requests \cup {None}
    /\ idle \subseteq Backends
    /\ unpumped \subseteq Backends

QueueTypes ==
    /\ overflow \in Seq(Requests)
    /\ queue \in [Backends -> Seq(Requests)]
    /\ model \in [Requests -> Models \cup {None}]
    /\ migrated \subseteq Requests

WorkerTypes ==
    /\ inFlight \in [Backends -> SUBSET Workers]
    /\ pc \in [Workers -> WorkerStates]
    /\ work \in [Workers -> Requests \cup {None}]
    /\ site \in [Workers -> Backends \cup {None}]
    /\ slot \in [Workers -> Nat \cup {NoSlot}]

PoolTypes ==
    /\ pool \in [Backends -> [Models -> Nat]]
    /\ inUse \in [Backends -> SUBSET Nat]

EnvTypes ==
    /\ registry \subseteq Hosts
    /\ up \subseteq Backends
    /\ changes \in 0 .. MaxChanges
    /\ stopped \in BOOLEAN
    /\ aborted \in BOOLEAN

\* The variables have their types: above all a slot id is a pool index or
\* NoSlot, never the -1 of a failed TryAcquire.
TypeOK ==
    ClientTypes /\ LoopTypes /\ QueueTypes /\ WorkerTypes /\ PoolTypes /\ EnvTypes

\* Main: nothing is discovered and no pool exists before the first request
\* (or the liveness checker) asks; every backend starts as up.
Init ==
    /\ client = [r \in Requests |-> "new"]
    /\ dead = {}
    /\ done = {}
    /\ outcome = [r \in Requests |-> "open"]
    /\ incoming = <<>>
    /\ phase = "select"
    /\ burst = <<>>
    /\ held = None
    /\ idle = {}
    /\ unpumped = {}
    /\ overflow = <<>>
    /\ queue = [b \in Backends |-> <<>>]
    /\ inFlight = [b \in Backends |-> {}]
    /\ model = [r \in Requests |-> None]
    /\ migrated = {}
    /\ pc = [w \in Workers |-> "free"]
    /\ work = [w \in Workers |-> None]
    /\ site = [w \in Workers |-> None]
    /\ slot = [w \in Workers |-> NoSlot]
    /\ pool = [b \in Backends |-> [m \in Models |-> 0]]
    /\ inUse = [b \in Backends |-> {}]
    /\ registry = {}
    /\ up = Backends
    /\ changes = 0
    /\ stopped = FALSE
    /\ aborted = FALSE

-----------------------------------------------------------------------------
(* Helpers *)

\* discard: the request is settled without an answer, its context cancelled.
Settle(R, how) ==
    /\ outcome' = [r \in Requests |-> IF r \in R THEN how ELSE outcome[r]]
    /\ done' = done \cup R
    /\ dead' = dead \cup R
    /\ UNCHANGED client

Discard(R) == Settle(R, "discarded")

\* d.mu is free: only migrateStale keeps it over several steps.
MuFree == phase # "migrating"

\* Only models have pools (GetPool of any other name is nil).
PoolSize(b, m) == IF m \in Models THEN pool[b][m] ELSE 0
FreeSlots_IgnoresUse(b, m) == 0 .. PoolSize(b, m) - 1
FreeSlots(b, m) == (0 .. PoolSize(b, m) - 1) \ inUse[b]
Lowest(S) == CHOOSE s \in S : \A t \in S : s <= t

\* TryAcquire gives w the first free slot; Release frees a slot whatever its state.
TryAcquire(w, b, m) ==
    /\ FreeSlots(b, m) # {}
    /\ slot' = [slot EXCEPT ![w] = Lowest(FreeSlots(b, m))]
    /\ inUse' = [inUse EXCEPT ![b] = @ \cup {Lowest(FreeSlots(b, m))}]
    /\ UNCHANGED pool

Release(w) ==
    /\ slot' = [slot EXCEPT ![w] = NoSlot]
    /\ inUse' = [inUse EXCEPT ![site[w]] = @ \ {slot[w]}]
    /\ UNCHANGED pool

\* EnsurePool for every pair that answered: ids a pool did not have before are
\* marked free, whoever holds them; ids it loses keep their mark.
AddedSlots_ResetsAll(b, m, n) == 0 .. n - 1
AddedSlots(b, m, n) == (0 .. n - 1) \ (0 .. pool[b][m] - 1)

EnsurePools(counts) ==
    LET Answered(b) == {m \in Models : <<b, m>> \in DOMAIN counts}
    IN  /\ pool' = [b \in Backends |-> [m \in Models |->
                      IF m \in Answered(b) THEN counts[<<b, m>>] ELSE pool[b][m]]]
        /\ inUse' = [b \in Backends |-> inUse[b] \
                      UNION {AddedSlots(b, m, counts[<<b, m>>]) : m \in Answered(b)}]

\* What a worker that ends without an answer gives back: the slot the pump took
\* for it, if it took one.
GiveBack_Leaks(w) ==
    /\ slot' = [slot EXCEPT ![w] = NoSlot]
    /\ UNCHANGED poolVars

GiveBack(w) == IF slot[w] # NoSlot THEN Release(w) ELSE UNCHANGED <<slot, poolVars>>

DropInFlight_Misses(w) == UNCHANGED inFlight
DropInFlight(w) == inFlight' = [inFlight EXCEPT ![site[w]] = @ \ {w}]

RemoveIndex_OffByOne(s, i) == SubSeq(s, 1, i) \o SubSeq(s, i + 2, Len(s))
RemoveIndex(s, i) == SubSeq(s, 1, i - 1) \o SubSeq(s, i + 1, Len(s))

Depth == [b \in Backends |-> Len(queue[b])]

\* Discovery asks the backends that are up; one that does not answer in time
\* is missing from the new registry, an error leaves the old one in place.
Discoveries == (SUBSET {h \in Hosts : BackendOf(h) \in up}) \cup {registry}

-----------------------------------------------------------------------------
(* HTTP handlers and clients *)

\* Submit, first critical section.
SubmitCheck(r) ==
    /\ client[r] = "new"
    /\ MuFree
    /\ client' = [client EXCEPT ![r] = IF stopped THEN "refused" ELSE "sending"]
    /\ UNCHANGED <<dead, done, outcome, incoming, loopVars, queueVars,
                   workerVars, poolVars, envVars>>

\* Submit, the send: it blocks while the channel is full, cancelled or not.
SubmitSend(r) ==
    /\ client[r] = "sending"
    /\ Len(incoming) < IncomingCap
    /\ incoming' = Append(incoming, r)
    /\ client' = [client EXCEPT ![r] = "accepted"]
    /\ UNCHANGED <<dead, done, outcome, loopVars, queueVars, workerVars,
                   poolVars, envVars>>

\* The client disconnects: only the request's context notices.
Disconnect(r) ==
    /\ client[r] \in {"sending", "accepted"}
    /\ r \notin dead
    /\ dead' = dead \cup {r}
    /\ UNCHANGED <<client, done, outcome, incoming, loopVars, queueVars,
                   workerVars, poolVars, envVars>>

-----------------------------------------------------------------------------
(* The dispatcher goroutine *)

\* One iteration of run begins: the channel is drained into burst.
Wake ==
    /\ phase = "select"
    /\ burst' = incoming
    /\ incoming' = <<>>
    /\ phase' = "arrive"
    /\ UNCHANGED <<clientVars, held, idle, unpumped, queueVars, workerVars,
                   poolVars, envVars>>

Exit ==
    /\ phase = "select"
    /\ stopped
    /\ phase' = "exited"
    /\ UNCHANGED <<clientVars, incoming, burst, held, idle, unpumped, queueVars,
                   workerVars, poolVars, envVars>>

Candidates(r, reg) == {c \in reg : ModelOf(c) \in Options[r]}
Live(C) == {c \in C : BackendOf(c) \in up}

\* match retries discovery once when the registry has no model for the client.
RegistriesSeen(r) ==
    IF Candidates(r, registry) = {} THEN Discoveries ELSE {registry}

\* match answers the request itself: no live backend, tokenizer error, prompt
\* too long.
MatchRejects(r) ==
    /\ registry' \in RegistriesSeen(r)
    /\ Settle({r}, "rejected")

MatchEnqueues_NoCap(r) ==
    \E reg \in RegistriesSeen(r) :
    \E hit \in Candidates(r, reg) \cup {NoHit} :
    \E c \in Routable(Live(Candidates(r, reg)), hit, Depth) :
        /\ registry' = reg
        /\ queue' = [queue EXCEPT ![BackendOf(c)] = Append(@, r)]
        /\ model' = [model EXCEPT ![r] = ModelOf(c)]

\* match chooses a pair and tryEnqueue finds room in its queue.
MatchEnqueues(r) ==
    \E reg \in RegistriesSeen(r) :
    \E hit \in Candidates(r, reg) \cup {NoHit} :
    \E c \in Routable(Live(Candidates(r, reg)), hit, Depth) :
        /\ Len(queue[BackendOf(c)]) < QueueMax
        /\ registry' = reg
        /\ queue' = [queue EXCEPT ![BackendOf(c)] = Append(@, r)]
        /\ model' = [model EXCEPT ![r] = ModelOf(c)]

\* match finds every queue full, or tryEnqueue finds the chosen one full (a
\* route chosen in vain is replaced by the next match); or the last live backend
\* goes down between the scan and the choice.
MatchParks(r) ==
    \E reg \in RegistriesSeen(r) :
    LET C == Live(Candidates(r, reg))
    IN  /\ C # {}
        /\ \/ /\ \E hit \in Candidates(r, reg) \cup {NoHit} :
                   \/ Routable(C, hit, Depth) = {}
                   \/ \E c \in Routable(C, hit, Depth) : Len(queue[BackendOf(c)]) >= QueueMax
              /\ UNCHANGED <<up, changes>>
           \/ /\ changes < MaxChanges
              /\ \E b \in up : C = OnBackend(C, b) /\ up' = up \ {b}
              /\ changes' = changes + 1
        /\ registry' = reg
        /\ model' = [model EXCEPT ![r] = None]

\* handleArrival for the next request of the burst.
Arrive ==
    /\ phase = "arrive"
    /\ burst # <<>>
    /\ burst' = Tail(burst)
    /\ LET r == Head(burst)
       IN  \/ /\ r \in dead
              /\ Discard({r})
              /\ UNCHANGED <<queueVars, registry, up, changes>>
           \/ /\ r \notin dead
              /\ MatchRejects(r)
              /\ UNCHANGED <<queueVars, up, changes>>
           \/ /\ r \notin dead
              /\ MatchEnqueues(r)
              /\ UNCHANGED <<clientVars, overflow, migrated, up, changes>>
           \/ /\ r \notin dead
              /\ MatchParks(r)
              /\ overflow' = Append(overflow, r)
              /\ UNCHANGED <<clientVars, queue, migrated>>
    /\ UNCHANGED <<incoming, phase, held, idle, unpumped, workerVars, poolVars,
                   stopped, aborted>>

BurstHandled ==
    /\ phase = "arrive"
    /\ burst = <<>>
    /\ phase' = "drain"
    /\ UNCHANGED <<clientVars, incoming, burst, held, idle, unpumped, queueVars,
                   workerVars, poolVars, envVars>>

\* The popped head goes back to the front, the requests behind it keep their order.
PutBack_AtTail(r) == overflow' = Append(overflow, r)
PutBack(r) == overflow' = <<r>> \o overflow

PopOverflow_Peeks ==
    /\ phase = "drain"
    /\ held = None
    /\ IF overflow = <<>>
         THEN phase' = "migrate" /\ UNCHANGED held
         ELSE held' = Head(overflow) /\ UNCHANGED phase
    /\ UNCHANGED <<clientVars, incoming, burst, idle, unpumped, queueVars,
                   workerVars, poolVars, envVars>>

\* drainOverflow pops the head before it looks at it.
PopOverflow ==
    /\ phase = "drain"
    /\ held = None
    /\ IF overflow = <<>>
         THEN phase' = "migrate" /\ UNCHANGED <<held, overflow>>
         ELSE held' = Head(overflow) /\ overflow' = Tail(overflow) /\ UNCHANGED phase
    /\ UNCHANGED <<clientVars, incoming, burst, idle, unpumped, queue, model,
                   migrated, workerVars, poolVars, envVars>>

\* The popped head is settled, routed, or put back in front, which ends the pass.
RouteHeld ==
    /\ phase = "drain"
    /\ held # None
    /\ held' = None
    /\ \/ /\ held \in dead
          /\ Discard({held})
          /\ UNCHANGED <<queueVars, registry, up, changes, phase>>
       \/ /\ held \notin dead
          /\ MatchRejects(held)
          /\ UNCHANGED <<queueVars, up, changes, phase>>
       \/ /\ held \notin dead
          /\ MatchEnqueues(held)
          /\ UNCHANGED <<clientVars, overflow, migrated, up, changes, phase>>
       \/ /\ held \notin dead
          /\ MatchParks(held)
          /\ PutBack(held)
          /\ phase' = "migrate"
          /\ UNCHANGED <<clientVars, queue, migrated>>
    /\ UNCHANGED <<incoming, burst, idle, unpumped, workerVars, poolVars,
                   stopped, aborted>>

IdleBackends_Working == {b \in up : queue[b] = <<>>}
IdleBackends == {b \in up : queue[b] = <<>> /\ inFlight[b] = {}}

\* migrateStale takes d.mu and lists the idle backends.
BeginMigration ==
    /\ phase = "migrate"
    /\ phase' = "migrating"
    /\ idle' = IdleBackends
    /\ UNCHANGED <<clientVars, incoming, burst, held, unpumped, queueVars,
                   workerVars, poolVars, envVars>>

\* The i-th request of src's queue has aged enough and moves to target.
Migrate(src, i, target) ==
    LET r == queue[src][i]
    IN  /\ phase = "migrating"
        /\ r \notin migrated
        /\ model[r] # None
        /\ target \in idle \ {src}
        /\ <<target, model[r]>> \in registry
        /\ queue' = [queue EXCEPT ![src] = RemoveIndex(@, i),
                                  ![target] = Append(@, r)]
        /\ migrated' = migrated \cup {r}
        /\ idle' = idle \ {target}
        /\ UNCHANGED <<clientVars, incoming, phase, burst, held, unpumped,
                       overflow, model, workerVars, poolVars, envVars>>

EndMigration ==
    /\ phase = "migrating"
    /\ phase' = "pump"
    /\ idle' = {}
    /\ unpumped' = Backends
    /\ UNCHANGED <<clientVars, incoming, burst, held, queueVars, workerVars,
                   poolVars, envVars>>

\* The head of b's queue can go: its pool has a free slot, or it has no pool
\* and nothing is in flight, so that one worker may go and discover it.
HasPool(b) == PoolSize(b, model[Head(queue[b])]) > 0
Dispatchable_ManyDiscoverers(b) ==
    queue[b] # <<>> /\ (HasPool(b) => FreeSlots(b, model[Head(queue[b])]) # {})

Dispatchable(b) ==
    /\ queue[b] # <<>>
    /\ IF HasPool(b) THEN FreeSlots(b, model[Head(queue[b])]) # {} ELSE inFlight[b] = {}

HandingOff == \E w \in Workers : pc[w] = "handoff"

PumpTake_Unchecked(b, w) ==
    /\ phase = "pump"
    /\ ~HandingOff
    /\ b \in unpumped
    /\ queue[b] # <<>>
    /\ pc[w] = "free"
    /\ slot' = [slot EXCEPT ![w] = -1]
    /\ queue' = [queue EXCEPT ![b] = Tail(@)]
    /\ pc' = [pc EXCEPT ![w] = "handoff"]
    /\ work' = [work EXCEPT ![w] = Head(queue[b])]
    /\ site' = [site EXCEPT ![w] = b]
    /\ inFlight' = [inFlight EXCEPT ![b] = @ \cup {w}]
    /\ UNCHANGED <<clientVars, incoming, loopVars, overflow, model, migrated,
                   poolVars, envVars>>

\* pumpBackend, under d.mu: the head leaves the queue with its slot.
PumpTake(b, w) ==
    /\ phase = "pump"
    /\ ~HandingOff
    /\ b \in unpumped
    /\ Dispatchable(b)
    /\ pc[w] = "free"
    /\ IF HasPool(b)
         THEN TryAcquire(w, b, model[Head(queue[b])])
         ELSE UNCHANGED <<slot, poolVars>>
    /\ queue' = [queue EXCEPT ![b] = Tail(@)]
    /\ pc' = [pc EXCEPT ![w] = "handoff"]
    /\ work' = [work EXCEPT ![w] = Head(queue[b])]
    /\ site' = [site EXCEPT ![w] = b]
    /\ inFlight' = [inFlight EXCEPT ![b] = @ \cup {w}]
    /\ UNCHANGED <<clientVars, incoming, loopVars, overflow, model, migrated, envVars>>

\* The goroutine is gone; its entry is reused.
Retire(w) ==
    /\ pc' = [pc EXCEPT ![w] = "free"]
    /\ work' = [work EXCEPT ![w] = None]
    /\ site' = [site EXCEPT ![w] = None]

\* pumpBackend, after d.mu: a request abandoned in the queue gives its slot back
\* and is discarded, any other gets its worker.
HandOff(w) ==
    /\ pc[w] = "handoff"
    /\ IF work[w] \in dead
         THEN /\ GiveBack(w)
              /\ DropInFlight(w)
              /\ Discard({work[w]})
              /\ Retire(w)
         ELSE /\ pc' = [pc EXCEPT ![w] = "start"]
              /\ UNCHANGED <<clientVars, work, site, slot, inFlight, poolVars>>
    /\ UNCHANGED <<incoming, loopVars, queueVars, envVars>>

\* pumpAll leaves a backend whose head cannot go.
PumpNext(b) ==
    /\ phase = "pump"
    /\ ~HandingOff
    /\ b \in unpumped
    /\ ~Dispatchable(b)
    /\ unpumped' = unpumped \ {b}
    /\ phase' = IF unpumped' = {} THEN "select" ELSE "pump"
    /\ UNCHANGED <<clientVars, incoming, burst, held, idle, queueVars, workerVars,
                   poolVars, envVars>>

-----------------------------------------------------------------------------
(* Worker goroutines: processWorkerRequest and acquireSlotOnBackend *)

\* The frame of a worker step that leaves the dispatcher and the queues alone.
WorkerOnly == UNCHANGED <<incoming, loopVars, queueVars, envVars>>

Goto(w, l) == pc' = [pc EXCEPT ![w] = l]

\* A worker settles its request without a slot: discard, or an error reply.
GiveUp(w, how) ==
    /\ Goto(w, "drop")
    /\ Settle({work[w]}, how)
    /\ UNCHANGED <<inFlight, work, site, slot, poolVars>>

\* The prompt does not fit this backend's context: a slot the pump took for it
\* goes back.
PromptTooLong(w) ==
    /\ pc[w] = "start"
    /\ GiveBack(w)
    /\ Goto(w, "finish")
    /\ outcome' = [outcome EXCEPT ![work[w]] = "rejected"]
    /\ UNCHANGED <<client, dead, done, inFlight, work, site>>
    /\ WorkerOnly

Begin(w) ==
    /\ pc[w] = "start"
    /\ Goto(w, IF slot[w] # NoSlot THEN "serve" ELSE "acquire")
    /\ UNCHANGED <<clientVars, inFlight, work, site, slot, poolVars>>
    /\ WorkerOnly

\* acquireSlotOnBackend, top of the loop.
Acquire(w) ==
    /\ pc[w] = "acquire"
    /\ LET b == site[w]
           m == model[work[w]]
       IN  \/ /\ TryAcquire(w, b, m)
              /\ Goto(w, "serve")
              /\ UNCHANGED <<clientVars, inFlight, work, site>>
           \/ /\ FreeSlots(b, m) = {}
              /\ work[w] \in dead
              /\ GiveUp(w, "discarded")
           \/ /\ FreeSlots(b, m) = {}
              /\ work[w] \notin dead
              /\ Goto(w, IF PoolSize(b, m) = 0 THEN "refresh" ELSE "backoff")
              /\ UNCHANGED <<clientVars, inFlight, work, site, slot, poolVars>>
    /\ WorkerOnly

\* RefreshSlotCounts asks every pair of the registry, on every backend; any of
\* them may fail to answer and keeps its pool.
Refresh(w) ==
    /\ pc[w] = "refresh"
    /\ \E answered \in SUBSET registry : \E counts \in [answered -> SlotCounts] :
         EnsurePools(counts)
    /\ Goto(w, "gate")
    /\ UNCHANGED <<clientVars, inFlight, work, site, slot>>
    /\ WorkerOnly

\* After the refresh: give up, hand the request back, or try once more.
Gate(w) ==
    /\ pc[w] = "gate"
    /\ work[w] \in dead
    /\ GiveUp(w, "discarded")
    /\ WorkerOnly

Requeue_FallsThrough(w) ==
    /\ pc[w] = "gate"
    /\ work[w] \notin dead
    /\ <<site[w], model[work[w]]>> \notin registry
    /\ MuFree
    /\ overflow' = Append(overflow, work[w])
    /\ Goto(w, "backoff")
    /\ UNCHANGED <<clientVars, incoming, loopVars, queue, model, migrated,
                   inFlight, work, site, slot, poolVars, envVars>>

\* Requeue: the request goes to the tail of the overflow queue, unsettled.
Requeue(w) ==
    /\ pc[w] = "gate"
    /\ work[w] \notin dead
    /\ <<site[w], model[work[w]]>> \notin registry
    /\ MuFree
    /\ overflow' = Append(overflow, work[w])
    /\ Goto(w, "drop")
    /\ UNCHANGED <<clientVars, incoming, loopVars, queue, model, migrated,
                   inFlight, work, site, slot, poolVars, envVars>>

Retry(w) ==
    /\ pc[w] = "gate"
    /\ work[w] \notin dead
    /\ <<site[w], model[work[w]]>> \in registry
    /\ \/ /\ TryAcquire(w, site[w], model[work[w]])
          /\ Goto(w, "serve")
       \/ /\ FreeSlots(site[w], model[work[w]]) = {}
          /\ Goto(w, "backoff")
          /\ UNCHANGED <<slot, poolVars>>
    /\ UNCHANGED <<clientVars, inFlight, work, site>>
    /\ WorkerOnly

\* ctxSleep: the backoff elapses, or the context ends it.
Backoff(w) ==
    /\ pc[w] = "backoff"
    /\ \/ /\ work[w] \in dead
          /\ GiveUp(w, "discarded")
       \/ /\ Goto(w, "acquire")
          /\ UNCHANGED <<clientVars, inFlight, work, site, slot, poolVars>>
    /\ WorkerOnly

\* The reply, good or bad, is written and the slot released, once.
Serve(w) ==
    /\ pc[w] = "serve"
    /\ Release(w)
    /\ outcome' = [outcome EXCEPT ![work[w]] = "served"]
    /\ Goto(w, "finish")
    /\ UNCHANGED <<client, dead, done, inFlight, work, site>>
    /\ WorkerOnly

\* The deferred finish of processWorkerRequest.
Finish(w) ==
    /\ pc[w] = "finish"
    /\ done' = done \cup {work[w]}
    /\ dead' = dead \cup {work[w]}
    /\ Goto(w, "drop")
    /\ UNCHANGED <<client, outcome, inFlight, work, site, slot, poolVars>>
    /\ WorkerOnly

\* workerFinished: the in-flight mark goes and the goroutine ends.
WorkerFinished(w) ==
    /\ pc[w] = "drop"
    /\ MuFree
    /\ DropInFlight(w)
    /\ Retire(w)
    /\ UNCHANGED <<clientVars, slot, poolVars>>
    /\ WorkerOnly

-----------------------------------------------------------------------------
(* The environment: liveness checker, Stop, AbortAll *)

\* A health check flips a backend's state.
HealthCheck(b) ==
    /\ changes < MaxChanges
    /\ changes' = changes + 1
    /\ up' = IF b \in up THEN up \ {b} ELSE up \cup {b}
    /\ UNCHANGED <<clientVars, incoming, loopVars, queueVars, workerVars,
                   poolVars, registry, stopped, aborted>>

\* The liveness checker rediscovers (its own slot refresh changes no pool).
Rediscover ==
    /\ changes < MaxChanges
    /\ changes' = changes + 1
    /\ registry' \in Discoveries
    /\ UNCHANGED <<clientVars, incoming, loopVars, queueVars, workerVars,
                   poolVars, up, stopped, aborted>>

Parked_WithInFlight ==
    Range(overflow) \cup (UNION {Range(queue[b]) : b \in Backends}) \cup
    {work[w] : w \in UNION {inFlight[b] : b \in Backends}}

\* takeParkedLocked: what Stop and AbortAll discard.
Parked == Range(overflow) \cup UNION {Range(queue[b]) : b \in Backends}

DiscardParked ==
    /\ Discard(Parked)
    /\ overflow' = <<>>
    /\ queue' = [b \in Backends |-> <<>>]
    /\ UNCHANGED <<model, migrated>>

Stop ==
    /\ AllowStop
    /\ ~stopped
    /\ MuFree
    /\ stopped' = TRUE
    /\ DiscardParked
    /\ UNCHANGED <<incoming, loopVars, workerVars, poolVars, registry, up,
                   changes, aborted>>

\* AbortAll forgets the in-flight requests and cancels them.
AbortAll ==
    /\ AllowAbortAll
    /\ ~aborted
    /\ MuFree
    /\ aborted' = TRUE
    /\ LET flying == {work[w] : w \in UNION {inFlight[b] : b \in Backends}}
       IN  /\ dead' = dead \cup Parked \cup flying
           /\ done' = done \cup Parked
           /\ outcome' = [r \in Requests |->
                            IF r \in Parked THEN "discarded" ELSE outcome[r]]
    /\ inFlight' = [b \in Backends |-> {}]
    /\ overflow' = <<>>
    /\ queue' = [b \in Backends |-> <<>>]
    /\ UNCHANGED <<client, incoming, loopVars, model, migrated, pc, work, site,
                   slot, poolVars, registry, up, changes, stopped>>

-----------------------------------------------------------------------------
(* The specification *)

DispatcherStep ==
    \/ Wake \/ Exit
    \/ Arrive \/ BurstHandled
    \/ PopOverflow \/ RouteHeld
    \/ BeginMigration \/ EndMigration
    \/ \E src, target \in Backends : \E i \in 1 .. Len(queue[src]) :
          Migrate(src, i, target)
    \/ \E b \in Backends : PumpNext(b) \/ \E w \in Workers : PumpTake(b, w)
    \/ \E w \in Workers : HandOff(w)

WorkerStep(w) ==
    \/ PromptTooLong(w) \/ Begin(w)
    \/ Acquire(w) \/ Refresh(w) \/ Gate(w) \/ Requeue(w) \/ Retry(w) \/ Backoff(w)
    \/ Serve(w) \/ Finish(w) \/ WorkerFinished(w)

Environment ==
    \/ \E r \in Requests : SubmitCheck(r) \/ SubmitSend(r) \/ Disconnect(r)
    \/ \E b \in Backends : HealthCheck(b)
    \/ Rediscover \/ Stop \/ AbortAll

Next == DispatcherStep \/ Environment \/ \E w \in Workers : WorkerStep(w)

Spec == Init /\ [][Next]_vars

\* The goroutines keep running (the ticker wakes the dispatcher, a backend
\* answers or the call times out), d.mu is not starved (sync.Mutex hands over
\* to a goroutine that waits too long), and a backend listed for a model
\* sooner or later reports its slots for it.
FairSpec ==
    /\ Spec
    /\ WF_vars(DispatcherStep)
    /\ \A r \in Requests : WF_vars(SubmitSend(r))
    /\ \A w \in Workers :
         /\ WF_vars(WorkerStep(w))
         /\ SF_vars(Requeue(w) \/ WorkerFinished(w))
         /\ SF_vars(Refresh(w) /\ PoolSize(site[w], model[work[w]])' > 0)

-----------------------------------------------------------------------------
(* Properties *)

\* Every slot of a backend is reported with one size, for one model: then no
\* refresh of the slot counts can touch a slot that is held.
StableSlots ==
    /\ \A m, n \in SlotCounts : m = n
    /\ \A g, h \in Hosts : BackendOf(g) = BackendOf(h) => g = h

HeldOn(b) == {slot[w] : w \in {v \in Workers : site[v] = b /\ slot[v] # NoSlot}}

\* A slot marked in use has a worker that will release it: no path through the
\* pump, the lazy-discovery worker or an error reply leaks a slot.
NoSlotLeak == \A b \in Backends : inUse[b] \subseteq HeldOn(b)

\* A slot a worker holds is marked in use until that worker releases it.
HeldSlotsMarked == \A b \in Backends : HeldOn(b) \subseteq inUse[b]

\* Two workers never hold the same slot of a model on a backend: "workers never
\* touch each other's slots (each holds exactly one)".
SlotExclusion ==
    \A v, w \in Workers :
        /\ v # w
        /\ slot[v] # NoSlot
        /\ site[v] = site[w]
        /\ model[work[v]] = model[work[w]]
        => slot[v] # slot[w]

\* The in-flight list of a backend is exactly the workers running there, so a
\* backend that migrateStale or the pump takes for idle is idle.
InFlightExact ==
    ~aborted => \A b \in Backends :
                  inFlight[b] = {w \in Workers : pc[w] # "free" /\ site[w] = b}

\* At most one worker per backend is discovering a pool.
OneDiscoverer ==
    ~aborted => \A v, w \in Workers :
        /\ {pc[v], pc[w]} \subseteq {"acquire", "refresh", "gate", "backoff"}
        /\ site[v] = site[w]
        => v = w

At(s, r) == {i \in DOMAIN s : s[i] = r}

\* Everything that will go on with request r.
Spots(r) ==
    ({"incoming"} \X At(incoming, r)) \cup
    ({"burst"} \X At(burst, r)) \cup
    ({"held"} \X {h \in {held} : h = r}) \cup
    ({"overflow"} \X At(overflow, r)) \cup
    (UNION {{b} \X At(queue[b], r) : b \in Backends}) \cup
    ({"worker"} \X {w \in Workers : work[w] = r /\ pc[w] # "drop"})

\* A request that Submit accepted is in exactly one place until it is settled
\* and nowhere afterwards: never lost, never processed twice, also when it is
\* requeued by a worker that has not ended yet.
OneOwner ==
    \A r \in Requests :
        Cardinality(Spots(r)) = IF client[r] = "accepted" /\ r \notin done THEN 1 ELSE 0

\* No backend queue exceeds its cap, whether routed to or migrated to.
QueueBound == \A b \in Backends : Len(queue[b]) <= QueueMax

\* A request is settled once: it is not answered and discarded, or served and
\* rejected.  (By OneOwner nobody has a settled request, to settle it again likewise.)
SettledOnce ==
    [][\A r \in Requests : outcome[r] # "open" => outcome'[r] = outcome[r]]_vars

\* In the order of t, whoever stays in line keeps everybody behind it, unless
\* they are excused.
KeepsOrder(s, t, Excused) ==
    \A i, j \in DOMAIN s :
        i < j /\ s[i] \in Range(t) /\ s[j] \notin Excused
        => \E k, l \in DOMAIN t : k < l /\ t[k] = s[i] /\ t[l] = s[j]

\* The overflow queue is first come first served: a head that cannot be routed
\* is put back and nobody behind it passes.  Only Stop and AbortAll, which
\* discard everybody in the queue, leave a head that is being routed.
OverflowLine == (IF held = None THEN <<>> ELSE <<held>>) \o overflow
Flushed == stopped' # stopped \/ aborted' # aborted
OverflowFIFO == [][Flushed \/ KeepsOrder(OverflowLine, OverflowLine', {})]_vars

\* A backend queue is first come first served, but for requests that migrate.
QueueFIFO ==
    [][\A b \in Backends : KeepsOrder(queue[b], queue'[b], migrated' \ migrated)]_vars

\* A request moves between backend queues at most once, to a backend with
\* nothing queued and nobody at work.
MigratesToIdle ==
    [][\A r \in Requests, b, c \in Backends :
         b # c /\ r \in Range(queue[b]) /\ r \in Range(queue'[c]) =>
           /\ r \notin migrated
           /\ queue[c] = <<>>
           /\ aborted \/ \A w \in Workers : pc[w] # "free" => site[w] # c]_vars

-----------------------------------------------------------------------------
(* Refinement: under StableSlots the dispatcher implements RequestService *)

SlotIds == UNION {0 .. n - 1 : n \in SlotCounts}

Holds(w, r) == work[w] = r /\ slot[w] # NoSlot

StageOf(r) ==
    IF client[r] \in {"new", "sending"} THEN "new"
    ELSE IF client[r] = "refused" THEN "refused"
    ELSE IF r \in done THEN "settled"
    ELSE IF \E w \in Workers : Holds(w, r) THEN "granted"
    ELSE IF \E w \in Workers : work[w] = r /\ pc[w] = "finish" THEN "answered"
    ELSE "accepted"

HolderOf(b, i) ==
    LET on == {w \in Workers : site[w] = b /\ slot[w] = i}
    IN  IF on = {} THEN None ELSE work[CHOOSE w \in on : TRUE]

Service == INSTANCE RequestService WITH
    Slots <- Backends \X SlotIds,
    stage <- [r \in Requests |-> StageOf(r)],
    holder <- [s \in Backends \X SlotIds |-> HolderOf(s[1], s[2])]

\* The dispatcher keeps the promise of RequestService.
ImplementsService == Service!Spec

\* Every accepted request is settled sooner or later, unless Stop ends the loop
\* first: requeues, migrations, a lost backend and AbortAll leave nobody waiting.
EveryRequestSettles ==
    \A r \in Requests : client[r] = "accepted" ~> r \in done \/ stopped
=============================================================================
