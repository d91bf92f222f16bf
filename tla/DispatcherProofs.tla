--------------------------- MODULE DispatcherProofs ---------------------------
(***************************************************************************)
(* Theorems about Dispatcher.  Three inductive invariants, each proved by  *)
(* one lemma per group of actions:                                         *)
(*                                                                         *)
(*   TypeInv    TypeOK, and what a worker's place says about its request,  *)
(*              backend and slot.                                          *)
(*   StableInv  the slots that are held: in their pool, marked, exclusive. *)
(*              It needs StableSlots.                                      *)
(*   QueueInv   the cap of the queues, with the idle backends that a       *)
(*              migration has listed.                                      *)
(*                                                                         *)
(* NoSlotLeak is inductive by itself, given TypeInv.                       *)
(***************************************************************************)
EXTENDS Dispatcher, SequenceTheorems, WellFoundedInduction, TLAPS

\* What the place of a worker says about it: from dispatch to its end it has a
\* request and a backend; while it looks for a slot, or has given it back, it
\* holds none; and the in-flight lists have only workers at their own backend.
Slotless == {"free", "acquire", "refresh", "gate", "backoff", "finish", "drop"}

WorkerShape ==
    /\ \A w \in Workers :
        /\ pc[w] # "free" => work[w] \in Requests /\ site[w] \in Backends
        /\ pc[w] \in Slotless => slot[w] = NoSlot
    /\ \A b \in Backends : \A w \in inFlight[b] : pc[w] # "free" /\ site[w] = b

TypeInv == TypeOK /\ WorkerShape

LEMMA LowestInSet ==
    ASSUME NEW S \in SUBSET Nat, S # {}
    PROVE  Lowest(S) \in S
<1>1. PICK s \in S : \A t \in S : ~ (<<t, s>> \in OpToRel(<, Nat))
  BY NatLessThanWellFounded, WFMin
<1>2. ASSUME NEW t \in S
      PROVE  s <= t
  <2>1. <<t, s>> \notin {p \in Nat \X Nat : p[1] < p[2]}
    BY <1>1 DEF OpToRel
  <2>2. ~ (t < s)
    BY <2>1
  <2> QED
    BY <2>2
<1>3. \E l \in S : \A t \in S : l <= t
  BY <1>2
<1> QED
  BY <1>3 DEF Lowest

LEMMA FreeSlotsNat ==
    ASSUME NEW b \in Backends, NEW m
    PROVE  FreeSlots(b, m) \in SUBSET Nat
  BY DEF FreeSlots

\* A slot acquired is a free one of the pool.
LEMMA AcquiresFree ==
    ASSUME PoolTypes, WorkerTypes, NEW w \in Workers, NEW b \in Backends, NEW m,
           TryAcquire(w, b, m)
    PROVE  /\ PoolTypes'
           /\ slot' \in [Workers -> Nat \cup {NoSlot}]
           /\ pool' = pool
           /\ \E s \in FreeSlots(b, m) :
                 /\ slot' = [slot EXCEPT ![w] = s]
                 /\ inUse' = [inUse EXCEPT ![b] = @ \cup {s}]
<1> DEFINE s == Lowest(FreeSlots(b, m))
<1>1. s \in FreeSlots(b, m) /\ s \in Nat
  BY LowestInSet, FreeSlotsNat DEF TryAcquire
<1>2. slot' = [slot EXCEPT ![w] = s] /\ inUse' = [inUse EXCEPT ![b] = @ \cup {s}] /\ pool' = pool
  BY DEF TryAcquire
<1> HIDE DEF s
<1> QED
  BY <1>1, <1>2 DEF PoolTypes, WorkerTypes

LEMMA GivesBack ==
    ASSUME PoolTypes, WorkerTypes, NEW w \in Workers, GiveBack(w) \/ Release(w)
    PROVE  /\ PoolTypes'
           /\ slot' = [slot EXCEPT ![w] = NoSlot]
           /\ pool' = pool
           /\ \/ inUse' = [inUse EXCEPT ![site[w]] = @ \ {slot[w]}]
              \/ slot[w] = NoSlot /\ inUse' = inUse
<1>1. CASE Release(w)
  BY <1>1 DEF Release, WorkerTypes, PoolTypes
<1>2. CASE slot[w] = NoSlot /\ UNCHANGED <<slot, poolVars>>
  BY <1>2 DEF WorkerTypes, PoolTypes, poolVars
<1> QED
  BY <1>1, <1>2 DEF GiveBack

LEMMA SettleType ==
    ASSUME ClientTypes, NEW R \in SUBSET Requests, NEW how \in Outcomes, Settle(R, how)
    PROVE  ClientTypes'
  BY DEF Settle, ClientTypes

LEMMA EnsurePoolsType ==
    ASSUME PoolTypes, NEW answered, NEW counts \in [answered -> SlotCounts], EnsurePools(counts)
    PROVE  PoolTypes'
<1>1. \A h \in answered : counts[h] \in Nat
  BY DispatcherAssumption
<1>2. pool' \in [Backends -> [Models -> Nat]]
  BY <1>1 DEF EnsurePools, PoolTypes
<1>3. inUse' \in [Backends -> SUBSET Nat]
  BY DEF EnsurePools, PoolTypes
<1> QED
  BY <1>2, <1>3 DEF PoolTypes

LEMMA RemoveIndexType ==
    ASSUME NEW S, NEW s \in Seq(S), NEW i \in 1 .. Len(s)
    PROVE  RemoveIndex(s, i) \in Seq(S)
<1>1. SubSeq(s, 1, i - 1) \in Seq(S)
  BY SubSeqProperties, ElementOfSeq, LenProperties
<1>2. SubSeq(s, i + 1, Len(s)) \in Seq(S)
  BY SubSeqProperties, ElementOfSeq, LenProperties
<1> QED
  BY <1>1, <1>2, ConcatProperties DEF RemoveIndex

LEMMA ParkedRequests ==
    ASSUME QueueTypes
    PROVE  Parked \in SUBSET Requests
<1>1. Range(overflow) \in SUBSET Requests
  BY RangeOfSeq DEF QueueTypes
<1>2. \A b \in Backends : Range(queue[b]) \in SUBSET Requests
  BY RangeOfSeq DEF QueueTypes
<1> QED
  BY <1>1, <1>2 DEF Parked

LEMMA TypeInit == Init => TypeInv
<1> SUFFICES ASSUME Init PROVE TypeInv
  OBVIOUS
<1>1. ClientTypes
  BY DEF Init, ClientTypes, ClientStates, Outcomes
<1>2. LoopTypes
  BY DEF Init, LoopTypes, Phases
<1>3. QueueTypes
  BY DEF Init, QueueTypes
<1>4. WorkerTypes
  BY DEF Init, WorkerTypes, WorkerStates
<1>5. PoolTypes
  BY DEF Init, PoolTypes
<1>6. EnvTypes
  <2>1. changes \in 0 .. MaxChanges
    BY DispatcherAssumption DEF Init
  <2>2. stopped \in BOOLEAN /\ aborted \in BOOLEAN
    BY DEF Init
  <2>3. registry \subseteq Hosts /\ up \subseteq Backends
    BY DEF Init
  <2> QED
    BY <2>1, <2>2, <2>3 DEF EnvTypes
<1>7. WorkerShape
  BY DEF Init, WorkerShape
<1> QED
  BY <1>1, <1>2, <1>3, <1>4, <1>5, <1>6, <1>7 DEF TypeInv, TypeOK

-----------------------------------------------------------------------------
(* A step leaves a part of TypeInv alone when it leaves its variables alone. *)

LEMMA Untouched ==
    /\ ClientTypes /\ UNCHANGED clientVars => ClientTypes'
    /\ LoopTypes /\ UNCHANGED <<incoming, loopVars>> => LoopTypes'
    /\ QueueTypes /\ UNCHANGED queueVars => QueueTypes'
    /\ WorkerTypes /\ WorkerShape /\ UNCHANGED workerVars => WorkerTypes' /\ WorkerShape'
    /\ PoolTypes /\ UNCHANGED poolVars => PoolTypes'
    /\ EnvTypes /\ UNCHANGED envVars => EnvTypes'
<1>1. ClientTypes /\ UNCHANGED clientVars => ClientTypes'
  BY DEF ClientTypes, clientVars
<1>2. LoopTypes /\ UNCHANGED <<incoming, loopVars>> => LoopTypes'
  BY DEF LoopTypes, loopVars
<1>3. QueueTypes /\ UNCHANGED queueVars => QueueTypes'
  BY DEF QueueTypes, queueVars
<1>4. WorkerTypes /\ WorkerShape /\ UNCHANGED workerVars => WorkerTypes' /\ WorkerShape'
  BY DEF WorkerTypes, WorkerShape, workerVars
<1>5. PoolTypes /\ UNCHANGED poolVars => PoolTypes'
  BY DEF PoolTypes, poolVars
<1>6. EnvTypes /\ UNCHANGED envVars => EnvTypes'
  BY DEF EnvTypes, envVars
<1> QED
  BY <1>1, <1>2, <1>3, <1>4, <1>5, <1>6

LEMMA TypeHandlers ==
    ASSUME TypeInv,
           \E r \in Requests : SubmitCheck(r) \/ SubmitSend(r) \/ Disconnect(r)
    PROVE  TypeInv'
<1> PICK r \in Requests : SubmitCheck(r) \/ SubmitSend(r) \/ Disconnect(r)
  OBVIOUS
<1>1. ClientTypes'
  BY DEF TypeInv, TypeOK, ClientTypes, SubmitCheck, SubmitSend, Disconnect, ClientStates
<1>2. LoopTypes'
  BY AppendProperties DEF TypeInv, TypeOK, LoopTypes, SubmitCheck, SubmitSend, Disconnect, loopVars
<1>3. UNCHANGED <<queueVars, workerVars, poolVars, envVars>>
  BY DEF SubmitCheck, SubmitSend, Disconnect
<1> QED
  BY <1>1, <1>2, <1>3, Untouched DEF TypeInv, TypeOK

LEMMA TypeLoop ==
    ASSUME TypeInv, Wake \/ Exit \/ BurstHandled \/ PopOverflow \/ BeginMigration
                    \/ EndMigration \/ \E b \in Backends : PumpNext(b)
    PROVE  TypeInv'
<1>1. LoopTypes'
  <2> USE DEF TypeInv, TypeOK, LoopTypes, QueueTypes, EnvTypes, Phases
  <2>1. CASE Wake
    BY <2>1 DEF Wake
  <2>5. CASE Exit
    BY <2>5 DEF Exit
  <2>6. CASE BurstHandled
    BY <2>6 DEF BurstHandled
  <2>7. CASE EndMigration
    BY <2>7 DEF EndMigration
  <2>2. CASE PopOverflow
    BY <2>2, HeadTailProperties DEF PopOverflow
  <2>3. CASE BeginMigration
    BY <2>3 DEF BeginMigration, IdleBackends
  <2>4. CASE \E b \in Backends : PumpNext(b)
    BY <2>4 DEF PumpNext
  <2> QED
    BY <2>1, <2>2, <2>3, <2>4, <2>5, <2>6, <2>7
<1>2. QueueTypes'
  BY HeadTailProperties DEF TypeInv, TypeOK, QueueTypes, queueVars, Wake, Exit, BurstHandled,
     PopOverflow, BeginMigration, EndMigration, PumpNext
<1>3. UNCHANGED <<clientVars, workerVars, poolVars, envVars>>
  BY DEF Wake, Exit, BurstHandled, PopOverflow, BeginMigration, EndMigration, PumpNext
<1> QED
  BY <1>1, <1>2, <1>3, Untouched DEF TypeInv, TypeOK

LEMMA RegistriesSeenType ==
    ASSUME EnvTypes, NEW r
    PROVE  RegistriesSeen(r) \subseteq SUBSET Hosts
<1>1. Discoveries \subseteq SUBSET Hosts
  BY DEF Discoveries, EnvTypes
<1> QED
  BY <1>1 DEF RegistriesSeen, EnvTypes

\* The routing rule chooses among the candidates it is given.
LEMMA RoutableAreCandidates ==
    ASSUME NEW C, NEW hit, NEW depth
    PROVE  Routable(C, hit, depth) \subseteq C
<1>1. \A D : OnBackend(D, BackendOf(hit)) \subseteq D /\ HasRoom(D, depth) \subseteq D
             /\ LeastLoaded(D, depth) \subseteq D
  BY DEF OnBackend, HasRoom, LeastLoaded
<1> DEFINE onHit == IF hit = NoHit THEN {} ELSE OnBackend(C, BackendOf(hit))
           others == HasRoom(C \ onHit, depth)
<1>2. onHit \subseteq C /\ others \subseteq C
  BY <1>1
<1>3. LeastLoaded(others, depth) \subseteq C /\ LeastLoaded(HasRoom(C, depth), depth) \subseteq C
  BY <1>1, <1>2
<1> QED
  BY <1>2, <1>3 DEF Routable

LEMMA RoutedPair ==
    ASSUME EnvTypes, NEW r, NEW reg \in RegistriesSeen(r), NEW hit,
           NEW c \in Routable(Live(Candidates(r, reg)), hit, Depth)
    PROVE  BackendOf(c) \in Backends /\ ModelOf(c) \in Models
<1>1. c \in Hosts
  BY RoutableAreCandidates, RegistriesSeenType DEF Live, Candidates
<1> QED
  BY <1>1, DispatcherAssumption DEF BackendOf, ModelOf

\* The three outcomes of match, for a request that arrives or waits in overflow.
LEMMA MatchTypes ==
    ASSUME TypeInv, NEW r \in Requests
    PROVE  /\ MatchRejects(r) => ClientTypes' /\ registry' \subseteq Hosts
           /\ MatchEnqueues(r) => /\ registry' \subseteq Hosts
                                 /\ queue' \in [Backends -> Seq(Requests)]
                                 /\ model' \in [Requests -> Models \cup {None}]
           /\ MatchParks(r) => /\ registry' \subseteq Hosts
                              /\ up' \subseteq Backends /\ changes' \in 0 .. MaxChanges
                              /\ model' \in [Requests -> Models \cup {None}]
<1>1. ASSUME MatchRejects(r)
      PROVE  ClientTypes' /\ registry' \subseteq Hosts
  <2>1. "rejected" \in Outcomes
    BY DEF Outcomes
  <2>2. ClientTypes'
    BY <1>1, <2>1, SettleType DEF MatchRejects, TypeInv, TypeOK
  <2> QED
    BY <1>1, <2>2, RegistriesSeenType DEF MatchRejects, TypeInv, TypeOK
<1>2. ASSUME MatchEnqueues(r)
      PROVE  /\ registry' \subseteq Hosts
             /\ queue' \in [Backends -> Seq(Requests)]
             /\ model' \in [Requests -> Models \cup {None}]
  <2>0. PICK reg \in RegistriesSeen(r) : \E hit \in Candidates(r, reg) \cup {NoHit} :
             \E c \in Routable(Live(Candidates(r, reg)), hit, Depth) :
                /\ registry' = reg
                /\ queue' = [queue EXCEPT ![BackendOf(c)] = Append(@, r)]
                /\ model' = [model EXCEPT ![r] = ModelOf(c)]
    BY <1>2 DEF MatchEnqueues
  <2>1. PICK hit \in Candidates(r, reg) \cup {NoHit} :
             \E c \in Routable(Live(Candidates(r, reg)), hit, Depth) :
                /\ registry' = reg
                /\ queue' = [queue EXCEPT ![BackendOf(c)] = Append(@, r)]
                /\ model' = [model EXCEPT ![r] = ModelOf(c)]
    BY <2>0
  <2>5. PICK c \in Routable(Live(Candidates(r, reg)), hit, Depth) :
                /\ registry' = reg
                /\ queue' = [queue EXCEPT ![BackendOf(c)] = Append(@, r)]
                /\ model' = [model EXCEPT ![r] = ModelOf(c)]
    BY <2>1
  <2>2. BackendOf(c) \in Backends /\ ModelOf(c) \in Models
    BY RoutedPair DEF TypeInv, TypeOK
  <2>3. registry' \subseteq Hosts
    BY <2>5, RegistriesSeenType DEF TypeInv, TypeOK
  <2>4. queue' \in [Backends -> Seq(Requests)]
    BY <2>5, <2>2, AppendProperties DEF TypeInv, TypeOK, QueueTypes
  <2> QED
    BY <2>5, <2>2, <2>3, <2>4 DEF TypeInv, TypeOK, QueueTypes
<1>3. ASSUME MatchParks(r)
      PROVE  /\ registry' \subseteq Hosts
             /\ up' \subseteq Backends /\ changes' \in 0 .. MaxChanges
             /\ model' \in [Requests -> Models \cup {None}]
  <2>1. PICK reg \in RegistriesSeen(r) :
             /\ \/ UNCHANGED <<up, changes>>
                \/ /\ changes < MaxChanges
                   /\ \E b \in up : up' = up \ {b}
                   /\ changes' = changes + 1
             /\ registry' = reg
             /\ model' = [model EXCEPT ![r] = None]
    BY <1>3 DEF MatchParks
  <2>2. up' \subseteq Backends /\ changes' \in 0 .. MaxChanges
    BY <2>1, DispatcherAssumption DEF TypeInv, TypeOK, EnvTypes
  <2> QED
    BY <2>1, <2>2, RegistriesSeenType DEF TypeInv, TypeOK, QueueTypes
<1> QED
  BY <1>1, <1>2, <1>3

LEMMA DiscardType ==
    ASSUME ClientTypes, NEW R \in SUBSET Requests, Discard(R)
    PROVE  ClientTypes'
  BY SettleType DEF Discard, Outcomes

LEMMA TypeArrive ==
    ASSUME TypeInv, Arrive
    PROVE  TypeInv'
<1> DEFINE r == Head(burst)
<1>1. r \in Requests /\ Tail(burst) \in Seq(Requests)
  BY HeadTailProperties DEF Arrive, TypeInv, TypeOK, LoopTypes
<1>2. LoopTypes'
  BY <1>1 DEF Arrive, TypeInv, TypeOK, LoopTypes
<1>3. UNCHANGED <<workerVars, poolVars, stopped, aborted>>
  BY DEF Arrive
<1> HIDE DEF r
<1>4. /\ ClientTypes' /\ QueueTypes'
      /\ registry' \subseteq Hosts /\ up' \subseteq Backends /\ changes' \in 0 .. MaxChanges
  <2>1. CASE Discard({r}) /\ UNCHANGED <<queueVars, registry, up, changes>>
    BY <2>1, <1>1, DiscardType DEF TypeInv, TypeOK, QueueTypes, queueVars, EnvTypes
  <2>2. CASE MatchRejects(r) /\ UNCHANGED <<queueVars, up, changes>>
    BY <2>2, <1>1, MatchTypes DEF TypeInv, TypeOK, QueueTypes, queueVars, EnvTypes
  <2>3. CASE /\ MatchEnqueues(r)
             /\ UNCHANGED <<clientVars, overflow, migrated, up, changes>>
    BY <2>3, <1>1, MatchTypes, Untouched DEF TypeInv, TypeOK, QueueTypes, EnvTypes
  <2>4. CASE /\ MatchParks(r)
             /\ overflow' = Append(overflow, r)
             /\ UNCHANGED <<clientVars, queue, migrated>>
    BY <2>4, <1>1, MatchTypes, Untouched, AppendProperties DEF TypeInv, TypeOK, QueueTypes, EnvTypes
  <2> QED
    BY <2>1, <2>2, <2>3, <2>4 DEF Arrive, r
<1>5. EnvTypes'
  BY <1>3, <1>4 DEF TypeInv, TypeOK, EnvTypes
<1> QED
  BY <1>2, <1>3, <1>4, <1>5, Untouched DEF TypeInv, TypeOK

LEMMA TypeRouteHeld ==
    ASSUME TypeInv, RouteHeld
    PROVE  TypeInv'
<1>1. held \in Requests
  BY DEF RouteHeld, TypeInv, TypeOK, LoopTypes
<1>2. LoopTypes'
  BY DEF RouteHeld, TypeInv, TypeOK, LoopTypes, Phases
<1>3. UNCHANGED <<workerVars, poolVars, stopped, aborted>>
  BY DEF RouteHeld
<1>4. /\ ClientTypes' /\ QueueTypes'
      /\ registry' \subseteq Hosts /\ up' \subseteq Backends /\ changes' \in 0 .. MaxChanges
  <2>1. CASE Discard({held}) /\ UNCHANGED <<queueVars, registry, up, changes>>
    BY <2>1, <1>1, DiscardType DEF TypeInv, TypeOK, QueueTypes, queueVars, EnvTypes
  <2>2. CASE MatchRejects(held) /\ UNCHANGED <<queueVars, up, changes>>
    BY <2>2, <1>1, MatchTypes DEF TypeInv, TypeOK, QueueTypes, queueVars, EnvTypes
  <2>3. CASE /\ MatchEnqueues(held)
             /\ UNCHANGED <<clientVars, overflow, migrated, up, changes>>
    BY <2>3, <1>1, MatchTypes, Untouched DEF TypeInv, TypeOK, QueueTypes, EnvTypes
  <2>4. CASE MatchParks(held) /\ PutBack(held) /\ UNCHANGED <<clientVars, queue, migrated>>
    <3>1. overflow' \in Seq(Requests)
      BY <2>4, <1>1, ConcatProperties DEF PutBack, TypeInv, TypeOK, QueueTypes
    <3> QED
      BY <2>4, <3>1, <1>1, MatchTypes, Untouched DEF TypeInv, TypeOK, QueueTypes, EnvTypes
  <2> QED
    BY <2>1, <2>2, <2>3, <2>4 DEF RouteHeld
<1>5. EnvTypes'
  BY <1>3, <1>4 DEF TypeInv, TypeOK, EnvTypes
<1> QED
  BY <1>2, <1>3, <1>4, <1>5, Untouched DEF TypeInv, TypeOK

LEMMA TypeMigrate ==
    ASSUME TypeInv, NEW src \in Backends, NEW target \in Backends,
           NEW i \in 1 .. Len(queue[src]), Migrate(src, i, target)
    PROVE  TypeInv'
<1>1. queue[src][i] \in Requests
  BY ElementOfSeq DEF TypeInv, TypeOK, QueueTypes
<1>2. RemoveIndex(queue[src], i) \in Seq(Requests)
  BY RemoveIndexType DEF TypeInv, TypeOK, QueueTypes
<1>3. queue' \in [Backends -> Seq(Requests)]
  BY <1>1, <1>2, AppendProperties DEF Migrate, TypeInv, TypeOK, QueueTypes
<1>4. QueueTypes'
  BY <1>1, <1>3 DEF Migrate, TypeInv, TypeOK, QueueTypes
<1>5. LoopTypes'
  BY DEF Migrate, TypeInv, TypeOK, LoopTypes
<1>6. UNCHANGED <<clientVars, workerVars, poolVars, envVars>>
  BY DEF Migrate
<1> QED
  BY <1>4, <1>5, <1>6, Untouched DEF TypeInv, TypeOK

-----------------------------------------------------------------------------
(* Dispatching: the pump, and the workers *)

LEMMA TypePumpTake ==
    ASSUME TypeInv, NEW b \in Backends, NEW w \in Workers, PumpTake(b, w)
    PROVE  TypeInv'
<1>1. Head(queue[b]) \in Requests /\ Tail(queue[b]) \in Seq(Requests)
  BY HeadTailProperties DEF PumpTake, Dispatchable, TypeInv, TypeOK, QueueTypes
<1>2. QueueTypes'
  BY <1>1 DEF PumpTake, TypeInv, TypeOK, QueueTypes
<1>3. /\ PoolTypes' /\ slot' \in [Workers -> Nat \cup {NoSlot}]
      /\ \A v \in Workers : v # w => slot'[v] = slot[v]
  <2>1. CASE TryAcquire(w, b, model[Head(queue[b])])
    BY <2>1, AcquiresFree DEF TypeInv, TypeOK, WorkerTypes
  <2>2. CASE UNCHANGED <<slot, poolVars>>
    BY <2>2, Untouched DEF TypeInv, TypeOK, WorkerTypes
  <2> QED
    BY <2>1, <2>2 DEF PumpTake
<1>4. WorkerTypes'
  BY <1>1, <1>3 DEF PumpTake, TypeInv, TypeOK, WorkerTypes, WorkerStates
<1>5. WorkerShape'
  BY <1>1, <1>3 DEF PumpTake, TypeInv, TypeOK, WorkerTypes, WorkerShape, Slotless
<1>6. LoopTypes' /\ ClientTypes' /\ EnvTypes'
  BY Untouched DEF PumpTake, TypeInv, TypeOK
<1> QED
  BY <1>2, <1>3, <1>4, <1>5, <1>6 DEF TypeInv, TypeOK

\* A worker that ends without a slot leaves nothing behind.
LEMMA WorkerEnds ==
    ASSUME TypeInv, NEW w \in Workers, pc[w] # "free", DropInFlight(w), Retire(w),
           slot' = [slot EXCEPT ![w] = NoSlot]
    PROVE  WorkerTypes' /\ WorkerShape'
<1> USE DEF TypeInv, TypeOK, WorkerTypes, WorkerShape
<1>1. site[w] \in Backends
  OBVIOUS
<1>2. WorkerTypes'
  BY <1>1 DEF DropInFlight, Retire, WorkerStates
<1>3. ASSUME NEW v \in Workers
      PROVE  /\ pc'[v] # "free" => work'[v] \in Requests /\ site'[v] \in Backends
             /\ pc'[v] \in Slotless => slot'[v] = NoSlot
  BY DEF Retire, Slotless
<1>4. ASSUME NEW b \in Backends, NEW v \in inFlight'[b]
      PROVE  pc'[v] # "free" /\ site'[v] = b
  <2>1. v \in inFlight[b] /\ v \in Workers
    BY <1>1, <1>2 DEF DropInFlight
  <2>2. v # w
    BY <2>1, <1>1, <1>4 DEF DropInFlight
  <2> QED
    BY <2>1, <2>2 DEF Retire
<1> QED
  BY <1>2, <1>3, <1>4

LEMMA TypeHandOff ==
    ASSUME TypeInv, NEW w \in Workers, HandOff(w)
    PROVE  TypeInv'
<1>1. work[w] \in Requests /\ site[w] \in Backends
  BY DEF HandOff, TypeInv, WorkerShape
<1>2. QueueTypes' /\ LoopTypes' /\ EnvTypes'
  BY Untouched DEF HandOff, TypeInv, TypeOK
<1>3. CASE work[w] \in dead
  <2>1. GiveBack(w) /\ DropInFlight(w) /\ Discard({work[w]}) /\ Retire(w)
    BY <1>3 DEF HandOff
  <2>2. PoolTypes' /\ slot' = [slot EXCEPT ![w] = NoSlot]
    BY <2>1, GivesBack DEF TypeInv, TypeOK
  <2>3. ClientTypes'
    BY <2>1, <1>1, DiscardType DEF TypeInv, TypeOK
  <2>4. WorkerTypes' /\ WorkerShape'
    BY <2>1, <2>2, WorkerEnds DEF HandOff
  <2> QED
    BY <1>2, <2>2, <2>3, <2>4 DEF TypeInv, TypeOK
<1>4. CASE work[w] \notin dead
  <2>1. pc' = [pc EXCEPT ![w] = "start"] /\ pc[w] = "handoff"
        /\ UNCHANGED <<clientVars, work, site, slot, inFlight, poolVars>>
    BY <1>4 DEF HandOff
  <2>2. WorkerTypes' /\ WorkerShape'
    BY <2>1 DEF TypeInv, TypeOK, WorkerTypes, WorkerShape, WorkerStates, Slotless
  <2> QED
    BY <1>2, <2>1, <2>2, Untouched DEF TypeInv, TypeOK
<1> QED
  BY <1>3, <1>4

\* A worker that moves on, keeps its request and backend, and holds no slot
\* where it should not, is well-formed.
LEMMA WorkerMoves ==
    ASSUME TypeInv, NEW w \in Workers, NEW l \in WorkerStates \ {"free"},
           pc[w] # "free", pc' = [pc EXCEPT ![w] = l], UNCHANGED <<inFlight, work, site>>,
           slot' \in [Workers -> Nat \cup {NoSlot}],
           \A v \in Workers : v # w => slot'[v] = slot[v],
           l \in Slotless => slot'[w] = NoSlot
    PROVE  WorkerTypes' /\ WorkerShape'
<1>1. WorkerTypes'
  BY DEF TypeInv, TypeOK, WorkerTypes
<1>2. WorkerShape'
  BY DEF TypeInv, TypeOK, WorkerTypes, WorkerShape
<1> QED
  BY <1>1, <1>2

LEMMA TypeWorker ==
    ASSUME TypeInv, NEW w \in Workers, WorkerStep(w)
    PROVE  TypeInv'
<1> USE DEF TypeInv, TypeOK
<1> DEFINE Kept == UNCHANGED <<inFlight, work, site>>
<1>a. pc[w] # "free"
  BY DEF WorkerStep, PromptTooLong, Begin, Acquire, Refresh, Gate, Requeue, Retry, Backoff,
     Serve, Finish, WorkerFinished
<1>b. work[w] \in Requests /\ site[w] \in Backends
  BY <1>a DEF WorkerShape
<1>c. WorkerOnly => QueueTypes' /\ LoopTypes' /\ EnvTypes'
  BY Untouched DEF WorkerOnly
<1>d. slot \in [Workers -> Nat \cup {NoSlot}]
  BY DEF WorkerTypes
<1>e. \A l \in {"start", "acquire", "refresh", "gate", "backoff", "serve", "finish", "drop"} :
        l \in WorkerStates \ {"free"}
  BY DEF WorkerStates
<1>f. ASSUME NEW how \in Outcomes, GiveUp(w, how), slot[w] = NoSlot
      PROVE  ClientTypes' /\ PoolTypes' /\ WorkerTypes' /\ WorkerShape'
  <2>1. ClientTypes'
    BY <1>f, <1>b, SettleType DEF GiveUp
  <2>2. WorkerTypes' /\ WorkerShape'
    BY <1>f, <1>a, <1>d, <1>e, WorkerMoves DEF GiveUp, Goto
  <2>3. PoolTypes'
    BY <1>f, Untouched DEF GiveUp
  <2> QED
    BY <2>1, <2>2, <2>3
<1>g. "discarded" \in Outcomes
  BY DEF Outcomes
<1>1. CASE PromptTooLong(w)
  <2>1. PoolTypes' /\ slot' = [slot EXCEPT ![w] = NoSlot]
    BY <1>1, GivesBack DEF PromptTooLong
  <2>2. WorkerTypes' /\ WorkerShape'
    BY <1>1, <2>1, <1>a, <1>d, <1>e, WorkerMoves DEF PromptTooLong, Goto
  <2>3. ClientTypes'
    BY <1>1, <1>b DEF PromptTooLong, ClientTypes, Outcomes
  <2> QED
    BY <1>1, <2>1, <2>2, <2>3, <1>c DEF PromptTooLong
<1>2. CASE Begin(w)
  <2>1. WorkerTypes' /\ WorkerShape'
    BY <1>2, <1>a, <1>d, <1>e, WorkerMoves DEF Begin, Goto, Slotless
  <2> QED
    BY <1>2, <2>1, <1>c, Untouched DEF Begin
<1>3. CASE Acquire(w)
  <2>1. slot[w] = NoSlot
    BY <1>3 DEF Acquire, WorkerShape, Slotless
  <2>2. ClientTypes' /\ PoolTypes' /\ WorkerTypes' /\ WorkerShape'
    <3>1. CASE /\ TryAcquire(w, site[w], model[work[w]])
               /\ Goto(w, "serve")
               /\ UNCHANGED <<clientVars, inFlight, work, site>>
      <4>1. PoolTypes' /\ slot' \in [Workers -> Nat \cup {NoSlot}]
            /\ \A v \in Workers : v # w => slot'[v] = slot[v]
        BY <3>1, <1>b, <1>d, AcquiresFree
      <4>2. WorkerTypes' /\ WorkerShape'
        BY <3>1, <4>1, <1>a, <1>e, WorkerMoves DEF Goto, Slotless
      <4> QED
        BY <3>1, <4>1, <4>2, Untouched
    <3>2. CASE GiveUp(w, "discarded")
      BY <3>2, <2>1, <1>f, <1>g
    <3>3. CASE /\ Goto(w, IF PoolSize(site[w], model[work[w]]) = 0 THEN "refresh" ELSE "backoff")
               /\ UNCHANGED <<clientVars, inFlight, work, site, slot, poolVars>>
      <4>1. WorkerTypes' /\ WorkerShape'
        BY <3>3, <2>1, <1>a, <1>d, <1>e, WorkerMoves DEF Goto
      <4> QED
        BY <3>3, <4>1, Untouched
    <3> QED
      BY <1>3, <3>1, <3>2, <3>3 DEF Acquire
  <2> QED
    BY <1>3, <2>2, <1>c DEF Acquire
<1>4. CASE Refresh(w)
  <2>1. PoolTypes'
    BY <1>4, EnsurePoolsType DEF Refresh
  <2>2. WorkerTypes' /\ WorkerShape'
    BY <1>4, <1>a, <1>d, <1>e, WorkerMoves DEF Refresh, Goto, WorkerShape, Slotless
  <2> QED
    BY <1>4, <2>1, <2>2, <1>c, Untouched DEF Refresh
<1>5. CASE Gate(w)
  <2>1. slot[w] = NoSlot
    BY <1>5 DEF Gate, WorkerShape, Slotless
  <2> QED
    BY <1>5, <2>1, <1>c, <1>f, <1>g DEF Gate
<1>6. CASE Requeue(w)
  <2>1. WorkerTypes' /\ WorkerShape'
    BY <1>6, <1>a, <1>d, <1>e, WorkerMoves DEF Requeue, Goto, WorkerShape, Slotless
  <2>2. QueueTypes'
    BY <1>6, <1>b, AppendProperties DEF Requeue, QueueTypes
  <2> QED
    BY <1>6, <2>1, <2>2, Untouched DEF Requeue
<1>7. CASE Retry(w)
  <2>1. slot[w] = NoSlot
    BY <1>7 DEF Retry, WorkerShape, Slotless
  <2>2. PoolTypes' /\ WorkerTypes' /\ WorkerShape'
    <3>1. CASE TryAcquire(w, site[w], model[work[w]]) /\ Goto(w, "serve")
      <4>1. PoolTypes' /\ slot' \in [Workers -> Nat \cup {NoSlot}]
            /\ \A v \in Workers : v # w => slot'[v] = slot[v]
        BY <3>1, <1>b, <1>d, AcquiresFree
      <4> QED
        BY <1>7, <3>1, <4>1, <1>a, <1>e, WorkerMoves DEF Retry, Goto, Slotless
    <3>2. CASE Goto(w, "backoff") /\ UNCHANGED <<slot, poolVars>>
      <4>1. WorkerTypes' /\ WorkerShape'
        BY <1>7, <3>2, <2>1, <1>a, <1>d, <1>e, WorkerMoves DEF Retry, Goto
      <4> QED
        BY <3>2, <4>1, Untouched
    <3> QED
      BY <1>7, <3>1, <3>2 DEF Retry
  <2> QED
    BY <1>7, <2>2, <1>c, Untouched DEF Retry
<1>8. CASE Backoff(w)
  <2>1. slot[w] = NoSlot
    BY <1>8 DEF Backoff, WorkerShape, Slotless
  <2>2. CASE GiveUp(w, "discarded")
    BY <1>8, <2>1, <2>2, <1>c, <1>f, <1>g DEF Backoff
  <2>3. CASE Goto(w, "acquire") /\ UNCHANGED <<clientVars, inFlight, work, site, slot, poolVars>>
    <3>1. WorkerTypes' /\ WorkerShape'
      BY <2>1, <2>3, <1>a, <1>d, <1>e, WorkerMoves DEF Goto
    <3> QED
      BY <1>8, <2>3, <3>1, <1>c, Untouched DEF Backoff
  <2> QED
    BY <1>8, <2>2, <2>3 DEF Backoff
<1>9. CASE Serve(w)
  <2>1. PoolTypes' /\ slot' = [slot EXCEPT ![w] = NoSlot]
    BY <1>9, GivesBack DEF Serve
  <2>2. WorkerTypes' /\ WorkerShape'
    BY <1>9, <2>1, <1>a, <1>d, <1>e, WorkerMoves DEF Serve, Goto
  <2>3. ClientTypes'
    BY <1>9, <1>b DEF Serve, ClientTypes, Outcomes
  <2> QED
    BY <1>9, <2>1, <2>2, <2>3, <1>c DEF Serve
<1>10. CASE Finish(w)
  <2>1. WorkerTypes' /\ WorkerShape'
    BY <1>10, <1>a, <1>d, <1>e, WorkerMoves DEF Finish, Goto, WorkerShape, Slotless
  <2>2. ClientTypes'
    BY <1>10, <1>b DEF Finish, ClientTypes
  <2> QED
    BY <1>10, <2>1, <2>2, <1>c, Untouched DEF Finish
<1>11. CASE WorkerFinished(w)
  <2>1. slot' = [slot EXCEPT ![w] = NoSlot]
    BY <1>11 DEF WorkerFinished, WorkerTypes, WorkerShape, Slotless
  <2>2. WorkerTypes' /\ WorkerShape'
    BY <1>11, <1>a, <2>1, WorkerEnds DEF WorkerFinished
  <2> QED
    BY <1>11, <2>2, <1>c, Untouched DEF WorkerFinished
<1> QED
  BY <1>1, <1>2, <1>3, <1>4, <1>5, <1>6, <1>7, <1>8, <1>9, <1>10, <1>11 DEF WorkerStep

LEMMA TypeEnvironment ==
    ASSUME TypeInv, (\E b \in Backends : HealthCheck(b)) \/ Rediscover \/ Stop \/ AbortAll
    PROVE  TypeInv'
<1> USE DEF TypeInv, TypeOK
<1>1. ASSUME NEW b \in Backends, HealthCheck(b)
      PROVE  TypeInv'
  <2>1. EnvTypes'
    BY <1>1, DispatcherAssumption DEF HealthCheck, EnvTypes
  <2> QED
    BY <1>1, <2>1, Untouched DEF HealthCheck
<1>2. CASE Rediscover
  <2>1. registry' \subseteq Hosts
    BY <1>2 DEF Rediscover, Discoveries, EnvTypes
  <2>2. EnvTypes'
    BY <1>2, <2>1, DispatcherAssumption DEF Rediscover, EnvTypes
  <2> QED
    BY <1>2, <2>2, Untouched DEF Rediscover
<1>3. \A b \in Backends : <<>> \in Seq(Requests)
  OBVIOUS
<1>4. CASE Stop
  <2>1. ClientTypes'
    BY <1>4, ParkedRequests, DiscardType DEF Stop, DiscardParked
  <2>2. QueueTypes'
    BY <1>4, <1>3 DEF Stop, DiscardParked, QueueTypes
  <2>3. EnvTypes'
    BY <1>4 DEF Stop, EnvTypes
  <2> QED
    BY <1>4, <2>1, <2>2, <2>3, Untouched DEF Stop
<1>5. CASE AbortAll
  <2>1. Parked \in SUBSET Requests
    BY ParkedRequests
  <2>2. {work[w] : w \in UNION {inFlight[b] : b \in Backends}} \subseteq Requests
    BY DEF WorkerTypes, WorkerShape
  <2>3. dead' \subseteq Requests
    BY <1>5, <2>1, <2>2 DEF AbortAll, ClientTypes
  <2>4. QueueTypes'
    BY <1>5, <1>3 DEF AbortAll, QueueTypes
  <2>5. EnvTypes'
    BY <1>5 DEF AbortAll, EnvTypes
  <2>6. WorkerTypes' /\ WorkerShape'
    BY <1>5 DEF AbortAll, WorkerTypes, WorkerShape
  <2>7. ClientTypes'
    BY <1>5, <2>1, <2>3 DEF AbortAll, ClientTypes, Outcomes
  <2> QED
    BY <1>5, <2>4, <2>5, <2>6, <2>7, Untouched DEF AbortAll
<1> QED
  BY <1>1, <1>2, <1>4, <1>5

LEMMA TypeStep == TypeInv /\ [Next]_vars => TypeInv'
<1> SUFFICES ASSUME TypeInv, [Next]_vars PROVE TypeInv'
  OBVIOUS
<1>1. CASE DispatcherStep
  BY <1>1, TypeLoop, TypeArrive, TypeRouteHeld, TypeMigrate, TypePumpTake, TypeHandOff
     DEF DispatcherStep
<1>2. CASE Environment
  BY <1>2, TypeHandlers, TypeEnvironment DEF Environment
<1>3. CASE \E w \in Workers : WorkerStep(w)
  BY <1>3, TypeWorker
<1>4. CASE UNCHANGED vars
  <2>1. UNCHANGED <<clientVars, incoming, loopVars, queueVars, workerVars, poolVars, envVars>>
    BY <1>4 DEF vars
  <2> QED
    BY <2>1, Untouched DEF TypeInv, TypeOK
<1> QED
  BY <1>1, <1>2, <1>3, <1>4 DEF Next

LEMMA TypeInvariant == Spec => []TypeInv
<1> QED
  BY TypeInit, TypeStep, PTL DEF Spec

\* Every variable keeps its type: a worker never holds the -1 of a failed
\* TryAcquire, and no request is ever settled on behalf of nobody.
THEOREM TypeCorrect == Spec => []TypeOK
<1>1. TypeInv => TypeOK
  BY DEF TypeInv
<1> QED
  BY <1>1, TypeInvariant, PTL

-----------------------------------------------------------------------------
(* What a step does to the slots: it takes one for a worker, gives one back, *)
(* moves a worker that has none, or reports pool sizes; or it does nothing.  *)

SlotVars == <<slot, site, inUse, pool>>

Takes(w, b) ==
    /\ slot[w] = NoSlot
    /\ site' = [site EXCEPT ![w] = b]
    /\ UNCHANGED pool
    /\ \E m \in Models : \E s \in FreeSlots(b, m) :
          slot' = [slot EXCEPT ![w] = s] /\ inUse' = [inUse EXCEPT ![b] = @ \cup {s}]

Returns(w) ==
    /\ \/ UNCHANGED site
       \/ site' = [site EXCEPT ![w] = None]
    /\ slot' = [slot EXCEPT ![w] = NoSlot]
    /\ inUse' = [inUse EXCEPT ![site[w]] = @ \ {slot[w]}]
    /\ UNCHANGED pool

MovesIdle(w) ==
    /\ slot[w] = NoSlot
    /\ UNCHANGED <<slot, inUse, pool>>
    /\ \E x \in Backends \cup {None} : site' = [site EXCEPT ![w] = x]

Reports ==
    /\ UNCHANGED <<slot, site>>
    /\ \E answered \in SUBSET Hosts : \E counts \in [answered -> SlotCounts] :
          EnsurePools(counts)

LEMMA AcquireTakes ==
    ASSUME TypeInv, NEW w \in Workers, NEW b \in Backends, NEW m, TryAcquire(w, b, m),
           slot[w] = NoSlot, site' = [site EXCEPT ![w] = b]
    PROVE  Takes(w, b)
<1>1. PICK s \in FreeSlots(b, m) : /\ slot' = [slot EXCEPT ![w] = s]
                                  /\ inUse' = [inUse EXCEPT ![b] = @ \cup {s}]
                                  /\ pool' = pool
  BY AcquiresFree DEF TypeInv, TypeOK
<1>2. m \in Models
  BY <1>1 DEF FreeSlots, PoolSize
<1> QED
  BY <1>1, <1>2 DEF Takes

LEMMA GiveBackReturns ==
    ASSUME TypeInv, NEW w \in Workers, GiveBack(w) \/ Release(w),
           UNCHANGED site \/ site' = [site EXCEPT ![w] = None]
    PROVE  Returns(w) \/ MovesIdle(w)
<1>1. /\ slot' = [slot EXCEPT ![w] = NoSlot]
      /\ pool' = pool
      /\ \/ inUse' = [inUse EXCEPT ![site[w]] = @ \ {slot[w]}]
         \/ slot[w] = NoSlot /\ inUse' = inUse
  BY GivesBack DEF TypeInv, TypeOK
<1>2. site[w] \in Backends \cup {None} /\ site = [site EXCEPT ![w] = site[w]]
  BY DEF TypeInv, TypeOK, WorkerTypes
<1>3. CASE inUse' = [inUse EXCEPT ![site[w]] = @ \ {slot[w]}]
  BY <1>1, <1>3 DEF Returns
<1>4. CASE slot[w] = NoSlot /\ inUse' = inUse
  <2>1. slot' = slot
    BY <1>1, <1>4 DEF TypeInv, TypeOK, WorkerTypes
  <2>2. \E x \in Backends \cup {None} : site' = [site EXCEPT ![w] = x]
    BY <1>2
  <2> QED
    BY <1>1, <1>4, <2>1, <2>2 DEF MovesIdle
<1> QED
  BY <1>1, <1>3, <1>4

LEMMA SlotStep ==
    ASSUME TypeInv, [Next]_vars
    PROVE  \/ UNCHANGED SlotVars
           \/ Reports
           \/ \E w \in Workers : Returns(w) \/ MovesIdle(w) \/ \E b \in Backends : Takes(w, b)
<1> USE DEF SlotVars
<1>1. ASSUME NEW w \in Workers, NEW b \in Backends, PumpTake(b, w)
      PROVE  MovesIdle(w) \/ Takes(w, b)
  <2>1. slot[w] = NoSlot /\ site' = [site EXCEPT ![w] = b]
    BY <1>1 DEF PumpTake, TypeInv, WorkerShape, Slotless
  <2>2. CASE TryAcquire(w, b, model[Head(queue[b])])
    BY <2>1, <2>2, AcquireTakes
  <2>3. CASE UNCHANGED <<slot, poolVars>>
    BY <2>1, <2>3 DEF MovesIdle, poolVars
  <2> QED
    BY <1>1, <2>2, <2>3 DEF PumpTake
<1>2. ASSUME NEW w \in Workers, HandOff(w)
      PROVE  UNCHANGED SlotVars \/ Returns(w) \/ MovesIdle(w)
  <2>1. CASE GiveBack(w) /\ Retire(w)
    BY <2>1, GiveBackReturns DEF Retire
  <2>2. CASE UNCHANGED <<site, slot, poolVars>>
    BY <2>2 DEF poolVars
  <2> QED
    BY <1>2, <2>1, <2>2 DEF HandOff
<1>3. ASSUME NEW w \in Workers, PromptTooLong(w) \/ Serve(w)
      PROVE  Returns(w) \/ MovesIdle(w)
  BY <1>3, GiveBackReturns DEF PromptTooLong, Serve
<1>4. ASSUME NEW w \in Workers, Acquire(w) \/ Retry(w)
      PROVE  UNCHANGED SlotVars \/ \E b \in Backends : Takes(w, b)
  <2>1. slot[w] = NoSlot /\ site[w] \in Backends
    BY <1>4 DEF Acquire, Retry, TypeInv, WorkerShape, Slotless
  <2>2. CASE TryAcquire(w, site[w], model[work[w]]) /\ UNCHANGED site
    <3>1. site' = [site EXCEPT ![w] = site[w]]
      BY <2>2 DEF TypeInv, TypeOK, WorkerTypes
    <3> QED
      BY <2>1, <2>2, <3>1, AcquireTakes
  <2>3. CASE UNCHANGED <<site, slot, poolVars>>
    BY <2>3 DEF poolVars
  <2> QED
    BY <1>4, <2>2, <2>3 DEF Acquire, Retry, GiveUp
<1>5. ASSUME NEW w \in Workers, Refresh(w)
      PROVE  Reports
  BY <1>5 DEF Refresh, Reports, TypeInv, TypeOK, EnvTypes
<1>6. ASSUME NEW w \in Workers, WorkerFinished(w)
      PROVE  MovesIdle(w)
  BY <1>6 DEF WorkerFinished, Retire, MovesIdle, TypeInv, WorkerShape, Slotless, poolVars
<1>7. ASSUME NEW w \in Workers,
             Begin(w) \/ Gate(w) \/ Requeue(w) \/ Backoff(w) \/ Finish(w)
      PROVE  UNCHANGED SlotVars
  BY <1>7 DEF Begin, Gate, Requeue, Backoff, Finish, GiveUp, poolVars
<1>8. ASSUME NEW b \in Backends, PumpNext(b)
      PROVE  UNCHANGED SlotVars
  BY <1>8 DEF PumpNext, workerVars, poolVars
<1>9. ASSUME NEW src, NEW target, NEW i, Migrate(src, i, target)
      PROVE  UNCHANGED SlotVars
  BY <1>9 DEF Migrate, workerVars, poolVars
<1>10. ASSUME Wake \/ Exit \/ Arrive \/ BurstHandled \/ PopOverflow \/ RouteHeld
              \/ BeginMigration \/ EndMigration
       PROVE  UNCHANGED SlotVars
  BY <1>10 DEF Wake, Exit, Arrive, BurstHandled, PopOverflow, RouteHeld, BeginMigration,
     EndMigration, workerVars, poolVars
<1>11. ASSUME Environment \/ UNCHANGED vars
       PROVE  UNCHANGED SlotVars
  BY <1>11 DEF Environment, SubmitCheck, SubmitSend, Disconnect, HealthCheck, Rediscover, Stop,
     AbortAll, vars, workerVars, poolVars
<1> HIDE DEF SlotVars
<1>12. CASE DispatcherStep
  <2>1. CASE \E b \in Backends : PumpNext(b) \/ \E w \in Workers : PumpTake(b, w)
    <3> PICK b \in Backends : PumpNext(b) \/ \E w \in Workers : PumpTake(b, w)
      BY <2>1
    <3> QED
      BY <1>1, <1>8
  <2>2. CASE \E w \in Workers : HandOff(w)
    BY <2>2, <1>2
  <2>3. CASE \E src, target \in Backends : \E i \in 1 .. Len(queue[src]) : Migrate(src, i, target)
    BY <2>3, <1>9
  <2> QED
    BY <1>10, <1>12, <2>1, <2>2, <2>3 DEF DispatcherStep
<1>13. CASE \E w \in Workers : WorkerStep(w)
  <2> PICK w \in Workers : WorkerStep(w)
    BY <1>13
  <2> QED
    BY <1>3, <1>4, <1>5, <1>6, <1>7 DEF WorkerStep
<1> QED
  BY <1>11, <1>12, <1>13 DEF Next

-----------------------------------------------------------------------------
(* No slot leaks, whatever the backends report *)

LEMMA NoSlotLeakStep ==
    ASSUME TypeInv, NoSlotLeak, [Next]_vars
    PROVE  NoSlotLeak'
<1> USE DEF TypeInv, TypeOK, PoolTypes, WorkerTypes, NoSlotLeak, HeldOn
<1>1. CASE UNCHANGED SlotVars
  BY <1>1 DEF SlotVars
<1>2. CASE Reports
  <2>1. \A b \in Backends : inUse'[b] \subseteq inUse[b]
    BY <1>2 DEF Reports, EnsurePools
  <2>2. slot' = slot /\ site' = site
    BY <1>2 DEF Reports
  <2> QED
    BY <2>1, <2>2
<1>3. ASSUME NEW w \in Workers, Returns(w)
      PROVE  NoSlotLeak'
  <2> SUFFICES ASSUME NEW b \in Backends, NEW s \in inUse'[b]
               PROVE  \E v \in Workers : site'[v] = b /\ slot'[v] = s /\ s # NoSlot
    OBVIOUS
  <2>1. s \in inUse[b] /\ ~ (site[w] = b /\ s = slot[w])
    BY <1>3 DEF Returns
  <2>2. PICK v \in Workers : site[v] = b /\ slot[v] = s /\ s # NoSlot
    BY <2>1
  <2>3. v # w
    BY <2>1, <2>2
  <2> QED
    BY <1>3, <2>2, <2>3 DEF Returns
<1>4. ASSUME NEW w \in Workers, MovesIdle(w)
      PROVE  NoSlotLeak'
  <2> SUFFICES ASSUME NEW b \in Backends, NEW s \in inUse'[b]
               PROVE  \E v \in Workers : site'[v] = b /\ slot'[v] = s /\ s # NoSlot
    OBVIOUS
  <2>1. PICK v \in Workers : site[v] = b /\ slot[v] = s /\ s # NoSlot
    BY <1>4 DEF MovesIdle
  <2>2. v # w
    BY <1>4, <2>1 DEF MovesIdle
  <2> QED
    BY <1>4, <2>1, <2>2 DEF MovesIdle
<1>5. ASSUME NEW w \in Workers, NEW c \in Backends, Takes(w, c)
      PROVE  NoSlotLeak'
  <2>1. PICK m \in Models, t \in Nat : /\ t \in FreeSlots(c, m)
                                     /\ slot' = [slot EXCEPT ![w] = t]
                                     /\ inUse' = [inUse EXCEPT ![c] = @ \cup {t}]
    BY <1>5, FreeSlotsNat DEF Takes
  <2> SUFFICES ASSUME NEW b \in Backends, NEW s \in inUse'[b]
               PROVE  \E v \in Workers : site'[v] = b /\ slot'[v] = s /\ s # NoSlot
    OBVIOUS
  <2>2. CASE b = c /\ s = t
    <3>1. site'[w] = b /\ slot'[w] = s /\ s # NoSlot
      BY <1>5, <2>1, <2>2 DEF Takes, NoSlot
    <3> QED
      BY <3>1
  <2>3. CASE ~ (b = c /\ s = t)
    <3>1. PICK v \in Workers : site[v] = b /\ slot[v] = s /\ s # NoSlot
      BY <2>1, <2>3
    <3>2. v # w
      BY <1>5, <3>1 DEF Takes
    <3> QED
      BY <1>5, <2>1, <3>1, <3>2 DEF Takes
  <2> QED
    BY <2>2, <2>3
<1> QED
  BY <1>1, <1>2, <1>3, <1>4, <1>5, SlotStep

\* Every slot marked in use belongs to a worker that will release it, on every
\* path of the pump and of the workers (the pump's discard of an abandoned
\* request included), for any number of backends, models, slots and workers.
THEOREM NoSlotLeaks == Spec => []NoSlotLeak
<1>1. Init => NoSlotLeak
  BY DEF Init, NoSlotLeak, HeldOn
<1>2. TypeInv /\ NoSlotLeak /\ [Next]_vars => NoSlotLeak'
  BY NoSlotLeakStep
<1> QED
  BY <1>1, <1>2, TypeInvariant, PTL DEF Spec

-----------------------------------------------------------------------------
(* Slots are exclusive where every backend reports one model, with one size *)

PoolsReported ==
    \A b \in Backends, m \in Models :
        pool[b][m] # 0 => <<b, m>> \in Hosts /\ pool[b][m] \in SlotCounts

\* A worker that holds a slot is at a backend with a pool.
HeldFromPool ==
    \A w \in Workers :
        slot[w] # NoSlot => site[w] \in Backends /\ \E m \in Models : pool[site[w]][m] # 0

\* Stronger than SlotExclusion: ids are exclusive per backend, not per model.
Exclusive ==
    \A v, w \in Workers :
        v # w /\ slot[v] # NoSlot /\ site[v] = site[w] => slot[v] # slot[w]

StableInv == PoolsReported /\ HeldFromPool /\ HeldSlotsMarked /\ Exclusive

LEMMA StableInit == Init => StableInv
  BY DEF Init, StableInv, PoolsReported, HeldFromPool, HeldSlotsMarked, HeldOn, Exclusive

\* A report creates a pool or repeats its size: it never frees a held slot.
LEMMA StableReports ==
    ASSUME StableSlots, TypeInv, StableInv, Reports
    PROVE  StableInv'
<1> USE DEF TypeInv, TypeOK, PoolTypes, WorkerTypes, StableInv
<1>0. PICK answered \in SUBSET Hosts :
          \E counts \in [answered -> SlotCounts] : EnsurePools(counts)
  BY DEF Reports
<1>1. PICK counts \in [answered -> SlotCounts] : EnsurePools(counts)
  BY <1>0
<1>2. UNCHANGED <<slot, site>>
  BY DEF Reports
<1>3. \A b \in Backends, m \in Models :
        pool'[b][m] = IF <<b, m>> \in answered THEN counts[<<b, m>>] ELSE pool[b][m]
  BY <1>1 DEF EnsurePools
<1>4. \A h \in answered : counts[h] \in SlotCounts /\ counts[h] \in Nat \ {0} /\ h \in Hosts
  BY <1>1, DispatcherAssumption
<1>5. PoolsReported'
  BY <1>3, <1>4 DEF PoolsReported
<1>6. HeldFromPool'
  <2>1. \A b \in Backends, m \in Models : pool[b][m] # 0 => pool'[b][m] # 0
    BY <1>3, <1>4
  <2> QED
    BY <1>2, <2>1 DEF HeldFromPool
<1>7. ASSUME NEW w \in Workers, slot[w] # NoSlot
      PROVE  slot[w] \in inUse'[site[w]]
  <2> DEFINE b == site[w]
  <2>1. b \in Backends /\ slot[w] \in inUse[b]
    BY <1>7 DEF HeldFromPool, HeldSlotsMarked, HeldOn
  <2>2. PICK n \in Models : pool[b][n] # 0
    BY <1>7 DEF HeldFromPool
  <2>3. ASSUME NEW m \in Models, <<b, m>> \in answered
        PROVE  AddedSlots(b, m, counts[<<b, m>>]) = {}
    <3>1. <<b, m>> \in Hosts /\ <<b, n>> \in Hosts /\ pool[b][n] \in SlotCounts
      BY <1>4, <2>1, <2>2, <2>3 DEF PoolsReported
    <3>2. m = n
      BY <3>1 DEF StableSlots, BackendOf
    <3>3. counts[<<b, m>>] = pool[b][m]
      BY <1>4, <2>3, <3>1, <3>2 DEF StableSlots
    <3> QED
      BY <3>3 DEF AddedSlots
  <2>4. inUse'[b] = inUse[b] \ UNION {AddedSlots(b, m, counts[<<b, m>>]) :
                                     m \in {x \in Models : <<b, x>> \in answered}}
    BY <1>1, <2>1 DEF EnsurePools
  <2> HIDE DEF b
  <2>5. \A S \in {AddedSlots(b, m, counts[<<b, m>>]) : m \in {x \in Models : <<b, x>> \in answered}} :
          S = {}
    BY <2>3
  <2>6. slot[w] \in inUse'[b]
    BY <2>1, <2>4, <2>5
  <2> QED
    BY <2>6 DEF b
<1>8. HeldSlotsMarked'
  BY <1>2, <1>7 DEF HeldSlotsMarked, HeldOn
<1>9. Exclusive'
  BY <1>2 DEF Exclusive
<1> QED
  BY <1>5, <1>6, <1>8, <1>9

LEMMA StableStep ==
    ASSUME StableSlots, TypeInv, StableInv, [Next]_vars
    PROVE  StableInv'
<1> USE DEF TypeInv, TypeOK, PoolTypes, WorkerTypes, StableInv
<1>1. CASE UNCHANGED SlotVars
  BY <1>1 DEF SlotVars, PoolsReported, HeldFromPool, HeldSlotsMarked, HeldOn, Exclusive
<1>2. CASE Reports
  BY <1>2, StableReports
<1>3. ASSUME NEW w \in Workers, Returns(w)
      PROVE  StableInv'
  <2>1. \A v \in Workers : v # w => slot'[v] = slot[v] /\ site'[v] = site[v]
    BY <1>3 DEF Returns
  <2>2. slot'[w] = NoSlot /\ pool' = pool
    BY <1>3 DEF Returns
  <2>3. PoolsReported' /\ HeldFromPool'
    BY <2>1, <2>2 DEF PoolsReported, HeldFromPool
  <2>4. Exclusive'
    BY <2>1, <2>2 DEF Exclusive
  <2>5. ASSUME NEW v \in Workers, slot'[v] # NoSlot
        PROVE  slot'[v] \in inUse'[site'[v]]
    <3>1. v # w /\ slot[v] \in inUse[site[v]] /\ site[v] \in Backends
      BY <2>1, <2>2, <2>5 DEF HeldSlotsMarked, HeldOn, HeldFromPool
    <3>2. site[v] = site[w] => slot[v] # slot[w]
      BY <2>1, <2>5, <3>1 DEF Exclusive
    <3>3. slot[v] \in inUse'[site[v]]
      BY <1>3, <3>1, <3>2 DEF Returns
    <3> QED
      BY <2>1, <3>1, <3>3
  <2>6. HeldSlotsMarked'
    BY <2>5 DEF HeldSlotsMarked, HeldOn
  <2> QED
    BY <2>3, <2>4, <2>6
<1>4. ASSUME NEW w \in Workers, MovesIdle(w)
      PROVE  StableInv'
  <2>1. \A v \in Workers : v # w => site'[v] = site[v]
    BY <1>4 DEF MovesIdle
  <2>2. slot[w] = NoSlot /\ slot' = slot /\ inUse' = inUse /\ pool' = pool
    BY <1>4 DEF MovesIdle
  <2>3. \A v \in Workers : slot[v] # NoSlot => v # w /\ site'[v] = site[v]
    BY <2>1, <2>2
  <2>4. PoolsReported'
    BY <2>2 DEF PoolsReported
  <2>5. HeldFromPool'
    BY <2>2, <2>3 DEF HeldFromPool
  <2>6. Exclusive'
    BY <2>2, <2>3 DEF Exclusive
  <2>7. ASSUME NEW v \in Workers, slot'[v] # NoSlot
        PROVE  slot'[v] \in inUse'[site'[v]]
    <3>1. slot[v] # NoSlot /\ site'[v] = site[v] /\ site[v] \in Backends
      BY <2>2, <2>3, <2>7 DEF HeldFromPool
    <3>2. slot[v] \in inUse[site[v]]
      BY <3>1 DEF HeldSlotsMarked, HeldOn
    <3> QED
      BY <2>2, <3>1, <3>2
  <2>8. HeldSlotsMarked'
    BY <2>7 DEF HeldSlotsMarked, HeldOn
  <2> QED
    BY <2>4, <2>5, <2>6, <2>8
<1>5. ASSUME NEW w \in Workers, NEW c \in Backends, Takes(w, c)
      PROVE  StableInv'
  <2>1. PICK m \in Models, t \in Nat : /\ t \in FreeSlots(c, m)
                                     /\ slot' = [slot EXCEPT ![w] = t]
                                     /\ inUse' = [inUse EXCEPT ![c] = @ \cup {t}]
    BY <1>5, FreeSlotsNat DEF Takes
  <2>2. site' = [site EXCEPT ![w] = c] /\ pool' = pool /\ slot[w] = NoSlot
    BY <1>5 DEF Takes
  <2>3. t \notin inUse[c] /\ pool[c][m] # 0
    BY <2>1 DEF FreeSlots, PoolSize
  <2>4. PoolsReported' /\ HeldFromPool'
    BY <2>1, <2>2, <2>3 DEF PoolsReported, HeldFromPool
  <2>5. HeldSlotsMarked'
    BY <2>1, <2>2 DEF HeldSlotsMarked, HeldOn
  <2>6. \A v \in Workers : v # w /\ slot[v] # NoSlot /\ site[v] = c => slot[v] # t
    BY <2>3 DEF HeldSlotsMarked, HeldOn
  <2>7. Exclusive'
    BY <2>1, <2>2, <2>6 DEF Exclusive
  <2> QED
    BY <2>4, <2>5, <2>7
<1> QED
  BY <1>1, <1>2, <1>3, <1>4, <1>5, SlotStep

\* "Workers never touch each other's slots": two workers never hold the same
\* slot, for any number of backends and workers, as long as every backend
\* serves one model and always reports the same number of slots for it.
THEOREM SlotsExclusive ==
    ASSUME StableSlots
    PROVE  Spec => []SlotExclusion
<1>1. Init => StableInv
  BY StableInit
<1>2. TypeInv /\ StableInv /\ [Next]_vars => StableInv'
  BY StableStep
<1>3. StableInv => SlotExclusion
  BY DEF StableInv, Exclusive, SlotExclusion
<1> QED
  BY <1>1, <1>2, <1>3, TypeInvariant, PTL DEF Spec

\* Under the same condition a slot in use is marked until its worker releases it.
THEOREM HeldSlotsStayMarked ==
    ASSUME StableSlots
    PROVE  Spec => []HeldSlotsMarked
<1>1. TypeInv /\ StableInv /\ [Next]_vars => StableInv'
  BY StableStep
<1>2. StableInv => HeldSlotsMarked
  BY DEF StableInv
<1> QED
  BY <1>1, <1>2, StableInit, TypeInvariant, PTL DEF Spec

-----------------------------------------------------------------------------
(* Backend queues keep to their cap *)

\* While migrateStale runs, and only then, idle lists backends whose queue is
\* still empty: it holds d.mu, and takes a target off the list with its request.
IdleInv ==
    /\ idle # {} => phase = "migrating"
    /\ \A b \in idle : queue[b] = <<>>

QueueInv == QueueBound /\ IdleInv

LEMMA RemoveIndexLen ==
    ASSUME NEW S, NEW s \in Seq(S), NEW i \in 1 .. Len(s)
    PROVE  Len(RemoveIndex(s, i)) = Len(s) - 1
<1> DEFINE before == SubSeq(s, 1, i - 1)
           after  == SubSeq(s, i + 1, Len(s))
<1>1. before \in Seq(S) /\ Len(before) = i - 1
  BY SubSeqProperties, ElementOfSeq, LenProperties
<1>2. after \in Seq(S) /\ Len(after) = Len(s) - i
  BY SubSeqProperties, ElementOfSeq, LenProperties
<1>3. RemoveIndex(s, i) = before \o after
  BY DEF RemoveIndex
<1>4. Len(s) \in Nat
  BY LenProperties
<1> HIDE DEF before, after
<1>5. Len(before \o after) = Len(before) + Len(after)
  BY <1>1, <1>2, ConcatProperties
<1> QED
  BY <1>1, <1>2, <1>3, <1>4, <1>5

\* A request that finds room makes its queue longer by one, below the cap.
LEMMA EnqueueKeepsBound ==
    ASSUME TypeInv, QueueInv, NEW r \in Requests, MatchEnqueues(r)
    PROVE  QueueBound'
<1>1. PICK c : /\ Len(queue[BackendOf(c)]) < QueueMax
               /\ queue' = [queue EXCEPT ![BackendOf(c)] = Append(@, r)]
  BY DEF MatchEnqueues
<1> DEFINE b == BackendOf(c)
<1>2. ASSUME NEW d \in Backends
      PROVE  Len(queue'[d]) <= QueueMax
  <2>1. CASE d = b
    <3>1. queue'[d] = Append(queue[d], r)
      BY <1>1, <2>1 DEF TypeInv, TypeOK, QueueTypes
    <3>2. Len(queue'[d]) = Len(queue[d]) + 1
      BY <3>1, AppendProperties DEF TypeInv, TypeOK, QueueTypes
    <3>3. Len(queue[d]) \in Nat
      BY LenProperties DEF TypeInv, TypeOK, QueueTypes
    <3> QED
      BY <1>1, <2>1, <3>2, <3>3, SelectionAssumption
  <2>2. CASE d # b
    BY <1>1, <2>2 DEF TypeInv, TypeOK, QueueTypes, QueueInv, QueueBound
  <2> QED
    BY <2>1, <2>2
<1> QED
  BY <1>2 DEF QueueBound

LEMMA MigrateKeepsBound ==
    ASSUME TypeInv, QueueInv, NEW src \in Backends, NEW target \in Backends,
           NEW i \in 1 .. Len(queue[src]), Migrate(src, i, target)
    PROVE  QueueInv'
<1> USE DEF TypeInv, TypeOK, QueueTypes
<1> DEFINE r == queue[src][i]
<1>1. r \in Requests /\ src # target /\ queue[target] = <<>>
  BY ElementOfSeq DEF Migrate, QueueInv, IdleInv
<1>2. queue' = [queue EXCEPT ![src] = RemoveIndex(@, i), ![target] = Append(@, r)]
  BY DEF Migrate
<1> HIDE DEF r
<1>3. Len(queue'[target]) = 1
  <2>1. queue'[target] = Append(<<>>, r)
    BY <1>1, <1>2
  <2>2. Append(<<>>, r) = <<r>>
    OBVIOUS
  <2> QED
    BY <2>1, <2>2
<1>4. Len(queue'[src]) = Len(queue[src]) - 1
  BY <1>1, <1>2, RemoveIndexLen
<1>5. \A d \in Backends \ {src, target} : queue'[d] = queue[d]
  BY <1>2
<1>6. QueueBound'
  <2>1. Len(queue[src]) \in Nat /\ Len(queue[src]) <= QueueMax
    BY LenProperties DEF QueueInv, QueueBound
  <2>2. Len(queue'[target]) <= QueueMax /\ Len(queue'[src]) <= QueueMax
    BY <1>3, <1>4, <2>1, SelectionAssumption
  <2>3. \A d \in Backends \ {src, target} : Len(queue'[d]) <= QueueMax
    BY <1>5 DEF QueueInv, QueueBound
  <2> QED
    BY <2>2, <2>3 DEF QueueBound
<1>7. queue[src] # <<>>
  BY LenProperties
<1>8. src \notin idle
  BY <1>7 DEF QueueInv, IdleInv
<1>9. idle' = idle \ {target} /\ phase' = phase
  BY DEF Migrate
<1>10. IdleInv'
  <2>1. \A b \in idle' : b \in Backends \ {src, target} /\ queue[b] = <<>>
    BY <1>8, <1>9 DEF QueueInv, IdleInv, LoopTypes
  <2> QED
    BY <1>5, <1>9, <2>1 DEF QueueInv, IdleInv
<1> QED
  BY <1>6, <1>10 DEF QueueInv

LEMMA PumpKeepsBound ==
    ASSUME TypeInv, QueueInv, NEW b \in Backends, NEW w \in Workers, PumpTake(b, w)
    PROVE  QueueInv'
<1> USE DEF TypeInv, TypeOK, QueueTypes
<1>1. queue[b] # <<>> /\ queue' = [queue EXCEPT ![b] = Tail(@)]
      /\ UNCHANGED <<idle, phase>> /\ phase = "pump"
  BY DEF PumpTake, Dispatchable, loopVars
<1>2. Len(queue'[b]) = Len(queue[b]) - 1 /\ Len(queue[b]) \in Nat
  BY <1>1, HeadTailProperties, LenProperties
<1>3. QueueBound'
  BY <1>1, <1>2, SelectionAssumption DEF QueueInv, QueueBound
<1>4. IdleInv'
  BY <1>1 DEF QueueInv, IdleInv
<1> QED
  BY <1>3, <1>4 DEF QueueInv

LEMMA QueueStep ==
    ASSUME TypeInv, QueueInv, [Next]_vars
    PROVE  QueueInv'
<1> USE DEF QueueInv
<1>1. ASSUME UNCHANGED <<queue, idle>>, idle = {} \/ UNCHANGED phase
      PROVE  QueueInv'
  BY <1>1 DEF QueueBound, IdleInv
<1>2. ASSUME phase \in {"arrive", "drain"}, UNCHANGED idle, NEW r \in Requests, MatchEnqueues(r)
      PROVE  QueueInv'
  BY <1>2, EnqueueKeepsBound DEF IdleInv
<1>3. CASE Arrive
  <2>1. Head(burst) \in Requests
    BY <1>3, HeadTailProperties DEF Arrive, TypeInv, TypeOK, LoopTypes
  <2>2. CASE MatchEnqueues(Head(burst))
    BY <1>3, <2>1, <2>2, <1>2 DEF Arrive
  <2>3. CASE UNCHANGED queue
    BY <1>3, <2>3, <1>1 DEF Arrive
  <2> QED
    BY <1>3, <2>2, <2>3 DEF Arrive, queueVars
<1>4. CASE RouteHeld
  <2>1. held \in Requests /\ idle = {}
    BY <1>4 DEF RouteHeld, IdleInv, TypeInv, TypeOK, LoopTypes
  <2>2. CASE MatchEnqueues(held)
    BY <1>4, <2>1, <2>2, <1>2 DEF RouteHeld
  <2>3. CASE UNCHANGED queue
    BY <1>4, <2>1, <2>3, <1>1 DEF RouteHeld
  <2> QED
    BY <1>4, <2>2, <2>3 DEF RouteHeld, queueVars
<1>5. CASE Wake \/ Exit \/ BurstHandled \/ PopOverflow
  <2>1. phase # "migrating" /\ UNCHANGED <<queue, idle>>
    BY <1>5 DEF Wake, Exit, BurstHandled, PopOverflow, queueVars
  <2> QED
    BY <2>1, <1>1 DEF IdleInv
<1>6. CASE BeginMigration
  BY <1>6 DEF BeginMigration, IdleBackends, QueueBound, IdleInv, queueVars
<1>7. CASE EndMigration
  BY <1>7 DEF EndMigration, QueueBound, IdleInv, queueVars
<1>8. ASSUME NEW b \in Backends, PumpNext(b)
      PROVE  QueueInv'
  BY <1>8, <1>1 DEF PumpNext, IdleInv, queueVars
<1>9. ASSUME NEW w \in Workers, HandOff(w) \/ WorkerStep(w)
      PROVE  QueueInv'
  <2>1. UNCHANGED <<queue, idle, phase>>
    BY <1>9 DEF HandOff, WorkerStep, PromptTooLong, Begin, Acquire, Refresh, Gate, Requeue, Retry,
       Backoff, Serve, Finish, WorkerFinished, WorkerOnly, queueVars, loopVars
  <2> QED
    BY <2>1, <1>1
<1>10. CASE Environment
  <2>1. CASE Stop \/ AbortAll
    <3>1. queue' = [b \in Backends |-> <<>>] /\ UNCHANGED <<idle, phase>>
      BY <2>1 DEF Stop, AbortAll, DiscardParked, loopVars
    <3>2. Len(<<>>) = 0 /\ 0 <= QueueMax
      BY SelectionAssumption
    <3>3. \A b \in Backends : queue'[b] = <<>>
      BY <3>1
    <3>4. idle \subseteq Backends
      BY DEF TypeInv, TypeOK, LoopTypes
    <3> QED
      BY <3>1, <3>2, <3>3, <3>4 DEF QueueBound, IdleInv
  <2>2. CASE (\E r \in Requests : SubmitCheck(r) \/ SubmitSend(r) \/ Disconnect(r))
             \/ (\E b \in Backends : HealthCheck(b)) \/ Rediscover
    <3>1. UNCHANGED <<queue, idle, phase>>
      BY <2>2 DEF SubmitCheck, SubmitSend, Disconnect, HealthCheck, Rediscover, queueVars, loopVars
    <3> QED
      BY <3>1, <1>1
  <2> QED
    BY <1>10, <2>1, <2>2 DEF Environment
<1>11. CASE UNCHANGED vars
  BY <1>11, <1>1 DEF vars, queueVars, loopVars
<1>12. CASE DispatcherStep
  <2>1. CASE \E b \in Backends : PumpNext(b) \/ \E w \in Workers : PumpTake(b, w)
    <3> PICK b \in Backends : PumpNext(b) \/ \E w \in Workers : PumpTake(b, w)
      BY <2>1
    <3> QED
      BY <1>8, PumpKeepsBound
  <2>2. CASE \E w \in Workers : HandOff(w)
    BY <2>2, <1>9
  <2>3. CASE \E src, target \in Backends : \E i \in 1 .. Len(queue[src]) : Migrate(src, i, target)
    BY <2>3, MigrateKeepsBound
  <2> QED
    BY <1>3, <1>4, <1>5, <1>6, <1>7, <1>12, <2>1, <2>2, <2>3 DEF DispatcherStep
<1> QED
  BY <1>9, <1>10, <1>11, <1>12 DEF Next

\* No backend queue exceeds its cap (tryEnqueue, migrateStale), for any cap and
\* any CacheHitQueueLimit, also one above the cap.
THEOREM QueuesBounded == Spec => []QueueBound
<1>1. Init => QueueInv
  BY SelectionAssumption DEF Init, QueueInv, QueueBound, IdleInv
<1>2. TypeInv /\ QueueInv /\ [Next]_vars => QueueInv'
  BY QueueStep
<1>3. QueueInv => QueueBound
  BY DEF QueueInv
<1> QED
  BY <1>1, <1>2, <1>3, TypeInvariant, PTL DEF Spec
===============================================================================
