-------------------------- MODULE RequestRouterProofs --------------------------
(***************************************************************************)
(* Theorems about the routing decision: the search of SelectBackend keeps  *)
(* to the rule Routable for every list of candidates, every assignment of  *)
(* queue depths, every hit and every index; and the rotation is fair.      *)
(***************************************************************************)
EXTENDS RequestRouter, Integers, SequenceTheorems, WellFoundedInduction, TLAPS

-----------------------------------------------------------------------------
(* The inductive invariant *)

\* Steps of the walk from rr to i, in a list of n.
StepsTo(rr, i, n) == IF rr <= i THEN i - rr ELSE n + i - rr

RouterTypes ==
    /\ depth \in [Backends -> Nat]
    /\ rrIndex \in [Clients -> Nat \ {0}]
    /\ \A c \in Clients : Lists[c] # <<>> => rrIndex[c] <= Len(Lists[c])
    /\ passedOver \in [Clients -> UNION {[Range(Lists[c]) -> Nat] : c \in Clients}]
    /\ \A c \in Clients : passedOver[c] \in [Range(Lists[c]) -> Nat]

\* Whoever has been passed over is that much nearer to the index.
Nearer ==
    \A c \in Clients : \A i \in DOMAIN Lists[c] :
        passedOver[c][Lists[c][i]] + StepsTo(rrIndex[c], i, Len(Lists[c])) < Len(Lists[c])

RouterInv == RouterTypes /\ Nearer

-----------------------------------------------------------------------------
(* The walk *)

\* The k-th index of a walk from start.
LEMMA WalkIs ==
    ASSUME NEW cands, NEW n \in Nat \ {0}, Len(cands) = n, NEW start \in 1 .. n, NEW k \in 0 .. n - 1
    PROVE  WalkIndex(cands, start, k) = IF start + k <= n THEN start + k ELSE start + k - n
<1>1. \A x \in 0 .. n - 1 : x % n = x /\ (x + n) % n = x
  OBVIOUS
<1>2. CASE start + k <= n
  <2>1. (start - 1 + k) % n = start - 1 + k
    BY <1>1, <1>2
  <2> QED
    BY <1>2, <2>1 DEF WalkIndex
<1>3. CASE ~ (start + k <= n)
  <2> PICK x \in 0 .. n - 1 : start - 1 + k = x + n
    <3>1. start - 1 + k - n \in 0 .. n - 1
      BY <1>3
    <3> QED
      BY <3>1
  <2>1. (start - 1 + k) % n = x
    BY <1>1
  <2> QED
    BY <1>3, <2>1 DEF WalkIndex
<1> QED
  BY <1>2, <1>3

LEMMA WalkSteps ==
    ASSUME NEW cands, NEW n \in Nat \ {0}, Len(cands) = n, NEW start \in 1 .. n, NEW k \in 0 .. n - 1
    PROVE  /\ WalkIndex(cands, start, k) \in 1 .. n
           /\ StepsTo(start, WalkIndex(cands, start, k), n) = k
<1> PICK i : i = WalkIndex(cands, start, k)
  OBVIOUS
<1>1. i = IF start + k <= n THEN start + k ELSE start + k - n
  BY WalkIs
<1>2. i \in 1 .. n /\ StepsTo(start, i, n) = k
  BY <1>1 DEF StepsTo
<1> QED
  BY <1>2

\* The walk reaches every index, by StepsTo of it.
LEMMA WalkReaches ==
    ASSUME NEW cands, NEW n \in Nat \ {0}, Len(cands) = n, NEW start \in 1 .. n, NEW i \in 1 .. n
    PROVE  /\ StepsTo(start, i, n) \in 0 .. n - 1
           /\ WalkIndex(cands, start, StepsTo(start, i, n)) = i
<1>1. StepsTo(start, i, n) \in 0 .. n - 1
  BY DEF StepsTo
<1> PICK k \in 0 .. n - 1 : k = StepsTo(start, i, n)
  BY <1>1
<1>2. WalkIndex(cands, start, k) = IF start + k <= n THEN start + k ELSE start + k - n
  BY WalkIs
<1> QED
  BY <1>1, <1>2 DEF StepsTo

LEMMA Least ==
    ASSUME NEW S \in SUBSET Nat, S # {}
    PROVE  \E s \in S : \A t \in S : s <= t
<1>1. PICK s \in S : \A t \in S : ~ (<<t, s>> \in OpToRel(<, Nat))
  BY NatLessThanWellFounded, WFMin
<1>2. ASSUME NEW t \in S
      PROVE  s <= t
  <2>1. <<t, s>> \notin {p \in Nat \X Nat : p[1] < p[2]}
    BY <1>1 DEF OpToRel
  <2>2. ~ (t < s)
    BY <2>1
  <2> QED
    BY <2>2
<1> QED
  BY <1>2

\* The first index the walk comes to.
LEMMA FirstStepFirst ==
    ASSUME NEW cands, NEW n \in Nat \ {0}, Len(cands) = n, NEW start \in 1 .. n,
           NEW good \in SUBSET (1 .. n)
    PROVE  /\ good = {} => FirstStep(cands, start, good) = n
           /\ good # {} =>
                /\ FirstStep(cands, start, good) \in 0 .. n - 1
                /\ WalkIndex(cands, start, FirstStep(cands, start, good)) \in good
                /\ \A i \in good : FirstStep(cands, start, good) <= StepsTo(start, i, n)
<1> DEFINE hits == {k \in 0 .. n - 1 : WalkIndex(cands, start, k) \in good}
<1>1. FirstStep(cands, start, good) =
        IF hits = {} THEN n ELSE CHOOSE k \in hits : \A j \in hits : k <= j
  BY DEF FirstStep
<1>0. \A i \in 1 .. n : /\ StepsTo(start, i, n) \in 0 .. n - 1
                        /\ WalkIndex(cands, start, StepsTo(start, i, n)) = i
  BY WalkReaches
<1>2. \A i \in good : StepsTo(start, i, n) \in hits
  <2> TAKE i \in good
  <2>1. i \in 1 .. n
    OBVIOUS
  <2>2. StepsTo(start, i, n) \in 0 .. n - 1 /\ WalkIndex(cands, start, StepsTo(start, i, n)) = i
    BY <1>0, <2>1
  <2> QED
    BY <2>2
<1>3. CASE good = {}
  BY <1>1, <1>3
<1>4. CASE good # {}
  <2>1. hits # {} /\ hits \in SUBSET Nat
    <3>1. PICK i \in good : TRUE
      BY <1>4
    <3>2. StepsTo(start, i, n) \in hits
      BY <1>2
    <3>3. hits \in SUBSET Nat
      OBVIOUS
    <3> HIDE DEF hits
    <3> QED
      BY <3>2, <3>3
  <2>2. \E k \in hits : \A j \in hits : k <= j
    <3> HIDE DEF hits
    <3> QED
      BY <2>1, Least
  <2>3. /\ FirstStep(cands, start, good) \in hits
        /\ \A j \in hits : FirstStep(cands, start, good) <= j
    <3> HIDE DEF hits
    <3> QED
      BY <1>1, <2>1, <2>2
  <2> QED
    BY <1>2, <1>4, <2>3
<1> QED
  BY <1>3, <1>4

-----------------------------------------------------------------------------
(* One pass of the search *)

DepthAt(cands, d, i) == d[BackendOf(cands[i])]
Open(cands, d, among) == {i \in among : DepthAt(cands, d, i) < QueueMax}
Best(cands, d, among) ==
    {i \in Open(cands, d, among) :
       \A j \in Open(cands, d, among) : DepthAt(cands, d, i) <= DepthAt(cands, d, j)}

LEMMA PickBest ==
    ASSUME NEW cands, NEW n \in Nat \ {0}, Len(cands) = n, NEW start \in 1 .. n,
           NEW among \in SUBSET (1 .. n), NEW d, \A i \in 1 .. n : DepthAt(cands, d, i) \in Nat
    PROVE  /\ Open(cands, d, among) = {} => Pick(cands, start, d, among) = 0
           /\ Open(cands, d, among) # {} =>
                /\ Pick(cands, start, d, among) \in Best(cands, d, among)
                /\ \A i \in Best(cands, d, among) :
                     StepsTo(start, Pick(cands, start, d, among), n) <= StepsTo(start, i, n)
<1> DEFINE open == Open(cands, d, among)
           best == Best(cands, d, among)
           step == FirstStep(cands, start, best)
<1>1. Pick(cands, start, d, among) = IF step = n THEN 0 ELSE WalkIndex(cands, start, step)
  BY DEF Pick, Open, Best, DepthAt
<1>2. open \in SUBSET (1 .. n) /\ best \in SUBSET open
  BY DEF Open, Best
<1>3. ASSUME open # {}
      PROVE  best # {}
  <2> DEFINE depths == {DepthAt(cands, d, i) : i \in open}
  <2>1. depths \in SUBSET Nat /\ depths # {}
    BY <1>2, <1>3
  <2>2. \E s \in depths : \A t \in depths : s <= t
    <3> HIDE DEF depths
    <3> QED
      BY <2>1, Least
  <2>3. PICK i \in open : \A j \in open : DepthAt(cands, d, i) <= DepthAt(cands, d, j)
    BY <2>2
  <2> QED
    BY <2>3 DEF Best
<1>4. CASE open = {}
  <2>1. step = n
    BY <1>2, <1>4, FirstStepFirst
  <2> QED
    BY <1>1, <1>4, <2>1
<1>5. CASE open # {}
  <2>1. best # {} /\ best \in SUBSET (1 .. n)
    BY <1>2, <1>3, <1>5
  <2>2. /\ step \in 0 .. n - 1 /\ WalkIndex(cands, start, step) \in best
        /\ \A i \in best : step <= StepsTo(start, i, n)
    <3> HIDE DEF best
    <3> QED
      BY <2>1, FirstStepFirst
  <2>3. Pick(cands, start, d, among) = WalkIndex(cands, start, step)
    BY <1>1, <2>2
  <2>4. StepsTo(start, WalkIndex(cands, start, step), n) = step
    BY <2>2, WalkSteps
  <2> QED
    BY <1>5, <2>2, <2>3, <2>4
<1> QED
  BY <1>4, <1>5

\* What a pass picks, as a pair.
LEMMA PickPair ==
    ASSUME NEW cands, NEW n \in Nat \ {0}, Len(cands) = n, NEW start \in 1 .. n,
           NEW among \in SUBSET (1 .. n), NEW d, \A i \in 1 .. n : DepthAt(cands, d, i) \in Nat,
           NEW D, D = {cands[i] : i \in among}
    PROVE  /\ HasRoom(D, d) = {} => Pick(cands, start, d, among) = 0
           /\ HasRoom(D, d) # {} =>
                /\ Pick(cands, start, d, among) \in 1 .. n
                /\ cands[Pick(cands, start, d, among)] \in LeastLoaded(HasRoom(D, d), d)
<1> DEFINE open == Open(cands, d, among)
<1>1. HasRoom(D, d) = {cands[i] : i \in open}
  BY DEF HasRoom, Open, DepthAt
<1>2. CASE open = {}
  BY <1>1, <1>2, PickBest
<1>3. CASE open # {}
  <2> PICK i \in Best(cands, d, among) : i = Pick(cands, start, d, among)
    BY <1>3, PickBest
  <2>1. i \in open /\ i \in 1 .. n
    BY DEF Best, Open
  <2>2. \A j \in open : DepthAt(cands, d, i) <= DepthAt(cands, d, j)
    BY DEF Best
  <2>3. cands[i] \in LeastLoaded(HasRoom(D, d), d)
    BY <1>1, <2>1, <2>2 DEF LeastLoaded, DepthAt
  <2>4. HasRoom(D, d) # {}
    BY <1>1, <2>1
  <2> QED
    BY <2>1, <2>3, <2>4
<1> QED
  BY <1>2, <1>3


-----------------------------------------------------------------------------
(* The whole search *)

\* Where the walk begins; at the index itself when nothing is excluded.
LEMMA WalkBegins ==
    ASSUME NEW cands, NEW n \in Nat \ {0}, Len(cands) = n, NEW hit, NEW rr \in Nat \ {0}
    PROVE  /\ WalkStart(cands, hit, rr) \in 1 .. n
           /\ hit = NoHit /\ rr \in 1 .. n => WalkStart(cands, hit, rr) = rr
<1> PICK start : start = ((rr - 1) % n) + 1
  OBVIOUS
<1> PICK among \in SUBSET (1 .. n) : among = NotOnHit(cands, hit)
  BY DEF NotOnHit, Indices
<1> PICK first : first = FirstStep(cands, start, among)
  OBVIOUS
<1>1. start \in 1 .. n
  OBVIOUS
<1>2. rr \in 1 .. n => start = rr
  <2>1. \A x \in 0 .. n - 1 : x % n = x
    OBVIOUS
  <2>2. rr \in 1 .. n => rr - 1 \in 0 .. n - 1
    OBVIOUS
  <2> QED
    BY <2>1, <2>2
<1>3. WalkStart(cands, hit, rr) = IF first = n THEN start ELSE WalkIndex(cands, start, first)
  BY DEF WalkStart
<1>4. /\ among = {} => first = n
      /\ among # {} => first \in 0 .. n - 1 /\ \A i \in among : first <= StepsTo(start, i, n)
  BY <1>1, FirstStepFirst
<1>5. WalkStart(cands, hit, rr) \in 1 .. n
  BY <1>1, <1>3, <1>4, WalkSteps
<1>6. ASSUME hit = NoHit, rr \in 1 .. n
      PROVE  WalkStart(cands, hit, rr) = rr
  <2>1. among = 1 .. n
    BY <1>6 DEF NotOnHit, Indices
  <2>2. start \in among /\ StepsTo(start, start, n) = 0
    BY <1>1, <2>1 DEF StepsTo
  <2>3. first \in 0 .. n - 1 /\ first <= 0
    BY <1>4, <2>2
  <2>4. first = 0
    BY <2>3
  <2>5. WalkIndex(cands, start, 0) = start
    <3>1. 0 \in 0 .. n - 1
      OBVIOUS
    <3>2. WalkIndex(cands, start, 0) = IF start + 0 <= n THEN start + 0 ELSE start + 0 - n
      BY <1>1, <3>1, WalkIs
    <3> QED
      BY <1>1, <3>2
  <2> QED
    BY <1>2, <1>3, <1>6, <2>4, <2>5
<1> QED
  BY <1>5, <1>6

\* The pair of the hit backend that wins.
LEMMA HitFound ==
    ASSUME NEW P, \A p \in P : p = <<BackendOf(p), ModelOf(p)>>,
           NEW cands \in Seq(P), NEW hit \in P
    PROVE  LET onHit == OnBackend(Range(cands), BackendOf(hit))
           IN  /\ onHit = {} => HitIndex(cands, hit) = 0
               /\ onHit # {} =>
                    /\ HitIndex(cands, hit) \in 1 .. Len(cands)
                    /\ cands[HitIndex(cands, hit)] \in
                         (IF hit \in Range(cands) THEN {hit} ELSE onHit)
<1> DEFINE onHit == OnBackend(Range(cands), BackendOf(hit))
           same == {i \in 1 .. Len(cands) : BackendOf(cands[i]) = BackendOf(hit)}
           exact == {i \in same : ModelOf(cands[i]) = ModelOf(hit)}
           among == IF exact # {} THEN exact ELSE same
<1>0. /\ Len(cands) \in Nat /\ DOMAIN cands = 1 .. Len(cands)
      /\ \A i \in 1 .. Len(cands) : cands[i] \in P
  BY LenProperties, ElementOfSeq
<1>1. HitIndex(cands, hit) =
        IF among = {} THEN 0 ELSE CHOOSE i \in among : \A j \in among : i <= j
  BY DEF HitIndex, Indices
<1>2. onHit = {cands[i] : i \in same}
  BY <1>0 DEF OnBackend, Range
<1>3. ASSUME NEW i \in same
      PROVE  i \in exact <=> cands[i] = hit
  BY <1>0
<1>4. hit \in Range(cands) <=> exact # {}
  <2>1. ASSUME hit \in Range(cands)
        PROVE  exact # {}
    <3>1. PICK i \in 1 .. Len(cands) : cands[i] = hit
      BY <1>0, <2>1 DEF Range
    <3>2. i \in exact
      BY <3>1
    <3> QED
      BY <3>2
  <2>2. ASSUME exact # {}
        PROVE  hit \in Range(cands)
    <3>1. PICK i \in exact : TRUE
      BY <2>2
    <3>2. cands[i] = hit /\ i \in DOMAIN cands
      BY <1>0, <1>3, <3>1
    <3> QED
      BY <3>2 DEF Range
  <2> QED
    BY <2>1, <2>2
<1>5. CASE same = {}
  BY <1>1, <1>2, <1>5
<1>6. CASE same # {}
  <2>1. among # {} /\ among \in SUBSET same /\ among \in SUBSET Nat
    <3>1. exact \in SUBSET same /\ same \in SUBSET Nat
      BY <1>0
    <3> HIDE DEF same, exact
    <3> QED
      BY <1>6, <3>1
  <2>2. \E i \in among : \A j \in among : i <= j
    <3> HIDE DEF among
    <3> QED
      BY <2>1, Least
  <2>3. HitIndex(cands, hit) \in among
    <3> HIDE DEF among
    <3> QED
      BY <1>1, <2>1, <2>2
  <2> PICK i \in among : i = HitIndex(cands, hit)
    BY <2>3
  <2>4. i \in same /\ i \in 1 .. Len(cands) /\ (exact # {} => i \in exact)
    BY <2>1
  <2>5. onHit # {} /\ cands[i] \in onHit
    BY <1>2, <2>4
  <2>6. cands[i] \in (IF hit \in Range(cands) THEN {hit} ELSE onHit)
    <3> HIDE DEF same, exact, among, onHit
    <3> QED
      BY <1>3, <1>4, <2>4, <2>5
  <2> QED
    BY <2>4, <2>5, <2>6
<1> QED
  BY <1>5, <1>6

\* SelectBackend finds a pair the rule allows, and none exactly when it allows
\* none, for every list, hit, assignment of depths and index.
THEOREM SearchKeepsRule ==
    ASSUME NEW P, NEW d,
           \A p \in P : p = <<BackendOf(p), ModelOf(p)>> /\ d[BackendOf(p)] \in Nat,
           NEW cands \in Seq(P), NEW hit \in P \cup {NoHit}, NEW rr \in Nat \ {0}
    PROVE  LET idx == SelectBackend(cands, hit, d, rr)
               allowed == Routable(Range(cands), hit, d)
           IN  /\ allowed = {} => idx = 0
               /\ allowed # {} => idx \in 1 .. Len(cands) /\ cands[idx] \in allowed
<1> DEFINE idx == SelectBackend(cands, hit, d, rr)
           C == Range(cands)
           allowed == Routable(C, hit, d)
           start == WalkStart(cands, hit, rr)
           free == NotOnHit(cands, hit)
           onHit == IF hit = NoHit THEN {} ELSE OnBackend(C, BackendOf(hit))
           fallback == Pick(cands, start, d, free)
           wins == hit # NoHit /\ d[BackendOf(hit)] < CacheHitQueueLimit
<1> PICK n \in Nat : n = Len(cands)
  BY LenProperties
<1>0. DOMAIN cands = 1 .. n /\ (\A i \in 1 .. n : cands[i] \in P) /\ C \in SUBSET P
  <2>1. DOMAIN cands = 1 .. n /\ \A i \in 1 .. n : cands[i] \in P
    BY LenProperties, ElementOfSeq
  <2> QED
    BY <2>1 DEF Range
<1>1. idx = IF cands = <<>> THEN 0
            ELSE IF wins /\ HitIndex(cands, hit) # 0 THEN HitIndex(cands, hit)
            ELSE IF fallback # 0 THEN fallback
            ELSE Pick(cands, start, d, 1 .. n)
  BY DEF SelectBackend, Indices
<1>2. allowed = IF wins /\ onHit # {} THEN (IF hit \in C THEN {hit} ELSE onHit)
                ELSE IF HasRoom(C \ onHit, d) # {} THEN LeastLoaded(HasRoom(C \ onHit, d), d)
                ELSE LeastLoaded(HasRoom(C, d), d)
  BY DEF Routable, HitWins
<1>3. CASE n = 0
  <2>1. cands = <<>> /\ C = {}
    BY <1>0, <1>3, EmptySeq DEF Range
  <2>2. allowed = {}
    BY <1>2, <2>1 DEF OnBackend, HasRoom, LeastLoaded
  <2> QED
    BY <1>1, <2>1, <2>2
<1>4. CASE n # 0
  <2>0. cands # <<>>
    BY <1>4, EmptySeq
  <2>1. start \in 1 .. n
    BY <1>4, WalkBegins
  <2>2. free \in SUBSET (1 .. n) /\ C \ onHit = {cands[i] : i \in free}
    BY <1>0 DEF NotOnHit, Indices, OnBackend, Range
  <2>3. C = {cands[i] : i \in 1 .. n}
    BY <1>0 DEF Range
  <2>4. \A i \in 1 .. n : DepthAt(cands, d, i) \in Nat
    BY <1>0 DEF DepthAt
  <2>5. /\ HasRoom(C \ onHit, d) = {} => fallback = 0
        /\ HasRoom(C \ onHit, d) # {} =>
             fallback \in 1 .. n /\ cands[fallback] \in LeastLoaded(HasRoom(C \ onHit, d), d)
    <3> HIDE DEF start, free, C, onHit
    <3> PICK D : D = C \ onHit
      OBVIOUS
    <3> QED
      BY <1>4, <2>1, <2>2, <2>4, PickPair
  <2>6. /\ HasRoom(C, d) = {} => Pick(cands, start, d, 1 .. n) = 0
        /\ HasRoom(C, d) # {} =>
             /\ Pick(cands, start, d, 1 .. n) \in 1 .. n
             /\ cands[Pick(cands, start, d, 1 .. n)] \in LeastLoaded(HasRoom(C, d), d)
    <3> HIDE DEF start, C
    <3> PICK among \in SUBSET (1 .. n) : among = 1 .. n
      OBVIOUS
    <3> QED
      BY <1>4, <2>1, <2>3, <2>4, PickPair
  <2>7. ASSUME hit # NoHit
        PROVE  /\ onHit = {} => HitIndex(cands, hit) = 0
               /\ onHit # {} => /\ HitIndex(cands, hit) \in 1 .. n
                                /\ cands[HitIndex(cands, hit)] \in (IF hit \in C THEN {hit} ELSE onHit)
    BY <2>7, HitFound
  <2>8. HasRoom(C, d) = {} => LeastLoaded(HasRoom(C, d), d) = {}
    BY DEF LeastLoaded
  <2>9. CASE wins /\ onHit # {}
    <3>1. idx = HitIndex(cands, hit) /\ idx \in 1 .. n
      BY <1>1, <2>0, <2>7, <2>9
    <3>2. cands[idx] \in allowed
      BY <1>2, <2>7, <2>9, <3>1
    <3> QED
      BY <3>1, <3>2
  <2>10. CASE ~ (wins /\ onHit # {}) /\ HasRoom(C \ onHit, d) # {}
    <3>1. ~ (wins /\ HitIndex(cands, hit) # 0)
      BY <2>7, <2>10
    <3>2. fallback \in 1 .. n /\ cands[fallback] \in LeastLoaded(HasRoom(C \ onHit, d), d)
      BY <2>5, <2>10
    <3>3. idx = fallback /\ allowed = LeastLoaded(HasRoom(C \ onHit, d), d)
      <4> HIDE DEF idx, allowed, wins, fallback, onHit, C
      <4> QED
        BY <1>1, <1>2, <2>0, <2>10, <3>1, <3>2
    <3> QED
      BY <3>2, <3>3
  <2>11. CASE ~ (wins /\ onHit # {}) /\ HasRoom(C \ onHit, d) = {}
    <3>1. ~ (wins /\ HitIndex(cands, hit) # 0)
      BY <2>7, <2>11
    <3>2. fallback = 0
      BY <2>5, <2>11
    <3>3. idx = Pick(cands, start, d, 1 .. n) /\ allowed = LeastLoaded(HasRoom(C, d), d)
      <4> HIDE DEF idx, allowed, wins, fallback, onHit, C
      <4> QED
        BY <1>1, <1>2, <2>0, <2>11, <3>1, <3>2
    <3> QED
      BY <2>6, <2>8, <3>3
  <2> QED
    BY <2>9, <2>10, <2>11
<1> QED
  BY <1>3, <1>4


-----------------------------------------------------------------------------
(* The candidates that are live *)

LEMMA Induction ==
    ASSUME NEW G \in SUBSET Nat, 0 \in G, \A n \in G : n + 1 \in G
    PROVE  G = Nat
<1> SUFFICES ASSUME Nat \ G # {} PROVE FALSE
  OBVIOUS
<1>1. PICK n \in Nat \ G : \A m \in Nat \ G : n <= m
  BY Least
<1>2. n # 0 /\ n - 1 \in Nat
  OBVIOUS
<1>3. n - 1 \in G
  BY <1>1, <1>2
<1> QED
  BY <1>1, <1>2, <1>3

\* One turn of match's loop, from what g has kept before.
NextKept(c, live, g, n) ==
    IF n = 0 THEN <<>>
    ELSE IF BackendOf(Lists[c][n]) \in live THEN Append(g[n - 1], Lists[c][n])
    ELSE g[n - 1]

HasKept(c, live, m) == \E g : g = [n \in 0 .. m |-> NextKept(c, live, g, n)]

LEMMA KeptExists == ASSUME NEW c, NEW live, NEW m \in Nat PROVE HasKept(c, live, m)
<1> DEFINE G == {k \in Nat : HasKept(c, live, k)}
<1>1. 0 \in G
  <2> DEFINE g == [n \in 0 .. 0 |-> <<>>]
  <2>1. g = [n \in 0 .. 0 |-> NextKept(c, live, g, n)]
    BY DEF NextKept
  <2> HIDE DEF g
  <2> QED
    BY <2>1 DEF HasKept
<1>2. ASSUME NEW k \in G
      PROVE  k + 1 \in G
  <2> PICK g : g = [n \in 0 .. k |-> NextKept(c, live, g, n)]
    BY DEF HasKept
  <2> DEFINE h == [n \in 0 .. k + 1 |-> NextKept(c, live, g, n)]
  <2>1. \A n \in 0 .. k : n \in 0 .. k + 1 /\ g[n] = h[n]
    OBVIOUS
  <2>2. \A n \in 0 .. k + 1 : NextKept(c, live, h, n) = NextKept(c, live, g, n)
    <3> TAKE n \in 0 .. k + 1
    <3>1. n # 0 => n - 1 \in 0 .. k
      OBVIOUS
    <3>2. n # 0 => g[n - 1] = h[n - 1]
      BY <2>1, <3>1
    <3> HIDE DEF h
    <3> QED
      BY <3>2 DEF NextKept
  <2>3. h = [n \in 0 .. k + 1 |-> NextKept(c, live, h, n)]
    BY <2>2
  <2> HIDE DEF h
  <2> QED
    BY <2>3 DEF HasKept
<1> HIDE DEF G
<1>3. G \in SUBSET Nat
  BY DEF G
<1>4. G = Nat
  BY <1>1, <1>2, <1>3, Induction
<1> QED
  BY <1>4 DEF G

LEMMA LiveListTypes ==
    ASSUME NEW c \in Clients, NEW live
    PROVE  /\ LiveList(c, live) \in Seq(Range(Lists[c]))
           /\ Len(LiveList(c, live)) <= Len(Lists[c])
<1> DEFINE P == Range(Lists[c])
<1> PICK m \in Nat : m = Len(Lists[c])
  BY RouterAssumption, LenProperties DEF Clients
<1> PICK g : g = LiveUpTo(c, live)
  OBVIOUS
<1>0. \A n \in 1 .. m : Lists[c][n] \in P
  BY RouterAssumption, ElementOfSeq, LenProperties DEF Clients
<1>1. g = [n \in 0 .. m |-> NextKept(c, live, g, n)]
  <2>1. \E h : h = [n \in 0 .. m |-> NextKept(c, live, h, n)]
    BY KeptExists DEF HasKept
  <2>2. g = CHOOSE h : h = [n \in 0 .. m |-> NextKept(c, live, h, n)]
    BY DEF LiveUpTo, NextKept
  <2> QED
    BY <2>1, <2>2
<1> DEFINE G == {k \in Nat : k <= m => g[k] \in Seq(P) /\ Len(g[k]) <= k}
<1>2. 0 \in G
  <2>1. g[0] = <<>>
    BY <1>1 DEF NextKept
  <2>2. <<>> \in Seq(P) /\ Len(<<>>) = 0
    BY EmptySeq
  <2>3. 0 <= m => g[0] \in Seq(P) /\ Len(g[0]) <= 0
    BY <2>1, <2>2
  <2> QED
    BY <2>3
<1>3. ASSUME NEW k \in G
      PROVE  k + 1 \in G
  <2> SUFFICES ASSUME k + 1 <= m PROVE g[k + 1] \in Seq(P) /\ Len(g[k + 1]) <= k + 1
    OBVIOUS
  <2>1. g[k] \in Seq(P) /\ Len(g[k]) <= k /\ Len(g[k]) \in Nat
    BY LenProperties
  <2>2. k + 1 \in 1 .. m /\ k + 1 \in 0 .. m /\ k + 1 # 0 /\ (k + 1) - 1 = k
    OBVIOUS
  <2>3. g[k + 1] = Append(g[k], Lists[c][k + 1]) \/ g[k + 1] = g[k]
    <3>1. g[k + 1] = NextKept(c, live, g, k + 1)
      BY <1>1, <2>2
    <3> QED
      BY <2>2, <3>1 DEF NextKept
  <2> PICK e \in P : e = Lists[c][k + 1]
    BY <1>0, <2>2
  <2> PICK s \in Seq(P) : s = g[k]
    BY <2>1
  <2>4. Append(s, e) \in Seq(P) /\ Len(Append(s, e)) = Len(s) + 1
    BY AppendProperties
  <2>5. Len(s) \in Nat /\ k \in Nat /\ Len(s) <= k
    BY <2>1
  <2> PICK t : t = g[k + 1]
    OBVIOUS
  <2>6. t = Append(s, e) \/ t = s
    BY <2>3
  <2>7. t \in Seq(P) /\ Len(t) <= k + 1
    <3>1. CASE t = s
      BY <2>5, <3>1
    <3>2. CASE t = Append(s, e)
      BY <2>4, <2>5, <3>2
    <3> QED
      BY <2>6, <3>1, <3>2
  <2> QED
    BY <2>7
<1> HIDE DEF G
<1>4. G \in SUBSET Nat
  BY DEF G
<1>5. G = Nat
  BY <1>2, <1>3, <1>4, Induction
<1>6. g[m] \in Seq(P) /\ Len(g[m]) <= m
  BY <1>5 DEF G
<1> QED
  BY <1>6 DEF LiveList


-----------------------------------------------------------------------------
(* The rotation *)

LEMMA NextIndexIs ==
    ASSUME NEW cands, NEW n \in Nat \ {0}, Len(cands) = n, NEW j \in 1 .. n
    PROVE  NextIndex(cands, j) \in 1 .. n /\ NextIndex(cands, j) = IF j = n THEN 1 ELSE j + 1
<1>1. j # n => j % n = j
  OBVIOUS
<1>2. n % n = 0
  OBVIOUS
<1> QED
  BY <1>1, <1>2 DEF NextIndex

\* What the walk would have come to after its choice is nearer to the index
\* that follows the choice.
LEMMA ComesNearer ==
    ASSUME NEW n \in Nat \ {0}, NEW rr \in 1 .. n, NEW i \in 1 .. n, NEW j \in 1 .. n, i # j,
           StepsTo(rr, j, n) <= StepsTo(rr, i, n)
    PROVE  StepsTo(IF j = n THEN 1 ELSE j + 1, i, n) < StepsTo(rr, i, n)
  BY DEF StepsTo

\* A cold selection takes the first of the best from the index on.
LEMMA ColdChoice ==
    ASSUME NEW cands, NEW n \in Nat \ {0}, Len(cands) = n, NEW rr \in 1 .. n, NEW d,
           \A k \in 1 .. n : DepthAt(cands, d, k) \in Nat, NEW i \in Best(cands, d, 1 .. n)
    PROVE  /\ SelectBackend(cands, NoHit, d, rr) \in 1 .. n
           /\ StepsTo(rr, SelectBackend(cands, NoHit, d, rr), n) <= StepsTo(rr, i, n)
<1>1. NotOnHit(cands, NoHit) = 1 .. n /\ Indices(cands) = 1 .. n
  BY DEF NotOnHit, Indices
<1>2. WalkStart(cands, NoHit, rr) = rr
  BY WalkBegins
<1> PICK among \in SUBSET (1 .. n) : among = 1 .. n
  OBVIOUS
<1> PICK j : j = Pick(cands, rr, d, among)
  OBVIOUS
<1>3. Open(cands, d, among) # {}
  BY DEF Best
<1>4. j \in Best(cands, d, among) /\ StepsTo(rr, j, n) <= StepsTo(rr, i, n)
  <2>1. \A k \in Best(cands, d, among) : StepsTo(rr, j, n) <= StepsTo(rr, k, n)
    BY <1>3, PickBest
  <2>2. j \in Best(cands, d, among)
    BY <1>3, PickBest
  <2> QED
    BY <2>1, <2>2
<1>5. j \in 1 .. n
  BY <1>4 DEF Best, Open
<1>6. cands # <<>>
  BY EmptySeq
<1>7. SelectBackend(cands, NoHit, d, rr) = j
  BY <1>1, <1>2, <1>5, <1>6 DEF SelectBackend
<1> QED
  BY <1>4, <1>5, <1>7

-----------------------------------------------------------------------------
(* The invariant is inductive *)

LEMMA ListTypes ==
    ASSUME NEW c \in Clients
    PROVE  /\ Lists[c] \in Seq(Range(Lists[c])) /\ Len(Lists[c]) \in Nat
           /\ DOMAIN Lists[c] = 1 .. Len(Lists[c])
           /\ \A p \in Range(Lists[c]) : /\ p = <<BackendOf(p), ModelOf(p)>>
                                         /\ BackendOf(p) \in Backends
           /\ \A i \in DOMAIN Lists[c] : Lists[c][i] \in Range(Lists[c])
<1>1. Lists[c] \in Seq(Range(Lists[c]))
  BY RouterAssumption DEF Clients
<1> QED
  BY <1>1, RouterAssumption, LenProperties DEF Clients, Range

LEMMA RouterInit == Init => RouterInv
<1> SUFFICES ASSUME Init PROVE RouterInv
  OBVIOUS
<1>1. RouterTypes
  <2>1. depth \in [Backends -> Nat] /\ rrIndex \in [Clients -> Nat \ {0}]
    BY DEF Init
  <2>2. \A c \in Clients : passedOver[c] \in [Range(Lists[c]) -> Nat]
    BY DEF Init
  <2>3. passedOver \in [Clients -> UNION {[Range(Lists[c]) -> Nat] : c \in Clients}]
    BY <2>2 DEF Init
  <2>4. ASSUME NEW c \in Clients, Lists[c] # <<>>
        PROVE  rrIndex[c] <= Len(Lists[c])
    BY <2>4, ListTypes, EmptySeq DEF Init
  <2> QED
    BY <2>1, <2>2, <2>3, <2>4 DEF RouterTypes
<1>2. ASSUME NEW c \in Clients, NEW i \in DOMAIN Lists[c]
      PROVE  passedOver[c][Lists[c][i]] + StepsTo(rrIndex[c], i, Len(Lists[c])) < Len(Lists[c])
  <2>1. Lists[c][i] \in Range(Lists[c]) /\ i \in 1 .. Len(Lists[c]) /\ Len(Lists[c]) \in Nat
    BY ListTypes
  <2>2. passedOver[c][Lists[c][i]] = 0 /\ rrIndex[c] = 1
    BY <2>1 DEF Init
  <2> QED
    BY <2>1, <2>2 DEF StepsTo
<1> QED
  BY <1>1, <1>2 DEF RouterInv, Nearer

LEMMA RouteStep ==
    ASSUME RouterInv, NEW c \in Clients, NEW live, NEW hit \in Range(Lists[c]) \cup {NoHit},
           Route(c, live, hit)
    PROVE  RouterInv'
<1> PICK L : L = Lists[c]
  OBVIOUS
<1> PICK n : n = Len(L)
  OBVIOUS
<1> PICK cands : cands = LiveList(c, live)
  OBVIOUS
<1> PICK d \in [Backends -> Nat] : d = depth
  BY DEF RouterInv, RouterTypes
<1> PICK rr \in Nat \ {0} : rr = rrIndex[c]
  BY DEF RouterInv, RouterTypes
<1> PICK idx : idx = SelectBackend(cands, hit, d, rr)
  OBVIOUS
<1> PICK next : next = NextIndex(cands, idx)
  OBVIOUS
<1> PICK passed : passed = passedOver[c]
  OBVIOUS
<1>1. /\ L \in Seq(Range(L)) /\ n \in Nat /\ DOMAIN L = 1 .. n
      /\ \A p \in Range(L) : p = <<BackendOf(p), ModelOf(p)>> /\ d[BackendOf(p)] \in Nat
      /\ \A p \in Range(L) : BackendOf(p) \in Backends
      /\ \A i \in 1 .. n : L[i] \in Range(L)
  BY ListTypes
<1>2. cands \in Seq(Range(L)) /\ Len(cands) <= n /\ Len(cands) \in Nat
  BY LiveListTypes, LenProperties
<1>3. /\ idx # 0 /\ rrIndex' = [rrIndex EXCEPT ![c] = next]
      /\ passedOver' = [passedOver EXCEPT ![c] = CountPassed(c, cands, hit, cands[idx])]
      /\ depth' = [depth EXCEPT ![BackendOf(cands[idx])] = IF @ < QueueMax THEN @ + 1 ELSE @]
  BY DEF Route
<1>4. idx \in 1 .. Len(cands)
  <2>1. /\ Routable(Range(cands), hit, d) = {} => idx = 0
        /\ Routable(Range(cands), hit, d) # {} => idx \in 1 .. Len(cands)
    BY <1>1, <1>2, SearchKeepsRule
  <2> QED
    BY <1>3, <2>1
<1>5. /\ n # 0 /\ next \in 1 .. n /\ next \in 1 .. Len(cands)
      /\ next = IF idx = Len(cands) THEN 1 ELSE idx + 1
  <2> PICK m \in Nat \ {0} : m = Len(cands)
    BY <1>2, <1>4
  <2>1. next \in 1 .. m /\ next = IF idx = m THEN 1 ELSE idx + 1
    BY <1>4, NextIndexIs
  <2> QED
    BY <1>1, <1>2, <2>1
<1>6. BackendOf(cands[idx]) \in Backends
  BY <1>1, <1>2, <1>4, ElementOfSeq
<1>7. passed \in [Range(L) -> Nat] /\ Lists[c] = L
  BY DEF RouterInv, RouterTypes
<1> PICK count : count = CountPassed(c, cands, hit, cands[idx])
  OBVIOUS
<1>8. /\ count \in [Range(L) -> Nat]
      /\ \A p \in Range(L) :
           \/ count[p] = 0
           \/ /\ count[p] = passed[p] + 1 /\ cands = L /\ hit = NoHit /\ p # cands[idx]
              /\ p \in LeastLoaded(HasRoom(Range(L), d), d)
  BY <1>7 DEF CountPassed
<1>9. RouterTypes'
  <2>1. depth' \in [Backends -> Nat]
    BY <1>3, <1>6
  <2>2. rrIndex' \in [Clients -> Nat \ {0}]
    BY <1>3, <1>5 DEF RouterInv, RouterTypes
  <2>3. passedOver' \in [Clients -> UNION {[Range(Lists[a]) -> Nat] : a \in Clients}]
    <3> PICK values : values = UNION {[Range(Lists[a]) -> Nat] : a \in Clients}
      OBVIOUS
    <3>1. count \in values
      BY <1>7, <1>8
    <3>2. passedOver \in [Clients -> values] /\ passedOver' = [passedOver EXCEPT ![c] = count]
      BY <1>3 DEF RouterInv, RouterTypes
    <3>3. passedOver' \in [Clients -> values]
      BY ONLY <3>1, <3>2
    <3> QED
      BY <3>3
  <2>4. ASSUME NEW a \in Clients
        PROVE  passedOver'[a] \in [Range(Lists[a]) -> Nat]
    BY <1>3, <1>7, <1>8 DEF RouterInv, RouterTypes
  <2>5. ASSUME NEW a \in Clients, Lists[a] # <<>>
        PROVE  rrIndex'[a] <= Len(Lists[a])
    <3>1. CASE a = c
      <4>1. rrIndex'[a] = next
        BY <1>3, <3>1 DEF RouterInv, RouterTypes
      <4>2. next <= n /\ Len(Lists[a]) = n
        BY <1>1, <1>5, <3>1
      <4> QED
        BY <4>1, <4>2
    <3>2. CASE a # c
      <4>1. rrIndex'[a] = rrIndex[a]
        BY <1>3, <3>2 DEF RouterInv, RouterTypes
      <4>2. rrIndex[a] <= Len(Lists[a])
        BY <2>5 DEF RouterInv, RouterTypes
      <4> QED
        BY <4>1, <4>2
    <3> QED
      BY <3>1, <3>2
  <2> QED
    BY <2>1, <2>2, <2>3, <2>4, <2>5 DEF RouterTypes
<1>10. ASSUME NEW i \in 1 .. n
       PROVE  count[L[i]] + StepsTo(next, i, n) < n
  <2>1. StepsTo(next, i, n) \in 0 .. n - 1
    <3>1. n \in Nat \ {0}
      BY <1>1, <1>5
    <3>2. next \in 1 .. n
      BY <1>5
    <3>3. i \in 1 .. n
      OBVIOUS
    <3> QED
      BY ONLY <3>1, <3>2, <3>3 DEF StepsTo
  <2>2. CASE count[L[i]] = 0
    BY <1>1, <2>1, <2>2
  <2>3. CASE /\ count[L[i]] = passed[L[i]] + 1 /\ cands = L /\ hit = NoHit /\ L[i] # cands[idx]
             /\ L[i] \in LeastLoaded(HasRoom(Range(L), d), d)
    <3>1. i \in Best(L, d, 1 .. n)
      BY <1>1, <2>3 DEF Best, Open, DepthAt, LeastLoaded, HasRoom
    <3>2. \A k \in 1 .. n : DepthAt(L, d, k) \in Nat
      BY <1>1 DEF DepthAt
    <3>3. rr \in 1 .. n
      <4>1. L # <<>>
        BY <1>5, EmptySeq
      <4> QED
        BY <1>1, <4>1 DEF RouterInv, RouterTypes
    <3>4. StepsTo(rr, idx, n) <= StepsTo(rr, i, n)
      BY <1>1, <1>5, <2>3, <3>1, <3>2, <3>3, ColdChoice
    <3>5. StepsTo(IF idx = n THEN 1 ELSE idx + 1, i, n) < StepsTo(rr, i, n)
      <4>1. i # idx /\ idx \in 1 .. n /\ n \in Nat \ {0}
        BY <1>1, <1>4, <1>5, <2>3
      <4> QED
        BY <3>3, <3>4, <4>1, ComesNearer
    <3>6. StepsTo(next, i, n) < StepsTo(rr, i, n)
      BY <1>5, <2>3, <3>5
    <3>7. passed[L[i]] + StepsTo(rr, i, n) < n
      BY <1>1 DEF RouterInv, Nearer
    <3>8. passed[L[i]] \in Nat /\ StepsTo(rr, i, n) \in 0 .. n - 1
      <4>1. passed[L[i]] \in Nat
        BY <1>1, <1>7
      <4>2. n \in Nat \ {0}
        BY <1>1, <1>5
      <4>3. i \in 1 .. n
        OBVIOUS
      <4>4. StepsTo(rr, i, n) \in 0 .. n - 1
        BY ONLY <3>3, <4>2, <4>3, rr \in Nat DEF StepsTo
      <4> QED
        BY <4>1, <4>4
    <3> PICK was \in Nat : was = passed[L[i]]
      BY <3>8
    <3> PICK before : before = StepsTo(rr, i, n)
      OBVIOUS
    <3> PICK after : after = StepsTo(next, i, n)
      OBVIOUS
    <3>9. after \in Int /\ before \in Int /\ n \in Int
      BY <1>1, <2>1, <3>8
    <3>10. after < before /\ was + before < n /\ count[L[i]] = was + 1
      BY <2>3, <3>6, <3>7
    <3>11. (was + 1) + after < n
      BY ONLY <3>9, <3>10, was \in Nat
    <3> QED
      BY <3>10, <3>11
  <2> QED
    BY <1>1, <1>8, <2>2, <2>3
<1>11. ASSUME NEW a \in Clients, NEW i \in DOMAIN Lists[a]
       PROVE  passedOver'[a][Lists[a][i]] + StepsTo(rrIndex'[a], i, Len(Lists[a])) < Len(Lists[a])
  <2>1. CASE a = c
    <3>1. passedOver'[a] = count /\ rrIndex'[a] = next
      BY <1>3, <2>1 DEF RouterInv, RouterTypes
    <3>2. i \in 1 .. n /\ Lists[a] = L
      BY <1>1, <2>1
    <3> QED
      BY <1>10, <3>1, <3>2
  <2>2. CASE a # c
    <3>1. passedOver'[a] = passedOver[a] /\ rrIndex'[a] = rrIndex[a]
      BY <1>3, <2>2 DEF RouterInv, RouterTypes
    <3>2. passedOver[a][Lists[a][i]] + StepsTo(rrIndex[a], i, Len(Lists[a])) < Len(Lists[a])
      BY DEF RouterInv, Nearer
    <3> QED
      BY <3>1, <3>2
  <2> QED
    BY <2>1, <2>2
<1> QED
  BY <1>9, <1>11 DEF RouterInv, Nearer

LEMMA RouterNext == RouterInv /\ [Next]_vars => RouterInv'
<1> SUFFICES ASSUME RouterInv, [Next]_vars PROVE RouterInv'
  OBVIOUS
<1>1. CASE UNCHANGED vars
  BY <1>1 DEF vars, RouterInv, RouterTypes, Nearer
<1>2. ASSUME NEW b \in Backends, Drain(b)
      PROVE  RouterInv'
  <2>1. depth' \in [Backends -> Nat]
    BY <1>2 DEF Drain, RouterInv, RouterTypes
  <2> QED
    BY <1>2, <2>1 DEF Drain, RouterInv, RouterTypes, Nearer
<1>3. ASSUME NEW c \in Clients, NEW live \in SUBSET Backends,
             NEW hit \in Range(Lists[c]) \cup {NoHit}, Route(c, live, hit)
      PROVE  RouterInv'
  BY <1>3, RouteStep
<1> QED
  BY <1>1, <1>2, <1>3 DEF Next

LEMMA RouterInvariant == Spec => []RouterInv
  BY RouterInit, RouterNext, PTL DEF Spec

-----------------------------------------------------------------------------
(* What follows *)

\* In every reachable state, whatever the queue depths and the stale index
\* have become, SelectBackend finds what the rule allows among the live
\* candidates of a client name, and none only if the rule allows none.
THEOREM RuleAlwaysKept == Spec => []SelectBackendRefines
<1>1. ASSUME RouterInv, NEW c \in Clients, NEW live \in SUBSET Backends,
             NEW hit \in Range(Lists[c]) \cup {NoHit}
      PROVE  LET cands == LiveList(c, live)
                 idx == SelectBackend(cands, hit, depth, rrIndex[c])
                 allowed == Routable(Range(cands), hit, depth)
             IN  IF allowed = {} THEN idx = 0 ELSE idx # 0 /\ cands[idx] \in allowed
  <2> PICK P : P = Range(Lists[c])
    OBVIOUS
  <2> PICK d \in [Backends -> Nat] : d = depth
    BY <1>1 DEF RouterInv, RouterTypes
  <2> PICK rr \in Nat \ {0} : rr = rrIndex[c]
    BY <1>1 DEF RouterInv, RouterTypes
  <2> PICK cands \in Seq(P) : cands = LiveList(c, live)
    BY LiveListTypes
  <2> PICK idx : idx = SelectBackend(cands, hit, d, rr)
    OBVIOUS
  <2>1. \A p \in P : p = <<BackendOf(p), ModelOf(p)>> /\ d[BackendOf(p)] \in Nat
    BY ListTypes
  <2>2. /\ Routable(Range(cands), hit, d) = {} => idx = 0
        /\ Routable(Range(cands), hit, d) # {} =>
             idx \in 1 .. Len(cands) /\ cands[idx] \in Routable(Range(cands), hit, d)
    BY <2>1, SearchKeepsRule
  <2>3. idx \in 1 .. Len(cands) => idx # 0
    BY LenProperties
  <2> QED
    BY <2>2, <2>3
<1>2. RouterInv => SelectBackendRefines
  BY <1>1 DEF SelectBackendRefines
<1> QED
  BY <1>2, RouterInvariant, PTL

\* In a run of cold selections a least-loaded pair is passed over fewer times
\* than there are candidates: each time the index has come nearer to it.
THEOREM RotationStaysFair == Spec => []RotationFair
<1>1. ASSUME RouterInv, NEW c \in Clients, NEW p \in Range(Lists[c])
      PROVE  passedOver[c][p] < Len(Lists[c])
  <2> PICK i \in DOMAIN Lists[c] : Lists[c][i] = p
    BY DEF Range
  <2> PICK n \in Nat : n = Len(Lists[c])
    BY ListTypes
  <2> PICK rr \in Nat \ {0} : rr = rrIndex[c]
    BY <1>1 DEF RouterInv, RouterTypes
  <2>1. passedOver[c][p] + StepsTo(rr, i, n) < n
    BY <1>1 DEF RouterInv, Nearer
  <2>2. i \in 1 .. n /\ Lists[c] # <<>>
    BY ListTypes, EmptySeq
  <2>3. rr \in 1 .. n
    BY <1>1, <2>2 DEF RouterInv, RouterTypes
  <2>4. StepsTo(rr, i, n) \in Nat
    BY <2>2, <2>3 DEF StepsTo
  <2>5. passedOver[c][p] \in Nat
    BY <1>1 DEF RouterInv, RouterTypes
  <2> QED
    BY <2>1, <2>4, <2>5
<1>2. RouterInv => RotationFair
  BY <1>1 DEF RotationFair
<1> QED
  BY <1>2, RouterInvariant, PTL
=============================================================================
