--------------------------- MODULE BackendSelection ---------------------------
(***************************************************************************)
(* The routing rule of the request matcher, matcher.go: which candidate    *)
(* (backend, model) pair a request is sent to, given the queue depths and  *)
(* the cache hit the scan found.                                           *)
(*                                                                         *)
(* Routable states the rule over sets, without the order in which ties are *)
(* broken; SelectBackend is the code's index-by-index search over a        *)
(* sequence of candidates.  RequestRouter!SelectBackendRefines says that   *)
(* the search implements the rule.                                         *)
(*                                                                         *)
(* An operator X_Something, just before X, is X with a plausible bug: see  *)
(* Dispatcher.                                                             *)
(***************************************************************************)
EXTENDS Naturals, Sequences

CONSTANTS
    QueueMax,           (* BackendQueueMax: cap of a backend's queue        *)
    CacheHitQueueLimit, (* depth below which the hit backend always wins    *)
    NoHit               (* the scan found no cache                          *)

ASSUME SelectionAssumption ==
    /\ QueueMax \in Nat \ {0}
    /\ CacheHitQueueLimit \in Nat

\* A candidate, and a hit, is a pair <<backend, model>>.
BackendOf(c) == c[1]
ModelOf(c) == c[2]

OnBackend(C, b) == {c \in C : BackendOf(c) = b}
HasRoom(C, depth) == {c \in C : depth[BackendOf(c)] < QueueMax}
LeastLoaded(C, depth) ==
    {c \in C : \A d \in C : depth[BackendOf(c)] <= depth[BackendOf(d)]}

\* The hit backend wins while its queue is short.
HitWins(C, hit, depth) ==
    /\ hit # NoHit
    /\ OnBackend(C, BackendOf(hit)) # {}
    /\ depth[BackendOf(hit)] < CacheHitQueueLimit

\* The pairs a request with candidates C may be routed to; {} when it has to
\* wait in the overflow queue.
Routable(C, hit, depth) ==
    LET onHit == IF hit = NoHit THEN {} ELSE OnBackend(C, BackendOf(hit))
        others == HasRoom(C \ onHit, depth)
    IN  IF HitWins(C, hit, depth)
          THEN IF hit \in C THEN {hit} ELSE onHit
        ELSE IF others # {}
          THEN LeastLoaded(others, depth)
          ELSE LeastLoaded(HasRoom(C, depth), depth)

-----------------------------------------------------------------------------
(* The search itself.  Indices are 1-based, so rr counts from 1 as well,   *)
(* and 0 stands for the code's -1.                                         *)

Indices(cands) == 1 .. Len(cands)

\* The k-th index (k from 0) of the round-robin walk that begins at start.
WalkIndex(cands, start, k) == ((start - 1 + k) % Len(cands)) + 1

\* The first step of the walk to one of the indices in good, Len(cands) if
\* there is none.
FirstStep(cands, start, good) ==
    LET hits == {k \in 0 .. Len(cands) - 1 : WalkIndex(cands, start, k) \in good}
    IN  IF hits = {} THEN Len(cands)
        ELSE CHOOSE k \in hits : \A j \in hits : k <= j

HitIndex_FirstPair(cands, hit) ==
    LET same == {i \in Indices(cands) : BackendOf(cands[i]) = BackendOf(hit)}
    IN  IF same = {} THEN 0 ELSE CHOOSE i \in same : \A j \in same : i <= j

\* The hit backend's pair with the hit's model, else its first pair.
HitIndex(cands, hit) ==
    LET same == {i \in Indices(cands) : BackendOf(cands[i]) = BackendOf(hit)}
        exact == {i \in same : ModelOf(cands[i]) = ModelOf(hit)}
        among == IF exact # {} THEN exact ELSE same
    IN  IF among = {} THEN 0 ELSE CHOOSE i \in among : \A j \in among : i <= j

\* The walk's first candidate of least depth among those at the indices in
\* among; 0 if all of them are full.
Pick(cands, start, depth, among) ==
    LET Depth(i) == depth[BackendOf(cands[i])]
        open == {i \in among : Depth(i) < QueueMax}
        best == {i \in open : \A j \in open : Depth(i) <= Depth(j)}
        step == FirstStep(cands, start, best)
    IN  IF step = Len(cands) THEN 0 ELSE WalkIndex(cands, start, step)

\* The candidates that are not on the hit backend.
NotOnHit(cands, hit) ==
    {i \in Indices(cands) : hit = NoHit \/ BackendOf(cands[i]) # BackendOf(hit)}

\* Where the walk begins: at the first of them from startIdx on, which may be
\* past the end of this list.
WalkStart(cands, hit, startIdx) ==
    LET start == ((startIdx - 1) % Len(cands)) + 1
        first == FirstStep(cands, start, NotOnHit(cands, hit))
    IN  IF first = Len(cands) THEN start ELSE WalkIndex(cands, start, first)

SelectBackend(cands, hit, depth, startIdx) ==
    LET start == WalkStart(cands, hit, startIdx)
        fallback == Pick(cands, start, depth, NotOnHit(cands, hit))
    IN  IF cands = <<>> THEN 0
        ELSE IF /\ hit # NoHit /\ depth[BackendOf(hit)] < CacheHitQueueLimit
                /\ HitIndex(cands, hit) # 0
          THEN HitIndex(cands, hit)
        ELSE IF fallback # 0 THEN fallback
        ELSE Pick(cands, start, depth, Indices(cands))

NextIndex_Stuck(cands, idx) == idx

\* rrIndex after a selection: the candidate after the chosen one.
NextIndex(cands, idx) == (idx % Len(cands)) + 1
=============================================================================
