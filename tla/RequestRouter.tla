----------------------------- MODULE RequestRouter -----------------------------
(***************************************************************************)
(* Routing over time: the selections that match makes for a stream of      *)
(* requests while queues drain and backends go up and down.  The           *)
(* round-robin index is kept per client model name and survives changes of *)
(* the candidate list it was computed for, so it can be stale.             *)
(*                                                                         *)
(* Dispatcher uses the set rule Routable; this module shows that the       *)
(* code's search (SelectBackend) keeps to that rule in every reachable     *)
(* situation, and that its tie-breaking is fair.                           *)
(***************************************************************************)
EXTENDS BackendSelection, Functions

CONSTANTS
    Backends,   (* configured backends                                      *)
    Lists       (* Lists[c]: every candidate pair of client model c, in order *)

ASSUME RouterAssumption ==
    \A c \in DOMAIN Lists :
        /\ Lists[c] \in Seq(Range(Lists[c]))
        /\ \A p \in Range(Lists[c]) : p = <<BackendOf(p), ModelOf(p)>> /\ BackendOf(p) \in Backends

Clients == DOMAIN Lists
Pairs == UNION {Range(Lists[c]) : c \in Clients}

VARIABLES
    depth,      (* depth[b]: requests queued on backend b                   *)
    rrIndex,    (* rrIndex[c]: next round-robin position, from 1            *)
    passedOver  (* history: passedOver[c][p] successive cold selections for *)
                (* c chose another pair although p was as little loaded     *)

vars == <<depth, rrIndex, passedOver>>

Init ==
    /\ depth = [b \in Backends |-> 0]
    /\ rrIndex = [c \in Clients |-> 1]
    /\ passedOver = [c \in Clients |-> [p \in Range(Lists[c]) |-> 0]]

\* The candidates of c when the backends in live are up, in the order of the
\* list: match appends one after the other.
LiveUpTo(c, live) ==
    LET kept[n \in 0 .. Len(Lists[c])] ==
          IF n = 0 THEN <<>>
          ELSE IF BackendOf(Lists[c][n]) \in live THEN Append(kept[n - 1], Lists[c][n])
          ELSE kept[n - 1]
    IN  kept

LiveList(c, live) == LiveUpTo(c, live)[Len(Lists[c])]

\* Only a run of cold selections over the whole list counts.
CountPassed(c, cands, hit, chosen) ==
    [p \in Range(Lists[c]) |->
        IF /\ cands = Lists[c]
           /\ hit = NoHit
           /\ p # chosen
           /\ p \in LeastLoaded(HasRoom(Range(cands), depth), depth)
        THEN passedOver[c][p] + 1 ELSE 0]

\* match and tryEnqueue: the index moves on even when the queue turns out full.
Route(c, live, hit) ==
    LET cands == LiveList(c, live)
        idx == SelectBackend(cands, hit, depth, rrIndex[c])
    IN  /\ idx # 0
        /\ rrIndex' = [rrIndex EXCEPT ![c] = NextIndex(cands, idx)]
        /\ passedOver' = [passedOver EXCEPT ![c] = CountPassed(c, cands, hit, cands[idx])]
        /\ depth' = [depth EXCEPT ![BackendOf(cands[idx])] = IF @ < QueueMax THEN @ + 1 ELSE @]

\* The pump takes the head of b's queue, or a request leaves it otherwise.
Drain(b) ==
    /\ depth[b] > 0
    /\ depth' = [depth EXCEPT ![b] = @ - 1]
    /\ UNCHANGED <<rrIndex, passedOver>>

Next ==
    \/ \E c \in Clients, live \in SUBSET Backends : \E hit \in Range(Lists[c]) \cup {NoHit} :
          Route(c, live, hit)
    \/ \E b \in Backends : Drain(b)

Spec == Init /\ [][Next]_vars

-----------------------------------------------------------------------------
(* Properties *)

\* The index search of SelectBackend implements the routing rule: it finds a
\* pair the rule allows, and none exactly when the rule allows none, whatever
\* the queue depths, the hit, the live backends and the (possibly stale) index.
SelectBackendRefines ==
    \A c \in Clients, live \in SUBSET Backends : \A hit \in Range(Lists[c]) \cup {NoHit} :
        LET cands == LiveList(c, live)
            idx == SelectBackend(cands, hit, depth, rrIndex[c])
            allowed == Routable(Range(cands), hit, depth)
        IN  IF allowed = {} THEN idx = 0 ELSE idx # 0 /\ cands[idx] \in allowed

\* Ties are broken fairly ("keeping the rotation fair across equal backends"): in
\* a run of cold selections a least-loaded pair is passed over fewer times than
\* there are candidates.
RotationFair ==
    \A c \in Clients : \A p \in Range(Lists[c]) : passedOver[c][p] < Len(Lists[c])
=============================================================================
