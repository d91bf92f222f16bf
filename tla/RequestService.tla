---------------------------- MODULE RequestService ----------------------------
(***************************************************************************)
(* What the dispatcher promises its clients and its backends, whatever the *)
(* route a request takes: an accepted request is granted at most one slot, *)
(* once; while it has the slot no other request has it; and it is settled  *)
(* exactly once, after which it has no slot and never gets one again.      *)
(*                                                                         *)
(* Dispatcher implements this specification: see Dispatcher!Service.       *)
(***************************************************************************)
CONSTANTS
    Requests,   (* chat requests                                            *)
    Slots,      (* the slots of all backends                                *)
    None        (* no request                                               *)

VARIABLES
    stage,      (* stage[r]: how far r has come                             *)
    holder      (* holder[s]: the request that has slot s, or None          *)

Stages == {"new", "refused", "accepted", "granted", "answered", "settled"}

Init ==
    /\ stage = [r \in Requests |-> "new"]
    /\ holder = [s \in Slots |-> None]

Step(r, from, to) ==
    /\ stage[r] \in from
    /\ stage' = [stage EXCEPT ![r] = to]

GivesBack(r) == holder' = [s \in Slots |-> IF holder[s] = r THEN None ELSE holder[s]]

Accept(r) == Step(r, {"new"}, "accepted") /\ UNCHANGED holder
Refuse(r) == Step(r, {"new"}, "refused") /\ UNCHANGED holder

Grant(r, s) ==
    /\ Step(r, {"accepted"}, "granted")
    /\ holder[s] = None
    /\ holder' = [holder EXCEPT ![s] = r]

\* The slot is free before the handler is told, so that the next request can
\* start while the answer is being delivered.
Answer(r) == Step(r, {"accepted", "granted"}, "answered") /\ GivesBack(r)

Settle(R) ==
    /\ R # {}
    /\ \A r \in R : stage[r] \in {"accepted", "granted", "answered"}
    /\ stage' = [r \in Requests |-> IF r \in R THEN "settled" ELSE stage[r]]
    /\ holder' = [s \in Slots |-> IF holder[s] \in R THEN None ELSE holder[s]]

Next ==
    \/ \E r \in Requests : Accept(r) \/ Refuse(r) \/ Answer(r)
    \/ \E r \in Requests, s \in Slots : Grant(r, s)
    \/ \E R \in SUBSET Requests : Settle(R)

Spec == Init /\ [][Next]_<<stage, holder>>
=============================================================================
