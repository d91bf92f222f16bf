---------------------------- MODULE StreamService ----------------------------
(***************************************************************************)
(* What a streamed response promises: the client receives the backend's    *)
(* chunks in order and without a gap; the slot's cache is settled once,    *)
(* when nothing is sent any more, and only then the slot is given back.    *)
(* Stream implements this with two goroutines and a bounded channel.       *)
(***************************************************************************)
EXTENDS Naturals, Sequences

VARIABLES
    phase,      (* "closed"; "open"; "settled": the cache is saved or       *)
                (* invalidated; "released": the slot is given back          *)
    received    (* the chunks the client has received, by number            *)

serviceVars == <<phase, received>>

Init == phase = "closed" /\ received = <<>>

Open == phase = "closed" /\ phase' = "open" /\ UNCHANGED received

Deliver ==
    /\ phase = "open"
    /\ received' = Append(received, Len(received) + 1)
    /\ UNCHANGED phase

Settle == phase = "open" /\ phase' = "settled" /\ UNCHANGED received

GiveBack == phase = "settled" /\ phase' = "released" /\ UNCHANGED received

Close == phase = "released" /\ phase' = "closed" /\ received' = <<>>

Next == Open \/ Deliver \/ Settle \/ GiveBack \/ Close

Spec == Init /\ [][Next]_serviceVars
=============================================================================
