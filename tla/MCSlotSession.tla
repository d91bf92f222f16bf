---------------------------- MODULE MCSlotSession ----------------------------
(* A small instance of SlotSession for TLC. *)
EXTENDS SlotSession, TLC

CONSTANTS a, a2, x

\* A conversation a, its continuation a2, and an unrelated prompt x.
MCBlocks == (a :> <<1, 2, 3, 4>>) @@ (a2 :> <<1, 2, 3, 4, 5>>) @@ (x :> <<6>>)
=============================================================================
