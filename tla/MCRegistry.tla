------------------------------ MODULE MCRegistry ------------------------------
(* A small instance of Registry for TLC. *)
EXTENDS Registry, TLC

CONSTANTS b1, b2, m1, m2

MCKeyOrder == <<b1, b2>>

\* b1 has m1 loaded, b2 has m2 or nothing.
MCLoads == (b1 :> {{m1}}) @@ (b2 :> {{m2}, {}})
=============================================================================
