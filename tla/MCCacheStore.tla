----------------------------- MODULE MCCacheStore -----------------------------
(* Small instances of CacheStore for TLC. *)
EXTENDS CacheStore

CONSTANTS b1, b2

OneBackend == <<b1>>
TwoBackends == <<b1, b2>>

Symmetry == Permutations(Transfers)
=============================================================================
