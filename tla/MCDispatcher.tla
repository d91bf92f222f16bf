----------------------------- MODULE MCDispatcher -----------------------------
(* Small instances of Dispatcher for TLC. *)
EXTENDS Dispatcher, TLC

CONSTANTS b1, b2, m1, m2

\* Every client name resolves to every model.
AllModels == [r \in Requests |-> Models]

\* One model on two backends.
SharedModel == {<<b1, m1>>, <<b2, m1>>}

\* One backend, one model.
OneBackend == {<<b1, m1>>}

\* One backend that serves two models.
TwoModels == {<<b1, m1>>, <<b1, m2>>}

Symmetry == Permutations(Requests) \cup Permutations(Workers)
=============================================================================
