----------------------- MODULE MCTransactionalKVStore -----------------------
(* A small instance of TransactionalKVStore for TLC. *)
EXTENDS TransactionalKVStore, TLC

CONSTANTS k1, k2, k3, a, b

MCInput == {<<a>>, <<b>>}
MCNotFound == <<b>>
Symmetry == Permutations({k1, k2, k3})
=============================================================================
