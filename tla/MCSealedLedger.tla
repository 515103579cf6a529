-------------------------- MODULE MCSealedLedger --------------------------
(***************************************************************************)
(* A small instance of SealedLedger for TLC: one tenant's chain is in the  *)
(* product's store and has two writers, the other's is a MemoryLedger's.   *)
(* Each tenant's key is its own.                                           *)
(***************************************************************************)
EXTENDS SealedLedger, TLC

OwnKey == [t \in Tenants |-> t]

\* Writers do the same things; the parts of a fact are only compared.
Symmetry == Permutations(Writers) \union Permutations(Named)
=============================================================================
