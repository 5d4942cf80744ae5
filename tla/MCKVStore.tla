------------------------------ MODULE MCKVStore ------------------------------
(***************************************************************************)
(* TLC instances of KVStore.  Keys and values are model values; the sets   *)
(* they form are symmetric in the runs that check invariants and action    *)
(* properties only.                                                        *)
(***************************************************************************)
EXTENDS KVStore, TLC

DataSymmetry == Permutations(Keys) \cup Permutations(Values)
=============================================================================
