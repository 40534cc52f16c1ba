----------------------------- MODULE MCPtrArray -----------------------------
(* Instances of PtrArray for TLC: pages of two alignment units, each of two *)
(* pointers.  Bound: three blocks between two resets.                        *)
EXTENDS PtrArray, FiniteSets, TLC
ItemSymmetry == Permutations(Items)
FewBlocks    == Cardinality(blocks) <= 3
=============================================================================
