------------------------------- MODULE MCPool -------------------------------
(* Instances of Pool for TLC: pages of two alignment units.                *)
EXTENDS Pool
SmallSizes == {0, 1, 2, 3, 5}
HugeSizes  == {1, 61}
=============================================================================
