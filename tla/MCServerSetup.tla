--------------------------- MODULE MCServerSetup ---------------------------
(* Instances of ServerSetup for TLC: connections are interchangeable.      *)
EXTENDS ServerSetup, TLC

SetupInterchangeable == Permutations(Conns)
=============================================================================
