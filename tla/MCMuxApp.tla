------------------------------ MODULE MCMuxApp ------------------------------
(* Instances of MuxApp for TLC: two or three descriptors, one of them with *)
(* two objects that take turns on it.                                      *)
EXTENDS MuxApp

MCFds   == {"f1", "f2"}
MCObjs  == {"a", "b", "c"}
MCFdOf  == [a |-> "f1", b |-> "f2", c |-> "f2"]
MCHandlersOf == [a |-> {"read", "hangup"}, b |-> {"read", "error"}, c |-> {}]
=============================================================================
