------------------------------ MODULE MCLogRes ------------------------------
(* Instances of LogRes for TLC: a thread that reports beside one that logs. *)
EXTENDS LogRes
MCMasks == {{"DEBUG", "INFO", "ERR"}}
=============================================================================
