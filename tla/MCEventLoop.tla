---------------------------- MODULE MCEventLoop ----------------------------
(* Instances of EventLoop for TLC: two events, or an event and a timer, and *)
(* a pipe.                                                                  *)
EXTENDS EventLoop
MCFds        == Events \cup Timers \cup {Pipe}
MCHandlersOf == [fd \in MCFds |-> IF fd = Pipe THEN {"read", "hangup"} ELSE {"read"}]
=============================================================================
