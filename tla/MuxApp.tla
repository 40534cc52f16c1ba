------------------------------- MODULE MuxApp -------------------------------
(***************************************************************************)
(* The multiplexer inside an arbitrary application: between two waits, and *)
(* inside every callback, the application opens and closes descriptors and *)
(* adds, modifies and removes registrations in any order the interface     *)
(* permits.  With Disciplined it keeps to the one use for which the         *)
(* counter is exact: it registers a descriptor once and removes it before  *)
(* it closes it.                                                           *)
(***************************************************************************)
EXTENDS Mux

CONSTANTS
  FdOf,         \* member fd of each ae_mux_event_t
  Conditions,   \* conditions the environment raises on descriptors
  Threadpools,  \* does a caller of ae_mux_wait pass a thread pool?
  Disciplined,  \* does the application keep to the discipline?
  NEvents,      \* slots in the caller's result array
  MaxCount      \* bound on the counter, for model checking only

ASSUME FdOfAssumption   == FdOf \in [Objs -> Fds]
ASSUME BoundsAssumption == MaxCount \in Nat /\ NEvents \in Nat
ASSUME CallsAssumption  ==
  Conditions \subseteq Kinds /\ Threadpools \subseteq BOOLEAN
                             /\ Disciplined \in BOOLEAN

InApplication == pc \in {"app", "callback"}

OpenFd(fd) ==
  /\ InApplication
  /\ fd \notin open
  /\ open' = open \cup {fd}
  /\ UNCHANGED <<reg, count, pc, batch, cur, todo>>

CloseFd(fd) ==
  /\ InApplication
  /\ fd \in open
  /\ Disciplined => fd \notin Registered
  /\ CloseDescriptor(fd)
  /\ UNCHANGED <<count, pc, batch, cur, todo>>

Add(d) ==
  /\ InApplication
  /\ count < MaxCount
  /\ Disciplined => FdOf[d] \notin Registered
  /\ MuxCtl("ADD", FdOf[d], d)
  /\ UNCHANGED <<open, pc, batch, cur, todo>>

\* ae_mux_mod ignores its argument fd and uses the object's.
Mod(d) ==
  /\ InApplication
  /\ count < MaxCount
  /\ ~Disciplined
  /\ MuxCtl("MOD", FdOf[d], d)
  /\ UNCHANGED <<open, pc, batch, cur, todo>>

Rm(fd) ==
  /\ InApplication
  /\ MuxRm(fd)
  /\ UNCHANGED <<open, pc, batch, cur, todo>>

\* ae_mux_uninit closes the epoll descriptor; ae_mux_init makes a new, empty
\* one and resets the counter.
Reinit ==
  /\ pc = "app"
  /\ reg' = [fd \in Fds |-> Absent]
  /\ count' = 0
  /\ UNCHANGED <<open, pc, batch, cur, todo>>

\* The events epoll would report when the conditions conds hold.
ReadyEvents(conds) ==
  {[fd |-> fd, obj |-> reg[fd], conds |-> conds[fd] \cap Reportable(reg[fd])] :
     fd \in {f \in Registered : conds[f] \cap Reportable(reg[f]) # {}}}

Wait ==
  /\ \E pool \in Threadpools, conds \in [Registered -> SUBSET Conditions] :
       WaitReturns(ReadyEvents(conds), pool)
  /\ UNCHANGED <<open, reg, count>>

CallbackStarts ==
  /\ \E k \in todo : NextCallback(k)
  /\ pc' = "callback"
  /\ UNCHANGED <<open, reg, count, batch, cur>>

CallbackReturns ==
  /\ pc = "callback"
  /\ pc' = "dispatch"
  /\ UNCHANGED <<open, reg, count, batch, cur, todo>>

MuxAppNext ==
  \/ \E fd \in Fds : OpenFd(fd) \/ CloseFd(fd) \/ Rm(fd)
  \/ \E d \in Objs : Add(d) \/ Mod(d)
  \/ Reinit
  \/ Wait
  \/ BarrierOpens
  \/ DispatchEvent
  \/ CallbackStarts
  \/ CallbackReturns
  \/ WaitEnds

MuxAppSpec == MuxInit /\ [][MuxAppNext]_muxVars

----------------------------------------------------------------------------

\* "n_events the size of events in elements" (ae/mux.h, ae_mux_wait): what
\* is copied out fits into the caller's array.
BatchFitsArray == Cardinality(batch) <= NEvents

=============================================================================
