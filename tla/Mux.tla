-------------------------------- MODULE Mux --------------------------------
(***************************************************************************)
(* The event multiplexer of libae/mux.c: ae_mux_t, the wrapper around an    *)
(* epoll instance, as a component.  MuxApp puts an arbitrary application    *)
(* around it and Server the server of libae/server.c.                      *)
(*                                                                         *)
(* The object keeps a counter of registrations of its own (`count') beside *)
(* the kernel's interest list (`reg'); ae_mux_wait trusts the counter: it  *)
(* skips epoll entirely when the counter is zero and passes it as the size *)
(* of the result array.  One call of ae_mux_wait copies a batch of events  *)
(* out of the kernel and then runs the callbacks of each event; callbacks  *)
(* are application code and may add, modify, remove and close descriptors, *)
(* so what the batch says may be stale when it is used.                    *)
(*                                                                         *)
(* The object has no lock and is used from one thread.  The timing of the  *)
(* wait is the subject of module MuxWait.                                  *)
(***************************************************************************)
EXTENDS Naturals, FiniteSets

CONSTANTS
  Fds,          \* descriptor numbers
  Objs,         \* ae_mux_event_t objects that are registered
  HandlersOf,   \* the callbacks of an object that are not NULL
  Absent        \* "the descriptor is not in the interest list"

Kinds == {"read", "write", "hangup", "priority", "error"}

ASSUME FdsAssumption      == IsFiniteSet(Fds)
ASSUME HandlersAssumption == HandlersOf \in [Objs -> SUBSET Kinds]
ASSUME AbsentAssumption   == Absent \notin Objs

VARIABLES
  open,    \* descriptors open in the process
  reg,     \* the kernel's interest list: descriptor -> object or Absent
  count,   \* self->count
  pc,      \* where the event-loop thread is
  batch,   \* events copied out by epoll_wait and not yet dispatched
  cur,     \* the event being dispatched: a set of at most one
  todo     \* callbacks of that event which are still to be considered

muxVars == <<open, reg, count, pc, batch, cur, todo>>

Registered == {fd \in Fds : reg[fd] # Absent}
Event      == [fd : Fds, obj : Objs, conds : SUBSET Kinds]

MuxTypeOK ==
  /\ open \subseteq Fds
  /\ reg \in [Fds -> Objs \cup {Absent}]
  /\ count \in Nat
  /\ pc \in {"app", "barrier", "dispatch", "callback"}
  /\ batch \subseteq Event
  /\ cur \subseteq Event
  /\ todo \subseteq Kinds

MuxInit ==
  /\ open = {}
  /\ reg = [fd \in Fds |-> Absent]
  /\ count = 0
  /\ pc = "app"
  /\ batch = {}
  /\ cur = {}
  /\ todo = {}

----------------------------------------------------------------------------
(* Registration. *)

\* ae_mux_event_to_flags: the conditions asked for; EPOLLERR is never asked.
EventFlags(d) == HandlersOf[d] \ {"error"}

\* What epoll may report for an object: HUP and ERR come unasked.
Reportable(d) == EventFlags(d) \cup {"hangup", "error"}

\* ae_mux_ctl: an ADD that meets EEXIST is turned into a MOD, and every
\* success, whichever operation it was, increments the counter.
MuxCtl(op, fd, d) ==
  /\ fd \in open
  /\ op = "ADD" \/ fd \in Registered
  /\ reg' = [reg EXCEPT ![fd] = d]
  /\ count' = count + 1

\* Mutants of MuxRm: the counter is left alone, or decremented untested.
MuxRmUncounted(fd) ==
  IF fd \in open /\ fd \in Registered
  THEN reg' = [reg EXCEPT ![fd] = Absent] /\ UNCHANGED count
  ELSE UNCHANGED <<reg, count>>

MuxRmUntested(fd) ==
  /\ reg' = [reg EXCEPT ![fd] = Absent]
  /\ count' = count - 1

\* ae_mux_rm: nothing happens for a closed descriptor, nor when epoll does
\* not know the descriptor.
MuxRm(fd) ==
  IF fd \in open /\ fd \in Registered
  THEN /\ reg' = [reg EXCEPT ![fd] = Absent]
       /\ count' = count - 1
  ELSE UNCHANGED <<reg, count>>

\* close(2): the kernel takes the descriptor off the interest list behind
\* the multiplexer's back.
CloseDescriptor(fd) ==
  /\ open' = open \ {fd}
  /\ reg' = [reg EXCEPT ![fd] = Absent]

----------------------------------------------------------------------------
(* ae_mux_wait. *)

\* epoll_wait copies at most `count' of the ready events and ae_mux_wait
\* starts on them.  A caller with a thread pool goes to the barrier: the
\* line that would hand the event to the pool is commented out.
WaitReturns(ready, pool) ==
  /\ pc = "app"
  /\ count # 0
  /\ \E chosen \in SUBSET ready :
       /\ chosen # {}
       /\ Cardinality(chosen) = IF Cardinality(ready) <= count
                                THEN Cardinality(ready)
                                ELSE count
       /\ batch' = chosen
  /\ pc' = IF pool THEN "barrier" ELSE "dispatch"
  /\ UNCHANGED <<cur, todo>>

\* The barrier is initialised with one place per event and only the waiting
\* thread ever arrives, so it opens for a batch of one and for no other.
BarrierOpens ==
  /\ pc = "barrier"
  /\ Cardinality(batch) = 1
  /\ batch' = {}
  /\ pc' = "app"
  /\ UNCHANGED <<open, reg, count, cur, todo>>

\* Mutant of DispatchEvent: the loop over the batch does not advance.
DispatchEventAgain ==
  /\ pc = "dispatch"
  /\ todo = {}
  /\ \E ev \in batch :
       /\ cur' = {ev}
       /\ todo' = ev.conds \cap HandlersOf[ev.obj]
  /\ UNCHANGED <<open, reg, count, pc, batch>>

\* ae_mux_singlethread_handler starts on the next event of the batch.
DispatchEvent ==
  /\ pc = "dispatch"
  /\ todo = {}
  /\ \E ev \in batch :
       /\ batch' = batch \ {ev}
       /\ cur' = {ev}
       /\ todo' = ev.conds \cap HandlersOf[ev.obj]
  /\ UNCHANGED <<open, reg, count, pc>>

Rank == [read |-> 1, write |-> 2, hangup |-> 3, priority |-> 4, error |-> 5]

\* Callback k of the current event is called: the tests of
\* ae_mux_singlethread_handler are made in the order of Rank.
NextCallback(k) ==
  /\ pc = "dispatch"
  /\ k \in todo
  /\ \A j \in todo : Rank[k] <= Rank[j]
  /\ todo' = todo \ {k}

\* The loop over the batch is over and ae_mux_wait returns.
WaitEnds ==
  /\ pc = "dispatch"
  /\ batch = {} /\ todo = {}
  /\ pc' = "app"
  /\ cur' = {}
  /\ UNCHANGED <<open, reg, count, batch, todo>>

----------------------------------------------------------------------------
(* What the component promises. *)

\* The counter never falls below the number of registered descriptors.
\* Both uses of the counter in ae_mux_wait rest on it: a zero counter means
\* there is nothing to poll, and the array limit passed to epoll_wait never
\* hides a ready descriptor.
CountCoversRegistered == Cardinality(Registered) <= count

\* "The number of file descriptors registered" (ae/mux.h, member count).
CountIsRegistered == count = Cardinality(Registered)

\* "This removes a file descriptor from the event wrapper" (ae/mux.h,
\* ae_mux_rm): when the first callback of an event is called, its descriptor
\* is closed or still registered.  Whoever removed it meanwhile was the
\* callback of another event of the batch.
NoCallbackAfterRm ==
  [][ (pc = "dispatch" /\ pc' = "callback") =>
        \A ev \in cur :
          todo = ev.conds \cap HandlersOf[ev.obj] /\ ev.fd \in open
            => ev.fd \in Registered ]_muxVars

\* "Submit each FD to a threadpool or handle in this thread" (comment in
\* ae_mux_wait): an event leaves the batch only by being dispatched.
EveryEventHandled ==
  [][ \A ev \in batch \ batch' : cur' = {ev} ]_muxVars

=============================================================================
