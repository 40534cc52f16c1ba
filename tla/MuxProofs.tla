------------------------------ MODULE MuxProofs ------------------------------
(***************************************************************************)
(* Theorems about the multiplexer in an arbitrary application (MuxApp), for*)
(* every finite set of descriptors, every set of objects and every choice  *)
(* of callbacks.                                                           *)
(***************************************************************************)
EXTENDS MuxApp, FiniteSetTheorems, Integers, TLAPS

----------------------------------------------------------------------------
(* How the interest list changes what is registered. *)

\* Registering a descriptor adds at most one to the number of registrations.
LEMMA RegisterOne ==
  ASSUME NEW fd \in Fds, NEW d \in Objs, MuxTypeOK,
         reg' = [reg EXCEPT ![fd] = d]
  PROVE  /\ Cardinality(Registered') =
              IF fd \in Registered THEN Cardinality(Registered)
                                   ELSE Cardinality(Registered) + 1
         /\ reg' \in [Fds -> Objs \cup {Absent}]
<1>1. reg' \in [Fds -> Objs \cup {Absent}]
  BY DEF MuxTypeOK
<1>2. Registered' = Registered \cup {fd}
  BY AbsentAssumption DEF MuxTypeOK, Registered
<1>3. IsFiniteSet(Registered)
  BY FdsAssumption, FS_Subset DEF Registered
<1> QED
  BY <1>1, <1>2, <1>3, FS_AddElement

\* Taking a descriptor off the list removes its registration and no other.
LEMMA UnregisterOne ==
  ASSUME NEW fd \in Fds, MuxTypeOK,
         reg' = [reg EXCEPT ![fd] = Absent]
  PROVE  /\ Cardinality(Registered') =
              IF fd \in Registered THEN Cardinality(Registered) - 1
                                   ELSE Cardinality(Registered)
         /\ reg' \in [Fds -> Objs \cup {Absent}]
<1>1. reg' \in [Fds -> Objs \cup {Absent}]
  BY DEF MuxTypeOK
<1>2. Registered' = Registered \ {fd}
  BY DEF MuxTypeOK, Registered
<1>3. IsFiniteSet(Registered)
  BY FdsAssumption, FS_Subset DEF Registered
<1> QED
  BY <1>1, <1>2, <1>3, FS_RemoveElement

\* The number of registrations is a natural number, and positive when there
\* is one.
LEMMA RegisteredCardinality ==
  /\ Cardinality(Registered) \in Nat
  /\ \A fd \in Registered : Cardinality(Registered) > 0
<1>1. IsFiniteSet(Registered)
  BY FdsAssumption, FS_Subset DEF Registered
<1>2. Cardinality(Registered) \in Nat
  BY <1>1, FS_CardinalityType
<1>3. \A fd \in Registered : Cardinality(Registered) # 0
  BY <1>1, FS_EmptySet
<1> QED
  BY <1>2, <1>3

\* An empty interest list has no registrations.
LEMMA NothingRegistered ==
  ASSUME reg = [fd \in Fds |-> Absent]
  PROVE  Cardinality(Registered) = 0
<1>1. Registered = {}
  BY DEF Registered
<1> QED
  BY <1>1, FS_EmptySet

----------------------------------------------------------------------------
(* The counter is never too small. *)

\* The type invariant is not inductive alone: ae_mux_rm decrements the
\* counter, which is a natural number only because the counter covers the
\* registrations.
CountInv == MuxTypeOK /\ CountCoversRegistered

\* Registration calls keep the counter above the number of registrations.
LEMMA CtlKeepsCount ==
  ASSUME CountInv, NEW op, NEW fd \in Fds, NEW d \in Objs, MuxCtl(op, fd, d)
  PROVE  /\ reg' \in [Fds -> Objs \cup {Absent}]
         /\ count' \in Nat
         /\ CountCoversRegistered'
<1>1. reg' = [reg EXCEPT ![fd] = d] /\ count' = count + 1
  BY DEF MuxCtl
<1>2. CountCoversRegistered /\ MuxTypeOK /\ count \in Nat
  BY DEF CountInv, MuxTypeOK
<1>3. /\ Cardinality(Registered') =
              IF fd \in Registered THEN Cardinality(Registered)
                                   ELSE Cardinality(Registered) + 1
      /\ reg' \in [Fds -> Objs \cup {Absent}]
  BY <1>1, <1>2, RegisterOne
<1>4. Cardinality(Registered) \in Nat
  BY RegisteredCardinality
<1> QED
  BY <1>1, <1>2, <1>3, <1>4 DEF CountCoversRegistered

\* So does removal, which also leaves a natural number.
LEMMA RmKeepsCount ==
  ASSUME CountInv, NEW fd \in Fds, MuxRm(fd)
  PROVE  /\ reg' \in [Fds -> Objs \cup {Absent}]
         /\ count' \in Nat
         /\ CountCoversRegistered'
<1>1. CountCoversRegistered /\ MuxTypeOK /\ count \in Nat
  BY DEF CountInv, MuxTypeOK
<1>2. CASE fd \in open /\ fd \in Registered
  <2>1. reg' = [reg EXCEPT ![fd] = Absent] /\ count' = count - 1
    BY <1>2 DEF MuxRm
  <2>2. Cardinality(Registered) > 0
    BY <1>2, RegisteredCardinality
  <2>3. count - 1 \in Nat
    BY <1>1, <2>2, RegisteredCardinality DEF CountCoversRegistered
  <2>4. /\ Cardinality(Registered') = Cardinality(Registered) - 1
        /\ reg' \in [Fds -> Objs \cup {Absent}]
    BY <1>1, <1>2, <2>1, UnregisterOne
  <2>5. Cardinality(Registered) \in Nat
    BY RegisteredCardinality
  <2> QED
    BY <1>1, <2>1, <2>3, <2>4, <2>5 DEF CountCoversRegistered
<1>3. CASE ~(fd \in open /\ fd \in Registered)
  <2>1. UNCHANGED <<reg, count>>
    BY <1>3 DEF MuxRm
  <2> QED
    BY <1>1, <2>1 DEF MuxTypeOK, CountCoversRegistered, Registered
<1> QED
  BY <1>2, <1>3

\* The loop thread's own steps are well typed and leave the registrations
\* and the counter alone.
LEMMA LoopStep ==
  ASSUME CountInv,
         Wait \/ BarrierOpens \/ DispatchEvent \/ CallbackStarts
              \/ CallbackReturns \/ WaitEnds
  PROVE  /\ UNCHANGED <<open, reg, count>>
         /\ pc' \in {"app", "barrier", "dispatch", "callback"}
         /\ batch' \subseteq Event /\ cur' \subseteq Event
         /\ todo' \subseteq Kinds
<1> USE DEF CountInv
<1>1. CASE Wait
  <2>1. PICK pool \in Threadpools, conds \in [Registered -> SUBSET Conditions] :
          WaitReturns(ReadyEvents(conds), pool)
    BY <1>1 DEF Wait
  <2>2. ReadyEvents(conds) \subseteq Event
    <3>1. \A fd \in Registered :
            /\ fd \in Fds /\ reg[fd] \in Objs
            /\ conds[fd] \cap Reportable(reg[fd]) \in SUBSET Kinds
      BY <2>1, CallsAssumption DEF Registered, MuxTypeOK
    <3> QED
      BY <3>1 DEF ReadyEvents, Event
  <2> QED
    BY <1>1, <2>1, <2>2 DEF Wait, WaitReturns, MuxTypeOK
<1>2. CASE BarrierOpens
  BY <1>2 DEF BarrierOpens, MuxTypeOK
<1>3. CASE DispatchEvent
  <2>1. PICK ev \in batch :
          batch' = batch \ {ev} /\ cur' = {ev}
            /\ todo' = ev.conds \cap HandlersOf[ev.obj]
    BY <1>3 DEF DispatchEvent
  <2>2. ev \in Event
    BY <2>1 DEF MuxTypeOK
  <2>3. ev.conds \subseteq Kinds
    BY <2>2 DEF Event
  <2> QED
    BY <1>3, <2>1, <2>2, <2>3 DEF DispatchEvent, MuxTypeOK
<1>4. CASE CallbackStarts
  BY <1>4 DEF CallbackStarts, NextCallback, MuxTypeOK
<1>5. CASE CallbackReturns
  BY <1>5 DEF CallbackReturns, MuxTypeOK
<1>6. CASE WaitEnds
  BY <1>6 DEF WaitEnds, MuxTypeOK
<1> QED
  BY <1>1, <1>2, <1>3, <1>4, <1>5, <1>6

LEMMA CountInit == MuxInit => CountInv
<1> SUFFICES ASSUME MuxInit PROVE CountInv
  OBVIOUS
<1>1. MuxTypeOK
  BY DEF MuxInit, MuxTypeOK
<1>2. Cardinality(Registered) = 0
  BY NothingRegistered DEF MuxInit
<1> QED
  BY <1>1, <1>2 DEF MuxInit, CountInv, CountCoversRegistered

LEMMA CountStep == CountInv /\ [MuxAppNext]_muxVars => CountInv'
<1> SUFFICES ASSUME CountInv, [MuxAppNext]_muxVars PROVE CountInv'
  OBVIOUS
<1>0. MuxTypeOK /\ CountCoversRegistered
  BY DEF CountInv
<1>1. ASSUME NEW fd \in Fds, OpenFd(fd) PROVE CountInv'
  BY <1>0, <1>1 DEF OpenFd, CountInv, MuxTypeOK, CountCoversRegistered,
                    Registered
<1>2. ASSUME NEW fd \in Fds, CloseFd(fd) PROVE CountInv'
  <2>1. open' = open \ {fd} /\ reg' = [reg EXCEPT ![fd] = Absent]
        /\ UNCHANGED <<count, pc, batch, cur, todo>>
    BY <1>2 DEF CloseFd, CloseDescriptor
  <2>2. MuxTypeOK'
    BY <1>0, <2>1, UnregisterOne DEF MuxTypeOK, Event
  <2>3. Cardinality(Registered') =
          IF fd \in Registered THEN Cardinality(Registered) - 1
                               ELSE Cardinality(Registered)
    BY <1>0, <2>1, UnregisterOne
  <2>4. Cardinality(Registered) \in Nat
    BY RegisteredCardinality
  <2>5. count \in Nat
    BY <1>0 DEF MuxTypeOK
  <2>6. CountCoversRegistered'
    BY <1>0, <2>1, <2>3, <2>4, <2>5 DEF CountCoversRegistered
  <2> QED
    BY <2>2, <2>6 DEF CountInv
<1>3. ASSUME NEW fd \in Fds, Rm(fd) PROVE CountInv'
  BY <1>0, <1>3, RmKeepsCount DEF Rm, CountInv, MuxTypeOK, Event
<1>4. ASSUME NEW d \in Objs, Add(d) PROVE CountInv'
  BY <1>0, <1>4, CtlKeepsCount, FdOfAssumption
     DEF Add, CountInv, MuxTypeOK, Event
<1>5. ASSUME NEW d \in Objs, Mod(d) PROVE CountInv'
  BY <1>0, <1>5, CtlKeepsCount, FdOfAssumption
     DEF Mod, CountInv, MuxTypeOK, Event
<1>6. CASE Reinit
  <2>1. MuxTypeOK'
    BY <1>0, <1>6 DEF Reinit, MuxTypeOK, Event
  <2>2. Registered' = {}
    BY <1>6 DEF Reinit, Registered
  <2> QED
    BY <1>6, <2>1, <2>2, FS_EmptySet
       DEF Reinit, CountInv, CountCoversRegistered
<1>7. CASE Wait \/ BarrierOpens \/ DispatchEvent \/ CallbackStarts
           \/ CallbackReturns \/ WaitEnds
  BY <1>0, <1>7, LoopStep DEF CountInv, MuxTypeOK, CountCoversRegistered,
                              Registered, Event
<1>8. CASE UNCHANGED muxVars
  BY <1>0, <1>8 DEF muxVars, CountInv, MuxTypeOK, CountCoversRegistered,
                    Registered, Event
<1> QED
  BY <1>1, <1>2, <1>3, <1>4, <1>5, <1>6, <1>7, <1>8 DEF MuxAppNext

\* Whatever the application does, the variables keep their types; in
\* particular the unsigned counter never goes below zero.
THEOREM MuxTypeCorrect == MuxAppSpec => []MuxTypeOK
<1>1. CountInv => MuxTypeOK
  BY DEF CountInv
<1> QED
  BY <1>1, CountInit, CountStep, PTL DEF MuxAppSpec

\* Whatever the application does, the counter that ae_mux_wait relies on is
\* never smaller than the number of registered descriptors.
THEOREM CountNeverTooSmall == MuxAppSpec => []CountCoversRegistered
<1>1. CountInv => CountCoversRegistered
  BY DEF CountInv
<1> QED
  BY <1>1, CountInit, CountStep, PTL DEF MuxAppSpec

----------------------------------------------------------------------------
(* When the counter is exact. *)

\* A disciplined application registers a descriptor once and removes it
\* before closing it.
ExactInv == CountInv /\ CountIsRegistered

LEMMA ExactInit == MuxInit => ExactInv
<1> SUFFICES ASSUME MuxInit PROVE ExactInv
  OBVIOUS
<1>1. Cardinality(Registered) = 0
  BY NothingRegistered DEF MuxInit
<1> QED
  BY <1>1, CountInit DEF MuxInit, ExactInv, CountIsRegistered

LEMMA ExactStep ==
  ASSUME Disciplined
  PROVE  ExactInv /\ [MuxAppNext]_muxVars => ExactInv'
<1> SUFFICES ASSUME ExactInv, [MuxAppNext]_muxVars PROVE ExactInv'
  OBVIOUS
<1>0. CountInv /\ MuxTypeOK /\ count = Cardinality(Registered)
      /\ Cardinality(Registered) \in Nat
  BY RegisteredCardinality DEF ExactInv, CountInv, CountIsRegistered
<1> SUFFICES CountIsRegistered'
  BY <1>0, CountStep DEF ExactInv
<1>1. ASSUME NEW fd \in Fds, OpenFd(fd) PROVE CountIsRegistered'
  BY <1>0, <1>1 DEF OpenFd, CountIsRegistered, Registered
<1>2. ASSUME NEW fd \in Fds, CloseFd(fd) PROVE CountIsRegistered'
  <2>1. fd \notin Registered /\ reg' = [reg EXCEPT ![fd] = Absent]
        /\ count' = count
    BY <1>2 DEF CloseFd, CloseDescriptor
  <2>2. Cardinality(Registered') = Cardinality(Registered)
    BY <1>0, <2>1, UnregisterOne
  <2> QED
    BY <1>0, <2>1, <2>2 DEF CountIsRegistered
<1>3. ASSUME NEW fd \in Fds, Rm(fd) PROVE CountIsRegistered'
  <2>1. CASE fd \in open /\ fd \in Registered
    <3>1. reg' = [reg EXCEPT ![fd] = Absent] /\ count' = count - 1
      BY <1>3, <2>1 DEF Rm, MuxRm
    <3>2. Cardinality(Registered') = Cardinality(Registered) - 1
      BY <1>0, <2>1, <3>1, UnregisterOne
    <3> QED
      BY <1>0, <3>1, <3>2 DEF CountIsRegistered
  <2>2. CASE ~(fd \in open /\ fd \in Registered)
    BY <1>0, <1>3, <2>2 DEF Rm, MuxRm, CountIsRegistered, Registered
  <2> QED
    BY <2>1, <2>2
<1>4. ASSUME NEW d \in Objs, Add(d) PROVE CountIsRegistered'
  <2>1. /\ FdOf[d] \in Fds /\ FdOf[d] \notin Registered
        /\ reg' = [reg EXCEPT ![FdOf[d]] = d] /\ count' = count + 1
    BY <1>4, FdOfAssumption DEF Add, MuxCtl
  <2>2. Cardinality(Registered') = Cardinality(Registered) + 1
    BY <1>0, <2>1, RegisterOne
  <2> QED
    BY <1>0, <2>1, <2>2 DEF CountIsRegistered
<1>5. ASSUME NEW d \in Objs, Mod(d) PROVE CountIsRegistered'
  BY <1>5 DEF Mod
<1>6. CASE Reinit
  <2>1. Registered' = {} /\ count' = 0
    BY <1>6 DEF Reinit, Registered
  <2> QED
    BY <2>1, FS_EmptySet DEF CountIsRegistered
<1>7. CASE Wait \/ BarrierOpens \/ DispatchEvent \/ CallbackStarts
           \/ CallbackReturns \/ WaitEnds
  <2>1. UNCHANGED <<open, reg, count>>
    BY <1>0, <1>7, LoopStep
  <2> QED
    BY <1>0, <2>1 DEF CountIsRegistered, Registered
<1>8. CASE UNCHANGED muxVars
  BY <1>0, <1>8 DEF muxVars, CountIsRegistered, Registered
<1> QED
  BY <1>1, <1>2, <1>3, <1>4, <1>5, <1>6, <1>7, <1>8 DEF MuxAppNext

\* In a disciplined application the counter is what its comment says it is,
\* the number of registered descriptors.
THEOREM DisciplinedCountIsExact ==
  ASSUME Disciplined
  PROVE  MuxAppSpec => []CountIsRegistered
<1>1. ExactInv => CountIsRegistered
  BY DEF ExactInv
<1>2. ExactInv /\ [MuxAppNext]_muxVars => ExactInv'
  BY ExactStep
<1> QED
  BY <1>1, <1>2, ExactInit, PTL DEF MuxAppSpec

=============================================================================
