-------------------------- MODULE ThreadpoolProofs --------------------------
(***************************************************************************)
(* Theorems about the name of the queue (QueueName), for any finite number *)
(* of pools, with processes that die and without; and about the thread     *)
(* pool, for every number of threads, queue length, set of jobs and number *)
(* of interrupted calls.                                                   *)
(***************************************************************************)
EXTENDS QueueName, Threadpool, Integers, FiniteSetTheorems, TLAPS

----------------------------------------------------------------------------
(* The name of the queue. *)

\* Pools that have opened the queue and will not be able to report success
\* before they have taken the name away.
Pending == {p \in Pools : at[p] \in {"opened", "dead"}}

\* Pools that have a descriptor, and the queues these refer to.
Holders == {p \in Pools : has[p] # Nothing}
Held    == {has[p] : p \in Holders}

NameTypeOK ==
  /\ at \in [Pools -> {"out", "opened", "ready", "failed", "dead"}]
  /\ has \in [Pools -> Queues \cup {Nothing}]
  /\ name \in Queues \cup {Nothing}
  /\ failed \in BOOLEAN
  /\ \A p \in Pools : has[p] # Nothing <=> at[p] \in {"opened", "ready", "failed"}

\* Each name that is made allows one pool to succeed.  Hence the descriptors
\* that are one too many for their queue, and the name itself, are owed to
\* pools that are pending, until one of these fails.
Owed == Cardinality(Holders) + (IF name = Nothing THEN 0 ELSE 1)
          <= Cardinality(Held) + Cardinality(Pending)

NameInv == NameTypeOK /\ NameHasReason /\ (failed \/ Owed)

----------------------------------------------------------------------------
(* Counting pools and queues. *)

\* There are no more queues than descriptors, and as many only when no two
\* pools have the same one.
LEMMA HeldByHolders ==
  /\ IsFiniteSet(Pending) /\ IsFiniteSet(Holders) /\ IsFiniteSet(Held)
  /\ Cardinality(Pending) \in Nat /\ Cardinality(Holders) \in Nat
  /\ Cardinality(Held) \in Nat
  /\ Cardinality(Held) <= Cardinality(Holders)
  /\ \A p, q \in Holders :
       p # q /\ has[p] = has[q] => Cardinality(Held) < Cardinality(Holders)
<1> DEFINE f == [p \in Holders |-> has[p]]
<1>1. IsFiniteSet(Pending) /\ IsFiniteSet(Holders)
  BY PoolsAssumption, FS_Subset DEF Pending, Holders
<1>2. f \in Surjection(Holders, Held)
  BY DEF Held, Surjection
<1>3. /\ IsFiniteSet(Held)
      /\ Cardinality(Held) <= Cardinality(Holders)
      /\ Cardinality(Held) = Cardinality(Holders) <=> f \in Injection(Holders, Held)
  BY <1>1, <1>2, FS_Surjection
<1>4. /\ Cardinality(Pending) \in Nat /\ Cardinality(Holders) \in Nat
      /\ Cardinality(Held) \in Nat
  BY <1>1, <1>3, FS_CardinalityType
<1>5. ASSUME NEW p \in Holders, NEW q \in Holders, p # q, has[p] = has[q]
      PROVE  f \notin Injection(Holders, Held)
  BY <1>5 DEF Injection, IsInjective
<1> QED
  BY <1>1, <1>3, <1>4, <1>5

\* A pool that opens its queue is one more holder, of one queue more or of
\* one that is held already, and one more that is pending.
LEMMA OpenCounts ==
  ASSUME NameTypeOK, NEW p \in Pools, OpenQueue(p)
  PROVE  /\ Cardinality(Holders') = Cardinality(Holders) + 1
         /\ Cardinality(Pending') = Cardinality(Pending) + 1
         /\ Cardinality(Held') \in Nat
         /\ Cardinality(Held') >= Cardinality(Held)
         /\ name = Nothing => Cardinality(Held') = Cardinality(Held) + 1
         /\ name' # Nothing
<1>1. /\ name' \in Queues /\ name' # Nothing
      /\ name = Nothing => name' \notin Held
  BY PoolsAssumption DEF OpenQueue, NameTypeOK, Fresh, Held, Holders
<1>2. Holders' = Holders \cup {p} /\ p \notin Holders
  BY <1>1 DEF OpenQueue, NameTypeOK, Holders
<1>3. Pending' = Pending \cup {p} /\ p \notin Pending
  BY DEF OpenQueue, NameTypeOK, Pending
<1>4. Held' = Held \cup {name'}
  <2>1. Held' = {has'[r] : r \in Holders'}
    BY DEF Held
  <2>2. \A r \in Holders : has'[r] = has[r]
    BY <1>2 DEF OpenQueue, NameTypeOK, Holders
  <2>3. has'[p] = name'
    BY DEF OpenQueue, NameTypeOK
  <2> QED
    BY <1>2, <2>1, <2>2, <2>3 DEF Held
<1>5. /\ Cardinality(Holders') = Cardinality(Holders) + 1
      /\ Cardinality(Pending') = Cardinality(Pending) + 1
  BY <1>2, <1>3, HeldByHolders, FS_AddElement
<1>6. /\ Cardinality(Held') \in Nat
      /\ Cardinality(Held') >= Cardinality(Held)
      /\ name' \notin Held => Cardinality(Held') = Cardinality(Held) + 1
  <2>1. IsFiniteSet(Held) /\ Cardinality(Held) \in Nat
    BY HeldByHolders
  <2>2. Cardinality(Held \cup {name'}) = IF name' \in Held THEN Cardinality(Held)
                                         ELSE Cardinality(Held) + 1
    BY <2>1, FS_AddElement
  <2> QED
    BY <1>4, <2>1, <2>2
<1> QED
  BY <1>1, <1>5, <1>6

\* A pool that loses its descriptor is one holder less, and its queue may
\* be gone.
LEMMA CloseCounts ==
  ASSUME NameTypeOK, NEW p \in Pools, has[p] # Nothing,
         has' = [has EXCEPT ![p] = Nothing]
  PROVE  /\ Cardinality(Holders') = Cardinality(Holders) - 1
         /\ Cardinality(Held') \in Nat
         /\ Cardinality(Held') >= Cardinality(Held) - 1
<1>1. Holders' = Holders \ {p} /\ p \in Holders
  BY DEF NameTypeOK, Holders
<1>2. Held \ {has[p]} \subseteq Held'
  <2>1. Held' = {has'[r] : r \in Holders'}
    BY DEF Held
  <2>2. \A r \in Holders \ {p} : has'[r] = has[r]
    BY DEF NameTypeOK, Holders
  <2> QED
    BY <1>1, <2>1, <2>2 DEF Held
<1>3. IsFiniteSet(Held')
  <2>1. Held' \subseteq Held \cup {Nothing}
    BY <1>1 DEF Held, Holders, NameTypeOK
  <2> QED
    BY <2>1, HeldByHolders, FS_AddElement, FS_Subset
<1>4. /\ IsFiniteSet(Held \ {has[p]})
      /\ Cardinality(Held \ {has[p]}) = Cardinality(Held) - 1
  <2>1. has[p] \in Held
    BY <1>1 DEF Held
  <2> QED
    BY <2>1, HeldByHolders, FS_RemoveElement
<1>5. Cardinality(Held \ {has[p]}) <= Cardinality(Held')
  BY <1>2, <1>3, FS_Subset
<1> QED
  BY <1>1, <1>3, <1>4, <1>5, HeldByHolders, FS_RemoveElement, FS_CardinalityType

----------------------------------------------------------------------------
(* The invariant. *)

LEMMA NameInitInv == NameInit => NameInv
<1> SUFFICES ASSUME NameInit PROVE NameInv
  OBVIOUS
<1>1. NameTypeOK /\ NameHasReason
  BY DEF NameInit, NameTypeOK, NameHasReason
<1>2. Holders = {}
  BY DEF NameInit, Holders
<1>3. Cardinality(Holders) = 0
  BY <1>2, FS_EmptySet
<1> QED
  BY <1>1, <1>3, HeldByHolders DEF NameInit, NameInv, Owed

LEMMA NameStepInv == NameInv /\ [NameNext]_nameVars => NameInv'
<1> SUFFICES ASSUME NameInv, [NameNext]_nameVars PROVE NameInv'
  OBVIOUS
<1>0. NameTypeOK /\ NameHasReason /\ (failed \/ Owed)
  BY DEF NameInv
<1>1. ASSUME NEW p \in Pools, OpenQueue(p) PROVE NameInv'
  <2>1. NameTypeOK'
    BY <1>0, <1>1, PoolsAssumption DEF OpenQueue, NameTypeOK, Fresh
  <2>2. NameHasReason'
    BY <1>0, <1>1 DEF OpenQueue, NameTypeOK, NameHasReason
  <2>3. failed' \/ Owed'
    <3>1. CASE failed
      BY <1>1, <3>1 DEF OpenQueue
    <3>2. CASE Owed
      <4>1. /\ Cardinality(Holders') = Cardinality(Holders) + 1
            /\ Cardinality(Pending') = Cardinality(Pending) + 1
            /\ Cardinality(Held') \in Nat
            /\ Cardinality(Held') >= Cardinality(Held)
            /\ name = Nothing => Cardinality(Held') = Cardinality(Held) + 1
            /\ name' # Nothing
        BY <1>0, <1>1, OpenCounts
      <4>2. /\ Cardinality(Pending) \in Nat /\ Cardinality(Holders) \in Nat
            /\ Cardinality(Held) \in Nat
        BY HeldByHolders
      <4>3. Owed'
        BY <3>2, <4>1, <4>2 DEF Owed
      <4> QED
        BY <4>3
    <3> QED
      BY <1>0, <3>1, <3>2
  <2> QED
    BY <2>1, <2>2, <2>3 DEF NameInv
<1>2. ASSUME NEW p \in Pools, UnlinkName(p) PROVE NameInv'
  <2>1. NameTypeOK'
    BY <1>0, <1>2 DEF UnlinkName, NameTypeOK
  <2>2. NameHasReason'
    BY <1>2 DEF UnlinkName, NameHasReason
  <2>3. failed' \/ Owed'
    <3>1. CASE failed \/ name = Nothing
      BY <1>2, <3>1 DEF UnlinkName
    <3>2. CASE ~failed /\ name # Nothing
      <4>1. Pending' = Pending \ {p} /\ p \in Pending
        BY <1>0, <1>2, <3>2 DEF UnlinkName, NameTypeOK, Pending
      <4>2. Cardinality(Pending') = Cardinality(Pending) - 1
        BY <4>1, HeldByHolders, FS_RemoveElement
      <4>3. Holders' = Holders /\ Held' = Held
        BY <1>2 DEF UnlinkName, Holders, Held
      <4>4. name' = Nothing /\ Owed
        BY <1>0, <1>2, <3>2 DEF UnlinkName
      <4> QED
        BY <3>2, <4>2, <4>3, <4>4, HeldByHolders DEF Owed
    <3> QED
      BY <3>1, <3>2, <1>0 DEF NameTypeOK
  <2> QED
    BY <2>1, <2>2, <2>3 DEF NameInv
<1>3. ASSUME NEW p \in Pools, CloseQueue(p) \/ Crash(p) PROVE NameInv'
  <2>1. NameTypeOK'
    BY <1>0, <1>3 DEF CloseQueue, Crash, NameTypeOK
  <2>2. NameHasReason'
    BY <1>0, <1>3 DEF CloseQueue, Crash, NameTypeOK, NameHasReason
  <2>3. Pending' = Pending
    BY <1>0, <1>3 DEF CloseQueue, Crash, NameTypeOK, Pending
  <2>4. has[p] # Nothing /\ has' = [has EXCEPT ![p] = Nothing]
    BY <1>0, <1>3 DEF CloseQueue, Crash, NameTypeOK
  <2>5. /\ Cardinality(Holders') = Cardinality(Holders) - 1
        /\ Cardinality(Held') \in Nat
        /\ Cardinality(Held') >= Cardinality(Held) - 1
    BY <1>0, <2>4, CloseCounts
  <2>6. name' = name /\ failed' = failed
    BY <1>3 DEF CloseQueue, Crash
  <2>7. failed' \/ Owed'
    BY <1>0, <2>3, <2>5, <2>6, HeldByHolders DEF Owed
  <2> QED
    BY <2>1, <2>2, <2>7 DEF NameInv
<1>4. CASE UNCHANGED nameVars
  BY <1>0, <1>4 DEF nameVars, NameInv, NameTypeOK, NameHasReason, Owed, Pending,
                    Holders, Held
<1> QED
  BY <1>1, <1>2, <1>3, <1>4 DEF NameNext

THEOREM NameInvHolds == NameSpec => []NameInv
<1> QED
  BY NameInitInv, NameStepInv, PTL DEF NameSpec

----------------------------------------------------------------------------

\* A name is there only while a pool is being initialised, or because one
\* has died while it was: for any number of pools.
THEOREM NameKeepsReason == NameSpec => []NameHasReason
<1>1. NameInv => NameHasReason
  BY DEF NameInv
<1> QED
  BY <1>1, NameInvHolds, PTL

\* Two pools that were initialised with success and share a queue leave a
\* third behind, which is pending or has failed: for any number of pools.
THEOREM SharingLeavesOneBehind == NameSpec => []SharingIsNoticed
<1>1. NameInv => SharingIsNoticed
  <2> SUFFICES ASSUME NameInv, Shared, ~failed
               PROVE  \E p \in Pools : at[p] \in {"opened", "dead"}
    BY DEF SharingIsNoticed
  <2>1. PICK p \in Pools, q \in Pools : /\ p # q /\ has[p] = has[q]
                                        /\ at[p] = "ready" /\ at[q] = "ready"
    BY DEF Shared
  <2>2. p \in Holders /\ q \in Holders
    BY <2>1 DEF NameInv, NameTypeOK, Holders
  <2>3. Cardinality(Held) < Cardinality(Holders)
    BY <2>1, <2>2, HeldByHolders
  <2>4. Cardinality(Pending) > 0
    BY <2>3, HeldByHolders DEF NameInv, Owed
  <2>5. Pending # {}
    BY <2>4, FS_EmptySet
  <2> QED
    BY <2>5 DEF Pending
<1> QED
  BY <1>1, NameInvHolds, PTL

----------------------------------------------------------------------------
(* The thread pool. *)

\* Where the threads are in each phase of the owner, and that a closed queue
\* is empty.
ThreadInv ==
  /\ pc \in {"closed", "new"} => \A w \in Workers : worker[w] = "none"
  /\ pc = "starting" => /\ i < N
                        /\ \A w \in Workers : w > i => worker[w] = "none"
  /\ pc = "stopping" => i < N
  /\ pc = "abandoned" => queue = <<>>
  /\ pc = "joining" => /\ i < N
                       /\ \A w \in Workers : w <= i => worker[w] = "none"

\* A busy worker, and no other, has a job, and no two have the same; what it
\* has still to enqueue is that job's child.
WorkerInv ==
  /\ \A w \in Workers : worker[w] = "busy" <=> job[w] # NoJob
  /\ \A v, w \in Workers : job[v] = job[w] => job[v] = NoJob \/ v = w
  /\ \A w \in Workers :
       toSend[w] # NoJob => worker[w] = "busy" /\ toSend[w] = Child[job[w]]

\* A job is in one place, and once; a child is nowhere before its parent has
\* enqueued it.
PlaceInv ==
  /\ \A k, l \in 1..Len(queue) : queue[k] = queue[l] => k = l
  /\ \A k \in 1..Len(queue) : queue[k] \notin finished
  /\ \A k \in 1..Len(queue), w \in Workers : queue[k] # job[w]
  /\ \A w \in Workers : job[w] \notin finished

ChildInv ==
  \A p \in Jobs :
    Child[p] \in Queued \cup finished \cup {job[w] : w \in Workers} =>
      \/ Child[p] = NoJob
      \/ p \in finished
      \/ \E w \in Workers : job[w] = p /\ toSend[w] = NoJob

PoolInv == TypeOK /\ ThreadInv /\ WorkerInv /\ PlaceInv /\ ChildInv

----------------------------------------------------------------------------
(* The queue. *)

\* Appending adds the job at the end and nothing else.
LEMMA AppendFacts ==
  ASSUME queue \in Seq(Jobs), NEW j \in Jobs, queue' = Append(queue, j)
  PROVE  /\ queue' \in Seq(Jobs)
         /\ Len(queue') = Len(queue) + 1
         /\ \A k \in 1..Len(queue) : queue'[k] = queue[k]
         /\ queue'[Len(queue) + 1] = j
         /\ Queued' = Queued \cup {j}
<1>1. /\ queue' \in Seq(Jobs)
      /\ Len(queue') = Len(queue) + 1
      /\ \A k \in 1..Len(queue) : queue'[k] = queue[k]
      /\ queue'[Len(queue) + 1] = j
  OBVIOUS
<1>2. Len(queue) \in Nat /\ DOMAIN queue = 1..Len(queue)
      /\ DOMAIN queue' = 1..Len(queue) + 1
  BY <1>1
<1>3. Queued' = Queued \cup {j}
  BY <1>1, <1>2 DEF Queued
<1> QED
  BY <1>1, <1>3

\* Taking the head leaves the other jobs, one place further forward.
LEMMA TailFacts ==
  ASSUME queue \in Seq(Jobs), queue # <<>>, queue' = Tail(queue)
  PROVE  /\ queue' \in Seq(Jobs)
         /\ Len(queue) \in Nat /\ Len(queue) > 0
         /\ Len(queue') = Len(queue) - 1
         /\ \A k \in 1..Len(queue') : queue'[k] = queue[k + 1]
         /\ Head(queue) = queue[1] /\ Head(queue) \in Jobs
         /\ Queued = Queued' \cup {Head(queue)}
<1>1. /\ queue' \in Seq(Jobs)
      /\ Len(queue) \in Nat /\ Len(queue) > 0
      /\ Len(queue') = Len(queue) - 1
      /\ \A k \in 1..Len(queue') : queue'[k] = queue[k + 1]
      /\ Head(queue) = queue[1] /\ Head(queue) \in Jobs
  OBVIOUS
<1>2. DOMAIN queue = 1..Len(queue) /\ DOMAIN queue' = 1..Len(queue) - 1
  BY <1>1
<1>3. \A x : x \in Queued => x \in Queued' \cup {Head(queue)}
  <2> SUFFICES ASSUME NEW k \in 1..Len(queue), k # 1
               PROVE  queue[k] \in Queued'
    BY <1>1, <1>2 DEF Queued
  <2>1. k - 1 \in 1..Len(queue') /\ queue'[k - 1] = queue[k]
    BY <1>1
  <2> QED
    BY <1>1, <1>2, <2>1 DEF Queued
<1>4. Queued' \cup {Head(queue)} \subseteq Queued
  BY <1>1, <1>2 DEF Queued
<1> QED
  BY <1>1, <1>3, <1>4

----------------------------------------------------------------------------
(* The inductive invariant. *)

LEMMA PoolInit == Init => PoolInv
<1> SUFFICES ASSUME Init PROVE PoolInv
  OBVIOUS
<1> USE SizeAssumption, JobAssumption DEF Init, Workers
<1>1. TypeOK
  BY DEF TypeOK
<1>2. ThreadInv
  BY DEF ThreadInv
<1>3. WorkerInv
  BY DEF WorkerInv
<1>4. PlaceInv
  BY DEF PlaceInv
<1>5. Queued = {}
  BY DEF Queued
<1>6. ChildInv
  BY <1>5 DEF ChildInv
<1> QED
  BY <1>1, <1>2, <1>3, <1>4, <1>6 DEF PoolInv

\* The types, and the phase of each thread.
LEMMA TypeStep == PoolInv /\ [Next]_vars => TypeOK' /\ ThreadInv'
<1> SUFFICES ASSUME PoolInv, [Next]_vars PROVE TypeOK' /\ ThreadInv'
  OBVIOUS
<1>0. TypeOK /\ ThreadInv /\ WorkerInv
  BY DEF PoolInv
<1> USE <1>0, SizeAssumption, JobAssumption
    DEF TypeOK, ThreadInv, Workers, vars, queueVars, workerVars, bounds
<1>1. ASSUME NEW j \in Jobs, Enque(j) PROVE TypeOK' /\ ThreadInv'
  BY <1>1, AppendFacts DEF Enque, SendJob
<1>2. CASE Start
  BY <1>2 DEF Start
<1>3. CASE CreateFails
  BY <1>3 DEF CreateFails
<1>4. CASE Join
  BY <1>4 DEF Join
<1>5. CASE SendStopFails
  BY <1>5 DEF SendStopFails, CallFails
<1>6. CASE CreateThread
  BY <1>6 DEF CreateThread
<1>7. CASE SendStop
  BY <1>7 DEF SendStop
<1>8. CASE JoinThread
  BY <1>8 DEF JoinThread
<1>9. ASSUME NEW w \in Workers, ReceiveStop(w) PROVE TypeOK' /\ ThreadInv'
  BY <1>9 DEF ReceiveStop
<1>10. ASSUME NEW w \in Workers, ReceiveJob(w) PROVE TypeOK' /\ ThreadInv'
  BY <1>10, TailFacts DEF ReceiveJob
<1>11. ASSUME NEW w \in Workers, ReceiveFails(w) PROVE TypeOK' /\ ThreadInv'
  BY <1>11 DEF ReceiveFails, CallFails
<1>12. ASSUME NEW w \in Workers, EnqueChild(w) PROVE TypeOK' /\ ThreadInv'
  BY <1>12, AppendFacts DEF EnqueChild, SendJob
<1>13. ASSUME NEW w \in Workers, JobReturns(w) PROVE TypeOK' /\ ThreadInv'
  BY <1>13 DEF JobReturns, WorkerInv
<1>14. ASSUME NEW w \in Workers, EnqueFails(w) PROVE TypeOK' /\ ThreadInv'
  BY <1>14 DEF EnqueFails, CallFails
<1>15. CASE UNCHANGED vars
  BY <1>15
<1>16. CASE ThreadpoolInit
  BY <1>16 DEF ThreadpoolInit
<1>17. CASE ThreadpoolUninit
  BY <1>17 DEF ThreadpoolUninit
<1> QED
  BY <1>1, <1>2, <1>3, <1>4, <1>5, <1>6, <1>7, <1>8, <1>9, <1>10, <1>11,
     <1>12, <1>13, <1>14, <1>15, <1>16, <1>17 DEF Next, OwnerProceeds, WorkerProceeds

\* Steps that touch neither the queue nor a job keep every job in its place.
LEMMA NothingMoves ==
  ASSUME PoolInv, UNCHANGED <<queue, job, toSend, finished>>,
         \A w \in Workers : worker'[w] = "busy" <=> worker[w] = "busy"
  PROVE  WorkerInv' /\ PlaceInv' /\ ChildInv'
BY DEF PoolInv, WorkerInv, PlaceInv, ChildInv, Queued

\* Where a job may be enqueued from: it is nowhere yet.
Nowhere(j) ==
  /\ j \notin finished
  /\ \A k \in 1..Len(queue) : queue[k] # j
  /\ \A w \in Workers : job[w] # j

LEMMA RootIsNowhere ==
  ASSUME PoolInv, NEW j \in Jobs, Enque(j)
  PROVE  Nowhere(j)
<1>1. j \notin Running /\ j \notin Queued /\ j \notin finished
  BY DEF Enque
<1>2. \A w \in Workers : job[w] # j
  BY <1>1, JobAssumption DEF Running, PoolInv, WorkerInv
<1>3. \A k \in 1..Len(queue) : queue[k] # j
  BY <1>1 DEF Queued, PoolInv, TypeOK
<1> QED
  BY <1>1, <1>2, <1>3 DEF Nowhere

LEMMA ChildIsNowhere ==
  ASSUME PoolInv, NEW w \in Workers, EnqueChild(w)
  PROVE  toSend[w] \in Jobs /\ job[w] \in Jobs /\ toSend[w] = Child[job[w]]
         /\ Nowhere(toSend[w])
<1>0. TypeOK /\ WorkerInv /\ PlaceInv /\ ChildInv
  BY DEF PoolInv
<1>1. /\ toSend[w] # NoJob /\ toSend[w] \in Jobs
      /\ job[w] \in Jobs /\ toSend[w] = Child[job[w]]
  BY <1>0 DEF EnqueChild, TypeOK, WorkerInv
<1>2. job[w] \notin finished
  BY <1>0 DEF PlaceInv
<1>3. ~ \E v \in Workers : job[v] = job[w] /\ toSend[v] = NoJob
  BY <1>0, <1>1, JobAssumption DEF WorkerInv
<1>4. toSend[w] \notin Queued \cup finished \cup {job[v] : v \in Workers}
  BY <1>0, <1>1, <1>2, <1>3 DEF ChildInv
<1>5. \A k \in 1..Len(queue) : queue[k] # toSend[w]
  BY <1>0, <1>4 DEF Queued, TypeOK
<1> QED
  BY <1>1, <1>4, <1>5 DEF Nowhere

\* Enqueuing a job that is nowhere puts it in one place.
LEMMA EnqueueKeepsPlaces ==
  ASSUME PoolInv, NEW j \in Jobs, Nowhere(j),
         queue' = Append(queue, j), UNCHANGED <<job, finished>>
  PROVE  PlaceInv' /\ Queued' = Queued \cup {j}
<1>0. TypeOK /\ WorkerInv /\ PlaceInv /\ queue \in Seq(Jobs)
  BY DEF PoolInv, TypeOK
<1>1. /\ queue' \in Seq(Jobs) /\ Len(queue) \in Nat
      /\ Len(queue') = Len(queue) + 1
      /\ \A k \in 1..Len(queue) : queue'[k] = queue[k]
      /\ queue'[Len(queue) + 1] = j
      /\ Queued' = Queued \cup {j}
  BY <1>0, AppendFacts
<1>2. \A k \in 1..Len(queue') : k \in 1..Len(queue) \/ k = Len(queue) + 1
  BY <1>1
<1> QED
  BY <1>0, <1>1, <1>2 DEF PlaceInv, Nowhere

\* The places of the jobs after every step.
LEMMA PlaceStep == PoolInv /\ [Next]_vars => WorkerInv' /\ PlaceInv' /\ ChildInv'
<1> SUFFICES ASSUME PoolInv, [Next]_vars
             PROVE  WorkerInv' /\ PlaceInv' /\ ChildInv'
  OBVIOUS
<1>0. TypeOK /\ ThreadInv /\ WorkerInv /\ PlaceInv /\ ChildInv
      /\ queue \in Seq(Jobs)
  BY DEF PoolInv, TypeOK
<1> USE SizeAssumption, JobAssumption DEF vars, queueVars, workerVars, bounds
<1>1. ASSUME NEW j \in Jobs, Enque(j)
      PROVE  WorkerInv' /\ PlaceInv' /\ ChildInv'
  <2>1. queue' = Append(queue, j) /\ UNCHANGED <<worker, job, toSend, finished>>
        /\ \A p \in Jobs : Child[p] # j
    BY <1>1 DEF Enque, SendJob
  <2>2. PlaceInv' /\ Queued' = Queued \cup {j}
    BY <1>1, <2>1, RootIsNowhere, EnqueueKeepsPlaces
  <2>3. WorkerInv'
    BY <1>0, <2>1 DEF WorkerInv
  <2>4. ChildInv'
    BY <1>0, <2>1, <2>2 DEF ChildInv
  <2> QED
    BY <2>2, <2>3, <2>4
<1>2. CASE \/ ThreadpoolInit \/ Start \/ CreateFails \/ Join
           \/ SendStop \/ SendStopFails \/ UNCHANGED vars
  <2>1. UNCHANGED <<queue, worker, job, toSend, finished>>
    BY <1>2 DEF ThreadpoolInit, Start, CreateFails, Join, SendStop, SendStopFails
  <2> QED
    BY <2>1, NothingMoves
<1>3. CASE CreateThread
  <2>1. UNCHANGED <<queue, job, toSend, finished>>
    BY <1>3 DEF CreateThread
  <2>2. \A w \in Workers : worker'[w] = "busy" <=> worker[w] = "busy"
    BY <1>0, <1>3 DEF CreateThread, TypeOK, ThreadInv, Workers
  <2> QED
    BY <2>1, <2>2, NothingMoves
<1>4. CASE JoinThread
  <2>1. UNCHANGED <<queue, job, toSend, finished>>
    BY <1>4 DEF JoinThread
  <2>2. \A w \in Workers : worker'[w] = "busy" <=> worker[w] = "busy"
    BY <1>0, <1>4 DEF JoinThread, TypeOK, ThreadInv, Workers
  <2> QED
    BY <2>1, <2>2, NothingMoves
<1>5. ASSUME NEW w \in Workers, ReceiveStop(w) \/ ReceiveFails(w)
      PROVE  WorkerInv' /\ PlaceInv' /\ ChildInv'
  <2>1. UNCHANGED <<queue, job, toSend, finished>>
    BY <1>5 DEF ReceiveStop, ReceiveFails
  <2>2. \A v \in Workers : worker'[v] = "busy" <=> worker[v] = "busy"
    BY <1>0, <1>5 DEF ReceiveStop, ReceiveFails, TypeOK
  <2> QED
    BY <2>1, <2>2, NothingMoves
<1>6. ASSUME NEW w \in Workers, ReceiveJob(w)
      PROVE  WorkerInv' /\ PlaceInv' /\ ChildInv'
  <2> DEFINE j == Head(queue)
  <2>1. /\ worker[w] = "idle"
        /\ worker' = [worker EXCEPT ![w] = "busy"]
        /\ job' = [job EXCEPT ![w] = j]
        /\ toSend' = [toSend EXCEPT ![w] = Child[j]]
        /\ queue # <<>> /\ queue' = Tail(queue) /\ finished' = finished
    BY <1>6 DEF ReceiveJob
  <2>2. /\ queue' \in Seq(Jobs)
        /\ Len(queue) \in Nat /\ Len(queue) > 0
        /\ Len(queue') = Len(queue) - 1
        /\ \A k \in 1..Len(queue') : queue'[k] = queue[k + 1]
        /\ j = queue[1] /\ j \in Jobs
        /\ Queued = Queued' \cup {j}
    BY <1>0, <2>1, TailFacts
  <2>3. \A k \in 1..Len(queue') : k + 1 \in 1..Len(queue) /\ k + 1 # 1
    BY <2>2
  <2>4. 1 \in 1..Len(queue)
    BY <2>2
  <2>5. j \notin finished /\ \A v \in Workers : job[v] # j
    BY <1>0, <2>2, <2>4 DEF PlaceInv
  <2>6. job[w] = NoJob /\ toSend[w] = NoJob /\ j # NoJob
    BY <1>0, <2>1, <2>2 DEF WorkerInv
  <2>7. WorkerInv'
    BY <1>0, <2>1, <2>5, <2>6 DEF WorkerInv, TypeOK
  <2>8. PlaceInv'
    <3>1. \A k \in 1..Len(queue') : queue'[k] # j /\ queue'[k] \notin finished
            /\ \A v \in Workers : queue'[k] # job[v]
      BY <1>0, <2>2, <2>3, <2>4 DEF PlaceInv
    <3>2. \A k, l \in 1..Len(queue') : queue'[k] = queue'[l] => k = l
      BY <1>0, <2>2, <2>3 DEF PlaceInv
    <3> QED
      BY <1>0, <2>1, <2>5, <3>1, <3>2 DEF PlaceInv, TypeOK
  <2>9. ChildInv'
    <3> SUFFICES ASSUME NEW p \in Jobs, Child[p] # NoJob,
                        Child[p] \in Queued' \cup finished'
                                       \cup {job'[v] : v \in Workers}
                 PROVE  \/ p \in finished'
                        \/ \E v \in Workers : job'[v] = p /\ toSend'[v] = NoJob
      BY DEF ChildInv
    <3>1. Child[p] \in Queued \cup finished \cup {job[v] : v \in Workers}
      BY <1>0, <2>1, <2>2 DEF TypeOK
    <3>2. p \in finished \/ \E v \in Workers : job[v] = p /\ toSend[v] = NoJob
      BY <1>0, <3>1 DEF ChildInv
    <3>3. ASSUME NEW v \in Workers, job[v] = p, toSend[v] = NoJob
          PROVE  job'[v] = p /\ toSend'[v] = NoJob
      BY <1>0, <2>1, <2>6, <3>3 DEF TypeOK
    <3> QED
      BY <2>1, <3>2, <3>3
  <2> QED
    BY <2>7, <2>8, <2>9
<1>7. ASSUME NEW w \in Workers, EnqueChild(w)
      PROVE  WorkerInv' /\ PlaceInv' /\ ChildInv'
  <2>1. /\ queue' = Append(queue, toSend[w])
        /\ toSend' = [toSend EXCEPT ![w] = NoJob]
        /\ UNCHANGED <<worker, job, finished>>
    BY <1>7 DEF EnqueChild, SendJob
  <2>2. toSend[w] \in Jobs /\ job[w] \in Jobs /\ toSend[w] = Child[job[w]]
        /\ Nowhere(toSend[w])
    BY <1>7, ChildIsNowhere
  <2>3. PlaceInv' /\ Queued' = Queued \cup {toSend[w]}
    BY <2>1, <2>2, EnqueueKeepsPlaces
  <2>4. WorkerInv'
    BY <1>0, <2>1 DEF WorkerInv, TypeOK
  <2>5. ChildInv'
    BY <1>0, <2>1, <2>2, <2>3 DEF ChildInv, TypeOK
  <2> QED
    BY <2>3, <2>4, <2>5
<1>8. ASSUME NEW w \in Workers, JobReturns(w)
      PROVE  WorkerInv' /\ PlaceInv' /\ ChildInv'
  <2>1. /\ worker[w] = "busy" /\ toSend[w] = NoJob
        /\ finished' = finished \cup {job[w]}
        /\ worker' = [worker EXCEPT ![w] = "idle"]
        /\ job' = [job EXCEPT ![w] = NoJob]
        /\ UNCHANGED <<queue, toSend>>
    BY <1>8 DEF JobReturns
  <2>2. job[w] \in Jobs
    BY <1>0, <2>1 DEF WorkerInv, TypeOK
  <2>3. WorkerInv'
    BY <1>0, <2>1 DEF WorkerInv, TypeOK
  <2>4. PlaceInv'
    <3>1. NoJob \notin finished'
      BY <1>0, <2>1, <2>2 DEF TypeOK
    <3>2. \A k \in 1..Len(queue) : queue[k] # NoJob
      BY <1>0
    <3>3. \A v \in Workers : job'[v] = NoJob \/ (v # w /\ job'[v] = job[v])
      BY <1>0, <2>1 DEF TypeOK
    <3> QED
      BY <1>0, <2>1, <2>2, <3>1, <3>2, <3>3 DEF PlaceInv, WorkerInv
  <2>5. ChildInv'
    <3> SUFFICES ASSUME NEW p \in Jobs, Child[p] # NoJob,
                        Child[p] \in Queued' \cup finished'
                                       \cup {job'[v] : v \in Workers}
                 PROVE  \/ p \in finished'
                        \/ \E v \in Workers : job'[v] = p /\ toSend'[v] = NoJob
      BY DEF ChildInv
    <3>1. Queued' = Queued
      BY <2>1 DEF Queued
    <3>2. Child[p] \in Queued \cup finished \cup {job[v] : v \in Workers}
      BY <1>0, <2>1, <3>1 DEF TypeOK
    <3>3. p \in finished \/ \E v \in Workers : job[v] = p /\ toSend[v] = NoJob
      BY <1>0, <3>2 DEF ChildInv
    <3>4. ASSUME NEW v \in Workers, job[v] = p, toSend[v] = NoJob
          PROVE  p \in finished' \/ (job'[v] = p /\ toSend'[v] = NoJob)
      BY <1>0, <2>1, <3>4 DEF TypeOK
    <3> QED
      BY <2>1, <3>3, <3>4
  <2> QED
    BY <2>3, <2>4, <2>5
<1>9. ASSUME NEW w \in Workers, EnqueFails(w)
      PROVE  WorkerInv' /\ PlaceInv' /\ ChildInv'
  <2>1. /\ toSend' = [toSend EXCEPT ![w] = NoJob]
        /\ UNCHANGED <<queue, worker, job, finished>>
    BY <1>9 DEF EnqueFails, queueVars
  <2>2. WorkerInv'
    BY <1>0, <2>1 DEF WorkerInv, TypeOK
  <2>3. PlaceInv'
    BY <1>0, <2>1 DEF PlaceInv
  <2>4. Queued' = Queued
    BY <2>1 DEF Queued
  <2>5. ChildInv'
    BY <1>0, <2>1, <2>4 DEF ChildInv, TypeOK
  <2> QED
    BY <2>2, <2>3, <2>5
<1>10. CASE ThreadpoolUninit
  <2>1. queue' = <<>> /\ UNCHANGED <<worker, job, toSend, finished>>
    BY <1>10 DEF ThreadpoolUninit
  <2>2. Queued' = {} /\ Len(queue') = 0
    BY <2>1 DEF Queued
  <2> QED
    BY <1>0, <2>1, <2>2 DEF WorkerInv, PlaceInv, ChildInv
<1> QED
  BY <1>1, <1>2, <1>3, <1>4, <1>5, <1>6, <1>7, <1>8, <1>9, <1>10
     DEF Next, OwnerProceeds, WorkerProceeds

LEMMA PoolStep == PoolInv /\ [Next]_vars => PoolInv'
BY TypeStep, PlaceStep DEF PoolInv

LEMMA PoolInvariant == Spec => []PoolInv
BY PoolInit, PoolStep, PTL DEF Spec

\* The variables keep their types, whatever is interrupted.
THEOREM PoolTypeCorrect == Spec => []TypeOK
<1>1. PoolInv => TypeOK
  BY DEF PoolInv
<1> QED
  BY <1>1, PoolInvariant, PTL

----------------------------------------------------------------------------
(* Every thread gets a stop. *)

\* There are at most N threads alive.
LEMMA AliveCardinality ==
  /\ IsFiniteSet(Alive) /\ Cardinality(Alive) \in Nat
  /\ Cardinality(Alive) <= N
<1>1. IsFiniteSet(Workers) /\ Cardinality(Workers) = N
  BY SizeAssumption, FS_Interval DEF Workers
<1>2. Alive \subseteq Workers
  BY DEF Alive
<1> QED
  BY <1>1, <1>2, FS_Subset, FS_CardinalityType

\* A worker that exits is one alive thread fewer.
LEMMA ExitCardinality ==
  ASSUME TypeOK, NEW w \in Workers, worker[w] = "idle",
         worker' = [worker EXCEPT ![w] = "exited"]
  PROVE  Cardinality(Alive') = Cardinality(Alive) - 1
<1>1. Alive' = Alive \ {w} /\ w \in Alive
  BY DEF TypeOK, Alive
<1> QED
  BY <1>1, AliveCardinality, FS_RemoveElement

LEMMA StopStep ==
  PoolInv /\ EveryThreadGetsAStop /\ [Next]_vars => EveryThreadGetsAStop'
<1> SUFFICES ASSUME PoolInv, EveryThreadGetsAStop, [Next]_vars
             PROVE  EveryThreadGetsAStop'
  OBVIOUS
<1>0. /\ TypeOK /\ ThreadInv
      /\ stops \in Nat /\ i \in Nat /\ i <= N /\ N \in Nat /\ N > 0
      /\ Cardinality(Alive) \in Nat /\ Cardinality(Alive) <= N
  BY SizeAssumption, AliveCardinality DEF PoolInv, TypeOK
<1>1. ASSUME UNCHANGED <<pc, i, stops>>, Alive' = Alive
      PROVE  EveryThreadGetsAStop'
  BY <1>1 DEF EveryThreadGetsAStop
<1>2. ASSUME pc' \notin {"stopping", "joining"}
      PROVE  EveryThreadGetsAStop'
  BY <1>2 DEF EveryThreadGetsAStop
<1>3. ASSUME NEW j \in Jobs, Enque(j) PROVE EveryThreadGetsAStop'
  <2>1. UNCHANGED <<pc, i, stops>> /\ Alive' = Alive
    BY <1>3 DEF Enque, SendJob, workerVars, Alive
  <2> QED
    BY <2>1, <1>1
<1>4. CASE \/ ThreadpoolInit \/ ThreadpoolUninit \/ Start
           \/ CreateFails \/ CreateThread \/ SendStopFails
  BY <1>2, <1>4
     DEF ThreadpoolInit, ThreadpoolUninit, Start, CreateFails, CreateThread,
         SendStopFails
<1>5. CASE Join
  <2>1. pc' = "stopping" /\ i' = 0 /\ stops' = stops /\ Alive' = Alive
    BY <1>5 DEF Join, queueVars, workerVars, Alive
  <2> QED
    BY <1>0, <2>1 DEF EveryThreadGetsAStop
<1>6. CASE SendStop
  <2>1. /\ pc = "stopping" /\ stops' = stops + 1 /\ Alive' = Alive
        /\ i' = IF i + 1 = N THEN 0 ELSE i + 1
        /\ pc' = IF i + 1 = N THEN "joining" ELSE "stopping"
    BY <1>6 DEF SendStop, workerVars, Alive
  <2> QED
    BY <1>0, <2>1 DEF EveryThreadGetsAStop
<1>7. CASE JoinThread
  <2>1. /\ pc = "joining" /\ stops' = stops
        /\ worker[i + 1] = "exited"
        /\ worker' = [worker EXCEPT ![i + 1] = "none"]
        /\ pc' \in {"new", "joining"}
    BY <1>7 DEF JoinThread, queueVars
  <2>2. Alive' = Alive
    BY <1>0, <2>1 DEF TypeOK, Alive
  <2> QED
    BY <1>0, <2>1, <2>2 DEF EveryThreadGetsAStop
<1>8. ASSUME NEW w \in Workers, ReceiveStop(w) PROVE EveryThreadGetsAStop'
  <2>1. UNCHANGED <<pc, i>> /\ stops > 0 /\ stops' = stops - 1
        /\ worker[w] = "idle" /\ worker' = [worker EXCEPT ![w] = "exited"]
    BY <1>8 DEF ReceiveStop
  <2>2. Cardinality(Alive') = Cardinality(Alive) - 1
    BY <1>0, <2>1, ExitCardinality
  <2> QED
    BY <1>0, <2>1, <2>2 DEF EveryThreadGetsAStop
<1>9. ASSUME NEW w \in Workers, ReceiveFails(w) PROVE EveryThreadGetsAStop'
  <2>1. UNCHANGED <<pc, i, stops>>
        /\ worker[w] = "idle" /\ worker' = [worker EXCEPT ![w] = "exited"]
    BY <1>9 DEF ReceiveFails, queueVars
  <2>2. Cardinality(Alive') = Cardinality(Alive) - 1
    BY <1>0, <2>1, ExitCardinality
  <2> QED
    BY <1>0, <2>1, <2>2 DEF EveryThreadGetsAStop
<1>10. ASSUME NEW w \in Workers,
              \/ ReceiveJob(w) \/ EnqueChild(w) \/ EnqueFails(w)
              \/ JobReturns(w)
       PROVE  EveryThreadGetsAStop'
  <2>1. UNCHANGED <<pc, i, stops>>
    BY <1>10
       DEF ReceiveJob, EnqueChild, EnqueFails, JobReturns, SendJob, queueVars
  <2>2. Alive' = Alive
    BY <1>0, <1>10
       DEF ReceiveJob, EnqueChild, EnqueFails, JobReturns, TypeOK, Alive
  <2> QED
    BY <2>1, <2>2, <1>1
<1>11. CASE UNCHANGED vars
  <2>1. UNCHANGED <<pc, i, stops>> /\ Alive' = Alive
    BY <1>11 DEF vars, queueVars, workerVars, Alive
  <2> QED
    BY <2>1, <1>1
<1> QED
  BY <1>3, <1>4, <1>5, <1>6, <1>7, <1>8, <1>9, <1>10, <1>11
     DEF Next, OwnerProceeds, WorkerProceeds

\* From its first stop on, ae_threadpool_join has a stop for every thread
\* that is alive, queued or still to be sent.
THEOREM StopsSuffice == Spec => []EveryThreadGetsAStop
<1>1. Init => EveryThreadGetsAStop
  BY DEF Init, EveryThreadGetsAStop
<1> QED
  BY <1>1, PoolInvariant, StopStep, PTL DEF Spec

----------------------------------------------------------------------------
(* The pool keeps the promise of JobQueue. *)

LEMMA PromiseInit == Init => Promise!QueueInit
<1> SUFFICES ASSUME Init PROVE Promise!QueueInit
  OBVIOUS
<1>1. Running = {}
  BY DEF Init, Running
<1> QED
  BY <1>1 DEF Init, Phase, Promise!QueueInit

\* The jobs the abstract specification knows are those that are somewhere.
LEMMA KnownJobs ==
  ASSUME PoolInv, NEW j \in Jobs, Nowhere(j)
  PROVE  j \notin Promise!Known
<1>1. DOMAIN queue = 1..Len(queue)
  BY DEF PoolInv, TypeOK
<1> QED
  BY <1>1 DEF Promise!Known, Running, Nowhere

LEMMA PromiseStep ==
  PoolInv /\ [Next]_vars => [Promise!QueueNext]_(Promise!absVars)
<1> SUFFICES ASSUME PoolInv, [Next]_vars
             PROVE  Promise!QueueNext \/ UNCHANGED Promise!absVars
  OBVIOUS
<1>0. TypeOK /\ ThreadInv /\ WorkerInv /\ PlaceInv
  BY DEF PoolInv
<1>1. ASSUME NEW j \in Jobs, Enque(j) PROVE Promise!Submit(j)
  <2>1. j \notin Promise!Known
    BY <1>1, RootIsNowhere, KnownJobs
  <2>2. queue' = Append(queue, j) /\ UNCHANGED <<pc, worker, job, finished>>
        /\ pc # "abandoned"
    BY <1>1 DEF Enque, SendJob, workerVars
  <2>3. Running' = Running
    BY <2>2 DEF Running
  <2> QED
    BY <2>1, <2>2, <2>3 DEF Promise!Submit, Phase
<1>2. CASE Start
  <2>1. pc = "new" /\ pc' = "starting" /\ UNCHANGED <<queue, worker, job, finished>>
    BY <1>2 DEF Start, queueVars, workerVars
  <2>2. Running' = Running
    BY <2>1 DEF Running
  <2> QED
    BY <2>1, <2>2 DEF Promise!QueueNext, Promise!Activate, Phase
<1>3. CASE CreateFails \/ Join \/ SendStop \/ SendStopFails
  <2>1. /\ {pc, pc'} \cap {"closed", "new", "abandoned"} = {}
        /\ UNCHANGED <<queue, worker, job, finished>>
    BY <1>3 DEF CreateFails, Join, SendStop, SendStopFails, queueVars, workerVars
  <2>2. Running' = Running
    BY <2>1 DEF Running
  <2> QED
    BY <2>1, <2>2 DEF Promise!absVars, Phase
<1>4. CASE CreateThread
  <2>1. /\ {pc, pc'} \cap {"closed", "new", "abandoned"} = {}
        /\ UNCHANGED <<queue, job, finished>>
    BY <1>4 DEF CreateThread, queueVars
  <2>2. Running' = Running
    BY <1>0, <1>4 DEF CreateThread, Running, TypeOK, ThreadInv, Workers
  <2> QED
    BY <2>1, <2>2 DEF Promise!absVars, Phase
<1>5. CASE JoinThread
  <2>1. pc = "joining" /\ UNCHANGED <<queue, job, finished>>
        /\ worker[i + 1] = "exited" /\ worker' = [worker EXCEPT ![i + 1] = "none"]
        /\ pc' = IF i + 1 = N THEN "new" ELSE "joining"
    BY <1>5 DEF JoinThread, queueVars
  <2>2. Running' = Running
    BY <1>0, <2>1 DEF Running, TypeOK
  <2>3. CASE pc' = "joining"
    BY <2>1, <2>2, <2>3 DEF Promise!absVars, Phase
  <2>4. CASE pc' = "new"
    <3>1. \A w \in Workers : worker[w] # "busy"
      BY <1>0, <2>1, <2>4, SizeAssumption DEF ThreadInv, TypeOK, Workers
    <3>2. Running = {}
      BY <3>1 DEF Running
    <3> QED
      BY <2>1, <2>2, <2>4, <3>2 DEF Promise!QueueNext, Promise!Deactivate, Phase
  <2> QED
    BY <2>1, <2>3, <2>4
<1>6. ASSUME NEW w \in Workers, ReceiveStop(w) \/ ReceiveFails(w)
      PROVE  UNCHANGED Promise!absVars
  <2>1. UNCHANGED <<pc, queue, job, finished>> /\ worker[w] = "idle"
        /\ worker' = [worker EXCEPT ![w] = "exited"]
    BY <1>6 DEF ReceiveStop, ReceiveFails, queueVars
  <2>2. Running' = Running
    BY <1>0, <2>1 DEF Running, TypeOK
  <2> QED
    BY <2>1, <2>2 DEF Promise!absVars, Phase
<1>7. ASSUME NEW w \in Workers, ReceiveJob(w) PROVE Promise!Begin
  <2>1. /\ worker[w] = "idle" /\ worker' = [worker EXCEPT ![w] = "busy"]
        /\ job' = [job EXCEPT ![w] = Head(queue)]
        /\ queue # <<>> /\ queue' = Tail(queue)
        /\ UNCHANGED <<pc, finished>>
    BY <1>7 DEF ReceiveJob
  <2>2. Running' = Running \cup {Head(queue)}
    BY <1>0, <2>1 DEF Running, TypeOK
  <2>3. pc \notin {"closed", "new", "abandoned"}
    BY <1>0, <2>1 DEF ThreadInv
  <2> QED
    BY <2>1, <2>2, <2>3 DEF Promise!Begin, Phase
<1>8. ASSUME NEW w \in Workers, EnqueChild(w)
      PROVE  toSend[w] \in Jobs /\ Promise!Submit(toSend[w])
  <2>1. toSend[w] \in Jobs /\ toSend[w] \notin Promise!Known
    BY <1>8, ChildIsNowhere, KnownJobs
  <2>2. queue' = Append(queue, toSend[w]) /\ UNCHANGED <<pc, worker, job, finished>>
        /\ pc # "abandoned"
    BY <1>8 DEF EnqueChild, SendJob
  <2>3. Running' = Running
    BY <2>2 DEF Running
  <2> QED
    BY <2>1, <2>2, <2>3 DEF Promise!Submit, Phase
<1>9. ASSUME NEW w \in Workers, JobReturns(w)
      PROVE  job[w] \in Jobs /\ Promise!Finish(job[w])
  <2>1. /\ worker[w] = "busy" /\ worker' = [worker EXCEPT ![w] = "idle"]
        /\ job' = [job EXCEPT ![w] = NoJob]
        /\ finished' = finished \cup {job[w]}
        /\ UNCHANGED <<pc, queue>>
    BY <1>9 DEF JobReturns, queueVars
  <2>2. job[w] \in Jobs /\ job[w] \in Running
    BY <1>0, <2>1 DEF WorkerInv, TypeOK, Running
  <2>3. \A v \in Workers : v # w /\ worker[v] = "busy" => job[v] # job[w]
    BY <1>0, <2>1 DEF WorkerInv
  <2>4. Running' = Running \ {job[w]}
    BY <1>0, <2>1, <2>3 DEF Running, TypeOK
  <2>5. pc \notin {"closed", "new"}
    BY <1>0, <2>1 DEF ThreadInv
  <2> QED
    BY <2>1, <2>2, <2>4, <2>5 DEF Promise!Finish, Phase
<1>10. ASSUME NEW w \in Workers, EnqueFails(w)
       PROVE  UNCHANGED Promise!absVars
  BY <1>10 DEF EnqueFails, queueVars, Promise!absVars, Running, Phase
<1>11. CASE ThreadpoolInit \/ UNCHANGED vars
  BY <1>11
     DEF ThreadpoolInit, vars, queueVars, workerVars, Promise!absVars, Running,
         Phase
<1>12. CASE ThreadpoolUninit
  <2>1. queue' = <<>> /\ UNCHANGED <<worker, job, finished>>
        /\ \/ pc = "new" /\ pc' = "closed"
           \/ pc \in {"running", "failed"} /\ pc' = "abandoned"
    BY <1>12 DEF ThreadpoolUninit, workerVars
  <2>2. Running' = Running
    BY <2>1 DEF Running
  <2>3. Promise!Discard \/ Promise!Abandon
    BY <2>1, <2>2 DEF Promise!Discard, Promise!Abandon, Phase
  <2> QED
    BY <2>3 DEF Promise!QueueNext
<1> QED
  BY <1>1, <1>2, <1>3, <1>4, <1>5, <1>6, <1>7, <1>8, <1>9, <1>10, <1>11,
     <1>12
     DEF Next, OwnerProceeds, WorkerProceeds, Promise!QueueNext

\* The thread pool implements JobQueue.
THEOREM PoolImplementsJobQueue == Spec => KeepsPromise
BY PromiseInit, PromiseStep, PoolInvariant, PTL
   DEF Spec, KeepsPromise, Promise!QueueSpec
=============================================================================
