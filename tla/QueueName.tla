----------------------------- MODULE QueueName -----------------------------
(***************************************************************************)
(* How thread pools come by their queues: several pools, in one process or *)
(* in many, that are initialised with the same name.  ae_threadpool_init   *)
(* opens the queue of that name, or makes one, and unlinks the name in a   *)
(* second call; other pools and a crash may come between.  What a pool     *)
(* does with its queue is the subject of module Threadpool.                *)
(***************************************************************************)
EXTENDS FiniteSets

CONSTANTS
  Pools,    \* the pools
  Queues,   \* queues in the kernel: enough for each pool and the name
  Nothing,  \* no queue
  Dies      \* may a process die between the two calls?

ASSUME PoolsAssumption == IsFiniteSet(Pools) /\ Nothing \notin Queues

VARIABLES
  at,    \* per pool: "out", "opened", "ready", "failed", "dead"
  has,   \* per pool: the queue its descriptor refers to
  name,  \* the queue the name refers to
  failed \* an ae_threadpool_init has returned false

nameVars == <<at, has, name, failed>>

NameInit ==
  /\ at = [p \in Pools |-> "out"]
  /\ has = [p \in Pools |-> Nothing]
  /\ name = Nothing
  /\ failed = FALSE

\* A queue nobody refers to any more is gone; a new one takes its place.
Fresh == Queues \ ({has[p] : p \in Pools} \cup {name})

\* mq_open with O_CREAT and without O_EXCL.
OpenQueue(p) ==
  /\ at[p] = "out"
  /\ name' \in IF name = Nothing THEN Fresh ELSE {name}
  /\ has' = [has EXCEPT ![p] = name']
  /\ at' = [at EXCEPT ![p] = "opened"]
  /\ UNCHANGED failed

\* Mutants of UnlinkName: its failure is not looked at, or the name stays.
UnlinkNameUnchecked(p) ==
  /\ at[p] = "opened"
  /\ at' = [at EXCEPT ![p] = "ready"]
  /\ name' = Nothing
  /\ UNCHANGED <<has, failed>>

UnlinkNameLater(p) ==
  /\ at[p] = "opened"
  /\ at' = [at EXCEPT ![p] = "ready"]
  /\ UNCHANGED <<has, name, failed>>

\* mq_unlink, which fails when the name has gone; the queue stays open then.
UnlinkName(p) ==
  /\ at[p] = "opened"
  /\ at' = [at EXCEPT ![p] = IF name = Nothing THEN "failed" ELSE "ready"]
  /\ failed' = (failed \/ name = Nothing)
  /\ name' = Nothing
  /\ UNCHANGED has

\* ae_threadpool_uninit.
CloseQueue(p) ==
  /\ at[p] \in {"ready", "failed"}
  /\ at' = [at EXCEPT ![p] = "out"]
  /\ has' = [has EXCEPT ![p] = Nothing]
  /\ UNCHANGED <<name, failed>>

Crash(p) ==
  /\ Dies /\ at[p] = "opened"
  /\ at' = [at EXCEPT ![p] = "dead"]
  /\ has' = [has EXCEPT ![p] = Nothing]
  /\ UNCHANGED <<name, failed>>

NameNext ==
  \E p \in Pools : OpenQueue(p) \/ UnlinkName(p) \/ CloseQueue(p) \/ Crash(p)

NameSpec == NameInit /\ [][NameNext]_nameVars

----------------------------------------------------------------------------

Shared == \E p, q \in Pools : p # q /\ at[p] = "ready" /\ at[q] = "ready"
                             /\ has[p] = has[q]

\* Two pools that were initialised with success receive from one queue, each
\* other's jobs and stops, only when some third one is left over from the same
\* race: it has not got its queue yet, it could not get it, or it has died.
SharingIsNoticed ==
  Shared => failed \/ \E p \in Pools : at[p] \in {"opened", "dead"}

\* A name is there only while a pool is being initialised, or because one has
\* died while it was.
NameHasReason == name # Nothing => \E p \in Pools : at[p] \in {"opened", "dead"}

\* "the kernel does all of the synchronization for us" (comment in
\* ae_threadpool_run): a pool has its queue for itself.
QueueIsPrivate == ~Shared

\* "avoid having the queue around after the process exits" (comment in
\* ae_threadpool_init).
NameIsTemporary == name # Nothing => \E p \in Pools : at[p] = "opened"

=============================================================================
