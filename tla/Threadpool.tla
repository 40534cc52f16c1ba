----------------------------- MODULE Threadpool -----------------------------
(***************************************************************************)
(* The thread pool of libae/threadpool.c: worker threads that receive jobs *)
(* from a POSIX message queue.                                             *)
(*                                                                         *)
(* The queue holds at most MaxMsg messages and delivers the highest        *)
(* priority first, first in first out within a priority.  There are two    *)
(* priorities, so its content is a sequence of jobs (`queue') and a number *)
(* of stop messages (`stops') that overtake them.  Sending to a full queue *)
(* blocks; any send or receive may be interrupted by a signal and fail.    *)
(* One owner thread enqueues, starts and joins; jobs may themselves        *)
(* enqueue a further job, from the worker that runs them.                  *)
(***************************************************************************)
EXTENDS Naturals, Sequences, FiniteSets

CONSTANTS
  N,              \* n_threads
  Jobs,           \* jobs, each enqueued at most once
  NoJob,          \* "none"
  Child,          \* the job each job enqueues when it runs, or NoJob
  MaxMsg,         \* mq_maxmsg (10 in the code)
  CreateMayFail,  \* may pthread_create fail?
  MaxInterrupts,  \* bound on sends and receives that fail
  MaxRounds       \* bound on starts, for model checking only

ASSUME SizeAssumption ==
  /\ N \in Nat \ {0} /\ MaxMsg \in Nat \ {0}
  /\ MaxInterrupts \in Nat /\ MaxRounds \in Nat /\ CreateMayFail \in BOOLEAN
ASSUME JobAssumption ==
  /\ NoJob \notin Jobs /\ Child \in [Jobs -> Jobs \cup {NoJob}]
  /\ \A p, q \in Jobs : Child[p] = Child[q] => Child[p] = NoJob \/ p = q

Workers == 1..N

VARIABLES
  pc,          \* where the owner is
  i,           \* its loop counter in ae_threadpool_start and _join
  queue,       \* the jobs in the message queue
  stops,       \* the stop messages in the message queue
  worker,      \* each worker: "none", "idle", "busy", "exited"
  job,         \* the job a worker runs
  toSend,      \* the job a worker has still to enqueue for the job it runs
  finished,    \* jobs that have run to their end
  interrupts,  \* sends and receives that have failed
  rounds       \* starts so far

queueVars  == <<queue, stops>>
workerVars == <<worker, job, toSend, finished>>
bounds     == <<interrupts, rounds>>
vars       == <<pc, i, queueVars, workerVars, bounds>>

TypeOK ==
  /\ pc \in {"closed", "new", "starting", "running", "failed", "stopping",
           "joining", "abandoned"}
  /\ i \in 0..N
  /\ queue \in Seq(Jobs)
  /\ stops \in Nat
  /\ worker \in [Workers -> {"none", "idle", "busy", "exited"}]
  /\ job \in [Workers -> Jobs \cup {NoJob}]
  /\ toSend \in [Workers -> Jobs \cup {NoJob}]
  /\ finished \subseteq Jobs
  /\ interrupts \in 0..MaxInterrupts
  /\ rounds \in 0..MaxRounds

Full    == Len(queue) + stops >= MaxMsg
Alive   == {w \in Workers : worker[w] \in {"idle", "busy"}}
Running == {job[w] : w \in {v \in Workers : worker[v] = "busy"}}
Queued  == {queue[k] : k \in DOMAIN queue}

Init ==
  /\ pc = "closed" /\ i = 0
  /\ queue = <<>> /\ stops = 0
  /\ worker = [w \in Workers |-> "none"]
  /\ job = [w \in Workers |-> NoJob]
  /\ toSend = [w \in Workers |-> NoJob]
  /\ finished = {}
  /\ interrupts = 0 /\ rounds = 0

----------------------------------------------------------------------------
(* The owner. *)

\* ae_threadpool_init makes a queue of its own: the name is unlinked at once.
\* When only mq_unlink fails the queue is open nevertheless, and a caller who
\* goes on has the same pool; without a queue every call fails.
ThreadpoolInit ==
  /\ pc = "closed"
  /\ pc' = "new"
  /\ UNCHANGED <<i, queueVars, workerVars, bounds>>

\* ae_threadpool_uninit: the messages that are left, jobs and stops, are gone
\* with the queue.  Called before a join has ended the threads, after a
\* failed one for instance, it leaves these behind without a queue, and the
\* pool is not used again.
ThreadpoolUninit ==
  /\ pc \in {"new", "running", "failed"}
  /\ pc' = IF pc = "new" THEN "closed" ELSE "abandoned"
  /\ queue' = <<>> /\ stops' = 0
  /\ UNCHANGED <<i, workerVars, bounds>>

\* A call on the queue fails: a signal has interrupted it, or the queue has
\* been closed.
CallFails ==
  IF pc = "abandoned" THEN UNCHANGED interrupts
  ELSE interrupts < MaxInterrupts /\ interrupts' = interrupts + 1

\* ae_threadpool_send with the job priority.  A job that is some job's
\* child is enqueued by that job only.
SendJob(j) ==
  /\ pc # "abandoned" /\ ~Full
  /\ queue' = Append(queue, j) /\ UNCHANGED stops

\* ae_threadpool_enque (ae/threadpool.h declares it as ae_threadpool_enqueue),
\* before the threads are started as well as after, all of them or some.
Enque(j) ==
  /\ pc \in {"new", "running", "failed"}
  /\ j \notin finished \cup Running \cup Queued
  /\ \A p \in Jobs : Child[p] # j
  /\ SendJob(j)
  /\ UNCHANGED <<pc, i, workerVars, bounds>>

\* ae_threadpool_start is called ...
Start ==
  /\ pc = "new" /\ rounds < MaxRounds
  /\ pc' = "starting" /\ i' = 0
  /\ rounds' = rounds + 1
  /\ UNCHANGED <<queueVars, workerVars, interrupts>>

\* ... and creates the threads one after the other.
CreateThread ==
  /\ pc = "starting" /\ i < N
  /\ worker' = [worker EXCEPT ![i + 1] = "idle"]
  /\ i' = i + 1
  /\ pc' = IF i' = N THEN "running" ELSE "starting"
  /\ UNCHANGED <<queueVars, job, toSend, finished, bounds>>

\* When one cannot be created the others stay and nobody joins them: ids
\* is not filled, so ae_threadpool_join must not be called.
CreateFails ==
  /\ CreateMayFail
  /\ pc = "starting" /\ i < N
  /\ pc' = "failed"
  /\ UNCHANGED <<i, queueVars, workerVars, bounds>>

\* ae_threadpool_join is called ...
Join ==
  /\ pc = "running"
  /\ pc' = "stopping" /\ i' = 0
  /\ UNCHANGED <<queueVars, workerVars, bounds>>

\* Mutants of SendStop: the loop runs once too seldom or once too often.
SendStopOneShort ==
  /\ pc = "stopping"
  /\ ~Full
  /\ stops' = stops + 1
  /\ i' = IF i + 2 >= N THEN 0 ELSE i + 1
  /\ pc' = IF i + 2 >= N THEN "joining" ELSE "stopping"
  /\ UNCHANGED <<queue, workerVars, bounds>>

SendStopOneMore ==
  /\ pc = "stopping"
  /\ ~Full
  /\ stops' = stops + 1
  /\ i' = i + 1
  /\ pc' = IF i = N THEN "joining" ELSE "stopping"
  /\ UNCHANGED <<queue, workerVars, bounds>>

\* ... sends a stop for every thread ...
SendStop ==
  /\ pc = "stopping"
  /\ ~Full
  /\ stops' = stops + 1
  /\ i' = IF i + 1 = N THEN 0 ELSE i + 1
  /\ pc' = IF i + 1 = N THEN "joining" ELSE "stopping"
  /\ UNCHANGED <<queue, workerVars, bounds>>

\* ... or returns in the middle, leaving those it has sent ...
SendStopFails ==
  /\ pc = "stopping"
  /\ CallFails
  /\ pc' = "running"
  /\ UNCHANGED <<i, queueVars, workerVars, rounds>>

\* Mutant of JoinThread: it does not wait for the thread.
JoinThreadDetached ==
  /\ pc = "joining"
  /\ worker' = [worker EXCEPT ![i + 1] = "none"]
  /\ i' = IF i + 1 = N THEN 0 ELSE i + 1
  /\ pc' = IF i + 1 = N THEN "new" ELSE "joining"
  /\ UNCHANGED <<queueVars, job, toSend, finished, bounds>>

\* ... and waits for the threads in the order of their creation.  Jobs that
\* are still queued stay in the queue.
JoinThread ==
  /\ pc = "joining"
  /\ worker[i + 1] = "exited"
  /\ worker' = [worker EXCEPT ![i + 1] = "none"]
  /\ i' = IF i + 1 = N THEN 0 ELSE i + 1
  /\ pc' = IF i + 1 = N THEN "new" ELSE "joining"
  /\ UNCHANGED <<queueVars, job, toSend, finished, bounds>>

----------------------------------------------------------------------------
(* A worker: ae_threadpool_run. *)

ReceiveStop(w) ==
  /\ worker[w] = "idle"
  /\ stops > 0
  /\ stops' = stops - 1
  /\ worker' = [worker EXCEPT ![w] = "exited"]
  /\ UNCHANGED <<pc, i, queue, job, toSend, finished, bounds>>

\* A job is received only when no stop is waiting.
ReceiveJob(w) ==
  /\ worker[w] = "idle"
  /\ stops = 0 /\ queue # <<>>
  /\ worker' = [worker EXCEPT ![w] = "busy"]
  /\ job' = [job EXCEPT ![w] = Head(queue)]
  /\ toSend' = [toSend EXCEPT ![w] = Child[Head(queue)]]
  /\ queue' = Tail(queue)
  /\ UNCHANGED <<pc, i, stops, finished, bounds>>

\* Any error of mq_receive ends the thread.  (One that waits in mq_receive
\* when the queue is closed may as well wait for ever.)
ReceiveFails(w) ==
  /\ worker[w] = "idle"
  /\ CallFails
  /\ worker' = [worker EXCEPT ![w] = "exited"]
  /\ UNCHANGED <<pc, i, queueVars, job, toSend, finished, rounds>>

\* The job calls ae_threadpool_enque.
EnqueChild(w) ==
  /\ worker[w] = "busy" /\ toSend[w] # NoJob
  /\ SendJob(toSend[w])
  /\ toSend' = [toSend EXCEPT ![w] = NoJob]
  /\ UNCHANGED <<pc, i, worker, job, finished, bounds>>

\* That call fails and the job gives the other one up.  (When a call of the
\* owner fails nothing changes.)
EnqueFails(w) ==
  /\ worker[w] = "busy" /\ toSend[w] # NoJob
  /\ CallFails
  /\ toSend' = [toSend EXCEPT ![w] = NoJob]
  /\ UNCHANGED <<pc, i, queueVars, worker, job, finished, rounds>>

\* Mutant of JobReturns: the thread does not loop.
JobReturnsOnce(w) ==
  /\ worker[w] = "busy" /\ toSend[w] = NoJob
  /\ finished' = finished \cup {job[w]}
  /\ worker' = [worker EXCEPT ![w] = "exited"]
  /\ job' = [job EXCEPT ![w] = NoJob]
  /\ UNCHANGED <<pc, i, queueVars, toSend, bounds>>

\* The job is freed and the thread goes back to the queue.
JobReturns(w) ==
  /\ worker[w] = "busy" /\ toSend[w] = NoJob
  /\ finished' = finished \cup {job[w]}
  /\ worker' = [worker EXCEPT ![w] = "idle"]
  /\ job' = [job EXCEPT ![w] = NoJob]
  /\ UNCHANGED <<pc, i, queueVars, toSend, bounds>>

----------------------------------------------------------------------------
OwnerProceeds  == CreateThread \/ SendStop \/ JoinThread
WorkerProceeds(w) ==
  ReceiveStop(w) \/ ReceiveJob(w) \/ EnqueChild(w) \/ JobReturns(w)

Next ==
  \/ \E j \in Jobs : Enque(j)
  \/ ThreadpoolInit \/ ThreadpoolUninit
  \/ Start \/ CreateFails \/ Join \/ SendStopFails
  \/ OwnerProceeds
  \/ \E w \in Workers : WorkerProceeds(w) \/ ReceiveFails(w) \/ EnqueFails(w)

\* The scheduler runs every thread that can run, jobs return, and a call
\* that has been entered is carried on with; no call has to be made.
Fairness ==
  /\ WF_vars(OwnerProceeds)
  /\ \A w \in Workers : WF_vars(WorkerProceeds(w))

Spec == Init /\ [][Next]_vars /\ Fairness

----------------------------------------------------------------------------

\* What JobQueue knows of the owner.
Phase == IF pc \in {"closed", "new"} THEN "off"
         ELSE IF pc = "abandoned" THEN pc ELSE "on"

\* The pool keeps the promise of JobQueue: jobs begin in the order they were
\* enqueued although several threads receive and stops overtake them, none
\* is begun twice or lost, and when ae_threadpool_join has returned success
\* no job is running or begins until the next start.
Promise == INSTANCE JobQueue
  WITH waiting <- queue, running <- Running,
       phase <- Phase
KeepsPromise == Promise!QueueSpec

\* ae_threadpool_join never waits for a thread that nothing will stop: from
\* its first stop on, the stops queued and those still to be sent are enough
\* for the threads alive, whatever interrupted sends and receives and
\* earlier, failed joins have left behind.
EveryThreadGetsAStop ==
  /\ pc = "stopping" => Cardinality(Alive) <= stops + (N - i)
  /\ pc = "joining" => Cardinality(Alive) <= stops

\* The queue is full and every thread there is waits in mq_send, called by
\* the job it runs: nobody receives, and only an interrupted send ends this.
Jammed ==
  /\ Full /\ Alive # {}
  /\ \A w \in Alive : toSend[w] # NoJob

\* ae_threadpool_join returns, also when the jobs that run during the call
\* enqueue further ones: without an interrupted call a jam is the only thing
\* that can keep it.  One worker whose job does not enqueue, or one place in
\* the queue, is enough.
JoinReturns ==
  pc = "stopping" ~> (pc \in {"new", "running"} \/ interrupts > 0 \/ Jammed)

\* A job that waits while the pool runs is begun, unless the pool is joined
\* or abandoned first (a stop overtakes the job), a receive is interrupted,
\* which ends a worker, or the jobs have jammed the pool.
QueuedJobBegins ==
  \A j \in Jobs :
    (j \in Queued /\ pc = "running") ~>
    (j \notin Queued \/ pc # "running" \/ interrupts > 0 \/ Jammed)

\* "the kernel does all of the synchronization for us" (comment in
\* ae_threadpool_run): jobs that enqueue jobs never jam the pool, and a join
\* that nothing interrupts returns.
NeverJammed == ~Jammed
JoinAlwaysReturns == pc = "stopping" ~> pc \in {"new", "running"}

=============================================================================
