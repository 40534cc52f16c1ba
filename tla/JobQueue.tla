------------------------------ MODULE JobQueue ------------------------------
(***************************************************************************)
(* What a thread pool promises, without threads, messages or priorities:   *)
(* submitted jobs begin one after the other in the order of submission,    *)
(* each begins at most once, and none runs while the pool is off.  A pool  *)
(* that is discarded takes its waiting jobs along, and one that is         *)
(* abandoned while it is on begins no job any more.                        *)
(***************************************************************************)
EXTENDS Sequences, FiniteSets

CONSTANT Jobs

VARIABLES
  waiting,   \* jobs submitted and not begun, oldest first
  running,   \* jobs that have begun and not finished
  finished,  \* jobs that have run
  phase      \* the pool's threads are "off", "on" or "abandoned"

absVars == <<waiting, running, finished, phase>>

QueueInit ==
  /\ waiting = <<>> /\ running = {} /\ finished = {}
  /\ phase = "off"

Known == running \cup finished \cup {waiting[i] : i \in DOMAIN waiting}

Submit(j) ==
  /\ phase # "abandoned"
  /\ j \notin Known
  /\ waiting' = Append(waiting, j)
  /\ UNCHANGED <<running, finished, phase>>

Begin ==
  /\ phase = "on" /\ waiting # <<>>
  /\ running' = running \cup {Head(waiting)}
  /\ waiting' = Tail(waiting)
  /\ UNCHANGED <<finished, phase>>

Finish(j) ==
  /\ phase # "off" /\ j \in running
  /\ running' = running \ {j}
  /\ finished' = finished \cup {j}
  /\ UNCHANGED <<waiting, phase>>

Activate ==
  /\ phase = "off"
  /\ phase' = "on"
  /\ UNCHANGED <<waiting, running, finished>>

\* Ending the pool waits for what runs and leaves what waits.
Deactivate ==
  /\ phase = "on" /\ running = {}
  /\ phase' = "off"
  /\ UNCHANGED <<waiting, running, finished>>

Discard ==
  /\ phase = "off"
  /\ waiting' = <<>>
  /\ UNCHANGED <<running, finished, phase>>

\* What runs is finished.
Abandon ==
  /\ phase = "on"
  /\ phase' = "abandoned"
  /\ waiting' = <<>>
  /\ UNCHANGED <<running, finished>>

QueueNext ==
  \/ \E j \in Jobs : Submit(j) \/ Finish(j)
  \/ Begin \/ Activate \/ Deactivate \/ Discard \/ Abandon

QueueSpec == QueueInit /\ [][QueueNext]_absVars

=============================================================================
