------------------------------ MODULE MuxWait ------------------------------
(***************************************************************************)
(* The timing of one ae_mux_wait call (libae/mux.c): the sleep that        *)
(* replaces epoll when nothing is registered, and the loop that re-enters  *)
(* epoll_wait with what is left of the timeout after a signal.             *)
(*                                                                         *)
(* Time passes in ticks of the millisecond clock ae_mux_now_get reads, and *)
(* is measured from the call: `then' of the code is `asked', `now' is      *)
(* `elapsed'.  What the events do is the subject of module Mux; here only  *)
(* whether one is pending matters.                                         *)
(***************************************************************************)
EXTENDS Integers

CONSTANTS
  Counts,      \* values of self->count
  Timeouts,    \* values of timeout_ms; -1 is "forever"
  OutPointers, \* is out_was_timeout not NULL?
  Latency,     \* ticks a timer or a thread may be late
  MaxSignals,  \* signals that interrupt one call
  MaxTime,     \* bound on the ticks of one call, for model checking only
  Scale,       \* microseconds in a tick (1000 in the code)
  Width        \* values of useconds_t (2^32 in the code)

ASSUME CallAssumption ==
  Counts \subseteq Nat /\ Timeouts \subseteq Nat \cup {-1}
                       /\ OutPointers \subseteq BOOLEAN
ASSUME TimeAssumption ==
  /\ Latency \in Nat /\ MaxSignals \in Nat /\ MaxTime \in Nat
  /\ Scale \in Nat \ {0} /\ Width \in Nat /\ Width > Scale

VARIABLES
  pc,       \* where the caller is
  count,    \* self->count
  asked,    \* timeout_ms as the caller passed it
  arg,      \* timeout_ms as the loop has left it
  elapsed,  \* ticks since the call
  waited,   \* ticks since the thread last blocked or was interrupted
  ready,    \* is an event pending on a registered descriptor?
  signals,  \* signals that have interrupted this call
  hasOut,   \* out_was_timeout # NULL
  result    \* how the last call ended

vars == <<pc, count, asked, arg, elapsed, waited, ready, signals, hasOut,
          result>>
call == <<count, asked, hasOut>>

TypeOK ==
  /\ pc \in {"idle", "sleep", "epoll", "interrupted", "crashed"}
  /\ count \in Counts
  /\ asked \in Timeouts
  /\ arg \in Nat \cup {-1}
  /\ elapsed \in 0..MaxTime
  /\ waited \in 0..elapsed
  /\ ready \in BOOLEAN
  /\ signals \in 0..MaxSignals
  /\ hasOut \in BOOLEAN
  /\ result \in {"none", "nothing", "timeout", "event", "failed"}

\* Mutant of SleepTicks: milliseconds taken for microseconds.
SleepTicksUnscaled == asked \div Scale

\* usleep(timeout_ms * 1000): the product is converted to useconds_t.
SleepTicks == ((asked * Scale) % Width) \div Scale

Init ==
  /\ pc = "idle"
  /\ count \in Counts /\ asked \in Timeouts /\ hasOut \in OutPointers
  /\ arg = asked
  /\ elapsed = 0 /\ waited = 0 /\ signals = 0
  /\ ready = FALSE
  /\ result = "none"

\* With nothing registered the call sleeps, or for a timeout of 0 returns
\* at once; otherwise it notes the time and enters epoll_wait.
Call ==
  /\ pc = "idle"
  /\ count' \in Counts /\ asked' \in Timeouts /\ hasOut' \in OutPointers
  /\ arg' = asked'
  /\ elapsed' = 0 /\ waited' = 0 /\ signals' = 0
  /\ ready' \in IF count' = 0 THEN {FALSE} ELSE BOOLEAN
  /\ pc' = IF count' # 0 THEN "epoll"
           ELSE IF asked' # 0 THEN "sleep" ELSE "idle"
  /\ result' = IF pc' = "idle" THEN "nothing" ELSE "none"

\* usleep is over, or a signal has cut it short: nobody looks which.  The
\* flag is then written without the NULL test made everywhere else.
SleepReturns ==
  /\ pc = "sleep"
  /\ \/ waited >= SleepTicks /\ UNCHANGED signals
     \/ signals < MaxSignals /\ signals' = signals + 1
  /\ pc' = IF hasOut THEN "idle" ELSE "crashed"
  /\ result' = IF hasOut THEN "timeout" ELSE "none"
  /\ UNCHANGED <<call, arg, elapsed, waited, ready>>

EventReturns ==
  /\ pc = "epoll" /\ ready
  /\ pc' = "idle"
  /\ result' = "event"
  /\ UNCHANGED <<call, arg, elapsed, waited, ready, signals>>

TimeoutReturns ==
  /\ pc = "epoll" /\ ~ready
  /\ arg # -1 /\ waited >= arg
  /\ pc' = "idle"
  /\ result' = "timeout"
  /\ UNCHANGED <<call, arg, elapsed, waited, ready, signals>>

\* Any error but EINTR ends the call.
EpollFails ==
  /\ pc = "epoll"
  /\ pc' = "idle"
  /\ result' = "failed"
  /\ UNCHANGED <<call, arg, elapsed, waited, ready, signals>>

\* EINTR.
Signal ==
  /\ pc = "epoll" /\ ~ready
  /\ signals < MaxSignals
  /\ signals' = signals + 1
  /\ pc' = "interrupted"
  /\ waited' = 0
  /\ UNCHANGED <<call, arg, elapsed, ready, result>>

\* Mutants of Reenter: the deadline is not looked at, the remainder is one
\* too small, or the wait is not re-entered after the deadline.
ReenterUnguarded ==
  /\ pc = "interrupted"
  /\ arg' = asked - elapsed
  /\ pc' = "epoll"
  /\ waited' = 0
  /\ UNCHANGED <<call, elapsed, ready, signals, result>>

ReenterEarly ==
  /\ pc = "interrupted"
  /\ arg' = IF elapsed < asked THEN asked - elapsed - 1 ELSE arg
  /\ pc' = "epoll"
  /\ waited' = 0
  /\ UNCHANGED <<call, elapsed, ready, signals, result>>

ReenterBeforeDeadline ==
  /\ pc = "interrupted"
  /\ elapsed < asked
  /\ arg' = asked - elapsed
  /\ pc' = "epoll"
  /\ waited' = 0
  /\ UNCHANGED <<call, elapsed, ready, signals, result>>

\* The loop reads the clock and re-enters epoll_wait; the timeout is
\* adjusted only while the deadline is still ahead.
Reenter ==
  /\ pc = "interrupted"
  /\ arg' = IF elapsed < asked THEN asked - elapsed ELSE arg
  /\ pc' = "epoll"
  /\ waited' = 0
  /\ UNCHANGED <<call, elapsed, ready, signals, result>>

EventArrives ==
  /\ pc \in {"epoll", "interrupted"} /\ ~ready
  /\ ready' = TRUE
  /\ UNCHANGED <<pc, call, arg, elapsed, waited, signals, result>>

\* A timer is at most Latency late, and so is a thread that can run.
MayStillWait ==
  \/ pc = "epoll" /\ (arg = -1 \/ waited < arg + Latency)
  \/ pc = "sleep" /\ waited < SleepTicks + Latency
  \/ pc = "interrupted" /\ waited < Latency

Tick ==
  /\ MayStillWait
  /\ elapsed < MaxTime
  /\ elapsed' = elapsed + 1
  /\ waited' = waited + 1
  /\ UNCHANGED <<pc, call, arg, ready, signals, result>>

Next ==
  \/ Call \/ SleepReturns \/ EventReturns \/ TimeoutReturns \/ EpollFails
  \/ Signal \/ Reenter \/ EventArrives \/ Tick

\* Time passes, and the kernel lets a thread go whose wait is over.
Fairness ==
  WF_vars(Tick) /\ WF_vars(EventReturns \/ TimeoutReturns) /\ WF_vars(Reenter)
                /\ WF_vars(SleepReturns)

Spec == Init /\ [][Next]_vars /\ Fairness

----------------------------------------------------------------------------

\* A wait on registered descriptors reports a timeout only when the time the
\* caller asked for has passed on the clock, however many signals interrupted
\* it, and never to a caller who waits forever.
TimeoutMeansExpired ==
  (result = "timeout" /\ count # 0) => asked >= 0 /\ elapsed >= asked

\* A call with a timeout returns although signals interrupt it, as long as
\* there are finitely many.
TimedWaitReturns == (pc = "epoll" /\ asked >= 0) ~> pc = "idle"

\* An event that becomes ready during a wait ends it, also when a signal
\* has just interrupted the wait and whatever timeout was asked for.
EventEndsWait ==
  (pc \in {"epoll", "interrupted"} /\ ready) ~> pc = "idle"

\* "-1 means to wait forever" (ae/mux.h, timeout_ms).
ForeverIsForever == asked = -1 => result # "timeout"

\* "timeout_ms how long to wait, in milliseconds" (ae/mux.h): without a
\* signal no timeout is reported before its time, also when nothing is
\* registered.  It holds as long as the timeout in microseconds fits into
\* useconds_t.
SleepLastsItsTime ==
  (result = "timeout" /\ signals = 0) => elapsed >= asked

\* "if timeout_ms expires and this is not NULL" (ae/mux.h,
\* out_was_timeout): NULL is a legal argument.
NullFlagIsLegal == pc # "crashed"

\* "Adjust the timeout accordingly and re-enter the wait" (comment in
\* ae_mux_wait): epoll_wait is never entered for longer than what is left
\* of the caller's timeout, which is nothing once the deadline has passed.
RewaitKeepsDeadline ==
  (pc = "epoll" /\ asked >= 0) =>
    LET left == asked - (elapsed - waited)
    IN  arg <= IF left > 0 THEN left ELSE 0

=============================================================================
