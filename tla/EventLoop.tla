----------------------------- MODULE EventLoop -----------------------------
(***************************************************************************)
(* An event loop built from the parts of the library: the multiplexer,     *)
(* event descriptors (libae/event.c), timers (libae/timer.c) and a pipe    *)
(* read with ae_io_read_all.  A second thread writes the events and the    *)
(* pipe.  The descriptors block, so a callback that reads one that is not  *)
(* ready any more stops the loop.                                          *)
(*                                                                         *)
(* Every descriptor has one object, named like it.                         *)
(***************************************************************************)
EXTENDS Mux, Io

CONSTANTS
  Events, Timers, Pipe,  \* the descriptors
  MaxValue,     \* of an event's counter, 2^64 - 2 in the kernel
  Meddles       \* do callbacks also touch descriptors that are not their own?

ASSUME LoopAssumption ==
  /\ Fds = Events \cup Timers \cup {Pipe} /\ Objs = Fds
  /\ Events \cap Timers = {} /\ Pipe \notin Events \cup Timers
  /\ \A fd \in Fds : HandlersOf[fd] \in {{"read"}, {"read", "hangup"}}
  /\ MaxValue \in Nat \ {0} /\ Meddles \in BOOLEAN

VARIABLES
  value,     \* per event: its counter
  timer,     \* per timer: is it armed, is it periodic, has it expired
  which,     \* the kinds of the callback that is running: at most one
  writing    \* the event the second thread wants to write: at most one

loopVars == <<muxVars, ioVars, value, timer, which, writing>>

Stopped == [armed |-> FALSE, periodic |-> FALSE, expired |-> FALSE]

LoopInit ==
  /\ MuxInit /\ IoInit
  /\ value = [e \in Events |-> 0]
  /\ timer = [t \in Timers |-> Stopped]
  /\ which = {} /\ writing = {}

LoopTypeOK ==
  /\ MuxTypeOK /\ IoTypeOK
  /\ value \in [Events -> 0..MaxValue]
  /\ timer \in [Timers -> [armed : BOOLEAN, periodic : BOOLEAN, expired : BOOLEAN]]
  /\ which \subseteq {"read", "hangup", "done"} /\ writing \subseteq Events

Own == {ev.fd : ev \in cur}

\* Where the loop thread runs application code that may use descriptor fd.
MayUse(fd) ==
  \/ pc = "app"
  \/ which = {"done"} /\ (fd \in Own \/ Meddles)

Ready(fd) ==
  IF fd \in Events THEN IF value[fd] > 0 THEN {"read"} ELSE {}
  ELSE IF fd \in Timers THEN IF timer[fd].expired THEN {"read"} ELSE {}
  ELSE (IF pipe # <<>> THEN {"read"} ELSE {})
       \cup (IF writerOpen THEN {} ELSE {"hangup"})

----------------------------------------------------------------------------
(* Setup and teardown of descriptors. *)

\* ae_event_init, ae_timer_init.
Open(fd) ==
  /\ pc = "app" /\ fd \notin open
  /\ open' = open \cup {fd}
  /\ UNCHANGED <<reg, count, pc, batch, cur, todo, ioVars, value, timer, which,
                 writing>>

Add(fd) ==
  /\ pc = "app" /\ fd \in open \ Registered
  /\ MuxCtl("ADD", fd, fd)
  /\ UNCHANGED <<open, pc, batch, cur, todo, ioVars, value, timer, which, writing>>

Rm(fd) ==
  /\ MayUse(fd) /\ fd \in open
  /\ MuxRm(fd)
  /\ UNCHANGED <<open, pc, batch, cur, todo, ioVars, value, timer, which, writing>>

\* ae_event_uninit, ae_timer_uninit, after ae_mux_rm.
Close(fd) ==
  /\ MayUse(fd) /\ fd \in (open \ Registered) \ ({Pipe} \cup writing)
  /\ CloseDescriptor(fd)
  /\ value' = [e \in Events |-> IF e = fd THEN 0 ELSE value[e]]
  /\ timer' = [t \in Timers |-> IF t = fd THEN Stopped ELSE timer[t]]
  /\ UNCHANGED <<count, pc, batch, cur, todo, ioVars, which, writing>>

----------------------------------------------------------------------------
(* Timers. *)

\* ae_timer_set: a value of zero disarms, and earlier expirations are gone.
TimerSet(t, interval, first) ==
  /\ MayUse(t) /\ t \in open
  /\ timer' = [timer EXCEPT ![t] = [armed |-> first, expired |-> FALSE,
                                    periodic |-> first /\ interval]]
  /\ UNCHANGED <<muxVars, ioVars, value, which, writing>>

\* The arguments are whether the times are different from zero.
TimerStop(t)                  == TimerSet(t, FALSE, FALSE)
TimerEvery(t, interval, now)  == TimerSet(t, interval, now \/ interval)
TimerSingleShot(t, fromNow)   == TimerSet(t, FALSE, fromNow)

\* The application does not put a timer off again and again: it starts one
\* that is stopped, or restarts it in the timer's own callback.
MayStart(t) == t \in Own \/ (~timer[t].armed /\ ~timer[t].expired)

\* The kernel: the time has come.
Expire(t) ==
  /\ timer[t].armed
  /\ timer' = [timer EXCEPT ![t].expired = TRUE, ![t].armed = timer[t].periodic]
  /\ UNCHANGED <<muxVars, ioVars, value, which, writing>>

----------------------------------------------------------------------------
(* The second thread. *)

WriterBegins(e) ==
  /\ writing = {} /\ ~sending /\ e \in open
  /\ writing' = {e}
  /\ UNCHANGED <<muxVars, ioVars, value, timer, which>>

\* ae_event_write blocks while the counter would run over.
EventWrite ==
  /\ \E e \in writing :
       value[e] < MaxValue /\ value' = [value EXCEPT ![e] = @ + 1]
  /\ writing' = {}
  /\ UNCHANGED <<muxVars, ioVars, timer, which>>

WriterSends ==
  /\ writing = {} /\ Pipe \in open
  /\ WriteAll \/ CloseWriter
  /\ UNCHANGED <<muxVars, value, timer, which, writing>>

WriterSteps ==
  \/ EventWrite
  \/ WriteSome /\ UNCHANGED <<muxVars, value, timer, which, writing>>

\* A signal interrupts the write(2) or read(2) of a message.
Interrupted ==
  /\ \/ WriteFails /\ UNCHANGED which
     \/ ReadFails  /\ which' = {"done"}
  /\ UNCHANGED <<muxVars, value, timer, writing>>

----------------------------------------------------------------------------
(* The loop. *)

Wait ==
  /\ LET ready == {fd \in Registered : Ready(fd) # {}}
     IN  WaitReturns({[fd |-> fd, obj |-> reg[fd],
                       conds |-> Ready(fd) \cap Reportable(reg[fd])] : fd \in ready},
                     FALSE)
  /\ UNCHANGED <<open, reg, count, ioVars, value, timer, which, writing>>

Dispatch ==
  /\ DispatchEvent \/ WaitEnds
  /\ UNCHANGED <<ioVars, value, timer, which, writing>>

CallbackStarts ==
  /\ \E k \in todo : NextCallback(k) /\ which' = {k}
  /\ pc' = "callback"
  /\ UNCHANGED <<open, reg, count, batch, cur, ioVars, value, timer, writing>>

CallbackReturns ==
  /\ pc = "callback" /\ which = {"done"}
  /\ pc' = "dispatch" /\ which' = {}
  /\ UNCHANGED <<open, reg, count, batch, cur, todo, ioVars, value, timer, writing>>

\* ae_event_read and ae_timer_read of the callback's own descriptor take all
\* that has come since the last one.
ReadEvent(e) ==
  /\ pc = "callback" /\ which = {"read"} /\ e \in Own
  /\ value[e] > 0 /\ value' = [value EXCEPT ![e] = 0]
  /\ which' = {"done"}
  /\ UNCHANGED <<muxVars, ioVars, timer, writing>>

ReadTimer(t) ==
  /\ pc = "callback" /\ which = {"read"} /\ t \in Own
  /\ timer[t].expired /\ timer' = [timer EXCEPT ![t].expired = FALSE]
  /\ which' = {"done"}
  /\ UNCHANGED <<muxVars, ioVars, value, writing>>

ReadMessage ==
  /\ pc = "callback" /\ which = {"read"} /\ Pipe \in Own
  /\ \/ ReadAll /\ UNCHANGED which
     \/ /\ ReadSome \/ ReadEnd
        /\ which' = IF receiving' THEN which ELSE {"done"}
  /\ UNCHANGED <<muxVars, value, timer, writing>>

\* The hangup callback of the pipe removes it.
PipeHangsUp ==
  /\ pc = "callback" /\ which = {"hangup"}
  /\ MuxRm(Pipe)
  /\ which' = {"done"}
  /\ UNCHANGED <<open, pc, batch, cur, todo, ioVars, value, timer, writing>>

LoopSteps ==
  \/ Wait \/ Dispatch \/ CallbackStarts \/ CallbackReturns
  \/ \E e \in Events : ReadEvent(e)
  \/ \E t \in Timers : ReadTimer(t)
  \/ ReadMessage \/ PipeHangsUp

LoopNext ==
  \/ LoopSteps \/ WriterSteps \/ WriterSends \/ Interrupted
  \/ \E e \in Events : WriterBegins(e)
  \/ \E fd \in Fds : Open(fd) \/ Add(fd) \/ Rm(fd) \/ Close(fd)
  \/ \E t \in Timers :
       \/ Expire(t) \/ TimerStop(t)
       \/ MayStart(t) /\ \E i, n \in BOOLEAN : TimerEvery(t, i, n)
       \/ MayStart(t) /\ \E n \in BOOLEAN : TimerSingleShot(t, n)

LoopSpec ==
  /\ LoopInit /\ [][LoopNext]_loopVars
  /\ WF_loopVars(LoopSteps) /\ WF_loopVars(WriterSteps)
  /\ \A t \in Timers : WF_loopVars(Expire(t))

----------------------------------------------------------------------------

\* A callback that is about to read its event or timer finds it ready, so
\* that the read does not stop the loop: nothing that happens between the
\* copying of the batch and the callback has taken what made it ready.
LoopNeverBlocks ==
  which = {"read"} =>
    \A fd \in Own \ {Pipe} : fd \in open /\ Ready(fd) # {}

\* Every event that is written is read, as long as its descriptor stays
\* registered, however many others are ready and come in the meantime.
EventsServed ==
  \A e \in Events :
    (value[e] > 0 /\ e \in Registered) ~>
    (value[e] = 0 \/ e \notin Registered \/ torn)

\* Every callback returns: the reading of a message waits for a writer that
\* goes on writing, or ends with the stream, also when the writer has failed
\* half-way; unless a read has failed there, and its message is short of the
\* bytes that one took.
CallbacksReturn == (pc = "callback") ~> (pc # "callback" \/ torn)

\* A periodic timer that stays armed keeps on calling back; one that is
\* started with trigger_now, or with a time that is not zero, does so once.
TimersServed ==
  \A t \in Timers : timer[t].armed ~>
    \/ which = {"done"} /\ t \in Own
    \/ ~timer[t].armed /\ ~timer[t].expired
    \/ t \notin Registered \/ torn

\* A single shot that was asked for leaves the timer armed until it has
\* expired, also one that is to happen at once.
SingleShotShoots ==
  [][\A t \in Timers, n \in BOOLEAN : TimerSingleShot(t, n) => timer'[t].armed]_loopVars

=============================================================================
