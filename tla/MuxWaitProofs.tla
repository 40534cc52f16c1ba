--------------------------- MODULE MuxWaitProofs ---------------------------
(***************************************************************************)
(* Theorems about the timing of a wait (MuxWait), for every timeout, any   *)
(* number of signals and any latency.                                      *)
(***************************************************************************)
EXTENDS MuxWait, TLAPS

\* The timeout the loop has left and what has passed before this epoll_wait
\* add up to at least the timeout the caller asked for.
KeepsTimeout ==
  /\ asked = -1 => arg = -1
  /\ asked # -1 => arg \in Nat /\ elapsed + arg >= asked + waited

\* Inside a call there is no result yet, and only a call with nothing
\* registered sleeps.
WaitInv ==
  /\ TypeOK
  /\ TimeoutMeansExpired
  /\ pc \in {"sleep", "epoll", "interrupted"} => result = "none"
  /\ pc = "sleep" => count = 0
  /\ pc \in {"epoll", "interrupted"} => count # 0 /\ KeepsTimeout

\* No timeout is so long that usleep's argument wraps.
NoSleepWraps == \A t \in Timeouts : t * Scale < Width

----------------------------------------------------------------------------

\* usleep is asked for the whole time.
LEMMA SleepIsLongEnough ==
  ASSUME NoSleepWraps, asked \in Timeouts
  PROVE  SleepTicks \in Int /\ SleepTicks >= asked
<1>1. Scale \in Nat \ {0} /\ Width \in Nat \ {0} /\ asked \in Nat \cup {-1}
  BY TimeAssumption, CallAssumption
<1>2. CASE asked = -1
  <2>1. asked * Scale = -Scale
    BY <1>1, <1>2
  <2>2. (-Scale) % Width \in 0..Width-1
    BY <1>1
  <2>3. ASSUME NEW x \in Nat PROVE x \div Scale \in Nat
    BY <1>1
  <2>4. SleepTicks \in Nat
    BY <1>1, <2>1, <2>2, <2>3 DEF SleepTicks
  <2> QED
    BY <1>2, <2>4
<1>3. CASE asked \in Nat
  <2>1. asked * Scale \in Nat /\ asked * Scale < Width
    BY <1>1, <1>3 DEF NoSleepWraps
  <2>2. (asked * Scale) % Width = asked * Scale
    BY <1>1, <2>1
  <2>3. (asked * Scale) \div Scale = asked
    BY <1>1, <1>3
  <2> QED
    BY <1>3, <2>2, <2>3 DEF SleepTicks
<1> QED
  BY <1>1, <1>2, <1>3

LEMMA WaitInitInv == Init => WaitInv
<1> SUFFICES ASSUME Init PROVE WaitInv
  OBVIOUS
<1>1. TypeOK
  <2>1. asked \in Nat \cup {-1} /\ hasOut \in BOOLEAN /\ MaxTime \in Nat
        /\ MaxSignals \in Nat
    BY CallAssumption, TimeAssumption DEF Init
  <2>2. 0 \in 0..MaxTime /\ 0 \in 0..MaxSignals /\ 0 \in 0..0
    BY <2>1
  <2>3. elapsed \in 0..MaxTime /\ waited \in 0..elapsed /\ signals \in 0..MaxSignals
    BY <2>2 DEF Init
  <2> QED
    BY <2>1, <2>3 DEF Init, TypeOK
<1> QED
  BY <1>1 DEF Init, WaitInv, TimeoutMeansExpired

LEMMA WaitStepInv == WaitInv /\ [Next]_vars => WaitInv'
<1> SUFFICES ASSUME WaitInv, [Next]_vars PROVE WaitInv'
  OBVIOUS
<1>0. /\ TypeOK /\ asked \in Nat \cup {-1} /\ elapsed \in Nat /\ waited \in Nat
      /\ waited <= elapsed /\ MaxTime \in Nat /\ MaxSignals \in Nat
      /\ TimeoutMeansExpired /\ signals \in Nat
  BY CallAssumption, TimeAssumption DEF WaitInv, TypeOK
<1>1. CASE Call
  <2>1. TypeOK'
    <3>1. /\ count' \in Counts /\ asked' \in Timeouts /\ hasOut' \in BOOLEAN
          /\ arg' \in Nat \cup {-1} /\ ready' \in BOOLEAN
          /\ pc' \in {"idle", "sleep", "epoll"} /\ result' \in {"nothing", "none"}
          /\ elapsed' = 0 /\ waited' = 0 /\ signals' = 0
      BY <1>1, CallAssumption DEF Call
    <3> QED
      BY <1>0, <3>1 DEF TypeOK
  <2>2. result' # "timeout" /\ pc' # "interrupted"
    BY <1>1 DEF Call
  <2>3. pc' = "epoll" => count' # 0 /\ KeepsTimeout'
    <3>1. PICK t \in Nat \cup {-1} : /\ asked' = t /\ arg' = t
                                     /\ elapsed' = 0 /\ waited' = 0
      BY <1>1, CallAssumption DEF Call
    <3>2. KeepsTimeout'
      BY <3>1 DEF KeepsTimeout
    <3> QED
      BY <1>1, <3>2 DEF Call
  <2>4. pc' = "sleep" => count' = 0
    BY <1>1 DEF Call
  <2>5. pc' \in {"sleep", "epoll"} => result' = "none"
    BY <1>1 DEF Call
  <2> QED
    BY <2>1, <2>2, <2>3, <2>4, <2>5
       DEF WaitInv, TimeoutMeansExpired
<1>2. CASE SleepReturns
  <2>1. TypeOK'
    BY <1>0, <1>2 DEF TypeOK, SleepReturns, call
  <2>2. pc' \in {"idle", "crashed"} /\ count' = 0
    BY <1>2 DEF SleepReturns, call, WaitInv
  <2> QED
    BY <2>1, <2>2 DEF WaitInv, TimeoutMeansExpired
<1>3. CASE EventReturns \/ EpollFails
  BY <1>0, <1>3 DEF EventReturns, EpollFails, call, WaitInv, TypeOK,
                    TimeoutMeansExpired
<1>4. CASE TimeoutReturns
  <2>1. asked # -1 /\ elapsed >= asked
    <3>1. arg # -1 /\ waited >= arg /\ KeepsTimeout
      BY <1>4 DEF TimeoutReturns, WaitInv
    <3> QED
      BY <1>0, <3>1 DEF KeepsTimeout
  <2>2. TypeOK' /\ pc' = "idle" /\ UNCHANGED <<asked, elapsed>>
    BY <1>0, <1>4 DEF TimeoutReturns, call, TypeOK
  <2> QED
    BY <1>0, <2>1, <2>2 DEF WaitInv, TimeoutMeansExpired
<1>5. CASE Signal
  <2>1. TypeOK' /\ result' = "none" /\ pc' = "interrupted"
    BY <1>0, <1>5 DEF Signal, call, TypeOK, WaitInv
  <2>2. count' # 0 /\ KeepsTimeout'
    BY <1>0, <1>5 DEF Signal, call, WaitInv, KeepsTimeout
  <2> QED
    BY <2>1, <2>2 DEF WaitInv, TimeoutMeansExpired
<1>6. CASE Reenter
  <2>1. count # 0 /\ KeepsTimeout /\ result = "none"
    BY <1>6 DEF Reenter, WaitInv
  <2>2. /\ UNCHANGED <<count, asked, elapsed, ready, signals, hasOut, result>>
        /\ waited' = 0 /\ pc' = "epoll"
        /\ arg' = IF elapsed < asked THEN asked - elapsed ELSE arg
    BY <1>6 DEF Reenter, call
  <2>3. KeepsTimeout'
    <3>1. CASE asked = -1
      BY <1>0, <2>1, <2>2, <3>1 DEF KeepsTimeout
    <3>2. CASE asked # -1
      BY <1>0, <2>1, <2>2, <3>2 DEF KeepsTimeout
    <3> QED
      BY <3>1, <3>2
  <2>4. TypeOK'
    BY <1>0, <2>2 DEF TypeOK
  <2> QED
    BY <2>1, <2>2, <2>3, <2>4 DEF WaitInv, TimeoutMeansExpired
<1>7. CASE EventArrives
  BY <1>0, <1>7 DEF EventArrives, call, WaitInv, TypeOK, TimeoutMeansExpired,
                    KeepsTimeout
<1>8. CASE Tick
  <2>1. UNCHANGED <<pc, count, asked, hasOut, arg, ready, signals, result>>
        /\ elapsed' = elapsed + 1 /\ waited' = waited + 1 /\ elapsed < MaxTime
    BY <1>8 DEF Tick, call
  <2>2. pc \in {"epoll", "sleep", "interrupted"}
    BY <1>8 DEF Tick, MayStillWait
  <2>3. TypeOK'
    BY <1>0, <2>1 DEF TypeOK
  <2>4. pc' \in {"epoll", "interrupted"} => count' # 0 /\ KeepsTimeout'
    BY <1>0, <2>1 DEF WaitInv, KeepsTimeout, TypeOK
  <2> QED
    BY <2>1, <2>2, <2>3, <2>4 DEF WaitInv, TimeoutMeansExpired
<1>9. CASE UNCHANGED vars
  BY <1>9 DEF vars, WaitInv, TypeOK, TimeoutMeansExpired, KeepsTimeout
<1> QED
  BY <1>1, <1>2, <1>3, <1>4, <1>5, <1>6, <1>7, <1>8, <1>9 DEF Next

\* A sleep that no signal cuts short is long enough, and other timeouts are
\* covered by TimeoutMeansExpired.
LEMMA SleepStep ==
  ASSUME NoSleepWraps, WaitInv, SleepLastsItsTime, [Next]_vars
  PROVE  SleepLastsItsTime'
<1>0. TypeOK /\ asked \in Nat \cup {-1} /\ elapsed \in Nat /\ waited \in Nat
      /\ waited <= elapsed /\ signals \in Nat
  BY CallAssumption DEF WaitInv, TypeOK
<1>1. CASE SleepReturns
  <2>1. signals' = 0 => waited >= SleepTicks
    BY <1>0, <1>1 DEF SleepReturns
  <2>2. SleepTicks \in Int /\ SleepTicks >= asked
    BY <1>0, SleepIsLongEnough DEF TypeOK
  <2> QED
    BY <1>0, <1>1, <2>1, <2>2 DEF SleepReturns, call, SleepLastsItsTime
<1>2. CASE TimeoutReturns
  <2>1. count' # 0 /\ WaitInv'
    BY <1>2, WaitStepInv DEF TimeoutReturns, call, WaitInv
  <2> QED
    BY <2>1 DEF WaitInv, TimeoutMeansExpired, SleepLastsItsTime
<1>3. CASE Call \/ EventReturns \/ EpollFails
  BY <1>3 DEF Call, EventReturns, EpollFails, SleepLastsItsTime
<1>4. CASE Signal \/ Reenter \/ EventArrives \/ Tick
  <2>1. result' = "none"
    BY <1>4 DEF Signal, Reenter, EventArrives, Tick, MayStillWait, WaitInv
  <2> QED
    BY <2>1 DEF SleepLastsItsTime
<1>5. CASE UNCHANGED vars
  BY <1>5 DEF vars, SleepLastsItsTime
<1> QED
  BY <1>1, <1>2, <1>3, <1>4, <1>5 DEF Next

----------------------------------------------------------------------------

\* ae_mux_wait never reports a timeout early: for every timeout and any
\* number of signals.
THEOREM TimeoutsAreNotEarly == Spec => []TimeoutMeansExpired
<1>1. WaitInv => TimeoutMeansExpired
  BY DEF WaitInv
<1> QED
  BY <1>1, WaitInitInv, WaitStepInv, PTL DEF Spec

\* Nor does it when nothing is registered, as long as the timeout in
\* microseconds fits into usleep's argument and no signal comes.
THEOREM SleepsAreNotShort ==
  ASSUME NoSleepWraps
  PROVE  Spec => []SleepLastsItsTime
<1>1. Init => SleepLastsItsTime
  BY DEF Init, SleepLastsItsTime
<1>2. WaitInv /\ SleepLastsItsTime /\ [Next]_vars => SleepLastsItsTime'
  BY SleepStep
<1> QED
  BY <1>1, <1>2, WaitInitInv, WaitStepInv, PTL DEF Spec

\* The types of a wait.
THEOREM WaitTypeCorrect == Spec => []TypeOK
<1>1. WaitInv => TypeOK
  BY DEF WaitInv
<1> QED
  BY <1>1, WaitInitInv, WaitStepInv, PTL DEF Spec

=============================================================================
