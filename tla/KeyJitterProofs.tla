---------------------------- MODULE KeyJitterProofs ----------------------------
(***************************************************************************)
(* Proofs about KeyJitter, for any number of buttons and processes and any *)
(* length of 10 ms in jiffies.  The inductive invariant has five parts:    *)
(* types; where processes in poll are (PollInv); how far the timer is      *)
(* behind the last edge (BurstInv); who will still sample a button whose   *)
(* key_val is old (SampleInv); and what a read in progress has (SignalInv).*)
(***************************************************************************)
EXTENDS KeyJitter, TLAPS

(* A process in poll is on the queue, and asleep only if it has been woken or
   there is nothing to read. *)
PollInv ==
  /\ \A p \in Procs : p \in waitq <=> pc[p] \in {"poll_test", "poll_sleep"}
  /\ NoLostWakeup

(* While contacts bounce the timer is as far from its end as it was set to by
   the last edge, less the jiffies since then; it gets to its end only when
   they are at rest, and is not started again before the next edge.  key_irq
   never starts it. *)
BurstInv ==
  /\ runs \in {IDLE, 0, 1}
  /\ irqs # {} => quiet = 0
  /\ debounced /\ runs = 0 /\ bouncing => irqs # {} \/ timer = TenMs + 1 - quiet
  /\ runs = 1 => ~bouncing /\ irqs = {} /\ timer = IDLE
  /\ ~debounced => timer = IDLE /\ runs # 1

(* A button whose value is old has its interrupt pending, or the timer will
   expire, or the timer function has yet to come to it. *)
SampleInv ==
  \A k \in seen : key_val[k] # pin[k] =>
    k \in irqs \/ timer # IDLE \/ (scan >= 1 /\ scan <= k)

(* What a process has read, or has loaded so far, is what the driver holds,
   unless SIGIO is pending for it. *)
SignalInv ==
  /\ \A p \in async_q : pc[p] \in {"ready", "read"}
  /\ \A p \in Procs : pc[p] # "read" => loaded[p] = 0
  /\ \A p \in told : scan = 0 /\ p \notin sigio =>
       /\ pc[p] = "ready" => got[p] = key_val
       /\ pc[p] = "read"  => \A k \in 1..loaded[p] : got[p][k] = key_val[k]

IInv == TypeOK /\ PollInv /\ BurstInv /\ SampleInv /\ SignalInv

-----------------------------------------------------------------------------
(* What a process does with its open file leaves the buttons, the timer and
   the sampled values alone. *)
LEMMA RunningFrame ==
  ASSUME NEW p \in Procs, Running(p)
  PROVE  UNCHANGED <<input, key_val, timer, scan>> /\ scan = 0
BY DEF Running, my_key_fasync, my_key_poll_wait, my_key_poll_test, PollWake, PollTimeout,
       PollAgain, signal_fun, ReadLoad, ReadReturn, At, drv

(* Every step keeps the types. *)
LEMMA TypeStep ==
  ASSUME TypeOK, PollInv, [Next]_vars
  PROVE  TypeOK'
<1>1. ASSUME NEW k \in Keys, PinEdge(k) PROVE TypeOK'
  <2>1. pin' \in [Keys -> BOOLEAN]
    BY <1>1 DEF PinEdge, TypeOK
  <2>2. irqs' \subseteq Keys /\ seen' \subseteq Keys /\ bouncing' \in BOOLEAN /\ quiet' \in 0..TenMs
    BY <1>1, TenMsAssumption DEF PinEdge, TypeOK
  <2>3. runs' \in {IDLE} \cup Nat
    BY <1>1 DEF PinEdge, TypeOK
  <2> QED
    BY <1>1, <2>1, <2>2, <2>3 DEF PinEdge, TypeOK, drv, procs
<1>2. ASSUME NEW k \in Keys, buttons_irq(k) PROVE TypeOK'
  BY <1>2, TenMsAssumption DEF TypeOK, IDLE, buttons_irq, procs
<1>3. CASE Tick
  BY <1>3, TenMsAssumption DEF TypeOK, IDLE, Tick, procs
<1>4. CASE TimerStart
  BY <1>4, NAssumption DEF TypeOK, IDLE, TimerStart, procs
<1>5. CASE get_key_val
  BY <1>5, NAssumption DEF TypeOK, Keys, get_key_val, input, procs
<1>6. CASE TimerNotify
  BY <1>6, NAssumption DEF TypeOK, TimerNotify, input
<1>7. ASSUME NEW p \in Procs, my_key_open(p) PROVE TypeOK'
  BY <1>7 DEF TypeOK, Labels, my_key_open, At, Goto, drv
<1>8. ASSUME NEW p \in Procs, my_key_close(p) PROVE TypeOK'
  BY <1>8 DEF TypeOK, Labels, my_key_close, At, Goto, IDLE, drv
<1>9. ASSUME NEW p \in Procs, my_key_fasync(p) PROVE TypeOK'
  BY <1>9 DEF TypeOK, Labels, my_key_fasync, At, input, drv
<1>10. ASSUME NEW p \in Procs, my_key_poll_wait(p) PROVE TypeOK'
  BY <1>10 DEF TypeOK, Labels, my_key_poll_wait, At, Goto, input, drv
<1>11. ASSUME NEW p \in Procs, my_key_poll_test(p) PROVE TypeOK'
  BY <1>11 DEF TypeOK, Labels, my_key_poll_test, At, Goto, input, drv
<1>12. ASSUME NEW p \in Procs, PollWake(p) PROVE TypeOK'
  BY <1>12 DEF TypeOK, Labels, PollWake, At, Goto, input, drv
<1>13. ASSUME NEW p \in Procs, PollTimeout(p) PROVE TypeOK'
  BY <1>13 DEF TypeOK, Labels, PollInv, PollTimeout, At, Goto, input, drv
<1>14. ASSUME NEW p \in Procs, PollAgain(p) PROVE TypeOK'
  BY <1>14 DEF TypeOK, Labels, PollAgain, At, Goto, input, drv
<1>15. ASSUME NEW p \in Procs, signal_fun(p) PROVE TypeOK'
  BY <1>15 DEF TypeOK, Labels, signal_fun, At, Goto, input, drv
<1>16. ASSUME NEW p \in Procs, ReadLoad(p) PROVE TypeOK'
  BY <1>16, NAssumption DEF TypeOK, Keys, Labels, ReadLoad, At, input, drv
<1>17. ASSUME NEW p \in Procs, ReadReturn(p) PROVE TypeOK'
  BY <1>17, NAssumption DEF TypeOK, Keys, Labels, ReadReturn, At, Goto, input
<1>18. CASE UNCHANGED vars
  BY <1>18 DEF TypeOK, vars, input, drv, procs
<1>19. ASSUME NEW k \in Keys, key_irq_buttons_irq(k) PROVE TypeOK'
  BY <1>19 DEF TypeOK, key_irq_buttons_irq
<1> QED
  BY <1>1, <1>2, <1>3, <1>4, <1>5, <1>6, <1>7, <1>8, <1>9, <1>10, <1>11, <1>12, <1>13,
     <1>14, <1>15, <1>16, <1>17, <1>18, <1>19 DEF Next, Timer, Running

(* Every step keeps processes that poll where they belong. *)
LEMMA PollStep ==
  ASSUME TypeOK, PollInv, [Next]_vars
  PROVE  PollInv'
<1>1. ASSUME NEW k \in Keys, PinEdge(k) PROVE PollInv'
  BY <1>1 DEF PollInv, NoLostWakeup, TypeOK, PinEdge, IDLE, drv, procs
<1>2. ASSUME NEW k \in Keys, buttons_irq(k) PROVE PollInv'
  BY <1>2 DEF PollInv, NoLostWakeup, TypeOK, buttons_irq, procs
<1>3. CASE Tick
  BY <1>3 DEF PollInv, NoLostWakeup, TypeOK, Tick, procs
<1>4. CASE TimerStart
  BY <1>4 DEF PollInv, NoLostWakeup, TypeOK, TimerStart, IDLE, procs
<1>5. CASE get_key_val
  BY <1>5 DEF PollInv, NoLostWakeup, TypeOK, get_key_val, input, procs
<1>6. CASE TimerNotify
  BY <1>6 DEF PollInv, NoLostWakeup, TypeOK, TimerNotify, input
<1>7. ASSUME NEW p \in Procs, my_key_open(p) PROVE PollInv'
  BY <1>7 DEF PollInv, NoLostWakeup, TypeOK, my_key_open, At, Goto, drv
<1>8. ASSUME NEW p \in Procs, my_key_close(p) PROVE PollInv'
  BY <1>8 DEF PollInv, NoLostWakeup, TypeOK, my_key_close, At, Goto, IDLE, drv
<1>9. ASSUME NEW p \in Procs, my_key_fasync(p) PROVE PollInv'
  BY <1>9 DEF PollInv, NoLostWakeup, TypeOK, my_key_fasync, At, input, drv
<1>10. ASSUME NEW p \in Procs, my_key_poll_wait(p) PROVE PollInv'
  BY <1>10 DEF PollInv, NoLostWakeup, TypeOK, Procs, my_key_poll_wait, At, Goto, input, drv
<1>11. ASSUME NEW p \in Procs, my_key_poll_test(p) PROVE PollInv'
  BY <1>11 DEF PollInv, NoLostWakeup, TypeOK, my_key_poll_test, At, Goto, input, drv
<1>12. ASSUME NEW p \in Procs, PollWake(p) PROVE PollInv'
  BY <1>12 DEF PollInv, NoLostWakeup, TypeOK, PollWake, At, Goto, input, drv
<1>13. ASSUME NEW p \in Procs, PollTimeout(p) PROVE PollInv'
  BY <1>13 DEF PollInv, NoLostWakeup, TypeOK, PollTimeout, At, Goto, input, drv
<1>14. ASSUME NEW p \in Procs, PollAgain(p) PROVE PollInv'
  BY <1>14 DEF PollInv, NoLostWakeup, TypeOK, PollAgain, At, Goto, input, drv
<1>15. ASSUME NEW p \in Procs, signal_fun(p) PROVE PollInv'
  BY <1>15 DEF PollInv, NoLostWakeup, TypeOK, signal_fun, At, Goto, input, drv
<1>16. ASSUME NEW p \in Procs, ReadLoad(p) PROVE PollInv'
  BY <1>16 DEF PollInv, NoLostWakeup, TypeOK, ReadLoad, At, input, drv
<1>17. ASSUME NEW p \in Procs, ReadReturn(p) PROVE PollInv'
  BY <1>17 DEF PollInv, NoLostWakeup, TypeOK, ReadReturn, At, Goto, input
<1>18. CASE UNCHANGED vars
  BY <1>18 DEF PollInv, NoLostWakeup, TypeOK, vars, input, drv, procs
<1>19. ASSUME NEW k \in Keys, key_irq_buttons_irq(k) PROVE PollInv'
  BY <1>19 DEF PollInv, NoLostWakeup, TypeOK, key_irq_buttons_irq
<1> QED
  BY <1>1, <1>2, <1>3, <1>4, <1>5, <1>6, <1>7, <1>8, <1>9, <1>10, <1>11, <1>12, <1>13,
     <1>14, <1>15, <1>16, <1>17, <1>18, <1>19 DEF Next, Timer, Running

(* Every step keeps the timer behind the last edge. *)
LEMMA BurstStep ==
  ASSUME TypeOK, BurstInv, [Next]_vars
  PROVE  BurstInv'
<1>1. ASSUME NEW k \in Keys, PinEdge(k) PROVE BurstInv'
  <2>1. CASE requested
    <3>1. irqs' # {} /\ quiet' = 0
      BY <1>1, <2>1 DEF PinEdge
    <3>2. runs' = IF bouncing THEN runs ELSE 0
      BY <1>1, <2>1 DEF PinEdge
    <3>3. runs' \in {IDLE, 0}
      BY <3>2 DEF BurstInv
    <3>4. UNCHANGED <<timer, debounced>>
      BY <1>1 DEF PinEdge, drv
    <3> QED
      BY <3>1, <3>3, <3>4 DEF BurstInv, IDLE
  <2>2. CASE ~requested
    BY <1>1, <2>2 DEF PinEdge, BurstInv, IDLE, drv
  <2> QED
    BY <2>1, <2>2
<1>2. ASSUME NEW k \in Keys, buttons_irq(k) PROVE BurstInv'
  BY <1>2, TenMsAssumption DEF BurstInv, TypeOK, IDLE, buttons_irq, procs
<1>3. CASE Tick
  BY <1>3, TenMsAssumption DEF BurstInv, TypeOK, IDLE, Tick, procs
<1>4. CASE TimerStart
  BY <1>4, TenMsAssumption DEF BurstInv, TypeOK, IDLE, TimerStart, procs
<1>5. CASE get_key_val
  BY <1>5 DEF BurstInv, TypeOK, get_key_val, input, procs
<1>6. CASE TimerNotify
  BY <1>6 DEF BurstInv, TypeOK, TimerNotify, input
<1>7. ASSUME NEW p \in Procs, my_key_open(p) PROVE BurstInv'
  BY <1>7 DEF BurstInv, TypeOK, my_key_open, At, Goto, drv
<1>8. ASSUME NEW p \in Procs, my_key_close(p) PROVE BurstInv'
  BY <1>8 DEF BurstInv, TypeOK, my_key_close, At, Goto, IDLE, drv
<1>9. ASSUME NEW p \in Procs, Running(p) PROVE BurstInv'
  BY <1>9, RunningFrame DEF BurstInv, input
<1>10. CASE UNCHANGED vars
  BY <1>10 DEF BurstInv, TypeOK, vars, input, drv, procs
<1>11. ASSUME NEW k \in Keys, key_irq_buttons_irq(k) PROVE BurstInv'
  BY <1>11 DEF BurstInv, TypeOK, key_irq_buttons_irq
<1> QED
  BY <1>1, <1>2, <1>3, <1>4, <1>5, <1>6, <1>7, <1>8, <1>9, <1>10, <1>11 DEF Next, Timer

(* Every step keeps an old value on its way to be sampled. *)
LEMMA SampleStep ==
  ASSUME TypeOK, SampleInv, [Next]_vars
  PROVE  SampleInv'
<1>1. ASSUME NEW k \in Keys, PinEdge(k) PROVE SampleInv'
  BY <1>1 DEF SampleInv, TypeOK, PinEdge, IDLE, drv, procs
<1>2. ASSUME NEW k \in Keys, buttons_irq(k) PROVE SampleInv'
  BY <1>2, TenMsAssumption DEF SampleInv, TypeOK, IDLE, buttons_irq, procs
<1>3. CASE Tick
  BY <1>3 DEF SampleInv, TypeOK, IDLE, Tick, procs
<1>4. CASE TimerStart
  BY <1>4, NAssumption DEF SampleInv, TypeOK, IDLE, Keys, TimerStart, procs
<1>5. CASE get_key_val
  BY <1>5, NAssumption DEF SampleInv, TypeOK, Keys, get_key_val, input, procs
<1>6. CASE TimerNotify
  BY <1>6, NAssumption DEF SampleInv, TypeOK, Keys, TimerNotify, input
<1>7. ASSUME NEW p \in Procs, my_key_open(p) PROVE SampleInv'
  BY <1>7 DEF SampleInv, TypeOK, my_key_open, At, Goto, drv
<1>8. ASSUME NEW p \in Procs, my_key_close(p) PROVE SampleInv'
  BY <1>8 DEF SampleInv, TypeOK, my_key_close, At, Goto, IDLE, drv
<1>9. ASSUME NEW p \in Procs, Running(p) PROVE SampleInv'
  BY <1>9, RunningFrame DEF SampleInv, input
<1>10. CASE UNCHANGED vars
  BY <1>10 DEF SampleInv, TypeOK, vars, input, drv, procs
<1>11. ASSUME NEW k \in Keys, key_irq_buttons_irq(k) PROVE SampleInv'
  BY <1>11 DEF SampleInv, TypeOK, key_irq_buttons_irq
<1> QED
  BY <1>1, <1>2, <1>3, <1>4, <1>5, <1>6, <1>7, <1>8, <1>9, <1>10, <1>11 DEF Next, Timer

(* Every step keeps what has been read current, or SIGIO pending. *)
LEMMA SignalStep ==
  ASSUME TypeOK, SignalInv, [Next]_vars
  PROVE  SignalInv'
<1>1. ASSUME NEW k \in Keys, PinEdge(k) PROVE SignalInv'
  BY <1>1 DEF SignalInv, TypeOK, PinEdge, IDLE, drv, procs
<1>2. ASSUME NEW k \in Keys, buttons_irq(k) PROVE SignalInv'
  BY <1>2 DEF SignalInv, TypeOK, buttons_irq, procs
<1>3. CASE Tick
  BY <1>3 DEF SignalInv, TypeOK, Tick, procs
<1>4. CASE TimerStart
  BY <1>4, NAssumption DEF SignalInv, TypeOK, Keys, TimerStart, IDLE, procs
<1>5. CASE get_key_val
  BY <1>5, NAssumption DEF SignalInv, TypeOK, Keys, get_key_val, input, procs
<1>6. CASE TimerNotify
  BY <1>6, NAssumption DEF SignalInv, TypeOK, Keys, TimerNotify, input
<1>7. ASSUME NEW p \in Procs, my_key_open(p) PROVE SignalInv'
  BY <1>7 DEF SignalInv, TypeOK, Procs, my_key_open, At, Goto, drv
<1>8. ASSUME NEW p \in Procs, my_key_close(p) PROVE SignalInv'
  BY <1>8 DEF SignalInv, TypeOK, Procs, my_key_close, At, Goto, IDLE, drv
<1>9. ASSUME NEW p \in Procs, my_key_fasync(p) PROVE SignalInv'
  BY <1>9 DEF SignalInv, TypeOK, Procs, my_key_fasync, At, input, drv
<1>10. ASSUME NEW p \in Procs, my_key_poll_wait(p) PROVE SignalInv'
  BY <1>10, ProcsAssumption DEF SignalInv, TypeOK, Procs, my_key_poll_wait, At, Goto, input, drv
<1>11. ASSUME NEW p \in Procs, my_key_poll_test(p) PROVE SignalInv'
  BY <1>11 DEF SignalInv, TypeOK, Procs, my_key_poll_test, At, Goto, input, drv
<1>12. ASSUME NEW p \in Procs, PollWake(p) PROVE SignalInv'
  BY <1>12 DEF SignalInv, TypeOK, Procs, PollWake, At, Goto, input, drv
<1>13. ASSUME NEW p \in Procs, PollTimeout(p) PROVE SignalInv'
  BY <1>13 DEF SignalInv, TypeOK, Procs, PollTimeout, At, Goto, input, drv
<1>14. ASSUME NEW p \in Procs, PollAgain(p) PROVE SignalInv'
  BY <1>14 DEF SignalInv, TypeOK, Procs, PollAgain, At, Goto, input, drv
<1>15. ASSUME NEW p \in Procs, signal_fun(p) PROVE SignalInv'
  BY <1>15 DEF SignalInv, TypeOK, Procs, signal_fun, At, Goto, input, drv
<1>16. ASSUME NEW p \in Procs, ReadLoad(p) PROVE SignalInv'
  BY <1>16, NAssumption DEF SignalInv, TypeOK, Procs, Keys, ReadLoad, At, input, drv
<1>17. ASSUME NEW p \in Procs, ReadReturn(p) PROVE SignalInv'
  BY <1>17, NAssumption DEF SignalInv, TypeOK, Procs, Keys, ReadReturn, At, Goto, input
<1>18. CASE UNCHANGED vars
  BY <1>18 DEF SignalInv, TypeOK, vars, input, drv, procs
<1>19. ASSUME NEW k \in Keys, key_irq_buttons_irq(k) PROVE SignalInv'
  BY <1>19 DEF SignalInv, TypeOK, key_irq_buttons_irq
<1> QED
  BY <1>1, <1>2, <1>3, <1>4, <1>5, <1>6, <1>7, <1>8, <1>9, <1>10, <1>11, <1>12, <1>13,
     <1>14, <1>15, <1>16, <1>17, <1>18, <1>19 DEF Next, Timer, Running

-----------------------------------------------------------------------------
(* The driver is loaded into a state of the invariant. *)
LEMMA InitInv == Init => IInv
<1> SUFFICES ASSUME Init PROVE IInv
  OBVIOUS
<1>1. TypeOK
  <2>1. /\ key_val \in [Keys -> BOOLEAN] /\ pc \in [Procs -> Labels]
        /\ got \in [Procs -> [Keys -> BOOLEAN]]
    BY DEF Init, Labels
  <2>2. loaded \in [Procs -> 0..N] /\ scan \in 0..(N + 1)
    BY NAssumption DEF Init
  <2>3. quiet \in 0..TenMs /\ timer \in {IDLE} \cup 0..(TenMs + 1)
    BY TenMsAssumption DEF Init
  <2> QED
    BY <2>1, <2>2, <2>3 DEF Init, TypeOK
<1>2. PollInv /\ BurstInv /\ SampleInv /\ SignalInv
  BY TenMsAssumption DEF Init, PollInv, NoLostWakeup, BurstInv, SampleInv, SignalInv, IDLE
<1> QED
  BY <1>1, <1>2 DEF IInv

(* The inductive invariant holds of every behaviour of the driver, its buttons
   and its processes. *)
THEOREM Invariant == Spec => []IInv
<1>1. IInv /\ [Next]_vars => IInv'
  BY TypeStep, PollStep, BurstStep, SampleStep, SignalStep DEF IInv
<1> QED
  BY InitInv, <1>1, PTL DEF Spec

(* For any number of buttons and processes the variables keep their types: the
   samples stay within pins_desc, the loads within the buttons, and only
   processes in poll are on my_key_waitq. *)
THEOREM TypeCorrect == Spec => []TypeOK
<1>1. IInv => TypeOK
  BY DEF IInv
<1> QED
  BY Invariant, <1>1, PTL

(* An edge that raised an interrupt is never lost, wherever it falls in the
   timer function: when the driver has nothing left to do it holds the value
   of every button. *)
THEOREM EdgesNotLost == Spec => []SettledReported
<1>1. IInv => SettledReported
  BY DEF IInv, SampleInv, SettledReported, Quiescent
<1> QED
  BY Invariant, <1>1, PTL

(* With HZ/100+1 jiffies the timer function starts at most once from the first
   edge of a burst to the first edge of the next one, however long 10 ms are in
   jiffies and however the edges fall among them. *)
THEOREM DebouncedOnce == Spec => []OncePerBurst
<1>1. IInv => OncePerBurst
  BY DEF IInv, BurstInv, OncePerBurst, IDLE
<1> QED
  BY Invariant, <1>1, PTL

(* No process sleeps in poll with something to read without having been woken,
   whatever other processes read and clear meanwhile. *)
THEOREM WakeupsNotLost == Spec => []NoLostWakeup
<1>1. IInv => NoLostWakeup
  BY DEF IInv, PollInv
<1> QED
  BY Invariant, <1>1, PTL

(* A program that reads on SIGIO has the driver's values whenever it is not
   about to read again, for any number of such programs. *)
THEOREM SignalsSuffice == Spec => []SignalledCurrent
<1>1. IInv => SignalledCurrent
  BY DEF IInv, SignalInv, SignalledCurrent
<1> QED
  BY Invariant, <1>1, PTL
===============================================================================
