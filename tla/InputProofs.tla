------------------------------ MODULE InputProofs ------------------------------
(***************************************************************************)
(* Proofs about the two drivers of the input subsystem: KeyInput, for any  *)
(* number of buttons and any HZ, and TouchScreen, whose proofs do not      *)
(* depend on the order in which the pen, the ADC and the timer function    *)
(* overtake each other, nor on how often they do.                          *)
(***************************************************************************)
EXTENDS KeyInput, TouchScreen, TLAPS

-----------------------------------------------------------------------------
(* An interrupt of k is yet to be taken, or the timer is armed for k. *)
Pending(k) == k \in irqs \/ (irq_pd = k /\ timer # IDLE)

(* A button that was not overtaken will be looked at, or is being looked at by
   a timer function that has not read anything else of it than it is now, or
   its key is right.  The middle case is what OnlyOvertakenStale does not say:
   a stale pinval may wait to be reported, but only with the timer armed. *)
EdgeInv ==
  \A k \in Keys \ missed :
    \/ Pending(k)
    \/ pindesc_p = k /\ pinval \in {UNREAD, pin[k]}
    \/ pindesc_p # k /\ key[k] = pin[k]

-----------------------------------------------------------------------------
(* Every step keeps the types. *)
LEMMA TypeStep ==
  ASSUME TypeOK, [Next]_vars
  PROVE  TypeOK'
<1> USE NAssumption, TenMsAssumption DEF TypeOK, Keys, NULL, IDLE, UNREAD
<1>1. ASSUME NEW k \in Keys, PinEdge(k) PROVE TypeOK'
  <2>1. pin' \in [Keys -> {0, 1}]
    BY <1>1 DEF PinEdge
  <2> QED
    BY <1>1, <2>1 DEF PinEdge
<1>2. ASSUME NEW k \in Keys, key_irq_handler(k) PROVE TypeOK'
  <2>1. missed' \subseteq Keys /\ irqs' \subseteq Keys
    BY <1>2 DEF key_irq_handler, Overtaken
  <2> QED
    BY <1>2, <2>1 DEF key_irq_handler
<1>3. CASE Tick
  BY <1>3 DEF Tick
<1>4. CASE TimerStart
  BY <1>4 DEF TimerStart
<1>5. CASE ReadPin
  BY <1>5 DEF ReadPin
<1>6. CASE Report
  BY <1>6 DEF Report
<1>7. CASE UNCHANGED vars
  BY <1>7 DEF vars
<1> QED
  BY <1>1, <1>2, <1>3, <1>4, <1>5, <1>6, <1>7 DEF Next, kery_timer_function

(* No step loses an edge of a button, but the interrupt of another one that
   finds the timer armed. *)
LEMMA EdgeStep ==
  ASSUME TypeOK, EdgeInv, [Next]_vars
  PROVE  EdgeInv'
<1> USE DEF EdgeInv, Pending
<1>1. ASSUME NEW k \in Keys, PinEdge(k) PROVE EdgeInv'
  <2>1. \A j \in Keys \ {k} : pin'[j] = pin[j]
    BY <1>1 DEF PinEdge, TypeOK
  <2>2. irqs' = irqs \cup {k} /\ UNCHANGED <<irq_pd, timer, pindesc_p, pinval, key, missed>>
    BY <1>1 DEF PinEdge
  <2> QED
    BY <2>1, <2>2
<1>2. ASSUME NEW k \in Keys, key_irq_handler(k) PROVE EdgeInv'
  <2>1. SUFFICES ASSUME NEW j \in Keys \ missed'
                 PROVE  \/ Pending(j)'
                        \/ pindesc_p' = j /\ pinval' \in {UNREAD, pin'[j]}
                        \/ pindesc_p' # j /\ key'[j] = pin'[j]
    OBVIOUS
  <2>2. CASE j = k
    <3>1. irq_pd' = k /\ timer' # IDLE
      BY <1>2, TenMsAssumption DEF key_irq_handler, IDLE
    <3> QED
      BY <2>2, <3>1
  <2>3. CASE j # k
    <3>1. j \notin missed /\ j \notin Overtaken(k)
      BY <1>2, <2>1, <2>3 DEF key_irq_handler
    <3>2. ~(irq_pd = j /\ timer # IDLE)
      <4>1. j # NULL
        BY NAssumption DEF Keys, NULL
      <4> QED
        BY <2>3, <3>1, <4>1 DEF Overtaken
    <3> QED
      BY <1>2, <2>1, <2>3, <3>1, <3>2 DEF key_irq_handler
  <2> QED
    BY <2>2, <2>3
<1>3. CASE Tick
  <2>1. timer' # IDLE /\ timer # IDLE
    BY <1>3 DEF Tick, TypeOK, IDLE
  <2> QED
    BY <1>3, <2>1 DEF Tick
<1>4. CASE TimerStart
  <2>1. irqs = {} /\ pindesc_p = NULL /\ pinval = UNREAD
    BY <1>4 DEF TimerStart, TypeOK
  <2>2. pindesc_p' = irq_pd /\ UNCHANGED <<pin, irqs, irq_pd, pinval, key, missed>>
    BY <1>4 DEF TimerStart
  <2>3. \A k \in Keys : k # NULL
    BY NAssumption DEF Keys, NULL
  <2> QED
    BY <2>1, <2>2, <2>3
<1>5. CASE ReadPin
  BY <1>5 DEF ReadPin
<1>6. CASE Report
  <2>1. \A k \in Keys \ {pindesc_p} : key'[k] = key[k]
    BY <1>6 DEF Report, TypeOK
  <2>2. pindesc_p \in Keys => key'[pindesc_p] = pinval
    BY <1>6 DEF Report, TypeOK
  <2>3. /\ pinval # UNREAD /\ pindesc_p' = NULL
        /\ UNCHANGED <<pin, irqs, irq_pd, timer, missed>>
    BY <1>6 DEF Report
  <2>4. \A k \in Keys : k # NULL
    BY NAssumption DEF Keys, NULL
  <2> QED
    BY <2>1, <2>2, <2>3, <2>4
<1>7. CASE UNCHANGED vars
  BY <1>7 DEF vars
<1> QED
  BY <1>1, <1>2, <1>3, <1>4, <1>5, <1>6, <1>7 DEF Next, kery_timer_function

-----------------------------------------------------------------------------
(* For any number of buttons and any HZ the variables keep their types, and the
   timer function holds a value only while it holds a button. *)
THEOREM TypeCorrect == Spec => []TypeOK
<1>1. ASSUME Init PROVE TypeOK
  <2>1. /\ pin \in [Keys -> {0, 1}] /\ key \in [Keys -> {0, 1}]
        /\ irqs \subseteq Keys /\ missed \subseteq Keys
    BY <1>1 DEF Init
  <2>2. timer \in {IDLE} \cup 0..TenMs
    BY <1>1, TenMsAssumption DEF Init
  <2> QED
    BY <1>1, <2>1, <2>2 DEF Init, TypeOK
<1>2. TypeOK /\ [Next]_vars => TypeOK'
  BY TypeStep
<1> QED
  BY <1>1, <1>2, PTL DEF Spec

(* For any number of buttons: when the driver has nothing left to do a key is
   what its button is, unless another button's interrupt took the timer from
   it.  That is the only way in which an edge is lost. *)
THEOREM OnlyOvertakenLost == Spec => []OnlyOvertakenStale
<1>1. ASSUME Init PROVE EdgeInv
  <2>1. \A k \in Keys : k # NULL
    BY NAssumption DEF Keys, NULL
  <2>2. ASSUME NEW k \in Keys \ missed PROVE key[k] = pin[k]
    <3>1. pin[k] \in {0, 1} /\ pin[k] # 1 /\ key[k] = 0
      BY <1>1 DEF Init
    <3> QED
      BY <3>1
  <2>3. pindesc_p = NULL
    BY <1>1 DEF Init
  <2> QED
    BY <2>1, <2>2, <2>3 DEF EdgeInv
<1>2. TypeOK /\ EdgeInv /\ [Next]_vars => EdgeInv'
  BY EdgeStep
<1>3. EdgeInv => OnlyOvertakenStale
  <2>1. \A k \in Keys : k # NULL
    BY NAssumption DEF Keys, NULL
  <2> QED
    BY <2>1 DEF EdgeInv, Pending, OnlyOvertakenStale, Quiescent
<1> QED
  BY <1>1, <1>2, <1>3, TypeCorrect, PTL DEF Spec

-----------------------------------------------------------------------------
(* Every step keeps the types, and the count of samples below the length of
   x[] and y[]. *)
LEMMA TsTypeStep ==
  ASSUME TsTypeOK, [TsNext]_tsvars
  PROVE  TsTypeOK'
<1> USE DEF TsTypeOK
<1>1. CASE PenMove
  BY <1>1 DEF PenMove, report
<1>2. CASE TcRaise
  BY <1>2 DEF TcRaise, hw, report
<1>3. CASE AdcDone
  BY <1>3 DEF AdcDone, report
<1>4. CASE pen_down_up_irq_handler
  BY <1>4 DEF pen_down_up_irq_handler, pen_up, input_report, report
<1>5. CASE AdcIrqDiscard
  <2>1. cnt' \in 0..(Samples - 1)
    BY <1>5 DEF AdcIrqDiscard, Samples
  <2> QED
    BY <1>5, <2>1 DEF AdcIrqDiscard, input_report, hw
<1>6. CASE AdcIrqMore
  <2>1. cnt' \in 0..(Samples - 1)
    BY <1>6 DEF AdcIrqMore, Samples
  <2> QED
    BY <1>6, <2>1 DEF AdcIrqMore, Store, report
<1>7. CASE AdcIrqReport
  <2>1. cnt' \in 0..(Samples - 1)
    BY <1>7 DEF AdcIrqReport, Samples
  <2> QED
    BY <1>7, <2>1 DEF AdcIrqReport, Store, input_report, hw
<1>8. CASE TsTimerStart
  BY <1>8 DEF TsTimerStart, hw, ints, report
<1>9. CASE TimerPressure
  BY <1>9 DEF TimerPressure, hw, ints
<1>10. CASE TimerTouch
  BY <1>10 DEF TimerTouch, hw, ints
<1>11. CASE TimerWaitDown
  BY <1>11 DEF TimerWaitDown, hw, ints, report
<1>12. CASE TimerMeasure
  BY <1>12 DEF TimerMeasure, hw, ints, report
<1>13. CASE TimerStartAdc
  BY <1>13 DEF TimerStartAdc, ints, report
<1>14. CASE UNCHANGED tsvars
  BY <1>14 DEF tsvars
<1> QED
  BY <1>1, <1>2, <1>3, <1>4, <1>5, <1>6, <1>7, <1>8, <1>9, <1>10, <1>11, <1>12, <1>13, <1>14
  DEF TsNext, adc_irq, TimerStep

(* adc_irq stores its samples inside x[] and y[], whoever else starts
   conversions, and the other variables keep their types. *)
THEOREM TsTypeCorrect == TsSpec => []TsTypeOK
<1>1. ASSUME TsInit PROVE TsTypeOK
  <2>1. cnt \in 0..(Samples - 1)
    BY <1>1 DEF TsInit, Samples
  <2> QED
    BY <1>1, <2>1 DEF TsInit, TsTypeOK
<1>2. TsTypeOK /\ [TsNext]_tsvars => TsTypeOK'
  BY TsTypeStep
<1> QED
  BY <1>1, <1>2, PTL DEF TsSpec

(* No step enters the measuring mode, or uses up the conversion that would end
   it, without leaving something behind that ends it. *)
LEMMA MeasureStep ==
  ASSUME TsTypeOK, MeasureEnds, [TsNext]_tsvars
  PROVE  MeasureEnds'
<1> USE DEF MeasureEnds
<1>1. CASE PenMove
  BY <1>1 DEF PenMove
<1>2. CASE TcRaise
  BY <1>2 DEF TcRaise, hw
<1>3. CASE AdcDone
  BY <1>3 DEF AdcDone
<1>4. CASE pen_down_up_irq_handler
  BY <1>4 DEF pen_down_up_irq_handler, pen_up
<1>5. CASE adc_irq
  BY <1>5 DEF adc_irq, AdcIrqDiscard, AdcIrqMore, AdcIrqReport
<1>6. CASE TsTimerStart
  BY <1>6 DEF TsTimerStart, hw, ints
<1>7. CASE TimerStep
  BY <1>7 DEF TimerStep, TimerPressure, TimerTouch, TimerWaitDown, TimerMeasure,
              TimerStartAdc, hw, ints
<1>8. CASE UNCHANGED tsvars
  BY <1>8 DEF tsvars
<1> QED
  BY <1>1, <1>2, <1>3, <1>4, <1>5, <1>6, <1>7, <1>8 DEF TsNext

(* The measuring mode, in which the pen raises no interrupt, always ends: a
   conversion is or will be under way whatever has overtaken whatever. *)
THEOREM MeasuringEnds == TsSpec => []MeasureEnds
<1>1. TsInit => MeasureEnds
  BY DEF TsInit, MeasureEnds
<1>2. TsTypeOK /\ MeasureEnds /\ [TsNext]_tsvars => MeasureEnds'
  BY MeasureStep
<1> QED
  BY <1>1, <1>2, TsTypeCorrect, PTL DEF TsSpec

(* What the timer function has reported up is reported down again only with the
   timer armed anew, also between two of its steps; and when there is nothing
   left to do the controller waits for the pen. *)
WatchInv ==
  /\ tpc \in {"touch", "wait_down"} /\ pressure = 1 => ts_timer
  /\ tpc = "wait_down" /\ touch = 1 => ts_timer
  /\ NotForgotten

(* No step gives up the pen while it is reported down, or before the controller
   waits for it. *)
LEMMA WatchStep ==
  ASSUME TsTypeOK, MeasureEnds, WatchInv, [TsNext]_tsvars
  PROVE  WatchInv'
<1> USE DEF WatchInv, NotForgotten, Idle, TsTypeOK
<1>1. CASE PenMove
  BY <1>1 DEF PenMove, report
<1>2. CASE TcRaise
  BY <1>2 DEF TcRaise, hw, report
<1>3. CASE AdcDone
  BY <1>3 DEF AdcDone, report
<1>4. CASE pen_down_up_irq_handler
  BY <1>4 DEF pen_down_up_irq_handler, pen_up, input_report, report
<1>5. CASE AdcIrqDiscard
  BY <1>5 DEF AdcIrqDiscard, input_report, hw
<1>6. CASE AdcIrqMore
  BY <1>6 DEF AdcIrqMore, Store, report
<1>7. CASE AdcIrqReport
  BY <1>7 DEF AdcIrqReport, Store, input_report, hw
<1>8. CASE TsTimerStart
  BY <1>8 DEF TsTimerStart, hw, ints, report
<1>9. CASE TimerPressure
  BY <1>9 DEF TimerPressure, hw, ints
<1>10. CASE TimerTouch
  BY <1>10 DEF TimerTouch, hw, ints
<1>11. CASE TimerWaitDown
  BY <1>11 DEF TimerWaitDown, hw, ints, report
<1>12. CASE TimerMeasure
  BY <1>12 DEF TimerMeasure, hw, ints, report
<1>13. CASE TimerStartAdc
  BY <1>13 DEF TimerStartAdc, ints, report
<1>14. CASE UNCHANGED tsvars
  BY <1>14 DEF tsvars
<1> QED
  BY <1>1, <1>2, <1>3, <1>4, <1>5, <1>6, <1>7, <1>8, <1>9, <1>10, <1>11, <1>12, <1>13, <1>14
  DEF TsNext, adc_irq, TimerStep

(* No touch is forgotten: as long as the pen is reported down, in either event,
   the timer or the ADC will look at it again; and afterwards the controller
   waits for the next touch, or for the lift of one it has dropped. *)
THEOREM TouchNotForgotten == TsSpec => []NotForgotten
<1>1. TsInit => WatchInv
  BY DEF TsInit, WatchInv, NotForgotten, Idle
<1>2. TsTypeOK /\ MeasureEnds /\ WatchInv /\ [TsNext]_tsvars => WatchInv'
  BY WatchStep
<1>3. WatchInv => NotForgotten
  BY DEF WatchInv
<1> QED
  BY <1>1, <1>2, <1>3, TsTypeCorrect, MeasuringEnds, PTL DEF TsSpec
===============================================================================
