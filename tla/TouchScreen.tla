------------------------------ MODULE TouchScreen ------------------------------
(***************************************************************************)
(* The touch screen driver,                                                *)
(* src/input_sub_system/touch_screen/ts_drv.c: the pen and the ADC         *)
(* interrupt handlers and the timer function, from my_ts_init on.          *)
(*                                                                         *)
(* The machine has one processor.  Handlers are not interrupted and are    *)
(* one step each.  The timer function runs in a softirq: both interrupts   *)
(* come between any two of its steps.                                      *)
(*                                                                         *)
(* What KeyInput has a name for too is named with Ts here, so that one     *)
(* module can extend both.                                                 *)
(*                                                                         *)
(* Of a sample only bit 0 of its x coordinate matters to the control flow  *)
(* and is a choice; coordinates and their average are left out.            *)
(*                                                                         *)
(* A definition whose name ends in _Bug is the definition that follows it  *)
(* with a mistake in it; no specification uses it.                         *)
(***************************************************************************)
EXTENDS Integers

VARIABLES
  \* The panel and the ADC.
  pen,         \* "up" or "down", which bit 15 of adcdat0 and adcdat1 shows
  adctsc,      \* "wait_down" (0xd3), "wait_up" (0x1d3) or "measure" (1<<2)
  tc,          \* INT_TC is pending
  converting,  \* a conversion is under way
  adc,         \* INT_ADC is pending
  \* The driver.
  cnt,         \* samples taken by adc_irq
  ts_timer,    \* ts_timer is pending
  tpc,         \* where the timer function is
  \* What the input core was last told.
  pressure,    \* ABS_PRESSURE
  touch,       \* BTN_TOUCH
  \* History, which no step reads.
  dropped      \* adc_irq last ended by dropping its result

hw     == <<pen, converting>>
ints   == <<tc, adc>>
report == <<pressure, touch>>
tsvars == <<pen, adctsc, tc, converting, adc, cnt, ts_timer, tpc, pressure, touch, dropped>>

Samples == 4    \* the length of x[] and y[] in adc_irq

(* my_ts_init has returned: add_timer has armed the timer with expires = 0. *)
TsInit ==
  /\ pen \in {"up", "down"} /\ adctsc = "wait_down"
  /\ tc = FALSE /\ converting = FALSE /\ adc = FALSE
  /\ cnt = 0 /\ ts_timer = TRUE /\ tpc = "idle"
  /\ pressure = 0 /\ touch = 0 /\ dropped = FALSE

-----------------------------------------------------------------------------
(* The panel and the ADC (external). *)

PenMove ==
  /\ pen' = IF pen = "up" THEN "down" ELSE "up"
  /\ UNCHANGED <<adctsc, tc, converting, adc, cnt, ts_timer, tpc, report, dropped>>

(* In a waiting mode the controller interrupts when the pen is where it is
   waited for, also when it was there before the mode was entered. *)
TcRaise ==
  /\ ~tc
  /\ \/ adctsc = "wait_down" /\ pen = "down"
     \/ adctsc = "wait_up" /\ pen = "up"
  /\ tc' = TRUE
  /\ UNCHANGED <<hw, adctsc, adc, cnt, ts_timer, tpc, report, dropped>>

AdcDone ==
  /\ converting
  /\ converting' = FALSE /\ adc' = TRUE
  /\ UNCHANGED <<pen, adctsc, tc, cnt, ts_timer, tpc, report, dropped>>

-----------------------------------------------------------------------------
TS_IS_UP == pen = "up"

(* input_report_abs, input_report_key and input_sync, in one go. *)
input_report(v) == pressure' = v /\ touch' = v

(* The pen is waited for to be lifted, again. *)
pen_up_Bug ==
  /\ input_report(0)
  /\ adctsc' = "wait_up"

(* pen_down_up_irq_handler with the pen up. *)
pen_up ==
  /\ input_report(0)
  /\ adctsc' = "wait_down"

pen_down_up_irq_handler ==
  /\ tc /\ tc' = FALSE
  /\ \/ TS_IS_UP /\ pen_up /\ UNCHANGED converting
     \/ /\ ~TS_IS_UP
        /\ adctsc' = "measure" /\ converting' = TRUE
        /\ UNCHANGED report
  /\ UNCHANGED <<pen, adc, cnt, ts_timer, tpc, dropped>>

(* The condition of line 88: `1<15' is 1, so of adcdat0 it is bit 0 of the
   coordinate that counts. *)
Discards(x0) == x0 = 1 /\ pen = "up"

(* adc_irq, the result is dropped: the label out, without mod_timer. *)
AdcIrqDiscard ==
  /\ adc /\ adc' = FALSE
  /\ \E x0 \in {0, 1} : Discards(x0)
  /\ input_report(0)
  /\ cnt' = 0 /\ dropped' = TRUE
  /\ adctsc' = "wait_up"
  /\ UNCHANGED <<hw, tc, ts_timer, tpc>>

(* adc_irq, a sample is stored, *)
Store ==
  /\ adc /\ adc' = FALSE
  /\ \E x0 \in {0, 1} : ~Discards(x0)

(* and another one is asked for; *)
AdcIrqMore ==
  /\ Store /\ cnt + 1 # Samples
  /\ cnt' = cnt + 1
  /\ adctsc' = "measure" /\ converting' = TRUE
  /\ UNCHANGED <<pen, tc, ts_timer, tpc, report, dropped>>

(* `cnt = 0' is missing. *)
AdcIrqReport_Count_Bug ==
  /\ Store /\ cnt + 1 = Samples
  /\ input_report(1)
  /\ ts_timer' = TRUE
  /\ cnt' = cnt + 1 /\ dropped' = FALSE
  /\ adctsc' = "wait_up"
  /\ UNCHANGED <<hw, tc, tpc>>

(* The timer is not started. *)
AdcIrqReport_Timer_Bug ==
  /\ Store /\ cnt + 1 = Samples
  /\ input_report(1)
  /\ cnt' = 0 /\ dropped' = FALSE
  /\ adctsc' = "wait_up"
  /\ UNCHANGED <<hw, tc, ts_timer, tpc>>

(* or it was the last: the average is reported and the timer started. *)
AdcIrqReport ==
  /\ Store /\ cnt + 1 = Samples
  /\ input_report(1)
  /\ ts_timer' = TRUE
  /\ cnt' = 0 /\ dropped' = FALSE
  /\ adctsc' = "wait_up"
  /\ UNCHANGED <<hw, tc, tpc>>

adc_irq == AdcIrqDiscard \/ AdcIrqMore \/ AdcIrqReport

-----------------------------------------------------------------------------
(* s3c_ts_timer_function. *)
TsTimerStart ==
  /\ ts_timer /\ tpc = "idle"
  /\ ts_timer' = FALSE
  /\ tpc' = IF TS_IS_UP THEN "pressure" ELSE "measure"
  /\ UNCHANGED <<hw, adctsc, ints, cnt, report, dropped>>

TimerPressure ==
  /\ tpc = "pressure"
  /\ pressure' = 0
  /\ tpc' = "touch"
  /\ UNCHANGED <<hw, adctsc, ints, cnt, ts_timer, touch, dropped>>

(* BTN_TOUCH is not reported. *)
TimerTouch_Bug ==
  /\ tpc = "touch"
  /\ tpc' = "wait_down"
  /\ UNCHANGED <<hw, adctsc, ints, cnt, ts_timer, report, dropped>>

TimerTouch ==
  /\ tpc = "touch"
  /\ touch' = 0
  /\ tpc' = "wait_down"
  /\ UNCHANGED <<hw, adctsc, ints, cnt, ts_timer, pressure, dropped>>

TimerWaitDown ==
  /\ tpc = "wait_down"
  /\ adctsc' = "wait_down"
  /\ tpc' = "idle"
  /\ UNCHANGED <<hw, ints, cnt, ts_timer, report, dropped>>

TimerMeasure ==
  /\ tpc = "measure"
  /\ adctsc' = "measure"
  /\ tpc' = "start_adc"
  /\ UNCHANGED <<hw, ints, cnt, ts_timer, report, dropped>>

(* start_adc is left out. *)
TimerStartAdc_Bug ==
  /\ tpc = "start_adc"
  /\ tpc' = "idle"
  /\ UNCHANGED <<hw, adctsc, ints, cnt, ts_timer, report, dropped>>

TimerStartAdc ==
  /\ tpc = "start_adc"
  /\ converting' = TRUE
  /\ tpc' = "idle"
  /\ UNCHANGED <<pen, adctsc, ints, cnt, ts_timer, report, dropped>>

TimerStep == TimerPressure \/ TimerTouch \/ TimerWaitDown \/ TimerMeasure \/ TimerStartAdc

TsNext ==
  \/ PenMove \/ TcRaise \/ AdcDone
  \/ pen_down_up_irq_handler \/ adc_irq
  \/ TsTimerStart \/ TimerStep

(* Interrupts come and are taken, conversions end, the timer expires and its
   function runs.  Nothing is assumed of the pen. *)
TsFairness ==
  /\ WF_tsvars(TcRaise) /\ WF_tsvars(AdcDone)
  /\ WF_tsvars(pen_down_up_irq_handler) /\ WF_tsvars(adc_irq)
  /\ WF_tsvars(TsTimerStart) /\ WF_tsvars(TimerStep)

TsSpec == TsInit /\ [][TsNext]_tsvars /\ TsFairness

-----------------------------------------------------------------------------
(* Types; between its runs adc_irq has room in x[] and y[] for a sample. *)
TsTypeOK ==
  /\ pen \in {"up", "down"} /\ adctsc \in {"wait_down", "wait_up", "measure"}
  /\ tc \in BOOLEAN /\ converting \in BOOLEAN /\ adc \in BOOLEAN
  /\ cnt \in 0..(Samples - 1) /\ dropped \in BOOLEAN
  /\ ts_timer \in BOOLEAN
  /\ tpc \in {"idle", "pressure", "touch", "wait_down", "measure", "start_adc"}
  /\ pressure \in {0, 1} /\ touch \in {0, 1}

(* The measuring mode, in which the pen raises no interrupt, is never entered
   without something coming that leaves it: whatever way the timer function
   and the handlers overtake each other, a conversion is or will be under way. *)
MeasureEnds ==
  adctsc = "measure" => converting \/ adc \/ tpc \in {"measure", "start_adc"}

(* The timer is not armed, its function does not run, and the ADC is still. *)
Idle == ~ts_timer /\ tpc = "idle" /\ ~converting /\ ~adc

(* No touch is forgotten: when neither the timer nor the ADC will look at the
   pen again, both events say that it is up, and the controller waits for it to
   come down, or to be lifted if the last result was dropped. *)
NotForgotten ==
  Idle => /\ touch = 0 /\ pressure = 0
          /\ adctsc = "wait_down" \/ (adctsc = "wait_up" /\ dropped)

(* A pen that stays up comes to be reported up for good, in both events, in
   spite of touches that are reported after it was lifted. *)
LiftReported ==
  <>[](pen = "up") => <>[](touch = 0 /\ pressure = 0)

(* Waiting for the pen to be lifted, after a result was dropped. *)
Deaf == adctsc = "wait_up" /\ dropped /\ touch = 0 /\ ~ts_timer

(* A pen that stays down comes to be reported down for good, unless it came
   down while a discarded result had the driver wait for it to be lifted. *)
HoldReported ==
  <>[](pen = "down") => <>[](touch = 1 /\ pressure = 1) \/ <>[]Deaf

===============================================================================
