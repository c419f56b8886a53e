-------------------------------- MODULE KeyInput --------------------------------
(***************************************************************************)
(* The button driver on the input subsystem,                               *)
(* src/input_sub_system/key/key_input_drv.c: key_irq_handler and           *)
(* kery_timer_function, from the state my_key_init leaves.  All buttons    *)
(* share one timer and one pointer, irq_pd, to the button that moved.      *)
(*                                                                         *)
(* The machine has one processor.  The timer function runs in a softirq;   *)
(* buttons move, and their interrupts are taken, between any two of its    *)
(* steps.  Time is counted in jiffies.  my_key_init's failures and         *)
(* my_key_exit are in DriverModules.                                       *)
(*                                                                         *)
(* A definition whose name ends in _Bug is the definition that follows it  *)
(* with a mistake in it; no specification uses it.                         *)
(***************************************************************************)
EXTENDS Integers

CONSTANTS
  N,           \* number of buttons, the length of pins_desc
  TenMs        \* HZ/100, jiffies in 10 ms

ASSUME NAssumption     == N \in Nat \ {0}
ASSUME TenMsAssumption == TenMs \in Nat \ {0}

VARIABLES
  pin,         \* pin[k]: button k is down now
  irqs,        \* buttons with an edge whose interrupt is not taken yet
  irq_pd,      \* the button whose interrupt was taken last, or NULL
  timer,       \* jiffies until key_timer expires, or IDLE
  pindesc_p,   \* the timer function's button, or NULL: it does not run
  pinval,      \* what the timer function has read from its pin, or UNREAD
  key,         \* key[k]: the input core's bit for button k's key
  missed       \* history: buttons held since before the module was loaded, or
               \* whose interrupt was followed by another button's before the
               \* timer function got to them

vars == <<pin, irqs, irq_pd, timer, pindesc_p, pinval, key, missed>>

IDLE   == -1
NULL   == 0
UNREAD == -1
Keys   == 1..N

(* The timer is armed with expires = 0, which is past; the lines are requested. *)
Init ==
  /\ pin \in [Keys -> {0, 1}] /\ irqs = {}
  /\ irq_pd = NULL /\ timer = 0
  /\ pindesc_p = NULL /\ pinval = UNREAD
  /\ key = [k \in Keys |-> 0]
  /\ missed = {k \in Keys : pin[k] = 1}

-----------------------------------------------------------------------------
(* A button moves (external). *)
PinEdge(k) ==
  /\ pin' = [pin EXCEPT ![k] = 1 - @]
  /\ irqs' = irqs \cup {k}
  /\ UNCHANGED <<irq_pd, timer, pindesc_p, pinval, key, missed>>

(* A jiffy begins (external).  Interrupts do not wait longer than a jiffy. *)
Tick ==
  /\ irqs = {} /\ timer > 0
  /\ timer' = timer - 1
  /\ UNCHANGED <<pin, irqs, irq_pd, pindesc_p, pinval, key, missed>>

(* The button that loses the timer, if any, when k's interrupt is taken. *)
Overtaken(k) == IF timer # IDLE THEN {irq_pd} \ {NULL, k} ELSE {}

key_irq_handler(k) ==
  /\ k \in irqs
  /\ irqs' = irqs \ {k}
  /\ irq_pd' = k /\ timer' = TenMs
  /\ missed' = (missed \ {k}) \cup Overtaken(k)
  /\ UNCHANGED <<pin, pindesc_p, pinval, key>>

-----------------------------------------------------------------------------
(* A button that is down is looked at again 10 ms later. *)
TimerStart_Bug ==
  /\ timer = 0 /\ pindesc_p = NULL /\ irqs = {}
  /\ IF irq_pd # NULL /\ pin[irq_pd] = 1
     THEN timer' = TenMs /\ UNCHANGED pindesc_p
     ELSE timer' = IDLE /\ pindesc_p' = irq_pd
  /\ UNCHANGED <<pin, irqs, irq_pd, pinval, key, missed>>

(* kery_timer_function.  The timer has expired; an interrupt that is pending
   is taken before the softirq starts.  It returns when no button has moved
   since the module was loaded. *)
TimerStart ==
  /\ timer = 0 /\ pindesc_p = NULL /\ irqs = {}
  /\ timer' = IDLE
  /\ pindesc_p' = irq_pd
  /\ UNCHANGED <<pin, irqs, irq_pd, pinval, key, missed>>

(* irq_pd is not copied: the button is the one that moved last. *)
ReadPin_Bug ==
  /\ pindesc_p # NULL /\ pinval = UNREAD
  /\ pinval' = pin[irq_pd]
  /\ UNCHANGED <<pin, irqs, irq_pd, timer, pindesc_p, key, missed>>

ReadPin ==
  /\ pindesc_p # NULL /\ pinval = UNREAD
  /\ pinval' = pin[pindesc_p]
  /\ UNCHANGED <<pin, irqs, irq_pd, timer, pindesc_p, key, missed>>

(* input_report_key and input_sync.  The core passes an event on when it
   changes the key's bit. *)
Report ==
  /\ pindesc_p # NULL /\ pinval # UNREAD
  /\ key' = [key EXCEPT ![pindesc_p] = pinval]
  /\ pindesc_p' = NULL /\ pinval' = UNREAD
  /\ UNCHANGED <<pin, irqs, irq_pd, timer, missed>>

kery_timer_function == TimerStart \/ ReadPin \/ Report

Next ==
  \/ \E k \in Keys : PinEdge(k) \/ key_irq_handler(k)
  \/ Tick
  \/ kery_timer_function

(* Time passes, pending interrupts are taken and a timer that has expired runs.
   Nothing is assumed of the buttons. *)
Fairness ==
  /\ \A k \in Keys : WF_vars(key_irq_handler(k))
  /\ WF_vars(Tick)
  /\ WF_vars(kery_timer_function)

Spec == Init /\ [][Next]_vars /\ Fairness

-----------------------------------------------------------------------------
TypeOK ==
  /\ pin \in [Keys -> {0, 1}] /\ key \in [Keys -> {0, 1}]
  /\ irqs \subseteq Keys /\ missed \subseteq Keys
  /\ irq_pd \in Keys \cup {NULL} /\ pindesc_p \in Keys \cup {NULL}
  /\ timer \in {IDLE} \cup 0..TenMs
  /\ pinval \in {UNREAD, 0, 1}
  /\ pindesc_p = NULL => pinval = UNREAD

(* Nothing left to do for the driver. *)
Quiescent == irqs = {} /\ timer = IDLE /\ pindesc_p = NULL

(* When the driver has nothing left to do, a key is what its button is, unless
   another button's interrupt took irq_pd from it.  An edge of the button the
   timer function is about to report, or a second button that moves while the
   function runs, costs nothing. *)
OnlyOvertakenStale ==
  Quiescent => \A k \in Keys \ missed : key[k] = pin[k]

(* Once the buttons are at rest the key of the one that moved last comes to
   be right, whatever the timer function was doing when it moved. *)
LastReported ==
  <>[][FALSE]_pin => <>[](irq_pd # NULL => key[irq_pd] = pin[irq_pd])
===============================================================================
