------------------------------- MODULE KeyJitter -------------------------------
(***************************************************************************)
(* The debounced button driver, src/key_jitter/key_jiffer_drv.c, and the   *)
(* one without a timer, src/key_irq/key_irq_drv.c: their interrupt         *)
(* handlers, the timer function, and the file operations, in which the two *)
(* do not differ, as the programs key_test.c (poll, then read) and         *)
(* test_key_signal.c (read on SIGIO) of both directories use them.         *)
(*                                                                         *)
(* The machine has one processor.  The timer function runs in a softirq:   *)
(* no process runs until it has ended, but the buttons can move and their  *)
(* interrupts are taken between any two of its steps.  Interrupts and the  *)
(* timer function come between any two steps of a process.  Time is counted*)
(* in jiffies.                                                             *)
(*                                                                         *)
(* my_key_write, and my_key_read with a count that is not sizeof(int),     *)
(* change nothing and have no action here.                                 *)
(*                                                                         *)
(* A definition whose name ends in _Bug is the definition that follows it  *)
(* with a mistake in it; no specification uses it.                         *)
(***************************************************************************)
EXTENDS Integers, FiniteSets

CONSTANTS
  N,           \* number of buttons, the length of pins_desc
  TenMs,       \* HZ/100, jiffies in 10 ms
  Pollers,     \* processes that run key_test
  Signallers   \* processes that run test_key_signal

ASSUME NAssumption     == N \in Nat \ {0}
ASSUME TenMsAssumption == TenMs \in Nat \ {0}
ASSUME ProcsAssumption == Pollers \cap Signallers = {}

VARIABLES
  debounced,   \* the driver is key_jitter, not key_irq
  \* The buttons and the interrupt controller.
  pin,         \* pin[k]: button k is down now
  bouncing,    \* some contact has not settled yet
  requested,   \* the four interrupt lines are requested
  quiet,       \* jiffies begun since the last edge, while a contact bounces
  irqs,        \* buttons with an edge whose interrupt is not taken yet
  \* The driver.
  key_val,     \* pins_desc[k].key_val
  ev_press,
  timer,       \* jiffies until key_timer expires, or IDLE
  scan,        \* next button the timer function samples; 0: it does not run
  waitq,       \* processes on my_key_waitq
  async_q,     \* processes on my_key_async_q
  \* The processes.
  pc,
  triggered,   \* the process's poll_wqueues was woken
  timed_out,   \* the 10 seconds of the process's poll are over
  sigio,       \* SIGIO is pending for the process
  loaded,      \* how many buttons my_key_read has loaded
  got,         \* what it has loaded, and outside it what it returned last
  \* History, which no step reads.
  told,        \* processes that SIGIO was ever sent to
  seen,        \* buttons whose last edge raised an interrupt
  runs         \* starts of the timer function since a contact began to bounce,
               \* all edges since then having raised interrupts; IDLE otherwise

input == <<debounced, pin, bouncing, quiet, requested, irqs, seen, runs>>
drv   == <<key_val, ev_press, timer, scan>>
procs == <<waitq, async_q, pc, triggered, timed_out, sigio, loaded, got, told>>
vars  == <<input, drv, procs>>

IDLE  == -1
Keys  == 1..N
Procs == Pollers \cup Signallers

Labels == {"closed", "ready", "poll_test", "poll_sleep", "poll_over", "read"}

(* my_key_init has returned; in key_jitter add_timer has armed the timer with
   expires = 0, which is past. *)
Init ==
  /\ debounced \in BOOLEAN
  /\ pin \in [Keys -> BOOLEAN] /\ bouncing = FALSE /\ quiet = 0 /\ requested = FALSE /\ irqs = {}
  /\ key_val = [k \in Keys |-> FALSE] /\ ev_press = 0 /\ scan = 0
  /\ timer = IF debounced THEN 0 ELSE IDLE
  /\ waitq = {} /\ async_q = {}
  /\ pc = [p \in Procs |-> "closed"]
  /\ triggered = {} /\ timed_out = {} /\ sigio = {} /\ told = {}
  /\ loaded = [p \in Procs |-> 0]
  /\ got = [p \in Procs |-> [k \in Keys |-> FALSE]]
  /\ seen = {} /\ runs = IDLE

-----------------------------------------------------------------------------
(* The buttons (external).  A contact that moves bounces: until it settles it
   gives edges less than 10 ms apart. *)
PinEdge(k) ==
  /\ pin' = [pin EXCEPT ![k] = ~@]
  /\ bouncing' \in BOOLEAN /\ quiet' = 0
  /\ IF requested
     THEN /\ irqs' = irqs \cup {k} /\ seen' = seen \cup {k}
          /\ runs' = IF bouncing THEN runs ELSE 0
     ELSE irqs' = irqs /\ seen' = seen \ {k} /\ runs' = IDLE
  /\ UNCHANGED <<debounced, requested, drv, procs>>

(* A jiffy begins.  Interrupts do not wait longer than a jiffy. *)
Tick ==
  /\ irqs = {}
  /\ timer > 0 \/ bouncing
  /\ bouncing => quiet < TenMs
  /\ quiet' = IF bouncing THEN quiet + 1 ELSE 0
  /\ timer' = IF timer > 0 THEN timer - 1 ELSE timer
  /\ UNCHANGED <<debounced, pin, bouncing, requested, irqs, seen, runs, key_val, ev_press, scan, procs>>

(* The timer is left alone while its function runs, as if that would see the
   edge anyway. *)
buttons_irq_Running_Bug(k) ==
  /\ debounced /\ k \in irqs
  /\ irqs' = irqs \ {k}
  /\ timer' = IF scan = 0 THEN TenMs + 1 ELSE timer
  /\ UNCHANGED <<debounced, pin, bouncing, quiet, requested, seen, runs, key_val, ev_press, scan, procs>>

(* The `+1' is missing, as at src/input_sub_system/key/key_input_drv.c:51. *)
buttons_irq_Jiffy_Bug(k) ==
  /\ debounced /\ k \in irqs
  /\ irqs' = irqs \ {k}
  /\ timer' = TenMs
  /\ UNCHANGED <<debounced, pin, bouncing, quiet, requested, seen, runs, key_val, ev_press, scan, procs>>

(* buttons_irq of key_jitter: mod_timer(&key_timer, jiffies+HZ/100+1). *)
buttons_irq(k) ==
  /\ debounced /\ k \in irqs
  /\ irqs' = irqs \ {k}
  /\ timer' = TenMs + 1
  /\ UNCHANGED <<debounced, pin, bouncing, quiet, requested, seen, runs, key_val, ev_press, scan, procs>>

(* buttons_irq of key_irq: the button is read, ev_press set, my_key_waitq woken
   and SIGIO sent. *)
key_irq_buttons_irq(k) ==
  /\ ~debounced /\ k \in irqs
  /\ irqs' = irqs \ {k}
  /\ key_val' = [key_val EXCEPT ![k] = pin[k]] /\ ev_press' = 1
  /\ triggered' = triggered \cup waitq
  /\ sigio' = sigio \cup async_q /\ told' = told \cup async_q
  /\ UNCHANGED <<debounced, pin, bouncing, quiet, requested, seen, runs, timer, scan,
                 waitq, async_q, pc, timed_out, loaded, got>>

-----------------------------------------------------------------------------
(* kery_timer_function.  The timer has expired; an interrupt that is pending
   is taken before the softirq starts. *)
TimerStart ==
  /\ timer = 0 /\ scan = 0 /\ irqs = {}
  /\ timer' = IDLE /\ scan' = 1
  /\ runs' = IF runs = IDLE THEN IDLE ELSE runs + 1
  /\ UNCHANGED <<debounced, pin, bouncing, quiet, requested, irqs, seen, key_val, ev_press, procs>>

(* The loop does not get to the next button. *)
get_key_val_Bug ==
  /\ scan \in Keys
  /\ key_val' = [key_val EXCEPT ![scan] = pin[scan]]
  /\ scan' = scan
  /\ UNCHANGED <<input, ev_press, timer, procs>>

(* get_all_key_val, one button after the other. *)
get_key_val ==
  /\ scan \in Keys
  /\ key_val' = [key_val EXCEPT ![scan] = pin[scan]]
  /\ scan' = scan + 1
  /\ UNCHANGED <<input, ev_press, timer, procs>>

(* SIGIO is sent only for the first event after a read. *)
TimerNotify_Bug ==
  /\ scan = N + 1
  /\ scan' = 0 /\ ev_press' = 1
  /\ triggered' = triggered \cup waitq
  /\ sigio' = IF ev_press = 0 THEN sigio \cup async_q ELSE sigio
  /\ told' = told \cup async_q
  /\ UNCHANGED <<input, key_val, timer, waitq, async_q, pc, timed_out, loaded, got>>

(* ev_press is set, my_key_waitq woken, and SIGIO sent. *)
TimerNotify ==
  /\ scan = N + 1
  /\ scan' = 0 /\ ev_press' = 1
  /\ triggered' = triggered \cup waitq
  /\ sigio' = sigio \cup async_q /\ told' = told \cup async_q
  /\ UNCHANGED <<input, key_val, timer, waitq, async_q, pc, timed_out, loaded, got>>

Timer == TimerStart \/ get_key_val \/ TimerNotify

-----------------------------------------------------------------------------
(* The file operations.  A process runs only while the timer function does not. *)

At(p, label) == scan = 0 /\ pc[p] = label
Goto(p, label) == pc' = [pc EXCEPT ![p] = label]

(* my_key_open.  The lines are not shared: for a second process request_irq
   fails, which my_key_open ignores. *)
my_key_open(p) ==
  /\ At(p, "closed")
  /\ requested' = TRUE
  /\ Goto(p, "ready")
  /\ UNCHANGED <<debounced, pin, bouncing, quiet, irqs, seen, runs, drv, waitq, async_q, triggered,
                 timed_out, sigio, loaded, got, told>>

(* my_key_close frees the lines, whoever requested them; edges whose interrupt
   is not taken yet are lost.  The core takes the file off my_key_async_q. *)
my_key_close(p) ==
  /\ At(p, "ready")
  /\ requested' = FALSE /\ irqs' = {} /\ seen' = seen \ irqs /\ runs' = IDLE
  /\ async_q' = async_q \ {p} /\ sigio' = sigio \ {p} /\ told' = told \ {p}
  /\ Goto(p, "closed")
  /\ UNCHANGED <<debounced, pin, bouncing, quiet, drv, waitq, triggered, timed_out, loaded, got>>

(* fcntl(F_SETFL, FASYNC) calls my_key_fasync. *)
my_key_fasync(p) ==
  /\ p \in Signallers \ async_q
  /\ At(p, "ready")
  /\ async_q' = async_q \cup {p}
  /\ UNCHANGED <<input, drv, waitq, pc, triggered, timed_out, sigio, loaded, got, told>>

(* poll_wait is commented out, as at src/request_module/req_drv.c:117. *)
my_key_poll_wait_Bug(p) ==
  /\ p \in Pollers
  /\ At(p, "ready")
  /\ Goto(p, "poll_test")
  /\ UNCHANGED <<input, drv, waitq, async_q, triggered, timed_out, sigio, loaded, got, told>>

(* poll() calls my_key_poll: first poll_wait. *)
my_key_poll_wait(p) ==
  /\ p \in Pollers
  /\ At(p, "ready")
  /\ waitq' = waitq \cup {p}
  /\ Goto(p, "poll_test")
  /\ UNCHANGED <<input, drv, async_q, triggered, timed_out, sigio, loaded, got, told>>

(* my_key_poll, its test of ev_press.  The core leaves poll when there is a
   mask or the time is over, else it sleeps and calls again. *)
my_key_poll_test(p) ==
  /\ At(p, "poll_test")
  /\ \/ /\ ev_press = 1 \/ p \in timed_out
        /\ waitq' = waitq \ {p} /\ triggered' = triggered \ {p}
        /\ timed_out' = timed_out \ {p}
        /\ Goto(p, IF ev_press = 1 THEN "read" ELSE "poll_over")
     \/ /\ ev_press = 0 /\ p \notin timed_out
        /\ Goto(p, "poll_sleep")
        /\ UNCHANGED <<waitq, triggered, timed_out>>
  /\ UNCHANGED <<input, drv, async_q, sigio, loaded, got, told>>

(* The core's sleep in poll ends (external): the queue was woken since
   poll_wait, or the 10 seconds are over. *)
PollWake(p) ==
  /\ At(p, "poll_sleep") /\ p \in triggered
  /\ triggered' = triggered \ {p}
  /\ Goto(p, "poll_test")
  /\ UNCHANGED <<input, drv, waitq, async_q, timed_out, sigio, loaded, got, told>>

PollTimeout(p) ==
  /\ At(p, "poll_sleep") /\ p \notin triggered
  /\ timed_out' = timed_out \cup {p}
  /\ Goto(p, "poll_test")
  /\ UNCHANGED <<input, drv, waitq, async_q, triggered, sigio, loaded, got, told>>

(* key_test takes a poll that timed out for nothing to read, and polls again. *)
PollAgain(p) ==
  /\ At(p, "poll_over")
  /\ Goto(p, "ready")
  /\ UNCHANGED <<input, drv, waitq, async_q, triggered, timed_out, sigio, loaded, got, told>>

(* SIGIO is delivered; test_key_signal's handler calls read.  Until it returns
   another SIGIO stays pending. *)
signal_fun(p) ==
  /\ At(p, "ready") /\ p \in sigio
  /\ sigio' = sigio \ {p}
  /\ Goto(p, "read")
  /\ UNCHANGED <<input, drv, waitq, async_q, triggered, timed_out, loaded, got, told>>

(* my_key_read: load the buttons one after the other, *)
ReadLoad(p) ==
  /\ At(p, "read") /\ loaded[p] < N
  /\ loaded' = [loaded EXCEPT ![p] = @ + 1]
  /\ got' = [got EXCEPT ![p] = [@ EXCEPT ![loaded[p] + 1] = key_val[loaded[p] + 1]]]
  /\ UNCHANGED <<input, drv, waitq, async_q, pc, triggered, timed_out, sigio, told>>

(* copy them out, clear ev_press and return. *)
ReadReturn(p) ==
  /\ At(p, "read") /\ loaded[p] = N
  /\ loaded' = [loaded EXCEPT ![p] = 0]
  /\ ev_press' = 0
  /\ Goto(p, "ready")
  /\ UNCHANGED <<input, key_val, timer, scan, waitq, async_q, triggered, timed_out, sigio, got, told>>

(* What a process does of itself, once it has the file open. *)
Running(p) ==
  \/ my_key_fasync(p) \/ my_key_poll_wait(p) \/ my_key_poll_test(p)
  \/ PollWake(p) \/ PollTimeout(p) \/ PollAgain(p) \/ signal_fun(p)
  \/ ReadLoad(p) \/ ReadReturn(p)

Next ==
  \/ \E k \in Keys : PinEdge(k) \/ buttons_irq(k) \/ key_irq_buttons_irq(k)
  \/ Tick \/ Timer
  \/ \E p \in Procs : my_key_open(p) \/ my_key_close(p) \/ Running(p)

(* Time passes, pending interrupts are taken, a timer that has expired runs, and so does a
   process that can.  Nothing is assumed of the buttons. *)
Fairness ==
  /\ \A k \in Keys : WF_vars(buttons_irq(k) \/ key_irq_buttons_irq(k))
  /\ WF_vars(Tick) /\ WF_vars(Timer)
  /\ \A p \in Procs : WF_vars(Running(p))

Spec == Init /\ [][Next]_vars /\ Fairness

-----------------------------------------------------------------------------
TypeOK ==
  /\ pin \in [Keys -> BOOLEAN] /\ key_val \in [Keys -> BOOLEAN]
  /\ irqs \subseteq Keys /\ seen \subseteq Keys
  /\ debounced \in BOOLEAN /\ bouncing \in BOOLEAN /\ requested \in BOOLEAN /\ ev_press \in {0, 1}
  /\ quiet \in 0..TenMs /\ timer \in {IDLE} \cup 0..(TenMs + 1) /\ runs \in {IDLE} \cup Nat
  /\ scan \in 0..(N + 1)
  /\ waitq \subseteq Pollers /\ triggered \subseteq waitq /\ timed_out \subseteq waitq
  /\ async_q \subseteq Signallers /\ sigio \subseteq async_q /\ told \subseteq async_q
  /\ pc \in [Procs -> Labels]
  /\ loaded \in [Procs -> 0..N]
  /\ got \in [Procs -> [Keys -> BOOLEAN]]

(* Nothing left to do for the driver. *)
Quiescent == irqs = {} /\ timer = IDLE /\ scan = 0

(* When the driver has nothing left to do, key_val is what the buttons are:
   an edge that comes while the timer function is sampling, before or after
   its own button, is never lost.  Only of a button that last moved while the
   lines were not requested does the driver know nothing. *)
SettledReported == Quiescent => \A k \in seen : key_val[k] = pin[k]

(* A process never sleeps in poll while there is something to read, unless it
   has been woken: the timer function cannot slip in between my_key_poll's
   test and the sleep. *)
NoLostWakeup ==
  \A p \in Procs : pc[p] = "poll_sleep" /\ ev_press = 1 => p \in triggered

(* A program that reads on SIGIO has what the driver has, whenever it is not
   about to read again: a read that the timer function overtakes is always
   followed by another one. *)
SignalledCurrent ==
  \A p \in told : scan = 0 /\ pc[p] = "ready" /\ p \notin sigio => got[p] = key_val

(* The timer function works once while the contacts bounce
   (src/key_jitter/note.md:4): however the edges fall among the jiffies, it
   starts at most once from the first edge until all contacts are at rest and
   the next one moves. *)
OncePerBurst == runs <= 1

(* When the buttons come to rest, key_val comes to be what they are. *)
RestReported ==
  <>[][FALSE]_<<pin, bouncing, requested>> /\ <>[]~bouncing =>
    <>[](\A k \in seen : key_val[k] = pin[k])

-----------------------------------------------------------------------------
(* src/key_jitter/key_test.c:23-28 takes a poll that times out for nothing to
   read: then the value it printed last is the value the driver holds. *)
TimeoutMeansNothingNew ==
  [][\A p \in Pollers : pc[p] = "poll_test" /\ pc'[p] = "poll_over" => got[p] = key_val]_vars
===============================================================================
