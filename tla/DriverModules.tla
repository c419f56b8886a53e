----------------------------- MODULE DriverModules -----------------------------
(***************************************************************************)
(* Setting up and tearing down: the init or probe function of each driver, *)
(* with a failure at any of its steps, and its exit, remove or disconnect  *)
(* function, while interrupts, timers, usb completions, block requests and *)
(* open files of the driver go on.                                         *)
(*                                                                         *)
(* A driver is a table: the steps of its init function in order, each with *)
(* what the code gives back when the step fails; what its exit function    *)
(* gives back, in order; and its callbacks, each with what has to be there *)
(* for it to be called and what its code touches.  The actions walk        *)
(* through the tables; a callback comes between any two steps.             *)
(*                                                                         *)
(* A thing is memory, a mapping, a registration, a pending timer, a        *)
(* submitted urb, an open file, and so on.  "module" is the driver's code. *)
(* "timer_init" is a timer_list with its function set.                     *)
(*                                                                         *)
(* A definition whose name ends in _Bug is the definition that follows it  *)
(* with a mistake in it; no specification uses it.                         *)
(***************************************************************************)
EXTENDS Integers, Sequences, SequencesExt

CONSTANT Drivers    \* the drivers looked at

VARIABLES
  drv,      \* the driver
  phase,    \* "out", "init", "undo", "in", "exit", or "oops"
  at,       \* the next step of the init function
  todo,     \* what undoing, or the exit function, has still to give back
  held,     \* the things that are there
  culprit   \* whose code touched a thing that was not there

vars == <<drv, phase, at, todo, held, culprit>>

-----------------------------------------------------------------------------
(* Steps of an init function. *)

Step(op, of, undo) == [op |-> op, of |-> of, undo |-> undo]

Take(t, undo) == Step("take", {t}, undo)    \* failure is tested for
Check(undo)   == Step("take", {}, undo)
Try(t)        == Step("try", {t}, <<>>)     \* failure is not tested for
Sure(t)       == Step("sure", {t}, <<>>)    \* cannot fail
Use(S)        == Step("use", S, <<>>)
Give(t)       == Step("give", {t}, <<>>)

(* Callback `name' is called while the things `on' are there; its code touches
   `uses', brings `arms' about and ends `ends'. *)
Call(name, on, uses, arms, ends) ==
  [name |-> name, on |-> on, uses |-> uses, arms |-> arms, ends |-> ends]

(* What giving a thing back does away with: input_unregister_device drops the
   last reference to the input device. *)
Frees(t) == IF t = "input" THEN {"input", "idev"} ELSE {t}

(* Given back only if it is there, by the code or by the function called. *)
Optional ==
  {"timer", "submitted", "urb", "buf", "client1", "client2", "chrdev", "fb", "gpf", "irq"}

(* What giving a thing back waits for: blk_cleanup_queue for the requests. *)
Waits(t) == IF t = "queue" THEN {"requests"} ELSE {}

-----------------------------------------------------------------------------
(* src/input_sub_system/key/key_input_drv.c *)

Irqs == <<"s2", "s3", "s4", "s5">>

(* err_free_irq: the lines before the i-th, downwards. *)
key_input_init ==
  << Take("idev", <<>>), Take("input", <<"idev">>), Sure("timer_init"), Sure("timer") >>
  \o [i \in 1..4 |-> Take(Irqs[i], Reverse(SubSeq(Irqs, 1, i - 1)) \o <<"timer", "input", "idev">>)]

key_input_exit == Irqs \o <<"timer", "input", "idev">>

key_input_calls ==
  { Call("key_irq_handler", {Irqs[i]}, {"module", "timer_init"}, {"timer"}, {}) : i \in 1..4 }
  \cup { Call("kery_timer_function", {"timer"}, {"module", "idev"}, {}, {"timer"}) }

-----------------------------------------------------------------------------
(* src/input_sub_system/touch_screen/ts_drv.c.  The controller goes on waiting
   for the pen, or converting, when the driver is gone. *)

ts_init ==
  << Take("idev", <<>>),
     Take("input", <<"idev">>),
     Take("clk", <<"input", "idev">>),
     Take("regs", <<"clk", "input", "idev">>),
     Take("irq_tc", <<"regs", "clk", "input", "idev">>),
     Take("irq_adc", <<"irq_tc", "regs", "clk", "input", "idev">>),
     Sure("timer_init"), Sure("timer"), Sure("waiting") >>

ts_exit == <<"irq_adc", "irq_tc", "regs", "input", "idev">>

ts_calls ==
  LET touched == {"module", "regs", "idev"}
  IN  { Call("pen_down_up_irq_handler", {"irq_tc", "waiting"}, touched, {"converting"}, {}),
        Call("adc_irq", {"irq_adc", "converting"}, touched, {}, {}),
        Call("adc_irq", {"irq_adc", "converting"}, touched \cup {"timer_init"}, {"timer"}, {"converting"}),
        Call("s3c_ts_timer_function", {"timer"}, touched, {}, {"timer"}),
        Call("s3c_ts_timer_function", {"timer"}, touched, {"converting"}, {"timer"}) }

-----------------------------------------------------------------------------
(* src/usbmouse_key/usbmouse_as_key.c: probe and disconnect of one mouse. *)

usbmouse_probe ==
  << Take("idev", <<>>), Take("input", <<"idev">>),
     Try("buf"), Try("urb"), Use({"urb"}), Try("submitted") >>

usbmouse_disconnect == <<"submitted", "urb", "buf", "input", "idev">>

(* The urb is submitted again, or that fails. *)
usbmouse_calls ==
  { Call("usbmouse_as_key_irq", {"submitted"}, {"buf", "idev", "urb"}, {}, ends) :
      ends \in {{}, {"submitted"}} }

-----------------------------------------------------------------------------
(* src/ram_block/ramblock.c.  "queue" is the driver's reference to its queue and
   "queue_get" the disk's, which add_disk takes and put_disk gives back for any
   disk that has a queue. *)

ramblock_init ==
  << Take("major", <<>>),
     Take("disk", <<"major">>),
     Take("queue", <<"disk", "major">>),
     Take("mem", <<"queue", "disk", "queue_get", "major">>),
     Step("sure", {"added", "queue_get"}, <<>>) >>

ramblock_exit == <<"added", "queue", "disk", "queue_get", "major", "mem">>

(* Requests come in while the disk is there and wait in its queue. *)
ramblock_calls ==
  { Call("submit_bio", {"added"}, {"queue"}, {"requests"}, {}),
    Call("do_ramblock_request", {"requests"}, {"module", "queue", "mem"}, {}, {"requests"}) }

-----------------------------------------------------------------------------
(* src/i2c/bus_drv/i2c-s3c2440.c.  What the devm_ functions took the driver core
   gives back when the probe has failed, the last one first; "irq" only where
   there is one.  s3c24xx_i2c_remove is not in the file, and the driver is not
   unloaded. *)

devm == <<"irq", "regs", "clk", "pdata", "i2c">>

(* clk_prepare_enable, which may fail unnoticed, the controller's registers,
   clk_disable; the clock is left prepared when they could not be set. *)
s3c24xx_i2c_init ==
  << Step("try", {"prepared", "enabled"}, <<>>), Use({"regs"}), Give("enabled"),
     Check(Tail(devm)) >>

(* Not with QUIRK_POLL. *)
s3c24xx_i2c_claim == << Check(<<"prepared">> \o Tail(devm)), Take("irq", <<"prepared">> \o Tail(devm)) >>

s3c24xx_i2c_probe(quirk_poll) ==
  << Check(<<>>),
     Take("i2c", <<>>), Take("pdata", <<"i2c">>), Take("clk", <<"pdata", "i2c">>),
     Take("regs", <<"clk", "pdata", "i2c">>),
     Check(Tail(devm)) >>
  \o s3c24xx_i2c_init
  \o (IF quirk_poll THEN <<>> ELSE s3c24xx_i2c_claim)
  \o << Take("cpufreq", <<"prepared">> \o devm),
        Take("adapter", <<"cpufreq", "prepared">> \o devm) >>

s3c24xx_i2c_calls ==
  { Call("s3c24xx_i2c_irq", {"irq"}, {"module", "i2c", "regs"}, {}, {}),
    Call("s3c24xx_i2c_xfer", {"adapter"}, {"module", "i2c", "regs"}, {}, {}) }

-----------------------------------------------------------------------------
(* src/i2c/dev_drv/at24cxx_drv.c: at24_probe and at24_remove, for a chip with
   two addresses more than its first one. *)

err_clients == <<"client1", "client2", "at24">>

at24_probe ==
  << Check(<<>>),
     Take("at24", <<>>),
     Take("client1", err_clients),
     Take("client2", err_clients),
     Take("region", err_clients),
     Take("cdev", <<"region">> \o err_clients),
     Take("device", <<"cdev", "region">> \o err_clients) >>

(* at24 itself is freed by the driver core, when at24_remove has returned. *)
at24_remove == <<"device", "cdev", "region", "client1", "client2", "at24">>

at24_calls ==
  { Call("open", {"cdev"}, {"at24"}, {"file"}, {}),
    Call("read or write", {"file"}, {"at24"}, {}, {}),
    Call("close", {"file"}, {"at24"}, {}, {"file"}) }

at24_init == << Take("class", <<>>), Take("driver", <<>>) >>

at24_exit == <<"driver", "class">>

(* src/i2c/devices/at24c02_dev.c and at24c02_probe_dev.c *)
at24cxx_device_init == << Take("adapter", <<>>), Take("client", <<"adapter">>), Give("adapter") >>

at24cxx_device_exit == <<"client">>

-----------------------------------------------------------------------------
(* The character devices: led/led.c, key/key_drv.c, key_irq/key_irq_drv.c and
   key_jitter/key_jiffer_drv.c. *)

chrdev == << Try("chrdev"), Take("class", <<>>), Take("device", <<>>) >>

led_init == chrdev \o << Try("gpf"), Use({"gpf"}) >>

led_exit == <<"gpf", "device", "class", "chrdev">>

led_calls ==
  { Call("open", {"chrdev"}, {"module"}, {"file"}, {}),
    Call("write", {"file"}, {"module", "gpf"}, {}, {}),
    Call("close", {"file"}, {"module"}, {}, {"file"}) }

key_init == chrdev \o << Try("gpf"), Try("gpg") >>

key_exit == <<"gpf", "device", "class", "chrdev">>

key_calls ==
  { Call("open", {"chrdev"}, {"module", "gpf", "gpg"}, {"file"}, {}),
    Call("read", {"file"}, {"module", "gpf", "gpg"}, {}, {}),
    Call("close", {"file"}, {"module"}, {}, {"file"}) }

key_irq_init == chrdev

key_irq_exit == <<"device", "class", "chrdev">>

key_irq_calls ==
  { Call("open", {"chrdev"}, {"module"}, {"file", "irqs"}, {}),
    Call("close", {"file"}, {"module"}, {}, {"file", "irqs"}),
    Call("buttons_irq", {"irqs"}, {"module"}, {}, {}) }

key_jitter_init == << Sure("timer_init"), Sure("timer") >> \o chrdev

key_jitter_exit == <<"device", "class", "chrdev">>

key_jitter_calls ==
  { Call("open", {"chrdev"}, {"module"}, {"file", "irqs"}, {}),
    Call("close", {"file"}, {"module"}, {}, {"file", "irqs"}),
    Call("buttons_irq", {"irqs"}, {"module", "timer_init"}, {"timer"}, {}),
    Call("kery_timer_function", {"timer"}, {"module"}, {}, {"timer"}) }

-----------------------------------------------------------------------------
(* src/lcd/lcd_2440fb.c.  From `lcdcon1 |= 1' on the controller reads the
   screen's memory by itself. *)

mylcd_init ==
  << Try("fbinfo"), Use({"fbinfo"}),
     Try("gpb"), Try("gpc"), Try("gpd"), Try("gpg"), Use({"gpb", "gpc", "gpd", "gpg"}),
     Take("clk", <<>>), Take("region", <<>>), Try("regs"), Use({"regs"}),
     Take("screen", <<>>), Sure("video"), Try("fb") >>

mylcd_exit ==
  <<"fb", "screen", "regs", "region", "gpb", "gpc", "gpd", "gpg", "fbinfo">>

(* Entry `regno' of pseudo_palette, which has 16 and lies in the module. *)
palette(regno) == IF regno < 16 THEN "module" ELSE "pseudo_palette[16]"

(* The palette is set by the core when the device is registered, and for a
   program, with any regno. *)
s3c_lcdfb_setcolreg ==
  { Call("s3c_lcdfb_setcolreg", {"fb"}, {"fbinfo", palette(regno)}, {}, {}) :
      regno \in {r \in 0..17 : ~(r > 16)} }

mylcd_calls ==
  s3c_lcdfb_setcolreg
  \cup { Call("s3c_lcdfb_ops", {"fb"}, {"module", "fbinfo", "screen"}, {}, {}),
         Call("lcd controller", {"video"}, {"screen"}, {}, {}) }

(* src/vnet/vnet.c *)
vnet_init == << Take("netdev", <<>>), Try("registered") >>

vnet_exit == <<"registered">>

vnet_calls == { Call("vnet_send_packet", {"registered"}, {"module", "netdev"}, {}, {}) }

-----------------------------------------------------------------------------
Table(init, exit, calls) == [init |-> init, exit |-> exit, calls |-> calls]

Tables ==
  [ key_input  |-> Table(key_input_init, key_input_exit, key_input_calls),
    ts         |-> Table(ts_init, ts_exit, ts_calls),
    usbmouse   |-> Table(usbmouse_probe, usbmouse_disconnect, usbmouse_calls),
    ramblock   |-> Table(ramblock_init, ramblock_exit, ramblock_calls),
    i2c        |-> Table(s3c24xx_i2c_probe(FALSE), <<>>, s3c24xx_i2c_calls),
    i2c_poll   |-> Table(s3c24xx_i2c_probe(TRUE), <<>>, s3c24xx_i2c_calls),
    at24       |-> Table(at24_probe, at24_remove, at24_calls),
    at24_class |-> Table(at24_init, at24_exit, {}),
    at24c02    |-> Table(at24cxx_device_init, at24cxx_device_exit, {}),
    led        |-> Table(led_init, led_exit, led_calls),
    key        |-> Table(key_init, key_exit, key_calls),
    key_irq    |-> Table(key_irq_init, key_irq_exit, key_irq_calls),
    key_jitter |-> Table(key_jitter_init, key_jitter_exit, key_jitter_calls),
    lcd        |-> Table(mylcd_init, mylcd_exit, mylcd_calls),
    vnet       |-> Table(vnet_init, vnet_exit, vnet_calls) ]

ASSUME DriversAssumption == Drivers \subseteq DOMAIN Tables

(* Torn down when the device goes, also with files open, and not only when the
   module is unloaded. *)
Unbinds == {"usbmouse", "at24"}

(* Not torn down at all. *)
Stays == {"i2c", "i2c_poll"}

T == Tables[drv]

Init ==
  /\ drv \in Drivers
  /\ phase = "out" /\ at = 1 /\ todo = <<>> /\ held = {} /\ culprit = "none"

-----------------------------------------------------------------------------
Oops(who) == phase' = "oops" /\ culprit' = who /\ UNCHANGED <<drv, at, todo, held>>

(* insmod, or a device is found (external). *)
Load ==
  /\ phase = "out"
  /\ phase' = "init" /\ at' = 1 /\ held' = held \cup {"module"}
  /\ UNCHANGED <<drv, todo, culprit>>

Goes(h) == held' = h /\ at' = at + 1 /\ UNCHANGED <<drv, phase, todo, culprit>>

StepSucceeds(s) == s.op \in {"take", "try", "sure"} /\ Goes(held \cup s.of)

(* `goto' one label too late. *)
StepFails_Late_Bug(s) ==
  \/ s.op = "try" /\ Goes(held)
  \/ /\ s.op = "take"
     /\ phase' = "undo" /\ todo' = SubSeq(s.undo, 2, Len(s.undo))
     /\ UNCHANGED <<drv, at, held, culprit>>

(* `goto' one label too early: what could not be taken is given back. *)
StepFails_Early_Bug(s) ==
  \/ s.op = "try" /\ Goes(held)
  \/ /\ s.op = "take"
     /\ phase' = "undo" /\ \E t \in s.of : todo' = <<t>> \o s.undo
     /\ UNCHANGED <<drv, at, held, culprit>>

(* Not noticed, or noticed: `goto' the label from which on things are given
   back. *)
StepFails(s) ==
  \/ s.op = "try" /\ Goes(held)
  \/ /\ s.op = "take"
     /\ phase' = "undo" /\ todo' = s.undo
     /\ UNCHANGED <<drv, at, held, culprit>>

StepUses(s) ==
  /\ s.op = "use"
  /\ IF s.of \subseteq held THEN Goes(held) ELSE Oops("init")

StepGives(s) == s.op = "give" /\ Goes(held \ s.of)

InitStep ==
  /\ phase = "init" /\ at <= Len(T.init)
  /\ LET s == T.init[at]
     IN  StepSucceeds(s) \/ StepFails(s) \/ StepUses(s) \/ StepGives(s)

InitReturns ==
  /\ phase = "init" /\ at > Len(T.init)
  /\ phase' = "in"
  /\ UNCHANGED <<drv, at, todo, held, culprit>>

(* The module has no owner set in its file_operations: rmmod comes at any time. *)
Unload_Bug ==
  /\ phase = "in" /\ drv \notin Stays
  /\ phase' = "exit" /\ todo' = T.exit
  /\ UNCHANGED <<drv, at, held, culprit>>

(* rmmod, not with a file open, or the device goes (external). *)
Unload ==
  /\ phase = "in" /\ drv \notin Stays /\ ("file" \notin held \/ drv \in Unbinds)
  /\ phase' = "exit" /\ todo' = T.exit
  /\ UNCHANGED <<drv, at, held, culprit>>

(* The queue is dropped without draining it. *)
Release_Bug ==
  /\ phase \in {"undo", "exit"} /\ todo # <<>>
  /\ held' = held \ Frees(Head(todo)) /\ todo' = Tail(todo)
  /\ UNCHANGED <<drv, phase, at, culprit>>

(* One thing is given back. *)
Release ==
  /\ phase \in {"undo", "exit"} /\ todo # <<>>
  /\ Waits(Head(todo)) \cap held = {}
  /\ held' = held \ Frees(Head(todo)) /\ todo' = Tail(todo)
  /\ UNCHANGED <<drv, phase, at, culprit>>

(* Init has failed, or exit is done: the module's code and data are freed. *)
Gone ==
  /\ phase \in {"undo", "exit"} /\ todo = <<>>
  /\ phase' = "out" /\ held' = held \ {"module", "timer_init"}
  /\ UNCHANGED <<drv, at, todo, culprit>>

(* A module that is being unloaded is not opened any more. *)
Callback ==
  /\ phase # "oops"
  /\ \E c \in T.calls :
       /\ c.on \subseteq held
       /\ c.name = "open" /\ phase = "exit" => drv \in Unbinds
       /\ IF c.uses \subseteq held
          THEN /\ held' = (held \ c.ends) \cup c.arms
               /\ UNCHANGED <<drv, phase, at, todo, culprit>>
          ELSE Oops(c.name)

Reboot ==
  /\ phase = "oops"
  /\ phase' = "out" /\ at' = 1 /\ todo' = <<>> /\ held' = {} /\ culprit' = "none"
  /\ UNCHANGED drv

Next ==
  Load \/ InitStep \/ InitReturns \/ Unload \/ Release \/ Gone \/ Callback \/ Reboot

Spec == Init /\ [][Next]_vars

-----------------------------------------------------------------------------
Things ==
  {"module"} \cup (UNION { T.init[i].of : i \in 1..Len(T.init) })
  \cup (UNION { c.arms : c \in T.calls })

TypeOK ==
  /\ drv \in Drivers
  /\ phase \in {"out", "init", "undo", "in", "exit", "oops"}
  /\ at \in 1..(Len(T.init) + 1)
  /\ held \subseteq Things
  /\ phase \in {"init", "undo", "in", "exit"} => "module" \in held
  /\ todo # <<>> => phase \in {"undo", "exit", "oops"}

(* The faults this code has, and it has no other: whose code touches what is
   not there.  README.md says how each comes about. *)
Faults ==
  {"ts"} \X {"adc_irq", "s3c_ts_timer_function"}
  \cup {"usbmouse"} \X {"init", "usbmouse_as_key_irq"}
  \cup {"at24"} \X {"read or write", "close"}
  \cup {"led"} \X {"init", "open", "write", "close"}
  \cup {"key"} \X {"open"}
  \cup {"key_irq"} \X {"open", "close", "buttons_irq"}
  \cup {"key_jitter"} \X {"open", "close", "buttons_irq", "kery_timer_function"}
  \cup {"lcd"} \X {"init", "lcd controller", "s3c_lcdfb_setcolreg"}

(* Interrupt handlers, timer functions, completion handlers, request functions,
   file operations and the init functions themselves touch only what is there:
   but for Faults, at no moment of setting up, undoing or tearing down can a
   callback come that needs what is not yet, or no longer, there. *)
TouchesOnlyHeld == phase = "oops" => <<drv, culprit>> \in Faults

(* What is left behind, and nothing else is. *)
Leaks ==
  {"ts"} \X {"clk", "timer"}
  \cup {"at24_class"} \X {"class"}
  \cup {"led", "key_irq", "key_jitter", "key"} \X {"chrdev", "class"}
  \cup {"key"} \X {"gpg"}
  \cup {"key_jitter"} \X {"timer"}
  \cup {"lcd"} \X {"fbinfo", "gpb", "gpc", "gpd", "gpg", "clk", "region", "regs", "video"}
  \cup {"vnet"} \X {"netdev"}
  \cup Stays \X {"prepared"}

(* State of the hardware, and what a process's open file holds: not for an init
   or exit function to give back, and there without the driver. *)
Strays ==
  {"ts"} \X {"waiting", "converting"}
  \cup {"at24", "led", "key_irq", "key_jitter"} \X {"file"}
  \cup {"key_irq", "key_jitter"} \X {"irqs"}

(* After a failure at any step of an init function, and after an exit function,
   all that was taken has been given back, but for Leaks and Strays. *)
NothingLeft ==
  phase = "out" => \A t \in held : <<drv, t>> \in Leaks \cup Strays

(* input_free_device after input_unregister_device; unregister_netdev after
   register_netdev has failed; clk_disable and clk_unprepare after
   clk_prepare_enable has; put_disk of a disk whose queue was cleaned up and which
   add_disk never saw. *)
FreedAgain ==
  ({"key_input", "ts", "usbmouse"} \X {"idev"})
  \cup {<<"vnet", "registered">>, <<"ramblock", "queue_get">>}
  \cup (Stays \X {"prepared", "enabled"})

(* Nothing is given back that was not taken, or was given back before: every
   goto of an init function goes to the right label, every exit function gives
   back once what the init function took, and so does an init function with what
   it needs only for a while. *)
ReleasesHeld ==
  /\ phase \in {"undo", "exit"} /\ todo # <<>> =>
       Head(todo) \in held \cup Optional \/ <<drv, Head(todo)>> \in FreedAgain
  /\ phase = "init" /\ at <= Len(T.init) /\ T.init[at].op = "give" =>
       \A t \in T.init[at].of : t \in held \/ <<drv, t>> \in FreedAgain
===============================================================================
