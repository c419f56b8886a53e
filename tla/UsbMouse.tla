-------------------------------- MODULE UsbMouse --------------------------------
(***************************************************************************)
(* The driver that turns a mouse's buttons into keys,                      *)
(* src/usbmouse_key/usbmouse_as_key.c, with mice that are plugged in and   *)
(* pulled out.  Its id table takes every boot mouse, but what it keeps of  *)
(* a mouse it keeps in one set of globals (uk_idev, usb_buf, uk_urb), and  *)
(* pre_val, static in the completion handler, belongs to no mouse at all.  *)
(*                                                                         *)
(* The completion handler runs in interrupt context, between any two steps *)
(* of the hub's thread, which probes and disconnects one mouse at a time.  *)
(* The HCD, the mice and the input core are external.  The failures inside *)
(* probe are in DriverModules.  Only the buttons are kept of a report.     *)
(*                                                                         *)
(* A definition whose name ends in _Bug is the definition that follows it  *)
(* with a mistake in it; no specification uses it.                         *)
(***************************************************************************)

CONSTANTS
  Mice,
  Buttons      \* of a mouse; the driver looks at three bits of usb_buf[0]

NONE == "none"
ASSUME MiceAssumption == NONE \notin Mice

VARIABLES
  \* The mice.
  port,        \* "out", "in", "pulled" (not yet noticed) or "killed" (half way
               \* through disconnect)
  btn,         \* the buttons that are down
  reported,    \* those in the last report that got through
  \* Each mouse's urb, buffer and input device, which live from probe to the
  \* disconnect that frees them.
  live,        \* the mice whose three objects are allocated
  urb,         \* "idle" or "submitted"
  buf,         \* usb_buf[0]
  keys,        \* the keys that the input core holds down
  \* The driver.
  cur,         \* the mouse whose objects the globals point to, or NONE
  pre_val,
  crashed,     \* "no"; "freed": objects of a mouse were used that are not live;
               \* "again": an input device was freed again.  What follows a crash
               \* is not modelled
  \* History, which no step reads.
  stale,       \* buttons down in pre_val at the probe, and in all reports since
  phantom,     \* a urb failed, with a button down in a buffer never written so far
  refused,     \* a usb_submit_urb failed since the probe
  overlap      \* a mouse was probed while the driver had another one

mice    == <<port, btn, reported>>
objects == <<live, urb, buf, keys>>
drv     == <<cur, pre_val, crashed>>
history == <<stale, phantom, refused, overlap>>
vars    == <<mice, objects, drv, history>>

Init ==
  /\ port = [m \in Mice |-> "out"]
  /\ btn = [m \in Mice |-> {}] /\ reported = [m \in Mice |-> {}]
  /\ live = {} /\ urb = [m \in Mice |-> "idle"]
  /\ buf = [m \in Mice |-> {}] /\ keys = [m \in Mice |-> {}]
  /\ cur = NONE /\ pre_val = {} /\ crashed = "no"
  /\ stale = {} /\ phantom = FALSE /\ refused = FALSE /\ overlap = FALSE

Up == crashed = "no"

Set(f, m, v) == [f EXCEPT ![m] = v]

-----------------------------------------------------------------------------
(* A button moves (external). *)
Press(m, b) ==
  /\ Up /\ port[m] = "in"
  /\ btn' = Set(btn, m, IF b \in btn[m] THEN btn[m] \ {b} ELSE btn[m] \cup {b})
  /\ UNCHANGED <<port, reported, objects, drv, history>>

(* The mouse is pulled out (external). *)
Pull(m) ==
  /\ Up /\ port[m] = "in"
  /\ port' = Set(port, m, "pulled") /\ btn' = Set(btn, m, {})
  /\ UNCHANGED <<reported, objects, drv, history>>

(* The mouse is plugged in, and probed: the globals are its own from now on.
   The buffer is not cleared, and the result of usb_submit_urb not looked at. *)
usbmouse_as_key_probe(m, down, garbage, accepted) ==
  /\ Up /\ port[m] = "out" /\ \A o \in Mice : port[o] # "killed"
  /\ port' = Set(port, m, "in") /\ btn' = Set(btn, m, down) /\ reported' = Set(reported, m, {})
  /\ live' = live \cup {m} /\ cur' = m
  /\ buf' = Set(buf, m, garbage) /\ keys' = Set(keys, m, {})
  /\ urb' = Set(urb, m, IF accepted THEN "submitted" ELSE "idle")
  /\ stale' = pre_val /\ phantom' = FALSE /\ refused' = ~accepted
  /\ overlap' = (overlap \/ live # {})
  /\ UNCHANGED <<pre_val, crashed>>

-----------------------------------------------------------------------------
(* The keys after the handler has compared pre_val with v. *)
Events_Bug(down, v) == down \cup (v \ pre_val)

(* An event for every bit that differs from pre_val: 1 or 0, as it is in v. *)
Events(down, v) == (down \ (pre_val \ v)) \cup (v \ pre_val)

(* usbmouse_as_key_irq, for a urb of m that left b in the buffers.  It works on
   the globals, not on the urb it is called for: the urb it submits again is
   uk_urb, which is refused if that is submitted already. *)
usbmouse_as_key_irq(m, b, accepted) ==
  LET done == Set(urb, m, "idle")
  IN  /\ keys' = Set(keys, cur, Events(keys[cur], b[cur]))
      /\ pre_val' = b[cur] /\ stale' = stale \cap b[cur]
      /\ urb' = IF accepted THEN Set(done, cur, "submitted") ELSE done
      /\ refused' = (refused \/ ~accepted)

(* The HCD gives a urb back, of a mouse that is there, was pulled out or, when
   the wrong one was killed, is long gone. *)
Completes(m) == Up /\ urb[m] = "submitted" /\ cur \in live /\ m \in live

(* A report gets through. *)
Transfer(m, accepted) ==
  /\ Completes(m) /\ port[m] = "in"
  /\ buf' = Set(buf, m, btn[m])
  /\ usbmouse_as_key_irq(m, buf', accepted)
  /\ reported' = Set(reported, m, btn[m]) /\ phantom' = FALSE
  /\ UNCHANGED <<port, btn, live, cur, crashed, overlap>>

(* The handler returns when the urb has failed. *)
TransferFails_Bug(m, accepted) ==
  /\ Completes(m)
  /\ urb' = Set(urb, m, "idle")
  /\ UNCHANGED <<mice, live, buf, keys, drv, history>>

(* The urb fails, and the buffer is left as it was.  The handler does not look
   at the urb's status. *)
TransferFails(m, accepted) ==
  /\ Completes(m)
  /\ usbmouse_as_key_irq(m, buf, accepted)
  /\ phantom' = (phantom \/ buf[m] # reported[m])
  /\ UNCHANGED <<mice, live, buf, cur, crashed, overlap>>

(* The handler, or the HCD that fills the buffer, finds it freed. *)
TransferCrashes(m) ==
  /\ Up /\ urb[m] = "submitted" /\ ~({cur, m} \subseteq live)
  /\ crashed' = "freed"
  /\ UNCHANGED <<mice, objects, cur, pre_val, history>>

-----------------------------------------------------------------------------
(* The hub's thread can begin to disconnect m. *)
CanDisconnect(m) ==
  Up /\ port[m] \in {"in", "pulled"} /\ \A o \in Mice : port[o] # "killed"

(* The urb is left to complete when it likes. *)
KillUrb_Bug(m) ==
  /\ CanDisconnect(m) /\ cur \in live
  /\ port' = Set(port, m, "killed") /\ btn' = Set(btn, m, {})
  /\ UNCHANGED <<reported, objects, drv, history>>

(* usbmouse_as_key_disconnect: usb_kill_urb(uk_urb).  If it is submitted the
   handler is called for it, and cannot submit it again. *)
KillUrb(m) ==
  /\ CanDisconnect(m) /\ cur \in live
  /\ port' = Set(port, m, "killed") /\ btn' = Set(btn, m, {})
  /\ \/ /\ urb[cur] = "submitted"
        /\ usbmouse_as_key_irq(cur, buf, FALSE)
        /\ phantom' = (phantom \/ buf[cur] # reported[cur])
     \/ /\ urb[cur] = "idle"
        /\ UNCHANGED <<urb, keys, pre_val, stale, refused, phantom>>
  /\ UNCHANGED <<reported, live, buf, cur, crashed, overlap>>

(* The rest of it.  The core lets go of the keys that are down when the input
   device is unregistered, and of the device.  The last line, input_free_device,
   is then a use of freed memory, which this time does no harm. *)
FreeMouse(m) ==
  /\ Up /\ port[m] = "killed" /\ cur \in live
  /\ port' = Set(port, m, "out")
  /\ live' = live \ {cur} /\ keys' = Set(keys, cur, {}) /\ buf' = Set(buf, cur, {})
  /\ UNCHANGED <<btn, reported, urb, drv, history>>

(* The same, but the last line does harm. *)
FreeMouseCrashes(m) ==
  /\ Up /\ port[m] = "killed" /\ cur \in live
  /\ crashed' = "again"
  /\ UNCHANGED <<mice, objects, cur, pre_val, history>>

(* Disconnect finds the objects of the globals freed. *)
DisconnectCrashes(m) ==
  /\ CanDisconnect(m) \/ (Up /\ port[m] = "killed")
  /\ cur \notin live
  /\ crashed' = "freed"
  /\ UNCHANGED <<mice, objects, cur, pre_val, history>>

(* The machine is reset. *)
Reboot ==
  /\ ~Up
  /\ port' = [m \in Mice |-> "out"]
  /\ btn' = [m \in Mice |-> {}] /\ reported' = [m \in Mice |-> {}]
  /\ live' = {} /\ urb' = [m \in Mice |-> "idle"]
  /\ buf' = [m \in Mice |-> {}] /\ keys' = [m \in Mice |-> {}]
  /\ cur' = NONE /\ pre_val' = {} /\ crashed' = "no"
  /\ stale' = {} /\ phantom' = FALSE /\ refused' = FALSE /\ overlap' = FALSE

usbmouse_as_key_disconnect(m) ==
  KillUrb(m) \/ FreeMouse(m) \/ FreeMouseCrashes(m) \/ DisconnectCrashes(m)

Next ==
  \/ \E m \in Mice :
       \/ \E b \in Buttons : Press(m, b)
       \/ Pull(m)
       \/ \E down, garbage \in SUBSET Buttons, accepted \in BOOLEAN :
            usbmouse_as_key_probe(m, down, garbage, accepted)
       \/ \E accepted \in BOOLEAN : Transfer(m, accepted) \/ TransferFails(m, accepted)
       \/ TransferCrashes(m)
       \/ usbmouse_as_key_disconnect(m)
  \/ Reboot

(* A urb that is submitted for a mouse that is plugged in brings a report some
   time, if the mouse has one. *)
Fairness == \A m \in Mice : WF_vars(\E accepted \in BOOLEAN : Transfer(m, accepted))

Spec == Init /\ [][Next]_vars /\ Fairness

-----------------------------------------------------------------------------
TypeOK ==
  /\ port \in [Mice -> {"out", "in", "pulled", "killed"}]
  /\ urb \in [Mice -> {"idle", "submitted"}]
  /\ live \subseteq Mice /\ cur \in Mice \cup {NONE}
  /\ btn \in [Mice -> SUBSET Buttons] /\ reported \in [Mice -> SUBSET Buttons]
  /\ buf \in [Mice -> SUBSET Buttons] /\ keys \in [Mice -> SUBSET Buttons]
  /\ pre_val \subseteq Buttons /\ stale \subseteq pre_val
  /\ crashed \in {"no", "freed", "again"} /\ phantom \in BOOLEAN /\ refused \in BOOLEAN /\ overlap \in BOOLEAN

(* As long as there is one mouse at a time, neither the handler, with a urb that
   fails, is killed or submits itself again at any moment, nor disconnect works on
   objects that an earlier step has freed.  It is not all: the last line of every
   disconnect, with one mouse too, frees the input device again. *)
OneMouseSafe == crashed = "freed" => overlap

(* The keys of the only mouse are the buttons of its last report, but for those
   that were down when the last mouse was pulled out and have not been reported
   up since: an error or a disconnect at any moment adds and loses none, unless
   the first urb of all fails and leaves a buffer that was never written. *)
KeysFollow ==
  \A m \in live : ~overlap /\ ~phantom => keys[m] = reported[m] \ stale

(* When a mouse's buttons come to rest its keys come to be right, if no urb was
   refused: errors in between do not stop the reports. *)
ReportsGoOn ==
  \A m \in Mice :
    <>[](port[m] = "in" /\ ~overlap /\ ~refused) /\ <>[][FALSE]_btn =>
      <>[](keys[m] = btn[m] \ stale)
===============================================================================
