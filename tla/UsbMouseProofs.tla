---------------------------- MODULE UsbMouseProofs ----------------------------
(***************************************************************************)
(* Proofs about UsbMouse, for any number of mice and buttons.              *)
(***************************************************************************)
EXTENDS UsbMouse, TLAPS

(* As long as no mouse was probed while the driver had another one: the globals
   point to the only mouse there is, its objects are there from probe to the
   end of disconnect, and its urb is not submitted after it was killed. *)
OneMouseInv ==
  ~overlap =>
    /\ crashed # "freed"
    /\ live \subseteq {cur}
    /\ \A m \in Mice : port[m] # "out" <=> m \in live
    /\ \A m \in Mice : urb[m] = "submitted" => m \in live /\ port[m] # "killed"

(* What KeysFollow says of the keys follows from what pre_val is: the keys are
   the buttons of pre_val without the stale ones, whatever report, failure or
   kill the handler was called for last; and pre_val has the buttons of the
   last report that got through, unless a buffer was read that none had
   filled. *)
KeysInv ==
  ~overlap /\ cur \in live =>
    /\ keys[cur] = pre_val \ stale
    /\ ~phantom => pre_val = reported[cur] \cup stale

(* A mouse that is plugged in is listened to: unless a urb was refused, uk_urb
   is the only mouse's, and it is submitted again before the handler returns,
   after every report and every failure. *)
KeepsListening ==
  \A m \in Mice :
    port[m] \in {"in", "pulled"} /\ ~overlap /\ ~refused => cur = m /\ urb[m] = "submitted"

-----------------------------------------------------------------------------
(* The handler keeps the types. *)
LEMMA HandlerTypes ==
  ASSUME TypeOK, NEW m \in Mice, cur \in Mice, NEW b \in [Mice -> SUBSET Buttons],
         NEW a \in BOOLEAN, usbmouse_as_key_irq(m, b, a)
  PROVE  /\ keys' \in [Mice -> SUBSET Buttons] /\ urb' \in [Mice -> {"idle", "submitted"}]
         /\ pre_val' \subseteq Buttons /\ stale' \subseteq pre_val' /\ refused' \in BOOLEAN
<1> USE DEF TypeOK, usbmouse_as_key_irq, Set
<1>1. b[cur] \subseteq Buttons /\ Events(keys[cur], b[cur]) \subseteq Buttons
  BY DEF Events
<1>2. keys' \in [Mice -> SUBSET Buttons]
  BY <1>1
<1>3. urb' \in [Mice -> {"idle", "submitted"}]
  OBVIOUS
<1>4. pre_val' \subseteq Buttons /\ stale' \subseteq pre_val'
  BY <1>1
<1>5. refused' \in BOOLEAN
  OBVIOUS
<1> QED
  BY <1>2, <1>3, <1>4, <1>5

(* Every step keeps the types. *)
LEMMA TypeStep ==
  ASSUME TypeOK, [Next]_vars
  PROVE  TypeOK'
<1>1. ASSUME NEW m \in Mice, NEW b \in Buttons, Press(m, b) PROVE TypeOK'
  BY <1>1 DEF TypeOK, Press, Set, objects, drv, history
<1>2. ASSUME NEW m \in Mice, Pull(m) PROVE TypeOK'
  BY <1>2 DEF TypeOK, Pull, Set, objects, drv, history
<1>3. ASSUME NEW m \in Mice, NEW d \in SUBSET Buttons, NEW g \in SUBSET Buttons, NEW a \in BOOLEAN,
             usbmouse_as_key_probe(m, d, g, a)
      PROVE  TypeOK'
  BY <1>3 DEF TypeOK, usbmouse_as_key_probe, Set
<1>4. ASSUME NEW m \in Mice, NEW a \in BOOLEAN, Transfer(m, a) PROVE TypeOK'
  <2>1. buf' \in [Mice -> SUBSET Buttons] /\ reported' \in [Mice -> SUBSET Buttons] /\ cur \in Mice
    BY <1>4 DEF TypeOK, Transfer, Completes, Set
  <2>2. /\ keys' \in [Mice -> SUBSET Buttons] /\ urb' \in [Mice -> {"idle", "submitted"}]
        /\ pre_val' \subseteq Buttons /\ stale' \subseteq pre_val' /\ refused' \in BOOLEAN
    BY <1>4, <2>1, HandlerTypes DEF Transfer
  <2> QED
    BY <1>4, <2>1, <2>2 DEF TypeOK, Transfer
<1>5. ASSUME NEW m \in Mice, NEW a \in BOOLEAN, TransferFails(m, a) PROVE TypeOK'
  <2>1. cur \in Mice /\ buf \in [Mice -> SUBSET Buttons]
    BY <1>5 DEF TypeOK, TransferFails, Completes
  <2>2. /\ keys' \in [Mice -> SUBSET Buttons] /\ urb' \in [Mice -> {"idle", "submitted"}]
        /\ pre_val' \subseteq Buttons /\ stale' \subseteq pre_val' /\ refused' \in BOOLEAN
    BY <1>5, <2>1, HandlerTypes DEF TransferFails
  <2> QED
    BY <1>5, <2>2 DEF TypeOK, TransferFails, mice
<1>6. ASSUME NEW m \in Mice, TransferCrashes(m) PROVE TypeOK'
  BY <1>6 DEF TypeOK, TransferCrashes, mice, objects, history
<1>7. ASSUME NEW m \in Mice, KillUrb(m) PROVE TypeOK'
  <2>1. cur \in Mice /\ buf \in [Mice -> SUBSET Buttons]
    BY <1>7 DEF TypeOK, KillUrb
  <2>2. /\ keys' \in [Mice -> SUBSET Buttons] /\ urb' \in [Mice -> {"idle", "submitted"}]
        /\ pre_val' \subseteq Buttons /\ stale' \subseteq pre_val' /\ refused' \in BOOLEAN
        /\ phantom' \in BOOLEAN
    <3>1. CASE urb[cur] = "submitted"
      <4>1. usbmouse_as_key_irq(cur, buf, FALSE) /\ phantom' = (phantom \/ buf[cur] # reported[cur])
        BY <1>7, <3>1 DEF KillUrb
      <4> QED
        BY <2>1, <4>1, HandlerTypes DEF TypeOK
    <3>2. CASE UNCHANGED <<urb, keys, pre_val, stale, refused, phantom>>
      BY <3>2 DEF TypeOK
    <3> QED
      BY <1>7, <3>1, <3>2 DEF KillUrb
  <2> QED
    BY <1>7, <2>2 DEF TypeOK, KillUrb, Set
<1>8. ASSUME NEW m \in Mice, FreeMouse(m) PROVE TypeOK'
  BY <1>8 DEF TypeOK, FreeMouse, Set, drv, history
<1>9. ASSUME NEW m \in Mice, FreeMouseCrashes(m) PROVE TypeOK'
  BY <1>9 DEF TypeOK, FreeMouseCrashes, mice, objects, history
<1>10. ASSUME NEW m \in Mice, DisconnectCrashes(m) PROVE TypeOK'
  BY <1>10 DEF TypeOK, DisconnectCrashes, mice, objects, history
<1>11. CASE Reboot
  BY <1>11 DEF TypeOK, Reboot
<1>12. CASE UNCHANGED vars
  BY <1>12 DEF TypeOK, vars, mice, objects, drv, history
<1> QED
  BY <1>1, <1>2, <1>3, <1>4, <1>5, <1>6, <1>7, <1>8, <1>9, <1>10, <1>11, <1>12
  DEF Next, usbmouse_as_key_disconnect

(* For any number of mice and buttons the variables keep their types. *)
THEOREM TypeCorrect == Spec => []TypeOK
<1>1. Init => TypeOK
  BY DEF Init, TypeOK
<1>2. TypeOK /\ [Next]_vars => TypeOK'
  BY TypeStep
<1> QED
  BY <1>1, <1>2, PTL DEF Spec

-----------------------------------------------------------------------------
(* Every step keeps the only mouse's objects while they are in use. *)
LEMMA OneMouseStep ==
  ASSUME TypeOK, OneMouseInv, [Next]_vars
  PROVE  OneMouseInv'
<1> USE DEF OneMouseInv
<1>1. ASSUME NEW m \in Mice, NEW b \in Buttons, Press(m, b) PROVE OneMouseInv'
  BY <1>1 DEF Press, objects, drv, history
<1>2. ASSUME NEW m \in Mice, Pull(m) PROVE OneMouseInv'
  BY <1>2 DEF TypeOK, Pull, Set, objects, drv, history
<1>3. ASSUME NEW m \in Mice, NEW d \in SUBSET Buttons, NEW g \in SUBSET Buttons, NEW a \in BOOLEAN,
             usbmouse_as_key_probe(m, d, g, a)
      PROVE  OneMouseInv'
  <2>1. SUFFICES ASSUME ~overlap' PROVE OneMouseInv'
    OBVIOUS
  <2>2. ~overlap /\ live = {}
    BY <1>3, <2>1 DEF usbmouse_as_key_probe
  <2>3. live' = {m} /\ cur' = m /\ crashed' # "freed"
    BY <1>3, <2>2 DEF usbmouse_as_key_probe
  <2>4. port'[m] = "in" /\ \A o \in Mice \ {m} : port'[o] = port[o] /\ urb'[o] = urb[o]
    BY <1>3 DEF TypeOK, usbmouse_as_key_probe, Set
  <2> QED
    BY <2>2, <2>3, <2>4
<1>4. ASSUME NEW m \in Mice, NEW a \in BOOLEAN, NEW b,
             Completes(m), usbmouse_as_key_irq(m, b, a), UNCHANGED <<port, live, cur, crashed, overlap>>
      PROVE  OneMouseInv'
  <2>1. SUFFICES ASSUME ~overlap PROVE OneMouseInv'
    BY <1>4
  <2>2. m = cur /\ cur \in live /\ port[m] # "killed"
    BY <1>4, <2>1 DEF Completes
  <2>3. \A o \in Mice \ {m} : urb'[o] = urb[o]
    BY <1>4, <2>2 DEF TypeOK, usbmouse_as_key_irq, Set
  <2> QED
    BY <1>4, <2>1, <2>2, <2>3
<1>5. ASSUME NEW m \in Mice, NEW a \in BOOLEAN, Transfer(m, a) PROVE OneMouseInv'
  BY <1>4, <1>5 DEF Transfer
<1>6. ASSUME NEW m \in Mice, NEW a \in BOOLEAN, TransferFails(m, a) PROVE OneMouseInv'
  BY <1>4, <1>6 DEF TransferFails, mice
<1>7. ASSUME NEW m \in Mice, TransferCrashes(m) PROVE OneMouseInv'
  BY <1>7 DEF TransferCrashes, history
<1>8. ASSUME NEW m \in Mice, KillUrb(m) PROVE OneMouseInv'
  <2>1. SUFFICES ASSUME ~overlap PROVE OneMouseInv'
    BY <1>8 DEF KillUrb
  <2>2. m = cur /\ cur \in live /\ UNCHANGED <<live, cur, crashed, overlap>>
    BY <1>8, <2>1 DEF KillUrb, CanDisconnect
  <2>3. port'[m] = "killed" /\ \A o \in Mice \ {m} : port'[o] = port[o]
    BY <1>8 DEF TypeOK, KillUrb, Set
  <2>4. urb'[m] = "idle" /\ \A o \in Mice \ {m} : urb'[o] = urb[o]
    BY <1>8, <2>2 DEF TypeOK, KillUrb, usbmouse_as_key_irq, Set
  <2> QED
    BY <2>1, <2>2, <2>3, <2>4
<1>9. ASSUME NEW m \in Mice, FreeMouse(m) PROVE OneMouseInv'
  <2>1. SUFFICES ASSUME ~overlap PROVE OneMouseInv'
    BY <1>9 DEF FreeMouse, history
  <2>2. m = cur /\ live' = {} /\ UNCHANGED <<cur, crashed, overlap, urb>>
    BY <1>9, <2>1 DEF FreeMouse, drv, history
  <2>3. port'[m] = "out" /\ \A o \in Mice \ {m} : port'[o] = port[o]
    BY <1>9 DEF TypeOK, FreeMouse, Set
  <2>4. urb[m] # "submitted"
    BY <1>9, <2>1 DEF FreeMouse
  <2> QED
    BY <2>1, <2>2, <2>3, <2>4
<1>10. ASSUME NEW m \in Mice, FreeMouseCrashes(m) PROVE OneMouseInv'
  BY <1>10 DEF FreeMouseCrashes, mice, objects, history
<1>11. ASSUME NEW m \in Mice, DisconnectCrashes(m) PROVE OneMouseInv'
  BY <1>11 DEF DisconnectCrashes, CanDisconnect, history
<1>12. CASE Reboot
  BY <1>12 DEF Reboot
<1>13. CASE UNCHANGED vars
  BY <1>13 DEF vars, mice, objects, drv, history
<1> QED
  BY <1>1, <1>2, <1>3, <1>5, <1>6, <1>7, <1>8, <1>9, <1>10, <1>11, <1>12, <1>13
  DEF Next, usbmouse_as_key_disconnect

(* The handler, called for the only mouse with v in its buffer: the keys are
   those of v but the stale ones. *)
LEMMA HandlerKeys ==
  ASSUME TypeOK, KeysInv, ~overlap, cur \in live, NEW b, NEW a, usbmouse_as_key_irq(cur, b, a)
  PROVE  keys'[cur] = pre_val' \ stale' /\ pre_val' = b[cur] /\ stale' \subseteq b[cur]
<1>1. keys'[cur] = Events(keys[cur], b[cur]) /\ pre_val' = b[cur] /\ stale' = stale \cap b[cur]
  BY DEF TypeOK, usbmouse_as_key_irq, Set
<1>2. keys[cur] = pre_val \ stale /\ stale \subseteq pre_val
  BY DEF KeysInv, TypeOK
<1>3. Events(keys[cur], b[cur]) = b[cur] \ stale
  BY <1>2 DEF Events
<1> QED
  BY <1>1, <1>3

(* Every step keeps the keys to pre_val, and pre_val to the last report. *)
LEMMA KeysStep ==
  ASSUME TypeOK, OneMouseInv, KeysInv, [Next]_vars
  PROVE  KeysInv'
<1>1. ASSUME NEW m \in Mice, NEW b \in Buttons, Press(m, b) PROVE KeysInv'
  BY <1>1 DEF KeysInv, Press, objects, drv, history
<1>2. ASSUME NEW m \in Mice, Pull(m) PROVE KeysInv'
  BY <1>2 DEF KeysInv, Pull, objects, drv, history
<1>3. ASSUME NEW m \in Mice, NEW d \in SUBSET Buttons, NEW g \in SUBSET Buttons, NEW a \in BOOLEAN,
             usbmouse_as_key_probe(m, d, g, a)
      PROVE  KeysInv'
  <2>1. cur' = m /\ keys'[m] = {} /\ reported'[m] = {} /\ stale' = pre_val /\ pre_val' = pre_val
    BY <1>3 DEF TypeOK, usbmouse_as_key_probe, Set
  <2> QED
    BY <2>1 DEF KeysInv
<1>4. ASSUME NEW m \in Mice, NEW a \in BOOLEAN, Transfer(m, a) PROVE KeysInv'
  <2>1. SUFFICES ASSUME ~overlap PROVE KeysInv'
    BY <1>4 DEF KeysInv, Transfer
  <2>2. m = cur /\ cur \in live /\ UNCHANGED cur
    BY <1>4, <2>1 DEF OneMouseInv, Transfer, Completes
  <2>3. usbmouse_as_key_irq(cur, buf', a) /\ buf'[cur] = btn[cur] /\ reported'[cur] = btn[cur]
    BY <1>4, <2>2 DEF TypeOK, Transfer, Set
  <2>4. keys'[cur] = pre_val' \ stale' /\ pre_val' = btn[cur] /\ stale' \subseteq btn[cur]
    BY <2>1, <2>2, <2>3, HandlerKeys
  <2> QED
    BY <2>2, <2>3, <2>4 DEF KeysInv
<1>5. ASSUME NEW m \in Mice, NEW a \in BOOLEAN, TransferFails(m, a) PROVE KeysInv'
  <2>1. SUFFICES ASSUME ~overlap PROVE KeysInv'
    BY <1>5 DEF KeysInv, TransferFails
  <2>2. m = cur /\ cur \in live /\ UNCHANGED <<cur, reported>>
    BY <1>5, <2>1 DEF OneMouseInv, TransferFails, Completes, mice
  <2>3. usbmouse_as_key_irq(cur, buf, a) /\ (~phantom' => buf[cur] = reported[cur])
    BY <1>5, <2>2 DEF TransferFails
  <2>4. keys'[cur] = pre_val' \ stale' /\ pre_val' = buf[cur] /\ stale' \subseteq buf[cur]
    BY <2>1, <2>2, <2>3, HandlerKeys
  <2> QED
    BY <2>2, <2>3, <2>4 DEF KeysInv
<1>6. ASSUME NEW m \in Mice, TransferCrashes(m) PROVE KeysInv'
  BY <1>6 DEF KeysInv, TransferCrashes, mice, objects, history
<1>7. ASSUME NEW m \in Mice, KillUrb(m) PROVE KeysInv'
  <2>1. SUFFICES ASSUME ~overlap PROVE KeysInv'
    BY <1>7 DEF KeysInv, KillUrb
  <2>2. cur \in live /\ UNCHANGED <<cur, reported, live>>
    BY <1>7 DEF KillUrb
  <2>3. CASE urb[cur] = "submitted"
    <3>1. usbmouse_as_key_irq(cur, buf, FALSE) /\ (~phantom' => buf[cur] = reported[cur])
      BY <1>7, <2>3 DEF KillUrb
    <3>2. keys'[cur] = pre_val' \ stale' /\ pre_val' = buf[cur] /\ stale' \subseteq buf[cur]
      BY <2>1, <2>2, <3>1, HandlerKeys
    <3> QED
      BY <2>2, <3>1, <3>2 DEF KeysInv
  <2>4. CASE UNCHANGED <<urb, keys, pre_val, stale, refused, phantom>>
    BY <2>1, <2>2, <2>4 DEF KeysInv
  <2> QED
    BY <1>7, <2>3, <2>4 DEF KillUrb
<1>8. ASSUME NEW m \in Mice, FreeMouse(m) PROVE KeysInv'
  BY <1>8 DEF KeysInv, FreeMouse, drv
<1>9. ASSUME NEW m \in Mice, FreeMouseCrashes(m) PROVE KeysInv'
  BY <1>9 DEF KeysInv, FreeMouseCrashes, mice, objects, history
<1>10. ASSUME NEW m \in Mice, DisconnectCrashes(m) PROVE KeysInv'
  BY <1>10 DEF KeysInv, DisconnectCrashes, mice, objects, history
<1>11. CASE Reboot
  BY <1>11 DEF KeysInv, Reboot
<1>12. CASE UNCHANGED vars
  BY <1>12 DEF KeysInv, vars, mice, objects, drv, history
<1> QED
  BY <1>1, <1>2, <1>3, <1>4, <1>5, <1>6, <1>7, <1>8, <1>9, <1>10, <1>11, <1>12
  DEF Next, usbmouse_as_key_disconnect

(* Every step leaves the only mouse's urb submitted, but for the ones that
   refuse it or kill it. *)
LEMMA ListeningStep ==
  ASSUME TypeOK, OneMouseInv, KeepsListening, [Next]_vars
  PROVE  KeepsListening'
<1> USE DEF KeepsListening
<1>1. ASSUME NEW m \in Mice, NEW b \in Buttons, Press(m, b) PROVE KeepsListening'
  BY <1>1 DEF Press, objects, drv, history
<1>2. ASSUME NEW m \in Mice, Pull(m) PROVE KeepsListening'
  BY <1>2 DEF TypeOK, Pull, Set, objects, drv, history
<1>3. ASSUME NEW m \in Mice, NEW d \in SUBSET Buttons, NEW g \in SUBSET Buttons, NEW a \in BOOLEAN,
             usbmouse_as_key_probe(m, d, g, a)
      PROVE  KeepsListening'
  <2>1. SUFFICES ASSUME ~overlap', ~refused' PROVE KeepsListening'
    OBVIOUS
  <2>2. ~overlap /\ live = {} /\ a
    BY <1>3, <2>1 DEF usbmouse_as_key_probe
  <2>3. \A o \in Mice \ {m} : port'[o] = "out"
    BY <1>3, <2>2 DEF TypeOK, OneMouseInv, usbmouse_as_key_probe, Set
  <2>4. cur' = m /\ urb'[m] = "submitted"
    BY <1>3, <2>2 DEF TypeOK, usbmouse_as_key_probe, Set
  <2> QED
    BY <2>3, <2>4
<1>4. ASSUME NEW m \in Mice, NEW a \in BOOLEAN, NEW b,
             Completes(m), usbmouse_as_key_irq(m, b, a), UNCHANGED <<port, cur, overlap>>
      PROVE  KeepsListening'
  <2>1. SUFFICES ASSUME ~overlap, ~refused' PROVE KeepsListening'
    BY <1>4
  <2>2. m = cur /\ a /\ ~refused
    BY <1>4, <2>1 DEF OneMouseInv, Completes, usbmouse_as_key_irq
  <2>3. urb'[m] = "submitted"
    BY <1>4, <2>2 DEF TypeOK, usbmouse_as_key_irq, Set
  <2> QED
    BY <1>4, <2>1, <2>2, <2>3
<1>5. ASSUME NEW m \in Mice, NEW a \in BOOLEAN, Transfer(m, a) PROVE KeepsListening'
  BY <1>4, <1>5 DEF Transfer
<1>6. ASSUME NEW m \in Mice, NEW a \in BOOLEAN, TransferFails(m, a) PROVE KeepsListening'
  BY <1>4, <1>6 DEF TransferFails, mice
<1>7. ASSUME NEW m \in Mice, TransferCrashes(m) PROVE KeepsListening'
  BY <1>7 DEF TransferCrashes, mice, objects, history
<1>8. ASSUME NEW m \in Mice, KillUrb(m) PROVE KeepsListening'
  <2>1. port[m] \in {"in", "pulled"} /\ port'[m] = "killed" /\ overlap' = overlap
        /\ \A o \in Mice \ {m} : port'[o] = port[o]
    BY <1>8 DEF TypeOK, KillUrb, CanDisconnect, Set
  <2>2. refused => refused'
    BY <1>8 DEF KillUrb, usbmouse_as_key_irq
  <2>3. ASSUME NEW o \in Mice, port'[o] \in {"in", "pulled"} PROVE overlap' \/ refused'
    <3>1. o # m /\ port[o] = port'[o]
      BY <2>1, <2>3
    <3>2. (cur = m /\ cur = o) \/ overlap \/ refused
      BY <2>1, <2>3, <3>1
    <3> QED
      BY <2>1, <2>2, <3>1, <3>2
  <2> QED
    BY <2>3
<1>9. ASSUME NEW m \in Mice, FreeMouse(m) PROVE KeepsListening'
  BY <1>9 DEF TypeOK, FreeMouse, Set, drv, history
<1>10. ASSUME NEW m \in Mice, FreeMouseCrashes(m) PROVE KeepsListening'
  BY <1>10 DEF FreeMouseCrashes, mice, objects, history
<1>11. ASSUME NEW m \in Mice, DisconnectCrashes(m) PROVE KeepsListening'
  BY <1>11 DEF DisconnectCrashes, mice, objects, history
<1>12. CASE Reboot
  BY <1>12 DEF Reboot
<1>13. CASE UNCHANGED vars
  BY <1>13 DEF vars, mice, objects, drv, history
<1> QED
  BY <1>1, <1>2, <1>3, <1>5, <1>6, <1>7, <1>8, <1>9, <1>10, <1>11, <1>12, <1>13
  DEF Next, usbmouse_as_key_disconnect

-----------------------------------------------------------------------------
(* The globals belong to the only mouse while it has objects. *)
THEOREM OneMouseInvariant == Spec => []OneMouseInv
<1>1. Init => OneMouseInv
  BY DEF Init, OneMouseInv
<1>2. TypeOK /\ OneMouseInv /\ [Next]_vars => OneMouseInv'
  BY OneMouseStep
<1> QED
  BY <1>1, <1>2, TypeCorrect, PTL DEF Spec

(* With one mouse at a time neither the handler nor disconnect ever works on a
   mouse's objects after they were freed, at whatever moment a urb completes,
   fails, is submitted or killed, and however many mice come and go; what is left
   is that disconnect, in its last line, frees the input device again. *)
THEOREM OneMouseIsSafe == Spec => []OneMouseSafe
<1>1. OneMouseInv => OneMouseSafe
  BY DEF OneMouseInv, OneMouseSafe
<1> QED
  BY <1>1, OneMouseInvariant, PTL

(* The keys of the only mouse are the buttons of its last report, but for the
   stale ones, for any number of buttons and any sequence of reports, failures
   and mice. *)
THEOREM KeysFollowReports == Spec => []KeysFollow
<1>1. Init => KeysInv
  BY DEF Init, KeysInv
<1>2. TypeOK /\ OneMouseInv /\ KeysInv /\ [Next]_vars => KeysInv'
  BY KeysStep
<1>3. OneMouseInv /\ KeysInv => KeysFollow
  BY DEF OneMouseInv, KeysInv, KeysFollow
<1> QED
  BY <1>1, <1>2, <1>3, TypeCorrect, OneMouseInvariant, PTL DEF Spec

(* With one mouse at a time no interleaving of reports, failures, pulls and
   probes leaves a mouse that is plugged in without a submitted urb, if none was
   refused: the safety part of ReportsGoOn, whose fairness then does the rest. *)
THEOREM MouseIsHeard == Spec => []KeepsListening
<1>1. Init => KeepsListening
  BY DEF Init, KeepsListening
<1>2. TypeOK /\ OneMouseInv /\ KeepsListening /\ [Next]_vars => KeepsListening'
  BY ListeningStep
<1> QED
  BY <1>1, <1>2, TypeCorrect, OneMouseInvariant, PTL DEF Spec
===============================================================================
