------------------------------ MODULE S3c24xxI2c ------------------------------
(***************************************************************************)
(* The s3c24xx i2c bus driver, src/i2c/bus_drv/i2c-s3c2440.c: the caller   *)
(* of s3c24xx_i2c_xfer, the interrupt handler s3c24xx_i2c_irq, and between *)
(* them the controller's registers and the bus.                            *)
(*                                                                         *)
(* The machine has one processor.  The handler runs to its end without     *)
(* being interrupted, so it is one step; it can come between any two steps *)
(* of the caller, which are as long as a piece of the code that touches    *)
(* nothing the handler touches, or that runs while no interrupt can come.  *)
(* The controller and the slave (external) move on their own while the     *)
(* controller's clock is on.  Bytes may take arbitrarily long: a slave can *)
(* stretch the clock for ever, so every wait can end by its timeout.       *)
(*                                                                         *)
(* Registers and flag words are sets of the names of the bits that are 1.  *)
(*                                                                         *)
(* A definition whose name ends in _Bug is the definition that follows it  *)
(* with a mistake in it; no specification uses it.  Putting it in the      *)
(* place of the right one shows that the properties notice the mistake.    *)
(***************************************************************************)
EXTENDS Integers, Sequences

CONSTANTS
  Transfers,   \* the message arrays the i2c core may pass to s3c24xx_i2c_xfer
  QuirkSets,   \* the values i2c->quirks may have, of the controllers modelled
  Retries,     \* adap.retries, which s3c24xx_i2c_probe sets to 2
  BlockLens,   \* the byte counts a slave may announce in a smbus block read
  BlockBuf     \* the bytes in the buffer of a block read: the smbus layer of
               \* the core (external) has I2C_SMBUS_BLOCK_MAX + 2

VARIABLES
  \* The controller and the bus.
  con,         \* IICCON: ACKEN, IRQEN, IRQPEND
  stat,        \* IICSTAT: TXRXEN, MASTER_RX, LASTBIT
  bus,         \* "idle", "owned" or "stopping"; BUSBUSY reads as # "idle"
  shift,       \* IICDS: what the byte on the wire is, and of which message
  \* struct s3c24xx_i2c.
  quirks,
  state,
  msg,         \* the current message, by its place in msgs; 0 is NULL
  msg_num,
  msg_idx,
  msg_ptr,
  \* The caller.
  pc,          \* where the caller is in s3c24xx_i2c_xfer; "idle" outside it
  retry,
  ret,
  msgs,        \* the message array passed in
  \* History, which no step reads.
  expired,     \* some wait_event_timeout so far ended by its timeout
  addressed,   \* messages of msgs whose address byte was accepted
  moved        \* bytes of each message accepted by the slave, or stored

hw     == <<con, stat, bus, shift>>
drv    == <<state, msg, msg_num, msg_idx, msg_ptr>>
caller == <<pc, retry, ret>>
wire   == <<addressed, moved>>
vars   == <<hw, quirks, drv, caller, msgs, expired, wire>>

-----------------------------------------------------------------------------
(* struct i2c_msg: the flags the driver tests and the length. *)
Flags == {"RD", "NOSTART", "IGNORE_NAK", "RECV_LEN"}
Msg   == [flags : SUBSET Flags, len : Nat]

ENXIO        == 6
EIO          == 5
EAGAIN       == 11
EINVAL       == 22
ECONNREFUSED == 111
EREMOTEIO    == 121

NULL == 0

States == {"IDLE", "START", "READ", "WRITE", "STOP"}
Labels == {"idle", "set_master", "message_start", "wait", "woken", "wait_idle",
           "disable_stat", "disable_con", "out", "return", "oops"}

NoByte      == [kind |-> "none", msg |-> NULL]
AddrByte(m) == [kind |-> "addr", msg |-> m]
DataByte(m) == [kind |-> "data", msg |-> m]

(* clk_enable .. clk_disable: the registers and the bus are alive only while
   the caller is inside s3c24xx_i2c_xfer, and not after a kernel oops. *)
Running == pc \notin {"idle", "oops"}

Init ==
  /\ quirks \in QuirkSets
  /\ con = {} /\ stat = {} /\ bus = "idle" /\ shift = NoByte
  /\ state = "IDLE" /\ msg = NULL /\ msg_num = 0 /\ msg_idx = 0 /\ msg_ptr = 0
  /\ pc = "idle" /\ retry = 0 /\ ret = 0 /\ msgs = << >>
  /\ expired = FALSE /\ addressed = {} /\ moved = << >>

-----------------------------------------------------------------------------
(* The controller, the bus and the slave (external). *)

(* A byte can move: the controller is a master, drives its pins, and has no
   unacknowledged interrupt. *)
Clocking == Running /\ bus = "owned" /\ "TXRXEN" \in stat /\ "IRQPEND" \notin con

(* The byte in IICDS has gone, its ninth bit is in LASTBIT, and the controller
   holds the clock until IRQPEND is cleared. *)
ByteDone(ninth) ==
  /\ stat' = (stat \ {"LASTBIT"}) \cup ninth
  /\ con' = con \cup {"IRQPEND"}
  /\ shift' = NoByte
  /\ UNCHANGED <<bus, quirks, drv, caller, msgs, expired>>

(* The slave's answer counts when it is an ACK or the message ignores it. *)
Answers(m, ninth) == ninth = {} \/ "IGNORE_NAK" \in msgs[m].flags

AddrByteDone ==
  /\ Clocking /\ shift.kind = "addr"
  /\ \E ninth \in SUBSET {"LASTBIT"} :
       /\ ByteDone(ninth)
       /\ addressed' = IF Answers(shift.msg, ninth)
                       THEN addressed \cup {shift.msg} ELSE addressed
  /\ UNCHANGED moved

TxByteDone ==
  /\ Clocking /\ shift.kind = "data"
  /\ \E ninth \in SUBSET {"LASTBIT"} :
       /\ ByteDone(ninth)
       /\ moved' = IF Answers(shift.msg, ninth)
                   THEN [moved EXCEPT ![shift.msg] = @ + 1] ELSE moved
  /\ UNCHANGED addressed

(* In receive mode the controller itself gives the ninth bit, by ACKEN. *)
RxByteDone ==
  /\ Clocking /\ shift.kind = "none" /\ "MASTER_RX" \in stat
  /\ ByteDone(IF "ACKEN" \in con THEN {} ELSE {"LASTBIT"})
  /\ UNCHANGED wire

(* In transmit mode with nothing new in IICDS the old contents go out. *)
StrayByteDone ==
  /\ Clocking /\ shift.kind = "none" /\ "MASTER_RX" \notin stat
  /\ \E ninth \in SUBSET {"LASTBIT"} : ByteDone(ninth)
  /\ UNCHANGED wire

(* A stop condition has been through the bus, or the pins float. *)
BusRelease ==
  /\ Running /\ bus # "idle"
  /\ \/ bus = "stopping" /\ "IRQPEND" \notin con
     \/ "TXRXEN" \notin stat
  /\ bus' = "idle"
  /\ UNCHANGED <<con, stat, shift, quirks, drv, caller, msgs, expired, wire>>

-----------------------------------------------------------------------------
(* Helpers of the driver, shared by the caller and the handler. *)

(* s3c24xx_i2c_message_start, what it leaves in IICSTAT, IICDS and on the bus;
   it also sets ACKEN and writes the rest of IICCON back as it was. *)
message_start(m) ==
  /\ stat' = {"TXRXEN"} \cup (IF "RD" \in msgs[m].flags THEN {"MASTER_RX"} ELSE {})
  /\ shift' = AddrByte(m)
  /\ bus' = "owned"

(* `msg_idx++' is missing. *)
master_complete_NotCounted_Bug(r, idx) ==
  /\ msg_ptr' = 0 /\ msg' = NULL /\ msg_num' = 0
  /\ msg_idx' = IF r = 0 THEN idx ELSE r

(* s3c24xx_i2c_master_complete; the caller waits for msg_num = 0. *)
master_complete(r, idx) ==
  /\ msg_ptr' = 0 /\ msg' = NULL /\ msg_num' = 0
  /\ msg_idx' = IF r = 0 THEN idx + 1 ELSE r

(* s3c24xx_i2c_disable_irq is not called. *)
stop_IrqLeftOn_Bug(r, idx) ==
  /\ IF "HDMIPHY" \in quirks
     THEN stat' = stat \ {"TXRXEN"} /\ UNCHANGED bus
     ELSE bus' = (IF bus = "owned" THEN "stopping" ELSE bus) /\ UNCHANGED stat
  /\ state' = "STOP"
  /\ master_complete(r, idx)
  /\ con' = con \ {"IRQPEND"}
  /\ UNCHANGED shift

(* s3c24xx_i2c_stop.  IRQEN is cleared, and IRQPEND too, at out_ack, where
   every path that stops ends. *)
stop(r, idx) ==
  /\ IF "HDMIPHY" \in quirks
     THEN stat' = stat \ {"TXRXEN"} /\ UNCHANGED bus
     ELSE bus' = (IF bus = "owned" THEN "stopping" ELSE bus) /\ UNCHANGED stat
  /\ state' = "STOP"
  /\ master_complete(r, idx)
  /\ con' = con \ {"IRQEN", "IRQPEND"}
  /\ UNCHANGED shift

is_lastmsg(idx) == idx >= msg_num - 1

(* The first byte of a block read is taken for the last. *)
is_msglast_BlockRead_Bug(m, ptr) == ptr = m.len - 1

is_msglast(m, ptr) ==
  /\ ~("RECV_LEN" \in m.flags /\ m.len = 1)
  /\ ptr = m.len - 1

is_msgend_OffByOne_Bug(m, ptr) == ptr > m.len

is_msgend(m, ptr) == ptr >= m.len

-----------------------------------------------------------------------------
(* s3c24xx_i2c_irq and i2c_s3c_irq_nextbyte.  Each action is the handler from
   its entry to its return, along one path. *)

IrqTaken == Running /\ {"IRQEN", "IRQPEND"} \subseteq con

(* LASTBIT is not looked at. *)
Accepted_Bug == TRUE

(* The slave acknowledged the byte, or the message does not mind. *)
Accepted == "LASTBIT" \notin stat \/ "IGNORE_NAK" \in msgs[msg].flags

(* No transfer in hand: acknowledge, and in STATE_STOP disable, the interrupt. *)
IrqIdleOrStop ==
  /\ IrqTaken /\ state \in {"IDLE", "STOP"}
  /\ con' = con \ ({"IRQPEND"} \cup (IF state = "STOP" THEN {"IRQEN"} ELSE {}))
  /\ UNCHANGED <<stat, bus, shift, quirks, drv, caller, msgs, expired, wire>>

(* STATE_START, the address byte was refused. *)
IrqStartRefused ==
  /\ IrqTaken /\ state = "START" /\ ~Accepted
  /\ stop(-ENXIO, msg_idx)
  /\ UNCHANGED <<quirks, caller, msgs, expired, wire>>

(* STATE_START, nothing to send or receive after the address: a probe. *)
NothingToDo == is_lastmsg(msg_idx) /\ msgs[msg].len = 0

IrqStartEmpty ==
  /\ IrqTaken /\ state = "START" /\ Accepted /\ NothingToDo
  /\ stop(0, msg_idx)
  /\ UNCHANGED <<quirks, caller, msgs, expired, wire>>

(* The label prepare_read: m is the current message, ptr the bytes stored. *)
prepare_read(m, ptr) ==
  \/ /\ is_msglast(m, ptr)
     /\ con' = con \ ({"IRQPEND"} \cup (IF is_lastmsg(msg_idx) THEN {"ACKEN"} ELSE {}))
     /\ state' = "READ" /\ msg_ptr' = ptr
     /\ UNCHANGED <<stat, bus, shift, msg, msg_num, msg_idx>>
  \/ /\ ~is_msglast(m, ptr) /\ is_msgend(m, ptr) /\ is_lastmsg(msg_idx)
     /\ stop(0, msg_idx)
  \/ /\ ~is_msglast(m, ptr) /\ is_msgend(m, ptr) /\ ~is_lastmsg(msg_idx)
     /\ con' = con \ {"IRQPEND"}
     /\ state' = "READ" /\ msg_ptr' = 0
     /\ msg_idx' = msg_idx + 1 /\ msg' = msg + 1
     /\ UNCHANGED <<stat, bus, shift, msg_num>>
  \/ /\ ~is_msglast(m, ptr) /\ ~is_msgend(m, ptr)
     /\ con' = con \ {"IRQPEND"}
     /\ state' = "READ" /\ msg_ptr' = ptr
     /\ UNCHANGED <<stat, bus, shift, msg, msg_num, msg_idx>>

IrqStartRead ==
  /\ IrqTaken /\ state = "START" /\ Accepted /\ ~NothingToDo
  /\ "RD" \in msgs[msg].flags
  /\ prepare_read(msgs[msg], msg_ptr)
  /\ UNCHANGED <<quirks, caller, msgs, expired, wire>>

(* The message once a byte of it is stored: the first byte of a smbus block
   read is the number of bytes that follow.  The code takes the slave's word
   for it, and compares it with nothing. *)
grown(m, byte) ==
  IF "RECV_LEN" \in m.flags /\ m.len = 1
  THEN [flags |-> m.flags, len |-> m.len + byte] ELSE m

(* The bytes that m->buf has room for. *)
Room(m) == IF "RECV_LEN" \in m.flags THEN BlockBuf ELSE m.len

(* STATE_READ: store the byte, whether or not the buffer has room for it. *)
IrqRead ==
  /\ IrqTaken /\ state = "READ"
  /\ \E byte \in BlockLens :
       /\ msgs' = [msgs EXCEPT ![msg] = grown(msgs[msg], byte)]
       /\ prepare_read(grown(msgs[msg], byte), msg_ptr + 1)
  /\ moved' = [moved EXCEPT ![msg] = @ + 1]
  /\ UNCHANGED <<quirks, caller, expired, addressed>>

(* The byte is stored behind the buffer, and what it overwrites there stops
   the kernel.  IrqRead is the case that nothing notices. *)
IrqReadOverruns ==
  /\ IrqTaken /\ state = "READ" /\ msg_ptr >= Room(msgs[msg])
  /\ pc' = "oops"
  /\ UNCHANGED <<hw, quirks, drv, retry, ret, msgs, expired, wire>>

(* STATE_WRITE, the last byte was refused. *)
IrqWriteRefused ==
  /\ IrqTaken /\ state = "WRITE" /\ ~Accepted
  /\ stop(-ECONNREFUSED, msg_idx)
  /\ UNCHANGED <<quirks, caller, msgs, expired, wire>>

(* The label retry_write is reached, from STATE_WRITE or from STATE_START. *)
RetryWrite ==
  /\ IrqTaken
  /\ \/ state = "WRITE"
     \/ state = "START" /\ ~NothingToDo /\ "RD" \notin msgs[msg].flags
  /\ Accepted

IrqWriteByte ==
  /\ RetryWrite /\ ~is_msgend(msgs[msg], msg_ptr)
  /\ shift' = DataByte(msg) /\ msg_ptr' = msg_ptr + 1
  /\ state' = "WRITE" /\ con' = con \ {"IRQPEND"}
  /\ UNCHANGED <<stat, bus, quirks, msg, msg_num, msg_idx, caller, msgs, expired, wire>>

IrqWriteStop ==
  /\ RetryWrite /\ is_msgend(msgs[msg], msg_ptr) /\ is_lastmsg(msg_idx)
  /\ stop(0, msg_idx)
  /\ UNCHANGED <<quirks, caller, msgs, expired, wire>>

(* The messages `goto retry_write' passes over: they continue the transfer
   without a start, have nothing to write, and are not the last. *)
PassedOver(m) ==
  /\ "NOSTART" \in msgs[m].flags /\ "RD" \notin msgs[m].flags
  /\ msgs[m].len = 0 /\ m < Len(msgs)

(* The next message j begins.  With NOSTART and RD the code stops the
   transfer and goes on at retry_write with i2c->msg = NULL: an oops. *)
next_message(j) ==
  \/ /\ "NOSTART" \notin msgs[j].flags
     /\ message_start(j)
     /\ con' = (con \cup {"ACKEN"}) \ {"IRQPEND"}
     /\ state' = "START" /\ msg' = j /\ msg_idx' = j - 1 /\ msg_ptr' = 0
     /\ UNCHANGED <<msg_num, pc>>
  \/ /\ {"NOSTART", "RD"} \subseteq msgs[j].flags
     /\ stop(-EINVAL, j - 1)
     /\ pc' = "oops"
  \/ /\ "NOSTART" \in msgs[j].flags /\ "RD" \notin msgs[j].flags /\ msgs[j].len > 0
     /\ shift' = DataByte(j)
     /\ con' = con \ {"IRQPEND"}
     /\ state' = "WRITE" /\ msg' = j /\ msg_idx' = j - 1 /\ msg_ptr' = 1
     /\ UNCHANGED <<stat, bus, msg_num, pc>>
  \/ /\ "NOSTART" \in msgs[j].flags /\ "RD" \notin msgs[j].flags /\ msgs[j].len = 0
     /\ stop(0, j - 1)
     /\ UNCHANGED pc

IrqWriteNext ==
  /\ RetryWrite /\ is_msgend(msgs[msg], msg_ptr) /\ ~is_lastmsg(msg_idx)
  /\ \E j \in (msg + 1)..Len(msgs) :
       /\ \A k \in (msg + 1)..(j - 1) : PassedOver(k)
       /\ ~PassedOver(j)
       /\ next_message(j)
  /\ UNCHANGED <<quirks, retry, ret, msgs, expired, wire>>

Irq ==
  \/ IrqIdleOrStop \/ IrqStartRefused \/ IrqStartEmpty \/ IrqStartRead \/ IrqRead
  \/ IrqReadOverruns \/ IrqWriteRefused \/ IrqWriteByte \/ IrqWriteStop \/ IrqWriteNext

-----------------------------------------------------------------------------
(* s3c24xx_i2c_xfer and s3c24xx_i2c_doxfer, in the caller's context. *)

(* The core calls s3c24xx_i2c_xfer with the array t, and clk_enable works. *)
Xfer(t) ==
  /\ pc = "idle"
  /\ pc' = "set_master" /\ retry' = 0 /\ msgs' = t
  /\ shift' = NoByte       \* whatever is in IICDS, it is of no message of t
  /\ addressed' = {} /\ moved' = [m \in 1..Len(t) |-> 0]
  /\ UNCHANGED <<con, stat, bus, quirks, drv, ret, expired>>

(* clk_enable fails and its error is returned. *)
XferNoClock ==
  /\ pc = "idle"
  /\ ret' = -EIO
  /\ UNCHANGED <<hw, quirks, drv, pc, retry, msgs, expired, wire>>

(* s3c24xx_i2c_set_master finds the bus free; doxfer sets up the transfer. *)
SetMasterFree ==
  /\ pc = "set_master" /\ bus = "idle"
  /\ msg' = 1 /\ msg_num' = Len(msgs) /\ msg_ptr' = 0 /\ msg_idx' = 0
  /\ state' = "START"
  /\ con' = con \cup {"IRQEN"}
  /\ pc' = "message_start"
  /\ UNCHANGED <<stat, bus, shift, quirks, retry, ret, msgs, expired, wire>>

(* One attempt too many. *)
SetMasterBusy_Bug ==
  /\ pc = "set_master" /\ bus # "idle"
  /\ retry' = retry + 1
  /\ IF retry + 1 <= Retries THEN UNCHANGED <<pc, ret>>
                             ELSE pc' = "return" /\ ret' = -EREMOTEIO
  /\ UNCHANGED <<hw, quirks, drv, msgs, expired, wire>>

(* The bus is busy each of the 400 times s3c24xx_i2c_set_master looks: doxfer
   returns -EAGAIN, and s3c24xx_i2c_xfer tries again adap.retries times. *)
SetMasterBusy ==
  /\ pc = "set_master" /\ bus # "idle"
  /\ retry' = retry + 1
  /\ IF retry + 1 < Retries THEN UNCHANGED <<pc, ret>>
                            ELSE pc' = "return" /\ ret' = -EREMOTEIO
  /\ UNCHANGED <<hw, quirks, drv, msgs, expired, wire>>

MessageStart ==
  /\ pc = "message_start"
  /\ message_start(1)
  /\ con' = con \cup {"ACKEN"}
  /\ pc' = "wait"
  /\ UNCHANGED <<quirks, drv, retry, ret, msgs, expired, wire>>

(* wait_event instead of wait_event_timeout. *)
WaitEvent_Bug ==
  /\ pc = "wait" /\ msg_num = 0
  /\ pc' = "woken"
  /\ UNCHANGED <<hw, quirks, drv, retry, ret, msgs, expired, wire>>

(* wait_event_timeout: msg_num is 0, or five seconds have passed. *)
WaitEvent ==
  /\ pc = "wait"
  /\ pc' = "woken"
  /\ expired' = (expired \/ msg_num # 0)
  /\ UNCHANGED <<hw, quirks, drv, retry, ret, msgs, wire>>

(* A timeout is reported as success. *)
Woken_Timeout_Bug ==
  /\ pc = "woken"
  /\ ret' = IF msg_idx >= 0 THEN Len(msgs) ELSE msg_idx
  /\ pc' = IF "HDMIPHY" \in quirks THEN "out" ELSE "wait_idle"
  /\ UNCHANGED <<hw, quirks, drv, retry, msgs, expired, wire>>

(* A refused transfer is tried again, as a busy bus is. *)
Woken_Retry_Bug ==
  /\ pc = "woken"
  /\ ret' = msg_idx
  /\ pc' = IF msg_idx < 0 THEN "set_master"
           ELSE IF "HDMIPHY" \in quirks THEN "out" ELSE "wait_idle"
  /\ UNCHANGED <<hw, quirks, drv, retry, msgs, expired, wire>>

(* ret = i2c->msg_idx; a HDMIPHY bus is taken to be disabled already. *)
Woken ==
  /\ pc = "woken"
  /\ ret' = msg_idx
  /\ pc' = IF "HDMIPHY" \in quirks THEN "out" ELSE "wait_idle"
  /\ UNCHANGED <<hw, quirks, drv, retry, msgs, expired, wire>>

(* s3c24xx_i2c_wait_idle ends with the bus idle, or by its own timeout. *)
WaitIdle ==
  /\ pc = "wait_idle"
  /\ pc' = "disable_stat"
  /\ UNCHANGED <<hw, quirks, drv, retry, ret, msgs, expired, wire>>

(* s3c24xx_i2c_disable_bus: two registers, written one after the other.  The
   code reads a register before it writes it, and an interrupt can come in
   between.  The old value it then writes differs from the one here only in
   MASTER_RX and START: LASTBIT is read-only, and what the handler did to TXRXEN
   and to IICCON is undone in either case.  While TXRXEN is off the pins float,
   whatever these two are, and s3c24xx_i2c_message_start sets all three. *)
DisableBusStat ==
  /\ pc = "disable_stat"
  /\ stat' = stat \ {"TXRXEN"}
  /\ pc' = "disable_con"
  /\ UNCHANGED <<con, bus, shift, quirks, drv, retry, ret, msgs, expired, wire>>

DisableBusCon ==
  /\ pc = "disable_con"
  /\ con' = con \ {"IRQEN", "IRQPEND", "ACKEN"}
  /\ pc' = "out"
  /\ UNCHANGED <<stat, bus, shift, quirks, drv, retry, ret, msgs, expired, wire>>

(* The state is not reset. *)
Out_Bug ==
  /\ pc = "out"
  /\ pc' = "return"
  /\ UNCHANGED <<hw, quirks, drv, retry, ret, msgs, expired, wire>>

(* The label out of doxfer. *)
Out ==
  /\ pc = "out"
  /\ state' = "IDLE"
  /\ pc' = "return"
  /\ UNCHANGED <<hw, quirks, msg, msg_num, msg_idx, msg_ptr, retry, ret, msgs, expired, wire>>

(* clk_disable, and s3c24xx_i2c_xfer returns ret. *)
Return ==
  /\ pc = "return"
  /\ pc' = "idle"
  /\ UNCHANGED <<hw, quirks, drv, retry, ret, msgs, expired, wire>>

(* The steps of a call in hand, as opposed to the core making a call. *)
InXfer ==
  \/ SetMasterFree \/ SetMasterBusy \/ MessageStart \/ WaitEvent \/ Woken
  \/ WaitIdle \/ DisableBusStat \/ DisableBusCon \/ Out \/ Return

Hardware == AddrByteDone \/ TxByteDone \/ RxByteDone \/ StrayByteDone \/ BusRelease

Next == (\E t \in Transfers : Xfer(t)) \/ XferNoClock \/ InXfer \/ Irq \/ Hardware

(* The caller is scheduled: a thread that is not waiting runs, and a wait ends
   at the latest by its timeout.  Nothing is assumed of the controller, the
   slave, or the core. *)
Fairness == WF_vars(InXfer)

Spec == Init /\ [][Next]_vars /\ Fairness
===============================================================================
