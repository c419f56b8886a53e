--------------------------- MODULE S3c24xxI2cProofs ---------------------------
(***************************************************************************)
(* Proofs about the s3c24xx i2c driver, for every set of supported         *)
(* transfers, of any number and length of messages, and both kinds of bus. *)
(***************************************************************************)
EXTENDS S3c24xxI2cCorrect, TLAPS

Active == state \in {"START", "READ", "WRITE"}

(* The array in hand is one of the supported transfers; only the length of a
   block read can have changed, and never to less. *)
Shape ==
  /\ pc # "idle" => Len(msgs) > 0
  /\ \A m \in 1..Len(msgs) :
       /\ "RD" \in msgs[m].flags => m = Len(msgs) /\ "NOSTART" \notin msgs[m].flags
       /\ "RECV_LEN" \in msgs[m].flags => "RD" \in msgs[m].flags /\ msgs[m].len > 0

(* How the caller's place, the driver's state and its cursor fit together. *)
Control ==
  /\ state = "IDLE" <=> pc \in {"idle", "set_master", "return"}
  /\ Active => msg \in 1..Len(msgs) /\ msg_num = Len(msgs) /\ msg_idx = msg - 1
  /\ state = "START" => msg_ptr = 0
  /\ state = "WRITE" => "RD" \notin msgs[msg].flags /\ msg_ptr \in 1..msgs[msg].len
  /\ state = "READ" => "RD" \in msgs[msg].flags /\ msg_ptr < msgs[msg].len
  /\ state = "STOP" => "IRQEN" \notin con
  /\ pc = "set_master" => retry < Retries

(* An interrupt is pending only on a bus that is owned and driven, but for the
   moment between the two writes of disable_bus.  So a transfer that finds the
   bus free finds no interrupt left over from an earlier one. *)
Pend ==
  /\ pc = "message_start" => state = "START" /\ msg = 1 /\ bus = "idle"
  /\ "IRQPEND" \in con /\ pc \notin {"disable_con", "oops"} => bus = "owned" /\ "TXRXEN" \in stat

ControlInv == TypeOK /\ Shape /\ Control /\ Pend

-----------------------------------------------------------------------------
(* The byte in IICDS is the next one to be sent of the message it is of. *)
ShiftInv ==
  /\ shift.kind # "none" => Before(shift.msg)
  /\ shift.kind = "addr" => moved[shift.msg] = 0 /\ shift.msg \notin addressed
  /\ shift.kind = "data" => Begun(shift.msg) /\ moved[shift.msg] < msgs[shift.msg].len

(* Where the handler's cursor is, relative to what has been on the wire. *)
Cursor ==
  /\ Active =>
       /\ Before(msg)
       /\ \A j \in 1..Len(msgs) : j > msg => j \notin addressed /\ moved[j] = 0
  /\ state = "START" =>
       /\ moved[msg] = 0
       /\ shift \in {NoByte, AddrByte(msg)}
       /\ "IRQEN" \in con /\ pc # "message_start" =>
            (shift = NoByte <=> "IRQPEND" \in con)
       /\ "IRQEN" \in con /\ "IRQPEND" \in con => (Accepted <=> msg \in addressed)
  /\ state = "WRITE" =>
       /\ Begun(msg)
       /\ shift \in {NoByte, DataByte(msg)}
       /\ shift = DataByte(msg) => moved[msg] = msg_ptr - 1
       /\ "IRQEN" \in con => (shift = NoByte <=> "IRQPEND" \in con)
       /\ "IRQEN" \in con /\ "IRQPEND" \in con =>
            moved[msg] = IF Accepted THEN msg_ptr ELSE msg_ptr - 1
  /\ state = "READ" => Begun(msg) /\ shift = NoByte /\ moved[msg] = msg_ptr

(* Nothing is on the wire before the first START. *)
Fresh ==
  pc \in {"set_master", "message_start"} =>
    shift = NoByte /\ addressed = {} /\ \A m \in 1..Len(msgs) : moved[m] = 0

(* A count the handler or the caller holds is a count of finished messages. *)
Counts(n) == n <= Len(msgs) /\ Before(n + 1)

Result ==
  /\ state = "STOP" /\ msg_idx > 0 => Counts(msg_idx)
  /\ pc \in {"wait_idle", "disable_stat", "disable_con", "out", "return", "idle"} /\ ret > 0
       => Counts(ret)

WireInv ==
  /\ ShiftInv /\ Cursor /\ Fresh /\ Result
  /\ WireOrder
  /\ \A m \in 1..Len(msgs) : moved[m] <= msgs[m].len

-----------------------------------------------------------------------------
(* Control. *)

(* The messages of an array have flags and a length. *)
LEMMA MsgAt ==
  ASSUME NEW s \in Seq(Msg), NEW m \in 1..Len(s)
  PROVE  s[m] \in Msg /\ s[m].flags \subseteq Flags /\ s[m].len \in Nat
<1>1. s[m] \in Msg  OBVIOUS
<1>2. QED BY <1>1 DEF Msg

(* A byte in IICDS is of a message of the array. *)
LEMMA ShiftMsg ==
  ASSUME TypeOK, shift.kind # "none"
  PROVE  /\ shift.msg \in 1..Len(msgs) /\ Len(msgs) \in Nat
         /\ msgs[shift.msg].len \in Nat /\ moved \in [1..Len(msgs) -> Nat]
<1>1. shift.msg \in 1..Len(msgs) /\ msgs \in Seq(Msg) /\ moved \in [1..Len(msgs) -> Nat]
  BY DEF TypeOK, NoByte
<1>2. QED BY <1>1, MsgAt

(* Where the handler's cursor is. *)
LEMMA Position ==
  ASSUME ControlInv, Active
  PROVE  /\ msg \in 1..Len(msgs) /\ msg_num = Len(msgs) /\ msg_idx = msg - 1
         /\ Len(msgs) \in Nat /\ msg_ptr \in Nat /\ msgs[msg].len \in Nat
<1>1. /\ msg \in 1..Len(msgs) /\ msg_num = Len(msgs) /\ msg_idx = msg - 1
      /\ msg_ptr \in Nat /\ msgs \in Seq(Msg)
  BY DEF ControlInv, TypeOK, Control
<1>2. QED BY <1>1, MsgAt

(* A read is the last message. *)
LEMMA ReadIsLast ==
  ASSUME ControlInv, Active, "RD" \in msgs[msg].flags
  PROVE  msg = Len(msgs) /\ is_lastmsg(msg_idx)
<1>1. msg = Len(msgs)
  BY Position DEF ControlInv, Shape
<1>2. QED BY <1>1, Position DEF is_lastmsg

(* At the last message, is_lastmsg says so, and msg_idx is one below the count. *)
LEMMA LastMsg ==
  ASSUME ControlInv, Active, is_lastmsg(msg_idx)
  PROVE  msg = Len(msgs) /\ msg_idx + 1 = Len(msgs) /\ Len(msgs) \in Nat
  BY Position DEF is_lastmsg

(* What storing a byte does to the array and to the count of bytes moved: the
   current message keeps its flags, and a block read gets its real length. *)
LEMMA StoreByte ==
  ASSUME ControlInv, state = "READ", NEW byte \in BlockLens,
         msgs' = [msgs EXCEPT ![msg] = grown(msgs[msg], byte)],
         moved' = [moved EXCEPT ![msg] = @ + 1]
  PROVE  /\ msgs'[msg] = grown(msgs[msg], byte)
         /\ msgs'[msg].flags = msgs[msg].flags /\ msgs'[msg].len >= msgs[msg].len
         /\ msgs' \in Seq(Msg) /\ Len(msgs') = Len(msgs)
         /\ \A m \in 1..Len(msgs) : m # msg => msgs'[m] = msgs[m]
         /\ moved' \in [1..Len(msgs') -> Nat]
         /\ moved'[msg] = moved[msg] + 1
         /\ \A m \in 1..Len(msgs) : m # msg => moved'[m] = moved[m]
<1> DEFINE n == grown(msgs[msg], byte)
<1> USE DEF ControlInv
<1>1. msgs \in Seq(Msg) /\ msg \in 1..Len(msgs) /\ moved \in [1..Len(msgs) -> Nat]
  BY DEF TypeOK, Control, Active
<1>2. msgs[msg] \in Msg /\ msgs[msg].len \in Nat
  BY <1>1, MsgAt
<1>3. byte \in Nat
  BY BlockLensAssumption
<1>4. n \in Msg /\ n.flags = msgs[msg].flags /\ n.len >= msgs[msg].len
  BY <1>2, <1>3 DEF Msg, grown
<1> HIDE DEF n
<1>5. msgs' = [msgs EXCEPT ![msg] = n]
  BY DEF n
<1>6. msgs' \in Seq(Msg) /\ Len(msgs') = Len(msgs) /\ msgs'[msg] = n
  BY <1>1, <1>4, <1>5
<1>7. \A m \in 1..Len(msgs) : m # msg => msgs'[m] = msgs[m]
  BY <1>1, <1>5
<1>8. /\ moved' \in [1..Len(msgs') -> Nat]
      /\ moved'[msg] = moved[msg] + 1
      /\ \A m \in 1..Len(msgs) : m # msg => moved'[m] = moved[m]
  BY <1>1, <1>6
<1>9. QED BY <1>4, <1>6, <1>7, <1>8 DEF n

(* s3c24xx_i2c_stop keeps the types and the control, whatever it returns. *)
LEMMA StopControl ==
  ASSUME ControlInv, Active, IrqTaken, NEW r \in Int, NEW idx \in Int, stop(r, idx),
         UNCHANGED <<quirks, caller, msgs, expired, wire>>
  PROVE  ControlInv'
<1> USE DEF ControlInv, caller, wire
<1>1. TypeOK'
  <2>1. /\ con' \subseteq {"ACKEN", "IRQEN", "IRQPEND"}
        /\ stat' \subseteq {"TXRXEN", "MASTER_RX", "LASTBIT"}
        /\ bus' \in {"idle", "owned", "stopping"}
    BY DEF TypeOK, stop
  <2>2. /\ state' \in States
        /\ msg' \in Nat /\ msg_num' \in Nat /\ msg_idx' \in Int /\ msg_ptr' \in Nat
    BY DEF stop, master_complete, NULL, States
  <2>3. UNCHANGED <<shift, quirks, pc, retry, ret, msgs, expired, addressed, moved>>
    BY DEF stop
  <2>4. QED BY <2>1, <2>2, <2>3 DEF TypeOK
<1>2. Shape'
  BY DEF Shape
<1>3. Control'
  BY DEF TypeOK, Control, Active, stop
<1>4. Pend'
  <2>1. pc # "message_start"
    BY DEF Pend, IrqTaken
  <2>2. "IRQPEND" \notin con'
    BY DEF stop
  <2>3. QED BY <2>1, <2>2 DEF Pend
<1>5. QED BY <1>1, <1>2, <1>3, <1>4

(* Control holds before the first call. *)
LEMMA ControlInit == Init => ControlInv
<1> SUFFICES ASSUME Init PROVE ControlInv
    OBVIOUS
<1> USE DEF Init
<1>1. msgs \in Seq(Msg) /\ Len(msgs) = 0 /\ moved \in [1..Len(msgs) -> Nat]
  OBVIOUS
<1>2. TypeOK
  <2>1. /\ con \subseteq {"ACKEN", "IRQEN", "IRQPEND"}
        /\ stat \subseteq {"TXRXEN", "MASTER_RX", "LASTBIT"}
        /\ addressed \subseteq 1..Len(msgs)
    OBVIOUS
  <2>2. bus \in {"idle", "owned", "stopping"} /\ state \in States /\ pc \in Labels
    BY DEF States, Labels
  <2>3. retry \in 0..Retries /\ ret \in Int
    BY RetriesAssumption
  <2>4. msg \in Nat /\ msg_num \in Nat /\ msg_idx \in Int /\ msg_ptr \in Nat
    BY DEF NULL
  <2>5. quirks \in QuirkSets /\ expired \in BOOLEAN /\ shift \in {NoByte}
    OBVIOUS
  <2>6. QED BY <1>1, <2>1, <2>2, <2>3, <2>4, <2>5 DEF TypeOK
<1>3. Shape   BY <1>1 DEF Shape
<1>4. Control BY DEF Control, Active
<1>5. Pend    BY DEF Pend
<1>6. QED BY <1>2, <1>3, <1>4, <1>5 DEF ControlInv

(* Every step of the caller, the handler and the controller keeps control. *)
LEMMA ControlStep == ControlInv /\ [Next]_vars => ControlInv'
<1> SUFFICES ASSUME ControlInv, [Next]_vars PROVE ControlInv'
    OBVIOUS
<1> USE DEF ControlInv, hw, drv, caller, wire
<1>1. CASE AddrByteDone
  <2> USE <1>1 DEF AddrByteDone
  <2>1. shift.msg \in 1..Len(msgs)
    BY DEF TypeOK, NoByte
  <2>2. addressed' \subseteq 1..Len(msgs)
    BY <2>1 DEF TypeOK
  <2>3. TypeOK'  BY <2>2 DEF TypeOK, ByteDone
  <2>4. Shape'   BY DEF Shape, ByteDone
  <2>5. Control' BY DEF Control, Active, ByteDone
  <2>6. Pend'    BY DEF Pend, ByteDone, Clocking
  <2>7. QED BY <2>3, <2>4, <2>5, <2>6
<1>2. CASE TxByteDone
  <2>1. TypeOK'  BY <1>2 DEF TypeOK, TxByteDone, Clocking, Running, ByteDone, NoByte
  <2>2. Shape'   BY <1>2 DEF TypeOK, Shape, TxByteDone, ByteDone
  <2>3. Control' BY <1>2 DEF TypeOK, Shape, Control, Active, TxByteDone, Clocking, Running,
                    ByteDone, NoByte
  <2>4. Pend'    BY <1>2 DEF TypeOK, Control, Pend, Active, TxByteDone, Clocking, Running,
                    ByteDone, NoByte
  <2>5. QED BY <2>1, <2>2, <2>3, <2>4
<1>3. CASE RxByteDone
  <2>1. TypeOK'  BY <1>3 DEF TypeOK, RxByteDone, Clocking, Running, ByteDone, NoByte
  <2>2. Shape'   BY <1>3 DEF TypeOK, Shape, RxByteDone, ByteDone
  <2>3. Control' BY <1>3 DEF TypeOK, Shape, Control, Active, RxByteDone, Clocking, Running,
                    ByteDone, NoByte
  <2>4. Pend'    BY <1>3 DEF TypeOK, Control, Pend, Active, RxByteDone, Clocking, Running,
                    ByteDone, NoByte
  <2>5. QED BY <2>1, <2>2, <2>3, <2>4
<1>4. CASE StrayByteDone
  <2>1. TypeOK'  BY <1>4 DEF TypeOK, StrayByteDone, Clocking, Running, ByteDone, NoByte
  <2>2. Shape'   BY <1>4 DEF TypeOK, Shape, StrayByteDone, ByteDone
  <2>3. Control' BY <1>4 DEF TypeOK, Shape, Control, Active, StrayByteDone, Clocking, Running,
                    ByteDone, NoByte
  <2>4. Pend'    BY <1>4 DEF TypeOK, Control, Pend, Active, StrayByteDone, Clocking, Running,
                    ByteDone, NoByte
  <2>5. QED BY <2>1, <2>2, <2>3, <2>4
<1>5. CASE BusRelease
  <2>1. TypeOK'  BY <1>5 DEF TypeOK, BusRelease
  <2>2. Shape'   BY <1>5 DEF TypeOK, Shape, BusRelease
  <2>3. Control' BY <1>5 DEF TypeOK, Shape, Control, Active, BusRelease
  <2>4. Pend'    BY <1>5 DEF TypeOK, Control, Pend, Active, BusRelease
  <2>5. QED BY <2>1, <2>2, <2>3, <2>4
<1>6. CASE IrqIdleOrStop
  <2>1. TypeOK'  BY <1>6 DEF TypeOK, IrqIdleOrStop
  <2>2. Shape'   BY <1>6 DEF TypeOK, Shape, IrqIdleOrStop
  <2>3. Control' BY <1>6 DEF TypeOK, Shape, Control, Active, IrqIdleOrStop
  <2>4. Pend'    BY <1>6 DEF TypeOK, Control, Pend, Active, IrqIdleOrStop, IrqTaken
  <2>5. QED BY <2>1, <2>2, <2>3, <2>4
<1>7. CASE IrqStartRefused
  <2>1. -ENXIO \in Int /\ msg_idx \in Int
    BY DEF TypeOK, ENXIO, ECONNREFUSED
  <2>2. QED BY <1>7, <2>1, StopControl DEF Active, IrqStartRefused
<1>8. CASE IrqStartEmpty
  <2>1. 0 \in Int /\ msg_idx \in Int
    BY DEF TypeOK, ENXIO, ECONNREFUSED
  <2>2. QED BY <1>8, <2>1, StopControl DEF Active, IrqStartEmpty
<1>9. CASE IrqWriteRefused
  <2>1. -ECONNREFUSED \in Int /\ msg_idx \in Int
    BY DEF TypeOK, ENXIO, ECONNREFUSED
  <2>2. QED BY <1>9, <2>1, StopControl DEF Active, IrqWriteRefused
<1>10. CASE IrqWriteStop
  <2>1. 0 \in Int /\ msg_idx \in Int
    BY DEF TypeOK, ENXIO, ECONNREFUSED
  <2>2. QED BY <1>10, <2>1, StopControl DEF Active, IrqWriteStop, RetryWrite
<1>11. CASE IrqStartRead
  <2> USE <1>11 DEF IrqStartRead
  <2>1. /\ Active /\ pc # "message_start" /\ msg_ptr = 0 /\ "RD" \in msgs[msg].flags
        /\ msgs[msg].len \in Nat /\ msg \in 1..Len(msgs) /\ is_lastmsg(msg_idx)
    BY MsgAt DEF TypeOK, Shape, Control, Pend, Active, IrqTaken, is_lastmsg
  <2>2. msgs[msg].len > 0
    BY <2>1 DEF NothingToDo
  <2>3. /\ con' \in {con \ {"IRQPEND"}, con \ {"IRQPEND", "ACKEN"}}
        /\ state' = "READ" /\ msg_ptr' = 0
        /\ UNCHANGED <<stat, bus, shift, msg, msg_num, msg_idx>>
    BY <2>1, <2>2 DEF prepare_read, is_msgend
  <2>4. TypeOK'  BY <2>3 DEF TypeOK, States
  <2>5. Shape'   BY DEF Shape
  <2>6. Control' BY <2>1, <2>2, <2>3 DEF Control, Active
  <2>7. Pend'    BY <2>1, <2>3 DEF Pend
  <2>8. QED BY <2>4, <2>5, <2>6, <2>7
<1>12. CASE IrqRead
  <2> USE <1>12 DEF IrqRead
  <2>1. PICK byte \in BlockLens :
          /\ msgs' = [msgs EXCEPT ![msg] = grown(msgs[msg], byte)]
          /\ prepare_read(grown(msgs[msg], byte), msg_ptr + 1)
    OBVIOUS
  <2> DEFINE n == grown(msgs[msg], byte)
  <2>2. /\ msgs'[msg] = n /\ n.flags = msgs[msg].flags /\ n.len >= msgs[msg].len
        /\ msgs' \in Seq(Msg) /\ Len(msgs') = Len(msgs)
        /\ \A m \in 1..Len(msgs) : m # msg => msgs'[m] = msgs[m]
        /\ moved' \in [1..Len(msgs') -> Nat]
    BY <2>1, StoreByte
  <2>3. /\ Active /\ pc \notin {"idle", "set_master", "return", "message_start"}
        /\ "RD" \in msgs[msg].flags /\ msg_ptr \in Nat
        /\ msgs[msg].len \in Nat /\ msg \in 1..Len(msgs) /\ is_lastmsg(msg_idx)
        /\ msg_ptr < msgs[msg].len
    BY MsgAt DEF TypeOK, Shape, Control, Pend, Active, IrqTaken, is_lastmsg
  <2>4. n.len \in Nat
    BY <2>2, <2>3, MsgAt
  <2> HIDE DEF n
  <2>5. \/ /\ con' \in {con \ {"IRQPEND"}, con \ {"IRQPEND", "ACKEN"}}
           /\ state' = "READ" /\ msg_ptr' = msg_ptr + 1 /\ msg_ptr + 1 < n.len
           /\ UNCHANGED <<stat, bus, shift, msg, msg_num, msg_idx>>
        \/ stop(0, msg_idx)
    <3>1. prepare_read(n, msg_ptr + 1)
      BY <2>1 DEF n
    <3>2. QED BY <2>3, <2>4, <3>1 DEF prepare_read, is_msgend, is_msglast
  <2>6. Shape'
    <3>1. pc' = pc /\ Len(msgs') = Len(msgs)
      BY <2>2
    <3>2. ASSUME NEW m \in 1..Len(msgs)
          PROVE  /\ msgs'[m].flags = msgs[m].flags
                 /\ "RECV_LEN" \in msgs[m].flags /\ msgs[m].len > 0 => msgs'[m].len > 0
      BY <2>2, <2>3, <2>4
    <3>3. QED BY <3>1, <3>2 DEF Shape
  <2>7. CASE stop(0, msg_idx)
    <3>1. /\ con' \subseteq {"ACKEN", "IRQEN"}
          /\ stat' \subseteq {"TXRXEN", "MASTER_RX", "LASTBIT"}
          /\ bus' \in {"idle", "owned", "stopping"}
      BY <2>7 DEF TypeOK, stop
    <3>2. /\ state' = "STOP" /\ "IRQEN" \notin con'
          /\ msg' \in Nat /\ msg_num' \in Nat /\ msg_idx' \in Int /\ msg_ptr' \in Nat
          /\ UNCHANGED shift
      BY <2>7 DEF TypeOK, stop, master_complete, NULL
    <3>3. TypeOK'  BY <2>2, <3>1, <3>2 DEF TypeOK, States
    <3>4. Control' BY <2>3, <3>2 DEF Control, Active
    <3>5. Pend'    BY <2>3, <3>1 DEF Pend
    <3>6. QED BY <2>6, <3>3, <3>4, <3>5
  <2>8. CASE ~stop(0, msg_idx)
    <3>1. con' \subseteq con /\ msg_ptr' \in Nat
      BY <2>3, <2>5, <2>8
    <3>2. TypeOK'  BY <2>2, <2>5, <2>8, <3>1 DEF TypeOK, States
    <3>3. Control' BY <2>2, <2>3, <2>5, <2>8 DEF Control, Active
    <3>4. Pend'    BY <2>3, <2>5, <2>8 DEF Pend
    <3>5. QED BY <2>6, <3>2, <3>3, <3>4
  <2>9. QED BY <2>7, <2>8
<1>13. CASE IrqWriteByte
  <2> USE <1>13 DEF IrqWriteByte, RetryWrite
  <2>1. /\ Active /\ pc # "message_start" /\ msg \in 1..Len(msgs) /\ "RD" \notin msgs[msg].flags
        /\ msg_ptr \in Nat /\ msgs[msg].len \in Nat /\ msg_ptr < msgs[msg].len
    BY MsgAt DEF TypeOK, Control, Pend, Active, IrqTaken, is_msgend
  <2>2. TypeOK'  BY <2>1 DEF TypeOK, States, DataByte
  <2>3. Shape'   BY DEF Shape
  <2>4. Control' BY <2>1 DEF Control, Active
  <2>5. Pend'    BY <2>1 DEF Pend
  <2>6. QED BY <2>2, <2>3, <2>4, <2>5
<1>14. CASE IrqWriteNext
  <2> USE <1>14 DEF IrqWriteNext, RetryWrite
  <2>1. PICK j \in (msg + 1)..Len(msgs) : next_message(j)
    OBVIOUS
  <2>2. /\ Active /\ pc # "message_start" /\ msg \in 1..Len(msgs) /\ msg_num = Len(msgs)
        /\ pc \notin {"idle", "set_master", "return"}
        /\ j \in 1..Len(msgs) /\ j - 1 \in Int /\ msgs[j].len \in Nat
        /\ msgs \in Seq(Msg)
    BY MsgAt DEF TypeOK, Control, Pend, Active, IrqTaken
  <2>3. CASE "NOSTART" \notin msgs[j].flags
    <3>1. /\ message_start(j)
          /\ con' = (con \cup {"ACKEN"}) \ {"IRQPEND"}
          /\ state' = "START" /\ msg' = j /\ msg_idx' = j - 1 /\ msg_ptr' = 0
          /\ UNCHANGED <<msg_num, pc>>
      BY <2>1, <2>3 DEF next_message
    <3>2. TypeOK'  BY <2>2, <3>1 DEF TypeOK, States, message_start, AddrByte
    <3>3. Shape'   BY <3>1 DEF Shape
    <3>4. Control' BY <2>2, <3>1 DEF Control, Active
    <3>5. Pend'    BY <2>2, <3>1 DEF Pend
    <3>6. QED BY <3>2, <3>3, <3>4, <3>5
  <2>4. CASE "NOSTART" \in msgs[j].flags /\ msgs[j].len > 0
    <3>1. "RD" \notin msgs[j].flags
      BY <2>2, <2>4 DEF Shape
    <3>2. /\ shift' = DataByte(j)
          /\ con' = con \ {"IRQPEND"}
          /\ state' = "WRITE" /\ msg' = j /\ msg_idx' = j - 1 /\ msg_ptr' = 1
          /\ UNCHANGED <<stat, bus, msg_num, pc>>
      BY <2>1, <2>2, <2>4, <3>1 DEF next_message
    <3>3. TypeOK'  BY <2>2, <3>2 DEF TypeOK, States, DataByte
    <3>4. Shape'   BY <3>2 DEF Shape
    <3>5. Control' BY <2>2, <2>4, <3>1, <3>2 DEF Control, Active
    <3>6. Pend'    BY <2>2, <3>2 DEF Pend
    <3>7. QED BY <3>3, <3>4, <3>5, <3>6
  <2>5. CASE "NOSTART" \in msgs[j].flags /\ msgs[j].len = 0
    <3>1. "RD" \notin msgs[j].flags
      BY <2>2, <2>5 DEF Shape
    <3>2. stop(0, j - 1) /\ UNCHANGED pc
      BY <2>1, <2>5, <3>1 DEF next_message
    <3>3. QED BY <2>2, <3>2, StopControl
  <2>6. QED BY <2>2, <2>3, <2>4, <2>5
<1>15. CASE XferNoClock
  <2>1. TypeOK'  BY <1>15 DEF TypeOK, XferNoClock, EIO
  <2>2. Shape'   BY <1>15 DEF TypeOK, Shape, XferNoClock
  <2>3. Control' BY <1>15 DEF TypeOK, Shape, Control, Active, XferNoClock
  <2>4. Pend'    BY <1>15 DEF TypeOK, Control, Pend, Active, XferNoClock
  <2>5. QED BY <2>1, <2>2, <2>3, <2>4
<1>16. CASE SetMasterFree
  <2>1. TypeOK'  BY <1>16 DEF TypeOK, SetMasterFree, States, Labels
  <2>2. Shape'   BY <1>16 DEF TypeOK, Shape, SetMasterFree
  <2>3. Control' BY <1>16 DEF TypeOK, Shape, Control, Active, SetMasterFree
  <2>4. Pend'    BY <1>16 DEF TypeOK, Control, Pend, Active, SetMasterFree
  <2>5. QED BY <2>1, <2>2, <2>3, <2>4
<1>17. CASE SetMasterBusy
  <2>1. TypeOK'  BY <1>17, RetriesAssumption DEF TypeOK, SetMasterBusy, Control, EREMOTEIO,
                    Labels
  <2>2. Shape'   BY <1>17 DEF TypeOK, Shape, SetMasterBusy
  <2>3. Control' BY <1>17, RetriesAssumption DEF TypeOK, Shape, Control, Active, SetMasterBusy
  <2>4. Pend'    BY <1>17 DEF TypeOK, Control, Pend, Active, SetMasterBusy
  <2>5. QED BY <2>1, <2>2, <2>3, <2>4
<1>18. CASE MessageStart
  <2>1. TypeOK'  BY <1>18 DEF TypeOK, Shape, MessageStart, message_start, AddrByte, Labels
  <2>2. Shape'   BY <1>18 DEF Shape, MessageStart
  <2>3. Control' BY <1>18 DEF Control, Active, MessageStart
  <2>4. Pend'    BY <1>18 DEF Pend, MessageStart, message_start
  <2>5. QED BY <2>1, <2>2, <2>3, <2>4
<1>19. CASE WaitEvent
  <2>1. TypeOK'  BY <1>19 DEF TypeOK, WaitEvent, Labels
  <2>2. Shape'   BY <1>19 DEF TypeOK, Shape, WaitEvent
  <2>3. Control' BY <1>19 DEF TypeOK, Shape, Control, Active, WaitEvent
  <2>4. Pend'    BY <1>19 DEF TypeOK, Control, Pend, Active, WaitEvent
  <2>5. QED BY <2>1, <2>2, <2>3, <2>4
<1>20. CASE Woken
  <2>1. TypeOK'  BY <1>20 DEF TypeOK, Woken, Labels
  <2>2. Shape'   BY <1>20 DEF TypeOK, Shape, Woken
  <2>3. Control' BY <1>20 DEF TypeOK, Shape, Control, Active, Woken
  <2>4. Pend'    BY <1>20 DEF TypeOK, Control, Pend, Active, Woken
  <2>5. QED BY <2>1, <2>2, <2>3, <2>4
<1>21. CASE WaitIdle
  <2>1. TypeOK'  BY <1>21 DEF TypeOK, WaitIdle, Labels
  <2>2. Shape'   BY <1>21 DEF TypeOK, Shape, WaitIdle
  <2>3. Control' BY <1>21 DEF TypeOK, Shape, Control, Active, WaitIdle
  <2>4. Pend'    BY <1>21 DEF TypeOK, Control, Pend, Active, WaitIdle
  <2>5. QED BY <2>1, <2>2, <2>3, <2>4
<1>22. CASE DisableBusStat
  <2>1. TypeOK'  BY <1>22 DEF TypeOK, DisableBusStat, Labels
  <2>2. Shape'   BY <1>22 DEF TypeOK, Shape, DisableBusStat
  <2>3. Control' BY <1>22 DEF TypeOK, Shape, Control, Active, DisableBusStat
  <2>4. Pend'    BY <1>22 DEF TypeOK, Control, Pend, Active, DisableBusStat
  <2>5. QED BY <2>1, <2>2, <2>3, <2>4
<1>23. CASE DisableBusCon
  <2>1. TypeOK'  BY <1>23 DEF TypeOK, DisableBusCon, Labels
  <2>2. Shape'   BY <1>23 DEF TypeOK, Shape, DisableBusCon
  <2>3. Control' BY <1>23 DEF TypeOK, Shape, Control, Active, DisableBusCon
  <2>4. Pend'    BY <1>23 DEF TypeOK, Control, Pend, Active, DisableBusCon
  <2>5. QED BY <2>1, <2>2, <2>3, <2>4
<1>24. CASE Out
  <2>1. TypeOK'  BY <1>24 DEF TypeOK, Out, Labels, States
  <2>2. Shape'   BY <1>24 DEF TypeOK, Shape, Out
  <2>3. Control' BY <1>24 DEF TypeOK, Shape, Control, Active, Out
  <2>4. Pend'    BY <1>24 DEF TypeOK, Control, Pend, Active, Out
  <2>5. QED BY <2>1, <2>2, <2>3, <2>4
<1>25. CASE Return
  <2>1. TypeOK'  BY <1>25 DEF TypeOK, Return, Labels
  <2>2. Shape'   BY <1>25 DEF TypeOK, Shape, Return
  <2>3. Control' BY <1>25 DEF TypeOK, Shape, Control, Active, Return
  <2>4. Pend'    BY <1>25 DEF TypeOK, Control, Pend, Active, Return
  <2>5. QED BY <2>1, <2>2, <2>3, <2>4
<1>26. ASSUME NEW t \in Transfers, Xfer(t) PROVE ControlInv'
  <2> USE <1>26 DEF Xfer
  <2>1. Supported(t)
    BY TransfersAssumption
  <2>2. TypeOK'  BY <2>1, RetriesAssumption DEF TypeOK, Labels, Supported
  <2>3. Shape'   BY <2>1 DEF Shape, Supported
  <2>4. Control' BY RetriesAssumption DEF Control, Active
  <2>5. Pend'    BY DEF Control, Pend
  <2>6. QED BY <2>2, <2>3, <2>4, <2>5
<1>27. CASE UNCHANGED vars
  BY <1>27 DEF vars, TypeOK, Shape, Control, Pend, Active
<1>28. CASE IrqReadOverruns
  <2>1. TypeOK'  BY <1>28 DEF TypeOK, IrqReadOverruns, Labels
  <2>2. Shape'   BY <1>28 DEF Shape, IrqReadOverruns, IrqTaken, Running
  <2>3. Control' BY <1>28 DEF Control, Active, IrqReadOverruns
  <2>4. Pend'    BY <1>28 DEF Pend, IrqReadOverruns
  <2>5. QED BY <2>1, <2>2, <2>3, <2>4
<1>29. QED
  BY <1>1, <1>2, <1>3, <1>4, <1>5, <1>6, <1>7, <1>8, <1>9, <1>10, <1>11, <1>12, <1>13, <1>14,
     <1>15, <1>16, <1>17, <1>18, <1>19, <1>20, <1>21, <1>22, <1>23, <1>24, <1>25, <1>26, <1>27,
     <1>28
     DEF Next, InXfer, Irq, Hardware

(* The types, the shape of the transfer in hand and the control are invariant. *)
THEOREM ControlInvariant == Spec => []ControlInv
<1>1. QED BY ControlInit, ControlStep, PTL DEF Spec

-----------------------------------------------------------------------------
(* The wire. *)

(* Nothing has been on the wire before the first call. *)
LEMMA WireInit == Init => WireInv
  BY DEF Init, WireInv, ShiftInv, Cursor, Active, Fresh, Result, WireOrder, NoByte

(* The handler finds no byte in IICDS that has yet to go. *)
LEMMA StopsBetweenBytes ==
  ASSUME ControlInv, WireInv, Active, IrqTaken
  PROVE  shift = NoByte
<1>1. pc # "message_start" /\ "IRQEN" \in con /\ "IRQPEND" \in con
  BY DEF ControlInv, Pend, IrqTaken
<1>2. QED BY <1>1 DEF Active, WireInv, Cursor

(* At retry_write with nothing left to write, the current message is finished. *)
LEMMA WriteEnd ==
  ASSUME ControlInv, WireInv, RetryWrite, is_msgend(msgs[msg], msg_ptr)
  PROVE  /\ Active /\ msg \in 1..Len(msgs) /\ msg_num = Len(msgs) /\ msg_idx = msg - 1
         /\ Complete(msg) /\ Before(msg + 1)
<1> USE DEF ControlInv, WireInv, RetryWrite
<1>1. /\ Active /\ msg \in 1..Len(msgs) /\ msg_num = Len(msgs) /\ msg_idx = msg - 1
      /\ msg_ptr \in Nat /\ msgs[msg].len \in Nat /\ msg_ptr >= msgs[msg].len
      /\ "IRQEN" \in con /\ "IRQPEND" \in con
  BY Position DEF Active, IrqTaken, is_msgend
<1>2. Begun(msg) /\ moved[msg] = msg_ptr
  BY <1>1 DEF Control, Cursor, Begun
<1>3. msg_ptr = msgs[msg].len
  BY <1>1 DEF Control
<1>4. Complete(msg)
  BY <1>2, <1>3 DEF Complete
<1>5. Before(msg)
  BY <1>1 DEF Cursor
<1>6. QED BY <1>1, <1>4, <1>5 DEF Before

(* Every step keeps the cursor and what has been on the wire in agreement. *)
LEMMA WireStep == ControlInv /\ ControlInv' /\ WireInv /\ [Next]_vars => WireInv'
<1> SUFFICES ASSUME ControlInv, ControlInv', WireInv, [Next]_vars PROVE WireInv'
    OBVIOUS
<1> USE DEF ControlInv, WireInv, hw, drv, caller, wire
<1>1. CASE AddrByteDone
  <2> USE <1>1 DEF AddrByteDone
  <2> DEFINE k == shift.msg
  <2>1. k \in 1..Len(msgs) /\ Before(k) /\ moved[k] = 0 /\ k \notin addressed
    BY ShiftMsg DEF ShiftInv
  <2>2. /\ addressed' \in {addressed, addressed \cup {k}}
        /\ shift' = NoByte /\ UNCHANGED <<moved, msgs, drv, pc, ret>>
    BY DEF ByteDone
  <2>3. \A m \in 1..Len(msgs) : (Begun(m) => Begun(m)') /\ (Complete(m) => Complete(m)')
    BY <2>2 DEF Begun, Complete
  <2>4. ShiftInv'
    BY <2>2 DEF ShiftInv, NoByte
  <2>5. Cursor'
    BY <2>1, <2>2, <2>3 DEF TypeOK, Control, Pend, Active, Cursor, Before, Accepted, Answers,
                            Clocking, ByteDone, NoByte, AddrByte, DataByte
  <2>6. Fresh'
    BY <2>2 DEF Fresh, NoByte
  <2>7. Result'
    BY <2>2, <2>3 DEF Result, Counts, Before
  <2>8. WireOrder' /\ \A m \in 1..Len(msgs') : moved'[m] <= msgs'[m].len
    BY <2>1, <2>2, <2>3 DEF WireOrder, Before
  <2>9. QED BY <2>4, <2>5, <2>6, <2>7, <2>8
<1>2. CASE TxByteDone
  <2> USE <1>2 DEF TxByteDone
  <2> DEFINE k == shift.msg
  <2>1. /\ k \in 1..Len(msgs) /\ Before(k) /\ Begun(k)
        /\ moved \in [1..Len(msgs) -> Nat]
        /\ moved[k] < msgs[k].len /\ msgs[k].len \in Nat
    BY ShiftMsg DEF ShiftInv
  <2>2. /\ moved' \in {moved, [moved EXCEPT ![k] = @ + 1]}
        /\ shift' = NoByte /\ UNCHANGED <<addressed, msgs, drv, pc, ret>>
    BY DEF ByteDone
  <2>3. /\ \A m \in 1..Len(msgs) : m # k => moved'[m] = moved[m]
        /\ moved'[k] \in {moved[k], moved[k] + 1}
    BY <2>1, <2>2
  <2>4. \A m \in 1..Len(msgs) : (Begun(m)' <=> Begun(m)) /\ (Complete(m) => Complete(m)')
    BY <2>1, <2>2, <2>3 DEF Begun, Complete
  <2>5. ShiftInv'
    BY <2>2 DEF ShiftInv, NoByte
  <2>6. Cursor'
    BY <2>1, <2>2, <2>3, <2>4 DEF TypeOK, Control, Pend, Active, Cursor, Before, Accepted,
       Answers,
                            Clocking, ByteDone, NoByte, AddrByte, DataByte
  <2>7. Fresh'
    BY <2>2 DEF Fresh, NoByte
  <2>8. Result'
    BY <2>2, <2>4 DEF Result, Counts, Before
  <2>9. WireOrder'
    <3> SUFFICES ASSUME NEW m \in 1..Len(msgs)
                 PROVE  /\ m \in addressed \/ moved'[m] > 0 =>
                             \A j \in 1..Len(msgs) : j < m => Complete(j)'
                        /\ moved'[m] > 0 => Begun(m)'
      BY <2>2 DEF WireOrder, Before
    <3>1. CASE m = k
      BY <2>1, <2>4, <3>1 DEF Before
    <3>2. CASE m # k
      BY <2>1, <2>3, <2>4, <3>2 DEF WireOrder, Before
    <3>3. QED BY <3>1, <3>2
  <2>10. \A m \in 1..Len(msgs') : moved'[m] <= msgs'[m].len
    BY <2>1, <2>2, <2>3
  <2>11. QED BY <2>5, <2>6, <2>7, <2>8, <2>9, <2>10
<1>3. CASE RxByteDone
  <2>1. ShiftInv' BY <1>3 DEF ShiftInv, Before, Complete, Begun, RxByteDone, Clocking,
                     ByteDone, NoByte, AddrByte, DataByte
  <2>2. Cursor'   BY <1>3 DEF Control, Pend, Active, Cursor, Before, Complete, Begun,
                     Accepted, RxByteDone, Clocking, ByteDone, NoByte, AddrByte, DataByte
  <2>3. Fresh'    BY <1>3 DEF Pend, Fresh, RxByteDone, Clocking, ByteDone, NoByte, AddrByte,
                     DataByte
  <2>4. Result'   BY <1>3 DEF TypeOK, Control, Result, Counts, Before, Complete, Begun,
                     RxByteDone, ByteDone
  <2>5. WireOrder' /\ \A m \in 1..Len(msgs') : moved'[m] <= msgs'[m].len
    BY <1>3 DEF WireOrder, Before, Complete, Begun, RxByteDone, ByteDone
  <2>6. QED BY <2>1, <2>2, <2>3, <2>4, <2>5
<1>4. CASE StrayByteDone
  <2>1. ShiftInv' BY <1>4 DEF ShiftInv, Before, Complete, Begun, StrayByteDone, Clocking,
                     ByteDone, NoByte, AddrByte, DataByte
  <2>2. Cursor'   BY <1>4 DEF Control, Pend, Active, Cursor, Before, Complete, Begun,
                     Accepted, StrayByteDone, Clocking, ByteDone, NoByte, AddrByte, DataByte
  <2>3. Fresh'    BY <1>4 DEF Pend, Fresh, StrayByteDone, Clocking, ByteDone, NoByte,
                     AddrByte, DataByte
  <2>4. Result'   BY <1>4 DEF TypeOK, Control, Result, Counts, Before, Complete, Begun,
                     StrayByteDone, ByteDone
  <2>5. WireOrder' /\ \A m \in 1..Len(msgs') : moved'[m] <= msgs'[m].len
    BY <1>4 DEF WireOrder, Before, Complete, Begun, StrayByteDone, ByteDone
  <2>6. QED BY <2>1, <2>2, <2>3, <2>4, <2>5
<1>5. CASE BusRelease
  <2>1. ShiftInv' BY <1>5 DEF ShiftInv, Before, Complete, Begun, BusRelease
  <2>2. Cursor'   BY <1>5 DEF Control, Pend, Active, Cursor, Before, Complete, Begun,
                     Accepted, BusRelease
  <2>3. Fresh'    BY <1>5 DEF Pend, Fresh, BusRelease
  <2>4. Result'   BY <1>5 DEF TypeOK, Control, Result, Counts, Before, Complete, Begun,
                     BusRelease
  <2>5. WireOrder' /\ \A m \in 1..Len(msgs') : moved'[m] <= msgs'[m].len
    BY <1>5 DEF WireOrder, Before, Complete, Begun, BusRelease
  <2>6. QED BY <2>1, <2>2, <2>3, <2>4, <2>5
<1>6. CASE IrqIdleOrStop
  <2>1. ShiftInv' BY <1>6 DEF ShiftInv, Before, Complete, Begun, IrqIdleOrStop
  <2>2. Cursor'   BY <1>6 DEF Control, Pend, Active, Cursor, Before, Complete, Begun,
                     Accepted, IrqIdleOrStop, IrqTaken
  <2>3. Fresh'    BY <1>6 DEF Pend, Fresh, IrqIdleOrStop
  <2>4. Result'   BY <1>6 DEF TypeOK, Control, Result, Counts, Before, Complete, Begun,
                     IrqIdleOrStop
  <2>5. WireOrder' /\ \A m \in 1..Len(msgs') : moved'[m] <= msgs'[m].len
    BY <1>6 DEF WireOrder, Before, Complete, Begun, IrqIdleOrStop
  <2>6. QED BY <2>1, <2>2, <2>3, <2>4, <2>5
<1>7. CASE IrqStartRefused
  <2>1. ShiftInv' BY <1>7 DEF ShiftInv, Before, Complete, Begun, IrqStartRefused, stop
  <2>2. Cursor'   BY <1>7 DEF Control, Pend, Active, Cursor, Before, Complete, Begun,
                     Accepted, IrqStartRefused, stop
  <2>3. Fresh'    BY <1>7 DEF Pend, Fresh, IrqStartRefused, stop, IrqTaken
  <2>4. Result'   BY <1>7 DEF TypeOK, Control, Result, Counts, Before, Complete, Begun,
                     IrqStartRefused, stop, master_complete, ENXIO
  <2>5. WireOrder' /\ \A m \in 1..Len(msgs') : moved'[m] <= msgs'[m].len
    BY <1>7 DEF WireOrder, Before, Complete, Begun, IrqStartRefused, stop, master_complete,
       ENXIO
  <2>6. QED BY <2>1, <2>2, <2>3, <2>4, <2>5
<1>8. CASE IrqWriteRefused
  <2>1. ShiftInv' BY <1>8 DEF ShiftInv, Before, Complete, Begun, IrqWriteRefused, stop
  <2>2. Cursor'   BY <1>8 DEF Control, Pend, Active, Cursor, Before, Complete, Begun,
                     Accepted, IrqWriteRefused, stop
  <2>3. Fresh'    BY <1>8 DEF Pend, Fresh, IrqWriteRefused, stop, IrqTaken
  <2>4. Result'   BY <1>8 DEF TypeOK, Control, Result, Counts, Before, Complete, Begun,
                     IrqWriteRefused, stop, master_complete, ECONNREFUSED
  <2>5. WireOrder' /\ \A m \in 1..Len(msgs') : moved'[m] <= msgs'[m].len
    BY <1>8 DEF WireOrder, Before, Complete, Begun, IrqWriteRefused, stop, master_complete,
       ECONNREFUSED
  <2>6. QED BY <2>1, <2>2, <2>3, <2>4, <2>5
<1>9. CASE IrqStartEmpty
  <2> USE <1>9 DEF IrqStartEmpty, stop
  <2>1. /\ msg \in 1..Len(msgs) /\ msg_idx = msg - 1 /\ msg = Len(msgs)
        /\ "IRQEN" \in con /\ "IRQPEND" \in con /\ pc # "message_start"
    BY DEF TypeOK, Control, Pend, Active, IrqTaken, NothingToDo, is_lastmsg
  <2>2. Complete(msg)
    BY <2>1 DEF Cursor, NothingToDo, Complete, Begun
  <2>3. state' = "STOP" /\ msg_idx' = Len(msgs) /\ UNCHANGED <<shift, pc, ret>>
    BY <2>1 DEF master_complete
  <2>4. \A m \in 1..Len(msgs) : (Begun(m)' <=> Begun(m)) /\ (Complete(m)' <=> Complete(m))
    BY DEF Begun, Complete
  <2>5. ShiftInv'
    <3>1. shift' = NoByte
      BY <2>3, StopsBetweenBytes DEF Active
    <3>2. QED BY <3>1 DEF ShiftInv, NoByte
  <2>6. Cursor'   BY <2>3 DEF Cursor, Active
  <2>7. Fresh'    BY <2>1, <2>3 DEF Fresh
  <2>8. Result'
    <3>1. Before(Len(msgs) + 1)
      BY <2>1, <2>2 DEF Cursor, Active, Before
    <3>2. QED BY <2>3, <2>4, <3>1 DEF Result, Counts, Before
  <2>9. WireOrder' /\ \A m \in 1..Len(msgs') : moved'[m] <= msgs'[m].len
    BY <2>4 DEF WireOrder, Before
  <2>10. QED BY <2>5, <2>6, <2>7, <2>8, <2>9
<1>10. CASE IrqWriteStop
  <2>0. /\ RetryWrite /\ is_msgend(msgs[msg], msg_ptr) /\ is_lastmsg(msg_idx) /\ stop(0, msg_idx)
        /\ UNCHANGED <<pc, ret, msgs, addressed, moved>>
    BY <1>10 DEF IrqWriteStop
  <2>1. /\ msg = Len(msgs) /\ msg_idx = msg - 1 /\ Before(msg + 1)
        /\ pc # "message_start" /\ Len(msgs) \in Nat
    <3>1. Active /\ msg_idx = msg - 1 /\ Before(msg + 1)
      BY <2>0, WriteEnd
    <3>2. msg = Len(msgs) /\ Len(msgs) \in Nat
      BY <2>0, <3>1, LastMsg
    <3>3. pc # "message_start"
      BY <2>0 DEF Pend, RetryWrite, IrqTaken
    <3>4. QED BY <3>1, <3>2, <3>3
  <2>2. state' = "STOP" /\ msg_idx' = Len(msgs) /\ UNCHANGED <<shift, pc, ret>>
    BY <2>0, <2>1 DEF stop, master_complete
  <2>3. \A m \in 1..Len(msgs) : (Begun(m)' <=> Begun(m)) /\ (Complete(m)' <=> Complete(m))
    BY <2>0 DEF Begun, Complete
  <2>4. ShiftInv'
    <3>1. Active /\ IrqTaken
      BY <2>0 DEF RetryWrite, Active
    <3>2. shift' = NoByte
      BY <2>2, <3>1, StopsBetweenBytes
    <3>3. QED BY <3>2 DEF ShiftInv, NoByte
  <2>5. Cursor'   BY <2>2 DEF Cursor, Active
  <2>6. Fresh'    BY <2>0, <2>1, <2>2 DEF Control, RetryWrite, Fresh
  <2>7. Result'   BY <2>0, <2>1, <2>2, <2>3 DEF Result, Counts, Before
  <2>8. WireOrder' /\ \A m \in 1..Len(msgs') : moved'[m] <= msgs'[m].len
    BY <2>0, <2>3 DEF WireOrder, Before
  <2>9. QED BY <2>4, <2>5, <2>6, <2>7, <2>8
<1>11. CASE IrqStartRead
  <2>0. /\ IrqTaken /\ state = "START" /\ Accepted /\ ~NothingToDo
        /\ "RD" \in msgs[msg].flags /\ prepare_read(msgs[msg], msg_ptr)
        /\ UNCHANGED <<pc, ret, msgs, addressed, moved>>
    BY <1>11 DEF IrqStartRead
  <2>1. /\ Active /\ pc # "message_start" /\ msg_ptr = 0
        /\ msgs[msg].len \in Nat /\ msg \in 1..Len(msgs) /\ is_lastmsg(msg_idx)
        /\ "IRQEN" \in con /\ "IRQPEND" \in con
    <3>1. Active /\ pc # "message_start" /\ msg_ptr = 0 /\ "IRQEN" \in con /\ "IRQPEND" \in con
      BY <2>0 DEF Control, Pend, Active, IrqTaken
    <3>2. QED BY <2>0, <3>1, Position, ReadIsLast
  <2>2. msgs[msg].len > 0
    BY <2>0, <2>1 DEF NothingToDo
  <2>3. state' = "READ" /\ msg_ptr' = 0 /\ UNCHANGED <<shift, msg, msg_num, msg_idx>>
    BY <2>0, <2>1, <2>2 DEF prepare_read, is_msgend
  <2>4. shift = NoByte /\ msg \in addressed /\ moved[msg] = 0
    BY <2>0, <2>1 DEF Cursor
  <2>5. \A m \in 1..Len(msgs) : (Begun(m)' <=> Begun(m)) /\ (Complete(m)' <=> Complete(m))
    BY <2>0 DEF Begun, Complete
  <2>6. ShiftInv' BY <2>3, <2>4 DEF ShiftInv, NoByte
  <2>7. Cursor'
    <3>1. Begun(msg)
      BY <2>4 DEF Begun
    <3>2. QED BY <2>0, <2>1, <2>3, <2>4, <2>5, <3>1 DEF Cursor, Active, Before
  <2>8. Fresh'    BY <2>0, <2>1 DEF Control, Fresh
  <2>9. Result'   BY <2>0, <2>3, <2>5 DEF Result, Counts, Before
  <2>10. WireOrder' /\ \A m \in 1..Len(msgs') : moved'[m] <= msgs'[m].len
    BY <2>0, <2>5 DEF WireOrder, Before
  <2>11. QED BY <2>6, <2>7, <2>8, <2>9, <2>10
<1>12. CASE IrqRead
  <2>0. IrqTaken /\ state = "READ" /\ UNCHANGED <<pc, ret, addressed>>
    BY <1>12 DEF IrqRead
  <2>1. PICK byte \in BlockLens :
          /\ msgs' = [msgs EXCEPT ![msg] = grown(msgs[msg], byte)]
          /\ moved' = [moved EXCEPT ![msg] = @ + 1]
          /\ prepare_read(grown(msgs[msg], byte), msg_ptr + 1)
    BY <1>12 DEF IrqRead
  <2> DEFINE n == grown(msgs[msg], byte)
  <2>2. /\ msgs'[msg] = n /\ n.flags = msgs[msg].flags /\ n.len >= msgs[msg].len
        /\ Len(msgs') = Len(msgs) /\ msgs' \in Seq(Msg)
        /\ \A m \in 1..Len(msgs) : m # msg => msgs'[m] = msgs[m]
        /\ moved'[msg] = moved[msg] + 1
        /\ \A m \in 1..Len(msgs) : m # msg => moved'[m] = moved[m]
    BY <2>0, <2>1, StoreByte
  <2>3. /\ Active /\ pc # "message_start" /\ msg \in 1..Len(msgs) /\ msg = Len(msgs)
        /\ msg_ptr \in Nat /\ msgs[msg].len \in Nat /\ msg_ptr < msgs[msg].len
        /\ msg_idx = msg - 1 /\ is_lastmsg(msg_idx) /\ moved[msg] = msg_ptr
        /\ Begun(msg) /\ Before(msg) /\ shift = NoByte
    <3>1. Active /\ "RD" \in msgs[msg].flags /\ msg_ptr < msgs[msg].len /\ pc # "message_start"
      BY <2>0 DEF Control, Pend, Active
    <3>2. Begun(msg) /\ Before(msg) /\ shift = NoByte /\ moved[msg] = msg_ptr
      BY <2>0, <3>1 DEF Cursor
    <3>3. QED BY <3>1, <3>2, Position, ReadIsLast
  <2>4. n.len \in Nat
    BY <2>2, <2>3, MsgAt
  <2> HIDE DEF n
  <2>5. /\ UNCHANGED shift
        /\ \/ /\ state' = "READ" /\ msg_ptr' = msg_ptr + 1
              /\ UNCHANGED <<msg, msg_num, msg_idx>>
           \/ state' = "STOP" /\ msg_idx' = Len(msgs) /\ n.len = msg_ptr + 1
    <3>1. prepare_read(n, msg_ptr + 1)
      BY <2>1 DEF n
    <3>2. \/ /\ state' = "READ" /\ msg_ptr' = msg_ptr + 1
             /\ UNCHANGED <<shift, msg, msg_num, msg_idx>>
          \/ stop(0, msg_idx) /\ n.len = msg_ptr + 1
      BY <2>2, <2>3, <2>4, <3>1 DEF prepare_read, is_msgend, is_msglast
    <3>3. stop(0, msg_idx) => state' = "STOP" /\ msg_idx' = Len(msgs) /\ UNCHANGED shift
      BY <2>3 DEF stop, master_complete
    <3>4. QED BY <3>2, <3>3
  <2>6. \A m \in 1..Len(msgs) : (Begun(m)' <=> Begun(m)) /\ (m # msg => (Complete(m)' <=> Complete(m)))
    BY <2>0, <2>2, <2>3 DEF Begun, Complete
  <2>7. ~Complete(msg)
    BY <2>3 DEF Complete
  <2>8. ShiftInv'
    BY <2>3, <2>5 DEF ShiftInv, NoByte
  <2>9. Cursor'
    <3>1. CASE state' = "READ"
      BY <2>0, <2>2, <2>3, <2>5, <2>6, <3>1 DEF Cursor, Active, Before
    <3>2. CASE state' = "STOP"
      BY <3>2 DEF Cursor, Active
    <3>3. QED BY <2>5, <3>1, <3>2
  <2>10. Fresh'
    BY <2>0, <2>3 DEF Control, Fresh
  <2>11. Result'
    <3>1. ASSUME state' = "STOP", NEW m \in 1..Len(msgs) PROVE Complete(m)'
      <4>1. CASE m = msg
        <5>1. Begun(m)' /\ moved'[m] = msgs'[m].len
          BY <2>2, <2>3, <2>5, <2>6, <3>1, <4>1
        <5>2. QED BY <5>1 DEF Complete
      <4>2. CASE m # msg
        <5>1. Complete(m)
          BY <2>3, <4>2 DEF Before
        <5>2. QED BY <2>6, <4>2, <5>1
      <4>3. QED BY <4>1, <4>2
    <3>2. state' = "STOP" => Counts(msg_idx)'
      BY <2>2, <2>3, <2>5, <3>1 DEF Counts, Before
    <3>3. QED BY <2>0, <2>2, <2>3, <2>6, <2>7, <3>2 DEF Result, Counts, Before
  <2>12. WireOrder'
    <3> SUFFICES ASSUME NEW m \in 1..Len(msgs)
                 PROVE  /\ m \in addressed \/ moved'[m] > 0 =>
                             \A j \in 1..Len(msgs) : j < m => Complete(j)'
                        /\ moved'[m] > 0 => Begun(m)'
      BY <2>0, <2>2 DEF WireOrder, Before
    <3>1. CASE m = msg
      BY <2>3, <2>6, <3>1 DEF Before
    <3>2. CASE m # msg
      <4>1. moved'[m] = moved[m] /\ m < msg
        BY <2>2, <2>3, <3>2
      <4>2. QED BY <2>6, <4>1 DEF WireOrder, Before
    <3>3. QED BY <3>1, <3>2
  <2>13. \A m \in 1..Len(msgs') : moved'[m] <= msgs'[m].len
    <3> SUFFICES ASSUME NEW m \in 1..Len(msgs) PROVE moved'[m] <= msgs'[m].len
      BY <2>2
    <3>1. QED BY <2>2, <2>3, <2>4
  <2>14. QED BY <2>8, <2>9, <2>10, <2>11, <2>12, <2>13
<1>13. CASE IrqWriteByte
  <2> USE <1>13 DEF IrqWriteByte, RetryWrite
  <2>1. /\ Active /\ pc # "message_start" /\ msg \in 1..Len(msgs)
        /\ msg_ptr \in Nat /\ msgs[msg].len \in Nat /\ msg_ptr < msgs[msg].len
        /\ "IRQEN" \in con /\ "IRQPEND" \in con
    BY MsgAt DEF TypeOK, Control, Pend, Active, IrqTaken, is_msgend
  <2>2. Begun(msg) /\ moved[msg] = msg_ptr /\ Before(msg)
    BY <2>1 DEF Control, Cursor, Begun
  <2>3. \A m \in 1..Len(msgs) : (Begun(m)' <=> Begun(m)) /\ (Complete(m)' <=> Complete(m))
    BY DEF Begun, Complete
  <2>4. ShiftInv'
    BY <2>1, <2>2, <2>3 DEF ShiftInv, Before, DataByte
  <2>5. Cursor'
    BY <2>1, <2>2, <2>3 DEF Cursor, Active, Before, DataByte, NoByte
  <2>6. Fresh'
    BY <2>1 DEF Control, Active, Fresh
  <2>7. Result'
    BY <2>3 DEF Result, Counts, Before
  <2>8. WireOrder' /\ \A m \in 1..Len(msgs') : moved'[m] <= msgs'[m].len
    BY <2>3 DEF WireOrder, Before
  <2>9. QED BY <2>4, <2>5, <2>6, <2>7, <2>8
<1>14. CASE IrqWriteNext
  <2> USE <1>14 DEF IrqWriteNext
  <2>1. PICK j \in (msg + 1)..Len(msgs) :
          /\ \A k \in (msg + 1)..(j - 1) : PassedOver(k)
          /\ next_message(j)
    OBVIOUS
  <2>2. /\ Active /\ msg \in 1..Len(msgs) /\ Before(msg + 1)
        /\ j \in 1..Len(msgs) /\ j > msg /\ msgs[j].len \in Nat
        /\ pc \notin {"idle", "set_master", "message_start"}
    <3>1. Active /\ msg \in 1..Len(msgs) /\ Before(msg + 1)
      BY WriteEnd
    <3>2. j \in 1..Len(msgs) /\ j > msg /\ msgs[j].len \in Nat
      <4>1. msgs \in Seq(Msg) /\ Len(msgs) \in Nat
        BY DEF TypeOK
      <4>2. j \in 1..Len(msgs) /\ j > msg
        BY <2>1, <3>1, <4>1
      <4>3. QED BY <4>1, <4>2, MsgAt
    <3>3. pc \notin {"idle", "set_master", "message_start"}
      BY <3>1 DEF Control, Pend, Active, RetryWrite, IrqTaken
    <3>4. QED BY <3>1, <3>2, <3>3
  <2>3. \A k \in 1..Len(msgs) : k > msg => k \notin addressed /\ moved[k] = 0
    BY <2>2 DEF Cursor
  <2>4. Before(j)
    BY <2>1, <2>2, <2>3 DEF Before, PassedOver, Complete, Begun
  <2>5. "NOSTART" \in msgs[j].flags => Begun(j) /\ "RD" \notin msgs[j].flags
    BY <2>2 DEF Begun, Shape
  <2>6. \A m \in 1..Len(msgs) : (Begun(m)' <=> Begun(m)) /\ (Complete(m)' <=> Complete(m))
    BY DEF Begun, Complete
  <2>7. \/ /\ shift' = AddrByte(j) /\ "IRQPEND" \notin con'
           /\ state' = "START" /\ msg' = j /\ msg_ptr' = 0
        \/ /\ shift' = DataByte(j) /\ "IRQPEND" \notin con' /\ msgs[j].len > 0
           /\ "NOSTART" \in msgs[j].flags
           /\ state' = "WRITE" /\ msg' = j /\ msg_ptr' = 1
        \/ /\ state' = "STOP" /\ msg_idx' = j /\ UNCHANGED shift
           /\ "NOSTART" \in msgs[j].flags /\ msgs[j].len = 0
    BY <2>1, <2>2, <2>5 DEF next_message, message_start, stop, master_complete
  <2>8. pc' = pc /\ ret' = ret
    BY <2>1, <2>5 DEF next_message
  <2>9. ShiftInv'
    <3>1. CASE shift' = AddrByte(j)
      BY <2>2, <2>3, <2>4, <2>6, <3>1 DEF ShiftInv, Before, AddrByte
    <3>2. CASE shift' = DataByte(j) /\ msgs[j].len > 0 /\ "NOSTART" \in msgs[j].flags
      BY <2>2, <2>3, <2>4, <2>5, <2>6, <3>2 DEF ShiftInv, Before, DataByte
    <3>3. CASE UNCHANGED shift
      BY <2>6, <3>3 DEF TypeOK, ShiftInv, Before, NoByte
    <3>4. QED BY <2>7, <3>1, <3>2, <3>3
  <2>10. Cursor'
    BY <2>2, <2>3, <2>4, <2>5, <2>6, <2>7 DEF Cursor, Active, Before, NoByte, AddrByte, DataByte
  <2>11. Fresh'
    BY <2>2, <2>8 DEF Fresh
  <2>12. Result'
    <3>1. state' = "STOP" => j <= Len(msgs) /\ msg_idx' = j /\ Before(j + 1)
      BY <2>2, <2>3, <2>4, <2>5, <2>7 DEF Before, Complete
    <3>2. QED BY <2>6, <2>8, <3>1 DEF Result, Counts, Before
  <2>13. WireOrder' /\ \A m \in 1..Len(msgs') : moved'[m] <= msgs'[m].len
    BY <2>6 DEF WireOrder, Before
  <2>14. QED BY <2>9, <2>10, <2>11, <2>12, <2>13
<1>15. CASE XferNoClock
  <2>1. ShiftInv' BY <1>15 DEF ShiftInv, Before, Complete, Begun, XferNoClock
  <2>2. Cursor'   BY <1>15 DEF Control, Pend, Active, Cursor, Before, Complete, Begun,
                     Accepted, XferNoClock
  <2>3. Fresh'    BY <1>15 DEF Pend, Fresh, XferNoClock
  <2>4. Result'   BY <1>15 DEF TypeOK, Control, Result, Counts, Before, Complete, Begun,
                     XferNoClock, EIO
  <2>5. WireOrder' /\ \A m \in 1..Len(msgs') : moved'[m] <= msgs'[m].len
    BY <1>15 DEF WireOrder, Before, Complete, Begun, XferNoClock, EIO
  <2>6. QED BY <2>1, <2>2, <2>3, <2>4, <2>5
<1>16. CASE SetMasterFree
  <2>1. ShiftInv' BY <1>16 DEF ShiftInv, Before, Complete, Begun, SetMasterFree
  <2>2. Cursor'   BY <1>16 DEF Control, Pend, Active, Cursor, Before, Complete, Begun,
                     Accepted, SetMasterFree, Fresh, TypeOK, Shape, NoByte
  <2>3. Fresh'    BY <1>16 DEF Pend, Fresh, SetMasterFree
  <2>4. Result'   BY <1>16 DEF TypeOK, Control, Result, Counts, Before, Complete, Begun,
                     SetMasterFree
  <2>5. WireOrder' /\ \A m \in 1..Len(msgs') : moved'[m] <= msgs'[m].len
    BY <1>16 DEF WireOrder, Before, Complete, Begun, SetMasterFree
  <2>6. QED BY <2>1, <2>2, <2>3, <2>4, <2>5
<1>17. CASE SetMasterBusy
  <2> USE <1>17 DEF SetMasterBusy
  <2>1. pc' = "set_master" \/ (pc' = "return" /\ ret' < 0)
    BY DEF EREMOTEIO
  <2>2. \A m \in 1..Len(msgs) : (Begun(m)' <=> Begun(m)) /\ (Complete(m)' <=> Complete(m))
    BY DEF Begun, Complete
  <2>3. ShiftInv' BY <2>2 DEF TypeOK, ShiftInv, Before, NoByte
  <2>4. Cursor'   BY DEF Control, Cursor, Active
  <2>5. Fresh'    BY DEF Fresh
  <2>6. Result'   BY <2>1 DEF TypeOK, Control, Result
  <2>7. WireOrder' /\ \A m \in 1..Len(msgs') : moved'[m] <= msgs'[m].len
    BY <2>2 DEF WireOrder, Before
  <2>8. QED BY <2>3, <2>4, <2>5, <2>6, <2>7
<1>18. CASE MessageStart
  <2>1. ShiftInv' BY <1>18 DEF ShiftInv, Before, Complete, Begun, MessageStart, message_start,
                     Pend, Fresh, TypeOK, Shape, NoByte, AddrByte, DataByte
  <2>2. Cursor'   BY <1>18 DEF Control, Pend, Active, Cursor, Before, Complete, Begun,
                     Accepted, MessageStart, message_start, Fresh, TypeOK, Shape, NoByte,
                     AddrByte, DataByte
  <2>3. Fresh'    BY <1>18 DEF Pend, Fresh, MessageStart
  <2>4. Result'   BY <1>18 DEF TypeOK, Control, Result, Counts, Before, Complete, Begun,
                     MessageStart
  <2>5. WireOrder' /\ \A m \in 1..Len(msgs') : moved'[m] <= msgs'[m].len
    BY <1>18 DEF WireOrder, Before, Complete, Begun, MessageStart
  <2>6. QED BY <2>1, <2>2, <2>3, <2>4, <2>5
<1>19. CASE WaitEvent
  <2>1. ShiftInv' BY <1>19 DEF ShiftInv, Before, Complete, Begun, WaitEvent
  <2>2. Cursor'   BY <1>19 DEF Control, Pend, Active, Cursor, Before, Complete, Begun,
                     Accepted, WaitEvent
  <2>3. Fresh'    BY <1>19 DEF Pend, Fresh, WaitEvent
  <2>4. Result'   BY <1>19 DEF TypeOK, Control, Result, Counts, Before, Complete, Begun,
                     WaitEvent
  <2>5. WireOrder' /\ \A m \in 1..Len(msgs') : moved'[m] <= msgs'[m].len
    BY <1>19 DEF WireOrder, Before, Complete, Begun, WaitEvent
  <2>6. QED BY <2>1, <2>2, <2>3, <2>4, <2>5
<1>20. CASE Woken
  <2> USE <1>20 DEF Woken
  <2>1. \A m \in 1..Len(msgs) : (Begun(m)' <=> Begun(m)) /\ (Complete(m)' <=> Complete(m))
    BY DEF Begun, Complete
  <2>2. msg_idx > 0 => Counts(msg_idx)
    <3>1. CASE state = "STOP"
      BY <3>1 DEF Result
    <3>2. CASE Active
      BY <3>2 DEF TypeOK, Control, Cursor, Counts
    <3>3. QED BY <3>1, <3>2 DEF TypeOK, Control, Active, States
  <2>3. ShiftInv' BY <2>1 DEF ShiftInv, Before, Begun
  <2>4. Cursor'   BY <2>1 DEF Cursor, Active, Before, Accepted, Control
  <2>5. Fresh'    BY DEF Fresh
  <2>6. Result'   BY <2>1, <2>2 DEF Result, Counts, Before
  <2>7. WireOrder' /\ \A m \in 1..Len(msgs') : moved'[m] <= msgs'[m].len
    BY <2>1 DEF WireOrder, Before
  <2>8. QED BY <2>3, <2>4, <2>5, <2>6, <2>7
<1>21. CASE WaitIdle
  <2>1. ShiftInv' BY <1>21 DEF ShiftInv, Before, Complete, Begun, WaitIdle
  <2>2. Cursor'   BY <1>21 DEF Control, Pend, Active, Cursor, Before, Complete, Begun,
                     Accepted, WaitIdle
  <2>3. Fresh'    BY <1>21 DEF Pend, Fresh, WaitIdle
  <2>4. Result'   BY <1>21 DEF TypeOK, Control, Result, Counts, Before, Complete, Begun,
                     WaitIdle
  <2>5. WireOrder' /\ \A m \in 1..Len(msgs') : moved'[m] <= msgs'[m].len
    BY <1>21 DEF WireOrder, Before, Complete, Begun, WaitIdle
  <2>6. QED BY <2>1, <2>2, <2>3, <2>4, <2>5
<1>22. CASE DisableBusStat
  <2>1. ShiftInv' BY <1>22 DEF ShiftInv, Before, Complete, Begun, DisableBusStat
  <2>2. Cursor'   BY <1>22 DEF Control, Pend, Active, Cursor, Before, Complete, Begun,
                     Accepted, DisableBusStat
  <2>3. Fresh'    BY <1>22 DEF Pend, Fresh, DisableBusStat
  <2>4. Result'   BY <1>22 DEF TypeOK, Control, Result, Counts, Before, Complete, Begun,
                     DisableBusStat
  <2>5. WireOrder' /\ \A m \in 1..Len(msgs') : moved'[m] <= msgs'[m].len
    BY <1>22 DEF WireOrder, Before, Complete, Begun, DisableBusStat
  <2>6. QED BY <2>1, <2>2, <2>3, <2>4, <2>5
<1>23. CASE DisableBusCon
  <2>1. ShiftInv' BY <1>23 DEF ShiftInv, Before, Complete, Begun, DisableBusCon
  <2>2. Cursor'   BY <1>23 DEF Control, Pend, Active, Cursor, Before, Complete, Begun,
                     Accepted, DisableBusCon
  <2>3. Fresh'    BY <1>23 DEF Pend, Fresh, DisableBusCon
  <2>4. Result'   BY <1>23 DEF TypeOK, Control, Result, Counts, Before, Complete, Begun,
                     DisableBusCon
  <2>5. WireOrder' /\ \A m \in 1..Len(msgs') : moved'[m] <= msgs'[m].len
    BY <1>23 DEF WireOrder, Before, Complete, Begun, DisableBusCon
  <2>6. QED BY <2>1, <2>2, <2>3, <2>4, <2>5
<1>24. CASE Out
  <2>1. ShiftInv' BY <1>24 DEF ShiftInv, Before, Complete, Begun, Out
  <2>2. Cursor'   BY <1>24 DEF Control, Pend, Active, Cursor, Before, Complete, Begun,
                     Accepted, Out
  <2>3. Fresh'    BY <1>24 DEF Pend, Fresh, Out
  <2>4. Result'   BY <1>24 DEF TypeOK, Control, Result, Counts, Before, Complete, Begun, Out
  <2>5. WireOrder' /\ \A m \in 1..Len(msgs') : moved'[m] <= msgs'[m].len
    BY <1>24 DEF WireOrder, Before, Complete, Begun, Out
  <2>6. QED BY <2>1, <2>2, <2>3, <2>4, <2>5
<1>25. CASE Return
  <2>1. ShiftInv' BY <1>25 DEF ShiftInv, Before, Complete, Begun, Return
  <2>2. Cursor'   BY <1>25 DEF Control, Pend, Active, Cursor, Before, Complete, Begun,
                     Accepted, Return
  <2>3. Fresh'    BY <1>25 DEF Pend, Fresh, Return
  <2>4. Result'   BY <1>25 DEF TypeOK, Control, Result, Counts, Before, Complete, Begun, Return
  <2>5. WireOrder' /\ \A m \in 1..Len(msgs') : moved'[m] <= msgs'[m].len
    BY <1>25 DEF WireOrder, Before, Complete, Begun, Return
  <2>6. QED BY <2>1, <2>2, <2>3, <2>4, <2>5
<1>26. ASSUME NEW t \in Transfers, Xfer(t) PROVE WireInv'
  <2> USE <1>26 DEF Xfer
  <2>1. t \in Seq(Msg) /\ \A m \in 1..Len(t) : t[m].len \in Nat
    BY TransfersAssumption, MsgAt DEF Supported
  <2>2. \A m \in 1..Len(msgs') : moved'[m] = 0
    OBVIOUS
  <2>3. ShiftInv' BY DEF ShiftInv, NoByte
  <2>4. Cursor'   BY DEF Control, Cursor, Active
  <2>5. Fresh'    BY <2>2 DEF Fresh
  <2>6. Result'   BY DEF Control, Result
  <2>7. WireOrder' /\ \A m \in 1..Len(msgs') : moved'[m] <= msgs'[m].len
    BY <2>1, <2>2 DEF WireOrder, Before
  <2>8. QED BY <2>3, <2>4, <2>5, <2>6, <2>7
<1>27. CASE UNCHANGED vars
  BY <1>27 DEF vars, ShiftInv, Cursor, Active, Fresh, Result, Counts, Before, WireOrder,
     Complete, Begun, Accepted
<1>28. CASE IrqReadOverruns
  <2>1. /\ state = "READ" /\ pc' = "oops"
        /\ UNCHANGED <<con, stat, shift, state, msg, msg_idx, msg_ptr, msgs, addressed, moved>>
    BY <1>28 DEF IrqReadOverruns
  <2>2. ShiftInv' /\ Cursor' /\ WireOrder' /\ \A m \in 1..Len(msgs') : moved'[m] <= msgs'[m].len
    BY <2>1 DEF ShiftInv, Cursor, WireOrder, Active, Before, Complete, Begun
  <2>3. Fresh' /\ Result'
    BY <2>1 DEF Fresh, Result
  <2>4. QED BY <2>2, <2>3
<1>29. QED
  BY <1>1, <1>2, <1>3, <1>4, <1>5, <1>6, <1>7, <1>8, <1>9, <1>10, <1>11, <1>12, <1>13, <1>14,
     <1>15, <1>16, <1>17, <1>18, <1>19, <1>20, <1>21, <1>22, <1>23, <1>24, <1>25, <1>26, <1>27,
     <1>28
     DEF Next, InXfer, Irq, Hardware

(* Control and the wire together are invariant. *)
THEOREM WireInvariant == Spec => [](ControlInv /\ WireInv)
<1>1. Init => ControlInv /\ WireInv
  BY ControlInit, WireInit
<1>2. ControlInv /\ WireInv /\ [Next]_vars => (ControlInv /\ WireInv)'
  BY ControlStep, WireStep
<1>3. QED BY <1>1, <1>2, PTL DEF Spec

-----------------------------------------------------------------------------
(* The safety properties. *)

(* The types, whatever the slave announces. *)
THEOREM TypeCorrect == Spec => []TypeOK
<1>1. ControlInv => TypeOK
  BY DEF ControlInv
<1>2. QED BY <1>1, ControlInvariant, PTL

(* The handler follows i2c->msg only inside doxfer. *)
THEOREM HandlerQuietInDoxfer == Spec => []HandlerQuiet
<1>1. ControlInv => HandlerQuiet
  BY DEF ControlInv, TypeOK, Control, Active, HandlerQuiet, Labels
<1>2. QED BY <1>1, ControlInvariant, PTL

(* What stops the kernel is a byte of a message in hand that its buffer has no
   room for.  A NULL i2c->msg, the other way to the label oops, is never followed. *)
OopsInv == pc = "oops" => state = "READ" /\ msg_ptr >= Room(msgs[msg])

LEMMA OopsStep == ControlInv /\ OopsInv /\ [Next]_vars => OopsInv'
<1> SUFFICES ASSUME ControlInv, OopsInv, [Next]_vars PROVE OopsInv'
    OBVIOUS
<1> USE DEF hw, drv, caller, wire
<1>1. CASE IrqReadOverruns
  BY <1>1 DEF IrqReadOverruns, OopsInv, Room
<1>2. CASE IrqWriteNext
  <2>1. PICK j \in (msg + 1)..Len(msgs) : next_message(j)
    BY <1>2 DEF IrqWriteNext
  <2>2. Active /\ pc # "oops" /\ msg \in 1..Len(msgs) /\ Len(msgs) \in Nat
    BY <1>2, Position DEF IrqWriteNext, RetryWrite, IrqTaken, Running, Active
  <2>3. ~({"NOSTART", "RD"} \subseteq msgs[j].flags)
    BY <2>1, <2>2 DEF ControlInv, Shape
  <2>4. pc' = pc
    BY <2>1, <2>3 DEF next_message
  <2>5. QED BY <2>2, <2>4 DEF OopsInv
<1>3. CASE Irq /\ UNCHANGED pc
  BY <1>3 DEF Irq, IrqIdleOrStop, IrqStartRefused, IrqStartEmpty, IrqStartRead, IrqRead,
     IrqReadOverruns, IrqWriteRefused, IrqWriteByte, IrqWriteStop, IrqWriteNext, RetryWrite,
     IrqTaken, Running, OopsInv
<1>4. CASE Irq
  <2>1. IrqReadOverruns \/ IrqWriteNext \/ UNCHANGED pc
    BY <1>4 DEF Irq, IrqIdleOrStop, IrqStartRefused, IrqStartEmpty, IrqStartRead, IrqRead,
       IrqWriteRefused, IrqWriteByte, IrqWriteStop
  <2>2. QED BY <1>1, <1>2, <1>3, <1>4, <2>1
<1>5. CASE InXfer \/ XferNoClock \/ \E t \in Transfers : Xfer(t)
  <2>1. pc' # "oops"
    BY <1>5 DEF InXfer, XferNoClock, Xfer, SetMasterFree, SetMasterBusy, MessageStart,
       WaitEvent, Woken, WaitIdle, DisableBusStat, DisableBusCon, Out, Return
  <2>2. QED BY <2>1 DEF OopsInv
<1>6. CASE Hardware
  <2>1. pc' = pc /\ pc # "oops"
    BY <1>6 DEF Hardware, AddrByteDone, TxByteDone, RxByteDone, StrayByteDone, ByteDone,
       BusRelease, Clocking, Running
  <2>2. QED BY <2>1 DEF OopsInv
<1>7. CASE UNCHANGED vars
  BY <1>7 DEF vars, OopsInv, Room
<1>8. QED BY <1>4, <1>5, <1>6, <1>7 DEF Next

(* The handler stays inside the caller's buffers, and the kernel alive, unless a
   slave announces a block that its buffer has no room for. *)
THEOREM BuffersNotOverrun == Spec => []NoOverrun
<1>1. Init => OopsInv
  BY DEF Init, OopsInv
<1>2. ControlInv /\ WireInv /\ OopsInv => NoOverrun
  <2> SUFFICES ASSUME ControlInv, WireInv, OopsInv PROVE NoOverrun
      OBVIOUS
  <2>1. /\ \A m \in 1..Len(msgs) : moved[m] <= msgs[m].len
        /\ state = "READ" => msg \in 1..Len(msgs) /\ msg_ptr < msgs[msg].len
    BY DEF ControlInv, Control, Active, WireInv
  <2>2. ASSUME BlocksFit, NEW m \in 1..Len(msgs)
        PROVE  /\ msgs[m].len <= Room(msgs[m]) /\ msgs[m].len \in Nat /\ Room(msgs[m]) \in Nat
               /\ moved[m] \in Nat
    BY <2>2, MsgAt, BlockBufAssumption DEF BlocksFit, Room, ControlInv, TypeOK
  <2>3. ASSUME BlocksFit PROVE \A m \in 1..Len(msgs) : moved[m] <= Room(msgs[m])
    BY <2>1, <2>2, <2>3
  <2>4. ASSUME BlocksFit PROVE pc # "oops"
    <3>1. msg_ptr \in Nat
      BY DEF ControlInv, TypeOK
    <3>2. QED BY <2>1, <2>2, <2>4, <3>1 DEF OopsInv
  <2>5. QED BY <2>1, <2>3, <2>4 DEF NoOverrun
<1>3. QED BY <1>1, <1>2, OopsStep, WireInvariant, PTL DEF Spec

(* Messages appear on the bus in order, each after its address. *)
THEOREM MessagesInOrder == Spec => []WireOrder
<1>1. WireInv => WireOrder
  BY DEF WireInv
<1>2. QED BY <1>1, WireInvariant, PTL

(* A transfer is tried again only before anything of it is on the bus. *)
THEOREM RetriesAreFresh == Spec => []RetryFresh
<1>1. WireInv => RetryFresh
  BY DEF WireInv, Fresh, RetryFresh
<1>2. QED BY <1>1, WireInvariant, PTL

(* A count s3c24xx_i2c_xfer returns counts finished messages. *)
THEOREM ResultIsSound == Spec => []ResultSound
<1>1. ControlInv /\ WireInv => ResultSound
  <2> SUFFICES ASSUME ControlInv, WireInv, pc = "idle", ret > 0
               PROVE  ret <= Len(msgs) /\ 1..ret \subseteq Done
    BY DEF ResultSound
  <2>1. ret \in Nat /\ Len(msgs) \in Nat /\ Counts(ret)
    BY DEF ControlInv, TypeOK, WireInv, Result
  <2>2. QED BY <2>1 DEF Counts, Done, Before
<1>2. QED BY <1>1, WireInvariant, PTL

-----------------------------------------------------------------------------
(* How a transfer ends: its outcome, the state it leaves the controller in, and
   the acknowledgement of a read. *)

(* Where the caller is after its wait and before it leaves doxfer. *)
Between == {"woken", "wait_idle", "disable_stat", "disable_con", "out"}

(* How a transfer that was not given up has ended: all messages are counted and
   finished, or there is an error and one of them is not. *)
Outcome(n) ==
  \/ n = Len(msgs) /\ Before(Len(msgs) + 1)
  \/ n < 0 /\ ~Before(Len(msgs) + 1)

(* A transfer that has stopped has its outcome, and nothing of it is in IICDS that
   could still move; without a timeout the caller goes on only then. *)
StopInv ==
  /\ state = "START" => msg = 1 \/ "NOSTART" \notin msgs[msg].flags
  /\ state = "STOP" => shift = NoByte /\ Outcome(msg_idx)
  /\ ~expired /\ pc \in Between => state = "STOP"
  /\ ~expired /\ pc \in (Between \ {"woken"}) \cup {"return"} => shift = NoByte /\ Outcome(ret)

(* What is left of a transfer that was not given up: on a HDMIPHY bus the handler
   has disabled everything when it stops, elsewhere disable_bus does, and a
   controller that drives no pin raises no interrupt. *)
Silent == "IRQEN" \notin con /\ "IRQPEND" \notin con /\ "TXRXEN" \notin stat

QuietInv ==
  /\ state = "STOP" /\ "HDMIPHY" \in quirks => Silent
  /\ ~expired /\ pc = "disable_con" => "TXRXEN" \notin stat
  /\ ~expired /\ pc \in {"out", "return", "idle", "set_master"} => Silent

(* The acknowledgement of a read. *)
Listening == {"wait", "woken", "wait_idle", "disable_stat"}

AckInv ==
  /\ shift.kind = "data" => "RD" \notin msgs[shift.msg].flags
  /\ \A m \in 1..Len(msgs) : "RECV_LEN" \in msgs[m].flags => (moved[m] = 0 => msgs[m].len = 1)
  /\ pc \in Listening /\ state = "START" => "ACKEN" \in con
  /\ pc \in Listening /\ state = "READ" => ("ACKEN" \notin con <=> is_msglast(msgs[msg], msg_ptr))

-----------------------------------------------------------------------------

(* How many messages are finished depends on the array and the wire alone. *)
LEMMA SameOutcome ==
  ASSUME UNCHANGED <<msgs, addressed, moved>>
  PROVE  /\ Before(Len(msgs) + 1)' <=> Before(Len(msgs) + 1)
         /\ \A n \in Int : Outcome(n)' <=> Outcome(n)
<1>1. Before(Len(msgs) + 1)' <=> Before(Len(msgs) + 1)
  BY DEF Before, Complete, Begun
<1>2. QED BY <1>1 DEF Outcome

(* A count of all messages that the handler leaves is right; an error it leaves
   is right when the message in hand is not finished. *)
LEMMA StopOutcome ==
  ASSUME ControlInv, ControlInv', WireInv, WireInv', StopInv, Active, IrqTaken,
         state' = "STOP", UNCHANGED <<shift, pc, ret, expired>>, Len(msgs') = Len(msgs),
         \/ msg_idx' = Len(msgs)
         \/ msg_idx' < 0 /\ ~Complete(msg) /\ UNCHANGED <<msgs, addressed, moved>>
  PROVE  StopInv'
<1>1. /\ msg \in 1..Len(msgs) /\ Len(msgs) \in Nat /\ shift' = NoByte
      /\ pc \notin {"idle", "set_master", "return"}
  BY StopsBetweenBytes DEF ControlInv, TypeOK, Control, Active
<1>2. Outcome(msg_idx)'
  <2>1. CASE msg_idx' = Len(msgs)
    BY <1>1, <2>1 DEF WireInv, Result, Counts, Outcome
  <2>2. CASE msg_idx' < 0 /\ ~Complete(msg) /\ UNCHANGED <<msgs, addressed, moved>>
    <3>1. ~Before(Len(msgs) + 1)
      BY <1>1, <2>2 DEF Before
    <3>2. QED BY <2>2, <3>1, SameOutcome DEF Outcome
  <2>3. QED BY <2>1, <2>2
<1>3. ~expired => pc \notin Between
  BY DEF StopInv, Active
<1>4. QED BY <1>1, <1>2, <1>3 DEF StopInv, Between

(* The outcome of a transfer, once it has stopped, stays what it is. *)
LEMMA StopStep ==
  ASSUME ControlInv, ControlInv', WireInv, WireInv', StopInv, [Next]_vars
  PROVE  StopInv'
<1> USE DEF ControlInv, hw, drv, caller, wire
<1>0. msg_idx \in Int /\ ret \in Int
  BY DEF TypeOK
<1>1. CASE AddrByteDone
  BY <1>1 DEF AddrByteDone, ByteDone, Clocking, StopInv, Between, NoByte
<1>2. CASE TxByteDone
  BY <1>2 DEF TxByteDone, ByteDone, Clocking, StopInv, Between, NoByte
<1>3. CASE IrqStartRefused
  <2>1. Active /\ IrqTaken /\ pc # "message_start"
    BY <1>3 DEF IrqStartRefused, Active, IrqTaken, Pend
  <2>2. ~Complete(msg)
    BY <1>3, <2>1 DEF IrqStartRefused, IrqTaken, Control, WireInv, Cursor, StopInv, Complete, Begun
  <2>3. /\ state' = "STOP" /\ msg_idx' < 0
        /\ UNCHANGED <<shift, pc, ret, expired, msgs, addressed, moved>>
    BY <1>3 DEF IrqStartRefused, stop, master_complete, ENXIO
  <2>4. QED BY <2>1, <2>2, <2>3, StopOutcome
<1>4. CASE IrqWriteRefused
  <2>1. Active /\ IrqTaken /\ ~Accepted /\ state = "WRITE"
    BY <1>4 DEF IrqWriteRefused, Active
  <2>2. ~Complete(msg)
    <3>1. moved[msg] = msg_ptr - 1
      BY <2>1 DEF IrqTaken, WireInv, Cursor
    <3>2. msg_ptr \in 1..msgs[msg].len
      BY <2>1 DEF Control
    <3>3. QED BY <3>1, <3>2 DEF Complete
  <2>3. /\ state' = "STOP" /\ msg_idx' < 0
        /\ UNCHANGED <<shift, pc, ret, expired, msgs, addressed, moved>>
    BY <1>4 DEF IrqWriteRefused, stop, master_complete, ECONNREFUSED
  <2>4. QED BY <2>1, <2>2, <2>3, StopOutcome
<1>5. CASE IrqStartEmpty
  <2>1. Active /\ IrqTaken /\ NothingToDo /\ stop(0, msg_idx)
    BY <1>5 DEF IrqStartEmpty, Active
  <2>2. msg_idx + 1 = Len(msgs)
    BY <2>1, LastMsg DEF NothingToDo
  <2>3. /\ state' = "STOP" /\ msg_idx' = Len(msgs)
        /\ UNCHANGED <<shift, pc, ret, expired, msgs>>
    BY <1>5, <2>1, <2>2 DEF IrqStartEmpty, stop, master_complete
  <2>4. QED BY <2>1, <2>3, StopOutcome
<1>6. CASE IrqWriteStop
  <2>1. Active /\ IrqTaken /\ is_lastmsg(msg_idx) /\ stop(0, msg_idx)
    BY <1>6 DEF IrqWriteStop, RetryWrite, Active
  <2>2. msg_idx + 1 = Len(msgs)
    BY <2>1, LastMsg
  <2>3. /\ state' = "STOP" /\ msg_idx' = Len(msgs)
        /\ UNCHANGED <<shift, pc, ret, expired, msgs>>
    BY <1>6, <2>1, <2>2 DEF IrqWriteStop, stop, master_complete
  <2>4. QED BY <2>1, <2>3, StopOutcome
<1>7. ASSUME Active, IrqTaken, NEW n, NEW ptr, prepare_read(n, ptr), Len(msgs') = Len(msgs),
             "RD" \in msgs[msg].flags, UNCHANGED <<pc, ret, expired>>
      PROVE  StopInv'
  <2>1. is_lastmsg(msg_idx) /\ msg_idx + 1 = Len(msgs)
    BY <1>7, ReadIsLast, LastMsg
  <2>2. \/ state' = "READ"
        \/ stop(0, msg_idx)
    BY <1>7, <2>1 DEF prepare_read
  <2>3. CASE state' = "READ"
    <3>1. ~expired => pc \notin Between
      BY <1>7 DEF StopInv, Active
    <3>2. pc # "return"
      BY <1>7 DEF Control, Active
    <3>3. QED BY <1>7, <2>3, <3>1, <3>2 DEF StopInv, Between
  <2>4. CASE stop(0, msg_idx)
    <3>1. state' = "STOP" /\ msg_idx' = Len(msgs) /\ UNCHANGED shift
      BY <2>1, <2>4 DEF stop, master_complete
    <3>2. QED BY <1>7, <3>1, StopOutcome
  <2>5. QED BY <2>2, <2>3, <2>4
<1>8. CASE IrqStartRead
  BY <1>7, <1>8 DEF IrqStartRead, Active
<1>9. CASE IrqRead
  <2>1. state = "READ" /\ IrqTaken /\ UNCHANGED <<pc, ret, expired>>
    BY <1>9 DEF IrqRead
  <2>2. PICK byte \in BlockLens :
          /\ msgs' = [msgs EXCEPT ![msg] = grown(msgs[msg], byte)]
          /\ prepare_read(grown(msgs[msg], byte), msg_ptr + 1)
    BY <1>9 DEF IrqRead
  <2>3. Len(msgs') = Len(msgs)
    <3>1. msgs \in Seq(Msg)
      BY DEF TypeOK
    <3>2. QED BY <2>2, <3>1
  <2>4. Active /\ "RD" \in msgs[msg].flags
    BY <2>1 DEF Control, Active
  <2>5. QED BY <1>7, <2>1, <2>2, <2>3, <2>4
<1>10. CASE IrqWriteByte
  <2>1. Active /\ (~expired => pc \notin Between) /\ pc # "return"
    BY <1>10 DEF IrqWriteByte, RetryWrite, StopInv, Control, Active
  <2>2. QED BY <1>10, <2>1 DEF IrqWriteByte, StopInv, Between
<1>11. CASE IrqWriteNext
  <2>1. Active /\ IrqTaken /\ UNCHANGED <<ret, msgs, expired, addressed, moved>>
    BY <1>11 DEF IrqWriteNext, RetryWrite, Active
  <2>2. PICK j \in (msg + 1)..Len(msgs) : ~PassedOver(j) /\ next_message(j)
    BY <1>11 DEF IrqWriteNext
  <2>3. j \in 1..Len(msgs) /\ Len(msgs) \in Nat /\ pc' = pc
    BY <2>1, <2>2 DEF TypeOK, Shape, Control, next_message
  <2>4. (~expired => pc \notin Between) /\ pc # "return"
    BY <2>1 DEF StopInv, Control, Active
  <2>5. \/ "NOSTART" \notin msgs[j].flags /\ msg' = j /\ state' = "START"
        \/ state' = "WRITE"
        \/ stop(0, j - 1) /\ j = Len(msgs)
    BY <2>2, <2>3 DEF Shape, next_message, PassedOver
  <2>6. CASE stop(0, j - 1) /\ j = Len(msgs)
    <3>1. state' = "STOP" /\ msg_idx' = Len(msgs) /\ UNCHANGED shift
      BY <2>3, <2>6 DEF stop, master_complete
    <3>2. QED BY <2>1, <2>3, <3>1, StopOutcome
  <2>7. CASE state' \in {"START", "WRITE"}
    BY <2>1, <2>3, <2>4, <2>5, <2>7 DEF StopInv, Between, stop
  <2>8. QED BY <2>5, <2>6, <2>7
<1>12. CASE RxByteDone
  <2>1. UNCHANGED <<msgs, addressed, moved>>
    BY <1>12 DEF RxByteDone, ByteDone
  <2>2. QED BY <1>0, <1>12, <2>1, SameOutcome DEF RxByteDone, ByteDone, StopInv, Between, NoByte
<1>13. CASE StrayByteDone
  <2>1. UNCHANGED <<msgs, addressed, moved>>
    BY <1>13 DEF StrayByteDone, ByteDone
  <2>2. QED BY <1>0, <1>13, <2>1, SameOutcome DEF StrayByteDone, ByteDone, StopInv, Between, NoByte
<1>14. CASE BusRelease
  <2>1. UNCHANGED <<msgs, addressed, moved>>
    BY <1>14 DEF BusRelease
  <2>2. QED BY <1>0, <1>14, <2>1, SameOutcome DEF BusRelease, StopInv, Between, NoByte
<1>15. CASE IrqIdleOrStop
  <2>1. UNCHANGED <<msgs, addressed, moved>>
    BY <1>15 DEF IrqIdleOrStop
  <2>2. QED BY <1>0, <1>15, <2>1, SameOutcome DEF IrqIdleOrStop, StopInv, Between, NoByte
<1>16. CASE XferNoClock
  <2>1. UNCHANGED <<msgs, addressed, moved>>
    BY <1>16 DEF XferNoClock
  <2>2. QED BY <1>0, <1>16, <2>1, SameOutcome DEF XferNoClock, StopInv, Between, NoByte, Control
<1>17. CASE SetMasterFree
  <2>1. UNCHANGED <<msgs, addressed, moved>>
    BY <1>17 DEF SetMasterFree
  <2>2. QED BY <1>0, <1>17, <2>1, SameOutcome DEF SetMasterFree, StopInv, Between, NoByte
<1>18. CASE SetMasterBusy
  <2>1. UNCHANGED <<msgs, addressed, moved>> /\ pc = "set_master"
    BY <1>18 DEF SetMasterBusy
  <2>2. shift = NoByte /\ ~Before(Len(msgs) + 1)
    <3>1. 1 \in 1..Len(msgs) /\ Len(msgs) \in Nat
      BY <2>1 DEF TypeOK, Shape
    <3>2. shift = NoByte /\ ~Complete(1)
      BY <2>1, <3>1 DEF WireInv, Fresh, Complete, Begun
    <3>3. QED BY <3>1, <3>2 DEF Before
  <2>3. Outcome(-EREMOTEIO)'
    BY <2>1, <2>2, SameOutcome DEF Outcome, EREMOTEIO
  <2>4. QED BY <1>0, <1>18, <2>1, <2>2, <2>3, SameOutcome DEF SetMasterBusy, StopInv, Between
<1>19. CASE MessageStart
  <2>1. UNCHANGED <<msgs, addressed, moved>>
    BY <1>19 DEF MessageStart
  <2>2. QED BY <1>0, <1>19, <2>1, SameOutcome DEF MessageStart, StopInv, Between, NoByte, Pend,
       Control
<1>20. CASE WaitEvent
  <2>1. UNCHANGED <<msgs, addressed, moved, state, shift, msg, msg_idx, ret>>
    BY <1>20 DEF WaitEvent
  <2>2. state # "IDLE" /\ Len(msgs) > 0 /\ Len(msgs) \in Nat
    BY <1>20 DEF WaitEvent, TypeOK, Shape, Control
  <2>3. msg_num = 0 => ~Active
    BY <2>2 DEF Control
  <2>4. ~expired' => ~expired /\ msg_num = 0
    BY <1>20 DEF WaitEvent
  <2>5. ~expired' => state = "STOP"
    BY <2>2, <2>3, <2>4 DEF TypeOK, States, Active
  <2>6. QED BY <1>0, <1>20, <2>1, <2>5, SameOutcome DEF WaitEvent, StopInv, Between
<1>21. CASE Woken
  <2>1. UNCHANGED <<msgs, addressed, moved>>
    BY <1>21 DEF Woken
  <2>2. QED BY <1>0, <1>21, <2>1, SameOutcome DEF Woken, StopInv, Between, NoByte
<1>22. CASE WaitIdle
  <2>1. UNCHANGED <<msgs, addressed, moved>>
    BY <1>22 DEF WaitIdle
  <2>2. QED BY <1>0, <1>22, <2>1, SameOutcome DEF WaitIdle, StopInv, Between, NoByte
<1>23. CASE DisableBusStat
  <2>1. UNCHANGED <<msgs, addressed, moved>>
    BY <1>23 DEF DisableBusStat
  <2>2. QED BY <1>0, <1>23, <2>1, SameOutcome DEF DisableBusStat, StopInv, Between, NoByte
<1>24. CASE DisableBusCon
  <2>1. UNCHANGED <<msgs, addressed, moved>>
    BY <1>24 DEF DisableBusCon
  <2>2. QED BY <1>0, <1>24, <2>1, SameOutcome DEF DisableBusCon, StopInv, Between, NoByte
<1>25. CASE Out
  <2>1. UNCHANGED <<msgs, addressed, moved>>
    BY <1>25 DEF Out
  <2>2. QED BY <1>0, <1>25, <2>1, SameOutcome DEF Out, StopInv, Between, NoByte
<1>26. CASE Return
  <2>1. UNCHANGED <<msgs, addressed, moved>>
    BY <1>26 DEF Return
  <2>2. QED BY <1>0, <1>26, <2>1, SameOutcome DEF Return, StopInv, Between, NoByte
<1>27. ASSUME NEW t \in Transfers, Xfer(t) PROVE StopInv'
  BY <1>27 DEF Xfer, Control, StopInv, Between
<1>28. CASE UNCHANGED vars
  BY <1>0, <1>28, SameOutcome DEF vars, StopInv
<1>29. CASE IrqReadOverruns
  BY <1>29 DEF IrqReadOverruns, StopInv, Between
<1>30. QED
  BY <1>1, <1>2, <1>3, <1>4, <1>5, <1>6, <1>7, <1>8, <1>9, <1>10, <1>11, <1>12, <1>13, <1>14,
       <1>15, <1>16, <1>17, <1>18, <1>19, <1>20, <1>21, <1>22, <1>23, <1>24, <1>25, <1>26,
            <1>27, <1>28, <1>29
     DEF Next, InXfer, Irq, Hardware

(* A transfer that stops leaves the controller silent. *)
LEMMA QuietStep ==
  ASSUME ControlInv, ControlInv', QuietInv, StopInv, StopInv', [Next]_vars
  PROVE  QuietInv'
<1> USE DEF ControlInv, TypeOK, Control, Active, Pend, QuietInv, Silent, StopInv, Between,
     Running, hw, drv, caller, wire
<1>1. CASE AddrByteDone
  BY <1>1 DEF AddrByteDone, ByteDone, Clocking
<1>2. CASE TxByteDone
  BY <1>2 DEF TxByteDone, ByteDone, Clocking
<1>3. CASE RxByteDone
  BY <1>3 DEF RxByteDone, ByteDone, Clocking
<1>4. CASE StrayByteDone
  BY <1>4 DEF StrayByteDone, ByteDone, Clocking
<1>5. CASE BusRelease
  BY <1>5 DEF BusRelease
<1>6. CASE IrqIdleOrStop
  BY <1>6 DEF IrqIdleOrStop, IrqTaken
<1>7. CASE IrqStartRefused
  BY <1>7 DEF IrqStartRefused, stop
<1>8. CASE IrqStartEmpty
  BY <1>8 DEF IrqStartEmpty, stop
<1>9. CASE IrqStartRead
  BY <1>9 DEF IrqStartRead, prepare_read, stop
<1>10. CASE IrqRead
  BY <1>10 DEF IrqRead, prepare_read, stop
<1>11. CASE IrqWriteRefused
  BY <1>11 DEF IrqWriteRefused, stop
<1>12. CASE IrqWriteByte
  BY <1>12 DEF IrqWriteByte, RetryWrite
<1>13. CASE IrqWriteStop
  BY <1>13 DEF IrqWriteStop, stop
<1>14. CASE IrqWriteNext
  BY <1>14 DEF IrqWriteNext, next_message, message_start, stop
<1>15. CASE XferNoClock
  BY <1>15 DEF XferNoClock
<1>16. CASE SetMasterFree
  BY <1>16 DEF SetMasterFree
<1>17. CASE SetMasterBusy
  BY <1>17 DEF SetMasterBusy
<1>18. CASE MessageStart
  BY <1>18 DEF MessageStart, message_start
<1>19. CASE WaitEvent
  BY <1>19 DEF WaitEvent
<1>20. CASE Woken
  BY <1>20 DEF Woken
<1>21. CASE WaitIdle
  BY <1>21 DEF WaitIdle
<1>22. CASE DisableBusStat
  BY <1>22 DEF DisableBusStat
<1>23. CASE DisableBusCon
  BY <1>23 DEF DisableBusCon
<1>24. CASE Out
  BY <1>24 DEF Out
<1>25. CASE Return
  BY <1>25 DEF Return
<1>26. ASSUME NEW t \in Transfers, Xfer(t) PROVE QuietInv'
  BY <1>26 DEF Xfer
<1>27. CASE UNCHANGED vars
  BY <1>27 DEF vars
<1>28. CASE IrqReadOverruns
  BY <1>28 DEF IrqReadOverruns
<1>29. QED
  BY <1>1, <1>2, <1>3, <1>4, <1>5, <1>6, <1>7, <1>8, <1>9, <1>10, <1>11, <1>12, <1>13, <1>14,
       <1>15, <1>16, <1>17, <1>18, <1>19, <1>20, <1>21, <1>22, <1>23, <1>24, <1>25, <1>26, <1>27,
            <1>28
     DEF Next, InXfer, Irq, Hardware

(* A read acknowledges, at every step, the bytes it should. *)
LEMMA AckStep ==
  ASSUME ControlInv, ControlInv', WireInv, AckInv, [Next]_vars
  PROVE  AckInv'
<1> USE DEF ControlInv, hw, drv, caller, wire
<1>1. CASE TxByteDone
  <2> DEFINE k == shift.msg
  <2>1. /\ k \in 1..Len(msgs) /\ moved \in [1..Len(msgs) -> Nat]
        /\ "RECV_LEN" \notin msgs[k].flags
    <3>1. shift.kind = "data"
      BY <1>1 DEF TxByteDone
    <3>2. k \in 1..Len(msgs) /\ moved \in [1..Len(msgs) -> Nat]
      BY <3>1, ShiftMsg
    <3>3. QED BY <3>1, <3>2 DEF Shape, AckInv
  <2>2. /\ moved' \in {moved, [moved EXCEPT ![k] = @ + 1]} /\ shift' = NoByte
        /\ UNCHANGED <<msgs, pc, state, msg, msg_ptr>> /\ con' = con \cup {"IRQPEND"}
    BY <1>1 DEF TxByteDone, ByteDone
  <2>3. QED BY <2>1, <2>2 DEF AckInv, NoByte
<1>2. ASSUME IrqTaken, msg \in 1..Len(msgs), Len(msgs') = Len(msgs), "RD" \in msgs[msg].flags,
             NEW n, msgs'[msg] = n, n.len \in Nat, NEW ptr \in Nat, ptr <= n.len,
             prepare_read(n, ptr), Active, shift = NoByte, UNCHANGED pc,
             pc \in Listening => "ACKEN" \in con \/ ptr = n.len,
             \A m \in 1..Len(msgs) :
               "RECV_LEN" \in msgs'[m].flags => (moved'[m] = 0 => msgs'[m].len = 1)
      PROVE  AckInv'
  <2>1. is_lastmsg(msg_idx)
    BY <1>2, ReadIsLast
  <2>2. shift' = NoByte
    BY <1>2 DEF prepare_read, stop
  <2>3. \/ state' = "STOP"
        \/ /\ state' = "READ" /\ msg' = msg /\ msg_ptr' = ptr
           /\ is_msglast(n, ptr)
           /\ con' = con \ {"IRQPEND", "ACKEN"}
        \/ /\ state' = "READ" /\ msg' = msg /\ msg_ptr' = ptr
           /\ ~is_msglast(n, ptr) /\ ptr # n.len
           /\ con' = con \ {"IRQPEND"}
    BY <1>2, <2>1 DEF prepare_read, stop, is_msgend
  <2>4. QED BY <1>2, <2>2, <2>3 DEF AckInv, NoByte
<1>3. CASE IrqStartRead
  <2>1. /\ IrqTaken /\ Active /\ state = "START" /\ "RD" \in msgs[msg].flags
        /\ prepare_read(msgs[msg], msg_ptr) /\ UNCHANGED <<pc, msgs, moved>>
    BY <1>3 DEF IrqStartRead, Active
  <2>2. msg \in 1..Len(msgs) /\ msg_ptr = 0 /\ msgs[msg].len \in Nat
    BY <2>1, MsgAt DEF TypeOK, Control
  <2>3. shift = NoByte
    BY <2>1 DEF IrqTaken, Pend, WireInv, Cursor
  <2>4. QED BY <1>2, <2>1, <2>2, <2>3 DEF AckInv
<1>4. CASE IrqRead
  <2>1. IrqTaken /\ state = "READ" /\ Active /\ UNCHANGED pc
    BY <1>4 DEF IrqRead, Active
  <2>2. PICK byte \in BlockLens :
          /\ msgs' = [msgs EXCEPT ![msg] = grown(msgs[msg], byte)]
          /\ moved' = [moved EXCEPT ![msg] = @ + 1]
          /\ prepare_read(grown(msgs[msg], byte), msg_ptr + 1)
    BY <1>4 DEF IrqRead
  <2> DEFINE n == grown(msgs[msg], byte)
  <2>3. /\ msgs'[msg] = n /\ n.flags = msgs[msg].flags /\ n.len >= msgs[msg].len
        /\ Len(msgs') = Len(msgs) /\ msgs' \in Seq(Msg)
        /\ \A m \in 1..Len(msgs) : m # msg => msgs'[m] = msgs[m]
        /\ moved'[msg] = moved[msg] + 1
        /\ \A m \in 1..Len(msgs) : m # msg => moved'[m] = moved[m]
    BY <2>1, <2>2, StoreByte
  <2>4. /\ msg \in 1..Len(msgs) /\ "RD" \in msgs[msg].flags /\ shift = NoByte
        /\ msg_ptr \in Nat /\ msgs[msg].len \in Nat /\ msg_ptr < msgs[msg].len
        /\ moved[msg] \in Nat
    BY <2>1, MsgAt DEF TypeOK, Control, WireInv, Cursor
  <2>5. n.len \in Nat
    BY <2>3, <2>4, MsgAt
  <2>6. pc \in Listening /\ "ACKEN" \notin con => msg_ptr + 1 = n.len
    BY <2>1, <2>4 DEF AckInv, is_msglast, grown
  <2>7. prepare_read(n, msg_ptr + 1)
    BY <2>2
  <2> HIDE DEF n
  <2>8. ASSUME NEW m \in 1..Len(msgs), "RECV_LEN" \in msgs'[m].flags
        PROVE  moved'[m] = 0 => msgs'[m].len = 1
    <3>1. CASE m = msg
      BY <2>3, <2>4, <2>5, <2>8, <3>1
    <3>2. CASE m # msg
      BY <2>3, <2>8, <3>2 DEF AckInv
    <3>3. QED BY <3>1, <3>2
  <2>9. msg_ptr + 1 \in Nat /\ msg_ptr + 1 <= n.len
    BY <2>3, <2>4, <2>5
  <2>10. pc \in Listening => "ACKEN" \in con \/ msg_ptr + 1 = n.len
    BY <2>6
  <2>11. QED BY <1>2, <2>1, <2>3, <2>4, <2>5, <2>7, <2>8, <2>9, <2>10
<1>5. CASE IrqWriteNext
  <2>1. UNCHANGED <<msgs, moved>>
    BY <1>5 DEF IrqWriteNext
  <2>2. PICK j \in (msg + 1)..Len(msgs) : next_message(j)
    BY <1>5 DEF IrqWriteNext
  <2>3. shift.kind = "data" => "RD" \notin msgs[shift.msg].flags
    BY DEF AckInv
  <2>4. \/ state' = "START" /\ "ACKEN" \in con' /\ shift' = AddrByte(j)
        \/ state' = "WRITE" /\ shift' = DataByte(j) /\ "RD" \notin msgs[j].flags
        \/ state' = "STOP" /\ UNCHANGED shift
    BY <2>2 DEF next_message, message_start, stop
  <2>5. QED BY <2>1, <2>3, <2>4 DEF AckInv, AddrByte, DataByte
<1>6. CASE IrqWriteByte
  <2>1. "RD" \notin msgs[msg].flags
    BY <1>6 DEF IrqWriteByte, RetryWrite, Control
  <2>2. QED BY <1>6, <2>1 DEF IrqWriteByte, AckInv, DataByte
<1>7. ASSUME NEW t \in Transfers, Xfer(t) PROVE AckInv'
  <2>1. \A m \in 1..Len(t) : "RECV_LEN" \in t[m].flags => t[m].len = 1
    BY TransfersAssumption DEF Supported
  <2>2. QED BY <1>7, <2>1 DEF Xfer, Control, AckInv, NoByte, Listening
<1>8. CASE AddrByteDone
  BY <1>8 DEF AddrByteDone, ByteDone, AckInv, Listening, NoByte
<1>9. CASE RxByteDone
  BY <1>9 DEF RxByteDone, ByteDone, AckInv, Listening, NoByte
<1>10. CASE StrayByteDone
  BY <1>10 DEF StrayByteDone, ByteDone, AckInv, Listening, NoByte
<1>11. CASE BusRelease
  BY <1>11 DEF BusRelease, AckInv, Listening, NoByte
<1>12. CASE IrqIdleOrStop
  BY <1>12 DEF IrqIdleOrStop, AckInv, Listening, NoByte
<1>13. CASE IrqStartRefused
  BY <1>13 DEF IrqStartRefused, stop, AckInv, Listening, NoByte
<1>14. CASE IrqStartEmpty
  BY <1>14 DEF IrqStartEmpty, stop, AckInv, Listening, NoByte
<1>15. CASE IrqWriteRefused
  BY <1>15 DEF IrqWriteRefused, stop, AckInv, Listening, NoByte
<1>16. CASE IrqWriteStop
  BY <1>16 DEF IrqWriteStop, stop, AckInv, Listening, NoByte
<1>17. CASE XferNoClock
  BY <1>17 DEF XferNoClock, AckInv, Listening, NoByte
<1>18. CASE SetMasterFree
  BY <1>18 DEF SetMasterFree, AckInv, Listening, NoByte
<1>19. CASE SetMasterBusy
  BY <1>19 DEF SetMasterBusy, AckInv, Listening, NoByte
<1>20. CASE MessageStart
  BY <1>20 DEF MessageStart, message_start, Pend, AddrByte, AckInv, Listening, NoByte
<1>21. CASE WaitEvent
  BY <1>21 DEF WaitEvent, AckInv, Listening, NoByte
<1>22. CASE Woken
  BY <1>22 DEF Woken, AckInv, Listening, NoByte
<1>23. CASE WaitIdle
  BY <1>23 DEF WaitIdle, AckInv, Listening, NoByte
<1>24. CASE DisableBusStat
  BY <1>24 DEF DisableBusStat, AckInv, Listening, NoByte
<1>25. CASE DisableBusCon
  BY <1>25 DEF DisableBusCon, AckInv, Listening, NoByte
<1>26. CASE Out
  BY <1>26 DEF Out, AckInv, Listening, NoByte
<1>27. CASE Return
  BY <1>27 DEF Return, AckInv, Listening, NoByte
<1>28. CASE UNCHANGED vars
  BY <1>28 DEF vars, AckInv
<1>29. CASE IrqReadOverruns
  BY <1>29 DEF IrqReadOverruns, AckInv, Listening
<1>30. QED
  BY <1>1, <1>2, <1>3, <1>4, <1>5, <1>6, <1>7, <1>8, <1>9, <1>10, <1>11, <1>12, <1>13, <1>14,
       <1>15, <1>16, <1>17, <1>18, <1>19, <1>20, <1>21, <1>22, <1>23, <1>24, <1>25, <1>26,
            <1>27, <1>28, <1>29
     DEF Next, InXfer, Irq, Hardware

(* No transfer has ended before the first call, and the controller is silent. *)
LEMMA EndInit == Init => StopInv /\ QuietInv /\ AckInv
  BY DEF Init, StopInv, Between, QuietInv, Silent, AckInv, Listening, NoByte

(* How transfers end is invariant too. *)
THEOREM EndInvariant == Spec => [](ControlInv /\ WireInv /\ StopInv /\ QuietInv /\ AckInv)
<1> DEFINE EndInv == ControlInv /\ WireInv /\ StopInv /\ QuietInv /\ AckInv
<1>1. Init => EndInv
  BY ControlInit, WireInit, EndInit
<1>2. EndInv /\ [Next]_vars => EndInv'
  <2> SUFFICES ASSUME EndInv, [Next]_vars PROVE EndInv'
    OBVIOUS
  <2>1. ControlInv' /\ WireInv'
    BY ControlStep, WireStep
  <2>2. StopInv'
    BY <2>1, StopStep
  <2>3. QED BY <2>1, <2>2, QuietStep, AckStep
<1>3. QED BY <1>1, <1>2, PTL DEF Spec

(* Without a timeout, s3c24xx_i2c_xfer returns the number of messages exactly
   when all of them are finished on the wire, and an error otherwise. *)
THEOREM ResultIsExact == Spec => []ResultExact
<1>1. ControlInv /\ StopInv => ResultExact
  <2> SUFFICES ASSUME ControlInv, StopInv, pc = "return", ~expired
               PROVE  \/ ret = Len(msgs) /\ Done = 1..Len(msgs)
                      \/ ret < 0 /\ Done # 1..Len(msgs)
    BY DEF ResultExact
  <2>1. Len(msgs) \in Nat /\ Len(msgs) \in 1..Len(msgs) /\ Outcome(ret)
    BY DEF ControlInv, TypeOK, Shape, StopInv
  <2>2. Done = 1..Len(msgs) <=> Before(Len(msgs) + 1)
    BY <2>1 DEF Done, Before
  <2>3. QED BY <2>1, <2>2 DEF Outcome
<1>2. QED BY <1>1, EndInvariant, PTL

(* After a transfer that did not time out, the writes of disable_bus, or of the
   handler on a HDMIPHY bus, leave the controller silent. *)
THEOREM TransfersStopCleanly == Spec => []CleanStop
<1>1. QuietInv => CleanStop
  BY DEF QuietInv, Silent, CleanStop
<1>2. QED BY <1>1, EndInvariant, PTL

(* s3c24xx_i2c_disable_ack is called for the last byte of a read and for no
   other, also when the length comes from the slave. *)
THEOREM LastByteIsRefused == Spec => []NakLastByte
<1>1. ControlInv /\ WireInv /\ AckInv => NakLastByte
  <2> SUFFICES ASSUME ControlInv, WireInv, AckInv, state = "READ", pc \in Listening
               PROVE  "ACKEN" \notin con <=>
                        /\ msg_ptr + 1 = msgs[msg].len
                        /\ "RECV_LEN" \in msgs[msg].flags => msg_ptr > 0
    BY DEF NakLastByte, Listening
  <2>1. /\ msg \in 1..Len(msgs) /\ msg_ptr \in Nat /\ msgs[msg].len \in Nat
        /\ moved[msg] = msg_ptr /\ msg_ptr < msgs[msg].len
    BY MsgAt DEF ControlInv, TypeOK, Control, Active, WireInv, Cursor
  <2>2. "RECV_LEN" \in msgs[msg].flags => (msgs[msg].len = 1 <=> msg_ptr = 0)
    BY <2>1 DEF AckInv
  <2>3. "ACKEN" \notin con <=> is_msglast(msgs[msg], msg_ptr)
    BY DEF AckInv
  <2>4. QED BY <2>1, <2>2, <2>3 DEF is_msglast
<1>2. QED BY <1>1, EndInvariant, PTL

-----------------------------------------------------------------------------
(* The driver implements the contract of an i2c adapter. *)

(* Within a transfer, a finished message stays finished. *)
LEMMA DoneGrows ==
  ASSUME ControlInv, WireInv, Next, pc # "idle"
  PROVE  /\ Len(msgs') = Len(msgs)
         /\ \A m \in 1..Len(msgs) : Complete(m) => Complete(m)'
<1> USE DEF ControlInv, WireInv, hw, drv, caller, wire
<1>1. CASE AddrByteDone
  BY <1>1 DEF AddrByteDone, ByteDone, Complete, Begun
<1>2. CASE TxByteDone
  <2> DEFINE k == shift.msg
  <2>1. /\ k \in 1..Len(msgs) /\ moved \in [1..Len(msgs) -> Nat] /\ ~Complete(k)
    BY <1>2, MsgAt DEF TxByteDone, TypeOK, NoByte, ShiftInv, Complete
  <2>2. moved' \in {moved, [moved EXCEPT ![k] = @ + 1]} /\ UNCHANGED <<addressed, msgs>>
    BY <1>2 DEF TxByteDone, ByteDone
  <2>3. QED BY <2>1, <2>2 DEF Complete, Begun
<1>3. CASE IrqRead
  <2>1. state = "READ" /\ UNCHANGED addressed
    BY <1>3 DEF IrqRead
  <2>2. PICK byte \in BlockLens :
          /\ msgs' = [msgs EXCEPT ![msg] = grown(msgs[msg], byte)]
          /\ moved' = [moved EXCEPT ![msg] = @ + 1]
    BY <1>3 DEF IrqRead
  <2>3. /\ Len(msgs') = Len(msgs)
        /\ \A m \in 1..Len(msgs) : m # msg => msgs'[m] = msgs[m] /\ moved'[m] = moved[m]
    BY <2>1, <2>2, StoreByte
  <2>4. ~Complete(msg)
    BY <2>1, MsgAt DEF TypeOK, Control, Active, Cursor, Complete
  <2>5. QED BY <2>1, <2>3, <2>4 DEF Complete, Begun
<1>4. CASE UNCHANGED <<msgs, addressed, moved>>
  BY <1>4 DEF Complete, Begun
<1>5. QED
  <2>1. CASE InXfer \/ XferNoClock
    BY <1>4, <2>1 DEF InXfer, XferNoClock, SetMasterFree, SetMasterBusy, MessageStart,
       WaitEvent,
          Woken, WaitIdle, DisableBusStat, DisableBusCon, Out, Return
  <2>2. CASE Irq
    BY <1>3, <1>4, <2>2 DEF Irq, IrqIdleOrStop, IrqStartRefused, IrqStartEmpty, IrqStartRead,
          IrqReadOverruns, IrqWriteRefused, IrqWriteByte, IrqWriteStop, IrqWriteNext
  <2>3. CASE Hardware
    BY <1>1, <1>2, <1>4, <2>3 DEF Hardware, RxByteDone, StrayByteDone, ByteDone, BusRelease
  <2>4. ~\E t \in Transfers : Xfer(t)
    BY DEF Xfer
  <2>5. QED BY <2>1, <2>2, <2>3, <2>4 DEF Next

(* Only s3c24xx_i2c_xfer is entered, and only by a call, and left, and only by
   its return. *)
LEMMA EntryAndExit ==
  ASSUME ControlInv, ControlInv', Next
  PROVE  /\ pc = "idle" => XferNoClock \/ \E t \in Transfers : Xfer(t)
         /\ pc # "idle" /\ pc' = "idle" => Return
<1> USE DEF ControlInv, hw, drv, caller, wire
<1>1. CASE InXfer
  BY <1>1 DEF InXfer, SetMasterFree, SetMasterBusy, MessageStart, WaitEvent,
          Woken, WaitIdle, DisableBusStat, DisableBusCon, Out, Return
<1>2. CASE Irq
  BY <1>2 DEF Irq, IrqIdleOrStop, IrqStartRefused, IrqStartEmpty, IrqStartRead, IrqRead,
          IrqReadOverruns, IrqWriteRefused, IrqWriteByte, IrqWriteStop, IrqWriteNext, next_message,
          RetryWrite, IrqTaken, Running
<1>3. CASE Hardware
  BY <1>3 DEF Hardware, AddrByteDone, TxByteDone, RxByteDone, StrayByteDone, ByteDone,
     BusRelease,
          Clocking, Running
<1>4. CASE XferNoClock \/ \E t \in Transfers : Xfer(t)
  BY <1>4 DEF XferNoClock, Xfer
<1>5. QED BY <1>1, <1>2, <1>3, <1>4 DEF Next

(* Every step of the driver is a step of the adapter, or leaves it alone. *)
THEOREM ImplementsAdapter == Spec => AdapterSpec
<1>1. Init => Adapter!Init
  BY DEF Init, Adapter!Init, Done
<1>2. ASSUME ControlInv, WireInv, ControlInv', [Next]_vars
      PROVE  [Adapter!Next]_(Adapter!vars)
  <2> USE DEF ControlInv, Adapter!Next, Adapter!vars, hw, drv, caller, wire
  <2>1. CASE UNCHANGED vars
    BY <2>1 DEF vars, Done, Before, Complete, Begun
  <2>2. ASSUME NEW t \in Transfers, Xfer(t) PROVE Adapter!Submit
    <3>1. t \in Seq(Msg) /\ Len(t) > 0 /\ msgs' = t
      BY <2>2, TransfersAssumption DEF Xfer, Supported
    <3>2. ~Begun(1)'
      BY <2>2 DEF Xfer, Begun
    <3>3. Done' = {}
      BY <3>1, <3>2 DEF Done, Before, Complete
    <3>4. QED BY <2>2, <3>1, <3>3 DEF Xfer, Adapter!Submit
  <2>3. CASE XferNoClock
    <3>1. Done' = Done
      BY <2>3 DEF XferNoClock, Done, Before, Complete, Begun
    <3>2. QED BY <2>3, <3>1 DEF XferNoClock, EIO, Adapter!Refuse
  <2>4. CASE Return
    <3>1. Done' = Done
      BY <2>4 DEF Return, Done, Before, Complete, Begun
    <3>2. ret \in Int /\ Len(msgs) \in Nat /\ (ret > 0 => Counts(ret))
      BY <1>2, <2>4 DEF TypeOK, WireInv, Result, Return
    <3>3. ret < 0 \/ (ret <= Len(msgs) /\ 1..ret \subseteq Done)
      BY <3>2 DEF Counts, Done, Before
    <3>4. QED BY <2>4, <3>1, <3>2, <3>3 DEF Return, Adapter!Return
  <2>5. CASE Next /\ pc # "idle" /\ pc' # "idle"
    <3>1. /\ Len(msgs') = Len(msgs)
          /\ \A m \in 1..Len(msgs) : Complete(m) => Complete(m)'
      BY <1>2, <2>5, DoneGrows
    <3>2. Done \subseteq Done' /\ Done' \subseteq 1..Len(msgs)
      BY <3>1 DEF Done, Before
    <3>3. QED BY <2>5, <3>1, <3>2 DEF Adapter!Progress
  <2>6. QED BY <1>2, <2>1, <2>2, <2>3, <2>4, <2>5, EntryAndExit
<1>3. QED BY <1>1, <1>2, WireInvariant, PTL DEF Spec, AdapterSpec, Adapter!Spec

===============================================================================
