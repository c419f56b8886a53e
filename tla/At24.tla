--------------------------------- MODULE At24 ---------------------------------
(***************************************************************************)
(* The EEPROM driver, src/i2c/dev_drv/at24cxx_drv.c: at24_read and         *)
(* at24_write, called by several processes, each on a file of its own, on  *)
(* one chip.                                                               *)
(*                                                                         *)
(* Every smbus call is one transfer of the adapter, which does them one at *)
(* a time; in between the processes interleave.  What a transfer can do is *)
(* the contract in I2cAdapter: it returns an error, or a number of leading *)
(* messages that are complete.  The smbus layer (external) passes errors   *)
(* on and takes every other result for success.  s3c24xx_i2c_xfer returns  *)
(* fewer messages than there are only when it times out.  The handler goes *)
(* on until s3c24xx_i2c_xfer returns, after the count was read, so such a  *)
(* transfer may have done nothing, a part or all of its work.  The driver  *)
(* takes it for done.                                                      *)
(*                                                                         *)
(* Bytes have no values: of a call it is kept which of them have got to    *)
(* the chip, or to the user.                                               *)
(*                                                                         *)
(* A definition whose name ends in _Bug is the definition that follows it  *)
(* with a mistake in it; no specification uses it.                         *)
(***************************************************************************)
EXTENDS Integers

CONSTANTS
  Procs,
  ByteLen,       \* chip.byte_len
  PageSize,      \* chip.page_size
  Counts,        \* the counts processes pass to read and write
  MaxPos,        \* bound on file positions
  Tries          \* how often a transfer that failed is tried again: 5

ASSUME SizesAssumption  == ByteLen \in Nat \ {0} /\ PageSize \in Nat \ {0}
ASSUME CountsAssumption == Counts \subseteq Nat /\ MaxPos \in Nat
ASSUME TriesAssumption  == Tries \in Nat

VARIABLES
  writing,       \* the chip is in its write cycle and acknowledges nothing
  pc,            \* "user", "read", "write" or "out"
  op,            \* the call in hand, or the last one
  pos,           \* *f_pos
  count,
  i,
  err_count,
  ret,
  \* History, which no step reads.
  landed,        \* bytes of the call that got to the chip, or to the user
  short          \* a transfer of the call returned a short count

proc == <<pc, op, pos, count, i, err_count, ret, landed, short>>
vars == <<writing, proc>>

EIO    == 5
EFAULT == 14

Init ==
  /\ writing = FALSE
  /\ pc = [p \in Procs |-> "user"] /\ op = [p \in Procs |-> "none"]
  /\ pos = [p \in Procs |-> 0] /\ count = [p \in Procs |-> 0]
  /\ i = [p \in Procs |-> 0] /\ err_count = [p \in Procs |-> 0]
  /\ ret = [p \in Procs |-> 0] /\ landed = [p \in Procs |-> {}]
  /\ short = [p \in Procs |-> FALSE]

Set(f, p, v) == [f EXCEPT ![p] = v]

(* Process p leaves its call with r. *)
Leave(p, r) == pc' = Set(pc, p, "out") /\ ret' = Set(ret, p, r)

-----------------------------------------------------------------------------
(* The chip (external): a write cycle ends. *)
CycleEnds ==
  /\ writing
  /\ writing' = FALSE
  /\ UNCHANGED proc

-----------------------------------------------------------------------------
(* A process opens the device anew: the file begins at position 0. *)
at24_open(p) ==
  /\ pc[p] = "user" /\ pos[p] # 0
  /\ pos' = Set(pos, p, 0)
  /\ UNCHANGED <<writing, pc, op, count, i, err_count, ret, landed, short>>

(* A process calls read or write with count n. *)
Call(p, o, n) ==
  /\ pc[p] = "user" /\ pos[p] + n <= MaxPos
  /\ op' = Set(op, p, o) /\ count' = Set(count, p, n)
  /\ i' = Set(i, p, 0) /\ err_count' = Set(err_count, p, 0)
  /\ landed' = Set(landed, p, {}) /\ short' = Set(short, p, FALSE)
  /\ IF o = "read" /\ pos[p] >= ByteLen
     THEN Leave(p, 0)
     ELSE pc' = Set(pc, p, o) /\ ret' = Set(ret, p, 0)
  /\ UNCHANGED <<writing, pos>>

(* The loop is over: *f_pos moves on and the call returns i. *)
LoopEnds(p) ==
  /\ pc[p] \in {"read", "write"} /\ i[p] >= count[p]
  /\ Leave(p, i[p])
  /\ pos' = Set(pos, p, pos[p] + i[p])
  /\ UNCHANGED <<writing, op, count, i, err_count, landed, short>>

(* kmalloc fails, or copy_to_user or copy_from_user cannot get at the user's
   buffer; a retry does not come past there. *)
Fault(p) ==
  /\ pc[p] \in {"read", "write"} /\ i[p] < count[p] /\ err_count[p] = 0
  /\ Leave(p, -EFAULT)
  /\ UNCHANGED <<writing, op, pos, count, i, err_count, landed, short>>

-----------------------------------------------------------------------------
(* at24_read *)

(* Up to the next page boundary is taken to be a whole page. *)
BlockLen_Bug(p) ==
  LET left == count[p] - i[p]
  IN  IF PageSize + 1 > left THEN left ELSE PageSize + 1

(* The bytes up to the next page boundary, or as many as are left to read. *)
BlockLen(p) ==
  LET addr == pos[p] + i[p]
      len  == ((addr + PageSize) \div PageSize) * PageSize - addr
      left == count[p] - i[p]
  IN  IF len > left THEN left ELSE len

(* A transfer that failed is taken for one that did not. *)
ReadBlock_Bug(p) ==
  /\ pc[p] = "read" /\ i[p] < count[p]
  /\ UNCHANGED <<landed, short>>
  /\ i' = Set(i, p, i[p] + BlockLen(p)) /\ err_count' = Set(err_count, p, 0)
  /\ UNCHANGED <<writing, pc, op, pos, count, ret>>

(* n bytes of the block come from the chip, when it is not in a write cycle. *)
Arrive(p, n) ==
  /\ n > 0 => ~writing
  /\ landed' = Set(landed, p, landed[p] \cup i[p]..(i[p] + n - 1))

(* The block is read and copied to the user.  With a short result the handler
   has stored some of its first bytes, none or all of them; the rest of what is
   copied is whatever the buffer held. *)
ReadBlock(p) ==
  /\ pc[p] = "read" /\ i[p] < count[p]
  /\ \/ Arrive(p, BlockLen(p)) /\ UNCHANGED short
     \/ (\E n \in 0..BlockLen(p) : Arrive(p, n)) /\ short' = Set(short, p, TRUE)
  /\ i' = Set(i, p, i[p] + BlockLen(p)) /\ err_count' = Set(err_count, p, 0)
  /\ UNCHANGED <<writing, pc, op, pos, count, ret>>

(* The transfer fails.  len is unsigned, so the error is not `<= 0' but a huge
   length; copy_to_user refuses it. *)
ReadFails(p) ==
  /\ pc[p] = "read" /\ i[p] < count[p]
  /\ Leave(p, -EFAULT)
  /\ UNCHANGED <<writing, op, pos, count, i, err_count, landed, short>>

-----------------------------------------------------------------------------
(* at24_write.  The byte gets to the chip when it is not in a write cycle, and
   starts one. *)
Lands(p) ==
  /\ ~writing
  /\ writing' = TRUE /\ landed' = Set(landed, p, landed[p] \cup {i[p]})

Misses == UNCHANGED <<writing, landed>>

(* A byte that cannot be written is passed over. *)
WriteFails_Skip_Bug(p) ==
  /\ pc[p] = "write" /\ i[p] < count[p]
  /\ Lands(p) \/ Misses
  /\ \/ /\ err_count[p] < Tries
        /\ err_count' = Set(err_count, p, err_count[p] + 1)
        /\ UNCHANGED i
     \/ /\ err_count[p] >= Tries
        /\ i' = Set(i, p, i[p] + 1) /\ UNCHANGED err_count
  /\ UNCHANGED <<pc, op, pos, count, ret, short>>

(* err_count is not counted up. *)
WriteFails_Count_Bug(p) ==
  /\ pc[p] = "write" /\ i[p] < count[p]
  /\ Lands(p) \/ Misses
  /\ UNCHANGED <<pc, op, pos, count, i, ret, err_count, short>>

(* The transfer fails, before or after the byte got to the chip: retry after
   a while, or give up. *)
WriteFails(p) ==
  /\ pc[p] = "write" /\ i[p] < count[p]
  /\ Lands(p) \/ Misses
  /\ \/ /\ err_count[p] < Tries
        /\ err_count' = Set(err_count, p, err_count[p] + 1)
        /\ UNCHANGED <<pc, ret>>
     \/ /\ err_count[p] >= Tries
        /\ Leave(p, -EIO)
        /\ UNCHANGED err_count
  /\ UNCHANGED <<op, pos, count, i, short>>

(* The transfer is taken for done.  After a short result the byte may be in the
   chip or not. *)
WriteByte(p) ==
  /\ pc[p] = "write" /\ i[p] < count[p]
  /\ \/ Lands(p) /\ UNCHANGED short
     \/ (Lands(p) \/ Misses) /\ short' = Set(short, p, TRUE)
  /\ i' = Set(i, p, i[p] + 1) /\ err_count' = Set(err_count, p, 0)
  /\ UNCHANGED <<pc, op, pos, count, ret>>

-----------------------------------------------------------------------------
(* The call returns to the program. *)
Return(p) ==
  /\ pc[p] = "out"
  /\ pc' = Set(pc, p, "user")
  /\ UNCHANGED <<writing, op, pos, count, i, err_count, ret, landed, short>>

InCall(p) ==
  \/ LoopEnds(p) \/ Fault(p) \/ ReadBlock(p) \/ ReadFails(p)
  \/ WriteFails(p) \/ WriteByte(p) \/ Return(p)

Next ==
  \/ CycleEnds
  \/ \E p \in Procs : InCall(p) \/ at24_open(p) \/ \E o \in {"read", "write"}, n \in Counts : Call(p, o, n)

Fairness == \A p \in Procs : WF_vars(InCall(p))

Spec == Init /\ [][Next]_vars /\ Fairness

-----------------------------------------------------------------------------
TypeOK ==
  /\ writing \in BOOLEAN
  /\ pc \in [Procs -> {"user", "read", "write", "out"}]
  /\ op \in [Procs -> {"none", "read", "write"}]
  /\ pos \in [Procs -> Nat] /\ count \in [Procs -> Nat]
  /\ i \in [Procs -> Nat] /\ err_count \in [Procs -> 0..Tries]
  /\ ret \in [Procs -> Int] /\ short \in [Procs -> BOOLEAN]
  /\ landed \in [Procs -> SUBSET Nat]
  /\ \A p \in Procs : i[p] <= count[p] /\ landed[p] \subseteq 0..(count[p] - 1)

(* The chip has of a write at most the bytes the driver has counted and the one
   it is trying to write, and of those counted it can lack only the ones of
   transfers that timed out: retries neither skip nor run ahead, also when a failed
   transfer had done its work, and what a write that fails has changed is a
   prefix. *)
WritePrefix ==
  \A p \in Procs : op[p] = "write" =>
    /\ landed[p] \subseteq 0..i[p]
    /\ ~short[p] => 0..(i[p] - 1) \subseteq landed[p]

(* A count that is returned is all that was asked for, and all of it got to
   where it was to go, unless a transfer timed out: no other failure of a
   transfer is taken for success. *)
ResultTrue ==
  \A p \in Procs : pc[p] \in {"out", "user"} /\ ret[p] > 0 =>
    ret[p] = count[p] /\ (~short[p] => landed[p] = 0..(ret[p] - 1))

(* A block fits into tmp, which has page_size bytes, is not empty, so that the
   loop of at24_read gets on, and does not cross a page boundary. *)
BlockInPage ==
  \A p \in Procs : pc[p] = "read" /\ i[p] < count[p] =>
    /\ BlockLen(p) \in 1..PageSize
    /\ (pos[p] + i[p]) \div PageSize = (pos[p] + i[p] + BlockLen(p) - 1) \div PageSize

(* Every call returns, whatever the transfers do. *)
CallReturns == \A p \in Procs : pc[p] # "user" ~> pc[p] = "user"

===============================================================================
