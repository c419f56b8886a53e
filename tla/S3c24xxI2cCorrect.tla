--------------------------- MODULE S3c24xxI2cCorrect ---------------------------
(***************************************************************************)
(* What makes the s3c24xx i2c driver correct, for the transfers it can     *)
(* carry out.                                                              *)
(***************************************************************************)
EXTENDS S3c24xxI2c

(* The transfers the properties are about.  A read ends the transfer: the
   handler goes on to the next message after one without a START and in the
   same direction (i2c-s3c2440.c:513-520).  A read always has a START of its own: without
   one it is refused, and the handler then follows the NULL that this leaves in
   i2c->msg (i2c-s3c2440.c:469-476).  A smbus block read is submitted with length 1, as the
   comment at i2c-s3c2440.c:363 says, and RECV_LEN is a flag of reads. *)
Supported(t) ==
  /\ t \in Seq(Msg) /\ Len(t) > 0
  /\ \A m \in 1..Len(t) :
       /\ "RD" \in t[m].flags => m = Len(t) /\ "NOSTART" \notin t[m].flags
       /\ "RECV_LEN" \in t[m].flags => "RD" \in t[m].flags /\ t[m].len = 1

ASSUME TransfersAssumption == \A t \in Transfers : Supported(t)
ASSUME QuirksAssumption    == QuirkSets \subseteq SUBSET {"HDMIPHY"}
ASSUME RetriesAssumption   == Retries \in Nat \ {0}
ASSUME BlockLensAssumption == BlockLens \subseteq Nat
ASSUME BlockBufAssumption  == BlockBuf \in Nat \ {0}

-----------------------------------------------------------------------------
(* Every variable has its type, and moved and msgs agree on the messages. *)
TypeOK ==
  /\ con \subseteq {"ACKEN", "IRQEN", "IRQPEND"}
  /\ stat \subseteq {"TXRXEN", "MASTER_RX", "LASTBIT"}
  /\ bus \in {"idle", "owned", "stopping"}
  /\ quirks \in QuirkSets
  /\ state \in States
  /\ pc \in Labels
  /\ retry \in 0..Retries /\ ret \in Int
  /\ msgs \in Seq(Msg)
  /\ shift \in {NoByte} \cup [kind : {"addr", "data"}, msg : 1..Len(msgs)]
  /\ msg \in Nat /\ msg_num \in Nat /\ msg_idx \in Int /\ msg_ptr \in Nat
  /\ expired \in BOOLEAN
  /\ addressed \subseteq 1..Len(msgs)
  /\ moved \in [1..Len(msgs) -> Nat]

-----------------------------------------------------------------------------
(* On the wire, message m has begun, by its address or by continuing the one
   before it; and it is finished: all its bytes have moved. *)
Begun(m)    == m \in addressed \/ (m > 1 /\ "NOSTART" \in msgs[m].flags)
Complete(m) == Begun(m) /\ moved[m] = msgs[m].len

(* Every message before m is finished. *)
Before(m) == \A j \in 1..Len(msgs) : j < m => Complete(j)

Done == {m \in 1..Len(msgs) : Before(m + 1)}

(* What s3c24xx_i2c_xfer reports is true: a count it returns is a count of
   leading messages that are finished on the wire, in spite of the handler
   advancing msg_idx while the caller times out and reads it. *)
ResultSound ==
  pc = "idle" /\ ret > 0 => ret <= Len(msgs) /\ 1..ret \subseteq Done

(* Without a timeout there is no partial result: s3c24xx_i2c_xfer returns the
   number of messages exactly when every one of them is finished, and an
   error otherwise. *)
ResultExact ==
  pc = "return" /\ ~expired =>
    \/ ret = Len(msgs) /\ Done = 1..Len(msgs)
    \/ ret < 0 /\ Done # 1..Len(msgs)

(* No slave has announced a block longer than its buffer. *)
BlocksFit == \A m \in 1..Len(msgs) : msgs[m].len <= Room(msgs[m])

(* The handler never moves more bytes of a message than the message has, nor
   stores one past its end, however the length of a block read grows under it.
   That keeps it inside the caller's buffers, and the kernel alive, as long as
   every block announced fits its buffer; the driver itself does not see to
   that (i2c-s3c2440.c:499-500), and one that does not fit is stored beyond it. *)
NoOverrun ==
  /\ \A m \in 1..Len(msgs) : moved[m] <= msgs[m].len
  /\ state = "READ" => msg \in 1..Len(msgs) /\ msg_ptr < msgs[msg].len
  /\ BlocksFit => pc # "oops" /\ \A m \in 1..Len(msgs) : moved[m] <= Room(msgs[m])

(* Messages appear on the bus in order: nothing of a message is on the wire
   before every earlier one is finished, and no data byte without an address,
   unless NOSTART asks for that. *)
WireOrder ==
  \A m \in 1..Len(msgs) :
    /\ m \in addressed \/ moved[m] > 0 => Before(m)
    /\ moved[m] > 0 => Begun(m)

(* The messages belong to the caller again when doxfer returns: a late
   interrupt finds a state in which the handler follows i2c->msg only while
   doxfer has not passed its label out. *)
HandlerQuiet ==
  /\ state \in {"START", "READ", "WRITE"} =>
       /\ msg \in 1..Len(msgs)
       /\ pc \in {"message_start", "wait", "woken", "wait_idle",
                  "disable_stat", "disable_con", "out", "oops"}
  /\ pc \in {"idle", "return", "set_master"} => state = "IDLE"

(* A read acknowledges every byte but its last, and refuses that one, so that
   the slave lets go of the data line before the stop condition. *)
NakLastByte ==
  state = "READ" /\ pc \in {"wait", "woken", "wait_idle", "disable_stat"} =>
    ( "ACKEN" \notin con <=>
      /\ msg_ptr + 1 = msgs[msg].len
      /\ "RECV_LEN" \in msgs[msg].flags => msg_ptr > 0 )

(* A transfer is tried again only when nothing of it has been on the bus. *)
RetryFresh ==
  pc = "set_master" =>
    addressed = {} /\ \A m \in 1..Len(msgs) : moved[m] = 0

(* Between transfers the controller is silent, as long as no transfer has
   timed out: it drives no pin, and neither has nor raises an interrupt. *)
CleanStop ==
  pc = "idle" /\ ~expired =>
    /\ "IRQEN" \notin con /\ "IRQPEND" \notin con
    /\ "TXRXEN" \notin stat

(* s3c24xx_i2c_xfer returns, whatever the slave and the bus do, if no block
   that is longer than its buffer stops the kernel. *)
XferReturns == pc # "idle" ~> pc = "idle" \/ (pc = "oops" /\ ~BlocksFit)

-----------------------------------------------------------------------------
(* The driver implements the contract of an i2c adapter. *)
Adapter == INSTANCE I2cAdapter WITH
  busy   <- IF pc = "idle" THEN "no" ELSE "yes",
  num    <- Len(msgs),
  done   <- Done,
  result <- IF pc = "idle" THEN ret ELSE 0

AdapterSpec == Adapter!Spec
===============================================================================
