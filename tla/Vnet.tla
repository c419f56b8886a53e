---------------------------------- MODULE Vnet ----------------------------------
(***************************************************************************)
(* The network device that answers pings to everybody, src/vnet/vnet.c:    *)
(* vnet_send_packet and emulator_rx_packet, with the stack that sends and  *)
(* receives (external).                                                    *)
(*                                                                         *)
(* The core calls vnet_send_packet with the device's lock held and         *)
(* softirqs off: one packet at a time, and what is given to netif_rx is    *)
(* received after it.  Interrupts come between any two steps, and the      *)
(* handlers of other devices allocate skbs.                                *)
(*                                                                         *)
(* Of a packet are kept the addresses, in their order in memory, and the   *)
(* byte the driver looks at, 34 bytes into the frame.  The IP checksum is  *)
(* always rebuilt, and not kept.  The backlog never gets full here.        *)
(*                                                                         *)
(* A definition whose name ends in _Bug is the definition that follows it  *)
(* with a mistake in it; no specification uses it.                         *)
(***************************************************************************)
EXTENDS Integers, Sequences

CONSTANTS
  Us, Peers,   \* addresses: the device's, and those that packets are sent to
  Lengths,     \* lengths of frames
  MaxPackets   \* bound on the packets that are sent

ASSUME AddressesAssumption == Us \notin Peers
ASSUME LengthsAssumption   == Lengths \subseteq Nat
ASSUME BoundAssumption     == MaxPackets \in Nat

VARIABLES
  pc,          \* the next step of vnet_send_packet; "idle": it does not run
  stopped,     \* the queue of the device is stopped
  data,        \* the packet in hand, as it is in memory
  skb_len,     \* what skb->len reads as
  stats,       \* dev->stats
  backlog,     \* packets given to netif_rx and not yet received, with their lengths
  received,    \* packets the stack has received
  crashed,     \* a NULL pointer was followed
  \* History, which no step reads but to count up to MaxPackets.
  due,         \* the totals of the packets that were sent
  asked,       \* those of them that are to be answered, with their lengths
  reused       \* an skb was in use again when its length was counted

vars == <<pc, stopped, data, skb_len, stats, backlog, received, crashed, due, asked, reused>>

ECHO  == 8
REPLY == 0
Types == {ECHO, REPLY, 3}
NONE  == [type |-> -1]

Init ==
  /\ pc = "idle" /\ stopped = FALSE /\ data = NONE /\ skb_len = 0
  /\ stats = [tx_packets |-> 0, tx_bytes |-> 0, rx_packets |-> 0, rx_bytes |-> 0]
  /\ backlog = <<>> /\ received = <<>> /\ crashed = FALSE
  /\ due = [tx_packets |-> 0, tx_bytes |-> 0, rx_bytes |-> 0] /\ asked = <<>> /\ reused = FALSE

Count(dir, bytes) ==
  IF dir = "tx" THEN [stats EXCEPT !.tx_packets = @ + 1, !.tx_bytes = @ + bytes]
                ELSE [stats EXCEPT !.rx_packets = @ + 1, !.rx_bytes = @ + bytes]

-----------------------------------------------------------------------------
(* The stack sends a packet and the core calls vnet_send_packet, which stops
   the queue. *)
Send(peer, type, len) ==
  /\ ~crashed /\ pc = "idle" /\ ~stopped /\ due.tx_packets < MaxPackets
  /\ LET packet == [h_dest |-> peer, h_source |-> Us, saddr |-> Us, daddr |-> peer, type |-> type]
     IN  /\ data' = packet
         /\ asked' = IF type = ECHO THEN Append(asked, [packet |-> packet, len |-> len]) ELSE asked
  /\ due' = [tx_packets |-> due.tx_packets + 1, tx_bytes |-> due.tx_bytes + len,
             rx_bytes |-> due.rx_bytes + (IF type = ECHO THEN len ELSE 0)]
  /\ skb_len' = len
  /\ stopped' = TRUE /\ pc' = "test"
  /\ UNCHANGED <<stats, backlog, received, crashed, reused>>

(* One address is overwritten before it is copied. *)
Mirror_Bug(p) ==
  [h_dest |-> p.h_source, h_source |-> p.h_dest, saddr |-> p.daddr, daddr |-> p.daddr, type |-> REPLY]

(* The reply to p: the addresses change places, the type is 0. *)
Mirror(p) ==
  [h_dest |-> p.h_source, h_source |-> p.h_dest, saddr |-> p.daddr, daddr |-> p.saddr, type |-> REPLY]

(* `*type == 0x8', whatever the packet is. *)
Answered(p) == p.type = ECHO

(* emulator_rx_packet: the reply is made in the packet that is being sent, and
   a copy of it is received.  dev_alloc_skb is not tested. *)
emulator_rx_packet ==
  /\ ~crashed /\ pc = "test" /\ Answered(data)
  /\ data' = Mirror(data)
  /\ \/ /\ backlog' = Append(backlog, [packet |-> data', len |-> skb_len])
        /\ stats' = Count("rx", skb_len)
        /\ pc' = "free" /\ UNCHANGED crashed
     \/ /\ crashed' = TRUE
        /\ UNCHANGED <<backlog, stats, pc>>
  /\ UNCHANGED <<stopped, skb_len, received, due, asked, reused>>

(* The byte is something else. *)
NotAnswered ==
  /\ ~crashed /\ pc = "test" /\ ~Answered(data)
  /\ pc' = "free"
  /\ UNCHANGED <<stopped, data, skb_len, stats, backlog, received, crashed, due, asked, reused>>

(* dev_kfree_skb. *)
Free ==
  /\ ~crashed /\ pc = "free"
  /\ pc' = "wake"
  /\ UNCHANGED <<stopped, data, skb_len, stats, backlog, received, crashed, due, asked, reused>>

(* The handler of another device (external) gets the freed skb, for a packet of
   its own. *)
Reuse(len) ==
  /\ ~crashed /\ pc \in {"wake", "count"} /\ ~reused
  /\ skb_len' = len /\ reused' = TRUE
  /\ UNCHANGED <<pc, stopped, data, stats, backlog, received, crashed, due, asked>>

(* The queue is not woken. *)
Wake_Bug ==
  /\ ~crashed /\ pc = "wake"
  /\ pc' = "count"
  /\ UNCHANGED <<stopped, data, skb_len, stats, backlog, received, crashed, due, asked, reused>>

(* netif_wake_queue. *)
Wake ==
  /\ ~crashed /\ pc = "wake"
  /\ stopped' = FALSE /\ pc' = "count"
  /\ UNCHANGED <<data, skb_len, stats, backlog, received, crashed, due, asked, reused>>

(* The packet is counted twice when it was answered. *)
CountTx_Bug ==
  /\ ~crashed /\ pc = "count"
  /\ stats' = [Count("tx", skb_len) EXCEPT !.tx_bytes = @ + (IF data.type = REPLY THEN skb_len ELSE 0)]
  /\ pc' = "idle"
  /\ UNCHANGED <<stopped, data, skb_len, backlog, received, crashed, due, asked, reused>>

(* The statistics, with the length of the skb that was freed. *)
CountTx ==
  /\ ~crashed /\ pc = "count"
  /\ stats' = Count("tx", skb_len)
  /\ pc' = "idle"
  /\ UNCHANGED <<stopped, data, skb_len, backlog, received, crashed, due, asked, reused>>

vnet_send_packet == emulator_rx_packet \/ NotAnswered \/ Free \/ Wake \/ CountTx

(* The stack receives (external). *)
Receive ==
  /\ ~crashed /\ pc = "idle" /\ backlog # <<>>
  /\ received' = Append(received, Head(backlog)) /\ backlog' = Tail(backlog)
  /\ UNCHANGED <<pc, stopped, data, skb_len, stats, crashed, due, asked, reused>>

Next ==
  \/ \E peer \in Peers, type \in Types, len \in Lengths : Send(peer, type, len)
  \/ vnet_send_packet
  \/ \E len \in Lengths : Reuse(len)
  \/ Receive

Fairness == WF_vars(vnet_send_packet) /\ WF_vars(Receive)

Spec == Init /\ [][Next]_vars /\ Fairness

-----------------------------------------------------------------------------
Packets == [h_dest : Peers \cup {Us}, h_source : Peers \cup {Us},
            saddr : Peers \cup {Us}, daddr : Peers \cup {Us}, type : Types]
Frames  == [packet : Packets, len : Lengths]

TypeOK ==
  /\ pc \in {"idle", "test", "free", "wake", "count"}
  /\ stopped \in BOOLEAN /\ crashed \in BOOLEAN /\ reused \in BOOLEAN
  /\ data \in Packets \cup {NONE} /\ (pc # "idle" => data # NONE)
  /\ asked \in Seq(Frames) /\ backlog \in Seq(Frames) /\ received \in Seq(Frames)
  /\ skb_len \in Lengths \cup {0}
  /\ stats \in [tx_packets : Nat, tx_bytes : Nat, rx_packets : Nat, rx_bytes : Nat]
  /\ due \in [tx_packets : Nat, tx_bytes : Nat, rx_bytes : Nat]

(* Frame f answers frame e: it is as long, comes to us from where e went, and
   its byte says that it is a reply. *)
Answers(f, e) ==
  /\ f.packet.type = REPLY /\ f.len = e.len
  /\ f.packet.saddr = e.packet.daddr /\ f.packet.daddr = Us /\ f.packet.h_dest = Us

(* Between packets, the stack has got or will get one packet for each whose byte
   was 8, in their order, of the same length and from the address it was sent
   to, and none besides; and that many are counted. *)
EachEchoAnswered ==
  pc = "idle" =>
    LET got == received \o backlog
    IN  /\ Len(got) = Len(asked) /\ \A i \in 1..Len(got) : Answers(got[i], asked[i])
        /\ stats.rx_packets = Len(got) /\ stats.rx_bytes = due.rx_bytes

(* Between packets the statistics count all that was sent: each packet, and each
   byte unless an interrupt handler got hold of a freed skb before its length
   was counted. *)
BytesCounted ==
  pc = "idle" => /\ stats.tx_packets = due.tx_packets
                 /\ ~reused => stats.tx_bytes = due.tx_bytes

(* The queue never stays stopped, and what was answered is received, unless there
   was no memory for a reply. *)
QueueGoesOn == []<>(crashed \/ (~stopped /\ backlog = <<>>))
===============================================================================
