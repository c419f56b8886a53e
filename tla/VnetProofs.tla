------------------------------ MODULE VnetProofs ------------------------------
(***************************************************************************)
(* Theorems about Vnet, for any addresses and lengths, and any number of   *)
(* packets.                                                                *)
(*                                                                         *)
(* The properties are about the time between packets; the invariant says   *)
(* what is still missing while vnet_send_packet runs: the answer, until    *)
(* the byte has been tested, and the count, until the end.                 *)
(***************************************************************************)
EXTENDS Vnet, TLAPS

(* The packet in hand has still to be answered; it has still to be counted. *)
ToAnswer == pc = "test" /\ data.type = ECHO
ToCount  == pc # "idle"

(* Frames are answered in their order, those that the stack has received first. *)
Matched ==
  /\ \A i \in 1..Len(received) : Answers(received[i], asked[i])
  /\ \A i \in 1..Len(backlog) : Answers(backlog[i], asked[Len(received) + i])

(* The packet that has still to be answered is the last that asks for it, it
   comes from us, and all the others have been answered. *)
Rx ==
  /\ Len(asked) = Len(received) + Len(backlog) + (IF ToAnswer THEN 1 ELSE 0)
  /\ stats.rx_packets = Len(received) + Len(backlog)
  /\ stats.rx_bytes + (IF ToAnswer THEN skb_len ELSE 0) = due.rx_bytes
  /\ pc = "test" => /\ data.saddr = Us /\ data.h_source = Us
                    /\ skb_len \in Lengths
  /\ ToAnswer => asked[Len(asked)] = [packet |-> data, len |-> skb_len]

(* The packet in hand has not been counted, all the others have. *)
Tx ==
  /\ stats.tx_packets + (IF ToCount THEN 1 ELSE 0) = due.tx_packets
  /\ ~reused => stats.tx_bytes + (IF ToCount THEN skb_len ELSE 0) = due.tx_bytes

(* The invariant.  Nothing is promised when a reply could not be allocated, and
   then the function never ends. *)
Inv ==
  /\ TypeOK
  /\ crashed => pc = "test"
  /\ ~crashed => Matched /\ Rx /\ Tx

-----------------------------------------------------------------------------
(* A sequence of frames with one more. *)
LEMMA Appended ==
  ASSUME NEW s \in Seq(Frames), NEW f \in Frames
  PROVE  /\ Append(s, f) \in Seq(Frames) /\ Len(Append(s, f)) = Len(s) + 1
         /\ \A i \in 1..Len(s) : Append(s, f)[i] = s[i]
         /\ Append(s, f)[Len(s) + 1] = f /\ Len(s) \in Nat
OBVIOUS

(* A sequence of frames without the first. *)
LEMMA Shifted ==
  ASSUME NEW s \in Seq(Frames), s # <<>>
  PROVE  /\ Head(s) \in Frames /\ Head(s) = s[1] /\ Len(s) \in Nat \ {0}
         /\ Tail(s) \in Seq(Frames) /\ Len(Tail(s)) = Len(s) - 1
         /\ \A i \in 1..(Len(s) - 1) : Tail(s)[i] = s[i + 1]
OBVIOUS

(* Two sequences of frames, one after the other. *)
LEMMA Joined ==
  ASSUME NEW s \in Seq(Frames), NEW t \in Seq(Frames)
  PROVE  /\ Len(s \o t) = Len(s) + Len(t) /\ Len(s) \in Nat /\ Len(t) \in Nat
         /\ \A i \in 1..Len(s) : (s \o t)[i] = s[i]
         /\ \A i \in 1..Len(t) : (s \o t)[Len(s) + i] = t[i]
OBVIOUS

(* What the types say of the numbers, and of the packet in hand. *)
LEMMA Numbers ==
  ASSUME TypeOK
  PROVE  /\ stats.tx_packets \in Nat /\ stats.tx_bytes \in Nat
         /\ stats.rx_packets \in Nat /\ stats.rx_bytes \in Nat
         /\ due.tx_packets \in Nat /\ due.tx_bytes \in Nat /\ due.rx_bytes \in Nat
         /\ skb_len \in Nat /\ Lengths \subseteq Nat
         /\ Len(asked) \in Nat /\ Len(backlog) \in Nat /\ Len(received) \in Nat
         /\ pc # "idle" => data \in Packets
BY LengthsAssumption DEF TypeOK

(* What the counters can be. *)
Stats == [tx_packets : Nat, tx_bytes : Nat, rx_packets : Nat, rx_bytes : Nat]

(* Counting adds to two of the four numbers. *)
LEMMA Counts ==
  ASSUME TypeOK, NEW n \in Nat
  PROVE  /\ Count("tx", n) \in Stats /\ Count("rx", n) \in Stats
         /\ Count("tx", n).tx_packets = stats.tx_packets + 1
         /\ Count("tx", n).tx_bytes = stats.tx_bytes + n
         /\ Count("tx", n).rx_packets = stats.rx_packets
         /\ Count("tx", n).rx_bytes = stats.rx_bytes
         /\ Count("rx", n).rx_packets = stats.rx_packets + 1
         /\ Count("rx", n).rx_bytes = stats.rx_bytes + n
         /\ Count("rx", n).tx_packets = stats.tx_packets
         /\ Count("rx", n).tx_bytes = stats.tx_bytes
<1>1. stats \in Stats
  BY DEF TypeOK, Stats
<1>2. /\ Count("tx", n) = [stats EXCEPT !.tx_packets = @ + 1, !.tx_bytes = @ + n]
      /\ Count("rx", n) = [stats EXCEPT !.rx_packets = @ + 1, !.rx_bytes = @ + n]
  BY DEF Count
<1>3. /\ stats.tx_packets \in Nat /\ stats.tx_bytes \in Nat
      /\ stats.rx_packets \in Nat /\ stats.rx_bytes \in Nat
  BY Numbers
<1>4. /\ stats.tx_packets + 1 \in Nat /\ stats.tx_bytes + n \in Nat
      /\ stats.rx_packets + 1 \in Nat /\ stats.rx_bytes + n \in Nat
  BY <1>3
<1>5. /\ Count("tx", n) \in Stats
      /\ Count("tx", n).tx_packets = stats.tx_packets + 1
      /\ Count("tx", n).tx_bytes = stats.tx_bytes + n
      /\ Count("tx", n).rx_packets = stats.rx_packets
      /\ Count("tx", n).rx_bytes = stats.rx_bytes
  <2>1. PICK x \in Nat, y \in Nat : x = stats.tx_packets + 1 /\ y = stats.tx_bytes + n
    BY <1>4
  <2>2. Count("tx", n) = [stats EXCEPT !.tx_packets = x, !.tx_bytes = y]
    BY <1>2, <2>1
  <2>3. QED BY <1>1, <2>1, <2>2 DEF Stats
<1>6. /\ Count("rx", n) \in Stats
      /\ Count("rx", n).rx_packets = stats.rx_packets + 1
      /\ Count("rx", n).rx_bytes = stats.rx_bytes + n
      /\ Count("rx", n).tx_packets = stats.tx_packets
      /\ Count("rx", n).tx_bytes = stats.tx_bytes
  <2>1. PICK x \in Nat, y \in Nat : x = stats.rx_packets + 1 /\ y = stats.rx_bytes + n
    BY <1>4
  <2>2. Count("rx", n) = [stats EXCEPT !.rx_packets = x, !.rx_bytes = y]
    BY <1>2, <2>1
  <2>3. QED BY <1>1, <2>1, <2>2 DEF Stats
<1>7. QED BY <1>5, <1>6

-----------------------------------------------------------------------------
(* A packet comes in hand: if it asks for an answer it is the last that does. *)
LEMMA SendStep ==
  ASSUME Inv, NEW peer \in Peers, NEW type \in Types, NEW len \in Lengths, Send(peer, type, len)
  PROVE  Inv'
<1> DEFINE p == [h_dest |-> peer, h_source |-> Us, saddr |-> Us, daddr |-> peer, type |-> type]
           f == [packet |-> p, len |-> len]
<1>1. /\ TypeOK /\ Matched /\ Rx /\ Tx /\ pc = "idle" /\ ~crashed
      /\ pc' = "test" /\ data' = p /\ skb_len' = len /\ stopped' = TRUE
      /\ asked' = IF type = ECHO THEN Append(asked, f) ELSE asked
      /\ due' = [tx_packets |-> due.tx_packets + 1, tx_bytes |-> due.tx_bytes + len,
                 rx_bytes |-> due.rx_bytes + (IF type = ECHO THEN len ELSE 0)]
      /\ UNCHANGED <<stats, backlog, received, crashed, reused>>
  BY DEF Send, Inv
<1>2. p \in Packets /\ f \in Frames /\ p # NONE /\ len \in Nat
  BY LengthsAssumption DEF Packets, Frames, NONE, Types, ECHO, REPLY
<1>3. p.type = type /\ p.saddr = Us /\ p.h_source = Us
  OBVIOUS
<1>4. Len(asked) = Len(received) + Len(backlog)
  BY <1>1, Numbers DEF Rx, ToAnswer
<1>5. /\ asked' \in Seq(Frames)
      /\ \A i \in 1..Len(asked) : asked'[i] = asked[i]
      /\ Len(asked') = Len(asked) + (IF type = ECHO THEN 1 ELSE 0)
      /\ type = ECHO => asked'[Len(asked) + 1] = f
  BY <1>1, <1>2, Appended DEF TypeOK
<1> HIDE DEF p, f
<1>6. TypeOK'
  <2>1. due' \in [tx_packets : Nat, tx_bytes : Nat, rx_bytes : Nat]
    <3>1. /\ due.tx_packets \in Nat /\ due.tx_bytes \in Nat /\ due.rx_bytes \in Nat
          /\ len \in Nat /\ (IF type = ECHO THEN len ELSE 0) \in Nat
      BY <1>1, <1>2, Numbers
    <3>2. /\ due.tx_packets + 1 \in Nat /\ due.tx_bytes + len \in Nat
          /\ due.rx_bytes + (IF type = ECHO THEN len ELSE 0) \in Nat
      BY <3>1
    <3>3. QED BY <1>1, <3>2
  <2>2. QED BY <1>1, <1>2, <1>5, <2>1 DEF TypeOK
<1>7. Matched'
  <2>1. \A i \in 1..Len(received) : i \in 1..Len(asked)
    BY <1>1, <1>4, Numbers
  <2>2. \A i \in 1..Len(backlog) : Len(received) + i \in 1..Len(asked)
    BY <1>1, <1>4, Numbers
  <2>3. QED BY <1>1, <1>5, <2>1, <2>2 DEF Matched
<1>8. Rx'
  <2>1. ToAnswer' <=> type = ECHO
    BY <1>1, <1>3 DEF ToAnswer
  <2>2. ~ToAnswer
    BY <1>1 DEF ToAnswer
  <2>3. Len(asked)' = Len(received)' + Len(backlog)' + (IF ToAnswer' THEN 1 ELSE 0)
    BY <1>1, <1>4, <1>5, <2>1
  <2>4. stats.rx_packets' = Len(received)' + Len(backlog)'
    BY <1>1 DEF Rx
  <2>5. stats.rx_bytes' + (IF ToAnswer' THEN skb_len' ELSE 0) = due'.rx_bytes
    <3>1. stats.rx_bytes = due.rx_bytes
      BY <1>1, <2>2, Numbers DEF Rx
    <3>2. due'.rx_bytes = due.rx_bytes + (IF type = ECHO THEN len ELSE 0)
      BY <1>1
    <3>3. QED BY <1>1, <2>1, <3>1, <3>2
  <2>6. ToAnswer' => asked[Len(asked)]' = [packet |-> data', len |-> skb_len']
    BY <1>1, <1>5, <2>1 DEF f
  <2>7. QED BY <1>1, <1>3, <2>3, <2>4, <2>5, <2>6 DEF Rx
<1>9. Tx'
  <2>1. stats.tx_packets = due.tx_packets /\ (~reused => stats.tx_bytes = due.tx_bytes)
    BY <1>1, Numbers DEF Tx, ToCount
  <2>2. due'.tx_packets = due.tx_packets + 1 /\ due'.tx_bytes = due.tx_bytes + len
    BY <1>1
  <2>3. ToCount'
    BY <1>1 DEF ToCount
  <2>4. QED BY <1>1, <2>1, <2>2, <2>3 DEF Tx
<1>10. QED BY <1>1, <1>6, <1>7, <1>8, <1>9 DEF Inv

(* The answer is the last frame of the backlog, to the last that asks for one. *)
LEMMA AnswerStep ==
  ASSUME Inv, emulator_rx_packet PROVE Inv'
<1> DEFINE p == Mirror(data)
           f == [packet |-> p, len |-> skb_len]
<1>1. /\ TypeOK /\ Matched /\ Rx /\ Tx /\ pc = "test" /\ ~crashed /\ ToAnswer
      /\ data' = p /\ UNCHANGED <<stopped, skb_len, received, due, asked, reused>>
  BY DEF emulator_rx_packet, Inv, Answered, ToAnswer
<1>2. data \in Packets /\ data.saddr = Us /\ data.h_source = Us /\ skb_len \in Lengths
  BY <1>1, Numbers DEF Rx
<1>3. p \in Packets /\ p # NONE /\ f \in Frames
  BY <1>2 DEF Mirror, Packets, Frames, Types, ECHO, REPLY, NONE
<1>4. Answers(f, [packet |-> data, len |-> skb_len])
  BY <1>2 DEF Answers, Mirror
<1> HIDE DEF p, f
<1>5. CASE crashed' = TRUE /\ UNCHANGED <<backlog, stats, pc>>
  <2>1. TypeOK'
    BY <1>1, <1>3, <1>5 DEF TypeOK
  <2>2. QED BY <1>1, <1>5, <2>1 DEF Inv
<1>6. CASE /\ backlog' = Append(backlog, f) /\ stats' = Count("rx", skb_len)
           /\ pc' = "free" /\ UNCHANGED crashed
  <2>1. /\ backlog' \in Seq(Frames) /\ Len(backlog') = Len(backlog) + 1
        /\ \A i \in 1..Len(backlog) : backlog'[i] = backlog[i]
        /\ backlog'[Len(backlog) + 1] = f
    BY <1>1, <1>3, <1>6, Appended DEF TypeOK
  <2>2. /\ stats' \in Stats
        /\ stats'.rx_packets = stats.rx_packets + 1 /\ stats'.rx_bytes = stats.rx_bytes + skb_len
        /\ stats'.tx_packets = stats.tx_packets /\ stats'.tx_bytes = stats.tx_bytes
    BY <1>1, <1>6, Numbers, Counts
  <2>3. TypeOK'
    BY <1>1, <1>3, <1>6, <2>1, <2>2 DEF TypeOK, Stats
  <2>4. Len(asked) = Len(received) + Len(backlog) + 1
    BY <1>1 DEF Rx
  <2>5. Matched'
    <3>1. ASSUME NEW i \in 1..Len(backlog') PROVE Answers(backlog'[i], asked[Len(received) + i])
      <4>1. CASE i \in 1..Len(backlog)
        BY <1>1, <2>1, <4>1 DEF Matched
      <4>2. CASE i = Len(backlog) + 1
        <5>1. Len(received) + i = Len(asked)
          BY <1>1, <2>4, <4>2, Numbers
        <5>2. asked[Len(asked)] = [packet |-> data, len |-> skb_len]
          BY <1>1 DEF Rx
        <5>3. QED BY <1>4, <2>1, <4>2, <5>1, <5>2
      <4>3. QED BY <1>1, <2>1, <4>1, <4>2, Numbers
    <3>2. QED BY <1>1, <3>1 DEF Matched
  <2>6. Rx'
    <3>1. ~ToAnswer' /\ pc' # "test"
      BY <1>6 DEF ToAnswer
    <3>2. stats.rx_packets = Len(received) + Len(backlog) /\ stats.rx_bytes + skb_len = due.rx_bytes
      BY <1>1 DEF Rx
    <3>3. QED BY <1>1, <2>1, <2>2, <2>4, <3>1, <3>2, Numbers DEF Rx
  <2>7. Tx'
    BY <1>1, <1>6, <2>2 DEF Tx, ToCount
  <2>8. QED BY <1>1, <1>6, <2>3, <2>5, <2>6, <2>7 DEF Inv
<1>7. QED BY <1>5, <1>6 DEF emulator_rx_packet, p, f

(* The other steps of the function before the end: the packet needs no answer
   any more, and is still to be counted. *)
LEMMA OtherSteps ==
  ASSUME Inv, NotAnswered \/ Free \/ Wake PROVE Inv'
<1>1. /\ TypeOK /\ Matched /\ Rx /\ Tx /\ ~crashed /\ ~ToAnswer
      /\ pc # "idle" /\ pc' \in {"free", "wake", "count"} /\ stopped' \in {stopped, FALSE}
      /\ UNCHANGED <<data, skb_len, stats, backlog, received, crashed, due, asked, reused>>
  BY DEF NotAnswered, Free, Wake, Inv, Answered, ToAnswer
<1>2. ~ToAnswer' /\ pc' # "test" /\ ToCount /\ ToCount'
  BY <1>1 DEF ToAnswer, ToCount
<1>3. TypeOK'
  BY <1>1 DEF TypeOK
<1>4. Matched'
  BY <1>1 DEF Matched
<1>5. Rx'
  BY <1>1, <1>2 DEF Rx
<1>6. Tx'
  BY <1>1, <1>2 DEF Tx
<1>7. QED BY <1>1, <1>3, <1>4, <1>5, <1>6 DEF Inv

(* Another packet's length can only spoil the count of bytes. *)
LEMMA ReuseStep ==
  ASSUME Inv, NEW len \in Lengths, Reuse(len) PROVE Inv'
<1>1. /\ TypeOK /\ Matched /\ Rx /\ Tx /\ ~crashed /\ pc \in {"wake", "count"}
      /\ skb_len' = len /\ reused' = TRUE
      /\ UNCHANGED <<pc, stopped, data, stats, backlog, received, crashed, due, asked>>
  BY DEF Reuse, Inv
<1>2. ~ToAnswer /\ ~ToAnswer' /\ ToCount /\ ToCount'
  BY <1>1 DEF ToAnswer, ToCount
<1>3. TypeOK'
  BY <1>1 DEF TypeOK
<1>4. Matched'
  BY <1>1 DEF Matched
<1>5. Rx'
  BY <1>1, <1>2 DEF Rx
<1>6. Tx'
  BY <1>1, <1>2 DEF Tx
<1>7. QED BY <1>1, <1>3, <1>4, <1>5, <1>6 DEF Inv

(* At the end the packet is counted. *)
LEMMA CountStep ==
  ASSUME Inv, CountTx PROVE Inv'
<1>1. /\ TypeOK /\ Matched /\ Rx /\ Tx /\ ~crashed /\ pc = "count" /\ pc' = "idle"
      /\ stats' = Count("tx", skb_len)
      /\ UNCHANGED <<stopped, data, skb_len, backlog, received, crashed, due, asked, reused>>
  BY DEF CountTx, Inv
<1>2. /\ stats' \in Stats
      /\ stats'.tx_packets = stats.tx_packets + 1 /\ stats'.tx_bytes = stats.tx_bytes + skb_len
      /\ stats'.rx_packets = stats.rx_packets /\ stats'.rx_bytes = stats.rx_bytes
  BY <1>1, Numbers, Counts
<1>3. ~ToAnswer /\ ~ToAnswer' /\ ToCount /\ ~ToCount'
  BY <1>1 DEF ToAnswer, ToCount
<1>4. TypeOK'
  BY <1>1, <1>2 DEF TypeOK, Stats
<1>5. Matched'
  BY <1>1 DEF Matched
<1>6. Rx'
  BY <1>1, <1>2, <1>3 DEF Rx
<1>7. Tx'
  BY <1>1, <1>2, <1>3, Numbers DEF Tx
<1>8. QED BY <1>1, <1>4, <1>5, <1>6, <1>7 DEF Inv

(* Receiving moves the first frame of the backlog to the end of what has been
   received, where it answers the same packet. *)
LEMMA ReceiveStep ==
  ASSUME Inv, Receive PROVE Inv'
<1>1. /\ TypeOK /\ Matched /\ Rx /\ Tx /\ ~crashed /\ pc = "idle" /\ backlog # <<>>
      /\ received' = Append(received, Head(backlog)) /\ backlog' = Tail(backlog)
      /\ UNCHANGED <<pc, stopped, data, skb_len, stats, crashed, due, asked, reused>>
  BY DEF Receive, Inv
<1>2. /\ Head(backlog) \in Frames /\ Head(backlog) = backlog[1] /\ Len(backlog) \in Nat \ {0}
      /\ backlog' \in Seq(Frames) /\ Len(backlog') = Len(backlog) - 1
      /\ \A i \in 1..(Len(backlog) - 1) : backlog'[i] = backlog[i + 1]
  BY <1>1, Shifted DEF TypeOK
<1>3. /\ received' \in Seq(Frames) /\ Len(received') = Len(received) + 1 /\ Len(received) \in Nat
      /\ \A i \in 1..Len(received) : received'[i] = received[i]
      /\ received'[Len(received) + 1] = backlog[1]
  BY <1>1, <1>2, Appended DEF TypeOK
<1>4. TypeOK'
  BY <1>1, <1>2, <1>3 DEF TypeOK
<1>5. Matched'
  <2>1. ASSUME NEW i \in 1..Len(received') PROVE Answers(received'[i], asked[i])
    <3>1. CASE i \in 1..Len(received)
      BY <1>1, <1>3, <3>1 DEF Matched
    <3>2. CASE i = Len(received) + 1
      <4>1. 1 \in 1..Len(backlog)
        BY <1>2
      <4>2. QED BY <1>1, <1>3, <3>2, <4>1 DEF Matched
    <3>3. QED BY <1>3, <3>1, <3>2
  <2>2. ASSUME NEW i \in 1..Len(backlog') PROVE Answers(backlog'[i], asked[Len(received') + i])
    <3>1. /\ i \in 1..(Len(backlog) - 1) /\ i + 1 \in 1..Len(backlog)
          /\ Len(received') + i = Len(received) + (i + 1)
      BY <1>2, <1>3
    <3>2. QED BY <1>1, <1>2, <3>1 DEF Matched
  <2>3. QED BY <1>1, <2>1, <2>2 DEF Matched
<1>6. Rx'
  <2>1. ~ToAnswer /\ ~ToAnswer'
    BY <1>1 DEF ToAnswer
  <2>2. Len(received') + Len(backlog') = Len(received) + Len(backlog)
    BY <1>2, <1>3
  <2>3. QED BY <1>1, <2>1, <2>2 DEF Rx
<1>7. Tx'
  BY <1>1 DEF Tx, ToCount
<1>8. QED BY <1>1, <1>4, <1>5, <1>6, <1>7 DEF Inv

-----------------------------------------------------------------------------
(* While vnet_send_packet runs, what has been answered and counted is all but
   the packet in hand. *)
THEOREM InvInvariant == Spec => []Inv
<1>1. Init => Inv
  <2>1. SUFFICES ASSUME Init PROVE Inv
    OBVIOUS
  <2>2. TypeOK
    <3>1. <<>> \in Seq(Frames)
      OBVIOUS
    <3>2. /\ stats \in [tx_packets : Nat, tx_bytes : Nat, rx_packets : Nat, rx_bytes : Nat]
          /\ due \in [tx_packets : Nat, tx_bytes : Nat, rx_bytes : Nat]
      BY <2>1 DEF Init
    <3>3. QED BY <2>1, <3>1, <3>2 DEF Init, TypeOK
  <2>3. Matched /\ Rx /\ Tx
    BY <2>1 DEF Init, Matched, Rx, Tx, ToAnswer, ToCount
  <2>4. QED BY <2>1, <2>2, <2>3 DEF Init, Inv
<1>2. Inv /\ [Next]_vars => Inv'
  <2>1. SUFFICES ASSUME Inv, [Next]_vars PROVE Inv'
    OBVIOUS
  <2>2. CASE \E peer \in Peers, type \in Types, len \in Lengths : Send(peer, type, len)
    BY <2>1, <2>2, SendStep
  <2>3. CASE emulator_rx_packet
    BY <2>1, <2>3, AnswerStep
  <2>4. CASE NotAnswered \/ Free \/ Wake
    BY <2>1, <2>4, OtherSteps
  <2>5. CASE CountTx
    BY <2>1, <2>5, CountStep
  <2>6. CASE \E len \in Lengths : Reuse(len)
    BY <2>1, <2>6, ReuseStep
  <2>7. CASE Receive
    BY <2>1, <2>7, ReceiveStep
  <2>8. CASE UNCHANGED vars
    BY <2>1, <2>8 DEF vars, Inv, TypeOK, Matched, Rx, Tx, ToAnswer, ToCount
  <2>9. QED BY <2>1, <2>2, <2>3, <2>4, <2>5, <2>6, <2>7, <2>8 DEF Next, vnet_send_packet
<1>3. QED BY <1>1, <1>2, PTL DEF Spec

(* The device's state keeps its types. *)
THEOREM TypeCorrect == Spec => []TypeOK
<1>1. Inv => TypeOK
  BY DEF Inv
<1>2. QED BY <1>1, InvInvariant, PTL

(* emulator_rx_packet answers each packet whose byte is 8, once, in their order,
   with the addresses exchanged and the same length, and no other. *)
THEOREM AnswersEachEcho == Spec => []EachEchoAnswered
<1>1. Inv => EachEchoAnswered
  <2>1. SUFFICES ASSUME Inv, pc = "idle"
                 PROVE  LET got == received \o backlog
                        IN  /\ Len(got) = Len(asked)
                            /\ \A i \in 1..Len(got) : Answers(got[i], asked[i])
                            /\ stats.rx_packets = Len(got) /\ stats.rx_bytes = due.rx_bytes
    BY DEF EachEchoAnswered
  <2> DEFINE s == received \o backlog
  <2>2. TypeOK /\ Matched /\ Rx /\ ~ToAnswer
    BY <2>1 DEF Inv, ToAnswer
  <2>3. /\ Len(s) = Len(received) + Len(backlog) /\ Len(received) \in Nat /\ Len(backlog) \in Nat
        /\ \A i \in 1..Len(received) : s[i] = received[i]
        /\ \A i \in 1..Len(backlog) : s[Len(received) + i] = backlog[i]
    BY <2>2, Joined DEF TypeOK
  <2> HIDE DEF s
  <2>4. ASSUME NEW i \in 1..Len(s) PROVE Answers(s[i], asked[i])
    <3>1. CASE i <= Len(received)
      <4>1. i \in 1..Len(received)
        BY <2>3, <3>1
      <4>2. QED BY <2>2, <2>3, <4>1 DEF Matched
    <3>2. CASE i > Len(received)
      <4> DEFINE j == i - Len(received)
      <4>1. j \in 1..Len(backlog) /\ i = Len(received) + j
        BY <2>3, <3>2
      <4> HIDE DEF j
      <4>2. QED BY <2>2, <2>3, <4>1 DEF Matched
    <3>3. QED BY <2>3, <3>1, <3>2
  <2>5. /\ Len(s) = Len(asked) /\ stats.rx_packets = Len(s) /\ stats.rx_bytes = due.rx_bytes
    BY <2>2, <2>3, Numbers DEF Rx
  <2>6. QED BY <2>4, <2>5 DEF s
<1>2. QED BY <1>1, InvInvariant, PTL

(* vnet_send_packet counts each packet once, and its bytes if the freed skb has
   not been in use again. *)
THEOREM CountsWhatWasSent == Spec => []BytesCounted
<1>1. Inv => BytesCounted
  <2>1. SUFFICES ASSUME Inv, pc = "idle"
                 PROVE  /\ stats.tx_packets = due.tx_packets
                        /\ ~reused => stats.tx_bytes = due.tx_bytes
    BY DEF BytesCounted
  <2>2. TypeOK /\ Tx /\ ~ToCount
    BY <2>1 DEF Inv, ToCount
  <2>3. QED BY <2>2, Numbers DEF Tx
<1>2. QED BY <1>1, InvInvariant, PTL
===============================================================================
