------------------------------ MODULE At24Proofs ------------------------------
(***************************************************************************)
(* Proofs about At24, for any number of processes, any counts and          *)
(* positions, any chip and page size and any number of retries.            *)
(***************************************************************************)
EXTENDS At24, TLAPS

(* What has got to the chip or to the user is what the loop has counted, but
   for what timed out, and in a write at most the byte in hand besides; and a
   result that is a count was all that the loop had to do. *)
DataInv ==
  \A p \in Procs :
    /\ pc[p] \in {"read", "write"} => op[p] = pc[p]
    /\ op[p] = "write" =>
         /\ landed[p] \subseteq 0..i[p]
         /\ ~short[p] => 0..(i[p] - 1) \subseteq landed[p]
    /\ op[p] = "read" /\ ~short[p] => landed[p] = 0..(i[p] - 1)
    /\ pc[p] \in {"out", "user"} /\ ret[p] > 0 =>
         ret[p] = count[p] /\ (~short[p] => landed[p] = 0..(ret[p] - 1))

-----------------------------------------------------------------------------
(* From a position to the next page boundary it is at least one byte and at
   most a page. *)
LEMMA NextBoundary ==
  ASSUME NEW a \in Nat
  PROVE  LET len == ((a + PageSize) \div PageSize) * PageSize - a
         IN  len \in 1..PageSize
<1> DEFINE q == (a + PageSize) \div PageSize
<1>1. PageSize \in Nat /\ PageSize > 0
  BY SizesAssumption
<1>2. q \in Int /\ a + PageSize = q * PageSize + ((a + PageSize) % PageSize)
  BY <1>1, Z3
<1>3. (a + PageSize) % PageSize \in 0..(PageSize - 1)
  BY <1>1
<1> QED
  BY <1>1, <1>2, <1>3, Z3

(* at24_read asks for at least one byte, for no more than a page, and for no
   more than are left. *)
LEMMA BlockLenRange ==
  ASSUME NEW p \in Procs, TypeOK, i[p] < count[p]
  PROVE  BlockLen(p) \in 1..PageSize /\ BlockLen(p) <= count[p] - i[p]
<1>1. pos[p] + i[p] \in Nat /\ i[p] \in Nat /\ count[p] \in Nat
  BY DEF TypeOK
<1> QED
  BY <1>1, NextBoundary, SizesAssumption DEF BlockLen

(* A number times PageSize plus less than PageSize has that number as its
   quotient. *)
LEMMA QuotientUnique ==
  ASSUME NEW b \in Nat, NEW k \in Int, k * PageSize <= b, b < k * PageSize + PageSize
  PROVE  b \div PageSize = k
<1> DEFINE q == b \div PageSize
<1>1. PageSize \in Nat /\ PageSize > 0
  BY SizesAssumption
<1>2. q \in Int /\ q * PageSize <= b /\ b < q * PageSize + PageSize
  <2>1. q \in Int /\ b = q * PageSize + (b % PageSize)
    BY <1>1, Z3
  <2>2. b % PageSize \in 0..(PageSize - 1)
    BY <1>1
  <2> QED
    BY <1>1, <2>1, <2>2, Z3
<1>3. ~(q < k)
  <2>1. ASSUME q + 1 <= k PROVE FALSE
    <3>1. (q + 1) * PageSize <= k * PageSize
      BY <1>1, <1>2, <2>1, Z3
    <3> QED
      BY <1>1, <1>2, <3>1, Z3
  <2> QED
    BY <1>2, <2>1
<1>4. ~(k < q)
  <2>1. ASSUME k + 1 <= q PROVE FALSE
    <3>1. (k + 1) * PageSize <= q * PageSize
      BY <1>1, <1>2, <2>1, Z3
    <3> QED
      BY <1>1, <1>2, <3>1, Z3
  <2> QED
    BY <1>2, <2>1
<1> QED
  BY <1>2, <1>3, <1>4

(* All bytes from a position up to the next page boundary are in its page. *)
LEMMA SamePage ==
  ASSUME NEW a \in Nat, NEW b \in Nat, a <= b,
         b < ((a + PageSize) \div PageSize) * PageSize
  PROVE  a \div PageSize = b \div PageSize
<1> DEFINE q == (a + PageSize) \div PageSize
<1>1. PageSize \in Nat /\ PageSize > 0
  BY SizesAssumption
<1>2. q \in Int /\ a + PageSize = q * PageSize + ((a + PageSize) % PageSize)
  BY <1>1, Z3
<1>3. (a + PageSize) % PageSize \in 0..(PageSize - 1)
  BY <1>1
<1>4. q - 1 \in Int /\ (q - 1) * PageSize = q * PageSize - PageSize
  BY <1>1, <1>2, Z3
<1>5. q * PageSize \in Int /\ (q - 1) * PageSize \in Int
  BY <1>1, <1>2
<1>6. /\ (q - 1) * PageSize <= a /\ a < (q - 1) * PageSize + PageSize
      /\ (q - 1) * PageSize <= b /\ b < (q - 1) * PageSize + PageSize
  BY <1>1, <1>2, <1>3, <1>4, <1>5, Z3
<1>7. a \div PageSize = q - 1
  BY <1>4, <1>6, QuotientUnique
<1>8. b \div PageSize = q - 1
  BY <1>4, <1>6, QuotientUnique
<1> QED
  BY <1>7, <1>8

(* Every step keeps the types, the counters within count and Tries. *)
LEMMA TypeStep ==
  ASSUME TypeOK, [Next]_vars
  PROVE  TypeOK'
<1>1. CASE CycleEnds
  BY <1>1 DEF TypeOK, CycleEnds, proc
<1>2. ASSUME NEW p \in Procs, at24_open(p) PROVE TypeOK'
  BY <1>2 DEF TypeOK, at24_open, Set
<1>3. ASSUME NEW p \in Procs, NEW o \in {"read", "write"}, NEW n \in Counts, Call(p, o, n)
      PROVE  TypeOK'
  BY <1>3, CountsAssumption, TriesAssumption DEF TypeOK, Call, Set, Leave
<1>4. ASSUME NEW p \in Procs, LoopEnds(p) PROVE TypeOK'
  BY <1>4 DEF TypeOK, LoopEnds, Set, Leave
<1>5. ASSUME NEW p \in Procs, Fault(p) PROVE TypeOK'
  BY <1>5 DEF TypeOK, Fault, Set, Leave, EFAULT
<1>6. ASSUME NEW p \in Procs, ReadBlock(p) PROVE TypeOK'
  <2>1. BlockLen(p) \in Nat /\ i[p] \in Nat /\ i[p] + BlockLen(p) <= count[p] /\ count[p] \in Nat
    BY <1>6, BlockLenRange, SizesAssumption DEF TypeOK, ReadBlock
  <2>2. /\ landed' \in [Procs -> SUBSET Nat] /\ short' \in [Procs -> BOOLEAN]
        /\ \A q \in Procs : landed'[q] \subseteq 0..(count[q] - 1)
    <3>0. \E n \in 0..BlockLen(p) : Arrive(p, n)
      <4>1. BlockLen(p) \in 0..BlockLen(p)
        BY <2>1
      <4> QED
        BY <1>6, <4>1, Zenon DEF ReadBlock
    <3>1. PICK n \in 0..BlockLen(p) : Arrive(p, n)
      BY <3>0
    <3>2. i[p]..(i[p] + n - 1) \subseteq 0..(count[p] - 1)
      BY <2>1
    <3>3. /\ landed' \in [Procs -> SUBSET Nat]
          /\ \A q \in Procs : landed'[q] \subseteq 0..(count[q] - 1)
      BY <3>1, <3>2 DEF TypeOK, Arrive, Set
    <3>4. short' \in [Procs -> BOOLEAN]
      BY <1>6 DEF TypeOK, ReadBlock, Set
    <3> QED
      BY <3>3, <3>4
  <2>3. /\ err_count' \in [Procs -> 0..Tries] /\ i' \in [Procs -> Nat]
        /\ \A q \in Procs : i'[q] <= count[q]
    BY <1>6, <2>1, TriesAssumption DEF TypeOK, ReadBlock, Set
  <2> QED
    BY <1>6, <2>2, <2>3 DEF TypeOK, ReadBlock
<1>7. ASSUME NEW p \in Procs, ReadFails(p) PROVE TypeOK'
  BY <1>7 DEF TypeOK, ReadFails, Set, Leave, EFAULT
<1>8. ASSUME NEW p \in Procs, WriteFails(p) PROVE TypeOK'
  <2>1. /\ writing' \in BOOLEAN /\ landed' \in [Procs -> SUBSET Nat]
        /\ \A q \in Procs : landed'[q] \subseteq 0..(count[q] - 1)
    <3>1. CASE Lands(p)
      BY <1>8, <3>1 DEF TypeOK, WriteFails, Lands, Set
    <3>2. CASE Misses
      BY <3>2 DEF TypeOK, Misses
    <3> QED
      BY <1>8, <3>1, <3>2 DEF WriteFails
  <2>2. /\ err_count' \in [Procs -> 0..Tries] /\ ret' \in [Procs -> Int]
        /\ pc' \in [Procs -> {"user", "read", "write", "out"}]
    BY <1>8, TriesAssumption DEF TypeOK, WriteFails, Set, Leave, EIO
  <2> QED
    BY <1>8, <2>1, <2>2 DEF TypeOK, WriteFails, Set
<1>9. ASSUME NEW p \in Procs, WriteByte(p) PROVE TypeOK'
  <2>1. /\ writing' \in BOOLEAN /\ landed' \in [Procs -> SUBSET Nat]
        /\ short' \in [Procs -> BOOLEAN]
        /\ \A q \in Procs : landed'[q] \subseteq 0..(count[q] - 1)
    <3>1. CASE Lands(p) /\ UNCHANGED short
      BY <1>9, <3>1 DEF TypeOK, WriteByte, Lands, Set
    <3>2. CASE Misses /\ short' = Set(short, p, TRUE)
      BY <3>2 DEF TypeOK, Misses, Set
    <3>3. CASE Lands(p) /\ short' = Set(short, p, TRUE)
      BY <1>9, <3>3 DEF TypeOK, WriteByte, Lands, Set
    <3> QED
      BY <1>9, <3>1, <3>2, <3>3 DEF WriteByte
  <2>2. err_count' \in [Procs -> 0..Tries] /\ i' \in [Procs -> Nat]
    BY <1>9, TriesAssumption DEF TypeOK, WriteByte, Set
  <2>3. \A q \in Procs : i'[q] <= count[q]
    BY <1>9 DEF TypeOK, WriteByte, Set
  <2> QED
    BY <1>9, <2>1, <2>2, <2>3 DEF TypeOK, WriteByte, Set
<1>10. ASSUME NEW p \in Procs, Return(p) PROVE TypeOK'
  BY <1>10 DEF TypeOK, Return, Set
<1>11. CASE UNCHANGED vars
  BY <1>11 DEF TypeOK, vars, proc
<1> QED
  BY <1>1, <1>2, <1>3, <1>4, <1>5, <1>6, <1>7, <1>8, <1>9, <1>10, <1>11
  DEF Next, InCall

(* Every step keeps the data where the loop says it is. *)
LEMMA DataStep ==
  ASSUME TypeOK, DataInv, [Next]_vars
  PROVE  DataInv'
<1>1. CASE CycleEnds
  BY <1>1 DEF DataInv, TypeOK, CycleEnds, proc
<1>2. ASSUME NEW p \in Procs, at24_open(p) PROVE DataInv'
  BY <1>2 DEF DataInv, TypeOK, at24_open, Set
<1>3. ASSUME NEW p \in Procs, NEW o \in {"read", "write"}, NEW n \in Counts, Call(p, o, n)
      PROVE  DataInv'
  BY <1>3, CountsAssumption DEF DataInv, TypeOK, Call, Set, Leave
<1>4. ASSUME NEW p \in Procs, LoopEnds(p) PROVE DataInv'
  <2>1. i[p] = count[p] /\ i[p] \in Nat /\ landed[p] \subseteq 0..(count[p] - 1)
    <3>1. i[p] \in Nat /\ count[p] \in Nat /\ i[p] <= count[p] /\ landed[p] \subseteq 0..(count[p] - 1)
      BY DEF TypeOK
    <3>2. i[p] >= count[p]
      BY <1>4 DEF LoopEnds
    <3> QED
      BY <3>1, <3>2
  <2>2. ~short[p] => landed[p] = 0..(i[p] - 1)
    <3>1. op[p] \in {"read", "write"}
      BY <1>4 DEF DataInv, LoopEnds
    <3>2. ~short[p] => 0..(i[p] - 1) \subseteq landed[p]
      BY <3>1 DEF DataInv
    <3>3. landed[p] \subseteq 0..(i[p] - 1)
      BY <2>1
    <3> QED
      BY <3>2, <3>3
  <2>3. /\ pc'[p] = "out" /\ ret'[p] = i[p] /\ UNCHANGED <<op, count, i, landed, short>>
        /\ \A q \in Procs \ {p} : pc'[q] = pc[q] /\ ret'[q] = ret[q]
    BY <1>4 DEF TypeOK, LoopEnds, Set, Leave
  <2>4. ret'[p] = count[p] /\ (~short[p] => landed[p] = 0..(ret'[p] - 1))
    BY <2>1, <2>2, <2>3, Zenon
  <2> QED
    BY <2>3, <2>4 DEF DataInv
<1>5. ASSUME NEW p \in Procs, Fault(p) PROVE DataInv'
  BY <1>5 DEF DataInv, TypeOK, Fault, Set, Leave, EFAULT
<1>6. ASSUME NEW p \in Procs, ReadBlock(p) PROVE DataInv'
  <2>1. BlockLen(p) \in Nat /\ BlockLen(p) > 0 /\ i[p] \in Nat
    BY <1>6, BlockLenRange, SizesAssumption DEF TypeOK, ReadBlock
  <2>2. pc[p] = "read" /\ op[p] = "read" /\ UNCHANGED <<pc, op, count, ret>>
    BY <1>6 DEF DataInv, ReadBlock
  <2>3. i' = Set(i, p, i[p] + BlockLen(p)) /\ i'[p] = i[p] + BlockLen(p)
    BY <1>6 DEF TypeOK, ReadBlock, Set
  <2>4. ~short'[p] => landed'[p] = 0..(i'[p] - 1)
    <3>1. CASE Arrive(p, BlockLen(p)) /\ UNCHANGED short
      <4>1. SUFFICES ASSUME ~short[p] PROVE landed'[p] = 0..(i'[p] - 1)
        BY <3>1
      <4>2. landed'[p] = 0..(i[p] - 1) \cup i[p]..(i[p] + BlockLen(p) - 1)
        BY <2>2, <3>1, <4>1 DEF DataInv, TypeOK, Set, Arrive
      <4>3. 0..(i[p] - 1) \cup i[p]..(i[p] + BlockLen(p) - 1) = 0..(i[p] + BlockLen(p) - 1)
        BY <2>1
      <4>4. i'[p] - 1 = i[p] + BlockLen(p) - 1
        BY <2>1, <2>3
      <4> QED
        BY <4>2, <4>3, <4>4, Zenon
    <3>2. CASE short' = Set(short, p, TRUE)
      BY <3>2 DEF TypeOK, Set
    <3> QED
      BY <1>6, <3>1, <3>2 DEF ReadBlock
  <2>5. \A q \in Procs \ {p} : i'[q] = i[q] /\ landed'[q] = landed[q] /\ short'[q] = short[q]
    <3>1. \A q \in Procs \ {p} : landed'[q] = landed[q] /\ short'[q] = short[q]
      BY <1>6 DEF TypeOK, ReadBlock, Arrive, Set
    <3> QED
      BY <2>3, <3>1 DEF TypeOK, Set
  <2> QED
    BY <2>2, <2>4, <2>5 DEF DataInv
<1>7. ASSUME NEW p \in Procs, ReadFails(p) PROVE DataInv'
  BY <1>7 DEF DataInv, TypeOK, ReadFails, Set, Leave, EFAULT
<1>8. ASSUME NEW p \in Procs, WriteFails(p) PROVE DataInv'
  <2>1. pc[p] = "write" /\ op[p] = "write" /\ i[p] \in Nat /\ UNCHANGED <<op, count, i, short>>
    BY <1>8 DEF DataInv, TypeOK, WriteFails
  <2>2. /\ landed[p] \subseteq landed'[p] /\ landed'[p] \subseteq landed[p] \cup {i[p]}
        /\ \A q \in Procs \ {p} : landed'[q] = landed[q]
    <3>1. CASE Lands(p)
      BY <3>1 DEF TypeOK, Lands, Set
    <3>2. CASE Misses
      BY <3>2 DEF Misses
    <3> QED
      BY <1>8, <3>1, <3>2 DEF WriteFails
  <2>3. landed'[p] \subseteq 0..i[p] /\ (~short[p] => 0..(i[p] - 1) \subseteq landed'[p])
    <3>1. landed[p] \subseteq 0..i[p] /\ i[p] \in 0..i[p]
      BY <2>1 DEF DataInv
    <3>2. ~short[p] => 0..(i[p] - 1) \subseteq landed[p]
      BY <2>1 DEF DataInv
    <3> QED
      BY <2>2, <3>1, <3>2
  <2>4. /\ pc'[p] = "write" \/ (pc'[p] = "out" /\ ret'[p] = -EIO)
        /\ \A q \in Procs \ {p} : pc'[q] = pc[q] /\ ret'[q] = ret[q]
    BY <1>8 DEF TypeOK, WriteFails, Set, Leave
  <2>5. pc'[p] = "write" \/ (pc'[p] = "out" /\ ~(ret'[p] > 0))
    BY <2>4 DEF EIO
  <2> QED
    BY <2>1, <2>2, <2>3, <2>4, <2>5 DEF DataInv
<1>9. ASSUME NEW p \in Procs, WriteByte(p) PROVE DataInv'
  <2>1. pc[p] = "write" /\ op[p] = "write" /\ i[p] \in Nat /\ UNCHANGED <<pc, op, count, ret>>
    BY <1>9 DEF DataInv, TypeOK, WriteByte
  <2>2. i'[p] = i[p] + 1 /\ \A q \in Procs \ {p} : i'[q] = i[q]
    BY <1>9 DEF TypeOK, WriteByte, Set
  <2>3. landed[p] \subseteq 0..i[p] /\ (~short[p] => 0..(i[p] - 1) \subseteq landed[p])
    BY <2>1 DEF DataInv
  <2>4. /\ landed'[p] \subseteq 0..i'[p] /\ (~short'[p] => 0..(i'[p] - 1) \subseteq landed'[p])
        /\ \A q \in Procs \ {p} : landed'[q] = landed[q] /\ short'[q] = short[q]
    <3>1. CASE Lands(p) /\ UNCHANGED short
      <4>1. landed'[p] = landed[p] \cup {i[p]}
        BY <3>1 DEF TypeOK, Lands, Set
      <4>2. landed'[p] \subseteq 0..i'[p]
        BY <2>1, <2>2, <2>3, <4>1
      <4>3. ~short[p] => 0..(i'[p] - 1) \subseteq landed'[p]
        BY <2>1, <2>2, <2>3, <4>1
      <4> QED
        BY <3>1, <4>2, <4>3 DEF TypeOK, Lands, Set
    <3>2. CASE Misses /\ short' = Set(short, p, TRUE)
      <4>1. landed'[p] \subseteq 0..i'[p]
        BY <2>1, <2>2, <2>3, <3>2 DEF Misses
      <4> QED
        BY <3>2, <4>1 DEF TypeOK, Misses, Set
    <3>3. CASE Lands(p) /\ short' = Set(short, p, TRUE)
      <4>1. landed'[p] = landed[p] \cup {i[p]}
        BY <3>3 DEF TypeOK, Lands, Set
      <4>2. landed'[p] \subseteq 0..i'[p]
        BY <2>1, <2>2, <2>3, <4>1
      <4> QED
        BY <3>3, <4>2 DEF TypeOK, Lands, Set
    <3> QED
      BY <1>9, <3>1, <3>2, <3>3 DEF WriteByte
  <2> QED
    BY <2>1, <2>2, <2>4 DEF DataInv
<1>10. ASSUME NEW p \in Procs, Return(p) PROVE DataInv'
  BY <1>10 DEF DataInv, TypeOK, Return, Set
<1>11. CASE UNCHANGED vars
  BY <1>11 DEF DataInv, TypeOK, vars, proc
<1> QED
  BY <1>1, <1>2, <1>3, <1>4, <1>5, <1>6, <1>7, <1>8, <1>9, <1>10, <1>11
  DEF Next, InCall

-----------------------------------------------------------------------------
(* For any number of processes and any sizes the variables keep their types:
   no loop runs past count, no more than Tries retries are counted, and no
   byte beyond those asked for is moved. *)
THEOREM TypeCorrect == Spec => []TypeOK
<1>1. ASSUME Init PROVE TypeOK
  <2>1. /\ writing \in BOOLEAN /\ short \in [Procs -> BOOLEAN]
        /\ pc \in [Procs -> {"user", "read", "write", "out"}]
        /\ op \in [Procs -> {"none", "read", "write"}]
        /\ landed \in [Procs -> SUBSET Nat]
    BY <1>1 DEF Init
  <2>2. /\ pos \in [Procs -> Nat] /\ count \in [Procs -> Nat] /\ i \in [Procs -> Nat]
        /\ err_count \in [Procs -> 0..Tries] /\ ret \in [Procs -> Int]
    BY <1>1, TriesAssumption DEF Init
  <2>3. ASSUME NEW p \in Procs PROVE i[p] <= count[p] /\ landed[p] \subseteq 0..(count[p] - 1)
    <3>1. i[p] = 0 /\ count[p] = 0 /\ landed[p] = {}
      BY <1>1 DEF Init
    <3> QED
      BY <3>1
  <2> QED
    BY <2>1, <2>2, <2>3 DEF TypeOK
<1>2. TypeOK /\ [Next]_vars => TypeOK'
  BY TypeStep
<1> QED
  BY <1>1, <1>2, PTL DEF Spec

(* Whatever the positions, counts and page size, a block that at24_read asks
   for fits into tmp, is not empty and lies within one page. *)
THEOREM BlocksInPages == Spec => []BlockInPage
<1>1. ASSUME TypeOK PROVE BlockInPage
  <2>1. SUFFICES ASSUME NEW p \in Procs, i[p] < count[p]
                 PROVE  /\ BlockLen(p) \in 1..PageSize
                        /\ (pos[p] + i[p]) \div PageSize
                             = (pos[p] + i[p] + BlockLen(p) - 1) \div PageSize
    BY DEF BlockInPage
  <2> DEFINE a == pos[p] + i[p]
             b == pos[p] + i[p] + BlockLen(p) - 1
             e == ((a + PageSize) \div PageSize) * PageSize
  <2>2. BlockLen(p) \in 1..PageSize
    BY <1>1, <2>1, BlockLenRange
  <2>3. pos[p] \in Nat /\ i[p] \in Nat /\ count[p] \in Nat
    BY <1>1, <2>1 DEF TypeOK
  <2>4. PageSize \in Nat /\ PageSize > 0
    BY SizesAssumption
  <2>5. a \in Nat /\ b \in Nat /\ a <= b
    BY <2>2, <2>3, <2>4
  <2>6. e \in Int
    BY <2>4, <2>5
  <2>7. BlockLen(p) <= e - a
    BY <2>1, <2>3, <2>6 DEF BlockLen
  <2>8. b < e
    BY <2>2, <2>3, <2>6, <2>7
  <2>9. a \div PageSize = b \div PageSize
    <3> HIDE DEF a, b
    <3> QED
      BY <2>5, <2>8, SamePage
  <2> QED
    BY <2>2, <2>9
<1> QED
  BY <1>1, TypeCorrect, PTL

(* The data of every call is where its loop says it is, but for what timed
   out. *)
THEOREM DataInvariant ==
  Spec => []DataInv
<1>1. ASSUME Init PROVE DataInv
  <2>1. \A p \in Procs : pc[p] = "user" /\ op[p] = "none" /\ ret[p] = 0
    BY <1>1 DEF Init
  <2>2. ASSUME NEW p \in Procs PROVE ~(ret[p] > 0)
    <3>1. ret[p] = 0 /\ ~(0 > 0)
      BY <2>1
    <3> QED
      BY <3>1, Zenon
  <2> QED
    BY <2>1, <2>2 DEF DataInv
<1>2. TypeOK /\ DataInv /\ [Next]_vars => DataInv'
  BY DataStep
<1> QED
  BY <1>1, <1>2, TypeCorrect, PTL DEF Spec

(* What a write has changed in the chip is at every moment the bytes counted,
   but for those whose transfer timed out, and at most the one in hand, for any
   number of retries, processes and write cycles in between. *)
THEOREM WritesArePrefixes ==
  Spec => []WritePrefix
<1>1. DataInv => WritePrefix
  BY DEF DataInv, WritePrefix
<1> QED
  BY <1>1, DataInvariant, PTL

(* A count that read or write returns is the count asked for, and all of those
   bytes got to where they were to go, unless a transfer timed out. *)
THEOREM ResultsTrue ==
  Spec => []ResultTrue
<1>1. DataInv => ResultTrue
  BY DEF DataInv, ResultTrue
<1> QED
  BY <1>1, DataInvariant, PTL

-----------------------------------------------------------------------------
InLoop(p) == pc[p] \in {"read", "write"}

(* A step takes the call of p nearer to its end: it leaves the loop, or more
   bytes are counted and no more than were asked for, or one more try of the
   byte in hand is counted and no more than there are. *)
Nearer(p) ==
  \/ pc'[p] = "out"
  \/ i[p] < i'[p] /\ i'[p] <= count[p]
  \/ i'[p] = i[p] /\ err_count[p] < err_count'[p] /\ err_count'[p] <= Tries

(* What the loop goes by stays as it is. *)
Waits(p) == pc'[p] = pc[p] /\ i'[p] = i[p] /\ err_count'[p] = err_count[p]

(* Every step of a call takes it nearer to its end, and no other process and no
   write cycle takes it back: (count - i, Tries - err_count) decreases in
   lexicographic order. *)
CallsAdvance ==
  [][\A p \in Procs : InLoop(p) =>
       count'[p] = count[p] /\ IF InCall(p) THEN Nearer(p) ELSE Waits(p)]_vars

(* A step of a process's own call. *)
LEMMA OwnStep ==
  ASSUME TypeOK, NEW p \in Procs, InLoop(p), InCall(p)
  PROVE  Nearer(p) /\ count'[p] = count[p]
<1> USE DEF TypeOK, InLoop, Nearer, Set
<1>1. CASE LoopEnds(p) \/ Fault(p) \/ ReadFails(p)
  BY <1>1 DEF LoopEnds, Fault, ReadFails, Leave
<1>2. CASE ReadBlock(p)
  <2>1. BlockLen(p) \in 1..PageSize /\ BlockLen(p) <= count[p] - i[p]
    BY <1>2, BlockLenRange DEF ReadBlock
  <2>2. i[p] \in Nat /\ count[p] \in Nat /\ PageSize \in Nat /\ i'[p] = i[p] + BlockLen(p)
    BY <1>2, SizesAssumption DEF ReadBlock
  <2>3. i[p] < i'[p] /\ i'[p] <= count[p]
    BY <2>1, <2>2
  <2> QED
    BY <1>2, <2>3 DEF ReadBlock
<1>3. CASE WriteFails(p)
  <2>1. err_count[p] \in 0..Tries /\ UNCHANGED <<i, count>>
    BY <1>3 DEF WriteFails
  <2>2. CASE err_count[p] < Tries /\ err_count' = Set(err_count, p, err_count[p] + 1)
    BY <2>1, <2>2, TriesAssumption
  <2>3. CASE Leave(p, -EIO)
    BY <2>1, <2>3 DEF Leave
  <2> QED
    BY <1>3, <2>2, <2>3 DEF WriteFails
<1>4. CASE WriteByte(p)
  BY <1>4 DEF WriteByte
<1>5. ~Return(p)
  BY DEF Return
<1> QED
  BY <1>1, <1>2, <1>3, <1>4, <1>5 DEF InCall

(* A step of something else. *)
LEMMA OthersStep ==
  ASSUME TypeOK, NEW p \in Procs, InLoop(p), Next, ~InCall(p)
  PROVE  Waits(p) /\ count'[p] = count[p]
<1> USE DEF TypeOK, InLoop, Waits, Set
<1>1. CASE CycleEnds
  BY <1>1 DEF CycleEnds, proc
<1>2. ASSUME NEW q \in Procs, at24_open(q) PROVE Waits(p) /\ count'[p] = count[p]
  BY <1>2 DEF at24_open
<1>3. ASSUME NEW q \in Procs, NEW o \in {"read", "write"}, NEW n \in Counts, Call(q, o, n)
      PROVE  Waits(p) /\ count'[p] = count[p]
  <2>1. q # p
    BY <1>3 DEF Call
  <2> QED
    BY <1>3, <2>1 DEF Call, Leave
<1>4. ASSUME NEW q \in Procs, InCall(q) PROVE Waits(p) /\ count'[p] = count[p]
  <2>1. q # p
    BY <1>4
  <2>2. CASE LoopEnds(q) \/ Fault(q) \/ ReadFails(q) \/ Return(q)
    BY <2>1, <2>2 DEF LoopEnds, Fault, ReadFails, Return, Leave
  <2>3. CASE ReadBlock(q)
    BY <2>1, <2>3 DEF ReadBlock
  <2>4. CASE WriteFails(q)
    BY <2>1, <2>4 DEF WriteFails, Leave
  <2>5. CASE WriteByte(q)
    BY <2>1, <2>5 DEF WriteByte
  <2> QED
    BY <1>4, <2>2, <2>3, <2>4, <2>5 DEF InCall
<1> QED
  BY <1>1, <1>2, <1>3, <1>4 DEF Next

(* For any counts, page sizes and number of tries no call goes round in circles,
   whatever transfers do and other processes do in between; what CallReturns
   adds is that the process goes on. *)
THEOREM CallsGetOn == Spec => CallsAdvance
<1>1. ASSUME TypeOK, [Next]_vars
      PROVE  [\A p \in Procs : InLoop(p) =>
                count'[p] = count[p] /\ IF InCall(p) THEN Nearer(p) ELSE Waits(p)]_vars
  BY <1>1, OwnStep, OthersStep
<1> QED
  BY <1>1, TypeCorrect, PTL DEF Spec, CallsAdvance
===============================================================================
