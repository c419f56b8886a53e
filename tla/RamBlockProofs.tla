---------------------------- MODULE RamBlockProofs ----------------------------
(***************************************************************************)
(* Theorems about RamBlock, for every number of bios and of sectors.       *)
(*                                                                         *)
(* The invariant is about what the elevator's merging and the loop of      *)
(* do_ramblock_request do to a request: what is left of it lists bios one  *)
(* after the other, each from where it has got to up to its end, at        *)
(* adjacent places of the disk (Fits), and no bio is in two requests       *)
(* (Owned).  So a segment never passes the end of its bio, nor of the      *)
(* memory, and its sectors are the next ones of that bio: the step is a    *)
(* Move of BlockDevice.                                                    *)
(*                                                                         *)
(* From that alone, and nothing more of the driver, the last part shows    *)
(* what RamBlockReads says of the data a read brings.                      *)
(***************************************************************************)
EXTENDS RamBlockReads, TLAPS, WellFoundedInduction

(* The i-th sector that is left of request r is of a bio in B that is live and
   moves the same way; its place on the disk and its place in the bio agree; a
   segment ends with the bio; and the rest of the bio follows it. *)
InPlace(r, i, B) ==
  LET e == r.todo[i]
      d == B[e.bio]
  IN  /\ d.state = "live" /\ d.dir = r.dir
      /\ e.at \in 1..Len(d.data) /\ d.pos + e.at = r.pos + i
      /\ e.at = Len(d.data) => e.ends
      /\ \A k \in 0..(Len(d.data) - e.at) : i + k <= Len(r.todo) /\ r.todo[i + k].bio = e.bio

(* A request has something left, on the disk, all of it in place. *)
Fits(r, B) ==
  /\ Len(r.todo) > 0 /\ r.pos + Len(r.todo) <= Sectors
  /\ \A i \in 1..Len(r.todo) : InPlace(r, i, B)

(* Request r lists something of bio c; it lists sector x of bio c. *)
Uses(r, c)     == \E i \in 1..Len(r.todo) : r.todo[i].bio = c
Lists(r, c, x) == \E i \in 1..Len(r.todo) : r.todo[i].bio = c /\ r.todo[i].at = x

(* What is left of a bio is in one request. *)
Owned(R) == \A r, s \in R, c \in Bios : Uses(r, c) /\ Uses(s, c) => r = s

(* The invariant. *)
Inv ==
  /\ TypeOK
  /\ \A r \in Requests : Fits(r, bio)
  /\ Owned(Requests)
  /\ req \notin queue

(* A nonempty set of natural numbers has a least element. *)
LEMMA Least ==
  ASSUME NEW T \in SUBSET Nat, T # {}
  PROVE  \E x \in T : \A y \in T : x <= y
<1> DEFINE R == {ss \in Nat \X Nat : ss[1] < ss[2]}
<1>1. IsWellFoundedOn(R, Nat)
  BY NatLessThanWellFounded DEF OpToRel
<1> HIDE DEF R
<1>2. PICK x \in T : \A y \in T : ~(<<y, x>> \in R)
  BY <1>1, WFMin
<1>3. ASSUME NEW y \in T PROVE x <= y
  <2>1. x \in Nat /\ y \in Nat /\ <<y, x>> \notin R
    BY <1>2
  <2>2. y < x => <<y, x>> \in R
    BY <2>1 DEF R
  <2>3. QED BY <2>1, <2>2
<1>4. QED BY <1>3

(* Joining two sequences of entries. *)
LEMMA Joined ==
  ASSUME NEW p \in Seq(Entry), NEW s \in Seq(Entry)
  PROVE  /\ p \o s \in Seq(Entry) /\ Len(p \o s) = Len(p) + Len(s)
         /\ \A i \in 1..Len(p) : (p \o s)[i] = p[i]
         /\ \A i \in 1..Len(s) : (p \o s)[Len(p) + i] = s[i]
OBVIOUS

(* What follows the first n entries of a sequence. *)
LEMMA TailFrom ==
  ASSUME NEW s \in Seq(Entry), NEW n \in Nat, n <= Len(s)
  PROVE  /\ SubSeq(s, n + 1, Len(s)) \in Seq(Entry)
         /\ Len(SubSeq(s, n + 1, Len(s))) = Len(s) - n
         /\ \A i \in 1..(Len(s) - n) : SubSeq(s, n + 1, Len(s))[i] = s[n + i]
OBVIOUS

(* The parts of a request. *)
LEMMA RequestParts ==
  ASSUME NEW r \in Request
  PROVE  /\ r.dir \in {"read", "write"} /\ r.pos \in 0..Sectors /\ r.todo \in Seq(Entry)
         /\ r.pos \in Nat /\ Len(r.todo) \in Nat
         /\ \A i \in 1..Len(r.todo) : r.todo[i] \in Entry /\ r.todo[i].bio \in Bios
                                       /\ r.todo[i].at \in Nat
<1>1. /\ r.dir \in {"read", "write"} /\ r.pos \in 0..Sectors /\ r.todo \in Seq(Entry)
  BY DEF Request
<1>2. r.pos \in Nat /\ Len(r.todo) \in Nat
  BY <1>1, SectorsAssumption
<1>3. \A i \in 1..Len(r.todo) : r.todo[i] \in Entry
  BY <1>1
<1>4. QED BY <1>1, <1>2, <1>3 DEF Entry

(* The parts of a bio. *)
LEMMA BioParts ==
  ASSUME NEW B \in [Bios -> Bio], NEW b \in Bios
  PROVE  /\ B[b] \in Bio /\ B[b].state \in {"live", "ended"} /\ B[b].dir \in {"read", "write"}
         /\ B[b].pos \in 0..Sectors /\ B[b].pos \in Nat
         /\ B[b].data \in Seq(Values) /\ Len(B[b].data) \in Nat
<1>1. /\ B[b] \in Bio /\ B[b].state \in {"live", "ended"} /\ B[b].dir \in {"read", "write"}
      /\ B[b].pos \in 0..Sectors /\ B[b].data \in Seq(Values)
  BY DEF Bio
<1>2. QED BY <1>1, SectorsAssumption

(* A request still fits when the bios it is of keep their state, direction,
   place and length. *)
LEMMA FitsSame ==
  ASSUME NEW r \in Request, NEW A, NEW B, Fits(r, A),
         \A c \in Bios : Uses(r, c) =>
           /\ B[c].state = A[c].state /\ B[c].dir = A[c].dir /\ B[c].pos = A[c].pos
           /\ Len(B[c].data) = Len(A[c].data)
  PROVE  Fits(r, B)
<1>1. ASSUME NEW i \in 1..Len(r.todo) PROVE InPlace(r, i, B)
  <2> DEFINE c == r.todo[i].bio
  <2>1. InPlace(r, i, A)
    BY DEF Fits
  <2>2. c \in Bios /\ Uses(r, c)
    BY RequestParts DEF Uses
  <2>3. /\ B[c].state = A[c].state /\ B[c].dir = A[c].dir /\ B[c].pos = A[c].pos
        /\ Len(B[c].data) = Len(A[c].data)
    BY <2>2
  <2>4. QED BY <2>1, <2>3 DEF InPlace
<1>2. QED BY <1>1 DEF Fits

(* A request that fits lists live bios only. *)
LEMMA UsesLive ==
  ASSUME NEW r, NEW B, NEW c, Fits(r, B), Uses(r, c)
  PROVE  B[c].state = "live"
<1>1. PICK i \in 1..Len(r.todo) : r.todo[i].bio = c
  BY DEF Uses
<1>2. InPlace(r, i, B)
  BY DEF Fits
<1>3. QED BY <1>1, <1>2 DEF InPlace

(* Two requests that fit, the second where the first ends, fit as one. *)
LEMMA FitsJoin ==
  ASSUME NEW q \in Request, NEW r \in Request, NEW B \in [Bios -> Bio], Fits(q, B), Fits(r, B),
         q.dir = r.dir, q.pos + Len(q.todo) = r.pos
  PROVE  LET qr == [dir |-> q.dir, pos |-> q.pos, todo |-> q.todo \o r.todo]
         IN  /\ qr \in Request /\ Fits(qr, B)
             /\ \A c : Uses(qr, c) <=> Uses(q, c) \/ Uses(r, c)
             /\ \A c, x : Lists(qr, c, x) <=> Lists(q, c, x) \/ Lists(r, c, x)
<1> DEFINE qr == [dir |-> q.dir, pos |-> q.pos, todo |-> q.todo \o r.todo]
           m  == Len(q.todo)
           n  == Len(r.todo)
           t  == q.todo \o r.todo
<1>1. /\ q.todo \in Seq(Entry) /\ r.todo \in Seq(Entry) /\ m \in Nat /\ n \in Nat
      /\ q.dir \in {"read", "write"} /\ q.pos \in 0..Sectors /\ q.pos \in Nat
      /\ r.pos \in Nat
  BY RequestParts
<1>2. /\ t \in Seq(Entry) /\ Len(t) = m + n
      /\ \A i \in 1..m : t[i] = q.todo[i]
      /\ \A i \in 1..n : t[m + i] = r.todo[i]
  BY <1>1, Joined
<1>3. m > 0 /\ n > 0 /\ r.pos + n <= Sectors /\ q.pos + m = r.pos
  BY DEF Fits
<1> HIDE DEF t, m, n
<1>4. qr = [dir |-> q.dir, pos |-> q.pos, todo |-> t]
  BY DEF t
<1> HIDE DEF qr
<1>5. qr \in Request /\ qr.todo = t /\ qr.dir = q.dir /\ qr.pos = q.pos
  BY <1>1, <1>2, <1>4 DEF Request
<1>6. m + n > 0 /\ q.pos + (m + n) <= Sectors
  BY <1>1, <1>3, SectorsAssumption
<1>7. ASSUME NEW i \in 1..(m + n) PROVE InPlace(qr, i, B)
  <2> DEFINE e == t[i]
             d == B[e.bio]
             len == Len(d.data)
  <2>1. CASE i <= m
    <3>1. i \in 1..m /\ e = q.todo[i]
      BY <1>1, <1>2, <2>1
    <3>2. e.bio \in Bios /\ e.at \in Nat
      BY <3>1, RequestParts DEF m
    <3>3. len \in Nat
      BY <3>2, BioParts
    <3>4. InPlace(q, i, B)
      BY <3>1 DEF Fits, m
    <3>5. /\ d.state = "live" /\ d.dir = q.dir
          /\ e.at \in 1..len /\ d.pos + e.at = q.pos + i
          /\ e.at = len => e.ends
          /\ \A k \in 0..(len - e.at) : i + k <= m /\ q.todo[i + k].bio = e.bio
      BY <3>1, <3>4 DEF InPlace, m
    <3> HIDE DEF e, d, len
    <3>6. ASSUME NEW k \in 0..(len - e.at) PROVE i + k <= m + n /\ t[i + k].bio = e.bio
      <4>1. i + k \in 1..m /\ i + k <= m + n
        BY <1>1, <3>1, <3>2, <3>3, <3>5
      <4>2. QED BY <1>2, <3>5, <4>1
    <3>7. QED BY <1>2, <1>5, <3>5, <3>6 DEF InPlace, e, d, len
  <2>2. CASE i > m
    <3> DEFINE j == i - m
    <3>1. j \in 1..n /\ i = m + j
      BY <1>1, <2>2
    <3>2. e = r.todo[j]
      BY <1>2, <3>1
    <3>3. e.bio \in Bios /\ e.at \in Nat
      BY <3>1, <3>2, RequestParts DEF n
    <3>4. len \in Nat /\ d.pos \in Nat
      BY <3>3, BioParts
    <3>5. InPlace(r, j, B)
      BY <3>1 DEF Fits, n
    <3> HIDE DEF j
    <3>6. /\ d.state = "live" /\ d.dir = q.dir
          /\ e.at \in 1..len /\ d.pos + e.at = r.pos + j
          /\ e.at = len => e.ends
          /\ \A k \in 0..(len - e.at) : j + k <= n /\ r.todo[j + k].bio = e.bio
      BY <3>2, <3>5 DEF InPlace, n
    <3> HIDE DEF e, d, len
    <3>7. ASSUME NEW k \in 0..(len - e.at) PROVE i + k <= m + n /\ t[i + k].bio = e.bio
      <4>1. j + k \in 1..n /\ i + k = m + (j + k) /\ i + k <= m + n
        BY <1>1, <3>1, <3>3, <3>4, <3>6
      <4>2. QED BY <1>2, <3>6, <4>1
    <3>8. d.pos + e.at = q.pos + i
      BY <1>1, <1>3, <3>1, <3>6
    <3>9. QED BY <1>2, <1>5, <3>6, <3>7, <3>8 DEF InPlace, e, d, len
  <2>3. QED BY <1>1, <2>1, <2>2
<1>8. Fits(qr, B)
  BY <1>2, <1>5, <1>6, <1>7 DEF Fits
<1>9. ASSUME NEW i \in 1..(m + n)
      PROVE  (\E j \in 1..m : t[i] = q.todo[j]) \/ (\E j \in 1..n : t[i] = r.todo[j])
  <2>1. CASE i <= m
    <3>1. i \in 1..m
      BY <1>1, <2>1
    <3>2. QED BY <1>2, <3>1
  <2>2. CASE i > m
    <3>1. i - m \in 1..n /\ i = m + (i - m)
      BY <1>1, <2>2
    <3>2. QED BY <1>2, <3>1
  <2>3. QED BY <1>1, <2>1, <2>2
<1>10. /\ \A j \in 1..m : \E i \in 1..(m + n) : t[i] = q.todo[j]
       /\ \A j \in 1..n : \E i \in 1..(m + n) : t[i] = r.todo[j]
  <2>1. ASSUME NEW j \in 1..m PROVE j \in 1..(m + n) /\ t[j] = q.todo[j]
    BY <1>1, <1>2
  <2>2. ASSUME NEW j \in 1..n PROVE m + j \in 1..(m + n) /\ t[m + j] = r.todo[j]
    BY <1>1, <1>2
  <2>3. QED BY <2>1, <2>2
<1>11. ASSUME NEW c PROVE Uses(qr, c) <=> Uses(q, c) \/ Uses(r, c)
  <2>1. Uses(qr, c) <=> \E i \in 1..(m + n) : t[i].bio = c
    BY <1>2, <1>5 DEF Uses
  <2>2. /\ Uses(q, c) <=> \E j \in 1..m : q.todo[j].bio = c
        /\ Uses(r, c) <=> \E j \in 1..n : r.todo[j].bio = c
    BY DEF Uses, m, n
  <2>3. QED BY <1>9, <1>10, <2>1, <2>2
<1>12. ASSUME NEW c, NEW x PROVE Lists(qr, c, x) <=> Lists(q, c, x) \/ Lists(r, c, x)
  <2>1. Lists(qr, c, x) <=> \E i \in 1..(m + n) : t[i].bio = c /\ t[i].at = x
    BY <1>2, <1>5 DEF Lists
  <2>2. /\ Lists(q, c, x) <=> \E j \in 1..m : q.todo[j].bio = c /\ q.todo[j].at = x
        /\ Lists(r, c, x) <=> \E j \in 1..n : r.todo[j].bio = c /\ r.todo[j].at = x
    BY DEF Lists, m, n
  <2>3. QED BY <1>9, <1>10, <2>1, <2>2
<1>13. QED BY <1>5, <1>8, <1>11, <1>12 DEF qr, t

(* What is left of a request that fits, fits. *)
LEMMA FitsTail ==
  ASSUME NEW r \in Request, NEW B \in [Bios -> Bio], Fits(r, B), NEW n \in Nat, n < Len(r.todo)
  PROVE  LET q == [dir |-> r.dir, pos |-> r.pos + n, todo |-> SubSeq(r.todo, n + 1, Len(r.todo))]
         IN  /\ q \in Request /\ Fits(q, B)
             /\ Len(q.todo) = Len(r.todo) - n
             /\ \A i \in 1..Len(q.todo) : q.todo[i] = r.todo[n + i]
<1> DEFINE t == SubSeq(r.todo, n + 1, Len(r.todo))
           q == [dir |-> r.dir, pos |-> r.pos + n, todo |-> t]
           m == Len(r.todo)
<1>1. /\ r.todo \in Seq(Entry) /\ m \in Nat /\ r.dir \in {"read", "write"} /\ r.pos \in Nat
  BY RequestParts
<1>2. /\ t \in Seq(Entry) /\ Len(t) = m - n /\ \A i \in 1..(m - n) : t[i] = r.todo[n + i]
  BY <1>1, TailFrom
<1>3. m > 0 /\ r.pos + m <= Sectors /\ n < m
  BY DEF Fits
<1> HIDE DEF t, m
<1>4. q \in Request /\ q.todo = t /\ q.dir = r.dir /\ q.pos = r.pos + n
  BY <1>1, <1>2, <1>3, SectorsAssumption DEF Request
<1>5. m - n > 0 /\ q.pos + (m - n) <= Sectors
  BY <1>1, <1>3, <1>4, SectorsAssumption
<1> HIDE DEF q
<1>6. ASSUME NEW i \in 1..(m - n) PROVE InPlace(q, i, B)
  <2> DEFINE e == t[i]
             d == B[e.bio]
             len == Len(d.data)
  <2>1. n + i \in 1..m /\ e = r.todo[n + i]
    BY <1>1, <1>2
  <2>2. e.bio \in Bios /\ e.at \in Nat
    BY <2>1, RequestParts DEF m
  <2>3. len \in Nat /\ d.pos \in Nat
    BY <2>2, BioParts
  <2>4. InPlace(r, n + i, B)
    BY <2>1 DEF Fits, m
  <2>5. /\ d.state = "live" /\ d.dir = r.dir
        /\ e.at \in 1..len /\ d.pos + e.at = r.pos + (n + i)
        /\ e.at = len => e.ends
        /\ \A k \in 0..(len - e.at) : n + i + k <= m /\ r.todo[n + i + k].bio = e.bio
    BY <2>1, <2>4 DEF InPlace, m
  <2> HIDE DEF e, d, len
  <2>6. ASSUME NEW k \in 0..(len - e.at) PROVE i + k <= m - n /\ t[i + k].bio = e.bio
    <3>1. i + k \in 1..(m - n) /\ n + (i + k) = n + i + k
      BY <1>1, <2>1, <2>2, <2>3, <2>5
    <3>2. t[i + k] = r.todo[n + (i + k)]
      BY <1>2, <3>1
    <3>3. r.todo[n + i + k].bio = e.bio
      BY <2>5
    <3>4. QED BY <3>1, <3>2, <3>3
  <2>7. d.pos + e.at = q.pos + i
    BY <1>1, <1>4, <2>5
  <2>8. QED BY <1>2, <1>4, <2>5, <2>6, <2>7 DEF InPlace, e, d, len
<1>7. Fits(q, B)
  BY <1>2, <1>4, <1>5, <1>6 DEF Fits
<1>8. QED BY <1>2, <1>4, <1>7 DEF q, t, m

(* A bio that has just been submitted, as a request of its own. *)
NewRequest(b, dir, pos, n, ends) ==
  [dir |-> dir, pos |-> pos,
   todo |-> [i \in 1..n |-> [bio |-> b, at |-> i, ends |-> i \in ends \/ i = n]]]

(* It fits, and lists the whole bio. *)
LEMMA FitsNew ==
  ASSUME NEW B, NEW b \in Bios, NEW dir \in {"read", "write"}, NEW n \in Nat \ {0},
         NEW pos \in Nat, pos + n <= Sectors, NEW data \in Seq(Values), Len(data) = n,
         NEW ends, B[b] = [state |-> "live", dir |-> dir, pos |-> pos, data |-> data],
         NEW q, q = NewRequest(b, dir, pos, n, ends)
  PROVE  /\ q \in Request /\ Fits(q, B)
         /\ \A c : Uses(q, c) <=> c = b
         /\ \A c, x : Lists(q, c, x) <=> c = b /\ x \in 1..n
<1> DEFINE t == [i \in 1..n |-> [bio |-> b, at |-> i, ends |-> i \in ends \/ i = n]]
<1>1. t \in Seq(Entry)
  <2>1. ASSUME NEW i \in 1..n
        PROVE  [bio |-> b, at |-> i, ends |-> i \in ends \/ i = n] \in Entry
    <3>1. (i \in ends \/ i = n) \in BOOLEAN /\ i \in Nat
      OBVIOUS
    <3>2. QED BY <3>1 DEF Entry
  <2>2. t \in [1..n -> Entry]
    BY <2>1
  <2>3. QED BY <2>2
<1>2. Len(t) = n
  OBVIOUS
<1>3. \A i \in 1..n : t[i].bio = b /\ t[i].at = i /\ (i = n => t[i].ends)
  OBVIOUS
<1>4. q = [dir |-> dir, pos |-> pos, todo |-> t]
  BY DEF NewRequest
<1> HIDE DEF t
<1>5. q \in Request /\ q.todo = t /\ q.dir = dir /\ q.pos = pos
  BY <1>1, <1>4, SectorsAssumption DEF Request
<1>6. ASSUME NEW i \in 1..n PROVE InPlace(q, i, B)
  <2>1. t[i].bio = b /\ t[i].at = i /\ (i = n => t[i].ends)
    BY <1>3
  <2>2. ASSUME NEW k \in 0..(n - i) PROVE i + k <= n /\ t[i + k].bio = b
    <3>1. i + k \in 1..n
      OBVIOUS
    <3>2. QED BY <1>3, <3>1
  <2>3. /\ B[b].state = "live" /\ B[b].dir = dir /\ B[b].pos = pos /\ Len(B[b].data) = n
        /\ i \in 1..n /\ pos + i = q.pos + i
    BY <1>5
  <2>4. QED BY <1>2, <1>5, <2>1, <2>2, <2>3 DEF InPlace
<1>7. Fits(q, B)
  BY <1>2, <1>5, <1>6 DEF Fits
<1>8. 1 \in 1..n
  OBVIOUS
<1>9. \A c : Uses(q, c) <=> c = b
  BY <1>2, <1>3, <1>5, <1>8 DEF Uses
<1>10. \A c, x : Lists(q, c, x) <=> c = b /\ x \in 1..n
  BY <1>2, <1>3, <1>5 DEF Lists
<1>11. QED BY <1>5, <1>7, <1>9, <1>10

(* The bio at the head of a request, and how much is left of it. *)
HeadBio(r)   == r.todo[1].bio
HeadAt(r)    == r.todo[1].at
Rest(r, B)   == Len(B[HeadBio(r)].data) - HeadAt(r) + 1

(* The entries of the bio at the head of a request are its first ones, and list
   the rest of the bio in order. *)
LEMMA HeadBlock ==
  ASSUME NEW r \in Request, NEW B \in [Bios -> Bio], Fits(r, B)
  PROVE  /\ HeadBio(r) \in Bios /\ HeadAt(r) \in Nat \ {0} /\ Rest(r, B) \in 1..Len(r.todo)
         /\ B[HeadBio(r)].state = "live" /\ B[HeadBio(r)].dir = r.dir
         /\ B[HeadBio(r)].pos + HeadAt(r) = r.pos + 1
         /\ \A i \in 1..Len(r.todo) :
              /\ r.todo[i].bio = HeadBio(r) <=> i <= Rest(r, B)
              /\ r.todo[i].bio = HeadBio(r) => r.todo[i].at = HeadAt(r) + i - 1
         /\ r.todo[Rest(r, B)].ends
<1> DEFINE m   == Len(r.todo)
           b   == HeadBio(r)
           at  == HeadAt(r)
           d   == B[b]
           len == Len(d.data)
           l   == Rest(r, B)
<1>1. m \in Nat /\ 1 \in 1..m /\ b \in Bios /\ at \in Nat /\ r.pos \in Nat
  BY RequestParts DEF Fits, HeadBio, HeadAt
<1>2. len \in Nat /\ d.pos \in Nat
  BY <1>1, BioParts
<1>3. InPlace(r, 1, B)
  BY <1>1 DEF Fits
<1>4. /\ d.state = "live" /\ d.dir = r.dir /\ at \in 1..len /\ d.pos + at = r.pos + 1
      /\ \A k \in 0..(len - at) : 1 + k <= m /\ r.todo[1 + k].bio = b
  BY <1>3 DEF InPlace, HeadBio, HeadAt
<1>5. \A i \in 1..m : InPlace(r, i, B) /\ r.todo[i].bio \in Bios /\ r.todo[i].at \in Nat
  BY RequestParts DEF Fits
<1>6. l = len - at + 1
  BY DEF Rest
<1> HIDE DEF m, b, at, d, len, l
<1>7. l \in 1..m
  <2>1. len - at \in 0..(len - at)
    BY <1>2, <1>4
  <2>2. 1 + (len - at) <= m
    BY <1>4, <2>1
  <2>3. QED BY <1>1, <1>2, <1>4, <1>6, <2>2
<1>8. ASSUME NEW i \in 1..m, r.todo[i].bio = b
      PROVE  r.todo[i].at = at + i - 1 /\ i <= l
  <2>1. r.todo[i].at \in 1..len /\ d.pos + r.todo[i].at = r.pos + i
    BY <1>5, <1>8 DEF InPlace, d, len
  <2>2. QED BY <1>1, <1>2, <1>4, <1>6, <2>1
<1>9. ASSUME NEW i \in 1..m, i <= l PROVE r.todo[i].bio = b
  <2>1. i - 1 \in 0..(len - at) /\ i = 1 + (i - 1)
    BY <1>1, <1>2, <1>4, <1>6, <1>9
  <2>2. QED BY <1>4, <2>1
<1>10. r.todo[l].ends
  <2>1. r.todo[l].bio = b /\ l <= l
    BY <1>1, <1>7, <1>9
  <2>2. r.todo[l].at = at + l - 1
    BY <1>7, <1>8, <2>1
  <2>3. r.todo[l].at = len
    BY <1>1, <1>2, <1>6, <2>2
  <2>4. InPlace(r, l, B)
    BY <1>5, <1>7
  <2>5. QED BY <2>1, <2>3, <2>4 DEF InPlace, d, len
<1>11. at \in Nat \ {0}
  BY <1>1, <1>2, <1>4
<1>12. \A i \in 1..m : /\ r.todo[i].bio = b <=> i <= l
                       /\ r.todo[i].bio = b => r.todo[i].at = at + i - 1
  BY <1>8, <1>9
<1>13. QED BY <1>1, <1>4, <1>7, <1>10, <1>11, <1>12 DEF m, b, at, d, l

(* The first segment of a request ends at the latest with the bio. *)
LEMMA CurSectors ==
  ASSUME NEW r \in Request, NEW B \in [Bios -> Bio], Fits(r, B)
  PROVE  cur_sectors(r) \in 1..Len(r.todo) /\ cur_sectors(r) <= Rest(r, B)
<1> DEFINE m == Len(r.todo)
           T == {i \in 1..m : r.todo[i].ends}
           First(j) == r.todo[j].ends /\ \A i \in 1..(j - 1) : ~r.todo[i].ends
<1>1. m \in Nat /\ Rest(r, B) \in 1..m /\ r.todo[Rest(r, B)].ends
  BY RequestParts, HeadBlock
<1> HIDE DEF m
<1>2. \E j \in 1..m : First(j)
  <2>1. T \in SUBSET Nat /\ T # {}
    BY <1>1
  <2>2. PICK j \in T : \A y \in T : j <= y
    BY <2>1, Least
  <2>3. j \in 1..m /\ r.todo[j].ends
    BY <2>2
  <2>4. ASSUME NEW i \in 1..(j - 1) PROVE ~r.todo[i].ends
    <3>1. i \in 1..m /\ ~(j <= i)
      BY <1>1, <2>3
    <3>2. i \notin T
      BY <2>2, <3>1
    <3>3. QED BY <3>1, <3>2
  <2>5. QED BY <2>3, <2>4
<1>3. cur_sectors(r) \in 1..m /\ First(cur_sectors(r))
  BY <1>2 DEF cur_sectors, m
<1>4. CASE cur_sectors(r) > Rest(r, B)
  <2>1. Rest(r, B) \in 1..(cur_sectors(r) - 1)
    BY <1>1, <1>3, <1>4
  <2>2. QED BY <1>1, <1>3, <2>1
<1>5. QED BY <1>1, <1>3, <1>4 DEF m

(* A request lists the bio at its head from where it has got to, to the end. *)
LEMMA HeadLists ==
  ASSUME NEW r \in Request, NEW B \in [Bios -> Bio], Fits(r, B)
  PROVE  /\ Uses(r, HeadBio(r))
         /\ \A x : Lists(r, HeadBio(r), x) <=> x \in HeadAt(r)..Len(B[HeadBio(r)].data)
<1> DEFINE b == HeadBio(r)
           at == HeadAt(r)
           len == Len(B[b].data)
           l == Rest(r, B)
           m == Len(r.todo)
<1>1. /\ b \in Bios /\ at \in Nat /\ l \in 1..m
      /\ \A i \in 1..m : /\ r.todo[i].bio = b <=> i <= l
                         /\ r.todo[i].bio = b => r.todo[i].at = at + i - 1
  BY HeadBlock
<1>2. m \in Nat /\ len \in Nat /\ l = len - at + 1
  BY <1>1, RequestParts, BioParts DEF Rest
<1> HIDE DEF b, at, len, l, m
<1>3. 1 \in 1..m /\ r.todo[1].bio = b
  BY <1>1, <1>2
<1>4. ASSUME NEW x, Lists(r, b, x) PROVE x \in at..len
  <2>1. PICK i \in 1..m : r.todo[i].bio = b /\ r.todo[i].at = x
    BY <1>4 DEF Lists, m
  <2>2. i <= l /\ x = at + i - 1
    BY <1>1, <2>1
  <2>3. QED BY <1>1, <1>2, <2>2
<1>5. ASSUME NEW x \in at..len PROVE Lists(r, b, x)
  <2> DEFINE i == x - at + 1
  <2>1. i \in 1..m /\ i <= l /\ at + i - 1 = x
    BY <1>1, <1>2
  <2> HIDE DEF i
  <2>2. r.todo[i].bio = b /\ r.todo[i].at = x
    BY <1>1, <2>1
  <2>3. QED BY <2>1, <2>2 DEF Lists, m
<1>6. QED BY <1>3, <1>4, <1>5 DEF Uses, b, at, len, m

(* What a request lists when n of its sectors are done: no less of the other
   bios, and of the one at its head what comes after those n. *)
LEMMA TailLists ==
  ASSUME NEW r \in Request, NEW B \in [Bios -> Bio], Fits(r, B),
         NEW n \in Nat, n < Len(r.todo), n <= Rest(r, B),
         NEW q \in Request, Len(q.todo) = Len(r.todo) - n,
         \A i \in 1..Len(q.todo) : q.todo[i] = r.todo[n + i]
  PROVE  /\ \A c : Uses(q, c) => Uses(r, c)
         /\ \A c, x : c # HeadBio(r) => (Lists(q, c, x) <=> Lists(r, c, x))
         /\ \A x : Lists(q, HeadBio(r), x) <=>
                     x \in (HeadAt(r) + n)..Len(B[HeadBio(r)].data)
<1> DEFINE b == HeadBio(r)
           at == HeadAt(r)
           len == Len(B[b].data)
           l == Rest(r, B)
           m == Len(r.todo)
<1>1. /\ b \in Bios /\ at \in Nat /\ l \in 1..m
      /\ \A i \in 1..m : /\ r.todo[i].bio = b <=> i <= l
                         /\ r.todo[i].bio = b => r.todo[i].at = at + i - 1
  BY HeadBlock
<1>2. m \in Nat /\ len \in Nat /\ l = len - at + 1
  BY <1>1, RequestParts, BioParts DEF Rest
<1>3. n < m /\ n <= l /\ Len(q.todo) = m - n /\ \A i \in 1..(m - n) : q.todo[i] = r.todo[n + i]
  OBVIOUS
<1> HIDE DEF b, at, len, l, m
<1>4. ASSUME NEW i \in 1..(m - n) PROVE n + i \in 1..m /\ q.todo[i] = r.todo[n + i]
  <2>1. n + i \in 1..m
    BY <1>2, <1>3
  <2>2. QED BY <1>3, <2>1
<1>5. ASSUME NEW j \in 1..m, r.todo[j].bio # b
      PROVE  \E i \in 1..(m - n) : q.todo[i] = r.todo[j]
  <2>1. j > n
    <3>1. ~(j <= l) /\ l \in Nat /\ j \in Nat
      BY <1>1, <1>2, <1>5
    <3>2. QED BY <1>3, <3>1
  <2>2. j - n \in 1..(m - n) /\ n + (j - n) = j
    BY <1>2, <2>1
  <2>3. QED BY <1>4, <2>2
<1>6. \A c : Uses(q, c) => Uses(r, c)
  BY <1>3, <1>4 DEF Uses, m
<1>7. ASSUME NEW c, NEW x, c # b PROVE Lists(q, c, x) <=> Lists(r, c, x)
  <2>1. Lists(q, c, x) => Lists(r, c, x)
    BY <1>3, <1>4 DEF Lists, m
  <2>2. Lists(r, c, x) => Lists(q, c, x)
    BY <1>3, <1>5, <1>7 DEF Lists, m
  <2>3. QED BY <2>1, <2>2
<1>8. ASSUME NEW x, Lists(q, b, x) PROVE x \in (at + n)..len
  <2>1. PICK i \in 1..(m - n) : q.todo[i].bio = b /\ q.todo[i].at = x
    BY <1>3, <1>8 DEF Lists
  <2>2. n + i \in 1..m /\ n + i <= l /\ x = at + (n + i) - 1
    BY <1>1, <1>4, <2>1
  <2>3. QED BY <1>1, <1>2, <2>2
<1>9. ASSUME NEW x \in (at + n)..len PROVE Lists(q, b, x)
  <2> DEFINE i == x - at + 1 - n
  <2>1. i \in 1..(m - n) /\ n + i \in 1..m /\ n + i <= l /\ at + (n + i) - 1 = x
    BY <1>1, <1>2, <1>3
  <2> HIDE DEF i
  <2>2. q.todo[i].bio = b /\ q.todo[i].at = x
    BY <1>1, <1>4, <2>1
  <2>3. QED BY <1>3, <2>1, <2>2 DEF Lists
<1>10. QED BY <1>6, <1>7, <1>8, <1>9 DEF b, at, len

(* The sectors that are left of a bio are those that some request lists. *)
LEMMA LeftLists ==
  ASSUME NEW c
  PROVE  /\ \A x : x \in LeftOf(c) <=> \E r \in Requests : Lists(r, c, x)
         /\ \A x : x \in LeftOf(c)' <=> \E r \in Requests' : Lists(r, c, x)
<1>1. \A x : x \in LeftOf(c) <=> \E r \in Requests : Lists(r, c, x)
  BY DEF LeftOf, Lists
<1>2. \A x : x \in LeftOf(c)' <=> \E r \in Requests' : Lists(r, c, x)
  BY DEF LeftOf, Lists
<1>3. QED BY <1>1, <1>2

(* The requests that are waiting and the one in hand. *)
LEMMA RequestsAre ==
  ASSUME Inv
  PROVE  /\ Requests \subseteq Request /\ NULL \notin Request
         /\ req = NULL => Requests = queue
         /\ req # NULL => req \in Request /\ Requests = queue \cup {req}
<1>1. NULL \notin Request
  <2>1. \A r \in Request : r.dir \in {"read", "write"}
    BY DEF Request
  <2>2. NULL.dir = "none"
    BY DEF NULL
  <2>3. QED BY <2>1, <2>2
<1>2. queue \subseteq Request /\ req \in Request \cup {NULL}
  BY DEF Inv, TypeOK
<1>3. QED BY <1>1, <1>2 DEF Requests

(* Submitting a bio keeps the invariant, and is a submission to the disk. *)
LEMMA SubmitStep ==
  ASSUME Inv, NEW b \in Bios, NEW dir \in {"read", "write"}, NEW n \in 1..Sectors,
         NEW pos \in 0..(Sectors - n), NEW ends, NEW data \in [1..n -> Values],
         Submit(b, dir, pos, data, ends)
  PROVE  Inv' /\ bio[b].state = "ended" /\ Disk!Submit(b, dir, pos, data)
<1> DEFINE rec  == [state |-> "live", dir |-> dir, pos |-> pos, data |-> data]
           todo == [i \in 1..n |-> [bio |-> b, at |-> i, ends |-> i \in ends \/ i = n]]
           q    == [dir |-> dir, pos |-> pos, todo |-> todo]
<1>1. /\ data \in Seq(Values) /\ Len(data) = n /\ DOMAIN data = 1..n
      /\ n \in Nat \ {0} /\ pos \in Nat /\ pos + n <= Sectors /\ pos \in 0..Sectors
  BY SectorsAssumption
<1>2. /\ req = NULL /\ bio[b].state = "ended" /\ UNCHANGED <<ramblock_buf, req>>
      /\ bio' = [bio EXCEPT ![b] = rec]
      /\ \/ queue' = queue \cup {q}
         \/ \E r \in queue :
              /\ r.dir = dir /\ r.pos + Len(r.todo) = pos
              /\ queue' = (queue \ {r}) \cup {[dir |-> dir, pos |-> r.pos, todo |-> r.todo \o todo]}
         \/ \E r \in queue :
              /\ r.dir = dir /\ pos + n = r.pos
              /\ queue' = (queue \ {r}) \cup {[dir |-> dir, pos |-> pos, todo |-> todo \o r.todo]}
  BY <1>1 DEF Submit
<1>3. /\ bio \in [Bios -> Bio] /\ queue \subseteq Request /\ Requests = queue
      /\ ramblock_buf \in [0..(Sectors - 1) -> Values]
      /\ \A r \in queue : Fits(r, bio)
      /\ Owned(queue)
  BY <1>2, RequestsAre DEF Inv, TypeOK
<1>4. rec \in Bio
  BY <1>1 DEF Bio
<1>5. bio' \in [Bios -> Bio] /\ bio'[b] = rec /\ \A c \in Bios : c # b => bio'[c] = bio[c]
  BY <1>2, <1>3, <1>4
<1>6. /\ q \in Request /\ Fits(q, bio')
      /\ \A c : Uses(q, c) <=> c = b
      /\ \A c, x : Lists(q, c, x) <=> c = b /\ x \in 1..n
  <2>1. q = NewRequest(b, dir, pos, n, ends)
    BY DEF NewRequest
  <2> HIDE DEF q, todo
  <2>2. QED BY <1>1, <1>5, <2>1, FitsNew
<1> HIDE DEF rec
<1>7. ASSUME NEW r \in queue PROVE r \in Request /\ ~Uses(r, b) /\ Fits(r, bio')
  <2>1. r \in Request /\ Fits(r, bio)
    BY <1>3
  <2>2. ~Uses(r, b)
    BY <1>2, <2>1, UsesLive
  <2>3. \A c \in Bios : Uses(r, c) => bio'[c] = bio[c]
    BY <1>5, <2>2
  <2>4. QED BY <2>1, <2>2, <2>3, FitsSame
<1> DEFINE Joins(s, old) ==
             /\ s \in Request /\ Fits(s, bio') /\ queue' = (queue \ old) \cup {s}
             /\ \A c : Uses(s, c) <=> c = b \/ \E r \in old : Uses(r, c)
             /\ \A c, x : Lists(s, c, x) <=>
                            (c = b /\ x \in 1..n) \/ \E r \in old : Lists(r, c, x)
<1>8. \E old \in SUBSET queue : \E s : Joins(s, old)
  <2>1. CASE queue' = queue \cup {q}
    <3>1. Joins(q, {})
      BY <1>6, <2>1
    <3>2. {} \in SUBSET queue
      OBVIOUS
    <3> HIDE DEF Joins
    <3>3. QED BY <3>1, <3>2
  <2>2. ASSUME NEW r \in queue, r.dir = dir, r.pos + Len(r.todo) = pos,
               queue' = (queue \ {r}) \cup {[dir |-> dir, pos |-> r.pos, todo |-> r.todo \o todo]}
        PROVE  \E old \in SUBSET queue : \E s : Joins(s, old)
    <3> DEFINE s == [dir |-> r.dir, pos |-> r.pos, todo |-> r.todo \o q.todo]
    <3>1. r \in Request /\ Fits(r, bio') /\ q.dir = r.dir /\ q.pos = pos /\ q.todo = todo
      BY <1>7, <2>2
    <3> HIDE DEF q, todo
    <3>2. /\ s \in Request /\ Fits(s, bio')
          /\ \A c : Uses(s, c) <=> Uses(r, c) \/ Uses(q, c)
          /\ \A c, x : Lists(s, c, x) <=> Lists(r, c, x) \/ Lists(q, c, x)
      BY <1>5, <1>6, <2>2, <3>1, FitsJoin
    <3>3. queue' = (queue \ {r}) \cup {s}
      BY <2>2, <3>1
    <3> HIDE DEF s
    <3>4. Joins(s, {r})
      BY <1>6, <3>2, <3>3
    <3>5. {r} \in SUBSET queue
      OBVIOUS
    <3> HIDE DEF Joins
    <3>6. QED BY <3>4, <3>5
  <2>3. ASSUME NEW r \in queue, r.dir = dir, pos + n = r.pos,
               queue' = (queue \ {r}) \cup {[dir |-> dir, pos |-> pos, todo |-> todo \o r.todo]}
        PROVE  \E old \in SUBSET queue : \E s : Joins(s, old)
    <3> DEFINE s == [dir |-> q.dir, pos |-> q.pos, todo |-> q.todo \o r.todo]
    <3>1. /\ r \in Request /\ Fits(r, bio') /\ q.dir = r.dir /\ q.dir = dir
          /\ q.pos = pos /\ q.todo = todo /\ Len(q.todo) = n
      BY <1>1, <1>7, <2>3
    <3> HIDE DEF q, todo
    <3>2. /\ s \in Request /\ Fits(s, bio')
          /\ \A c : Uses(s, c) <=> Uses(q, c) \/ Uses(r, c)
          /\ \A c, x : Lists(s, c, x) <=> Lists(q, c, x) \/ Lists(r, c, x)
      BY <1>5, <1>6, <2>3, <3>1, FitsJoin
    <3>3. queue' = (queue \ {r}) \cup {s}
      BY <2>3, <3>1
    <3> HIDE DEF s
    <3>4. Joins(s, {r})
      BY <1>6, <3>2, <3>3
    <3>5. {r} \in SUBSET queue
      OBVIOUS
    <3> HIDE DEF Joins
    <3>6. QED BY <3>4, <3>5
  <2>4. QED BY <1>2, <2>1, <2>2, <2>3
<1>9. PICK old \in SUBSET queue : \E s : Joins(s, old)
  BY <1>8
<1>10. PICK s : Joins(s, old)
  BY <1>9
<1>11. /\ s \in Request /\ Fits(s, bio') /\ queue' = (queue \ old) \cup {s}
       /\ \A c : Uses(s, c) <=> c = b \/ \E r \in old : Uses(r, c)
       /\ \A c, x : Lists(s, c, x) <=> (c = b /\ x \in 1..n) \/ \E r \in old : Lists(r, c, x)
  BY <1>10
<1> HIDE DEF q, todo, Joins
<1>12. queue' \subseteq Request /\ NULL \notin queue' /\ Requests' = queue' /\ req' = NULL
  BY <1>2, <1>7, <1>11, RequestsAre DEF Requests
<1>13. Inv'
  <2>1. TypeOK'
    BY <1>2, <1>3, <1>5, <1>12 DEF TypeOK
  <2>2. \A r \in Requests' : Fits(r, bio')
    BY <1>7, <1>11, <1>12
  <2>3. ASSUME NEW r \in queue', NEW p \in queue', NEW c \in Bios, Uses(r, c), Uses(p, c)
        PROVE  r = p
    <3>1. ASSUME NEW o \in queue \ old, Uses(o, c), Uses(s, c) PROVE FALSE
      <4>1. c # b
        BY <1>7, <3>1
      <4>2. PICK u \in old : Uses(u, c)
        BY <1>11, <3>1, <4>1
      <4>3. u \in queue
        BY <1>9
      <4>4. u = o
        BY <1>3, <3>1, <4>2, <4>3 DEF Owned
      <4>5. QED BY <4>4, <4>2
    <3>2. CASE r \in queue \ old /\ p \in queue \ old
      BY <1>3, <2>3, <3>2 DEF Owned
    <3>3. QED BY <1>11, <2>3, <3>1, <3>2
  <2>4. Owned(Requests')
    BY <1>12, <2>3 DEF Owned
  <2>5. QED BY <1>12, <2>1, <2>2, <2>4 DEF Inv
<1>14. ASSUME NEW c \in Bios PROVE LeftOf(c)' = IF c = b THEN 1..n ELSE LeftOf(c)
  <2>1. ASSUME NEW x
        PROVE  x \in LeftOf(c)' <=> (c = b /\ x \in 1..n) \/ x \in LeftOf(c)
    <3>1. x \in LeftOf(c) <=> \E r \in queue : Lists(r, c, x)
      BY <1>3, LeftLists
    <3>2. x \in LeftOf(c)' <=> \E r \in queue' : Lists(r, c, x)
      BY <1>12, LeftLists
    <3>3. (\E r \in queue' : Lists(r, c, x)) <=>
            (c = b /\ x \in 1..n) \/ \E r \in queue : Lists(r, c, x)
      BY <1>9, <1>11
    <3>4. QED BY <3>1, <3>2, <3>3
  <2>2. c = b => LeftOf(c) = {}
    <3>1. ASSUME c = b, NEW x, x \in LeftOf(c) PROVE FALSE
      <4>1. PICK r \in queue : Lists(r, c, x)
        BY <1>3, <3>1, LeftLists
      <4>2. Uses(r, b)
        BY <3>1, <4>1 DEF Lists, Uses
      <4>3. QED BY <1>7, <4>2
    <3>2. QED BY <3>1
  <2>3. QED BY <2>1, <2>2
<1>15. [c \in Bios |-> LeftOf(c)]' = [[c \in Bios |-> LeftOf(c)] EXCEPT ![b] = DOMAIN data]
  BY <1>1, <1>14
<1>16. Disk!Submit(b, dir, pos, data)
  BY <1>2, <1>15 DEF Disk!Submit, rec
<1>17. QED BY <1>2, <1>13, <1>16

(* Fetching takes one of the requests that wait, or finds none. *)
LEMMA Fetched ==
  ASSUME queue \subseteq Request, NULL \notin Request, blk_fetch_request
  PROVE  /\ Requests' = queue /\ queue' \subseteq queue /\ req' \notin queue'
         /\ req' \in queue \cup {NULL}
<1>1. CASE queue = {} /\ req' = NULL /\ UNCHANGED queue
  BY <1>1 DEF Requests
<1>2. ASSUME NEW r \in queue, req' = r, queue' = queue \ {r}
      PROVE  /\ Requests' = queue /\ queue' \subseteq queue /\ req' \notin queue'
             /\ req' \in queue \cup {NULL}
  BY <1>2 DEF Requests
<1>3. QED BY <1>1, <1>2 DEF blk_fetch_request


(* Handling a segment keeps the invariant, and moves the sectors of the segment
   between the disk and the bio. *)
LEMMA SegmentStep ==
  ASSUME Inv, Segment
  PROVE  /\ Inv'
         /\ HeadBio(req) \in Bios /\ bio[HeadBio(req)].state = "live"
         /\ \E S \in SUBSET LeftOf(HeadBio(req)) : Disk!Move(HeadBio(req), S)
<1> DEFINE n    == cur_sectors(req)
           b    == HeadBio(req)
           at   == HeadAt(req)
           d    == bio[b]
           len  == Len(d.data)
           l    == Rest(req, bio)
           m    == Len(req.todo)
           pos  == req.pos
           data == IF req.dir = "write" THEN d.data
                   ELSE [i \in 1..len |-> IF i \in at..(at + n - 1)
                                          THEN ramblock_buf[pos + i - at] ELSE d.data[i]]
           rec  == IF at + n - 1 = len THEN Ended(d.dir, data)
                   ELSE [state |-> "live", dir |-> d.dir, pos |-> d.pos, data |-> data]
           buf  == IF req.dir = "read" THEN ramblock_buf
                   ELSE [s \in 0..(Sectors - 1) |-> IF s \in pos..(pos + n - 1)
                                                    THEN d.data[at + s - pos] ELSE ramblock_buf[s]]
(* What Inv says of the request in hand. *)
<1>1. /\ req \in Request /\ Requests = queue \cup {req} /\ req \notin queue
      /\ queue \subseteq Request /\ NULL \notin Request
      /\ bio \in [Bios -> Bio] /\ ramblock_buf \in [0..(Sectors - 1) -> Values]
      /\ Fits(req, bio) /\ (\A r \in queue : Fits(r, bio)) /\ Owned(queue \cup {req})
  BY RequestsAre DEF Segment, Inv, TypeOK
<1>2. /\ m \in Nat /\ pos \in Nat /\ pos + m <= Sectors /\ req.dir \in {"read", "write"}
  BY <1>1, RequestParts DEF Fits
<1>3. /\ b \in Bios /\ at \in Nat \ {0} /\ l \in 1..m
      /\ d.state = "live" /\ d.dir = req.dir /\ d.pos + at = pos + 1
      /\ \A i \in 1..m : req.todo[i].bio = b <=> i <= l
  BY <1>1, HeadBlock
<1>4. /\ d.pos \in Nat /\ d.pos \in 0..Sectors /\ d.data \in Seq(Values) /\ len \in Nat
      /\ l = len - at + 1
  BY <1>1, <1>3, BioParts DEF Rest
<1>5. n \in 1..m /\ n <= l
  BY <1>1, CurSectors
(* The step. *)
<1>6. ~(Place + n > Sectors)
  BY <1>2, <1>5, SectorsAssumption DEF Place
<1>7. ramblock_buf' = buf
  BY <1>6, <1>2 DEF Segment, Place, HeadBio, HeadAt
<1>8. bio' = [bio EXCEPT ![b] = rec]
  BY <1>6, <1>2 DEF Segment, Place, HeadBio, HeadAt
<1>9. EndCur(n)
  BY DEF Segment
<1> HIDE DEF n, b, at, d, len, l, m, pos
<1>10. /\ data \in Seq(Values) /\ Len(data) = len
       /\ data \in [1..len -> Values]
  <2>1. d.data \in [1..len -> Values]
    BY <1>4 DEF len
  <2>2. ASSUME NEW i \in 1..len, i \in at..(at + n - 1) PROVE ramblock_buf[pos + i - at] \in Values
    <3>1. pos + i - at \in 0..(Sectors - 1)
      BY <1>2, <1>3, <1>4, <1>5, <2>2, SectorsAssumption
    <3>2. QED BY <1>1, <3>1
  <2>3. data \in [1..len -> Values]
    <3>1. CASE req.dir = "write"
      BY <2>1, <3>1
    <3>2. CASE req.dir # "write"
      BY <2>1, <2>2, <3>2
    <3>3. QED BY <3>1, <3>2
  <2> HIDE DEF data
  <2>4. QED BY <1>4, <2>3
<1> HIDE DEF data
<1>11. buf \in [0..(Sectors - 1) -> Values]
  <2>1. ASSUME NEW s \in 0..(Sectors - 1), s \in pos..(pos + n - 1)
        PROVE  d.data[at + s - pos] \in Values
    <3>1. at + s - pos \in 1..len
      BY <1>2, <1>3, <1>4, <1>5, <2>1
    <3>2. QED BY <1>4, <3>1 DEF len
  <2>2. QED BY <1>1, <2>1
<1> HIDE DEF buf
<1>12. rec \in Bio
  <2>1. CASE at + n - 1 = len
    <3>1. (IF d.dir = "read" THEN data ELSE <<>>) \in Seq(Values) /\ 0 \in 0..Sectors
      BY <1>10, SectorsAssumption
    <3>2. QED BY <2>1, <3>1 DEF Ended, Bio
  <2>2. CASE at + n - 1 # len
    BY <1>2, <1>3, <1>4, <1>10, <2>2 DEF Bio
  <2>3. QED BY <2>1, <2>2
<1>13. bio' \in [Bios -> Bio] /\ bio'[b] = rec /\ \A c \in Bios : c # b => bio'[c] = bio[c]
  <2> HIDE DEF rec
  <2>1. QED BY <1>1, <1>3, <1>8, <1>12
<1>14. at + n - 1 # len =>
         rec.state = d.state /\ rec.dir = d.dir /\ rec.pos = d.pos /\ Len(rec.data) = len
  BY <1>3, <1>10
<1> HIDE DEF rec
(* The other requests. *)
<1>15. Uses(req, b) /\ \A x : Lists(req, b, x) <=> x \in at..len
  BY <1>1, HeadLists DEF b, at, len, d
<1>16. ASSUME NEW r \in queue PROVE ~Uses(r, b) /\ Fits(r, bio') /\ r \in Request
  <2>1. ~Uses(r, b)
    BY <1>1, <1>3, <1>15 DEF Owned
  <2>2. \A c \in Bios : Uses(r, c) => bio'[c] = bio[c]
    BY <1>13, <2>1
  <2>3. r \in Request /\ Fits(r, bio)
    BY <1>1
  <2>4. QED BY <2>1, <2>2, <2>3, FitsSame
(* What becomes of the request: it goes on, or is done. *)
<1> DEFINE After(R) ==
             /\ Requests' = queue \cup R
             /\ \A r \in R : r \in Request /\ Fits(r, bio') /\ \A c : Uses(r, c) => Uses(req, c)
             /\ \A c, x : (\E r \in R : Lists(r, c, x)) <=>
                            IF c = b THEN x \in (at + n)..len ELSE Lists(req, c, x)
             /\ \A r, s \in R : r = s
             /\ queue' \subseteq queue /\ req' \notin queue' /\ req' \in queue \cup R \cup {NULL}
<1>17. ASSUME n < m PROVE \E R : After(R)
  <2> DEFINE q == [dir |-> req.dir, pos |-> req.pos + n,
                   todo |-> SubSeq(req.todo, n + 1, Len(req.todo))]
  <2>1. req' = q /\ queue' = queue
    BY <1>9, <1>17 DEF EndCur, m
  <2>2. /\ q \in Request /\ Fits(q, bio) /\ Len(q.todo) = Len(req.todo) - n
        /\ \A i \in 1..Len(q.todo) : q.todo[i] = req.todo[n + i]
    <3>1. n \in Nat /\ n < Len(req.todo)
      BY <1>5, <1>17 DEF m
    <3>2. QED BY <1>1, <3>1, FitsTail
  <2> HIDE DEF q
  <2>3. /\ \A c : Uses(q, c) => Uses(req, c)
        /\ \A c, x : c # b => (Lists(q, c, x) <=> Lists(req, c, x))
        /\ \A x : Lists(q, b, x) <=> x \in (at + n)..len
    <3>1. n \in Nat /\ n < Len(req.todo) /\ n <= Rest(req, bio)
      BY <1>5, <1>17 DEF m, l
    <3>2. QED BY <1>1, <2>2, <3>1, TailLists DEF b, at, len, d
  <2>4. Uses(q, b) => at + n - 1 # len
    <3>1. ASSUME Uses(q, b) PROVE at + n - 1 # len
      <4>1. PICK i \in 1..Len(q.todo) : q.todo[i].bio = b
        BY <3>1 DEF Uses
      <4>2. Lists(q, b, q.todo[i].at)
        BY <4>1 DEF Lists
      <4>3. q.todo[i].at \in (at + n)..len
        BY <2>3, <4>2
      <4>4. QED BY <1>3, <1>4, <1>5, <4>3
    <3>2. QED BY <3>1
  <2>5. Fits(q, bio')
    <3>1. \A c \in Bios : Uses(q, c) =>
            /\ bio'[c].state = bio[c].state /\ bio'[c].dir = bio[c].dir
            /\ bio'[c].pos = bio[c].pos /\ Len(bio'[c].data) = Len(bio[c].data)
      BY <1>13, <1>14, <2>4 DEF d, len
    <3>2. QED BY <2>2, <3>1, FitsSame
  <2>6. q \notin queue
    <3>1. HeadBio(q) \in Bios /\ Uses(q, HeadBio(q))
      BY <1>1, <2>2, HeadBlock, HeadLists
    <3>2. Uses(req, HeadBio(q))
      BY <2>3, <3>1
    <3>3. QED BY <1>1, <3>1, <3>2 DEF Owned
  <2>7. Requests' = queue \cup {q}
    BY <1>1, <2>1, <2>2 DEF Requests
  <2>8. After({q})
    BY <2>1, <2>2, <2>3, <2>5, <2>6, <2>7
  <2> HIDE DEF After
  <2>9. QED BY <2>8
<1>18. ASSUME n = m PROVE \E R : After(R)
  <2>1. l = m /\ at + n - 1 = len
    BY <1>2, <1>3, <1>4, <1>5, <1>18
  <2>2. \A i \in 1..m : req.todo[i].bio = b
    BY <1>2, <1>3, <2>1
  <2>3. \A c, x : c # b => ~Lists(req, c, x)
    BY <2>2 DEF Lists, m
  <2>4. \A x : x \notin (at + n)..len
    BY <1>3, <1>4, <1>5, <2>1
  <2>5. ~(n < Len(req.todo))
    BY <1>2, <1>18 DEF m
  <2>6. blk_fetch_request
    BY <1>9, <2>5 DEF EndCur
  <2>7. /\ Requests' = queue /\ queue' \subseteq queue /\ req' \notin queue'
        /\ req' \in queue \cup {NULL}
    BY <1>1, <2>6, Fetched
  <2>8. After({})
    BY <2>3, <2>4, <2>7
  <2> HIDE DEF After
  <2>9. QED BY <2>8
<1>19. \E R : After(R)
  <2> HIDE DEF After
  <2>1. QED BY <1>2, <1>5, <1>17, <1>18
<1>20. PICK R : After(R)
  BY <1>19
<1>21. /\ Requests' = queue \cup R
       /\ \A r \in R : r \in Request /\ Fits(r, bio') /\ \A c : Uses(r, c) => Uses(req, c)
       /\ \A c, x : (\E r \in R : Lists(r, c, x)) <=>
                      IF c = b THEN x \in (at + n)..len ELSE Lists(req, c, x)
       /\ \A r, s \in R : r = s
       /\ queue' \subseteq queue /\ req' \notin queue' /\ req' \in queue \cup R \cup {NULL}
  BY <1>20
<1> HIDE DEF After
<1>22. Inv'
  <2>1. TypeOK'
    <3>1. queue' \subseteq Request /\ req' \in Request \cup {NULL}
      BY <1>1, <1>21
    <3>2. QED BY <1>7, <1>11, <1>13, <3>1 DEF TypeOK
  <2>2. \A r \in Requests' : Fits(r, bio')
    BY <1>16, <1>21
  <2>3. ASSUME NEW r \in queue \cup R, NEW s \in queue \cup R, NEW c \in Bios,
               Uses(r, c), Uses(s, c)
        PROVE  r = s
    <3>1. ASSUME NEW o \in queue, NEW u \in R, Uses(o, c), Uses(u, c) PROVE FALSE
      <4>1. Uses(req, c)
        BY <1>21, <3>1
      <4>2. o = req
        BY <1>1, <3>1, <4>1 DEF Owned
      <4>3. QED BY <1>1, <4>2
    <3>2. CASE r \in queue /\ s \in queue
      BY <1>1, <2>3, <3>2 DEF Owned
    <3>3. QED BY <1>21, <2>3, <3>1, <3>2
  <2>4. Owned(Requests')
    BY <1>21, <2>3 DEF Owned
  <2>5. QED BY <1>21, <2>1, <2>2, <2>4 DEF Inv
(* What is left of each bio. *)
<1> DEFINE S == at..(at + n - 1)
<1>23. LeftOf(b) = at..len
  <2>1. \A r \in queue : \A x : ~Lists(r, b, x)
    BY <1>16 DEF Uses, Lists
  <2>2. \A x : x \in LeftOf(b) <=> \E r \in queue \cup {req} : Lists(r, b, x)
    BY <1>1, LeftLists
  <2>3. \A x : x \in LeftOf(b) <=> x \in at..len
    BY <1>15, <2>1, <2>2
  <2>4. QED BY <2>3
<1>24. ASSUME NEW c \in Bios, c = b PROVE LeftOf(c)' = (at + n)..len
  <2>1. \A r \in queue : \A x : ~Lists(r, c, x)
    BY <1>16, <1>24 DEF Uses, Lists
  <2>2. \A x : x \in LeftOf(c)' <=> \E r \in queue \cup R : Lists(r, c, x)
    BY <1>21, LeftLists
  <2>3. \A x : x \in LeftOf(c)' <=> x \in (at + n)..len
    BY <1>21, <1>24, <2>1, <2>2
  <2>4. QED BY <2>3
<1>25. ASSUME NEW c \in Bios, c # b PROVE LeftOf(c)' = LeftOf(c)
  <2>1. \A x : x \in LeftOf(c) <=> \E r \in queue \cup {req} : Lists(r, c, x)
    BY <1>1, LeftLists
  <2>2. \A x : x \in LeftOf(c)' <=> \E r \in queue \cup R : Lists(r, c, x)
    BY <1>21, LeftLists
  <2>3. \A x : x \in LeftOf(c)' <=> x \in LeftOf(c)
    BY <1>21, <1>25, <2>1, <2>2
  <2>4. QED BY <2>3
<1>26. /\ S \subseteq at..len /\ S # {} /\ (at..len) \ S = (at + n)..len
       /\ S = at..len <=> at + n - 1 = len
  <2>1. n \in Nat \ {0} /\ at + n - 1 <= len
    BY <1>3, <1>4, <1>5
  <2>2. at \in S /\ at + n - 1 \in S
    BY <1>3, <2>1
  <2>3. S = at..len => len \in S
    BY <1>3, <1>4, <2>1
  <2>4. len \in S => at + n - 1 = len
    BY <1>3, <1>4, <2>1
  <2>5. S \subseteq at..len
    BY <1>3, <1>4, <2>1
  <2>6. ASSUME NEW x PROVE x \in (at..len) \ S <=> x \in (at + n)..len
    BY <1>3, <1>4, <2>1
  <2>7. at + n - 1 = len => S = at..len
    OBVIOUS
  <2> HIDE DEF S
  <2>8. (at..len) \ S = (at + n)..len
    BY <2>6
  <2>9. QED BY <2>2, <2>3, <2>4, <2>5, <2>7, <2>8
<1>27. [c \in Bios |-> LeftOf(c)]' = [[c \in Bios |-> LeftOf(c)] EXCEPT ![b] = @ \ S]
  <2> HIDE DEF S
  <2>1. \A c \in Bios : LeftOf(c)' = IF c = b THEN LeftOf(b) \ S ELSE LeftOf(c)
    BY <1>23, <1>24, <1>25, <1>26
  <2>2. QED BY <1>3, <2>1
(* What is moved. *)
<1> DEFINE At == {d.pos + i - 1 : i \in S}
<1>28. \A s \in 0..(Sectors - 1) :
         /\ s \in At <=> s \in pos..(pos + n - 1)
         /\ s - d.pos + 1 = at + s - pos
  <2>1. ASSUME NEW s \in 0..(Sectors - 1), s \in pos..(pos + n - 1) PROVE s \in At
    <3>1. at + s - pos \in S /\ s = d.pos + (at + s - pos) - 1
      BY <1>2, <1>3, <1>4, <1>5, <2>1
    <3>2. QED BY <3>1
  <2>2. ASSUME NEW s \in 0..(Sectors - 1), s \in At PROVE s \in pos..(pos + n - 1)
    <3>1. PICK i \in S : s = d.pos + i - 1
      BY <2>2
    <3>2. i \in Int /\ at <= i /\ i <= at + n - 1
      BY <1>3, <1>5
    <3>3. QED BY <1>2, <1>3, <1>4, <1>5, <3>1, <3>2
  <2>3. \A s \in 0..(Sectors - 1) : s - d.pos + 1 = at + s - pos
    <3>1. d.pos \in Int /\ at \in Int /\ pos \in Int /\ d.pos = pos + 1 - at
      BY <1>2, <1>3, <1>4
    <3>2. QED BY <3>1
  <2>4. QED BY <2>1, <2>2, <2>3
<1>29. buf = IF d.dir = "write"
             THEN [s \in DOMAIN ramblock_buf |->
                     IF s \in At THEN d.data[s - d.pos + 1] ELSE ramblock_buf[s]]
             ELSE ramblock_buf
  <2> HIDE DEF At
  <2>1. DOMAIN ramblock_buf = 0..(Sectors - 1)
    BY <1>1
  <2>2. QED BY <1>2, <1>3, <1>28, <2>1 DEF buf
<1>30. data = IF d.dir = "write" THEN d.data
              ELSE [i \in DOMAIN d.data |->
                      IF i \in S THEN ramblock_buf[d.pos + i - 1] ELSE d.data[i]]
  <2>1. DOMAIN d.data = 1..len
    BY <1>4 DEF len
  <2>2. \A i \in 1..len : d.pos + i - 1 = pos + i - at
    BY <1>2, <1>3, <1>4
  <2>3. QED BY <1>2, <1>3, <2>1, <2>2 DEF data
<1>31. rec = IF S = LeftOf(b) THEN Disk!Ended(d.dir, data)
             ELSE [state |-> "live", dir |-> d.dir, pos |-> d.pos, data |-> data]
  BY <1>23, <1>26 DEF rec, Ended, Disk!Ended
<1>32. S \in SUBSET LeftOf(b) /\ S # {} /\ [c \in Bios |-> LeftOf(c)][b] = LeftOf(b)
  BY <1>3, <1>23, <1>26
<1> HIDE DEF S
<1>33. Disk!Move(b, S)
  BY <1>7, <1>8, <1>27, <1>29, <1>30, <1>31, <1>32 DEF Disk!Move, d
<1>34. QED BY <1>3, <1>22, <1>32, <1>33 DEF b, d

(* Calling the request function changes none of the requests. *)
LEMMA FetchStep ==
  ASSUME Inv, do_ramblock_request
  PROVE  Inv' /\ UNCHANGED <<ramblock_buf, bio, [c \in Bios |-> LeftOf(c)]>>
<1>1. /\ Requests = queue /\ NULL \notin Request /\ queue \subseteq Request
      /\ UNCHANGED <<ramblock_buf, bio>> /\ blk_fetch_request
  BY RequestsAre DEF do_ramblock_request, Inv, TypeOK
<1>2. /\ Requests' = Requests /\ queue' \subseteq queue /\ req' \notin queue'
      /\ req' \in queue \cup {NULL}
  BY <1>1, Fetched
<1>3. TypeOK'
  BY <1>1, <1>2 DEF Inv, TypeOK
<1>4. (\A r \in Requests' : Fits(r, bio')) /\ Owned(Requests')
  BY <1>1, <1>2 DEF Inv
<1>5. ASSUME NEW c PROVE LeftOf(c)' = LeftOf(c)
  <2>1. \A x : x \in LeftOf(c)' <=> x \in LeftOf(c)
    BY <1>2, LeftLists
  <2>2. QED BY <2>1
<1>6. QED BY <1>1, <1>2, <1>3, <1>4, <1>5 DEF Inv

(* In the beginning there are no requests. *)
LEMMA InvInit ==
  ASSUME Init PROVE Inv /\ Requests = {}
<1>1. Requests = {}
  BY DEF Init, Requests
<1>2. Ended("read", <<>>) \in Bio
  BY SectorsAssumption DEF Ended, Bio
<1>3. TypeOK
  BY <1>2, ZeroAssumption DEF Init, TypeOK
<1>4. req \notin queue
  BY DEF Init
<1>5. QED BY <1>1, <1>3, <1>4 DEF Inv, Owned

(* What each step is of the disk. *)
LEMMA StepIs ==
  ASSUME Inv, [Next]_vars
  PROVE  Inv' /\ [Disk!Next]_(Disk!vars)
<1>1. ASSUME NEW b \in Bios, NEW dir \in {"read", "write"}, NEW n \in 1..Capacity,
             NEW pos \in 0..(Capacity - n), NEW ends,
             NEW data \in [1..n -> IF dir = "write" THEN Values ELSE {ZERO}],
             Submit(b, dir, pos, data, ends)
      PROVE  Inv' /\ Disk!Next
  <2>1. n \in 1..Sectors /\ pos \in 0..(Sectors - n) /\ data \in [1..n -> Values]
    BY ZeroAssumption DEF Capacity
  <2>2. Inv' /\ bio[b].state = "ended" /\ Disk!Submit(b, dir, pos, data)
    BY <1>1, <2>1, SubmitStep
  <2>3. QED BY <2>1, <2>2 DEF Disk!Next
<1>2. CASE do_ramblock_request
  BY <1>2, FetchStep DEF Disk!vars
<1>3. CASE Segment
  <2>1. /\ Inv' /\ HeadBio(req) \in Bios /\ bio[HeadBio(req)].state = "live"
        /\ \E S \in SUBSET LeftOf(HeadBio(req)) : Disk!Move(HeadBio(req), S)
    BY <1>3, SegmentStep
  <2>2. [c \in Bios |-> LeftOf(c)][HeadBio(req)] = LeftOf(HeadBio(req))
    BY <2>1
  <2>3. QED BY <2>1, <2>2 DEF Disk!Next
<1>4. CASE UNCHANGED vars
  <2>1. Inv'
    BY <1>4 DEF vars, Inv, TypeOK, Requests
  <2>2. UNCHANGED Disk!vars
    BY <1>4 DEF vars, Disk!vars, LeftOf, Requests
  <2>3. QED BY <2>1, <2>2
<1>5. QED BY <1>1, <1>2, <1>3, <1>4 DEF Next

(* The invariant holds: the requests that wait, and the one in hand, each fit
   the bios they are of, and no bio is in two of them. *)
THEOREM InvInvariant == Spec => []Inv
<1>1. Init => Inv
  BY InvInit
<1>2. Inv /\ [Next]_vars => Inv'
  BY StepIs
<1>3. QED BY <1>1, <1>2, PTL DEF Spec

(* The memory, the bios and the requests keep their types. *)
THEOREM TypeCorrect == Spec => []TypeOK
<1>1. Inv => TypeOK
  BY DEF Inv
<1>2. QED BY <1>1, InvInvariant, PTL

(* Wherever do_ramblock_request has got to and however the elevator has merged,
   no segment goes beyond the memory that ramblock_init allocates. *)
THEOREM StaysInRange == Spec => []InRange
<1>1. Inv => InRange
  BY DEF Inv, InRange, Fits
<1>2. QED BY <1>1, InvInvariant, PTL

(* do_ramblock_request is a disk: each sector of each bio is moved once, to or
   from its own place, before the bio ends. *)
THEOREM ImplementsDisk == Spec => IsDisk
<1>1. Init => Disk!Init
  <2>1. SUFFICES ASSUME Init PROVE Disk!Init
    OBVIOUS
  <2>2. ASSUME NEW c \in Bios PROVE LeftOf(c) = {}
    BY <2>1, InvInit DEF LeftOf
  <2>3. QED BY <2>1, <2>2, ZeroAssumption DEF Init, Disk!Init, Ended, Disk!Ended
<1>2. Inv /\ [Next]_vars => [Disk!Next]_(Disk!vars)
  BY StepIs
<1>3. QED BY <1>1, <1>2, InvInvariant, PTL DEF Spec, IsDisk, Disk!Spec

(* No bio is mislaid: one that has not ended has sectors in a request that waits
   or is in hand, so that the loop comes to them, and one that has ended has none
   that the loop could come to again. *)
NoBioLost == \A b \in Bios : bio[b].state = "live" <=> LeftOf(b) # {}

(* A step of the disk leaves something of a bio exactly while it lives. *)
LEMMA NoBioLostStep ==
  ASSUME TypeOK, NoBioLost, [Disk!Next]_(Disk!vars)
  PROVE  NoBioLost'
<1> DEFINE left == [b \in Bios |-> LeftOf(b)]
<1>1. SUFFICES ASSUME NEW c \in Bios PROVE bio'[c].state = "live" <=> left'[c] # {}
  BY DEF NoBioLost
<1>2. left'[c] = LeftOf(c)' /\ left[c] = LeftOf(c) /\ DOMAIN left = Bios /\ DOMAIN bio = Bios
  BY DEF TypeOK
<1>3. bio[c].state = "live" <=> left[c] # {}
  BY <1>2 DEF NoBioLost
<1>4. ASSUME NEW b \in Bios, NEW dir \in {"read", "write"}, NEW n \in 1..Sectors,
             NEW pos \in 0..(Sectors - n), NEW data \in [1..n -> Values],
             Disk!Submit(b, dir, pos, data)
      PROVE  bio'[c].state = "live" <=> left'[c] # {}
  <2>1. /\ bio' = [bio EXCEPT ![b] = [state |-> "live", dir |-> dir, pos |-> pos, data |-> data]]
        /\ left' = [left EXCEPT ![b] = DOMAIN data]
    BY <1>4 DEF Disk!Submit
  <2>2. 1 \in DOMAIN data
    BY SectorsAssumption
  <2>3. CASE c = b
    <3>1. bio'[c].state = "live"
      BY <1>2, <2>1, <2>3
    <3>2. left'[c] = DOMAIN data
      BY <1>2, <2>1, <2>3
    <3>3. QED BY <2>2, <3>1, <3>2
  <2>4. CASE c # b
    BY <1>2, <1>3, <2>1, <2>4
  <2>5. QED BY <2>3, <2>4
<1>5. ASSUME NEW b \in Bios, bio[b].state = "live", NEW S \in SUBSET left[b], Disk!Move(b, S)
      PROVE  bio'[c].state = "live" <=> left'[c] # {}
  <2>1. /\ left' = [left EXCEPT ![b] = @ \ S]
        /\ \A o \in Bios \ {b} : bio'[o] = bio[o]
    BY <1>2, <1>5 DEF Disk!Move
  <2>2. bio'[b].state = "live" <=> S # left[b]
    BY <1>2, <1>5 DEF Disk!Move, Disk!Ended
  <2>3. CASE c = b
    <3>1. left'[c] = left[b] \ S
      BY <1>2, <2>1, <2>3
    <3>2. QED BY <2>2, <2>3, <3>1
  <2>4. CASE c # b
    BY <1>2, <1>3, <2>1, <2>4
  <2>5. QED BY <2>3, <2>4
<1>6. CASE UNCHANGED Disk!vars
  BY <1>3, <1>6 DEF Disk!vars
<1>7. QED BY <1>4, <1>5, <1>6 DEF Disk!Next

(* However requests are merged, cut and fetched, a bio stays in one until it has
   ended: the safety part of BiosEnd. *)
THEOREM BiosStayQueued == Spec => []NoBioLost
<1>1. Init => NoBioLost
  <2>1. SUFFICES ASSUME Init PROVE NoBioLost
    OBVIOUS
  <2>2. ASSUME NEW c \in Bios PROVE LeftOf(c) = {} /\ bio[c].state = "ended"
    BY <2>1, InvInit DEF LeftOf, Init, Ended
  <2>3. QED BY <2>2 DEF NoBioLost
<1>2. Inv /\ NoBioLost /\ [Next]_vars => NoBioLost'
  BY StepIs, NoBioLostStep DEF Inv
<1>3. QED BY <1>1, <1>2, InvInvariant, PTL DEF Spec

-----------------------------------------------------------------------------
(* What has not been moved of each bio, as the disk sees it. *)
Left == [c \in Bios |-> LeftOf(c)]

(* A write in hand has put sector s on the disk. *)
Moved(b, s) == s - bio[b].pos + 1 \notin Left[b]

(* What sector s holds a write in hand has put there. *)
ByLive(s) == \E w \in Live("write", s) : Moved(w, s) /\ Puts(bio[w], s) = ramblock_buf[s]

(* A bio in hand lies on the disk, and what is left of it is of it. *)
InHand(b) ==
  bio[b].state = "live" =>
    /\ bio[b].pos \in Nat /\ Len(bio[b].data) \in Nat /\ DOMAIN bio[b].data = 1..Len(bio[b].data)
    /\ bio[b].pos + Len(bio[b].data) <= Sectors
    /\ Left[b] \subseteq 1..Len(bio[b].data) /\ bio[b].dir \in {"read", "write"}

(* A sector holds what is known of it, or what a write in hand has put there. *)
Known == \A s \in Cells : ramblock_buf[s] \in known[s] \/ ByLive(s)

(* Once a write has put its data there, the sector holds these, or what has
   come over them. *)
Over ==
  \A s \in Cells, b \in Bios :
    b \in Live("write", s) /\ Moved(b, s) => ramblock_buf[s] \in seen[b][s] \/ ByLive(s)

(* What a read has found, or would find now, it may find. *)
Found ==
  \A s \in Cells, b \in Bios :
    b \in Live("read", s) =>
      (IF Moved(b, s) THEN Puts(bio[b], s) ELSE ramblock_buf[s]) \in seen[b][s]

(* A read may find what any write in hand puts there. *)
Awaited ==
  \A s \in Cells, b, w \in Bios :
    b \in Live("read", s) /\ w \in Live("write", s) => Puts(bio[w], s) \in seen[b][s]

ReadsInv ==
  /\ \A b \in Bios : InHand(b)
  /\ Known /\ Over /\ Found /\ Awaited

(* A submission changes one bio, and of that one everything is left. *)
LEMMA SubmitIs ==
  ASSUME TypeOK, NEW b \in Bios, NEW dir, NEW pos, NEW data,
         Disk!Submit(b, dir, pos, data)
  PROVE  /\ \A c \in Bios \ {b} : bio'[c] = bio[c] /\ Left'[c] = Left[c]
         /\ bio'[b] = [state |-> "live", dir |-> dir, pos |-> pos, data |-> data]
         /\ Left'[b] = DOMAIN data
         /\ UNCHANGED ramblock_buf
<1>1. Left' = [Left EXCEPT ![b] = DOMAIN data]
  BY DEF Disk!Submit, Left
<1>2. DOMAIN Left = Bios
  BY DEF Left
<1>3. QED BY <1>1, <1>2 DEF Disk!Submit, TypeOK

(* A move changes one bio, and puts what a write has on the disk, or what is on
   the disk into the buffer of a read. *)
LEMMA MoveIs ==
  ASSUME TypeOK, NEW b \in Bios, InHand(b), bio[b].state = "live",
         NEW S \in SUBSET LeftOf(b), Disk!Move(b, S)
  PROVE  /\ \A c \in Bios \ {b} : bio'[c] = bio[c] /\ Left'[c] = Left[c]
         /\ S \subseteq Left[b] /\ Left'[b] = Left[b] \ S
         /\ \A s \in Cells :
              ramblock_buf'[s] = IF bio[b].dir = "write" /\ s - bio[b].pos + 1 \in S
                                 THEN Puts(bio[b], s) ELSE ramblock_buf[s]
         /\ IF S = Left[b]
            THEN /\ bio'[b].state = "ended"
                 /\ bio[b].dir = "write" => bio'[b].data = <<>>
            ELSE /\ bio'[b].state = "live" /\ bio'[b].dir = bio[b].dir /\ bio'[b].pos = bio[b].pos
                 /\ bio[b].dir = "write" => bio'[b].data = bio[b].data
         /\ bio[b].dir = "read" =>
              /\ DOMAIN bio'[b].data = DOMAIN bio[b].data /\ Len(bio'[b].data) = Len(bio[b].data)
              /\ \A i \in DOMAIN bio[b].data :
                   bio'[b].data[i] = IF i \in S THEN ramblock_buf[bio[b].pos + i - 1]
                                     ELSE bio[b].data[i]
<1> DEFINE r    == bio[b]
           data == IF r.dir = "write" THEN r.data
                   ELSE [i \in DOMAIN r.data |->
                           IF i \in S THEN ramblock_buf[r.pos + i - 1] ELSE r.data[i]]
<1>1. Left[b] = LeftOf(b) /\ DOMAIN Left = Bios
  BY DEF Left
<1>2. Left' = [Left EXCEPT ![b] = @ \ S]
  BY DEF Disk!Move, Left
<1>3. bio' = [bio EXCEPT ![b] =
                IF S = LeftOf(b) THEN Ended(r.dir, data)
                ELSE [state |-> "live", dir |-> r.dir, pos |-> r.pos, data |-> data]]
  BY DEF Disk!Move, Disk!Ended, Ended
<1>4. ramblock_buf' = IF r.dir = "write"
                      THEN [s \in Cells |-> IF s \in {r.pos + i - 1 : i \in S}
                                            THEN r.data[s - r.pos + 1] ELSE ramblock_buf[s]]
                      ELSE ramblock_buf
  BY DEF Disk!Move, TypeOK, Cells
<1>5. \A s \in Cells : s \in {r.pos + i - 1 : i \in S} <=> s - r.pos + 1 \in S
  <2>1. r.pos \in Int /\ S \subseteq Int /\ Cells \subseteq Int
    BY <1>1, SectorsAssumption DEF InHand, Cells
  <2>2. QED BY <2>1
<1>6. \A c \in Bios \ {b} : bio'[c] = bio[c] /\ Left'[c] = Left[c]
  BY <1>1, <1>2, <1>3 DEF TypeOK
<1>7. bio'[b] = IF S = LeftOf(b) THEN Ended(r.dir, data)
                ELSE [state |-> "live", dir |-> r.dir, pos |-> r.pos, data |-> data]
  BY <1>3 DEF TypeOK
<1>8. r.dir = "read" =>
        /\ DOMAIN data = DOMAIN r.data /\ Len(data) = Len(r.data)
        /\ \A i \in DOMAIN r.data :
             data[i] = IF i \in S THEN ramblock_buf[r.pos + i - 1] ELSE r.data[i]
  BY DEF InHand
<1>9. r.dir = "write" => data = r.data
  OBVIOUS
<1> HIDE DEF data
<1>10. r.dir = "read" => bio'[b].data = data
  BY <1>7 DEF Ended
<1>11. IF S = Left[b]
       THEN bio'[b].state = "ended" /\ (r.dir = "write" => bio'[b].data = <<>>)
       ELSE /\ bio'[b].state = "live" /\ bio'[b].dir = r.dir /\ bio'[b].pos = r.pos
            /\ r.dir = "write" => bio'[b].data = r.data
  BY <1>1, <1>7, <1>9 DEF Ended
<1>12. S \subseteq Left[b] /\ Left'[b] = Left[b] \ S
  BY <1>1, <1>2
<1>13. QED BY <1>4, <1>5, <1>6, <1>8, <1>10, <1>11, <1>12 DEF Puts
(* Submitting a bio keeps the invariant. *)
LEMMA SubmitKeeps ==
  ASSUME TypeOK, ReadsInv, Record, NEW b \in Bios, bio[b].state = "ended",
         NEW dir \in {"read", "write"}, NEW n \in 1..Sectors, NEW pos \in 0..(Sectors - n),
         NEW data \in [1..n -> Values], Disk!Submit(b, dir, pos, data)
  PROVE  ReadsInv'
<1> DEFINE r == [state |-> "live", dir |-> dir, pos |-> pos, data |-> data]
<1>1. /\ \A c \in Bios \ {b} : bio'[c] = bio[c] /\ Left'[c] = Left[c]
      /\ bio'[b] = r /\ Left'[b] = 1..n /\ UNCHANGED ramblock_buf
  <2>1. DOMAIN data = 1..n
    OBVIOUS
  <2>2. QED BY <2>1, SubmitIs
<1>2. Len(data) = n /\ DOMAIN data = 1..n /\ n \in Nat /\ pos \in Nat /\ pos + n <= Sectors
  BY SectorsAssumption
<1>3. Begins(b)
  <2>1. \A c \in Bios \ {b} : bio'[c].state = bio[c].state
    BY <1>1
  <2>2. bio'[b].state = "live"
    BY <1>1
  <2>3. QED BY <2>1, <2>2 DEF Record, Begins, Finishes, GoesOn
<1>4. /\ \A s \in Cells : \A c \in Bios \ {b} : \A d \in {"read", "write"} :
           /\ c \in Live(d, s)' <=> c \in Live(d, s)
           /\ Moved(c, s)' <=> Moved(c, s)
           /\ Puts(bio[c], s)' = Puts(bio[c], s)
      /\ \A s \in Cells : \A d \in {"read", "write"} : b \notin Live(d, s)
  BY <1>1 DEF Live, Moved, Puts, Spans
<1>5. ASSUME NEW s \in Cells PROVE
        /\ \A d \in {"read", "write"} : b \in Live(d, s)' <=> d = dir /\ s \in Spans(r)
        /\ s \in Spans(r) => ~Moved(b, s)'
        /\ Puts(bio[b], s)' = Puts(r, s)
  <2>1. s \in Int /\ Spans(r) = pos..(pos + n - 1)
    BY <1>2, SectorsAssumption DEF Cells, Spans
  <2>2. s \in Spans(r) => ~Moved(b, s)'
    BY <1>1, <1>2, <2>1 DEF Moved
  <2>3. QED BY <1>1, <2>2 DEF Live, Puts, Spans
<1>6. ASSUME NEW s \in Cells, ByLive(s) PROVE ByLive(s)'
  BY <1>1, <1>4, <1>6 DEF ByLive, Live
<1>7. ASSUME NEW s \in Cells, NEW c \in Bios PROVE
        seen'[c][s] = CASE s \in Spans(r) /\ c = b /\ dir = "read" ->
                             known[s] \cup {Puts(bio[w], s) : w \in Live("write", s)}
                        [] s \in Spans(r) /\ c \in Live("read", s) /\ dir = "write" ->
                             seen[c][s] \cup {Puts(r, s)}
                        [] OTHER -> seen[c][s]
  BY <1>1, <1>3 DEF Begins
<1>8. known' = known
  BY <1>3 DEF Begins
<1>9. \A s \in Cells, c \in Bios : c \notin Live("read", s) \/ c \notin Live("write", s)
  BY DEF Live
<1>10. \A c \in Bios : InHand(c)'
  <2>1. InHand(b)'
    BY <1>1, <1>2 DEF InHand
  <2>2. \A c \in Bios \ {b} : InHand(c)'
    BY <1>1 DEF ReadsInv, InHand
  <2>3. QED BY <2>1, <2>2
<1>11. Known'
  BY <1>1, <1>6, <1>8 DEF ReadsInv, Known
<1>12. Over'
  <2>1. SUFFICES ASSUME NEW s \in Cells, NEW c \in Bios, c \in Live("write", s)', Moved(c, s)'
                 PROVE  ramblock_buf'[s] \in seen'[c][s] \/ ByLive(s)'
    BY DEF Over, Cells
  <2>2. c # b
    BY <1>5, <2>1
  <2>3. c \in Live("write", s) /\ Moved(c, s) /\ c \notin Live("read", s)
    BY <1>4, <1>9, <2>1, <2>2
  <2>4. seen'[c][s] = seen[c][s]
    BY <1>7, <2>2, <2>3
  <2>5. QED BY <1>1, <1>6, <2>3, <2>4 DEF ReadsInv, Over
<1>13. Found'
  <2>1. SUFFICES ASSUME NEW s \in Cells, NEW c \in Bios, c \in Live("read", s)'
                 PROVE  (IF Moved(c, s) THEN Puts(bio[c], s) ELSE ramblock_buf[s])' \in seen'[c][s]
    BY DEF Found, Cells
  <2>2. CASE c = b
    <3>1. dir = "read" /\ s \in Spans(r) /\ ~Moved(b, s)'
      BY <1>5, <2>1, <2>2
    <3>2. seen'[b][s] = known[s] \cup {Puts(bio[w], s) : w \in Live("write", s)}
      BY <1>7, <3>1
    <3>3. ramblock_buf[s] \in known[s] \cup {Puts(bio[w], s) : w \in Live("write", s)}
      BY DEF ReadsInv, Known, ByLive
    <3>4. QED BY <1>1, <2>2, <3>1, <3>2, <3>3
  <2>3. CASE c # b
    <3>1. /\ c \in Live("read", s)
          /\ Moved(c, s)' <=> Moved(c, s)
          /\ Puts(bio[c], s)' = Puts(bio[c], s)
      BY <1>4, <2>1, <2>3
    <3>2. seen[c][s] \subseteq seen'[c][s]
      BY <1>7, <2>3
    <3>3. QED BY <1>1, <3>1, <3>2 DEF ReadsInv, Found
  <2>4. QED BY <2>2, <2>3
<1>14. Awaited'
  <2>1. SUFFICES ASSUME NEW s \in Cells, NEW c \in Bios, NEW w \in Bios,
                        c \in Live("read", s)', w \in Live("write", s)'
                 PROVE  Puts(bio[w], s)' \in seen'[c][s]
    BY DEF Awaited, Cells
  <2>2. CASE c = b
    <3>1. w # b /\ dir = "read" /\ s \in Spans(r)
      BY <1>5, <2>1, <2>2
    <3>2. w \in Live("write", s) /\ Puts(bio[w], s)' = Puts(bio[w], s)
      BY <1>4, <2>1, <3>1
    <3>3. QED BY <1>7, <2>2, <3>1, <3>2
  <2>3. CASE c # b /\ w = b
    <3>1. c \in Live("read", s) /\ dir = "write" /\ s \in Spans(r) /\ Puts(bio[b], s)' = Puts(r, s)
      BY <1>4, <1>5, <2>1, <2>3
    <3>2. QED BY <1>7, <2>3, <3>1
  <2>4. CASE c # b /\ w # b
    <3>1. c \in Live("read", s) /\ w \in Live("write", s) /\ Puts(bio[w], s)' = Puts(bio[w], s)
      BY <1>4, <2>1, <2>4
    <3>2. seen[c][s] \subseteq seen'[c][s]
      BY <1>7, <2>4
    <3>3. QED BY <3>1, <3>2 DEF ReadsInv, Awaited
  <2>5. QED BY <2>2, <2>3, <2>4
<1>15. QED BY <1>10, <1>11, <1>12, <1>13, <1>14 DEF ReadsInv
(* What a Move does to the histories: nothing unless its bio ends. *)
LEMMA MoveRecords ==
  ASSUME TypeOK, Record, NEW b \in Bios, bio[b].state = "live",
         \A c \in Bios \ {b} : bio'[c] = bio[c]
  PROVE  /\ bio'[b].state = "ended" => Finishes(b)
         /\ bio'[b].state = "live" => UNCHANGED <<known, seen>>
<1>1. \A c \in Bios \ {b} : ~Begins(c) /\ ~Finishes(c)
  BY DEF Begins, Finishes
<1>2. ~Begins(b)
  BY DEF Begins
<1>3. QED BY <1>1, <1>2 DEF Record, Finishes, GoesOn

(* A Move of a write keeps the invariant. *)
LEMMA WriteKeeps ==
  ASSUME TypeOK, ReadsInv, Record, NEW b \in Bios, bio[b].state = "live", bio[b].dir = "write",
         NEW S \in SUBSET LeftOf(b), Disk!Move(b, S)
  PROVE  ReadsInv'
<1> DEFINE r == bio[b]
           Final == S = Left[b]
<1>1. /\ \A c \in Bios \ {b} : bio'[c] = bio[c] /\ Left'[c] = Left[c]
      /\ S \subseteq Left[b] /\ Left'[b] = Left[b] \ S
      /\ \A s \in Cells :
           ramblock_buf'[s] = IF s - r.pos + 1 \in S THEN Puts(r, s) ELSE ramblock_buf[s]
      /\ Final => bio'[b].state = "ended"
      /\ ~Final => /\ bio'[b].state = "live" /\ bio'[b].dir = "write"
                   /\ bio'[b].pos = r.pos /\ bio'[b].data = r.data
  BY MoveIs DEF ReadsInv
<1>2. /\ Final => Finishes(b)
      /\ ~Final => UNCHANGED <<known, seen>>
  BY <1>1, MoveRecords
<1> HIDE DEF Final
<1>3. \A s \in Cells : \A c \in Bios \ {b} : \A d \in {"read", "write"} :
        /\ c \in Live(d, s)' <=> c \in Live(d, s)
        /\ Moved(c, s)' <=> Moved(c, s)
        /\ Puts(bio[c], s)' = Puts(bio[c], s)
  BY <1>1 DEF Live, Moved, Puts, Spans
<1>4. \A s \in Cells :
        /\ b \notin Live("read", s)' /\ b \notin Live("read", s)
        /\ b \in Live("write", s) <=> s \in Spans(r)
        /\ b \in Live("write", s)' <=> ~Final /\ s \in Spans(r)
        /\ ~Final => Puts(bio[b], s)' = Puts(r, s)
  BY <1>1 DEF Live, Puts, Spans
<1>5. ASSUME NEW s \in Cells PROVE
        /\ ~Final => (Moved(b, s)' <=> Moved(b, s) \/ s - r.pos + 1 \in S)
        /\ s - r.pos + 1 \in S => s \in Spans(r)
        /\ Final => Moved(b, s) \/ s - r.pos + 1 \in S
  <2>1. ~Final => (Moved(b, s)' <=> Moved(b, s) \/ s - r.pos + 1 \in S)
    BY <1>1 DEF Moved
  <2>2. Final => Moved(b, s) \/ s - r.pos + 1 \in S
    BY DEF Moved, Final
  <2>3. s - r.pos + 1 \in S => s \in Spans(r)
    <3>1. s \in Int /\ r.pos \in Nat /\ Len(r.data) \in Nat /\ S \subseteq 1..Len(r.data)
      BY <1>1, SectorsAssumption DEF ReadsInv, InHand, Cells
    <3>2. QED BY <3>1 DEF Spans
  <2>4. QED BY <2>1, <2>2, <2>3
(* The sectors that are moved hold the write's data, *)
<1>6. ASSUME NEW s \in Cells, s - r.pos + 1 \in S
      PROVE  ramblock_buf'[s] = Puts(r, s) /\ s \in Spans(r) /\ (~Final => ByLive(s)')
  <2>1. ramblock_buf'[s] = Puts(r, s) /\ s \in Spans(r)
    BY <1>1, <1>5, <1>6
  <2>2. ~Final => b \in Live("write", s)' /\ Moved(b, s)' /\ Puts(bio[b], s)' = Puts(r, s)
    BY <1>4, <1>5, <1>6, <2>1
  <2>3. QED BY <2>1, <2>2 DEF ByLive, Live
(* and in the others what writes in hand have put there stays. *)
<1>7. ASSUME NEW s \in Cells, s - r.pos + 1 \notin S
      PROVE  /\ ramblock_buf'[s] = ramblock_buf[s]
             /\ ByLive(s) => ByLive(s)' \/ (Final /\ s \in Spans(r) /\ ramblock_buf[s] = Puts(r, s))
  <2>1. ramblock_buf'[s] = ramblock_buf[s]
    BY <1>1, <1>7
  <2>2. ASSUME NEW w \in Live("write", s), Moved(w, s), Puts(bio[w], s) = ramblock_buf[s]
        PROVE  ByLive(s)' \/ (Final /\ s \in Spans(r) /\ ramblock_buf[s] = Puts(r, s))
    <3>1. CASE w # b
      <4>1. w \in Bios \ {b}
        BY <2>2, <3>1 DEF Live
      <4>2. w \in Live("write", s)' /\ Moved(w, s)' /\ Puts(bio[w], s)' = ramblock_buf'[s]
        BY <1>3, <2>1, <2>2, <4>1
      <4>3. QED BY <4>2 DEF ByLive
    <3>2. CASE w = b /\ ~Final
      <4>1. b \in Live("write", s)' /\ Moved(b, s)' /\ Puts(bio[b], s)' = ramblock_buf'[s]
        BY <1>4, <1>5, <2>1, <2>2, <3>2
      <4>2. QED BY <4>1 DEF ByLive
    <3>3. CASE w = b /\ Final
      BY <1>4, <2>2, <3>3
    <3>4. QED BY <3>1, <3>2, <3>3
  <2>3. QED BY <2>1, <2>2 DEF ByLive
<1>8. ASSUME NEW s \in Cells, Final
      PROVE  /\ known'[s] = IF s \in Spans(r) THEN {Puts(r, s)} \cup seen[b][s] ELSE known[s]
             /\ \A c \in Bios \ {b} :
                  seen'[c][s] = IF s \in Spans(r) /\ c \in Live("write", s)
                                THEN {Puts(r, s)} \cup (seen[c][s] \cap seen[b][s]) ELSE seen[c][s]
  <2>1. Finishes(b)
    BY <1>2, <1>8
  <2>2. known'[s] = IF s \in Spans(r) THEN {Puts(r, s)} \cup seen[b][s] ELSE known[s]
    BY <2>1 DEF Finishes
  <2>3. ASSUME NEW c \in Bios \ {b}
        PROVE  seen'[c][s] = IF s \in Spans(r) /\ c \in Live("write", s)
                             THEN {Puts(r, s)} \cup (seen[c][s] \cap seen[b][s]) ELSE seen[c][s]
    BY <2>1 DEF Finishes
  <2>4. QED BY <2>2, <2>3
<1>9. ASSUME NEW s \in Cells, s \in Spans(r), s - r.pos + 1 \notin S, Final
      PROVE  ramblock_buf[s] \in seen[b][s] \/ ByLive(s)
  <2>1. b \in Live("write", s) /\ Moved(b, s)
    BY <1>4, <1>5, <1>9
  <2>2. QED BY <2>1 DEF ReadsInv, Over
<1>10. \A c \in Bios : InHand(c)'
  <2>1. InHand(b)'
    BY <1>1 DEF ReadsInv, InHand
  <2>2. \A c \in Bios \ {b} : InHand(c)'
    BY <1>1 DEF ReadsInv, InHand
  <2>3. QED BY <2>1, <2>2
<1>11. Known'
  <2>1. SUFFICES ASSUME NEW s \in Cells PROVE ramblock_buf'[s] \in known'[s] \/ ByLive(s)'
    BY DEF Known, Cells
  <2>2. CASE s - r.pos + 1 \in S
    BY <1>6, <1>8, <2>2
  <2>3. CASE s - r.pos + 1 \notin S /\ Final /\ s \in Spans(r)
    BY <1>7, <1>8, <1>9, <2>3
  <2>4. CASE s - r.pos + 1 \notin S /\ ~(Final /\ s \in Spans(r))
    <3>1. known'[s] = known[s]
      BY <1>2, <1>8, <2>4
    <3>2. QED BY <1>7, <2>4, <3>1 DEF ReadsInv, Known
  <2>5. QED BY <2>2, <2>3, <2>4
<1>12. Over'
  <2>1. SUFFICES ASSUME NEW s \in Cells, NEW c \in Bios, c \in Live("write", s)', Moved(c, s)'
                 PROVE  ramblock_buf'[s] \in seen'[c][s] \/ ByLive(s)'
    BY DEF Over, Cells
  <2>2. CASE s - r.pos + 1 \in S /\ ~Final
    BY <1>6, <2>2
  <2>3. CASE Final /\ s \in Spans(r)
    <3>1. c \in Bios \ {b} /\ c \in Live("write", s) /\ Moved(c, s)
      BY <1>3, <1>4, <2>1, <2>3
    <3>2. seen'[c][s] = {Puts(r, s)} \cup (seen[c][s] \cap seen[b][s])
      BY <1>8, <2>3, <3>1
    <3>3. ramblock_buf[s] \in seen[c][s] \/ ByLive(s)
      BY <3>1 DEF ReadsInv, Over
    <3>4. QED BY <1>6, <1>7, <1>9, <2>3, <3>2, <3>3
  <2>4. CASE s - r.pos + 1 \notin S /\ ~(Final /\ s \in Spans(r))
    <3>1. c \in Live("write", s) /\ Moved(c, s)
      BY <1>3, <1>4, <1>5, <2>1, <2>4
    <3>2. seen'[c][s] = seen[c][s]
      <4>1. ~Final \/ c # b
        BY <1>4, <2>1
      <4>2. QED BY <1>2, <1>8, <2>4, <4>1
    <3>3. QED BY <1>7, <2>4, <3>1, <3>2 DEF ReadsInv, Over
  <2>5. QED BY <1>6, <2>2, <2>3, <2>4
<1>13. \A s \in Cells, c \in Bios :
         c \in Live("read", s)' => c # b /\ c \in Live("read", s) /\ seen'[c][s] = seen[c][s]
  <2>1. SUFFICES ASSUME NEW s \in Cells, NEW c \in Bios, c \in Live("read", s)'
                 PROVE  c # b /\ c \in Live("read", s) /\ seen'[c][s] = seen[c][s]
    OBVIOUS
  <2>2. c # b /\ c \in Live("read", s)
    BY <1>3, <1>4, <2>1
  <2>3. c \notin Live("write", s)
    BY <2>2 DEF Live
  <2>4. QED BY <1>2, <1>8, <2>2, <2>3
<1>14. Found'
  <2>1. SUFFICES ASSUME NEW s \in Cells, NEW c \in Bios, c \in Live("read", s)'
                 PROVE  (IF Moved(c, s) THEN Puts(bio[c], s) ELSE ramblock_buf[s])' \in seen'[c][s]
    BY DEF Found, Cells
  <2>2. c \in Bios \ {b} /\ c \in Live("read", s) /\ seen'[c][s] = seen[c][s]
    BY <1>13, <2>1
  <2>3. (Moved(c, s)' <=> Moved(c, s)) /\ Puts(bio[c], s)' = Puts(bio[c], s)
    BY <1>3, <2>2
  <2>4. s - r.pos + 1 \in S => Puts(r, s) \in seen[c][s]
    BY <1>4, <1>5, <2>2 DEF ReadsInv, Awaited
  <2>5. QED BY <1>1, <2>2, <2>3, <2>4 DEF ReadsInv, Found
<1>15. Awaited'
  <2>1. SUFFICES ASSUME NEW s \in Cells, NEW c \in Bios, NEW w \in Bios,
                        c \in Live("read", s)', w \in Live("write", s)'
                 PROVE  Puts(bio[w], s)' \in seen'[c][s]
    BY DEF Awaited, Cells
  <2>2. w \in Live("write", s) /\ Puts(bio[w], s)' = Puts(bio[w], s)
    BY <1>3, <1>4, <2>1
  <2>3. QED BY <1>13, <2>1, <2>2 DEF ReadsInv, Awaited
<1>16. QED BY <1>10, <1>11, <1>12, <1>14, <1>15 DEF ReadsInv

(* A Move of a read keeps the invariant. *)
LEMMA ReadKeeps ==
  ASSUME TypeOK, ReadsInv, Record, NEW b \in Bios, bio[b].state = "live", bio[b].dir = "read",
         NEW S \in SUBSET LeftOf(b), Disk!Move(b, S)
  PROVE  ReadsInv'
<1> DEFINE r == bio[b]
           Final == S = Left[b]
<1>1. /\ \A c \in Bios \ {b} : bio'[c] = bio[c] /\ Left'[c] = Left[c]
      /\ S \subseteq Left[b] /\ Left'[b] = Left[b] \ S
      /\ \A s \in Cells : ramblock_buf'[s] = ramblock_buf[s]
      /\ Final => bio'[b].state = "ended"
      /\ ~Final => bio'[b].state = "live" /\ bio'[b].dir = "read" /\ bio'[b].pos = r.pos
      /\ DOMAIN bio'[b].data = DOMAIN r.data /\ Len(bio'[b].data) = Len(r.data)
      /\ \A i \in DOMAIN r.data :
           bio'[b].data[i] = IF i \in S THEN ramblock_buf[r.pos + i - 1] ELSE r.data[i]
  BY MoveIs DEF ReadsInv
<1>2. /\ Final => Finishes(b)
      /\ ~Final => UNCHANGED <<known, seen>>
  BY <1>1, MoveRecords
<1> HIDE DEF Final
<1>3. \A s \in Cells : \A c \in Bios \ {b} : \A d \in {"read", "write"} :
        /\ c \in Live(d, s)' <=> c \in Live(d, s)
        /\ Moved(c, s)' <=> Moved(c, s)
        /\ Puts(bio[c], s)' = Puts(bio[c], s)
  BY <1>1 DEF Live, Moved, Puts, Spans
<1>4. \A s \in Cells :
        /\ b \notin Live("write", s)' /\ b \notin Live("write", s)
        /\ b \in Live("read", s)' => ~Final /\ b \in Live("read", s) /\ s \in Spans(r)
  BY <1>1 DEF Live, Spans
<1>5. \A s \in Cells :
        /\ known'[s] = known[s]
        /\ \A c \in Bios : c # b \/ ~Final => seen'[c][s] = seen[c][s]
  BY <1>2 DEF Finishes
<1>6. ASSUME NEW s \in Cells, ByLive(s) PROVE ByLive(s)'
  <2>1. PICK w \in Live("write", s) : Moved(w, s) /\ Puts(bio[w], s) = ramblock_buf[s]
    BY <1>6 DEF ByLive
  <2>2. w \in Bios \ {b}
    BY <1>4, <2>1 DEF Live
  <2>3. w \in Live("write", s)' /\ Moved(w, s)' /\ Puts(bio[w], s)' = ramblock_buf'[s]
    BY <1>1, <1>3, <2>1, <2>2
  <2>4. QED BY <2>3 DEF ByLive
<1>7. \A c \in Bios : InHand(c)'
  <2>1. InHand(b)'
    BY <1>1 DEF ReadsInv, InHand
  <2>2. \A c \in Bios \ {b} : InHand(c)'
    BY <1>1 DEF ReadsInv, InHand
  <2>3. QED BY <2>1, <2>2
<1>8. Known'
  <2>1. SUFFICES ASSUME NEW s \in Cells PROVE ramblock_buf'[s] \in known'[s] \/ ByLive(s)'
    BY DEF Known, Cells
  <2>2. QED BY <1>1, <1>5, <1>6 DEF ReadsInv, Known
<1>9. Over'
  <2>1. SUFFICES ASSUME NEW s \in Cells, NEW c \in Bios, c \in Live("write", s)', Moved(c, s)'
                 PROVE  ramblock_buf'[s] \in seen'[c][s] \/ ByLive(s)'
    BY DEF Over, Cells
  <2>2. c \in Bios \ {b} /\ c \in Live("write", s) /\ Moved(c, s) /\ seen'[c][s] = seen[c][s]
    BY <1>3, <1>4, <1>5, <2>1
  <2>3. QED BY <1>1, <1>6, <2>2 DEF ReadsInv, Over
<1>10. ASSUME NEW s \in Cells, NEW c \in Bios, c \in Live("read", s)'
       PROVE  c \in Live("read", s) /\ seen'[c][s] = seen[c][s]
  BY <1>3, <1>4, <1>5, <1>10
<1>11. Found'
  <2>1. SUFFICES ASSUME NEW s \in Cells, NEW c \in Bios, c \in Live("read", s)'
                 PROVE  (IF Moved(c, s) THEN Puts(bio[c], s) ELSE ramblock_buf[s])' \in seen'[c][s]
    BY DEF Found, Cells
  <2>2. (IF Moved(c, s) THEN Puts(bio[c], s) ELSE ramblock_buf[s]) \in seen'[c][s]
    BY <1>10, <2>1 DEF ReadsInv, Found
  <2>3. CASE c # b
    BY <1>1, <1>3, <2>2, <2>3
  <2>4. CASE c = b
    <3>1. ~Final /\ s \in Spans(r)
      BY <1>4, <2>1, <2>4
    <3>2. bio'[b].pos = r.pos
      BY <1>1, <3>1
    <3>3. s - r.pos + 1 \in DOMAIN r.data /\ r.pos + (s - r.pos + 1) - 1 = s
      <4>1. s \in Int /\ r.pos \in Nat /\ Len(r.data) \in Nat /\ DOMAIN r.data = 1..Len(r.data)
        BY SectorsAssumption DEF ReadsInv, InHand, Cells
      <4>2. QED BY <3>1, <4>1 DEF Spans
    <3>4. Moved(b, s)' <=> Moved(b, s) \/ s - r.pos + 1 \in S
      BY <1>1, <3>2 DEF Moved
    <3>5. Puts(bio[b], s)' = IF s - r.pos + 1 \in S THEN ramblock_buf[s] ELSE Puts(r, s)
      BY <1>1, <3>2, <3>3 DEF Puts
    <3>6. s - r.pos + 1 \in S => ~Moved(b, s)
      BY <1>1 DEF Moved
    <3>7. QED BY <1>1, <2>2, <2>4, <3>4, <3>5, <3>6
  <2>5. QED BY <2>3, <2>4
<1>12. Awaited'
  <2>1. SUFFICES ASSUME NEW s \in Cells, NEW c \in Bios, NEW w \in Bios,
                        c \in Live("read", s)', w \in Live("write", s)'
                 PROVE  Puts(bio[w], s)' \in seen'[c][s]
    BY DEF Awaited, Cells
  <2>2. w \in Live("write", s) /\ Puts(bio[w], s)' = Puts(bio[w], s)
    BY <1>3, <1>4, <2>1
  <2>3. QED BY <1>10, <2>1, <2>2 DEF ReadsInv, Awaited
<1>13. QED BY <1>7, <1>8, <1>9, <1>11, <1>12 DEF ReadsInv

(* A read that ends has found in each of its sectors what it may find. *)
LEMMA ReadEndsWell ==
  ASSUME TypeOK, ReadsInv, NEW b \in Bios, bio[b].state = "live",
         NEW S \in SUBSET LeftOf(b), Disk!Move(b, S), NEW c \in Bios
  PROVE  ReadEnds(c)
<1> DEFINE r == bio[c]
<1>1. \A d \in Bios \ {b} : bio'[d] = bio[d]
  BY MoveIs DEF ReadsInv
<1>2. c # b => ReadEnds(c)
  BY <1>1 DEF ReadEnds
<1>3. SUFFICES ASSUME c = b, r.dir = "read", bio'[c].state = "ended",
                      NEW i \in DOMAIN bio'[c].data
               PROVE  bio'[c].data[i] \in seen[c][r.pos + i - 1]
  BY <1>2 DEF ReadEnds
<1>4. /\ S \subseteq Left[c] /\ (S # Left[c] => bio'[c].state = "live")
      /\ DOMAIN bio'[c].data = DOMAIN r.data
      /\ \A j \in DOMAIN r.data :
           bio'[c].data[j] = IF j \in S THEN ramblock_buf[r.pos + j - 1] ELSE r.data[j]
  BY <1>3, MoveIs DEF ReadsInv
<1>5. S = Left[c]
  BY <1>3, <1>4
<1>6. /\ r.pos \in Nat /\ Len(r.data) \in Nat /\ DOMAIN r.data = 1..Len(r.data)
      /\ r.pos + Len(r.data) <= Sectors
  BY <1>3 DEF ReadsInv, InHand
<1> DEFINE s == r.pos + i - 1
<1>7. i \in 1..Len(r.data) /\ s \in Cells /\ s \in Spans(r) /\ s - r.pos + 1 = i
  BY <1>3, <1>4, <1>6, SectorsAssumption DEF Cells, Spans
<1>8. c \in Live("read", s)
  BY <1>3, <1>7 DEF Live
<1>9. (Moved(c, s) <=> i \notin S) /\ Puts(r, s) = r.data[i]
  BY <1>5, <1>7 DEF Moved, Puts
<1>10. (IF Moved(c, s) THEN Puts(bio[c], s) ELSE ramblock_buf[s]) \in seen[c][s]
  BY <1>7, <1>8 DEF ReadsInv, Found
<1>11. bio'[c].data[i] = IF i \in S THEN ramblock_buf[s] ELSE r.data[i]
  BY <1>3, <1>4
<1>12. QED BY <1>9, <1>10, <1>11

(* Every step of the driver keeps the invariant, and reads end well. *)
LEMMA ReadsStep ==
  ASSUME Inv, ReadsInv, [Next /\ Record]_rvars
  PROVE  ReadsInv' /\ \A c \in Bios : ReadEnds(c)
<1>1. TypeOK /\ [Disk!Next]_(Disk!vars)
  BY StepIs DEF Inv, rvars
<1>2. CASE UNCHANGED Disk!vars
  <2>1. UNCHANGED <<ramblock_buf, bio, Left>>
    BY <1>2 DEF Disk!vars, Left
  <2>2. UNCHANGED <<known, seen>>
    BY <2>1 DEF rvars, Record, Begins, Finishes, GoesOn
  <2>3. ReadsInv'
    BY <2>1, <2>2
    DEF ReadsInv, InHand, Known, Over, Found, Awaited, ByLive, Moved, Live, Puts, Spans
  <2>4. QED BY <2>1, <2>3 DEF ReadEnds
<1>3. CASE ~(UNCHANGED Disk!vars)
  <2>1. Record /\ Disk!Next
    BY <1>1, <1>3 DEF rvars, vars, Disk!vars, LeftOf, Requests
  <2>2. ASSUME NEW b \in Bios, bio[b].state = "ended",
               NEW dir \in {"read", "write"}, NEW n \in 1..Sectors,
               NEW pos \in 0..(Sectors - n), NEW data \in [1..n -> Values],
               Disk!Submit(b, dir, pos, data)
        PROVE  ReadsInv' /\ \A c \in Bios : ReadEnds(c)
    <3>1. \A c \in Bios : bio[c].state = "live" => bio'[c] = bio[c]
      BY <1>1, <2>2, SubmitIs
    <3>2. QED BY <1>1, <2>1, <2>2, <3>1, SubmitKeeps DEF ReadEnds
  <2>3. ASSUME NEW b \in Bios, bio[b].state = "live", NEW S \in SUBSET LeftOf(b), Disk!Move(b, S)
        PROVE  ReadsInv' /\ \A c \in Bios : ReadEnds(c)
    <3>1. bio[b].dir \in {"read", "write"}
      BY <2>3 DEF ReadsInv, InHand
    <3>2. ReadsInv'
      BY <1>1, <2>1, <2>3, <3>1, WriteKeeps, ReadKeeps
    <3>3. QED BY <1>1, <2>3, <3>2, ReadEndsWell
  <2>4. \A b \in Bios : [c \in Bios |-> LeftOf(c)][b] = LeftOf(b)
    OBVIOUS
  <2>5. QED BY <2>1, <2>2, <2>3, <2>4 DEF Disk!Next
<1>4. QED BY <1>2, <1>3

(* In the beginning nothing is in hand, and every sector holds what is known. *)
LEMMA ReadsInvInit ==
  ASSUME ReadsInit PROVE Inv /\ ReadsInv
<1>1. Inv
  BY InvInit DEF ReadsInit
<1>2. \A b \in Bios : bio[b].state = "ended"
  BY DEF ReadsInit, Init, Ended
<1>3. \A s \in Cells : \A d \in {"read", "write"} : Live(d, s) = {}
  BY <1>2 DEF Live
<1>4. Known
  BY DEF ReadsInit, Init, Known, Cells
<1>5. QED BY <1>1, <1>2, <1>3, <1>4 DEF ReadsInv, InHand, Over, Found, Awaited

(* However bios are merged, cut and ordered on their way to do_ramblock_request:
   of each sector a read brings what the last write has put there that ended
   before the read was submitted, or a write that was in hand with it. *)
THEOREM ReadsFindWritten == ReadsSpec => ReadsFind
<1>1. ReadsInit => Inv /\ ReadsInv
  BY ReadsInvInit
<1>2. Inv /\ ReadsInv /\ [Next /\ Record]_rvars =>
        /\ Inv' /\ ReadsInv'
        /\ [\A b \in Bios : ReadEnds(b)]_rvars
  <2>1. [Next /\ Record]_rvars => [Next]_vars
    BY DEF rvars
  <2>2. QED BY <2>1, StepIs, ReadsStep
<1>3. QED BY <1>1, <1>2, PTL DEF ReadsSpec, ReadsFind
===============================================================================
