------------------------------ MODULE BlockDevice ------------------------------
(***************************************************************************)
(* What the block layer expects of a disk.  A bio moves each of its        *)
(* sectors once, between its submission and its end, in any order and any  *)
(* number at a time; bios that are in hand together may interleave.  So a  *)
(* read that is submitted after a write has ended finds what was written.  *)
(***************************************************************************)
EXTENDS Integers

CONSTANTS
  Bios,        \* bios that can be in hand at the same time
  Sectors,     \* number of sectors of the disk
  Values       \* what a sector can hold

VARIABLES
  store,       \* store[s]: what sector s of the disk holds
  bio,         \* bio[b]: the state, direction and first sector of b, the
               \* contents of its buffer, and how many sectors they are
  left         \* left[b]: the sectors of b that have not been moved yet,
               \* counted from 1

vars == <<store, bio, left>>

(* A bio that has ended: of a read, the data are still of interest. *)
Ended(dir, data) ==
  [state |-> "ended", dir |-> "read", pos |-> 0, data |-> IF dir = "read" THEN data ELSE <<>>]

Submit(b, dir, pos, data) ==
  /\ bio' = [bio EXCEPT ![b] = [state |-> "live", dir |-> dir, pos |-> pos, data |-> data]]
  /\ left' = [left EXCEPT ![b] = DOMAIN data]
  /\ UNCHANGED store

(* The sectors S of b are moved; b ends with its last sector. *)
Move(b, S) ==
  LET r  == bio[b]
      At == {r.pos + i - 1 : i \in S}
  IN  /\ S \subseteq left[b] /\ S # {}
      /\ left' = [left EXCEPT ![b] = @ \ S]
      /\ store' = IF r.dir = "write"
                  THEN [s \in DOMAIN store |-> IF s \in At THEN r.data[s - r.pos + 1] ELSE store[s]]
                  ELSE store
      /\ bio' = [bio EXCEPT ![b] =
                   LET data == IF r.dir = "write" THEN r.data
                               ELSE [i \in DOMAIN r.data |-> IF i \in S THEN store[r.pos + i - 1] ELSE r.data[i]]
                   IN  IF S = left[b] THEN Ended(r.dir, data)
                       ELSE [state |-> "live", dir |-> r.dir, pos |-> r.pos, data |-> data]]

Init ==
  /\ \E v \in Values : store = [s \in 0..(Sectors - 1) |-> v]
  /\ bio = [b \in Bios |-> Ended("read", <<>>)]
  /\ left = [b \in Bios |-> {}]

Next ==
  \E b \in Bios :
    \/ /\ bio[b].state = "ended"
       /\ \E dir \in {"read", "write"}, n \in 1..Sectors :
            \E pos \in 0..(Sectors - n), data \in [1..n -> Values] : Submit(b, dir, pos, data)
    \/ /\ bio[b].state = "live"
       /\ \E S \in SUBSET left[b] : Move(b, S)

Spec == Init /\ [][Next]_vars
===============================================================================
