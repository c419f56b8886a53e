----------------------------- MODULE RamBlockReads -----------------------------
(***************************************************************************)
(* What those who use the RAM disk see of it: which data a read may bring. *)
(*                                                                         *)
(* Two history variables look at the bios as they are submitted and end,   *)
(* and at nothing inside the driver.  Of the writes of a sector that have  *)
(* ended only those count that can have been the last: one that had ended  *)
(* before another was submitted, which has ended too, cannot.              *)
(***************************************************************************)
EXTENDS RamBlock

VARIABLES
  known,       \* known[s]: what the writes that have ended can have left in
               \* sector s
  seen         \* seen[b][s]: of a write b in hand, what may have been written
               \* over it by those that have ended since it was submitted; of
               \* a read b in hand, what it may find in s

rvars == <<vars, known, seen>>

Cells == 0..(Sectors - 1)

(* The sectors of a bio, and what a write puts into one of them. *)
Spans(r)   == r.pos..(r.pos + Len(r.data) - 1)
Puts(r, s) == r.data[s - r.pos + 1]

(* The bios in hand that write sector s, and that read it. *)
Live(dir, s) == {b \in Bios : bio[b].state = "live" /\ bio[b].dir = dir /\ s \in Spans(bio[b])}

ReadsInit ==
  /\ Init
  /\ known = [s \in Cells |-> {ZERO}]
  /\ seen = [b \in Bios |-> [s \in Cells |-> {}]]

-----------------------------------------------------------------------------
(* A bio is submitted.  A read may find what is known and what any write puts
   there that is in hand, or is submitted while the read is. *)
Begins(b) ==
  LET r == bio'[b]
  IN  /\ bio[b].state = "ended" /\ r.state = "live"
      /\ seen' = [c \in Bios |-> [s \in Cells |->
                    CASE s \in Spans(r) /\ c = b /\ r.dir = "read" ->
                           known[s] \cup {Puts(bio[w], s) : w \in Live("write", s)}
                      [] s \in Spans(r) /\ c \in Live("read", s) /\ r.dir = "write" ->
                           seen[c][s] \cup {Puts(r, s)}
                      [] OTHER -> seen[c][s]]]
      /\ UNCHANGED known

(* A bio ends.  After a write its data are known, and of what was known before
   what may have come over them. *)
Finishes(b) ==
  LET r   == bio[b]
      Its == IF r.dir = "write" THEN Spans(r) ELSE {}
  IN  /\ r.state = "live" /\ bio'[b].state = "ended"
      /\ known' = [s \in Cells |-> IF s \in Its THEN {Puts(r, s)} \cup seen[b][s] ELSE known[s]]
      /\ seen' = [c \in Bios |-> [s \in Cells |->
                    IF c = b THEN {}
                    ELSE IF s \in Its /\ c \in Live("write", s)
                         THEN {Puts(r, s)} \cup (seen[c][s] \cap seen[b][s])
                         ELSE seen[c][s]]]

GoesOn ==
  /\ \A b \in Bios : bio'[b].state = bio[b].state
  /\ UNCHANGED <<known, seen>>

Record == (\E b \in Bios : Begins(b) \/ Finishes(b)) \/ GoesOn

ReadsSpec == ReadsInit /\ [][Next /\ Record]_rvars

-----------------------------------------------------------------------------
(* A read that ends brings, of each of its sectors, what the last write of it
   has put there: of those that had ended when the read was submitted one that
   none of the others followed, or one that was in hand together with the read.
   However do_ramblock_request gets its bios, merged and cut, and in whichever
   order: the data are never of another sector, nor of a write that has been
   written over, nor what the buffer held before. *)
ReadEnds(b) ==
  bio[b].state = "live" /\ bio[b].dir = "read" /\ bio'[b].state = "ended" =>
    \A i \in DOMAIN bio'[b].data : bio'[b].data[i] \in seen[b][bio[b].pos + i - 1]

ReadsFind == [][\A b \in Bios : ReadEnds(b)]_rvars
===============================================================================
