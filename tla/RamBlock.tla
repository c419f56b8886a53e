-------------------------------- MODULE RamBlock --------------------------------
(***************************************************************************)
(* The RAM disk, src/ram_block/ramblock.c: do_ramblock_request, with the   *)
(* bios and the elevator (external) that make the requests it fetches.     *)
(*                                                                         *)
(* The function runs with ramblock_lock held and interrupts off, on the    *)
(* only processor: nothing is submitted while it does.  A request is one   *)
(* bio or several, adjacent and in the same direction, that the elevator   *)
(* has merged; a bio is cut into segments, one for each stretch of memory  *)
(* of its buffer, and the loop's body handles one segment.  Lengths are    *)
(* counted in sectors of 512 bytes, of which all are multiples.            *)
(* ramblock_init and ramblock_exit are in DriverModules.                   *)
(*                                                                         *)
(* A definition whose name ends in _Bug is the definition that follows it  *)
(* with a mistake in it; no specification uses it.                         *)
(***************************************************************************)
EXTENDS Integers, Sequences

CONSTANTS
  Bios,        \* bios that can be in hand at the same time
  Sectors,     \* RAMBLOCK_SIZE/512
  Values,      \* what a sector can hold
  ZERO         \* what kzalloc leaves in it

ASSUME SectorsAssumption == Sectors \in Nat \ {0}
ASSUME ZeroAssumption    == ZERO \in Values

VARIABLES
  ramblock_buf,
  bio,         \* bio[b]: state, direction, first sector, and the buffer
  queue,       \* the requests that are waiting
  req          \* the request in hand, or NULL

vars == <<ramblock_buf, bio, queue, req>>

(* A request's todo lists the sectors that are left of it: the bio, the place
   in the bio's buffer, and whether a segment ends there. *)
NULL == [dir |-> "none", pos |-> 0, todo |-> <<>>]

(* A bio that has ended: of a read, the data are still of interest. *)
Ended(dir, data) ==
  [state |-> "ended", dir |-> "read", pos |-> 0, data |-> IF dir = "read" THEN data ELSE <<>>]

(* One more: the disk is said to end where its memory does not. *)
Capacity_Bug == Sectors + 1

(* set_capacity. *)
Capacity == Sectors

Init ==
  /\ ramblock_buf = [s \in 0..(Sectors - 1) |-> ZERO]
  /\ bio = [b \in Bios |-> Ended("read", <<>>)]
  /\ queue = {} /\ req = NULL

-----------------------------------------------------------------------------
(* A bio is submitted (external), which the block layer refuses when it goes
   beyond the capacity.  It becomes a request, or is merged with one.  The
   segments end after the sectors in ends, and the last. *)
Submit(b, dir, pos, data, ends) ==
  LET n    == Len(data)
      todo == [i \in 1..n |-> [bio |-> b, at |-> i, ends |-> i \in ends \/ i = n]]
  IN  /\ req = NULL /\ bio[b].state = "ended" /\ pos + n <= Capacity
      /\ bio' = [bio EXCEPT ![b] = [state |-> "live", dir |-> dir, pos |-> pos, data |-> data]]
      /\ \/ queue' = queue \cup {[dir |-> dir, pos |-> pos, todo |-> todo]}
         \/ \E r \in queue :
              /\ r.dir = dir /\ r.pos + Len(r.todo) = pos
              /\ queue' = (queue \ {r}) \cup {[dir |-> dir, pos |-> r.pos, todo |-> r.todo \o todo]}
         \/ \E r \in queue :
              /\ r.dir = dir /\ pos + n = r.pos
              /\ queue' = (queue \ {r}) \cup {[dir |-> dir, pos |-> pos, todo |-> todo \o r.todo]}
      /\ UNCHANGED <<ramblock_buf, req>>

(* blk_fetch_request: whichever the elevator says. *)
blk_fetch_request ==
  \/ queue = {} /\ req' = NULL /\ UNCHANGED queue
  \/ \E r \in queue : req' = r /\ queue' = queue \ {r}

(* blk_rq_cur_sectors: up to the end of the first segment. *)
cur_sectors(r) ==
  CHOOSE n \in 1..Len(r.todo) : r.todo[n].ends /\ \A i \in 1..(n - 1) : ~r.todo[i].ends

(* Nothing is fetched before the loop. *)
do_ramblock_request_Bug ==
  /\ req = NULL /\ queue # {}
  /\ UNCHANGED vars

(* The request function is called. *)
do_ramblock_request ==
  /\ req = NULL /\ queue # {}
  /\ blk_fetch_request
  /\ UNCHANGED <<ramblock_buf, bio>>

(* __blk_end_request_cur: the segment is done; it says whether there are more,
   and if not the next request is fetched. *)
EndCur(n) ==
  IF n < Len(req.todo)
  THEN /\ req' = [dir |-> req.dir, pos |-> req.pos + n,
                   todo |-> SubSeq(req.todo, n + 1, Len(req.todo))]
       /\ UNCHANGED queue
  ELSE blk_fetch_request

(* The place in the disk is taken from the bio, not from where the request has
   got to. *)
Place_Bug == bio[req.todo[1].bio].pos

(* blk_rq_pos. *)
Place == req.pos

(* The loop's body: one segment is copied and ended, and with it the bio if it
   was the last of it.  A segment beyond the end would be ended all the same. *)
Segment ==
  LET n   == cur_sectors(req)
      b   == req.todo[1].bio
      at  == req.todo[1].at                  \* where bio_data points
      r   == bio[b]
      bad == Place + n > Sectors
  IN  /\ req # NULL
      /\ ramblock_buf' = IF bad \/ req.dir = "read" THEN ramblock_buf
                         ELSE [s \in 0..(Sectors - 1) |-> IF s \in Place..(Place + n - 1)
                                                          THEN r.data[at + s - Place]
                                                          ELSE ramblock_buf[s]]
      /\ bio' = [bio EXCEPT ![b] =
                   LET data == IF bad \/ req.dir = "write" THEN r.data
                               ELSE [i \in 1..Len(r.data) |-> IF i \in at..(at + n - 1)
                                                              THEN ramblock_buf[Place + i - at]
                                                              ELSE r.data[i]]
                   IN  IF at + n - 1 = Len(r.data) THEN Ended(r.dir, data)
                       ELSE [state |-> "live", dir |-> r.dir, pos |-> r.pos, data |-> data]]
      /\ EndCur(n)

Next ==
  \/ \E b \in Bios, dir \in {"read", "write"}, n \in 1..Capacity :
       \E pos \in 0..(Capacity - n), ends \in SUBSET (1..(n - 1)),
          data \in [1..n -> IF dir = "write" THEN Values ELSE {ZERO}] :
         Submit(b, dir, pos, data, ends)
  \/ do_ramblock_request
  \/ Segment

(* The queue is run some time after a bio is submitted, and the function's
   loop goes on. *)
Fairness == WF_vars(do_ramblock_request \/ Segment)

Spec == Init /\ [][Next]_vars /\ Fairness

-----------------------------------------------------------------------------
Requests == {r \in queue \cup {req} : r # NULL}

Bio     == [state : {"live", "ended"}, dir : {"read", "write"}, pos : 0..Sectors,
            data : Seq(Values)]
Entry   == [bio : Bios, at : Nat, ends : BOOLEAN]
Request == [dir : {"read", "write"}, pos : 0..Sectors, todo : Seq(Entry)]

TypeOK ==
  /\ ramblock_buf \in [0..(Sectors - 1) -> Values]
  /\ bio \in [Bios -> Bio]
  /\ queue \subseteq Request /\ req \in Request \cup {NULL}

(* The bounds check never fires: what the driver tells the block layer of its
   size keeps every segment, wherever merging has put it, inside the memory,
   so that none is passed over and called done. *)
InRange == \A r \in Requests : r.pos + Len(r.todo) <= Sectors

(* The sectors of b that no segment that is done has moved. *)
LeftOf(b) ==
  UNION {{r.todo[i].at : i \in {j \in 1..Len(r.todo) : r.todo[j].bio = b}} : r \in Requests}

Disk == INSTANCE BlockDevice WITH store <- ramblock_buf, left <- [b \in Bios |-> LeftOf(b)]

(* The driver is a disk: however bios are cut and merged, each sector of each
   bio is moved once, to or from its own place on the disk and its own place in
   the buffer, before the bio ends. *)
IsDisk == Disk!Spec

(* Every bio ends. *)
BiosEnd == \A b \in Bios : bio[b].state = "live" ~> bio[b].state = "ended"
===============================================================================
