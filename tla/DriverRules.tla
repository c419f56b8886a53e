------------------------------ MODULE DriverRules ------------------------------
(***************************************************************************)
(* The rules that init, probe, exit, remove and disconnect functions have  *)
(* to obey so that DriverModules is safe, as facts about their tables.     *)
(*                                                                         *)
(* A place is where a driver can stand: in phase `ph', at step `i' of its  *)
(* init function, with `k' things of the list it undoes given back.  Each  *)
(* place bounds what is held: Must from below and May from above.  A rule  *)
(* looks at one place, one step of a list and one or two callbacks, and    *)
(* not at the behaviours that lead there.  DriverModulesProofs shows that  *)
(* the rules are enough; TLC evaluates them for the tables of this code.   *)
(***************************************************************************)
EXTENDS DriverModules

Steps(d) == Tables[d].init
Exit(d)  == Tables[d].exit
Calls(d) == Tables[d].calls

(* The calls of d that have to find what they touch. *)
SafeCalls(d) == {c \in Calls(d) : <<d, c.name>> \notin Faults}

Ends(d) == UNION { c.ends : c \in Calls(d) }
Arms(d) == UNION { c.arms : c \in Calls(d) }

(* What may be there when the driver is not. *)
Left(d) ==
  { t \in Arms(d) \cup UNION { Steps(d)[i].of : i \in 1..Len(Steps(d)) } :
      <<d, t>> \in Leaks \cup Strays }

-----------------------------------------------------------------------------
(* Given back again by a step after the j-th and before the i-th. *)
Given(d, j, i) ==
  UNION { Steps(d)[k].of : k \in {k \in (j + 1)..(i - 1) : Steps(d)[k].op = "give"} }

(* What the steps of these kinds before the i-th have brought about. *)
Taken(d, i, ops) ==
  UNION { Steps(d)[j].of \ Given(d, j, i) : j \in {j \in 1..(i - 1) : Steps(d)[j].op \in ops} }

(* Surely there before step i: taken and tested for, or used since. *)
Steady(d, i) == ({"module"} \cup Taken(d, i, {"take", "sure", "use"})) \ Ends(d)

(* Perhaps there before step i: left from the last time, taken, tried for, or
   armed by a callback that can come and return. *)
Base(d, i) == Left(d) \cup {"module"} \cup Taken(d, i, {"take", "try", "sure"})

Armed(d, i) ==
  UNION { c.arms : c \in {c \in Calls(d) : c.on \cup c.uses \subseteq Base(d, i) \cup Arms(d)} }

(* What a place gives back, and what of it is no longer there. *)
Back(d, ph, i) ==
  CASE ph = "undo" -> Steps(d)[i].undo [] ph = "exit" -> Exit(d) [] OTHER -> <<>>

Freed(d, ph, i, k) ==
  UNION { Frees(Back(d, ph, i)[j]) \cup Waits(Back(d, ph, i)[j]) : j \in 1..k }

(* rmmod, unlike the device's going, is refused while a file is open. *)
Closed(d, ph) == IF ph = "exit" /\ d \notin Unbinds THEN {"file"} ELSE {}

Must(d, ph, i, k) == IF ph = "out" THEN {} ELSE Steady(d, i) \ Freed(d, ph, i, k)

May(d, ph, i, k) ==
  IF ph = "out" THEN Left(d)
  ELSE (Base(d, i) \cup Armed(d, i)) \ (Freed(d, ph, i, k) \cup Closed(d, ph))

-----------------------------------------------------------------------------
(* A callback that comes does not bring back what was given back already, and
   opens the way only for callbacks that find what they touch. *)
CallsWell(d, ph, i, k) ==
  \A e \in Calls(d) :
    /\ e.on \cup e.uses \subseteq May(d, ph, i, k)
    /\ ~(ph = "exit" /\ e.name = "open" /\ d \notin Unbinds)
    => /\ e.arms \subseteq May(d, ph, i, k)
       /\ \A c \in SafeCalls(d) :
            c.on \cap e.arms # {} /\ c.on \subseteq May(d, ph, i, k)
              => c.uses \subseteq Must(d, ph, i, k) \cup e.uses

(* A callback is let in after all that it touches was taken; what is used was
   tested for; what is given back halfway is there and no callback cares about
   it. *)
StepsWell(d, i) ==
  LET s == Steps(d)[i]
  IN  /\ s.op \in {"take", "try", "sure"} =>
           \A c \in SafeCalls(d) :
             c.on \cap s.of # {} /\ c.on \subseteq May(d, "init", i + 1, 0)
               => c.uses \subseteq Must(d, "init", i, 0) \cup s.of
      /\ s.op = "use" => s.of \subseteq Must(d, "init", i, 0) \/ <<d, "init">> \in Faults
      /\ s.op = "give" =>
           /\ \A t \in s.of : t \in Must(d, "init", i, 0) \/ <<d, t>> \in FreedAgain
           /\ \A c \in Calls(d) : s.of \cap (c.on \cup c.uses) = {}

(* What is given back is there, and no callback that touches it can come. *)
GivesWell(d, ph, i, k) ==
  LET t == Back(d, ph, i)[k + 1]
  IN  /\ t \in Must(d, ph, i, k) \cup Optional \/ <<d, t>> \in FreedAgain
      /\ \A c \in SafeCalls(d) :
           c.uses \cap Frees(t) # {} => ~(c.on \subseteq May(d, ph, i, k + 1))

(* In the end only what may be left is left. *)
EndsWell(d, ph, i) ==
  May(d, ph, i, Len(Back(d, ph, i))) \ {"module", "timer_init"} \subseteq Left(d)

(* The whole of an undo list, or of the exit function. *)
BacksOutWell(d, ph, i) ==
  /\ \A k \in 0..Len(Back(d, ph, i)) : CallsWell(d, ph, i, k)
  /\ \A k \in 0..(Len(Back(d, ph, i)) - 1) : GivesWell(d, ph, i, k)
  /\ EndsWell(d, ph, i)

InitSteps ==
  [ op : {"take", "try", "sure", "use", "give"}, of : SUBSET STRING, undo : Seq(STRING) ]

(* The tables are tables.  The module is given back by nobody.  A callback waits
   for something, and not for the module; none ends what a callback touches, or
   can come, with the module gone, and touch it. *)
WellFormed(d) ==
  /\ Steps(d) \in Seq(InitSteps)
  /\ Exit(d) \in Seq(STRING)
  /\ \A i \in 1..Len(Exit(d)) : Exit(d)[i] # "module"
  /\ \A i \in 1..Len(Steps(d)) :
       /\ \A j \in 1..Len(Steps(d)[i].undo) : Steps(d)[i].undo[j] # "module"
       /\ Steps(d)[i].op = "give" => "module" \notin Steps(d)[i].of
  /\ \A c \in Calls(d) :
       /\ {c.on, c.uses, c.arms, c.ends} \subseteq SUBSET STRING
       /\ c.on # {} /\ "module" \notin c.on \cup c.ends
       /\ \A e \in Calls(d) : e.ends \cap c.uses = {}
  /\ \A c \in SafeCalls(d) :
       c.uses \cap {"module", "timer_init"} # {} => ~(c.on \subseteq Left(d))

Rules(d) ==
  /\ WellFormed(d)
  /\ CallsWell(d, "out", 1, 0)
  /\ \A i \in 1..(Len(Steps(d)) + 1) : CallsWell(d, "init", i, 0)
  /\ \A i \in 1..Len(Steps(d)) :
       StepsWell(d, i) /\ (Steps(d)[i].op = "take" => BacksOutWell(d, "undo", i))
  /\ d \notin Stays => BacksOutWell(d, "exit", Len(Steps(d)) + 1)

ASSUME RulesAssumption == \A d \in DOMAIN Tables : Rules(d)

-----------------------------------------------------------------------------
(* A driver that is in stands behind its last step. *)
Ph == IF phase = "in" THEN "init" ELSE phase

(* What is held is what the place says, and what is still to be given back is
   the rest of the place's list. *)
WithinBounds ==
  phase # "oops" =>
    \E k \in 0..Len(Back(drv, Ph, at)) :
      /\ todo = SubSeq(Back(drv, Ph, at), k + 1, Len(Back(drv, Ph, at)))
      /\ Must(drv, Ph, at, k) \subseteq held
      /\ held \subseteq May(drv, Ph, at, k)

(* A callback that can come, and is none of Faults, finds what it touches. *)
Served ==
  phase # "oops" =>
    \A c \in SafeCalls(drv) : c.on \subseteq held => c.uses \subseteq held
===============================================================================
