-------------------------- MODULE DriverModulesProofs --------------------------
(***************************************************************************)
(* Proofs about DriverModules.  No table is looked into: all that is used  *)
(* of them is RulesAssumption, so that the theorems hold for any drivers   *)
(* whose tables obey the rules.                                            *)
(***************************************************************************)
EXTENDS DriverRules, SequenceTheorems, TLAPS

-----------------------------------------------------------------------------
(* What the rules say of a driver that is looked at. *)
LEMMA RulesHold ==
  ASSUME NEW d \in Drivers
  PROVE  Rules(d)
BY RulesAssumption, DriversAssumption

(* The rest of a list: it is empty at the end, and its head is the next thing. *)
LEMMA RestOfList ==
  ASSUME NEW s \in Seq(STRING), NEW k \in 0..Len(s)
  PROVE  /\ SubSeq(s, k + 1, Len(s)) = <<>> <=> k = Len(s)
         /\ k < Len(s) => /\ Head(SubSeq(s, k + 1, Len(s))) = s[k + 1]
                          /\ Tail(SubSeq(s, k + 1, Len(s))) = SubSeq(s, k + 2, Len(s))
<1>1. Len(s) \in Nat /\ \A i \in 1..Len(s) : s[i] \in STRING
  BY ElementOfSeq, LenProperties
<1>2. CASE k = Len(s)
  <2>1. SubSeq(s, k + 1, Len(s)) = <<>>
    BY <1>1, <1>2, SubSeqEmpty
  <2> QED
    BY <1>1, <1>2, <2>1
<1>3. CASE k < Len(s)
  <2>1. k + 1 \in 1..Len(s) /\ Len(s) \in (k + 1)..Len(s) /\ (k + 1) + 1 = k + 2
    BY <1>1, <1>3
  <2>2. /\ Head(SubSeq(s, k + 1, Len(s))) = s[k + 1]
        /\ Tail(SubSeq(s, k + 1, Len(s))) = SubSeq(s, (k + 1) + 1, Len(s))
    BY <2>1, HeadTailOfSubSeq
  <2>3. Len(SubSeq(s, k + 1, Len(s))) = Len(s) - (k + 1) + 1
    <3>1. \A i \in (k + 1)..Len(s) : s[i] \in STRING
      BY <1>1
    <3> QED
      BY <1>1, <2>1, <3>1, SubSeqProperties
  <2>4. SubSeq(s, k + 1, Len(s)) # <<>>
    <3>1. Len(<<>>) = 0
      BY EmptySeq
    <3>2. Len(SubSeq(s, k + 1, Len(s))) # 0
      BY <1>1, <1>3, <2>3
    <3> QED
      BY <3>1, <3>2, Zenon
  <2> QED
    BY <1>1, <1>3, <2>1, <2>2, <2>4
<1> QED
  BY <1>1, <1>2, <1>3

(* The steps of an init function are steps. *)
LEMMA StepIsStep ==
  ASSUME NEW d \in Drivers, NEW i \in 1..Len(Steps(d))
  PROVE  Steps(d)[i] \in InitSteps
<1>1. Steps(d) \in Seq(InitSteps)
  BY RulesHold DEF Rules, WellFormed
<1> QED
  BY <1>1, ElementOfSeq

(* What a place gives back is a list of things, none of which is the module. *)
LEMMA BackIsList ==
  ASSUME NEW d \in Drivers, NEW ph \in {"out", "init", "undo", "exit"}, NEW i,
         ph = "undo" => i \in 1..Len(Steps(d))
  PROVE  /\ Back(d, ph, i) \in Seq(STRING)
         /\ \A j \in 1..Len(Back(d, ph, i)) : Back(d, ph, i)[j] # "module"
<1>1. WellFormed(d)
  BY RulesHold DEF Rules
<1>2. CASE ph = "undo"
  <2>1. Steps(d)[i].undo \in Seq(STRING)
    BY <1>2, StepIsStep DEF InitSteps
  <2> QED
    BY <1>1, <1>2, <2>1 DEF WellFormed, Back
<1>3. CASE ph = "exit"
  BY <1>1, <1>3 DEF WellFormed, Back
<1>4. CASE ph \in {"out", "init"}
  <2>1. Back(d, ph, i) = <<>>
    BY <1>4 DEF Back
  <2>2. <<>> \in Seq(STRING) /\ Len(<<>>) = 0
    BY EmptySeq
  <2> QED
    BY <2>1, <2>2
<1> QED
  BY <1>2, <1>3, <1>4

-----------------------------------------------------------------------------
(* Given, for one step more. *)
LEMMA GivenNext ==
  ASSUME NEW d \in Drivers, NEW i \in 1..Len(Steps(d)), NEW j \in 1..i
  PROVE  Given(d, j, i + 1) = Given(d, j, i) \cup
           (IF j < i /\ Steps(d)[i].op = "give" THEN Steps(d)[i].of ELSE {})
<1>1. Len(Steps(d)) \in Nat
  BY RulesHold DEF Rules, WellFormed
<1>2. (j + 1)..((i + 1) - 1) = ((j + 1)..(i - 1)) \cup (IF j < i THEN {i} ELSE {})
  BY <1>1
<1> QED
  BY <1>2, Zenon DEF Given

(* Membership in Taken: some step took it and none gave it back since. *)
LEMMA TakenMember ==
  ASSUME NEW d, NEW i, NEW ops, NEW t
  PROVE  t \in Taken(d, i, ops) <=>
           \E j \in 1..(i - 1) :
             Steps(d)[j].op \in ops /\ t \in Steps(d)[j].of /\ t \notin Given(d, j, i)
BY DEF Taken

(* Taken, for one step more: a step of one of the kinds adds to it. *)
LEMMA TakenNext ==
  ASSUME NEW d \in Drivers, NEW i \in 1..Len(Steps(d)), NEW ops,
         Steps(d)[i].op # "give"
  PROVE  Taken(d, i + 1, ops) =
           Taken(d, i, ops) \cup (IF Steps(d)[i].op \in ops THEN Steps(d)[i].of ELSE {})
<1>1. Len(Steps(d)) \in Nat
  BY RulesHold, LenProperties DEF Rules, WellFormed
<1>2. 1..((i + 1) - 1) = (1..(i - 1)) \cup {i} /\ 1..(i - 1) \subseteq 1..i /\ i \in 1..i
  BY <1>1
<1>3. ASSUME NEW j \in 1..i PROVE Given(d, j, i + 1) = Given(d, j, i)
  <2>1. Given(d, j, i + 1) = Given(d, j, i) \cup {}
    BY GivenNext
  <2> QED
    BY <2>1, Zenon
<1>4. (i + 1)..(i - 1) = {}
  BY <1>1
<1>5. Given(d, i, i) = {}
  BY <1>4, Zenon DEF Given
<1>6. ASSUME NEW t
      PROVE  t \in Taken(d, i + 1, ops) <=>
               t \in Taken(d, i, ops) \/ (Steps(d)[i].op \in ops /\ t \in Steps(d)[i].of)
  <2>1. t \in Taken(d, i, ops) <=>
          \E j \in 1..(i - 1) :
            Steps(d)[j].op \in ops /\ t \in Steps(d)[j].of /\ t \notin Given(d, j, i)
    BY TakenMember, Zenon
  <2>2. t \in Taken(d, i + 1, ops) <=>
          \E j \in 1..((i + 1) - 1) :
            Steps(d)[j].op \in ops /\ t \in Steps(d)[j].of /\ t \notin Given(d, j, i + 1)
    BY TakenMember, Zenon
  <2> QED
    BY <1>2, <1>3, <1>5, <2>1, <2>2, Zenon
<1> QED
  BY <1>6, Zenon

(* Giving back takes from it. *)
LEMMA TakenGiven ==
  ASSUME NEW d \in Drivers, NEW i \in 1..Len(Steps(d)), NEW ops,
         Steps(d)[i].op = "give", "give" \notin ops
  PROVE  Taken(d, i + 1, ops) = Taken(d, i, ops) \ Steps(d)[i].of
<1>1. Len(Steps(d)) \in Nat
  BY RulesHold, LenProperties DEF Rules, WellFormed
<1>2. 1..((i + 1) - 1) = (1..(i - 1)) \cup {i}
  BY <1>1
<1>3. ASSUME NEW j \in 1..(i - 1)
      PROVE  Given(d, j, i + 1) = Given(d, j, i) \cup Steps(d)[i].of
  <2>1. j \in 1..i /\ j < i
    BY <1>1
  <2> QED
    BY <2>1, GivenNext
<1>4. ASSUME NEW t
      PROVE  t \in Taken(d, i + 1, ops) <=> t \in Taken(d, i, ops) /\ t \notin Steps(d)[i].of
  <2>1. t \in Taken(d, i, ops) <=>
          \E j \in 1..(i - 1) :
            Steps(d)[j].op \in ops /\ t \in Steps(d)[j].of /\ t \notin Given(d, j, i)
    BY TakenMember, Zenon
  <2>2. t \in Taken(d, i + 1, ops) <=>
          \E j \in 1..((i + 1) - 1) :
            Steps(d)[j].op \in ops /\ t \in Steps(d)[j].of /\ t \notin Given(d, j, i + 1)
    BY TakenMember, Zenon
  <2> QED
    BY <1>2, <1>3, <2>1, <2>2, Zenon
<1> QED
  BY <1>4, Zenon

-----------------------------------------------------------------------------
(* At the beginning of a list nothing has been given back. *)
LEMMA FreedNone ==
  ASSUME NEW d, NEW ph, NEW i
  PROVE  Freed(d, ph, i, 0) = {}
<1>1. 1..0 = {}
  OBVIOUS
<1> QED
  BY <1>1 DEF Freed

(* Giving back one thing more adds it, and what it waits for. *)
LEMMA FreedNext ==
  ASSUME NEW d, NEW ph, NEW i, NEW k \in Nat, NEW t, t = Back(d, ph, i)[k + 1]
  PROVE  Freed(d, ph, i, k + 1) = Freed(d, ph, i, k) \cup (Frees(t) \cup Waits(t))
<1>1. 1..(k + 1) = (1..k) \cup {k + 1}
  OBVIOUS
<1> QED
  BY <1>1 DEF Freed

(* The module's code is not given back while it runs. *)
LEMMA ModuleStays ==
  ASSUME NEW d \in Drivers, NEW ph \in {"init", "undo", "exit"}, NEW i,
         ph = "undo" => i \in 1..Len(Steps(d)), NEW k \in 0..Len(Back(d, ph, i))
  PROVE  "module" \in Must(d, ph, i, k)
<1>1. Len(Back(d, ph, i)) \in Nat /\ \A j \in 1..k : Back(d, ph, i)[j] # "module"
  <2>1. Len(Back(d, ph, i)) \in Nat
    BY BackIsList, LenProperties
  <2> QED
    BY <2>1, BackIsList
<1>2. \A j \in 1..k : "module" \notin Frees(Back(d, ph, i)[j]) \cup Waits(Back(d, ph, i)[j])
  BY <1>1 DEF Frees, Waits
<1>3. "module" \notin Freed(d, ph, i, k)
  BY <1>2 DEF Freed
<1>4. "module" \notin Ends(d)
  BY RulesHold DEF Rules, WellFormed, Ends
<1> QED
  BY <1>3, <1>4 DEF Must, Steady

(* What is surely there after a step of an init function was there before it, or
   the step has made sure of it. *)
LEMMA MustNext ==
  ASSUME NEW d \in Drivers, NEW i \in 1..Len(Steps(d)), Steps(d)[i].op # "give"
  PROVE  Must(d, "init", i + 1, 0) \subseteq
           Must(d, "init", i, 0) \cup
             (IF Steps(d)[i].op \in {"take", "sure", "use"} THEN Steps(d)[i].of ELSE {})
<1>1. Freed(d, "init", i, 0) = {} /\ Freed(d, "init", i + 1, 0) = {}
  BY FreedNone
<1>2. Taken(d, i + 1, {"take", "sure", "use"}) =
        Taken(d, i, {"take", "sure", "use"}) \cup
          (IF Steps(d)[i].op \in {"take", "sure", "use"} THEN Steps(d)[i].of ELSE {})
  BY TakenNext
<1> QED
  BY <1>1, <1>2, Zenon DEF Must, Steady

(* What is perhaps there before a step, or brought about by it, is perhaps there
   after it. *)
LEMMA MayNext ==
  ASSUME NEW d \in Drivers, NEW i \in 1..Len(Steps(d)), Steps(d)[i].op # "give"
  PROVE  May(d, "init", i, 0) \cup
           (IF Steps(d)[i].op \in {"take", "try", "sure"} THEN Steps(d)[i].of ELSE {})
           \subseteq May(d, "init", i + 1, 0)
<1>1. Freed(d, "init", i, 0) = {} /\ Freed(d, "init", i + 1, 0) = {}
  BY FreedNone
<1>2. Base(d, i + 1) = Base(d, i) \cup
        (IF Steps(d)[i].op \in {"take", "try", "sure"} THEN Steps(d)[i].of ELSE {})
  <2>1. Taken(d, i + 1, {"take", "try", "sure"}) =
          Taken(d, i, {"take", "try", "sure"}) \cup
            (IF Steps(d)[i].op \in {"take", "try", "sure"} THEN Steps(d)[i].of ELSE {})
    BY TakenNext
  <2> QED
    BY <2>1, Zenon DEF Base
<1>3. Base(d, i) \subseteq Base(d, i + 1)
  BY <1>2, Zenon
<1>4. Armed(d, i) \subseteq Armed(d, i + 1)
  BY <1>3 DEF Armed
<1>5. Closed(d, "init") = {}
  BY DEF Closed
<1> QED
  BY <1>1, <1>2, <1>3, <1>4, <1>5 DEF May

(* The same for a step that gives something back. *)
LEMMA BoundsGiven ==
  ASSUME NEW d \in Drivers, NEW i \in 1..Len(Steps(d)), Steps(d)[i].op = "give"
  PROVE  /\ Must(d, "init", i + 1, 0) \subseteq Must(d, "init", i, 0) \ Steps(d)[i].of
         /\ May(d, "init", i, 0) \ Steps(d)[i].of \subseteq May(d, "init", i + 1, 0)
<1>1. Freed(d, "init", i, 0) = {} /\ Freed(d, "init", i + 1, 0) = {} /\ Closed(d, "init") = {}
  BY FreedNone DEF Closed
<1>2. Taken(d, i + 1, {"take", "sure", "use"}) =
        Taken(d, i, {"take", "sure", "use"}) \ Steps(d)[i].of
  BY TakenGiven
<1>3. Taken(d, i + 1, {"take", "try", "sure"}) =
        Taken(d, i, {"take", "try", "sure"}) \ Steps(d)[i].of
  BY TakenGiven
<1>4. "module" \notin Steps(d)[i].of
  BY RulesHold DEF Rules, WellFormed
<1>5. Must(d, "init", i + 1, 0) \subseteq Must(d, "init", i, 0) \ Steps(d)[i].of
  BY <1>1, <1>2, <1>4, Zenon DEF Must, Steady
<1>6. Base(d, i) \ Steps(d)[i].of \subseteq Base(d, i + 1)
  BY <1>3, Zenon DEF Base
<1>7. ASSUME NEW c \in Calls(d), c.on \cup c.uses \subseteq Base(d, i) \cup Arms(d)
      PROVE  c.on \cup c.uses \subseteq Base(d, i + 1) \cup Arms(d)
  <2>1. Steps(d)[i].of \cap (c.on \cup c.uses) = {}
    BY RulesHold DEF Rules, StepsWell
  <2> QED
    BY <1>6, <1>7, <2>1
<1>8. Armed(d, i) \subseteq Armed(d, i + 1)
  BY <1>7 DEF Armed
<1> QED
  BY <1>1, <1>5, <1>6, <1>8 DEF May

-----------------------------------------------------------------------------
(* Where the driver stands.  A step that failed was one whose failure is tested
   for; a driver that is in, or goes, has done all its steps. *)
Stands ==
  /\ drv \in Drivers
  /\ phase \in {"out", "init", "undo", "in", "exit", "oops"}
  /\ at \in 1..(Len(Steps(drv)) + 1)
  /\ phase = "undo" => at \in 1..Len(Steps(drv)) /\ Steps(drv)[at].op = "take"
  /\ phase \in {"in", "exit"} => at = Len(Steps(drv)) + 1
  /\ phase = "exit" => drv \notin Stays

(* The inductive invariant: where the driver stands, the bounds of that place,
   and that whoever can come finds what it touches. *)
IInv == Stands /\ WithinBounds /\ Served /\ TouchesOnlyHeld

(* No list is being worked through outside undoing and exit. *)
LEMMA NoList ==
  ASSUME NEW d \in Drivers, NEW ph \in {"out", "init"}, NEW i
  PROVE  Back(d, ph, i) = <<>> /\ Len(Back(d, ph, i)) = 0 /\ SubSeq(Back(d, ph, i), 1, 0) = <<>>
<1>1. Back(d, ph, i) = <<>>
  BY DEF Back
<1>2. Len(<<>>) = 0 /\ SubSeq(<<>>, 1, 0) = <<>>
  BY EmptySeq, SubSeqEmpty
<1> QED
  BY <1>1, <1>2

(* In the init function, and when it is done, nothing waits to be given back and
   the bounds are those of its step. *)
LEMMA BoundsInit ==
  ASSUME IInv, phase \in {"init", "in"}
  PROVE  /\ todo = <<>>
         /\ Must(drv, "init", at, 0) \subseteq held /\ held \subseteq May(drv, "init", at, 0)
<1>1. Ph = "init" /\ phase # "oops" /\ drv \in Drivers
  BY DEF Ph, IInv, Stands
<1>2. PICK k \in 0..Len(Back(drv, Ph, at)) :
        /\ todo = SubSeq(Back(drv, Ph, at), k + 1, Len(Back(drv, Ph, at)))
        /\ Must(drv, Ph, at, k) \subseteq held
        /\ held \subseteq May(drv, Ph, at, k)
  BY <1>1, Zenon DEF IInv, WithinBounds
<1>3. Len(Back(drv, "init", at)) = 0 /\ SubSeq(Back(drv, "init", at), 1, 0) = <<>>
  BY <1>1, NoList
<1>4. k = 0 /\ 0 + 1 = 1
  BY <1>1, <1>2, <1>3
<1> QED
  BY <1>1, <1>2, <1>3, <1>4

(* When the driver is out only what may be left is held. *)
LEMMA BoundsOut ==
  ASSUME IInv, phase = "out"
  PROVE  todo = <<>> /\ held \subseteq Left(drv)
<1>1. Ph = "out" /\ phase # "oops" /\ drv \in Drivers
  BY DEF Ph, IInv, Stands
<1>2. PICK k \in 0..Len(Back(drv, Ph, at)) :
        /\ todo = SubSeq(Back(drv, Ph, at), k + 1, Len(Back(drv, Ph, at)))
        /\ held \subseteq May(drv, Ph, at, k)
  BY <1>1, Zenon DEF IInv, WithinBounds
<1>3. Len(Back(drv, "out", at)) = 0 /\ SubSeq(Back(drv, "out", at), 1, 0) = <<>>
  BY <1>1, NoList
<1>4. k = 0 /\ 0 + 1 = 1
  BY <1>1, <1>2, <1>3
<1> QED
  BY <1>1, <1>2, <1>3, <1>4 DEF May

(* To show WithinBounds of the next state it is enough to show the bounds of its
   place: here of a step of the init function. *)
LEMMA LandInit ==
  ASSUME drv' \in Drivers, phase' \in {"init", "in"}, todo' = <<>>,
         Must(drv', "init", at', 0) \subseteq held', held' \subseteq May(drv', "init", at', 0)
  PROVE  WithinBounds'
<1>1. Ph' = "init"
  BY DEF Ph
<1>2. Len(Back(drv', "init", at')) = 0 /\ SubSeq(Back(drv', "init", at'), 1, 0) = <<>>
  BY NoList
<1>3. 0 \in 0..0 /\ 0 + 1 = 1
  OBVIOUS
<1> QED
  BY <1>1, <1>2, <1>3 DEF WithinBounds

(* And here of the driver being out. *)
LEMMA LandOut ==
  ASSUME drv' \in Drivers, phase' = "out", todo' = <<>>, held' \subseteq Left(drv')
  PROVE  WithinBounds'
<1>1. Ph' = "out"
  BY DEF Ph
<1>2. Len(Back(drv', "out", at')) = 0 /\ SubSeq(Back(drv', "out", at'), 1, 0) = <<>>
  BY NoList
<1>3. 0 \in 0..0 /\ 0 + 1 = 1
  OBVIOUS
<1>4. Must(drv', "out", at', 0) = {} /\ May(drv', "out", at', 0) = Left(drv')
  BY DEF Must, May
<1> QED
  BY <1>1, <1>2, <1>3, <1>4 DEF WithinBounds

-----------------------------------------------------------------------------
(* insmod: nothing is there but what was left. *)
LEMMA LoadKeeps ==
  ASSUME IInv, Load
  PROVE  IInv'
<1>1. drv \in Drivers /\ drv' = drv /\ phase = "out" /\ phase' = "init" /\ at' = 1
      /\ todo' = todo /\ held' = held \cup {"module"}
  BY DEF IInv, Stands, Load
<1>2. Len(Steps(drv)) \in Nat
  BY <1>1, RulesHold, LenProperties DEF Rules, WellFormed
<1>3. todo = <<>> /\ held \subseteq Left(drv)
  BY <1>1, BoundsOut
<1>4. Must(drv, "init", 1, 0) \subseteq {"module"}
  <2>1. 1..(1 - 1) = {}
    OBVIOUS
  <2>2. Taken(drv, 1, {"take", "sure", "use"}) = {}
    BY <2>1 DEF Taken
  <2> QED
    BY <2>2 DEF Must, Steady
<1>5. Left(drv) \cup {"module"} \subseteq May(drv, "init", 1, 0)
  <2>1. Freed(drv, "init", 1, 0) = {} /\ Closed(drv, "init") = {}
    BY FreedNone DEF Closed
  <2> QED
    BY <2>1 DEF May, Base
<1>6. WithinBounds'
  BY <1>1, <1>3, <1>4, <1>5, LandInit
<1>7. Served'
  <2>1. \A c \in Calls(drv) : "module" \notin c.on
    BY <1>1, RulesHold DEF Rules, WellFormed
  <2>2. \A c \in SafeCalls(drv) : c.on \subseteq held => c.uses \subseteq held
    BY <1>1 DEF IInv, Served
  <2> QED
    BY <1>1, <2>1, <2>2 DEF Served, SafeCalls
<1>8. Stands'
  BY <1>1, <1>2 DEF Stands
<1> QED
  BY <1>1, <1>6, <1>7, <1>8 DEF IInv, TouchesOnlyHeld

(* One step of the init function is done. *)
LEMMA StepKeeps ==
  ASSUME IInv, InitStep
  PROVE  IInv'
<1> DEFINE s == Steps(drv)[at]
<1>1. drv \in Drivers /\ phase = "init" /\ at \in 1..Len(Steps(drv)) /\ Len(Steps(drv)) \in Nat
  <2>1. /\ drv \in Drivers /\ phase = "init"
        /\ at <= Len(Steps(drv)) /\ at \in 1..(Len(Steps(drv)) + 1)
    BY DEF IInv, Stands, InitStep, T, Steps
  <2>2. Len(Steps(drv)) \in Nat
    BY <2>1, RulesHold, LenProperties DEF Rules, WellFormed
  <2> QED
    BY <2>1, <2>2
<1>2. StepSucceeds(s) \/ StepFails(s) \/ StepUses(s) \/ StepGives(s)
  BY DEF InitStep, T, Steps
<1>3. /\ todo = <<>>
      /\ Must(drv, "init", at, 0) \subseteq held /\ held \subseteq May(drv, "init", at, 0)
  BY <1>1, BoundsInit
<1>4. \A c \in SafeCalls(drv) : c.on \subseteq held => c.uses \subseteq held
  BY <1>1 DEF IInv, Served
<1>5. StepsWell(drv, at)
  BY <1>1, RulesHold DEF Rules
<1>6. ASSUME NEW h, Goes(h),
             Must(drv, "init", at + 1, 0) \subseteq h, h \subseteq May(drv, "init", at + 1, 0),
             \A c \in SafeCalls(drv) : c.on \subseteq h => c.uses \subseteq h
      PROVE  IInv'
  <2>1. drv' = drv /\ phase' = "init" /\ at' = at + 1 /\ todo' = <<>> /\ held' = h
    BY <1>1, <1>3, <1>6 DEF Goes
  <2>2. WithinBounds'
    BY <1>1, <1>6, <2>1, LandInit
  <2>3. Served'
    BY <1>6, <2>1 DEF Served
  <2>4. Stands'
    BY <1>1, <2>1 DEF Stands
  <2> QED
    BY <2>1, <2>2, <2>3, <2>4 DEF IInv, TouchesOnlyHeld
<1> HIDE DEF s
<1>7. CASE StepSucceeds(s)
  <2>1. s.op \in {"take", "try", "sure"} /\ Goes(held \cup s.of)
    BY <1>7 DEF StepSucceeds
  <2>2. Must(drv, "init", at + 1, 0) \subseteq held \cup s.of
    BY <1>1, <1>3, <2>1, MustNext DEF s
  <2>3. held \cup s.of \subseteq May(drv, "init", at + 1, 0)
    BY <1>1, <1>3, <2>1, MayNext DEF s
  <2>4. ASSUME NEW c \in SafeCalls(drv), c.on \subseteq held \cup s.of
        PROVE  c.uses \subseteq held \cup s.of
    <3>1. CASE c.on \cap s.of = {}
      BY <1>4, <2>4, <3>1
    <3>2. CASE c.on \cap s.of # {}
      <4>1. c.on \subseteq May(drv, "init", at + 1, 0)
        BY <2>3, <2>4
      <4>2. c.uses \subseteq Must(drv, "init", at, 0) \cup s.of
        BY <1>5, <2>1, <3>2, <4>1 DEF StepsWell, s
      <4> QED
        BY <1>3, <4>2
    <3> QED
      BY <3>1, <3>2
  <2> QED
    BY <1>6, <2>1, <2>2, <2>3, <2>4
<1>8. CASE StepFails(s)
  <2>1. CASE s.op = "try" /\ Goes(held)
    <3>1. Must(drv, "init", at + 1, 0) \subseteq held
      BY <1>1, <1>3, <2>1, MustNext DEF s
    <3>2. held \subseteq May(drv, "init", at + 1, 0)
      BY <1>1, <1>3, <2>1, MayNext DEF s
    <3> QED
      BY <1>4, <1>6, <2>1, <3>1, <3>2
  <2>2. CASE /\ s.op = "take" /\ phase' = "undo" /\ todo' = s.undo
             /\ UNCHANGED <<drv, at, held, culprit>>
    <3>1. Back(drv, "undo", at) = s.undo /\ s.undo \in Seq(STRING) /\ Ph' = "undo"
      <4>1. Back(drv, "undo", at) = s.undo /\ Ph' = "undo"
        BY <2>2 DEF Back, Ph, s
      <4> QED
        BY <1>1, <4>1, BackIsList
    <3>2. Len(s.undo) \in Nat /\ SubSeq(s.undo, 1, Len(s.undo)) = s.undo /\ 0 + 1 = 1
      BY <3>1, LenProperties, SubSeqFull
    <3>3. /\ Must(drv, "undo", at, 0) = Must(drv, "init", at, 0)
          /\ May(drv, "undo", at, 0) = May(drv, "init", at, 0)
      <4>1. Freed(drv, "undo", at, 0) = {} /\ Freed(drv, "init", at, 0) = {}
        BY FreedNone
      <4>2. Closed(drv, "undo") = {} /\ Closed(drv, "init") = {}
        BY DEF Closed
      <4> QED
        BY <4>1, <4>2 DEF Must, May
    <3>4. WithinBounds'
      <4>1. 0 \in 0..Len(s.undo)
        BY <3>2
      <4> QED
        BY <1>3, <2>2, <3>1, <3>2, <3>3, <4>1 DEF WithinBounds
    <3>5. Served' /\ TouchesOnlyHeld'
      BY <1>4, <2>2 DEF Served, TouchesOnlyHeld
    <3>6. Stands'
      BY <1>1, <2>2 DEF Stands, s
    <3> QED
      BY <3>4, <3>5, <3>6 DEF IInv
  <2> QED
    BY <1>8, <2>1, <2>2 DEF StepFails
<1>9. CASE StepUses(s)
  <2>1. CASE s.of \subseteq held
    <3>1. s.op = "use" /\ Goes(held)
      BY <1>9, <2>1 DEF StepUses
    <3>2. Must(drv, "init", at + 1, 0) \subseteq held
      BY <1>1, <1>3, <2>1, <3>1, MustNext DEF s
    <3>3. held \subseteq May(drv, "init", at + 1, 0)
      BY <1>1, <1>3, <3>1, MayNext DEF s
    <3> QED
      BY <1>4, <1>6, <3>1, <3>2, <3>3
  <2>2. CASE ~(s.of \subseteq held)
    <3>1. s.op = "use" /\ Oops("init")
      BY <1>9, <2>2 DEF StepUses
    <3>2. <<drv, "init">> \in Faults
      BY <1>3, <1>5, <2>2, <3>1 DEF StepsWell, s
    <3>3. phase' = "oops" /\ culprit' = "init" /\ drv' = drv /\ at' = at
      BY <3>1 DEF Oops
    <3>4. Stands'
      BY <1>1, <3>3 DEF Stands
    <3> QED
      BY <3>2, <3>3, <3>4 DEF IInv, WithinBounds, Served, TouchesOnlyHeld
  <2> QED
    BY <2>1, <2>2
<1>10. CASE StepGives(s)
  <2>1. s.op = "give" /\ Goes(held \ s.of)
    BY <1>10 DEF StepGives
  <2>2. /\ Must(drv, "init", at + 1, 0) \subseteq held \ s.of
        /\ held \ s.of \subseteq May(drv, "init", at + 1, 0)
    BY <1>1, <1>3, <2>1, BoundsGiven DEF s
  <2>3. ASSUME NEW c \in SafeCalls(drv), c.on \subseteq held \ s.of
        PROVE  c.uses \subseteq held \ s.of
    <3>1. s.of \cap (c.on \cup c.uses) = {}
      BY <1>5, <2>1 DEF StepsWell, SafeCalls, s
    <3> QED
      BY <1>4, <2>3, <3>1
  <2> QED
    BY <1>6, <2>1, <2>2, <2>3
<1> QED
  BY <1>2, <1>7, <1>8, <1>9, <1>10

(* The init function is done. *)
LEMMA ReturnKeeps ==
  ASSUME IInv, InitReturns
  PROVE  IInv'
<1>1. drv \in Drivers /\ phase = "init" /\ phase' = "in" /\ at = Len(Steps(drv)) + 1
      /\ UNCHANGED <<drv, at, todo, held, culprit>>
  <2>1. drv \in Drivers /\ at > Len(Steps(drv)) /\ at \in 1..(Len(Steps(drv)) + 1)
    BY DEF IInv, Stands, InitReturns, T, Steps
  <2>2. Len(Steps(drv)) \in Nat
    BY <2>1, RulesHold, LenProperties DEF Rules, WellFormed
  <2> QED
    BY <2>1, <2>2 DEF InitReturns
<1>2. /\ todo = <<>>
      /\ Must(drv, "init", at, 0) \subseteq held /\ held \subseteq May(drv, "init", at, 0)
  BY <1>1, BoundsInit
<1>3. WithinBounds'
  BY <1>1, <1>2, LandInit
<1>4. Served' /\ TouchesOnlyHeld'
  BY <1>1 DEF IInv, Served, TouchesOnlyHeld
<1>5. Stands'
  BY <1>1 DEF IInv, Stands
<1> QED
  BY <1>3, <1>4, <1>5 DEF IInv

(* The exit function begins: with no file open, but where the device goes. *)
LEMMA UnloadKeeps ==
  ASSUME IInv, Unload
  PROVE  IInv'
<1>1. /\ drv \in Drivers /\ phase = "in" /\ phase' = "exit" /\ drv \notin Stays
      /\ "file" \notin held \/ drv \in Unbinds
      /\ todo' = Exit(drv) /\ UNCHANGED <<drv, at, held, culprit>>
  BY DEF IInv, Stands, Unload, T, Exit
<1>2. Must(drv, "init", at, 0) \subseteq held /\ held \subseteq May(drv, "init", at, 0)
  BY <1>1, BoundsInit
<1>3. Back(drv, "exit", at) = Exit(drv) /\ Ph' = "exit"
  BY <1>1 DEF Back, Ph
<1>4. Exit(drv) \in Seq(STRING)
  BY <1>1, RulesHold DEF Rules, WellFormed
<1>5. 0 \in 0..Len(Exit(drv)) /\ SubSeq(Exit(drv), 1, Len(Exit(drv))) = Exit(drv) /\ 0 + 1 = 1
  BY <1>4, LenProperties, SubSeqFull
<1>6. Freed(drv, "exit", at, 0) = {} /\ Freed(drv, "init", at, 0) = {} /\ Closed(drv, "init") = {}
  BY FreedNone DEF Closed
<1>7. Must(drv, "exit", at, 0) = Must(drv, "init", at, 0)
  BY <1>6 DEF Must
<1>8. held \subseteq May(drv, "exit", at, 0)
  BY <1>1, <1>2, <1>6 DEF May, Closed
<1>9. WithinBounds'
  BY <1>1, <1>2, <1>3, <1>5, <1>7, <1>8 DEF WithinBounds
<1>10. Served' /\ TouchesOnlyHeld'
  BY <1>1 DEF IInv, Served, TouchesOnlyHeld
<1>11. Stands'
  BY <1>1 DEF IInv, Stands
<1> QED
  BY <1>9, <1>10, <1>11 DEF IInv

(* Undoing or tearing down: the place, and that the rules speak of it. *)
LEMMA BoundsBack ==
  ASSUME IInv, phase \in {"undo", "exit"}
  PROVE  /\ Ph = phase /\ drv \in Drivers
         /\ BacksOutWell(drv, phase, at)
         /\ Back(drv, phase, at) \in Seq(STRING) /\ Len(Back(drv, phase, at)) \in Nat
         /\ \E k \in 0..Len(Back(drv, phase, at)) :
              /\ todo = SubSeq(Back(drv, phase, at), k + 1, Len(Back(drv, phase, at)))
              /\ Must(drv, phase, at, k) \subseteq held
              /\ held \subseteq May(drv, phase, at, k)
<1>1. Ph = phase /\ phase # "oops" /\ Stands
  BY DEF Ph, IInv
<1>2. BacksOutWell(drv, phase, at)
  BY <1>1, RulesHold DEF Rules, Stands
<1>3. Back(drv, phase, at) \in Seq(STRING)
  BY <1>1, BackIsList DEF Stands
<1>4. Len(Back(drv, phase, at)) \in Nat
  BY <1>3, LenProperties
<1>5. \E k \in 0..Len(Back(drv, phase, at)) :
        /\ todo = SubSeq(Back(drv, phase, at), k + 1, Len(Back(drv, phase, at)))
        /\ Must(drv, phase, at, k) \subseteq held
        /\ held \subseteq May(drv, phase, at, k)
  BY <1>1 DEF IInv, WithinBounds
<1> QED
  BY <1>1, <1>2, <1>3, <1>4, <1>5 DEF Stands

(* One thing is given back. *)
LEMMA ReleaseKeeps ==
  ASSUME IInv, Release
  PROVE  IInv'
<1> DEFINE b == Back(drv, phase, at)
<1>1. /\ phase \in {"undo", "exit"} /\ todo # <<>> /\ Waits(Head(todo)) \cap held = {}
      /\ held' = held \ Frees(Head(todo)) /\ todo' = Tail(todo)
      /\ UNCHANGED <<drv, phase, at, culprit>>
  BY DEF Release
<1>2. /\ Ph = phase /\ drv \in Drivers /\ BacksOutWell(drv, phase, at)
      /\ b \in Seq(STRING) /\ Len(b) \in Nat
  BY <1>1, BoundsBack
<1>3. PICK k \in 0..Len(b) :
        /\ todo = SubSeq(b, k + 1, Len(b))
        /\ Must(drv, phase, at, k) \subseteq held
        /\ held \subseteq May(drv, phase, at, k)
  BY <1>1, BoundsBack
<1>4. k \in 0..(Len(b) - 1) /\ k + 1 \in 0..Len(b) /\ k \in Nat /\ (k + 1) + 1 = k + 2
  <2>1. k # Len(b)
    BY <1>1, <1>2, <1>3, RestOfList
  <2> QED
    BY <1>2, <2>1
<1>5. Head(todo) = b[k + 1] /\ todo' = SubSeq(b, k + 2, Len(b))
  BY <1>1, <1>2, <1>3, <1>4, RestOfList
<1>6. Freed(drv, phase, at, k + 1) =
        Freed(drv, phase, at, k) \cup (Frees(Head(todo)) \cup Waits(Head(todo)))
  <2>1. ASSUME NEW t, t = b[k + 1]
        PROVE  Freed(drv, phase, at, k + 1) = Freed(drv, phase, at, k) \cup (Frees(t) \cup Waits(t))
    BY <1>4, <2>1, FreedNext
  <2> QED
    BY <1>5, <2>1
<1>7. Must(drv, phase, at, k + 1) \subseteq held'
  BY <1>1, <1>3, <1>6 DEF Must
<1>8. held' \subseteq May(drv, phase, at, k + 1)
  <2>1. held' \cap (Frees(Head(todo)) \cup Waits(Head(todo))) = {} /\ held' \subseteq held
    BY <1>1
  <2> QED
    BY <1>1, <1>3, <1>6, <2>1 DEF May
<1>9. GivesWell(drv, phase, at, k)
  BY <1>2, <1>4 DEF BacksOutWell
<1>10. WithinBounds'
  <2>1. Ph' = phase /\ phase' = phase /\ at' = at /\ drv' = drv
    BY <1>1, <1>2 DEF Ph
  <2> QED
    BY <1>4, <1>5, <1>7, <1>8, <2>1 DEF WithinBounds
<1>11. Served'
  <2>1. SUFFICES ASSUME NEW c \in SafeCalls(drv), c.on \subseteq held'
                 PROVE  c.uses \subseteq held'
    BY <1>1 DEF Served
  <2>2. c.uses \subseteq held
    BY <1>1, <2>1 DEF IInv, Served
  <2>3. c.uses \cap Frees(Head(todo)) = {}
    <3>1. c.on \subseteq May(drv, phase, at, k + 1)
      BY <1>8, <2>1
    <3> QED
      BY <1>5, <1>9, <3>1 DEF GivesWell
  <2> QED
    BY <1>1, <2>2, <2>3
<1>12. Stands' /\ TouchesOnlyHeld'
  BY <1>1 DEF IInv, Stands, TouchesOnlyHeld
<1> QED
  BY <1>10, <1>11, <1>12 DEF IInv

(* All is given back. *)
LEMMA GoneKeeps ==
  ASSUME IInv, Gone
  PROVE  IInv'
<1> DEFINE b == Back(drv, phase, at)
<1>1. /\ phase \in {"undo", "exit"} /\ todo = <<>> /\ phase' = "out"
      /\ held' = held \ {"module", "timer_init"} /\ UNCHANGED <<drv, at, todo, culprit>>
  BY DEF Gone
<1>2. /\ drv \in Drivers /\ BacksOutWell(drv, phase, at)
      /\ b \in Seq(STRING) /\ Len(b) \in Nat
  BY <1>1, BoundsBack
<1>3. PICK k \in 0..Len(b) :
        todo = SubSeq(b, k + 1, Len(b)) /\ held \subseteq May(drv, phase, at, k)
  BY <1>1, BoundsBack
<1>4. k = Len(b)
  BY <1>1, <1>2, <1>3, RestOfList
<1>5. held' \subseteq Left(drv)
  <2>1. May(drv, phase, at, k) \ {"module", "timer_init"} \subseteq Left(drv)
    BY <1>2, <1>4 DEF BacksOutWell, EndsWell
  <2> QED
    BY <1>1, <1>3, <2>1
<1>6. WithinBounds'
  BY <1>1, <1>2, <1>5, LandOut
<1>7. Served'
  <2>1. SUFFICES ASSUME NEW c \in SafeCalls(drv), c.on \subseteq held'
                 PROVE  c.uses \subseteq held'
    BY <1>1 DEF Served
  <2>2. c.uses \subseteq held
    BY <1>1, <2>1 DEF IInv, Served
  <2>3. c.uses \cap {"module", "timer_init"} = {}
    BY <1>2, <1>5, <2>1, RulesHold DEF Rules, WellFormed
  <2> QED
    BY <1>1, <2>2, <2>3
<1>8. Stands' /\ TouchesOnlyHeld'
  BY <1>1 DEF IInv, Stands, TouchesOnlyHeld
<1> QED
  BY <1>6, <1>7, <1>8 DEF IInv

(* A callback comes, wherever the driver stands. *)
LEMMA CallbackKeeps ==
  ASSUME IInv, Callback
  PROVE  IInv'
<1>1. drv \in Drivers /\ phase # "oops" /\ Ph \in {"out", "init", "undo", "exit"}
      /\ (Ph = "exit" <=> phase = "exit")
  BY DEF IInv, Stands, Callback, Ph
<1>2. PICK e \in Calls(drv) :
        /\ e.on \subseteq held
        /\ e.name = "open" /\ phase = "exit" => drv \in Unbinds
        /\ IF e.uses \subseteq held
           THEN /\ held' = (held \ e.ends) \cup e.arms
                /\ UNCHANGED <<drv, phase, at, todo, culprit>>
           ELSE Oops(e.name)
  BY DEF Callback, T, Calls
<1>3. CASE ~(e.uses \subseteq held)
  <2>1. phase' = "oops" /\ culprit' = e.name /\ drv' = drv /\ at' = at
    BY <1>2, <1>3 DEF Oops
  <2>2. <<drv, e.name>> \in Faults
    BY <1>1, <1>2, <1>3 DEF IInv, Served, SafeCalls
  <2>3. Stands'
    BY <2>1 DEF IInv, Stands
  <2> QED
    BY <2>1, <2>2, <2>3 DEF IInv, WithinBounds, Served, TouchesOnlyHeld
<1>4. CASE e.uses \subseteq held
  <2>1. held' = (held \ e.ends) \cup e.arms /\ UNCHANGED <<drv, phase, at, todo, culprit>>
    BY <1>2, <1>4
  <2>2. PICK k \in 0..Len(Back(drv, Ph, at)) :
          /\ todo = SubSeq(Back(drv, Ph, at), k + 1, Len(Back(drv, Ph, at)))
          /\ Must(drv, Ph, at, k) \subseteq held
          /\ held \subseteq May(drv, Ph, at, k)
    BY <1>1, Zenon DEF IInv, WithinBounds
  <2>3. CallsWell(drv, Ph, at, k)
    <3>1. CASE phase = "out"
      <4>1. CallsWell(drv, "out", 1, 0)
        BY <1>1, RulesHold DEF Rules
      <4>2. /\ Must(drv, "out", 1, 0) = Must(drv, "out", at, k)
            /\ May(drv, "out", 1, 0) = May(drv, "out", at, k)
        BY DEF Must, May
      <4>3. Ph = "out"
        BY <3>1 DEF Ph
      <4> QED
        BY <4>1, <4>2, <4>3 DEF CallsWell
    <3>2. CASE phase \in {"init", "in"}
      <4>1. Ph = "init"
        BY <3>2 DEF Ph
      <4>2. Len(Back(drv, "init", at)) = 0
        BY <1>1, NoList
      <4>3. k = 0
        BY <2>2, <4>1, <4>2
      <4> QED
        BY <1>1, <4>1, <4>3, RulesHold DEF Rules, IInv, Stands
    <3>3. CASE phase \in {"undo", "exit"}
      BY <2>2, <3>3, BoundsBack DEF BacksOutWell
    <3> QED
      BY <1>1, <3>1, <3>2, <3>3 DEF IInv, Stands
  <2>4. e.on \cup e.uses \subseteq May(drv, Ph, at, k)
    BY <1>2, <1>4, <2>2
  <2>5. e.arms \subseteq May(drv, Ph, at, k)
    BY <1>1, <1>2, <2>3, <2>4 DEF CallsWell
  <2>6. Must(drv, Ph, at, k) \cap e.ends = {}
    <3>1. e.ends \subseteq Ends(drv)
      BY DEF Ends
    <3> QED
      BY <3>1 DEF Must, Steady
  <2>7. WithinBounds'
    <3>1. Ph' = Ph /\ phase' = phase /\ drv' = drv /\ at' = at /\ todo' = todo
      BY <2>1 DEF Ph
    <3>2. Must(drv, Ph, at, k) \subseteq held' /\ held' \subseteq May(drv, Ph, at, k)
      BY <2>1, <2>2, <2>5, <2>6
    <3> QED
      BY <2>2, <3>1, <3>2 DEF WithinBounds
  <2>8. Served'
    <3>1. SUFFICES ASSUME NEW c \in SafeCalls(drv), c.on \subseteq held'
                   PROVE  c.uses \subseteq held'
      BY <2>1 DEF Served
    <3>2. e.ends \cap c.uses = {}
      BY <1>1, RulesHold DEF Rules, WellFormed, SafeCalls
    <3>3. CASE c.on \cap e.arms = {}
      <4>1. c.on \subseteq held
        BY <2>1, <3>1, <3>3
      <4>2. c.uses \subseteq held
        BY <1>1, <4>1 DEF IInv, Served
      <4> QED
        BY <2>1, <3>2, <4>2
    <3>4. CASE c.on \cap e.arms # {}
      <4>1. c.on \subseteq May(drv, Ph, at, k)
        BY <2>1, <2>2, <2>5, <3>1
      <4>2. c.uses \subseteq Must(drv, Ph, at, k) \cup e.uses
        BY <1>1, <1>2, <2>3, <2>4, <3>4, <4>1 DEF CallsWell
      <4> QED
        BY <1>4, <2>1, <2>2, <3>2, <4>2
    <3> QED
      BY <3>3, <3>4
  <2>9. Stands' /\ TouchesOnlyHeld'
    BY <1>1, <2>1 DEF IInv, Stands, TouchesOnlyHeld
  <2> QED
    BY <2>7, <2>8, <2>9 DEF IInv
<1> QED
  BY <1>3, <1>4

(* After an oops the machine starts afresh. *)
LEMMA RebootKeeps ==
  ASSUME IInv, Reboot
  PROVE  IInv'
<1>1. drv \in Drivers /\ drv' = drv /\ phase' = "out" /\ at' = 1 /\ todo' = <<>> /\ held' = {}
  BY DEF IInv, Stands, Reboot
<1>2. WithinBounds'
  BY <1>1, LandOut
<1>3. Served'
  <2>1. \A c \in SafeCalls(drv) : c.on # {}
    BY <1>1, RulesHold DEF Rules, WellFormed, SafeCalls
  <2> QED
    BY <1>1, <2>1 DEF Served
<1>4. Stands'
  <2>1. Len(Steps(drv)) \in Nat
    BY <1>1, RulesHold, LenProperties DEF Rules, WellFormed
  <2> QED
    BY <1>1, <2>1 DEF Stands
<1> QED
  BY <1>1, <1>2, <1>3, <1>4 DEF IInv, TouchesOnlyHeld

-----------------------------------------------------------------------------
(* Nothing is there yet. *)
LEMMA InitIInv ==
  ASSUME Init
  PROVE  IInv
<1>1. drv \in Drivers /\ phase = "out" /\ at = 1 /\ todo = <<>> /\ held = {}
  BY DEF Init
<1>2. WithinBounds
  <2>1. Ph = "out"
    BY <1>1 DEF Ph
  <2>2. Len(Back(drv, "out", at)) = 0 /\ SubSeq(Back(drv, "out", at), 1, 0) = <<>>
    BY <1>1, NoList
  <2>3. 0 \in 0..0 /\ 0 + 1 = 1
    OBVIOUS
  <2>4. Must(drv, "out", at, 0) = {}
    BY DEF Must
  <2> QED
    BY <1>1, <2>1, <2>2, <2>3, <2>4 DEF WithinBounds
<1>3. Served
  <2>1. \A c \in SafeCalls(drv) : c.on # {}
    BY <1>1, RulesHold DEF Rules, WellFormed, SafeCalls
  <2> QED
    BY <1>1, <2>1 DEF Served
<1>4. Stands
  <2>1. Len(Steps(drv)) \in Nat
    BY <1>1, RulesHold, LenProperties DEF Rules, WellFormed
  <2> QED
    BY <1>1, <2>1 DEF Stands
<1> QED
  BY <1>1, <1>2, <1>3, <1>4 DEF IInv, TouchesOnlyHeld

(* The invariant is inductive. *)
LEMMA StepIInv ==
  ASSUME IInv, [Next]_vars
  PROVE  IInv'
<1>1. CASE UNCHANGED vars
  <2>1. Stands'
    BY <1>1 DEF IInv, Stands, vars
  <2>2. WithinBounds'
    <3>1. Ph' = Ph
      BY <1>1 DEF Ph, vars
    <3> QED
      BY <1>1, <3>1 DEF IInv, WithinBounds, vars
  <2>3. Served' /\ TouchesOnlyHeld'
    BY <1>1 DEF IInv, Served, TouchesOnlyHeld, vars
  <2> QED
    BY <2>1, <2>2, <2>3 DEF IInv
<1> QED
  BY <1>1, LoadKeeps, StepKeeps, ReturnKeeps, UnloadKeeps, ReleaseKeeps, GoneKeeps,
     CallbackKeeps, RebootKeeps DEF Next

(* The invariant of all drivers whose tables obey the rules. *)
THEOREM Invariant == Spec => []IInv
<1>1. Init => IInv
  BY InitIInv
<1>2. IInv /\ [Next]_vars => IInv'
  BY StepIInv
<1> QED
  BY <1>1, <1>2, PTL DEF Spec

(* What a driver holds is within the bounds of the place where it stands: all
   that its table makes certain there, and nothing that it does not allow. *)
THEOREM BoundsHold == Spec => []WithinBounds
<1>1. IInv => WithinBounds
  BY DEF IInv
<1> QED
  BY <1>1, Invariant, PTL

(* A callback that can come, between whichever steps of set-up, undoing and
   exit, and is none of Faults, finds what it touches. *)
THEOREM CallbacksServed == Spec => []Served
<1>1. IInv => Served
  BY DEF IInv
<1> QED
  BY <1>1, Invariant, PTL

(* No interrupt, timer, completion, request, file operation or init function
   touches what is not there, but for Faults. *)
THEOREM NothingTouchedInVain == Spec => []TouchesOnlyHeld
<1>1. IInv => TouchesOnlyHeld
  BY DEF IInv
<1> QED
  BY <1>1, Invariant, PTL

(* However an init function fails, and however a driver goes, nothing of it is
   left but Leaks and Strays. *)
THEOREM NothingIsLeft == Spec => []NothingLeft
<1>1. ASSUME IInv PROVE NothingLeft
  <2>1. SUFFICES ASSUME phase = "out", NEW t \in held
                 PROVE  <<drv, t>> \in Leaks \cup Strays
    BY DEF NothingLeft
  <2>2. t \in Left(drv)
    BY <1>1, <2>1, BoundsOut
  <2> QED
    BY <2>2 DEF Left
<1> QED
  BY <1>1, Invariant, PTL

(* Every undo list and every exit function gives back only what is there, but
   for Optional and FreedAgain. *)
LEMMA OnlyHeldGivenBack ==
  ASSUME IInv, phase \in {"undo", "exit"}, todo # <<>>
  PROVE  Head(todo) \in held \cup Optional \/ <<drv, Head(todo)>> \in FreedAgain
<1> DEFINE b == Back(drv, phase, at)
<1>1. BacksOutWell(drv, phase, at) /\ b \in Seq(STRING) /\ Len(b) \in Nat
  BY BoundsBack
<1>2. PICK k \in 0..Len(b) :
        todo = SubSeq(b, k + 1, Len(b)) /\ Must(drv, phase, at, k) \subseteq held
  BY BoundsBack
<1>3. k # Len(b)
  BY <1>1, <1>2, RestOfList
<1>4. k \in 0..(Len(b) - 1)
  BY <1>1, <1>3
<1>5. Head(todo) = b[k + 1]
  BY <1>1, <1>2, <1>4, RestOfList
<1>6. GivesWell(drv, phase, at, k)
  BY <1>1, <1>4 DEF BacksOutWell
<1> QED
  BY <1>2, <1>5, <1>6 DEF GivesWell

(* A step of an init function that gives something back gives what is there, but
   for FreedAgain. *)
LEMMA OnlyHeldGivenAgain ==
  ASSUME IInv, phase = "init", at <= Len(T.init), T.init[at].op = "give", NEW t \in T.init[at].of
  PROVE  t \in held \/ <<drv, t>> \in FreedAgain
<1>1. drv \in Drivers /\ Steps(drv) = T.init /\ at \in 1..(Len(Steps(drv)) + 1)
  BY DEF IInv, Stands, Steps, T
<1>2. Len(Steps(drv)) \in Nat
  BY <1>1, RulesHold, LenProperties DEF Rules, WellFormed
<1>3. at \in 1..Len(Steps(drv))
  BY <1>1, <1>2
<1>4. StepsWell(drv, at)
  BY <1>1, <1>3, RulesHold DEF Rules
<1>5. t \in Must(drv, "init", at, 0) \/ <<drv, t>> \in FreedAgain
  BY <1>1, <1>4 DEF StepsWell
<1> QED
  BY <1>5, BoundsInit

(* Wherever something is given back it is there, but for Optional and FreedAgain. *)
THEOREM OnlyHeldReleased == Spec => []ReleasesHeld
<1>1. IInv => ReleasesHeld
  BY OnlyHeldGivenBack, OnlyHeldGivenAgain DEF ReleasesHeld
<1> QED
  BY <1>1, Invariant, PTL

(* Steps and callbacks bring about what the table names, and nothing else. *)
LEMMA ThingsStay ==
  ASSUME IInv, held \subseteq Things, [Next]_vars
  PROVE  (held \subseteq Things)'
<1>1. drv' = drv
  BY DEF Next, vars, Load, InitStep, StepSucceeds, StepFails, StepUses, StepGives, Goes, Oops,
         InitReturns, Unload, Release, Gone, Callback, Reboot
<1>2. Things' = Things
  BY <1>1 DEF Things, T
<1>3. CASE Load
  BY <1>2, <1>3 DEF Load, Things
<1>4. CASE InitStep
  <2>1. at \in 1..Len(T.init)
    <3>1. /\ drv \in Drivers /\ Steps(drv) = T.init
          /\ at \in 1..(Len(Steps(drv)) + 1) /\ at <= Len(Steps(drv))
      BY <1>4 DEF InitStep, IInv, Stands, Steps, T
    <3>2. Len(Steps(drv)) \in Nat
      BY <3>1, RulesHold, LenProperties DEF Rules, WellFormed
    <3> QED
      BY <3>1, <3>2
  <2>2. T.init[at].of \subseteq Things
    BY <2>1 DEF Things
  <2>3. held' \subseteq held \cup T.init[at].of
    BY <1>4 DEF InitStep, StepSucceeds, StepFails, StepUses, StepGives, Goes, Oops
  <2> QED
    BY <1>2, <2>2, <2>3
<1>5. CASE Callback
  <2>1. PICK c \in T.calls : held' \subseteq held \cup c.arms
    BY <1>5 DEF Callback, Oops
  <2>2. c.arms \subseteq Things
    BY DEF Things
  <2> QED
    BY <1>2, <2>1, <2>2
<1>6. CASE InitReturns \/ Unload \/ Release \/ Gone \/ Reboot \/ UNCHANGED vars
  <2>1. held' \subseteq held
    BY <1>6 DEF InitReturns, Unload, Release, Gone, Reboot, vars
  <2> QED
    BY <1>2, <2>1
<1> QED
  BY <1>3, <1>4, <1>5, <1>6 DEF Next

(* What TypeOK says beyond that follows from the bounds of the place. *)
LEMMA InvTypes ==
  ASSUME IInv, held \subseteq Things
  PROVE  TypeOK
<1>1. Stands /\ Steps(drv) = T.init
  BY DEF IInv, Steps, T
<1>2. ASSUME phase \in {"init", "undo", "in", "exit"} PROVE "module" \in held
  <2>1. Ph \in {"init", "undo", "exit"} /\ (Ph = "undo" <=> phase = "undo") /\ phase # "oops"
    BY <1>2 DEF Ph
  <2>2. PICK k \in 0..Len(Back(drv, Ph, at)) : Must(drv, Ph, at, k) \subseteq held
    BY <2>1, Zenon DEF IInv, WithinBounds
  <2>3. "module" \in Must(drv, Ph, at, k)
    BY <1>1, <2>1, ModuleStays DEF Stands
  <2> QED
    BY <2>2, <2>3
<1>3. todo # <<>> => phase \in {"undo", "exit", "oops"}
  BY <1>1, BoundsInit, BoundsOut DEF Stands
<1> QED
  BY <1>1, <1>2, <1>3 DEF Stands, TypeOK

(* The driver's things are those its table names, its code is there while it
   runs, and nothing waits to be given back outside undoing and exit. *)
THEOREM TypeCorrect == Spec => []TypeOK
<1>1. Init => IInv
  BY InitIInv
<1>2. IInv /\ [Next]_vars => IInv'
  BY StepIInv
<1>3. Init => held \subseteq Things
  BY DEF Init
<1>4. ASSUME IInv, held \subseteq Things, [Next]_vars
      PROVE  (held \subseteq Things)'
  BY <1>4, ThingsStay
<1>5. IInv /\ held \subseteq Things => TypeOK
  BY InvTypes
<1> QED
  BY <1>1, <1>2, <1>3, <1>4, <1>5, PTL DEF Spec
===============================================================================
