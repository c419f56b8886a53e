------------------------------ MODULE I2cAdapter ------------------------------
(***************************************************************************)
(* What an i2c adapter promises the i2c core: the contract of              *)
(* i2c_algorithm.master_xfer, abstracted from the controller and its       *)
(* interrupts.  One transfer of `num' messages is in hand at a time.  Its  *)
(* messages become complete on the wire in any number of steps, only       *)
(* between the call and the return, and never become incomplete again.     *)
(* The value returned is a negative error code or a number of leading      *)
(* messages all of which are complete.                                     *)
(***************************************************************************)
EXTENDS Integers

VARIABLES
  busy,     \* "yes" while a transfer is in hand, "no" otherwise
  num,      \* number of messages of the transfer
  done,     \* the messages of it that are complete on the wire
  result    \* what the last transfer returned; 0 while one is in hand

vars == <<busy, num, done, result>>

Init == busy = "no" /\ num = 0 /\ done = {} /\ result = 0

(* The core hands over a transfer of one or more messages. *)
Submit ==
  /\ busy = "no"
  /\ busy' = "yes" /\ num' \in Nat \ {0} /\ done' = {}
  /\ result' = 0

(* The adapter refuses a transfer before it starts. *)
Refuse ==
  /\ busy = "no"
  /\ result' \in Int /\ result' < 0
  /\ UNCHANGED <<busy, num, done>>

(* One or more further messages are complete. *)
Progress ==
  /\ busy = "yes"
  /\ done \subseteq done' /\ done' \subseteq 1..num
  /\ UNCHANGED <<busy, num, result>>

(* The transfer returns an error, or a count of leading complete messages. *)
Return ==
  /\ busy = "yes"
  /\ busy' = "no"
  /\ result' \in Int
  /\ result' < 0 \/ (result' <= num /\ 1..result' \subseteq done)
  /\ UNCHANGED <<num, done>>

Next == Submit \/ Refuse \/ Progress \/ Return

Spec == Init /\ [][Next]_vars
===============================================================================
