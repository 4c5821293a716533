---------------------------- MODULE MCMemoryIndex ----------------------------
(* TLC instance of MemoryIndex: one tenant, as tenants share the file only    *)
(* (the theorems are about any number).  Of three incidents two               *)
(* share a rule, two an address; one rule is written with a leading zero.    *)
(* Of the times, the first is the later one (another offset), the third has   *)
(* no offset, and the fourth is no time.                                      *)
EXTENDS MemoryIndex

CONSTANTS i1, i2, i3

\* A score halves in a unit of time.
MCFreshness == [age \in 0..Now |-> 2 ^ age]

MCForm == <<"aware", "aware", "naive", "garbled">>

MCInstant == <<2, 1, 0, 0>>

MCStored(rule) == IF rule = "0510" THEN "510" ELSE rule

MCAlert == [i \in Incident |->
  [rule |-> IF i = i3 THEN "0510" ELSE "5712",
   srcip |-> IF i = i1 THEN Absent ELSE "10.0.0.9",
   agent |-> "mail"]]
=============================================================================
