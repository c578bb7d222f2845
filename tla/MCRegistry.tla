----------------------------- MODULE MCRegistry -----------------------------
(***************************************************************************)
(* Instances of Registry for TLC.                                          *)
(***************************************************************************)
EXTENDS Registry, TLC

CONSTANTS t1, t2

(* An answer with the lifetime in the Contact, and a failure.               *)
Granted(n) ==
  [responseType |-> "OK", contact |-> n, expires |-> Absent, granted |-> n]
Failure ==
  [responseType |-> "FAILURE", contact |-> Absent, expires |-> Absent, granted |-> 0]

SomeFail == {Granted(3), Failure}

TrunkSymmetry == Permutations(Trunk)
=============================================================================
