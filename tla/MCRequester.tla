----------------------------- MODULE MCRequester -----------------------------
(***************************************************************************)
(* Instances of Requester for TLC.                                         *)
(***************************************************************************)
EXTENDS Requester

CONSTANTS c1, c2, trying, ok, uncoded
=============================================================================
