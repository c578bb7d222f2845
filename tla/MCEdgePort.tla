----------------------------- MODULE MCEdgePort -----------------------------
(***************************************************************************)
(* Instances of EdgePort for TLC.                                          *)
(***************************************************************************)
EXTENDS EdgePort

CONSTANTS i1, i2, c1, b1, a1

Methods == [r \in Request |->
  CASE r \in {i1, i2} -> "INVITE" [] r = c1 -> "CANCEL"
    [] r = b1 -> "BYE" [] r = a1 -> "ACK"]

(* The CANCEL is for the INVITE the caller sent last.                      *)
CancelFirst == [r \in CancelRequests |-> i1]
CancelSecond == [r \in CancelRequests |-> i2]
=============================================================================
