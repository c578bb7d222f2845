---------------------------- MODULE MCDispatcher ----------------------------
(* SimpleAuth before the processor; RTPRelay and a logger after it.         *)
EXTENDS Dispatcher, TLC

CONSTANTS j1, j2

MCMiddlewares ==
    << [ref |-> "rtprelay", postProcessor |-> TRUE], [ref |-> "simpleauth", postProcessor |-> FALSE],
       [ref |-> "logger", postProcessor |-> TRUE], [ref |-> "unset", postProcessor |-> None] >>

\* A browser calls a phone, or a phone a browser.
MCLegs == {[from |-> "WS", to |-> "UDP"], [from |-> "UDP", to |-> "WSS"]}

JobSymmetry == Permutations(Jobs)
=============================================================================
