----------------------------- MODULE SendMessage -----------------------------
(***************************************************************************)
(* What a caller of the Requester's rpc SendMessage may rely on: the       *)
(* abstract specification that Requester implements and Registry is built  *)
(* upon.                                                                   *)
(*                                                                         *)
(* A call has one SIP transaction, which receives provisional messages and *)
(* at most one that is not.  The call is answered once at most, with a     *)
(* message its own transaction received; it may be refused before the      *)
(* request is sent; and it may never be answered at all.                   *)
(***************************************************************************)
CONSTANTS
  Call,         \* calls of SendMessage
  Message,      \* responses, and the response a timeout stands for
  Provisional,  \* the provisional (1xx) ones
  NoMessage     \* no response

VARIABLES
  status,       \* where each call is
  received,     \* the messages its transaction received
  reply         \* the message it was answered with

sendVars == <<status, received, reply>>

Status == {"unsent", "pending", "answered", "refused"}

SendTypeOK ==
  /\ status \in [Call -> Status]
  /\ received \in [Call -> SUBSET Message]
  /\ reply \in [Call -> Message \cup {NoMessage}]

SendInit ==
  /\ status = [c \in Call |-> "unsent"]
  /\ received = [c \in Call |-> {}]
  /\ reply = [c \in Call |-> NoMessage]

(* Calls are made.                                                         *)
Begin(cs) ==
  /\ \A c \in cs : status[c] = "unsent"
  /\ status' = [c \in Call |-> IF c \in cs THEN "pending" ELSE status[c]]
  /\ UNCHANGED <<received, reply>>

(* The transaction of a call receives a message: no more after one that is *)
(* not provisional.                                                        *)
Receive(c, m) ==
  /\ status[c] \in {"pending", "answered"}
  /\ m \notin received[c]
  /\ received[c] \subseteq Provisional
  /\ received' = [received EXCEPT ![c] = @ \cup {m}]
  /\ UNCHANGED <<status, reply>>

Answer(c, m) ==
  /\ status[c] = "pending"
  /\ m \in received[c]
  /\ status' = [status EXCEPT ![c] = "answered"]
  /\ reply' = [reply EXCEPT ![c] = m]
  /\ UNCHANGED received

Refuse(c) ==
  /\ status[c] = "pending"
  /\ received[c] = {}
  /\ status' = [status EXCEPT ![c] = "refused"]
  /\ UNCHANGED <<received, reply>>

SendNext ==
  \/ \E cs \in SUBSET Call : Begin(cs)
  \/ \E c \in Call, m \in Message : Receive(c, m) \/ Answer(c, m)
  \/ \E c \in Call : Refuse(c)

SendSpec == SendInit /\ [][SendNext]_sendVars

(* A call that is answered was answered by its own transaction.            *)
AnswerReceived ==
  \A c \in Call : status[c] = "answered" => reply[c] \in received[c]
=============================================================================
