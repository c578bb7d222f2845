------------------------------ MODULE Requester ------------------------------
(***************************************************************************)
(* The Requester of Routr (mods/requester): rpc SendMessage sends a SIP    *)
(* request in a transaction of its own and answers with the response.      *)
(*                                                                         *)
(* Three kinds of threads work on a call.  The gRPC thread sends the       *)
(* request, hands a ResponseCallable to a pool of PoolSize threads, enters *)
(* the callable in responseMap and spins until it is done.  A pool thread  *)
(* polls the callable for its value.  A listener thread of the SIP stack   *)
(* takes the callable from the map and gives it the response.  Nothing is  *)
(* synchronised and responseMap is a java.util.HashMap: an operation that  *)
(* changes it takes two steps, and loses its effect when it overlaps with  *)
(* another.                                                                *)
(***************************************************************************)
EXTENDS Naturals, Sequences, FiniteSets

CONSTANTS
  Call,         \* calls of SendMessage, by their Call-ID
  Message,      \* responses, and the response a timeout stands for
  Provisional,  \* the provisional (1xx) ones
  Uncoded,      \* those whose status code is not in ResponseCode
  PoolSize,     \* threads of the executor
  NoMessage

ASSUME RequesterAssumption ==
  /\ Provisional \subseteq Message /\ Uncoded \subseteq Message
  /\ NoMessage \notin Message
  /\ PoolSize \in Nat \ {0}

VARIABLES
  thread,       \* where the gRPC thread of each call is
  queue,        \* tasks that wait for a pool thread
  workers,      \* tasks that have one
  value,        \* ResponseCallable.value
  future,       \* the outcome of the FutureTask
  responseMap,  \* the calls that have an entry
  transaction,  \* the SIP client transaction of each call
  listener,     \* where the listener thread of its transaction is
  event,        \* the message it handles
  raced,        \* changes of the map that overlapped with another
  early,        \* calls whose transaction had an event before their entry
  received,     \* the messages each transaction received
  reply         \* the message each call was answered with

vars == <<thread, queue, workers, value, future, responseMap, transaction,
          listener, event, raced, early, received, reply>>
poolVars == <<queue, workers, future>>
sipVars == <<transaction, listener, event, early, received>>

Thread == {"unsent", "called", "sent", "queued", "putting", "polling",
           "answered", "refused", "silent"}
Transaction == {"none", "pending", "over", "failed"}
Listener == {"idle", "found", "missed", "removing"}
MapChange == {"put", "remove"} \X Call

-----------------------------------------------------------------------------
(* The HashMap                                                             *)

InProgress ==
  {<<"put", c>> : c \in {d \in Call : thread[d] = "putting"}} \cup
  {<<"remove", c>> : c \in {d \in Call : listener[d] = "removing"}}

BeginChange(change) ==
  raced' = IF InProgress = {} THEN raced \ {change}
                              ELSE raced \cup InProgress \cup {change}

(* A change that overlapped with another may be lost.                      *)
EndChange(change, new) ==
  \/ responseMap' = new
  \/ change \in raced /\ UNCHANGED responseMap

-----------------------------------------------------------------------------
(* The gRPC thread: sendMessage                                            *)

Advance(c, from, to) ==
  /\ thread[c] = from
  /\ thread' = [thread EXCEPT ![c] = to]

CallSendMessage(c) ==
  /\ Advance(c, "unsent", "called")
  /\ UNCHANGED <<poolVars, sipVars, value, responseMap, raced, reply>>

(* requester.sendRequest.  A SipException while sending is logged and the  *)
(* call goes on without a transaction; an exception in what sendMessage    *)
(* catches leaves the call unanswered, and one it does not catch (a        *)
(* transport without a listening point) refuses it.                        *)
SendRequest(c) ==
  /\ \/ /\ Advance(c, "called", "sent")
        /\ \/ transaction' = [transaction EXCEPT ![c] = "pending"]
           \/ UNCHANGED transaction
     \/ /\ Advance(c, "called", "silent") \/ Advance(c, "called", "refused")
        /\ UNCHANGED transaction
  /\ UNCHANGED <<poolVars, value, responseMap, listener, event, raced, early,
                 received, reply>>

FreeThread_OffByOne == Cardinality(workers) <= PoolSize
FreeThread == Cardinality(workers) < PoolSize

(* executor.execute                                                        *)
Execute(c) ==
  /\ Advance(c, "sent", "queued")
  /\ IF FreeThread
       THEN workers' = workers \cup {c} /\ UNCHANGED queue
       ELSE queue' = Append(queue, c) /\ UNCHANGED workers
  /\ UNCHANGED <<sipVars, value, future, responseMap, raced, reply>>

(* responseMap.put                                                         *)
BeginPut(c) ==
  /\ Advance(c, "queued", "putting")
  /\ BeginChange(<<"put", c>>)
  /\ UNCHANGED <<poolVars, sipVars, value, responseMap, reply>>

EndPut(c) ==
  /\ Advance(c, "putting", "polling")
  /\ EndChange(<<"put", c>>, responseMap \cup {c})
  /\ UNCHANGED <<poolVars, sipVars, value, raced, reply>>

(* The future is done, and the call is answered with its outcome.          *)
Reply(c) ==
  /\ Advance(c, "polling", "answered")
  /\ future[c] # NoMessage
  /\ reply' = [reply EXCEPT ![c] = future[c]]
  /\ UNCHANGED <<poolVars, sipVars, value, responseMap, raced>>

-----------------------------------------------------------------------------
(* The pool                                                                *)

TakeNext_Never(c) == workers' = workers \ {c} /\ UNCHANGED queue

(* The pool thread of c takes the next task, when one waits.               *)
TakeNext(c) ==
  IF queue = <<>>
    THEN workers' = workers \ {c} /\ UNCHANGED queue
    ELSE /\ workers' = (workers \ {c}) \cup {Head(queue)}
         /\ queue' = Tail(queue)

(* ResponseCallable.call finds a value.                                    *)
Finish(c) ==
  /\ c \in workers
  /\ value[c] # NoMessage
  /\ future' = [future EXCEPT ![c] = value[c]]
  /\ TakeNext(c)
  /\ UNCHANGED <<sipVars, thread, value, responseMap, raced, reply>>

-----------------------------------------------------------------------------
(* The listener threads                                                    *)

Sent(c) == thread[c] \notin {"unsent", "called"}
Entered(c) == thread[c] \in {"polling", "answered"}

(* processResponse or processTimeout, to responseMap.get.  The stack       *)
(* delivers the events of a transaction one at a time.                     *)
ProcessEvent(c, m) ==
  /\ transaction[c] = "pending" /\ listener[c] = "idle"
  /\ m \notin received[c]
  /\ received' = [received EXCEPT ![c] = @ \cup {m}]
  /\ transaction' =
       [transaction EXCEPT ![c] = IF m \in Provisional THEN "pending" ELSE "over"]
  /\ event' = [event EXCEPT ![c] = m]
  /\ listener' =
       [listener EXCEPT ![c] = IF c \in responseMap THEN "found" ELSE "missed"]
  /\ early' = IF Entered(c) THEN early ELSE early \cup {c}
  /\ UNCHANGED <<poolVars, thread, value, responseMap, raced, reply>>

SetValue_Forgotten(c) == UNCHANGED value
SetValue_Shared(c) ==
  value' = [d \in Call |-> IF d \in responseMap THEN event[c] ELSE value[d]]

(* callableResponse.setValue                                               *)
SetValue(c) == value' = [value EXCEPT ![c] = event[c]]

(* The listener gives the callable it found the message and goes on to     *)
(* remove the entry; a message without a ResponseCode cannot be converted, *)
(* and ends the listener there.                                            *)
HandleEvent(c) ==
  /\ \/ /\ listener[c] = "found" /\ event[c] \in Uncoded
        /\ listener' = [listener EXCEPT ![c] = "idle"]
        /\ UNCHANGED <<value, raced>>
     \/ /\ listener[c] = "found" /\ event[c] \notin Uncoded
        /\ listener' = [listener EXCEPT ![c] = "removing"]
        /\ SetValue(c)
        /\ BeginChange(<<"remove", c>>)
     \/ /\ listener[c] = "missed"
        /\ listener' = [listener EXCEPT ![c] = "removing"]
        /\ BeginChange(<<"remove", c>>)
        /\ UNCHANGED value
  /\ UNCHANGED <<poolVars, thread, responseMap, transaction, event, early,
                 received, reply>>

Removed_Nothing(c) == responseMap
Removed(c) == responseMap \ {c}

(* responseMap.remove                                                      *)
EndRemove(c) ==
  /\ listener[c] = "removing"
  /\ listener' = [listener EXCEPT ![c] = "idle"]
  /\ EndChange(<<"remove", c>>, Removed(c))
  /\ UNCHANGED <<poolVars, thread, value, transaction, event, raced, early,
                 received, reply>>

(* processIOException only logs, and the transaction has no other event.   *)
ProcessIOException(c) ==
  /\ transaction[c] = "pending" /\ listener[c] = "idle"
  /\ transaction' = [transaction EXCEPT ![c] = "failed"]
  /\ UNCHANGED <<poolVars, thread, value, responseMap, listener, event, raced,
                 early, received, reply>>

-----------------------------------------------------------------------------
Init ==
  /\ thread = [c \in Call |-> "unsent"]
  /\ queue = <<>> /\ workers = {}
  /\ value = [c \in Call |-> NoMessage]
  /\ future = [c \in Call |-> NoMessage]
  /\ responseMap = {}
  /\ transaction = [c \in Call |-> "none"]
  /\ listener = [c \in Call |-> "idle"]
  /\ event = [c \in Call |-> NoMessage]
  /\ raced = {} /\ early = {}
  /\ received = [c \in Call |-> {}]
  /\ reply = [c \in Call |-> NoMessage]

ThreadStep(c) ==
  SendRequest(c) \/ Execute(c) \/ BeginPut(c) \/ EndPut(c) \/ Reply(c)
ListenerStep(c) == HandleEvent(c) \/ EndRemove(c)
EndOfTransaction(c) ==
  \/ \E m \in Message \ Provisional : ProcessEvent(c, m)
  \/ ProcessIOException(c)

Next ==
  \E c \in Call :
    \/ CallSendMessage(c)
    \/ ThreadStep(c)
    \/ Finish(c)
    \/ \E m \in Message : ProcessEvent(c, m)
    \/ ListenerStep(c)
    \/ ProcessIOException(c)

Spec == Init /\ [][Next]_vars

(* Threads are scheduled, and the timers of the SIP stack end each         *)
(* transaction.                                                            *)
Fairness ==
  \A c \in Call :
    /\ WF_vars(ThreadStep(c)) /\ WF_vars(Finish(c))
    /\ WF_vars(ListenerStep(c)) /\ WF_vars(EndOfTransaction(c))
FairSpec == Spec /\ Fairness

-----------------------------------------------------------------------------
(* Properties                                                              *)

(* Types, and the pool never has more than PoolSize tasks in progress.      *)
TypeOK ==
  /\ thread \in [Call -> Thread]
  /\ queue \in Seq(Call) /\ workers \subseteq Call
  /\ Cardinality(workers) <= PoolSize
  /\ value \in [Call -> Message \cup {NoMessage}]
  /\ future \in [Call -> Message \cup {NoMessage}]
  /\ responseMap \subseteq Call
  /\ transaction \in [Call -> Transaction]
  /\ listener \in [Call -> Listener]
  /\ event \in [Call -> Message \cup {NoMessage}]
  /\ raced \subseteq MapChange /\ early \subseteq Call
  /\ received \in [Call -> SUBSET Message]
  /\ reply \in [Call -> Message \cup {NoMessage}]

Waiting(c) == thread[c] \in {"sent", "queued", "putting", "polling"}

(* No message will ever reach the call: its pool thread and its gRPC       *)
(* thread poll forever.                                                    *)
Deaf(c) ==
  /\ Waiting(c) /\ value[c] = NoMessage
  /\ transaction[c] # "pending" /\ listener[c] = "idle"

(* A call is left waiting for ever only when its request could not be      *)
(* sent, the transport failed, the response came before the call had its   *)
(* entry in responseMap or has a status code without a ResponseCode, or    *)
(* the put of its entry overlapped with another change of the map: in all  *)
(* other interleavings of the three threads the response is delivered.     *)
OnlyTheseAreDeaf ==
  \A c \in Call : Deaf(c) =>
    \/ transaction[c] \in {"none", "failed"}
    \/ c \in early
    \/ received[c] \cap Uncoded # {}
    \/ <<"put", c>> \in raced

(* An answered call leaves no entry in responseMap, unless the removal     *)
(* overlapped with another change of the map.                              *)
NoEntryLeaks ==
  \A c \in Call :
    /\ thread[c] = "answered" /\ listener[c] = "idle"
    /\ <<"remove", c>> \notin raced
    /\ received[c] \cap Uncoded = {}
    => c \notin responseMap

(* A response that reached its callable is answered, unless deaf calls     *)
(* hold every thread of the pool: then it waits for ever, behind calls it  *)
(* has nothing to do with.                                                 *)
Served ==
  \A c \in Call :
    value[c] # NoMessage ~>
      \/ thread[c] = "answered"
      \/ Cardinality({d \in workers : Deaf(d)}) = PoolSize

(* The Requester keeps the promise of SendMessage: a call is answered once *)
(* at most, with a message of its own transaction.                         *)
Promise == INSTANCE SendMessage WITH
  status <- [c \in Call |->
    CASE thread[c] \in {"unsent", "answered", "refused"} -> thread[c]
      [] OTHER -> "pending"]
KeepsPromise == Promise!SendSpec
=============================================================================
