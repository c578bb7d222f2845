-------------------------- MODULE RequesterProofs --------------------------
(***************************************************************************)
(* Proofs about Requester, for any number of calls, messages and threads.  *)
(***************************************************************************)
EXTENDS Requester, FiniteSetTheorems, TLAPS

(* The pool stays within its size because its tasks can be counted.        *)
PoolInv == TypeOK /\ IsFiniteSet(workers)

(* What a call holds came over its own transaction, which starts when the  *)
(* request is sent and takes nothing after a final message.                *)
CallInv ==
  \A c \in Call :
    /\ thread[c] \in {"unsent", "called", "refused", "silent"} => transaction[c] = "none"
    /\ transaction[c] = "none" => received[c] = {}
    /\ transaction[c] = "pending" => received[c] \subseteq Provisional
    /\ transaction[c] = "over" => received[c] # {}
    /\ listener[c] # "idle" => event[c] \in received[c]
    /\ value[c] \in received[c] \cup {NoMessage}
    /\ future[c] # NoMessage => future[c] \in received[c] /\ value[c] # NoMessage
    /\ thread[c] = "answered" => future[c] # NoMessage

(* Nothing kept the call from its response.                                *)
Undisturbed(c) ==
  c \notin early /\ <<"put", c>> \notin raced /\ received[c] \cap Uncoded = {}

(* An undisturbed call is in the map until its listener has found it, and  *)
(* has its value from then on; one that has its value leaves the map       *)
(* unless the removal overlapped.                                          *)
CallMap(c) ==
  /\ c \in responseMap \/ value[c] # NoMessage \/ listener[c] = "found" => Entered(c)
  /\ received[c] # {} => c \in early \/ Entered(c)
  /\ Undisturbed(c) /\ Entered(c) /\ value[c] = NoMessage => c \in responseMap
  /\ Undisturbed(c) /\ received[c] # {} /\ value[c] = NoMessage
       => listener[c] = "found"
  /\ /\ value[c] # NoMessage /\ listener[c] = "idle"
     /\ <<"remove", c>> \notin raced /\ received[c] \cap Uncoded = {}
     => c \notin responseMap

MapInv == \A c \in Call : CallMap(c)

-----------------------------------------------------------------------------
(* Types and the pool                                                      *)

LEMMA BeginChangeType ==
  ASSUME TypeOK, NEW change \in MapChange, BeginChange(change)
  PROVE  raced' \subseteq MapChange
  <1>1. InProgress \subseteq MapChange
    BY DEF InProgress, MapChange
  <1>. QED BY <1>1 DEF BeginChange, TypeOK

(* A task that leaves the pool makes room for the one it lets in.          *)
LEMMA TakeNextType ==
  ASSUME PoolInv, RequesterAssumption, NEW c \in workers, TakeNext(c)
  PROVE  /\ queue' \in Seq(Call) /\ workers' \subseteq Call
         /\ IsFiniteSet(workers') /\ Cardinality(workers') <= PoolSize
  <1>. USE DEF PoolInv, TypeOK, RequesterAssumption
  <1>1. /\ IsFiniteSet(workers \ {c})
        /\ Cardinality(workers \ {c}) = Cardinality(workers) - 1
        /\ Cardinality(workers) \in Nat
    BY FS_RemoveElement, FS_CardinalityType
  <1>2. CASE queue = <<>>
    <2>. DEFINE rest == workers \ {c}
    <2>1. workers' = rest /\ queue' = queue
      BY <1>2 DEF TakeNext
    <2>2. /\ IsFiniteSet(rest) /\ Cardinality(rest) = Cardinality(workers) - 1
          /\ rest \subseteq Call
      BY <1>1
    <2>. HIDE DEF rest
    <2>3. Cardinality(rest) <= PoolSize
      BY <1>1, <2>2
    <2>. QED BY <2>1, <2>2, <2>3
  <1>3. CASE queue # <<>>
    <2>. DEFINE next == Head(queue)
                rest == workers \ {c}
    <2>1. workers' = rest \cup {next} /\ queue' = Tail(queue)
      BY <1>3 DEF TakeNext
    <2>2. next \in Call /\ Tail(queue) \in Seq(Call)
      BY <1>3
    <2>3. IsFiniteSet(rest) /\ Cardinality(rest) = Cardinality(workers) - 1
      BY <1>1
    <2>. HIDE DEF rest, next
    <2>4. /\ IsFiniteSet(rest \cup {next})
          /\ \/ Cardinality(rest \cup {next}) = Cardinality(rest)
             \/ Cardinality(rest \cup {next}) = Cardinality(rest) + 1
      BY <2>3, FS_AddElement
    <2>5. rest \subseteq Call
      BY DEF rest
    <2>. QED BY <1>1, <2>1, <2>2, <2>3, <2>4, <2>5
  <1>. QED BY <1>2, <1>3

(* A free thread takes one task more.                                      *)
LEMMA ExecuteType ==
  ASSUME PoolInv, RequesterAssumption, NEW c \in Call, Execute(c)
  PROVE  /\ queue' \in Seq(Call) /\ workers' \subseteq Call
         /\ IsFiniteSet(workers') /\ Cardinality(workers') <= PoolSize
  <1>. USE DEF PoolInv, TypeOK, RequesterAssumption
  <1>1. CASE FreeThread
    <2>1. workers' = workers \cup {c} /\ UNCHANGED queue
      BY <1>1 DEF Execute
    <2>2. /\ IsFiniteSet(workers \cup {c})
          /\ \/ Cardinality(workers \cup {c}) = Cardinality(workers)
             \/ Cardinality(workers \cup {c}) = Cardinality(workers) + 1
      BY FS_AddElement
    <2>3. Cardinality(workers) \in Nat /\ Cardinality(workers) < PoolSize
      BY <1>1, FS_CardinalityType DEF FreeThread
    <2>. QED BY <2>1, <2>2, <2>3
  <1>2. CASE ~FreeThread
    <2>1. workers' = workers /\ queue' = Append(queue, c)
      BY <1>2 DEF Execute
    <2>2. Append(queue, c) \in Seq(Call)
      OBVIOUS
    <2>. QED BY <2>1, <2>2
  <1>. QED BY <1>1, <1>2

LEMMA PoolNext ==
  ASSUME PoolInv, RequesterAssumption, Next
  PROVE  PoolInv'
  <1>. USE DEF PoolInv, TypeOK, RequesterAssumption, poolVars, sipVars, Thread,
               Transaction, Listener
  <1>1. ASSUME NEW c \in Call, CallSendMessage(c) \/ SendRequest(c) PROVE PoolInv'
    BY <1>1 DEF CallSendMessage, SendRequest, Advance
  <1>2. ASSUME NEW c \in Call, Execute(c) PROVE PoolInv'
    BY <1>2, ExecuteType DEF Execute, Advance
  <1>3. ASSUME NEW c \in Call, BeginPut(c) PROVE PoolInv'
    <2>1. raced' \subseteq MapChange
      BY <1>3, BeginChangeType DEF BeginPut, MapChange
    <2>. QED BY <1>3, <2>1 DEF BeginPut, Advance
  <1>4. ASSUME NEW c \in Call, EndPut(c) PROVE PoolInv'
    BY <1>4 DEF EndPut, Advance, EndChange
  <1>5. ASSUME NEW c \in Call, Reply(c) PROVE PoolInv'
    BY <1>5 DEF Reply, Advance
  <1>6. ASSUME NEW c \in Call, Finish(c) PROVE PoolInv'
    BY <1>6, TakeNextType DEF Finish
  <1>7. ASSUME NEW c \in Call, NEW m \in Message, ProcessEvent(c, m) PROVE PoolInv'
    BY <1>7 DEF ProcessEvent
  <1>8. ASSUME NEW c \in Call, HandleEvent(c) PROVE PoolInv'
    <2>1. raced' \subseteq MapChange
      BY <1>8, BeginChangeType DEF HandleEvent, MapChange
    <2>. QED BY <1>8, <2>1 DEF HandleEvent, SetValue
  <1>9. ASSUME NEW c \in Call, EndRemove(c) PROVE PoolInv'
    BY <1>9 DEF EndRemove, EndChange, Removed
  <1>10. ASSUME NEW c \in Call, ProcessIOException(c) PROVE PoolInv'
    BY <1>10 DEF ProcessIOException
  <1>. QED BY <1>1, <1>2, <1>3, <1>4, <1>5, <1>6, <1>7, <1>8, <1>9, <1>10
           DEF Next, ThreadStep, ListenerStep

-----------------------------------------------------------------------------
(* What a call holds                                                       *)

LEMMA CallNext ==
  ASSUME PoolInv, RequesterAssumption, CallInv, Next
  PROVE  CallInv'
  <1>. USE DEF PoolInv, TypeOK, RequesterAssumption, CallInv, poolVars, sipVars
  <1>1. ASSUME NEW c \in Call, CallSendMessage(c) \/ SendRequest(c) PROVE CallInv'
    BY <1>1 DEF CallSendMessage, SendRequest, Advance
  <1>2. ASSUME NEW c \in Call, Execute(c) PROVE CallInv'
    BY <1>2 DEF Execute, Advance
  <1>3. ASSUME NEW c \in Call, BeginPut(c) \/ EndPut(c) PROVE CallInv'
    BY <1>3 DEF BeginPut, EndPut, Advance
  <1>4. ASSUME NEW c \in Call, Reply(c) PROVE CallInv'
    BY <1>4 DEF Reply, Advance
  <1>5. ASSUME NEW c \in Call, Finish(c) PROVE CallInv'
    BY <1>5 DEF Finish
  <1>6. ASSUME NEW c \in Call, NEW m \in Message, ProcessEvent(c, m) PROVE CallInv'
    BY <1>6 DEF ProcessEvent, Transaction, Listener
  <1>7. ASSUME NEW c \in Call, HandleEvent(c) PROVE CallInv'
    BY <1>7 DEF HandleEvent, SetValue
  <1>8. ASSUME NEW c \in Call, EndRemove(c) PROVE CallInv'
    BY <1>8 DEF EndRemove
  <1>9. ASSUME NEW c \in Call, ProcessIOException(c) PROVE CallInv'
    BY <1>9 DEF ProcessIOException
  <1>. QED BY <1>1, <1>2, <1>3, <1>4, <1>5, <1>6, <1>7, <1>8, <1>9
           DEF Next, ThreadStep, ListenerStep

-----------------------------------------------------------------------------
(* The map                                                                 *)

(* A change that begins forgets at most its own earlier race.              *)
LEMMA RacedKeeps ==
  ASSUME NEW change, BeginChange(change), NEW other, other # change, other \in raced
  PROVE  other \in raced'
  BY DEF BeginChange

(* An event finds an undisturbed call that has no value yet in the map.    *)
LEMMA ProcessEventMap ==
  ASSUME PoolInv, RequesterAssumption, CallInv, MapInv, NEW c \in Call,
         NEW m \in Message, ProcessEvent(c, m)
  PROVE  MapInv'
  <1>. USE DEF PoolInv, TypeOK, MapInv, CallMap, Undisturbed, Entered
  <1>1. /\ UNCHANGED <<thread, value, responseMap, raced>>
        /\ \A d \in Call \ {c} : listener'[d] = listener[d] /\ received'[d] = received[d]
        /\ received'[c] = received[c] \cup {m} /\ received[c] \subseteq received'[c]
        /\ listener[c] = "idle"
        /\ listener'[c] = IF c \in responseMap THEN "found" ELSE "missed"
        /\ early' = IF Entered(c) THEN early ELSE early \cup {c}
    BY DEF ProcessEvent, poolVars
  <1>2. ASSUME NEW d \in Call \ {c} PROVE CallMap(d)'
    BY <1>1, <1>2
  <1>3. CallMap(c)'
    BY <1>1
  <1>. QED BY <1>2, <1>3

(* A listener that found its call sets the value, and one that missed it   *)
(* leaves it alone; both go on to remove the entry.                        *)
LEMMA HandleEventMap ==
  ASSUME PoolInv, RequesterAssumption, CallInv, MapInv, NEW c \in Call, HandleEvent(c)
  PROVE  MapInv'
  <1>. USE DEF PoolInv, TypeOK, MapInv, CallMap, Undisturbed, Entered
  <1>1. /\ UNCHANGED <<thread, responseMap, early, received>>
        /\ \A d \in Call \ {c} : listener'[d] = listener[d] /\ value'[d] = value[d]
    BY DEF HandleEvent, SetValue, poolVars
  <1>2. \A other : other # <<"remove", c>> /\ other \in raced => other \in raced'
    BY RacedKeeps DEF HandleEvent
  <1>3. event[c] \in received[c] /\ event[c] # NoMessage
    BY DEF HandleEvent, CallInv, RequesterAssumption
  <1>4. \/ /\ listener[c] = "found" /\ event[c] \in Uncoded
           /\ listener'[c] = "idle" /\ value'[c] = value[c]
        \/ /\ listener[c] = "found" /\ listener'[c] = "removing" /\ value'[c] = event[c]
        \/ /\ listener[c] = "missed" /\ listener'[c] = "removing" /\ value'[c] = value[c]
    BY DEF HandleEvent, SetValue
  <1>5. ASSUME NEW d \in Call \ {c} PROVE CallMap(d)'
    BY <1>1, <1>2, <1>5
  <1>6. CallMap(c)'
    BY <1>1, <1>2, <1>3, <1>4
  <1>. QED BY <1>5, <1>6

LEMMA MapNext ==
  ASSUME PoolInv, RequesterAssumption, CallInv, MapInv, Next
  PROVE  MapInv'
  <1>. USE DEF PoolInv, TypeOK, MapInv, CallMap, Undisturbed, Entered, poolVars, sipVars
  <1>1. ASSUME NEW c \in Call, CallSendMessage(c) \/ SendRequest(c) PROVE MapInv'
    BY <1>1 DEF CallSendMessage, SendRequest, Advance
  <1>2. ASSUME NEW c \in Call, Execute(c) PROVE MapInv'
    BY <1>2 DEF Execute, Advance
  <1>3. ASSUME NEW c \in Call, BeginPut(c) PROVE MapInv'
    <2>1. \A other : other # <<"put", c>> /\ other \in raced => other \in raced'
      BY <1>3, RacedKeeps DEF BeginPut
    <2>2. /\ UNCHANGED <<value, responseMap, listener, early, received>>
          /\ thread[c] = "queued" /\ thread'[c] = "putting"
          /\ \A d \in Call \ {c} : thread'[d] = thread[d]
      BY <1>3 DEF BeginPut, Advance
    <2>3. ASSUME NEW d \in Call \ {c} PROVE CallMap(d)'
      BY <2>1, <2>2, <2>3
    <2>4. CallMap(c)'
      BY <2>1, <2>2
    <2>. QED BY <2>3, <2>4
  <1>4. ASSUME NEW c \in Call, EndPut(c) PROVE MapInv'
    BY <1>4 DEF EndPut, Advance, EndChange
  <1>5. ASSUME NEW c \in Call, Reply(c) PROVE MapInv'
    BY <1>5 DEF Reply, Advance
  <1>6. ASSUME NEW c \in Call, Finish(c) PROVE MapInv'
    BY <1>6 DEF Finish
  <1>7. ASSUME NEW c \in Call, EndRemove(c) PROVE MapInv'
    <2>1. /\ UNCHANGED <<thread, value, raced, early, received>>
          /\ listener[c] = "removing" /\ listener'[c] = "idle"
          /\ \A d \in Call \ {c} : listener'[d] = listener[d]
      BY <1>7 DEF EndRemove
    <2>2. \/ responseMap' = responseMap \ {c}
          \/ <<"remove", c>> \in raced /\ responseMap' = responseMap
      BY <1>7 DEF EndRemove, EndChange, Removed
    <2>3. received[c] # {}
      BY <2>1 DEF CallInv
    <2>4. ASSUME NEW d \in Call \ {c} PROVE CallMap(d)'
      BY <2>1, <2>2, <2>4
    <2>5. CallMap(c)'
      BY <2>1, <2>2, <2>3
    <2>. QED BY <2>4, <2>5
  <1>8. ASSUME NEW c \in Call, ProcessIOException(c) PROVE MapInv'
    BY <1>8 DEF ProcessIOException
  <1>. QED BY <1>1, <1>2, <1>3, <1>4, <1>5, <1>6, <1>7, <1>8, ProcessEventMap,
              HandleEventMap DEF Next, ThreadStep, ListenerStep

-----------------------------------------------------------------------------
IInv == PoolInv /\ CallInv /\ MapInv

LEMMA InitInv == Init => IInv
  <1>. SUFFICES ASSUME Init PROVE IInv
    OBVIOUS
  <1>. USE DEF Init
  <1>1. IsFiniteSet(workers) /\ Cardinality(workers) = 0
    BY FS_EmptySet
  <1>2. PoolInv
    BY <1>1, RequesterAssumption
       DEF PoolInv, TypeOK, RequesterAssumption, Thread, Transaction, Listener, MapChange
  <1>3. CallInv
    BY DEF CallInv
  <1>4. MapInv
    BY DEF MapInv, CallMap, Undisturbed, Entered
  <1>. QED BY <1>2, <1>3, <1>4 DEF IInv

LEMMA NextInv == IInv /\ [Next]_vars => IInv'
  <1>. USE RequesterAssumption
  <1>1. IInv /\ Next => IInv'
    BY PoolNext, CallNext, MapNext DEF IInv
  <1>2. IInv /\ UNCHANGED vars => IInv'
    BY DEF IInv, PoolInv, TypeOK, CallInv, MapInv, CallMap, Undisturbed, Entered, vars
  <1>. QED BY <1>1, <1>2

(* Types of the Requester; the pool never has more than PoolSize tasks in  *)
(* progress, however many calls arrive.                                    *)
THEOREM TypeCorrect == Spec => []TypeOK
  <1>1. IInv => TypeOK
    BY DEF IInv, PoolInv
  <1>. QED BY InitInv, NextInv, <1>1, PTL DEF Spec

(* A call waits for ever only when its request was not sent, its transport *)
(* failed, an event came before its entry in responseMap, the response has *)
(* no ResponseCode, or the put of its entry overlapped with another change *)
(* of the map.                                                             *)
THEOREM DeafExplained == Spec => []OnlyTheseAreDeaf
  <1>1. IInv => OnlyTheseAreDeaf
    <2>. SUFFICES ASSUME IInv, NEW c \in Call, Deaf(c),
                         transaction[c] \notin {"none", "failed"},
                         Undisturbed(c)
                  PROVE  FALSE
      BY DEF OnlyTheseAreDeaf, Undisturbed
    <2>1. transaction[c] = "over" /\ value[c] = NoMessage /\ listener[c] = "idle"
      BY DEF Deaf, IInv, PoolInv, TypeOK, Transaction
    <2>2. received[c] # {}
      BY <2>1 DEF IInv, CallInv
    <2>. QED BY <2>1, <2>2 DEF IInv, MapInv, CallMap
  <1>. QED BY InitInv, NextInv, <1>1, PTL DEF Spec

(* An answered call leaves no entry in responseMap, unless the removal     *)
(* overlapped with another change of the map.                              *)
THEOREM EntriesRemoved == Spec => []NoEntryLeaks
  <1>1. IInv => NoEntryLeaks
    BY DEF IInv, CallInv, MapInv, CallMap, NoEntryLeaks
  <1>. QED BY InitInv, NextInv, <1>1, PTL DEF Spec

-----------------------------------------------------------------------------
(* The promise of SendMessage                                              *)

(* The status Requester gives a call of SendMessage.                       *)
StatusOf(th) == IF th \in {"unsent", "answered", "refused"} THEN th ELSE "pending"
CallStatus == [c \in Call |-> StatusOf(thread[c])]

LEMMA PromiseVars ==
  UNCHANGED <<CallStatus, received, reply>> => UNCHANGED Promise!sendVars
  BY DEF Promise!sendVars, CallStatus, StatusOf

LEMMA PromiseInit == Init => Promise!SendInit
  BY DEF Init, Promise!SendInit

(* The steps of SendMessage, for the status of Requester.                  *)
LEMMA PromiseBegin ==
  ASSUME NEW c \in Call, CallStatus[c] = "unsent",
         CallStatus' = [CallStatus EXCEPT ![c] = "pending"],
         UNCHANGED <<received, reply>>
  PROVE  Promise!SendNext
  <1>1. CallStatus' = [d \in Call |-> IF d \in {c} THEN "pending" ELSE CallStatus[d]]
    BY DEF CallStatus
  <1>2. Promise!Begin({c})
    BY <1>1 DEF Promise!Begin, CallStatus, StatusOf
  <1>. QED BY <1>2 DEF Promise!SendNext

LEMMA PromiseReceive ==
  ASSUME NEW c \in Call, NEW m \in Message, CallStatus[c] \in {"pending", "answered"},
         m \notin received[c], received[c] \subseteq Provisional,
         received' = [received EXCEPT ![c] = @ \cup {m}],
         UNCHANGED <<CallStatus, reply>>
  PROVE  Promise!SendNext
  <1>1. Promise!Receive(c, m)
    BY DEF Promise!Receive, CallStatus, StatusOf
  <1>. QED BY <1>1 DEF Promise!SendNext

LEMMA PromiseAnswer ==
  ASSUME NEW c \in Call, NEW m \in Message, CallStatus[c] = "pending",
         m \in received[c],
         CallStatus' = [CallStatus EXCEPT ![c] = "answered"],
         reply' = [reply EXCEPT ![c] = m], UNCHANGED received
  PROVE  Promise!SendNext
  <1>1. Promise!Answer(c, m)
    BY DEF Promise!Answer, CallStatus, StatusOf
  <1>. QED BY <1>1 DEF Promise!SendNext

LEMMA PromiseRefuse ==
  ASSUME NEW c \in Call, CallStatus[c] = "pending", received[c] = {},
         CallStatus' = [CallStatus EXCEPT ![c] = "refused"],
         UNCHANGED <<received, reply>>
  PROVE  Promise!SendNext
  <1>1. Promise!Refuse(c)
    BY DEF Promise!Refuse, CallStatus, StatusOf
  <1>. QED BY <1>1 DEF Promise!SendNext

(* How a step of the gRPC thread of a call changes the status.             *)
LEMMA AdvanceStatus ==
  ASSUME TypeOK, NEW c \in Call, NEW from, NEW to, Advance(c, from, to)
  PROVE  /\ CallStatus[c] = StatusOf(from)
         /\ CallStatus' = [CallStatus EXCEPT ![c] = StatusOf(to)]
  BY DEF Advance, CallStatus, TypeOK

LEMMA AdvanceStutters ==
  ASSUME TypeOK, NEW c \in Call, NEW from, NEW to, Advance(c, from, to),
         StatusOf(from) = StatusOf(to)
  PROVE  UNCHANGED CallStatus
  BY DEF Advance, CallStatus, TypeOK

(* Every step of Requester is a step of SendMessage or leaves its          *)
(* variables alone.                                                        *)
LEMMA PromiseStep ==
  ASSUME IInv, RequesterAssumption, Next
  PROVE  Promise!SendNext \/ UNCHANGED <<CallStatus, received, reply>>
  <1>. USE DEF IInv, PoolInv, RequesterAssumption, poolVars, sipVars
  <1>1. ASSUME NEW c \in Call, CallSendMessage(c) PROVE Promise!SendNext
    <2>1. /\ CallStatus[c] = "unsent"
          /\ CallStatus' = [CallStatus EXCEPT ![c] = "pending"]
      BY <1>1, AdvanceStatus DEF CallSendMessage, StatusOf
    <2>. QED BY <1>1, <2>1, PromiseBegin DEF CallSendMessage
  <1>2. ASSUME NEW c \in Call, SendRequest(c)
        PROVE  Promise!SendNext \/ UNCHANGED <<CallStatus, received, reply>>
    <2>1. CASE Advance(c, "called", "sent") \/ Advance(c, "called", "silent")
      BY <1>2, <2>1, AdvanceStutters DEF SendRequest, StatusOf
    <2>2. CASE Advance(c, "called", "refused")
      <3>1. /\ CallStatus[c] = "pending"
            /\ CallStatus' = [CallStatus EXCEPT ![c] = "refused"]
        BY <2>2, AdvanceStatus DEF StatusOf
      <3>2. received[c] = {}
        BY <2>2 DEF Advance, CallInv
      <3>. QED BY <1>2, <3>1, <3>2, PromiseRefuse DEF SendRequest
    <2>. QED BY <1>2, <2>1, <2>2 DEF SendRequest
  <1>3. ASSUME NEW c \in Call, Execute(c) \/ BeginPut(c) \/ EndPut(c)
        PROVE  UNCHANGED <<CallStatus, received, reply>>
    BY <1>3, AdvanceStutters DEF Execute, BeginPut, EndPut, StatusOf
  <1>4. ASSUME NEW c \in Call, Reply(c) PROVE Promise!SendNext
    <2>1. /\ CallStatus[c] = "pending"
          /\ CallStatus' = [CallStatus EXCEPT ![c] = "answered"]
      BY <1>4, AdvanceStatus DEF Reply, StatusOf
    <2>2. future[c] \in received[c] /\ future[c] \in Message
      BY <1>4 DEF Reply, CallInv, TypeOK
    <2>. QED BY <1>4, <2>1, <2>2, PromiseAnswer DEF Reply
  <1>5. ASSUME NEW c \in Call, NEW m \in Message, ProcessEvent(c, m)
        PROVE  Promise!SendNext
    <2>1. CallStatus[c] \in {"pending", "answered"} /\ received[c] \subseteq Provisional
      BY <1>5 DEF ProcessEvent, CallInv, CallStatus, StatusOf, TypeOK, Thread
    <2>2. UNCHANGED <<CallStatus, reply>>
      BY <1>5 DEF ProcessEvent, CallStatus
    <2>. QED BY <1>5, <2>1, <2>2, PromiseReceive DEF ProcessEvent
  <1>6. ASSUME NEW c \in Call,
               Finish(c) \/ HandleEvent(c) \/ EndRemove(c) \/ ProcessIOException(c)
        PROVE  UNCHANGED <<CallStatus, received, reply>>
    BY <1>6 DEF Finish, HandleEvent, EndRemove, ProcessIOException, CallStatus
  <1>. QED BY <1>1, <1>2, <1>3, <1>4, <1>5, <1>6 DEF Next, ThreadStep, ListenerStep

(* The Requester implements SendMessage: a call is answered once at most,  *)
(* with a message of its own transaction, and refused only before its      *)
(* request is sent.                                                        *)
THEOREM Implements == Spec => KeepsPromise
  <1>. USE RequesterAssumption
  <1>1. IInv /\ [Next]_vars => [Promise!SendNext]_(Promise!sendVars)
    <2>. SUFFICES ASSUME IInv, [Next]_vars
                  PROVE  Promise!SendNext \/ UNCHANGED Promise!sendVars
      OBVIOUS
    <2>1. CASE Next
      BY <2>1, PromiseStep, PromiseVars
    <2>2. CASE UNCHANGED vars
      BY <2>2, PromiseVars DEF vars, CallStatus
    <2>. QED BY <2>1, <2>2
  <1>. QED BY InitInv, NextInv, PromiseInit, <1>1, PTL
           DEF Spec, KeepsPromise, Promise!SendSpec
=============================================================================
