--------------------------- MODULE EdgePortProofs ---------------------------
(***************************************************************************)
(* Proofs about EdgePort, for every call and every bound.                  *)
(*                                                                         *)
(* IInv ties the two entries of the call to the transactions that exist;   *)
(* it gives TypeOK and NoEntryLeaks.  CallInv follows each request, from   *)
(* the queue to its responses, and ties the entries to the request that    *)
(* was forwarded last; it gives the properties about responses, CANCEL and *)
(* ACK.  Nothing that happened is undone, so each step is described by     *)
(* what it adds: HandlerEffect for the listener, StackEffect for the rest. *)
(***************************************************************************)
EXTENDS EdgePort, TLAPS

(* An entry whose transaction is over is about to be removed: the event of *)
(* its end still waits.                                                    *)
Announced(t, q) ==
  \E n \in DOMAIN q : q[n] = [type |-> "terminated", tx |-> t]

EndAnnounced ==
  /\ client # None /\ state[client] = "over" => Announced(client, queue)
  /\ server # None /\ state[server] = "over" => Announced(server, queue)

IInv == TypeOK /\ EndAnnounced

(* What a handler does to the transactions and to the entries: it opens    *)
(* and closes transactions, which the stack alone brings to their end, and *)
(* keeps, forgets or stores an entry, a new one for an open transaction.   *)
StateStep ==
  /\ state' \in [Tx -> TxState]
  /\ \A t \in Tx : state'[t] = "over" => state[t] = "over"
  /\ \A t \in Tx : state[t] # "none" => state'[t] # "none"

EntryStep ==
  /\ client' \in {client, None} \cup {t \in Tx : t[2] # "server" /\ state'[t] = "open"}
  /\ server' \in {server, None} \cup {t \in Tx : t[2] = "server" /\ state'[t] = "open"}

OutputsOK ==
  /\ arrived \subseteq Request /\ relayed \subseteq Relayed
  /\ cancelled \subseteq CancelRequests \X Tx
  /\ acked \subseteq Acks \X BOOLEAN
  /\ forwarded \in Seq(Request) /\ faults \subseteq Request
  /\ events \subseteq {"started", "ended"}

HandlerStep == StateStep /\ EntryStep /\ OutputsOK'

-----------------------------------------------------------------------------
(* The transactions of a request, and the request of a transaction.        *)
LEMMA TxParts ==
  /\ \A r \in Request : /\ Server(r) \in Tx /\ Server(r)[1] = r /\ Server(r)[2] = "server"
                        /\ Client(r) \in Tx /\ Client(r)[1] = r /\ Client(r)[2] = "client"
                        /\ Retry(r) \in Tx /\ Retry(r)[1] = r /\ Retry(r)[2] = "retry"
  /\ \A t \in Tx : t[1] \in Request
  /\ \A t \in Tx : t[2] = "server" => t = Server(t[1])
  BY DEF Tx, Server, Client, Retry

(* What the listener takes from the queue.                                 *)
LEMMA HeadType ==
  ASSUME NEW q \in Seq(Event), q # <<>>
  PROVE  /\ Tail(q) \in Seq(Event)
         /\ Head(q).type = "request" => Head(q).request \in Request
         /\ Head(q).type = "response" => Head(q).tx \in Tx /\ Head(q).code \in Code
  <1>1. Head(q) \in Event /\ Tail(q) \in Seq(Event)
    OBVIOUS
  <1>. QED BY <1>1 DEF Event

(* An announced end stays announced while other events are taken.          *)
LEMMA TailAnnounced ==
  ASSUME NEW q \in Seq(Event), q # <<>>, Head(q).type # "terminated",
         NEW t, Announced(t, q)
  PROVE  Announced(t, Tail(q))
  <1>1. PICK n \in DOMAIN q : q[n] = [type |-> "terminated", tx |-> t]
    BY DEF Announced
  <1>2. n \in 1..Len(q) /\ n # 1
    BY <1>1
  <1>3. n - 1 \in DOMAIN Tail(q) /\ Tail(q)[n - 1] = q[n]
    BY <1>2
  <1>. QED BY <1>1, <1>3 DEF Announced

(* An announced end stays announced when an event is added, and the event  *)
(* added is announced.                                                     *)
LEMMA AppendAnnounced ==
  ASSUME NEW q \in Seq(Event), NEW e \in Event, NEW t,
         Announced(t, q) \/ e = [type |-> "terminated", tx |-> t]
  PROVE  Announced(t, Append(q, e))
  <1>1. CASE Announced(t, q)
    <2>1. PICK n \in DOMAIN q : q[n] = [type |-> "terminated", tx |-> t]
      BY <1>1 DEF Announced
    <2>2. n \in DOMAIN Append(q, e) /\ Append(q, e)[n] = q[n]
      BY <2>1
    <2>. QED BY <2>1, <2>2 DEF Announced
  <1>2. CASE e = [type |-> "terminated", tx |-> t]
    <2>1. Len(q) + 1 \in DOMAIN Append(q, e) /\ Append(q, e)[Len(q) + 1] = e
      OBVIOUS
    <2>. QED BY <1>2, <2>1 DEF Announced
  <1>. QED BY <1>1, <1>2

-----------------------------------------------------------------------------
(* A handler of any event but the end of a transaction preserves the       *)
(* invariant: it cannot bring a transaction to its end.                    *)
LEMMA HandlerPreserves ==
  ASSUME IInv, queue # <<>>, Head(queue).type # "terminated",
         queue' = Tail(queue), HandlerStep
  PROVE  IInv'
  <1>. USE DEF IInv, HandlerStep
  <1>1. queue \in Seq(Event) /\ queue' \in Seq(Event)
    BY HeadType DEF TypeOK
  <1>2. TypeOK'
    <2>1. client' \in {t \in Tx : t[2] # "server" /\ state'[t] # "none"} \cup {None}
      BY DEF TypeOK, EntryStep, StateStep
    <2>2. server' \in {t \in Tx : t[2] = "server" /\ state'[t] # "none"} \cup {None}
      BY DEF TypeOK, EntryStep, StateStep
    <2>3. state' \in [Tx -> TxState]
      BY DEF StateStep
    <2>. QED BY <1>1, <2>1, <2>2, <2>3 DEF TypeOK, OutputsOK
  <1>3. ASSUME client' # None, state'[client'] = "over"
        PROVE  Announced(client', queue')
    <2>1. client' = client /\ client \in Tx /\ state[client] = "over"
      BY <1>3 DEF EntryStep, StateStep, TypeOK
    <2>2. Announced(client, queue)
      BY <1>3, <2>1 DEF EndAnnounced
    <2>. QED BY <1>1, <2>1, <2>2, TailAnnounced
  <1>4. ASSUME server' # None, state'[server'] = "over"
        PROVE  Announced(server', queue')
    <2>1. server' = server /\ server \in Tx /\ state[server] = "over"
      BY <1>4 DEF EntryStep, StateStep, TypeOK
    <2>2. Announced(server, queue)
      BY <1>4, <2>1 DEF EndAnnounced
    <2>. QED BY <1>1, <2>1, <2>2, TailAnnounced
  <1>. QED BY <1>2, <1>3, <1>4 DEF EndAnnounced

(* The end of a transaction, a timeout included, empties both entries.     *)
LEMMA RemovalPreserves ==
  ASSUME IInv, queue # <<>>, queue' = Tail(queue), removeTransactions,
         UNCHANGED <<state, arrived, outputs>>
  PROVE  IInv'
  <1>1. queue' \in Seq(Event)
    BY HeadType DEF IInv, TypeOK
  <1>. QED BY <1>1 DEF IInv, TypeOK, EndAnnounced, removeTransactions, outputs

(* A step of the stack that adds an event, and closes an open transaction  *)
(* or ends one and says so, preserves the invariant.                       *)
LEMMA StackPreserves ==
  ASSUME IInv, NEW e \in Event, queue' = Append(queue, e), UNCHANGED pair,
         OutputsOK', state' \in [Tx -> TxState],
         \A t \in Tx : state[t] # "none" => state'[t] # "none",
         \A t \in Tx : state'[t] = "over" =>
           state[t] = "over" \/ e = [type |-> "terminated", tx |-> t]
  PROVE  IInv'
  <1>. USE DEF IInv, pair
  <1>1. queue \in Seq(Event) /\ queue' \in Seq(Event)
    BY DEF TypeOK
  <1>2. TypeOK'
    BY <1>1 DEF TypeOK, OutputsOK
  <1>3. ASSUME client # None, state'[client] = "over"
        PROVE  Announced(client, queue')
    <2>1. client \in Tx
      BY <1>3 DEF TypeOK
    <2>2. Announced(client, queue) \/ e = [type |-> "terminated", tx |-> client]
      BY <1>3, <2>1 DEF EndAnnounced
    <2>. QED BY <1>1, <2>2, AppendAnnounced
  <1>4. ASSUME server # None, state'[server] = "over"
        PROVE  Announced(server, queue')
    <2>1. server \in Tx
      BY <1>4 DEF TypeOK
    <2>2. Announced(server, queue) \/ e = [type |-> "terminated", tx |-> server]
      BY <1>4, <2>1 DEF EndAnnounced
    <2>. QED BY <1>1, <2>2, AppendAnnounced
  <1>. QED BY <1>2, <1>3, <1>4 DEF EndAnnounced

-----------------------------------------------------------------------------
(* A response is one of the responses senders of requests receive.         *)
LEMMA ResponseType ==
  ASSUME NEW t \in Tx \cup {None}, NEW r \in Request, NEW c \in Code,
         NEW same \in BOOLEAN
  PROVE  Response(t, r, c, same) \in Relayed
  BY DEF Response, Relayed

(* Sending a response closes at most a transaction that was open.          *)
LEMMA SendOnType ==
  ASSUME NEW t \in Tx \cup {None}, NEW r \in Request, NEW c \in Code,
         relayed \subseteq Relayed, NEW st \in [Tx -> TxState], SendOn(r, t, c, st)
  PROVE  /\ state' \in [Tx -> TxState] /\ relayed' \subseteq Relayed
         /\ \A x \in Tx : state'[x] = "over" => st[x] = "over"
         /\ \A x \in Tx : st[x] # "none" => state'[x] # "none"
  <1>1. Response(t, r, c, TRUE) \in Relayed
    BY ResponseType
  <1>2. Server(r) \in Tx
    BY TxParts
  <1>. QED BY <1>1, <1>2 DEF SendOn, TxState

(* A new transaction is open.                                              *)
LEMMA OpenedType ==
  ASSUME state \in [Tx -> TxState], NEW t \in Tx
  PROVE  /\ Opened(t) \in [Tx -> TxState] /\ Opened(t)[t] = "open"
         /\ \A x \in Tx : Opened(t)[x] = "over" => state[x] = "over"
         /\ \A x \in Tx : state[x] # "none" => Opened(t)[x] # "none"
  BY DEF Opened, TxState

-----------------------------------------------------------------------------
(* The handlers of a request.                                              *)

LEMMA DispatchFailsStep ==
  ASSUME TypeOK, EdgePortAssumption, NEW r \in Request, DispatchFails(r)
  PROVE  HandlerStep
  <1>1. Server(r) \in Tx
    BY TxParts
  <1>2. StateStep
    BY <1>1, OpenedType DEF DispatchFails, TypeOK, StateStep
  <1>. QED BY <1>2 DEF DispatchFails, Fault, TypeOK, HandlerStep, EntryStep, pair, OutputsOK

LEMMA AnswerLocallyStep ==
  ASSUME TypeOK, NEW r \in Request, AnswerLocally(r)
  PROVE  HandlerStep
  <1>. DEFINE st == Opened(Server(r))
  <1>1. /\ st \in [Tx -> TxState]
        /\ \A x \in Tx : st[x] = "over" => state[x] = "over"
        /\ \A x \in Tx : state[x] # "none" => st[x] # "none"
    BY TxParts, OpenedType DEF TypeOK
  <1>2. PICK c \in {"ok", "reject"} : SendOn(r, None, c, st)
    BY DEF AnswerLocally
  <1>3. c \in Code
    BY DEF Code, Final
  <1>. HIDE DEF st
  <1>4. /\ state' \in [Tx -> TxState] /\ relayed' \subseteq Relayed
        /\ \A x \in Tx : state'[x] = "over" => st[x] = "over"
        /\ \A x \in Tx : st[x] # "none" => state'[x] # "none"
    BY <1>1, <1>2, <1>3, SendOnType DEF TypeOK
  <1>5. StateStep
    BY <1>1, <1>4 DEF StateStep
  <1>. QED BY <1>4, <1>5 DEF AnswerLocally, TypeOK, HandlerStep, EntryStep, pair, OutputsOK

LEMMA ForwardStep ==
  ASSUME TypeOK, EdgePortAssumption, NEW r \in Request, Forward(r)
  PROVE  HandlerStep
  <1>1. /\ Server(r) \in Tx /\ Server(r)[2] = "server"
        /\ Client(r) \in Tx /\ Client(r)[2] = "client"
    BY TxParts
  <1>2. events' \subseteq {"started", "ended"} /\ UNCHANGED <<arrived, relayed, cancelled, acked>>
    BY DEF Forward, TypeOK
  <1>3. CASE /\ state' = [state EXCEPT ![Server(r)] = "open", ![Client(r)] = "open"]
             /\ putTransactions(r)
             /\ forwarded' = Append(forwarded, r)
             /\ UNCHANGED faults
    <2>1. StateStep
      BY <1>1, <1>3 DEF TypeOK, StateStep, TxState
    <2>2. state'[Server(r)] = "open" /\ state'[Client(r)] = "open"
      BY <1>1, <1>3 DEF TypeOK
    <2>3. EntryStep
      BY <1>1, <1>3, <2>2 DEF EntryStep, putTransactions
    <2>. QED BY <1>2, <1>3, <2>1, <2>3 DEF TypeOK, HandlerStep, OutputsOK
  <1>4. CASE /\ state' = Opened(Server(r))
             /\ Fault(r)
             /\ UNCHANGED <<pair, forwarded>>
    <2>1. StateStep
      BY <1>1, <1>4, OpenedType DEF TypeOK, StateStep
    <2>. QED BY <1>2, <1>4, <2>1 DEF Fault, TypeOK, HandlerStep, EntryStep, pair, OutputsOK
  <1>. QED BY <1>3, <1>4 DEF Forward

LEMMA ForwardAckStep ==
  ASSUME TypeOK, NEW r \in Request, ForwardAck(r)
  PROVE  HandlerStep
  <1>. DEFINE increased == client # None /\ client[1] \in Accounts
  <1>1. acked' = acked \cup {<<r, increased>>} /\ r \in Acks
    BY DEF ForwardAck
  <1>2. increased \in BOOLEAN
    OBVIOUS
  <1>. HIDE DEF increased
  <1>3. acked' \subseteq Acks \X BOOLEAN
    BY <1>1, <1>2 DEF TypeOK
  <1>. QED BY <1>3 DEF ForwardAck, TypeOK, HandlerStep, StateStep, EntryStep, pair, OutputsOK

(* What the cancellation of a call does.                                   *)
LEMMA CancelCallType ==
  ASSUME TypeOK, NEW r \in CancelRequests, NEW c \in Code, NEW getsOn \in BOOLEAN,
         getsOn => client # None, CancelCall(r, c, getsOn)
  PROVE  /\ StateStep /\ relayed' \subseteq Relayed
         /\ cancelled' \subseteq CancelRequests \X Tx
  <1>0. PICK found \in BOOLEAN :
          LET cancels == getsOn /\ found /\ client[1] \in Invites
              terminates == cancels /\ server # None /\ state[server] = "open"
          IN  /\ state' = [t \in Tx |->
                   CASE t = Server(r) -> "closed"
                     [] t = Client(r) /\ cancels -> "open"
                     [] t = server /\ terminates -> "closed"
                     [] OTHER -> state[t]]
              /\ cancelled' = cancelled \cup IF cancels THEN {<<r, client>>} ELSE {}
              /\ relayed' = relayed \cup {Response(None, r, c, TRUE)} \cup
                   IF terminates THEN {Response(None, server[1], "terminated", TRUE)}
                                 ELSE {}
    BY DEF CancelCall
  <1>. DEFINE cancels == getsOn /\ found /\ client[1] \in Invites
              terminates == cancels /\ server # None /\ state[server] = "open"
  <1>1. r \in Request
    BY DEF CancelRequests
  <1>2. StateStep
    BY <1>0 DEF TypeOK, StateStep, TxState
  <1>3. cancels => client \in Tx
    BY DEF TypeOK
  <1>4. cancelled' = cancelled \cup IF cancels THEN {<<r, client>>} ELSE {}
    BY <1>0
  <1>5. relayed' = relayed \cup {Response(None, r, c, TRUE)} \cup
           IF terminates THEN {Response(None, server[1], "terminated", TRUE)}
                         ELSE {}
    BY <1>0
  <1>6. terminates => server[1] \in Request
    BY TxParts DEF TypeOK
  <1>7. "terminated" \in Code
    BY DEF Code, Final
  <1>. HIDE DEF cancels, terminates
  <1>8. relayed' \subseteq Relayed
    <2>1. Response(None, r, c, TRUE) \in Relayed
      BY <1>1, ResponseType
    <2>2. terminates => Response(None, server[1], "terminated", TRUE) \in Relayed
      BY <1>6, <1>7, ResponseType
    <2>3. relayed \subseteq Relayed
      BY DEF TypeOK
    <2>. QED BY <1>5, <2>1, <2>2, <2>3
  <1>9. cancelled' \subseteq CancelRequests \X Tx
    BY <1>3, <1>4 DEF TypeOK
  <1>. QED BY <1>2, <1>8, <1>9

LEMMA ForwardCancelStep ==
  ASSUME TypeOK, NEW r \in Request, ForwardCancel(r)
  PROVE  HandlerStep
  <1>1. r \in CancelRequests /\ "ok" \in Code
    BY DEF ForwardCancel, Code, Final
  <1>2. CancelCall(r, "ok", client # None /\ server # None)
    BY DEF ForwardCancel
  <1>3. /\ StateStep /\ relayed' \subseteq Relayed
        /\ cancelled' \subseteq CancelRequests \X Tx
    BY <1>1, <1>2, CancelCallType
  <1>. QED BY <1>3 DEF ForwardCancel, TypeOK, HandlerStep, EntryStep, pair, OutputsOK

LEMMA AnswerCancelStep ==
  ASSUME TypeOK, NEW r \in Request, AnswerCancel(r)
  PROVE  HandlerStep
  <1>1. r \in CancelRequests /\ "reject" \in Code
    BY DEF AnswerCancel, Code, Final
  <1>2. PICK h \in BOOLEAN : CancelCall(r, "reject", client # None /\ h)
    BY DEF AnswerCancel
  <1>3. /\ StateStep /\ relayed' \subseteq Relayed
        /\ cancelled' \subseteq CancelRequests \X Tx
    BY <1>1, <1>2, CancelCallType
  <1>. QED BY <1>3 DEF AnswerCancel, TypeOK, HandlerStep, EntryStep, pair, OutputsOK

-----------------------------------------------------------------------------
(* The handlers of a response.                                             *)

LEMMA AuthenticateStep ==
  ASSUME TypeOK, EdgePortAssumption, NEW t \in Tx, NEW c \in Code, Authenticate(t, c)
  PROVE  HandlerStep
  <1>1. t[1] \in Request
    BY TxParts
  <1>2. Retry(t[1]) \in Tx /\ Retry(t[1])[2] = "retry"
    BY <1>1, TxParts
  <1>3. CASE /\ state' = Opened(Retry(t[1]))
             /\ updateClientTransaction(Retry(t[1]))
             /\ UNCHANGED faults
    <2>1. StateStep /\ state'[Retry(t[1])] = "open"
      BY <1>2, <1>3, OpenedType DEF TypeOK, StateStep
    <2>2. EntryStep
      BY <1>2, <1>3, <2>1 DEF EntryStep, updateClientTransaction
    <2>. QED BY <1>3, <2>1, <2>2 DEF Authenticate, TypeOK, HandlerStep, OutputsOK
  <1>4. CASE Fault(t[1]) /\ UNCHANGED <<state, pair>>
    BY <1>4 DEF Authenticate, Fault, TypeOK, HandlerStep, StateStep, EntryStep, pair, OutputsOK
  <1>. QED BY <1>3, <1>4 DEF Authenticate

LEMMA RelayType ==
  ASSUME TypeOK, NEW t \in Tx, NEW c \in Code, Relay(t, c)
  PROVE  StateStep /\ relayed' \subseteq Relayed
  <1>1. CASE server # None /\ SendOn(server[1], t, c, state)
    <2>1. server[1] \in Request
      BY <1>1, TxParts DEF TypeOK
    <2>2. /\ state' \in [Tx -> TxState] /\ relayed' \subseteq Relayed
          /\ \A x \in Tx : state'[x] = "over" => state[x] = "over"
          /\ \A x \in Tx : state[x] # "none" => state'[x] # "none"
      BY <1>1, <2>1, SendOnType DEF TypeOK
    <2>. QED BY <2>2 DEF StateStep
  <1>2. CASE /\ relayed' = relayed \cup {Response(t, t[1], c, t[2] # "retry")}
             /\ UNCHANGED state
    <2>1. t[1] \in Request
      BY TxParts
    <2>2. Response(t, t[1], c, t[2] # "retry") \in Relayed
      BY <2>1, ResponseType
    <2>. QED BY <1>2, <2>2 DEF TypeOK, StateStep
  <1>. QED BY <1>1, <1>2 DEF Relay

LEMMA RelayResponseStep ==
  ASSUME TypeOK, EdgePortAssumption, NEW t \in Tx, NEW c \in Code, RelayResponse(t, c)
  PROVE  HandlerStep
  <1>1. UNCHANGED <<pair, arrived, cancelled, acked, forwarded>>
    BY DEF RelayResponse
  <1>2. CASE /\ events' = IF Ends(t, c) THEN events \cup {"ended"} ELSE events
             /\ Relay(t, c)
             /\ UNCHANGED faults
    <2>1. StateStep /\ relayed' \subseteq Relayed
      BY <1>2, RelayType
    <2>. QED BY <1>1, <1>2, <2>1 DEF TypeOK, HandlerStep, EntryStep, pair, OutputsOK
  <1>3. CASE Fault(t[1]) /\ UNCHANGED <<state, relayed, events>>
    <2>1. t[1] \in Request
      BY TxParts
    <2>. QED BY <1>1, <1>3, <2>1 DEF Fault, TypeOK, HandlerStep, StateStep, EntryStep, pair, OutputsOK
  <1>. QED BY <1>2, <1>3 DEF RelayResponse

-----------------------------------------------------------------------------
(* The events of the queue.                                                *)

LEMMA ProcessRequestPreserves ==
  ASSUME IInv, EdgePortAssumption, ProcessRequest
  PROVE  IInv'
  <1>. DEFINE r == Head(queue).request
  <1>1. queue # <<>> /\ Head(queue).type = "request" /\ queue' = Tail(queue)
    BY DEF ProcessRequest, Takes
  <1>2. r \in Request /\ TypeOK
    BY <1>1, HeadType DEF IInv, TypeOK
  <1>3. \/ DispatchFails(r) \/ AnswerLocally(r) \/ Forward(r) \/ ForwardAck(r)
        \/ ForwardCancel(r) \/ AnswerCancel(r)
    BY DEF ProcessRequest
  <1>. HIDE DEF r
  <1>4. HandlerStep
    BY <1>2, <1>3, DispatchFailsStep, AnswerLocallyStep, ForwardStep,
       ForwardAckStep, ForwardCancelStep, AnswerCancelStep
  <1>. QED BY <1>1, <1>4, HandlerPreserves

LEMMA ProcessResponsePreserves ==
  ASSUME IInv, EdgePortAssumption, ProcessResponse
  PROVE  IInv'
  <1>. DEFINE t == Head(queue).tx
              c == Head(queue).code
  <1>1. queue # <<>> /\ Head(queue).type = "response" /\ queue' = Tail(queue)
    BY DEF ProcessResponse, Takes
  <1>2. t \in Tx /\ c \in Code /\ TypeOK
    BY <1>1, HeadType DEF IInv, TypeOK
  <1>3. IgnoreResponse(t, c) \/ Authenticate(t, c) \/ RelayResponse(t, c)
    BY DEF ProcessResponse
  <1>. HIDE DEF t, c
  <1>4. IgnoreResponse(t, c) => HandlerStep
    BY <1>2 DEF IgnoreResponse, outputs, TypeOK, HandlerStep, StateStep,
                EntryStep, pair, OutputsOK
  <1>5. HandlerStep
    BY <1>2, <1>3, <1>4, AuthenticateStep, RelayResponseStep
  <1>. QED BY <1>1, <1>5, HandlerPreserves

LEMMA ProcessIOExceptionPreserves ==
  ASSUME IInv, ProcessIOException
  PROVE  IInv'
  <1>1. queue # <<>> /\ Head(queue).type = "ioerror" /\ queue' = Tail(queue)
    BY DEF ProcessIOException, Takes
  <1>2. events' \subseteq {"started", "ended"}
    BY DEF ProcessIOException, IInv, TypeOK
  <1>3. HandlerStep
    BY <1>2 DEF ProcessIOException, IInv, TypeOK, HandlerStep, StateStep,
                EntryStep, OutputsOK
  <1>. QED BY <1>1, <1>3, HandlerPreserves

LEMMA RemovalsPreserve ==
  ASSUME IInv, ProcessTimeout \/ ProcessTransactionTerminated
  PROVE  IInv'
  BY RemovalPreserves DEF ProcessTimeout, ProcessTransactionTerminated, Takes

-----------------------------------------------------------------------------
(* The steps of the stack.                                                 *)

LEMMA StackStepPreserves ==
  ASSUME IInv, EdgePortAssumption,
         \/ \E r \in Request : Arrive(r)
         \/ \E t \in Tx, c \in Code : Respond(t, c)
         \/ \E t \in Tx : Timeout(t) \/ Terminate(t)
         \/ TransportFails
  PROVE  IInv'
  <1>. USE DEF IInv, TypeOK, Enqueue, OutputsOK, outputs
  <1>1. ASSUME NEW r \in Request, Arrive(r) PROVE IInv'
    <2>1. [type |-> "request", request |-> r] \in Event
      BY DEF Event
    <2>. QED BY <1>1, <2>1, StackPreserves DEF Arrive
  <1>2. ASSUME NEW t \in Tx, NEW c \in Code, Respond(t, c) PROVE IInv'
    <2>1. [type |-> "response", tx |-> t, code |-> c] \in Event
      BY DEF Event
    <2>2. /\ state' \in [Tx -> TxState]
          /\ \A x \in Tx : state[x] # "none" => state'[x] # "none"
          /\ \A x \in Tx : state'[x] = "over" => state[x] = "over"
      BY <1>2 DEF Respond, TxState
    <2>3. UNCHANGED <<pair, arrived, outputs>>
          /\ queue' = Append(queue, [type |-> "response", tx |-> t, code |-> c])
      BY <1>2 DEF Respond
    <2>. QED BY <2>1, <2>2, <2>3, StackPreserves
  <1>3. ASSUME NEW t \in Tx, Timeout(t) PROVE IInv'
    <2>1. [type |-> "timeout", tx |-> t] \in Event /\ t[1] \in Request
      BY TxParts DEF Event
    <2>2. /\ state' \in [Tx -> TxState]
          /\ \A x \in Tx : state[x] # "none" => state'[x] # "none"
          /\ \A x \in Tx : state'[x] = "over" => state[x] = "over"
      BY <1>3 DEF Timeout, TxState
    <2>3. UNCHANGED <<pair, arrived, relayed, cancelled, acked, forwarded, events>>
          /\ queue' = Append(queue, [type |-> "timeout", tx |-> t])
          /\ faults' \subseteq Request
      BY <1>3, <2>1 DEF Timeout, Fault
    <2>. QED BY <2>1, <2>2, <2>3, StackPreserves
  <1>4. ASSUME NEW t \in Tx, Terminate(t) PROVE IInv'
    <2>1. [type |-> "terminated", tx |-> t] \in Event
      BY DEF Event
    <2>2. /\ state' \in [Tx -> TxState]
          /\ \A x \in Tx : state[x] # "none" => state'[x] # "none"
          /\ \A x \in Tx : state'[x] = "over" => state[x] = "over" \/ x = t
      BY <1>4 DEF Terminate, TxState
    <2>3. UNCHANGED <<pair, arrived, outputs>>
          /\ queue' = Append(queue, [type |-> "terminated", tx |-> t])
      BY <1>4 DEF Terminate
    <2>. QED BY <2>1, <2>2, <2>3, StackPreserves
  <1>5. ASSUME TransportFails PROVE IInv'
    <2>1. [type |-> "ioerror"] \in Event
      BY DEF Event
    <2>. QED BY <1>5, <2>1, StackPreserves DEF TransportFails, EdgePortAssumption
  <1>. QED BY <1>1, <1>2, <1>3, <1>4, <1>5

-----------------------------------------------------------------------------
LEMMA InitInv == Init => IInv
  BY DEF Init, IInv, TypeOK, EndAnnounced, Announced, TxState

LEMMA NextInv == IInv /\ [Next]_vars => IInv'
  <1>. SUFFICES ASSUME IInv, [Next]_vars PROVE IInv'
    OBVIOUS
  <1>. USE EdgePortAssumption
  <1>1. CASE UNCHANGED vars
    BY <1>1 DEF vars, pair, outputs, IInv, TypeOK, EndAnnounced, Announced
  <1>2. CASE Next
    BY <1>2, StackStepPreserves, ProcessRequestPreserves, ProcessResponsePreserves,
       RemovalsPreserve, ProcessIOExceptionPreserves DEF Next
  <1>. QED BY <1>1, <1>2

(* Type correctness of the EdgePort: whatever the order of requests,       *)
(* responses, ends of transactions and failures, each entry of the call is *)
(* a transaction of its kind that the stack knows.                         *)
THEOREM TypeCorrect == Spec => []TypeOK
  <1>1. IInv => TypeOK
    BY DEF IInv
  <1>. QED BY InitInv, NextInv, <1>1, PTL DEF Spec

(* Once every transaction of a call is over and the listener has seen it,  *)
(* the call has left no entry in the TransactionManager.                   *)
THEOREM EntriesReleased == Spec => []NoEntryLeaks
  <1>1. IInv => NoEntryLeaks
    <2>. SUFFICES ASSUME IInv, queue = <<>>,
                         \A t \in Tx : state[t] \in {"none", "over"}
                  PROVE  client = None /\ server = None
      BY DEF NoEntryLeaks
    <2>1. \A t : ~Announced(t, queue)
      BY DEF Announced
    <2>. QED BY <2>1 DEF IInv, TypeOK, EndAnnounced
  <1>. QED BY InitInv, NextInv, <1>1, PTL DEF Spec
-----------------------------------------------------------------------------
(* What happens to a call, for the properties about responses, CANCEL and  *)
(* ACK.  First the queue, as the events that wait and their order.         *)

Waits(e, q) == \E n \in DOMAIN q : q[n] = e
Once(e, q) == \A m, n \in DOMAIN q : q[m] = e /\ q[n] = e => m = n
Ahead(e, f, q) == \A m, n \in DOMAIN q : q[m] = e /\ q[n] = f => m < n

Requested(r) == [type |-> "request", request |-> r]
Responded(t, c) == [type |-> "response", tx |-> t, code |-> c]
Ended(t) == [type |-> "terminated", tx |-> t]

Closed(t) == state[t] \in {"closed", "over"}

(* The requests that were forwarded, and the last of them.                 *)
Passed == {forwarded[n] : n \in DOMAIN forwarded}
LastPassed == forwarded[Len(forwarded)]

(* An end of which the listener has taken the event.                       *)
Seen(t, q) == state[t] = "over" /\ ~Waits(Ended(t), q)

(* A request is handled once; before that it has no transaction.           *)
RequestsInv ==
  \A r \in Request :
    /\ Waits(Requested(r), queue) => r \in arrived
    /\ r \notin arrived \/ Waits(Requested(r), queue) =>
         state[Server(r)] = "none" /\ state[Client(r)] = "none" /\ state[Retry(r)] = "none"
    /\ Once(Requested(r), queue)

(* A final response closes its transaction and is the only one, and the    *)
(* event of its end comes after every response.  Only the first            *)
(* transaction of an INVITE is challenged, before there is a retry.        *)
ResponseOK(t, c) ==
  /\ t[2] # "server" /\ state[t] # "none"
  /\ c \in Final => Closed(t)
  /\ c = "challenge" => t = Client(t[1]) /\ t[1] \in Invites /\ state[Retry(t[1])] = "none"
  /\ c = "terminated" => \E r \in CancelRequests : <<r, t>> \in cancelled
  /\ ~Seen(t, queue)

ResponsesInv ==
  \A t \in Tx :
    /\ \A c \in Code :
         /\ Waits(Responded(t, c), queue) => ResponseOK(t, c)
         /\ Ahead(Responded(t, c), Ended(t), queue)
         /\ c \in Final => Once(Responded(t, c), queue)
    /\ \A c, d \in Final : Waits(Responded(t, c), queue) /\ Waits(Responded(t, d), queue) => c = d
    /\ Waits(Ended(t), queue) => state[t] = "over"
    /\ Once(Ended(t), queue)

(* A failure is remembered.                                                *)
FailuresInv ==
  \A e \in Event : Waits(e, queue) /\ e.type \in {"timeout", "ioerror"} => faults # {}

(* The transactions of the requests.                                       *)
ClientsInv ==
  /\ \A r \in Passed : /\ r \in (Invites \cup Others) \cap arrived
                       /\ state[Server(r)] # "none" /\ state[Client(r)] # "none"
  /\ \A t \in Tx : t[2] # "server" /\ state[t] # "none" => t[1] \in CancelRequests \cup Passed
  /\ \A t \in Tx : t[2] = "retry" /\ state[t] # "none" =>
       t[1] \in Accounts /\ Closed(Client(t[1]))

(* The pair: the server transaction of the request forwarded last, and its *)
(* client transaction or a retry.  It is gone only after a failure, or     *)
(* when the listener has seen a transaction end.                           *)
Unpaired == faults # {} \/ \E t \in Tx : Seen(t, queue)

PairInv ==
  /\ server # None => Passed # {} /\ server = Server(LastPassed)
  /\ client # None => Passed # {} /\ (client = Client(LastPassed) \/ client[2] = "retry")
  /\ (client = None \/ server = None) /\ Passed # {} => Unpaired

(* A response that was relayed.                                            *)
RelayedOK(x) ==
  /\ x.to \in arrived /\ state[Server(x.to)] # "none"
  /\ x.from # None =>
       /\ x.from[2] # "server" /\ x.from[1] \in Passed
       /\ x.to # x.from[1] => x.to \in Later(x.from[1])
       /\ ~x.sameCSeq => /\ x.from = Retry(x.to)
                         /\ faults # {} \/ \E t \in Ending : t # x.from

RelayedInv == \A x \in relayed : RelayedOK(x)

(* The caller has one INVITE at a time without a final response, and each  *)
(* that is closed has got it.                                              *)
CallerInv ==
  /\ \A i \in Invites : Closed(Server(i)) => FinalAnswer(i)
  /\ \A i, j \in Invites \cap arrived : i # j => FinalAnswer(i) \/ FinalAnswer(j)

(* A CANCEL was sent after its INVITE, while that had no final response,   *)
(* and before any other that has none.                                     *)
CancelOK(r, i) ==
  /\ i \in arrived /\ Ahead(Requested(i), Requested(r), queue)
  /\ Ahead(Requested(r), Ended(Server(i)), queue) /\ ~Seen(Server(i), queue)
  /\ \A j \in Invites \cap arrived : j # i =>
       \/ FinalAnswer(j)
       \/ Waits(Requested(j), queue) /\ Ahead(Requested(r), Requested(j), queue)

CancelsInv ==
  \A r \in CancelRequests : Waits(Requested(r), queue) => CancelOK(r, Cancels[r])

(* The processor answered the request itself.                              *)
NeverPassed(i) == i \in arrived /\ ~Waits(Requested(i), queue) /\ i \notin Passed

(* What became of a CANCEL that was handled.                               *)
CancelledOK(t) ==
  /\ t \in Tx /\ t[2] # "server" /\ state[t] # "none" /\ t[1] \in Invites \cap Passed
  /\ FinalAnswer(t[1]) \/ CancelAnswered(t[1]) \/ Later(t[1]) # {}

HandledOK(r, i) ==
  \/ NeverPassed(i) \/ Later(i) # {} \/ faults # {}
  \/ \E t \in Tx : <<r, t>> \in cancelled /\ (t[1] = i \/ t[2] = "retry")
  \/ \E t \in Ending : t # Server(i)

CancelledInv ==
  /\ \A x \in cancelled : CancelledOK(x[2])
  /\ \A r \in CancelRequests :
       Response(None, r, "ok", TRUE) \in relayed => HandledOK(r, Cancels[r])

(* What became of an ACK.                                                  *)
AckOK(x) ==
  /\ Invites \cap arrived # {}
  /\ \A i \in Invites : ~x[2] /\ Invites \cap arrived = {i} =>
       i \notin Accounts \/ NeverPassed(i) \/ Ending # {} \/ Later(i) # {} \/ faults # {}

AcksInv ==
  /\ \A r \in Acks : Waits(Requested(r), queue) =>
       \E x \in relayed : x.to \in Invites
  /\ \A x \in acked : AckOK(x)

(* What became of an INVITE whose callee has answered.                     *)
Settled(i) == i \in faults \/ FinalAnswer(i) \/ Later(i) # {} \/ CancelAnswered(i)

AnswersInv ==
  \A i \in Invites : Closed(Leg(i)) =>
    Settled(i) \/ \E c \in Final : Waits(Responded(Leg(i), c), queue)

CallInv ==
  /\ RequestsInv /\ ResponsesInv /\ FailuresInv /\ ClientsInv /\ PairInv /\ RelayedInv
  /\ CallerInv /\ CancelsInv /\ CancelledInv /\ AcksInv /\ AnswersInv

-----------------------------------------------------------------------------
(* Events and their order.                                                 *)

LEMMA EventsApart ==
  /\ \A r : Requested(r).type = "request" /\ Requested(r).request = r
  /\ \A t, c : /\ Responded(t, c).type = "response"
               /\ Responded(t, c).tx = t /\ Responded(t, c).code = c
  /\ \A t : Ended(t).type = "terminated" /\ Ended(t).tx = t
  BY DEF Requested, Responded, Ended

LEMMA EventTypes ==
  /\ \A r \in Request : Requested(r) \in Event
  /\ \A t \in Tx, c \in Code : Responded(t, c) \in Event
  /\ \A t \in Tx : Ended(t) \in Event
  BY DEF Requested, Responded, Ended, Event

LEMMA HeadEvent ==
  ASSUME NEW q \in Seq(Event), q # <<>>
  PROVE  /\ Head(q) \in Event /\ Waits(Head(q), q)
         /\ Head(q).type = "request" => Head(q) = Requested(Head(q).request)
         /\ Head(q).type = "response" => Head(q) = Responded(Head(q).tx, Head(q).code)
         /\ Head(q).type = "terminated" => Head(q) = Ended(Head(q).tx) /\ Head(q).tx \in Tx
  <1>1. 1 \in DOMAIN q /\ Head(q) = q[1] /\ Head(q) \in Event
    OBVIOUS
  <1>. QED BY <1>1 DEF Waits, Event, Requested, Responded, Ended

LEMMA TailEvents ==
  ASSUME NEW q \in Seq(Event), q # <<>>, NEW e
  PROVE  /\ Waits(e, Tail(q)) => Waits(e, q)
         /\ Waits(e, q) /\ e # Head(q) => Waits(e, Tail(q))
         /\ Once(e, q) => Once(e, Tail(q)) /\ (e = Head(q) => ~Waits(e, Tail(q)))
         /\ \A f : Ahead(e, f, q) => Ahead(e, f, Tail(q)) /\ (f = Head(q) => ~Waits(e, q))
  <1>1. /\ \A n \in DOMAIN Tail(q) : n + 1 \in DOMAIN q /\ q[n + 1] = Tail(q)[n]
        /\ \A n \in DOMAIN q : n # 1 => n - 1 \in DOMAIN Tail(q) /\ Tail(q)[n - 1] = q[n]
        /\ 1 \in DOMAIN q /\ Head(q) = q[1]
        /\ DOMAIN q \subseteq Nat \ {0} /\ DOMAIN Tail(q) \subseteq Nat \ {0}
    OBVIOUS
  <1>. DEFINE s == Tail(q)
              h == Head(q)
  <1>. HIDE DEF s, h
  <1>2. /\ \A n \in DOMAIN s : n + 1 \in DOMAIN q /\ q[n + 1] = s[n]
        /\ \A n \in DOMAIN q : n # 1 => n - 1 \in DOMAIN s /\ s[n - 1] = q[n]
        /\ 1 \in DOMAIN q /\ h = q[1]
        /\ DOMAIN q \subseteq Nat \ {0} /\ DOMAIN s \subseteq Nat \ {0}
    BY <1>1 DEF s, h
  <1>3. Waits(e, s) => Waits(e, q)
    BY <1>2 DEF Waits
  <1>4. Waits(e, q) /\ e # h => Waits(e, s)
    BY <1>2 DEF Waits
  <1>5. Once(e, q) => Once(e, s)
    <2>. SUFFICES ASSUME Once(e, q), NEW m \in DOMAIN s, NEW n \in DOMAIN s, s[m] = e, s[n] = e
                  PROVE  m = n
      BY DEF Once
    <2>1. m + 1 = n + 1
      BY <1>2 DEF Once
    <2>. QED BY <1>2, <2>1
  <1>6. Once(e, q) /\ e = h => ~Waits(e, s)
    <2>. SUFFICES ASSUME Once(e, q), e = h, NEW n \in DOMAIN s, s[n] = e
                  PROVE  FALSE
      BY DEF Waits
    <2>1. n + 1 = 1
      BY <1>2 DEF Once
    <2>. QED BY <1>2, <2>1
  <1>7. ASSUME NEW f, Ahead(e, f, q)
        PROVE  Ahead(e, f, s) /\ (f = h => ~Waits(e, q))
    <2>1. ASSUME NEW m \in DOMAIN s, NEW n \in DOMAIN s, s[m] = e, s[n] = f
          PROVE  m < n
      <3>1. m + 1 < n + 1
        BY <1>2, <1>7, <2>1 DEF Ahead
      <3>. QED BY <1>2, <3>1
    <2>2. ASSUME f = h, NEW m \in DOMAIN q, q[m] = e
          PROVE  FALSE
      <3>1. m < 1
        BY <1>2, <1>7, <2>2 DEF Ahead
      <3>. QED BY <1>2, <3>1
    <2>. QED BY <2>1, <2>2 DEF Ahead, Waits
  <1>. QED BY <1>3, <1>4, <1>5, <1>6, <1>7 DEF s, h

LEMMA AddedEvent ==
  ASSUME NEW q \in Seq(Event), NEW f \in Event, NEW e
  PROVE  /\ Waits(e, Append(q, f)) <=> Waits(e, q) \/ e = f
         /\ Once(e, q) /\ (e = f => ~Waits(e, q)) => Once(e, Append(q, f))
         /\ \A g : Ahead(e, g, q) /\ e # g /\ (e = f => ~Waits(g, q)) => Ahead(e, g, Append(q, f))
  <1>. DEFINE s == Append(q, f)
              k == Len(q) + 1
  <1>1. /\ DOMAIN q = 1 .. k - 1 /\ DOMAIN s = 1 .. k /\ k \in Nat \ {0}
        /\ \A n \in 1 .. k - 1 : s[n] = q[n]
        /\ s[k] = f
    OBVIOUS
  <1>. HIDE DEF s, k
  <1>2. Waits(e, s) <=> Waits(e, q) \/ e = f
    <2>1. Waits(e, s) => Waits(e, q) \/ e = f
      BY <1>1 DEF Waits
    <2>2. Waits(e, q) => Waits(e, s)
      BY <1>1 DEF Waits
    <2>3. k \in DOMAIN s
      BY <1>1
    <2>4. e = f => Waits(e, s)
      BY <1>1, <2>3 DEF Waits
    <2>. QED BY <2>1, <2>2, <2>4
  <1>3. Once(e, q) /\ (e = f => ~Waits(e, q)) => Once(e, s)
    BY <1>1 DEF Once, Waits
  <1>4. ASSUME NEW g, Ahead(e, g, q), e # g, e = f => ~Waits(g, q)
        PROVE  Ahead(e, g, s)
    <2>. SUFFICES ASSUME NEW m \in DOMAIN s, NEW n \in DOMAIN s, s[m] = e, s[n] = g
                  PROVE  m < n
      BY DEF Ahead
    <2>1. CASE m = k
      <3>1. n \in 1 .. k - 1 /\ q[n] = g /\ e = f
        BY <1>1, <1>4, <2>1
      <3>. QED BY <1>1, <1>4, <3>1 DEF Waits
    <2>2. CASE m # k /\ n = k
      BY <1>1, <2>2
    <2>3. CASE m # k /\ n # k
      BY <1>1, <1>4, <2>3 DEF Ahead
    <2>. QED BY <2>1, <2>2, <2>3
  <1>. QED BY <1>2, <1>3, <1>4 DEF s

-----------------------------------------------------------------------------
(* The requests that were forwarded.                                       *)

LEMMA PassedLast ==
  ASSUME forwarded \in Seq(Request)
  PROVE  /\ Passed \subseteq Request
         /\ Passed # {} => LastPassed \in Passed
         /\ \A q \in Passed : q # LastPassed => LastPassed \in Later(q)
         /\ \A q : Later(q) \subseteq Passed
  <1>. DEFINE k == Len(forwarded)
  <1>1. /\ DOMAIN forwarded = 1 .. k /\ k \in Nat
        /\ \A n \in 1 .. k : forwarded[n] \in Request
    OBVIOUS
  <1>. HIDE DEF k
  <1>2. Passed \subseteq Request
    BY <1>1 DEF Passed
  <1>3. LastPassed = forwarded[k]
    BY DEF LastPassed, k
  <1>4. ASSUME NEW q \in Passed
        PROVE  LastPassed \in Passed /\ (q # LastPassed => LastPassed \in Later(q))
    <2>1. PICK n \in 1 .. k : forwarded[n] = q
      BY <1>1, <1>4 DEF Passed
    <2>2. k \in 1 .. k
      BY <1>1, <2>1
    <2>3. LastPassed \in Passed /\ LastPassed \in Request
      BY <1>1, <1>3, <2>2 DEF Passed
    <2>4. q # LastPassed => n < k
      BY <1>1, <1>3, <2>1
    <2>. QED BY <1>1, <1>3, <2>1, <2>2, <2>3, <2>4 DEF Later
  <1>5. \A q : Later(q) \subseteq Passed
    BY DEF Later, Passed
  <1>. QED BY <1>2, <1>4, <1>5

LEMMA PassedMore ==
  ASSUME forwarded \in Seq(Request), NEW r \in Request, forwarded' = Append(forwarded, r)
  PROVE  /\ Passed' = Passed \cup {r} /\ LastPassed' = r
         /\ \A q : Later(q) \subseteq Later(q)'
         /\ \A q \in Passed : r \in Later(q)'
  <1>. DEFINE k == Len(forwarded)
              f == forwarded'
  <1>1. /\ DOMAIN forwarded = 1 .. k /\ k \in Nat
        /\ DOMAIN f = 1 .. k + 1
        /\ \A n \in 1 .. k : f[n] = forwarded[n]
        /\ f[k + 1] = r /\ Len(f) = k + 1
    OBVIOUS
  <1>. HIDE DEF k, f
  <1>2. k + 1 \in 1 .. k + 1 /\ 1 .. k \subseteq 1 .. k + 1
    BY <1>1
  <1>3. Passed' = {f[n] : n \in DOMAIN f} /\ LastPassed' = f[Len(f)]
    BY DEF Passed, LastPassed, f
  <1>4. \A q : Later(q)' = {p \in Request : \E m, n \in DOMAIN f : m < n /\ f[m] = q /\ f[n] = p}
    BY DEF Later, f
  <1>5. Passed' = Passed \cup {r}
    <2>1. \A n \in 1 .. k + 1 : n \in 1 .. k \/ n = k + 1
      BY <1>1
    <2>. QED BY <1>1, <1>2, <1>3, <2>1 DEF Passed
  <1>6. ASSUME NEW q PROVE Later(q) \subseteq Later(q)'
    BY <1>1, <1>2, <1>4 DEF Later
  <1>7. ASSUME NEW q \in Passed PROVE r \in Later(q)'
    <2>1. PICK m \in 1 .. k : forwarded[m] = q
      BY <1>1, <1>7 DEF Passed
    <2>2. m < k + 1 /\ f[m] = q
      BY <1>1, <2>1
    <2>. QED BY <1>1, <1>2, <1>4, <2>2
  <1>. QED BY <1>1, <1>3, <1>5, <1>6, <1>7

LEMMA PassedSame ==
  ASSUME UNCHANGED forwarded
  PROVE  Passed' = Passed /\ LastPassed' = LastPassed /\ \A q : Later(q)' = Later(q)
  BY DEF Passed, LastPassed, Later

-----------------------------------------------------------------------------
(* What every step keeps: nothing that happened is undone.                 *)
Grows ==
  /\ arrived \subseteq arrived' /\ relayed \subseteq relayed' /\ cancelled \subseteq cancelled'
  /\ faults \subseteq faults' /\ Passed \subseteq Passed'
  /\ \A q : Later(q) \subseteq Later(q)'

Rises ==
  \A t \in Tx : /\ state[t] # "none" => state'[t] # "none"
                /\ Closed(t) => Closed(t)'
                /\ state[t] = "over" => state'[t] = "over"

LEMMA GrownAnswers ==
  ASSUME Grows
  PROVE  /\ \A i : FinalAnswer(i) => FinalAnswer(i)'
         /\ \A i : CancelAnswered(i) => CancelAnswered(i)'
         /\ \A i : Later(i) # {} => Later(i)' # {}
         /\ \A i : Settled(i) => Settled(i)'
  <1>1. \A i : FinalAnswer(i) => FinalAnswer(i)'
    BY DEF Grows, FinalAnswer
  <1>2. \A i : CancelAnswered(i) => CancelAnswered(i)'
    BY DEF Grows, CancelAnswered
  <1>3. \A i : Later(i) # {} => Later(i)' # {}
    BY DEF Grows
  <1>. QED BY <1>1, <1>2, <1>3 DEF Grows, Settled

LEMMA RisenEnds ==
  ASSUME Rises
  PROVE  Ending \subseteq Ending'
  BY DEF Rises, Ending

-----------------------------------------------------------------------------
(* What a step may add, given that the invariant held before.              *)

(* A request that is forwarded was waiting.                                *)
Passing ==
  \A r \in Passed' : r \notin Passed =>
    /\ r \in (Invites \cup Others) \cap arrived /\ Waits(Requested(r), queue)
    /\ state'[Server(r)] # "none" /\ state'[Client(r)] # "none"

(* What is relayed, cancelled and acknowledged is as it should be.         *)
Telling ==
  /\ \A x \in relayed' : x \notin relayed => RelayedOK(x)'
  /\ \A x \in cancelled' : x \notin cancelled => CancelledOK(x[2])'
  /\ \A r \in CancelRequests : Response(None, r, "ok", TRUE) \in relayed' =>
       Response(None, r, "ok", TRUE) \in relayed \/ HandledOK(r, Cancels[r])'
  /\ \A x \in acked' : x \notin acked => AckOK(x)'

(* No request that arrived comes back.                                     *)
Leaving ==
  \A r \in arrived : Waits(Requested(r), queue') => Waits(Requested(r), queue)

Tells == Grows /\ Rises /\ Passing /\ Telling /\ Leaving

LEMMA RelayedKept ==
  ASSUME TypeOK, RelayedInv, Tells
  PROVE  RelayedInv'
  <1>. SUFFICES ASSUME NEW x \in relayed'
                PROVE  RelayedOK(x)'
    BY DEF RelayedInv
  <1>1. CASE x \notin relayed
    BY <1>1 DEF Tells, Telling
  <1>2. CASE x \in relayed
    <2>1. RelayedOK(x) /\ x.to \in Request
      BY <1>2 DEF RelayedInv, TypeOK, Relayed
    <2>2. x.to \in arrived' /\ state'[Server(x.to)] # "none"
      BY <2>1, TxParts DEF RelayedOK, Tells, Grows, Rises
    <2>3. ASSUME x.from # None
          PROVE  /\ x.from[2] # "server" /\ x.from[1] \in Passed'
                 /\ x.to # x.from[1] => x.to \in Later(x.from[1])'
                 /\ ~x.sameCSeq => /\ x.from = Retry(x.to)
                                   /\ faults' # {} \/ \E t \in Ending' : t # x.from
      <3>1. Ending \subseteq Ending'
        BY RisenEnds DEF Tells
      <3>. QED BY <2>1, <2>3, <3>1 DEF RelayedOK, Tells, Grows
    <2>. QED BY <2>2, <2>3 DEF RelayedOK
  <1>. QED BY <1>1, <1>2

LEMMA NeverKept ==
  ASSUME Tells, NEW i, NeverPassed(i)
  PROVE  NeverPassed(i)'
  BY DEF NeverPassed, Tells, Grows, Passing, Leaving

LEMMA CancelledKept ==
  ASSUME CancelledInv, Tells
  PROVE  CancelledInv'
  <1>1. ASSUME NEW x \in cancelled' PROVE CancelledOK(x[2])'
    <2>1. CASE x \notin cancelled
      BY <1>1, <2>1 DEF Tells, Telling
    <2>2. CASE x \in cancelled
      <3>1. CancelledOK(x[2])
        BY <2>2 DEF CancelledInv
      <3>. QED BY <3>1, GrownAnswers DEF CancelledOK, Tells, Grows, Rises
    <2>. QED BY <2>1, <2>2
  <1>2. ASSUME NEW r \in CancelRequests, Response(None, r, "ok", TRUE) \in relayed'
        PROVE  HandledOK(r, Cancels[r])'
    <2>1. CASE HandledOK(r, Cancels[r])' /\ Response(None, r, "ok", TRUE) \notin relayed
      BY <2>1
    <2>2. CASE Response(None, r, "ok", TRUE) \in relayed
      <3>. DEFINE i == Cancels[r]
      <3>1. HandledOK(r, i)
        BY <2>2 DEF CancelledInv
      <3>. HIDE DEF i
      <3>2. Ending \subseteq Ending' /\ cancelled \subseteq cancelled' /\ faults \subseteq faults'
        BY RisenEnds DEF Tells, Grows
      <3>3. NeverPassed(i) => NeverPassed(i)'
        BY NeverKept
      <3>4. Later(i) # {} => Later(i)' # {}
        BY GrownAnswers DEF Tells
      <3>5. HandledOK(r, i)'
        BY <3>1, <3>2, <3>3, <3>4 DEF HandledOK
      <3>. QED BY <3>5 DEF i
    <2>. QED BY <1>2, <2>1, <2>2 DEF Tells, Telling
  <1>. QED BY <1>1, <1>2 DEF CancelledInv

LEMMA AckedKept ==
  ASSUME AcksInv, Tells
  PROVE  \A x \in acked' : AckOK(x)'
  <1>. SUFFICES ASSUME NEW x \in acked'
                PROVE  AckOK(x)'
    OBVIOUS
  <1>1. CASE x \notin acked
    BY <1>1 DEF Tells, Telling
  <1>2. CASE x \in acked
    <2>1. AckOK(x)
      BY <1>2 DEF AcksInv
    <2>2. Invites \cap arrived # {} /\ arrived \subseteq arrived'
      BY <2>1 DEF AckOK, Tells, Grows
    <2>3. ASSUME NEW i \in Invites, ~x[2], Invites \cap arrived' = {i}, i \in Accounts
          PROVE  NeverPassed(i)' \/ Ending' # {} \/ Later(i)' # {} \/ faults' # {}
      <3>1. Invites \cap arrived = {i}
        BY <2>2, <2>3
      <3>2. NeverPassed(i) \/ Ending # {} \/ Later(i) # {} \/ faults # {}
        BY <2>1, <2>3, <3>1 DEF AckOK
      <3>3. Ending \subseteq Ending' /\ faults \subseteq faults'
        BY RisenEnds DEF Tells, Grows
      <3>4. Later(i) # {} => Later(i)' # {}
        BY GrownAnswers DEF Tells
      <3>. QED BY <3>2, <3>3, <3>4, NeverKept
    <2>. QED BY <2>2, <2>3 DEF AckOK
  <1>. QED BY <1>1, <1>2

-----------------------------------------------------------------------------
(* The handlers, as what they may do to the call.                          *)

Opening ==
  \A t \in Tx : state[t] = "none" /\ state'[t] # "none" =>
    /\ t[1] \in arrived /\ ~Waits(Requested(t[1]), queue')
    /\ t[2] # "server" => state'[t] = "open" /\ t[1] \in CancelRequests \cup Passed'
    /\ t[2] = "retry" => /\ t[1] \in Accounts /\ Closed(Client(t[1]))
                         /\ ~Waits(Responded(Client(t[1]), "challenge"), queue')

Closing ==
  \A t \in Tx : Closed(t)' /\ ~Closed(t) =>
    t[2] = "server" /\ (t[1] \in Invites => FinalAnswer(t[1])')

(* A final response that is taken settles the INVITE, or brings its retry. *)
Answering ==
  \A i \in Invites, c \in Final :
    Head(queue) = Responded(Leg(i), c) => Settled(i)' \/ ~Closed(Leg(i))'

HandlerEffect ==
  /\ queue # <<>> /\ queue' = Tail(queue) /\ arrived' = arrived
  /\ Tells /\ Opening /\ Closing /\ Answering /\ PairInv'
  /\ \A t \in Tx : state'[t] = "over" => state[t] = "over"

LEMMA RequestsHandled ==
  ASSUME TypeOK, RequestsInv, HandlerEffect
  PROVE  RequestsInv'
  <1>. SUFFICES ASSUME NEW r \in Request
                PROVE  /\ Waits(Requested(r), queue') => r \in arrived'
                       /\ r \notin arrived' \/ Waits(Requested(r), queue') =>
                            /\ state'[Server(r)] = "none" /\ state'[Client(r)] = "none"
                            /\ state'[Retry(r)] = "none"
                       /\ Once(Requested(r), queue')
    BY DEF RequestsInv
  <1>0. queue \in Seq(Event) /\ queue # <<>> /\ queue' = Tail(queue) /\ arrived' = arrived
    BY DEF TypeOK, HandlerEffect
  <1>1. /\ Waits(Requested(r), queue') => Waits(Requested(r), queue)
        /\ Once(Requested(r), queue')
    BY <1>0, TailEvents DEF RequestsInv
  <1>2. ASSUME r \notin arrived' \/ Waits(Requested(r), queue'), NEW t \in Tx, t[1] = r,
               state[t] = "none"
        PROVE  state'[t] = "none"
    BY <1>0, <1>2 DEF HandlerEffect, Opening
  <1>3. r \notin arrived' \/ Waits(Requested(r), queue') =>
          state[Server(r)] = "none" /\ state[Client(r)] = "none" /\ state[Retry(r)] = "none"
    BY <1>0, <1>1 DEF RequestsInv
  <1>. QED BY <1>0, <1>1, <1>2, <1>3, TxParts DEF RequestsInv

LEMMA ResponsesHandled ==
  ASSUME TypeOK, ResponsesInv, HandlerEffect
  PROVE  ResponsesInv'
  <1>0. queue \in Seq(Event) /\ queue # <<>> /\ queue' = Tail(queue)
    BY DEF TypeOK, HandlerEffect
  <1>1. ASSUME NEW t \in Tx, NEW c \in Code, Waits(Responded(t, c), queue')
        PROVE  ResponseOK(t, c)'
    <2>1. ResponseOK(t, c)
      BY <1>0, <1>1, TailEvents DEF ResponsesInv
    <2>2. state'[t] # "none" /\ (Closed(t) => Closed(t)') /\ cancelled \subseteq cancelled'
      BY <2>1 DEF HandlerEffect, Tells, Grows, Rises, ResponseOK
    <2>3. ASSUME c = "challenge" PROVE state'[Retry(t[1])] = "none"
      <3>1. t = Client(t[1]) /\ state[Retry(t[1])] = "none"
        BY <2>1, <2>3 DEF ResponseOK
      <3>2. Retry(t[1]) \in Tx /\ Retry(t[1])[1] = t[1] /\ Retry(t[1])[2] = "retry"
        BY TxParts
      <3>. QED BY <1>1, <2>3, <3>1, <3>2 DEF HandlerEffect, Opening
    <2>4. ~Seen(t, queue)'
      <3>1. SUFFICES ASSUME state'[t] = "over" PROVE Waits(Ended(t), queue')
        BY DEF Seen
      <3>2. Waits(Ended(t), queue)
        BY <2>1, <3>1 DEF HandlerEffect, ResponseOK, Seen
      <3>3. Ended(t) # Head(queue)
        BY <1>0, <1>1, TailEvents DEF ResponsesInv
      <3>. QED BY <1>0, <3>2, <3>3, TailEvents
    <2>. QED BY <2>1, <2>2, <2>3, <2>4 DEF ResponseOK
  <1>2. ASSUME NEW t \in Tx, NEW c \in Code
        PROVE  /\ Ahead(Responded(t, c), Ended(t), queue')
               /\ c \in Final => Once(Responded(t, c), queue')
    BY <1>0, TailEvents DEF ResponsesInv
  <1>3. ASSUME NEW t \in Tx, NEW c \in Final, NEW d \in Final,
               Waits(Responded(t, c), queue'), Waits(Responded(t, d), queue')
        PROVE  c = d
    BY <1>0, <1>3, TailEvents DEF ResponsesInv
  <1>4. ASSUME NEW t \in Tx
        PROVE  (Waits(Ended(t), queue') => state'[t] = "over") /\ Once(Ended(t), queue')
    BY <1>0, TailEvents DEF ResponsesInv, HandlerEffect, Tells, Rises
  <1>. QED BY <1>1, <1>2, <1>3, <1>4 DEF ResponsesInv

LEMMA FailuresHandled ==
  ASSUME TypeOK, FailuresInv, HandlerEffect
  PROVE  FailuresInv'
  BY TailEvents DEF FailuresInv, TypeOK, HandlerEffect, Tells, Grows

LEMMA ClientsHandled ==
  ASSUME TypeOK, ClientsInv, HandlerEffect
  PROVE  ClientsInv'
  <1>0. Grows /\ Rises /\ arrived' = arrived /\ forwarded \in Seq(Request)
    BY DEF HandlerEffect, Tells, TypeOK
  <1>1. ASSUME NEW r \in Passed'
        PROVE  /\ r \in (Invites \cup Others) \cap arrived'
               /\ state'[Server(r)] # "none" /\ state'[Client(r)] # "none"
    <2>1. CASE r \in Passed
      <3>1. r \in Request
        BY <2>1, <1>0, PassedLast
      <3>. QED BY <1>0, <2>1, <3>1, TxParts DEF ClientsInv, Rises
    <2>2. CASE r \notin Passed
      BY <1>0, <1>1, <2>2 DEF HandlerEffect, Tells, Passing
    <2>. QED BY <2>1, <2>2
  <1>2. ASSUME NEW t \in Tx, t[2] # "server", state'[t] # "none"
        PROVE  t[1] \in CancelRequests \cup Passed'
    BY <1>0, <1>2 DEF ClientsInv, HandlerEffect, Opening, Grows
  <1>3. ASSUME NEW t \in Tx, t[2] = "retry", state'[t] # "none"
        PROVE  t[1] \in Accounts /\ Closed(Client(t[1]))'
    <2>1. t[1] \in Accounts /\ Closed(Client(t[1]))
      BY <1>3 DEF ClientsInv, HandlerEffect, Opening
    <2>. QED BY <1>0, <2>1, TxParts DEF Rises
  <1>. QED BY <1>1, <1>2, <1>3 DEF ClientsInv

LEMMA CallerHandled ==
  ASSUME CallerInv, HandlerEffect
  PROVE  CallerInv'
  <1>1. arrived' = arrived /\ \A i : FinalAnswer(i) => FinalAnswer(i)'
    BY GrownAnswers DEF HandlerEffect, Tells
  <1>2. ASSUME NEW i \in Invites, Closed(Server(i))'
        PROVE  FinalAnswer(i)'
    <2>1. Server(i) \in Tx /\ Server(i)[1] = i
      BY TxParts DEF Invites
    <2>. QED BY <1>1, <1>2, <2>1 DEF CallerInv, HandlerEffect, Closing
  <1>. QED BY <1>1, <1>2 DEF CallerInv

LEMMA CancelsHandled ==
  ASSUME TypeOK, CancelsInv, HandlerEffect, EdgePortAssumption
  PROVE  CancelsInv'
  <1>0. /\ queue \in Seq(Event) /\ queue # <<>> /\ queue' = Tail(queue) /\ arrived' = arrived
        /\ \A i : FinalAnswer(i) => FinalAnswer(i)'
    BY GrownAnswers DEF TypeOK, HandlerEffect, Tells
  <1>. SUFFICES ASSUME NEW r \in CancelRequests, Waits(Requested(r), queue')
                PROVE  CancelOK(r, Cancels[r])'
    BY DEF CancelsInv
  <1>. DEFINE i == Cancels[r]
  <1>1. Waits(Requested(r), queue)
    BY <1>0, TailEvents
  <1>2. CancelOK(r, i) /\ i \in Request
    BY <1>1 DEF CancelsInv, EdgePortAssumption, Invites
  <1>. HIDE DEF i
  <1>3. i \in arrived' /\ Ahead(Requested(i), Requested(r), queue')
        /\ Ahead(Requested(r), Ended(Server(i)), queue')
    BY <1>0, <1>2, TailEvents DEF CancelOK
  <1>4. ASSUME state'[Server(i)] = "over" PROVE Waits(Ended(Server(i)), queue')
    <2>1. state[Server(i)] = "over"
      BY <1>2, <1>4, TxParts DEF HandlerEffect
    <2>2. Waits(Ended(Server(i)), queue) /\ Ahead(Requested(r), Ended(Server(i)), queue)
      BY <1>2, <2>1 DEF CancelOK, Seen
    <2>3. Ended(Server(i)) # Head(queue)
      BY <1>0, <1>1, <2>2, TailEvents
    <2>. QED BY <1>0, <2>2, <2>3, TailEvents
  <1>5. ASSUME NEW j \in Invites \cap arrived', j # i
        PROVE  \/ FinalAnswer(j)'
               \/ Waits(Requested(j), queue') /\ Ahead(Requested(r), Requested(j), queue')
    <2>1. \/ FinalAnswer(j)
          \/ Waits(Requested(j), queue) /\ Ahead(Requested(r), Requested(j), queue)
      BY <1>0, <1>2, <1>5 DEF CancelOK
    <2>2. ASSUME Waits(Requested(j), queue), Ahead(Requested(r), Requested(j), queue)
          PROVE  Waits(Requested(j), queue') /\ Ahead(Requested(r), Requested(j), queue')
      <3>1. Requested(j) # Head(queue)
        BY <1>0, <1>1, <2>2, TailEvents
      <3>. QED BY <1>0, <2>2, <3>1, TailEvents
    <2>. QED BY <1>0, <2>1, <2>2
  <1>6. CancelOK(r, i)'
    BY <1>3, <1>4, <1>5 DEF CancelOK, Seen
  <1>. QED BY <1>6 DEF i

LEMMA AnswersHandled ==
  ASSUME TypeOK, AnswersInv, HandlerEffect
  PROVE  AnswersInv'
  <1>0. queue \in Seq(Event) /\ queue # <<>> /\ queue' = Tail(queue)
        /\ \A i : Settled(i) => Settled(i)'
    BY GrownAnswers DEF TypeOK, HandlerEffect, Tells
  <1>. SUFFICES ASSUME NEW i \in Invites, Closed(Leg(i))'
                PROVE  Settled(i)' \/ \E c \in Final : Waits(Responded(Leg(i)', c), queue')
    BY DEF AnswersInv, Responded
  <1>1. /\ Client(i) \in Tx /\ Client(i)[2] = "client" /\ Retry(i) \in Tx /\ Retry(i)[2] = "retry"
    BY TxParts DEF Invites
  <1>2. Leg(i)' = Leg(i)
    <2>1. CASE state[Retry(i)] = "none" /\ state'[Retry(i)] # "none"
      <3>1. state'[Retry(i)] = "open" /\ Leg(i)' = Retry(i)
        BY <1>1, <2>1 DEF HandlerEffect, Opening, Leg
      <3>. QED BY <3>1 DEF Closed
    <2>2. CASE state[Retry(i)] # "none" \/ state'[Retry(i)] = "none"
      BY <1>1, <2>2 DEF HandlerEffect, Tells, Rises, Leg
    <2>. QED BY <2>1, <2>2
  <1>3. Closed(Leg(i))
    <2>1. Leg(i) \in Tx /\ Leg(i)[2] # "server"
      BY <1>1 DEF Leg
    <2>2. Closed(Leg(i))' => state'[Leg(i)] \in {"closed", "over"}
      BY <1>2 DEF Closed
    <2>. QED BY <2>1, <2>2 DEF HandlerEffect, Closing, Closed
  <1>4. CASE Settled(i)
    BY <1>0, <1>4
  <1>5. ASSUME NEW c \in Final, Waits(Responded(Leg(i), c), queue)
        PROVE  Settled(i)' \/ Waits(Responded(Leg(i)', c), queue')
    <2>1. CASE Head(queue) = Responded(Leg(i), c)
      BY <2>1 DEF HandlerEffect, Answering
    <2>2. CASE Head(queue) # Responded(Leg(i), c)
      BY <1>0, <1>2, <1>5, <2>2, TailEvents
    <2>. QED BY <2>1, <2>2
  <1>. QED BY <1>3, <1>4, <1>5 DEF AnswersInv

LEMMA HandlerKeeps ==
  ASSUME TypeOK, CallInv, HandlerEffect, EdgePortAssumption
  PROVE  CallInv'
  <1>1. /\ RequestsInv' /\ ResponsesInv' /\ FailuresInv' /\ ClientsInv' /\ CallerInv'
        /\ CancelsInv' /\ AnswersInv'
    BY RequestsHandled, ResponsesHandled, FailuresHandled, ClientsHandled, CallerHandled,
       CancelsHandled, AnswersHandled DEF CallInv
  <1>2. Tells /\ PairInv'
    BY DEF HandlerEffect
  <1>3. RelayedInv' /\ CancelledInv'
    BY <1>2, RelayedKept, CancelledKept DEF CallInv
  <1>4. AcksInv'
    <2>1. ASSUME NEW r \in Acks, Waits(Requested(r), queue')
          PROVE  \E x \in relayed' : x.to \in Invites
      <3>1. Waits(Requested(r), queue) /\ relayed \subseteq relayed'
        BY <2>1, TailEvents DEF HandlerEffect, TypeOK, Tells, Grows
      <3>. QED BY <3>1 DEF CallInv, AcksInv
    <2>2. \A x \in acked' : AckOK(x)'
      BY <1>2, AckedKept DEF CallInv
    <2>. QED BY <2>1, <2>2 DEF AcksInv
  <1>. QED BY <1>1, <1>2, <1>3, <1>4 DEF CallInv

-----------------------------------------------------------------------------
(* What each handler of a request does.                                    *)

(* The request that is taken was waiting, once, and has no transaction.    *)
Fresh(r) ==
  /\ r \in arrived /\ Waits(Requested(r), queue) /\ ~Waits(Requested(r), queue')
  /\ state[Server(r)] = "none" /\ state[Client(r)] = "none" /\ state[Retry(r)] = "none"

LEMMA TailLeaving ==
  ASSUME TypeOK, queue # <<>>, queue' = Tail(queue)
  PROVE  Leaving
  BY TailEvents DEF Leaving, TypeOK

LEMMA RequestTaken ==
  ASSUME TypeOK, CallInv, Takes("request"), NEW r, r = Head(queue).request
  PROVE  /\ queue # <<>> /\ queue' = Tail(queue)
         /\ r \in Request /\ Head(queue) = Requested(r) /\ Fresh(r) /\ Leaving /\ Answering
  <1>1. queue \in Seq(Event) /\ queue # <<>> /\ queue' = Tail(queue) /\ Head(queue).type = "request"
    BY DEF TypeOK, Takes
  <1>2. r \in Request /\ Head(queue) = Requested(r) /\ Waits(Requested(r), queue)
    BY <1>1, HeadType, HeadEvent
  <1>3. Fresh(r)
    BY <1>1, <1>2, TailEvents DEF Fresh, CallInv, RequestsInv
  <1>4. Answering
    BY <1>1, EventsApart DEF Answering
  <1>. QED BY <1>1, <1>2, <1>3, <1>4, TailLeaving

LEMMA PairKept ==
  ASSUME TypeOK, PairInv, queue # <<>>, queue' = Tail(queue),
         UNCHANGED <<pair, forwarded>>, Rises, faults \subseteq faults'
  PROVE  PairInv'
  <1>1. client' = client /\ server' = server /\ Passed' = Passed /\ LastPassed' = LastPassed
    BY PassedSame DEF pair
  <1>2. ASSUME NEW t \in Tx, Seen(t, queue) PROVE Seen(t, queue)'
    BY <1>2, TailEvents DEF Seen, Rises, TypeOK
  <1>3. Unpaired => Unpaired'
    BY <1>2 DEF Unpaired
  <1>. QED BY <1>1, <1>3 DEF PairInv

(* A handler that answers or opens the server transaction of the request.  *)
LEMMA ServerOnly ==
  ASSUME TypeOK, NEW r \in Request, Fresh(r),
         \A t \in Tx : t # Server(r) => state'[t] = state[t],
         state'[Server(r)] \in {"none", "open", "closed"},
         state'[Server(r)] = "closed" => FinalAnswer(r)'
  PROVE  Rises /\ Opening /\ Closing /\ \A t \in Tx : state'[t] = "over" => state[t] = "over"
  <1>1. Server(r) \in Tx /\ Server(r)[1] = r /\ Server(r)[2] = "server"
    BY TxParts
  <1>2. \A t \in Tx : t = Server(r) \/ state'[t] = state[t]
    OBVIOUS
  <1>3. state[Server(r)] = "none" /\ r \in arrived /\ ~Waits(Requested(r), queue')
    BY DEF Fresh
  <1>. QED BY <1>1, <1>2, <1>3 DEF Rises, Opening, Closing, Closed

LEMMA DispatchFailsEffect ==
  ASSUME TypeOK, CallInv, Takes("request"), NEW r, r = Head(queue).request, DispatchFails(r)
  PROVE  HandlerEffect
  <1>1. /\ queue # <<>> /\ queue' = Tail(queue)
        /\ r \in Request /\ Fresh(r) /\ Leaving /\ Answering
    BY RequestTaken
  <1>2. /\ UNCHANGED <<pair, arrived, relayed, cancelled, acked, forwarded>> /\ faults \subseteq faults'
    BY DEF DispatchFails, Fault
  <1>3. Rises /\ Opening /\ Closing /\ \A t \in Tx : state'[t] = "over" => state[t] = "over"
    <2>1. /\ \A t \in Tx : t # Server(r) => state'[t] = state[t]
          /\ state'[Server(r)] \in {"none", "open"}
      BY <1>1, TxParts DEF DispatchFails, Opened, TypeOK, Fresh
    <2>. QED BY <1>1, <2>1, ServerOnly
  <1>4. Grows /\ Passing /\ Telling
    BY <1>2, PassedSame DEF Grows, Passing, Telling
  <1>5. PairInv'
    BY <1>1, <1>2, <1>3, PairKept DEF CallInv
  <1>. QED BY <1>1, <1>2, <1>3, <1>4, <1>5 DEF HandlerEffect, Tells

LEMMA Methods ==
  ASSUME EdgePortAssumption
  PROVE  /\ Invites \cap CancelRequests = {} /\ Invites \cap Acks = {} /\ Acks \cap CancelRequests = {}
         /\ Others \cap CancelRequests = {} /\ Others \cap Invites = {}
         /\ Invites \subseteq Request /\ CancelRequests \subseteq Request /\ Others \subseteq Request
         /\ Accounts \subseteq Invites
         /\ \A r \in CancelRequests : Cancels[r] \in Invites
  BY DEF EdgePortAssumption, Invites, CancelRequests, Acks, Others

LEMMA ResponseParts ==
  \A t, r, c, same :
    /\ Response(t, r, c, same).from = t /\ Response(t, r, c, same).to = r
    /\ Response(t, r, c, same).code = c /\ Response(t, r, c, same).sameCSeq = same
  BY DEF Response

LEMMA AnswerLocallyEffect ==
  ASSUME TypeOK, CallInv, EdgePortAssumption, Takes("request"), NEW r, r = Head(queue).request,
         AnswerLocally(r)
  PROVE  HandlerEffect
  <1>1. /\ queue # <<>> /\ queue' = Tail(queue)
        /\ r \in Request /\ Fresh(r) /\ Leaving /\ Answering
    BY RequestTaken
  <1>2. UNCHANGED <<pair, arrived, cancelled, acked, forwarded, faults>> /\ r \in Invites \cup Others
    BY DEF AnswerLocally
  <1>3. PICK c \in {"ok", "reject"} : SendOn(r, None, c, Opened(Server(r)))
    BY DEF AnswerLocally
  <1>. DEFINE x == Response(None, r, c, TRUE)
  <1>4. /\ relayed' = relayed \cup {x} /\ state'[Server(r)] = "closed"
        /\ \A t \in Tx : t # Server(r) => state'[t] = state[t]
    <2>1. Opened(Server(r)) \in [Tx -> TxState] /\ Opened(Server(r))[Server(r)] = "open"
      BY <1>1, TxParts, OpenedType DEF TypeOK
    <2>2. \A t \in Tx : t # Server(r) => Opened(Server(r))[t] = state[t]
      BY DEF Opened, TypeOK
    <2>3. Server(r) \in Tx /\ c \in Final
      BY <1>1, TxParts DEF Final
    <2>. HIDE DEF x
    <2>. DEFINE st == Opened(Server(r))
    <2>. HIDE DEF st
    <2>4. SendOn(r, None, c, st) /\ st[Server(r)] = "open" /\ st \in [Tx -> TxState]
      BY <1>3, <2>1 DEF st
    <2>5. state' = [st EXCEPT ![Server(r)] = "closed"] /\ relayed' = relayed \cup {x}
      BY <2>3, <2>4 DEF SendOn, x
    <2>6. \A t \in Tx : t # Server(r) => st[t] = state[t]
      BY <2>2 DEF st
    <2>. QED BY <2>3, <2>4, <2>5, <2>6
  <1>5. x.from = None /\ x.to = r /\ x.code = c /\ x.sameCSeq = TRUE
    BY DEF Response
  <1>6. FinalAnswer(r)'
    BY <1>4, <1>5 DEF FinalAnswer, Final
  <1>. HIDE DEF x
  <1>7. Rises /\ Opening /\ Closing /\ \A t \in Tx : state'[t] = "over" => state[t] = "over"
    BY <1>1, <1>4, <1>6, ServerOnly
  <1>8. Grows /\ Passing
    BY <1>2, <1>4, PassedSame DEF Grows, Passing
  <1>9. RelayedOK(x)'
    BY <1>1, <1>2, <1>4, <1>5 DEF RelayedOK, Fresh
  <1>10. \A q \in CancelRequests : Response(None, q, "ok", TRUE) # x
    BY <1>2, <1>5, Methods DEF Response
  <1>11. Telling
    BY <1>2, <1>4, <1>9, <1>10 DEF Telling
  <1>12. PairInv'
    BY <1>1, <1>2, <1>7, PairKept DEF CallInv
  <1>. QED BY <1>1, <1>2, <1>7, <1>8, <1>11, <1>12 DEF HandlerEffect, Tells

LEMMA ForwardEffect ==
  ASSUME TypeOK, CallInv, EdgePortAssumption, Takes("request"), NEW r, r = Head(queue).request,
         Forward(r)
  PROVE  HandlerEffect
  <1>1. /\ queue # <<>> /\ queue' = Tail(queue)
        /\ r \in Request /\ Fresh(r) /\ Leaving /\ Answering
    BY RequestTaken
  <1>2. UNCHANGED <<arrived, relayed, cancelled, acked>> /\ r \in Invites \cup Others
    BY DEF Forward
  <1>3. Telling
    BY <1>2 DEF Telling
  <1>4. /\ Server(r) \in Tx /\ Server(r)[1] = r /\ Server(r)[2] = "server"
        /\ Client(r) \in Tx /\ Client(r)[1] = r /\ Client(r)[2] = "client"
    BY <1>1, TxParts
  <1>5. CASE /\ state' = [state EXCEPT ![Server(r)] = "open", ![Client(r)] = "open"]
             /\ putTransactions(r)
             /\ forwarded' = Append(forwarded, r)
             /\ UNCHANGED faults
    <2>1. /\ Passed' = Passed \cup {r} /\ LastPassed' = r
          /\ \A q : Later(q) \subseteq Later(q)'
      BY <1>1, <1>5, PassedMore DEF TypeOK
    <2>2. /\ state'[Server(r)] = "open" /\ state'[Client(r)] = "open"
          /\ \A t \in Tx : t \notin {Server(r), Client(r)} => state'[t] = state[t]
      BY <1>4, <1>5 DEF TypeOK
    <2>3. Rises /\ Opening /\ Closing /\ \A t \in Tx : state'[t] = "over" => state[t] = "over"
      <3>1. \A t \in Tx : t = Server(r) \/ t = Client(r) \/ state'[t] = state[t]
        BY <2>2
      <3>2. /\ state[Server(r)] = "none" /\ state[Client(r)] = "none"
            /\ r \in arrived /\ ~Waits(Requested(r), queue')
        BY <1>1 DEF Fresh
      <3>3. r \in Passed'
        BY <2>1
      <3>. QED BY <1>4, <2>2, <3>1, <3>2, <3>3 DEF Rises, Opening, Closing, Closed
    <2>4. Grows /\ Passing
      BY <1>1, <1>2, <1>5, <2>1, <2>2 DEF Grows, Passing, Fresh
    <2>5. PairInv'
      <3>1. server' = Server(r) /\ client' = Client(r) /\ server' # None /\ client' # None
        BY <1>4, <1>5, NoneAssumption DEF putTransactions, NoneAssumption
      <3>. QED BY <2>1, <3>1 DEF PairInv
    <2>. QED BY <1>1, <1>2, <1>3, <2>3, <2>4, <2>5 DEF HandlerEffect, Tells
  <1>6. CASE state' = Opened(Server(r)) /\ Fault(r) /\ UNCHANGED <<pair, forwarded>>
    <2>1. Rises /\ Opening /\ Closing /\ \A t \in Tx : state'[t] = "over" => state[t] = "over"
      <3>1. /\ \A t \in Tx : t # Server(r) => state'[t] = state[t]
            /\ state'[Server(r)] \in {"none", "open"}
        BY <1>4, <1>6 DEF Opened, TypeOK
      <3>. QED BY <1>1, <3>1, ServerOnly
    <2>2. Grows /\ Passing
      BY <1>2, <1>6, PassedSame DEF Grows, Passing, Fault
    <2>3. PairInv'
      BY <1>1, <1>6, <2>1, <2>2, PairKept DEF CallInv, Grows
    <2>. QED BY <1>1, <1>2, <1>3, <2>1, <2>2, <2>3 DEF HandlerEffect, Tells
  <1>. QED BY <1>5, <1>6 DEF Forward

(* The entries a retry or the request forwarded last has left.             *)
LEMMA ClientEntry ==
  ASSUME TypeOK, CallInv, EdgePortAssumption, client # None
  PROVE  /\ client \in Tx /\ client[2] # "server" /\ state[client] # "none"
         /\ client = Client(LastPassed) \/ (client[2] = "retry" /\ client[1] \in Accounts)
  BY DEF TypeOK, CallInv, PairInv, ClientsInv

LEMMA ForwardAckEffect ==
  ASSUME TypeOK, CallInv, EdgePortAssumption, Takes("request"), NEW r, r = Head(queue).request,
         ForwardAck(r)
  PROVE  HandlerEffect
  <1>1. /\ queue # <<>> /\ queue' = Tail(queue)
        /\ r \in Request /\ Fresh(r) /\ Leaving /\ Answering
    BY RequestTaken
  <1>2. UNCHANGED <<state, pair, arrived, relayed, cancelled, forwarded, faults>> /\ r \in Acks
    BY DEF ForwardAck
  <1>3. ASSUME NEW y \in acked', y \notin acked
        PROVE  y[2] = (client # None /\ client[1] \in Accounts)
    BY <1>3 DEF ForwardAck
  <1>4. Rises /\ Opening /\ Closing /\ \A t \in Tx : state'[t] = "over" => state[t] = "over"
    BY <1>2 DEF Rises, Opening, Closing, Closed
  <1>5. Grows /\ Passing
    BY <1>2, PassedSame DEF Grows, Passing
  <1>6. PairInv'
    BY <1>1, <1>2, <1>4, PairKept DEF CallInv
  <1>7. ASSUME NEW y \in acked', y \notin acked PROVE AckOK(y)'
    <2>4. y[2] = (client # None /\ client[1] \in Accounts)
      BY <1>3, <1>7
    <2>1. PICK x \in relayed : x.to \in Invites
      BY <1>1, <1>2 DEF CallInv, AcksInv, Fresh
    <2>2. RelayedOK(x) /\ x.to \in arrived /\ state[Server(x.to)] # "none"
      BY <2>1 DEF CallInv, RelayedInv, RelayedOK
    <2>3. ASSUME NEW i \in Invites, ~y[2], Invites \cap arrived' = {i}, i \in Accounts
          PROVE  NeverPassed(i)' \/ Ending' # {} \/ Later(i)' # {} \/ faults' # {}
      <3>1. x.to = i
        BY <1>2, <2>1, <2>2, <2>3
      <3>2. ~Waits(Requested(i), queue) /\ i \in arrived /\ i \in Request
        BY <2>2, <2>3, <3>1 DEF CallInv, RequestsInv, Invites
      <3>3. CASE i \notin Passed
        BY <1>2, <1>1, <3>2, <3>3, PassedSame DEF NeverPassed, Leaving
      <3>4. CASE i \in Passed /\ LastPassed # i
        BY <1>2, <3>4, PassedLast, PassedSame DEF TypeOK
      <3>5. CASE i \in Passed /\ LastPassed = i
        <4>1. client = None
          <5>1. Client(i)[1] = i
            BY <3>2, TxParts
          <5>. QED BY <2>3, <2>4, <3>5, <5>1, ClientEntry
        <4>2. Unpaired
          BY <3>5, <4>1 DEF CallInv, PairInv
        <4>3. Ending' = Ending
          BY <1>2 DEF Ending
        <4>. QED BY <1>2, <4>2, <4>3 DEF Unpaired, Seen, Ending
      <3>. QED BY <3>3, <3>4, <3>5
    <2>. QED BY <1>2, <2>1, <2>2, <2>3 DEF AckOK
  <1>8. Telling
    BY <1>2, <1>7 DEF Telling
  <1>. QED BY <1>1, <1>2, <1>4, <1>5, <1>6, <1>8 DEF HandlerEffect, Tells

(* The transaction of the call that a CANCEL takes, and what it leaves.    *)
LEMMA CancelParts ==
  ASSUME TypeOK, NEW r \in Request, Fresh(r), NEW c, NEW getsOn \in BOOLEAN,
         CancelCall(r, c, getsOn)
  PROVE  /\ \A t \in Tx : t \notin {Server(r), Client(r), server} => state'[t] = state[t]
         /\ state'[Server(r)] = "closed" /\ state'[Client(r)] \in {"none", "open"}
         /\ server # None => \/ state'[server] = state[server]
                             \/ /\ state[server] = "open" /\ state'[server] = "closed"
                                /\ Response(None, server[1], "terminated", TRUE) \in relayed'
         /\ relayed \subseteq relayed' /\ Response(None, r, c, TRUE) \in relayed'
         /\ \A x \in relayed' :
              \/ x \in relayed \/ x = Response(None, r, c, TRUE)
              \/ server # None /\ x = Response(None, server[1], "terminated", TRUE)
         /\ \/ cancelled' = cancelled
            \/ /\ cancelled' = cancelled \cup {<<r, client>>} /\ getsOn /\ client[1] \in Invites
               /\ server # None /\ state[server] = "open" =>
                    Response(None, server[1], "terminated", TRUE) \in relayed'
         /\ getsOn /\ client[1] \in Invites /\ state[client] # "over" => <<r, client>> \in cancelled'
  <1>1. /\ Server(r) \in Tx /\ Client(r) \in Tx /\ Server(r) # Client(r)
        /\ state[Server(r)] = "none" /\ state[Client(r)] = "none"
    BY TxParts DEF Fresh
  <1>2. server # None => server \in Tx /\ state[server] # "none" /\ server # Server(r) /\ server # Client(r)
    BY <1>1 DEF TypeOK
  <1>3. PICK found \in IF getsOn /\ state[client] = "over" THEN BOOLEAN ELSE {TRUE} :
          LET cancels == getsOn /\ found /\ client[1] \in Invites
              terminates == cancels /\ server # None /\ state[server] = "open"
          IN  /\ state' = [t \in Tx |->
                   CASE t = Server(r) -> "closed"
                     [] t = Client(r) /\ cancels -> "open"
                     [] t = server /\ terminates -> "closed"
                     [] OTHER -> state[t]]
              /\ cancelled' = cancelled \cup IF cancels THEN {<<r, client>>} ELSE {}
              /\ relayed' = relayed \cup {Response(None, r, c, TRUE)} \cup
                   IF terminates THEN {Response(None, server[1], "terminated", TRUE)}
                                 ELSE {}
    BY DEF CancelCall
  <1>4. getsOn /\ state[client] # "over" => found = TRUE
    BY <1>3
  <1>. DEFINE y == Response(None, r, c, TRUE)
              z == Response(None, server[1], "terminated", TRUE)
              pr == <<r, client>>
  <1>. HIDE DEF y, z, pr
  <1>5. CASE ~(getsOn /\ found /\ client[1] \in Invites)
    <2>1. /\ state' = [t \in Tx |-> IF t = Server(r) THEN "closed" ELSE state[t]]
          /\ cancelled' = cancelled /\ relayed' = relayed \cup {y}
      BY <1>1, <1>2, <1>3, <1>5 DEF y
    <2>. QED BY <1>1, <1>2, <1>4, <1>5, <2>1 DEF y
  <1>6. CASE getsOn /\ found /\ client[1] \in Invites
    <2>1. CASE server # None /\ state[server] = "open"
      <3>1. /\ state' = [t \in Tx |-> IF t \in {Server(r), server} THEN "closed"
                                      ELSE IF t = Client(r) THEN "open" ELSE state[t]]
            /\ cancelled' = cancelled \cup {pr} /\ relayed' = relayed \cup {y} \cup {z}
        BY <1>1, <1>2, <1>3, <1>6, <2>1 DEF y, z, pr
      <3>. QED BY <1>1, <1>2, <1>6, <2>1, <3>1 DEF y, z, pr
    <2>2. CASE ~(server # None /\ state[server] = "open")
      <3>1. /\ state' = [t \in Tx |-> IF t = Server(r) THEN "closed"
                                      ELSE IF t = Client(r) THEN "open" ELSE state[t]]
            /\ cancelled' = cancelled \cup {pr} /\ relayed' = relayed \cup {y}
        BY <1>1, <1>2, <1>3, <1>6, <2>2 DEF y, z, pr
      <3>. QED BY <1>1, <1>2, <1>6, <2>2, <3>1 DEF y, z, pr
    <2>. QED BY <2>1, <2>2
  <1>. QED BY <1>5, <1>6

LEMMA CancelSteps ==
  ASSUME TypeOK, CallInv, EdgePortAssumption, Takes("request"), NEW r, r = Head(queue).request,
         NEW c \in {"ok", "reject"}, NEW getsOn \in BOOLEAN, CancelCall(r, c, getsOn),
         r \in CancelRequests, UNCHANGED <<pair, arrived, acked, forwarded, faults>>
  PROVE  /\ Rises /\ Opening /\ Closing /\ \A t \in Tx : state'[t] = "over" => state[t] = "over"
         /\ Grows /\ Passing /\ PairInv'
         /\ \A x \in relayed' : x \notin relayed => RelayedOK(x)'
  <1>1. /\ queue # <<>> /\ queue' = Tail(queue) /\ r \in Request /\ Fresh(r)
    BY RequestTaken
  <1>2. /\ Server(r) \in Tx /\ Server(r)[1] = r /\ Server(r)[2] = "server" /\ Server(r) # Client(r)
        /\ Client(r) \in Tx /\ Client(r)[1] = r /\ Client(r)[2] = "client"
        /\ state[Server(r)] = "none" /\ state[Client(r)] = "none"
        /\ r \in arrived /\ ~Waits(Requested(r), queue')
    BY <1>1, TxParts DEF Fresh
  <1>3. server # None => /\ server \in Tx /\ server[2] = "server" /\ state[server] # "none"
                         /\ server[1] \in Passed /\ server = Server(server[1])
    <2>1. server # None => /\ server \in Tx /\ server[2] = "server" /\ state[server] # "none"
                           /\ Passed # {} /\ server = Server(LastPassed)
      BY DEF TypeOK, CallInv, PairInv
    <2>2. Server(LastPassed)[1] = LastPassed
      BY DEF Server
    <2>. QED BY <2>1, <2>2, PassedLast DEF TypeOK
  <1>4. /\ \A t \in Tx : t \notin {Server(r), Client(r), server} => state'[t] = state[t]
        /\ state'[Server(r)] = "closed" /\ state'[Client(r)] \in {"none", "open"}
        /\ server # None => \/ state'[server] = state[server]
                            \/ /\ state[server] = "open" /\ state'[server] = "closed"
                               /\ Response(None, server[1], "terminated", TRUE) \in relayed'
        /\ relayed \subseteq relayed' /\ cancelled \subseteq cancelled'
        /\ \A x \in relayed' :
             \/ x \in relayed \/ x = Response(None, r, c, TRUE)
             \/ server # None /\ x = Response(None, server[1], "terminated", TRUE)
    <2>1. /\ \A t \in Tx : t \notin {Server(r), Client(r), server} => state'[t] = state[t]
          /\ state'[Server(r)] = "closed" /\ state'[Client(r)] \in {"none", "open"}
      BY <1>1, CancelParts
    <2>2. server # None => \/ state'[server] = state[server]
                           \/ /\ state[server] = "open" /\ state'[server] = "closed"
                              /\ Response(None, server[1], "terminated", TRUE) \in relayed'
      BY <1>1, CancelParts
    <2>3. relayed \subseteq relayed' /\ cancelled \subseteq cancelled'
      BY <1>1, CancelParts
    <2>4. \A x \in relayed' :
             \/ x \in relayed \/ x = Response(None, r, c, TRUE)
             \/ server # None /\ x = Response(None, server[1], "terminated", TRUE)
      BY <1>1, CancelParts
    <2>. QED BY <2>1, <2>2, <2>3, <2>4
  <1>5. /\ \A t \in Tx : \/ t = Server(r) \/ t = Client(r) \/ state'[t] = state[t]
                         \/ t = server /\ server # None /\ state[t] = "open" /\ state'[t] = "closed"
    BY <1>3, <1>4, NoneAssumption DEF NoneAssumption
  <1>6. ASSUME NEW j, j = server[1], server # None, state'[server] # state[server]
        PROVE  FinalAnswer(j)'
    <2>. DEFINE z == Response(None, server[1], "terminated", TRUE)
    <2>1. z.to = server[1] /\ z.code = "terminated"
      BY DEF Response
    <2>. HIDE DEF z
    <2>2. z \in relayed'
      BY <1>4, <1>6 DEF z
    <2>. QED BY <1>6, <2>1, <2>2 DEF FinalAnswer, Final
  <1>7. r \notin Invites
    BY Methods
  <1>8. Rises /\ Closing /\ \A t \in Tx : state'[t] = "over" => state[t] = "over"
    <2>1. Rises /\ \A t \in Tx : state'[t] = "over" => state[t] = "over"
      BY <1>2, <1>4, <1>5 DEF Rises, Closed
    <2>2. ASSUME NEW t \in Tx, Closed(t)', ~Closed(t)
          PROVE  t[2] = "server" /\ (t[1] \in Invites => FinalAnswer(t[1])')
      <3>1. CASE t = Server(r)
        BY <1>2, <1>7, <3>1
      <3>2. CASE t # Server(r)
        <4>1. t = server /\ server # None /\ state'[server] # state[server]
          BY <1>2, <1>4, <1>5, <2>2, <3>2 DEF Closed
        <4>. QED BY <1>3, <1>6, <4>1
      <3>. QED BY <3>1, <3>2
    <2>. QED BY <2>1, <2>2 DEF Closing
  <1>9. Opening
    BY <1>2, <1>3, <1>4, <1>5 DEF Opening
  <1>10. Grows /\ Passing
    BY <1>4, PassedSame DEF Grows, Passing
  <1>11. PairInv'
    BY <1>1, <1>8, <1>10, PairKept DEF CallInv, Grows
  <1>12. ASSUME NEW x \in relayed', x \notin relayed PROVE RelayedOK(x)'
    <2>1. x.from = None
      BY <1>4, <1>12 DEF Response
    <2>2. CASE x.to = r
      BY <1>2, <1>4, <2>1, <2>2 DEF RelayedOK
    <2>3. CASE x.to # r
      <3>1. server # None /\ x.to = server[1]
        BY <1>4, <1>12, <2>3 DEF Response
      <3>2. server[1] \in arrived
        BY <1>3, <3>1 DEF CallInv, ClientsInv
      <3>3. state'[server] # "none"
        BY <1>3, <1>8, <3>1 DEF Rises
      <3>. QED BY <1>3, <2>1, <3>1, <3>2, <3>3 DEF RelayedOK
    <2>. QED BY <2>2, <2>3
  <1>. QED BY <1>8, <1>9, <1>10, <1>11, <1>12

(* Where the INVITE of a CANCEL stands when the CANCEL is taken.           *)
LEMMA CancelledInvite ==
  ASSUME TypeOK, CallInv, EdgePortAssumption, Takes("request"), NEW r, r = Head(queue).request,
         r \in CancelRequests
  PROVE  LET i == Cancels[r] IN
         /\ i \in Invites /\ i \in arrived /\ ~Waits(Requested(i), queue) /\ ~Seen(Server(i), queue)
         /\ \A j \in Invites \cap Passed : j # i => FinalAnswer(j)
  <1>. DEFINE i == Cancels[r]
  <1>1. /\ queue \in Seq(Event) /\ queue # <<>> /\ r \in Request
        /\ Head(queue) = Requested(r) /\ Waits(Requested(r), queue)
    BY RequestTaken DEF TypeOK, Fresh
  <1>2. CancelOK(r, i) /\ i \in Invites
    BY <1>1, Methods DEF CallInv, CancelsInv
  <1>. HIDE DEF i
  <1>3. i \in arrived /\ ~Seen(Server(i), queue) /\ ~Waits(Requested(i), queue)
    BY <1>1, <1>2, TailEvents DEF CancelOK
  <1>4. ASSUME NEW j \in Invites \cap Passed, j # i PROVE FinalAnswer(j)
    <2>1. j \in arrived /\ state[Client(j)] # "none" /\ j \in Request
      BY Methods DEF CallInv, ClientsInv
    <2>2. ~Waits(Requested(j), queue)
      BY <2>1 DEF CallInv, RequestsInv
    <2>. QED BY <1>2, <1>4, <2>1, <2>2 DEF CancelOK
  <1>. QED BY <1>2, <1>3, <1>4 DEF i

LEMMA CancelTells ==
  ASSUME TypeOK, CallInv, EdgePortAssumption, Takes("request"), NEW r, r = Head(queue).request,
         NEW c \in {"ok", "reject"}, NEW getsOn \in BOOLEAN, CancelCall(r, c, getsOn),
         r \in CancelRequests, UNCHANGED <<pair, arrived, acked, forwarded, faults>>,
         getsOn => client # None, c = "ok" => (getsOn <=> client # None /\ server # None)
  PROVE  HandlerEffect
  <1>1. /\ queue # <<>> /\ queue' = Tail(queue) /\ r \in Request /\ Fresh(r)
        /\ Leaving /\ Answering
    BY RequestTaken
  <1>2. /\ Rises /\ Opening /\ Closing /\ \A t \in Tx : state'[t] = "over" => state[t] = "over"
        /\ Grows /\ Passing /\ PairInv'
        /\ \A x \in relayed' : x \notin relayed => RelayedOK(x)'
    BY CancelSteps
  <1>3. /\ Response(None, r, c, TRUE) \in relayed'
        /\ \A x \in relayed' :
             \/ x \in relayed \/ x = Response(None, r, c, TRUE)
             \/ server # None /\ x = Response(None, server[1], "terminated", TRUE)
        /\ \/ cancelled' = cancelled
           \/ /\ cancelled' = cancelled \cup {<<r, client>>} /\ getsOn /\ client[1] \in Invites
              /\ server # None /\ state[server] = "open" =>
                   Response(None, server[1], "terminated", TRUE) \in relayed'
        /\ getsOn /\ client[1] \in Invites /\ state[client] # "over" => <<r, client>> \in cancelled'
    BY <1>1, CancelParts
  <1>. DEFINE i == Cancels[r]
  <1>4. /\ i \in Invites /\ i \in arrived /\ ~Waits(Requested(i), queue) /\ ~Seen(Server(i), queue)
        /\ \A j \in Invites \cap Passed : j # i => FinalAnswer(j)
    BY CancelledInvite
  <1>5. /\ Passed' = Passed /\ \A q : Later(q)' = Later(q)
        /\ \A q : FinalAnswer(q) => FinalAnswer(q)'
    BY <1>2, PassedSame, GrownAnswers
  <1>6. /\ Passed # {} => LastPassed \in Passed
        /\ \A q \in Passed : q # LastPassed => Later(q) # {}
    BY PassedLast DEF TypeOK
  <1>7. ASSUME NEW x \in cancelled', x \notin cancelled PROVE CancelledOK(x[2])'
    <2>1. /\ x = <<r, client>> /\ getsOn /\ client[1] \in Invites
          /\ server # None /\ state[server] = "open" =>
               Response(None, server[1], "terminated", TRUE) \in relayed'
      BY <1>3, <1>7
    <2>2. x[2] = client
      BY <2>1
    <2>3. client \in Tx /\ client[2] # "server" /\ state[client] # "none"
      BY <2>1 DEF TypeOK
    <2>4. x[2] \in Tx /\ state'[x[2]] # "none" /\ x[2][2] # "server" /\ x[2][1] \in Invites \cap Passed
      BY <1>2, <2>1, <2>2, <2>3, Methods DEF CallInv, ClientsInv, Rises
    <2>5. ASSUME NEW j \in Invites \cap Passed, j = x[2][1]
          PROVE  FinalAnswer(j)' \/ CancelAnswered(j)' \/ Later(j)' # {}
      <3>1. CASE j # LastPassed
        BY <1>5, <1>6, <2>5, <3>1
      <3>2. CASE j = LastPassed /\ server # None
        <4>1. /\ server = Server(j) /\ server[1] = j /\ server \in Tx
              /\ state[server] \in {"open", "closed", "over"}
          BY <3>2 DEF CallInv, PairInv, TypeOK, Server, TxState
        <4>2. CASE state[server] = "open"
          <5>1. Response(None, j, "terminated", TRUE) \in relayed'
            BY <2>1, <3>2, <4>1, <4>2
          <5>2. /\ Response(None, j, "terminated", TRUE).to = j
                /\ Response(None, j, "terminated", TRUE).code = "terminated"
            BY DEF Response
          <5>. QED BY <5>1, <5>2 DEF FinalAnswer, Final
        <4>3. CASE state[server] # "open"
          BY <1>5, <2>5, <4>1, <4>3 DEF CallInv, CallerInv, Closed
        <4>. QED BY <4>2, <4>3
      <3>3. CASE j = LastPassed /\ server = None
        <4>1. CASE j # i
          BY <1>4, <1>5, <2>5, <4>1
        <4>2. CASE j = i
          <5>1. c = "reject"
            BY <2>1, <3>3
          <5>. QED BY <1>3, <4>2, <5>1 DEF CancelAnswered
        <4>. QED BY <4>1, <4>2
      <3>. QED BY <3>1, <3>2, <3>3
    <2>. QED BY <2>4, <2>5, <1>5 DEF CancelledOK
  <1>8. ASSUME NEW q \in CancelRequests, Response(None, q, "ok", TRUE) \in relayed',
               Response(None, q, "ok", TRUE) \notin relayed
        PROVE  HandledOK(q, Cancels[q])'
    <2>1. q = r /\ c = "ok"
      BY <1>3, <1>8 DEF Response
    <2>2. i \in Request
      BY <1>4, Methods
    <2>3. CASE i \notin Passed
      BY <1>1, <1>4, <1>5, <2>1, <2>3 DEF HandledOK, NeverPassed, Leaving
    <2>4. CASE i \in Passed /\ LastPassed # i
      BY <1>5, <1>6, <2>1, <2>4 DEF HandledOK
    <2>5. CASE i \in Passed /\ LastPassed = i /\ ~(client # None /\ server # None)
      <3>1. Unpaired
        BY <2>5 DEF CallInv, PairInv
      <3>2. CASE faults # {}
        BY <2>1, <3>2 DEF HandledOK
      <3>3. ASSUME NEW t \in Tx, Seen(t, queue)
            PROVE  t \in Ending' /\ t # Server(i)
        BY <1>2, <1>4, <3>3 DEF Seen, Ending, Rises
      <3>. QED BY <2>1, <3>1, <3>2, <3>3 DEF Unpaired, HandledOK
    <2>6. CASE i \in Passed /\ LastPassed = i /\ client # None /\ server # None
      <3>1. /\ client \in Tx /\ client[2] # "server" /\ state[client] # "none"
            /\ client = Client(i) \/ (client[2] = "retry" /\ client[1] \in Accounts)
        BY <2>6, ClientEntry
      <3>2. client[1] \in Invites /\ (client[1] = i \/ client[2] = "retry")
        BY <1>4, <3>1, Methods DEF Client
      <3>3. CASE state[client] = "over"
        <4>1. client \in Ending' /\ client # Server(i)
          BY <1>2, <3>1, <3>3 DEF Ending, Rises, Server
        <4>. QED BY <2>1, <3>1, <4>1 DEF HandledOK
      <3>4. CASE state[client] # "over"
        <4>1. <<r, client>> \in cancelled'
          BY <1>3, <2>1, <2>6, <3>2, <3>4
        <4>. QED BY <2>1, <3>1, <3>2, <4>1 DEF HandledOK
      <3>. QED BY <3>3, <3>4
    <2>. QED BY <2>3, <2>4, <2>5, <2>6
  <1>9. Telling
    BY <1>2, <1>7, <1>8 DEF Telling
  <1>. QED BY <1>1, <1>2, <1>9 DEF HandlerEffect, Tells

LEMMA ForwardCancelEffect ==
  ASSUME TypeOK, CallInv, EdgePortAssumption, Takes("request"), NEW r, r = Head(queue).request,
         ForwardCancel(r)
  PROVE  HandlerEffect
  <1>1. PICK getsOn \in BOOLEAN : CancelCall(r, "ok", getsOn) /\ (getsOn <=> client # None /\ server # None)
    BY DEF ForwardCancel
  <1>2. r \in CancelRequests /\ UNCHANGED <<pair, arrived, acked, forwarded, faults>>
    BY DEF ForwardCancel
  <1>. QED BY <1>1, <1>2, CancelTells

LEMMA AnswerCancelEffect ==
  ASSUME TypeOK, CallInv, EdgePortAssumption, Takes("request"), NEW r, r = Head(queue).request,
         AnswerCancel(r)
  PROVE  HandlerEffect
  <1>1. PICK getsOn \in BOOLEAN : CancelCall(r, "reject", getsOn) /\ (getsOn => client # None)
    BY DEF AnswerCancel
  <1>2. r \in CancelRequests /\ UNCHANGED <<pair, arrived, acked, forwarded, faults>>
    BY DEF AnswerCancel
  <1>. QED BY <1>1, <1>2, CancelTells

-----------------------------------------------------------------------------
(* What each handler of a response does.                                   *)

LEMMA ResponseTaken ==
  ASSUME TypeOK, CallInv, EdgePortAssumption, Takes("response"),
         NEW t, t = Head(queue).tx, NEW c, c = Head(queue).code
  PROVE  /\ queue # <<>> /\ queue' = Tail(queue) /\ t \in Tx /\ c \in Code
         /\ Head(queue) = Responded(t, c) /\ ResponseOK(t, c) /\ Leaving
         /\ c \in Final => ~Waits(Responded(t, c), queue')
         /\ t[1] \notin CancelRequests =>
              /\ t[1] \in Passed /\ t[1] \in arrived /\ state[Server(t[1])] # "none"
              /\ t[1] \in Request /\ ~Waits(Requested(t[1]), queue)
         /\ \A i \in Invites, d \in Final :
              Head(queue) = Responded(Leg(i), d) => t = Leg(i) /\ d = c /\ t[1] = i
  <1>1. queue \in Seq(Event) /\ queue # <<>> /\ queue' = Tail(queue) /\ Head(queue).type = "response"
    BY DEF TypeOK, Takes
  <1>2. t \in Tx /\ c \in Code /\ Head(queue) = Responded(t, c) /\ Waits(Responded(t, c), queue)
    BY <1>1, HeadType, HeadEvent
  <1>3. ResponseOK(t, c) /\ (c \in Final => ~Waits(Responded(t, c), queue'))
    BY <1>1, <1>2, TailEvents DEF CallInv, ResponsesInv
  <1>4. ASSUME t[1] \notin CancelRequests
        PROVE  /\ t[1] \in Passed /\ t[1] \in arrived /\ state[Server(t[1])] # "none"
               /\ t[1] \in Request /\ ~Waits(Requested(t[1]), queue)
    <2>1. t[1] \in Passed
      BY <1>2, <1>3, <1>4 DEF ResponseOK, CallInv, ClientsInv
    <2>2. t[1] \in arrived /\ state[Server(t[1])] # "none" /\ t[1] \in Request
      BY <1>2, <2>1, TxParts DEF CallInv, ClientsInv
    <2>. QED BY <2>1, <2>2 DEF CallInv, RequestsInv
  <1>5. ASSUME NEW i \in Invites, NEW d \in Final, Head(queue) = Responded(Leg(i), d)
        PROVE  t = Leg(i) /\ d = c /\ t[1] = i
    <2>1. t = Leg(i) /\ d = c
      BY <1>5, EventsApart
    <2>. QED BY <2>1, TxParts DEF Leg, Invites
  <1>. QED BY <1>1, <1>2, <1>3, <1>4, <1>5, TailLeaving

(* A step that adds nothing but a failure.                                 *)
LEMMA FailureEffect ==
  ASSUME TypeOK, CallInv, queue # <<>>, queue' = Tail(queue),
         UNCHANGED <<state, pair, arrived, relayed, cancelled, acked, forwarded>>,
         faults \subseteq faults', Leaving, Answering
  PROVE  HandlerEffect
  <1>1. Rises /\ Opening /\ Closing /\ \A t \in Tx : state'[t] = "over" => state[t] = "over"
    BY DEF Rises, Opening, Closing, Closed
  <1>2. Grows /\ Passing /\ Telling
    BY PassedSame DEF Grows, Passing, Telling
  <1>3. PairInv'
    BY <1>1, PairKept DEF CallInv
  <1>. QED BY <1>1, <1>2, <1>3 DEF HandlerEffect, Tells

LEMMA IgnoreEffect ==
  ASSUME TypeOK, CallInv, EdgePortAssumption, Takes("response"),
         NEW t, t = Head(queue).tx, NEW c, c = Head(queue).code, IgnoreResponse(t, c)
  PROVE  HandlerEffect
  <1>1. /\ queue # <<>> /\ queue' = Tail(queue) /\ t \in Tx
        /\ ResponseOK(t, c) /\ Leaving
        /\ \A i \in Invites, d \in Final :
             Head(queue) = Responded(Leg(i), d) => t = Leg(i) /\ d = c /\ t[1] = i
    BY ResponseTaken
  <1>2. /\ UNCHANGED <<state, pair, arrived, relayed, cancelled, acked, forwarded, faults>>
        /\ isStackJob(t, c)
    BY DEF IgnoreResponse, outputs
  <1>3. Grows
    BY <1>2, PassedSame DEF Grows
  <1>4. ASSUME NEW i \in Invites, NEW d \in Final, Head(queue) = Responded(Leg(i), d)
        PROVE  Settled(i)'
    <2>1. t[1] = i /\ t[1] \notin CancelRequests
      BY <1>1, <1>4, Methods
    <2>2. \E r \in CancelRequests : <<r, t>> \in cancelled
      BY <1>1, <1>2, <2>1 DEF isStackJob, ResponseOK
    <2>3. CancelledOK(t)
      BY <2>2 DEF CallInv, CancelledInv
    <2>4. Settled(i)
      BY <2>1, <2>3 DEF CancelledOK, Settled
    <2>. QED BY <1>3, <2>4, GrownAnswers
  <1>5. Answering
    BY <1>4 DEF Answering
  <1>. QED BY <1>1, <1>2, <1>5, FailureEffect

LEMMA AuthenticateEffect ==
  ASSUME TypeOK, CallInv, EdgePortAssumption, Takes("response"),
         NEW t, t = Head(queue).tx, NEW c, c = Head(queue).code, Authenticate(t, c)
  PROVE  HandlerEffect
  <1>1. /\ queue # <<>> /\ queue' = Tail(queue) /\ t \in Tx
        /\ ResponseOK(t, c) /\ Leaving
        /\ \A i \in Invites, d \in Final :
             Head(queue) = Responded(Leg(i), d) => t = Leg(i) /\ d = c /\ t[1] = i
    BY ResponseTaken
  <1>. DEFINE i == t[1]
  <1>2. /\ UNCHANGED <<arrived, relayed, cancelled, acked, forwarded>>
        /\ c = "challenge" /\ i \in Accounts
    BY DEF Authenticate, Challenged
  <1>3. /\ t = Client(i) /\ i \in Invites /\ state[Retry(i)] = "none" /\ Closed(t)
        /\ i \notin CancelRequests
    BY <1>1, <1>2, Methods DEF ResponseOK, Final
  <1>4. /\ i \in Passed /\ i \in arrived /\ i \in Request /\ ~Waits(Requested(i), queue)
        /\ ~Waits(Responded(t, c), queue')
    BY <1>2, <1>3, ResponseTaken DEF Final
  <1>5. CASE state' = Opened(Retry(i)) /\ updateClientTransaction(Retry(i)) /\ UNCHANGED faults
    <2>1. Retry(i) \in Tx /\ Retry(i)[1] = i /\ Retry(i)[2] = "retry"
      BY <1>4, TxParts
    <2>2. state'[Retry(i)] = "open" /\ \A u \in Tx : u # Retry(i) => state'[u] = state[u]
      BY <1>5, <2>1 DEF Opened, TypeOK
    <2>3. Rises /\ Closing /\ \A u \in Tx : state'[u] = "over" => state[u] = "over"
      <3>1. \A u \in Tx : u = Retry(i) \/ state'[u] = state[u]
        BY <2>2
      <3>. QED BY <1>3, <2>2, <3>1 DEF Rises, Closing, Closed
    <2>4. Opening
      <3>1. ~Waits(Requested(i), queue')
        BY <1>1, <1>4 DEF Leaving
      <3>. QED BY <1>2, <1>3, <1>4, <2>1, <2>2, <3>1, PassedSame DEF Opening
    <2>5. Grows /\ Passing /\ Telling
      BY <1>2, <1>5, PassedSame DEF Grows, Passing, Telling
    <2>6. Answering
      <3>1. ASSUME NEW j \in Invites, NEW d \in Final, Head(queue) = Responded(Leg(j), d)
            PROVE  ~Closed(Leg(j))'
        <4>1. j = i
          BY <1>1, <3>1
        <4>2. Leg(j)' = Retry(i)
          BY <2>2, <4>1 DEF Leg
        <4>. QED BY <2>2, <4>2 DEF Closed
      <3>. QED BY <3>1 DEF Answering
    <2>7. PairInv'
      <3>1. client' = Retry(i) /\ server' = server /\ client' # None
        BY <1>5, <2>1, NoneAssumption DEF updateClientTransaction, NoneAssumption
      <3>2. Passed' = Passed /\ LastPassed' = LastPassed
        BY <1>2, PassedSame
      <3>3. ASSUME NEW u \in Tx, Seen(u, queue) PROVE Seen(u, queue)'
        BY <1>1, <2>3, <3>3, TailEvents DEF Seen, Rises, TypeOK
      <3>4. Unpaired => Unpaired'
        BY <1>5, <3>3 DEF Unpaired
      <3>. QED BY <1>4, <2>1, <3>1, <3>2, <3>4 DEF CallInv, PairInv
    <2>. QED BY <1>1, <1>2, <2>3, <2>4, <2>5, <2>6, <2>7 DEF HandlerEffect, Tells
  <1>6. CASE Fault(i) /\ UNCHANGED <<state, pair>>
    <2>1. i \in faults' /\ faults \subseteq faults'
      BY <1>6 DEF Fault
    <2>2. Answering
      BY <1>1, <2>1 DEF Answering, Settled
    <2>. QED BY <1>1, <1>2, <1>6, <2>1, <2>2, FailureEffect
  <1>. QED BY <1>5, <1>6 DEF Authenticate

(* The server transaction of the call, as the entry has it.                *)
LEMMA ServerEntry ==
  ASSUME TypeOK, CallInv, server # None
  PROVE  /\ server \in Tx /\ server[2] = "server" /\ server = Server(server[1])
         /\ server[1] = LastPassed /\ server[1] \in Passed /\ server[1] \in Request
         /\ server[1] \in arrived /\ state[server] \in {"open", "closed", "over"}
  <1>1. /\ server \in Tx /\ server[2] = "server" /\ state[server] \in {"open", "closed", "over"}
        /\ Passed # {} /\ server = Server(LastPassed)
    BY DEF TypeOK, CallInv, PairInv, TxState
  <1>2. server[1] = LastPassed
    BY <1>1 DEF Server
  <1>3. server[1] \in Passed /\ server[1] \in Request
    BY <1>1, <1>2, PassedLast DEF TypeOK
  <1>. QED BY <1>1, <1>2, <1>3 DEF CallInv, ClientsInv

LEMMA RelayEffect ==
  ASSUME TypeOK, CallInv, EdgePortAssumption, Takes("response"),
         NEW t, t = Head(queue).tx, NEW c, c = Head(queue).code, Relay(t, c),
         ~isStackJob(t, c), UNCHANGED <<pair, arrived, cancelled, acked, forwarded, faults>>
  PROVE  HandlerEffect
  <1>1. /\ queue # <<>> /\ queue' = Tail(queue) /\ t \in Tx /\ c \in Code
        /\ ResponseOK(t, c) /\ Leaving
        /\ \A i \in Invites, d \in Final :
             Head(queue) = Responded(Leg(i), d) => t = Leg(i) /\ d = c /\ t[1] = i
    BY ResponseTaken
  <1>2. /\ t[1] \in Passed /\ t[1] \in arrived /\ state[Server(t[1])] # "none" /\ t[1] \in Request
        /\ t[2] # "server" /\ ~Seen(t, queue) /\ t # None
    BY <1>1, ResponseTaken, NoneAssumption DEF isStackJob, ResponseOK, NoneAssumption
  <1>3. CASE state' = state /\ relayed' = relayed /\ server # None /\ state[server] # "open"
    <2>1. ASSUME NEW i \in Invites, NEW d \in Final, Head(queue) = Responded(Leg(i), d)
          PROVE  Settled(i)'
      <3>1. i \in Passed /\ Grows
        BY <1>1, <1>2, <1>3, <2>1, PassedSame DEF Grows
      <3>2. Settled(i)
        <4>1. CASE i = LastPassed
          BY <1>3, <4>1, ServerEntry DEF CallInv, CallerInv, Closed, Settled
        <4>2. CASE i # LastPassed
          BY <3>1, <4>2, PassedLast DEF TypeOK, Settled
        <4>. QED BY <4>1, <4>2
      <3>. QED BY <3>1, <3>2, GrownAnswers
    <2>2. Answering
      BY <2>1 DEF Answering
    <2>. QED BY <1>1, <1>3, <2>2, FailureEffect
  <1>4. ASSUME NEW x, x.from = t, x.code = c, relayed' = relayed \cup {x}, RelayedOK(x)',
               \A u \in Tx : \/ state'[u] = state[u]
                             \/ u[2] = "server" /\ state[u] = "open" /\ state'[u] = "closed"
                                /\ u[1] = x.to /\ c \in Final,
               \A i \in Invites : t[1] = i => x.to = i \/ Later(i) # {}
        PROVE  HandlerEffect
    <2>1. Rises /\ Opening /\ \A u \in Tx : state'[u] = "over" => state[u] = "over"
      BY <1>4 DEF Rises, Opening, Closed
    <2>2. \A i : x.to = i /\ c \in Final => FinalAnswer(i)'
      BY <1>4 DEF FinalAnswer
    <2>3. Closing
      BY <1>4, <2>2 DEF Closing, Closed
    <2>4. Grows /\ Passing
      BY <1>4, PassedSame DEF Grows, Passing
    <2>5. Telling
      <3>1. \A q : Response(None, q, "ok", TRUE) # x
        BY <1>2, <1>4 DEF Response
      <3>. QED BY <1>4, <3>1 DEF Telling
    <2>6. Answering
      <3>1. ASSUME NEW i \in Invites, NEW d \in Final, Head(queue) = Responded(Leg(i), d)
            PROVE  Settled(i)'
        <4>1. t[1] = i /\ c \in Final
          BY <1>1, <3>1
        <4>2. x.to = i \/ Later(i)' # {}
          BY <1>4, <4>1, <2>4, GrownAnswers
        <4>. QED BY <2>2, <4>1, <4>2 DEF Settled
      <3>. QED BY <3>1 DEF Answering
    <2>7. PairInv'
      BY <1>1, <2>1, PairKept DEF CallInv
    <2>. QED BY <1>1, <2>1, <2>3, <2>4, <2>5, <2>6, <2>7 DEF HandlerEffect, Tells
  <1>5. \A x : x.to \in arrived /\ state'[Server(x.to)] # "none" /\ x.from = t
               /\ (x.to # t[1] => x.to \in Later(t[1]))
               /\ (~x.sameCSeq => x.from = Retry(x.to) /\ (faults # {} \/ \E u \in Ending' : u # t))
          => RelayedOK(x)'
    BY <1>2, PassedSame DEF RelayedOK
  <1>6. CASE /\ server # None /\ state[server] = "open"
             /\ state' = [state EXCEPT ![server] = IF c \in Final THEN "closed" ELSE @]
             /\ relayed' = relayed \cup {Response(t, server[1], c, TRUE)}
    <2>0. PICK x : x = Response(t, server[1], c, TRUE)
      OBVIOUS
    <2>1. x.from = t /\ x.to = server[1] /\ x.code = c /\ x.sameCSeq = TRUE
      BY <2>0 DEF Response
    <2>2. relayed' = relayed \cup {x}
      BY <1>6, <2>0
    <2>3. /\ server \in Tx /\ server[2] = "server" /\ server = Server(server[1])
          /\ server[1] = LastPassed /\ server[1] \in arrived
      BY <1>6, ServerEntry
    <2>4. /\ \A u \in Tx : u # server => state'[u] = state[u]
          /\ state'[server] = IF c \in Final THEN "closed" ELSE "open"
      BY <1>6, <2>3 DEF TypeOK
    <2>5. \A u \in Tx : \/ state'[u] = state[u]
                        \/ u[2] = "server" /\ state[u] = "open" /\ state'[u] = "closed"
                           /\ u[1] = x.to /\ c \in Final
      BY <1>6, <2>1, <2>3, <2>4
    <2>6. x.to # t[1] => x.to \in Later(t[1])
      BY <1>2, <2>1, <2>3, PassedLast DEF TypeOK
    <2>7. RelayedOK(x)'
      BY <1>5, <2>1, <2>3, <2>4, <2>6
    <2>. QED BY <1>4, <2>1, <2>2, <2>5, <2>6, <2>7
  <1>7. CASE /\ t[1] \notin Invites \/ server = None
             /\ relayed' = relayed \cup {Response(t, t[1], c, t[2] # "retry")}
             /\ UNCHANGED state
    <2>. DEFINE x == Response(t, t[1], c, t[2] # "retry")
    <2>1. x.from = t /\ x.to = t[1] /\ x.code = c /\ (x.sameCSeq <=> t[2] # "retry")
      BY DEF Response
    <2>2. relayed' = relayed \cup {x}
      BY <1>7
    <2>. HIDE DEF x
    <2>3. ASSUME t[2] = "retry"
          PROVE  t = Retry(t[1]) /\ (faults # {} \/ \E u \in Ending' : u # t)
      <3>1. t = Retry(t[1])
        BY <1>1, <2>3 DEF Tx, Retry
      <3>2. t[1] \in Invites
        BY <1>1, <2>3, Methods DEF ResponseOK, CallInv, ClientsInv
      <3>3. Unpaired
        BY <1>2, <1>7, <3>2 DEF CallInv, PairInv
      <3>. QED BY <1>2, <1>7, <3>1, <3>3 DEF Unpaired, Seen, Ending
    <2>4. RelayedOK(x)'
      BY <1>2, <1>5, <1>7, <2>1, <2>3
    <2>. QED BY <1>4, <1>7, <2>1, <2>2, <2>4
  <1>8. t[1] \in Invites /\ server # None /\ SendOn(server[1], t, c, state) =>
          \/ state' = state /\ relayed' = relayed /\ state[server] # "open"
          \/ /\ state[server] = "open"
             /\ state' = [state EXCEPT ![server] = IF c \in Final THEN "closed" ELSE @]
             /\ relayed' = relayed \cup {Response(t, server[1], c, TRUE)}
    BY ServerEntry DEF SendOn
  <1>. QED BY <1>3, <1>6, <1>7, <1>8 DEF Relay

LEMMA RelayResponseEffect ==
  ASSUME TypeOK, CallInv, EdgePortAssumption, Takes("response"),
         NEW t, t = Head(queue).tx, NEW c, c = Head(queue).code, RelayResponse(t, c)
  PROVE  HandlerEffect
  <1>1. CASE Relay(t, c) /\ UNCHANGED faults
    BY <1>1, RelayEffect DEF RelayResponse
  <1>2. CASE Fault(t[1]) /\ UNCHANGED <<state, relayed, events>>
    <2>1. /\ queue # <<>> /\ queue' = Tail(queue) /\ Leaving
          /\ \A i \in Invites, d \in Final :
               Head(queue) = Responded(Leg(i), d) => t = Leg(i) /\ d = c /\ t[1] = i
      BY ResponseTaken
    <2>2. t[1] \in faults' /\ faults \subseteq faults'
      BY <1>2 DEF Fault
    <2>3. Answering
      BY <2>1, <2>2 DEF Answering, Settled
    <2>. QED BY <1>2, <2>1, <2>2, <2>3, FailureEffect DEF RelayResponse
  <1>. QED BY <1>1, <1>2 DEF RelayResponse

-----------------------------------------------------------------------------
(* What the handlers that remove the entries do.                           *)

LEMMA RemovalEffect ==
  ASSUME TypeOK, CallInv, queue # <<>>, queue' = Tail(queue), Head(queue).type # "response",
         client' \in {client, None}, server' \in {server, None},
         UNCHANGED <<state, arrived, relayed, cancelled, acked, forwarded, faults>>, Unpaired'
  PROVE  HandlerEffect
  <1>1. Rises /\ Opening /\ Closing /\ \A t \in Tx : state'[t] = "over" => state[t] = "over"
    BY DEF Rises, Opening, Closing, Closed
  <1>2. Grows /\ Passing /\ Telling
    BY PassedSame DEF Grows, Passing, Telling
  <1>3. Leaving /\ Answering
    BY TailLeaving, EventsApart DEF Answering
  <1>4. PairInv'
    <2>1. Passed' = Passed /\ LastPassed' = LastPassed
      BY PassedSame
    <2>2. /\ server' # None => Passed' # {} /\ server' = Server(LastPassed')
          /\ client' # None => Passed' # {} /\ (client' = Client(LastPassed') \/ client'[2] = "retry")
      BY <2>1 DEF CallInv, PairInv
    <2>. QED BY <2>2 DEF PairInv, Server, Client
  <1>. QED BY <1>1, <1>2, <1>3, <1>4 DEF HandlerEffect, Tells

LEMMA HeadFails ==
  ASSUME TypeOK, CallInv, queue # <<>>, Head(queue).type \in {"timeout", "ioerror"}
  PROVE  faults # {}
  <1>1. Head(queue) \in Event /\ Waits(Head(queue), queue)
    BY HeadEvent DEF TypeOK
  <1>. QED BY <1>1 DEF CallInv, FailuresInv

LEMMA ProcessTimeoutEffect ==
  ASSUME TypeOK, CallInv, ProcessTimeout
  PROVE  HandlerEffect
  <1>1. queue # <<>> /\ queue' = Tail(queue) /\ Head(queue).type = "timeout"
    BY DEF ProcessTimeout, Takes
  <1>2. /\ client' = None /\ server' = None
        /\ UNCHANGED <<state, arrived, relayed, cancelled, acked, forwarded, faults>>
    BY DEF ProcessTimeout, removeTransactions, outputs
  <1>3. Unpaired'
    BY <1>1, <1>2, HeadFails DEF Unpaired
  <1>. QED BY <1>1, <1>2, <1>3, RemovalEffect

LEMMA ProcessTerminatedEffect ==
  ASSUME TypeOK, CallInv, ProcessTransactionTerminated
  PROVE  HandlerEffect
  <1>1. queue # <<>> /\ queue' = Tail(queue) /\ Head(queue).type = "terminated"
    BY DEF ProcessTransactionTerminated, Takes
  <1>2. /\ client' = None /\ server' = None
        /\ UNCHANGED <<state, arrived, relayed, cancelled, acked, forwarded, faults>>
    BY DEF ProcessTransactionTerminated, removeTransactions, outputs
  <1>3. PICK t \in Tx : Head(queue) = Ended(t) /\ Waits(Ended(t), queue)
    BY <1>1, HeadEvent DEF TypeOK
  <1>4. state[t] = "over" /\ ~Waits(Ended(t), queue')
    BY <1>1, <1>3, TailEvents DEF CallInv, ResponsesInv, TypeOK
  <1>5. Unpaired'
    BY <1>2, <1>4 DEF Unpaired, Seen
  <1>. QED BY <1>1, <1>2, <1>5, RemovalEffect

LEMMA ProcessIOExceptionEffect ==
  ASSUME TypeOK, CallInv, ProcessIOException
  PROVE  HandlerEffect
  <1>1. queue # <<>> /\ queue' = Tail(queue) /\ Head(queue).type = "ioerror"
    BY DEF ProcessIOException, Takes
  <1>2. /\ client' \in {client, None} /\ server' \in {server, None}
        /\ UNCHANGED <<state, arrived, relayed, cancelled, acked, forwarded, faults>>
    BY DEF ProcessIOException
  <1>3. Unpaired'
    BY <1>1, <1>2, HeadFails DEF Unpaired
  <1>. QED BY <1>1, <1>2, <1>3, RemovalEffect

LEMMA HandlersKeep ==
  ASSUME TypeOK, CallInv,
         ProcessRequest \/ ProcessResponse \/ ProcessTimeout \/ ProcessTransactionTerminated
           \/ ProcessIOException
  PROVE  CallInv'
  <1>0. EdgePortAssumption
    BY EdgePortAssumption
  <1>1. CASE ProcessRequest
    <2>1. PICK r : r = Head(queue).request
      OBVIOUS
    <2>2. Takes("request") /\ \/ DispatchFails(r) \/ AnswerLocally(r) \/ Forward(r) \/ ForwardAck(r)
                              \/ ForwardCancel(r) \/ AnswerCancel(r)
      BY <1>1, <2>1 DEF ProcessRequest
    <2>3. HandlerEffect
      BY <1>0, <2>1, <2>2, DispatchFailsEffect, AnswerLocallyEffect, ForwardEffect, ForwardAckEffect,
         ForwardCancelEffect, AnswerCancelEffect
    <2>. QED BY <1>0, <2>3, HandlerKeeps
  <1>2. CASE ProcessResponse
    <2>1. PICK t : t = Head(queue).tx
      OBVIOUS
    <2>2. PICK c : c = Head(queue).code
      OBVIOUS
    <2>3. Takes("response") /\ (IgnoreResponse(t, c) \/ Authenticate(t, c) \/ RelayResponse(t, c))
      BY <1>2, <2>1, <2>2 DEF ProcessResponse
    <2>4. HandlerEffect
      BY <1>0, <2>1, <2>2, <2>3, IgnoreEffect, AuthenticateEffect, RelayResponseEffect
    <2>. QED BY <1>0, <2>4, HandlerKeeps
  <1>3. CASE ProcessTimeout \/ ProcessTransactionTerminated \/ ProcessIOException
    BY <1>0, <1>3, HandlerKeeps, ProcessTimeoutEffect, ProcessTerminatedEffect,
       ProcessIOExceptionEffect
  <1>. QED BY <1>1, <1>2, <1>3

-----------------------------------------------------------------------------
(* The stack and its peers, as what they may do to the call.               *)

StackEffect(e) ==
  /\ e \in Event /\ queue' = Append(queue, e)
  /\ UNCHANGED <<pair, relayed, cancelled, acked, forwarded>> /\ Grows /\ Rises
  /\ \A t \in Tx : state[t] = "none" => state'[t] = "none"
  /\ \A t \in Tx : Closed(t)' /\ ~Closed(t) =>
       t[2] # "server" /\ (t[1] \in faults' \/ \E c \in Final : e = Responded(t, c))
  /\ \A t \in Tx : state'[t] = "over" /\ state[t] # "over" => e = Ended(t)
  /\ \A t \in Tx : e = Ended(t) => state[t] # "over" /\ state'[t] = "over"
  /\ \A t \in Tx, c \in Code : e = Responded(t, c) => state[t] = "open" /\ ResponseOK(t, c)'
  /\ \A r \in Request : e = Requested(r) =>
       r \notin arrived /\ arrived' = arrived \cup {r} /\ MaySend(r)
  /\ e.type # "request" => arrived' = arrived
  /\ e.type \in {"timeout", "ioerror"} => faults' # {}

LEMMA Arrived ==
  ASSUME NEW e, StackEffect(e), NEW r, r \in arrived', r \notin arrived
  PROVE  e = Requested(r) /\ r \in Request
  <1>1. e.type = "request"
    BY DEF StackEffect
  <1>2. e.request \in Request /\ e = Requested(e.request)
    BY <1>1 DEF StackEffect, Event, Requested
  <1>. QED BY <1>2 DEF StackEffect

LEMMA StackTells ==
  ASSUME TypeOK, CallInv, NEW e, StackEffect(e)
  PROVE  /\ Tells
         /\ \A f : Waits(f, queue) => Waits(f, queue')
         /\ \A f : Waits(f, queue') => Waits(f, queue) \/ f = e
         /\ \A t \in Tx : Seen(t, queue) <=> Seen(t, queue)'
         /\ Passed' = Passed /\ LastPassed' = LastPassed /\ \A q : Later(q)' = Later(q)
         /\ \A i : FinalAnswer(i)' <=> FinalAnswer(i)
  <1>1. \A f : Waits(f, queue') <=> Waits(f, queue) \/ f = e
    BY AddedEvent DEF StackEffect, TypeOK
  <1>2. Leaving
    BY <1>1, EventsApart DEF Leaving, StackEffect, TypeOK
  <1>3. Passed' = Passed /\ LastPassed' = LastPassed /\ \A q : Later(q)' = Later(q)
    BY PassedSame DEF StackEffect
  <1>4. Passing /\ Telling
    BY <1>3 DEF Passing, Telling, StackEffect
  <1>5. ASSUME NEW t \in Tx PROVE Seen(t, queue) <=> Seen(t, queue)'
    BY <1>1 DEF Seen, StackEffect, Rises
  <1>6. \A i : FinalAnswer(i)' <=> FinalAnswer(i)
    BY DEF FinalAnswer, StackEffect
  <1>. QED BY <1>1, <1>2, <1>3, <1>4, <1>5, <1>6 DEF Tells, StackEffect

LEMMA RequestsStacked ==
  ASSUME TypeOK, CallInv, NEW e, StackEffect(e)
  PROVE  RequestsInv'
  <1>. SUFFICES ASSUME NEW r \in Request
                PROVE  /\ Waits(Requested(r), queue') => r \in arrived'
                       /\ r \notin arrived' \/ Waits(Requested(r), queue') =>
                            /\ state'[Server(r)] = "none" /\ state'[Client(r)] = "none"
                            /\ state'[Retry(r)] = "none"
                       /\ Once(Requested(r), queue')
    BY DEF RequestsInv
  <1>0. arrived \subseteq arrived' /\ \A t \in Tx : state[t] = "none" => state'[t] = "none"
    BY DEF StackEffect, Grows
  <1>1. Waits(Requested(r), queue') => r \in arrived'
    BY <1>0, StackTells DEF StackEffect, CallInv, RequestsInv
  <1>2. r \notin arrived' \/ Waits(Requested(r), queue') =>
          r \notin arrived \/ Waits(Requested(r), queue)
    BY <1>0, StackTells DEF StackEffect
  <1>3. r \notin arrived' \/ Waits(Requested(r), queue') =>
          state[Server(r)] = "none" /\ state[Client(r)] = "none" /\ state[Retry(r)] = "none"
    BY <1>2 DEF CallInv, RequestsInv
  <1>4. Requested(r) = e => ~Waits(Requested(r), queue)
    BY DEF StackEffect, CallInv, RequestsInv
  <1>5. Once(Requested(r), queue')
    BY <1>4, AddedEvent DEF StackEffect, CallInv, RequestsInv, TypeOK
  <1>. QED BY <1>0, <1>1, <1>3, <1>5, TxParts

LEMMA ResponsesStacked ==
  ASSUME TypeOK, CallInv, NEW e, StackEffect(e)
  PROVE  ResponsesInv'
  <1>0. queue \in Seq(Event) /\ e \in Event /\ queue' = Append(queue, e)
    BY DEF StackEffect, TypeOK
  <1>1. ASSUME NEW t \in Tx, NEW c \in Code, Waits(Responded(t, c), queue')
        PROVE  ResponseOK(t, c)'
    <2>1. CASE e = Responded(t, c)
      BY <2>1 DEF StackEffect
    <2>2. CASE Waits(Responded(t, c), queue)
      <3>1. ResponseOK(t, c)
        BY <2>2 DEF CallInv, ResponsesInv
      <3>2. /\ state'[t] # "none" /\ (Closed(t) => Closed(t)') /\ cancelled' = cancelled
            /\ ~Seen(t, queue)'
        BY <3>1, StackTells DEF StackEffect, Rises, ResponseOK
      <3>3. ASSUME c = "challenge" PROVE state'[Retry(t[1])] = "none"
        BY <3>1, <3>3, TxParts DEF ResponseOK, StackEffect
      <3>. QED BY <3>1, <3>2, <3>3 DEF ResponseOK
    <2>. QED BY <1>1, <2>1, <2>2, StackTells
  <1>2. ASSUME NEW t \in Tx, NEW c \in Code
        PROVE  Ahead(Responded(t, c), Ended(t), queue')
    <2>1. Ahead(Responded(t, c), Ended(t), queue) /\ Responded(t, c) # Ended(t)
      BY EventsApart DEF CallInv, ResponsesInv
    <2>2. Responded(t, c) = e => ~Waits(Ended(t), queue)
      BY DEF StackEffect, CallInv, ResponsesInv
    <2>. QED BY <1>0, <2>1, <2>2, AddedEvent
  <1>3. ASSUME NEW t \in Tx, NEW c \in Final, e = Responded(t, c), NEW d \in Final
        PROVE  ~Waits(Responded(t, d), queue)
    <2>1. c \in Code /\ d \in Code
      BY DEF Code
    <2>. QED BY <1>3, <2>1 DEF StackEffect, CallInv, ResponsesInv, ResponseOK, Closed
  <1>4. ASSUME NEW t \in Tx, NEW c \in Final
        PROVE  Once(Responded(t, c), queue')
    <2>1. c \in Code
      BY DEF Code
    <2>. QED BY <1>0, <1>3, <2>1, AddedEvent DEF CallInv, ResponsesInv
  <1>5. ASSUME NEW t \in Tx, NEW c \in Final, NEW d \in Final,
               Waits(Responded(t, c), queue'), Waits(Responded(t, d), queue')
        PROVE  c = d
    <2>1. /\ Waits(Responded(t, c), queue) \/ e = Responded(t, c)
          /\ Waits(Responded(t, d), queue) \/ e = Responded(t, d)
      BY <1>5, StackTells
    <2>2. CASE Waits(Responded(t, c), queue) /\ Waits(Responded(t, d), queue)
      BY <2>2 DEF CallInv, ResponsesInv
    <2>3. CASE e = Responded(t, c) /\ e = Responded(t, d)
      BY <2>3 DEF Responded
    <2>. QED BY <1>3, <2>1, <2>2, <2>3
  <1>6. ASSUME NEW t \in Tx
        PROVE  (Waits(Ended(t), queue') => state'[t] = "over") /\ Once(Ended(t), queue')
    <2>1. Waits(Ended(t), queue) => state[t] = "over"
      BY DEF CallInv, ResponsesInv
    <2>2. Waits(Ended(t), queue') => state'[t] = "over"
      BY <2>1, StackTells DEF StackEffect, Rises
    <2>3. Ended(t) = e => ~Waits(Ended(t), queue)
      BY <2>1 DEF StackEffect
    <2>4. Once(Ended(t), queue')
      BY <1>0, <2>3, AddedEvent DEF CallInv, ResponsesInv
    <2>. QED BY <2>2, <2>4
  <1>. QED BY <1>1, <1>2, <1>4, <1>5, <1>6 DEF ResponsesInv

LEMMA CallerStacked ==
  ASSUME TypeOK, CallInv, EdgePortAssumption, NEW e, StackEffect(e)
  PROVE  CallerInv'
  <1>1. \A i : FinalAnswer(i) => FinalAnswer(i)'
    BY StackTells
  <1>2. ASSUME NEW i \in Invites, Closed(Server(i))' PROVE FinalAnswer(i)'
    <2>1. Server(i) \in Tx /\ Server(i)[2] = "server"
      BY TxParts, Methods
    <2>. QED BY <1>1, <1>2, <2>1 DEF StackEffect, CallInv, CallerInv
  <1>3. ASSUME NEW i \in Invites \cap arrived', NEW j \in Invites \cap arrived', i # j
        PROVE  FinalAnswer(i)' \/ FinalAnswer(j)'
    <2>1. CASE i \in arrived /\ j \in arrived
      BY <1>1, <1>3, <2>1 DEF CallInv, CallerInv
    <2>2. ASSUME NEW p \in Invites \cap arrived', p \notin arrived, NEW q \in Invites \cap arrived', q # p
          PROVE  FinalAnswer(q)'
      <3>1. e = Requested(p) /\ p \in Request
        BY <2>2, Arrived
      <3>2. MaySend(p) /\ q \in arrived
        BY <2>2, <3>1 DEF StackEffect
      <3>3. FinalAnswer(q)
        BY <2>2, <3>2, Methods DEF MaySend
      <3>. QED BY <1>1, <3>3
    <2>. QED BY <1>3, <2>1, <2>2
  <1>. QED BY <1>2, <1>3 DEF CallerInv

LEMMA CancelsStacked ==
  ASSUME TypeOK, CallInv, EdgePortAssumption, NEW e, StackEffect(e)
  PROVE  CancelsInv'
  <1>0. queue \in Seq(Event) /\ e \in Event /\ queue' = Append(queue, e)
    BY DEF StackEffect, TypeOK
  <1>. SUFFICES ASSUME NEW r \in CancelRequests, Waits(Requested(r), queue')
                PROVE  CancelOK(r, Cancels[r])'
    BY DEF CancelsInv
  <1>. DEFINE i == Cancels[r]
  <1>1. i \in Invites /\ i \in Request /\ r \in Request /\ r \notin Invites /\ i # r
    BY Methods
  <1>2. /\ \A j : FinalAnswer(j)' <=> FinalAnswer(j)
        /\ arrived \subseteq arrived' /\ Server(i) \in Tx
    BY <1>1, StackTells, TxParts DEF StackEffect, Grows
  <1>3. CASE Waits(Requested(r), queue)
    <2>1. CancelOK(r, i) /\ r \in arrived
      BY <1>1, <1>3 DEF CallInv, CancelsInv, RequestsInv
    <2>2. e # Requested(r) /\ e # Requested(i)
      BY <1>1, <2>1 DEF StackEffect, CancelOK
    <2>3. Ahead(Requested(i), Requested(r), queue') /\ Ahead(Requested(r), Ended(Server(i)), queue')
      BY <1>0, <1>1, <2>1, <2>2, AddedEvent, EventsApart DEF CancelOK
    <2>4. ~Seen(Server(i), queue)'
      BY <1>2, <2>1, StackTells DEF CancelOK
    <2>5. ASSUME NEW j \in Invites \cap arrived', j # i
          PROVE  \/ FinalAnswer(j)'
                 \/ Waits(Requested(j), queue') /\ Ahead(Requested(r), Requested(j), queue')
      <3>1. j \in Request /\ j # r /\ Requested(r) # Requested(j)
        BY <1>1, <2>5, EventsApart, Methods
      <3>2. CASE j \in arrived
        <4>1. \/ FinalAnswer(j)
              \/ Waits(Requested(j), queue) /\ Ahead(Requested(r), Requested(j), queue)
          BY <2>1, <2>5, <3>2 DEF CancelOK
        <4>. QED BY <1>0, <1>2, <2>2, <3>1, <4>1, AddedEvent
      <3>3. CASE j \notin arrived
        <4>1. e = Requested(j)
          BY <3>3, Arrived
        <4>2. ~Waits(Requested(j), queue)
          BY <3>1, <3>3 DEF CallInv, RequestsInv
        <4>3. Ahead(Requested(r), Requested(j), queue)
          BY <4>2 DEF Ahead, Waits
        <4>. QED BY <1>0, <2>2, <3>1, <4>1, <4>3, AddedEvent
      <3>. QED BY <3>2, <3>3
    <2>. HIDE DEF i
    <2>6. CancelOK(r, i)'
      BY <1>2, <2>1, <2>3, <2>4, <2>5 DEF CancelOK
    <2>. QED BY <2>6 DEF i
  <1>4. CASE ~Waits(Requested(r), queue)
    <2>1. e = Requested(r)
      BY <1>4, StackTells
    <2>2. r \notin arrived /\ arrived' = arrived \cup {r} /\ i \in arrived /\ ~FinalAnswer(i)
      <3>1. r \notin arrived /\ arrived' = arrived \cup {r} /\ MaySend(r)
        BY <1>1, <2>1 DEF StackEffect
      <3>. QED BY <1>1, <3>1, Methods DEF MaySend
    <2>3. Ahead(Requested(i), Requested(r), queue')
      <3>1. Ahead(Requested(i), Requested(r), queue) /\ Requested(i) # Requested(r)
        BY <1>1, <1>4, EventsApart DEF Ahead, Waits
      <3>. QED BY <1>0, <2>1, <3>1, AddedEvent
    <2>4. state[Server(i)] # "over"
      BY <1>1, <2>2 DEF CallInv, CallerInv, Closed
    <2>5. ~Waits(Ended(Server(i)), queue)
      BY <1>2, <2>4 DEF CallInv, ResponsesInv
    <2>6. Ahead(Requested(r), Ended(Server(i)), queue')
      <3>1. Ahead(Requested(r), Ended(Server(i)), queue) /\ Requested(r) # Ended(Server(i))
        BY <2>5, EventsApart DEF Ahead, Waits
      <3>. QED BY <1>0, <2>5, <3>1, AddedEvent
    <2>7. ~Seen(Server(i), queue)'
      BY <1>2, <2>4, StackTells DEF Seen
    <2>8. ASSUME NEW j \in Invites \cap arrived', j # i PROVE FinalAnswer(j)'
      BY <1>1, <1>2, <2>2, <2>8 DEF CallInv, CallerInv
    <2>. HIDE DEF i
    <2>9. CancelOK(r, i)'
      BY <1>2, <2>2, <2>3, <2>6, <2>7, <2>8 DEF CancelOK
    <2>. QED BY <2>9 DEF i
  <1>. QED BY <1>3, <1>4

LEMMA AnswersStacked ==
  ASSUME TypeOK, CallInv, EdgePortAssumption, NEW e, StackEffect(e)
  PROVE  AnswersInv'
  <1>0. Grows /\ \A f : Waits(f, queue') <=> Waits(f, queue) \/ f = e
    BY StackTells, AddedEvent DEF StackEffect, TypeOK
  <1>. SUFFICES ASSUME NEW i \in Invites, Closed(Leg(i))'
                PROVE  Settled(i)' \/ \E c \in Final : Waits(Responded(Leg(i)', c), queue')
    BY DEF AnswersInv, Responded
  <1>1. /\ Client(i) \in Tx /\ Client(i)[1] = i /\ Retry(i) \in Tx /\ Retry(i)[1] = i
    BY TxParts, Methods
  <1>2. Leg(i)' = Leg(i) /\ Leg(i) \in Tx /\ Leg(i)[1] = i
    BY <1>1 DEF StackEffect, Rises, Leg
  <1>3. CASE Closed(Leg(i))
    <2>1. Settled(i) \/ \E c \in Final : Waits(Responded(Leg(i), c), queue)
      BY <1>3 DEF CallInv, AnswersInv
    <2>. QED BY <1>0, <1>2, <2>1, GrownAnswers
  <1>4. CASE ~Closed(Leg(i))
    <2>1. state'[Leg(i)] \in {"closed", "over"}
      BY <1>2 DEF Closed
    <2>2. i \in faults' \/ \E c \in Final : e = Responded(Leg(i), c)
      BY <1>2, <1>4, <2>1 DEF StackEffect, Closed
    <2>. QED BY <1>0, <1>2, <2>2 DEF Settled
  <1>. QED BY <1>3, <1>4

LEMMA StackKeeps ==
  ASSUME TypeOK, CallInv, EdgePortAssumption, NEW e, StackEffect(e)
  PROVE  CallInv'
  <1>1. RequestsInv' /\ ResponsesInv' /\ CallerInv' /\ CancelsInv' /\ AnswersInv'
    BY RequestsStacked, ResponsesStacked, CallerStacked, CancelsStacked, AnswersStacked
  <1>2. /\ Tells /\ \A f : Waits(f, queue') => Waits(f, queue) \/ f = e
        /\ \A t \in Tx : Seen(t, queue) => Seen(t, queue)'
        /\ Passed' = Passed /\ LastPassed' = LastPassed
    BY StackTells
  <1>3. RelayedInv' /\ CancelledInv'
    BY <1>2, RelayedKept, CancelledKept DEF CallInv
  <1>4. FailuresInv'
    BY <1>2 DEF CallInv, FailuresInv, StackEffect, Tells, Grows
  <1>5. ClientsInv'
    <2>1. \A r \in Passed' : r \in Passed /\ r \in Request
      BY <1>2, PassedLast DEF TypeOK
    <2>2. \A t \in Tx : state'[t] # "none" => state[t] # "none"
      BY DEF StackEffect
    <2>3. \A t \in Tx : t[2] = "retry" /\ state'[t] # "none" => t[1] \in Accounts /\ Closed(Client(t[1]))'
      BY <1>2, <2>2, TxParts DEF CallInv, ClientsInv, Tells, Rises
    <2>4. \A t \in Tx : t[2] # "server" /\ state'[t] # "none" => t[1] \in CancelRequests \cup Passed'
      BY <1>2, <2>2 DEF CallInv, ClientsInv
    <2>5. \A r \in Passed' : /\ r \in (Invites \cup Others) \cap arrived'
                             /\ state'[Server(r)] # "none" /\ state'[Client(r)] # "none"
      BY <1>2, <2>1, TxParts DEF CallInv, ClientsInv, Tells, Rises, Grows
    <2>. QED BY <2>3, <2>4, <2>5 DEF ClientsInv
  <1>6. PairInv'
    <2>1. client' = client /\ server' = server
      BY DEF StackEffect, pair
    <2>2. Unpaired => Unpaired'
      BY <1>2 DEF Unpaired, Tells, Grows
    <2>. QED BY <1>2, <2>1, <2>2 DEF CallInv, PairInv
  <1>7. AcksInv'
    <2>1. ASSUME NEW r \in Acks, Waits(Requested(r), queue')
          PROVE  \E x \in relayed' : x.to \in Invites
      <3>1. relayed' = relayed /\ r \in Request /\ r \notin Invites /\ r \notin CancelRequests
        BY Methods DEF StackEffect, Acks
      <3>2. CASE Waits(Requested(r), queue)
        BY <3>1, <3>2 DEF CallInv, AcksInv
      <3>3. CASE e = Requested(r)
        BY <3>1, <3>3 DEF StackEffect, MaySend
      <3>. QED BY <1>2, <2>1, <3>2, <3>3
    <2>2. \A x \in acked' : AckOK(x)'
      BY <1>2, AckedKept DEF CallInv
    <2>. QED BY <2>1, <2>2 DEF AcksInv
  <1>. QED BY <1>1, <1>3, <1>4, <1>5, <1>6, <1>7 DEF CallInv

LEMMA ArriveEffect ==
  ASSUME TypeOK, NEW r \in Request, Arrive(r)
  PROVE  StackEffect(Requested(r))
  <1>. DEFINE e == Requested(r)
  <1>1. e.type = "request" /\ e.request = r /\ e \in Event
    BY EventsApart, EventTypes
  <1>2. /\ queue' = Append(queue, e) /\ UNCHANGED <<state, pair, outputs>>
        /\ r \notin arrived /\ MaySend(r) /\ arrived' = arrived \cup {r}
    BY DEF Arrive, Enqueue, Requested
  <1>3. \A t, c : e # Responded(t, c) /\ e # Ended(t)
    BY <1>1, EventsApart
  <1>4. \A q : e = Requested(q) => q = r
    BY EventsApart
  <1>. HIDE DEF e
  <1>5. Grows /\ UNCHANGED <<relayed, cancelled, acked, forwarded, faults>>
    BY <1>2, PassedSame DEF Grows, outputs
  <1>6. Rises /\ \A t \in Tx : Closed(t)' => Closed(t)
    BY <1>2 DEF Rises, Closed
  <1>7. StackEffect(e)
    BY <1>1, <1>2, <1>3, <1>4, <1>5, <1>6 DEF StackEffect
  <1>. QED BY <1>7 DEF e

LEMMA RespondEffect ==
  ASSUME TypeOK, CallInv, EdgePortAssumption, NEW t \in Tx, NEW c \in Code, Respond(t, c)
  PROVE  StackEffect(Responded(t, c))
  <1>. DEFINE e == Responded(t, c)
  <1>1. e.type = "response" /\ e \in Event
    BY EventsApart, EventTypes
  <1>2. /\ queue' = Append(queue, e) /\ UNCHANGED <<pair, arrived, outputs>>
        /\ state[t] = "open" /\ t[2] # "server" /\ c \in Answers(t)
        /\ state' = [state EXCEPT ![t] = IF c \in Final THEN "closed" ELSE @]
    BY DEF Respond, Enqueue, Responded
  <1>3. \A q : e # Requested(q) /\ e # Ended(q)
    BY <1>1, EventsApart
  <1>4. \A u, d : e = Responded(u, d) => u = t /\ d = c
    BY EventsApart
  <1>5. state'[t] = (IF c \in Final THEN "closed" ELSE "open") /\ \A u \in Tx : u # t => state'[u] = state[u]
    BY <1>2 DEF TypeOK
  <1>6. Grows /\ UNCHANGED <<relayed, cancelled, acked, forwarded, faults>>
    BY <1>2, PassedSame DEF Grows, outputs
  <1>7. /\ Rises /\ \A u \in Tx : state[u] = "none" => state'[u] = "none"
        /\ \A u \in Tx : state'[u] = "over" => state[u] = "over"
        /\ \A u \in Tx : Closed(u)' /\ ~Closed(u) => u = t /\ c \in Final
    <2>1. \A u \in Tx : u = t \/ state'[u] = state[u]
      BY <1>5
    <2>. QED BY <1>2, <1>5, <2>1 DEF Rises, Closed
  <1>8. ResponseOK(t, c)'
    <2>1. t[2] # "server" /\ state'[t] # "none" /\ (c \in Final => Closed(t)') /\ ~Seen(t, queue)'
      BY <1>2, <1>5 DEF Closed, Seen
    <2>2. ASSUME c = "challenge"
          PROVE  t = Client(t[1]) /\ t[1] \in Invites /\ state'[Retry(t[1])] = "none"
      <3>1. t[1] \in Invites /\ t[2] # "retry"
        BY <1>2, <2>2 DEF Answers
      <3>2. t = Client(t[1]) /\ Retry(t[1]) \in Tx /\ Retry(t[1])[1] = t[1]
            /\ Retry(t[1])[2] = "retry" /\ Retry(t[1]) # t
        BY <1>2, <3>1, Methods, TxParts DEF Tx, Client
      <3>3. state[Retry(t[1])] = "none"
        BY <1>2, <3>2 DEF CallInv, ClientsInv, Closed
      <3>. QED BY <1>5, <3>1, <3>2, <3>3
    <2>3. ASSUME c = "terminated"
          PROVE  \E r \in CancelRequests : <<r, t>> \in cancelled'
      <3>1. PICK x \in cancelled : x[2] = t
        BY <1>2, <2>3 DEF Answers
      <3>2. x \in CancelRequests \X Tx
        BY DEF TypeOK
      <3>3. x[1] \in CancelRequests /\ x = <<x[1], t>>
        BY <3>1, <3>2
      <3>. QED BY <1>6, <3>3
    <2>. QED BY <2>1, <2>2, <2>3 DEF ResponseOK
  <1>9. \A u \in Tx : Closed(u)' /\ ~Closed(u) =>
          u[2] # "server" /\ (u[1] \in faults' \/ \E d \in Final : e = Responded(u, d))
    BY <1>2, <1>7
  <1>. HIDE DEF e
  <1>10. StackEffect(e)
    BY <1>1, <1>2, <1>3, <1>4, <1>6, <1>7, <1>8, <1>9 DEF StackEffect
  <1>. QED BY <1>10 DEF e

LEMMA TimeoutEffect ==
  ASSUME TypeOK, NEW t \in Tx, Timeout(t)
  PROVE  \E e : StackEffect(e)
  <1>1. PICK e : e = [type |-> "timeout", tx |-> t]
    OBVIOUS
  <1>2. e.type = "timeout" /\ e \in Event
    BY <1>1 DEF Event
  <1>3. /\ queue' = Append(queue, e)
        /\ UNCHANGED <<pair, arrived, relayed, cancelled, acked, forwarded>>
        /\ state[t] = "open" /\ t[2] # "server" /\ state' = [state EXCEPT ![t] = "closed"]
        /\ faults' = faults \cup {t[1]}
    BY <1>1 DEF Timeout, Enqueue, Fault
  <1>4. \A q, c : e # Requested(q) /\ e # Ended(q) /\ e # Responded(q, c)
    BY <1>2, EventsApart
  <1>5. state'[t] = "closed" /\ \A u \in Tx : u # t => state'[u] = state[u]
    BY <1>3 DEF TypeOK
  <1>6. Grows
    BY <1>3, PassedSame DEF Grows
  <1>7. /\ Rises /\ \A u \in Tx : state[u] = "none" => state'[u] = "none"
        /\ \A u \in Tx : state'[u] = "over" => state[u] = "over"
        /\ \A u \in Tx : Closed(u)' /\ ~Closed(u) => u = t
    <2>1. \A u \in Tx : u = t \/ state'[u] = state[u]
      BY <1>5
    <2>2. /\ state[t] # "none" /\ state'[t] # "none" /\ ~Closed(t) /\ Closed(t)'
          /\ state[t] # "over" /\ state'[t] # "over"
      BY <1>3, <1>5 DEF Closed
    <2>3. \A u \in Tx : state'[u] = state[u] => (Closed(u)' <=> Closed(u))
      BY DEF Closed
    <2>4. Rises
      BY <2>1, <2>2, <2>3 DEF Rises
    <2>. QED BY <2>1, <2>2, <2>3, <2>4
  <1>8. faults' # {} /\ t[1] \in faults'
    BY <1>3
  <1>9. StackEffect(e)
    <2>1. \A u \in Tx : Closed(u)' /\ ~Closed(u) =>
            u[2] # "server" /\ (u[1] \in faults' \/ \E d \in Final : e = Responded(u, d))
      BY <1>3, <1>7, <1>8
    <2>2. \A u \in Tx : state'[u] = "over" /\ state[u] # "over" => e = Ended(u)
      BY <1>7
    <2>3. /\ arrived' = arrived
          /\ UNCHANGED <<pair, relayed, cancelled, acked, forwarded>>
      BY <1>3
    <2>4. Rises /\ \A u \in Tx : state[u] = "none" => state'[u] = "none"
      BY <1>7
    <2>. QED BY <1>2, <1>3, <1>4, <1>6, <1>8, <2>1, <2>2, <2>3, <2>4, Zenon DEF StackEffect
  <1>. QED BY <1>9

LEMMA TerminateEffect ==
  ASSUME TypeOK, NEW t \in Tx, Terminate(t)
  PROVE  StackEffect(Ended(t))
  <1>. DEFINE e == Ended(t)
  <1>1. e.type = "terminated" /\ e \in Event
    BY EventsApart, EventTypes
  <1>2. /\ queue' = Append(queue, e) /\ UNCHANGED <<pair, arrived, outputs>>
        /\ state[t] = "closed" /\ state' = [state EXCEPT ![t] = "over"]
    BY DEF Terminate, Enqueue, Ended
  <1>3. \A q, c : e # Requested(q) /\ e # Responded(q, c)
    BY <1>1, EventsApart
  <1>4. \A u : e = Ended(u) => u = t
    BY EventsApart
  <1>5. state'[t] = "over" /\ \A u \in Tx : u # t => state'[u] = state[u]
    BY <1>2 DEF TypeOK
  <1>6. Grows /\ UNCHANGED <<relayed, cancelled, acked, forwarded, faults>>
    BY <1>2, PassedSame DEF Grows, outputs
  <1>7. /\ Rises /\ \A u \in Tx : state[u] = "none" => state'[u] = "none"
        /\ \A u \in Tx : state'[u] = "over" /\ state[u] # "over" => u = t
        /\ \A u \in Tx : Closed(u)' => Closed(u)
    <2>1. \A u \in Tx : u = t \/ state'[u] = state[u]
      BY <1>5
    <2>. QED BY <1>2, <1>5, <2>1 DEF Rises, Closed
  <1>8. \A u \in Tx : state'[u] = "over" /\ state[u] # "over" => e = Ended(u)
    BY <1>7
  <1>. HIDE DEF e
  <1>9. StackEffect(e)
    BY <1>1, <1>2, <1>3, <1>4, <1>5, <1>6, <1>7, <1>8 DEF StackEffect
  <1>. QED BY <1>9 DEF e

LEMMA TransportFailsEffect ==
  ASSUME TypeOK, TransportFails
  PROVE  \E e : StackEffect(e)
  <1>1. PICK e : e = [type |-> "ioerror"]
    OBVIOUS
  <1>2. e.type = "ioerror" /\ e \in Event
    BY <1>1 DEF Event
  <1>3. /\ queue' = Append(queue, e)
        /\ UNCHANGED <<state, pair, arrived, relayed, cancelled, acked, forwarded>>
        /\ faults = {} /\ faults' # {}
    BY <1>1 DEF TransportFails, Enqueue
  <1>4. \A q, c : e # Requested(q) /\ e # Ended(q) /\ e # Responded(q, c)
    BY <1>2, EventsApart
  <1>5. Grows
    BY <1>3, PassedSame DEF Grows
  <1>6. Rises /\ \A u \in Tx : Closed(u)' => Closed(u)
    BY <1>3 DEF Rises, Closed
  <1>7. StackEffect(e)
    BY <1>2, <1>3, <1>4, <1>5, <1>6 DEF StackEffect
  <1>. QED BY <1>7

-----------------------------------------------------------------------------
LEMMA CallInit == Init => CallInv
  <1>. SUFFICES ASSUME Init PROVE CallInv
    OBVIOUS
  <1>1. /\ queue = <<>> /\ client = None /\ server = None
        /\ arrived = {} /\ relayed = {} /\ cancelled = {} /\ acked = {} /\ forwarded = <<>>
        /\ \A t \in Tx : state[t] = "none"
    BY DEF Init
  <1>2. (\A e : ~Waits(e, queue) /\ Once(e, queue)) /\ \A e, f : Ahead(e, f, queue)
    BY <1>1 DEF Waits, Once, Ahead
  <1>3. Passed = {} /\ \A t \in Tx : ~Closed(t)
    BY <1>1 DEF Passed, Closed
  <1>4. RequestsInv
    BY <1>1, <1>2, TxParts DEF RequestsInv
  <1>5. ResponsesInv /\ FailuresInv
    BY <1>2 DEF ResponsesInv, FailuresInv
  <1>6. ClientsInv /\ PairInv
    BY <1>1, <1>3 DEF ClientsInv, PairInv
  <1>7. RelayedInv /\ CancelledInv /\ AcksInv /\ CancelsInv
    BY <1>1, <1>2 DEF RelayedInv, CancelledInv, AcksInv, CancelsInv
  <1>8. CallerInv
    BY <1>1, <1>3, TxParts DEF CallerInv, Invites
  <1>9. AnswersInv
    BY <1>3, TxParts DEF AnswersInv, Leg, Invites
  <1>. QED BY <1>4, <1>5, <1>6, <1>7, <1>8, <1>9 DEF CallInv

LEMMA CallStutter ==
  ASSUME CallInv, UNCHANGED vars
  PROVE  CallInv'
  <1>1. /\ queue' = queue /\ state' = state /\ client' = client /\ server' = server
        /\ arrived' = arrived /\ relayed' = relayed /\ cancelled' = cancelled /\ acked' = acked
        /\ forwarded' = forwarded /\ faults' = faults
    BY DEF vars, pair, outputs
  <1>2. /\ Passed' = Passed /\ LastPassed' = LastPassed /\ \A i : Later(i)' = Later(i)
        /\ Ending' = Ending
    BY <1>1, PassedSame DEF Ending
  <1>3. /\ \A i : FinalAnswer(i)' <=> FinalAnswer(i)
        /\ \A i : CancelAnswered(i)' <=> CancelAnswered(i)
        /\ \A t : Closed(t)' <=> Closed(t)
        /\ \A t : Seen(t, queue)' <=> Seen(t, queue)
        /\ \A i : Leg(i)' = Leg(i)
    BY <1>1 DEF FinalAnswer, CancelAnswered, Closed, Seen, Leg
  <1>4. \A i : (NeverPassed(i)' <=> NeverPassed(i)) /\ (Settled(i)' <=> Settled(i))
    BY <1>1, <1>2, <1>3 DEF NeverPassed, Settled
  <1>5. RequestsInv' /\ FailuresInv'
    BY <1>1 DEF CallInv, RequestsInv, FailuresInv
  <1>6. ResponsesInv'
    BY <1>1, <1>3 DEF CallInv, ResponsesInv, ResponseOK
  <1>7. ClientsInv'
    BY <1>1, <1>2, <1>3 DEF CallInv, ClientsInv
  <1>8. PairInv'
    BY <1>1, <1>2, <1>3 DEF CallInv, PairInv, Unpaired
  <1>9. RelayedInv'
    BY <1>1, <1>2 DEF CallInv, RelayedInv, RelayedOK
  <1>10. CallerInv' /\ CancelsInv'
    BY <1>1, <1>3 DEF CallInv, CallerInv, CancelsInv, CancelOK
  <1>11. CancelledInv'
    BY <1>1, <1>2, <1>3, <1>4 DEF CallInv, CancelledInv, CancelledOK, HandledOK
  <1>12. AcksInv'
    BY <1>1, <1>2, <1>4 DEF CallInv, AcksInv, AckOK
  <1>13. AnswersInv'
    <2>1. ASSUME NEW i \in Invites, Closed(Leg(i))'
          PROVE  Settled(i)' \/ \E c \in Final : Waits(Responded(Leg(i)', c), queue')
      <3>1. state[Leg(i)] \in {"closed", "over"}
        BY <1>1, <1>3, <2>1 DEF Closed
      <3>. QED BY <1>1, <1>3, <1>4, <3>1 DEF CallInv, AnswersInv, Closed
    <2>. QED BY <2>1 DEF AnswersInv, Responded
  <1>. QED BY <1>5, <1>6, <1>7, <1>8, <1>9, <1>10, <1>11, <1>12, <1>13 DEF CallInv

LEMMA CallNext == TypeOK /\ CallInv /\ [Next]_vars => CallInv'
  <1>. SUFFICES ASSUME TypeOK, CallInv, [Next]_vars PROVE CallInv'
    OBVIOUS
  <1>0. EdgePortAssumption
    BY EdgePortAssumption
  <1>1. CASE UNCHANGED vars
    BY <1>1, CallStutter
  <1>2. ASSUME NEW r \in Request, Arrive(r) PROVE CallInv'
    BY <1>0, <1>2, ArriveEffect, StackKeeps
  <1>3. ASSUME NEW t \in Tx, NEW c \in Code, Respond(t, c) PROVE CallInv'
    BY <1>0, <1>3, RespondEffect, StackKeeps
  <1>4. ASSUME NEW t \in Tx, Timeout(t) PROVE CallInv'
    BY <1>0, <1>4, TimeoutEffect, StackKeeps
  <1>5. ASSUME NEW t \in Tx, Terminate(t) PROVE CallInv'
    BY <1>0, <1>5, TerminateEffect, StackKeeps
  <1>6. CASE TransportFails
    BY <1>0, <1>6, TransportFailsEffect, StackKeeps
  <1>7. CASE \/ ProcessRequest \/ ProcessResponse \/ ProcessTimeout
             \/ ProcessTransactionTerminated \/ ProcessIOException
    BY <1>7, HandlersKeep
  <1>. QED BY <1>1, <1>2, <1>3, <1>4, <1>5, <1>6, <1>7 DEF Next

LEMMA CallAlways == Spec => [](TypeOK /\ CallInv)
  BY TypeCorrect, CallInit, CallNext, PTL DEF Spec

(* A leg that the stack knows belongs to an INVITE that was forwarded.     *)
LEMMA KnownPassed ==
  ASSUME CallInv, EdgePortAssumption, NEW i \in Invites,
         state[Client(i)] # "none" \/ state[Retry(i)] # "none"
  PROVE  i \in Passed
  BY TxParts, Methods DEF CallInv, ClientsInv

(* Every response that a user agent gets answers a request of its own:     *)
(* only a later request takes one that is not its own, and only after the  *)
(* end of another transaction, or a failure, has it a foreign CSeq.  For   *)
(* any calls, any failures and any order of events.                        *)
THEOREM OwnAnswers == Spec => []AnswersItsRequest
  <1>1. CallInv => AnswersItsRequest
    BY DEF CallInv, RelayedInv, RelayedOK, AnswersItsRequest
  <1>. QED BY <1>1, CallAlways, PTL

(* A CANCEL that is handled while the callee rings reaches the callee, but *)
(* for the ways out that the property names, in every call.                *)
THEOREM CancelsArrive == Spec => []CancelLostOnlyAfterEnd
  <1>1. TypeOK /\ CallInv => CancelLostOnlyAfterEnd
    <2>. SUFFICES ASSUME TypeOK, CallInv, NEW r \in CancelRequests, NEW i, i = Cancels[r], faults = {},
                         Response(None, r, "ok", TRUE) \in relayed, state[Leg(i)] = "open"
                  PROVE  \/ <<r, Leg(i)>> \in cancelled
                         \/ Leg(i) = Retry(i) /\ <<r, Client(i)>> \in cancelled
                         \/ \E j \in Invites \ {i} : <<r, Retry(j)>> \in cancelled
                         \/ \E t \in Ending : t \notin {Leg(i), Server(i)}
                         \/ Later(i) # {}
      BY DEF CancelLostOnlyAfterEnd
    <2>0. EdgePortAssumption
      BY EdgePortAssumption
    <2>1. i \in Invites /\ HandledOK(r, i)
      BY <2>0, Methods DEF CallInv, CancelledInv
    <2>2. ~NeverPassed(i)
      BY <2>0, <2>1, KnownPassed DEF NeverPassed, Leg
    <2>3. ASSUME NEW t \in Tx, <<r, t>> \in cancelled, t[1] = i \/ t[2] = "retry"
          PROVE  \/ <<r, Leg(i)>> \in cancelled
                 \/ Leg(i) = Retry(i) /\ <<r, Client(i)>> \in cancelled
                 \/ \E j \in Invites \ {i} : <<r, Retry(j)>> \in cancelled
      <3>1. t[2] # "server" /\ state[t] # "none" /\ t[1] \in Invites
        BY <2>3 DEF CallInv, CancelledInv, CancelledOK
      <3>2. t = Client(t[1]) \/ t = Retry(t[1])
        BY <3>1 DEF Tx, Client, Retry
      <3>3. CASE t[1] = i
        BY <2>3, <3>1, <3>2, <3>3 DEF Leg
      <3>4. CASE t[1] # i
        <4>1. t = Retry(t[1])
          BY <2>3, <3>2, <3>4 DEF Client
        <4>. QED BY <2>3, <3>1, <3>4, <4>1
      <3>. QED BY <3>3, <3>4
    <2>4. \A t \in Ending : t # Leg(i)
      BY DEF Ending
    <2>. QED BY <2>1, <2>2, <2>3, <2>4 DEF HandledOK
  <1>. QED BY <1>1, CallAlways, PTL

(* The ACK of a call whose one INVITE was authenticated on behalf of the   *)
(* caller has the CSeq of the retry until a transaction of the call ends,  *)
(* another request is forwarded or a part fails, in every call.            *)
THEOREM AcksNumbered == Spec => []AckUnnumberedOnlyAfterEnd
  <1>1. CallInv => AckUnnumberedOnlyAfterEnd
    <2>. SUFFICES ASSUME CallInv, NEW x \in acked, NEW i \in Invites, ~x[2],
                         Invites \cap arrived = {i}, state[Retry(i)] # "none"
                  PROVE  Ending # {} \/ Later(i) # {} \/ faults # {}
      BY DEF AckUnnumberedOnlyAfterEnd
    <2>0. EdgePortAssumption
      BY EdgePortAssumption
    <2>1. i \in Passed
      BY <2>0, KnownPassed
    <2>2. i \in Accounts
      BY <2>0, TxParts, Methods DEF CallInv, ClientsInv
    <2>3. AckOK(x)
      BY DEF CallInv, AcksInv
    <2>. QED BY <2>1, <2>2, <2>3 DEF AckOK, NeverPassed
  <1>. QED BY <1>1, CallAlways, PTL

(* No caller waits for an answer that its callee gave: an INVITE whose     *)
(* callee has answered has a final response unless it met a failure, a     *)
(* later request took the call, or the processor answered its CANCEL.      *)
THEOREM CalleesHeard == Spec => []InviteAnswered
  <1>1. CallInv => InviteAnswered
    <2>. SUFFICES ASSUME CallInv, NEW i \in Invites \ faults, Closed(Leg(i)),
                         \A n \in DOMAIN queue : queue[n].type # "response"
                  PROVE  FinalAnswer(i) \/ Later(i) # {} \/ CancelAnswered(i)
      BY DEF InviteAnswered, Closed
    <2>1. \A t, c : ~Waits(Responded(t, c), queue)
      BY EventsApart DEF Waits
    <2>. QED BY <2>1 DEF CallInv, AnswersInv, Settled
  <1>. QED BY <1>1, CallAlways, PTL
=============================================================================
