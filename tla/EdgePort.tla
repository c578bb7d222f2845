------------------------------ MODULE EdgePort ------------------------------
(***************************************************************************)
(* The EdgePort of Routr (mods/edgeport): the SIP listener in front of the *)
(* Message Dispatcher, for the requests of one call.                       *)
(*                                                                         *)
(* The stack's REENTRANT_LISTENER is "false", so one thread hands the      *)
(* events of all transactions to the listener, one at a time and in the    *)
(* order they came.  A handler is therefore one action: what happens while *)
(* it waits for the Dispatcher waits in the queue behind it.               *)
(*                                                                         *)
(* The listener keeps one client and one server transaction per Call-ID,   *)
(* while a call has several at once: each request has a server             *)
(* transaction, a forwarded one a client transaction, and an INVITE that   *)
(* is authenticated on behalf of the caller another one, the retry.        *)
(***************************************************************************)
EXTENDS Naturals, Sequences, FiniteSets

CONSTANTS
  Request,    \* requests of a call, each in a transaction of its own
  Calls,      \* the sets of requests a call is made of
  Method,     \* the method of each: INVITE, CANCEL, ACK, or another
  Cancels,    \* the INVITE each CANCEL is for
  Accounts,   \* the INVITEs the processor gives credentials for
  MaxQueue,   \* bound on the events that wait
  MayFail,    \* bound: the requests that can meet a failure
  None        \* no transaction

Invites == {r \in Request : Method[r] = "INVITE"}
CancelRequests == {r \in Request : Method[r] = "CANCEL"}
Acks == {r \in Request : Method[r] = "ACK"}
Others == Request \ (Invites \cup CancelRequests \cup Acks)

ASSUME EdgePortAssumption ==
  /\ IsFiniteSet(Request) /\ Calls \subseteq SUBSET Request
  /\ Method \in [Request -> {"INVITE", "CANCEL", "ACK", "BYE", "UPDATE"}]
  /\ Cancels \in [CancelRequests -> Invites]
  /\ Accounts \subseteq Invites
  /\ MaxQueue \in Nat /\ MayFail \subseteq Request

Server(r) == <<r, "server">>
Client(r) == <<r, "client">>
Retry(r) == <<r, "retry">>
Tx == Request \X {"server", "client", "retry"}

Provisional == {"ringing"}
Final == {"ok", "reject", "challenge", "terminated"}
Code == Provisional \cup Final

ASSUME NoneAssumption == None \notin Tx

VARIABLES
  queue,      \* the events the stack has for the listener
  state,      \* the transactions of the stack
  client,     \* activeTransactions: the entry callId_client
  server,     \* and the entry callId_server
  arrived,    \* requests that reached the stack
  relayed,    \* responses the senders of requests received
  cancelled,  \* for each CANCEL, the transaction it was sent for
  acked,      \* the ACKs that were forwarded, with their CSeq
  forwarded,  \* requests in the order they were forwarded
  faults,     \* requests that met a failure of another part
  events      \* the kinds of call events published

pair == <<client, server>>
outputs == <<relayed, cancelled, acked, forwarded, faults, events>>
vars == <<queue, state, pair, arrived, outputs>>

Event ==
  [type : {"request"}, request : Request] \cup
  [type : {"response"}, tx : Tx, code : Code] \cup
  [type : {"timeout", "terminated"}, tx : Tx] \cup
  [type : {"ioerror"}]

TxState == {"none", "open", "closed", "over"}

(* A response as its receiver sees it: the transaction it comes from (None *)
(* when the EdgePort made it), the request it answers, and whether its     *)
(* CSeq is that of the request.                                            *)
Relayed ==
  [from : Tx \cup {None}, to : Request, code : Code, sameCSeq : BOOLEAN]

-----------------------------------------------------------------------------
(* The stack and its peers                                                 *)

Enqueue(e) == Len(queue) < MaxQueue /\ queue' = Append(queue, e)
Fault(r) == r \in MayFail /\ faults' = faults \cup {r}

FinalAnswer(r) == \E x \in relayed : x.to = r /\ x.code \in Final
Established(r) ==
  \E x \in relayed : x.to = r /\ x.code \in {"ringing", "ok"}

(* What a user agent may send: an INVITE when its earlier ones are         *)
(* answered, a CANCEL or an ACK for an INVITE, another request within the  *)
(* dialog, the early one included.                                         *)
MaySend(r) ==
  CASE r \in Invites -> \A q \in (Invites \cap arrived) : FinalAnswer(q)
    [] r \in CancelRequests -> Cancels[r] \in arrived /\ ~FinalAnswer(Cancels[r])
    [] r \in Acks -> \E x \in relayed : x.to \in Invites /\ x.code = "ok"
    [] OTHER -> \E i \in Invites : Established(i)

Arrive(r) ==
  /\ r \notin arrived /\ MaySend(r)
  /\ \E call \in Calls : arrived \cup {r} \subseteq call
  /\ arrived' = arrived \cup {r}
  /\ Enqueue([type |-> "request", request |-> r])
  /\ UNCHANGED <<state, pair, outputs>>

Answers(t) ==
  CASE t[1] \notin Invites -> {"ok"}
    [] \E c \in cancelled : c[2] = t -> {"ok", "terminated"}
    [] t[2] = "retry" -> {"ringing", "ok", "reject"}
    [] OTHER -> {"ringing", "ok", "reject", "challenge"}

(* The peer of a client transaction responds.  A retry is not challenged   *)
(* again, and a phone rings once.                                          *)
Respond(t, c) ==
  /\ state[t] = "open" /\ t[2] # "server"
  /\ c \in Answers(t)
  /\ c = "ringing" => \A x \in relayed : x.from # t
  /\ c = "ringing" =>
       \A n \in DOMAIN queue : queue[n] # [type |-> "response", tx |-> t, code |-> c]
  /\ state' = [state EXCEPT ![t] = IF c \in Final THEN "closed" ELSE @]
  /\ Enqueue([type |-> "response", tx |-> t, code |-> c])
  /\ UNCHANGED <<pair, arrived, outputs>>

(* A client transaction times out, and terminates later.                   *)
Timeout(t) ==
  /\ t[2] # "server" /\ state[t] = "open"
  /\ state' = [state EXCEPT ![t] = "closed"]
  /\ Fault(t[1])
  /\ Enqueue([type |-> "timeout", tx |-> t])
  /\ UNCHANGED <<pair, arrived, relayed, cancelled, acked, forwarded, events>>

(* A transaction that has its final response terminates, after its timer.  *)
Terminate(t) ==
  /\ state[t] = "closed"
  /\ state' = [state EXCEPT ![t] = "over"]
  /\ Enqueue([type |-> "terminated", tx |-> t])
  /\ UNCHANGED <<pair, arrived, outputs>>

(* A transport of the call fails, which counts as a failure of each        *)
(* request.                                                                *)
TransportFails ==
  /\ arrived # {} /\ faults = {} /\ MayFail # {}
  /\ faults' = MayFail
  /\ Enqueue([type |-> "ioerror"])
  /\ UNCHANGED <<state, pair, arrived, relayed, cancelled, acked, forwarded, events>>

-----------------------------------------------------------------------------
(* TransactionManager                                                      *)

putTransactions_Swapped(r) == client' = Server(r) /\ server' = Client(r)
putTransactions_NoServer(r) == client' = Client(r) /\ UNCHANGED server
putTransactions(r) == client' = Client(r) /\ server' = Server(r)
removeTransactions_ClientOnly == client' = None /\ UNCHANGED server
removeTransactions == client' = None /\ server' = None
updateClientTransaction_Removes(t) == client' = None /\ UNCHANGED server
updateClientTransaction(t) == client' = t /\ UNCHANGED server

-----------------------------------------------------------------------------
(* processRequest                                                          *)

(* The listener takes the next event.                                      *)
Takes(type) ==
  queue # <<>> /\ Head(queue).type = type /\ queue' = Tail(queue)

Opened(t) == [state EXCEPT ![t] = "open"]
Response(t, r, c, same) == [from |-> t, to |-> r, code |-> c, sameCSeq |-> same]

(* A response leaves on a server transaction that still takes one, as an   *)
(* answer to its request; sending on any other is an error that is logged. *)
SendOn(r, t, c, st) ==
  \/ /\ st[Server(r)] # "open"
     /\ state' = st
     /\ UNCHANGED relayed
  \/ /\ st[Server(r)] = "open"
     /\ state' = [st EXCEPT ![Server(r)] = IF c \in Final THEN "closed" ELSE @]
     /\ relayed' = relayed \cup {Response(t, r, c, TRUE)}

(* The Dispatcher fails: the exception is logged, and the request stays    *)
(* without an answer.                                                      *)
DispatchFails(r) ==
  /\ state' = IF r \in Acks THEN state ELSE Opened(Server(r))
  /\ Fault(r)
  /\ UNCHANGED <<pair, arrived, relayed, cancelled, acked, forwarded, events>>

(* sendResponse: the processor answers a request that is not a CANCEL.     *)
AnswerLocally(r) ==
  /\ r \in Invites \cup Others
  /\ \E c \in {"ok", "reject"} : SendOn(r, None, c, Opened(Server(r)))
  /\ UNCHANGED <<pair, arrived, cancelled, acked, forwarded, faults, events>>

(* sendRequest: the request is sent in a client transaction, and then the  *)
(* two become the transactions of the call.  The event is published        *)
(* before, also when the request cannot be sent.                           *)
Forward(r) ==
  /\ r \in Invites \cup Others
  /\ events' = IF r \in Invites THEN events \cup {"started"} ELSE events
  /\ \/ /\ state' = [state EXCEPT ![Server(r)] = "open", ![Client(r)] = "open"]
        /\ putTransactions(r)
        /\ forwarded' = Append(forwarded, r)
        /\ UNCHANGED faults
     \/ /\ state' = Opened(Server(r))
        /\ Fault(r)
        /\ UNCHANGED <<pair, forwarded>>
  /\ UNCHANGED <<arrived, relayed, cancelled, acked>>

(* sendRequest of an ACK, which has no transaction.  Its CSeq is increased *)
(* when the client transaction of the call has credentials.                *)
ForwardAck(r) ==
  /\ r \in Acks
  /\ acked' = acked \cup {<<r, client # None /\ client[1] \in Accounts>>}
  /\ UNCHANGED <<state, pair, arrived, relayed, cancelled, forwarded, faults,
                 events>>

(* The CANCEL is answered c.  If the handler gets on, the client           *)
(* transaction of the call is cancelled, and 487 is sent on the server     *)
(* transaction.  The stack refuses that for another method than INVITE,    *)
(* and may no longer find a transaction that is over.                      *)
CancelCall(r, c, getsOn) ==
  \E found \in IF getsOn /\ state[client] = "over" THEN BOOLEAN ELSE {TRUE} :
    LET cancels == getsOn /\ found /\ client[1] \in Invites
        terminates == cancels /\ server # None /\ state[server] = "open"
    IN  /\ state' = [t \in Tx |->
             CASE t = Server(r) -> "closed"
               [] t = Client(r) /\ cancels -> "open"
               [] t = server /\ terminates -> "closed"
               [] OTHER -> state[t]]
        /\ cancelled' = cancelled \cup IF cancels THEN {<<r, client>>} ELSE {}
        /\ relayed' = relayed \cup {Response(None, r, c, TRUE)} \cup
             IF terminates THEN {Response(None, server[1], "terminated", TRUE)}
                           ELSE {}

(* sendCancel.  The call is reported ended first.  Without the two         *)
(* transactions of the call the handler ends with a NullPointerException.  *)
ForwardCancel(r) ==
  /\ r \in CancelRequests
  /\ events' = events \cup {"ended"}
  /\ CancelCall(r, "ok", client # None /\ server # None)
  /\ UNCHANGED <<pair, arrived, acked, forwarded, faults>>

(* sendResponse: the processor answers a CANCEL.  With a client            *)
(* transaction the handler goes on when the answer tells the address in    *)
(* x-request-uri, and ends with a NullPointerException when it does not.   *)
AnswerCancel(r) ==
  /\ r \in CancelRequests
  /\ \E hasRequestUri \in BOOLEAN :
       CancelCall(r, "reject", client # None /\ hasRequestUri)
  /\ UNCHANGED <<pair, arrived, acked, forwarded, faults, events>>

-----------------------------------------------------------------------------
(* processResponse                                                         *)

isStackJob(t, c) == c = "terminated" \/ t[1] \in CancelRequests
Challenged(t, c) == c = "challenge" /\ t[1] \in Accounts

IgnoreResponse(t, c) ==
  /\ isStackJob(t, c)
  /\ UNCHANGED <<state, pair, arrived, outputs>>

(* handleAuthChallenge: the request is sent again, its CSeq increased, in  *)
(* a new transaction.  When that fails the challenge is dropped.           *)
Authenticate(t, c) ==
  /\ Challenged(t, c)
  /\ \/ /\ state' = Opened(Retry(t[1]))
        /\ updateClientTransaction(Retry(t[1]))
        /\ UNCHANGED faults
     \/ /\ Fault(t[1])
        /\ UNCHANGED <<state, pair>>
  /\ UNCHANGED <<arrived, relayed, cancelled, acked, forwarded, events>>

Ends(t, c) ==
  \/ Method[t[1]] = "BYE"
  \/ t[1] \in Invites /\ c \in {"reject", "challenge"}

Relay_Stateless(t, c) ==
  /\ relayed' = relayed \cup {Response(t, t[1], c, t[2] # "retry")}
  /\ UNCHANGED state

Relay_OnlyPaired(t, c) ==
  IF server = None THEN UNCHANGED <<state, relayed>>
                   ELSE SendOn(server[1], t, c, state)

(* A response to an INVITE goes back on the server transaction of the      *)
(* call, with the CSeq of its request, and without a transaction when the  *)
(* call has none; the response to another request always does.             *)
Relay(t, c) ==
  \/ /\ t[1] \in Invites /\ server # None
     /\ SendOn(server[1], t, c, state)
  \/ /\ t[1] \notin Invites \/ server = None
     /\ relayed' = relayed \cup {Response(t, t[1], c, t[2] # "retry")}
     /\ UNCHANGED state

(* The response passes the Dispatcher and is sent on; when the Dispatcher  *)
(* fails it is dropped.                                                    *)
RelayResponse(t, c) ==
  /\ ~isStackJob(t, c) /\ ~Challenged(t, c)
  /\ \/ /\ events' = IF Ends(t, c) THEN events \cup {"ended"} ELSE events
        /\ Relay(t, c)
        /\ UNCHANGED faults
     \/ /\ Fault(t[1])
        /\ UNCHANGED <<state, relayed, events>>
  /\ UNCHANGED <<pair, arrived, cancelled, acked, forwarded>>

-----------------------------------------------------------------------------
(* processTimeout, processTransactionTerminated and processIOException     *)

ProcessTimeout ==
  /\ Takes("timeout")
  /\ removeTransactions
  /\ UNCHANGED <<state, arrived, outputs>>

ProcessTransactionTerminated ==
  /\ Takes("terminated")
  /\ removeTransactions
  /\ UNCHANGED <<state, arrived, outputs>>

(* removeTransactionsByTransport: an entry of the call goes when its       *)
(* request came over the transport, and for each the call is reported      *)
(* ended.                                                                  *)
ProcessIOException ==
  /\ Takes("ioerror")
  /\ client' \in {client, None} /\ server' \in {server, None}
  /\ events' = IF client' # client \/ server' # server
                 THEN events \cup {"ended"} ELSE events
  /\ UNCHANGED <<state, arrived, relayed, cancelled, acked, forwarded, faults>>

-----------------------------------------------------------------------------
Init ==
  /\ queue = <<>>
  /\ state = [t \in Tx |-> "none"]
  /\ client = None /\ server = None
  /\ arrived = {} /\ relayed = {} /\ cancelled = {} /\ acked = {}
  /\ forwarded = <<>> /\ faults = {} /\ events = {}

ProcessRequest ==
  /\ Takes("request")
  /\ LET r == Head(queue).request
     IN  \/ DispatchFails(r) \/ AnswerLocally(r) \/ Forward(r) \/ ForwardAck(r)
         \/ ForwardCancel(r) \/ AnswerCancel(r)

ProcessResponse ==
  /\ Takes("response")
  /\ LET t == Head(queue).tx
         c == Head(queue).code
     IN  IgnoreResponse(t, c) \/ Authenticate(t, c) \/ RelayResponse(t, c)

Next ==
  \/ \E r \in Request : Arrive(r)
  \/ \E t \in Tx, c \in Code : Respond(t, c)
  \/ \E t \in Tx : Timeout(t) \/ Terminate(t)
  \/ TransportFails
  \/ ProcessRequest \/ ProcessResponse
  \/ ProcessTimeout \/ ProcessTransactionTerminated \/ ProcessIOException

Spec == Init /\ [][Next]_vars

-----------------------------------------------------------------------------
(* Properties                                                              *)

(* Types: the two entries of the call are a client and a server            *)
(* transaction that the stack knows.                                       *)
TypeOK ==
  /\ queue \in Seq(Event)
  /\ state \in [Tx -> TxState]
  /\ client \in {t \in Tx : t[2] # "server" /\ state[t] # "none"} \cup {None}
  /\ server \in {t \in Tx : t[2] = "server" /\ state[t] # "none"} \cup {None}
  /\ arrived \subseteq Request /\ relayed \subseteq Relayed
  /\ cancelled \subseteq CancelRequests \X Tx
  /\ acked \subseteq Acks \X BOOLEAN
  /\ forwarded \in Seq(Request) /\ faults \subseteq Request
  /\ events \subseteq {"started", "ended"}

-----------------------------------------------------------------------------
Later(r) ==
  {q \in Request : \E m, n \in DOMAIN forwarded :
     m < n /\ forwarded[m] = r /\ forwarded[n] = q}

(* Transactions whose end the stack has reported, or will.                 *)
Ending == {t \in Tx : state[t] = "over"}

Leg(i) == IF state[Retry(i)] = "none" THEN Client(i) ELSE Retry(i)

(* A response reaches the sender of the request it answers, with its CSeq. *)
(* It leaves as the answer to another request only when that one was       *)
(* forwarded after it, and with the CSeq of a retry only when another      *)
(* transaction of the call has ended or a transport failed: challenges,    *)
(* cancellation and the order of events alone never do that.               *)
AnswersItsRequest ==
  \A x \in relayed : x.from # None =>
    /\ x.to # x.from[1] => x.to \in Later(x.from[1])
    /\ ~x.sameCSeq => /\ x.from = Retry(x.to)
                      /\ faults # {} \/ \E t \in Ending : t # x.from

(* A CANCEL that is handled while the callee rings reaches the callee,     *)
(* unless a transaction of the call has ended, a request met a failure,    *)
(* another request was forwarded after the INVITE, or the entry was the    *)
(* retry of an earlier INVITE: challenges, the order of events and the     *)
(* end of the own two transactions alone never lose it.                    *)
CancelLostOnlyAfterEnd ==
  \A r \in CancelRequests : LET i == Cancels[r] IN
    /\ faults = {}
    /\ Response(None, r, "ok", TRUE) \in relayed
    /\ state[Leg(i)] = "open"
    => \/ <<r, Leg(i)>> \in cancelled
       \/ Leg(i) = Retry(i) /\ <<r, Client(i)>> \in cancelled
       \/ \E j \in Invites \ {i} : <<r, Retry(j)>> \in cancelled
       \/ \E t \in Ending : t \notin {Leg(i), Server(i)}
       \/ Later(i) # {}

(* The ACK of a call whose one INVITE was authenticated on behalf of the   *)
(* caller has the increased CSeq of the retry, unless a transaction of the *)
(* call has ended, another request was forwarded or a transport failed     *)
(* before.                                                                 *)
AckUnnumberedOnlyAfterEnd ==
  \A x \in acked, i \in Invites :
    /\ ~x[2] /\ Invites \cap arrived = {i} /\ state[Retry(i)] # "none"
    => Ending # {} \/ Later(i) # {} \/ faults # {}

(* "Send CANCEL request to destination" and "Sends 487 (Request            *)
(* terminated) back to client" (GRPCSipListener.java, sendCancel).  When a *)
(* CANCEL was handled and no failure met, the INVITE it is for has no      *)
(* transaction left that nobody cancelled.                                 *)
CancelReleasesCallee ==
  \A r \in CancelRequests : LET i == Cancels[r] IN
    /\ i \in arrived /\ queue = <<>> /\ faults = {}
    /\ Response(None, r, "ok", TRUE) \in relayed
    => \A t \in {Client(i), Retry(i)} : state[t] = "open" => <<r, t>> \in cancelled

(* Once all transactions of a call are over and the listener has seen it,  *)
(* the call has no entry left.                                             *)
NoEntryLeaks ==
  queue = <<>> /\ (\A t \in Tx : state[t] \in {"none", "over"})
  => client = None /\ server = None

(* The processor answered a CANCEL of i.                                   *)
CancelAnswered(i) ==
  \E r \in CancelRequests :
    Cancels[r] = i /\ Response(None, r, "reject", TRUE) \in relayed

(* An INVITE whose callee has answered is answered, unless it met a        *)
(* failure, another request was forwarded after it, or the processor       *)
(* itself answered its CANCEL: no order of challenges, cancellation and    *)
(* ends of transactions leaves the caller without a final response.        *)
InviteAnswered ==
  \A i \in Invites \ faults :
    /\ state[Leg(i)] \in {"closed", "over"}
    /\ \A n \in DOMAIN queue : queue[n].type # "response"
    => FinalAnswer(i) \/ Later(i) # {} \/ CancelAnswered(i)
=============================================================================
