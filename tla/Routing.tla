------------------------------- MODULE Routing -------------------------------
(***************************************************************************)
(* A call through the edgeports.  Phones, a trunk and the Requester send   *)
(* requests to an edgeport; the edgeport hands each message to Connect and *)
(* sends on what comes back; answers retrace the Via headers.  Meanwhile   *)
(* the phones register through one edgeport or another.                    *)
(*                                                                         *)
(* The list of Route headers that Connect returns is written on the wire   *)
(* in reverse: the edgeport walks each list backwards, and the stack puts  *)
(* a Via or a Record-Route on top but appends a Route.                     *)
(***************************************************************************)
EXTENDS Router

CONSTANTS
    Phones,     \* host -> [tp, edges, web]: transport, edgeports it may use, is it a browser
    Accounts,   \* host -> [user, host, secret, token]: what a phone registers
    Calls,      \* what can happen in a run: [ua, edge, method, from, to, token, ext, route,
                \* secret, phones]: the request that opens the call, and who registers meanwhile
    Requester,  \* the host of the Requester
    RegistryEdge, \* the first edgeport of the Registry's configuration
    MaxHops     \* the Max-Forwards of a phone

VARIABLES
    call,       \* the call of this run
    loc,        \* the routes of each AOR
    wire,       \* the messages on their way; dest is the host they are for
    tx,         \* per edgeport, the INVITE it sent on
    caller,     \* [state, code, tried, routes, target]
    callee,     \* [state, at, req, routes, target]
    lost,       \* the methods of the requests that went nowhere
    failed,     \* has a lookup of a resource failed?
    registers   \* who registered through which edgeport, so far

vars == <<call, loc, wire, tx, caller, callee, lost, failed, registers>>

Aors == {[user |-> u, host |-> Agents[u].domain] : u \in DOMAIN Agents}
            \cup {Peers[p].aor : p \in DOMAIN Peers} \cup {Tokens[t].aor : t \in DOMAIN Tokens}

EdgeHosts == UNION {OwnHosts(e) : e \in EdgePorts}
TrunkHosts == {Trunks[t].uri : t \in DOMAIN Trunks}

Self(u) == [host |-> u, tp |-> Phones[u].tp]

-----------------------------------------------------------------------------
(* What the constants are *)

\* A host is an edgeport's, a phone's or nobody's; no two edgeports share one,
\* and no phone registers from the host of a trunk.
ASSUME HostsAssumption ==
    /\ \A e \in EdgePorts : ExternalAddrs[e] \in Seq(STRING)
    /\ \A e, f \in EdgePorts : e # f => OwnHosts(e) \cap OwnHosts(f) = {}
    /\ EdgeHosts \cap (DOMAIN Phones \cup TrunkHosts) = {}
    /\ DOMAIN Accounts \cap TrunkHosts = {}
    /\ {None, Invalid} \cap (EdgeHosts \cup DOMAIN Phones) = {}
    /\ Invalid \notin TrunkHosts

ASSUME PhonesAssumption ==
    /\ Requester \in DOMAIN Phones /\ DOMAIN Accounts \subseteq DOMAIN Phones
    /\ \A u \in DOMAIN Phones : Phones[u].edges \subseteq EdgePorts

\* The headers that Routr puts on a request for its own use.
OwnHeaders == {"x-edgeport-ref", "x-call-direction"}

\* A phone sends its call to an edgeport that listens for it.
ASSUME CallsAssumption ==
    \A c \in Calls :
        /\ c.ua \in DOMAIN Phones /\ c.edge \in EdgePorts /\ ~Throws(c.edge, Self(c.ua))
        /\ c.method = "INVITE" /\ c.ext \cap OwnHeaders = {} /\ c.phones \subseteq DOMAIN Accounts

\* A Number links to a Trunk that exists, if to any.
ASSUME NumbersAssumption ==
    \A n \in DOMAIN Numbers :
        Numbers[n].trunk \in DOMAIN Trunks \cup {None} /\ Numbers[n].headers \cap OwnHeaders = {}

ASSUME HopsAssumption == MaxHops \in Nat

ASSUME NoneAssumption == None \notin ResponseType \cup {"UDP"}

-----------------------------------------------------------------------------
(* Messages *)

Contact(u) == IF Phones[u].web THEN [host |-> Invalid, tp |-> Phones[u].tp] ELSE Self(u)

\* A request of a phone, for its first Route or for the host of its URI.
Request(u, method, uri, route, dest) ==
    [type |-> "request", method |-> method, code |-> None, uri |-> uri, dest |-> dest,
     from |-> call.from, to |-> call.to, via |-> <<Self(u)>>, route |-> route,
     recordRoute |-> <<>>, contact |-> Contact(u), maxForwards |-> MaxHops,
     auth |-> None, token |-> None, ext |-> {}, edge |-> None, path |-> <<>>]

Response(req, code) ==
    [req EXCEPT !.type = "response", !.code = code, !.dest = req.via[1].host]

NextHop(route, uri) == IF route = <<>> THEN uri.host ELSE route[1].host

\* What edgeport e puts on the wire for a request that Connect returned.
OnTheWire(e, req) ==
    LET route == Reverse(req.route)
    IN [req EXCEPT !.edge = None, !.route = route, !.dest = NextHop(route, req.uri),
                   !.path = Append(@, e)]

\* The address a phone knows an edgeport by.
Door(u, e) == getEdgeInterface(e, Self(u))

\* createCancel copies the line, the top Via and the Routes of the INVITE.
CancelOf(invite) ==
    [invite EXCEPT !.method = "CANCEL", !.via = <<invite.via[1]>>, !.recordRoute = <<>>,
                   !.auth = None, !.token = None, !.ext = {}]

-----------------------------------------------------------------------------
(* Edgeports *)

Known == UNION Range(loc)

\* What Location answers when it may choose route r.
Found(r) == [a \in Aors \cup {call.to} \cup {Numbers[n].aorLink : n \in DOMAIN Numbers} |->
                CASE a \notin Aors -> None
                  [] a \in Aors /\ loc[a] = {} -> None
                  [] OTHER -> IF r \in loc[a] THEN r ELSE CHOOSE x \in loc[a] : TRUE]

Replace(m, new) == wire' = (wire \ {m}) \cup new

Drop(m) == /\ Replace(m, {})
           /\ lost' = lost \cup {m.method}
           /\ UNCHANGED tx

\* A Max-Forwards below zero cannot be written: the headers after it are
\* missing and the request is not sent.
SendRequest(e, m, req) ==
    IF req.maxForwards < 0 THEN Drop(m)
    ELSE /\ Replace(m, {OnTheWire(e, req)})
         /\ tx' = IF m.method = "INVITE" THEN [tx EXCEPT ![e] = OnTheWire(e, req)] ELSE tx
         /\ UNCHANGED lost

\* As a bug could have it: the INVITE is not answered.
SendCancelOnly(e, m, out) ==
    IF out.type = "request" /\ tx[e] # None
    THEN /\ Replace(m, {CancelOf(tx[e])})
         /\ UNCHANGED <<tx, lost>>
    ELSE Drop(m)

\* sendCancel answers the INVITE and cancels it at the next hop.  An answer of
\* Connect to a CANCEL, or no INVITE to cancel, ends in an exception.
SendCancel(e, m, out) ==
    IF out.type = "request" /\ tx[e] # None
    THEN /\ Replace(m, {CancelOf(tx[e]),
                        Response([tx[e] EXCEPT !.via = Tail(@)], TERMINATED)})
         /\ UNCHANGED <<tx, lost>>
    ELSE Drop(m)

HandleRequest(e) ==
    \E m \in wire, r \in Known \cup {None}, deaf \in SUBSET {"caller", "callee"} :
        /\ m.type = "request" /\ m.dest \in OwnHosts(e)
        /\ deaf # {} => ~failed /\ m.method \notin {"BYE", "ACK"}
        /\ failed' = (failed \/ deaf # {})
        /\ LET out == connectProcessor([m EXCEPT !.edge = e], Found(r), deaf)
           IN CASE m.method = "CANCEL" -> SendCancel(e, m, out)
                [] m.method # "CANCEL" /\ out.type = "request" -> SendRequest(e, m, out.request)
                [] m.method # "CANCEL" /\ out.type = "response" ->
                      /\ Replace(m, {Response(m, out.code)})
                      /\ UNCHANGED <<tx, lost>>
                [] OTHER -> Drop(m)
        /\ UNCHANGED <<call, loc, caller, callee, registers>>

\* The stack keeps 487 for itself; the others lose the edgeport's own Via.
HandleResponse(e) ==
    \E m \in wire :
        /\ m.type = "response" /\ m.dest \in OwnHosts(e)
        /\ LET back == removeTopVia(m)
           IN Replace(m, IF m.code = TERMINATED \/ back.via = <<>> THEN {}
                         ELSE {[back EXCEPT !.dest = back.via[1].host]})
        /\ UNCHANGED <<call, loc, tx, caller, callee, lost, failed, registers>>

\* The name in the contact of a browser does not resolve; whether the stack
\* then finds the connection of the browser is left open.
Tunnel ==
    \E m \in wire, u \in DOMAIN Phones :
        /\ m.dest = Invalid /\ Phones[u].web /\ m.path[Len(m.path)] \in Phones[u].edges
        /\ Replace(m, {[m EXCEPT !.dest = u]})
        /\ UNCHANGED <<call, loc, tx, caller, callee, lost, failed, registers>>

\* A message for a host that is nobody's.
Vanish ==
    \E m \in wire :
        /\ \A e \in EdgePorts : m.dest \notin OwnHosts(e)
        /\ m.dest \notin DOMAIN Phones
        /\ Drop(m)
        /\ UNCHANGED <<call, loc, caller, callee, failed, registers>>

-----------------------------------------------------------------------------
(* Registrations, one at a time: Location is the subject of its own module *)

Register(u) ==
    \E e \in Phones[u].edges :
        LET a == Accounts[u]
            req == [Request(u, "REGISTER", [user |-> None, host |-> a.host, tp |-> None], <<>>, None)
                       EXCEPT !.from = [user |-> a.user, host |-> a.host], !.edge = e,
                              !.to = [user |-> a.user, host |-> a.host],
                              !.auth = a.secret, !.token = a.token]
            out == connectProcessor(req, <<>>, {})
        IN /\ out.type = "addRoute"
           /\ loc' = [loc EXCEPT ![out.aor] =
                        {r \in @ : r.host # out.route.host} \cup {out.route}]
           /\ registers' = registers \cup {<<u, e>>}
           /\ UNCHANGED <<call, wire, tx, caller, callee, lost, failed>>

Expire ==
    \E a \in Aors : \E r \in loc[a] :
        /\ loc' = [loc EXCEPT ![a] = @ \ {r}]
        /\ UNCHANGED <<call, wire, tx, caller, callee, lost, failed, registers>>

-----------------------------------------------------------------------------
(* The caller *)

Opening(auth) ==
    LET door == Door(call.ua, call.edge)
        uri == [user |-> call.to.user, host |-> call.to.host, tp |-> None]
    IN [Request(call.ua, call.method, uri, IF call.route THEN <<door>> ELSE <<>>, door.host)
          EXCEPT !.auth = auth, !.token = call.token, !.ext = call.ext]

\* The registrations of the Registry: one for each Trunk that asks for it, to
\* the first URI of the Trunk, by a Route through the first edgeport.
findTrunks == findBy(Trunks, "sendRegister", TRUE)

registrationRequestInputFromTrunk(t) ==
    [user |-> t, targetDomain |-> Trunks[t].uri, proxy |-> RegistryEdge]

createRegistrationRequest(params) ==
    LET trunk == [user |-> params.user, host |-> params.targetDomain]
    IN [ua |-> Requester, edge |-> params.proxy, method |-> "REGISTER", from |-> trunk, to |-> trunk,
        token |-> None, ext |-> {createTrunkAuthentication}, route |-> TRUE, secret |-> None,
        phones |-> {}]

Registrations == {createRegistrationRequest(registrationRequestInputFromTrunk(t)) : t \in findTrunks}

\* A request inside the dialog.
InDialog(u, method, side) ==
    Request(u, method, side.target, side.routes, NextHop(side.routes, side.target))

Place ==
    /\ caller.state = "idle"
    /\ caller' = [caller EXCEPT !.state = "calling"]
    /\ wire' = wire \cup {Opening(None)}
    /\ UNCHANGED <<call, loc, tx, callee, lost, failed, registers>>

\* The answer to the request that opened the call.
Opened ==
    \E m \in wire :
        /\ m.type = "response" /\ m.dest = call.ua /\ m.method = call.method
        /\ caller.state = "calling"
        /\ IF m.code = UNAUTHORIZED /\ call.secret # None /\ ~caller.tried
           THEN /\ caller' = [caller EXCEPT !.tried = TRUE]
                /\ Replace(m, {Opening(call.secret)})
           ELSE IF m.code = OK /\ m.method = "INVITE"
           THEN LET up == [caller EXCEPT !.state = "up", !.code = OK,
                              !.routes = Reverse(m.recordRoute),
                              !.target = [user |-> call.to.user, host |-> m.contact.host,
                                          tp |-> m.contact.tp]]
                IN /\ caller' = up
                   /\ Replace(m, {[InDialog(call.ua, "ACK", up) EXCEPT !.auth =
                                      IF caller.tried THEN call.secret ELSE None]})
           ELSE /\ caller' = [caller EXCEPT !.state = "over", !.code = m.code]
                /\ Replace(m, {})
        /\ UNCHANGED <<call, loc, tx, callee, lost, failed, registers>>

Cancel ==
    /\ caller.state = "calling" /\ tx[call.edge] # None /\ ~caller.cancels
    /\ caller' = [caller EXCEPT !.cancels = TRUE]
    /\ wire' = wire \cup {[Opening(None) EXCEPT !.method = "CANCEL"]}
    /\ UNCHANGED <<call, loc, tx, callee, lost, failed, registers>>

-----------------------------------------------------------------------------
(* The phone that is called *)

Ring ==
    \E m \in wire :
        /\ m.type = "request" /\ m.method \in {"INVITE", "REGISTER"}
        /\ m.dest \in DOMAIN Phones /\ callee.state = "idle"
        /\ callee' = [state |-> "ringing", at |-> m.dest, req |-> m, routes |-> m.recordRoute,
                      target |-> [user |-> m.from.user, host |-> m.contact.host, tp |-> m.contact.tp]]
        /\ Replace(m, {})
        /\ UNCHANGED <<call, loc, tx, caller, lost, failed, registers>>

PickUp ==
    /\ callee.state = "ringing"
    /\ callee' = [callee EXCEPT !.state = "up"]
    /\ wire' = wire \cup {[Response(callee.req, OK) EXCEPT !.contact = Contact(callee.at)]}
    /\ UNCHANGED <<call, loc, tx, caller, lost, failed, registers>>

\* A CANCEL that comes too late is ignored.
Cancelled ==
    \E m \in wire :
        /\ m.type = "request" /\ m.method = "CANCEL" /\ m.dest = callee.at
        /\ callee' = IF callee.state = "ringing" THEN [callee EXCEPT !.state = "over"] ELSE callee
        /\ Replace(m, {})
        /\ UNCHANGED <<call, loc, tx, caller, lost, failed, registers>>

Acked ==
    \E m \in wire :
        /\ m.type = "request" /\ m.method = "ACK" /\ m.dest = callee.at
        /\ callee' = IF callee.state = "up" THEN [callee EXCEPT !.state = "talking"] ELSE callee
        /\ Replace(m, {})
        /\ UNCHANGED <<call, loc, tx, caller, lost, failed, registers>>

-----------------------------------------------------------------------------
(* Hanging up, from either side *)

HangUp(u, side) ==
    /\ wire' = wire \cup {InDialog(u, "BYE", side)}
    /\ UNCHANGED <<call, loc, tx, lost, failed, registers>>

CallerHangsUp ==
    /\ caller.state = "up" /\ HangUp(call.ua, caller)
    /\ caller' = [caller EXCEPT !.state = "bye"]
    /\ UNCHANGED callee

CalleeHangsUp ==
    /\ callee.state = "talking" /\ HangUp(callee.at, callee)
    /\ callee' = [callee EXCEPT !.state = "bye"]
    /\ UNCHANGED caller

\* A BYE, or the answer to one, ends the call at the phone it is for.
Ended ==
    \E m \in wire :
        /\ m.method = "BYE" /\ m.dest \in DOMAIN Phones
        /\ caller' = IF m.dest = call.ua THEN [caller EXCEPT !.state = "over"] ELSE caller
        /\ callee' = IF m.dest = callee.at THEN [callee EXCEPT !.state = "over"] ELSE callee
        /\ Replace(m, IF m.type = "request" THEN {Response(m, OK)} ELSE {})
        /\ UNCHANGED <<call, loc, tx, lost, failed, registers>>

-----------------------------------------------------------------------------
Init ==
    /\ call \in Calls \cup Registrations
    /\ loc = [a \in Aors |-> {}]
    /\ wire = {}
    /\ tx = [e \in EdgePorts |-> None]
    /\ caller = [state |-> "idle", code |-> None, tried |-> FALSE, cancels |-> FALSE,
                 routes |-> <<>>, target |-> None]
    /\ callee = [state |-> "idle", at |-> None, req |-> None, routes |-> <<>>, target |-> None]
    /\ lost = {}
    /\ failed = FALSE
    /\ registers = {}

Edges == \E e \in EdgePorts : HandleRequest(e) \/ HandleResponse(e)

Next ==
    \/ Edges \/ Tunnel \/ Vanish
    \/ \E u \in call.phones : Register(u)
    \/ Expire
    \/ Place \/ Opened \/ Cancel \/ CallerHangsUp
    \/ Ring \/ PickUp \/ Cancelled \/ Acked \/ CalleeHangsUp \/ Ended

Spec == Init /\ [][Next]_vars

-----------------------------------------------------------------------------
(* Properties *)

(***************************************************************************)
(* TypeOK: the state stays well formed.                                    *)
(***************************************************************************)
TypeOK ==
    /\ \A m \in wire : /\ m.type \in {"request", "response"}
                       /\ m.code \in ResponseType \cup {None}
                       /\ m.via # <<>> /\ m.maxForwards \in 0 .. MaxHops
                       /\ \A i \in DOMAIN m.via : m.via[i] # NoInterface
    /\ \A a \in Aors : \A r \in loc[a] : r.edge \in EdgePorts /\ r.host \in DOMAIN Phones
    /\ lost \subseteq {"INVITE", "ACK", "BYE", "CANCEL", "REGISTER"}

Requests == {m \in wire : m.type = "request"}

(***************************************************************************)
(* ViasLeadBack: the Via headers of a message on its way name the          *)
(* edgeports it came through, last first, and the phone that sent it, so   *)
(* an answer can only end at that phone, and Max-Forwards went down once   *)
(* per edgeport.  (A CANCEL starts anew at each edgeport.)                 *)
(***************************************************************************)
ViasLeadBack ==
    \A m \in wire : m.method # "CANCEL" =>
        LET n == Len(m.via)
        IN /\ m.via[n].host \in DOMAIN Phones
           /\ \A i \in 1 .. n - 1 : m.via[i].host \in OwnHosts(m.path[n - i])
           /\ m.type = "request" => n = Len(m.path) + 1 /\ m.maxForwards = MaxHops - Len(m.path)

IsWeb(u) == u \in DOMAIN Phones /\ Phones[u].web

(***************************************************************************)
(* OnlyTheseCirculate: a request comes through an edgeport twice only when *)
(* the phone put that edgeport in a Route of its own, or when a BYE is for *)
(* a browser behind another edgeport, whose contact the edgeport of the    *)
(* callee replaced by the address of the first edgeport.                   *)
(***************************************************************************)
OnlyTheseCirculate ==
    \A m \in Requests : Cardinality(Range(m.path)) < Len(m.path) =>
        \/ call.route
        \/ m.method = "BYE" /\ IsWeb(call.ua) /\ m.via[Len(m.via)].host = callee.at

\* The phone put a Route of its own and called a phone by its host.
CalledByHost == call.route /\ call.to.host \in DOMAIN Accounts

(***************************************************************************)
(* OnlyTheseLost: which requests can go nowhere.  An INVITE: when its URI  *)
(* names the host of the phone and its Route an edgeport, and the phone    *)
(* registers now here, now there, until Max-Forwards runs out.  An ACK or  *)
(* a BYE: when one of the phones is a browser.  A CANCEL: when the AOR has *)
(* no route any more or a resource could not be looked up.                 *)
(***************************************************************************)
OnlyTheseLost ==
    /\ "REGISTER" \notin lost
    /\ "INVITE" \in lost => CalledByHost /\ Cardinality(registers) > 1
    /\ lost \cap {"ACK", "BYE"} # {} => IsWeb(call.ua) \/ IsWeb(callee.at)
    /\ "CANCEL" \in lost => failed \/ registers # {}

(***************************************************************************)
(* ThroughTheRightDoor: a phone is called by the edgeport it registered    *)
(* through, which is the only one that can reach a phone behind a NAT,     *)
(* unless the caller's phone put a Route of its own.                       *)
(***************************************************************************)
ThroughTheRightDoor ==
    \A m \in Requests : m.method = "INVITE" /\ m.dest \in DOMAIN Accounts =>
        <<m.dest, m.path[Len(m.path)]>> \in registers \/ call.route

(***************************************************************************)
(* NothingLeaks: what is between the parts of Routr stays there: the phone *)
(* that is called sees neither the credentials of the caller nor the mark  *)
(* of an edgeport.  (The ACK of a phone carries the credentials of its     *)
(* INVITE, as RFC 3261 wants it, and passes as it is.)                     *)
(***************************************************************************)
NothingLeaks ==
    \A m \in Requests : m.dest \in DOMAIN Phones /\ m.path # <<>> =>
        /\ m.method # "ACK" => m.auth = None
        /\ "x-edgeport-ref" \notin m.ext

(***************************************************************************)
(* CallsArePaidFor: an INVITE goes out to a trunk only for a caller that   *)
(* knows the secret of its account, or that has a token.                   *)
(***************************************************************************)
CallsArePaidFor ==
    \A m \in Requests : m.method = "INVITE" /\ m.dest \in TrunkHosts /\ m.path # <<>> =>
        \/ call.token # None
        \/ call.secret # None /\ call.secret = SecretOf(findResource(call.from.host, call.from.user, FALSE))

(***************************************************************************)
(* AgentsAreNotDialledOut: a call to an Agent goes out to a trunk only     *)
(* when looking up the Agent failed with an error, which the router takes  *)
(* for a number that is not one of its own.                                *)
(***************************************************************************)
AgentsAreNotDialledOut ==
    \A m \in Requests : m.method = "INVITE" /\ m.dest \in TrunkHosts /\ m.path # <<>>
            /\ findResource(call.to.host, call.to.user, FALSE).kind = "AGENT" => failed

(***************************************************************************)
(* HeadersStayAtHome: the headers of a route (the extra headers of a       *)
(* Number, the direction of the call) reach the phone exactly when it is   *)
(* registered at the edgeport the call came in through.  Not so when the   *)
(* phone put a Route and called a phone by its host: the mark is then      *)
(* removed one edgeport too early, and the next looks for the callee again *)
(* (CalledByHost).                                                         *)
(***************************************************************************)
HeadersStayAtHome ==
    \A m \in Requests : m.method = "INVITE" /\ m.dest \in DOMAIN Phones /\ m.path # <<>> =>
        ("x-call-direction" \in m.ext <=> Len(m.path) = 1) \/ CalledByHost

(***************************************************************************)
(* NobodyWaitsInVain: a phone that waits for the answer to its call has a  *)
(* message on the way, or a phone that rings; Max-Forwards bounds the way, *)
(* so the call is answered.  Not so when the INVITE was lost, nor when the *)
(* phone cancels a call that went through an edgeport twice: the edgeport  *)
(* keeps one transaction per call, and ends the second one only.           *)
(***************************************************************************)
NobodyWaitsInVain ==
    caller.state = "calling" =>
        \/ wire # {} \/ callee.state = "ringing" \/ "INVITE" \in lost
        \/ call.route /\ caller.cancels
=============================================================================
