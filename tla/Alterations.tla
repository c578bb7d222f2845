---------------------------- MODULE Alterations ----------------------------
(***************************************************************************)
(* The processor library (mods/processor): the alterations a processor     *)
(* pipes a request through, the interface an edgeport uses towards an      *)
(* endpoint, and the answers a processor can give.                         *)
(*                                                                         *)
(* A request is a record.  An address is [host, tp]: its port is that of   *)
(* the listening point of the transport.  Header lists keep their order;   *)
(* of an extension header only its presence is kept.  The nets of an       *)
(* edgeport are the same in each of its requests and in each route         *)
(* registered through it, so they are functions of the edgeport.           *)
(***************************************************************************)
EXTENDS Integers, SequencesExt

CONSTANTS
    EdgePorts,      \* the references of the edgeports
    Localnet,       \* Localnet[e]: a function from the hosts in e's nets to e's own address there
    ExternalAddrs,  \* ExternalAddrs[e]: a sequence of hosts
    ListeningOn,    \* ListeningOn[e]: the transports of e's listening points
    None            \* no value

NoInterface == [host |-> None, tp |-> None]

\* A header list with an address put first.
With(address, list) == <<address>> \o list

-----------------------------------------------------------------------------
(* Interfaces *)

\* No transport means UDP.
TransportOf(address) == IF address.tp = None THEN "UDP" ELSE address.tp

Throws(e, address) ==
    \/ TransportOf(address) \notin ListeningOn[e]
    \/ address.host \notin DOMAIN Localnet[e] /\ ExternalAddrs[e] = <<>>

\* The listening points are bound to every address of the machine (bindAddr
\* 0.0.0.0, the default), so they never contradict the address of the net.
getEdgeInterface(e, address) ==
    IF Throws(e, address) THEN NoInterface
    ELSE [host |-> IF address.host \in DOMAIN Localnet[e]
                   THEN Localnet[e][address.host] ELSE Head(ExternalAddrs[e]),
          tp |-> TransportOf(address)]

OwnHosts(e) ==
    {Localnet[e][h] : h \in DOMAIN Localnet[e]}
        \cup Range(ExternalAddrs[e])

-----------------------------------------------------------------------------
(* Alterations *)

\* The user of the request URI stays.
fixRequestURI(route, req) == [req EXCEPT !.uri.host = route.host, !.uri.tp = route.tp]

\* As a bug could have it: the Via names the edgeport of the route.
addViaOfRoute(route, req) ==
    [req EXCEPT !.via = With(getEdgeInterface(route.edge, [host |-> route.host, tp |-> route.tp]), @)]

\* When the route was registered through the edgeport of the request, both
\* have the nets of that edgeport.
addSelfVia(route, req) ==
    [req EXCEPT !.via = With(getEdgeInterface(req.edge, [host |-> route.host, tp |-> route.tp]), @)]

addSelfViaUsingExternalAddrs(req) ==
    [req EXCEPT !.via = With(getEdgeInterface(req.edge, req.uri), @)]

addRouteToNextHop(route, req) ==
    IF req.uri.host = route.host THEN req
    ELSE [req EXCEPT !.route = With([host |-> route.host, tp |-> route.tp], @)]

addRouteToPeerEdgePort(route, req) ==
    [req EXCEPT !.route =
        With(getEdgeInterface(route.edge, [host |-> route.host, tp |-> route.tp]), @)]

applyXHeaders(route, req) == [req EXCEPT !.ext = (@ \ route.removes) \cup route.headers]

\* The sender of a request is the top Via.
Sender(req) == [host |-> req.via[1].host, tp |-> req.via[1].tp]

\* The sender is read before the pipe puts the edgeport's own Via on top.
addSelfRecordRoute(route, sender, req) ==
    LET origin == getEdgeInterface(req.edge, sender)
        target == getEdgeInterface(req.edge, [host |-> route.advertised, tp |-> route.tp])
    IN [req EXCEPT !.recordRoute =
            (IF origin # target THEN <<target, origin>> ELSE <<origin>>) \o @]

addXEdgePortRef(req) == [req EXCEPT !.ext = @ \cup {"x-edgeport-ref"}]

\* As a bug could have it: the mark stays.
keepXEdgePortRef(req) == req

removeXEdgePortRef(req) == [req EXCEPT !.ext = @ \ {"x-edgeport-ref"}]

removeAuthorization(req) == [req EXCEPT !.auth = None]

\* Asking for the listening point of a transport that e does not serve throws.
ThrowsOnRoutes(req) ==
    \E i \in DOMAIN req.route : TransportOf(req.route[i]) \notin ListeningOn[req.edge]

\* The routes of a list that name none of some hosts, in their order.
Without(hosts, list) ==
    LET kept[i \in 0 .. Len(list)] ==
            IF i = 0 THEN <<>>
            ELSE IF list[i].host \in hosts THEN kept[i - 1] ELSE Append(kept[i - 1], list[i])
    IN kept[Len(list)]

\* As a bug could have it: the addresses on the nets are not compared.
removeExternalRoutes(req) == [req EXCEPT !.route = Without(Range(ExternalAddrs[req.edge]), @)]

removeSelfRoutes(req) == [req EXCEPT !.route = Without(OwnHosts(req.edge), @)]

removeTopVia(req) == [req EXCEPT !.via = Tail(@)]

\* Nothing looks at the value: it goes below zero.
decreaseMaxForwards(req) == [req EXCEPT !.maxForwards = @ - 1]

\* The contact of a browser is a name that does not resolve.
Invalid == "df7jal23ls0d.invalid"

fixInvalidContact(req) ==
    IF req.contact.host = Invalid THEN [req EXCEPT !.contact = Sender(req)] ELSE req

-----------------------------------------------------------------------------
(* Extensions, targets and answers *)

getHeaderValue(req, name) == name \in req.ext

getTargetAOR(req) == req.to

\* What a processor gives back: a request to send on, or an answer.
Send(req) == [type |-> "request", request |-> req]
Answer(code) == [type |-> "response", code |-> code]

OK == "OK"
UNAUTHORIZED == "Unauthorized"              \* with a challenge
UNCHALLENGED == "Unauthorized, no challenge"
FORBIDDEN == "Forbidden"
METHOD_NOT_ALLOWED == "Method Not Allowed"
TEMPORARILY_UNAVAILABLE == "Temporarily Unavailable"
TERMINATED == "Request Terminated"
SERVER_INTERNAL_ERROR == "Internal Server Error"

ResponseType == {OK, UNAUTHORIZED, UNCHALLENGED, FORBIDDEN, METHOD_NOT_ALLOWED,
                 TEMPORARILY_UNAVAILABLE, TERMINATED, SERVER_INTERNAL_ERROR}
=============================================================================
