# Routr: formal models

TLA+ models of [Routr](../src/README.md), a distributed SIP server: TLC
configurations that check them on small instances, and theorems that the TLA+
proof system checks for every value of the constants. Paths are relative to the
repository's `src/`; `CORE.md` and the files under `docs/` there name the parts.

## 1. The system

A SIP message enters at an **EdgePort**, which converts it and calls the
**Message Dispatcher** over gRPC. The Dispatcher runs the message through its
middlewares (SimpleAuth, RTPRelay) and one processor (Connect), and returns a
message that the EdgePort forwards when it is a request or sends back when it is
a response. The Connect Processor reads resources from an **API server**
(SimpleData, PgData) and contacts from the **Location Service**. The
**Registry** keeps trunks registered at SIP providers; it sends each REGISTER
through the **Requester**, a gRPC service in front of a SIP stack.

| Component | State | Operations | What is hard |
|---|---|---|---|
| Location Service (`mods/location`) | route arrays per key, round-robin positions, a cycle count | AddRoute, FindRoutes, RemoveRoutes | handlers interleave at every `await store.*`; a value read before an await decides a write after it; a call and a conference cache routes that the AOR may lose; an array index outlives its array |
| Registry (`mods/registry`) | entries with a time and a retention | a timer whose rounds overlap | a barrier over calls without a deadline; time of storing against time of granting |
| Requester (`mods/requester`) | a HashMap of waiting calls, two pool threads, a SIP transaction per call | SendMessage, SIP events | three kinds of threads and no lock; an event before its map entry; calls that hold the pool |
| EdgePort (`mods/edgeport`) | a HashMap of the client and server transaction per Call-ID | SIP requests, responses, timeouts, terminations, transport errors | one pair per call while a call has several transactions at once, whose ends and events come in any order |
| Message Dispatcher (`mods/dispatcher`) | none between messages | ProcessMessage | the order of a chain that ends early, errors in any of its links |
| Processor library (`mods/processor`) | none | alterations of Via, Route and Record-Route | a response must undo what its request did |
| Connect Processor (`mods/connect`) | none of its own | routing, access checks, REGISTER | decisions over data read in several calls while it changes |
| RTPRelay (`mods/rtprelay`) | sessions of the RTP engine | query, offer, answer, delete | a question to the engine and a command decided on its answer, while another message of the call does the same |
| SimpleAuth (`mods/simpleauth`) | nonces are computed, not kept | challenge | none beyond the Dispatcher's chain |
| SimpleData (`mods/simpledata`) | resources read at start | get, findBy | none: read only |
| PgData (`mods/pgdata`) | a database | create, update, delete, get, list, findBy | an update is a deletion and an update outside a transaction; a creation and an update check different fields |
| SDK (`mods/sdk`) | none | a class per kind of resource | what its types let a program leave out |
| ctl (`mods/ctl`) | the answers of a session | create, update, delete, get and list commands | a session reads, lets its user think, and writes everything back |
| Common library (`mods/common`) | none | types, checks of resources, helpers | the checks are called by some callers and not by others |
| one, Echo | none | start the services; answer OK | none |

What makes each part correct:

* **Location Service**: a device is listed once; the limit of contacts holds as
  far as the code can hold it; a lookup returns only contacts of its AOR; a
  registration never fails because of a lookup; round robin starves no route;
  calls of a conference, and lookups of a call, agree as far as the awaits let
  them.
* **Requester**: an answer belongs to the call's own transaction; a call waits
  for ever only for reasons one can name; nothing is left in the map.
* **Registry**: a trunk whose registration has run out is registered again by
  the next round, whatever became of other trunks and earlier rounds.
* **EdgePort**: a response goes back on the transaction of the request it
  answers; a CANCEL reaches the callee; a call that ends leaves no entry.
* **Dispatcher, SimpleAuth, RTPRelay**: what leaves as a request passed the whole
  chain; a response passes each phase once; the RTP engine is where the call is.
* **Processor library, Connect, several EdgePorts**: responses retrace the way of
  their request; no request circles or gets lost; a phone is called where it
  registered; nobody dials out who may not.
* **PgData, SDK, ctl**: links lead somewhere, what is stored is valid, a Trunk has
  the URIs it was given, a list shows everything, an edit changes what was edited.

## 2. Modules

| Module | Models | Composes |
|---|---|---|
| `MemoryStore` | `mods/location/src/memory_store.ts`: an array of routes with a position each, `put`, `get`, expiry | |
| `Location` | `location.ts`, `helper.ts`, the handlers of `utils.ts` and the mapping of `client.ts` | extends `MemoryStore` |
| `SendMessage` | what a caller of the Requester may rely on: the abstract specification | |
| `Requester` | `RequesterService`, `ResponseCallable`, `RequestSender` | implements `SendMessage` (`KeepsPromise`) |
| `Registry` | `mods/registry/src/service.ts`, `sender.ts`, `memory_store.ts` | calls the Requester through an instance of `SendMessage` |
| `EdgePort` | `GRPCSipListener`, `TransactionManager`, `AuthenticationHandler`, `ResponseHelper` | |
| `Dispatcher` | `mods/dispatcher/src`, `mods/simpleauth/src/service.ts`, `mods/rtprelay/src` | the chain with its middlewares |
| `Alterations` | `mods/processor/src/alterations.ts` and the interface of an edgeport towards an endpoint: pure operators | |
| `Router` | `mods/connect/src`: directions, access, routes, handlers: pure operators | extends `Alterations` |
| `Routing` | a call through several edgeports, each with Connect | extends `Router` |
| `ResourceKinds` | the seven kinds of resource: fields, checks (`mods/common`), managers (`mods/pgdata/src/mappers`) | |
| `CtlCommands` | the create and update commands of `mods/ctl`, as what they prompt for | extends `ResourceKinds` |
| `Sdk` | `mods/sdk/src`: the requests its types let a program make | extends `ResourceKinds` |
| `Resources` | `mods/pgdata/src/api`, sessions of ctl, its paginated list | extends `CtlCommands`, `Sdk` |
| `LocationProofs`, `RequesterProofs`, `RegistryProofs`, `EdgePortProofs`, `DispatcherProofs`, `RoutingProofs`, `ResourcesProofs` | theorems | extend the module they are about |
| `RoutingLossProofs` | theorem about what the network loses | extends `RoutingProofs` |
| `MCLocation`, `MCRequester`, `MCRegistry`, `MCEdgePort`, `MCDispatcher`, `MCRouting`, `MCResources` | instances for TLC | |

### Location

State: `collections` is `MemoryStore.collections`; a route's `pos` is its index
in the array. `poisoned` holds the keys whose array is `[undefined]`, which
`selectRoute` stores when it takes `routes[0]` of an empty array. `rrCount` is
the Map of round-robin positions, `cleanupCount` the counter of the store, which
starts undefined and is `NaN` from the first increment on.

The service is one JavaScript thread, so an action is the code between two
awaits, and `pc[h]` names the await at which handler `h` is suspended:

| `pc` | await | resumes in |
|---|---|---|
| `add` | `store.get` in `addRoute` (`location.ts`), before the check of `maxContacts` | `ResumeAdd` |
| `lookup` | the first `store.get` of `findRoutes`, for `aor:callId[:labels]` | `ResumeLookup` |
| `bindings` | `store.get` of the AOR | `ResumeBindings` |
| `affinity` | `store.get` in `nextWithAffinity` | `ResumeAffinity` |
| `relookup` | the second look at the call's entry | `ResumeRelookup` |
| `picked` | the `store.put` that caches the choice | `ResumePicked` |

`got[h]` is what the awaited `store.get` took when it was called: the store
computes its result at once, and the handler goes on with it later. That gap is
where the interesting interleavings are. `Remote` selects the entry: through
gRPC (`client.ts` drops fields the message does not have, and the
`removeRoutes` handler calls `findRoutes`), or on the class.

### SendMessage, Requester, Registry

`SendMessage` gives each call a SIP transaction that receives any number of
provisional messages and at most one other, and an answer that is one of them.
It allows a call to be answered never.

`Requester` has the three threads of a call: `thread` is the gRPC thread,
`workers`, `queue` and `future` are the pool of `executor` and its tasks,
`listener` is the thread of the SIP stack that handles an event of the call's
transaction. The stack is configured with `REENTRANT_LISTENER` "true"
(`SIPStackProperties.java`), so listener threads of different transactions run
at once; JAIN-SIP hands out the events of one transaction one at a time. The
`HashMap` is not synchronised: `put` and `remove` take two steps, and one that
overlapped another may lose its effect (`raced`). Loops inside a resizing map
and torn reads are not modelled. `ResponseCallable.value` is not volatile; its
reader sleeps between two reads, and the model lets it see the value at last.
A call is answered by the first message, a provisional one too; a status code
without a `ResponseCode` ends the listener's handler before the removal.

`Registry` has one `phase` per run of the timer's callback. The runs overlap:
`setInterval` does not wait. `Elapse` moves time but not past a timer that is
due, nor while a round waits for the memory store, whose promise is resolved
already. `validUntil` is the registrar's view.

### EdgePort

`state` has a transaction per request and direction: `Server(r)` to the sender
of `r`, `Client(r)` to its destination, `Retry(r)` for an INVITE that
`AuthenticationHandler` sent again with credentials. `client` and `server` are
the two entries the `TransactionManager` keeps for the Call-ID of the call. The
stack's `REENTRANT_LISTENER` is "false" (`server_properties.ts`): one thread
takes the events in their order from `queue`, so each handler is one action, and
everything that happens while it waits for the Dispatcher is behind it in the
queue. The user agents (`Arrive`, `Respond`) and the stack (`Timeout`,
`Terminate`, `TransportFails`) are the environment; the processor's decision is
the choice between `AnswerLocally` and `Forward`.

A response to an INVITE leaves on the transaction in the `server` entry, with
its CSeq; when the entry is gone it leaves without a transaction by its Via, which
works for the caller and is why a removed pair mostly goes unnoticed. It
does not for CANCEL and ACK, which need the `client` entry.

### Dispatcher

`job[j]` is a message in the dispatcher and where it is: at the middleware at
position `i` of the configured sequence, at the processor, or done with a message
or an error. `Phase`, `Passed` and `Processed` are the loop of `runMiddlewares`
and the two calls of `runProcessor` in `processor.ts`; `passed` remembers whom
the message met. A phase ends at the first response, whether a middleware made
it or a phone sent it; an error response goes to the processor alone. Errors:
UNAVAILABLE is returned to the EdgePort; another error of a middleware leaves
`undefined` and becomes a TypeError, another error of the processor gives the
message back unrouted (`ProcessorFails`).

SimpleAuth is `Authenticate`. RTPRelay is three steps, because it asks the engine
(`query`) and then tells it what to do (`Relay`), and other messages of the call
may do so in between; `RelayTimesOut` is a lost answer, after which the command
may have been carried out or not. `relay` is the engine's session of the call, an
external part. The phones are the environment: `MaySend` says which message of a
call can come next, given those that went through (`heard`).

### Alterations, Router, Routing

A request is a record whose header lists keep their order; an address is a host
and a transport, and of an extension header only its presence is kept. Each
alteration is an operator with the name of its function; `tailor`,
`toPeerEdgePort`, `handleInDialog` compose them in the order of `tailor.ts` and of the
handlers. `router` and `checkAccess` have the cases of the code, including the
directions that `checkAccess` does not list. A function that can throw has a
predicate beside it (`Throws`, `ThrowsOnRoutes`), because where it is caught
differs: handlers of INVITE and CANCEL answer 500, those of BYE, of ACK and of the
registration of a trunk crash.

`Routing` puts these behind edgeports. `wire` is a set of messages, so they
overtake each other; `HandleRequest` and `HandleResponse` are an edgeport with its
processor, and include what the conversion of messages in the EdgePort does to
the headers that route: a list of Routes is written in reverse, Vias and
Record-Routes are not. `loc` is the table of Location, changed by `Register` and
`Expire` while the call is on its way; which route a lookup returns is left open.
`deaf` lets the lookup of the caller, of the callee, or of both fail. The phones
follow RFC 3261 (ACK and BYE by the route set, one retry with credentials, a
CANCEL). `Registrations` are the REGISTERs the Registry sends by the Requester.

### ResourceKinds, CtlCommands, Sdk, Resources

A value is `None` (the default of the schema), `"good"`, `"bad"`, `"badPort"`, or a
reference, which is all that checks, links and forgetting depend on. A manager is a
record of field sets (`need`, `check`, `recheck`, `links`, `plain`, `fixed`,
`resets`), which `validOrThrowCreate`, `validOrThrowUpdate` and `mapToPrisma`
interpret; a command of ctl likewise (`asks`, `keeps`, `drops`, `first`, ...).

Each query of a handler is one step. `Create` and `Delete` are one query; an
update is `Update` (the checks, and the deletion of the URIs of a Trunk when the
request brings some) and then `UpdateRow` or `UpdateFails`; no transaction holds
them together. `Restart` may fall between. A session of ctl is `CtlOpen` (it
reads the resource and the choices), then `CtlSubmit` or `CtlAbort` whenever the
user decides, then the update. `walk` is `showPaginatedList`. The foreign keys of
`schema.prisma` are `DanglingLink` (a write that is refused) and `WithoutRow`
(SetNull and Cascade). `asked`, `torn`, `prompt` and the marks in `walk` are
history for the properties. `Sdk!RequestsAreMessages`, an assumption that TLC
evaluates, compares the types of the SDK with the messages of the API.

## 3. Runs

| Run | Question | Bounds, and why they are enough |
|---|---|---|
| `LocationRegistrar` | Do concurrent registrations and lookups keep the table sound? `NoDuplicateContacts`, `ContactOvershootBounded`, `RegisterNeverBreaks`, `OwnContactsOnly`, `CallFanoutBounded` | two handlers, because each hazard is one handler overtaking another; limit 1 and three devices, so that the limit is passed by exactly the allowed one; a second AOR of an unsupported scheme that has a device in common; one label; the clock reaches 1, so that contacts expire |
| `LocationBalance` | Does round robin starve a route? `RoundRobinCovers`, `TypeOK` | three devices, so that the position can be behind, at and beyond the end of a shrunken array; two counters, one by AOR and one by an old client's reference; requests through gRPC |
| `LocationConference` | How far can a conference be spread? `AffinityFanoutBounded` | two lookups in progress at once, three servers: more servers than the bound allows |
| `LocationUndefined` | finding: `LocatesRoute` | one handler: the trace needs no concurrency |
| `RequesterCalls` | Which calls are never answered, and is the promise kept? `TypeOK`, `OnlyTheseAreDeaf`, `NoEntryLeaks`, `KeepsPromise`, `Served` | two calls and one pool thread: one deaf call is enough to starve the other; a provisional, a final and an unconvertible message |
| `RegistryRounds` | Is a trunk ever forgotten? `NeverForgotten`, `TypeOK` | two trunks (one holds up the other), three overlapping rounds of two units; a registrar that grants a little more than an interval, or fails; time stops when the last round starts |
| `EdgePortCalls` | Where do responses, CANCEL and ACK end up? `TypeOK`, `AnswersItsRequest`, `CancelLostOnlyAfterEnd`, `AckUnnumberedOnlyAfterEnd`, `NoEntryLeaks`, `InviteAnswered` | an INVITE with credentials and its retry, with either a CANCEL and a BYE or an ACK; two events in the queue, so that any two cross; one failure of each kind |
| `EdgePortCancel` | finding: `CancelReleasesCallee` | two INVITEs (the challenged one and the next) and a CANCEL; no failure |
| `DispatcherChain` | What leaves the chain, and where is the RTP engine? `RoutedOnlyWhole`, `ResponsesPassOnce`, `RelayFollowsCall` | two messages at once, as a call has two sides; every message of a call but the CANCEL, which no middleware tells from an INFO, the OK twice, with and without a late offer; a browser on either leg; one failed hop. 700 000 states |
| `DispatcherAuth` | finding: `ResponsesAreNotChallenged` | the same instance |
| `RoutingCalls` | Does every message find its way? `TypeOK`, `ViasLeadBack`, `OnlyTheseCirculate`, `OnlyTheseLost`, `ThroughTheRightDoor`, `NothingLeaks`, `CallsArePaidFor`, `AgentsAreNotDialledOut`, `HeadersStayAtHome`, `NobodyWaitsInVain` | three edgeports, one of which shares no net with the others: from the caller's edgeport to the callee's is one hop, and a third tells "the other one" from "another one"; seventeen kinds of call, one for each direction, access check and kind of phone, and one to the host of a phone with a Route of the caller; `MaxHops` 3 is more than the longest way that does not circle, so a circle is seen; one failed lookup |
| `ResourcesApi` | Do the resources stay consistent under concurrent clients? `TypeOK`, `LinksLead`, `UrisAsAsked`, `StoredIsValid`, `WalkShowsAll`, `OnlyTheseForgotten` | two clients and two operations between them (each property is about an operation overtaking another), a walk beside them; nine references of all seven kinds, with two ACLs so that a page of one row has a next; one link, one checked field and the domain among the fields varied; good, bad and weightless URIs. The theorems hold without the bounds |

Each property of a passing run is falsified, under the run's own configuration,
by a changed definition in the module (`put_...`, `Relay_Stateless`,
`directionByCaller`, `PageFromToken`, ...), listed in `PROJECT.json` under `mutants`.

`CHECK_DEADLOCK FALSE` is used where the system stops: a Requester whose calls
are over, a Registry at the last round, a call that has ended, clients whose
operations are spent. `HandlerSymmetry`, `TrunkSymmetry`, `JobSymmetry` are used
only in runs without temporal properties; `MCSymmetry` permutes the clients, and
`OnlyTheseForgotten` is the same formula for each of them and of the form
`[][A]_vars`, for which symmetry is sound.

**Fairness.** `Requester!Fairness` schedules each thread and lets the timers of
the SIP stack end each transaction (by a final response, a timeout or a failed
transport); nothing obliges a peer to respond. All other properties are safety
properties; `InviteAnswered` and `NobodyWaitsInVain` say that whoever waits still
has something coming, which together with the bound on hops is what a liveness
property would say.

### Findings

* `LocationUndefined`: a lookup without a backend of an AOR without routes
  stores `[undefined]` for the call; every later lookup of that call ends in a
  TypeError, even when the AOR has registered.
* `EdgePortCancel`: the end of a transaction of an earlier INVITE removes the
  pair of the ringing one; its CANCEL is answered 200, the handler ends with a
  NullPointerException, and the callee rings on.
* `DispatcherAuth`: SimpleAuth looks at the method alone, and the method of a
  response is that of its request: the RINGING and the OK of an INVITE are
  challenged, where `docs/docs/development/components/simpleauth.md:33` says it
  authenticates requests.

### What the bounds of the passing properties show beside

* A CANCEL is lost not only when a transaction of its call has ended: a timeout of
  another request empties the pair as well, and the answer to an earlier INVITE
  that is challenged late puts its retry in the place of the ringing one
  (`updateClientTransaction`), which is then cancelled in its stead. The excuses of
  `CancelLostOnlyAfterEnd` name both; the first showed in larger instances, the
  proof asked for the second.
* A registration limit is exact only while requests are served one at a time; a
  conference and a call can be split over as many servers as lookups overlap. A
  lookup with labels and no backend reads the key with its labels and writes the
  one without (`location.ts:119`), so its call can be given a target by every
  lookup: `CallFanoutBounded` leaves that key out.
* A call of the Requester can wait for ever in four ways, and two such calls stop
  the service.
* A response can leave on the transaction of a later request of the call, and an
  authenticated INVITE whose pair has gone gets an ACK with the wrong CSeq.
* A message goes unrouted through the dispatcher when the processor fails with an
  error other than UNAVAILABLE (`job.echoed` in `RoutedOnlyWhole`). After the BYE a
  repeated OK opens a session of the RTP engine that nothing deletes (`crossed`).
* A BYE to a browser behind another edgeport circles between edgeports until its
  Max-Forwards runs out, as nothing tests it (`OnlyTheseCirculate`); an ACK or a
  BYE of a browser's call can be lost; a CANCEL is lost when the AOR has no route
  any more, because Connect looks the callee up again and answers
  (`OnlyTheseLost`); the headers of a Number do not reach a phone behind another
  edgeport (`HeadersStayAtHome`); when a phone puts a Route and calls another phone
  by its host, the edgeport takes its mark off one edgeport too early, the next one
  looks for the callee again, and an INVITE can go to and fro with the
  registrations of the callee until Max-Forwards ends it without an answer
  (`CalledByHost` in both); a failed lookup of an Agent sends the call to
  the PSTN (`AgentsAreNotDialledOut`).
* A Trunk whose update failed, was cut off or ran across another has no URIs or
  those of both (`torn` in `UrisAsAsked`); a list ends early when the row last
  shown is deleted (`walk.cut`).
* A session of ctl writes back what it read, undoing what others changed, and
  clears fields its user never touched. `Resources!Forgotten` is the whole list: of
  an agent domainRef, credentialsRef, privacy and expires; of a peer
  accessControlListRef, credentialsRef, balancingAlgorithm and expires; of a domain
  accessControlListRef; of a trunk accessControlListRef, inboundCredentialsRef and
  outboundCredentialsRef; of credentials the password; of numbers and access
  control lists nothing.

### Other behaviour of the code that the models reproduce

Met while modelling, and part of the definitions, without a run of their own
(paths under `mods/`):

* Location. The client sends `balancingAlgorithm`, the message has `algorithm`, so
  a remote lookup is always round robin. The `removeRoutes` handler
  (`location/src/utils.ts:82`) calls `findRoutes`. The cleanup of the memory store
  never runs, as its counter is `NaN` (`location/src/memory_store.ts:64`).
* Registry. The lifetime is counted from the end of the round, so a refresh can be
  sent after the registration has run out (`registry/src/service.ts:102`). A
  Contact without an expires parameter reads as -1 and does not fall back to the
  Expires header, so such a trunk is registered again in each round; an older
  round that settles late overwrites the answer of a newer one; `NeverForgotten`
  holds in spite of both.
* EdgePort. A CANCEL carries the CSeq of the caller's INVITE although a retry with
  credentials was sent with the next one (`GRPCSipListener.java:482`). When Connect
  answers a CANCEL, the handler reads a header that is not there (line 541). A
  body that RTPRelay emptied is replaced by the original one (line 313).
* Connect. Max-Forwards is decreased and never tested (`alterations.ts:324`). When a
  request goes to another edgeport a Route of this one stays in it. BYE, ACK and
  the registration of a trunk are handled outside any try. `AgentManager` of PgData does not join the egress
  policies of the domain, so a call of an ordinary Agent to the PSTN is answered
  500; an Agent of SimpleData has no `domain`, and `findResource` swallows the TypeError.
* PgData. A weight out of range makes the check throw `undefined`
  (`common/src/connect/assertions.ts:173`); on a creation the handler reads a property
  of it and the process ends; an update does not check the URIs at all. The
  policies of a Domain are not replaced by an update, because the request has no
  `egressPolicy` (`pgdata/src/api/update.ts:48`). A deletion swallows every error but
  that of an unreachable database. `mapToPrisma` writes `|| null` for links an update
  does not carry, where the SDK documents a Partial with the fields to update
  (`sdk/src/domains/domains.ts:108`).
* ctl. It lists the first 25 choices of a prompt only; the privacy a user picks is
  stored as NONE; a number's Trunk and extra headers, once set, cannot be cleared.

## 4. Theorems

All are proved for every value of the constants that satisfies the named
assumptions of the module; the proofs about Location, the Requester and the
EdgePort use only finiteness and typing from them (and that the entry of no
transaction is none of the transactions), those about the Registry also
that an accepted registration is granted at least an interval and says so in the
Contact or the Expires header, those about Resources that the order of birth is
one to one at the start and that a request carries what its message has. Those
about the Dispatcher use that the configuration is a sequence of middlewares, that a
call has the messages the code tells apart and that "no value" is none of the values;
`RelayKeepsUp` also has the hypothesis `RelayFirst`, that RTPRelay is configured once
and no other middleware is between the processor and it (with another one in
between, an answer of that one is all that RTPRelay sees of a message; the instance
satisfies it). Those about Routing use that the hosts
of edgeports, of phones and of trunks are apart and no two edgeports share one,
that a phone sends its call to an edgeport that listens for it and without the
headers Routr uses itself, that a Number links to a Trunk that exists, and that
Max-Forwards starts as a natural number; nothing is assumed of the number of
edgeports, phones and registrations or of who can reach whom. Two theorems have a
hypothesis of that kind. `EachWaitEnds` has `RegistrarsReached`: the edgeport of the
Registry reaches the Requester and the Trunks it registers at, these are there, and
Max-Forwards allows a hop (the property excuses the loss of an INVITE, and a
REGISTER must then not be lost at all). `Losses` has `LaidOut`, because what a network
loses depends on who listens where: the same, and

* a Trunk answers at its address, and "no value" is no message;
* Max-Forwards is above two and no smaller than the number of edgeports;
* every edgeport listens for UDP (the transport of an address that names none) and
  for the transport of every phone that is no browser, and has an address to give it;
* a caller whose phone puts a Route and that dials the host of a phone dials no browser.

The instance of `RoutingCalls` satisfies both. Browsers may be anywhere, on
edgeports that do not listen for WebSockets as well: the property says that their
calls can lose an ACK or a BYE.

| Theorem | Statement | Argument |
|---|---|---|
| `LocationProofs!TypeCorrect` | `Spec => []TypeOK` | `TypeOK` is inductive as it stands: it says what kind of request each `pc` needs and that every array is finite |
| `LocationProofs!ContactBound` | `Spec => []ContactOvershootBounded` | The bound alone is not inductive: a handler that has read the table will write after another one did. `ContactInv` counts the addresses about to enter (`Entering`: handlers whose check on what they read will succeed) with those that are live. An address enters `Occupied` only when a handler reads a table below its limit, and each of the other handlers accounts for at most one more |
| `LocationProofs!RegisterSound` | `Spec => []RegisterNeverBreaks` | `RegisterInv`: the array of an AOR is never `[undefined]`, because only lookups put undefined, and only under keys of calls and references (`KeysApart`) |
| `LocationProofs!DevicesDistinct` | `Spec => []NoDuplicateContacts` | inductive over `TypeOK`: `PutDistinct`, as positions follow the index and the index grows with the position (`IndexGrows`) |
| `LocationProofs!CallBound` | `Spec => []CallFanoutBounded` | `CallSpread`: the targets under a key and the lookups that found none for it (`CallWriters`) are together no more than the handlers. A lookup becomes a writer only while the key is empty, and stops being one when it writes |
| `LocationProofs!ConferenceBound` | `Spec => []AffinityFanoutBounded` | `RefSpread`: the same count for a reference |
| `LocationProofs!TurnsReachAll` | `Spec => []RoundRobinCovers` | `Turn(n, p, i)` gives the position after i lookups in closed form, also from one beyond the end of an array that shrank; it agrees with the positions of the property by induction over a set of numbers (`InductionUpTo`), and n turns in a row are n different routes |
| `LocationProofs!LookupsOwn` | `Spec => []OwnContactsOnly` | `OwnInv`: what is stored under a key, and what a handler holds, are contacts of the group of the AOR. A route that is copied to a reference and to the call of another AOR stays in the group, because AORs with one reference have one group (`GroupShared`) |
| `RegistryProofs!TypeCorrect` | `Spec => []TypeOK` | with the types of the replies a round has collected |
| `RegistryProofs!NoTrunkForgotten` | `Spec => []NeverForgotten` | `EntryInv`: an entry is retained for its lifetime less an interval, or for no time at all. `RoundInv`: a trunk the last round read and did not invoke has an entry that outlives the interval, or has got one since |
| `RequesterProofs!TypeCorrect` | `Spec => []TypeOK` | with `IsFiniteSet(workers)`: a thread that ends a task takes at most one |
| `RequesterProofs!DeafExplained` | `Spec => []OnlyTheseAreDeaf` | `CallInv` ties what a call holds to what its transaction received; `MapInv` says that a call nothing disturbed is in the map until its listener has found it and has its value from then on |
| `RequesterProofs!EntriesRemoved` | `Spec => []NoEntryLeaks` | the same invariants |
| `RequesterProofs!Implements` | `Spec => KeepsPromise` | step simulation: `CallSendMessage` is Begin, `Reply` is Answer, `ProcessEvent` is Receive, a refused `SendRequest` is Refuse, every other step a stutter; `CallInv` gives the guards |
| `EdgePortProofs!TypeCorrect` | `Spec => []TypeOK` | with `EndAnnounced` below |
| `EdgePortProofs!EntriesReleased` | `Spec => []NoEntryLeaks` | `EndAnnounced`: an entry whose transaction is over has the event of that end in the queue. Entries are stored only for open transactions, only the stack brings a transaction to its end, and taking the event empties both entries |
| `EdgePortProofs!OwnAnswers` | `Spec => []AnswersItsRequest` | `CallInv` (below): the `server` entry is the transaction of the request forwarded last, so a response that leaves as another request's answer leaves on a later one; without that entry an end was seen (`Unpaired`), and not that of the transaction that still responds |
| `EdgePortProofs!CancelsArrive` | `Spec => []CancelLostOnlyAfterEnd` | `CancelOK`: a CANCEL that waits is behind its INVITE and before the end of its server transaction, and every other INVITE is answered or behind it; `HandledOK` keeps what became of it |
| `EdgePortProofs!AcksNumbered` | `Spec => []AckUnnumberedOnlyAfterEnd` | `AckOK`: at the time of the ACK the `client` entry is that of an INVITE with credentials, or is gone (`Unpaired`) |
| `EdgePortProofs!CalleesHeard` | `Spec => []InviteAnswered` | `AnswersInv`: the final response of a closed leg waits, or has settled the INVITE; a challenge is replaced by a retry, and a 487 comes only for a transaction somebody cancelled (`CancelledOK`) |
| `DispatcherProofs!WholeChain` | `Spec => []RoutedOnlyWhole` | `ChainInv`: whom a message has met (`passed`) is a function of where it is in the chain: the middlewares of its phase up to its position, in the order of the configuration (`RefsUpTo`), then the processor, then those marked postProcessor. One lemma per way a link ends: passed on, answered, failed |
| `DispatcherProofs!FirstOfEach` | `Spec => []ResponsesPassOnce` | the same invariant for a message that came in as a response: its phases end at their first middleware |
| `DispatcherProofs!RelayKeepsUp` | `Spec => []RelayFollowsCall`, under `RelayFirst` | `RelayInv` (below), with `ChainInv` |
| `RoutingProofs!WellFormed` | `Spec => []TypeOK` | `RoutingInv` (below) types every message, and every route in `loc` names an edgeport and a phone |
| `RoutingProofs!WayBack` | `Spec => []ViasLeadBack` | `Traced`, a part of `MessageOK`: each edgeport adds one Via of its own hosts to a request and takes it off its response, and Max-Forwards goes down with it |
| `RoutingProofs!RightDoor` | `Spec => []ThroughTheRightDoor` | the stage Handed of an INVITE: its Routes begin with a host of the edgeport it is sent to and end at the phone that registered there, so that edgeport does not look again, whatever registers or expires meanwhile |
| `RoutingProofs!NoLeak` | `Spec => []NothingLeaks` | the mark and the credentials come off in the step that makes an INVITE Out; a CANCEL and a BYE never carry them |
| `RoutingProofs!OwnHeadersOnly` | `Spec => []HeadersStayAtHome` | an edgeport that hands an INVITE to a peer does not put the headers of the route on it, and the peer sends it on without routing it anew; only in the stage Back is it routed twice |
| `RoutingProofs!Toll` | `Spec => []CallsArePaidFor` | an INVITE gets out to a trunk only by a step of the router from Placed or Back; `checkAccess` lets it pass in the directions that end at a trunk on a token or the secret only, and an INVITE has neither unless the call has |
| `RoutingProofs!NoDetour` | `Spec => []AgentsAreNotDialledOut` | the same step: a direction to the PSTN needs `findResource` to have found no Agent, which for an Agent takes a failed lookup |
| `RoutingProofs!Circulation` | `Spec => []OnlyTheseCirculate` | `FormInv` (below): the Routes a request in a dialog has left name no edgeport it came through, and an INVITE comes to a second edgeport at most, and no further |
| `RoutingProofs!EachCallEnds` | `Spec => [](call \in Calls => NobodyWaitsInVain)` | `WaitInv` (below): while the caller waits, its INVITE, an answer to it that the edgeports pass on, or a phone that rings is there |
| `RoutingProofs!EachWaitEnds` | `Spec => []NobodyWaitsInVain`, under `RegistrarsReached` | the same, and `RegisterInv`: a REGISTER goes from the Requester to its edgeport and from there to the Trunk, and none is lost |
| `RoutingLossProofs!Losses` | `Spec => []OnlyTheseLost`, under `LaidOut` | `InviteInv`, `CancelInv`, `DialogInv` (below) and `RegisterInv`, one for each clause |
| `ResourcesProofs!TypeCorrect` | `Spec => []TypeOK` | inductive as it stands; every action is first shown to be a `Step`, with requests typed by the tables of the managers (`TableOK`, proved kind by kind) |
| `ResourcesProofs!OnlyValidStored` | `Spec => []StoredIsValid` | `StoredInv`: what an update in progress carries has passed the checks of an update; by the tables these cover every checked field the message can carry |
| `ResourcesProofs!LinksAlwaysLead` | `Spec => []LinksLead` | inductive over `TypeOK`: a write is refused when a link dangles at that moment, and a deletion clears what led to the row, whatever was offered in a prompt |
| `ResourcesProofs!UrisKept` | `Spec => []UrisAsAsked` | `UriInv`: a Trunk that is not torn has at most one update between its two queries, and no URIs then |
| `ResourcesProofs!WalkComplete` | `Spec => []WalkShowsAll` | `WalkInv`: all rows the walk has to show that are not older than the last one shown have been shown; creations are younger (`BornInv`), and the newest row of a page exists because the rows are finite |
| `ResourcesProofs!SessionsForgetOnlyThese` | `Spec => OnlyTheseForgotten` | `SessionInv`: the request of a submitted session is `UpdateAnswers` of what it read; `LosesOnlyForgotten` reads off the tables what that can lose |

`ContactBound` cites `TypeCorrect`, counting lemmas over finite sets
(`ImageFinite`, `OccupiedShrinks`), and one lemma per action. `DevicesDistinct`,
`CallBound`, `ConferenceBound` and `LookupsOwn` rest on one lemma, `NextSteps`: a step is one of nine moves of
each handler (`Moves`), and on the store it either shrinks arrays or puts one route
(`Writes`), whose source and key depend on where the handler is. The refinement
`Implements` is the only one stated: the other components have no narrower
promise to their callers than their invariants.

The last four theorems about the EdgePort follow from `CallInv`, which follows the
requests of a call through the queue: a request waits at most once and has no
transaction before it is handled (`RequestsInv`); a final response waits at most
once and before the event of its transaction's end (`ResponsesInv`); the pair is
the one of the request forwarded last, with the retry of an INVITE in the place of
its client transaction, or a failure or an end was seen (`PairInv`). None of the
properties is inductive: what a response, a CANCEL or an ACK finds was stored by
another request, before events that wait in between. What happened stays so (a
state of a transaction, a response, a forwarded request), so a step is described
by what it adds (`HandlerEffect`, `StackEffect`), and each part of the invariant is
shown to survive that once, not once per action.

`RelayKeepsUp` follows from `RelayInv`. The property speaks of what the phones heard
and of what the engine holds, which a message changes one at a time on its way to
RTPRelay while others wait behind it. Before RTPRelay a message is as the phone sent
it or an answer (`Ahead`); behind it, its media are described for the leg it goes to
and the engine was told (`Past`, `Told`). What was heard says how far the call is
(`Follows`), and a message that was sent once is on its way or was heard, not both
(`Once`). Hence which messages can be beside the one that changes the engine
(`Kept`, with a lemma per action): a late OFFER or DELETE of another message would
otherwise undo what an ACK relied on.

The theorems about Routing start from one invariant, `RoutingInv`. An INVITE
is in one of four stages: *Placed* by the phone; *Handed* by the edgeport it came
in through to that of the callee, with the mark and the Routes that lead there;
*Back* at an edgeport that takes it for a new one, which only the Route of a phone
brings about; and *Out*. The properties are statements about Out alone and are not
inductive: what makes Out right was decided an edgeport earlier, by a table that
has changed since. Beside the INVITE the invariant follows what is copied from it
(`TxInv`: what each edgeport keeps to make a CANCEL of; `CalleeInv`: what the phone
that rings will answer). The
alterations that filter a list of Routes are a recursive function (`Without`);
`Lists` bounds the lists of an INVITE by three, and the proof computes the function
on lists of that length.

Three more invariants rest on it. `FormInv` says where a request can still go. What
a request in a dialog meets was written by others: its Routes are the Record-Routes
of the INVITE, kept by a phone, and its target is a Contact. So the invariant
follows these as well, and the INVITE an edgeport keeps to make a CANCEL of.
Such a list is as long as the way was, and what `Without` leaves of it is found by
induction over its positions (`WithoutClean`). `Handled` sums up what an edgeport
does with a request: it drops it, refuses it, makes a CANCEL of what it kept, or
sends it onward with itself as the last of the path.
`WaitInv` says why a caller still waits. A CANCEL that reaches the phone ends the
call without an answer of the phone; the edgeport that sent it on has answered the
caller 487 before, and that answer (`Final`) is on its way or has arrived. An answer
487 to another than the caller stays in the stack that asked for it, so it keeps
nobody waiting for a reason (`Live`). `RegisterInv` says that a REGISTER is at the
door of its first edgeport or on the way from it to the Trunk.

`Losses` takes each kind of request by itself, since each is lost for a reason of its
own. An INVITE is lost when Max-Forwards runs out: `InviteInv` says that the second
edgeport it comes to is the last, unless the phone registers somewhere else meanwhile
(`Settles`). A CANCEL is lost when Connect would not send it on, and then the INVITE
before it must have been sent on: while no phone registers and no lookup fails, the
answer of Connect to both is the same (`SameRoute`, `SameForward`), and only an INVITE
to a trunk is there to cancel (`CancelInv`). An ACK or a BYE is lost when an edgeport
does not listen for the transport of a Route, and these Routes are what the INVITE
gathered. `DialogInv` follows them: the Record-Routes of an INVITE for a phone that is
no browser have transports every edgeport listens for (`InviteTravels`; an edgeport
that receives the INVITE from another knows the phone by the last Route only, hence
`Target`), then the phone that rings, its answer and the caller have them, and every
request in the dialog. Such a request comes to no edgeport twice (`FormInv`), so
Max-Forwards lasts (`NotBlockedInside`).

Only model-checked: the liveness property `Served`, as liveness under fairness is
out of the prover's reach. No module declares a RECURSIVE
operator. What a recursive function or a fold computes for an input of any length
needs induction over data and is left to TLC, except where the induction can be
written over a set of numbers (`RefsUpTo`, the positions of a round robin, the
Routes that `Without` leaves).

## 5. Not modelled

* The Redis stores: the same operations over keys that expire in the server.
* SimpleData: look-ups in files read at start. `one` starts the services; Echo
  answers OK.
* In `EdgePort`: REGISTER and its metrics event, several calls in one process
  (their keys are apart), re-INVITE glare, the stall of the one listener thread by
  a slow Dispatcher. Requests of the callee and the conversion of routing headers
  are in `Routing`.
* In Connect and the processor library: `ENFORCE_E164` (off by default, a rewriting
  of digits), the signature of a token, the digest of a password (credentials are
  right or wrong).
* In PgData and ctl: names in use are one way in which `UpdateFails`; extended
  attributes and country codes, which no check looks at; login, describe and the
  layout of tables.
* In all services: checks of configuration at start, TLS, tracing, health checks.
* `HashMap` internals beyond a lost change, and the Java memory model beyond the
  eventual visibility of a polled field.

## 6. Plan

1. The Redis store of Location under the same handlers: a write and an expiry per
   route, a scan followed by a get per key, and the copy of a route that a
   conference reference keeps (`location.ts:178`), with a history of its calls.
2. `Dispatcher` and `Routing` composed: the chain at each edgeport, so that a
   middleware's answer meets the Via headers of a call through two of them.
