------------------------------ MODULE Location ------------------------------
(***************************************************************************)
(* The Location Service of Routr (mods/location/src): the location table   *)
(* kept in the memory store, the AddRoute, FindRoutes and RemoveRoutes     *)
(* operations with their load balancing, and the gRPC handlers in front of *)
(* them.                                                                   *)
(*                                                                         *)
(* Each request in progress is a handler.  The service is one JavaScript   *)
(* thread, so a handler runs alone from one await to the next; at an await *)
(* any other handler may run.  An action is therefore the code between two *)
(* awaits, and the result of the awaited store.get, which the store takes  *)
(* before the await, is kept in got[h] until the handler resumes.          *)
(***************************************************************************)
EXTENDS MemoryStore

CONSTANTS
  Handler,       \* requests that can be in progress at once
  Aor,           \* addresses of record
  SupportedAor,  \* those whose scheme is "sip:" or "backend:"
  Addr,          \* host, port and transport of a device
  User,          \* user part of a contact
  Label,         \* label key-value pairs
  CallId,        \* SIP Call-IDs
  Ref,           \* session affinity references
  BackendRef,    \* backend references sent by old clients
  Contact,       \* the contacts devices register with
  Expires,       \* the lifetimes they ask for
  MaxContacts,   \* maxContacts of the resource behind each AOR, -1: no limit
  FindRequests,  \* the lookups clients make
  Remote,        \* TRUE: clients use gRPC; FALSE: they call the class itself
  MaxCyclesBeforeCleanup,
  MaxTime,       \* bound on the clock
  NoCall,        \* the undefined Call-ID of a RemoveRoutes request
  NoRef,         \* no session affinity reference, or no backend reference
  NoReq,         \* no request
  NaN            \* JavaScript's NaN

FindRequest ==
  [op : {"findRoutes", "removeRoutes"},
   aor : Aor, callId : CallId \cup {NoCall}, labels : SUBSET Label,
   backend : BOOLEAN, balancingAlgorithm : {"ROUND_ROBIN", "LEAST_SESSIONS"},
   withSessionAffinity : BOOLEAN, sessionAffinityRef : Ref \cup {NoRef},
   backendRef : BackendRef \cup {NoRef}]

ASSUME ConstantsAssumption ==
  /\ IsFiniteSet(Handler) /\ Handler # {}
  /\ SupportedAor \subseteq Aor
  /\ NoCall \notin CallId /\ NoRef \notin Ref \cup BackendRef
  /\ Contact \subseteq [aor : Aor, addr : Addr, user : User,
                        sessionCount : Int, labels : SUBSET Label]
  /\ Expires \subseteq Int
  /\ MaxContacts \in [Aor -> Int]
  /\ \A a \in Aor : MaxContacts[a] >= -1
  /\ FindRequests \subseteq FindRequest
  /\ Remote \in BOOLEAN
  /\ MaxCyclesBeforeCleanup \in Nat \ {0}
  /\ MaxTime \in Nat
  /\ NaN \notin Nat

VARIABLES
  now,           \* the clock, in units of the lifetimes
  collections,   \* MemoryStore.collections, {} for a key that is not in it
  poisoned,      \* keys whose array is [undefined]
  cleanupCount,  \* MemoryStore.cleanupCount
  rrCount,       \* Location.rrCount, 0 for a reference that is not in it
  pc,            \* the await each handler is at
  req,           \* its request, as the client sent it
  got,           \* the routes its last store.get returned; then its result
  candidates,    \* its local variable routes, or the route it picked
  reply          \* the outcome of its request

storeVars == <<collections, poisoned, cleanupCount>>
vars == <<now, collections, poisoned, cleanupCount, rrCount, pc, req, got,
          candidates, reply>>

-----------------------------------------------------------------------------
(* Types                                                                   *)

Route == [addr : Addr, user : User, sessionCount : Int,
          labels : SUBSET Label, deadline : Int, pos : Nat]

AddRequest == [op : {"addRoute"}, aor : Aor, route : Route, maxContacts : Int]

(* The keys of the store: "aor", "aor:callId[:labels]" and the session     *)
(* affinity reference itself.                                              *)
AorKey(a) == <<"aor", a>>
CallKey(a, c, ls) == <<"call", a, c, ls>>
RefKey(r) == <<"ref", r>>

AorKeys == {AorKey(a) : a \in Aor}
CallKeys == {CallKey(a, c, ls) :
               a \in Aor, c \in CallId \cup {NoCall}, ls \in SUBSET Label}
RefKeys == {RefKey(r) : r \in Ref}
Key == AorKeys \cup CallKeys \cup RefKeys

PC == {"idle", "add", "lookup", "relookup", "bindings", "affinity", "picked",
       "done"}
FindPC == {"lookup", "relookup", "bindings", "affinity", "picked"}
Status == {"none", "ok", "BadRequest", "UnsupportedSchema", "NotRoutesFound",
           "TypeError"}

-----------------------------------------------------------------------------
(* The store                                                               *)

Live(key) == Unexpired(collections[key], now)

CleanupDue == cleanupCount # NaN /\ cleanupCount + 1 >= MaxCyclesBeforeCleanup

(* The handler ends with a result and waits for its reply to be sent.  The *)
(* gRPC handler turns an empty FindRoutes result into an error.            *)
Answer(h, routes) ==
  /\ pc' = [pc EXCEPT ![h] = "done"]
  /\ got' = [got EXCEPT ![h] = routes]
  /\ candidates' = [candidates EXCEPT ![h] = {}]
  /\ reply' = [reply EXCEPT ![h] =
       IF Remote /\ req[h].op = "findRoutes" /\ routes = {}
         THEN "NotRoutesFound" ELSE "ok"]

(* The handler ends with an exception.                                     *)
Throw(h, error) ==
  /\ pc' = [pc EXCEPT ![h] = "done"]
  /\ got' = [got EXCEPT ![h] = {}]
  /\ candidates' = [candidates EXCEPT ![h] = {}]
  /\ reply' = [reply EXCEPT ![h] = error]

(* get of store.get(key): counts a cycle, sweeps the store when the count  *)
(* is due, and returns the unexpired routes.  expiredFilter throws on an   *)
(* undefined element.                                                      *)
AwaitGet(h, key, resume) ==
  /\ cleanupCount' = CASE CleanupDue -> 0
                       [] cleanupCount = NaN -> NaN
                       [] OTHER -> cleanupCount + 1
  /\ collections' = IF CleanupDue
                      THEN [k \in Key |-> Unexpired(collections[k], now)]
                      ELSE collections
  /\ UNCHANGED poisoned
  /\ \/ /\ key \notin poisoned
        /\ pc' = [pc EXCEPT ![h] = resume]
        /\ got' = [got EXCEPT ![h] = Live(key)]
        /\ UNCHANGED reply
     \/ /\ key \in poisoned
        /\ pc' = [pc EXCEPT ![h] = "done"]
        /\ got' = [got EXCEPT ![h] = {}]
        /\ reply' = [reply EXCEPT ![h] = "TypeError"]

(* put filters the array that is there, and compares its unexpired routes  *)
(* with the new one: it throws when either is undefined.                   *)
PutThrows(key, pick) ==
  key \in poisoned \/ (pick = {} /\ Live(key) # {})

(* store.put(key, pick[0]).  Putting undefined leaves the array            *)
(* [undefined].                                                            *)
StorePut(key, pick) ==
  /\ UNCHANGED cleanupCount
  /\ \/ /\ pick = {}
        /\ collections' = [collections EXCEPT ![key] = {}]
        /\ poisoned' = poisoned \cup {key}
     \/ /\ \E r \in pick :
             collections' = [collections EXCEPT ![key] = Put(@, r, now)]
        /\ UNCHANGED poisoned

(* store.put(key, pick[0]) and the end of the request.                     *)
PutAndAnswer(h, key, pick, routes) ==
  IF PutThrows(key, pick) THEN Throw(h, "TypeError") /\ UNCHANGED storeVars
                          ELSE StorePut(key, pick) /\ Answer(h, routes)

-----------------------------------------------------------------------------
(* Requests                                                                *)

(* What the service receives of a lookup.  The protobuf message calls the  *)
(* algorithm "algorithm", so the client's balancingAlgorithm is not sent;  *)
(* a JavaScript Map has no own properties, so the labels are not either.   *)
Received(q) ==
  IF Remote THEN [q EXCEPT !.balancingAlgorithm = "ROUND_ROBIN", !.labels = {}]
            ELSE q

storeKeyWithLabels_NoAor(q) == CallKey(CHOOSE a \in Aor : TRUE, q.callId, q.labels)
storeKeyWithLabels(q) == CallKey(q.aor, q.callId, q.labels)

unlabelledKey_NoCall(q) == AorKey(q.aor)
unlabelledKey(q) == CallKey(q.aor, q.callId, {})

(* backend?.ref || request.aor                                             *)
RRKey == Aor \cup BackendRef
rrRef(q) == IF q.backendRef = NoRef THEN q.aor ELSE q.backendRef

RouteOf(c, e) ==
  [addr |-> c.addr, user |-> c.user, sessionCount |-> c.sessionCount,
   labels |-> c.labels, deadline |-> now + e, pos |-> 0]

(* An AddRoute request starts: the scheme is checked and the AOR's routes  *)
(* are read.                                                               *)
AddRoute(h, c, e) ==
  /\ pc[h] = "idle"
  /\ req' = [req EXCEPT ![h] =
       [op |-> "addRoute", aor |-> c.aor, route |-> RouteOf(c, e),
        maxContacts |-> MaxContacts[c.aor]]]
  /\ \/ /\ c.aor \in SupportedAor
        /\ AwaitGet(h, AorKey(c.aor), "add")
        /\ UNCHANGED candidates
     \/ /\ c.aor \notin SupportedAor
        /\ Throw(h, "UnsupportedSchema")
        /\ UNCHANGED storeVars
  /\ UNCHANGED <<now, rrCount>>

routeAlreadyExists(route, existing) ==
  \E r \in existing : r.user = route.user /\ r.addr = route.addr

Accepts_OffByOne(q, existing) ==
  \/ routeAlreadyExists(q.route, existing)
  \/ q.maxContacts = -1
  \/ Cardinality(existing) <= q.maxContacts

(* The limit of contacts lets the route in: it replaces one that is there, *)
(* there is no limit, or the limit is not reached.                         *)
Accepts(q, existing) ==
  \/ routeAlreadyExists(q.route, existing)
  \/ q.maxContacts = -1
  \/ Cardinality(existing) < q.maxContacts

(* AddRoute resumes: it decides from the routes it read before the await.  *)
ResumeAdd(h) ==
  /\ pc[h] = "add"
  /\ \/ /\ Accepts(req[h], got[h])
        /\ PutAndAnswer(h, AorKey(req[h].aor), {req[h].route}, {})
     \/ /\ ~Accepts(req[h], got[h])
        /\ Throw(h, "BadRequest")
        /\ UNCHANGED storeVars
  /\ UNCHANGED <<now, rrCount, req>>

-----------------------------------------------------------------------------
(* FindRoutes                                                              *)

(* A lookup starts: it reads the routes this call was given before.        *)
FindRoutes(h, q) ==
  /\ pc[h] = "idle"
  /\ req' = [req EXCEPT ![h] = q]
  /\ AwaitGet(h, storeKeyWithLabels(Received(q)), "lookup")
  /\ UNCHANGED <<now, rrCount, candidates>>

(* RemoveRoutes through gRPC: the handler calls findRoutes with a request  *)
(* that has nothing but an AOR.                                            *)
RemoveRoutesRequest(a) ==
  [op |-> "removeRoutes", aor |-> a, callId |-> NoCall, labels |-> {},
   backend |-> FALSE, balancingAlgorithm |-> "ROUND_ROBIN",
   withSessionAffinity |-> FALSE, sessionAffinityRef |-> NoRef,
   backendRef |-> NoRef]

RemoveRoutesRpc(h, a) == Remote /\ FindRoutes(h, RemoveRoutesRequest(a))

(* Location.removeRoutes, when the class itself is called.                 *)
RemoveRoutes(a) ==
  /\ ~Remote
  /\ collections' = [collections EXCEPT ![AorKey(a)] = {}]
  /\ poisoned' = poisoned \ {AorKey(a)}
  /\ UNCHANGED <<now, cleanupCount, rrCount, pc, req, got, candidates, reply>>

Cached_Ignored(h) == FALSE

(* The key of the call has routes.                                         *)
Cached(h) == got[h] # {}

(* The lookup resumes with the routes of the call.  With none, a labelled  *)
(* request reads the same key once more and any other reads the AOR.       *)
ResumeLookup(h) ==
  /\ pc[h] = "lookup"
  /\ LET q == Received(req[h])
     IN  \/ /\ Cached(h)
            /\ Answer(h, got[h])
            /\ UNCHANGED storeVars
         \/ /\ ~Cached(h) /\ q.labels # {}
            /\ AwaitGet(h, storeKeyWithLabels(q), "relookup")
            /\ UNCHANGED candidates
         \/ /\ ~Cached(h) /\ q.labels = {}
            /\ AwaitGet(h, AorKey(q.aor), "bindings")
            /\ UNCHANGED candidates
  /\ UNCHANGED <<now, rrCount, req>>

NextPosition_ResetsBelow(position, routes) ==
  IF position >= Cardinality(routes) - 1 THEN -1 ELSE position + 1

NextPosition_SkipsLast(position, routes) ==
  IF position >= Cardinality(routes) - 2 THEN 0 ELSE position + 1

(* The round-robin position that follows position in an array of routes.   *)
NextPosition(position, routes) ==
  IF position >= Cardinality(routes) - 1 THEN 0 ELSE position + 1

(* next, and the cache entry of the call for the route it returns.         *)
Balance(h, q, routes) ==
  LET leastSessions == q.balancingAlgorithm = "LEAST_SESSIONS"
      pick == IF leastSessions THEN LeastSessions(routes)
                               ELSE At(routes, rrCount[rrRef(q)])
  IN  /\ rrCount' = IF leastSessions THEN rrCount
                    ELSE [rrCount EXCEPT ![rrRef(q)] = NextPosition(@, routes)]
      /\ IF pick = {} THEN Answer(h, {}) /\ UNCHANGED storeVars
                      ELSE PutAndAnswer(h, storeKeyWithLabels(q), pick, pick)

(* The rest of findRoutes once the routes of the AOR are known.  Without a *)
(* backend the first route is cached for the call, under the key without   *)
(* labels, and all are returned.  A backend with session affinity first    *)
(* reads the route of the affinity reference.                              *)
SelectRoute(h, q, routes) ==
  \/ /\ ~q.backend
     /\ PutAndAnswer(h, unlabelledKey(q), At(routes, 0), routes)
     /\ UNCHANGED rrCount
  \/ /\ q.backend /\ q.withSessionAffinity /\ q.sessionAffinityRef # NoRef
     /\ AwaitGet(h, RefKey(q.sessionAffinityRef), "affinity")
     /\ candidates' = [candidates EXCEPT ![h] = IF pc'[h] = "done" THEN {}
                                                ELSE routes]
     /\ UNCHANGED rrCount
  \/ /\ q.backend /\ ~(q.withSessionAffinity /\ q.sessionAffinityRef # NoRef)
     /\ Balance(h, q, routes)

ResumeRelookup(h) ==
  /\ pc[h] = "relookup"
  /\ LET q == Received(req[h])
     IN  \/ /\ Cached(h)
            /\ SelectRoute(h, q, got[h])
         \/ /\ ~Cached(h)
            /\ AwaitGet(h, AorKey(q.aor), "bindings")
            /\ UNCHANGED <<candidates, rrCount>>
  /\ UNCHANGED <<now, req>>

ResumeBindings(h) ==
  /\ pc[h] = "bindings"
  /\ LET q == Received(req[h])
     IN  SelectRoute(h, q, IF q.labels = {} THEN got[h]
                           ELSE MatchingLabels(got[h], q.labels))
  /\ UNCHANGED <<now, req>>

AffinityUnset_Always(h) == TRUE

(* The reference has no route yet.                                         *)
AffinityUnset(h) == got[h] = {}

(* The route nextWithAffinity returns: the one the reference has, or the   *)
(* one with the fewest sessions.                                           *)
AffinityPick(h) ==
  IF AffinityUnset(h) THEN LeastSessions(candidates[h]) ELSE At(got[h], 0)

(* nextWithAffinity resumes.  A route chosen here becomes the route of the *)
(* reference, even when there is none to choose.                           *)
ResumeAffinity(h) ==
  /\ pc[h] = "affinity"
  /\ LET key == RefKey(req[h].sessionAffinityRef)
         pick == AffinityPick(h)
     IN  IF AffinityUnset(h) /\ PutThrows(key, pick)
           THEN Throw(h, "TypeError") /\ UNCHANGED storeVars
           ELSE /\ IF AffinityUnset(h) THEN StorePut(key, pick)
                                      ELSE UNCHANGED storeVars
                /\ pc' = [pc EXCEPT ![h] = "picked"]
                /\ got' = [got EXCEPT ![h] = {}]
                /\ candidates' = [candidates EXCEPT ![h] = pick]
                /\ UNCHANGED reply
  /\ UNCHANGED <<now, rrCount, req>>

(* findRoutes resumes with the route nextWithAffinity returned.            *)
ResumePicked(h) ==
  /\ pc[h] = "picked"
  /\ IF candidates[h] = {}
       THEN Answer(h, {}) /\ UNCHANGED storeVars
       ELSE PutAndAnswer(h, storeKeyWithLabels(Received(req[h])),
                         candidates[h], candidates[h])
  /\ UNCHANGED <<now, rrCount, req>>

-----------------------------------------------------------------------------
(* The reply is sent and the handler is free.                              *)
Callback(h) ==
  /\ pc[h] = "done"
  /\ pc' = [pc EXCEPT ![h] = "idle"]
  /\ req' = [req EXCEPT ![h] = NoReq]
  /\ got' = [got EXCEPT ![h] = {}]
  /\ reply' = [reply EXCEPT ![h] = "none"]
  /\ UNCHANGED <<now, collections, poisoned, cleanupCount, rrCount, candidates>>

Tick ==
  /\ now < MaxTime
  /\ now' = now + 1
  /\ UNCHANGED <<collections, poisoned, cleanupCount, rrCount, pc, req, got,
                 candidates, reply>>

(* cleanupCount is declared and never assigned: it is undefined, and NaN   *)
(* from the first increment on.                                            *)
Init ==
  /\ now = 0
  /\ collections = [k \in Key |-> {}]
  /\ poisoned = {}
  /\ cleanupCount = NaN
  /\ rrCount = [r \in RRKey |-> 0]
  /\ pc = [h \in Handler |-> "idle"]
  /\ req = [h \in Handler |-> NoReq]
  /\ got = [h \in Handler |-> {}]
  /\ candidates = [h \in Handler |-> {}]
  /\ reply = [h \in Handler |-> "none"]

Step(h) ==
  \/ ResumeAdd(h)
  \/ ResumeLookup(h)
  \/ ResumeRelookup(h)
  \/ ResumeBindings(h)
  \/ ResumeAffinity(h)
  \/ ResumePicked(h)
  \/ Callback(h)

Next ==
  \/ \E h \in Handler, c \in Contact, e \in Expires : AddRoute(h, c, e)
  \/ \E h \in Handler, q \in FindRequests : FindRoutes(h, q)
  \/ \E h \in Handler, a \in Aor : RemoveRoutesRpc(h, a)
  \/ \E a \in Aor : RemoveRoutes(a)
  \/ \E h \in Handler : Step(h)
  \/ Tick

Spec == Init /\ [][Next]_vars

-----------------------------------------------------------------------------
(* Properties                                                              *)

Finding(h) == pc[h] \in FindPC
Adding(h) == pc[h] = "add"
Found(h) == pc[h] = "done" /\ req[h].op = "findRoutes"

(* Types: every collection is a finite set of routes, and a handler's      *)
(* request is of the kind its position in the code needs.                  *)
TypeOK ==
  /\ now \in Nat
  /\ collections \in [Key -> SUBSET Route]
  /\ \A k \in Key : IsFiniteSet(collections[k])
  /\ poisoned \subseteq Key
  /\ cleanupCount \in Nat \cup {NaN}
  /\ rrCount \in [RRKey -> Nat]
  /\ pc \in [Handler -> PC]
  /\ req \in [Handler -> AddRequest \cup FindRequest \cup {NoReq}]
  /\ \A h \in Handler : /\ Adding(h) => req[h] \in AddRequest
                        /\ Finding(h) => req[h] \in FindRequest
                        /\ pc[h] = "affinity" => req[h].sessionAffinityRef # NoRef
                        /\ pc[h] = "done" => req[h] \in AddRequest \cup FindRequest
  /\ got \in [Handler -> SUBSET Route]
  /\ candidates \in [Handler -> SUBSET Route]
  /\ reply \in [Handler -> Status]

(* An array of the store never lists a device twice, and its order is      *)
(* total: a lookup offers a device once, and routes[n] is one route        *)
(* (memory_store.ts, put: "Avoids duplicate or expired routes").           *)
NoDuplicateContacts ==
  \A k \in Key : \A r1, r2 \in collections[k] :
    r1 # r2 => r1.addr # r2.addr /\ r1.pos # r2.pos

(* addRoute checks maxContacts before an await and writes after it.  The   *)
(* registrations in progress can together pass the limit, but by no more   *)
(* than one contact for each of them but the first: an AOR never has more  *)
(* than maxContacts - 1 + |Handler| live contacts, and with requests       *)
(* served one at a time the limit is exact.                                *)
ContactOvershootBounded ==
  \A a \in Aor : MaxContacts[a] # -1 =>
    Cardinality(Addresses(Live(AorKey(a))))
      <= MaxContacts[a] + Cardinality(Handler) - 1

(* nextWithAffinity reads the reference before an await and writes it      *)
(* after: the calls of one conference in progress at once can be spread    *)
(* over that many servers, and over no more.  With lookups served one at a *)
(* time, a conference has one server while its entry lives.                *)
AffinityFanoutBounded ==
  \A r \in Ref :
    Cardinality(Addresses(Live(RefKey(r)))) <= Cardinality(Handler)

(* A lookup with labels and no backend reads the key of its labels and     *)
(* writes the key without; every other lookup writes the key it has read.  *)
WritesWhatItReads(q) == q.backend \/ Received(q).labels = {}

(* The keys of calls that no lookup writes without having read them.       *)
ReadFirstKeys ==
  {k \in CallKeys : \A q \in FindRequests :
     unlabelledKey(Received(q)) = k => WritesWhatItReads(q)}

(* The lookups of one call that are in progress at once can cache that     *)
(* many targets for it, and no more; served one at a time, a call keeps    *)
(* one target while the entry lives (without labels, that is over gRPC).   *)
(* A key that some lookup writes unread is left out: it can get a target   *)
(* from each.                                                              *)
CallFanoutBounded ==
  \A k \in ReadFirstKeys :
    Cardinality(Addresses(Live(k))) <= Cardinality(Handler)

ContactsOf(a) == {c.addr : c \in {x \in Contact : x.aor = a}}

SharesRef ==
  [a \in Aor |-> {b \in Aor : \E q1, q2 \in FindRequests :
     /\ q1.aor = a /\ q2.aor = b
     /\ q1.sessionAffinityRef = q2.sessionAffinityRef
     /\ q1.sessionAffinityRef # NoRef}]

(* The AORs that affinity references tie to one, through others too: those *)
(* in every set that has it and all that share a reference with a member.  *)
Together ==
  [a \in Aor |-> {b \in Aor : \A S \in SUBSET Aor :
     a \in S /\ (\A d \in S : SharesRef[d] \subseteq S) => b \in S}]

(* A lookup only ever returns contacts registered under the AOR it asked   *)
(* for, or under one that affinity references tie to it, whatever is       *)
(* cached for the call and however lookups interleave.                     *)
OwnContactsOnly ==
  \A h \in Handler : Found(h) =>
    Addresses(got[h]) \subseteq UNION {ContactsOf(b) : b \in Together[req[h].aor]}

(* A lookup of an AOR without routes leaves an undefined route in the      *)
(* store; that never reaches the array registrations use, so a REGISTER is *)
(* accepted, or refused for its scheme or its limit, and never fails.      *)
RegisterNeverBreaks ==
  \A h \in Handler :
    pc[h] = "done" /\ req[h].op = "addRoute" => reply[h] # "TypeError"

(* Whatever registrations, removals and expirations have left of the       *)
(* round-robin position, n + 1 lookups in a row reach every one of n live  *)
(* routes: no route is starved while the array does not change.            *)
RoundRobinCovers ==
  \A a \in Aor, ref \in RRKey :
    LET routes == Live(AorKey(a))
        n == Cardinality(routes)
        position[i \in 0..n] == IF i = 0 THEN rrCount[ref]
                                ELSE NextPosition(position[i - 1], routes)
    IN  routes = UNION {At(routes, position[i]) : i \in 0..n}

-----------------------------------------------------------------------------
(* What the documentation says of the service, and the code does not do.   *)

(* CORE.md:701: "Find Routes - Find all the routes to an endpoint".  With  *)
(* requests served one at a time, a lookup that ends without a route is    *)
(* for an AOR that has none.                                               *)
LocatesRoute ==
  \A h \in Handler :
    Found(h) /\ reply[h] \in {"NotRoutesFound", "TypeError"} =>
      Live(AorKey(req[h].aor)) = {}
=============================================================================
