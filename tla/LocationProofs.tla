--------------------------- MODULE LocationProofs ---------------------------
(***************************************************************************)
(* Theorems about Location: what the registrar keeps and answers, and what *)
(* the store holds for devices, calls and conferences, for every instance. *)
(***************************************************************************)
EXTENDS Location, FiniteSetTheorems, WellFoundedInduction, TLAPS

-----------------------------------------------------------------------------
(* The image of a finite set under a function is finite and no larger.     *)
LEMMA ImageFinite ==
  ASSUME NEW S, IsFiniteSet(S), NEW T, NEW f \in [S -> T]
  PROVE  /\ IsFiniteSet({f[x] : x \in S})
         /\ Cardinality({f[x] : x \in S}) <= Cardinality(S)
         /\ Cardinality({f[x] : x \in S}) \in Nat
  <1> DEFINE I == {f[x] : x \in S}
  <1>1. f \in Surjection(S, I)
    BY DEF Surjection
  <1>2. IsFiniteSet(I) /\ Cardinality(I) <= Cardinality(S)
    BY <1>1, FS_Surjection
  <1>. QED BY <1>2, FS_CardinalityType

(* The addresses of a finite set of routes are finite, and no more.        *)
LEMMA AddressesFinite ==
  ASSUME NEW routes \in SUBSET Route, IsFiniteSet(routes)
  PROVE  /\ IsFiniteSet(Addresses(routes))
         /\ Cardinality(Addresses(routes)) <= Cardinality(routes)
  <1> DEFINE f == [r \in routes |-> r.addr]
  <1>1. f \in [routes -> Addr]
    BY DEF Route
  <1>2. Addresses(routes) = {f[r] : r \in routes}
    BY DEF Addresses
  <1>3. IsFiniteSet(routes)
    OBVIOUS
  <1>. HIDE DEF f
  <1>4. /\ IsFiniteSet({f[r] : r \in routes})
        /\ Cardinality({f[r] : r \in routes}) <= Cardinality(routes)
    BY <1>1, <1>3, ImageFinite
  <1>. QED BY <1>2, <1>4

(* The routes of finitely many requests have no more addresses than that.  *)
LEMMA RequestedFinite ==
  ASSUME NEW S, IsFiniteSet(S), NEW requests
  PROVE  /\ IsFiniteSet({requests[g].route.addr : g \in S})
         /\ Cardinality({requests[g].route.addr : g \in S}) <= Cardinality(S)
  <1> DEFINE T == {requests[g].route.addr : g \in S}
             f == [g \in S |-> requests[g].route.addr]
  <1>1. f \in [S -> T]
    OBVIOUS
  <1>2. T = {f[g] : g \in S}
    OBVIOUS
  <1>. HIDE DEF f, T
  <1>3. /\ IsFiniteSet({f[g] : g \in S})
        /\ Cardinality({f[g] : g \in S}) <= Cardinality(S)
    BY <1>1, ImageFinite
  <1>4. IsFiniteSet(T) /\ Cardinality(T) <= Cardinality(S)
    BY <1>2, <1>3
  <1>. QED BY <1>4 DEF T

-----------------------------------------------------------------------------
(* The operators of the memory store.                                      *)

(* The index of a route in a finite array is a natural number.             *)
LEMMA IndexType ==
  ASSUME NEW routes, IsFiniteSet(routes), NEW r
  PROVE  IndexOf(r, routes) \in Nat
  <1>1. {q \in routes : q.pos < r.pos} \subseteq routes
    OBVIOUS
  <1>. QED BY <1>1, FS_Subset, FS_CardinalityType DEF IndexOf

(* put makes a finite array of routes from one, and every address it has   *)
(* is that of an unexpired route of the array or of the new route.         *)
LEMMA PutType ==
  ASSUME NEW routes \in SUBSET Route, IsFiniteSet(routes),
         NEW route \in Route, NEW t \in Int
  PROVE  /\ Put(routes, route, t) \in SUBSET Route
         /\ IsFiniteSet(Put(routes, route, t))
         /\ Addresses(Put(routes, route, t))
              \subseteq Addresses(Unexpired(routes, t)) \cup {route.addr}
  <1> DEFINE kept == {r \in Unexpired(routes, t) : duplicateFilter(r, route)}
             moved == {[r EXCEPT !.pos = 1 + IndexOf(r, kept)] : r \in kept}
             head == [route EXCEPT !.pos = 0]
  <1>1. kept \subseteq routes /\ kept \subseteq Route
    BY DEF Unexpired
  <1>2. IsFiniteSet(kept)
    BY <1>1, FS_Subset
  <1>3. \A r \in kept : IndexOf(r, kept) \in Nat
    BY <1>2, IndexType
  <1>4. moved \subseteq Route
    <2> SUFFICES ASSUME NEW r \in kept
                 PROVE  [r EXCEPT !.pos = 1 + IndexOf(r, kept)] \in Route
      OBVIOUS
    <2>1. r \in Route /\ 1 + IndexOf(r, kept) \in Nat
      BY <1>1, <1>3
    <2>. QED BY <2>1 DEF Route
  <1>5. IsFiniteSet(moved)
    <2> DEFINE f == [r \in kept |-> [r EXCEPT !.pos = 1 + IndexOf(r, kept)]]
    <2>1. f \in [kept -> Route]
      BY <1>4
    <2>2. moved = {f[r] : r \in kept}
      OBVIOUS
    <2>. HIDE DEF f, kept, moved
    <2>. QED BY <1>2, <2>1, <2>2, ImageFinite
  <1>6. head \in Route /\ head.addr = route.addr
    BY DEF Route
  <1>7. \A r \in moved : r.addr \in Addresses(Unexpired(routes, t))
    <2> SUFFICES ASSUME NEW r \in kept
                 PROVE  [r EXCEPT !.pos = 1 + IndexOf(r, kept)].addr
                          \in Addresses(Unexpired(routes, t))
      OBVIOUS
    <2>1. r \in Unexpired(routes, t) /\ r \in Route
      BY <1>1
    <2>2. [r EXCEPT !.pos = 1 + IndexOf(r, kept)].addr = r.addr
      BY <2>1 DEF Route
    <2>. QED BY <2>1, <2>2 DEF Addresses
  <1>8. Put(routes, route, t) = {head} \cup moved
    BY DEF Put, Prepend
  <1>. HIDE DEF head, moved, kept
  <1>9. IsFiniteSet({head} \cup moved)
    <2>1. IsFiniteSet(moved \cup {head})
      BY <1>5, FS_AddElement
    <2>2. {head} \cup moved = moved \cup {head}
      OBVIOUS
    <2>. QED BY <2>1, <2>2
  <1>10. {head} \cup moved \in SUBSET Route
    BY <1>4, <1>6
  <1>11. Addresses({head} \cup moved)
           \subseteq Addresses(Unexpired(routes, t)) \cup {route.addr}
    BY <1>6, <1>7 DEF Addresses
  <1>. QED BY <1>8, <1>9, <1>10, <1>11

-----------------------------------------------------------------------------
(* Type correctness.                                                       *)

(* The keys a request uses are keys of the store.                          *)
LEMMA KeyType ==
  /\ \A a \in Aor : AorKey(a) \in Key
  /\ \A r \in Ref : RefKey(r) \in Key
  /\ \A q \in FindRequest : /\ storeKeyWithLabels(q) \in Key
                           /\ unlabelledKey(q) \in Key
  <1>1. \A a \in Aor : AorKey(a) \in Key
    BY DEF Key, AorKeys
  <1>2. \A r \in Ref : RefKey(r) \in Key
    BY DEF Key, RefKeys
  <1>3. \A q \in FindRequest : /\ storeKeyWithLabels(q) \in CallKeys
                             /\ unlabelledKey(q) \in CallKeys
    BY DEF FindRequest, CallKeys, storeKeyWithLabels, unlabelledKey
  <1>. QED BY <1>1, <1>2, <1>3 DEF Key

(* What the service receives of a lookup is a lookup, of the same AOR and  *)
(* with the same session affinity.                                         *)
LEMMA ReceivedType ==
  ASSUME NEW q \in FindRequest
  PROVE  /\ Received(q) \in FindRequest
         /\ Received(q).aor = q.aor
         /\ Received(q).sessionAffinityRef = q.sessionAffinityRef
  BY DEF Received, FindRequest

(* An awaited get keeps the types and leaves every collection a subset of  *)
(* what it was.                                                            *)
LEMMA AwaitGetType ==
  ASSUME TypeOK, NEW h \in Handler, NEW key \in Key, NEW resume \in PC,
         AwaitGet(h, key, resume)
  PROVE  /\ collections' \in [Key -> SUBSET Route]
         /\ \A k \in Key : /\ collections'[k] \subseteq collections[k]
                          /\ IsFiniteSet(collections'[k])
         /\ poisoned' = poisoned
         /\ cleanupCount' \in Nat \cup {NaN}
         /\ got' \in [Handler -> SUBSET Route]
         /\ reply' \in [Handler -> Status]
         /\ \/ pc' = [pc EXCEPT ![h] = resume]
            \/ pc' = [pc EXCEPT ![h] = "done"]
  <1>1. /\ collections' \in [Key -> SUBSET Route]
        /\ \A k \in Key : collections'[k] \subseteq collections[k]
    BY DEF AwaitGet, TypeOK, Unexpired
  <1>2. \A k \in Key : IsFiniteSet(collections'[k])
    BY <1>1, FS_Subset DEF TypeOK
  <1>3. poisoned' = poisoned
    BY DEF AwaitGet
  <1>4. cleanupCount' \in Nat \cup {NaN}
    BY DEF AwaitGet, TypeOK
  <1>5. Live(key) \in SUBSET Route
    BY DEF Live, Unexpired, TypeOK
  <1>6. got' \in [Handler -> SUBSET Route]
    BY <1>5 DEF AwaitGet, TypeOK
  <1>7. reply' \in [Handler -> Status]
    BY DEF AwaitGet, TypeOK, Status
  <1>8. \/ pc' = [pc EXCEPT ![h] = resume]
        \/ pc' = [pc EXCEPT ![h] = "done"]
    BY DEF AwaitGet
  <1>. QED BY <1>1, <1>2, <1>3, <1>4, <1>6, <1>7, <1>8

(* A put keeps the types, changes one collection, and adds at most the     *)
(* address of the new route to its live addresses.                         *)
LEMMA StorePutType ==
  ASSUME TypeOK, NEW key \in Key, NEW pick \in SUBSET Route,
         StorePut(key, pick)
  PROVE  /\ collections' \in [Key -> SUBSET Route]
         /\ \A k \in Key : IsFiniteSet(collections'[k])
         /\ \A k \in Key \ {key} : collections'[k] = collections[k]
         /\ \A t \in Int : t = now =>
              Addresses(Unexpired(collections'[key], t))
                \subseteq Addresses(Live(key)) \cup Addresses(pick)
         /\ poisoned' \subseteq Key
         /\ pick # {} => poisoned' = poisoned
         /\ cleanupCount' \in Nat \cup {NaN}
  <1>0. /\ collections \in [Key -> SUBSET Route] /\ now \in Int
        /\ IsFiniteSet(collections[key])
    BY DEF TypeOK
  <1>1. cleanupCount' \in Nat \cup {NaN}
    BY DEF TypeOK, StorePut
  <1>2. CASE /\ pick = {}
             /\ collections' = [collections EXCEPT ![key] = {}]
             /\ poisoned' = poisoned \cup {key}
    BY <1>0, <1>1, <1>2, FS_EmptySet DEF TypeOK, Unexpired, Addresses
  <1>3. CASE /\ \E r \in pick :
                  collections' = [collections EXCEPT ![key] = Put(@, r, now)]
             /\ UNCHANGED poisoned
    <2>1. PICK r \in pick :
            collections' = [collections EXCEPT ![key] = Put(@, r, now)]
      BY <1>3
    <2>2. r \in Route
      OBVIOUS
    <2>3. /\ Put(collections[key], r, now) \in SUBSET Route
          /\ IsFiniteSet(Put(collections[key], r, now))
          /\ Addresses(Put(collections[key], r, now))
               \subseteq Addresses(Unexpired(collections[key], now)) \cup {r.addr}
      BY <1>0, <2>2, PutType
    <2>4. /\ collections' \in [Key -> SUBSET Route]
          /\ collections'[key] = Put(collections[key], r, now)
          /\ \A k \in Key \ {key} : collections'[k] = collections[k]
      BY <1>0, <2>1, <2>3
    <2>5. \A k \in Key : IsFiniteSet(collections'[k])
      BY <2>3, <2>4 DEF TypeOK
    <2>6. Addresses(Unexpired(collections'[key], now))
            \subseteq Addresses(Live(key)) \cup Addresses(pick)
      BY <2>3, <2>4 DEF Live, Unexpired, Addresses
    <2>. QED BY <1>1, <1>3, <2>4, <2>5, <2>6 DEF TypeOK
  <1>. QED BY <1>2, <1>3 DEF StorePut

(* The end of a request keeps the types of the handlers.                   *)
LEMMA AnswerType ==
  ASSUME TypeOK, NEW h \in Handler, NEW routes \in SUBSET Route,
         NEW error \in Status,
         Answer(h, routes) \/ Throw(h, error)
  PROVE  /\ pc' = [pc EXCEPT ![h] = "done"]
         /\ got' \in [Handler -> SUBSET Route]
         /\ candidates' \in [Handler -> SUBSET Route]
         /\ reply' \in [Handler -> Status]
  <1>1. pc' = [pc EXCEPT ![h] = "done"]
    BY DEF Answer, Throw
  <1>2. got' \in [Handler -> SUBSET Route]
    BY DEF TypeOK, Answer, Throw
  <1>3. candidates' \in [Handler -> SUBSET Route]
    BY DEF TypeOK, Answer, Throw
  <1>4. reply' \in [Handler -> Status]
    BY DEF TypeOK, Answer, Throw, Status
  <1>. QED BY <1>1, <1>2, <1>3, <1>4

(* The types of the store.                                                 *)
StoreTypeOK ==
  /\ collections \in [Key -> SUBSET Route]
  /\ \A k \in Key : IsFiniteSet(collections[k])
  /\ poisoned \subseteq Key
  /\ cleanupCount \in Nat \cup {NaN}

(* A put at the end of a request keeps the types of store and handlers.    *)
LEMMA PutAndAnswerType ==
  ASSUME TypeOK, NEW h \in Handler, NEW key \in Key,
         NEW pick \in SUBSET Route, NEW routes \in SUBSET Route,
         PutAndAnswer(h, key, pick, routes)
  PROVE  /\ StoreTypeOK'
         /\ pc' = [pc EXCEPT ![h] = "done"]
         /\ got' \in [Handler -> SUBSET Route]
         /\ candidates' \in [Handler -> SUBSET Route]
         /\ reply' \in [Handler -> Status]
  <1>1. CASE Throw(h, "TypeError") /\ UNCHANGED storeVars
    <2>1. StoreTypeOK'
      BY <1>1 DEF TypeOK, StoreTypeOK, storeVars
    <2>2. "TypeError" \in Status
      BY DEF Status
    <2>. QED BY <1>1, <2>1, <2>2, AnswerType
  <1>2. CASE StorePut(key, pick) /\ Answer(h, routes)
    <2>1. StoreTypeOK'
      BY <1>2, StorePutType DEF StoreTypeOK
    <2>2. "ok" \in Status
      BY DEF Status
    <2>. QED BY <1>2, <2>1, <2>2, AnswerType
  <1>. QED BY <1>1, <1>2 DEF PutAndAnswer

(* What remains to show for TypeOK' once the store and the components of   *)
(* the handlers are typed: the handler that moved has a request that fits. *)
LEMMA HandlerTypes ==
  ASSUME TypeOK, NEW h \in Handler, NEW next \in PC,
         StoreTypeOK', now' = now, rrCount' \in [RRKey -> Nat],
         pc' = [pc EXCEPT ![h] = next],
         req' \in [Handler -> AddRequest \cup FindRequest \cup {NoReq}],
         \A g \in Handler \ {h} : req'[g] = req[g],
         next = "add" => req'[h] \in AddRequest,
         next \in FindPC => req'[h] \in FindRequest,
         next = "affinity" => req'[h].sessionAffinityRef # NoRef,
         next = "done" => req'[h] \in AddRequest \cup FindRequest,
         got' \in [Handler -> SUBSET Route],
         candidates' \in [Handler -> SUBSET Route],
         reply' \in [Handler -> Status]
  PROVE  TypeOK'
  <1>1. pc' \in [Handler -> PC]
    BY DEF TypeOK
  <1>2. \A g \in Handler :
          /\ (pc'[g] = "add") => req'[g] \in AddRequest
          /\ (pc'[g] \in FindPC) => req'[g] \in FindRequest
          /\ pc'[g] = "affinity" => req'[g].sessionAffinityRef # NoRef
          /\ pc'[g] = "done" => req'[g] \in AddRequest \cup FindRequest
    <2> SUFFICES ASSUME NEW g \in Handler
                 PROVE  /\ (pc'[g] = "add") => req'[g] \in AddRequest
                        /\ (pc'[g] \in FindPC) => req'[g] \in FindRequest
                        /\ pc'[g] = "affinity"
                             => req'[g].sessionAffinityRef # NoRef
                        /\ pc'[g] = "done"
                             => req'[g] \in AddRequest \cup FindRequest
      OBVIOUS
    <2>1. CASE g = h
      BY <2>1 DEF TypeOK
    <2>2. CASE g # h
      <3>1. pc'[g] = pc[g] /\ req'[g] = req[g]
        BY <2>2 DEF TypeOK
      <3>. QED BY <3>1 DEF TypeOK, Adding, Finding
    <2>. QED BY <2>1, <2>2
  <1>. QED BY <1>1, <1>2 DEF TypeOK, StoreTypeOK, Adding, Finding

(* A request that starts with a get is typed.                              *)
LEMMA AddRouteType ==
  ASSUME TypeOK, ConstantsAssumption, NEW h \in Handler, NEW c \in Contact,
         NEW e \in Expires, AddRoute(h, c, e)
  PROVE  TypeOK'
  <1> DEFINE q == [op |-> "addRoute", aor |-> c.aor, route |-> RouteOf(c, e),
                   maxContacts |-> MaxContacts[c.aor]]
  <1>1. /\ c \in [aor : Aor, addr : Addr, user : User, sessionCount : Int,
                  labels : SUBSET Label]
        /\ e \in Int /\ now \in Int
    BY DEF ConstantsAssumption, TypeOK
  <1>2. RouteOf(c, e) \in Route
    BY <1>1 DEF RouteOf, Route
  <1>3. q \in AddRequest
    BY <1>1, <1>2 DEF AddRequest, ConstantsAssumption
  <1>4. /\ req' = [req EXCEPT ![h] = q] /\ now' = now /\ rrCount' = rrCount
    BY DEF AddRoute
  <1>. HIDE DEF q
  <1>5. /\ req' \in [Handler -> AddRequest \cup FindRequest \cup {NoReq}]
        /\ req'[h] = q
        /\ \A g \in Handler \ {h} : req'[g] = req[g]
        /\ rrCount' \in [RRKey -> Nat]
    BY <1>3, <1>4 DEF TypeOK
  <1>6. CASE AwaitGet(h, AorKey(c.aor), "add") /\ UNCHANGED candidates
    <2>1. AorKey(c.aor) \in Key /\ "add" \in PC /\ "done" \in PC
      BY <1>1, KeyType DEF PC
    <2>2. /\ StoreTypeOK'
          /\ got' \in [Handler -> SUBSET Route]
          /\ candidates' \in [Handler -> SUBSET Route]
          /\ reply' \in [Handler -> Status]
          /\ \/ pc' = [pc EXCEPT ![h] = "add"]
             \/ pc' = [pc EXCEPT ![h] = "done"]
      BY <1>6, <2>1, AwaitGetType DEF StoreTypeOK, TypeOK
    <2>3. "add" \notin FindPC /\ "done" \notin FindPC
      BY DEF FindPC
    <2>. QED BY <1>3, <1>4, <1>5, <2>1, <2>2, <2>3, HandlerTypes
  <1>7. CASE Throw(h, "UnsupportedSchema") /\ UNCHANGED storeVars
    <2>1. "done" \in PC /\ "UnsupportedSchema" \in Status /\ "done" \notin FindPC
      BY DEF PC, Status, FindPC
    <2>2. StoreTypeOK'
      BY <1>7 DEF StoreTypeOK, TypeOK, storeVars
    <2>3. /\ pc' = [pc EXCEPT ![h] = "done"]
          /\ got' \in [Handler -> SUBSET Route]
          /\ candidates' \in [Handler -> SUBSET Route]
          /\ reply' \in [Handler -> Status]
      BY <1>7, <2>1, AnswerType
    <2>. QED BY <1>3, <1>4, <1>5, <2>1, <2>2, <2>3, HandlerTypes
  <1>. QED BY <1>6, <1>7 DEF AddRoute

LEMMA FindRoutesType ==
  ASSUME TypeOK, NEW h \in Handler, NEW q \in FindRequest, FindRoutes(h, q)
  PROVE  TypeOK'
  <1>1. /\ req' = [req EXCEPT ![h] = q] /\ now' = now /\ rrCount' = rrCount
        /\ candidates' = candidates
        /\ AwaitGet(h, storeKeyWithLabels(Received(q)), "lookup")
    BY DEF FindRoutes
  <1>2. /\ storeKeyWithLabels(Received(q)) \in Key
        /\ "lookup" \in PC /\ "done" \in PC
    BY ReceivedType, KeyType DEF PC
  <1>3. /\ StoreTypeOK'
        /\ got' \in [Handler -> SUBSET Route]
        /\ reply' \in [Handler -> Status]
        /\ \/ pc' = [pc EXCEPT ![h] = "lookup"]
           \/ pc' = [pc EXCEPT ![h] = "done"]
    BY <1>1, <1>2, AwaitGetType DEF StoreTypeOK, TypeOK
  <1>4. /\ req' \in [Handler -> AddRequest \cup FindRequest \cup {NoReq}]
        /\ req'[h] = q
        /\ \A g \in Handler \ {h} : req'[g] = req[g]
        /\ rrCount' \in [RRKey -> Nat]
        /\ candidates' \in [Handler -> SUBSET Route]
    BY <1>1 DEF TypeOK
  <1>. QED BY <1>1, <1>2, <1>3, <1>4, HandlerTypes

(* A lookup that resumes in the middle of findRoutes: it keeps its         *)
(* request, and waits at another await of the lookup or ends.              *)
LEMMA FindingTypes ==
  ASSUME TypeOK, NEW h \in Handler, req[h] \in FindRequest, NEW next \in PC,
         next # "add", pc' = [pc EXCEPT ![h] = next],
         next = "affinity" => req[h].sessionAffinityRef # NoRef,
         StoreTypeOK', now' = now, rrCount' \in [RRKey -> Nat], req' = req,
         got' \in [Handler -> SUBSET Route],
         candidates' \in [Handler -> SUBSET Route],
         reply' \in [Handler -> Status]
  PROVE  TypeOK'
  <1>1. req' \in [Handler -> AddRequest \cup FindRequest \cup {NoReq}]
    BY DEF TypeOK
  <1>. QED BY <1>1, HandlerTypes

LEMMA ResumeAddType ==
  ASSUME TypeOK, NEW h \in Handler, ResumeAdd(h)
  PROVE  TypeOK'
  <1>1. /\ req[h] \in AddRequest /\ now' = now /\ req' = req
        /\ rrCount' = rrCount
    BY DEF ResumeAdd, TypeOK, Adding
  <1>2. /\ AorKey(req[h].aor) \in Key
        /\ {req[h].route} \in SUBSET Route /\ {} \in SUBSET Route
    BY <1>1, KeyType DEF AddRequest
  <1>3. /\ StoreTypeOK'
        /\ pc' = [pc EXCEPT ![h] = "done"]
        /\ got' \in [Handler -> SUBSET Route]
        /\ candidates' \in [Handler -> SUBSET Route]
        /\ reply' \in [Handler -> Status]
    <2>1. CASE PutAndAnswer(h, AorKey(req[h].aor), {req[h].route}, {})
      BY <1>2, <2>1, PutAndAnswerType
    <2>2. CASE Throw(h, "BadRequest") /\ UNCHANGED storeVars
      <3>1. "BadRequest" \in Status
        BY DEF Status
      <3>2. StoreTypeOK'
        BY <2>2 DEF StoreTypeOK, TypeOK, storeVars
      <3>. QED BY <2>2, <3>1, <3>2, AnswerType
    <2>. QED BY <2>1, <2>2 DEF ResumeAdd
  <1>4. "done" \in PC /\ "done" \notin FindPC
    BY DEF PC, FindPC
  <1>5. /\ req' \in [Handler -> AddRequest \cup FindRequest \cup {NoReq}]
        /\ rrCount' \in [RRKey -> Nat]
    BY <1>1 DEF TypeOK
  <1>. QED BY <1>1, <1>3, <1>4, <1>5, HandlerTypes

LEMMA ResumeLookupType ==
  ASSUME TypeOK, NEW h \in Handler, ResumeLookup(h)
  PROVE  TypeOK'
  <1> DEFINE q == Received(req[h])
  <1>1. /\ req[h] \in FindRequest /\ got[h] \in SUBSET Route
        /\ now' = now /\ req' = req /\ rrCount' = rrCount
    BY DEF ResumeLookup, TypeOK, Finding, FindPC
  <1>2. q \in FindRequest
    BY <1>1, ReceivedType
  <1>3. /\ "relookup" \in PC /\ "bindings" \in PC /\ "done" \in PC
        /\ "ok" \in Status /\ rrCount \in [RRKey -> Nat]
    BY DEF PC, Status, TypeOK
  <1>4. CASE Answer(h, got[h]) /\ UNCHANGED storeVars
    <2>1. StoreTypeOK'
      BY <1>4 DEF StoreTypeOK, TypeOK, storeVars
    <2>2. /\ pc' = [pc EXCEPT ![h] = "done"]
          /\ got' \in [Handler -> SUBSET Route]
          /\ candidates' \in [Handler -> SUBSET Route]
          /\ reply' \in [Handler -> Status]
      BY <1>1, <1>3, <1>4, AnswerType
    <2>. QED BY <1>1, <1>3, <2>1, <2>2, FindingTypes
  <1>5. ASSUME NEW key \in Key, NEW resume \in {"relookup", "bindings"},
               AwaitGet(h, key, resume), candidates' = candidates
        PROVE  TypeOK'
    <2>1. resume \in PC /\ resume # "add"
      BY <1>3
    <2>2. /\ StoreTypeOK'
          /\ got' \in [Handler -> SUBSET Route]
          /\ candidates' \in [Handler -> SUBSET Route]
          /\ reply' \in [Handler -> Status]
          /\ \/ pc' = [pc EXCEPT ![h] = resume]
             \/ pc' = [pc EXCEPT ![h] = "done"]
      BY <1>5, <2>1, AwaitGetType DEF StoreTypeOK, TypeOK
    <2>. QED BY <1>1, <1>3, <2>1, <2>2, FindingTypes
  <1>6. storeKeyWithLabels(q) \in Key /\ AorKey(q.aor) \in Key
    BY <1>2, KeyType DEF FindRequest
  <1>. QED BY <1>4, <1>5, <1>6 DEF ResumeLookup

(* Taking the route of a call keeps the types.                             *)
LEMMA SelectRouteType ==
  ASSUME TypeOK, NEW h \in Handler, NEW q \in FindRequest,
         NEW routes \in SUBSET Route,
         SelectRoute(h, q, routes),
         req[h] \in FindRequest, now' = now, req' = req,
         q.sessionAffinityRef = req[h].sessionAffinityRef
  PROVE  TypeOK'
  <1>1. /\ storeKeyWithLabels(q) \in Key /\ unlabelledKey(q) \in Key
        /\ At(routes, 0) \in SUBSET Route
        /\ "affinity" \in PC /\ "done" \in PC /\ "ok" \in Status
    BY KeyType DEF At, PC, Status
  <1>2. rrCount \in [RRKey -> Nat] /\ {} \in SUBSET Route
    BY DEF TypeOK
  <1>3. ASSUME NEW key \in Key, NEW pick \in SUBSET Route,
               NEW answer \in SUBSET Route,
               PutAndAnswer(h, key, pick, answer), rrCount' \in [RRKey -> Nat]
        PROVE  TypeOK'
    BY <1>1, <1>3, PutAndAnswerType, FindingTypes
  <1>4. CASE ~q.backend
    <2>1. /\ PutAndAnswer(h, unlabelledKey(q), At(routes, 0), routes)
          /\ rrCount' = rrCount
      BY <1>4 DEF SelectRoute
    <2>. QED BY <1>1, <1>2, <1>3, <2>1
  <1>5. CASE q.backend /\ q.withSessionAffinity /\ q.sessionAffinityRef # NoRef
    <2>1. /\ AwaitGet(h, RefKey(q.sessionAffinityRef), "affinity")
          /\ candidates' = [candidates EXCEPT ![h] = IF pc'[h] = "done" THEN {}
                                                     ELSE routes]
          /\ rrCount' = rrCount
      BY <1>5 DEF SelectRoute
    <2>2. RefKey(q.sessionAffinityRef) \in Key
      BY <1>5, KeyType DEF FindRequest
    <2>3. candidates' \in [Handler -> SUBSET Route]
      BY <2>1 DEF TypeOK
    <2>4. /\ StoreTypeOK'
          /\ got' \in [Handler -> SUBSET Route]
          /\ reply' \in [Handler -> Status]
          /\ \/ pc' = [pc EXCEPT ![h] = "affinity"]
             \/ pc' = [pc EXCEPT ![h] = "done"]
      BY <1>1, <2>1, <2>2, AwaitGetType DEF StoreTypeOK, TypeOK
    <2>. QED BY <1>1, <1>2, <1>5, <2>1, <2>3, <2>4, FindingTypes
  <1>6. CASE Balance(h, q, routes)
    <2>1. /\ rrRef(q) \in RRKey
          /\ LeastSessions(routes) \in SUBSET Route
          /\ \A n : At(routes, n) \in SUBSET Route
      BY DEF rrRef, RRKey, FindRequest, LeastSessions, At
    <2>2. \A p \in Nat : NextPosition(p, routes) \in Nat
      BY DEF NextPosition
    <2>3. rrCount' \in [RRKey -> Nat]
      BY <1>2, <1>6, <2>1, <2>2 DEF Balance
    <2>4. CASE Answer(h, {}) /\ UNCHANGED storeVars
      <3>1. StoreTypeOK'
        BY <2>4 DEF StoreTypeOK, TypeOK, storeVars
      <3>. QED BY <1>1, <1>2, <2>3, <2>4, <3>1, AnswerType, FindingTypes
    <2>5. ASSUME NEW pick \in SUBSET Route,
                 PutAndAnswer(h, storeKeyWithLabels(q), pick, pick)
          PROVE  TypeOK'
      BY <1>1, <1>3, <2>3, <2>5
    <2>. QED BY <1>6, <2>1, <2>4, <2>5 DEF Balance
  <1>. QED BY <1>4, <1>5, <1>6 DEF SelectRoute

LEMMA ResumeRelookupType ==
  ASSUME TypeOK, NEW h \in Handler, ResumeRelookup(h)
  PROVE  TypeOK'
  <1> DEFINE q == Received(req[h])
  <1>1. /\ req[h] \in FindRequest /\ got[h] \in SUBSET Route
        /\ now' = now /\ req' = req
    BY DEF ResumeRelookup, TypeOK, Finding, FindPC
  <1>2. /\ q \in FindRequest
        /\ q.sessionAffinityRef = req[h].sessionAffinityRef
    BY <1>1, ReceivedType
  <1>3. CASE SelectRoute(h, q, got[h])
    BY <1>1, <1>2, <1>3, SelectRouteType
  <1>4. CASE /\ AwaitGet(h, AorKey(q.aor), "bindings")
             /\ UNCHANGED <<candidates, rrCount>>
    <2>1. AorKey(q.aor) \in Key /\ "bindings" \in PC /\ "done" \in PC
      BY <1>2, KeyType DEF FindRequest, PC
    <2>2. /\ StoreTypeOK'
          /\ got' \in [Handler -> SUBSET Route]
          /\ candidates' \in [Handler -> SUBSET Route]
          /\ rrCount' \in [RRKey -> Nat]
          /\ reply' \in [Handler -> Status]
          /\ \/ pc' = [pc EXCEPT ![h] = "bindings"]
             \/ pc' = [pc EXCEPT ![h] = "done"]
      BY <1>4, <2>1, AwaitGetType DEF StoreTypeOK, TypeOK
    <2>. QED BY <1>1, <2>1, <2>2, FindingTypes
  <1>. QED BY <1>3, <1>4 DEF ResumeRelookup

LEMMA ResumeBindingsType ==
  ASSUME TypeOK, NEW h \in Handler, ResumeBindings(h)
  PROVE  TypeOK'
  <1> DEFINE q == Received(req[h])
             routes == IF q.labels = {} THEN got[h]
                       ELSE MatchingLabels(got[h], q.labels)
  <1>1. /\ req[h] \in FindRequest /\ got[h] \in SUBSET Route
        /\ now' = now /\ req' = req
    BY DEF ResumeBindings, TypeOK, Finding, FindPC
  <1>2. /\ q \in FindRequest
        /\ q.sessionAffinityRef = req[h].sessionAffinityRef
    BY <1>1, ReceivedType
  <1>3. routes \in SUBSET Route
    BY <1>1 DEF MatchingLabels
  <1>4. SelectRoute(h, q, routes)
    BY DEF ResumeBindings
  <1>. QED BY <1>1, <1>2, <1>3, <1>4, SelectRouteType

LEMMA ResumeAffinityType ==
  ASSUME TypeOK, NEW h \in Handler, ResumeAffinity(h)
  PROVE  TypeOK'
  <1> DEFINE key == RefKey(req[h].sessionAffinityRef)
             pick == AffinityPick(h)
  <1>1. /\ req[h] \in FindRequest /\ got[h] \in SUBSET Route
        /\ candidates[h] \in SUBSET Route
        /\ now' = now /\ req' = req /\ rrCount' = rrCount
        /\ rrCount \in [RRKey -> Nat]
    BY DEF ResumeAffinity, TypeOK, Finding, FindPC
  <1>0. req[h].sessionAffinityRef \in Ref
    BY <1>1 DEF ResumeAffinity, TypeOK, FindRequest
  <1>2. key \in Key /\ pick \in SUBSET Route
    BY <1>0, <1>1, KeyType DEF AffinityPick, At, LeastSessions
  <1>3. "done" \in PC /\ "picked" \in PC /\ "TypeError" \in Status
    BY DEF PC, Status
  <1>4. CASE Throw(h, "TypeError") /\ UNCHANGED storeVars
    <2>1. StoreTypeOK'
      BY <1>4 DEF StoreTypeOK, TypeOK, storeVars
    <2>2. /\ pc' = [pc EXCEPT ![h] = "done"]
          /\ got' \in [Handler -> SUBSET Route]
          /\ candidates' \in [Handler -> SUBSET Route]
          /\ reply' \in [Handler -> Status]
      BY <1>3, <1>4, AnswerType
    <2>. QED BY <1>1, <1>3, <2>1, <2>2, FindingTypes
  <1>5. CASE /\ StorePut(key, pick) \/ UNCHANGED storeVars
             /\ pc' = [pc EXCEPT ![h] = "picked"]
             /\ got' = [got EXCEPT ![h] = {}]
             /\ candidates' = [candidates EXCEPT ![h] = pick]
             /\ UNCHANGED reply
    <2>1. StoreTypeOK'
      BY <1>2, <1>5, StorePutType DEF StoreTypeOK, TypeOK, storeVars
    <2>2. /\ got' \in [Handler -> SUBSET Route]
          /\ candidates' \in [Handler -> SUBSET Route]
          /\ reply' \in [Handler -> Status]
      BY <1>2, <1>5 DEF TypeOK
    <2>. QED BY <1>1, <1>3, <1>5, <2>1, <2>2, FindingTypes
  <1>. QED BY <1>4, <1>5 DEF ResumeAffinity

LEMMA ResumePickedType ==
  ASSUME TypeOK, NEW h \in Handler, ResumePicked(h)
  PROVE  TypeOK'
  <1> DEFINE key == storeKeyWithLabels(Received(req[h]))
  <1>1. /\ req[h] \in FindRequest /\ candidates[h] \in SUBSET Route
        /\ now' = now /\ req' = req /\ rrCount' = rrCount
        /\ rrCount \in [RRKey -> Nat] /\ {} \in SUBSET Route
    BY DEF ResumePicked, TypeOK, Finding, FindPC
  <1>2. key \in Key /\ "done" \in PC /\ "ok" \in Status
    BY <1>1, KeyType, ReceivedType DEF PC, Status
  <1>3. CASE Answer(h, {}) /\ UNCHANGED storeVars
    <2>1. StoreTypeOK'
      BY <1>3 DEF StoreTypeOK, TypeOK, storeVars
    <2>. QED BY <1>1, <1>2, <1>3, <2>1, AnswerType, FindingTypes
  <1>4. CASE PutAndAnswer(h, key, candidates[h], candidates[h])
    BY <1>1, <1>2, <1>4, PutAndAnswerType, FindingTypes
  <1>. QED BY <1>3, <1>4 DEF ResumePicked

(* The actions that are no step of a request.                              *)
LEMMA OtherType ==
  ASSUME TypeOK,
         \/ \E h \in Handler : Callback(h)
         \/ \E a \in Aor : RemoveRoutes(a)
         \/ Tick
         \/ UNCHANGED vars
  PROVE  TypeOK'
  <1>1. ASSUME NEW h \in Handler, Callback(h)
        PROVE  TypeOK'
    <2>1. StoreTypeOK' /\ "idle" \in PC /\ "idle" \notin FindPC
      BY <1>1 DEF StoreTypeOK, TypeOK, Callback, PC, FindPC
    <2>2. /\ pc' = [pc EXCEPT ![h] = "idle"] /\ now' = now
          /\ rrCount' \in [RRKey -> Nat]
          /\ req' \in [Handler -> AddRequest \cup FindRequest \cup {NoReq}]
          /\ \A g \in Handler \ {h} : req'[g] = req[g]
          /\ got' \in [Handler -> SUBSET Route]
          /\ candidates' \in [Handler -> SUBSET Route]
          /\ reply' \in [Handler -> Status]
      BY <1>1 DEF Callback, TypeOK, Status
    <2>. QED BY <2>1, <2>2, HandlerTypes
  <1>2. ASSUME NEW a \in Aor, RemoveRoutes(a)
        PROVE  TypeOK'
    <2>1. collections' \in [Key -> SUBSET Route] /\ poisoned' \subseteq Key
      BY <1>2 DEF RemoveRoutes, TypeOK
    <2>2. \A k \in Key : IsFiniteSet(collections'[k])
      BY <1>2, FS_EmptySet DEF RemoveRoutes, TypeOK
    <2>. QED BY <1>2, <2>1, <2>2 DEF RemoveRoutes, TypeOK, Adding, Finding
  <1>3. CASE Tick
    BY <1>3 DEF Tick, TypeOK, Adding, Finding
  <1>4. CASE UNCHANGED vars
    BY <1>4 DEF vars, TypeOK, Adding, Finding
  <1>. QED BY <1>1, <1>2, <1>3, <1>4

LEMMA RemoveRoutesRpcType ==
  ASSUME TypeOK, NEW h \in Handler, NEW a \in Aor, RemoveRoutesRpc(h, a)
  PROVE  TypeOK'
  <1>1. RemoveRoutesRequest(a) \in FindRequest
    BY DEF RemoveRoutesRequest, FindRequest
  <1>. QED BY <1>1, FindRoutesType DEF RemoveRoutesRpc

LEMMA NextType == ConstantsAssumption /\ TypeOK /\ [Next]_vars => TypeOK'
  <1> SUFFICES ASSUME ConstantsAssumption, TypeOK, [Next]_vars
               PROVE  TypeOK'
    OBVIOUS
  <1>1. ASSUME NEW h \in Handler, NEW c \in Contact, NEW e \in Expires,
               AddRoute(h, c, e)
        PROVE  TypeOK'
    BY <1>1, AddRouteType
  <1>2. ASSUME NEW h \in Handler, NEW q \in FindRequests, FindRoutes(h, q)
        PROVE  TypeOK'
    BY <1>2, FindRoutesType DEF ConstantsAssumption
  <1>3. ASSUME NEW h \in Handler, Step(h)
        PROVE  TypeOK'
    BY <1>3, ResumeAddType, ResumeLookupType, ResumeRelookupType,
       ResumeBindingsType, ResumeAffinityType, ResumePickedType, OtherType
       DEF Step
  <1>4. ASSUME NEW h \in Handler, NEW a \in Aor, RemoveRoutesRpc(h, a)
        PROVE  TypeOK'
    BY <1>4, RemoveRoutesRpcType
  <1>. QED BY <1>1, <1>2, <1>3, <1>4, OtherType DEF Next

LEMMA InitType == Init => TypeOK
  <1> SUFFICES ASSUME Init PROVE TypeOK
    OBVIOUS
  <1>1. \A k \in Key : IsFiniteSet(collections[k])
    BY FS_EmptySet DEF Init
  <1>2. \A h \in Handler : pc[h] = "idle"
    BY DEF Init
  <1>. QED BY <1>1, <1>2
       DEF Init, TypeOK, PC, Status, Adding, Finding, FindPC

(* The state of the service is always well typed.                          *)
THEOREM TypeCorrect == Spec => []TypeOK
  <1>1. ConstantsAssumption
    BY ConstantsAssumption
  <1>. QED BY <1>1, InitType, NextType, PTL DEF Spec

-----------------------------------------------------------------------------
(* The bound on the contacts of an AOR.                                    *)
(*                                                                         *)
(* The bound alone is not inductive: a registration that has read the      *)
(* table before another one wrote it will still be accepted.  So the       *)
(* addresses about to enter are counted with those that are live.          *)

(* A registration whose check will succeed when it resumes.                *)
Passing(h) == Adding(h) /\ Accepts(req[h], got[h])

Entering(a) ==
  {req[h].route.addr : h \in {g \in Handler : Passing(g) /\ req[g].aor = a}}

Occupied(a) == Addresses(Live(AorKey(a))) \cup Entering(a)

ContactInv ==
  /\ \A h \in Handler : Adding(h) => req[h].maxContacts = MaxContacts[req[h].aor]
  /\ \A a \in Aor : MaxContacts[a] # -1 =>
       Cardinality(Occupied(a)) <= MaxContacts[a] + Cardinality(Handler) - 1

(* The live routes and the entering addresses of an AOR are finite, and no *)
(* more addresses enter than there are handlers.                           *)
LEMMA OccupiedFinite ==
  ASSUME ConstantsAssumption, TypeOK, NEW a \in Aor
  PROVE  /\ Live(AorKey(a)) \in SUBSET Route
         /\ IsFiniteSet(Live(AorKey(a)))
         /\ IsFiniteSet(Addresses(Live(AorKey(a))))
         /\ IsFiniteSet(Entering(a))
         /\ Cardinality(Entering(a)) <= Cardinality(Handler)
         /\ IsFiniteSet(Occupied(a))
  <1>1. AorKey(a) \in Key
    BY KeyType
  <1>2. /\ Live(AorKey(a)) \subseteq collections[AorKey(a)]
        /\ collections[AorKey(a)] \in SUBSET Route
        /\ IsFiniteSet(collections[AorKey(a)])
    BY <1>1 DEF Live, Unexpired, TypeOK
  <1>3. IsFiniteSet(Live(AorKey(a))) /\ Live(AorKey(a)) \in SUBSET Route
    BY <1>2, FS_Subset
  <1>4. IsFiniteSet(Addresses(Live(AorKey(a))))
    BY <1>3, AddressesFinite
  <1> DEFINE H == {g \in Handler : Passing(g) /\ req[g].aor = a}
             f == [h \in H |-> req[h].route.addr]
             T == {req[h].route.addr : h \in H}
  <1>5. IsFiniteSet(H) /\ Cardinality(H) <= Cardinality(Handler)
    BY FS_Subset DEF ConstantsAssumption
  <1>6. f \in [H -> T] /\ Entering(a) = {f[h] : h \in H}
    BY DEF Entering
  <1>7. IsFiniteSet(Handler) /\ Cardinality(Handler) \in Nat
    BY FS_CardinalityType DEF ConstantsAssumption
  <1>8. Cardinality(H) \in Nat
    BY <1>5, FS_CardinalityType
  <1>. HIDE DEF H, f, T
  <1>9. /\ IsFiniteSet({f[h] : h \in H})
        /\ Cardinality({f[h] : h \in H}) <= Cardinality(H)
        /\ Cardinality({f[h] : h \in H}) \in Nat
    BY <1>5, <1>6, ImageFinite
  <1>10. IsFiniteSet(Entering(a)) /\ Cardinality(Entering(a)) <= Cardinality(Handler)
    BY <1>5, <1>6, <1>7, <1>8, <1>9
  <1>11. IsFiniteSet(Occupied(a))
    BY <1>4, <1>10, FS_Union DEF Occupied
  <1>. QED BY <1>3, <1>4, <1>10, <1>11

(* A step after which no AOR is more occupied keeps the bound.             *)
LEMMA OccupiedShrinks ==
  ASSUME ConstantsAssumption, TypeOK, ContactInv, NEW a \in Aor,
         MaxContacts[a] # -1, NEW S \in SUBSET Occupied(a)
  PROVE  Cardinality(S) <= MaxContacts[a] + Cardinality(Handler) - 1
  <1>1. IsFiniteSet(Occupied(a))
    BY OccupiedFinite
  <1>2. /\ IsFiniteSet(S) /\ Cardinality(S) <= Cardinality(Occupied(a))
        /\ Cardinality(S) \in Nat /\ Cardinality(Occupied(a)) \in Nat
    BY <1>1, FS_Subset, FS_CardinalityType
  <1>3. Cardinality(Handler) \in Nat /\ MaxContacts[a] \in Int
    BY FS_CardinalityType DEF ConstantsAssumption
  <1>4. Cardinality(Occupied(a)) <= MaxContacts[a] + Cardinality(Handler) - 1
    BY DEF ContactInv
  <1>. QED BY <1>2, <1>3, <1>4

(* A step of a handler other than the two of AddRoute, seen from the AORs: *)
(* their collections at most shrink, and no registration moves.            *)
Quiet ==
  /\ \A k \in AorKeys : \A r \in collections'[k] :
       r \in collections[k] /\ (r.deadline > now' => r.deadline > now)
  /\ \A g \in Handler : pc'[g] = "add" =>
       pc[g] = "add" /\ req'[g] = req[g] /\ got'[g] = got[g]

LEMMA QuietContacts ==
  ASSUME ConstantsAssumption, TypeOK, ContactInv, Quiet
  PROVE  ContactInv'
  <1>1. \A h \in Handler : Adding(h)' => Adding(h) /\ req'[h] = req[h]
                                        /\ got'[h] = got[h]
    BY DEF Quiet, Adding
  <1>2. ASSUME NEW a \in Aor
        PROVE  Occupied(a)' \subseteq Occupied(a)
    <2>1. Live(AorKey(a))' \subseteq Live(AorKey(a))
      BY DEF Quiet, Live, Unexpired, expiredFilter, AorKeys
    <2>2. Addresses(Live(AorKey(a)))' \subseteq Addresses(Live(AorKey(a)))
      BY <2>1 DEF Addresses
    <2>3. Entering(a)' \subseteq Entering(a)
      BY <1>1 DEF Entering, Passing
    <2>. QED BY <2>2, <2>3 DEF Occupied
  <1>3. ASSUME NEW a \in Aor, MaxContacts[a] # -1
        PROVE  Cardinality(Occupied(a)') <= MaxContacts[a] + Cardinality(Handler) - 1
    BY <1>2, <1>3, OccupiedShrinks
  <1>4. \A h \in Handler :
          Adding(h)' => req'[h].maxContacts = MaxContacts[req'[h].aor]
    BY <1>1 DEF ContactInv
  <1>. QED BY <1>3, <1>4 DEF ContactInv

(* The keys of calls and references are not keys of AORs.                  *)
LEMMA KeysApart ==
  /\ \A q : storeKeyWithLabels(q) \notin AorKeys /\ unlabelledKey(q) \notin AorKeys
  /\ \A r : RefKey(r) \notin AorKeys
  BY DEF AorKeys, AorKey, RefKey, CallKey, storeKeyWithLabels, unlabelledKey

(* What the parts of a lookup's steps do to the AORs.                      *)
LEMMA QuietGet ==
  ASSUME TypeOK, NEW h \in Handler, NEW key \in Key, NEW resume \in PC,
         resume # "add", AwaitGet(h, key, resume), now' = now,
         \A g \in Handler \ {h} : req'[g] = req[g]
  PROVE  Quiet
  <1>1. \A k \in Key : collections'[k] \subseteq collections[k]
    BY AwaitGetType
  <1>2. \A k \in AorKeys : k \in Key
    BY DEF Key
  <1>3. \A g \in Handler : pc'[g] = "add" => g # h
    BY AwaitGetType DEF TypeOK
  <1>4. \A g \in Handler \ {h} : pc'[g] = pc[g] /\ got'[g] = got[g]
    BY DEF AwaitGet, TypeOK
  <1>. QED BY <1>1, <1>2, <1>3, <1>4 DEF Quiet

LEMMA QuietAnswer ==
  ASSUME TypeOK, NEW h \in Handler, NEW routes, NEW error,
         Answer(h, routes) \/ Throw(h, error),
         \A k \in AorKeys : collections'[k] = collections[k],
         now' = now, req' = req
  PROVE  Quiet
  <1>1. \A g \in Handler : pc'[g] = "add" => g # h
    BY DEF Answer, Throw, TypeOK
  <1>2. \A g \in Handler \ {h} : pc'[g] = pc[g] /\ got'[g] = got[g]
    BY DEF Answer, Throw, TypeOK
  <1>. QED BY <1>1, <1>2 DEF Quiet

LEMMA QuietPut ==
  ASSUME TypeOK, NEW h \in Handler, NEW key \in Key \ AorKeys,
         NEW pick \in SUBSET Route, NEW routes \in SUBSET Route,
         PutAndAnswer(h, key, pick, routes), now' = now, req' = req
  PROVE  Quiet
  <1>1. \A k \in AorKeys : k \in Key /\ k # key
    BY DEF Key
  <1>2. \A k \in AorKeys : collections'[k] = collections[k]
    BY <1>1, StorePutType DEF PutAndAnswer, storeVars
  <1>. QED BY <1>2, QuietAnswer DEF PutAndAnswer

LEMMA QuietSelect ==
  ASSUME TypeOK, NEW h \in Handler, NEW q \in FindRequest,
         NEW routes \in SUBSET Route, SelectRoute(h, q, routes),
         now' = now, req' = req
  PROVE  Quiet
  <1>1. /\ storeKeyWithLabels(q) \in Key \ AorKeys
        /\ unlabelledKey(q) \in Key \ AorKeys
        /\ "affinity" \in PC /\ {} \in SUBSET Route
    BY KeyType, KeysApart DEF PC
  <1>2. \A n : At(routes, n) \in SUBSET Route
    BY DEF At
  <1>3. CASE ~q.backend
    BY <1>1, <1>2, <1>3, QuietPut DEF SelectRoute
  <1>4. CASE q.backend /\ q.withSessionAffinity /\ q.sessionAffinityRef # NoRef
    <2>1. RefKey(q.sessionAffinityRef) \in Key
      BY <1>4, KeyType DEF FindRequest
    <2>2. AwaitGet(h, RefKey(q.sessionAffinityRef), "affinity")
      BY <1>4 DEF SelectRoute
    <2>. QED BY <1>1, <2>1, <2>2, QuietGet
  <1>5. CASE Balance(h, q, routes)
    <2>1. LeastSessions(routes) \in SUBSET Route
      BY DEF LeastSessions
    <2>2. CASE Answer(h, {}) /\ UNCHANGED storeVars
      BY <2>2, QuietAnswer DEF storeVars
    <2>3. ASSUME NEW pick \in SUBSET Route,
                 PutAndAnswer(h, storeKeyWithLabels(q), pick, pick)
          PROVE  Quiet
      BY <1>1, <2>3, QuietPut
    <2>. QED BY <1>2, <1>5, <2>1, <2>2, <2>3 DEF Balance
  <1>. QED BY <1>3, <1>4, <1>5 DEF SelectRoute

(* Every step of a lookup, and every step that is no request's, is quiet.  *)
LEMMA QuietFind ==
  ASSUME TypeOK, NEW h \in Handler, NEW q \in FindRequest, FindRoutes(h, q)
  PROVE  Quiet
  <1>1. storeKeyWithLabels(Received(q)) \in Key /\ "lookup" \in PC
    BY ReceivedType, KeyType DEF PC
  <1>2. \A g \in Handler \ {h} : req'[g] = req[g]
    BY DEF FindRoutes, TypeOK
  <1>. QED BY <1>1, <1>2, QuietGet DEF FindRoutes

LEMMA QuietResume ==
  ASSUME TypeOK, NEW h \in Handler,
         \/ ResumeLookup(h)
         \/ ResumeRelookup(h)
         \/ ResumeBindings(h)
         \/ ResumePicked(h)
  PROVE  Quiet
  <1> DEFINE q == Received(req[h])
  <1>1. /\ req[h] \in FindRequest /\ now' = now /\ req' = req
        /\ got[h] \in SUBSET Route /\ candidates[h] \in SUBSET Route
    BY DEF TypeOK, Finding, FindPC, ResumeLookup, ResumeRelookup,
           ResumeBindings, ResumePicked
  <1>2. q \in FindRequest
    BY <1>1, ReceivedType
  <1>3. /\ storeKeyWithLabels(q) \in Key \ AorKeys /\ AorKey(q.aor) \in Key
        /\ "relookup" \in PC /\ "bindings" \in PC
    BY <1>2, KeyType, KeysApart DEF FindRequest, PC
  <1>. HIDE DEF q
  <1>4. ASSUME NEW key \in Key, NEW resume \in {"relookup", "bindings"},
               AwaitGet(h, key, resume)
        PROVE  Quiet
    <2>1. resume \in PC /\ resume # "add"
      BY <1>3
    <2>. QED BY <1>1, <1>4, <2>1, QuietGet
  <1>5. ASSUME NEW routes \in SUBSET Route, Answer(h, routes), UNCHANGED storeVars
        PROVE  Quiet
    BY <1>1, <1>5, QuietAnswer DEF storeVars
  <1>6. ASSUME NEW routes \in SUBSET Route, SelectRoute(h, q, routes)
        PROVE  Quiet
    BY <1>1, <1>2, <1>6, QuietSelect
  <1>7. CASE ResumeLookup(h)
    BY <1>1, <1>3, <1>4, <1>5, <1>7 DEF ResumeLookup, q
  <1>8. CASE ResumeRelookup(h)
    BY <1>1, <1>3, <1>4, <1>6, <1>8 DEF ResumeRelookup, q
  <1>9. CASE ResumeBindings(h)
    <2>1. MatchingLabels(got[h], q.labels) \in SUBSET Route
      BY <1>1 DEF MatchingLabels
    <2>. QED BY <1>1, <1>6, <1>9, <2>1 DEF ResumeBindings, q
  <1>10. CASE ResumePicked(h)
    <2>1. CASE Answer(h, {}) /\ UNCHANGED storeVars
      BY <1>5, <2>1
    <2>2. CASE PutAndAnswer(h, storeKeyWithLabels(q), candidates[h], candidates[h])
      BY <1>1, <1>3, <2>2, QuietPut
    <2>. QED BY <1>10, <2>1, <2>2 DEF ResumePicked, q
  <1>. QED BY <1>7, <1>8, <1>9, <1>10

LEMMA QuietAffinity ==
  ASSUME TypeOK, NEW h \in Handler, ResumeAffinity(h)
  PROVE  Quiet
  <1> DEFINE key == RefKey(req[h].sessionAffinityRef)
             pick == AffinityPick(h)
  <1>1. /\ req[h] \in FindRequest /\ req[h].sessionAffinityRef \in Ref
        /\ got[h] \in SUBSET Route /\ candidates[h] \in SUBSET Route
        /\ now' = now /\ req' = req
    BY DEF ResumeAffinity, TypeOK, Finding, FindPC, FindRequest
  <1>2. key \in Key \ AorKeys /\ pick \in SUBSET Route
    BY <1>1, KeyType, KeysApart DEF AffinityPick, At, LeastSessions
  <1>3. CASE Throw(h, "TypeError") /\ UNCHANGED storeVars
    BY <1>1, <1>3, QuietAnswer DEF storeVars
  <1>4. CASE /\ StorePut(key, pick) \/ UNCHANGED storeVars
             /\ pc' = [pc EXCEPT ![h] = "picked"]
             /\ got' = [got EXCEPT ![h] = {}]
    <2>1. \A k \in AorKeys : k \in Key /\ k # key
      BY <1>2 DEF Key
    <2>2. \A k \in AorKeys : collections'[k] = collections[k]
      BY <1>2, <1>4, <2>1, StorePutType DEF storeVars
    <2>3. \A g \in Handler : pc'[g] = "add" => g # h
      BY <1>4 DEF TypeOK
    <2>4. \A g \in Handler \ {h} : pc'[g] = pc[g] /\ got'[g] = got[g]
      BY <1>4 DEF TypeOK
    <2>. QED BY <1>1, <2>2, <2>3, <2>4 DEF Quiet
  <1>. QED BY <1>3, <1>4 DEF ResumeAffinity

LEMMA QuietOther ==
  ASSUME TypeOK,
         \/ \E h \in Handler : Callback(h)
         \/ \E a \in Aor : RemoveRoutes(a)
         \/ Tick
         \/ UNCHANGED vars
  PROVE  Quiet
  <1>1. ASSUME NEW h \in Handler, Callback(h)
        PROVE  Quiet
    BY <1>1 DEF Callback, Quiet, TypeOK
  <1>2. ASSUME NEW a \in Aor, RemoveRoutes(a)
        PROVE  Quiet
    <2>1. \A k \in AorKeys : k \in Key
      BY DEF Key
    <2>. QED BY <1>2, <2>1 DEF RemoveRoutes, Quiet, TypeOK
  <1>3. CASE Tick
    <2>1. \A k \in AorKeys : collections[k] \in SUBSET Route
      BY DEF Key, TypeOK
    <2>2. \A k \in AorKeys : \A r \in collections[k] : r.deadline \in Int
      BY <2>1 DEF Route
    <2>. QED BY <1>3, <2>2 DEF Tick, Quiet, TypeOK
  <1>4. CASE UNCHANGED vars
    BY <1>4 DEF vars, Quiet
  <1>. QED BY <1>1, <1>2, <1>3, <1>4
(* A registration that starts is counted as entering only when it replaces *)
(* a live contact, or when fewer than maxContacts are live.                *)
LEMMA AddRouteContacts ==
  ASSUME ConstantsAssumption, TypeOK, ContactInv, NEW h \in Handler,
         NEW c \in Contact, NEW e \in Expires, AddRoute(h, c, e)
  PROVE  ContactInv'
  <1>1. c.aor \in Aor /\ AorKey(c.aor) \in Key /\ "add" \in PC
    BY KeyType DEF ConstantsAssumption, PC
  <1>2. /\ now' = now
        /\ req'[h].aor = c.aor /\ req'[h].maxContacts = MaxContacts[c.aor]
        /\ req'[h].route.addr = c.addr
    BY DEF AddRoute, TypeOK, RouteOf
  <1>3. \A g \in Handler \ {h} : /\ pc'[g] = pc[g] /\ req'[g] = req[g]
                                /\ got'[g] = got[g]
    BY DEF AddRoute, AwaitGet, Throw, TypeOK
  <1>4. pc'[h] = "add" => got'[h] = Live(AorKey(c.aor))
    BY DEF AddRoute, AwaitGet, Throw, TypeOK
  <1>5. \A k \in Key : collections'[k] \subseteq collections[k]
    BY <1>1, AwaitGetType DEF AddRoute, storeVars
  <1>6. \A g \in Handler :
          Adding(g)' => req'[g].maxContacts = MaxContacts[req'[g].aor]
    BY <1>2, <1>3 DEF ContactInv, Adding
  <1>7. ASSUME NEW a \in Aor, MaxContacts[a] # -1
        PROVE  Cardinality(Occupied(a)') <= MaxContacts[a] + Cardinality(Handler) - 1
    <2>1. AorKey(a) \in Key
      BY KeyType
    <2>2. Live(AorKey(a))' \subseteq Live(AorKey(a))
      BY <1>2, <1>5, <2>1 DEF Live, Unexpired, expiredFilter
    <2>3. Addresses(Live(AorKey(a)))' \subseteq Addresses(Live(AorKey(a)))
      BY <2>2 DEF Addresses
    <2>4. \A x \in Entering(a)' :
            x \in Entering(a) \/ (Passing(h)' /\ c.aor = a /\ x = c.addr)
      BY <1>2, <1>3 DEF Entering, Passing, Adding
    <2>5. CASE ~(Passing(h)' /\ c.aor = a)
      <3>1. Occupied(a)' \subseteq Occupied(a)
        BY <2>3, <2>4, <2>5 DEF Occupied
      <3>. QED BY <1>7, <3>1, OccupiedShrinks
    <2>6. CASE Passing(h)' /\ c.aor = a /\ c.addr \in Addresses(Live(AorKey(a)))
      <3>1. Occupied(a)' \subseteq Occupied(a)
        BY <2>3, <2>4, <2>6 DEF Occupied
      <3>. QED BY <1>7, <3>1, OccupiedShrinks
    <2>7. CASE /\ Passing(h)' /\ c.aor = a
               /\ Cardinality(Live(AorKey(a))) < MaxContacts[a]
      <3> DEFINE L == Addresses(Live(AorKey(a)))'
                 E == Entering(a)'
                 T == {req'[g].route.addr : g \in Handler}
      <3>1. /\ IsFiniteSet(Live(AorKey(a))) /\ Live(AorKey(a)) \in SUBSET Route
            /\ IsFiniteSet(Handler) /\ Cardinality(Handler) \in Nat
        BY OccupiedFinite, FS_CardinalityType DEF ConstantsAssumption
      <3>2. /\ IsFiniteSet(Addresses(Live(AorKey(a))))
            /\ Cardinality(Addresses(Live(AorKey(a)))) <= Cardinality(Live(AorKey(a)))
        BY <3>1, AddressesFinite
      <3>3. /\ IsFiniteSet(L)
            /\ Cardinality(L) <= Cardinality(Addresses(Live(AorKey(a))))
        BY <2>3, <3>2, FS_Subset
      <3>4. IsFiniteSet(Handler)
        BY <3>1
      <3>5. E \subseteq T
        BY DEF Entering
      <3>. HIDE DEF L, E
      <3>6. IsFiniteSet(T) /\ Cardinality(T) <= Cardinality(Handler)
        BY <3>4, RequestedFinite
      <3>. HIDE DEF T
      <3>7. IsFiniteSet(E) /\ Cardinality(E) <= Cardinality(T)
        BY <3>5, <3>6, FS_Subset
      <3>8. /\ IsFiniteSet(L \cup E)
            /\ Cardinality(L \cup E)
                 = Cardinality(L) + Cardinality(E) - Cardinality(L \cap E)
        BY <3>3, <3>7, FS_Union
      <3>9. IsFiniteSet(L \cap E)
        BY <3>3, FS_Intersection
      <3>10. /\ Cardinality(L) \in Nat /\ Cardinality(E) \in Nat
             /\ Cardinality(L \cap E) \in Nat /\ Cardinality(T) \in Nat
             /\ Cardinality(Live(AorKey(a))) \in Nat
             /\ Cardinality(Addresses(Live(AorKey(a)))) \in Nat
        BY <3>1, <3>2, <3>3, <3>6, <3>7, <3>9, FS_CardinalityType
      <3>11. MaxContacts[a] \in Int
        BY DEF ConstantsAssumption
      <3>12. Cardinality(L \cup E) <= MaxContacts[a] + Cardinality(Handler) - 1
        BY <2>7, <3>1, <3>2, <3>3, <3>6, <3>7, <3>8, <3>10, <3>11
      <3>. QED BY <3>12 DEF Occupied, L, E
    <2>8. Passing(h)' /\ c.aor = a =>
            \/ c.addr \in Addresses(Live(AorKey(a)))
            \/ Cardinality(Live(AorKey(a))) < MaxContacts[a]
      BY <1>2, <1>4, <1>7
         DEF Passing, Adding, Accepts, routeAlreadyExists, Addresses
    <2>. QED BY <2>5, <2>6, <2>7, <2>8
  <1>. QED BY <1>6, <1>7 DEF ContactInv
(* A registration that resumes moves its address from those entering to    *)
(* the live ones, or leaves.                                               *)
LEMMA ResumeAddContacts ==
  ASSUME ConstantsAssumption, TypeOK, ContactInv, NEW h \in Handler, ResumeAdd(h)
  PROVE  ContactInv'
  <1> DEFINE key == AorKey(req[h].aor)
             route == req[h].route
  <1>1. /\ req[h] \in AddRequest /\ req[h].aor \in Aor /\ route \in Route
        /\ now' = now /\ req' = req /\ now \in Int
    BY DEF ResumeAdd, TypeOK, Adding, AddRequest
  <1>2. key \in Key
    BY <1>1, KeyType
  <1>3. /\ pc' = [pc EXCEPT ![h] = "done"]
        /\ \A g \in Handler \ {h} : got'[g] = got[g]
    BY DEF ResumeAdd, PutAndAnswer, Answer, Throw, TypeOK
  <1>4. \A g \in Handler : pc'[g] = "add" =>
          pc[g] = "add" /\ req'[g] = req[g] /\ got'[g] = got[g]
    BY <1>1, <1>3 DEF TypeOK
  <1>5. CASE UNCHANGED storeVars
    <2>1. \A k \in AorKeys : collections'[k] = collections[k]
      BY <1>5 DEF storeVars
    <2>2. Quiet
      BY <1>1, <1>4, <2>1 DEF Quiet
    <2>. QED BY <2>2, QuietContacts
  <1>6. CASE Accepts(req[h], got[h]) /\ StorePut(key, {route})
    <2> DEFINE pick == {route}
    <2>1. pick \in SUBSET Route /\ Addresses(pick) = {route.addr}
      BY <1>1 DEF Addresses
    <2>2. /\ \A k \in Key \ {key} : collections'[k] = collections[k]
          /\ \A t \in Int : t = now =>
               Addresses(Unexpired(collections'[key], t))
                 \subseteq Addresses(Live(key)) \cup Addresses(pick)
      <3>. HIDE DEF key, route
      <3>. QED BY <1>2, <1>6, <2>1, StorePutType
    <2>3. Addresses(Live(key))' \subseteq Addresses(Live(key)) \cup {route.addr}
      BY <1>1, <2>1, <2>2 DEF Live
    <2>4. route.addr \in Entering(req[h].aor)
      BY <1>6 DEF Entering, Passing, Adding, ResumeAdd
    <2>5. ASSUME NEW a \in Aor
          PROVE  Occupied(a)' \subseteq Occupied(a)
      <3>1. Entering(a)' \subseteq Entering(a)
        BY <1>1, <1>4 DEF Entering, Passing, Adding
      <3>2. CASE a = req[h].aor
        BY <1>1, <2>3, <2>4, <3>1, <3>2 DEF Occupied
      <3>3. CASE a # req[h].aor
        <4>1. AorKey(a) \in Key \ {key}
          BY <3>3, KeyType DEF AorKey
        <4>2. Addresses(Live(AorKey(a)))' = Addresses(Live(AorKey(a)))
          BY <1>1, <2>2, <4>1 DEF Live
        <4>. QED BY <3>1, <4>2 DEF Occupied
      <3>. QED BY <3>2, <3>3
    <2>6. \A a \in Aor : MaxContacts[a] # -1 =>
            Cardinality(Occupied(a)') <= MaxContacts[a] + Cardinality(Handler) - 1
      BY <2>5, OccupiedShrinks
    <2>7. \A g \in Handler :
            Adding(g)' => req'[g].maxContacts = MaxContacts[req'[g].aor]
      BY <1>1, <1>4 DEF ContactInv, Adding
    <2>. QED BY <2>6, <2>7 DEF ContactInv
  <1>. QED BY <1>5, <1>6 DEF ResumeAdd, PutAndAnswer
LEMMA InitContacts == ConstantsAssumption /\ Init => ContactInv
  <1> SUFFICES ASSUME ConstantsAssumption, Init
               PROVE  ContactInv
    OBVIOUS
  <1>1. \A h \in Handler : ~Adding(h)
    BY DEF Init, Adding
  <1>2. ASSUME NEW a \in Aor, MaxContacts[a] # -1
        PROVE  Cardinality(Occupied(a)) <= MaxContacts[a] + Cardinality(Handler) - 1
    <2>1. AorKey(a) \in Key
      BY KeyType
    <2>2. Occupied(a) = {}
      BY <1>1, <2>1
         DEF Init, Occupied, Live, Unexpired, Addresses, Entering, Passing
    <2>3. Cardinality(Occupied(a)) = 0
      BY <2>2, FS_EmptySet
    <2>4. Cardinality(Handler) \in Nat /\ Cardinality(Handler) # 0
      BY FS_CardinalityType, FS_EmptySet DEF ConstantsAssumption
    <2>5. MaxContacts[a] \in Nat
      BY <1>2 DEF ConstantsAssumption
    <2>. QED BY <2>3, <2>4, <2>5
  <1>. QED BY <1>1, <1>2 DEF ContactInv

LEMMA NextContacts ==
  ConstantsAssumption /\ TypeOK /\ ContactInv /\ [Next]_vars => ContactInv'
  <1> SUFFICES ASSUME ConstantsAssumption, TypeOK, ContactInv, [Next]_vars
               PROVE  ContactInv'
    OBVIOUS
  <1>1. ASSUME NEW h \in Handler, NEW c \in Contact, NEW e \in Expires,
               AddRoute(h, c, e)
        PROVE  ContactInv'
    BY <1>1, AddRouteContacts
  <1>2. ASSUME NEW h \in Handler, NEW q \in FindRequests, FindRoutes(h, q)
        PROVE  ContactInv'
    BY <1>2, QuietFind, QuietContacts DEF ConstantsAssumption
  <1>3. ASSUME NEW h \in Handler, NEW a \in Aor, RemoveRoutesRpc(h, a)
        PROVE  ContactInv'
    <2>1. RemoveRoutesRequest(a) \in FindRequest
      BY DEF RemoveRoutesRequest, FindRequest
    <2>. QED BY <1>3, <2>1, QuietFind, QuietContacts DEF RemoveRoutesRpc
  <1>4. ASSUME NEW h \in Handler, Step(h)
        PROVE  ContactInv'
    <2>1. CASE ResumeAdd(h)
      BY <2>1, ResumeAddContacts
    <2>2. CASE \/ ResumeLookup(h) \/ ResumeRelookup(h)
               \/ ResumeBindings(h) \/ ResumePicked(h)
      BY <2>2, QuietResume, QuietContacts
    <2>3. CASE ResumeAffinity(h)
      BY <2>3, QuietAffinity, QuietContacts
    <2>4. CASE Callback(h)
      BY <2>4, QuietOther, QuietContacts
    <2>. QED BY <1>4, <2>1, <2>2, <2>3, <2>4 DEF Step
  <1>5. CASE (\E a \in Aor : RemoveRoutes(a)) \/ Tick \/ UNCHANGED vars
    BY <1>5, QuietOther, QuietContacts
  <1>. QED BY <1>1, <1>2, <1>3, <1>4, <1>5 DEF Next

(* An AOR with a limit never has more live contacts than the limit and one *)
(* for each registration in progress but the first: what addRoute's check  *)
(* before the await is worth, for any number of concurrent requests.       *)
THEOREM ContactBound == Spec => []ContactOvershootBounded
  <1>1. ConstantsAssumption
    BY ConstantsAssumption
  <1>2. ASSUME ConstantsAssumption, TypeOK, ContactInv
        PROVE  ContactOvershootBounded
    <2> SUFFICES ASSUME NEW a \in Aor, MaxContacts[a] # -1
                 PROVE  Cardinality(Addresses(Live(AorKey(a))))
                          <= MaxContacts[a] + Cardinality(Handler) - 1
      BY DEF ContactOvershootBounded
    <2>1. Addresses(Live(AorKey(a))) \subseteq Occupied(a)
      BY DEF Occupied
    <2>. QED BY <1>2, <2>1, OccupiedShrinks
  <1>. QED BY <1>1, <1>2, InitContacts, NextContacts, TypeCorrect, PTL DEF Spec

-----------------------------------------------------------------------------
(* Registrations never fail on an undefined route.                         *)
(*                                                                         *)
(* The array of an AOR is never [undefined]: only a put of a lookup can    *)
(* put undefined, and its keys are those of calls and references.          *)
RegisterInv == poisoned \cap AorKeys = {} /\ RegisterNeverBreaks

(* A step of a lookup, seen from the registrations.                        *)
Harmless(h) ==
  /\ poisoned' \cap AorKeys = {}
  /\ req'[h] \in FindRequest
  /\ \A g \in Handler \ {h} : /\ pc'[g] = pc[g] /\ req'[g] = req[g]
                             /\ reply'[g] = reply[g]

LEMMA HarmlessKeeps ==
  ASSUME TypeOK, RegisterInv, NEW h \in Handler, Harmless(h)
  PROVE  RegisterInv'
  <1>1. req'[h].op # "addRoute"
    BY DEF Harmless, FindRequest
  <1>2. \A g \in Handler : (pc'[g] = "done" /\ req'[g].op = "addRoute")
                             => reply'[g] # "TypeError"
    BY <1>1 DEF Harmless, RegisterInv, RegisterNeverBreaks
  <1>. QED BY <1>2 DEF Harmless, RegisterInv, RegisterNeverBreaks

LEMMA HarmlessGet ==
  ASSUME TypeOK, RegisterInv, NEW h \in Handler, NEW key, NEW resume,
         AwaitGet(h, key, resume), req'[h] \in FindRequest,
         \A g \in Handler \ {h} : req'[g] = req[g]
  PROVE  Harmless(h)
  BY DEF AwaitGet, Harmless, TypeOK, RegisterInv

LEMMA HarmlessEnd ==
  ASSUME TypeOK, NEW h \in Handler, NEW routes, NEW error,
         Answer(h, routes) \/ Throw(h, error),
         poisoned' \cap AorKeys = {}, req' = req, req[h] \in FindRequest
  PROVE  Harmless(h)
  BY DEF Answer, Throw, Harmless, TypeOK

LEMMA HarmlessPut ==
  ASSUME TypeOK, RegisterInv, NEW h \in Handler, NEW key, key \notin AorKeys,
         NEW pick, NEW routes, PutAndAnswer(h, key, pick, routes),
         req' = req, req[h] \in FindRequest
  PROVE  Harmless(h)
  <1>1. poisoned' \cap AorKeys = {}
    BY DEF PutAndAnswer, StorePut, storeVars, RegisterInv
  <1>. QED BY <1>1, HarmlessEnd DEF PutAndAnswer

LEMMA HarmlessSelect ==
  ASSUME TypeOK, RegisterInv, NEW h \in Handler, NEW q, NEW routes,
         SelectRoute(h, q, routes), req' = req, req[h] \in FindRequest
  PROVE  Harmless(h)
  <1>1. storeKeyWithLabels(q) \notin AorKeys /\ unlabelledKey(q) \notin AorKeys
    BY KeysApart
  <1>2. CASE PutAndAnswer(h, unlabelledKey(q), At(routes, 0), routes)
    BY <1>1, <1>2, HarmlessPut
  <1>3. CASE AwaitGet(h, RefKey(q.sessionAffinityRef), "affinity")
    BY <1>3, HarmlessGet
  <1>4. CASE Balance(h, q, routes)
    <2>1. CASE Answer(h, {}) /\ UNCHANGED storeVars
      BY <2>1, HarmlessEnd DEF storeVars, RegisterInv
    <2>2. ASSUME NEW pick, PutAndAnswer(h, storeKeyWithLabels(q), pick, pick)
          PROVE  Harmless(h)
      BY <1>1, <2>2, HarmlessPut
    <2>. QED BY <1>4, <2>1, <2>2 DEF Balance
  <1>. QED BY <1>2, <1>3, <1>4 DEF SelectRoute

LEMMA HarmlessLookup ==
  ASSUME TypeOK, RegisterInv, NEW h \in Handler,
         \/ \E q \in FindRequest : FindRoutes(h, q)
         \/ ResumeLookup(h)
         \/ ResumeRelookup(h)
         \/ ResumeBindings(h)
         \/ ResumeAffinity(h)
         \/ ResumePicked(h)
  PROVE  Harmless(h)
  <1>1. ASSUME NEW q \in FindRequest, FindRoutes(h, q)
        PROVE  Harmless(h)
    <2>1. req'[h] \in FindRequest /\ \A g \in Handler \ {h} : req'[g] = req[g]
      BY <1>1 DEF FindRoutes, TypeOK
    <2>. QED BY <1>1, <2>1, HarmlessGet DEF FindRoutes
  <1>2. ASSUME req' = req, req[h] \in FindRequest, ResumeLookup(h)
        PROVE  Harmless(h)
    <2>1. ASSUME NEW key, NEW resume, AwaitGet(h, key, resume)
          PROVE  Harmless(h)
      BY <1>2, <2>1, HarmlessGet
    <2>2. CASE Answer(h, got[h]) /\ UNCHANGED storeVars
      BY <1>2, <2>2, HarmlessEnd DEF storeVars, RegisterInv
    <2>. QED BY <1>2, <2>1, <2>2 DEF ResumeLookup
  <1>3. ASSUME req' = req, req[h] \in FindRequest,
               ResumeRelookup(h) \/ ResumeBindings(h)
        PROVE  Harmless(h)
    <2>1. ASSUME NEW q, NEW routes, SelectRoute(h, q, routes)
          PROVE  Harmless(h)
      BY <1>3, <2>1, HarmlessSelect
    <2>2. ASSUME NEW key, NEW resume, AwaitGet(h, key, resume)
          PROVE  Harmless(h)
      BY <1>3, <2>2, HarmlessGet
    <2>. QED BY <1>3, <2>1, <2>2 DEF ResumeRelookup, ResumeBindings
  <1>4. ASSUME req' = req, req[h] \in FindRequest, ResumeAffinity(h)
        PROVE  Harmless(h)
    <2> DEFINE key == RefKey(req[h].sessionAffinityRef)
               pick == AffinityPick(h)
    <2>1. key \notin AorKeys
      BY KeysApart
    <2>. HIDE DEF key, pick
    <2>2. CASE Throw(h, "TypeError") /\ UNCHANGED storeVars
      BY <1>4, <2>2, HarmlessEnd DEF storeVars, RegisterInv
    <2>3. CASE /\ StorePut(key, pick) \/ UNCHANGED storeVars
               /\ pc' = [pc EXCEPT ![h] = "picked"]
               /\ UNCHANGED reply
      BY <1>4, <2>1, <2>3 DEF Harmless, StorePut, storeVars, RegisterInv, TypeOK
    <2>. QED BY <1>4, <2>2, <2>3 DEF ResumeAffinity, key, pick
  <1>5. ASSUME req' = req, req[h] \in FindRequest, ResumePicked(h)
        PROVE  Harmless(h)
    <2>1. storeKeyWithLabels(Received(req[h])) \notin AorKeys
      BY KeysApart
    <2>2. CASE Answer(h, {}) /\ UNCHANGED storeVars
      BY <1>5, <2>2, HarmlessEnd DEF storeVars, RegisterInv
    <2>3. CASE PutAndAnswer(h, storeKeyWithLabels(Received(req[h])),
                            candidates[h], candidates[h])
      BY <1>5, <2>1, <2>3, HarmlessPut
    <2>. QED BY <1>5, <2>2, <2>3 DEF ResumePicked
  <1>6. (ResumeLookup(h) \/ ResumeRelookup(h) \/ ResumeBindings(h)
           \/ ResumeAffinity(h) \/ ResumePicked(h))
          => req' = req /\ req[h] \in FindRequest
    BY DEF TypeOK, Finding, FindPC, ResumeLookup, ResumeRelookup,
           ResumeBindings, ResumeAffinity, ResumePicked
  <1>. QED BY <1>1, <1>2, <1>3, <1>4, <1>5, <1>6

LEMMA RegisterSteps ==
  ASSUME ConstantsAssumption, TypeOK, RegisterInv, NEW h \in Handler,
         \/ \E c \in Contact, e \in Expires : AddRoute(h, c, e)
         \/ ResumeAdd(h)
         \/ Callback(h)
  PROVE  RegisterInv'
  <1>1. ASSUME NEW c \in Contact, NEW e \in Expires, AddRoute(h, c, e)
        PROVE  RegisterInv'
    <2>1. AorKey(c.aor) \in AorKeys
      BY DEF AorKeys, ConstantsAssumption
    <2>2. AorKey(c.aor) \notin poisoned /\ poisoned' = poisoned
      BY <1>1, <2>1 DEF RegisterInv, AddRoute, AwaitGet, storeVars
    <2>3. \A g \in Handler \ {h} : /\ pc'[g] = pc[g] /\ req'[g] = req[g]
                                  /\ reply'[g] = reply[g]
      BY <1>1 DEF AddRoute, AwaitGet, Throw, TypeOK
    <2>4. pc'[h] = "add" \/ reply'[h] = "UnsupportedSchema"
      BY <1>1, <2>2 DEF AddRoute, AwaitGet, Throw, TypeOK
    <2>. QED BY <2>2, <2>3, <2>4 DEF RegisterInv, RegisterNeverBreaks
  <1>2. ASSUME ResumeAdd(h)
        PROVE  RegisterInv'
    <2>1. req[h] \in AddRequest /\ req' = req
      BY <1>2 DEF ResumeAdd, TypeOK, Adding
    <2>2. AorKey(req[h].aor) \in AorKeys
      BY <2>1 DEF AorKeys, AddRequest
    <2>3. ~PutThrows(AorKey(req[h].aor), {req[h].route})
      BY <2>2 DEF PutThrows, RegisterInv
    <2>4. poisoned' = poisoned
      BY <1>2, <2>3 DEF ResumeAdd, PutAndAnswer, StorePut, storeVars
    <2>5. /\ reply'[h] \in {"ok", "NotRoutesFound", "BadRequest"}
          /\ \A g \in Handler \ {h} : pc'[g] = pc[g] /\ reply'[g] = reply[g]
      BY <1>2, <2>3 DEF ResumeAdd, PutAndAnswer, Answer, Throw, TypeOK
    <2>. QED BY <2>1, <2>4, <2>5 DEF RegisterInv, RegisterNeverBreaks
  <1>3. ASSUME Callback(h)
        PROVE  RegisterInv'
    BY <1>3 DEF Callback, RegisterInv, RegisterNeverBreaks, TypeOK
  <1>. QED BY <1>1, <1>2, <1>3

LEMMA RegisterNext ==
  ConstantsAssumption /\ TypeOK /\ RegisterInv /\ [Next]_vars => RegisterInv'
  <1> SUFFICES ASSUME ConstantsAssumption, TypeOK, RegisterInv, [Next]_vars
               PROVE  RegisterInv'
    OBVIOUS
  <1>1. ASSUME NEW h \in Handler, NEW q \in FindRequest, FindRoutes(h, q)
        PROVE  RegisterInv'
    BY <1>1, HarmlessLookup, HarmlessKeeps
  <1>2. ASSUME NEW h \in Handler, NEW a \in Aor, RemoveRoutesRpc(h, a)
        PROVE  RegisterInv'
    <2>1. RemoveRoutesRequest(a) \in FindRequest
      BY DEF RemoveRoutesRequest, FindRequest
    <2>. QED BY <1>1, <1>2, <2>1 DEF RemoveRoutesRpc
  <1>3. ASSUME NEW h \in Handler, Step(h)
        PROVE  RegisterInv'
    <2>1. CASE ResumeAdd(h) \/ Callback(h)
      BY <2>1, RegisterSteps
    <2>2. CASE \/ ResumeLookup(h) \/ ResumeRelookup(h) \/ ResumeBindings(h)
               \/ ResumeAffinity(h) \/ ResumePicked(h)
      BY <2>2, HarmlessLookup, HarmlessKeeps
    <2>. QED BY <1>3, <2>1, <2>2 DEF Step
  <1>4. ASSUME NEW h \in Handler, NEW c \in Contact, NEW e \in Expires,
               AddRoute(h, c, e)
        PROVE  RegisterInv'
    BY <1>4, RegisterSteps
  <1>5. CASE (\E a \in Aor : RemoveRoutes(a)) \/ Tick \/ UNCHANGED vars
    BY <1>5 DEF RemoveRoutes, Tick, vars, RegisterInv, RegisterNeverBreaks
  <1>6. FindRequests \subseteq FindRequest
    BY DEF ConstantsAssumption
  <1>. QED BY <1>1, <1>2, <1>3, <1>4, <1>5, <1>6 DEF Next

(* A REGISTER is accepted, or refused for its scheme or its limit: what    *)
(* lookups of unregistered AORs leave in the store never makes it fail.    *)
THEOREM RegisterSound == Spec => []RegisterNeverBreaks
  <1>1. ConstantsAssumption
    BY ConstantsAssumption
  <1>2. Init => RegisterInv
    BY DEF Init, RegisterInv, RegisterNeverBreaks
  <1>3. RegisterInv => RegisterNeverBreaks
    BY DEF RegisterInv
  <1>. QED BY <1>1, <1>2, <1>3, RegisterNext, TypeCorrect, PTL DEF Spec

-----------------------------------------------------------------------------
(* No device twice.                                                        *)

Distinct(routes) ==
  \A r1, r2 \in routes : r1 # r2 => r1.addr # r2.addr /\ r1.pos # r2.pos

(* Of two routes of an array the later one has the greater index.          *)
LEMMA IndexGrows ==
  ASSUME NEW routes \in SUBSET Route, IsFiniteSet(routes),
         NEW r1 \in routes, NEW r2 \in routes, r1.pos < r2.pos
  PROVE  IndexOf(r1, routes) # IndexOf(r2, routes)
  <1> DEFINE B1 == {q \in routes : q.pos < r1.pos}
             B2 == {q \in routes : q.pos < r2.pos}
  <1>1. \A q \in routes : q.pos \in Int
    BY DEF Route
  <1>2. B1 \subseteq B2
    BY <1>1
  <1>3. r1 \in B2 /\ r1 \notin B1
    BY <1>1
  <1>4. IsFiniteSet(B2)
    BY FS_Subset
  <1>5. IndexOf(r1, routes) = Cardinality(B1) /\ IndexOf(r2, routes) = Cardinality(B2)
    BY DEF IndexOf
  <1>. HIDE DEF B1, B2
  <1>6. Cardinality(B1) # Cardinality(B2)
    BY <1>2, <1>3, <1>4, FS_Subset
  <1>. QED BY <1>5, <1>6

(* put never leaves two routes of a device, or two at a position.          *)
LEMMA PutDistinct ==
  ASSUME NEW routes \in SUBSET Route, IsFiniteSet(routes), Distinct(routes),
         NEW route \in Route, NEW t \in Int
  PROVE  Distinct(Put(routes, route, t))
  <1> DEFINE kept == {r \in Unexpired(routes, t) : duplicateFilter(r, route)}
             Moved(r) == [r EXCEPT !.pos = 1 + IndexOf(r, kept)]
             head == [route EXCEPT !.pos = 0]
  <1>1. /\ kept \subseteq routes /\ kept \in SUBSET Route /\ Distinct(kept)
        /\ \A r \in kept : r.addr # route.addr
    BY DEF Unexpired, duplicateFilter, Distinct
  <1>2. IsFiniteSet(kept)
    BY <1>1, FS_Subset
  <1>3. Put(routes, route, t) = {head} \cup {Moved(r) : r \in kept}
    BY DEF Put, Prepend
  <1>. HIDE DEF kept
  <1>4. \A r \in kept : IndexOf(r, kept) \in Nat
    BY <1>2, IndexType
  <1>5. \A r \in kept : /\ Moved(r).addr = r.addr
                       /\ Moved(r).pos = 1 + IndexOf(r, kept)
    BY <1>1 DEF Route
  <1>6. head.addr = route.addr /\ head.pos = 0
    BY DEF Route
  <1>7. ASSUME NEW r1 \in kept, NEW r2 \in kept, Moved(r1) # Moved(r2)
        PROVE  Moved(r1).addr # Moved(r2).addr /\ Moved(r1).pos # Moved(r2).pos
    <2>1. r1 # r2
      BY <1>7
    <2>2. r1.addr # r2.addr /\ r1.pos # r2.pos
      BY <1>1, <2>1 DEF Distinct
    <2>3. r1.pos \in Nat /\ r2.pos \in Nat
      BY <1>1 DEF Route
    <2>4. IndexOf(r1, kept) # IndexOf(r2, kept)
      <3>1. CASE r1.pos < r2.pos
        BY <1>1, <1>2, <3>1, IndexGrows
      <3>2. CASE r2.pos < r1.pos
        BY <1>1, <1>2, <3>2, IndexGrows
      <3>. QED BY <2>2, <2>3, <3>1, <3>2
    <2>. HIDE DEF Moved
    <2>. QED BY <1>4, <1>5, <2>2, <2>4
  <1>8. ASSUME NEW r \in kept
        PROVE  Moved(r).addr # head.addr /\ Moved(r).pos # head.pos
    <2>. HIDE DEF Moved, head
    <2>. QED BY <1>1, <1>4, <1>5, <1>6
  <1>. HIDE DEF Moved, head
  <1>. QED BY <1>3, <1>7, <1>8 DEF Distinct

-----------------------------------------------------------------------------
(* What a step does, handler by handler.                                   *)

(* The requests whose handlers look routes up.                             *)
Lookups == FindRequests \cup {RemoveRoutesRequest(a) : a \in Aor}

(* The call's key of the lookup a handler serves.                          *)
CallKeyOf(h) == storeKeyWithLabels(Received(req[h]))

Still(g) ==
  /\ pc'[g] = pc[g] /\ req'[g] = req[g]
  /\ got'[g] = got[g] /\ candidates'[g] = candidates[g]

Registers(g) ==
  /\ pc'[g] = "add"
  /\ \E c \in Contact : req'[g].aor = c.aor /\ req'[g].route.addr = c.addr

ReadsCall(g) ==
  /\ pc[g] = "idle" /\ pc'[g] = "lookup" /\ req'[g] \in Lookups
  /\ got'[g] = Live(CallKeyOf(g)')

RereadsCall(g) ==
  /\ pc[g] = "lookup" /\ got[g] = {} /\ pc'[g] = "relookup"
  /\ req'[g] = req[g] /\ got'[g] = Live(CallKeyOf(g))

ReadsBindings(g) ==
  /\ pc[g] \in {"lookup", "relookup"} /\ got[g] = {} /\ pc'[g] = "bindings"
  /\ req'[g] = req[g] /\ got'[g] = Live(AorKey(req[g].aor))

ReadsAffinity(g) ==
  /\ pc[g] \in {"relookup", "bindings"} /\ pc'[g] = "affinity"
  /\ req'[g] = req[g] /\ req[g].backend /\ req[g].sessionAffinityRef # NoRef
  /\ got'[g] = Live(RefKey(req[g].sessionAffinityRef))
  /\ candidates'[g] \subseteq got[g]

Picks(g) ==
  /\ pc[g] = "affinity" /\ pc'[g] = "picked" /\ req'[g] = req[g] /\ got'[g] = {}
  /\ candidates'[g] \subseteq got[g] \cup candidates[g]

Ends(g) ==
  /\ pc'[g] = "done"
  /\ \/ got'[g] = {}
     \/ /\ req'[g] = req[g]
        /\ \/ pc[g] \in {"lookup", "relookup", "bindings"} /\ got'[g] \subseteq got[g]
           \/ pc[g] = "picked" /\ got'[g] \subseteq candidates[g]

Moves(g) ==
  \/ Still(g)
  \/ pc'[g] = "idle"
  \/ Registers(g)
  \/ ReadsCall(g)
  \/ RereadsCall(g)
  \/ ReadsBindings(g)
  \/ ReadsAffinity(g)
  \/ Picks(g)
  \/ Ends(g)

(* A handler writes one route, or undefined, under a key.                  *)
Writes(h, key, pick) ==
  /\ StorePut(key, pick) /\ now' = now
  /\ pc' = [pc EXCEPT ![h] = IF pc[h] = "affinity" THEN "picked" ELSE "done"]
  /\ \/ /\ pc[h] = "add" /\ key = AorKey(req[h].aor) /\ pick = {req[h].route}
     \/ /\ pc[h] \in {"relookup", "bindings"} /\ pick \subseteq got[h]
        /\ \/ key = CallKeyOf(h)
           \/ key = unlabelledKey(Received(req[h])) /\ ~req[h].backend
     \/ /\ pc[h] = "affinity" /\ got[h] = {} /\ pick \subseteq candidates[h]
        /\ key = RefKey(req[h].sessionAffinityRef)
     \/ /\ pc[h] = "picked" /\ pick \subseteq candidates[h] /\ key = CallKeyOf(h)

(* Every array loses routes, or lifetimes end.                             *)
Shrinks ==
  /\ now' \in Nat /\ now' >= now
  /\ \A k \in Key : collections'[k] \subseteq collections[k]

Steps ==
  /\ \A g \in Handler : Moves(g)
  /\ \/ Shrinks
     \/ \E h \in Handler, key \in Key, pick \in SUBSET Route : Writes(h, key, pick)

LEMMA GetShrinks ==
  ASSUME TypeOK, NEW h \in Handler, NEW key \in Key, NEW resume \in PC,
         AwaitGet(h, key, resume), now' = now
  PROVE  /\ Shrinks
         /\ \/ pc' = [pc EXCEPT ![h] = resume] /\ got' = [got EXCEPT ![h] = Live(key)]
            \/ pc' = [pc EXCEPT ![h] = "done"] /\ got' = [got EXCEPT ![h] = {}]
  <1>1. \A k \in Key : collections'[k] \subseteq collections[k]
    BY AwaitGetType
  <1>2. now' \in Nat /\ now' >= now
    BY DEF TypeOK
  <1>3. \/ pc' = [pc EXCEPT ![h] = resume] /\ got' = [got EXCEPT ![h] = Live(key)]
        \/ pc' = [pc EXCEPT ![h] = "done"] /\ got' = [got EXCEPT ![h] = {}]
    BY DEF AwaitGet
  <1>. QED BY <1>1, <1>2, <1>3 DEF Shrinks

LEMMA StoreKept ==
  ASSUME TypeOK, UNCHANGED storeVars, now' = now
  PROVE  Shrinks
  BY DEF TypeOK, Shrinks, storeVars

(* A request ends without a write, or with one.                            *)
LEMMA EndSteps ==
  ASSUME TypeOK, NEW h \in Handler, NEW key \in Key,
         NEW pick \in SUBSET Route, NEW routes,
         PutAndAnswer(h, key, pick, routes), now' = now
  PROVE  /\ Shrinks \/ StorePut(key, pick)
         /\ pc' = [pc EXCEPT ![h] = "done"]
         /\ \/ got' = [got EXCEPT ![h] = routes]
            \/ got' = [got EXCEPT ![h] = {}]
         /\ candidates' = [candidates EXCEPT ![h] = {}]
  BY StoreKept DEF PutAndAnswer, Answer, Throw

LEMMA AddRouteSteps ==
  ASSUME ConstantsAssumption, TypeOK, NEW h \in Handler, NEW c \in Contact,
         NEW e \in Expires, AddRoute(h, c, e)
  PROVE  Steps
  <1>1. c.aor \in Aor /\ AorKey(c.aor) \in Key /\ "add" \in PC
    BY KeyType DEF ConstantsAssumption, PC
  <1>2. /\ now' = now
        /\ req'[h].aor = c.aor /\ req'[h].route.addr = c.addr
        /\ \A g \in Handler \ {h} : req'[g] = req[g]
    BY DEF AddRoute, TypeOK, RouteOf
  <1>3. /\ Shrinks
        /\ \/ pc'[h] = "add"
           \/ pc'[h] = "done" /\ got'[h] = {}
        /\ \A g \in Handler \ {h} : pc'[g] = pc[g] /\ got'[g] = got[g]
    <2>1. CASE AwaitGet(h, AorKey(c.aor), "add")
      BY <1>1, <1>2, <2>1, GetShrinks DEF TypeOK
    <2>2. CASE Throw(h, "UnsupportedSchema") /\ UNCHANGED storeVars
      BY <1>2, <2>2, StoreKept DEF Throw, TypeOK
    <2>. QED BY <2>1, <2>2 DEF AddRoute
  <1>4. \A g \in Handler \ {h} : candidates'[g] = candidates[g]
    BY DEF AddRoute, Throw, TypeOK
  <1>5. Moves(h)
    BY <1>2, <1>3 DEF Moves, Registers, Ends
  <1>. QED BY <1>2, <1>3, <1>4, <1>5 DEF Steps, Moves, Still

LEMMA FindRoutesSteps ==
  ASSUME ConstantsAssumption, TypeOK, NEW h \in Handler, NEW q \in Lookups,
         q \in FindRequest, FindRoutes(h, q)
  PROVE  Steps
  <1>1. storeKeyWithLabels(Received(q)) \in Key /\ "lookup" \in PC
    BY ReceivedType, KeyType DEF PC
  <1>2. /\ now' = now /\ req'[h] = q /\ candidates' = candidates /\ pc[h] = "idle"
        /\ \A g \in Handler \ {h} : req'[g] = req[g]
        /\ AwaitGet(h, storeKeyWithLabels(Received(q)), "lookup")
    BY DEF FindRoutes, TypeOK
  <1>3. CallKeyOf(h)' = storeKeyWithLabels(Received(q))
    BY <1>2 DEF CallKeyOf
  <1>4. /\ Shrinks
        /\ \/ pc'[h] = "lookup" /\ got'[h] = Live(CallKeyOf(h)')
           \/ pc'[h] = "done" /\ got'[h] = {}
        /\ \A g \in Handler \ {h} : pc'[g] = pc[g] /\ got'[g] = got[g]
    BY <1>1, <1>2, <1>3, GetShrinks DEF TypeOK
  <1>5. Moves(h)
    BY <1>2, <1>4 DEF Moves, ReadsCall, Ends
  <1>. QED BY <1>2, <1>4, <1>5 DEF Steps, Moves, Still

LEMMA ResumeAddSteps ==
  ASSUME TypeOK, NEW h \in Handler, ResumeAdd(h)
  PROVE  Steps
  <1> DEFINE key == AorKey(req[h].aor)
             pick == {req[h].route}
  <1>1. /\ pc[h] = "add" /\ now' = now /\ req' = req
        /\ key \in Key /\ pick \in SUBSET Route
    BY KeyType DEF ResumeAdd, TypeOK, Adding, AddRequest
  <1>2. /\ Shrinks \/ StorePut(key, pick)
        /\ pc' = [pc EXCEPT ![h] = "done"]
        /\ got' = [got EXCEPT ![h] = {}]
        /\ candidates' = [candidates EXCEPT ![h] = {}]
    <2>1. CASE PutAndAnswer(h, key, pick, {})
      <3>. HIDE DEF key, pick
      <3>. QED BY <1>1, <2>1, EndSteps
    <2>2. CASE Throw(h, "BadRequest") /\ UNCHANGED storeVars
      BY <1>1, <2>2, StoreKept DEF Throw
    <2>. QED BY <2>1, <2>2 DEF ResumeAdd
  <1>3. Moves(h)
    BY <1>2 DEF Moves, Ends, TypeOK
  <1>4. \A g \in Handler \ {h} : Still(g)
    BY <1>1, <1>2 DEF Still, TypeOK
  <1>5. StorePut(key, pick) => Writes(h, key, pick)
    BY <1>1, <1>2 DEF Writes
  <1>. QED BY <1>1, <1>2, <1>3, <1>4, <1>5 DEF Steps, Moves

LEMMA ResumeLookupSteps ==
  ASSUME TypeOK, NEW h \in Handler, ResumeLookup(h)
  PROVE  Steps
  <1> DEFINE q == Received(req[h])
  <1>1. /\ pc[h] = "lookup" /\ req[h] \in FindRequest
        /\ now' = now /\ req' = req /\ got[h] \in SUBSET Route
    BY DEF ResumeLookup, TypeOK, Finding, FindPC
  <1>2. /\ q.aor = req[h].aor /\ CallKeyOf(h) \in Key /\ AorKey(req[h].aor) \in Key
        /\ storeKeyWithLabels(q) = CallKeyOf(h) /\ "relookup" \in PC /\ "bindings" \in PC
    BY <1>1, ReceivedType, KeyType DEF CallKeyOf, FindRequest, PC
  <1>. HIDE DEF q
  <1>3. CASE Answer(h, got[h]) /\ UNCHANGED storeVars
    <2>1. /\ pc' = [pc EXCEPT ![h] = "done"] /\ got' = [got EXCEPT ![h] = got[h]]
          /\ candidates' = [candidates EXCEPT ![h] = {}]
      BY <1>3 DEF Answer
    <2>2. Moves(h)
      BY <1>1, <2>1 DEF Moves, Ends, TypeOK
    <2>3. \A g \in Handler \ {h} : Still(g)
      BY <1>1, <2>1 DEF Still, TypeOK
    <2>4. Shrinks
      BY <1>1, <1>3, StoreKept
    <2>. QED BY <2>2, <2>3, <2>4 DEF Steps, Moves
  <1>4. ASSUME NEW key \in Key, NEW resume \in PC, AwaitGet(h, key, resume),
               UNCHANGED candidates
        PROVE  /\ Shrinks
               /\ \A g \in Handler \ {h} : Still(g)
               /\ \/ pc'[h] = resume /\ got'[h] = Live(key)
                  \/ pc'[h] = "done" /\ got'[h] = {}
    BY <1>1, <1>4, GetShrinks DEF Still, TypeOK
  <1>5. CASE ~Cached(h) /\ AwaitGet(h, CallKeyOf(h), "relookup") /\ UNCHANGED candidates
    <2>1. Moves(h)
      BY <1>1, <1>2, <1>4, <1>5 DEF Moves, RereadsCall, Ends, Cached
    <2>. QED BY <1>2, <1>4, <1>5, <2>1 DEF Steps, Moves
  <1>6. CASE ~Cached(h) /\ AwaitGet(h, AorKey(req[h].aor), "bindings") /\ UNCHANGED candidates
    <2>1. Moves(h)
      BY <1>1, <1>2, <1>4, <1>6 DEF Moves, ReadsBindings, Ends, Cached
    <2>. QED BY <1>2, <1>4, <1>6, <2>1 DEF Steps, Moves
  <1>. QED BY <1>2, <1>3, <1>5, <1>6 DEF ResumeLookup, q

(* The selection of a route from routes that were read.                    *)
LEMMA SelectSteps ==
  ASSUME TypeOK, NEW h \in Handler, req[h] \in FindRequest,
         pc[h] \in {"relookup", "bindings"}, got[h] \in SUBSET Route,
         NEW routes \in SUBSET got[h], now' = now, req' = req,
         SelectRoute(h, Received(req[h]), routes)
  PROVE  Steps
  <1> DEFINE q == Received(req[h])
  <1>1. /\ q.backend = req[h].backend
        /\ q.sessionAffinityRef = req[h].sessionAffinityRef
        /\ storeKeyWithLabels(q) = CallKeyOf(h)
        /\ CallKeyOf(h) \in Key /\ unlabelledKey(q) \in Key
    <2>1. q.backend = req[h].backend
      BY DEF Received, FindRequest
    <2>2. q \in FindRequest /\ q.sessionAffinityRef = req[h].sessionAffinityRef
      BY ReceivedType
    <2>3. storeKeyWithLabels(q) = CallKeyOf(h)
      BY DEF CallKeyOf
    <2>. HIDE DEF q
    <2>. QED BY <2>1, <2>2, <2>3, KeyType
  <1>. HIDE DEF q
  <1>2. ASSUME NEW key \in Key, NEW pick \in SUBSET routes, NEW result \in SUBSET routes,
               PutAndAnswer(h, key, pick, result),
               \/ key = CallKeyOf(h)
               \/ key = unlabelledKey(q) /\ ~req[h].backend
        PROVE  Steps
    <2>1. pick \in SUBSET Route /\ pick \subseteq got[h] /\ result \subseteq got[h]
      OBVIOUS
    <2>2. /\ Shrinks \/ StorePut(key, pick)
          /\ pc' = [pc EXCEPT ![h] = "done"]
          /\ \/ got' = [got EXCEPT ![h] = result]
             \/ got' = [got EXCEPT ![h] = {}]
          /\ candidates' = [candidates EXCEPT ![h] = {}]
      BY <1>2, <2>1, EndSteps
    <2>3. Moves(h)
      BY <2>1, <2>2 DEF Moves, Ends, TypeOK
    <2>4. \A g \in Handler \ {h} : Still(g)
      BY <2>2 DEF Still, TypeOK
    <2>5. StorePut(key, pick) => Writes(h, key, pick)
      BY <1>2, <2>1, <2>2 DEF Writes, q
    <2>. QED BY <2>1, <2>2, <2>3, <2>4, <2>5 DEF Steps, Moves
  <1>3. CASE ~q.backend /\ PutAndAnswer(h, unlabelledKey(q), At(routes, 0), routes)
    <2>1. At(routes, 0) \in SUBSET routes /\ routes \in SUBSET routes
      BY DEF At
    <2>. QED BY <1>1, <1>2, <1>3, <2>1
  <1>4. CASE /\ q.backend
             /\ q.sessionAffinityRef # NoRef
             /\ AwaitGet(h, RefKey(q.sessionAffinityRef), "affinity")
             /\ candidates' = [candidates EXCEPT ![h] = IF pc'[h] = "done" THEN {}
                                                        ELSE routes]
    <2> DEFINE key == RefKey(q.sessionAffinityRef)
    <2>1. key \in Key /\ "affinity" \in PC
      BY <1>1, <1>4, KeyType DEF FindRequest, PC
    <2>. HIDE DEF key
    <2>2. /\ Shrinks
          /\ \/ pc' = [pc EXCEPT ![h] = "affinity"] /\ got' = [got EXCEPT ![h] = Live(key)]
             \/ pc' = [pc EXCEPT ![h] = "done"] /\ got' = [got EXCEPT ![h] = {}]
      BY <1>4, <2>1, GetShrinks DEF key
    <2>3. Moves(h)
      <3>1. CASE pc' = [pc EXCEPT ![h] = "affinity"] /\ got' = [got EXCEPT ![h] = Live(key)]
        <4>1. /\ pc'[h] = "affinity" /\ req'[h] = req[h] /\ got'[h] = Live(key)
              /\ candidates'[h] = routes
          BY <1>4, <3>1 DEF TypeOK
        <4>. QED BY <1>1, <1>4, <4>1 DEF Moves, ReadsAffinity, key
      <3>2. CASE pc' = [pc EXCEPT ![h] = "done"] /\ got' = [got EXCEPT ![h] = {}]
        BY <3>2 DEF Moves, Ends, TypeOK
      <3>. QED BY <2>2, <3>1, <3>2
    <2>4. \A g \in Handler \ {h} : Still(g)
      BY <1>4, <2>2 DEF Still, TypeOK
    <2>. QED BY <2>2, <2>3, <2>4 DEF Steps, Moves
  <1>5. CASE q.backend /\ Balance(h, q, routes)
    <2> DEFINE pick == IF q.balancingAlgorithm = "LEAST_SESSIONS" THEN LeastSessions(routes)
                       ELSE At(routes, rrCount[rrRef(q)])
    <2>1. pick \in SUBSET routes
      BY DEF At, LeastSessions
    <2>2. CASE Answer(h, {}) /\ UNCHANGED storeVars
      <3>1. /\ pc' = [pc EXCEPT ![h] = "done"] /\ got' = [got EXCEPT ![h] = {}]
            /\ candidates' = [candidates EXCEPT ![h] = {}]
        BY <2>2 DEF Answer
      <3>2. Moves(h)
        BY <3>1 DEF Moves, Ends, TypeOK
      <3>3. \A g \in Handler \ {h} : Still(g)
        BY <3>1 DEF Still, TypeOK
      <3>. QED BY <2>2, <3>2, <3>3, StoreKept DEF Steps, Moves
    <2>3. CASE PutAndAnswer(h, storeKeyWithLabels(q), pick, pick)
      <3>. HIDE DEF pick
      <3>. QED BY <1>1, <1>2, <2>1, <2>3
    <2>. QED BY <1>5, <2>2, <2>3 DEF Balance
  <1>. QED BY <1>3, <1>4, <1>5 DEF SelectRoute, q

LEMMA ResumeRelookupSteps ==
  ASSUME TypeOK, NEW h \in Handler, ResumeRelookup(h) \/ ResumeBindings(h)
  PROVE  Steps
  <1> DEFINE q == Received(req[h])
  <1>1. /\ pc[h] \in {"relookup", "bindings"} /\ req[h] \in FindRequest
        /\ now' = now /\ req' = req /\ got[h] \in SUBSET Route
    BY DEF ResumeRelookup, ResumeBindings, TypeOK, Finding, FindPC
  <1>2. q.aor = req[h].aor /\ AorKey(req[h].aor) \in Key /\ "bindings" \in PC
    BY <1>1, ReceivedType, KeyType DEF FindRequest, PC
  <1>. HIDE DEF q
  <1>3. ASSUME NEW routes \in SUBSET got[h], SelectRoute(h, q, routes)
        PROVE  Steps
    BY <1>1, <1>3, SelectSteps DEF q
  <1>4. CASE /\ pc[h] = "relookup" /\ got[h] = {}
             /\ AwaitGet(h, AorKey(req[h].aor), "bindings") /\ UNCHANGED candidates
    <2>1. /\ Shrinks
          /\ \A g \in Handler \ {h} : Still(g)
          /\ \/ pc'[h] = "bindings" /\ got'[h] = Live(AorKey(req[h].aor))
             \/ pc'[h] = "done" /\ got'[h] = {}
      BY <1>1, <1>2, <1>4, GetShrinks DEF Still, TypeOK
    <2>2. Moves(h)
      BY <1>1, <1>4, <2>1 DEF Moves, ReadsBindings, Ends
    <2>. QED BY <2>1, <2>2 DEF Steps, Moves
  <1>5. CASE ResumeRelookup(h)
    BY <1>2, <1>3, <1>4, <1>5 DEF ResumeRelookup, Cached, q
  <1>6. CASE ResumeBindings(h)
    <2>1. MatchingLabels(got[h], q.labels) \in SUBSET got[h] /\ got[h] \in SUBSET got[h]
      BY DEF MatchingLabels
    <2>. QED BY <1>3, <1>6, <2>1 DEF ResumeBindings, q
  <1>. QED BY <1>5, <1>6

LEMMA ResumeAffinitySteps ==
  ASSUME TypeOK, NEW h \in Handler, ResumeAffinity(h)
  PROVE  Steps
  <1> DEFINE key == RefKey(req[h].sessionAffinityRef)
             pick == AffinityPick(h)
  <1>1. /\ pc[h] = "affinity" /\ now' = now /\ req' = req /\ key \in Key
        /\ got[h] \in SUBSET Route /\ candidates[h] \in SUBSET Route
    BY KeyType DEF ResumeAffinity, TypeOK, Finding, FindPC, FindRequest
  <1>2. /\ pick \subseteq got[h] \cup candidates[h]
        /\ AffinityUnset(h) => got[h] = {} /\ pick \subseteq candidates[h]
        /\ pick \in SUBSET Route
    BY <1>1 DEF AffinityPick, AffinityUnset, At, LeastSessions
  <1>. HIDE DEF pick, key
  <1>3. CASE Throw(h, "TypeError") /\ UNCHANGED storeVars
    <2>1. /\ pc' = [pc EXCEPT ![h] = "done"] /\ got' = [got EXCEPT ![h] = {}]
          /\ candidates' = [candidates EXCEPT ![h] = {}]
      BY <1>3 DEF Throw
    <2>2. Moves(h)
      BY <2>1 DEF Moves, Ends, TypeOK
    <2>3. \A g \in Handler \ {h} : Still(g)
      BY <1>1, <2>1 DEF Still, TypeOK
    <2>. QED BY <1>1, <1>3, <2>2, <2>3, StoreKept DEF Steps, Moves
  <1>4. CASE /\ IF AffinityUnset(h) THEN StorePut(key, pick) ELSE UNCHANGED storeVars
             /\ pc' = [pc EXCEPT ![h] = "picked"]
             /\ got' = [got EXCEPT ![h] = {}]
             /\ candidates' = [candidates EXCEPT ![h] = pick]
    <2>1. Moves(h)
      BY <1>1, <1>2, <1>4 DEF Moves, Picks, TypeOK
    <2>2. \A g \in Handler \ {h} : Still(g)
      BY <1>1, <1>4 DEF Still, TypeOK
    <2>3. CASE AffinityUnset(h)
      <3>1. Writes(h, key, pick)
        BY <1>1, <1>2, <1>4, <2>3 DEF Writes, key
      <3>. QED BY <1>1, <1>2, <2>1, <2>2, <3>1 DEF Steps, Moves
    <2>4. CASE ~AffinityUnset(h)
      BY <1>1, <1>4, <2>1, <2>2, <2>4, StoreKept DEF Steps, Moves
    <2>. QED BY <2>3, <2>4
  <1>. QED BY <1>3, <1>4 DEF ResumeAffinity, pick, key

LEMMA ResumePickedSteps ==
  ASSUME TypeOK, NEW h \in Handler, ResumePicked(h)
  PROVE  Steps
  <1> DEFINE pick == candidates[h]
  <1>1. /\ pc[h] = "picked" /\ now' = now /\ req' = req
        /\ pick \in SUBSET Route /\ CallKeyOf(h) \in Key
    BY ReceivedType, KeyType
       DEF ResumePicked, TypeOK, Finding, FindPC, CallKeyOf
  <1>. HIDE DEF pick
  <1>2. CASE Answer(h, {}) /\ UNCHANGED storeVars
    <2>1. /\ pc' = [pc EXCEPT ![h] = "done"] /\ got' = [got EXCEPT ![h] = {}]
          /\ candidates' = [candidates EXCEPT ![h] = {}]
      BY <1>2 DEF Answer
    <2>2. Moves(h)
      BY <2>1 DEF Moves, Ends, TypeOK
    <2>3. \A g \in Handler \ {h} : Still(g)
      BY <1>1, <2>1 DEF Still, TypeOK
    <2>. QED BY <1>1, <1>2, <2>2, <2>3, StoreKept DEF Steps, Moves
  <1>3. CASE PutAndAnswer(h, CallKeyOf(h), pick, pick)
    <2>1. /\ Shrinks \/ StorePut(CallKeyOf(h), pick)
          /\ pc' = [pc EXCEPT ![h] = "done"]
          /\ \/ got' = [got EXCEPT ![h] = pick]
             \/ got' = [got EXCEPT ![h] = {}]
          /\ candidates' = [candidates EXCEPT ![h] = {}]
      BY <1>1, <1>3, EndSteps
    <2>2. Moves(h)
      BY <1>1, <2>1 DEF Moves, Ends, TypeOK, pick
    <2>3. \A g \in Handler \ {h} : Still(g)
      BY <1>1, <2>1 DEF Still, TypeOK
    <2>4. StorePut(CallKeyOf(h), pick) => Writes(h, CallKeyOf(h), pick)
      BY <1>1, <2>1 DEF Writes, pick
    <2>. QED BY <1>1, <2>1, <2>2, <2>3, <2>4 DEF Steps, Moves
  <1>. QED BY <1>2, <1>3 DEF ResumePicked, CallKeyOf, pick

LEMMA OtherSteps ==
  ASSUME TypeOK,
         \/ \E h \in Handler : Callback(h)
         \/ \E a \in Aor : RemoveRoutes(a)
         \/ Tick
         \/ UNCHANGED vars
  PROVE  Steps
  <1>1. ASSUME NEW h \in Handler, Callback(h)
        PROVE  Steps
    <2>1. Shrinks
      BY <1>1 DEF Callback, Shrinks, TypeOK
    <2>2. Moves(h)
      BY <1>1 DEF Callback, Moves, TypeOK
    <2>3. \A g \in Handler \ {h} : Still(g)
      BY <1>1 DEF Callback, Still, TypeOK
    <2>. QED BY <2>1, <2>2, <2>3 DEF Steps, Moves
  <1>2. ASSUME NEW a \in Aor, RemoveRoutes(a)
        PROVE  Steps
    <2>1. Shrinks
      BY <1>2, KeyType DEF RemoveRoutes, Shrinks, TypeOK
    <2>2. \A g \in Handler : Still(g)
      BY <1>2 DEF RemoveRoutes, Still
    <2>. QED BY <2>1, <2>2 DEF Steps, Moves
  <1>3. CASE Tick \/ UNCHANGED vars
    <2>1. Shrinks
      BY <1>3 DEF Tick, vars, Shrinks, TypeOK
    <2>2. \A g \in Handler : Still(g)
      BY <1>3 DEF Tick, vars, Still
    <2>. QED BY <2>1, <2>2 DEF Steps, Moves
  <1>. QED BY <1>1, <1>2, <1>3

(* Every step of the service is of one of these forms.                     *)
LEMMA NextSteps == ConstantsAssumption /\ TypeOK /\ [Next]_vars => Steps
  <1> SUFFICES ASSUME ConstantsAssumption, TypeOK, [Next]_vars
               PROVE  Steps
    OBVIOUS
  <1>1. ASSUME NEW h \in Handler, NEW c \in Contact, NEW e \in Expires,
               AddRoute(h, c, e)
        PROVE  Steps
    BY <1>1, AddRouteSteps
  <1>2. ASSUME NEW h \in Handler, NEW q \in FindRequests, FindRoutes(h, q)
        PROVE  Steps
    BY <1>2, FindRoutesSteps DEF ConstantsAssumption, Lookups
  <1>3. ASSUME NEW h \in Handler, NEW a \in Aor, RemoveRoutesRpc(h, a)
        PROVE  Steps
    <2>1. RemoveRoutesRequest(a) \in FindRequest /\ RemoveRoutesRequest(a) \in Lookups
      BY DEF RemoveRoutesRequest, FindRequest, Lookups
    <2>. QED BY <1>3, <2>1, FindRoutesSteps DEF RemoveRoutesRpc
  <1>4. ASSUME NEW h \in Handler, Step(h)
        PROVE  Steps
    BY <1>4, ResumeAddSteps, ResumeLookupSteps, ResumeRelookupSteps,
       ResumeAffinitySteps, ResumePickedSteps, OtherSteps DEF Step
  <1>5. CASE (\E a \in Aor : RemoveRoutes(a)) \/ Tick \/ UNCHANGED vars
    BY <1>5, OtherSteps
  <1>. QED BY <1>1, <1>2, <1>3, <1>4, <1>5 DEF Next

(* A write puts one route at the head of one array, or empties it.         *)
LEMMA WritesOne ==
  ASSUME TypeOK, NEW h \in Handler, NEW key \in Key, NEW pick \in SUBSET Route,
         Writes(h, key, pick)
  PROVE  /\ \A k \in Key \ {key} : collections'[k] = collections[k]
         /\ \/ collections'[key] = {}
            \/ \E r \in pick :
                 /\ collections'[key] = Put(collections[key], r, now)
                 /\ Addresses(Live(key))' \subseteq Addresses(Live(key)) \cup {r.addr}
  <1>1. /\ collections \in [Key -> SUBSET Route] /\ IsFiniteSet(collections[key])
        /\ now \in Int /\ now' = now
    BY DEF TypeOK, Writes
  <1>2. CASE collections' = [collections EXCEPT ![key] = {}]
    BY <1>1, <1>2
  <1>3. CASE \E r \in pick : collections' = [collections EXCEPT ![key] = Put(@, r, now)]
    <2>1. PICK r \in pick :
            collections' = [collections EXCEPT ![key] = Put(@, r, now)]
      BY <1>3
    <2>2. /\ collections'[key] = Put(collections[key], r, now)
          /\ \A k \in Key \ {key} : collections'[k] = collections[k]
      BY <1>1, <2>1
    <2>3. r \in Route
      OBVIOUS
    <2>4. Addresses(Put(collections[key], r, now))
            \subseteq Addresses(Unexpired(collections[key], now)) \cup {r.addr}
      BY <1>1, <2>3, PutType
    <2>5. Live(key)' \subseteq Put(collections[key], r, now)
      BY <2>2 DEF Live, Unexpired
    <2>6. Addresses(Live(key))' \subseteq Addresses(Live(key)) \cup {r.addr}
      BY <2>4, <2>5 DEF Live, Addresses
    <2>. QED BY <2>2, <2>6
  <1>. QED BY <1>2, <1>3 DEF Writes, StorePut

LEMMA ShrinksLive ==
  ASSUME TypeOK, Shrinks, NEW k \in Key
  PROVE  Live(k)' \subseteq Live(k) /\ Addresses(Live(k))' \subseteq Addresses(Live(k))
  <1>1. collections[k] \in SUBSET Route /\ now \in Int /\ now' \in Int /\ now' >= now
    BY DEF TypeOK, Shrinks
  <1>2. \A r \in collections[k] : r.deadline \in Int
    BY <1>1 DEF Route
  <1>3. Live(k)' \subseteq Live(k)
    BY <1>1, <1>2 DEF Shrinks, Live, Unexpired, expiredFilter
  <1>. QED BY <1>3 DEF Addresses

-----------------------------------------------------------------------------
(* No array of the store ever lists a device twice, or two routes at one   *)
(* position, however registrations and lookups interleave and whatever     *)
(* expires in between.                                                     *)
THEOREM DevicesDistinct == Spec => []NoDuplicateContacts
  <1>1. Init => NoDuplicateContacts
    BY DEF Init, NoDuplicateContacts
  <1>2. ConstantsAssumption /\ TypeOK /\ NoDuplicateContacts /\ [Next]_vars
          => NoDuplicateContacts'
    <2> SUFFICES ASSUME ConstantsAssumption, TypeOK, NoDuplicateContacts, [Next]_vars
                 PROVE  NoDuplicateContacts'
      OBVIOUS
    <2>1. \A k \in Key : Distinct(collections[k])
      BY DEF NoDuplicateContacts, Distinct
    <2>2. ASSUME NEW k \in Key
          PROVE  Distinct(collections'[k])
      <3>1. CASE Shrinks
        BY <2>1, <3>1 DEF Shrinks, Distinct
      <3>2. ASSUME NEW h \in Handler, NEW key \in Key, NEW pick \in SUBSET Route,
                   Writes(h, key, pick)
            PROVE  Distinct(collections'[k])
        <4>1. CASE k # key \/ collections'[k] = {}
          BY <2>1, <3>2, <4>1, WritesOne DEF Distinct
        <4>2. CASE k = key /\ \E r \in pick : collections'[k] = Put(collections[k], r, now)
          <5>1. PICK r \in pick : collections'[k] = Put(collections[k], r, now)
            BY <4>2
          <5>2. /\ collections[k] \in SUBSET Route /\ IsFiniteSet(collections[k])
                /\ r \in Route /\ now \in Int
            BY DEF TypeOK
          <5>. QED BY <2>1, <5>1, <5>2, PutDistinct
        <4>. QED BY <3>2, <4>1, <4>2, WritesOne
      <3>. QED BY <3>1, <3>2, NextSteps DEF Steps
    <2>. QED BY <2>2 DEF NoDuplicateContacts, Distinct
  <1>3. ConstantsAssumption
    BY ConstantsAssumption
  <1>. QED BY <1>1, <1>2, <1>3, TypeCorrect, PTL DEF Spec

-----------------------------------------------------------------------------
(* The spread of a call, and of a conference.                              *)

(* A key, with the handlers that can still write it having found it empty. *)
Spread(key, writers) ==
  Cardinality(Addresses(Live(key))) + Cardinality(writers) <= Cardinality(Handler)

(* The lookups of a call that did not find a route cached for it.          *)
CallWriters(key) ==
  {h \in Handler : /\ Finding(h) /\ CallKeyOf(h) = key
                   /\ pc[h] = "lookup" => got[h] = {}}

(* The lookups of a conference that did not find a route for it.           *)
RefWriters(r) ==
  {h \in Handler : pc[h] = "affinity" /\ got[h] = {} /\ req[h].sessionAffinityRef = r}

(* The spread of a key does not grow in a step that takes from the key and *)
(* adds no writer, that leaves the key empty, or in which a writer writes. *)
LEMMA SpreadKept ==
  ASSUME ConstantsAssumption, NEW A, NEW B, NEW V \in SUBSET Handler,
         NEW W \in SUBSET Handler, IsFiniteSet(A),
         Cardinality(A) + Cardinality(V) <= Cardinality(Handler),
         \/ B \subseteq A /\ W \subseteq V
         \/ B = {}
         \/ \E h \in V : \E x : B \subseteq A \cup {x} /\ W \subseteq V \ {h}
  PROVE  Cardinality(B) + Cardinality(W) <= Cardinality(Handler)
  <1>1. IsFiniteSet(Handler)
    BY DEF ConstantsAssumption
  <1>2. /\ IsFiniteSet(V) /\ IsFiniteSet(W) /\ Cardinality(W) <= Cardinality(Handler)
        /\ Cardinality(V) \in Nat /\ Cardinality(W) \in Nat
        /\ Cardinality(A) \in Nat /\ Cardinality(Handler) \in Nat
    <2>1. IsFiniteSet(V)
      BY <1>1, FS_Subset
    <2>2. IsFiniteSet(W) /\ Cardinality(W) <= Cardinality(Handler)
      BY <1>1, FS_Subset
    <2>. QED BY <1>1, <2>1, <2>2, FS_CardinalityType
  <1>3. CASE B \subseteq A /\ W \subseteq V
    <2>1. Cardinality(B) <= Cardinality(A) /\ Cardinality(W) <= Cardinality(V)
          /\ IsFiniteSet(B)
      BY <1>2, <1>3, FS_Subset
    <2>. QED BY <1>2, <2>1, FS_CardinalityType
  <1>4. CASE B = {}
    <2>1. Cardinality(B) = 0
      BY <1>4, FS_EmptySet
    <2>. QED BY <1>2, <2>1
  <1>5. ASSUME NEW h \in V, NEW x, B \subseteq A \cup {x}, W \subseteq V \ {h}
        PROVE  Cardinality(B) + Cardinality(W) <= Cardinality(Handler)
    <2>1. /\ IsFiniteSet(A \cup {x}) /\ Cardinality(A \cup {x}) <= Cardinality(A) + 1
      <3>1. /\ IsFiniteSet(A \cup {x})
            /\ Cardinality(A \cup {x}) = IF x \in A THEN Cardinality(A)
                                         ELSE Cardinality(A) + 1
        BY FS_AddElement
      <3>. QED BY <1>2, <3>1
    <2>2. /\ IsFiniteSet(V \ {h}) /\ Cardinality(V \ {h}) = Cardinality(V) - 1
      BY <1>2, FS_RemoveElement
    <2>3. IsFiniteSet(B) /\ Cardinality(B) <= Cardinality(A \cup {x})
      BY <1>5, <2>1, FS_Subset
    <2>4. Cardinality(W) <= Cardinality(V \ {h})
      BY <1>5, <2>2, FS_Subset
    <2>5. Cardinality(B) \in Nat /\ Cardinality(A \cup {x}) \in Nat
      BY <2>1, <2>3, FS_CardinalityType
    <2>. QED BY <1>2, <2>1, <2>2, <2>3, <2>4, <2>5
  <1>. QED BY <1>3, <1>4, <1>5

(* At the start nothing is spread.                                         *)
LEMMA SpreadInit ==
  ASSUME ConstantsAssumption, Init, NEW key \in Key, NEW W, W = {}
  PROVE  Spread(key, W)
  <1>1. Addresses(Live(key)) = {}
    BY DEF Init, Live, Unexpired, Addresses
  <1>2. Cardinality(Handler) \in Nat
    BY FS_CardinalityType DEF ConstantsAssumption
  <1>. QED BY <1>1, <1>2, FS_EmptySet DEF Spread

(* The spread bounds the addresses of the key.                             *)
LEMMA SpreadBounds ==
  ASSUME ConstantsAssumption, TypeOK, NEW key \in Key, NEW W \in SUBSET Handler,
         Spread(key, W)
  PROVE  Cardinality(Addresses(Live(key))) <= Cardinality(Handler)
  <1>1. collections[key] \in SUBSET Route /\ IsFiniteSet(collections[key])
    BY DEF TypeOK
  <1>2. IsFiniteSet(Live(key)) /\ Live(key) \in SUBSET Route
    BY <1>1, FS_Subset DEF Live, Unexpired
  <1>3. IsFiniteSet(Addresses(Live(key)))
    BY <1>2, AddressesFinite
  <1>4. IsFiniteSet(W)
    BY FS_Subset DEF ConstantsAssumption
  <1>5. /\ Cardinality(Addresses(Live(key))) \in Nat
        /\ Cardinality(W) \in Nat /\ Cardinality(Handler) \in Nat
    BY <1>3, <1>4, FS_CardinalityType DEF ConstantsAssumption
  <1>. QED BY <1>5 DEF Spread

RefSpread == \A r \in Ref : Spread(RefKey(r), RefWriters(r))

LEMMA RefSpreadStep ==
  ASSUME ConstantsAssumption, TypeOK, RefSpread, Steps, NEW r \in Ref
  PROVE  Spread(RefKey(r), RefWriters(r))'
  <1> DEFINE A == Addresses(Live(RefKey(r)))
             B == Addresses(Live(RefKey(r)))'
             V == RefWriters(r)
             W == RefWriters(r)'
  <1>1. /\ RefKey(r) \in Key /\ collections[RefKey(r)] \in SUBSET Route
        /\ IsFiniteSet(collections[RefKey(r)])
    BY KeyType DEF TypeOK
  <1>2. IsFiniteSet(Live(RefKey(r))) /\ Live(RefKey(r)) \in SUBSET Route
    BY <1>1, FS_Subset DEF Live, Unexpired
  <1>3. IsFiniteSet(A)
    BY <1>2, AddressesFinite
  <1>4. /\ V \in SUBSET Handler /\ W \in SUBSET Handler
        /\ Cardinality(A) + Cardinality(V) <= Cardinality(Handler)
    BY DEF RefSpread, Spread, RefWriters
  <1>5. \A g \in Handler :
          /\ (g \in V) <=> /\ pc[g] = "affinity" /\ got[g] = {}
                          /\ req[g].sessionAffinityRef = r
          /\ (g \in W) <=> /\ pc'[g] = "affinity" /\ got'[g] = {}
                          /\ req'[g].sessionAffinityRef = r
    BY DEF RefWriters
  <1>6. ASSUME NEW g \in W, g \notin V
        PROVE  Live(RefKey(r)) = {} /\ pc[g] # "affinity"
    <2>1. /\ g \in Handler /\ pc'[g] = "affinity" /\ got'[g] = {}
          /\ req'[g].sessionAffinityRef = r
      BY <1>4, <1>5, <1>6
    <2>2. Moves(g)
      BY <2>1 DEF Steps
    <2>3. ~Still(g)
      BY <1>5, <1>6, <2>1 DEF Still
    <2>4. ReadsAffinity(g)
      BY <2>1, <2>2, <2>3 DEF Moves, Registers, ReadsCall, RereadsCall,
                              ReadsBindings, Picks, Ends
    <2>. QED BY <2>1, <2>4 DEF ReadsAffinity
  <1>7. CASE Shrinks
    <2>1. B \subseteq A
      BY <1>1, <1>7, ShrinksLive
    <2>2. Live(RefKey(r)) = {} => B = {}
      BY <2>1 DEF Addresses
    <2>3. W \subseteq V \/ B = {}
      BY <1>6, <2>2
    <2>. HIDE DEF A, B, V, W
    <2>4. Cardinality(B) + Cardinality(W) <= Cardinality(Handler)
      BY <1>3, <1>4, <2>1, <2>3, SpreadKept
    <2>. QED BY <2>4 DEF Spread, B, W
  <1>8. ASSUME NEW h \in Handler, NEW key \in Key, NEW pick \in SUBSET Route,
               Writes(h, key, pick)
        PROVE  Spread(RefKey(r), RefWriters(r))'
    <2>1. /\ pc'[h] # "affinity"
          /\ \A g \in Handler \ {h} : pc'[g] = pc[g]
      BY <1>8 DEF Writes, TypeOK
    <2>2. W \subseteq V \ {h}
      BY <1>4, <1>5, <1>6, <2>1
    <2>3. key = RefKey(r) => h \in V
      <3>1. \A q : RefKey(r) # storeKeyWithLabels(q) /\ RefKey(r) # unlabelledKey(q)
        BY DEF RefKey, storeKeyWithLabels, unlabelledKey, CallKey
      <3>2. \A a : RefKey(r) # AorKey(a)
        BY DEF RefKey, AorKey
      <3>3. key = RefKey(r) =>
              /\ pc[h] = "affinity" /\ got[h] = {}
              /\ RefKey(req[h].sessionAffinityRef) = RefKey(r)
        BY <1>8, <3>1, <3>2 DEF Writes, CallKeyOf
      <3>. QED BY <1>5, <3>3 DEF RefKey
    <2>4. \/ B \subseteq A
          \/ B = {}
          \/ h \in V /\ \E x : B \subseteq A \cup {x}
      <3>1. CASE key # RefKey(r)
        <4>1. collections'[RefKey(r)] = collections[RefKey(r)] /\ now' = now
          <5>1. now' = now
            BY <1>8 DEF Writes
          <5>. QED BY <1>1, <1>8, <3>1, <5>1, WritesOne
        <4>2. Live(RefKey(r))' = Live(RefKey(r))
          BY <4>1 DEF Live, Unexpired
        <4>. QED BY <4>2 DEF Addresses
      <3>2. CASE key = RefKey(r)
        <4>1. CASE collections'[key] = {}
          BY <3>2, <4>1 DEF Live, Unexpired, Addresses
        <4>2. CASE \E x \in pick : B \subseteq A \cup {x.addr}
          BY <2>3, <3>2, <4>2
        <4>. QED BY <1>8, <3>2, <4>1, <4>2, WritesOne
      <3>. QED BY <3>1, <3>2
    <2>. HIDE DEF A, B, V, W
    <2>5. Cardinality(B) + Cardinality(W) <= Cardinality(Handler)
      BY <1>3, <1>4, <2>2, <2>4, SpreadKept
    <2>. QED BY <2>5 DEF Spread, B, W
  <1>. QED BY <1>7, <1>8 DEF Steps

(* However the lookups of a conference interleave, it is spread over no    *)
(* more servers than the service has requests in progress.                 *)
THEOREM ConferenceBound == Spec => []AffinityFanoutBounded
  <1>1. ConstantsAssumption
    BY ConstantsAssumption
  <1>2. ConstantsAssumption /\ Init => RefSpread
    <2> SUFFICES ASSUME ConstantsAssumption, Init, NEW r \in Ref
                 PROVE  Spread(RefKey(r), RefWriters(r))
      BY DEF RefSpread
    <2>1. RefWriters(r) = {} /\ RefKey(r) \in Key
      BY KeyType DEF Init, RefWriters
    <2>. QED BY <2>1, SpreadInit
  <1>3. ConstantsAssumption /\ TypeOK /\ RefSpread /\ [Next]_vars => RefSpread'
    <2> SUFFICES ASSUME ConstantsAssumption, TypeOK, RefSpread, [Next]_vars
                 PROVE  RefSpread'
      OBVIOUS
    <2>1. Steps
      BY NextSteps
    <2>2. \A r \in Ref : Spread(RefKey(r), RefWriters(r))'
      BY <2>1, RefSpreadStep
    <2>. QED BY <2>2 DEF RefSpread
  <1>4. ConstantsAssumption /\ TypeOK /\ RefSpread => AffinityFanoutBounded
    <2> SUFFICES ASSUME ConstantsAssumption, TypeOK, RefSpread, NEW r \in Ref
                 PROVE  Cardinality(Addresses(Live(RefKey(r)))) <= Cardinality(Handler)
      BY DEF AffinityFanoutBounded
    <2>1. RefKey(r) \in Key /\ RefWriters(r) \in SUBSET Handler
      BY KeyType DEF RefWriters
    <2>. QED BY <2>1, SpreadBounds DEF RefSpread
  <1>. QED BY <1>1, <1>2, <1>3, <1>4, TypeCorrect, PTL DEF Spec

-----------------------------------------------------------------------------
(* The lookups in progress are those clients make.                         *)
LookupsOK == \A h \in Handler : Finding(h) => req[h] \in Lookups

LEMMA LookupsStep ==
  ASSUME LookupsOK, Steps
  PROVE  LookupsOK'
  <1> SUFFICES ASSUME NEW g \in Handler, Finding(g)'
               PROVE  req'[g] \in Lookups
    BY DEF LookupsOK, Lookups
  <1>1. pc'[g] \in FindPC /\ Moves(g)
    BY DEF Finding, Steps
  <1>2. CASE ReadsCall(g)
    BY <1>2 DEF ReadsCall
  <1>3. CASE \/ Still(g) \/ RereadsCall(g) \/ ReadsBindings(g)
             \/ ReadsAffinity(g) \/ Picks(g)
    BY <1>1, <1>3 DEF Still, RereadsCall, ReadsBindings, ReadsAffinity, Picks,
                      LookupsOK, Finding, FindPC
  <1>. QED BY <1>1, <1>2, <1>3 DEF Moves, Registers, Ends, FindPC

CallSpread == \A k \in ReadFirstKeys : Spread(k, CallWriters(k))

(* A lookup that writes such a key is one of the writers of the key.       *)
LEMMA WriterOfKey ==
  ASSUME TypeOK, LookupsOK, NEW h \in Handler, NEW key \in ReadFirstKeys,
         NEW pick, Writes(h, key, pick)
  PROVE  h \in CallWriters(key) /\ pc'[h] = "done"
  <1>1. key # RefKey(req[h].sessionAffinityRef) /\ key # AorKey(req[h].aor)
    BY DEF ReadFirstKeys, CallKeys, CallKey, RefKey, AorKey
  <1>2. pc[h] \in {"relookup", "bindings", "picked"} /\ pc'[h] = "done"
    BY <1>1 DEF Writes, TypeOK
  <1>3. Finding(h) /\ req[h] \in FindRequest /\ req[h] \in Lookups
    BY <1>2 DEF Finding, FindPC, TypeOK, LookupsOK
  <1>4. CallKeyOf(h) = key
    <2>1. CASE key = unlabelledKey(Received(req[h])) /\ ~req[h].backend
      <3>1. Received(req[h]).labels = {}
        <4>1. CASE req[h] \in FindRequests
          BY <2>1, <4>1 DEF ReadFirstKeys, WritesWhatItReads
        <4>2. CASE req[h] \in {RemoveRoutesRequest(b) : b \in Aor}
          BY <4>2 DEF RemoveRoutesRequest, Received
        <4>. QED BY <1>3, <4>1, <4>2 DEF Lookups
      <3>. QED BY <2>1, <3>1 DEF CallKeyOf, storeKeyWithLabels, unlabelledKey
    <2>2. CASE key = CallKeyOf(h)
      BY <2>2
    <2>. QED BY <1>1, <1>2, <2>1, <2>2 DEF Writes
  <1>. QED BY <1>2, <1>3, <1>4 DEF CallWriters

(* A handler becomes a writer of a key only by finding the key empty.      *)
LEMMA NewWriter ==
  ASSUME Steps, NEW key, NEW g \in CallWriters(key)', g \notin CallWriters(key)
  PROVE  Live(key) = {} /\ ReadsCall(g)
  <1>1. /\ g \in Handler /\ pc'[g] \in FindPC /\ CallKeyOf(g)' = key
        /\ pc'[g] = "lookup" => got'[g] = {}
    BY DEF CallWriters, Finding
  <1>2. \/ pc[g] \notin FindPC \/ CallKeyOf(g) # key
        \/ pc[g] = "lookup" /\ got[g] # {}
    BY <1>1 DEF CallWriters, Finding
  <1>3. req'[g] = req[g] => CallKeyOf(g)' = CallKeyOf(g)
    BY DEF CallKeyOf
  <1>4. Moves(g)
    BY <1>1 DEF Steps
  <1>5. ReadsCall(g)
    BY <1>1, <1>2, <1>3, <1>4
       DEF Moves, Still, Registers, RereadsCall, ReadsBindings, ReadsAffinity,
           Picks, Ends, FindPC
  <1>. QED BY <1>1, <1>5 DEF ReadsCall

LEMMA CallSpreadStep ==
  ASSUME ConstantsAssumption, TypeOK, LookupsOK, Steps, CallSpread,
         NEW k \in ReadFirstKeys
  PROVE  Spread(k, CallWriters(k))'
  <1> DEFINE A == Addresses(Live(k))
             B == Addresses(Live(k))'
             V == CallWriters(k)
             W == CallWriters(k)'
  <1>1. /\ k \in Key /\ collections[k] \in SUBSET Route
        /\ IsFiniteSet(collections[k])
    BY DEF TypeOK, Key, ReadFirstKeys
  <1>2. IsFiniteSet(Live(k)) /\ Live(k) \in SUBSET Route
    BY <1>1, FS_Subset DEF Live, Unexpired
  <1>3. IsFiniteSet(A)
    BY <1>2, AddressesFinite
  <1>4. /\ V \in SUBSET Handler /\ W \in SUBSET Handler
        /\ Cardinality(A) + Cardinality(V) <= Cardinality(Handler)
    BY DEF CallSpread, Spread, CallWriters
  <1>5. CASE Shrinks
    <2>1. B \subseteq A
      BY <1>1, <1>5, ShrinksLive
    <2>2. Live(k) = {} => B = {}
      BY <2>1 DEF Addresses
    <2>3. W \subseteq V \/ B = {}
      BY <2>2, NewWriter
    <2>. HIDE DEF A, B, V, W
    <2>4. Cardinality(B) + Cardinality(W) <= Cardinality(Handler)
      BY <1>3, <1>4, <2>1, <2>3, SpreadKept
    <2>. QED BY <2>4 DEF Spread, B, W
  <1>6. ASSUME NEW h \in Handler, NEW key \in Key, NEW pick \in SUBSET Route,
               Writes(h, key, pick)
        PROVE  Spread(k, CallWriters(k))'
    <2>1. /\ pc'[h] \in {"picked", "done"} /\ now' = now
          /\ \A g \in Handler \ {h} : pc'[g] = pc[g]
      BY <1>6 DEF Writes, TypeOK
    <2>2. W \subseteq V
      <3> SUFFICES ASSUME NEW g \in W, g \notin V
                   PROVE  FALSE
        OBVIOUS
      <3>1. g \in Handler /\ ReadsCall(g)
        BY <1>4, NewWriter
      <3>. QED BY <2>1, <3>1 DEF ReadsCall
    <2>3. CASE key # k
      <3>1. collections'[k] = collections[k]
        BY <1>1, <1>6, <2>3, WritesOne
      <3>2. Live(k)' = Live(k)
        BY <2>1, <3>1 DEF Live, Unexpired
      <3>3. B \subseteq A
        BY <3>2 DEF Addresses
      <3>. HIDE DEF A, B, V, W
      <3>4. Cardinality(B) + Cardinality(W) <= Cardinality(Handler)
        BY <1>3, <1>4, <2>2, <3>3, SpreadKept
      <3>. QED BY <3>4 DEF Spread, B, W
    <2>4. CASE key = k
      <3>1. h \in V /\ pc'[h] = "done"
        BY <1>6, <2>4, WriterOfKey
      <3>2. h \notin W
        BY <3>1 DEF CallWriters, Finding, FindPC
      <3>3. \/ B = {}
            \/ \E x : B \subseteq A \cup {x}
        <4>1. CASE collections'[k] = {}
          BY <4>1 DEF Live, Unexpired, Addresses
        <4>2. CASE \E x \in pick : B \subseteq A \cup {x.addr}
          BY <4>2
        <4>. QED BY <1>6, <2>4, <4>1, <4>2, WritesOne
      <3>. HIDE DEF A, B, V, W
      <3>4. W \subseteq V \ {h}
        BY <2>2, <3>2
      <3>5. Cardinality(B) + Cardinality(W) <= Cardinality(Handler)
        BY <1>3, <1>4, <3>1, <3>3, <3>4, SpreadKept
      <3>. QED BY <3>5 DEF Spread, B, W
    <2>. QED BY <2>3, <2>4
  <1>. QED BY <1>5, <1>6 DEF Steps

(* However the lookups of a call interleave, it holds no more targets than *)
(* the service has requests in progress, unless one of its lookups writes  *)
(* the key without having read it.                                         *)
THEOREM CallBound == Spec => []CallFanoutBounded
  <1>1. ConstantsAssumption
    BY ConstantsAssumption
  <1>2. \A k \in ReadFirstKeys : k \in Key /\ CallWriters(k) \in SUBSET Handler
    BY DEF Key, ReadFirstKeys, CallWriters
  <1>3. ConstantsAssumption /\ Init => LookupsOK /\ CallSpread
    <2> SUFFICES ASSUME ConstantsAssumption, Init
                 PROVE  LookupsOK /\ CallSpread
      OBVIOUS
    <2>1. \A h \in Handler : ~Finding(h)
      BY DEF Init, Finding, FindPC
    <2>2. \A key : CallWriters(key) = {}
      BY <2>1 DEF CallWriters
    <2>. QED BY <1>2, <2>1, <2>2, SpreadInit DEF LookupsOK, CallSpread
  <1>4. ConstantsAssumption /\ TypeOK /\ LookupsOK /\ CallSpread /\ [Next]_vars
          => LookupsOK' /\ CallSpread'
    <2> SUFFICES ASSUME ConstantsAssumption, TypeOK, LookupsOK, CallSpread, [Next]_vars
                 PROVE  LookupsOK' /\ CallSpread'
      OBVIOUS
    <2>1. Steps
      BY NextSteps
    <2>2. LookupsOK'
      BY <2>1, LookupsStep
    <2>3. \A k \in ReadFirstKeys : Spread(k, CallWriters(k))'
      BY <2>1, CallSpreadStep
    <2>4. ReadFirstKeys' = ReadFirstKeys
      BY DEF ReadFirstKeys, CallKeys, CallKey, unlabelledKey, Received, WritesWhatItReads
    <2>5. CallSpread'
      BY <2>3, <2>4 DEF CallSpread
    <2>. QED BY <2>2, <2>5
  <1>5. ConstantsAssumption /\ TypeOK /\ CallSpread => CallFanoutBounded
    BY <1>2, SpreadBounds DEF CallFanoutBounded, CallSpread
  <1>. QED BY <1>1, <1>3, <1>4, <1>5, TypeCorrect, PTL DEF Spec

-----------------------------------------------------------------------------
(* Whose contacts a lookup returns.                                        *)

Group(a) == UNION {ContactsOf(b) : b \in Together[a]}

LEMMA GroupOwn ==
  ASSUME NEW a \in Aor
  PROVE  ContactsOf(a) \subseteq Group(a)
  <1>1. a \in Together[a]
    BY DEF Together
  <1>. QED BY <1>1 DEF Group

(* Lookups with one reference are of AORs with the same group.             *)
LEMMA GroupShared ==
  ASSUME ConstantsAssumption, NEW q1 \in FindRequests, NEW q2 \in FindRequests,
         q1.sessionAffinityRef = q2.sessionAffinityRef, q1.sessionAffinityRef # NoRef
  PROVE  Group(q1.aor) \subseteq Group(q2.aor)
  <1>1. q1.aor \in Aor /\ q2.aor \in Aor
    BY DEF ConstantsAssumption, FindRequest
  <1>2. q1.aor \in SharesRef[q2.aor]
    BY <1>1 DEF SharesRef
  <1>3. ASSUME NEW b \in Together[q1.aor]
        PROVE  b \in Together[q2.aor]
    <2> SUFFICES ASSUME NEW S \in SUBSET Aor, q2.aor \in S,
                        \A d \in S : SharesRef[d] \subseteq S
                 PROVE  b \in S
      BY <1>1, <1>3 DEF Together
    <2>1. q1.aor \in S
      BY <1>2
    <2>. QED BY <1>1, <1>3, <2>1 DEF Together
  <1>. QED BY <1>1, <1>3 DEF Group

(* Every array holds contacts of the group its key belongs to, and every   *)
(* handler routes of the group it looks up.                                *)
StoreOwn ==
  /\ \A a \in Aor : Addresses(collections[AorKey(a)]) \subseteq ContactsOf(a)
  /\ \A a \in Aor, c \in CallId \cup {NoCall}, ls \in SUBSET Label :
       Addresses(collections[CallKey(a, c, ls)]) \subseteq Group(a)
  /\ \A q \in FindRequests : q.sessionAffinityRef # NoRef =>
       Addresses(collections[RefKey(q.sessionAffinityRef)]) \subseteq Group(q.aor)

HandlerOwn(h) ==
  /\ Adding(h) => req[h].route.addr \in ContactsOf(req[h].aor)
  /\ Finding(h) => Addresses(got[h]) \subseteq Group(req[h].aor)
  /\ pc[h] \in {"affinity", "picked"} => Addresses(candidates[h]) \subseteq Group(req[h].aor)
  /\ pc[h] = "affinity" => req[h] \in FindRequests
  /\ Found(h) => Addresses(got[h]) \subseteq Group(req[h].aor)

OwnInv == LookupsOK /\ StoreOwn /\ \A h \in Handler : HandlerOwn(h)

(* What a get returns belongs to the group of the request.                 *)
LEMMA LiveOwn ==
  ASSUME StoreOwn
  PROVE  /\ \A a \in Aor : Addresses(Live(AorKey(a))) \subseteq Group(a)
         /\ \A a \in Aor, c \in CallId \cup {NoCall}, ls \in SUBSET Label :
              Addresses(Live(CallKey(a, c, ls))) \subseteq Group(a)
         /\ \A q \in FindRequests : q.sessionAffinityRef # NoRef =>
              Addresses(Live(RefKey(q.sessionAffinityRef))) \subseteq Group(q.aor)
  <1>1. \A k : Addresses(Live(k)) \subseteq Addresses(collections[k])
    BY DEF Live, Unexpired, Addresses
  <1>. QED BY <1>1, GroupOwn DEF StoreOwn

LEMMA CallKeyForm ==
  ASSUME NEW q \in FindRequest
  PROVE  \E c \in CallId \cup {NoCall}, ls \in SUBSET Label :
           storeKeyWithLabels(Received(q)) = CallKey(q.aor, c, ls)
  <1>1. /\ Received(q) \in FindRequest /\ Received(q).aor = q.aor
    BY ReceivedType
  <1>2. Received(q).callId \in CallId \cup {NoCall} /\ Received(q).labels \in SUBSET Label
    BY <1>1 DEF FindRequest
  <1>. QED BY <1>1, <1>2 DEF storeKeyWithLabels

LEMMA UnlabelledKeyForm ==
  ASSUME NEW q \in FindRequest
  PROVE  \E c \in CallId \cup {NoCall}, ls \in SUBSET Label :
           unlabelledKey(Received(q)) = CallKey(q.aor, c, ls)
  <1>1. /\ Received(q) \in FindRequest /\ Received(q).aor = q.aor
    BY ReceivedType
  <1>2. Received(q).callId \in CallId \cup {NoCall} /\ {} \in SUBSET Label
    BY <1>1 DEF FindRequest
  <1>. QED BY <1>1, <1>2 DEF unlabelledKey

LEMMA LookupsTyped ==
  ASSUME ConstantsAssumption
  PROVE  /\ \A q \in Lookups : q \in FindRequest /\ q.aor \in Aor
         /\ \A q \in Lookups : q.backend => q \in FindRequests
  <1>1. \A a \in Aor : RemoveRoutesRequest(a) \in FindRequest /\ ~RemoveRoutesRequest(a).backend
    BY DEF RemoveRoutesRequest, FindRequest
  <1>2. \A q \in FindRequest : q.aor \in Aor
    BY DEF FindRequest
  <1>. QED BY <1>1, <1>2 DEF Lookups, ConstantsAssumption

LEMMA HandlerOwnStep ==
  ASSUME ConstantsAssumption, OwnInv, Steps, NEW g \in Handler
  PROVE  HandlerOwn(g)'
  <1>1. Moves(g) /\ HandlerOwn(g) /\ StoreOwn /\ (Finding(g) => req[g] \in Lookups)
    BY DEF Steps, OwnInv, LookupsOK
  <1>2. Finding(g) => /\ req[g] \in FindRequest /\ req[g].aor \in Aor
                      /\ req[g].backend => req[g] \in FindRequests
    BY <1>1, LookupsTyped
  <1>3. Addresses({}) = {}
    BY DEF Addresses
  <1>4. \A X, Y : X \subseteq Y => Addresses(X) \subseteq Addresses(Y)
    BY DEF Addresses
  <1>5. CASE Still(g)
    BY <1>1, <1>5 DEF Still, HandlerOwn, Adding, Finding, Found
  <1>6. CASE pc'[g] = "idle"
    BY <1>6 DEF HandlerOwn, Adding, Finding, FindPC, Found
  <1>7. CASE Registers(g)
    <2>1. PICK c \in Contact : req'[g].aor = c.aor /\ req'[g].route.addr = c.addr
      BY <1>7 DEF Registers
    <2>2. req'[g].route.addr \in ContactsOf(req'[g].aor)
      BY <2>1 DEF ContactsOf
    <2>. QED BY <1>7, <2>2 DEF Registers, HandlerOwn, Adding, Finding, FindPC, Found
  <1>8. CASE ReadsCall(g)
    <2>1. req'[g] \in FindRequest /\ req'[g].aor \in Aor
      BY <1>8, LookupsTyped DEF ReadsCall
    <2>2. PICK c \in CallId \cup {NoCall}, ls \in SUBSET Label :
            CallKeyOf(g)' = CallKey(req'[g].aor, c, ls)
      BY <2>1, CallKeyForm DEF CallKeyOf
    <2>3. Addresses(got'[g]) \subseteq Group(req'[g].aor)
      BY <1>1, <1>8, <2>1, <2>2, LiveOwn DEF ReadsCall
    <2>. QED BY <1>8, <2>3 DEF ReadsCall, HandlerOwn, Adding, Finding, FindPC, Found
  <1>9. CASE RereadsCall(g)
    <2>1. Finding(g)
      BY <1>9 DEF RereadsCall, Finding, FindPC
    <2>2. PICK c \in CallId \cup {NoCall}, ls \in SUBSET Label :
            CallKeyOf(g) = CallKey(req[g].aor, c, ls)
      BY <1>2, <2>1, CallKeyForm DEF CallKeyOf
    <2>3. Addresses(got'[g]) \subseteq Group(req'[g].aor)
      BY <1>1, <1>2, <1>9, <2>1, <2>2, LiveOwn DEF RereadsCall
    <2>. QED BY <1>9, <2>3 DEF RereadsCall, HandlerOwn, Adding, Finding, FindPC, Found
  <1>10. CASE ReadsBindings(g)
    <2>1. Finding(g)
      BY <1>10 DEF ReadsBindings, Finding, FindPC
    <2>2. Addresses(got'[g]) \subseteq Group(req'[g].aor)
      BY <1>1, <1>2, <1>10, <2>1, LiveOwn DEF ReadsBindings
    <2>. QED BY <1>10, <2>2 DEF ReadsBindings, HandlerOwn, Adding, Finding, FindPC, Found
  <1>11. CASE ReadsAffinity(g)
    <2>1. Finding(g)
      BY <1>11 DEF ReadsAffinity, Finding, FindPC
    <2>2. req[g] \in FindRequests /\ req[g].sessionAffinityRef # NoRef
      BY <1>2, <1>11, <2>1 DEF ReadsAffinity
    <2>3. Addresses(got'[g]) \subseteq Group(req'[g].aor)
      BY <1>1, <1>11, <2>2, LiveOwn DEF ReadsAffinity
    <2>4. Addresses(candidates'[g]) \subseteq Group(req'[g].aor)
      BY <1>1, <1>4, <1>11, <2>1 DEF ReadsAffinity, HandlerOwn
    <2>. QED BY <1>11, <2>2, <2>3, <2>4
         DEF ReadsAffinity, HandlerOwn, Adding, Finding, FindPC, Found
  <1>12. CASE Picks(g)
    <2>1. /\ Addresses(got[g]) \subseteq Group(req[g].aor)
          /\ Addresses(candidates[g]) \subseteq Group(req[g].aor)
      BY <1>1, <1>12 DEF Picks, HandlerOwn, Finding, FindPC
    <2>2. Addresses(candidates'[g]) \subseteq Addresses(got[g]) \cup Addresses(candidates[g])
      BY <1>12 DEF Picks, Addresses
    <2>3. got'[g] = {}
      BY <1>12 DEF Picks
    <2>. QED BY <1>3, <1>12, <2>1, <2>2, <2>3
         DEF Picks, HandlerOwn, Adding, Finding, FindPC, Found
  <1>13. CASE Ends(g)
    <2>1. CASE got'[g] = {}
      BY <1>3, <1>13, <2>1 DEF Ends, HandlerOwn, Adding, Finding, FindPC, Found
    <2>2. CASE /\ req'[g] = req[g]
               /\ pc[g] \in {"lookup", "relookup", "bindings"} /\ got'[g] \subseteq got[g]
      <3>1. Addresses(got'[g]) \subseteq Group(req'[g].aor)
        BY <1>1, <1>4, <2>2 DEF HandlerOwn, Finding, FindPC
      <3>. QED BY <1>13, <3>1 DEF Ends, HandlerOwn, Adding, Finding, FindPC, Found
    <2>3. CASE req'[g] = req[g] /\ pc[g] = "picked" /\ got'[g] \subseteq candidates[g]
      <3>1. Addresses(got'[g]) \subseteq Group(req'[g].aor)
        BY <1>1, <1>4, <2>3 DEF HandlerOwn
      <3>. QED BY <1>13, <3>1 DEF Ends, HandlerOwn, Adding, Finding, FindPC, Found
    <2>. QED BY <1>13, <2>1, <2>2, <2>3 DEF Ends
  <1>. QED BY <1>1, <1>5, <1>6, <1>7, <1>8, <1>9, <1>10, <1>11, <1>12, <1>13 DEF Moves

(* A write adds at most one address to an array.                           *)
LEMMA WritesAddresses ==
  ASSUME TypeOK, NEW h \in Handler, NEW key \in Key, NEW pick \in SUBSET Route,
         Writes(h, key, pick), NEW k \in Key
  PROVE  \/ Addresses(collections'[k]) \subseteq Addresses(collections[k])
         \/ k = key /\ Addresses(collections'[k])
                          \subseteq Addresses(collections[k]) \cup Addresses(pick)
  <1>1. CASE k # key \/ collections'[k] = {}
    BY <1>1, WritesOne DEF Addresses
  <1>2. CASE k = key /\ \E r \in pick : collections'[key] = Put(collections[key], r, now)
    <2>1. PICK r \in pick : collections'[key] = Put(collections[key], r, now)
      BY <1>2
    <2>2. /\ collections[key] \in SUBSET Route /\ IsFiniteSet(collections[key])
          /\ r \in Route /\ now \in Int
      BY DEF TypeOK
    <2>3. Addresses(collections'[key])
            \subseteq Addresses(Unexpired(collections[key], now)) \cup {r.addr}
      BY <2>1, <2>2, PutType
    <2>4. Addresses(Unexpired(collections[key], now)) \subseteq Addresses(collections[key])
      BY DEF Unexpired, Addresses
    <2>5. r.addr \in Addresses(pick)
      BY DEF Addresses
    <2>. QED BY <1>2, <2>3, <2>4, <2>5
  <1>. QED BY <1>1, <1>2, WritesOne

(* What is written under a key belongs to the group of the key.            *)
LEMMA WrittenOwn ==
  ASSUME ConstantsAssumption, TypeOK, OwnInv, NEW h \in Handler, NEW key,
         NEW pick, Writes(h, key, pick)
  PROVE  \/ \E a \in Aor : key = AorKey(a) /\ Addresses(pick) \subseteq ContactsOf(a)
         \/ \E a \in Aor, c \in CallId \cup {NoCall}, ls \in SUBSET Label :
              key = CallKey(a, c, ls) /\ Addresses(pick) \subseteq Group(a)
         \/ \E q \in FindRequests :
              /\ q.sessionAffinityRef # NoRef /\ key = RefKey(q.sessionAffinityRef)
              /\ Addresses(pick) \subseteq Group(q.aor)
  <1>1. HandlerOwn(h) /\ (Finding(h) => req[h] \in Lookups)
    BY DEF OwnInv, LookupsOK
  <1>2. \A X, Y : X \subseteq Y => Addresses(X) \subseteq Addresses(Y)
    BY DEF Addresses
  <1>3. CASE pc[h] = "add" /\ key = AorKey(req[h].aor) /\ pick = {req[h].route}
    <2>1. req[h].aor \in Aor
      BY <1>3 DEF TypeOK, Adding, AddRequest
    <2>2. Addresses(pick) = {req[h].route.addr}
      BY <1>3 DEF Addresses
    <2>. QED BY <1>1, <1>3, <2>1, <2>2 DEF HandlerOwn, Adding
  <1>4. ASSUME pc[h] \in {"relookup", "bindings", "picked"},
               Addresses(pick) \subseteq Group(req[h].aor),
               key = CallKeyOf(h) \/ key = unlabelledKey(Received(req[h]))
        PROVE  \E a \in Aor, c \in CallId \cup {NoCall}, ls \in SUBSET Label :
                 key = CallKey(a, c, ls) /\ Addresses(pick) \subseteq Group(a)
    <2>1. req[h] \in FindRequest /\ req[h].aor \in Aor
      BY <1>1, <1>4, LookupsTyped DEF Finding, FindPC
    <2>2. PICK c \in CallId \cup {NoCall}, ls \in SUBSET Label :
            key = CallKey(req[h].aor, c, ls)
      BY <1>4, <2>1, CallKeyForm, UnlabelledKeyForm DEF CallKeyOf
    <2>. QED BY <1>4, <2>1, <2>2
  <1>5. CASE /\ pc[h] \in {"relookup", "bindings"} /\ pick \subseteq got[h]
             /\ key = CallKeyOf(h) \/ key = unlabelledKey(Received(req[h]))
    <2>1. Addresses(pick) \subseteq Group(req[h].aor)
      BY <1>1, <1>2, <1>5 DEF HandlerOwn, Finding, FindPC
    <2>. QED BY <1>4, <1>5, <2>1
  <1>6. CASE /\ pc[h] = "affinity" /\ pick \subseteq candidates[h]
             /\ key = RefKey(req[h].sessionAffinityRef)
    <2>1. req[h] \in FindRequests /\ req[h].sessionAffinityRef # NoRef
      BY <1>1, <1>6 DEF HandlerOwn, TypeOK
    <2>2. Addresses(pick) \subseteq Group(req[h].aor)
      BY <1>1, <1>2, <1>6 DEF HandlerOwn
    <2>. QED BY <1>6, <2>1, <2>2
  <1>7. CASE pc[h] = "picked" /\ pick \subseteq candidates[h] /\ key = CallKeyOf(h)
    <2>1. Addresses(pick) \subseteq Group(req[h].aor)
      BY <1>1, <1>2, <1>7 DEF HandlerOwn
    <2>. QED BY <1>4, <1>7, <2>1
  <1>. QED BY <1>3, <1>5, <1>6, <1>7 DEF Writes

LEMMA StoreOwnStep ==
  ASSUME ConstantsAssumption, TypeOK, OwnInv, Steps
  PROVE  StoreOwn'
  <1>1. \A k \in Key : Shrinks => Addresses(collections'[k]) \subseteq Addresses(collections[k])
    BY DEF Shrinks, Addresses
  <1>2. StoreOwn
    BY DEF OwnInv
  <1>3. /\ \A a \in Aor : AorKey(a) \in Key
        /\ \A a \in Aor, c \in CallId \cup {NoCall}, ls \in SUBSET Label :
             CallKey(a, c, ls) \in Key
        /\ \A q \in FindRequests : q.sessionAffinityRef # NoRef =>
             RefKey(q.sessionAffinityRef) \in Key
    BY DEF ConstantsAssumption, FindRequest, Key, AorKeys, CallKeys, RefKeys
  <1>4. \A a : (ContactsOf(a)' = ContactsOf(a)) /\ (Group(a)' = Group(a))
    BY DEF ContactsOf, Group, Together, SharesRef
  <1>5. CASE Shrinks
    BY <1>1, <1>2, <1>3, <1>4, <1>5 DEF StoreOwn
  <1>6. ASSUME NEW h \in Handler, NEW key \in Key, NEW pick \in SUBSET Route,
               Writes(h, key, pick)
        PROVE  StoreOwn'
    <2>1. \A k \in Key :
            \/ Addresses(collections'[k]) \subseteq Addresses(collections[k])
            \/ k = key /\ Addresses(collections'[k])
                             \subseteq Addresses(collections[k]) \cup Addresses(pick)
      BY <1>6, WritesAddresses
    <2>2. ASSUME NEW a \in Aor
          PROVE  Addresses(collections'[AorKey(a)]) \subseteq ContactsOf(a)
      <3>1. AorKey(a) = key => Addresses(pick) \subseteq ContactsOf(a)
        BY <1>6, WrittenOwn DEF AorKey, CallKey, RefKey
      <3>. QED BY <1>2, <1>3, <2>1, <3>1 DEF StoreOwn
    <2>3. ASSUME NEW a \in Aor, NEW c \in CallId \cup {NoCall}, NEW ls \in SUBSET Label
          PROVE  Addresses(collections'[CallKey(a, c, ls)]) \subseteq Group(a)
      <3>1. CallKey(a, c, ls) = key => Addresses(pick) \subseteq Group(a)
        BY <1>6, WrittenOwn DEF AorKey, CallKey, RefKey
      <3>. QED BY <1>2, <1>3, <2>1, <3>1 DEF StoreOwn
    <2>4. ASSUME NEW q \in FindRequests, q.sessionAffinityRef # NoRef
          PROVE  Addresses(collections'[RefKey(q.sessionAffinityRef)]) \subseteq Group(q.aor)
      <3> DEFINE r == q.sessionAffinityRef
      <3>1. ASSUME RefKey(r) = key
            PROVE  Addresses(pick) \subseteq Group(q.aor)
        <4>1. PICK q1 \in FindRequests :
                /\ q1.sessionAffinityRef # NoRef /\ key = RefKey(q1.sessionAffinityRef)
                /\ Addresses(pick) \subseteq Group(q1.aor)
          BY <1>6, <3>1, WrittenOwn DEF AorKey, CallKey, RefKey
        <4>2. q1.sessionAffinityRef = r
          BY <3>1, <4>1 DEF RefKey
        <4>3. Group(q1.aor) \subseteq Group(q.aor)
          BY <4>1, <4>2, GroupShared
        <4>. QED BY <4>1, <4>3
      <3>. QED BY <1>2, <1>3, <2>1, <2>4, <3>1 DEF StoreOwn
    <2>. QED BY <1>4, <2>2, <2>3, <2>4 DEF StoreOwn
  <1>. QED BY <1>5, <1>6 DEF Steps

(* A lookup only returns contacts registered under the AOR it asks for, or *)
(* under one that affinity references tie to it.                           *)
THEOREM LookupsOwn == Spec => []OwnContactsOnly
  <1>1. ConstantsAssumption
    BY ConstantsAssumption
  <1>2. ConstantsAssumption /\ Init => OwnInv
    <2> SUFFICES ASSUME ConstantsAssumption, Init
                 PROVE  OwnInv
      OBVIOUS
    <2>1. \A k \in Key : Addresses(collections[k]) = {}
      BY DEF Init, Addresses
    <2>2. StoreOwn
      <3>1. /\ \A a \in Aor : AorKey(a) \in Key
            /\ \A a \in Aor, c \in CallId \cup {NoCall}, ls \in SUBSET Label :
                 CallKey(a, c, ls) \in Key
            /\ \A q \in FindRequests : q.sessionAffinityRef # NoRef =>
                 RefKey(q.sessionAffinityRef) \in Key
        BY DEF ConstantsAssumption, FindRequest, Key, AorKeys, CallKeys, RefKeys
      <3>. QED BY <2>1, <3>1 DEF StoreOwn
    <2>3. \A h \in Handler : HandlerOwn(h) /\ ~Finding(h)
      BY DEF Init, HandlerOwn, Adding, Finding, FindPC, Found
    <2>. QED BY <2>2, <2>3 DEF OwnInv, LookupsOK
  <1>3. ConstantsAssumption /\ TypeOK /\ OwnInv /\ [Next]_vars => OwnInv'
    <2> SUFFICES ASSUME ConstantsAssumption, TypeOK, OwnInv, [Next]_vars
                 PROVE  OwnInv'
      OBVIOUS
    <2>1. Steps
      BY NextSteps
    <2>2. LookupsOK'
      BY <2>1, LookupsStep DEF OwnInv
    <2>3. StoreOwn'
      BY <2>1, StoreOwnStep
    <2>4. \A h \in Handler : HandlerOwn(h)'
      BY <2>1, HandlerOwnStep
    <2>. QED BY <2>2, <2>3, <2>4 DEF OwnInv
  <1>4. OwnInv => OwnContactsOnly
    BY DEF OwnInv, HandlerOwn, OwnContactsOnly, Group
  <1>. QED BY <1>1, <1>2, <1>3, <1>4, TypeCorrect, PTL DEF Spec

-----------------------------------------------------------------------------
(* The round robin.  The positions of n routes run through all of 0 .. n-1 *)
(* in n steps after the first, wherever they start.                        *)

LEMMA LeastExists ==
  ASSUME NEW T, T \subseteq Nat, T # {}
  PROVE  \E x \in T : \A y \in T : x <= y
  <1> DEFINE R == OpToRel(<, Nat)
  <1>1. IsWellFoundedOn(R, Nat)
    BY NatLessThanWellFounded
  <1>2. \A x, y \in Nat : y < x => <<y, x>> \in R
    BY DEF OpToRel
  <1>. HIDE DEF R
  <1>3. PICK x \in T : \A y \in T : <<y, x>> \notin R
    BY <1>1, WFMin
  <1>4. \A y \in T : ~(y < x)
    BY <1>2, <1>3
  <1>. QED BY <1>3, <1>4

LEMMA InductionUpTo ==
  ASSUME NEW S, NEW n \in Nat, 0 \in S, \A i \in 0..(n - 1) : i \in S => i + 1 \in S
  PROVE  \A i \in 0..n : i \in S
  <1> SUFFICES ASSUME NEW k \in 0..n, k \notin S PROVE FALSE
    OBVIOUS
  <1> DEFINE T == {i \in 0..n : i \notin S}
  <1>1. T \subseteq Nat /\ T # {}
    OBVIOUS
  <1>2. PICK x \in T : \A y \in T : x <= y
    BY <1>1, LeastExists
  <1>3. x # 0 /\ x - 1 \in 0..(n - 1)
    BY <1>2
  <1>4. x - 1 \in S
    BY <1>2, <1>3
  <1>. QED BY <1>2, <1>3, <1>4

(* Where n routes are, the position i steps after p.                       *)
Turn(n, p, i) ==
  IF i = 0 THEN p
  ELSE IF p >= n - 1 THEN i - 1
  ELSE IF p + i <= n - 1 THEN p + i ELSE p + i - n

LEMMA TurnNext ==
  ASSUME NEW routes, NEW n \in Nat, n = Cardinality(routes), NEW p \in Nat, NEW i \in 1..n
  PROVE  Turn(n, p, i) = NextPosition(Turn(n, p, i - 1), routes)
  BY DEF Turn, NextPosition

LEMMA TurnCovers ==
  ASSUME NEW n \in Nat, NEW p \in Nat, NEW k \in 0..(n - 1)
  PROVE  \E i \in 0..n : Turn(n, p, i) = k
  <1>1. CASE p >= n - 1
    <2>1. k + 1 \in 0..n /\ Turn(n, p, k + 1) = k
      BY <1>1 DEF Turn
    <2>. QED BY <2>1
  <1>2. CASE p < n - 1 /\ k >= p
    <2>1. k - p \in 0..n /\ Turn(n, p, k - p) = k
      BY <1>2 DEF Turn
    <2>. QED BY <2>1
  <1>3. CASE p < n - 1 /\ k < p
    <2>1. k - p + n \in 0..n /\ Turn(n, p, k - p + n) = k
      BY <1>3 DEF Turn
    <2>. QED BY <2>1
  <1>. QED BY <1>1, <1>2, <1>3

(* Every route of a finite array is at an index below its length.          *)
LEMMA IndexBelow ==
  ASSUME NEW routes \in SUBSET Route, IsFiniteSet(routes), NEW r \in routes
  PROVE  IndexOf(r, routes) \in 0..(Cardinality(routes) - 1)
  <1> DEFINE before == {q \in routes : q.pos < r.pos}
  <1>1. before \subseteq routes /\ r \notin before
    BY DEF Route
  <1>2. Cardinality(before) \in Nat /\ Cardinality(routes) \in Nat
        /\ Cardinality(before) < Cardinality(routes)
    BY <1>1, FS_Subset, FS_CardinalityType
  <1>. QED BY <1>2 DEF IndexOf

LEMMA AllTurns ==
  ASSUME NEW routes \in SUBSET Route, IsFiniteSet(routes), NEW p \in Nat
  PROVE  LET n == Cardinality(routes)
             position[i \in 0..n] == IF i = 0 THEN p ELSE NextPosition(position[i - 1], routes)
         IN  routes = UNION {At(routes, position[i]) : i \in 0..n}
  <1> DEFINE n == Cardinality(routes)
             body(f) == [i \in 0..n |-> IF i = 0 THEN p ELSE NextPosition(f[i - 1], routes)]
             position == CHOOSE f : f = body(f)
             g == [i \in 0..n |-> Turn(n, p, i)]
  <1>1. n \in Nat
    BY FS_CardinalityType
  <1>2. g = body(g)
    <2>. HIDE DEF n
    <2>1. \A i \in 0..n : g[i] = IF i = 0 THEN p ELSE NextPosition(g[i - 1], routes)
      <3>1. g[0] = p
        BY <1>1 DEF Turn
      <3>2. ASSUME NEW i \in 1..n  PROVE g[i] = NextPosition(g[i - 1], routes)
        <4>1. g[i] = Turn(n, p, i) /\ g[i - 1] = Turn(n, p, i - 1)
          BY <1>1
        <4>. QED BY <1>1, <4>1, TurnNext DEF n
      <3>3. \A i \in 0..n : i = 0 \/ i \in 1..n
        BY <1>1
      <3>. HIDE DEF g
      <3>. QED BY <3>1, <3>2, <3>3
    <2>2. g = [i \in 0..n |-> g[i]]
      OBVIOUS
    <2>. HIDE DEF g
    <2>. QED BY <2>1, <2>2
  <1>. HIDE DEF body, g
  <1>3. position = body(position)
    BY <1>2
  <1>. HIDE DEF position
  <1>4. \A i \in 0..n : position[i] = Turn(n, p, i)
    <2> DEFINE S == {i \in 0..n : position[i] = Turn(n, p, i)}
    <2>. HIDE DEF n
    <2>1. \A i \in 0..n : position[i] = IF i = 0 THEN p ELSE NextPosition(position[i - 1], routes)
      BY <1>3 DEF body
    <2>2. 0 \in S
      BY <1>1, <2>1 DEF Turn
    <2>3. ASSUME NEW i \in 0..(n - 1), i \in S  PROVE i + 1 \in S
      <3>1. i + 1 \in 1..n /\ i + 1 \in 0..n /\ i + 1 # 0 /\ (i + 1) - 1 = i
        BY <1>1
      <3>2. position[i + 1] = NextPosition(Turn(n, p, i), routes)
        BY <2>1, <2>3, <3>1
      <3>3. Turn(n, p, i + 1) = NextPosition(Turn(n, p, i), routes)
        BY <1>1, <3>1, TurnNext DEF n
      <3>. QED BY <3>1, <3>2, <3>3
    <2>. HIDE DEF S
    <2>4. \A i \in 0..n : i \in S
      BY <1>1, <2>2, <2>3, InductionUpTo
    <2>. QED BY <2>4 DEF S
  <1>5. ASSUME NEW r \in routes  PROVE \E i \in 0..n : r \in At(routes, position[i])
    <2>1. IndexOf(r, routes) \in 0..(n - 1)
      BY IndexBelow
    <2>2. PICK i \in 0..n : Turn(n, p, i) = IndexOf(r, routes)
      BY <1>1, <2>1, TurnCovers
    <2>. QED BY <1>4, <2>2 DEF At
  <1>6. \A k : At(routes, k) \subseteq routes
    BY DEF At
  <1>7. routes = UNION {At(routes, position[i]) : i \in 0..n}
    <2>. HIDE DEF n
    <2>. QED BY <1>5, <1>6
  <1>. QED BY <1>7 DEF position, body

(***************************************************************************)
(* TurnsReachAll: whatever registrations, removals and expirations have    *)
(* left of the round-robin position, n + 1 lookups in a row reach each of  *)
(* the n live routes of an AOR, for arrays of any length.                  *)
(***************************************************************************)
THEOREM TurnsReachAll == Spec => []RoundRobinCovers
  <1>1. ConstantsAssumption /\ TypeOK => RoundRobinCovers
    <2> SUFFICES ASSUME TypeOK, NEW a \in Aor, NEW ref \in RRKey
                 PROVE  LET routes == Live(AorKey(a))
                            n == Cardinality(routes)
                            position[i \in 0..n] == IF i = 0 THEN rrCount[ref]
                                                    ELSE NextPosition(position[i - 1], routes)
                        IN  routes = UNION {At(routes, position[i]) : i \in 0..n}
      BY DEF RoundRobinCovers
    <2>1. AorKey(a) \in Key
      BY DEF Key, AorKeys
    <2>2. Live(AorKey(a)) \in SUBSET Route /\ IsFiniteSet(Live(AorKey(a)))
      BY <2>1, FS_Subset DEF TypeOK, Live, Unexpired
    <2>3. rrCount[ref] \in Nat
      BY DEF TypeOK
    <2>. QED BY <2>2, <2>3, AllTurns
  <1>. QED BY <1>1, TypeCorrect, ConstantsAssumption, PTL
=============================================================================
