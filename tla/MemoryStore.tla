---------------------------- MODULE MemoryStore ----------------------------
(***************************************************************************)
(* The in-memory store of the Location Service                             *)
(* (mods/location/src/memory_store.ts) as operators on one of its          *)
(* collections.                                                            *)
(*                                                                         *)
(* A collection is a JavaScript array of routes.  It is represented by the *)
(* set of its routes: put never keeps two routes with one address, so the  *)
(* array is determined by its elements and their order, and the order is   *)
(* the field pos (0 is the head of the array).  Positions are only         *)
(* compared, so a filtered array keeps the positions of the full one.      *)
(*                                                                         *)
(* The address addr stands for host, port and transport, and deadline for  *)
(* registeredOn / 1000 + expires.                                          *)
(***************************************************************************)
EXTENDS Integers, FiniteSets

(* A route is kept while its lifetime is not over: strictly before the     *)
(* deadline.                                                               *)
expiredFilter(r, t) == r.deadline > t

(* Two routes are duplicates when host, port and transport agree; the user *)
(* is not compared.                                                        *)
duplicateFilter(r1, r2) == r1.addr # r2.addr

Unexpired(routes, t) == {r \in routes : expiredFilter(r, t)}

Addresses(routes) == {r.addr : r \in routes}

(* The index of a route in the array, and the array element at index n as  *)
(* a set: the empty set is JavaScript's undefined.                         *)
IndexOf(r, routes) == Cardinality({q \in routes : q.pos < r.pos})
At(routes, n) == {r \in routes : IndexOf(r, routes) = n}

(* [route, ...routes]                                                      *)
Prepend(route, routes) ==
  {[route EXCEPT !.pos = 0]}
    \cup {[r EXCEPT !.pos = 1 + IndexOf(r, routes)] : r \in routes}

Put_KeepsDuplicates(routes, route, t) == Prepend(route, Unexpired(routes, t))

(* put: expired routes and duplicates of the new route are dropped, and    *)
(* the new route becomes the head of the array.                            *)
Put(routes, route, t) ==
  Prepend(route, {r \in Unexpired(routes, t) : duplicateFilter(r, route)})

(* A stable sort by sessionCount followed by [0]: the fewest sessions, the *)
(* earlier position among equals.                                          *)
LeastSessions(routes) ==
  {r \in routes : \A q \in routes :
     \/ r.sessionCount < q.sessionCount
     \/ r.sessionCount = q.sessionCount /\ r.pos <= q.pos}

(* filterOnlyMatchingLabels                                                *)
MatchingLabels(routes, labels) == {r \in routes : r.labels = labels}
============================================================================
