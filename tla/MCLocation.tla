----------------------------- MODULE MCLocation -----------------------------
(***************************************************************************)
(* Instances of Location for TLC.                                          *)
(***************************************************************************)
EXTENDS Location, TLC

CONSTANTS a1, a2, d1, d2, d3, u1, u2, x, c1, c2, f1

ContactAt(a, d, u, n, ls) ==
  [aor |-> a, addr |-> d, user |-> u, sessionCount |-> n, labels |-> ls]

(* One AOR with two or three devices.                                      *)
TwoContacts == {ContactAt(a1, d1, u1, 2, {}), ContactAt(a1, d2, u1, 1, {})}
ThreeContacts == TwoContacts \cup {ContactAt(a1, d3, u1, 0, {})}
(* Three devices of one AOR, one of them with a label, and a device of     *)
(* another AOR whose scheme is not supported.                              *)
Registrations == {ContactAt(a1, d1, u1, 2, {}), ContactAt(a1, d2, u1, 1, {x}),
                  ContactAt(a1, d3, u1, 0, {}), ContactAt(a2, d2, u1, 0, {})}

Find(a, c) ==
  [op |-> "findRoutes", aor |-> a, callId |-> c, labels |-> {},
   backend |-> FALSE, balancingAlgorithm |-> "ROUND_ROBIN",
   withSessionAffinity |-> FALSE, sessionAffinityRef |-> NoRef,
   backendRef |-> NoRef]
Labelled(q, ls) == [q EXCEPT !.labels = ls]
RoundRobin(q) == [q EXCEPT !.backend = TRUE]
Least(q) == [q EXCEPT !.backend = TRUE, !.balancingAlgorithm = "LEAST_SESSIONS"]
Affine(q, r) == [Least(q) EXCEPT !.withSessionAffinity = TRUE,
                                 !.sessionAffinityRef = r]

CallLookups == {RoundRobin(Find(a1, c1)),
                [RoundRobin(Find(a1, c2)) EXCEPT !.backendRef = f1]}
ConferenceLookups == {Affine(Find(a1, c1), f1), Affine(Find(a1, c2), f1)}
UnbalancedLookups == {Find(a1, c1)}
AorLookups == {Find(a1, c1), Labelled(Least(Find(a1, c1)), {x}), Find(a2, c1)}

Limit1 == [a \in Aor |-> 1]
NoLimit == [a \in Aor |-> -1]

HandlerSymmetry == Permutations(Handler)
=============================================================================
