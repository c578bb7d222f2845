---------------------------- MODULE MCResources ----------------------------
(***************************************************************************)
(* An instance of Resources: one row of every kind but two ACLs, and a      *)
(* Trunk that is still to be created, and requests that name one field     *)
(* beside the name, taken from Touched.                                    *)
(***************************************************************************)
EXTENDS Resources, TLC

CONSTANTS k1, k2, d1, t1, t2, n1, a1, p1, c1, l1, l2, u1, u2, ub, uw, Touched

MCRefs   == {d1, t1, t2, n1, a1, p1, c1, l1, l2}
MCKindOf == [r \in MCRefs |-> CASE r = d1 -> "domain" [] r \in {t1, t2} -> "trunk"
                                 [] r = n1 -> "number" [] r = a1 -> "agent"
                                 [] r = p1 -> "peer" [] r = c1 -> "credentials"
                                 [] OTHER -> "acl"]
MCBirth  == [r \in MCRefs |-> CASE r = l1 -> 1 [] r = c1 -> 2 [] r = t1 -> 3 [] r = n1 -> 4
                                 [] r = d1 -> 5 [] r = l2 -> 6 [] r = a1 -> 7 [] r = p1 -> 8
                                 [] OTHER -> 0]
MCUris   == {u1, u2, ub, uw}
MCBadUris == {ub}
MCWeightlessUris == {uw}

With(req, f, v) == (f :> v) @@ req
Named           == "name" :> "good"

\* The values tried for a field: the links there can be, a good value and the wrong ones.
Tried(k, f) == IF f \in Links[k]
               THEN {r \in MCRefs : MCKindOf[r] = getManager[k].links[f]}
               ELSE {"good"} \cup (IF f \in getManager[k].check THEN {"bad"} ELSE {})

OneField(k, S) == {With(Named, f, v) : <<f, v>> \in {<<g, w>> \in S \X Values : w \in Tried(k, g)}}

PartialsOf == [k \in Kinds |-> {Named} \cup OneField(k, Touched \cap Updatable[k])]
AnswersOf  == [k \in Kinds |->
                 {NoAnswers} \cup
                 {With(NoAnswers, f, v) : <<f, v>> \in
                     {<<g, w>> \in (Touched \cap Updatable[k]) \X Values : w \in Tried(k, g) \ {"bad"}}}]
Whole(k)   == [f \in getManager[k].need |-> "good"]
WholesOf   == [k \in Kinds |->
                 {Whole(k)} \cup {With(Whole(k), f, v) : f \in getManager[k].need, v \in {None, "bad"}}]
NewKidsOf  == [k \in Kinds |->
                 CASE k = "trunk" -> {{}, {u1}, {u2}, {ub}, {uw}} [] k = "domain" -> {{}, {n1}}
                   [] OTHER -> {{}}]

MCPartials(k)  == PartialsOf[k]
MCAnswers(k)   == AnswersOf[k]
MCCreations(k) == WholesOf[k]
MCNewKids(k)   == NewKidsOf[k]

MCSymmetry == Permutations(Clients)
=============================================================================
