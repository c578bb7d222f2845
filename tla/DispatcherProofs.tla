-------------------------- MODULE DispatcherProofs --------------------------
(***************************************************************************)
(* Proofs about the message dispatcher, for every sequence of middlewares: *)
(* what a message has met when it comes out; and, where RTPRelay comes     *)
(* first after the processor, that the RTP engine follows the call.        *)
(***************************************************************************)
EXTENDS Dispatcher, WellFoundedInduction, TLAPS

Size == Len(Middlewares)

\* Who a message can meet.
Names == {"processor"} \cup {Middlewares[k].ref : k \in 1 .. Size}

Of(post, k) == Middlewares[k].postProcessor = post

-----------------------------------------------------------------------------
(* Induction over a set of naturals, from the order being well founded.    *)

LEMMA LeastExists ==
  ASSUME NEW T, T \subseteq Nat, T # {}
  PROVE  \E x \in T : \A y \in T : x <= y
  <1> DEFINE R == OpToRel(<, Nat)
  <1>1. IsWellFoundedOn(R, Nat)
    BY NatLessThanWellFounded
  <1>2. \A x, y \in Nat : y < x => <<y, x>> \in R
    BY DEF OpToRel
  <1>. HIDE DEF R
  <1>3. PICK x \in T : \A y \in T : <<y, x>> \notin R
    BY <1>1, WFMin
  <1>4. \A y \in T : ~(y < x)
    BY <1>2, <1>3
  <1>. QED BY <1>3, <1>4

LEMMA Induction ==
  ASSUME NEW S, NEW a \in Nat, NEW n \in Nat, a \in S,
         \A k \in a .. n - 1 : k \in S => k + 1 \in S
  PROVE  \A k \in a .. n : k \in S
  <1> SUFFICES ASSUME \E k \in a .. n : k \notin S  PROVE FALSE
    OBVIOUS
  <1> DEFINE T == {k \in a .. n : k \notin S}
  <1>1. PICK x \in T : \A y \in T : x <= y
    <2>1. T \subseteq Nat /\ T # {}
      OBVIOUS
    <2>. QED BY <2>1, LeastExists
  <1>2. x # a /\ x - 1 \in a .. n - 1
    BY <1>1
  <1>3. x - 1 \notin S
    BY <1>2
  <1>. QED BY <1>1, <1>2, <1>3

IsStep(step, n, V) == step \in [1 .. n -> [V -> V]]

Iterates(g, n, b, step, V) ==
    /\ g \in [0 .. n -> V] /\ g[0] = b
    /\ \A i \in 1 .. n : g[i] = step[i][g[i - 1]]

\* A function that derives each value from the one before exists.
LEMMA RecursionExists ==
  ASSUME NEW n \in Nat, NEW V, NEW b \in V, NEW step, IsStep(step, n, V)
  PROVE  \E g : Iterates(g, n, b, step, V)
  <1> USE DEF IsStep
  <1> DEFINE Upto(m, g) == Iterates(g, m, b, step, V)
             S == {m \in Nat : \E g : Upto(m, g)}
  <1>1. 0 \in S
    <2>1. Upto(0, [i \in 0 .. 0 |-> b])
      BY DEF Iterates
    <2>. QED BY <2>1
  <1>2. ASSUME NEW m \in 0 .. n - 1, m \in S
        PROVE  m + 1 \in S
    <2>1. PICK g : Upto(m, g)
      BY <1>2
    <2> DEFINE h == [i \in 0 .. m + 1 |-> IF i = m + 1 THEN step[m + 1][g[m]] ELSE g[i]]
    <2>2. step[m + 1][g[m]] \in V
      <3>1. m + 1 \in 1 .. n /\ m \in 0 .. m
        OBVIOUS
      <3>2. g[m] \in V
        BY <2>1, <3>1 DEF Iterates
      <3>3. step[m + 1] \in [V -> V]
        BY <3>1
      <3>. QED BY <3>2, <3>3
    <2>3. h \in [0 .. m + 1 -> V]
      BY <2>1, <2>2 DEF Iterates
    <2>4. h[0] = b
      BY <2>1 DEF Iterates
    <2>5. ASSUME NEW i \in 1 .. m + 1  PROVE h[i] = step[i][h[i - 1]]
      <3>1. i - 1 \in 0 .. m /\ h[i - 1] = g[i - 1]
        OBVIOUS
      <3>2. CASE i = m + 1
        BY <3>1, <3>2
      <3>3. CASE i \in 1 .. m
        BY <2>1, <3>1, <3>3 DEF Iterates
      <3>. QED BY <3>2, <3>3
    <2>. HIDE DEF h
    <2>6. Upto(m + 1, h)
      BY <2>3, <2>4, <2>5 DEF Iterates
    <2>7. \E f : Upto(m + 1, f)
      BY <2>6
    <2>8. m + 1 \in Nat
      OBVIOUS
    <2>. HIDE DEF Upto
    <2>. QED BY <2>7, <2>8
  <1>. HIDE DEF S
  <1>3. n \in S
    <2>1. \A k \in 0 .. n - 1 : k \in S => k + 1 \in S
      BY <1>2
    <2>2. \A k \in 0 .. n : k \in S
      BY <1>1, <2>1, Induction
    <2>. QED BY <2>2
  <1>. QED BY <1>3 DEF S

-----------------------------------------------------------------------------
(* The middlewares of a phase, in their order.                             *)

LEMMA MiddlewareType ==
  /\ Size \in Nat /\ DOMAIN Middlewares = 1 .. Size
  /\ \A k \in 1 .. Size : Middlewares[k].ref \in Names
  <1>1. Size \in Nat /\ DOMAIN Middlewares = 1 .. Size
    BY MiddlewaresAssumption DEF MiddlewaresAssumption, Size
  <1>. QED BY <1>1 DEF Names

LEMMA RefsUpToDef ==
  ASSUME NEW post
  PROVE  /\ RefsUpTo(post) \in [0 .. Size -> Seq(Names)]
         /\ RefsUpTo(post)[0] = <<>>
         /\ \A k \in 1 .. Size :
               RefsUpTo(post)[k] = IF Of(post, k) THEN Append(RefsUpTo(post)[k - 1], Middlewares[k].ref)
                                   ELSE RefsUpTo(post)[k - 1]
  <1> DEFINE V == Seq(Names)
             body(g) == [k \in 0 .. Len(Middlewares) |->
                           IF k = 0 THEN <<>>
                           ELSE IF Middlewares[k].postProcessor = post
                           THEN Append(g[k - 1], Middlewares[k].ref)
                           ELSE g[k - 1]]
             step == [k \in 1 .. Size |-> [v \in V |-> IF Of(post, k) THEN Append(v, Middlewares[k].ref)
                                                      ELSE v]]
  <1>. HIDE DEF V
  <1>1. Size \in Nat /\ <<>> \in V
    BY MiddlewareType DEF V
  <1>2. \A k \in 1 .. Size, v \in V : Append(v, Middlewares[k].ref) \in V
    BY MiddlewareType DEF V
  <1>3. IsStep(step, Size, V)
    BY <1>2 DEF IsStep
  <1>4. PICK g : Iterates(g, Size, <<>>, step, V)
    <2>. HIDE DEF step
    <2>. QED BY <1>1, <1>3, RecursionExists
  <1>5. ASSUME NEW i \in 1 .. Size
        PROVE  g[i] = IF Of(post, i) THEN Append(g[i - 1], Middlewares[i].ref) ELSE g[i - 1]
    <2>1. g[i - 1] \in V
      BY <1>1, <1>4 DEF Iterates
    <2>. QED BY <1>4, <2>1 DEF Iterates
  <1>. HIDE DEF step
  <1>6. g = body(g)
    <2>1. g[0] = <<>> /\ DOMAIN g = 0 .. Size /\ g = [k \in 0 .. Size |-> g[k]]
      BY <1>4 DEF Iterates
    <2>2. \A k \in 0 .. Size : k = 0 \/ k \in 1 .. Size
      BY <1>1
    <2>3. \A k \in 0 .. Size : g[k] = IF k = 0 THEN <<>>
                                     ELSE IF Of(post, k) THEN Append(g[k - 1], Middlewares[k].ref)
                                     ELSE g[k - 1]
      BY <1>1, <1>5, <2>1, <2>2
    <2>. QED BY <2>1, <2>3 DEF Of, Size
  <1>7. RefsUpTo(post) = CHOOSE f : f = body(f)
    BY DEF RefsUpTo
  <1>. HIDE DEF body
  <1>8. RefsUpTo(post) = body(RefsUpTo(post))
    BY <1>6, <1>7
  <1>. DEFINE f == RefsUpTo(post)
  <1>9. f = [k \in 0 .. Size |-> IF k = 0 THEN <<>>
                                 ELSE IF Of(post, k) THEN Append(f[k - 1], Middlewares[k].ref)
                                 ELSE f[k - 1]]
    BY <1>8 DEF body, Of, Size
  <1>. HIDE DEF f
  <1>10. f[0] = <<>>
    BY <1>1, <1>9
  <1>11. \A k \in 1 .. Size :
               f[k] = IF Of(post, k) THEN Append(f[k - 1], Middlewares[k].ref) ELSE f[k - 1]
    <2>1. \A k \in 1 .. Size : k \in 0 .. Size /\ k # 0
      BY <1>1
    <2>. QED BY <1>9, <2>1
  <1>12. \A k \in 0 .. Size : f[k] \in V
    <2> DEFINE S == {k \in 0 .. Size : f[k] \in V}
    <2>1. 0 \in S
      BY <1>1, <1>10
    <2>2. ASSUME NEW k \in 0 .. Size - 1, k \in S  PROVE k + 1 \in S
      <3>1. k + 1 \in 1 .. Size /\ k + 1 \in 0 .. Size /\ (k + 1) - 1 = k /\ f[k] \in V
        BY <1>1, <2>2
      <3>2. f[k + 1] = IF Of(post, k + 1) THEN Append(f[k], Middlewares[k + 1].ref) ELSE f[k]
        BY <1>11, <3>1
      <3>3. f[k + 1] \in V
        BY <1>2, <3>1, <3>2
      <3>. QED BY <3>1, <3>3
    <2>3. \A k \in 0 .. Size : k \in S
      <3>. HIDE DEF S
      <3>1. \A k \in 0 .. Size - 1 : k \in S => k + 1 \in S
        BY <2>2
      <3>. QED BY <1>1, <2>1, <3>1, Induction
    <2>. QED BY <2>3
  <1>13. f \in [0 .. Size -> V]
    BY <1>9, <1>12
  <1>. QED BY <1>10, <1>11, <1>13 DEF f, V

\* Where no middleware is of the phase, nothing is added.
LEMMA NoneBetween ==
  ASSUME NEW post, NEW a \in 0 .. Size, NEW b \in a .. Size, \A k \in a + 1 .. b : ~Of(post, k)
  PROVE  RefsUpTo(post)[b] = RefsUpTo(post)[a]
  <1> DEFINE S == {k \in a .. b : RefsUpTo(post)[k] = RefsUpTo(post)[a]}
  <1>1. a \in S /\ a \in Nat /\ b \in Nat /\ b \in a .. b
    BY MiddlewareType
  <1>2. ASSUME NEW k \in a .. b - 1, k \in S  PROVE k + 1 \in S
    <2>1. k + 1 \in 1 .. Size /\ k + 1 \in a + 1 .. b /\ k + 1 \in a .. b /\ (k + 1) - 1 = k
      BY MiddlewareType
    <2>2. RefsUpTo(post)[k + 1] = RefsUpTo(post)[k]
      BY <2>1, RefsUpToDef
    <2>. QED BY <1>2, <2>1, <2>2
  <1>3. \A k \in a .. b : k \in S
    <2>. HIDE DEF S
    <2>1. \A k \in a .. b - 1 : k \in S => k + 1 \in S
      BY <1>2
    <2>. QED BY <1>1, <2>1, Induction
  <1>. QED BY <1>1, <1>3

LEMMA NextInDef ==
  ASSUME NEW post, NEW i \in 1 .. Size + 1
  PROVE  \/ NextIn(post, i) = 0 /\ \A k \in i .. Size : ~Of(post, k)
         \/ /\ NextIn(post, i) \in i .. Size /\ Of(post, NextIn(post, i))
            /\ \A k \in i .. NextIn(post, i) - 1 : ~Of(post, k)
  <1> DEFINE later == {k \in i .. Size : Of(post, k)}
             k0 == CHOOSE k \in later : \A n \in later : k <= n
  <1>1. NextIn(post, i) = IF later = {} THEN 0 ELSE k0
    BY DEF NextIn, Size, Of
  <1>2. CASE later = {}
    BY <1>1, <1>2
  <1>3. CASE later # {}
    <2>1. later \subseteq Nat
      BY MiddlewareType
    <2>2. \E k \in later : \A n \in later : k <= n
      BY <1>3, <2>1, LeastExists
    <2>3. k0 \in later /\ \A n \in later : k0 <= n
      BY <2>2
    <2>4. \A k \in i .. k0 - 1 : ~Of(post, k)
      BY <2>3, MiddlewareType
    <2>. QED BY <1>1, <1>3, <2>3, <2>4
  <1>. QED BY <1>2, <1>3

\* What comes next, as references.
LEMMA NextRefs ==
  ASSUME NEW post, NEW i \in 1 .. Size + 1, NEW k, k = NextIn(post, i)
  PROVE  /\ k = 0 => RefsOf(post) = RefsUpTo(post)[i - 1]
         /\ k # 0 => /\ k \in 1 .. Size /\ Of(post, k)
                     /\ RefsUpTo(post)[k - 1] = RefsUpTo(post)[i - 1]
                     /\ RefsUpTo(post)[k] = Append(RefsUpTo(post)[i - 1], Middlewares[k].ref)
  <1>1. CASE k = 0
    <2>1. i - 1 \in 0 .. Size /\ Size \in i - 1 .. Size /\ (i - 1) + 1 = i
      BY MiddlewareType
    <2>2. \A n \in (i - 1) + 1 .. Size : ~Of(post, n)
      <3>1. \A n \in i .. Size : ~Of(post, n)
        <4>1. NextIn(post, i) \notin i .. Size
          BY <1>1, MiddlewareType
        <4>. QED BY <4>1, NextInDef
      <3>. QED BY <2>1, <3>1
    <2>3. RefsUpTo(post)[Size] = RefsUpTo(post)[i - 1]
      BY <2>1, <2>2, NoneBetween
    <2>. QED BY <1>1, <2>3 DEF RefsOf, Size
  <1>2. CASE k # 0
    <2>1. /\ k \in i .. Size /\ Of(post, k) /\ \A n \in i .. k - 1 : ~Of(post, n)
      BY <1>2, NextInDef
    <2>2. i - 1 \in 0 .. Size /\ k - 1 \in i - 1 .. Size /\ (i - 1) + 1 = i /\ k \in 1 .. Size
      BY <2>1, MiddlewareType
    <2>3. RefsUpTo(post)[k - 1] = RefsUpTo(post)[i - 1]
      BY <2>1, <2>2, NoneBetween
    <2>. QED BY <1>2, <2>1, <2>2, <2>3, RefsUpToDef
  <1>. QED BY <1>1, <1>2

LEMMA Singleton == ASSUME NEW V, NEW r \in V PROVE <<r>> \in Seq(V)
  OBVIOUS

LEMMA HeadOnly ==
  ASSUME NEW V, NEW s \in Seq(V), Len(s) >= 1
  PROVE  SubSeq(s, 1, 1) = <<s[1]>>
  <1>1. Len(SubSeq(s, 1, 1)) = 1 /\ SubSeq(s, 1, 1)[1] = s[1]
    OBVIOUS
  <1>2. SubSeq(s, 1, 1) \in Seq(V)
    OBVIOUS
  <1>3. \A t \in Seq(V) : Len(t) = 1 => t = <<t[1]>>
    OBVIOUS
  <1>. QED BY <1>1, <1>2, <1>3

\* The first of a phase is the one after the start.
LEMMA FirstRefs ==
  ASSUME NEW post, NEW k, k = NextIn(post, 1)
  PROVE  FirstOf(RefsOf(post)) = IF k = 0 THEN <<>> ELSE <<Middlewares[k].ref>>
  <1>. DEFINE f == RefsUpTo(post)
  <1>1. 1 \in 1 .. Size + 1 /\ 1 - 1 = 0
    BY MiddlewareType
  <1>2. CASE k = 0
    <2>1. RefsOf(post) = <<>>
      BY <1>1, <1>2, NextRefs, RefsUpToDef
    <2>. QED BY <1>2, <2>1 DEF FirstOf
  <1>3. CASE k # 0
    <2>1. k \in 1 .. Size /\ f[k] = Append(<<>>, Middlewares[k].ref)
      BY <1>1, <1>3, NextRefs, RefsUpToDef
    <2>2. \A n \in 0 .. Size : f[n] \in Seq(Names)
      BY RefsUpToDef
    <2> DEFINE r == Middlewares[k].ref
               S == {n \in k .. Size : Len(f[n]) >= 1 /\ f[n][1] = r}
    <2>3. r \in Names
      BY <2>1, MiddlewareType
    <2>4. k \in S
      BY <2>1, <2>3, MiddlewareType
    <2>5. ASSUME NEW n \in k .. Size - 1, n \in S  PROVE n + 1 \in S
      <3>1. n + 1 \in 1 .. Size /\ n + 1 \in k .. Size /\ (n + 1) - 1 = n /\ n \in 0 .. Size
        BY <2>1, MiddlewareType
      <3>2. f[n + 1] = Append(f[n], Middlewares[n + 1].ref) \/ f[n + 1] = f[n]
        BY <3>1, RefsUpToDef
      <3>3. f[n] \in Seq(Names) /\ Len(f[n]) >= 1 /\ f[n][1] = r /\ Middlewares[n + 1].ref \in Names
        BY <2>2, <2>5, <3>1, MiddlewareType
      <3> DEFINE u == f[n]
                 v == Middlewares[n + 1].ref
      <3>. HIDE DEF f, u, v
      <3>4. \A w \in Seq(Names) : w = u \/ w = Append(u, v) => Len(w) >= 1 /\ w[1] = r
        BY <3>3 DEF u, v
      <3>. QED BY <2>2, <3>1, <3>2, <3>4 DEF u, v
    <2>6. Size \in S
      <3>. HIDE DEF S
      <3>1. \A n \in k .. Size - 1 : n \in S => n + 1 \in S
        BY <2>5
      <3>2. k \in Nat /\ Size \in Nat /\ Size \in k .. Size
        BY <2>1, MiddlewareType
      <3>. QED BY <2>4, <3>1, <3>2, Induction
    <2>7. RefsOf(post) = f[Size]
      BY DEF RefsOf, Size
    <2>8. RefsOf(post) \in Seq(Names) /\ Len(RefsOf(post)) >= 1 /\ RefsOf(post)[1] = r
      BY <2>2, <2>6, <2>7, MiddlewareType
    <2>9. SubSeq(RefsOf(post), 1, 1) = <<r>>
      BY <2>8, HeadOnly
    <2>10. RefsOf(post) # <<>>
      BY <2>8
    <2>. QED BY <1>3, <2>9, <2>10 DEF FirstOf
  <1>. QED BY <1>2, <1>3

-----------------------------------------------------------------------------
(* The invariant.  A job at a middleware has passed the ones before it in  *)
(* its phase, and all of the phases before; a response of a phone has      *)
(* passed the first of each.                                               *)

Codes == Kinds \cup {None, "UNAUTHORIZED", "TEMPORARILY_UNAVAILABLE", "SERVER_INTERNAL_ERROR"}

Messages == [type : {"request", "response"}, method : Kinds \cup {"INVITE"}, code : Codes,
             auth : {None, "good", "guess"}, body : {None, "own", "RTP/AVP", "RTP/SAVPF"},
             routed : BOOLEAN]

Errors == [type : {"error"}, code : {"UNAVAILABLE", "UNKNOWN", "NOT_FOUND"}, body : {None}]

Callers == [user : {"agent", "guest"}, auth : {None, "good", "guess"}, late : BOOLEAN, leg : Legs]

JobRecords == [pc : {"middleware", "processor", "done"}, kind : Kinds, msg : Messages,
               i : 0 .. Size, passed : Seq(Names), known : {None, "no", "yes"},
               out : Messages \cup Errors \cup {None}, echoed : BOOLEAN]

Trusted(c) == c.user \in Allowlist \/ c.auth = "good"

Before(post) == IF post THEN RefsOf(FALSE) \o <<"processor">> ELSE <<>>

FirstBefore(post) == IF post THEN FirstOf(RefsOf(FALSE)) \o <<"processor">> ELSE <<>>

\* What is so of a message msg that job x has at position k of a phase.
Holds(c, x, msg, post, k) ==
    /\ msg \in Messages
    /\ Response(x.kind) => msg.type = "response"
    /\ msg.type = "request" =>
         /\ msg.method = x.kind /\ msg.auth \in {c.auth, None}
         /\ x.passed = Before(post) \o RefsUpTo(post)[k - 1]
         /\ IF post THEN msg.routed = ~x.echoed ELSE ~msg.routed /\ ~x.echoed
         /\ x.kind \in AuthMethods /\ "simpleauth" \in Range(x.passed) => Trusted(c)

AtMiddleware(c, x) ==
    \E post \in BOOLEAN :
        /\ x.pc = "middleware" /\ x.i \in 1 .. Size /\ Of(post, x.i)
        /\ Holds(c, x, x.msg, post, x.i)
        /\ Response(x.kind) =>
             x.kind # "BUSY_HERE" /\ x.passed = FirstBefore(post) /\ x.i = NextIn(post, 1)

AtProcessor(c, x) ==
    /\ x.pc = "processor" /\ Holds(c, x, x.msg, FALSE, Size + 1)
    /\ Response(x.kind) =>
         x.passed = IF x.kind = "BUSY_HERE" THEN <<>> ELSE FirstOf(RefsOf(FALSE))

AtEnd(c, x) ==
    /\ x.pc = "done" /\ x.out \in Messages \cup Errors
    /\ x.out \notin Errors =>
         /\ Holds(c, x, x.out, TRUE, Size + 1)
         /\ Response(x.kind) =>
              x.passed = IF x.kind = "BUSY_HERE" THEN <<"processor">>
                         ELSE FirstBefore(TRUE) \o FirstOf(RefsOf(TRUE))

JobOK(c, x) ==
    \/ x = NoJob
    \/ x \in JobRecords /\ (AtMiddleware(c, x) \/ AtProcessor(c, x) \/ AtEnd(c, x))

ChainInv ==
    /\ caller \in Callers
    /\ DOMAIN job = Jobs
    /\ \A j \in Jobs : JobOK(caller, job[j])

-----------------------------------------------------------------------------
LEMMA FirstType ==
  ASSUME NEW post
  PROVE  /\ RefsOf(post) \in Seq(Names)
         /\ FirstOf(RefsOf(post)) \in Seq(Names)
  <1>1. RefsOf(post) \in Seq(Names)
    BY RefsUpToDef, MiddlewareType DEF RefsOf, Size
  <1>2. NextIn(post, 1) # 0 => Middlewares[NextIn(post, 1)].ref \in Names
    <2>1. 1 \in 1 .. Size + 1
      BY MiddlewareType
    <2>. QED BY <2>1, NextRefs, MiddlewareType
  <1>. DEFINE k == NextIn(post, 1)
  <1>3. FirstOf(RefsOf(post)) = IF k = 0 THEN <<>> ELSE <<Middlewares[k].ref>>
    BY FirstRefs
  <1>4. \A r \in Names : <<r>> \in Seq(Names)
    BY Singleton
  <1>. HIDE DEF k
  <1>5. CASE k = 0
    BY <1>1, <1>3, <1>5
  <1>6. CASE k # 0
    <2>1. <<Middlewares[k].ref>> \in Seq(Names)
      BY <1>2, <1>4, <1>6 DEF k
    <2>. QED BY <1>1, <1>3, <1>6, <2>1
  <1>. QED BY <1>5, <1>6

LEMMA BeforeType == ASSUME NEW post PROVE Before(post) \in Seq(Names)
  <1> DEFINE p == "processor"
  <1>1. p \in Names
    BY DEF Names
  <1>. HIDE DEF p
  <1>2. <<p>> \in Seq(Names)
    BY <1>1, Singleton
  <1> DEFINE q == RefsOf(FALSE)
  <1>3. q \in Seq(Names)
    BY FirstType
  <1>. HIDE DEF q
  <1>4. q \o <<p>> \in Seq(Names) /\ <<>> \in Seq(Names)
    BY <1>2, <1>3
  <1>. QED BY <1>4 DEF Before, p, q

LEMMA MessageType ==
  ASSUME caller \in Callers, NEW kind \in Kinds
  PROVE  /\ Message(kind) \in Messages
         /\ Response(kind) => Message(kind).type = "response"
         /\ ~Response(kind) => Message(kind).type = "request" /\ Message(kind).method = kind
                                /\ Message(kind).auth = caller.auth
         /\ ~Message(kind).routed
         /\ isErrorResponse(Message(kind)) <=> kind = "BUSY_HERE"
  <1>1. caller.auth \in {None, "good", "guess"} /\ caller.late \in BOOLEAN
    BY DEF Callers
  <1>2. Message(kind) \in Messages
    BY <1>1 DEF Message, Messages, Codes
  <1>. QED BY <1>2 DEF Message, Response, isErrorResponse

LEMMA PhaseOK ==
  ASSUME NEW c, NEW y \in JobRecords, NEW post \in BOOLEAN, NEW i \in 1 .. Size + 1, NEW msg,
         Holds(c, y, msg, post, i),
         Response(y.kind) =>
            /\ y.kind # "BUSY_HERE"
            /\ \/ i = 1 /\ y.passed = FirstBefore(post)
               \/ i = Size + 1 /\ y.passed = FirstBefore(post) \o FirstOf(RefsOf(post))
  PROVE  JobOK(c, Phase(y, post, i, msg))
  <1> DEFINE k == NextIn(post, i)
             z == Phase(y, post, i, msg)
  <1>1. msg \in Messages /\ (Size + 1) - 1 = Size /\ RefsUpTo(post)[Size] = RefsOf(post)
    BY MiddlewareType DEF Holds, RefsOf, Size
  <1>2. CASE k # 0
    <2>1. k \in 1 .. Size /\ Of(post, k) /\ RefsUpTo(post)[k - 1] = RefsUpTo(post)[i - 1]
      BY <1>2, NextRefs
    <2>2. z = [y EXCEPT !.pc = "middleware", !.i = k, !.msg = msg]
      BY <1>2 DEF Phase
    <2>. HIDE DEF k, z
    <2>. k \in 0 .. Size
      BY <2>1, MiddlewareType
    <2>3. /\ z \in JobRecords /\ z.pc = "middleware" /\ z.i = k /\ z.msg = msg /\ z.kind = y.kind
          /\ z.passed = y.passed /\ z.echoed = y.echoed
      BY <1>1, <2>1, <2>2 DEF JobRecords
    <2>4. Holds(c, z, z.msg, post, z.i)
      BY <2>1, <2>3 DEF Holds
    <2>5. Response(y.kind) => i = 1
      <3>1. k \in i .. Size
        BY <1>2, NextInDef DEF k
      <3>. QED BY <3>1, MiddlewareType
    <2>6. Response(z.kind) => z.kind # "BUSY_HERE" /\ z.passed = FirstBefore(post) /\ z.i = NextIn(post, 1)
      <3>1. i = 1 => k = NextIn(post, 1)
        BY DEF k
      <3>2. i = 1 /\ Response(y.kind) => y.passed = FirstBefore(post)
        <4>1. ASSUME i = 1, i = Size + 1  PROVE FALSE
          BY <2>1, <4>1, MiddlewareType
        <4>. QED BY <4>1
      <3>. QED BY <2>3, <2>5, <3>1, <3>2
    <2>7. AtMiddleware(c, z)
      BY <2>1, <2>3, <2>4, <2>6 DEF AtMiddleware
    <2>. QED BY <2>3, <2>7 DEF JobOK, z
  <1>3. CASE k = 0
    <2>1. RefsUpTo(post)[i - 1] = RefsOf(post)
      BY <1>3, NextRefs
    <2>2. Response(y.kind) => y.kind # "BUSY_HERE" /\ y.passed = FirstBefore(post) \o FirstOf(RefsOf(post))
      <3>1. CASE Response(y.kind) /\ i = 1 /\ y.passed = FirstBefore(post)
        <4>1. FirstOf(RefsOf(post)) = <<>>
          BY <1>3, <3>1, FirstRefs
        <4>2. y.passed \in Seq(Names)
          BY DEF JobRecords
        <4>. QED BY <3>1, <4>1, <4>2
      <3>. QED BY <3>1
    <2>. HIDE DEF k
    <2>3. CASE post
      <3>1. z = [y EXCEPT !.pc = "done", !.out = msg]
        BY <1>3, <2>3 DEF Phase, k
      <3>. HIDE DEF z
      <3>2. /\ z \in JobRecords /\ z.pc = "done" /\ z.out = msg /\ z.kind = y.kind
            /\ z.passed = y.passed /\ z.echoed = y.echoed
        BY <1>1, <3>1 DEF JobRecords
      <3>3. Holds(c, z, z.out, TRUE, Size + 1)
        BY <1>1, <2>1, <2>3, <3>2 DEF Holds
      <3>4. AtEnd(c, z)
        BY <1>1, <2>2, <2>3, <3>2, <3>3 DEF AtEnd
      <3>. QED BY <3>2, <3>4 DEF JobOK, z
    <2>4. CASE ~post
      <3>1. z = [y EXCEPT !.pc = "processor", !.msg = msg]
        BY <1>3, <2>4 DEF Phase, k
      <3>. HIDE DEF z
      <3>2. /\ z \in JobRecords /\ z.pc = "processor" /\ z.msg = msg /\ z.kind = y.kind
            /\ z.passed = y.passed /\ z.echoed = y.echoed
        BY <1>1, <3>1 DEF JobRecords
      <3>3. post = FALSE
        BY <2>4
      <3>4. Holds(c, z, z.msg, FALSE, Size + 1)
        BY <1>1, <2>1, <3>2, <3>3 DEF Holds
      <3>5. FirstBefore(FALSE) \o FirstOf(RefsOf(FALSE)) = FirstOf(RefsOf(FALSE))
        <4>1. FirstOf(RefsOf(FALSE)) \in Seq(Names)
          BY FirstType
        <4>. QED BY <4>1 DEF FirstBefore
      <3>6. AtProcessor(c, z)
        BY <2>2, <3>2, <3>3, <3>4, <3>5 DEF AtProcessor
      <3>. QED BY <3>2, <3>6 DEF JobOK, z
    <2>. QED BY <2>3, <2>4
  <1>. QED BY <1>2, <1>3

\* A middleware gives a message back.
LEMMA PassedOK ==
  ASSUME NEW c, NEW x \in JobRecords, AtMiddleware(c, x), NEW msg \in Messages,
         msg.type = "request" =>
            /\ x.msg.type = "request" /\ msg.method = x.msg.method
            /\ msg.auth = x.msg.auth /\ msg.routed = x.msg.routed
            /\ Middlewares[x.i].ref = "simpleauth" /\ x.kind \in AuthMethods => Trusted(c)
  PROVE  JobOK(c, Passed(x, msg))
  <1> DEFINE ref == Middlewares[x.i].ref
             y == [x EXCEPT !.passed = Append(@, ref), !.known = None]
             i == IF msg.type = "response" THEN Len(Middlewares) + 1 ELSE x.i + 1
  <1>1. PICK post \in BOOLEAN :
            /\ x.i \in 1 .. Size /\ Of(post, x.i) /\ Holds(c, x, x.msg, post, x.i)
            /\ Response(x.kind) =>
                 x.kind # "BUSY_HERE" /\ x.passed = FirstBefore(post) /\ x.i = NextIn(post, 1)
    BY DEF AtMiddleware
  <1>2. Passed(x, msg) = Phase(y, post, i, msg)
    BY <1>1 DEF Passed, Of
  <1>3. ref \in Names /\ i \in 1 .. Size + 1
    BY <1>1, MiddlewareType DEF Size
  <1>. HIDE DEF ref
  <1>4. /\ y \in JobRecords /\ y.kind = x.kind /\ y.passed = Append(x.passed, ref)
        /\ y.echoed = x.echoed /\ x.passed \in Seq(Names)
    <2>1. x.passed \in Seq(Names)
      BY DEF JobRecords
    <2>2. Append(x.passed, ref) \in Seq(Names)
      BY <1>3, <2>1
    <2>. QED BY <2>1, <2>2 DEF JobRecords
  <1>. HIDE DEF y, i
  <1>5. ASSUME msg.type = "request"
        PROVE  y.passed = Before(post) \o RefsUpTo(post)[i - 1]
    <2>1. i - 1 = x.i
      BY <1>1, <1>5, MiddlewareType DEF i
    <2>2. RefsUpTo(post)[x.i] = Append(RefsUpTo(post)[x.i - 1], ref)
      BY <1>1, RefsUpToDef DEF ref
    <2>3. RefsUpTo(post)[x.i - 1] \in Seq(Names)
      BY <1>1, RefsUpToDef, MiddlewareType
    <2>4. Before(post) \in Seq(Names)
      BY BeforeType
    <2>5. x.passed = Before(post) \o RefsUpTo(post)[x.i - 1]
      BY <1>1, <1>5 DEF Holds
    <2>6. \A s, t \in Seq(Names) : Append(s \o t, ref) = s \o Append(t, ref)
      BY <1>3
    <2>. QED BY <1>4, <2>1, <2>2, <2>3, <2>4, <2>5, <2>6
  <1>6. "simpleauth" \in Range(y.passed) => "simpleauth" \in Range(x.passed) \/ ref = "simpleauth"
    BY <1>3, <1>4 DEF Range
  <1>7. Holds(c, y, msg, post, i)
    <2>1. Response(y.kind) => msg.type = "response"
      <3>1. Response(x.kind) => x.msg.type # "request"
        BY <1>1 DEF Holds
      <3>. QED BY <1>4, <3>1 DEF Messages
    <2>2. ASSUME msg.type = "request"
          PROVE  /\ msg.method = y.kind /\ msg.auth \in {c.auth, None}
                 /\ IF post THEN msg.routed = ~y.echoed ELSE ~msg.routed /\ ~y.echoed
                 /\ y.kind \in AuthMethods /\ "simpleauth" \in Range(y.passed) => Trusted(c)
      BY <1>1, <1>4, <1>6, <2>2 DEF Holds, ref
    <2>. QED BY <1>5, <2>1, <2>2 DEF Holds
  <1>8. Response(y.kind) =>
            /\ y.kind # "BUSY_HERE"
            /\ i = Size + 1 /\ y.passed = FirstBefore(post) \o FirstOf(RefsOf(post))
    <2>. SUFFICES ASSUME Response(y.kind)
                  PROVE  /\ y.kind # "BUSY_HERE"
                         /\ i = Size + 1 /\ y.passed = FirstBefore(post) \o FirstOf(RefsOf(post))
      OBVIOUS
    <2>1. i = Size + 1
      BY <1>7 DEF Holds, i, Size
    <2>2. x.i # 0 /\ x.i = NextIn(post, 1)
      BY <1>1, <1>4
    <2>3. FirstOf(RefsOf(post)) = <<ref>>
      BY <2>2, FirstRefs DEF ref
    <2>4. y.passed = x.passed \o <<ref>>
      BY <1>3, <1>4
    <2>. QED BY <1>1, <1>4, <2>1, <2>3, <2>4
  <1>. QED BY <1>2, <1>3, <1>4, <1>7, <1>8, PhaseOK

\* The processor gives a message back: its own, or (echoed) the one it got.
LEMMA ProcessedOK ==
  ASSUME caller \in Callers, NEW x \in JobRecords, AtProcessor(caller, x), NEW msg \in Messages,
         NEW e \in BOOLEAN,
         msg.type = "request" =>
            /\ x.msg.type = "request" /\ msg.method = x.msg.method
            /\ msg.auth \in {caller.auth, None} /\ msg.routed = ~e
  PROVE  JobOK(caller, [Processed(x, msg) EXCEPT !.echoed = e])
  <1> DEFINE p == "processor"
             y == [x EXCEPT !.passed = Append(@, p), !.echoed = e]
             w == [x EXCEPT !.passed = Append(@, p)]
             z == [Processed(x, msg) EXCEPT !.echoed = e]
  <1>1. /\ Holds(caller, x, x.msg, FALSE, Size + 1)
        /\ Response(x.kind) =>
             x.passed = IF x.kind = "BUSY_HERE" THEN <<>> ELSE FirstOf(RefsOf(FALSE))
    BY DEF AtProcessor
  <1>2. p \in Names /\ x.kind \in Kinds /\ x.passed \in Seq(Names)
    BY DEF Names, JobRecords
  <1>3. isErrorResponse(Message(x.kind)) <=> x.kind = "BUSY_HERE"
    BY <1>2, MessageType
  <1>4. Append(x.passed, p) \in Seq(Names)
    BY <1>2
  <1>5. /\ y \in JobRecords /\ y.kind = x.kind /\ y.passed = Append(x.passed, p) /\ y.echoed = e
        /\ w \in JobRecords /\ y = [w EXCEPT !.echoed = e]
    <2>. HIDE DEF p
    <2>. QED BY <1>2, <1>4 DEF JobRecords
  <1>6. CASE x.kind = "BUSY_HERE"
    <2>1. msg.type = "response" /\ Response(x.kind)
      BY <1>1, <1>6 DEF Holds, Response, Messages
    <2>2. z = [y EXCEPT !.pc = "done", !.out = msg]
      <3>1. Processed(x, msg) = [w EXCEPT !.pc = "done", !.out = msg]
        BY <1>3, <1>6 DEF Processed
      <3>. HIDE DEF w, y
      <3>. QED BY <1>5, <3>1 DEF JobRecords
    <2>. HIDE DEF y, z, w, p
    <2>3. /\ z \in JobRecords /\ z.pc = "done" /\ z.out = msg /\ z.kind = x.kind
          /\ z.passed = Append(x.passed, p)
      BY <1>5, <2>2 DEF JobRecords
    <2>4. Append(<<>>, p) = <<p>>
      OBVIOUS
    <2>5. AtEnd(caller, z)
      BY <1>1, <1>6, <2>1, <2>3, <2>4 DEF AtEnd, Holds, p
    <2>. QED BY <2>3, <2>5 DEF JobOK, z
  <1>7. CASE x.kind # "BUSY_HERE"
    <2>1. z = Phase(y, TRUE, 1, msg)
      <3>1. Processed(x, msg) = Phase(w, TRUE, 1, msg)
        BY <1>3, <1>7 DEF Processed
      <3>. HIDE DEF w, y
      <3>2. [Phase(w, TRUE, 1, msg) EXCEPT !.echoed = e] = Phase(y, TRUE, 1, msg)
        <4>1. CASE NextIn(TRUE, 1) # 0
          BY <1>5, <4>1 DEF Phase, JobRecords
        <4>2. CASE NextIn(TRUE, 1) = 0
          BY <1>5, <4>2 DEF Phase, JobRecords
        <4>. QED BY <4>1, <4>2
      <3>. QED BY <3>1, <3>2
    <2> DEFINE before == RefsOf(FALSE)
               first == FirstOf(RefsOf(FALSE))
               t == TRUE
    <2>2. Before(t) = before \o <<p>> /\ FirstBefore(t) = first \o <<p>> /\ RefsUpTo(t)[0] = <<>>
      BY RefsUpToDef DEF Before, FirstBefore
    <2>3. before \in Seq(Names) /\ first \in Seq(Names)
      BY FirstType
    <2>. HIDE DEF y, z, w, p, before, first
    <2>4. \A q \in Seq(Names) : Append(q, p) = q \o <<p>> /\ (q \o <<p>>) \o <<>> = q \o <<p>>
      BY <1>2
    <2>5. ASSUME msg.type = "request"  PROVE y.passed = Before(t) \o RefsUpTo(t)[1 - 1]
      <3>1. x.passed = before
        <4>1. Before(FALSE) = <<>> /\ RefsUpTo(FALSE)[(Size + 1) - 1] = before
          BY MiddlewareType DEF Before, before, RefsOf, Size
        <4>2. x.passed = Before(FALSE) \o RefsUpTo(FALSE)[(Size + 1) - 1]
          BY <1>1, <2>5 DEF Holds
        <4>3. <<>> \o before = before
          BY <2>3
        <4>. QED BY <4>1, <4>2, <4>3
      <3>2. Before(t) \o RefsUpTo(t)[1 - 1] = Append(before, p)
        <4>1. 1 - 1 = 0
          OBVIOUS
        <4>. HIDE DEF t
        <4>. QED BY <2>2, <2>3, <2>4, <4>1
      <3>. QED BY <1>5, <3>1, <3>2
    <2>6. "simpleauth" \in Range(y.passed) => "simpleauth" \in Range(x.passed)
      BY <1>2, <1>5 DEF Range, p
    <2>7. Holds(caller, y, msg, t, 1)
      <3>1. Response(y.kind) => msg.type = "response"
        BY <1>1, <1>5 DEF Holds, Messages
      <3>2. ASSUME msg.type = "request"
            PROVE  /\ msg.method = y.kind /\ msg.auth \in {caller.auth, None}
                   /\ IF t THEN msg.routed = ~y.echoed ELSE ~msg.routed /\ ~y.echoed
                   /\ y.kind \in AuthMethods /\ "simpleauth" \in Range(y.passed) => Trusted(caller)
        BY <1>1, <1>5, <2>6, <3>2 DEF Holds
      <3>. QED BY <2>5, <3>1, <3>2 DEF Holds
    <2>8. Response(y.kind) => y.kind # "BUSY_HERE" /\ y.passed = FirstBefore(t)
      BY <1>1, <1>5, <1>7, <2>2, <2>3, <2>4 DEF first
    <2>9. 1 \in 1 .. Size + 1
      BY MiddlewareType
    <2>10. JobOK(caller, Phase(y, t, 1, msg))
      BY <1>5, <2>7, <2>8, <2>9, PhaseOK
    <2>. QED BY <2>1, <2>10 DEF z
  <1>. QED BY <1>6, <1>7

LEMMA StartOK ==
  ASSUME caller \in Callers, NEW kind \in Kinds
  PROVE  JobOK(caller, Start(kind))
  <1> DEFINE msg == Message(kind)
             x == [pc |-> "processor", kind |-> kind, msg |-> msg, i |-> 0, passed |-> <<>>,
                   known |-> None, out |-> None, echoed |-> FALSE]
             f == FALSE
  <1>1. /\ msg \in Messages
        /\ Response(kind) => msg.type = "response"
        /\ ~Response(kind) => msg.type = "request" /\ msg.method = kind /\ msg.auth = caller.auth
        /\ ~msg.routed
        /\ isErrorResponse(msg) <=> kind = "BUSY_HERE"
    BY MessageType
  <1>2. Start(kind) = IF kind = "BUSY_HERE" THEN x ELSE Phase(x, f, 1, msg)
    BY <1>1 DEF Start
  <1>. HIDE DEF msg
  <1>3. x \in JobRecords
    <2>1. 0 \in 0 .. Size /\ <<>> \in Seq(Names)
      BY MiddlewareType
    <2>2. msg \in Messages
      BY <1>1
    <2>3. x.echoed \in BOOLEAN /\ x.pc \in {"middleware", "processor", "done"}
      OBVIOUS
    <2>. QED BY <2>1, <2>2, <2>3 DEF JobRecords
  <1>4. x.kind = kind /\ x.msg = msg /\ x.pc = "processor" /\ x.passed = <<>> /\ ~x.echoed
    OBVIOUS
  <1>. HIDE DEF x
  <1>5. CASE kind = "BUSY_HERE"
    <2>1. Response(kind)
      BY <1>5 DEF Response
    <2>2. AtProcessor(caller, x)
      BY <1>1, <1>4, <1>5, <2>1 DEF AtProcessor, Holds
    <2>. QED BY <1>2, <1>3, <1>5, <2>2 DEF JobOK
  <1>6. CASE kind # "BUSY_HERE"
    <2>1. 1 \in 1 .. Size + 1 /\ RefsUpTo(f)[1 - 1] = <<>> /\ Before(f) = <<>> /\ FirstBefore(f) = <<>>
      <3>1. Before(f) = <<>> /\ FirstBefore(f) = <<>>
        BY DEF Before, FirstBefore
      <3>. HIDE DEF f
      <3>2. RefsUpTo(f)[0] = <<>> /\ 1 - 1 = 0
        BY RefsUpToDef
      <3>. QED BY <3>1, <3>2, MiddlewareType
    <2>2. Holds(caller, x, msg, f, 1)
      <3>1. <<>> = <<>> \o <<>> /\ "simpleauth" \notin Range(<<>>) /\ f = FALSE
        BY DEF Range
      <3>. HIDE DEF f
      <3>2. x.passed = Before(f) \o RefsUpTo(f)[1 - 1]
        BY <1>4, <2>1, <3>1
      <3>3. (x.kind = kind /\ msg.auth \in {caller.auth, None}) \/ Response(kind)
        BY <1>1, <1>4
      <3>. QED BY <1>1, <1>4, <3>1, <3>2, <3>3 DEF Holds
    <2>. QED BY <1>2, <1>3, <1>4, <1>6, <2>1, <2>2, PhaseOK
  <1>. QED BY <1>5, <1>6

-----------------------------------------------------------------------------
(* What a step does: one job moves, and what holds of jobs holds of it.    *)

Move(j, v) == j \in Jobs /\ job' = [job EXCEPT ![j] = v] /\ JobOK(caller, v)

LEMMA PcOf ==
  ASSUME ChainInv, NEW j \in Jobs
  PROVE  /\ job[j].pc # "idle" => job[j] \in JobRecords
         /\ job[j].pc = "middleware" => AtMiddleware(caller, job[j])
         /\ job[j].pc = "processor" => AtProcessor(caller, job[j])
         /\ job[j].pc = "done" => AtEnd(caller, job[j])
  <1>1. JobOK(caller, job[j])
    BY DEF ChainInv
  <1>2. job[j] = NoJob => job[j].pc = "idle"
    BY DEF NoJob
  <1>. QED BY <1>1, <1>2 DEF JobOK, AtMiddleware, AtProcessor, AtEnd

\* A hop that fails ends the job with an error.
LEMMA ErrorOK ==
  ASSUME NEW c, NEW x \in JobRecords, NEW code \in {"UNAVAILABLE", "UNKNOWN", "NOT_FOUND"}
  PROVE  JobOK(c, [x EXCEPT !.pc = "done", !.out = Error(code)])
  <1> DEFINE z == [x EXCEPT !.pc = "done", !.out = Error(code)]
  <1>1. Error(code) \in Errors
    BY DEF Error, Errors
  <1>2. z \in JobRecords /\ z.pc = "done" /\ z.out = Error(code)
    BY <1>1 DEF JobRecords
  <1>. HIDE DEF z
  <1>3. AtEnd(c, z)
    BY <1>1, <1>2 DEF AtEnd
  <1>. QED BY <1>2, <1>3 DEF JobOK, z

LEMMA MessageAtMiddleware ==
  ASSUME ChainInv, NEW j \in Jobs, job[j].pc = "middleware"
  PROVE  /\ job[j] \in JobRecords /\ AtMiddleware(caller, job[j])
         /\ job[j].msg \in Messages /\ job[j].i \in 1 .. Size
         /\ job[j].msg.type = "request" =>
              job[j].msg.method = job[j].kind /\ job[j].msg.auth \in {caller.auth, None}
  BY PcOf DEF AtMiddleware, Holds

LEMMA AnsweredType ==
  ASSUME NEW msg \in Messages, NEW code \in Codes
  PROVE  Answered(msg, code) \in Messages /\ Answered(msg, code).type = "response"
  BY DEF Answered, Messages

LEMMA Unauthorized ==
  ASSUME ChainInv, NEW j \in Jobs, job[j].pc = "middleware"
  PROVE  LET m == simpleAuth(job[j].msg)
         IN /\ m \in Messages
            /\ m.type = "request" => m = job[j].msg /\ (job[j].kind \in AuthMethods => Trusted(caller))
  <1> DEFINE msg == job[j].msg
  <1>1. msg \in Messages /\ (msg.type = "request" =>
              msg.method = job[j].kind /\ msg.auth \in {caller.auth, None})
    BY MessageAtMiddleware
  <1>2. simpleAuth(msg) \in {msg, Answered(msg, "UNAUTHORIZED")}
    BY DEF simpleAuth
  <1>3. simpleAuth(msg) = msg => msg.method \notin AuthMethods \/ caller.user \in Allowlist
                                   \/ msg.auth = "good" \/ msg = Answered(msg, "UNAUTHORIZED")
    BY DEF simpleAuth
  <1>4. Answered(msg, "UNAUTHORIZED") \in Messages /\ Answered(msg, "UNAUTHORIZED").type = "response"
    BY <1>1, AnsweredType DEF Codes
  <1>. HIDE DEF msg
  <1>5. None # "good"
    BY NoneAssumption DEF NoneAssumption
  <1>6. simpleAuth(msg).type = "request" => simpleAuth(msg) = msg
    BY <1>2, <1>4
  <1>7. simpleAuth(msg).type = "request" /\ job[j].kind \in AuthMethods => Trusted(caller)
    BY <1>1, <1>3, <1>4, <1>5, <1>6 DEF Trusted
  <1>. QED BY <1>1, <1>2, <1>4, <1>6, <1>7 DEF msg

LEMMA JobMoves ==
  ASSUME ChainInv, Next
  PROVE  caller' = caller /\ \E j, v : Move(j, v)
  <1>1. caller \in Callers
    BY DEF ChainInv
  <1>2. ASSUME NEW j \in Jobs, NEW kind \in Kinds, Receive(j, kind)
        PROVE  caller' = caller /\ \E v : Move(j, v)
    <2>1. JobOK(caller, Start(kind))
      BY <1>1, StartOK
    <2>. QED BY <1>2, <2>1 DEF Receive, Move
  <1>3. ASSUME NEW j \in Jobs, MiddlewareFails(j)
        PROVE  caller' = caller /\ \E v : Move(j, v)
    <2>1. PICK code \in {"UNAVAILABLE", "UNKNOWN"} : job' = [job EXCEPT ![j] = Done(j, Error(code))]
      BY <1>3 DEF MiddlewareFails
    <2>2. job[j] \in JobRecords
      BY <1>3, PcOf DEF MiddlewareFails
    <2>3. JobOK(caller, Done(j, Error(code)))
      BY <2>2, ErrorOK DEF Done
    <2>. QED BY <1>3, <2>1, <2>3 DEF MiddlewareFails, Move
  <1>4. ASSUME NEW j \in Jobs, Observe(j)
        PROVE  caller' = caller /\ \E v : Move(j, v)
    <2>1. job[j].pc = "middleware" /\ Middlewares[job[j].i].ref # "simpleauth"
      BY <1>4 DEF Observe
    <2>2. JobOK(caller, Passed(job[j], job[j].msg))
      BY <2>1, MessageAtMiddleware, PassedOK
    <2>. QED BY <1>4, <2>2 DEF Observe, Move
  <1>5. ASSUME NEW j \in Jobs, Process(j)
        PROVE  caller' = caller /\ \E v : Move(j, v)
    <2>1. job[j].pc = "processor" /\ job[j] \in JobRecords /\ AtProcessor(caller, job[j])
      BY <1>5, PcOf DEF Process
    <2>2. CASE ~hasMethod(job[j].msg)
      <3>1. job' = [job EXCEPT ![j] = Done(j, Error("NOT_FOUND"))]
        BY <1>5, <2>2 DEF Process
      <3>2. JobOK(caller, Done(j, Error("NOT_FOUND")))
        BY <2>1, ErrorOK DEF Done
      <3>. QED BY <1>5, <3>1, <3>2 DEF Process, Move
    <2>3. CASE hasMethod(job[j].msg)
      <3>1. PICK msg \in ProcessorResults(job[j].msg) : job' = [job EXCEPT ![j] = Processed(job[j], msg)]
        BY <1>5, <2>3 DEF Process
      <3> DEFINE x == job[j]
                 e == x.echoed
      <3>2. x.msg \in Messages /\ e \in BOOLEAN /\ (x.msg.type = "request" => ~e)
        BY <2>1 DEF AtProcessor, Holds, JobRecords
      <3>3. /\ msg \in Messages
            /\ msg.type = "request" =>
                 /\ x.msg.type = "request" /\ msg.method = x.msg.method
                 /\ msg.auth \in {caller.auth, None} /\ msg.routed = TRUE
        <4>1. CASE x.msg.type = "response"
          BY <3>1, <3>2, <4>1 DEF ProcessorResults, Messages
        <4>2. CASE x.msg.type # "response" /\ msg = [x.msg EXCEPT !.routed = TRUE, !.auth = None]
          BY <3>2, <4>2 DEF Messages
        <4>3. CASE x.msg.type # "response" /\ msg = Answered(x.msg, "TEMPORARILY_UNAVAILABLE")
          BY <3>2, <4>3, AnsweredType DEF Codes
        <4>. QED BY <3>1, <4>1, <4>2, <4>3 DEF ProcessorResults
      <3>4. JobOK(caller, [Processed(x, msg) EXCEPT !.echoed = e])
        BY <1>1, <2>1, <3>2, <3>3, ProcessedOK
      <3>5. [Processed(x, msg) EXCEPT !.echoed = e] = Processed(x, msg)
        BY <2>1 DEF Processed, Phase, JobRecords
      <3>. QED BY <1>5, <3>1, <3>4, <3>5 DEF Process, Move
    <2>. QED BY <2>2, <2>3
  <1>6. ASSUME NEW j \in Jobs, ProcessorFails(j)
        PROVE  caller' = caller /\ \E v : Move(j, v)
    <2>1. job[j].pc = "processor" /\ job[j] \in JobRecords /\ AtProcessor(caller, job[j])
      BY <1>6, PcOf DEF ProcessorFails
    <2>2. CASE job' = [job EXCEPT ![j] = Done(j, Error("UNAVAILABLE"))]
      <3>1. JobOK(caller, Done(j, Error("UNAVAILABLE")))
        BY <2>1, ErrorOK DEF Done
      <3>. QED BY <1>6, <2>2, <3>1 DEF ProcessorFails, Move
    <2>3. CASE job' = [job EXCEPT ![j] = [Processed(job[j], job[j].msg) EXCEPT !.echoed = TRUE]]
      <3> DEFINE x == job[j]
      <3>1. x.msg \in Messages /\ (x.msg.type = "request" => x.msg.auth \in {caller.auth, None} /\ ~x.msg.routed)
        BY <2>1 DEF AtProcessor, Holds
      <3>2. x.msg.routed \in BOOLEAN
        BY <3>1 DEF Messages
      <3>3. JobOK(caller, [Processed(x, x.msg) EXCEPT !.echoed = TRUE])
        BY <1>1, <2>1, <3>1, <3>2, ProcessedOK
      <3>. QED BY <1>6, <2>3, <3>3 DEF ProcessorFails, Move
    <2>. QED BY <1>6, <2>2, <2>3 DEF ProcessorFails
  <1>7. ASSUME NEW j \in Jobs, Return(j)
        PROVE  caller' = caller /\ \E v : Move(j, v)
    BY <1>7 DEF Return, Move, JobOK
  <1>8. ASSUME NEW j \in Jobs, Authenticate(j)
        PROVE  caller' = caller /\ \E v : Move(j, v)
    <2>1. job[j].pc = "middleware"
      BY <1>8 DEF Authenticate, At
    <2>2. JobOK(caller, Passed(job[j], simpleAuth(job[j].msg)))
      BY <2>1, MessageAtMiddleware, Unauthorized, PassedOK
    <2>. QED BY <1>8, <2>2 DEF Authenticate, Move
  <1>9. ASSUME NEW j \in Jobs, Skip(j)
        PROVE  caller' = caller /\ \E v : Move(j, v)
    <2>1. job[j].pc = "middleware" /\ Middlewares[job[j].i].ref # "simpleauth"
      BY <1>9 DEF Skip, At
    <2>2. JobOK(caller, Passed(job[j], job[j].msg))
      BY <2>1, MessageAtMiddleware, PassedOK
    <2>. QED BY <1>9, <2>2 DEF Skip, Move
  <1>10. ASSUME NEW j \in Jobs, query(j)
        PROVE  caller' = caller /\ \E v : Move(j, v)
    <2> DEFINE x == job[j]
               z == [x EXCEPT !.known = IF relay = "none" THEN "no" ELSE "yes"]
    <2>1. x.pc = "middleware" /\ x \in JobRecords /\ AtMiddleware(caller, x)
      BY <1>10, MessageAtMiddleware DEF query, At
    <2>2. job' = [job EXCEPT ![j] = z]
      BY <1>10 DEF query
    <2>. HIDE DEF x
    <2>3. /\ z \in JobRecords /\ z.pc = x.pc /\ z.i = x.i /\ z.msg = x.msg /\ z.kind = x.kind
          /\ z.passed = x.passed /\ z.echoed = x.echoed
      BY <2>1 DEF JobRecords
    <2>. HIDE DEF z
    <2>4. AtMiddleware(caller, z)
      BY <2>1, <2>3 DEF AtMiddleware, Holds
    <2>. QED BY <1>10, <2>2, <2>3, <2>4 DEF query, Move, JobOK
  <1>11. ASSUME NEW j \in Jobs, NEW body \in {None, "RTP/AVP", "RTP/SAVPF"}, At(j, "rtprelay")
         PROVE  JobOK(caller, Passed(job[j], [job[j].msg EXCEPT !.body = body]))
    <2> DEFINE x == job[j]
               m == [x.msg EXCEPT !.body = body]
    <2>1. x.pc = "middleware" /\ Middlewares[x.i].ref # "simpleauth" /\ x \in JobRecords
          /\ AtMiddleware(caller, x) /\ x.msg \in Messages
      BY <1>11, MessageAtMiddleware DEF At
    <2>. HIDE DEF x
    <2>2. /\ m \in Messages /\ m.type = x.msg.type /\ m.method = x.msg.method
          /\ m.auth = x.msg.auth /\ m.routed = x.msg.routed
      BY <2>1 DEF Messages
    <2>. HIDE DEF m
    <2>3. JobOK(caller, Passed(x, m))
      BY <2>1, <2>2, PassedOK
    <2>. QED BY <2>3 DEF x, m
  <1>12. ASSUME NEW j \in Jobs, At(j, "rtprelay")
         PROVE  JobOK(caller, Passed(job[j], Answered(job[j].msg, "SERVER_INTERNAL_ERROR")))
    <2> DEFINE x == job[j]
               m == Answered(x.msg, "SERVER_INTERNAL_ERROR")
    <2>1. x.pc = "middleware" /\ x \in JobRecords /\ AtMiddleware(caller, x) /\ x.msg \in Messages
      BY <1>12, MessageAtMiddleware DEF At
    <2>2. m \in Messages /\ m.type # "request"
      BY <2>1, AnsweredType DEF Codes
    <2>. HIDE DEF x, m
    <2>3. JobOK(caller, Passed(x, m))
      BY <2>1, <2>2, PassedOK
    <2>. QED BY <2>3 DEF x, m
  <1>13. ASSUME NEW j \in Jobs, Relay(j)
         PROVE  caller' = caller /\ \E v : Move(j, v)
    <2>1. At(j, "rtprelay") /\ caller' = caller
      BY <1>13 DEF Relay
    <2>2. \/ job' = [job EXCEPT ![j] = Passed(job[j], Answered(job[j].msg, "SERVER_INTERNAL_ERROR"))]
          \/ \E body \in {None, "RTP/AVP", "RTP/SAVPF"} :
                job' = [job EXCEPT ![j] = Passed(job[j], [job[j].msg EXCEPT !.body = body])]
      BY <1>13 DEF Relay, getRTPEParamsByDirection, Direction, getDirection
    <2>. QED BY <1>11, <1>12, <2>1, <2>2 DEF Move
  <1>14. ASSUME NEW j \in Jobs, RelayTimesOut(j)
         PROVE  caller' = caller /\ \E v : Move(j, v)
    <2>1. At(j, "rtprelay") /\ caller' = caller
          /\ job' = [job EXCEPT ![j] = Passed(job[j], Answered(job[j].msg, "SERVER_INTERNAL_ERROR"))]
      BY <1>14 DEF RelayTimesOut
    <2>. QED BY <1>12, <2>1 DEF Move
  <1>. QED BY <1>2, <1>3, <1>4, <1>5, <1>6, <1>7, <1>8, <1>9, <1>10, <1>13, <1>14 DEF Next

LEMMA ChainInit == Init => ChainInv
  BY DEF Init, ChainInv, JobOK, Callers

LEMMA ChainNext == ChainInv /\ [Next]_vars => ChainInv'
  <1> SUFFICES ASSUME ChainInv, [Next]_vars  PROVE ChainInv'
    OBVIOUS
  <1>1. CASE Next
    <2>1. caller' = caller
      BY <1>1, JobMoves
    <2>2. PICK j, v : Move(j, v)
      BY <1>1, JobMoves
    <2>. QED BY <2>1, <2>2 DEF Move, ChainInv
  <1>2. CASE UNCHANGED vars
    BY <1>2 DEF vars, ChainInv
  <1>. QED BY <1>1, <1>2

(***************************************************************************)
(* WholeChain: whatever the middlewares and the interleaving of the        *)
(* messages, a request leaves the dispatcher only after the whole chain,   *)
(* and past SimpleAuth only when it may.                                   *)
(***************************************************************************)
THEOREM WholeChain == Spec => []RoutedOnlyWhole
  <1>1. ChainInv => RoutedOnlyWhole
    <2> SUFFICES ASSUME ChainInv, NEW j \in Jobs, job[j].pc = "done", job[j].out.type = "request"
                 PROVE  /\ job[j].passed = RefsOf(FALSE) \o <<"processor">> \o RefsOf(TRUE)
                        /\ job[j].out.routed = ~job[j].echoed
                        /\ job[j].kind \in AuthMethods /\ "simpleauth" \in Range(job[j].passed)
                              => caller.user \in Allowlist \/ caller.auth = "good"
      BY DEF RoutedOnlyWhole
    <2>1. AtEnd(caller, job[j])
      BY PcOf
    <2>2. job[j].out \notin Errors
      BY DEF Errors
    <2>3. Holds(caller, job[j], job[j].out, TRUE, Size + 1)
      BY <2>1, <2>2 DEF AtEnd
    <2>4. RefsUpTo(TRUE)[(Size + 1) - 1] = RefsOf(TRUE)
      BY MiddlewareType DEF RefsOf, Size
    <2>. QED BY <2>3, <2>4 DEF Holds, Before, Trusted
  <1>. QED BY <1>1, ChainInit, ChainNext, PTL DEF Spec

(***************************************************************************)
(* FirstOfEach: a response of a phone meets the first middleware of each   *)
(* phase and no other, and an error response the processor alone.          *)
(***************************************************************************)
THEOREM FirstOfEach == Spec => []ResponsesPassOnce
  <1>1. ChainInv => ResponsesPassOnce
    <2> SUFFICES ASSUME ChainInv, NEW j \in Jobs, job[j].pc = "done", Response(job[j].kind),
                        job[j].out.type # "error"
                 PROVE  job[j].passed =
                            IF isErrorResponse(Message(job[j].kind)) THEN <<"processor">>
                            ELSE FirstOf(RefsOf(FALSE)) \o <<"processor">> \o FirstOf(RefsOf(TRUE))
      BY DEF ResponsesPassOnce
    <2>1. AtEnd(caller, job[j]) /\ job[j] \in JobRecords
      BY PcOf
    <2>2. job[j].out \notin Errors
      BY DEF Errors
    <2>3. isErrorResponse(Message(job[j].kind)) <=> job[j].kind = "BUSY_HERE"
      BY <2>1, MessageType DEF ChainInv, JobRecords
    <2>. QED BY <2>1, <2>2, <2>3 DEF AtEnd, FirstBefore
  <1>. QED BY <1>1, ChainInit, ChainNext, PTL DEF Spec

-----------------------------------------------------------------------------
(* The call and the engine, where RTPRelay is the first middleware after   *)
(* the processor and nowhere else.  Before it a message is as the phone    *)
(* sent it, or an answer; behind it, the media are described for its       *)
(* receiver and the engine has been told; and what was heard tells how far *)
(* the call is, so which messages can still be on the way.                 *)

\* The phases before and after the processor.
InFront == FALSE
Behind == TRUE

RelayAt == NextIn(Behind, 1)

RelayFirst == RelayAt # 0 /\ \A k \in 1 .. Size : Middlewares[k].ref = "rtprelay" <=> k = RelayAt

Profiles == {"RTP/AVP", "RTP/SAVPF"}

Active(j) == job[j].pc # "idle"

\* When the answer of a phone may come out as another.
Excused == caller.user \notin Allowlist \/ faults > 0 \/ crossed

Intact(k, m) ==
    /\ m.type = Message(k).type /\ m.method = Message(k).method
    /\ m.code = Message(k).code /\ m.body = Message(k).body

Refused(k, m) ==
    /\ m.type = "response" /\ m.body = None
    /\ m.code \in {"UNAUTHORIZED", "TEMPORARILY_UNAVAILABLE", "SERVER_INTERNAL_ERROR"}
    /\ Response(k) => Excused

\* A message before RTPRelay.
Ahead(k, m) == Intact(k, m) \/ Refused(k, m)

\* The body of a message after RTPRelay.
Described(k, m) ==
    /\ m.code = Message(k).code /\ m.body \in Profiles \cup {None}
    /\ Message(k).body = "own" => m.body # None \/ (k = "RINGING" /\ isWebRTC(caller.leg.to))
    /\ m.body \in Profiles => faults > 0 \/ (m.body = "RTP/SAVPF" <=> isWebRTC(Receiver(k)))

\* Nothing happened that RelayFollowsCall makes an exception for.
Calm ==
    /\ faults = 0 /\ sent["BYE"] = 0 /\ caller.user \in Allowlist
    /\ caller.late => sent["OK"] <= 1

\* What the engine knows once a message of kind k went past RTPRelay.
Told(k) ==
    /\ k = "BYE" => relay = "none" \/ crossed \/ faults > 0
    /\ Calm => /\ k = "INVITE" /\ ~caller.late => relay # "none"
               /\ k = "OK" /\ ~caller.late => relay = "answered"
               /\ k = "ACK" /\ caller.late => relay = "answered"

\* A message after RTPRelay, as long as it is of the kind that came in.
Past(k, m) ==
    m.type = Message(k).type => Refused(k, m) \/ (Described(k, m) /\ Told(k))

\* RTPRelay has asked the engine.
Asked(k, m, known) ==
    /\ ~shouldNotHandleRequest(m)
    /\ known = "yes" => relay # "none" \/ sent["BYE"] > 0
    /\ known = "no" => ~(Calm /\ ~caller.late /\ k \in {"RINGING", "OK"})

JobFollows(x) ==
    /\ x.pc = "processor" \/ (x.pc = "middleware" /\ Of(InFront, x.i)) =>
         Ahead(x.kind, x.msg) /\ x.known = None
    /\ x.pc = "middleware" /\ x.i = RelayAt =>
         /\ Ahead(x.kind, x.msg) /\ (Intact(x.kind, x.msg) => x.msg.routed \/ faults > 0)
         /\ x.known = None \/ (x.known \in {"no", "yes"} /\ Asked(x.kind, x.msg, x.known))
    /\ x.pc = "middleware" /\ Of(Behind, x.i) /\ x.i # RelayAt =>
         Past(x.kind, x.msg) /\ x.known = None
    /\ x.pc = "done" => Past(x.kind, x.out)

\* What was heard before a message of kind k could be sent.
Follows(k) == (k # "INVITE" => Through("INVITE")) /\ (k = "ACK" => Through("OK"))

Once(k) ==
    sent[k] <= 1 =>
        \A j \in Jobs : Active(j) /\ job[j].kind = k =>
            ~Through(k) /\ \A i \in Jobs : Active(i) /\ job[i].kind = k => i = j

OrderInv ==
    /\ sent \in [Kinds -> Nat] /\ sent["INVITE"] <= 1
    /\ \A k \in Kinds : Once(k)
    /\ \A j \in Jobs : Active(j) => \A k \in {job[j].kind} : sent[k] > 0 /\ Follows(k)
    /\ \A h \in heard : h.kind \in Kinds /\ sent[h.kind] > 0 /\ Follows(h.kind)

HeardOK(h) ==
    /\ h.body = "own" => h.replaced \/ (h.kind = "RINGING" /\ isWebRTC(caller.leg.to))
    /\ h.body \in Profiles => faults > 0 \/ (h.body = "RTP/SAVPF" <=> isWebRTC(Receiver(h.kind)))
    /\ h.replaced => Excused /\ Response(h.kind)
    /\ ~h.replaced => Told(h.kind)

RelayInv ==
    /\ faults \in Nat /\ crossed \in BOOLEAN /\ (crossed => sent["BYE"] > 0)
    /\ OrderInv
    /\ \A j \in Jobs : \A x \in {job[j]} : JobFollows(x)
    /\ \A h \in heard : HeardOK(h)


-----------------------------------------------------------------------------
(* The messages of a phone, and what RTPRelay does with them.              *)

LEMMA RelayPlace ==
  ASSUME RelayFirst
  PROVE  /\ RelayAt \in 1 .. Size /\ Of(Behind, RelayAt) /\ Middlewares[RelayAt].ref = "rtprelay"
         /\ \A k \in 1 .. Size : Of(Behind, k) => k >= RelayAt
         /\ \A k \in 1 .. Size : Middlewares[k].ref = "rtprelay" => k = RelayAt
         /\ \A k \in 1 .. Size : Of(Behind, k) => ~Of(InFront, k)
  <1>1. 1 \in 1 .. Size + 1 /\ Size \in Nat
    BY MiddlewareType
  <1> DEFINE n == RelayAt
  <1>2. n = NextIn(Behind, 1) /\ n # 0
    BY DEF RelayFirst, RelayAt
  <1>. HIDE DEF n
  <1>3. n \in 1 .. Size /\ Of(Behind, n) /\ \A k \in 1 .. n - 1 : ~Of(Behind, k)
    BY <1>1, <1>2, NextInDef
  <1>4. \A k \in 1 .. Size : Of(Behind, k) => k >= n
    BY <1>1, <1>3
  <1>5. \A k \in 1 .. Size : Middlewares[k].ref = "rtprelay" <=> k = n
    BY DEF RelayFirst, n
  <1>6. \A k \in 1 .. Size : Of(Behind, k) => ~Of(InFront, k)
    BY DEF Of, InFront, Behind
  <1>. QED BY <1>3, <1>4, <1>5, <1>6 DEF n

LEMMA MessageFacts ==
  ASSUME NEW k
  PROVE  /\ Response(k) => Message(k).type = "response" /\ Message(k).code = k
         /\ ~Response(k) => /\ Message(k).type = "request" /\ Message(k).code = None
                            /\ Message(k).method = k
         /\ Response(k) <=> k \in {"RINGING", "OK", "BUSY_HERE"}
         /\ Message(k).body \in {None, "own"} /\ ~Message(k).routed
  BY DEF Message, Response

LEMMA OwnBody ==
  ASSUME NEW k
  PROVE  Message(k).body = "own" <=> \/ k = "INVITE" /\ ~caller.late
                                     \/ k = "ACK" /\ caller.late
                                     \/ k = "RINGING" /\ ~caller.late
                                     \/ k = "OK"
  <1>1. None # "own"
    BY NoneAssumption DEF NoneAssumption
  <1>2. HasBody(k) <=> \/ k = "INVITE" /\ ~caller.late
                       \/ k = "ACK" /\ caller.late
                       \/ k = "RINGING" /\ ~caller.late
                       \/ k = "OK"
    <2>1. CASE k = "INVITE"
      BY <2>1 DEF HasBody
    <2>2. CASE k = "ACK"
      BY <2>2 DEF HasBody
    <2>3. CASE k = "RINGING"
      BY <2>3 DEF HasBody
    <2>4. CASE k \notin {"INVITE", "ACK", "RINGING"}
      BY <2>4 DEF HasBody
    <2>. QED BY <2>1, <2>2, <2>3, <2>4
  <1>. QED BY <1>1, <1>2 DEF Message

LEMMA IntactFacts ==
  ASSUME NEW k, NEW m, Intact(k, m)
  PROVE  /\ m.type = IF Response(k) THEN "response" ELSE "request"
         /\ m.code = IF Response(k) THEN k ELSE None
         /\ ~Response(k) => m.method = k
         /\ m.body = Message(k).body
         /\ ~Refused(k, m)
         /\ ~shouldNotHandleRequest(m) <=> m.body = "own" \/ k \in {"RINGING", "BYE"}
  <1>1. /\ m.type = IF Response(k) THEN "response" ELSE "request"
        /\ m.code = IF Response(k) THEN k ELSE None
        /\ ~Response(k) => m.method = k
        /\ m.body = Message(k).body /\ m.body \in {None, "own"}
    BY MessageFacts DEF Intact
  <1>2. None \notin {"own", "RINGING"}
    BY NoneAssumption DEF NoneAssumption
  <1>3. CASE Response(k)
    <2>1. m.type = "response" /\ m.code = k /\ k \in {"RINGING", "OK", "BUSY_HERE"}
      BY <1>1, <1>3, MessageFacts
    <2>2. m.body = "own" => k # "BUSY_HERE"
      BY <1>1, OwnBody
    <2>. QED BY <1>1, <1>2, <2>1, <2>2 DEF shouldNotHandleRequest, isInviteOrAckWithSDP,
               isOkOrRingingWithSDP, isBye, hasSDP, Refused
  <1>4. CASE ~Response(k)
    <2>1. m.type = "request" /\ m.code = None /\ m.method = k /\ k \notin {"RINGING", "OK", "BUSY_HERE"}
      BY <1>1, <1>4, MessageFacts
    <2>2. m.body = "own" => k \in {"INVITE", "ACK"}
      BY <1>1, <2>1, OwnBody
    <2>. QED BY <1>1, <1>2, <1>4, <2>1, <2>2 DEF shouldNotHandleRequest, isInviteOrAckWithSDP,
               isOkOrRingingWithSDP, isBye, hasSDP, Refused
  <1>. QED BY <1>3, <1>4

LEMMA RefusedFacts ==
  ASSUME NEW k, NEW m, Refused(k, m)
  PROVE  /\ shouldNotHandleRequest(m)
         /\ m.type = Message(k).type => Response(k) /\ Excused /\ m.code # Message(k).code
  <1>1. m.type = "response" /\ m.body = None
        /\ m.code \in {"UNAUTHORIZED", "TEMPORARILY_UNAVAILABLE", "SERVER_INTERNAL_ERROR"}
    BY DEF Refused
  <1>2. shouldNotHandleRequest(m)
    BY <1>1 DEF shouldNotHandleRequest, isInviteOrAckWithSDP, isOkOrRingingWithSDP, isBye, hasSDP
  <1>3. m.type = Message(k).type => Response(k) /\ m.code # Message(k).code
    BY <1>1, MessageFacts
  <1>. QED BY <1>2, <1>3 DEF Refused

\* An answer that takes the place of a message.
LEMMA AnsweredFacts ==
  ASSUME NEW k, NEW m \in Messages, Response(k) => Excused,
         NEW code \in {"UNAUTHORIZED", "TEMPORARILY_UNAVAILABLE", "SERVER_INTERNAL_ERROR"}
  PROVE  Refused(k, Answered(m, code))
  BY DEF Refused, Answered, Messages

LEMMA CommandOf ==
  ASSUME NEW k, NEW m, Intact(k, m), ~shouldNotHandleRequest(m), NEW known
  PROVE  LET command == Command(m, known)
             answer == IF known = "no" THEN "offer" ELSE "answer"
         IN  /\ k \in {"INVITE", "ACK", "BYE", "RINGING", "OK"}
             /\ k = "INVITE" => command = "offer"
             /\ k = "ACK" => command = "answer"
             /\ k = "BYE" => command = "delete"
             /\ k = "OK" => command = answer
             /\ k = "RINGING" => /\ command \in {None, answer}
                                 /\ m.body # "own" => command = None
                                 /\ m.body = "own" /\ command = None => Direction(m) = "WEB_TO_PHONE"
  <1> DEFINE answer == IF known = "no" THEN "offer" ELSE "answer"
  <1>1. /\ m.type = IF Response(k) THEN "response" ELSE "request"
        /\ m.code = IF Response(k) THEN k ELSE None
        /\ ~Response(k) => m.method = k
        /\ m.body = Message(k).body /\ m.body \in {None, "own"}
        /\ m.body = "own" \/ k \in {"RINGING", "BYE"}
    BY IntactFacts, MessageFacts
  <1>2. k \in {"INVITE", "ACK", "BYE", "RINGING", "OK"}
    BY <1>1, OwnBody
  <1>3. None \notin {"own", "RINGING", "offer", "answer"}
    BY NoneAssumption DEF NoneAssumption
  <1>4. CASE k \in {"INVITE", "ACK", "BYE"}
    <2>1. m.type = "request" /\ m.code = None /\ m.method = k
      BY <1>1, <1>4, MessageFacts
    <2>2. k = "INVITE" => Command(m, known) = "offer"
      BY <1>3, <2>1 DEF Command, isBye
    <2>3. k = "ACK" => Command(m, known) = "answer"
      BY <1>3, <2>1 DEF Command, isBye
    <2>4. k = "BYE" => Command(m, known) = "delete"
      BY <1>3, <2>1 DEF Command, isBye
    <2>. QED BY <1>2, <1>4, <2>2, <2>3, <2>4
  <1>5. CASE k \in {"RINGING", "OK"}
    <2>1. m.type = "response" /\ m.code = k
      BY <1>1, <1>5, MessageFacts
    <2>2. k = "OK" => Command(m, known) = answer
      BY <2>1 DEF Command, isBye
    <2>3. CASE k = "RINGING" /\ (Direction(m) = "WEB_TO_PHONE" \/ ~hasSDP(m))
      <3>1. Command(m, known) = None
        BY <2>1, <2>3 DEF Command, isBye
      <3>2. m.body = "own" => hasSDP(m)
        BY <1>3 DEF hasSDP
      <3>. QED BY <2>3, <3>1, <3>2
    <2>4. CASE k = "RINGING" /\ Direction(m) # "WEB_TO_PHONE" /\ hasSDP(m)
      <3>1. Command(m, known) = answer
        BY <2>1, <2>4 DEF Command, isBye
      <3>2. m.body = "own"
        BY <1>1, <2>4 DEF hasSDP
      <3>. QED BY <1>3, <2>4, <3>1, <3>2
    <2>. QED BY <1>2, <1>5, <2>2, <2>3, <2>4
  <1>. QED BY <1>2, <1>4, <1>5

LEMMA DirectionFacts ==
  ASSUME NEW k, NEW m, Intact(k, m)
  PROVE  /\ Direction(m) = "WEB_TO_PHONE" /\ k = "RINGING" => isWebRTC(caller.leg.to)
         /\ getRTPEParamsByDirection(Direction(m)) \in Profiles
         /\ m.routed =>
              (getRTPEParamsByDirection(Direction(m)) = "RTP/SAVPF" <=> isWebRTC(Receiver(k)))
  <1>1. m.type = IF Response(k) THEN "response" ELSE "request"
    BY IntactFacts
  <1>2. Response("RINGING")
    BY DEF Response
  <1>3. k = "RINGING" => Source(m) = caller.leg.to
    BY <1>1, <1>2 DEF Source
  <1>4. m.routed => Target(m) = Receiver(k)
    BY <1>1 DEF Target, Receiver
  <1> DEFINE a == isWebRTC(Source(m))
             b == isWebRTC(Target(m))
             d == Direction(m)
  <1>5. d = IF a THEN IF b THEN "WEB_TO_WEB" ELSE "WEB_TO_PHONE"
                 ELSE IF b THEN "PHONE_TO_WEB" ELSE "PHONE_TO_PHONE"
    BY DEF Direction, getDirection
  <1>6. d = "WEB_TO_PHONE" => a
    BY <1>5
  <1>. HIDE DEF d, a, b
  <1>7. getRTPEParamsByDirection(d) = IF b THEN "RTP/SAVPF" ELSE "RTP/AVP"
    <2>1. CASE b
      BY <1>5, <2>1 DEF getRTPEParamsByDirection
    <2>2. CASE ~b
      BY <1>5, <2>2 DEF getRTPEParamsByDirection
    <2>. QED BY <2>1, <2>2
  <1>. QED BY <1>3, <1>4, <1>6, <1>7 DEF a, b, d, Profiles

-----------------------------------------------------------------------------
(* Where a message gets in the chain, and what then holds of its job.      *)

InPhase(z, y, post, i, msg) ==
    /\ z.kind = y.kind /\ z.known = y.known /\ z.pc # "idle"
    /\ \/ /\ z.pc = "middleware" /\ z.msg = msg /\ z.i = NextIn(post, i)
          /\ z.i \in i .. Size /\ z.i \in 1 .. Size /\ Of(post, z.i)
       \/ post = Behind /\ NextIn(post, i) = 0 /\ z.pc = "done" /\ z.out = msg
       \/ post = InFront /\ z.pc = "processor" /\ z.msg = msg

LEMMA PhaseFacts ==
  ASSUME NEW y \in JobRecords, NEW post \in {InFront, Behind}, NEW i \in 1 .. Size + 1,
         NEW msg \in Messages
  PROVE  InPhase(Phase(y, post, i, msg), y, post, i, msg)
  <1> DEFINE k == NextIn(post, i)
             z == Phase(y, post, i, msg)
  <1>1. k = 0 \/ (k \in i .. Size /\ k \in 1 .. Size /\ Of(post, k))
    BY NextInDef, MiddlewareType
  <1>2. z = IF k # 0 THEN [y EXCEPT !.pc = "middleware", !.i = k, !.msg = msg]
            ELSE IF post THEN [y EXCEPT !.pc = "done", !.out = msg]
            ELSE [y EXCEPT !.pc = "processor", !.msg = msg]
    BY DEF Phase
  <1>. HIDE DEF k, z
  <1>3. ASSUME k # 0  PROVE InPhase(z, y, post, i, msg)
    BY <1>1, <1>2, <1>3 DEF JobRecords, k, InPhase
  <1>4. ASSUME k = 0, post = Behind  PROVE InPhase(z, y, post, i, msg)
    <2>1. z = [y EXCEPT !.pc = "done", !.out = msg]
      BY <1>2, <1>4 DEF Behind
    <2>. QED BY <1>4, <2>1 DEF JobRecords, k, InPhase
  <1>5. ASSUME k = 0, post = InFront  PROVE InPhase(z, y, post, i, msg)
    <2>1. z = [y EXCEPT !.pc = "processor", !.msg = msg]
      BY <1>2, <1>5 DEF InFront
    <2>. QED BY <1>5, <2>1 DEF JobRecords, k, InPhase
  <1>6. InPhase(z, y, post, i, msg)
    BY <1>3, <1>4, <1>5
  <1>. QED BY <1>6 DEF z

LEMMA PhasesDiffer == InFront # Behind
  BY DEF InFront, Behind

LEMMA AheadFollows ==
  ASSUME RelayFirst, NEW y \in JobRecords, y.known = None, NEW i \in 1 .. Size + 1,
         NEW msg \in Messages, NEW v, v = Phase(y, InFront, i, msg), Ahead(y.kind, msg)'
  PROVE  JobFollows(v)' /\ v.kind = y.kind /\ v.pc # "idle"
  <1>1. InPhase(v, y, InFront, i, msg)
    BY PhaseFacts
  <1>2. /\ v.kind = y.kind /\ v.known = None /\ v.pc # "idle"
        /\ v.msg = msg
        /\ v.pc = "processor" \/ (v.pc = "middleware" /\ v.i \in 1 .. Size /\ Of(InFront, v.i))
    BY <1>1, PhasesDiffer DEF InPhase
  <1>3. v.pc = "middleware" => ~Of(Behind, v.i) /\ v.i # RelayAt
    BY <1>2, RelayPlace
  <1>. QED BY <1>2, <1>3 DEF JobFollows

LEMMA RelayFollows ==
  ASSUME RelayFirst, NEW y \in JobRecords, y.known = None, NEW msg \in Messages,
         NEW v, v = Phase(y, Behind, 1, msg), Ahead(y.kind, msg)',
         Intact(y.kind, msg)' => msg.routed \/ faults' > 0
  PROVE  JobFollows(v)' /\ v.kind = y.kind /\ v.pc # "idle"
  <1>1. InPhase(v, y, Behind, 1, msg)
    <2>1. 1 \in 1 .. Size + 1
      BY MiddlewareType
    <2>. QED BY <2>1, PhaseFacts
  <1>2. NextIn(Behind, 1) = RelayAt /\ RelayAt # 0
    BY DEF RelayAt, RelayFirst
  <1>3. /\ v.kind = y.kind /\ v.known = None /\ v.pc # "idle"
        /\ v.msg = msg /\ v.pc = "middleware" /\ v.i = RelayAt
    BY <1>1, <1>2, PhasesDiffer DEF InPhase
  <1>4. ~Of(InFront, v.i)
    BY <1>3, RelayPlace
  <1>. QED BY <1>3, <1>4 DEF JobFollows

LEMMA PastFollows ==
  ASSUME RelayFirst, NEW y \in JobRecords, y.known = None, NEW i \in 1 .. Size + 1, i > RelayAt,
         NEW msg \in Messages, NEW v, v = Phase(y, Behind, i, msg), Past(y.kind, msg)'
  PROVE  JobFollows(v)' /\ v.kind = y.kind /\ v.pc # "idle"
  <1>1. InPhase(v, y, Behind, i, msg)
    BY PhaseFacts
  <1>2. /\ v.kind = y.kind /\ v.known = None /\ v.pc # "idle"
        /\ \/ v.msg = msg /\ v.pc = "middleware" /\ v.i \in i .. Size /\ v.i \in 1 .. Size /\ Of(Behind, v.i)
           \/ v.pc = "done" /\ v.out = msg
    BY <1>1, PhasesDiffer DEF InPhase
  <1>3. v.pc = "middleware" => ~Of(InFront, v.i)
    BY <1>2, RelayPlace
  <1>4. v.pc = "middleware" => v.i # RelayAt
    <2>1. RelayAt \in 1 .. Size /\ Size \in Nat
      BY RelayPlace, MiddlewareType
    <2>. HIDE DEF RelayAt
    <2>2. \A k \in i .. Size : k # RelayAt
      BY <2>1
    <2>. QED BY <1>2, <2>2
  <1>. QED BY <1>2, <1>3, <1>4 DEF JobFollows

\* A middleware gives a message back: one before the processor any that may
\* come to it, one after it any that RTPRelay may let past.
LEMMA PassedFollows ==
  ASSUME RelayFirst, NEW x \in JobRecords, x.i \in 1 .. Size, NEW msg \in Messages,
         \/ Of(InFront, x.i) /\ Ahead(x.kind, msg)'
         \/ Of(Behind, x.i) /\ Past(x.kind, msg)',
         NEW v, v = Passed(x, msg)
  PROVE  JobFollows(v)' /\ v.kind = x.kind /\ v.pc # "idle"
  <1>1. PICK i : i = IF msg.type = "response" THEN Size + 1 ELSE x.i + 1
    OBVIOUS
  <1>2. RelayAt \in 1 .. Size /\ Size \in Nat
    BY RelayPlace, MiddlewareType
  <1>3. i \in 1 .. Size + 1 /\ i > x.i
    BY <1>1, <1>2
  <1> DEFINE ref == Middlewares[x.i].ref
  <1>4. PICK y : y = [x EXCEPT !.passed = Append(@, ref), !.known = None]
    OBVIOUS
  <1>5. y \in JobRecords /\ y.kind = x.kind /\ y.known = None
    <2>1. ref \in Names
      BY MiddlewareType
    <2>. HIDE DEF ref
    <2>2. x.passed \in Seq(Names)
      BY DEF JobRecords
    <2>3. Append(x.passed, ref) \in Seq(Names)
      BY <2>1, <2>2
    <2>. QED BY <1>4, <2>3 DEF JobRecords
  <1>6. v = Phase(y, Middlewares[x.i].postProcessor, i, msg)
    BY <1>1, <1>4 DEF Passed, Size
  <1>7. CASE Of(InFront, x.i) /\ Ahead(x.kind, msg)'
    <2>1. v = Phase(y, InFront, i, msg)
      BY <1>6, <1>7 DEF Of
    <2>2. Ahead(y.kind, msg)'
      BY <1>5, <1>7
    <2>. QED BY <1>3, <1>5, <2>1, <2>2, AheadFollows
  <1>8. CASE Of(Behind, x.i) /\ Past(x.kind, msg)'
    <2>1. v = Phase(y, Behind, i, msg)
      BY <1>6, <1>8 DEF Of
    <2>2. x.i >= RelayAt
      BY <1>8, RelayPlace
    <2>3. i > RelayAt
      BY <1>2, <1>3, <2>2
    <2>4. Past(y.kind, msg)'
      BY <1>5, <1>8
    <2>. QED BY <1>3, <1>5, <2>1, <2>3, <2>4, PastFollows
  <1>. QED BY <1>7, <1>8

-----------------------------------------------------------------------------
(* What every step keeps: the caller stays, counters and flags only grow.  *)

Frame ==
    /\ caller' = caller
    /\ faults \in Nat /\ faults' \in Nat /\ faults <= faults'
    /\ crossed \in BOOLEAN /\ crossed' \in BOOLEAN /\ (crossed => crossed')
    /\ sent \in [Kinds -> Nat] /\ sent' \in [Kinds -> Nat]
    /\ \A k \in Kinds : sent[k] <= sent'[k]

LEMMA FrameCounts ==
  ASSUME Frame
  PROVE  /\ caller' = caller
         /\ faults > 0 => faults' > 0
         /\ Excused => Excused'
         /\ Calm' => Calm
         /\ sent["BYE"] > 0 => sent'["BYE"] > 0
  <1>1. "OK" \in Kinds /\ "BYE" \in Kinds
    BY KindsAssumption DEF KindsAssumption
  <1>2. sent["OK"] \in Nat /\ sent["BYE"] \in Nat /\ sent'["OK"] \in Nat /\ sent'["BYE"] \in Nat
        /\ sent["OK"] <= sent'["OK"] /\ sent["BYE"] <= sent'["BYE"]
    BY <1>1 DEF Frame
  <1>3. faults \in Nat /\ faults' \in Nat /\ faults <= faults' /\ caller' = caller /\ (crossed => crossed')
    BY DEF Frame
  <1>4. faults > 0 => faults' > 0
    BY <1>3
  <1>5. Excused => Excused'
    BY <1>3, <1>4 DEF Excused
  <1>6. Calm' => Calm
    <2>1. faults' = 0 => faults = 0
      BY <1>3
    <2>2. sent'["BYE"] = 0 => sent["BYE"] = 0
      BY <1>2
    <2>3. sent'["OK"] <= 1 => sent["OK"] <= 1
      BY <1>2
    <2>. QED BY <1>3, <2>1, <2>2, <2>3 DEF Calm
  <1>. QED BY <1>2, <1>3, <1>4, <1>5, <1>6

LEMMA FrameMessages ==
  ASSUME Frame, NEW k
  PROVE  /\ Message(k)' = Message(k)
         /\ Receiver(k)' = Receiver(k)
  <1>1. caller' = caller
    BY DEF Frame
  <1>2. HasBody(k)' = HasBody(k)
    BY <1>1 DEF HasBody
  <1>. QED BY <1>1, <1>2 DEF Message, Receiver

LEMMA FrameKeeps ==
  ASSUME Frame, NEW k, NEW m
  PROVE  /\ Intact(k, m) <=> Intact(k, m)'
         /\ Refused(k, m) => Refused(k, m)'
         /\ Ahead(k, m) => Ahead(k, m)'
         /\ Described(k, m) => Described(k, m)'
  <1>1. Message(k)' = Message(k) /\ Receiver(k)' = Receiver(k)
    BY FrameMessages
  <1>2. caller' = caller /\ (faults > 0 => faults' > 0) /\ (Excused => Excused')
    BY FrameCounts
  <1>3. Intact(k, m) <=> Intact(k, m)'
    BY <1>1 DEF Intact
  <1>4. Refused(k, m) => Refused(k, m)'
    BY <1>2 DEF Refused
  <1>5. Described(k, m) => Described(k, m)'
    BY <1>1, <1>2 DEF Described
  <1>. QED BY <1>3, <1>4, <1>5 DEF Ahead

\* The kinds of messages, other than that of job j, that were heard or are in
\* the dispatcher.
Present(j, k) == Through(k) \/ \E i \in Jobs \ {j} : Active(i) /\ job[i].kind = k

\* What the engine is known to know, it still knows after the step of job j.
Kept(j) ==
    /\ \A k : Present(j, k) /\ Told(k) => Told(k)'
    /\ relay # "none" => relay' # "none" \/ sent'["BYE"] > 0

LEMMA QuietEngine ==
  ASSUME Frame, relay' = relay
  PROVE  /\ \A k : Told(k) => Told(k)'
         /\ \A j : Kept(j)
  <1>1. (Calm' => Calm) /\ caller' = caller /\ (faults > 0 => faults' > 0) /\ (crossed => crossed')
    BY FrameCounts DEF Frame
  <1>2. \A k : Told(k) => Told(k)'
    BY <1>1 DEF Told
  <1>. QED BY <1>2 DEF Kept

\* Another job and a message that was heard.
LEMMA Others ==
  ASSUME Frame, NEW j, Kept(j)
  PROVE  /\ \A x : Present(j, x.kind) /\ JobFollows(x) => JobFollows(x)'
         /\ \A h : Present(j, h.kind) /\ HeardOK(h) => HeardOK(h)'
  <1>1. /\ caller' = caller /\ (faults > 0 => faults' > 0) /\ (Excused => Excused')
        /\ (Calm' => Calm) /\ (sent["BYE"] > 0 => sent'["BYE"] > 0)
    BY FrameCounts
  <1>2. ASSUME NEW x, Present(j, x.kind), JobFollows(x)  PROVE JobFollows(x)'
    <2>1. Told(x.kind) => Told(x.kind)'
      BY <1>2 DEF Kept
    <2>2. \A m : Past(x.kind, m) => Past(x.kind, m)'
      <3>1. ASSUME NEW m, Past(x.kind, m)  PROVE Past(x.kind, m)'
        <4>1. Message(x.kind)' = Message(x.kind)
          BY FrameMessages
        <4>2. (Refused(x.kind, m) => Refused(x.kind, m)') /\ (Described(x.kind, m) => Described(x.kind, m)')
          BY FrameKeeps
        <4>. QED BY <2>1, <3>1, <4>1, <4>2 DEF Past
      <3>. QED BY <3>1
    <2>3. \A m, known : Asked(x.kind, m, known) => Asked(x.kind, m, known)'
      <3>1. ASSUME NEW m, NEW known, Asked(x.kind, m, known)  PROVE Asked(x.kind, m, known)'
        <4>1. relay # "none" => relay' # "none" \/ sent'["BYE"] > 0
          BY DEF Kept
        <4>. QED BY <1>1, <3>1, <4>1 DEF Asked
      <3>. QED BY <3>1
    <2>4. \A m : Ahead(x.kind, m) => Ahead(x.kind, m)'
      BY FrameKeeps
    <2>5. \A m : Intact(x.kind, m)' => Intact(x.kind, m)
      BY FrameKeeps
    <2>. QED BY <1>1, <1>2, <2>2, <2>3, <2>4, <2>5 DEF JobFollows
  <1>3. ASSUME NEW h, Present(j, h.kind), HeardOK(h)  PROVE HeardOK(h)'
    <2>1. Told(h.kind) => Told(h.kind)'
      BY <1>3 DEF Kept
    <2>2. Receiver(h.kind)' = Receiver(h.kind)
      BY FrameMessages
    <2>. QED BY <1>1, <1>3, <2>1, <2>2 DEF HeardOK
  <1>. QED BY <1>2, <1>3

-----------------------------------------------------------------------------
(* A step of one job, when nothing is handed in or heard.                  *)

LEMMA OrderReads ==
  ASSUME RelayInv
  PROVE  /\ sent \in [Kinds -> Nat] /\ sent["INVITE"] <= 1
         /\ \A k \in Kinds : Once(k)
         /\ \A j \in Jobs : Active(j) => \A k \in {job[j].kind} : sent[k] > 0 /\ Follows(k)
         /\ \A h \in heard : h.kind \in Kinds /\ sent[h.kind] > 0 /\ Follows(h.kind)
  BY DEF RelayInv, OrderInv

LEMMA JobReads ==
  ASSUME RelayInv, NEW j \in Jobs, NEW x, x = job[j]
  PROVE  JobFollows(x)
  BY DEF RelayInv

LEMMA StepInv ==
  ASSUME ChainInv, RelayInv, Frame, NEW j \in Jobs, NEW x, x = job[j], x.pc # "idle",
         NEW v, job' = [job EXCEPT ![j] = v], v.kind = x.kind, v.pc # "idle", JobFollows(v)',
         heard' = heard, sent' = sent, Kept(j), crossed' => sent'["BYE"] > 0
  PROVE  RelayInv'
  <1>1. DOMAIN job = Jobs
    BY DEF ChainInv
  <1>2. job'[j] = v /\ \A i \in Jobs \ {j} : job'[i] = job[i]
    BY <1>1
  <1>3. \A i \in Jobs : Active(i)' = Active(i) /\ job'[i].kind = job[i].kind
    BY <1>2 DEF Active
  <1>4. \A k : Through(k)' = Through(k)
    BY DEF Through
  <1>5. OrderInv'
    <2>1. OrderInv
      BY DEF RelayInv
    <2>2. \A k : (Follows(k) => Follows(k)')
      BY <1>4 DEF Follows
    <2>3. \A k \in Kinds : Once(k)'
      <3>1. ASSUME NEW k \in Kinds  PROVE Once(k)'
        <4>1. Once(k)
          BY <2>1 DEF OrderInv
        <4>. QED BY <1>3, <1>4, <4>1 DEF Once
      <3>. QED BY <3>1
    <2>4. sent' \in [Kinds -> Nat] /\ sent'["INVITE"] <= 1
      BY <2>1 DEF OrderInv
    <2>5. ASSUME NEW i \in Jobs, Active(i)', NEW k \in {job'[i].kind}
          PROVE  sent'[k] > 0 /\ Follows(k)'
      <3>1. Active(i) /\ k \in {job[i].kind}
        BY <1>3, <2>5
      <3>2. sent[k] > 0 /\ Follows(k)
        BY <2>1, <3>1 DEF OrderInv
      <3>. QED BY <2>2, <3>2
    <2>6. \A h \in heard' : h.kind \in Kinds /\ sent'[h.kind] > 0 /\ Follows(h.kind)'
      BY <2>1, <2>2 DEF OrderInv
    <2>. QED BY <2>3, <2>4, <2>5, <2>6 DEF OrderInv
  <1>6. \A i \in Jobs : \A y \in {job'[i]} : JobFollows(y)'
    <2>1. ASSUME NEW i \in Jobs, i # j, NEW y, y = job[i]  PROVE JobFollows(y)'
      <3>1. JobFollows(y)
        BY <2>1, JobReads
      <3>2. CASE y.pc # "idle"
        <4>1. Present(j, y.kind)
          BY <2>1, <3>2 DEF Present, Active
        <4>. QED BY <3>1, <4>1, Others
      <3>3. CASE y.pc = "idle"
        BY <3>3 DEF JobFollows
      <3>. QED BY <3>2, <3>3
    <2>. QED BY <1>2, <2>1
  <1>7. \A h \in heard' : HeardOK(h)'
    <2>1. ASSUME NEW h \in heard  PROVE HeardOK(h)'
      <3>1. HeardOK(h)
        BY DEF RelayInv
      <3>2. Present(j, h.kind)
        BY DEF Present, Through
      <3>. QED BY <3>1, <3>2, Others
    <2>. QED BY <2>1
  <1>8. faults' \in Nat /\ crossed' \in BOOLEAN
    BY DEF Frame
  <1>. QED BY <1>5, <1>6, <1>7, <1>8 DEF RelayInv

\* What a step of a job changes at most, but for the engine and the counters.
LEMMA FrameHolds ==
  ASSUME RelayInv, caller' = caller, faults' \in {faults, faults + 1}, crossed' \in BOOLEAN,
         crossed => crossed', sent' = sent
  PROVE  Frame /\ faults' \in Nat /\ (faults' # faults => faults' > 0)
  <1>1. faults \in Nat /\ crossed \in BOOLEAN /\ sent \in [Kinds -> Nat]
    BY OrderReads DEF RelayInv
  <1>2. \A k \in Kinds : sent[k] \in Nat
    BY <1>1
  <1>. QED BY <1>1, <1>2 DEF Frame

LEMMA ErrorFollows ==
  ASSUME NEW x \in JobRecords, NEW code, NEW v, v = [x EXCEPT !.pc = "done", !.out = Error(code)]
  PROVE  JobFollows(v)' /\ v.kind = x.kind /\ v.pc # "idle"
  <1>1. v.pc = "done" /\ v.kind = x.kind /\ v.out.type = "error"
    BY DEF JobRecords, Error
  <1>2. Message(v.kind)'.type # "error"
    BY DEF Message
  <1>. QED BY <1>1, <1>2 DEF JobFollows, Past

\* The phase a job at a middleware is in.
LEMMA AtPhase ==
  ASSUME ChainInv, NEW j \in Jobs, NEW x, x = job[j], x.pc = "middleware"
  PROVE  /\ x \in JobRecords /\ x.msg \in Messages /\ x.i \in 1 .. Size
         /\ Of(InFront, x.i) \/ Of(Behind, x.i)
  <1>1. x \in JobRecords /\ AtMiddleware(caller, x)
    BY MessageAtMiddleware
  <1>2. PICK post \in BOOLEAN : Of(post, x.i) /\ x.i \in 1 .. Size /\ Holds(caller, x, x.msg, post, x.i)
    BY <1>1 DEF AtMiddleware
  <1>3. post \in {InFront, Behind}
    BY DEF InFront, Behind
  <1>. QED BY <1>1, <1>2, <1>3 DEF Holds

-----------------------------------------------------------------------------
(* The steps of the processor.                                             *)

\* Told is about these kinds alone.
LEMMA NothingToTell ==
  ASSUME NEW k, k \notin {"INVITE", "OK", "ACK", "BYE"}
  PROVE  Told(k)'
  BY DEF Told

\* What the processor gives back: v as it is, or with the mark of an echo.
LEMMA ProcessedFollows ==
  ASSUME RelayFirst, caller \in Callers, Frame, NEW x \in JobRecords, x.known = None,
         NEW msg \in Messages, Ahead(x.kind, msg),
         Intact(x.kind, msg) => msg.routed \/ faults' > 0,
         NEW e \in BOOLEAN, NEW v, v = [Processed(x, msg) EXCEPT !.echoed = e]
  PROVE  JobFollows(v)' /\ v.kind = x.kind /\ v.pc # "idle"
  <1> DEFINE p == "processor"
  <1>1. x.kind \in Kinds /\ Append(x.passed, p) \in Seq(Names)
    <2>1. p \in Names
      BY DEF Names
    <2>. HIDE DEF p
    <2>. QED BY <2>1 DEF JobRecords
  <1>2. PICK w : w = [x EXCEPT !.passed = Append(@, p)]
    OBVIOUS
  <1>3. PICK y : y = [w EXCEPT !.echoed = e]
    OBVIOUS
  <1>. HIDE DEF p
  <1>4. w \in JobRecords /\ y \in JobRecords /\ y.kind = x.kind /\ y.known = None
    BY <1>1, <1>2, <1>3 DEF JobRecords
  <1>5. isErrorResponse(Message(x.kind)) <=> x.kind = "BUSY_HERE"
    BY <1>1, MessageType
  <1>6. Ahead(x.kind, msg)' /\ (Intact(x.kind, msg)' => msg.routed \/ faults' > 0)
    BY FrameKeeps
  <1>7. CASE x.kind = "BUSY_HERE"
    <2>1. Processed(x, msg) = [w EXCEPT !.pc = "done", !.out = msg]
      BY <1>2, <1>5, <1>7 DEF Processed, p
    <2>2. v.pc = "done" /\ v.out = msg /\ v.kind = x.kind
      BY <1>2, <1>4, <2>1 DEF JobRecords
    <2>3. Refused(x.kind, msg) \/ Described(x.kind, msg)
      <3>1. CASE Intact(x.kind, msg)
        <4>1. msg.code = Message(x.kind).code /\ msg.body = Message(x.kind).body
          BY <3>1 DEF Intact
        <4>2. Message(x.kind).body # "own" /\ Message(x.kind).body \in {None, "own"}
          BY <1>7, OwnBody, MessageFacts
        <4>3. None \notin Profiles
          BY NoneAssumption DEF NoneAssumption, Profiles
        <4>. QED BY <4>1, <4>2, <4>3 DEF Described
      <3>. QED BY <3>1 DEF Ahead
    <2>4. Past(x.kind, msg)'
      <3>1. Refused(x.kind, msg)' \/ Described(x.kind, msg)'
        BY <2>3, FrameKeeps
      <3>2. Told(x.kind)'
        BY <1>7, NothingToTell
      <3>. QED BY <3>1, <3>2 DEF Past
    <2>. QED BY <2>2, <2>4 DEF JobFollows
  <1>8. CASE x.kind # "BUSY_HERE"
    <2>1. Processed(x, msg) = Phase(w, Behind, 1, msg)
      BY <1>2, <1>5, <1>8 DEF Processed, p, Behind
    <2>2. v = Phase(y, Behind, 1, msg)
      <3> DEFINE t == Behind
      <3>1. t = TRUE
        BY DEF Behind
      <3>2. v = [Phase(w, t, 1, msg) EXCEPT !.echoed = e]
        BY <2>1
      <3>. HIDE DEF t
      <3>3. ASSUME NextIn(t, 1) # 0  PROVE v = Phase(y, t, 1, msg)
        BY <1>3, <1>4, <3>2, <3>3 DEF Phase, JobRecords
      <3>4. ASSUME NextIn(t, 1) = 0  PROVE v = Phase(y, t, 1, msg)
        BY <1>3, <1>4, <3>1, <3>2, <3>4 DEF Phase, JobRecords
      <3>5. v = Phase(y, t, 1, msg)
        BY <3>3, <3>4
      <3>. QED BY <3>5 DEF t
    <2>3. Ahead(y.kind, msg)' /\ (Intact(y.kind, msg)' => msg.routed \/ faults' > 0)
      BY <1>4, <1>6
    <2>4. JobFollows(v)' /\ v.kind = y.kind /\ v.pc # "idle"
      BY <1>4, <2>2, <2>3, RelayFollows
    <2>. QED BY <1>4, <2>4
  <1>. QED BY <1>7, <1>8

LEMMA AtProcessorReads ==
  ASSUME ChainInv, RelayInv, NEW j \in Jobs, NEW x, x = job[j], x.pc = "processor"
  PROVE  /\ x \in JobRecords /\ x.msg \in Messages /\ Ahead(x.kind, x.msg) /\ x.known = None
         /\ caller \in Callers
  <1>1. x \in JobRecords /\ AtProcessor(caller, x)
    BY PcOf
  <1>2. JobFollows(x)
    BY JobReads
  <1>. QED BY <1>1, <1>2 DEF AtProcessor, Holds, JobFollows, ChainInv

LEMMA ProcessStep ==
  ASSUME RelayFirst, ChainInv, RelayInv, NEW j \in Jobs, Process(j)
  PROVE  RelayInv'
  <1>1. PICK x : x = job[j]
    OBVIOUS
  <1>2. /\ x.pc = "processor" /\ caller' = caller /\ faults' = faults /\ crossed' = crossed /\ relay' = relay
        /\ sent' = sent /\ heard' = heard
    BY <1>1 DEF Process
  <1>3. Frame /\ Kept(j) /\ (crossed' => sent'["BYE"] > 0)
    <2>1. crossed \in BOOLEAN /\ (crossed => sent["BYE"] > 0)
      BY DEF RelayInv
    <2>2. Frame
      BY <1>2, <2>1, FrameHolds
    <2>. QED BY <1>2, <2>1, <2>2, QuietEngine
  <1>4. x \in JobRecords /\ x.msg \in Messages /\ Ahead(x.kind, x.msg) /\ x.known = None /\ caller \in Callers
    BY <1>1, <1>2, AtProcessorReads
  <1>5. CASE ~hasMethod(x.msg)
    <2>1. PICK v : v = [x EXCEPT !.pc = "done", !.out = Error("NOT_FOUND")]
      OBVIOUS
    <2>2. job' = [job EXCEPT ![j] = v]
      BY <1>1, <1>5, <2>1 DEF Process, Done
    <2>3. JobFollows(v)' /\ v.kind = x.kind /\ v.pc # "idle"
      BY <1>4, <2>1, ErrorFollows
    <2>. QED BY <1>1, <1>2, <1>3, <2>2, <2>3, StepInv
  <1>6. CASE hasMethod(x.msg)
    <2>1. PICK msg \in ProcessorResults(x.msg) : job' = [job EXCEPT ![j] = Processed(x, msg)]
      BY <1>1, <1>6 DEF Process
    <2>2. /\ msg \in Messages /\ Ahead(x.kind, msg)
          /\ Intact(x.kind, msg) => msg.routed
      <3>1. CASE msg = [x.msg EXCEPT !.routed = TRUE] \/ msg = [x.msg EXCEPT !.routed = TRUE, !.auth = None]
        <4>1. /\ msg \in Messages /\ msg.type = x.msg.type /\ msg.method = x.msg.method
              /\ msg.code = x.msg.code /\ msg.body = x.msg.body /\ msg.routed = TRUE
          BY <1>4, <3>1 DEF Messages
        <4>. QED BY <1>4, <4>1 DEF Ahead, Intact, Refused
      <3>2. CASE x.msg.type # "response" /\ msg = Answered(x.msg, "TEMPORARILY_UNAVAILABLE")
        <4>1. msg \in Messages
          BY <1>4, <3>2, AnsweredType DEF Codes
        <4>2. Intact(x.kind, x.msg)
          BY <1>4, <3>2 DEF Ahead, Refused
        <4>3. ~Response(x.kind)
          BY <3>2, <4>2, IntactFacts
        <4>4. Refused(x.kind, msg)
          BY <1>4, <3>2, <4>3, AnsweredFacts
        <4>5. ~Intact(x.kind, msg)
          BY <4>4, IntactFacts
        <4>. QED BY <4>1, <4>4, <4>5 DEF Ahead
      <3>. QED BY <2>1, <3>1, <3>2 DEF ProcessorResults
    <2>3. PICK e \in BOOLEAN : e = x.echoed
      BY <1>4 DEF JobRecords
    <2>4. PICK v : v = Processed(x, msg)
      OBVIOUS
    <2>5. v = [Processed(x, msg) EXCEPT !.echoed = e]
      BY <1>4, <2>3, <2>4 DEF Processed, Phase, JobRecords
    <2>6. JobFollows(v)' /\ v.kind = x.kind /\ v.pc # "idle"
      BY <1>3, <1>4, <2>2, <2>5, ProcessedFollows
    <2>. QED BY <1>1, <1>2, <1>3, <2>1, <2>4, <2>6, StepInv
  <1>. QED BY <1>5, <1>6

LEMMA ProcessorFailsStep ==
  ASSUME RelayFirst, ChainInv, RelayInv, NEW j \in Jobs, ProcessorFails(j)
  PROVE  RelayInv'
  <1>1. PICK x : x = job[j]
    OBVIOUS
  <1>2. /\ x.pc = "processor" /\ caller' = caller /\ faults' = faults + 1 /\ crossed' = crossed
        /\ relay' = relay /\ sent' = sent /\ heard' = heard
    BY <1>1 DEF ProcessorFails, Fault
  <1>3. Frame /\ Kept(j) /\ (crossed' => sent'["BYE"] > 0) /\ faults' > 0
    <2>1. crossed \in BOOLEAN /\ (crossed => sent["BYE"] > 0) /\ faults \in Nat
      BY DEF RelayInv
    <2>2. Frame /\ faults' > 0
      BY <1>2, <2>1, FrameHolds
    <2>. QED BY <1>2, <2>1, <2>2, QuietEngine
  <1>4. x \in JobRecords /\ x.msg \in Messages /\ Ahead(x.kind, x.msg) /\ x.known = None /\ caller \in Callers
    BY <1>1, <1>2, AtProcessorReads
  <1>5. CASE job' = [job EXCEPT ![j] = Done(j, Error("UNAVAILABLE"))]
    <2>1. PICK v : v = [x EXCEPT !.pc = "done", !.out = Error("UNAVAILABLE")]
      OBVIOUS
    <2>2. job' = [job EXCEPT ![j] = v]
      BY <1>1, <1>5, <2>1 DEF Done
    <2>3. JobFollows(v)' /\ v.kind = x.kind /\ v.pc # "idle"
      BY <1>4, <2>1, ErrorFollows
    <2>. QED BY <1>1, <1>2, <1>3, <2>2, <2>3, StepInv
  <1>6. CASE job' = [job EXCEPT ![j] = [Processed(job[j], job[j].msg) EXCEPT !.echoed = TRUE]]
    <2>1. PICK v : v = [Processed(x, x.msg) EXCEPT !.echoed = TRUE]
      OBVIOUS
    <2>2. JobFollows(v)' /\ v.kind = x.kind /\ v.pc # "idle"
      BY <1>3, <1>4, <2>1, ProcessedFollows
    <2>. QED BY <1>1, <1>2, <1>3, <1>6, <2>1, <2>2, StepInv
  <1>. QED BY <1>5, <1>6 DEF ProcessorFails

-----------------------------------------------------------------------------
(* The steps of the middlewares but for the commands of RTPRelay.          *)

LEMMA AtMiddlewareReads ==
  ASSUME RelayFirst, ChainInv, RelayInv, NEW j \in Jobs, NEW x, x = job[j], x.pc = "middleware"
  PROVE  /\ x \in JobRecords /\ x.msg \in Messages /\ x.i \in 1 .. Size
         /\ Of(InFront, x.i) => Ahead(x.kind, x.msg) /\ Middlewares[x.i].ref # "rtprelay"
         /\ Middlewares[x.i].ref = "rtprelay" <=> x.i = RelayAt
         /\ x.i = RelayAt =>
              /\ Ahead(x.kind, x.msg) /\ (Intact(x.kind, x.msg) => x.msg.routed \/ faults > 0)
              /\ x.known = None \/ (x.known \in {"no", "yes"} /\ Asked(x.kind, x.msg, x.known))
         /\ Of(Behind, x.i) /\ x.i # RelayAt => Past(x.kind, x.msg)
         /\ Of(InFront, x.i) \/ Of(Behind, x.i)
         /\ sent[x.kind] > 0 /\ Follows(x.kind)
  <1>1. x \in JobRecords /\ x.msg \in Messages /\ x.i \in 1 .. Size /\ (Of(InFront, x.i) \/ Of(Behind, x.i))
    BY AtPhase
  <1>2. JobFollows(x)
    BY JobReads
  <1>3. Middlewares[x.i].ref = "rtprelay" <=> x.i = RelayAt
    BY <1>1 DEF RelayFirst
  <1>4. Of(InFront, x.i) => x.i # RelayAt
    BY RelayPlace
  <1>5. sent[x.kind] > 0 /\ Follows(x.kind)
    BY OrderReads DEF Active
  <1>. QED BY <1>1, <1>2, <1>3, <1>4, <1>5 DEF JobFollows

\* The frame of a step that leaves the engine and all flags alone.
LEMMA QuietFrame ==
  ASSUME RelayInv, caller' = caller, faults' \in {faults, faults + 1}, crossed' = crossed,
         relay' = relay, sent' = sent
  PROVE  /\ Frame /\ (\A j : Kept(j)) /\ (crossed' => sent'["BYE"] > 0)
         /\ faults' # faults => faults' > 0
  <1>1. crossed \in BOOLEAN /\ (crossed => sent["BYE"] > 0)
    BY DEF RelayInv
  <1>2. Frame /\ (faults' # faults => faults' > 0)
    BY <1>1, FrameHolds
  <1>. QED BY <1>1, <1>2, QuietEngine

LEMMA MiddlewareFailsStep ==
  ASSUME RelayFirst, ChainInv, RelayInv, NEW j \in Jobs, MiddlewareFails(j)
  PROVE  RelayInv'
  <1>1. PICK x : x = job[j]
    OBVIOUS
  <1>2. /\ x.pc = "middleware" /\ caller' = caller /\ faults' = faults + 1 /\ crossed' = crossed
        /\ relay' = relay /\ sent' = sent /\ heard' = heard
    BY <1>1 DEF MiddlewareFails, Fault
  <1>3. Frame /\ Kept(j) /\ (crossed' => sent'["BYE"] > 0)
    BY <1>2, QuietFrame
  <1>4. PICK code : job' = [job EXCEPT ![j] = Done(j, Error(code))]
    BY DEF MiddlewareFails
  <1>5. PICK v : v = [x EXCEPT !.pc = "done", !.out = Error(code)]
    OBVIOUS
  <1>6. job' = [job EXCEPT ![j] = v]
    BY <1>1, <1>4, <1>5 DEF Done
  <1>7. JobFollows(v)' /\ v.kind = x.kind /\ v.pc # "idle"
    <2>1. x \in JobRecords
      BY <1>1, <1>2, AtMiddlewareReads
    <2>. QED BY <1>5, <2>1, ErrorFollows
  <1>. QED BY <1>1, <1>2, <1>3, <1>6, <1>7, StepInv

\* A middleware other than RTPRelay gives back its message or an answer.
LEMMA GivesBack ==
  ASSUME RelayFirst, ChainInv, RelayInv, NEW j \in Jobs, NEW x, x = job[j], x.pc = "middleware",
         Middlewares[x.i].ref # "rtprelay", NEW msg \in Messages,
         msg = x.msg \/ Refused(x.kind, msg),
         job' = [job EXCEPT ![j] = Passed(x, msg)],
         caller' = caller, faults' = faults, crossed' = crossed, relay' = relay, sent' = sent, heard' = heard
  PROVE  RelayInv'
  <1>1. Frame /\ Kept(j) /\ (crossed' => sent'["BYE"] > 0)
    BY QuietFrame
  <1>2. /\ x \in JobRecords /\ x.msg \in Messages /\ x.i \in 1 .. Size
        /\ Of(InFront, x.i) => Ahead(x.kind, x.msg)
        /\ Of(Behind, x.i) => Past(x.kind, x.msg)
        /\ Of(InFront, x.i) \/ Of(Behind, x.i)
    BY AtMiddlewareReads
  <1>3. PICK v : v = Passed(x, msg)
    OBVIOUS
  <1>4. Of(InFront, x.i) => Ahead(x.kind, msg)'
    <2>1. Of(InFront, x.i) => Ahead(x.kind, msg)
      BY <1>2 DEF Ahead
    <2>. QED BY <1>1, <2>1, FrameKeeps
  <1>5. Of(Behind, x.i) => Past(x.kind, msg)'
    <2>1. Refused(x.kind, msg) => Past(x.kind, msg)'
      BY <1>1, FrameKeeps DEF Past
    <2>2. Of(Behind, x.i) /\ msg = x.msg => Past(x.kind, msg)'
      <3>1. ASSUME Past(x.kind, msg)  PROVE Past(x.kind, msg)'
        <4>1. Message(x.kind)' = Message(x.kind) /\ (Refused(x.kind, msg) => Refused(x.kind, msg)')
              /\ (Described(x.kind, msg) => Described(x.kind, msg)')
          BY <1>1, FrameMessages, FrameKeeps
        <4>2. Told(x.kind) => Told(x.kind)'
          BY <1>1, QuietEngine
        <4>. QED BY <3>1, <4>1, <4>2 DEF Past
      <3>. QED BY <1>2, <3>1
    <2>. QED BY <2>1, <2>2
  <1>6. JobFollows(v)' /\ v.kind = x.kind /\ v.pc # "idle"
    BY <1>2, <1>3, <1>4, <1>5, PassedFollows
  <1>. QED BY <1>1, <1>3, <1>6, StepInv

LEMMA ObserveStep ==
  ASSUME RelayFirst, ChainInv, RelayInv, NEW j \in Jobs, Observe(j)
  PROVE  RelayInv'
  <1>1. PICK x : x = job[j]
    OBVIOUS
  <1>2. /\ x.pc = "middleware" /\ Middlewares[x.i].ref # "rtprelay"
        /\ job' = [job EXCEPT ![j] = Passed(x, x.msg)]
        /\ caller' = caller /\ faults' = faults /\ crossed' = crossed
        /\ relay' = relay /\ sent' = sent /\ heard' = heard
    BY <1>1 DEF Observe
  <1>3. x.msg \in Messages
    BY <1>1, <1>2, AtMiddlewareReads
  <1>. QED BY <1>1, <1>2, <1>3, GivesBack

LEMMA AuthenticateStep ==
  ASSUME RelayFirst, ChainInv, RelayInv, NEW j \in Jobs, Authenticate(j)
  PROVE  RelayInv'
  <1>1. PICK x : x = job[j]
    OBVIOUS
  <1>2. PICK msg : msg = simpleAuth(x.msg)
    OBVIOUS
  <1>3. /\ x.pc = "middleware" /\ Middlewares[x.i].ref # "rtprelay"
        /\ job' = [job EXCEPT ![j] = Passed(x, msg)]
        /\ caller' = caller /\ faults' = faults /\ crossed' = crossed
        /\ relay' = relay /\ sent' = sent /\ heard' = heard
    BY <1>1, <1>2 DEF Authenticate, At
  <1>4. x.msg \in Messages /\ msg \in Messages
    BY <1>1, <1>2, <1>3, MessageAtMiddleware, Unauthorized
  <1>5. msg = x.msg \/ (msg = Answered(x.msg, "UNAUTHORIZED") /\ caller.user \notin Allowlist)
    BY <1>2 DEF simpleAuth
  <1>6. msg = x.msg \/ Refused(x.kind, msg)
    <2>1. caller.user \notin Allowlist => Excused
      BY DEF Excused
    <2>. QED BY <1>4, <1>5, <2>1, AnsweredFacts
  <1>. QED BY <1>1, <1>3, <1>4, <1>6, GivesBack

LEMMA SkipStep ==
  ASSUME RelayFirst, ChainInv, RelayInv, NEW j \in Jobs, Skip(j)
  PROVE  RelayInv'
  <1>1. PICK x : x = job[j]
    OBVIOUS
  <1>2. /\ x.pc = "middleware" /\ Middlewares[x.i].ref = "rtprelay" /\ shouldNotHandleRequest(x.msg)
        /\ job' = [job EXCEPT ![j] = Passed(x, x.msg)]
        /\ caller' = caller /\ faults' = faults /\ crossed' = crossed
        /\ relay' = relay /\ sent' = sent /\ heard' = heard
    BY <1>1 DEF Skip, At
  <1>3. Frame /\ Kept(j) /\ (crossed' => sent'["BYE"] > 0)
    BY <1>2, QuietFrame
  <1>4. /\ x \in JobRecords /\ x.msg \in Messages /\ x.i \in 1 .. Size
        /\ Ahead(x.kind, x.msg) /\ Of(Behind, x.i)
    BY <1>1, <1>2, AtMiddlewareReads
  <1>5. ASSUME Refused(x.kind, x.msg)  PROVE Past(x.kind, x.msg)'
    BY <1>3, <1>5, FrameKeeps DEF Past
  <1>6. ASSUME Intact(x.kind, x.msg)  PROVE Past(x.kind, x.msg)'
    <2>1. /\ x.msg.body = None /\ x.msg.code = Message(x.kind).code
          /\ Message(x.kind).body # "own" /\ x.kind # "BYE"
      <3>1. x.msg.body # "own" /\ x.kind # "BYE"
        BY <1>2, <1>6, IntactFacts
      <3>2. x.msg.code = Message(x.kind).code /\ x.msg.body = Message(x.kind).body
        BY <1>6 DEF Intact
      <3>3. Message(x.kind).body \in {None, "own"}
        BY MessageFacts
      <3>. QED BY <3>1, <3>2, <3>3
    <2>2. None \notin Profiles
      BY NoneAssumption DEF NoneAssumption, Profiles
    <2>3. Described(x.kind, x.msg)
      BY <2>1, <2>2 DEF Described
    <2>4. /\ x.kind = "INVITE" => caller.late
          /\ x.kind # "OK"
          /\ x.kind = "ACK" => ~caller.late
      BY <2>1, OwnBody
    <2>5. Told(x.kind)'
      BY <1>2, <2>1, <2>4 DEF Told
    <2>6. Described(x.kind, x.msg)'
      BY <1>3, <2>3, FrameKeeps
    <2>. QED BY <2>5, <2>6 DEF Past
  <1>7. PICK v : v = Passed(x, x.msg)
    OBVIOUS
  <1>8. Past(x.kind, x.msg)'
    BY <1>4, <1>5, <1>6 DEF Ahead
  <1>9. JobFollows(v)' /\ v.kind = x.kind /\ v.pc # "idle"
    BY <1>4, <1>7, <1>8, PassedFollows
  <1>. QED BY <1>1, <1>2, <1>3, <1>7, <1>9, StepInv

LEMMA QueryStep ==
  ASSUME RelayFirst, ChainInv, RelayInv, NEW j \in Jobs, query(j)
  PROVE  RelayInv'
  <1>1. PICK x : x = job[j]
    OBVIOUS
  <1>2. PICK known : known = IF relay = "none" THEN "no" ELSE "yes"
    OBVIOUS
  <1>3. PICK v : v = [x EXCEPT !.known = known]
    OBVIOUS
  <1>4. /\ x.pc = "middleware" /\ Middlewares[x.i].ref = "rtprelay" /\ ~shouldNotHandleRequest(x.msg)
        /\ caller' = caller /\ faults' = faults /\ crossed' = crossed
        /\ relay' = relay /\ sent' = sent /\ heard' = heard
    BY <1>1 DEF query, At
  <1>5. job' = [job EXCEPT ![j] = v]
    BY <1>1, <1>2, <1>3 DEF query
  <1>6. Frame /\ Kept(j) /\ (crossed' => sent'["BYE"] > 0)
    BY <1>4, QuietFrame
  <1>7. /\ x \in JobRecords /\ x.i = RelayAt /\ Of(Behind, x.i) /\ ~Of(InFront, x.i)
        /\ Ahead(x.kind, x.msg) /\ (Intact(x.kind, x.msg) => x.msg.routed \/ faults > 0)
        /\ Follows(x.kind)
    BY <1>1, <1>4, AtMiddlewareReads, RelayPlace
  <1>8. /\ v.pc = "middleware" /\ v.kind = x.kind /\ v.i = x.i /\ v.msg = x.msg /\ v.known = known
    BY <1>3, <1>4, <1>7 DEF JobRecords
  <1>9. relay = "none" => ~(Calm /\ ~caller.late /\ x.kind \in {"RINGING", "OK"})
    <2> SUFFICES ASSUME relay = "none", Calm, ~caller.late, x.kind \in {"RINGING", "OK"}  PROVE FALSE
      OBVIOUS
    <2>1. PICK h \in heard : h.kind = "INVITE"
      BY <1>7 DEF Follows, Through
    <2>2. HeardOK(h)
      BY DEF RelayInv
    <2>3. Told("INVITE")
      BY <2>1, <2>2 DEF HeardOK, Response
    <2>. QED BY <2>3 DEF Told
  <1>10. Asked(v.kind, v.msg, v.known)
    BY <1>2, <1>4, <1>8, <1>9 DEF Asked
  <1>11. Asked(v.kind, v.msg, v.known)'
    <2>1. (Calm' => Calm) /\ (sent["BYE"] > 0 => sent'["BYE"] > 0)
      BY <1>6, FrameCounts
    <2>. QED BY <1>4, <1>10, <2>1 DEF Asked
  <1>12. Ahead(v.kind, v.msg)' /\ (Intact(v.kind, v.msg)' => v.msg.routed \/ faults' > 0)
    <2>1. Ahead(v.kind, v.msg)' /\ (Intact(v.kind, v.msg)' => Intact(v.kind, v.msg))
      BY <1>6, <1>7, <1>8, FrameKeeps
    <2>. QED BY <1>4, <1>7, <1>8, <2>1
  <1>13. JobFollows(v)'
    BY <1>2, <1>7, <1>8, <1>11, <1>12 DEF JobFollows
  <1>14. v.kind = x.kind /\ v.pc # "idle" /\ x.pc # "idle"
    BY <1>4, <1>8
  <1>. QED BY <1>1, <1>4, <1>5, <1>6, <1>13, <1>14, StepInv

-----------------------------------------------------------------------------
(* The commands of RTPRelay: what the engine is told, and what of it the   *)
(* messages that are still on the way may rely on.                         *)

LEMMA PresentFacts ==
  ASSUME RelayInv, NEW j, NEW k, Present(j, k)
  PROVE  sent[k] > 0 /\ Follows(k)
  BY OrderReads DEF Present, Through

\* An INVITE in the dispatcher is alone.
LEMMA InviteAlone ==
  ASSUME RelayInv, NEW j \in Jobs, Active(j), job[j].kind = "INVITE", NEW k
  PROVE  ~Present(j, k)
  <1>1. "INVITE" \in Kinds
    BY KindsAssumption DEF KindsAssumption
  <1>2. ~Through("INVITE") /\ \A i \in Jobs : Active(i) /\ job[i].kind = "INVITE" => i = j
    BY <1>1, OrderReads DEF Once
  <1>3. Present(j, k) => k = "INVITE"
    BY <1>2, PresentFacts DEF Follows
  <1>. QED BY <1>2, <1>3 DEF Present

\* As long as the OK is the only one, no ACK is on the way beside it.
LEMMA OkBeforeAck ==
  ASSUME RelayInv, NEW j \in Jobs, Active(j), job[j].kind = "OK", sent["OK"] <= 1
  PROVE  ~Present(j, "ACK")
  <1>1. "OK" \in Kinds
    BY KindsAssumption DEF KindsAssumption
  <1>2. ~Through("OK")
    BY <1>1, OrderReads DEF Once
  <1>. QED BY <1>2, PresentFacts DEF Follows

LEMMA AnswerKeeps ==
  ASSUME RelayInv, Frame, relay' = "answered", sent' = sent, sent["BYE"] > 0 => crossed'
  PROVE  /\ \A j : Kept(j)
         /\ \A k : k # "BYE" => Told(k)'
  <1>1. \A k : k # "BYE" => Told(k)'
    BY DEF Told
  <1>2. ASSUME NEW j, Present(j, "BYE")  PROVE Told("BYE")'
    <2>1. crossed'
      BY <1>2, PresentFacts
    <2>. QED BY <2>1 DEF Told
  <1>3. ASSUME NEW j  PROVE Kept(j)
    <2>1. \A k : Present(j, k) => Told(k)'
      BY <1>1, <1>2
    <2>. QED BY <2>1 DEF Kept
  <1>. QED BY <1>1, <1>3

\* An offer comes first, or it is made in the place of one that was late or
\* went wrong.
LEMMA OfferKeeps ==
  ASSUME RelayInv, Frame, NEW j \in Jobs, Active(j), NEW k, k = job[j].kind,
         relay' = "offered", sent' = sent, sent["BYE"] > 0 => crossed',
         \/ k = "INVITE"
         \/ k \in {"OK", "RINGING"} /\ ~(Calm /\ ~caller.late) /\ (k = "RINGING" => ~caller.late)
  PROVE  Kept(j) /\ Told(k)'
  <1>1. (Calm' => Calm) /\ caller' = caller
    BY FrameCounts
  <1>2. relay' # "none"
    OBVIOUS
  <1>3. CASE k = "INVITE"
    BY <1>2, <1>3, InviteAlone DEF Kept, Told
  <1>4. CASE k # "INVITE"
    <2>1. Calm' => k = "OK" /\ caller.late /\ sent["OK"] <= 1
      <3>1. Calm' => k = "OK" /\ caller.late
        BY <1>1, <1>4
      <3>2. Calm /\ caller.late => sent["OK"] <= 1
        BY DEF Calm
      <3>. QED BY <1>1, <3>1, <3>2
    <2>2. Told(k)'
      BY <1>1, <1>4, <2>1 DEF Told
    <2>3. Calm' => ~Present(j, "ACK")
      BY <2>1, OkBeforeAck
    <2>4. ASSUME NEW n, Present(j, n)  PROVE Told(n)'
      <3>1. n = "BYE" => crossed'
        BY <2>4, PresentFacts
      <3>2. n = "ACK" => ~Calm'
        BY <2>3, <2>4
      <3>. QED BY <1>1, <1>2, <2>1, <3>1, <3>2 DEF Told
    <2>. QED BY <1>2, <2>2, <2>4 DEF Kept
  <1>. QED BY <1>3, <1>4

LEMMA DeleteKeeps ==
  ASSUME RelayInv, Frame, relay' = "none", sent' = sent, sent["BYE"] > 0
  PROVE  (\A j : Kept(j)) /\ \A k : Told(k)'
  <1>1. sent'["BYE"] > 0 /\ sent'["BYE"] \in Nat
    BY KindsAssumption DEF KindsAssumption, Frame
  <1>2. ~Calm'
    BY <1>1 DEF Calm
  <1>3. \A k : Told(k)'
    BY <1>2 DEF Told
  <1>. QED BY <1>1, <1>3 DEF Kept

LEMMA AfterOf == After("offer") = "offered" /\ After("answer") = "answered" /\ After("delete") = "none"
  BY DEF After

\* What a job at RTPRelay has that it has something to tell of.
LEMMA AtRelay ==
  ASSUME RelayFirst, ChainInv, RelayInv, NEW j \in Jobs, NEW x, x = job[j], At(j, "rtprelay")
  PROVE  /\ x \in JobRecords /\ x.msg \in Messages /\ x.i \in 1 .. Size /\ Of(Behind, x.i)
         /\ x.pc # "idle" /\ Active(j)
         /\ sent[x.kind] > 0 /\ Follows(x.kind)
         /\ ~shouldNotHandleRequest(x.msg) => Intact(x.kind, x.msg) /\ (x.msg.routed \/ faults > 0)
         /\ x.known # None => x.known \in {"no", "yes"} /\ Asked(x.kind, x.msg, x.known)
  <1>1. x.pc = "middleware" /\ Middlewares[x.i].ref = "rtprelay"
    BY DEF At
  <1>2. /\ x \in JobRecords /\ x.msg \in Messages /\ x.i \in 1 .. Size /\ x.i = RelayAt
        /\ Ahead(x.kind, x.msg) /\ (Intact(x.kind, x.msg) => x.msg.routed \/ faults > 0)
        /\ x.known = None \/ (x.known \in {"no", "yes"} /\ Asked(x.kind, x.msg, x.known))
        /\ sent[x.kind] > 0 /\ Follows(x.kind)
    BY <1>1, AtMiddlewareReads
  <1>3. Of(Behind, x.i)
    BY <1>2, RelayPlace
  <1>4. ~shouldNotHandleRequest(x.msg) => Intact(x.kind, x.msg)
    BY <1>2, RefusedFacts DEF Ahead
  <1>. QED BY <1>1, <1>2, <1>3, <1>4 DEF Active

LEMMA RelayTimesOutStep ==
  ASSUME RelayFirst, ChainInv, RelayInv, NEW j \in Jobs, RelayTimesOut(j)
  PROVE  RelayInv'
  <1>1. PICK x : x = job[j]
    OBVIOUS
  <1>2. PICK msg : msg = Answered(x.msg, "SERVER_INTERNAL_ERROR")
    OBVIOUS
  <1>3. PICK v : v = Passed(x, msg)
    OBVIOUS
  <1>4. PICK command : command = Command(x.msg, x.known)
    OBVIOUS
  <1>5. /\ At(j, "rtprelay") /\ ~shouldNotHandleRequest(x.msg) /\ faults' = faults + 1
        /\ job' = [job EXCEPT ![j] = v]
        /\ caller' = caller /\ sent' = sent /\ heard' = heard /\ crossed' = crossed
        /\ \/ relay' = relay
           \/ command # None /\ relay' = After(command)
    BY <1>1, <1>2, <1>3, <1>4 DEF RelayTimesOut, Fault
  <1>6. /\ x \in JobRecords /\ x.msg \in Messages /\ x.i \in 1 .. Size /\ Of(Behind, x.i)
        /\ x.pc # "idle" /\ sent[x.kind] > 0 /\ Intact(x.kind, x.msg)
    BY <1>1, <1>5, AtRelay
  <1>7. Frame /\ faults' > 0 /\ (crossed' => sent'["BYE"] > 0)
    <2>1. crossed \in BOOLEAN /\ (crossed => sent["BYE"] > 0) /\ faults \in Nat
      BY DEF RelayInv
    <2>. QED BY <1>5, <2>1, FrameHolds
  <1>8. ~Calm' /\ Excused' /\ \A k : Told(k)'
    <2>1. ~Calm' /\ Excused'
      BY <1>7 DEF Calm, Excused
    <2>. QED BY <1>7, <2>1 DEF Told
  <1>9. Kept(j)
    <2>1. relay' = "none" => relay = "none" \/ sent'["BYE"] > 0
      <3>1. /\ x.kind \in {"INVITE", "ACK", "BYE", "RINGING", "OK"}
            /\ x.kind # "BYE" => command \in {None, "offer", "answer"}
        BY <1>4, <1>5, <1>6, CommandOf
      <3>2. x.kind = "BYE" => sent'["BYE"] > 0
        BY <1>5, <1>6
      <3>. QED BY <1>5, <3>1, <3>2, AfterOf
    <2>. QED BY <1>8, <2>1 DEF Kept
  <1>10. Past(x.kind, msg)'
    <2>1. msg.type = "response" /\ msg.body = None /\ msg.code = "SERVER_INTERNAL_ERROR"
      BY <1>2, <1>6 DEF Answered, Messages
    <2>2. Refused(x.kind, msg)'
      BY <1>8, <2>1 DEF Refused
    <2>. QED BY <2>2 DEF Past
  <1>11. msg \in Messages
    BY <1>2, <1>6, AnsweredType DEF Codes
  <1>12. JobFollows(v)' /\ v.kind = x.kind /\ v.pc # "idle"
    BY <1>3, <1>6, <1>10, <1>11, PassedFollows
  <1>. QED BY <1>1, <1>5, <1>6, <1>7, <1>9, <1>12, StepInv

\* The engine refuses an answer: RTPRelay answers with an error.
LEMMA RelayRefuses ==
  ASSUME RelayFirst, ChainInv, RelayInv, NEW j \in Jobs, NEW x, x = job[j], At(j, "rtprelay"),
         Relay(j), x.known # None, NEW command, command = Command(x.msg, x.known),
         command # None, Refuses(command)
  PROVE  RelayInv'
  <1>1. PICK msg : msg = Answered(x.msg, "SERVER_INTERNAL_ERROR")
    OBVIOUS
  <1>2. PICK v : v = Passed(x, msg)
    OBVIOUS
  <1>3. /\ job' = [job EXCEPT ![j] = v] /\ relay' = relay
        /\ caller' = caller /\ sent' = sent /\ heard' = heard /\ faults' = faults
        /\ crossed' = (crossed \/ (command \in {"offer", "answer"} /\ sent["BYE"] > 0))
    BY <1>1, <1>2 DEF Relay
  <1>4. command = "answer" /\ relay = "none"
    BY DEF Refuses
  <1>5. /\ x \in JobRecords /\ x.msg \in Messages /\ x.i \in 1 .. Size /\ Of(Behind, x.i)
        /\ x.pc # "idle" /\ Intact(x.kind, x.msg) /\ ~shouldNotHandleRequest(x.msg)
        /\ x.known \in {"no", "yes"} /\ Asked(x.kind, x.msg, x.known)
    BY AtRelay DEF Asked
  <1>6. Frame /\ (crossed' => sent'["BYE"] > 0)
    <2>1. crossed \in BOOLEAN /\ (crossed => sent["BYE"] > 0)
      BY DEF RelayInv
    <2>. QED BY <1>3, <2>1, FrameHolds
  <1>7. Response(x.kind) => Excused'
    <2>1. Response(x.kind) => x.known = "yes"
      <3>1. /\ x.kind \in {"INVITE", "ACK", "BYE", "RINGING", "OK"}
            /\ x.kind \in {"OK", "RINGING"} =>
                 command \in {None, IF x.known = "no" THEN "offer" ELSE "answer"}
        BY <1>5, CommandOf
      <3>2. None # "answer"
        BY NoneAssumption DEF NoneAssumption
      <3>3. Response(x.kind) => x.kind \in {"OK", "RINGING"}
        BY <3>1 DEF Response
      <3>. QED BY <1>4, <1>5, <3>1, <3>2, <3>3
    <2>2. x.known = "yes" => sent["BYE"] > 0
      BY <1>4, <1>5 DEF Asked
    <2>. QED BY <1>3, <1>4, <2>1, <2>2 DEF Excused
  <1>8. Past(x.kind, msg)'
    <2>1. msg.type = "response" /\ msg.body = None /\ msg.code = "SERVER_INTERNAL_ERROR"
      BY <1>1, <1>5 DEF Answered, Messages
    <2>2. Refused(x.kind, msg)'
      BY <1>7, <2>1 DEF Refused
    <2>. QED BY <2>2 DEF Past
  <1>9. msg \in Messages
    BY <1>1, <1>5, AnsweredType DEF Codes
  <1>10. JobFollows(v)' /\ v.kind = x.kind /\ v.pc # "idle"
    BY <1>2, <1>5, <1>8, <1>9, PassedFollows
  <1>11. Kept(j)
    BY <1>3, <1>6, QuietEngine
  <1>. QED BY <1>3, <1>5, <1>6, <1>10, <1>11, StepInv

\* The engine did what it was told, if anything: the message has the media
\* description of its receiver.
LEMMA RelayTells ==
  ASSUME RelayFirst, ChainInv, RelayInv, NEW j \in Jobs, NEW x, x = job[j], At(j, "rtprelay"),
         Relay(j), x.known # None, NEW command, command = Command(x.msg, x.known),
         ~(command # None /\ Refuses(command))
  PROVE  RelayInv'
  <1>1. PICK new : new = IF command = "delete" \/ command = None THEN None
                         ELSE getRTPEParamsByDirection(Direction(x.msg))
    OBVIOUS
  <1>2. PICK msg : msg = [x.msg EXCEPT !.body = new]
    OBVIOUS
  <1>3. PICK v : v = Passed(x, msg)
    OBVIOUS
  <1>4. /\ job' = [job EXCEPT ![j] = v]
        /\ relay' = IF command = None THEN relay ELSE After(command)
        /\ caller' = caller /\ sent' = sent /\ heard' = heard /\ faults' = faults
        /\ crossed' = (crossed \/ (command \in {"offer", "answer"} /\ sent["BYE"] > 0))
    BY <1>1, <1>2, <1>3 DEF Relay
  <1>5. /\ x \in JobRecords /\ x.msg \in Messages /\ x.i \in 1 .. Size /\ Of(Behind, x.i)
        /\ x.pc # "idle" /\ Active(j) /\ sent[x.kind] > 0
        /\ Intact(x.kind, x.msg) /\ ~shouldNotHandleRequest(x.msg) /\ (x.msg.routed \/ faults > 0)
        /\ x.known \in {"no", "yes"} /\ Asked(x.kind, x.msg, x.known)
    BY AtRelay DEF Asked
  <1>6. Frame /\ (crossed' => sent'["BYE"] > 0)
    <2>1. crossed \in BOOLEAN /\ (crossed => sent["BYE"] > 0)
      BY DEF RelayInv
    <2>. QED BY <1>4, <2>1, FrameHolds
  <1> DEFINE answer == IF x.known = "no" THEN "offer" ELSE "answer"
  <1>7. /\ x.kind \in {"INVITE", "ACK", "BYE", "RINGING", "OK"}
        /\ x.kind = "INVITE" => command = "offer"
        /\ x.kind = "ACK" => command = "answer"
        /\ x.kind = "BYE" => command = "delete"
        /\ x.kind = "OK" => command = answer
        /\ x.kind = "RINGING" => /\ command \in {None, answer}
                                 /\ x.msg.body # "own" => command = None
                                 /\ x.msg.body = "own" /\ command = None => Direction(x.msg) = "WEB_TO_PHONE"
    BY <1>5, CommandOf
  <1>8. /\ None \notin {"own", "offer", "answer", "delete"} /\ None \notin Profiles
        /\ x.msg.code = Message(x.kind).code /\ x.msg.body = Message(x.kind).body
    BY <1>5, NoneAssumption DEF NoneAssumption, Profiles, Intact
  <1>9. /\ msg \in Messages /\ msg.code = Message(x.kind).code /\ msg.body = new
        /\ new \in Profiles \cup {None}
    <2>1. new \in Profiles \cup {None}
      BY <1>1, <1>5, DirectionFacts
    <2>. QED BY <1>2, <1>5, <1>8, <2>1 DEF Messages, Profiles
  <1>10. Described(x.kind, msg)
    <2>1. ASSUME Message(x.kind).body = "own"
          PROVE  new # None \/ (x.kind = "RINGING" /\ isWebRTC(caller.leg.to))
      <3>1. x.kind # "BYE"
        BY <2>1, OwnBody
      <3>2. command = None => x.kind = "RINGING" /\ Direction(x.msg) = "WEB_TO_PHONE"
        BY <1>7, <1>8, <2>1, <3>1
      <3>3. command # None => command \in {"offer", "answer"}
        BY <1>7, <3>1
      <3>4. getRTPEParamsByDirection(Direction(x.msg)) # None
        BY <1>5, <1>8, DirectionFacts
      <3>5. command = None => x.kind = "RINGING" /\ isWebRTC(caller.leg.to)
        BY <1>5, <3>2, DirectionFacts
      <3>6. command # None => new # None
        BY <1>1, <3>3, <3>4
      <3>. QED BY <3>5, <3>6
    <2>2. new \in Profiles => faults > 0 \/ (new = "RTP/SAVPF" <=> isWebRTC(Receiver(x.kind)))
      <3>1. new \in Profiles => new = getRTPEParamsByDirection(Direction(x.msg))
        BY <1>1, <1>8
      <3>. QED BY <1>5, <3>1, DirectionFacts
    <2>. QED BY <1>9, <2>1, <2>2 DEF Described
  <1>11. Kept(j) /\ Told(x.kind)'
    <2>1. CASE command = None
      <3>1. x.kind = "RINGING"
        BY <1>7, <1>8, <2>1
      <3>2. relay' = relay
        BY <1>4, <2>1
      <3>. QED BY <1>6, <3>1, <3>2, QuietEngine, NothingToTell
    <2>2. CASE command = "answer"
      <3>1. relay' = "answered" /\ (sent["BYE"] > 0 => crossed') /\ x.kind # "BYE"
        BY <1>4, <1>7, <1>8, <2>2, AfterOf
      <3>. QED BY <1>4, <1>6, <3>1, AnswerKeeps
    <2>3. CASE command = "delete"
      <3>1. relay' = "none" /\ x.kind = "BYE"
        BY <1>4, <1>7, <1>8, <2>3, AfterOf
      <3>. QED BY <1>4, <1>5, <1>6, <3>1, DeleteKeeps
    <2>4. CASE command = "offer"
      <3>1. relay' = "offered" /\ (sent["BYE"] > 0 => crossed')
        BY <1>4, <1>8, <2>4, AfterOf
      <3>2. x.kind = "INVITE" \/ (x.kind \in {"OK", "RINGING"} /\ x.known = "no")
        BY <1>7, <1>8, <2>4
      <3>3. x.kind = "RINGING" => ~caller.late
        <4>1. x.kind = "RINGING" => Message(x.kind).body = "own"
          BY <1>7, <1>8, <2>4
        <4>. QED BY <4>1, OwnBody
      <3>4. x.known = "no" => ~(Calm /\ ~caller.late /\ x.kind \in {"RINGING", "OK"})
        BY <1>5 DEF Asked
      <3>. QED BY <1>4, <1>5, <1>6, <3>1, <3>2, <3>3, <3>4, OfferKeeps
    <2>. QED BY <1>7, <2>1, <2>2, <2>3, <2>4
  <1>12. Past(x.kind, msg)'
    <2>1. Described(x.kind, msg)'
      BY <1>6, <1>10, FrameKeeps
    <2>. QED BY <1>11, <2>1 DEF Past
  <1>13. JobFollows(v)' /\ v.kind = x.kind /\ v.pc # "idle"
    BY <1>3, <1>5, <1>9, <1>12, PassedFollows
  <1>. QED BY <1>4, <1>5, <1>6, <1>11, <1>13, StepInv

LEMMA RelayStep ==
  ASSUME RelayFirst, ChainInv, RelayInv, NEW j \in Jobs, Relay(j)
  PROVE  RelayInv'
  <1>1. PICK x : x = job[j]
    OBVIOUS
  <1>2. PICK command : command = Command(x.msg, x.known)
    OBVIOUS
  <1>3. At(j, "rtprelay") /\ x.known # None
    BY <1>1 DEF Relay
  <1>. QED BY <1>1, <1>2, <1>3, RelayRefuses, RelayTells

-----------------------------------------------------------------------------
(* Messages come in and go out.                                            *)

LEMMA ReceiveStep ==
  ASSUME RelayFirst, ChainInv, RelayInv, NEW j \in Jobs, NEW kind \in Kinds, MaySend(kind), Receive(j, kind)
  PROVE  RelayInv'
  <1>1. PICK v : v = Start(kind)
    OBVIOUS
  <1>2. /\ job[j].pc = "idle" /\ job' = [job EXCEPT ![j] = v] /\ sent' = [sent EXCEPT ![kind] = @ + 1]
        /\ caller' = caller /\ relay' = relay /\ heard' = heard /\ faults' = faults /\ crossed' = crossed
    BY <1>1 DEF Receive
  <1>3. sent \in [Kinds -> Nat] /\ \A k \in Kinds : sent[k] \in Nat
    BY OrderReads
  <1>4. /\ sent' \in [Kinds -> Nat] /\ sent'[kind] = sent[kind] + 1 /\ sent[kind] \in Nat
        /\ \A k \in Kinds : k # kind => sent'[k] = sent[k]
        /\ \A k \in Kinds : sent[k] <= sent'[k]
    BY <1>2, <1>3
  <1>5. Frame
    BY <1>2, <1>3, <1>4 DEF Frame, RelayInv
  <1>6. Kept(j)
    BY <1>2, <1>5, QuietEngine
  <1>7. DOMAIN job = Jobs /\ caller \in Callers
    BY DEF ChainInv
  <1>8. job'[j] = v /\ \A i \in Jobs \ {j} : job'[i] = job[i]
    BY <1>2, <1>7
  <1>9. JobFollows(v)' /\ v.kind = kind
    <2> DEFINE msg == Message(kind)
    <2>1. PICK x : x = [pc |-> "processor", kind |-> kind, msg |-> msg, i |-> 0, passed |-> <<>>,
                        known |-> None, out |-> None, echoed |-> FALSE]
      OBVIOUS
    <2>2. msg \in Messages /\ (isErrorResponse(msg) <=> kind = "BUSY_HERE")
      BY <1>7, MessageType
    <2>3. v = IF isErrorResponse(msg) THEN x ELSE Phase(x, InFront, 1, msg)
      BY <1>1, <2>1 DEF Start, InFront
    <2>4. PICK m : m = msg
      OBVIOUS
    <2>5. Ahead(kind, m)'
      <3>1. Intact(kind, m)
        BY <2>4 DEF Intact
      <3>. QED BY <1>5, <3>1, FrameKeeps DEF Ahead
    <2>6. x.pc = "processor" /\ x.kind = kind /\ x.msg = m /\ x.known = None
      BY <2>1, <2>4
    <2>7. CASE v = x
      BY <2>5, <2>6, <2>7 DEF JobFollows
    <2>8. CASE v = Phase(x, InFront, 1, m)
      <3>1. x \in JobRecords
        <4>1. 0 \in 0 .. Size /\ <<>> \in Seq(Names)
          BY MiddlewareType
        <4>2. FALSE \in BOOLEAN /\ "processor" \in {"middleware", "processor", "done"}
          OBVIOUS
        <4>. HIDE DEF msg
        <4>. QED BY <2>1, <2>2, <4>1, <4>2 DEF JobRecords
      <3>2. 1 \in 1 .. Size + 1 /\ m \in Messages
        BY <2>2, <2>4, MiddlewareType
      <3>3. Ahead(x.kind, m)'
        BY <2>5, <2>6
      <3>. QED BY <2>6, <2>8, <3>1, <3>2, <3>3, AheadFollows
    <2>. QED BY <2>3, <2>4, <2>7, <2>8
  <1>10. \A i \in Jobs : \A y \in {job'[i]} : JobFollows(y)'
    <2>1. ASSUME NEW i \in Jobs, i # j, NEW y, y = job[i]  PROVE JobFollows(y)'
      <3>1. JobFollows(y)
        BY <2>1, JobReads
      <3>2. CASE y.pc # "idle"
        <4>1. Present(j, y.kind)
          BY <2>1, <3>2 DEF Present, Active
        <4>. QED BY <1>5, <1>6, <3>1, <4>1, Others
      <3>3. CASE y.pc = "idle"
        BY <3>3 DEF JobFollows
      <3>. QED BY <3>2, <3>3
    <2>. QED BY <1>8, <1>9, <2>1
  <1>11. \A h \in heard' : HeardOK(h)'
    <2>1. ASSUME NEW h \in heard  PROVE HeardOK(h)'
      <3>1. HeardOK(h)
        BY DEF RelayInv
      <3>2. Present(j, h.kind)
        BY DEF Present, Through
      <3>. QED BY <1>5, <1>6, <3>1, <3>2, Others
    <2>. QED BY <1>2, <2>1
  <1>12. OrderInv'
    <2>1. (\A k : Through(k)' = Through(k)) /\ (\A k : Follows(k) => Follows(k)')
      BY <1>2 DEF Through, Follows
    <2>2. \A i \in Jobs : i # j => Active(i)' = Active(i) /\ job'[i].kind = job[i].kind
      BY <1>8 DEF Active
    <2>3. job'[j].kind = kind /\ ~Active(j)
      BY <1>2, <1>8, <1>9 DEF Active
    <2>4. Follows(kind)
      <3>1. Through("OK") => Through("INVITE")
        BY OrderReads DEF Through, Follows
      <3>2. kind = "INVITE" \/ Through("INVITE") \/ Through("OK")
        BY DEF MaySend
      <3>3. kind = "ACK" => Through("OK")
        BY DEF MaySend
      <3>. QED BY <3>1, <3>2, <3>3 DEF Follows
    <2>5. sent[kind] = 0 => ~Through(kind) /\ \A i \in Jobs : Active(i) => job[i].kind # kind
      BY OrderReads DEF Through
    <2>6. ASSUME NEW k \in Kinds  PROVE Once(k)'
      <3>1. Once(k)
        BY OrderReads
      <3>2. CASE k = kind
        <4>1. sent'[k] <= 1 => sent[k] = 0
          BY <1>4, <3>2
        <4>. QED BY <2>1, <2>2, <2>3, <2>5, <3>2, <4>1 DEF Once
      <3>3. CASE k # kind
        <4>1. sent'[k] = sent[k]
          BY <1>4, <3>3
        <4>. QED BY <2>1, <2>2, <2>3, <3>1, <3>3, <4>1 DEF Once
      <3>. QED BY <3>2, <3>3
    <2>7. sent'["INVITE"] <= 1
      <3>1. kind = "INVITE" => sent[kind] = 0
        BY DEF MaySend
      <3>2. "INVITE" \in Kinds /\ sent["INVITE"] <= 1
        BY KindsAssumption, OrderReads DEF KindsAssumption
      <3>. QED BY <1>4, <3>1, <3>2
    <2>8. ASSUME NEW i \in Jobs, Active(i)', NEW k \in {job'[i].kind}  PROVE sent'[k] > 0 /\ Follows(k)'
      <3>1. CASE i = j
        <4>1. k = kind
          BY <2>3, <2>8, <3>1
        <4>. QED BY <1>4, <2>1, <2>4, <4>1
      <3>2. CASE i # j
        <4>1. Active(i) /\ k = job[i].kind
          BY <2>2, <2>8, <3>2
        <4>2. sent[k] > 0 /\ Follows(k)
          BY <4>1, OrderReads
        <4>3. job[i].kind \in Kinds
          BY <4>1, PcOf DEF Active, JobRecords
        <4>. QED BY <1>3, <1>4, <2>1, <4>1, <4>2, <4>3
      <3>. QED BY <3>1, <3>2
    <2>9. ASSUME NEW h \in heard  PROVE h.kind \in Kinds /\ sent'[h.kind] > 0 /\ Follows(h.kind)'
      <3>1. h.kind \in Kinds /\ sent[h.kind] > 0 /\ Follows(h.kind)
        BY OrderReads
      <3>. QED BY <1>3, <1>4, <2>1, <3>1
    <2>. QED BY <1>2, <1>4, <2>6, <2>7, <2>8, <2>9 DEF OrderInv
  <1>13. crossed' \in BOOLEAN /\ faults' \in Nat /\ (crossed' => sent'["BYE"] > 0)
    <2>1. sent["BYE"] > 0 => sent'["BYE"] > 0
      BY <1>5, FrameCounts
    <2>. QED BY <1>2, <2>1 DEF RelayInv
  <1>. QED BY <1>10, <1>11, <1>12, <1>13 DEF RelayInv

\* What the edgeport makes of a message that came out.
LEMMA ReturnedOK ==
  ASSUME NEW k, NEW out, out.type = Message(k).type, Past(k, out),
         NEW h, h.kind = k, h.replaced = (out.code # Message(k).code),
         h.body = IF out.body = None THEN Message(k).body ELSE out.body
  PROVE  HeardOK(h)
  <1>1. Message(k).body \in {None, "own"} /\ None \notin Profiles /\ "own" \notin Profiles
        /\ None # "own"
    BY MessageFacts, NoneAssumption DEF NoneAssumption, Profiles
  <1>2. CASE Refused(k, out)
    <2>1. Response(k) /\ Excused /\ out.code # Message(k).code /\ out.body = None
      BY <1>2, RefusedFacts DEF Refused
    <2>2. h.replaced /\ h.body \notin Profiles
      BY <1>1, <2>1
    <2>. QED BY <2>1, <2>2 DEF HeardOK
  <1>3. CASE Described(k, out) /\ Told(k)
    <2>1. ~h.replaced
      BY <1>3 DEF Described
    <2>2. h.body = "own" => k = "RINGING" /\ isWebRTC(caller.leg.to)
      BY <1>1, <1>3 DEF Described
    <2>3. h.body \in Profiles => faults > 0 \/ (h.body = "RTP/SAVPF" <=> isWebRTC(Receiver(k)))
      <3>1. h.body \in Profiles => h.body = out.body
        BY <1>1
      <3>. QED BY <1>3, <3>1 DEF Described
    <2>. QED BY <1>3, <2>1, <2>2, <2>3 DEF HeardOK
  <1>. QED BY <1>2, <1>3 DEF Past

LEMMA ReturnStep ==
  ASSUME RelayFirst, ChainInv, RelayInv, NEW j \in Jobs, Return(j)
  PROVE  RelayInv'
  <1>1. PICK x : x = job[j]
    OBVIOUS
  <1>2. PICK h : h = [kind |-> x.kind, replaced |-> x.out.code # Message(x.kind).code,
                      body |-> IF x.out.body = None THEN Message(x.kind).body ELSE x.out.body]
    OBVIOUS
  <1>3. /\ x.pc = "done" /\ job' = [job EXCEPT ![j] = NoJob]
        /\ caller' = caller /\ relay' = relay /\ sent' = sent /\ faults' = faults /\ crossed' = crossed
        /\ heard' = heard \/ (heard' = heard \cup {h} /\ x.out.type = Message(x.kind).type)
    BY <1>1, <1>2 DEF Return
  <1>4. Frame /\ Kept(j) /\ (crossed' => sent'["BYE"] > 0)
    BY <1>3, QuietFrame
  <1>5. /\ x.kind \in Kinds /\ Active(j) /\ sent[x.kind] > 0 /\ Follows(x.kind)
        /\ Past(x.kind, x.out)
    <2>1. x \in JobRecords
      BY <1>1, <1>3, PcOf
    <2>2. JobFollows(x)
      BY <1>1, JobReads
    <2>3. Active(j)
      BY <1>1, <1>3 DEF Active
    <2>4. sent[x.kind] > 0 /\ Follows(x.kind)
      BY <1>1, <2>3, OrderReads
    <2>. QED BY <1>3, <2>1, <2>2, <2>3, <2>4 DEF JobRecords, JobFollows
  <1>6. DOMAIN job = Jobs
    BY DEF ChainInv
  <1>7. job'[j] = NoJob /\ NoJob.pc = "idle" /\ \A i \in Jobs \ {j} : job'[i] = job[i]
    BY <1>3, <1>6 DEF NoJob
  <1>8. /\ ~Active(j)'
        /\ \A i \in Jobs : i # j => Active(i)' = Active(i) /\ job'[i].kind = job[i].kind
    BY <1>7 DEF Active
  <1>9. \A k : Through(k)' => Through(k) \/ k = x.kind
    BY <1>2, <1>3 DEF Through
  <1>10. \A k : Follows(k) => Follows(k)'
    <2>1. \A k : Through(k) => Through(k)'
      BY <1>3 DEF Through
    <2>. QED BY <2>1 DEF Follows
  <1>11. OrderInv'
    <2>1. ASSUME NEW k \in Kinds  PROVE Once(k)'
      <3>1. Once(k)
        BY OrderReads
      <3>2. \A i \in Jobs : Active(i)' /\ job'[i].kind = k => i # j /\ Active(i) /\ job[i].kind = k
        BY <1>8
      <3>3. CASE k = x.kind
        <4>1. sent[k] <= 1 => ~\E i \in Jobs : Active(i)' /\ job'[i].kind = k
          BY <1>1, <1>5, <3>1, <3>2, <3>3 DEF Once
        <4>. QED BY <1>3, <4>1 DEF Once
      <3>4. CASE k # x.kind
        BY <1>3, <1>9, <3>1, <3>2, <3>4 DEF Once
      <3>. QED BY <3>3, <3>4
    <2>2. ASSUME NEW i \in Jobs, Active(i)', NEW k \in {job'[i].kind}  PROVE sent'[k] > 0 /\ Follows(k)'
      <3>1. Active(i) /\ k = job[i].kind
        BY <1>8, <2>2
      <3>2. sent[k] > 0 /\ Follows(k)
        BY <3>1, OrderReads
      <3>. QED BY <1>3, <1>10, <3>2
    <2>3. ASSUME NEW g \in heard'  PROVE g.kind \in Kinds /\ sent'[g.kind] > 0 /\ Follows(g.kind)'
      <3>1. g.kind \in Kinds /\ sent[g.kind] > 0 /\ Follows(g.kind)
        <4>1. CASE g \in heard
          BY <4>1, OrderReads
        <4>2. CASE g = h
          BY <1>2, <1>5, <4>2
        <4>. QED BY <1>3, <2>3, <4>1, <4>2
      <3>. QED BY <1>3, <1>10, <3>1
    <2>4. sent' \in [Kinds -> Nat] /\ sent'["INVITE"] <= 1
      BY <1>3, OrderReads
    <2>. QED BY <2>1, <2>2, <2>3, <2>4 DEF OrderInv
  <1>12. \A i \in Jobs : \A y \in {job'[i]} : JobFollows(y)'
    <2>1. ASSUME NEW i \in Jobs, i # j, NEW y, y = job[i]  PROVE JobFollows(y)'
      <3>1. JobFollows(y)
        BY <2>1, JobReads
      <3>2. CASE y.pc # "idle"
        <4>1. Present(j, y.kind)
          BY <2>1, <3>2 DEF Present, Active
        <4>. QED BY <1>4, <3>1, <4>1, Others
      <3>3. CASE y.pc = "idle"
        BY <3>3 DEF JobFollows
      <3>. QED BY <3>2, <3>3
    <2>2. \A y : y.pc = "idle" => JobFollows(y)'
      BY DEF JobFollows
    <2>. QED BY <1>7, <2>1, <2>2
  <1>13. \A g \in heard' : HeardOK(g)'
    <2>1. ASSUME NEW g \in heard  PROVE HeardOK(g)'
      <3>1. HeardOK(g)
        BY DEF RelayInv
      <3>2. Present(j, g.kind)
        BY DEF Present, Through
      <3>. QED BY <1>4, <3>1, <3>2, Others
    <2>2. ASSUME x.out.type = Message(x.kind).type  PROVE HeardOK(h)'
      <3>1. h.kind = x.kind
        BY <1>2
      <3>2. HeardOK(h)
        BY <1>2, <1>5, <2>2, ReturnedOK
      <3>3. (Told(h.kind) => Told(h.kind)') /\ Receiver(h.kind)' = Receiver(h.kind)
            /\ caller' = caller /\ (faults > 0 => faults' > 0) /\ (Excused => Excused')
        BY <1>3, <1>4, QuietEngine, FrameMessages, FrameCounts
      <3>. QED BY <3>2, <3>3 DEF HeardOK
    <2>. QED BY <1>3, <2>1, <2>2
  <1>14. crossed' \in BOOLEAN /\ faults' \in Nat
    BY <1>4 DEF Frame
  <1>. QED BY <1>4, <1>11, <1>12, <1>13, <1>14 DEF RelayInv

LEMMA RelayInit ==
  ASSUME Init
  PROVE  RelayInv
  <1>1. /\ job = [j \in Jobs |-> NoJob] /\ sent = [k \in Kinds |-> 0] /\ heard = {} /\ faults = 0
        /\ crossed = FALSE /\ NoJob.pc = "idle"
    BY DEF Init, NoJob
  <1>2. \A j \in Jobs : ~Active(j)
    BY <1>1 DEF Active
  <1>3. "INVITE" \in Kinds
    BY KindsAssumption DEF KindsAssumption
  <1>4. OrderInv
    BY <1>1, <1>2, <1>3 DEF OrderInv, Once
  <1>5. \A j \in Jobs : \A x \in {job[j]} : JobFollows(x)
    BY <1>1 DEF JobFollows
  <1>. QED BY <1>1, <1>4, <1>5 DEF RelayInv

LEMMA RelayStutters ==
  ASSUME RelayInv, UNCHANGED vars
  PROVE  RelayInv'
  <1>1. /\ caller' = caller /\ job' = job /\ relay' = relay /\ sent' = sent /\ heard' = heard
        /\ faults' = faults /\ crossed' = crossed
    BY DEF vars
  <1>2. Frame
    BY <1>1, QuietFrame
  <1>3. OrderInv'
    <2>1. OrderInv
      BY DEF RelayInv
    <2>. QED BY <1>1, <2>1 DEF OrderInv, Once, Follows, Through, Active
  <1>4. ASSUME NEW x, JobFollows(x)  PROVE JobFollows(x)'
    <2>1. /\ Told(x.kind) => Told(x.kind)'
          /\ Message(x.kind)' = Message(x.kind)
      BY <1>1, <1>2, QuietEngine, FrameMessages
    <2>2. ASSUME NEW m
          PROVE  /\ Intact(x.kind, m)' => Intact(x.kind, m)
                 /\ Ahead(x.kind, m) => Ahead(x.kind, m)'
                 /\ Past(x.kind, m) => Past(x.kind, m)'
      BY <1>2, <2>1, FrameKeeps DEF Past
    <2>3. ASSUME NEW m, NEW known, Asked(x.kind, m, known)  PROVE Asked(x.kind, m, known)'
      BY <1>1, <2>3 DEF Asked, Calm
    <2>. QED BY <1>1, <1>4, <2>2, <2>3 DEF JobFollows
  <1>5. ASSUME NEW h, HeardOK(h)  PROVE HeardOK(h)'
    <2>1. /\ Told(h.kind) => Told(h.kind)'
          /\ Receiver(h.kind)' = Receiver(h.kind)
          /\ Excused => Excused'
      BY <1>1, <1>2, QuietEngine, FrameMessages, FrameCounts
    <2>. QED BY <1>1, <1>5, <2>1 DEF HeardOK
  <1>. QED BY <1>1, <1>3, <1>4, <1>5 DEF RelayInv

LEMMA RelayNext ==
  ASSUME RelayFirst, ChainInv, RelayInv, [Next]_vars
  PROVE  RelayInv'
  <1>1. CASE Next
    BY <1>1, ReceiveStep, MiddlewareFailsStep, ObserveStep, ProcessStep, ProcessorFailsStep, ReturnStep,
       AuthenticateStep, SkipStep, QueryStep, RelayStep, RelayTimesOutStep DEF Next
  <1>. QED BY <1>1, RelayStutters

(***************************************************************************)
(* RelayKeepsUp: where RTPRelay is the first middleware after the          *)
(* processor, whatever the other middlewares, the repeats, the failures    *)
(* and the interleaving of the messages, the phones get the descriptions   *)
(* of media they can take and the engine is where the call is.             *)
(***************************************************************************)
THEOREM RelayKeepsUp ==
  ASSUME RelayFirst
  PROVE  Spec => []RelayFollowsCall
  <1>1. RelayInv => RelayFollowsCall
    <2> SUFFICES ASSUME RelayInv  PROVE RelayFollowsCall
      OBVIOUS
    <2>1. \A h \in heard : HeardOK(h)
      BY DEF RelayInv
    <2>2. \A h \in heard : h.body = "own" => h.replaced \/ (h.kind = "RINGING" /\ isWebRTC(caller.leg.to))
      BY <2>1 DEF HeardOK
    <2>3. \A h \in heard : h.body \in {"RTP/AVP", "RTP/SAVPF"} =>
             faults > 0 \/ (h.body = "RTP/SAVPF" <=> isWebRTC(Receiver(h.kind)))
      BY <2>1 DEF HeardOK, Profiles
    <2>4. (\E h \in heard : h.replaced) => caller.user \notin Allowlist \/ faults > 0 \/ crossed
      BY <2>1 DEF HeardOK, Excused
    <2>5. ASSUME Through("ACK"), sent["BYE"] = 0, caller.user \in Allowlist
          PROVE  relay = "answered" \/ faults > 0 \/ (caller.late /\ sent["OK"] > 1)
      <3> SUFFICES ASSUME ~(faults > 0), ~(caller.late /\ sent["OK"] > 1)  PROVE relay = "answered"
        OBVIOUS
      <3>1. sent["OK"] \in Nat /\ faults \in Nat
        BY KindsAssumption, OrderReads DEF KindsAssumption, RelayInv
      <3>2. Calm
        BY <2>5, <3>1 DEF Calm
      <3>3. ~crossed
        BY <2>5 DEF RelayInv
      <3>4. \A h \in heard : ~h.replaced /\ Told(h.kind)
        BY <2>1, <2>5, <3>3 DEF HeardOK, Excused
      <3>5. Through("OK")
        BY <2>5, OrderReads DEF Through, Follows
      <3>6. Told("ACK") /\ Told("OK")
        BY <2>5, <3>4, <3>5 DEF Through
      <3>. QED BY <3>2, <3>6 DEF Told
    <2>6. Through("BYE") => relay = "none" \/ crossed \/ faults > 0
      <3>1. ASSUME NEW h \in heard, h.kind = "BYE"  PROVE relay = "none" \/ crossed \/ faults > 0
        <4>1. ~Response("BYE")
          BY DEF Response
        <4>. QED BY <2>1, <3>1, <4>1 DEF HeardOK, Told
      <3>. QED BY <3>1 DEF Through
    <2>. QED BY <2>2, <2>3, <2>4, <2>5, <2>6 DEF RelayFollowsCall
  <1>2. Init => ChainInv /\ RelayInv
    BY ChainInit, RelayInit
  <1>3. (ChainInv /\ RelayInv) /\ [Next]_vars => (ChainInv /\ RelayInv)'
    BY ChainNext, RelayNext
  <1>. QED BY <1>1, <1>2, <1>3, PTL DEF Spec
=============================================================================
