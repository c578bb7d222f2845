------------------------------ MODULE Dispatcher ------------------------------
(***************************************************************************)
(* The message dispatcher (mods/dispatcher), with the middlewares of the   *)
(* repository, SimpleAuth and RTPRelay, around one call.  An edgeport      *)
(* hands a message in and waits; the dispatcher passes it through the      *)
(* middlewares before the processor, the processor, and the middlewares    *)
(* after it.  Each hop is a gRPC call, so the messages of a call that come *)
(* through two edgeports, or again, interleave; any hop can fail.          *)
(*                                                                         *)
(* Of a message only what the middlewares look at is kept; its body is     *)
(* None, "own" (the description of media a phone wrote) or the profile of  *)
(* the media that the RTP engine made of it.                               *)
(***************************************************************************)
EXTENDS Integers, SequencesExt

CONSTANTS
    Jobs,         \* the messages that can be in the dispatcher at a time
    Middlewares,  \* a sequence of [ref, postProcessor], postProcessor in {TRUE, FALSE, None}
    Methods,      \* the methods of the processor
    AuthMethods,  \* the methods SimpleAuth asks for credentials
    Allowlist,    \* the users SimpleAuth lets pass
    Kinds,        \* the messages of a call that the phones send
    MaxRetries,   \* how often a phone repeats its OK
    MaxFaults,    \* bound on failed hops and lost answers
    Legs,         \* the transports of a call: [from, to]
    None          \* no value

ASSUME MiddlewaresAssumption ==
    Middlewares \in Seq([ref : STRING, postProcessor : BOOLEAN \cup {None}])

ASSUME KindsAssumption == {"INVITE", "RINGING", "OK", "BUSY_HERE", "ACK", "BYE"} \subseteq Kinds

\* None is no value of a field that can be without one.
ASSUME NoneAssumption ==
    None \notin {"good", "own", "RTP/AVP", "RTP/SAVPF", "RINGING", "offer", "answer", "delete", "no", "yes"}

VARIABLES
    caller,   \* [user, auth, late, leg]: who calls, with which credentials, is the offer
              \* in the OK, over which transports
    job,      \* per job, the message and how far it is
    relay,    \* the session of the RTP engine: "none", "offered", "answered"
    sent,     \* how often each message was handed in
    heard,    \* the messages that went through: a set of [kind, body, replaced]
    faults,   \* failures so far
    crossed   \* did a message reach the RTP engine after the BYE?

vars == <<caller, job, relay, sent, heard, faults, crossed>>

-----------------------------------------------------------------------------
(* Messages *)

Response(kind) == kind \in {"RINGING", "OK", "BUSY_HERE"}

\* A call with a late offer describes its media in the OK and in the ACK.
HasBody(kind) ==
    CASE kind = "INVITE" -> ~caller.late
      [] kind = "ACK" -> caller.late
      [] kind = "RINGING" -> ~caller.late
      [] OTHER -> kind = "OK"

Message(kind) ==
    [type |-> IF Response(kind) THEN "response" ELSE "request",
     method |-> IF Response(kind) THEN "INVITE" ELSE kind,
     code |-> IF Response(kind) THEN kind ELSE None,
     auth |-> IF Response(kind) THEN None ELSE caller.auth,
     body |-> IF HasBody(kind) THEN "own" ELSE None, routed |-> FALSE]

(* The transport a message comes from, and that of its top Via: its own leg *)
(* until the processor has put a Via on it or taken one off.               *)
Source(msg) == IF msg.type = "request" THEN caller.leg.from ELSE caller.leg.to
Target(msg) == IF ~msg.routed THEN Source(msg)
               ELSE IF msg.type = "request" THEN caller.leg.to ELSE caller.leg.from

Answered(msg, code) == [msg EXCEPT !.type = "response", !.code = code, !.body = None]

isErrorResponse(msg) == msg.type = "response" /\ msg.code \notin {"OK", "RINGING"}

NoJob == [pc |-> "idle"]

-----------------------------------------------------------------------------
(* The chain.  A job is at the middleware i of its phase, at the processor *)
(* or done, with an outcome: a message or an error.                        *)

\* The next middleware of the phase from position i, 0 when there is none.
\* Without middlewares, or a postProcessor that is not set, none runs.
NextIn(post, i) ==
    LET later == {k \in i .. Len(Middlewares) : Middlewares[k].postProcessor = post}
    IN IF later = {} THEN 0 ELSE CHOOSE k \in later : \A n \in later : k <= n

Done(j, out) == [job[j] EXCEPT !.pc = "done", !.out = out]

Error(code) == [type |-> "error", code |-> code, body |-> None]

\* The phase that begins at position i with message msg.
Phase(x, post, i, msg) ==
    LET k == NextIn(post, i)
    IN IF k # 0 THEN [x EXCEPT !.pc = "middleware", !.i = k, !.msg = msg]
       ELSE IF post THEN [x EXCEPT !.pc = "done", !.out = msg]
       ELSE [x EXCEPT !.pc = "processor", !.msg = msg]

\* An error response goes to the processor and nowhere else.  (The error is
\* always looked for in the message as it came in.)
Start(kind) ==
    LET x == [pc |-> "processor", kind |-> kind, msg |-> Message(kind), i |-> 0, passed |-> <<>>,
              known |-> None, out |-> None, echoed |-> FALSE]
    IN IF isErrorResponse(Message(kind)) THEN x ELSE Phase(x, FALSE, 1, Message(kind))

\* As a bug could have it: only the messages of the processor go on.
PassedWithoutBreak(x, msg) ==
    LET m == Middlewares[x.i]
        y == [x EXCEPT !.passed = Append(@, m.ref), !.known = None]
    IN Phase(y, m.postProcessor, x.i + 1, msg)

\* runMiddlewares: a middleware has given a message back.  A response ends the
\* phase, whether the middleware made it or it was one from the start.
Passed(x, msg) ==
    LET m == Middlewares[x.i]
        y == [x EXCEPT !.passed = Append(@, m.ref), !.known = None]
    IN Phase(y, m.postProcessor, IF msg.type = "response" THEN Len(Middlewares) + 1 ELSE x.i + 1, msg)

\* runProcessor: the processor has given a message back.
Processed(x, msg) ==
    LET y == [x EXCEPT !.passed = Append(@, "processor")]
    IN IF isErrorResponse(Message(x.kind)) THEN [y EXCEPT !.pc = "done", !.out = msg]
       ELSE Phase(y, TRUE, 1, msg)

At(j, ref) == job[j].pc = "middleware" /\ Middlewares[job[j].i].ref = ref

Fault == faults < MaxFaults /\ faults' = faults + 1

Receive(j, kind) ==
    /\ job[j].pc = "idle"
    /\ job' = [job EXCEPT ![j] = Start(kind)]
    /\ sent' = [sent EXCEPT ![kind] = @ + 1]
    /\ UNCHANGED <<caller, relay, heard, faults, crossed>>

\* UNAVAILABLE is an error of its own; any other error leaves no result, and
\* reading the message of that is a TypeError.
MiddlewareFails(j) ==
    /\ job[j].pc = "middleware" /\ Fault
    /\ \E code \in {"UNAVAILABLE", "UNKNOWN"} : job' = [job EXCEPT ![j] = Done(j, Error(code))]
    /\ UNCHANGED <<caller, relay, sent, heard, crossed>>

\* A middleware that only looks.
Observe(j) ==
    /\ job[j].pc = "middleware" /\ Middlewares[job[j].i].ref \notin {"simpleauth", "rtprelay"}
    /\ job' = [job EXCEPT ![j] = Passed(job[j], job[j].msg)]
    /\ UNCHANGED <<caller, relay, sent, heard, faults, crossed>>

\* What the processor makes of a message: it routes or answers a request, and
\* passes on a response.
ProcessorResults(msg) ==
    IF msg.type = "response" THEN {[msg EXCEPT !.routed = TRUE]}
    ELSE {[msg EXCEPT !.routed = TRUE, !.auth = None], Answered(msg, "TEMPORARILY_UNAVAILABLE")}

hasMethod(msg) == msg.method \in Methods

Process(j) ==
    /\ job[j].pc = "processor"
    /\ IF ~hasMethod(job[j].msg)
       THEN job' = [job EXCEPT ![j] = Done(j, Error("NOT_FOUND"))]
       ELSE \E msg \in ProcessorResults(job[j].msg) :
               job' = [job EXCEPT ![j] = Processed(job[j], msg)]
    /\ UNCHANGED <<caller, relay, sent, heard, faults, crossed>>

\* Any error of the processor but UNAVAILABLE gives the message back as it was.
ProcessorFails(j) ==
    /\ job[j].pc = "processor" /\ hasMethod(job[j].msg) /\ Fault
    /\ \/ job' = [job EXCEPT ![j] = Done(j, Error("UNAVAILABLE"))]
       \/ job' = [job EXCEPT ![j] = [Processed(job[j], job[j].msg) EXCEPT !.echoed = TRUE]]
    /\ UNCHANGED <<caller, relay, sent, heard, crossed>>

\* The callback.  An edgeport sends a message on with the body it has when the
\* one that came back has none.  A response that came back as another answer
\* has lost its Via headers: whether the stack sends it is left open.
Return(j) ==
    LET out == job[j].out
        in == Message(job[j].kind)
        replaced == out.code # in.code
        through == [kind |-> job[j].kind, replaced |-> replaced,
                    body |-> IF out.body = None THEN in.body ELSE out.body]
    IN /\ job[j].pc = "done"
       /\ heard' \in IF out.type # in.type THEN {heard}
                     ELSE IF replaced THEN {heard, heard \cup {through}} ELSE {heard \cup {through}}
       /\ job' = [job EXCEPT ![j] = NoJob]
       /\ UNCHANGED <<caller, relay, sent, faults, crossed>>

-----------------------------------------------------------------------------
(* SimpleAuth *)

\* As a bug could have it: credentials are enough.
simpleAuthAny(msg) ==
    CASE msg.method \notin AuthMethods \/ caller.user \in Allowlist -> msg
      [] OTHER -> IF msg.auth # None THEN msg ELSE Answered(msg, "UNAUTHORIZED")

simpleAuth(msg) ==
    CASE msg.method \notin AuthMethods \/ caller.user \in Allowlist -> msg
      [] OTHER -> IF msg.auth = "good" THEN msg ELSE Answered(msg, "UNAUTHORIZED")

Authenticate(j) ==
    /\ At(j, "simpleauth")
    /\ job' = [job EXCEPT ![j] = Passed(job[j], simpleAuth(job[j].msg))]
    /\ UNCHANGED <<caller, relay, sent, heard, faults, crossed>>

-----------------------------------------------------------------------------
(* RTPRelay asks the engine whether it knows the call, then tells it what  *)
(* to do.  What fails on the way is answered 500.                          *)

isWebRTC(transport) == transport \in {"WS", "WSS"}

getDirection(src, dst) ==
    CASE isWebRTC(src) /\ isWebRTC(dst)   -> "WEB_TO_WEB"
      [] isWebRTC(src) /\ ~isWebRTC(dst)  -> "WEB_TO_PHONE"
      [] ~isWebRTC(src) /\ isWebRTC(dst)  -> "PHONE_TO_WEB"
      [] ~isWebRTC(src) /\ ~isWebRTC(dst) -> "PHONE_TO_PHONE"

Direction(msg) == getDirection(Source(msg), Target(msg))

\* The profile the engine is asked for; without one that of the offer stays.
getRTPEParamsByDirection(direction) ==
    CASE direction \in {"WEB_TO_PHONE", "PHONE_TO_PHONE"} -> "RTP/AVP"
      [] direction \in {"PHONE_TO_WEB", "WEB_TO_WEB"} -> "RTP/SAVPF"

hasSDP(msg) == msg.body # None

isInviteOrAckWithSDP(msg) == msg.type = "request" /\ hasSDP(msg) /\ msg.method \in {"INVITE", "ACK"}

isOkOrRingingWithSDP(msg) == msg.type = "response" /\ hasSDP(msg) /\ msg.code \in {"OK", "RINGING"}

isBye(msg) == msg.type = "request" /\ msg.method = "BYE"

shouldNotHandleRequest(msg) ==
    ~(isInviteOrAckWithSDP(msg) \/ isOkOrRingingWithSDP(msg) \/ msg.code = "RINGING" \/ isBye(msg))

\* As a bug could have it: an OK always answers.
CommandKnown(msg, known) ==
    CASE msg.type = "request" /\ msg.method = "INVITE" -> "offer"
      [] msg.type = "request" /\ msg.method = "ACK" -> "answer"
      [] isBye(msg) -> "delete"
      [] msg.code = "RINGING" /\ (Direction(msg) = "WEB_TO_PHONE" \/ ~hasSDP(msg)) -> None
      [] OTHER -> "answer"

\* The command for a message, None when there is none.
Command(msg, known) ==
    CASE msg.type = "request" /\ msg.method = "INVITE" -> "offer"
      [] msg.type = "request" /\ msg.method = "ACK" -> "answer"
      [] isBye(msg) -> "delete"
      [] msg.code = "RINGING" /\ (Direction(msg) = "WEB_TO_PHONE" \/ ~hasSDP(msg)) -> None
      [] OTHER -> IF known = "no" THEN "offer" ELSE "answer"

\* The engine refuses an answer to nothing; it deletes what it does not know.
Refuses(command) == command = "answer" /\ relay = "none"

After(command) ==
    CASE command = "offer" -> "offered" [] command = "answer" -> "answered" [] OTHER -> "none"

Skip(j) ==
    /\ At(j, "rtprelay") /\ shouldNotHandleRequest(job[j].msg)
    /\ job' = [job EXCEPT ![j] = Passed(job[j], job[j].msg)]
    /\ UNCHANGED <<caller, relay, sent, heard, faults, crossed>>

query(j) ==
    /\ At(j, "rtprelay") /\ job[j].known = None /\ ~shouldNotHandleRequest(job[j].msg)
    /\ job' = [job EXCEPT ![j].known = IF relay = "none" THEN "no" ELSE "yes"]
    /\ UNCHANGED <<caller, relay, sent, heard, faults, crossed>>

Relay(j) ==
    LET msg == job[j].msg
        command == Command(msg, job[j].known)
        new == IF command = "delete" \/ command = None THEN None ELSE getRTPEParamsByDirection(Direction(msg))
    IN /\ At(j, "rtprelay") /\ job[j].known # None
       /\ IF command # None /\ Refuses(command)
          THEN /\ job' = [job EXCEPT ![j] = Passed(job[j], Answered(msg, "SERVER_INTERNAL_ERROR"))]
               /\ UNCHANGED relay
          ELSE /\ job' = [job EXCEPT ![j] = Passed(job[j], [msg EXCEPT !.body = new])]
               /\ relay' = IF command = None THEN relay ELSE After(command)
       /\ crossed' = (crossed \/ (command \in {"offer", "answer"} /\ sent["BYE"] > 0))
       /\ UNCHANGED <<caller, sent, heard, faults>>

\* The engine does not answer in time; what it was told may be done or not.
RelayTimesOut(j) ==
    /\ At(j, "rtprelay") /\ ~shouldNotHandleRequest(job[j].msg) /\ Fault
    /\ job' = [job EXCEPT ![j] = Passed(job[j], Answered(job[j].msg, "SERVER_INTERNAL_ERROR"))]
    /\ LET command == Command(job[j].msg, job[j].known)
       IN \/ UNCHANGED relay
          \/ /\ job[j].known # None /\ command # None /\ ~Refuses(command)
             /\ relay' = After(command)
    /\ UNCHANGED <<caller, sent, heard, crossed>>

-----------------------------------------------------------------------------
(* The phones: what may be handed in next *)

Through(kind) == \E h \in heard : h.kind = kind
Final == sent["OK"] > 0 \/ sent["BUSY_HERE"] > 0

MaySend(kind) ==
    CASE kind = "INVITE" -> sent[kind] = 0
      [] kind = "RINGING" -> Through("INVITE") /\ sent[kind] = 0 /\ ~Final
      [] kind = "OK" -> /\ Through("INVITE") /\ sent["BUSY_HERE"] = 0
                        /\ sent[kind] <= MaxRetries /\ ~Through("ACK")
      [] kind = "BUSY_HERE" -> Through("INVITE") /\ ~Final
      [] kind = "ACK" -> Through("OK") /\ sent[kind] = 0
      [] kind = "BYE" -> Through("OK") /\ sent["ACK"] > 0 /\ sent[kind] = 0
      [] kind = "CANCEL" -> Through("INVITE") /\ ~Through("OK") /\ sent[kind] = 0
      [] OTHER -> Through("OK") /\ sent[kind] = 0

-----------------------------------------------------------------------------
Init ==
    /\ caller \in [user : {"agent", "guest"}, auth : {None, "good", "guess"}, late : BOOLEAN,
                   leg : Legs]
    /\ job = [j \in Jobs |-> NoJob]
    /\ relay = "none"
    /\ sent = [k \in Kinds |-> 0]
    /\ heard = {}
    /\ faults = 0
    /\ crossed = FALSE

Next ==
    \E j \in Jobs :
        \/ \E kind \in Kinds : MaySend(kind) /\ Receive(j, kind)
        \/ MiddlewareFails(j) \/ Observe(j) \/ Process(j) \/ ProcessorFails(j) \/ Return(j)
        \/ Authenticate(j)
        \/ Skip(j) \/ query(j) \/ Relay(j) \/ RelayTimesOut(j)

Spec == Init /\ [][Next]_vars

-----------------------------------------------------------------------------
(* Properties *)

\* The middlewares of a phase among the first k, in their order.
RefsUpTo(post) ==
    LET refs[k \in 0 .. Len(Middlewares)] ==
            IF k = 0 THEN <<>>
            ELSE IF Middlewares[k].postProcessor = post THEN Append(refs[k - 1], Middlewares[k].ref)
            ELSE refs[k - 1]
    IN refs

RefsOf(post) == RefsUpTo(post)[Len(Middlewares)]

FirstOf(seq) == SubSeq(seq, 1, IF seq = <<>> THEN 0 ELSE 1)

(***************************************************************************)
(* RoutedOnlyWhole: a request comes out of the dispatcher as a request     *)
(* only after it passed every middleware of both phases, in their order,   *)
(* and the processor routed it; only when the processor failed with an     *)
(* error that is not UNAVAILABLE it comes out as it went in.  An INVITE    *)
(* that SimpleAuth refused never does, although the processor and the      *)
(* other middlewares see the answer too.                                   *)
(***************************************************************************)
RoutedOnlyWhole ==
    \A j \in Jobs : job[j].pc = "done" /\ job[j].out.type = "request" =>
        /\ job[j].passed = RefsOf(FALSE) \o <<"processor">> \o RefsOf(TRUE)
        /\ job[j].out.routed = ~job[j].echoed
        /\ job[j].kind \in AuthMethods /\ "simpleauth" \in Range(job[j].passed)
              => caller.user \in Allowlist \/ caller.auth = "good"

(***************************************************************************)
(* ResponsesPassOnce: a response of a phone ends the chain of each phase   *)
(* as the answer of a middleware would, so it is seen by the first         *)
(* middleware of each phase alone, and an error response by none.          *)
(***************************************************************************)
ResponsesPassOnce ==
    \A j \in Jobs : job[j].pc = "done" /\ Response(job[j].kind) /\ job[j].out.type # "error" =>
        job[j].passed =
            IF isErrorResponse(Message(job[j].kind)) THEN <<"processor">>
            ELSE FirstOf(RefsOf(FALSE)) \o <<"processor">> \o FirstOf(RefsOf(TRUE))

\* The transport on the leg of the phone that a message goes to.
Receiver(kind) == IF Response(kind) THEN caller.leg.from ELSE caller.leg.to

(***************************************************************************)
(* RelayFollowsCall: RTPRelay comes first after the processor, so a phone  *)
(* gets the media description that the other one wrote only in a response  *)
(* that SimpleAuth or RTPRelay answered, and in the RINGING of a browser,  *)
(* whose emptied body the edgeport takes for none; otherwise it gets the   *)
(* profile its leg can take, unless a hop failed.  The RTP engine is where *)
(* the call is: answered from when the ACK went through until a BYE comes, *)
(* and free once that went through, unless a hop failed, the OK with a     *)
(* late offer was repeated (both may find no call, and offer), or a        *)
(* repeated OK reached the engine after the BYE.                           *)
(***************************************************************************)
RelayFollowsCall ==
    /\ \A h \in heard : h.body = "own" => h.replaced \/ (h.kind = "RINGING" /\ isWebRTC(caller.leg.to))
    /\ \A h \in heard : h.body \in {"RTP/AVP", "RTP/SAVPF"} =>
          faults > 0 \/ (h.body = "RTP/SAVPF" <=> isWebRTC(Receiver(h.kind)))
    /\ (\E h \in heard : h.replaced) => caller.user \notin Allowlist \/ faults > 0 \/ crossed
    /\ Through("ACK") /\ sent["BYE"] = 0 /\ caller.user \in Allowlist
            => relay = "answered" \/ faults > 0 \/ (caller.late /\ sent["OK"] > 1)
    /\ Through("BYE") => relay = "none" \/ crossed \/ faults > 0

(***************************************************************************)
(* ResponsesAreNotChallenged: what the documentation says of SimpleAuth,   *)
(* that it authenticates requests.                                         *)
(***************************************************************************)
ResponsesAreNotChallenged ==
    \A j \in Jobs : job[j].pc = "done" /\ Response(job[j].kind) => job[j].out.code # "UNAUTHORIZED"
=============================================================================
