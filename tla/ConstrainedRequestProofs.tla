----------------------- MODULE ConstrainedRequestProofs -----------------------
(***************************************************************************)
(* Proofs about ConstrainedRequest, for every timeout.                      *)
(*                                                                          *)
(* The three safety properties rest on one invariant, which follows the     *)
(* single dial: dialCount separates what happens before the one connection  *)
(* from what happens on it, and a denied second dial is why no other        *)
(* certificate, mark or connection comes up once the request was sent.      *)
(***************************************************************************)
EXTENDS ConstrainedRequest, TLAPS

\* The peer with certificate c is the server the request is meant for.
Named(c) ==
    /\ c.chain
    /\ c.san = "match" \/ (request = "addKey" /\ c.san = "none" /\ c.cn = "match")

\* The dial: nothing is connected before it, and what is connected is marked.
DialInv ==
    /\ dialCount \in Nat
    /\ pc \in {"socket", "connect", "handshake", "send", "wait"} => dialCount # 0
    /\ dialCount = 0 => connections = <<>>
    /\ pc \in {"socket", "connect"} => connections = <<>>
    /\ connections = <<>> \/ connections = <<control>>
    /\ pc = "connect" => marked = control

\* The secret: not out before the handshake, and then only with a named peer.
SecretInv ==
    /\ dialCount = 0 => ~sent
    /\ pc \in {"socket", "connect", "handshake"} => ~sent
    /\ sent => Named(cert)
    /\ pc = "send" => Named(cert)

\* The failure: only of an exchange that is over, and true of what it says.
FailureInv ==
    /\ pc # "failed" => failure.class = "none" /\ failure.detail = ""
    /\ failure.detail = "socket_mark_refused" => connections = <<>>
    /\ failure.detail = "socket_mark_refused" => ~sent
    /\ failure.class = "invalid_trust" => ~sent

RequestInv == DialInv /\ SecretInv /\ FailureInv

\* A certificate without a fault names the intended server.
LEMMA FaultlessIsNamed ==
    ASSUME NEW c, verifyConstrainedTLSConnection(c) = ""
    PROVE  Named(c)
BY DEF verifyConstrainedTLSConnection, Named

\* A fault is one of the two details of the runner's vocabulary.
LEMMA FaultDetail ==
    ASSUME NEW c
    PROVE  verifyConstrainedTLSConnection(c) \in {"", "ca_chain", "endpoint_identity"}
BY DEF verifyConstrainedTLSConnection

\* A network error is never reported as a refused peer or mark.
LEMMA NetworkErrorReason ==
    ASSUME NetworkError
    PROVE  /\ pc' = "failed"
           /\ failure'.class # "invalid_trust" /\ failure'.detail = ""
BY DEF NetworkError, Failed, RequestClass, Runner!classifyNetworkError, Runner!contextClass

\* Every exchange begins in the invariant.
LEMMA RequestInit == Init => RequestInv
<1> SUFFICES ASSUME Init PROVE RequestInv
  OBVIOUS
<1>1. DialInv
  BY DEF Init, DialInv
<1>2. SecretInv
  BY Zenon DEF Init, SecretInv
<1>3. failure.class = "none" /\ failure.detail = ""
  BY DEF Init, Runner!NoFailure
<1>4. FailureInv
  BY <1>3, Zenon DEF Init, FailureInv
<1> QED BY <1>1, <1>2, <1>4 DEF RequestInv

\* A denied or broken exchange keeps the invariant, whatever it was doing.
LEMMA FailedStep ==
    ASSUME RequestInv, pc # "failed", pc' = "failed",
           UNCHANGED <<request, control, dialCount, connections, cert, sent>>,
           failure'.detail = "socket_mark_refused" => connections = <<>> /\ ~sent,
           failure'.class = "invalid_trust" => ~sent
    PROVE  RequestInv'
<1>1. DialInv'
  BY DEF RequestInv, DialInv
<1>2. SecretInv'
  BY Zenon DEF RequestInv, SecretInv, Named
<1>3. FailureInv'
  BY Zenon DEF FailureInv
<1> QED BY <1>1, <1>2, <1>3 DEF RequestInv

\* So does moving on with everything that matters unchanged, to a location that
\* asks for no more.
LEMMA MovesOn ==
    ASSUME RequestInv, pc # "failed",
           pc' = pc \/ pc' \in {"dial", "wait", "body", "accepted"}, pc' = "wait" => dialCount # 0,
           UNCHANGED <<request, control, dialCount, marked, connections, cert, sent, failure>>
    PROVE  RequestInv'
<1>1. DialInv'
  BY DEF RequestInv, DialInv
<1>2. SecretInv'
  BY Zenon DEF RequestInv, SecretInv, Named
<1>3. FailureInv'
  BY Zenon DEF RequestInv, FailureInv
<1> QED BY <1>1, <1>2, <1>3 DEF RequestInv

\* The first dial opens a socket, the second is denied.
LEMMA DialStep == RequestInv /\ Dial => RequestInv'
<1> SUFFICES ASSUME RequestInv, Dial PROVE RequestInv'
  OBVIOUS
<1>1. CASE dialCount > 0
  <2>1. NetworkError /\ UNCHANGED dialCount
    BY <1>1 DEF Dial, DialContext
  <2> QED BY <2>1, NetworkErrorReason, FailedStep DEF Dial
<1>2. CASE ~(dialCount > 0)
  <2>1. /\ dialCount = 0 /\ dialCount' \in Nat /\ dialCount' # 0
        /\ pc = "dial" /\ pc' = "socket"
        /\ UNCHANGED <<request, control, marked, connections, cert, sent, failure>>
    BY <1>2 DEF RequestInv, DialInv, Dial, DialContext
  <2>2. DialInv'
    BY <2>1 DEF RequestInv, DialInv
  <2>3. SecretInv'
    BY <2>1, Zenon DEF RequestInv, SecretInv, Named
  <2>4. FailureInv'
    BY <2>1, Zenon DEF RequestInv, FailureInv
  <2> QED BY <2>2, <2>3, <2>4 DEF RequestInv
<1> QED BY <1>1, <1>2

\* The control sets the mark or ends the exchange unconnected.
LEMMA ControlStep == RequestInv /\ Control => RequestInv'
<1> SUFFICES ASSUME RequestInv, Control PROVE RequestInv'
  OBVIOUS
<1>0. /\ pc = "socket" /\ connections = <<>>
      /\ UNCHANGED <<request, control, dialCount, connections, cert, sent>>
  BY DEF RequestInv, DialInv, Control
<1>1. ~sent
  BY <1>0, Zenon DEF RequestInv, SecretInv
<1>2. CASE marked' = control /\ pc' = "connect" /\ UNCHANGED failure
  <2>1. DialInv'
    BY <1>0, <1>2 DEF RequestInv, DialInv
  <2>2. SecretInv'
    BY <1>0, <1>1, <1>2, Zenon DEF SecretInv
  <2>3. FailureInv'
    BY <1>0, <1>2, Zenon DEF RequestInv, FailureInv
  <2> QED BY <2>1, <2>2, <2>3 DEF RequestInv
<1>3. CASE Failed(RequestClass, "socket_mark_refused")
  <2>1. pc' = "failed" /\ failure'.class # "invalid_trust"
    BY <1>3 DEF Failed, RequestClass
  <2> QED BY <1>0, <1>1, <2>1, FailedStep
<1> QED BY <1>2, <1>3 DEF Control, socketMarkControl

\* The one connection carries the mark of its socket.
LEMMA ConnectStep == RequestInv /\ Connect => RequestInv'
<1> SUFFICES ASSUME RequestInv, Connect PROVE RequestInv'
  OBVIOUS
<1>1. /\ connections = <<>> /\ marked = control /\ dialCount # 0
      /\ pc = "connect" /\ pc' = "handshake"
      /\ UNCHANGED <<request, control, dialCount, marked, cert, sent, failure>>
  BY DEF RequestInv, DialInv, Connect
<1>2. connections' = <<control>>
  BY <1>1 DEF Connect
<1>3. DialInv'
  BY <1>1, <1>2 DEF RequestInv, DialInv
<1>4. SecretInv'
  BY <1>1, Zenon DEF RequestInv, SecretInv, Named
<1>5. failure.detail = ""
  BY <1>1, Zenon DEF RequestInv, FailureInv
<1>6. FailureInv'
  BY <1>1, <1>5, Zenon DEF RequestInv, FailureInv
<1> QED BY <1>3, <1>4, <1>6 DEF RequestInv

\* The handshake ends with a named peer or with nothing sent.
LEMMA HandshakeStep == RequestInv /\ Handshake => RequestInv'
<1> SUFFICES ASSUME RequestInv, Handshake PROVE RequestInv'
  OBVIOUS
<1>0. /\ pc = "handshake"
      /\ UNCHANGED <<request, control, dialCount, marked, connections, sent>>
  BY DEF Handshake
<1>1. ~sent
  BY <1>0, Zenon DEF RequestInv, SecretInv
<1>2. CASE verifyConstrainedTLSConnection(cert') = "" /\ pc' = "send" /\ UNCHANGED failure
  <2>1. Named(cert)'
    BY <1>0, <1>2, FaultlessIsNamed DEF Named
  <2>2. DialInv'
    BY <1>0, <1>2 DEF RequestInv, DialInv
  <2>3. SecretInv'
    BY <1>0, <1>1, <1>2, <2>1, Zenon DEF SecretInv
  <2>4. FailureInv'
    BY <1>0, <1>2, Zenon DEF RequestInv, FailureInv
  <2> QED BY <2>2, <2>3, <2>4 DEF RequestInv
<1>3. CASE Failed("invalid_trust", trustDetail(verifyConstrainedTLSConnection(cert')))
  <2>1. failure'.detail # "socket_mark_refused" /\ pc' = "failed"
    BY <1>3, FaultDetail DEF Failed, trustDetail
  <2>2. DialInv'
    BY <1>0, <2>1 DEF RequestInv, DialInv
  <2>3. SecretInv'
    BY <1>0, <1>1, <2>1, Zenon DEF SecretInv
  <2>4. FailureInv'
    BY <1>0, <1>1, <2>1, Zenon DEF FailureInv
  <2> QED BY <2>2, <2>3, <2>4 DEF RequestInv
<1> QED BY <1>2, <1>3 DEF Handshake

\* The request goes out to the peer of the handshake.
LEMMA SendStep == RequestInv /\ Send => RequestInv'
<1> SUFFICES ASSUME RequestInv, Send PROVE RequestInv'
  OBVIOUS
<1>0. /\ pc = "send" /\ pc' = "wait" /\ dialCount # 0
      /\ UNCHANGED <<request, control, dialCount, marked, connections, cert, failure>>
  BY DEF RequestInv, DialInv, Send, conn
<1>1. DialInv'
  BY <1>0 DEF RequestInv, DialInv
<1>2. Named(cert)
  BY <1>0, Zenon DEF RequestInv, SecretInv
<1>3. SecretInv'
  BY <1>0, <1>2, Zenon DEF SecretInv, Named
<1>4. failure.class = "none" /\ failure.detail = ""
  BY <1>0, Zenon DEF RequestInv, FailureInv
<1>5. FailureInv'
  BY <1>0, <1>4, Zenon DEF FailureInv
<1> QED BY <1>1, <1>3, <1>5 DEF RequestInv

\* The answer is taken or refused, with a reason of its own.
LEMMA AnswerStep == RequestInv /\ (Respond \/ ReadBody) => RequestInv'
<1> SUFFICES ASSUME RequestInv, Respond \/ ReadBody PROVE RequestInv'
  OBVIOUS
<1>0. /\ pc # "failed"
      /\ UNCHANGED <<request, control, dialCount, marked, connections, cert, sent>>
  BY DEF Respond, ReadBody, conn
<1>1. CASE pc' \in {"body", "accepted"} /\ UNCHANGED failure
  BY <1>0, <1>1, MovesOn
<1>2. CASE Failed(RequestClass, "http_status") \/ Failed("response_invalid", "body_invalid")
  <2>1. /\ pc' = "failed" /\ failure'.class # "invalid_trust"
        /\ failure'.detail # "socket_mark_refused"
    BY <1>2 DEF Failed, RequestClass
  <2> QED BY <1>0, <2>1, FailedStep
<1> QED BY <1>1, <1>2 DEF Respond, ReadBody

\* Nor does an exchange that breaks or times out leave the invariant.
LEMMA BreakStep == RequestInv /\ (Breaks \/ TimesOut) => RequestInv'
<1> SUFFICES ASSUME RequestInv, Breaks \/ TimesOut PROVE RequestInv'
  OBVIOUS
<1>0. /\ pc # "failed"
      /\ UNCHANGED <<request, control, dialCount, marked, connections, cert, sent>>
  BY DEF Breaks, TimesOut, conn, InDo
<1>1. CASE NetworkError
  BY <1>0, <1>1, NetworkErrorReason, FailedStep
<1>2. CASE Failed("response_invalid", "body_read_failed")
  <2>1. /\ pc' = "failed" /\ failure'.class # "invalid_trust"
        /\ failure'.detail # "socket_mark_refused"
    BY <1>2 DEF Failed
  <2> QED BY <1>0, <2>1, FailedStep
<1> QED BY <1>1, <1>2 DEF Breaks, TimesOut

\* Nor do a retry, the end of the context and the passing of time.
LEMMA EnvironmentStep == RequestInv /\ (TransportRetries \/ ContextEnds \/ Tick) => RequestInv'
<1> SUFFICES ASSUME RequestInv, TransportRetries \/ ContextEnds \/ Tick PROVE RequestInv'
  OBVIOUS
<1>1. /\ pc # "failed" /\ (pc' = pc \/ pc' = "dial")
      /\ pc' = "wait" => dialCount # 0
      /\ UNCHANGED <<request, control, dialCount, marked, connections, cert, sent, failure>>
  BY DEF TransportRetries, ContextEnds, Tick, conn, InDo, RequestInv, DialInv
<1> QED BY <1>1, MovesOn

\* Every step of the exchange keeps the invariant.
LEMMA RequestStep == RequestInv /\ [Next]_vars => RequestInv'
<1>1. ASSUME RequestInv, UNCHANGED vars PROVE RequestInv'
  <2>1. /\ pc' = pc
        /\ UNCHANGED <<request, control, dialCount, marked, connections, cert, sent, failure>>
    BY <1>1 DEF vars, conn
  <2>2. DialInv'
    BY <1>1, <2>1 DEF RequestInv, DialInv
  <2>3. SecretInv'
    BY <1>1, <2>1, Zenon DEF RequestInv, SecretInv, Named
  <2>4. FailureInv'
    BY <1>1, <2>1, Zenon DEF RequestInv, FailureInv
  <2> QED BY <2>2, <2>3, <2>4 DEF RequestInv
<1> QED
  BY <1>1, DialStep, ControlStep, ConnectStep, HandshakeStep, SendStep, AnswerStep,
     BreakStep, EnvironmentStep DEF Next, Returned

\* The invariant holds throughout every exchange.
LEMMA RequestInvariant == Spec => []RequestInv
BY RequestInit, RequestStep, PTL DEF Spec

\* The credentials and the token reach only a verified peer, whatever it
\* presents, however often net/http retries and whenever the exchange ends.
THEOREM SecretNeedsVerifiedPeer == Spec => []SecretOnlyToVerifiedPeer
<1>1. RequestInv => SecretOnlyToVerifiedPeer
  BY Zenon DEF RequestInv, SecretInv, Named, SecretOnlyToVerifiedPeer
<1> QED BY <1>1, RequestInvariant, PTL

\* There is at most one connection, it carries the mark the launcher asked for,
\* and there is none when the kernel refused the mark.
THEOREM OneMarkedConnection == Spec => []MarkedSingleConnection
<1>1. RequestInv => MarkedSingleConnection
  BY DEF RequestInv, DialInv, FailureInv, MarkedSingleConnection
<1> QED BY <1>1, RequestInvariant, PTL

\* A refused peer or a refused mark means that nothing was sent.
THEOREM RefusalSendsNothing == Spec => []RefusedBeforeSending
<1>1. RequestInv => RefusedBeforeSending
  BY Zenon DEF RequestInv, FailureInv, RefusedBeforeSending
<1> QED BY <1>1, RequestInvariant, PTL
-----------------------------------------------------------------------------
(***************************************************************************)
(* Types.                                                                   *)
(***************************************************************************)

\* A failure built from the vocabulary of the runner is a failure.
LEMMA FailedType ==
    ASSUME NEW c \in Runner!Classes, NEW d \in Runner!Details, Failed(c, d)
    PROVE  /\ pc' = "failed"
           /\ failure' \in Runner!Reasons
           /\ failure' # Runner!NoFailure
<1>1. c # "none"
  BY DEF Runner!Classes
<1> QED BY <1>1 DEF Failed, Runner!Reasons, Runner!NoFailure

\* The classes and details of an exchange are in that vocabulary.
LEMMA Vocabulary ==
    /\ RequestClass \in Runner!Classes
    /\ Runner!classifyNetworkError(RequestClass) \in Runner!Classes
    /\ {"invalid_trust", "response_invalid"} \subseteq Runner!Classes
    /\ {"", "socket_mark_refused", "ca_chain", "endpoint_identity", "http_status",
        "body_invalid", "body_read_failed"} \subseteq Runner!Details
    /\ \A c : trustDetail(verifyConstrainedTLSConnection(c)) \in Runner!Details
<1>1. RequestClass \in {"token_request_failed", "add_key_request_failed"}
  BY DEF RequestClass
<1>2. \A c : trustDetail(verifyConstrainedTLSConnection(c)) \in {"", "ca_chain", "endpoint_identity"}
  BY DEF trustDetail, verifyConstrainedTLSConnection
<1> QED
  BY <1>1, <1>2
     DEF Runner!Classes, Runner!Details, Runner!classifyNetworkError, Runner!contextClass

\* The part of the type invariant about the progress of the exchange.
ProgressOK ==
    /\ pc \in InDo \cup {"body", "accepted", "failed"}
    /\ failure \in Runner!Reasons
    /\ (pc = "failed") = (failure # Runner!NoFailure)

\* Every way for an exchange to fail keeps ProgressOK.
LEMMA FailedProgress ==
    ASSUME NEW c \in Runner!Classes, NEW d \in Runner!Details, Failed(c, d)
    PROVE  ProgressOK'
BY FailedType DEF ProgressOK

\* Progress is well typed throughout: locations move on, or the exchange fails.
LEMMA ProgressStep == ProgressOK /\ [Next]_vars => ProgressOK'
<1> SUFFICES ASSUME ProgressOK, [Next]_vars PROVE ProgressOK'
  OBVIOUS
<1>m. ASSUME pc # "failed", pc' \in InDo \cup {"body", "accepted"}, UNCHANGED failure
      PROVE  ProgressOK'
  BY <1>m DEF ProgressOK, InDo
<1>n. ASSUME NetworkError PROVE ProgressOK'
  BY <1>n, FailedProgress, Vocabulary DEF NetworkError
<1>s. ASSUME UNCHANGED <<pc, failure>> PROVE ProgressOK'
  BY <1>s DEF ProgressOK
<1>1. CASE Dial
  BY <1>1, <1>m, <1>n DEF Dial, DialContext, InDo
<1>2. CASE Control
  BY <1>2, <1>m, FailedProgress, Vocabulary DEF Control, socketMarkControl, InDo
<1>3. CASE Connect \/ Send
  BY <1>3, <1>m DEF Connect, Send, InDo
<1>4. CASE Handshake
  <2>1. \/ pc' = "send" /\ UNCHANGED failure
        \/ Failed("invalid_trust", trustDetail(verifyConstrainedTLSConnection(cert')))
    BY <1>4 DEF Handshake
  <2> QED BY <1>4, <1>m, <2>1, FailedProgress, Vocabulary DEF Handshake, InDo
<1>5. CASE Respond \/ ReadBody
  BY <1>5, <1>m, FailedProgress, Vocabulary DEF Respond, ReadBody
<1>6. CASE Breaks \/ TimesOut
  BY <1>6, <1>n, FailedProgress, Vocabulary DEF Breaks, TimesOut
<1>7. CASE TransportRetries
  BY <1>7, <1>m DEF TransportRetries, InDo
<1>8. CASE ContextEnds \/ Tick \/ UNCHANGED vars
  BY <1>8, <1>s DEF ContextEnds, Tick, vars
<1> QED
  BY <1>1, <1>2, <1>3, <1>4, <1>5, <1>6, <1>7, <1>8 DEF Next, Returned

\* The part about what an exchange is given and what it meets on the way.
SurroundingsOK ==
    /\ request \in {"token", "addKey"}
    /\ control \in BOOLEAN
    /\ marked \in BOOLEAN
    /\ cert \in Certificates
    /\ sent \in BOOLEAN

\* The surroundings keep their types.
LEMMA SurroundingsStep == SurroundingsOK /\ [Next]_vars => SurroundingsOK'
<1> SUFFICES ASSUME SurroundingsOK, [Next]_vars PROVE SurroundingsOK'
  OBVIOUS
<1> USE DEF SurroundingsOK, conn
<1>1. CASE Control
  BY <1>1, Zenon DEF Control, socketMarkControl
<1>2. CASE Handshake
  BY <1>2, Zenon DEF Handshake
<1>3. CASE Send
  BY <1>3, Zenon DEF Send
<1>4. CASE Dial \/ Connect \/ Respond \/ ReadBody
  BY <1>4, Zenon DEF Dial, Connect, Respond, ReadBody
<1>5. CASE Breaks \/ TransportRetries \/ TimesOut \/ ContextEnds \/ Tick
  BY <1>5, Zenon DEF Breaks, TransportRetries, TimesOut, ContextEnds, Tick
<1>6. CASE UNCHANGED vars
  BY <1>6, Zenon DEF vars
<1> QED BY <1>1, <1>2, <1>3, <1>4, <1>5, <1>6, Zenon DEF Next, Returned

\* The counters: the clock stops at the timeout, the context ends once.
CountersOK ==
    /\ elapsed \in 0..Timeout
    /\ ctxErr \in {"nil", "canceled", "deadline"}
    /\ dialCount \in Nat

\* The counters keep their ranges.
LEMMA CountersStep == CountersOK /\ [Next]_vars => CountersOK'
<1> SUFFICES ASSUME CountersOK, [Next]_vars PROVE CountersOK'
  OBVIOUS
<1> USE DEF CountersOK, conn
<1>1. CASE Tick
  BY <1>1, TimeoutAssumption DEF Tick
<1>2. CASE Dial
  BY <1>2 DEF Dial, DialContext
<1>3. CASE ContextEnds
  BY <1>3 DEF ContextEnds
<1>4. CASE Control \/ Connect \/ Handshake \/ Send \/ Respond \/ ReadBody
  BY <1>4 DEF Control, Connect, Handshake, Send, Respond, ReadBody
<1>5. CASE Breaks \/ TransportRetries \/ TimesOut
  BY <1>5 DEF Breaks, TransportRetries, TimesOut
<1>6. CASE UNCHANGED vars
  BY <1>6 DEF vars
<1> QED BY <1>1, <1>2, <1>3, <1>4, <1>5, <1>6 DEF Next, Returned

\* Every exchange begins well typed.
LEMMA TypesInit == Init => ProgressOK /\ SurroundingsOK /\ CountersOK
<1> SUFFICES ASSUME Init PROVE ProgressOK /\ SurroundingsOK /\ CountersOK
  OBVIOUS
<1>1. ProgressOK
  BY DEF Init, ProgressOK, InDo, Runner!NoFailure, Runner!Reasons, Runner!Details
<1>2. NoCertificate \in Certificates
  BY DEF NoCertificate, Certificates
<1>3. SurroundingsOK
  BY <1>2, Zenon DEF Init, SurroundingsOK
<1>4. CountersOK
  BY TimeoutAssumption DEF Init, CountersOK
<1> QED BY <1>1, <1>3, <1>4

\* Every variable keeps its type: an exchange fails with a reason of the runner's
\* vocabulary exactly when it has failed, and its clock never passes the timeout.
THEOREM TypeCorrect == Spec => []TypeOK
<1>1. ProgressOK /\ SurroundingsOK /\ CountersOK => TypeOK
  BY Zenon DEF ProgressOK, SurroundingsOK, CountersOK, TypeOK
<1> QED BY <1>1, TypesInit, ProgressStep, SurroundingsStep, CountersStep, PTL DEF Spec
-----------------------------------------------------------------------------
(***************************************************************************)
(* The runner's view.  What the runner sees of an exchange are runnerPc,    *)
(* its timer, what has been sent and the failure; everything else in        *)
(* Runner!vars is constant or shared with the exchange.                     *)
(***************************************************************************)
RunnerStep == Runner!Exchange \/ Runner!Environment

\* The exchange waits for an answer to something it has sent.
WaitInv == pc = "wait" => sent

\* WaitInv is kept: nothing that was sent is taken back.
LEMMA WaitStep == WaitInv /\ [Next]_vars => WaitInv'
<1> SUFFICES ASSUME WaitInv, [Next]_vars PROVE WaitInv'
  OBVIOUS
<1>1. CASE Send
  BY <1>1, Zenon DEF Send, WaitInv
<1>2. ASSUME UNCHANGED sent, pc' = "wait" => pc = "wait" PROVE WaitInv'
  BY <1>2, Zenon DEF WaitInv
<1>3. CASE Dial \/ Control \/ Connect \/ Handshake \/ Respond \/ ReadBody
  <2>1. UNCHANGED sent
    BY <1>3 DEF Dial, Control, Connect, Handshake, Respond, ReadBody
  <2>2. pc' # "wait"
    BY <1>3 DEF Dial, DialContext, Control, socketMarkControl, Connect, Handshake, Respond,
                ReadBody, NetworkError, Failed
  <2> QED BY <1>2, <2>1, <2>2
<1>4. CASE Breaks \/ TimesOut \/ TransportRetries
  <2>1. UNCHANGED sent
    BY <1>4 DEF Breaks, TimesOut, TransportRetries
  <2>2. pc' # "wait"
    BY <1>4 DEF Breaks, TimesOut, TransportRetries, NetworkError, Failed
  <2> QED BY <1>2, <2>1, <2>2
<1>5. CASE ContextEnds \/ Tick \/ UNCHANGED vars
  <2>1. UNCHANGED <<sent, pc>>
    BY <1>5 DEF ContextEnds, Tick, vars
  <2> QED BY <1>2, <2>1
<1> QED BY <1>1, <1>3, <1>4, <1>5 DEF Next, Returned

\* Before the answer the exchange is one of the runner's client.Do, behind it
\* one of its body reads.
LEMMA RunnerLocation ==
    ASSUME SurroundingsOK
    PROVE  /\ pc \in InDo =>
                /\ runnerPc \in {"tokenDo", "addKeyDo"}
                /\ runnerPc = IF request = "token" THEN "tokenDo" ELSE "addKeyDo"
                /\ Runner!Request = request
                /\ Runner!RequestClass = RequestClass
           /\ pc = "body" => runnerPc = IF request = "token" THEN "tokenBody" ELSE "addKeyBody"
           /\ pc \in InDo \cup {"body"} => runnerOpEnd = Timeout
           /\ pc = "failed" => runnerPc = "fail" /\ runnerOpEnd = 0
           /\ request \in {"token", "addKey"}
<1>1. request \in {"token", "addKey"}
  BY Zenon DEF SurroundingsOK
<1> QED
  BY <1>1
     DEF runnerPc, runnerOpEnd, InDo, Runner!Request, Runner!RequestClass, RequestClass

\* The same of the state a step leads to.
LEMMA RunnerNextLocation ==
    ASSUME SurroundingsOK, UNCHANGED request
    PROVE  /\ pc' \in InDo => runnerPc' = (IF request = "token" THEN "tokenDo" ELSE "addKeyDo")
           /\ pc' = "body" => runnerPc' = (IF request = "token" THEN "tokenBody" ELSE "addKeyBody")
           /\ pc' \in InDo \cup {"body"} => runnerOpEnd' = Timeout
           /\ pc' = "failed" => runnerPc' = "fail" /\ runnerOpEnd' = 0
           /\ pc' = "accepted" /\ request = "token" => runnerPc' = "admitAddKey" /\ runnerOpEnd' = 0
           /\ pc' = "accepted" /\ request = "addKey" => runnerPc' = "addKeyBody" /\ runnerOpEnd' = Timeout
<1>1. request \in {"token", "addKey"} /\ request' = request
  BY Zenon DEF SurroundingsOK
<1>2. /\ runnerPc' = IF pc' \in InDo
                      THEN (IF request = "token" THEN "tokenDo" ELSE "addKeyDo")
                      ELSE IF pc' = "failed" THEN "fail"
                      ELSE IF request = "addKey" THEN "addKeyBody"
                      ELSE IF pc' = "body" THEN "tokenBody" ELSE "admitAddKey"
      /\ runnerOpEnd' = IF runnerPc' \in {"fail", "admitAddKey"} THEN 0 ELSE Timeout
  BY <1>1 DEF runnerPc, runnerOpEnd
<1>3. {"body", "failed", "accepted"} \cap InDo = {}
  BY DEF InDo
<1> QED BY <1>1, <1>2, <1>3

\* What the runner takes for sent.
LEMMA RunnerSent ==
    ASSUME SurroundingsOK
    PROVE  /\ sent => request \in runnerSent
           /\ ~sent => request \notin runnerSent
           /\ request' = request /\ sent' = sent => runnerSent' = runnerSent
           /\ request' = request /\ sent' => runnerSent' = runnerSent \cup {request}
<1>1. sent => request \in runnerSent
  BY Zenon DEF runnerSent
<1>2. ASSUME ~sent PROVE request \notin runnerSent
  <2>1. runnerSent = IF request = "addKey" THEN {"token"} ELSE {}
    BY <1>2 DEF runnerSent
  <2> QED BY <2>1
<1>3. ASSUME request' = request, sent' = sent PROVE runnerSent' = runnerSent
  BY <1>3, Zenon DEF runnerSent
<1>4. ASSUME request' = request, sent' PROVE runnerSent' = runnerSent \cup {request}
  <2>1. runnerSent' = {request} \cup (IF request = "addKey" THEN {"token"} ELSE {})
    BY <1>4 DEF runnerSent
  <2>2. CASE sent
    BY <2>1, <2>2 DEF runnerSent
  <2>3. CASE ~sent
    BY <2>1, <2>3 DEF runnerSent
  <2> QED BY <2>2, <2>3
<1> QED BY <1>1, <1>2, <1>3, <1>4, Zenon

\* What no exchange touches of the runner's state: its inputs but the mark, the
\* pipes, and the clock while no time passes.
LEMMA RunnerFrame ==
    ASSUME UNCHANGED <<control, elapsed>>
    PROVE  UNCHANGED <<Runner!clock, Runner!inputs, Runner!pipes>>
BY DEF Runner!clock, Runner!inputs, Runner!pipes

\* A failed exchange is a failed run, with the same reason.
LEMMA FailedRefines ==
    ASSUME SurroundingsOK, UNCHANGED request, NEW c, NEW d, Failed(c, d)
    PROVE  /\ Runner!Fail(Runner!constrainedFailureWithDetail(c, d))
           /\ d = "" => Runner!Fail(Runner!constrainedFailureFor(c))
<1>1. runnerPc' = "fail" /\ runnerOpEnd' = 0
  BY RunnerNextLocation DEF Failed
<1> QED
  BY <1>1 DEF Failed, Runner!Fail, Runner!Go, Runner!constrainedFailureWithDetail,
              Runner!constrainedFailureFor

\* Moving within client.Do or within the body read is invisible.
LEMMA Unseen ==
    ASSUME SurroundingsOK, UNCHANGED <<request, control, elapsed, ctxErr, failure>>,
           sent' = sent,
           \/ pc \in InDo /\ pc' \in InDo
           \/ pc = "body" /\ pc' = "accepted" /\ request = "addKey"
           \/ pc' = pc
    PROVE  UNCHANGED Runner!vars
<1>1. UNCHANGED <<runnerPc, runnerOpEnd>>
  <2>1. CASE pc \in InDo /\ pc' \in InDo
    BY <2>1, RunnerLocation, RunnerNextLocation
  <2>2. CASE pc = "body" /\ pc' = "accepted" /\ request = "addKey"
    BY <2>2, RunnerLocation, RunnerNextLocation
  <2>3. CASE pc' = pc
    BY <2>3 DEF runnerPc, runnerOpEnd
  <2> QED BY <2>1, <2>2, <2>3
<1>2. runnerSent' = runnerSent
  <2>1. request' = request
    OBVIOUS
  <2> QED BY <2>1, RunnerSent, Zenon
<1> QED
  BY <1>1, <1>2, RunnerFrame
     DEF Runner!vars, Runner!outcome, Runner!remote

\* A network error ends the runner's client.Do the same way.
LEMMA NetworkErrorRefines ==
    ASSUME SurroundingsOK, pc \in InDo, NetworkError,
           UNCHANGED <<request, control, elapsed, ctxErr>>, sent' = sent
    PROVE  Runner!RequestFails
<1>1. /\ runnerPc \in {"tokenDo", "addKeyDo"} /\ Runner!RequestClass = RequestClass
  BY RunnerLocation
<1>2. Runner!Fail(Runner!constrainedFailureFor(Runner!classifyNetworkError(RequestClass)))
  BY FailedRefines DEF NetworkError
<1>3. request' = request
  OBVIOUS
<1>4. runnerSent' = runnerSent
  BY <1>3, RunnerSent, Zenon
<1> QED
  BY <1>1, <1>2, <1>4, RunnerFrame DEF Runner!RequestFails, Runner!remote

\* A body that cannot be read ends the runner's body read the same way.
LEMMA BodyErrorRefines ==
    ASSUME SurroundingsOK, pc = "body",
           UNCHANGED <<request, control, elapsed, ctxErr>>, sent' = sent
    PROVE  /\ Failed("response_invalid", "body_read_failed") => Runner!BodyReadFails
           /\ Failed("response_invalid", "body_invalid") => Runner!BodyInvalid
<1>1. runnerPc \in {"tokenBody", "addKeyBody"}
  BY RunnerLocation
<1>2. request' = request
  OBVIOUS
<1>3. runnerSent' = runnerSent
  BY <1>2, RunnerSent, Zenon
<1> QED
  BY <1>1, <1>3, RunnerFrame, FailedRefines
     DEF Runner!BodyReadFails, Runner!BodyInvalid, Runner!remote

\* Every step of the exchange is a step of the runner's exchange, or of its
\* surroundings, or cannot be seen by the runner: one case per action.
LEMMA RefinementStep ==
    RequestInv /\ WaitInv /\ SurroundingsOK /\ CountersOK /\ [Next]_vars
      => [RunnerStep]_(Runner!vars)
<1> SUFFICES ASSUME RequestInv, WaitInv, SurroundingsOK, CountersOK, [Next]_vars
             PROVE  [RunnerStep]_(Runner!vars)
  OBVIOUS
<1> USE DEF conn
<1>e. /\ Runner!RequestFails \/ Runner!BodyReadFails \/ Runner!BodyInvalid => RunnerStep
      /\ Runner!SendRequest \/ Runner!ConnectionRefused \/ Runner!ResponseArrives => RunnerStep
      /\ Runner!TokenReceived => RunnerStep
      /\ Runner!Interrupt \/ Runner!ContextExpires \/ Runner!Tick => RunnerStep
  BY DEF RunnerStep, Runner!Exchange, Runner!Environment
<1>1. CASE Dial
  <2>1. /\ pc \in InDo /\ UNCHANGED <<request, control, elapsed, ctxErr>>
    BY <1>1 DEF Dial, InDo
  <2>2. sent' = sent
    BY <1>1 DEF Dial
  <2>3. CASE NetworkError
    BY <1>e, <2>1, <2>2, <2>3, NetworkErrorRefines
  <2>4. CASE pc' = "socket" /\ UNCHANGED failure
    BY <2>1, <2>2, <2>4, Unseen DEF InDo
  <2> QED BY <1>1, <2>3, <2>4 DEF Dial, DialContext
<1>2. CASE Control
  <2>1. /\ pc \in InDo /\ pc = "socket" /\ UNCHANGED <<request, control, elapsed, ctxErr>>
    BY <1>2 DEF Control, InDo
  <2>2. sent' = sent
    BY <1>2 DEF Control
  <2>3. CASE pc' = "connect" /\ UNCHANGED failure
    BY <2>1, <2>2, <2>3, Unseen DEF InDo
  <2>4. CASE control /\ Failed(RequestClass, "socket_mark_refused")
    <3>1. ~sent
      BY <2>1, Zenon DEF RequestInv, SecretInv
    <3>2. Runner!Request \notin runnerSent
      BY <2>1, <3>1, RunnerLocation, RunnerSent
    <3>3. /\ runnerPc \in {"tokenDo", "addKeyDo"}
          /\ Runner!Fail(Runner!constrainedFailureWithDetail(Runner!RequestClass, "socket_mark_refused"))
      BY <2>1, <2>4, RunnerLocation, FailedRefines
    <3>4. runnerSent' = runnerSent
      BY <2>1, <2>2, RunnerSent
    <3>5. Runner!ConnectionRefused
      BY <2>1, <2>4, <3>2, <3>3, <3>4, RunnerFrame DEF Runner!ConnectionRefused, Runner!remote
    <3> QED BY <1>e, <3>5
  <2> QED BY <1>2, <2>3, <2>4 DEF Control, socketMarkControl
<1>3. CASE Connect
  <2>1. /\ pc \in InDo /\ pc' \in InDo
        /\ UNCHANGED <<request, control, elapsed, ctxErr, failure>>
    BY <1>3 DEF Connect, InDo
  <2>2. sent' = sent
    BY <1>3 DEF Connect
  <2> QED BY <2>1, <2>2, Unseen
<1>4. CASE Handshake
  <2>1. /\ pc \in InDo /\ pc = "handshake" /\ UNCHANGED <<request, control, elapsed, ctxErr>>
    BY <1>4 DEF Handshake, InDo
  <2>2. sent' = sent
    BY <1>4 DEF Handshake
  <2>3. CASE pc' = "send" /\ UNCHANGED failure
    BY <2>1, <2>2, <2>3, Unseen DEF InDo
  <2>4. ASSUME NEW d \in {"ca_chain", "endpoint_identity"},
               Failed("invalid_trust", trustDetail(d))
        PROVE  RunnerStep
    <3>1. ~sent
      BY <2>1, Zenon DEF RequestInv, SecretInv
    <3>2. Runner!Request \notin runnerSent
      BY <2>1, <3>1, RunnerLocation, RunnerSent
    <3>3. /\ runnerPc \in {"tokenDo", "addKeyDo"}
          /\ trustDetail(d) = IF runnerPc = "tokenDo" THEN "" ELSE d
      BY <2>1, RunnerLocation DEF trustDetail
    <3>4. Runner!Fail(Runner!constrainedFailureWithDetail("invalid_trust", trustDetail(d)))
      BY <2>1, <2>4, FailedRefines
    <3>5. runnerSent' = runnerSent
      BY <2>1, <2>2, RunnerSent
    <3>6. Runner!ConnectionRefused
      BY <2>1, <3>2, <3>3, <3>4, <3>5, RunnerFrame DEF Runner!ConnectionRefused, Runner!remote
    <3> QED BY <1>e, <3>6
  <2>5. \/ pc' = "send" /\ UNCHANGED failure
        \/ /\ verifyConstrainedTLSConnection(cert') \in {"ca_chain", "endpoint_identity"}
           /\ Failed("invalid_trust", trustDetail(verifyConstrainedTLSConnection(cert')))
    BY <1>4, FaultDetail DEF Handshake
  <2> QED BY <2>3, <2>4, <2>5
<1>5. CASE Send
  <2>1. /\ pc \in InDo /\ pc' \in InDo
        /\ UNCHANGED <<request, control, elapsed, ctxErr, failure>>
    BY <1>5 DEF Send, InDo
  <2>2. sent'
    BY <1>5, Zenon DEF Send
  <2>3. CASE sent
    <3>1. sent' = sent
      BY <1>5, <2>3, Zenon DEF Send, SurroundingsOK
    <3> QED BY <2>1, <3>1, Unseen
  <2>4. CASE ~sent
    <3>1. /\ runnerPc \in {"tokenDo", "addKeyDo"}
          /\ Runner!Request = request /\ Runner!Request \notin runnerSent
          /\ UNCHANGED <<runnerPc, runnerOpEnd>>
      BY <2>1, <2>4, RunnerLocation, RunnerNextLocation, RunnerSent
    <3>2. runnerSent' = runnerSent \cup {request}
      BY <2>1, <2>2, RunnerSent
    <3>3. Runner!SendRequest
      BY <2>1, <3>1, <3>2, RunnerFrame DEF Runner!SendRequest, Runner!outcome
    <3> QED BY <1>e, <3>3
  <2> QED BY <2>3, <2>4
<1>6. CASE Respond
  <2>1. /\ pc = "wait" /\ pc \in InDo /\ UNCHANGED <<request, control, elapsed, ctxErr>>
    BY <1>6 DEF Respond, InDo
  <2>2. sent' = sent
    BY <1>6 DEF Respond
  <2>3. sent
    BY <2>1, Zenon DEF WaitInv
  <2>4. /\ runnerPc = IF request = "token" THEN "tokenDo" ELSE "addKeyDo"
        /\ runnerPc \in {"tokenDo", "addKeyDo"}
        /\ Runner!Request \in runnerSent /\ Runner!RequestClass = RequestClass
        /\ runnerOpEnd = Timeout
    BY <2>1, <2>3, RunnerLocation, RunnerSent
  <2>5. runnerSent' = runnerSent
    BY <2>1, <2>2, RunnerSent
  <2>6. CASE pc' = "body" /\ UNCHANGED failure
    <3>1. /\ runnerPc' = (IF runnerPc = "tokenDo" THEN "tokenBody" ELSE "addKeyBody")
          /\ UNCHANGED runnerOpEnd
      BY <2>1, <2>4, <2>6, RunnerNextLocation
    <3>2. Runner!ResponseArrives
      BY <2>1, <2>4, <2>5, <2>6, <3>1, RunnerFrame
         DEF Runner!ResponseArrives, Runner!outcome, Runner!remote
    <3> QED BY <1>e, <3>2
  <2>7. CASE Failed(RequestClass, "http_status")
    <3>1. Runner!Fail(Runner!constrainedFailureWithDetail(RequestClass, "http_status"))
      BY <2>1, <2>7, FailedRefines
    <3>2. Runner!ResponseArrives
      BY <2>1, <2>4, <2>5, <3>1, RunnerFrame DEF Runner!ResponseArrives, Runner!remote
    <3> QED BY <1>e, <3>2
  <2> QED BY <1>6, <2>6, <2>7 DEF Respond
<1>7. CASE ReadBody
  <2>1. /\ pc = "body" /\ UNCHANGED <<request, control, elapsed, ctxErr>>
    BY <1>7 DEF ReadBody
  <2>2. sent' = sent
    BY <1>7 DEF ReadBody
  <2>3. CASE Failed("response_invalid", "body_invalid")
    BY <1>e, <2>1, <2>2, <2>3, BodyErrorRefines
  <2>4. CASE pc' = "accepted" /\ UNCHANGED failure /\ request = "addKey"
    BY <2>1, <2>2, <2>4, Unseen
  <2>5. CASE pc' = "accepted" /\ UNCHANGED failure /\ request # "addKey"
    <3>1. /\ request = "token"
          /\ runnerPc = "tokenBody" /\ runnerPc' = "admitAddKey" /\ runnerOpEnd' = 0
      BY <2>1, <2>5, RunnerLocation, RunnerNextLocation
    <3>2. runnerSent' = runnerSent
      BY <2>1, <2>2, RunnerSent
    <3>3. Runner!TokenReceived
      BY <2>1, <2>5, <3>1, <3>2, RunnerFrame
         DEF Runner!TokenReceived, Runner!Go, Runner!outcome, Runner!remote
    <3> QED BY <1>e, <3>3
  <2> QED BY <1>7, <2>3, <2>4, <2>5 DEF ReadBody
<1>8. CASE Breaks \/ TimesOut
  <2>1. UNCHANGED <<request, control, elapsed, ctxErr>>
    BY <1>8 DEF Breaks, TimesOut
  <2>2. sent' = sent
    BY <1>8 DEF Breaks, TimesOut
  <2>3. \/ pc = "body" /\ Failed("response_invalid", "body_read_failed")
        \/ pc \in InDo /\ NetworkError
    BY <1>8 DEF Breaks, TimesOut
  <2> QED BY <1>e, <2>1, <2>2, <2>3, BodyErrorRefines, NetworkErrorRefines
<1>9. CASE TransportRetries
  <2>1. /\ pc \in InDo /\ pc' \in InDo
        /\ UNCHANGED <<request, control, elapsed, ctxErr, failure>>
    BY <1>9 DEF TransportRetries, InDo
  <2>2. sent' = sent
    BY <1>9 DEF TransportRetries
  <2> QED BY <2>1, <2>2, Unseen
<1>10. CASE ContextEnds \/ Tick
  <2>1. UNCHANGED <<request, pc, control, failure>>
    BY <1>10 DEF ContextEnds, Tick
  <2>2. sent' = sent
    BY <1>10 DEF ContextEnds, Tick
  <2>3. pc \in InDo \cup {"body"}
    BY <1>10 DEF ContextEnds, Tick
  <2>4. /\ UNCHANGED <<runnerPc, runnerOpEnd, runnerSent>>
    <3>1. UNCHANGED <<runnerPc, runnerOpEnd>>
      BY <2>1 DEF runnerPc, runnerOpEnd
    <3>2. runnerSent' = runnerSent
      BY <2>1, <2>2, RunnerSent
    <3> QED BY <3>1, <3>2
  <2>5. /\ runnerPc \in {"tokenDo", "addKeyDo", "tokenBody", "addKeyBody"}
        /\ runnerOpEnd = Timeout /\ elapsed \in Nat
    BY <2>3, RunnerLocation, TimeoutAssumption DEF CountersOK
  <2>6. CASE Tick
    <3>1. Runner!Tick
      BY <2>1, <2>4, <2>5, <2>6
         DEF Tick, Runner!Tick, Runner!Blocked, Runner!Requesting, Runner!inputs,
             Runner!outcome, Runner!pipes, Runner!remote
    <3> QED BY <1>e, <3>1
  <2>7. CASE ContextEnds
    <3>1. /\ UNCHANGED <<request, control, elapsed, failure>>
          /\ ctxErr = "nil" /\ ctxErr' \in {"canceled", "deadline"}
      BY <2>7 DEF ContextEnds
    <3>2. CASE ctxErr' = "canceled"
      <4>1. Runner!Interrupt
        BY <2>4, <2>5, <3>1, <3>2, RunnerFrame
           DEF Runner!Interrupt, Runner!outcome, Runner!remote
      <4> QED BY <1>e, <4>1
    <3>3. CASE ctxErr' = "deadline"
      <4>1. Runner!ContextExpires
        BY <2>4, <2>5, <3>1, <3>3, RunnerFrame
           DEF Runner!ContextExpires, Runner!outcome, Runner!remote
      <4> QED BY <1>e, <4>1
    <3> QED BY <3>1, <3>2, <3>3
  <2> QED BY <1>10, <2>6, <2>7
<1>11. CASE UNCHANGED vars
  <2>1. /\ pc' = pc /\ UNCHANGED <<request, control, elapsed, ctxErr, failure>>
    BY <1>11 DEF vars
  <2>2. sent' = sent
    BY <1>11 DEF vars
  <2> QED BY <2>1, <2>2, Unseen
<1> QED
  BY <1>1, <1>2, <1>3, <1>4, <1>5, <1>6, <1>7, <1>8, <1>9, <1>10, <1>11 DEF Next, Returned

\* ConstrainedRunner knows every step an exchange can take, for every timeout:
\* what is proved of the runner is not undone by the dial, the handshake, the
\* retries of net/http or the client's timer.
THEOREM ExchangeRefinesRunner == Spec => Refines
<1>1. Init => WaitInv
  BY DEF Init, WaitInv
<1>2. Spec => [][RunnerStep]_(Runner!vars)
  BY <1>1, RequestInvariant, TypesInit, WaitStep, SurroundingsStep, CountersStep,
     RefinementStep, PTL DEF Spec
<1> QED BY <1>2 DEF Refines, RunnerStep
=============================================================================
