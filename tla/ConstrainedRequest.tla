-------------------------- MODULE ConstrainedRequest --------------------------
(***************************************************************************)
(* One HTTP exchange of constrained mode: constrainedTokenRequest or         *)
(* constrainedAddKeyRequest over the client that constrainedHTTPClient       *)
(* builds (src/constrained.go), with the socket mark (src/socket_mark.go).   *)
(*                                                                          *)
(* ConstrainedRunner knows an exchange by what it sends and how it fails.    *)
(* This module opens it up: one dial to a fixed address, the mark before the *)
(* connect, the certificate checks before the first byte, one timeout over   *)
(* everything; Refines says that the runner's view of it is right.           *)
(***************************************************************************)
EXTENDS Naturals, Sequences

CONSTANT Timeout      \* http.Client.Timeout and net.Dialer.Timeout (15 s)

ASSUME TimeoutAssumption == Timeout \in Nat \ {0}

VARIABLES
    request,      \* "token" or "addKey"
    control,      \* whether there is a dial control (--socket-mark)
    pc,           \* how far the exchange is
    elapsed,      \* time since client.Do
    ctxErr,       \* the run's context
    dialCount,    \* calls of the transport's DialContext that went through
    marked,       \* the mark of the socket in use
    connections,  \* TCP connections made, by whether they carry the mark
    cert,         \* the certificate the peer presented
    sent,         \* the request, secret included, went out
    failure       \* the constrainedFailureReason returned

conn == <<dialCount, marked, connections, cert>>
vars == <<request, control, pc, elapsed, ctxErr, conn, sent, failure>>

-----------------------------------------------------------------------------
\* How the runner would describe the exchange: its locations, its clock and
\* what has been sent.  Where the run is in its budget is not the exchange's
\* business, so the context may end at any time (Budget is 0).
InDo == {"dial", "socket", "connect", "handshake", "send", "wait"}
runnerPc ==
    IF pc \in InDo THEN (IF request = "token" THEN "tokenDo" ELSE "addKeyDo")
    ELSE IF pc = "failed" THEN "fail"
    ELSE IF request = "addKey" THEN "addKeyBody"
    ELSE IF pc = "body" THEN "tokenBody" ELSE "admitAddKey"

runnerOpEnd == IF runnerPc \in {"fail", "admitAddKey"} THEN 0 ELSE Timeout

\* The token was sent before there could be a registration request.
runnerSent ==
    (IF sent THEN {request} ELSE {}) \cup (IF request = "addKey" THEN {"token"} ELSE {})

Runner == INSTANCE ConstrainedRunner WITH
    pc <- runnerPc, now <- elapsed, lag <- 0, slip <- 0,
    opEnd <- runnerOpEnd,
    plan <- [pf |-> FALSE, excluded |-> "none"],
    addKey <- [endpoint |-> "none", vip |-> "empty"],
    sent <- runnerSent,
    exit <- "none", config <- "empty", result <- <<>>, nonblock <- {},
    readers <- {}, closed <- {}, pending <- {}, registered <- FALSE,
    Endpoints <- {}, NoEndpoint <- "none", Budget <- 0, AdmitRun <- 0,
    AdmitToken <- 0, AdmitAddKey <- 0, AdmitConfig <- 0, AdmitResult <- 0,
    ReadTimeout <- 0, RequestTimeout <- Timeout, WriteTimeout <- 0, MaxLag <- 0

Certificates == [chain : BOOLEAN, san : {"none", "match", "other"}, cn : {"match", "other"}]
NoCertificate == [chain |-> FALSE, san |-> "none", cn |-> "other"]

Init ==
    /\ request \in {"token", "addKey"}
    /\ control \in BOOLEAN
    /\ pc = "dial"
    /\ elapsed = 0
    /\ ctxErr = "nil"
    /\ dialCount = 0
    /\ marked = FALSE
    /\ connections = <<>>
    /\ cert = NoCertificate
    /\ sent = FALSE
    /\ failure = Runner!NoFailure

-----------------------------------------------------------------------------
Failed(class, detail) == pc' = "failed" /\ failure' = [class |-> class, detail |-> detail]

BugClassTypo ==
    IF request = "token" THEN "token_request_failed" ELSE "addkey_request_failed"

RequestClass ==
    IF request = "token" THEN "token_request_failed" ELSE "add_key_request_failed"

\* client.Do fails: the context's class if it is over, the request's otherwise.
NetworkError == Failed(Runner!classifyNetworkError(RequestClass), "")

\* The transport asks for a connection.  The second time it is denied.
BugRetryAllowed == dialCount' = dialCount + 1 /\ pc' = "socket" /\ UNCHANGED failure

DialContext ==
    IF dialCount > 0
    THEN NetworkError /\ UNCHANGED dialCount
    ELSE dialCount' = dialCount + 1 /\ pc' = "socket" /\ UNCHANGED failure

Dial ==
    /\ pc = "dial"
    /\ DialContext
    /\ UNCHANGED <<request, control, elapsed, ctxErr, marked, connections, cert, sent>>

BugConnectsUnmarked ==
    /\ marked' \in (IF control THEN BOOLEAN ELSE {FALSE})
    /\ pc' = "connect"
    /\ UNCHANGED failure

\* socketMarkControl on the fresh socket: the kernel may refuse the mark.
socketMarkControl ==
    \/ marked' = control /\ pc' = "connect" /\ UNCHANGED failure
    \/ /\ control
       /\ marked' = FALSE
       /\ Failed(RequestClass, "socket_mark_refused")

Control ==
    /\ pc = "socket"
    /\ socketMarkControl
    /\ UNCHANGED <<request, control, elapsed, ctxErr, dialCount, connections, cert, sent>>

Connect ==
    /\ pc = "connect"
    /\ connections' = <<marked>> \o connections
    /\ pc' = "handshake"
    /\ UNCHANGED <<request, control, elapsed, ctxErr, dialCount, marked, cert, sent, failure>>

BugCommonNameBesideSAN(c) ==
    IF ~c.chain THEN "ca_chain"
    ELSE IF c.san = "match" \/ (request = "addKey" /\ c.cn = "match")
    THEN "" ELSE "endpoint_identity"

\* Which check a certificate fails, "" for none.  A common name counts for the
\* registration server only, and only without subject alternative names.
verifyConstrainedTLSConnection(c) ==
    IF ~c.chain THEN "ca_chain"
    ELSE IF c.san = "match" \/ (request = "addKey" /\ c.san = "none" /\ c.cn = "match")
    THEN "" ELSE "endpoint_identity"

BugTokenTrustDetailed(d) == d

\* The trust failure of an exchange: the token request gives no detail.
trustDetail(d) == IF request = "token" THEN "" ELSE d

Handshake ==
    /\ pc = "handshake"
    /\ cert' \in Certificates
    /\ LET fault == verifyConstrainedTLSConnection(cert') IN
       IF fault = ""
       THEN pc' = "send" /\ UNCHANGED failure
       ELSE Failed("invalid_trust", trustDetail(fault))
    /\ UNCHANGED <<request, control, elapsed, ctxErr, dialCount, marked, connections, sent>>

Send ==
    /\ pc = "send"
    /\ sent' = TRUE
    /\ pc' = "wait"
    /\ UNCHANGED <<request, control, elapsed, ctxErr, conn, failure>>

\* Headers: 200, or anything else.  A redirect is not followed, so its status
\* is what the request returns.
Respond ==
    /\ pc = "wait"
    /\ \/ pc' = "body" /\ UNCHANGED failure
       \/ Failed(RequestClass, "http_status")
    /\ UNCHANGED <<request, control, elapsed, ctxErr, conn, sent>>

\* The body is read up to its limit and parsed.
ReadBody ==
    /\ pc = "body"
    /\ \/ pc' = "accepted" /\ UNCHANGED failure
       \/ Failed("response_invalid", "body_invalid")
    /\ UNCHANGED <<request, control, elapsed, ctxErr, conn, sent>>

\* The connection cannot be made, breaks, or ends with the context.
Breaks ==
    /\ pc \in (InDo \ {"dial"}) \cup {"body"}
    /\ IF pc = "body" THEN Failed("response_invalid", "body_read_failed") ELSE NetworkError
    /\ UNCHANGED <<request, control, elapsed, ctxErr, conn, sent>>

\* net/http may try a broken request again on a new connection.
TransportRetries ==
    /\ pc \in {"handshake", "send", "wait"}
    /\ pc' = "dial"
    /\ UNCHANGED <<request, control, elapsed, ctxErr, conn, sent, failure>>

BugTimeoutOnlyWhileDialing ==
    /\ pc \in {"dial", "socket", "connect"}
    /\ elapsed >= Timeout
    /\ NetworkError
    /\ UNCHANGED <<request, control, elapsed, ctxErr, conn, sent>>

\* The client's timer covers the dial, the handshake, the headers and the body.
TimesOut ==
    /\ pc \in InDo \cup {"body"}
    /\ elapsed >= Timeout
    /\ IF pc = "body" THEN Failed("response_invalid", "body_read_failed") ELSE NetworkError
    /\ UNCHANGED <<request, control, elapsed, ctxErr, conn, sent>>

\* An interrupt, or the deadline of the run.
ContextEnds ==
    /\ pc \in InDo \cup {"body"}
    /\ ctxErr = "nil"
    /\ ctxErr' \in {"canceled", "deadline"}
    /\ UNCHANGED <<request, control, pc, elapsed, conn, sent, failure>>

Tick ==
    /\ pc \in InDo \cup {"body"}
    /\ elapsed < Timeout
    /\ elapsed' = elapsed + 1
    /\ UNCHANGED <<request, control, pc, ctxErr, conn, sent, failure>>

Returned == pc \in {"accepted", "failed"} /\ UNCHANGED vars

Next ==
    \/ Dial \/ Control \/ Connect \/ Handshake \/ Send \/ Respond \/ ReadBody
    \/ Breaks \/ TransportRetries \/ TimesOut \/ ContextEnds \/ Tick \/ Returned

Spec == Init /\ [][Next]_vars

\* Time passes and the timer fires; nothing is assumed of the peer.
FairSpec == Spec /\ WF_vars(Tick) /\ WF_vars(TimesOut)

-----------------------------------------------------------------------------
(***************************************************************************)
(* Properties.                                                              *)
(***************************************************************************)

\* Every variable keeps its type, the failure in the runner's vocabulary.
TypeOK ==
    /\ request \in {"token", "addKey"}
    /\ control \in BOOLEAN
    /\ pc \in InDo \cup {"body", "accepted", "failed"}
    /\ elapsed \in 0..Timeout
    /\ ctxErr \in {"nil", "canceled", "deadline"}
    /\ dialCount \in Nat
    /\ marked \in BOOLEAN
    /\ cert \in Certificates
    /\ sent \in BOOLEAN
    /\ failure \in Runner!Reasons
    /\ (pc = "failed") = (failure # Runner!NoFailure)

\* "the socket never connects unmarked" and "one TCP dial": with --socket-mark
\* every connection carries the mark, there is never a second one, and a mark
\* the kernel refused means that no connection was made at all.
MarkedSingleConnection ==
    /\ connections \in {<<>>, <<control>>}
    /\ failure.detail = "socket_mark_refused" => connections = <<>>

\* The credentials or the token reach only a peer whose certificate chains to
\* the launcher's CA bundle and names the intended server: by subject
\* alternative name, or, for the registration server alone, by the common name
\* of a certificate without any.
SecretOnlyToVerifiedPeer ==
    sent =>
        /\ cert.chain
        /\ \/ cert.san = "match"
           \/ request = "addKey" /\ cert.san = "none" /\ cert.cn = "match"

\* A request whose peer was not trusted, or whose mark was refused, has sent
\* nothing: the launcher can try again without a registration left behind.
RefusedBeforeSending ==
    (failure.class = "invalid_trust" \/ failure.detail = "socket_mark_refused") => ~sent

\* Whatever the peer does, the request returns: the one timeout covers the dial,
\* the handshake, the wait for the headers and the body.
RequestEnds == <>(pc \in {"accepted", "failed"})

\* Every step of the exchange is one the runner's model knows, or invisible to
\* it: ConstrainedRunner leaves out nothing an exchange can do.
Refines == [][Runner!Exchange \/ Runner!Environment]_(Runner!vars)
=============================================================================
