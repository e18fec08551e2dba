------------------------- MODULE ConstrainedRunner -------------------------
(***************************************************************************)
(* One constrained-mode run of pia-wg-config (src/constrained.go): the      *)
(* runner reads four inherited pipes, asks PIA for a token, registers a     *)
(* fresh WireGuard key, writes the configuration to one pipe and one JSON   *)
(* record to another, all within a 60 second budget.                        *)
(*                                                                          *)
(* The model starts after openConstrainedFiles has accepted the descriptors *)
(* (constrainedAction has just created the context) and ends when the       *)
(* process has exited.  Three parties act besides the runner: the launcher  *)
(* (interrupts the run, drains or closes its pipe ends), PIA (answers and   *)
(* registers the key) and the scheduler (may stall the whole process).      *)
(*                                                                          *)
(* Time is an integer clock.  It advances while the runner waits inside a   *)
(* timed operation (Tick), never past the operation's own timeout; time     *)
(* lost anywhere else is a Stall, accounted for in lag and slip.            *)
(***************************************************************************)
EXTENDS Integers, Sequences

CONSTANTS
    Endpoints,       \* WireGuard endpoints (server_ip, server_port) PIA may hand out
    NoEndpoint,      \* stands for "no endpoint"
    Budget,          \* lifetime of the run's context (60 s)
    AdmitRun,        \* remaining budget each admission gate asks for
    AdmitToken,
    AdmitAddKey,
    AdmitConfig,
    AdmitResult,
    ReadTimeout,     \* per input pipe (5 s)
    RequestTimeout,  \* per HTTP exchange, headers and body (15 s)
    WriteTimeout,    \* per output write (5 s)
    MaxLag           \* bound on the time the process may be stalled

ASSUME ConstantTypes ==
    /\ NoEndpoint \notin Endpoints
    /\ {Budget, AdmitRun, AdmitToken, AdmitAddKey, AdmitConfig, AdmitResult,
        ReadTimeout, RequestTimeout, WriteTimeout, MaxLag} \subseteq Nat
    /\ WriteTimeout > 0

\* How the durations written in execute relate: every gate leaves room for the
\* operation behind it and for the next gate.  45 >= 15 + 30, 30 >= 15 + 15,
\* 15 >= 5 + 10 and 10 >= 2 * 5 all hold with equality in the code.
ASSUME GateChain ==
    /\ Budget >= AdmitRun
    /\ Budget >= AdmitToken
    /\ AdmitRun >= 4 * ReadTimeout + WriteTimeout
    /\ AdmitToken >= RequestTimeout + AdmitAddKey
    /\ AdmitAddKey >= RequestTimeout + AdmitConfig
    /\ AdmitConfig >= WriteTimeout + AdmitResult
    /\ AdmitResult >= 2 * WriteTimeout

VARIABLES
    pc,          \* where execute / writeFailure is
    now,         \* time since the context was created
    lag,         \* how much of now was lost to stalls
    slip,        \* how much of it since the last gate that admitted the run
    opEnd,       \* when the timed operation in progress times out (0: none)
    ctxErr,      \* ctx.Err(): "nil", "canceled" or "deadline"
    control,     \* whether sockets are marked (--socket-mark)
    plan,        \* the parsed plan: port forwarding, excluded endpoint
    addKey,      \* the accepted registration answer: endpoint and server_vip
    failure,     \* the constrainedFailureReason of the run
    exit,        \* the process' exit: "none", "ok" or a failure class
    config,      \* what the launcher finds in the config pipe
    result,      \* the records the launcher finds in the result pipe
    nonblock,    \* output pipes inherited in non-blocking mode
    readers,     \* output pipes whose read end the launcher still holds
    closed,      \* output files closed by a timed-out write
    pending,     \* bodies of abandoned writer goroutines, still blocked
    sent,        \* requests that went out on a verified connection
    registered   \* PIA has registered the run's public key

inputs == <<control, plan, addKey>>
pipes == <<config, result, nonblock, readers, closed, pending>>
outcome == <<failure, exit>>
remote == <<sent, registered>>
clock == <<now, lag, slip>>
vars == <<pc, clock, opEnd, ctxErr, inputs, outcome, pipes, remote>>

-----------------------------------------------------------------------------
(***************************************************************************)
(* Failure classes and the records of the result pipe.                      *)
(***************************************************************************)
Classes == {"invalid_invocation", "invalid_plan", "invalid_credentials",
            "invalid_trust", "token_request_failed", "add_key_request_failed",
            "response_invalid", "endpoint_reused", "config_write_failed",
            "deadline_exceeded", "cancelled", "result_write_failed",
            "internal_failure"}

\* Where a failure was found.  The bounded failure_detail strings are kept at
\* the grain of the check that fails; "" is the omitted detail.
Details == {"", "socket_mark_invalid", "socket_mark_refused",
            "public_ca_bundle", "regional_ca_bundle", "ca_chain", "endpoint_identity",
            "http_status", "body_read_failed", "body_invalid",
            "add_key_field_invalid", "add_key_invalid_server_vip"}

Reasons == [class : Classes \cup {"none"}, detail : Details]
NoFailure == [class |-> "none", detail |-> ""]
constrainedFailureFor(c) == [class |-> c, detail |-> ""]
constrainedFailureWithDetail(c, d) == [class |-> c, detail |-> d]

WriteFiles == {"config", "result"}
VIPs == {"empty", "ipv4", "other"}
Bodies == [kind : {"config", "success", "failure"}, reason : Reasons,
           endpoint : Endpoints \cup {NoEndpoint}, gateway : VIPs]

FileOf(b) == IF b.kind = "config" THEN "config" ELSE "result"

\* renderConstrainedConfig: the configuration for the accepted endpoint.
ConfigBody == [kind |-> "config", reason |-> NoFailure,
               endpoint |-> addKey.endpoint, gateway |-> "empty"]

\* The success record: server_vip is reported only for a port-forwarding plan.
SuccessBody == [kind |-> "success", reason |-> NoFailure,
                endpoint |-> addKey.endpoint,
                gateway |-> IF plan.pf THEN addKey.vip ELSE "empty"]

FailureBody == [kind |-> "failure", reason |-> failure,
                endpoint |-> NoEndpoint, gateway |-> "empty"]

-----------------------------------------------------------------------------
Reading == {"readPlan", "readCredentials", "readPublicCA", "readRegionalCA"}
Requesting == {"tokenDo", "tokenBody", "addKeyDo", "addKeyBody"}
Writing == {"writeConfig", "writeResult", "writeFailure"}
Blocked == Reading \cup Requesting \cup Writing
Gates == {"start", "admitToken", "admitAddKey", "admitConfig", "admitResult"}
Locations == Blocked \cup Gates \cup {"fail", "exiting", "done"}

Init ==
    /\ pc = "start"
    /\ now = 0 /\ lag = 0 /\ slip = 0 /\ opEnd = 0
    /\ ctxErr = "nil"
    /\ control = FALSE
    /\ plan = [pf |-> FALSE, excluded |-> NoEndpoint]
    /\ addKey = [endpoint |-> NoEndpoint, vip |-> "empty"]
    /\ failure = NoFailure
    /\ exit = "none"
    /\ config = "empty"
    /\ result = <<>>
    /\ nonblock \in SUBSET WriteFiles
    /\ readers = WriteFiles
    /\ closed = {}
    /\ pending = {}
    /\ sent = {}
    /\ registered = FALSE

-----------------------------------------------------------------------------
(***************************************************************************)
(* Moving the runner.                                                       *)
(***************************************************************************)
Go(next) == pc' = next /\ opEnd' = 0
Block(next, timeout) == pc' = next /\ opEnd' = now + timeout

\* execute returns a failure; constrainedAction hands it to writeFailure.
Fail(reason) ==
    /\ Go("fail")
    /\ failure' = reason
    /\ UNCHANGED exit

BugAdmitIgnoresContext(remaining) == Budget - now >= remaining

BugAdmitIgnoresDeadline(remaining) == ctxErr = "nil"

admit(remaining) == Budget - now >= remaining /\ ctxErr = "nil"

contextClass ==
    IF ctxErr = "canceled" THEN "cancelled" ELSE "deadline_exceeded"

BugLostFallback(fallback) == "token_request_failed"

classifyNetworkError(fallback) ==
    IF ctxErr = "nil" THEN fallback ELSE contextClass

\* A gate: go on when admitted, otherwise fail for the context's reason.
Admit(remaining, Proceed) ==
    /\ UNCHANGED <<now, lag>>
    /\ \/ admit(remaining) /\ Proceed /\ slip' = 0
       \/ ~admit(remaining) /\ Fail(constrainedFailureFor(contextClass)) /\ UNCHANGED slip

-----------------------------------------------------------------------------
(***************************************************************************)
(* execute, up to the token request.                                        *)
(***************************************************************************)

\* Ordinary flags or positional arguments next to the descriptors.
RejectInvocation ==
    /\ pc = "start"
    /\ Fail(constrainedFailureFor("invalid_invocation"))
    /\ UNCHANGED <<clock, ctxErr, inputs, pipes, remote>>

\* constrainedSocketControl on Linux: a mark that does not parse is refused.
RejectSocketMark ==
    /\ pc = "start"
    /\ Fail(constrainedFailureWithDetail("invalid_invocation", "socket_mark_invalid"))
    /\ UNCHANGED <<clock, ctxErr, inputs, pipes, remote>>

\* The invocation is valid; the mark may be absent.
StartRun ==
    /\ pc = "start"
    /\ control' \in BOOLEAN
    /\ Admit(AdmitRun, Block("readPlan", ReadTimeout) /\ UNCHANGED outcome)
    /\ UNCHANGED <<ctxErr, plan, addKey, pipes, remote>>

ReadFailure ==
    IF pc = "readPlan" THEN constrainedFailureFor("invalid_plan")
    ELSE IF pc = "readCredentials" THEN constrainedFailureFor("invalid_credentials")
    ELSE IF pc = "readPublicCA"
    THEN constrainedFailureWithDetail("invalid_trust", "public_ca_bundle")
    ELSE constrainedFailureWithDetail("invalid_trust", "regional_ca_bundle")

\* readLimitedFile or the parser behind it fails: a read error, the timeout, an
\* input over its limit, a malformed input.  The class does not tell them apart.
ReadFails ==
    /\ pc \in Reading
    /\ Fail(ReadFailure)
    /\ UNCHANGED <<clock, ctxErr, inputs, pipes, remote>>

ReadPlan ==
    /\ pc = "readPlan"
    /\ plan' \in [pf : BOOLEAN, excluded : Endpoints \cup {NoEndpoint}]
    /\ Block("readCredentials", ReadTimeout)
    /\ UNCHANGED <<clock, ctxErr, control, addKey, outcome, pipes, remote>>

ReadCredentials ==
    /\ pc = "readCredentials"
    /\ Block("readPublicCA", ReadTimeout)
    /\ UNCHANGED <<clock, ctxErr, inputs, outcome, pipes, remote>>

ReadPublicCA ==
    /\ pc = "readPublicCA"
    /\ Block("readRegionalCA", ReadTimeout)
    /\ UNCHANGED <<clock, ctxErr, inputs, outcome, pipes, remote>>

ReadRegionalCA ==
    /\ pc = "readRegionalCA"
    /\ Go("admitToken")
    /\ UNCHANGED <<clock, ctxErr, inputs, outcome, pipes, remote>>

-----------------------------------------------------------------------------
(***************************************************************************)
(* The two HTTP exchanges.  The client's timeout covers Do and the body     *)
(* read, so opEnd is set when the exchange starts.                          *)
(***************************************************************************)
BugTokenGateTooLow ==
    /\ pc = "admitToken"
    /\ Admit(AdmitAddKey, Block("tokenDo", RequestTimeout) /\ UNCHANGED outcome)
    /\ UNCHANGED <<ctxErr, inputs, pipes, remote>>

AdmitTokenRequest ==
    /\ pc = "admitToken"
    /\ Admit(AdmitToken, Block("tokenDo", RequestTimeout) /\ UNCHANGED outcome)
    /\ UNCHANGED <<ctxErr, inputs, pipes, remote>>

\* The key pair is generated between the gate and the request.
AdmitAddKeyRequest ==
    /\ pc = "admitAddKey"
    /\ Admit(AdmitAddKey,
          \/ Block("addKeyDo", RequestTimeout) /\ UNCHANGED outcome
          \/ Fail(constrainedFailureFor("internal_failure")))
    /\ UNCHANGED <<ctxErr, inputs, pipes, remote>>

\* The exchange in progress, and the class of its failures.
Request == IF pc = "tokenDo" THEN "token" ELSE "addKey"

BugClassTypo == IF pc = "tokenDo" THEN "token_request_failed" ELSE "addkey_request_failed"

RequestClass == IF pc = "tokenDo" THEN "token_request_failed" ELSE "add_key_request_failed"

\* The dial, the mark and the TLS verification succeeded: the request goes out.
SendRequest ==
    /\ pc \in {"tokenDo", "addKeyDo"}
    /\ Request \notin sent
    /\ sent' = sent \cup {Request}
    /\ UNCHANGED <<pc, clock, opEnd, ctxErr, inputs, outcome, pipes, registered>>

\* client.Do fails before anything is sent because of the connection itself.
ConnectionRefused ==
    /\ pc \in {"tokenDo", "addKeyDo"}
    /\ Request \notin sent
    /\ \/ \E d \in {"ca_chain", "endpoint_identity"} :
            Fail(constrainedFailureWithDetail("invalid_trust", IF pc = "tokenDo" THEN "" ELSE d))
       \/ control /\ Fail(constrainedFailureWithDetail(RequestClass, "socket_mark_refused"))
    /\ UNCHANGED <<clock, ctxErr, inputs, pipes, remote>>

\* client.Do fails for any other reason, its timeout and the context included.
RequestFails ==
    /\ pc \in {"tokenDo", "addKeyDo"}
    /\ Fail(constrainedFailureFor(classifyNetworkError(RequestClass)))
    /\ UNCHANGED <<clock, ctxErr, inputs, pipes, remote>>

\* The response headers arrive: 200 or not.
ResponseArrives ==
    /\ pc \in {"tokenDo", "addKeyDo"}
    /\ Request \in sent
    /\ \/ /\ pc' = IF pc = "tokenDo" THEN "tokenBody" ELSE "addKeyBody"
          /\ UNCHANGED <<opEnd, outcome>>
       \/ Fail(constrainedFailureWithDetail(RequestClass, "http_status"))
    /\ UNCHANGED <<clock, ctxErr, inputs, pipes, remote>>

\* Reading the body fails (also when the timeout or the context cut it short).
BodyReadFails ==
    /\ pc \in {"tokenBody", "addKeyBody"}
    /\ Fail(constrainedFailureWithDetail("response_invalid", "body_read_failed"))
    /\ UNCHANGED <<clock, ctxErr, inputs, pipes, remote>>

\* The body is too large, not the expected JSON object, or a field does not decode.
BodyInvalid ==
    /\ pc \in {"tokenBody", "addKeyBody"}
    /\ Fail(constrainedFailureWithDetail("response_invalid", "body_invalid"))
    /\ UNCHANGED <<clock, ctxErr, inputs, pipes, remote>>

TokenReceived ==
    /\ pc = "tokenBody"
    /\ Go("admitAddKey")
    /\ UNCHANGED <<clock, ctxErr, inputs, outcome, pipes, remote>>

\* A decoded registration answer, at the grain of the checks: whether the fields
\* checked first (status, keys, port, addresses, DNS) hold, server_vip, endpoint.
AddKeyResults ==
    [fieldsValid : BOOLEAN, vip : VIPs, endpoint : Endpoints]

validateConstrainedAddKey(p, r) ==
    IF ~r.fieldsValid
    THEN constrainedFailureWithDetail("response_invalid", "add_key_field_invalid")
    ELSE IF r.vip # (IF p.pf THEN "ipv4" ELSE "empty")
    THEN constrainedFailureWithDetail("response_invalid", "add_key_invalid_server_vip")
    ELSE NoFailure

BugReuseNotChecked(p, r) == FALSE

endpointReused(p, r) == p.excluded # NoEndpoint /\ p.excluded = r.endpoint

\* PIA answers "status OK" with the run's own public key only once it has
\* registered the key.
AddKeyReceived ==
    /\ pc = "addKeyBody"
    /\ \E r \in AddKeyResults :
        /\ r.fieldsValid => registered
        /\ LET invalid == validateConstrainedAddKey(plan, r) IN
           \/ /\ invalid # NoFailure
              /\ Fail(invalid)
              /\ UNCHANGED addKey
           \/ /\ invalid = NoFailure
              /\ endpointReused(plan, r)
              /\ Fail(constrainedFailureFor("endpoint_reused"))
              /\ UNCHANGED addKey
           \/ /\ invalid = NoFailure
              /\ ~endpointReused(plan, r)
              /\ addKey' = [endpoint |-> r.endpoint, vip |-> r.vip]
              /\ Go("admitConfig")
              /\ UNCHANGED outcome
    /\ UNCHANGED <<clock, ctxErr, control, plan, pipes, remote>>

-----------------------------------------------------------------------------
(***************************************************************************)
(* The outputs.                                                             *)
(***************************************************************************)
AdmitConfigWrite ==
    /\ pc = "admitConfig"
    /\ Admit(AdmitConfig,
          \/ Block("writeConfig", WriteTimeout) /\ UNCHANGED outcome
          \/ Fail(constrainedFailureFor("internal_failure")))
    /\ UNCHANGED <<ctxErr, inputs, pipes, remote>>

AdmitResultWrite ==
    /\ pc = "admitResult"
    /\ Admit(AdmitResult,
          \/ Block("writeResult", WriteTimeout) /\ UNCHANGED outcome
          \/ Fail(constrainedFailureFor("internal_failure")))
    /\ UNCHANGED <<ctxErr, inputs, pipes, remote>>

\* What the write in progress writes.
Body == IF pc = "writeConfig" THEN ConfigBody
        ELSE IF pc = "writeResult" THEN SuccessBody
        ELSE FailureBody

\* constrainedExit: the process will exit with this class.
constrainedExit(class) ==
    /\ Go("exiting")
    /\ exit' = class
    /\ UNCHANGED failure

\* The bytes of b reach the pipe.
Deliver(b) ==
    IF b.kind = "config"
    THEN config' = "full" /\ UNCHANGED result
    ELSE result' = Append(result, b) /\ UNCHANGED config

\* What execute and writeFailure do when the write in progress has returned.
AfterWrite ==
    \/ pc = "writeConfig" /\ Go("admitResult") /\ UNCHANGED outcome
    \/ pc = "writeResult" /\ constrainedExit("ok")
    \/ pc = "writeFailure" /\ constrainedExit(failure.class)

BugFailureWriteErrorIgnored ==
    \/ pc = "writeConfig" /\ Fail(constrainedFailureFor("config_write_failed"))
    \/ pc = "writeResult" /\ Fail(constrainedFailureFor("result_write_failed"))
    \/ pc = "writeFailure" /\ constrainedExit(failure.class)

BugConfigWriteErrorIgnored ==
    \/ pc = "writeConfig" /\ Go("admitResult") /\ UNCHANGED outcome
    \/ pc = "writeResult" /\ Fail(constrainedFailureFor("result_write_failed"))
    \/ pc = "writeFailure" /\ constrainedExit("result_write_failed")

AfterWriteError ==
    \/ pc = "writeConfig" /\ Fail(constrainedFailureFor("config_write_failed"))
    \/ pc = "writeResult" /\ Fail(constrainedFailureFor("result_write_failed"))
    \/ pc = "writeFailure" /\ constrainedExit("result_write_failed")

\* The launcher drains the pipe and the whole body is written in time.
WriteCompletes ==
    /\ pc \in Writing
    /\ FileOf(Body) \in readers
    /\ Deliver(Body)
    /\ AfterWrite
    /\ UNCHANGED <<clock, ctxErr, inputs, nonblock, readers, closed, pending, remote>>

\* A config longer than PIPE_BUF enters the pipe piece by piece.  A result
\* record (at most 4096 bytes) is written in one piece or not at all.
WritePartially ==
    /\ \/ pc = "writeConfig"
       \/ pc # "done" /\ \E b \in pending : FileOf(b) = "config"
    /\ "config" \in readers
    /\ config = "empty"
    /\ config' = "partial"
    /\ UNCHANGED <<pc, clock, opEnd, ctxErr, inputs, outcome, result, nonblock,
                   readers, closed, pending, remote>>

\* The launcher has closed its end: the write fails at once with EPIPE.
WriteBreaks ==
    /\ pc \in Writing
    /\ FileOf(Body) \notin readers
    /\ AfterWriteError
    /\ UNCHANGED <<clock, ctxErr, inputs, pipes, remote>>

\* writeLimitedFile gives up.  On a non-blocking descriptor the write deadline
\* ends the write itself; on a blocking one the file is closed and the writer
\* goroutine is left behind, still holding the body.
BugTimeoutKeepsFileOpen ==
    /\ pc \in Writing
    /\ now >= opEnd
    /\ AfterWriteError
    /\ pending' = IF FileOf(Body) \in nonblock THEN pending ELSE pending \cup {Body}
    /\ UNCHANGED <<clock, ctxErr, inputs, config, result, nonblock, readers, closed, remote>>

BugBlockingPipeNeverTimesOut ==
    /\ pc \in Writing
    /\ now >= opEnd
    /\ FileOf(Body) \in nonblock
    /\ AfterWriteError
    /\ UNCHANGED <<clock, ctxErr, inputs, pipes, remote>>

WriteTimesOut ==
    /\ pc \in Writing
    /\ now >= opEnd
    /\ AfterWriteError
    /\ IF FileOf(Body) \in nonblock
       THEN UNCHANGED <<closed, pending>>
       ELSE /\ closed' = closed \cup {FileOf(Body)}
            /\ pending' = pending \cup {Body}
    /\ UNCHANGED <<clock, ctxErr, inputs, config, result, nonblock, readers, remote>>

\* A goroutine left behind finishes its write before the process is gone.
LateWrite ==
    /\ pc # "done"
    /\ \E b \in pending :
        /\ FileOf(b) \in readers
        /\ Deliver(b)
        /\ pending' = pending \ {b}
    /\ UNCHANGED <<pc, clock, opEnd, ctxErr, inputs, outcome, nonblock, readers,
                   closed, remote>>

\* writeFailure: on a result file closed by an earlier timeout SetWriteDeadline
\* fails, otherwise the failure record is written.
StartWriteFailure ==
    /\ pc = "fail"
    /\ \/ /\ "result" \in closed
          /\ constrainedExit("result_write_failed")
       \/ /\ "result" \notin closed
          /\ Block("writeFailure", WriteTimeout)
          /\ UNCHANGED outcome
    /\ UNCHANGED <<clock, ctxErr, inputs, pipes, remote>>

\* The process exits; goroutines still blocked die with it.
ExitProcess ==
    /\ pc = "exiting"
    /\ Go("done")
    /\ UNCHANGED <<clock, ctxErr, inputs, outcome, pipes, remote>>

-----------------------------------------------------------------------------
(***************************************************************************)
(* The surroundings.                                                        *)
(***************************************************************************)

\* signal.NotifyContext: an interrupt cancels the context.
Interrupt ==
    /\ pc \notin {"exiting", "done"}
    /\ ctxErr = "nil"
    /\ ctxErr' = "canceled"
    /\ UNCHANGED <<pc, clock, opEnd, inputs, outcome, pipes, remote>>

\* context.WithTimeout expires.
ContextExpires ==
    /\ pc \notin {"exiting", "done"}
    /\ ctxErr = "nil"
    /\ now >= Budget
    /\ ctxErr' = "deadline"
    /\ UNCHANGED <<pc, clock, opEnd, inputs, outcome, pipes, remote>>

\* The launcher drops its end of an output pipe.
LauncherCloses ==
    /\ pc # "done"
    /\ \E f \in readers : readers' = readers \ {f}
    /\ UNCHANGED <<pc, clock, opEnd, ctxErr, inputs, outcome, config, result,
                   nonblock, closed, pending, remote>>

\* PIA processes the registration request, possibly after the runner gave up.
PIARegisters ==
    /\ "addKey" \in sent
    /\ ~registered
    /\ registered' = TRUE
    /\ UNCHANGED <<pc, clock, opEnd, ctxErr, inputs, outcome, pipes, sent>>

\* Time passes while the runner waits; its timer fires at opEnd.
Tick ==
    /\ pc \in Blocked
    /\ now < opEnd
    /\ now' = now + 1
    /\ UNCHANGED <<pc, lag, slip, opEnd, ctxErr, inputs, outcome, pipes, remote>>

\* The process is not scheduled, or computes, for a while.
Stall ==
    /\ pc \notin {"exiting", "done"}
    /\ lag < MaxLag
    /\ now' = now + 1
    /\ lag' = lag + 1
    /\ slip' = slip + 1
    /\ UNCHANGED <<pc, opEnd, ctxErr, inputs, outcome, pipes, remote>>

Terminated == pc = "done" /\ UNCHANGED vars

-----------------------------------------------------------------------------
Read == ReadPlan \/ ReadCredentials \/ ReadPublicCA \/ ReadRegionalCA
Gate == AdmitTokenRequest \/ AdmitAddKeyRequest \/ AdmitConfigWrite \/ AdmitResultWrite
Exchange ==
    \/ SendRequest \/ ConnectionRefused \/ RequestFails \/ ResponseArrives
    \/ BodyReadFails \/ BodyInvalid \/ TokenReceived \/ AddKeyReceived
Write ==
    \/ WriteCompletes \/ WritePartially \/ WriteBreaks \/ WriteTimesOut \/ LateWrite
Environment ==
    \/ Interrupt \/ ContextExpires \/ LauncherCloses \/ PIARegisters \/ Tick \/ Stall

Next ==
    \/ RejectInvocation \/ RejectSocketMark \/ StartRun
    \/ Read \/ ReadFails \/ Gate \/ Exchange \/ Write
    \/ StartWriteFailure \/ ExitProcess
    \/ Environment \/ Terminated

\* What the Go runtime guarantees: a runnable goroutine runs and an expired
\* timer fires.  Nothing is assumed of PIA, of the launcher or of interrupts.
Expire ==
    /\ now >= opEnd
    /\ ReadFails \/ RequestFails \/ BodyReadFails \/ WriteTimesOut

Fairness ==
    /\ WF_vars(RejectInvocation \/ RejectSocketMark \/ StartRun)
    /\ WF_vars(Gate)
    /\ WF_vars(Expire)
    /\ WF_vars(StartWriteFailure \/ ExitProcess)
    /\ WF_vars(Tick)

Spec == Init /\ [][Next]_vars
FairSpec == Spec /\ Fairness

-----------------------------------------------------------------------------
(***************************************************************************)
(* Properties.                                                              *)
(***************************************************************************)

\* Every variable keeps its type: failure classes and details stay in the fixed
\* vocabulary of constrained.go, and only the two output files are ever closed.
TypeOK ==
    /\ pc \in Locations
    /\ now \in Nat /\ lag \in Nat /\ slip \in Nat /\ opEnd \in Nat
    /\ ctxErr \in {"nil", "canceled", "deadline"}
    /\ control \in BOOLEAN
    /\ plan \in [pf : BOOLEAN, excluded : Endpoints \cup {NoEndpoint}]
    /\ addKey \in [endpoint : Endpoints \cup {NoEndpoint}, vip : VIPs]
    /\ failure \in Reasons
    /\ exit \in Classes \cup {"none", "ok"}
    /\ config \in {"empty", "partial", "full"}
    /\ result \in Seq(Bodies)
    /\ nonblock \subseteq WriteFiles
    /\ readers \subseteq WriteFiles
    /\ closed \subseteq WriteFiles
    /\ pending \subseteq Bodies
    /\ sent \subseteq {"token", "addKey"}
    /\ registered \in BOOLEAN

\* The whole run, the failure record included, ends within the 60 second budget
\* plus the time the process was stalled since the last gate that admitted it:
\* the gates of execute absorb earlier delays and leave room for every timeout
\* behind them.
WithinBudget == now <= Budget + slip

\* A run that was never stalled and reports deadline_exceeded has sent nothing:
\* once the token request is admitted, no later gate runs out of time, so
\* neither the credentials nor a registration are spent on a run that is too late.
TimeoutSpendsNothing ==
    (failure.class = "deadline_exceeded" /\ lag = 0) => sent = {}

\* The launcher never finds two records in the result pipe, although a writer
\* goroutine may outlive the write that timed out (writeLimitedFile's Close).
OneResultRecord == Len(result) <= 1

\* A success record is true: the whole configuration is in the config pipe, the
\* key is registered, the endpoint is not the excluded one, and a gateway is
\* reported, as an IPv4 address, exactly for a port-forwarding plan.
SuccessMeansDelivered ==
    \A i \in 1..Len(result) : result[i].kind = "success" =>
        /\ config = "full"
        /\ registered
        /\ result[i].endpoint \in Endpoints \ {plan.excluded}
        /\ result[i].gateway = IF plan.pf THEN "ipv4" ELSE "empty"

\* When the process is gone its exit agrees with the result pipe: success with
\* one success record, any class but result_write_failed with one failure
\* record of that class.
ExitMatchesResult ==
    (pc = "done" /\ exit # "result_write_failed") =>
        /\ Len(result) = 1
        /\ IF exit = "ok"
           THEN result[1].kind = "success"
           ELSE /\ result[1].kind = "failure"
                /\ result[1].reason.class = exit

\* The class of a failure record tells whether a key may be left registered at
\* PIA: never for the classes of the steps before the registration request,
\* always for the classes of the steps behind its answer.
ClassTellsRegistration ==
    /\ failure.class \in {"invalid_invocation", "invalid_plan", "invalid_credentials",
                          "invalid_trust", "token_request_failed"}
         => "addKey" \notin sent /\ ~registered
    /\ failure.class \in {"endpoint_reused", "config_write_failed", "result_write_failed"}
         => registered

\* Whatever PIA and the launcher do or fail to do, the process exits: every wait
\* of constrained mode has a timeout.
Terminates == <>(pc = "done")

\* An interrupt that arrives before the last admission gate makes the run fail.
\* Reads and writes in progress are not cut short, but the next gate sees it.
CancelStopsRun ==
    (ctxErr = "canceled" /\ failure.class = "none" /\ pc \notin {"writeResult", "exiting", "done"})
        ~> (pc = "done" /\ exit # "ok")

\* How the launcher sees the run.
Launcher == INSTANCE LauncherContract WITH
    configPipe <- config,
    resultPipe <- [i \in 1..Len(result) |-> result[i].kind],
    status <- IF pc # "done" THEN "running"
              ELSE IF exit = "ok" THEN "succeeded" ELSE "failed"

\* The runner keeps the launcher's contract, the eventual exit included.
KeepsContract == Launcher!FairSpec

\* README.md, "Experimental constrained mode": on failure the result contains a
\* failure record.  Read as: a run that exits with a failure has not left a
\* success record for the launcher.
FailureLeavesNoSuccess ==
    (pc = "done" /\ exit # "ok") =>
        \A i \in 1..Len(result) : result[i].kind = "failure"
=============================================================================
