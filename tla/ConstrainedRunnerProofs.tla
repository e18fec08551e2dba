----------------------- MODULE ConstrainedRunnerProofs -----------------------
(***************************************************************************)
(* Proofs about ConstrainedRunner, for every number of endpoints and every  *)
(* choice of durations that satisfies GateChain: its time and its records,  *)
(* then what a run leaves behind, the key at PIA, the two pipes and the     *)
(* exit, and that the runner implements LauncherContract.                   *)
(***************************************************************************)
EXTENDS ConstrainedRunner, TLAPS

-----------------------------------------------------------------------------
(***************************************************************************)
(* Types.                                                                   *)
(***************************************************************************)

\* What Fail assigns is well typed as soon as the reason is.
LEMMA FailType ==
    ASSUME TypeOK, NEW r \in Reasons, Fail(r)
    PROVE  /\ pc' \in Locations /\ opEnd' \in Nat
           /\ failure' \in Reasons /\ exit' \in Classes \cup {"none", "ok"}
BY DEF TypeOK, Fail, Go, Locations

\* The same for the start of a timed operation.
LEMMA BlockType ==
    ASSUME TypeOK, NEW l \in Blocked, NEW t \in Nat, Block(l, t)
    PROVE  pc' \in Locations /\ opEnd' \in Nat
BY DEF TypeOK, Block, Locations

\* Failure reasons built from a class and a detail of the vocabulary.
LEMMA ReasonTypes ==
    /\ NoFailure \in Reasons
    /\ \A c \in Classes : constrainedFailureFor(c) \in Reasons
    /\ \A c \in Classes, d \in Details : constrainedFailureWithDetail(c, d) \in Reasons
    /\ contextClass \in Classes
    /\ \A c \in Classes : classifyNetworkError(c) \in Classes
BY DEF NoFailure, Reasons, Classes, Details, constrainedFailureFor,
       constrainedFailureWithDetail, contextClass, classifyNetworkError

\* A gate leaves a well-typed state behind, whichever way it decides.
LEMMA GateType ==
    ASSUME TypeOK, NEW rem, NEW l \in Blocked, NEW t \in Nat,
           Admit(rem, \/ Block(l, t) /\ UNCHANGED outcome
                      \/ Fail(constrainedFailureFor("internal_failure")))
    PROVE  /\ pc' \in Locations /\ opEnd' \in Nat
           /\ now' \in Nat /\ lag' \in Nat /\ slip' \in Nat
           /\ failure' \in Reasons /\ exit' \in Classes \cup {"none", "ok"}
<1>1. CASE Fail(constrainedFailureFor(contextClass)) /\ UNCHANGED <<now, lag, slip>>
  BY <1>1, FailType, ReasonTypes DEF TypeOK
<1>2. CASE /\ Block(l, t) /\ UNCHANGED outcome
           /\ UNCHANGED <<now, lag>> /\ slip' = 0
  BY <1>2, BlockType DEF TypeOK, outcome
<1>3. CASE /\ Fail(constrainedFailureFor("internal_failure"))
           /\ UNCHANGED <<now, lag>> /\ slip' = 0
  <2>1. "internal_failure" \in Classes
    BY DEF Classes
  <2> QED BY <1>3, <2>1, FailType, ReasonTypes DEF TypeOK
<1> QED BY <1>1, <1>2, <1>3 DEF Admit

\* The bodies written to the pipes are well typed.
LEMMA BodyTypes ==
    ASSUME TypeOK
    PROVE  Body \in Bodies /\ FileOf(Body) \in WriteFiles
<1>1. ConfigBody \in Bodies /\ SuccessBody \in Bodies /\ FailureBody \in Bodies
  BY ReasonTypes DEF TypeOK, ConfigBody, SuccessBody, FailureBody, Bodies, VIPs
<1> QED BY <1>1 DEF Body, FileOf, WriteFiles

\* Delivering a body keeps the contents of the two pipes well typed.
LEMMA DeliverType ==
    ASSUME TypeOK, NEW b \in Bodies, Deliver(b)
    PROVE  config' \in {"empty", "partial", "full"} /\ result' \in Seq(Bodies)
BY DEF TypeOK, Deliver

\* constrainedExit with a class of the vocabulary.
LEMMA ExitType ==
    ASSUME TypeOK, NEW c \in Classes \cup {"none", "ok"}, constrainedExit(c)
    PROVE  /\ pc' \in Locations /\ opEnd' \in Nat
           /\ failure' \in Reasons /\ exit' \in Classes \cup {"none", "ok"}
BY DEF TypeOK, constrainedExit, Go, Locations

\* What execute and writeFailure do behind a write keeps the types.
LEMMA AfterWriteType ==
    ASSUME TypeOK, AfterWrite \/ AfterWriteError
    PROVE  /\ pc' \in Locations /\ opEnd' \in Nat
           /\ failure' \in Reasons /\ exit' \in Classes \cup {"none", "ok"}
<1>1. /\ failure.class \in Classes \cup {"none", "ok"}
      /\ {"config_write_failed", "result_write_failed"} \subseteq Classes
  BY DEF TypeOK, Reasons, Classes
<1>2. CASE AfterWrite
  BY <1>1, <1>2, ExitType DEF AfterWrite, TypeOK, Go, Locations, Gates, outcome
<1>3. CASE AfterWriteError
  BY <1>1, <1>3, ExitType, FailType, ReasonTypes DEF AfterWriteError
<1> QED BY <1>2, <1>3

\* The type invariant is inductive: one case per action.
LEMMA TypeStep == TypeOK /\ [Next]_vars => TypeOK'
<1> SUFFICES ASSUME TypeOK, [Next]_vars PROVE TypeOK'
  OBVIOUS
<1> USE DEF clock, inputs, outcome, pipes, remote
<1>c. {"invalid_invocation", "invalid_plan", "invalid_credentials", "invalid_trust",
       "token_request_failed", "add_key_request_failed", "response_invalid",
       "endpoint_reused", "internal_failure"} \subseteq Classes
  BY DEF Classes
<1>d. {"", "socket_mark_invalid", "socket_mark_refused", "public_ca_bundle",
       "regional_ca_bundle", "ca_chain", "endpoint_identity", "http_status", "body_read_failed",
       "body_invalid", "add_key_field_invalid", "add_key_invalid_server_vip"}
      \subseteq Details
  BY DEF Details
<1>1. CASE RejectInvocation \/ RejectSocketMark
  BY <1>1, <1>c, <1>d, FailType, ReasonTypes DEF TypeOK, RejectInvocation, RejectSocketMark
<1>2. CASE StartRun
  <2>1. "readPlan" \in Blocked /\ ReadTimeout \in Nat
    BY ConstantTypes DEF Blocked, Reading
  <2>2. Admit(AdmitRun, \/ Block("readPlan", ReadTimeout) /\ UNCHANGED outcome
                        \/ Fail(constrainedFailureFor("internal_failure")))
    BY <1>2 DEF StartRun, Admit
  <2> QED BY <1>2, <2>1, <2>2, GateType DEF StartRun, TypeOK
<1>3. CASE Read
  <2>1. /\ {"readCredentials", "readPublicCA", "readRegionalCA"} \subseteq Blocked
        /\ "admitToken" \in Locations /\ ReadTimeout \in Nat
    BY ConstantTypes DEF Blocked, Reading, Locations, Gates
  <2>2. CASE ReadPlan
    BY <2>1, <2>2, BlockType DEF ReadPlan, TypeOK
  <2>3. CASE ReadCredentials \/ ReadPublicCA
    BY <2>1, <2>3, BlockType DEF ReadCredentials, ReadPublicCA, TypeOK
  <2>4. CASE ReadRegionalCA
    BY <2>1, <2>4 DEF ReadRegionalCA, Go, TypeOK
  <2> QED BY <1>3, <2>2, <2>3, <2>4 DEF Read
<1>4. CASE ReadFails
  <2>1. ReadFailure \in Reasons
    BY <1>4, <1>c, <1>d, ReasonTypes DEF ReadFails, ReadFailure, Reading
  <2> QED BY <1>4, <2>1, FailType DEF ReadFails, TypeOK
<1>5. CASE Gate
  <2>1. /\ {"tokenDo", "addKeyDo", "writeConfig", "writeResult"} \subseteq Blocked
        /\ RequestTimeout \in Nat /\ WriteTimeout \in Nat
    BY ConstantTypes DEF Blocked, Requesting, Writing
  <2>2. CASE AdmitTokenRequest
    <3>1. Admit(AdmitToken, \/ Block("tokenDo", RequestTimeout) /\ UNCHANGED outcome
                            \/ Fail(constrainedFailureFor("internal_failure")))
      BY <2>2 DEF AdmitTokenRequest, Admit
    <3> QED BY <2>1, <2>2, <3>1, GateType DEF AdmitTokenRequest, TypeOK
  <2>3. CASE AdmitAddKeyRequest
    BY <2>1, <2>3, GateType DEF AdmitAddKeyRequest, TypeOK
  <2>4. CASE AdmitConfigWrite
    BY <2>1, <2>4, GateType DEF AdmitConfigWrite, TypeOK
  <2>5. CASE AdmitResultWrite
    BY <2>1, <2>5, GateType DEF AdmitResultWrite, TypeOK
  <2> QED BY <1>5, <2>2, <2>3, <2>4, <2>5 DEF Gate
<1>6. CASE Exchange
  <2>1. CASE SendRequest
    BY <2>1 DEF SendRequest, Request, TypeOK
  <2>2. RequestClass \in Classes
    BY <1>c DEF RequestClass
  <2>3. CASE ConnectionRefused
    <3>1. \E r \in Reasons : Fail(r)
      BY <1>c, <1>d, <2>2, <2>3, ReasonTypes DEF ConnectionRefused
    <3> QED BY <2>3, <3>1, FailType DEF ConnectionRefused, TypeOK
  <2>4. CASE RequestFails
    BY <2>2, <2>4, FailType, ReasonTypes DEF RequestFails, TypeOK
  <2>5. CASE ResponseArrives
    <3>1. CASE Fail(constrainedFailureWithDetail(RequestClass, "http_status"))
      BY <1>d, <2>2, <2>5, <3>1, FailType, ReasonTypes DEF ResponseArrives, TypeOK
    <3>2. CASE pc' \in {"tokenBody", "addKeyBody"} /\ UNCHANGED <<opEnd, outcome>>
      BY <2>5, <3>2 DEF ResponseArrives, TypeOK, Locations, Blocked, Requesting
    <3> QED BY <2>5, <3>1, <3>2 DEF ResponseArrives
  <2>6. CASE BodyReadFails \/ BodyInvalid
    BY <1>c, <1>d, <2>6, FailType, ReasonTypes DEF BodyReadFails, BodyInvalid, TypeOK
  <2>7. CASE TokenReceived
    BY <2>7 DEF TokenReceived, Go, TypeOK, Locations, Gates
  <2>8. CASE AddKeyReceived
    <3>1. PICK r \in AddKeyResults :
            \/ Fail(validateConstrainedAddKey(plan, r)) /\ UNCHANGED addKey
            \/ Fail(constrainedFailureFor("endpoint_reused")) /\ UNCHANGED addKey
            \/ /\ addKey' = [endpoint |-> r.endpoint, vip |-> r.vip]
               /\ Go("admitConfig")
               /\ UNCHANGED outcome
      BY <2>8 DEF AddKeyReceived
    <3>2. validateConstrainedAddKey(plan, r) \in Reasons
      BY <1>c, <1>d, ReasonTypes DEF validateConstrainedAddKey
    <3>3. CASE Fail(validateConstrainedAddKey(plan, r)) /\ UNCHANGED addKey
      BY <2>8, <3>2, <3>3, FailType DEF AddKeyReceived, TypeOK
    <3>4. CASE Fail(constrainedFailureFor("endpoint_reused")) /\ UNCHANGED addKey
      BY <1>c, <2>8, <3>4, FailType, ReasonTypes DEF AddKeyReceived, TypeOK
    <3>5. CASE /\ addKey' = [endpoint |-> r.endpoint, vip |-> r.vip]
               /\ Go("admitConfig")
               /\ UNCHANGED outcome
      BY <2>8, <3>5 DEF AddKeyReceived, AddKeyResults, Go, TypeOK, Locations, Gates
    <3> QED BY <3>1, <3>3, <3>4, <3>5
  <2> QED BY <1>6, <2>1, <2>3, <2>4, <2>5, <2>6, <2>7, <2>8 DEF Exchange
<1>7. CASE Write
  <2>1. CASE WriteCompletes
    BY <2>1, BodyTypes, DeliverType, AfterWriteType DEF WriteCompletes, TypeOK
  <2>2. CASE WritePartially
    BY <2>2 DEF WritePartially, TypeOK
  <2>3. CASE WriteBreaks
    BY <2>3, AfterWriteType DEF WriteBreaks, TypeOK
  <2>4. CASE WriteTimesOut
    BY <2>4, BodyTypes, AfterWriteType DEF WriteTimesOut, TypeOK
  <2>5. CASE LateWrite
    BY <2>5, DeliverType DEF LateWrite, TypeOK
  <2> QED BY <1>7, <2>1, <2>2, <2>3, <2>4, <2>5 DEF Write
<1>8. CASE StartWriteFailure
  <2>1. "writeFailure" \in Blocked /\ WriteTimeout \in Nat /\ "result_write_failed" \in Classes
    BY ConstantTypes DEF Blocked, Writing, Classes
  <2> QED BY <1>8, <2>1, BlockType, ExitType DEF StartWriteFailure, TypeOK
<1>9. CASE ExitProcess
  BY <1>9 DEF ExitProcess, Go, TypeOK, Locations
<1>10. CASE Environment
  <2>1. CASE Interrupt \/ ContextExpires
    BY <2>1 DEF Interrupt, ContextExpires, TypeOK
  <2>2. CASE LauncherCloses
    BY <2>2 DEF LauncherCloses, TypeOK
  <2>3. CASE PIARegisters
    <3>1. registered' \in BOOLEAN
      BY <2>3, Zenon DEF PIARegisters
    <3>2. UNCHANGED <<pc, clock, opEnd, ctxErr, inputs, outcome, pipes, sent>>
      BY <2>3, Zenon DEF PIARegisters
    <3> QED BY <3>1, <3>2 DEF TypeOK
  <2>4. CASE Tick
    BY <2>4 DEF Tick, TypeOK
  <2>5. CASE Stall
    BY <2>5 DEF Stall, TypeOK
  <2> QED BY <1>10, <2>1, <2>2, <2>3, <2>4, <2>5 DEF Environment
<1>11. CASE UNCHANGED vars
  BY <1>11 DEF vars, TypeOK
<1> QED
  BY <1>1, <1>2, <1>3, <1>4, <1>5, <1>6, <1>7, <1>8, <1>9, <1>10, <1>11
     DEF Next, Terminated

\* TypeOK holds in every reachable state, whatever the endpoints and durations:
\* the runner only ever reports failure classes and details of its vocabulary.
THEOREM TypeCorrect == Spec => []TypeOK
<1>1. ASSUME Init PROVE TypeOK
  <2>1. result \in Seq(Bodies) /\ pending \subseteq Bodies /\ closed \subseteq WriteFiles
    BY <1>1 DEF Init
  <2> QED BY <1>1, <2>1, ReasonTypes DEF Init, TypeOK, Locations, Gates, VIPs
<1> QED BY <1>1, TypeStep, PTL DEF Spec

-----------------------------------------------------------------------------
(***************************************************************************)
(* Time.  WithinBudget alone is not inductive: a run just inside the budget *)
(* could still start a request.  Latest gives each location its own bound,  *)
(* the one the gate behind it enforces plus the timeouts since.             *)
(***************************************************************************)
Latest(l) ==
    IF l = "start" THEN 0
    ELSE IF l = "readPlan" THEN Budget - AdmitRun + ReadTimeout
    ELSE IF l = "readCredentials" THEN Budget - AdmitRun + 2 * ReadTimeout
    ELSE IF l = "readPublicCA" THEN Budget - AdmitRun + 3 * ReadTimeout
    ELSE IF l \in {"readRegionalCA", "admitToken"} THEN Budget - AdmitRun + 4 * ReadTimeout
    ELSE IF l \in {"tokenDo", "tokenBody", "admitAddKey"}
    THEN Budget - AdmitToken + RequestTimeout
    ELSE IF l \in {"addKeyDo", "addKeyBody", "admitConfig"}
    THEN Budget - AdmitAddKey + RequestTimeout
    ELSE IF l \in {"writeConfig", "admitResult"} THEN Budget - AdmitConfig + WriteTimeout
    ELSE IF l = "writeResult" THEN Budget - AdmitResult + WriteTimeout
    ELSE IF l = "fail" THEN Budget - WriteTimeout
    ELSE Budget

\* Late only by the stalls since the last gate, and so is every timer.
PhaseBound ==
    /\ now <= Latest(pc) + slip
    /\ pc \in Blocked => opEnd <= Latest(pc) + slip

Ending == {"writeFailure", "exiting", "done"}

\* The durations are naturals; the form the provers use.
LEMMA Durations ==
    /\ Budget \in Nat /\ AdmitRun \in Nat /\ AdmitToken \in Nat /\ AdmitAddKey \in Nat
    /\ AdmitConfig \in Nat /\ AdmitResult \in Nat
    /\ ReadTimeout \in Nat /\ RequestTimeout \in Nat
    /\ WriteTimeout \in Nat /\ WriteTimeout > 0
BY ConstantTypes

\* Every location but the last leaves room to write the failure record.
LEMMA LatestBounds ==
    /\ \A l \in Locations : Latest(l) \in Int /\ Latest(l) <= Budget
    /\ \A l \in Locations \ Ending : Latest(l) <= Budget - WriteTimeout
BY Durations, GateChain
   DEF Latest, Ending, Locations, Blocked, Reading, Requesting, Writing, Gates

\* Failing in time leaves a state that is in time.
LEMMA FailBound ==
    ASSUME TypeOK, PhaseBound, pc \notin Ending, NEW r, Fail(r), UNCHANGED clock
    PROVE  PhaseBound'
<1>1. Latest(pc) <= Budget - WriteTimeout /\ Latest(pc) \in Int
  BY LatestBounds DEF TypeOK
<1>2. pc' = "fail" /\ pc' \notin Blocked /\ Latest(pc') = Budget - WriteTimeout
  BY DEF Fail, Go, Blocked, Reading, Requesting, Writing, Latest
<1> QED BY <1>1, <1>2, Durations DEF PhaseBound, TypeOK, clock

\* A gate that asks for enough time leaves a state that is in time.
LEMMA GateBound ==
    ASSUME TypeOK, PhaseBound, pc \notin Ending,
           NEW rem \in Nat, rem >= WriteTimeout,
           NEW l \in Locations, NEW t \in Nat, Budget - rem + t <= Latest(l),
           Admit(rem, \/ Block(l, t) /\ UNCHANGED outcome
                      \/ Fail(constrainedFailureFor("internal_failure")))
    PROVE  PhaseBound'
<1>1. CASE Fail(constrainedFailureFor(contextClass)) /\ UNCHANGED <<now, lag, slip>>
  BY <1>1, FailBound DEF clock
<1>2. Latest(l) \in Int
  BY LatestBounds
<1>3. CASE /\ admit(rem) /\ Block(l, t)
           /\ UNCHANGED <<now, lag>> /\ slip' = 0
  BY <1>2, <1>3, Durations DEF admit, Block, PhaseBound, TypeOK
<1>4. CASE /\ admit(rem) /\ Fail(constrainedFailureFor("internal_failure"))
           /\ UNCHANGED <<now, lag>> /\ slip' = 0
  <2>1. pc' = "fail" /\ pc' \notin Blocked /\ Latest(pc') = Budget - WriteTimeout
    BY <1>4 DEF Fail, Go, Blocked, Reading, Requesting, Writing, Latest
  <2> QED BY <1>4, <2>1, Durations DEF admit, PhaseBound, TypeOK
<1> QED BY <1>1, <1>3, <1>4 DEF Admit

\* Handing over from one location to one that is at least as late, at once.
LEMMA MoveBound ==
    ASSUME TypeOK, PhaseBound, UNCHANGED clock,
           NEW l \in Locations, pc' = l, Latest(pc) <= Latest(l),
           l \in Blocked => opEnd' <= Latest(l) + slip
    PROVE  PhaseBound'
<1>1. Latest(pc) \in Int /\ Latest(l) \in Int
  BY LatestBounds DEF TypeOK
<1> QED BY <1>1 DEF PhaseBound, TypeOK, clock

\* Every step of the run keeps its time bound.
LEMMA BoundStep == TypeOK /\ PhaseBound /\ [Next]_vars => PhaseBound'
<1> SUFFICES ASSUME TypeOK, PhaseBound, [Next]_vars PROVE PhaseBound'
  OBVIOUS
<1> USE DEF Ending
<1>a. ASSUME NEW l \in Locations, NEW t \in Nat, Block(l, t), UNCHANGED clock,
             Latest(pc) + t <= Latest(l)
      PROVE  PhaseBound'
  <2>1. Latest(pc) \in Int /\ Latest(l) \in Int
    BY LatestBounds DEF TypeOK
  <2>2. pc' = l /\ opEnd' = now + t
    BY <1>a DEF Block
  <2>3. Latest(pc) <= Latest(l) /\ opEnd' <= Latest(l) + slip
    BY <1>a, <2>1, <2>2 DEF PhaseBound, TypeOK
  <2> QED BY <1>a, <2>2, <2>3, MoveBound
<1>1. CASE RejectInvocation \/ RejectSocketMark
  BY <1>1, FailBound DEF RejectInvocation, RejectSocketMark
<1>2. CASE StartRun
  <2>1. /\ AdmitRun >= WriteTimeout /\ "readPlan" \in Locations
        /\ Budget - AdmitRun + ReadTimeout <= Latest("readPlan")
    BY Durations, GateChain DEF Latest, Locations, Blocked, Reading
  <2>2. Admit(AdmitRun, \/ Block("readPlan", ReadTimeout) /\ UNCHANGED outcome
                        \/ Fail(constrainedFailureFor("internal_failure")))
    BY <1>2 DEF StartRun, Admit
  <2>3. pc \notin Ending
    BY <1>2 DEF StartRun
  <2> QED BY <2>1, <2>2, <2>3, Durations, GateBound
<1>3. CASE Read
  <2>1. CASE ReadPlan
    <3>1. /\ Latest("readPlan") + ReadTimeout <= Latest("readCredentials")
          /\ "readCredentials" \in Locations
      BY Durations DEF Latest, Locations, Blocked, Reading
    <3> QED BY <1>a, <2>1, <3>1, Durations DEF ReadPlan
  <2>2. CASE ReadCredentials
    <3>1. /\ Latest("readCredentials") + ReadTimeout <= Latest("readPublicCA")
          /\ "readPublicCA" \in Locations
      BY Durations DEF Latest, Locations, Blocked, Reading
    <3> QED BY <1>a, <2>2, <3>1, Durations DEF ReadCredentials
  <2>3. CASE ReadPublicCA
    <3>1. /\ Latest("readPublicCA") + ReadTimeout <= Latest("readRegionalCA")
          /\ "readRegionalCA" \in Locations
      BY Durations DEF Latest, Locations, Blocked, Reading
    <3> QED BY <1>a, <2>3, <3>1, Durations DEF ReadPublicCA
  <2>4. CASE ReadRegionalCA
    <3>1. /\ "admitToken" \in Locations \ Blocked
          /\ Latest("readRegionalCA") <= Latest("admitToken")
      BY Durations DEF Latest, Locations, Gates, Blocked, Reading, Requesting, Writing
    <3> QED BY <2>4, <3>1, MoveBound DEF ReadRegionalCA, Go
  <2> QED BY <1>3, <2>1, <2>2, <2>3, <2>4 DEF Read
<1>4. CASE ReadFails
  BY <1>4, FailBound DEF ReadFails, Reading
<1>5. CASE Gate
  <2>1. CASE AdmitTokenRequest
    <3>1. /\ AdmitToken >= WriteTimeout /\ "tokenDo" \in Locations
          /\ Budget - AdmitToken + RequestTimeout <= Latest("tokenDo")
      BY Durations, GateChain DEF Latest, Locations, Blocked, Requesting
    <3>2. Admit(AdmitToken, \/ Block("tokenDo", RequestTimeout) /\ UNCHANGED outcome
                            \/ Fail(constrainedFailureFor("internal_failure")))
      BY <2>1 DEF AdmitTokenRequest, Admit
    <3>3. pc \notin Ending
      BY <2>1 DEF AdmitTokenRequest
    <3> QED BY <3>1, <3>2, <3>3, Durations, GateBound
  <2>2. CASE AdmitAddKeyRequest
    <3>1. /\ AdmitAddKey >= WriteTimeout /\ "addKeyDo" \in Locations
          /\ Budget - AdmitAddKey + RequestTimeout <= Latest("addKeyDo")
      BY Durations, GateChain DEF Latest, Locations, Blocked, Requesting
    <3> QED BY <2>2, <3>1, Durations, GateBound DEF AdmitAddKeyRequest
  <2>3. CASE AdmitConfigWrite
    <3>1. /\ AdmitConfig >= WriteTimeout /\ "writeConfig" \in Locations
          /\ Budget - AdmitConfig + WriteTimeout <= Latest("writeConfig")
      BY Durations, GateChain DEF Latest, Locations, Blocked, Writing
    <3> QED BY <2>3, <3>1, Durations, GateBound DEF AdmitConfigWrite
  <2>4. CASE AdmitResultWrite
    <3>1. /\ AdmitResult >= WriteTimeout /\ "writeResult" \in Locations
          /\ Budget - AdmitResult + WriteTimeout <= Latest("writeResult")
      BY Durations, GateChain DEF Latest, Locations, Blocked, Writing
    <3> QED BY <2>4, <3>1, Durations, GateBound DEF AdmitResultWrite
  <2> QED BY <1>5, <2>1, <2>2, <2>3, <2>4 DEF Gate
<1>6. CASE Exchange
  <2>1. CASE SendRequest
    BY <2>1 DEF SendRequest, PhaseBound, clock
  <2>2. CASE ConnectionRefused \/ RequestFails \/ BodyReadFails \/ BodyInvalid
    BY <2>2, FailBound DEF ConnectionRefused, RequestFails, BodyReadFails, BodyInvalid
  <2>3. CASE ResponseArrives
    <3>1. CASE Fail(constrainedFailureWithDetail(RequestClass, "http_status"))
      BY <2>3, <3>1, FailBound DEF ResponseArrives
    <3>2. CASE pc' = (IF pc = "tokenDo" THEN "tokenBody" ELSE "addKeyBody") /\ UNCHANGED opEnd
      BY <2>3, <3>2 DEF ResponseArrives, PhaseBound, Latest, clock, Blocked, Requesting
    <3> QED BY <2>3, <3>1, <3>2 DEF ResponseArrives
  <2>4. CASE TokenReceived
    <3>1. /\ "admitAddKey" \in Locations \ Blocked
          /\ Latest("tokenBody") <= Latest("admitAddKey")
      BY Durations DEF Latest, Locations, Gates, Blocked, Reading, Requesting, Writing
    <3> QED BY <2>4, <3>1, MoveBound DEF TokenReceived, Go
  <2>5. CASE AddKeyReceived
    <3>1. /\ "admitConfig" \in Locations \ Blocked
          /\ Latest("addKeyBody") <= Latest("admitConfig")
      BY Durations DEF Latest, Locations, Gates, Blocked, Reading, Requesting, Writing
    <3>2. pc = "addKeyBody" /\ UNCHANGED clock /\ ((\E r : Fail(r)) \/ Go("admitConfig"))
      BY <2>5 DEF AddKeyReceived
    <3> QED BY <3>1, <3>2, FailBound, MoveBound DEF Go
  <2> QED BY <1>6, <2>1, <2>2, <2>3, <2>4, <2>5 DEF Exchange
<1>7. CASE Write
  <2>1. ASSUME AfterWrite \/ AfterWriteError, UNCHANGED clock
        PROVE  PhaseBound'
    <3>1. CASE pc \in {"writeConfig", "writeResult"} /\ (\E r : Fail(r))
      BY <2>1, <3>1, FailBound
    <3>2. CASE pc = "writeConfig" /\ Go("admitResult")
      <4>1. /\ "admitResult" \in Locations \ Blocked
            /\ Latest("writeConfig") <= Latest("admitResult")
        BY Durations DEF Latest, Locations, Gates, Blocked, Reading, Requesting, Writing
      <4> QED BY <2>1, <3>2, <4>1, MoveBound DEF Go
    <3>3. CASE pc \in {"writeResult", "writeFailure"} /\ Go("exiting")
      <4>1. /\ "exiting" \in Locations \ Blocked
            /\ Latest("writeResult") <= Latest("exiting")
            /\ Latest("writeFailure") <= Latest("exiting")
        BY Durations, GateChain
           DEF Latest, Locations, Gates, Blocked, Reading, Requesting, Writing
      <4> QED BY <2>1, <3>3, <4>1, MoveBound DEF Go
    <3> QED BY <2>1, <3>1, <3>2, <3>3 DEF AfterWrite, AfterWriteError, constrainedExit
  <2>2. CASE WriteCompletes \/ WriteBreaks \/ WriteTimesOut
    BY <2>1, <2>2 DEF WriteCompletes, WriteBreaks, WriteTimesOut
  <2>3. CASE WritePartially \/ LateWrite
    BY <2>3 DEF WritePartially, LateWrite, PhaseBound, clock
  <2> QED BY <1>7, <2>2, <2>3 DEF Write
<1>8. CASE StartWriteFailure
  <2>1. /\ "exiting" \in Locations \ Blocked
        /\ Latest("fail") <= Latest("exiting")
        /\ "writeFailure" \in Locations
        /\ Latest("fail") + WriteTimeout <= Latest("writeFailure")
    BY Durations DEF Latest, Locations, Gates, Blocked, Reading, Requesting, Writing
  <2>2. CASE constrainedExit("result_write_failed")
    BY <1>8, <2>1, <2>2, MoveBound DEF StartWriteFailure, constrainedExit, Go
  <2>3. CASE Block("writeFailure", WriteTimeout)
    BY <1>8, <1>a, <2>1, <2>3, Durations DEF StartWriteFailure
  <2> QED BY <1>8, <2>2, <2>3 DEF StartWriteFailure
<1>9. CASE ExitProcess
  <2>1. "done" \in Locations \ Blocked /\ Latest("exiting") <= Latest("done")
    BY Durations DEF Latest, Locations, Gates, Blocked, Reading, Requesting, Writing
  <2> QED BY <1>9, <2>1, MoveBound DEF ExitProcess, Go
<1>10. CASE Environment
  <2>1. CASE Interrupt \/ ContextExpires \/ LauncherCloses \/ PIARegisters
    BY <2>1 DEF Interrupt, ContextExpires, LauncherCloses, PIARegisters, PhaseBound, clock
  <2>2. Latest(pc) \in Int
    BY LatestBounds DEF TypeOK
  <2>3. CASE Tick
    BY <2>2, <2>3 DEF Tick, PhaseBound, TypeOK
  <2>4. CASE Stall
    BY <2>2, <2>4 DEF Stall, PhaseBound, TypeOK
  <2> QED BY <1>10, <2>1, <2>3, <2>4 DEF Environment
<1>11. CASE UNCHANGED vars
  BY <1>11 DEF vars, clock, PhaseBound
<1> QED
  BY <1>1, <1>2, <1>3, <1>4, <1>5, <1>6, <1>7, <1>8, <1>9, <1>10, <1>11
     DEF Next, Terminated

\* A run never outlives its budget by more than the stalls since the last gate:
\* with the durations of execute, 60 seconds cover every read, request and write,
\* the write of the failure record included.
THEOREM RunWithinBudget == Spec => []WithinBudget
<1>1. Init => PhaseBound
  BY Durations DEF Init, PhaseBound, Latest, Blocked, Reading, Requesting, Writing
<1>2. TypeOK /\ PhaseBound => WithinBudget
  <2> SUFFICES ASSUME TypeOK, PhaseBound PROVE WithinBudget
    OBVIOUS
  <2>1. Latest(pc) \in Int /\ Latest(pc) <= Budget
    BY LatestBounds DEF TypeOK
  <2> QED BY <2>1, Durations DEF PhaseBound, WithinBudget, TypeOK
<1> QED BY <1>1, <1>2, BoundStep, TypeCorrect, PTL DEF Spec

-----------------------------------------------------------------------------
(***************************************************************************)
(* What a late run has spent.  The strengthening ties the context to the    *)
(* clock, the reported failure and the requests to the location.            *)
(***************************************************************************)
BeforeToken == {"start", "admitToken"} \cup Reading

SpendInv ==
    /\ slip <= lag
    /\ ctxErr = "deadline" => now >= Budget
    /\ failure.class # "none" => pc \in Ending \cup {"fail"}
    /\ pc \in BeforeToken => sent = {}
    /\ TimeoutSpendsNothing

\* Behind the token gate the clock of a run that never stalled is still short of
\* the next gate, and of the budget.
LEMMA InTimeBehindTokenGate ==
    ASSUME TypeOK, PhaseBound, SpendInv, lag = 0, pc \notin BeforeToken \cup Ending \cup {"fail"}
    PROVE  /\ ctxErr # "deadline"
           /\ pc = "admitAddKey" => Budget - now >= AdmitAddKey
           /\ pc = "admitConfig" => Budget - now >= AdmitConfig
           /\ pc = "admitResult" => Budget - now >= AdmitResult
<1>1. slip = 0
  BY DEF SpendInv, TypeOK
<1>2. now < Budget
  <2>1. Latest(pc) <= Budget - WriteTimeout /\ Latest(pc) \in Int
    BY LatestBounds DEF TypeOK
  <2> QED BY <1>1, <2>1, Durations DEF PhaseBound, TypeOK
<1>3. ctxErr # "deadline"
  BY <1>2, Durations DEF SpendInv, TypeOK
<1>4. /\ pc = "admitAddKey" => Latest(pc) <= Budget - AdmitAddKey
      /\ pc = "admitConfig" => Latest(pc) <= Budget - AdmitConfig
      /\ pc = "admitResult" => Latest(pc) <= Budget - AdmitResult
  BY Durations, GateChain DEF Latest
<1>5. Latest(pc) \in Int
  BY LatestBounds DEF TypeOK
<1> QED BY <1>1, <1>3, <1>4, <1>5, Durations DEF PhaseBound, TypeOK

\* Failing is fine when a deadline_exceeded is reported with nothing sent.
LEMMA SpendFail ==
    ASSUME TypeOK, SpendInv, NEW r, Fail(r), UNCHANGED <<now, lag, ctxErr, sent>>,
           slip' \in {slip, 0},
           (r.class = "deadline_exceeded" /\ lag = 0) => sent = {}
    PROVE  SpendInv'
BY DEF SpendInv, TypeOK, TimeoutSpendsNothing, Fail, Go, Ending, BeforeToken, Reading

\* A gate keeps the invariant when it cannot refuse for lack of time a run that
\* has sent something.
LEMMA SpendGate ==
    ASSUME TypeOK, SpendInv, NEW rem, NEW l \in Blocked \ Ending, NEW t,
           pc \notin Ending \cup {"fail"}, pc \in BeforeToken \/ l \notin BeforeToken,
           lag = 0 /\ sent # {} => ctxErr # "deadline" /\ Budget - now >= rem,
           Admit(rem, \/ Block(l, t) /\ UNCHANGED outcome
                      \/ Fail(constrainedFailureFor("internal_failure"))),
           UNCHANGED <<ctxErr, sent>>
    PROVE  SpendInv'
<1>1. CASE ~admit(rem) /\ Fail(constrainedFailureFor(contextClass)) /\ UNCHANGED <<now, lag, slip>>
  <2>1. lag = 0 /\ sent # {} => constrainedFailureFor(contextClass).class = "cancelled"
    BY <1>1 DEF admit, constrainedFailureFor, contextClass, TypeOK
  <2> QED BY <1>1, <2>1, SpendFail
<1>2. CASE Fail(constrainedFailureFor("internal_failure")) /\ UNCHANGED <<now, lag>> /\ slip' = 0
  <2>1. constrainedFailureFor("internal_failure").class # "deadline_exceeded"
    BY DEF constrainedFailureFor
  <2> QED BY <1>2, <2>1, SpendFail
<1>3. CASE /\ Block(l, t) /\ UNCHANGED outcome
           /\ UNCHANGED <<now, lag>> /\ slip' = 0
  BY <1>3 DEF SpendInv, TypeOK, TimeoutSpendsNothing, Block, outcome, Ending
<1> QED BY <1>1, <1>2, <1>3 DEF Admit

\* Every step keeps SpendInv: one case per action.
LEMMA SpendStep == TypeOK /\ PhaseBound /\ SpendInv /\ [Next]_vars => SpendInv'
<1> SUFFICES ASSUME TypeOK, PhaseBound, SpendInv, [Next]_vars PROVE SpendInv'
  OBVIOUS
<1> USE DEF clock, inputs, outcome, pipes, remote
<1>r. /\ constrainedFailureFor("invalid_invocation").class # "deadline_exceeded"
      /\ constrainedFailureFor("endpoint_reused").class # "deadline_exceeded"
      /\ \A c \in {"invalid_invocation", "invalid_trust", "response_invalid",
                    "token_request_failed", "add_key_request_failed"}, d \in Details :
           constrainedFailureWithDetail(c, d).class # "deadline_exceeded"
  BY DEF constrainedFailureFor, constrainedFailureWithDetail
<1>d. {"", "socket_mark_invalid", "socket_mark_refused", "ca_chain", "endpoint_identity",
       "http_status", "body_read_failed", "body_invalid", "add_key_field_invalid",
       "add_key_invalid_server_vip"} \subseteq Details
  BY DEF Details
<1>1. CASE RejectInvocation \/ RejectSocketMark
  BY <1>1, <1>r, <1>d, SpendFail DEF RejectInvocation, RejectSocketMark
<1>2. CASE StartRun
  <2>1. Admit(AdmitRun, \/ Block("readPlan", ReadTimeout) /\ UNCHANGED outcome
                        \/ Fail(constrainedFailureFor("internal_failure")))
    BY <1>2 DEF StartRun, Admit
  <2>2. /\ pc \in BeforeToken /\ pc \notin Ending \cup {"fail"}
        /\ "readPlan" \in Blocked \ Ending /\ UNCHANGED <<ctxErr, sent>>
    BY <1>2 DEF StartRun, BeforeToken, Ending, Blocked, Reading
  <2>3. sent = {}
    BY <2>2 DEF SpendInv
  <2> QED BY <2>1, <2>2, <2>3, SpendGate
<1>3. CASE Read
  BY <1>3 DEF Read, ReadPlan, ReadCredentials, ReadPublicCA, ReadRegionalCA, Go, Block,
              SpendInv, TimeoutSpendsNothing, BeforeToken, Reading, Ending
<1>4. CASE ReadFails
  <2>1. sent = {}
    BY <1>4 DEF ReadFails, SpendInv, BeforeToken
  <2> QED BY <1>4, <2>1, SpendFail DEF ReadFails
<1>5. CASE Gate
  <2>1. CASE AdmitTokenRequest
    <3>1. Admit(AdmitToken, \/ Block("tokenDo", RequestTimeout) /\ UNCHANGED outcome
                            \/ Fail(constrainedFailureFor("internal_failure")))
      BY <2>1 DEF AdmitTokenRequest, Admit
    <3>2. /\ pc \in BeforeToken /\ pc \notin Ending \cup {"fail"}
          /\ "tokenDo" \in Blocked \ Ending /\ UNCHANGED <<ctxErr, sent>>
      BY <2>1 DEF AdmitTokenRequest, BeforeToken, Ending, Blocked, Requesting, Reading
    <3>3. sent = {}
      BY <3>2 DEF SpendInv
    <3> QED BY <3>1, <3>2, <3>3, SpendGate
  <2>2. /\ {"addKeyDo", "writeConfig", "writeResult"} \subseteq Blocked \ Ending
        /\ {"addKeyDo", "writeConfig", "writeResult", "admitAddKey", "admitConfig",
            "admitResult"} \cap (BeforeToken \cup Ending \cup {"fail"}) = {}
    BY DEF Blocked, Requesting, Writing, Reading, Ending, BeforeToken
  <2>3. CASE AdmitAddKeyRequest
    <3>1. lag = 0 => ctxErr # "deadline" /\ Budget - now >= AdmitAddKey
      BY <2>2, <2>3, InTimeBehindTokenGate DEF AdmitAddKeyRequest
    <3> QED BY <2>2, <2>3, <3>1, SpendGate DEF AdmitAddKeyRequest
  <2>4. CASE AdmitConfigWrite
    <3>1. lag = 0 => ctxErr # "deadline" /\ Budget - now >= AdmitConfig
      BY <2>2, <2>4, InTimeBehindTokenGate DEF AdmitConfigWrite
    <3> QED BY <2>2, <2>4, <3>1, SpendGate DEF AdmitConfigWrite
  <2>5. CASE AdmitResultWrite
    <3>1. lag = 0 => ctxErr # "deadline" /\ Budget - now >= AdmitResult
      BY <2>2, <2>5, InTimeBehindTokenGate DEF AdmitResultWrite
    <3> QED BY <2>2, <2>5, <3>1, SpendGate DEF AdmitResultWrite
  <2> QED BY <1>5, <2>1, <2>3, <2>4, <2>5 DEF Gate
<1>6. CASE Exchange
  <2>1. CASE SendRequest
    BY <2>1 DEF SendRequest, SpendInv, TimeoutSpendsNothing, BeforeToken, Reading, Ending
  <2>2. RequestClass \in {"token_request_failed", "add_key_request_failed"}
    BY DEF RequestClass
  <2>3. CASE ConnectionRefused
    BY <1>r, <1>d, <2>2, <2>3, SpendFail DEF ConnectionRefused
  <2>4. CASE RequestFails
    <3>1. lag = 0 => ctxErr # "deadline"
      BY <2>4, InTimeBehindTokenGate DEF RequestFails, BeforeToken, Reading, Ending
    <3>2. lag = 0 => constrainedFailureFor(classifyNetworkError(RequestClass)).class
                       # "deadline_exceeded"
      BY <2>2, <3>1
         DEF constrainedFailureFor, classifyNetworkError, contextClass, TypeOK
    <3> QED BY <2>4, <3>2, SpendFail DEF RequestFails
  <2>5. CASE ResponseArrives
    <3>1. CASE Fail(constrainedFailureWithDetail(RequestClass, "http_status"))
      BY <1>r, <1>d, <2>2, <2>5, <3>1, SpendFail DEF ResponseArrives
    <3>2. CASE pc' \in {"tokenBody", "addKeyBody"} /\ UNCHANGED <<opEnd, outcome>>
      BY <2>5, <3>2 DEF ResponseArrives, SpendInv, TimeoutSpendsNothing, BeforeToken, Reading, Ending
    <3> QED BY <2>5, <3>1, <3>2 DEF ResponseArrives
  <2>6. CASE BodyReadFails \/ BodyInvalid
    BY <1>r, <1>d, <2>6, SpendFail DEF BodyReadFails, BodyInvalid
  <2>7. CASE TokenReceived
    BY <2>7 DEF TokenReceived, Go, SpendInv, TimeoutSpendsNothing, BeforeToken, Reading, Ending
  <2>8. CASE AddKeyReceived
    <3>1. PICK r \in AddKeyResults :
            \/ Fail(validateConstrainedAddKey(plan, r))
            \/ Fail(constrainedFailureFor("endpoint_reused"))
            \/ Go("admitConfig") /\ UNCHANGED outcome
      BY <2>8 DEF AddKeyReceived
    <3>2. validateConstrainedAddKey(plan, r).class # "deadline_exceeded"
      BY <1>r, <1>d DEF validateConstrainedAddKey, NoFailure
    <3>3. CASE Go("admitConfig") /\ UNCHANGED outcome
      BY <2>8, <3>3
         DEF AddKeyReceived, Go, SpendInv, TimeoutSpendsNothing, BeforeToken, Reading, Ending
    <3> QED BY <1>r, <2>8, <3>1, <3>2, <3>3, SpendFail DEF AddKeyReceived
  <2> QED BY <1>6, <2>1, <2>3, <2>4, <2>5, <2>6, <2>7, <2>8 DEF Exchange
<1>7. CASE Write
  <2>1. ASSUME AfterWrite \/ AfterWriteError, UNCHANGED <<clock, ctxErr, sent>>
        PROVE  SpendInv'
    <3>1. CASE \/ Fail(constrainedFailureFor("config_write_failed"))
               \/ Fail(constrainedFailureFor("result_write_failed"))
      <4>1. /\ constrainedFailureFor("config_write_failed").class # "deadline_exceeded"
            /\ constrainedFailureFor("result_write_failed").class # "deadline_exceeded"
        BY DEF constrainedFailureFor
      <4> QED BY <2>1, <3>1, <4>1, SpendFail
    <3>2. CASE pc = "writeConfig" /\ Go("admitResult") /\ UNCHANGED outcome
      BY <2>1, <3>2 DEF Go, SpendInv, TimeoutSpendsNothing, BeforeToken, Reading, Ending
    <3>3. CASE \E c : constrainedExit(c)
      BY <2>1, <3>3
         DEF constrainedExit, Go, SpendInv, TimeoutSpendsNothing, BeforeToken, Reading, Ending
    <3> QED BY <2>1, <3>1, <3>2, <3>3 DEF AfterWrite, AfterWriteError
  <2>2. CASE WriteCompletes \/ WriteBreaks \/ WriteTimesOut
    BY <2>1, <2>2 DEF WriteCompletes, WriteBreaks, WriteTimesOut
  <2>3. CASE WritePartially \/ LateWrite
    BY <2>3 DEF WritePartially, LateWrite, SpendInv, TimeoutSpendsNothing
  <2> QED BY <1>7, <2>2, <2>3 DEF Write
<1>8. CASE StartWriteFailure \/ ExitProcess
  BY <1>8 DEF StartWriteFailure, ExitProcess, constrainedExit, Block, Go, SpendInv,
              TimeoutSpendsNothing, BeforeToken, Reading, Ending
<1>9. CASE Environment
  <2>1. CASE Interrupt
    BY <2>1 DEF Interrupt, SpendInv, TimeoutSpendsNothing
  <2>2. CASE ContextExpires
    BY <2>2 DEF ContextExpires, SpendInv, TimeoutSpendsNothing
  <2>3. CASE LauncherCloses \/ PIARegisters
    BY <2>3 DEF LauncherCloses, PIARegisters, SpendInv, TimeoutSpendsNothing
  <2>4. CASE Tick
    BY <2>4, Durations DEF Tick, SpendInv, TimeoutSpendsNothing, TypeOK
  <2>5. CASE Stall
    BY <2>5, Durations DEF Stall, SpendInv, TimeoutSpendsNothing, TypeOK
  <2> QED BY <1>9, <2>1, <2>2, <2>3, <2>4, <2>5 DEF Environment
<1>10. CASE UNCHANGED vars
  BY <1>10 DEF vars, SpendInv, TimeoutSpendsNothing
<1> QED
  BY <1>1, <1>2, <1>3, <1>4, <1>5, <1>6, <1>7, <1>8, <1>9, <1>10 DEF Next, Terminated

\* A run that is too late and was never stalled has sent neither the credentials
\* nor a registration request.
THEOREM LateRunSpendsNothing == Spec => []TimeoutSpendsNothing
<1>1. Init => PhaseBound
  BY Durations DEF Init, PhaseBound, Latest, Blocked, Reading, Requesting, Writing
<1>2. ASSUME Init PROVE SpendInv
  <2>1. failure.class = "none" /\ slip = 0 /\ lag = 0 /\ ctxErr = "nil" /\ sent = {}
    BY <1>2 DEF Init, NoFailure
  <2> QED BY <2>1 DEF SpendInv, TimeoutSpendsNothing
<1>3. SpendInv => TimeoutSpendsNothing
  BY DEF SpendInv
<1> QED BY <1>1, <1>2, <1>3, BoundStep, SpendStep, TypeCorrect, PTL DEF Spec

-----------------------------------------------------------------------------
(***************************************************************************)
(* One record.  A goroutine left behind by a timed-out result write may     *)
(* still write its record, so the invariant says why nothing else is written *)
(* to the result pipe then: the file is closed and only the exit is left.   *)
(***************************************************************************)
ResultInv ==
    /\ OneResultRecord
    /\ result # <<>> =>
         pc \in {"exiting", "done"} \/ (pc = "fail" /\ "result" \in closed)
    /\ "result" \in closed => pc \in {"fail", "exiting", "done"}
    /\ \A b \in pending : FileOf(b) = "result" => "result" \in closed /\ result = <<>>
    /\ \A b, c \in pending : FileOf(b) = "result" /\ FileOf(c) = "result" => b = c

\* Delivering to an empty result pipe leaves one record, delivering a config none.
LEMMA DeliverOne ==
    ASSUME TypeOK, ResultInv, NEW b \in Bodies, Deliver(b),
           FileOf(b) = "result" => result = <<>>
    PROVE  /\ OneResultRecord'
           /\ FileOf(b) = "config" => result' = result
           /\ FileOf(b) \in {"config", "result"}
<1>1. CASE b.kind = "config"
  BY <1>1 DEF Deliver, ResultInv, OneResultRecord, FileOf
<1>2. CASE b.kind # "config"
  <2>1. result = <<>> /\ result' = Append(result, b)
    BY <1>2 DEF Deliver, FileOf
  <2>2. Len(result') = 1
    BY <2>1
  <2> QED BY <1>2, <2>2 DEF OneResultRecord, FileOf
<1> QED BY <1>1, <1>2

\* Steps that leave the pipes alone may go anywhere while the result pipe is
\* untouched, and only towards the exit otherwise.
LEMMA ResultMove ==
    ASSUME ResultInv, UNCHANGED <<result, closed, pending>>,
           \/ pc \notin {"fail", "exiting", "done"}
           \/ pc' = pc
           \/ pc' \in {"exiting", "done"}
           \/ "result" \notin closed /\ pc \notin {"exiting", "done"}
    PROVE  ResultInv'
BY DEF ResultInv, OneResultRecord

\* Every step keeps ResultInv: one case per action.
LEMMA ResultStep == TypeOK /\ ResultInv /\ [Next]_vars => ResultInv'
<1> SUFFICES ASSUME TypeOK, ResultInv, [Next]_vars PROVE ResultInv'
  OBVIOUS
<1> USE DEF pipes
<1>1. CASE RejectInvocation \/ RejectSocketMark \/ StartRun
  BY <1>1, ResultMove DEF RejectInvocation, RejectSocketMark, StartRun
<1>2. CASE Read \/ ReadFails
  BY <1>2, ResultMove DEF Read, ReadPlan, ReadCredentials, ReadPublicCA, ReadRegionalCA,
                          ReadFails, Reading
<1>3. CASE Gate
  BY <1>3, ResultMove
     DEF Gate, AdmitTokenRequest, AdmitAddKeyRequest, AdmitConfigWrite, AdmitResultWrite
<1>4. CASE Exchange
  BY <1>4, ResultMove
     DEF Exchange, SendRequest, ConnectionRefused, RequestFails, ResponseArrives,
         BodyReadFails, BodyInvalid, TokenReceived, AddKeyReceived
<1>5. CASE Write
  <2>1. pc \in Writing => result = <<>> /\ "result" \notin closed
                        /\ \A b \in pending : FileOf(b) # "result"
    BY DEF ResultInv, Writing
  <2>2. /\ Body \in Bodies
        /\ FileOf(Body) = "result" => pc # "writeConfig"
        /\ pc \in {"writeResult", "writeFailure"} => FileOf(Body) = "result"
    BY BodyTypes DEF Body, FileOf, ConfigBody, SuccessBody, FailureBody
  <2>3. CASE WriteCompletes
    <3>1. /\ OneResultRecord'
          /\ FileOf(Body) = "config" => result' = result
          /\ FileOf(Body) \in {"config", "result"}
      BY <2>1, <2>2, <2>3, DeliverOne DEF WriteCompletes
    <3>2. /\ UNCHANGED <<closed, pending>>
          /\ pc \in {"writeResult", "writeFailure"} => pc' = "exiting"
      BY <2>3 DEF WriteCompletes, AfterWrite, constrainedExit, Go
    <3>3. pc \in Writing
      BY <2>3 DEF WriteCompletes
    <3> QED BY <2>1, <2>2, <3>1, <3>2, <3>3 DEF ResultInv, Writing
  <2>4. CASE WritePartially \/ WriteBreaks
    BY <2>4, ResultMove DEF WritePartially, WriteBreaks, Writing
  <2>5. CASE WriteTimesOut
    <3>1. /\ pc \in Writing /\ UNCHANGED result
          /\ \/ UNCHANGED <<closed, pending>>
             \/ /\ closed' = closed \cup {FileOf(Body)}
                /\ pending' = pending \cup {Body}
      BY <2>5 DEF WriteTimesOut
    <3>2. pc' \in {"fail", "exiting"}
      BY <2>5 DEF WriteTimesOut, AfterWriteError, constrainedExit, Fail, Go
    <3>3. OneResultRecord' /\ result' = <<>>
      BY <2>1, <3>1 DEF ResultInv, OneResultRecord
    <3>4. CASE UNCHANGED <<closed, pending>>
      BY <2>1, <3>1, <3>3, <3>4 DEF ResultInv
    <3>5. CASE /\ closed' = closed \cup {FileOf(Body)}
               /\ pending' = pending \cup {Body}
      BY <2>1, <3>1, <3>2, <3>3, <3>5 DEF ResultInv
    <3> QED BY <3>1, <3>4, <3>5
  <2>6. CASE LateWrite
    <3>1. PICK b \in pending : Deliver(b) /\ pending' = pending \ {b}
      BY <2>6 DEF LateWrite
    <3>2. b \in Bodies
      BY DEF TypeOK
    <3>3. /\ OneResultRecord'
          /\ FileOf(b) = "config" => result' = result
          /\ FileOf(b) \in {"config", "result"}
      BY <3>1, <3>2, DeliverOne DEF ResultInv
    <3>4. UNCHANGED <<pc, closed>>
      BY <2>6 DEF LateWrite
    <3> QED BY <3>1, <3>3, <3>4 DEF ResultInv
  <2> QED BY <1>5, <2>3, <2>4, <2>5, <2>6 DEF Write
<1>6. CASE StartWriteFailure
  BY <1>6, ResultMove DEF StartWriteFailure, constrainedExit, Block, Go
<1>7. CASE ExitProcess
  BY <1>7, ResultMove DEF ExitProcess, Go
<1>8. CASE Environment
  BY <1>8, ResultMove
     DEF Environment, Interrupt, ContextExpires, LauncherCloses, PIARegisters, Tick, Stall
<1>9. CASE UNCHANGED vars
  BY <1>9, ResultMove DEF vars
<1> QED
  BY <1>1, <1>2, <1>3, <1>4, <1>5, <1>6, <1>7, <1>8, <1>9 DEF Next, Terminated

\* The launcher never finds more than one record in the result pipe, although a
\* timed-out write may still land: closing the file keeps the failure record out.
THEOREM AtMostOneRecord == Spec => []OneResultRecord
<1>1. Init => ResultInv
  BY DEF Init, ResultInv, OneResultRecord
<1>2. ResultInv => OneResultRecord
  BY DEF ResultInv
<1> QED BY <1>1, <1>2, ResultStep, TypeCorrect, PTL DEF Spec

-----------------------------------------------------------------------------
(***************************************************************************)
(* What a run leaves behind.                                                *)
(***************************************************************************)
Stopping == {"fail", "writeFailure", "exiting", "done"}
BeforeAddKey == {"start", "admitToken", "tokenDo", "tokenBody", "admitAddKey"} \cup Reading
Answered == {"admitConfig", "writeConfig", "admitResult", "writeResult"}

\* The classes that promise that no key was registered, and those that tell
\* that one was.
EarlyClasses == {"invalid_invocation", "invalid_plan", "invalid_credentials",
                 "invalid_trust", "token_request_failed"}
LateClasses == {"endpoint_reused", "config_write_failed", "result_write_failed"}

-----------------------------------------------------------------------------
(***************************************************************************)
(* The key at PIA.  ClassTellsRegistration speaks of failed runs only; the  *)
(* invariant adds where the others may be before and after the request.     *)
(***************************************************************************)
RegistrationInv ==
    /\ ClassTellsRegistration
    /\ registered => "addKey" \in sent
    /\ "addKey" \in sent => pc \notin BeforeAddKey
    /\ pc \in Answered => registered
    /\ pc \notin Stopping => failure = NoFailure

\* A run that has not failed owes the launcher no statement about its key.
LEMMA NothingToTell ==
    ASSUME failure = NoFailure
    PROVE  ClassTellsRegistration
BY DEF NoFailure, ClassTellsRegistration

\* Failing with a class that is true of the key.
LEMMA RegistrationFail ==
    ASSUME RegistrationInv, NEW r, Fail(r), UNCHANGED remote,
           r.class \in EarlyClasses => "addKey" \notin sent,
           r.class \in LateClasses => registered
    PROVE  RegistrationInv'
<1>1. pc' = "fail" /\ failure' = r /\ sent' = sent
  BY DEF Fail, Go, remote
<1>2. registered' = registered
  BY DEF remote
<1>3. ClassTellsRegistration'
  <2>1. r.class \in EarlyClasses => "addKey" \notin sent' /\ ~registered'
    BY <1>1, <1>2, Zenon DEF RegistrationInv
  <2>2. r.class \in LateClasses => registered'
    BY <1>2, Zenon
  <2> QED BY <1>1, <2>1, <2>2 DEF ClassTellsRegistration, EarlyClasses, LateClasses
<1>4. registered' => "addKey" \in sent'
  BY <1>1, <1>2, Zenon DEF RegistrationInv
<1>5. pc' \notin BeforeAddKey /\ pc' \notin Answered /\ pc' \in Stopping
  BY <1>1 DEF BeforeAddKey, Answered, Stopping, Reading
<1> QED BY <1>3, <1>4, <1>5, Zenon DEF RegistrationInv

\* Going on: the location may not go back behind the request, and reaches the
\* outputs only with a registered key.
LEMMA RegistrationMove ==
    ASSUME RegistrationInv, failure' = failure, UNCHANGED remote,
           pc' \in BeforeAddKey => pc \in BeforeAddKey,
           pc' \in Answered => registered,
           pc' \notin Stopping => pc \notin Stopping
    PROVE  RegistrationInv'
<1>1. failure' = failure /\ sent' = sent
  BY DEF remote
<1>2. registered' = registered
  BY DEF remote
<1>3. ClassTellsRegistration'
  <2>1. failure.class \in EarlyClasses => "addKey" \notin sent /\ ~registered'
    BY <1>2, Zenon DEF RegistrationInv, ClassTellsRegistration, EarlyClasses
  <2>2. failure.class \in LateClasses => registered'
    BY <1>2, Zenon DEF RegistrationInv, ClassTellsRegistration, LateClasses
  <2> QED BY <1>1, <2>1, <2>2 DEF ClassTellsRegistration, EarlyClasses, LateClasses
<1>4. registered' => "addKey" \in sent'
  BY <1>1, <1>2, Zenon DEF RegistrationInv
<1>6. pc' \in Answered => registered'
  BY <1>2, Zenon
<1>5. /\ "addKey" \in sent' => pc' \notin BeforeAddKey
      /\ pc' \notin Stopping => failure' = NoFailure
  BY <1>1 DEF RegistrationInv
<1> QED BY <1>3, <1>4, <1>5, <1>6, Zenon DEF RegistrationInv

\* Every step keeps RegistrationInv: one case per action.
LEMMA RegistrationStep == TypeOK /\ RegistrationInv /\ [Next]_vars => RegistrationInv'
<1> SUFFICES ASSUME TypeOK, RegistrationInv, [Next]_vars PROVE RegistrationInv'
  OBVIOUS
<1> USE DEF outcome
<1>f. \A c, d : /\ constrainedFailureFor(c).class = c
                /\ constrainedFailureWithDetail(c, d).class = c
  BY DEF constrainedFailureFor, constrainedFailureWithDetail
<1>p. pc \in BeforeAddKey => "addKey" \notin sent
  BY DEF RegistrationInv
<1>q. pc \in Answered => registered
  BY Zenon DEF RegistrationInv
<1>c. /\ contextClass \notin EarlyClasses \cup LateClasses
      /\ "internal_failure" \notin EarlyClasses \cup LateClasses
  BY DEF contextClass, EarlyClasses, LateClasses
<1>g. ASSUME NEW rem, NEW l, NEW t,
             Admit(rem, \/ Block(l, t) /\ UNCHANGED outcome
                        \/ Fail(constrainedFailureFor("internal_failure"))),
             UNCHANGED remote, pc \notin Stopping,
             l \in BeforeAddKey => pc \in BeforeAddKey,
             l \in Answered => registered
      PROVE  RegistrationInv'
  <2>1. CASE Fail(constrainedFailureFor(contextClass))
    BY <1>c, <1>f, <1>g, <2>1, RegistrationFail
  <2>2. CASE Fail(constrainedFailureFor("internal_failure"))
    BY <1>c, <1>f, <1>g, <2>2, RegistrationFail
  <2>3. CASE Block(l, t) /\ UNCHANGED outcome
    <3>1. pc' = l /\ UNCHANGED <<failure, remote>>
      BY <1>g, <2>3 DEF Block
    <3> QED BY <1>g, <3>1, RegistrationMove, Zenon
  <2> QED BY <1>g, <2>1, <2>2, <2>3 DEF Admit
<1>1. CASE RejectInvocation \/ RejectSocketMark
  <2>1. pc \in BeforeAddKey
    BY <1>1 DEF RejectInvocation, RejectSocketMark, BeforeAddKey
  <2> QED BY <1>1, <1>f, <1>p, <2>1, RegistrationFail
          DEF RejectInvocation, RejectSocketMark, LateClasses
<1>2. CASE StartRun
  <2>1. /\ Admit(AdmitRun, \/ Block("readPlan", ReadTimeout) /\ UNCHANGED outcome
                           \/ Fail(constrainedFailureFor("internal_failure")))
        /\ pc = "start" /\ UNCHANGED remote
    BY <1>2 DEF StartRun, Admit
  <2>2. pc \notin Stopping /\ pc \in BeforeAddKey /\ "readPlan" \notin Answered
    BY <2>1 DEF BeforeAddKey, Answered, Stopping
  <2> QED BY <1>g, <2>1, <2>2
<1>3. CASE Read
  <2>1. /\ pc \in BeforeAddKey \ Stopping /\ pc' \in BeforeAddKey
        /\ UNCHANGED <<failure, remote>>
    BY <1>3 DEF Read, ReadPlan, ReadCredentials, ReadPublicCA, ReadRegionalCA, Block, Go,
                BeforeAddKey, Stopping, Reading
  <2>2. pc' \notin Answered
    BY <2>1 DEF BeforeAddKey, Answered, Reading
  <2> QED BY <2>1, <2>2, RegistrationMove
<1>4. CASE ReadFails
  <2>1. pc \in BeforeAddKey /\ ReadFailure.class \notin LateClasses
    BY <1>4, <1>f DEF ReadFails, ReadFailure, BeforeAddKey, LateClasses
  <2> QED BY <1>4, <1>p, <2>1, RegistrationFail DEF ReadFails
<1>5. CASE Gate
  <2>1. CASE AdmitTokenRequest
    <3>1. Admit(AdmitToken, \/ Block("tokenDo", RequestTimeout) /\ UNCHANGED outcome
                            \/ Fail(constrainedFailureFor("internal_failure")))
      BY <2>1 DEF AdmitTokenRequest, Admit
    <3>2. pc \notin Stopping /\ pc \in BeforeAddKey /\ "tokenDo" \notin Answered /\ UNCHANGED remote
      BY <2>1 DEF AdmitTokenRequest, Stopping, BeforeAddKey, Answered
    <3> QED BY <1>g, <3>1, <3>2
  <2>2. CASE AdmitAddKeyRequest
    <3>1. pc \notin Stopping /\ "addKeyDo" \notin Answered \cup BeforeAddKey
      BY <2>2 DEF AdmitAddKeyRequest, Stopping, BeforeAddKey, Answered, Reading
    <3> QED BY <1>g, <2>2, <3>1 DEF AdmitAddKeyRequest
  <2>3. CASE AdmitConfigWrite
    <3>1. pc \notin Stopping /\ pc \in Answered /\ "writeConfig" \notin BeforeAddKey
      BY <2>3 DEF AdmitConfigWrite, Stopping, BeforeAddKey, Answered, Reading
    <3> QED BY <1>g, <1>q, <2>3, <3>1 DEF AdmitConfigWrite
  <2>4. CASE AdmitResultWrite
    <3>1. pc \notin Stopping /\ pc \in Answered /\ "writeResult" \notin BeforeAddKey
      BY <2>4 DEF AdmitResultWrite, Stopping, BeforeAddKey, Answered, Reading
    <3> QED BY <1>g, <1>q, <2>4, <3>1 DEF AdmitResultWrite
  <2> QED BY <1>5, <2>1, <2>2, <2>3, <2>4 DEF Gate
<1>6. CASE Exchange
  <2>1. CASE SendRequest
    <3>1. /\ pc' = pc /\ failure' = failure /\ sent \subseteq sent'
          /\ "addKey" \in sent' => "addKey" \in sent \/ pc = "addKeyDo"
      BY <2>1 DEF SendRequest, Request
    <3>2. registered' = registered
      BY <2>1 DEF SendRequest
    <3>3. failure' = NoFailure
      BY <2>1, <3>1 DEF SendRequest, RegistrationInv, Stopping
    <3>4. ClassTellsRegistration'
      BY <3>3 DEF NoFailure, ClassTellsRegistration
    <3>5. registered' => "addKey" \in sent'
      BY <3>1, <3>2, Zenon DEF RegistrationInv
    <3>6. "addKey" \in sent' => pc' \notin BeforeAddKey
      BY <3>1 DEF RegistrationInv, BeforeAddKey, Reading
    <3>7. pc' \in Answered => registered'
      BY <1>q, <3>1, <3>2, Zenon
    <3> QED BY <3>3, <3>4, <3>5, <3>6, <3>7, Zenon DEF RegistrationInv
  <2>2. /\ pc \in {"tokenDo", "tokenBody"} => "addKey" \notin sent /\ RequestClass \notin LateClasses
        /\ pc = "addKeyDo" => RequestClass \notin EarlyClasses \cup LateClasses
    BY <1>p DEF RequestClass, BeforeAddKey, EarlyClasses, LateClasses
  <2>3. CASE ConnectionRefused
    <3>1. /\ pc \in {"tokenDo", "addKeyDo"} /\ UNCHANGED remote
          /\ \E c \in {"invalid_trust", RequestClass} : \E d :
               Fail(constrainedFailureWithDetail(c, d))
      BY <2>3 DEF ConnectionRefused
    <3>2. "addKey" \notin sent
      BY <2>2, <2>3 DEF ConnectionRefused, Request
    <3>3. RequestClass \notin LateClasses /\ "invalid_trust" \notin LateClasses
      BY <2>2, <3>1 DEF LateClasses
    <3> QED BY <1>f, <3>1, <3>2, <3>3, RegistrationFail
  <2>4. CASE RequestFails
    <3>1. classifyNetworkError(RequestClass) \in {RequestClass, contextClass}
      BY DEF classifyNetworkError
    <3> QED BY <1>c, <1>f, <2>2, <2>4, <3>1, RegistrationFail DEF RequestFails
  <2>5. CASE ResponseArrives
    <3>1. CASE Fail(constrainedFailureWithDetail(RequestClass, "http_status"))
      BY <1>f, <2>2, <2>5, <3>1, RegistrationFail DEF ResponseArrives
    <3>2. CASE /\ pc' = IF pc = "tokenDo" THEN "tokenBody" ELSE "addKeyBody"
               /\ UNCHANGED <<opEnd, outcome>>
      <4>1. /\ pc \in {"tokenDo", "addKeyDo"} /\ UNCHANGED <<failure, remote>>
            /\ pc' \in BeforeAddKey => pc \in BeforeAddKey
            /\ pc' \notin Answered /\ pc \notin Stopping
        BY <2>5, <3>2 DEF ResponseArrives, BeforeAddKey, Answered, Stopping, Reading
      <4> QED BY <4>1, RegistrationMove
    <3> QED BY <2>5, <3>1, <3>2 DEF ResponseArrives
  <2>6. CASE BodyReadFails \/ BodyInvalid
    <3>1. "response_invalid" \notin EarlyClasses \cup LateClasses
      BY DEF EarlyClasses, LateClasses
    <3> QED BY <1>f, <2>6, <3>1, RegistrationFail DEF BodyReadFails, BodyInvalid
  <2>7. CASE TokenReceived
    <3>1. /\ UNCHANGED <<failure, remote>>
          /\ pc \in BeforeAddKey /\ pc' \notin Answered /\ pc \notin Stopping
      BY <2>7 DEF TokenReceived, Go, BeforeAddKey, Answered, Stopping
    <3> QED BY <3>1, RegistrationMove
  <2>8. CASE AddKeyReceived
    <3>1. PICK r \in AddKeyResults :
            /\ r.fieldsValid => registered
            /\ \/ /\ validateConstrainedAddKey(plan, r) # NoFailure
                  /\ Fail(validateConstrainedAddKey(plan, r))
               \/ /\ validateConstrainedAddKey(plan, r) = NoFailure
                  /\ Fail(constrainedFailureFor("endpoint_reused"))
               \/ /\ validateConstrainedAddKey(plan, r) = NoFailure
                  /\ Go("admitConfig") /\ UNCHANGED outcome
      BY <2>8 DEF AddKeyReceived
    <3>2. validateConstrainedAddKey(plan, r) # NoFailure =>
            validateConstrainedAddKey(plan, r).class \notin EarlyClasses \cup LateClasses
      BY <1>f DEF validateConstrainedAddKey, EarlyClasses, LateClasses
    <3>3. validateConstrainedAddKey(plan, r) = NoFailure => r.fieldsValid
      BY DEF validateConstrainedAddKey, NoFailure, constrainedFailureWithDetail
    <3>4. CASE /\ validateConstrainedAddKey(plan, r) # NoFailure
               /\ Fail(validateConstrainedAddKey(plan, r))
      BY <2>8, <3>2, <3>4, RegistrationFail DEF AddKeyReceived
    <3>5. CASE /\ validateConstrainedAddKey(plan, r) = NoFailure
               /\ Fail(constrainedFailureFor("endpoint_reused"))
      <4>1. registered
        BY <3>1, <3>3, <3>5, Zenon
      <4> QED BY <1>f, <2>8, <3>5, <4>1, RegistrationFail DEF AddKeyReceived, EarlyClasses
    <3>6. CASE /\ validateConstrainedAddKey(plan, r) = NoFailure
               /\ Go("admitConfig") /\ UNCHANGED outcome
      <4>1. registered
        BY <3>1, <3>3, <3>6, Zenon
      <4>2. /\ UNCHANGED <<failure, remote>>
            /\ pc' \notin BeforeAddKey /\ pc \notin Stopping
        BY <2>8, <3>6 DEF AddKeyReceived, Go, BeforeAddKey, Stopping, Reading
      <4> QED BY <4>1, <4>2, RegistrationMove
    <3> QED BY <3>1, <3>4, <3>5, <3>6
  <2> QED BY <1>6, <2>1, <2>3, <2>4, <2>5, <2>6, <2>7, <2>8 DEF Exchange
<1>7. CASE Write
  <2>1. ASSUME AfterWrite \/ AfterWriteError, UNCHANGED remote
        PROVE  RegistrationInv'
    <3>1. ASSUME NEW c \in LateClasses, Fail(constrainedFailureFor(c)), pc \in Answered
          PROVE  RegistrationInv'
      <4>1. c \notin EarlyClasses
        BY DEF EarlyClasses, LateClasses
      <4> QED BY <1>f, <1>q, <2>1, <3>1, <4>1, RegistrationFail
    <3>2. CASE pc = "writeConfig" /\ Go("admitResult") /\ UNCHANGED outcome
      <4>1. /\ UNCHANGED <<failure, remote>>
            /\ pc' \notin BeforeAddKey /\ pc \in Answered /\ pc \notin Stopping
        BY <2>1, <3>2 DEF Go, BeforeAddKey, Answered, Stopping, Reading
      <4> QED BY <1>q, <4>1, RegistrationMove
    <3>3. CASE \E c : constrainedExit(c)
      <4>1. /\ UNCHANGED <<failure, remote>>
            /\ pc' \notin BeforeAddKey /\ pc' \notin Answered /\ pc' \in Stopping
        BY <2>1, <3>3 DEF constrainedExit, Go, BeforeAddKey, Answered, Stopping, Reading
      <4> QED BY <4>1, RegistrationMove
    <3> QED BY <2>1, <3>1, <3>2, <3>3 DEF AfterWrite, AfterWriteError, LateClasses, Answered
  <2>2. CASE WriteCompletes \/ WriteBreaks \/ WriteTimesOut
    BY <2>1, <2>2 DEF WriteCompletes, WriteBreaks, WriteTimesOut
  <2>3. CASE WritePartially \/ LateWrite
    <3>1. UNCHANGED <<pc, failure, remote>>
      BY <2>3 DEF WritePartially, LateWrite
    <3> QED BY <1>q, <3>1, RegistrationMove
  <2> QED BY <1>7, <2>2, <2>3 DEF Write
<1>8. CASE StartWriteFailure \/ ExitProcess
  <2>1. /\ UNCHANGED <<failure, remote>>
        /\ pc' \in Stopping /\ pc' \notin BeforeAddKey /\ pc' \notin Answered
    BY <1>8 DEF StartWriteFailure, ExitProcess, constrainedExit, Block, Go, Stopping,
                BeforeAddKey, Answered, Reading
  <2> QED BY <2>1, RegistrationMove
<1>9. CASE Environment
  <2>1. CASE Interrupt \/ ContextExpires \/ LauncherCloses \/ Tick \/ Stall
    <3>1. UNCHANGED <<pc, failure, remote>>
      BY <2>1 DEF Interrupt, ContextExpires, LauncherCloses, Tick, Stall
    <3> QED BY <1>q, <3>1, RegistrationMove
  <2>2. CASE PIARegisters
    <3>1. UNCHANGED <<pc, failure, sent>> /\ "addKey" \in sent
      BY <2>2, Zenon DEF PIARegisters
    <3>2. registered'
      BY <2>2, Zenon DEF PIARegisters
    <3>3. failure.class \notin EarlyClasses
      BY <3>1, Zenon DEF RegistrationInv, ClassTellsRegistration, EarlyClasses
    <3>4. ClassTellsRegistration'
      BY <3>1, <3>2, <3>3, Zenon DEF ClassTellsRegistration, EarlyClasses
    <3> QED BY <3>1, <3>2, <3>4, Zenon DEF RegistrationInv
  <2> QED BY <1>9, <2>1, <2>2 DEF Environment
<1>10. CASE UNCHANGED vars
  <2>1. UNCHANGED <<pc, failure, remote>>
    BY <1>10 DEF vars
  <2> QED BY <1>q, <2>1, RegistrationMove
<1> QED
  BY <1>1, <1>2, <1>3, <1>4, <1>5, <1>6, <1>7, <1>8, <1>9, <1>10 DEF Next, Terminated

\* The run starts with nothing sent.
LEMMA RegistrationInit == Init => RegistrationInv
<1> SUFFICES ASSUME Init PROVE RegistrationInv
  OBVIOUS
<1>1. failure = NoFailure /\ pc = "start" /\ sent = {}
  BY DEF Init
<1>2. ~registered
  BY Zenon DEF Init
<1>3. pc \notin Answered
  BY <1>1 DEF Answered
<1> QED BY <1>1, <1>2, <1>3, NothingToTell, Zenon DEF RegistrationInv

\* The class of a failure record tells the launcher whether the run may have left
\* a key registered at PIA, also when PIA registers it behind the runner's back.
THEOREM ClassesTellRegistration == Spec => []ClassTellsRegistration
<1>1. RegistrationInv => ClassTellsRegistration
  BY DEF RegistrationInv
<1> QED BY <1>1, RegistrationInit, RegistrationStep, TypeCorrect, PTL DEF Spec
-----------------------------------------------------------------------------
(***************************************************************************)
(* What a success record says.  The record may come from a goroutine left   *)
(* behind, so every body still pending has to be as true as those read.     *)
(***************************************************************************)

\* An endpoint and a gateway that the run's plan allows to be reported.
Fits(e, v) ==
    /\ e \in Endpoints \ {plan.excluded}
    /\ v = IF plan.pf THEN "ipv4" ELSE "empty"

Truthful(b) ==
    b.kind = "success" =>
        /\ config = "full"
        /\ registered
        /\ Fits(b.endpoint, b.gateway)

Recorded == {result[i] : i \in 1..Len(result)}

DeliveredInv ==
    /\ \A b \in Recorded \cup pending : Truthful(b)
    /\ pc \in Answered => Fits(addKey.endpoint, addKey.vip)
    /\ pc \in {"admitResult", "writeResult"} => config = "full"

\* The body of the write in progress is true when it is written, or will be
\* when an abandoned writer gets to it.
LEMMA BodyTruthful ==
    ASSUME RegistrationInv, DeliveredInv, pc \in Writing
    PROVE  Truthful(Body)
<1>1. CASE pc = "writeResult"
  <2>1. config = "full" /\ pc \in Answered
    BY <1>1 DEF DeliveredInv, Answered
  <2>2. registered
    BY <2>1, Zenon DEF RegistrationInv
  <2>3. Fits(addKey.endpoint, addKey.vip)
    BY <2>1, Zenon DEF DeliveredInv
  <2>4. Fits(addKey.endpoint, IF plan.pf THEN addKey.vip ELSE "empty")
    BY <2>3, Zenon DEF Fits
  <2>5. /\ Body.endpoint = addKey.endpoint
        /\ Body.gateway = IF plan.pf THEN addKey.vip ELSE "empty"
    BY <1>1 DEF Body, SuccessBody
  <2> QED BY <2>1, <2>2, <2>4, <2>5, Zenon DEF Truthful
<1>2. CASE pc # "writeResult"
  <2>1. Body.kind # "success"
    BY <1>2 DEF Body, ConfigBody, FailureBody
  <2> QED BY <2>1, Zenon DEF Truthful
<1> QED BY <1>1, <1>2

\* A true body stays true: the config pipe stays full, the key registered.
LEMMA TruthKept ==
    ASSUME NEW b, Truthful(b), UNCHANGED plan,
           config = "full" => config' = "full", registered => registered'
    PROVE  Truthful(b)'
<1>1. Fits(b.endpoint, b.gateway) => Fits(b.endpoint, b.gateway)'
  BY Zenon DEF Fits
<1> QED BY <1>1, Zenon DEF Truthful

\* Only true bodies may be added to the pipe or to the abandoned writes.
LEMMA DeliveredMove ==
    ASSUME DeliveredInv, UNCHANGED plan,
           config = "full" => config' = "full", registered => registered',
           \A b \in (Recorded' \cup pending') \ (Recorded \cup pending) : Truthful(b),
           pc' \in Answered => Fits(addKey'.endpoint, addKey'.vip),
           pc' \in {"admitResult", "writeResult"} => config' = "full"
    PROVE  DeliveredInv'
<1>1. ASSUME NEW b \in Recorded' \cup pending' PROVE Truthful(b)'
  <2>1. Truthful(b)
    BY <1>1, Zenon DEF DeliveredInv
  <2> QED BY <2>1, TruthKept, Zenon
<1>2. pc' \in Answered => Fits(addKey.endpoint, addKey.vip)'
  BY Zenon DEF Fits
<1> QED BY <1>1, <1>2, Zenon DEF DeliveredInv

\* What delivering a body changes: the config pipe fills, or a record appears.
LEMMA RecordedDeliver ==
    ASSUME TypeOK, NEW b \in Bodies, Deliver(b)
    PROVE  /\ config = "full" => config' = "full"
           /\ b.kind = "config" => config' = "full"
           /\ Recorded' \subseteq Recorded \cup {b}
<1>1. CASE b.kind = "config"
  BY <1>1 DEF Deliver, Recorded
<1>2. CASE b.kind # "config"
  <2>1. result' = Append(result, b) /\ config' = config /\ result \in Seq(Bodies)
    BY <1>2 DEF Deliver, TypeOK
  <2>2. \A i \in 1..Len(result') :
        \/ i \in 1..Len(result) /\ result'[i] = result[i]
        \/ result'[i] = b
    BY <2>1
  <2> QED BY <1>2, <2>1, <2>2 DEF Recorded
<1> QED BY <1>1, <1>2

\* SuccessMeansDelivered speaks of positions, the invariant of bodies.
LEMMA TruthfulRecords ==
    ASSUME DeliveredInv
    PROVE  SuccessMeansDelivered
<1> SUFFICES ASSUME NEW i \in 1..Len(result), result[i].kind = "success"
             PROVE  /\ config = "full"
                    /\ registered
                    /\ result[i].endpoint \in Endpoints \ {plan.excluded}
                    /\ result[i].gateway = IF plan.pf THEN "ipv4" ELSE "empty"
  BY Zenon DEF SuccessMeansDelivered
<1>1. result[i] \in Recorded
  BY DEF Recorded
<1> QED BY <1>1, Zenon DEF DeliveredInv, Truthful, Fits

\* Every step keeps DeliveredInv: the steps that leave the pipes alone, then the
\* answer, the writes and the plan.
LEMMA DeliveredStep ==
    TypeOK /\ ResultInv /\ RegistrationInv /\ DeliveredInv /\ [Next]_vars => DeliveredInv'
<1> SUFFICES ASSUME TypeOK, ResultInv, RegistrationInv, DeliveredInv, [Next]_vars
             PROVE  DeliveredInv'
  OBVIOUS
<1>a. pc \in Answered => Fits(addKey.endpoint, addKey.vip)
  BY Zenon DEF DeliveredInv
<1>m. ASSUME UNCHANGED <<result, pending, plan, addKey>>,
             config = "full" => config' = "full", registered => registered',
             pc' \in Answered => pc \in Answered,
             pc' \in {"admitResult", "writeResult"} => config' = "full"
      PROVE  DeliveredInv'
  <2>1. \A b \in (Recorded' \cup pending') \ (Recorded \cup pending) : Truthful(b)
    BY <1>m DEF Recorded
  <2>2. UNCHANGED <<plan, addKey>>
    BY <1>m
  <2>3. pc' \in Answered => Fits(addKey'.endpoint, addKey'.vip)
    BY <1>a, <1>m, <2>2, Zenon
  <2> QED BY <1>m, <2>1, <2>2, <2>3, DeliveredMove, Zenon
<1>q. ASSUME UNCHANGED <<result, pending, plan, addKey, config, remote>>,
             pc' \in Answered => pc' = pc
      PROVE  DeliveredInv'
  <2>1. UNCHANGED config /\ pc' \in {"admitResult", "writeResult"} => pc' = pc
    BY <1>q DEF Answered
  <2>2. registered => registered'
    BY <1>q, Zenon DEF remote
  <2>3. pc' \in {"admitResult", "writeResult"} => config' = "full"
    BY <1>q, <2>1 DEF DeliveredInv
  <2> QED BY <1>m, <1>q, <2>2, <2>3
<1>f. ASSUME NEW r, Fail(r), UNCHANGED <<result, pending, plan, addKey, config, remote>>
      PROVE  DeliveredInv'
  <2>1. pc' \notin Answered
    BY <1>f DEF Fail, Go, Answered
  <2> QED BY <1>f, <1>q, <2>1
<1>1. CASE RejectInvocation \/ RejectSocketMark \/ ReadFails
  BY <1>1, <1>f DEF RejectInvocation, RejectSocketMark, ReadFails, inputs, pipes
<1>2. CASE StartRun
  BY <1>2, <1>q DEF StartRun, Admit, Fail, Block, Go, pipes, Answered
<1>3. CASE ReadPlan
  <2>1. pc = "readPlan" /\ pc' = "readCredentials" /\ UNCHANGED <<result, pending>>
    BY <1>3 DEF ReadPlan, Block, pipes
  <2>2. Recorded' = {} /\ \A b \in pending' : b.kind # "success"
    BY <2>1 DEF ResultInv, Recorded, FileOf
  <2>3. ASSUME NEW b \in Recorded' \cup pending' PROVE Truthful(b)'
    BY <2>2, Zenon DEF Truthful
  <2>4. pc' \notin Answered \cup {"admitResult", "writeResult"}
    BY <2>1 DEF Answered
  <2> QED BY <2>3, <2>4, Zenon DEF DeliveredInv
<1>4. CASE ReadCredentials \/ ReadPublicCA \/ ReadRegionalCA
  BY <1>4, <1>q DEF ReadCredentials, ReadPublicCA, ReadRegionalCA, Block, Go, inputs, pipes, Answered
<1>5. CASE Gate
  <2>1. CASE AdmitTokenRequest \/ AdmitAddKeyRequest
    BY <2>1, <1>q
       DEF AdmitTokenRequest, AdmitAddKeyRequest, Admit, Fail, Block, Go, inputs, pipes, Answered
  <2>2. CASE AdmitConfigWrite \/ AdmitResultWrite
    <3>1. /\ UNCHANGED <<result, pending, plan, addKey, config, remote>> /\ pc \in Answered
          /\ pc' = "writeResult" => pc = "admitResult"
          /\ pc' # "admitResult"
      BY <2>2 DEF AdmitConfigWrite, AdmitResultWrite, Admit, Fail, Block, Go, inputs, pipes, Answered
    <3>2. pc' \in {"admitResult", "writeResult"} => config' = "full"
      BY <3>1 DEF DeliveredInv
    <3>3. registered => registered'
      BY <3>1, Zenon DEF remote
    <3> QED BY <1>m, <3>1, <3>2, <3>3
  <2> QED BY <1>5, <2>1, <2>2 DEF Gate
<1>6. CASE Exchange
  <2>1. CASE SendRequest
    <3>1. UNCHANGED <<pc, result, pending, plan, addKey, config>>
      BY <2>1 DEF SendRequest, inputs, pipes
    <3>2. registered => registered'
      BY <2>1, Zenon DEF SendRequest
    <3>3. pc' \in {"admitResult", "writeResult"} => config' = "full"
      BY <3>1 DEF DeliveredInv
    <3> QED BY <1>m, <3>1, <3>2, <3>3
  <2>2. CASE ConnectionRefused \/ RequestFails \/ BodyReadFails \/ BodyInvalid
    BY <2>2, <1>f
       DEF ConnectionRefused, RequestFails, BodyReadFails, BodyInvalid, inputs, pipes
  <2>3. CASE ResponseArrives \/ TokenReceived
    BY <2>3, <1>q DEF ResponseArrives, TokenReceived, Fail, Go, inputs, pipes, Answered
  <2>4. CASE AddKeyReceived
    <3>1. UNCHANGED <<result, pending, plan, config, remote>>
      BY <2>4 DEF AddKeyReceived, pipes
    <3>2. PICK r \in AddKeyResults :
            \/ /\ Fail(validateConstrainedAddKey(plan, r)) \/ Fail(constrainedFailureFor("endpoint_reused"))
               /\ UNCHANGED addKey
            \/ /\ validateConstrainedAddKey(plan, r) = NoFailure
               /\ ~endpointReused(plan, r)
               /\ addKey' = [endpoint |-> r.endpoint, vip |-> r.vip]
               /\ Go("admitConfig")
      BY <2>4 DEF AddKeyReceived
    <3>3. CASE /\ Fail(validateConstrainedAddKey(plan, r)) \/ Fail(constrainedFailureFor("endpoint_reused"))
               /\ UNCHANGED addKey
      BY <1>f, <3>1, <3>3
    <3>4. CASE /\ validateConstrainedAddKey(plan, r) = NoFailure
               /\ ~endpointReused(plan, r)
               /\ addKey' = [endpoint |-> r.endpoint, vip |-> r.vip]
               /\ Go("admitConfig")
      <4>1. r.endpoint \in Endpoints
        BY DEF AddKeyResults
      <4>2. r.endpoint # plan.excluded
        BY <3>4, <4>1, ConstantTypes DEF endpointReused
      <4>3. r.vip = IF plan.pf THEN "ipv4" ELSE "empty"
        BY <3>4 DEF validateConstrainedAddKey, NoFailure, constrainedFailureWithDetail
      <4>4. Fits(r.endpoint, r.vip)
        BY <4>1, <4>2, <4>3, Zenon DEF Fits
      <4>5. addKey'.endpoint = r.endpoint /\ addKey'.vip = r.vip /\ pc' = "admitConfig"
        BY <3>4 DEF Go
      <4>6. \A b \in (Recorded' \cup pending') \ (Recorded \cup pending) : Truthful(b)
        BY <3>1 DEF Recorded
      <4>7. UNCHANGED plan /\ config' = config /\ pc' \notin {"admitResult", "writeResult"}
        BY <3>1, <4>5
      <4>8. registered => registered'
        BY <3>1, Zenon DEF remote
      <4> QED BY <4>4, <4>5, <4>6, <4>7, <4>8, DeliveredMove, Zenon
    <3> QED BY <3>2, <3>3, <3>4
  <2> QED BY <1>6, <2>1, <2>2, <2>3, <2>4 DEF Exchange
<1>7. CASE Write
  <2>1. CASE WritePartially
    <3>1. UNCHANGED <<pc, result, pending, plan, addKey, remote>> /\ config # "full"
      BY <2>1 DEF WritePartially, inputs
    <3>2. registered => registered'
      BY <3>1, Zenon DEF remote
    <3>3. pc' \notin {"admitResult", "writeResult"}
      BY <3>1 DEF DeliveredInv
    <3> QED BY <1>m, <3>1, <3>2, <3>3
  <2>2. CASE WriteBreaks
    BY <2>2, <1>q DEF WriteBreaks, AfterWriteError, constrainedExit, Fail, Go, inputs, pipes, Answered
  <2>3. CASE WriteTimesOut
    <3>1. /\ UNCHANGED <<result, plan, config, remote>> /\ pc \in Writing
          /\ pending' \subseteq pending \cup {Body}
          /\ pc' \notin Answered \cup {"admitResult", "writeResult"}
      BY <2>3 DEF WriteTimesOut, AfterWriteError, constrainedExit, Fail, Go, inputs, Answered
    <3>2. \A b \in (Recorded' \cup pending') \ (Recorded \cup pending) : Truthful(b)
      BY <3>1, BodyTruthful DEF Recorded
    <3>3. registered => registered'
      BY <3>1, Zenon DEF remote
    <3>4. UNCHANGED plan /\ config' = config
      BY <3>1
    <3> QED BY <3>1, <3>2, <3>3, <3>4, DeliveredMove, Zenon
  <2>4. CASE WriteCompletes
    <3>1. /\ UNCHANGED <<pending, plan, addKey, remote>> /\ pc \in Writing /\ Deliver(Body)
          /\ pc' \in Answered => pc \in Answered
          /\ pc' \in {"admitResult", "writeResult"} => pc = "writeConfig"
      BY <2>4 DEF WriteCompletes, AfterWrite, constrainedExit, Go, inputs, Answered
    <3>2. /\ config = "full" => config' = "full"
          /\ Body.kind = "config" => config' = "full"
          /\ Recorded' \subseteq Recorded \cup {Body}
      BY <3>1, BodyTypes, RecordedDeliver
    <3>3. \A b \in (Recorded' \cup pending') \ (Recorded \cup pending) : Truthful(b)
      BY <3>1, <3>2, BodyTruthful
    <3>4. pc' \in {"admitResult", "writeResult"} => config' = "full"
      BY <3>1, <3>2 DEF Body, ConfigBody
    <3>5. registered => registered'
      BY <3>1, Zenon DEF remote
    <3>6. UNCHANGED plan /\ UNCHANGED addKey
      BY <3>1
    <3> QED BY <1>a, <3>1, <3>2, <3>3, <3>4, <3>5, <3>6, DeliveredMove, Zenon
  <2>5. CASE LateWrite
    <3>1. PICK b \in pending : Deliver(b) /\ pending' = pending \ {b}
      BY <2>5 DEF LateWrite
    <3>2. UNCHANGED <<pc, plan, addKey, remote>> /\ b \in Bodies
      BY <2>5 DEF LateWrite, inputs, TypeOK
    <3>3. (config = "full" => config' = "full") /\ Recorded' \subseteq Recorded \cup {b}
      BY <3>1, <3>2, RecordedDeliver
    <3>4. \A c \in (Recorded' \cup pending') \ (Recorded \cup pending) : Truthful(c)
      BY <3>1, <3>3
    <3>5. pc' \in {"admitResult", "writeResult"} => config' = "full"
      BY <3>2, <3>3 DEF DeliveredInv
    <3>6. registered => registered'
      BY <3>2, Zenon DEF remote
    <3>7. UNCHANGED plan /\ UNCHANGED addKey /\ UNCHANGED pc
      BY <3>2
    <3> QED BY <1>a, <3>3, <3>4, <3>5, <3>6, <3>7, DeliveredMove, Zenon
  <2> QED BY <1>7, <2>1, <2>2, <2>3, <2>4, <2>5 DEF Write
<1>8. CASE StartWriteFailure \/ ExitProcess
  BY <1>8, <1>q
     DEF StartWriteFailure, ExitProcess, constrainedExit, Block, Go, inputs, pipes, Answered
<1>9. CASE Environment
  <2>1. CASE Interrupt \/ ContextExpires \/ LauncherCloses \/ Tick \/ Stall
    BY <2>1, <1>q DEF Interrupt, ContextExpires, LauncherCloses, Tick, Stall, inputs, pipes
  <2>2. CASE PIARegisters
    <3>1. UNCHANGED <<pc, result, pending, plan, addKey, config>>
      BY <2>2, Zenon DEF PIARegisters, inputs, pipes
    <3>2. registered'
      BY <2>2, Zenon DEF PIARegisters
    <3>3. pc' \in {"admitResult", "writeResult"} => config' = "full"
      BY <3>1 DEF DeliveredInv
    <3> QED BY <1>m, <3>1, <3>2, <3>3
  <2> QED BY <1>9, <2>1, <2>2 DEF Environment
<1>10. CASE UNCHANGED vars
  BY <1>10, <1>q DEF vars, inputs, pipes
<1> QED
  BY <1>1, <1>2, <1>3, <1>4, <1>5, <1>6, <1>7, <1>8, <1>9, <1>10 DEF Next, Read, Terminated

\* The run starts with empty pipes.
LEMMA OutcomeInit == Init => ResultInv /\ DeliveredInv
<1> SUFFICES ASSUME Init PROVE ResultInv /\ DeliveredInv
  OBVIOUS
<1>1. pc = "start" /\ result = <<>> /\ pending = {} /\ closed = {}
  BY DEF Init
<1>2. pc \notin Answered \cup {"admitResult", "writeResult"}
  BY <1>1 DEF Answered
<1>3. Recorded = {}
  BY <1>1 DEF Recorded
<1>4. DeliveredInv
  BY <1>1, <1>2, <1>3, Zenon DEF DeliveredInv
<1> QED BY <1>1, <1>4 DEF ResultInv, OneResultRecord

\* A success record is true whenever the launcher reads it, a late one included:
\* the whole configuration is there, the key is registered, the endpoint is not
\* the excluded one and the gateway is what the plan asked for.
THEOREM SuccessIsDelivered == Spec => []SuccessMeansDelivered
<1> QED
  BY OutcomeInit, RegistrationInit, TruthfulRecords, ResultStep, RegistrationStep, DeliveredStep, TypeCorrect, PTL
     DEF Spec
-----------------------------------------------------------------------------
(***************************************************************************)
(* The exit.  ExitMatchesResult looks at the process when it is gone; the   *)
(* invariant says the same from the moment the exit is decided on, when an  *)
(* abandoned writer could still change the pipe.                            *)
(***************************************************************************)
ExitAgrees ==
    /\ Len(result) = 1
    /\ IF exit = "ok"
       THEN result[1].kind = "success"
       ELSE /\ result[1].kind = "failure"
            /\ result[1].reason.class = exit

ExitInv ==
    pc \in {"exiting", "done"} /\ exit # "result_write_failed" => ExitAgrees

\* Nothing changes about a decided exit, or the run is still on its way to it.
LEMMA ExitMove ==
    ASSUME ExitInv,
           \/ UNCHANGED <<exit, result>> /\ (pc' \in {"exiting", "done"} => pc \in {"exiting", "done"})
           \/ pc' \notin {"exiting", "done"}
           \/ exit' = "result_write_failed"
    PROVE  ExitInv'
BY DEF ExitInv, ExitAgrees

\* Every step keeps ExitInv: the exit is decided behind the write of a record,
\* and the record it leaves is the only one.
LEMMA ExitStep == TypeOK /\ ResultInv /\ ExitInv /\ [Next]_vars => ExitInv'
<1> SUFFICES ASSUME TypeOK, ResultInv, ExitInv, [Next]_vars PROVE ExitInv'
  OBVIOUS
<1>f. ASSUME NEW r, Fail(r) PROVE ExitInv'
  BY <1>f, ExitMove DEF Fail, Go
<1>b. ASSUME NEW l \in Blocked, NEW t, Block(l, t) PROVE ExitInv'
  BY <1>b, ExitMove DEF Block, Blocked, Reading, Requesting, Writing
<1>1. CASE RejectInvocation \/ RejectSocketMark \/ ReadFails
  BY <1>1, <1>f DEF RejectInvocation, RejectSocketMark, ReadFails
<1>2. CASE StartRun \/ ReadPlan \/ ReadCredentials \/ ReadPublicCA
  BY <1>2, <1>b, <1>f
     DEF StartRun, Admit, ReadPlan, ReadCredentials, ReadPublicCA, Blocked, Reading
<1>3. CASE ReadRegionalCA \/ TokenReceived
  BY <1>3, ExitMove DEF ReadRegionalCA, TokenReceived, Go
<1>4. CASE Gate
  <2>1. {"tokenDo", "addKeyDo", "writeConfig", "writeResult"} \subseteq Blocked
    BY DEF Blocked, Requesting, Writing
  <2> QED BY <1>4, <1>b, <1>f, <2>1
          DEF Gate, AdmitTokenRequest, AdmitAddKeyRequest, AdmitConfigWrite, AdmitResultWrite, Admit
<1>5. CASE SendRequest \/ ResponseArrives
  BY <1>5, <1>f, ExitMove DEF SendRequest, ResponseArrives
<1>6. CASE ConnectionRefused \/ RequestFails \/ BodyReadFails \/ BodyInvalid
  BY <1>6, <1>f DEF ConnectionRefused, RequestFails, BodyReadFails, BodyInvalid
<1>7. CASE AddKeyReceived
  <2>1. (\E r : Fail(r)) \/ Go("admitConfig")
    BY <1>7 DEF AddKeyReceived
  <2> QED BY <1>f, <2>1, ExitMove DEF Go
<1>8. CASE Write
  <2>1. CASE WritePartially
    BY <2>1, ExitMove DEF WritePartially, outcome
  <2>2. CASE WriteBreaks \/ WriteTimesOut
    BY <2>2, <1>f, ExitMove DEF WriteBreaks, WriteTimesOut, AfterWriteError, constrainedExit
  <2>3. CASE WriteCompletes
    <3>1. CASE pc = "writeConfig"
      BY <2>3, <3>1, ExitMove DEF WriteCompletes, AfterWrite, Go
    <3>2. CASE pc # "writeConfig"
      <4>1. /\ Body = IF pc = "writeResult" THEN SuccessBody ELSE FailureBody
            /\ pc \in {"writeResult", "writeFailure"}
        BY <2>3, <3>2 DEF Body, WriteCompletes, AfterWrite
      <4>2. Body.kind # "config" /\ result = <<>>
        BY <4>1 DEF SuccessBody, FailureBody, ResultInv
      <4>3. result' = <<Body>>
        BY <2>3, <4>2 DEF WriteCompletes, Deliver
      <4>4. CASE pc = "writeResult"
        <5>1. exit' = "ok" /\ Body.kind = "success"
          BY <2>3, <4>1, <4>4 DEF WriteCompletes, AfterWrite, constrainedExit, SuccessBody
        <5> QED BY <4>3, <5>1 DEF ExitInv, ExitAgrees
      <4>5. CASE pc = "writeFailure"
        <5>1. /\ exit' = failure.class /\ Body.kind = "failure"
              /\ Body.reason.class = failure.class
          BY <2>3, <4>1, <4>5 DEF WriteCompletes, AfterWrite, constrainedExit, FailureBody
        <5>2. failure.class # "ok"
          BY DEF TypeOK, Reasons, Classes
        <5> QED BY <4>3, <5>1, <5>2 DEF ExitInv, ExitAgrees
      <4> QED BY <4>1, <4>4, <4>5
    <3> QED BY <3>1, <3>2
  <2>4. CASE LateWrite
    <3>1. PICK b \in pending : Deliver(b)
      BY <2>4 DEF LateWrite
    <3>2. UNCHANGED <<pc, exit>>
      BY <2>4 DEF LateWrite, outcome
    <3>3. CASE FileOf(b) = "config"
      BY <3>1, <3>2, <3>3, ExitMove DEF Deliver, FileOf
    <3>4. CASE FileOf(b) # "config"
      <4>1. result = <<>>
        BY <3>4 DEF ResultInv, FileOf
      <4>2. pc \in {"exiting", "done"} => exit = "result_write_failed"
        BY <4>1 DEF ExitInv, ExitAgrees
      <4> QED BY <3>2, <4>2, ExitMove
    <3> QED BY <3>3, <3>4
  <2> QED BY <1>8, <2>1, <2>2, <2>3, <2>4 DEF Write
<1>9. CASE StartWriteFailure
  <2>1. "writeFailure" \in Blocked
    BY DEF Blocked, Writing
  <2> QED BY <1>9, <1>b, <2>1, ExitMove DEF StartWriteFailure, constrainedExit
<1>10. CASE ExitProcess
  BY <1>10, ExitMove DEF ExitProcess, outcome, pipes
<1>11. CASE Environment
  BY <1>11, ExitMove
     DEF Environment, Interrupt, ContextExpires, LauncherCloses, PIARegisters, Tick, Stall,
         outcome, pipes
<1>12. CASE UNCHANGED vars
  BY <1>12, ExitMove DEF vars, outcome, pipes
<1> QED
  BY <1>1, <1>2, <1>3, <1>4, <1>5, <1>6, <1>7, <1>8, <1>9, <1>10, <1>11, <1>12
     DEF Next, Read, Exchange, Terminated

\* When the process is gone, its exit status and the result pipe agree: success
\* with a success record, a failure with the record of its class, and no record
\* (or a late success) only with result_write_failed.
THEOREM ExitAgreesWithResult == Spec => []ExitMatchesResult
<1>1. Init => ExitInv
  BY DEF Init, ExitInv
<1>2. ExitInv => ExitMatchesResult
  BY DEF ExitInv, ExitAgrees, ExitMatchesResult
<1> QED BY <1>1, <1>2, OutcomeInit, ResultStep, ExitStep, TypeCorrect, PTL DEF Spec

-----------------------------------------------------------------------------
(***************************************************************************)
(* The late success.  On a result pipe in non-blocking mode no writer is    *)
(* left behind, and a failed run leaves no success record.                  *)
(***************************************************************************)
PromptInv ==
    "result" \in nonblock =>
        /\ "result" \notin closed
        /\ \A b \in pending : FileOf(b) # "result"
        /\ \A i \in 1..Len(result) : result[i].kind # "failure" => exit = "ok"

\* A step that decides the exit, if any, does so on an empty result pipe.
LEMMA PromptMove ==
    ASSUME PromptInv, UNCHANGED <<nonblock, result, closed, pending>>,
           exit' = exit \/ result = <<>>
    PROVE  PromptInv'
BY DEF PromptInv

\* Every step keeps PromptInv.
LEMMA PromptStep == TypeOK /\ ResultInv /\ PromptInv /\ [Next]_vars => PromptInv'
<1> SUFFICES ASSUME TypeOK, ResultInv, PromptInv, [Next]_vars PROVE PromptInv'
  OBVIOUS
<1>1. CASE RejectInvocation \/ RejectSocketMark \/ StartRun \/ Read \/ ReadFails
  BY <1>1, PromptMove
     DEF RejectInvocation, RejectSocketMark, StartRun, Admit, Read, ReadPlan, ReadCredentials,
         ReadPublicCA, ReadRegionalCA, ReadFails, Fail, outcome, pipes
<1>2. CASE Gate
  BY <1>2, PromptMove
     DEF Gate, AdmitTokenRequest, AdmitAddKeyRequest, AdmitConfigWrite, AdmitResultWrite, Admit,
         Fail, outcome, pipes
<1>3. CASE Exchange
  BY <1>3, PromptMove
     DEF Exchange, SendRequest, ConnectionRefused, RequestFails, ResponseArrives, BodyReadFails,
         BodyInvalid, TokenReceived, AddKeyReceived, Fail, outcome, pipes
<1>4. CASE Write
  <2>1. pc \in Writing => result = <<>>
    BY DEF ResultInv, Writing
  <2>2. CASE WritePartially
    BY <2>2, PromptMove DEF WritePartially, outcome
  <2>3. CASE WriteBreaks
    BY <2>1, <2>3, PromptMove DEF WriteBreaks, pipes
  <2>4. CASE WriteTimesOut
    <3>1. result = <<>> /\ UNCHANGED <<nonblock, result>>
      BY <2>1, <2>4 DEF WriteTimesOut
    <3>2. "result" \in nonblock =>
            \/ UNCHANGED <<closed, pending>>
            \/ /\ FileOf(Body) # "result" /\ closed' = closed \cup {FileOf(Body)}
               /\ pending' = pending \cup {Body}
      BY <2>4 DEF WriteTimesOut
    <3> QED BY <3>1, <3>2 DEF PromptInv
  <2>5. CASE WriteCompletes
    <3>1. pc \in Writing /\ Deliver(Body) /\ UNCHANGED <<nonblock, closed, pending>>
      BY <2>5 DEF WriteCompletes
    <3>2. CASE pc = "writeConfig"
      <4>1. Body.kind = "config"
        BY <3>2 DEF Body, ConfigBody
      <4>2. UNCHANGED <<result, exit>>
        BY <2>5, <3>1, <3>2, <4>1 DEF WriteCompletes, AfterWrite, Deliver, outcome
      <4> QED BY <3>1, <4>2, PromptMove
    <3>3. CASE pc \in {"writeResult", "writeFailure"}
      <4>1. Body = IF pc = "writeResult" THEN SuccessBody ELSE FailureBody
        BY <3>3 DEF Body
      <4>2. Body.kind = IF pc = "writeResult" THEN "success" ELSE "failure"
        BY <4>1 DEF SuccessBody, FailureBody
      <4>3. result' = <<Body>>
        BY <2>1, <3>1, <3>3, <4>2 DEF Deliver
      <4>4. pc = "writeResult" => exit' = "ok"
        BY <2>5 DEF WriteCompletes, AfterWrite, constrainedExit
      <4>5. \A i \in 1..Len(result') : result'[i].kind # "failure" => exit' = "ok"
        BY <3>3, <4>2, <4>3, <4>4
      <4> QED BY <3>1, <4>5 DEF PromptInv
    <3> QED BY <3>1, <3>2, <3>3 DEF Writing
  <2>6. CASE LateWrite
    <3>1. PICK b \in pending : Deliver(b) /\ pending' = pending \ {b}
      BY <2>6 DEF LateWrite
    <3>2. UNCHANGED <<nonblock, closed, exit>>
      BY <2>6 DEF LateWrite, outcome
    <3>3. "result" \in nonblock => UNCHANGED result
      BY <3>1 DEF PromptInv, FileOf, Deliver
    <3> QED BY <3>1, <3>2, <3>3 DEF PromptInv
  <2> QED BY <1>4, <2>2, <2>3, <2>4, <2>5, <2>6 DEF Write
<1>5. CASE StartWriteFailure
  <2>1. pc = "fail" /\ UNCHANGED <<nonblock, result, closed, pending>>
    BY <1>5 DEF StartWriteFailure, pipes
  <2>2. CASE "result" \in nonblock
    <3>1. result = <<>>
      BY <2>1, <2>2 DEF PromptInv, ResultInv
    <3> QED BY <2>1, <3>1, PromptMove
  <2>3. CASE "result" \notin nonblock
    BY <2>1, <2>3 DEF PromptInv
  <2> QED BY <2>2, <2>3
<1>6. CASE ExitProcess \/ Environment \/ UNCHANGED vars
  BY <1>6, PromptMove
     DEF ExitProcess, Environment, Interrupt, ContextExpires, LauncherCloses, PIARegisters, Tick,
         Stall, outcome, pipes, vars
<1> QED BY <1>1, <1>2, <1>3, <1>4, <1>5, <1>6 DEF Next, Terminated

\* What the README says of a failed run holds whenever the launcher hands over
\* the result pipe in non-blocking mode: only on a blocking one can a success
\* record land behind the failure.
THEOREM NonblockingKeepsReadme ==
    Spec => [](("result" \in nonblock) => FailureLeavesNoSuccess)
<1>1. Init => PromptInv
  BY DEF Init, PromptInv
<1>2. PromptInv => ("result" \in nonblock => FailureLeavesNoSuccess)
  BY DEF PromptInv, FailureLeavesNoSuccess
<1> QED BY <1>1, <1>2, OutcomeInit, ResultStep, PromptStep, TypeCorrect, PTL DEF Spec

-----------------------------------------------------------------------------
(***************************************************************************)
(* The launcher's contract.  Kinds and Status are the launcher's view of    *)
(* the run, the mapping under which each step is one of LauncherContract's  *)
(* or changes nothing the launcher can see.                                 *)
(***************************************************************************)
Kinds == [i \in 1..Len(result) |-> result[i].kind]

Status == IF pc # "done" THEN "running"
          ELSE IF exit = "ok" THEN "succeeded" ELSE "failed"

\* An empty pipe and a pipe with one record, as the launcher sees them.
LEMMA KindsOf ==
    /\ result = <<>> => Kinds = <<>>
    /\ \A b : result = <<b>> => Kinds = <<b.kind>>
    /\ \A b : result' = <<b>> => Kinds' = <<b.kind>>
<1>1. \A b, s : s = <<b>> => [i \in 1..Len(s) |-> s[i].kind] = <<b.kind>>
  OBVIOUS
<1> QED BY <1>1 DEF Kinds

\* A step that leaves the pipes alone, and does not end the process, is invisible.
LEMMA Invisible ==
    ASSUME UNCHANGED <<config, result>>, pc # "done" \/ UNCHANGED exit,
           pc' = "done" <=> pc = "done"
    PROVE  UNCHANGED Launcher!contract
BY DEF Launcher!contract

\* Until the configuration is complete the launcher has read no success record.
LEMMA NoEarlySuccess ==
    ASSUME TypeOK, ResultInv, DeliveredInv, config # "full"
    PROVE  Kinds # <<"success">>
<1> SUFFICES ASSUME Kinds = <<"success">> PROVE FALSE
  OBVIOUS
<1>1. Len(result) = 1
  <2>1. Len(Kinds) = Len(result)
    BY DEF Kinds, TypeOK
  <2> QED BY <2>1
<1>2. result[1].kind = "success"
  BY <1>1 DEF Kinds
<1>3. result[1] \in Recorded
  BY <1>1 DEF Recorded
<1> QED BY <1>2, <1>3, Zenon DEF DeliveredInv, Truthful

\* Delivering a body is filling the config pipe, reporting the one record, or
\* nothing the launcher can see.
LEMMA DeliverVisible ==
    ASSUME TypeOK, ResultInv, DeliveredInv, NEW b \in Bodies, Deliver(b), Truthful(b),
           b.kind # "config" => result = <<>>,
           pc # "done", pc' # "done"
    PROVE  [Launcher!Next]_Launcher!contract
<1>s. Status = "running" /\ Status' = "running"
  BY DEF Status
<1>1. CASE b.kind = "config"
  <2>1. config' = "full" /\ result' = result
    BY <1>1 DEF Deliver
  <2>2. CASE config = "full"
    BY <2>1, <2>2, Invisible
  <2>3. CASE config # "full"
    <3>1. config \in {"empty", "partial"} /\ Kinds # <<"success">>
      BY <2>3, NoEarlySuccess DEF TypeOK
    <3>2. Launcher!FillConfig
      BY <1>s, <2>1, <3>1 DEF Launcher!FillConfig, Launcher!Filled, Kinds, Status
    <3> QED BY <3>2 DEF Launcher!Next
  <2> QED BY <2>2, <2>3
<1>2. CASE b.kind # "config"
  <2>1. result = <<>> /\ result' = <<b>> /\ config' = config
    BY <1>2 DEF Deliver
  <2>2. Kinds = <<>> /\ Kinds' = <<b.kind>>
    BY <2>1, KindsOf
  <2>3. CASE b.kind = "success"
    <3>1. config = "full"
      BY <2>3, Zenon DEF Truthful
    <3>2. Launcher!Succeed
      BY <1>s, <2>1, <2>2, <2>3, <3>1 DEF Launcher!Succeed, Kinds, Status
    <3> QED BY <3>2 DEF Launcher!Next
  <2>4. CASE b.kind = "failure"
    <3>1. Launcher!Report
      BY <1>s, <2>1, <2>2, <2>4 DEF Launcher!Report, Kinds, Status
    <3> QED BY <3>1 DEF Launcher!Next
  <2> QED BY <1>2, <2>3, <2>4 DEF Bodies
<1> QED BY <1>1, <1>2

\* Every step of the runner is a step of the contract or invisible to the
\* launcher: the writes and the exit are the steps it can see.
LEMMA ContractStep ==
    TypeOK /\ ResultInv /\ RegistrationInv /\ DeliveredInv /\ ExitInv /\ [Next]_vars
      => [Launcher!Next]_Launcher!contract
<1> SUFFICES ASSUME TypeOK, ResultInv, RegistrationInv, DeliveredInv, ExitInv, [Next]_vars
             PROVE  [Launcher!Next]_Launcher!contract
  OBVIOUS
<1>i. ASSUME UNCHANGED <<config, result>>, pc # "done", pc' # "done"
      PROVE  [Launcher!Next]_Launcher!contract
  BY <1>i, Invisible
<1> USE DEF pipes
<1>1. CASE RejectInvocation \/ RejectSocketMark \/ StartRun
  BY <1>1, <1>i DEF RejectInvocation, RejectSocketMark, StartRun, Admit, Fail, Go, Block
<1>2. CASE Read \/ ReadFails
  BY <1>2, <1>i DEF Read, ReadPlan, ReadCredentials, ReadPublicCA, ReadRegionalCA, ReadFails,
                    Reading, Fail, Go, Block
<1>3. CASE Gate
  BY <1>3, <1>i DEF Gate, AdmitTokenRequest, AdmitAddKeyRequest, AdmitConfigWrite,
                    AdmitResultWrite, Admit, Fail, Go, Block
<1>4. CASE Exchange
  <2>1. CASE SendRequest \/ ConnectionRefused \/ RequestFails \/ ResponseArrives
    BY <2>1, <1>i
       DEF SendRequest, ConnectionRefused, RequestFails, ResponseArrives, Fail, Go
  <2>2. CASE BodyReadFails \/ BodyInvalid \/ TokenReceived \/ AddKeyReceived
    BY <2>2, <1>i
       DEF BodyReadFails, BodyInvalid, TokenReceived, AddKeyReceived, Fail, Go
  <2> QED BY <1>4, <2>1, <2>2 DEF Exchange
<1>5. CASE Write
  <2>1. CASE WriteCompletes
    <3>1. /\ pc \in Writing /\ Deliver(Body) /\ pc # "done" /\ pc' # "done"
      BY <2>1 DEF WriteCompletes, AfterWrite, constrainedExit, Go, Writing
    <3>2. result = <<>>
      BY <3>1 DEF ResultInv, Writing
    <3> QED BY <3>1, <3>2, BodyTypes, BodyTruthful, DeliverVisible
  <2>2. CASE WritePartially
    <3>1. /\ pc # "done" /\ UNCHANGED <<pc, exit, result>>
          /\ config = "empty" /\ config' = "partial"
      BY <2>2 DEF WritePartially, outcome
    <3>2. Kinds # <<"success">>
      BY <3>1, NoEarlySuccess
    <3>3. Launcher!FillConfig
      BY <3>1, <3>2 DEF Launcher!FillConfig, Launcher!Filled, Kinds
    <3> QED BY <3>3 DEF Launcher!Next
  <2>3. CASE WriteBreaks \/ WriteTimesOut
    BY <2>3, <1>i
       DEF WriteBreaks, WriteTimesOut, Writing, AfterWriteError, constrainedExit, Fail, Go
  <2>4. CASE LateWrite
    <3>1. PICK b \in pending : Deliver(b)
      BY <2>4 DEF LateWrite
    <3>2. b \in Bodies /\ pc # "done" /\ pc' # "done"
      BY <2>4 DEF LateWrite, TypeOK
    <3>3. b.kind # "config" => result = <<>>
      BY DEF ResultInv, FileOf
    <3>4. Truthful(b)
      BY Zenon DEF DeliveredInv
    <3> QED BY <3>1, <3>2, <3>3, <3>4, DeliverVisible
  <2> QED BY <1>5, <2>1, <2>2, <2>3, <2>4 DEF Write
<1>6. CASE StartWriteFailure
  BY <1>6, <1>i DEF StartWriteFailure, constrainedExit, Go, Block
<1>7. CASE ExitProcess
  <2>1. /\ pc = "exiting" /\ pc' = "done" /\ UNCHANGED <<exit, config, result>>
    BY <1>7 DEF ExitProcess, Go, outcome
  <2>2. CASE exit = "ok"
    <3>1. Len(result) = 1 /\ result[1].kind = "success"
      BY <2>1, <2>2 DEF ExitInv, ExitAgrees
    <3>2. result = <<result[1]>>
      BY <3>1 DEF TypeOK
    <3>3. Kinds = <<"success">>
      BY <3>1, <3>2, KindsOf
    <3>4. Launcher!ExitSuccess
      BY <2>1, <2>2, <3>3 DEF Launcher!ExitSuccess, Kinds
    <3> QED BY <3>4 DEF Launcher!Next
  <2>3. CASE exit # "ok"
    <3>1. Launcher!ExitFailure
      BY <2>1, <2>3 DEF Launcher!ExitFailure
    <3> QED BY <3>1 DEF Launcher!Next
  <2> QED BY <2>2, <2>3
<1>8. CASE Environment
  BY <1>8, Invisible
     DEF Environment, Interrupt, ContextExpires, LauncherCloses, PIARegisters, Tick, Stall,
         outcome, Blocked, Reading, Requesting, Writing
<1>9. CASE UNCHANGED vars
  BY <1>9, Invisible DEF vars, outcome
<1> QED
  BY <1>1, <1>2, <1>3, <1>4, <1>5, <1>6, <1>7, <1>8, <1>9 DEF Next, Terminated

\* The runner implements the launcher's contract: whatever PIA, the launcher and
\* the scheduler do, the two pipes and the exit status evolve as promised.  (That
\* the exit comes, the contract's fairness, is model-checked.)
THEOREM ImplementsContract == Spec => Launcher!Spec
<1>1. Init => Launcher!Init
  BY DEF Init, Launcher!Init
<1>2. Init => ExitInv
  BY DEF Init, ExitInv
<1> QED
  BY <1>1, <1>2, OutcomeInit, RegistrationInit, ResultStep, RegistrationStep, DeliveredStep,
     ExitStep, ContractStep, TypeCorrect, PTL
     DEF Spec, Launcher!Spec
=============================================================================
