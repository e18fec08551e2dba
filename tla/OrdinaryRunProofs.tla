-------------------------- MODULE OrdinaryRunProofs --------------------------
(***************************************************************************)
(* Proofs about OrdinaryRun, for any server list, any servers and any       *)
(* number of runs on the same files.                                        *)
(***************************************************************************)
EXTENDS OrdinaryRun, TLAPS

\* Where nothing has been written yet in this run.
Early == {"credentials", "durations", "serverList", "listing", "client",
          "token", "tokenAnswer", "keys", "certificate", "addKey",
          "addKeyAnswer", "config", "metadata", "outfile"}

\* Where the configuration is out.
Late == {"json", "metadataFile", "metadataFileWrite"}

-----------------------------------------------------------------------------
(***************************************************************************)
(* Credentials.  executePIARequest would add them to a regional request     *)
(* when the token is empty; no step leaves an empty token.                  *)
(***************************************************************************)
CredentialsInv ==
    /\ token # "empty"
    /\ CredentialsStayCentral

\* What is sent is recorded with its content and its receiver.
LEMMA SendingFields ==
    \A w, t : Sending(w, t).what = w /\ Sending(w, t).to = t
BY DEF Sending

\* Every step keeps the credentials from the regional servers.
LEMMA CredentialsStep == CredentialsInv /\ [Next]_vars => CredentialsInv'
<1> SUFFICES ASSUME CredentialsInv, [Next]_vars PROVE CredentialsInv'
  OBVIOUS
<1> USE DEF client, effects, files, registrations
<1>1. CASE token' # "empty" /\ sent' = sent
  BY <1>1 DEF CredentialsInv, CredentialsStayCentral
<1>2. CASE token' = token /\ sent' = {}
  BY <1>2 DEF CredentialsInv, CredentialsStayCentral
<1>3. CASE RequestToken \/ TokenRedirected \/ executePIARequest
  <2>1. token' = token
    BY <1>3 DEF RequestToken, TokenRedirected, executePIARequest
  <2>2. \A m \in sent' : m \in sent \/ m.what = "token" \/ m.to # "regional"
    BY <1>3, SendingFields
       DEF RequestToken, TokenRedirected, executePIARequest, CredentialsInv
  <2> QED BY <2>1, <2>2 DEF CredentialsInv, CredentialsStayCentral
<1>4. CASE TokenAnswered
  <2>1. sent' = sent
    BY <1>4 DEF TokenAnswered
  <2>2. token' # "empty"
    BY <1>4 DEF TokenAnswered, usableToken, CredentialsInv
  <2> QED BY <1>1, <2>1, <2>2
<1>5. CASE Rerun
  <2>1. token' # "empty" /\ sent' = {}
    BY <1>5 DEF Rerun, Fresh
  <2> QED BY <2>1 DEF CredentialsInv, CredentialsStayCentral
<1>6. CASE Client
  <2>1. token' = token /\ sent' = sent
    BY <1>6 DEF Client, TakeCredentials, ParseDurations, ServerListFails,
            ServerListParsed, ListRegions, NewPIAClient
  <2> QED BY <1>1, <2>1 DEF CredentialsInv
<1>7. CASE \/ TokenFails \/ generateKeys \/ downloadPIACertificate \/ AddKeyFails
           \/ AddKeyAnswered \/ generateConfig \/ buildMetadata
  <2>1. token' = token /\ sent' = sent
    BY <1>7 DEF TokenFails, generateKeys, downloadPIACertificate, AddKeyFails,
            AddKeyAnswered, generateConfig, buildMetadata
  <2> QED BY <1>1, <2>1 DEF CredentialsInv
<1>8. CASE Output \/ PIARegisters \/ Kill \/ Terminated \/ UNCHANGED vars
  <2>1. token' = token /\ sent' = sent
    BY <1>8 DEF Output, TruncateOutfile, FillOutfile, LogConfig, PrintMetadata,
            TruncateMetadataFile, FillMetadataFile, NoMetadataFile, OutputFails,
            PIARegisters, Kill, Terminated, vars
  <2> QED BY <1>1, <2>1 DEF CredentialsInv
<1> QED BY <1>3, <1>4, <1>5, <1>6, <1>7, <1>8 DEF Next, Generate

\* No run ever sends the username and the password to a regional server.
THEOREM CredentialsNeverRegional == Spec => []CredentialsStayCentral
<1>1. Init => CredentialsInv
  BY DEF Init, CredentialsInv, CredentialsStayCentral
<1>2. CredentialsInv => CredentialsStayCentral
  BY DEF CredentialsInv
<1> QED BY <1>1, <1>2, CredentialsStep, PTL DEF Spec

-----------------------------------------------------------------------------
(***************************************************************************)
(* The phases of a run.  Until its outputs a run leaves the files alone and *)
(* is either on the way to them or over.                                    *)
(***************************************************************************)

\* What the steps before the outputs have in common.
LEMMA EarlyStep ==
    ASSUME Client \/ Generate
    PROVE  /\ UNCHANGED <<inv, run, conf, meta, keys>>
           /\ UNCHANGED misled \/ misled' = misled \cup {run}
           /\ pc \in Early \ {"outfile"}
           /\ pc' \in Early \cup {"done"}
<1> USE DEF client, effects, files, registrations, Early, Goto, Finish
<1>1. CASE Client
  BY <1>1 DEF Client, TakeCredentials, ParseDurations, ServerListFails,
          ServerListParsed, ListRegions, NewPIAClient
<1>2. CASE Generate
  BY <1>2 DEF Generate, RequestToken, TokenRedirected, TokenFails, TokenAnswered,
          generateKeys, downloadPIACertificate, executePIARequest, AddKeyFails,
          AddKeyAnswered, generateConfig, buildMetadata
<1> QED BY <1>1, <1>2

\* What the steps that touch no file have in common.
LEMMA QuietStep ==
    ASSUME PIARegisters \/ Kill \/ Terminated \/ OutputFails \/ NoMetadataFile \/ UNCHANGED vars
    PROVE  /\ UNCHANGED <<inv, run, answer, conf, meta>>
           /\ RegisteredOrMisled \subseteq RegisteredOrMisled'
           /\ pc' = pc \/ pc' = "done"
BY DEF client, effects, files, registrations, RegisteredOrMisled, Goto, Finish, PIARegisters, Kill, Terminated, OutputFails,
       NoMetadataFile, vars

-----------------------------------------------------------------------------
(***************************************************************************)
(* Registration.  A decoded answer with a DNS server means that PIA has the *)
(* key of this run, or refused it in that very answer; and nothing gets     *)
(* past generateConfig without such an answer.                              *)
(***************************************************************************)
RegisteredInv ==
    /\ answer.dns => run \in RegisteredOrMisled
    /\ pc \in Late \cup {"metadata", "outfile", "outfileWrite"} => run \in RegisteredOrMisled
    /\ RefusalKeepsFiles

\* An answer with a DNS server comes after the registration, or misleads.
LEMMA AnswerMeansRegistered ==
    ASSUME AddKeyAnswered, answer'.dns PROVE run \in RegisteredOrMisled'
<1>1. answer'.ok => run \in keys'
  BY DEF AddKeyAnswered, PIAAnswers
<1>2. ~answer'.ok => run \in misled'
  BY DEF AddKeyAnswered
<1> QED BY <1>1, <1>2 DEF RegisteredOrMisled

\* Every step keeps the files behind the registration.
LEMMA RegisteredStep == RegisteredInv /\ [Next]_vars => RegisteredInv'
<1> SUFFICES ASSUME RegisteredInv, [Next]_vars PROVE RegisteredInv'
  OBVIOUS
<1> USE DEF client, effects, files, registrations
<1>1. CASE (Client \/ Generate) /\ ~AddKeyAnswered /\ ~generateConfig /\ ~buildMetadata
  <2>1. /\ UNCHANGED <<run, conf, meta, RegisteredOrMisled, answer>>
        /\ pc' \notin Late \cup {"metadata", "outfile", "outfileWrite"}
    BY <1>1 DEF Client, TakeCredentials, ParseDurations, ServerListFails,
            ServerListParsed, ListRegions, NewPIAClient,
            Generate, RequestToken, TokenRedirected, TokenFails, TokenAnswered,
            generateKeys, downloadPIACertificate, executePIARequest, AddKeyFails,
            Goto, Finish, Late, RegisteredOrMisled
  <2> QED BY <2>1, Zenon DEF RegisteredInv, RefusalKeepsFiles
<1>2. CASE AddKeyAnswered
  <2>1. /\ UNCHANGED <<run, conf, meta>> /\ RegisteredOrMisled \subseteq RegisteredOrMisled'
        /\ pc' \notin Late \cup {"metadata", "outfile", "outfileWrite"}
    BY <1>2 DEF AddKeyAnswered, Goto, Late, RegisteredOrMisled
  <2>2. answer'.dns => run \in RegisteredOrMisled'
    BY <1>2, AnswerMeansRegistered
  <2> QED BY <2>1, <2>2, Zenon DEF RegisteredInv, RefusalKeepsFiles
<1>3. CASE generateConfig
  <2>1. /\ UNCHANGED <<run, conf, meta, RegisteredOrMisled, answer>>
        /\ pc' = "done" \/ (pc' = "metadata" /\ answer.dns)
    BY <1>3, Zenon DEF generateConfig, Goto, Finish, RegisteredOrMisled
  <2>2. pc' = "metadata" => run \in RegisteredOrMisled
    BY <2>1, Zenon DEF RegisteredInv
  <2>3. pc' \in Late \cup {"metadata", "outfile", "outfileWrite"} => run \in RegisteredOrMisled
    BY <2>1, <2>2 DEF Late
  <2> QED BY <2>1, <2>3, Zenon DEF RegisteredInv, RefusalKeepsFiles
<1>4. CASE buildMetadata \/ Output
  <2>1. /\ UNCHANGED <<run, RegisteredOrMisled, answer>>
        /\ run \in RegisteredOrMisled
    BY <1>4 DEF buildMetadata, Output, TruncateOutfile, FillOutfile, LogConfig, PrintMetadata,
            TruncateMetadataFile, FillMetadataFile, NoMetadataFile, OutputFails,
            RegisteredInv, RegisteredOrMisled, Late
  <2>2. /\ conf' = conf \/ conf'.run = run
        /\ meta' = meta \/ meta'.run = run
    BY <1>4 DEF buildMetadata, Output, TruncateOutfile, FillOutfile, LogConfig, PrintMetadata,
            TruncateMetadataFile, FillMetadataFile, NoMetadataFile, OutputFails,
            Truncated, Filled
  <2> QED BY <2>1, <2>2, Zenon DEF RegisteredInv, RefusalKeepsFiles
<1>5. CASE PIARegisters \/ Kill \/ Terminated \/ UNCHANGED vars
  <2>1. /\ UNCHANGED <<run, answer, conf, meta>> /\ RegisteredOrMisled \subseteq RegisteredOrMisled'
        /\ pc' = pc \/ pc' = "done"
    BY <1>5, QuietStep
  <2>2. pc' \in Late \cup {"metadata", "outfile", "outfileWrite"} => run \in RegisteredOrMisled
    BY <2>1 DEF RegisteredInv, Late
  <2> QED BY <2>1, <2>2, Zenon DEF RegisteredInv, RefusalKeepsFiles
<1>6. CASE Rerun
  <2>1. /\ UNCHANGED <<conf, meta, RegisteredOrMisled>> /\ answer' = NoAnswer
        /\ pc' \notin Late \cup {"metadata", "outfile", "outfileWrite"}
    BY <1>6 DEF Rerun, Fresh, Entry, RegisteredOrMisled, Late
  <2>2. ~answer'.dns
    BY <2>1 DEF NoAnswer
  <2> QED BY <2>1, <2>2, Zenon DEF RegisteredInv, RefusalKeepsFiles
<1> QED BY <1>1, <1>2, <1>3, <1>4, <1>5, <1>6 DEF Next, Generate

\* The invariant holds throughout.
LEMMA RegisteredInvariant == Spec => []RegisteredInv
<1>1. Init => RegisteredInv
  <2> SUFFICES ASSUME Init PROVE RegisteredInv
    OBVIOUS
  <2>1. ~answer.dns /\ conf.run = 0 /\ meta.run = 0
    BY DEF Init, NoAnswer, NoFile
  <2>2. pc \notin Late \cup {"metadata", "outfile", "outfileWrite"}
    BY DEF Init, Entry, Late
  <2> QED BY <2>1, <2>2, Zenon DEF RegisteredInv, RefusalKeepsFiles
<1> QED BY <1>1, RegisteredStep, PTL DEF Spec

\* Whatever is found in an output file belongs to a run whose key PIA has
\* registered, or has refused in an answer with a DNS server, however many runs
\* have used the file and however they ended: a refusal without one never touches
\* what an earlier run left.
THEOREM RefusalsKeepFiles == Spec => []RefusalKeepsFiles
<1>1. RegisteredInv => RefusalKeepsFiles
  BY DEF RegisteredInv
<1> QED BY <1>1, RegisteredInvariant, PTL

-----------------------------------------------------------------------------
(***************************************************************************)
(* The two files.  A run touches the metadata file only after its own       *)
(* configuration is whole; before that, what is in it is an earlier run's.  *)
(***************************************************************************)
OrderInv ==
    /\ run \in Nat /\ conf.run \in Nat /\ meta.run \in Nat
    /\ conf.run <= run /\ meta.run <= run
    /\ pc \in Early \cup {"outfileWrite", "json", "metadataFile"} => meta.run < run
    /\ (inv.outfile /\ pc \in Late) =>
         conf.run = run /\ conf.body = "whole" /\ conf.host = answer.host
    /\ MetadataNeverAhead

\* Steps that leave the files alone and lead to no later phase.
LEMMA OrderQuiet ==
    ASSUME OrderInv, UNCHANGED <<inv, run, conf, meta>>,
           pc' \in Early \cup {"outfileWrite", "json", "metadataFile"} => meta.run < run,
           pc' \in Late => (inv.outfile => conf.run = run /\ conf.body = "whole"
                                             /\ conf.host = answer'.host)
    PROVE  OrderInv'
<1>1. MetadataNeverAhead'
  BY DEF OrderInv, MetadataNeverAhead
<1> QED BY <1>1 DEF OrderInv

\* Every step keeps the metadata file from getting ahead.
LEMMA OrderStep == OrderInv /\ [Next]_vars => OrderInv'
<1> SUFFICES ASSUME OrderInv, [Next]_vars PROVE OrderInv'
  OBVIOUS
<1> USE DEF client, effects, files, registrations, Early, Late
<1>1. CASE Client \/ Generate
  BY <1>1, EarlyStep, OrderQuiet DEF OrderInv
<1>2. CASE PIARegisters \/ Kill \/ Terminated \/ OutputFails \/ NoMetadataFile \/ UNCHANGED vars
  BY <1>2, QuietStep, OrderQuiet DEF OrderInv
<1>3. CASE LogConfig
  BY <1>3, OrderQuiet DEF LogConfig, Goto, OrderInv
<1>4. CASE PrintMetadata
  BY <1>4, OrderQuiet DEF PrintMetadata, Goto, OrderInv
<1>5. CASE TruncateOutfile
  <2>1. /\ pc' = "outfileWrite" /\ conf'.run = run /\ UNCHANGED <<inv, run, meta>>
        /\ meta.run < run
    BY <1>5 DEF TruncateOutfile, Truncated, Goto, OrderInv
  <2>2. MetadataNeverAhead'
    BY <2>1 DEF OrderInv, MetadataNeverAhead
  <2> QED BY <2>1, <2>2 DEF OrderInv
<1>6. CASE FillOutfile
  <2>1. /\ pc' = "json" /\ UNCHANGED <<inv, run, meta, answer>> /\ meta.run < run
        /\ conf'.run = run /\ conf'.body = "whole" /\ conf'.host = answer.host
    BY <1>6 DEF FillOutfile, Filled, Goto, OrderInv
  <2>2. MetadataNeverAhead'
    BY <2>1 DEF OrderInv, MetadataNeverAhead
  <2> QED BY <2>1, <2>2 DEF OrderInv
<1>7. CASE TruncateMetadataFile
  <2>1. /\ pc' = "metadataFileWrite" /\ UNCHANGED <<inv, run, conf, answer>>
        /\ meta'.run = run /\ meta'.body = "torn" /\ pc = "metadataFile"
    BY <1>7 DEF TruncateMetadataFile, Truncated, Goto
  <2>2. inv.outfile => conf.run = run /\ conf.body = "whole" /\ conf.host = answer.host
    BY <2>1 DEF OrderInv
  <2>3. MetadataNeverAhead'
    BY <2>1, <2>2 DEF MetadataNeverAhead
  <2> QED BY <2>1, <2>2, <2>3 DEF OrderInv
<1>8. CASE FillMetadataFile
  <2>1. /\ pc' = "done" /\ UNCHANGED <<inv, run, conf>>
        /\ meta'.run = run /\ meta'.host = answer.host /\ pc = "metadataFileWrite"
    BY <1>8 DEF FillMetadataFile, Filled, Finish
  <2>2. inv.outfile => conf.run = run /\ conf.body = "whole" /\ conf.host = answer.host
    BY <2>1 DEF OrderInv
  <2>3. MetadataNeverAhead'
    BY <2>1, <2>2 DEF MetadataNeverAhead
  <2> QED BY <2>1, <2>2, <2>3 DEF OrderInv
<1>9. CASE Rerun
  <2>1. run' = run + 1 /\ UNCHANGED <<inv, conf, meta>> /\ pc' \notin Late
    BY <1>9 DEF Rerun, Entry
  <2>2. MetadataNeverAhead'
    BY <2>1 DEF OrderInv, MetadataNeverAhead
  <2> QED BY <2>1, <2>2 DEF OrderInv
<1> QED BY <1>1, <1>2, <1>3, <1>4, <1>5, <1>6, <1>7, <1>8, <1>9 DEF Next, Output

\* The invariant holds throughout.
LEMMA OrderInvariant == Spec => []OrderInv
<1>1. Init => OrderInv
  <2> SUFFICES ASSUME Init PROVE OrderInv
    OBVIOUS
  <2>1. run = 1 /\ conf.run = 0 /\ meta.run = 0 /\ pc \notin Late
    BY DEF Init, NoFile, Entry, Late
  <2> QED BY <2>1 DEF OrderInv, MetadataNeverAhead
<1> QED BY <1>1, OrderStep, PTL DEF Spec

\* However many runs use the two files, and wherever each is killed or fails,
\* the metadata never describes a configuration that is not there.
THEOREM MetadataFollowsConfig == Spec => []MetadataNeverAhead
<1>1. OrderInv => MetadataNeverAhead
  BY DEF OrderInv
<1> QED BY <1>1, OrderInvariant, PTL

-----------------------------------------------------------------------------
(***************************************************************************)
(* What a run uses and leaves behind: whose credentials it sends, what it   *)
(* spends on a region it cannot use, and what its exit status says of its   *)
(* outputs.                                                                 *)
(***************************************************************************)
\* Where the credentials of the command line come from, if anywhere.
Source == IF inv.fd = "none" THEN "args" ELSE "fd"

\* Before NewPIAClient has accepted the region; behind it; where a file may
\* already have been touched.
Preparing == {"credentials", "durations", "serverList", "listing", "client"}
Writing == {"outfileWrite", "json", "metadataFile", "metadataFileWrite"}
Generating == {"token", "tokenAnswer", "keys", "certificate", "addKey", "addKeyAnswer",
               "config", "metadata", "outfile"} \cup Writing

Usable == ~inv.list /\ Region \in generateWireguardServerList

-----------------------------------------------------------------------------
(***************************************************************************)
(* What a run spends.  Nothing goes out before NewPIAClient has found the   *)
(* region among the WireGuard servers, and list and command line stay what  *)
(* they were.  A file of this run's number is a file this run has touched:  *)
(* the numbers in the files never exceed the run's (OrderInv).              *)
(***************************************************************************)
UsableInv ==
    /\ pc = "client" => ~inv.list
    /\ pc = "listing" => inv.list
    /\ pc \in Preparing => sent = {} /\ conf.run # run /\ meta.run # run
    /\ pc \in Generating => Usable
    /\ UnusableRegionSpendsNothing

\* UnusableRegionSpendsNothing says Usable of a run that has spent anything.
LEMMA UsableMeans ==
    UnusableRegionSpendsNothing <=>
        ((sent # {} \/ conf.run = run \/ meta.run = run) => Usable)
BY DEF UnusableRegionSpendsNothing, Usable, generateWireguardServerList

\* A step that spends nothing, stays on its side of NewPIAClient and keeps the
\* command line and the list.
LEMMA UsableKept ==
    ASSUME UsableInv, UNCHANGED <<inv, run, list, sent, conf, meta>>,
           \/ pc' = pc \/ pc' = "done"
           \/ pc \in Generating /\ pc' \in Generating
           \/ pc \in Preparing /\ pc' \in Preparing \ {"client", "listing"}
    PROVE  UsableInv'
<1>1. (Usable' <=> Usable) /\ Preparing \cap Generating = {} /\ "done" \notin Preparing
      /\ "done" \notin Generating
  BY DEF Usable, generateWireguardServerList, Preparing, Generating, Writing
<1>2. UnusableRegionSpendsNothing'
  BY DEF UsableInv, UnusableRegionSpendsNothing
<1>3. (pc' = "client" => ~inv.list) /\ (pc' = "listing" => inv.list)
  BY DEF UsableInv, Preparing, Generating, Writing
<1>4. pc' \in Preparing => sent = {} /\ conf.run # run /\ meta.run # run
  BY <1>1 DEF UsableInv
<1>5. pc' \in Generating => Usable
  BY <1>1 DEF UsableInv
<1> QED BY <1>1, <1>2, <1>3, <1>4, <1>5 DEF UsableInv

\* A step of a run that has got past NewPIAClient may spend what it likes.
LEMMA UsableSpent ==
    ASSUME UsableInv, UNCHANGED <<inv, list>>, pc \in Generating,
           pc' \in Generating \cup {"done"}
    PROVE  UsableInv'
<1>1. Usable' /\ pc' \notin Preparing
  BY DEF UsableInv, Usable, generateWireguardServerList, Preparing, Generating, Writing
<1>2. UnusableRegionSpendsNothing'
  BY <1>1, UsableMeans
     DEF UnusableRegionSpendsNothing, Usable, generateWireguardServerList
<1> QED BY <1>1, <1>2 DEF UsableInv, Preparing

\* Every step keeps an unusable region from costing anything.
LEMMA UsableStep == OrderInv /\ UsableInv /\ [Next]_vars => UsableInv'
<1> SUFFICES ASSUME OrderInv, UsableInv, [Next]_vars PROVE UsableInv'
  OBVIOUS
<1> USE DEF client, effects, files, registrations, Goto, Finish
<1>1. CASE TakeCredentials \/ ParseDurations \/ ServerListFails
  <2>1. UNCHANGED <<inv, run, list, sent, conf, meta>>
    BY <1>1 DEF TakeCredentials, ParseDurations, ServerListFails
  <2>2. pc' = "done" \/ (pc \in Preparing /\ pc' \in Preparing \ {"client", "listing"})
    BY <1>1 DEF TakeCredentials, ParseDurations, ServerListFails, Preparing
  <2> QED BY <2>1, <2>2, UsableKept
<1>2. CASE ServerListParsed
  <2>1. /\ UNCHANGED <<inv, run, sent, conf, meta>> /\ pc \in Preparing
        /\ pc' = IF inv.list THEN "listing" ELSE "client"
    BY <1>2 DEF ServerListParsed, Preparing
  <2>2. sent = {} /\ conf.run # run /\ meta.run # run
    BY <2>1 DEF UsableInv
  <2>3. UnusableRegionSpendsNothing' /\ pc' \notin Generating
    BY <2>1, <2>2 DEF UnusableRegionSpendsNothing, Generating, Writing
  <2> QED BY <2>1, <2>2, <2>3 DEF UsableInv
<1>3. CASE ListRegions
  <2>1. UNCHANGED <<inv, run, list, sent, conf, meta>> /\ pc' = "done"
    BY <1>3 DEF ListRegions
  <2> QED BY <2>1, UsableKept
<1>4. CASE NewPIAClient
  <2>1. /\ UNCHANGED <<inv, run, list, sent, conf, meta>> /\ pc = "client"
        /\ \/ pc' = "done"
           \/ pc' = "token" /\ Region \in generateWireguardServerList
    BY <1>4 DEF NewPIAClient
  <2>2. CASE pc' = "done"
    BY <2>1, <2>2, UsableKept
  <2>3. CASE pc' = "token" /\ Region \in generateWireguardServerList
    <3>1. Usable' /\ pc' \notin Preparing /\ pc' \notin {"client", "listing"}
      BY <2>1, <2>3 DEF UsableInv, Usable, generateWireguardServerList, Preparing
    <3>2. UnusableRegionSpendsNothing'
      BY <2>1 DEF UsableInv, UnusableRegionSpendsNothing
    <3> QED BY <3>1, <3>2 DEF UsableInv
  <2> QED BY <2>1, <2>2, <2>3
<1>5. CASE Generate \/ (Output /\ ~OutputFails)
  <2>1. /\ UNCHANGED <<inv, list>> /\ pc \in Generating
        /\ pc' \in Generating \cup {"done"}
    <3>1. CASE \/ RequestToken \/ TokenRedirected \/ TokenFails \/ TokenAnswered
               \/ generateKeys \/ downloadPIACertificate
      BY <3>1 DEF RequestToken, TokenRedirected, TokenFails, TokenAnswered, generateKeys,
                  downloadPIACertificate, Generating
    <3>2. CASE \/ executePIARequest \/ AddKeyFails \/ AddKeyAnswered \/ generateConfig
               \/ buildMetadata
      BY <3>2 DEF executePIARequest, AddKeyFails, AddKeyAnswered, generateConfig,
                  buildMetadata, Generating
    <3>3. CASE Output /\ ~OutputFails
      BY <3>3 DEF Output, TruncateOutfile, FillOutfile, LogConfig, PrintMetadata,
                  TruncateMetadataFile, FillMetadataFile, NoMetadataFile, Generating, Writing
    <3> QED BY <1>5, <3>1, <3>2, <3>3 DEF Generate
  <2> QED BY <2>1, UsableSpent
<1>6. CASE OutputFails \/ PIARegisters \/ Kill \/ Terminated \/ UNCHANGED vars
  <2>1. UNCHANGED <<inv, run, list, sent, conf, meta>> /\ (pc' = pc \/ pc' = "done")
    BY <1>6 DEF OutputFails, PIARegisters, Kill, Terminated, vars
  <2> QED BY <2>1, UsableKept
<1>7. CASE Rerun
  <2>1. /\ run' = run + 1 /\ UNCHANGED <<inv, conf, meta>> /\ sent' = {} /\ pc' = Entry
    BY <1>7 DEF Rerun, Fresh
  <2>2. conf'.run # run' /\ meta'.run # run'
    BY <2>1 DEF OrderInv
  <2>3. pc' \notin Generating /\ pc' \notin {"client", "listing"}
    BY <2>1 DEF Entry, Generating, Writing
  <2>4. UnusableRegionSpendsNothing'
    BY <2>1, <2>2 DEF UnusableRegionSpendsNothing
  <2> QED BY <2>1, <2>2, <2>3, <2>4 DEF UsableInv
<1> QED BY <1>1, <1>2, <1>3, <1>4, <1>5, <1>6, <1>7 DEF Next, Client, Output

\* The invariant holds throughout.
LEMMA UsableInvariant == Spec => []UsableInv
<1>1. Init => UsableInv
  <2> SUFFICES ASSUME Init PROVE UsableInv
    OBVIOUS
  <2>1. sent = {} /\ run = 1 /\ conf.run = 0 /\ meta.run = 0 /\ pc = Entry
    BY DEF Init, NoFile
  <2>2. pc \notin Generating /\ pc \notin {"client", "listing"}
    BY <2>1 DEF Entry, Generating, Writing
  <2> QED BY <2>1, <2>2 DEF UsableInv, UnusableRegionSpendsNothing
<1> QED BY <1>1, UsableStep, OrderInvariant, PTL DEF Spec

\* A listing, or a region that is not there, has no WireGuard servers or does
\* not forward ports, costs no request and touches no file, for any server list.
THEOREM UnusableRegionIsFree == Spec => []UnusableRegionSpendsNothing
<1>1. UsableInv => UnusableRegionSpendsNothing
  BY DEF UsableInv
<1> QED BY <1>1, UsableInvariant, PTL

-----------------------------------------------------------------------------
(***************************************************************************)
(* Credentials.  From credentialsFromInvocation on they are those of the    *)
(* one source the command line names, and every message carries them.       *)
(***************************************************************************)
SourceInv ==
    /\ (~inv.list /\ pc \notin {"credentials", "done"}) => creds = Source
    /\ NoFallback

\* NoFallback says Source of every message.
LEMMA SourceMeans == NoFallback <=> \A m \in sent : m.source = Source
BY DEF NoFallback, Source

\* A step that keeps the credentials and sends nothing.
LEMMA SourceKept ==
    ASSUME SourceInv, UNCHANGED <<inv, creds, sent>>,
           pc' = pc \/ pc' = "done" \/ pc \notin {"credentials", "done"}
    PROVE  SourceInv'
BY DEF SourceInv, NoFallback, Source

\* A step that sends something.
LEMMA SourceSending ==
    ASSUME SourceInv, UsableInv, UNCHANGED <<inv, creds>>, pc \in Generating,
           \A m \in sent' : m \in sent \/ m.source = creds
    PROVE  SourceInv'
<1>1. creds = Source
  BY DEF SourceInv, UsableInv, Usable, Generating, Writing
<1>2. \A m \in sent' : m.source = Source
  BY <1>1, SourceMeans DEF SourceInv
<1> QED BY <1>1, <1>2 DEF SourceInv, NoFallback, Source

\* Every step keeps the source.
LEMMA SourceStep == UsableInv /\ SourceInv /\ [Next]_vars => SourceInv'
<1> SUFFICES ASSUME UsableInv, SourceInv, [Next]_vars PROVE SourceInv'
  OBVIOUS
<1> USE DEF client, effects, files, registrations, Goto, Finish
<1>1. CASE TakeCredentials
  <2>1. PICK readable \in BOOLEAN :
          \/ pc' = "done" /\ UNCHANGED creds
          \/ /\ credentialsFromInvocation(readable) # "invalid"
             /\ creds' = credentialsFromInvocation(readable)
    BY <1>1 DEF TakeCredentials
  <2>2. UNCHANGED <<inv, sent>>
    BY <1>1 DEF TakeCredentials
  <2>3. CASE pc' = "done" /\ UNCHANGED creds
    BY <2>2, <2>3, SourceKept
  <2>4. CASE /\ credentialsFromInvocation(readable) # "invalid"
             /\ creds' = credentialsFromInvocation(readable)
    <3>1. creds' = Source
      BY <2>4 DEF credentialsFromInvocation, Source
    <3> QED BY <2>2, <3>1 DEF SourceInv, NoFallback, Source
  <2> QED BY <2>1, <2>3, <2>4
<1>2. CASE \/ ParseDurations \/ ServerListFails \/ ServerListParsed \/ ListRegions
           \/ NewPIAClient
  <2>1. UNCHANGED <<inv, creds, sent>> /\ pc \notin {"credentials", "done"}
    BY <1>2 DEF ParseDurations, ServerListFails, ServerListParsed, ListRegions, NewPIAClient
  <2> QED BY <2>1, SourceKept
<1>3. CASE RequestToken \/ TokenRedirected \/ executePIARequest
  <2>1. UNCHANGED <<inv, creds>> /\ pc \in Generating
    BY <1>3 DEF RequestToken, TokenRedirected, executePIARequest, Generating
  <2>2. \A w, t : Sending(w, t).source = creds
    BY DEF Sending
  <2>3. \A m \in sent' : m \in sent \/ m.source = creds
    BY <1>3, <2>2 DEF RequestToken, TokenRedirected, executePIARequest
  <2> QED BY <2>1, <2>3, SourceSending
<1>4. CASE \/ TokenFails \/ TokenAnswered \/ generateKeys \/ downloadPIACertificate
           \/ AddKeyFails \/ AddKeyAnswered \/ generateConfig \/ buildMetadata
  <2>1. UNCHANGED <<inv, creds, sent>> /\ pc \notin {"credentials", "done"}
    BY <1>4 DEF TokenFails, TokenAnswered, generateKeys, downloadPIACertificate, AddKeyFails,
                AddKeyAnswered, generateConfig, buildMetadata
  <2> QED BY <2>1, SourceKept
<1>5. CASE Output
  <2>1. UNCHANGED <<inv, creds, sent>> /\ pc \notin {"credentials", "done"}
    BY <1>5 DEF Output, TruncateOutfile, FillOutfile, LogConfig, PrintMetadata,
                TruncateMetadataFile, FillMetadataFile, NoMetadataFile, OutputFails
  <2> QED BY <2>1, SourceKept
<1>6. CASE PIARegisters \/ Kill \/ Terminated \/ UNCHANGED vars
  <2>1. UNCHANGED <<inv, creds, sent>> /\ (pc' = pc \/ pc' = "done")
    BY <1>6 DEF PIARegisters, Kill, Terminated, vars
  <2> QED BY <2>1, SourceKept
<1>7. CASE Rerun
  <2>1. UNCHANGED inv /\ sent' = {} /\ (~inv.list => pc' = "credentials")
    BY <1>7 DEF Rerun, Fresh, Entry
  <2> QED BY <2>1 DEF SourceInv, NoFallback
<1> QED BY <1>1, <1>2, <1>3, <1>4, <1>5, <1>6, <1>7 DEF Next, Client, Generate

\* The invariant holds throughout.
LEMMA SourceInvariant == Spec => []SourceInv
<1>1. Init => SourceInv
  BY DEF Init, Entry, SourceInv, NoFallback
<1> QED BY <1>1, SourceStep, UsableInvariant, PTL DEF Spec

\* Whatever is sent comes from the one source the command line names, however
\* reading --credentials-fd fails.
THEOREM DescriptorNeverFallsBack == Spec => []NoFallback
<1>1. SourceInv => NoFallback
  BY DEF SourceInv
<1> QED BY <1>1, SourceInvariant, PTL

-----------------------------------------------------------------------------
(***************************************************************************)
(* What the exit status says.  A run that ends well has ended in one of     *)
(* three steps: the listing, or either way past --metadata-file.            *)
(***************************************************************************)
EndInv == exit = "none" <=> pc # "done"

EndsWell == ListRegions \/ FillMetadataFile \/ NoMetadataFile

\* Every other step of a run leaves it under way or ends it otherwise.
LEMMA NotEndingWell ==
    ASSUME EndInv, Client \/ Generate \/ Output \/ Kill, ~EndsWell
    PROVE  pc # "done" /\ exit' # "ok" /\ EndInv'
<1> USE DEF client, effects, files, registrations, Goto, Finish, EndInv
<1>1. CASE Client
  BY <1>1 DEF Client, TakeCredentials, ParseDurations, ServerListFails, ServerListParsed,
              NewPIAClient, EndsWell
<1>2. CASE Generate
  <2>1. CASE \/ RequestToken \/ TokenRedirected \/ TokenFails \/ TokenAnswered
             \/ generateKeys \/ downloadPIACertificate
    BY <2>1 DEF RequestToken, TokenRedirected, TokenFails, TokenAnswered, generateKeys,
                downloadPIACertificate
  <2>2. CASE \/ executePIARequest \/ AddKeyFails \/ AddKeyAnswered \/ generateConfig
             \/ buildMetadata
    BY <2>2 DEF executePIARequest, AddKeyFails, AddKeyAnswered, generateConfig, buildMetadata
  <2> QED BY <1>2, <2>1, <2>2 DEF Generate
<1>3. CASE Output \/ Kill
  BY <1>3 DEF Output, TruncateOutfile, FillOutfile, LogConfig, PrintMetadata,
              TruncateMetadataFile, OutputFails, Kill, EndsWell
<1> QED BY <1>1, <1>2, <1>3

\* What is left alone when a run is not under way.
LEMMA Between ==
    ASSUME PIARegisters \/ Terminated \/ UNCHANGED vars
    PROVE  /\ UNCHANGED <<inv, run, pc, list, answer, out, printed, exit, conf, meta>>
           /\ RegisteredOrMisled \subseteq RegisteredOrMisled'
BY DEF client, effects, files, registrations, RegisteredOrMisled, PIARegisters, Terminated, vars

\* A run is over exactly when it has a status.
LEMMA EndStep == EndInv /\ [Next]_vars => EndInv'
<1> SUFFICES ASSUME EndInv, [Next]_vars PROVE EndInv'
  OBVIOUS
<1>1. CASE (Client \/ Generate \/ Output \/ Kill) /\ ~EndsWell
  BY <1>1, NotEndingWell
<1>2. CASE EndsWell
  BY <1>2 DEF EndsWell, ListRegions, FillMetadataFile, NoMetadataFile, Finish, EndInv
<1>3. CASE PIARegisters \/ Terminated \/ UNCHANGED vars
  BY <1>3, Between DEF EndInv
<1>4. CASE Rerun
  BY <1>4 DEF Rerun, Fresh, Entry, EndInv
<1> QED BY <1>1, <1>2, <1>3, <1>4 DEF Next

-----------------------------------------------------------------------------
(***************************************************************************)
(* Listing.                                                                 *)
(***************************************************************************)
ListingInv == EndInv /\ ListingComplete

\* Every step keeps a successful listing complete.
LEMMA ListingStep == UsableInv /\ ListingInv /\ [Next]_vars => ListingInv'
<1> SUFFICES ASSUME UsableInv, ListingInv, [Next]_vars PROVE ListingComplete'
  BY EndStep DEF ListingInv
<1>1. CASE (Client \/ Generate \/ Output \/ Kill) /\ ~EndsWell
  BY <1>1, NotEndingWell DEF ListingInv, ListingComplete
<1>2. CASE ListRegions
  <2>1. UNCHANGED <<inv, list>> /\ printed' = listedRegions
    BY <1>2 DEF ListRegions, client
  <2>2. generateWireguardServerList \subseteq listedRegions
    BY DEF generateWireguardServerList, listedRegions
  <2> QED BY <2>1, <2>2 DEF ListingComplete, generateWireguardServerList
<1>3. CASE FillMetadataFile \/ NoMetadataFile
  <2>1. UNCHANGED inv /\ pc \in Generating
    BY <1>3 DEF FillMetadataFile, NoMetadataFile, Generating, Writing
  <2> QED BY <2>1 DEF UsableInv, Usable, ListingComplete
<1>4. CASE PIARegisters \/ Terminated \/ UNCHANGED vars
  BY <1>4, Between DEF ListingInv, ListingComplete, generateWireguardServerList
<1>5. CASE Rerun
  BY <1>5 DEF Rerun, Fresh, ListingComplete
<1> QED BY <1>1, <1>2, <1>3, <1>4, <1>5 DEF Next, EndsWell

\* The invariant holds throughout.
LEMMA ListingInvariant == Spec => []ListingInv
<1>1. Init => ListingInv
  BY DEF Init, Entry, ListingInv, EndInv, ListingComplete
<1> QED BY <1>1, ListingStep, UsableInvariant, PTL DEF Spec

\* Whatever the server list, every region a run with these flags would accept is
\* among those the listing has printed.
THEOREM ListingShowsUsable == Spec => []ListingComplete
<1>1. ListingInv => ListingComplete
  BY DEF ListingInv
<1> QED BY <1>1, ListingInvariant, PTL

-----------------------------------------------------------------------------
(***************************************************************************)
(* Success.  Each output that was asked for is behind the run when it gets  *)
(* to the next; registration and the configuration file come from           *)
(* RegisteredInv and OrderInv.                                              *)
(***************************************************************************)
CompleteInv ==
    /\ EndInv
    /\ (inv.pf /\ pc \in Late \cup {"outfile", "outfileWrite"}) => answer.vip
    /\ (inv.json /\ pc \in {"metadataFile", "metadataFileWrite"}) =>
         <<"stdout", "metadata">> \in out
    /\ SuccessMeansComplete

\* A step of a run that is not over.
LEMMA CompleteKept ==
    ASSUME CompleteInv, EndInv', exit' # "ok", UNCHANGED <<inv, answer>>,
           pc' \in Late \cup {"outfile", "outfileWrite"} =>
               pc \in Late \cup {"outfile", "outfileWrite"} \/ (inv.pf => answer.vip),
           pc' \in {"metadataFile", "metadataFileWrite"} =>
               \/ pc \in {"metadataFile", "metadataFileWrite"} /\ UNCHANGED out
               \/ inv.json => <<"stdout", "metadata">> \in out'
    PROVE  CompleteInv'
<1>1. SuccessMeansComplete'
  BY DEF SuccessMeansComplete
<1>2. (inv.pf /\ pc' \in Late \cup {"outfile", "outfileWrite"}) => answer.vip
  BY DEF CompleteInv
<1>3. (inv.json /\ pc' \in {"metadataFile", "metadataFileWrite"}) =>
         <<"stdout", "metadata">> \in out'
  BY DEF CompleteInv
<1> QED BY <1>1, <1>2, <1>3 DEF CompleteInv

\* Every step keeps what a run has behind it.
LEMMA CompleteStep ==
    UsableInv /\ RegisteredInv /\ OrderInv /\ CompleteInv /\ [Next]_vars => CompleteInv'
<1> SUFFICES ASSUME UsableInv, RegisteredInv, OrderInv, CompleteInv, [Next]_vars PROVE CompleteInv'
  OBVIOUS
<1> USE DEF client, effects, files, registrations
<1>0. EndInv /\ EndInv'
  BY EndStep DEF CompleteInv
<1>1. CASE (Client \/ Generate \/ Kill) /\ ~EndsWell /\ ~AddKeyAnswered
  <2>1. exit' # "ok"
    BY <1>0, <1>1, NotEndingWell
  <2>2. UNCHANGED <<inv, answer>>
    BY <1>1 DEF Client, TakeCredentials, ParseDurations, ServerListFails, ServerListParsed,
                NewPIAClient, EndsWell, Generate, RequestToken, TokenRedirected, TokenFails,
                TokenAnswered, generateKeys, downloadPIACertificate, executePIARequest,
                AddKeyFails, generateConfig, buildMetadata, Kill
  <2>3. CASE buildMetadata
    BY <1>0, <2>1, <2>2, <2>3, CompleteKept DEF buildMetadata, Goto, Finish, Late
  <2>4. CASE ~buildMetadata
    <3>1. pc' \notin Late \cup {"outfile", "outfileWrite"}
      BY <1>1, <2>4
         DEF Client, TakeCredentials, ParseDurations, ServerListFails, ServerListParsed,
             NewPIAClient, EndsWell, Generate, RequestToken, TokenRedirected, TokenFails,
             TokenAnswered, generateKeys, downloadPIACertificate, executePIARequest,
             AddKeyFails, generateConfig, Kill, Goto, Finish, Late
    <3> QED BY <1>0, <2>1, <2>2, <3>1, CompleteKept DEF Late
  <2> QED BY <2>3, <2>4
<1>2. CASE AddKeyAnswered
  BY <1>0, <1>2 DEF AddKeyAnswered, Goto, CompleteInv, SuccessMeansComplete, EndInv, Late
<1>3. CASE \/ TruncateOutfile \/ FillOutfile \/ LogConfig \/ PrintMetadata
           \/ TruncateMetadataFile \/ OutputFails
  <2>1. UNCHANGED <<inv, answer>> /\ pc \in Late \cup {"outfile", "outfileWrite"}
    BY <1>3 DEF TruncateOutfile, FillOutfile, LogConfig, PrintMetadata,
                TruncateMetadataFile, OutputFails, Late
  <2>2. pc' \in {"metadataFile", "metadataFileWrite"} =>
               \/ pc \in {"metadataFile", "metadataFileWrite"} /\ UNCHANGED out
               \/ inv.json => <<"stdout", "metadata">> \in out'
    BY <1>3 DEF TruncateOutfile, FillOutfile, LogConfig, PrintMetadata,
                TruncateMetadataFile, OutputFails, Goto, Finish
  <2>3. exit' # "ok"
    BY <1>0, <1>3 DEF TruncateOutfile, FillOutfile, LogConfig, PrintMetadata,
                TruncateMetadataFile, OutputFails, Goto, Finish, EndInv
  <2> QED BY <1>0, <2>1, <2>2, <2>3, CompleteKept
<1>4. CASE FillMetadataFile \/ NoMetadataFile
  <2>1. /\ UNCHANGED <<inv, run, answer, out, conf, keys, misled>> /\ pc' = "done" /\ pc \in Late
        /\ pc \in {"metadataFile", "metadataFileWrite"}
    BY <1>4 DEF FillMetadataFile, NoMetadataFile, Finish, Late
  <2>2. inv.metadataFile => meta'.run = run /\ meta'.body = "whole"
    BY <1>4 DEF FillMetadataFile, NoMetadataFile, Filled
  <2>3. run \in RegisteredOrMisled /\ (inv.outfile => conf.run = run /\ conf.body = "whole")
    BY <2>1 DEF RegisteredInv, OrderInv
  <2>4. SuccessMeansComplete'
    BY <2>1, <2>2, <2>3 DEF CompleteInv, SuccessMeansComplete, RegisteredOrMisled
  <2> QED BY <1>0, <2>1, <2>4 DEF CompleteInv, Late
<1>5. CASE ListRegions
  <2>1. UNCHANGED inv /\ pc' = "done" /\ inv.list
    BY <1>5 DEF ListRegions, Finish, UsableInv
  <2> QED BY <1>0, <2>1 DEF CompleteInv, SuccessMeansComplete, Late
<1>6. CASE PIARegisters \/ Terminated \/ UNCHANGED vars
  BY <1>6, Between DEF CompleteInv, SuccessMeansComplete, EndInv
<1>7. CASE Rerun
  BY <1>7 DEF Rerun, Fresh, Entry, CompleteInv, SuccessMeansComplete, EndInv, Late
<1> QED BY <1>1, <1>2, <1>3, <1>4, <1>5, <1>6, <1>7 DEF Next, Output, EndsWell

\* Exit status 0 means that every output asked for is there, whole and of this
\* run, whatever happened to earlier runs, for a key that PIA has registered or
\* has refused in an answer with a DNS server.
THEOREM SuccessIsComplete == Spec => []SuccessMeansComplete
<1>1. Init => CompleteInv
  BY DEF Init, Entry, CompleteInv, EndInv, SuccessMeansComplete, Late
<1>2. CompleteInv => SuccessMeansComplete
  BY DEF CompleteInv
<1> QED BY <1>1, <1>2, CompleteStep, UsableInvariant, RegisteredInvariant, OrderInvariant, PTL
        DEF Spec

-----------------------------------------------------------------------------
(***************************************************************************)
(* The unchecked index expression of -s.  ServersPopulated is refuted by a  *)
(* region without metadata servers; this is the only way to its panic, and  *)
(* the key of the run is with the region's server by then.                  *)
(***************************************************************************)
TokenWithRegion == \E m \in sent : m.what = "token" /\ m.to = "regional"

PanicExplained ==
    ~ServersPopulated =>
        /\ inv.server /\ ~inv.list
        /\ Region \in generateWireguardServerList \ generateMetadataServerList
        /\ TokenWithRegion

PanicInv ==
    /\ pc \in {"addKeyAnswer", "config"} => TokenWithRegion
    /\ PanicExplained

\* A step that ends in no such panic and leads to neither of its two locations.
LEMMA NoPanicAhead ==
    ASSUME exit' # "panicServer", pc' \notin {"addKeyAnswer", "config"}
    PROVE  PanicInv'
BY DEF PanicInv, PanicExplained, ServersPopulated

\* Every step keeps it.
LEMMA PanicStep == UsableInv /\ EndInv /\ PanicInv /\ [Next]_vars => PanicInv'
<1> SUFFICES ASSUME UsableInv, EndInv, PanicInv, [Next]_vars PROVE PanicInv'
  OBVIOUS
<1> USE DEF client, effects, files, registrations, Goto, Finish
<1>1. CASE Client \/ Output \/ Kill
  <2>1. pc # "done" /\ pc' \notin {"addKeyAnswer", "config"}
        /\ exit' \in {exit, "ok", "error", "killed"}
    BY <1>1 DEF Client, TakeCredentials, ParseDurations, ServerListFails, ServerListParsed,
                ListRegions, NewPIAClient, Kill, Output, TruncateOutfile, FillOutfile, LogConfig,
                PrintMetadata, TruncateMetadataFile, FillMetadataFile, NoMetadataFile, OutputFails
  <2>2. exit' # "panicServer"
    BY <2>1 DEF EndInv
  <2> QED BY <2>1, <2>2, NoPanicAhead
<1>2. CASE \/ RequestToken \/ TokenRedirected \/ TokenFails \/ TokenAnswered \/ generateKeys
           \/ downloadPIACertificate \/ AddKeyFails \/ buildMetadata
  <2>1. pc # "done" /\ pc' \notin {"addKeyAnswer", "config"} /\ exit' \in {exit, "error"}
    BY <1>2 DEF RequestToken, TokenRedirected, TokenFails, TokenAnswered, generateKeys,
                downloadPIACertificate, AddKeyFails, buildMetadata
  <2>2. exit' # "panicServer"
    BY <2>1 DEF EndInv
  <2> QED BY <2>1, <2>2, NoPanicAhead
<1>3. CASE executePIARequest
  <2>1. pc = "addKey" /\ exit' = exit /\ Sending("token", "regional") \in sent'
    BY <1>3 DEF executePIARequest
  <2>2. exit' # "panicServer" /\ TokenWithRegion'
    BY <2>1, SendingFields DEF EndInv, TokenWithRegion
  <2> QED BY <2>2 DEF PanicInv, PanicExplained, ServersPopulated
<1>4. CASE AddKeyAnswered
  <2>1. pc = "addKeyAnswer" /\ exit' = exit /\ sent' = sent
    BY <1>4 DEF AddKeyAnswered
  <2>2. exit' # "panicServer" /\ TokenWithRegion'
    BY <2>1 DEF EndInv, PanicInv, TokenWithRegion
  <2> QED BY <2>2 DEF PanicInv, PanicExplained, ServersPopulated
<1>5. CASE generateConfig
  <2>1. /\ pc = "config" /\ pc' \in {"done", "metadata"} /\ UNCHANGED <<inv, list, sent>>
        /\ exit' = "panicServer" => inv.server /\ Region \notin generateMetadataServerList
    BY <1>5 DEF generateConfig, EndInv
  <2>2. Usable /\ TokenWithRegion
    BY <2>1 DEF UsableInv, Generating, PanicInv
  <2> QED BY <2>1, <2>2 DEF PanicInv, PanicExplained, ServersPopulated, Usable, TokenWithRegion,
                            generateWireguardServerList, generateMetadataServerList
<1>6. CASE PIARegisters \/ Terminated \/ UNCHANGED vars
  <2>1. UNCHANGED <<inv, pc, list, exit, sent>>
    BY <1>6 DEF PIARegisters, Terminated, vars
  <2> QED BY <2>1 DEF PanicInv, PanicExplained, ServersPopulated, TokenWithRegion,
                      generateWireguardServerList, generateMetadataServerList
<1>7. CASE Rerun
  BY <1>7, NoPanicAhead DEF Rerun, Fresh, Entry
<1> QED BY <1>1, <1>2, <1>3, <1>4, <1>5, <1>6, <1>7 DEF Next, Generate

\* generateConfig runs out of servers only with -s and a region that has
\* WireGuard but no metadata servers, and then only after the token and the key
\* have been sent to the region's server.
THEOREM PanicNeedsRegionWithoutMeta == Spec => []PanicExplained
<1>1. Init => PanicInv
  BY NoPanicAhead DEF Init, Entry, PanicInv, PanicExplained, ServersPopulated
<1>2. PanicInv => PanicExplained
  BY DEF PanicInv
<1>3. ListingInv => EndInv
  BY DEF ListingInv
<1> QED BY <1>1, <1>2, <1>3, PanicStep, UsableInvariant, ListingInvariant, PTL DEF Spec

-----------------------------------------------------------------------------
(***************************************************************************)
(* Types.  The messages have a source because the credentials do by the     *)
(* time anything is sent (SourceInv, UsableInv), and no empty token is kept. *)
(***************************************************************************)
ControlOK == inv \in Invocations /\ run \in 1..MaxRuns /\ pc \in Locations
             /\ exit \in {"none", "ok", "error", "panicServer", "panicDNS", "killed"}
ClientOK == /\ creds \in {"none", "args", "fd"}
            /\ list \in piaServerLists \cup {NoList}
            /\ token \in {"none", "granted"}
            /\ caCert \in {"none", "pia", "junk"}
            /\ answer \in AddKeyResults
Messages == [what : {"credentials", "token"}, to : {"tokenAPI", "redirected", "regional"},
             source : {"args", "fd"}]
EffectsOK == /\ sent \subseteq Messages
             /\ out \subseteq ({"stdout", "stderr"} \X {"regions", "config", "metadata"})
             /\ printed \subseteq Regions
FilesOK == conf \in Files /\ meta \in Files /\ {keys, misled} \subseteq SUBSET (1..MaxRuns)

\* The parts are the whole.
LEMMA TypeParts == TypeOK <=> ControlOK /\ EndInv /\ ClientOK /\ EffectsOK /\ FilesOK
BY DEF TypeOK, ControlOK, EndInv, ClientOK, EffectsOK, Messages, FilesOK

\* An answer of PIA is an answer.
LEMMA AnswersAreResults == PIAAnswers \subseteq AddKeyResults
BY DEF PIAAnswers

\* The control state keeps its type.
LEMMA ControlStep == ControlOK /\ [Next]_vars => ControlOK'
<1> SUFFICES ASSUME ControlOK, [Next]_vars PROVE ControlOK'
  OBVIOUS
<1> USE DEF Goto, Finish, Locations
<1>1. UNCHANGED inv
  BY DEF Next, Client, TakeCredentials, ParseDurations, ServerListFails, ServerListParsed,
         ListRegions, NewPIAClient, Generate, RequestToken, TokenRedirected, TokenFails,
         TokenAnswered, generateKeys, downloadPIACertificate, executePIARequest, AddKeyFails,
         AddKeyAnswered, generateConfig, buildMetadata, Output, TruncateOutfile, FillOutfile,
         LogConfig, PrintMetadata, TruncateMetadataFile, FillMetadataFile, NoMetadataFile,
         OutputFails, PIARegisters, Kill, Rerun, Terminated, vars
<1>2. CASE Client
  BY <1>1, <1>2 DEF ControlOK, Client, TakeCredentials, ParseDurations, ServerListFails,
                    ServerListParsed, ListRegions, NewPIAClient
<1>3. CASE Generate
  <2>1. CASE \/ RequestToken \/ TokenRedirected \/ TokenFails \/ TokenAnswered
             \/ generateKeys \/ downloadPIACertificate
    BY <1>1, <2>1 DEF ControlOK, RequestToken, TokenRedirected, TokenFails, TokenAnswered,
                      generateKeys, downloadPIACertificate
  <2>2. CASE \/ executePIARequest \/ AddKeyFails \/ AddKeyAnswered \/ generateConfig
             \/ buildMetadata
    BY <1>1, <2>2 DEF ControlOK, executePIARequest, AddKeyFails, AddKeyAnswered,
                      generateConfig, buildMetadata
  <2> QED BY <1>3, <2>1, <2>2 DEF Generate
<1>4. CASE Output \/ Kill
  BY <1>1, <1>4 DEF ControlOK, Output, TruncateOutfile, FillOutfile, LogConfig,
                    PrintMetadata, TruncateMetadataFile, FillMetadataFile, NoMetadataFile,
                    OutputFails, Kill
<1>5. CASE PIARegisters \/ Terminated \/ UNCHANGED vars
  BY <1>5, Between DEF ControlOK
<1>6. CASE Rerun
  <2>1. run' \in 1..MaxRuns
    BY <1>6, OrdinaryConstants DEF Rerun, ControlOK
  <2> QED BY <1>1, <1>6, <2>1 DEF Rerun, Entry, Fresh, ControlOK
<1> QED BY <1>2, <1>3, <1>4, <1>5, <1>6 DEF Next

\* What the client knows keeps its type.
LEMMA ClientStep == ClientOK /\ [Next]_vars => ClientOK'
<1> SUFFICES ASSUME ClientOK, [Next]_vars PROVE ClientOK'
  OBVIOUS
<1> USE DEF client
<1>1. CASE TakeCredentials
  <2>1. UNCHANGED <<list, token, caCert, answer>> /\ creds' \in {"none", "args", "fd"}
    BY <1>1 DEF TakeCredentials, credentialsFromInvocation, ClientOK
  <2> QED BY <2>1 DEF ClientOK
<1>2. CASE ServerListParsed
  BY <1>2 DEF ServerListParsed, ClientOK
<1>3. CASE TokenAnswered
  BY <1>3 DEF TokenAnswered, usableToken, ClientOK
<1>4. CASE downloadPIACertificate
  BY <1>4 DEF downloadPIACertificate, ClientOK
<1>5. CASE AddKeyAnswered
  BY <1>5, AnswersAreResults DEF AddKeyAnswered, ClientOK
<1>6. CASE Rerun
  <2>1. NoAnswer \in AddKeyResults
    BY DEF NoAnswer, AddKeyResults
  <2> QED BY <1>6, <2>1 DEF Rerun, Fresh, ClientOK
<1>7. CASE \/ ParseDurations \/ ServerListFails \/ ListRegions \/ NewPIAClient
           \/ RequestToken \/ TokenRedirected \/ TokenFails \/ generateKeys
           \/ executePIARequest \/ AddKeyFails \/ generateConfig \/ buildMetadata
  <2>1. UNCHANGED client
    BY <1>7 DEF ParseDurations, ServerListFails, ListRegions, NewPIAClient, RequestToken,
                TokenRedirected, TokenFails, generateKeys, executePIARequest, AddKeyFails,
                generateConfig, buildMetadata
  <2> QED BY <2>1 DEF ClientOK
<1>8. CASE Output \/ PIARegisters \/ Kill \/ Terminated \/ UNCHANGED vars
  <2>1. UNCHANGED client
    BY <1>8 DEF Output, TruncateOutfile, FillOutfile, LogConfig, PrintMetadata,
                TruncateMetadataFile, FillMetadataFile, NoMetadataFile, OutputFails,
                PIARegisters, Kill, Terminated, vars
  <2> QED BY <2>1 DEF ClientOK
<1> QED BY <1>1, <1>2, <1>3, <1>4, <1>5, <1>6, <1>7, <1>8 DEF Next, Client, Generate

\* A server list is about regions.
LEMMA ListedAreRegions == ASSUME ClientOK PROVE DOMAIN list \subseteq Regions
<1>1. CASE list = NoList
  <2>1. DOMAIN NoList = {}
    BY DEF NoList
  <2> QED BY <1>1, <2>1
<1>2. CASE list \in piaServerLists
  <2>1. PICK D \in SUBSET Regions : list \in [D -> [pf : BOOLEAN, wg : BOOLEAN, meta : BOOLEAN]]
    BY <1>2 DEF piaServerLists
  <2> QED BY <2>1
<1> QED BY <1>1, <1>2 DEF ClientOK

\* A message of a run that has credentials is a message.
LEMMA SendingTyped ==
    ASSUME SourceInv, UsableInv, pc \in Generating,
           NEW w \in {"credentials", "token"}, NEW t \in {"tokenAPI", "redirected", "regional"}
    PROVE  Sending(w, t) \in Messages
<1>1. creds \in {"args", "fd"}
  BY DEF SourceInv, UsableInv, Usable, Source, Generating, Writing
<1> QED BY <1>1 DEF Sending, Messages

\* What goes out keeps its type.
LEMMA EffectsStep ==
    ClientOK /\ SourceInv /\ UsableInv /\ EffectsOK /\ [Next]_vars => EffectsOK'
<1> SUFFICES ASSUME ClientOK, SourceInv, UsableInv, EffectsOK, [Next]_vars PROVE EffectsOK'
  OBVIOUS
<1> USE DEF effects
<1>1. CASE RequestToken \/ TokenRedirected \/ executePIARequest
  <2>1. UNCHANGED <<out, printed>> /\ pc \in Generating
    BY <1>1 DEF RequestToken, TokenRedirected, executePIARequest, Generating
  <2>2. /\ Sending("credentials", "tokenAPI") \in Messages
        /\ Sending("credentials", "redirected") \in Messages
        /\ Sending("credentials", "regional") \in Messages
        /\ Sending("token", "regional") \in Messages
    BY <2>1, SendingTyped
  <2>3. sent' \subseteq Messages
    BY <1>1, <2>2 DEF RequestToken, TokenRedirected, executePIARequest, EffectsOK
  <2> QED BY <2>1, <2>3 DEF EffectsOK
<1>2. CASE ListRegions
  <2>1. listedRegions \subseteq Regions
    BY ListedAreRegions DEF listedRegions
  <2> QED BY <1>2, <2>1 DEF ListRegions, EffectsOK
<1>3. CASE LogConfig \/ PrintMetadata
  BY <1>3 DEF LogConfig, PrintMetadata, EffectsOK
<1>4. CASE Rerun
  BY <1>4 DEF Rerun, Fresh, EffectsOK
<1>5. CASE \/ TakeCredentials \/ ParseDurations \/ ServerListFails \/ ServerListParsed
           \/ NewPIAClient \/ TokenFails \/ TokenAnswered \/ generateKeys
           \/ downloadPIACertificate \/ AddKeyFails \/ AddKeyAnswered \/ generateConfig
           \/ buildMetadata
  <2>1. UNCHANGED effects
    BY <1>5 DEF TakeCredentials, ParseDurations, ServerListFails, ServerListParsed,
                NewPIAClient, TokenFails, TokenAnswered, generateKeys, downloadPIACertificate,
                AddKeyFails, AddKeyAnswered, generateConfig, buildMetadata
  <2> QED BY <2>1 DEF EffectsOK
<1>6. CASE \/ TruncateOutfile \/ FillOutfile \/ TruncateMetadataFile \/ FillMetadataFile
           \/ NoMetadataFile \/ OutputFails \/ PIARegisters \/ Kill \/ Terminated
           \/ UNCHANGED vars
  <2>1. UNCHANGED effects
    BY <1>6 DEF TruncateOutfile, FillOutfile, TruncateMetadataFile, FillMetadataFile,
                NoMetadataFile, OutputFails, PIARegisters, Kill, Terminated, vars
  <2> QED BY <2>1 DEF EffectsOK
<1> QED BY <1>1, <1>2, <1>3, <1>4, <1>5, <1>6 DEF Next, Client, Generate, Output

\* The files, and the register of keys, keep their type.
LEMMA FilesStep == ControlOK /\ ClientOK /\ FilesOK /\ [Next]_vars => FilesOK'
<1> SUFFICES ASSUME ControlOK, ClientOK, FilesOK, [Next]_vars PROVE FilesOK'
  OBVIOUS
<1> USE DEF files, registrations
<1>1. Truncated \in Files /\ Filled \in Files
  <2>1. run \in 0..MaxRuns
    BY OrdinaryConstants DEF ControlOK
  <2>2. answer.host \in Hosts \cup {NoHost} /\ answer.vip \in BOOLEAN
    BY DEF ClientOK, AddKeyResults
  <2> QED BY <2>1, <2>2 DEF Truncated, Filled, Files
<1>2. CASE Output
  BY <1>1, <1>2 DEF Output, TruncateOutfile, FillOutfile, LogConfig, PrintMetadata,
                    TruncateMetadataFile, FillMetadataFile, NoMetadataFile, OutputFails, FilesOK
<1>3. CASE PIARegisters
  BY <1>3 DEF PIARegisters, FilesOK, ControlOK
<1>4. CASE Client \/ Generate
  BY <1>4, EarlyStep DEF FilesOK, ControlOK
<1>5. CASE Kill \/ Rerun \/ Terminated \/ UNCHANGED vars
  BY <1>5 DEF Kill, Rerun, Terminated, vars, FilesOK
<1> QED BY <1>2, <1>3, <1>4, <1>5 DEF Next

\* Every variable keeps its type, for any regions, servers and number of runs.
THEOREM TypeCorrect == Spec => []TypeOK
<1>1. Init => TypeOK
  <2> SUFFICES ASSUME Init PROVE TypeOK
    OBVIOUS
  <2>1. ControlOK /\ EndInv
    BY OrdinaryConstants DEF Init, Entry, ControlOK, EndInv, Locations
  <2>2. ClientOK
    BY DEF Init, ClientOK, NoAnswer, AddKeyResults
  <2>3. FilesOK
    <3>1. NoFile \in Files
      BY OrdinaryConstants DEF NoFile, Files
    <3> QED BY <3>1 DEF Init, FilesOK
  <2> QED BY <2>1, <2>2, <2>3, TypeParts DEF Init, EffectsOK
<1>2. TypeOK /\ SourceInv /\ UsableInv /\ [Next]_vars => TypeOK'
  <2> SUFFICES ASSUME TypeOK, SourceInv, UsableInv, [Next]_vars PROVE TypeOK'
    OBVIOUS
  <2>1. (ControlOK /\ EndInv /\ ClientOK /\ EffectsOK /\ FilesOK)'
    BY TypeParts, ControlStep, EndStep, ClientStep, EffectsStep, FilesStep
  <2> QED BY <2>1 DEF TypeOK, ControlOK, EndInv, ClientOK, EffectsOK, Messages, FilesOK
<1> QED BY <1>1, <1>2, SourceInvariant, UsableInvariant, PTL DEF Spec
=============================================================================
