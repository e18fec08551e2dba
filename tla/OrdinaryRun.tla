----------------------------- MODULE OrdinaryRun -----------------------------
(***************************************************************************)
(* The ordinary mode of pia-wg-config: defaultAction and listRegionsAction  *)
(* (src/main.go) with the credentials (src/credentials.go), PIAClient       *)
(* (src/pia/pia.go), PIAWgGenerator (src/pia/wg.go) and the metadata        *)
(* (src/pia/metadata.go).                                                   *)
(*                                                                          *)
(* One command line is run up to MaxRuns times, as a refresh job does.  The *)
(* output files and the keys registered at PIA outlive a run; everything    *)
(* else starts afresh.  A run may be killed between any two steps.  Where   *)
(* the list of servers comes from is the business of ServerListCache; here  *)
(* it arrives, malformed or with any content, or it does not.               *)
(***************************************************************************)
EXTENDS Naturals

CONSTANTS
    Regions,     \* region IDs a server list may hold
    Region,      \* the region asked for (--region)
    Hosts,       \* WireGuard servers (server_ip) PIA may hand out
    NoHost,      \* stands for an absent server_ip
    MaxRuns      \* bound on the number of runs of the command line

ASSUME OrdinaryConstants ==
    /\ Region \in Regions
    /\ NoHost \notin Hosts
    /\ MaxRuns \in Nat \ {0}

VARIABLES
    inv,         \* the command line
    run,         \* which run of it this is
    pc,          \* where the run is
    creds,       \* where the credentials came from
    list,        \* the parsed server list, a function on the region IDs in it
    token,       \* the token of this run: "none", "empty" or "granted"
    caCert,      \* the downloaded CA certificate: "none", "pia" or "junk"
    answer,      \* the decoded addKey answer
    sent,        \* what this run has sent, and to whom
    out,         \* what this run has printed, and where
    printed,     \* the regions the listing printed
    exit,        \* how the run ended
    conf,        \* the file --outfile names
    meta,        \* the file --metadata-file names
    keys,        \* the runs whose public key PIA has registered
    misled       \* history: the runs to which PIA refused the key, not OK, in an
                 \* answer that carried a DNS server all the same

files == <<conf, meta>>
client == <<creds, list, token, caCert, answer>>
effects == <<sent, out, printed>>
registrations == <<keys, misled>>
vars == <<inv, run, pc, client, effects, exit, files, registrations>>

-----------------------------------------------------------------------------
(***************************************************************************)
(* The command line.  fd is --credentials-fd: absent, below 3, or usable;   *)
(* args tells whether there are positional arguments; durations whether     *)
(* both --serverlist-cache durations parse.                                 *)
(***************************************************************************)
Invocations ==
    [list : BOOLEAN, fd : {"none", "low", "inherited"}, args : BOOLEAN,
     durations : BOOLEAN, pf : BOOLEAN, server : BOOLEAN, json : BOOLEAN,
     outfile : BOOLEAN, metadataFile : BOOLEAN]

\* main's Action: which of the two actions runs, by its first step.
Entry == IF inv.list THEN "durations" ELSE "credentials"

\* piaServerList: per region whether it forwards ports and has servers.
piaServerLists ==
    UNION {[D -> [pf : BOOLEAN, wg : BOOLEAN, meta : BOOLEAN]] :
             D \in SUBSET Regions \ {{}}}
NoList == [r \in {} |-> [pf |-> FALSE, wg |-> FALSE, meta |-> FALSE]]

\* AddKeyResult: whether PIA said OK, and the fields the generator looks at.
AddKeyResults ==
    [ok : BOOLEAN, dns : BOOLEAN, vip : BOOLEAN, host : Hosts \cup {NoHost}]
NoAnswer == [ok |-> FALSE, dns |-> FALSE, vip |-> FALSE, host |-> NoHost]

\* What is in an output file, and which run put it there (0: none did).
Files == [run : 0..MaxRuns, body : {"absent", "torn", "whole"},
          host : Hosts \cup {NoHost}, gateway : BOOLEAN]
NoFile == [run |-> 0, body |-> "absent", host |-> NoHost, gateway |-> FALSE]

Locations == {"credentials", "durations", "serverList", "listing", "client",
              "token", "tokenAnswer", "keys", "certificate", "addKey",
              "addKeyAnswer", "config", "metadata", "outfile", "outfileWrite",
              "json", "metadataFile", "metadataFileWrite", "done"}

\* A run starts with nothing but its command line.
Fresh ==
    /\ creds' = "none" /\ list' = NoList /\ token' = "none" /\ caCert' = "none"
    /\ answer' = NoAnswer
    /\ sent' = {} /\ out' = {} /\ printed' = {}
    /\ exit' = "none"

Init ==
    /\ inv \in Invocations
    /\ run = 1
    /\ pc = Entry
    /\ creds = "none" /\ list = NoList /\ token = "none" /\ caCert = "none"
    /\ answer = NoAnswer
    /\ sent = {} /\ out = {} /\ printed = {}
    /\ exit = "none"
    /\ conf = NoFile /\ meta = NoFile
    /\ keys = {} /\ misled = {}

-----------------------------------------------------------------------------
Finish(status) == pc' = "done" /\ exit' = status
Goto(next) == pc' = next /\ UNCHANGED exit

\* credentialsFromInvocation: where the credentials come from, or "invalid".
\* An inherited descriptor may fail to be read or hold anything.
BugFallsBackToArguments(readable) ==
    IF inv.fd = "inherited" /\ readable THEN "fd" ELSE "args"

credentialsFromInvocation(readable) ==
    IF inv.fd = "none" THEN "args"
    ELSE IF inv.args \/ inv.fd = "low" \/ ~readable THEN "invalid"
    ELSE "fd"

TakeCredentials ==
    /\ pc = "credentials"
    /\ \E readable \in BOOLEAN :
        LET source == credentialsFromInvocation(readable) IN
        IF source = "invalid"
        THEN Finish("error") /\ UNCHANGED creds
        ELSE Goto("durations") /\ creds' = source
    /\ UNCHANGED <<inv, run, list, token, caCert, answer, effects, files, registrations>>

ParseDurations ==
    /\ pc = "durations"
    /\ IF inv.durations THEN Goto("serverList") ELSE Finish("error")
    /\ UNCHANGED <<inv, run, client, effects, files, registrations>>

\* The list cannot be had, does not parse, or holds no region.
ServerListFails ==
    /\ pc = "serverList"
    /\ Finish("error")
    /\ UNCHANGED <<inv, run, client, effects, files, registrations>>

ServerListParsed ==
    /\ pc = "serverList"
    /\ list' \in piaServerLists
    /\ Goto(IF inv.list THEN "listing" ELSE "client")
    /\ UNCHANGED <<inv, run, creds, token, caCert, answer, effects, files, registrations>>

BugListingNeedsMeta == {r \in DOMAIN list : (inv.pf => list[r].pf) /\ list[r].meta}

\* The regions listRegionsAction prints.
listedRegions == {r \in DOMAIN list : inv.pf => list[r].pf}

ListRegions ==
    /\ pc = "listing"
    /\ printed' = listedRegions
    /\ out' = {<<"stdout", "regions">>}
    /\ Finish("ok")
    /\ UNCHANGED <<inv, run, client, sent, files, registrations>>

-----------------------------------------------------------------------------
(***************************************************************************)
(* NewPIAClient.                                                            *)
(***************************************************************************)

\* The regions of the two server lists: with -p only those that forward ports.
BugFilterDropped == {r \in DOMAIN list : list[r].wg}

generateWireguardServerList ==
    {r \in DOMAIN list : (inv.pf => list[r].pf) /\ list[r].wg}
generateMetadataServerList ==
    {r \in DOMAIN list : (inv.pf => list[r].pf) /\ list[r].meta}

NewPIAClient ==
    /\ pc = "client"
    /\ IF generateMetadataServerList # {} /\ Region \in generateWireguardServerList
       THEN Goto("token")
       ELSE Finish("error")
    /\ UNCHANGED <<inv, run, client, effects, files, registrations>>

-----------------------------------------------------------------------------
(***************************************************************************)
(* Generate: the token, the key pair, the registration.                     *)
(***************************************************************************)
Sending(what, to) == [what |-> what, to |-> to, source |-> creds]

\* http.PostForm sends the credentials to the central API.
RequestToken ==
    /\ pc = "token"
    /\ sent' = sent \cup {Sending("credentials", "tokenAPI")}
    /\ Goto("tokenAnswer")
    /\ UNCHANGED <<inv, run, client, out, printed, files, registrations>>

\* The default client follows a redirect of the API, form included.
TokenRedirected ==
    /\ pc = "tokenAnswer"
    /\ Sending("credentials", "redirected") \notin sent
    /\ sent' = sent \cup {Sending("credentials", "redirected")}
    /\ UNCHANGED <<inv, run, pc, client, out, printed, exit, files, registrations>>

\* The connection or the body fails, or the status is not 200.
TokenFails ==
    /\ pc \in {"token", "tokenAnswer"}
    /\ Finish("error")
    /\ UNCHANGED <<inv, run, client, effects, files, registrations>>

BugEmptyTokenUsed(t) == t # "malformed"

usableToken(t) == t # "malformed" /\ t # "empty"

TokenAnswered ==
    /\ pc = "tokenAnswer"
    /\ \E t \in {"malformed", "empty", "granted"} :
        IF usableToken(t)
        THEN token' = t /\ Goto("keys")
        ELSE Finish("error") /\ UNCHANGED token
    /\ UNCHANGED <<inv, run, creds, list, caCert, answer, effects, files, registrations>>

\* The random source may fail.
generateKeys ==
    /\ pc = "keys"
    /\ Finish("error") \/ Goto("certificate")
    /\ UNCHANGED <<inv, run, client, effects, files, registrations>>

\* The status of the download is not looked at: anything may come back.
downloadPIACertificate ==
    /\ pc = "certificate"
    /\ \/ Finish("error") /\ UNCHANGED caCert
       \/ Goto("addKey") /\ caCert' \in {"pia", "junk"}
    /\ UNCHANGED <<inv, run, creds, list, token, answer, effects, files, registrations>>

\* The first server of the region, at its listed address, proved its name with
\* a certificate under caCert.  Credentials go along when there is no token.
executePIARequest ==
    /\ pc = "addKey"
    /\ caCert = "pia"
    /\ sent' = sent \cup {Sending("token", "regional")}
                    \cup (IF token = "empty" THEN {Sending("credentials", "regional")} ELSE {})
    /\ Goto("addKeyAnswer")
    /\ UNCHANGED <<inv, run, client, out, printed, files, registrations>>

\* PIA processes the registration, answered or not.
PIARegisters ==
    /\ Sending("token", "regional") \in sent
    /\ run \notin keys
    /\ keys' = keys \cup {run}
    /\ UNCHANGED <<inv, run, pc, client, effects, exit, files, misled>>

\* No certificate to trust, no connection, no body, a status other than 200, or
\* a body that is no JSON.
AddKeyFails ==
    /\ pc \in {"addKey", "addKeyAnswer"}
    /\ Finish("error")
    /\ UNCHANGED <<inv, run, client, effects, files, registrations>>

\* PIA says OK only once the key is registered.  Nothing else is known of its
\* answers of status 200: AddKey decodes any JSON, and no one looks at the status
\* field, so that a refusal may carry what a configuration is made from.
PIAAnswers == {a \in AddKeyResults : a.ok => run \in keys}

AddKeyAnswered ==
    /\ pc = "addKeyAnswer"
    /\ answer' \in PIAAnswers
    /\ misled' = IF ~answer'.ok /\ answer'.dns THEN misled \cup {run} ELSE misled
    /\ Goto("config")
    /\ UNCHANGED <<inv, run, creds, list, token, caCert, effects, files, keys>>

-----------------------------------------------------------------------------
(***************************************************************************)
(* Generate: the configuration and the metadata, made in memory.            *)
(***************************************************************************)
BugMissingDNSTolerated ==
    /\ pc = "config"
    /\ IF inv.server /\ Region \notin generateMetadataServerList
       THEN Finish("panicServer")
       ELSE Goto("metadata")
    /\ UNCHANGED <<inv, run, client, effects, files, registrations>>

\* Two unchecked index expressions: the region's first metadata server (with
\* -s) and the first DNS server of the answer.
generateConfig ==
    /\ pc = "config"
    /\ IF inv.server /\ Region \notin generateMetadataServerList
       THEN Finish("panicServer")
       ELSE IF ~answer.dns THEN Finish("panicDNS")
       ELSE Goto("metadata")
    /\ UNCHANGED <<inv, run, client, effects, files, registrations>>

BugGatewayNotRequired ==
    /\ pc = "metadata"
    /\ Goto("outfile")
    /\ UNCHANGED <<inv, run, client, effects, files, registrations>>

buildMetadata ==
    /\ pc = "metadata"
    /\ IF inv.pf /\ ~answer.vip THEN Finish("error") ELSE Goto("outfile")
    /\ UNCHANGED <<inv, run, client, effects, files, registrations>>

-----------------------------------------------------------------------------
(***************************************************************************)
(* The outputs.  os.WriteFile truncates the file, then fills it.            *)
(***************************************************************************)
Truncated == [run |-> run, body |-> "torn", host |-> NoHost, gateway |-> FALSE]
Filled == [run |-> run, body |-> "whole", host |-> answer.host, gateway |-> answer.vip]

TruncateOutfile ==
    /\ pc = "outfile"
    /\ inv.outfile
    /\ conf' = Truncated
    /\ Goto("outfileWrite")
    /\ UNCHANGED <<inv, run, client, effects, meta, registrations>>

FillOutfile ==
    /\ pc = "outfileWrite"
    /\ conf' = Filled
    /\ Goto("json")
    /\ UNCHANGED <<inv, run, client, effects, meta, registrations>>

\* Without --outfile the configuration is logged, unless --json is given.
LogConfig ==
    /\ pc = "outfile"
    /\ ~inv.outfile
    /\ out' = IF inv.json THEN out ELSE out \cup {<<"stderr", "config">>}
    /\ Goto("json")
    /\ UNCHANGED <<inv, run, client, sent, printed, files, registrations>>

PrintMetadata ==
    /\ pc = "json"
    /\ out' = IF inv.json THEN out \cup {<<"stdout", "metadata">>} ELSE out
    /\ Goto("metadataFile")
    /\ UNCHANGED <<inv, run, client, sent, printed, files, registrations>>

TruncateMetadataFile ==
    /\ pc = "metadataFile"
    /\ inv.metadataFile
    /\ meta' = Truncated
    /\ Goto("metadataFileWrite")
    /\ UNCHANGED <<inv, run, client, effects, conf, registrations>>

FillMetadataFile ==
    /\ pc = "metadataFileWrite"
    /\ meta' = Filled
    /\ Finish("ok")
    /\ UNCHANGED <<inv, run, client, effects, conf, registrations>>

NoMetadataFile ==
    /\ pc = "metadataFile"
    /\ ~inv.metadataFile
    /\ Finish("ok")
    /\ UNCHANGED <<inv, run, client, effects, files, registrations>>

BugOutfileErrorIgnored ==
    /\ \/ pc \in {"outfile", "outfileWrite"} /\ inv.outfile /\ Goto("json")
       \/ pc = "json" /\ inv.json /\ Finish("error")
       \/ pc \in {"metadataFile", "metadataFileWrite"} /\ inv.metadataFile /\ Finish("error")
    /\ UNCHANGED <<inv, run, client, effects, files, registrations>>

\* Opening or writing an output fails; what is already out stays.
OutputFails ==
    /\ \/ pc \in {"outfile", "outfileWrite"} /\ inv.outfile
       \/ pc = "json" /\ inv.json
       \/ pc \in {"metadataFile", "metadataFileWrite"} /\ inv.metadataFile
    /\ Finish("error")
    /\ UNCHANGED <<inv, run, client, effects, files, registrations>>

-----------------------------------------------------------------------------
Kill ==
    /\ pc # "done"
    /\ Finish("killed")
    /\ UNCHANGED <<inv, run, client, effects, files, registrations>>

\* The same command line is run again on the files left behind.
Rerun ==
    /\ pc = "done"
    /\ run < MaxRuns
    /\ run' = run + 1
    /\ pc' = Entry
    /\ Fresh
    /\ UNCHANGED <<inv, files, registrations>>

Terminated == pc = "done" /\ run = MaxRuns /\ UNCHANGED vars

Client == TakeCredentials \/ ParseDurations \/ ServerListFails \/ ServerListParsed
          \/ ListRegions \/ NewPIAClient
Generate == RequestToken \/ TokenRedirected \/ TokenFails \/ TokenAnswered
            \/ generateKeys \/ downloadPIACertificate \/ executePIARequest
            \/ AddKeyFails \/ AddKeyAnswered \/ generateConfig \/ buildMetadata
Output == TruncateOutfile \/ FillOutfile \/ LogConfig \/ PrintMetadata
          \/ TruncateMetadataFile \/ FillMetadataFile \/ NoMetadataFile \/ OutputFails
Next == Client \/ Generate \/ Output \/ PIARegisters \/ Kill \/ Rerun \/ Terminated

Spec == Init /\ [][Next]_vars

-----------------------------------------------------------------------------
(***************************************************************************)
(* Properties.                                                              *)
(***************************************************************************)

\* Every variable keeps its type; a run ends in one of the ways main knows, the
\* two index panics included.
TypeOK ==
    /\ inv \in Invocations
    /\ run \in 1..MaxRuns
    /\ pc \in Locations
    /\ creds \in {"none", "args", "fd"}
    /\ list \in piaServerLists \cup {NoList}
    /\ token \in {"none", "granted"}
    /\ caCert \in {"none", "pia", "junk"}
    /\ answer \in AddKeyResults
    /\ sent \subseteq [what : {"credentials", "token"},
                       to : {"tokenAPI", "redirected", "regional"}, source : {"args", "fd"}]
    /\ out \subseteq ({"stdout", "stderr"} \X {"regions", "config", "metadata"})
    /\ printed \subseteq Regions
    /\ exit \in {"none", "ok", "error", "panicServer", "panicDNS", "killed"}
    /\ (exit = "none") = (pc # "done")
    /\ conf \in Files /\ meta \in Files
    /\ {keys, misled} \subseteq SUBSET (1..MaxRuns)

\* The username and the password go to the central API, or where it redirects,
\* and never to a regional server: executePIARequest would add them as basic
\* authentication if getToken ever let an empty token through.
CredentialsStayCentral ==
    \A m \in sent : m.what = "credentials" => m.to # "regional"

\* README.md, "FD mode does not fall back": what is sent with --credentials-fd
\* on the command line came from the descriptor, however reading it fails, and
\* positional arguments are never sent along with it.
NoFallback ==
    \A m \in sent : m.source = IF inv.fd = "none" THEN "args" ELSE "fd"

\* Nothing is sent, and no file is touched, for a listing, nor for a region that
\* is not in the list, has no WireGuard servers, or does not forward ports
\* although -p asks for it: NewPIAClient notices before GetToken.
UnusableRegionSpendsNothing ==
    (sent # {} \/ conf.run = run \/ meta.run = run) =>
        /\ ~inv.list
        /\ Region \in DOMAIN list
        /\ list[Region].wg
        /\ inv.pf => list[Region].pf

\* --list-regions shows every region that generation would accept with the same
\* flags: the two filters of listRegionsAction and NewPIAClient agree.
ListingComplete ==
    (inv.list /\ exit = "ok") => generateWireguardServerList \subseteq printed

RegisteredOrMisled == keys \cup misled

\* An output file of an earlier run is touched only by a run whose key PIA has
\* registered, or refused in an answer with a DNS server: AddKey and Generate
\* ignore the status field, and only the index into the answer's DNS servers
\* ends a run before its outputs.
RefusalKeepsFiles ==
    \A f \in {conf, meta} : f.run # 0 => f.run \in RegisteredOrMisled

\* With both files asked for, the metadata file is never ahead of the
\* configuration: whatever failed or was killed in whatever run, metadata of run
\* n is found only next to the whole configuration of run n, for the same
\* server, or next to a later run's.
MetadataNeverAhead ==
    (inv.outfile /\ meta.run # 0) =>
        \/ conf.run > meta.run
        \/ /\ conf.run = meta.run
           /\ conf.body = "whole"
           /\ meta.body = "whole" => meta.host = conf.host

\* Exit status 0 means that everything asked for is there, whole and from this
\* run, that a port-forwarding run has a gateway, and that the key is registered
\* but for an answer that refuses it and has a DNS server all the same.
SuccessMeansComplete ==
    (exit = "ok" /\ ~inv.list) =>
        /\ run \in RegisteredOrMisled
        /\ inv.outfile => conf.run = run /\ conf.body = "whole"
        /\ inv.metadataFile => meta.run = run /\ meta.body = "whole"
        /\ inv.json => <<"stdout", "metadata">> \in out
        /\ inv.pf => answer.vip

\* README.md, Flags: the default of --outfile is stdout.
ConfigToStdout ==
    (exit = "ok" /\ ~inv.list /\ ~inv.outfile) => <<"stdout", "config">> \in out

\* pia.go, NewPIAClient: "creates a new PIA client with the list of servers
\* populated", so that a lookup of the region's server does not fail.
ServersPopulated == exit # "panicServer"
=============================================================================
