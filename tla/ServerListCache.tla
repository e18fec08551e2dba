--------------------------- MODULE ServerListCache ---------------------------
(***************************************************************************)
(* The server-list cache (src/pia/serverlist.go): several pia-wg-config     *)
(* processes that share one cache file, each running                        *)
(* fetchServerListWithPolicy over and over, with the retries of the fetch,  *)
(* the write-to-temp-and-rename of the cache, kills and power losses.       *)
(*                                                                          *)
(* A server list is only "whole", "part" of one, or "bad": bytes that       *)
(* parseServerList refuses.  What is at stake is whether a run may use it,  *)
(* never what it says.  Ages are kept on an integer clock.                  *)
(***************************************************************************)
EXTENDS Integers

CONSTANTS
    Procs,          \* concurrent processes
    CacheTTL,       \* --serverlist-cache-ttl; 0 means the default
    CacheMaxAge,    \* --serverlist-cache-max-age; 0 means the default
    DefaultTTL,     \* 24 h
    DefaultMaxAge,  \* 168 h
    FetchRetries,   \* --serverlist-fetch-retries
    FetchedBodies,  \* what the server can answer with status 200
    BackoffCount,   \* len(defaultBackoffs), 5
    MaxNow          \* bound on the clock

ASSUME CacheConstants ==
    /\ {CacheTTL, CacheMaxAge, DefaultTTL, DefaultMaxAge, MaxNow} \subseteq Nat
    /\ FetchRetries \in Int
    /\ FetchedBodies \subseteq {"bad", "whole"}
    /\ BackoffCount \in Nat \ {0}

VARIABLES
    now,      \* the wall clock
    cache,    \* the file at CachePath
    durable,  \* what the disk holds for CachePath if power is lost now
    pc,       \* where each process is
    why,      \* why it fetches: no cache path, force, missing, expired, stale
    modTime,  \* the mtime its Stat returned
    cached,   \* the bytes its ReadFile returned
    age,      \* the age it computed for them
    attempt,  \* attempts of the fetch loop so far
    data,     \* the bytes its fetch returned
    tmp,      \* its temporary file
    result    \* what fetchServerListWithPolicy returned

procState == <<pc, why, modTime, cached, age, attempt, data, tmp, result>>
disk == <<cache, durable>>
vars == <<now, disk, procState>>

-----------------------------------------------------------------------------
\* A file: how much of the list it holds, its mtime, whether it was synced.
Bodies == {"none", "part", "bad", "whole"}
Files == [body : Bodies, mtime : Nat, synced : BOOLEAN]
NoFile == [body |-> "none", mtime |-> 0, synced |-> TRUE]

\* What a fetch attempt can end in, as isTransientError tells errors apart:
\* a status it lists or not, a timeout, any other error of http.Get (which
\* always wraps its cause in a *url.Error), a *net.OpError from reading the
\* body, any other error of the body.
FetchErrors == {"statusTransient", "statusOther", "timeout", "connect", "bodyOpError", "body"}

Results == [source : {"none", "network", "cache", "error"}, body : Bodies,
            age : Int, refresh : FetchErrors \cup {"none"}]
NoResult == [source |-> "none", body |-> "none", age |-> 0, refresh |-> "none"]

Saving == {"mkdir", "createTemp", "write", "sync", "close", "chmod", "rename"}
Running == {"stat", "readFile", "fetch", "sleep"} \cup Saving
Locations == Running \cup {"idle", "returned", "killed"}

Init ==
    /\ now = 0
    /\ cache = NoFile
    /\ durable = NoFile
    /\ pc = [p \in Procs |-> "idle"]
    /\ why = [p \in Procs |-> "nocache"]
    /\ modTime = [p \in Procs |-> 0]
    /\ cached = [p \in Procs |-> "none"]
    /\ age = [p \in Procs |-> 0]
    /\ attempt = [p \in Procs |-> 0]
    /\ data = [p \in Procs |-> "none"]
    /\ tmp = [p \in Procs |-> NoFile]
    /\ result = [p \in Procs |-> NoResult]

-----------------------------------------------------------------------------
ttl == IF CacheTTL = 0 THEN DefaultTTL ELSE CacheTTL
maxAge == IF CacheMaxAge = 0 THEN DefaultMaxAge ELSE CacheMaxAge

maxAttempts == IF FetchRetries <= 0 THEN BackoffCount + 1 ELSE FetchRetries

isTransientError(err) == err \in {"statusTransient", "timeout", "bodyOpError"}

Goto(p, location) == pc' = [pc EXCEPT ![p] = location]

Return(p, r) ==
    /\ Goto(p, "returned")
    /\ result' = [result EXCEPT ![p] = r]

ReturnError(p, err) ==
    Return(p, [source |-> "error", body |-> "none", age |-> 0, refresh |-> err])
ReturnFetched(p, body) ==
    Return(p, [source |-> "network", body |-> body, age |-> 0, refresh |-> "none"])
ReturnCached(p, body, a, err) ==
    Return(p, [source |-> "cache", body |-> body, age |-> a, refresh |-> err])

\* Enter fetchServerListWithRetry.
StartFetch(p, reason) ==
    /\ Goto(p, "fetch")
    /\ why' = [why EXCEPT ![p] = reason]
    /\ attempt' = [attempt EXCEPT ![p] = 1]

-----------------------------------------------------------------------------
(***************************************************************************)
(* fetchServerListWithPolicy.                                               *)
(***************************************************************************)

\* A process calls fetchServerListWithPolicy, with or without a cache path,
\* with or without --serverlist-force-refresh.
Begin(p) ==
    /\ pc[p] \in {"idle", "returned", "killed"}
    /\ result' = [result EXCEPT ![p] = NoResult]
    /\ cached' = [cached EXCEPT ![p] = "none"]
    /\ modTime' = [modTime EXCEPT ![p] = 0]
    /\ age' = [age EXCEPT ![p] = 0]
    /\ data' = [data EXCEPT ![p] = "none"]
    /\ tmp' = [tmp EXCEPT ![p] = NoFile]
    /\ \/ \E reason \in {"nocache", "force"} : StartFetch(p, reason)
       \/ Goto(p, "stat") /\ UNCHANGED <<why, attempt>>
    /\ UNCHANGED <<now, disk>>

\* readServerListCache, first half: os.Stat.
Stat(p) ==
    /\ pc[p] = "stat"
    /\ \/ /\ cache = NoFile
          /\ StartFetch(p, "missing")
          /\ UNCHANGED <<modTime, result>>
       \/ /\ cache # NoFile
          /\ modTime' = [modTime EXCEPT ![p] = cache.mtime]
          /\ Goto(p, "readFile")
          /\ UNCHANGED <<why, attempt, result>>
       \/ /\ ReturnError(p, "none")
          /\ UNCHANGED <<why, attempt, modTime>>
    /\ UNCHANGED <<now, disk, cached, age, data, tmp>>

\* The decision taken on the cached bytes and their age.
BugStaleServedWithoutRefresh(p, a, body) ==
    \/ /\ a <= maxAge
       /\ ReturnCached(p, body, a, "none")
       /\ UNCHANGED <<why, attempt>>
    \/ a > maxAge /\ StartFetch(p, "expired") /\ UNCHANGED result

UseCache(p, a, body) ==
    \/ /\ a <= ttl
       /\ ReturnCached(p, body, a, "none")
       /\ UNCHANGED <<why, attempt>>
    \/ a > ttl /\ a > maxAge /\ StartFetch(p, "expired") /\ UNCHANGED result
    \/ a > ttl /\ a <= maxAge /\ StartFetch(p, "stale") /\ UNCHANGED result

\* readServerListCache, second half: os.ReadFile, by path, so the file may be
\* another one than Stat saw, or gone.
ReadFile(p) ==
    /\ pc[p] = "readFile"
    /\ \/ /\ cache = NoFile
          /\ StartFetch(p, "missing")
          /\ UNCHANGED <<cached, age, result>>
       \/ /\ cache # NoFile
          /\ cached' = [cached EXCEPT ![p] = cache.body]
          /\ age' = [age EXCEPT ![p] = now - modTime[p]]
          /\ UseCache(p, now - modTime[p], cache.body)
       \/ /\ ReturnError(p, "none")
          /\ UNCHANGED <<why, attempt, cached, age>>
    /\ UNCHANGED <<now, disk, modTime, data, tmp>>

\* fetchServerListRaw succeeds: without a cache path the list is returned at
\* once, otherwise the cache is written first.
FetchSucceeds(p) ==
    /\ pc[p] = "fetch"
    /\ \E body \in FetchedBodies :
        /\ data' = [data EXCEPT ![p] = body]
        /\ \/ why[p] = "nocache" /\ ReturnFetched(p, body)
           \/ why[p] # "nocache" /\ Goto(p, "mkdir") /\ UNCHANGED result
    /\ UNCHANGED <<now, disk, why, modTime, cached, age, attempt, tmp>>

BugErrorNotWrapped(p, err) ==
    IF why[p] = "stale"
    THEN ReturnCached(p, cached[p], age[p], err)
    ELSE ReturnError(p, "exhausted")

\* The fetch failed for good: only a stale cache can stand in.  Its age is the
\* one measured before the attempts.
GiveUp(p, err) ==
    IF why[p] = "stale"
    THEN ReturnCached(p, cached[p], age[p], err)
    ELSE ReturnError(p, err)

BugOneAttemptShort(p) == attempt[p] >= maxAttempts - 1

lastAttempt(p) == attempt[p] = maxAttempts

FetchFails(p) ==
    /\ pc[p] = "fetch"
    /\ \E err \in FetchErrors :
        \/ /\ ~isTransientError(err) \/ lastAttempt(p)
           /\ GiveUp(p, err)
        \/ /\ isTransientError(err) /\ ~lastAttempt(p)
           /\ Goto(p, "sleep")
           /\ UNCHANGED result
    /\ UNCHANGED <<now, disk, why, modTime, cached, age, attempt, data, tmp>>

\* The backoff is over.
BugAttemptNotCounted(p) ==
    /\ pc[p] = "sleep"
    /\ Goto(p, "fetch")
    /\ UNCHANGED <<now, disk, why, modTime, cached, age, attempt, data, tmp, result>>

Wake(p) ==
    /\ pc[p] = "sleep"
    /\ Goto(p, "fetch")
    /\ attempt' = [attempt EXCEPT ![p] = @ + 1]
    /\ UNCHANGED <<now, disk, why, modTime, cached, age, data, tmp, result>>

-----------------------------------------------------------------------------
(***************************************************************************)
(* writeServerListCache.  A failure is only logged: the fetched list is     *)
(* returned all the same.                                                   *)
(***************************************************************************)
BugSaveErrorReturned(p) == ReturnError(p, "none")

SaveFails(p) == ReturnFetched(p, data[p])

MkdirAll(p) ==
    /\ pc[p] = "mkdir"
    /\ \/ Goto(p, "createTemp") /\ UNCHANGED result
       \/ SaveFails(p)
    /\ UNCHANGED <<now, disk, why, modTime, cached, age, attempt, data, tmp>>

CreateTemp(p) ==
    /\ pc[p] = "createTemp"
    /\ \/ /\ Goto(p, "write")
          /\ tmp' = [tmp EXCEPT ![p] = [body |-> "part", mtime |-> now, synced |-> FALSE]]
          /\ UNCHANGED result
       \/ SaveFails(p) /\ UNCHANGED tmp
    /\ UNCHANGED <<now, disk, why, modTime, cached, age, attempt, data>>

\* cleanup: os.Remove of the temporary file, in the directory that has just let
\* the process create it.
BugNoCleanup(p) == UNCHANGED tmp

cleanup(p) == tmp' = [tmp EXCEPT ![p] = NoFile]

WriteTemp(p) ==
    /\ pc[p] = "write"
    /\ \/ /\ Goto(p, "sync")
          /\ tmp' = [tmp EXCEPT ![p] = [body |-> data[p], mtime |-> now, synced |-> FALSE]]
          /\ UNCHANGED result
       \/ SaveFails(p) /\ cleanup(p)
    /\ UNCHANGED <<now, disk, why, modTime, cached, age, attempt, data>>

BugNoSync(p) ==
    /\ pc[p] = "sync"
    /\ Goto(p, "close")
    /\ UNCHANGED <<now, disk, why, modTime, cached, age, attempt, data, tmp, result>>

Sync(p) ==
    /\ pc[p] = "sync"
    /\ \/ /\ Goto(p, "close")
          /\ tmp' = [tmp EXCEPT ![p] = [body |-> tmp[p].body, mtime |-> tmp[p].mtime,
                                         synced |-> TRUE]]
          /\ UNCHANGED result
       \/ SaveFails(p) /\ cleanup(p)
    /\ UNCHANGED <<now, disk, why, modTime, cached, age, attempt, data>>

CloseTemp(p) ==
    /\ pc[p] = "close"
    /\ \/ Goto(p, "chmod") /\ UNCHANGED <<tmp, result>>
       \/ SaveFails(p) /\ cleanup(p)
    /\ UNCHANGED <<now, disk, why, modTime, cached, age, attempt, data>>

Chmod(p) ==
    /\ pc[p] = "chmod"
    /\ \/ Goto(p, "rename") /\ UNCHANGED <<tmp, result>>
       \/ SaveFails(p) /\ cleanup(p)
    /\ UNCHANGED <<now, disk, why, modTime, cached, age, attempt, data>>

Rename(p) ==
    /\ pc[p] = "rename"
    /\ \/ /\ cache' = tmp[p]
          /\ tmp' = [tmp EXCEPT ![p] = NoFile]
          /\ ReturnFetched(p, data[p])
       \/ SaveFails(p) /\ cleanup(p) /\ UNCHANGED cache
    /\ UNCHANGED <<now, durable, why, modTime, cached, age, attempt, data>>

-----------------------------------------------------------------------------
(***************************************************************************)
(* The surroundings.                                                        *)
(***************************************************************************)
Tick ==
    /\ now < MaxNow
    /\ now' = now + 1
    /\ UNCHANGED <<disk, procState>>

\* A process is killed; its temporary file stays behind under a name no other
\* run uses.
Kill(p) ==
    /\ pc[p] \in Running
    /\ Goto(p, "killed")
    /\ UNCHANGED <<now, disk, why, modTime, cached, age, attempt, data, tmp, result>>

\* Somebody deletes the cache file.
RemoveCache ==
    /\ cache # NoFile
    /\ cache' = NoFile
    /\ UNCHANGED <<now, durable, procState>>

\* The kernel writes the directory entry back, not necessarily the data.
Writeback ==
    /\ durable # cache
    /\ durable' = cache
    /\ UNCHANGED <<now, cache, procState>>

\* Power is lost: everybody dies, data that was not synced is lost in part.
PowerLoss ==
    /\ \E p \in Procs : pc[p] \in Running
    /\ cache' = IF durable.synced THEN durable
                ELSE [body |-> "part", mtime |-> durable.mtime, synced |-> TRUE]
    /\ durable' = cache'
    /\ pc' = [p \in Procs |-> IF pc[p] \in Running THEN "killed" ELSE pc[p]]
    /\ UNCHANGED <<now, why, modTime, cached, age, attempt, data, tmp, result>>

-----------------------------------------------------------------------------
Step(p) ==
    \/ Stat(p) \/ ReadFile(p) \/ FetchSucceeds(p) \/ FetchFails(p) \/ Wake(p)
    \/ MkdirAll(p) \/ CreateTemp(p) \/ WriteTemp(p) \/ Sync(p) \/ CloseTemp(p)
    \/ Chmod(p) \/ Rename(p)

Next ==
    \/ \E p \in Procs : Begin(p) \/ Step(p) \/ Kill(p)
    \/ Tick \/ RemoveCache \/ Writeback \/ PowerLoss

Spec == Init /\ [][Next]_vars

\* A started run is scheduled, and the server-list server answers every request
\* or drops it: http.Get has no timeout of its own, so this is an assumption
\* about the network, not something the code enforces.
Fairness == \A p \in Procs : WF_vars(Step(p))
FairSpec == Spec /\ Fairness

-----------------------------------------------------------------------------
(***************************************************************************)
(* Properties.                                                              *)
(***************************************************************************)

\* Every variable keeps its type.
TypeOK ==
    /\ now \in Nat
    /\ cache \in Files /\ durable \in Files
    /\ pc \in [Procs -> Locations]
    /\ why \in [Procs -> {"nocache", "force", "missing", "expired", "stale"}]
    /\ modTime \in [Procs -> Nat]
    /\ cached \in [Procs -> Bodies]
    /\ age \in [Procs -> Int]
    /\ attempt \in [Procs -> Nat]
    /\ data \in [Procs -> Bodies \ {"part"}]
    /\ tmp \in [Procs -> Files]
    /\ result \in [Procs -> Results]

\* No run is ever given a torn list from the cache, whoever writes it at the
\* same time, is killed or loses power in between: writeServerListCache syncs
\* the temporary file before it renames it.
NeverTorn ==
    /\ cache.body # "part"
    /\ \A p \in Procs : result[p].body # "part"

\* A run that returns has removed or renamed its temporary file, also when a
\* step of writeServerListCache failed.
NoTempLeft == \A p \in Procs : pc[p] = "returned" => tmp[p] = NoFile

\* The cache stands in for the server only as documented: up to the TTL without
\* a refresh, between the TTL and the maximum age only when this run's own
\* refresh has failed (ages as measured when the cache was read).
CacheUseJustified ==
    \A p \in Procs : result[p].source = "cache" =>
        \/ result[p].age <= ttl /\ result[p].refresh = "none"
        \/ /\ ttl < result[p].age /\ result[p].age <= maxAge
           /\ result[p].refresh # "none"

\* A run gives up on the server only after an error it considers permanent or
\* after the last attempt of fetchServerListWithRetry, and never exceeds it.
RetriesExhausted ==
    \A p \in Procs :
        /\ attempt[p] <= maxAttempts
        /\ result[p].refresh # "none" =>
             ~isTransientError(result[p].refresh) \/ attempt[p] = maxAttempts

\* A run that got the list from the server returns the bytes it got, even when a
\* step of writeServerListCache fails or another run replaces the cache.
FetchedListServed ==
    [][\A p \in Procs : (pc[p] \in Saving /\ pc'[p] = "returned") =>
            result'[p].source = "network" /\ result'[p].body = data[p]]_vars

\* Every run that is neither killed nor cut off returns.
RunReturns ==
    \A p \in Procs : (pc[p] \in Running) ~> (pc[p] \in {"returned", "killed"})

\* README.md and the flag's usage call max-age the age from which the cache is
\* invalid: at the moment a list is handed over from the cache it is not older
\* than that, whatever the TTL is and however long a refresh has been tried.
NeverServedInvalid ==
    [][\A p \in Procs :
          (pc[p] # "returned" /\ pc'[p] = "returned" /\ result'[p].source = "cache") =>
              now - modTime[p] <= maxAge]_vars

\* The comment in isTransientError: network errors other than timeouts (DNS,
\* connection refused) are transient, so a run gives up on one only after its
\* last attempt.
ConnectErrorsRetried ==
    \A p \in Procs : result[p].refresh = "connect" => attempt[p] = maxAttempts
=============================================================================
