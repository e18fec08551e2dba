------------------------ MODULE ServerListCacheProofs ------------------------
(***************************************************************************)
(* Proofs about ServerListCache, for any number of processes, any ages and  *)
(* any number of attempts.                                                  *)
(***************************************************************************)
EXTENDS ServerListCache, TLAPS

\* Records returned to the caller are results.
LEMMA ResultTypes ==
    /\ NoResult \in Results
    /\ \A src \in {"network", "cache", "error"}, b \in Bodies,
          a \in Int, err \in FetchErrors \cup {"none"} :
         [source |-> src, body |-> b, age |-> a, refresh |-> err] \in Results
    /\ NoFile \in Files
BY DEF NoResult, Results, Files, NoFile, FetchErrors, Bodies

\* Returning keeps the types of what it assigns.
LEMMA ReturnType ==
    ASSUME TypeOK, NEW p \in Procs,
           \/ \E err \in FetchErrors \cup {"none"} : ReturnError(p, err)
           \/ \E b \in Bodies : ReturnFetched(p, b)
           \/ \E b \in Bodies, a \in Int, err \in FetchErrors \cup {"none"} :
                ReturnCached(p, b, a, err)
    PROVE  pc' \in [Procs -> Locations] /\ result' \in [Procs -> Results]
<1>0. ASSUME NEW r \in Results, Return(p, r)
      PROVE  pc' \in [Procs -> Locations] /\ result' \in [Procs -> Results]
  BY <1>0 DEF TypeOK, Return, Goto, Locations
<1>1. ASSUME NEW b \in Bodies, ReturnFetched(p, b)
      PROVE  pc' \in [Procs -> Locations] /\ result' \in [Procs -> Results]
  BY <1>0, <1>1, ResultTypes DEF ReturnFetched
<1>2. ASSUME NEW err \in FetchErrors \cup {"none"}, ReturnError(p, err)
      PROVE  pc' \in [Procs -> Locations] /\ result' \in [Procs -> Results]
  BY <1>0, <1>2, ResultTypes DEF ReturnError, Bodies
<1>3. ASSUME NEW b \in Bodies, NEW a \in Int,
             NEW err \in FetchErrors \cup {"none"}, ReturnCached(p, b, a, err)
      PROVE  pc' \in [Procs -> Locations] /\ result' \in [Procs -> Results]
  BY <1>0, <1>3, ResultTypes DEF ReturnCached
<1> QED BY <1>1, <1>2, <1>3

\* So does entering the fetch loop.
LEMMA StartFetchType ==
    ASSUME TypeOK, NEW p \in Procs,
           NEW reason \in {"nocache", "force", "missing", "expired", "stale"},
           StartFetch(p, reason)
    PROVE  /\ pc' \in [Procs -> Locations]
           /\ why' \in [Procs -> {"nocache", "force", "missing", "expired", "stale"}]
           /\ attempt' \in [Procs -> Nat]
BY DEF TypeOK, StartFetch, Goto, Locations, Running

\* So does moving a process.
LEMMA GotoType ==
    ASSUME TypeOK, NEW p \in Procs, NEW l \in Running, Goto(p, l)
    PROVE  pc' \in [Procs -> Locations]
BY DEF TypeOK, Goto, Locations

\* The steps of fetchServerListWithPolicy up to the decision keep the types.
LEMMA PolicyTypes ==
    ASSUME TypeOK, NEW p \in Procs, Begin(p) \/ Stat(p) \/ ReadFile(p)
    PROVE  TypeOK'
<1> USE DEF disk
<1>0. {"stat", "readFile"} \subseteq Running
  BY DEF Running
<1>1. CASE Begin(p)
  <2>1. /\ result' \in [Procs -> Results] /\ tmp' \in [Procs -> Files]
        /\ cached' \in [Procs -> Bodies]
        /\ modTime' \in [Procs -> Nat] /\ age' \in [Procs -> Int]
        /\ data' \in [Procs -> Bodies \ {"part"}]
    BY <1>1, ResultTypes DEF Begin, TypeOK, Bodies
  <2>2. /\ pc' \in [Procs -> Locations]
        /\ why' \in [Procs -> {"nocache", "force", "missing", "expired", "stale"}]
        /\ attempt' \in [Procs -> Nat]
    <3>1. CASE \E reason \in {"nocache", "force"} : StartFetch(p, reason)
      BY <3>1, StartFetchType
    <3>2. CASE Goto(p, "stat") /\ UNCHANGED <<why, attempt>>
      BY <1>0, <3>2, GotoType DEF TypeOK
    <3> QED BY <1>1, <3>1, <3>2 DEF Begin
  <2> QED BY <1>1, <2>1, <2>2 DEF Begin, TypeOK
<1>2. CASE Stat(p)
  <2>1. CASE cache # NoFile /\ Goto(p, "readFile") /\ UNCHANGED <<why, attempt, result>>
             /\ modTime' = [modTime EXCEPT ![p] = cache.mtime]
    <3>1. modTime' \in [Procs -> Nat]
      BY <2>1 DEF TypeOK, Files
    <3> QED BY <1>0, <1>2, <2>1, <3>1, GotoType DEF Stat, TypeOK
  <2>2. CASE StartFetch(p, "missing") /\ UNCHANGED <<modTime, result>>
    BY <1>2, <2>2, StartFetchType DEF Stat, TypeOK
  <2>3. CASE ReturnError(p, "none") /\ UNCHANGED <<why, attempt, modTime>>
    BY <1>2, <2>3, ReturnType DEF Stat, TypeOK
  <2> QED BY <1>2, <2>1, <2>2, <2>3 DEF Stat
<1>3. CASE ReadFile(p)
  <2>1. CASE StartFetch(p, "missing") /\ UNCHANGED <<cached, age, result>>
    BY <1>3, <2>1, StartFetchType DEF ReadFile, TypeOK
  <2>2. CASE ReturnError(p, "none") /\ UNCHANGED <<why, attempt, cached, age>>
    BY <1>3, <2>2, ReturnType DEF ReadFile, TypeOK
  <2>3. CASE /\ cached' = [cached EXCEPT ![p] = cache.body]
             /\ age' = [age EXCEPT ![p] = now - modTime[p]]
             /\ UseCache(p, now - modTime[p], cache.body)
    <3>1. /\ cache.body \in Bodies /\ now - modTime[p] \in Int
          /\ cached' \in [Procs -> Bodies]
          /\ age' \in [Procs -> Int]
      BY <2>3 DEF TypeOK, Files
    <3>2. /\ pc' \in [Procs -> Locations] /\ result' \in [Procs -> Results]
          /\ why' \in [Procs -> {"nocache", "force", "missing", "expired", "stale"}]
          /\ attempt' \in [Procs -> Nat]
      <4>1. CASE /\ ReturnCached(p, cache.body, now - modTime[p], "none")
                 /\ UNCHANGED <<why, attempt>>
        BY <3>1, <4>1, ReturnType DEF TypeOK
      <4>2. CASE (StartFetch(p, "expired") \/ StartFetch(p, "stale")) /\ UNCHANGED result
        BY <4>2, StartFetchType DEF TypeOK
      <4> QED BY <2>3, <4>1, <4>2 DEF UseCache
    <3> QED BY <1>3, <3>1, <3>2 DEF ReadFile, TypeOK
  <2> QED BY <1>3, <2>1, <2>2, <2>3 DEF ReadFile
<1> QED BY <1>1, <1>2, <1>3

\* So do the steps of the fetch loop.
LEMMA FetchTypes ==
    ASSUME TypeOK, NEW p \in Procs, FetchSucceeds(p) \/ FetchFails(p) \/ Wake(p)
    PROVE  TypeOK'
<1> USE DEF disk
<1>0. {"mkdir", "sleep", "fetch"} \subseteq Running
  BY DEF Running, Saving
<1>1. CASE FetchSucceeds(p)
  <2>0. PICK body \in FetchedBodies :
          /\ data' = [data EXCEPT ![p] = body]
          /\ ReturnFetched(p, body) \/ (Goto(p, "mkdir") /\ UNCHANGED result)
    BY <1>1 DEF FetchSucceeds
  <2>1. body \in Bodies /\ data' \in [Procs -> Bodies \ {"part"}]
    BY <2>0, CacheConstants DEF TypeOK, Bodies
  <2>2. CASE ReturnFetched(p, body)
    BY <1>1, <2>1, <2>2, ReturnType DEF FetchSucceeds, TypeOK
  <2>3. CASE Goto(p, "mkdir") /\ UNCHANGED result
    BY <1>0, <1>1, <2>1, <2>3, GotoType DEF FetchSucceeds, TypeOK
  <2> QED BY <2>0, <2>2, <2>3
<1>2. CASE FetchFails(p)
  <2>1. PICK err \in FetchErrors : GiveUp(p, err) \/ (Goto(p, "sleep") /\ UNCHANGED result)
    BY <1>2 DEF FetchFails
  <2>2. cached[p] \in Bodies /\ age[p] \in Int
    BY DEF TypeOK
  <2>3. CASE GiveUp(p, err)
    BY <1>2, <2>2, <2>3, ReturnType DEF FetchFails, GiveUp, TypeOK
  <2>4. CASE Goto(p, "sleep") /\ UNCHANGED result
    BY <1>0, <1>2, <2>4, GotoType DEF FetchFails, TypeOK
  <2> QED BY <2>1, <2>3, <2>4
<1>3. CASE Wake(p)
  <2>1. attempt' \in [Procs -> Nat]
    BY <1>3 DEF Wake, TypeOK
  <2> QED BY <1>0, <1>3, <2>1, GotoType DEF Wake, TypeOK
<1> QED BY <1>1, <1>2, <1>3

\* So do the steps of writeServerListCache.
LEMMA SaveTypes ==
    ASSUME TypeOK, NEW p \in Procs,
           \/ MkdirAll(p) \/ CreateTemp(p) \/ WriteTemp(p) \/ Sync(p)
           \/ CloseTemp(p) \/ Chmod(p) \/ Rename(p)
    PROVE  TypeOK'
<1> USE DEF disk
<1>1. UNCHANGED <<now, durable, why, modTime, cached, age, attempt, data>>
  BY DEF MkdirAll, CreateTemp, WriteTemp, Sync, CloseTemp, Chmod, Rename
<1>2. pc' \in [Procs -> Locations] /\ result' \in [Procs -> Results]
  <2>1. CASE ReturnFetched(p, data[p])
    BY <2>1, ReturnType DEF TypeOK
  <2>2. CASE (\E l \in Saving : Goto(p, l)) /\ UNCHANGED result
    BY <2>2, GotoType DEF TypeOK, Running
  <2> QED BY <2>1, <2>2
          DEF MkdirAll, CreateTemp, WriteTemp, Sync, CloseTemp, Chmod, Rename, SaveFails, Saving
<1>3. /\ [body |-> "part", mtime |-> now, synced |-> FALSE] \in Files
      /\ [body |-> data[p], mtime |-> now, synced |-> FALSE] \in Files
      /\ [body |-> tmp[p].body, mtime |-> tmp[p].mtime, synced |-> TRUE] \in Files
      /\ tmp[p] \in Files /\ NoFile \in Files
  BY ResultTypes DEF TypeOK, Files, Bodies
<1>4. cache' \in Files
  BY <1>3 DEF MkdirAll, CreateTemp, WriteTemp, Sync, CloseTemp, Chmod, Rename, TypeOK
<1>5. \/ UNCHANGED tmp
      \/ \E f \in Files : tmp' = [tmp EXCEPT ![p] = f]
  BY <1>3 DEF MkdirAll, CreateTemp, WriteTemp, Sync, CloseTemp, Chmod, Rename, cleanup
<1>6. tmp' \in [Procs -> Files]
  BY <1>5 DEF TypeOK
<1> QED BY <1>1, <1>2, <1>4, <1>6 DEF TypeOK

\* The type invariant is inductive.
LEMMA TypeStep == TypeOK /\ [Next]_vars => TypeOK'
<1> SUFFICES ASSUME TypeOK, [Next]_vars PROVE TypeOK'
  OBVIOUS
<1> USE DEF disk, procState
<1>1. CASE \E p \in Procs : Begin(p) \/ Step(p)
  BY <1>1, PolicyTypes, FetchTypes, SaveTypes DEF Step
<1>2. CASE \E p \in Procs : Kill(p)
  BY <1>2 DEF Kill, Goto, TypeOK, Locations
<1>3. CASE Tick
  BY <1>3 DEF Tick, TypeOK
<1>4. CASE RemoveCache \/ Writeback
  BY <1>4, ResultTypes DEF RemoveCache, Writeback, TypeOK
<1>5. CASE PowerLoss
  <2>1. cache' \in Files /\ durable' \in Files
    BY <1>5 DEF PowerLoss, TypeOK, Files, Bodies
  <2>2. pc' \in [Procs -> Locations]
    BY <1>5 DEF PowerLoss, TypeOK, Locations
  <2> QED BY <1>5, <2>1, <2>2 DEF PowerLoss, TypeOK
<1>6. CASE UNCHANGED vars
  BY <1>6 DEF vars, TypeOK
<1> QED BY <1>1, <1>2, <1>3, <1>4, <1>5, <1>6 DEF Next

\* The variables of the cache model keep their types.
THEOREM TypeCorrect == Spec => []TypeOK
<1>1. Init => TypeOK
  BY ResultTypes DEF Init, TypeOK, Locations, Bodies
<1> QED BY <1>1, TypeStep, PTL DEF Spec

-----------------------------------------------------------------------------
(***************************************************************************)
(* No torn list.  The invariant follows the bytes: what is on disk under    *)
(* the cache's name, now or after a power loss, is whole and synced; so is  *)
(* every temporary file that is past Sync; so is all a process has read.    *)
(***************************************************************************)
Whole(f) == f.body # "part" /\ f.synced

TornInv ==
    /\ Whole(cache) /\ Whole(durable)
    /\ \A p \in Procs : pc[p] = "sync" => tmp[p].body # "part"
    /\ \A p \in Procs : pc[p] \in {"close", "chmod", "rename"} => Whole(tmp[p])
    /\ \A p \in Procs : cached[p] # "part" /\ result[p].body # "part"

\* A file that does not exist is not torn.
LEMMA NoFileWhole == Whole(NoFile)
BY DEF Whole, NoFile

\* Steps of one process that leave the disk alone.
LEMMA TornLocal ==
    ASSUME TypeOK, TornInv, NEW p \in Procs, UNCHANGED disk,
           \A q \in Procs \ {p} : /\ pc'[q] = pc[q] /\ tmp'[q] = tmp[q]
                                  /\ cached'[q] = cached[q] /\ result'[q] = result[q],
           cached'[p] # "part", result'[p].body # "part",
           pc'[p] = "sync" => tmp'[p].body # "part",
           pc'[p] \in {"close", "chmod", "rename"} => Whole(tmp'[p])
    PROVE  TornInv'
BY DEF TornInv, disk, Whole

\* Every step keeps TornInv: one case per action.
LEMMA TornStep == TypeOK /\ TornInv /\ [Next]_vars => TornInv'
<1> SUFFICES ASSUME TypeOK, TornInv, [Next]_vars PROVE TornInv'
  OBVIOUS
<1> USE DEF procState
<1>0. \A p \in Procs : data[p] # "part"
  BY DEF TypeOK
<1>1. ASSUME NEW p \in Procs, Begin(p) PROVE TornInv'
  BY <1>1, TornLocal, NoFileWhole
     DEF Begin, StartFetch, Goto, NoResult, TypeOK
<1>2. ASSUME NEW p \in Procs, Stat(p) PROVE TornInv'
  BY <1>2, TornLocal DEF Stat, StartFetch, ReturnError, Return, Goto, TypeOK, TornInv
<1>3. ASSUME NEW p \in Procs, ReadFile(p) PROVE TornInv'
  BY <1>3, TornLocal
     DEF ReadFile, UseCache, StartFetch, ReturnError, ReturnCached, Return, Goto, TypeOK,
         TornInv, Whole
<1>4. ASSUME NEW p \in Procs, FetchSucceeds(p) \/ FetchFails(p) \/ Wake(p)
      PROVE  TornInv'
  BY <1>4, TornLocal, CacheConstants
     DEF FetchSucceeds, FetchFails, Wake, GiveUp, ReturnFetched, ReturnError, ReturnCached,
         Return, Goto, TypeOK, TornInv
<1>5. ASSUME NEW p \in Procs, MkdirAll(p) \/ CreateTemp(p) \/ WriteTemp(p) PROVE TornInv'
  BY <1>0, <1>5, TornLocal
     DEF MkdirAll, CreateTemp, WriteTemp, SaveFails, cleanup, ReturnFetched, Return, Goto,
         TypeOK, TornInv
<1>6. ASSUME NEW p \in Procs, Sync(p) PROVE TornInv'
  BY <1>0, <1>6, TornLocal
     DEF Sync, SaveFails, cleanup, ReturnFetched, Return, Goto, TypeOK, TornInv, Whole
<1>7. ASSUME NEW p \in Procs, CloseTemp(p) \/ Chmod(p) PROVE TornInv'
  BY <1>0, <1>7, TornLocal
     DEF CloseTemp, Chmod, SaveFails, cleanup, ReturnFetched, Return, Goto, TypeOK, TornInv
<1>8. ASSUME NEW p \in Procs, Rename(p) PROVE TornInv'
  <2>1. CASE SaveFails(p) /\ cleanup(p) /\ UNCHANGED cache
    BY <1>0, <1>8, <2>1, TornLocal
       DEF Rename, SaveFails, cleanup, ReturnFetched, Return, Goto, TypeOK, TornInv, disk
  <2>2. CASE /\ cache' = tmp[p] /\ ReturnFetched(p, data[p])
             /\ tmp' = [tmp EXCEPT ![p] = NoFile]
    <3>1. Whole(cache') /\ Whole(durable')
      BY <1>8, <2>2 DEF Rename, TornInv
    <3> QED BY <1>0, <1>8, <2>2, <3>1 DEF Rename, ReturnFetched, Return, Goto, TypeOK, TornInv
  <2> QED BY <1>8, <2>1, <2>2 DEF Rename
<1>9. ASSUME NEW p \in Procs, Kill(p) PROVE TornInv'
  BY <1>9, TornLocal DEF Kill, Goto, TypeOK, TornInv
<1>10. CASE Tick
  BY <1>10 DEF Tick, TornInv, Whole, disk
<1>11. CASE RemoveCache \/ Writeback
  BY <1>11, NoFileWhole DEF RemoveCache, Writeback, TornInv, Whole
<1>12. CASE PowerLoss
  <2>1. cache' = durable /\ durable' = durable
    BY <1>12 DEF PowerLoss, TornInv, Whole
  <2>2. \A p \in Procs : pc'[p] = pc[p] \/ pc'[p] = "killed"
    BY <1>12 DEF PowerLoss
  <2>3. UNCHANGED <<tmp, cached, result>>
    BY <1>12 DEF PowerLoss
  <2> QED BY <2>1, <2>2, <2>3 DEF TornInv, Whole
<1>13. CASE UNCHANGED vars
  BY <1>13 DEF vars, disk, TornInv, Whole
<1> QED
  BY <1>1, <1>2, <1>3, <1>4, <1>5, <1>6, <1>7, <1>8, <1>9, <1>10, <1>11, <1>12, <1>13
     DEF Next, Step

\* However many processes share the cache file, and whenever they are killed or
\* power is lost, the cache and what a run is served are never torn.
THEOREM CacheNeverTorn == Spec => []NeverTorn
<1>1. Init => TornInv
  BY NoFileWhole DEF Init, TornInv, NoResult
<1>2. TornInv => NeverTorn
  BY DEF TornInv, NeverTorn, Whole
<1> QED BY <1>1, <1>2, TornStep, TypeCorrect, PTL DEF Spec
-----------------------------------------------------------------------------
(***************************************************************************)
(* What a run does with the cache, its attempts and its temporary file.     *)
(* These promises are about what a run returns; the invariant adds what it  *)
(* has to remember until then: that a stale cache was within its maximum    *)
(* age when it was read, how many attempts are left while it sleeps, and    *)
(* where it has no temporary file.                                          *)
(***************************************************************************)
Justified(r, n) ==
    /\ r.refresh # "none" => ~isTransientError(r.refresh) \/ n = maxAttempts
    /\ r.source = "cache" =>
         \/ r.age <= ttl /\ r.refresh = "none"
         \/ ttl < r.age /\ r.age <= maxAge /\ r.refresh # "none"

WithoutTemp == {"idle", "stat", "readFile", "fetch", "sleep", "mkdir", "createTemp", "returned"}

RunInv(p) ==
    /\ attempt[p] <= maxAttempts
    /\ pc[p] = "sleep" => attempt[p] < maxAttempts
    /\ pc[p] \in {"fetch", "sleep"} /\ why[p] = "stale" => ttl < age[p] /\ age[p] <= maxAge
    /\ pc[p] = "returned" => Justified(result[p], attempt[p])
    /\ pc[p] # "returned" => result[p] = NoResult
    /\ pc[p] \in WithoutTemp => tmp[p] = NoFile

PolicyInv == \A p \in Procs : RunInv(p)

\* The policy's numbers: at least one attempt is made.
LEMMA PolicyNumbers ==
    /\ maxAttempts \in Nat /\ maxAttempts >= 1
    /\ ttl \in Nat /\ maxAge \in Nat
BY CacheConstants DEF maxAttempts, ttl, maxAge

\* A run's invariant speaks of its own state only.
LEMMA RunKept ==
    ASSUME NEW q \in Procs, RunInv(q),
           pc'[q] = pc[q], why'[q] = why[q], age'[q] = age[q], attempt'[q] = attempt[q],
           tmp'[q] = tmp[q], result'[q] = result[q]
    PROVE  RunInv(q)'
BY DEF RunInv, Justified

\* So a step of one run leaves that of the others alone.
LEMMA PolicyLocal ==
    ASSUME PolicyInv, NEW p \in Procs, RunInv(p)',
           \A q \in Procs \ {p} : /\ pc'[q] = pc[q] /\ why'[q] = why[q] /\ age'[q] = age[q]
                                  /\ attempt'[q] = attempt[q] /\ tmp'[q] = tmp[q]
                                  /\ result'[q] = result[q]
    PROVE  PolicyInv'
<1>1. ASSUME NEW q \in Procs PROVE RunInv(q)'
  <2>1. CASE q = p
    BY <2>1
  <2>2. CASE q # p
    BY <2>2, RunKept DEF PolicyInv
  <2> QED BY <2>1, <2>2
<1> QED BY <1>1 DEF PolicyInv

\* Entering the fetch loop, with the stale cache in hand if that is the reason.
LEMMA StartFetchRun ==
    ASSUME TypeOK, NEW p \in Procs, NEW reason, StartFetch(p, reason),
           result'[p] = NoResult, tmp'[p] = NoFile,
           reason = "stale" => ttl < age'[p] /\ age'[p] <= maxAge
    PROVE  RunInv(p)'
<1>1. pc'[p] = "fetch" /\ why'[p] = reason /\ attempt'[p] = 1
  BY DEF StartFetch, Goto, TypeOK
<1> QED BY <1>1, PolicyNumbers DEF RunInv

\* Returning something justified, with the temporary file gone.
LEMMA ReturnRun ==
    ASSUME TypeOK, NEW p \in Procs, RunInv(p), NEW r, Return(p, r),
           Justified(r, attempt[p]), tmp'[p] = NoFile, UNCHANGED attempt
    PROVE  RunInv(p)'
<1>1. pc'[p] = "returned" /\ result'[p] = r
  BY DEF Return, Goto, TypeOK
<1> QED BY <1>1 DEF RunInv, Justified

\* Fetched lists and plain errors need no justification.
LEMMA PlainReturn ==
    ASSUME NEW n, NEW b
    PROVE  /\ Justified([source |-> "network", body |-> b, age |-> 0, refresh |-> "none"], n)
           /\ Justified([source |-> "error", body |-> "none", age |-> 0, refresh |-> "none"], n)
BY DEF Justified

\* Moving on with nothing returned.
LEMMA MoveRun ==
    ASSUME TypeOK, NEW p \in Procs, RunInv(p), pc[p] # "returned", NEW l, Goto(p, l),
           l \notin {"fetch", "sleep", "returned"},
           l \in WithoutTemp => tmp'[p] = NoFile, UNCHANGED <<attempt, result>>
    PROVE  RunInv(p)'
<1>1. pc'[p] = l
  BY DEF Goto, TypeOK
<1> QED BY <1>1 DEF RunInv

\* The steps of fetchServerListWithPolicy up to the decision.
LEMMA PolicyStep ==
    ASSUME TypeOK, PolicyInv, NEW p \in Procs, Begin(p) \/ Stat(p) \/ ReadFile(p)
    PROVE  PolicyInv'
<1>0. RunInv(p) /\ \A q \in Procs : RunInv(q)
  BY DEF PolicyInv
<1>1. CASE Begin(p)
  <2>1. /\ result'[p] = NoResult /\ tmp'[p] = NoFile
        /\ \A q \in Procs \ {p} : /\ pc'[q] = pc[q] /\ why'[q] = why[q] /\ age'[q] = age[q]
                                  /\ attempt'[q] = attempt[q] /\ tmp'[q] = tmp[q]
                                  /\ result'[q] = result[q]
    BY <1>1 DEF Begin, StartFetch, Goto, TypeOK
  <2>2. CASE \E reason \in {"nocache", "force"} : StartFetch(p, reason)
    BY <2>1, <2>2, StartFetchRun, PolicyLocal
  <2>3. CASE Goto(p, "stat") /\ UNCHANGED <<why, attempt>>
    <3>1. pc'[p] = "stat"
      BY <2>3 DEF Goto, TypeOK
    <3>2. RunInv(p)'
      BY <1>0, <2>1, <2>3, <3>1 DEF RunInv
    <3> QED BY <2>1, <3>2, PolicyLocal
  <2> QED BY <1>1, <2>2, <2>3 DEF Begin
<1>2. CASE Stat(p)
  <2>1. /\ UNCHANGED <<age, tmp>> /\ pc[p] = "stat"
        /\ \A q \in Procs \ {p} : /\ pc'[q] = pc[q] /\ why'[q] = why[q]
                                  /\ attempt'[q] = attempt[q] /\ result'[q] = result[q]
    BY <1>2 DEF Stat, StartFetch, ReturnError, Return, Goto, TypeOK
  <2>2. tmp'[p] = NoFile /\ result[p] = NoResult
    BY <1>0, <2>1 DEF RunInv, WithoutTemp
  <2>3. RunInv(p)'
    <3>1. CASE StartFetch(p, "missing") /\ UNCHANGED result
      BY <2>2, <3>1, StartFetchRun
    <3>2. CASE Goto(p, "readFile") /\ UNCHANGED <<attempt, result>>
      BY <1>0, <2>1, <2>2, <3>2, MoveRun
    <3>3. CASE ReturnError(p, "none") /\ UNCHANGED attempt
      BY <1>0, <2>2, <3>3, ReturnRun, PlainReturn DEF ReturnError
    <3> QED BY <1>2, <3>1, <3>2, <3>3 DEF Stat
  <2> QED BY <2>1, <2>3, PolicyLocal
<1>3. CASE ReadFile(p)
  <2>1. /\ UNCHANGED tmp /\ pc[p] = "readFile"
        /\ \A q \in Procs \ {p} : /\ pc'[q] = pc[q] /\ why'[q] = why[q] /\ age'[q] = age[q]
                                  /\ attempt'[q] = attempt[q] /\ result'[q] = result[q]
    BY <1>3 DEF ReadFile, UseCache, StartFetch, ReturnError, ReturnCached, Return, Goto, TypeOK
  <2>2. tmp'[p] = NoFile /\ result[p] = NoResult
    BY <1>0, <2>1 DEF RunInv, WithoutTemp
  <2>3. RunInv(p)'
    <3>1. CASE StartFetch(p, "missing") /\ UNCHANGED result
      BY <2>2, <3>1, StartFetchRun
    <3>2. CASE ReturnError(p, "none") /\ UNCHANGED attempt
      BY <1>0, <2>2, <3>2, ReturnRun, PlainReturn DEF ReturnError
    <3>3. CASE /\ age' = [age EXCEPT ![p] = now - modTime[p]]
               /\ UseCache(p, now - modTime[p], cache.body)
      <4>1. age'[p] = now - modTime[p] /\ now - modTime[p] \in Int
        BY <3>3 DEF TypeOK
      <4>2. CASE /\ now - modTime[p] <= ttl /\ UNCHANGED attempt
                 /\ ReturnCached(p, cache.body, now - modTime[p], "none")
        <5>1. Justified([source |-> "cache", body |-> cache.body, age |-> now - modTime[p],
                         refresh |-> "none"], attempt[p])
          BY <4>2 DEF Justified
        <5> QED BY <1>0, <2>2, <4>2, <5>1, ReturnRun DEF ReturnCached
      <4>3. CASE StartFetch(p, "expired") /\ UNCHANGED result
        BY <2>2, <4>3, StartFetchRun
      <4>4. CASE /\ now - modTime[p] > ttl /\ now - modTime[p] <= maxAge
                 /\ StartFetch(p, "stale") /\ UNCHANGED result
        <5>1. ttl < age'[p] /\ age'[p] <= maxAge
          BY <4>1, <4>4, PolicyNumbers
        <5> QED BY <2>2, <4>4, <5>1, StartFetchRun
      <4> QED BY <3>3, <4>2, <4>3, <4>4 DEF UseCache
    <3> QED BY <1>3, <3>1, <3>2, <3>3 DEF ReadFile
  <2> QED BY <2>1, <2>3, PolicyLocal
<1> QED BY <1>1, <1>2, <1>3

\* The fetch loop: it gives up behind a permanent error or the last attempt.
LEMMA FetchStep ==
    ASSUME TypeOK, PolicyInv, NEW p \in Procs, FetchSucceeds(p) \/ FetchFails(p) \/ Wake(p)
    PROVE  PolicyInv'
<1>0. RunInv(p)
  BY DEF PolicyInv
<1>1. /\ UNCHANGED <<why, age, tmp>> /\ pc[p] \in {"fetch", "sleep"}
      /\ \A q \in Procs \ {p} : /\ pc'[q] = pc[q]
                                /\ attempt'[q] = attempt[q] /\ result'[q] = result[q]
  BY DEF FetchSucceeds, FetchFails, Wake, GiveUp, ReturnFetched, ReturnError, ReturnCached,
         Return, Goto, TypeOK
<1>2. tmp'[p] = NoFile /\ result[p] = NoResult
  BY <1>0, <1>1 DEF RunInv, WithoutTemp
<1>3. CASE FetchSucceeds(p)
  <2>1. UNCHANGED attempt
    BY <1>3 DEF FetchSucceeds
  <2>2. PICK body \in FetchedBodies :
          ReturnFetched(p, body) \/ (Goto(p, "mkdir") /\ UNCHANGED result)
    BY <1>3 DEF FetchSucceeds
  <2>3. CASE ReturnFetched(p, body)
    <3>1. RunInv(p)'
      BY <1>0, <1>2, <2>1, <2>3, ReturnRun, PlainReturn DEF ReturnFetched
    <3> QED BY <1>1, <3>1, PolicyLocal
  <2>4. CASE Goto(p, "mkdir") /\ UNCHANGED result
    <3>1. RunInv(p)'
      BY <1>0, <1>1, <1>2, <2>1, <2>4, MoveRun
    <3> QED BY <1>1, <3>1, PolicyLocal
  <2> QED BY <2>2, <2>3, <2>4
<1>4. CASE FetchFails(p)
  <2>1. UNCHANGED attempt /\ pc[p] = "fetch"
    BY <1>4 DEF FetchFails
  <2>2. PICK err \in FetchErrors :
          \/ (~isTransientError(err) \/ lastAttempt(p)) /\ GiveUp(p, err)
          \/ ~lastAttempt(p) /\ Goto(p, "sleep") /\ UNCHANGED result
    BY <1>4 DEF FetchFails
  <2>3. CASE (~isTransientError(err) \/ lastAttempt(p)) /\ GiveUp(p, err)
    <3>1. err # "none"
      BY DEF FetchErrors
    <3>2. CASE why[p] = "stale"
      <4>1. ttl < age[p] /\ age[p] <= maxAge
        BY <1>0, <2>1, <3>2 DEF RunInv
      <4>2. Justified([source |-> "cache", body |-> cached[p], age |-> age[p],
                       refresh |-> err], attempt[p])
        BY <2>3, <3>1, <4>1 DEF Justified, lastAttempt
      <4>3. Return(p, [source |-> "cache", body |-> cached[p], age |-> age[p], refresh |-> err])
        BY <2>3, <3>2 DEF GiveUp, ReturnCached
      <4>4. RunInv(p)'
        BY <1>0, <1>2, <2>1, <4>2, <4>3, ReturnRun
      <4> QED BY <1>1, <4>4, PolicyLocal
    <3>3. CASE why[p] # "stale"
      <4>1. Justified([source |-> "error", body |-> "none", age |-> 0, refresh |-> err],
                      attempt[p])
        BY <2>3 DEF Justified, lastAttempt
      <4>2. Return(p, [source |-> "error", body |-> "none", age |-> 0, refresh |-> err])
        BY <2>3, <3>3 DEF GiveUp, ReturnError
      <4>3. RunInv(p)'
        BY <1>0, <1>2, <2>1, <4>1, <4>2, ReturnRun
      <4> QED BY <1>1, <4>3, PolicyLocal
    <3> QED BY <3>2, <3>3
  <2>4. CASE ~lastAttempt(p) /\ Goto(p, "sleep") /\ UNCHANGED result
    <3>1. pc'[p] = "sleep" /\ attempt[p] \in Nat
      BY <2>4 DEF Goto, TypeOK
    <3>2. attempt[p] < maxAttempts
      BY <1>0, <2>4, <3>1, PolicyNumbers DEF RunInv, lastAttempt
    <3>3. RunInv(p)'
      BY <1>0, <1>1, <1>2, <2>1, <2>4, <3>1, <3>2 DEF RunInv
    <3> QED BY <1>1, <3>3, PolicyLocal
  <2> QED BY <2>2, <2>3, <2>4
<1>5. CASE Wake(p)
  <2>1. /\ pc[p] = "sleep" /\ pc'[p] = "fetch" /\ attempt'[p] = attempt[p] + 1
        /\ UNCHANGED result /\ attempt[p] \in Nat
    BY <1>5 DEF Wake, Goto, TypeOK
  <2>2. attempt'[p] <= maxAttempts
    BY <1>0, <2>1, PolicyNumbers DEF RunInv
  <2>3. RunInv(p)'
    BY <1>0, <1>1, <1>2, <2>1, <2>2 DEF RunInv
  <2> QED BY <1>1, <2>3, PolicyLocal
<1> QED BY <1>3, <1>4, <1>5

\* writeServerListCache returns the fetched list, with its file removed or
\* renamed.
LEMMA SaveStep ==
    ASSUME TypeOK, PolicyInv, NEW p \in Procs,
           \/ MkdirAll(p) \/ CreateTemp(p) \/ WriteTemp(p) \/ Sync(p)
           \/ CloseTemp(p) \/ Chmod(p) \/ Rename(p)
    PROVE  PolicyInv'
<1>0. RunInv(p)
  BY DEF PolicyInv
<1>1. UNCHANGED <<why, age, attempt>> /\ pc[p] \in Saving
  BY DEF MkdirAll, CreateTemp, WriteTemp, Sync, CloseTemp, Chmod, Rename, Saving
<1>2. \A q \in Procs \ {p} : pc'[q] = pc[q] /\ result'[q] = result[q]
  BY DEF MkdirAll, CreateTemp, WriteTemp, Sync, CloseTemp, Chmod, Rename, SaveFails,
         ReturnFetched, Return, Goto, TypeOK
<1>3. \A q \in Procs \ {p} : tmp'[q] = tmp[q]
  BY DEF MkdirAll, CreateTemp, WriteTemp, Sync, CloseTemp, Chmod, Rename, cleanup, TypeOK
<1>4. pc[p] \in {"mkdir", "createTemp"} => tmp[p] = NoFile
  BY <1>0 DEF RunInv, WithoutTemp
<1>5. \/ ReturnFetched(p, data[p]) /\ tmp'[p] = NoFile
      \/ \E l \in {"write", "sync", "close", "chmod", "rename"} : Goto(p, l) /\ UNCHANGED result
      \/ Goto(p, "createTemp") /\ UNCHANGED result /\ tmp'[p] = NoFile
  BY <1>4 DEF MkdirAll, CreateTemp, WriteTemp, Sync, CloseTemp, Chmod, Rename, SaveFails,
              cleanup, TypeOK
<1>6. RunInv(p)'
  <2>1. CASE ReturnFetched(p, data[p]) /\ tmp'[p] = NoFile
    BY <1>0, <1>1, <2>1, ReturnRun, PlainReturn DEF ReturnFetched
  <2>2. pc[p] # "returned"
    BY <1>1 DEF Saving
  <2>3. CASE \E l \in {"write", "sync", "close", "chmod", "rename"} :
               Goto(p, l) /\ UNCHANGED result
    BY <1>0, <1>1, <2>2, <2>3, MoveRun DEF WithoutTemp
  <2>4. CASE Goto(p, "createTemp") /\ UNCHANGED result /\ tmp'[p] = NoFile
    BY <1>0, <1>1, <2>2, <2>4, MoveRun
  <2> QED BY <1>5, <2>1, <2>3, <2>4
<1> QED BY <1>1, <1>2, <1>3, <1>6, PolicyLocal

\* Every step keeps PolicyInv.
LEMMA PolicyInvStep == TypeOK /\ PolicyInv /\ [Next]_vars => PolicyInv'
<1> SUFFICES ASSUME TypeOK, PolicyInv, [Next]_vars PROVE PolicyInv'
  OBVIOUS
<1> USE DEF procState
<1>k. ASSUME UNCHANGED <<why, age, attempt, tmp, result>>,
             \A p \in Procs : pc'[p] = pc[p] \/ (pc'[p] = "killed" /\ pc[p] # "returned")
      PROVE  PolicyInv'
  <2>1. ASSUME NEW p \in Procs PROVE RunInv(p)'
    <3>1. CASE pc'[p] = pc[p]
      BY <1>k, <3>1, RunKept DEF PolicyInv
    <3>2. CASE pc'[p] = "killed" /\ pc[p] # "returned"
      BY <1>k, <3>2 DEF PolicyInv, RunInv, WithoutTemp
    <3> QED BY <1>k, <3>1, <3>2
  <2> QED BY <2>1 DEF PolicyInv
<1>1. CASE \E p \in Procs : Begin(p) \/ Step(p)
  BY <1>1, PolicyStep, FetchStep, SaveStep DEF Step
<1>2. CASE (\E p \in Procs : Kill(p)) \/ PowerLoss
  <2>1. "returned" \notin Running
    BY DEF Running, Saving
  <2>2. UNCHANGED <<why, age, attempt, tmp, result>>
    BY <1>2 DEF Kill, PowerLoss
  <2>3. \A p \in Procs : pc'[p] = pc[p] \/ (pc'[p] = "killed" /\ pc[p] \in Running)
    BY <1>2 DEF Kill, PowerLoss, Goto, TypeOK
  <2> QED BY <1>k, <2>1, <2>2, <2>3
<1>3. CASE Tick \/ RemoveCache \/ Writeback \/ UNCHANGED vars
  BY <1>3, <1>k DEF Tick, RemoveCache, Writeback, vars
<1> QED BY <1>1, <1>2, <1>3 DEF Next

\* The invariant holds throughout, for any number of processes.
LEMMA PolicyInvariant == Spec => [](TypeOK /\ PolicyInv)
<1>1. ASSUME Init, NEW p \in Procs PROVE RunInv(p)
  <2>1. /\ pc[p] = "idle" /\ attempt[p] = 0 /\ why[p] = "nocache"
        /\ tmp[p] = NoFile /\ result[p] = NoResult
    BY <1>1 DEF Init
  <2>2. attempt[p] <= maxAttempts
    BY <2>1, PolicyNumbers
  <2> QED BY <2>1, <2>2 DEF RunInv
<1>2. Init => PolicyInv
  BY <1>1 DEF PolicyInv
<1> QED BY <1>2, PolicyInvStep, TypeCorrect, PTL DEF Spec

\* What the invariant says of a result: nothing, unless the run has returned it.
LEMMA ResultJustified ==
    ASSUME TypeOK, PolicyInv, NEW p \in Procs
    PROVE  Justified(result[p], attempt[p])
<1>1. CASE pc[p] = "returned"
  BY <1>1 DEF PolicyInv, RunInv
<1>2. CASE pc[p] # "returned"
  BY <1>2 DEF PolicyInv, RunInv, Justified, NoResult
<1> QED BY <1>1, <1>2

\* The cache stands in for the server only within its TTL, or within its maximum
\* age behind a refresh that failed, for any ages and any number of attempts.
THEOREM CacheServedWithinPolicy == Spec => []CacheUseJustified
<1>1. TypeOK /\ PolicyInv => CacheUseJustified
  BY ResultJustified DEF CacheUseJustified, Justified
<1> QED BY <1>1, PolicyInvariant, PTL

\* No run gives up on the server on a transient error before its last attempt,
\* or makes one attempt too many.
THEOREM AllRetriesMade == Spec => []RetriesExhausted
<1>1. TypeOK /\ PolicyInv => RetriesExhausted
  BY ResultJustified DEF RetriesExhausted, Justified, PolicyInv, RunInv
<1> QED BY <1>1, PolicyInvariant, PTL

\* A run that returns leaves no temporary file behind, whichever step of
\* writeServerListCache has failed.
THEOREM TempAlwaysRemoved == Spec => []NoTempLeft
<1>1. PolicyInv => NoTempLeft
  BY DEF PolicyInv, RunInv, WithoutTemp, NoTempLeft
<1> QED BY <1>1, PolicyInvariant, PTL

\* A run moves no other run along.
LEMMA OnlyOwnPc ==
    ASSUME TypeOK, NEW q \in Procs, Begin(q) \/ Step(q) \/ Kill(q)
    PROVE  \A p \in Procs \ {q} : pc'[p] = pc[p]
<1>1. PICK location \in Locations : Goto(q, location)
  <2>1. CASE Begin(q) \/ Stat(q) \/ Wake(q) \/ Kill(q)
    BY <2>1 DEF Begin, Stat, Wake, Kill, StartFetch, ReturnError, Return, Locations, Running
  <2>2. CASE ReadFile(q)
    BY <2>2 DEF ReadFile, UseCache, StartFetch, ReturnError, ReturnCached, Return, Locations,
                Running
  <2>3. CASE FetchSucceeds(q) \/ FetchFails(q)
    BY <2>3 DEF FetchSucceeds, FetchFails, GiveUp, ReturnFetched, ReturnError, ReturnCached,
                Return, Locations, Running, Saving
  <2>4. CASE \/ MkdirAll(q) \/ CreateTemp(q) \/ WriteTemp(q) \/ Sync(q)
             \/ CloseTemp(q) \/ Chmod(q) \/ Rename(q)
    BY <2>4 DEF MkdirAll, CreateTemp, WriteTemp, Sync, CloseTemp, Chmod, Rename, SaveFails,
                ReturnFetched, Return, Locations, Running, Saving
  <2> QED BY <2>1, <2>2, <2>3, <2>4 DEF Step
<1> QED BY <1>1 DEF Goto, TypeOK

\* A step out of writeServerListCache returns the bytes this run has fetched.
THEOREM FetchedIsServed == Spec => FetchedListServed
<1> DEFINE Served ==
      \A p \in Procs : (pc[p] \in Saving /\ pc'[p] = "returned") =>
        result'[p].source = "network" /\ result'[p].body = data[p]
<1>1. ASSUME TypeOK, [Next]_vars, NEW p \in Procs, pc[p] \in Saving, pc'[p] = "returned"
      PROVE  result'[p].source = "network" /\ result'[p].body = data[p]
  <2> USE DEF Goto
  <2>1. ASSUME NEW q \in Procs \ {p}, Begin(q) \/ Step(q) \/ Kill(q) PROVE pc'[p] = pc[p]
    BY <1>1, <2>1, OnlyOwnPc
  <2>2. CASE \/ MkdirAll(p) \/ CreateTemp(p) \/ WriteTemp(p) \/ Sync(p)
             \/ CloseTemp(p) \/ Chmod(p) \/ Rename(p)
    <3>1. ReturnFetched(p, data[p]) \/ pc'[p] \in Saving
      BY <1>1, <2>2 DEF MkdirAll, CreateTemp, WriteTemp, Sync, CloseTemp, Chmod, Rename,
                        SaveFails, Saving, TypeOK
    <3>2. ReturnFetched(p, data[p])
      BY <1>1, <3>1 DEF Saving
    <3> QED BY <1>1, <3>2 DEF ReturnFetched, Return, TypeOK
  <2>3. CASE Begin(p) \/ Stat(p) \/ ReadFile(p) \/ FetchSucceeds(p) \/ FetchFails(p) \/ Wake(p)
    <3>1. pc[p] \in {"idle", "returned", "killed", "stat", "readFile", "fetch", "sleep"}
      BY <2>3 DEF Begin, Stat, ReadFile, FetchSucceeds, FetchFails, Wake
    <3> QED BY <1>1, <3>1 DEF Saving
  <2>4. CASE Kill(p) \/ PowerLoss
    BY <1>1, <2>4 DEF Kill, PowerLoss, TypeOK, Saving
  <2>5. CASE Tick \/ RemoveCache \/ Writeback \/ UNCHANGED vars
    BY <1>1, <2>5 DEF Tick, RemoveCache, Writeback, vars, procState, Saving
  <2>6. "returned" \notin Saving
    BY DEF Saving
  <2> QED BY <1>1, <2>1, <2>2, <2>3, <2>4, <2>5, <2>6 DEF Next, Step
<1>2. TypeOK /\ [Next]_vars => [Served]_vars
  BY <1>1
<1>3. Spec => [][Served]_vars
  BY <1>2, TypeCorrect, PTL DEF Spec
<1> QED BY <1>3 DEF FetchedListServed

\* With a TTL within the maximum age, as in the defaults, a list taken from the
\* cache without a refresh is no older than the maximum age when it is handed
\* over: only a cache that a failed refresh has fallen back to may be.
THEOREM OnlyFallbackOutdates ==
    ASSUME ttl <= maxAge
    PROVE  Spec => [][\A p \in Procs :
                        (/\ pc[p] # "returned" /\ pc'[p] = "returned"
                         /\ result'[p].source = "cache" /\ result'[p].refresh = "none")
                        => now - modTime[p] <= maxAge]_vars
<1> DEFINE Fresh ==
      \A p \in Procs :
        (/\ pc[p] # "returned" /\ pc'[p] = "returned"
         /\ result'[p].source = "cache" /\ result'[p].refresh = "none")
        => now - modTime[p] <= maxAge
<1>1. ASSUME TypeOK, [Next]_vars, NEW p \in Procs, pc[p] # "returned", pc'[p] = "returned",
             result'[p].source = "cache", result'[p].refresh = "none"
      PROVE  now - modTime[p] <= maxAge
  <2> USE DEF Goto
  <2>0. result \in [Procs -> Results] /\ pc \in [Procs -> Locations]
    BY <1>1 DEF TypeOK
  <2>1. ASSUME NEW q \in Procs \ {p}, Begin(q) \/ Step(q) \/ Kill(q) PROVE FALSE
    BY <1>1, <2>1, OnlyOwnPc
  <2>2. ~ReturnError(p, "none") /\ \A body : ~ReturnFetched(p, body)
    BY <1>1, <2>0 DEF ReturnError, ReturnFetched, Return
  <2>3. \A err \in FetchErrors : ~GiveUp(p, err)
    <3>1. ASSUME NEW err \in FetchErrors, NEW body, NEW a, ReturnCached(p, body, a, err) PROVE FALSE
      BY <1>1, <2>0, <3>1 DEF ReturnCached, Return, FetchErrors
    <3>2. ASSUME NEW err \in FetchErrors, ReturnError(p, err) PROVE FALSE
      BY <1>1, <2>0, <3>2 DEF ReturnError, Return
    <3> QED BY <3>1, <3>2 DEF GiveUp
  <2>4. CASE ReadFile(p)
    <3>1. UseCache(p, now - modTime[p], cache.body)
      BY <1>1, <2>0, <2>2, <2>4 DEF ReadFile, StartFetch
    <3>2. now - modTime[p] <= ttl
      BY <1>1, <2>0, <3>1 DEF UseCache, StartFetch
    <3> QED BY <1>1, <3>2, PolicyNumbers DEF TypeOK
  <2>5. CASE \/ MkdirAll(p) \/ CreateTemp(p) \/ WriteTemp(p) \/ Sync(p)
             \/ CloseTemp(p) \/ Chmod(p) \/ Rename(p)
    BY <1>1, <2>0, <2>2, <2>5 DEF MkdirAll, CreateTemp, WriteTemp, Sync, CloseTemp, Chmod, Rename,
                             SaveFails
  <2>6. CASE Begin(p) \/ Stat(p) \/ FetchSucceeds(p) \/ FetchFails(p) \/ Wake(p)
    BY <1>1, <2>0, <2>2, <2>3, <2>6 DEF Begin, Stat, FetchSucceeds, FetchFails, Wake, StartFetch
  <2>7. CASE Kill(p) \/ PowerLoss
    BY <1>1, <2>0, <2>7 DEF Kill, PowerLoss
  <2>8. CASE Tick \/ RemoveCache \/ Writeback \/ UNCHANGED vars
    BY <1>1, <2>8 DEF Tick, RemoveCache, Writeback, vars, procState
  <2> QED BY <1>1, <2>1, <2>4, <2>5, <2>6, <2>7, <2>8 DEF Next, Step
<1>2. TypeOK /\ [Next]_vars => [Fresh]_vars
  BY <1>1
<1> QED BY <1>2, TypeCorrect, PTL DEF Spec
=============================================================================
