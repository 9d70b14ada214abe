----------------------------- MODULE DpConfig -----------------------------
(***************************************************************************)
(* The configuration pipeline of one object manager: a request of the      *)
(* agent is written to Redis, delivered to a callback thread, held by      *)
(* DpObjectMgr::handleConfig until the gate is open, sent to the DCO,      *)
(* retried, cached and answered; the poll thread meanwhile closes and      *)
(* opens the gate and pushes the cache to a DCO that came back; and the    *)
(* program may restart and rebuild its cache from Redis.                   *)
(*                                                                         *)
(* The poll thread is the abstract gate SyncGate, which DpSyncReady        *)
(* implements.  The manager is DpGigeClientMgr with its config handler;    *)
(* carrier, otu, odu and cross-connect managers follow the same code.      *)
(*                                                                         *)
(* A configuration object is a value of Vals.  A MODIFY names the value    *)
(* the agent wants and sends what makes the difference to the one before:  *)
(* what comes of it depends on whether the DCO has that one (Applied).     *)
(***************************************************************************)
EXTENDS Integers, FiniteSets

CONSTANTS
    Ids,        \* configuration objects (config_id) of this manager
    Vals,       \* what an object may be configured to
    NoVal,      \* no configuration
    Threads,    \* callback threads that may be inside handleConfig at once
    MaxTry,     \* cMaxCount: rounds of handleConfig's loop (900 in the code)
    MaxSendFail,    \* cMaxSendCount: failed sends in a row that are retried (3 in the code)
    MaxReq,     \* bound: requests of the agent
    MaxCancel,  \* bound: CLI cancels per run of the program
    MaxCrash,   \* bound: restarts of the program
    ShortOutage,    \* may the DCO return before the gate saw it gone?
    GapOutage,      \* may a whole resync fit between a send and its completion?
    SyncLoss,       \* may a sync's send to a reachable DCO fail?
    Recreate        \* may the agent create an object again while Redis still has it?

ASSUME ConfigAssumption ==
    /\ NoVal \notin Vals
    /\ MaxTry \in Nat \ {0} /\ MaxSendFail \in Nat /\ MaxReq \in Nat
    /\ MaxCancel \in Nat /\ MaxCrash \in Nat
    /\ ShortOutage \in BOOLEAN /\ GapOutage \in BOOLEAN
    /\ SyncLoss \in BOOLEAN /\ Recreate \in BOOLEAN
    /\ "poll" \notin Threads /\ "free" \notin Threads

Me == "me"              \* this manager, among the gate's managers
Ops == {"none", "create", "modify", "delete"}

VARIABLES
    redis,      \* Redis: the configuration objects, by id
    redisMark,  \* Redis: the objects marked for deletion
    want, lastOp, reply, info, \* the agent's last request per id, and its answer
    dco, reach,                \* what the DCO is configured to; is it reachable
    unsure,                    \* ids whose object in the DCO is not known to be the one
                               \* cached: a request for it failed, and neither a create
                               \* or delete nor a sync has put it right since
    cache, cacheMark,          \* DpConfigHandler::mMapCfgMsg, entries marked for deletion
    gate, state,               \* SyncGate
    lock,       \* the manager's mMutex: "free", "poll" or a thread
    syncLeft,   \* ids the running syncConfig has yet to send
    cancels,    \* mConfigCancelCount
    errString,  \* the handler's transaction error string: "" or "send"
    cfg,        \* handleConfig's locals, by thread
    requests, crashes,  \* bounds
    orphans     \* history: ids whose request was lost in a restart

agentVars == <<redis, redisMark, want, lastOp>>
replyVars == <<reply, info>>
dcoVars   == <<dco, reach, unsure>>
cacheVars == <<cache, cacheMark>>
gateVars  == <<gate, state>>
boundVars == <<requests, crashes, orphans>>
vars == <<agentVars, replyVars, dcoVars, cacheVars, gateVars, lock, syncLeft, cancels,
          errString, cfg, boundVars>>

Gate == INSTANCE SyncGate WITH Mgrs <- {Me}

\* A callback thread that has nothing to do.
Idle == [pc |-> "idle", id |-> NoVal, op |-> "none", val |-> NoVal, tries |-> 0, fails |-> 0,
         snap |-> 0, status |-> "connect", errLog |-> ""]

\* A callback thread in handleConfig.
Working ==
    [pc : {"try", "lock", "send", "complete", "cleanup"},
     id : Ids, op : Ops \ {"none"}, val : Vals,
     tries : 0 .. MaxTry, fails : 0 .. MaxSendFail + 1, snap : 0 .. MaxCancel,
     status : {"ok", "connect", "data"}, errLog : {"", "notReady"}]

TypeOK ==
    /\ redis \in [Ids -> Vals \cup {NoVal}] /\ redisMark \subseteq Ids
    /\ want \in [Ids -> Vals \cup {NoVal}] /\ lastOp \in [Ids -> Ops]
    /\ reply \in [Ids -> {"none", "pending", "inprogress", "success", "fail"}]
    /\ info \in [Ids -> {"", "notReady", "send"}]
    /\ dco \in [Ids -> Vals \cup {NoVal}] /\ reach \in BOOLEAN
    /\ unsure \subseteq Ids
    /\ cache \in [Ids -> Vals \cup {NoVal}] /\ cacheMark \subseteq Ids
    /\ Gate!GateTypeOK
    /\ lock \in Threads \cup {"free", "poll"} /\ syncLeft \subseteq Ids
    /\ cancels \in 0 .. MaxCancel /\ errString \in {"", "send"}
    /\ cfg \in [Threads -> Working \cup {Idle}]
    /\ requests \in 0 .. MaxReq /\ crashes \in 0 .. MaxCrash /\ orphans \subseteq Ids

Init ==
    /\ redis = [i \in Ids |-> NoVal] /\ redisMark = {}
    /\ want = [i \in Ids |-> NoVal] /\ lastOp = [i \in Ids |-> "none"]
    /\ reply = [i \in Ids |-> "none"] /\ info = [i \in Ids |-> ""]
    /\ dco = [i \in Ids |-> NoVal] /\ reach = FALSE /\ unsure = {}
    /\ cache = [i \in Ids |-> NoVal] /\ cacheMark = {}
    /\ Gate!GateInit
    /\ lock = "free" /\ syncLeft = {} /\ cancels = 0 /\ errString = ""
    /\ cfg = [t \in Threads |-> Idle]
    /\ requests = 0 /\ crashes = 0 /\ orphans = {}
-----------------------------------------------------------------------------
(***************************************************************************)
(* The agent writes Redis.  It has one request per object outstanding, and *)
(* creates an object again once Redis no longer has it.                    *)
(***************************************************************************)
Request(i, op, v) ==
    /\ requests < MaxReq
    /\ reply[i] \notin {"pending", "inprogress"}
    /\ requests' = requests + 1
    /\ lastOp' = [lastOp EXCEPT ![i] = op]
    /\ reply' = [reply EXCEPT ![i] = "pending"]
    /\ \/ /\ op = "create"
          /\ redis[i] = NoVal \/ (Recreate /\ i \in redisMark)
          /\ redis' = [redis EXCEPT ![i] = v]
          /\ redisMark' = redisMark \ {i}
          /\ want' = [want EXCEPT ![i] = v]
       \/ /\ op = "modify"
          /\ redis[i] # NoVal /\ i \notin redisMark
          /\ redis' = [redis EXCEPT ![i] = v]
          /\ want' = [want EXCEPT ![i] = v]
          /\ UNCHANGED redisMark
       \/ /\ op = "delete"
          /\ redis[i] = v /\ i \notin redisMark
          /\ redisMark' = redisMark \cup {i}
          /\ want' = [want EXCEPT ![i] = NoVal]
          /\ UNCHANGED redis
    /\ UNCHANGED <<info, dcoVars, cacheVars, gateVars, lock, syncLeft, cancels, errString,
                   cfg, crashes, orphans>>

\* The CLI cancels the requests that are being retried.
Cancel ==
    /\ cancels < MaxCancel
    /\ cancels' = cancels + 1
    /\ UNCHANGED <<agentVars, replyVars, dcoVars, cacheVars, gateVars, lock, syncLeft,
                   errString, cfg, boundVars>>
-----------------------------------------------------------------------------
(***************************************************************************)
(* The DCO.  It may restart without its configuration at any time, and is  *)
(* back once the gate has seen it gone.                                    *)
(***************************************************************************)
DcoLost ==
    /\ reach
    /\ reach' = FALSE
    /\ dco' \in {dco, [i \in Ids |-> NoVal]}
    /\ UNCHANGED <<unsure, agentVars, replyVars, cacheVars, gateVars, lock, syncLeft, cancels,
                   errString, cfg, boundVars>>

DcoBack ==
    /\ ~reach
    /\ ShortOutage \/ (~gate /\ state[Me] = "down")
    /\ reach' = TRUE
    /\ UNCHANGED <<agentVars, replyVars, dco, unsure, cacheVars, gateVars, lock, syncLeft,
                   cancels, errString, cfg, boundVars>>
-----------------------------------------------------------------------------
(***************************************************************************)
(* The poll thread.  What it does to a manager it does under the manager's *)
(* mutex; the gate itself it opens and closes without.                     *)
(***************************************************************************)
GateStep ==
    /\ lock # "poll"
    /\ \/ gate /\ Gate!Close
       \/ ~gate /\ Gate!Open
       \/ lock = "free" /\ (Gate!Connect(Me) \/ Gate!Drop(Me))
    /\ UNCHANGED <<agentVars, replyVars, dcoVars, cacheVars, lock, syncLeft, cancels,
                   errString, cfg, boundVars>>

Cached == {i \in Ids : cache[i] # NoVal}

SyncBegin ==
    /\ lock = "free" /\ ~gate /\ state[Me] = "up"
    /\ GapOutage \/ \A t \in Threads : cfg[t].pc # "complete"
    /\ lock' = "poll"
    /\ syncLeft' = Cached
    /\ UNCHANGED <<agentVars, replyVars, dcoVars, cacheVars, gateVars, cancels, errString,
                   cfg, boundVars>>

(***************************************************************************)
(* One object of DpConfigHandler::syncConfig: a marked one is deleted and  *)
(* dropped from the cache, any other is created; a failure is ignored.     *)
(***************************************************************************)
SyncObject(i) ==
    /\ lock = "poll" /\ i \in syncLeft
    /\ LET sent == IF i \in cacheMark THEN NoVal ELSE cache[i]
       IN  \/ reach /\ dco' = [dco EXCEPT ![i] = sent] /\ unsure' = unsure \ {i}
           \/ (SyncLoss \/ ~reach) /\ UNCHANGED <<dco, unsure>>
    /\ IF i \in cacheMark
       THEN cache' = [cache EXCEPT ![i] = NoVal] /\ cacheMark' = cacheMark \ {i}
       ELSE UNCHANGED cacheVars
    /\ syncLeft' = syncLeft \ {i}
    /\ UNCHANGED <<agentVars, replyVars, reach, gateVars, lock, cancels, errString,
                   cfg, boundVars>>

SyncEnd ==
    /\ lock = "poll" /\ syncLeft = {}
    /\ Gate!Sync(Me)
    /\ lock' = "free"
    /\ UNCHANGED <<agentVars, replyVars, dcoVars, cacheVars, syncLeft, cancels, errString,
                   cfg, boundVars>>
-----------------------------------------------------------------------------
(***************************************************************************)
(* handleConfig, by thread.  pc: try is the loop's condition, lock waits   *)
(* for the manager's mutex, send is inside it with the checks passed,      *)
(* complete waits for the mutex again (the gap in which any other thread   *)
(* may take it), cleanup is the rest of a delete that has been answered.   *)
(***************************************************************************)
\* checkAndCreate / Update / Delete: "in progress", then handleConfig's entry.
Deliver(t, i) ==
    /\ cfg[t].pc = "idle" /\ reply[i] = "pending" /\ i \notin orphans
    /\ lock = "free"
    /\ reply' = [reply EXCEPT ![i] = "inprogress"]
    /\ cfg' = [cfg EXCEPT ![t] =
                 [Idle EXCEPT !.pc = "try", !.id = i, !.op = lastOp[i], !.val = redis[i],
                              !.snap = cancels]]
    /\ UNCHANGED <<agentVars, info, dcoVars, cacheVars, gateVars, lock, syncLeft, cancels,
                   errString, boundVars>>

LoopHead(t) ==
    /\ cfg[t].pc = "try"
    /\ cfg' = [cfg EXCEPT ![t].pc = IF cfg[t].tries < MaxTry /\ cancels = cfg[t].snap
                                   THEN "lock" ELSE "complete"]
    /\ UNCHANGED <<agentVars, replyVars, dcoVars, cacheVars, gateVars, lock, syncLeft,
                   cancels, errString, boundVars>>

\* checkConfigReadiness: connected (hence started) and SyncReady.
Ready == state[Me] # "down" /\ gate

\* Mutant: waiting for readiness is not counted as a try.
NotReadyUncounted(t) ==
    /\ cfg[t].pc = "lock" /\ lock = "free" /\ ~Ready
    /\ cfg' = [cfg EXCEPT ![t].pc = "try", ![t].fails = 0, ![t].errLog = "notReady"]
    /\ UNCHANGED <<agentVars, replyVars, dcoVars, cacheVars, gateVars, lock, syncLeft,
                   cancels, errString, boundVars>>

CheckNotReady(t) ==
    /\ cfg[t].pc = "lock" /\ lock = "free" /\ ~Ready
    /\ cfg' = [cfg EXCEPT ![t].pc = "try", ![t].tries = @ + 1, ![t].fails = 0,
                          ![t].errLog = "notReady"]
    /\ UNCHANGED <<agentVars, replyVars, dcoVars, cacheVars, gateVars, lock, syncLeft,
                   cancels, errString, boundVars>>

CheckReady(t) ==
    /\ cfg[t].pc = "lock" /\ lock = "free" /\ Ready
    /\ lock' = t
    /\ cfg' = [cfg EXCEPT ![t].pc = "send", ![t].errLog = ""]
    /\ UNCHANGED <<agentVars, replyVars, dcoVars, cacheVars, gateVars, syncLeft, cancels,
                   errString, boundVars>>

(***************************************************************************)
(* What a request the DCO took may leave there.  The Sets of a MODIFY only *)
(* make the difference to the configuration before: they complete an       *)
(* object that is as the cache has it, and may make anything of another,   *)
(* but create none by intention.                                           *)
(***************************************************************************)
Applied(j) ==
    CASE j.op = "create" -> {j.val}
      [] j.op = "delete" -> {NoVal}
      [] j.op = "modify" -> IF j.id \notin unsure /\ dco[j.id] # NoVal
                            THEN {j.val} ELSE Vals \cup {dco[j.id]}

\* A MODIFY without a field that is sent (the port rate alone is none).
NothingSent(j) == j.op = "modify" /\ j.val = cache[j.id]

\* What a request that failed may leave there: some of a MODIFY's Sets are done.
Halfway(j) ==
    IF j.op = "modify" /\ (NothingSent(j) => j.id \in unsure)
    THEN Vals \cup {dco[j.id]} ELSE Applied(j)

(***************************************************************************)
(* processConfig: the DCO takes the request, or the send fails, in which   *)
(* case it may have been taken all the same (an answer that got lost, or a *)
(* later step, the gearbox, that failed).  Any failure sets the handler's  *)
(* error string.  What sends nothing succeeds whether the DCO is there or  *)
(* not.                                                                    *)
(***************************************************************************)
ProcessConfig(j, result) ==
    /\ \/ /\ reach
          /\ \E v \in IF result = "ok" THEN Applied(j) ELSE Halfway(j) :
                dco' = [dco EXCEPT ![j.id] = v]
       \/ (result # "ok" \/ NothingSent(j)) /\ UNCHANGED dco
    /\ unsure' = IF result = "ok" /\ j.op # "modify" THEN unsure \ {j.id} ELSE unsure
    /\ errString' = IF result = "ok" THEN errString ELSE "send"

\* Mutant: one retry more than cMaxSendCount.
SendOnceMore(t) ==
    /\ cfg[t].pc = "send"
    /\ \E r \in {"ok", "connect", "data"} :
          /\ ProcessConfig(cfg[t], r)
          /\ cfg' = IF r = "connect"
                    THEN [cfg EXCEPT ![t].status = r, ![t].fails = @ + 1, ![t].tries = @ + 1,
                                     ![t].pc = IF cfg[t].fails > MaxSendFail
                                               THEN "complete" ELSE "try"]
                    ELSE [cfg EXCEPT ![t].status = r, ![t].pc = "complete"]
    /\ lock' = "free"
    /\ UNCHANGED <<agentVars, replyVars, reach, cacheVars, gateVars, syncLeft, cancels,
                   boundVars>>

Send(t) ==
    /\ cfg[t].pc = "send"
    /\ \E r \in {"ok", "connect", "data"} :
          /\ ProcessConfig(cfg[t], r)
          /\ cfg' = IF r = "connect"
                    THEN [cfg EXCEPT ![t].status = r, ![t].fails = @ + 1, ![t].tries = @ + 1,
                                     ![t].pc = IF cfg[t].fails >= MaxSendFail
                                               THEN "complete" ELSE "try"]
                    ELSE [cfg EXCEPT ![t].status = r, ![t].pc = "complete"]
    /\ lock' = "free"
    /\ UNCHANGED <<agentVars, replyVars, reach, cacheVars, gateVars, syncLeft, cancels,
                   boundVars>>
-----------------------------------------------------------------------------
(***************************************************************************)
(* completeConfig, under the manager's mutex.                              *)
(***************************************************************************)
\* sendTransactionStateToComplete: answers with the error string and clears it.
Answer(i, result, text) ==
    /\ reply' = [reply EXCEPT ![i] = result]
    /\ info' = [info EXCEPT ![i] = text]
    /\ errString' = ""

\* createCacheObj replaces an entry; updateCacheObj merges into it, so that an
\* entry marked for deletion stays marked.
CacheConfig(j) ==
    /\ cache' = [cache EXCEPT ![j.id] = j.val]
    /\ cacheMark' = IF j.op = "create" THEN cacheMark \ {j.id} ELSE cacheMark

\* ...ConfigCleanup: takes the object out of Redis.
RedisDelete(i) ==
    /\ redis' = [redis EXCEPT ![i] = NoVal]
    /\ redisMark' = redisMark \ {i}

Finish(t) == cfg' = [cfg EXCEPT ![t] = Idle]

\* Mutant: whatever failed is taken from Redis.
FailForgets(t) ==
    /\ cfg[t].pc = "complete" /\ lock = "free" /\ cfg[t].status # "ok"
    /\ RedisDelete(cfg[t].id)
    /\ IF cfg[t].op = "delete" THEN UNCHANGED cacheVars ELSE CacheConfig(cfg[t])
    /\ Answer(cfg[t].id, "fail", cfg[t].errLog)
    /\ Finish(t)
    /\ unsure' = unsure \cup {cfg[t].id}
    /\ UNCHANGED <<want, lastOp, dco, reach, gateVars, lock, syncLeft, cancels, boundVars>>

\* Mutant: an unsuccessful request is not cached.
FailUncached(t) ==
    /\ cfg[t].pc = "complete" /\ lock = "free" /\ cfg[t].status # "ok"
    /\ UNCHANGED cacheVars
    /\ IF cfg[t].op = "delete" THEN RedisDelete(cfg[t].id) ELSE UNCHANGED <<redis, redisMark>>
    /\ Answer(cfg[t].id, "fail", cfg[t].errLog)
    /\ Finish(t)
    /\ unsure' = unsure \cup {cfg[t].id}
    /\ UNCHANGED <<want, lastOp, dco, reach, gateVars, lock, syncLeft, cancels, boundVars>>

(***************************************************************************)
(* "Fall-back failure handling: Caching Config although it has failed."    *)
(* A failed delete goes from Redis but not from the cache, and the reason  *)
(* of the last readiness check replaces the error string.                  *)
(***************************************************************************)
CompleteFail(t) ==
    /\ cfg[t].pc = "complete" /\ lock = "free" /\ cfg[t].status # "ok"
    /\ IF cfg[t].op = "delete"
       THEN RedisDelete(cfg[t].id) /\ UNCHANGED cacheVars
       ELSE CacheConfig(cfg[t]) /\ UNCHANGED <<redis, redisMark>>
    /\ Answer(cfg[t].id, "fail", cfg[t].errLog)
    /\ Finish(t)
    /\ unsure' = unsure \cup {cfg[t].id}
    /\ UNCHANGED <<want, lastOp, dco, reach, gateVars, lock, syncLeft, cancels, boundVars>>

\* Mutant: a successful modify is answered and not cached.
ModifyUncached(t) ==
    /\ cfg[t].pc = "complete" /\ lock = "free" /\ cfg[t].status = "ok" /\ cfg[t].op # "delete"
    /\ IF cfg[t].op = "create" THEN CacheConfig(cfg[t]) ELSE UNCHANGED cacheVars
    /\ Answer(cfg[t].id, "success", errString)
    /\ Finish(t)
    /\ UNCHANGED <<agentVars, dcoVars, gateVars, lock, syncLeft, cancels, boundVars>>

CompleteConfig(t) ==
    /\ cfg[t].pc = "complete" /\ lock = "free" /\ cfg[t].status = "ok" /\ cfg[t].op # "delete"
    /\ CacheConfig(cfg[t])
    /\ Answer(cfg[t].id, "success", errString)
    /\ Finish(t)
    /\ UNCHANGED <<agentVars, dcoVars, gateVars, lock, syncLeft, cancels, boundVars>>

\* A successful delete is answered first and taken from Redis and the cache after.
CompleteDelete(t) ==
    /\ cfg[t].pc = "complete" /\ lock = "free" /\ cfg[t].status = "ok" /\ cfg[t].op = "delete"
    /\ Answer(cfg[t].id, "success", errString)
    /\ lock' = t
    /\ cfg' = [cfg EXCEPT ![t].pc = "cleanup"]
    /\ UNCHANGED <<agentVars, dcoVars, cacheVars, gateVars, syncLeft, cancels, boundVars>>

Cleanup(t) ==
    /\ cfg[t].pc = "cleanup"
    /\ RedisDelete(cfg[t].id)
    /\ cache' = [cache EXCEPT ![cfg[t].id] = NoVal]
    /\ cacheMark' = cacheMark \ {cfg[t].id}
    /\ lock' = "free"
    /\ Finish(t)
    /\ UNCHANGED <<want, lastOp, replyVars, dcoVars, gateVars, syncLeft, cancels, errString,
                   boundVars>>
-----------------------------------------------------------------------------
(***************************************************************************)
(* The program restarts: checkOnResync rebuilds the cache from what Redis  *)
(* has, marks included; a request that was not answered never will be.     *)
(***************************************************************************)
Restart ==
    /\ crashes < MaxCrash
    /\ crashes' = crashes + 1
    /\ orphans' = orphans \cup {i \in Ids : reply[i] \in {"pending", "inprogress"}}
    /\ cache' = redis /\ cacheMark' = redisMark
    /\ gate' = FALSE /\ state' = [m \in {Me} |-> "down"]
    /\ lock' = "free" /\ syncLeft' = {} /\ cancels' = 0 /\ errString' = ""
    /\ cfg' = [t \in Threads |-> Idle]
    /\ UNCHANGED <<agentVars, replyVars, dcoVars, requests>>

ThreadStep(t) ==
    \/ \E i \in Ids : Deliver(t, i)
    \/ LoopHead(t) \/ CheckNotReady(t) \/ CheckReady(t) \/ Send(t)
    \/ CompleteFail(t) \/ CompleteConfig(t) \/ CompleteDelete(t) \/ Cleanup(t)

SyncStep == SyncBegin \/ (\E i \in Ids : SyncObject(i)) \/ SyncEnd

Next ==
    \/ \E t \in Threads : ThreadStep(t)
    \/ SyncStep \/ GateStep
    \/ DcoLost \/ DcoBack
    \/ \E i \in Ids, op \in Ops \ {"none"}, v \in Vals : Request(i, op, v)
    \/ Cancel \/ Restart

Spec == Init /\ [][Next]_vars

\* Callback threads and the poll thread keep running; a mutex that is free is
\* eventually granted.
Fairness ==
    /\ \A t \in Threads : SF_vars(ThreadStep(t))
    /\ WF_vars(SyncStep)

FairSpec == Spec /\ Fairness
-----------------------------------------------------------------------------
\* No thread is between the delivery and the completion of a request for i.
Quiet(i) == \A t \in Threads : cfg[t].pc # "idle" => cfg[t].id # i

\* What Redis and the cache say of i: an object marked for deletion is gone.
InRedis(i) == IF i \in redisMark THEN NoVal ELSE redis[i]
InCache(i) == IF i \in cacheMark THEN NoVal ELSE cache[i]

\* Answered, with the object in Redis and in the cache as the agent wants it.
Settled(i) == reply[i] = "success" \/ (reply[i] = "fail" /\ lastOp[i] # "delete")

(***************************************************************************)
(* SuccessMeansInstalled.  While the gate is open and the DCO reachable,   *)
(* it holds of each object what the agent last asked for (of a deleted one *)
(* nothing), if that was answered with success; and also if it failed, or  *)
(* one before it did, from the next sync on ("Caching Config although it   *)
(* has failed").  Until then such an object is `unsure', and a success of  *)
(* a MODIFY promises nothing of it.  The cache from which the next sync    *)
(* restores the DCO agrees.  It is what handleConfig, completeConfig and   *)
(* syncConfig promise together; it fails with each of ShortOutage,         *)
(* GapOutage, SyncLoss and Recreate, on which the code relies.             *)
(***************************************************************************)
SuccessMeansInstalled ==
    gate /\ reach =>
        \A i \in Ids : Settled(i) =>
            /\ i \notin unsure => dco[i] = want[i]
            /\ Quiet(i) => InCache(i) = want[i]

(***************************************************************************)
(* RestartRebuilds.  Once a request was answered, Redis holds for that     *)
(* object what the cache holds, so that a restart rebuilds the same cache; *)
(* failed deletes are the exception (see DeletedIsNotCached).              *)
(***************************************************************************)
RestartRebuilds ==
    \A i \in Ids :
        /\ reply[i] \in {"success", "fail"} /\ Quiet(i)
        /\ ~(reply[i] = "fail" /\ lastOp[i] = "delete")
        => InRedis(i) = want[i] /\ InCache(i) = InRedis(i)

(***************************************************************************)
(* EveryRequestAnswered.  A request is answered with success or failure,   *)
(* even if the DCO never comes back, unless a restart lost it.             *)
(***************************************************************************)
EveryRequestAnswered ==
    \A i \in Ids : reply[i] \in {"pending", "inprogress"}
                     ~> (reply[i] \in {"success", "fail"} \/ i \in orphans)

(***************************************************************************)
(* DeletedIsNotCached.  An object whose deletion was answered, even with a *)
(* failure, is not in the cache, or is marked there for the next sync:     *)
(* "Mark for delete detected in cache. Processing Delete" (syncConfig).    *)
(***************************************************************************)
DeletedIsNotCached ==
    \A i \in Ids : lastOp[i] = "delete" /\ reply[i] \in {"success", "fail"} /\ Quiet(i)
                     => InCache(i) = NoVal

(***************************************************************************)
(* FailureIsExplained.  A failure is answered with the reason recorded for *)
(* it, such as "GigeClient create on DCO failed" (onCreate), and a success *)
(* not with the reason of an earlier try.                                  *)
(***************************************************************************)
FailureIsExplained ==
    \A i \in Ids : /\ reply[i] = "fail" => info[i] # ""
                   /\ reply[i] = "success" => info[i] = ""
-----------------------------------------------------------------------------
\* The DCO accepted the request for i, and its completion is still due.
Accepted(i) ==
    \E t \in Threads : cfg[t].pc = "complete" /\ cfg[t].status = "ok" /\ cfg[t].id = i

Store == INSTANCE Transactions WITH
    asked <- [i \in Ids |-> InRedis(i)],
    stage <- [i \in Ids |-> IF Accepted(i) THEN "accepted" ELSE reply[i]],
    lost <- orphans

(***************************************************************************)
(* ImplementsStore.  However many threads are in handleConfig at once, and *)
(* whatever the sync, the DCO and restarts do, a request is taken once and *)
(* answered once (checkAndCreate / Update / Delete, completeConfig), and   *)
(* the cleanups after it leave in Redis what the agent asked for last.     *)
(***************************************************************************)
ImplementsStore == Store!StoreSpec
=============================================================================
