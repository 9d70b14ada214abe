--------------------------- MODULE DpConfigProofs ---------------------------
(***************************************************************************)
(* Proofs about DpConfig for any objects, values and callback threads and  *)
(* any retry bounds: type correctness with those bounds, RestartRebuilds,  *)
(* and SuccessMeansInstalled, each from the assumptions about the          *)
(* environment that it needs.                                              *)
(***************************************************************************)
EXTENDS DpConfig, TLAPS

(***************************************************************************)
(* Part one of the inductive invariant: where the threads are, and what    *)
(* the agent, Redis and the cache agree on.                                *)
(***************************************************************************)
Busy(t) == cfg[t].pc # "idle"

BoundOK == \A t \in Threads : Busy(t) =>
    /\ cfg[t].pc \in {"lock", "send"} => cfg[t].tries < MaxTry
    /\ cfg[t].pc \in {"try", "lock", "send"} => cfg[t].fails \leq MaxSendFail /\ cfg[t].status # "ok"

LockOK == \A t \in Threads : lock = t <=> cfg[t].pc \in {"send", "cleanup"}

\* The request a thread works on is the last one for its object, unanswered
\* until the thread has only the cleanup left.
WorkOK == \A t \in Threads : Busy(t) =>
    /\ cfg[t].op = lastOp[cfg[t].id] /\ cfg[t].val = redis[cfg[t].id]
    /\ IF cfg[t].pc = "cleanup"
       THEN reply[cfg[t].id] = "success" /\ cfg[t].op = "delete" /\ cfg[t].id \in redisMark
       ELSE reply[cfg[t].id] = "inprogress"

OneEach == \A t, u \in Threads : Busy(t) /\ Busy(u) /\ cfg[t].id = cfg[u].id => t = u

RedisOK == \A i \in Ids :
    /\ want[i] = InRedis(i)
    /\ i \in redisMark => /\ redis[i] # NoVal /\ lastOp[i] = "delete"
                          /\ reply[i] \in {"pending", "inprogress", "success"}
    /\ lastOp[i] = "delete" => want[i] = NoVal
    /\ reply[i] \in {"pending", "inprogress"} => lastOp[i] # "none" /\ redis[i] # NoVal
    /\ reply[i] \in {"pending", "inprogress"} /\ lastOp[i] = "delete" => i \in redisMark

\* What a restart found marked in Redis stays so: nobody asks for it again.
MarkOK == \A i \in cacheMark :
    i \in redisMark /\ Quiet(i) /\ (reply[i] = "success" \/ i \in orphans)

AgentInv == TypeOK /\ BoundOK /\ LockOK /\ WorkOK /\ OneEach /\ RedisOK /\ MarkOK /\ RestartRebuilds

(***************************************************************************)
(* Part two: what the DCO holds, through outages and syncs.                *)
(***************************************************************************)
GateOK == (gate => state[Me] = "synced") /\ (lock = "poll" => ~gate /\ state[Me] = "up")

Sent(t) == cfg[t].pc = "complete" /\ cfg[t].status = "ok"

Holds(i) == dco[i] = want[i]

\* No sync runs between a send that succeeded and its completion.
SyncAlone == lock = "poll" => \A t \in Threads : ~Sent(t)

\* What was deleted stays deleted: a DCO that comes back empty does not have it.
DeletedHeld ==
    /\ \A i \in Ids : reply[i] = "success" /\ want[i] = NoVal => Holds(i)
    /\ \A t \in Threads : Sent(t) /\ cfg[t].op = "delete" => Holds(cfg[t].id)

\* A modify that is not answered yet works on an object that was settled before
\* and is cached; nothing else leaves an object in Redis without an answer.
Outstanding(i) == lastOp[i] = "modify" /\ reply[i] \in {"pending", "inprogress"}

ModifyCached == \A i \in Ids :
    /\ Outstanding(i) => InCache(i) # NoVal
    /\ reply[i] = "none" => redis[i] = NoVal
    /\ reply[i] = "fail" /\ lastOp[i] # "delete" => redis[i] # NoVal

\* The DCO has what the agent wants of a settled object, and of one that is
\* being modified what the modify takes for granted: the object, and all of it
\* if nothing needs to be sent.
SettledHeld(i) == Settled(i) /\ i \notin unsure => Holds(i)
ModifyHeld(i) == Outstanding(i) /\ i \notin unsure =>
    dco[i] # NoVal /\ (redis[i] = cache[i] => dco[i] = cache[i])
Kept(i) == SettledHeld(i) /\ ModifyHeld(i)

\* So it is in a DCO that is reachable since the manager was synced.
SyncedHeld == reach /\ state[Me] = "synced" =>
    /\ \A i \in Ids : Kept(i)
    /\ \A t \in Threads : Sent(t) /\ cfg[t].id \notin unsure => Holds(cfg[t].id)

\* So it is, during a sync, of the objects that are not left to send.
SyncSoFar == reach /\ lock = "poll" => \A i \in Ids \ syncLeft : Kept(i)

HoldsInv == GateOK /\ SyncAlone /\ DeletedHeld /\ ModifyCached /\ SyncedHeld /\ SyncSoFar

\* The assumptions on the environment under which a success can be kept.
Assured == ~ShortOutage /\ ~GapOutage /\ ~SyncLoss /\ ~Recreate
-----------------------------------------------------------------------------
(***************************************************************************)
(* Type correctness.                                                       *)
(***************************************************************************)

(***************************************************************************)
(* What a callback thread inside handleConfig holds.                       *)
(***************************************************************************)
LEMMA BusyThread ==
    ASSUME TypeOK, NEW t \in Threads, Busy(t)
    PROVE  /\ cfg[t] \in Working
           /\ cfg[t].id \in Ids /\ cfg[t].val \in Vals /\ cfg[t].op \in {"create", "modify", "delete"}
           /\ cfg[t].tries \in 0 .. MaxTry /\ cfg[t].fails \in 0 .. MaxSendFail + 1
           /\ cfg[t].snap \in 0 .. MaxCancel
           /\ cfg[t].status \in {"ok", "connect", "data"} /\ cfg[t].errLog \in {"", "notReady"}
           /\ cfg[t].pc \in {"try", "lock", "send", "complete", "cleanup"}
<1>1. cfg[t] \in Working \cup {Idle}
  BY DEF TypeOK
<1>2. cfg[t] # Idle
  <2>1. Idle.pc = "idle"
    BY DEF Idle
  <2> QED
    BY <2>1 DEF Busy
<1>3. cfg[t] \in Working
  BY <1>1, <1>2
<1> QED
  BY <1>3 DEF Working, Ops

\* Initially the variables have their types.
LEMMA ConfigTypeInit == Init => TypeOK
<1> SUFFICES ASSUME Init PROVE TypeOK
  OBVIOUS
<1>1. cfg \in [Threads -> Working \cup {Idle}]
  BY DEF Init
<1>2. Gate!GateTypeOK
  BY DEF Init, Gate!GateInit, Gate!GateTypeOK
<1>3. requests \in 0 .. MaxReq /\ crashes \in 0 .. MaxCrash /\ cancels \in 0 .. MaxCancel
  <2>1. requests = 0 /\ crashes = 0 /\ cancels = 0
    BY DEF Init
  <2> QED
    BY <2>1, ConfigAssumption
<1> QED
  BY <1>1, <1>2, <1>3 DEF Init, TypeOK, Ops

(***************************************************************************)
(* The actions that leave the callback threads alone.                      *)
(***************************************************************************)
LEMMA TypeEnv ==
    ASSUME TypeOK,
           Cancel \/ DcoLost \/ DcoBack \/ GateStep \/ SyncStep \/ Restart
           \/ \E i \in Ids, op \in Ops \ {"none"}, v \in Vals : Request(i, op, v)
    PROVE  TypeOK'
<1>1. CASE Cancel
  <2>1. cancels' \in 0 .. MaxCancel
    <3>1. cancels \in 0 .. MaxCancel /\ cancels < MaxCancel /\ cancels' = cancels + 1
      BY <1>1 DEF Cancel, TypeOK
    <3> QED
      BY <3>1, ConfigAssumption
  <2> QED
    BY <1>1, <2>1 DEF Cancel, TypeOK, agentVars, replyVars, dcoVars, cacheVars, gateVars, boundVars, Gate!GateTypeOK
<1>2. CASE DcoLost
  BY <1>2 DEF DcoLost, TypeOK, agentVars, replyVars, dcoVars, cacheVars, gateVars, boundVars, Gate!GateTypeOK
<1>3. CASE DcoBack
  BY <1>3 DEF DcoBack, TypeOK, agentVars, replyVars, dcoVars, cacheVars, gateVars, boundVars, Gate!GateTypeOK
<1>4. CASE GateStep
  <2>1. Gate!Close \/ Gate!Open \/ Gate!Connect(Me) \/ Gate!Drop(Me)
    BY <1>4 DEF GateStep
  <2>2. gate \in BOOLEAN /\ state \in [{Me} -> {"down", "up", "synced"}]
    BY DEF TypeOK, Gate!GateTypeOK
  <2>3. gate' \in BOOLEAN /\ state' \in [{Me} -> {"down", "up", "synced"}]
    <3>1. CASE Gate!Close
      BY <3>1, <2>2 DEF Gate!Close
    <3>2. CASE Gate!Open
      BY <3>2, <2>2 DEF Gate!Open
    <3>3. CASE Gate!Connect(Me)
      BY <3>3, <2>2 DEF Gate!Connect
    <3>4. CASE Gate!Drop(Me)
      BY <3>4, <2>2 DEF Gate!Drop
    <3> QED
      BY <2>1, <3>1, <3>2, <3>3, <3>4
  <2>4. Gate!GateTypeOK'
    BY <2>3 DEF Gate!GateTypeOK
  <2> QED
    BY <1>4, <2>4 DEF GateStep, TypeOK, agentVars, replyVars, dcoVars, cacheVars, gateVars, boundVars
<1>5. CASE SyncBegin
  BY <1>5 DEF SyncBegin, Cached, TypeOK, agentVars, replyVars, dcoVars, cacheVars, gateVars, boundVars, Gate!GateTypeOK
<1>6. ASSUME NEW i \in Ids, SyncObject(i) PROVE TypeOK'
  <2>1. dco' \in [Ids -> Vals \cup {NoVal}] /\ cache' \in [Ids -> Vals \cup {NoVal}]
        /\ cacheMark' \subseteq Ids
    BY <1>6 DEF SyncObject, TypeOK, cacheVars
  <2> QED
    BY <1>6, <2>1 DEF SyncObject, TypeOK, agentVars, replyVars, gateVars, boundVars, Gate!GateTypeOK
<1>7. CASE SyncEnd
  <2>1. Gate!GateTypeOK'
    BY <1>7 DEF SyncEnd, TypeOK, Gate!GateTypeOK, Gate!Sync
  <2> QED
    BY <1>7, <2>1 DEF SyncEnd, TypeOK, agentVars, replyVars, dcoVars, cacheVars, boundVars
<1>8. CASE Restart
  <2>1. cfg' \in [Threads -> Working \cup {Idle}]
    BY <1>8 DEF Restart
  <2>2. Gate!GateTypeOK'
    BY <1>8 DEF Restart, Gate!GateTypeOK
  <2>3. crashes' \in 0 .. MaxCrash /\ cancels' \in 0 .. MaxCancel
    <3>1. crashes \in 0 .. MaxCrash /\ crashes < MaxCrash /\ crashes' = crashes + 1 /\ cancels' = 0
      BY <1>8 DEF Restart, TypeOK
    <3> QED
      BY <3>1, ConfigAssumption
  <2>4. cache' \in [Ids -> Vals \cup {NoVal}] /\ cacheMark' \subseteq Ids
        /\ orphans' \subseteq Ids
    BY <1>8 DEF Restart, TypeOK
  <2> QED
    BY <1>8, <2>1, <2>2, <2>3, <2>4 DEF Restart, TypeOK, agentVars, replyVars, dcoVars
<1>9. ASSUME NEW i \in Ids, NEW op \in Ops \ {"none"}, NEW v \in Vals, Request(i, op, v) PROVE TypeOK'
  <2>1. redis' \in [Ids -> Vals \cup {NoVal}] /\ redisMark' \subseteq Ids
        /\ want' \in [Ids -> Vals \cup {NoVal}]
    <3>1. /\ redis' \in {redis, [redis EXCEPT ![i] = v]}
          /\ redisMark' \in {redisMark, redisMark \ {i}, redisMark \cup {i}}
          /\ want' \in {[want EXCEPT ![i] = v], [want EXCEPT ![i] = NoVal]}
      BY <1>9 DEF Request
    <3>2. redis' \in [Ids -> Vals \cup {NoVal}]
      BY <3>1 DEF TypeOK
    <3>3. want' \in [Ids -> Vals \cup {NoVal}]
      BY <3>1 DEF TypeOK
    <3>4. redisMark' \subseteq Ids
      BY <3>1 DEF TypeOK
    <3> QED
      BY <3>2, <3>3, <3>4
  <2>2. requests' \in 0 .. MaxReq
    <3>1. requests \in 0 .. MaxReq /\ requests < MaxReq /\ requests' = requests + 1
      BY <1>9 DEF Request, TypeOK
    <3> QED
      BY <3>1, ConfigAssumption
  <2>3. lastOp' \in [Ids -> Ops]
        /\ reply' \in [Ids -> {"none", "pending", "inprogress", "success", "fail"}]
    BY <1>9 DEF Request, TypeOK
  <2> QED
    BY <1>9, <2>1, <2>2, <2>3 DEF Request, TypeOK, dcoVars, cacheVars, gateVars, Gate!GateTypeOK
<1> QED
  BY <1>1, <1>2, <1>3, <1>4, <1>5, <1>6, <1>7, <1>8, <1>9 DEF SyncStep

(***************************************************************************)
(* A step of one thread leaves the others and, within handleConfig, the    *)
(* request alone.                                                          *)
(***************************************************************************)
Others(t) == \A u \in Threads \ {t} : cfg'[u] = cfg[u]

SameJob(t) == /\ cfg'[t].id = cfg[t].id /\ cfg'[t].op = cfg[t].op /\ cfg'[t].val = cfg[t].val
              /\ Busy(t) /\ Busy(t)'

\* One thread moves.
LEMMA ChangeCfg ==
    ASSUME TypeOK, NEW t \in Threads, NEW w \in Working \cup {Idle},
           cfg' = [cfg EXCEPT ![t] = w]
    PROVE  cfg' \in [Threads -> Working \cup {Idle}] /\ Others(t) /\ cfg'[t] = w
<1>1. cfg \in [Threads -> Working \cup {Idle}]
  BY DEF TypeOK
<1> QED
  BY <1>1 DEF Others

\* A thread is done.
LEMMA FinishCfg ==
    ASSUME TypeOK, NEW t \in Threads, Finish(t)
    PROVE  cfg' \in [Threads -> Working \cup {Idle}] /\ Others(t) /\ ~Busy(t)'
<1>1. cfg' \in [Threads -> Working \cup {Idle}] /\ Others(t) /\ cfg'[t] = Idle
  BY ChangeCfg DEF Finish
<1>2. Idle.pc = "idle"
  BY DEF Idle
<1> QED
  BY <1>1, <1>2 DEF Busy

\* What a thread starts with.
LEMMA DeliverCfg ==
    ASSUME AgentInv, NEW t \in Threads, NEW i \in Ids, Deliver(t, i)
    PROVE  /\ cfg' \in [Threads -> Working \cup {Idle}] /\ Others(t) /\ Busy(t)'
           /\ cfg'[t].pc = "try" /\ cfg'[t].id = i /\ cfg'[t].op = lastOp[i]
           /\ cfg'[t].val = redis[i] /\ cfg'[t].tries = 0 /\ cfg'[t].fails = 0
           /\ cfg'[t].status = "connect"
<1> DEFINE w == [Idle EXCEPT !.pc = "try", !.id = i, !.op = lastOp[i], !.val = redis[i],
                             !.snap = cancels]
           Any == [pc : {"idle", "try"}, id : Ids \cup {NoVal}, op : Ops, val : Vals \cup {NoVal},
                   tries : 0 .. MaxTry, fails : 0 .. MaxSendFail + 1, snap : 0 .. MaxCancel,
                   status : {"ok", "connect", "data"}, errLog : {"", "notReady"}]
<1>1. redis[i] \in Vals /\ lastOp[i] \in Ops \ {"none"}
  BY DEF Deliver, AgentInv, TypeOK, RedisOK
<1>2. 0 \in 0 .. MaxTry /\ 0 \in 0 .. MaxSendFail + 1 /\ 0 \in 0 .. MaxCancel
  BY ConfigAssumption
<1>3. cancels \in 0 .. MaxCancel
  BY DEF AgentInv, TypeOK
<1>4. Idle \in Any
  BY <1>2 DEF Idle, Ops
<1>5. /\ w \in Any /\ w.pc = "try" /\ w.id = i /\ w.op = lastOp[i] /\ w.val = redis[i]
      /\ w.tries = Idle.tries /\ w.fails = Idle.fails /\ w.status = Idle.status
  BY <1>1, <1>3, <1>4
<1>6. Idle.tries = 0 /\ Idle.fails = 0 /\ Idle.status = "connect"
  BY DEF Idle
<1>7. cfg' = [cfg EXCEPT ![t] = w]
  BY DEF Deliver
<1> HIDE DEF w
<1>8. w \in Working
  BY <1>1, <1>5 DEF Working
<1>9. cfg' \in [Threads -> Working \cup {Idle}] /\ Others(t) /\ cfg'[t] = w
  BY <1>7, <1>8, ChangeCfg DEF AgentInv
<1> QED
  BY <1>5, <1>6, <1>9 DEF Busy

(***************************************************************************)
(* The steps inside handleConfig keep the request and move the counters as *)
(* the loop does.                                                          *)
(***************************************************************************)
LEMMA LoopHeadCfg ==
    ASSUME AgentInv, NEW t \in Threads, LoopHead(t)
    PROVE  /\ cfg' \in [Threads -> Working \cup {Idle}] /\ Others(t) /\ SameJob(t)
           /\ cfg'[t].tries = cfg[t].tries /\ cfg'[t].fails = cfg[t].fails
           /\ cfg'[t].status = cfg[t].status /\ cfg'[t].pc \in {"lock", "complete"}
           /\ cfg'[t].pc = "lock" => cfg[t].tries < MaxTry
<1> DEFINE q == IF cfg[t].tries < MaxTry /\ cancels = cfg[t].snap THEN "lock" ELSE "complete"
           w == [cfg[t] EXCEPT !.pc = q]
<1>1. TypeOK /\ Busy(t)
  BY DEF AgentInv, Busy, LoopHead
<1>2. cfg[t] \in Working
  BY <1>1, BusyThread
<1>3. w \in Working
  BY <1>2 DEF Working
<1>4. cfg' = [cfg EXCEPT ![t] = w]
  BY <1>1 DEF LoopHead, TypeOK
<1>5. /\ w.pc = q /\ w.id = cfg[t].id /\ w.op = cfg[t].op /\ w.val = cfg[t].val
      /\ w.tries = cfg[t].tries /\ w.fails = cfg[t].fails /\ w.status = cfg[t].status
  BY <1>2 DEF Working
<1>6. q \in {"lock", "complete"} /\ (q = "lock" => cfg[t].tries < MaxTry)
  OBVIOUS
<1> HIDE DEF w, q
<1>7. cfg' \in [Threads -> Working \cup {Idle}] /\ Others(t) /\ cfg'[t] = w
  BY <1>1, <1>3, <1>4, ChangeCfg
<1> QED
  BY <1>1, <1>5, <1>6, <1>7 DEF SameJob, Busy

\* A failed readiness check counts as a try and clears the failed sends.
LEMMA NotReadyCfg ==
    ASSUME AgentInv, NEW t \in Threads, CheckNotReady(t)
    PROVE  /\ cfg' \in [Threads -> Working \cup {Idle}] /\ Others(t) /\ SameJob(t)
           /\ cfg'[t].fails = 0 /\ cfg'[t].status = cfg[t].status /\ cfg'[t].pc = "try"
<1> DEFINE w == [cfg[t] EXCEPT !.pc = "try", !.tries = @ + 1, !.fails = 0, !.errLog = "notReady"]
<1>1. TypeOK /\ Busy(t) /\ BoundOK
  BY DEF AgentInv, Busy, CheckNotReady
<1>2. cfg[t] \in Working
  BY <1>1, BusyThread
<1>3. cfg[t].tries + 1 \in 0 .. MaxTry /\ 0 \in 0 .. MaxSendFail + 1
  <2>1. cfg[t].tries < MaxTry
    BY <1>1 DEF BoundOK, CheckNotReady
  <2>2. cfg[t].tries \in 0 .. MaxTry
    BY <1>1, BusyThread
  <2> QED
    BY <2>1, <2>2, ConfigAssumption
<1>4. w \in Working
  BY <1>2, <1>3 DEF Working
<1>5. cfg' = [cfg EXCEPT ![t] = w]
  BY <1>1 DEF CheckNotReady, TypeOK
<1>6. /\ w.pc = "try" /\ w.id = cfg[t].id /\ w.op = cfg[t].op /\ w.val = cfg[t].val
      /\ w.fails = 0 /\ w.status = cfg[t].status
  BY <1>2 DEF Working
<1> HIDE DEF w
<1>7. cfg' \in [Threads -> Working \cup {Idle}] /\ Others(t) /\ cfg'[t] = w
  BY <1>1, <1>4, <1>5, ChangeCfg
<1> QED
  BY <1>1, <1>6, <1>7 DEF SameJob, Busy

\* A readiness check that passes changes the place only.
LEMMA ReadyCfg ==
    ASSUME AgentInv, NEW t \in Threads, CheckReady(t)
    PROVE  /\ cfg' \in [Threads -> Working \cup {Idle}] /\ Others(t) /\ SameJob(t)
           /\ cfg'[t].tries = cfg[t].tries /\ cfg'[t].fails = cfg[t].fails
           /\ cfg'[t].status = cfg[t].status /\ cfg'[t].pc = "send"
<1> DEFINE w == [cfg[t] EXCEPT !.pc = "send", !.errLog = ""]
<1>1. TypeOK /\ Busy(t)
  BY DEF AgentInv, Busy, CheckReady
<1>2. cfg[t] \in Working
  BY <1>1, BusyThread
<1>3. w \in Working
  BY <1>2 DEF Working
<1>4. cfg' = [cfg EXCEPT ![t] = w]
  BY <1>1 DEF CheckReady, TypeOK
<1>5. /\ w.pc = "send" /\ w.id = cfg[t].id /\ w.op = cfg[t].op /\ w.val = cfg[t].val
      /\ w.tries = cfg[t].tries /\ w.fails = cfg[t].fails /\ w.status = cfg[t].status
  BY <1>2 DEF Working
<1> HIDE DEF w
<1>6. cfg' \in [Threads -> Working \cup {Idle}] /\ Others(t) /\ cfg'[t] = w
  BY <1>1, <1>3, <1>4, ChangeCfg
<1> QED
  BY <1>1, <1>5, <1>6 DEF SameJob, Busy

\* A delete that succeeded has its cleanup left.
LEMMA CompleteDeleteCfg ==
    ASSUME AgentInv, NEW t \in Threads, CompleteDelete(t)
    PROVE  /\ cfg' \in [Threads -> Working \cup {Idle}] /\ Others(t) /\ SameJob(t)
           /\ cfg'[t].pc = "cleanup"
<1> DEFINE w == [cfg[t] EXCEPT !.pc = "cleanup"]
<1>1. TypeOK /\ Busy(t)
  BY DEF AgentInv, Busy, CompleteDelete
<1>2. cfg[t] \in Working
  BY <1>1, BusyThread
<1>3. w \in Working
  BY <1>2 DEF Working
<1>4. cfg' = [cfg EXCEPT ![t] = w]
  BY <1>1 DEF CompleteDelete, TypeOK
<1>5. w.pc = "cleanup" /\ w.id = cfg[t].id /\ w.op = cfg[t].op /\ w.val = cfg[t].val
  BY <1>2 DEF Working
<1> HIDE DEF w
<1>6. cfg' \in [Threads -> Working \cup {Idle}] /\ Others(t) /\ cfg'[t] = w
  BY <1>1, <1>3, <1>4, ChangeCfg
<1> QED
  BY <1>1, <1>5, <1>6 DEF SameJob, Busy

(***************************************************************************)
(* A send is answered, or fails and is given up or tried again.            *)
(***************************************************************************)
LEMMA SendCfg ==
    ASSUME AgentInv, NEW t \in Threads, Send(t)
    PROVE  /\ cfg' \in [Threads -> Working \cup {Idle}] /\ Others(t) /\ SameJob(t)
           /\ cfg'[t].pc \in {"try", "complete"}
           /\ cfg'[t].pc = "try" => cfg'[t].status # "ok" /\ cfg'[t].fails \leq MaxSendFail
           /\ \E r \in {"ok", "connect", "data"} : ProcessConfig(cfg[t], r) /\ cfg'[t].status = r
<1>1. TypeOK /\ Busy(t) /\ BoundOK
  BY DEF AgentInv, Busy, Send
<1>2. cfg[t] \in Working
  BY <1>1, BusyThread
<1>3. PICK r \in {"ok", "connect", "data"} :
          /\ ProcessConfig(cfg[t], r)
          /\ cfg' = IF r = "connect"
                    THEN [cfg EXCEPT ![t].status = r, ![t].fails = @ + 1, ![t].tries = @ + 1,
                                     ![t].pc = IF cfg[t].fails >= MaxSendFail
                                               THEN "complete" ELSE "try"]
                    ELSE [cfg EXCEPT ![t].status = r, ![t].pc = "complete"]
  BY DEF Send
<1>4. CASE r = "connect"
  <2> DEFINE q == IF cfg[t].fails >= MaxSendFail THEN "complete" ELSE "try"
             w == [cfg[t] EXCEPT !.status = r, !.fails = @ + 1, !.tries = @ + 1, !.pc = q]
  <2>1. cfg[t].tries + 1 \in 0 .. MaxTry
    <3>1. cfg[t].tries < MaxTry
      BY <1>1 DEF BoundOK, Send
    <3>2. cfg[t].tries \in 0 .. MaxTry
      BY <1>1, BusyThread
    <3> QED
      BY <3>1, <3>2, ConfigAssumption
  <2>2. /\ cfg[t].fails + 1 \in 0 .. MaxSendFail + 1
        /\ q = "try" => cfg[t].fails + 1 \leq MaxSendFail
    <3>1. cfg[t].fails \leq MaxSendFail
      BY <1>1 DEF BoundOK, Send
    <3>2. cfg[t].fails \in 0 .. MaxSendFail + 1
      BY <1>1, BusyThread
    <3> QED
      BY <3>1, <3>2, ConfigAssumption
  <2>3. q \in {"try", "complete"}
    OBVIOUS
  <2>4. cfg' = [cfg EXCEPT ![t] = w]
    BY <1>1, <1>3, <1>4 DEF TypeOK
  <2> HIDE DEF q
  <2>5. w \in Working
    BY <1>2, <1>4, <2>1, <2>2, <2>3 DEF Working
  <2>6. /\ w.pc = q /\ w.id = cfg[t].id /\ w.op = cfg[t].op /\ w.val = cfg[t].val
        /\ w.fails = cfg[t].fails + 1 /\ w.status = r
    BY <1>2 DEF Working
  <2> HIDE DEF w
  <2>7. cfg' \in [Threads -> Working \cup {Idle}] /\ Others(t) /\ cfg'[t] = w
    BY <1>1, <2>4, <2>5, ChangeCfg
  <2> QED
    BY <1>1, <1>3, <1>4, <2>2, <2>3, <2>6, <2>7 DEF SameJob, Busy
<1>5. CASE r # "connect"
  <2> DEFINE w == [cfg[t] EXCEPT !.status = r, !.pc = "complete"]
  <2>1. w \in Working
    BY <1>2 DEF Working
  <2>2. cfg' = [cfg EXCEPT ![t] = w]
    BY <1>1, <1>3, <1>5 DEF TypeOK
  <2>3. /\ w.pc = "complete" /\ w.id = cfg[t].id /\ w.op = cfg[t].op /\ w.val = cfg[t].val
        /\ w.status = r
    BY <1>2 DEF Working
  <2> HIDE DEF w
  <2>4. cfg' \in [Threads -> Working \cup {Idle}] /\ Others(t) /\ cfg'[t] = w
    BY <1>1, <2>1, <2>2, ChangeCfg
  <2> QED
    BY <1>1, <1>3, <2>3, <2>4 DEF SameJob, Busy
<1> QED
  BY <1>4, <1>5

-----------------------------------------------------------------------------
(***************************************************************************)
(* Part one is inductive: one lemma per kind of step.                      *)
(***************************************************************************)

(***************************************************************************)
(* Steps that neither the agent's data, the cache nor the threads see.     *)
(***************************************************************************)
LEMMA AgentInvElsewhere ==
    ASSUME AgentInv, Cancel \/ DcoLost \/ DcoBack \/ GateStep
    PROVE  AgentInv'
<1>1. TypeOK'
  BY TypeEnv DEF AgentInv
<1>2. UNCHANGED <<agentVars, reply, cacheVars, lock, cfg, orphans>>
  BY DEF Cancel, DcoLost, DcoBack, GateStep, agentVars, replyVars, dcoVars, cacheVars, gateVars, boundVars
<1> QED
  BY <1>1, <1>2 DEF AgentInv, BoundOK, LockOK, WorkOK, OneEach, RedisOK, MarkOK, RestartRebuilds,
     Busy, Quiet, InRedis, InCache, agentVars, cacheVars

(***************************************************************************)
(* The poll thread takes the mutex, drops what is marked from the cache,   *)
(* and gives the mutex back.                                               *)
(***************************************************************************)
LEMMA AgentInvSync ==
    ASSUME AgentInv, SyncStep
    PROVE  AgentInv'
<1>1. TypeOK'
  BY TypeEnv DEF AgentInv
<1>2. UNCHANGED <<redis, redisMark, want, lastOp, reply, cfg, orphans>>
  BY DEF SyncStep, SyncBegin, SyncObject, SyncEnd, agentVars, replyVars, boundVars
<1>3. BoundOK' /\ WorkOK' /\ OneEach' /\ RedisOK'
  BY <1>2 DEF AgentInv, BoundOK, WorkOK, OneEach, RedisOK, Busy, InRedis
<1>4. LockOK'
  <2>1. lock \notin Threads /\ lock' \notin Threads
    BY ConfigAssumption DEF SyncStep, SyncBegin, SyncObject, SyncEnd
  <2> QED
    BY <1>2, <2>1 DEF AgentInv, LockOK
<1>5. \A i \in Ids : InCache(i)' = InCache(i) /\ (i \in cacheMark' => i \in cacheMark)
  <2>1. CASE \E i \in Ids : SyncObject(i)
    BY <2>1 DEF SyncObject, cacheVars, InCache, AgentInv, TypeOK
  <2>2. CASE SyncBegin \/ SyncEnd
    BY <2>2 DEF SyncBegin, SyncEnd, cacheVars, InCache
  <2> QED
    BY <2>1, <2>2 DEF SyncStep
<1>6. cacheMark' \subseteq Ids
  BY <1>1 DEF TypeOK
<1>7. MarkOK'
  BY <1>2, <1>5, <1>6 DEF AgentInv, MarkOK, Quiet
<1>8. RestartRebuilds'
  BY <1>2, <1>5 DEF AgentInv, RestartRebuilds, Quiet, InRedis
<1> QED
  BY <1>1, <1>3, <1>4, <1>7, <1>8 DEF AgentInv

(***************************************************************************)
(* A restart rebuilds the cache from Redis, whatever the cache was.        *)
(***************************************************************************)
LEMMA AgentInvRestart ==
    ASSUME AgentInv, Restart
    PROVE  AgentInv'
<1>1. TypeOK'
  BY TypeEnv DEF AgentInv
<1>2. \A t \in Threads : cfg'[t] = Idle
  BY DEF Restart
<1>3. Idle.pc = "idle"
  BY DEF Idle
<1>4. BoundOK' /\ WorkOK' /\ OneEach'
  BY <1>2, <1>3 DEF BoundOK, WorkOK, OneEach, Busy
<1>5. LockOK'
  BY <1>2, <1>3, ConfigAssumption DEF LockOK, Restart
<1>6. /\ UNCHANGED <<redis, redisMark, want, lastOp, reply>>
      /\ cache' = redis /\ cacheMark' = redisMark
      /\ orphans' = orphans \cup {i \in Ids : reply[i] \in {"pending", "inprogress"}}
  BY DEF Restart, agentVars, replyVars
<1>7. RedisOK'
  BY <1>6 DEF AgentInv, RedisOK, InRedis
<1>8. MarkOK'
  <2> SUFFICES ASSUME NEW i \in redisMark
               PROVE  Quiet(i)' /\ (reply[i] = "success" \/ i \in orphans')
    BY <1>6 DEF MarkOK
  <2>1. i \in Ids
    BY DEF AgentInv, TypeOK
  <2>2. reply[i] \in {"pending", "inprogress", "success"}
    BY <2>1 DEF AgentInv, RedisOK
  <2> QED
    BY <1>2, <1>3, <1>6, <2>1, <2>2 DEF Quiet
<1>9. RestartRebuilds'
  BY <1>6 DEF AgentInv, RedisOK, RestartRebuilds, InRedis, InCache
<1> QED
  BY <1>1, <1>4, <1>5, <1>7, <1>8, <1>9 DEF AgentInv

(***************************************************************************)
(* A request finds no thread at work on its object: one that has only the  *)
(* cleanup of a delete left keeps the object marked in Redis.              *)
(***************************************************************************)
LEMMA AgentInvRequest ==
    ASSUME AgentInv, ~Recreate,
           NEW i \in Ids, NEW op \in Ops \ {"none"}, NEW v \in Vals, Request(i, op, v)
    PROVE  AgentInv'
<1>1. TypeOK /\ TypeOK'
  BY TypeEnv DEF AgentInv
<1>2. /\ UNCHANGED <<cache, cacheMark, lock, cfg, orphans>>
      /\ reply' = [reply EXCEPT ![i] = "pending"] /\ lastOp' = [lastOp EXCEPT ![i] = op]
  BY DEF Request, cacheVars
<1>3. BoundOK' /\ LockOK' /\ OneEach'
  BY <1>2 DEF AgentInv, BoundOK, LockOK, OneEach, Busy
<1>4. i \notin redisMark /\ reply[i] \notin {"pending", "inprogress"}
  BY DEF Request, AgentInv, RedisOK
<1>5. Quiet(i) /\ i \notin cacheMark
  BY <1>4 DEF AgentInv, WorkOK, MarkOK, Quiet, Busy
<1>6. \A j \in Ids \ {i} : /\ redis'[j] = redis[j] /\ (j \in redisMark' <=> j \in redisMark)
                           /\ want'[j] = want[j] /\ lastOp'[j] = lastOp[j] /\ reply'[j] = reply[j]
  <2> SUFFICES ASSUME NEW j \in Ids \ {i}
               PROVE  /\ redis'[j] = redis[j] /\ (j \in redisMark' <=> j \in redisMark)
                      /\ want'[j] = want[j] /\ lastOp'[j] = lastOp[j] /\ reply'[j] = reply[j]
    OBVIOUS
  <2>1. lastOp'[j] = lastOp[j] /\ reply'[j] = reply[j]
    BY <1>1, <1>2 DEF TypeOK
  <2>2. redis'[j] = redis[j] /\ want'[j] = want[j]
    BY <1>1 DEF Request, TypeOK
  <2>3. j \in redisMark' <=> j \in redisMark
    BY DEF Request
  <2> QED
    BY <2>1, <2>2, <2>3
<1>7. /\ reply'[i] = "pending" /\ lastOp'[i] = op /\ op # "none"
      /\ redis'[i] # NoVal /\ (i \in redisMark' <=> op = "delete")
      /\ want'[i] = IF op = "delete" THEN NoVal ELSE redis'[i]
  <2>1. reply'[i] = "pending" /\ lastOp'[i] = op /\ op # "none"
    BY <1>1, <1>2 DEF TypeOK
  <2>2. v # NoVal
    BY ConfigAssumption
  <2>3. i \in redisMark' <=> op = "delete"
    BY <1>4 DEF Request
  <2>4. CASE op = "create"
    <3>1. redis' = [redis EXCEPT ![i] = v] /\ want' = [want EXCEPT ![i] = v]
      BY <2>4 DEF Request
    <3> QED
      BY <1>1, <2>1, <2>2, <2>3, <2>4, <3>1 DEF TypeOK
  <2>5. CASE op = "modify"
    <3>1. redis' = [redis EXCEPT ![i] = v] /\ want' = [want EXCEPT ![i] = v]
      BY <2>5 DEF Request
    <3> QED
      BY <1>1, <2>1, <2>2, <2>3, <2>5, <3>1 DEF TypeOK
  <2>6. CASE op = "delete"
    <3>1. redis' = redis /\ redis[i] = v /\ want' = [want EXCEPT ![i] = NoVal]
      BY <2>6 DEF Request
    <3> QED
      BY <1>1, <2>1, <2>2, <2>3, <2>6, <3>1 DEF TypeOK
  <2> QED
    BY <2>4, <2>5, <2>6 DEF Ops
<1>8. WorkOK'
  <2> SUFFICES ASSUME NEW t \in Threads, Busy(t)'
               PROVE  /\ cfg[t].op = lastOp'[cfg[t].id] /\ cfg[t].val = redis'[cfg[t].id]
                      /\ IF cfg[t].pc = "cleanup"
                         THEN reply'[cfg[t].id] = "success" /\ cfg[t].op = "delete"
                              /\ cfg[t].id \in redisMark'
                         ELSE reply'[cfg[t].id] = "inprogress"
    BY <1>2 DEF WorkOK
  <2>1. Busy(t) /\ cfg[t].id \in Ids
    BY <1>1, <1>2, BusyThread DEF Busy
  <2>2. cfg[t].id # i
    BY <1>5, <2>1 DEF Quiet, Busy
  <2> QED
    BY <1>6, <2>1, <2>2 DEF AgentInv, WorkOK
<1>9. RedisOK'
  <2> SUFFICES ASSUME NEW j \in Ids
               PROVE  /\ want'[j] = InRedis(j)'
                      /\ j \in redisMark' => /\ redis'[j] # NoVal /\ lastOp'[j] = "delete"
                                             /\ reply'[j] \in {"pending", "inprogress", "success"}
                      /\ lastOp'[j] = "delete" => want'[j] = NoVal
                      /\ reply'[j] \in {"pending", "inprogress"} => lastOp'[j] # "none" /\ redis'[j] # NoVal
                      /\ reply'[j] \in {"pending", "inprogress"} /\ lastOp'[j] = "delete" => j \in redisMark'
    BY DEF RedisOK
  <2>1. CASE j = i
    BY <1>7, <2>1 DEF InRedis
  <2>2. CASE j # i
    BY <1>6, <2>2 DEF AgentInv, RedisOK, InRedis
  <2> QED
    BY <2>1, <2>2
<1>10. MarkOK'
  <2> SUFFICES ASSUME NEW j \in cacheMark
               PROVE  j \in redisMark' /\ Quiet(j)' /\ (reply'[j] = "success" \/ j \in orphans)
    BY <1>2 DEF MarkOK
  <2>1. j \in Ids \ {i}
    BY <1>1, <1>5 DEF TypeOK
  <2> QED
    BY <1>2, <1>6, <2>1 DEF AgentInv, MarkOK, Quiet
<1>11. RestartRebuilds'
  <2> SUFFICES ASSUME NEW j \in Ids, reply'[j] \in {"success", "fail"}, Quiet(j)',
                      ~(reply'[j] = "fail" /\ lastOp'[j] = "delete")
               PROVE  InRedis(j)' = want'[j] /\ InCache(j)' = InRedis(j)'
    BY DEF RestartRebuilds
  <2>1. j # i
    BY <1>7
  <2> QED
    BY <1>2, <1>6, <2>1 DEF AgentInv, RestartRebuilds, Quiet, InRedis, InCache
<1> QED
  BY <1>1, <1>3, <1>8, <1>9, <1>10, <1>11 DEF AgentInv

(***************************************************************************)
(* The steps inside handleConfig: the request, Redis, the cache and the    *)
(* answer stay what they are.                                              *)
(***************************************************************************)
LEMMA AgentInvLoop ==
    ASSUME AgentInv, NEW t \in Threads,
           LoopHead(t) \/ CheckNotReady(t) \/ CheckReady(t) \/ Send(t)
    PROVE  AgentInv'
<1>1. TypeOK /\ BoundOK /\ LockOK /\ Busy(t)
  BY DEF AgentInv, Busy, LoopHead, CheckNotReady, CheckReady, Send
<1>2. cfg' \in [Threads -> Working \cup {Idle}] /\ Others(t) /\ SameJob(t)
  BY LoopHeadCfg, NotReadyCfg, ReadyCfg, SendCfg
<1>3. UNCHANGED <<agentVars, reply, info, reach, cacheVars, gateVars, syncLeft, cancels, boundVars>>
  BY DEF LoopHead, CheckNotReady, CheckReady, Send, replyVars, dcoVars
<1>4. dco' \in [Ids -> Vals \cup {NoVal}] /\ unsure' \subseteq Ids /\ errString' \in {"", "send"}
  <2>1. CASE Send(t)
    <3>1. PICK r \in {"ok", "connect", "data"} : ProcessConfig(cfg[t], r)
      BY <2>1 DEF Send
    <3>2. cfg[t].id \in Ids /\ cfg[t].val \in Vals
      BY <1>1, BusyThread
    <3>3. cfg[t].op \in {"create", "modify", "delete"} /\ dco[cfg[t].id] \in Vals \cup {NoVal}
      BY <1>1, <3>2, BusyThread DEF TypeOK
    <3>4. dco' = dco \/ \E v \in Vals \cup {NoVal} : dco' = [dco EXCEPT ![cfg[t].id] = v]
      BY <3>1, <3>2, <3>3 DEF ProcessConfig, Applied, Halfway
    <3>5. unsure' \subseteq Ids /\ errString' \in {"", "send"}
      BY <1>1, <3>1 DEF ProcessConfig, TypeOK
    <3>6. dco' \in [Ids -> Vals \cup {NoVal}]
      BY <1>1, <3>2, <3>4 DEF TypeOK
    <3> QED
      BY <3>5, <3>6
  <2>2. CASE LoopHead(t) \/ CheckNotReady(t) \/ CheckReady(t)
    BY <1>1, <2>2 DEF LoopHead, CheckNotReady, CheckReady, TypeOK, dcoVars
  <2> QED
    BY <2>1, <2>2
<1>5. lock' \in Threads \cup {"free", "poll"}
  BY <1>1 DEF LoopHead, CheckNotReady, CheckReady, Send, TypeOK
<1>6. TypeOK'
  BY <1>1, <1>2, <1>3, <1>4, <1>5 DEF TypeOK, agentVars, cacheVars, gateVars, boundVars, Gate!GateTypeOK
<1>7. \A u \in Threads : /\ cfg'[u].id = cfg[u].id /\ cfg'[u].op = cfg[u].op /\ cfg'[u].val = cfg[u].val
                         /\ Busy(u)' <=> Busy(u)
  BY <1>2 DEF SameJob, Others, Busy
<1>8. cfg'[t].pc \in {"try", "lock", "send", "complete"} /\ cfg[t].pc \in {"try", "lock", "send"}
  <2>1. cfg[t].pc \in {"try", "lock", "send"}
    BY DEF LoopHead, CheckNotReady, CheckReady, Send
  <2> QED
    BY <2>1, LoopHeadCfg, NotReadyCfg, ReadyCfg, SendCfg
<1>9. BoundOK'
  <2> SUFFICES ASSUME NEW u \in Threads, Busy(u)'
               PROVE  /\ cfg'[u].pc \in {"lock", "send"} => cfg'[u].tries < MaxTry
                      /\ cfg'[u].pc \in {"try", "lock", "send"} =>
                            cfg'[u].fails \leq MaxSendFail /\ cfg'[u].status # "ok"
    BY DEF BoundOK
  <2>1. CASE u # t
    BY <1>1, <1>2, <1>7, <2>1 DEF BoundOK, Others
  <2>2. CASE u = t /\ LoopHead(t)
    BY <1>1, <2>2, LoopHeadCfg DEF BoundOK, LoopHead
  <2>3. CASE u = t /\ CheckNotReady(t)
    <3>1. cfg[t].status # "ok" /\ 0 \leq MaxSendFail
      BY <1>1, <2>3, ConfigAssumption DEF BoundOK, CheckNotReady
    <3> QED
      BY <2>3, <3>1, NotReadyCfg
  <2>4. CASE u = t /\ CheckReady(t)
    BY <1>1, <2>4, ReadyCfg DEF BoundOK, CheckReady
  <2>5. CASE u = t /\ Send(t)
    BY <2>5, SendCfg
  <2> QED
    BY <2>1, <2>2, <2>3, <2>4, <2>5
<1>10. LockOK'
  <2> SUFFICES ASSUME NEW u \in Threads
               PROVE  lock' = u <=> cfg'[u].pc \in {"send", "cleanup"}
    BY DEF LockOK
  <2>1. CASE LoopHead(t)
    BY <1>1, <1>2, <2>1, LoopHeadCfg DEF LoopHead, LockOK, Others
  <2>2. CASE CheckNotReady(t)
    <3>1. lock' = lock /\ cfg[t].pc = "lock" /\ cfg'[t].pc = "try"
      BY <2>2, NotReadyCfg DEF CheckNotReady
    <3> QED
      BY <1>1, <1>2, <3>1 DEF LockOK, Others
  <2>3. CASE CheckReady(t)
    <3>1. lock = "free" /\ lock' = t /\ cfg'[t].pc = "send"
      BY <2>3, ReadyCfg DEF CheckReady
    <3>2. lock # u
      BY <3>1, ConfigAssumption
    <3> QED
      BY <1>1, <1>2, <3>1, <3>2 DEF LockOK, Others
  <2>4. CASE Send(t)
    BY <1>1, <1>2, <2>4, SendCfg, ConfigAssumption DEF Send, LockOK, Others
  <2> QED
    BY <2>1, <2>2, <2>3, <2>4
<1>11. WorkOK'
  <2> SUFFICES ASSUME NEW u \in Threads, Busy(u)'
               PROVE  /\ cfg'[u].op = lastOp[cfg'[u].id] /\ cfg'[u].val = redis[cfg'[u].id]
                      /\ IF cfg'[u].pc = "cleanup"
                         THEN reply[cfg'[u].id] = "success" /\ cfg'[u].op = "delete"
                              /\ cfg'[u].id \in redisMark
                         ELSE reply[cfg'[u].id] = "inprogress"
    BY <1>3 DEF WorkOK, agentVars
  <2>1. Busy(u)
    BY <1>7
  <2>2. cfg'[u].pc = "cleanup" <=> cfg[u].pc = "cleanup"
    BY <1>2, <1>8 DEF Others
  <2> QED
    BY <1>7, <2>1, <2>2 DEF AgentInv, WorkOK
<1>12. OneEach'
  BY <1>7 DEF AgentInv, OneEach
<1>13. \A i \in Ids : Quiet(i)' <=> Quiet(i)
  BY <1>7 DEF Quiet, Busy
<1>14. RedisOK'
  BY <1>3 DEF AgentInv, RedisOK, InRedis, agentVars
<1>15. MarkOK'
  BY <1>1, <1>3, <1>13 DEF AgentInv, MarkOK, TypeOK, agentVars, cacheVars, boundVars
<1>16. RestartRebuilds'
  BY <1>3, <1>13 DEF AgentInv, RestartRebuilds, InRedis, InCache, agentVars, cacheVars
<1> QED
  BY <1>6, <1>9, <1>10, <1>11, <1>12, <1>14, <1>15, <1>16 DEF AgentInv

(***************************************************************************)
(* A thread takes up a request nobody works on.                            *)
(***************************************************************************)
LEMMA AgentInvDeliver ==
    ASSUME AgentInv, NEW t \in Threads, NEW i \in Ids, Deliver(t, i)
    PROVE  AgentInv'
<1>1. /\ cfg' \in [Threads -> Working \cup {Idle}] /\ Others(t) /\ Busy(t)'
      /\ cfg'[t].pc = "try" /\ cfg'[t].id = i /\ cfg'[t].op = lastOp[i]
      /\ cfg'[t].val = redis[i] /\ cfg'[t].tries = 0 /\ cfg'[t].fails = 0
      /\ cfg'[t].status = "connect"
  BY DeliverCfg
<1>2. /\ UNCHANGED <<agentVars, info, dcoVars, cacheVars, gateVars, lock, syncLeft, cancels,
                     errString, boundVars>>
      /\ reply' = [reply EXCEPT ![i] = "inprogress"]
      /\ cfg[t].pc = "idle" /\ reply[i] = "pending" /\ i \notin orphans
  BY DEF Deliver
<1>3. TypeOK /\ WorkOK /\ OneEach
  BY DEF AgentInv
<1>4. reply' \in [Ids -> {"none", "pending", "inprogress", "success", "fail"}]
      /\ reply'[i] = "inprogress" /\ (\A j \in Ids \ {i} : reply'[j] = reply[j])
  BY <1>2, <1>3 DEF TypeOK
<1>5. TypeOK'
  BY <1>1, <1>2, <1>3, <1>4 DEF TypeOK, agentVars, dcoVars, cacheVars, gateVars, boundVars, Gate!GateTypeOK
<1>6. Quiet(i) /\ i \notin cacheMark
  BY <1>2 DEF AgentInv, WorkOK, MarkOK, Quiet, Busy
<1>7. \A u \in Threads \ {t} : cfg'[u] = cfg[u] /\ (Busy(u)' <=> Busy(u)) /\ (Busy(u) => cfg[u].id # i)
  BY <1>1, <1>6 DEF Others, Busy, Quiet
<1>8. BoundOK'
  <2>1. 0 \leq MaxSendFail
    BY ConfigAssumption
  <2> QED
    BY <1>1, <1>7, <2>1 DEF AgentInv, BoundOK
<1>9. LockOK'
  BY <1>1, <1>2, <1>7 DEF AgentInv, LockOK
<1>10. WorkOK'
  <2> SUFFICES ASSUME NEW u \in Threads, Busy(u)'
               PROVE  /\ cfg'[u].op = lastOp[cfg'[u].id] /\ cfg'[u].val = redis[cfg'[u].id]
                      /\ IF cfg'[u].pc = "cleanup"
                         THEN reply'[cfg'[u].id] = "success" /\ cfg'[u].op = "delete"
                              /\ cfg'[u].id \in redisMark
                         ELSE reply'[cfg'[u].id] = "inprogress"
    BY <1>2 DEF WorkOK, agentVars
  <2>1. CASE u = t
    BY <1>1, <1>4, <2>1
  <2>2. CASE u # t
    <3>1. Busy(u) /\ cfg'[u] = cfg[u] /\ cfg[u].id # i /\ cfg[u].id \in Ids
      BY <1>3, <1>7, <2>2, BusyThread
    <3> QED
      BY <1>3, <1>4, <3>1 DEF WorkOK
  <2> QED
    BY <2>1, <2>2
<1>11. OneEach'
  BY <1>1, <1>3, <1>7 DEF OneEach
<1>12. \A j \in Ids \ {i} : Quiet(j)' <=> Quiet(j)
  BY <1>1, <1>2, <1>7 DEF Quiet, Busy
<1>13. RedisOK'
  BY <1>2, <1>4 DEF AgentInv, RedisOK, InRedis, agentVars
<1>14. MarkOK'
  BY <1>2, <1>3, <1>4, <1>6, <1>12 DEF AgentInv, MarkOK, TypeOK, agentVars, cacheVars, boundVars
<1>15. RestartRebuilds'
  <2> SUFFICES ASSUME NEW j \in Ids, reply'[j] \in {"success", "fail"}, Quiet(j)',
                      ~(reply'[j] = "fail" /\ lastOp[j] = "delete")
               PROVE  InRedis(j) = want[j] /\ InCache(j) = InRedis(j)
    BY <1>2 DEF RestartRebuilds, InRedis, InCache, agentVars, cacheVars
  <2>1. j # i
    BY <1>4
  <2> QED
    BY <1>4, <1>12, <2>1 DEF AgentInv, RestartRebuilds
<1> QED
  BY <1>5, <1>8, <1>9, <1>10, <1>11, <1>13, <1>14, <1>15 DEF AgentInv

(***************************************************************************)
(* completeConfig, but for a successful delete: the object is cached, or   *)
(* leaves Redis, and the request is answered, in one turn of the mutex.    *)
(***************************************************************************)
LEMMA AgentInvComplete ==
    ASSUME AgentInv, NEW t \in Threads, CompleteFail(t) \/ CompleteConfig(t)
    PROVE  AgentInv'
<1> DEFINE i == cfg[t].id
<1>1. TypeOK /\ BoundOK /\ LockOK /\ WorkOK /\ OneEach /\ RedisOK /\ Busy(t) /\ Finish(t)
      /\ cfg[t].pc = "complete"
  BY DEF AgentInv, Busy, CompleteFail, CompleteConfig
<1>2. i \in Ids /\ cfg[t].val \in Vals
  BY <1>1, BusyThread
<1>3. cfg' \in [Threads -> Working \cup {Idle}] /\ Others(t) /\ ~Busy(t)'
  BY <1>1, FinishCfg
<1>4. /\ UNCHANGED <<want, lastOp, dco, reach, gateVars, lock, syncLeft, cancels, boundVars>>
      /\ errString' = "" /\ unsure' \in {unsure, unsure \cup {i}}
      /\ \E a \in {"success", "fail"} :
            reply' = [reply EXCEPT ![i] = a] /\ (a = "success" => cfg[t].op # "delete")
  BY DEF CompleteFail, CompleteConfig, Answer, agentVars, dcoVars
<1>5. /\ reply' \in [Ids -> {"none", "pending", "inprogress", "success", "fail"}]
      /\ reply'[i] \in {"success", "fail"} /\ (reply'[i] = "success" => cfg[t].op # "delete")
      /\ \A k \in Ids \ {i} : reply'[k] = reply[k]
  BY <1>1, <1>2, <1>4 DEF TypeOK
<1>6. cfg[t].op = lastOp[i] /\ cfg[t].val = redis[i] /\ reply[i] = "inprogress"
  BY <1>1 DEF WorkOK
<1>7. info' \in [Ids -> {"", "notReady", "send"}]
  <2>1. cfg[t].errLog \in {"", "notReady"}
    BY <1>1, BusyThread
  <2>2. \E x \in {"", "notReady", "send"} : info' = [info EXCEPT ![i] = x]
    BY <1>1, <2>1 DEF CompleteFail, CompleteConfig, Answer, TypeOK
  <2> QED
    BY <1>1, <1>2, <2>2 DEF TypeOK
<1>8. \/ /\ cfg[t].op = "delete"
         /\ redis' = [redis EXCEPT ![i] = NoVal] /\ redisMark' = redisMark \ {i}
         /\ cache' = cache /\ cacheMark' = cacheMark
      \/ /\ cfg[t].op # "delete"
         /\ redis' = redis /\ redisMark' = redisMark
         /\ cache' = [cache EXCEPT ![i] = cfg[t].val]
         /\ cacheMark' \in {cacheMark, cacheMark \ {i}}
  BY DEF CompleteFail, CompleteConfig, CacheConfig, RedisDelete, agentVars, cacheVars
<1>9. /\ redis' \in [Ids -> Vals \cup {NoVal}] /\ cache' \in [Ids -> Vals \cup {NoVal}]
      /\ redisMark' \subseteq Ids /\ cacheMark' \subseteq Ids
  BY <1>1, <1>2, <1>8 DEF TypeOK
<1>10. TypeOK'
  BY <1>1, <1>2, <1>3, <1>4, <1>5, <1>7, <1>9 DEF TypeOK, gateVars, boundVars, Gate!GateTypeOK
<1>11. i \notin cacheMark /\ (i \in redisMark <=> cfg[t].op = "delete")
  BY <1>1, <1>2, <1>6 DEF AgentInv, MarkOK, Quiet, Busy, RedisOK
<1> HIDE DEF i
<1>12. \A k \in Ids \ {i} :
          /\ redis'[k] = redis[k] /\ (k \in redisMark' <=> k \in redisMark)
          /\ cache'[k] = cache[k] /\ (k \in cacheMark' <=> k \in cacheMark)
  BY <1>1, <1>8 DEF TypeOK
<1>13. \A u \in Threads \ {t} : cfg'[u] = cfg[u] /\ (Busy(u)' <=> Busy(u)) /\ (Busy(u) => cfg[u].id # i)
  BY <1>1, <1>3 DEF Others, Busy, OneEach, i
<1>14. BoundOK'
  BY <1>1, <1>3, <1>13 DEF BoundOK
<1>15. LockOK'
  BY <1>1, <1>3, <1>4, <1>13 DEF LockOK, Busy
<1>16. WorkOK'
  <2> SUFFICES ASSUME NEW u \in Threads, Busy(u)'
               PROVE  /\ cfg'[u].op = lastOp[cfg'[u].id] /\ cfg'[u].val = redis'[cfg'[u].id]
                      /\ IF cfg'[u].pc = "cleanup"
                         THEN reply'[cfg'[u].id] = "success" /\ cfg'[u].op = "delete"
                              /\ cfg'[u].id \in redisMark'
                         ELSE reply'[cfg'[u].id] = "inprogress"
    BY <1>4 DEF WorkOK
  <2>1. Busy(u) /\ cfg'[u] = cfg[u] /\ cfg[u].id # i /\ cfg[u].id \in Ids
    BY <1>1, <1>3, <1>13, BusyThread
  <2> QED
    BY <1>1, <1>5, <1>12, <2>1 DEF WorkOK
<1>17. OneEach'
  BY <1>1, <1>3, <1>13 DEF OneEach
<1>18. \A k \in Ids \ {i} : Quiet(k)' => Quiet(k)
  BY <1>1, <1>3, <1>13 DEF Quiet, Busy, i
<1>19. \A k \in Ids \ {i} : Quiet(k) => Quiet(k)'
  BY <1>1, <1>3, <1>13 DEF Quiet, Busy
<1>20. redis'[i] = (IF cfg[t].op = "delete" THEN NoVal ELSE redis[i]) /\ i \notin redisMark'
  BY <1>1, <1>2, <1>8, <1>11 DEF TypeOK, i
<1>21. cfg[t].op # "delete" => cache'[i] = redis[i] /\ i \notin cacheMark'
  BY <1>1, <1>2, <1>6, <1>8, <1>11 DEF TypeOK, i
<1>22. want[i] = redis'[i]
  <2>1. want[i] = InRedis(i)
    BY <1>1, <1>2 DEF RedisOK, i
  <2> QED
    BY <1>11, <1>20, <2>1 DEF InRedis
<1>23. RedisOK'
  <2> SUFFICES ASSUME NEW k \in Ids
               PROVE  /\ want[k] = InRedis(k)'
                      /\ k \in redisMark' => /\ redis'[k] # NoVal /\ lastOp[k] = "delete"
                                             /\ reply'[k] \in {"pending", "inprogress", "success"}
                      /\ lastOp[k] = "delete" => want[k] = NoVal
                      /\ reply'[k] \in {"pending", "inprogress"} => lastOp[k] # "none" /\ redis'[k] # NoVal
                      /\ reply'[k] \in {"pending", "inprogress"} /\ lastOp[k] = "delete" => k \in redisMark'
    BY <1>4 DEF RedisOK
  <2>1. CASE k = i
    BY <1>1, <1>5, <1>20, <1>22, <2>1 DEF InRedis, RedisOK, i
  <2>2. CASE k # i
    BY <1>1, <1>5, <1>12, <2>2 DEF RedisOK, InRedis
  <2> QED
    BY <2>1, <2>2
<1>24. MarkOK'
  <2> SUFFICES ASSUME NEW k \in cacheMark'
               PROVE  k \in redisMark' /\ Quiet(k)' /\ (reply'[k] = "success" \/ k \in orphans)
    BY <1>4 DEF MarkOK, boundVars
  <2>1. k \in Ids \ {i}
    BY <1>8, <1>9, <1>11
  <2> QED
    BY <1>5, <1>12, <1>19, <2>1 DEF AgentInv, MarkOK
<1>25. RestartRebuilds'
  <2> SUFFICES ASSUME NEW k \in Ids, reply'[k] \in {"success", "fail"}, Quiet(k)',
                      ~(reply'[k] = "fail" /\ lastOp[k] = "delete")
               PROVE  InRedis(k)' = want[k] /\ InCache(k)' = InRedis(k)'
    BY <1>4 DEF RestartRebuilds
  <2>1. CASE k = i
    <3>1. cfg[t].op # "delete"
      BY <1>5, <1>6, <2>1 DEF i
    <3> QED
      BY <1>20, <1>21, <1>22, <2>1, <3>1 DEF InRedis, InCache
  <2>2. CASE k # i
    BY <1>5, <1>12, <1>18, <2>2 DEF AgentInv, RestartRebuilds, InRedis, InCache
  <2> QED
    BY <2>1, <2>2
<1> QED
  BY <1>10, <1>14, <1>15, <1>16, <1>17, <1>23, <1>24, <1>25 DEF AgentInv

(***************************************************************************)
(* A successful delete is answered, and its thread keeps the mutex.        *)
(***************************************************************************)
LEMMA AgentInvCompleteDelete ==
    ASSUME AgentInv, NEW t \in Threads, CompleteDelete(t)
    PROVE  AgentInv'
<1> DEFINE i == cfg[t].id
<1>1. /\ TypeOK /\ BoundOK /\ LockOK /\ WorkOK /\ OneEach /\ RedisOK /\ Busy(t)
      /\ cfg[t].pc = "complete" /\ lock = "free" /\ lock' = t /\ cfg[t].op = "delete"
  BY DEF AgentInv, Busy, CompleteDelete
<1>2. i \in Ids
  BY <1>1, BusyThread
<1>3. cfg' \in [Threads -> Working \cup {Idle}] /\ Others(t) /\ SameJob(t) /\ cfg'[t].pc = "cleanup"
  BY CompleteDeleteCfg
<1>4. /\ UNCHANGED <<agentVars, dcoVars, cacheVars, gateVars, syncLeft, cancels, boundVars>>
      /\ errString' = "" /\ reply' = [reply EXCEPT ![i] = "success"]
      /\ info' = [info EXCEPT ![i] = errString]
  BY DEF CompleteDelete, Answer
<1>5. /\ reply' \in [Ids -> {"none", "pending", "inprogress", "success", "fail"}]
      /\ reply'[i] = "success" /\ (\A k \in Ids \ {i} : reply'[k] = reply[k])
  BY <1>1, <1>2, <1>4 DEF TypeOK
<1>6. info' \in [Ids -> {"", "notReady", "send"}]
  BY <1>1, <1>2, <1>4 DEF TypeOK
<1>7. TypeOK'
  BY <1>1, <1>3, <1>4, <1>5, <1>6 DEF TypeOK, agentVars, dcoVars, cacheVars, gateVars, boundVars,
     Gate!GateTypeOK
<1>8. lastOp[i] = "delete" /\ reply[i] = "inprogress" /\ i \in redisMark /\ i \notin cacheMark
  BY <1>1, <1>2 DEF AgentInv, WorkOK, RedisOK, MarkOK, Quiet, Busy
<1> HIDE DEF i
<1>9. \A u \in Threads \ {t} : cfg'[u] = cfg[u] /\ (Busy(u)' <=> Busy(u)) /\ (Busy(u) => cfg[u].id # i)
  BY <1>1, <1>3 DEF Others, Busy, OneEach, i
<1>10. BoundOK'
  BY <1>1, <1>3, <1>9 DEF BoundOK
<1>11. LockOK'
  <2>1. "free" \notin Threads
    BY ConfigAssumption
  <2>2. \A u \in Threads : lock # u
    BY <1>1, <2>1
  <2> QED
    BY <1>1, <1>3, <1>9, <2>2 DEF LockOK
<1>12. WorkOK'
  <2> SUFFICES ASSUME NEW u \in Threads, Busy(u)'
               PROVE  /\ cfg'[u].op = lastOp[cfg'[u].id] /\ cfg'[u].val = redis[cfg'[u].id]
                      /\ IF cfg'[u].pc = "cleanup"
                         THEN reply'[cfg'[u].id] = "success" /\ cfg'[u].op = "delete"
                              /\ cfg'[u].id \in redisMark
                         ELSE reply'[cfg'[u].id] = "inprogress"
    BY <1>4 DEF WorkOK, agentVars
  <2>1. CASE u = t
    BY <1>1, <1>3, <1>5, <1>8, <2>1 DEF SameJob, WorkOK, i
  <2>2. CASE u # t
    <3>1. Busy(u) /\ cfg'[u] = cfg[u] /\ cfg[u].id # i /\ cfg[u].id \in Ids
      BY <1>1, <1>9, <2>2, BusyThread
    <3> QED
      BY <1>1, <1>5, <3>1 DEF WorkOK
  <2> QED
    BY <2>1, <2>2
<1>13. OneEach'
  BY <1>1, <1>3, <1>9 DEF OneEach, SameJob
<1>14. \A k \in Ids : Quiet(k)' <=> Quiet(k)
  BY <1>1, <1>3, <1>9 DEF Quiet, Busy, SameJob
<1>15. ~Quiet(i)
  BY <1>1 DEF Quiet, Busy, i
<1>16. RedisOK'
  BY <1>1, <1>4, <1>5, <1>8 DEF RedisOK, InRedis, agentVars
<1>17. MarkOK'
  BY <1>1, <1>4, <1>5, <1>8, <1>14 DEF AgentInv, MarkOK, TypeOK, agentVars, cacheVars, boundVars
<1>18. RestartRebuilds'
  <2> SUFFICES ASSUME NEW k \in Ids, reply'[k] \in {"success", "fail"}, Quiet(k)',
                      ~(reply'[k] = "fail" /\ lastOp[k] = "delete")
               PROVE  InRedis(k) = want[k] /\ InCache(k) = InRedis(k)
    BY <1>4 DEF RestartRebuilds, InRedis, InCache, agentVars, cacheVars
  <2>1. k # i /\ Quiet(k)
    BY <1>14, <1>15
  <2> QED
    BY <1>5, <2>1 DEF AgentInv, RestartRebuilds
<1> QED
  BY <1>7, <1>10, <1>11, <1>12, <1>13, <1>16, <1>17, <1>18 DEF AgentInv

(***************************************************************************)
(* The rest of the delete takes the object out of Redis and the cache.     *)
(***************************************************************************)
LEMMA AgentInvCleanup ==
    ASSUME AgentInv, NEW t \in Threads, Cleanup(t)
    PROVE  AgentInv'
<1> DEFINE i == cfg[t].id
<1>1. /\ TypeOK /\ BoundOK /\ LockOK /\ WorkOK /\ OneEach /\ RedisOK /\ Busy(t) /\ Finish(t)
      /\ cfg[t].pc = "cleanup" /\ lock' = "free"
  BY DEF AgentInv, Busy, Cleanup
<1>2. i \in Ids
  BY <1>1, BusyThread
<1>3. cfg' \in [Threads -> Working \cup {Idle}] /\ Others(t) /\ ~Busy(t)'
  BY <1>1, FinishCfg
<1>4. /\ UNCHANGED <<want, lastOp, replyVars, dcoVars, gateVars, syncLeft, cancels, errString, boundVars>>
      /\ redis' = [redis EXCEPT ![i] = NoVal] /\ redisMark' = redisMark \ {i}
      /\ cache' = [cache EXCEPT ![i] = NoVal] /\ cacheMark' = cacheMark \ {i}
  BY DEF Cleanup, RedisDelete
<1>5. /\ redis' \in [Ids -> Vals \cup {NoVal}] /\ cache' \in [Ids -> Vals \cup {NoVal}]
      /\ redisMark' \subseteq Ids /\ cacheMark' \subseteq Ids
      /\ redis'[i] = NoVal /\ cache'[i] = NoVal /\ i \notin redisMark' /\ i \notin cacheMark'
      /\ \A k \in Ids \ {i} :
            /\ redis'[k] = redis[k] /\ (k \in redisMark' <=> k \in redisMark)
            /\ cache'[k] = cache[k] /\ (k \in cacheMark' <=> k \in cacheMark)
  BY <1>1, <1>2, <1>4 DEF TypeOK
<1>6. TypeOK'
  BY <1>1, <1>3, <1>4, <1>5 DEF TypeOK, replyVars, dcoVars, gateVars, boundVars, Gate!GateTypeOK
<1>7. lastOp[i] = "delete" /\ reply[i] = "success" /\ want[i] = NoVal
  BY <1>1, <1>2 DEF WorkOK, RedisOK
<1> HIDE DEF i
<1>8. \A u \in Threads \ {t} : cfg'[u] = cfg[u] /\ (Busy(u)' <=> Busy(u)) /\ (Busy(u) => cfg[u].id # i)
  BY <1>1, <1>3 DEF Others, Busy, OneEach, i
<1>9. BoundOK'
  BY <1>1, <1>3, <1>8 DEF BoundOK
<1>10. LockOK'
  <2>1. "free" \notin Threads
    BY ConfigAssumption
  <2>2. lock = t
    BY <1>1 DEF LockOK
  <2> QED
    BY <1>1, <1>3, <1>8, <2>1, <2>2 DEF LockOK, Busy
<1>11. WorkOK'
  <2> SUFFICES ASSUME NEW u \in Threads, Busy(u)'
               PROVE  /\ cfg'[u].op = lastOp[cfg'[u].id] /\ cfg'[u].val = redis'[cfg'[u].id]
                      /\ IF cfg'[u].pc = "cleanup"
                         THEN reply[cfg'[u].id] = "success" /\ cfg'[u].op = "delete"
                              /\ cfg'[u].id \in redisMark'
                         ELSE reply[cfg'[u].id] = "inprogress"
    BY <1>4 DEF WorkOK, replyVars
  <2>1. Busy(u) /\ cfg'[u] = cfg[u] /\ cfg[u].id # i /\ cfg[u].id \in Ids
    BY <1>1, <1>3, <1>8, BusyThread
  <2> QED
    BY <1>1, <1>5, <2>1 DEF WorkOK
<1>12. OneEach'
  BY <1>1, <1>3, <1>8 DEF OneEach
<1>13. \A k \in Ids \ {i} : Quiet(k)' <=> Quiet(k)
  BY <1>1, <1>3, <1>8 DEF Quiet, Busy, i
<1>14. RedisOK'
  <2> SUFFICES ASSUME NEW k \in Ids
               PROVE  /\ want[k] = InRedis(k)'
                      /\ k \in redisMark' => /\ redis'[k] # NoVal /\ lastOp[k] = "delete"
                                             /\ reply[k] \in {"pending", "inprogress", "success"}
                      /\ lastOp[k] = "delete" => want[k] = NoVal
                      /\ reply[k] \in {"pending", "inprogress"} => lastOp[k] # "none" /\ redis'[k] # NoVal
                      /\ reply[k] \in {"pending", "inprogress"} /\ lastOp[k] = "delete" => k \in redisMark'
    BY <1>4 DEF RedisOK, replyVars
  <2>1. CASE k = i
    BY <1>5, <1>7, <2>1 DEF InRedis
  <2>2. CASE k # i
    BY <1>1, <1>5, <2>2 DEF RedisOK, InRedis
  <2> QED
    BY <2>1, <2>2
<1>15. MarkOK'
  <2> SUFFICES ASSUME NEW k \in cacheMark'
               PROVE  k \in redisMark' /\ Quiet(k)' /\ (reply[k] = "success" \/ k \in orphans)
    BY <1>4 DEF MarkOK, boundVars, replyVars
  <2>1. k \in Ids \ {i}
    BY <1>5
  <2> QED
    BY <1>5, <1>13, <2>1 DEF AgentInv, MarkOK
<1>16. RestartRebuilds'
  <2> SUFFICES ASSUME NEW k \in Ids, reply[k] \in {"success", "fail"}, Quiet(k)',
                      ~(reply[k] = "fail" /\ lastOp[k] = "delete")
               PROVE  InRedis(k)' = want[k] /\ InCache(k)' = InRedis(k)'
    BY <1>4 DEF RestartRebuilds, replyVars
  <2>1. CASE k = i
    BY <1>5, <1>7, <2>1 DEF InRedis, InCache
  <2>2. CASE k # i
    BY <1>5, <1>13, <2>2 DEF AgentInv, RestartRebuilds, InRedis, InCache
  <2> QED
    BY <2>1, <2>2
<1> QED
  BY <1>6, <1>9, <1>10, <1>11, <1>12, <1>14, <1>15, <1>16 DEF AgentInv
-----------------------------------------------------------------------------
\* Part one holds initially.
LEMMA AgentInvInit == Init => AgentInv
<1> SUFFICES ASSUME Init PROVE AgentInv
  OBVIOUS
<1>1. TypeOK
  BY ConfigTypeInit
<1>2. Idle.pc = "idle" /\ \A t \in Threads : cfg[t] = Idle
  BY DEF Init, Idle
<1>3. BoundOK /\ WorkOK /\ OneEach
  BY <1>2 DEF BoundOK, WorkOK, OneEach, Busy
<1>4. LockOK
  BY <1>2, ConfigAssumption DEF LockOK, Init
<1>5. RedisOK /\ MarkOK /\ RestartRebuilds
  BY DEF Init, RedisOK, MarkOK, RestartRebuilds, InRedis
<1> QED
  BY <1>1, <1>3, <1>4, <1>5 DEF AgentInv

\* Every step preserves part one.
LEMMA AgentInvNext ==
    ASSUME AgentInv, ~Recreate, [Next]_vars
    PROVE  AgentInv'
<1>1. ASSUME NEW t \in Threads, ThreadStep(t) PROVE AgentInv'
  BY <1>1, AgentInvDeliver, AgentInvLoop, AgentInvComplete, AgentInvCompleteDelete, AgentInvCleanup
     DEF ThreadStep
<1>2. ASSUME NEW i \in Ids, NEW op \in Ops \ {"none"}, NEW v \in Vals, Request(i, op, v) PROVE AgentInv'
  BY <1>2, AgentInvRequest
<1>3. CASE UNCHANGED vars
  <2>1. TypeOK'
    BY <1>3 DEF vars, agentVars, replyVars, dcoVars, cacheVars, gateVars, boundVars, AgentInv, TypeOK,
       Gate!GateTypeOK
  <2>2. UNCHANGED <<agentVars, reply, cacheVars, lock, cfg, orphans>>
    BY <1>3 DEF vars, replyVars, boundVars
  <2> QED
    BY <2>1, <2>2 DEF AgentInv, BoundOK, LockOK, WorkOK, OneEach, RedisOK, MarkOK, RestartRebuilds,
       Busy, Quiet, InRedis, InCache, agentVars, cacheVars
<1> QED
  BY <1>1, <1>2, <1>3, AgentInvElsewhere, AgentInvSync, AgentInvRestart DEF Next

(***************************************************************************)
(* AgentInvariant.  The inductive invariant of part one holds of every     *)
(* behaviour in which the agent does not create an object again before     *)
(* Redis has let go of it.                                                 *)
(***************************************************************************)
THEOREM AgentInvariant == ~Recreate /\ Spec => []AgentInv
<1> SUFFICES ASSUME ~Recreate PROVE Spec => []AgentInv
  OBVIOUS
<1>1. Init => AgentInv
  BY AgentInvInit
<1>2. AgentInv /\ [Next]_vars => AgentInv'
  BY AgentInvNext
<1> QED
  BY <1>1, <1>2, PTL DEF Spec

(***************************************************************************)
(* ConfigTypeCorrect.  The variables keep their types; in particular the   *)
(* loop of handleConfig stays within cMaxCount rounds and within one send  *)
(* more than cMaxSendCount retries.                                        *)
(***************************************************************************)
THEOREM ConfigTypeCorrect == ~Recreate /\ Spec => []TypeOK
<1>1. AgentInv => TypeOK
  BY DEF AgentInv
<1> QED
  BY <1>1, AgentInvariant, PTL

(***************************************************************************)
(* RestartRebuildsCorrect.  Whatever the threads, the poll thread and the  *)
(* DCO do, an answered object is in the cache as in Redis, so that         *)
(* checkOnResync rebuilds after a restart what was cached before it.       *)
(***************************************************************************)
THEOREM RestartRebuildsCorrect == ~Recreate /\ Spec => []RestartRebuilds
<1>1. AgentInv => RestartRebuilds
  BY DEF AgentInv
<1> QED
  BY <1>1, AgentInvariant, PTL
-----------------------------------------------------------------------------
(***************************************************************************)
(* Part two is inductive, given part one.                                  *)
(***************************************************************************)

(***************************************************************************)
(* A request that was sent is not answered yet, and is what the agent      *)
(* wants of its object.                                                    *)
(***************************************************************************)
LEMMA SentJob ==
    ASSUME AgentInv, NEW t \in Threads, Busy(t), cfg[t].pc # "cleanup"
    PROVE  /\ cfg[t].id \in Ids /\ reply[cfg[t].id] = "inprogress"
           /\ cfg[t].val \in Vals /\ cfg[t].val # NoVal
           /\ want[cfg[t].id] = IF cfg[t].op = "delete" THEN NoVal ELSE cfg[t].val
<1>1. cfg[t].id \in Ids /\ cfg[t].val \in Vals /\ cfg[t].val # NoVal
  BY BusyThread, ConfigAssumption DEF AgentInv
<1>2. /\ cfg[t].op = lastOp[cfg[t].id] /\ cfg[t].val = redis[cfg[t].id]
      /\ reply[cfg[t].id] = "inprogress"
  BY DEF AgentInv, WorkOK
<1>3. /\ want[cfg[t].id] = InRedis(cfg[t].id)
      /\ cfg[t].id \in redisMark <=> cfg[t].op = "delete"
  BY <1>1, <1>2 DEF AgentInv, RedisOK
<1> QED
  BY <1>1, <1>2, <1>3 DEF InRedis

(***************************************************************************)
(* Nothing is going on about an object that was settled and is still       *)
(* wanted: the cache has it as Redis does.                                 *)
(***************************************************************************)
LEMMA SettledCached ==
    ASSUME AgentInv, NEW i \in Ids, Settled(i), lock \notin Threads \/ want[i] # NoVal
    PROVE  InCache(i) = want[i] /\ want[i] = InRedis(i)
<1>1. reply[i] \in {"success", "fail"} /\ ~(reply[i] = "fail" /\ lastOp[i] = "delete")
  BY DEF Settled
<1>2. want[i] = InRedis(i) /\ (lastOp[i] = "delete" => want[i] = NoVal)
  BY DEF AgentInv, RedisOK
<1>3. Quiet(i)
  <2> SUFFICES ASSUME NEW t \in Threads, Busy(t), cfg[t].id = i PROVE FALSE
    BY DEF Quiet, Busy
  <2>1. cfg[t].pc = "cleanup" /\ cfg[t].op = "delete" /\ cfg[t].op = lastOp[i]
    BY <1>1 DEF AgentInv, WorkOK
  <2>2. lock = t
    BY <2>1 DEF AgentInv, LockOK
  <2> QED
    BY <1>2, <2>1, <2>2
<1> QED
  BY <1>1, <1>2, <1>3 DEF AgentInv, RestartRebuilds

(***************************************************************************)
(* What a modify in progress works on is not marked for deletion.          *)
(***************************************************************************)
LEMMA ModifyUnmarked ==
    ASSUME AgentInv, HoldsInv, NEW i \in Ids, Outstanding(i)
    PROVE  i \notin redisMark /\ i \notin cacheMark /\ want[i] = redis[i] /\ cache[i] # NoVal
<1>1. i \notin redisMark
  BY DEF AgentInv, RedisOK, Outstanding
<1>2. i \notin cacheMark
  BY <1>1 DEF AgentInv, MarkOK
<1>3. want[i] = redis[i]
  BY <1>1 DEF AgentInv, RedisOK, InRedis
<1>4. cache[i] # NoVal
  BY <1>2 DEF HoldsInv, ModifyCached, InCache
<1> QED
  BY <1>1, <1>2, <1>3, <1>4

(***************************************************************************)
(* A step that leaves the DCO, the gate and the sync alone, and promises   *)
(* nothing new.                                                            *)
(***************************************************************************)
NoNews(i) ==
    /\ Settled(i)' => Settled(i) /\ want'[i] = want[i]
    /\ reply'[i] = "success" => reply[i] = "success" /\ want'[i] = want[i]
    /\ Outstanding(i)' => /\ Outstanding(i) /\ redis'[i] = redis[i] /\ cache'[i] = cache[i]
                          /\ InCache(i)' = InCache(i)
    /\ reply'[i] = "none" => reply[i] = "none" /\ redis'[i] = redis[i]
    /\ reply'[i] = "fail" /\ lastOp'[i] # "delete" => redis'[i] # NoVal

LEMMA KeptFrame ==
    ASSUME NEW i \in Ids, i \notin unsure' => i \notin unsure, dco'[i] = dco[i], NoNews(i), Kept(i)
    PROVE  Kept(i)'
<1>1. SettledHeld(i)'
  BY DEF Kept, SettledHeld, Holds, NoNews
<1>2. ModifyHeld(i)'
  BY DEF Kept, ModifyHeld, NoNews
<1> QED
  BY <1>1, <1>2 DEF Kept

\* ModifyCached needs no more of a step than that.
LEMMA ModifyCachedFrame ==
    ASSUME HoldsInv, \A i \in Ids : NoNews(i)
    PROVE  ModifyCached'
<1> SUFFICES ASSUME NEW i \in Ids
             PROVE  /\ Outstanding(i)' => InCache(i)' # NoVal
                    /\ reply'[i] = "none" => redis'[i] = NoVal
                    /\ reply'[i] = "fail" /\ lastOp'[i] # "delete" => redis'[i] # NoVal
  BY DEF ModifyCached
<1>1. NoNews(i)
  OBVIOUS
<1> QED
  BY <1>1 DEF NoNews, HoldsInv, ModifyCached

LEMMA DcoFrame ==
    ASSUME AgentInv, HoldsInv, UNCHANGED <<dco, reach, gate, state, syncLeft>>, unsure \subseteq unsure',
           lock' = "poll" => lock = "poll",
           \A i \in Ids : NoNews(i),
           \A t \in Threads : Sent(t)' => /\ Sent(t) /\ cfg'[t].id = cfg[t].id /\ cfg'[t].op = cfg[t].op
                                          /\ want'[cfg[t].id] = want[cfg[t].id]
    PROVE  HoldsInv'
<1>1. GateOK' /\ SyncAlone'
  BY DEF HoldsInv, GateOK, SyncAlone
<1>2. DeletedHeld'
  BY DEF HoldsInv, DeletedHeld, Holds, NoNews
<1>3. \A i \in Ids : Kept(i) => Kept(i)'
  BY KeptFrame
<1>4. SyncedHeld'
  BY <1>3 DEF HoldsInv, SyncedHeld, Holds
<1>5. SyncSoFar'
  BY <1>3 DEF HoldsInv, SyncSoFar
<1>6. ModifyCached'
  BY ModifyCachedFrame
<1> QED
  BY <1>1, <1>2, <1>4, <1>5, <1>6 DEF HoldsInv

(***************************************************************************)
(* Requests.  A modify is asked of an object that is settled, in Redis and *)
(* in the cache.                                                           *)
(***************************************************************************)
LEMMA HoldsInvRequest ==
    ASSUME AgentInv, HoldsInv, NEW i \in Ids, NEW op \in Ops \ {"none"}, NEW v \in Vals,
           Request(i, op, v)
    PROVE  HoldsInv'
<1>1. /\ UNCHANGED <<dco, reach, unsure, gate, state, syncLeft, lock, cfg, cache, cacheMark>>
      /\ reply' = [reply EXCEPT ![i] = "pending"] /\ reply[i] \notin {"pending", "inprogress"}
      /\ lastOp' = [lastOp EXCEPT ![i] = op]
  BY DEF Request, dcoVars, gateVars, cacheVars
<1>2. /\ redis' \in {redis, [redis EXCEPT ![i] = v]}
      /\ \E x \in {v, NoVal} : want' = [want EXCEPT ![i] = x]
  BY DEF Request
<1>3. \A k \in Ids \ {i} : /\ reply'[k] = reply[k] /\ want'[k] = want[k]
                           /\ redis'[k] = redis[k] /\ lastOp'[k] = lastOp[k]
  BY <1>1, <1>2 DEF AgentInv, TypeOK
<1>4. reply'[i] = "pending" /\ lastOp'[i] = op
  BY <1>1 DEF AgentInv, TypeOK
<1>5. \A t \in Threads : Sent(t) => cfg[t].id \in Ids \ {i}
  BY <1>1, SentJob DEF Sent, Busy
<1>6. \A t \in Threads : Sent(t)' <=> Sent(t)
  BY <1>1 DEF Sent
<1>7. \A k \in Ids \ {i} : NoNews(k)
  BY <1>1, <1>3 DEF NoNews, Settled, Outstanding, InCache, HoldsInv, ModifyCached
<1>8. ~Settled(i)'
  BY <1>4 DEF Settled
<1>9. op = "modify" => Settled(i) /\ InCache(i) = redis[i] /\ want[i] = redis[i] /\ redis[i] # NoVal
                       /\ InCache(i) = cache[i]
  <2> SUFFICES ASSUME op = "modify"
               PROVE  Settled(i) /\ InCache(i) = redis[i] /\ want[i] = redis[i] /\ redis[i] # NoVal
                      /\ InCache(i) = cache[i]
    OBVIOUS
  <2>1. redis[i] # NoVal /\ i \notin redisMark
    BY DEF Request
  <2>2. want[i] = redis[i] /\ lastOp[i] # "delete"
    BY <2>1 DEF AgentInv, RedisOK, InRedis
  <2>3. reply[i] # "none"
    BY <2>1 DEF HoldsInv, ModifyCached
  <2>4. reply[i] \in {"success", "fail"}
    BY <1>1, <2>3 DEF AgentInv, TypeOK
  <2>5. Settled(i)
    BY <2>2, <2>4 DEF Settled
  <2>6. InCache(i) = want[i]
    BY <2>1, <2>2, <2>5, SettledCached
  <2>7. InCache(i) = cache[i]
    BY <2>1, <2>2, <2>6 DEF InCache
  <2> QED
    BY <2>1, <2>2, <2>5, <2>6, <2>7
<1>10. Kept(i) => Kept(i)'
  <2> SUFFICES ASSUME Kept(i), Outstanding(i)', i \notin unsure
               PROVE  dco[i] # NoVal /\ dco[i] = cache[i]
    BY <1>1, <1>8 DEF Kept, SettledHeld, ModifyHeld
  <2>1. op = "modify"
    BY <1>4 DEF Outstanding
  <2> QED
    BY <1>9, <2>1 DEF Kept, SettledHeld, Holds
<1>11. \A k \in Ids : Kept(k) => Kept(k)'
  <2>1. \A k \in Ids \ {i} : Kept(k) => Kept(k)'
    BY <1>1, <1>7, KeptFrame
  <2> QED
    BY <1>10, <2>1
<1>12. GateOK' /\ SyncAlone'
  BY <1>1, <1>6 DEF HoldsInv, GateOK, SyncAlone
<1>13. DeletedHeld'
  BY <1>1, <1>3, <1>4, <1>5, <1>6 DEF HoldsInv, DeletedHeld, Holds
<1>14. ModifyCached'
  <2>1. \A k \in Ids \ {i} : /\ Outstanding(k)' => InCache(k)' # NoVal
                             /\ reply'[k] = "none" => redis'[k] = NoVal
                             /\ reply'[k] = "fail" /\ lastOp'[k] # "delete" => redis'[k] # NoVal
    BY <1>7 DEF NoNews, HoldsInv, ModifyCached
  <2>2. Outstanding(i)' => InCache(i)' # NoVal
    BY <1>1, <1>4, <1>9 DEF Outstanding, InCache
  <2> QED
    BY <1>4, <2>1, <2>2 DEF ModifyCached
<1>15. SyncedHeld'
  BY <1>1, <1>3, <1>5, <1>6, <1>11 DEF HoldsInv, SyncedHeld, Holds
<1>16. SyncSoFar'
  BY <1>1, <1>11 DEF HoldsInv, SyncSoFar
<1> QED
  BY <1>12, <1>13, <1>14, <1>15, <1>16 DEF HoldsInv

(***************************************************************************)
(* The steps of the loop before and after the send that answer nothing or  *)
(* a failure.                                                              *)
(***************************************************************************)

\* The steps of the loop other than the send promise nothing.
LEMMA HoldsInvLoop ==
    ASSUME AgentInv, HoldsInv, NEW t \in Threads,
           LoopHead(t) \/ CheckNotReady(t) \/ CheckReady(t)
    PROVE  HoldsInv'
<1>1. /\ UNCHANGED <<dco, reach, unsure, gate, state, syncLeft, reply, want, redis, lastOp, cache, cacheMark>>
      /\ lock' \in {lock, t} /\ cfg[t].pc \in {"try", "lock"}
  BY DEF LoopHead, CheckNotReady, CheckReady, dcoVars, gateVars, replyVars, agentVars, cacheVars
<1>2. Others(t) /\ cfg'[t].status = cfg[t].status /\ (cfg'[t].pc = "complete" => LoopHead(t))
  BY LoopHeadCfg, NotReadyCfg, ReadyCfg
<1>3. cfg[t].status # "ok"
  BY <1>1 DEF AgentInv, BoundOK, Busy
<1>4. \A u \in Threads : Sent(u)' => Sent(u) /\ cfg'[u] = cfg[u]
  BY <1>2, <1>3 DEF Sent, Others
<1>5. lock' = "poll" => lock = "poll"
  BY <1>1, ConfigAssumption
<1>6. \A i \in Ids : NoNews(i)
  BY <1>1 DEF NoNews, Settled, Outstanding, InCache, HoldsInv, ModifyCached
<1> QED
  BY <1>1, <1>4, <1>5, <1>6, DcoFrame

\* Nor does a failure, nor the cleanup of a delete.
LEMMA HoldsInvFinish ==
    ASSUME AgentInv, HoldsInv, NEW t \in Threads, CompleteFail(t) \/ Cleanup(t)
    PROVE  HoldsInv'
<1>A. Busy(t) /\ TypeOK
  BY DEF CompleteFail, Cleanup, Busy, AgentInv
<1>B. PICK i \in Ids : i = cfg[t].id
  BY <1>A, BusyThread
<1>1. /\ UNCHANGED <<dco, reach, gate, state, syncLeft, want, lastOp>>
      /\ Finish(t) /\ lock' \in {lock, "free"} /\ Busy(t)
      /\ unsure' \in {unsure, unsure \cup {i}}
  BY <1>B DEF CompleteFail, Cleanup, dcoVars, gateVars, Busy
<1>2. TypeOK /\ i \in Ids /\ cfg[t].val \in Vals /\ cfg[t].val # NoVal
  BY <1>A, BusyThread, ConfigAssumption
<1>3. cfg[t].op = lastOp[i] /\ cfg[t].val = redis[i] /\ (cfg[t].pc = "cleanup" => reply[i] = "success")
  BY <1>A, <1>B DEF AgentInv, WorkOK
<1>4. /\ \A k \in Ids \ {i} : /\ reply'[k] = reply[k] /\ redis'[k] = redis[k] /\ cache'[k] = cache[k]
                              /\ k \in cacheMark' <=> k \in cacheMark
      /\ \/ reply'[i] = "fail" /\ i \in unsure' /\ (redis'[i] = redis[i] \/ cfg[t].op = "delete")
         \/ reply'[i] = "success" /\ reply[i] = "success"
  <2>1. CASE CompleteFail(t)
    <3>1. /\ reply' = [reply EXCEPT ![i] = "fail"] /\ unsure' = unsure \cup {i}
          /\ \/ cfg[t].op = "delete" /\ redis' = [redis EXCEPT ![i] = NoVal] /\ UNCHANGED <<cache, cacheMark>>
             \/ /\ UNCHANGED redis /\ cache' = [cache EXCEPT ![i] = cfg[t].val]
                /\ cacheMark' \in {cacheMark, cacheMark \ {i}}
      BY <1>B, <2>1 DEF CompleteFail, Answer, RedisDelete, CacheConfig, cacheVars
    <3> QED
      BY <1>2, <3>1 DEF TypeOK
  <2>2. CASE Cleanup(t)
    <3>1. /\ UNCHANGED reply /\ cfg[t].pc = "cleanup"
          /\ redis' = [redis EXCEPT ![i] = NoVal] /\ cache' = [cache EXCEPT ![i] = NoVal]
          /\ cacheMark' = cacheMark \ {i}
      BY <1>B, <2>2 DEF Cleanup, RedisDelete, replyVars
    <3> QED
      BY <1>2, <1>3, <3>1 DEF TypeOK
  <2> QED
    BY <2>1, <2>2
<1>5. Others(t) /\ ~Busy(t)'
  BY <1>1, <1>2, FinishCfg
<1>6. \A u \in Threads : Sent(u)' => Sent(u) /\ cfg'[u] = cfg[u]
  BY <1>5 DEF Sent, Others, Busy
<1>7. \A k \in Ids \ {i} : NoNews(k)
  BY <1>1, <1>4 DEF NoNews, Settled, Outstanding, InCache, HoldsInv, ModifyCached
<1>8. CASE reply'[i] = "success" /\ reply[i] = "success"
  <2>1. NoNews(i)
    BY <1>1, <1>8 DEF NoNews, Settled, Outstanding
  <2>2. \A k \in Ids : NoNews(k)
    BY <1>7, <2>1
  <2>3. unsure \subseteq unsure' /\ (lock' = "poll" => lock = "poll")
    BY <1>1
  <2> QED
    BY <1>1, <1>6, <2>2, <2>3, DcoFrame
<1>9. CASE reply'[i] = "fail" /\ i \in unsure' /\ (redis'[i] = redis[i] \/ cfg[t].op = "delete")
  <2>1. \A k \in Ids : Kept(k) => Kept(k)'
    <3>1. \A k \in Ids \ {i} : Kept(k) => Kept(k)'
      BY <1>1, <1>7, KeptFrame
    <3>2. Kept(i)'
      BY <1>9 DEF Kept, SettledHeld, ModifyHeld
    <3> QED
      BY <3>1, <3>2
  <2>2. GateOK' /\ SyncAlone'
    BY <1>1, <1>6 DEF HoldsInv, GateOK, SyncAlone
  <2>3. DeletedHeld'
    <3>1. \A k \in Ids \ {i} : reply'[k] = reply[k]
      BY <1>4
    <3>2. \A k \in Ids : reply'[k] = "success" => reply[k] = "success"
      BY <1>9, <3>1
    <3> QED
      BY <1>1, <1>6, <3>2 DEF HoldsInv, DeletedHeld, Holds
  <2>4. ModifyCached'
    <3>1. \A k \in Ids \ {i} : /\ Outstanding(k)' => InCache(k)' # NoVal
                               /\ reply'[k] = "none" => redis'[k] = NoVal
                               /\ reply'[k] = "fail" /\ lastOp'[k] # "delete" => redis'[k] # NoVal
      BY <1>7 DEF NoNews, HoldsInv, ModifyCached
    <3>2. ~Outstanding(i)'
      BY <1>9 DEF Outstanding
    <3>3. lastOp'[i] # "delete" => redis'[i] # NoVal
      BY <1>1, <1>2, <1>3, <1>9
    <3> QED
      BY <1>9, <3>1, <3>2, <3>3 DEF ModifyCached
  <2>5. SyncedHeld'
    BY <1>1, <1>6, <2>1 DEF HoldsInv, SyncedHeld, Holds
  <2>6. SyncSoFar'
    BY <1>1, <2>1 DEF HoldsInv, SyncSoFar
  <2> QED
    BY <2>2, <2>3, <2>4, <2>5, <2>6 DEF HoldsInv
<1> QED
  BY <1>4, <1>8, <1>9

\* Nor does the delivery of a request.
LEMMA HoldsInvDeliver ==
    ASSUME AgentInv, HoldsInv, NEW t \in Threads, NEW i \in Ids, Deliver(t, i)
    PROVE  HoldsInv'
<1>1. /\ UNCHANGED <<dco, reach, unsure, gate, state, syncLeft, want, redis, lastOp, cache, cacheMark, lock>>
      /\ reply' = [reply EXCEPT ![i] = "inprogress"] /\ reply[i] = "pending"
  BY DEF Deliver, dcoVars, gateVars, agentVars, cacheVars
<1>2. /\ \A k \in Ids \ {i} : reply'[k] = reply[k]
      /\ reply'[i] = "inprogress"
  BY <1>1 DEF AgentInv, TypeOK
<1>3. Others(t) /\ cfg'[t].pc = "try"
  BY DeliverCfg
<1>4. \A u \in Threads : Sent(u)' => Sent(u) /\ cfg'[u] = cfg[u]
  BY <1>3 DEF Sent, Others
<1>5. \A k \in Ids : NoNews(k)
  BY <1>1, <1>2 DEF NoNews, Settled, Outstanding, InCache, HoldsInv, ModifyCached
<1> QED
  BY <1>1, <1>4, <1>5, DcoFrame

(***************************************************************************)
(* What a send leaves of its own object: what the agent wants, if the DCO  *)
(* took it and had, for a modify, what the modify takes for granted; and,  *)
(* whether it took it or not, still what a modify takes for granted.       *)
(***************************************************************************)
LEMMA SendApplies ==
    ASSUME AgentInv, HoldsInv, NEW t \in Threads, Busy(t), cfg[t].pc # "cleanup",
           NEW i \in Ids, i = cfg[t].id,
           NEW r \in {"ok", "connect", "data"}, ProcessConfig(cfg[t], r)
    PROVE  /\ \A k \in Ids \ {i} : dco'[k] = dco[k] /\ (k \in unsure' <=> k \in unsure)
           /\ i \notin unsure' /\ cfg[t].op = "modify" => i \notin unsure
           /\ r = "ok" /\ cfg[t].op # "modify" => dco'[i] = want[i]
           /\ ModifyHeld(i) /\ Outstanding(i) /\ i \notin unsure =>
                  /\ dco'[i] # NoVal /\ (redis[i] = cache[i] => dco'[i] = cache[i])
                  /\ r = "ok" => dco'[i] = want[i]
           /\ Outstanding(i) <=> cfg[t].op = "modify"
<1>1. /\ reply[i] = "inprogress" /\ cfg[t].val \in Vals /\ cfg[t].val # NoVal
      /\ want[i] = IF cfg[t].op = "delete" THEN NoVal ELSE cfg[t].val
  BY SentJob
<1>2. /\ cfg[t].op = lastOp[i] /\ cfg[t].val = redis[i]
      /\ cfg[t].op \in {"create", "modify", "delete"}
  BY BusyThread DEF AgentInv, WorkOK
<1>3. Outstanding(i) <=> cfg[t].op = "modify"
  BY <1>1, <1>2 DEF Outstanding
<1>4. dco \in [Ids -> Vals \cup {NoVal}]
  BY DEF AgentInv, TypeOK
<1>5. unsure' = IF r = "ok" /\ cfg[t].op # "modify" THEN unsure \ {i} ELSE unsure
  BY DEF ProcessConfig
<1>6. dco' = dco \/ \E v \in Vals \cup {NoVal} : dco' = [dco EXCEPT ![i] = v]
  BY <1>1, <1>2, <1>4 DEF ProcessConfig, Applied, Halfway
<1>7. \A k \in Ids \ {i} : dco'[k] = dco[k] /\ (k \in unsure' <=> k \in unsure)
  BY <1>4, <1>5, <1>6
<1>8. r = "ok" /\ cfg[t].op # "modify" => dco'[i] = want[i]
  <2> SUFFICES ASSUME r = "ok", cfg[t].op # "modify" PROVE dco'[i] = want[i]
    OBVIOUS
  <2>1. \E v \in Applied(cfg[t]) : dco' = [dco EXCEPT ![i] = v]
    BY DEF ProcessConfig, NothingSent
  <2>2. Applied(cfg[t]) = {want[i]}
    BY <1>1, <1>2 DEF Applied
  <2> QED
    BY <1>4, <2>1, <2>2
<1>9. ASSUME ModifyHeld(i), Outstanding(i), i \notin unsure
      PROVE  /\ dco'[i] # NoVal /\ (redis[i] = cache[i] => dco'[i] = cache[i])
             /\ r = "ok" => dco'[i] = want[i]
  <2>1. dco[i] # NoVal /\ (redis[i] = cache[i] => dco[i] = cache[i]) /\ dco[i] \in Vals
    BY <1>4, <1>9 DEF ModifyHeld
  <2>2. cfg[t].op = "modify" /\ Applied(cfg[t]) = {redis[i]} /\ want[i] = redis[i] /\ redis[i] # NoVal
    BY <1>1, <1>2, <1>3, <1>9, <2>1 DEF Applied
  <2>3. NothingSent(cfg[t]) <=> redis[i] = cache[i]
    BY <1>2, <2>2 DEF NothingSent
  <2>4. Halfway(cfg[t]) = IF redis[i] = cache[i] THEN {redis[i]} ELSE Vals \cup {dco[i]}
    BY <1>9, <2>2, <2>3 DEF Halfway
  <2>5. \/ r = "ok" /\ dco' = [dco EXCEPT ![i] = redis[i]]
        \/ r # "ok" /\ \E v \in Halfway(cfg[t]) : dco' = [dco EXCEPT ![i] = v]
        \/ dco' = dco /\ (r = "ok" => redis[i] = cache[i])
    BY <2>2, <2>3 DEF ProcessConfig
  <2>6. CASE r = "ok" /\ dco' = [dco EXCEPT ![i] = redis[i]]
    BY <1>4, <2>2, <2>6
  <2>7. CASE dco' = dco /\ (r = "ok" => redis[i] = cache[i])
    BY <2>1, <2>2, <2>7
  <2>8. CASE r # "ok" /\ \E v \in Halfway(cfg[t]) : dco' = [dco EXCEPT ![i] = v]
    <3>1. PICK v \in Halfway(cfg[t]) : dco' = [dco EXCEPT ![i] = v]
      BY <2>8
    <3>2. v # NoVal /\ (redis[i] = cache[i] => v = redis[i])
      BY <2>1, <2>2, <2>4, ConfigAssumption
    <3>3. dco'[i] = v
      BY <1>4, <3>1
    <3> QED
      BY <2>8, <3>2, <3>3
  <2> QED
    BY <2>5, <2>6, <2>7, <2>8
<1> QED
  BY <1>3, <1>5, <1>7, <1>8, <1>9

(***************************************************************************)
(* The send: it may change its own object in the DCO, and no other.        *)
(***************************************************************************)
LEMMA HoldsInvSend ==
    ASSUME AgentInv, HoldsInv, NEW t \in Threads, Send(t)
    PROVE  HoldsInv'
<1>1. /\ UNCHANGED <<reach, gate, state, syncLeft, reply, want, redis, lastOp, cache, cacheMark>>
      /\ lock' = "free" /\ cfg[t].pc = "send" /\ Busy(t)
  BY DEF Send, replyVars, gateVars, agentVars, cacheVars, Busy
<1>2. Others(t) /\ SameJob(t)
  BY SendCfg
<1>3. PICK r \in {"ok", "connect", "data"} : ProcessConfig(cfg[t], r) /\ cfg'[t].status = r
  BY SendCfg
<1>4. PICK i \in Ids : i = cfg[t].id
  BY <1>1, SentJob
<1>5. reply[i] = "inprogress" /\ want[i] = IF cfg[t].op = "delete" THEN NoVal ELSE cfg[t].val
  BY <1>1, <1>4, SentJob
<1>6. /\ \A k \in Ids \ {i} : dco'[k] = dco[k] /\ (k \in unsure' <=> k \in unsure)
      /\ i \notin unsure' /\ cfg[t].op = "modify" => i \notin unsure
      /\ r = "ok" /\ cfg[t].op # "modify" => dco'[i] = want[i]
      /\ ModifyHeld(i) /\ Outstanding(i) /\ i \notin unsure =>
             /\ dco'[i] # NoVal /\ (redis[i] = cache[i] => dco'[i] = cache[i])
             /\ r = "ok" => dco'[i] = want[i]
      /\ Outstanding(i) <=> cfg[t].op = "modify"
  BY <1>1, <1>3, <1>4, SendApplies
<1>7. \A k \in Ids : NoNews(k)
  BY <1>1 DEF NoNews, Settled, Outstanding, InCache, HoldsInv, ModifyCached
<1>8. \A k \in Ids \ {i} : Kept(k) => Kept(k)'
  BY <1>6, <1>7, KeptFrame
<1>9. Kept(i) => Kept(i)'
  <2>1. ~Settled(i)'
    BY <1>1, <1>5 DEF Settled
  <2>2. ModifyHeld(i) => ModifyHeld(i)'
    BY <1>1, <1>6 DEF ModifyHeld, Outstanding
  <2> QED
    BY <2>1, <2>2 DEF Kept, SettledHeld
<1>10. Sent(t)' => cfg'[t].id = i /\ r = "ok" /\ cfg'[t].op = cfg[t].op
  BY <1>2, <1>3, <1>4 DEF Sent, SameJob
<1>11. \A u \in Threads \ {t} : Sent(u)' => /\ Sent(u) /\ cfg'[u] = cfg[u]
                                            /\ cfg[u].id \in Ids \ {i}
  <2> SUFFICES ASSUME NEW u \in Threads \ {t}, Sent(u)'
               PROVE  Sent(u) /\ cfg'[u] = cfg[u] /\ cfg[u].id \in Ids \ {i}
    OBVIOUS
  <2>1. Sent(u) /\ cfg'[u] = cfg[u]
    BY <1>2 DEF Sent, Others
  <2>2. Busy(u) /\ Busy(t) /\ cfg[u].pc # "cleanup"
    BY <1>1, <2>1 DEF Sent, Busy
  <2>3. cfg[u].id \in Ids
    BY <2>2, SentJob
  <2>4. cfg[u].id # i
    BY <1>4, <2>2 DEF AgentInv, OneEach
  <2> QED
    BY <2>1, <2>3, <2>4
<1>12. GateOK' /\ SyncAlone' /\ SyncSoFar'
  BY <1>1 DEF HoldsInv, GateOK, SyncAlone, SyncSoFar
<1>13. DeletedHeld'
  <2>1. \A k \in Ids : reply'[k] = "success" /\ want'[k] = NoVal => dco'[k] = want'[k]
    BY <1>1, <1>5, <1>6 DEF HoldsInv, DeletedHeld, Holds
  <2>2. \A u \in Threads \ {t} : Sent(u)' /\ cfg'[u].op = "delete" => dco'[cfg'[u].id] = want'[cfg'[u].id]
    BY <1>1, <1>6, <1>11 DEF HoldsInv, DeletedHeld, Holds
  <2>3. Sent(t)' /\ cfg'[t].op = "delete" => dco'[cfg'[t].id] = want'[cfg'[t].id]
    BY <1>1, <1>6, <1>10
  <2> QED
    BY <2>1, <2>2, <2>3 DEF DeletedHeld, Holds
<1>14. SyncedHeld'
  <2> SUFFICES ASSUME reach, state[Me] = "synced"
               PROVE  /\ \A k \in Ids : Kept(k)'
                      /\ \A u \in Threads : Sent(u)' /\ cfg'[u].id \notin unsure' =>
                                              dco'[cfg'[u].id] = want'[cfg'[u].id]
    BY <1>1 DEF SyncedHeld, Holds
  <2>1. /\ \A k \in Ids : Kept(k)
        /\ \A u \in Threads : Sent(u) /\ cfg[u].id \notin unsure => Holds(cfg[u].id)
    BY DEF HoldsInv, SyncedHeld
  <2>2. \A k \in Ids : Kept(k)'
    <3>1. Kept(i)'
      BY <1>9, <2>1
    <3>2. \A k \in Ids \ {i} : Kept(k)'
      BY <1>8, <2>1
    <3> QED
      BY <3>1, <3>2
  <2>3. \A u \in Threads \ {t} : Sent(u)' /\ cfg'[u].id \notin unsure' => dco'[cfg'[u].id] = want'[cfg'[u].id]
    BY <1>1, <1>6, <1>11, <2>1 DEF Holds
  <2>4. Sent(t)' /\ i \notin unsure' => dco'[i] = want[i]
    <3> SUFFICES ASSUME Sent(t)', i \notin unsure' PROVE dco'[i] = want[i]
      OBVIOUS
    <3>1. CASE cfg[t].op # "modify"
      BY <1>6, <1>10, <3>1
    <3>2. CASE cfg[t].op = "modify"
      BY <1>6, <1>10, <2>1, <3>2 DEF Kept
    <3> QED
      BY <3>1, <3>2
  <2>5. Sent(t)' /\ cfg'[t].id \notin unsure' => dco'[cfg'[t].id] = want'[cfg'[t].id]
    BY <1>1, <1>10, <2>4
  <2> QED
    BY <2>2, <2>3, <2>5
<1>15. ModifyCached'
  BY <1>7, ModifyCachedFrame
<1> QED
  BY <1>12, <1>13, <1>14, <1>15 DEF HoldsInv

(***************************************************************************)
(* The answer of a request that succeeded: what its thread saw to is now   *)
(* what the answer promises.                                               *)
(***************************************************************************)
LEMMA HoldsInvSuccess ==
    ASSUME AgentInv, HoldsInv, NEW t \in Threads, CompleteConfig(t) \/ CompleteDelete(t)
    PROVE  HoldsInv'
<1>1. Busy(t) /\ TypeOK /\ Sent(t) /\ cfg[t].pc # "cleanup"
  BY DEF CompleteConfig, CompleteDelete, Busy, AgentInv, Sent
<1>2. PICK i \in Ids : i = cfg[t].id
  BY <1>1, BusyThread
<1>3. /\ UNCHANGED <<dco, reach, unsure, gate, state, syncLeft, want, redis, lastOp>>
      /\ lock = "free" /\ lock' \in {"free", t}
      /\ reply' = [reply EXCEPT ![i] = "success"]
      /\ \/ UNCHANGED <<cache, cacheMark>>
         \/ cache' = [cache EXCEPT ![i] = cfg[t].val] /\ cacheMark' \in {cacheMark, cacheMark \ {i}}
  BY <1>2 DEF CompleteConfig, CompleteDelete, Answer, CacheConfig, agentVars, dcoVars, gateVars, cacheVars
<1>4. /\ reply'[i] = "success"
      /\ \A k \in Ids \ {i} : /\ reply'[k] = reply[k] /\ cache'[k] = cache[k]
                              /\ k \in cacheMark' <=> k \in cacheMark
  BY <1>1, <1>3 DEF TypeOK
<1>5. Others(t) /\ ~Sent(t)'
  <2>1. CASE CompleteConfig(t)
    <3>1. Finish(t)
      BY <2>1 DEF CompleteConfig
    <3> QED
      BY <1>1, <3>1, FinishCfg DEF Sent, Busy
  <2>2. CASE CompleteDelete(t)
    BY <2>2, CompleteDeleteCfg DEF Sent
  <2> QED
    BY <2>1, <2>2
<1>6. \A u \in Threads : Sent(u)' => Sent(u) /\ cfg'[u] = cfg[u]
  BY <1>5 DEF Sent, Others
<1>7. lock' # "poll"
  BY <1>3, ConfigAssumption
<1>8. want[i] = NoVal => cfg[t].op = "delete"
  BY <1>1, <1>2, SentJob
<1>9. \A k \in Ids \ {i} : NoNews(k)
  BY <1>3, <1>4 DEF NoNews, Settled, Outstanding, InCache, HoldsInv, ModifyCached
<1>10. GateOK' /\ SyncAlone' /\ SyncSoFar'
  BY <1>3, <1>7 DEF HoldsInv, GateOK, SyncAlone, SyncSoFar
<1>11. DeletedHeld'
  <2>1. \A k \in Ids \ {i} : reply'[k] = "success" /\ want'[k] = NoVal => dco'[k] = want'[k]
    BY <1>3, <1>4 DEF HoldsInv, DeletedHeld, Holds
  <2>2. want'[i] = NoVal => dco'[i] = want'[i]
    BY <1>1, <1>2, <1>3, <1>8 DEF HoldsInv, DeletedHeld, Holds
  <2>3. \A u \in Threads : Sent(u)' /\ cfg'[u].op = "delete" => dco'[cfg'[u].id] = want'[cfg'[u].id]
    BY <1>3, <1>6 DEF HoldsInv, DeletedHeld, Holds
  <2> QED
    BY <2>1, <2>2, <2>3 DEF DeletedHeld, Holds
<1>12. SyncedHeld'
  <2> SUFFICES ASSUME reach, state[Me] = "synced" PROVE SyncedHeld'
    BY <1>3 DEF SyncedHeld
  <2>1. /\ \A k \in Ids : Kept(k)
        /\ \A u \in Threads : Sent(u) /\ cfg[u].id \notin unsure => Holds(cfg[u].id)
    BY DEF HoldsInv, SyncedHeld
  <2>2. \A k \in Ids \ {i} : Kept(k)'
    BY <1>3, <1>9, <2>1, KeptFrame
  <2>3. Kept(i)'
    <3>1. i \notin unsure => dco[i] = want[i]
      BY <1>1, <1>2, <2>1 DEF Holds
    <3>2. ~Outstanding(i)'
      BY <1>4 DEF Outstanding
    <3> QED
      BY <1>3, <3>1, <3>2 DEF Kept, SettledHeld, ModifyHeld, Holds
  <2>4. \A u \in Threads : Sent(u)' /\ cfg'[u].id \notin unsure' => dco'[cfg'[u].id] = want'[cfg'[u].id]
    BY <1>3, <1>6, <2>1 DEF Holds
  <2> QED
    BY <2>2, <2>3, <2>4 DEF SyncedHeld, Holds
<1>13. ModifyCached'
  <2>1. \A k \in Ids \ {i} : /\ Outstanding(k)' => InCache(k)' # NoVal
                             /\ reply'[k] = "none" => redis'[k] = NoVal
                             /\ reply'[k] = "fail" /\ lastOp'[k] # "delete" => redis'[k] # NoVal
    BY <1>9 DEF NoNews, HoldsInv, ModifyCached
  <2>2. ~Outstanding(i)'
    BY <1>4 DEF Outstanding
  <2> QED
    BY <1>4, <2>1, <2>2 DEF ModifyCached
<1> QED
  BY <1>10, <1>11, <1>12, <1>13 DEF HoldsInv

(***************************************************************************)
(* The DCO goes, empty or not, and comes back once the gate has seen it    *)
(* gone; and the gate moves.                                               *)
(***************************************************************************)
LEMMA HoldsInvOutage ==
    ASSUME AgentInv, HoldsInv, Assured, DcoLost \/ DcoBack \/ GateStep
    PROVE  HoldsInv'
<1>1. UNCHANGED <<unsure, reply, want, redis, lastOp, cache, cacheMark, cfg, lock, syncLeft>>
  BY DEF DcoLost, DcoBack, GateStep, replyVars, agentVars, cacheVars, dcoVars
<1>2. SyncAlone'
  BY <1>1 DEF HoldsInv, SyncAlone, Sent
<1>3. ModifyCached'
  BY <1>1 DEF HoldsInv, ModifyCached, Outstanding, InCache
<1>4. CASE DcoLost
  <2>1. ~reach' /\ UNCHANGED <<gate, state>> /\ dco' \in {dco, [i \in Ids |-> NoVal]}
    BY <1>4 DEF DcoLost, gateVars
  <2>2. \A t \in Threads : Sent(t) /\ cfg[t].op = "delete" => cfg[t].id \in Ids /\ want[cfg[t].id] = NoVal
    BY SentJob DEF Sent, Busy
  <2>3. DeletedHeld'
    BY <1>1, <2>1, <2>2 DEF HoldsInv, DeletedHeld, Holds, Sent
  <2>4. GateOK' /\ SyncedHeld' /\ SyncSoFar'
    BY <1>1, <2>1 DEF HoldsInv, GateOK, SyncedHeld, SyncSoFar
  <2> QED
    BY <1>2, <1>3, <2>3, <2>4 DEF HoldsInv
<1>5. CASE DcoBack
  <2>1. UNCHANGED <<gate, state, dco>> /\ state[Me] = "down"
    BY <1>5 DEF DcoBack, gateVars, Assured
  <2>2. DeletedHeld' /\ GateOK'
    BY <1>1, <2>1 DEF HoldsInv, DeletedHeld, GateOK, Holds, Sent
  <2>3. SyncedHeld' /\ SyncSoFar'
    BY <1>1, <2>1 DEF HoldsInv, GateOK, SyncedHeld, SyncSoFar
  <2> QED
    BY <1>2, <1>3, <2>2, <2>3 DEF HoldsInv
<1>6. CASE GateStep
  <2>1. UNCHANGED <<dco, reach>> /\ lock # "poll"
    BY <1>6 DEF GateStep, dcoVars
  <2>2. state \in [{Me} -> {"down", "up", "synced"}]
    BY DEF AgentInv, TypeOK, Gate!GateTypeOK
  <2>3. (gate' => state'[Me] = "synced") /\ (state'[Me] = "synced" => state[Me] = "synced")
    <3>1. CASE Gate!Close
      BY <2>2, <3>1 DEF Gate!Close
    <3>2. CASE Gate!Open
      BY <3>2 DEF Gate!Open
    <3>3. CASE Gate!Connect(Me) \/ Gate!Drop(Me)
      BY <2>2, <3>3 DEF Gate!Connect, Gate!Drop
    <3> QED
      BY <1>6, <3>1, <3>2, <3>3 DEF GateStep
  <2>4. GateOK' /\ DeletedHeld' /\ SyncSoFar'
    BY <1>1, <2>1, <2>3 DEF HoldsInv, GateOK, DeletedHeld, SyncSoFar, Holds, Sent
  <2>5. \A i \in Ids : Kept(i) => Kept(i)'
    BY <1>1, <2>1 DEF Kept, SettledHeld, ModifyHeld, Settled, Outstanding, Holds
  <2>6. SyncedHeld'
    BY <1>1, <2>1, <2>3, <2>5 DEF HoldsInv, SyncedHeld, Holds, Sent
  <2> QED
    BY <1>2, <1>3, <2>4, <2>6 DEF HoldsInv
<1> QED
  BY <1>4, <1>5, <1>6

(***************************************************************************)
(* A sync restores every object that is settled, and what is being         *)
(* modified: it starts with those it has to send, and a deleted one needs  *)
(* none.                                                                   *)
(***************************************************************************)
LEMMA HoldsInvSync ==
    ASSUME AgentInv, HoldsInv, Assured, SyncStep
    PROVE  HoldsInv'
<1>1. UNCHANGED <<reply, want, redis, lastOp, cfg, reach>>
  BY DEF SyncStep, SyncBegin, SyncObject, SyncEnd, replyVars, agentVars, dcoVars
<1>2. lock \notin Threads
  BY ConfigAssumption DEF SyncStep, SyncBegin, SyncObject, SyncEnd
<1>3. \A i \in Ids : Settled(i) => InCache(i) = want[i]
  BY <1>2, SettledCached
<1>4. state \in [{Me} -> {"down", "up", "synced"}] /\ dco \in [Ids -> Vals \cup {NoVal}]
      /\ cache \in [Ids -> Vals \cup {NoVal}]
  BY DEF AgentInv, TypeOK, Gate!GateTypeOK
<1>5. CASE SyncBegin
  <2>1. /\ UNCHANGED <<dco, unsure, cache, cacheMark, gate, state>> /\ ~gate /\ state[Me] = "up"
        /\ syncLeft' = Cached /\ \A t \in Threads : cfg[t].pc # "complete"
    BY <1>5 DEF SyncBegin, dcoVars, cacheVars, gateVars, Assured
  <2>2. GateOK' /\ SyncAlone' /\ SyncedHeld'
    BY <1>1, <2>1 DEF GateOK, SyncAlone, SyncedHeld, Sent
  <2>3. DeletedHeld'
    BY <1>1, <2>1 DEF HoldsInv, DeletedHeld, Holds, Sent
  <2>4. ModifyCached'
    BY <1>1, <2>1 DEF HoldsInv, ModifyCached, Outstanding, InCache
  <2>5. SyncSoFar'
    <3> SUFFICES ASSUME NEW i \in Ids \ Cached PROVE Kept(i)'
      BY <2>1 DEF SyncSoFar
    <3>1. cache[i] = NoVal /\ InCache(i) = NoVal
      BY DEF InCache, Cached
    <3>2. ~Outstanding(i)
      BY <3>1 DEF HoldsInv, ModifyCached
    <3>3. ASSUME Settled(i) PROVE Holds(i)
      <4>1. want[i] = NoVal /\ want[i] = InRedis(i)
        BY <1>2, <1>3, <3>1, <3>3, SettledCached
      <4>2. reply[i] = "success"
        <5>1. ASSUME reply[i] = "fail", lastOp[i] # "delete" PROVE FALSE
          <6>1. redis[i] # NoVal
            BY <5>1 DEF HoldsInv, ModifyCached
          <6>2. i \notin redisMark
            BY <5>1 DEF AgentInv, RedisOK
          <6> QED
            BY <4>1, <6>1, <6>2 DEF InRedis
        <5> QED
          BY <3>3, <5>1 DEF Settled
      <4> QED
        BY <4>1, <4>2 DEF HoldsInv, DeletedHeld
    <3>4. Kept(i)
      BY <3>2, <3>3 DEF Kept, SettledHeld, ModifyHeld
    <3> QED
      BY <1>1, <2>1, <3>4 DEF Kept, SettledHeld, ModifyHeld, Settled, Outstanding, Holds
  <2> QED
    BY <2>2, <2>3, <2>4, <2>5 DEF HoldsInv
<1>6. ASSUME NEW i \in Ids, SyncObject(i) PROVE HoldsInv'
  <2>1. /\ UNCHANGED <<gate, state, lock>> /\ lock = "poll" /\ syncLeft' = syncLeft \ {i}
        /\ \/ dco' = [dco EXCEPT ![i] = InCache(i)] /\ unsure' = unsure \ {i}
           \/ ~reach /\ dco' = dco /\ unsure' = unsure
        /\ \/ i \in cacheMark /\ cache' = [cache EXCEPT ![i] = NoVal] /\ cacheMark' = cacheMark \ {i}
           \/ i \notin cacheMark /\ cache' = cache /\ cacheMark' = cacheMark
    BY <1>6 DEF SyncObject, gateVars, cacheVars, InCache, Assured
  <2>2. state[Me] = "up" /\ \A t \in Threads : ~Sent(t)
    BY <2>1 DEF HoldsInv, GateOK, SyncAlone
  <2>3. GateOK' /\ SyncAlone' /\ SyncedHeld'
    BY <1>1, <2>1, <2>2 DEF HoldsInv, GateOK, SyncAlone, SyncedHeld, Sent
  <2>4. /\ \A k \in Ids \ {i} : /\ dco'[k] = dco[k] /\ cache'[k] = cache[k]
                              /\ (k \in cacheMark' <=> k \in cacheMark) /\ (k \in unsure' <=> k \in unsure)
        /\ dco'[i] = InCache(i) \/ (~reach /\ dco'[i] = dco[i])
        /\ i \notin cacheMark => cache'[i] = cache[i] /\ i \notin cacheMark'
    BY <1>4, <2>1
  <2>5. DeletedHeld'
    <3>1. \A k \in Ids : reply[k] = "success" /\ want[k] = NoVal => dco'[k] = want[k]
      BY <1>3, <2>4 DEF HoldsInv, DeletedHeld, Holds, Settled
    <3> QED
      BY <1>1, <2>2, <3>1 DEF DeletedHeld, Holds, Sent
  <2>6. Outstanding(i) => i \notin cacheMark /\ cache[i] # NoVal /\ InCache(i) = cache[i]
    BY ModifyUnmarked DEF InCache
  <2>7. \A k \in Ids \ {i} : NoNews(k)
    BY <1>1, <2>4 DEF NoNews, Settled, Outstanding, InCache, HoldsInv, ModifyCached
  <2>8. NoNews(i)
    BY <1>1, <2>4, <2>6 DEF NoNews, Settled, Outstanding, InCache, HoldsInv, ModifyCached
  <2>9. ModifyCached'
    <3>1. \A k \in Ids : NoNews(k)
      BY <2>7, <2>8
    <3> QED
      BY <3>1, ModifyCachedFrame
  <2>10. SyncSoFar'
    <3> SUFFICES ASSUME reach, NEW k \in Ids \ syncLeft' PROVE Kept(k)'
      BY <1>1 DEF SyncSoFar
    <3>1. CASE k # i
      <4>1. Kept(k)
        BY <2>1, <3>1 DEF HoldsInv, SyncSoFar
      <4> QED
        BY <2>4, <2>7, <3>1, <4>1, KeptFrame
    <3>2. CASE k = i
      <4>1. dco'[i] = InCache(i)
        BY <2>4
      <4>2. SettledHeld(i)'
        BY <1>1, <1>3, <4>1 DEF SettledHeld, Settled, Holds
      <4>3. ModifyHeld(i)'
        BY <1>1, <2>4, <2>6, <4>1 DEF ModifyHeld, Outstanding
      <4> QED
        BY <3>2, <4>2, <4>3 DEF Kept
    <3> QED
      BY <3>1, <3>2
  <2> QED
    BY <2>3, <2>5, <2>9, <2>10 DEF HoldsInv
<1>7. CASE SyncEnd
  <2>1. /\ UNCHANGED <<dco, unsure, cache, cacheMark, gate, syncLeft>>
        /\ lock = "poll" /\ syncLeft = {} /\ lock' = "free"
        /\ state' = [state EXCEPT ![Me] = "synced"]
    BY <1>7 DEF SyncEnd, dcoVars, cacheVars, Gate!Sync
  <2>2. \A t \in Threads : ~Sent(t)
    BY <2>1 DEF HoldsInv, SyncAlone
  <2>3. state'[Me] = "synced"
    BY <1>4, <2>1
  <2>4. GateOK' /\ SyncAlone' /\ SyncSoFar'
    BY <2>1, <2>3 DEF GateOK, SyncAlone, SyncSoFar
  <2>5. DeletedHeld' /\ ModifyCached'
    BY <1>1, <2>1 DEF HoldsInv, DeletedHeld, ModifyCached, Outstanding, InCache, Holds, Sent
  <2>6. \A i \in Ids : Kept(i) => Kept(i)'
    BY <1>1, <2>1 DEF Kept, SettledHeld, ModifyHeld, Settled, Outstanding, Holds
  <2>7. SyncedHeld'
    BY <1>1, <2>1, <2>2, <2>6 DEF HoldsInv, SyncSoFar, SyncedHeld, Sent
  <2> QED
    BY <2>4, <2>5, <2>7 DEF HoldsInv
<1> QED
  BY <1>5, <1>6, <1>7 DEF SyncStep

\* After a restart, what was deleted is still not in the DCO, and what is being
\* modified is cached as Redis has it.
LEMMA HoldsInvRestart ==
    ASSUME AgentInv, HoldsInv, Restart
    PROVE  HoldsInv'
<1>1. /\ UNCHANGED <<reply, want, redis, redisMark, lastOp, dco, reach>>
      /\ ~gate' /\ state' = [m \in {Me} |-> "down"]
      /\ cache' = redis /\ cacheMark' = redisMark
      /\ lock' = "free" /\ \A t \in Threads : cfg'[t] = Idle
  BY DEF Restart, agentVars, replyVars, dcoVars
<1>2. Idle.pc = "idle"
  BY DEF Idle
<1>3. GateOK' /\ SyncAlone' /\ SyncSoFar'
  BY <1>1 DEF GateOK, SyncAlone, SyncSoFar
<1>4. DeletedHeld'
  BY <1>1, <1>2 DEF HoldsInv, DeletedHeld, Holds, Sent
<1>5. SyncedHeld'
  BY <1>1 DEF SyncedHeld
<1>6. ModifyCached'
  <2> SUFFICES ASSUME NEW i \in Ids
               PROVE  /\ Outstanding(i)' => InCache(i)' # NoVal
                      /\ reply'[i] = "none" => redis'[i] = NoVal
                      /\ reply'[i] = "fail" /\ lastOp'[i] # "delete" => redis'[i] # NoVal
    BY DEF ModifyCached
  <2>1. Outstanding(i) => redis[i] # NoVal /\ i \notin redisMark
    BY DEF Outstanding, AgentInv, RedisOK
  <2> QED
    BY <1>1, <2>1 DEF Outstanding, InCache, HoldsInv, ModifyCached
<1> QED
  BY <1>3, <1>4, <1>5, <1>6 DEF HoldsInv

\* Part two holds initially.
LEMMA HoldsInvInit == Init => HoldsInv
<1> SUFFICES ASSUME Init PROVE HoldsInv
  OBVIOUS
<1>1. /\ gate = FALSE /\ lock = "free" /\ reach = FALSE
      /\ \A i \in Ids : reply[i] = "none" /\ redis[i] = NoVal
      /\ \A t \in Threads : cfg[t] = Idle
  BY DEF Init, Gate!GateInit
<1>2. Idle.pc = "idle"
  BY DEF Idle
<1>3. ModifyCached
  BY <1>1 DEF ModifyCached, Outstanding
<1> QED
  BY <1>1, <1>2, <1>3 DEF HoldsInv, GateOK, SyncAlone, DeletedHeld, SyncedHeld, SyncSoFar, Sent

\* Every step preserves part two.
LEMMA HoldsInvNext ==
    ASSUME AgentInv, HoldsInv, Assured, [Next]_vars
    PROVE  HoldsInv'
<1>1. ASSUME NEW t \in Threads, ThreadStep(t) PROVE HoldsInv'
  BY <1>1, HoldsInvDeliver, HoldsInvLoop, HoldsInvSend, HoldsInvFinish, HoldsInvSuccess DEF ThreadStep
<1>2. ASSUME NEW i \in Ids, NEW op \in Ops \ {"none"}, NEW v \in Vals, Request(i, op, v) PROVE HoldsInv'
  BY <1>2, HoldsInvRequest
<1>3. CASE Cancel \/ UNCHANGED vars
  <2>1. UNCHANGED <<dco, reach, unsure, gate, state, syncLeft, lock, reply, want, redis, lastOp,
                    cache, cacheMark, cfg>>
    BY <1>3 DEF Cancel, vars, agentVars, replyVars, dcoVars, cacheVars, gateVars
  <2>2. \A i \in Ids : NoNews(i)
    BY <2>1 DEF NoNews, Settled, Outstanding, InCache, HoldsInv, ModifyCached
  <2> QED
    BY <2>1, <2>2, DcoFrame DEF Sent
<1> QED
  BY <1>1, <1>2, <1>3, HoldsInvOutage, HoldsInvSync, HoldsInvRestart DEF Next

(***************************************************************************)
(* SuccessIsKept.  If the gate sees every outage, no whole resync fits     *)
(* between a send and its completion, a sync's sends to a reachable DCO    *)
(* succeed, and the agent does not create again what Redis still has, then *)
(* whenever the gate is open the DCO holds what was answered, but for the  *)
(* objects for which a request failed since the last sync; of those no     *)
(* answer is a promise until the next create, delete or sync.  The cache   *)
(* from which that sync restores the DCO has them all.                     *)
(***************************************************************************)
THEOREM SuccessIsKept == Assured /\ Spec => []SuccessMeansInstalled
<1> SUFFICES ASSUME Assured PROVE Spec => []SuccessMeansInstalled
  OBVIOUS
<1>1. ~Recreate
  BY DEF Assured
<1>2. Init => AgentInv /\ HoldsInv
  BY AgentInvInit, HoldsInvInit
<1>3. AgentInv /\ HoldsInv /\ [Next]_vars => (AgentInv /\ HoldsInv)'
  BY <1>1, AgentInvNext, HoldsInvNext
<1>4. AgentInv /\ HoldsInv => SuccessMeansInstalled
  <2> SUFFICES ASSUME AgentInv, HoldsInv, gate, reach, NEW i \in Ids, Settled(i)
               PROVE  /\ i \notin unsure => dco[i] = want[i]
                      /\ Quiet(i) => InCache(i) = want[i]
    BY DEF SuccessMeansInstalled
  <2>1. i \notin unsure => dco[i] = want[i]
    BY DEF HoldsInv, GateOK, SyncedHeld, Kept, SettledHeld, Holds
  <2>2. Quiet(i) => InCache(i) = want[i]
    BY DEF AgentInv, RestartRebuilds, Settled
  <2> QED
    BY <2>1, <2>2
<1> QED
  BY <1>2, <1>3, <1>4, PTL DEF Spec
=============================================================================
