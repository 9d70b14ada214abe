------------------------- MODULE DpConfigStoreProofs -------------------------
(***************************************************************************)
(* Proof that DpConfig implements Transactions, for any objects, values,   *)
(* callback threads and retry bounds, if the agent creates no object that  *)
(* Redis still has.                                                        *)
(***************************************************************************)
EXTENDS DpConfigProofs

\* The abstract state of the requests, and what they ask for.
StageOf(i) == IF Accepted(i) THEN "accepted" ELSE reply[i]
Stages == [i \in Ids |-> StageOf(i)]
Asked == [i \in Ids |-> InRedis(i)]

\* A request that a restart has lost is in nobody's hand.
WorkFresh == \A t \in Threads : Busy(t) => cfg[t].id \notin orphans

StoreInv == AgentInv /\ WorkFresh
-----------------------------------------------------------------------------
(* Steps of the implementation and of the abstract specification.          *)

LEMMA StoreQuiet ==
    ASSUME \A i \in Ids : InRedis(i)' = InRedis(i) /\ StageOf(i)' = StageOf(i),
           UNCHANGED orphans
    PROVE  UNCHANGED Store!storeVars
<1>1. Stages' = Stages /\ Asked' = Asked  BY DEF Stages, Asked
<1>. QED  BY <1>1 DEF Store!storeVars, Stages, StageOf, Asked

LEMMA StoreAdvance ==
    ASSUME NEW i \in Ids, NEW from, NEW to, i \notin orphans,
           StageOf(i) = from, StageOf(i)' = to,
           \A k \in Ids : k # i => StageOf(k)' = StageOf(k),
           \A k \in Ids : InRedis(k)' = InRedis(k),
           UNCHANGED orphans
    PROVE  Store!Advance(i, from, to)
<1>1. Asked' = Asked  BY DEF Asked
<1>2. Stages[i] = from  BY DEF Stages
<1>3. Stages' = [Stages EXCEPT ![i] = to]  BY DEF Stages
<1>. QED  BY <1>1, <1>2, <1>3 DEF Store!Advance, Stages, StageOf, Asked

\* The stage of an object in the hand of a thread depends on that thread only.
LEMMA StageOfWork ==
    ASSUME AgentInv, NEW t \in Threads, Busy(t)
    PROVE  /\ cfg[t].id \in Ids
           /\ Accepted(cfg[t].id) <=> Sent(t)
           /\ cfg[t].pc # "cleanup" => reply[cfg[t].id] = "inprogress"
           /\ cfg[t].pc = "cleanup" => reply[cfg[t].id] = "success"
<1>1. cfg[t].id \in Ids  BY BusyThread DEF AgentInv
<1>2. Accepted(cfg[t].id) <=> Sent(t)
  BY DEF AgentInv, OneEach, Accepted, Sent, Busy
<1>. QED  BY <1>1, <1>2 DEF AgentInv, WorkOK

\* What a step of thread t does to the stages of the other objects: nothing.
LEMMA OthersStage ==
    ASSUME AgentInv, NEW t \in Threads, NEW i \in Ids,
           Busy(t) => cfg[t].id = i, Busy(t)' => cfg'[t].id = i,
           \A u \in Threads : u # t => cfg'[u] = cfg[u],
           \A k \in Ids : k # i => reply'[k] = reply[k]
    PROVE  \A k \in Ids : k # i => StageOf(k)' = StageOf(k)
BY DEF StageOf, Accepted, Busy

\* The same of its own object, when no other thread has that in hand.
LEMMA OwnStage ==
    ASSUME NEW t \in Threads, NEW i \in Ids,
           \A u \in Threads : u # t => cfg'[u] = cfg[u] /\ ~(Busy(u) /\ cfg[u].id = i),
           ~Sent(t)'
    PROVE  StageOf(i)' = reply'[i]
BY DEF StageOf, Accepted, Busy, Sent

LEMMA AloneOn ==
    ASSUME AgentInv, NEW t \in Threads, Busy(t)
    PROVE  \A u \in Threads : u # t => ~(Busy(u) /\ cfg[u].id = cfg[t].id)
BY DEF AgentInv, OneEach

LEMMA RedisDeleteAsked ==
    ASSUME AgentInv, NEW i \in Ids, want[i] = NoVal, RedisDelete(i)
    PROVE  \A k \in Ids : InRedis(k)' = InRedis(k)
<1>1. InRedis(i) = NoVal  BY DEF AgentInv, RedisOK
<1>2. /\ redis \in [Ids -> Vals \cup {NoVal}] /\ redis' = [redis EXCEPT ![i] = NoVal]
      /\ redisMark' = redisMark \ {i}
  BY DEF AgentInv, TypeOK, RedisDelete
<1>. QED  BY <1>1, <1>2 DEF InRedis
-----------------------------------------------------------------------------
(* The steps of a callback thread.                                         *)

LEMMA DeliverStore ==
    ASSUME StoreInv, NEW t \in Threads, NEW i \in Ids, Deliver(t, i)
    PROVE  Store!Take(i) /\ WorkFresh'
<1>1. /\ cfg[t].pc = "idle" /\ reply[i] = "pending" /\ i \notin orphans
      /\ reply' = [reply EXCEPT ![i] = "inprogress"]
      /\ UNCHANGED <<redis, redisMark, orphans>>
  BY DEF Deliver, agentVars, boundVars
<1>2. reply \in [Ids -> {"none", "pending", "inprogress", "success", "fail"}]
  BY DEF StoreInv, AgentInv, TypeOK
<1>3. /\ \A u \in Threads : u # t => cfg'[u] = cfg[u]
      /\ cfg'[t].pc = "try" /\ cfg'[t].id = i
  BY DEF Deliver, Idle, StoreInv, AgentInv, TypeOK
<1>4. \A u \in Threads : ~(Busy(u) /\ cfg[u].id = i)
  BY <1>1 DEF StoreInv, AgentInv, WorkOK
<1>5. StageOf(i) = "pending"
  BY <1>1, <1>4 DEF StageOf, Accepted, Busy
<1>6. StageOf(i)' = "inprogress"
  <2>1. ~Sent(t)'  BY <1>3 DEF Sent
  <2>2. StageOf(i)' = reply'[i]  BY <1>3, <1>4, <2>1, OwnStage
  <2>. QED  BY <1>1, <1>2, <2>2
<1>7. \A k \in Ids : k # i => StageOf(k)' = StageOf(k)
  <2>1. ~Busy(t)  BY <1>1 DEF Busy
  <2>2. \A k \in Ids : k # i => reply'[k] = reply[k]  BY <1>1, <1>2
  <2>. QED  BY <1>3, <2>1, <2>2, OthersStage DEF StoreInv
<1>8. \A k \in Ids : InRedis(k)' = InRedis(k)
  BY <1>1 DEF InRedis
<1>9. Store!Advance(i, "pending", "inprogress")
  BY <1>1, <1>5, <1>6, <1>7, <1>8, StoreAdvance
<1>10. WorkFresh'
  BY <1>1, <1>3 DEF StoreInv, WorkFresh, Busy
<1>. QED  BY <1>9, <1>10 DEF Store!Take

\* A step in handleConfig's loop that answers nothing.
LEMMA LoopStore ==
    ASSUME StoreInv, NEW t \in Threads,
           LoopHead(t) \/ CheckNotReady(t) \/ CheckReady(t) \/ Send(t)
    PROVE  (UNCHANGED Store!storeVars \/ \E i \in Ids : Store!Accept(i)) /\ WorkFresh'
<1>0. PICK i \in Ids : cfg[t].id = i
  <2>1. Busy(t)  BY DEF LoopHead, CheckNotReady, CheckReady, Send, Busy
  <2>. QED  BY <2>1, BusyThread DEF StoreInv, AgentInv
<1>1. /\ Busy(t) /\ cfg[t].pc # "cleanup" /\ ~Sent(t) /\ TypeOK
      /\ UNCHANGED <<redis, redisMark, reply, orphans>>
  BY DEF LoopHead, CheckNotReady, CheckReady, Send, Busy, Sent, agentVars, replyVars, boundVars,
     StoreInv, AgentInv
<1>2. i \in Ids /\ reply[i] = "inprogress" /\ ~Accepted(i)
  BY <1>0, <1>1, StageOfWork DEF StoreInv
<1>4. /\ \A u \in Threads : u # t => cfg'[u] = cfg[u]
      /\ cfg'[t].id = i /\ cfg'[t].pc # "idle"
  <2>1. Others(t) /\ SameJob(t)
    BY LoopHeadCfg, NotReadyCfg, ReadyCfg, SendCfg DEF StoreInv
  <2>. QED  BY <1>0, <2>1 DEF Others, SameJob, Busy
<1>5. \A k \in Ids : k # i => StageOf(k)' = StageOf(k)
  BY <1>0, <1>1, <1>2, <1>4, OthersStage DEF StoreInv
<1>6. \A k \in Ids : InRedis(k)' = InRedis(k)
  BY <1>1 DEF InRedis
<1>7. StageOf(i) = "inprogress"  BY <1>0, <1>2 DEF StageOf
<1>8. CASE Sent(t)'
  <2>1. StageOf(i)' = "accepted"
    BY <1>0, <1>4, <1>8 DEF StageOf, Accepted, Sent
  <2>2. i \notin orphans  BY <1>0, <1>1 DEF StoreInv, WorkFresh
  <2>3. Store!Advance(i, "inprogress", "accepted")
    BY <1>0, <1>1, <1>2, <1>5, <1>6, <1>7, <2>1, <2>2, StoreAdvance
  <2>. QED  BY <1>0, <1>1, <1>2, <1>4, <2>3 DEF Store!Accept, StoreInv, WorkFresh, Busy
<1>9. CASE ~Sent(t)'
  <2>1. \A u \in Threads : u # t => ~(Busy(u) /\ cfg[u].id = i)
    BY <1>0, <1>1, AloneOn DEF StoreInv
  <2>2. StageOf(i)' = reply'[i]  BY <1>0, <1>2, <1>4, <1>9, <2>1, OwnStage
  <2>3. \A k \in Ids : StageOf(k)' = StageOf(k)
    BY <1>0, <1>1, <1>2, <1>5, <1>7, <2>2
  <2>. QED  BY <1>0, <1>1, <1>4, <1>6, <2>3, StoreQuiet DEF StoreInv, WorkFresh, Busy
<1>. QED  BY <1>8, <1>9

\* completeConfig: the one step in which a thread answers.
LEMMA CompleteStore ==
    ASSUME StoreInv, NEW t \in Threads,
           CompleteFail(t) \/ CompleteConfig(t) \/ CompleteDelete(t)
    PROVE  (\E i \in Ids : Store!Succeed(i) \/ Store!Fail(i)) /\ WorkFresh'
<1>0. PICK i \in Ids : cfg[t].id = i
  <2>1. Busy(t)  BY DEF CompleteFail, CompleteConfig, CompleteDelete, Busy
  <2>. QED  BY <2>1, BusyThread DEF StoreInv, AgentInv
<1>1. cfg[t].pc = "complete" /\ Busy(t) /\ AgentInv /\ TypeOK /\ UNCHANGED orphans
  BY DEF CompleteFail, CompleteConfig, CompleteDelete, Busy, StoreInv, AgentInv, boundVars
<1>2. /\ i \in Ids /\ reply[i] = "inprogress" /\ (Accepted(i) <=> cfg[t].status = "ok")
      /\ i \notin orphans
  BY <1>0, <1>1, StageOfWork DEF StoreInv, Sent, WorkFresh
<1>4. /\ \A u \in Threads : u # t => cfg'[u] = cfg[u]
      /\ ~Sent(t)' /\ (Busy(t)' => cfg'[t].id = i)
  <2>1. CASE CompleteFail(t) \/ CompleteConfig(t)
    <3>1. Others(t) /\ ~Busy(t)'
      BY <1>1, <2>1, FinishCfg DEF CompleteFail, CompleteConfig
    <3>. QED  BY <3>1 DEF Others, Busy, Sent
  <2>2. CASE CompleteDelete(t)
    <3>1. Others(t) /\ SameJob(t) /\ cfg'[t].pc = "cleanup"
      BY <1>1, <2>2, CompleteDeleteCfg
    <3>. QED  BY <1>0, <3>1 DEF Others, SameJob, Busy, Sent
  <2>. QED  BY <2>1, <2>2
<1>5. reply \in [Ids -> {"none", "pending", "inprogress", "success", "fail"}]
  BY <1>1 DEF TypeOK
<1>6. reply' = [reply EXCEPT ![i] = IF cfg[t].status = "ok" THEN "success" ELSE "fail"]
  BY <1>0 DEF CompleteFail, CompleteConfig, CompleteDelete, Answer
<1>7. StageOf(i)' = IF cfg[t].status = "ok" THEN "success" ELSE "fail"
  <2>1. \A u \in Threads : u # t => ~(Busy(u) /\ cfg[u].id = i)
    BY <1>0, <1>1, AloneOn
  <2>2. StageOf(i)' = reply'[i]  BY <1>0, <1>2, <1>4, <2>1, OwnStage
  <2>. QED  BY <1>0, <1>2, <1>5, <1>6, <2>2
<1>8. \A k \in Ids : k # i => StageOf(k)' = StageOf(k)
  BY <1>0, <1>1, <1>2, <1>4, <1>5, <1>6, OthersStage
<1>9. \A k \in Ids : InRedis(k)' = InRedis(k)
  <2>1. CASE CompleteFail(t) /\ cfg[t].op = "delete"
    <3>1. want[i] = NoVal  BY <1>0, <1>1, <1>2, <2>1 DEF AgentInv, WorkOK, RedisOK
    <3>2. RedisDelete(i)  BY <1>0, <2>1 DEF CompleteFail
    <3>. QED  BY <1>0, <1>1, <1>2, <3>1, <3>2, RedisDeleteAsked
  <2>2. CASE ~(CompleteFail(t) /\ cfg[t].op = "delete")
    <3>1. UNCHANGED <<redis, redisMark>>
      BY <2>2 DEF CompleteFail, CompleteConfig, CompleteDelete, agentVars
    <3>. QED  BY <3>1 DEF InRedis
  <2>. QED  BY <2>1, <2>2
<1>10. WorkFresh'
  BY <1>0, <1>1, <1>2, <1>4 DEF StoreInv, WorkFresh, Busy
<1>11. CASE cfg[t].status = "ok"
  <2>1. StageOf(i) = "accepted" /\ StageOf(i)' = "success"  BY <1>0, <1>2, <1>7, <1>11 DEF StageOf
  <2>2. Store!Advance(i, "accepted", "success")
    BY <1>0, <1>1, <1>2, <1>8, <1>9, <2>1, StoreAdvance
  <2>. QED  BY <1>0, <1>2, <1>10, <2>2 DEF Store!Succeed
<1>12. CASE cfg[t].status # "ok"
  <2>1. StageOf(i) = "inprogress" /\ StageOf(i)' = "fail"  BY <1>0, <1>2, <1>7, <1>12 DEF StageOf
  <2>2. Store!Advance(i, "inprogress", "fail")
    BY <1>0, <1>1, <1>2, <1>8, <1>9, <2>1, StoreAdvance
  <2>. QED  BY <1>0, <1>2, <1>10, <2>2 DEF Store!Fail
<1>. QED  BY <1>11, <1>12

\* The cleanup of a delete takes away nothing the agent still asks for.
LEMMA CleanupStore ==
    ASSUME StoreInv, NEW t \in Threads, Cleanup(t)
    PROVE  UNCHANGED Store!storeVars /\ WorkFresh'
<1>0. PICK i \in Ids : cfg[t].id = i
  <2>1. Busy(t)  BY DEF Cleanup, Busy
  <2>. QED  BY <2>1, BusyThread DEF StoreInv, AgentInv
<1>1. /\ cfg[t].pc = "cleanup" /\ Busy(t) /\ ~Sent(t) /\ AgentInv /\ TypeOK
      /\ UNCHANGED <<reply, orphans>> /\ RedisDelete(i)
  BY <1>0 DEF Cleanup, Busy, Sent, StoreInv, AgentInv, boundVars, replyVars
<1>2. i \in Ids /\ ~Accepted(i) /\ want[i] = NoVal
  BY <1>0, <1>1, StageOfWork DEF AgentInv, WorkOK, RedisOK
<1>3. ~Busy(t)' /\ \A u \in Threads : u # t => cfg'[u] = cfg[u]
  BY <1>1, FinishCfg DEF Cleanup, Others
<1>4. ~Busy(t)' /\ ~Sent(t)'  BY <1>3 DEF Busy, Sent
<1>5. \A k \in Ids : k # i => StageOf(k)' = StageOf(k)
  BY <1>0, <1>1, <1>2, <1>3, <1>4, OthersStage
<1>6. \A u \in Threads : u # t => ~(Busy(u) /\ cfg[u].id = i)
  BY <1>0, <1>1, AloneOn
<1>7. StageOf(i)' = reply'[i]  BY <1>0, <1>2, <1>3, <1>4, <1>6, OwnStage
<1>8. \A k \in Ids : StageOf(k)' = StageOf(k)
  BY <1>0, <1>1, <1>2, <1>5, <1>7 DEF StageOf
<1>9. \A k \in Ids : InRedis(k)' = InRedis(k)
  BY <1>0, <1>1, <1>2, RedisDeleteAsked
<1>10. WorkFresh'  BY <1>0, <1>1, <1>3, <1>4 DEF StoreInv, WorkFresh, Busy
<1>. QED  BY <1>0, <1>1, <1>8, <1>9, <1>10, StoreQuiet
-----------------------------------------------------------------------------
(* The agent, a restart, and all that concerns the abstract state not.     *)

LEMMA RequestStore ==
    ASSUME StoreInv, NEW i \in Ids, NEW op \in Ops \ {"none"}, NEW v \in Vals, Request(i, op, v)
    PROVE  Store!Ask(i) /\ WorkFresh'
<1>1. /\ reply[i] \notin {"pending", "inprogress"} /\ UNCHANGED <<cfg, orphans>>
      /\ reply' = [reply EXCEPT ![i] = "pending"]
  BY DEF Request
<1>2. /\ redis \in [Ids -> Vals \cup {NoVal}]
      /\ reply \in [Ids -> {"none", "pending", "inprogress", "success", "fail"}]
  BY DEF StoreInv, AgentInv, TypeOK
<1>3. /\ \A k \in Ids : k # i => InRedis(k)' = InRedis(k)
      /\ InRedis(i)' \in Vals \cup {NoVal}
  BY <1>2 DEF Request, InRedis
<1>4. ~Accepted(i)
  <2>. SUFFICES ASSUME NEW t \in Threads, Sent(t), cfg[t].id = i  PROVE FALSE
    BY DEF Accepted, Sent
  <2>1. Busy(t) /\ cfg[t].pc # "cleanup"  BY DEF Sent, Busy
  <2>. QED  BY <1>1, <2>1, StageOfWork DEF StoreInv
<1>5. \A k \in Ids : Accepted(k)' <=> Accepted(k)  BY <1>1 DEF Accepted
<1>6. /\ StageOf(i)' = "pending" /\ StageOf(i) = reply[i]
      /\ \A k \in Ids : k # i => StageOf(k)' = StageOf(k)
  BY <1>1, <1>2, <1>4, <1>5 DEF StageOf
<1>7. Stages' = [Stages EXCEPT ![i] = "pending"]  BY <1>6 DEF Stages
<1>8. Stages[i] \notin {"pending", "inprogress", "accepted"}  BY <1>1, <1>2, <1>6 DEF Stages
<1>9. Asked' = [Asked EXCEPT ![i] = InRedis(i)']  BY <1>3 DEF Asked
<1>10. \E w \in Vals \cup {NoVal} : Asked' = [Asked EXCEPT ![i] = w]  BY <1>3, <1>9
<1>11. WorkFresh'  BY <1>1 DEF StoreInv, WorkFresh, Busy
<1>. QED
  BY <1>1, <1>7, <1>8, <1>10, <1>11
  DEF Store!Ask, Store!Unanswered, Stages, StageOf, Asked

LEMMA RestartStore ==
    ASSUME StoreInv, Restart
    PROVE  Store!Crash /\ WorkFresh'
<1>1. /\ UNCHANGED <<redis, redisMark, reply>>
      /\ orphans' = orphans \cup {i \in Ids : reply[i] \in {"pending", "inprogress"}}
      /\ \A t \in Threads : cfg'[t].pc = "idle"
  BY DEF Restart, agentVars, replyVars, Idle
<1>2. \A i \in Ids : Accepted(i) => reply[i] = "inprogress"
  BY StageOfWork DEF StoreInv, Accepted, Busy
<1>3. \A i \in Ids : StageOf(i)' = reply[i]
  BY <1>1 DEF StageOf, Accepted
<1>4. \A i \in Ids : StageOf(i)' = IF StageOf(i) = "accepted" THEN "inprogress" ELSE StageOf(i)
  BY <1>2, <1>3 DEF StageOf, StoreInv, AgentInv, TypeOK
<1>5. Stages' = [i \in Ids |-> IF Stages[i] = "accepted" THEN "inprogress" ELSE Stages[i]]
  BY <1>4 DEF Stages
<1>6. \A i \in Ids : Stages[i] \in {"pending", "inprogress", "accepted"}
                       <=> reply[i] \in {"pending", "inprogress"}
  BY <1>2 DEF Stages, StageOf, StoreInv, AgentInv, TypeOK
<1>7. orphans' = orphans \cup {i \in Ids : Stages[i] \in {"pending", "inprogress", "accepted"}}
  BY <1>1, <1>6
<1>8. Asked' = Asked  BY <1>1 DEF Asked, InRedis
<1>9. WorkFresh'  BY <1>1 DEF WorkFresh, Busy
<1>. QED
  BY <1>5, <1>7, <1>8, <1>9 DEF Store!Crash, Store!Unanswered, Stages, StageOf, Asked

LEMMA ElsewhereStore ==
    ASSUME StoreInv, SyncStep \/ GateStep \/ DcoLost \/ DcoBack \/ Cancel \/ UNCHANGED vars
    PROVE  UNCHANGED Store!storeVars /\ WorkFresh'
<1>1. UNCHANGED <<redis, redisMark, reply, cfg, orphans>>
  BY DEF SyncStep, SyncBegin, SyncObject, SyncEnd, GateStep, DcoLost, DcoBack, Cancel, vars,
     agentVars, replyVars, boundVars
<1>2. \A i \in Ids : InRedis(i)' = InRedis(i) /\ StageOf(i)' = StageOf(i)
  BY <1>1 DEF InRedis, StageOf, Accepted
<1>. QED  BY <1>1, <1>2, StoreQuiet DEF StoreInv, WorkFresh, Busy

LEMMA NextStore ==
    ASSUME StoreInv, [Next]_vars
    PROVE  [Store!StoreNext]_(Store!storeVars) /\ WorkFresh'
<1>1. ASSUME NEW t \in Threads, ThreadStep(t)
      PROVE  [Store!StoreNext]_(Store!storeVars) /\ WorkFresh'
  <2>1. ASSUME NEW i \in Ids, Deliver(t, i)
        PROVE  [Store!StoreNext]_(Store!storeVars) /\ WorkFresh'
    BY <2>1, DeliverStore DEF Store!StoreNext
  <2>2. CASE LoopHead(t) \/ CheckNotReady(t) \/ CheckReady(t) \/ Send(t)
    BY <2>2, LoopStore DEF Store!StoreNext
  <2>3. CASE CompleteFail(t) \/ CompleteConfig(t) \/ CompleteDelete(t)
    BY <2>3, CompleteStore DEF Store!StoreNext
  <2>4. CASE Cleanup(t)  BY <2>4, CleanupStore
  <2>. QED  BY <1>1, <2>1, <2>2, <2>3, <2>4 DEF ThreadStep
<1>2. ASSUME NEW i \in Ids, NEW op \in Ops \ {"none"}, NEW v \in Vals, Request(i, op, v)
      PROVE  [Store!StoreNext]_(Store!storeVars) /\ WorkFresh'
  BY <1>2, RequestStore DEF Store!StoreNext
<1>3. CASE Restart  BY <1>3, RestartStore DEF Store!StoreNext
<1>4. CASE SyncStep \/ GateStep \/ DcoLost \/ DcoBack \/ Cancel \/ UNCHANGED vars
  BY <1>4, ElsewhereStore
<1>. QED  BY <1>1, <1>2, <1>3, <1>4 DEF Next

LEMMA InitStore == Init => Store!StoreInit /\ StoreInv
<1>. SUFFICES ASSUME Init  PROVE Store!StoreInit /\ StoreInv
  OBVIOUS
<1>1. \A t \in Threads : cfg[t].pc = "idle"  BY DEF Init, Idle
<1>2. \A i \in Ids : InRedis(i) = NoVal /\ StageOf(i) = "none"
  BY <1>1 DEF Init, InRedis, StageOf, Accepted
<1>3. Stages = [i \in Ids |-> "none"] /\ Asked = [i \in Ids |-> NoVal]
  BY <1>2 DEF Stages, Asked
<1>4. Store!StoreInit
  BY <1>3 DEF Store!StoreInit, Stages, StageOf, Asked, Init
<1>. QED  BY <1>1, <1>4, AgentInvInit DEF StoreInv, WorkFresh, Busy

(***************************************************************************)
(* The pipeline implements Transactions: with any number of threads in     *)
(* handleConfig, a request is taken once and answered once, with success   *)
(* only after the DCO accepted it, and Redis holds what was asked last.    *)
(***************************************************************************)
THEOREM StoreIsImplemented == ~Recreate /\ Spec => ImplementsStore
<1>. SUFFICES ASSUME ~Recreate  PROVE Spec => ImplementsStore
  OBVIOUS
<1>1. Init => Store!StoreInit /\ StoreInv
  BY InitStore
<1>2. StoreInv /\ [Next]_vars => StoreInv'
  BY AgentInvNext, NextStore DEF StoreInv
<1>3. StoreInv /\ [Next]_vars => [Store!StoreNext]_(Store!storeVars)
  BY NextStore
<1>. QED  BY <1>1, <1>2, <1>3, PTL DEF Spec, ImplementsStore, Store!StoreSpec
=============================================================================
