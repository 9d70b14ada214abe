------------------------- MODULE DpSyncReadyProofs -------------------------
(***************************************************************************)
(* Proofs about DpSyncReady for any number of managers and any binding of  *)
(* them to the connections: type correctness, SyncReadySound for a board   *)
(* that is initialised once, and that DpSyncReady implements SyncGate.     *)
(***************************************************************************)
EXTENDS DpSyncReady, TLAPS

(***************************************************************************)
(* The inductive invariant.  SyncReadySound alone is not inductive: the    *)
(* poll thread sets SyncReady from a DCO state that another thread left,   *)
(* so what has to be carried along is what each step of an iteration knows *)
(* (StepOK), that the card manager's view of the connections is the poll   *)
(* thread's (CardOK), and that a DCO state outlives no connection          *)
(* (CollectOK), which together exclude raising SyncReady without a sync.   *)
(***************************************************************************)
ModeOK ==
    /\ initDone => brdInitDone /\ powerMode # "LOW"
    /\ pc = "low" => brdInitDone /\ powerMode = "LOW"
    /\ pc \notin {"sleep", "low"} => initDone
    /\ syncReady => initDone

UpOK == \A m \in Mgrs : up[m] \subseteq ConnsOf(m) /\ (MgrUp(m) => m \in started)

CardOK ==
    /\ pc \in {"close", "down"} => conn \in isConnected
    /\ pc = "close" => mgr = Card
    /\ pc = "down" /\ mgr # Card => up[Card] = isConnected \ {conn}
    /\ ~(pc = "down" /\ mgr # Card) => up[Card] = isConnected

CollectOK == dcoState # "UNSPEC" => MgrUp(Card)

AllUp == isConnected = Conns /\ \A m \in Mgrs : MgrUp(m)

StepOK ==
    /\ pc \in {"close", "down", "notify", "sync"} => ~syncReady
    /\ pc = "notify" => /\ rdy /\ isConnected = Conns
                        /\ \A m \in Mgrs : m < mgr => MgrUp(m)
                        /\ conn = "NXP" => "ZYNQ" \in up[mgr]
    /\ pc = "sync" => rdy /\ AllUp /\ synced = 1 .. (mgr - 1)
    /\ pc = "set" => /\ rdy # syncReady
                     /\ rdy => AllUp /\ synced = Mgrs
    /\ pc = "publish" => rdy = syncReady
    /\ ~syncReady /\ pc \notin {"sync", "set"} => synced = {}

IInv == TypeOK /\ ModeOK /\ UpOK /\ CardOK /\ CollectOK /\ StepOK /\ SyncReadySound
-----------------------------------------------------------------------------
(***************************************************************************)
(* Type correctness.                                                       *)
(***************************************************************************)

(***************************************************************************)
(* What telling a manager of a connection leaves behind.                   *)
(***************************************************************************)
LEMMA TellMgrEffect ==
    ASSUME TypeOK, NEW m \in Mgrs, NEW c \in Conns, NEW v,
           TellMgr(m, c, v)
    PROVE  /\ MgrTypeOK'
           /\ up' = [up EXCEPT ![m] = UpAfter(m, c, v)]
           /\ UpAfter(m, c, v) # up[m] /\ UpAfter(m, c, v) = ConnsOf(m) => m \in started'
           /\ started \subseteq started'
           /\ dcoState' = IF m = Card /\ MgrUp(Card) /\ UpAfter(m, c, v) # Conns
                          THEN "UNSPEC" ELSE dcoState
           /\ dcoState' \in DcoStates
           /\ colMode' \in {"off", "low", "high"}
           /\ UNCHANGED <<cardPowerUp, notify, cardState>>
<1> DEFINE u == UpAfter(m, c, v)
           subscribes == m = Card => cardPowerMode # "LOW"
<1>1. UpdateDcoConnection(m, c, v, "ZYNQ" \in chan, subscribes)
  BY DEF TellMgr
<1>2. u \in SUBSET Conns
  BY DEF UpAfter, TypeOK, MgrTypeOK, Conns, ConnsOf
<1>3. CASE u = up[m]
  <2>1. UNCHANGED mgrVars
    BY <1>1, <1>3 DEF UpdateDcoConnection
  <2> QED
    BY <1>3, <2>1 DEF TellMgr, mgrVars, TypeOK, MgrTypeOK, DcoStates
<1>4. CASE u # up[m]
  <2>1. up' = [up EXCEPT ![m] = u]
    BY <1>1, <1>4 DEF UpdateDcoConnection
  <2>2. CASE m \in started
    <3>1. ReSubscribe(m, c, u, "ZYNQ" \in chan, subscribes)
      BY <1>1, <1>4, <2>2 DEF UpdateDcoConnection
    <3>2. started' = started /\ needSub' \subseteq Mgrs
      BY <3>1 DEF ReSubscribe, TypeOK, MgrTypeOK
    <3>3. /\ subEnable' \subseteq Mgrs
          /\ stream' \in [Mgrs -> {"none", "live", "broken"}]
      BY <3>1 DEF ReSubscribe, SubscribeStreams, TypeOK, MgrTypeOK
    <3> QED
      BY <1>2, <2>1, <2>2, <3>2, <3>3 DEF TellMgr, TypeOK, MgrTypeOK, DcoStates
  <2>3. CASE m \notin started /\ u = ConnsOf(m)
    <3>1. Start(m, "ZYNQ" \in chan, subscribes)
      BY <1>1, <1>4, <2>3 DEF UpdateDcoConnection
    <3>2. started' = started \cup {m} /\ needSub' \subseteq Mgrs
      BY <3>1 DEF Start, TypeOK, MgrTypeOK
    <3>3. /\ subEnable' \subseteq Mgrs
          /\ stream' \in [Mgrs -> {"none", "live", "broken"}]
      BY <3>1 DEF Start, SubscribeStreams, TypeOK, MgrTypeOK
    <3> QED
      BY <1>2, <2>1, <2>3, <3>2, <3>3 DEF TellMgr, TypeOK, MgrTypeOK, DcoStates
  <2>4. CASE m \notin started /\ u # ConnsOf(m)
    <3>1. UNCHANGED <<started, needSub, subEnable, stream>>
      BY <1>1, <1>4, <2>4 DEF UpdateDcoConnection
    <3> QED
      BY <1>2, <2>1, <2>4, <3>1 DEF TellMgr, TypeOK, MgrTypeOK, DcoStates
  <2> QED
    BY <2>2, <2>3, <2>4
<1> QED
  BY <1>3, <1>4

(***************************************************************************)
(* The state starts typed and every step keeps it typed.                   *)
(***************************************************************************)
LEMMA TypeInit == Init => TypeOK
BY MgrAssumption DEF Init, MgrInit, TypeOK, MgrTypeOK, Card, Mgrs, Conns, DcoStates, PollSteps

LEMMA TypeNext == TypeOK /\ [Next]_vars => TypeOK'
<1> SUFFICES ASSUME TypeOK, [Next]_vars
             PROVE  TypeOK'
  OBVIOUS
<1> USE DEF TypeOK, envVars, cardVars, boardVars, gateVars, pollVars, histVars
<1>1. ASSUME NEW c \in Conns, ChanDown(c) \/ ChanUp(c)
      PROVE  TypeOK'
  BY <1>1 DEF ChanDown, ChanUp, BreakStreams, MgrTypeOK, mgrVars, DcoStates
<1>2. CASE DcoBoots
  BY <1>2 DEF DcoBoots, MgrTypeOK, mgrVars, DcoStates
<1>3. ASSUME NEW m \in Mgrs, StreamFails(m) \/ StreamErrorCallback(m)
      PROVE  TypeOK'
  BY <1>3 DEF StreamFails, StreamErrorCallback, StreamError, MgrTypeOK
<1>4. ASSUME NEW pm \in PowerModes, NEW complete \in BOOLEAN, BoardInit(pm, complete)
      PROVE  TypeOK'
  <2>1. published' \in BOOLEAN /\ own' \in BOOLEAN
    BY <1>4 DEF BoardInit, Publish
  <2>2. pm \in {"LOW", "HIGH"}
    BY SyncAssumption
  <2>3. /\ powerMode' \in {"UNSPEC", "LOW", "HIGH"}
        /\ cardPowerMode' \in {"UNSPEC", "LOW", "HIGH"}
    BY <1>4, <2>2 DEF BoardInit
  <2>4. brdInitDone' \in BOOLEAN /\ initDone' \in BOOLEAN
    BY <1>4 DEF BoardInit
  <2> QED
    BY <1>4, <2>1, <2>3, <2>4 DEF BoardInit, MgrTypeOK, mgrVars
<1>5. CASE OnResyncDone
  BY <1>5 DEF OnResyncDone, MgrTypeOK, mgrVars
<1>6. CASE CollectCardStatus
  <2>1. cardPowerUp' \in BOOLEAN
    BY <1>6 DEF CollectCardStatus, ReadCardState
  <2>2. notify' \in DcoStates /\ dcoState' \in DcoStates
    BY <1>6 DEF CollectCardStatus, ReadCardState
  <2>3. cardState' \in BOOLEAN /\ published' \in BOOLEAN
    BY <1>6 DEF CollectCardStatus, CreateCardState
  <2> QED
    BY <1>6, <2>1, <2>2, <2>3 DEF CollectCardStatus, MgrTypeOK, mgrVars
<1>7. CASE CardStateNotify
  BY <1>7 DEF CardStateNotify, MgrTypeOK, mgrVars, DcoStates
<1>8. ASSUME NEW c \in Conns, MonitorPoll(c)
      PROVE  TypeOK'
  BY <1>8 DEF MonitorPoll, MgrTypeOK, mgrVars
<1>9. CASE PollBegin
  BY <1>9 DEF PollBegin, MgrTypeOK, mgrVars, PollSteps, Conns
<1>10. CASE PollLock
  BY <1>10 DEF PollLock, Goto, MgrTypeOK, mgrVars, PollSteps
<1>11. CASE PollLowPower
  <2>1. MgrTypeOK' /\ cardPowerUp' \in BOOLEAN /\ notify' \in DcoStates
        /\ dcoState' \in DcoStates /\ colMode' \in {"off", "low", "high"}
        /\ cardState' \in BOOLEAN
    <3>1. CASE TellMgr(Card, conn, conn \in link)
      <4>1. Card \in Mgrs
        BY MgrAssumption DEF Card, Mgrs
      <4> QED
        BY <3>1, <4>1, TellMgrEffect
    <3>2. CASE UNCHANGED <<mgrVars, cardVars>>
      BY <3>2 DEF MgrTypeOK, mgrVars
    <3> QED
      BY <1>11, <3>1, <3>2 DEF PollLowPower
  <2>2. isConnected' \subseteq Conns
    BY <1>11 DEF PollLowPower
  <2>3. pc' \in PollSteps /\ conn' \in Conns /\ mgr' = mgr /\ rdy' = rdy
    BY <1>11 DEF PollLowPower, Goto, PollSteps, Conns
  <2> QED
    BY <1>11, <2>1, <2>2, <2>3 DEF PollLowPower
<1>12. CASE PollConnUp
  <2>1. MgrTypeOK' /\ cardPowerUp' \in BOOLEAN /\ notify' \in DcoStates
        /\ dcoState' \in DcoStates /\ colMode' \in {"off", "low", "high"}
        /\ cardState' \in BOOLEAN
    <3>1. CASE TellMgr(Card, conn, TRUE)
      <4>1. Card \in Mgrs
        BY MgrAssumption DEF Card, Mgrs
      <4> QED
        BY <3>1, <4>1, TellMgrEffect
    <3>2. CASE UNCHANGED <<mgrVars, cardVars>>
      BY <3>2 DEF MgrTypeOK, mgrVars
    <3> QED
      BY <1>12, <3>1, <3>2 DEF PollConnUp
  <2> QED
    BY <1>12, <2>1 DEF PollConnUp, NextConn, Goto, PollSteps, Conns
<1>13. CASE PollConnStillDown
  BY <1>13 DEF PollConnStillDown, NextConn, Goto, PollSteps, Conns, MgrTypeOK, mgrVars
<1>14. CASE PollConnLost
  <2>1. mgr' \in Mgrs
    BY <1>14, MgrAssumption DEF PollConnLost, Card, Mgrs
  <2>2. pc' \in PollSteps
    BY <1>14 DEF PollConnLost, PollSteps
  <2>3. syncReady' \in BOOLEAN /\ synced' \subseteq Mgrs /\ UNCHANGED <<published, own>>
    BY <1>14 DEF PollConnLost, SetSyncReady
  <2> QED
    BY <1>14, <2>1, <2>2, <2>3 DEF PollConnLost, MgrTypeOK, mgrVars
<1>15. CASE PollTellDown
  <2>1. MgrTypeOK' /\ cardPowerUp' \in BOOLEAN /\ notify' \in DcoStates
        /\ dcoState' \in DcoStates /\ colMode' \in {"off", "low", "high"}
        /\ cardState' \in BOOLEAN
    BY <1>15, TellMgrEffect DEF PollTellDown
  <2>2. mgr' \in Mgrs
    BY <1>15, MgrAssumption DEF PollTellDown, NextConn, Goto, Mgrs
  <2>3. /\ pc' \in PollSteps /\ conn' \in Conns /\ rdy' = rdy
        /\ isConnected' \subseteq Conns
    BY <1>15 DEF PollTellDown, NextConn, Goto, PollSteps, Conns
  <2> QED
    BY <1>15, <2>1, <2>2, <2>3 DEF PollTellDown
<1>16. CASE PollCheck
  <2>1. mgr' \in Mgrs
    BY <1>16, MgrAssumption DEF PollCheck, Card, Mgrs
  <2>2. pc' \in PollSteps
    BY <1>16 DEF PollCheck, PollSteps
  <2>3. rdy' \in BOOLEAN
    BY <1>16 DEF PollCheck, IsDcoSyncReady
  <2> QED
    BY <1>16, <2>1, <2>2, <2>3 DEF PollCheck, Conns, MgrTypeOK, mgrVars
<1>17. CASE PollNotify
  <2>1. MgrTypeOK' /\ cardPowerUp' \in BOOLEAN /\ notify' \in DcoStates
        /\ dcoState' \in DcoStates /\ colMode' \in {"off", "low", "high"}
        /\ cardState' \in BOOLEAN
    BY <1>17, TellMgrEffect DEF PollNotify
  <2>2. mgr' \in Mgrs
    BY <1>17, MgrAssumption DEF PollNotify, Mgrs, Card
  <2> QED
    BY <1>17, <2>1, <2>2 DEF PollNotify, PollSteps, Conns
<1>18. CASE PollSync
  <2>1. mgr' \in Mgrs
    BY <1>18, MgrAssumption DEF PollSync, Goto, Mgrs
  <2> QED
    BY <1>18, <2>1 DEF PollSync, Goto, PollSteps, MgrTypeOK, mgrVars
<1>19. CASE PollSet
  BY <1>19 DEF PollSet, SetSyncReady, Goto, PollSteps, MgrTypeOK, mgrVars
<1>21. CASE PollPublishLost
  <2>1. published' \in BOOLEAN /\ own' \in BOOLEAN
    BY <1>21 DEF PollPublishLost, Publish
  <2> QED
    BY <1>21, <2>1 DEF PollPublishLost, Goto, PollSteps, MgrTypeOK, mgrVars
<1>22. CASE PollPublish
  <2>1. cardPowerUp' \in BOOLEAN /\ notify' \in DcoStates
    BY <1>22 DEF PollPublish, ReadCardState
  <2>2. published' \in BOOLEAN /\ own' \in BOOLEAN
    BY <1>22 DEF PollPublish, Publish
  <2> QED
    BY <1>22, <2>1, <2>2 DEF PollPublish, Goto, PollSteps, MgrTypeOK, mgrVars
<1>23. CASE CardConfig
  <2>1. cardState' \in BOOLEAN /\ published' \in BOOLEAN
    BY <1>23 DEF CardConfig, CreateCardState
  <2> QED
    BY <1>23, <2>1 DEF CardConfig, MgrTypeOK, mgrVars
<1>20. CASE UNCHANGED vars
  BY <1>20 DEF vars, MgrTypeOK, mgrVars
<1> QED
  BY <1>1, <1>2, <1>3, <1>4, <1>5, <1>6, <1>7, <1>8, <1>9, <1>10, <1>11, <1>12, <1>13,
     <1>14, <1>15, <1>16, <1>17, <1>18, <1>19, <1>20, <1>21, <1>22, <1>23 DEF Next, PollStep, Environment

(***************************************************************************)
(* Every reachable state is typed.                                         *)
(***************************************************************************)
THEOREM TypeCorrect == Spec => []TypeOK
BY TypeInit, TypeNext, PTL DEF Spec
-----------------------------------------------------------------------------
(***************************************************************************)
(* SyncReadySound.                                                         *)
(***************************************************************************)
LEMMA CardIsMgr == Card \in Mgrs /\ ConnsOf(Card) = Conns /\ \A m \in Mgrs : ~(m < Card)
BY MgrAssumption DEF Card, Mgrs, ConnsOf

LEMMA IInvInit == Init => IInv
<1> SUFFICES ASSUME Init PROVE IInv
  OBVIOUS
<1>1. TypeOK
  BY TypeInit
<1>2. \A m \in Mgrs : up[m] = {} /\ ConnsOf(m) # {}
  BY DEF Init, MgrInit, ConnsOf, Conns
<1> QED
  BY <1>1, <1>2, CardIsMgr DEF Init, IInv, ModeOK, UpOK, CardOK, CollectOK, StepOK,
     SyncReadySound, MgrUp

(***************************************************************************)
(* A manager told of a connection keeps UpOK; a manager told that a        *)
(* connection is up loses none.                                            *)
(***************************************************************************)
LEMMA TellMgrUp ==
    ASSUME TypeOK, UpOK, NEW m \in Mgrs, NEW c \in Conns, NEW v,
           TellMgr(m, c, v)
    PROVE  /\ UpOK'
           /\ \A k \in Mgrs : k # m => up'[k] = up[k]
           /\ v => up[m] \subseteq up'[m] /\ ({c} \cap ConnsOf(m)) \subseteq up'[m]
           /\ m = Card => up'[Card] = IF v THEN up[Card] \cup {c} ELSE up[Card] \ {c}
<1>1. /\ up' = [up EXCEPT ![m] = UpAfter(m, c, v)]
      /\ UpAfter(m, c, v) # up[m] /\ UpAfter(m, c, v) = ConnsOf(m) => m \in started'
      /\ started \subseteq started'
  BY TellMgrEffect
<1>2. up \in [Mgrs -> SUBSET Conns]
  BY DEF TypeOK, MgrTypeOK
<1>3. up'[m] = UpAfter(m, c, v) /\ \A k \in Mgrs : k # m => up'[k] = up[k]
  BY <1>1, <1>2
<1>4. UpAfter(m, c, v) \subseteq ConnsOf(m)
  BY DEF UpAfter, UpOK
<1>5. UpOK'
  <2> SUFFICES ASSUME NEW k \in Mgrs
               PROVE  up'[k] \subseteq ConnsOf(k) /\ (up'[k] = ConnsOf(k) => k \in started')
    BY DEF UpOK, MgrUp, ConnsOf
  <2>1. CASE k = m
    BY <2>1, <1>1, <1>3, <1>4 DEF UpOK, MgrUp
  <2>2. CASE k # m
    BY <2>2, <1>1, <1>3 DEF UpOK, MgrUp
  <2> QED
    BY <2>1, <2>2
<1> QED
  BY <1>3, <1>5, CardIsMgr DEF UpAfter

(***************************************************************************)
(* The collector writes dcoState only while the card manager is up.        *)
(***************************************************************************)
LEMMA CollectInv == IInv /\ TypeOK' /\ CollectCardStatus => IInv'
BY DEF IInv, ModeOK, UpOK, CardOK, CollectOK, AllUp, StepOK, SyncReadySound, MgrUp,
       CollectCardStatus, mgrVars, boardVars, gateVars, pollVars, histVars

\* A board initialised once keeps its power mode.
LEMMA BoardInitInv ==
    ASSUME RepeatInit = FALSE, NEW pm \in PowerModes, NEW complete \in BOOLEAN
    PROVE  IInv /\ TypeOK' /\ BoardInit(pm, complete) => IInv'
<1> SUFFICES ASSUME IInv, TypeOK', BoardInit(pm, complete) PROVE IInv'
  OBVIOUS
<1>1. ModeOK'
  BY DEF IInv, TypeOK, ModeOK, BoardInit, MtxFree, pollVars
<1> QED
  BY <1>1 DEF IInv, UpOK, CardOK, CollectOK, AllUp, StepOK, SyncReadySound, MgrUp,
     BoardInit, mgrVars, cardVars, pollVars, histVars

\* Steps that only start an iteration or examine a connection.
LEMMA PollBeginInv == IInv /\ TypeOK' /\ (PollBegin \/ PollLock \/ PollConnStillDown) => IInv'
<1> SUFFICES ASSUME IInv, TypeOK', PollBegin \/ PollLock \/ PollConnStillDown PROVE IInv'
  OBVIOUS
<1> USE DEF PollBegin, PollLock, PollConnStillDown, Goto, NextConn
<1>1. UNCHANGED <<mgrVars, cardVars, boardVars, isConnected, gateVars, histVars>>
  OBVIOUS
<1>2. pc \notin {"down", "notify", "sync", "set"} /\ pc' \in {"low", "high", "conn", "check"}
  OBVIOUS
<1>3. ModeOK'
  BY <1>1, <1>2 DEF IInv, ModeOK, boardVars, gateVars
<1> QED
  BY <1>1, <1>2, <1>3 DEF IInv, UpOK, CardOK, CollectOK, AllUp, StepOK, SyncReadySound,
     MgrUp, mgrVars, cardVars, boardVars, gateVars, histVars

(***************************************************************************)
(* A step that tells the card manager of the connection the poll thread    *)
(* has just recorded: PollLowPower and PollConnUp.  The gate is closed.    *)
(***************************************************************************)
LEMMA CardToldInv ==
    ASSUME IInv, TypeOK', pc \in {"low", "conn"}, ~syncReady, NEW v,
           TellMgr(Card, conn, v),
           isConnected' = IF v THEN isConnected \cup {conn} ELSE isConnected \ {conn},
           pc' \in {"low", "conn", "check", "sleep"}, ModeOK',
           UNCHANGED <<syncReady, synced>>
    PROVE  IInv'
<1>1. UpOK' /\ up'[Card] = IF v THEN up[Card] \cup {conn} ELSE up[Card] \ {conn}
  <2>1. TypeOK /\ UpOK /\ Card \in Mgrs /\ conn \in Conns
    BY CardIsMgr DEF IInv, TypeOK
  <2> QED
    BY <2>1, TellMgrUp
<1>2. CardOK'
  BY <1>1 DEF IInv, CardOK
<1>3. CollectOK'
  <2>1. dcoState' = IF MgrUp(Card) /\ UpAfter(Card, conn, v) # Conns THEN "UNSPEC" ELSE dcoState
    BY TellMgrEffect, CardIsMgr DEF IInv, TypeOK
  <2>2. up'[Card] = UpAfter(Card, conn, v)
    BY <1>1, CardIsMgr DEF UpAfter, IInv, TypeOK
  <2> QED
    BY <2>1, <2>2, CardIsMgr DEF IInv, CollectOK, MgrUp, ConnsOf
<1>4. StepOK' /\ SyncReadySound'
  BY DEF IInv, StepOK, SyncReadySound
<1> QED
  BY <1>1, <1>2, <1>3, <1>4 DEF IInv

LEMMA PollLowPowerInv == IInv /\ TypeOK' /\ PollLowPower => IInv'
<1> SUFFICES ASSUME IInv, TypeOK', PollLowPower PROVE IInv'
  OBVIOUS
<1>1. ~syncReady
  BY DEF PollLowPower, IInv, ModeOK
<1>2. pc = "low" /\ pc' \in {"low", "sleep"} /\ UNCHANGED <<boardVars, gateVars, histVars>>
  BY DEF PollLowPower, Goto
<1>3. ModeOK'
  BY <1>2 DEF IInv, ModeOK, boardVars, gateVars
<1>4. CASE (conn \in link) # (conn \in isConnected)
  <2>1. TellMgr(Card, conn, conn \in link)
    BY <1>4 DEF PollLowPower
  <2>2. isConnected' = IF conn \in link THEN isConnected \cup {conn} ELSE isConnected \ {conn}
    BY DEF PollLowPower
  <2> QED
    BY <1>1, <1>2, <1>3, <2>1, <2>2, CardToldInv DEF gateVars, histVars
<1>5. CASE (conn \in link) = (conn \in isConnected)
  <2>1. UNCHANGED <<mgrVars, cardVars, isConnected>>
    BY <1>5 DEF PollLowPower
  <2> QED
    BY <1>1, <1>2, <1>3, <2>1 DEF IInv, UpOK, CardOK, CollectOK, AllUp, StepOK,
       SyncReadySound, MgrUp, mgrVars, cardVars, gateVars, histVars
<1> QED
  BY <1>4, <1>5

LEMMA PollConnUpInv == IInv /\ TypeOK' /\ PollConnUp => IInv'
<1> SUFFICES ASSUME IInv, TypeOK', PollConnUp PROVE IInv'
  OBVIOUS
<1>1. pc = "conn" /\ pc' \in {"conn", "check"} /\ UNCHANGED <<boardVars, gateVars, histVars>>
  BY DEF PollConnUp, NextConn, Goto
<1>2. ModeOK'
  BY <1>1 DEF IInv, ModeOK, boardVars, gateVars
<1>3. CASE conn \notin isConnected
  <2>1. ~syncReady
    BY <1>3 DEF IInv, TypeOK, SyncReadySound
  <2>2. TellMgr(Card, conn, TRUE) /\ isConnected' = isConnected \cup {conn}
    BY <1>3 DEF PollConnUp
  <2> QED
    BY <1>1, <1>2, <2>1, <2>2, CardToldInv DEF gateVars, histVars
<1>4. CASE conn \in isConnected
  <2>1. UNCHANGED <<mgrVars, cardVars, isConnected>>
    BY <1>4 DEF PollConnUp
  <2> QED
    BY <1>1, <1>2, <2>1 DEF IInv, UpOK, CardOK, CollectOK, AllUp, StepOK,
       SyncReadySound, MgrUp, mgrVars, cardVars, gateVars, histVars
<1> QED
  BY <1>3, <1>4

\* The loss of a connection closes the gate before any manager is told.
LEMMA PollConnLostInv == IInv /\ TypeOK' /\ PollConnLost => IInv'
<1> SUFFICES ASSUME IInv, TypeOK', PollConnLost PROVE IInv'
  OBVIOUS
<1>1. /\ pc = "conn" /\ conn \in isConnected
      /\ pc' \in {"close", "down"} /\ mgr' = Card /\ conn' = conn
      /\ syncReady' = FALSE /\ synced' = {}
      /\ UNCHANGED <<mgrVars, cardVars, boardVars, isConnected>>
  BY DEF PollConnLost, SetSyncReady
<1>2. ModeOK'
  BY <1>1 DEF IInv, ModeOK, boardVars
<1> QED
  BY <1>1, <1>2 DEF IInv, UpOK, CardOK, CollectOK, AllUp, StepOK, SyncReadySound,
     MgrUp, mgrVars, cardVars

LEMMA PollTellDownInv == IInv /\ TypeOK' /\ PollTellDown => IInv'
<1> SUFFICES ASSUME IInv, TypeOK', PollTellDown PROVE IInv'
  OBVIOUS
<1>1. /\ pc = "down" /\ TellMgr(mgr, conn, FALSE) /\ mgr \in Mgrs /\ conn \in Conns
      /\ ~syncReady /\ UNCHANGED <<boardVars, gateVars, histVars>>
  BY DEF PollTellDown, IInv, TypeOK, StepOK
<1>2. \/ mgr < NumMgrs /\ mgr' = mgr + 1 /\ pc' = "down" /\ conn' = conn
         /\ isConnected' = isConnected
      \/ pc' \in {"conn", "check"} /\ isConnected' = isConnected \ {conn}
  BY DEF PollTellDown, NextConn, Goto
<1>3. ModeOK'
  BY <1>1, <1>2 DEF IInv, ModeOK, boardVars, gateVars
<1>4. /\ UpOK'
      /\ \A k \in Mgrs : k # mgr => up'[k] = up[k]
      /\ mgr = Card => up'[Card] = up[Card] \ {conn}
  BY <1>1, TellMgrUp DEF IInv
<1>5. up'[Card] = isConnected \ {conn}
  <2>1. CASE mgr = Card
    BY <1>1, <1>4, <2>1 DEF IInv, CardOK
  <2>2. CASE mgr # Card
    BY <1>1, <1>4, <2>2, CardIsMgr DEF IInv, CardOK
  <2> QED
    BY <2>1, <2>2
<1>6. CardOK'
  <2>1. CASE mgr < NumMgrs /\ mgr' = mgr + 1 /\ pc' = "down" /\ conn' = conn
             /\ isConnected' = isConnected
    <3>1. mgr' # Card
      BY <1>1, <2>1, MgrAssumption DEF Mgrs, Card
    <3> QED
      BY <1>1, <1>5, <2>1, <3>1 DEF IInv, CardOK
  <2>2. CASE pc' \in {"conn", "check"} /\ isConnected' = isConnected \ {conn}
    BY <1>5, <2>2 DEF CardOK
  <2> QED
    BY <1>2, <2>1, <2>2
<1>7. CollectOK'
  <2>1. dcoState' = IF mgr = Card /\ MgrUp(Card) /\ UpAfter(mgr, conn, FALSE) # Conns
                    THEN "UNSPEC" ELSE dcoState
    BY <1>1, TellMgrEffect DEF IInv
  <2>2. CASE mgr = Card
    <3>1. UpAfter(mgr, conn, FALSE) # Conns
      BY <1>1, <2>2 DEF UpAfter
    <3> QED
      BY <2>1, <2>2, <3>1 DEF IInv, CollectOK
  <2>3. CASE mgr # Card
    BY <1>4, <2>1, <2>3, CardIsMgr DEF IInv, CollectOK, MgrUp, ConnsOf
  <2> QED
    BY <2>2, <2>3
<1>8. StepOK' /\ SyncReadySound'
  BY <1>1, <1>2 DEF IInv, StepOK, SyncReadySound, gateVars, histVars
<1> QED
  BY <1>3, <1>4, <1>6, <1>7, <1>8 DEF IInv

(***************************************************************************)
(* The check: a DCO state of READY means the card manager is up, hence     *)
(* both connections are, hence SyncReady is raised only through a sync.    *)
(***************************************************************************)
LEMMA PollCheckInv == IInv /\ TypeOK' /\ PollCheck => IInv'
<1> SUFFICES ASSUME IInv, TypeOK', PollCheck PROVE IInv'
  OBVIOUS
<1>1. /\ pc = "check" /\ conn' = "ZYNQ" /\ mgr' = Card
      /\ rdy' = (dcoState = "READY")
      /\ UNCHANGED <<mgrVars, cardVars, boardVars, isConnected, gateVars, histVars>>
  BY DEF PollCheck, IsDcoSyncReady
<1>2. rdy' => isConnected = Conns
  BY <1>1, CardIsMgr DEF IInv, CollectOK, CardOK, MgrUp
<1>3. \/ pc' = "sleep"
      \/ pc' = "notify" /\ rdy' # syncReady /\ rdy'
      \/ pc' = "set" /\ rdy' # syncReady /\ ~rdy'
  <2>1. CASE rdy' = syncReady
    BY <2>1 DEF PollCheck
  <2>2. CASE rdy' # syncReady /\ rdy'
    BY <1>2, <2>2 DEF PollCheck
  <2>3. CASE rdy' # syncReady /\ ~rdy'
    BY <2>3 DEF PollCheck
  <2> QED
    BY <2>1, <2>2, <2>3
<1>4. ModeOK'
  BY <1>1, <1>3 DEF IInv, ModeOK, boardVars, gateVars
<1>5. StepOK'
  BY <1>1, <1>2, <1>3, CardIsMgr DEF IInv, TypeOK, StepOK, gateVars, histVars
<1> QED
  BY <1>1, <1>3, <1>4, <1>5 DEF IInv, UpOK, CardOK, CollectOK, SyncReadySound, MgrUp,
     mgrVars, cardVars, gateVars, histVars

LEMMA PollNotifyInv == IInv /\ TypeOK' /\ PollNotify => IInv'
<1> SUFFICES ASSUME IInv, TypeOK', PollNotify PROVE IInv'
  OBVIOUS
<1>1. /\ pc = "notify" /\ TellMgr(mgr, conn, TRUE) /\ mgr \in Mgrs /\ conn \in Conns
      /\ ~syncReady /\ rdy /\ isConnected = Conns /\ synced = {}
      /\ UNCHANGED <<boardVars, isConnected, gateVars, histVars>>
  BY DEF PollNotify, IInv, TypeOK, StepOK
<1>2. \/ conn = "ZYNQ" /\ pc' = "notify" /\ conn' = "NXP" /\ mgr' = mgr /\ rdy' = rdy
      \/ conn = "NXP" /\ mgr < NumMgrs /\ pc' = "notify" /\ conn' = "ZYNQ"
         /\ mgr' = mgr + 1 /\ rdy' = rdy
      \/ conn = "NXP" /\ mgr = NumMgrs /\ pc' = "sync" /\ mgr' = Card /\ rdy' = rdy
  <2>1. mgr < NumMgrs \/ mgr = NumMgrs
    BY <1>1, MgrAssumption DEF Mgrs
  <2>2. CASE conn = "ZYNQ"
    BY <2>2 DEF PollNotify
  <2>3. CASE conn = "NXP" /\ mgr < NumMgrs
    BY <2>3 DEF PollNotify
  <2>4. CASE conn = "NXP" /\ mgr = NumMgrs
    <3>1. ~(mgr < NumMgrs)
      BY <2>4, MgrAssumption
    <3> QED
      BY <2>4, <3>1 DEF PollNotify
  <2> QED
    BY <1>1, <2>1, <2>2, <2>3, <2>4 DEF Conns
<1>3. ModeOK'
  BY <1>1, <1>2 DEF IInv, ModeOK, boardVars, gateVars
<1>4. /\ UpOK'
      /\ \A k \in Mgrs : k # mgr => up'[k] = up[k]
      /\ up[mgr] \subseteq up'[mgr] /\ ({conn} \cap ConnsOf(mgr)) \subseteq up'[mgr]
      /\ mgr = Card => up'[Card] = up[Card] \cup {conn}
  BY <1>1, TellMgrUp DEF IInv
<1>5. up[Card] = Conns /\ up'[Card] = Conns
  BY <1>1, <1>4, CardIsMgr DEF IInv, CardOK
<1>6. CardOK'
  BY <1>1, <1>2, <1>5 DEF CardOK
<1>7. CollectOK'
  BY <1>5, CardIsMgr DEF CollectOK, MgrUp, ConnsOf
<1>8. "ZYNQ" \in ConnsOf(mgr) /\ ConnsOf(mgr) \subseteq Conns
  BY DEF ConnsOf, Conns
<1>9. conn = "NXP" => up'[mgr] = ConnsOf(mgr)
  <2> SUFFICES ASSUME conn = "NXP" PROVE up'[mgr] = ConnsOf(mgr)
    OBVIOUS
  <2>1. "ZYNQ" \in up'[mgr]
    BY <1>1, <1>4 DEF IInv, StepOK
  <2>2. ConnsOf(mgr) \subseteq up'[mgr]
    BY <1>4, <2>1 DEF ConnsOf, Conns
  <2>3. up'[mgr] \subseteq ConnsOf(mgr)
    BY <1>1, <1>4 DEF UpOK, ConnsOf
  <2> QED
    BY <2>2, <2>3
<1>10. \A k \in Mgrs : k < mgr => up'[k] = ConnsOf(k)
  BY <1>1, <1>4, MgrAssumption DEF IInv, StepOK, MgrUp, Mgrs
<1>11. StepOK'
  <2>1. CASE conn = "ZYNQ" /\ pc' = "notify" /\ conn' = "NXP" /\ mgr' = mgr /\ rdy' = rdy
    BY <1>1, <1>4, <1>8, <1>10, <2>1 DEF StepOK, MgrUp, ConnsOf, gateVars, histVars
  <2>2. CASE conn = "NXP" /\ mgr < NumMgrs /\ pc' = "notify" /\ conn' = "ZYNQ"
             /\ mgr' = mgr + 1 /\ rdy' = rdy
    <3>1. \A k \in Mgrs : k < mgr' => up'[k] = ConnsOf(k)
      BY <1>1, <1>9, <1>10, <2>2, MgrAssumption DEF Mgrs
    <3> QED
      BY <1>1, <2>2, <3>1 DEF StepOK, MgrUp, ConnsOf, gateVars, histVars
  <2>3. CASE conn = "NXP" /\ mgr = NumMgrs /\ pc' = "sync" /\ mgr' = Card /\ rdy' = rdy
    <3>1. \A k \in Mgrs : up'[k] = ConnsOf(k)
      BY <1>1, <1>9, <1>10, <2>3, MgrAssumption DEF Mgrs
    <3>2. 1 .. (mgr' - 1) = {}
      BY <2>3 DEF Card
    <3> QED
      BY <1>1, <2>3, <3>1, <3>2 DEF StepOK, AllUp, MgrUp, ConnsOf, gateVars, histVars
  <2> QED
    BY <1>2, <2>1, <2>2, <2>3
<1>12. SyncReadySound'
  BY <1>1 DEF SyncReadySound, gateVars
<1> QED
  BY <1>3, <1>4, <1>6, <1>7, <1>11, <1>12 DEF IInv

LEMMA PollSyncInv == IInv /\ TypeOK' /\ PollSync => IInv'
<1> SUFFICES ASSUME IInv, TypeOK', PollSync PROVE IInv'
  OBVIOUS
<1>1. /\ pc = "sync" /\ mgr \in Mgrs /\ ~syncReady /\ rdy /\ AllUp
      /\ synced = 1 .. (mgr - 1) /\ synced' = synced \cup {mgr} /\ rdy' = rdy
      /\ UNCHANGED <<mgrVars, cardVars, boardVars, isConnected, gateVars>>
  BY DEF PollSync, IInv, TypeOK, StepOK, Goto
<1>2. synced' = 1 .. mgr
  BY <1>1, MgrAssumption DEF Mgrs
<1>3. \/ mgr < NumMgrs /\ pc' = "sync" /\ mgr' = mgr + 1
      \/ mgr = NumMgrs /\ pc' = "set"
  BY <1>1, MgrAssumption DEF PollSync, Goto, Mgrs
<1>4. ModeOK'
  BY <1>1, <1>3 DEF IInv, ModeOK, boardVars, gateVars
<1>5. AllUp'
  BY <1>1 DEF AllUp, MgrUp, mgrVars
<1>6. StepOK'
  <2>1. CASE mgr < NumMgrs /\ pc' = "sync" /\ mgr' = mgr + 1
    <3>1. synced' = 1 .. (mgr' - 1)
      BY <1>1, <1>2, <2>1, MgrAssumption DEF Mgrs
    <3> QED
      BY <1>1, <1>5, <2>1, <3>1 DEF StepOK, gateVars
  <2>2. CASE mgr = NumMgrs /\ pc' = "set"
    <3>1. synced' = Mgrs
      BY <1>2, <2>2 DEF Mgrs
    <3> QED
      BY <1>1, <1>5, <2>2, <3>1 DEF StepOK, gateVars
  <2> QED
    BY <1>3, <2>1, <2>2
<1> QED
  BY <1>1, <1>3, <1>4, <1>6 DEF IInv, UpOK, CardOK, CollectOK, SyncReadySound, MgrUp,
     mgrVars, cardVars, gateVars

LEMMA PollSetInv == IInv /\ TypeOK' /\ PollSet => IInv'
<1> SUFFICES ASSUME IInv, TypeOK', PollSet PROVE IInv'
  OBVIOUS
<1>1. /\ pc = "set" /\ pc' = "publish" /\ syncReady' = rdy /\ rdy' = rdy
      /\ synced' = IF rdy THEN synced ELSE {}
      /\ UNCHANGED <<mgrVars, dcoState, boardVars, isConnected>>
  BY DEF PollSet, SetSyncReady, Goto, cardVars
<1>2. ModeOK'
  BY <1>1 DEF IInv, ModeOK, boardVars
<1>3. rdy => AllUp /\ synced = Mgrs
  BY <1>1 DEF IInv, StepOK
<1>4. StepOK'
  BY <1>1, <1>3 DEF IInv, TypeOK, StepOK
<1>5. SyncReadySound'
  BY <1>1, <1>3 DEF IInv, AllUp, UpOK, SyncReadySound, MgrUp, mgrVars
<1> QED
  BY <1>1, <1>2, <1>4, <1>5 DEF IInv, UpOK, CardOK, CollectOK, MgrUp, mgrVars

\* A step that publishes leaves all that IInv speaks of but pc alone.
LEMMA PublishInv == IInv /\ TypeOK' /\ (PollPublishLost \/ PollPublish) => IInv'
<1> SUFFICES ASSUME IInv, TypeOK', PollPublishLost \/ PollPublish PROVE IInv'
  OBVIOUS
<1>1. /\ UNCHANGED <<mgrVars, dcoState, boardVars, isConnected, syncReady, synced,
                     conn, mgr, rdy>>
      /\ (pc = "close" /\ pc' = "down") \/ (pc = "publish" /\ pc' = "sleep")
  BY DEF PollPublishLost, PollPublish, Goto, cardVars, histVars
<1>2. ModeOK'
  BY <1>1 DEF IInv, ModeOK, boardVars
<1>3. StepOK'
  BY <1>1 DEF IInv, StepOK
<1> QED
  BY <1>1, <1>2, <1>3 DEF IInv, UpOK, CardOK, CollectOK, SyncReadySound, MgrUp, mgrVars

LEMMA IInvNext == ASSUME RepeatInit = FALSE PROVE IInv /\ [Next]_vars => IInv'
<1> SUFFICES ASSUME IInv, [Next]_vars PROVE IInv'
  OBVIOUS
<1>1. TypeOK'
  BY TypeNext DEF IInv
<1>2. CASE \/ \E c \in Conns : ChanDown(c) \/ ChanUp(c) \/ MonitorPoll(c)
           \/ DcoBoots \/ OnResyncDone \/ CardStateNotify \/ CardConfig
           \/ \E m \in Mgrs : StreamFails(m) \/ StreamErrorCallback(m)
           \/ UNCHANGED vars
  <2>1. ModeOK' /\ UNCHANGED <<up, started, dcoState, isConnected, syncReady, pollVars, synced>>
    BY <1>2 DEF IInv, ModeOK, ChanDown, ChanUp, MonitorPoll, DcoBoots, OnResyncDone,
       CardStateNotify, CardConfig, StreamFails, StreamErrorCallback, StreamError, vars,
       mgrVars, cardVars, boardVars, gateVars, pollVars, histVars
  <2> QED
    BY <1>1, <2>1 DEF IInv, UpOK, CardOK, CollectOK, AllUp, StepOK, SyncReadySound, MgrUp,
       pollVars
<1>3. ASSUME NEW pm \in PowerModes, NEW complete \in BOOLEAN, BoardInit(pm, complete)
      PROVE  IInv'
  BY <1>1, <1>3, BoardInitInv
<1>4. CASE CollectCardStatus
  BY <1>1, <1>4, CollectInv
<1>5. CASE PollStep
  BY <1>1, <1>5, PollBeginInv, PollLowPowerInv, PollConnUpInv, PollConnLostInv,
     PollTellDownInv, PollCheckInv, PollNotifyInv, PollSyncInv, PollSetInv,
     PublishInv DEF PollStep
<1> QED
  BY <1>2, <1>3, <1>4, <1>5 DEF Next, Environment

(***************************************************************************)
(* SyncReady is never set over a lost connection, an unstarted manager or  *)
(* an unsynced one, if the board is initialised once.                      *)
(***************************************************************************)
THEOREM SyncReadyIsSound == ASSUME RepeatInit = FALSE PROVE Spec => []SyncReadySound
<1>1. Init => IInv
  BY IInvInit
<1>2. IInv /\ [Next]_vars => IInv'
  BY IInvNext
<1>3. IInv => SyncReadySound
  BY DEF IInv
<1> QED
  BY <1>1, <1>2, <1>3, PTL DEF Spec
-----------------------------------------------------------------------------
(***************************************************************************)
(* DcoStateSound, whatever the constants: it survives repeated board init  *)
(* messages and power mode changes.                                        *)
(***************************************************************************)
DcoInv == TypeOK /\ UpOK /\ DcoStateSound /\ (colMode # "off" => Card \in started)

LEMMA TellMgrDco ==
    ASSUME DcoInv, NEW m \in Mgrs, NEW c \in Conns, NEW v, TellMgr(m, c, v)
    PROVE  DcoStateSound' /\ (colMode' # "off" => Card \in started')
<1>1. TypeOK /\ Card \in Mgrs /\ ConnsOf(Card) = Conns
  BY CardIsMgr DEF DcoInv
<1>2. /\ up' = [up EXCEPT ![m] = UpAfter(m, c, v)]
      /\ UpAfter(m, c, v) # up[m] /\ UpAfter(m, c, v) = ConnsOf(m) => m \in started'
      /\ started \subseteq started'
      /\ dcoState' = IF m = Card /\ MgrUp(Card) /\ UpAfter(m, c, v) # Conns
                     THEN "UNSPEC" ELSE dcoState
  BY <1>1, TellMgrEffect
<1>3. up \in [Mgrs -> SUBSET Conns]
  BY <1>1 DEF TypeOK, MgrTypeOK
<1>4. up'[Card] = IF m = Card THEN UpAfter(m, c, v) ELSE up[Card]
  BY <1>1, <1>2, <1>3
<1>5. colMode' = IF m = Card /\ Card \notin started /\ UpAfter(m, c, v) = Conns
                 THEN IF m = Card => cardPowerMode # "LOW" THEN "high" ELSE "low"
                 ELSE colMode
  BY DEF TellMgr
<1>6. dcoState' # "UNSPEC" => up'[Card] = Conns
  BY <1>1, <1>2, <1>4 DEF DcoInv, DcoStateSound, MgrUp
<1>7. dcoState' # "UNSPEC" => dcoState # "UNSPEC"
  BY <1>2
<1>8. dcoState' # "UNSPEC" => colMode' = "high"
  BY <1>5, <1>7 DEF DcoInv, DcoStateSound
<1>9. colMode' # "off" => Card \in started'
  <2>1. CASE m = Card /\ Card \notin started /\ UpAfter(m, c, v) = Conns
    <3>1. CASE UpAfter(m, c, v) # up[m]
      BY <1>1, <1>2, <2>1, <3>1
    <3>2. CASE UpAfter(m, c, v) = up[m]
      <4>1. Card \in started
        BY <1>1, <2>1, <3>2 DEF DcoInv, UpOK, MgrUp
      <4> QED
        BY <2>1, <4>1
    <3> QED
      BY <3>1, <3>2
  <2>2. CASE ~(m = Card /\ Card \notin started /\ UpAfter(m, c, v) = Conns)
    BY <1>2, <1>5, <2>2 DEF DcoInv
  <2> QED
    BY <2>1, <2>2
<1> QED
  BY <1>1, <1>6, <1>8, <1>9 DEF DcoStateSound, MgrUp, ConnsOf

LEMMA DcoInvNext == DcoInv /\ [Next]_vars => DcoInv'
<1> SUFFICES ASSUME DcoInv, [Next]_vars PROVE DcoInv'
  OBVIOUS
<1>1. TypeOK'
  BY TypeNext DEF DcoInv
<1>2. TypeOK /\ UpOK /\ Card \in Mgrs /\ conn \in Conns /\ mgr \in Mgrs
  BY CardIsMgr DEF DcoInv, TypeOK
<1>3. ASSUME NEW m \in Mgrs, NEW v, TellMgr(m, conn, v)
      PROVE  DcoInv'
  <2>1. UpOK'
    BY <1>2, <1>3, TellMgrUp
  <2> QED
    BY <1>1, <1>2, <1>3, <2>1, TellMgrDco DEF DcoInv
<1>4. CASE CollectCardStatus
  BY <1>1, <1>4 DEF CollectCardStatus, DcoInv, DcoStateSound, UpOK, MgrUp, mgrVars
<1>5. CASE UNCHANGED <<up, started, dcoState, colMode>>
  BY <1>1, <1>5 DEF DcoInv, DcoStateSound, UpOK, MgrUp
<1>6. CASE PollStep
  <2>1. CASE PollBegin \/ PollLock \/ PollConnStillDown \/ PollConnLost \/ PollCheck
             \/ PollSync \/ PollSet \/ PollPublishLost \/ PollPublish
    BY <1>5, <2>1 DEF PollBegin, PollLock, PollConnStillDown, PollConnLost, PollCheck,
       PollSync, PollSet, PollPublishLost, PollPublish, mgrVars, cardVars
  <2>2. CASE PollLowPower
    <3>1. TellMgr(Card, conn, conn \in link) \/ UNCHANGED <<mgrVars, cardVars>>
      BY <2>2 DEF PollLowPower
    <3> QED
      BY <1>2, <1>3, <1>5, <3>1 DEF mgrVars, cardVars
  <2>3. CASE PollConnUp
    <3>1. TellMgr(Card, conn, TRUE) \/ UNCHANGED <<mgrVars, cardVars>>
      BY <2>3 DEF PollConnUp
    <3> QED
      BY <1>2, <1>3, <1>5, <3>1 DEF mgrVars, cardVars
  <2>4. CASE PollTellDown \/ PollNotify
    <3>1. TellMgr(mgr, conn, FALSE) \/ TellMgr(mgr, conn, TRUE)
      BY <2>4 DEF PollTellDown, PollNotify
    <3> QED
      BY <1>2, <1>3, <3>1
  <2> QED
    BY <1>6, <2>1, <2>2, <2>3, <2>4 DEF PollStep
<1>7. CASE \/ \E c \in Conns : ChanDown(c) \/ ChanUp(c) \/ MonitorPoll(c)
           \/ DcoBoots \/ OnResyncDone \/ CardStateNotify \/ CardConfig
           \/ \E m \in Mgrs : StreamFails(m) \/ StreamErrorCallback(m)
           \/ \E pm \in PowerModes, complete \in BOOLEAN : BoardInit(pm, complete)
           \/ UNCHANGED vars
  BY <1>5, <1>7 DEF ChanDown, ChanUp, MonitorPoll, DcoBoots, OnResyncDone, CardStateNotify,
     CardConfig, StreamFails, StreamErrorCallback, StreamError, BoardInit, vars, mgrVars, cardVars
<1> QED
  BY <1>4, <1>6, <1>7 DEF Next, Environment

(***************************************************************************)
(* The collector holds a DCO state only while the card manager is up.      *)
(***************************************************************************)
THEOREM DcoStateIsSound == Spec => []DcoStateSound
<1>1. Init => DcoInv
  <2> SUFFICES ASSUME Init PROVE DcoInv
    OBVIOUS
  <2>1. TypeOK /\ IInv
    BY TypeInit, IInvInit
  <2> QED
    BY <2>1 DEF DcoInv, IInv, DcoStateSound, Init
<1>2. DcoInv /\ [Next]_vars => DcoInv'
  BY DcoInvNext
<1>3. DcoInv => DcoStateSound
  BY DEF DcoInv
<1> QED
  BY <1>1, <1>2, <1>3, PTL DEF Spec

(***************************************************************************)
(* What is published.  Nothing of this process's own is in Redis before    *)
(* there is a card state; the steps that tell managers of a loss find      *)
(* SyncReady cleared and, PublishedSound being what it is, published.      *)
(***************************************************************************)
PubInv == PublishedSound /\ (own => cardState)

LEMMA PubInvNext ==
    ASSUME RepeatInit = FALSE
    PROVE  IInv /\ PubInv /\ [Next]_vars => PubInv'
<1> SUFFICES ASSUME IInv, PubInv, [Next]_vars PROVE PubInv'
  OBVIOUS
<1>1. ASSUME UNCHANGED <<up, started, isConnected, syncReady, published, own, cardState>>,
             pc' = pc \/ pc \notin {"close", "publish"}
      PROVE  PubInv'
  BY <1>1 DEF PubInv, PublishedSound, MgrUp, ConnsOf
<1>2. ASSUME UNCHANGED <<published, own, cardState>>, ~syncReady, pc \notin {"close", "publish"}
      PROVE  PubInv'
  BY <1>2 DEF PubInv, PublishedSound
<1>3. ASSUME NEW m, NEW c, NEW v, TellMgr(m, c, v)
      PROVE  UNCHANGED cardState
  BY <1>3 DEF TellMgr
<1>4. CASE PollLowPower \/ PollTellDown \/ PollNotify
  <2>1. ~syncReady /\ pc \notin {"close", "publish"} /\ UNCHANGED <<published, own>>
    BY <1>4 DEF PollLowPower, PollTellDown, PollNotify, gateVars, IInv, ModeOK, StepOK
  <2>2. UNCHANGED cardState
    BY <1>3, <1>4 DEF PollLowPower, PollTellDown, PollNotify, cardVars
  <2> QED
    BY <1>2, <2>1, <2>2
<1>5. CASE PollConnUp
  <2>1. pc = "conn" /\ UNCHANGED <<syncReady, published, own>>
    BY <1>5 DEF PollConnUp, gateVars
  <2>2. CASE conn \in isConnected
    BY <1>1, <1>5, <2>1, <2>2 DEF PollConnUp, mgrVars, cardVars
  <2>3. CASE conn \notin isConnected
    <3>1. ~syncReady
      BY <2>3 DEF IInv, TypeOK, SyncReadySound
    <3>2. UNCHANGED cardState
      BY <1>3, <1>5, <2>3 DEF PollConnUp
    <3> QED
      BY <1>2, <2>1, <3>1, <3>2
  <2> QED
    BY <2>2, <2>3
<1>6. CASE PollConnLost
  <2>1. /\ pc = "conn" /\ pc' = (IF syncReady THEN "close" ELSE "down")
        /\ UNCHANGED <<up, started, isConnected, published, own, cardState>>
    BY <1>6 DEF PollConnLost, SetSyncReady, mgrVars, cardVars
  <2> QED
    BY <2>1 DEF PubInv, PublishedSound, MgrUp, ConnsOf
<1>7. CASE PollSet
  <2>1. /\ pc = "set" /\ pc' = "publish"
        /\ UNCHANGED <<up, started, isConnected, published, own, cardState>>
    BY <1>7 DEF PollSet, SetSyncReady, Goto, mgrVars, cardVars
  <2> QED
    BY <2>1 DEF PubInv, PublishedSound, MgrUp, ConnsOf
<1>8. CASE PollPublishLost
  BY <1>8 DEF PollPublishLost, Publish, cardVars, PubInv, PublishedSound
<1>9. CASE PollPublish
  <2>1. /\ rdy = syncReady /\ Publish(rdy)
        /\ UNCHANGED <<up, started, isConnected, syncReady, cardState>>
    BY <1>9 DEF PollPublish, mgrVars, IInv, StepOK
  <2>2. CASE cardState
    <3>1. published' = syncReady'
      BY <2>1, <2>2 DEF Publish
    <3>2. published' => isConnected' = Conns /\ \A m \in Mgrs : MgrUp(m)' /\ m \in started'
      BY <2>1, <3>1 DEF IInv, SyncReadySound, MgrUp, ConnsOf
    <3> QED
      BY <2>1, <2>2, <3>1, <3>2 DEF PubInv, PublishedSound
  <2>3. CASE ~cardState
    BY <2>1, <2>3 DEF Publish, PubInv, PublishedSound
  <2> QED
    BY <2>2, <2>3
<1>10. ASSUME NEW pm \in PowerModes, NEW complete \in BOOLEAN, BoardInit(pm, complete)
       PROVE  PubInv'
  <2>1. /\ Publish(FALSE) \/ UNCHANGED <<published, own>>
        /\ UNCHANGED <<up, started, isConnected, syncReady, cardState, pc>>
    BY <1>10 DEF BoardInit, mgrVars, cardVars, pollVars
  <2>2. CASE Publish(FALSE)
    BY <2>1, <2>2 DEF Publish, PubInv, PublishedSound
  <2> QED
    BY <1>1, <2>1, <2>2
<1>11. CASE CollectCardStatus \/ CardConfig
  <2>1. /\ UNCHANGED <<up, started, isConnected, syncReady, own, pc>>
        /\ CreateCardState \/ UNCHANGED <<published, cardState>>
    BY <1>11 DEF CollectCardStatus, CardConfig, mgrVars, pollVars
  <2>2. CASE CreateCardState
    BY <2>1, <2>2 DEF CreateCardState, PubInv, PublishedSound
  <2> QED
    BY <1>1, <2>1, <2>2
<1>12. CASE PollBegin \/ PollLock \/ PollConnStillDown \/ PollCheck \/ PollSync
  BY <1>1, <1>12 DEF PollBegin, PollLock, PollConnStillDown, PollCheck, PollSync,
     mgrVars, cardVars, gateVars
<1>13. CASE \/ \E c \in Conns : ChanDown(c) \/ ChanUp(c) \/ MonitorPoll(c)
            \/ DcoBoots \/ OnResyncDone \/ CardStateNotify
            \/ \E m \in Mgrs : StreamFails(m) \/ StreamErrorCallback(m)
            \/ UNCHANGED vars
  BY <1>1, <1>13 DEF ChanDown, ChanUp, MonitorPoll, DcoBoots, OnResyncDone, CardStateNotify,
     StreamFails, StreamErrorCallback, StreamError, vars, mgrVars, cardVars, gateVars, pollVars
<1> QED
  BY <1>4, <1>5, <1>6, <1>7, <1>8, <1>9, <1>10, <1>11, <1>12, <1>13
     DEF Next, PollStep, Environment

(***************************************************************************)
(* A sync_ready this process has published is taken back before any        *)
(* manager is told that a connection was lost, on a board that is          *)
(* initialised once, whatever the window between the flag and Redis lets   *)
(* the other threads do.                                                   *)
(***************************************************************************)
THEOREM PublishedIsSound == ASSUME RepeatInit = FALSE PROVE Spec => []PublishedSound
<1>1. Init => IInv /\ PubInv
  BY IInvInit DEF Init, PubInv, PublishedSound
<1>2. IInv /\ PubInv /\ [Next]_vars => IInv' /\ PubInv'
  BY IInvNext, PubInvNext
<1>3. PubInv => PublishedSound
  BY DEF PubInv
<1> QED
  BY <1>1, <1>2, <1>3, PTL DEF Spec
-----------------------------------------------------------------------------
(***************************************************************************)
(* The refinement.  GState is the abstract state of the managers.          *)
(***************************************************************************)
GState == [m \in Mgrs |-> IF ~MgrUp(m) THEN "down"
                          ELSE IF m \in synced THEN "synced" ELSE "up"]

(***************************************************************************)
(* Telling a manager, while the gate is closed and nobody is synced, is an *)
(* abstract Connect, Drop or stutter.                                      *)
(***************************************************************************)
LEMMA TellMgrGate ==
    ASSUME TypeOK, UpOK, NEW m \in Mgrs, NEW c \in Conns, NEW v, TellMgr(m, c, v),
           ~syncReady, synced = {}, UNCHANGED <<syncReady, synced>>
    PROVE  [Gate!GateNext]_(Gate!gateSpecVars)
<1>1. \A k \in Mgrs : k # m => up'[k] = up[k]
  BY TellMgrUp
<1>2. GState \in [Mgrs -> {"down", "up"}] /\ GState' \in [Mgrs -> {"down", "up"}]
  BY DEF GState
<1>3. \A k \in Mgrs : k # m => GState'[k] = GState[k]
  BY <1>1 DEF GState, MgrUp, ConnsOf
<1>4. GState' = [GState EXCEPT ![m] = GState'[m]]
  BY <1>2, <1>3
<1>5. CASE GState'[m] = GState[m]
  <2>1. GState' = GState
    BY <1>2, <1>3, <1>5
  <2> QED
    BY <2>1 DEF GState, Gate!gateSpecVars
<1>6. CASE GState[m] = "down" /\ GState'[m] = "up"
  <2>1. Gate!Connect(m)
    BY <1>4, <1>6 DEF GState, Gate!Connect
  <2> QED
    BY <2>1 DEF Gate!GateNext
<1>7. CASE GState[m] = "up" /\ GState'[m] = "down"
  <2>1. Gate!Drop(m)
    BY <1>4, <1>7 DEF GState, Gate!Drop
  <2> QED
    BY <2>1 DEF Gate!GateNext
<1> QED
  BY <1>2, <1>5, <1>6, <1>7
\* A step that leaves the managers' connections, the syncs and SyncReady alone.
LEMMA QuietGate ==
    ASSUME UNCHANGED <<up, syncReady, synced>>
    PROVE  UNCHANGED Gate!gateSpecVars
BY DEF Gate!gateSpecVars, MgrUp

LEMMA PollConnLostGate ==
    ASSUME IInv, PollConnLost
    PROVE  Gate!Close
<1>1. syncReady' = FALSE /\ synced' = {} /\ up' = up
  BY DEF PollConnLost, SetSyncReady, mgrVars
<1>2. \A m \in Mgrs : GState'[m] = IF GState[m] = "synced" THEN "up" ELSE GState[m]
  BY <1>1 DEF GState, MgrUp
<1>3. GState' = [m \in Mgrs |-> IF GState[m] = "synced" THEN "up" ELSE GState[m]]
  BY <1>2 DEF GState
<1> QED
  BY <1>1, <1>3 DEF GState, Gate!Close

LEMMA PollSyncGate ==
    ASSUME IInv, PollSync
    PROVE  \E m \in Mgrs : Gate!Sync(m)
<1>1. /\ pc = "sync" /\ synced' = synced \cup {mgr} /\ up' = up /\ UNCHANGED syncReady
      /\ mgr \in Mgrs
  BY DEF PollSync, mgrVars, gateVars, IInv, TypeOK
<1>2. ~syncReady /\ MgrUp(mgr) /\ mgr \notin synced
  BY <1>1 DEF IInv, StepOK, AllUp, Mgrs
<1>3. PICK k \in Mgrs : k = mgr
  BY <1>1
<1>4. \A m \in Mgrs : GState'[m] = IF m = k THEN "synced" ELSE GState[m]
  BY <1>1, <1>2, <1>3 DEF GState, MgrUp
<1>5. GState' = [GState EXCEPT ![k] = "synced"] /\ GState[k] = "up"
  BY <1>1, <1>2, <1>3, <1>4 DEF GState
<1>6. Gate!Sync(k)
  BY <1>1, <1>2, <1>5 DEF GState, Gate!Sync
<1> QED
  BY <1>6

LEMMA PollSetGate ==
    ASSUME IInv, PollSet
    PROVE  Gate!Open \/ Gate!Close
<1>1. /\ pc = "set" /\ syncReady' = rdy /\ up' = up
      /\ synced' = IF rdy THEN synced ELSE {}
      /\ rdy \in BOOLEAN
  BY DEF PollSet, SetSyncReady, mgrVars, IInv, TypeOK
<1>2. CASE rdy
  <2>1. \A m \in Mgrs : GState[m] = "synced"
    BY <1>1, <1>2 DEF GState, IInv, StepOK, AllUp
  <2>2. GState' = GState
    BY <1>1, <1>2 DEF GState, MgrUp
  <2> QED
    BY <1>1, <1>2, <2>1, <2>2 DEF GState, Gate!Open
<1>3. CASE ~rdy
  <2>1. \A m \in Mgrs : GState'[m] = IF GState[m] = "synced" THEN "up" ELSE GState[m]
    BY <1>1, <1>3 DEF GState, MgrUp
  <2>2. GState' = [m \in Mgrs |-> IF GState[m] = "synced" THEN "up" ELSE GState[m]]
    BY <2>1 DEF GState
  <2> QED
    BY <1>1, <1>3, <2>2 DEF GState, Gate!Close
<1> QED
  BY <1>1, <1>2, <1>3

\* The steps that tell a manager are taken with the gate closed and nobody synced.
LEMMA PollTellGate ==
    ASSUME IInv, PollLowPower \/ PollConnUp \/ PollTellDown \/ PollNotify
    PROVE  [Gate!GateNext]_(Gate!gateSpecVars)
<1>1. /\ TypeOK /\ UpOK /\ Card \in Mgrs /\ conn \in Conns /\ mgr \in Mgrs
      /\ UNCHANGED <<syncReady, synced>>
  BY CardIsMgr DEF IInv, TypeOK, PollLowPower, PollConnUp, PollTellDown, PollNotify,
     gateVars, histVars
<1>2. pc \in {"low", "down", "notify"} => ~syncReady /\ synced = {}
  BY DEF IInv, ModeOK, StepOK
<1>3. pc = "conn" /\ conn \notin isConnected => ~syncReady /\ synced = {}
  BY <1>1 DEF IInv, StepOK, SyncReadySound
<1>4. ASSUME NEW m \in Mgrs, NEW v, TellMgr(m, conn, v), ~syncReady, synced = {}
      PROVE  [Gate!GateNext]_(Gate!gateSpecVars)
  BY <1>1, <1>4, TellMgrGate
<1>5. CASE UNCHANGED mgrVars
  BY <1>1, <1>5, QuietGate DEF mgrVars
<1>6. CASE PollLowPower
  <2>1. TellMgr(Card, conn, conn \in link) \/ UNCHANGED mgrVars
    BY <1>6 DEF PollLowPower
  <2>2. pc = "low"
    BY <1>6 DEF PollLowPower
  <2> QED
    BY <1>1, <1>2, <1>4, <1>5, <2>1, <2>2
<1>7. CASE PollConnUp
  <2>1. (conn \notin isConnected /\ TellMgr(Card, conn, TRUE)) \/ UNCHANGED mgrVars
    BY <1>7 DEF PollConnUp
  <2>2. pc = "conn"
    BY <1>7 DEF PollConnUp
  <2> QED
    BY <1>1, <1>3, <1>4, <1>5, <2>1, <2>2
<1>8. CASE PollTellDown \/ PollNotify
  <2>1. pc \in {"down", "notify"} /\ (TellMgr(mgr, conn, FALSE) \/ TellMgr(mgr, conn, TRUE))
    BY <1>8 DEF PollTellDown, PollNotify
  <2> QED
    BY <1>1, <1>2, <1>4, <2>1
<1> QED
  BY <1>6, <1>7, <1>8

LEMMA NextGate ==
    IInv /\ [Next]_vars => [Gate!GateNext]_(Gate!gateSpecVars)
<1> SUFFICES ASSUME IInv, [Next]_vars PROVE [Gate!GateNext]_(Gate!gateSpecVars)
  OBVIOUS
<1>1. CASE UNCHANGED <<up, syncReady, synced>>
  BY <1>1, QuietGate
<1>2. CASE PollLowPower \/ PollConnUp \/ PollTellDown \/ PollNotify
  BY <1>2, PollTellGate
<1>3. CASE PollConnLost
  BY <1>3, PollConnLostGate DEF Gate!GateNext
<1>4. CASE PollSync
  BY <1>4, PollSyncGate DEF Gate!GateNext
<1>5. CASE PollSet
  BY <1>5, PollSetGate DEF Gate!GateNext
<1>6. CASE \/ PollBegin \/ PollLock \/ PollConnStillDown \/ PollCheck
           \/ PollPublishLost \/ PollPublish
  BY <1>1, <1>6 DEF PollBegin, PollLock, PollConnStillDown, PollCheck, PollPublishLost,
     PollPublish, mgrVars, gateVars, histVars
<1>7. CASE \/ \E c \in Conns : ChanDown(c) \/ ChanUp(c) \/ MonitorPoll(c)
           \/ DcoBoots \/ OnResyncDone \/ CardStateNotify \/ CollectCardStatus \/ CardConfig
           \/ \E m \in Mgrs : StreamFails(m) \/ StreamErrorCallback(m)
           \/ \E pm \in PowerModes, complete \in BOOLEAN : BoardInit(pm, complete)
           \/ UNCHANGED vars
  BY <1>1, <1>7 DEF ChanDown, ChanUp, MonitorPoll, DcoBoots, OnResyncDone,
     CardStateNotify, CollectCardStatus, CardConfig, StreamFails, StreamErrorCallback, StreamError,
     BoardInit, vars, mgrVars, gateVars, histVars
<1> QED
  BY <1>2, <1>3, <1>4, <1>5, <1>6, <1>7 DEF Next, PollStep, Environment

LEMMA InitGate == Init => Gate!GateInit
<1> SUFFICES ASSUME Init PROVE Gate!GateInit
  OBVIOUS
<1>1. \A m \in Mgrs : ~MgrUp(m)
  BY DEF Init, MgrInit, MgrUp, ConnsOf, Conns
<1> QED
  BY <1>1 DEF Init, Gate!GateInit

(***************************************************************************)
(* DpSyncReady implements the abstract gate, if the board is initialised   *)
(* once: the gate opens only over managers that are connected and synced,  *)
(* and closes before any of them loses its connection.                     *)
(***************************************************************************)
THEOREM GateIsImplemented == ASSUME RepeatInit = FALSE PROVE Spec => ImplementsGate
<1>1. Init => IInv /\ Gate!GateInit
  BY IInvInit, InitGate
<1>2. IInv /\ [Next]_vars => IInv'
  BY IInvNext
<1>3. IInv /\ [Next]_vars => [Gate!GateNext]_(Gate!gateSpecVars)
  BY NextGate
<1> QED
  BY <1>1, <1>2, <1>3, PTL DEF Spec, ImplementsGate, Gate!GateSpec
=============================================================================
