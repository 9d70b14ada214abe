-------------------------- MODULE SyncHealsProofs --------------------------
(***************************************************************************)
(* Proofs about what SyncReady means once an outage is over: if the poll   *)
(* thread has seen every outage, a settled board with SyncReady set holds  *)
(* the configuration of every manager and has every stream open.           *)
(***************************************************************************)
EXTENDS DpSyncReadyProofs

-----------------------------------------------------------------------------
(* The configuration in the DCO.                                           *)

\* A reachable DCO is ready and has what was synced since the gate closed.
DcoFresh == "ZYNQ" \in chan => dco = "READY" /\ synced \subseteq dcoCfg

EffectInv == IInv /\ DcoFresh

\* Nothing counts as synced while the connection to the DCO is down.
LEMMA UnsyncedWhenDown ==
    ASSUME IInv, "ZYNQ" \notin isConnected
    PROVE  synced = {}
<1>1. isConnected # Conns  BY DEF Conns
<1>2. ~syncReady  BY <1>1 DEF IInv, SyncReadySound
<1>3. pc # "sync"  BY <1>1 DEF IInv, StepOK, AllUp
<1>4. pc # "set"  BY <1>1, <1>2 DEF IInv, TypeOK, StepOK, AllUp
<1>. QED  BY <1>2, <1>3, <1>4 DEF IInv, StepOK

LEMMA DcoFreshNext ==
    ASSUME ShortOutage = FALSE, EarlyConnect = FALSE, EffectInv, [Next]_vars
    PROVE  DcoFresh'
<1>. USE DEF DcoFresh, EffectInv, envVars, histVars, gateVars
<1>1. ASSUME NEW c \in Conns, ChanDown(c)  PROVE DcoFresh'
  BY <1>1 DEF ChanDown
<1>2. ASSUME NEW c \in Conns, ChanUp(c)  PROVE DcoFresh'
  <2>1. dco = "READY" /\ UNCHANGED <<dco, synced, dcoCfg>> /\ chan' = chan \cup {c}
        /\ c \notin isConnected
    BY <1>2 DEF ChanUp
  <2>2. CASE c = "ZYNQ"  BY <2>1, <2>2, UnsyncedWhenDown
  <2>3. CASE c # "ZYNQ"  BY <2>1, <2>3
  <2>. QED  BY <2>2, <2>3
<1>3. CASE DcoBoots  BY <1>3 DEF DcoBoots
<1>4. ASSUME NEW m \in Mgrs, StreamFails(m) \/ StreamErrorCallback(m)  PROVE DcoFresh'
  BY <1>4 DEF StreamFails, StreamErrorCallback
<1>5. ASSUME NEW pm \in PowerModes, NEW complete \in BOOLEAN, BoardInit(pm, complete)
      PROVE  DcoFresh'
  BY <1>5 DEF BoardInit
<1>6. CASE OnResyncDone \/ CollectCardStatus \/ CardStateNotify
  BY <1>6 DEF OnResyncDone, CollectCardStatus, CardStateNotify
<1>7. ASSUME NEW c \in Conns, MonitorPoll(c)  PROVE DcoFresh'
  BY <1>7 DEF MonitorPoll
<1>8. CASE PollBegin \/ PollLock \/ PollLowPower \/ PollConnUp \/ PollConnStillDown
  BY <1>8 DEF PollBegin, PollLock, PollLowPower, PollConnUp, PollConnStillDown
<1>9. CASE PollConnLost  BY <1>9 DEF PollConnLost, SetSyncReady
<1>10. CASE PollTellDown \/ PollCheck \/ PollNotify
  BY <1>10 DEF PollTellDown, PollCheck, PollNotify
<1>11. CASE PollSync  BY <1>11 DEF PollSync
<1>12. CASE PollSet  BY <1>12 DEF PollSet, SetSyncReady
<1>14. CASE PollPublishLost \/ PollPublish \/ CardConfig
  BY <1>14 DEF PollPublishLost, PollPublish, CardConfig
<1>13. CASE UNCHANGED vars  BY <1>13 DEF vars
<1>. QED
  BY <1>1, <1>2, <1>3, <1>4, <1>5, <1>6, <1>7, <1>8, <1>9, <1>10, <1>11, <1>12, <1>13,
     <1>14
  DEF Next, PollStep, Environment

LEMMA EffectAlways ==
    ASSUME RepeatInit = FALSE, ShortOutage = FALSE, EarlyConnect = FALSE
    PROVE  Spec => []EffectInv
<1>1. Init => EffectInv
  BY IInvInit DEF Init, EffectInv, DcoFresh
<1>2. EffectInv /\ [Next]_vars => EffectInv'
  BY IInvNext, DcoFreshNext DEF EffectInv
<1>. QED  BY <1>1, <1>2, PTL DEF Spec

\* A settled board with SyncReady set holds the configuration of every manager:
\* no restart of the DCO was missed and no sync was thrown away, for any number
\* of managers, if the poll thread sees every outage and the DCO accepts no
\* connection before it is ready.
THEOREM SyncIsEffective ==
    ASSUME RepeatInit = FALSE, ShortOutage = FALSE, EarlyConnect = FALSE
    PROVE  Spec => []SyncEffective
<1>1. EffectInv => SyncEffective
  <2>. SUFFICES ASSUME EffectInv, Settled, syncReady  PROVE dcoCfg = Mgrs
    BY DEF SyncEffective
  <2>1. "ZYNQ" \in chan  BY DEF Settled, Conns
  <2>2. synced \subseteq dcoCfg  BY <2>1 DEF EffectInv, DcoFresh
  <2>3. \A m \in Mgrs : m \in synced  BY DEF EffectInv, IInv, SyncReadySound
  <2>4. dcoCfg \subseteq Mgrs  BY DEF EffectInv, IInv, TypeOK
  <2>. QED  BY <2>2, <2>3, <2>4
<1>. QED  BY <1>1, EffectAlways, PTL

-----------------------------------------------------------------------------
(* The notification streams.                                               *)

\* No manager believes a connection up that DataPlaneMgr has seen down, ...
KnownUp == \A c \in Conns \ isConnected : \A m \in Mgrs : c \notin up[m]

\* ... the managers already told of a lost connection do not, ...
Telling == pc = "down" => \A m \in Mgrs : m < mgr => conn \notin up[m]

\* ... and before initializeDpMgr only the card manager is told anything.
OnlyCard == ~initDone => \A m \in Mgrs \ {Card} : up[m] = {}

BoardOK == (~brdInitDone => started = {}) /\ (initDone => cardPowerMode # "LOW")

ConnInv == KnownUp /\ Telling /\ OnlyCard /\ BoardOK

\* The connections the streams of m are subscribed over are up.
SubUp(m) == IF m \in SubOnZynq THEN "ZYNQ" \in up[m] ELSE MgrUp(m)

\* What each part of the subscription protocol guarantees the next one.
StreamInv ==
    /\ "ZYNQ" \in chan => \A m \in Mgrs : stream[m] # "broken"
    /\ \A m \in Mgrs : m \in subEnable <=> stream[m] # "none"
    /\ \A m \in started : ~SubUp(m) => m \in needSub
    /\ initDone /\ "ZYNQ" \in chan => \A m \in started : SubUp(m) => stream[m] = "live"

SubInv == IInv /\ ConnInv /\ StreamInv

LEMMA TellMgrOne ==
    ASSUME TypeOK, UpOK, BoardOK, StreamInv, NEW m \in Mgrs, NEW c \in Conns, NEW v,
           TellMgr(m, c, v), UpAfter(m, c, v) # up[m]
    PROVE  /\ "ZYNQ" \in chan => stream'[m] # "broken"
           /\ m \in subEnable' <=> stream'[m] # "none"
           /\ m \in started' /\ ~SubUp(m)' => m \in needSub'
           /\ initDone /\ "ZYNQ" \in chan /\ m \in started' /\ SubUp(m)' => stream'[m] = "live"
           /\ \A k \in Mgrs : k # m =>
                 /\ stream'[k] = stream[k] /\ (k \in subEnable' <=> k \in subEnable)
                 /\ (k \in needSub' <=> k \in needSub) /\ (k \in started' <=> k \in started)
<1> DEFINE u == UpAfter(m, c, v)
           subscribes == m = Card => cardPowerMode # "LOW"
           reach == "ZYNQ" \in chan
<1>1. UpdateDcoConnection(m, c, v, reach, subscribes)
  BY DEF TellMgr
<1>2. /\ up' = [up EXCEPT ![m] = u] /\ up'[m] = u
      /\ stream \in [Mgrs -> {"none", "live", "broken"}]
  BY <1>1 DEF UpdateDcoConnection, TypeOK, MgrTypeOK
<1>3. initDone => subscribes
  BY DEF BoardOK
<1>4. SubUp(m)' <=> IF m \in SubOnZynq THEN "ZYNQ" \in u ELSE u = ConnsOf(m)
  BY <1>2 DEF SubUp, MgrUp, ConnsOf
<1>5. ASSUME SubscribeStreams(m, reach)
      PROVE  /\ reach => stream'[m] = "live"
             /\ m \in subEnable' /\ stream'[m] # "none"
             /\ \A k \in Mgrs : k # m =>
                   stream'[k] = stream[k] /\ (k \in subEnable' <=> k \in subEnable)
  <2>1. CASE m \in subEnable
    BY <1>2, <1>5, <2>1 DEF SubscribeStreams, StreamInv
  <2>2. CASE m \notin subEnable
    BY <1>2, <1>5, <2>2 DEF SubscribeStreams
  <2>. QED  BY <2>1, <2>2
<1>6. CASE m \in started
  <2>1. ReSubscribe(m, c, u, reach, subscribes)
    BY <1>1, <1>6 DEF UpdateDcoConnection
  <2>2. started' = started  BY <2>1 DEF ReSubscribe
  <2>3. CASE ~IsSubscribeConnUp(m, c, u)
    <3>1. needSub' = needSub \cup {m} /\ UNCHANGED <<subEnable, stream>>
      BY <2>1, <2>3 DEF ReSubscribe
    <3>2. SubUp(m)' => SubUp(m)
      BY <1>4, <2>3 DEF IsSubscribeConnUp, SubUp, UpAfter
    <3>. QED  BY <1>6, <2>2, <3>1, <3>2 DEF StreamInv
  <2>4. CASE IsSubscribeConnUp(m, c, u)
    <3>1. SubUp(m)'  BY <1>4, <2>4 DEF IsSubscribeConnUp
    <3>2. ~SubUp(m)
      BY <2>4, MgrAssumption DEF IsSubscribeConnUp, SubUp, UpAfter, MgrUp, UpOK, Conns, ConnsOf
    <3>3. m \in needSub  BY <1>6, <3>2 DEF StreamInv
    <3>4. needSub' = needSub \ {m}  BY <2>1, <2>4 DEF ReSubscribe
    <3>5. CASE subscribes
      <4>1. SubscribeStreams(m, reach)  BY <2>1, <2>4, <3>3, <3>5 DEF ReSubscribe
      <4>. QED  BY <1>5, <2>2, <3>1, <3>4, <4>1
    <3>6. CASE ~subscribes
      <4>1. UNCHANGED <<subEnable, stream>>  BY <2>1, <2>4, <3>6 DEF ReSubscribe
      <4>. QED  BY <1>3, <2>2, <3>1, <3>4, <3>6, <4>1 DEF StreamInv
    <3>. QED  BY <3>5, <3>6
  <2>. QED  BY <2>3, <2>4
<1>7. CASE m \notin started /\ u = ConnsOf(m)
  <2>1. Start(m, reach, subscribes)
    BY <1>1, <1>7 DEF UpdateDcoConnection
  <2>2. started' = started \cup {m} /\ needSub' = needSub \ {m}
    BY <2>1 DEF Start
  <2>3. SubUp(m)'  BY <1>4, <1>7 DEF ConnsOf, Conns
  <2>4. CASE subscribes
    <3>1. SubscribeStreams(m, reach)  BY <2>1, <2>4 DEF Start
    <3>. QED  BY <1>5, <2>2, <2>3, <3>1
  <2>5. CASE ~subscribes
    <3>1. UNCHANGED <<subEnable, stream>>  BY <2>1, <2>5 DEF Start
    <3>. QED  BY <1>3, <2>2, <2>3, <2>5, <3>1 DEF StreamInv
  <2>. QED  BY <2>4, <2>5
<1>8. CASE m \notin started /\ u # ConnsOf(m)
  <2>1. UNCHANGED <<started, needSub, subEnable, stream>>
    BY <1>1, <1>8 DEF UpdateDcoConnection
  <2>. QED  BY <1>8, <2>1 DEF StreamInv
<1>. QED  BY <1>6, <1>7, <1>8

\* Telling a manager of a connection loses no stream.
LEMMA TellMgrStream ==
    ASSUME TypeOK, UpOK, BoardOK, StreamInv, NEW m \in Mgrs, NEW c \in Conns, NEW v,
           TellMgr(m, c, v), UNCHANGED <<chan, initDone>>
    PROVE  StreamInv'
<1>1. CASE UpAfter(m, c, v) = up[m]
  <2>1. UNCHANGED mgrVars
    BY <1>1 DEF TellMgr, UpdateDcoConnection
  <2>. QED  BY <2>1 DEF mgrVars, StreamInv, SubUp, MgrUp
<1>2. CASE UpAfter(m, c, v) # up[m]
  <2>1. \A k \in Mgrs : k # m => up'[k] = up[k]
    BY TellMgrUp
  <2>2. started' \subseteq Mgrs
    BY TellMgrEffect DEF MgrTypeOK
  <2>3. \A k \in Mgrs : k # m => (SubUp(k)' <=> SubUp(k))
    BY <2>1 DEF SubUp, MgrUp, ConnsOf
  <2>4. \A k \in Mgrs :
           /\ "ZYNQ" \in chan => stream'[k] # "broken"
           /\ k \in subEnable' <=> stream'[k] # "none"
           /\ k \in started' /\ ~SubUp(k)' => k \in needSub'
           /\ initDone /\ "ZYNQ" \in chan /\ k \in started' /\ SubUp(k)' => stream'[k] = "live"
    <3>. SUFFICES ASSUME NEW k \in Mgrs
         PROVE /\ "ZYNQ" \in chan => stream'[k] # "broken"
               /\ k \in subEnable' <=> stream'[k] # "none"
               /\ k \in started' /\ ~SubUp(k)' => k \in needSub'
               /\ initDone /\ "ZYNQ" \in chan /\ k \in started' /\ SubUp(k)' => stream'[k] = "live"
      OBVIOUS
    <3>1. CASE k = m  BY <1>2, <3>1, TellMgrOne
    <3>2. CASE k # m
      <4>1. /\ stream'[k] = stream[k] /\ (k \in subEnable' <=> k \in subEnable)
            /\ (k \in needSub' <=> k \in needSub) /\ (k \in started' <=> k \in started)
        BY <1>2, <3>2, TellMgrOne
      <4>2. SubUp(k)' <=> SubUp(k)  BY <2>3, <3>2
      <4>. QED  BY <4>1, <4>2 DEF StreamInv
    <3>. QED  BY <3>1, <3>2
  <2>. QED  BY <2>2, <2>4 DEF StreamInv
<1>. QED  BY <1>1, <1>2

-----------------------------------------------------------------------------
(* The steps of the poll thread and of what runs beside it.                *)

LEMMA SubscriptionNeedsZynq ==
    ASSUME NEW m \in Mgrs, SubUp(m)
    PROVE  "ZYNQ" \in up[m]
BY DEF SubUp, MgrUp, ConnsOf, Conns

\* A step that tells one manager and leaves the rest of the board alone.
LEMMA ToldStream ==
    ASSUME SubInv, NEW m \in Mgrs, NEW v, TellMgr(m, conn, v),
           UNCHANGED <<chan, initDone, brdInitDone, cardPowerMode>>, brdInitDone
    PROVE  StreamInv' /\ BoardOK'
<1>1. TypeOK /\ UpOK /\ BoardOK /\ StreamInv /\ conn \in Conns
  BY DEF SubInv, IInv, ConnInv, TypeOK
<1>. QED  BY <1>1, TellMgrStream DEF BoardOK

\* A step that touches neither the managers nor what they are told.
LEMMA QuietConn ==
    ASSUME ConnInv, UNCHANGED <<mgrVars, boardVars, isConnected>>, pc' # "down"
    PROVE  ConnInv'
BY DEF ConnInv, KnownUp, Telling, OnlyCard, BoardOK, mgrVars, boardVars

LEMMA QuietStream ==
    ASSUME StreamInv, UNCHANGED <<mgrVars, chan, initDone>>
    PROVE  StreamInv'
BY DEF StreamInv, SubUp, MgrUp, ConnsOf, mgrVars

LEMMA ChanDownSub ==
    ASSUME SubInv, NEW c \in Conns, ChanDown(c)
    PROVE  ConnInv' /\ StreamInv'
<1>. USE DEF envVars, boardVars, pollVars
<1>1. UNCHANGED <<up, started, needSub, subEnable, boardVars, isConnected, pollVars>>
      /\ chan' = chan \ {c}
  BY DEF ChanDown
<1>2. ConnInv'
  BY <1>1 DEF SubInv, ConnInv, KnownUp, Telling, OnlyCard, BoardOK
<1>3. CASE c = "ZYNQ"
  <2>1. \A m \in Mgrs : stream'[m] = "none" <=> stream[m] = "none"
    BY <1>3 DEF ChanDown, BreakStreams
  <2>. QED  BY <1>1, <1>2, <1>3, <2>1 DEF SubInv, StreamInv, SubUp, MgrUp, ConnsOf
<1>4. CASE c # "ZYNQ"
  <2>1. UNCHANGED stream  BY <1>4 DEF ChanDown
  <2>. QED  BY <1>1, <1>2, <1>4, <2>1 DEF SubInv, StreamInv, SubUp, MgrUp, ConnsOf
<1>. QED  BY <1>2, <1>3, <1>4

LEMMA ChanUpSub ==
    ASSUME ShortOutage = FALSE, LateError = FALSE, SubInv, NEW c \in Conns, ChanUp(c)
    PROVE  ConnInv' /\ StreamInv'
<1>1. /\ UNCHANGED <<mgrVars, boardVars, isConnected, pollVars>>
      /\ chan' = chan \cup {c} /\ c \notin isConnected
      /\ \A m \in Mgrs : stream[m] # "broken"
  BY DEF ChanUp
<1>2. ConnInv'
  BY <1>1 DEF SubInv, ConnInv, KnownUp, Telling, OnlyCard, BoardOK, mgrVars, boardVars, pollVars
<1>3. CASE c = "ZYNQ"
  <2>1. \A m \in Mgrs : ~SubUp(m)
    BY <1>1, <1>3, SubscriptionNeedsZynq DEF SubInv, ConnInv, KnownUp
  <2>2. \A m \in Mgrs : ~SubUp(m)'
    BY <1>1, <2>1 DEF SubUp, MgrUp, ConnsOf, mgrVars
  <2>3. started' \subseteq Mgrs
    BY <1>1 DEF SubInv, IInv, TypeOK, MgrTypeOK, mgrVars
  <2>. QED  BY <1>1, <1>2, <2>1, <2>2, <2>3 DEF SubInv, StreamInv, mgrVars
<1>4. CASE c # "ZYNQ"
  BY <1>1, <1>2, <1>4 DEF SubInv, StreamInv, SubUp, MgrUp, ConnsOf, mgrVars, boardVars
<1>. QED  BY <1>3, <1>4

LEMMA StreamErrorSub ==
    ASSUME SubInv, NEW m \in Mgrs, StreamErrorCallback(m)
    PROVE  ConnInv' /\ StreamInv'
<1>1. /\ UNCHANGED <<up, started, needSub, chan, boardVars, isConnected, pollVars>>
      /\ stream[m] = "broken" /\ stream' = [stream EXCEPT ![m] = "none"]
      /\ subEnable' = subEnable \ {m}
  BY DEF StreamErrorCallback, StreamError, envVars
<1>2. ConnInv'
  BY <1>1 DEF SubInv, ConnInv, KnownUp, Telling, OnlyCard, BoardOK, boardVars, pollVars
<1>3. \A k \in Mgrs : stream'[k] = IF k = m THEN "none" ELSE stream[k]
  BY <1>1 DEF SubInv, IInv, TypeOK, MgrTypeOK
<1>4. started \subseteq Mgrs /\ "ZYNQ" \notin chan
  BY <1>1 DEF SubInv, IInv, TypeOK, MgrTypeOK, StreamInv
<1>. QED  BY <1>1, <1>2, <1>3, <1>4 DEF SubInv, StreamInv, SubUp, MgrUp, ConnsOf, boardVars

\* A board initialised once is initialised before any manager is started.
LEMMA BoardInitSub ==
    ASSUME RepeatInit = FALSE, SubInv, NEW pm \in PowerModes, NEW complete \in BOOLEAN,
           BoardInit(pm, complete)
    PROVE  ConnInv' /\ StreamInv'
<1>1. /\ UNCHANGED <<mgrVars, chan, isConnected, pollVars>> /\ ~brdInitDone
      /\ initDone => initDone'
      /\ ~initDone /\ initDone' => cardPowerMode' # "LOW"
  BY DEF BoardInit, envVars
<1>2. ~initDone /\ started = {}
  BY <1>1 DEF SubInv, IInv, ModeOK, ConnInv, BoardOK
<1>3. BoardOK'
  BY <1>1, <1>2 DEF BoardOK, mgrVars
<1>4. KnownUp' /\ Telling' /\ OnlyCard'
  BY <1>1 DEF SubInv, ConnInv, KnownUp, Telling, OnlyCard, mgrVars, pollVars
<1>5. StreamInv'
  BY <1>1, <1>2 DEF SubInv, StreamInv, mgrVars
<1>. QED  BY <1>3, <1>4, <1>5 DEF ConnInv

LEMMA CardToldConn ==
    ASSUME SubInv, TellMgr(Card, conn, conn \in link),
           isConnected' = (isConnected \ {conn}) \cup ({conn} \cap link),
           UNCHANGED initDone, pc' # "down",
           conn \notin link => \A m \in Mgrs \ {Card} : up[m] = {}
    PROVE  KnownUp' /\ Telling' /\ OnlyCard'
<1>1. TypeOK /\ UpOK /\ conn \in Conns /\ Card \in Mgrs
  BY CardIsMgr DEF SubInv, IInv, TypeOK
<1>2. /\ \A k \in Mgrs : k # Card => up'[k] = up[k]
      /\ up'[Card] = IF conn \in link THEN up[Card] \cup {conn} ELSE up[Card] \ {conn}
  BY <1>1, TellMgrUp
<1>3. KnownUp'
  <2>. SUFFICES ASSUME NEW c \in Conns, c \notin isConnected', NEW m \in Mgrs  PROVE c \notin up'[m]
    BY DEF KnownUp
  <2>1. CASE c = conn  BY <1>1, <1>2, <2>1
  <2>2. CASE c # conn
    <3>1. c \notin up[m]  BY <2>2 DEF SubInv, ConnInv, KnownUp
    <3>. QED  BY <1>2, <2>2, <3>1
  <2>. QED  BY <2>1, <2>2
<1>. QED  BY <1>2, <1>3 DEF SubInv, ConnInv, Telling, OnlyCard

LEMMA PollLowPowerSub ==
    ASSUME SubInv, PollLowPower
    PROVE  ConnInv' /\ StreamInv'
<1>1. /\ UNCHANGED <<chan, boardVars>> /\ pc' # "down"
      /\ isConnected' = (isConnected \ {conn}) \cup ({conn} \cap link)
      /\ IF (conn \in link) # (conn \in isConnected)
         THEN TellMgr(Card, conn, conn \in link) ELSE UNCHANGED mgrVars
  BY DEF PollLowPower, Goto, envVars
<1>2. pc = "low"  BY DEF PollLowPower
<1>3. ~initDone /\ brdInitDone  BY <1>2 DEF SubInv, IInv, ModeOK
<1>4. CASE (conn \in link) # (conn \in isConnected)
  <2>1. TellMgr(Card, conn, conn \in link)  BY <1>1, <1>4
  <2>2. \A m \in Mgrs \ {Card} : up[m] = {}  BY <1>3 DEF SubInv, ConnInv, OnlyCard
  <2>3. KnownUp' /\ Telling' /\ OnlyCard'
    BY <1>1, <2>1, <2>2, CardToldConn DEF boardVars
  <2>4. StreamInv' /\ BoardOK'
    BY <1>1, <1>3, <2>1, ToldStream, CardIsMgr DEF boardVars
  <2>. QED  BY <2>3, <2>4 DEF ConnInv
<1>5. CASE ~((conn \in link) # (conn \in isConnected))
  <2>1. UNCHANGED mgrVars /\ isConnected' = isConnected  BY <1>1, <1>5
  <2>. QED  BY <1>1, <2>1, QuietConn, QuietStream DEF SubInv, boardVars
<1>. QED  BY <1>4, <1>5

LEMMA PollConnUpSub ==
    ASSUME SubInv, PollConnUp
    PROVE  ConnInv' /\ StreamInv'
<1>1. /\ UNCHANGED <<chan, boardVars>> /\ pc' # "down" /\ pc = "conn" /\ conn \in link
      /\ isConnected' = isConnected \cup {conn}
      /\ IF conn \notin isConnected THEN TellMgr(Card, conn, TRUE) ELSE UNCHANGED mgrVars
  BY DEF PollConnUp, NextConn, Goto, envVars
<1>2. brdInitDone  BY <1>1 DEF SubInv, IInv, ModeOK
<1>3. CASE conn \notin isConnected
  <2>1. TellMgr(Card, conn, TRUE) /\ TRUE = (conn \in link)  BY <1>1, <1>3
  <2>2. TellMgr(Card, conn, conn \in link)  BY <2>1
  <2>3. isConnected' = (isConnected \ {conn}) \cup ({conn} \cap link)  BY <1>1
  <2>4. KnownUp' /\ Telling' /\ OnlyCard'
    BY <1>1, <2>2, <2>3, CardToldConn DEF boardVars
  <2>5. StreamInv' /\ BoardOK'
    BY <1>1, <1>2, <2>1, ToldStream, CardIsMgr DEF boardVars
  <2>. QED  BY <2>4, <2>5 DEF ConnInv
<1>4. CASE conn \in isConnected
  <2>1. UNCHANGED mgrVars /\ isConnected' = isConnected  BY <1>1, <1>4
  <2>. QED  BY <1>1, <2>1, QuietConn, QuietStream DEF SubInv, boardVars
<1>. QED  BY <1>3, <1>4

LEMMA PollConnLostSub ==
    ASSUME SubInv, PollConnLost
    PROVE  ConnInv' /\ StreamInv'
<1>1. UNCHANGED <<mgrVars, chan, boardVars, isConnected, conn>> /\ mgr' = Card
  BY DEF PollConnLost, envVars
<1>2. StreamInv'  BY <1>1, QuietStream DEF SubInv, boardVars
<1>3. Telling'  BY <1>1, CardIsMgr DEF Telling
<1>. QED
  BY <1>1, <1>2, <1>3 DEF SubInv, ConnInv, KnownUp, OnlyCard, BoardOK, mgrVars, boardVars

LEMMA PollTellDownSub ==
    ASSUME SubInv, PollTellDown
    PROVE  ConnInv' /\ StreamInv'
<1>1. /\ UNCHANGED <<chan, boardVars>> /\ pc = "down" /\ TellMgr(mgr, conn, FALSE)
      /\ IF mgr < NumMgrs THEN mgr' = mgr + 1 /\ UNCHANGED <<pc, conn, isConnected>>
                          ELSE isConnected' = isConnected \ {conn} /\ pc' # "down"
  BY DEF PollTellDown, NextConn, Goto, envVars
<1>2. /\ TypeOK /\ UpOK /\ conn \in Conns /\ mgr \in Mgrs /\ brdInitDone /\ initDone
      /\ UNCHANGED initDone
  BY <1>1 DEF SubInv, IInv, TypeOK, ModeOK, boardVars
<1>3. \A k \in Mgrs : k # mgr => up'[k] = up[k]
  BY <1>1, <1>2, TellMgrUp
<1>4. up'[mgr] = up[mgr] \ {conn}
  <2>1. up' = [up EXCEPT ![mgr] = UpAfter(mgr, conn, FALSE)]
    BY <1>1, <1>2, TellMgrEffect
  <2>. QED  BY <1>2, <2>1 DEF UpAfter, TypeOK, MgrTypeOK
<1>5. StreamInv' /\ BoardOK'
  BY <1>1, <1>2, ToldStream DEF boardVars
<1>6. \A m \in Mgrs : m <= mgr => conn \notin up'[m]
  BY <1>1, <1>2, <1>3, <1>4 DEF SubInv, ConnInv, Telling, Mgrs
<1>7. KnownUp'
  <2>. SUFFICES ASSUME NEW c \in Conns, c \notin isConnected', NEW m \in Mgrs  PROVE c \notin up'[m]
    BY DEF KnownUp
  <2>1. CASE c \notin isConnected
    BY <1>3, <1>4, <2>1 DEF SubInv, ConnInv, KnownUp
  <2>2. CASE c \in isConnected
    <3>1. c = conn /\ ~(mgr < NumMgrs)  BY <1>1, <2>2
    <3>. QED  BY <1>2, <1>6, <3>1, MgrAssumption DEF Mgrs
  <2>. QED  BY <2>1, <2>2
<1>8. Telling'
  <2>1. CASE mgr < NumMgrs
    <3>1. mgr' = mgr + 1 /\ conn' = conn  BY <1>1, <2>1
    <3>. QED  BY <1>2, <1>6, <3>1 DEF Telling, Mgrs
  <2>2. CASE ~(mgr < NumMgrs)  BY <1>1, <2>2 DEF Telling
  <2>. QED  BY <2>1, <2>2
<1>9. OnlyCard'  BY <1>2 DEF OnlyCard
<1>. QED  BY <1>5, <1>7, <1>8, <1>9 DEF ConnInv

LEMMA PollNotifySub ==
    ASSUME SubInv, PollNotify
    PROVE  ConnInv' /\ StreamInv'
<1>1. /\ UNCHANGED <<chan, boardVars, isConnected>> /\ pc = "notify" /\ pc' # "down"
      /\ TellMgr(mgr, conn, TRUE)
  BY DEF PollNotify, envVars
<1>2. mgr \in Mgrs /\ brdInitDone /\ initDone /\ isConnected = Conns
  BY <1>1 DEF SubInv, IInv, TypeOK, ModeOK, StepOK
<1>3. StreamInv' /\ BoardOK'
  BY <1>1, <1>2, ToldStream DEF boardVars
<1>. QED  BY <1>1, <1>2, <1>3 DEF ConnInv, KnownUp, Telling, OnlyCard, boardVars

LEMMA SubNext ==
    ASSUME RepeatInit = FALSE, ShortOutage = FALSE, StreamBreak = FALSE, LateError = FALSE,
           SubInv, [Next]_vars
    PROVE  ConnInv' /\ StreamInv'
<1>. USE DEF SubInv, envVars
<1>1. ASSUME NEW c \in Conns, ChanDown(c) \/ ChanUp(c)  PROVE ConnInv' /\ StreamInv'
  BY <1>1, ChanDownSub, ChanUpSub
<1>2. ASSUME NEW m \in Mgrs, StreamFails(m) \/ StreamErrorCallback(m)
      PROVE  ConnInv' /\ StreamInv'
  BY <1>2, StreamErrorSub DEF StreamFails
<1>3. ASSUME NEW pm \in PowerModes, NEW complete \in BOOLEAN, BoardInit(pm, complete)
      PROVE  ConnInv' /\ StreamInv'
  BY <1>3, BoardInitSub
<1>4. CASE PollLowPower  BY <1>4, PollLowPowerSub
<1>5. CASE PollConnUp  BY <1>5, PollConnUpSub
<1>6. CASE PollConnLost  BY <1>6, PollConnLostSub
<1>7. CASE PollTellDown  BY <1>7, PollTellDownSub
<1>8. CASE PollNotify  BY <1>8, PollNotifySub
<1>9. ASSUME UNCHANGED <<mgrVars, chan, boardVars, isConnected>>,
             pc' # "down" \/ UNCHANGED pollVars
      PROVE  ConnInv' /\ StreamInv'
  <2>1. StreamInv'  BY <1>9, QuietStream DEF boardVars
  <2>2. ConnInv'
    BY <1>9 DEF ConnInv, KnownUp, Telling, OnlyCard, BoardOK, mgrVars, boardVars, pollVars
  <2>. QED  BY <2>1, <2>2
<1>10. CASE PollBegin \/ PollLock \/ PollConnStillDown \/ PollCheck \/ PollSync \/ PollSet
            \/ PollPublish
  <2>1. UNCHANGED <<mgrVars, chan, boardVars, isConnected>> /\ pc' # "down"
    BY <1>10 DEF PollBegin, PollLock, PollConnStillDown, PollCheck, PollSync, PollSet,
       PollPublish, Goto, NextConn
  <2>. QED  BY <1>9, <2>1
<1>11. ASSUME NEW c \in Conns, MonitorPoll(c)  PROVE ConnInv' /\ StreamInv'
  BY <1>9, <1>11 DEF MonitorPoll
<1>12. CASE CollectCardStatus \/ CardConfig \/ CardStateNotify \/ DcoBoots \/ UNCHANGED vars
  BY <1>9, <1>12 DEF CollectCardStatus, CardConfig, CardStateNotify, DcoBoots, vars
<1>14. CASE PollPublishLost
  <2>1. UNCHANGED <<mgrVars, chan, boardVars, isConnected>> /\ pc = "close" /\ mgr' = mgr
    BY <1>14 DEF PollPublishLost, Goto
  <2>2. mgr = Card  BY <2>1 DEF IInv, CardOK
  <2>3. Telling'  BY <2>1, <2>2, CardIsMgr DEF Telling
  <2>4. StreamInv'  BY <2>1, QuietStream DEF boardVars
  <2>. QED
    BY <2>1, <2>3, <2>4 DEF ConnInv, KnownUp, OnlyCard, BoardOK, mgrVars, boardVars
<1>13. CASE OnResyncDone
  <2>1. UNCHANGED <<mgrVars, chan, isConnected, pollVars, initDone, brdInitDone, cardPowerMode>>
    BY <1>13 DEF OnResyncDone
  <2>2. StreamInv'  BY <2>1, QuietStream
  <2>. QED
    BY <2>1, <2>2 DEF ConnInv, KnownUp, Telling, OnlyCard, BoardOK, mgrVars, pollVars
<1>. QED
  BY <1>1, <1>2, <1>3, <1>4, <1>5, <1>6, <1>7, <1>8, <1>10, <1>11, <1>12, <1>13,
     <1>14
  DEF Next, PollStep, Environment

LEMMA SubInit == Init => SubInv
<1>. SUFFICES ASSUME Init  PROVE SubInv
  OBVIOUS
<1>1. \A m \in Mgrs : up[m] = {} /\ stream[m] = "none"
  BY DEF Init, MgrInit
<1>2. StreamInv /\ ConnInv
  BY <1>1 DEF StreamInv, ConnInv, KnownUp, Telling, OnlyCard, BoardOK, Init, MgrInit
<1>. QED  BY <1>2, IInvInit DEF SubInv

\* On a settled board with SyncReady set every manager's notification stream is
\* open, for any number of managers and any binding of them to the connections,
\* if the poll thread sees every outage and a stream ends only with its channel,
\* its error callback coming before the reconnection.
THEOREM EveryStreamOpen ==
    ASSUME RepeatInit = FALSE, ShortOutage = FALSE, StreamBreak = FALSE, LateError = FALSE
    PROVE  Spec => []SubscribedWhenReady
<1>1. SubInv /\ [Next]_vars => SubInv'
  BY IInvNext, SubNext DEF SubInv
<1>2. SubInv => SubscribedWhenReady
  <2>. SUFFICES ASSUME SubInv, Settled, syncReady, NEW m \in Mgrs  PROVE stream[m] = "live"
    BY DEF SubscribedWhenReady
  <2>1. MgrUp(m) /\ m \in started  BY DEF SubInv, IInv, SyncReadySound
  <2>2. initDone /\ "ZYNQ" \in chan  BY DEF SubInv, IInv, ModeOK, Settled, Conns
  <2>3. SubUp(m)  BY <2>1 DEF SubUp, MgrUp, ConnsOf, Conns
  <2>. QED  BY <2>1, <2>2, <2>3 DEF SubInv, StreamInv
<1>. QED  BY <1>1, <1>2, SubInit, PTL DEF Spec
=============================================================================
