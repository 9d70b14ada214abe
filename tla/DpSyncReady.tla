---------------------------- MODULE DpSyncReady ----------------------------
(***************************************************************************)
(* When may configuration flow to the DCO?  DataPlaneMgr answers with one  *)
(* flag, mIsSyncReady, which its PollConnectUpdates thread maintains from  *)
(* what the connection monitors, the card status collector, the DCO card   *)
(* adapter, Redis (board init) and the CLI tell it.  This module models    *)
(* that thread against everything that runs beside it.                     *)
(*                                                                         *)
(*   chan, dco            the gRPC channels and the DCO processor itself   *)
(*   link                 what DcoConnectMonitor::Poll last sampled        *)
(*   cardPowerUp, notify  DcoCardAdapter::mCardPowerUp, mCardNotifyState   *)
(*   dcoState, colMode    CardStateCollector::mDcoState and its thread     *)
(*   cardState            is CardStateCollector::mpCardState created?      *)
(*   published            sync_ready of the card state in Redis            *)
(*   up ... stream        the object managers (DpObjectMgr)                *)
(*   isConnected ... rdy  DataPlaneMgr and the locals of its poll thread   *)
(*                                                                         *)
(* A DCO state is abstracted to what isDcoStateReady tells apart: UNSPEC   *)
(* (nothing read yet), INIT (board init: not ready), READY (the rest).     *)
(***************************************************************************)
EXTENDS DpObjectMgr

CONSTANTS
    PowerModes,     \* power modes a Chm6BoardInitState may carry
    RepeatInit,     \* may the board init state be published again once complete?
    ShortOutage,    \* may a channel drop and return before the poll saw it down?
    StreamBreak,    \* may a stream fail while its channel stays up?
    LateError,      \* may a stream's error callback come after the reconnection?
    EarlyConnect,   \* does the DCO accept connections before it is ready?
    PartialNotify   \* may a card state notification leave the state out?

ASSUME SyncAssumption ==
    /\ PowerModes \subseteq {"LOW", "HIGH"}
    /\ RepeatInit \in BOOLEAN /\ ShortOutage \in BOOLEAN /\ StreamBreak \in BOOLEAN
    /\ LateError \in BOOLEAN /\ EarlyConnect \in BOOLEAN
    /\ PartialNotify \in BOOLEAN

DcoStates == {"UNSPEC", "INIT", "READY"}

VARIABLES
    chan, link, dco,
    cardPowerUp, notify, dcoState, colMode, cardState,
    powerMode, cardPowerMode, brdInitDone, initDone, resyncDone,
    isConnected, syncReady, published,
    pc, conn, mgr, rdy,
    own,        \* history: has this process published sync_ready yet?
    synced,     \* history: managers synced by the poll thread since SyncReady was last cleared
    dcoCfg      \* history: managers whose configuration the DCO holds

envVars   == <<chan, link, dco>>
cardVars  == <<cardPowerUp, notify, dcoState, colMode, cardState>>
boardVars == <<powerMode, cardPowerMode, brdInitDone, initDone, resyncDone>>
gateVars  == <<syncReady, published, own>>
pollVars  == <<pc, conn, mgr, rdy>>
histVars  == <<synced, dcoCfg>>
vars == <<mgrVars, envVars, cardVars, boardVars, isConnected, gateVars,
          pollVars, histVars>>

PollSteps == {"sleep", "low", "high", "conn", "close", "down", "check", "notify",
              "sync", "set", "publish"}

TypeOK ==
    /\ MgrTypeOK
    /\ chan \subseteq Conns /\ link \subseteq Conns
    /\ dco \in DcoStates \ {"UNSPEC"}
    /\ cardPowerUp \in BOOLEAN
    /\ notify \in DcoStates /\ dcoState \in DcoStates
    /\ colMode \in {"off", "low", "high"}
    /\ powerMode \in {"UNSPEC", "LOW", "HIGH"}
    /\ cardPowerMode \in {"UNSPEC", "LOW", "HIGH"}
    /\ brdInitDone \in BOOLEAN /\ initDone \in BOOLEAN /\ resyncDone \in BOOLEAN
    /\ isConnected \subseteq Conns
    /\ syncReady \in BOOLEAN /\ published \in BOOLEAN
    /\ cardState \in BOOLEAN /\ own \in BOOLEAN
    /\ pc \in PollSteps /\ conn \in Conns /\ mgr \in Mgrs /\ rdy \in BOOLEAN
    /\ synced \subseteq Mgrs /\ dcoCfg \subseteq Mgrs

\* Redis may still hold the card state of an earlier life of the process.
Init ==
    /\ MgrInit
    /\ chan = {} /\ link = {} /\ dco = "INIT"
    /\ cardPowerUp = FALSE /\ notify = "UNSPEC"
    /\ dcoState = "UNSPEC" /\ colMode = "off"
    /\ powerMode = "UNSPEC" /\ cardPowerMode = "UNSPEC"
    /\ brdInitDone = FALSE /\ initDone = FALSE /\ resyncDone = FALSE
    /\ isConnected = {} /\ syncReady = FALSE
    /\ cardState = FALSE /\ published \in BOOLEAN /\ own = FALSE
    /\ pc = "sleep" /\ conn = "ZYNQ" /\ mgr = Card /\ rdy = FALSE
    /\ synced = {} /\ dcoCfg = {}
-----------------------------------------------------------------------------
(***************************************************************************)
(* The DCO and its channels.  A channel that drops breaks every stream (the *)
(* streams run over ZYNQ); with it the DCO may restart, which loses its    *)
(* configuration.                                                          *)
(***************************************************************************)
BreakStreams == stream' = [m \in Mgrs |-> IF stream[m] = "live" THEN "broken" ELSE stream[m]]

ChanDown(c) ==
    /\ c \in chan
    /\ chan' = chan \ {c}
    /\ IF c = "ZYNQ" THEN BreakStreams ELSE UNCHANGED stream
    /\ \/ UNCHANGED <<dco, dcoCfg>>
       \/ c = "ZYNQ" /\ dco' = "INIT" /\ dcoCfg' = {}
    /\ UNCHANGED <<up, started, needSub, subEnable, link, cardVars, boardVars,
                   isConnected, gateVars, pollVars, synced>>

ChanUp(c) ==
    /\ c \notin chan
    /\ EarlyConnect \/ dco = "READY"
    /\ ShortOutage \/ (c \notin link /\ c \notin isConnected)
    /\ LateError \/ \A m \in Mgrs : stream[m] # "broken"
    /\ chan' = chan \cup {c}
    /\ UNCHANGED <<mgrVars, link, dco, cardVars, boardVars, isConnected, gateVars,
                   pollVars, histVars>>

DcoBoots ==
    /\ dco = "INIT"
    /\ dco' = "READY"
    /\ UNCHANGED <<mgrVars, chan, link, cardVars, boardVars, isConnected, gateVars,
                   pollVars, histVars>>

\* A stream that ends while its channel stays up.
StreamFails(m) ==
    /\ StreamBreak
    /\ stream[m] = "live"
    /\ stream' = [stream EXCEPT ![m] = "broken"]
    /\ UNCHANGED <<up, started, needSub, subEnable, envVars, cardVars, boardVars,
                   isConnected, gateVars, pollVars, histVars>>

StreamErrorCallback(m) ==
    /\ StreamError(m)
    /\ UNCHANGED <<envVars, cardVars, boardVars, isConnected, gateVars,
                   pollVars, histVars>>

\* DcoConnectMonitor::Poll of connection c samples the gRPC channel every second.
MonitorPoll(c) ==
    /\ (c \in link) # (c \in chan)
    /\ link' = IF c \in chan THEN link \cup {c} ELSE link \ {c}
    /\ UNCHANGED <<mgrVars, chan, dco, cardVars, boardVars, isConnected, gateVars,
                   pollVars, histVars>>
-----------------------------------------------------------------------------
(***************************************************************************)
(* The card adapter's cache and the collector thread that reads it.        *)
(***************************************************************************)
\* CardStateResponseContext: the card state stream reports the DCO's state; a
\* notification that does not carry it overwrites the cache with the default.
CardStateNotify ==
    /\ stream[Card] = "live"
    /\ notify' = dco \/ (PartialNotify /\ notify' = "UNSPEC")
    /\ UNCHANGED <<mgrVars, envVars, cardPowerUp, dcoState, colMode, cardState, boardVars,
                   isConnected, gateVars, pollVars, histVars>>

\* A new card state has no sync_ready; whether Redis replaces an object of that
\* name or merges the new one into it is left open.
CreateCardState ==
    /\ ~cardState
    /\ cardState' = TRUE
    /\ published' \in {FALSE, published}

\* createCard: the card's configuration arrives, from the agent or in a resync.
CardConfig ==
    /\ initDone
    /\ CreateCardState
    /\ UNCHANGED <<mgrVars, envVars, cardPowerUp, notify, dcoState, colMode, boardVars,
                   isConnected, syncReady, own, pollVars, histVars>>

\* getCardStateObj(): a gRPC read, which needs the channel; it fills the cache.
ReadCardState ==
    /\ "ZYNQ" \in chan
    /\ notify' = dco
    /\ cardPowerUp' = (cardPowerUp \/ dco = "READY")

\* Mutant: the collector goes on reading after the connection was lost.
CollectWhileDown ==
    /\ colMode = "high"
    /\ IF cardPowerUp
       THEN dcoState' = notify /\ UNCHANGED <<cardPowerUp, notify>>
       ELSE ReadCardState /\ dcoState' = notify'
    /\ UNCHANGED <<mgrVars, envVars, colMode, cardState, boardVars, isConnected, gateVars,
                   pollVars, histVars>>

(***************************************************************************)
(* collectCardStatus / getAndUpdateCardStatus, under mCardDataMtx.  A pass *)
(* that has to create the card state does nothing else; afterwards, once   *)
(* mCardPowerUp is set the status comes from the cache, not from the DCO.  *)
(***************************************************************************)
CollectCardStatus ==
    /\ colMode = "high"
    /\ MgrUp(Card)
    /\ \/ CreateCardState /\ UNCHANGED <<cardPowerUp, notify, dcoState>>
       \/ /\ cardState
          /\ IF cardPowerUp
             THEN dcoState' = notify /\ UNCHANGED <<cardPowerUp, notify>>
             ELSE ReadCardState /\ dcoState' = notify'
          /\ UNCHANGED <<cardState, published>>
    /\ UNCHANGED <<mgrVars, envVars, colMode, boardVars, isConnected, syncReady, own,
                   pollVars, histVars>>

\* CardStateCollector::isDcoSyncReady; its CLI override stays at "no override".
IsDcoSyncReady == dcoState = "READY"
-----------------------------------------------------------------------------
(***************************************************************************)
(* DataPlaneMgr's callbacks.  The poll thread holds mDpMgrMtx from         *)
(* its first connection to the end of an iteration.                        *)
(***************************************************************************)
MtxFree == pc \in {"sleep", "high"} \/ (pc = "low" /\ conn = "ZYNQ")

\* Run() returned: the onResync callbacks are complete.
OnResyncDone ==
    /\ ~resyncDone
    /\ resyncDone' = TRUE
    /\ UNCHANGED <<mgrVars, envVars, cardVars, powerMode, cardPowerMode, brdInitDone,
                   initDone, isConnected, gateVars, pollVars, histVars>>

\* Mutant: only the change to ready is published.
PublishReadyOnly(v) ==
    IF cardState /\ v THEN published' = v /\ own' = TRUE ELSE UNCHANGED <<published, own>>

\* setCardStateSyncReady: sync_ready goes to Redis with the card state, if there is one.
Publish(v) ==
    IF cardState THEN published' = v /\ own' = TRUE ELSE UNCHANGED <<published, own>>

(***************************************************************************)
(* handleBoardInitStateUpdate and initializeDpMgr.  Every complete message *)
(* publishes SyncReady = false, also when the init was done before.        *)
(***************************************************************************)
BoardInit(pm, complete) ==
    /\ MtxFree
    /\ RepeatInit \/ ~brdInitDone
    /\ powerMode' = pm
    /\ IF complete
       THEN /\ Publish(FALSE)
            /\ cardPowerMode' = pm
            /\ brdInitDone' = TRUE
            /\ initDone' = (initDone \/ pm # "LOW")
       ELSE UNCHANGED <<published, own, cardPowerMode, brdInitDone, initDone>>
    /\ UNCHANGED <<mgrVars, envVars, cardVars, resyncDone, isConnected, syncReady,
                   pollVars, histVars>>

-----------------------------------------------------------------------------
(***************************************************************************)
(* The poll thread, PollConnectUpdates.  pc is the step it is about to     *)
(* take: conn examines a connection, close publishes that SyncReady was    *)
(* cleared, down tells a manager that `conn' was lost, check compares the  *)
(* DCO with SyncReady, notify, sync, set and publish bring SyncReady up.   *)
(***************************************************************************)
\* Mutant: the collector keeps the DCO state when the card's connection drops.
TellMgrKeepsState(m, c, v) ==
    LET subscribes == m = Card => cardPowerMode # "LOW"
        u == UpAfter(m, c, v)
    IN  /\ UpdateDcoConnection(m, c, v, "ZYNQ" \in chan, subscribes)
        /\ colMode' = IF m = Card /\ Card \notin started /\ u = Conns
                      THEN IF subscribes THEN "high" ELSE "low"
                      ELSE colMode
        /\ UNCHANGED <<cardPowerUp, notify, dcoState, cardState>>

\* updateDcoConnection of manager m, and what the card manager's collector and
\* power mode make of it: a lost connection forgets the DCO state.
TellMgr(m, c, v) ==
    LET subscribes == m = Card => cardPowerMode # "LOW"
        u == UpAfter(m, c, v)
    IN  /\ UpdateDcoConnection(m, c, v, "ZYNQ" \in chan, subscribes)
        /\ dcoState' = IF m = Card /\ MgrUp(Card) /\ u # Conns THEN "UNSPEC" ELSE dcoState
        /\ colMode' = IF m = Card /\ Card \notin started /\ u = Conns
                      THEN IF subscribes THEN "high" ELSE "low"
                      ELSE colMode
        /\ UNCHANGED <<cardPowerUp, notify, cardState>>

(***************************************************************************)
(* setSyncReady changes the flag, which handleConfig reads from then on;   *)
(* the change is published by a later step, for which it has to wait for   *)
(* the collector's mCardDataMtx.  No change, nothing to publish.           *)
(***************************************************************************)
SetSyncReady(v) ==
    /\ syncReady' = v
    /\ synced' = IF v THEN synced ELSE {}
    /\ UNCHANGED <<published, own>>

Goto(step) == pc' = step /\ UNCHANGED <<conn, mgr, rdy>>

\* The loop's test of the power mode and the init flags, before the lock.
PollBegin ==
    /\ pc = "sleep"
    /\ \/ powerMode = "LOW" /\ brdInitDone /\ pc' = "low"
       \/ ~(powerMode = "LOW" /\ brdInitDone) /\ initDone /\ resyncDone /\ pc' = "high"
    /\ conn' = "ZYNQ"
    /\ UNCHANGED <<mgr, rdy, mgrVars, envVars, cardVars, boardVars, isConnected,
                   gateVars, histVars>>

PollLock ==
    /\ pc = "high"
    /\ Goto("conn")
    /\ UNCHANGED <<mgrVars, envVars, cardVars, boardVars, isConnected, gateVars,
                   histVars>>

\* HndlConnectChgLowPwr: only the card manager hears of a change.
PollLowPower ==
    /\ pc = "low"
    /\ IF (conn \in link) # (conn \in isConnected)
       THEN TellMgr(Card, conn, conn \in link)
       ELSE UNCHANGED <<mgrVars, cardVars>>
    /\ isConnected' = (isConnected \ {conn}) \cup ({conn} \cap link)
    /\ IF conn = "ZYNQ" THEN conn' = "NXP" /\ UNCHANGED <<pc, mgr, rdy>>
                        ELSE Goto("sleep")
    /\ UNCHANGED <<envVars, boardVars, gateVars, histVars>>

NextConn ==
    IF conn = "ZYNQ" THEN pc' = "conn" /\ conn' = "NXP" /\ UNCHANGED <<mgr, rdy>>
                     ELSE Goto("check")

\* Mutant: the card manager is not told.
ConnUpUntold ==
    /\ pc = "conn" /\ conn \in link
    /\ isConnected' = isConnected \cup {conn}
    /\ NextConn
    /\ UNCHANGED <<mgrVars, cardVars, envVars, boardVars, gateVars, histVars>>

\* A connection coming up: the card manager is told.
PollConnUp ==
    /\ pc = "conn" /\ conn \in link
    /\ IF conn \notin isConnected THEN TellMgr(Card, conn, TRUE)
                                  ELSE UNCHANGED <<mgrVars, cardVars>>
    /\ isConnected' = isConnected \cup {conn}
    /\ NextConn
    /\ UNCHANGED <<envVars, boardVars, gateVars, histVars>>

\* A connection that is still down.
PollConnStillDown ==
    /\ pc = "conn" /\ conn \notin link /\ conn \notin isConnected
    /\ NextConn
    /\ UNCHANGED <<mgrVars, envVars, cardVars, boardVars, isConnected, gateVars,
                   histVars>>

\* Mutant: SyncReady is left to the check at the end of the iteration.
ConnLostGateOpen ==
    /\ pc = "conn" /\ conn \notin link /\ conn \in isConnected
    /\ pc' = "down" /\ mgr' = Card
    /\ UNCHANGED <<conn, rdy, mgrVars, envVars, cardVars, boardVars, isConnected,
                   gateVars, histVars>>

\* A connection going down: SyncReady is cleared first, then every manager told.
PollConnLost ==
    /\ pc = "conn" /\ conn \notin link /\ conn \in isConnected
    /\ SetSyncReady(FALSE)
    /\ pc' = IF syncReady THEN "close" ELSE "down"
    /\ mgr' = Card
    /\ UNCHANGED <<conn, rdy, mgrVars, envVars, cardVars, boardVars, isConnected,
                   dcoCfg>>

PollPublishLost ==
    /\ pc = "close"
    /\ Publish(FALSE)
    /\ Goto("down")
    /\ UNCHANGED <<mgrVars, envVars, cardVars, boardVars, isConnected, syncReady,
                   histVars>>

PollTellDown ==
    /\ pc = "down"
    /\ TellMgr(mgr, conn, FALSE)
    /\ IF mgr < NumMgrs
       THEN mgr' = mgr + 1 /\ UNCHANGED <<pc, conn, rdy, isConnected>>
       ELSE /\ isConnected' = isConnected \ {conn}
            /\ NextConn
    /\ UNCHANGED <<envVars, boardVars, gateVars, histVars>>

\* The DCO's readiness against SyncReady; a sync needs both connections.
PollCheck ==
    /\ pc = "check"
    /\ rdy' = IsDcoSyncReady
    /\ pc' = CASE rdy' = syncReady -> "sleep"
               [] rdy' # syncReady /\ rdy' /\ isConnected = Conns -> "notify"
               [] OTHER -> "set"
    /\ conn' = "ZYNQ" /\ mgr' = Card
    /\ UNCHANGED <<mgrVars, envVars, cardVars, boardVars, isConnected, gateVars,
                   histVars>>

\* "Pushing update to ALL Object Mgrs": ZYNQ then NXP, manager by manager.
PollNotify ==
    /\ pc = "notify"
    /\ TellMgr(mgr, conn, TRUE)
    /\ CASE conn = "ZYNQ" -> conn' = "NXP" /\ UNCHANGED <<pc, mgr, rdy>>
         [] conn = "NXP" /\ mgr < NumMgrs ->
              conn' = "ZYNQ" /\ mgr' = mgr + 1 /\ UNCHANGED <<pc, rdy>>
         [] OTHER -> pc' = "sync" /\ mgr' = Card /\ UNCHANGED <<conn, rdy>>
    /\ UNCHANGED <<envVars, boardVars, isConnected, gateVars, histVars>>

\* Mutant: the loop goes one manager too far.
PollSyncPastEnd ==
    /\ pc = "sync"
    /\ synced' = synced \cup {mgr}
    /\ UNCHANGED dcoCfg
    /\ IF mgr <= NumMgrs THEN mgr' = mgr + 1 /\ UNCHANGED <<pc, conn, rdy>>
                         ELSE Goto("set")
    /\ UNCHANGED <<mgrVars, envVars, cardVars, boardVars, isConnected, gateVars>>

(***************************************************************************)
(* "Trigger SyncConfig for ALL Object Mgrs".  The DCO takes a manager's    *)
(* configuration if it is reachable and ready; a failed send is ignored.   *)
(***************************************************************************)
PollSync ==
    /\ pc = "sync"
    /\ synced' = synced \cup {mgr}
    /\ dcoCfg' = IF "ZYNQ" \in chan /\ dco = "READY" THEN dcoCfg \cup {mgr} ELSE dcoCfg
    /\ IF mgr < NumMgrs THEN mgr' = mgr + 1 /\ UNCHANGED <<pc, conn, rdy>>
                        ELSE Goto("set")
    /\ UNCHANGED <<mgrVars, envVars, cardVars, boardVars, isConnected, gateVars>>

PollSet ==
    /\ pc = "set"
    /\ SetSyncReady(rdy)
    /\ Goto("publish")
    /\ UNCHANGED <<mgrVars, envVars, cardVars, boardVars, isConnected, dcoCfg>>

\* Going up, the card state is first refreshed with a forced read of the DCO,
\* which fills the adapter's cache and may fail.
PollPublish ==
    /\ pc = "publish"
    /\ Publish(rdy)
    /\ (rdy /\ cardState /\ ReadCardState) \/ UNCHANGED <<cardPowerUp, notify>>
    /\ Goto("sleep")
    /\ UNCHANGED <<mgrVars, envVars, dcoState, colMode, cardState, boardVars, isConnected,
                   syncReady, histVars>>
-----------------------------------------------------------------------------
PollStep ==
    \/ PollBegin \/ PollLock \/ PollLowPower
    \/ PollConnUp \/ PollConnStillDown \/ PollConnLost \/ PollPublishLost \/ PollTellDown
    \/ PollCheck \/ PollNotify \/ PollSync \/ PollSet \/ PollPublish

Environment ==
    \/ \E c \in Conns : ChanDown(c) \/ ChanUp(c)
    \/ DcoBoots
    \/ \E m \in Mgrs : StreamFails(m)
    \/ \E pm \in PowerModes, complete \in BOOLEAN : BoardInit(pm, complete)

Next ==
    \/ PollStep
    \/ Environment
    \/ OnResyncDone
    \/ CardConfig
    \/ CollectCardStatus
    \/ CardStateNotify
    \/ \E c \in Conns : MonitorPoll(c)
    \/ \E m \in Mgrs : StreamErrorCallback(m)

Spec == Init /\ [][Next]_vars

(***************************************************************************)
(* The threads keep running: each wakes up every second (poll, monitors)   *)
(* or every five (collector), and gRPC delivers what it has to deliver.    *)
(***************************************************************************)
Fairness ==
    /\ WF_vars(PollStep)
    /\ WF_vars(CollectCardStatus)
    /\ WF_vars(CardStateNotify)
    /\ WF_vars(OnResyncDone)
    /\ \A c \in Conns : WF_vars(MonitorPoll(c))
    /\ \A m \in Mgrs : WF_vars(StreamErrorCallback(m))

FairSpec == Spec /\ Fairness
-----------------------------------------------------------------------------
(***************************************************************************)
(* SyncReadySound.  While mIsSyncReady is set (so that handleConfig lets   *)
(* configuration through), both connections are up as far as DataPlaneMgr  *)
(* knows, every manager was started, believes its connections up, and has  *)
(* pushed its cached configuration since SyncReady was last cleared.  The  *)
(* poll thread never reads the managers' state when it sets the flag: it   *)
(* relies on the card collector (another thread) having forgotten the DCO  *)
(* state the moment a connection was lost.                                 *)
(***************************************************************************)
SyncReadySound ==
    syncReady => /\ isConnected = Conns
                 /\ \A m \in Mgrs : MgrUp(m) /\ m \in started /\ m \in synced

(***************************************************************************)
(* DcoStateSound.  The collector remembers a DCO state only while the card *)
(* manager has both connections, whatever order its thread and the poll    *)
(* thread run in (CardStateCollector::setIsConnectionUp).                  *)
(***************************************************************************)
DcoStateSound == dcoState # "UNSPEC" => MgrUp(Card) /\ colMode = "high"

(***************************************************************************)
(* PublishedSound.  What the agent reads: once this process has published  *)
(* a sync_ready of its own (what an earlier life left in Redis stays until *)
(* then), Redis says ready only while every manager is started and still   *)
(* has its connections.  SyncReady itself may already be cleared, for the  *)
(* publication waits for the collector's mutex after the flag, but no      *)
(* manager is told of a loss, and no other iteration begins, before the    *)
(* agent could know.                                                       *)
(***************************************************************************)
PublishedSound ==
    own /\ published => /\ syncReady \/ pc \in {"close", "publish"}
                        /\ isConnected = Conns
                        /\ \A m \in Mgrs : MgrUp(m) /\ m \in started

(***************************************************************************)
(* SyncEffective.  Between two polls, with SyncReady set and no outage     *)
(* that the monitors and the poll thread have yet to notice, the DCO       *)
(* really holds the configuration of every manager: no restart of the DCO  *)
(* was missed and no sync was thrown away.                                 *)
(***************************************************************************)
Settled == chan = Conns /\ link = Conns /\ isConnected = Conns /\ pc = "sleep"

SyncEffective == Settled /\ syncReady => dcoCfg = Mgrs

(***************************************************************************)
(* SubscribedWhenReady.  In the same situation every manager's             *)
(* notification stream is open: the needSub / flag / callback protocol     *)
(* between updateDcoConnection and HandleSubResponse has lost none.        *)
(***************************************************************************)
SubscribedWhenReady ==
    Settled /\ syncReady => \A m \in Mgrs : stream[m] = "live"

(***************************************************************************)
(* ConfigReadyMeansConnected.  "Ensure the connection is ready and mgr is  *)
(* ready to receive and relay config" (checkConfigReadiness): between two  *)
(* polls, a manager that passes the check has the connections it needs.    *)
(***************************************************************************)
ConfigReady(m) == m \in started /\ MgrUp(m) /\ syncReady

ConfigReadyMeansConnected ==
    pc = "sleep" => \A m \in Mgrs : ConfigReady(m) => ConnsOf(m) \subseteq isConnected

(***************************************************************************)
(* PublishedAgrees.  Between two polls Redis shows the SyncReady that      *)
(* DataPlaneMgr uses, from the first time this process has published one.  *)
(***************************************************************************)
PublishedAgrees == own /\ pc = "sleep" => published = syncReady

(***************************************************************************)
(* EventuallySyncReady.  If from some time on the channels stay up, the    *)
(* DCO stays ready and the board stays initialised in high power, then     *)
(* SyncReady is eventually set for good, with every manager synced.        *)
(***************************************************************************)
Stable == chan = Conns /\ dco = "READY" /\ initDone /\ powerMode = "HIGH"

EventuallySyncReady == <>[]Stable => <>[](syncReady /\ published /\ synced = Mgrs)

\* The gate this thread implements for the configuration pipeline.
Gate == INSTANCE SyncGate WITH
    gate <- syncReady,
    state <- [m \in Mgrs |-> IF ~MgrUp(m) THEN "down"
                              ELSE IF m \in synced THEN "synced" ELSE "up"]

(***************************************************************************)
(* ImplementsGate.  Every behaviour of the poll thread is a behaviour of   *)
(* the abstract gate.                                                      *)
(***************************************************************************)
ImplementsGate == Gate!GateSpec
=============================================================================
