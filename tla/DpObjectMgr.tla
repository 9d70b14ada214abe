---------------------------- MODULE DpObjectMgr ----------------------------
(***************************************************************************)
(* The part every object manager (card, carrier, gige, otu, odu, xcon,     *)
(* gcc, peer discovery, key management) inherits from DpObjectMgr: what it *)
(* knows of its DCO connections, whether start() ran, and whether its DCO  *)
(* notification streams are subscribed.  The managers are 1 .. NumMgrs in  *)
(* the order of DataPlaneMgr::mvDpObjMgr; manager 1 is the card manager.   *)
(*                                                                         *)
(* The module defines the steps of one manager; DpSyncReady composes them  *)
(* with the thread that calls them.                                        *)
(***************************************************************************)
EXTENDS Integers

CONSTANTS
    NumMgrs,        \* number of managers in mvDpObjMgr
    BothConn,       \* managers bound to ZYNQ and NXP; the others to ZYNQ only
    SubOnZynq,      \* managers that override isSubscribeConnUp (card, carrier)
    SubFlagged      \* managers that override isSubEnabled with stream flags

Mgrs == 1 .. NumMgrs
Card == 1
Conns == {"ZYNQ", "NXP"}

ASSUME MgrAssumption ==
    /\ NumMgrs \in Nat \ {0}
    /\ BothConn \subseteq Mgrs /\ Card \in BothConn
    /\ SubOnZynq \subseteq BothConn /\ Card \in SubOnZynq
    /\ SubFlagged \subseteq Mgrs /\ Card \in SubFlagged

VARIABLES
    up,         \* mvIsConnectionUp: connections each manager believes are up
    started,    \* managers whose mIsStartCalled is set
    needSub,    \* managers whose mIsNeedSubscribe is set
    subEnable,  \* managers whose adapter's ...SubEnable flags are set
    stream      \* the gRPC notification stream itself: none, live or broken

mgrVars == <<up, started, needSub, subEnable, stream>>

MgrTypeOK ==
    /\ up \in [Mgrs -> SUBSET Conns]
    /\ started \subseteq Mgrs
    /\ needSub \subseteq Mgrs
    /\ subEnable \subseteq Mgrs
    /\ stream \in [Mgrs -> {"none", "live", "broken"}]

MgrInit ==
    /\ up = [m \in Mgrs |-> {}]
    /\ started = {}
    /\ needSub = Mgrs
    /\ subEnable = {}
    /\ stream = [m \in Mgrs |-> "none"]
-----------------------------------------------------------------------------
\* The connections of a manager's bit mask (mvDcoConnId).
ConnsOf(m) == IF m \in BothConn THEN Conns ELSE {"ZYNQ"}

\* mIsConnectionUp: the AND of the entries, recomputed whenever one changes.
MgrUp(m) == up[m] = ConnsOf(m)

\* The connections manager m believes are up once it is told that c is v.
UpAfter(m, c, v) == IF v THEN up[m] \cup ({c} \cap ConnsOf(m)) ELSE up[m] \ {c}

IsSubscribeConnUp(m, c, u) ==
    IF m \in SubOnZynq THEN c = "ZYNQ" /\ "ZYNQ" \in u ELSE u = ConnsOf(m)

IsSubEnabled(m) == m \in SubFlagged => m \in subEnable

(***************************************************************************)
(* subscribeStreams() of the adapter: opens only the streams whose flag is *)
(* off, and sets the flag whether or not the DCO is reachable.             *)
(***************************************************************************)
SubscribeStreams(m, reachable) ==
    IF m \in subEnable
    THEN UNCHANGED <<subEnable, stream>>
    ELSE /\ subEnable' = subEnable \cup {m}
         /\ stream' = [stream EXCEPT ![m] = IF reachable THEN "live" ELSE "broken"]

(***************************************************************************)
(* What a change of connection c makes of a manager that was started: it   *)
(* subscribes again if its subscription connection is up, and remembers to *)
(* if it is not.  `subscribes' is FALSE for the card manager in low power. *)
(***************************************************************************)
ReSubscribe(m, c, u, reachable, subscribes) ==
    /\ UNCHANGED started
    /\ IF ~IsSubscribeConnUp(m, c, u)
       THEN needSub' = needSub \cup {m} /\ UNCHANGED <<subEnable, stream>>
       ELSE /\ needSub' = needSub \ {m}
            /\ IF subscribes /\ (m \in needSub \/ ~IsSubEnabled(m))
               THEN SubscribeStreams(m, reachable)
               ELSE UNCHANGED <<subEnable, stream>>

\* start(): runs once, the first time all of the manager's connections are up.
Start(m, reachable, subscribes) ==
    /\ started' = started \cup {m}
    /\ needSub' = needSub \ {m}
    /\ IF subscribes THEN SubscribeStreams(m, reachable)
                     ELSE UNCHANGED <<subEnable, stream>>

(***************************************************************************)
(* updateDcoConnection(c, v), under the manager's mutex.  A call that      *)
(* changes nothing the manager knows has no effect.                        *)
(***************************************************************************)
UpdateDcoConnection(m, c, v, reachable, subscribes) ==
    LET u == UpAfter(m, c, v) IN
    IF u = up[m]
    THEN UNCHANGED mgrVars
    ELSE /\ up' = [up EXCEPT ![m] = u]
         /\ CASE m \in started -> ReSubscribe(m, c, u, reachable, subscribes)
              [] m \notin started /\ u = ConnsOf(m) -> Start(m, reachable, subscribes)
              [] OTHER -> UNCHANGED <<started, needSub, subEnable, stream>>

\* Mutant: the error callback leaves the flag set.
StreamErrorKeepsFlag(m) ==
    /\ stream[m] = "broken"
    /\ stream' = [stream EXCEPT ![m] = "none"]
    /\ UNCHANGED <<up, started, needSub, subEnable>>

(***************************************************************************)
(* A ...ResponseContext::HandleSubResponse called with an error status     *)
(* clears the adapter's flag; nothing in it subscribes again.              *)
(***************************************************************************)
StreamError(m) ==
    /\ stream[m] = "broken"
    /\ stream' = [stream EXCEPT ![m] = "none"]
    /\ subEnable' = subEnable \ {m}
    /\ UNCHANGED <<up, started, needSub>>
=============================================================================
