-------------------------- MODULE CarrierSecProc --------------------------
(***************************************************************************)
(* How the state of the carriers reaches the DCO security processor (NXP). *)
(* Two collector threads compare what the DCO reports with what they saw   *)
(* last and post events; one actor thread takes the events from the queue  *)
(* and sends them over gNMI; an OFEC that comes up is soaked by a timer    *)
(* whose callback, on a third thread, sends the "up".  A failed Set asks   *)
(* the collector to post again through a force flag.  The configuration    *)
(* thread creates and deletes carriers, at the security processor whatever *)
(* the DCO itself (ZYNQ) answers; the poll thread reports outages.         *)
(***************************************************************************)
EXTENDS InfnDeQueue, FiniteSets

CONSTANTS
    Bitmaps,        \* fault bitmaps of a carrier the runs tell apart
    OfecFaults,     \* those with an OFEC fault (BDI, LOF, OLOS, post-FEC Q)
    MaxChange,      \* bound: changes of the DCO's faults and Rx states
    MaxConf,        \* bound: carriers created
    MaxTrouble,     \* bound: restarts of the security processor, Sets that fail
                    \* although it is up, and requests the DCO refuses
    \* Named assumptions on the environment: FALSE excludes the behaviour.
    Overlap,        \* the actor may handle a carrier during its timer callback
    FastActor,      \* a Set may fail between the post and the clearing of force
    LateRx,         \* an Rx event may be on its way while its carrier is deleted
    RxFail,         \* an Rx Set may fail with the security processor up
    DeleteFail,     \* a delete Set may fail with the security processor up
    ShortOutage,    \* an outage may end before the poll thread has seen it
    GapOutage       \* one may end between the two halves of a deletion

ASSUME CarrierAssumption ==
    /\ OfecFaults \subseteq Bitmaps /\ "default" \notin Bitmaps
    /\ {MaxChange, MaxConf, MaxTrouble} \subseteq Nat
    /\ {Overlap, FastActor, LateRx, RxFail, DeleteFail, ShortOutage, GapOutage}
         \subseteq BOOLEAN

VARIABLES
    conf,       \* per carrier: absent, present, deleting (config thread), or
                \* kept: its deletion was refused, and it not created since
    bitmap,     \* what the DCO reports: the fault bitmap
    rx,         \* what the DCO reports: Rx acquired
    seenBitmap, \* mMapCarFacFaultBitmap
    seenRx,     \* rx_state in mMapCarState, none without an entry
    forceF,     \* carriers with mForceCarrFaultToNxp
    forceS,     \* carriers with mForceCarrStateToNxp
    clearing,   \* what the collector has posted and is about to clear, if any
    queue,      \* InfnDeQueue
    actor,      \* the event whose Set is under way, if any
    timer,      \* mOfecStatusTimerList: none, idle or running
    inCallback, \* carriers whose timer callback is under way
    collUp,     \* mIsConnectionUp of the collector
    toSync,     \* carriers the poll thread has yet to send after an outage
    nxpUp,      \* the security processor answers
    nxp,        \* its objects: the OFEC status and the carrier configuration
    last,       \* history: the last OFEC event the actor took, per carrier
    changes, confs, troubles

collVars  == <<seenBitmap, seenRx, clearing>>
forceVars == <<forceF, forceS>>
timerVars == <<timer, inCallback>>
linkVars  == <<collUp, toSync, nxpUp>>
dcoVars   == <<bitmap, rx>>
counters  == <<changes, confs, troubles>>
vars == <<conf, bitmap, rx, seenBitmap, seenRx, forceF, forceS, clearing, queue,
          actor, timer, inCallback, collUp, toSync, nxpUp, nxp, last,
          changes, confs, troubles>>

NoObject == [ofec |-> "none", cfg |-> FALSE, rx |-> "none"]
Objects == [ofec : {"none", "up", "down"}, cfg : BOOLEAN,
            rx : {"none", "active", "inactive"}]

TypeOK ==
    /\ conf \in [Carriers -> {"absent", "present", "deleting", "kept"}]
    /\ bitmap \in [Carriers -> Bitmaps] /\ rx \in [Carriers -> BOOLEAN]
    /\ seenBitmap \in [Carriers -> Bitmaps \cup {"default"}]
    /\ seenRx \in [Carriers -> {"none", "unspecified", "active", "inactive"}]
    /\ forceF \subseteq Carriers /\ forceS \subseteq Carriers
    /\ clearing \subseteq Keys /\ actor \subseteq Events
    /\ queue \in Seq(Events)
    /\ timer \in [Carriers -> {"none", "idle", "running"}]
    /\ inCallback \subseteq Carriers /\ toSync \subseteq Carriers
    /\ collUp \in BOOLEAN /\ nxpUp \in BOOLEAN
    /\ nxp \in [Carriers -> Objects]
    /\ last \in [Carriers -> {"none", "up", "down"}]
    /\ {changes, confs, troubles} \subseteq Nat

Init ==
    /\ conf = [c \in Carriers |-> "absent"]
    /\ bitmap \in [Carriers -> Bitmaps] /\ rx \in [Carriers -> BOOLEAN]
    /\ seenBitmap = [c \in Carriers |-> "default"]
    /\ seenRx = [c \in Carriers |-> "none"]
    /\ forceF = {} /\ forceS = {}
    /\ clearing = {} /\ actor = {} /\ queue = <<>>
    /\ timer = [c \in Carriers |-> "none"] /\ inCallback = {}
    /\ collUp = TRUE /\ nxpUp = TRUE /\ toSync = {}
    /\ nxp = [c \in Carriers |-> NoObject]
    /\ last = [c \in Carriers |-> "none"]
    /\ changes = 0 /\ confs = 0 /\ troubles = 0
-----------------------------------------------------------------------------
(* The security processor, as the Sets of this code use it.                *)

RxState(c) == IF rx[c] THEN "active" ELSE "inactive"
IsOfecUp(b) == b \notin OfecFaults

\* Mutant: an Rx that is not acquired is sent as the collector's default.
AfterSetDefault(obj, e) ==
    CASE e.kind = "rx" ->
            [obj EXCEPT !.cfg = TRUE, !.rx = IF e.val THEN "active" ELSE "unspecified"]
      [] e.kind = "delete" -> [obj EXCEPT !.ofec = "none"]
      [] OTHER -> [obj EXCEPT !.ofec = IF e.val THEN "up" ELSE "down"]

\* The object of c after the Set of event e; of a DELETE only OFEC goes.
AfterSet(obj, e) ==
    CASE e.kind = "rx" ->
            [obj EXCEPT !.cfg = TRUE, !.rx = IF e.val THEN "active" ELSE "inactive"]
      [] e.kind = "delete" -> [obj EXCEPT !.ofec = "none"]
      [] OTHER -> [obj EXCEPT !.ofec = IF e.val THEN "up" ELSE "down"]

\* mCarDataMtx is free: no collector is between its post and the clearing.
Unlocked == clearing = {}

\* The collector has its state, fault and PM objects (createCarrier).
HasObjects(c) == seenRx[c] # "none"

\* A Set that fails: with the processor down, or one of MaxTrouble others.
MayFail(allowed) == ~nxpUp \/ (allowed /\ troubles < MaxTrouble)
CountFail == troubles' = IF nxpUp THEN troubles + 1 ELSE troubles

\* The force flag of key k set now would be cleared although the event just
\* posted has already failed.
LosesForce(k) == k \in clearing /\ Queued(queue, k) = {}
-----------------------------------------------------------------------------
(* The DCO and the collector threads.                                      *)

DcoChange(c) ==
    /\ changes < MaxChange
    /\ \/ /\ \E b \in Bitmaps \ {bitmap[c]} : bitmap' = [bitmap EXCEPT ![c] = b]
          /\ UNCHANGED rx
       \/ rx' = [rx EXCEPT ![c] = ~rx[c]] /\ UNCHANGED bitmap
    /\ changes' = changes + 1
    /\ UNCHANGED <<conf, collVars, forceVars, queue, actor, timerVars, linkVars,
                   nxp, last, confs, troubles>>

\* One carrier of getAndUpdateCarrierFaults.  Without a fault object only the
\* bitmap and the flag are updated.  With nothing to clear the pass is over.
CollectFaults(c) ==
    /\ collUp /\ Unlocked
    /\ seenBitmap[c] # bitmap[c] \/ c \in forceF
    /\ seenBitmap' = [seenBitmap EXCEPT ![c] = bitmap[c]]
    /\ \/ /\ ~HasObjects(c)
          /\ forceF' = forceF \ {c}
          /\ UNCHANGED <<queue, clearing>>
       \/ /\ HasObjects(c)
          /\ queue' = EnQueue(queue, Event("update", c, IsOfecUp(bitmap[c])))
          /\ clearing' = {<<"ofec", c>>} \cap (Classes \X forceF)
          /\ UNCHANGED forceF
    /\ UNCHANGED <<conf, dcoVars, seenRx, forceS, actor, timerVars, linkVars,
                   nxp, last, counters>>

\* One carrier of getAndUpdateCarrierState.
CollectState(c) ==
    /\ collUp /\ Unlocked
    /\ HasObjects(c) /\ (LateRx \/ conf[c] # "deleting")
    /\ seenRx[c] # RxState(c) \/ c \in forceS
    /\ seenRx' = [seenRx EXCEPT ![c] = RxState(c)]
    /\ queue' = EnQueue(queue, Event("rx", c, rx[c]))
    /\ clearing' = {<<"rx", c>>} \cap (Classes \X forceS)
    /\ UNCHANGED <<conf, dcoVars, seenBitmap, forceVars, actor, timerVars,
                   linkVars, nxp, last, counters>>

\* The end of either pass: the flag that was found set is cleared.
ClearForce ==
    /\ clearing # {}
    /\ forceF' = forceF \ {c \in Carriers : <<"ofec", c>> \in clearing}
    /\ forceS' = forceS \ {c \in Carriers : <<"rx", c>> \in clearing}
    /\ clearing' = {}
    /\ UNCHANGED <<conf, dcoVars, seenBitmap, seenRx, queue, actor, timerVars,
                   linkVars, nxp, last, counters>>
-----------------------------------------------------------------------------
(* The actor thread and the soak timer.                                    *)

\* Mutant: a failed Set is logged and forgotten.
LogOnly(c) == c \in Carriers /\ UNCHANGED forceVars

\* SetForceCarrFaultToNxp and SetForceCarrStateToNxp, without the mutex.  The
\* second sets the fault flag as well.
SetForceCarrFaultToNxp(c) == forceF' = forceF \cup {c} /\ UNCHANGED forceS
SetForceCarrStateToNxp(c) == forceF' = forceF \cup {c} /\ UNCHANGED forceS

\* Mutants: a down does not stop the timer; a deletion does not.
StopsNever(e) == e \notin Events
StopsForDown(e) ==
    e.kind = "update" /\ timer[e.car] = "running" /\ e.car \notin inCallback

\* Cancel() only for a timer that runs and is not in its callback.
StopsTimer(e) == timer[e.car] = "running" /\ e.car \notin inCallback

\* DeQueue and the part of ImplementHandleMsg before the Set.  An OFEC that is
\* up only starts the timer; the others stop it unless its callback runs.
Take ==
    /\ actor = {} /\ queue # <<>>
    /\ LET e == Head(queue) IN
       /\ e.kind = "rx" \/ Overlap \/ e.car \notin inCallback
       /\ queue' = Tail(queue)
       /\ \/ /\ e.kind = "rx"
             /\ actor' = {e}
             /\ UNCHANGED <<timer, last>>
          \/ /\ e.kind = "update" /\ e.val
             /\ timer' = [timer EXCEPT ![e.car] = "running"]
             /\ last' = [last EXCEPT ![e.car] = "up"]
             /\ UNCHANGED actor
          \/ /\ e.kind # "rx" /\ ~e.val
             /\ timer' = IF StopsTimer(e) THEN [timer EXCEPT ![e.car] = "idle"]
                                          ELSE timer
             /\ last' = [last EXCEPT ![e.car] = "down"]
             /\ actor' = {e}
    /\ UNCHANGED <<conf, dcoVars, collVars, forceVars, inCallback, linkVars, nxp,
                   counters>>

\* The Set of the event under way succeeds.
SetDone ==
    /\ nxpUp
    /\ \E e \in actor : nxp' = [nxp EXCEPT ![e.car] = AfterSet(nxp[e.car], e)]
    /\ actor' = {}
    /\ UNCHANGED <<conf, dcoVars, collVars, forceVars, queue, timerVars, linkVars,
                   last, counters>>

\* It fails: the collector is asked to post the carrier's state again.
SetFails ==
    /\ \E e \in actor :
          /\ MayFail((e.kind = "rx" => RxFail) /\ (e.kind = "delete" => DeleteFail))
          /\ FastActor \/ ~LosesForce(KeyOf(e))
          /\ IF e.kind = "rx" THEN SetForceCarrStateToNxp(e.car)
                              ELSE SetForceCarrFaultToNxp(e.car)
    /\ CountFail
    /\ actor' = {}
    /\ UNCHANGED <<conf, dcoVars, collVars, queue, timerVars, linkVars, nxp, last,
                   changes, confs>>

\* OfecStatusSoakTimer::TimerExpired up to the Set, on the timer thread.
TimerExpired(c) ==
    /\ timer[c] = "running" /\ inCallback = {}
    /\ timer' = [timer EXCEPT ![c] = "idle"]
    /\ inCallback' = {c}
    /\ UNCHANGED <<conf, dcoVars, collVars, forceVars, queue, actor, linkVars, nxp,
                   last, counters>>

TimerSetDone(c) ==
    /\ c \in inCallback /\ nxpUp
    /\ nxp' = [nxp EXCEPT ![c].ofec = "up"]
    /\ inCallback' = inCallback \ {c}
    /\ UNCHANGED <<conf, dcoVars, collVars, forceVars, queue, actor, timer, linkVars,
                   last, counters>>

TimerSetFails(c) ==
    /\ c \in inCallback
    /\ MayFail(TRUE)
    /\ FastActor \/ ~LosesForce(<<"ofec", c>>)
    /\ SetForceCarrFaultToNxp(c)
    /\ CountFail
    /\ inCallback' = inCallback \ {c}
    /\ UNCHANGED <<conf, dcoVars, collVars, queue, actor, timer, linkVars, nxp, last,
                   changes, confs>>
-----------------------------------------------------------------------------
(* The configuration thread: it runs while SyncReady.                      *)

SyncReady == collUp /\ toSync = {}

\* processConfig of a CREATE: the Set of the security processor's carrier,
\* whose status is not looked at.
CreateConfig(c) ==
    /\ SyncReady
    /\ conf[c] \in {"absent", "kept"} /\ confs < MaxConf
    /\ confs' = confs + 1

\* The DCO accepted the carrier: createCarrier of the collector, which leaves
\* the objects it finds.
CreateCarrier(c) ==
    /\ CreateConfig(c) /\ Unlocked
    /\ \/ nxpUp /\ nxp' = [nxp EXCEPT ![c].cfg = TRUE] /\ UNCHANGED troubles
       \/ MayFail(TRUE) /\ CountFail /\ UNCHANGED nxp
    /\ conf' = [conf EXCEPT ![c] = "present"]
    /\ IF HasObjects(c)
         THEN UNCHANGED <<seenBitmap, seenRx>>
         ELSE /\ seenBitmap' = [seenBitmap EXCEPT ![c] = "default"]
              /\ seenRx' = [seenRx EXCEPT ![c] = "unspecified"]
    /\ forceF' = forceF \cup {c} /\ forceS' = forceS \cup {c}
    /\ UNCHANGED <<dcoVars, clearing, queue, actor, timerVars, linkVars, last,
                   changes>>

\* It refused: the carrier is cached, and the collector is not told.
CreateRefused(c) ==
    /\ CreateConfig(c) /\ troubles < MaxTrouble
    /\ \/ nxpUp /\ nxp' = [nxp EXCEPT ![c].cfg = TRUE]
       \/ UNCHANGED nxp
    /\ conf' = IF conf[c] = "absent" THEN [conf EXCEPT ![c] = "present"] ELSE conf
    /\ troubles' = troubles + 1
    /\ UNCHANGED <<dcoVars, collVars, forceVars, queue, actor, timerVars, linkVars,
                   last, changes>>

RxOnTheWay(c) ==
    \/ Queued(queue, <<"rx", c>>) # {}
    \/ \E e \in actor : KeyOf(e) = <<"rx", c>>
    \/ seenRx[c] # RxState(c) \/ c \in forceS

\* A carrier DELETE, first half: the configuration of the carrier is deleted
\* in the security processor, whatever the DCO answered (processConfig).
DeleteConfig(c) ==
    /\ SyncReady
    /\ conf[c] \in {"present", "kept"}
    /\ LateRx \/ ~RxOnTheWay(c)
    /\ conf' = [conf EXCEPT ![c] = "deleting"]
    /\ \/ nxpUp /\ nxp' = [nxp EXCEPT ![c].cfg = FALSE, ![c].rx = "none"]
                /\ UNCHANGED troubles
       \/ MayFail(DeleteFail) /\ CountFail /\ UNCHANGED nxp
    /\ UNCHANGED <<dcoVars, collVars, forceVars, queue, actor, timerVars, linkVars,
                   last, changes, confs>>

\* Second half (completeConfig), if the DCO accepted it: deleteCarrier of the
\* collector.
DeleteCarrier(c) ==
    /\ conf[c] = "deleting" /\ Unlocked
    /\ conf' = [conf EXCEPT ![c] = "absent"]
    /\ IF HasObjects(c)
         THEN /\ queue' = EnQueue(queue, Event("delete", c, FALSE))
              /\ seenBitmap' = [seenBitmap EXCEPT ![c] = "default"]
         ELSE UNCHANGED <<queue, seenBitmap>>
    /\ seenRx' = [seenRx EXCEPT ![c] = "none"]
    /\ forceF' = forceF \ {c} /\ forceS' = forceS \ {c}
    /\ UNCHANGED <<dcoVars, clearing, actor, timerVars, linkVars, nxp, last, counters>>

\* If it refused: the carrier stays cached, and the collector is not told what
\* the security processor no longer has.
DeleteRefused(c) ==
    /\ conf[c] = "deleting" /\ troubles < MaxTrouble
    /\ conf' = [conf EXCEPT ![c] = "kept"]
    /\ troubles' = troubles + 1
    /\ UNCHANGED <<dcoVars, collVars, forceVars, queue, actor, timerVars, linkVars, nxp,
                   last, changes, confs>>
-----------------------------------------------------------------------------
(* Outages of the security processor, and the poll thread.                 *)

\* It restarts and loses its objects.
NxpDown ==
    /\ nxpUp /\ troubles < MaxTrouble
    /\ nxpUp' = FALSE
    /\ nxp' = [c \in Carriers |-> NoObject]
    /\ troubles' = troubles + 1
    /\ UNCHANGED <<conf, dcoVars, collVars, forceVars, queue, actor, timerVars,
                   collUp, toSync, last, changes, confs>>

NxpBack ==
    /\ ~nxpUp
    /\ ShortOutage \/ ~collUp
    /\ nxpUp' = TRUE
    /\ UNCHANGED <<conf, dcoVars, collVars, forceVars, queue, actor, timerVars,
                   collUp, toSync, nxp, last, counters>>

\* Mutants: a new connection asks for the Rx states only; for the faults only.
ForceStates == forceS' = Carriers /\ UNCHANGED forceF
ForceFaults == forceF' = Carriers /\ UNCHANGED forceS

\* Everything is reported again: the flags of every carrier with a PM object.
ForceAll == forceF' = Carriers /\ forceS' = Carriers

\* connectionUpdate: setIsConnectionUp of the collector, under its mutex.
SetIsConnectionUp ==
    /\ Unlocked /\ collUp # nxpUp
    /\ GapOutage \/ "deleting" \notin {conf[c] : c \in Carriers}
    /\ collUp' = nxpUp
    /\ IF nxpUp
         THEN /\ ForceAll
              /\ toSync' = {c \in Carriers : conf[c] # "absent"}
         ELSE /\ toSync' = {}
              /\ UNCHANGED forceVars
    /\ UNCHANGED <<conf, dcoVars, collVars, queue, actor, timerVars, nxpUp, nxp, last,
                   counters>>

\* syncConfig sends the cached configuration of c again.
SyncConfig(c) ==
    /\ c \in toSync
    /\ toSync' = toSync \ {c}
    /\ nxp' = IF nxpUp /\ conf[c] # "absent" THEN [nxp EXCEPT ![c].cfg = TRUE] ELSE nxp
    /\ UNCHANGED <<conf, dcoVars, collVars, forceVars, queue, actor, timerVars, collUp,
                   nxpUp, last, counters>>
-----------------------------------------------------------------------------
Next ==
    \/ \E c \in Carriers :
         \/ DcoChange(c) \/ CollectFaults(c) \/ CollectState(c)
         \/ TimerExpired(c) \/ TimerSetDone(c) \/ TimerSetFails(c)
         \/ CreateCarrier(c) \/ CreateRefused(c)
         \/ DeleteConfig(c) \/ DeleteCarrier(c) \/ DeleteRefused(c)
         \/ SyncConfig(c)
    \/ ClearForce \/ Take \/ SetDone \/ SetFails
    \/ NxpDown \/ NxpBack \/ SetIsConnectionUp

Spec == Init /\ [][Next]_vars

\* The threads keep running and a Set returns.  The poll thread gets the mutex
\* the collectors hold for a part of every second.
FairSpec ==
    /\ Spec
    /\ WF_vars(ClearForce) /\ WF_vars(Take) /\ WF_vars(SetDone \/ SetFails)
    /\ SF_vars(SetIsConnectionUp)
    /\ \A c \in Carriers :
         /\ SF_vars(CollectFaults(c)) /\ SF_vars(CollectState(c))
         /\ WF_vars(TimerExpired(c)) /\ WF_vars(TimerSetDone(c) \/ TimerSetFails(c))
         /\ SF_vars(DeleteCarrier(c) \/ DeleteRefused(c)) /\ WF_vars(SyncConfig(c))
-----------------------------------------------------------------------------
(* Properties.                                                             *)

Waiting(c) == \E k \in Classes : Queued(queue, <<k, c>>) # {}

(***************************************************************************)
(* UpOnlyAfterUp.  The soak of an OFEC status that comes up: the security  *)
(* processor is told "up" only while the last OFEC event the actor took    *)
(* for the carrier was an up; a down or a deletion taken in between stops  *)
(* the timer (UpdateCarrierConfig, TimerExpired).                          *)
(***************************************************************************)
UpOnlyAfterUp ==
    [][\A c \in Carriers :
          nxp'[c].ofec = "up" /\ nxp[c].ofec # "up" => last[c] = "up"]_vars

(***************************************************************************)
(* NoNewsIsNoDifference.  What the collector believes it has reported is   *)
(* reported or on its way: for a configured carrier it has objects for,    *)
(* whose fault bitmap has been seen, with no flag set, no event waiting,   *)
(* no Set and no timer under way, the security processor shows the OFEC    *)
(* status of that bitmap; and the Rx state seen last, unless a deletion    *)
(* that the DCO refused took it away, after which nothing sends it again   *)
(* before the next create, change or outage.  (The force flags, the        *)
(* queue's replacement rule and the timer together; apart from that, only  *)
(* an outage the poll thread has not yet reported excuses a difference.)   *)
(***************************************************************************)
Quiet(c) ==
    /\ ~Waiting(c) /\ \A e \in actor : e.car # c
    /\ timer[c] # "running" /\ c \notin inCallback

\* Configured, and the collector was told.
Reported(c) == conf[c] \in {"present", "kept"} /\ HasObjects(c)

NoNewsIsNoDifference ==
    \A c \in Carriers :
        Reported(c) /\ collUp /\ nxpUp /\ Quiet(c) =>
            /\ c \notin forceF /\ seenBitmap[c] # "default" =>
                   nxp[c].ofec = (IF IsOfecUp(seenBitmap[c]) THEN "up" ELSE "down")
            /\ c \notin forceS /\ seenRx[c] # "unspecified" /\ conf[c] # "kept" =>
                   nxp[c].rx = seenRx[c]

(***************************************************************************)
(* OfecConverges.  However the faults change and the Sets fail, the OFEC   *)
(* status of every carrier that stays configured ends as the DCO reports   *)
(* it ("to resend information", SetForceCarrFaultToNxp), once the DCO has  *)
(* accepted the carrier.                                                   *)
(***************************************************************************)
OfecConverges ==
    <>[](nxpUp => \A c \in Carriers : Reported(c) =>
            nxp[c].ofec = (IF IsOfecUp(bitmap[c]) THEN "up" ELSE "down"))

(***************************************************************************)
(* RxConverges.  So does the Rx state, after any outage and any failed Set *)
(* of an OFEC status, but for a carrier whose deletion was refused.  It    *)
(* needs RxFail = FALSE: "the force sending of carrier state data to NXP   *)
(* (is set to TRUE if GNMi SET fails or ...)" is not what the code does.   *)
(***************************************************************************)
RxConverges ==
    <>[](nxpUp => \A c \in Carriers : Reported(c) /\ conf[c] # "kept" =>
            nxp[c].rx = RxState(c))

(***************************************************************************)
(* DeletedIsGone.  Nothing of a deleted carrier stays in the security      *)
(* processor: neither an OFEC update nor the soak timer nor an outage puts *)
(* back what the deletion removed.                                         *)
(***************************************************************************)
DeletedIsGone ==
    <>[](\A c \in Carriers : conf[c] = "absent" => nxp[c] = NoObject)

\* The mailbox the event queue and the actor implement.
Box == INSTANCE LatestEvent WITH
    KeyFn <- KeyOf,
    place <- [k \in Keys |-> Queued(queue, k)],
    reading <- actor

(***************************************************************************)
(* LatestEventFirst.  The queue is a mailbox: per carrier and class one    *)
(* event waits, the latest posted, and it leaves only for the actor.       *)
(***************************************************************************)
LatestEventFirst == Box!BoxSpec
=============================================================================
