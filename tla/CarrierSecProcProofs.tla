------------------------ MODULE CarrierSecProcProofs ------------------------
(***************************************************************************)
(* Proofs about CarrierSecProc for any set of carriers, any fault bitmaps  *)
(* and any number of changes, outages and failing Sets: the security       *)
(* processor is told "up" only by a soak timer that no later down event    *)
(* should have stopped, and a carrier of which nothing is on its way shows *)
(* there what the collectors saw last.                                     *)
(***************************************************************************)
EXTENDS CarrierSecProc, CarrierQueueProofs, TLAPS

(***************************************************************************)
(* The inductive invariant.  That a timer which runs, or whose callback is *)
(* under way, belongs to a carrier last seen up is what the Cancel() of a  *)
(* down event maintains; that a Set of the actor never says "up" is why    *)
(* the timer is the only way to it.  The queue needs no part of it: the    *)
(* argument holds for whatever events the actor finds there.               *)
(***************************************************************************)
SoakTypeOK ==
    /\ timer \in [Carriers -> {"none", "idle", "running"}]
    /\ nxp \in [Carriers -> Objects]
    /\ last \in [Carriers -> {"none", "up", "down"}]
    /\ inCallback \subseteq Carriers

ActorNeverUp == \A e \in actor : e.kind \notin {"rx", "delete"} => ~e.val

TimerMeansUp ==
    \A c \in Carriers : timer[c] = "running" \/ c \in inCallback => last[c] = "up"

IInv == SoakTypeOK /\ ActorNeverUp /\ TimerMeansUp

\* What one step has to show besides the invariant.
UpIsLast ==
    \A c \in Carriers : nxp'[c].ofec = "up" /\ nxp[c].ofec # "up" => last[c] = "up"

soakVars == <<timer, nxp, last, inCallback, actor>>
-----------------------------------------------------------------------------
LEMMA IInvInit == Init => IInv
  BY DEF Init, IInv, SoakTypeOK, ActorNeverUp, TimerMeansUp, NoObject, Objects

(***************************************************************************)
(* A step that leaves the soak alone preserves everything.                 *)
(***************************************************************************)
LEMMA SoakFrame ==
    ASSUME IInv, UNCHANGED soakVars PROVE IInv' /\ UpIsLast
  BY DEF IInv, SoakTypeOK, ActorNeverUp, TimerMeansUp, UpIsLast, soakVars

(***************************************************************************)
(* A step that only replaces the processor's objects, none by one with an  *)
(* OFEC that was not up before.                                            *)
(***************************************************************************)
LEMMA ObjectsFrame ==
    ASSUME IInv, UNCHANGED <<timer, last, inCallback>>,
           nxp' \in [Carriers -> Objects], actor' \subseteq actor,
           \A c \in Carriers : nxp'[c].ofec = "up" => nxp[c].ofec = "up"
    PROVE  IInv' /\ UpIsLast
<1>1. SoakTypeOK' /\ TimerMeansUp'
  BY DEF IInv, SoakTypeOK, TimerMeansUp
<1>2. ActorNeverUp'
  BY DEF IInv, ActorNeverUp
<1>3. UpIsLast
  BY DEF UpIsLast
<1> QED
  BY <1>1, <1>2, <1>3 DEF IInv

(***************************************************************************)
(* The Set of an event the actor holds leaves an object, with an OFEC that *)
(* is up only if it was.                                                   *)
(***************************************************************************)
LEMMA AfterSetOfec ==
    ASSUME NEW obj \in Objects, NEW e, e.kind \notin {"rx", "delete"} => ~e.val
    PROVE  /\ AfterSet(obj, e) \in Objects
           /\ AfterSet(obj, e).ofec = "up" => obj.ofec = "up"
<1>1. CASE e.kind = "rx"
  <2>1. AfterSet(obj, e) = [obj EXCEPT !.cfg = TRUE,
                                       !.rx = IF e.val THEN "active" ELSE "inactive"]
    BY <1>1 DEF AfterSet
  <2> QED
    BY <2>1 DEF Objects
<1>2. CASE e.kind = "delete"
  <2>1. AfterSet(obj, e) = [obj EXCEPT !.ofec = "none"]
    BY <1>2 DEF AfterSet
  <2> QED
    BY <2>1 DEF Objects
<1>3. CASE e.kind \notin {"rx", "delete"}
  <2>1. AfterSet(obj, e) = [obj EXCEPT !.ofec = IF e.val THEN "up" ELSE "down"]
    BY <1>3 DEF AfterSet
  <2>2. AfterSet(obj, e) = [obj EXCEPT !.ofec = "down"]
    BY <1>3, <2>1
  <2> QED
    BY <2>2 DEF Objects
<1> QED
  BY <1>1, <1>2, <1>3
-----------------------------------------------------------------------------
(***************************************************************************)
(* The actor takes an event.                                               *)
(***************************************************************************)
LEMMA TakeSoak ==
    ASSUME IInv, Take, Overlap = FALSE PROVE IInv' /\ UpIsLast
<1> DEFINE e == Head(queue)
<1>0. /\ UNCHANGED <<nxp, inCallback>>
      /\ e.kind = "rx" \/ e.car \notin inCallback
  BY DEF Take
<1>1. UpIsLast
  BY <1>0 DEF UpIsLast
<1>2. CASE e.kind = "rx" /\ actor' = {e} /\ UNCHANGED <<timer, last>>
  BY <1>0, <1>2 DEF IInv, SoakTypeOK, ActorNeverUp, TimerMeansUp, UpIsLast
<1>3. CASE /\ timer' = [timer EXCEPT ![e.car] = "running"]
           /\ last' = [last EXCEPT ![e.car] = "up"]
           /\ UNCHANGED actor
  <2>1. SoakTypeOK'
    BY <1>0, <1>3 DEF IInv, SoakTypeOK
  <2>2. ActorNeverUp'
    BY <1>3 DEF IInv, ActorNeverUp
  <2>3. TimerMeansUp'
    BY <1>0, <1>3 DEF IInv, SoakTypeOK, TimerMeansUp
  <2> QED
    BY <1>1, <2>1, <2>2, <2>3 DEF IInv
<1>4. CASE /\ e.kind # "rx" /\ ~e.val
           /\ timer' = IF StopsTimer(e) THEN [timer EXCEPT ![e.car] = "idle"]
                                        ELSE timer
           /\ last' = [last EXCEPT ![e.car] = "down"]
           /\ actor' = {e}
  <2>1. SoakTypeOK'
    BY <1>0, <1>4 DEF IInv, SoakTypeOK
  <2>2. ActorNeverUp'
    BY <1>4 DEF ActorNeverUp
  <2>3. e.car \in Carriers => timer'[e.car] # "running"
    BY <1>0, <1>4 DEF IInv, SoakTypeOK, StopsTimer
  <2>4. \A c \in Carriers : c # e.car => timer'[c] = timer[c] /\ last'[c] = last[c]
    BY <1>4 DEF IInv, SoakTypeOK
  <2>5. TimerMeansUp'
    BY <1>0, <1>4, <2>3, <2>4 DEF IInv, TimerMeansUp
  <2> QED
    BY <1>1, <2>1, <2>2, <2>5 DEF IInv
<1> QED
  BY <1>2, <1>3, <1>4 DEF Take

LEMMA SetDoneSoak == ASSUME IInv, SetDone PROVE IInv' /\ UpIsLast
<1>1. PICK e \in actor : nxp' = [nxp EXCEPT ![e.car] = AfterSet(nxp[e.car], e)]
  BY DEF SetDone
<1>2. UNCHANGED <<timer, last, inCallback>> /\ actor' \subseteq actor
  BY DEF SetDone, timerVars
<1>3. e.kind \notin {"rx", "delete"} => ~e.val
  BY DEF IInv, ActorNeverUp
<1>4. e.car \in Carriers => /\ AfterSet(nxp[e.car], e) \in Objects
                            /\ AfterSet(nxp[e.car], e).ofec = "up" => nxp[e.car].ofec = "up"
  BY <1>3, AfterSetOfec DEF IInv, SoakTypeOK
<1>5. nxp' \in [Carriers -> Objects]
  BY <1>1, <1>4 DEF IInv, SoakTypeOK
<1>6. \A c \in Carriers : nxp'[c].ofec = "up" => nxp[c].ofec = "up"
  BY <1>1, <1>4 DEF IInv, SoakTypeOK
<1> QED
  BY <1>2, <1>5, <1>6, ObjectsFrame

(***************************************************************************)
(* The timer expires, and its callback sends the "up".                     *)
(***************************************************************************)
LEMMA TimerExpiredSoak ==
    ASSUME IInv, NEW c \in Carriers, TimerExpired(c) PROVE IInv' /\ UpIsLast
<1>1. /\ timer[c] = "running" /\ inCallback = {}
      /\ timer' = [timer EXCEPT ![c] = "idle"] /\ inCallback' = {c}
      /\ UNCHANGED <<actor, nxp, last>>
  BY DEF TimerExpired
<1>2. SoakTypeOK' /\ ActorNeverUp' /\ UpIsLast
  BY <1>1 DEF IInv, SoakTypeOK, ActorNeverUp, UpIsLast
<1>3. TimerMeansUp'
  BY <1>1 DEF IInv, SoakTypeOK, TimerMeansUp
<1> QED
  BY <1>2, <1>3 DEF IInv

LEMMA TimerSetDoneSoak ==
    ASSUME IInv, NEW c \in Carriers, TimerSetDone(c) PROVE IInv' /\ UpIsLast
<1>1. /\ c \in inCallback
      /\ nxp' = [nxp EXCEPT ![c].ofec = "up"]
      /\ inCallback' = inCallback \ {c}
      /\ UNCHANGED <<timer, actor, last>>
  BY DEF TimerSetDone
<1>2. last[c] = "up"
  BY <1>1 DEF IInv, TimerMeansUp
<1>3. [nxp[c] EXCEPT !.ofec = "up"] \in Objects
  BY DEF IInv, SoakTypeOK, Objects
<1>4. SoakTypeOK'
  BY <1>1, <1>3 DEF IInv, SoakTypeOK
<1>5. \A d \in Carriers : d # c => nxp'[d] = nxp[d]
  BY <1>1 DEF IInv, SoakTypeOK
<1>6. UpIsLast
  BY <1>2, <1>5 DEF UpIsLast
<1>7. ActorNeverUp' /\ TimerMeansUp'
  BY <1>1 DEF IInv, ActorNeverUp, TimerMeansUp
<1> QED
  BY <1>4, <1>6, <1>7 DEF IInv

LEMMA TimerSetFailsSoak ==
    ASSUME IInv, NEW c \in Carriers, TimerSetFails(c) PROVE IInv' /\ UpIsLast
  BY DEF TimerSetFails, IInv, SoakTypeOK, ActorNeverUp, TimerMeansUp, UpIsLast

(***************************************************************************)
(* The configuration thread, the poll thread and the outages.              *)
(***************************************************************************)
LEMMA ConfigSoak ==
    ASSUME IInv, NEW c \in Carriers,
           CreateCarrier(c) \/ CreateRefused(c) \/ DeleteConfig(c) \/ SyncConfig(c)
    PROVE  IInv' /\ UpIsLast
<1>1. UNCHANGED <<timer, last, inCallback>> /\ actor' \subseteq actor
  BY DEF CreateCarrier, CreateRefused, DeleteConfig, SyncConfig, timerVars
<1>2. nxp[c] \in Objects
  BY DEF IInv, SoakTypeOK
<1>3. /\ [nxp[c] EXCEPT !.cfg = TRUE] \in Objects
      /\ [nxp[c] EXCEPT !.cfg = TRUE].ofec = nxp[c].ofec
      /\ [nxp[c] EXCEPT !.cfg = FALSE, !.rx = "none"] \in Objects
      /\ [nxp[c] EXCEPT !.cfg = FALSE, !.rx = "none"].ofec = nxp[c].ofec
  BY <1>2 DEF Objects
<1>4. \/ nxp' = nxp
      \/ nxp' = [nxp EXCEPT ![c] = [nxp[c] EXCEPT !.cfg = TRUE]]
      \/ nxp' = [nxp EXCEPT ![c] = [nxp[c] EXCEPT !.cfg = FALSE, !.rx = "none"]]
  BY DEF CreateCarrier, CreateRefused, DeleteConfig, SyncConfig, IInv, SoakTypeOK
<1>5. nxp' \in [Carriers -> Objects]
  BY <1>3, <1>4 DEF IInv, SoakTypeOK
<1>6. \A d \in Carriers : nxp'[d].ofec = nxp[d].ofec
  BY <1>3, <1>4 DEF IInv, SoakTypeOK
<1> QED
  BY <1>1, <1>5, <1>6, ObjectsFrame

LEMMA NxpDownSoak == ASSUME IInv, NxpDown PROVE IInv' /\ UpIsLast
<1>1. UNCHANGED <<timer, last, inCallback>> /\ actor' \subseteq actor
  BY DEF NxpDown, timerVars
<1>2. nxp' = [c \in Carriers |-> NoObject]
  BY DEF NxpDown
<1>3. nxp' \in [Carriers -> Objects] /\ \A c \in Carriers : nxp'[c].ofec # "up"
  BY <1>2 DEF NoObject, Objects
<1> QED
  BY <1>1, <1>3, ObjectsFrame

LEMMA NextSoak ==
    ASSUME IInv, [Next]_vars, Overlap = FALSE PROVE IInv' /\ UpIsLast
<1>1. CASE Take
  BY <1>1, TakeSoak
<1>2. CASE SetDone
  BY <1>2, SetDoneSoak
<1>3. CASE \E c \in Carriers : TimerExpired(c)
  BY <1>3, TimerExpiredSoak
<1>4. CASE \E c \in Carriers : TimerSetDone(c)
  BY <1>4, TimerSetDoneSoak
<1>5. CASE \E c \in Carriers : TimerSetFails(c)
  BY <1>5, TimerSetFailsSoak
<1>6. CASE \E c \in Carriers : \/ CreateCarrier(c) \/ CreateRefused(c)
                               \/ DeleteConfig(c) \/ SyncConfig(c)
  BY <1>6, ConfigSoak
<1>7. CASE NxpDown
  BY <1>7, NxpDownSoak
<1>8. CASE SetFails
  <2>1. UNCHANGED <<timer, last, inCallback, nxp>> /\ actor' \subseteq actor
    BY <1>8 DEF SetFails, timerVars
  <2> QED
    BY <2>1, ObjectsFrame DEF IInv, SoakTypeOK
<1>9. CASE \/ \E c \in Carriers : \/ DcoChange(c) \/ CollectFaults(c)
                                  \/ CollectState(c)
                                  \/ DeleteCarrier(c) \/ DeleteRefused(c)
           \/ ClearForce \/ NxpBack \/ SetIsConnectionUp \/ UNCHANGED vars
  <2>1. UNCHANGED soakVars
    BY <1>9 DEF DcoChange, CollectFaults, CollectState, DeleteCarrier, DeleteRefused,
       ClearForce, NxpBack, SetIsConnectionUp, vars, timerVars, soakVars
  <2> QED
    BY <2>1, SoakFrame
<1> QED
  BY <1>1, <1>2, <1>3, <1>4, <1>5, <1>6, <1>7, <1>8, <1>9 DEF Next

(***************************************************************************)
(* A security processor is told "up" only while the last OFEC event of the *)
(* carrier is an up, if the actor does not handle a carrier during its     *)
(* timer callback.                                                         *)
(***************************************************************************)
THEOREM SoakIsSound == ASSUME Overlap = FALSE PROVE Spec => UpOnlyAfterUp
<1>1. Init => IInv
  BY IInvInit
<1>2. IInv /\ [Next]_vars => IInv'
  BY NextSoak
<1>3. IInv /\ [Next]_vars =>
        [\A c \in Carriers :
            nxp'[c].ofec = "up" /\ nxp[c].ofec # "up" => last[c] = "up"]_vars
  BY NextSoak DEF UpIsLast
<1> QED
  BY <1>1, <1>2, <1>3, PTL DEF Spec, UpOnlyAfterUp
-----------------------------------------------------------------------------
(***************************************************************************)
(* No news is no difference.  The invariant follows what was seen last on  *)
(* its way: the event waits in the queue, or the actor holds it, or the    *)
(* soak of an up is under way, or the security processor shows it.  The    *)
(* first of these that is there decides, so each has to agree with what    *)
(* was seen only while nothing newer is before it.                         *)
(***************************************************************************)
Holds(k) == {e \in actor : KeyOf(e) = k}
Soaking(c) == timer[c] = "running" \/ c \in inCallback

\* The flag is set, and is not the one the collector is about to clear.
Asked(flags, k) == k[2] \in flags /\ k \notin clearing

OfecKey(c) == <<"ofec", c>>
RxKey(c) == <<"rx", c>>

\* The carriers for which the collector believes its last report is enough.
OfecSettled(c) ==
    /\ collUp /\ nxpUp /\ HasObjects(c)
    /\ seenBitmap[c] # "default" /\ ~Asked(forceF, OfecKey(c))
RxSettled(c) ==
    /\ collUp /\ nxpUp /\ HasObjects(c) /\ conf[c] \notin {"deleting", "kept"}
    /\ seenRx[c] # "unspecified" /\ ~Asked(forceS, RxKey(c))

OfecOnItsWay(c) ==
    IF Queued(queue, OfecKey(c)) # {}
      THEN \A e \in Queued(queue, OfecKey(c)) :
              e.kind = "update" /\ (e.val <=> IsOfecUp(seenBitmap[c]))
    ELSE IF Holds(OfecKey(c)) # {}
      THEN ~IsOfecUp(seenBitmap[c]) /\ \A e \in Holds(OfecKey(c)) : e.kind = "update"
    ELSE IF Soaking(c) THEN IsOfecUp(seenBitmap[c])
    ELSE nxp[c].ofec = IF IsOfecUp(seenBitmap[c]) THEN "up" ELSE "down"

RxOnItsWay(c) ==
    IF Queued(queue, RxKey(c)) # {}
      THEN \A e \in Queued(queue, RxKey(c)) : e.val <=> seenRx[c] = "active"
    ELSE IF Holds(RxKey(c)) # {}
      THEN \A e \in Holds(RxKey(c)) : e.val <=> seenRx[c] = "active"
    ELSE nxp[c].rx = seenRx[c]

\* The actor holds one event, and none of a carrier whose soak is under way.
OneHand ==
    /\ \A e, f \in actor : e = f
    /\ \A e \in actor : e.kind = "rx" \/ ~e.val
OnePlace ==
    \A c \in Carriers : /\ c \in inCallback => timer[c] # "running"
                        /\ Soaking(c) => Holds(OfecKey(c)) = {}

Followed(c) ==
    /\ OfecSettled(c) => OfecOnItsWay(c)
    /\ RxSettled(c) => RxOnItsWay(c)

NewsInv == QueueInv /\ OneHand /\ OnePlace /\ \A c \in Carriers : Followed(c)

(***************************************************************************)
(* A step that changes nothing of a carrier's OFEC or Rx state on its way. *)
(***************************************************************************)
OfecSame(c) ==
    /\ Queued(queue, OfecKey(c))' = Queued(queue, OfecKey(c))
    /\ Holds(OfecKey(c))' = Holds(OfecKey(c))
    /\ Soaking(c)' <=> Soaking(c)
    /\ nxp'[c].ofec = nxp[c].ofec /\ seenBitmap'[c] = seenBitmap[c]

RxSame(c) ==
    /\ Queued(queue, RxKey(c))' = Queued(queue, RxKey(c))
    /\ Holds(RxKey(c))' = Holds(RxKey(c))
    /\ nxp'[c].rx = nxp[c].rx /\ seenRx'[c] = seenRx[c]

LEMMA SameFollowed ==
    ASSUME NEW c \in Carriers, Followed(c), OfecSame(c), RxSame(c),
           OfecSettled(c)' => OfecSettled(c), RxSettled(c)' => RxSettled(c)
    PROVE  Followed(c)'
<1>1. OfecOnItsWay(c)' <=> OfecOnItsWay(c)
  BY DEF OfecSame, OfecOnItsWay
<1>2. RxOnItsWay(c)' <=> RxOnItsWay(c)
  BY DEF RxSame, RxOnItsWay
<1>. QED  BY <1>1, <1>2 DEF Followed

\* The keys of events.
LEMMA KeysOfEvents ==
    \A e \in Events, c \in Carriers :
        /\ KeyOf(e) = RxKey(c) <=> e.kind = "rx" /\ e.car = c
        /\ KeyOf(e) = OfecKey(c) <=> e.kind # "rx" /\ e.car = c
  BY DEF Events, KeyOf, ClassOf, RxKey, OfecKey

LEMMA KeysDiffer ==
    \A c, d \in Carriers : /\ OfecKey(c) # RxKey(d)
                           /\ OfecKey(c) = OfecKey(d) => c = d
                           /\ RxKey(c) = RxKey(d) => c = d
  BY DEF RxKey, OfecKey

LEMMA NewsInit == Init => NewsInv
<1>. SUFFICES ASSUME Init PROVE NewsInv
  OBVIOUS
<1>1. QueueInv
  BY QueueInvInit
<1>2. OneHand /\ OnePlace
  BY DEF Init, OneHand, OnePlace, Soaking, Holds
<1>3. \A c \in Carriers : Followed(c)
  BY DEF Init, Followed, OfecSettled, RxSettled, HasObjects
<1>. QED  BY <1>1, <1>2, <1>3 DEF NewsInv
-----------------------------------------------------------------------------
(* The collectors.                                                         *)

LEMMA DcoChangeNews ==
    ASSUME NewsInv, QueueInv', NEW c \in Carriers, DcoChange(c) PROVE NewsInv'
<1>. USE DEF DcoChange, collVars, forceVars, timerVars, linkVars
<1>1. OneHand' /\ OnePlace'
  BY DEF NewsInv, OneHand, OnePlace, Soaking, Holds
<1>2. ASSUME NEW d \in Carriers PROVE Followed(d)'
  <2>1. OfecSame(d) /\ RxSame(d)
    BY DEF OfecSame, RxSame, Soaking, Holds
  <2>2. OfecSettled(d)' => OfecSettled(d)
    BY DEF OfecSettled, HasObjects, Asked
  <2>3. RxSettled(d)' => RxSettled(d)
    BY DEF RxSettled, HasObjects, Asked
  <2>. QED  BY <2>1, <2>2, <2>3, SameFollowed DEF NewsInv
<1>. QED  BY <1>1, <1>2 DEF NewsInv

\* EnQueue as the invariant sees it.
LEMMA PostNews ==
    ASSUME QueueAssumption, RoomForAll, QueueInv, NEW e \in Events,
           queue' = EnQueue(queue, e)
    PROVE  \A k : Queued(queue, k)' = IF k = KeyOf(e) THEN {e} ELSE Queued(queue, k)
<1>1. queue \in Seq(Events) /\ OncePerKey(queue)
  BY DEF QueueInv, TypeOK
<1>2. Len(queue) < QueueSize
  BY <1>1, HasRoom
<1>3. \A k : Queued(EnQueue(queue, e), k) = IF k = KeyOf(e) THEN {e} ELSE Queued(queue, k)
  BY <1>1, <1>2, EnQueueKeeps
<1>. QED  BY <1>3

LEMMA CollectFaultsNews ==
    ASSUME QueueAssumption, CarrierAssumption, RoomForAll, NewsInv, QueueInv',
           NEW c \in Carriers, CollectFaults(c)
    PROVE  NewsInv'
<1>0. /\ clearing = {} /\ clearing' \subseteq {OfecKey(c)}
      /\ UNCHANGED <<conf, seenRx, forceS, actor, timer, inCallback, collUp, nxpUp, nxp>>
      /\ \A d \in Carriers : d # c => /\ seenBitmap'[d] = seenBitmap[d]
                                      /\ d \in forceF' <=> d \in forceF
  <2>1. /\ UNCHANGED <<conf, seenRx, forceS, actor, timer, inCallback, collUp, nxpUp, nxp>>
        /\ clearing = {} /\ forceF' \in {forceF, forceF \ {c}}
        /\ seenBitmap' = [seenBitmap EXCEPT ![c] = bitmap[c]]
    BY DEF CollectFaults, Unlocked, timerVars, linkVars
  <2>2. clearing' \subseteq {OfecKey(c)}
    BY DEF CollectFaults, Unlocked, OfecKey
  <2>. QED  BY <2>1, <2>2 DEF NewsInv, QueueInv, TypeOK
<1>1. OneHand' /\ OnePlace'
  BY <1>0 DEF NewsInv, OneHand, OnePlace, Soaking, Holds
<1>2. PICK e \in Events : /\ e = Event("update", c, IsOfecUp(bitmap[c]))
                          /\ KeyOf(e) = OfecKey(c)
                          /\ e.kind = "update" /\ (e.val <=> IsOfecUp(bitmap[c]))
  <2>1. IsOfecUp(bitmap[c]) \in BOOLEAN
    BY DEF IsOfecUp
  <2>2. PICK v \in BOOLEAN : v = IsOfecUp(bitmap[c])
    BY <2>1
  <2>3. Event("update", c, v) \in Events
    BY EventTypes
  <2>4. /\ KeyOf(Event("update", c, v)) = OfecKey(c)
        /\ Event("update", c, v).kind = "update" /\ Event("update", c, v).val = v
    BY DEF Event, KeyOf, ClassOf, OfecKey
  <2>. QED  BY <2>2, <2>3, <2>4
<1>3. \/ ~HasObjects(c) /\ UNCHANGED queue
      \/ \A k : Queued(queue, k)' = IF k = OfecKey(c) THEN {e} ELSE Queued(queue, k)
  <2>1. \/ ~HasObjects(c) /\ UNCHANGED queue
        \/ queue' = EnQueue(queue, e)
    BY <1>2 DEF CollectFaults
  <2>. QED  BY <1>2, <2>1, PostNews DEF NewsInv
<1>4. ASSUME NEW d \in Carriers PROVE Followed(d)'
  <2>1. RxSame(d) /\ (RxSettled(d)' => RxSettled(d))
    BY <1>0, <1>3, KeysDiffer DEF RxSame, RxSettled, HasObjects, Asked, Holds
  <2>2. CASE d # c
    <3>1. OfecSame(d)
      BY <1>0, <1>3, <2>2, KeysDiffer DEF OfecSame, Holds, Soaking
    <3>2. OfecSettled(d)' => OfecSettled(d)
      BY <1>0, <2>2, KeysDiffer DEF OfecSettled, HasObjects, Asked, OfecKey
    <3>. QED  BY <2>1, <3>1, <3>2, SameFollowed DEF NewsInv
  <2>3. CASE d = c
    <3>1. seenBitmap'[c] = bitmap[c]
      BY DEF CollectFaults, NewsInv, QueueInv, TypeOK
    <3>2. OfecSettled(c)' => OfecOnItsWay(c)'
      <4>1. OfecSettled(c)' => HasObjects(c)
        BY <1>0 DEF OfecSettled, HasObjects
      <4>. QED  BY <1>2, <1>3, <3>1, <4>1 DEF OfecOnItsWay
    <3>3. RxSettled(c)' => RxOnItsWay(c)'
      BY <2>1, <2>3 DEF NewsInv, Followed, RxSame, RxOnItsWay
    <3>. QED  BY <2>3, <3>2, <3>3 DEF Followed
  <2>. QED  BY <2>2, <2>3
<1>. QED  BY <1>1, <1>4 DEF NewsInv

LEMMA CollectStateNews ==
    ASSUME QueueAssumption, CarrierAssumption, RoomForAll, NewsInv, QueueInv',
           NEW c \in Carriers, CollectState(c)
    PROVE  NewsInv'
<1>0. /\ clearing = {} /\ clearing' \subseteq {RxKey(c)}
      /\ UNCHANGED <<conf, seenBitmap, forceF, forceS, actor, timer, inCallback,
                     collUp, nxpUp, nxp>>
      /\ seenRx'[c] = RxState(c)
      /\ \A d \in Carriers : d # c => seenRx'[d] = seenRx[d]
  <2>1. /\ UNCHANGED <<conf, seenBitmap, forceF, forceS, actor, timer, inCallback,
                       collUp, nxpUp, nxp>>
        /\ clearing = {} /\ seenRx' = [seenRx EXCEPT ![c] = RxState(c)]
    BY DEF CollectState, Unlocked, forceVars, timerVars, linkVars
  <2>2. clearing' \subseteq {RxKey(c)}
    BY DEF CollectState, Unlocked, RxKey
  <2>. QED  BY <2>1, <2>2 DEF NewsInv, QueueInv, TypeOK
<1>1. OneHand' /\ OnePlace'
  BY <1>0 DEF NewsInv, OneHand, OnePlace, Soaking, Holds
<1>2. PICK e \in Events : /\ e = Event("rx", c, rx[c]) /\ KeyOf(e) = RxKey(c)
                          /\ e.val <=> rx[c]
  <2>1. PICK v \in BOOLEAN : v = rx[c]
    BY DEF NewsInv, QueueInv, TypeOK
  <2>2. Event("rx", c, v) \in Events
    BY EventTypes
  <2>3. KeyOf(Event("rx", c, v)) = RxKey(c) /\ Event("rx", c, v).val = v
    BY DEF Event, KeyOf, ClassOf, RxKey
  <2>. QED  BY <2>1, <2>2, <2>3
<1>3. \A k : Queued(queue, k)' = IF k = RxKey(c) THEN {e} ELSE Queued(queue, k)
  <2>1. queue' = EnQueue(queue, e)
    BY <1>2 DEF CollectState
  <2>. QED  BY <1>2, <2>1, PostNews DEF NewsInv
<1>4. ASSUME NEW d \in Carriers PROVE Followed(d)'
  <2>0. HasObjects(d)' => HasObjects(d)
    BY <1>0 DEF CollectState, HasObjects
  <2>1. OfecSame(d) /\ (OfecSettled(d)' => OfecSettled(d))
    BY <1>0, <1>3, <2>0, KeysDiffer DEF OfecSame, OfecSettled, Asked, Holds, Soaking
  <2>2. CASE d # c
    <3>1. RxSame(d)
      BY <1>0, <1>3, <2>2, KeysDiffer DEF RxSame, Holds
    <3>2. RxSettled(d)' => RxSettled(d)
      BY <1>0, <2>2, KeysDiffer DEF RxSettled, HasObjects, Asked, RxKey
    <3>. QED  BY <2>1, <3>1, <3>2, SameFollowed DEF NewsInv
  <2>3. CASE d = c
    <3>1. OfecSettled(c)' => OfecOnItsWay(c)'
      BY <2>1, <2>3 DEF NewsInv, Followed, OfecSame, OfecOnItsWay
    <3>2. rx[c] <=> seenRx'[c] = "active"
      BY <1>0 DEF RxState
    <3>3. RxOnItsWay(c)'
      BY <1>2, <1>3, <3>2 DEF RxOnItsWay
    <3>. QED  BY <2>3, <3>1, <3>3 DEF Followed
  <2>. QED  BY <2>2, <2>3
<1>. QED  BY <1>1, <1>4 DEF NewsInv

LEMMA ClearForceNews == ASSUME NewsInv, QueueInv', ClearForce PROVE NewsInv'
<1>0. /\ UNCHANGED <<conf, seenBitmap, seenRx, queue, actor, timer, inCallback,
                     collUp, nxpUp, nxp>>
      /\ clearing' = {}
      /\ \A d \in Carriers :
            /\ d \in forceF' <=> d \in forceF /\ OfecKey(d) \notin clearing
            /\ d \in forceS' <=> d \in forceS /\ RxKey(d) \notin clearing
  BY DEF ClearForce, timerVars, linkVars, OfecKey, RxKey
<1>1. OneHand' /\ OnePlace'
  BY <1>0 DEF NewsInv, OneHand, OnePlace, Soaking, Holds
<1>2. ASSUME NEW d \in Carriers PROVE Followed(d)'
  <2>1. OfecSame(d) /\ RxSame(d)
    BY <1>0 DEF OfecSame, RxSame, Soaking, Holds
  <2>2. OfecSettled(d)' => OfecSettled(d)
    BY <1>0 DEF OfecSettled, HasObjects, Asked, OfecKey
  <2>3. RxSettled(d)' => RxSettled(d)
    BY <1>0 DEF RxSettled, HasObjects, Asked, RxKey
  <2>. QED  BY <2>1, <2>2, <2>3, SameFollowed DEF NewsInv
<1>. QED  BY <1>1, <1>2 DEF NewsInv
-----------------------------------------------------------------------------
(* The actor and the timer.                                                *)

\* The state of a carrier that the flags and the collector do not show.
LEMMA FlagsSame ==
    ASSUME NEW c \in Carriers,
           UNCHANGED <<conf, seenBitmap, seenRx, forceF, forceS, clearing, collUp, nxpUp>>
    PROVE  /\ OfecSettled(c)' <=> OfecSettled(c)
           /\ RxSettled(c)' <=> RxSettled(c)
  BY DEF OfecSettled, RxSettled, HasObjects, Asked

LEMMA TakeNews ==
    ASSUME NewsInv, QueueInv', Overlap = FALSE, Take PROVE NewsInv'
<1>0. /\ actor = {} /\ queue # <<>> /\ queue' = Tail(queue)
      /\ UNCHANGED <<conf, seenBitmap, seenRx, forceF, forceS, clearing, inCallback,
                     collUp, nxpUp, nxp>>
  BY DEF Take, collVars, forceVars, linkVars
<1>1. PICK e \in Events : e = Head(queue)
  BY <1>0, DeQueueKeeps DEF NewsInv, QueueInv, TypeOK
<1>2. /\ Queued(queue, KeyOf(e)) = {e}
      /\ \A k : Queued(queue, k)' = IF k = KeyOf(e) THEN {} ELSE Queued(queue, k)
  BY <1>0, <1>1, DeQueueKeeps DEF NewsInv, QueueInv, TypeOK
<1>3. /\ e.kind = "rx" \/ e.car \notin inCallback
      /\ \/ e.kind = "rx" /\ actor' = {e} /\ UNCHANGED timer
         \/ /\ e.kind = "update" /\ e.val /\ actor' = {}
            /\ timer' = [timer EXCEPT ![e.car] = "running"]
         \/ /\ e.kind # "rx" /\ ~e.val /\ actor' = {e}
            /\ timer' = IF StopsTimer(e) THEN [timer EXCEPT ![e.car] = "idle"] ELSE timer
  BY <1>0, <1>1 DEF Take
<1>4. /\ e.car \in Carriers /\ KeyOf(e) \in {OfecKey(e.car), RxKey(e.car)}
      /\ e.kind = "rx" <=> KeyOf(e) = RxKey(e.car)
      /\ e.kind # "rx" <=> KeyOf(e) = OfecKey(e.car)
  BY KeysOfEvents DEF Events
<1>5. /\ \A d \in Carriers : d # e.car \/ e.kind = "rx" => timer'[d] = timer[d]
      /\ e.kind = "update" /\ e.val => timer'[e.car] = "running"
      /\ e.kind # "rx" /\ ~e.val => timer'[e.car] # "running"
  <2>1. timer \in [Carriers -> {"none", "idle", "running"}]
    BY DEF NewsInv, QueueInv, TypeOK
  <2>. QED  BY <1>3, <1>4, <2>1 DEF StopsTimer
<1>6. /\ \A k : Holds(k) = {} /\ Holds(k)' \subseteq {e}
      /\ \A k : k # KeyOf(e) => Holds(k)' = {}
      /\ actor' = {e} => Holds(KeyOf(e))' = {e}
  BY <1>0, <1>3 DEF Holds
<1>7. OneHand'
  BY <1>3 DEF OneHand
<1>8. OnePlace'
  <2>. SUFFICES ASSUME NEW d \in Carriers
                PROVE  /\ d \in inCallback' => timer'[d] # "running"
                       /\ Soaking(d)' => Holds(OfecKey(d))' = {}
    BY DEF OnePlace
  <2>1. CASE d # e.car \/ e.kind = "rx"
    <3>1. KeyOf(e) # OfecKey(d)
      BY <1>4, <2>1, KeysDiffer
    <3>. QED  BY <1>0, <1>5, <1>6, <2>1, <3>1 DEF NewsInv, OnePlace
  <2>2. CASE d = e.car /\ e.kind # "rx"
    <3>1. d \notin inCallback'
      BY <1>0, <1>3, <2>2
    <3>2. CASE actor' = {}
      BY <3>1, <3>2 DEF Holds
    <3>3. CASE ~e.val
      BY <1>5, <2>2, <3>1, <3>3 DEF Soaking
    <3>. QED  BY <1>3, <2>2, <3>2, <3>3
  <2>. QED  BY <2>1, <2>2
<1>9. ASSUME NEW d \in Carriers PROVE Followed(d)'
  <2>0. /\ OfecSettled(d)' <=> OfecSettled(d)
        /\ RxSettled(d)' <=> RxSettled(d)
    BY <1>0, FlagsSame
  <2>1. KeyOf(e) # OfecKey(d) => OfecSame(d)
    <3>. SUFFICES ASSUME KeyOf(e) # OfecKey(d) PROVE OfecSame(d)
      OBVIOUS
    <3>1. timer'[d] = timer[d]
      BY <1>4, <1>5
    <3>. QED  BY <1>0, <1>2, <1>6, <3>1 DEF OfecSame, Soaking
  <2>2. KeyOf(e) # RxKey(d) => RxSame(d)
    BY <1>0, <1>2, <1>6 DEF RxSame
  <2>3. OfecSettled(d)' => OfecOnItsWay(d)'
    <3>1. CASE KeyOf(e) # OfecKey(d)
      BY <2>0, <2>1, <3>1 DEF NewsInv, Followed, OfecSame, OfecOnItsWay
    <3>2. CASE KeyOf(e) = OfecKey(d)
      <4>. SUFFICES ASSUME OfecSettled(d) PROVE OfecOnItsWay(d)'
        BY <2>0
      <4>1. e.kind = "update" /\ (e.val <=> IsOfecUp(seenBitmap[d]))
        BY <1>2, <3>2 DEF NewsInv, Followed, OfecOnItsWay
      <4>2. d = e.car /\ Queued(queue, OfecKey(d))' = {} /\ seenBitmap' = seenBitmap
        BY <1>0, <1>2, <1>4, <3>2, KeysDiffer
      <4>3. CASE e.val
        <5>1. Holds(OfecKey(d))' = {} /\ Soaking(d)'
          BY <1>3, <1>5, <4>1, <4>2, <4>3 DEF Holds, Soaking
        <5>. QED  BY <4>1, <4>2, <4>3, <5>1 DEF OfecOnItsWay
      <4>4. CASE ~e.val
        <5>1. Holds(OfecKey(d))' = {e}
          BY <1>3, <1>6, <3>2, <4>1, <4>4
        <5>. QED  BY <4>1, <4>2, <4>4, <5>1 DEF OfecOnItsWay
      <4>. QED  BY <4>3, <4>4
    <3>. QED  BY <3>1, <3>2
  <2>4. RxSettled(d)' => RxOnItsWay(d)'
    <3>1. CASE KeyOf(e) # RxKey(d)
      BY <2>0, <2>2, <3>1 DEF NewsInv, Followed, RxSame, RxOnItsWay
    <3>2. CASE KeyOf(e) = RxKey(d)
      <4>. SUFFICES ASSUME RxSettled(d) PROVE RxOnItsWay(d)'
        BY <2>0
      <4>1. e.val <=> seenRx[d] = "active"
        BY <1>2, <3>2 DEF NewsInv, Followed, RxOnItsWay
      <4>2. Queued(queue, RxKey(d))' = {} /\ seenRx' = seenRx /\ e.kind = "rx"
        BY <1>0, <1>2, <1>4, <3>2, KeysDiffer
      <4>3. Holds(RxKey(d))' = {e}
        BY <1>3, <1>6, <3>2, <4>2
      <4>. QED  BY <4>1, <4>2, <4>3 DEF RxOnItsWay
    <3>. QED  BY <3>1, <3>2
  <2>. QED  BY <2>3, <2>4 DEF Followed
<1>. QED  BY <1>7, <1>8, <1>9 DEF NewsInv

\* The actor is done with its event e: the places of the other keys stay.
LEMMA HandEmptied ==
    ASSUME OneHand, NEW e \in actor, actor' = {}
    PROVE  /\ \A k : Holds(k)' = {}
           /\ \A k : k # KeyOf(e) => Holds(k) = {}
           /\ Holds(KeyOf(e)) = {e}
  BY DEF OneHand, Holds

LEMMA SetDoneNews == ASSUME NewsInv, QueueInv', SetDone PROVE NewsInv'
<1>0. /\ UNCHANGED <<conf, seenBitmap, seenRx, forceF, forceS, clearing, queue, timer,
                     inCallback, collUp, nxpUp>>
      /\ actor' = {}
  BY DEF SetDone, collVars, forceVars, timerVars, linkVars
<1>1. PICK e \in actor : nxp' = [nxp EXCEPT ![e.car] = AfterSet(nxp[e.car], e)]
  BY DEF SetDone
<1>2. /\ e \in Events /\ e.car \in Carriers /\ nxp \in [Carriers -> Objects]
      /\ e.kind = "rx" \/ ~e.val
  BY DEF NewsInv, QueueInv, TypeOK, Events, OneHand
<1>3. /\ \A k : Holds(k)' = {}
      /\ \A k : k # KeyOf(e) => Holds(k) = {}
      /\ Holds(KeyOf(e)) = {e}
  BY <1>0, HandEmptied DEF NewsInv
<1>4. OneHand' /\ OnePlace'
  BY <1>0, <1>3 DEF NewsInv, OneHand, OnePlace, Soaking
<1>5. /\ \A d \in Carriers : d # e.car => nxp'[d] = nxp[d]
      /\ e.kind = "rx" => /\ nxp'[e.car].ofec = nxp[e.car].ofec
                          /\ nxp'[e.car].rx = IF e.val THEN "active" ELSE "inactive"
      /\ e.kind # "rx" => nxp'[e.car].rx = nxp[e.car].rx
      /\ e.kind = "update" => nxp'[e.car].ofec = "down"
  <2>1. nxp'[e.car] = AfterSet(nxp[e.car], e) /\ nxp[e.car] \in Objects
    BY <1>1, <1>2
  <2>2. \A d \in Carriers : d # e.car => nxp'[d] = nxp[d]
    BY <1>1, <1>2
  <2>. QED  BY <1>2, <2>1, <2>2 DEF AfterSet, Objects
<1>6. ASSUME NEW d \in Carriers PROVE Followed(d)'
  <2>0. /\ OfecSettled(d)' <=> OfecSettled(d)
        /\ RxSettled(d)' <=> RxSettled(d)
    BY <1>0, FlagsSame
  <2>1. ASSUME OfecSettled(d) PROVE OfecOnItsWay(d)'
    <3>1. CASE KeyOf(e) # OfecKey(d)
      <4>1. nxp'[d].ofec = nxp[d].ofec
        BY <1>2, <1>5, <3>1, KeysOfEvents
      <4>. QED  BY <1>0, <1>3, <2>1, <3>1, <4>1
                DEF NewsInv, Followed, OfecOnItsWay, Soaking
    <3>2. CASE KeyOf(e) = OfecKey(d)
      <4>1. d = e.car /\ e.kind # "rx"
        BY <1>2, <3>2, KeysOfEvents
      <4>2. ~Soaking(d)
        BY <1>3, <3>2 DEF NewsInv, OnePlace
      <4>3. CASE Queued(queue, OfecKey(d)) # {}
        BY <1>0, <2>1, <4>3 DEF NewsInv, Followed, OfecOnItsWay
      <4>4. CASE Queued(queue, OfecKey(d)) = {}
        <5>1. ~IsOfecUp(seenBitmap[d]) /\ e.kind = "update"
          BY <1>3, <2>1, <3>2, <4>4 DEF NewsInv, Followed, OfecOnItsWay
        <5>. QED  BY <1>0, <1>3, <1>5, <4>1, <4>2, <4>4, <5>1 DEF OfecOnItsWay, Soaking
      <4>. QED  BY <4>3, <4>4
    <3>. QED  BY <3>1, <3>2
  <2>2. ASSUME RxSettled(d) PROVE RxOnItsWay(d)'
    <3>1. CASE KeyOf(e) # RxKey(d)
      <4>1. nxp'[d].rx = nxp[d].rx
        BY <1>2, <1>5, <3>1, KeysOfEvents
      <4>. QED  BY <1>0, <1>3, <2>2, <3>1, <4>1 DEF NewsInv, Followed, RxOnItsWay
    <3>2. CASE KeyOf(e) = RxKey(d)
      <4>1. d = e.car /\ e.kind = "rx"
        BY <1>2, <3>2, KeysOfEvents
      <4>2. CASE Queued(queue, RxKey(d)) # {}
        BY <1>0, <2>2, <4>2 DEF NewsInv, Followed, RxOnItsWay
      <4>3. CASE Queued(queue, RxKey(d)) = {}
        <5>1. e.val <=> seenRx[d] = "active"
          BY <1>3, <2>2, <3>2, <4>3 DEF NewsInv, Followed, RxOnItsWay
        <5>2. seenRx[d] \in {"active", "inactive"}
          BY <2>2 DEF RxSettled, HasObjects, NewsInv, QueueInv, TypeOK
        <5>. QED  BY <1>0, <1>3, <1>5, <4>1, <4>3, <5>1, <5>2 DEF RxOnItsWay
      <4>. QED  BY <4>2, <4>3
    <3>. QED  BY <3>1, <3>2
  <2>. QED  BY <2>0, <2>1, <2>2 DEF Followed
<1>. QED  BY <1>4, <1>6 DEF NewsInv

(***************************************************************************)
(* A failed Set asks for the OFEC state again, and the flag stays unless a *)
(* newer event is in the queue.                                            *)
(***************************************************************************)
LEMMA FailedOfec ==
    ASSUME NEW c \in Carriers, OfecSettled(c) => OfecOnItsWay(c),
           FastActor \/ ~LosesForce(OfecKey(c)), FastActor = FALSE,
           forceF' = forceF \cup {c},
           UNCHANGED <<conf, seenBitmap, seenRx, clearing, queue, collUp, nxpUp>>
    PROVE  OfecSettled(c)' => OfecOnItsWay(c)'
<1>. SUFFICES ASSUME OfecSettled(c)' PROVE OfecOnItsWay(c)'
  OBVIOUS
<1>1. OfecKey(c) \in clearing /\ OfecSettled(c)
  BY DEF OfecSettled, HasObjects, Asked, OfecKey
<1>2. Queued(queue, OfecKey(c)) # {}
  BY <1>1 DEF LosesForce
<1>. QED  BY <1>1, <1>2 DEF OfecOnItsWay

LEMMA SetFailsNews ==
    ASSUME NewsInv, QueueInv', FastActor = FALSE, RxFail = FALSE, SetFails PROVE NewsInv'
<1>0. /\ UNCHANGED <<conf, seenBitmap, seenRx, forceS, clearing, queue, timer, inCallback,
                     collUp, nxpUp, nxp>>
      /\ actor' = {}
  BY DEF SetFails, SetForceCarrStateToNxp, SetForceCarrFaultToNxp, collVars, timerVars,
     linkVars
<1>1. PICK e \in actor : /\ nxpUp => e.kind # "rx"
                         /\ FastActor \/ ~LosesForce(KeyOf(e))
                         /\ forceF' = forceF \cup {e.car}
  BY DEF SetFails, SetForceCarrStateToNxp, SetForceCarrFaultToNxp, MayFail
<1>2. e \in Events /\ e.car \in Carriers
  BY DEF NewsInv, QueueInv, TypeOK, Events
<1>3. /\ \A k : Holds(k)' = {}
      /\ \A k : k # KeyOf(e) => Holds(k) = {}
      /\ Holds(KeyOf(e)) = {e}
  BY <1>0, HandEmptied DEF NewsInv
<1>4. OneHand' /\ OnePlace'
  BY <1>0, <1>3 DEF NewsInv, OneHand, OnePlace, Soaking
<1>5. ASSUME NEW d \in Carriers PROVE Followed(d)'
  <2>1. CASE ~nxpUp
    BY <1>0, <2>1 DEF Followed, OfecSettled, RxSettled
  <2>2. CASE nxpUp
    <3>1. KeyOf(e) = OfecKey(e.car) /\ KeyOf(e) # RxKey(d)
      BY <1>1, <1>2, <2>2, KeysOfEvents
    <3>2. RxSettled(d)' => RxOnItsWay(d)'
      BY <1>0, <1>3, <3>1 DEF NewsInv, Followed, RxSettled, HasObjects, RxOnItsWay, Asked
    <3>3. CASE d # e.car
      <4>1. OfecKey(d) # KeyOf(e)
        BY <1>2, <3>1, <3>3, KeysDiffer
      <4>2. OfecSettled(d)' => OfecSettled(d)
        BY <1>0, <1>1, <3>3 DEF OfecSettled, HasObjects, Asked, OfecKey
      <4>3. OfecSettled(d)' => OfecOnItsWay(d)'
        BY <1>0, <1>3, <4>1, <4>2 DEF NewsInv, Followed, OfecOnItsWay, Soaking
      <4>. QED  BY <3>2, <4>3 DEF Followed
    <3>4. CASE d = e.car
      <4>1. OfecSettled(d)' => OfecOnItsWay(d)'
        BY <1>0, <1>1, <3>1, <3>4, FailedOfec DEF NewsInv, Followed
      <4>. QED  BY <3>2, <4>1 DEF Followed
    <3>. QED  BY <3>3, <3>4
  <2>. QED  BY <2>1, <2>2
<1>. QED  BY <1>4, <1>5 DEF NewsInv

LEMMA TimerExpiredNews ==
    ASSUME NewsInv, QueueInv', NEW c \in Carriers, TimerExpired(c) PROVE NewsInv'
<1>0. /\ UNCHANGED <<conf, seenBitmap, seenRx, forceF, forceS, clearing, queue, actor,
                     collUp, nxpUp, nxp>>
      /\ timer[c] = "running" /\ inCallback = {} /\ inCallback' = {c}
      /\ timer' = [timer EXCEPT ![c] = "idle"]
      /\ timer \in [Carriers -> {"none", "idle", "running"}]
  BY DEF TimerExpired, collVars, forceVars, linkVars, NewsInv, QueueInv, TypeOK
<1>1. \A d \in Carriers : Soaking(d)' <=> Soaking(d)
  BY <1>0 DEF Soaking
<1>2. OneHand' /\ OnePlace'
  <2>1. \A d \in Carriers : d \in inCallback' => timer'[d] # "running"
    BY <1>0
  <2>. QED  BY <1>0, <1>1, <2>1 DEF NewsInv, OneHand, OnePlace, Holds
<1>3. ASSUME NEW d \in Carriers PROVE Followed(d)'
  <2>1. OfecSame(d) /\ RxSame(d)
    BY <1>0, <1>1 DEF OfecSame, RxSame, Holds
  <2>2. (OfecSettled(d)' => OfecSettled(d)) /\ (RxSettled(d)' => RxSettled(d))
    BY <1>0, FlagsSame
  <2>. QED  BY <2>1, <2>2, SameFollowed DEF NewsInv
<1>. QED  BY <1>2, <1>3 DEF NewsInv

LEMMA TimerSetDoneNews ==
    ASSUME NewsInv, QueueInv', NEW c \in Carriers, TimerSetDone(c) PROVE NewsInv'
<1>0. /\ UNCHANGED <<conf, seenBitmap, seenRx, forceF, forceS, clearing, queue, actor,
                     timer, collUp, nxpUp>>
      /\ c \in inCallback /\ inCallback' = inCallback \ {c}
      /\ nxp' = [nxp EXCEPT ![c].ofec = "up"] /\ nxp \in [Carriers -> Objects]
  BY DEF TimerSetDone, collVars, forceVars, linkVars, NewsInv, QueueInv, TypeOK
<1>1. /\ nxp'[c].ofec = "up" /\ nxp'[c].rx = nxp[c].rx
      /\ \A d \in Carriers : d # c => nxp'[d] = nxp[d]
  <2>1. nxp' = [nxp EXCEPT ![c] = [nxp[c] EXCEPT !.ofec = "up"]] /\ nxp[c] \in Objects
    BY <1>0
  <2>2. nxp'[c] = [nxp[c] EXCEPT !.ofec = "up"] /\ \A d \in Carriers : d # c => nxp'[d] = nxp[d]
    BY <1>0, <2>1
  <2>. QED  BY <2>1, <2>2 DEF Objects
<1>2. OneHand' /\ OnePlace'
  BY <1>0 DEF NewsInv, OneHand, OnePlace, Holds, Soaking
<1>3. ASSUME NEW d \in Carriers PROVE Followed(d)'
  <2>0. RxSame(d)
    BY <1>0, <1>1 DEF RxSame, Holds
  <2>1. /\ OfecSettled(d)' <=> OfecSettled(d)
        /\ RxSettled(d)' <=> RxSettled(d)
    BY <1>0, FlagsSame
  <2>2. CASE d # c
    <3>1. OfecSame(d)
      BY <1>0, <1>1, <2>2 DEF OfecSame, Holds, Soaking
    <3>. QED  BY <2>0, <2>1, <3>1, SameFollowed DEF NewsInv
  <2>3. CASE d = c
    <3>1. Soaking(c) /\ ~Soaking(c)' /\ Holds(OfecKey(c)) = {}
      BY <1>0 DEF NewsInv, OnePlace, Soaking
    <3>2. ASSUME OfecSettled(c) PROVE OfecOnItsWay(c)'
      <4>1. CASE Queued(queue, OfecKey(c)) # {}
        BY <1>0, <3>2, <4>1 DEF NewsInv, Followed, OfecOnItsWay
      <4>2. CASE Queued(queue, OfecKey(c)) = {}
        <5>1. IsOfecUp(seenBitmap[c])
          BY <3>1, <3>2, <4>2 DEF NewsInv, Followed, OfecOnItsWay
        <5>2. Holds(OfecKey(c))' = {}
          BY <1>0, <3>1 DEF Holds
        <5>. QED  BY <1>0, <1>1, <3>1, <4>2, <5>1, <5>2 DEF OfecOnItsWay
      <4>. QED  BY <4>1, <4>2
    <3>3. ASSUME RxSettled(c) PROVE RxOnItsWay(c)'
      BY <2>0, <2>3, <3>3 DEF NewsInv, Followed, RxSame, RxOnItsWay
    <3>. QED  BY <2>1, <2>3, <3>2, <3>3 DEF Followed
  <2>. QED  BY <2>2, <2>3
<1>. QED  BY <1>2, <1>3 DEF NewsInv

LEMMA TimerSetFailsNews ==
    ASSUME NewsInv, QueueInv', FastActor = FALSE, NEW c \in Carriers, TimerSetFails(c)
    PROVE  NewsInv'
<1>0. /\ UNCHANGED <<conf, seenBitmap, seenRx, forceS, clearing, queue, actor, timer,
                     collUp, nxpUp, nxp>>
      /\ FastActor \/ ~LosesForce(OfecKey(c))
      /\ forceF' = forceF \cup {c} /\ inCallback' = inCallback \ {c}
  BY DEF TimerSetFails, SetForceCarrFaultToNxp, collVars, linkVars, OfecKey
<1>1. OneHand' /\ OnePlace'
  BY <1>0 DEF NewsInv, OneHand, OnePlace, Holds, Soaking
<1>2. ASSUME NEW d \in Carriers PROVE Followed(d)'
  <2>1. RxSame(d) /\ (RxSettled(d)' => RxSettled(d))
    BY <1>0 DEF RxSame, RxSettled, HasObjects, Holds, Asked
  <2>2. CASE d # c
    <3>1. OfecSame(d)
      BY <1>0, <2>2 DEF OfecSame, Holds, Soaking
    <3>2. OfecSettled(d)' => OfecSettled(d)
      BY <1>0, <2>2 DEF OfecSettled, HasObjects, Asked, OfecKey
    <3>. QED  BY <2>1, <3>1, <3>2, SameFollowed DEF NewsInv
  <2>3. CASE d = c
    <3>1. OfecSettled(c)' => OfecOnItsWay(c)'
      BY <1>0, FailedOfec DEF NewsInv, Followed
    <3>2. RxSettled(c)' => RxOnItsWay(c)'
      BY <2>1, <2>3 DEF NewsInv, Followed, RxSame, RxOnItsWay
    <3>. QED  BY <2>3, <3>1, <3>2 DEF Followed
  <2>. QED  BY <2>2, <2>3
<1>. QED  BY <1>1, <1>2 DEF NewsInv
-----------------------------------------------------------------------------
(* The configuration thread, the outages and the poll thread.              *)

\* Objects whose configuration alone differs.
LEMMA CfgNews ==
    ASSUME NEW c \in Carriers, NEW v \in BOOLEAN, nxp \in [Carriers -> Objects],
           nxp' = [nxp EXCEPT ![c].cfg = v]
    PROVE  \A d \in Carriers : nxp'[d].ofec = nxp[d].ofec /\ nxp'[d].rx = nxp[d].rx
<1>1. nxp' = [nxp EXCEPT ![c] = [nxp[c] EXCEPT !.cfg = v]] /\ nxp[c] \in Objects
  OBVIOUS
<1>2. /\ nxp'[c] = [nxp[c] EXCEPT !.cfg = v]
      /\ \A d \in Carriers : d # c => nxp'[d] = nxp[d]
  BY <1>1
<1>. QED  BY <1>1, <1>2 DEF Objects

LEMMA CreateCarrierNews ==
    ASSUME NewsInv, QueueInv', NEW c \in Carriers, CreateCarrier(c) PROVE NewsInv'
<1>0. /\ UNCHANGED <<queue, actor, timer, inCallback, collUp, nxpUp>>
      /\ clearing = {} /\ clearing' = {} /\ c \in forceF' /\ c \in forceS'
      /\ \A d \in Carriers : d # c => /\ conf'[d] = conf[d]
                                      /\ seenBitmap'[d] = seenBitmap[d]
                                      /\ seenRx'[d] = seenRx[d]
                                      /\ d \in forceF' <=> d \in forceF
                                      /\ d \in forceS' <=> d \in forceS
  <2>1. /\ UNCHANGED <<queue, actor, timer, inCallback, collUp, nxpUp, clearing>>
        /\ clearing = {} /\ forceF' = forceF \cup {c} /\ forceS' = forceS \cup {c}
        /\ conf' = [conf EXCEPT ![c] = "present"]
        /\ seenBitmap' \in {seenBitmap, [seenBitmap EXCEPT ![c] = "default"]}
        /\ seenRx' \in {seenRx, [seenRx EXCEPT ![c] = "unspecified"]}
    BY DEF CreateCarrier, CreateConfig, Unlocked, timerVars, linkVars
  <2>. QED  BY <2>1 DEF NewsInv, QueueInv, TypeOK
<1>1. OneHand' /\ OnePlace'
  BY <1>0 DEF NewsInv, OneHand, OnePlace, Holds, Soaking
<1>2. \A d \in Carriers : nxp'[d].ofec = nxp[d].ofec /\ nxp'[d].rx = nxp[d].rx
  <2>1. nxp' = [nxp EXCEPT ![c].cfg = TRUE] \/ nxp' = nxp
    BY DEF CreateCarrier
  <2>. QED  BY <2>1, CfgNews DEF NewsInv, QueueInv, TypeOK
<1>3. ASSUME NEW d \in Carriers PROVE Followed(d)'
  <2>1. CASE d # c
    <3>1. OfecSame(d) /\ RxSame(d)
      BY <1>0, <1>2, <2>1 DEF OfecSame, RxSame, Holds, Soaking
    <3>2. (OfecSettled(d)' => OfecSettled(d)) /\ (RxSettled(d)' => RxSettled(d))
      BY <1>0, <2>1 DEF OfecSettled, RxSettled, HasObjects, Asked, OfecKey, RxKey
    <3>. QED  BY <3>1, <3>2, SameFollowed DEF NewsInv
  <2>2. CASE d = c
    <3>1. ~OfecSettled(c)' /\ ~RxSettled(c)'
      BY <1>0 DEF OfecSettled, RxSettled, HasObjects, Asked, OfecKey, RxKey
    <3>. QED  BY <2>2, <3>1 DEF Followed
  <2>. QED  BY <2>1, <2>2
<1>. QED  BY <1>1, <1>3 DEF NewsInv

\* A refused creation reaches the processor's configuration and nothing else.
LEMMA CreateRefusedNews ==
    ASSUME NewsInv, QueueInv', NEW c \in Carriers, CreateRefused(c) PROVE NewsInv'
<1>0. /\ UNCHANGED <<seenBitmap, seenRx, forceF, forceS, clearing, queue, actor, timer,
                     inCallback, collUp, nxpUp>>
      /\ \A d \in Carriers : \/ conf'[d] = conf[d]
                             \/ conf[d] = "absent" /\ conf'[d] = "present"
  <2>1. /\ UNCHANGED <<seenBitmap, seenRx, forceF, forceS, clearing, queue, actor, timer,
                       inCallback, collUp, nxpUp>>
        /\ conf' = IF conf[c] = "absent" THEN [conf EXCEPT ![c] = "present"] ELSE conf
    BY DEF CreateRefused, collVars, forceVars, timerVars, linkVars
  <2>. QED  BY <2>1 DEF NewsInv, QueueInv, TypeOK
<1>1. OneHand' /\ OnePlace'
  BY <1>0 DEF NewsInv, OneHand, OnePlace, Holds, Soaking
<1>2. \A d \in Carriers : nxp'[d].ofec = nxp[d].ofec /\ nxp'[d].rx = nxp[d].rx
  <2>1. nxp' = [nxp EXCEPT ![c].cfg = TRUE] \/ nxp' = nxp
    BY DEF CreateRefused
  <2>. QED  BY <2>1, CfgNews DEF NewsInv, QueueInv, TypeOK
<1>3. ASSUME NEW d \in Carriers PROVE Followed(d)'
  <2>1. OfecSame(d) /\ RxSame(d)
    BY <1>0, <1>2 DEF OfecSame, RxSame, Holds, Soaking
  <2>2. OfecSettled(d)' => OfecSettled(d)
    BY <1>0 DEF OfecSettled, HasObjects, Asked
  <2>3. RxSettled(d)' => RxSettled(d)
    BY <1>0 DEF RxSettled, HasObjects, Asked
  <2>. QED  BY <2>1, <2>2, <2>3, SameFollowed DEF NewsInv
<1>. QED  BY <1>1, <1>3 DEF NewsInv

LEMMA DeleteConfigNews ==
    ASSUME NewsInv, QueueInv', NEW c \in Carriers, DeleteConfig(c) PROVE NewsInv'
<1>0. /\ UNCHANGED <<seenBitmap, seenRx, forceF, forceS, clearing, queue, actor, timer,
                     inCallback, collUp, nxpUp>>
      /\ conf'[c] = "deleting"
      /\ \A d \in Carriers : d # c => conf'[d] = conf[d]
  <2>1. /\ UNCHANGED <<seenBitmap, seenRx, forceF, forceS, clearing, queue, actor, timer,
                       inCallback, collUp, nxpUp>>
        /\ conf' = [conf EXCEPT ![c] = "deleting"]
    BY DEF DeleteConfig, collVars, forceVars, timerVars, linkVars
  <2>. QED  BY <2>1 DEF NewsInv, QueueInv, TypeOK
<1>1. OneHand' /\ OnePlace'
  BY <1>0 DEF NewsInv, OneHand, OnePlace, Holds, Soaking
<1>2. /\ nxp'[c].ofec = nxp[c].ofec
      /\ \A d \in Carriers : d # c => nxp'[d] = nxp[d]
  <2>0. nxp \in [Carriers -> Objects]
    BY DEF NewsInv, QueueInv, TypeOK
  <2>1. nxp' = nxp \/ nxp' = [nxp EXCEPT ![c].cfg = FALSE, ![c].rx = "none"]
    BY DEF DeleteConfig
  <2>2. CASE nxp' = [nxp EXCEPT ![c].cfg = FALSE, ![c].rx = "none"]
    <3>1. /\ nxp'[c] = [nxp[c] EXCEPT !.cfg = FALSE, !.rx = "none"]
          /\ \A d \in Carriers : d # c => nxp'[d] = nxp[d]
      BY <2>0, <2>2
    <3>2. nxp[c] \in Objects
      BY <2>0
    <3>. QED  BY <3>1, <3>2 DEF Objects
  <2>. QED  BY <2>1, <2>2
<1>3. ASSUME NEW d \in Carriers PROVE Followed(d)'
  <2>1. OfecSame(d)
    BY <1>0, <1>2 DEF OfecSame, Holds, Soaking
  <2>2. OfecSettled(d)' => OfecSettled(d)
    BY <1>0 DEF OfecSettled, HasObjects, Asked
  <2>3. CASE d # c
    <3>1. RxSame(d) /\ (RxSettled(d)' => RxSettled(d))
      BY <1>0, <1>2, <2>3 DEF RxSame, RxSettled, HasObjects, Holds, Asked
    <3>. QED  BY <2>1, <2>2, <3>1, SameFollowed DEF NewsInv
  <2>4. CASE d = c
    <3>1. ~RxSettled(c)'
      BY <1>0 DEF RxSettled
    <3>. QED  BY <2>1, <2>2, <2>4, <3>1 DEF NewsInv, Followed, OfecSame, OfecOnItsWay
  <2>. QED  BY <2>3, <2>4
<1>. QED  BY <1>1, <1>3 DEF NewsInv

LEMMA DeleteCarrierNews ==
    ASSUME QueueAssumption, RoomForAll, NewsInv, QueueInv',
           NEW c \in Carriers, DeleteCarrier(c)
    PROVE  NewsInv'
<1>0. /\ UNCHANGED <<actor, timer, inCallback, collUp, nxpUp, nxp, clearing>>
      /\ clearing = {} /\ seenRx'[c] = "none"
      /\ \A d \in Carriers : d # c => /\ conf'[d] = conf[d]
                                      /\ seenBitmap'[d] = seenBitmap[d]
                                      /\ seenRx'[d] = seenRx[d]
                                      /\ d \in forceF' <=> d \in forceF
                                      /\ d \in forceS' <=> d \in forceS
  <2>1. /\ UNCHANGED <<actor, timer, inCallback, collUp, nxpUp, nxp, clearing>>
        /\ clearing = {} /\ forceF' = forceF \ {c} /\ forceS' = forceS \ {c}
        /\ conf' = [conf EXCEPT ![c] = "absent"]
        /\ seenBitmap' \in {seenBitmap, [seenBitmap EXCEPT ![c] = "default"]}
        /\ seenRx' = [seenRx EXCEPT ![c] = "none"]
    BY DEF DeleteCarrier, Unlocked, timerVars, linkVars
  <2>. QED  BY <2>1 DEF NewsInv, QueueInv, TypeOK
<1>1. OneHand' /\ OnePlace'
  BY <1>0 DEF NewsInv, OneHand, OnePlace, Holds, Soaking
<1>2. PICK e \in Events : e = Event("delete", c, FALSE) /\ KeyOf(e) = OfecKey(c)
  <2>1. Event("delete", c, FALSE) \in Events
    BY EventTypes
  <2>2. KeyOf(Event("delete", c, FALSE)) = OfecKey(c)
    BY DEF Event, KeyOf, ClassOf, OfecKey
  <2>. QED  BY <2>1, <2>2
<1>3. \/ UNCHANGED queue
      \/ \A k : Queued(queue, k)' = IF k = OfecKey(c) THEN {e} ELSE Queued(queue, k)
  <2>1. queue' = queue \/ queue' = EnQueue(queue, e)
    BY <1>2 DEF DeleteCarrier
  <2>. QED  BY <1>2, <2>1, PostNews DEF NewsInv
<1>4. ASSUME NEW d \in Carriers PROVE Followed(d)'
  <2>1. CASE d # c
    <3>1. OfecSame(d) /\ RxSame(d)
      BY <1>0, <1>3, <2>1, KeysDiffer DEF OfecSame, RxSame, Holds, Soaking
    <3>2. (OfecSettled(d)' => OfecSettled(d)) /\ (RxSettled(d)' => RxSettled(d))
      BY <1>0, <2>1 DEF OfecSettled, RxSettled, HasObjects, Asked, OfecKey, RxKey
    <3>. QED  BY <3>1, <3>2, SameFollowed DEF NewsInv
  <2>2. CASE d = c
    <3>1. ~OfecSettled(c)' /\ ~RxSettled(c)'
      BY <1>0 DEF OfecSettled, RxSettled, HasObjects
    <3>. QED  BY <2>2, <3>1 DEF Followed
  <2>. QED  BY <2>1, <2>2
<1>. QED  BY <1>1, <1>4 DEF NewsInv

\* After a refused deletion the Rx state is nothing to rely on.
LEMMA DeleteRefusedNews ==
    ASSUME NewsInv, QueueInv', NEW c \in Carriers, DeleteRefused(c) PROVE NewsInv'
<1>0. /\ UNCHANGED <<seenBitmap, seenRx, forceF, forceS, clearing, queue, actor, timer,
                     inCallback, collUp, nxpUp, nxp>>
      /\ conf'[c] = "kept" /\ \A d \in Carriers : d # c => conf'[d] = conf[d]
  <2>1. /\ UNCHANGED <<seenBitmap, seenRx, forceF, forceS, clearing, queue, actor, timer,
                       inCallback, collUp, nxpUp, nxp>>
        /\ conf' = [conf EXCEPT ![c] = "kept"]
    BY DEF DeleteRefused, collVars, forceVars, timerVars, linkVars
  <2>. QED  BY <2>1 DEF NewsInv, QueueInv, TypeOK
<1>1. OneHand' /\ OnePlace'
  BY <1>0 DEF NewsInv, OneHand, OnePlace, Holds, Soaking
<1>2. ASSUME NEW d \in Carriers PROVE Followed(d)'
  <2>1. OfecSame(d) /\ RxSame(d)
    BY <1>0 DEF OfecSame, RxSame, Holds, Soaking
  <2>2. OfecSettled(d)' => OfecSettled(d)
    BY <1>0 DEF OfecSettled, HasObjects, Asked
  <2>3. RxSettled(d)' => RxSettled(d)
    BY <1>0 DEF RxSettled, HasObjects, Asked
  <2>. QED  BY <2>1, <2>2, <2>3, SameFollowed DEF NewsInv
<1>. QED  BY <1>1, <1>2 DEF NewsInv

LEMMA SyncConfigNews ==
    ASSUME NewsInv, QueueInv', NEW c \in Carriers, SyncConfig(c) PROVE NewsInv'
<1>0. UNCHANGED <<conf, seenBitmap, seenRx, forceF, forceS, clearing, queue, actor, timer,
                  inCallback, collUp, nxpUp>>
  BY DEF SyncConfig, collVars, forceVars, timerVars
<1>1. OneHand' /\ OnePlace'
  BY <1>0 DEF NewsInv, OneHand, OnePlace, Holds, Soaking
<1>2. \A d \in Carriers : nxp'[d].ofec = nxp[d].ofec /\ nxp'[d].rx = nxp[d].rx
  <2>1. nxp' = [nxp EXCEPT ![c].cfg = TRUE] \/ nxp' = nxp
    BY DEF SyncConfig
  <2>. QED  BY <2>1, CfgNews DEF NewsInv, QueueInv, TypeOK
<1>3. ASSUME NEW d \in Carriers PROVE Followed(d)'
  <2>1. OfecSame(d) /\ RxSame(d)
    BY <1>0, <1>2 DEF OfecSame, RxSame, Holds, Soaking
  <2>2. (OfecSettled(d)' => OfecSettled(d)) /\ (RxSettled(d)' => RxSettled(d))
    BY <1>0, FlagsSame
  <2>. QED  BY <2>1, <2>2, SameFollowed DEF NewsInv
<1>. QED  BY <1>1, <1>3 DEF NewsInv

\* With the processor down, or before the poll thread has seen it back,
\* nothing is settled.
LEMMA NxpNews ==
    ASSUME NewsInv, QueueInv', ShortOutage = FALSE, NxpDown \/ NxpBack PROVE NewsInv'
<1>0. /\ UNCHANGED <<actor, timer, inCallback>>
      /\ nxpUp' = FALSE \/ collUp' = FALSE
  BY DEF NxpDown, NxpBack, collVars, forceVars, timerVars, NewsInv, QueueInv, TypeOK
<1>1. OneHand' /\ OnePlace'
  BY <1>0 DEF NewsInv, OneHand, OnePlace, Holds, Soaking
<1>2. \A d \in Carriers : Followed(d)'
  BY <1>0 DEF Followed, OfecSettled, RxSettled
<1>. QED  BY <1>1, <1>2 DEF NewsInv

\* A new connection asks for everything; a lost one leaves nothing settled.
LEMMA SetIsConnectionUpNews ==
    ASSUME NewsInv, QueueInv', SetIsConnectionUp PROVE NewsInv'
<1>0. /\ UNCHANGED <<actor, timer, inCallback, clearing>> /\ clearing = {}
      /\ \/ forceF' = Carriers /\ forceS' = Carriers
         \/ collUp' = FALSE
  BY DEF SetIsConnectionUp, Unlocked, ForceAll, collVars, timerVars, NewsInv, QueueInv, TypeOK
<1>1. OneHand' /\ OnePlace'
  BY <1>0 DEF NewsInv, OneHand, OnePlace, Holds, Soaking
<1>2. ASSUME NEW d \in Carriers PROVE Followed(d)'
  <2>1. ~OfecSettled(d)' /\ ~RxSettled(d)'
    BY <1>0 DEF OfecSettled, RxSettled, HasObjects, Asked, OfecKey, RxKey
  <2>. QED  BY <2>1 DEF Followed
<1>. QED  BY <1>1, <1>2 DEF NewsInv

LEMMA StutterNews == ASSUME NewsInv, QueueInv', UNCHANGED vars PROVE NewsInv'
<1>0. UNCHANGED <<conf, seenBitmap, seenRx, forceF, forceS, clearing, queue, actor, timer,
                  inCallback, collUp, nxpUp, nxp>>
  BY DEF vars
<1>1. OneHand' /\ OnePlace'
  BY <1>0 DEF NewsInv, OneHand, OnePlace, Holds, Soaking
<1>2. ASSUME NEW d \in Carriers PROVE Followed(d)'
  <2>1. OfecSame(d) /\ RxSame(d)
    BY <1>0 DEF OfecSame, RxSame, Holds, Soaking
  <2>2. (OfecSettled(d)' => OfecSettled(d)) /\ (RxSettled(d)' => RxSettled(d))
    BY <1>0, FlagsSame
  <2>. QED  BY <2>1, <2>2, SameFollowed DEF NewsInv
<1>. QED  BY <1>1, <1>2 DEF NewsInv
-----------------------------------------------------------------------------
(* The environment the theorem is about: a late Rx event, a delete Set     *)
(* that fails and an outage that ends within a deletion are allowed.       *)
Orderly ==
    /\ Overlap = FALSE /\ FastActor = FALSE
    /\ RxFail = FALSE /\ ShortOutage = FALSE

LEMMA NewsStep ==
    ASSUME QueueAssumption, CarrierAssumption, RoomForAll, Orderly, NewsInv, [Next]_vars
    PROVE  NewsInv'
<1>0. QueueInv'
  BY QueueInvStep DEF NewsInv
<1>. USE DEF Orderly
<1>1. ASSUME NEW c \in Carriers, DcoChange(c) PROVE NewsInv'
  BY <1>0, <1>1, DcoChangeNews
<1>2. ASSUME NEW c \in Carriers, CollectFaults(c) PROVE NewsInv'
  BY <1>0, <1>2, CollectFaultsNews
<1>3. ASSUME NEW c \in Carriers, CollectState(c) PROVE NewsInv'
  BY <1>0, <1>3, CollectStateNews
<1>4. ASSUME NEW c \in Carriers, TimerExpired(c) PROVE NewsInv'
  BY <1>0, <1>4, TimerExpiredNews
<1>5. ASSUME NEW c \in Carriers, TimerSetDone(c) PROVE NewsInv'
  BY <1>0, <1>5, TimerSetDoneNews
<1>6. ASSUME NEW c \in Carriers, TimerSetFails(c) PROVE NewsInv'
  BY <1>0, <1>6, TimerSetFailsNews
<1>7. ASSUME NEW c \in Carriers, CreateCarrier(c) PROVE NewsInv'
  BY <1>0, <1>7, CreateCarrierNews
<1>9. ASSUME NEW c \in Carriers, DeleteConfig(c) PROVE NewsInv'
  BY <1>0, <1>9, DeleteConfigNews
<1>10. ASSUME NEW c \in Carriers, DeleteCarrier(c) PROVE NewsInv'
  BY <1>0, <1>10, DeleteCarrierNews
<1>8. ASSUME NEW c \in Carriers, CreateRefused(c) PROVE NewsInv'
  BY <1>0, <1>8, CreateRefusedNews
<1>11. ASSUME NEW c \in Carriers, DeleteRefused(c) PROVE NewsInv'
  BY <1>0, <1>11, DeleteRefusedNews
<1>12. ASSUME NEW c \in Carriers, SyncConfig(c) PROVE NewsInv'
  BY <1>0, <1>12, SyncConfigNews
<1>13. CASE ClearForce
  BY <1>0, <1>13, ClearForceNews
<1>14. CASE Take
  BY <1>0, <1>14, TakeNews
<1>15. CASE SetDone
  BY <1>0, <1>15, SetDoneNews
<1>16. CASE SetFails
  BY <1>0, <1>16, SetFailsNews
<1>17. CASE NxpDown \/ NxpBack
  BY <1>0, <1>17, NxpNews
<1>18. CASE SetIsConnectionUp
  BY <1>0, <1>18, SetIsConnectionUpNews
<1>19. CASE UNCHANGED vars
  BY <1>0, <1>19, StutterNews
<1>. HIDE DEF Orderly
<1>. QED  BY <1>1, <1>2, <1>3, <1>4, <1>5, <1>6, <1>7, <1>8, <1>9, <1>10, <1>11, <1>12,
             <1>13, <1>14, <1>15, <1>16, <1>17, <1>18, <1>19 DEF Next

LEMMA NewsIsSound == NewsInv => NoNewsIsNoDifference
<1>. SUFFICES ASSUME NewsInv, NEW c \in Carriers,
                     Reported(c), collUp, nxpUp, Quiet(c)
              PROVE  /\ c \notin forceF /\ seenBitmap[c] # "default" =>
                            nxp[c].ofec = (IF IsOfecUp(seenBitmap[c]) THEN "up" ELSE "down")
                     /\ c \notin forceS /\ seenRx[c] # "unspecified" /\ conf[c] # "kept" =>
                            nxp[c].rx = seenRx[c]
  BY DEF NoNewsIsNoDifference
<1>1. Queued(queue, OfecKey(c)) = {} /\ Queued(queue, RxKey(c)) = {}
  BY DEF Quiet, Waiting, Classes, OfecKey, RxKey
<1>2. Holds(OfecKey(c)) = {} /\ Holds(RxKey(c)) = {} /\ ~Soaking(c)
  <2>1. actor \subseteq Events
    BY DEF NewsInv, QueueInv, TypeOK
  <2>. QED  BY <2>1, KeysOfEvents DEF Quiet, Holds, Soaking
<1>3. c \notin forceF => ~Asked(forceF, OfecKey(c))
  BY DEF Asked, OfecKey
<1>4. c \notin forceS => ~Asked(forceS, RxKey(c))
  BY DEF Asked, RxKey
<1>5. OfecOnItsWay(c) =>
          nxp[c].ofec = (IF IsOfecUp(seenBitmap[c]) THEN "up" ELSE "down")
  BY <1>1, <1>2 DEF OfecOnItsWay
<1>6. RxOnItsWay(c) => nxp[c].rx = seenRx[c]
  BY <1>1, <1>2 DEF RxOnItsWay
<1>. QED  BY <1>3, <1>4, <1>5, <1>6 DEF NewsInv, Followed, OfecSettled, RxSettled, Reported

(***************************************************************************)
(* NoNewsIsSound.  In an orderly environment, with room for two events of  *)
(* every carrier, NoNewsIsNoDifference holds for every number of carriers, *)
(* fault bitmaps, failures and outages: a carrier of which nothing is on   *)
(* its way and nothing is asked for shows in the security processor what   *)
(* the collectors saw last.                                                *)
(***************************************************************************)
THEOREM NoNewsIsSound ==
    ASSUME RoomForAll, Orderly PROVE Spec => []NoNewsIsNoDifference
<1>1. Init => NewsInv
  BY NewsInit
<1>2. NewsInv /\ [Next]_vars => NewsInv'
  BY NewsStep, QueueAssumption, CarrierAssumption
<1>3. NewsInv => NoNewsIsNoDifference
  BY NewsIsSound
<1>. QED  BY <1>1, <1>2, <1>3, PTL DEF Spec
=============================================================================
