---------------------------- MODULE SecProcSubs ----------------------------
(***************************************************************************)
(* The state subscriptions to the DCO security processor (NXP) and their   *)
(* retry helper.  The VLAN adapter subscribes, per carrier, to the objects *)
(* of ObjsOf; the ICDP adapter does the same with one object.  Four        *)
(* threads meet in the helper's two lists: the poll and the configuration  *)
(* thread, which subscribe and unsubscribe; the callback thread of gRPC,   *)
(* which reports every answer and every error of a stream; and the loop    *)
(* that subscribes again every RETRY_INTERVAL.  Nothing keeps two of them  *)
(* from subscribing to one object: each asks the active list first and     *)
(* calls Subscribe later, without a lock, and an object whose answer is    *)
(* late is subscribed to once more by every iteration of the loop.         *)
(***************************************************************************)
EXTENDS Integers

CONSTANTS
    Carriers,
    Kinds,          \* objects per carrier: the VLAN state and the IKE- one
    MaxRetries,     \* MAX_RETRY_COUNT
    MaxStreams,     \* bound: streams of one object at a time
    MaxFail,        \* bound: streams that fail with the processor up
    MaxLoss,        \* bound: outages
    MaxConf,        \* bound: carriers created
    \* Named assumptions on the environment: FALSE excludes the behaviour.
    EarlyCallback,  \* the error of a stream comes before its AddCall
    LongWait,       \* an outage, or a late answer, uses up the tries of an
                    \* object
    ShortOutage     \* an outage ends before the poll thread has reported it

Objs == Carriers \X Kinds
ObjsOf(c) == {c} \X Kinds
Slots == 1 .. MaxStreams
Threads == {"poll", "config", "loop"}

ASSUME SubsAssumption ==
    /\ MaxRetries \in Nat \ {0} /\ MaxStreams \in Nat \ {0}
    /\ {MaxFail, MaxLoss, MaxConf} \subseteq Nat
    /\ {EarlyCallback, LongWait, ShortOutage} \subseteq BOOLEAN

VARIABLES
    conf,       \* carriers the DCO has taken, or that were sent to it again
    kept,       \* carriers in the cache of the configuration although the DCO
                \* refused to create them, or to delete them
    carrierSet, \* mCarrierSet
    active,     \* mActiveSubList: its keys
    retry,      \* mRetryList: tries per object, or NoEntry
    todo,       \* per thread, the objects it has yet to subscribe to: those
                \* of a CarrierCreate under way, or tmpRetryList of the loop
    inHand,     \* per thread, the object it is subscribing to and the slot
                \* of its stream, 0 before Subscribe
    cleaning,   \* the poll thread is in SetConnectionState(false)
    isUp,       \* mIsConnectionUp of the helper
    known,      \* mIsConnectUp of the adapter
    toSync,     \* carriers the poll thread has yet to send after an outage
    nxpUp,      \* the security processor answers
    stream,     \* per object and slot: none, opening, live or failing
    called,     \* streams AddCall has registered: <<object, slot>>
    fails, losses, confs

envVars   == <<fails, losses, confs>>
listVars  == <<active, retry>>
linkVars  == <<isUp, known, nxpUp>>
pollVars  == <<cleaning, toSync>>
setVars   == <<conf, kept, carrierSet>>
vars == <<conf, kept, carrierSet, active, retry, todo, inHand, cleaning, isUp, known, toSync,
          nxpUp, stream, called, fails, losses, confs>>

NoEntry == -1

TypeOK ==
    /\ conf \subseteq Carriers /\ kept \subseteq Carriers
    /\ carrierSet \subseteq Carriers
    /\ active \subseteq Objs
    /\ retry \in [Objs -> NoEntry .. MaxRetries]
    /\ todo \subseteq Threads \X Objs
    /\ inHand \subseteq Threads \X Objs \X (0 .. MaxStreams)
    /\ {cleaning, isUp, known, nxpUp} \subseteq BOOLEAN
    /\ toSync \subseteq Carriers
    /\ stream \in [Objs -> [Slots -> {"none", "opening", "live", "failing"}]]
    /\ called \subseteq Objs \X Slots
    /\ fails \in Nat /\ losses \in Nat /\ confs \in Nat

\* mIsConnectUp is not initialised.
Init ==
    /\ conf = {} /\ kept = {} /\ carrierSet = {}
    /\ active = {} /\ todo = {} /\ inHand = {}
    /\ retry = [o \in Objs |-> NoEntry]
    /\ cleaning = FALSE /\ toSync = {}
    /\ isUp = TRUE /\ known \in BOOLEAN /\ nxpUp = TRUE
    /\ stream = [o \in Objs |-> [s \in Slots |-> "none"]]
    /\ called = {}
    /\ fails = 0 /\ losses = 0 /\ confs = 0
-----------------------------------------------------------------------------
(* Streams.                                                                *)

Busy(o) == {s \in Slots : stream[o][s] # "none"}
Free(o) == {s \in Slots \ Busy(o) : \A t \in Threads : <<t, o, s>> \notin inHand}

HandOf(t) == {h \in inHand : h[1] = t}
Idle(t) == HandOf(t) = {} /\ \A o \in Objs : <<t, o>> \notin todo

\* SubscribeDcoSecProcVlanState: nothing for an object in the active list.
CheckActive(t, o) ==
    /\ <<t, o>> \in todo /\ HandOf(t) = {}
    /\ todo' = todo \ {<<t, o>>}
    /\ inHand' = IF o \in active THEN inHand ELSE inHand \cup {<<t, o, 0>>}
    /\ UNCHANGED <<setVars, listVars, pollVars, linkVars, stream, called, envVars>>

\* Subscribe of the CRUD service: a new stream, which fails if nobody answers.
OpenStream(o, s) ==
    /\ s \in Free(o) /\ \A t \in Free(o) : s <= t
    /\ stream' = [stream EXCEPT ![o][s] = IF nxpUp THEN "opening" ELSE "failing"]

Subscribe(t, o) ==
    /\ <<t, o, 0>> \in inHand
    /\ \E s \in Slots : /\ OpenStream(o, s)
                       /\ inHand' = (inHand \ {<<t, o, 0>>}) \cup {<<t, o, s>>}
    /\ UNCHANGED <<setVars, listVars, todo, pollVars, linkVars, called, envVars>>

\* AddCall, after Subscribe has returned the callback's identifier.
AddCall(t, o, s) ==
    /\ <<t, o, s>> \in inHand
    /\ inHand' = inHand \ {<<t, o, s>>}
    /\ called' = IF s \in Busy(o) THEN called \cup {<<o, s>>} ELSE called
    /\ UNCHANGED <<setVars, listVars, todo, pollVars, linkVars, stream, envVars>>
-----------------------------------------------------------------------------
(* The retry helper.                                                       *)

\* Mutant: the failed subscription stays in the active list.
AddKeepsActive(o) ==
    /\ retry' = IF retry[o] = NoEntry /\ isUp THEN [retry EXCEPT ![o] = 0] ELSE retry
    /\ UNCHANGED active

AddToReSubscriptionList(o) ==
    /\ retry' = IF retry[o] = NoEntry /\ isUp THEN [retry EXCEPT ![o] = 0] ELSE retry
    /\ active' = active \ {o}

RemoveFromReSubscriptionList(o) ==
    /\ retry' = [retry EXCEPT ![o] = NoEntry]
    /\ active' = active \cup {o}

\* Mutant: the loop takes every object, on the list or not.
DueAll == Objs

\* Objects on the list with tries left.
Due == {o \in Objs : retry[o] \in 0 .. (MaxRetries - 1)}

\* After one more try there is one for every failure and every outage to come.
EnoughTries(o) ==
    retry[o] + (MaxFail - fails) + (MaxLoss - losses) + 1 < MaxRetries

\* An iteration of ReSubscribeLoop under the mutex: it subscribes to the
\* objects found afterwards, without the mutex.
CollectRetries ==
    LET due == Due IN
    /\ Idle("loop") /\ due # {}
    /\ \/ LongWait
       \/ \A o \in due :
            EnoughTries(o) \/ (nxpUp /\ \A s \in Slots : stream[o][s] # "opening")
    /\ todo' = todo \cup ({"loop"} \X due)
    /\ retry' = [o \in Objs |-> IF o \in due THEN retry[o] + 1 ELSE retry[o]]
    /\ UNCHANGED <<setVars, active, inHand, pollVars, linkVars, stream, called, envVars>>
-----------------------------------------------------------------------------
(* The callbacks: HandleSubResponse.                                       *)

\* A stream answers, for the first time or with news.
Answer(o, s) ==
    /\ nxpUp
    /\ stream[o][s] \in {"opening", "live"} /\ <<o, s>> \in called
    /\ stream' = [stream EXCEPT ![o][s] = "live"]
    /\ RemoveFromReSubscriptionList(o)
    /\ UNCHANGED <<setVars, todo, inHand, pollVars, linkVars, called, envVars>>

\* The error of a stream ends it.  Before AddCall nobody knows whose it is.
Error(o, s) ==
    /\ stream[o][s] = "failing"
    /\ <<o, s>> \in called \/ EarlyCallback
    /\ IF <<o, s>> \in called THEN AddToReSubscriptionList(o) ELSE UNCHANGED listVars
    /\ stream' = [stream EXCEPT ![o][s] = "none"]
    /\ called' = called \ {<<o, s>>}
    /\ UNCHANGED <<setVars, todo, inHand, pollVars, linkVars, envVars>>
-----------------------------------------------------------------------------
(* The configuration and the poll thread.                                  *)

SyncReady == isUp /\ known /\ ~cleaning /\ toSync = {}

\* CarrierCreate: enters the carrier and subscribes to its objects in turn.
CarrierCreate(c, t) ==
    /\ carrierSet' = carrierSet \cup {c}
    /\ todo' = todo \cup ({t} \X ObjsOf(c))

CreateCarrier(c) ==
    /\ SyncReady /\ Idle("config") /\ c \notin conf /\ confs < MaxConf
    /\ conf' = conf \cup {c} /\ kept' = kept \ {c}
    /\ confs' = confs + 1
    /\ CarrierCreate(c, "config")
    /\ UNCHANGED <<listVars, inHand, pollVars, linkVars, stream, called, fails, losses>>

\* A CREATE the DCO refuses is cached, and the adapter is not told.
CreateRefused(c) ==
    /\ SyncReady /\ Idle("config") /\ c \notin conf \cup kept /\ confs < MaxConf
    /\ kept' = kept \cup {c} /\ confs' = confs + 1
    /\ UNCHANGED <<conf, carrierSet, listVars, todo, inHand, pollVars, linkVars, stream,
                   called, fails, losses>>

\* CarrierDelete and CleanupOnUnSubscribe, whether the DCO deletes the carrier
\* or refuses: the stream and its place in the active list stay.
DeleteCarrier(c) ==
    /\ SyncReady /\ Idle("config") /\ c \in conf \cup kept
    /\ conf' = conf \ {c} /\ carrierSet' = carrierSet \ {c}
    /\ kept' \in {kept \ {c}, kept \cup {c}}
    /\ retry' = [o \in Objs |-> IF c \in carrierSet /\ o \in ObjsOf(c)
                                  THEN NoEntry ELSE retry[o]]
    /\ UNCHANGED <<active, todo, inHand, pollVars, linkVars, stream, called, envVars>>

NoSyncUnderWay == ~cleaning /\ Idle("poll")

\* SetConnectionState(false): the flag first, then the retry entries of the
\* carriers, then the set of carriers.
ConnectionDown ==
    /\ ~nxpUp /\ known /\ NoSyncUnderWay
    /\ isUp' = FALSE
    /\ cleaning' = TRUE /\ toSync' = {}
    /\ UNCHANGED <<setVars, listVars, todo, inHand, known, nxpUp, stream, called, envVars>>

CleanUp ==
    /\ cleaning
    /\ retry' = [o \in Objs |-> IF o[1] \in carrierSet THEN NoEntry ELSE retry[o]]
    /\ carrierSet' = {}
    /\ cleaning' = FALSE /\ known' = FALSE
    /\ UNCHANGED <<conf, kept, active, todo, inHand, toSync, isUp, nxpUp, stream, called, envVars>>

\* SetConnectionState(true); the poll thread goes on to sync the carriers.
ConnectionUp ==
    /\ nxpUp /\ ~known /\ NoSyncUnderWay
    /\ isUp' = TRUE /\ known' = TRUE
    /\ toSync' = conf \cup kept
    /\ UNCHANGED <<setVars, listVars, todo, inHand, cleaning, nxpUp, stream, called, envVars>>

\* sendConfig of a carrier: NotifyCarrierCreate if the Set got through.
SyncCarrier(c) ==
    /\ c \in toSync /\ NoSyncUnderWay
    /\ toSync' = toSync \ {c}
    /\ \/ /\ nxpUp /\ CarrierCreate(c, "poll")
          /\ conf' = conf \cup {c} /\ kept' = kept \ {c}
       \/ ~nxpUp /\ UNCHANGED <<setVars, todo>>
    /\ UNCHANGED <<listVars, inHand, cleaning, linkVars, stream, called, envVars>>
-----------------------------------------------------------------------------
(* The security processor.                                                 *)

Fail(o, s) ==
    /\ stream[o][s] \in {"opening", "live"} /\ fails < MaxFail
    /\ stream' = [stream EXCEPT ![o][s] = "failing"]
    /\ fails' = fails + 1
    /\ UNCHANGED <<setVars, listVars, todo, inHand, pollVars, linkVars, called, losses, confs>>

NxpDown ==
    /\ nxpUp /\ losses < MaxLoss
    /\ nxpUp' = FALSE
    /\ losses' = losses + 1
    /\ stream' = [o \in Objs |-> [s \in Slots |->
                    IF stream[o][s] = "none" THEN "none" ELSE "failing"]]
    /\ UNCHANGED <<setVars, listVars, todo, inHand, pollVars, isUp, known, called, fails, confs>>

NxpBack ==
    /\ ~nxpUp
    /\ ShortOutage \/ ~known
    /\ nxpUp' = TRUE
    /\ UNCHANGED <<setVars, listVars, todo, inHand, pollVars, isUp, known, stream, called,
                   envVars>>
-----------------------------------------------------------------------------
Next ==
    \/ \E o \in Objs :
         \/ \E t \in Threads : CheckActive(t, o) \/ Subscribe(t, o)
         \/ \E s \in Slots : \/ \E t \in Threads : AddCall(t, o, s)
                            \/ Answer(o, s) \/ Error(o, s) \/ Fail(o, s)
    \/ \E c \in Carriers :
         CreateCarrier(c) \/ CreateRefused(c) \/ DeleteCarrier(c) \/ SyncCarrier(c)
    \/ CollectRetries \/ ConnectionDown \/ CleanUp \/ ConnectionUp
    \/ NxpDown \/ NxpBack

Spec == Init /\ [][Next]_vars

\* The threads keep running, and gRPC reports what becomes of a new stream;
\* a live one need have no news.
FairSpec ==
    /\ Spec
    /\ WF_vars(CollectRetries) /\ WF_vars(ConnectionDown) /\ WF_vars(CleanUp)
    /\ WF_vars(ConnectionUp)
    /\ \A c \in Carriers : WF_vars(SyncCarrier(c))
    /\ \A o \in Objs :
         /\ \A t \in Threads :
              /\ WF_vars(CheckActive(t, o)) /\ WF_vars(Subscribe(t, o))
              /\ WF_vars(\E s \in Slots : AddCall(t, o, s))
         /\ \A s \in Slots : /\ WF_vars(stream[o][s] = "opening" /\ Answer(o, s))
                             /\ WF_vars(Error(o, s))
-----------------------------------------------------------------------------
(* Properties.                                                             *)

\* Someone still has to subscribe to o, or is being told what became of it.
Pending(o) == \E t \in Threads : <<t, o>> \in todo \/ <<t, o, 0>> \in inHand

InCharge(o) == Busy(o) # {} \/ retry[o] \in 0 .. (MaxRetries - 1) \/ Pending(o)

(***************************************************************************)
(* NothingForgotten.  While the connection is up, every object of a        *)
(* carrier the adapter knows has a stream, or is on the retry list with    *)
(* tries left, or about to be subscribed to: no order of answers, errors,  *)
(* retries and connection changes drops it ("If there is a failure in the  *)
(* subscription - insert into the list for re-subscription").              *)
(***************************************************************************)
NothingForgotten ==
    isUp /\ ~cleaning => \A c \in carrierSet : \A o \in ObjsOf(c) : InCharge(o)

(***************************************************************************)
(* ActiveHasStream.  An object in the active list, for which a new         *)
(* subscription would be refused, has a stream whose fate is still to be   *)
(* reported.                                                               *)
(***************************************************************************)
ActiveHasStream == \A o \in active : Busy(o) # {}

(***************************************************************************)
(* EventuallySubscribed.  When the failures end and the processor stays    *)
(* up, every configured carrier has its streams for good; one whose last   *)
(* request the DCO refused not before it is created or sent again.         *)
(***************************************************************************)
EventuallySubscribed ==
    <>[](nxpUp => \A c \in conf : \A o \in ObjsOf(c) :
            \E s \in Slots : stream[o][s] = "live")
=============================================================================
