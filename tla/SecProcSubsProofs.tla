-------------------------- MODULE SecProcSubsProofs --------------------------
(***************************************************************************)
(* Proofs about SecProcSubs for any carriers, objects, bounds, failures    *)
(* and outages, and any number of streams an object has at a time: an      *)
(* object in the active list has a stream, and an object of a known        *)
(* carrier is dropped only when its tries are used up, which takes more    *)
(* failures and outages than there are.                                    *)
(***************************************************************************)
EXTENDS SecProcSubs, TLAPS

StreamStates == {"none", "opening", "live", "failing"}
-----------------------------------------------------------------------------
(* Types, in every environment.                                            *)

LEMMA TypesInit == ASSUME SubsAssumption, Init PROVE TypeOK
<1>1. retry \in [Objs -> NoEntry .. MaxRetries]
  BY DEF SubsAssumption, Init, NoEntry
<1>2. stream \in [Objs -> [Slots -> StreamStates]]
  <2>1. [s \in Slots |-> "none"] \in [Slots -> StreamStates]  BY DEF StreamStates
  <2>. QED  BY <2>1 DEF Init
<1>. QED  BY <1>1, <1>2 DEF Init, TypeOK, StreamStates

LEMMA ThreadTypes ==
    ASSUME SubsAssumption, TypeOK, NEW o \in Objs, NEW t \in Threads,
           \/ CheckActive(t, o) \/ Subscribe(t, o)
           \/ \E s \in Slots : AddCall(t, o, s)
    PROVE  TypeOK'
<1>. USE DEF setVars, listVars, pollVars, linkVars, envVars
<1>0. /\ stream \in [Objs -> [Slots -> StreamStates]] /\ MaxStreams \in Nat
      /\ inHand \subseteq Threads \X Objs \X (0 .. MaxStreams)
  BY DEF TypeOK, StreamStates, SubsAssumption
<1>1. CASE CheckActive(t, o)
  <2>1. <<t, o, 0>> \in Threads \X Objs \X (0 .. MaxStreams)  BY <1>0
  <2>2. inHand' \subseteq Threads \X Objs \X (0 .. MaxStreams) /\ todo' \subseteq todo
    BY <1>0, <1>1, <2>1 DEF CheckActive
  <2>. QED  BY <1>1, <2>2 DEF CheckActive, TypeOK
<1>2. CASE Subscribe(t, o)
  <2>1. PICK s \in Slots : OpenStream(o, s) /\ inHand' = (inHand \ {<<t, o, 0>>}) \cup {<<t, o, s>>}
    BY <1>2 DEF Subscribe
  <2>2. stream' \in [Objs -> [Slots -> StreamStates]]
    BY <1>0, <2>1 DEF OpenStream, StreamStates
  <2>3. <<t, o, s>> \in Threads \X Objs \X (0 .. MaxStreams)  BY <1>0 DEF Slots
  <2>4. inHand' \subseteq Threads \X Objs \X (0 .. MaxStreams)  BY <1>0, <2>1, <2>3
  <2>. QED  BY <1>2, <2>2, <2>4 DEF Subscribe, TypeOK, StreamStates
<1>3. ASSUME NEW s \in Slots, AddCall(t, o, s) PROVE TypeOK'
  BY <1>3 DEF AddCall, TypeOK
<1>. QED  BY <1>1, <1>2, <1>3

LEMMA StreamTypes ==
    ASSUME SubsAssumption, TypeOK, NEW o \in Objs, NEW s \in Slots,
           Answer(o, s) \/ Error(o, s) \/ Fail(o, s)
    PROVE  TypeOK'
<1>. USE DEF setVars, listVars, pollVars, linkVars, envVars
<1>1. /\ stream \in [Objs -> [Slots -> StreamStates]]
      /\ retry \in [Objs -> NoEntry .. MaxRetries] /\ MaxRetries \in Nat \ {0}
  BY DEF TypeOK, SubsAssumption, StreamStates
<1>2. CASE Answer(o, s)
  <2>1. stream' \in [Objs -> [Slots -> StreamStates]]
    BY <1>1, <1>2 DEF Answer, StreamStates
  <2>2. retry' \in [Objs -> NoEntry .. MaxRetries] /\ active' \subseteq Objs
    BY <1>1, <1>2 DEF Answer, RemoveFromReSubscriptionList, NoEntry, TypeOK
  <2>. QED  BY <1>2, <2>1, <2>2 DEF Answer, TypeOK, StreamStates
<1>3. CASE Error(o, s)
  <2>1. stream' \in [Objs -> [Slots -> StreamStates]]
    BY <1>1, <1>3 DEF Error, StreamStates
  <2>2. retry' \in [Objs -> NoEntry .. MaxRetries] /\ active' \subseteq Objs
    <3>1. 0 \in NoEntry .. MaxRetries  BY <1>1 DEF NoEntry
    <3>2. retry' \in {retry, [retry EXCEPT ![o] = 0]}
      BY <1>3 DEF Error, AddToReSubscriptionList
    <3>3. active' \in {active, active \ {o}}
      BY <1>3 DEF Error, AddToReSubscriptionList
    <3>4. retry' \in [Objs -> NoEntry .. MaxRetries]  BY <1>1, <3>1, <3>2
    <3>. QED  BY <3>3, <3>4 DEF TypeOK
  <2>. QED  BY <1>3, <2>1, <2>2 DEF Error, TypeOK, StreamStates
<1>4. CASE Fail(o, s)
  <2>1. stream' \in [Objs -> [Slots -> StreamStates]]
    BY <1>1, <1>4 DEF Fail, StreamStates
  <2>. QED  BY <1>4, <2>1 DEF Fail, TypeOK, StreamStates
<1>. QED  BY <1>2, <1>3, <1>4

LEMMA CarrierTypes ==
    ASSUME SubsAssumption, TypeOK, NEW c \in Carriers,
           CreateCarrier(c) \/ CreateRefused(c) \/ DeleteCarrier(c) \/ SyncCarrier(c)
    PROVE  TypeOK'
<1>. USE DEF setVars, listVars, pollVars, linkVars, envVars
<1>1. \A t \in Threads : {t} \X ObjsOf(c) \subseteq Threads \X Objs
  BY DEF ObjsOf, Objs
<1>2. "config" \in Threads /\ "poll" \in Threads  BY DEF Threads
<1>3. CASE CreateCarrier(c)
  BY <1>1, <1>2, <1>3 DEF CreateCarrier, CarrierCreate, TypeOK
<1>4. CASE DeleteCarrier(c)
  <2>1. retry' \in [Objs -> NoEntry .. MaxRetries]
    BY <1>4 DEF DeleteCarrier, TypeOK, NoEntry, SubsAssumption
  <2>. QED  BY <1>4, <2>1 DEF DeleteCarrier, TypeOK
<1>5. CASE SyncCarrier(c)
  BY <1>1, <1>2, <1>5 DEF SyncCarrier, CarrierCreate, TypeOK
<1>6. CASE CreateRefused(c)
  BY <1>6 DEF CreateRefused, TypeOK
<1>. QED  BY <1>3, <1>4, <1>5, <1>6

LEMMA LoopTypes ==
    ASSUME SubsAssumption, TypeOK, CollectRetries PROVE TypeOK'
<1>. USE DEF CollectRetries, setVars, pollVars, linkVars, envVars
<1>1. retry \in [Objs -> NoEntry .. MaxRetries] /\ MaxRetries \in Nat \ {0}
  BY DEF TypeOK, SubsAssumption
<1>2. /\ Due \subseteq Objs /\ todo' \subseteq Threads \X Objs
      /\ retry' = [x \in Objs |-> IF x \in Due THEN retry[x] + 1 ELSE retry[x]]
  BY DEF Due, TypeOK, Threads
<1>3. \A x \in Due : retry[x] + 1 \in NoEntry .. MaxRetries
  BY <1>1 DEF Due, NoEntry
<1>. QED  BY <1>1, <1>2, <1>3 DEF TypeOK

LEMMA LinkTypes ==
    ASSUME SubsAssumption, TypeOK,
           ConnectionDown \/ CleanUp \/ ConnectionUp \/ NxpDown \/ NxpBack
    PROVE  TypeOK'
<1>. USE DEF setVars, listVars, envVars, pollVars
<1>1. CASE ConnectionDown  BY <1>1 DEF ConnectionDown, TypeOK
<1>2. CASE CleanUp
  <2>1. retry' \in [Objs -> NoEntry .. MaxRetries]
    BY <1>2 DEF CleanUp, TypeOK, NoEntry, SubsAssumption
  <2>. QED  BY <1>2, <2>1 DEF CleanUp, TypeOK
<1>3. CASE ConnectionUp  BY <1>3 DEF ConnectionUp, TypeOK
<1>4. CASE NxpDown
  <2>1. \A x \in Objs :
          [s \in Slots |-> IF stream[x][s] = "none" THEN "none" ELSE "failing"]
            \in [Slots -> StreamStates]
    BY DEF StreamStates
  <2>2. stream' \in [Objs -> [Slots -> StreamStates]]
    BY <1>4, <2>1 DEF NxpDown
  <2>3. /\ UNCHANGED <<conf, kept, carrierSet, active, retry, todo, inHand, cleaning, isUp, known,
                       toSync, called, fails, confs>>
        /\ nxpUp' = FALSE /\ losses' = losses + 1
    BY <1>4 DEF NxpDown
  <2>4. {cleaning, isUp, known, nxpUp}' \subseteq BOOLEAN
    BY <2>3 DEF TypeOK
  <2>5. losses' \in Nat /\ fails' \in Nat /\ confs' \in Nat
    BY <2>3 DEF TypeOK
  <2>. QED  BY <2>2, <2>3, <2>4, <2>5 DEF TypeOK, StreamStates
<1>5. CASE NxpBack  BY <1>5 DEF NxpBack, TypeOK
<1>. QED  BY <1>1, <1>2, <1>3, <1>4, <1>5

LEMMA TypesStep ==
    ASSUME SubsAssumption, TypeOK, [Next]_vars PROVE TypeOK'
<1>1. CASE UNCHANGED vars  BY <1>1 DEF vars, TypeOK
<1>2. CASE Next
  <2>1. ASSUME NEW o \in Objs, NEW t \in Threads,
               \/ CheckActive(t, o) \/ Subscribe(t, o)
               \/ \E s \in Slots : AddCall(t, o, s)
        PROVE  TypeOK'
    BY <2>1, ThreadTypes
  <2>2. ASSUME NEW o \in Objs, NEW s \in Slots, Answer(o, s) \/ Error(o, s) \/ Fail(o, s)
        PROVE  TypeOK'
    BY <2>2, StreamTypes
  <2>3. ASSUME NEW c \in Carriers, CreateCarrier(c) \/ CreateRefused(c) \/ DeleteCarrier(c) \/ SyncCarrier(c)
        PROVE  TypeOK'
    BY <2>3, CarrierTypes
  <2>4. CASE CollectRetries  BY <2>4, LoopTypes
  <2>5. CASE ConnectionDown \/ CleanUp \/ ConnectionUp \/ NxpDown \/ NxpBack
    BY <2>5, LinkTypes
  <2>. QED  BY <1>2, <2>1, <2>2, <2>3, <2>4, <2>5 DEF Next
<1>. QED  BY <1>1, <1>2

(***************************************************************************)
(* SubsTypes.  The type invariant: no entry of the retry list exceeds      *)
(* MAX_RETRY_COUNT, in any environment.                                    *)
(***************************************************************************)
THEOREM SubsTypes == Spec => []TypeOK
<1>1. Init => TypeOK  BY TypesInit, SubsAssumption
<1>2. TypeOK /\ [Next]_vars => TypeOK'  BY TypesStep, SubsAssumption
<1>. QED  BY <1>1, <1>2, PTL DEF Spec
-----------------------------------------------------------------------------
(* Nothing is forgotten.                                                   *)

\* In hand, or given up after the last try.
Accounted(o) == InCharge(o) \/ retry[o] = MaxRetries

Kept == isUp /\ ~cleaning =>
            \A c \in carrierSet : \A o \in ObjsOf(c) : Accounted(o)

\* A connection reported down leaves nothing behind to be kept.
DownIsEmpty ==
    /\ ~known => carrierSet = {}
    /\ ~known \/ cleaning => toSync = {}

IInv == TypeOK /\ ActiveHasStream /\ Kept /\ DownIsEmpty
-----------------------------------------------------------------------------
(* What a step may do to the streams and the lists.                        *)

\* The invariant after a step that takes no stream and nothing out of hand.
LEMMA NothingTaken ==
    ASSUME IInv, TypeOK',
           active' \subseteq active,
           \A x \in Objs : Busy(x) # {} => Busy(x)' # {},
           \A x \in Objs : Accounted(x) => Accounted(x)',
           carrierSet' \subseteq carrierSet, toSync' \subseteq toSync,
           UNCHANGED <<isUp, known, cleaning>>
    PROVE  IInv'
<1>1. ActiveHasStream'
  <2>. SUFFICES ASSUME NEW o \in active' PROVE Busy(o)' # {}
    BY DEF ActiveHasStream
  <2>1. o \in active /\ o \in Objs  BY DEF IInv, TypeOK
  <2>. QED  BY <2>1 DEF IInv, ActiveHasStream
<1>2. Kept'
  <2>. SUFFICES ASSUME isUp', ~cleaning', NEW c \in carrierSet', NEW o \in ObjsOf(c)
                PROVE Accounted(o)'
    BY DEF Kept, ObjsOf
  <2>1. c \in Carriers /\ o \in Objs  BY DEF IInv, TypeOK, ObjsOf, Objs
  <2>. QED  BY <2>1 DEF IInv, Kept
<1>3. DownIsEmpty'
  BY DEF IInv, DownIsEmpty
<1>. QED  BY <1>1, <1>2, <1>3 DEF IInv
-----------------------------------------------------------------------------
(* The steps.                                                              *)

LEMMA InitIInv == ASSUME SubsAssumption, Init PROVE IInv
<1>1. TypeOK  BY TypesInit
<1>2. ActiveHasStream  BY DEF Init, ActiveHasStream
<1>3. Kept  BY DEF Init, Kept
<1>4. DownIsEmpty  BY DEF Init, DownIsEmpty
<1>. QED  BY <1>1, <1>2, <1>3, <1>4 DEF IInv

\* An object in the active list needs no new stream: it has one.
LEMMA CheckActiveStep ==
    ASSUME IInv, TypeOK', NEW o \in Objs, NEW t \in Threads, CheckActive(t, o) PROVE IInv'
<1>. USE DEF CheckActive, setVars, listVars, pollVars, linkVars, envVars
<1>1. \A x \in Objs : Busy(x)' = Busy(x)  BY DEF Busy
<1>2. \A x \in Objs : Accounted(x) => Accounted(x)'
  <2>. SUFFICES ASSUME NEW x \in Objs, Accounted(x) PROVE Accounted(x)'
    OBVIOUS
  <2>1. CASE x = o /\ o \in active
    BY <1>1, <2>1 DEF IInv, ActiveHasStream, Accounted, InCharge
  <2>2. CASE x = o /\ o \notin active
    <3>1. <<t, o, 0>> \in inHand'  BY <2>2
    <3>. QED  BY <2>2, <3>1 DEF Accounted, InCharge, Pending
  <2>3. CASE x # o
    <3>1. Pending(x) => Pending(x)'  BY <2>3 DEF Pending
    <3>. QED  BY <1>1, <3>1 DEF Accounted, InCharge, Pending
  <2>. QED  BY <2>1, <2>2, <2>3
<1>. QED  BY <1>1, <1>2, NothingTaken

LEMMA SubscribeStep ==
    ASSUME IInv, TypeOK', NEW o \in Objs, NEW t \in Threads, Subscribe(t, o) PROVE IInv'
<1>. USE DEF Subscribe, setVars, listVars, pollVars, linkVars, envVars
<1>0. PICK s \in Slots : OpenStream(o, s) /\ inHand' = (inHand \ {<<t, o, 0>>}) \cup {<<t, o, s>>}
  OBVIOUS
<1>1. Busy(o)' # {} /\ \A x \in Objs : Busy(x) # {} => Busy(x)' # {}
  <2>1. stream \in [Objs -> [Slots -> StreamStates]]
    BY DEF IInv, TypeOK, StreamStates
  <2>2. stream'[o][s] # "none"  BY <1>0, <2>1 DEF OpenStream
  <2>3. \A x \in Objs, u \in Slots : stream[x][u] # "none" => stream'[x][u] # "none"
    BY <1>0, <2>1, <2>2 DEF OpenStream
  <2>. QED  BY <2>2, <2>3 DEF Busy
<1>2. \A x \in Objs : Accounted(x) => Accounted(x)'
  <2>. SUFFICES ASSUME NEW x \in Objs, Accounted(x) PROVE Accounted(x)'
    OBVIOUS
  <2>1. CASE x = o  BY <1>1, <2>1 DEF Accounted, InCharge, Pending
  <2>2. CASE x # o
    <3>1. Pending(x) => Pending(x)'  BY <1>0, <2>2 DEF Pending
    <3>. QED  BY <1>1, <3>1 DEF Accounted, InCharge, Pending
  <2>. QED  BY <2>1, <2>2
<1>. QED  BY <1>1, <1>2, NothingTaken

LEMMA AddCallStep ==
    ASSUME IInv, TypeOK', NEW o \in Objs, NEW t \in Threads, NEW s \in Slots, AddCall(t, o, s)
    PROVE  IInv'
<1>. USE DEF AddCall, setVars, listVars, pollVars, linkVars, envVars
<1>1. \A x \in Objs : Busy(x)' = Busy(x)  BY DEF Busy
<1>2. s # 0
  <2>1. MaxStreams \in Nat  BY SubsAssumption DEF SubsAssumption
  <2>. QED  BY <2>1 DEF Slots
<1>3. \A x \in Objs : Accounted(x) => Accounted(x)'
  <2>1. \A x \in Objs : Pending(x) => Pending(x)'  BY <1>2 DEF Pending
  <2>. QED  BY <1>1, <2>1 DEF Accounted, InCharge, Pending
<1>. QED  BY <1>1, <1>3, NothingTaken

LEMMA FailStep ==
    ASSUME IInv, TypeOK', NEW o \in Objs, NEW s \in Slots, Fail(o, s) PROVE IInv'
<1>. USE DEF Fail, setVars, listVars, pollVars, linkVars, envVars
<1>1. \A x \in Objs : Busy(x) # {} => Busy(x)' # {}
  <2>1. stream \in [Objs -> [Slots -> StreamStates]]
    BY DEF IInv, TypeOK, StreamStates
  <2>2. \A x \in Objs, t \in Slots : stream[x][t] # "none" => stream'[x][t] # "none"
    BY <2>1
  <2>. QED  BY <2>2 DEF Busy
<1>2. \A x \in Objs : Accounted(x) => Accounted(x)'  BY <1>1 DEF Accounted, InCharge, Pending
<1>. QED  BY <1>1, <1>2, NothingTaken

LEMMA NxpDownStep == ASSUME IInv, TypeOK', NxpDown PROVE IInv'
<1>. USE DEF NxpDown, setVars, listVars, pollVars, linkVars, envVars
<1>1. \A x \in Objs : Busy(x) # {} => Busy(x)' # {}
  <2>1. \A x \in Objs, t \in Slots : stream[x][t] # "none" => stream'[x][t] # "none"
    OBVIOUS
  <2>. QED  BY <2>1 DEF Busy
<1>2. \A x \in Objs : Accounted(x) => Accounted(x)'  BY <1>1 DEF Accounted, InCharge, Pending
<1>. QED  BY <1>1, <1>2, NothingTaken

LEMMA NxpBackStep == ASSUME IInv, TypeOK', NxpBack PROVE IInv'
<1>. USE DEF NxpBack, setVars, listVars, pollVars, linkVars, envVars
<1>1. \A x \in Objs : Busy(x)' = Busy(x)  BY DEF Busy
<1>2. \A x \in Objs : Accounted(x) => Accounted(x)'  BY <1>1 DEF Accounted, InCharge, Pending
<1>. QED  BY <1>1, <1>2, NothingTaken

LEMMA CollectRetriesStep ==
    ASSUME IInv, TypeOK', CollectRetries PROVE IInv'
<1>. USE DEF CollectRetries, setVars, listVars, pollVars, linkVars, envVars
<1>1. /\ Due \subseteq Objs /\ todo' = todo \cup ({"loop"} \X Due) /\ "loop" \in Threads
      /\ retry' = [x \in Objs |-> IF x \in Due THEN retry[x] + 1 ELSE retry[x]]
  BY DEF Due, Threads
<1>2. \A x \in Objs : Busy(x)' = Busy(x)  BY DEF Busy
<1>3. \A x \in Objs : Accounted(x) => Accounted(x)'
  <2>. SUFFICES ASSUME NEW x \in Objs, Accounted(x) PROVE Accounted(x)'
    OBVIOUS
  <2>1. CASE x \in Due
    <3>1. <<"loop", x>> \in todo'  BY <1>1, <2>1
    <3>. QED  BY <1>1, <3>1 DEF Accounted, InCharge, Pending
  <2>2. CASE x \notin Due
    <3>1. retry'[x] = retry[x]  BY <1>1, <2>2
    <3>2. Pending(x) => Pending(x)'  BY <1>1 DEF Pending
    <3>. QED  BY <1>2, <3>1, <3>2 DEF Accounted, InCharge
  <2>. QED  BY <2>1, <2>2
<1>. QED  BY <1>1, <1>2, <1>3, NothingTaken

LEMMA AnswerStep ==
    ASSUME SubsAssumption, IInv, TypeOK', NEW o \in Objs, NEW s \in Slots, Answer(o, s)
    PROVE  IInv'
<1>. USE DEF Answer, RemoveFromReSubscriptionList, setVars, pollVars, linkVars, envVars
<1>1. /\ stream \in [Objs -> [Slots -> StreamStates]]
      /\ retry \in [Objs -> NoEntry .. MaxRetries] /\ MaxRetries \in Nat \ {0}
  BY DEF IInv, TypeOK, SubsAssumption, StreamStates
<1>2. stream'[o][s] # "none"  BY <1>1
<1>3. \A x \in Objs, t \in Slots : stream[x][t] # "none" => stream'[x][t] # "none"
  BY <1>1, <1>2
<1>4. Busy(o)' # {} /\ \A x \in Objs : Busy(x) # {} => Busy(x)' # {}
  BY <1>2, <1>3 DEF Busy
<1>5. \A x \in Objs : Accounted(x) => Accounted(x)'
  <2>. SUFFICES ASSUME NEW x \in Objs, Accounted(x) PROVE Accounted(x)'
    OBVIOUS
  <2>1. CASE x = o  BY <1>4, <2>1 DEF Accounted, InCharge, Pending
  <2>2. CASE x # o
    <3>1. retry'[x] = retry[x]  BY <1>1, <2>2
    <3>. QED  BY <1>4, <3>1 DEF Accounted, InCharge, Pending
  <2>. QED  BY <2>1, <2>2
<1>6. ActiveHasStream'
  <2>. SUFFICES ASSUME NEW x \in active' PROVE Busy(x)' # {}
    BY DEF ActiveHasStream
  <2>1. CASE x = o  BY <1>4, <2>1
  <2>2. CASE x # o
    <3>1. x \in active /\ x \in Objs  BY <2>2 DEF IInv, TypeOK
    <3>. QED  BY <1>4, <3>1 DEF IInv, ActiveHasStream
  <2>. QED  BY <2>1, <2>2
<1>7. Kept'
  <2>. SUFFICES ASSUME isUp', ~cleaning', NEW c \in carrierSet', NEW x \in ObjsOf(c)
                PROVE Accounted(x)'
    BY DEF Kept, ObjsOf
  <2>1. c \in carrierSet /\ x \in Objs  BY DEF IInv, TypeOK, ObjsOf, Objs
  <2>. QED  BY <1>5, <2>1 DEF IInv, Kept
<1>8. DownIsEmpty'  BY DEF IInv, DownIsEmpty
<1>. QED  BY <1>6, <1>7, <1>8 DEF IInv

\* An error of a registered stream takes the object out of the active list
\* and, while the connection is up, leaves it on the retry list.
LEMMA ErrorStep ==
    ASSUME SubsAssumption, EarlyCallback = FALSE, IInv, TypeOK',
           NEW o \in Objs, NEW s \in Slots, Error(o, s)
    PROVE  IInv'
<1>. USE DEF Error, AddToReSubscriptionList, setVars, pollVars, linkVars, envVars
<1>1. /\ stream \in [Objs -> [Slots -> StreamStates]]
      /\ retry \in [Objs -> NoEntry .. MaxRetries] /\ MaxRetries \in Nat \ {0}
  BY DEF IInv, TypeOK, SubsAssumption, StreamStates
<1>2. /\ active' = active \ {o}
      /\ retry' = IF retry[o] = NoEntry /\ isUp THEN [retry EXCEPT ![o] = 0] ELSE retry
  OBVIOUS
<1>3. \A x \in Objs \ {o} : Busy(x)' = Busy(x) /\ retry'[x] = retry[x]
  BY <1>1, <1>2 DEF Busy
<1>4. ActiveHasStream'
  BY <1>2, <1>3 DEF IInv, TypeOK, ActiveHasStream
<1>5. Kept'
  <2>. SUFFICES ASSUME isUp', ~cleaning', NEW c \in carrierSet', NEW x \in ObjsOf(c)
                PROVE Accounted(x)'
    BY DEF Kept, ObjsOf
  <2>1. c \in carrierSet /\ x \in Objs  BY DEF IInv, TypeOK, ObjsOf, Objs
  <2>2. CASE x = o
    <3>1. PICK n \in 0 .. MaxRetries : n = retry'[x]
      BY <1>1, <1>2, <2>2 DEF NoEntry
    <3>2. retry'[x] \in 0 .. (MaxRetries - 1) \/ retry'[x] = MaxRetries
      BY ONLY <3>1, MaxRetries \in Nat, <1>1
    <3>. QED  BY <3>2 DEF Accounted, InCharge, Pending
  <2>3. CASE x # o
    <3>1. Accounted(x)  BY <2>1 DEF IInv, Kept
    <3>. QED  BY <1>3, <2>1, <2>3, <3>1 DEF Accounted, InCharge, Pending
  <2>. QED  BY <2>2, <2>3
<1>6. DownIsEmpty'  BY DEF IInv, DownIsEmpty
<1>. QED  BY <1>4, <1>5, <1>6 DEF IInv

\* A carrier that is entered has its objects about to be subscribed to.
LEMMA CarrierCreateStep ==
    ASSUME IInv, TypeOK', NEW c \in Carriers, NEW t \in Threads,
           CarrierCreate(c, t), known, toSync' \subseteq toSync,
           UNCHANGED <<active, retry, inHand, cleaning, isUp, known, stream>>
    PROVE  IInv'
<1>. USE DEF CarrierCreate
<1>1. \A x \in Objs : Busy(x)' = Busy(x)  BY DEF Busy
<1>2. ActiveHasStream'  BY <1>1 DEF IInv, TypeOK, ActiveHasStream
<1>3. Kept'
  <2>. SUFFICES ASSUME isUp', ~cleaning', NEW d \in carrierSet', NEW x \in ObjsOf(d)
                PROVE Accounted(x)'
    BY DEF Kept, ObjsOf
  <2>0. d \in Carriers /\ x \in Objs  BY DEF TypeOK, ObjsOf, Objs
  <2>1. CASE d = c
    <3>1. <<t, x>> \in todo'  BY <2>1
    <3>. QED  BY <3>1 DEF Accounted, InCharge, Pending
  <2>2. CASE d # c
    <3>1. Accounted(x)  BY <2>2 DEF IInv, Kept
    <3>2. todo \subseteq todo'  OBVIOUS
    <3>. QED  BY <1>1, <2>0, <3>1, <3>2 DEF Accounted, InCharge, Pending
  <2>. QED  BY <2>1, <2>2
<1>4. DownIsEmpty'  BY DEF IInv, DownIsEmpty
<1>. QED  BY <1>2, <1>3, <1>4 DEF IInv

LEMMA CreateCarrierStep ==
    ASSUME IInv, TypeOK', NEW c \in Carriers, CreateCarrier(c) PROVE IInv'
<1>. USE DEF CreateCarrier, listVars, pollVars, linkVars
<1>1. known  BY DEF SyncReady
<1>2. "config" \in Threads  BY DEF Threads
<1>. QED  BY <1>1, <1>2, CarrierCreateStep

LEMMA CreateRefusedStep ==
    ASSUME IInv, TypeOK', NEW c \in Carriers, CreateRefused(c) PROVE IInv'
<1>. USE DEF CreateRefused, listVars, pollVars, linkVars
<1>1. \A x \in Objs : Busy(x)' = Busy(x)  BY DEF Busy
<1>2. \A x \in Objs : Accounted(x) => Accounted(x)'  BY <1>1 DEF Accounted, InCharge, Pending
<1>. QED  BY <1>1, <1>2, NothingTaken

LEMMA SyncCarrierStep ==
    ASSUME IInv, TypeOK', NEW c \in Carriers, SyncCarrier(c) PROVE IInv'
<1>. USE DEF SyncCarrier, setVars, listVars, linkVars, envVars
<1>1. CASE nxpUp
  <2>1. known  BY DEF IInv, DownIsEmpty
  <2>2. "poll" \in Threads  BY DEF Threads
  <2>. QED  BY <1>1, <2>1, <2>2, CarrierCreateStep
<1>2. CASE ~nxpUp
  <2>1. \A x \in Objs : Busy(x)' = Busy(x)  BY <1>2 DEF Busy
  <2>2. \A x \in Objs : Accounted(x) => Accounted(x)'
    BY <1>2, <2>1 DEF Accounted, InCharge, Pending
  <2>3. carrierSet' \subseteq carrierSet /\ toSync' \subseteq toSync  BY <1>2
  <2>. QED  BY <1>2, <2>1, <2>2, <2>3, NothingTaken
<1>. QED  BY <1>1, <1>2 DEF IInv, TypeOK

LEMMA DeleteCarrierStep ==
    ASSUME IInv, TypeOK', NEW c \in Carriers, DeleteCarrier(c) PROVE IInv'
<1>. USE DEF DeleteCarrier, pollVars, linkVars, envVars
<1>1. \A x \in Objs : Busy(x)' = Busy(x)  BY DEF Busy
<1>2. ActiveHasStream'  BY <1>1 DEF IInv, TypeOK, ActiveHasStream
<1>3. Kept'
  <2>. SUFFICES ASSUME isUp', ~cleaning', NEW d \in carrierSet', NEW x \in ObjsOf(d)
                PROVE Accounted(x)'
    BY DEF Kept, ObjsOf
  <2>1. d \in carrierSet /\ d # c /\ x \in Objs  BY DEF IInv, TypeOK, ObjsOf, Objs
  <2>2. retry'[x] = retry[x]  BY <2>1 DEF ObjsOf
  <2>3. Accounted(x)  BY <2>1 DEF IInv, Kept
  <2>. QED  BY <1>1, <2>1, <2>2, <2>3 DEF Accounted, InCharge, Pending
<1>4. DownIsEmpty'  BY DEF IInv, DownIsEmpty
<1>. QED  BY <1>2, <1>3, <1>4 DEF IInv

LEMMA ConnectionSteps ==
    ASSUME IInv, TypeOK', ConnectionDown \/ CleanUp \/ ConnectionUp PROVE IInv'
<1>. USE DEF setVars, listVars, envVars
<1>1. ActiveHasStream'
  <2>1. active' = active /\ stream' = stream  BY DEF ConnectionDown, CleanUp, ConnectionUp
  <2>. QED  BY <2>1 DEF IInv, ActiveHasStream, Busy
<1>2. CASE ConnectionDown  BY <1>1, <1>2 DEF ConnectionDown, IInv, Kept, DownIsEmpty
<1>3. CASE CleanUp  BY <1>1, <1>3 DEF CleanUp, IInv, Kept, DownIsEmpty
<1>4. CASE ConnectionUp
  <2>1. carrierSet' = {}  BY <1>4 DEF ConnectionUp, IInv, DownIsEmpty
  <2>. QED  BY <1>1, <1>4, <2>1 DEF ConnectionUp, IInv, Kept, DownIsEmpty, NoSyncUnderWay
<1>. QED  BY <1>2, <1>3, <1>4

-----------------------------------------------------------------------------
(***************************************************************************)
(* AlwaysIInv.  The strengthened invariant: the lists and the streams have *)
(* their types, an active object has a stream, an object of a known        *)
(* carrier is in hand or out of tries, and a connection reported down      *)
(* leaves no carrier behind.                                               *)
(***************************************************************************)
THEOREM AlwaysIInv == ASSUME EarlyCallback = FALSE PROVE Spec => []IInv
<1>. USE SubsAssumption
<1>1. Init => IInv  BY InitIInv
<1>2. IInv /\ [Next]_vars => IInv'
  <2>. SUFFICES ASSUME IInv, [Next]_vars PROVE IInv'
    OBVIOUS
  <2>0. TypeOK'  BY TypesStep DEF IInv
  <2>1. CASE UNCHANGED vars
    BY <2>1 DEF vars, IInv, TypeOK, ActiveHasStream, Kept, DownIsEmpty, Accounted,
                InCharge, Pending, Busy
  <2>2. CASE Next
    <3>1. ASSUME NEW o \in Objs, NEW t \in Threads, CheckActive(t, o) \/ Subscribe(t, o)
          PROVE IInv'
      BY <2>0, <3>1, CheckActiveStep, SubscribeStep
    <3>2. ASSUME NEW o \in Objs, NEW t \in Threads, NEW s \in Slots, AddCall(t, o, s)
          PROVE IInv'
      BY <2>0, <3>2, AddCallStep
    <3>3. ASSUME NEW o \in Objs, NEW s \in Slots, Answer(o, s) \/ Error(o, s) \/ Fail(o, s)
          PROVE IInv'
      BY <2>0, <3>3, AnswerStep, ErrorStep, FailStep
    <3>4. ASSUME NEW c \in Carriers,
                 \/ CreateCarrier(c) \/ CreateRefused(c)
                 \/ DeleteCarrier(c) \/ SyncCarrier(c)
          PROVE IInv'
      BY <2>0, <3>4, CreateCarrierStep, CreateRefusedStep, DeleteCarrierStep, SyncCarrierStep
    <3>5. CASE CollectRetries  BY <2>0, <3>5, CollectRetriesStep
    <3>6. CASE ConnectionDown \/ CleanUp \/ ConnectionUp  BY <2>0, <3>6, ConnectionSteps
    <3>7. CASE NxpDown \/ NxpBack  BY <2>0, <3>7, NxpDownStep, NxpBackStep
    <3>. QED  BY <2>2, <3>1, <3>2, <3>3, <3>4, <3>5, <3>6, <3>7 DEF Next
  <2>. QED  BY <2>1, <2>2
<1>. QED  BY <1>1, <1>2, PTL DEF Spec

(***************************************************************************)
(* ActiveIsAlive.  An object for which SubscribeDcoSecProcVlanState would  *)
(* refuse a new subscription always has a stream, whatever the order of    *)
(* answers, errors, retries, configuration and outages, and however long   *)
(* or short the outages and slow the answers are.                          *)
(***************************************************************************)
THEOREM ActiveIsAlive ==
    ASSUME EarlyCallback = FALSE PROVE Spec => []ActiveHasStream
<1>1. IInv => ActiveHasStream  BY DEF IInv
<1>. QED  BY <1>1, AlwaysIInv, PTL

(***************************************************************************)
(* DroppedOnlyWhenSpent.  NothingForgotten holds in every state in which   *)
(* no object has used up its MAX_RETRY_COUNT tries: spending them is the   *)
(* only way to lose a subscription.                                        *)
(***************************************************************************)
THEOREM DroppedOnlyWhenSpent ==
    ASSUME EarlyCallback = FALSE
    PROVE  Spec => []((\A o \in Objs : retry[o] # MaxRetries) => NothingForgotten)
<1>1. IInv => ((\A o \in Objs : retry[o] # MaxRetries) => NothingForgotten)
  <2>. SUFFICES ASSUME IInv, \A o \in Objs : retry[o] # MaxRetries, isUp, ~cleaning,
                       NEW c \in carrierSet, NEW o \in ObjsOf(c)
                PROVE InCharge(o)
    BY DEF NothingForgotten
  <2>1. o \in Objs /\ Accounted(o)  BY DEF IInv, TypeOK, Kept, ObjsOf, Objs
  <2>. QED  BY <2>1 DEF Accounted
<1>. QED  BY <1>1, AlwaysIInv, PTL
-----------------------------------------------------------------------------
(***************************************************************************)
(* The tries.  Failures and outages to come never outnumber the tries an   *)
(* object on the retry list has left; a try under way has been counted     *)
(* before the failure that makes it necessary again.                       *)
(***************************************************************************)
Left == (MaxFail - fails) + (MaxLoss - losses)
ByLoop(o) == <<"loop", o>> \in todo \/ <<"loop", o, 0>> \in inHand
Trying(o) == nxpUp /\ (ByLoop(o) \/ \E s \in Slots : stream[o][s] = "opening")

TriesLeft(o) ==
    retry[o] # NoEntry =>
        \/ retry[o] + Left + 1 <= MaxRetries
        \/ Trying(o) /\ retry[o] + Left <= MaxRetries

\* A failure there is to report has been counted.
Counted ==
    /\ fails <= MaxFail /\ losses <= MaxLoss
    /\ ~nxpUp => fails + losses > 0
    /\ \A o \in Objs, s \in Slots : stream[o][s] = "failing" => fails + losses > 0

ActiveIsDone == \A o \in active : retry[o] = NoEntry

TriesInv ==
    /\ TypeOK /\ Counted /\ ActiveIsDone
    /\ \A o \in Objs : TriesLeft(o)

\* The failures and outages are no more than the tries of an object.
EnoughForAll == MaxFail + MaxLoss <= MaxRetries

LEMMA TriesInit == ASSUME SubsAssumption, Init PROVE TriesInv
<1>1. TypeOK  BY TypesInit
<1>2. Counted  BY DEF Init, Counted, SubsAssumption
<1>3. ActiveIsDone /\ \A o \in Objs : TriesLeft(o)
  BY DEF Init, ActiveIsDone, TriesLeft
<1>. QED  BY <1>1, <1>2, <1>3 DEF TriesInv

LEMMA Numbers ==
    ASSUME SubsAssumption, TypeOK
    PROVE  /\ MaxRetries \in Nat /\ MaxFail \in Nat /\ MaxLoss \in Nat
           /\ fails \in Nat /\ losses \in Nat /\ Left \in Int
           /\ \A o \in Objs : retry[o] \in Int
  BY DEF SubsAssumption, TypeOK, NoEntry, Left

\* An object whose entry is gone, or stays while no try ends unless a
\* failure or an outage has been counted for it.
LEMMA TriesKept ==
    ASSUME SubsAssumption, TypeOK, NEW o \in Objs, TriesLeft(o), Left' \in Int,
           retry'[o] \in {retry[o], NoEntry},
           \/ Left' = Left /\ (Trying(o) => Trying(o)')
           \/ Left' = Left - 1
    PROVE  TriesLeft(o)'
<1>. SUFFICES ASSUME retry'[o] # NoEntry PROVE TriesLeft(o)'
  BY DEF TriesLeft
<1>1. retry'[o] = retry[o] /\ retry[o] \in Int /\ Left \in Int /\ MaxRetries \in Int
  BY Numbers
<1>. QED  BY <1>1 DEF TriesLeft

\* The active list has the object only once its entry is gone.
LEMMA CheckActiveTries ==
    ASSUME SubsAssumption, TriesInv, TypeOK', NEW o \in Objs, NEW t \in Threads,
           CheckActive(t, o)
    PROVE  TriesInv'
<1>. USE DEF setVars, listVars, linkVars, envVars
<1>0. TypeOK /\ UNCHANGED <<active, retry, stream, nxpUp, fails, losses>>
  BY DEF TriesInv, CheckActive
<1>1. Counted'  BY <1>0 DEF TriesInv, Counted
<1>2. ActiveIsDone'  BY <1>0 DEF TriesInv, ActiveIsDone
<1>3. ASSUME NEW x \in Objs PROVE TriesLeft(x)'
  <2>1. Left' = Left /\ Left \in Int  BY <1>0, Numbers DEF Left
  <2>2. CASE x = o /\ o \in active
    BY <1>0, <2>2 DEF TriesInv, ActiveIsDone, TriesLeft
  <2>3. CASE x # o \/ o \notin active
    <3>1. ByLoop(x) => ByLoop(x)'  BY <2>3 DEF ByLoop, CheckActive
    <3>2. Trying(x) => Trying(x)'  BY <1>0, <3>1 DEF Trying
    <3>. QED  BY <1>0, <2>1, <3>2, TriesKept DEF TriesInv
  <2>. QED  BY <2>2, <2>3
<1>. QED  BY <1>1, <1>2, <1>3 DEF TriesInv

LEMMA SubscribeTries ==
    ASSUME SubsAssumption, TriesInv, TypeOK', NEW o \in Objs, NEW t \in Threads,
           Subscribe(t, o)
    PROVE  TriesInv'
<1>. USE DEF setVars, listVars, linkVars, envVars
<1>0. /\ stream \in [Objs -> [Slots -> StreamStates]] /\ TypeOK
      /\ UNCHANGED <<active, retry, nxpUp, fails, losses, todo>>
  BY DEF TriesInv, TypeOK, StreamStates, Subscribe
<1>1. PICK s \in Slots :
        /\ stream[o][s] = "none"
        /\ stream' = [stream EXCEPT ![o][s] = IF nxpUp THEN "opening" ELSE "failing"]
        /\ inHand' = (inHand \ {<<t, o, 0>>}) \cup {<<t, o, s>>}
  BY DEF Subscribe, OpenStream, Free, Busy
<1>2. /\ nxpUp => stream'[o][s] = "opening"
      /\ \A x \in Objs, u \in Slots :
            /\ stream'[x][u] = "failing" => stream[x][u] = "failing" \/ ~nxpUp
            /\ stream[x][u] = "opening" => stream'[x][u] = "opening"
  BY <1>0, <1>1
<1>3. Counted'  BY <1>0, <1>2 DEF TriesInv, Counted
<1>4. ActiveIsDone'  BY <1>0 DEF TriesInv, ActiveIsDone
<1>5. ASSUME NEW x \in Objs PROVE TriesLeft(x)'
  <2>1. Left' = Left /\ Left \in Int  BY <1>0, Numbers DEF Left
  <2>2. CASE x # o
    <3>1. ByLoop(x) => ByLoop(x)'  BY <1>0, <1>1, <2>2 DEF ByLoop
    <3>2. Trying(x) => Trying(x)'  BY <1>0, <1>2, <3>1 DEF Trying
    <3>. QED  BY <1>0, <2>1, <3>2, TriesKept DEF TriesInv
  <2>3. CASE x = o
    <3>1. Trying(o) => Trying(o)'  BY <1>0, <1>2 DEF Trying
    <3>. QED  BY <1>0, <2>1, <2>3, <3>1, TriesKept DEF TriesInv
  <2>. QED  BY <2>2, <2>3
<1>. QED  BY <1>3, <1>4, <1>5 DEF TriesInv

LEMMA AnswerTries ==
    ASSUME SubsAssumption, TriesInv, TypeOK', NEW o \in Objs, NEW s \in Slots, Answer(o, s)
    PROVE  TriesInv'
<1>0. /\ stream \in [Objs -> [Slots -> StreamStates]] /\ TypeOK
      /\ retry \in [Objs -> NoEntry .. MaxRetries]
      /\ UNCHANGED <<nxpUp, fails, losses, todo, inHand>>
      /\ stream' = [stream EXCEPT ![o][s] = "live"]
      /\ retry' = [retry EXCEPT ![o] = NoEntry] /\ active' = active \cup {o}
  BY DEF TriesInv, TypeOK, StreamStates, Answer, RemoveFromReSubscriptionList,
         linkVars, envVars
<1>1. /\ \A x \in Objs \ {o} : stream'[x] = stream[x] /\ retry'[x] = retry[x]
      /\ \A x \in Objs, t \in Slots : stream'[x][t] = "failing" => stream[x][t] = "failing"
      /\ retry'[o] = NoEntry
  BY <1>0
<1>2. Counted'  BY <1>0, <1>1 DEF TriesInv, Counted
<1>3. ActiveIsDone'  BY <1>0, <1>1 DEF TriesInv, ActiveIsDone, TypeOK
<1>4. ASSUME NEW x \in Objs PROVE TriesLeft(x)'
  <2>1. Left' = Left /\ Left \in Int  BY <1>0, Numbers DEF Left
  <2>2. CASE x # o
    <3>1. Trying(x)' <=> Trying(x)  BY <1>0, <1>1, <2>2 DEF Trying, ByLoop
    <3>. QED  BY <1>0, <1>1, <2>1, <2>2, <3>1, TriesKept DEF TriesInv
  <2>3. CASE x = o  BY <1>1, <2>3 DEF TriesLeft
  <2>. QED  BY <2>2, <2>3
<1>. QED  BY <1>2, <1>3, <1>4 DEF TriesInv

\* The first error of an object comes after a failure or an outage.
LEMMA ErrorTries ==
    ASSUME SubsAssumption, EnoughForAll, TriesInv, TypeOK', NEW o \in Objs, NEW s \in Slots,
           Error(o, s)
    PROVE  TriesInv'
<1>0. /\ stream \in [Objs -> [Slots -> StreamStates]] /\ TypeOK
      /\ retry \in [Objs -> NoEntry .. MaxRetries]
      /\ UNCHANGED <<nxpUp, fails, losses, todo, inHand>>
      /\ stream[o][s] = "failing" /\ stream' = [stream EXCEPT ![o][s] = "none"]
      /\ \/ UNCHANGED <<active, retry>>
         \/ active' = active \ {o} /\ retry' = retry
         \/ active' = active \ {o} /\ retry' = [retry EXCEPT ![o] = 0] /\ retry[o] = NoEntry
  BY DEF TriesInv, TypeOK, StreamStates, Error, AddToReSubscriptionList,
         linkVars, envVars, listVars
<1>1. /\ \A x \in Objs \ {o} : retry'[x] = retry[x]
      /\ \A x \in Objs, t \in Slots : stream'[x][t] = "failing" => stream[x][t] = "failing"
      /\ \A x \in Objs, t \in Slots : stream[x][t] = "opening" => stream'[x][t] = "opening"
      /\ retry'[o] = retry[o] \/ (retry'[o] = 0 /\ retry[o] = NoEntry)
  BY <1>0
<1>2. Counted'  BY <1>0, <1>1 DEF TriesInv, Counted
<1>3. ActiveIsDone'  BY <1>0, <1>1 DEF TriesInv, ActiveIsDone, TypeOK
<1>4. ASSUME NEW x \in Objs PROVE TriesLeft(x)'
  <2>1. Left' = Left /\ Left \in Int  BY <1>0, Numbers DEF Left
  <2>2. Trying(x) => Trying(x)'  BY <1>0, <1>1 DEF Trying, ByLoop
  <2>3. CASE retry'[x] = retry[x]
    BY <1>0, <2>1, <2>2, <2>3, TriesKept DEF TriesInv
  <2>4. CASE retry'[x] = 0
    <3>1. fails + losses > 0  BY <1>0 DEF TriesInv, Counted
    <3>2. Left + 1 <= MaxRetries
      <4>1. /\ MaxRetries \in Nat /\ MaxFail \in Nat /\ MaxLoss \in Nat
            /\ fails \in Nat /\ losses \in Nat
        BY <1>0, Numbers
      <4>. QED  BY <3>1, <4>1 DEF EnoughForAll, Left
    <3>. QED  BY <2>1, <2>4, <3>2 DEF TriesLeft
  <2>. QED  BY <1>1, <2>3, <2>4
<1>. QED  BY <1>2, <1>3, <1>4 DEF TriesInv

\* A failure or an outage is counted, for every object.
LEMMA FailureTries ==
    ASSUME SubsAssumption, TriesInv, TypeOK',
           NxpDown \/ \E o \in Objs, s \in Slots : Fail(o, s)
    PROVE  TriesInv'
<1>. USE DEF setVars, listVars
<1>0. TypeOK /\ UNCHANGED <<active, retry>>
  BY DEF TriesInv, NxpDown, Fail
<1>1. /\ fails' <= MaxFail /\ losses' <= MaxLoss /\ fails' + losses' > 0
      /\ Left' = Left - 1 /\ Left' \in Int
  <2>1. /\ MaxFail \in Nat /\ MaxLoss \in Nat /\ fails \in Nat /\ losses \in Nat
        /\ fails <= MaxFail /\ losses <= MaxLoss
    BY <1>0, Numbers DEF TriesInv, Counted
  <2>2. \/ losses < MaxLoss /\ losses' = losses + 1 /\ fails' = fails
        \/ fails < MaxFail /\ fails' = fails + 1 /\ losses' = losses
    BY DEF NxpDown, Fail
  <2>. QED  BY <2>1, <2>2 DEF Left
<1>2. Counted'  BY <1>1 DEF Counted
<1>3. ActiveIsDone'  BY <1>0 DEF TriesInv, ActiveIsDone
<1>4. \A x \in Objs : TriesLeft(x)'
  BY <1>0, <1>1, TriesKept DEF TriesInv
<1>. QED  BY <1>2, <1>3, <1>4 DEF TriesInv

\* The loop counts a try before it is made: the try is under way, or with the
\* processor down or an answer late there are EnoughTries.
LEMMA CollectRetriesTries ==
    ASSUME SubsAssumption, LongWait = FALSE, TriesInv, TypeOK', CollectRetries
    PROVE  TriesInv'
<1>. USE DEF setVars, linkVars, envVars
<1>0. /\ TypeOK /\ retry \in [Objs -> NoEntry .. MaxRetries]
      /\ Idle("loop") /\ todo' = todo \cup ({"loop"} \X Due)
      /\ UNCHANGED <<active, stream, inHand, nxpUp, fails, losses>>
      /\ Due \subseteq Objs /\ \A x \in Due : retry[x] # NoEntry
      /\ retry' = [x \in Objs |-> IF x \in Due THEN retry[x] + 1 ELSE retry[x]]
      /\ \A x \in Due :
            EnoughTries(x) \/ (nxpUp /\ \A s \in Slots : stream[x][s] # "opening")
  BY DEF TriesInv, TypeOK, CollectRetries, Due, NoEntry
<1>1. \A x \in Objs : ~ByLoop(x)
  <2>. SUFFICES ASSUME NEW x \in Objs PROVE ~ByLoop(x)
    OBVIOUS
  <2>1. <<"loop", x>> \notin todo  BY <1>0 DEF Idle
  <2>2. ASSUME <<"loop", x, 0>> \in inHand PROVE FALSE
    <3>1. <<"loop", x, 0>>[1] = "loop"  OBVIOUS
    <3>. QED  BY <1>0, <2>2, <3>1 DEF Idle, HandOf
  <2>. QED  BY <2>1, <2>2 DEF ByLoop
<1>2. Counted'  BY <1>0 DEF TriesInv, Counted
<1>3. ActiveIsDone'
  <2>. SUFFICES ASSUME NEW x \in active PROVE retry'[x] = NoEntry
    BY <1>0 DEF ActiveIsDone
  <2>1. x \in Objs /\ retry[x] = NoEntry  BY <1>0 DEF TriesInv, ActiveIsDone, TypeOK
  <2>. QED  BY <1>0, <2>1
<1>4. ASSUME NEW x \in Objs PROVE TriesLeft(x)'
  <2>1. Left' = Left /\ Left \in Int /\ retry[x] \in Int /\ MaxRetries \in Int
    BY <1>0, Numbers DEF Left
  <2>2. CASE x \notin Due
    <3>1. Trying(x) => Trying(x)'  BY <1>0 DEF Trying, ByLoop
    <3>2. retry'[x] = retry[x]  BY <1>0, <2>2
    <3>. QED  BY <1>0, <2>1, <3>1, <3>2, TriesKept DEF TriesInv
  <2>3. CASE x \in Due
    <3>1. retry'[x] = retry[x] + 1  BY <1>0, <2>3
    <3>2. CASE nxpUp /\ \A s \in Slots : stream[x][s] # "opening"
      <4>1. ~Trying(x)  BY <1>1, <3>2 DEF Trying
      <4>2. retry[x] + Left + 1 <= MaxRetries
        BY <1>0, <2>3, <4>1 DEF TriesInv, TriesLeft
      <4>3. <<"loop", x>> \in todo'  BY <1>0, <2>3
      <4>4. Trying(x)'  BY <1>0, <3>2, <4>3 DEF Trying, ByLoop
      <4>. QED  BY <2>1, <3>1, <4>2, <4>4 DEF TriesLeft
    <3>3. CASE EnoughTries(x)
      <4>1. /\ MaxFail \in Nat /\ MaxLoss \in Nat /\ fails \in Nat /\ losses \in Nat
        BY <1>0, Numbers
      <4>2. retry[x] + Left + 1 < MaxRetries  BY <2>1, <3>3, <4>1 DEF EnoughTries, Left
      <4>. QED  BY <2>1, <3>1, <4>2 DEF TriesLeft
    <3>. QED  BY <1>0, <2>3, <3>2, <3>3
  <2>. QED  BY <2>2, <2>3
<1>. QED  BY <1>2, <1>3, <1>4 DEF TriesInv

\* The other steps at most take entries off the list.
LEMMA OtherTries ==
    ASSUME SubsAssumption, TriesInv, TypeOK',
           \/ \E o \in Objs, t \in Threads, s \in Slots : AddCall(t, o, s)
           \/ \E c \in Carriers : CreateCarrier(c) \/ CreateRefused(c) \/ DeleteCarrier(c) \/ SyncCarrier(c)
           \/ ConnectionDown \/ CleanUp \/ ConnectionUp \/ NxpBack
           \/ UNCHANGED vars
    PROVE  TriesInv'
<1>. USE DEF setVars, listVars, linkVars, envVars
<1>0. /\ TypeOK /\ retry \in [Objs -> NoEntry .. MaxRetries]
      /\ UNCHANGED <<active, stream, fails, losses>> /\ nxpUp' \in {nxpUp, TRUE}
  BY DEF TriesInv, TypeOK, AddCall, CreateCarrier, CreateRefused, DeleteCarrier, SyncCarrier,
         ConnectionDown, CleanUp, ConnectionUp, NxpBack, vars
<1>1. \A x \in Objs : retry'[x] \in {retry[x], NoEntry}
  BY <1>0 DEF AddCall, CreateCarrier, CreateRefused, DeleteCarrier, SyncCarrier,
              ConnectionDown, CleanUp, ConnectionUp, NxpBack, vars
<1>2. Counted'
  <2>1. ~nxpUp' => ~nxpUp
    <3>1. nxpUp \in BOOLEAN  BY <1>0 DEF TypeOK
    <3>. QED  BY <1>0, <3>1
  <2>2. \A x \in Objs, s \in Slots : stream'[x][s] = stream[x][s]  BY <1>0
  <2>. QED  BY <1>0, <2>1, <2>2 DEF TriesInv, Counted
<1>3. ActiveIsDone'  BY <1>0, <1>1 DEF TriesInv, ActiveIsDone, TypeOK
<1>4. ASSUME NEW x \in Objs, ByLoop(x) PROVE ByLoop(x)'
  <2>1. todo \subseteq todo'
    BY <1>0 DEF AddCall, CreateCarrier, CreateRefused, DeleteCarrier, SyncCarrier, CarrierCreate,
                ConnectionDown, CleanUp, ConnectionUp, NxpBack, vars
  <2>2. <<"loop", x, 0>> \in inHand => <<"loop", x, 0>> \in inHand'
    <3>1. \A o \in Objs, t \in Threads, s \in Slots : <<t, o, s>> # <<"loop", x, 0>>
      BY DEF Slots, SubsAssumption
    <3>. QED  BY <1>0, <3>1 DEF AddCall, CreateCarrier, CreateRefused, DeleteCarrier, SyncCarrier,
                ConnectionDown, CleanUp, ConnectionUp, NxpBack, vars
  <2>. QED  BY <1>4, <2>1, <2>2 DEF ByLoop
<1>5. ASSUME NEW x \in Objs PROVE TriesLeft(x)'
  <2>1. Left' = Left /\ Left \in Int  BY <1>0, Numbers DEF Left
  <2>2. Trying(x) => Trying(x)'
    <3>1. Trying(x) => nxpUp'  BY <1>0 DEF Trying, TypeOK
    <3>. QED  BY <1>0, <1>4, <3>1 DEF Trying
  <2>. QED  BY <1>0, <1>1, <2>1, <2>2, TriesKept DEF TriesInv
<1>. QED  BY <1>2, <1>3, <1>5 DEF TriesInv

LEMMA TriesStep ==
    ASSUME SubsAssumption, LongWait = FALSE, EnoughForAll, TriesInv, [Next]_vars
    PROVE  TriesInv'
<1>0. TypeOK'  BY TypesStep DEF TriesInv
<1>1. ASSUME NEW o \in Objs, NEW t \in Threads, CheckActive(t, o) \/ Subscribe(t, o)
      PROVE  TriesInv'
  BY <1>0, <1>1, CheckActiveTries, SubscribeTries
<1>2. ASSUME NEW o \in Objs, NEW s \in Slots, Answer(o, s) PROVE TriesInv'
  BY <1>0, <1>2, AnswerTries
<1>3. ASSUME NEW o \in Objs, NEW s \in Slots, Error(o, s) PROVE TriesInv'
  BY <1>0, <1>3, ErrorTries
<1>4. CASE NxpDown \/ \E o \in Objs, s \in Slots : Fail(o, s)
  BY <1>0, <1>4, FailureTries
<1>5. CASE CollectRetries  BY <1>0, <1>5, CollectRetriesTries
<1>6. CASE \/ \E o \in Objs, t \in Threads, s \in Slots : AddCall(t, o, s)
           \/ \E c \in Carriers : CreateCarrier(c) \/ CreateRefused(c) \/ DeleteCarrier(c) \/ SyncCarrier(c)
           \/ ConnectionDown \/ CleanUp \/ ConnectionUp \/ NxpBack
           \/ UNCHANGED vars
  BY <1>0, <1>6, OtherTries
<1>. QED  BY <1>1, <1>2, <1>3, <1>4, <1>5, <1>6 DEF Next

\* An object out of tries is being tried for the last time.
LEMMA LastTry ==
    ASSUME SubsAssumption, TriesInv, NEW o \in Objs, Accounted(o) PROVE InCharge(o)
<1>1. CASE retry[o] = MaxRetries
  <2>1. /\ MaxRetries \in Nat /\ MaxFail \in Nat /\ MaxLoss \in Nat
        /\ fails \in Nat /\ losses \in Nat
    BY Numbers DEF TriesInv
  <2>2. Left >= 0 /\ Left \in Int  BY <2>1 DEF TriesInv, Counted, Left
  <2>3. Trying(o)
    <3>1. retry[o] # NoEntry /\ ~(retry[o] + Left + 1 <= MaxRetries)
      BY <1>1, <2>1, <2>2 DEF NoEntry
    <3>. QED  BY <3>1 DEF TriesInv, TriesLeft
  <2>4. ByLoop(o) \/ \E s \in Slots : stream[o][s] = "opening"  BY <2>3 DEF Trying
  <2>. QED  BY <2>4 DEF InCharge, Pending, Busy, ByLoop, Threads
<1>. QED  BY <1>1 DEF Accounted

(***************************************************************************)
(* NothingIsForgotten.  NothingForgotten holds as long as the failures and *)
(* outages are no more than the MAX_RETRY_COUNT tries (100 in the code)    *)
(* and no outage is so long that the loop uses them up meanwhile: every    *)
(* object of a known carrier has a stream or somebody who subscribes.      *)
(***************************************************************************)
THEOREM NothingIsForgotten ==
    ASSUME EarlyCallback = FALSE, LongWait = FALSE, EnoughForAll
    PROVE  Spec => []NothingForgotten
<1>1. Init => TriesInv  BY TriesInit, SubsAssumption
<1>2. TriesInv /\ [Next]_vars => TriesInv'  BY TriesStep, SubsAssumption
<1>3. TriesInv /\ IInv => NothingForgotten
  <2>. SUFFICES ASSUME TriesInv, IInv, isUp, ~cleaning,
                       NEW c \in carrierSet, NEW o \in ObjsOf(c)
                PROVE InCharge(o)
    BY DEF NothingForgotten
  <2>1. o \in Objs /\ Accounted(o)  BY DEF IInv, TypeOK, Kept, ObjsOf, Objs
  <2>. QED  BY <2>1, LastTry, SubsAssumption
<1>. QED  BY <1>1, <1>2, <1>3, AlwaysIInv, PTL DEF Spec
=============================================================================
