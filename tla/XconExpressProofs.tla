------------------------- MODULE XconExpressProofs -------------------------
(***************************************************************************)
(* Proofs about XconExpress: whatever is refused, fails, is lost or comes  *)
(* late, an answer of success to the create of an express cross-connect    *)
(* means the whole of it, and to its delete that nothing is left.          *)
(***************************************************************************)
EXTENDS XconExpress, SequenceTheorems, TLAPS
-----------------------------------------------------------------------------
(* The two orders.                                                         *)

\* Steps of a create and of a delete.
Last == Len(CreateOrder)
Steps == 1 .. Last

\* Both orders run once through the same objects.
LEMMA OrderFacts ==
    /\ Last \in {6, 8} /\ Len(DeleteOrder) = Last
    /\ DOMAIN CreateOrder = Steps
    /\ \A i \in Steps : CreateOrder[i] \in Objs /\ DeleteOrder[i] \in Objs
    /\ \A i, j \in Steps : CreateOrder[i] = CreateOrder[j] => i = j
    /\ \A i \in Steps : \E j \in Steps : CreateOrder[i] = DeleteOrder[j]
    /\ \A i \in Steps : i > 4 => \E j \in 1 .. i - 1 : DeleteOrder[j] = "dst2"
    /\ \E i \in Steps : DeleteOrder[i] = "dst2"
    /\ CreateOrder[Last] \in UniXcons
<1>. USE DEF Steps, Last, Objs, OtuClients, OduClients, GigeClients, UniXcons
<1>1. CASE payload = "100G"
  <2>. DEFINE c == <<"otuSrc", "otuDst", "oduSrc", "oduDst", "src", "src2", "dst", "dst2">>
              d == <<"src", "src2", "dst", "dst2", "oduSrc", "oduDst", "otuSrc", "otuDst">>
  <2>1. CreateOrder = c /\ DeleteOrder = d  BY <1>1 DEF CreateOrder, DeleteOrder
  <2>2. Len(c) = 8 /\ Len(d) = 8 /\ DOMAIN c = 1 .. 8
    OBVIOUS
  <2>3. \A i \in 1 .. 8 : c[i] \in Objs /\ d[i] \in Objs
    OBVIOUS
  <2>4. \A i, j \in 1 .. 8 : c[i] = c[j] => i = j
    OBVIOUS
  <2>5. \A i \in 1 .. 8 : \E j \in 1 .. 8 : c[i] = d[j]
    OBVIOUS
  <2>6. d[4] = "dst2" /\ c[8] = "dst2"
    OBVIOUS
  <2>. HIDE DEF c, d
  <2>. QED  BY <2>1, <2>2, <2>3, <2>4, <2>5, <2>6
<1>2. CASE payload # "100G"
  <2>. DEFINE c == <<"gigeSrc", "gigeDst", "src", "src2", "dst", "dst2">>
              d == <<"src", "src2", "dst", "dst2", "gigeSrc", "gigeDst">>
  <2>1. CreateOrder = c /\ DeleteOrder = d  BY <1>2 DEF CreateOrder, DeleteOrder
  <2>2. Len(c) = 6 /\ Len(d) = 6 /\ DOMAIN c = 1 .. 6
    OBVIOUS
  <2>3. \A i \in 1 .. 6 : c[i] \in Objs /\ d[i] \in Objs
    OBVIOUS
  <2>4. \A i, j \in 1 .. 6 : c[i] = c[j] => i = j
    OBVIOUS
  <2>5. \A i \in 1 .. 6 : \E j \in 1 .. 6 : c[i] = d[j]
    OBVIOUS
  <2>6. d[4] = "dst2" /\ c[6] = "dst2"
    OBVIOUS
  <2>. HIDE DEF c, d
  <2>. QED  BY <2>1, <2>2, <2>3, <2>4, <2>5, <2>6
<1>. QED  BY <1>1, <1>2
-----------------------------------------------------------------------------
(* The inductive invariant.                                                *)

\* No restart of the DCO since the try began.
Live == ready \/ run.by = "sync"
Good(o) == Live => dco[o] = "works"
Waiting == run.op = "create" /\ run.tid # 0

RunOK ==
    /\ run.by = "nobody" => run = NoRun
    /\ run.by # "nobody" => run.at \in Steps /\ run.op \in {"create", "delete"}
    /\ run.by = "config" => req.op = run.op /\ ~req.sent
    /\ run.by = "sync" => ~ready /\ run.op = "create"
    /\ run.tid # 0 => run.op = "create" /\ run.tid = lastTid
    /\ req.op = "none" => req = NoReq

\* The newest transaction is the last one everywhere on its way.
InOrder ==
    /\ \A i \in 1 .. Len(work) : i < Len(work) => work[i].tid < lastTid
    /\ \A i \in 1 .. Len(acks) : acks[i].tid = lastTid => work = <<>> /\ i = Len(acks)
    /\ half # NoAck /\ half.tid = lastTid => work = <<>> /\ acks = <<>>
    /\ \A o \in Objs : transactionId[o] = lastTid /\ lastTid # 0 =>
                          work = <<>> /\ acks = <<>> /\ half = NoAck

\* The newest transaction is about the object in hand, and a success of it true.
Awaited == Waiting =>
    /\ Live => dco[Obj] # "absent"
    /\ \A i \in 1 .. Len(work) : work[i].tid = lastTid => work[i].obj = Obj
    /\ \A i \in 1 .. Len(acks) : acks[i].tid = lastTid =>
          acks[i].obj = Obj /\ (acks[i].status = "SUCCESS" => Good(Obj))
    /\ half.tid = lastTid =>
          /\ half.obj = Obj /\ opStatus[Obj] = half.status
          /\ half.status = "SUCCESS" => Good(Obj)
    /\ transactionId[Obj] = lastTid /\ opStatus[Obj] = "SUCCESS" => Good(Obj)

\* What a create has behind it works, and nothing older is on its way to the DCO.
Built == run.op = "create" =>
    /\ run.at > 1 => \A i \in 1 .. Len(work) : run.tid # 0 /\ work[i].tid = lastTid
    /\ Live => \A j \in 1 .. run.at - 1 : dco[CreateOrder[j]] = "works"

\* A restart before the last answer keeps it from coming.
NoLateSuccess ==
    run.op = "create" /\ run.at = Last /\ run.tid # 0 /\ ~Live =>
        /\ work = <<>> /\ acks = <<>> /\ half.tid # lastTid
        /\ transactionId[Obj] # lastTid

OthersAbsent ==
    \A o \in Objs : (\A i \in Steps : o # CreateOrder[i]) => dco[o] = "absent"

Removed == run.op = "delete" =>
    \A j \in 1 .. run.at - 1 :
        dco[DeleteOrder[j]] = "absent" /\ (DeleteOrder[j] = "dst2" => ~fwd)

Installed == fwd /\ work = <<>> /\ \A i \in Steps : dco[CreateOrder[i]] = "works"
Nothing == ~fwd /\ \A o \in Objs : dco[o] = "absent"

\* What a request sent and not yet answered has, and keeps until the answer.
SentOK == req.sent =>
    /\ run = NoRun /\ ready
    /\ req.op = "create" => Installed
    /\ req.op = "delete" => Nothing

DoneOK ==
    /\ installed => req = NoReq /\ run = NoRun /\ ready /\ Installed
    /\ gone => req = NoReq /\ run = NoRun /\ ~cached /\ Nothing

IInv ==
    /\ TypeOK /\ RunOK /\ InOrder /\ Awaited /\ Built
    /\ NoLateSuccess /\ OthersAbsent /\ Removed /\ SentOK /\ DoneOK
-----------------------------------------------------------------------------
(* Facts every step uses.                                                  *)

\* The payload never changes, so neither do the orders.
LEMMA SameOrders ==
    ASSUME payload' = payload
    PROVE  /\ CreateOrder' = CreateOrder /\ DeleteOrder' = DeleteOrder
           /\ Last' = Last /\ Steps' = Steps
BY DEF CreateOrder, DeleteOrder, Last, Steps

\* The types of what a try reads, one by one.
LEMMA RunTypes ==
    ASSUME TypeOK
    PROVE  /\ run.by \in {"nobody", "config", "sync"} /\ run.op \in {"none", "create", "delete"}
           /\ run.at \in 0 .. Last /\ run.tid \in 0 .. lastTid
           /\ run = [by |-> run.by, op |-> run.op, at |-> run.at, tid |-> run.tid]
           /\ req.op \in {"none", "create", "delete"} /\ req.fails \in 0 .. MaxSendCount
           /\ req.sent \in BOOLEAN
           /\ req = [op |-> req.op, fails |-> req.fails, sent |-> req.sent]
           /\ lastTid \in Nat
           /\ fwd \in BOOLEAN /\ cached \in BOOLEAN /\ asked \in BOOLEAN /\ ready \in BOOLEAN
           /\ installed \in BOOLEAN /\ gone \in BOOLEAN
           /\ trouble \in Nat /\ restarts \in Nat /\ reqs \in Nat
BY DEF TypeOK, Last

\* The sets a try and a request range over.
RunSet == [by : {"nobody", "config", "sync"}, op : {"none", "create", "delete"},
           at : 0 .. Last, tid : 0 .. lastTid]
ReqSet == [op : {"none", "create", "delete"}, fails : 0 .. MaxSendCount, sent : BOOLEAN]

LEMMA Bounds ==
    /\ MaxSendCount \in Nat /\ 0 \in 0 .. MaxSendCount
    /\ Last \in Nat /\ 0 \in 0 .. Last /\ 1 \in Steps /\ Last \in Steps
    /\ Steps \subseteq 0 .. Last
<1>1. MaxSendCount \in Nat  BY XconAssumption
<1>2. Last \in {6, 8}  BY OrderFacts
<1>. QED  BY <1>1, <1>2 DEF Steps

\* A step that sends nothing and receives nothing.
LEMMA TypeKept ==
    ASSUME TypeOK, UNCHANGED <<payload, dco, work, acks, half, opStatus, transactionId, lastTid>>,
           run' \in RunSet, req' \in ReqSet,
           fwd' \in BOOLEAN, cached' \in BOOLEAN, asked' \in BOOLEAN, ready' \in BOOLEAN,
           installed' \in BOOLEAN, gone' \in BOOLEAN,
           trouble' \in Nat, restarts' \in Nat, reqs' \in Nat
    PROVE  TypeOK'
BY SameOrders DEF TypeOK, Tids, Acks, RunSet, ReqSet, Last

LEMMA InTroubleType ==
    ASSUME trouble \in Nat, InTrouble \/ UNCHANGED trouble
    PROVE  trouble' \in Nat
BY DEF InTrouble

\* The mark a request gets when a try of it worked.
LEMMA SentMark ==
    ASSUME TypeOK
    PROVE  [req EXCEPT !.sent = TRUE] = [op |-> req.op, fails |-> req.fails, sent |-> TRUE]
<1>1. req = [op |-> req.op, fails |-> req.fails, sent |-> req.sent]  BY RunTypes
<1>2. ASSUME NEW o, NEW f, NEW s, NEW t
      PROVE  [[op |-> o, fails |-> f, sent |-> s] EXCEPT !.sent = t]
               = [op |-> o, fails |-> f, sent |-> t]
  OBVIOUS
<1>3. [[op |-> req.op, fails |-> req.fails, sent |-> req.sent] EXCEPT !.sent = TRUE]
        = [op |-> req.op, fails |-> req.fails, sent |-> TRUE]
  BY <1>2
<1>. QED  BY <1>1, <1>3

\* What is taken from the head of a queue.
LEMMA TakeHead ==
    ASSUME NEW S, NEW s \in Seq(S), s # <<>>
    PROVE  /\ Len(s) \in Nat \ {0} /\ Head(s) = s[1] /\ s[1] \in S
           /\ Tail(s) \in Seq(S) /\ Len(Tail(s)) = Len(s) - 1
           /\ \A i \in 1 .. Len(Tail(s)) : Tail(s)[i] = s[i + 1]
           /\ Len(s) = 1 => Tail(s) = <<>>
<1>1. Len(s) \in Nat \ {0}  BY EmptySeq
<1>2. Head(s) = s[1] /\ s[1] \in S  BY <1>1, HeadTailProperties, ElementOfSeq
<1>3. Tail(s) \in Seq(S) /\ Len(Tail(s)) = Len(s) - 1  BY HeadTailProperties
<1>4. \A i \in 1 .. Len(Tail(s)) : Tail(s)[i] = s[i + 1]  BY HeadTailProperties
<1>5. Len(s) = 1 => Tail(s) = <<>>
  <2>1. \A t \in Seq(S) : t # <<>> => Len(t) \in Nat \ {0}  BY EmptySeq
  <2>2. Tail(s) # <<>> => Len(Tail(s)) \in Nat \ {0}  BY <1>3, <2>1
  <2>. QED  BY <1>3, <2>2
<1>. QED  BY <1>1, <1>2, <1>3, <1>4, <1>5

LEMMA QueueTypes ==
    ASSUME TypeOK
    PROVE  /\ work \in Seq([obj : Objs, tid : Tids]) /\ acks \in Seq(Acks)
           /\ half \in Acks \cup {NoAck}
           /\ opStatus \in [Objs -> Statuses] /\ transactionId \in [Objs -> 0 .. lastTid]
           /\ dco \in [Objs -> {"absent", "set", "works", "broken"}]
BY DEF TypeOK

-----------------------------------------------------------------------------
(* The types, which need no assumption on the environment.                 *)

LEMMA EndTryTypes ==
    ASSUME TypeOK, NEW success \in BOOLEAN, EndTry(success)
    PROVE  /\ run' \in RunSet /\ req' \in ReqSet
           /\ cached' \in BOOLEAN /\ ready' \in BOOLEAN
           /\ installed' \in BOOLEAN /\ gone' \in BOOLEAN
<1>1. run' \in RunSet
  <2>1. run' = NoRun /\ 0 \in 0 .. lastTid  BY RunTypes DEF EndTry
  <2>. QED  BY <2>1, Bounds DEF RunSet, NoRun
<1>2. CASE run.by = "sync"
  BY <1>1, <1>2, RunTypes DEF EndTry, ReqSet
<1>3. CASE run.by # "sync" /\ success
  <2>1. req' = [req EXCEPT !.sent = TRUE] /\ UNCHANGED <<ready, cached, installed, gone>>
    BY <1>3 DEF EndTry
  <2>2. [req EXCEPT !.sent = TRUE] = [op |-> req.op, fails |-> req.fails, sent |-> TRUE]
    BY SentMark
  <2>. QED  BY <1>1, <2>1, <2>2, RunTypes DEF ReqSet
<1>4. CASE run.by # "sync" /\ ~success /\ TriesLeft
  <2>1. /\ req' = [op |-> req.op, fails |-> req.fails + 1, sent |-> req.sent]
        /\ UNCHANGED <<ready, cached, installed, gone>>
    BY <1>4, RunTypes DEF EndTry
  <2>2. req.fails + 1 \in 0 .. MaxSendCount
    BY <1>4, RunTypes, Bounds DEF TriesLeft
  <2>. QED  BY <1>1, <2>1, <2>2, RunTypes DEF ReqSet
<1>5. CASE run.by # "sync" /\ ~success /\ ~TriesLeft
  <2>1. Complete(FALSE) /\ UNCHANGED ready  BY <1>5 DEF EndTry
  <2>2. req' \in ReqSet  BY <2>1, Bounds DEF Complete, NoReq, ReqSet
  <2>3. cached' \in BOOLEAN /\ installed' \in BOOLEAN /\ gone' \in BOOLEAN
    BY <2>1, RunTypes DEF Complete
  <2>. QED  BY <1>1, <2>1, <2>2, <2>3, RunTypes
<1>. QED  BY <1>2, <1>3, <1>4, <1>5

\* The step after one that worked, of a create or a delete.
LEMMA AdvanceTypes ==
    ASSUME TypeOK, NEW order, Len(order) = Last, run.at > 0, Advance(order)
    PROVE  /\ run' \in RunSet /\ req' \in ReqSet
           /\ cached' \in BOOLEAN /\ ready' \in BOOLEAN
           /\ installed' \in BOOLEAN /\ gone' \in BOOLEAN
<1>1. CASE run.at = Last
  BY <1>1, EndTryTypes DEF Advance
<1>2. CASE run.at # Last
  <2>1. /\ run' = [by |-> run.by, op |-> run.op, at |-> run.at + 1, tid |-> 0]
        /\ UNCHANGED <<ready, req, cached, installed, gone>>
    BY <1>2, RunTypes DEF Advance
  <2>2. run.at + 1 \in 0 .. Last /\ 0 \in 0 .. lastTid  BY <1>2, RunTypes, Bounds
  <2>. QED  BY <2>1, <2>2, RunTypes DEF RunSet, ReqSet
<1>. QED  BY <1>1, <1>2

\* Requests and the steps of a try which leave the DCO and its answers alone.
LEMMA TryTypes ==
    ASSUME TypeOK,
           \/ \E op \in {"create", "delete"} : Request(op)
           \/ Try \/ NotReady \/ CompleteSent \/ Sync
           \/ CreateRefused \/ AckSuccess \/ AckError \/ AckTimeout \/ NothingToDelete
    PROVE  TypeOK'
<1>. USE DEF ackVars, agentVars, envVars
<1>0. run \in RunSet /\ req \in ReqSet  BY RunTypes DEF RunSet, ReqSet
<1>1. ASSUME NEW op \in {"create", "delete"}, Request(op)
      PROVE  TypeOK'
  <2>1. /\ req' = [op |-> op, fails |-> 0, sent |-> FALSE]
        /\ reqs' = reqs + 1
        /\ asked' \in BOOLEAN /\ installed' \in BOOLEAN /\ gone' \in BOOLEAN
    BY <1>1 DEF Request
  <2>2. req' \in ReqSet  BY <2>1, Bounds DEF ReqSet
  <2>3. reqs' \in Nat  BY <2>1, RunTypes
  <2>4. run' \in RunSet /\ UNCHANGED <<fwd, cached, ready, trouble, restarts>>
        /\ UNCHANGED <<payload, dco, work, acks, half, opStatus, transactionId, lastTid>>
    BY <1>0, <1>1 DEF Request
  <2>. QED  BY <2>1, <2>2, <2>3, <2>4, TypeKept, RunTypes
<1>2. CASE Try \/ Sync
  <2>1. 1 \in 0 .. Last /\ 0 \in 0 .. lastTid  BY Bounds, RunTypes
  <2>2. \/ run' = [by |-> "config", op |-> req.op, at |-> 1, tid |-> 0]
        \/ run' = [by |-> "sync", op |-> "create", at |-> 1, tid |-> 0]
        \/ run' = run
    BY <1>2 DEF Try, Sync
  <2>3. run' \in RunSet  BY <1>0, <2>1, <2>2, RunTypes DEF RunSet
  <2>4. ready' \in BOOLEAN  BY <1>2, RunTypes DEF Try, Sync
  <2>5. UNCHANGED <<payload, dco, fwd, work, acks, half, opStatus, transactionId, lastTid,
                    req, cached, asked, installed, gone, trouble, restarts, reqs>>
    BY <1>2 DEF Try, Sync
  <2>. QED  BY <1>0, <2>3, <2>4, <2>5, TypeKept, RunTypes
<1>3. CASE NotReady
  <2>1. req' = [op |-> req.op, fails |-> 0, sent |-> req.sent]
    BY <1>3, RunTypes DEF NotReady
  <2>2. req' \in ReqSet  BY <2>1, Bounds, RunTypes DEF ReqSet
  <2>. QED  BY <1>0, <1>3, <2>2, TypeKept, RunTypes DEF NotReady
<1>4. CASE CompleteSent
  <2>1. req' \in ReqSet  BY <1>4, Bounds DEF CompleteSent, Complete, NoReq, ReqSet
  <2>2. cached' \in BOOLEAN /\ installed' \in BOOLEAN /\ gone' \in BOOLEAN
    BY <1>4, RunTypes DEF CompleteSent, Complete
  <2>. QED  BY <1>0, <1>4, <2>1, <2>2, TypeKept, RunTypes DEF CompleteSent
<1>5. CASE CreateRefused \/ AckError \/ AckTimeout \/ NothingToDelete
  <2>1. EndTry(FALSE) \/ EndTry(TRUE)
    BY <1>5 DEF CreateRefused, AckError, AckTimeout, NothingToDelete
  <2>2. trouble' \in Nat
    BY <1>5, RunTypes, InTroubleType
    DEF CreateRefused, AckError, AckTimeout, NothingToDelete, Refused
  <2>3. fwd' \in BOOLEAN
    BY <1>5, RunTypes DEF CreateRefused, AckError, AckTimeout, NothingToDelete, Forward
  <2>4. UNCHANGED <<payload, dco, work, acks, half, opStatus, transactionId, lastTid,
                    asked, restarts, reqs>>
    BY <1>5 DEF CreateRefused, AckError, AckTimeout, NothingToDelete
  <2>. QED  BY <2>1, <2>2, <2>3, <2>4, EndTryTypes, TypeKept, RunTypes
<1>6. CASE AckSuccess
  <2>1. fwd' \in BOOLEAN  BY <1>6, RunTypes DEF AckSuccess
  <2>2. run.at > 0 /\ Advance(CreateOrder) /\ Len(CreateOrder) = Last
    BY <1>6 DEF AckSuccess, Creating, Last
  <2>3. UNCHANGED <<payload, dco, work, acks, half, opStatus, transactionId, lastTid,
                    asked, trouble, restarts, reqs>>
    BY <1>6 DEF AckSuccess
  <2>. QED  BY <2>1, <2>2, <2>3, AdvanceTypes, TypeKept, RunTypes
<1>. QED  BY <1>1, <1>2, <1>3, <1>4, <1>5, <1>6

\* A create or a delete that reaches the DCO, or a delete that does not.
LEMMA SendTypes ==
    ASSUME TypeOK, SendCreate \/ SendDelete \/ DeleteRefused
    PROVE  TypeOK'
<1>. USE DEF agentVars, envVars
<1>1. CASE SendCreate
  <2>. DEFINE Work == [obj : Objs, tid : Tids]
              w == [obj |-> Obj, tid |-> lastTid + 1]
  <2>1. /\ UNCHANGED <<payload, fwd, acks, half, opStatus, transactionId, req, cached, asked,
                       installed, gone, ready, trouble, restarts, reqs>>
        /\ run.op = "create" /\ run.at > 0 /\ lastTid' = lastTid + 1
        /\ run' = [by |-> run.by, op |-> run.op, at |-> run.at, tid |-> lastTid + 1]
        /\ dco' = [dco EXCEPT ![Obj] = "set"] /\ work' = Append(work, w)
    BY <1>1, RunTypes DEF SendCreate, Creating
  <2>2. lastTid \in Nat /\ lastTid' \in Nat /\ lastTid' \in Tids' /\ Tids \subseteq Tids'
    BY <2>1, RunTypes DEF Tids
  <2>3. Obj \in Objs
    <3>1. run.at \in Steps  BY <2>1, RunTypes, Bounds DEF Steps
    <3>. QED  BY <3>1, OrderFacts DEF Obj
  <2>4. Work \subseteq Work' /\ Acks \subseteq Acks' /\ w \in Work'  BY <2>1, <2>2, <2>3 DEF Acks
  <2>. HIDE DEF Work, w
  <2>5. work \in Seq(Work') /\ acks \in Seq(Acks')
    <3>1. work \in Seq(Work) /\ acks \in Seq(Acks)  BY QueueTypes DEF Work
    <3>. QED  BY <2>4, <3>1, SeqMonotonic
  <2>6. work' \in Seq(Work') /\ acks' \in Seq(Acks')  BY <2>1, <2>4, <2>5, AppendProperties
  <2>7. 0 .. lastTid \subseteq 0 .. lastTid' /\ lastTid' \in 0 .. lastTid'
    BY <2>1, <2>2
  <2>8. run' \in RunSet' /\ Last' = Last
    BY <2>1, <2>7, SameOrders, RunTypes DEF RunSet
  <2>9. req' \in ReqSet  BY <2>1, RunTypes DEF ReqSet
  <2>10. half' \in Acks' \cup {NoAck}  BY <2>1, <2>4, QueueTypes
  <2>11. /\ opStatus' \in [Objs -> Statuses] /\ transactionId' \in [Objs -> 0 .. lastTid']
         /\ dco' \in [Objs -> {"absent", "set", "works", "broken"}]
    BY <2>1, <2>7, QueueTypes
  <2>12. /\ {fwd, cached, asked, ready, installed, gone}' \subseteq BOOLEAN
         /\ {trouble, restarts, reqs}' \subseteq Nat /\ payload' \in Payloads
    BY <2>1 DEF TypeOK
  <2>. QED  BY <2>2, <2>6, <2>8, <2>9, <2>10, <2>11, <2>12 DEF TypeOK, Last, RunSet, ReqSet, Work
<1>2. CASE SendDelete \/ DeleteRefused
  <2>1. /\ UNCHANGED <<payload, work, acks, half, lastTid, asked, restarts, reqs>>
        /\ run.op = "delete" /\ run.at > 0
    BY <1>2 DEF SendDelete, DeleteRefused, Deleting
  <2>2. Last' = Last  BY <2>1, SameOrders
  <2>3. /\ run' \in RunSet /\ req' \in ReqSet /\ cached' \in BOOLEAN /\ ready' \in BOOLEAN
        /\ installed' \in BOOLEAN /\ gone' \in BOOLEAN
    <3>1. CASE SendDelete
      <4>1. Advance(DeleteOrder) /\ Len(DeleteOrder) = Last
        BY <3>1, OrderFacts DEF SendDelete
      <4>. QED  BY <2>1, <4>1, AdvanceTypes
    <3>2. CASE DeleteRefused
      <4>1. EndTry(FALSE)  BY <3>2 DEF DeleteRefused
      <4>. QED  BY <4>1, EndTryTypes
    <3>. QED  BY <1>2, <3>1, <3>2
  <2>4. trouble' \in Nat
    BY <1>2, RunTypes, InTroubleType DEF SendDelete, DeleteRefused, Refused
  <2>5. fwd' \in BOOLEAN  BY <1>2, RunTypes DEF SendDelete, DeleteRefused
  <2>6. dco' \in [Objs -> {"absent", "set", "works", "broken"}]
    BY <1>2, QueueTypes DEF SendDelete, DeleteRefused
  <2>7. opStatus' \in [Objs -> Statuses] /\ transactionId' \in [Objs -> 0 .. lastTid]
    <3>1. 0 \in 0 .. lastTid /\ "UNSPECIFIED" \in Statuses  BY RunTypes DEF Statuses
    <3>2. ClearOpStatusCache(Doomed) \/ UNCHANGED <<opStatus, transactionId>>
      BY <1>2 DEF SendDelete, DeleteRefused
    <3>. QED  BY <3>1, <3>2, QueueTypes DEF ClearOpStatusCache
  <2>. QED  BY <2>1, <2>2, <2>3, <2>4, <2>5, <2>6, <2>7
            DEF TypeOK, Last, Tids, Acks, RunSet, ReqSet
<1>. QED  BY <1>1, <1>2

\* The DCO's work and its answers on their way back.
LEMMA AnswerTypes ==
    ASSUME TypeOK,
           StoreStatus \/ StoreTransactionId \/ DcoCarriesOut \/ LoseAnswer \/ DcoRestart
    PROVE  TypeOK'
<1>1. /\ UNCHANGED <<payload, fwd, lastTid, run, req, cached, asked, gone, reqs>>
      /\ Last' = Last /\ Tids' = Tids /\ Acks' = Acks
  <2>1. UNCHANGED <<payload, fwd, lastTid, run, req, cached, asked, gone, reqs>>
    BY DEF StoreStatus, StoreTransactionId, DcoCarriesOut, LoseAnswer, DcoRestart,
           agentVars, envVars
  <2>. QED  BY <2>1, SameOrders DEF Tids, Acks
<1>2. /\ work # <<>> => Head(work).obj \in Objs /\ Head(work).tid \in Tids
      /\ work # <<>> => Tail(work) \in Seq([obj : Objs, tid : Tids])
  <2>. DEFINE Work == [obj : Objs, tid : Tids]
  <2>1. work \in Seq(Work)  BY QueueTypes
  <2>. HIDE DEF Work
  <2>2. work # <<>> => Head(work) \in Work /\ Tail(work) \in Seq(Work)  BY <2>1, TakeHead
  <2>. QED  BY <2>2 DEF Work
<1>3. work' \in Seq([obj : Objs, tid : Tids])
  <2>1. work' \in {work, <<>>} \/ (work # <<>> /\ work' = Tail(work))
    BY DEF StoreStatus, StoreTransactionId, DcoCarriesOut, LoseAnswer, DcoRestart
  <2>. QED  BY <1>2, <2>1, QueueTypes, EmptySeq
<1>4. acks # <<>> => Head(acks) \in Acks /\ Tail(acks) \in Seq(Acks)
  BY QueueTypes, TakeHead
<1>5. acks' \in Seq(Acks)
  <2>1. CASE DcoCarriesOut
    <3>1. PICK status \in {"SUCCESS", "ERROR"} :
            acks' = Append(acks, [obj |-> Head(work).obj, tid |-> Head(work).tid,
                                  status |-> status])
      BY <2>1 DEF DcoCarriesOut
    <3>2. work # <<>>  BY <2>1 DEF DcoCarriesOut
    <3>3. [obj |-> Head(work).obj, tid |-> Head(work).tid, status |-> status] \in Acks
      BY <1>2, <3>2 DEF Acks, Statuses
    <3>. QED  BY <3>1, <3>3, QueueTypes, AppendProperties
  <2>2. CASE ~DcoCarriesOut
    <3>1. acks' \in {acks, <<>>} \/ (acks # <<>> /\ acks' = Tail(acks))
      BY <2>2 DEF StoreStatus, StoreTransactionId, LoseAnswer, DcoRestart
    <3>. QED  BY <1>4, <3>1, QueueTypes, EmptySeq
  <2>. QED  BY <2>1, <2>2
<1>6. half' \in Acks \cup {NoAck}
  <2>1. half' \in {half, NoAck} \/ (acks # <<>> /\ half' = Head(acks))
    BY DEF StoreStatus, StoreTransactionId, DcoCarriesOut, LoseAnswer, DcoRestart
  <2>. QED  BY <1>4, <2>1, QueueTypes
<1>7. opStatus' \in [Objs -> Statuses]
  <2>1. \/ opStatus' = opStatus
        \/ /\ acks # <<>>
           /\ opStatus' = [opStatus EXCEPT ![Head(acks).obj] = Head(acks).status]
    BY DEF StoreStatus, StoreTransactionId, DcoCarriesOut, LoseAnswer, DcoRestart
  <2>2. acks # <<>> => Head(acks).status \in Statuses  BY <1>4 DEF Acks
  <2>. QED  BY <2>1, <2>2, QueueTypes
<1>8. transactionId' \in [Objs -> 0 .. lastTid]
  <2>1. \/ transactionId' = transactionId
        \/ half # NoAck /\ transactionId' = [transactionId EXCEPT ![half.obj] = half.tid]
    BY DEF StoreStatus, StoreTransactionId, DcoCarriesOut, LoseAnswer, DcoRestart
  <2>2. half # NoAck => half.tid \in 0 .. lastTid
    BY QueueTypes, RunTypes DEF Acks, Tids
  <2>. QED  BY <2>1, <2>2, QueueTypes
<1>9. dco' \in [Objs -> {"absent", "set", "works", "broken"}]
  <2>1. CASE DcoCarriesOut
    <3>1. PICK status \in {"SUCCESS", "ERROR"} :
            dco' = [dco EXCEPT ![Head(work).obj] =
                      IF @ = "absent" THEN @ ELSE IF status = "SUCCESS" THEN "works" ELSE "broken"]
      BY <2>1 DEF DcoCarriesOut
    <3>. QED  BY <3>1, QueueTypes
  <2>2. CASE ~DcoCarriesOut
    BY <2>2, QueueTypes DEF StoreStatus, StoreTransactionId, LoseAnswer, DcoRestart
  <2>. QED  BY <2>1, <2>2
<1>10. /\ ready' \in BOOLEAN /\ installed' \in BOOLEAN
       /\ trouble' \in Nat /\ restarts' \in Nat
  <2>1. CASE DcoRestart
    <3>1. ready' \in BOOLEAN /\ installed' \in BOOLEAN  BY <2>1 DEF DcoRestart
    <3>2. trouble' = trouble /\ restarts' = restarts + 1  BY <2>1 DEF DcoRestart
    <3>3. trouble \in Nat /\ restarts \in Nat  BY RunTypes
    <3>4. trouble' \in Nat /\ restarts' \in Nat  BY <3>2, <3>3
    <3>. QED  BY <3>1, <3>4
  <2>2. CASE DcoCarriesOut \/ LoseAnswer
    <3>1. InTrouble \/ UNCHANGED trouble  BY <2>2 DEF DcoCarriesOut, LoseAnswer
    <3>2. UNCHANGED <<ready, installed, restarts>>
      BY <2>2 DEF DcoCarriesOut, LoseAnswer, agentVars
    <3>. QED  BY <3>1, <3>2, RunTypes, InTroubleType
  <2>3. CASE StoreStatus \/ StoreTransactionId
    BY <2>3, RunTypes DEF StoreStatus, StoreTransactionId, agentVars, envVars
  <2>. QED  BY <2>1, <2>2, <2>3
<1>. QED  BY <1>1, <1>3, <1>5, <1>6, <1>7, <1>8, <1>9, <1>10 DEF TypeOK, Last

LEMMA TypesInit ==
    ASSUME Init
    PROVE  TypeOK
<1>. USE DEF Init
<1>1. run \in [by : {"nobody", "config", "sync"}, op : {"none", "create", "delete"},
               at : 0 .. Last, tid : 0 .. lastTid]
  BY Bounds DEF NoRun
<1>2. req \in [op : {"none", "create", "delete"}, fails : 0 .. MaxSendCount, sent : BOOLEAN]
  BY Bounds DEF NoReq
<1>3. work \in Seq([obj : Objs, tid : Tids]) /\ acks \in Seq(Acks)  BY EmptySeq
<1>4. /\ dco \in [Objs -> {"absent", "set", "works", "broken"}]
      /\ opStatus \in [Objs -> Statuses] /\ transactionId \in [Objs -> 0 .. lastTid]
  BY DEF Statuses
<1>5. half \in Acks \cup {NoAck} /\ lastTid \in Nat /\ payload \in Payloads  OBVIOUS
<1>6. {fwd, cached, asked, ready, installed, gone} \subseteq BOOLEAN
  OBVIOUS
<1>7. {trouble, restarts, reqs} \subseteq Nat
  OBVIOUS
<1>. QED  BY <1>1, <1>2, <1>3, <1>4, <1>5, <1>6, <1>7 DEF TypeOK, Last

LEMMA TypesStep ==
    ASSUME TypeOK, [Next]_vars
    PROVE  TypeOK'
<1>1. CASE UNCHANGED vars  BY <1>1, SameOrders DEF vars, TypeOK, Tids, Acks
<1>2. CASE Next  BY <1>2, TryTypes, SendTypes, AnswerTypes DEF Next
<1>. QED  BY <1>1, <1>2

-----------------------------------------------------------------------------
(* What a failed try leaves.                                              *)

\* A try that fails, whichever step failed.
LEMMA TryFails ==
    ASSUME IInv, run.by # "nobody", EndTry(FALSE),
           UNCHANGED <<payload, dco, work, acks, half, lastTid, asked, restarts, reqs>>,
           trouble' \in Nat, fwd' \in BOOLEAN,
           opStatus' \in [Objs -> Statuses], transactionId' \in [Objs -> 0 .. lastTid],
           \A o \in Objs : transactionId'[o] \in {transactionId[o], 0}
    PROVE  IInv'
<1>1. CreateOrder' = CreateOrder /\ DeleteOrder' = DeleteOrder /\ Last' = Last /\ Steps' = Steps
  BY SameOrders
<1>2. TypeOK /\ RunOK /\ SentOK /\ DoneOK  BY DEF IInv
<1>3. run # NoRun  BY DEF NoRun
<1>4. ~req.sent /\ ~installed /\ ~gone
  BY <1>2, <1>3, RunTypes DEF SentOK, DoneOK
<1>5. run' = NoRun  BY DEF EndTry
<1>6. /\ req' \in [op : {"none", "create", "delete"}, fails : 0 .. MaxSendCount, sent : BOOLEAN]
      /\ req'.op = "none" => req' = NoReq
      /\ ~req'.sent /\ ~installed' /\ ~gone'
      /\ installed' \in BOOLEAN /\ gone' \in BOOLEAN
      /\ cached' \in BOOLEAN /\ ready' \in BOOLEAN
  <2>1. CASE run.by = "sync"
    BY <1>2, <1>4, <2>1, RunTypes DEF EndTry, RunOK
  <2>2. CASE run.by # "sync" /\ TriesLeft
    <3>1. req' = [op |-> req.op, fails |-> req.fails + 1, sent |-> FALSE]
      BY <1>2, <1>4, <2>2, RunTypes DEF EndTry
    <3>2. req.fails + 1 \in 0 .. MaxSendCount /\ req.op # "none"
      BY <1>2, <2>2, RunTypes, XconAssumption DEF TriesLeft, RunOK
    <3>. QED  BY <1>2, <1>4, <2>2, <3>1, <3>2, RunTypes DEF EndTry
  <2>3. CASE run.by # "sync" /\ ~TriesLeft
    <3>1. Complete(FALSE) /\ UNCHANGED ready  BY <2>3 DEF EndTry
    <3>2. req' = [op |-> "none", fails |-> 0, sent |-> FALSE] /\ 0 \in 0 .. MaxSendCount
      BY <3>1, XconAssumption DEF Complete, NoReq
    <3>3. ~installed' /\ ~gone' /\ installed' \in BOOLEAN /\ gone' \in BOOLEAN
      BY <3>1 DEF Complete
    <3>4. cached' \in BOOLEAN
      BY <1>2, <3>1, RunTypes DEF Complete
    <3>. QED  BY <1>2, <3>1, <3>2, <3>3, <3>4, RunTypes DEF NoReq
  <2>. QED  BY <2>1, <2>2, <2>3
<1>7. TypeOK'
  <2>1. run' \in [by : {"nobody", "config", "sync"}, op : {"none", "create", "delete"},
                  at : 0 .. Last, tid : 0 .. lastTid]
    BY <1>2, <1>5, RunTypes, OrderFacts DEF NoRun
  <2>. QED  BY <1>1, <1>2, <1>6, <2>1 DEF TypeOK, Last, Tids, Acks
<1>8. RunOK'  BY <1>5, <1>6 DEF RunOK, NoRun
<1>9. InOrder'
  BY <1>2, RunTypes DEF IInv, InOrder
<1>10. Awaited' /\ Built' /\ NoLateSuccess' /\ Removed'
  BY <1>5 DEF Awaited, Built, NoLateSuccess, Removed, NoRun, Waiting
<1>11. OthersAbsent'  BY <1>1 DEF IInv, OthersAbsent
<1>12. SentOK' /\ DoneOK'  BY <1>6 DEF SentOK, DoneOK
<1>. QED  BY <1>7, <1>8, <1>9, <1>10, <1>11, <1>12 DEF IInv

LEMMA FailStep ==
    ASSUME IInv, CreateRefused \/ AckError \/ AckTimeout \/ NothingToDelete \/ DeleteRefused
    PROVE  IInv'
<1>1. TypeOK /\ RunOK  BY DEF IInv
<1>2. trouble \in Nat /\ fwd \in BOOLEAN  BY <1>1, RunTypes
<1>3. run.op # "none" => run.by # "nobody"  BY <1>1 DEF RunOK, NoRun
<1>4. opStatus \in [Objs -> Statuses] /\ transactionId \in [Objs -> 0 .. lastTid]
  BY <1>1 DEF TypeOK
<1>5. CASE CreateRefused
  <2>1. run.by # "nobody"  BY <1>3, <1>5 DEF CreateRefused, Creating
  <2>2. trouble' \in Nat  BY <1>2, <1>5, InTroubleType DEF CreateRefused, Refused
  <2>3. fwd' \in BOOLEAN  BY <1>5 DEF CreateRefused, Forward
  <2>. QED  BY <1>4, <1>5, <2>1, <2>2, <2>3, TryFails DEF CreateRefused, ackVars
<1>6. CASE AckError
  <2>1. run.by # "nobody"  BY <1>3, <1>6 DEF AckError, Creating
  <2>2. trouble' \in Nat /\ UNCHANGED <<restarts, reqs>>  BY <1>2, <1>6 DEF AckError, envVars
  <2>3. fwd' \in BOOLEAN  BY <1>6 DEF AckError, Forward
  <2>. QED  BY <1>4, <1>6, <2>1, <2>2, <2>3, TryFails DEF AckError, ackVars
<1>7. CASE AckTimeout
  <2>1. run.by # "nobody"  BY <1>3, <1>7 DEF AckTimeout, Creating
  <2>2. trouble' \in Nat  BY <1>2, <1>7, InTroubleType DEF AckTimeout
  <2>3. fwd' \in BOOLEAN  BY <1>7 DEF AckTimeout, Forward
  <2>. QED  BY <1>4, <1>7, <2>1, <2>2, <2>3, TryFails DEF AckTimeout, ackVars
<1>8. CASE NothingToDelete
  <2>1. run.by # "nobody"  BY <1>3, <1>8 DEF NothingToDelete, Deleting
  <2>2. trouble' \in Nat /\ fwd' \in BOOLEAN /\ UNCHANGED <<restarts, reqs>>
    BY <1>2, <1>8 DEF NothingToDelete, envVars
  <2>. QED  BY <1>4, <1>8, <2>1, <2>2, TryFails DEF NothingToDelete, ackVars
<1>9. CASE DeleteRefused
  <2>1. run.by # "nobody"  BY <1>3, <1>9 DEF DeleteRefused, Deleting
  <2>2. trouble' \in Nat /\ fwd' \in BOOLEAN
    BY <1>2, <1>9, InTroubleType DEF DeleteRefused, Refused
  <2>3. lastTid \in Nat  BY <1>1, RunTypes
  <2>4. /\ opStatus' \in [Objs -> Statuses] /\ transactionId' \in [Objs -> 0 .. lastTid]
        /\ \A o \in Objs : transactionId'[o] \in {transactionId[o], 0}
    BY <1>4, <1>9, <2>3 DEF DeleteRefused, ClearOpStatusCache, Statuses
  <2>. QED  BY <1>9, <2>1, <2>2, <2>4, TryFails DEF DeleteRefused
<1>. QED  BY <1>5, <1>6, <1>7, <1>8, <1>9
-----------------------------------------------------------------------------
(* Requests, and the beginnings and ends of tries.                         *)

LEMMA RequestStep ==
    ASSUME IInv, NEW op \in {"create", "delete"}, Request(op)
    PROVE  IInv'
<1>. USE DEF Request, ackVars
<1>1. CreateOrder' = CreateOrder /\ DeleteOrder' = DeleteOrder /\ Last' = Last /\ Steps' = Steps
  BY SameOrders
<1>2. TypeOK /\ RunOK  BY DEF IInv
<1>3. req' = [op |-> op, fails |-> 0, sent |-> FALSE] /\ 0 \in 0 .. MaxSendCount
  BY Bounds
<1>4. run.by # "config"  BY <1>2, RunTypes DEF RunOK, NoReq
<1>5. TypeOK'  BY <1>2, TryTypes
<1>6. RunOK'  BY <1>1, <1>2, <1>3, <1>4 DEF RunOK
<1>7. InOrder' /\ OthersAbsent'  BY <1>1 DEF IInv, InOrder, OthersAbsent
<1>8. Awaited'  BY <1>1 DEF IInv, Awaited, Waiting, Obj, Live, Good
<1>9. Built' /\ NoLateSuccess' /\ Removed'
  BY <1>1 DEF IInv, Built, NoLateSuccess, Removed, Obj, Live
<1>10. SentOK' /\ DoneOK'  BY <1>3 DEF SentOK, DoneOK
<1>. QED  BY <1>5, <1>6, <1>7, <1>8, <1>9, <1>10 DEF IInv

\* A try, and the poll thread's, begin at the first step.
LEMMA BeginStep ==
    ASSUME IInv, Try \/ Sync
    PROVE  IInv'
<1>1. UNCHANGED <<payload, dco, fwd, work, acks, half, opStatus, transactionId, lastTid, req,
                  cached, asked, installed, gone, trouble, restarts, reqs>>
  BY DEF Try, Sync, ackVars, agentVars, envVars
<1>2. CreateOrder' = CreateOrder /\ DeleteOrder' = DeleteOrder /\ Last' = Last /\ Steps' = Steps
  BY <1>1, SameOrders
<1>3. TypeOK /\ RunOK /\ DoneOK /\ SentOK  BY DEF IInv
<1>4. run = NoRun  BY DEF Try, Sync
<1>5. \/ /\ run' = [by |-> "config", op |-> req.op, at |-> 1, tid |-> 0]
         /\ req.op # "none" /\ ~req.sent /\ ready' = ready /\ req # NoReq
      \/ /\ run' = [by |-> "sync", op |-> "create", at |-> 1, tid |-> 0]
         /\ ~ready /\ ready' = ready /\ cached
      \/ run' = NoRun /\ ~ready /\ ready' = TRUE
  BY <1>3, <1>4 DEF Try, Sync, RunOK
<1>7. TypeOK'  BY <1>3, TryTypes
<1>8. RunOK'
  <2>1. req.op = "none" => req = NoReq  BY <1>3 DEF RunOK
  <2>2. 1 \in Steps'  BY <1>2, Bounds
  <2>3. req.op \in {"none", "create", "delete"}  BY <1>3, RunTypes
  <2>. QED  BY <1>1, <1>5, <2>1, <2>2, <2>3 DEF RunOK, NoRun
<1>9. InOrder' /\ OthersAbsent'  BY <1>1, <1>2 DEF IInv, InOrder, OthersAbsent
<1>10. run'.tid = 0 /\ run'.at \in {0, 1}  BY <1>5 DEF NoRun
<1>11. Awaited' /\ NoLateSuccess'  BY <1>10 DEF Awaited, Waiting, NoLateSuccess
<1>12. Built' /\ Removed'  BY <1>10 DEF Built, Removed
<1>13. SentOK'  BY <1>1, <1>2, <1>3, <1>4, <1>5 DEF SentOK, Installed, Nothing
<1>14. DoneOK'
  BY <1>1, <1>2, <1>3, <1>4, <1>5 DEF DoneOK, Installed, Nothing
<1>. QED  BY <1>7, <1>8, <1>9, <1>11, <1>12, <1>13, <1>14 DEF IInv

LEMMA NotReadyStep ==
    ASSUME IInv, NotReady
    PROVE  IInv'
<1>. USE DEF NotReady, ackVars, agentVars, envVars
<1>1. CreateOrder' = CreateOrder /\ DeleteOrder' = DeleteOrder /\ Last' = Last /\ Steps' = Steps
  BY SameOrders
<1>2. TypeOK /\ RunOK /\ DoneOK  BY DEF IInv
<1>3. req' = [op |-> req.op, fails |-> 0, sent |-> FALSE] /\ 0 \in 0 .. MaxSendCount
  <2>1. req = [op |-> req.op, fails |-> req.fails, sent |-> req.sent] /\ req.sent = FALSE
    BY <1>2, RunTypes
  <2>2. req' = [req EXCEPT !.fails = 0]  OBVIOUS
  <2>. HIDE DEF NotReady
  <2>3. [req EXCEPT !.fails = 0] = [op |-> req.op, fails |-> 0, sent |-> req.sent]
    BY <2>1
  <2>. QED  BY <2>1, <2>2, <2>3, Bounds
<1>4. TypeOK'  BY TryTypes DEF IInv
<1>5. RunOK'  BY <1>1, <1>2, <1>3, RunTypes DEF RunOK, NoRun, NoReq
<1>6. InOrder' /\ OthersAbsent'  BY <1>1 DEF IInv, InOrder, OthersAbsent
<1>7. Awaited'  BY <1>1 DEF IInv, Awaited, Waiting, Obj, Live, Good
<1>8. Built' /\ NoLateSuccess' /\ Removed'
  BY <1>1 DEF IInv, Built, NoLateSuccess, Removed, Obj, Live
<1>9. SentOK' /\ DoneOK'  BY <1>1, <1>2, <1>3 DEF SentOK, DoneOK
<1>. QED  BY <1>4, <1>5, <1>6, <1>7, <1>8, <1>9 DEF IInv

LEMMA CompleteSentStep ==
    ASSUME IInv, CompleteSent
    PROVE  IInv'
<1>. USE DEF CompleteSent, Complete, ackVars, envVars
<1>1. CreateOrder' = CreateOrder /\ DeleteOrder' = DeleteOrder /\ Last' = Last /\ Steps' = Steps
  BY SameOrders
<1>2. TypeOK /\ RunOK /\ SentOK  BY DEF IInv
<1>3. req' = [op |-> "none", fails |-> 0, sent |-> FALSE] /\ 0 \in 0 .. MaxSendCount
  BY Bounds DEF NoReq
<1>4. TypeOK'  BY TryTypes DEF IInv
<1>5. RunOK'  BY <1>1, <1>2, <1>3 DEF RunOK, NoRun, NoReq
<1>6. InOrder' /\ OthersAbsent'  BY <1>1 DEF IInv, InOrder, OthersAbsent
<1>7. Awaited'  BY <1>1 DEF IInv, Awaited, Waiting, Obj, Live, Good
<1>8. Built' /\ NoLateSuccess' /\ Removed'
  BY <1>1 DEF IInv, Built, NoLateSuccess, Removed, Obj, Live
<1>9. SentOK'  BY <1>3 DEF SentOK
<1>10. DoneOK'  BY <1>1, <1>2 DEF DoneOK, SentOK, Installed, Nothing
<1>. QED  BY <1>4, <1>5, <1>6, <1>7, <1>8, <1>9, <1>10 DEF IInv
-----------------------------------------------------------------------------
(* The callback thread and the faults.                                     *)

LEMMA StoreStatusStep ==
    ASSUME IInv, StoreStatus
    PROVE  IInv'
<1>1. UNCHANGED <<payload, dco, fwd, work, transactionId, lastTid, run, req, cached, asked,
                  installed, gone, ready, trouble, restarts, reqs>>
  BY DEF StoreStatus, agentVars, envVars
<1>2. CreateOrder' = CreateOrder /\ DeleteOrder' = DeleteOrder /\ Last' = Last /\ Steps' = Steps
  BY <1>1, SameOrders
<1>3. TypeOK /\ RunOK /\ InOrder /\ Awaited  BY DEF IInv
<1>4. /\ acks \in Seq(Acks) /\ acks # <<>> /\ half = NoAck
      /\ half' = acks[1] /\ acks' = Tail(acks)
      /\ opStatus' = [opStatus EXCEPT ![acks[1].obj] = acks[1].status]
  BY <1>3, QueueTypes, TakeHead DEF StoreStatus
<1>5. /\ Len(acks) \in Nat \ {0} /\ acks[1] \in Acks /\ acks' \in Seq(Acks)
      /\ Len(acks') = Len(acks) - 1 /\ \A i \in 1 .. Len(acks') : acks'[i] = acks[i + 1]
      /\ Len(acks) = 1 => acks' = <<>>
  BY <1>4, TakeHead
<1>7. TypeOK'  BY <1>3, AnswerTypes
<1>8. RunOK'  BY <1>1, <1>2, <1>3 DEF RunOK
<1>9. InOrder'
  <2>1. \A i \in 1 .. Len(acks') : acks'[i].tid = lastTid => work = <<>> /\ i = Len(acks')
    <3>. SUFFICES ASSUME NEW i \in 1 .. Len(acks'), acks'[i].tid = lastTid
                  PROVE  work = <<>> /\ i = Len(acks')
      OBVIOUS
    <3>1. i + 1 \in 1 .. Len(acks) /\ acks[i + 1].tid = lastTid  BY <1>5
    <3>. QED  BY <1>3, <1>5, <3>1 DEF InOrder
  <2>2. acks[1].tid = lastTid => work = <<>> /\ acks' = <<>>
    BY <1>3, <1>5 DEF InOrder
  <2>3. \A o \in Objs : ~(transactionId[o] = lastTid /\ lastTid # 0)
    BY <1>3, <1>4 DEF InOrder
  <2>. QED  BY <1>1, <1>3, <1>4, <2>1, <2>2, <2>3 DEF InOrder
<1>10. Awaited'
  <2>. SUFFICES ASSUME Waiting PROVE Awaited'
    BY <1>1 DEF Awaited, Waiting
  <2>0. Obj' = Obj /\ Live' = Live /\ \A o \in Objs : Good(o)' = Good(o)
    BY <1>1, <1>2 DEF Obj, Live, Good
  <2>1. run.at \in Steps /\ run.tid = lastTid /\ lastTid # 0 /\ Obj \in Objs
    <3>1. run.by # "nobody"  BY <1>3 DEF RunOK, Waiting, NoRun
    <3>. QED  BY <1>3, <3>1, OrderFacts, RunTypes DEF RunOK, Waiting, Obj
  <2>2. \A i \in 1 .. Len(acks') : acks'[i].tid = lastTid =>
          acks'[i].obj = Obj /\ (acks'[i].status = "SUCCESS" => Good(Obj))
    <3>. SUFFICES ASSUME NEW i \in 1 .. Len(acks'), acks'[i].tid = lastTid
                  PROVE  acks'[i].obj = Obj /\ (acks'[i].status = "SUCCESS" => Good(Obj))
      OBVIOUS
    <3>1. i + 1 \in 1 .. Len(acks) /\ acks'[i] = acks[i + 1]  BY <1>5
    <3>. QED  BY <1>3, <3>1 DEF Awaited
  <2>3. half'.tid = lastTid =>
          /\ half'.obj = Obj /\ opStatus'[Obj] = half'.status
          /\ half'.status = "SUCCESS" => Good(Obj)
    <3>. SUFFICES ASSUME acks[1].tid = lastTid
                  PROVE  /\ acks[1].obj = Obj /\ opStatus'[Obj] = acks[1].status
                         /\ acks[1].status = "SUCCESS" => Good(Obj)
      BY <1>4
    <3>1. acks[1].obj = Obj /\ (acks[1].status = "SUCCESS" => Good(Obj))
      BY <1>3, <1>5 DEF Awaited
    <3>. QED  BY <1>3, <1>4, <2>1, <3>1, QueueTypes
  <2>4. transactionId[Obj] # lastTid  BY <1>3, <1>4, <2>1 DEF InOrder
  <2>5. Live => dco[Obj] # "absent"  BY <1>3 DEF Awaited
  <2>6. \A i \in 1 .. Len(work) : work[i].tid = lastTid => work[i].obj = Obj
    BY <1>3 DEF Awaited
  <2>7. Good(Obj)' = Good(Obj)  BY <2>0, <2>1
  <2>. HIDE DEF Good
  <2>. QED  BY <1>1, <2>0, <2>2, <2>3, <2>4, <2>5, <2>6, <2>7 DEF Awaited
<1>11. Built' /\ Removed' /\ OthersAbsent'
  BY <1>1, <1>2 DEF IInv, Built, Removed, OthersAbsent, Live
<1>12. NoLateSuccess'  BY <1>1, <1>2, <1>4 DEF IInv, NoLateSuccess, Live, Obj
<1>13. SentOK' /\ DoneOK'
  BY <1>1, <1>2 DEF IInv, SentOK, DoneOK, Installed, Nothing
<1>. QED  BY <1>7, <1>8, <1>9, <1>10, <1>11, <1>12, <1>13 DEF IInv

LEMMA StoreTransactionIdStep ==
    ASSUME IInv, StoreTransactionId
    PROVE  IInv'
<1>1. UNCHANGED <<payload, dco, fwd, work, acks, opStatus, lastTid, run, req, cached, asked,
                  installed, gone, ready, trouble, restarts, reqs>>
  BY DEF StoreTransactionId, agentVars, envVars
<1>2. CreateOrder' = CreateOrder /\ DeleteOrder' = DeleteOrder /\ Last' = Last /\ Steps' = Steps
  BY <1>1, SameOrders
<1>3. TypeOK /\ RunOK /\ InOrder /\ Awaited  BY DEF IInv
<1>4. /\ half # NoAck /\ half' = NoAck /\ half \in Acks
      /\ transactionId' = [transactionId EXCEPT ![half.obj] = half.tid]
  BY <1>3, QueueTypes DEF StoreTransactionId
<1>5. half.obj \in Objs /\ half.tid \in 0 .. lastTid /\ half'.tid = 0
  BY <1>3, <1>4, RunTypes DEF Acks, Tids, NoAck
<1>6. /\ \A o \in Objs : transactionId'[o] = IF o = half.obj THEN half.tid ELSE transactionId[o]
      /\ transactionId' \in [Objs -> 0 .. lastTid]
  BY <1>3, <1>4, <1>5, QueueTypes
<1>7. TypeOK'  BY <1>3, AnswerTypes
<1>8. RunOK'  BY <1>1, <1>2, <1>3 DEF RunOK
<1>9. InOrder'
  <2>1. \A o \in Objs : transactionId'[o] = lastTid /\ lastTid # 0 =>
                           work = <<>> /\ acks = <<>> /\ half' = NoAck
    BY <1>3, <1>4, <1>6 DEF InOrder
  <2>. QED  BY <1>1, <1>3, <1>4, <2>1 DEF InOrder
<1>10. ASSUME run.op = "create", run.at \in Steps  PROVE Obj \in Objs
  BY <1>10, OrderFacts DEF Obj
<1>11. Waiting => run.at \in Steps /\ run.op = "create" /\ run.tid = lastTid /\ lastTid # 0
  BY <1>3 DEF RunOK, Waiting, NoRun
<1>12. Awaited'
  <2>. SUFFICES ASSUME Waiting PROVE Awaited'
    BY <1>1 DEF Awaited, Waiting
  <2>1. Obj' = Obj /\ Live' = Live /\ \A o \in Objs : Good(o)' = Good(o)
    BY <1>1, <1>2 DEF Obj, Live, Good
  <2>2. Obj \in Objs /\ run.tid = lastTid /\ lastTid # 0  BY <1>10, <1>11
  <2>3. Good(Obj)' = Good(Obj)  BY <2>1, <2>2
  <2>. HIDE DEF Good
  <2>4. transactionId'[Obj] = lastTid /\ opStatus[Obj] = "SUCCESS" => Good(Obj)
    BY <1>3, <1>6, <2>2 DEF Awaited
  <2>. QED  BY <1>1, <1>3, <1>5, <2>1, <2>2, <2>3, <2>4 DEF Awaited
<1>13. Built' /\ Removed' /\ OthersAbsent'
  BY <1>1, <1>2 DEF IInv, Built, Removed, OthersAbsent, Live
<1>14. NoLateSuccess'
  <2>. SUFFICES ASSUME run.op = "create", run.at = Last, run.tid # 0, ~Live
                PROVE  work = <<>> /\ acks = <<>> /\ half'.tid # lastTid
                       /\ transactionId'[Obj] # lastTid
    BY <1>1, <1>2 DEF NoLateSuccess, Live, Obj
  <2>1. NoLateSuccess  BY DEF IInv
  <2>2. Obj \in Objs /\ lastTid # 0  BY <1>10, <1>11 DEF Waiting
  <2>. QED  BY <1>5, <1>6, <2>1, <2>2 DEF NoLateSuccess
<1>15. SentOK' /\ DoneOK'
  BY <1>1, <1>2 DEF IInv, SentOK, DoneOK, Installed, Nothing
<1>. QED  BY <1>7, <1>8, <1>9, <1>12, <1>13, <1>14, <1>15 DEF IInv

LEMMA LoseAnswerStep ==
    ASSUME IInv, LoseAnswer
    PROVE  IInv'
<1>1. UNCHANGED <<payload, dco, fwd, work, half, opStatus, transactionId, lastTid, run, req,
                  cached, asked, installed, gone, ready, restarts, reqs>>
  BY DEF LoseAnswer, agentVars
<1>2. CreateOrder' = CreateOrder /\ DeleteOrder' = DeleteOrder /\ Last' = Last /\ Steps' = Steps
  BY <1>1, SameOrders
<1>3. TypeOK /\ RunOK /\ InOrder /\ Awaited  BY DEF IInv
<1>4. /\ acks \in Seq(Acks) /\ acks # <<>> /\ acks' = Tail(acks)
  BY <1>3, QueueTypes DEF LoseAnswer
<1>5. /\ Len(acks) \in Nat \ {0} /\ acks' \in Seq(Acks)
      /\ Len(acks') = Len(acks) - 1 /\ \A i \in 1 .. Len(acks') : acks'[i] = acks[i + 1]
      /\ Len(acks) = 1 => acks' = <<>>
  BY <1>4, TakeHead
<1>7. TypeOK'  BY <1>3, AnswerTypes
<1>8. RunOK'  BY <1>1, <1>2, <1>3 DEF RunOK
<1>9. \A i \in 1 .. Len(acks') : i + 1 \in 1 .. Len(acks) /\ acks'[i] = acks[i + 1]
  BY <1>5
<1>10. InOrder'
  <2>1. \A i \in 1 .. Len(acks') : acks'[i].tid = lastTid => work = <<>> /\ i = Len(acks')
    <3>. SUFFICES ASSUME NEW i \in 1 .. Len(acks'), acks'[i].tid = lastTid
                  PROVE  work = <<>> /\ i = Len(acks')
      OBVIOUS
    <3>1. i + 1 \in 1 .. Len(acks) /\ acks[i + 1].tid = lastTid  BY <1>9
    <3>2. work = <<>> /\ i + 1 = Len(acks)  BY <1>3, <3>1 DEF InOrder
    <3>. QED  BY <1>5, <3>2
  <2>2. /\ ~(half # NoAck /\ half.tid = lastTid)
        /\ \A o \in Objs : ~(transactionId[o] = lastTid /\ lastTid # 0)
    BY <1>3, <1>4 DEF InOrder
  <2>. QED  BY <1>1, <1>3, <2>1, <2>2 DEF InOrder
<1>11. Awaited'
  <2>. SUFFICES ASSUME Waiting PROVE Awaited'
    BY <1>1 DEF Awaited, Waiting
  <2>1. Obj' = Obj /\ Live' = Live /\ Good(Obj)' = Good(Obj)
    BY <1>1, <1>2 DEF Obj, Live, Good
  <2>. HIDE DEF Good
  <2>2. \A i \in 1 .. Len(acks') : acks'[i].tid = lastTid =>
          acks'[i].obj = Obj /\ (acks'[i].status = "SUCCESS" => Good(Obj))
    BY <1>3, <1>9 DEF Awaited
  <2>. QED  BY <1>1, <1>3, <2>1, <2>2 DEF Awaited
<1>12. Built' /\ Removed' /\ OthersAbsent'
  BY <1>1, <1>2 DEF IInv, Built, Removed, OthersAbsent, Live
<1>13. NoLateSuccess'  BY <1>1, <1>2, <1>4 DEF IInv, NoLateSuccess, Live, Obj
<1>14. SentOK' /\ DoneOK'
  BY <1>1, <1>2 DEF IInv, SentOK, DoneOK, Installed, Nothing
<1>. QED  BY <1>7, <1>8, <1>10, <1>11, <1>12, <1>13, <1>14 DEF IInv

LEMMA DcoRestartStep ==
    ASSUME IInv, DcoRestart, RestartInGap = FALSE
    PROVE  IInv'
<1>1. /\ UNCHANGED <<payload, fwd, half, opStatus, transactionId, lastTid, run, req, cached,
                     asked, gone, trouble, reqs>>
      /\ dco' = [o \in Objs |-> "absent"] /\ work' = <<>> /\ acks' = <<>>
      /\ ready' = FALSE /\ installed' = FALSE /\ restarts' = restarts + 1
      /\ run.by # "sync" /\ ~InGap
  BY DEF DcoRestart
<1>2. CreateOrder' = CreateOrder /\ DeleteOrder' = DeleteOrder /\ Last' = Last /\ Steps' = Steps
  BY <1>1, SameOrders
<1>3. TypeOK /\ RunOK /\ InOrder /\ Awaited  BY DEF IInv
<1>4. TypeOK'  BY <1>3, AnswerTypes
<1>5. RunOK'  BY <1>1, <1>2, <1>3 DEF RunOK
<1>6. Len(work') = 0 /\ Len(acks') = 0  BY <1>1
<1>7. InOrder'  BY <1>1, <1>3, <1>6 DEF InOrder
<1>8. ~Live' /\ Obj' = Obj  BY <1>1, <1>2 DEF Live, Obj
<1>9. Awaited'  BY <1>1, <1>3, <1>6, <1>8 DEF Awaited, Waiting, Good
<1>10. Built'  BY <1>1, <1>6, <1>8 DEF Built
<1>11. NoLateSuccess'
  <2>1. run.op = "create" /\ run.at = Last /\ run.tid # 0 =>
          half.tid # lastTid /\ transactionId[Obj] # lastTid
    <3>1. Last > 0  BY OrderFacts
    <3>. QED  BY <1>1, <1>3, <3>1 DEF InGap, Creating, RunOK, Last
  <2>. QED  BY <1>1, <1>2, <1>8, <2>1 DEF NoLateSuccess
<1>12. OthersAbsent'  BY <1>1 DEF OthersAbsent
<1>13. Removed'
  <2>1. Removed  BY DEF IInv
  <2>. SUFFICES ASSUME run.op = "delete", NEW j \in 1 .. run.at - 1
                PROVE  dco'[DeleteOrder[j]] = "absent" /\ (DeleteOrder[j] = "dst2" => ~fwd)
    BY <1>1, <1>2 DEF Removed
  <2>2. j \in Steps
    BY <1>3, RunTypes, OrderFacts DEF Steps
  <2>3. DeleteOrder[j] \in Objs  BY <2>2, OrderFacts
  <2>. QED  BY <1>1, <2>1, <2>3 DEF Removed
<1>14. SentOK'  BY <1>1 DEF SentOK, InGap
<1>15. DoneOK'  BY <1>1 DEF IInv, DoneOK, Nothing
<1>. QED  BY <1>4, <1>5, <1>7, <1>9, <1>10, <1>11, <1>12, <1>13, <1>14, <1>15 DEF IInv
-----------------------------------------------------------------------------
(* What a try sends, and what the DCO makes of it.                         *)

LEMMA SendCreateStep ==
    ASSUME IInv, SendCreate
    PROVE  IInv'
<1>1. /\ UNCHANGED <<payload, fwd, acks, half, opStatus, transactionId, req, cached, asked,
                     installed, gone, ready, trouble, restarts, reqs>>
      /\ run.op = "create" /\ run.at > 0 /\ run.tid = 0
      /\ lastTid' = lastTid + 1 /\ run' = [run EXCEPT !.tid = lastTid + 1]
      /\ dco' = [dco EXCEPT ![Obj] = "set"]
      /\ work' = Append(work, [obj |-> Obj, tid |-> lastTid + 1])
  BY DEF SendCreate, Creating, agentVars, envVars
<1>2. CreateOrder' = CreateOrder /\ DeleteOrder' = DeleteOrder /\ Last' = Last /\ Steps' = Steps
  BY <1>1, SameOrders
<1>3. TypeOK /\ RunOK /\ InOrder /\ Built  BY DEF IInv
<1>4. run.by # "nobody" /\ run.at \in Steps /\ Obj \in Objs /\ run # NoRun
  BY <1>1, <1>3, OrderFacts DEF RunOK, NoRun, Obj
<1>5. /\ run' = [by |-> run.by, op |-> "create", at |-> run.at, tid |-> lastTid + 1]
      /\ lastTid \in Nat /\ lastTid' \in Nat /\ lastTid + 1 # lastTid
  BY <1>1, <1>3, RunTypes
<1>6. /\ Tids \subseteq Tids' /\ Acks \subseteq Acks'
      /\ [obj : Objs, tid : Tids] \subseteq [obj : Objs, tid : Tids']
      /\ lastTid + 1 \in Tids' /\ 0 .. lastTid \subseteq 0 .. lastTid'
  <2>1. Tids \subseteq Tids' /\ lastTid + 1 \in Tids' /\ 0 .. lastTid \subseteq 0 .. lastTid'
    BY <1>1, <1>5 DEF Tids
  <2>. QED  BY <2>1 DEF Acks
<1>7. /\ work \in Seq([obj : Objs, tid : Tids']) /\ [obj |-> Obj, tid |-> lastTid + 1] \in [obj : Objs, tid : Tids']
      /\ acks \in Seq(Acks')
  BY <1>3, <1>4, <1>6, QueueTypes, SeqMonotonic
<1>8. /\ work' \in Seq([obj : Objs, tid : Tids'])
      /\ Len(work) \in Nat /\ Len(work') = Len(work) + 1
      /\ \A i \in 1 .. Len(work) : work'[i] = work[i] /\ work[i].tid \in Tids
      /\ work'[Len(work) + 1] = [obj |-> Obj, tid |-> lastTid + 1]
  <2>1. /\ work' \in Seq([obj : Objs, tid : Tids']) /\ Len(work') = Len(work) + 1
        /\ \A i \in 1 .. Len(work) : work'[i] = work[i]
        /\ work'[Len(work) + 1] = [obj |-> Obj, tid |-> lastTid + 1]
    BY <1>1, <1>7, AppendProperties
  <2>2. Len(work) \in Nat  BY <1>7, LenProperties
  <2>3. \A i \in 1 .. Len(work) : work[i] \in [obj : Objs, tid : Tids]
    BY <1>3, QueueTypes, ElementOfSeq
  <2>. QED  BY <2>1, <2>2, <2>3
<1>9. /\ \A i \in 1 .. Len(acks) : acks[i].tid \in Tids
      /\ half.tid \in 0 .. lastTid
      /\ \A o \in Objs : transactionId[o] \in 0 .. lastTid
  <2>1. \A i \in 1 .. Len(acks) : acks[i] \in Acks  BY <1>3, QueueTypes, ElementOfSeq
  <2>2. half.tid \in 0 .. lastTid  BY <1>3, <1>5, QueueTypes DEF Acks, Tids, NoAck
  <2>. QED  BY <1>3, <2>1, <2>2, QueueTypes DEF Acks
<1>10. TypeOK'  BY <1>3, SendTypes
<1>11. RunOK'  BY <1>1, <1>2, <1>3, <1>4, <1>5 DEF RunOK, NoRun
<1>12. \A i \in 1 .. Len(work') : i < Len(work') => i \in 1 .. Len(work) /\ work'[i].tid \in Tids
  BY <1>8
<1>13. InOrder'
  <2>1. \A i \in 1 .. Len(work') : i < Len(work') => work'[i].tid < lastTid'
    BY <1>1, <1>5, <1>12 DEF Tids
  <2>2. \A i \in 1 .. Len(acks') : acks'[i].tid # lastTid'  BY <1>1, <1>5, <1>9 DEF Tids
  <2>3. half'.tid # lastTid'  BY <1>1, <1>5, <1>9
  <2>4. \A o \in Objs : transactionId'[o] # lastTid'  BY <1>1, <1>5, <1>9
  <2>. QED  BY <2>1, <2>2, <2>3, <2>4 DEF InOrder
<1>14. Obj' = Obj  BY <1>1, <1>2, <1>5 DEF Obj
<1>15. Awaited'
  <2>1. dco'[Obj] # "absent"  BY <1>1, <1>3, <1>4, QueueTypes
  <2>2. \A i \in 1 .. Len(work') : work'[i].tid = lastTid' => work'[i].obj = Obj
    <3>. SUFFICES ASSUME NEW i \in 1 .. Len(work'), work'[i].tid = lastTid'
                  PROVE  work'[i].obj = Obj
      OBVIOUS
    <3>1. i = Len(work) + 1
      <4>1. ~(i \in 1 .. Len(work))  BY <1>1, <1>5, <1>8 DEF Tids
      <4>. QED  BY <1>8, <4>1
    <3>. QED  BY <1>8, <3>1
  <2>3. \A i \in 1 .. Len(acks') : acks'[i].tid # lastTid'  BY <1>1, <1>5, <1>9 DEF Tids
  <2>4. half'.tid # lastTid' /\ transactionId'[Obj] # lastTid'  BY <1>1, <1>4, <1>5, <1>9
  <2>. QED  BY <1>14, <2>1, <2>2, <2>3, <2>4 DEF Awaited
<1>16. Built'
  <2>1. run.at > 1 => work = <<>>
    <3>1. work # <<>> => Len(work) > 0
      BY <1>3, QueueTypes, EmptySeq
    <3>2. run.at > 1 => Len(work) = 0
      BY <1>1, <1>3, <1>8 DEF Built
    <3>. QED  BY <3>1, <3>2
  <2>2. run.at > 1 => \A i \in 1 .. Len(work') : run'.tid # 0 /\ work'[i].tid = lastTid'
    <3>. SUFFICES ASSUME run.at > 1, NEW i \in 1 .. Len(work')
                  PROVE  run'.tid # 0 /\ work'[i].tid = lastTid'
      OBVIOUS
    <3>1. Len(work) = 0  BY <2>1
    <3>. QED  BY <1>1, <1>5, <1>8, <3>1
  <2>3. Live => \A j \in 1 .. run.at - 1 : dco'[CreateOrder[j]] = "works"
    <3>. SUFFICES ASSUME Live, NEW j \in 1 .. run.at - 1  PROVE dco'[CreateOrder[j]] = "works"
      OBVIOUS
    <3>1. dco[CreateOrder[j]] = "works"  BY <1>1, <1>3 DEF Built
    <3>2. j \in Steps /\ j # run.at
      <4>1. run.at \in 1 .. Last /\ Last \in Nat  BY <1>4, Bounds DEF Steps
      <4>. QED  BY <4>1 DEF Steps
    <3>3. CreateOrder[j] \in Objs /\ CreateOrder[j] # Obj  BY <1>4, <3>2, OrderFacts DEF Obj
    <3>. QED  BY <1>1, <1>3, <3>1, <3>3, QueueTypes
  <2>. QED  BY <1>1, <1>2, <1>5, <2>2, <2>3 DEF Built, Live
<1>17. NoLateSuccess'
  <2>1. Live' = Live  BY <1>1, <1>5 DEF Live
  <2>2. Live
    <3>1. run.by \in {"nobody", "config", "sync"}  BY <1>3, RunTypes
    <3>. QED  BY <1>4, <3>1 DEF SendCreate, Unreachable, Live
  <2>. QED  BY <2>1, <2>2 DEF NoLateSuccess
<1>18. OthersAbsent'
  <2>1. \A o \in Objs : o # Obj => dco'[o] = dco[o]  BY <1>1, <1>3, QueueTypes
  <2>2. OthersAbsent  BY DEF IInv
  <2>. QED  BY <1>2, <1>4, <2>1, <2>2 DEF OthersAbsent, Obj
<1>19. Removed'  BY <1>5 DEF Removed
<1>20. SentOK' /\ DoneOK'
  BY <1>1, <1>4 DEF IInv, SentOK, DoneOK
<1>. QED  BY <1>10, <1>11, <1>13, <1>15, <1>16, <1>17, <1>18, <1>19, <1>20 DEF IInv

LEMMA DcoCarriesOutStep ==
    ASSUME IInv, DcoCarriesOut
    PROVE  IInv'
<1>1. /\ UNCHANGED <<payload, fwd, half, opStatus, transactionId, lastTid, run, req, cached,
                     asked, installed, gone, ready, restarts, reqs>>
      /\ work # <<>> /\ work' = Tail(work)
  BY DEF DcoCarriesOut, agentVars
<1>2. CreateOrder' = CreateOrder /\ DeleteOrder' = DeleteOrder /\ Last' = Last /\ Steps' = Steps
  BY <1>1, SameOrders
<1>3. TypeOK /\ RunOK /\ InOrder /\ Awaited /\ Built /\ OthersAbsent /\ Removed /\ SentOK /\ DoneOK
  BY DEF IInv
<1>4. /\ Len(work) \in Nat \ {0} /\ Head(work) = work[1] /\ work[1] \in [obj : Objs, tid : Tids]
      /\ work' \in Seq([obj : Objs, tid : Tids]) /\ Len(work') = Len(work) - 1
      /\ \A i \in 1 .. Len(work') : work'[i] = work[i + 1]
      /\ Len(work) = 1 => work' = <<>>
  BY <1>1, <1>3, QueueTypes, TakeHead
<1>5. DEFINE x == work[1].obj
             t == work[1].tid
<1>6. x \in Objs /\ t \in Tids /\ t \in 1 .. lastTid /\ lastTid \in Nat
  BY <1>3, <1>4, RunTypes DEF Tids
<1>7. PICK status \in {"SUCCESS", "ERROR"} :
        /\ IF status = "ERROR" THEN InTrouble ELSE UNCHANGED trouble
        /\ dco' = [dco EXCEPT ![x] = IF @ = "absent" THEN @
                                     ELSE IF status = "SUCCESS" THEN "works" ELSE "broken"]
        /\ acks' = Append(acks, [obj |-> x, tid |-> t, status |-> status])
  BY <1>4 DEF DcoCarriesOut
<1>. DEFINE a == [obj |-> x, tid |-> t, status |-> status]
<1>8. a \in Acks  BY <1>6 DEF Acks, Statuses
<1>9. /\ Len(acks) \in Nat /\ acks' \in Seq(Acks) /\ Len(acks') = Len(acks) + 1 /\ acks' # <<>>
      /\ \A i \in 1 .. Len(acks) : acks'[i] = acks[i]
      /\ acks'[Len(acks) + 1] = a
  <2>1. acks \in Seq(Acks)  BY <1>3, QueueTypes
  <2>2. Len(acks) \in Nat  BY <2>1, LenProperties
  <2>. HIDE DEF a
  <2>3. acks' = Append(acks, a)  BY <1>7 DEF a
  <2>. QED  BY <1>8, <2>1, <2>2, <2>3, AppendProperties
<1>10. /\ \A o \in Objs : o # x => dco'[o] = dco[o]
       /\ dco[x] = "absent" => dco'[x] = "absent"
       /\ dco[x] # "absent" /\ status = "SUCCESS" => dco'[x] = "works"
       /\ dco[x] # "absent" => dco'[x] # "absent"
       /\ dco' \in [Objs -> {"absent", "set", "works", "broken"}]
  <2>1. dco \in [Objs -> {"absent", "set", "works", "broken"}]  BY <1>3, QueueTypes
  <2>2. dco' = [dco EXCEPT ![x] = IF dco[x] = "absent" THEN dco[x]
                                  ELSE IF status = "SUCCESS" THEN "works" ELSE "broken"]
    BY <1>7
  <2>. HIDE DEF x
  <2>. QED  BY <1>6, <2>1, <2>2
<1>. HIDE DEF x, t, a
<1>12. a.obj = x /\ a.tid = t /\ a.status = status  BY DEF a
<1>13. TypeOK'  BY <1>3, AnswerTypes
<1>14. RunOK'  BY <1>1, <1>2, <1>3 DEF RunOK
<1>15. \A i \in 1 .. Len(work') : i + 1 \in 1 .. Len(work) /\ work'[i] = work[i + 1]
  BY <1>4
\* The newest transaction is the head of the work only if it is all of it.
<1>16. t = lastTid => work' = <<>>
  <2>1. Len(work) # 1 => t < lastTid  BY <1>3, <1>4 DEF InOrder, t
  <2>. QED  BY <1>4, <1>6, <2>1
<1>17. \A i \in 1 .. Len(acks) : acks[i].tid # lastTid  BY <1>1, <1>3 DEF InOrder
<1>18. /\ ~(half # NoAck /\ half.tid = lastTid)
       /\ \A o \in Objs : ~(transactionId[o] = lastTid /\ lastTid # 0)
  BY <1>1, <1>3 DEF InOrder
<1>19. \A i \in 1 .. Len(acks') : acks'[i].tid = lastTid =>
          i = Len(acks') /\ acks'[i] = a /\ t = lastTid
  <2>. SUFFICES ASSUME NEW i \in 1 .. Len(acks'), acks'[i].tid = lastTid
                PROVE  i = Len(acks') /\ acks'[i] = a /\ t = lastTid
    OBVIOUS
  <2>1. ~(i \in 1 .. Len(acks))  BY <1>9, <1>17
  <2>2. i = Len(acks) + 1  BY <1>9, <2>1
  <2>. QED  BY <1>9, <1>12, <2>2
<1>20. InOrder'
  <2>1. \A i \in 1 .. Len(work') : i < Len(work') => work'[i].tid < lastTid
    <3>. SUFFICES ASSUME NEW i \in 1 .. Len(work'), i < Len(work')
                  PROVE  work'[i].tid < lastTid
      OBVIOUS
    <3>1. i + 1 \in 1 .. Len(work) /\ i + 1 < Len(work)  BY <1>4, <1>15
    <3>. QED  BY <1>3, <1>15, <3>1 DEF InOrder
  <2>. QED  BY <1>1, <1>16, <1>18, <1>19, <2>1 DEF InOrder
<1>21. Obj' = Obj /\ Live' = Live  BY <1>1, <1>2 DEF Obj, Live
<1>22. run.op = "create" /\ run.by # "nobody" => run.at \in Steps /\ Obj \in Objs
  BY <1>3, OrderFacts DEF RunOK, Obj
<1>23. Awaited'
  <2>. SUFFICES ASSUME Waiting PROVE Awaited'
    BY <1>1 DEF Awaited, Waiting
  <2>1. Obj \in Objs /\ lastTid # 0
    BY <1>3, <1>22 DEF Waiting, RunOK, NoRun
  <2>2. Live => dco'[Obj] # "absent"  BY <1>3, <1>10, <2>1 DEF Awaited
  <2>3. \A i \in 1 .. Len(work') : work'[i].tid = lastTid => work'[i].obj = Obj
    BY <1>3, <1>15 DEF Awaited
  <2>4. t = lastTid => x = Obj  BY <1>3, <1>4 DEF Awaited, x, t
  <2>5. t = lastTid /\ status = "SUCCESS" => Good(Obj)'
    <3>1. Live /\ t = lastTid /\ status = "SUCCESS" => dco'[Obj] = "works"
      BY <1>3, <1>10, <2>4 DEF Awaited
    <3>. QED  BY <1>21, <3>1 DEF Good
  <2>6. \A i \in 1 .. Len(acks') : acks'[i].tid = lastTid =>
          acks'[i].obj = Obj /\ (acks'[i].status = "SUCCESS" => Good(Obj)')
    BY <1>12, <1>19, <2>4, <2>5
  <2>7. half.tid # lastTid
    BY <1>18, <2>1 DEF NoAck
  <2>. HIDE DEF Good
  <2>. QED  BY <1>1, <1>18, <1>21, <2>1, <2>2, <2>3, <2>6, <2>7 DEF Awaited
<1>24. Built'
  <2>. SUFFICES ASSUME run.op = "create"
                PROVE  /\ run.at > 1 => \A i \in 1 .. Len(work') : run.tid # 0 /\ work'[i].tid = lastTid
                       /\ Live => \A j \in 1 .. run.at - 1 : dco'[CreateOrder[j]] = "works"
    BY <1>1, <1>2, <1>21 DEF Built
  <2>1. run.at > 1 => \A i \in 1 .. Len(work') : run.tid # 0 /\ work'[i].tid = lastTid
    BY <1>3, <1>15 DEF Built
  <2>2. ASSUME Live, NEW j \in 1 .. run.at - 1  PROVE dco'[CreateOrder[j]] = "works"
    <3>0. run.by # "nobody"  BY <1>3 DEF RunOK, NoRun
    <3>1. run.at \in 1 .. Last /\ Last \in Nat /\ Obj \in Objs
      BY <1>22, <3>0, Bounds DEF Steps
    <3>2. j \in Steps /\ j # run.at /\ run.at > 1  BY <3>1 DEF Steps
    <3>3. run.tid # 0 /\ t = lastTid
      BY <1>3, <1>4, <3>2 DEF Built, t
    <3>4. x = Obj  BY <1>3, <1>4, <3>3 DEF Awaited, Waiting, x, t
    <3>5. CreateOrder[j] \in Objs /\ CreateOrder[j] # Obj
      BY <1>22, <3>0, <3>2, OrderFacts DEF Obj
    <3>6. dco[CreateOrder[j]] = "works"  BY <1>3, <2>2 DEF Built
    <3>. QED  BY <1>10, <3>4, <3>5, <3>6
  <2>. QED  BY <2>1, <2>2
<1>25. NoLateSuccess'
  BY <1>1, <1>2, <1>21 DEF IInv, NoLateSuccess
<1>26. OthersAbsent'
  BY <1>2, <1>3, <1>10 DEF OthersAbsent
<1>27. Removed'
  <2>. SUFFICES ASSUME run.op = "delete", NEW j \in 1 .. run.at - 1
                PROVE  dco'[DeleteOrder[j]] = "absent" /\ (DeleteOrder[j] = "dst2" => ~fwd)
    BY <1>1, <1>2 DEF Removed
  <2>1. run.at \in 1 .. Last /\ Last \in Nat
    BY <1>3, Bounds DEF RunOK, NoRun, Steps
  <2>2. j \in Steps  BY <2>1 DEF Steps
  <2>3. DeleteOrder[j] \in Objs  BY <2>2, OrderFacts
  <2>. QED  BY <1>3, <1>10, <2>3 DEF Removed
<1>28. SentOK' /\ DoneOK'
  <2>1. Installed => work = <<>>  BY DEF Installed
  <2>2. Nothing => Nothing'  BY <1>1, <1>10 DEF Nothing
  <2>. QED  BY <1>1, <1>3, <2>1, <2>2 DEF SentOK, DoneOK
<1>. QED  BY <1>13, <1>14, <1>20, <1>23, <1>24, <1>25, <1>26, <1>27, <1>28 DEF IInv

LEMMA AckSuccessStep ==
    ASSUME IInv, AckSuccess
    PROVE  IInv'
<1>1. /\ UNCHANGED <<payload, dco, work, acks, half, opStatus, transactionId, lastTid, asked,
                     trouble, restarts, reqs>>
      /\ run.op = "create" /\ run.at > 0 /\ run.tid # 0
      /\ transactionId[Obj] = run.tid /\ opStatus[Obj] = "SUCCESS"
      /\ fwd' = (fwd \/ run.at = Last) /\ Advance(CreateOrder)
  BY DEF AckSuccess, Creating, Answered, ackVars, envVars, Last
<1>2. CreateOrder' = CreateOrder /\ DeleteOrder' = DeleteOrder /\ Last' = Last /\ Steps' = Steps
  BY <1>1, SameOrders
<1>3. TypeOK /\ RunOK /\ InOrder /\ Awaited /\ Built /\ NoLateSuccess /\ SentOK /\ DoneOK
  BY DEF IInv
<1>4. run.by # "nobody" /\ run.at \in Steps /\ Obj \in Objs /\ run # NoRun /\ run.tid = lastTid
  BY <1>1, <1>3, OrderFacts DEF RunOK, NoRun, Obj
<1>5. run.at \in 1 .. Last /\ Last \in Nat  BY <1>4, Bounds DEF Steps
<1>6. work = <<>> /\ acks = <<>> /\ half = NoAck
  BY <1>1, <1>3, <1>4 DEF InOrder
<1>7. Live => dco[Obj] = "works"  BY <1>1, <1>3, <1>4 DEF Awaited, Waiting, Good
<1>8. Live => \A j \in 1 .. run.at : dco[CreateOrder[j]] = "works"
  <2>1. Live => \A j \in 1 .. run.at - 1 : dco[CreateOrder[j]] = "works"
    BY <1>1, <1>3 DEF Built
  <2>. QED  BY <1>5, <1>7, <2>1 DEF Obj
<1>9. InOrder'  BY <1>1, <1>3 DEF InOrder
<1>10. OthersAbsent'  BY <1>1, <1>2 DEF IInv, OthersAbsent
<1>11. ~req.sent /\ ~installed /\ ~gone /\ fwd' \in BOOLEAN
  BY <1>1, <1>3, <1>4, RunTypes DEF SentOK, DoneOK
<1>12. CASE run.at # Last
  <2>1. /\ run' = [by |-> run.by, op |-> "create", at |-> run.at + 1, tid |-> 0]
        /\ UNCHANGED <<ready, req, cached, installed, gone>>
    BY <1>1, <1>3, <1>12, RunTypes DEF Advance, Last
  <2>2. run.at + 1 \in Steps /\ run.at + 1 \in 0 .. Last  BY <1>5, <1>12 DEF Steps
  <2>3. TypeOK'  BY <1>3, TryTypes
  <2>4. RunOK'  BY <1>1, <1>2, <1>3, <1>4, <2>1, <2>2 DEF RunOK
  <2>5. Awaited' /\ NoLateSuccess'  BY <2>1 DEF Awaited, Waiting, NoLateSuccess
  <2>6. Built'
    <3>1. Live' = Live  BY <2>1 DEF Live
    <3>2. \A i \in 1 .. Len(work') : FALSE  BY <1>1, <1>6
    <3>3. run'.at - 1 = run.at  BY <1>5, <2>1
    <3>. QED  BY <1>1, <1>2, <1>8, <3>1, <3>2, <3>3 DEF Built
  <2>7. Removed'  BY <2>1 DEF Removed
  <2>8. SentOK' /\ DoneOK'  BY <1>11, <2>1 DEF SentOK, DoneOK
  <2>. QED  BY <1>9, <1>10, <2>3, <2>4, <2>5, <2>6, <2>7, <2>8 DEF IInv
<1>13. CASE run.at = Last
  <2>1. EndTry(TRUE) /\ run' = NoRun  BY <1>1, <1>13 DEF Advance, Last, EndTry
  <2>2. Live  BY <1>1, <1>3, <1>4, <1>13 DEF NoLateSuccess
  <2>3. Installed'
    <3>1. \A i \in Steps : dco[CreateOrder[i]] = "works"
      BY <1>8, <1>13, <2>2 DEF Steps
    <3>. QED  BY <1>1, <1>2, <1>6, <1>13, <3>1 DEF Installed
  <2>4. /\ UNCHANGED <<cached, installed, gone>>
        /\ \/ ready' = TRUE /\ req' = req
           \/ /\ run.by = "config" /\ ready' = ready /\ ready
              /\ req' = [op |-> req.op, fails |-> req.fails, sent |-> TRUE] /\ req.op = "create"
    <3>1. CASE run.by = "sync"  BY <2>1, <3>1 DEF EndTry
    <3>2. CASE run.by # "sync"
      <4>1. run.by = "config" /\ ready /\ req.op = "create"
        BY <1>1, <1>3, <1>4, <2>2, <3>2, RunTypes DEF RunOK, Live
      <4>2. UNCHANGED <<ready, cached, installed, gone>> /\ req' = [req EXCEPT !.sent = TRUE]
        BY <2>1, <3>2 DEF EndTry
      <4>3. [req EXCEPT !.sent = TRUE] = [op |-> req.op, fails |-> req.fails, sent |-> TRUE]
        BY <1>3, SentMark
      <4>. QED  BY <4>1, <4>2, <4>3
    <3>. QED  BY <3>1, <3>2
  <2>5. TypeOK'  BY <1>3, TryTypes
  <2>6. RunOK'  BY <1>3, <2>1, <2>4, RunTypes DEF RunOK, NoRun
  <2>7. Awaited' /\ Built' /\ NoLateSuccess' /\ Removed'
    BY <2>1 DEF Awaited, Built, NoLateSuccess, Removed, NoRun, Waiting
  <2>8. SentOK'
    BY <1>11, <2>1, <2>3, <2>4 DEF SentOK
  <2>9. DoneOK'  BY <1>11, <2>4 DEF DoneOK
  <2>. QED  BY <1>9, <1>10, <2>5, <2>6, <2>7, <2>8, <2>9 DEF IInv
<1>. QED  BY <1>12, <1>13

LEMMA SendDeleteStep ==
    ASSUME IInv, SendDelete
    PROVE  IInv'
<1>1. /\ UNCHANGED <<payload, work, acks, half, lastTid, asked, trouble, restarts, reqs>>
      /\ run.op = "delete" /\ run.at > 0 /\ ~Unreachable
      /\ dco' = [dco EXCEPT ![Doomed] = "absent"] /\ ClearOpStatusCache(Doomed)
      /\ fwd' = (fwd /\ Doomed # "dst2") /\ Advance(DeleteOrder)
  BY DEF SendDelete, Deleting, envVars
<1>2. CreateOrder' = CreateOrder /\ DeleteOrder' = DeleteOrder /\ Last' = Last /\ Steps' = Steps
  BY <1>1, SameOrders
<1>3. TypeOK /\ RunOK /\ InOrder /\ OthersAbsent /\ Removed /\ SentOK /\ DoneOK
  BY DEF IInv
<1>4. run.by # "nobody" /\ run.at \in Steps /\ Doomed \in Objs /\ run # NoRun
  BY <1>1, <1>3, OrderFacts DEF RunOK, NoRun, Doomed
<1>5. run.at \in 1 .. Last /\ Last \in Nat  BY <1>4, Bounds DEF Steps
<1>6. run.by = "config" /\ run.tid = 0 /\ ready /\ req.op = "delete"
  <2>1. run.by = "config" /\ run.tid = 0 /\ req.op = "delete"
    BY <1>1, <1>3, <1>4, RunTypes DEF RunOK
  <2>. QED  BY <1>1, <2>1 DEF Unreachable
<1>7. /\ \A o \in Objs : o # Doomed => dco'[o] = dco[o]
      /\ dco'[Doomed] = "absent"
      /\ dco' \in [Objs -> {"absent", "set", "works", "broken"}]
  <2>1. dco \in [Objs -> {"absent", "set", "works", "broken"}]  BY <1>3, QueueTypes
  <2>2. dco' = [dco EXCEPT ![Doomed] = "absent"]  BY <1>1
  <2>. QED  BY <1>4, <2>1, <2>2
<1>8. /\ opStatus' \in [Objs -> Statuses] /\ transactionId' \in [Objs -> 0 .. lastTid]
      /\ \A o \in Objs : transactionId'[o] \in {transactionId[o], 0}
  <2>1. opStatus \in [Objs -> Statuses] /\ transactionId \in [Objs -> 0 .. lastTid] /\ lastTid \in Nat
    BY <1>3, QueueTypes, RunTypes
  <2>2. /\ opStatus' = [opStatus EXCEPT ![Doomed] = "UNSPECIFIED"]
        /\ transactionId' = [transactionId EXCEPT ![Doomed] = 0]
    BY <1>1 DEF ClearOpStatusCache
  <2>. QED  BY <1>4, <2>1, <2>2 DEF Statuses
<1>9. InOrder'  BY <1>1, <1>3, <1>8 DEF InOrder
<1>10. OthersAbsent'  BY <1>2, <1>3, <1>7 DEF OthersAbsent
<1>11. ~req.sent /\ ~installed /\ ~gone /\ fwd' \in BOOLEAN
  BY <1>1, <1>3, <1>4, RunTypes DEF SentOK, DoneOK
\* What the steps up to this one have taken away.
<1>12. \A j \in 1 .. run.at : dco'[DeleteOrder[j]] = "absent" /\ (DeleteOrder[j] = "dst2" => ~fwd')
  <2>. SUFFICES ASSUME NEW j \in 1 .. run.at
                PROVE  dco'[DeleteOrder[j]] = "absent" /\ (DeleteOrder[j] = "dst2" => ~fwd')
    OBVIOUS
  <2>1. CASE j = run.at  BY <1>1, <1>7, <2>1 DEF Doomed
  <2>2. CASE j # run.at
    <3>1. j \in 1 .. run.at - 1 /\ j \in Steps  BY <1>5, <2>2 DEF Steps
    <3>2. DeleteOrder[j] \in Objs  BY <3>1, OrderFacts
    <3>3. dco[DeleteOrder[j]] = "absent" /\ (DeleteOrder[j] = "dst2" => ~fwd)
      BY <1>1, <1>3, <3>1 DEF Removed
    <3>. QED  BY <1>1, <1>7, <3>2, <3>3
  <2>. QED  BY <2>1, <2>2
<1>13. Len(DeleteOrder) = Last  BY OrderFacts
<1>14. CASE run.at # Last
  <2>1. /\ run' = [by |-> "config", op |-> "delete", at |-> run.at + 1, tid |-> 0]
        /\ UNCHANGED <<ready, req, cached, installed, gone>>
    BY <1>1, <1>3, <1>6, <1>13, <1>14, RunTypes DEF Advance
  <2>2. run.at + 1 \in Steps /\ run.at + 1 \in 0 .. Last  BY <1>5, <1>14 DEF Steps
  <2>3. TypeOK'  BY <1>3, SendTypes
  <2>4. RunOK'  BY <1>1, <1>2, <1>3, <1>6, <2>1, <2>2 DEF RunOK
  <2>5. Awaited' /\ NoLateSuccess' /\ Built'  BY <2>1 DEF Awaited, Waiting, NoLateSuccess, Built
  <2>6. Removed'
    <3>1. run'.at - 1 = run.at  BY <1>5, <2>1
    <3>. QED  BY <1>2, <1>12, <3>1 DEF Removed
  <2>7. SentOK' /\ DoneOK'  BY <1>11, <2>1 DEF SentOK, DoneOK
  <2>. QED  BY <1>9, <1>10, <2>3, <2>4, <2>5, <2>6, <2>7 DEF IInv
<1>15. CASE run.at = Last
  <2>1. EndTry(TRUE) /\ run' = NoRun  BY <1>1, <1>13, <1>15 DEF Advance, EndTry
  <2>2. Nothing'
    <3>1. ~fwd'  BY <1>12, <1>15, OrderFacts DEF Steps
    <3>2. \A o \in Objs : dco'[o] = "absent"
      <4>. SUFFICES ASSUME NEW o \in Objs PROVE dco'[o] = "absent"
        OBVIOUS
      <4>1. CASE \E i \in Steps : o = CreateOrder[i]
        <5>1. PICK j \in Steps : o = DeleteOrder[j]  BY <4>1, OrderFacts
        <5>. QED  BY <1>12, <1>15, <5>1 DEF Steps
      <4>2. CASE \A i \in Steps : o # CreateOrder[i]
        BY <1>2, <1>10, <4>2 DEF OthersAbsent
      <4>. QED  BY <4>1, <4>2
    <3>. QED  BY <3>1, <3>2 DEF Nothing
  <2>3. /\ UNCHANGED <<ready, cached, installed, gone>>
        /\ req' = [op |-> "delete", fails |-> req.fails, sent |-> TRUE]
    <3>1. UNCHANGED <<ready, cached, installed, gone>> /\ req' = [req EXCEPT !.sent = TRUE]
      BY <1>6, <2>1 DEF EndTry
    <3>2. [req EXCEPT !.sent = TRUE] = [op |-> req.op, fails |-> req.fails, sent |-> TRUE]
      BY <1>3, SentMark
    <3>. QED  BY <1>6, <3>1, <3>2
  <2>4. TypeOK'  BY <1>3, SendTypes
  <2>5. RunOK'  BY <2>1, <2>3 DEF RunOK, NoRun
  <2>6. Awaited' /\ Built' /\ NoLateSuccess' /\ Removed'
    BY <2>1 DEF Awaited, Built, NoLateSuccess, Removed, NoRun, Waiting
  <2>7. SentOK'  BY <1>6, <2>1, <2>2, <2>3 DEF SentOK
  <2>8. DoneOK'  BY <1>11, <2>3 DEF DoneOK
  <2>. QED  BY <1>9, <1>10, <2>4, <2>5, <2>6, <2>7, <2>8 DEF IInv
<1>. QED  BY <1>14, <1>15
-----------------------------------------------------------------------------
(* The theorems.                                                           *)

LEMMA IInvInit ==
    ASSUME Init
    PROVE  IInv
<1>. USE DEF Init
<1>1. TypeOK  BY TypesInit
<1>2. Len(work) = 0 /\ Len(acks) = 0  OBVIOUS
<1>3. RunOK /\ InOrder  BY <1>2 DEF RunOK, InOrder, NoRun, NoReq
<1>4. Awaited /\ Built /\ NoLateSuccess /\ Removed
  BY DEF Awaited, Built, NoLateSuccess, Removed, NoRun, Waiting
<1>5. OthersAbsent /\ SentOK /\ DoneOK  BY DEF OthersAbsent, SentOK, DoneOK, NoReq
<1>. QED  BY <1>1, <1>3, <1>4, <1>5 DEF IInv

LEMMA IInvNext ==
    ASSUME RestartInGap = FALSE, IInv, [Next]_vars
    PROVE  IInv'
<1>1. CASE UNCHANGED vars
  <2>. USE <1>1 DEF vars
  <2>1. TypeOK'  BY SameOrders DEF IInv, TypeOK, Tids, Acks
  <2>2. RunOK' /\ InOrder'  BY SameOrders DEF IInv, RunOK, InOrder
  <2>3. Awaited'  BY SameOrders DEF IInv, Awaited, Waiting, Obj, Good, Live
  <2>4. Built' /\ NoLateSuccess' /\ OthersAbsent' /\ Removed'
    BY SameOrders DEF IInv, Built, NoLateSuccess, OthersAbsent, Removed, Obj, Live
  <2>5. SentOK' /\ DoneOK'  BY SameOrders DEF IInv, SentOK, DoneOK, Installed, Nothing
  <2>. QED  BY <2>1, <2>2, <2>3, <2>4, <2>5 DEF IInv
<1>2. CASE Next
  BY <1>2, RequestStep, BeginStep, NotReadyStep, CompleteSentStep, SendCreateStep, FailStep,
     AckSuccessStep, SendDeleteStep, StoreStatusStep, StoreTransactionIdStep,
     DcoCarriesOutStep, LoseAnswerStep, DcoRestartStep DEF Next
<1>. QED  BY <1>1, <1>2

LEMMA Inductive ==
    ASSUME RestartInGap = FALSE
    PROVE  Spec => []IInv
<1>1. Init => IInv  BY IInvInit
<1>2. IInv /\ [Next]_vars => IInv'  BY IInvNext
<1>. QED  BY <1>1, <1>2, PTL DEF Spec

\* The variables keep their types: in particular every answer under way is
\* about an object of the cross-connect and carries an id that was given out.
THEOREM XconTypes == Spec => []TypeOK
<1>1. Init => TypeOK  BY TypesInit
<1>2. TypeOK /\ [Next]_vars => TypeOK'  BY TypesStep
<1>. QED  BY <1>1, <1>2, PTL DEF Spec

\* As long as the DCO does not restart between its last answer and the
\* completion of the request, a create of an express cross-connect answered
\* with success means that the DCO has carried out every part of it and the
\* FPGA forwards: no answer to an earlier try is taken for the one awaited
\* (waitForDcoAck), and the two-step store of an answer does no harm.
THEOREM CreatedWhole ==
    ASSUME RestartInGap = FALSE
    PROVE  Spec => []CreatedIsWhole
<1>1. IInv => CreatedIsWhole
  BY OrderFacts DEF IInv, DoneOK, Installed, CreatedIsWhole
<1>. QED  BY <1>1, Inductive, PTL

\* A delete answered with success leaves nothing of the cross-connect, and no
\* transaction still on its way to the DCO brings any of it back.
THEOREM DeletedGone ==
    ASSUME RestartInGap = FALSE
    PROVE  Spec => []DeletedIsGone
<1>1. IInv => DeletedIsGone
  BY DEF IInv, DoneOK, Nothing, DeletedIsGone, Present
<1>. QED  BY <1>1, Inductive, PTL
=============================================================================
