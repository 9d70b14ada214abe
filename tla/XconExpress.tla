---------------------------- MODULE XconExpress ----------------------------
(***************************************************************************)
(* An express cross-connect (REGEN): one request of the agent makes the    *)
(* two clients and four one-way cross-connects in the DCO, one after the   *)
(* other, and turns on the overhead forwarding in the FPGA.  Every create  *)
(* carries a transaction id and waits until the callback thread has stored *)
(* the DCO's answer to it; the answer is stored in two steps, its status   *)
(* and its id, without a lock.  A request is tried again from its first    *)
(* step, and the poll thread creates the cross-connect anew after a        *)
(* restart of the DCO.                                                     *)
(***************************************************************************)
EXTENDS Integers, Sequences

CONSTANTS
    Payloads,       \* subset of {"100G", "GE"}
    MaxSendCount,   \* cMaxSendCount of handleConfig
    MaxTrouble,     \* bound: refused calls, failed transactions, lost answers
                    \* and waits that time out
    MaxRestart,     \* bound: restarts of the DCO
    MaxReq,         \* bound: requests
    \* Named assumption on the environment: FALSE excludes the behaviour.
    RestartInGap    \* the DCO restarts between the last answer to a request
                    \* and the request's completion

ASSUME XconAssumption ==
    /\ Payloads \subseteq {"100G", "GE"}
    /\ {MaxSendCount, MaxTrouble, MaxRestart, MaxReq} \subseteq Nat
    /\ RestartInGap \in BOOLEAN

VARIABLES
    payload,    \* of the cross-connect; its AID says which
    dco,        \* per object: absent, set (not carried out yet), works or broken
    fwd,        \* the FPGA forwards the overhead of the two LO-ODUs
    work,       \* transactions the DCO has accepted and not carried out
    acks,       \* answers on their way to the callback thread
    half,       \* answer whose status is stored and whose id is not, or NoAck
    opStatus,   \* mOpStatus per object: the status
    transactionId, \* and the transaction id
    lastTid,    \* getTimeNanos
    run,        \* the try under way: who, what, at which step, waiting for
    req,        \* the request in handleConfig: what, failed tries, try worked
    cached,     \* the cross-connect is in the config cache
    asked,      \* the agent has asked for it and not for its removal
    ready,      \* connected and synced
    installed,  \* a create was answered with success, and nothing since
    gone,       \* a delete was answered with success, and nothing since
    trouble, restarts, reqs

envVars   == <<trouble, restarts, reqs>>
ackVars   == <<work, acks, half, opStatus, transactionId>>
agentVars == <<asked, installed, gone>>
vars == <<payload, dco, fwd, work, acks, half, opStatus, transactionId, lastTid, run, req,
          cached, asked, ready, installed, gone, trouble, restarts, reqs>>

OtuClients  == {"otuSrc", "otuDst"}
OduClients  == {"oduSrc", "oduDst"}
GigeClients == {"gigeSrc", "gigeDst"}

\* LO-ODU ingress to client and client egress to the other LO-ODU, twice.
UniXcons == {"src", "src2", "dst", "dst2"}

Objs == OtuClients \cup OduClients \cup GigeClients \cup UniXcons

CreateOrder ==
    IF payload = "100G"
    THEN <<"otuSrc", "otuDst", "oduSrc", "oduDst", "src", "src2", "dst", "dst2">>
    ELSE <<"gigeSrc", "gigeDst", "src", "src2", "dst", "dst2">>

DeleteOrder ==
    IF payload = "100G"
    THEN <<"src", "src2", "dst", "dst2", "oduSrc", "oduDst", "otuSrc", "otuDst">>
    ELSE <<"src", "src2", "dst", "dst2", "gigeSrc", "gigeDst">>

NoAck == [obj |-> "none", tid |-> 0, status |-> "UNSPECIFIED"]
NoRun == [by |-> "nobody", op |-> "none", at |-> 0, tid |-> 0]
NoReq == [op |-> "none", fails |-> 0, sent |-> FALSE]

Statuses == {"UNSPECIFIED", "SUCCESS", "ERROR"}

Tids == 1 .. lastTid
Acks == [obj : Objs, tid : Tids, status : Statuses]

TypeOK ==
    /\ payload \in Payloads
    /\ dco \in [Objs -> {"absent", "set", "works", "broken"}]
    /\ work \in Seq([obj : Objs, tid : Tids])
    /\ acks \in Seq(Acks) /\ half \in Acks \cup {NoAck}
    /\ opStatus \in [Objs -> Statuses] /\ transactionId \in [Objs -> 0 .. lastTid]
    /\ lastTid \in Nat
    /\ run \in [by : {"nobody", "config", "sync"}, op : {"none", "create", "delete"},
               at : 0 .. Len(CreateOrder), tid : 0 .. lastTid]
    /\ req \in [op : {"none", "create", "delete"}, fails : 0 .. MaxSendCount, sent : BOOLEAN]
    /\ {fwd, cached, asked, ready, installed, gone} \subseteq BOOLEAN
    /\ {trouble, restarts, reqs} \subseteq Nat

Init ==
    /\ payload \in Payloads
    /\ dco = [o \in Objs |-> "absent"]
    /\ fwd = FALSE
    /\ work = <<>> /\ acks = <<>> /\ half = NoAck
    /\ opStatus = [o \in Objs |-> "UNSPECIFIED"]
    /\ transactionId = [o \in Objs |-> 0]
    /\ lastTid = 0
    /\ run = NoRun /\ req = NoReq
    /\ cached = FALSE /\ asked = FALSE /\ ready = TRUE
    /\ installed = FALSE /\ gone = FALSE
    /\ trouble = 0 /\ restarts = 0 /\ reqs = 0

InTrouble == trouble < MaxTrouble /\ trouble' = trouble + 1
-----------------------------------------------------------------------------
(* The agent's requests and the tries of handleConfig.                     *)

Request(op) ==
    /\ req = NoReq /\ reqs < MaxReq
    /\ op = (IF asked THEN "delete" ELSE "create")
    /\ req' = [op |-> op, fails |-> 0, sent |-> FALSE]
    /\ reqs' = reqs + 1
    /\ asked' = (op = "create")
    /\ installed' = FALSE /\ gone' = FALSE
    /\ UNCHANGED <<payload, dco, fwd, ackVars, lastTid, run, cached, ready,
                   trouble, restarts>>

\* checkConfigReadiness, then processConfig under the mutex.
Try ==
    /\ req # NoReq /\ ~req.sent /\ run = NoRun /\ ready
    /\ run' = [by |-> "config", op |-> req.op, at |-> 1, tid |-> 0]
    /\ UNCHANGED <<payload, dco, fwd, ackVars, lastTid, req, cached, agentVars, ready,
                   envVars>>

\* completeConfig and the answer to the agent.
Complete(success) ==
    /\ req' = NoReq
    /\ cached' = IF success /\ req.op = "delete" THEN FALSE
                 ELSE cached \/ req.op = "create"
    /\ installed' = (success /\ req.op = "create")
    /\ gone' = (success /\ req.op = "delete")

CompleteSent ==
    /\ req.sent /\ run = NoRun
    /\ Complete(TRUE)
    /\ UNCHANGED <<payload, dco, fwd, ackVars, lastTid, run, asked, ready, envVars>>

\* Mutant: one try too many.
OneTryMore == req.fails <= MaxSendCount

TriesLeft == req.fails < MaxSendCount

\* checkConfigReadiness fails between two tries: the count starts again.
NotReady ==
    /\ req # NoReq /\ ~req.sent /\ run = NoRun /\ ~ready /\ req.fails > 0
    /\ req' = [req EXCEPT !.fails = 0]
    /\ UNCHANGED <<payload, dco, fwd, ackVars, lastTid, run, cached, agentVars, ready, envVars>>

\* What becomes of a try: success, failure to be tried again, or the last.
EndTry(success) ==
    /\ run' = NoRun
    /\ IF run.by = "sync" THEN
         /\ ready' = TRUE
         /\ UNCHANGED <<req, cached, installed, gone>>
       ELSE
         /\ UNCHANGED ready
         /\ IF success THEN
              /\ req' = [req EXCEPT !.sent = TRUE]
              /\ UNCHANGED <<cached, installed, gone>>
            ELSE IF TriesLeft THEN
              /\ req' = [req EXCEPT !.fails = @ + 1]
              /\ UNCHANGED <<cached, installed, gone>>
            ELSE Complete(FALSE)

\* A step that worked: the next one, or the end of the try.
Advance(order) ==
    IF run.at = Len(order) THEN EndTry(TRUE)
    ELSE /\ run' = [run EXCEPT !.at = @ + 1, !.tid = 0]
         /\ UNCHANGED <<ready, req, cached, installed, gone>>

\* A call the DCO refuses, or that finds no connection.
Unreachable == ~ready /\ run.by = "config"
Refused == IF Unreachable THEN UNCHANGED trouble ELSE InTrouble
-----------------------------------------------------------------------------
(* Create: createXCConfig and createXpressXcon.                            *)

Creating == run.op = "create" /\ run.at > 0
Obj == CreateOrder[run.at]

\* Once the clients are there, forwarding is turned on whatever becomes of
\* the cross-connects.
Forward == fwd' = (fwd \/ Obj \in UniXcons)

SendCreate ==
    /\ Creating /\ run.tid = 0 /\ ~Unreachable
    /\ lastTid' = lastTid + 1
    /\ run' = [run EXCEPT !.tid = lastTid + 1]
    /\ dco' = [dco EXCEPT ![Obj] = "set"]
    /\ work' = Append(work, [obj |-> Obj, tid |-> lastTid + 1])
    /\ UNCHANGED <<payload, fwd, acks, half, opStatus, transactionId, req, cached,
                   agentVars, ready, envVars>>

CreateRefused ==
    /\ Creating /\ run.tid = 0
    /\ Refused
    /\ Forward
    /\ EndTry(FALSE)
    /\ UNCHANGED <<payload, dco, ackVars, lastTid, asked, restarts, reqs>>

\* Mutant: any answer for the object will do.
AnyAnswer == opStatus[Obj] # "UNSPECIFIED"

\* waitForDcoAck: the answer is in.
Answered == transactionId[Obj] = run.tid

AckSuccess ==
    /\ Creating /\ run.tid # 0
    /\ Answered /\ opStatus[Obj] = "SUCCESS"
    /\ fwd' = (fwd \/ run.at = Len(CreateOrder))
    /\ Advance(CreateOrder)
    /\ UNCHANGED <<payload, dco, ackVars, lastTid, asked, envVars>>

AckError ==
    /\ Creating /\ run.tid # 0
    /\ Answered /\ opStatus[Obj] # "SUCCESS"
    /\ Forward
    /\ EndTry(FALSE)
    /\ UNCHANGED <<payload, dco, ackVars, lastTid, asked, envVars>>

\* The answer may still come; it is late if the wait ends before it.
AnswerUnderWay ==
    run.tid \in {work[i].tid : i \in DOMAIN work} \cup {acks[i].tid : i \in DOMAIN acks}
                 \cup {half.tid}

\* Mutant: the wait ends only while an answer is under way.
WaitForever ==
    /\ Creating /\ run.tid # 0 /\ ~Answered /\ AnswerUnderWay
    /\ InTrouble
    /\ Forward
    /\ EndTry(FALSE)
    /\ UNCHANGED <<payload, dco, ackVars, lastTid, asked, restarts, reqs>>

\* Two minutes without the answer.
AckTimeout ==
    /\ Creating /\ run.tid # 0 /\ ~Answered
    /\ IF AnswerUnderWay THEN InTrouble ELSE UNCHANGED trouble
    /\ Forward
    /\ EndTry(FALSE)
    /\ UNCHANGED <<payload, dco, ackVars, lastTid, asked, restarts, reqs>>
-----------------------------------------------------------------------------
(* Delete: deleteXCConfig and deleteXpressXcon.                            *)

Deleting == run.op = "delete" /\ run.at > 0
Doomed == DeleteOrder[run.at]

\* Mutant: a cross-connect that is not there counts as deleted.
NothingLeft ==
    /\ Deleting /\ run.at = 1
    /\ dco["src"] = "absent" /\ ~Unreachable
    /\ EndTry(TRUE)
    /\ UNCHANGED <<payload, dco, fwd, ackVars, lastTid, asked, envVars>>

\* The configuration of the first cross-connect tells the rest.
NothingToDelete ==
    /\ Deleting /\ run.at = 1
    /\ dco["src"] = "absent" /\ ~Unreachable
    /\ EndTry(FALSE)
    /\ UNCHANGED <<payload, dco, fwd, ackVars, lastTid, asked, envVars>>

ClearOpStatusCache(o) ==
    /\ opStatus' = [opStatus EXCEPT ![o] = "UNSPECIFIED"]
    /\ transactionId' = [transactionId EXCEPT ![o] = 0]

SendDelete ==
    /\ Deleting /\ ~Unreachable
    /\ run.at = 1 => dco["src"] # "absent"
    /\ dco' = [dco EXCEPT ![Doomed] = "absent"]
    /\ ClearOpStatusCache(Doomed)
    /\ fwd' = (fwd /\ Doomed # "dst2")
    /\ Advance(DeleteOrder)
    /\ UNCHANGED <<payload, work, acks, half, lastTid, asked, envVars>>

\* The first call of a delete reads; the others clear the answer kept.
DeleteRefused ==
    /\ Deleting
    /\ Refused
    /\ \/ run.at = 1 /\ UNCHANGED <<opStatus, transactionId>>
       \/ (run.at = 1 => ~Unreachable) /\ ClearOpStatusCache(Doomed)
    /\ EndTry(FALSE)
    /\ UNCHANGED <<payload, dco, fwd, work, acks, half, lastTid, asked, restarts, reqs>>
-----------------------------------------------------------------------------
(* The callback thread: HandleSubResponse of the operational status.       *)

StoreStatus ==
    /\ half = NoAck /\ acks # <<>>
    /\ half' = Head(acks) /\ acks' = Tail(acks)
    /\ opStatus' = [opStatus EXCEPT ![Head(acks).obj] = Head(acks).status]
    /\ UNCHANGED <<payload, dco, fwd, work, transactionId, lastTid, run, req, cached,
                   agentVars, ready, envVars>>

StoreTransactionId ==
    /\ half # NoAck
    /\ transactionId' = [transactionId EXCEPT ![half.obj] = half.tid]
    /\ half' = NoAck
    /\ UNCHANGED <<payload, dco, fwd, work, acks, opStatus, lastTid, run, req, cached,
                   agentVars, ready, envVars>>
-----------------------------------------------------------------------------
(* The DCO and the poll thread.                                            *)

\* The DCO carries out its transactions in order and answers each.
DcoCarriesOut ==
    /\ work # <<>>
    /\ \E status \in {"SUCCESS", "ERROR"} :
         /\ IF status = "ERROR" THEN InTrouble ELSE UNCHANGED trouble
         /\ dco' = [dco EXCEPT ![Head(work).obj] =
                      IF @ = "absent" THEN @ ELSE IF status = "SUCCESS" THEN "works" ELSE "broken"]
         /\ acks' = Append(acks, [obj |-> Head(work).obj, tid |-> Head(work).tid,
                                  status |-> status])
    /\ work' = Tail(work)
    /\ UNCHANGED <<payload, fwd, half, opStatus, transactionId, lastTid, run, req, cached,
                   agentVars, ready, restarts, reqs>>

\* The stream of an operational status fails and is opened anew.
LoseAnswer ==
    /\ acks # <<>> /\ InTrouble
    /\ acks' = Tail(acks)
    /\ UNCHANGED <<payload, dco, fwd, work, half, opStatus, transactionId, lastTid, run, req,
                   cached, agentVars, ready, restarts, reqs>>

\* The DCO has answered the request's last step, and the agent not yet.
InGap ==
    \/ req.sent
    \/ /\ Creating /\ run.at = Len(CreateOrder) /\ run.tid # 0
       /\ run.tid \in {transactionId[Obj], half.tid}

DcoRestart ==
    /\ restarts < MaxRestart /\ run.by # "sync"
    /\ RestartInGap \/ ~InGap
    /\ restarts' = restarts + 1
    /\ dco' = [o \in Objs |-> "absent"]
    /\ work' = <<>> /\ acks' = <<>>
    /\ ready' = FALSE /\ installed' = FALSE
    /\ UNCHANGED <<payload, fwd, half, opStatus, transactionId, lastTid, run, req, cached,
                   asked, gone, trouble, reqs>>

\* syncConfig: create again what is in the cache; SyncReady follows anyway.
Sync ==
    /\ ~ready /\ run = NoRun
    /\ IF cached THEN /\ run' = [by |-> "sync", op |-> "create", at |-> 1, tid |-> 0]
                      /\ UNCHANGED ready
                 ELSE ready' = TRUE /\ UNCHANGED run
    /\ UNCHANGED <<payload, dco, fwd, ackVars, lastTid, req, cached, agentVars,
                   envVars>>
-----------------------------------------------------------------------------
Next ==
    \/ \E op \in {"create", "delete"} : Request(op)
    \/ Try \/ NotReady \/ CompleteSent
    \/ SendCreate \/ CreateRefused \/ AckSuccess \/ AckError \/ AckTimeout
    \/ NothingToDelete \/ SendDelete \/ DeleteRefused
    \/ StoreStatus \/ StoreTransactionId
    \/ DcoCarriesOut \/ LoseAnswer \/ DcoRestart \/ Sync

Spec == Init /\ [][Next]_vars

\* handleConfig, the wait, the poll thread and the callback thread go on.  The
\* DCO answers what it accepted: an answer that is lost or comes after the two
\* minutes is counted in MaxTrouble.
FairSpec ==
    /\ Spec
    /\ WF_vars(Try) /\ WF_vars(NotReady) /\ WF_vars(CompleteSent)
    /\ WF_vars(SendCreate) /\ WF_vars(CreateRefused)
    /\ WF_vars(AckSuccess) /\ WF_vars(AckError) /\ WF_vars(AckTimeout)
    /\ WF_vars(NothingToDelete) /\ WF_vars(SendDelete) /\ WF_vars(DeleteRefused)
    /\ WF_vars(StoreStatus) /\ WF_vars(StoreTransactionId)
    /\ WF_vars(DcoCarriesOut) /\ WF_vars(Sync)
-----------------------------------------------------------------------------
(* Properties.                                                             *)

Present == {o \in Objs : dco[o] # "absent"}

(***************************************************************************)
(* CreatedIsWhole.  After a create that was answered with success, until   *)
(* the next request or restart, the DCO has carried out every part of the  *)
(* cross-connect and the FPGA forwards, whatever was refused, failed or    *)
(* answered late on the way.                                               *)
(***************************************************************************)
CreatedIsWhole ==
    installed => fwd /\ \A i \in DOMAIN CreateOrder : dco[CreateOrder[i]] = "works"

(***************************************************************************)
(* DeletedIsGone.  After a delete that was answered with success nothing   *)
(* of the cross-connect is left in the DCO or the FPGA, also when the      *)
(* create before it had failed half way.                                   *)
(***************************************************************************)
DeletedIsGone == gone => ~fwd /\ Present = {}

(***************************************************************************)
(* RequestAnswered.  Every request is answered, although each of its steps *)
(* may wait for an answer that was lost.                                   *)
(***************************************************************************)
RequestAnswered == req # NoReq ~> req = NoReq
=============================================================================
