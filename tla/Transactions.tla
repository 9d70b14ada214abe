---------------------------- MODULE Transactions ----------------------------
(***************************************************************************)
(* What an object manager promises the agent about its requests: Redis     *)
(* says of an object what the agent last asked for, whatever becomes of    *)
(* the request; a request is taken once and answered once, with success    *)
(* after the DCO accepted it and with failure only if it has not; and a    *)
(* restart loses the requests it finds unanswered, all of them for good.   *)
(***************************************************************************)
CONSTANTS Ids, Vals, NoVal

VARIABLES
    asked,      \* what is asked for, by object; NoVal if it is to be deleted
    stage,      \* where the object's last request is
    lost        \* objects whose request a restart has lost

storeVars == <<asked, stage, lost>>

Unanswered == {"pending", "inprogress", "accepted"}

StoreInit ==
    /\ asked = [i \in Ids |-> NoVal]
    /\ stage = [i \in Ids |-> "none"]
    /\ lost = {}

Ask(i) ==
    /\ stage[i] \notin Unanswered
    /\ \E v \in Vals \cup {NoVal} : asked' = [asked EXCEPT ![i] = v]
    /\ stage' = [stage EXCEPT ![i] = "pending"]
    /\ UNCHANGED lost

Advance(i, from, to) ==
    /\ i \notin lost /\ stage[i] = from
    /\ stage' = [stage EXCEPT ![i] = to]
    /\ UNCHANGED <<asked, lost>>

Take(i)    == Advance(i, "pending", "inprogress")
Accept(i)  == Advance(i, "inprogress", "accepted")
Succeed(i) == Advance(i, "accepted", "success")
Fail(i)    == Advance(i, "inprogress", "fail")

Crash ==
    /\ lost' = lost \cup {i \in Ids : stage[i] \in Unanswered}
    /\ stage' = [i \in Ids |-> IF stage[i] = "accepted" THEN "inprogress" ELSE stage[i]]
    /\ UNCHANGED asked

StoreNext ==
    \/ \E i \in Ids : Ask(i) \/ Take(i) \/ Accept(i) \/ Succeed(i) \/ Fail(i)
    \/ Crash

StoreSpec == StoreInit /\ [][StoreNext]_storeVars
=============================================================================
