---------------------------- MODULE LatestEvent ----------------------------
(***************************************************************************)
(* What the event queue of the security processor promises its two sides:  *)
(* one place per key that holds the latest event posted for it, or none,   *)
(* and a reader that takes the events one at a time.  An event leaves its  *)
(* place only for the reader or for a later event of the same key.         *)
(***************************************************************************)
CONSTANTS Keys, Events, KeyFn(_)

VARIABLES
    place,      \* per key: the set of its waiting events (none or one)
    reading     \* the event the reader holds: none or one

boxVars == <<place, reading>>

BoxInit ==
    /\ place = [k \in Keys |-> {}]
    /\ reading = {}

Post(e) ==
    /\ place' = [place EXCEPT ![KeyFn(e)] = {e}]
    /\ UNCHANGED reading

\* The reader holds the event, or is done with it at once.
Read(k) ==
    /\ reading = {}
    /\ \E e \in place[k] : place[k] = {e} /\ reading' \in {{e}, {}}
    /\ place' = [place EXCEPT ![k] = {}]

Finish ==
    /\ reading # {}
    /\ reading' = {}
    /\ UNCHANGED place

BoxNext ==
    \/ \E e \in Events : Post(e)
    \/ \E k \in Keys : Read(k)
    \/ Finish

BoxSpec == BoxInit /\ [][BoxNext]_boxVars
=============================================================================
