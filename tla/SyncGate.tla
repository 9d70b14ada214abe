------------------------------ MODULE SyncGate ------------------------------
(***************************************************************************)
(* What PollConnectUpdates promises the configuration pipeline, without    *)
(* saying how: SyncReady is a gate that opens only when every object       *)
(* manager is connected and has pushed its cached configuration since the  *)
(* gate was last open, and that closes before any manager loses its        *)
(* connection.  DpSyncReady implements it (DpSyncReadyProofs); DpConfig    *)
(* uses it as its environment.                                             *)
(***************************************************************************)
CONSTANT Mgrs

VARIABLES gate, state

gateSpecVars == <<gate, state>>

GateTypeOK ==
    /\ gate \in BOOLEAN
    /\ state \in [Mgrs -> {"down", "up", "synced"}]

GateInit ==
    /\ gate = FALSE
    /\ state = [m \in Mgrs |-> "down"]

\* The gate closes; every manager has to be synced again.
Close ==
    /\ gate' = FALSE
    /\ state' = [m \in Mgrs |-> IF state[m] = "synced" THEN "up" ELSE state[m]]

Connect(m) ==
    /\ ~gate /\ state[m] = "down"
    /\ state' = [state EXCEPT ![m] = "up"]
    /\ UNCHANGED gate

Drop(m) ==
    /\ ~gate
    /\ state' = [state EXCEPT ![m] = "down"]
    /\ UNCHANGED gate

Sync(m) ==
    /\ ~gate /\ state[m] = "up"
    /\ state' = [state EXCEPT ![m] = "synced"]
    /\ UNCHANGED gate

Open ==
    /\ \A m \in Mgrs : state[m] = "synced"
    /\ gate' = TRUE
    /\ UNCHANGED state

GateNext ==
    \/ Close
    \/ Open
    \/ \E m \in Mgrs : Connect(m) \/ Drop(m) \/ Sync(m)

GateSpec == GateInit /\ [][GateNext]_gateSpecVars
=============================================================================
