---------------------------- MODULE ControlPlane ----------------------------
(***************************************************************************)
(* What the background loops of the control plane have in common: they run *)
(* in every replica of it (main in cmd/control-plane/main.go) and share    *)
(* nothing but the database.                                               *)
(***************************************************************************)

CONSTANTS
    Replicas,  \* control-plane processes
    None       \* no row, no replica

ASSUME ReplicaAssumption == None \notin Replicas
=============================================================================
