---------------------------- MODULE MCTriggerLeader ----------------------------
(* Instances of TriggerLeader for TLC. *)
EXTENDS TriggerLeader
=============================================================================
