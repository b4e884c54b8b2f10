------------------------------- MODULE MCChaos -------------------------------
(***************************************************************************)
(* One service: its operator, its Pods and Sentinel's resets.              *)
(***************************************************************************)
EXTENDS ChaosControl
=============================================================================
