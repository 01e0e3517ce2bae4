------------------------------ MODULE MCEcatRpc ------------------------------
(* Instances of EcatRpc for TLC. *)
EXTENDS EcatRpc, TLC

=============================================================================
