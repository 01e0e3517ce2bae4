---------------------------- MODULE MCShmOutputs ----------------------------
(* Instances of ShmOutputs for TLC: sessions on a new object. *)
EXTENDS ShmOutputs, TLC

Zeroed == [b \in 0..1 |-> Blank]
=============================================================================
