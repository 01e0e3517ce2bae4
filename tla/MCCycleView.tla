----------------------------- MODULE MCCycleView -----------------------------
(* Instances of CycleView, and with it of MasterLease, for TLC. *)
EXTENDS CycleView, TLC

=============================================================================
