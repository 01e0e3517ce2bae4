------------------------------ MODULE MCAsyncOps ------------------------------
(* Instances of AsyncOps for TLC. *)
EXTENDS AsyncOps, TLC

(* Two calls of cancel (timeouts included), two of cancelAll (the second may be *)
(* that of the destructor), or one of each, in any order.                       *)
TwoCalls == {<<2, 0>>, <<1, 1>>, <<0, 2>>}
CancelThenAll == {<<1, 1>>}
Undisturbed == {<<0, 0>>}
=============================================================================
