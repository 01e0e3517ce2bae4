----------------------------- MODULE ShmSnapshot -----------------------------
(****************************************************************************)
(* What the shared-memory data plane promises its readers, with no buffer,  *)
(* no version and no word: a register that holds a whole image.  A read     *)
(* either fails or returns, in all its words, one image that the register   *)
(* held at some moment between the call and the return.  The register is    *)
(* found with any words in it, as image 0.                                  *)
(****************************************************************************)
EXTENDS Naturals

CONSTANTS
  Readers, Inputs,
  First  \* what the register is found with

VARIABLES
  image,   \* number of the image the register holds
  rstate,  \* of each reader: "idle", "reading", "ok" or "failed"
  since,   \* of each reader: the image held when its last read began
  result   \* of each reader: the words it got, while it is "ok"

vars == <<image, rstate, since, result>>
Whole(k) == [x \in Inputs |-> k]
Held(k)  == IF k = 0 THEN First ELSE Whole(k)

Init ==
  /\ image = 0
  /\ rstate = [r \in Readers |-> "idle"] /\ since = [r \in Readers |-> 0]
  /\ result = [r \in Readers |-> Whole(0)]

Publish == image' = image + 1 /\ UNCHANGED <<rstate, since, result>>

Begin(r) ==
  /\ rstate[r] = "idle"
  /\ rstate' = [rstate EXCEPT ![r] = "reading"] /\ since' = [since EXCEPT ![r] = image]
  /\ UNCHANGED <<image, result>>

Return(r) ==
  /\ rstate[r] = "reading"
  /\ rstate' = [rstate EXCEPT ![r] = "ok"]
  /\ \E k \in since[r]..image : result' = [result EXCEPT ![r] = Held(k)]
  /\ UNCHANGED <<image, since>>

Fail(r) ==
  /\ rstate[r] = "reading"
  /\ rstate' = [rstate EXCEPT ![r] = "failed"]
  /\ UNCHANGED <<image, since, result>>

End(r) ==
  /\ rstate[r] \in {"ok", "failed"}
  /\ rstate' = [rstate EXCEPT ![r] = "idle"]
  /\ result' = [result EXCEPT ![r] = Whole(0)]
  /\ UNCHANGED <<image, since>>

Next == Publish \/ \E r \in Readers : Begin(r) \/ Return(r) \/ Fail(r) \/ End(r)

Spec == Init /\ [][Next]_vars
=============================================================================
