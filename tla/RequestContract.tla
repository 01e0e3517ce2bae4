--------------------------- MODULE RequestContract ---------------------------
(****************************************************************************)
(* What a caller of EcatClient may rely on: a request is carried out at     *)
(* most once, and its handler is called exactly once, either with what the  *)
(* daemon answered to that very request or with a local error.              *)
(****************************************************************************)
CONSTANT Requests

VARIABLES
  issued,    \* requests made so far
  done,      \* what the daemon did for each: "no", "ok" or "failed"
  outcome    \* what its handler was given: "none", "ok", "failed" or "error"

vars == <<issued, done, outcome>>

Open == {r \in issued : outcome[r] = "none"}

Init == /\ issued = {}
        /\ done = [r \in Requests |-> "no"]
        /\ outcome = [r \in Requests |-> "none"]

Issue == /\ \E r \in Requests \ issued : issued' = issued \cup {r}
         /\ UNCHANGED <<done, outcome>>

Perform(r) == /\ r \in issued /\ done[r] = "no"
              /\ \E result \in {"ok", "failed"} : done' = [done EXCEPT ![r] = result]
              /\ UNCHANGED <<issued, outcome>>

(* A handler may issue one more request. *)
Answer(r) == /\ r \in Open /\ done[r] # "no"
             /\ outcome' = [outcome EXCEPT ![r] = done[r]]
             /\ issued' = issued \/ \E f \in Requests \ issued : issued' = issued \cup {f}
             /\ UNCHANGED done

(* The handlers of several requests are given an error at once. *)
Abandon == /\ \E S \in SUBSET Open :
                outcome' = [r \in Requests |-> IF r \in S THEN "error" ELSE outcome[r]]
           /\ UNCHANGED <<issued, done>>

Next == Issue \/ Abandon \/ \E r \in Requests : Perform(r) \/ Answer(r)

Spec == Init /\ [][Next]_vars
=============================================================================
