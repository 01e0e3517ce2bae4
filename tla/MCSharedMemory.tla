---------------------------- MODULE MCSharedMemory ----------------------------
(****************************************************************************)
(* The shared-memory data plane for TLC.  A behaviour is of one of three    *)
(* parts: a client that reads, over the cycles of one session; clients that *)
(* write; or the sessions one after the other, where a cycle is one step.   *)
(****************************************************************************)
EXTENDS ShmOutputs, ShmSession, TLC

CONSTANT MaxWriteCycles \* bound: cycles of a behaviour in which clients write

VARIABLE part

planeVars == <<vars, hist>>
partVars == <<planeVars, sessionVars, part>>

(* What a daemon killed in the middle of a copy left in both buffers. *)
Remains ==
  [b \in 0..1 |-> [x \in Words |-> IF x \in Outputs THEN 7
                                   ELSE IF x = (CHOOSE i \in Inputs : TRUE) THEN 9 ELSE 8]]

PartsInit == OInit /\ SessionInit /\ part \in {"reads", "writes", "sessions"}

Reads ==
  /\ part = "reads" /\ ONext /\ UNCHANGED <<writerVars, sessionVars, part>>
Writes ==
  /\ part = "writes" /\ ONext /\ received' <= MaxWriteCycles
  /\ UNCHANGED <<readerVars, sessionVars, part>>
Sessions ==
  /\ part = "sessions" /\ SessionNext /\ UNCHANGED <<planeVars, part>>

(* The fairness of ShmMirror!FairSpec that a read needs; nothing else is       *)
(* promised to happen.                                                         *)
ReadsGoOn(r) ==
  /\ part = "reads" /\ (ReadStep(r) \/ WaitTrue(r) \/ WaitTimeout(r))
  /\ UNCHANGED <<hist, sessionVars, part>>

PartsSpec ==
  /\ PartsInit /\ [][Reads \/ Writes \/ Sessions]_partVars
  /\ \A r \in Readers : WF_partVars(ReadsGoOn(r))
=============================================================================
