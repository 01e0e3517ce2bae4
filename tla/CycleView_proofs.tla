-------------------------- MODULE CycleView_proofs --------------------------
(****************************************************************************)
(* Theorems about MasterLease and CycleView.                                *)
(*                                                                          *)
(* MasterLease, for any number of masters, with or without starts that      *)
(* fail, and loops of both controllers that end by themselves.              *)
(*                                                                          *)
(* CycleView, for any masters, any number of requests, operations, sweeps   *)
(* and losses: whatever the window, another client and a lost connection    *)
(* do, the daemon keeps the specification of its leases, so that what is    *)
(* proved of MasterLease holds of the composition.                          *)
(****************************************************************************)
EXTENDS CycleView, SequenceTheorems, TLAPS

-----------------------------------------------------------------------------
(* The inductive invariant. *)

(* From a start that succeeds to the stop, or to the end of its loop, a         *)
(* controller holds the master it was started on.                              *)
Holds(c) == master[c] \in Masters /\ owner[master[c]] = c /\ active[c] = master[c]

(* Outside of that time it holds none and its thread is joined, but for an RT   *)
(* test that ended by itself: it holds its master until a stop, or forgets it   *)
(* at the next start.                                                           *)
AtRest(c) ==
  \/ master[c] = None /\ thread[c] = "none"
  \/ c = "rtTest" /\ thread[c] = "ended" /\ (Holds(c) \/ (master[c] = None /\ lost # {}))

RunningHolds == \A c \in Controllers : IF running[c] THEN Holds(c) ELSE AtRest(c)

(* What was forgotten stays reserved, and no stop() will release it.            *)
LostIsHeld == \A m \in lost : owner[m] = "rtTest" /\ \A c \in Controllers : master[c] # m

(* What the backend keeps is reserved for it. *)
CachedHolds == cached # None => owner[cached] = "backend"

LeaseInv == TypeOK /\ HeldIsReleasable /\ RunningHolds /\ LostIsHeld /\ CachedHolds /\ NeverTerminates

LEMMA LeaseInit == Init => LeaseInv
BY LeaseAssumption DEF Init, LeaseInv, TypeOK, HeldIsReleasable, RunningHolds, AtRest, LostIsHeld, CachedHolds,
   NeverTerminates, Controllers

(* Who holds no master, or its own. *)
LEMMA HoldersDiffer ==
  ASSUME LeaseInv, NEW c \in Controllers, master[c] # None
  PROVE  Holds(c) /\ master[c] \notin lost
BY DEF LeaseInv, RunningHolds, AtRest, LostIsHeld, TypeOK, Holds

(* What a start forgets is kept by an RT test that ended by itself. *)
LEMMA Forgotten ==
  ASSUME LeaseInv, NEW c \in Controllers, ~running[c], Forgets(c)
  PROVE  /\ lost' = lost \cup ({master[c]} \ {None}) /\ lost' \subseteq Masters
         /\ \A m \in lost' : owner[m] = "rtTest"
         /\ \A m \in lost', d \in Controllers \ {c} : master[d] # m
         /\ c # "rtTest" => master[c] = None /\ thread[c] = "none"
         /\ thread[c] # "none" => c = "rtTest" /\ thread[c] = "ended" /\ lost' # {}
<1>1. lost' = lost \cup ({master[c]} \ {None})  BY DEF Forgets
<1>2. AtRest(c)  BY DEF LeaseInv, RunningHolds
<1>3. master[c] # None => c = "rtTest" /\ Holds(c)  BY <1>2 DEF AtRest
<1>4. ASSUME NEW d \in Controllers \ {c}, master[c] # None PROVE master[d] # master[c]
  <2>1. master[d] # None => owner[master[d]] = d  BY HoldersDiffer DEF Holds
  <2> QED BY <1>3, <1>4, <2>1 DEF Holds
<1>5. /\ lost' \subseteq Masters /\ \A m \in lost' : owner[m] = "rtTest"
      /\ \A m \in lost', d \in Controllers \ {c} : master[d] # m
  BY <1>1, <1>3, <1>4 DEF LeaseInv, LostIsHeld, TypeOK, Holds
<1>6. thread[c] # "none" => c = "rtTest" /\ thread[c] = "ended" /\ lost' # {}
  <2>1. CASE Holds(c)  BY <1>1, <1>2, <2>1, LeaseAssumption DEF AtRest, Holds
  <2>2. CASE ~Holds(c)  BY <1>1, <1>2, <2>2 DEF AtRest
  <2> QED BY <2>1, <2>2
<1> QED BY <1>1, <1>2, <1>5, <1>6 DEF AtRest

(* A start that fails gives back what it reserved. *)
LEMMA FailedStartInv ==
  ASSUME LeaseInv, NEW c \in Controllers, ~terminated, ~running[c], RequestFails(c)
  PROVE  LeaseInv'
<1> USE DEF LeaseInv, RequestFails, Tidied, backend
<1>1. /\ UNCHANGED <<owner, running, terminated, native, cached>>
      /\ master' = [master EXCEPT ![c] = None]
      /\ \A d \in Controllers \ {c} : active'[d] = active[d] /\ thread'[d] = thread[d]
      /\ active' \in [Controllers -> Masters \cup {None}]
      /\ thread' \in [Controllers -> {"none", "cycling", "ended"}]
      /\ master'[c] = None /\ (thread'[c] = "none" \/ thread'[c] = thread[c])
      /\ \A d \in Controllers \ {c} : master'[d] = master[d]
  BY DEF TypeOK
<1>2. /\ lost' = lost \cup ({master[c]} \ {None}) /\ lost' \subseteq Masters
      /\ \A m \in lost' : owner[m] = "rtTest"
      /\ \A m \in lost', d \in Controllers \ {c} : master[d] # m
      /\ c # "rtTest" => master[c] = None /\ thread[c] = "none"
      /\ thread[c] # "none" => c = "rtTest" /\ thread[c] = "ended" /\ lost' # {}
  BY Forgotten
<1>3. TypeOK'
  <2>1. master' \in [Controllers -> Masters \cup {None}]  BY <1>1 DEF TypeOK
  <2> QED BY <1>1, <1>2, <2>1 DEF TypeOK
<1>4. HeldIsReleasable'
  <2>1. ASSUME NEW n \in Masters, NEW d \in Controllers, owner[n] = d
        PROVE  master'[d] = n \/ (d = "rtTest" /\ n \in lost')
    <3>1. master[d] = n \/ (d = "rtTest" /\ n \in lost)  BY <2>1 DEF HeldIsReleasable
    <3>2. n # None  BY LeaseAssumption
    <3> QED BY <1>1, <1>2, <3>1, <3>2
  <2> QED BY <1>1, <2>1 DEF HeldIsReleasable
<1>5. RunningHolds'
  <2>1. AtRest(c)'  BY <1>1, <1>2 DEF AtRest
  <2>2. ASSUME NEW d \in Controllers \ {c} PROVE IF running[d] THEN Holds(d)' ELSE AtRest(d)'
    <3>1. Holds(d)' = Holds(d)  BY <1>1 DEF Holds
    <3>2. lost # {} => lost' # {}  BY <1>2
    <3> QED BY <1>1, <3>1, <3>2 DEF RunningHolds, AtRest
  <2> QED BY <1>1, <2>1, <2>2 DEF RunningHolds
<1>6. LostIsHeld'
  <2>1. \A m \in lost' : m # None  BY <1>2, LeaseAssumption
  <2> QED BY <1>1, <1>2, <2>1 DEF LostIsHeld
<1>7. CachedHolds' /\ NeverTerminates'  BY <1>1 DEF CachedHolds, NeverTerminates
<1> QED BY <1>3, <1>4, <1>5, <1>6, <1>7

LEMMA StartedInv ==
  ASSUME LeaseInv, NEW c \in Controllers, NEW m \in Masters, ~running[c], owner[m] = None,
         StartSucceeds(c, m)
  PROVE  LeaseInv'
<1> USE LeaseAssumption DEF LeaseInv, StartSucceeds, backend
<1>1. /\ lost' = lost \cup ({master[c]} \ {None}) /\ lost' \subseteq Masters
      /\ \A n \in lost' : owner[n] = "rtTest"
      /\ \A n \in lost', d \in Controllers \ {c} : master[d] # n
      /\ c # "rtTest" => master[c] = None /\ thread[c] = "none"
      /\ thread[c] # "none" => c = "rtTest" /\ thread[c] = "ended" /\ lost' # {}
  BY Forgotten
<1>2. /\ owner' \in [Masters -> Controllers \cup {"backend", "other", None}]
      /\ owner'[m] = c /\ \A n \in Masters \ {m} : owner'[n] = owner[n]
      /\ master'[c] = m /\ active'[c] = m /\ running'[c] = TRUE
      /\ \A d \in Controllers \ {c} : /\ running'[d] = running[d] /\ master'[d] = master[d]
                                       /\ active'[d] = active[d] /\ thread'[d] = thread[d]
      /\ UNCHANGED <<native, cached>>
  BY DEF TypeOK, Controllers
<1>3. m \notin lost'  BY <1>1 DEF Controllers
<1>4. TypeOK'  BY <1>1 DEF TypeOK
<1>5. HeldIsReleasable'
  <2>1. ASSUME NEW n \in Masters, NEW d \in Controllers, owner'[n] = d
        PROVE  master'[d] = n \/ (d = "rtTest" /\ n \in lost')
    <3>1. CASE n = m  BY <1>2, <2>1, <3>1
    <3>2. CASE n # m
      <4>1. owner[n] = d  BY <1>2, <2>1, <3>2
      <4>2. master[d] = n \/ (d = "rtTest" /\ n \in lost)  BY <4>1 DEF HeldIsReleasable
      <4> QED BY <1>1, <1>2, <4>2
    <3> QED BY <3>1, <3>2
  <2>2. ASSUME NEW n \in Masters, owner'[n] = "backend" PROVE cached' = n
    BY <1>2, <2>2 DEF HeldIsReleasable, Controllers
  <2> QED BY <2>1, <2>2 DEF HeldIsReleasable
<1>6. RunningHolds'
  <2>1. Holds(c)'  BY <1>2 DEF Holds
  <2>2. ASSUME NEW d \in Controllers \ {c} PROVE IF running'[d] THEN Holds(d)' ELSE AtRest(d)'
    <3>1. Holds(d) => Holds(d)'  BY <1>2 DEF Holds
    <3>2. lost # {} => lost' # {}  BY <1>1
    <3> QED BY <1>2, <3>1, <3>2 DEF RunningHolds, AtRest
  <2> QED BY <1>2, <2>1, <2>2 DEF RunningHolds
<1>7. LostIsHeld'
  <2>1. ASSUME NEW n \in lost' PROVE owner'[n] = "rtTest" /\ \A d \in Controllers : master'[d] # n
    BY <1>1, <1>2, <1>3
  <2> QED BY <2>1 DEF LostIsHeld
<1>8. CachedHolds'
  <2>1. cached # None => cached # m  BY DEF CachedHolds
  <2> QED BY <1>2, <2>1 DEF CachedHolds, TypeOK
<1>9. NeverTerminates'
  <2>1. ASSUME thread[c] # "none" PROVE \E n \in lost' : owner'[n] = "rtTest"
    <3>1. PICK n \in lost' : TRUE  BY <1>1, <2>1
    <3> QED BY <1>1, <1>2, <1>3, <3>1
  <2> QED BY <2>1 DEF NeverTerminates
<1> QED BY <1>4, <1>5, <1>6, <1>7, <1>8, <1>9

LEMMA StartInv ==
  ASSUME LeaseInv, NEW c \in Controllers, NEW m \in Masters, start(c, m)
  PROVE  LeaseInv'
<1>1. ~terminated /\ ~running[c]  BY DEF start
<1>2. CASE RequestFails(c)  BY <1>1, <1>2, FailedStartInv
<1>3. CASE owner[m] = None /\ StartSucceeds(c, m)  BY <1>1, <1>3, StartedInv
<1> QED BY <1>2, <1>3 DEF start, StartFails

LEMMA StopInv ==
  ASSUME LeaseInv, NEW c \in Controllers, stop(c) PROVE LeaseInv'
<1> USE LeaseAssumption DEF LeaseInv, stop, backend, history
<1>1. owner' = [m \in Masters |-> IF m = master[c] THEN None ELSE owner[m]]
  BY DEF Released
<1>2. /\ running' = [running EXCEPT ![c] = FALSE] /\ thread' = [thread EXCEPT ![c] = "none"]
      /\ master' = [master EXCEPT ![c] = None] /\ active' \in [Controllers -> Masters \cup {None}]
      /\ \A d \in Controllers \ {c} : active'[d] = active[d]
      /\ UNCHANGED <<terminated, lost, native, cached>> /\ ~terminated
  BY DEF TypeOK
<1>3. TypeOK'
  <2>1. /\ owner' \in [Masters -> Controllers \cup {"backend", "other", None}]
        /\ master' \in [Controllers -> Masters \cup {None}]
    BY <1>1, <1>2 DEF TypeOK
  <2>2. /\ thread' \in [Controllers -> {"none", "cycling", "ended"}]
        /\ running' \in [Controllers -> BOOLEAN]
    BY <1>2 DEF TypeOK
  <2>3. \A d \in Controllers : running'[d] => active'[d] \in Masters  BY <1>2 DEF TypeOK
  <2> QED BY <1>2, <2>1, <2>2, <2>3 DEF TypeOK
<1>4. HeldIsReleasable'
  <2>1. ASSUME NEW n \in Masters, NEW d \in Controllers, owner'[n] = d
        PROVE  master'[d] = n \/ (d = "rtTest" /\ n \in lost')
    <3>1. d # None /\ n # master[c] /\ owner[n] = d
      BY <1>1, <2>1
    <3> QED BY <1>2, <3>1 DEF TypeOK, HeldIsReleasable
  <2>2. ASSUME NEW n \in Masters, owner'[n] = "backend" PROVE cached' = n
    BY <1>1, <1>2, <2>2 DEF HeldIsReleasable
  <2> QED BY <2>1, <2>2 DEF HeldIsReleasable
<1>5. RunningHolds'
  <2>1. AtRest(c)' /\ ~running'[c]  BY <1>2 DEF AtRest, TypeOK
  <2>2. ASSUME NEW d \in Controllers \ {c} PROVE IF running'[d] THEN Holds(d)' ELSE AtRest(d)'
    <3>1. /\ running'[d] = running[d] /\ master'[d] = master[d] /\ active'[d] = active[d]
          /\ thread'[d] = thread[d] /\ lost' = lost
      BY <1>2 DEF TypeOK
    <3>2. Holds(d) => master[d] # master[c]
      <4>1. master[c] # None => Holds(c)  BY HoldersDiffer
      <4> QED BY <4>1 DEF Holds
    <3>3. Holds(d) => Holds(d)'  BY <1>1, <3>1, <3>2 DEF Holds
    <3> QED BY <3>1, <3>3 DEF RunningHolds, AtRest
  <2> QED BY <2>1, <2>2 DEF RunningHolds
<1>6. LostIsHeld'  BY <1>1, <1>2 DEF LostIsHeld, TypeOK
<1>7. CachedHolds'
  <2>1. cached # None => cached # master[c]
    <3>1. master[c] # None => Holds(c)  BY HoldersDiffer
    <3> QED BY <3>1 DEF CachedHolds, Holds, Controllers
  <2> QED BY <1>1, <1>2, <2>1 DEF CachedHolds, TypeOK
<1> QED BY <1>2, <1>3, <1>4, <1>5, <1>6, <1>7 DEF NeverTerminates

(* A loop that ends by itself leaves the master reserved; Free Run leaves       *)
(* running_ as it was.                                                          *)
LEMMA BreakInv ==
  ASSUME LeaseInv, NEW c \in Controllers, LoopBreaks(c) PROVE LeaseInv'
<1> USE DEF LeaseInv, LoopBreaks, backend, history
<1>1. /\ UNCHANGED <<owner, master, active, terminated, lost, native, cached>> /\ ~terminated
      /\ thread[c] = "cycling" /\ thread' = [thread EXCEPT ![c] = "ended"]
      /\ running' = IF c = "rtTest" THEN [running EXCEPT ![c] = FALSE] ELSE running
  OBVIOUS
<1>2. running[c] /\ Holds(c)  BY <1>1 DEF RunningHolds, AtRest
<1>3. TypeOK' /\ HeldIsReleasable'  BY <1>1 DEF TypeOK, HeldIsReleasable
<1>4. \A d \in Controllers : Holds(d)' = Holds(d)  BY <1>1 DEF Holds
<1>5. ASSUME NEW d \in Controllers PROVE IF running'[d] THEN Holds(d)' ELSE AtRest(d)'
  <2>1. CASE d # c
    <3>1. running'[d] = running[d] /\ thread'[d] = thread[d]  BY <1>1, <2>1 DEF TypeOK
    <3> QED BY <1>1, <1>4, <3>1 DEF RunningHolds, AtRest
  <2>2. CASE d = c
    <3>1. thread'[c] = "ended" /\ (running'[c] \/ c = "rtTest")  BY <1>1, <1>2 DEF TypeOK
    <3> QED BY <1>2, <1>4, <2>2, <3>1 DEF AtRest
  <2> QED BY <2>1, <2>2
<1>6. RunningHolds'  BY <1>5 DEF RunningHolds
<1>7. LostIsHeld' /\ CachedHolds' /\ NeverTerminates'  BY <1>1 DEF LostIsHeld, CachedHolds, NeverTerminates
<1> QED BY <1>3, <1>6, <1>7

(* Another program, or the backend, takes and gives back only what no           *)
(* controller holds.                                                            *)
LEMMA ControllersKeep ==
  ASSUME LeaseInv, UNCHANGED <<running, thread, master, active, history>>,
         \A m \in Masters : owner[m] \in Controllers => owner'[m] = owner[m]
  PROVE  RunningHolds' /\ LostIsHeld' /\ NeverTerminates'
<1> USE DEF LeaseInv, history
<1>1. \A c \in Controllers : Holds(c) => Holds(c)'  BY DEF Holds
<1>2. RunningHolds'  BY <1>1 DEF RunningHolds, AtRest
<1>3. \A m \in lost : owner'[m] = "rtTest"  BY DEF LostIsHeld, TypeOK, Controllers
<1> QED BY <1>2, <1>3 DEF LostIsHeld, NeverTerminates

LEMMA OtherProgramInv == ASSUME LeaseInv, OtherProgram PROVE LeaseInv'
<1> USE LeaseAssumption DEF LeaseInv, OtherProgram, backend, history
<1>1. PICK m \in Masters : /\ owner[m] \in {None, "other"}
                           /\ \E v \in {None, "other"} : owner' = [owner EXCEPT ![m] = v]
  OBVIOUS
<1>2. UNCHANGED <<running, thread, master, active, terminated, lost, native, cached>>  OBVIOUS
<1>3. TypeOK'  BY <1>1, <1>2 DEF TypeOK
<1>4. RunningHolds' /\ LostIsHeld' /\ NeverTerminates'
  BY <1>1, <1>2, ControllersKeep DEF TypeOK, Controllers
<1> QED BY <1>1, <1>2, <1>3, <1>4 DEF TypeOK, HeldIsReleasable, CachedHolds, Controllers

(* What the backend gives back was its own, never that of a session. *)
LEMMA UncachedIsOwn ==
  ASSUME LeaseInv
  PROVE  /\ Uncached \in [Masters -> Controllers \cup {"backend", "other", None}]
         /\ \A m \in Masters : Uncached[m] \in {None, owner[m]} /\ Uncached[m] # "backend"
         /\ \A m \in Masters : owner[m] \in Controllers => Uncached[m] = owner[m]
BY LeaseAssumption DEF LeaseInv, Uncached, TypeOK, HeldIsReleasable, CachedHolds, Controllers

LEMMA MasterGuardInv == ASSUME LeaseInv, NEW m \in Masters, MasterGuard(m) PROVE LeaseInv'
<1> USE LeaseAssumption, UncachedIsOwn DEF LeaseInv, MasterGuard, history
<1>1. UNCHANGED <<running, thread, master, active, terminated, lost, native>>  OBVIOUS
<1>2. CASE owner[m] = None
  <2>1. owner' = [Uncached EXCEPT ![m] = "backend"] /\ cached' = m  BY <1>2
  <2>2. TypeOK'  BY <1>1, <2>1 DEF TypeOK
  <2>3. HeldIsReleasable' /\ CachedHolds'
    BY <1>1, <2>1 DEF HeldIsReleasable, CachedHolds, TypeOK, Controllers
  <2>4. RunningHolds' /\ LostIsHeld' /\ NeverTerminates'
    BY <1>1, <1>2, <2>1, ControllersKeep DEF TypeOK, Controllers
  <2> QED BY <2>2, <2>3, <2>4
<1>3. CASE owner[m] # None
  <2>1. owner' = Uncached /\ cached' = None  BY <1>3
  <2>2. TypeOK'  BY <1>1, <2>1 DEF TypeOK
  <2>3. HeldIsReleasable' /\ CachedHolds'
    BY <1>1, <2>1 DEF HeldIsReleasable, CachedHolds, Controllers
  <2>4. RunningHolds' /\ LostIsHeld' /\ NeverTerminates'  BY <1>1, <2>1, ControllersKeep
  <2> QED BY <2>2, <2>3, <2>4
<1> QED BY <1>2, <1>3

LEMMA BackendModeInv == ASSUME LeaseInv, NEW b \in BOOLEAN, setBackendMode(b) PROVE LeaseInv'
<1> USE LeaseAssumption, UncachedIsOwn DEF LeaseInv, setBackendMode, history
<1>1. UNCHANGED <<running, thread, master, active, terminated, lost>>  OBVIOUS
<1>2. TypeOK'  BY <1>1 DEF TypeOK
<1>3. HeldIsReleasable' /\ CachedHolds'  BY <1>1 DEF HeldIsReleasable, CachedHolds, Controllers
<1>4. RunningHolds' /\ LostIsHeld' /\ NeverTerminates'  BY <1>1, ControllersKeep
<1> QED BY <1>2, <1>3, <1>4

-----------------------------------------------------------------------------
(* LeaseInv holds throughout: starts that fail, stops, loops that end by        *)
(* themselves and other programs keep who holds what.                          *)
THEOREM LeaseInvariant == Spec => []LeaseInv
<1>1. LeaseInv /\ [Next]_vars => LeaseInv'
  <2> SUFFICES ASSUME LeaseInv, [Next]_vars PROVE LeaseInv'
    OBVIOUS
  <2>1. CASE \E c \in Controllers : stop(c)  BY <2>1, StopInv
  <2>2. CASE \E c \in Controllers : LoopBreaks(c)  BY <2>2, BreakInv
  <2>3. CASE \E c \in Controllers, m \in Masters : start(c, m)  BY <2>3, StartInv
  <2>4. CASE \E m \in Masters : MasterGuard(m)  BY <2>4, MasterGuardInv
  <2>5. CASE \E b \in BOOLEAN : setBackendMode(b)  BY <2>5, BackendModeInv
  <2>6. CASE UNCHANGED vars
    BY <2>6 DEF vars, backend, history, LeaseInv, TypeOK, HeldIsReleasable, RunningHolds, Holds, AtRest,
                LostIsHeld, CachedHolds, NeverTerminates
  <2> QED BY <2>1, <2>2, <2>3, <2>4, <2>5, <2>6, OtherProgramInv DEF Next
<1> QED BY LeaseInit, <1>1, PTL DEF Spec

(* A master that a controller reserved is the one its stop() releases: none   *)
(* is held for ever (FreeRunController::start and ::stop, RtTestController),  *)
(* but what an RT test that ended by itself forgot at its next start.         *)
THEOREM MastersAreReleasable == Spec => []HeldIsReleasable
<1>1. LeaseInv => HeldIsReleasable  BY DEF LeaseInv
<1> QED BY <1>1, LeaseInvariant, PTL

(* A cycle thread drives the master it was started on, reserved for its       *)
(* controller and nobody else (the loops of both controllers).                *)
THEOREM CyclesOwnTheirMaster == Spec => []CyclesOwnMaster
<1>1. LeaseInv => CyclesOwnMaster
  BY LeaseAssumption DEF LeaseInv, RunningHolds, Holds, AtRest, CyclesOwnMaster
<1> QED BY <1>1, LeaseInvariant, PTL

(* No start assigns thread_ while it is joinable (the start of both           *)
(* controllers), but one that follows an RT test that ended by itself, whose  *)
(* master is then reserved for ever.                                          *)
THEOREM ThreadsAreJoined == Spec => []NeverTerminates
<1>1. LeaseInv => NeverTerminates  BY DEF LeaseInv
<1> QED BY <1>1, LeaseInvariant, PTL

-----------------------------------------------------------------------------
(* The composition. *)

Operations == {"freeRunStart", "freeRunStop", "freeRunStatus", "rtTestStart", "rtTestStop", "rtTestStatus"}
Calls == [op : Operations, master : Masters, answer : BOOLEAN \cup {None}, waited : BOOLEAN]

(* What the daemon is asked is about a master there is. *)
WindowType == target \in Masters /\ flight \in Seq(Calls) /\ orphans \in Seq(Calls)

-----------------------------------------------------------------------------
(* Steps of the daemon. *)

LEMMA StartTypes ==
  ASSUME TypeOK, NEW c \in Controllers, NEW m \in Masters, start(c, m) PROVE TypeOK'
<1>1. CASE RequestFails(c)  BY <1>1 DEF TypeOK, start, RequestFails, Tidied, Forgets, backend
<1>2. CASE StartSucceeds(c, m)  BY <1>2 DEF TypeOK, StartSucceeds, Forgets, backend
<1> QED BY <1>1, <1>2 DEF start, StartFails

LEMMA LeaseTypes == ASSUME TypeOK, [Next]_vars PROVE TypeOK'
<1>1. CASE OtherProgram  BY <1>1 DEF TypeOK, OtherProgram, backend, history
<1>2. CASE \E m \in Masters : MasterGuard(m)
  BY <1>2 DEF TypeOK, MasterGuard, Uncached, history
<1>3. CASE \E b \in BOOLEAN : setBackendMode(b)
  BY <1>3 DEF TypeOK, setBackendMode, Uncached, history
<1>4. CASE \E c \in Controllers : stop(c)
  BY <1>4 DEF TypeOK, stop, Released, backend, history
<1>5. CASE \E c \in Controllers : LoopBreaks(c)
  BY <1>5 DEF TypeOK, LoopBreaks, backend, history
<1>6. CASE \E c \in Controllers, m \in Masters : start(c, m)  BY <1>6, StartTypes
<1>7. CASE UNCHANGED vars  BY <1>7 DEF TypeOK, vars, backend, history
<1> QED BY <1>1, <1>2, <1>3, <1>4, <1>5, <1>6, <1>7 DEF Next

(* A handler starts or stops one controller, or changes nothing. *)
LEMMA HandlerIsLease ==
  ASSUME NEW q \in Calls, Handler(q) PROVE [Next]_vars
<1>1. q.master \in Masters  BY DEF Calls
<1>2. CASE q.op \in {"freeRunStart", "rtTestStart"}
  BY <1>1, <1>2 DEF Handler, Begin, Next, Controllers
<1>3. CASE q.op \in {"freeRunStop", "rtTestStop"}  BY <1>3 DEF Handler, Next, Controllers
<1>4. CASE q.op \notin {"freeRunStart", "rtTestStart", "freeRunStop", "rtTestStop"}
  BY <1>4 DEF Handler
<1> QED BY <1>2, <1>3, <1>4

(* The window changes nothing of the daemon but through a handler. *)
LEMMA StepIsLease ==
  ASSUME WindowType, [ViewNext]_viewVars PROVE [Next]_vars
<1>1. CASE Dispatch
  <2>1. PICK i \in DOMAIN flight : Handler(flight[i])  BY <1>1 DEF Dispatch, Unanswered
  <2> QED BY <2>1, HandlerIsLease, ElementOfSeq DEF WindowType
<1>2. CASE DispatchOrphan
  <2>1. Head(orphans) \in Calls  BY <1>2, HeadTailProperties DEF DispatchOrphan, WindowType
  <2> QED BY <1>2, <2>1, HandlerIsLease DEF DispatchOrphan
<1>3. CASE OtherClient  BY <1>3 DEF OtherClient, Next
<1>4. CASE Elsewhere  BY <1>4 DEF Elsewhere, Next
<1>5. CASE UNCHANGED viewVars  BY <1>5 DEF viewVars
<1>6. CASE setFreeRun \/ Confirm \/ Decline \/ rtTestStart \/ rtTestStop
  BY <1>6 DEF setFreeRun, Confirm, Decline, rtTestStart, rtTestStop
<1>7. CASE \E m \in Masters : setActiveMaster(m) \/ showSettings(m) \/ openProject(m)
  BY <1>7 DEF setActiveMaster, showSettings, openProject
<1>8. CASE newProject \/ requestRefresh  BY <1>8 DEF newProject, requestRefresh
<1>9. CASE Receive \/ Sweep \/ Lose \/ CallFailed \/ Connect
  BY <1>9 DEF Receive, Sweep, Lose, CallFailed, Connect
<1> QED BY <1>1, <1>2, <1>3, <1>4, <1>5, <1>6, <1>7, <1>8, <1>9 DEF ViewNext

-----------------------------------------------------------------------------
(* Requests keep their masters. *)

LEMMA RefreshType == ASSUME NEW m \in Masters, NEW rt PROVE Refresh(rt, m) \in Seq(Calls)
<1>1. Call("freeRunStatus", m) \in Calls /\ Call("rtTestStatus", m) \in Calls
  BY DEF Call, Calls, Operations
<1> QED BY <1>1, ConcatProperties DEF Refresh

LEMMA EngageType ==
  ASSUME WindowType, NEW e \in BOOLEAN, Engage(e) PROVE flight' \in Seq(Calls)
<1>1. Call("freeRunStart", target) \in Calls /\ Call("freeRunStop", target) \in Calls
  BY DEF WindowType, Call, Calls, Operations
<1> QED BY <1>1, AppendProperties DEF Engage, WindowType

LEMMA DispatchType ==
  ASSUME WindowType, TypeOK', Dispatch PROVE flight' \in Seq(Calls)
<1>1. PICK i \in DOMAIN flight : flight' = [flight EXCEPT ![i].answer = Reply(flight[i])]
  BY DEF Dispatch, Unanswered
<1>2. flight[i] \in Calls  BY ElementOfSeq DEF WindowType
<1>3. Reply(flight[i]) \in BOOLEAN
  <2>1. running'["freeRun"] \in BOOLEAN /\ running'["rtTest"] \in BOOLEAN
    BY DEF TypeOK, Controllers
  <2> QED BY <2>1 DEF Reply
<1>4. [flight[i] EXCEPT !.answer = Reply(flight[i])] \in Calls  BY <1>2, <1>3 DEF Calls
<1> QED BY <1>1, <1>4, ExceptSeq DEF WindowType

LEMMA SweepType == ASSUME WindowType, Sweep PROVE flight' \in Seq(Calls)
<1>1. PICK n \in DOMAIN flight :
        flight' = [i \in DOMAIN flight |-> IF i <= n THEN [flight[i] EXCEPT !.waited = FALSE] ELSE flight[i]]
  BY DEF Sweep
<1>2. \A i \in DOMAIN flight : flight'[i] \in Calls
  <2> TAKE i \in DOMAIN flight
  <2>1. flight[i] \in Calls  BY ElementOfSeq DEF WindowType
  <2> QED BY <1>1, <2>1 DEF Calls
<1>3. DOMAIN flight' = 1 .. Len(flight) /\ Len(flight) \in Nat  BY <1>1, LenProperties DEF WindowType
<1> QED BY <1>1, <1>2, <1>3, IsASeq DEF WindowType

LEMMA WindowTypeStep ==
  ASSUME WindowType, TypeOK', [ViewNext]_viewVars PROVE WindowType'
<1> USE DEF WindowType
<1>1. CASE setFreeRun  BY <1>1, EngageType DEF setFreeRun
<1>2. CASE Confirm  BY <1>2, EngageType DEF Confirm
<1>3. CASE Decline \/ newProject \/ OtherClient \/ Elsewhere \/ UNCHANGED viewVars
  BY <1>3 DEF Decline, newProject, OtherClient, Elsewhere, viewVars, window, net, shown
<1>4. CASE rtTestStart
  <2>1. Call("rtTestStart", target) \in Calls  BY DEF Call, Calls, Operations
  <2>2. flight' = Append(flight, Call("rtTestStart", target))  BY <1>4 DEF rtTestStart
  <2>3. UNCHANGED <<target, orphans>>  BY <1>4 DEF rtTestStart, shown
  <2> QED BY <2>1, <2>2, <2>3, AppendProperties
<1>5. CASE rtTestStop
  <2>1. Call("rtTestStop", target) \in Calls  BY DEF Call, Calls, Operations
  <2>2. flight' = Append(flight, Call("rtTestStop", target)) \/ flight' = flight  BY <1>5 DEF rtTestStop
  <2>3. UNCHANGED <<target, orphans>>  BY <1>5 DEF rtTestStop
  <2> QED BY <2>1, <2>2, <2>3, AppendProperties
<1>6. ASSUME NEW m \in Masters, setActiveMaster(m) PROVE WindowType'
  <2> DEFINE stopped == IF freeRun THEN <<Call("freeRunStop", target)>> ELSE <<>>
  <2>1. target' \in Masters /\ orphans' = orphans  BY <1>6 DEF setActiveMaster
  <2>2. stopped \in Seq(Calls)
    <3>1. Call("freeRunStop", target) \in Calls  BY DEF Call, Calls, Operations
    <3> QED BY <3>1
  <2>3. flight' = flight \o stopped \o Refresh(rtTest, m) \/ flight' = flight
    BY <1>6 DEF setActiveMaster
  <2>4. flight \o stopped \in Seq(Calls)  BY <2>2, ConcatProperties
  <2>5. Refresh(rtTest, m) \in Seq(Calls)  BY RefreshType
  <2> HIDE DEF stopped
  <2>6. flight \o stopped \o Refresh(rtTest, m) \in Seq(Calls)  BY <2>4, <2>5, ConcatProperties
  <2> QED BY <2>1, <2>3, <2>4, <2>6
<1>7. CASE \E m \in Masters : showSettings(m) \/ openProject(m)
  BY <1>7 DEF showSettings, openProject, net
<1>8. CASE requestRefresh
  BY <1>8, RefreshType, ConcatProperties DEF requestRefresh, shown
<1>9. CASE Dispatch  BY <1>9, DispatchType DEF Dispatch, shown
<1>10. CASE DispatchOrphan
  BY <1>10, HeadTailProperties DEF DispatchOrphan, shown
<1>11. CASE Receive
  <2>1. Tail(flight) \in Seq(Calls)  BY <1>11, HeadTailProperties DEF Receive
  <2>2. flight' = Tail(flight) \/ flight' = Tail(flight) \o Refresh(rtTest', target)
    BY <1>11 DEF Receive, Answered
  <2> QED BY <1>11, <2>1, <2>2, RefreshType, ConcatProperties DEF Receive
<1>12. CASE Sweep  BY <1>12, SweepType DEF Sweep, shown
<1>13. CASE Lose
  <2>1. PICK k, n \in 0 .. Len(flight) : orphans' = orphans \o SubSeq(flight, k + 1, n)
    BY <1>13 DEF Lose
  <2>2. SubSeq(flight, k + 1, n) \in Seq(Calls)  BY SubSeqProperties, LenProperties
  <2> QED BY <1>13, <2>1, <2>2, ConcatProperties DEF Lose, shown
<1>14. CASE CallFailed
  <2>1. flight' = flight \/ flight' = flight \o Refresh(rtTest', target)
    BY <1>14 DEF CallFailed, Answered
  <2>2. UNCHANGED <<target, orphans>>  BY <1>14 DEF CallFailed
  <2>3. Refresh(rtTest', target) \in Seq(Calls)  BY RefreshType
  <2> QED BY <2>1, <2>2, <2>3, ConcatProperties
<1>15. CASE Connect  BY <1>15, RefreshType DEF Connect, shown
<1> QED BY <1>1, <1>2, <1>3, <1>4, <1>5, <1>6, <1>7, <1>8, <1>9, <1>10, <1>11, <1>12, <1>13,
           <1>14, <1>15 DEF ViewNext

-----------------------------------------------------------------------------
(* The composition. *)

(* Every step of the window, of another client and of a connection is one of   *)
(* the daemon's specification or changes nothing of it: no order of requests,   *)
(* late, doubled or orphaned, makes the handlers (EcatDaemon::readClient, the   *)
(* handlers of freeRun and rtTest) do what the controllers do not.              *)
THEOREM CompositionKeepsLease == ViewSpec => Spec
<1> DEFINE ViewInv == TypeOK /\ WindowType
<1>1. ViewInit => Init /\ ViewInv
  <2> SUFFICES ASSUME ViewInit PROVE Init /\ ViewInv
    OBVIOUS
  <2>1. TypeOK  BY LeaseAssumption DEF ViewInit, Init, TypeOK, Controllers
  <2>2. WindowType  BY CycleAssumption DEF ViewInit, WindowType
  <2> QED BY <2>1, <2>2 DEF ViewInit
<1>2. ViewInv /\ [ViewNext]_viewVars => ViewInv' /\ [Next]_vars
  <2> SUFFICES ASSUME ViewInv, [ViewNext]_viewVars PROVE ViewInv' /\ [Next]_vars
    OBVIOUS
  <2>1. [Next]_vars  BY StepIsLease
  <2>2. TypeOK'  BY <2>1, LeaseTypes
  <2> QED BY <2>1, <2>2, WindowTypeStep
<1> QED BY <1>1, <1>2, PTL DEF ViewSpec, Spec

(* Whatever the window asks for and in whatever order its requests and those   *)
(* of others arrive, a master is held only by who will release it (the stop    *)
(* handlers, EcatDaemon.cpp and freerun_rpc_handlers.cpp), but those an RT      *)
(* test that ended by itself forgot at its next start ...                      *)
THEOREM ViewLeavesMastersReleasable == ViewSpec => []HeldIsReleasable
<1> QED BY CompositionKeepsLease, MastersAreReleasable, PTL

(* ... a cycle thread drives the master reserved for it ...                    *)
THEOREM ViewCyclesOwnMaster == ViewSpec => []CyclesOwnMaster
<1> QED BY CompositionKeepsLease, CyclesOwnTheirMaster, PTL

(* ... and no start assigns over a joinable thread, but after such an RT test.  *)
THEOREM ViewNeverTerminates == ViewSpec => []NeverTerminates
<1> QED BY CompositionKeepsLease, ThreadsAreJoined, PTL
=============================================================================
