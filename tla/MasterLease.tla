------------------------------ MODULE MasterLease ------------------------------
(****************************************************************************)
(* Who holds the IgH masters: FreeRunController and RtTestController of one *)
(* daemon, its native backend, and other programs.  The RPC handlers run    *)
(* one after the other on the daemon's main thread; each controller has a   *)
(* cycle thread that may end by itself when its sleep fails.  The native    *)
(* backend keeps the master of its last call reserved until a call for      *)
(* another one or the switch to another backend.                            *)
(****************************************************************************)
EXTENDS FiniteSets

CONSTANTS
  Masters,     \* master indices
  None,
  StartFaults  \* a start may fail after its master was reserved

Controllers == {"freeRun", "rtTest"}

ASSUME LeaseAssumption ==
  /\ None \notin Masters \cup Controllers \cup {"other", "backend"}
  /\ StartFaults \in BOOLEAN

VARIABLES
  owner,     \* of each master: a controller, "backend", "other" or None
  running,   \* running_
  thread,    \* thread_: "none" (not joinable), "cycling", "ended" (to be joined)
  master,    \* master_, as the index it was requested for, or None
  active,    \* activeMasterIndex_ of the last start
  terminated, \* history: a joinable std::thread was assigned to
  lost,       \* history: masters still reserved when their controller forgot them
  native,    \* backend_->isNative()
  cached     \* its cachedMaster_, as an index, or None

backend == <<native, cached>>
history == <<terminated, lost>>
vars == <<owner, running, thread, master, active, history, backend>>

Init ==
  /\ owner = [m \in Masters |-> None]
  /\ running = [c \in Controllers |-> FALSE] /\ thread = [c \in Controllers |-> "none"]
  /\ master = [c \in Controllers |-> None] /\ active = [c \in Controllers |-> None]
  /\ terminated = FALSE /\ lost = {} /\ native = FALSE /\ cached = None

(* cleanup(): ecrt_release_master of what master_ holds.  The one of Free Run   *)
(* also joins its thread and forgets the master index.                         *)
Released(own, c) == [m \in Masters |-> IF m = master[c] THEN None ELSE own[m]]

Tidied(c) ==
  /\ thread' = IF c = "freeRun" THEN [thread EXCEPT ![c] = "none"] ELSE thread
  /\ active' = IF c = "freeRun" THEN [active EXCEPT ![c] = None] ELSE active

(* What ecrt_request_master returns replaces master_, whatever it was.         *)
Forgets(c) == lost' = lost \cup ({master[c]} \ {None})

(* A start that finds the controller running succeeds on the same master and   *)
(* fails on another: nothing changes either way.  cleanup() undoes a start that *)
(* fails.                                                                      *)
RequestFails(c) ==
  /\ master' = [master EXCEPT ![c] = None]
  /\ Tidied(c) /\ Forgets(c)
  /\ UNCHANGED <<owner, running, terminated, backend>>

StartFails(c) == StartFaults /\ RequestFails(c) \* the master is reserved and released

StartSucceeds(c, m) ==
  /\ owner' = [owner EXCEPT ![m] = c] /\ master' = [master EXCEPT ![c] = m]
  /\ active' = [active EXCEPT ![c] = m] /\ running' = [running EXCEPT ![c] = TRUE]
  /\ terminated' = (thread[c] # "none") /\ thread' = [thread EXCEPT ![c] = "cycling"]
  /\ Forgets(c)
  /\ UNCHANGED backend

StartKeepsMaster(c, m) == \* mutant: a start that fails does not clean up
  /\ ~terminated /\ ~running[c]
  /\ IF owner[m] # None
       THEN RequestFails(c)
       ELSE \/ StartSucceeds(c, m)
            \/ /\ StartFaults /\ owner' = [owner EXCEPT ![m] = c]
               /\ UNCHANGED <<running, thread, master, active, history, backend>>

StartAnyway(c, m) == \* mutant: the running check is missing
  /\ ~terminated
  /\ IF owner[m] # None THEN RequestFails(c) ELSE StartFails(c) \/ StartSucceeds(c, m)

start(c, m) ==
  /\ ~terminated /\ ~running[c]
  /\ IF owner[m] # None THEN RequestFails(c) ELSE StartFails(c) \/ StartSucceeds(c, m)

StopDetached(c) == \* mutant: the cycle thread is not joined
  /\ ~terminated
  /\ running' = [running EXCEPT ![c] = FALSE]
  /\ thread' = IF thread[c] = "ended" THEN [thread EXCEPT ![c] = "none"] ELSE thread
  /\ owner' = Released(owner, c) /\ master' = [master EXCEPT ![c] = None]
  /\ UNCHANGED <<active, history, backend>>

(* stop(): the thread is joined and the master released. *)
stop(c) ==
  /\ ~terminated
  /\ running' = [running EXCEPT ![c] = FALSE] /\ thread' = [thread EXCEPT ![c] = "none"]
  /\ owner' = Released(owner, c) /\ master' = [master EXCEPT ![c] = None]
  /\ active' = IF c = "freeRun" THEN [active EXCEPT ![c] = None] ELSE active
  /\ UNCHANGED <<history, backend>>

(* clock_nanosleep fails: the loop ends; only the RT test clears running_, and *)
(* then a start is accepted with its master still reserved and its thread to   *)
(* be joined.                                                                  *)
LoopBreaks(c) ==
  /\ ~terminated /\ thread[c] = "cycling"
  /\ thread' = [thread EXCEPT ![c] = "ended"]
  /\ running' = IF c = "rtTest" THEN [running EXCEPT ![c] = FALSE] ELSE running
  /\ UNCHANGED <<owner, master, active, history, backend>>

(* Another program takes or gives back a master. *)
OtherProgram ==
  /\ \E m \in Masters :
       \/ owner[m] = None /\ owner' = [owner EXCEPT ![m] = "other"]
       \/ owner[m] = "other" /\ owner' = [owner EXCEPT ![m] = None]
  /\ UNCHANGED <<running, thread, master, active, history, backend>>

(* A call of the native backend for master m (MasterGuard): the master of the  *)
(* call before is kept, or released for this one, which may be refused.         *)
Uncached == [m \in Masters |-> IF m = cached THEN None ELSE owner[m]]

MasterGuard(m) ==
  /\ native /\ ~terminated /\ cached # m
  /\ IF owner[m] = None
       THEN owner' = [Uncached EXCEPT ![m] = "backend"] /\ cached' = m
       ELSE owner' = Uncached /\ cached' = None
  /\ UNCHANGED <<running, thread, master, active, history, native>>

(* setBackendMode deletes the backend it replaces, which releases its master.  *)
(* "auto" replaces even a native one.                                          *)
setBackendMode(toNative) ==
  /\ ~terminated /\ native' = toNative /\ cached' = None /\ owner' = Uncached
  /\ UNCHANGED <<running, thread, master, active, history>>

Next == \/ OtherProgram
        \/ \E m \in Masters : MasterGuard(m)
        \/ \E toNative \in BOOLEAN : setBackendMode(toNative)
        \/ \E c \in Controllers : stop(c) \/ LoopBreaks(c) \/ \E m \in Masters : start(c, m)

Spec == Init /\ [][Next]_vars

-----------------------------------------------------------------------------
(* Properties. *)

TypeOK ==
  /\ owner \in [Masters -> Controllers \cup {"backend", "other", None}]
  /\ running \in [Controllers -> BOOLEAN]
  /\ thread \in [Controllers -> {"none", "cycling", "ended"}]
  /\ master \in [Controllers -> Masters \cup {None}]
  /\ active \in [Controllers -> Masters \cup {None}] /\ terminated \in BOOLEAN
  /\ lost \subseteq Masters /\ native \in BOOLEAN /\ cached \in Masters \cup {None}
  /\ \A c \in Controllers : running[c] => active[c] \in Masters

(* A master held by a controller is the one its stop() will release, and one   *)
(* the backend holds is the one it keeps: none is held for ever                *)
(* (EcatClient.cpp:344, "Stop the RT stability test and release the IgH         *)
(* master."), but the masters that an RT test whose loop had ended by itself    *)
(* forgot when it was started again.                                            *)
HeldIsReleasable ==
  \A m \in Masters :
    /\ \A c \in Controllers : owner[m] = c => master[c] = m \/ (c = "rtTest" /\ m \in lost)
    /\ owner[m] = "backend" => cached = m

(* A cycle thread drives a master reserved for its controller and for nobody   *)
(* else, and only one it was started on.                                       *)
CyclesOwnMaster ==
  \A c \in Controllers : thread[c] = "cycling" => /\ master[c] # None /\ owner[master[c]] = c
                                                  /\ active[c] = master[c]

(* What running() reports is true, and so is the success of a start that finds *)
(* it TRUE: the cycle thread is there (FreeRunController.cpp:43, "then spin up *)
(* the real-time cycle thread").                                               *)
RunningIsCycling == \A c \in Controllers : running[c] => thread[c] = "cycling"

(* A daemon that runs no session leaves the masters to others: a start fails   *)
(* for another program only.                                                   *)
IdleIsFree == (\A c \in Controllers : ~running[c]) => \A m \in Masters : owner[m] \in {None, "other"}

(* No start assigns thread_ while it is joinable, which would end the daemon   *)
(* by std::terminate (FreeRunController::cleanup joins it for that reason),     *)
(* but one that follows, with or without failed ones in between, an RT test     *)
(* that ended by itself and was not stopped.                                    *)
NeverTerminates == terminated => \E m \in lost : owner[m] = "rtTest"

(* What a controller holds its stop() releases, without exception: "Stop the RT *)
(* stability test and release the IgH master." (EcatClient.cpp:344).  Broken by *)
(* an RT test that ended by itself and is started again before it is stopped.   *)
NothingIsLost == \A m \in Masters, c \in Controllers : owner[m] = c => master[c] = m
=============================================================================
