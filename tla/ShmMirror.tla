------------------------------ MODULE ShmMirror ------------------------------
(****************************************************************************)
(* The shared-memory data plane: one FreeRun session, i.e. one shm object   *)
(* between FreeRunController::start and ::stop.  The cycle thread mirrors   *)
(* the EtherCAT domain image into two buffers (freerun_shm_mirror.cpp);     *)
(* the C clients read and write the active one with no lock                 *)
(* (nekoecat_client.c).  A buffer is a function of words, and every memcpy  *)
(* is a loop that moves one word per step, in any order.                    *)
(*                                                                          *)
(* Input words (TxPDO) hold the number of the cycle whose frame brought     *)
(* them, output words (RxPDO) the number of the client write they come      *)
(* from: the properties tell no other values apart.  An object that a       *)
(* killed daemon left is opened again as it is, but for its header; what    *)
(* its two buffers hold may be any words, of two cycles or of another       *)
(* layout, and lies in the active one until the first cycle is published.   *)
(****************************************************************************)
EXTENDS Naturals, FiniteSets

CONSTANTS
  Readers,        \* client handles that wait and read (read_raw_at)
  Writers,        \* client handles that write (write_raw_at)
  Inputs,         \* words of the process image that belong to TxPDO entries
  Outputs,        \* words that belong to RxPDO entries inside the data area
  OutOfBounds,    \* RxPDO entries that lie outside the data area
  LeftOver,       \* what the buffers hold when the session begins: zeroes in a new
                  \* object, the words of a killed session in one that is reused
  MaxAttempts,    \* attempts of the double read (4 in read_raw_at)
  MaxCycle,       \* bound: cycles the FreeRun loop runs
  MaxWrites,      \* bound: client writes
  OrderedLoads    \* TRUE: the plain loads of the reader's memcpy are done before
                  \* its second load of version; FALSE: they may be done after it
                  \* (an acquire load orders only the accesses that follow it)

ASSUME ShmAssumption ==
  /\ Inputs # {} /\ Inputs \cap Outputs = {}
  /\ IsFiniteSet(OutOfBounds)
  /\ LeftOver \in [0..1 -> [Inputs \cup Outputs -> Nat]]
  /\ MaxAttempts \in Nat \ {0} /\ MaxCycle \in Nat /\ MaxWrites \in Nat
  /\ OrderedLoads \in BOOLEAN

VARIABLES
  domainData,     \* the ecrt process-data image
  shmData,        \* the two buffers of the shm object
  active_buffer, version, status_running, cycle_count, ignored_writes, \* ShmHeader
  wire,           \* outputs of the last frame sent on the bus
  running,        \* FreeRunController::running_
  spc,            \* the RPC thread in FreeRunController::stop
  received,       \* cycles received; names the image of each cycle
  dpc, dtodo, dcur,                      \* cycle thread: place, words left, entry
  rpc, attempt, v1, v2, rb, rtodo, got,  \* read_raw_at of each reader
  target,                            \* wait_next_cycle of each reader
  since,          \* history: image that was published when the read began
  wpc, wb, wtodo, wval,              \* write_raw_at of each writer
  writes          \* client writes begun; names the value of each write

header     == <<active_buffer, version, status_running, cycle_count, ignored_writes>>
bus        == <<domainData, wire, received>>
stopVars   == <<running, spc>>
loopVars   == <<dpc, dtodo, dcur>>
daemonVars == <<stopVars, loopVars>>
readerVars == <<rpc, attempt, v1, v2, rb, rtodo, got, target, since>>
writerVars == <<wpc, wb, wtodo, wval, writes>>
vars == <<header, bus, shmData, daemonVars, readerVars, writerVars>>

Words    == Inputs \cup Outputs
Blank    == [x \in Words |-> 0]
inactive == 1 - active_buffer
NoReads  == [x \in Inputs |-> 0]

(* The image a client finds through active_buffer: that of the cycle last       *)
(* published, or what was left there.                                          *)
Found      == [x \in Inputs |-> LeftOver[0][x]]
ImageOf(k) == IF k = 0 THEN Found ELSE [x \in Inputs |-> k]

Filling   == {"copy", "overlay", "apply", "flip"} \* the image received is on its way
Published == IF dpc \in Filling THEN received - 1 ELSE received

(* initSharedMemory: the header is set, the buffers are left as they are found. *)
Init ==
  /\ domainData = Blank /\ shmData = LeftOver
  /\ active_buffer = 0 /\ version = 0 /\ status_running = FALSE
  /\ cycle_count = 0 /\ ignored_writes = 0
  /\ wire = [x \in Outputs |-> 0] /\ received = 0
  /\ running = TRUE /\ spc = "up" /\ dpc = "sleep" /\ dtodo = {} /\ dcur = (CHOOSE x \in Words : TRUE)
  /\ rpc = [r \in Readers |-> "idle"] /\ attempt = [r \in Readers |-> 0]
  /\ v1 = [r \in Readers |-> 0] /\ v2 = [r \in Readers |-> 0]
  /\ rb = [r \in Readers |-> 0] /\ rtodo = [r \in Readers |-> {}]
  /\ got = [r \in Readers |-> NoReads]
  /\ target = [r \in Readers |-> 0] /\ since = [r \in Readers |-> 0]
  /\ wpc = [w \in Writers |-> "idle"] /\ wb = [w \in Writers |-> 0]
  /\ wtodo = [w \in Writers |-> {}] /\ wval = [w \in Writers |-> 0]
  /\ writes = 0

-----------------------------------------------------------------------------
(* The cycle thread: FreeRunController::loop and mirrorToShm. *)

(* Wake up, ecrt_master_receive and ecrt_domain_process: a fresh input image. *)
Receive ==
  /\ dpc = "sleep" /\ running /\ received < MaxCycle
  /\ received' = received + 1
  /\ domainData' = [x \in Words |-> IF x \in Inputs THEN received + 1 ELSE domainData[x]]
  /\ dpc' = "copy" /\ dtodo' = Words
  /\ UNCHANGED <<header, shmData, wire, stopVars, dcur, readerVars, writerVars>>

(* memcpy of the whole domain into the inactive buffer. *)
CopyWord(x) ==
  /\ dpc = "copy" /\ x \in dtodo
  /\ shmData' = [shmData EXCEPT ![inactive][x] = domainData[x]]
  /\ dtodo' = dtodo \ {x}
  /\ UNCHANGED <<header, bus, stopVars, dpc, dcur, readerVars, writerVars>>

BeginOverlay ==
  /\ dpc = "copy" /\ dtodo = {}
  /\ dpc' = "overlay" /\ dtodo' = Outputs
  /\ UNCHANGED <<header, bus, shmData, stopVars, dcur, readerVars, writerVars>>

OverlayShmMissed(x) == \* mutant: the client's output is only applied to the domain
  /\ dpc = "overlay" /\ x \in dtodo
  /\ dcur' = x /\ dpc' = "apply"
  /\ UNCHANGED <<header, bus, shmData, stopVars, dtodo, readerVars, writerVars>>

(* An RxPDO entry is copied twice from the active buffer, by two memcpys: *)
(* into the inactive buffer, then into the domain.                        *)
OverlayShm(x) ==
  /\ dpc = "overlay" /\ x \in dtodo
  /\ shmData' = [shmData EXCEPT ![inactive][x] = shmData[active_buffer][x]]
  /\ dcur' = x /\ dpc' = "apply"
  /\ UNCHANGED <<header, bus, stopVars, dtodo, readerVars, writerVars>>

OverlayDomainMissed == \* mutant: the client's output is not applied to the domain
  /\ dpc = "apply"
  /\ dtodo' = dtodo \ {dcur} /\ dpc' = "overlay"
  /\ UNCHANGED <<header, domainData, shmData, wire, received, stopVars, dcur, readerVars,
                 writerVars>>

OverlayDomain ==
  /\ dpc = "apply"
  /\ domainData' = [domainData EXCEPT ![dcur] = shmData[active_buffer][dcur]]
  /\ dtodo' = dtodo \ {dcur} /\ dpc' = "overlay"
  /\ UNCHANGED <<header, shmData, wire, received, stopVars, dcur, readerVars, writerVars>>

(* The rejected entries are counted, then the relaxed header fields. *)
StampHeader ==
  /\ dpc = "overlay" /\ dtodo = {}
  /\ ignored_writes' = ignored_writes + Cardinality(OutOfBounds)
  /\ status_running' = TRUE
  /\ cycle_count' = cycle_count + 1
  /\ dpc' = "flip"
  /\ UNCHANGED <<active_buffer, version, bus, shmData, stopVars, dtodo, dcur,
                 readerVars, writerVars>>

FlipNoWrap == \* mutant: the index is advanced and not wrapped to 0..1
  /\ dpc = "flip"
  /\ active_buffer' = active_buffer + 1
  /\ dpc' = "bump"
  /\ UNCHANGED <<version, status_running, cycle_count, ignored_writes, bus, shmData,
                 stopVars, dtodo, dcur, readerVars, writerVars>>

Flip ==
  /\ dpc = "flip"
  /\ active_buffer' = inactive
  /\ dpc' = "bump"
  /\ UNCHANGED <<version, status_running, cycle_count, ignored_writes, bus, shmData,
                 stopVars, dtodo, dcur, readerVars, writerVars>>

Bump ==
  /\ dpc = "bump"
  /\ version' = version + 1
  /\ dpc' = "send"
  /\ UNCHANGED <<active_buffer, status_running, cycle_count, ignored_writes, bus, shmData,
                 stopVars, dtodo, dcur, readerVars, writerVars>>

(* ecrt_domain_queue and ecrt_master_send. *)
Send ==
  /\ dpc = "send"
  /\ wire' = [x \in Outputs |-> domainData[x]]
  /\ dpc' = "sleep"
  /\ UNCHANGED <<header, domainData, received, shmData, stopVars, dtodo, dcur,
                 readerVars, writerVars>>

ExitLoop ==
  /\ dpc = "sleep" /\ ~running
  /\ dpc' = "exited"
  /\ UNCHANGED <<header, bus, shmData, stopVars, dtodo, dcur, readerVars, writerVars>>

(* FreeRunController::stop, on the RPC thread: clear running_, join the loop, *)
(* clear RUNNING, bump version once more.                                     *)
StopRequest ==
  /\ spc = "up"
  /\ running' = FALSE /\ spc' = "join"
  /\ UNCHANGED <<header, bus, shmData, loopVars, readerVars, writerVars>>

ClearWithoutJoin == \* mutant: stop() does not join the loop before it clears RUNNING
  /\ spc = "join"
  /\ status_running' = FALSE /\ spc' = "cleared"
  /\ UNCHANGED <<active_buffer, version, cycle_count, ignored_writes, bus, shmData,
                 running, loopVars, readerVars, writerVars>>

ClearRunning ==
  /\ spc = "join" /\ dpc = "exited"
  /\ status_running' = FALSE /\ spc' = "cleared"
  /\ UNCHANGED <<active_buffer, version, cycle_count, ignored_writes, bus, shmData,
                 running, loopVars, readerVars, writerVars>>

FinalBump ==
  /\ spc = "cleared"
  /\ version' = version + 1 /\ spc' = "stopped"
  /\ UNCHANGED <<active_buffer, status_running, cycle_count, ignored_writes, bus, shmData,
                 running, loopVars, readerVars, writerVars>>

Cycle ==
  \/ Receive \/ ExitLoop \/ BeginOverlay \/ OverlayDomain \/ StampHeader \/ Flip \/ Bump \/ Send
  \/ \E x \in Words : CopyWord(x) \/ OverlayShm(x)

Stopping == ClearRunning \/ FinalBump

-----------------------------------------------------------------------------
(* A reader: nekoecat_client_read_raw_at and _wait_next_cycle. *)

Others == <<header, bus, shmData, daemonVars, writerVars>>

BeginRead(r) ==
  /\ rpc[r] = "idle"
  /\ rpc' = [rpc EXCEPT ![r] = "version"]
  /\ attempt' = [attempt EXCEPT ![r] = 1]
  /\ since' = [since EXCEPT ![r] = Published]
  /\ UNCHANGED <<Others, v1, v2, rb, rtodo, got, target>>

LoadVersion(r) ==
  /\ rpc[r] = "version"
  /\ v1' = [v1 EXCEPT ![r] = version]
  /\ rpc' = [rpc EXCEPT ![r] = "buffer"]
  /\ UNCHANGED <<Others, attempt, v2, rb, rtodo, got, target, since>>

LoadActive(r) ==
  /\ rpc[r] = "buffer"
  /\ rb' = [rb EXCEPT ![r] = active_buffer]
  /\ rtodo' = [rtodo EXCEPT ![r] = Inputs]
  /\ rpc' = [rpc EXCEPT ![r] = "data"]
  /\ UNCHANGED <<Others, attempt, v1, v2, got, target, since>>

LoadWord(r, x) ==
  /\ rpc[r] \in {"data", "compare"} /\ x \in rtodo[r]
  /\ got' = [got EXCEPT ![r][x] = shmData[rb[r]][x]]
  /\ rtodo' = [rtodo EXCEPT ![r] = @ \ {x}]
  /\ UNCHANGED <<Others, rpc, attempt, v1, v2, rb, target, since>>

ReloadVersion(r) ==
  /\ rpc[r] = "data" /\ (OrderedLoads => rtodo[r] = {})
  /\ v2' = [v2 EXCEPT ![r] = version]
  /\ rpc' = [rpc EXCEPT ![r] = "compare"]
  /\ UNCHANGED <<Others, attempt, v1, rb, rtodo, got, target, since>>

AcceptUnchecked(r) == \* mutant: version is not compared after the copy
  /\ rpc[r] = "compare" /\ rtodo[r] = {}
  /\ rpc' = [rpc EXCEPT ![r] = "ok"]
  /\ UNCHANGED <<Others, attempt, v1, v2, rb, rtodo, got, target, since>>

Accept(r) ==
  /\ rpc[r] = "compare" /\ rtodo[r] = {} /\ v1[r] = v2[r]
  /\ rpc' = [rpc EXCEPT ![r] = "ok"]
  /\ UNCHANGED <<Others, attempt, v1, v2, rb, rtodo, got, target, since>>

Retry(r) ==
  /\ rpc[r] = "compare" /\ rtodo[r] = {} /\ v1[r] # v2[r] /\ attempt[r] < MaxAttempts
  /\ attempt' = [attempt EXCEPT ![r] = @ + 1]
  /\ rpc' = [rpc EXCEPT ![r] = "version"]
  /\ UNCHANGED <<Others, v1, v2, rb, rtodo, got, target, since>>

GiveUp(r) ==
  /\ rpc[r] = "compare" /\ rtodo[r] = {} /\ v1[r] # v2[r] /\ attempt[r] = MaxAttempts
  /\ rpc' = [rpc EXCEPT ![r] = "failed"]
  /\ UNCHANGED <<Others, attempt, v1, v2, rb, rtodo, got, target, since>>

EndRead(r) ==
  /\ rpc[r] \in {"ok", "failed"}
  /\ rpc' = [rpc EXCEPT ![r] = "idle"]
  /\ UNCHANGED <<Others, attempt, v1, v2, rb, rtodo, got, target, since>>

BeginWait(r) ==
  /\ rpc[r] = "idle"
  /\ target' = [target EXCEPT ![r] = version]
  /\ rpc' = [rpc EXCEPT ![r] = "wait"]
  /\ UNCHANGED <<Others, attempt, v1, v2, rb, rtodo, got, since>>

WaitTrue(r) ==
  /\ rpc[r] = "wait" /\ version > target[r]
  /\ rpc' = [rpc EXCEPT ![r] = "woken"]
  /\ UNCHANGED <<Others, attempt, v1, v2, rb, rtodo, got, target, since>>

WaitTimeoutRearmed(r) == \* mutant: a poll past the deadline starts the wait again
  /\ rpc[r] = "wait"
  /\ target' = [target EXCEPT ![r] = version]
  /\ UNCHANGED <<Others, rpc, attempt, v1, v2, rb, rtodo, got, since>>

WaitTimeout(r) ==
  /\ rpc[r] = "wait"
  /\ rpc' = [rpc EXCEPT ![r] = "idle"]
  /\ UNCHANGED <<Others, attempt, v1, v2, rb, rtodo, got, target, since>>

(* The client reads as soon as wait_next_cycle returned true. *)
ReadWoken(r) ==
  /\ rpc[r] = "woken"
  /\ rpc' = [rpc EXCEPT ![r] = "version"]
  /\ attempt' = [attempt EXCEPT ![r] = 1]
  /\ since' = [since EXCEPT ![r] = Published]
  /\ UNCHANGED <<Others, v1, v2, rb, rtodo, got, target>>

ReadStep(r) ==
  \/ LoadVersion(r) \/ LoadActive(r) \/ ReloadVersion(r)
  \/ Accept(r) \/ Retry(r) \/ GiveUp(r) \/ EndRead(r)
  \/ \E x \in Inputs : LoadWord(r, x)

ReaderStep(r) ==
  \/ BeginRead(r) \/ ReadStep(r)
  \/ BeginWait(r) \/ WaitTrue(r) \/ WaitTimeout(r) \/ ReadWoken(r)

-----------------------------------------------------------------------------
(* A writer: nekoecat_client_write_raw_at, a memcpy into the active buffer. *)

BeginWrite(w) ==
  /\ wpc[w] = "idle" /\ writes < MaxWrites
  /\ \E ws \in SUBSET Outputs \ {{}} : wtodo' = [wtodo EXCEPT ![w] = ws]
  /\ wb' = [wb EXCEPT ![w] = active_buffer]
  /\ writes' = writes + 1 /\ wval' = [wval EXCEPT ![w] = writes + 1]
  /\ wpc' = [wpc EXCEPT ![w] = "put"]
  /\ UNCHANGED <<header, bus, shmData, daemonVars, readerVars>>

PutWord(w, x) ==
  /\ wpc[w] = "put" /\ x \in wtodo[w]
  /\ shmData' = [shmData EXCEPT ![wb[w]][x] = wval[w]]
  /\ wtodo' = [wtodo EXCEPT ![w] = @ \ {x}]
  /\ UNCHANGED <<header, bus, daemonVars, readerVars, wpc, wb, wval, writes>>

EndWrite(w) ==
  /\ wpc[w] = "put" /\ wtodo[w] = {}
  /\ wpc' = [wpc EXCEPT ![w] = "idle"]
  /\ UNCHANGED <<header, bus, shmData, daemonVars, readerVars, wb, wtodo, wval, writes>>

WriterStep(w) == BeginWrite(w) \/ EndWrite(w) \/ \E x \in Outputs : PutWord(w, x)

-----------------------------------------------------------------------------
Next ==
  \/ Cycle \/ StopRequest \/ Stopping
  \/ \E r \in Readers : ReaderStep(r)
  \/ \E w \in Writers : WriterStep(w)

Spec == Init /\ [][Next]_vars

(* The loop is a SCHED_FIFO thread, stop() joins it and runs to its end, and *)
(* a call of the client library runs to its return.  Nothing makes a client  *)
(* begin a call or an operator stop FreeRun.                                 *)
FairSpec ==
  /\ Spec /\ WF_vars(Cycle) /\ WF_vars(Stopping)
  /\ \A r \in Readers : WF_vars(ReadStep(r) \/ WaitTrue(r) \/ WaitTimeout(r))

-----------------------------------------------------------------------------
ReadPlaces == {"version", "buffer", "data", "compare"}

(* The mirror and the double read implement a register of whole images. *)
Snapshot == INSTANCE ShmSnapshot WITH
  First  <- Found,
  image  <- Published,
  rstate <- [r \in Readers |-> IF rpc[r] \in ReadPlaces THEN "reading"
                               ELSE IF rpc[r] \in {"ok", "failed"} THEN rpc[r] ELSE "idle"],
  since  <- since,
  result <- [r \in Readers |-> IF rpc[r] = "ok" THEN got[r] ELSE NoReads]

-----------------------------------------------------------------------------
(* Properties. *)

TypeOK ==
  /\ domainData \in [Words -> Nat] /\ shmData \in [0..1 -> [Words -> Nat]]
  /\ active_buffer \in 0..1 /\ version \in Nat /\ status_running \in BOOLEAN
  /\ cycle_count \in Nat /\ ignored_writes \in Nat
  /\ wire \in [Outputs -> Nat] /\ received \in Nat /\ running \in BOOLEAN
  /\ dpc \in {"sleep", "copy", "overlay", "apply", "flip", "bump", "send", "exited"}
  /\ spc \in {"up", "join", "cleared", "stopped"}
  /\ dtodo \in SUBSET Words /\ dcur \in Words
  /\ (dpc \in Filling => received >= 1)
  /\ (dpc \in {"overlay", "apply"} => dtodo \subseteq Outputs)
  /\ (dpc = "apply" => dcur \in Outputs)
  /\ rpc \in [Readers -> ReadPlaces \cup {"idle", "ok", "failed", "wait", "woken"}]
  /\ attempt \in [Readers -> 0..MaxAttempts]
  /\ v1 \in [Readers -> Nat] /\ v2 \in [Readers -> Nat] /\ rb \in [Readers -> 0..1]
  /\ rtodo \in [Readers -> SUBSET Inputs] /\ got \in [Readers -> [Inputs -> Nat]]
  /\ target \in [Readers -> Nat] /\ since \in [Readers -> Nat]
  /\ wpc \in [Writers -> {"idle", "put"}] /\ wb \in [Writers -> 0..1]
  /\ wtodo \in [Writers -> SUBSET Outputs] /\ wval \in [Writers -> Nat] /\ writes \in Nat

(* A read that read_raw_at reports as successful returns the words of one     *)
(* cycle, never words of two ("no torn view", nekoecat_client.c:456), but for  *)
(* one that began before the first was published, and may find what was left.  *)
NoTornRead ==
  \A r \in Readers : rpc[r] = "ok" =>
    \/ \A x, y \in Inputs : got[r][x] = got[r][y]
    \/ since[r] = 0 /\ got[r] = Found

(* It returns an image that was published at some moment of the call: not one *)
(* older than the call's start, so a later read never goes back in time.      *)
FreshRead ==
  \A r \in Readers : rpc[r] = "ok" => \E k \in since[r]..Published : got[r] = ImageOf(k)

(* Once stop() has published its final version, no client that looks at the   *)
(* header can take the session for a running one (FreeRunController.cpp:416). *)
StoppedIsVisible == spc = "stopped" => ~status_running

(* While FreeRun runs and after a read that succeeded, a wait_next_cycle that  *)
(* returns true announces an image this client has not read yet               *)
(* (nekoecat_client.h:89, "returns true if new data is available").           *)
WaitBringsNewData ==
  \A r \in Readers : rpc[r] = "woken" /\ running /\ v1[r] = v2[r] =>
    \A k \in 0..Published : got[r] = ImageOf(k) => k < Published

(* Every behaviour of the mirror and its clients is one of a register whose    *)
(* reads return one whole image, published at some moment of the call.        *)
SnapshotSpec == Snapshot!Spec

(* Every read_raw_at and every wait returns. *)
ReadReturns ==
  \A r \in Readers : rpc[r] \in ReadPlaces \cup {"wait"} ~> rpc[r] \in {"idle", "ok", "failed", "woken"}

(* A stop request ends with the session stopped, whatever the clients do. *)
StopCompletes == ~running ~> spc = "stopped"
=============================================================================
