------------------------------ MODULE ShmSession ------------------------------
(****************************************************************************)
(* The life of the shared-memory object /nekoecat_proc_0 over the Free Run  *)
(* sessions of the daemon (FreeRunController: initSharedMemory, stop,       *)
(* cleanupSharedMemory) and of a client's mapping of it                     *)
(* (nekoecat_client_attach, get_state).  An object outlives its name as     *)
(* long as it is mapped; the name outlives a daemon that is killed.         *)
(****************************************************************************)
EXTENDS Integers, FiniteSets

CONSTANTS
  SmallLayouts, LargeLayouts, \* PDO layouts, by the size of their process data
  None,
  MaxObjects,   \* bound: objects created
  MaxCrashes,   \* bound: kills of the daemon
  ReAttach      \* the client attaches again without disconnecting first

Layouts == SmallLayouts \cup LargeLayouts

ASSUME SessionAssumption ==
  /\ SmallLayouts \cap LargeLayouts = {} /\ None \notin Layouts
  /\ MaxObjects \in Nat /\ MaxCrashes \in Nat /\ ReAttach \in BOOLEAN

Size(l) == IF l \in SmallLayouts THEN 1 ELSE 2
Objects == 1..MaxObjects
NoObject == 0

VARIABLES
  up, freeRunning, \* the daemon process; running_
  phase,       \* of its main thread: "idle", "starting", "stopping"
  layout,      \* registered PDO layout, or None
  mapped,      \* the object the daemon maps
  name,        \* the object the name leads to
  created, crashes, \* bounds
  length,      \* of each object: its data size as a file
  headers,     \* of each object: data_size, and whether version > 0 and RUNNING
  image,       \* the layout the published buffer of each object follows
  fetched,     \* the client: layout it has fetched for an attach, or None
  attached, info, object, \* attached, its layout, and the object it maps
  valid        \* hdr and data point into a mapping

daemon == <<up, freeRunning, phase, layout, mapped>>
objects == <<length, headers, image>>
client == <<fetched, attached, info, object, valid>>
sessionVars == <<daemon, name, created, crashes, objects, client>>

FreshHeader == [dataSize |-> 0, published |-> FALSE, running |-> FALSE]

SessionInit ==
  /\ up = TRUE /\ freeRunning = FALSE /\ phase = "idle" /\ layout = None
  /\ mapped = NoObject /\ name = NoObject /\ created = 0 /\ crashes = 0
  /\ length = [o \in Objects |-> 0] /\ headers = [o \in Objects |-> FreshHeader]
  /\ image = [o \in Objects |-> None]
  /\ fetched = None /\ attached = FALSE /\ info = None /\ object = NoObject /\ valid = FALSE

OpenUnnamed(l) == \* mutant: a new object is made, a name left behind is not moved to it
  /\ up /\ ~freeRunning /\ phase = "idle"
  /\ created < MaxObjects /\ created' = created + 1 /\ mapped' = created'
  /\ name' = (IF name = NoObject THEN mapped' ELSE name)
  /\ length' = [length EXCEPT ![mapped'] = Size(l)]
  /\ layout' = l /\ phase' = "starting"
  /\ UNCHANGED <<up, freeRunning, crashes, headers, image, client>>

(* shm_open(O_CREAT) and ftruncate: an object left under the name is reused. *)
OpenShm(l) ==
  /\ up /\ ~freeRunning /\ phase = "idle"
  /\ IF name = NoObject
       THEN created < MaxObjects /\ created' = created + 1 /\ mapped' = created'
       ELSE mapped' = name /\ UNCHANGED created
  /\ name' = mapped' /\ length' = [length EXCEPT ![mapped'] = Size(l)]
  /\ layout' = l /\ phase' = "starting"
  /\ UNCHANGED <<up, freeRunning, crashes, headers, image, client>>

(* ftruncate or mmap fails: the object loses its name, a new one is gone.      *)
OpenFails(l) ==
  /\ up /\ ~freeRunning /\ phase = "idle" /\ name # NoObject
  /\ name' = NoObject
  /\ \/ length' = [length EXCEPT ![name] = Size(l)]
     \/ UNCHANGED length
  /\ UNCHANGED <<daemon, created, crashes, headers, image, client>>

(* The header is initialised, and the cycle thread is started. *)
InitHeader ==
  /\ up /\ phase = "starting"
  /\ headers' = [headers EXCEPT ![mapped] = [FreshHeader EXCEPT !.dataSize = Size(layout)]]
  /\ freeRunning' = TRUE /\ phase' = "idle"
  /\ UNCHANGED <<up, layout, mapped, name, created, crashes, length, image, client>>

(* mirrorToShm. *)
Publish ==
  /\ up /\ freeRunning
  /\ image' = [image EXCEPT ![mapped] = layout]
  /\ headers' = [headers EXCEPT ![mapped].published = TRUE, ![mapped].running = TRUE]
  /\ UNCHANGED <<daemon, name, created, crashes, length, client>>

(* stop(): the cycle thread is joined ... *)
StopSession ==
  /\ up /\ freeRunning /\ phase = "idle"
  /\ freeRunning' = FALSE /\ phase' = "stopping"
  /\ UNCHANGED <<up, layout, mapped, name, created, crashes, objects, client>>

StopKeepsFlag == \* mutant: RUNNING is left set
  /\ up /\ phase = "stopping"
  /\ headers' = [headers EXCEPT ![mapped].published = TRUE]
  /\ mapped' = NoObject /\ name' = NoObject /\ layout' = None /\ phase' = "idle"
  /\ UNCHANGED <<up, freeRunning, created, crashes, length, image, client>>

(* ... RUNNING is cleared, version bumped, and the object unmapped and unlinked. *)
StopPublish ==
  /\ up /\ phase = "stopping"
  /\ headers' = [headers EXCEPT ![mapped].published = TRUE, ![mapped].running = FALSE]
  /\ mapped' = NoObject /\ name' = NoObject /\ layout' = None /\ phase' = "idle"
  /\ UNCHANGED <<up, freeRunning, created, crashes, length, image, client>>

Crash ==
  /\ up /\ crashes < MaxCrashes /\ crashes' = crashes + 1
  /\ up' = FALSE /\ freeRunning' = FALSE /\ phase' = "idle"
  /\ layout' = None /\ mapped' = NoObject
  /\ UNCHANGED <<name, created, objects, client>>

Restart ==
  /\ ~up /\ up' = TRUE
  /\ UNCHANGED <<freeRunning, phase, layout, mapped, name, created, crashes, objects, client>>

(* nekoecat_client_attach: the layout is fetched by RPC, which the daemon      *)
(* serves between two handlers; a daemon with no layout has nothing to give.  *)
Fetch ==
  /\ up /\ phase = "idle" /\ layout # None
  /\ fetched = None /\ (attached => ReAttach)
  /\ fetched' = layout
  /\ UNCHANGED <<daemon, name, created, crashes, objects, attached, info, object, valid>>

AttachUnchecked == \* mutant: data_size is not compared
  /\ fetched # None /\ fetched' = None
  /\ IF name # NoObject
       THEN attached' = TRUE /\ info' = fetched /\ object' = name /\ valid' = TRUE
       ELSE UNCHANGED <<attached, info, object, valid>>
  /\ UNCHANGED <<daemon, name, created, crashes, objects>>

(* ... then the object is mapped and its data_size compared.  A refusal unmaps *)
(* it again and leaves attached as it was.                                     *)
Attach ==
  /\ fetched # None /\ fetched' = None
  /\ IF name = NoObject
       THEN UNCHANGED <<attached, info, object, valid>>
       ELSE IF headers[name].dataSize = Size(fetched)
         THEN attached' = TRUE /\ info' = fetched /\ object' = name /\ valid' = TRUE
         ELSE valid' = FALSE /\ UNCHANGED <<attached, info, object>>
  /\ UNCHANGED <<daemon, name, created, crashes, objects>>

disconnect ==
  /\ attached /\ attached' = FALSE /\ info' = None /\ object' = NoObject /\ valid' = FALSE
  /\ UNCHANGED <<daemon, name, created, crashes, objects, fetched>>

SessionNext ==
  \/ \E l \in Layouts : OpenShm(l) \/ OpenFails(l)
  \/ InitHeader \/ Publish \/ StopSession \/ StopPublish \/ Crash \/ Restart
  \/ Fetch \/ Attach \/ disconnect

SessionSpec == SessionInit /\ [][SessionNext]_sessionVars

-----------------------------------------------------------------------------
(* Properties. *)

SessionTypeOK ==
  /\ up \in BOOLEAN /\ freeRunning \in BOOLEAN /\ phase \in {"idle", "starting", "stopping"}
  /\ layout \in Layouts \cup {None} /\ {mapped, name, object} \subseteq Objects \cup {NoObject}
  /\ created \in 0..MaxObjects /\ crashes \in 0..MaxCrashes
  /\ length \in [Objects -> 0..2] /\ image \in [Objects -> Layouts \cup {None}]
  /\ headers \in [Objects -> [dataSize : 0..2, published : BOOLEAN, running : BOOLEAN]]
  /\ fetched \in Layouts \cup {None} /\ info \in Layouts \cup {None}
  /\ attached \in BOOLEAN /\ valid \in BOOLEAN

(* nekoecat_client_get_state on a mapping that is there. *)
SeesRunning == attached /\ valid /\ headers[object].published /\ headers[object].running

(* A client that sees RUNNING reads buffers that follow the layout it looks    *)
(* its offsets up in (nekoecat_client.c:338, "refuse rather than read garbage"; *)
(* :361, "surface ERROR rather than letting the caller read garbage").         *)
LayoutAgrees == SeesRunning => image[object] = info

(* A client that sees RUNNING is served by the session that is going on; once  *)
(* that session is over it sees DATA_STALE (nekoecat_client.c:641).            *)
RunningIsLive == SeesRunning => up /\ mapped = object /\ (freeRunning \/ phase = "stopping")

(* A mapping never reaches past the end of its object (nekoecat_client.c:313,  *)
(* "mapping past EOF would SIGBUS on first access").                           *)
MappingFits == attached /\ valid => Size(info) <= length[object]

(* The same three as long as every session was ended by stop(), which clears   *)
(* RUNNING and unlinks the object before another can begin.                    *)
LayoutAgreesAfterStops == crashes = 0 => LayoutAgrees
RunningIsLiveAfterStops == crashes = 0 => RunningIsLive
MappingFitsAfterStops == crashes = 0 => MappingFits

(* A session is reached through the name, also when a killed daemon left the   *)
(* name behind: a client that attaches maps the object that is written.        *)
NameLeadsToSession == mapped # NoObject => name = mapped

(* An attached client has a mapping to read from, also after an attach that    *)
(* was refused (nekoecat_client.c:338).                                        *)
AttachedIsMapped == attached => valid
=============================================================================
