----------------------------- MODULE OnlineView -----------------------------
(****************************************************************************)
(* What the Studio main window shows of the bus: the scanned slaves, the    *)
(* tree item that is selected, the dictionary loaded for it, and what a     *)
(* confirmation dialog asks about.  Answers are matched to the selection by *)
(* position alone, and a request that fails is answered with an empty list  *)
(* or an empty text, which is taken like any other.                         *)
(*                                                                          *)
(* Simplifications: the four texts of a slave (info, PDO, SDO, XML) are     *)
(* loaded, answered and cleared alike and are one "dictionary"; positions   *)
(* count from 1, 0 stands for the -1 of the master item; a slave stands for *)
(* its name, state and flags; Free Run is off (in Free Run the window does  *)
(* not scan); requests that only refresh labels are left out.               *)
(****************************************************************************)
EXTENDS Integers, Sequences

CONSTANTS
  Masters, Slaves,
  FirstMaster, \* the active master of the settings at the start
  Buses,       \* what a scan of a master may find: sequences of slaves
  Projects,    \* project files: [master, slaves, position, text]
  None,        \* nothing loaded, no dialog, no answer yet
  Blank,       \* the text of a failed request
  MaxFlight,   \* bound: requests on their way
  MaxOps,      \* bound: operations of the user
  MaxFailures, \* bound: requests that fail or are swept
  MaxLosses,   \* bound: losses of the connection
  MaxChanges   \* bound: changes of a bus

ASSUME ViewAssumption ==
  /\ FirstMaster \in Masters /\ Buses \subseteq Seq(Slaves) /\ Buses # {}
  /\ Projects \subseteq [master : Masters, slaves : Seq(Slaves), position : Nat, text : Slaves \cup {Blank}]
  /\ None \notin Slaves /\ Blank \notin Slaves /\ None # Blank
  /\ {MaxFlight, MaxOps, MaxFailures, MaxLosses, MaxChanges} \subseteq Nat

VARIABLES
  link,     \* "up" or "down"
  flight,   \* requests on their way, in order, with the answers of those the daemon performed
  failing,  \* requests given up whose handlers are still to be called
  bus,      \* what is connected to each master
  master,   \* settings_.activeMaster and masterTarget_
  slaves,   \* slaves_
  tree,     \* the topology tree has items
  current,  \* its current item: -1 none, 0 the master, or a position
  label,    \* selectedLabel_
  loaded,   \* loaded...Position_ and last...Text_
  online,   \* history: what is loaded was asked for when the tree last moved
  dialog,   \* the slave a confirmation dialog names
  strayed,  \* history: a write was sent elsewhere than was confirmed
  ops, failures, losses, changes \* bounds

net == <<link, flight, failing>>
view == <<slaves, tree, current, label, loaded, online>>
prompt == <<dialog, strayed>>
bounds == <<ops, failures, losses, changes>>
vars == <<net, bus, master, view, prompt, bounds>>

Init == \* the window opens without a connection
  /\ link = "down" /\ flight = <<>> /\ failing = <<>>
  /\ bus \in [Masters -> Buses] /\ master = FirstMaster
  /\ slaves = <<>> /\ tree = FALSE /\ current = -1 /\ label = 0 /\ loaded = None /\ online = TRUE
  /\ dialog = None /\ strayed = FALSE
  /\ ops = 0 /\ failures = 0 /\ losses = 0 /\ changes = 0

--------------------------------------------------------------------------
(* fresh: asked since the list shown last changed (history).                 *)
Scan == [op |-> "scan", master |-> master, position |-> 0, fresh |-> TRUE, answer |-> None]
Sdos(p) == [op |-> "sdos", master |-> master, position |-> p, fresh |-> TRUE, answer |-> None]

Idle == failing = <<>> \* the event loop runs; a sweep or a loss calls its handlers without it
Starts == Idle /\ dialog = None /\ ops < MaxOps /\ ops' = ops + 1
Items == IF tree THEN 0..Len(slaves) ELSE {}
Stale(q) == [q EXCEPT !.fresh = FALSE]

(* The dictionary of p is asked for after the requests in before; without a   *)
(* connection the request fails at once, and its text is taken if p is shown. *)
setSelectedSlave(p, before, now) ==
  /\ label' = p
  /\ IF p > 0 /\ link = "up"
     THEN flight' = Append(before, Sdos(p)) /\ loaded' = None
     ELSE /\ flight' = before
          /\ loaded' = IF p > 0 /\ p = now
                       THEN [position |-> p, text |-> Blank, master |-> master, fresh |-> TRUE] ELSE None

SelectInTree(p) == \* currentItemChanged
  /\ Starts /\ p \in Items /\ p # current /\ Len(flight) < MaxFlight
  /\ current' = p /\ online' = TRUE /\ setSelectedSlave(p, flight, p)
  /\ UNCHANGED <<link, failing, bus, master, slaves, tree, prompt, failures, losses, changes>>

JumpTo(p) == \* a row of another table: the tree does not follow
  /\ Starts /\ p \in 1..Len(slaves) /\ Len(flight) < MaxFlight
  /\ setSelectedSlave(p, flight, current)
  /\ UNCHANGED <<link, failing, bus, master, slaves, tree, current, online, prompt, failures, losses, changes>>

selectSlaveForLocalEvidence(p) == \* the tree moves, its signal is blocked: nothing is loaded
  /\ Starts /\ p \in Items \ {0}
  /\ current' = p /\ label' = p /\ online' = (online /\ p = current)
  /\ UNCHANGED <<net, bus, master, slaves, tree, loaded, prompt, failures, losses, changes>>

--------------------------------------------------------------------------
(* The item selected in a new list: the one at the same position, or the first. *)
Target(now) == IF current \in DOMAIN now THEN current ELSE 1

clearOnlineViews ==
  /\ slaves' = <<>> /\ tree' = FALSE /\ current' = -1 /\ label' = 0 /\ loaded' = None /\ online' = TRUE

StaleFlight == [i \in DOMAIN flight |-> Stale(flight[i])]

setActiveMaster(m) == \* with a refresh
  /\ Starts /\ m # master /\ Len(flight) < MaxFlight
  /\ master' = m /\ clearOnlineViews
  /\ flight' = IF link = "up" THEN Append(StaleFlight, [Scan EXCEPT !.master = m]) ELSE StaleFlight
  /\ UNCHANGED <<link, failing, bus, prompt, failures, losses, changes>>

showSettings(m) == \* the settings dialog: the same, without one
  /\ Starts /\ m # master
  /\ master' = m /\ clearOnlineViews /\ flight' = StaleFlight
  /\ UNCHANGED <<link, failing, bus, prompt, failures, losses, changes>>

newProject == \* the same master, nothing shown
  /\ Starts /\ clearOnlineViews /\ flight' = StaleFlight
  /\ UNCHANGED <<link, failing, bus, master, prompt, failures, losses, changes>>

openProject(f) == \* the saved list as if it were scanned, the saved selection, the saved text
  /\ Starts /\ Len(flight) < MaxFlight
  /\ LET same == f.slaves = slaves
         first == IF same THEN current ELSE IF f.slaves = <<>> THEN -1 ELSE Target(f.slaves)
         at == IF f.position \in DOMAIN f.slaves THEN f.position ELSE first
         loads == (IF same \/ first = -1 THEN <<>> ELSE <<first>>) \o (IF at = first THEN <<>> ELSE <<at>>)
         sent == [i \in DOMAIN loads |-> [Sdos(loads[i]) EXCEPT !.master = f.master]]
     IN /\ flight' = IF link = "up" THEN StaleFlight \o sent ELSE flight
        /\ slaves' = f.slaves /\ tree' = (tree \/ ~same) /\ current' = at
        /\ label' = IF loads = <<>> THEN label ELSE at
        /\ online' = (loads # <<>> /\ link = "up")
        /\ loaded' = IF f.text = Blank \/ f.position # at THEN None
                     ELSE [position |-> at, text |-> f.text, master |-> f.master, fresh |-> FALSE]
  /\ master' = f.master
  /\ UNCHANGED <<link, failing, bus, prompt, failures, losses, changes>>

requestRefresh == \* the timer, and after a command; also while a dialog is open
  /\ Idle /\ link = "up" /\ Len(flight) < MaxFlight
  /\ flight' = Append(flight, Scan)
  /\ UNCHANGED <<link, failing, bus, master, view, prompt, bounds>>

--------------------------------------------------------------------------
(* A dialog is modal for the user, not for the timer or for answers.          *)
OpenWrite ==
  /\ Starts /\ current > 0
  /\ dialog' = [position |-> current, slave |-> slaves[current]]
  /\ UNCHANGED <<net, bus, master, view, strayed, failures, losses, changes>>

writeCurrentSdo == \* accepted: selectedPosition() is read again; its frame changes nothing here
  /\ Idle /\ dialog # None /\ dialog' = None
  /\ strayed' = (strayed \/ dialog.position # current \/ dialog.slave # slaves[current])
  /\ UNCHANGED <<net, bus, master, view, bounds>>

Cancel ==
  /\ Idle /\ dialog # None /\ dialog' = None
  /\ UNCHANGED <<net, bus, master, view, strayed, bounds>>

--------------------------------------------------------------------------
(* The daemon performs the first request not yet performed.                   *)
Unanswered == {i \in DOMAIN flight : flight[i].answer = None}
Perform(fails) ==
  \E i \in Unanswered :
    /\ \A j \in Unanswered : i <= j
    /\ LET q == flight[i]
           there == bus[q.master]
           text == IF q.position \in DOMAIN there THEN there[q.position] ELSE Blank
       IN flight' = [flight EXCEPT ![i].answer = IF q.op = "scan" THEN IF fails THEN <<>> ELSE there
                                                 ELSE IF fails THEN Blank ELSE text]
    /\ UNCHANGED <<link, failing, bus, master, view, prompt, ops, losses, changes>>

Dispatch == link = "up" /\ Perform(FALSE) /\ UNCHANGED failures
Refuse == link = "up" /\ Perform(TRUE) /\ failures < MaxFailures /\ failures' = failures + 1

BusChange(m) == \* a slave is plugged, unplugged or changes its state
  /\ changes < MaxChanges /\ changes' = changes + 1
  /\ \E b \in Buses \ {bus[m]} : bus' = [bus EXCEPT ![m] = b]
  /\ UNCHANGED <<net, master, view, prompt, ops, failures, losses>>

--------------------------------------------------------------------------
(* What the window does with an answer; rest is what is still on its way.     *)
UpdateKeepsMissing(now, rest) == \* mutant: slaves that a scan misses are kept
  IF Len(now) <= Len(slaves) THEN flight' = rest /\ UNCHANGED view
  ELSE /\ slaves' = now /\ tree' = TRUE /\ online' = TRUE
       /\ IF now = <<>> THEN flight' = rest /\ current' = -1 /\ UNCHANGED <<label, loaded>>
          ELSE current' = Target(now) /\ setSelectedSlave(Target(now), [i \in DOMAIN rest |-> Stale(rest[i])], Target(now))

UpdateWithoutReload(now, rest) == \* mutant: a position that is still there is not loaded again
  IF now = slaves THEN flight' = rest /\ UNCHANGED view
  ELSE /\ slaves' = now /\ tree' = TRUE /\ online' = TRUE
       /\ IF now = <<>> \/ current \in DOMAIN now
          THEN /\ flight' = [i \in DOMAIN rest |-> Stale(rest[i])]
               /\ current' = IF now = <<>> THEN -1 ELSE current
               /\ loaded' = IF loaded = None THEN None ELSE Stale(loaded)
               /\ UNCHANGED label
          ELSE current' = 1 /\ setSelectedSlave(1, [i \in DOMAIN rest |-> Stale(rest[i])], 1)

updateSlaves(now, rest) == \* the tree is filled anew; the same position is selected, or the first
  IF now = slaves THEN flight' = rest /\ UNCHANGED view
  ELSE /\ slaves' = now /\ tree' = TRUE /\ online' = TRUE
       /\ LET later == [i \in DOMAIN rest |-> Stale(rest[i])]
          IN IF now = <<>>
             THEN flight' = later /\ current' = -1 /\ UNCHANGED <<label, loaded>>
             ELSE current' = Target(now) /\ setSelectedSlave(Target(now), later, Target(now))

ResultOfAny(q, text, rest) == \* mutant: no test of the position
  /\ flight' = rest
  /\ loaded' = [position |-> q.position, text |-> text, master |-> q.master, fresh |-> q.fresh]
  /\ UNCHANGED <<slaves, tree, current, label, online>>

slaveTextResult(q, text, rest) ==
  /\ flight' = rest
  /\ loaded' = IF q.position # current THEN loaded
               ELSE [position |-> q.position, text |-> text, master |-> q.master, fresh |-> q.fresh]
  /\ UNCHANGED <<slaves, tree, current, label, online>>

Handle(q, answer, rest) ==
  \/ q.op = "scan" /\ updateSlaves(answer, rest)
  \/ q.op = "sdos" /\ slaveTextResult(q, answer, rest)

Receive ==
  /\ Idle /\ link = "up" /\ flight # <<>> /\ Head(flight).answer # None
  /\ Handle(Head(flight), Head(flight).answer, Tail(flight))
  /\ UNCHANGED <<link, failing, bus, master, prompt, bounds>>

--------------------------------------------------------------------------
(* A sweep gives up the oldest requests, a loss all of them; their handlers    *)
(* are called in the order of a hash.  The daemon may still perform a request  *)
(* that was swept, and its answer is dropped: all of them only read.           *)
Sweep ==
  /\ Idle /\ link = "up" /\ flight # <<>> /\ failures < MaxFailures /\ failures' = failures + 1
  /\ \E n \in 1..Len(flight) : failing' = SubSeq(flight, 1, n) /\ flight' = SubSeq(flight, n + 1, Len(flight))
  /\ UNCHANGED <<link, bus, master, view, prompt, ops, losses, changes>>

Lose ==
  /\ Idle /\ link = "up" /\ losses < MaxLosses /\ losses' = losses + 1
  /\ link' = "down" /\ failing' = flight /\ flight' = <<>>
  /\ UNCHANGED <<bus, master, view, prompt, ops, failures, changes>>

CallFailed ==
  /\ \E i \in DOMAIN failing :
       /\ failing' = SubSeq(failing, 1, i - 1) \o SubSeq(failing, i + 1, Len(failing))
       /\ Handle(failing[i], IF failing[i].op = "scan" THEN <<>> ELSE Blank, flight)
  /\ UNCHANGED <<link, bus, master, prompt, bounds>>

Connect == \* connected: the views are as they were, and a refresh
  /\ Idle /\ link = "down" /\ link' = "up" /\ flight' = <<Scan>>
  /\ UNCHANGED <<failing, bus, master, view, prompt, bounds>>

--------------------------------------------------------------------------
Next ==
  \/ \E p \in 0..Len(slaves) : SelectInTree(p) \/ JumpTo(p) \/ selectSlaveForLocalEvidence(p)
  \/ \E m \in Masters : setActiveMaster(m) \/ showSettings(m) \/ BusChange(m)
  \/ \E f \in Projects : openProject(f)
  \/ newProject \/ requestRefresh \/ OpenWrite \/ writeCurrentSdo \/ Cancel
  \/ Dispatch \/ Refuse \/ Receive \/ Sweep \/ Lose \/ CallFailed \/ Connect

Spec == Init /\ [][Next]_vars

(* The timer runs while connected, the daemon performs what it is sent and the *)
(* event loop delivers; nobody has to connect, and the user may stop.          *)
FairSpec == Spec /\ WF_vars(requestRefresh) /\ WF_vars(Dispatch) /\ WF_vars(Receive) /\ WF_vars(CallFailed)

--------------------------------------------------------------------------
Requests == [op : {"scan", "sdos"}, master : Masters, position : Nat, fresh : BOOLEAN,
             answer : Seq(Slaves) \cup Slaves \cup {Blank, None}]

(* The type invariant: the item selected is one of the list, and nothing is    *)
(* on its way over a lost connection.                                          *)
TypeOK ==
  /\ link \in {"up", "down"} /\ (link = "down" => flight = <<>>)
  /\ flight \in Seq(Requests) /\ failing \in Seq(Requests)
  /\ bus \in [Masters -> Buses] /\ master \in Masters
  /\ slaves \in Seq(Slaves) /\ tree \in BOOLEAN /\ (slaves # <<>> => tree)
  /\ current \in {-1} \cup Items /\ label \in Nat /\ online \in BOOLEAN
  /\ loaded = None \/ loaded \in [position : Nat \ {0}, text : Slaves \cup {Blank}, master : Masters, fresh : BOOLEAN]
  /\ dialog = None \/ dialog \in [position : Nat \ {0}, slave : Slaves]
  /\ strayed \in BOOLEAN

(* A dictionary is shown for the slave it was read from: the answer to an      *)
(* earlier selection, or to a row of another table, is never taken.            *)
LoadedIsOfSelection == online /\ current > 0 /\ loaded # None => loaded.position = current

Awaited == \E i \in DOMAIN flight : flight[i].op = "sdos" /\ flight[i].position = current

(* Once nothing is on its way for the slave selected, its dictionary is empty  *)
(* or was asked of the active master after the list last changed: what an      *)
(* earlier list or another master had at the position does not survive.        *)
EvidenceIsOfList ==
  online /\ Idle /\ loaded # None /\ loaded.position = current /\ ~Awaited
    => loaded.text = Blank \/ (loaded.fresh /\ loaded.master = master)

(* As long as the connection holds the window comes to show the bus of the     *)
(* active master, whatever failed, was swept or arrived late before.           *)
ViewCatchesUp == <>[](link = "up") => <>[](slaves = bus[master])

(* What one might expect, and the code does not give (see the README).         *)

(* The slave written is the one the dialog named: broken, a scan that fails    *)
(* while it is open and the next one move the selection to the first slave.    *)
ConfirmedIsWritten == ~strayed

(* The label names the selected item: broken by JumpTo.                        *)
LabelIsSelection == current >= 0 => label = current

(* After a switch of the master the list is empty or of the new one: broken,   *)
(* a scan of the old one that is on its way is taken.                          *)
ListIsOfMaster == slaves # <<>> /\ changes = 0 => slaves = bus[master]

(* Without a connection nothing is shown: broken, clearOnlineViews is not      *)
(* called on a loss, though its comment says so.                               *)
LossClearsViews == link = "down" /\ Idle => slaves = <<>> /\ loaded = None

(* The same for a selection made without an online load: broken, the late      *)
(* answer to an earlier selection is taken as evidence of the present list.    *)
LocalEvidenceIsOfList ==
  Idle /\ loaded # None /\ loaded.position = current /\ ~Awaited
    => loaded.text = Blank \/ (loaded.fresh /\ loaded.master = master)

(* The dictionary comes to be that of the slave listed: broken by one failed   *)
(* request, which is not tried again.                                          *)
DictionaryCatchesUp ==
  <>[](link = "up") => <>[](current > 0 /\ online => loaded # None /\ loaded.text = slaves[current])
=============================================================================
