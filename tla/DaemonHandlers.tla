--------------------------- MODULE DaemonHandlers ---------------------------
(****************************************************************************)
(* The handlers of ecatd that keep something between two calls, over one    *)
(* bus: the AL event log and its poll, the online change, the redundancy    *)
(* history, the activation of the distributed clocks, and the switch of the *)
(* backend that replaces some of them.  Handlers and timers run one at a    *)
(* time on the daemon's main thread; the bus, the Free Run thread and other *)
(* programs do not wait for them.  An online change is the one handler with *)
(* several calls to the bus in it: each is a step, and nothing else of the  *)
(* daemon runs until it has answered.                                       *)
(*                                                                          *)
(* Simplified: one object per slave; texts, names and times are left out.   *)
(****************************************************************************)
EXTENDS Integers, Sequences, FiniteSets, FiniteSetsExt

CONSTANTS
  Slaves,      \* positions 0 .. n - 1
  Values,      \* of the object a change writes
  Changes,     \* the change lists of onlineChangeApply: sequences of [pos, value]
  Targets,     \* its targetState
  Requests,    \* states asked for through setState
  Kinds,       \* of redundancy calls: enable, disable, failover, failback
  None,
  MaxEvents,   \* kMaxEvents (1000 in AlEventHandler.h)
  MaxHistory,  \* kMaxHistory (500 in RedundancyHandler.h)
  Budgets      \* bounds: how many calls, calls about the clocks, failing commands and
               \* falls of a slave a behaviour has, as one of these records

Healthy == {"PREOP", "SAFEOP", "OP"}
States  == Healthy \cup {"INIT", "BOOT"}

affectedSlaves(list) == {list[i].pos : i \in DOMAIN list}

Locals == \* of handleApply: todo holds positions, or places in the list
  [phase : {"transition_preop", "apply_sdo", "transition_op"}, list : Changes, target : Targets,
   failed : Nat, todo : SUBSET Nat, notRestored : SUBSET Slaves]

ASSUME HandlersAssumption ==
  /\ IsFiniteSet(Slaves) /\ Slaves # {} /\ Slaves = 0 .. Cardinality(Slaves) - 1
  /\ Changes \subseteq Seq([pos : Slaves, value : Values]) /\ <<>> \notin Changes
  /\ Targets \subseteq States /\ Requests \subseteq States
  /\ None \notin Values \cup States \cup Locals
  /\ MaxEvents \in Nat \ {0} /\ MaxHistory \in Nat \ {0}
  /\ Budgets \subseteq [calls : Nat, clockCalls : Nat, failures : Nat, faults : Nat]

VARIABLES
  state, asked,   \* bus: the AL state of each slave, and the one requested of it
  object,         \* bus: the value of each slave's object
  previous,       \* previousAlStatus_, None where nothing was seen
  events,         \* events_
  change,         \* the locals of handleApply while it runs, or None
  reply,          \* its last reply, or None
  native,         \* backend_->isNative()
  history,        \* RedundancyHandler::history_
  running,        \* freeRun_.running(), with slaves configured
  selected,       \* the reference clock of the running master was selected
  rtDataValid, dcActivated, \* of DcSyncHandler
  ecrtRefSet,     \* what the last dcActivate answered, or None
  wanted,         \* history: dcActivate was called, and not dcDeactivate since
  calls, clockCalls, failures, faults \* what is left of the budget

bus == <<state, asked, object>>
alLog == <<previous, events>>
online == <<change, reply>>
clocks == <<running, selected, rtDataValid, dcActivated, ecrtRefSet, wanted>>
budget == <<calls, clockCalls, failures, faults>>
vars == <<bus, alLog, online, native, history, clocks, budget>>

Init ==
  /\ state = [p \in Slaves |-> "OP"] /\ asked = state /\ object = [p \in Slaves |-> None]
  /\ previous = [p \in Slaves |-> None] /\ events = <<>>
  /\ change = None /\ reply = None
  /\ native = FALSE /\ history = <<>>
  /\ running = FALSE /\ selected = FALSE /\ rtDataValid = FALSE /\ dcActivated = FALSE
  /\ ecrtRefSet = None /\ wanted = FALSE
  /\ \E b \in Budgets : /\ calls = b.calls /\ clockCalls = b.clockCalls
                       /\ failures = b.failures /\ faults = b.faults

Idle == change = None

Call      == Idle /\ calls > 0 /\ calls' = calls - 1 /\ UNCHANGED clockCalls
ClockCall == Idle /\ clockCalls > 0 /\ clockCalls' = clockCalls - 1 /\ UNCHANGED calls

(* append, and removeFirst beyond the bound. *)
Kept(s, max) == IF Len(s) > max THEN SubSeq(s, Len(s) - max + 1, Len(s)) ELSE s

-----------------------------------------------------------------------------
(* The bus (external).  A request only sets the state a slave shall reach; the  *)
(* master moves it there in its own time, upwards one state after the other.    *)
Above(s) == CASE s \in {"INIT", "BOOT"} -> "PREOP" [] s = "PREOP" -> "SAFEOP" [] OTHER -> "OP"
Rank(s) == CASE s \in {"INIT", "BOOT"} -> 0 [] s = "PREOP" -> 1 [] s = "SAFEOP" -> 2 [] OTHER -> 3

Move(p) ==
  /\ state[p] # asked[p]
  /\ state' = [state EXCEPT ![p] = IF Rank(state[p]) < Rank(asked[p]) THEN Above(@) ELSE asked[p]]
  /\ UNCHANGED <<asked, object, alLog, online, native, history, clocks, budget>>

Fall(p) == \* a slave loses its state: power, a watchdog of its own
  /\ faults > 0 /\ state[p] # "INIT"
  /\ state' = [state EXCEPT ![p] = "INIT"] /\ faults' = faults - 1
  /\ UNCHANGED <<asked, object, alLog, online, native, history, clocks, calls, clockCalls, failures>>

(* A command to the bus: what it answers (ok), and whether it was done.  One    *)
(* that was killed after its time may have been done.                           *)
Outcome(ok, done) ==
  /\ ok => done
  /\ ~ok => failures > 0
  /\ failures' = IF ok THEN failures ELSE failures - 1

Ask(p, s, done) == asked' = IF done THEN [asked EXCEPT ![p] = s] ELSE asked

setState(p, s) ==
  /\ Call
  /\ \E ok, done \in BOOLEAN : Outcome(ok, done) /\ Ask(p, s, done)
  /\ UNCHANGED <<state, object, alLog, online, native, history, clocks, faults>>

setAllStates(s) ==
  /\ Call
  /\ \E ok, done \in BOOLEAN : Outcome(ok, done) /\ asked' = IF done THEN [p \in Slaves |-> s] ELSE asked
  /\ UNCHANGED <<state, object, alLog, online, native, history, clocks, faults>>

-----------------------------------------------------------------------------
(* AL events: every second the list of the slaves is read; a state that is not *)
(* the one seen before and not a healthy one is an event.                      *)
Seen(n) == [p \in Slaves |-> IF p < n THEN state[p] ELSE previous[p]]

IsEvent(p) == state[p] # previous[p] /\ state[p] \notin Healthy

Event(p) == [slave |-> p, code |-> state[p]]

FirstStateIsNone(n) == \* mutant: the first state seen of a slave is no change
  {p \in Slaves : p < n /\ IsEvent(p) /\ previous[p] # None}

NewEvents(n) == {p \in Slaves : p < n /\ IsEvent(p)}

InOrder(S) == \* the one sequence that lists S upwards
  {s \in [1 .. Cardinality(S) -> S] :
     /\ \A p \in S : \E i \in DOMAIN s : s[i] = p
     /\ \A i, j \in DOMAIN s : i < j => s[i] < s[j]}

(* The list has n lines: all of them, or fewer when the command fails, is       *)
(* killed, or meets a bus that is being scanned.  The others keep their state.  *)
pollSlaveAlStatus(n) ==
  /\ previous' = Seen(n)
  /\ \E new \in InOrder(NewEvents(n)) :
       events' = Kept(events \o [i \in DOMAIN new |-> Event(new[i])], MaxEvents)
  /\ UNCHANGED <<bus, online, native, history, clocks>>

poll == /\ Idle /\ pollSlaveAlStatus(Cardinality(Slaves)) /\ UNCHANGED budget

PollFails == /\ Idle /\ failures > 0 /\ failures' = failures - 1
             /\ \E n \in Slaves : pollSlaveAlStatus(n)
             /\ UNCHANGED <<calls, clockCalls, faults>>

ClearEventsOnly == \* mutant: the states seen are kept
  /\ Call /\ events' = <<>>
  /\ UNCHANGED <<bus, previous, online, native, history, clocks, failures, faults>>

alEventClear ==
  /\ Call /\ events' = <<>> /\ previous' = [p \in Slaves |-> None]
  /\ UNCHANGED <<bus, online, native, history, clocks, failures, faults>>

-----------------------------------------------------------------------------
(* The online change.                                                          *)
onlineChangeApply(list, target) ==
  /\ Call
  /\ change' = [phase |-> "transition_preop", list |-> list, target |-> target, failed |-> 0,
                todo |-> affectedSlaves(list), notRestored |-> {}]
  /\ UNCHANGED <<bus, alLog, reply, native, history, clocks, failures, faults>>

Rest == change.todo \ {Min(change.todo)}

ToPreop == \* one that cannot be moved is put on the list of results, and the rest goes on
  /\ ~Idle /\ change.phase = "transition_preop"
  /\ \E ok, done \in BOOLEAN : Outcome(ok, done) /\ Ask(Min(change.todo), "PREOP", done)
  /\ change' = IF Rest # {} THEN [change EXCEPT !.todo = Rest]
               ELSE [change EXCEPT !.phase = "apply_sdo", !.todo = DOMAIN change.list]
  /\ UNCHANGED <<state, object, alLog, reply, native, history, clocks, calls, clockCalls, faults>>

Reached(p) == state[p] \in Healthy \* there is no mailbox in INIT

Download ==
  /\ ~Idle /\ change.phase = "apply_sdo"
  /\ LET c == change.list[Min(change.todo)]
     IN \E ok, done \in BOOLEAN :
          /\ done => Reached(c.pos)
          /\ IF Reached(c.pos) THEN Outcome(ok, done) ELSE ~ok /\ UNCHANGED failures
          /\ object' = IF done THEN [object EXCEPT ![c.pos] = c.value] ELSE object
          /\ change' = [change EXCEPT
               !.failed = IF ok THEN @ ELSE @ + 1,
               !.phase = IF Rest # {} THEN @ ELSE "transition_op",
               !.todo = IF Rest # {} THEN Rest ELSE affectedSlaves(change.list)]
  /\ UNCHANGED <<state, asked, alLog, reply, native, history, clocks, calls, clockCalls, faults>>

RestoreUntilFailure == \* mutant: the first slave that is not restored ends the loop
  /\ ~Idle /\ change.phase = "transition_op"
  /\ \E ok, done \in BOOLEAN :
       LET named == IF ok THEN change.notRestored ELSE change.notRestored \cup {Min(change.todo)}
       IN /\ Outcome(ok, done) /\ Ask(Min(change.todo), change.target, done)
          /\ IF Rest # {} /\ ok
               THEN change' = [change EXCEPT !.todo = Rest, !.notRestored = named] /\ UNCHANGED reply
               ELSE /\ change' = None
                    /\ reply' = [success |-> change.failed = 0, notRestored |-> named]
  /\ UNCHANGED <<state, object, alLog, native, history, clocks, calls, clockCalls, faults>>

Restore ==
  /\ ~Idle /\ change.phase = "transition_op"
  /\ \E ok, done \in BOOLEAN :
       LET named == IF ok THEN change.notRestored ELSE change.notRestored \cup {Min(change.todo)}
       IN /\ Outcome(ok, done) /\ Ask(Min(change.todo), change.target, done)
          /\ IF Rest # {}
               THEN change' = [change EXCEPT !.todo = Rest, !.notRestored = named] /\ UNCHANGED reply
               ELSE /\ change' = None
                    /\ reply' = [success |-> change.failed = 0, notRestored |-> named]
  /\ UNCHANGED <<state, object, alLog, native, history, clocks, calls, clockCalls, faults>>

-----------------------------------------------------------------------------
(* Redundancy: each of the four calls leaves one record, whatever it answers. *)
redundancyCall(kind) ==
  /\ Call /\ history' = Kept(Append(history, kind), MaxHistory)
  /\ UNCHANGED <<bus, alLog, online, native, clocks, failures, faults>>

(* A new backend makes new redundancy and online change handlers.  "auto" makes *)
(* one whenever a native master answers, whatever there was before.             *)
setBackend(mode, available) ==
  /\ Call
  /\ LET replaced == CASE mode = "cli" -> native [] mode = "native" -> ~native /\ available
                       [] OTHER -> available
     IN /\ native' = IF replaced THEN mode # "cli" ELSE native
        /\ history' = IF replaced THEN <<>> ELSE history
  /\ UNCHANGED <<bus, alLog, online, clocks, failures, faults>>

-----------------------------------------------------------------------------
(* Distributed clocks.  The activation is an intent; the poll of the daemon     *)
(* applies it to the master of a running Free Run.                             *)
FreeRunStart ==
  /\ ClockCall /\ ~running /\ running' = TRUE /\ selected' = FALSE
  /\ UNCHANGED <<bus, alLog, online, native, history, rtDataValid, dcActivated, ecrtRefSet, wanted,
                 failures, faults>>

FreeRunStop ==
  /\ ClockCall /\ running /\ running' = FALSE /\ selected' = FALSE
  /\ UNCHANGED <<bus, alLog, online, native, history, rtDataValid, dcActivated, ecrtRefSet, wanted,
                 failures, faults>>

dcActivate == \* with a slave to take as the reference
  /\ ClockCall /\ dcActivated' = TRUE /\ wanted' = TRUE /\ ecrtRefSet' = rtDataValid
  /\ UNCHANGED <<bus, alLog, online, native, history, running, selected, rtDataValid, failures, faults>>

dcDeactivate ==
  /\ ClockCall /\ dcActivated' = FALSE /\ wanted' = FALSE
  /\ UNCHANGED <<bus, alLog, online, native, history, running, selected, rtDataValid, ecrtRefSet,
                 failures, faults>>

UpdateOnce == \* mutant: the intent is used up by the first master it reaches
  /\ Idle /\ running
  /\ selected' = (selected \/ dcActivated) /\ dcActivated' = FALSE /\ rtDataValid' = TRUE
  /\ UNCHANGED <<bus, alLog, online, native, history, running, ecrtRefSet, wanted, budget>>

update == \* DcSyncHandler::update, every 500 ms
  /\ Idle /\ running
  /\ selected' = (selected \/ dcActivated) /\ rtDataValid' = TRUE
  /\ UNCHANGED <<bus, alLog, online, native, history, running, dcActivated, ecrtRefSet, wanted, budget>>

-----------------------------------------------------------------------------
Applying == ToPreop \/ Download \/ Restore

Next ==
  \/ \E p \in Slaves : Move(p) \/ Fall(p) \/ \E s \in Requests : setState(p, s)
  \/ \E s \in Requests : setAllStates(s)
  \/ poll \/ PollFails \/ alEventClear
  \/ \E list \in Changes, target \in Targets : onlineChangeApply(list, target)
  \/ ToPreop \/ Download \/ Restore
  \/ \E kind \in Kinds : redundancyCall(kind)
  \/ \E mode \in {"cli", "native", "auto"}, available \in BOOLEAN : setBackend(mode, available)
  \/ FreeRunStart \/ FreeRunStop \/ dcActivate \/ dcDeactivate \/ update

Spec == Init /\ [][Next]_vars

(* A handler that has begun comes to its end (every command to the bus has a    *)
(* time-out), and the timers of the daemon go on.  The bus owes nothing: no     *)
(* fairness for Move.                                                           *)
FairSpec == Spec /\ WF_vars(Applying) /\ WF_vars(poll) /\ WF_vars(update)

-----------------------------------------------------------------------------
(* Properties. *)

(* Types, and the bounds of the two logs. *)
TypeOK ==
  /\ state \in [Slaves -> States] /\ asked \in [Slaves -> States]
  /\ object \in [Slaves -> Values \cup {None}]
  /\ previous \in [Slaves -> States \cup {None}]
  /\ events \in Seq([slave : Slaves, code : States]) /\ Len(events) <= MaxEvents
  /\ Idle \/ /\ change \in Locals
             /\ change.todo # {} /\ change.notRestored \subseteq affectedSlaves(change.list)
             /\ change.todo \subseteq IF change.phase = "apply_sdo" THEN DOMAIN change.list
                                                                  ELSE affectedSlaves(change.list)
  /\ history \in Seq(Kinds) /\ Len(history) <= MaxHistory
  /\ {native, running, selected, rtDataValid, dcActivated, wanted} \subseteq BOOLEAN

(* A state the handler takes for known and faulty has its event, the last one   *)
(* of that slave, in the log, unless the log is full: what a poll will not      *)
(* report again was reported (AlEventHandler.cpp:39, "only a change from the    *)
(* previously observed status becomes an event").                               *)
LastOf(p, code) ==
  \E i \in DOMAIN events : /\ events[i] = [slave |-> p, code |-> code]
                           /\ \A j \in i + 1 .. Len(events) : events[j].slave # p

FaultsAreLogged ==
  \A p \in Slaves : previous[p] \notin Healthy \cup {None} =>
                      Len(events) = MaxEvents \/ LastOf(p, previous[p])

(* A slave that stays in a faulty state is in the log in the end, whatever was  *)
(* cleared, failed or changed online meanwhile; or the log is full.            *)
FaultIsSeen ==
  \A p \in Slaves : \A s \in States \ Healthy :
    (state[p] = s) ~> \/ state[p] # s \/ Len(events) = MaxEvents
                      \/ \E i \in DOMAIN events : events[i] = [slave |-> p, code |-> s]

(* What an online change leaves behind is what it tells: each slave it moved to *)
(* PREOP was asked for the target state, unless the reply names it; and after a *)
(* success each object holds the last value the list gives it.                  *)
LastFor(list, p) == list[Max({i \in DOMAIN list : list[i].pos = p})].value

ChangesAreTold ==
  [][~Idle /\ change' = None => \A p \in affectedSlaves(change.list) :
       /\ asked'[p] = change.target \/ p \in reply'.notRestored
       /\ reply'.success => object'[p] = LastFor(change.list, p)]_vars

(* An activation of the distributed clocks reaches the master of the session   *)
(* going on and, until it is taken back, that of each later one                *)
(* (DcSyncHandler.cpp:98, "apply the reference clock selection now that we have *)
(* a live master handle").                                                      *)
ActivationIsApplied == (wanted /\ running) ~> (selected \/ ~wanted \/ ~running)

(* Statements of comments that do not hold, see the README. *)

(* A change that answers success brought its slaves back. *)
SuccessMeansRestored == [][reply' # reply /\ reply'.success => reply'.notRestored = {}]_vars

(* DcSyncHandler.cpp:450: "True if a live master is active." *)
EcrtRefSetIsLive == [][dcActivate => (ecrtRefSet' => running)]_vars

(* The history lasts as long as the daemon. *)
HistorySurvivesSwitch == [][history # <<>> => history' # <<>>]_vars
=============================================================================
