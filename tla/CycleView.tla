------------------------------ MODULE CycleView ------------------------------
(****************************************************************************)
(* Free Run and the RT test as the Studio main window shows them, composed  *)
(* with the controllers of the daemon (MasterLease).  The window keeps one  *)
(* flag for each, sets them by what it asks for and by every answer, and    *)
(* the answers to a request that fails are taken like any other.            *)
(*                                                                          *)
(* Simplifications: the replies that fill the other views are left out      *)
(* (OnlineView); of telemetry only "running" is kept.                       *)
(****************************************************************************)
EXTENDS MasterLease, Naturals, Sequences

CONSTANTS
  FirstMaster, \* the active master of the settings at the start
  MaxFlight,   \* bound: requests on their way
  MaxOps,      \* bound: operations of the user and of other clients
  MaxFaults    \* bound: sweeps and losses of the connection

ASSUME CycleAssumption == FirstMaster \in Masters /\ {MaxFlight, MaxOps, MaxFaults} \subseteq Nat

VARIABLES
  link,     \* "up" or "down"
  flight,   \* requests on their way, in order, with the answers of those the daemon performed;
            \* one that is not waited for was swept, and its answer will be dropped
  failing,  \* requests given up whose handlers are still to be called
  orphans,  \* frames of a lost connection the daemon has not read yet
  target,   \* settings_.activeMaster and masterTarget_
  freeRun,  \* freeRun_
  rtTest,   \* rtTestRunning_
  checked,  \* the Free Run action of the toolbar
  confirm,  \* the confirmation of a start is open
  ops, faults \* bounds

net == <<link, flight, failing, orphans>>
shown == <<target, freeRun, rtTest, checked, confirm>>
bounds == <<ops, faults>>
window == <<net, shown, bounds>>
viewVars == <<vars, window>>

ViewInit ==
  /\ Init
  /\ link = "down" /\ flight = <<>> /\ failing = <<>> /\ orphans = <<>>
  /\ target = FirstMaster /\ freeRun = FALSE /\ rtTest = FALSE /\ checked = FALSE /\ confirm = FALSE
  /\ ops = 0 /\ faults = 0

Call(op, m) == [op |-> op, master |-> m, answer |-> None, waited |-> TRUE]

Idle == failing = <<>> \* the event loop runs; a sweep or a loss calls its handlers without it
Starts == Idle /\ ~confirm /\ ops < MaxOps /\ ops' = ops + 1

RefreshWithoutTest(rt, m) == <<Call("freeRunStatus", m)>> \* mutant: the RT test is not polled

(* requestRefresh: the RT test is asked about only while it is shown.        *)
Refresh(rt, m) == <<Call("freeRunStatus", m)>> \o (IF rt THEN <<Call("rtTestStatus", m)>> ELSE <<>>)

--------------------------------------------------------------------------
(* The user.                                                                 *)

(* What setFreeRun does once it asks nothing more.                           *)
Engage(enabled) ==
  /\ freeRun' = enabled
  /\ flight' = IF link = "up" THEN Append(flight, Call(IF enabled THEN "freeRunStart" ELSE "freeRunStop", target))
                              ELSE flight

setFreeRun == \* the action is toggled
  /\ Starts /\ Len(flight) < MaxFlight /\ checked' = ~checked
  /\ IF checked' /\ link = "up" THEN confirm' = TRUE /\ UNCHANGED <<freeRun, flight>>
                                ELSE Engage(checked') /\ UNCHANGED confirm
  /\ UNCHANGED <<vars, link, failing, orphans, target, rtTest, faults>>

Confirm == \* the connection may be lost by now
  /\ Idle /\ confirm /\ confirm' = FALSE /\ Engage(TRUE)
  /\ UNCHANGED <<vars, link, failing, orphans, target, rtTest, checked, bounds>>

Decline == \* whatever runs
  /\ Idle /\ confirm /\ confirm' = FALSE /\ checked' = FALSE /\ freeRun' = FALSE
  /\ UNCHANGED <<vars, net, target, rtTest, bounds>>

rtTestStart == \* the button is enabled while no test is shown
  /\ Starts /\ link = "up" /\ ~rtTest /\ Len(flight) < MaxFlight
  /\ flight' = Append(flight, Call("rtTestStart", target))
  /\ UNCHANGED <<vars, link, failing, orphans, shown, faults>>

rtTestStop == \* and this one while it is; without a connection it fails at once
  /\ Starts /\ rtTest /\ Len(flight) < MaxFlight
  /\ IF link = "up" THEN flight' = Append(flight, Call("rtTestStop", target)) /\ UNCHANGED rtTest
                    ELSE rtTest' = FALSE /\ UNCHANGED flight
  /\ UNCHANGED <<vars, link, failing, orphans, target, freeRun, checked, confirm, faults>>

setActiveMaster(m) ==
  /\ Starts /\ m # target /\ target' = m /\ Len(flight) < MaxFlight
  /\ freeRun' = FALSE
  /\ LET stopped == IF freeRun THEN <<Call("freeRunStop", target)>> ELSE <<>>
     IN flight' = IF link = "up" THEN flight \o stopped \o Refresh(rtTest, m) ELSE flight
  /\ UNCHANGED <<vars, link, failing, orphans, rtTest, checked, confirm, faults>>

showSettings(m) == \* the settings dialog: neither a stop nor a refresh
  /\ Starts /\ m # target /\ target' = m /\ freeRun' = FALSE
  /\ UNCHANGED <<vars, net, rtTest, checked, confirm, faults>>

openProject(m) == \* the project's master, and nothing else of this
  /\ Starts /\ m # target /\ target' = m
  /\ UNCHANGED <<vars, net, freeRun, rtTest, checked, confirm, faults>>

newProject ==
  /\ Starts /\ freeRun' = FALSE
  /\ UNCHANGED <<vars, net, target, rtTest, checked, confirm, faults>>

requestRefresh == \* the timer
  /\ Idle /\ link = "up" /\ Len(flight) < MaxFlight
  /\ flight' = flight \o Refresh(rtTest, target)
  /\ UNCHANGED <<vars, link, failing, orphans, shown, bounds>>

--------------------------------------------------------------------------
(* The daemon.                                                               *)

(* A start that finds its controller running changes nothing.                *)
Begin(c, m) == IF running[c] THEN UNCHANGED vars ELSE start(c, m)

Handler(q) ==
  CASE q.op = "freeRunStart" -> Begin("freeRun", q.master)
    [] q.op = "freeRunStop" -> stop("freeRun")
    [] q.op = "rtTestStart" -> Begin("rtTest", q.master)
    [] q.op = "rtTestStop" -> stop("rtTest")
    [] OTHER -> UNCHANGED vars

(* The flag the window makes of a reply: of start and stop it knows what it   *)
(* asked for; of the others it reads "running", which an error does not have.  *)
Reply(q) ==
  CASE q.op = "freeRunStart" -> TRUE
    [] q.op = "freeRunStop" -> FALSE
    [] q.op = "freeRunStatus" -> running'["freeRun"]
    [] q.op = "rtTestStart" -> running'["rtTest"] /\ active'["rtTest"] = q.master
    [] OTHER -> running'["rtTest"]

Unanswered == {i \in DOMAIN flight : flight[i].answer = None}

Dispatch ==
  /\ link = "up"
  /\ \E i \in Unanswered :
       /\ \A j \in Unanswered : i <= j
       /\ Handler(flight[i])
       /\ flight' = [flight EXCEPT ![i].answer = Reply(flight[i])]
  /\ UNCHANGED <<link, failing, orphans, shown, bounds>>

DispatchOrphan == \* performed, and answered to nobody
  /\ orphans # <<>> /\ Handler(Head(orphans)) /\ orphans' = Tail(orphans)
  /\ UNCHANGED <<link, flight, failing, shown, bounds>>

OtherClient == \* the daemon serves several
  /\ ops < MaxOps /\ ops' = ops + 1
  /\ \E c \in Controllers : stop(c) \/ \E m \in Masters : start(c, m)
  /\ UNCHANGED <<net, shown, faults>>

--------------------------------------------------------------------------
(* What the window does with an answer; rest is what is still on its way.     *)
Answered(q, running1, rest) ==
  LET ofFreeRun == q.op \in {"freeRunStart", "freeRunStop", "freeRunStatus"}
      announced == q.op \in {"freeRunStart", "freeRunStop", "rtTestStart", "rtTestStop"} /\ link = "up"
  IN /\ freeRun' = IF ofFreeRun THEN running1 ELSE freeRun
     /\ rtTest' = IF ofFreeRun THEN rtTest ELSE running1
     /\ flight' = IF announced THEN rest \o Refresh(rtTest', target) ELSE rest

Receive ==
  /\ Idle /\ link = "up" /\ flight # <<>> /\ Head(flight).answer # None
  /\ IF Head(flight).waited THEN Answered(Head(flight), Head(flight).answer, Tail(flight))
                            ELSE flight' = Tail(flight) /\ UNCHANGED <<freeRun, rtTest>>
  /\ UNCHANGED <<vars, link, failing, orphans, target, checked, confirm, bounds>>

(* The handlers of the requests given up are called one after the other, in    *)
(* the order of a hash.                                                        *)
Waited(requests) == SelectSeq(requests, LAMBDA q : q.waited)

Sweep == \* the oldest ones
  /\ Idle /\ link = "up" /\ faults < MaxFaults /\ faults' = faults + 1
  /\ \E n \in DOMAIN flight :
       /\ failing' = Waited(SubSeq(flight, 1, n))
       /\ flight' = [i \in DOMAIN flight |-> IF i <= n THEN [flight[i] EXCEPT !.waited = FALSE] ELSE flight[i]]
  /\ UNCHANGED <<vars, link, orphans, shown, ops>>

Lose == \* of the frames not yet read, the daemon may still read the first n
  /\ Idle /\ link = "up" /\ faults < MaxFaults /\ faults' = faults + 1
  /\ link' = "down" /\ failing' = Waited(flight) /\ flight' = <<>>
  /\ \E k, n \in 0 .. Len(flight) :
       Unanswered = k + 1 .. Len(flight) /\ orphans' = orphans \o SubSeq(flight, k + 1, n)
  /\ UNCHANGED <<vars, shown, ops>>

CallFailed ==
  /\ \E i \in DOMAIN failing :
       /\ failing' = SubSeq(failing, 1, i - 1) \o SubSeq(failing, i + 1, Len(failing))
       /\ Answered(failing[i], failing[i].op = "freeRunStart", flight)
  /\ UNCHANGED <<vars, link, orphans, target, checked, confirm, bounds>>

Connect ==
  /\ Idle /\ link = "down" /\ link' = "up" /\ flight' = Refresh(rtTest, target)
  /\ UNCHANGED <<vars, failing, orphans, shown, bounds>>

--------------------------------------------------------------------------
(* The rest of the daemon, and other programs (MasterLease).                  *)
Elsewhere ==
  /\ \/ OtherProgram
     \/ \E m \in Masters : MasterGuard(m)
     \/ \E toNative \in BOOLEAN : setBackendMode(toNative)
     \/ \E c \in Controllers : LoopBreaks(c)
  /\ UNCHANGED window

ViewNext ==
  \/ setFreeRun \/ Confirm \/ Decline \/ rtTestStart \/ rtTestStop
  \/ \E m \in Masters : setActiveMaster(m) \/ showSettings(m) \/ openProject(m)
  \/ newProject \/ requestRefresh
  \/ Dispatch \/ DispatchOrphan \/ OtherClient
  \/ Receive \/ Sweep \/ Lose \/ CallFailed \/ Connect
  \/ Elsewhere

ViewSpec == ViewInit /\ [][ViewNext]_viewVars

(* The timer runs while connected, the daemon performs what it has been sent   *)
(* and the event loop delivers; nobody has to connect, and the user may stop.  *)
FairViewSpec == ViewSpec /\ WF_viewVars(requestRefresh) /\ WF_viewVars(Dispatch)
                         /\ WF_viewVars(DispatchOrphan) /\ WF_viewVars(Receive) /\ WF_viewVars(CallFailed)

--------------------------------------------------------------------------
(* Properties.                                                                *)

(* As long as the connection holds the window comes to show whether Free Run   *)
(* runs, and shows no RT test that does not, whoever started or stopped them,  *)
(* and whatever failed, was lost or arrived late before.                       *)
ShownCatchesUp ==
  <>[](link = "up") => <>[](freeRun = running["freeRun"] /\ (rtTest => running["rtTest"]))

(* What one might expect, and the code does not give (see the README).         *)

(* A running RT test comes to be shown, and so can be stopped: broken, one     *)
(* status that is swept or lost ends the polling.                              *)
TestIsShown == <>[](link = "up") => <>[](running["rtTest"] => rtTest)

(* "Free Run armed; waiting for runtime" (MainWindowFreeRunWorkspace.cpp:50):  *)
(* broken, nothing starts it when the connection comes up.                     *)
ArmedStarts ==
  [][Connect /\ freeRun /\ ~running["freeRun"] => \E i \in DOMAIN flight' : flight'[i].op = "freeRunStart"]_viewVars

(* Free Run comes to cycle the master the window works on, or none: broken, a  *)
(* switch in the settings sends no stop, nor does one of the toolbar while the *)
(* flag is cleared by a status from before the start.                          *)
CyclesTheTarget ==
  <>[](link = "up") => <>[](running["freeRun"] => active["freeRun"] = target)
=============================================================================
