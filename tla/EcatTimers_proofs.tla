-------------------------- MODULE EcatTimers_proofs --------------------------
(****************************************************************************)
(* Theorems about the timers of EcatClient: EcatHeartbeat, which tells that *)
(* a connected daemon has gone silent, for any periods, time-outs, number   *)
(* of misses and time a daemon takes to answer; and EcatReconnect, for any  *)
(* periods, any number of attempts and any behaviour of the network.        *)
(****************************************************************************)
EXTENDS EcatHeartbeat, EcatReconnect, TLAPS

-----------------------------------------------------------------------------
(* The heartbeat: the inductive invariants. *)

(* The time of n pings. *)
Pings(n) == n * HeartbeatTicks

(* Ticks since the last ping. *)
SincePing == HeartbeatTicks - heartbeat

(* The check waits for the last ping, and no ping outlasts the sweep; a daemon *)
(* that runs answers within AnswerWithin.                                      *)
Timers ==
  /\ HeartbeatTypeOK
  /\ connected => consecutiveFailures < MaxConsecutiveFailures
  /\ check # NoCheck => check + SincePing = PongTicks
  /\ pendingPing => check # NoCheck
  /\ alive => silent = 0 /\ \A a \in waiting : a <= AnswerWithin
  /\ \A a \in waiting : a <= requestTimeout + SweepTicks - sweep

(* A miss that is counted is a ping that has been waiting since it was sent.   *)
Overdue ==
  /\ pendingPing => \E a \in waiting : a >= Pings(consecutiveFailures) + SincePing
  /\ ~pendingPing /\ consecutiveFailures > 0 =>
       \E a \in waiting : a >= Pings(consecutiveFailures - 1) + SincePing

(* What tells that no daemon that answers is given up.                         *)
AlarmInv == Timers /\ (connected => Overdue) /\ NoFalseAlarm

(* What tells that nothing is given up at all.                                 *)
QuietInv == Timers /\ connected /\ Overdue

(* The daemon answers before the pings that may be missed and the check are over. *)
NoAnswerOutlastsMisses == AnswerWithin < Pings(MaxConsecutiveFailures - 1) + PongTicks

(* The sweep gives a ping up before then, as it does with the values the program *)
(* ships: 10 s and 2 s against 2 * 5 s and 3.5 s.                              *)
SweepComesFirst ==
  \A t \in RequestTimeouts : t + SweepTicks < Pings(MaxConsecutiveFailures - 1) + PongTicks

-----------------------------------------------------------------------------
(* The timers. *)

LEMMA HeartbeatConstants ==
  /\ HeartbeatTicks \in Nat \ {0} /\ PongTicks \in Nat \ {0} /\ SweepTicks \in Nat \ {0}
  /\ RequestTimeouts \subseteq Nat \ {0} /\ MaxConsecutiveFailures \in Nat \ {0}
  /\ AnswerWithin \in Nat \ {0} /\ SilentBound \in Nat \ {0} /\ PongTicks < HeartbeatTicks
BY HeartbeatAssumption

LEMMA PingsAdd ==
  /\ \A n \in Nat : Pings(n) \in Nat /\ Pings(n + 1) = Pings(n) + HeartbeatTicks
  /\ Pings(0) = 0 /\ \A m, n \in Nat : m <= n => Pings(m) <= Pings(n)
<1>1. \A n \in Nat : Pings(n) \in Nat  BY HeartbeatConstants DEF Pings
<1>2. \A n \in Nat : Pings(n + 1) = Pings(n) + HeartbeatTicks  BY HeartbeatConstants DEF Pings
<1>3. Pings(0) = 0  BY HeartbeatConstants DEF Pings
<1>4. ASSUME NEW m \in Nat, NEW n \in Nat, m <= n PROVE Pings(m) <= Pings(n)
  <2>1. m * HeartbeatTicks + (n - m) * HeartbeatTicks = n * HeartbeatTicks  BY HeartbeatConstants
  <2>2. (n - m) * HeartbeatTicks >= 0  BY <1>4, HeartbeatConstants
  <2> QED BY <2>1, <2>2, HeartbeatConstants DEF Pings
<1> QED BY <1>1, <1>2, <1>3, <1>4

LEMMA TimersInit == HeartbeatInit => Timers
<1> SUFFICES ASSUME HeartbeatInit PROVE Timers
  OBVIOUS
<1>1. connected \in BOOLEAN /\ alive \in BOOLEAN /\ pendingPing \in BOOLEAN  BY Zenon DEF HeartbeatInit
<1>2. HeartbeatTypeOK  BY <1>1, HeartbeatConstants DEF HeartbeatInit, HeartbeatTypeOK, NoCheck
<1> QED BY <1>2, HeartbeatConstants DEF HeartbeatInit, Timers, SincePing, NoCheck

(* Each step keeps the timers in step with each other. *)
LEMMA TimersTick == ASSUME Timers, TimePasses PROVE Timers'
<1> USE HeartbeatConstants DEF Timers, TimePasses
<1>1. /\ heartbeat' \in 0 .. HeartbeatTicks /\ sweep' \in 0 .. SweepTicks /\ check' \in NoCheck .. PongTicks
      /\ (check' # NoCheck => check # NoCheck /\ check' = check - 1) /\ (check # NoCheck => check' # NoCheck)
  BY DEF HeartbeatTypeOK, NoCheck
<1>2. waiting' \subseteq 0 .. (requestTimeout + SweepTicks)
  <2>1. \A a \in waiting : a + 1 \in 0 .. (requestTimeout + SweepTicks)  BY DEF HeartbeatTypeOK
  <2> QED BY <2>1
<1>3. silent' \in 0 .. SilentBound  BY DEF HeartbeatTypeOK
<1>4. HeartbeatTypeOK'  BY <1>1, <1>2, <1>3 DEF HeartbeatTypeOK
<1>5. alive' => silent' = 0 /\ \A a \in waiting' : a <= AnswerWithin  BY DEF HeartbeatTypeOK
<1>6. \A a \in waiting' : a <= requestTimeout + SweepTicks - sweep'  BY DEF HeartbeatTypeOK
<1>7. check' # NoCheck => check' + SincePing' = PongTicks  BY <1>1 DEF SincePing, HeartbeatTypeOK, NoCheck
<1> QED BY <1>1, <1>4, <1>5, <1>6, <1>7

LEMMA TimersHeartbeat ==
  ASSUME Timers, HeartbeatFires
  PROVE  /\ ~pendingPing /\ check = NoCheck /\ pendingPing' /\ check' = PongTicks
         /\ waiting' = waiting \cup {0} /\ Timers'
<1> USE HeartbeatConstants DEF Timers, HeartbeatFires
<1>1. check = NoCheck  BY DEF SincePing, HeartbeatTypeOK, NoCheck
<1>2. /\ ~pendingPing /\ pendingPing' = TRUE /\ check' = PongTicks /\ waiting' = waiting \cup {0}
      /\ heartbeat' = HeartbeatTicks
  BY <1>1
<1>3. HeartbeatTypeOK'  BY <1>2 DEF HeartbeatTypeOK, NoCheck
<1> QED BY <1>1, <1>2, <1>3 DEF HeartbeatTypeOK, SincePing, NoCheck

LEMMA TimersCheck == ASSUME Timers, CheckFires PROVE Timers'
<1> USE HeartbeatConstants DEF Timers, CheckFires
<1>1. /\ waiting' \subseteq waiting /\ pendingPing' = FALSE /\ check' = NoCheck /\ connected' \in BOOLEAN
      /\ consecutiveFailures' \in 0 .. MaxConsecutiveFailures
      /\ (connected' => consecutiveFailures' < MaxConsecutiveFailures)
  <2>0. connected \in BOOLEAN  BY DEF HeartbeatTypeOK
  <2>4. waiting' \subseteq waiting /\ connected' \in {connected, FALSE}  OBVIOUS
  <2>5. connected' \in BOOLEAN  BY <2>0, <2>4, Zenon
  <2>6. pendingPing' = FALSE /\ check' = NoCheck  BY Zenon
  <2>1. CASE ~pendingPing  BY <2>1, <2>4, <2>5, <2>6 DEF HeartbeatTypeOK
  <2>2. CASE pendingPing /\ consecutiveFailures + 1 < MaxConsecutiveFailures
    BY <2>2, <2>4, <2>5, <2>6 DEF HeartbeatTypeOK
  <2>3. CASE pendingPing /\ ~(consecutiveFailures + 1 < MaxConsecutiveFailures)
    <3>1. connected' = FALSE /\ waiting' = {}
          /\ consecutiveFailures' \in {0, consecutiveFailures + 1}
      BY <2>3
    <3>2. consecutiveFailures \in Nat /\ consecutiveFailures < MaxConsecutiveFailures  BY DEF HeartbeatTypeOK
    <3> QED BY <2>5, <2>6, <3>1, <3>2
  <2> QED BY <2>1, <2>2, <2>3
<1>2. UNCHANGED <<requestTimeout, heartbeat, sweep, alive, silent>>  OBVIOUS
<1>3. connected' \in BOOLEAN /\ alive' \in BOOLEAN /\ pendingPing' \in BOOLEAN
  <2>1. alive \in BOOLEAN  BY DEF HeartbeatTypeOK
  <2> QED BY <1>1, <1>2, <2>1, Zenon
<1>4. HeartbeatTypeOK'  BY <1>1, <1>2, <1>3 DEF HeartbeatTypeOK, NoCheck
<1> QED BY <1>1, <1>2, <1>4 DEF HeartbeatTypeOK, SincePing, NoCheck

(* A pong, or the sweep, takes a ping off and ends the run of misses. *)
LEMMA TimersPong ==
  ASSUME Timers, Pong \/ SweepFires
  PROVE  /\ \/ ~pendingPing' /\ consecutiveFailures' = 0
            \/ UNCHANGED <<pendingPing, consecutiveFailures, waiting>>
         /\ waiting' \subseteq waiting /\ UNCHANGED <<requestTimeout, heartbeat, check, alive, silent, connected>>
         /\ Timers'
<1> USE HeartbeatConstants DEF Timers
<1>1. /\ \/ ~pendingPing' /\ consecutiveFailures' = 0 /\ pendingPing' = FALSE
         \/ UNCHANGED <<pendingPing, consecutiveFailures, waiting>>
      /\ waiting' \subseteq waiting /\ UNCHANGED <<requestTimeout, heartbeat, check, alive, silent, connected>>
  BY DEF Pong, SweepFires, PingHandler
<1>2. /\ sweep' \in 0 .. SweepTicks
      /\ \A a \in waiting' : a <= requestTimeout + SweepTicks - sweep'
  <2>1. CASE Pong  BY <1>1, <2>1 DEF Pong, HeartbeatTypeOK
  <2>2. CASE SweepFires
    <3>1. \A a \in waiting' : a <= requestTimeout  BY <2>2 DEF SweepFires, PingHandler
    <3> QED BY <1>1, <2>2, <3>1 DEF SweepFires, HeartbeatTypeOK
  <2> QED BY <2>1, <2>2
<1>3. consecutiveFailures' \in 0 .. MaxConsecutiveFailures /\ pendingPing' \in BOOLEAN
  <2>0. pendingPing \in BOOLEAN /\ consecutiveFailures \in 0 .. MaxConsecutiveFailures  BY DEF HeartbeatTypeOK
  <2>1. 0 \in 0 .. MaxConsecutiveFailures  OBVIOUS
  <2> QED BY <1>1, <2>0, <2>1, Zenon
<1>4. HeartbeatTypeOK'  BY <1>1, <1>2, <1>3 DEF HeartbeatTypeOK
<1>5. (connected' => consecutiveFailures' < MaxConsecutiveFailures) /\ (pendingPing' => check' # NoCheck)
  BY <1>1
<1> QED BY <1>1, <1>2, <1>4, <1>5 DEF SincePing

LEMMA TimersWedge == ASSUME Timers, DaemonWedges \/ UNCHANGED heartbeatVars PROVE Timers'
<1>1. /\ UNCHANGED <<connected, requestTimeout, heartbeat, sweep, check, pendingPing, consecutiveFailures, waiting, silent>>
      /\ alive' \in {alive, FALSE}
  BY DEF DaemonWedges, heartbeatVars
<1>0. alive \in BOOLEAN  BY DEF Timers, HeartbeatTypeOK
<1>3. CASE alive' = alive  BY <1>0, <1>1, <1>3 DEF Timers, HeartbeatTypeOK, SincePing
<1>4. CASE alive' = FALSE  BY <1>1, <1>4 DEF Timers, HeartbeatTypeOK, SincePing
<1> QED BY <1>1, <1>3, <1>4

LEMMA TimersStep == ASSUME Timers, [HeartbeatNext]_heartbeatVars PROVE Timers'
BY TimersTick, TimersHeartbeat, TimersCheck, TimersPong, TimersWedge DEF HeartbeatNext

(* The type invariant of the heartbeat, for any periods and time-outs.         *)
THEOREM HeartbeatTypeCorrect == HeartbeatSpec => []HeartbeatTypeOK
<1>1. Timers => HeartbeatTypeOK  BY DEF Timers
<1> QED BY <1>1, TimersInit, TimersStep, PTL DEF HeartbeatSpec

-----------------------------------------------------------------------------
(* A daemon that answers. *)

LEMMA AlarmInit == HeartbeatInit => AlarmInv
<1> SUFFICES ASSUME HeartbeatInit PROVE AlarmInv
  OBVIOUS
<1> QED BY TimersInit DEF HeartbeatInit, AlarmInv, Overdue, NoFalseAlarm

LEMMA AlarmTick == ASSUME AlarmInv, TimePasses PROVE Overdue'
<1>1. /\ UNCHANGED <<pendingPing, consecutiveFailures>> /\ SincePing' = SincePing + 1 /\ SincePing \in Nat
      /\ waiting' = {a + 1 : a \in waiting} /\ waiting \subseteq Nat /\ consecutiveFailures \in Nat
      /\ Overdue
  BY HeartbeatConstants DEF AlarmInv, Timers, HeartbeatTypeOK, TimePasses, SincePing
<1> HIDE DEF SincePing
<1>2. ASSUME NEW k \in Nat, \E a \in waiting : a >= k + SincePing
      PROVE  \E a \in waiting' : a >= k + SincePing'
  <2>1. PICK a \in waiting : a >= k + SincePing  BY <1>2
  <2>2. a + 1 \in waiting'  BY <1>1
  <2>3. a + 1 >= k + SincePing'  BY <1>1, <2>1
  <2> QED BY <2>2, <2>3
<1>3. Pings(consecutiveFailures) \in Nat  BY <1>1, PingsAdd
<1>4. consecutiveFailures > 0 => Pings(consecutiveFailures - 1) \in Nat  BY <1>1, PingsAdd
<1> QED BY <1>1, <1>2, <1>3, <1>4 DEF Overdue

LEMMA AlarmHeartbeat == ASSUME AlarmInv, HeartbeatFires PROVE Overdue'
<1>1. ~pendingPing /\ pendingPing' /\ waiting' = waiting \cup {0}  BY TimersHeartbeat DEF AlarmInv
<1>2. consecutiveFailures' = consecutiveFailures /\ SincePing' = 0 /\ SincePing = HeartbeatTicks
      /\ consecutiveFailures \in Nat /\ waiting \subseteq Nat /\ Overdue
  BY HeartbeatConstants DEF HeartbeatFires, SincePing, AlarmInv, Timers, HeartbeatTypeOK
<1> HIDE DEF SincePing
<1>3. CASE consecutiveFailures = 0  BY <1>1, <1>2, <1>3, PingsAdd DEF Overdue
<1>4. CASE consecutiveFailures > 0
  <2>1. PICK a \in waiting : a >= Pings(consecutiveFailures - 1) + HeartbeatTicks
    BY <1>1, <1>2, <1>4 DEF Overdue
  <2>2. consecutiveFailures - 1 \in Nat /\ (consecutiveFailures - 1) + 1 = consecutiveFailures
    BY <1>2, <1>4
  <2>3. Pings(consecutiveFailures) = Pings(consecutiveFailures - 1) + HeartbeatTicks
    BY <2>2, PingsAdd
  <2>4. Pings(consecutiveFailures) \in Nat  BY <1>2, PingsAdd
  <2>5. a >= Pings(consecutiveFailures') + SincePing' /\ a \in waiting'
    BY <1>1, <1>2, <2>1, <2>3, <2>4
  <2> QED BY <1>1, <2>5 DEF Overdue
<1> QED BY <1>2, <1>3, <1>4

LEMMA AlarmCheck ==
  ASSUME AlarmInv, CheckFires, NoAnswerOutlastsMisses
  PROVE  (connected' => Overdue') /\ NoFalseAlarm'
<1>1. /\ connected /\ check = 0 /\ SincePing = PongTicks /\ SincePing' = SincePing /\ pendingPing' = FALSE
      /\ alive' = alive /\ Overdue
      /\ consecutiveFailures \in Nat /\ consecutiveFailures < MaxConsecutiveFailures
      /\ waiting \subseteq Nat
  BY HeartbeatConstants DEF AlarmInv, CheckFires, Timers, HeartbeatTypeOK, SincePing, NoCheck
<1> HIDE DEF SincePing
<1>2. CASE ~pendingPing
  <2>1. UNCHANGED <<connected, consecutiveFailures, waiting>>  BY <1>2 DEF CheckFires
  <2> QED BY <1>1, <1>2, <2>1 DEF Overdue, NoFalseAlarm
<1>3. CASE pendingPing /\ consecutiveFailures + 1 < MaxConsecutiveFailures
  <2>1. consecutiveFailures' = consecutiveFailures + 1 /\ UNCHANGED <<connected, waiting>>
    BY <1>3 DEF CheckFires
  <2>2. consecutiveFailures' - 1 = consecutiveFailures  BY <1>1, <2>1
  <2>3. PICK a \in waiting : a >= Pings(consecutiveFailures) + SincePing  BY <1>1, <1>3 DEF Overdue
  <2> QED BY <1>1, <2>1, <2>2, <2>3 DEF Overdue, NoFalseAlarm
<1>4. CASE pendingPing /\ ~(consecutiveFailures + 1 < MaxConsecutiveFailures)
  <2>1. connected' = FALSE  BY <1>4 DEF CheckFires
  <2>2. PICK a \in waiting : a >= Pings(consecutiveFailures) + PongTicks  BY <1>1, <1>4 DEF Overdue
  <2>3. consecutiveFailures = MaxConsecutiveFailures - 1  BY <1>1, <1>4, HeartbeatConstants
  <2>4. a > AnswerWithin
    <3>1. Pings(consecutiveFailures) \in Nat  BY <1>1, PingsAdd
    <3> QED BY <1>1, <2>2, <2>3, <3>1, HeartbeatConstants DEF NoAnswerOutlastsMisses
  <2>5. ~alive  BY <1>1, <2>2, <2>4, HeartbeatConstants DEF AlarmInv, Timers
  <2> QED BY <1>1, <2>1, <2>5 DEF NoFalseAlarm
<1> QED BY <1>2, <1>3, <1>4

LEMMA AlarmStep == ASSUME AlarmInv, [HeartbeatNext]_heartbeatVars, NoAnswerOutlastsMisses PROVE AlarmInv'
<1>0. Timers'  BY TimersStep DEF AlarmInv
<1>1. CASE TimePasses
  BY <1>0, <1>1, AlarmTick DEF AlarmInv, NoFalseAlarm, TimePasses
<1>2. CASE HeartbeatFires
  BY <1>0, <1>2, AlarmHeartbeat DEF AlarmInv, NoFalseAlarm, HeartbeatFires
<1>3. CASE CheckFires  BY <1>0, <1>3, AlarmCheck DEF AlarmInv
<1>4. CASE Pong \/ SweepFires
  <2>1. /\ \/ ~pendingPing' /\ consecutiveFailures' = 0
           \/ UNCHANGED <<pendingPing, consecutiveFailures, waiting>>
        /\ UNCHANGED <<requestTimeout, heartbeat, check, alive, silent, connected>>
    BY <1>4, TimersPong DEF AlarmInv
  <2> QED BY <1>0, <2>1 DEF AlarmInv, NoFalseAlarm, Overdue, SincePing
<1>5. CASE DaemonWedges \/ UNCHANGED heartbeatVars
  <2>1. /\ UNCHANGED <<connected, requestTimeout, heartbeat, sweep, check, pendingPing, consecutiveFailures, waiting, silent>>
        /\ (alive' => alive)
    BY <1>5 DEF DaemonWedges, heartbeatVars
  <2> QED BY <1>0, <2>1 DEF AlarmInv, NoFalseAlarm, Overdue, SincePing
<1> QED BY <1>1, <1>2, <1>3, <1>4, <1>5 DEF HeartbeatNext

(* A daemon that is busy for less than the misses allowed and the last check   *)
(* is never taken for a dead one: handlePong clears the count of misses.       *)
THEOREM BusyDaemonIsKept == ASSUME NoAnswerOutlastsMisses PROVE HeartbeatSpec => []NoFalseAlarm
<1>1. AlarmInv => NoFalseAlarm  BY DEF AlarmInv
<1> QED BY <1>1, AlarmInit, AlarmStep, PTL DEF HeartbeatSpec

-----------------------------------------------------------------------------
(* A daemon that has gone silent. *)

(* The ping that would be the last to be missed was given up by the sweep.     *)
LEMMA QuietCheck ==
  ASSUME QuietInv, CheckFires, SweepComesFirst
  PROVE  connected' /\ Overdue'
<1>1. /\ SincePing = PongTicks /\ SincePing' = SincePing /\ pendingPing' = FALSE /\ Overdue
      /\ connected = TRUE
      /\ consecutiveFailures \in Nat /\ consecutiveFailures < MaxConsecutiveFailures
      /\ waiting \subseteq Nat /\ requestTimeout \in RequestTimeouts /\ requestTimeout \in Nat
      /\ sweep \in Nat /\ \A a \in waiting : a <= requestTimeout + SweepTicks - sweep
  BY HeartbeatConstants DEF QuietInv, CheckFires, Timers, HeartbeatTypeOK, SincePing, NoCheck
<1> HIDE DEF SincePing
<1>2. CASE ~pendingPing
  <2>1. UNCHANGED <<connected, consecutiveFailures, waiting>>  BY <1>2 DEF CheckFires
  <2> QED BY <1>1, <1>2, <2>1 DEF Overdue
<1>3. CASE pendingPing /\ consecutiveFailures + 1 < MaxConsecutiveFailures
  <2>1. consecutiveFailures' = consecutiveFailures + 1 /\ UNCHANGED <<connected, waiting>>
    BY <1>3 DEF CheckFires
  <2>2. consecutiveFailures' - 1 = consecutiveFailures  BY <1>1, <2>1
  <2>3. PICK a \in waiting : a >= Pings(consecutiveFailures) + SincePing  BY <1>1, <1>3 DEF Overdue
  <2> QED BY <1>1, <2>1, <2>2, <2>3 DEF Overdue
<1>4. CASE pendingPing /\ ~(consecutiveFailures + 1 < MaxConsecutiveFailures)
  <2>1. PICK a \in waiting : a >= Pings(consecutiveFailures) + PongTicks  BY <1>1, <1>4 DEF Overdue
  <2>2. consecutiveFailures = MaxConsecutiveFailures - 1  BY <1>1, <1>4, HeartbeatConstants
  <2>3. Pings(consecutiveFailures) \in Nat  BY <1>1, PingsAdd
  <2>4. requestTimeout + SweepTicks < Pings(consecutiveFailures) + PongTicks
    BY <1>1, <2>2 DEF SweepComesFirst
  <2> QED BY <1>1, <2>1, <2>3, <2>4, HeartbeatConstants
<1> QED BY <1>2, <1>3, <1>4

LEMMA QuietStep == ASSUME QuietInv, [HeartbeatNext]_heartbeatVars, SweepComesFirst PROVE QuietInv'
<1>0. Timers' /\ AlarmInv  BY TimersStep DEF QuietInv, AlarmInv, NoFalseAlarm
<1>1. CASE TimePasses  BY <1>0, <1>1, AlarmTick DEF QuietInv, TimePasses
<1>2. CASE HeartbeatFires  BY <1>0, <1>2, AlarmHeartbeat DEF QuietInv, HeartbeatFires
<1>3. CASE CheckFires  BY <1>0, <1>3, QuietCheck DEF QuietInv
<1>4. CASE Pong \/ SweepFires
  <2>1. /\ \/ ~pendingPing' /\ consecutiveFailures' = 0
           \/ UNCHANGED <<pendingPing, consecutiveFailures, waiting>>
        /\ UNCHANGED <<heartbeat, connected>>
    BY <1>4, TimersPong DEF QuietInv
  <2> QED BY <1>0, <2>1 DEF QuietInv, Overdue, SincePing
<1>5. CASE DaemonWedges \/ UNCHANGED heartbeatVars
  <2>1. UNCHANGED <<connected, heartbeat, pendingPing, consecutiveFailures, waiting>>
    BY <1>5 DEF DaemonWedges, heartbeatVars
  <2> QED BY <1>0, <2>1 DEF QuietInv, Overdue, SincePing
<1> QED BY <1>1, <1>2, <1>3, <1>4, <1>5 DEF HeartbeatNext

(* With the request timeout the program ships no silence is ever noticed: the  *)
(* sweep calls the handler of the first unanswered ping before the third check, *)
(* and the handler, which does not look at the result, ends the run of misses. *)
THEOREM SilenceGoesUnnoticed == ASSUME SweepComesFirst PROVE HeartbeatSpec => []connected
<1>1. HeartbeatInit => QuietInv
  <2> SUFFICES ASSUME HeartbeatInit PROVE QuietInv
    OBVIOUS
  <2> QED BY TimersInit DEF HeartbeatInit, QuietInv, Overdue
<1>2. QuietInv => connected  BY DEF QuietInv
<1> QED BY <1>1, <1>2, QuietStep, PTL DEF HeartbeatSpec

-----------------------------------------------------------------------------
(****************************************************************************)
(* EcatReconnect: the connect timeout, the backoff and the delayed retries. *)
(****************************************************************************)

(* The inductive invariant.                                                    *)
ReconnectInv == TypeOK /\ NeverStranded /\ AttemptsAreWatched

-----------------------------------------------------------------------------
(* The timers. *)

LEMMA ReconnectConstants ==
  /\ ConnectTimeout \in Nat \ {0} /\ RetryTicks \in Nat \ {0} /\ MaxConnectAttempts \in Nat \ {0}
  /\ FirstInterval \in Nat \ {0} /\ MaxInterval \in Nat \ {0} /\ FirstInterval <= MaxInterval
  /\ UserConnects \in Nat /\ NetChanges \in Nat
BY ReconnectAssumption

(* An armed reconnect timer stays armed, one that is off is armed.             *)
LEMMA Armed == ASSUME ReconnectInv, Schedule PROVE reconnectTimer' \in 0 .. MaxInterval
BY ReconnectConstants DEF ReconnectInv, TypeOK, Schedule, Off

LEMMA ReconnectInit == Init => ReconnectInv
BY ReconnectConstants DEF Init, ReconnectInv, TypeOK, NeverStranded, AttemptsAreWatched,
   Pending, Off

-----------------------------------------------------------------------------
(* The steps. *)

LEMMA ConnectKeeps == ASSUME ReconnectInv, connectToDaemon PROVE ReconnectInv'
<1>1. TypeOK'  BY ReconnectConstants DEF ReconnectInv, TypeOK, connectToDaemon, Dial, Off
<1>2. NeverStranded'  BY DEF NeverStranded, connectToDaemon
<1>3. AttemptsAreWatched'
  BY ReconnectConstants DEF ReconnectInv, AttemptsAreWatched, connectToDaemon, Dial, Off
<1> QED BY <1>1, <1>2, <1>3 DEF ReconnectInv

LEMMA EstablishedKeeps == ASSUME ReconnectInv, Established PROVE ReconnectInv'
BY ReconnectConstants DEF ReconnectInv, TypeOK, NeverStranded, AttemptsAreWatched, Pending,
   Established, bounds, Off

(* The attempt ends without a connection: another one is armed, unless the     *)
(* client gives up.                                                            *)
LEMMA FailedKeeps == ASSUME ReconnectInv, Refused \/ ConnectTimeoutFires PROVE ReconnectInv'
<1>1. failures' = failures + 1 /\ state' = "Disconnected" /\ socket' = "idle" /\ connectTimer' = Off
      /\ dialling' = 0 /\ UNCHANGED <<net, retries, interval, bounds, lastDelay>>
  BY DEF Refused, ConnectTimeoutFires
<1>2. \/ GivenUp' /\ reconnectTimer' = reconnectTimer
      \/ reconnectTimer' \in 0 .. MaxInterval
  BY Armed DEF Refused, ConnectTimeoutFires, GivenUp, ReconnectInv
<1>3. TypeOK'  BY <1>1, <1>2, ReconnectConstants DEF ReconnectInv, TypeOK, bounds, Off
<1>4. NeverStranded'  BY <1>2 DEF NeverStranded, Off
<1>5. AttemptsAreWatched'  BY <1>1 DEF AttemptsAreWatched, Pending
<1> QED BY <1>3, <1>4, <1>5 DEF ReconnectInv

LEMMA ReconnectKeeps == ASSUME ReconnectInv, ReconnectFires PROVE ReconnectInv'
<1>1. CASE state = "Connected" \/ GivenUp
  <2>1. reconnectTimer' = Off
        /\ UNCHANGED <<state, socket, connectTimer, retries, dialling, lastDelay>>
        /\ UNCHANGED <<net, interval, failures, bounds>>
    BY <1>1 DEF ReconnectFires
  <2> QED BY <1>1, <2>1, ReconnectConstants
          DEF ReconnectInv, TypeOK, NeverStranded, AttemptsAreWatched, GivenUp, bounds, Off
<1>2. CASE ~(state = "Connected" \/ GivenUp)
  <2>1. /\ reconnectTimer' = Off /\ state' = "Reconnecting" /\ connectTimer' = ConnectTimeout /\ Dial
        /\ retries' = retries \cup {RetryTicks} /\ lastDelay' = interval
        /\ UNCHANGED <<net, interval, failures, bounds>>
    BY <1>2 DEF ReconnectFires
  <2>2. TypeOK'
    <3>1. reconnectTimer' \in Off .. MaxInterval /\ connectTimer' \in Off .. ConnectTimeout
          /\ lastDelay' \in 0 .. MaxInterval
      <4>1. /\ ConnectTimeout \in Nat \ {0} /\ FirstInterval \in Nat \ {0} /\ MaxInterval \in Nat
            /\ interval \in FirstInterval .. MaxInterval
        BY ReconnectConstants DEF ReconnectInv, TypeOK
      <4> QED BY <2>1, <4>1 DEF Off
    <3>2. retries' \subseteq 0 .. RetryTicks
      <4>1. RetryTicks \in Nat /\ retries \subseteq 0 .. RetryTicks
        BY ReconnectConstants DEF ReconnectInv, TypeOK
      <4> QED BY <2>1, <4>1
    <3>3. socket' = "connecting" /\ dialling' \in Nat
      BY <2>1 DEF Dial, ReconnectInv, TypeOK
    <3> QED BY <2>1, <3>1, <3>2, <3>3 DEF ReconnectInv, TypeOK, bounds
  <2>3. NeverStranded' /\ AttemptsAreWatched'
    BY <2>1, ReconnectConstants DEF ReconnectInv, NeverStranded, AttemptsAreWatched, Dial, Off
  <2> QED BY <2>2, <2>3 DEF ReconnectInv
<1> QED BY <1>1, <1>2

LEMMA RetryKeeps == ASSUME ReconnectInv, RetryFires PROVE ReconnectInv'
<1>1. interval' \in FirstInterval .. MaxInterval
      /\ (reconnectTimer' = reconnectTimer \/ reconnectTimer' \in 0 .. MaxInterval)
  BY ReconnectConstants DEF RetryFires, ReconnectInv, TypeOK, Off
<1>2. /\ retries' \subseteq retries
      /\ UNCHANGED <<state, socket, net, connectTimer, failures, bounds, dialling, lastDelay>>
  BY DEF RetryFires
<1>3. TypeOK'  BY <1>1, <1>2, ReconnectConstants DEF ReconnectInv, TypeOK, bounds, Off
<1> QED BY <1>1, <1>2, <1>3
        DEF ReconnectInv, TypeOK, NeverStranded, AttemptsAreWatched, GivenUp, bounds, Off

LEMMA DroppedKeeps == ASSUME ReconnectInv, Dropped PROVE ReconnectInv'
<1>1. reconnectTimer' \in 0 .. MaxInterval  BY Armed DEF Dropped, ReconnectInv
<1>2. TypeOK'  BY <1>1, ReconnectConstants DEF ReconnectInv, TypeOK, Dropped, bounds, Off
<1> QED BY <1>1, <1>2 DEF ReconnectInv, NeverStranded, AttemptsAreWatched, Pending, Dropped,
         Off

LEMMA TickKeeps == ASSUME ReconnectInv, Tick PROVE ReconnectInv'
<1>1. /\ connectTimer' \in Off .. ConnectTimeout /\ (connectTimer # Off => connectTimer' # Off)
      /\ reconnectTimer' \in Off .. MaxInterval /\ (reconnectTimer # Off => reconnectTimer' # Off)
  BY ReconnectConstants DEF ReconnectInv, TypeOK, Tick, Off
<1>2. retries' \subseteq 0 .. RetryTicks
  <2>1. \A t \in retries : t \in 1 .. RetryTicks
    BY ReconnectConstants DEF ReconnectInv, TypeOK, Tick
  <2>2. \A t \in retries : t - 1 \in 0 .. RetryTicks  BY <2>1, ReconnectConstants
  <2> QED BY <2>2 DEF Tick
<1>3. dialling' \in Nat /\ UNCHANGED <<state, socket, net, interval, failures, bounds, lastDelay>>
  BY DEF ReconnectInv, TypeOK, Tick
<1>4. TypeOK'  BY <1>1, <1>2, <1>3 DEF ReconnectInv, TypeOK, bounds
<1> QED BY <1>1, <1>3, <1>4 DEF ReconnectInv, NeverStranded, AttemptsAreWatched, GivenUp, bounds

LEMMA NetKeeps == ASSUME ReconnectInv, NetChange \/ UNCHANGED vars PROVE ReconnectInv'
<1>1. UNCHANGED <<state, socket, timers, interval, failures, users, dialling, lastDelay>>
      /\ net' \in {"up", "refused", "lost"} /\ changes' \in 0 .. NetChanges
  BY ReconnectConstants DEF ReconnectInv, TypeOK, NetChange, vars, bounds
<1> QED BY <1>1 DEF ReconnectInv, TypeOK, NeverStranded, AttemptsAreWatched, GivenUp, timers

-----------------------------------------------------------------------------
(* The invariant, and what it gives. *)

(* No order of refusals, timeouts, drops and late singleShots breaks it.       *)
THEOREM ReconnectInvariant == Spec => []ReconnectInv
<1>1. ASSUME ReconnectInv, [Next]_vars PROVE ReconnectInv'
  BY <1>1, ConnectKeeps, EstablishedKeeps, FailedKeeps, ReconnectKeeps, RetryKeeps, DroppedKeeps,
     TickKeeps, NetKeeps DEF Next, EventLoop
<1> QED BY ReconnectInit, <1>1, PTL DEF Spec

(* The timers stay within their periods, and the backoff within its limits.    *)
THEOREM ReconnectTypeCorrect == Spec => []TypeOK
BY ReconnectInvariant, PTL DEF ReconnectInv

(* scheduleReconnect, whoever calls it, leaves a timer armed: a client that is *)
(* disconnected and has not given up will try again.                           *)
THEOREM ClientIsNeverStranded == Spec => []NeverStranded
BY ReconnectInvariant, PTL DEF ReconnectInv

(* Every attempt, the user's or a reconnect, runs under the connect timeout.   *)
THEOREM EveryAttemptIsWatched == Spec => []AttemptsAreWatched
BY ReconnectInvariant, PTL DEF ReconnectInv
=============================================================================
