---------------------------- MODULE EcatHeartbeat ----------------------------
(****************************************************************************)
(* How the Studio's EcatClient tells that a connected daemon has gone       *)
(* silent (EcatClient.cpp, setupAutoReconnect and sweepTimedOutRequests):   *)
(* three timers of one Qt event loop that share pendingPing_ and            *)
(* consecutiveFailures_.  Time runs in ticks of 500 ms; a timer that is due *)
(* runs before time goes on, and timers due together run in any order.      *)
(****************************************************************************)
EXTENDS Integers, FiniteSets, FiniteSetsExt

CONSTANTS
  HeartbeatTicks,    \* period of the ping (5 s)
  PongTicks,         \* wait before a ping counts as missed (3.5 s)
  SweepTicks,        \* period of the request sweep (2 s)
  RequestTimeouts,   \* values of requestTimeoutMs_: 10 s as shipped, others by setRequestTimeout
  MaxConsecutiveFailures,
  AnswerWithin,      \* a daemon that is alive answers a ping within this time
  SilentBound        \* bound of the history variable silent

ASSUME HeartbeatAssumption ==
  /\ {HeartbeatTicks, PongTicks, SweepTicks, MaxConsecutiveFailures,
      AnswerWithin, SilentBound} \subseteq Nat \ {0}
  /\ RequestTimeouts \subseteq Nat \ {0}
  /\ PongTicks < HeartbeatTicks     \* one singleShot at a time

VARIABLES
  connected,           \* connectionState_ is Connected
  requestTimeout,      \* requestTimeoutMs_
  heartbeat, sweep,    \* ticks until the periodic timer fires
  check,               \* ticks until the singleShot after the last ping, or NoCheck
  pendingPing, consecutiveFailures,
  waiting,             \* ages of the pings whose handler is still registered
  alive,               \* the daemon still answers
  silent               \* history: ticks since the daemon stopped answering

heartbeatVars == <<connected, requestTimeout, heartbeat, sweep, check, pendingPing,
                   consecutiveFailures, waiting, alive, silent>>
NoCheck == -1

(* The connected handler starts both timers; enableAutoReconnect may start the *)
(* heartbeat later, so their phase is free.                                    *)
HeartbeatInit ==
  /\ connected = TRUE /\ requestTimeout \in RequestTimeouts
  /\ heartbeat \in 1..HeartbeatTicks /\ sweep = SweepTicks /\ check = NoCheck
  /\ pendingPing = FALSE /\ consecutiveFailures = 0 /\ waiting = {}
  /\ alive = TRUE /\ silent = 0

TimePasses ==
  /\ connected
  /\ heartbeat > 0 /\ sweep > 0 /\ check # 0
  /\ alive => \A a \in waiting : a < AnswerWithin
  /\ heartbeat' = heartbeat - 1 /\ sweep' = sweep - 1
  /\ check' = IF check = NoCheck THEN NoCheck ELSE check - 1
  /\ waiting' = {a + 1 : a \in waiting}
  /\ silent' = IF alive \/ silent = SilentBound THEN silent ELSE silent + 1
  /\ UNCHANGED <<connected, requestTimeout, pendingPing, consecutiveFailures, alive>>

HeartbeatFires ==
  /\ connected /\ heartbeat = 0
  /\ heartbeat' = HeartbeatTicks
  /\ IF pendingPing
       THEN UNCHANGED <<pendingPing, waiting, check>>
       ELSE pendingPing' = TRUE /\ waiting' = waiting \cup {0} /\ check' = PongTicks
  /\ UNCHANGED <<connected, requestTimeout, sweep, consecutiveFailures, alive, silent>>

(* The singleShot of the last ping.  At the third miss the link is declared   *)
(* dead: abort() runs the disconnected handler, which calls the handlers of   *)
(* all pending requests, those of the pings included.                         *)
CheckFires ==
  /\ connected /\ check = 0
  /\ check' = NoCheck
  /\ pendingPing' = FALSE
  /\ IF ~pendingPing
       THEN UNCHANGED <<connected, consecutiveFailures, waiting>>
       ELSE IF consecutiveFailures + 1 < MaxConsecutiveFailures
         THEN /\ consecutiveFailures' = consecutiveFailures + 1
              /\ UNCHANGED <<connected, waiting>>
         ELSE /\ connected' = FALSE /\ waiting' = {}
              /\ consecutiveFailures' =
                   IF waiting = {} THEN consecutiveFailures + 1 ELSE 0
  /\ UNCHANGED <<requestTimeout, heartbeat, sweep, alive, silent>>

PingHandlerKeepsFailures(remaining) == \* mutant: a pong does not end the run of misses
  /\ pendingPing' = FALSE /\ waiting' = remaining
  /\ UNCHANGED consecutiveFailures

(* The handler of a ping: it does not look at the result. *)
PingHandler(remaining) ==
  /\ pendingPing' = FALSE /\ consecutiveFailures' = 0
  /\ waiting' = remaining

SweepFires ==
  /\ connected /\ sweep = 0
  /\ sweep' = SweepTicks
  /\ LET kept == {a \in waiting : a <= requestTimeout}
     IN IF kept = waiting
          THEN UNCHANGED <<pendingPing, consecutiveFailures, waiting>>
          ELSE PingHandler(kept)
  /\ UNCHANGED <<connected, requestTimeout, heartbeat, check, alive, silent>>

(* The daemon answers its pings in order. *)
Pong ==
  /\ connected /\ alive /\ waiting # {}
  /\ PingHandler(waiting \ {Max(waiting)})
  /\ UNCHANGED <<connected, requestTimeout, heartbeat, sweep, check, alive, silent>>

DaemonWedges ==
  /\ connected /\ alive /\ alive' = FALSE
  /\ UNCHANGED <<connected, requestTimeout, heartbeat, sweep, check, pendingPing,
                 consecutiveFailures, waiting, silent>>

HeartbeatNext == TimePasses \/ HeartbeatFires \/ CheckFires \/ SweepFires \/ Pong \/ DaemonWedges

(* Time passes and the event loop runs. *)
HeartbeatSpec ==
  /\ HeartbeatInit /\ [][HeartbeatNext]_heartbeatVars
  /\ WF_heartbeatVars(TimePasses) /\ WF_heartbeatVars(HeartbeatFires)
  /\ WF_heartbeatVars(CheckFires) /\ WF_heartbeatVars(SweepFires)

-----------------------------------------------------------------------------
(* Properties. *)

HeartbeatTypeOK ==
  /\ connected \in BOOLEAN /\ alive \in BOOLEAN /\ pendingPing \in BOOLEAN
  /\ heartbeat \in 0..HeartbeatTicks /\ sweep \in 0..SweepTicks /\ check \in NoCheck..PongTicks
  /\ consecutiveFailures \in 0..MaxConsecutiveFailures
  /\ waiting \subseteq 0..(requestTimeout + SweepTicks) /\ silent \in 0..SilentBound
  /\ requestTimeout \in RequestTimeouts

(* A daemon that stops answering while its TCP link stays up is noticed: the  *)
(* link is declared dead and a reconnect is armed (EcatClient.cpp:711,        *)
(* "Heartbeat: ping daemon every 5s to detect silent disconnects").           *)
DeadDaemonDetected == ~alive ~> ~connected

(* A daemon that answers, however long one call blocks its event loop below   *)
(* three misses, is never declared dead (kMaxConsecutiveFailures).            *)
NoFalseAlarm == alive => connected
=============================================================================
