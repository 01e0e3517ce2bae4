---------------------------- MODULE EcatReconnect ----------------------------
(****************************************************************************)
(* How the Studio's EcatClient opens its connection and comes back after a  *)
(* loss (EcatClient.cpp): the connect timeout, the single reconnect timer,  *)
(* the check five seconds after every attempt, and the failure counter they *)
(* share.  Time runs in ticks of one second; a timer that is due runs       *)
(* before time goes on.  Auto-reconnect is enabled, as it is by default.    *)
(****************************************************************************)
EXTENDS Integers, FiniteSets

CONSTANTS
  ConnectTimeout,      \* kConnectTimeoutMs (10 s)
  RetryTicks,          \* the singleShot of attemptReconnect (5 s)
  FirstInterval,       \* reconnectIntervalMs_ after a connect (2 s)
  MaxInterval,         \* kMaxReconnectMs (30 s)
  MaxConnectAttempts,  \* kMaxConnectAttempts
  UserConnects,        \* bound: calls of connectToDaemon
  NetChanges           \* bound: changes of the network

ASSUME ReconnectAssumption ==
  /\ {ConnectTimeout, RetryTicks, FirstInterval, MaxInterval, MaxConnectAttempts} \subseteq Nat \ {0}
  /\ FirstInterval <= MaxInterval
  /\ {UserConnects, NetChanges} \subseteq Nat

VARIABLES
  state,             \* connectionState_
  socket,            \* state of the QTcpSocket
  net,               \* what a SYN meets: "up", "refused" or "lost"
  connectTimer, reconnectTimer, \* ticks left, or Off
  retries,           \* ticks left of each pending singleShot
  interval,          \* reconnectIntervalMs_
  failures,          \* connectFailures_
  users, changes,    \* bounds
  dialling,          \* history: ticks the socket has been connecting
  lastDelay          \* history: interval of the last attempt since a connect, or 0

timers == <<connectTimer, reconnectTimer, retries>>
bounds == <<users, changes>>
vars == <<state, socket, net, timers, interval, failures, bounds, dialling, lastDelay>>

Off == -1
Pending == {"Connecting", "Reconnecting"}
GivenUp == failures >= MaxConnectAttempts

Init ==
  /\ state = "Disconnected" /\ socket = "idle" /\ net \in {"up", "refused", "lost"}
  /\ connectTimer = Off /\ reconnectTimer = Off /\ retries = {}
  /\ interval = FirstInterval /\ failures = 0
  /\ users = 0 /\ changes = 0 /\ dialling = 0 /\ lastDelay = 0

(* scheduleReconnect: an armed timer is left alone. *)
Schedule == reconnectTimer' = IF reconnectTimer = Off THEN interval ELSE reconnectTimer

(* QAbstractSocket::connectToHost does nothing on a socket that is connecting. *)
Dial ==
  /\ socket' = "connecting"
  /\ dialling' = IF socket = "connecting" THEN dialling ELSE 0

connectToDaemon ==
  /\ state \notin {"Connected", "Connecting"} /\ users < UserConnects
  /\ users' = users + 1
  /\ state' = "Connecting" /\ connectTimer' = ConnectTimeout /\ Dial
  /\ UNCHANGED <<net, reconnectTimer, retries, interval, failures, changes, lastDelay>>

(* The connected signal. *)
Established ==
  /\ socket = "connecting" /\ net = "up"
  /\ socket' = "connected" /\ state' = "Connected" /\ connectTimer' = Off
  /\ failures' = 0 /\ interval' = FirstInterval /\ lastDelay' = 0 /\ dialling' = 0
  /\ UNCHANGED <<net, reconnectTimer, retries, bounds>>

RefusedUnscheduled == \* mutant: a failed connect does not arm the reconnect timer
  /\ socket = "connecting" /\ net = "refused"
  /\ socket' = "idle" /\ state' = "Disconnected" /\ connectTimer' = Off /\ dialling' = 0
  /\ failures' = failures + 1
  /\ UNCHANGED <<net, reconnectTimer, retries, interval, bounds, lastDelay>>

(* The errorOccurred signal while a connect is being attempted. *)
Refused ==
  /\ socket = "connecting" /\ net = "refused"
  /\ socket' = "idle" /\ state' = "Disconnected" /\ connectTimer' = Off /\ dialling' = 0
  /\ failures' = failures + 1
  /\ IF failures' >= MaxConnectAttempts THEN UNCHANGED reconnectTimer ELSE Schedule
  /\ UNCHANGED <<net, retries, interval, bounds, lastDelay>>

(* setupConnectTimeout: abort() may emit disconnected, whose handler schedules *)
(* a reconnect before the failure is counted.                                  *)
ConnectTimeoutFires ==
  /\ connectTimer = 0
  /\ connectTimer' = Off
  /\ socket' = "idle" /\ state' = "Disconnected" /\ dialling' = 0
  /\ failures' = failures + 1
  /\ \E disconnectedEmitted \in BOOLEAN :
       IF failures' >= MaxConnectAttempts /\ ~disconnectedEmitted
         THEN UNCHANGED reconnectTimer ELSE Schedule
  /\ UNCHANGED <<net, retries, interval, bounds, lastDelay>>

ReconnectUnwatched == \* mutant: a reconnect attempt has no connect timeout
  /\ reconnectTimer = 0
  /\ reconnectTimer' = Off
  /\ IF state = "Connected" \/ GivenUp
       THEN UNCHANGED <<state, socket, connectTimer, retries, dialling, lastDelay>>
       ELSE /\ state' = "Reconnecting" /\ Dial
            /\ retries' = retries \cup {RetryTicks} /\ lastDelay' = interval
            /\ UNCHANGED connectTimer
  /\ UNCHANGED <<net, interval, failures, bounds>>

(* attemptReconnect. *)
ReconnectFires ==
  /\ reconnectTimer = 0
  /\ reconnectTimer' = Off
  /\ IF state = "Connected" \/ GivenUp
       THEN UNCHANGED <<state, socket, connectTimer, retries, dialling, lastDelay>>
       ELSE /\ state' = "Reconnecting" /\ connectTimer' = ConnectTimeout /\ Dial
            /\ retries' = retries \cup {RetryTicks} /\ lastDelay' = interval
  /\ UNCHANGED <<net, interval, failures, bounds>>

(* The singleShot of attemptReconnect: advance the backoff and re-arm. *)
RetryFires ==
  /\ 0 \in retries
  /\ retries' = retries \ {0}
  /\ IF state = "Connected" \/ GivenUp
       THEN UNCHANGED <<interval, reconnectTimer>>
       ELSE /\ interval' = IF 2 * interval < MaxInterval THEN 2 * interval ELSE MaxInterval
            /\ reconnectTimer' = IF reconnectTimer = Off THEN interval' ELSE reconnectTimer
  /\ UNCHANGED <<state, socket, net, connectTimer, failures, bounds, dialling, lastDelay>>

(* The disconnected signal of an established connection. *)
Dropped ==
  /\ socket = "connected" /\ net # "up"
  /\ socket' = "idle" /\ state' = "Disconnected" /\ Schedule
  /\ UNCHANGED <<net, connectTimer, retries, interval, failures, bounds, dialling, lastDelay>>

NetChange ==
  /\ changes < NetChanges /\ changes' = changes + 1
  /\ net' \in {"up", "refused", "lost"} \ {net}
  /\ UNCHANGED <<state, socket, timers, interval, failures, users, dialling, lastDelay>>

(* A SYN that meets a host is answered at once. *)
Tick ==
  /\ connectTimer # 0 /\ reconnectTimer # 0 /\ 0 \notin retries
  /\ ~(socket = "connecting" /\ net # "lost") /\ ~(socket = "connected" /\ net # "up")
  /\ connectTimer # Off \/ reconnectTimer # Off \/ retries # {}
  /\ connectTimer' = IF connectTimer = Off THEN Off ELSE connectTimer - 1
  /\ reconnectTimer' = IF reconnectTimer = Off THEN Off ELSE reconnectTimer - 1
  /\ retries' = {t - 1 : t \in retries}
  /\ dialling' = IF socket = "connecting" THEN dialling + 1 ELSE 0
  /\ UNCHANGED <<state, socket, net, interval, failures, bounds, lastDelay>>

EventLoop == \/ Established \/ Refused \/ ConnectTimeoutFires \/ ReconnectFires
             \/ RetryFires \/ Dropped \/ Tick
Next == connectToDaemon \/ NetChange \/ EventLoop

(* Time passes and the event loop serves its timers and its socket. *)
Spec == Init /\ [][Next]_vars /\ WF_vars(EventLoop)

-----------------------------------------------------------------------------
(* Properties. *)

TypeOK ==
  /\ state \in {"Disconnected", "Connecting", "Connected", "Reconnecting"}
  /\ socket \in {"idle", "connecting", "connected"} /\ net \in {"up", "refused", "lost"}
  /\ connectTimer \in Off..ConnectTimeout /\ reconnectTimer \in Off..MaxInterval
  /\ retries \subseteq 0..RetryTicks /\ interval \in FirstInterval..MaxInterval
  /\ failures \in Nat /\ users \in 0..UserConnects /\ changes \in 0..NetChanges
  /\ dialling \in Nat /\ lastDelay \in 0..MaxInterval

(* Once the user has asked for a connection, a client that is not connected   *)
(* and has not given up always has a timer that will make it try again: no    *)
(* order of refusals, timeouts, drops and late singleShots strands it.        *)
NeverStranded ==
  users > 0 /\ state = "Disconnected" /\ ~GivenUp => reconnectTimer # Off

(* An attempt in progress is always watched by the connect timeout, and the   *)
(* socket really is connecting.                                               *)
AttemptsAreWatched == state \in Pending => connectTimer # Off /\ socket = "connecting"

(* A daemon that stays reachable is reached, or the client has given up. *)
Recovers == users > 0 /\ state # "Connected" ~> state = "Connected" \/ GivenUp \/ net # "up"

(* A connect that hangs is aborted after kConnectTimeoutMs                    *)
(* (EcatClient.cpp:142, "aborts if connect hangs beyond kConnectTimeoutMs").  *)
HangingConnectAborted == socket = "connecting" => dialling <= ConnectTimeout

(* Attempts that follow a failed one wait longer than it did                  *)
(* (EcatClient.cpp:774, "with exponential backoff").                          *)
RetriesBackOff == [][lastDelay > 0 /\ ReconnectFires /\ state' = "Reconnecting"
                     => interval > lastDelay]_vars
=============================================================================
