----------------------------- MODULE MCEcatTimers -----------------------------
(****************************************************************************)
(* The timers of EcatClient for TLC.  The heartbeat watches a client that   *)
(* is connected, the others one that is not: a behaviour is either of a     *)
(* connection under watch, with the timers of EcatReconnect at rest, or of  *)
(* a client that connects and reconnects, with the heartbeat at rest.       *)
(****************************************************************************)
EXTENDS EcatHeartbeat, EcatReconnect, TLC

VARIABLE watched

timersVars == <<heartbeatVars, vars, watched>>

TimersInit ==
  /\ HeartbeatInit /\ Init
  /\ \/ watched = TRUE /\ net = "up"
     \/ watched = FALSE /\ heartbeat = HeartbeatTicks /\ requestTimeout = Min(RequestTimeouts)

Heartbeats == watched /\ HeartbeatNext /\ UNCHANGED <<vars, watched>>
Reconnects == ~watched /\ Next /\ UNCHANGED <<heartbeatVars, watched>>
ServesReconnects == ~watched /\ EventLoop /\ UNCHANGED <<heartbeatVars, watched>>

(* What happens to a connection under watch ends in no promise that needs      *)
(* fairness; the client that reconnects is served by its event loop.           *)
TimersSpec == TimersInit /\ [][Heartbeats \/ Reconnects]_timersVars /\ WF_timersVars(ServesReconnects)
=============================================================================
