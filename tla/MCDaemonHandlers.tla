-------------------------- MODULE MCDaemonHandlers --------------------------
(* Two slaves; change lists of one slave twice, of both, and of one.  Two calls  *)
(* among failures and falls; or two sessions with an activation before, between *)
(* or within them (start, stop, start, activate and one more), and one other    *)
(* call, which may be an online change that holds up the poll.                  *)
EXTENDS DaemonHandlers

MCSlaves  == 0 .. 1
MCChanges == {<<[pos |-> 1, value |-> "a"]>>,
              <<[pos |-> 1, value |-> "a"], [pos |-> 0, value |-> "a"], [pos |-> 1, value |-> "b"]>>}
MCBudgets == {[calls |-> 2, clockCalls |-> 0, failures |-> 1, faults |-> 1],
              [calls |-> 1, clockCalls |-> 5, failures |-> 0, faults |-> 0]}
=============================================================================
