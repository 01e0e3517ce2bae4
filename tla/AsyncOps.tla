------------------------------- MODULE AsyncOps -------------------------------
(****************************************************************************)
(* AsyncOperationManager of the Studio: operations run on the threads of a  *)
(* pool, at most maxConcurrent_ at a time, the others wait in a queue.      *)
(* Every call holds mutex_ and is one step; onOperationFinished, a queued   *)
(* event of the manager's thread, takes it twice with a signal in between   *)
(* and ends with processQueue, which runs without it.  A slot of a signal   *)
(* may call the manager again; with OtherThreads so may any other thread at *)
(* any time.  A timeout is a call of cancel.                                *)
(****************************************************************************)
EXTENDS Integers, Sequences, FiniteSets, SequencesExt

CONSTANTS
  Ops,           \* operations
  None,          \* no operation
  Limits,        \* values of maxConcurrent_, of which the constructor is given one
  MaxRetained,   \* kMaxRetainedOperations
  Priorities,
  Budgets,       \* bound: pairs of a number of calls of cancel (timeouts included)
                 \* and of cancelAll (the destructor's included); one is chosen
  OtherThreads   \* the manager is called from other threads than its own

ASSUME AsyncAssumption ==
  /\ Limits \subseteq Nat \ {0} /\ MaxRetained \in Nat /\ Priorities \subseteq Nat
  /\ IsFiniteSet(Ops) /\ None \notin Ops /\ Budgets \subseteq Nat \X Nat /\ OtherThreads \in BOOLEAN

VARIABLES
  state,         \* of each Operation object: "new" before execute, "deleted" after delete
  priority,
  queue,         \* queue_
  runningCount,  \* runningCount_
  finishedOrder, \* finishedOrder_
  worker,        \* the closure in the pool: "none", "working", "posted", "gone"
  result,        \* what it posted: "none", "ok" or "failed"
  pc, current,   \* where the manager's thread is, and with which operation
  maxConcurrent, \* maxConcurrent_
  cancels, cancelAlls, \* bounds: what is left of the budget
  signals,       \* history: completed and failed signals of each operation
  dangling,      \* history: a worker read the flag of a deleted operation
  abandoned      \* history: operations deleted before the end of their closure

calls == <<cancels, cancelAlls, maxConcurrent>>
main == <<pc, current>>
ops == <<state, priority, queue, runningCount>>
pool == <<worker, result>>
history == <<dangling, abandoned>>
vars == <<ops, finishedOrder, pool, main, calls, signals, history>>

Busy == {o \in Ops : worker[o] \in {"working", "posted"}} \* their end was not handled yet
Live == {o \in Ops : state[o] \notin {"new", "deleted"}}

Init ==
  /\ state = [o \in Ops |-> "new"] /\ priority = [o \in Ops |-> 0]
  /\ queue = <<>> /\ runningCount = 0 /\ finishedOrder = <<>>
  /\ worker = [o \in Ops |-> "none"] /\ result = [o \in Ops |-> "none"]
  /\ pc = "idle" /\ current = None
  /\ maxConcurrent \in Limits /\ \E b \in Budgets : cancels = b[1] /\ cancelAlls = b[2]
  /\ signals = [o \in Ops |-> 0] /\ dangling = FALSE /\ abandoned = {}

(* The manager's thread calls from its event loop or from a slot of a signal. *)
MayCall == OtherThreads \/ pc \in {"idle", "emit", "started"}

Start(o) ==
  /\ state' = [state EXCEPT ![o] = "Running"]
  /\ runningCount' = runningCount + 1
  /\ worker' = [worker EXCEPT ![o] = "working"]

execute(o, p) ==
  /\ MayCall /\ state[o] = "new"
  /\ priority' = [priority EXCEPT ![o] = p]
  /\ IF runningCount < maxConcurrent
       THEN Start(o) /\ UNCHANGED queue
       ELSE /\ state' = [state EXCEPT ![o] = "Pending"]
            /\ queue' = Append(queue, o)
            /\ UNCHANGED <<runningCount, worker>>
  /\ UNCHANGED <<finishedOrder, result, main, calls, signals, history>>

Dequeue(o) == \* removeAll: an operation is queued at most once
  IF \E i \in DOMAIN queue : queue[i] = o
    THEN queue' = RemoveAt(queue, CHOOSE i \in DOMAIN queue : queue[i] = o)
    ELSE UNCHANGED queue

cancel(o) ==
  /\ MayCall /\ cancels > 0 /\ cancels' = cancels - 1
  /\ \/ /\ state[o] = "Pending"
        /\ state' = [state EXCEPT ![o] = "deleted"]
        /\ Dequeue(o)
     \/ /\ state[o] = "Running"
        /\ state' = [state EXCEPT ![o] = "Cancelled"]
        /\ UNCHANGED queue
  /\ UNCHANGED <<priority, runningCount, finishedOrder, pool, main, cancelAlls,
                 maxConcurrent, signals, history>>

Abandon == abandoned' = abandoned \cup {o \in Busy : state[o] = "Cancelled"}

CancelAllDeletes == \* mutant: the running operations are deleted as well
  /\ MayCall /\ cancelAlls > 0 /\ cancelAlls' = cancelAlls - 1
  /\ state' = [o \in Ops |-> IF state[o] \in {"Running", "Pending", "Cancelled"}
                               THEN "deleted" ELSE state[o]]
  /\ queue' = <<>> /\ Abandon
  /\ UNCHANGED <<priority, runningCount, finishedOrder, pool, main, cancels, maxConcurrent,
                 signals, dangling>>

(* Operations that are Cancelled when the scan ends and were not Running when *)
(* it reached them are deleted: the pending ones, and those that a cancel, a  *)
(* timeout or an earlier cancelAll met, whether or not their worker is done.  *)
cancelAll ==
  /\ MayCall /\ cancelAlls > 0 /\ cancelAlls' = cancelAlls - 1
  /\ state' = [o \in Ops |-> CASE state[o] = "Running" -> "Cancelled"
                               [] state[o] \in {"Pending", "Cancelled"} -> "deleted"
                               [] OTHER -> state[o]]
  /\ queue' = <<>> /\ Abandon
  /\ UNCHANGED <<priority, runningCount, finishedOrder, pool, main, cancels, maxConcurrent,
                 signals, dangling>>

(* The closure: run the function, read the cancelled flag of the operation,   *)
(* post the result.                                                           *)
WorkerReturns(o) ==
  /\ worker[o] = "working"
  /\ worker' = [worker EXCEPT ![o] = "posted"]
  /\ dangling' = (dangling \/ state[o] = "deleted")
  /\ \E r \in (IF state[o] = "Cancelled" THEN {"failed"} ELSE {"ok", "failed"}) :
       result' = [result EXCEPT ![o] = r]
  /\ UNCHANGED <<ops, finishedOrder, main, calls, signals, abandoned>>

FinishKeepsSlot(o) == \* mutant: the slot of a cancelled operation is not given back
  /\ pc = "idle" /\ worker[o] = "posted"
  /\ worker' = [worker EXCEPT ![o] = "gone"]
  /\ IF state[o] = "deleted"
       THEN UNCHANGED <<ops, main>>
       ELSE /\ runningCount' = runningCount - (IF state[o] = "Cancelled" THEN 0 ELSE 1)
            /\ state' = [state EXCEPT ![o] =
                 IF @ = "Cancelled" THEN @ ELSE IF result[o] = "ok" THEN "Completed" ELSE "Failed"]
            /\ pc' = "emit" /\ current' = o
            /\ UNCHANGED <<priority, queue>>
  /\ UNCHANGED <<finishedOrder, result, calls, signals, history>>

(* onOperationFinished, first locked section: an operation that is no longer  *)
(* in the table is ignored.                                                   *)
Finish(o) ==
  /\ pc = "idle" /\ worker[o] = "posted"
  /\ worker' = [worker EXCEPT ![o] = "gone"]
  /\ IF state[o] = "deleted"
       THEN UNCHANGED <<ops, main>>
       ELSE /\ runningCount' = runningCount - 1
            /\ state' = [state EXCEPT ![o] =
                 IF @ = "Cancelled" THEN @ ELSE IF result[o] = "ok" THEN "Completed" ELSE "Failed"]
            /\ pc' = "emit" /\ current' = o
            /\ UNCHANGED <<priority, queue>>
  /\ UNCHANGED <<finishedOrder, result, calls, signals, history>>

RetainNoQueue == \* mutant: the queue is not processed after an end
  /\ pc = "emit" /\ pc' = "idle" /\ current' = None
  /\ signals' = [signals EXCEPT ![current] = @ + 1]
  /\ UNCHANGED <<ops, finishedOrder, pool, calls, history>>

RetainSilent == \* mutant: the end of a cancelled operation is not signalled
  /\ pc = "emit" /\ pc' = "process" /\ current' = None
  /\ signals' = IF state[current] = "Cancelled" THEN signals ELSE [signals EXCEPT ![current] = @ + 1]
  /\ UNCHANGED <<ops, finishedOrder, pool, calls, history>>

(* The signal is emitted, then the second locked section retains the          *)
(* operation and evicts the oldest finished ones beyond the limit.            *)
Retain ==
  /\ pc = "emit"
  /\ signals' = [signals EXCEPT ![current] = @ + 1]
  /\ LET order == Append(finishedOrder, current)
         Left(n) == Live \ {order[i] : i \in 1..n}
     IN \E n \in 0..Len(order) :
          /\ Cardinality(Left(n)) <= MaxRetained \/ n = Len(order)
          /\ \A k \in 0..(n - 1) : Cardinality(Left(k)) > MaxRetained
          /\ finishedOrder' = SubSeq(order, n + 1, Len(order))
          /\ state' = [o \in Ops |-> IF o \in Live \ Left(n) THEN "deleted" ELSE state[o]]
  /\ pc' = "process" /\ current' = None
  /\ UNCHANGED <<priority, queue, runningCount, pool, calls, history>>

Best(i) == \A k \in DOMAIN queue : \/ priority[queue[k]] < priority[queue[i]]
                                   \/ priority[queue[k]] = priority[queue[i]] /\ i <= k

(* processQueue, one turn of the loop: the limit is tested and the best entry *)
(* is taken out of the queue ...                                              *)
Pick ==
  /\ pc \in {"process", "started"}
  /\ IF runningCount < maxConcurrent /\ queue # <<>>
       THEN \E i \in DOMAIN queue :
              /\ Best(i) /\ pc' = "picked" /\ current' = queue[i]
              /\ queue' = RemoveAt(queue, i)
       ELSE /\ pc' = "idle" /\ UNCHANGED <<current, queue>>
  /\ UNCHANGED <<state, priority, runningCount, finishedOrder, pool, calls, signals, history>>

(* ... it is started unless it was cancelled meanwhile, and operationStarted  *)
(* is emitted.                                                                *)
Launch ==
  /\ pc = "picked" /\ current' = None
  /\ IF state[current] = "Pending"
       THEN Start(current) /\ pc' = "started"
       ELSE UNCHANGED <<state, runningCount, worker>> /\ pc' = "process"
  /\ UNCHANGED <<priority, queue, finishedOrder, result, calls, signals, history>>

ManagerTurn == Retain \/ Pick \/ Launch
Next ==
  \/ \E o \in Ops : \/ \E p \in Priorities : execute(o, p)
                    \/ cancel(o) \/ WorkerReturns(o) \/ Finish(o)
  \/ cancelAll \/ ManagerTurn

(* Functions return, and the event loop goes on. *)
Spec == Init /\ [][Next]_vars
        /\ WF_vars(ManagerTurn)
        /\ \A o \in Ops : WF_vars(WorkerReturns(o)) /\ WF_vars(Finish(o))

-----------------------------------------------------------------------------
(* Properties. *)

TypeOK ==
  /\ state \in [Ops -> {"new", "Pending", "Running", "Cancelled", "Completed", "Failed",
                        "deleted"}]
  /\ priority \in [Ops -> Priorities \cup {0}]
  /\ queue \in Seq(Ops) /\ finishedOrder \in Seq(Ops) /\ runningCount \in Nat
  /\ worker \in [Ops -> {"none", "working", "posted", "gone"}]
  /\ result \in [Ops -> {"none", "ok", "failed"}]
  /\ pc \in {"idle", "emit", "process", "picked", "started"}
  /\ current \in Ops \cup {None}
  /\ cancels \in Nat /\ cancelAlls \in Nat /\ maxConcurrent \in Limits
  /\ signals \in [Ops -> 0..1] /\ dangling \in BOOLEAN /\ abandoned \subseteq Ops

(* The count of running operations is that of the closures whose end has not  *)
(* been handled and of the operations abandoned, whose slot is lost: no other *)
(* order of cancellations, timeouts and ends loses a slot or gives one back   *)
(* twice (--runningCount_, once for each ++).                                 *)
SlotsAreCounted == runningCount = Cardinality(Busy \cup abandoned)

(* No more operations run at once than allowed (AsyncOperationManager.h:31,   *)
(* "Concurrent execution is bounded by maxConcurrent parameter").             *)
ConcurrencyBounded == Cardinality(Busy) <= maxConcurrent

(* A worker never reads the flag of a deleted operation                       *)
(* (AsyncOperationManager.cpp:147, "running operations are cleaned up by      *)
(* onOperationFinished() once their worker thread finishes").                 *)
NoDanglingRead == ~dangling

(* An idle manager leaves no operation waiting for a slot that is free. *)
NoIdleSlot == pc = "idle" /\ queue # <<>> => runningCount >= maxConcurrent

(* A queued operation is started or cancelled some day, unless every slot was *)
(* lost to an abandoned operation.                                            *)
QueuedIsServed ==
  \A o \in Ops : state[o] = "Pending" ~> \/ state[o] # "Pending"
                                        \/ Cardinality(abandoned) >= maxConcurrent

(* An operation that was started ends in exactly one signal to its caller     *)
(* (TypeOK allows no second one), unless it was abandoned.                    *)
StartedIsReported ==
  \A o \in Ops : worker[o] = "working" ~> signals[o] = 1 \/ o \in abandoned

(* An operation is never started past a waiting one of higher priority        *)
(* (AsyncOperationManager.h:8, "Priority-based operation queuing").                           *)
PriorityRespected ==
  [][\A o \in Ops : state[o] # "Running" /\ state'[o] = "Running"
       => \A q \in Ops : state[q] = "Pending" => priority[q] <= priority'[o]]_vars
=============================================================================
