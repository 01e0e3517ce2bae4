---------------------------- MODULE AsyncOps_proofs ----------------------------
(****************************************************************************)
(* Theorems about AsyncOps, for any operations, limits, priorities and any  *)
(* calls of execute, cancel and cancelAll in any order.                     *)
(****************************************************************************)
EXTENDS AsyncOps, SequenceTheorems, FiniteSetTheorems, TLAPS

-----------------------------------------------------------------------------
(* The inductive invariant. *)

(* What was not started has no closure.                                        *)
UnstartedHasNone == \A o \in Ops : state[o] \in {"new", "Pending"} => worker[o] = "none"

(* An operation lives as long as the end of its closure has not been handled,  *)
(* unless it is one of those that a cancelAll deleted too early.               *)
BusyLives == \A o \in Busy : state[o] \in {"Running", "Cancelled"} \/ o \in abandoned
AbandonedIsDeleted == \A o \in abandoned : state[o] = "deleted"

(* It is signalled after that, and only once.                                  *)
SignalledIsGone == \A o \in Ops : signals[o] = 0 \/ worker[o] = "gone"
EndIsHandled == pc = "emit" => current \in Ops /\ worker[current] = "gone" /\ signals[current] = 0
RetainedIsGone == \A i \in DOMAIN finishedOrder : worker[finishedOrder[i]] = "gone"

(* The limit holds for calls of the manager's own thread.                      *)
WithinLimit ==
  ~OtherThreads => runningCount <= maxConcurrent /\ (pc = "picked" => runningCount < maxConcurrent)

AsyncInv ==
  /\ TypeOK /\ UnstartedHasNone /\ BusyLives /\ SignalledIsGone /\ EndIsHandled /\ RetainedIsGone
  /\ AbandonedIsDeleted /\ WithinLimit /\ (pc = "picked" => current \in Ops)
  /\ SlotsAreCounted /\ NoIdleSlot

-----------------------------------------------------------------------------
(* Sequences and sets. *)

LEMMA RemovedIsSeq ==
  ASSUME NEW S, NEW s \in Seq(S), NEW i \in DOMAIN s PROVE RemoveAt(s, i) \in Seq(S)
<1>1. i \in 1 .. Len(s) /\ Len(s) \in Nat /\ \A k \in 1 .. Len(s) : s[k] \in S
  BY LenProperties, ElementOfSeq
<1>2. SubSeq(s, 1, i - 1) \in Seq(S)
  <2>1. 1 \in Int /\ i - 1 \in Int /\ \A k \in 1 .. i - 1 : s[k] \in S  BY <1>1
  <2> QED BY <2>1, SubSeqProperties
<1>3. SubSeq(s, i + 1, Len(s)) \in Seq(S)
  <2>1. i + 1 \in Int /\ Len(s) \in Int /\ \A k \in i + 1 .. Len(s) : s[k] \in S  BY <1>1
  <2> QED BY <2>1, SubSeqProperties
<1>4. SubSeq(s, 1, i - 1) \o SubSeq(s, i + 1, Len(s)) \in Seq(S)
  BY <1>2, <1>3, ConcatProperties, Zenon
<1> QED BY <1>4, Zenon DEF RemoveAt

(* The operations that hold a slot.                                            *)
Slots == Busy \cup abandoned

LEMMA SlotsAreFinite ==
  ASSUME abandoned \subseteq Ops PROVE IsFiniteSet(Slots) /\ Cardinality(Slots) \in Nat
<1>1. Slots \subseteq Ops  BY DEF Slots, Busy
<1> QED BY <1>1, AsyncAssumption, FS_Subset, FS_CardinalityType

(* The closure of o is started ...                                             *)
LEMMA Started ==
  ASSUME NEW o \in Ops, worker \in [Ops -> {"none", "working", "posted", "gone"}],
         worker[o] = "none", worker' = [worker EXCEPT ![o] = "working"],
         abandoned \subseteq Ops, o \notin abandoned, abandoned' = abandoned
  PROVE  /\ Busy' = Busy \cup {o} /\ Slots' = Slots \cup {o}
         /\ Cardinality(Slots') = Cardinality(Slots) + 1
<1>1. Busy' = Busy \cup {o} /\ o \notin Busy  BY DEF Busy
<1>2. Slots' = Slots \cup {o} /\ o \notin Slots  BY <1>1 DEF Slots
<1> QED BY <1>1, <1>2, SlotsAreFinite, FS_AddElement

(* ... and its end handled: it holds its slot no longer, unless it is abandoned. *)
LEMMA Ended ==
  ASSUME NEW o \in Ops, worker \in [Ops -> {"none", "working", "posted", "gone"}],
         worker[o] = "posted", worker' = [worker EXCEPT ![o] = "gone"],
         abandoned \subseteq Ops, abandoned' = abandoned
  PROVE  /\ Busy' = Busy \ {o}
         /\ o \in abandoned => Slots' = Slots
         /\ o \notin abandoned => Cardinality(Slots') = Cardinality(Slots) - 1
<1>1. Busy' = Busy \ {o} /\ o \in Busy  BY DEF Busy
<1>2. CASE o \in abandoned  BY <1>1, <1>2 DEF Slots
<1>3. CASE o \notin abandoned
  <2>1. Slots' = Slots \ {o} /\ o \in Slots  BY <1>1, <1>3 DEF Slots
  <2> QED BY <1>1, <1>3, <2>1, SlotsAreFinite, FS_RemoveElement
<1> QED BY <1>2, <1>3

LEMMA InitKeeps == ASSUME Init PROVE AsyncInv
<1>1. Busy = {} /\ abandoned = {} /\ Busy \cup abandoned = {}  BY DEF Init, Busy
<1>2. PICK b \in Budgets : cancels = b[1] /\ cancelAlls = b[2]  BY DEF Init
<1>3. cancels \in Nat /\ cancelAlls \in Nat  BY <1>2, AsyncAssumption
<1>4. maxConcurrent \in Nat \ {0}  BY AsyncAssumption DEF Init
<1>5. <<>> \in Seq(Ops)  BY EmptySeq
<1>6. TypeOK
  <2>1. priority \in [Ops -> Priorities \cup {0}] /\ signals \in [Ops -> 0 .. 1]  BY DEF Init
  <2>2. dangling \in BOOLEAN /\ abandoned \subseteq Ops  BY DEF Init
  <2> QED BY <1>3, <1>5, <2>1, <2>2 DEF TypeOK, Init
<1>7. DOMAIN finishedOrder = {}  BY LenProperties, EmptySeq DEF Init
<1>8. runningCount = Cardinality(Busy \cup abandoned)  BY <1>1, FS_EmptySet DEF Init
<1> QED BY <1>1, <1>4, <1>6, <1>7, <1>8
        DEF AsyncInv, Init, UnstartedHasNone, BusyLives, AbandonedIsDeleted, SignalledIsGone, EndIsHandled,
            RetainedIsGone, WithinLimit, SlotsAreCounted, NoIdleSlot

-----------------------------------------------------------------------------
(* The calls. *)

(* Starting an operation that has no closure.                                  *)
LEMMA StartKeeps ==
  ASSUME AsyncInv, NEW o \in Ops, state[o] \in {"new", "Pending"}, Start(o),
         priority' \in [Ops -> Priorities \cup {0}], pc = "picked" \/ runningCount < maxConcurrent,
         \/ UNCHANGED main /\ pc # "picked"
         \/ pc' = "started" /\ current' \in Ops \cup {None}
         \/ UNCHANGED main /\ OtherThreads,
         UNCHANGED <<queue, finishedOrder, result, calls, signals, history>>
  PROVE  AsyncInv'
<1> USE DEF AsyncInv, TypeOK
<1>1. worker[o] = "none" /\ o \notin abandoned  BY DEF UnstartedHasNone, AbandonedIsDeleted
<1>0. maxConcurrent \in Nat \ {0} /\ abandoned' = abandoned  BY AsyncAssumption DEF history
<1>2. /\ state' = [state EXCEPT ![o] = "Running"] /\ runningCount' = runningCount + 1
      /\ worker' = [worker EXCEPT ![o] = "working"]
  BY DEF Start
<1>3. Busy' = Busy \cup {o} /\ Cardinality(Slots') = Cardinality(Slots) + 1
  BY <1>0, <1>1, <1>2, Started
<1>4. TypeOK'  BY <1>2 DEF main, calls, history
<1>5. UnstartedHasNone' /\ SignalledIsGone'  BY <1>1, <1>2 DEF UnstartedHasNone, SignalledIsGone
<1>6. BusyLives'  BY <1>0, <1>2, <1>3 DEF BusyLives, Busy
<1>7. EndIsHandled'  BY <1>1, <1>2 DEF EndIsHandled, main
<1>8. RetainedIsGone'
  <2>1. \A i \in DOMAIN finishedOrder : finishedOrder[i] \in Ops  BY ElementOfSeq
  <2> QED BY <1>1, <1>2, <2>1 DEF RetainedIsGone
<1>9. AbandonedIsDeleted'  BY <1>0, <1>1, <1>2 DEF AbandonedIsDeleted
<1>10. WithinLimit' /\ NoIdleSlot'
  BY <1>0, <1>2 DEF WithinLimit, NoIdleSlot, main, calls
<1>11. SlotsAreCounted' /\ (pc' = "picked" => current' \in Ops)
  BY <1>2, <1>3 DEF SlotsAreCounted, Slots, main
<1> QED BY <1>4, <1>5, <1>6, <1>7, <1>8, <1>9, <1>10, <1>11

LEMMA ExecuteKeeps ==
  ASSUME AsyncInv, NEW o \in Ops, NEW p \in Priorities, execute(o, p) PROVE AsyncInv'
<1>1. state[o] = "new" /\ priority' = [priority EXCEPT ![o] = p] /\ UNCHANGED main
      /\ UNCHANGED <<finishedOrder, result, main, calls, signals, history>>
  BY DEF execute
<1>2. priority' \in [Ops -> Priorities \cup {0}]  BY <1>1 DEF AsyncInv, TypeOK
<1>3. CASE runningCount < maxConcurrent
  <2>1. Start(o) /\ UNCHANGED queue  BY <1>3 DEF execute
  <2>2. pc # "picked" \/ OtherThreads  BY DEF execute, MayCall
  <2> QED BY <1>1, <1>2, <1>3, <2>1, <2>2, StartKeeps
<1>4. CASE ~(runningCount < maxConcurrent)
  <2>1. /\ state' = [state EXCEPT ![o] = "Pending"] /\ queue' = Append(queue, o)
        /\ UNCHANGED <<runningCount, worker>>
    BY <1>4 DEF execute
  <2>2. queue' \in Seq(Ops)  BY <2>1, AppendProperties DEF AsyncInv, TypeOK
  <2>3. worker[o] = "none" /\ Busy' = Busy /\ o \notin Busy
    BY <1>1, <2>1 DEF AsyncInv, UnstartedHasNone, Busy
  <2>4. TypeOK'  BY <1>1, <1>2, <2>1, <2>2 DEF AsyncInv, TypeOK, main, calls, history
  <2>5. UnstartedHasNone' /\ BusyLives'
    BY <1>1, <2>1, <2>3 DEF AsyncInv, TypeOK, UnstartedHasNone, BusyLives, Busy, history
  <2>6. AbandonedIsDeleted'  BY <1>1, <2>1 DEF AsyncInv, TypeOK, AbandonedIsDeleted, history
  <2>7. NoIdleSlot'  BY <1>1, <1>4, <2>1, AsyncAssumption DEF AsyncInv, TypeOK, NoIdleSlot, calls
  <2> QED BY <1>1, <2>1, <2>3, <2>4, <2>5, <2>6, <2>7
          DEF AsyncInv, SignalledIsGone, EndIsHandled, RetainedIsGone, WithinLimit, SlotsAreCounted,
              main, calls, history
<1> QED BY <1>3, <1>4

LEMMA DequeuedIsSeq == ASSUME queue \in Seq(Ops), NEW o, Dequeue(o) PROVE queue' \in Seq(Ops)
<1>1. CASE \E i \in DOMAIN queue : queue[i] = o
  <2>1. (CHOOSE i \in DOMAIN queue : queue[i] = o) \in DOMAIN queue  BY <1>1
  <2> QED BY <1>1, <2>1, RemovedIsSeq DEF Dequeue
<1>2. CASE ~\E i \in DOMAIN queue : queue[i] = o  BY <1>2 DEF Dequeue
<1> QED BY <1>1, <1>2

(* A call that only cancels or deletes: what it deletes under its closure is    *)
(* abandoned, and keeps its slot.                                              *)
LEMMA CancelStep ==
  ASSUME AsyncInv, TypeOK',
         UNCHANGED <<priority, runningCount, finishedOrder, pool, main, maxConcurrent, signals, dangling>>,
         \A o \in Ops : \/ state'[o] = state[o]
                        \/ state[o] = "Running" /\ state'[o] = "Cancelled"
                        \/ state[o] \in {"Pending", "Cancelled"} /\ state'[o] = "deleted",
         abandoned' = abandoned \cup {o \in Busy : state[o] = "Cancelled" /\ state'[o] = "deleted"},
         pc = "idle" /\ queue' # <<>> => queue # <<>>
  PROVE  AsyncInv'
<1>1. Busy' = Busy /\ Busy \subseteq Ops  BY DEF Busy, pool
<1>2. UnstartedHasNone'  BY DEF AsyncInv, UnstartedHasNone, pool
<1>3. \A o \in Busy : state[o] # "Pending"  BY DEF AsyncInv, UnstartedHasNone, Busy
<1>4. BusyLives' /\ AbandonedIsDeleted'
  BY <1>1, <1>3 DEF AsyncInv, TypeOK, BusyLives, AbandonedIsDeleted
<1>5. (Busy \cup abandoned)' = Busy \cup abandoned  BY <1>1
<1> QED BY <1>2, <1>4, <1>5
        DEF AsyncInv, SignalledIsGone, EndIsHandled, RetainedIsGone, WithinLimit, SlotsAreCounted,
            NoIdleSlot, pool, main

LEMMA CancelKeeps == ASSUME AsyncInv, NEW o \in Ops, cancel(o) PROVE AsyncInv'
<1>1. cancels > 0 /\ cancels' = cancels - 1
      /\ UNCHANGED <<priority, runningCount, finishedOrder, pool, main, cancelAlls, maxConcurrent,
                     signals, history>>
  BY DEF cancel
<1>2. \/ state[o] = "Pending" /\ state' = [state EXCEPT ![o] = "deleted"] /\ Dequeue(o)
      \/ state[o] = "Running" /\ state' = [state EXCEPT ![o] = "Cancelled"] /\ UNCHANGED queue
  BY DEF cancel
<1>3. queue' \in Seq(Ops)  BY <1>2, DequeuedIsSeq DEF AsyncInv, TypeOK
<1>4. TypeOK'  BY <1>1, <1>2, <1>3 DEF AsyncInv, TypeOK, pool, main, history
<1>5. \A q \in Ops : \/ state'[q] = state[q]
                     \/ state[q] = "Running" /\ state'[q] = "Cancelled"
                     \/ state[q] = "Pending" /\ state'[q] = "deleted"
  BY <1>2 DEF AsyncInv, TypeOK
<1>6. abandoned' = abandoned \cup {q \in Busy : state[q] = "Cancelled" /\ state'[q] = "deleted"}
  <2>1. \A q \in Busy : ~(state[q] = "Cancelled" /\ state'[q] = "deleted")  BY <1>5 DEF Busy
  <2> QED BY <1>1, <2>1 DEF history
<1>7. queue' # <<>> => queue # <<>>
  <2>1. CASE queue = <<>>
    <3>1. DOMAIN queue = {}  BY <2>1, LenProperties, EmptySeq
    <3> QED BY <1>2, <2>1, <3>1 DEF Dequeue
  <2> QED BY <2>1
<1> QED BY <1>1, <1>4, <1>5, <1>6, <1>7, CancelStep DEF history

LEMMA CancelAllKeeps == ASSUME AsyncInv, cancelAll PROVE AsyncInv'
<1>1. /\ cancelAlls > 0 /\ cancelAlls' = cancelAlls - 1 /\ queue' = <<>>
      /\ state' = [o \in Ops |-> CASE state[o] = "Running" -> "Cancelled"
                                   [] state[o] \in {"Pending", "Cancelled"} -> "deleted"
                                   [] OTHER -> state[o]]
      /\ abandoned' = abandoned \cup {o \in Busy : state[o] = "Cancelled"}
      /\ UNCHANGED <<priority, runningCount, finishedOrder, pool, main, cancels, maxConcurrent,
                     signals, dangling>>
  BY DEF cancelAll, Abandon
<1>2. ASSUME NEW o \in Ops
      PROVE  /\ \/ state'[o] = state[o]
                \/ state[o] = "Running" /\ state'[o] = "Cancelled"
                \/ state[o] \in {"Pending", "Cancelled"} /\ state'[o] = "deleted"
             /\ state[o] = "Cancelled" => state'[o] = "deleted"
             /\ state'[o] \in {"new", "Pending", "Running", "Cancelled", "Completed", "Failed", "deleted"}
  <2>1. CASE state[o] = "Running"  BY <1>1, <2>1
  <2>2. CASE state[o] \in {"Pending", "Cancelled"}  BY <1>1, <2>2
  <2>3. CASE state[o] \notin {"Running", "Pending", "Cancelled"}
    BY <1>1, <2>3 DEF AsyncInv, TypeOK
  <2> QED BY <2>1, <2>2, <2>3
<1>3. queue' \in Seq(Ops)  BY <1>1, EmptySeq
<1>4. state' \in [Ops -> {"new", "Pending", "Running", "Cancelled", "Completed", "Failed", "deleted"}]
  BY <1>1, <1>2
<1>5. Busy \subseteq Ops  BY DEF Busy
<1>6. abandoned' = abandoned \cup {o \in Busy : state[o] = "Cancelled" /\ state'[o] = "deleted"}
  BY <1>1, <1>2, <1>5
<1>7. TypeOK'  BY <1>1, <1>3, <1>4, <1>5 DEF AsyncInv, TypeOK, pool, main
<1> QED BY <1>1, <1>2, <1>6, <1>7, CancelStep

-----------------------------------------------------------------------------
(* The pool and the manager's thread. *)

LEMMA ReturnKeeps == ASSUME AsyncInv, NEW o \in Ops, WorkerReturns(o) PROVE AsyncInv'
<1>1. /\ worker[o] = "working" /\ worker' = [worker EXCEPT ![o] = "posted"]
      /\ dangling' = (dangling \/ state[o] = "deleted")
      /\ UNCHANGED <<ops, finishedOrder, main, calls, signals, abandoned>>
  BY DEF WorkerReturns
<1>2. PICK r \in {"ok", "failed"} : result' = [result EXCEPT ![o] = r]  BY DEF WorkerReturns
<1>3. Busy' = Busy /\ o \in Busy  BY <1>1 DEF Busy, AsyncInv, TypeOK
<1>4. dangling' \in BOOLEAN  BY <1>1 DEF AsyncInv, TypeOK
<1>5. TypeOK'  BY <1>1, <1>2, <1>4 DEF AsyncInv, TypeOK, ops, main, calls
<1>6. UnstartedHasNone'  BY <1>1 DEF AsyncInv, TypeOK, UnstartedHasNone, ops
<1>7. SignalledIsGone'  BY <1>1 DEF AsyncInv, TypeOK, SignalledIsGone
<1>8. EndIsHandled'  BY <1>1 DEF AsyncInv, TypeOK, EndIsHandled, main
<1>9. RetainedIsGone'
  <2>1. \A i \in DOMAIN finishedOrder : finishedOrder[i] \in Ops  BY ElementOfSeq DEF AsyncInv, TypeOK
  <2> QED BY <1>1, <2>1 DEF AsyncInv, TypeOK, RetainedIsGone
<1> QED BY <1>1, <1>3, <1>4, <1>5, <1>6, <1>7, <1>8, <1>9
        DEF AsyncInv, BusyLives, AbandonedIsDeleted, WithinLimit, SlotsAreCounted, NoIdleSlot, ops, main, calls

LEMMA FinishKeeps == ASSUME AsyncInv, NEW o \in Ops, Finish(o) PROVE AsyncInv'
<1>1. pc = "idle" /\ worker[o] = "posted" /\ worker' = [worker EXCEPT ![o] = "gone"]
      /\ UNCHANGED <<finishedOrder, result, calls, signals, history>>
  BY DEF Finish
<1>2. o \in Busy /\ (state[o] \in {"Running", "Cancelled"} \/ o \in abandoned)
  BY <1>1 DEF AsyncInv, BusyLives, Busy
<1>3. /\ Busy' = Busy \ {o}
      /\ o \in abandoned => Slots' = Slots
      /\ o \notin abandoned => Cardinality(Slots') = Cardinality(Slots) - 1
  BY <1>1, Ended DEF AsyncInv, TypeOK, history
<1>4. SignalledIsGone'  BY <1>1 DEF AsyncInv, TypeOK, SignalledIsGone
<1>5. RetainedIsGone'
  <2>1. \A i \in DOMAIN finishedOrder : finishedOrder[i] \in Ops  BY ElementOfSeq DEF AsyncInv, TypeOK
  <2> QED BY <1>1, <2>1 DEF AsyncInv, TypeOK, RetainedIsGone
<1>6. CASE o \in abandoned
  <2>1. UNCHANGED <<ops, main>>  BY <1>6 DEF Finish, AsyncInv, AbandonedIsDeleted
  <2>2. TypeOK'  BY <1>1, <2>1 DEF AsyncInv, TypeOK, ops, main, calls, history
  <2>3. UnstartedHasNone'  BY <1>1, <1>6, <2>1 DEF AsyncInv, TypeOK, UnstartedHasNone, AbandonedIsDeleted, ops
  <2>4. BusyLives' /\ AbandonedIsDeleted'
    BY <1>1, <1>3, <2>1 DEF AsyncInv, BusyLives, AbandonedIsDeleted, ops, history
  <2>5. SlotsAreCounted'  BY <1>3, <1>6, <2>1 DEF AsyncInv, SlotsAreCounted, Slots, ops
  <2> QED BY <1>1, <1>4, <1>5, <2>1, <2>2, <2>3, <2>4, <2>5
          DEF AsyncInv, EndIsHandled, WithinLimit, NoIdleSlot, ops, main, calls
<1>7. CASE o \notin abandoned
  <2>1. /\ runningCount' = runningCount - 1 /\ pc' = "emit" /\ current' = o
        /\ UNCHANGED <<priority, queue>>
        /\ state' = [state EXCEPT ![o] =
             IF @ = "Cancelled" THEN @ ELSE IF result[o] = "ok" THEN "Completed" ELSE "Failed"]
    BY <1>2, <1>7 DEF Finish
  <2>2. runningCount' = Cardinality(Slots')  BY <1>3, <1>7, <2>1 DEF AsyncInv, SlotsAreCounted, Slots
  <2>3. \E s \in {"Cancelled", "Completed", "Failed"} : state' = [state EXCEPT ![o] = s]  BY <2>1
  <2>4. TypeOK'
    <3>1. Slots' \subseteq Ops  BY <1>1 DEF AsyncInv, TypeOK, Slots, Busy, history
    <3>2. runningCount' \in Nat  BY <2>2, <3>1, AsyncAssumption, FS_Subset, FS_CardinalityType
    <3> QED BY <1>1, <2>1, <2>3, <3>2 DEF AsyncInv, TypeOK, calls, history
  <2>5. UnstartedHasNone'  BY <1>1, <2>3 DEF AsyncInv, TypeOK, UnstartedHasNone
  <2>6. BusyLives' /\ AbandonedIsDeleted'
    BY <1>1, <1>3, <1>7, <2>3 DEF AsyncInv, TypeOK, BusyLives, AbandonedIsDeleted, Busy, history
  <2>7. EndIsHandled'  BY <1>1, <2>1 DEF AsyncInv, TypeOK, SignalledIsGone, EndIsHandled
  <2>8. maxConcurrent \in Nat  BY AsyncAssumption DEF AsyncInv, TypeOK
  <2>9. WithinLimit' /\ NoIdleSlot'
    BY <1>1, <2>1, <2>8 DEF AsyncInv, TypeOK, WithinLimit, NoIdleSlot, calls
  <2> QED BY <1>4, <1>5, <2>1, <2>2, <2>4, <2>5, <2>6, <2>7, <2>9 DEF AsyncInv, SlotsAreCounted, Slots
<1> QED BY <1>6, <1>7

(* What is evicted was signalled, so its closure is gone.                      *)
LEMMA RetainKeeps == ASSUME AsyncInv, Retain PROVE AsyncInv'
<1> DEFINE order == Append(finishedOrder, current)
           Left(n) == Live \ {order[i] : i \in 1 .. n}
<1>1. pc = "emit" /\ pc' = "process" /\ current' = None /\ signals' = [signals EXCEPT ![current] = @ + 1]
      /\ UNCHANGED <<priority, queue, runningCount, pool, calls, history>>
  BY DEF Retain
<1>2. PICK n \in 0 .. Len(order) :
        /\ finishedOrder' = SubSeq(order, n + 1, Len(order))
        /\ state' = [o \in Ops |-> IF o \in Live \ Left(n) THEN "deleted" ELSE state[o]]
  BY DEF Retain
<1>3. current \in Ops /\ worker[current] = "gone" /\ signals[current] = 0
  BY <1>1 DEF AsyncInv, EndIsHandled
<1>4. /\ order \in Seq(Ops) /\ Len(order) \in Nat
      /\ \A i \in 1 .. Len(order) : order[i] \in Ops /\ worker[order[i]] = "gone"
  <2>1. /\ finishedOrder \in Seq(Ops) /\ Len(finishedOrder) \in Nat
        /\ \A i \in 1 .. Len(finishedOrder) : finishedOrder[i] \in Ops /\ worker[finishedOrder[i]] = "gone"
    BY LenProperties, ElementOfSeq DEF AsyncInv, TypeOK, RetainedIsGone
  <2>2. /\ order \in Seq(Ops) /\ Len(order) = Len(finishedOrder) + 1
        /\ order[Len(finishedOrder) + 1] = current
        /\ \A i \in 1 .. Len(finishedOrder) : order[i] = finishedOrder[i]
    BY <1>3, <2>1, AppendProperties
  <2> QED BY <1>3, <2>1, <2>2
<1> HIDE DEF order
<1>5. \A o \in Ops : state'[o] = state[o] \/ (worker[o] = "gone" /\ state'[o] = "deleted")
  BY <1>2, <1>4
<1>6. finishedOrder' \in Seq(Ops) /\ \A i \in DOMAIN finishedOrder' : worker[finishedOrder'[i]] = "gone"
  <2>1. n + 1 \in Int /\ Len(order) \in Int /\ \A k \in n + 1 .. Len(order) : order[k] \in Ops
    BY <1>4
  <2>2. /\ finishedOrder' \in Seq(Ops)
        /\ Len(finishedOrder') = IF n + 1 <= Len(order) THEN Len(order) - (n + 1) + 1 ELSE 0
        /\ \A i \in 1 .. Len(order) - (n + 1) + 1 : finishedOrder'[i] = order[n + 1 + i - 1]
    BY <1>2, <2>1, SubSeqProperties
  <2>3. DOMAIN finishedOrder' = 1 .. Len(finishedOrder')  BY <2>2, LenProperties
  <2>4. ASSUME NEW i \in DOMAIN finishedOrder'
        PROVE  i \in 1 .. Len(order) - (n + 1) + 1 /\ n + 1 + i - 1 \in 1 .. Len(order)
    BY <1>4, <2>2, <2>3
  <2> QED BY <1>4, <2>2, <2>4
<1>7. Busy' = Busy /\ worker' = worker  BY <1>1 DEF Busy, pool
<1>8. state' \in [Ops -> {"new", "Pending", "Running", "Cancelled", "Completed", "Failed", "deleted"}]
  BY <1>2 DEF AsyncInv, TypeOK
<1>9. TypeOK'
  <2>1. signals' \in [Ops -> 0 .. 1]  BY <1>1, <1>3 DEF AsyncInv, TypeOK
  <2> QED BY <1>1, <1>6, <1>8, <2>1 DEF AsyncInv, TypeOK, pool, calls, history
<1>10. UnstartedHasNone' /\ BusyLives'
  BY <1>1, <1>5, <1>7 DEF AsyncInv, UnstartedHasNone, BusyLives, Busy, history
<1>11. SignalledIsGone' /\ EndIsHandled' /\ RetainedIsGone'
  BY <1>1, <1>3, <1>6, <1>7 DEF AsyncInv, TypeOK, SignalledIsGone, EndIsHandled, RetainedIsGone
<1>12. AbandonedIsDeleted'  BY <1>1, <1>5 DEF AsyncInv, TypeOK, AbandonedIsDeleted, history
<1> QED BY <1>1, <1>7, <1>9, <1>10, <1>11, <1>12
        DEF AsyncInv, WithinLimit, SlotsAreCounted, NoIdleSlot, calls, history

LEMMA PickKeeps == ASSUME AsyncInv, Pick PROVE AsyncInv'
<1>1. UNCHANGED <<state, priority, runningCount, finishedOrder, pool, calls, signals, history>>
      /\ pc \in {"process", "started"}
  BY DEF Pick
<1>2. Busy' = Busy  BY <1>1 DEF Busy, pool
<1>3. CASE runningCount < maxConcurrent /\ queue # <<>>
  <2>1. PICK i \in DOMAIN queue :
          pc' = "picked" /\ current' = queue[i] /\ queue' = RemoveAt(queue, i)
    BY <1>3 DEF Pick
  <2>2. current' \in Ops /\ queue' \in Seq(Ops)
    BY <2>1, ElementOfSeq, RemovedIsSeq DEF AsyncInv, TypeOK
  <2>3. TypeOK'  BY <1>1, <2>1, <2>2 DEF AsyncInv, TypeOK, pool, calls, history
  <2>4. WithinLimit' /\ NoIdleSlot'  BY <1>1, <1>3, <2>1 DEF AsyncInv, WithinLimit, NoIdleSlot, calls
  <2> QED BY <1>1, <1>2, <2>1, <2>2, <2>3, <2>4
          DEF AsyncInv, UnstartedHasNone, BusyLives, SignalledIsGone, EndIsHandled, RetainedIsGone,
              AbandonedIsDeleted, SlotsAreCounted, pool, calls, history
<1>4. CASE ~(runningCount < maxConcurrent /\ queue # <<>>)
  <2>1. pc' = "idle" /\ UNCHANGED <<current, queue>>  BY <1>4 DEF Pick
  <2>2. TypeOK'  BY <1>1, <2>1 DEF AsyncInv, TypeOK, pool, calls, history
  <2>3. NoIdleSlot'  BY <1>1, <1>4, <2>1, AsyncAssumption DEF AsyncInv, TypeOK, NoIdleSlot, calls
  <2> QED BY <1>1, <1>2, <2>1, <2>2, <2>3
          DEF AsyncInv, UnstartedHasNone, BusyLives, SignalledIsGone, EndIsHandled, RetainedIsGone,
              AbandonedIsDeleted, WithinLimit, SlotsAreCounted, pool, calls, history
<1> QED BY <1>3, <1>4

LEMMA LaunchKeeps == ASSUME AsyncInv, Launch PROVE AsyncInv'
<1>1. pc = "picked" /\ current' = None /\ current \in Ops
      /\ UNCHANGED <<priority, queue, finishedOrder, result, calls, signals, history>>
  BY DEF Launch, AsyncInv
<1>2. CASE state[current] = "Pending"
  <2>1. Start(current) /\ pc' = "started"  BY <1>2 DEF Launch
  <2>2. priority' \in [Ops -> Priorities \cup {0}]  BY <1>1 DEF AsyncInv, TypeOK
  <2> QED BY <1>1, <1>2, <2>1, <2>2, StartKeeps
<1>3. CASE state[current] # "Pending"
  <2>1. UNCHANGED <<state, runningCount, worker>> /\ pc' = "process"  BY <1>3 DEF Launch
  <2>2. Busy' = Busy  BY <2>1 DEF Busy
  <2>3. TypeOK'  BY <1>1, <2>1 DEF AsyncInv, TypeOK, calls, history
  <2> QED BY <1>1, <2>1, <2>2, <2>3
          DEF AsyncInv, UnstartedHasNone, BusyLives, SignalledIsGone, EndIsHandled, RetainedIsGone,
              AbandonedIsDeleted, WithinLimit, SlotsAreCounted, NoIdleSlot, calls, history
<1> QED BY <1>2, <1>3

LEMMA StutterKeeps == ASSUME AsyncInv, UNCHANGED vars PROVE AsyncInv'
<1>1. Busy' = Busy  BY DEF Busy, vars, pool
<1> QED BY <1>1
    DEF AsyncInv, TypeOK, UnstartedHasNone, BusyLives, SignalledIsGone, EndIsHandled, RetainedIsGone,
        AbandonedIsDeleted, WithinLimit, SlotsAreCounted, NoIdleSlot, vars, ops, pool, main, calls, history

-----------------------------------------------------------------------------
(* The invariant, and what it gives. *)

(* Calls of execute, cancel and cancelAll from any thread and from the slots of *)
(* the manager's own signals, and the ends of workers, in any order, keep the   *)
(* invariant.                                                                   *)
THEOREM AsyncInvariant == Spec => []AsyncInv
<1>1. Init => AsyncInv  BY InitKeeps
<1>2. ASSUME AsyncInv, [Next]_vars PROVE AsyncInv'
  <2>1. CASE \E o \in Ops : \/ \E p \in Priorities : execute(o, p)
                          \/ cancel(o) \/ WorkerReturns(o) \/ Finish(o)
    BY <1>2, <2>1, ExecuteKeeps, CancelKeeps, ReturnKeeps, FinishKeeps
  <2>2. CASE cancelAll  BY <1>2, <2>2, CancelAllKeeps
  <2>3. CASE ManagerTurn  BY <1>2, <2>3, RetainKeeps, PickKeeps, LaunchKeeps DEF ManagerTurn
  <2>4. CASE UNCHANGED vars  BY <1>2, <2>4, StutterKeeps
  <2> QED BY <1>2, <2>1, <2>2, <2>3, <2>4 DEF Next
<1> QED BY <1>1, <1>2, PTL DEF Spec

(* onOperationFinished gives back exactly the slots that execute and            *)
(* processQueue took, but for those of the operations that cancelAll deleted    *)
(* after a cancel, a timeout or another cancelAll.                              *)
THEOREM SlotsAreKept == Spec => []SlotsAreCounted
BY AsyncInvariant, PTL DEF AsyncInv

(* processQueue goes on until the limit is reached or nothing waits.            *)
THEOREM FreeSlotsAreUsed == Spec => []NoIdleSlot
BY AsyncInvariant, PTL DEF AsyncInv

(* maxConcurrent_ is a bound for a manager that only its own thread calls.      *)
THEOREM OwnThreadKeepsLimit == ASSUME ~OtherThreads PROVE Spec => []ConcurrencyBounded
<1>1. AsyncInv => ConcurrencyBounded
  <2> SUFFICES ASSUME AsyncInv PROVE Cardinality(Busy) <= maxConcurrent
    BY DEF ConcurrencyBounded
  <2>1. Busy \subseteq Slots /\ IsFiniteSet(Slots) /\ Cardinality(Slots) \in Nat
    BY SlotsAreFinite DEF AsyncInv, TypeOK, Slots
  <2>2. Cardinality(Busy) \in Nat /\ Cardinality(Busy) <= Cardinality(Slots)
    BY <2>1, FS_Subset, FS_CardinalityType
  <2>3. Cardinality(Slots) <= maxConcurrent /\ maxConcurrent \in Nat
    BY AsyncAssumption DEF AsyncInv, TypeOK, WithinLimit, SlotsAreCounted, Slots
  <2> QED BY <2>1, <2>2, <2>3
<1> QED BY AsyncInvariant, <1>1, PTL
=============================================================================
