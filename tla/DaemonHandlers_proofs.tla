------------------------ MODULE DaemonHandlers_proofs ------------------------
(****************************************************************************)
(* Theorems about DaemonHandlers, for any slaves, change lists, target      *)
(* states, sizes of the logs, failing commands and falls of a slave.        *)
(****************************************************************************)
EXTENDS DaemonHandlers, SequenceTheorems, FiniteSetTheorems, WellFoundedInduction, TLAPS

-----------------------------------------------------------------------------
(* The inductive invariant. *)

(* The places of the list that the loop of downloads has passed. *)
Done == DOMAIN change.list \ change.todo

(* A write no later one has replaced is in the object. *)
AsDone(i) ==
  (\A j \in Done : j > i => change.list[j].pos # change.list[i].pos)
  => object[change.list[i].pos] = change.list[i].value

(* What the loops of handleApply have left to do; none has failed yet before *)
(* the downloads.                                                            *)
Phase ==
  /\ change \in Locals
  /\ change.todo # {} /\ change.notRestored \subseteq affectedSlaves(change.list)
  /\ change.todo \subseteq IF change.phase = "apply_sdo" THEN DOMAIN change.list
                                                         ELSE affectedSlaves(change.list)
  /\ change.phase = "transition_preop" => change.failed = 0

(* The list is done in its order, and what did not fail is written. *)
Writes ==
  change.phase = "apply_sdo" =>
    /\ \A i \in Done, j \in change.todo : i < j
    /\ change.failed = 0 => \A i \in Done : AsDone(i)

(* With no failure the slaves are brought back with the last value of each. *)
Written ==
  change.phase = "transition_op" /\ change.failed = 0 =>
    \A p \in affectedSlaves(change.list) : object[p] = LastFor(change.list, p)

(* Each slave brought back so far was asked for the target state, or is named. *)
Restores ==
  change.phase = "transition_op" =>
    \A p \in affectedSlaves(change.list) \ change.todo :
      asked[p] = change.target \/ p \in change.notRestored

ChangeInv == ~Idle => Phase /\ Writes /\ Written /\ Restores

(* The parts of the type invariant. *)
BusOK ==
  /\ state \in [Slaves -> States] /\ asked \in [Slaves -> States]
  /\ object \in [Slaves -> Values \cup {None}]

Entries == [slave : Slaves, code : States]

LogOK ==
  /\ previous \in [Slaves -> States \cup {None}]
  /\ events \in Seq(Entries) /\ Len(events) <= MaxEvents

HistoryOK == history \in Seq(Kinds) /\ Len(history) <= MaxHistory

FlagsOK == {native, running, selected, rtDataValid, dcActivated, wanted} \subseteq BOOLEAN

-----------------------------------------------------------------------------
(* The constants, and the least and the greatest of a set of numbers. *)

LEMMA HandlersConstants ==
  /\ Slaves \subseteq Nat /\ Slaves # {} /\ Cardinality(Slaves) \in Nat
  /\ Slaves = 0 .. Cardinality(Slaves) - 1 /\ IsFiniteSet(Slaves)
  /\ Targets \subseteq States /\ Requests \subseteq States
  /\ MaxEvents \in Nat \ {0} /\ MaxHistory \in Nat \ {0}
  /\ None \notin States /\ None \notin Locals
<1>1. Cardinality(Slaves) \in Nat  BY HandlersAssumption, FS_CardinalityType
<1> QED BY <1>1, HandlersAssumption

LEMMA ListFacts ==
  ASSUME NEW list \in Changes
  PROVE  /\ Len(list) \in Nat \ {0} /\ DOMAIN list = 1 .. Len(list)
         /\ \A i \in DOMAIN list : list[i].pos \in Slaves /\ list[i].value \in Values
         /\ affectedSlaves(list) \subseteq Slaves /\ affectedSlaves(list) # {}
<1>1. list \in Seq([pos : Slaves, value : Values]) /\ list # <<>>  BY HandlersAssumption
<1>2. Len(list) \in Nat \ {0} /\ DOMAIN list = 1 .. Len(list)
  BY <1>1, EmptySeq, LenProperties
<1>3. \A i \in DOMAIN list : list[i] \in [pos : Slaves, value : Values]
  BY <1>1, <1>2, ElementOfSeq
<1> QED BY <1>2, <1>3 DEF affectedSlaves

LEMMA LeastOf ==
  ASSUME NEW S \in SUBSET Nat, S # {}
  PROVE  Min(S) \in S /\ \A y \in S : Min(S) <= y
<1> DEFINE R == {ss \in Nat \X Nat : ss[1] < ss[2]}
<1>1. IsWellFoundedOn(R, Nat)  BY NatLessThanWellFounded, Zenon DEF OpToRel
<1>2. \E x \in S : \A y \in S : ~(<<y, x>> \in R)
  <2> HIDE DEF R
  <2>1. S \subseteq Nat  OBVIOUS
  <2> QED BY <1>1, <2>1, WFMin, Zenon
<1>3. PICK x \in S : \A y \in S : ~(<<y, x>> \in R)  BY <1>2
<1>4. ASSUME NEW y \in S PROVE x <= y
  <2>1. <<y, x>> \in Nat \X Nat /\ <<y, x>>[1] = y /\ <<y, x>>[2] = x  OBVIOUS
  <2>2. ~(<<y, x>>[1] < <<y, x>>[2])  BY <1>3, <2>1, Zenon
  <2> QED BY <2>1, <2>2
<1> QED BY <1>4 DEF Min

LEMMA GreatestOf ==
  ASSUME NEW n \in Nat, NEW S \in SUBSET (0 .. n), S # {}
  PROVE  Max(S) \in S /\ \A y \in S : Max(S) >= y
<1> DEFINE Flip == {n - y : y \in S}
<1>1. Flip \in SUBSET Nat /\ Flip # {}
  <2>1. \A y \in S : n - y \in Nat  OBVIOUS
  <2>2. Flip # {}  OBVIOUS
  <2> QED BY <2>1, <2>2
<1>2. Min(Flip) \in Flip /\ \A y \in Flip : Min(Flip) <= y  BY <1>1, LeastOf
<1>3. PICK x \in S : Min(Flip) = n - x  BY <1>2
<1>4. \A y \in S : x >= y
  <2> TAKE y \in S
  <2>1. n - y \in Flip  OBVIOUS
  <2>2. n - x <= n - y  BY <1>2, <1>3, <2>1
  <2> QED BY <2>2
<1> QED BY <1>4 DEF Max

(* The slaves of a list can be listed upwards: no poll waits for its events. *)
LEMMA ListedInOrder == ASSUME NEW S \in SUBSET Slaves PROVE InOrder(S) # {}
<1> DEFINE Bad == {n \in Nat : \E T \in SUBSET Slaves : Cardinality(T) = n /\ InOrder(T) = {}}
<1>0. \A T \in SUBSET Slaves : IsFiniteSet(T) /\ Cardinality(T) \in Nat
  BY HandlersConstants, FS_Subset, FS_CardinalityType
<1>1. SUFFICES ASSUME Bad # {} PROVE FALSE
  BY <1>0
<1>2. Min(Bad) \in Bad /\ \A y \in Bad : Min(Bad) <= y  BY <1>1, LeastOf
<1>3. PICK n \in Nat, T \in SUBSET Slaves :
        Cardinality(T) = n /\ InOrder(T) = {} /\ \A y \in Bad : n <= y
  BY <1>2
<1>4. CASE T = {}
  <2>1. n = 0  BY <1>3, <1>4, FS_EmptySet
  <2> DEFINE e == [i \in 1 .. 0 |-> i]
  <2>2. e \in [1 .. 0 -> {}] /\ DOMAIN e = {}  OBVIOUS
  <2> HIDE DEF e
  <2>3. e \in InOrder(T)  BY <1>3, <1>4, <2>1, <2>2 DEF InOrder
  <2> QED BY <1>3, <2>3
<1>5. CASE T # {}
  <2>1. T \in SUBSET (0 .. Cardinality(Slaves)) /\ Cardinality(Slaves) \in Nat /\ T \subseteq Nat
    BY HandlersConstants
  <2>2. PICK m \in T : \A y \in T : m >= y  BY <1>5, <2>1, GreatestOf
  <2>3. Cardinality(T \ {m}) = n - 1 /\ n - 1 \in Nat
    <3>1. IsFiniteSet(T) /\ Cardinality(T \ {m}) \in Nat  BY <1>0
    <3>2. Cardinality(T \ {m}) = Cardinality(T) - 1  BY <2>2, <3>1, FS_RemoveElement
    <3> QED BY <1>3, <3>1, <3>2
  <2>4. InOrder(T \ {m}) # {}
    <3>1. n - 1 \notin Bad
      <4> HIDE DEF Bad
      <4> QED BY <1>3, <2>3
    <3>2. T \ {m} \in SUBSET Slaves  OBVIOUS
    <3> QED BY <2>3, <3>1, <3>2
  <2>5. PICK s \in [1 .. n - 1 -> T \ {m}] :
          /\ \A p \in T \ {m} : \E i \in DOMAIN s : s[i] = p
          /\ \A i, j \in DOMAIN s : i < j => s[i] < s[j]
    BY <2>3, <2>4 DEF InOrder
  <2> DEFINE t == [i \in 1 .. n |-> IF i = n THEN m ELSE s[i]]
  <2>6. t \in [1 .. n -> T] /\ DOMAIN t = 1 .. n  BY <1>3, <2>3, <2>5
  <2>7. \A p \in T : \E i \in DOMAIN t : t[i] = p
    <3> TAKE p \in T
    <3>1. CASE p = m
      <4>1. n \in 1 .. n /\ t[n] = m  BY <1>3, <2>3
      <4> QED BY <2>6, <3>1, <4>1
    <3>2. CASE p # m
      <4>1. PICK i \in 1 .. n - 1 : s[i] = p  BY <2>5, <3>2
      <4>2. i \in 1 .. n /\ i # n  BY <1>3, <4>1
      <4> QED BY <2>6, <4>1, <4>2
    <3> QED BY <3>1, <3>2
  <2>8. ASSUME NEW i \in DOMAIN t, NEW j \in DOMAIN t, i < j PROVE t[i] < t[j]
    <3>0. i \in 1 .. n /\ j \in 1 .. n /\ i < j  BY <2>6, <2>8
    <3>1. i \in 1 .. n - 1 /\ i # n /\ t[i] = s[i] /\ s[i] \in T \ {m}
      <4>1. i \in 1 .. n - 1 /\ i # n  BY <1>3, <3>0
      <4>2. s[i] \in T \ {m}  BY <2>5, <4>1
      <4> QED BY <3>0, <4>1, <4>2
    <3>2. CASE j = n
      <4>1. t[j] = m  BY <3>0, <3>2
      <4>2. s[i] \in T /\ s[i] # m /\ s[i] \in Nat /\ m \in Nat /\ m >= s[i]  BY <2>1, <2>2, <3>1
      <4> QED BY <3>1, <4>1, <4>2
    <3>3. CASE j # n
      <4>1. j \in 1 .. n - 1 /\ t[j] = s[j]  BY <1>3, <2>6, <3>3
      <4> QED BY <2>5, <2>8, <3>1, <4>1
    <3> QED BY <3>2, <3>3
  <2> HIDE DEF t
  <2>9. t \in InOrder(T)  BY <1>3, <2>6, <2>7, <2>8 DEF InOrder
  <2> QED BY <1>3, <2>9
<1> QED BY <1>4, <1>5

(* What is kept of a log. *)
LEMMA KeptFacts ==
  ASSUME NEW S, NEW s \in Seq(S), NEW max \in Nat \ {0}
  PROVE  /\ Kept(s, max) \in Seq(S) /\ Len(Kept(s, max)) <= max
         /\ Len(s) >= max => Len(Kept(s, max)) = max
         /\ Len(s) <= max => Kept(s, max) = s
<1>1. Len(s) \in Nat  BY LenProperties
<1>2. CASE Len(s) > max
  <2>1. Kept(s, max) = SubSeq(s, Len(s) - max + 1, Len(s))  BY <1>2 DEF Kept
  <2>2. \A i \in Len(s) - max + 1 .. Len(s) : s[i] \in S  BY <1>1, <1>2, ElementOfSeq
  <2>3. Len(s) - max + 1 \in Int  BY <1>1
  <2>4. /\ SubSeq(s, Len(s) - max + 1, Len(s)) \in Seq(S)
        /\ Len(SubSeq(s, Len(s) - max + 1, Len(s))) = Len(s) - (Len(s) - max + 1) + 1
    BY <1>1, <1>2, <2>2, <2>3, SubSeqProperties
  <2> QED BY <1>1, <1>2, <2>1, <2>4
<1>3. CASE ~(Len(s) > max)
  BY <1>1, <1>3 DEF Kept
<1> QED BY <1>2, <1>3

-----------------------------------------------------------------------------
(* The loops of handleApply go upwards through what is left. *)
LEMMA NextTodo ==
  ASSUME ~Idle, Phase
  PROVE  /\ Min(change.todo) \in change.todo /\ \A y \in change.todo : Min(change.todo) <= y
         /\ change.todo \subseteq Nat
<1>1. change.todo \subseteq Nat /\ change.todo # {}
  BY HandlersConstants, ListFacts DEF Phase, Locals
<1> QED BY <1>1, LeastOf

LEMMA HandlersInit == Init => BusOK /\ LogOK /\ HistoryOK /\ FlagsOK /\ ChangeInv /\ FaultsAreLogged
<1> SUFFICES ASSUME Init PROVE BusOK /\ LogOK /\ HistoryOK /\ FlagsOK /\ ChangeInv /\ FaultsAreLogged
  OBVIOUS
<1>1. BusOK  BY DEF Init, BusOK, States, Healthy
<1>2. LogOK  BY HandlersConstants, EmptySeq DEF Init, LogOK
<1>3. HistoryOK  BY HandlersConstants, EmptySeq DEF Init, HistoryOK
<1>4. FlagsOK  BY DEF Init, FlagsOK
<1>5. ChangeInv  BY DEF Init, ChangeInv, Idle
<1>6. FaultsAreLogged  BY DEF Init, FaultsAreLogged
<1> QED BY <1>1, <1>2, <1>3, <1>4, <1>5, <1>6

-----------------------------------------------------------------------------
(* The bus, the histories and the flags. *)

LEMMA AskFacts ==
  ASSUME asked \in [Slaves -> States], NEW p, NEW s \in States, NEW done, Ask(p, s, done)
  PROVE  /\ asked' \in [Slaves -> States]
         /\ \A q \in Slaves : asked'[q] = asked[q] \/ asked'[q] = s
         /\ done /\ p \in Slaves => asked'[p] = s
<1>1. asked' = [asked EXCEPT ![p] = s] \/ asked' = asked  BY DEF Ask
<1>2. done => asked' = [asked EXCEPT ![p] = s]  BY DEF Ask
<1> QED BY <1>1, <1>2

LEMMA BusStep ==
  ASSUME BusOK, ChangeInv, [Next]_vars
  PROVE  BusOK'
<1> USE DEF BusOK
<1>0. Targets \subseteq States /\ Requests \subseteq States /\ "PREOP" \in States
  BY HandlersConstants DEF States, Healthy
<1>1. ASSUME NEW p \in Slaves, Move(p) PROVE BusOK'
  <2>1. state[p] \in States /\ asked[p] \in States /\ Above(state[p]) \in States
    BY DEF Above, States, Healthy
  <2>2. state' \in [Slaves -> States]  BY <1>1, <2>1 DEF Move
  <2> QED BY <1>1, <2>2 DEF Move
<1>2. ASSUME NEW p \in Slaves, Fall(p) PROVE BusOK'
  BY <1>2 DEF Fall, States
<1>3. ASSUME NEW p \in Slaves, NEW s \in Requests, setState(p, s) PROVE BusOK'
  <2>1. PICK done \in BOOLEAN : Ask(p, s, done)  BY <1>3 DEF setState
  <2>2. asked' \in [Slaves -> States]  BY <1>0, <2>1, AskFacts
  <2> QED BY <1>3, <2>2 DEF setState
<1>4. ASSUME NEW s \in Requests, setAllStates(s) PROVE BusOK'
  BY <1>0, <1>4 DEF setAllStates
<1>5. CASE ToPreop
  <2>1. PICK done \in BOOLEAN : Ask(Min(change.todo), "PREOP", done)  BY <1>5 DEF ToPreop
  <2>2. asked' \in [Slaves -> States]  BY <1>0, <2>1, AskFacts
  <2> QED BY <1>5, <2>2 DEF ToPreop
<1>6. CASE Download
  <2>1. Phase /\ ~Idle /\ change.phase = "apply_sdo"  BY <1>6 DEF Download, ChangeInv
  <2>2. Min(change.todo) \in DOMAIN change.list /\ change.list \in Changes
    BY <2>1, NextTodo DEF Phase, Locals
  <2>3. change.list[Min(change.todo)].value \in Values  BY <2>2, ListFacts
  <2>4. object' \in [Slaves -> Values \cup {None}]
    BY <1>6, <2>3 DEF Download
  <2> QED BY <1>6, <2>4 DEF Download
<1>7. CASE Restore
  <2>1. change.target \in States  BY <1>0, <1>7 DEF Restore, ChangeInv, Phase, Locals
  <2>2. PICK done \in BOOLEAN : Ask(Min(change.todo), change.target, done)  BY <1>7 DEF Restore
  <2>3. asked' \in [Slaves -> States]  BY <2>1, <2>2, AskFacts
  <2> QED BY <1>7, <2>3 DEF Restore
<1>8. CASE UNCHANGED bus  BY <1>8 DEF bus
<1>9. [Next]_vars => \/ \E p \in Slaves : Move(p) \/ Fall(p) \/ \E s \in Requests : setState(p, s)
                     \/ \E s \in Requests : setAllStates(s)
                     \/ ToPreop \/ Download \/ Restore \/ UNCHANGED bus
  BY DEF Next, vars, bus, poll, PollFails, pollSlaveAlStatus, alEventClear, onlineChangeApply, redundancyCall,
         setBackend, FreeRunStart, FreeRunStop, dcActivate, dcDeactivate, update
<1> QED BY <1>1, <1>2, <1>3, <1>4, <1>5, <1>6, <1>7, <1>8, <1>9

LEMMA HistoryStep ==
  ASSUME HistoryOK, [Next]_vars
  PROVE  HistoryOK'
<1> USE HandlersConstants DEF HistoryOK
<1>1. ASSUME NEW kind \in Kinds, redundancyCall(kind) PROVE HistoryOK'
  <2>1. Append(history, kind) \in Seq(Kinds)  OBVIOUS
  <2> QED BY <1>1, <2>1, KeptFacts DEF redundancyCall
<1>2. (history' = history => HistoryOK') /\ (history' = <<>> => HistoryOK')
  <2>1. <<>> \in Seq(Kinds) /\ Len(<<>>) = 0 /\ 0 <= MaxHistory  BY EmptySeq
  <2> QED BY <2>1
<1>3. (history' = history \/ history' = <<>>) \/ \E kind \in Kinds : redundancyCall(kind)
  BY DEF Next, vars, bus, Move, Fall, setState, setAllStates, poll, PollFails, pollSlaveAlStatus, alEventClear,
         onlineChangeApply, ToPreop, Download, Restore, setBackend,
         FreeRunStart, FreeRunStop, dcActivate, dcDeactivate, update
<1> QED BY <1>1, <1>2, <1>3

LEMMA FlagsStep ==
  ASSUME FlagsOK, [Next]_vars
  PROVE  FlagsOK'
<1>0. /\ native \in BOOLEAN /\ running \in BOOLEAN /\ selected \in BOOLEAN
      /\ rtDataValid \in BOOLEAN /\ dcActivated \in BOOLEAN /\ wanted \in BOOLEAN
  BY DEF FlagsOK
<1>1. native' \in BOOLEAN
  <2>1. native' = native
        \/ \E mode \in {"cli", "native", "auto"}, available \in BOOLEAN : setBackend(mode, available)
    BY Zenon DEF Next, vars, Move, Fall, setState, setAllStates, poll, PollFails, pollSlaveAlStatus, alEventClear,
         onlineChangeApply, ToPreop, Download, Restore, redundancyCall,
         FreeRunStart, FreeRunStop, dcActivate, dcDeactivate, update
  <2>2. ASSUME NEW mode, NEW available, setBackend(mode, available) PROVE native' \in BOOLEAN
    <3>1. native' = (mode # "cli") \/ native' = native  BY <2>2 DEF setBackend
    <3>2. (mode # "cli") \in BOOLEAN  OBVIOUS
    <3> QED BY <1>0, <3>1, <3>2, Zenon
  <2> QED BY <1>0, <2>1, <2>2
<1>2. clocks' = clocks \/ FreeRunStart \/ FreeRunStop \/ dcActivate \/ dcDeactivate \/ update
  BY Zenon DEF Next, vars, Move, Fall, setState, setAllStates, poll, PollFails, pollSlaveAlStatus, alEventClear,
         onlineChangeApply, ToPreop, Download, Restore, redundancyCall, setBackend
<1>3. /\ running' \in BOOLEAN /\ selected' \in BOOLEAN /\ rtDataValid' \in BOOLEAN
      /\ dcActivated' \in BOOLEAN /\ wanted' \in BOOLEAN
  <2>1. CASE clocks' = clocks  BY <1>0, <2>1 DEF clocks
  <2>2. CASE FreeRunStart  BY <1>0, <2>2, Zenon DEF FreeRunStart
  <2>3. CASE FreeRunStop  BY <1>0, <2>3, Zenon DEF FreeRunStop
  <2>4. CASE dcActivate  BY <1>0, <2>4, Zenon DEF dcActivate
  <2>5. CASE dcDeactivate  BY <1>0, <2>5, Zenon DEF dcDeactivate
  <2>6. CASE update  BY <1>0, <2>6, Zenon DEF update
  <2> QED BY <1>2, <2>1, <2>2, <2>3, <2>4, <2>5, <2>6
<1> QED BY <1>1, <1>3, Zenon DEF FlagsOK

-----------------------------------------------------------------------------
(* The log: a poll appends the events of the slaves it read to what is kept,   *)
(* and forgets nothing as long as the log is not full.                        *)
LEMMA PollKeepsLog ==
  ASSUME LogOK, BusOK, FaultsAreLogged, NEW n, pollSlaveAlStatus(n)
  PROVE  LogOK' /\ FaultsAreLogged'
<1> DEFINE T == NewEvents(n)
<1>0. state \in [Slaves -> States] /\ previous \in [Slaves -> States \cup {None}]
      /\ events \in Seq(Entries) /\ Len(events) \in Nat /\ Len(events) <= MaxEvents
      /\ MaxEvents \in Nat \ {0}
  BY HandlersConstants, LenProperties DEF BusOK, LogOK
<1>1. PICK new \in InOrder(T) :
        events' = Kept(events \o [i \in DOMAIN new |-> Event(new[i])], MaxEvents)
  BY DEF pollSlaveAlStatus
<1>2. /\ T \subseteq Slaves /\ \A p \in Slaves : p \in T <=> p < n /\ IsEvent(p)
      /\ previous' = [p \in Slaves |-> IF p < n THEN state[p] ELSE previous[p]]
  BY DEF NewEvents, pollSlaveAlStatus, Seen
<1>3. IsFiniteSet(T) /\ Cardinality(T) \in Nat
  BY <1>2, HandlersConstants, FS_Subset, FS_CardinalityType
<1> HIDE DEF T
<1>4. /\ new \in [1 .. Cardinality(T) -> T] /\ \A p \in T : \E i \in DOMAIN new : new[i] = p
      /\ \A i, j \in DOMAIN new : i < j => new[i] < new[j]
  BY <1>1 DEF InOrder
<1> DEFINE added == [i \in DOMAIN new |-> Event(new[i])]
           both == events \o added
<1>5. /\ added \in Seq(Entries) /\ Len(added) = Cardinality(T)
      /\ \A i \in 1 .. Cardinality(T) : added[i] = Event(new[i])
  <2>1. added = [i \in 1 .. Cardinality(T) |-> Event(new[i])]  BY <1>4
  <2>2. \A i \in 1 .. Cardinality(T) : Event(new[i]) \in Entries
    BY <1>0, <1>2, <1>4 DEF Event, Entries
  <2>3. added \in [1 .. Cardinality(T) -> Entries]  BY <2>1, <2>2
  <2> HIDE DEF added
  <2> QED BY <1>3, <2>1, <2>3
<1> HIDE DEF added
<1>6. /\ both \in Seq(Entries) /\ Len(both) = Len(events) + Cardinality(T)
      /\ \A i \in 1 .. Len(events) : both[i] = events[i]
      /\ \A i \in 1 .. Cardinality(T) : both[Len(events) + i] = Event(new[i])
  <2>1. /\ both \in Seq(Entries) /\ Len(both) = Len(events) + Cardinality(T)
        /\ \A i \in 1 .. Len(events) + Len(added) :
             both[i] = IF i <= Len(events) THEN events[i] ELSE added[i - Len(events)]
    BY <1>0, <1>5, ConcatProperties
  <2>2. \A i \in 1 .. Len(events) : both[i] = events[i]  BY <1>0, <1>3, <1>5, <2>1
  <2>3. ASSUME NEW i \in 1 .. Cardinality(T) PROVE both[Len(events) + i] = Event(new[i])
    <3>1. Len(events) + i \in 1 .. Len(events) + Len(added) /\ ~(Len(events) + i <= Len(events))
          /\ (Len(events) + i) - Len(events) = i
      BY <1>0, <1>3, <1>5
    <3> QED BY <1>5, <2>1, <3>1
  <2> QED BY <2>1, <2>2, <2>3
<1> HIDE DEF both
<1>7. events' = Kept(both, MaxEvents)  BY <1>1 DEF both, added
<1>8. /\ events' \in Seq(Entries) /\ Len(events') <= MaxEvents
      /\ Len(both) >= MaxEvents => Len(events') = MaxEvents
      /\ Len(both) <= MaxEvents => events' = both
  BY <1>0, <1>6, <1>7, KeptFacts
<1>9. LogOK'  BY <1>0, <1>2, <1>8 DEF LogOK
<1>10. ASSUME NEW p \in Slaves, previous'[p] \notin Healthy \cup {None}, Len(events') # MaxEvents
       PROVE  \E i \in DOMAIN events' : /\ events'[i] = [slave |-> p, code |-> previous'[p]]
                                        /\ \A j \in i + 1 .. Len(events') : events'[j].slave # p
  <2>1. Len(both) < MaxEvents /\ events' = both /\ Len(events) # MaxEvents
    BY <1>0, <1>3, <1>6, <1>8, <1>10
  <2>2. CASE p \in T
    <3>1. previous'[p] = state[p]  BY <1>2, <2>2
    <3>2. PICK i \in 1 .. Cardinality(T) : new[i] = p  BY <1>4, <2>2
    <3>3. both[Len(events) + i] = [slave |-> p, code |-> previous'[p]]
      BY <1>6, <3>1, <3>2 DEF Event
    <3>4. ASSUME NEW j \in Len(events) + i + 1 .. Len(both) PROVE both[j].slave # p
      <4>1. j - Len(events) \in 1 .. Cardinality(T) /\ i < j - Len(events)
            /\ Len(events) + (j - Len(events)) = j
        BY <1>0, <1>3, <1>6
      <4>2. both[j] = Event(new[j - Len(events)])  BY <1>6, <4>1
      <4>3. new[i] < new[j - Len(events)]  BY <1>4, <4>1
      <4>4. new[j - Len(events)] # p
        BY <1>2, <1>4, <3>2, <4>1, <4>3, HandlersConstants
      <4> QED BY <4>2, <4>4 DEF Event
    <3>5. Len(events) + i \in DOMAIN both  BY <1>0, <1>3, <1>6
    <3> QED BY <2>1, <3>3, <3>4, <3>5
  <2>3. CASE p \notin T
    <3>1. previous'[p] = previous[p]  BY <1>2, <1>10, <2>3 DEF IsEvent
    <3>2. LastOf(p, previous[p])  BY <1>10, <2>1, <3>1 DEF FaultsAreLogged
    <3>3. PICK i \in DOMAIN events :
            /\ events[i] = [slave |-> p, code |-> previous[p]]
            /\ \A j \in i + 1 .. Len(events) : events[j].slave # p
      BY <3>2 DEF LastOf
    <3>4. i \in 1 .. Len(events) /\ i \in DOMAIN both  BY <1>0, <1>3, <1>6
    <3>5. both[i] = [slave |-> p, code |-> previous'[p]]  BY <1>6, <3>1, <3>3, <3>4
    <3>6. ASSUME NEW j \in i + 1 .. Len(both) PROVE both[j].slave # p
      <4>1. CASE j <= Len(events)  BY <1>0, <1>6, <3>3, <3>4, <4>1
      <4>2. CASE j > Len(events)
        <5>1. j - Len(events) \in 1 .. Cardinality(T) /\ Len(events) + (j - Len(events)) = j
          BY <1>0, <1>3, <1>6, <3>4, <4>2
        <5>2. both[j] = Event(new[j - Len(events)]) /\ new[j - Len(events)] # p
          BY <1>4, <1>6, <2>3, <5>1
        <5> QED BY <5>2 DEF Event
      <4> QED BY <1>0, <1>6, <3>4, <4>1, <4>2
    <3> QED BY <2>1, <3>4, <3>5, <3>6
  <2> QED BY <2>2, <2>3
<1> QED BY <1>9, <1>10 DEF FaultsAreLogged, LastOf

LEMMA LogStep ==
  ASSUME LogOK, BusOK, FaultsAreLogged, [Next]_vars
  PROVE  LogOK' /\ FaultsAreLogged'
<1>1. CASE UNCHANGED alLog  BY <1>1 DEF alLog, LogOK, FaultsAreLogged, LastOf
<1>2. CASE \E n : pollSlaveAlStatus(n)  BY <1>2, PollKeepsLog
<1>3. CASE alEventClear
  <2>1. events' = <<>> /\ previous' = [p \in Slaves |-> None]  BY <1>3 DEF alEventClear
  <2> QED BY <2>1, HandlersConstants, EmptySeq DEF LogOK, FaultsAreLogged
<1>4. UNCHANGED alLog \/ (\E n : pollSlaveAlStatus(n)) \/ alEventClear
  BY DEF Next, vars, alLog, Move, Fall, setState, setAllStates, poll, PollFails, onlineChangeApply, ToPreop,
         Download, Restore, redundancyCall, setBackend, FreeRunStart, FreeRunStop, dcActivate, dcDeactivate, update
<1> QED BY <1>1, <1>2, <1>3, <1>4

-----------------------------------------------------------------------------
(* The online change, call by call. *)

LEMMA StepsOfChange ==
  ASSUME [Next]_vars
  PROVE  \/ UNCHANGED change /\ (~Idle => asked' = asked /\ object' = object) /\ reply' = reply
         \/ Idle /\ reply' = reply
            /\ \E list \in Changes, target \in Targets : onlineChangeApply(list, target)
         \/ ToPreop \/ Download \/ Restore
BY DEF Next, vars, bus, online, Call, Move, Fall, setState, setAllStates, poll, PollFails, pollSlaveAlStatus,
       alEventClear, onlineChangeApply, redundancyCall, setBackend, FreeRunStart, FreeRunStop, dcActivate,
       dcDeactivate, update

LEMMA ChangeBegins ==
  ASSUME NEW list \in Changes, NEW target \in Targets, onlineChangeApply(list, target)
  PROVE  ChangeInv'
<1>1. change' = [phase |-> "transition_preop", list |-> list, target |-> target, failed |-> 0,
                 todo |-> affectedSlaves(list), notRestored |-> {}]
  BY DEF onlineChangeApply
<1>2. /\ change'.phase = "transition_preop" /\ change'.list = list /\ change'.target = target
      /\ change'.failed = 0 /\ change'.todo = affectedSlaves(list) /\ change'.notRestored = {}
  BY <1>1
<1>3. Phase'
  <2>1. affectedSlaves(list) \subseteq Slaves /\ affectedSlaves(list) \subseteq Nat /\ affectedSlaves(list) # {}
    BY ListFacts, HandlersConstants
  <2>2. change' \in Locals  BY <1>1, <2>1 DEF Locals
  <2> QED BY <1>2, <2>1, <2>2 DEF Phase
<1>4. Writes' /\ Written' /\ Restores'  BY <1>2 DEF Writes, Written, Restores
<1> QED BY <1>3, <1>4 DEF ChangeInv

(* The locals of a running change, one field at a time. *)
LEMMA LocalsFacts ==
  ASSUME ~Idle, Phase
  PROVE  /\ change.list \in Changes /\ change.target \in Targets /\ change.failed \in Nat
         /\ DOMAIN change.list = 1 .. Len(change.list) /\ Len(change.list) \in Nat \ {0}
         /\ affectedSlaves(change.list) \subseteq Slaves /\ affectedSlaves(change.list) # {}
         /\ Slaves \subseteq Nat /\ change.todo \subseteq Nat /\ change \in Locals
BY ListFacts, HandlersConstants DEF Phase, Locals

LEMMA ChangeToPreop == ASSUME ChangeInv, ToPreop PROVE ChangeInv' /\ change' # None
<1>1. ~Idle /\ Phase /\ change.phase = "transition_preop" /\ change.failed = 0
  BY DEF ToPreop, ChangeInv, Phase
<1>2. /\ change.list \in Changes /\ DOMAIN change.list = 1 .. Len(change.list)
      /\ Len(change.list) \in Nat \ {0} /\ change \in Locals /\ change.todo \subseteq Nat
      /\ change.todo \subseteq affectedSlaves(change.list)
  BY <1>1, LocalsFacts DEF Phase
<1>3. CASE Rest # {}
  <2>1. change' = [change EXCEPT !.todo = Rest]  BY <1>3 DEF ToPreop
  <2>2. Rest \subseteq change.todo  BY DEF Rest
  <2> HIDE DEF Rest
  <2>3. /\ change' \in Locals /\ change'.phase = "transition_preop" /\ change'.list = change.list
        /\ change'.failed = 0 /\ change'.todo = Rest /\ change'.notRestored = change.notRestored
    BY <1>1, <1>2, <2>1, <2>2 DEF Locals
  <2>4. Phase'  BY <1>1, <1>2, <1>3, <2>2, <2>3 DEF Phase
  <2> QED BY <2>3, <2>4, HandlersConstants DEF ChangeInv, Writes, Written, Restores
<1>4. CASE Rest = {}
  <2>1. change' = [change EXCEPT !.phase = "apply_sdo", !.todo = DOMAIN change.list]
    BY <1>4 DEF ToPreop
  <2>2. DOMAIN change.list \subseteq Nat /\ DOMAIN change.list # {}
    <3>1. 1 \in DOMAIN change.list  BY <1>2
    <3> QED BY <1>2, <3>1
  <2>3. /\ change' \in Locals /\ change'.phase = "apply_sdo" /\ change'.list = change.list
        /\ change'.failed = 0 /\ change'.todo = DOMAIN change.list
        /\ change'.notRestored = change.notRestored
    BY <1>1, <1>2, <2>1, <2>2 DEF Locals
  <2>4. Phase'  BY <1>1, <2>2, <2>3 DEF Phase
  <2>5. Writes'  BY <2>3 DEF Writes, Done
  <2> QED BY <2>3, <2>4, <2>5, HandlersConstants DEF ChangeInv, Written, Restores
<1> QED BY <1>3, <1>4

LEMMA ChangeDownload == ASSUME ChangeInv, BusOK, Download PROVE ChangeInv' /\ change' # None
<1> DEFINE m == Min(change.todo)  c == change.list[m]
<1>1. ~Idle /\ Phase /\ change.phase = "apply_sdo" /\ Writes
  BY DEF Download, ChangeInv
<1>2. /\ change.list \in Changes /\ DOMAIN change.list = 1 .. Len(change.list)
      /\ Len(change.list) \in Nat \ {0} /\ change \in Locals /\ change.todo \subseteq Nat
      /\ change.todo \subseteq DOMAIN change.list /\ change.failed \in Nat
      /\ affectedSlaves(change.list) \subseteq Slaves /\ affectedSlaves(change.list) # {}
      /\ affectedSlaves(change.list) \subseteq Nat /\ object \in [Slaves -> Values \cup {None}]
      /\ change.notRestored \subseteq affectedSlaves(change.list)
  BY <1>1, LocalsFacts DEF Phase, BusOK
<1>3. m \in change.todo /\ \A y \in change.todo : m <= y  BY <1>1, NextTodo
<1>4. PICK ok \in BOOLEAN, done \in BOOLEAN :
        /\ ok => done
        /\ object' = IF done THEN [object EXCEPT ![c.pos] = c.value] ELSE object
        /\ change' = [change EXCEPT
             !.failed = IF ok THEN @ ELSE @ + 1,
             !.phase = IF Rest # {} THEN @ ELSE "transition_op",
             !.todo = IF Rest # {} THEN Rest ELSE affectedSlaves(change.list)]
  <2>1. Download => \E ok, done \in BOOLEAN :
        /\ IF Reached(c.pos) THEN Outcome(ok, done) ELSE ~ok /\ UNCHANGED failures
        /\ object' = IF done THEN [object EXCEPT ![c.pos] = c.value] ELSE object
        /\ change' = [change EXCEPT
             !.failed = IF ok THEN @ ELSE @ + 1,
             !.phase = IF Rest # {} THEN @ ELSE "transition_op",
             !.todo = IF Rest # {} THEN Rest ELSE affectedSlaves(change.list)]
    BY Zenon DEF Download
  <2> QED BY <2>1 DEF Outcome
<1>5. /\ Rest = change.todo \ {m}
      /\ \E f \in Nat : /\ f = 0 => ok /\ change.failed = 0
                      /\ change' = [change EXCEPT
                           !.failed = f, !.phase = IF Rest # {} THEN @ ELSE "transition_op",
                           !.todo = IF Rest # {} THEN Rest ELSE affectedSlaves(change.list)]
  <2>1. CASE ok  BY <1>2, <1>4, <2>1 DEF Rest
  <2>2. CASE ~ok
    <3>1. change.failed + 1 \in Nat /\ change.failed + 1 # 0  BY <1>2
    <3> QED BY <1>4, <2>2, <3>1 DEF Rest
  <2> QED BY <2>1, <2>2
<1>6. c.pos \in Slaves /\ m \in DOMAIN change.list  BY <1>2, <1>3, ListFacts
<1>7. \A i \in DOMAIN change.list : change.list[i].pos \in Slaves  BY <1>2, ListFacts
<1> HIDE DEF Rest, m
(* What was done, and this write. *)
<1> DEFINE now == DOMAIN change.list \ Rest
<1>8. /\ now = Done \cup {m} /\ m \notin Done /\ \A i \in now, j \in Rest : i < j
      /\ \A i \in Done : i < m
  <2>1. now = Done \cup {m} /\ m \notin Done  BY <1>3, <1>5, <1>6 DEF Done
  <2>2. \A i \in Done : i < m  BY <1>1, <1>3 DEF Writes
  <2>3. \A j \in Rest : m < j /\ j \in change.todo  BY <1>2, <1>3, <1>5
  <2>4. \A i \in Done, j \in Rest : i < j  BY <1>1, <2>3 DEF Writes
  <2> QED BY <2>1, <2>2, <2>3, <2>4
<1>9. ASSUME change'.failed = 0, NEW i \in now,
             \A j \in now : j > i => change.list[j].pos # change.list[i].pos
      PROVE  object'[change.list[i].pos] = change.list[i].value
  <2>1. ok /\ change.failed = 0  BY <1>2, <1>5, <1>9 DEF Locals
  <2>2. object' = [object EXCEPT ![c.pos] = c.value]  BY <1>4, <2>1
  <2>3. CASE i = m  BY <1>2, <1>6, <2>2, <2>3
  <2>4. CASE i # m
    <3>1. i \in Done /\ m > i /\ m \in now  BY <1>2, <1>6, <1>8, <2>4 DEF Done
    <3>2. c.pos # change.list[i].pos  BY <1>9, <3>1
    <3>3. AsDone(i)  BY <1>1, <2>1, <3>1 DEF Writes
    <3>4. object[change.list[i].pos] = change.list[i].value
      BY <1>8, <1>9, <3>3 DEF AsDone
    <3>5. i \in DOMAIN change.list  BY <3>1 DEF Done
    <3> QED BY <1>2, <1>7, <2>2, <3>2, <3>4, <3>5
  <2> QED BY <2>3, <2>4
<1> HIDE DEF c, now
<1>10. CASE Rest # {}
  <2>1. /\ change' \in Locals /\ change'.phase = "apply_sdo" /\ change'.list = change.list
        /\ change'.todo = Rest /\ change'.notRestored = change.notRestored
    <3>1. PICK f \in Nat : change' = [change EXCEPT !.failed = f, !.phase = @, !.todo = Rest]
      BY <1>5, <1>10
    <3>2. Rest \in SUBSET Nat  BY <1>2, <1>5
    <3> QED BY <1>1, <1>2, <3>1, <3>2 DEF Locals
  <2>2. Phase'  BY <1>2, <1>5, <1>10, <2>1 DEF Phase
  <2>3. Done' = now  BY <2>1 DEF Done, now
  <2>4. Writes'
    <3>1. change'.failed = 0 => \A i \in now : AsDone(i)'
      BY <1>9, <2>1, <2>3 DEF AsDone
    <3> QED BY <1>8, <2>1, <2>3, <3>1 DEF Writes
  <2> QED BY <2>1, <2>2, <2>4, HandlersConstants DEF ChangeInv, Written, Restores
<1>11. CASE Rest = {}
  <2>1. /\ change' \in Locals /\ change'.phase = "transition_op" /\ change'.list = change.list
        /\ change'.todo = affectedSlaves(change.list) /\ change'.notRestored = change.notRestored
    BY <1>1, <1>2, <1>5, <1>11 DEF Locals
  <2>2. Phase'  BY <1>2, <2>1 DEF Phase
  <2>3. now = DOMAIN change.list  BY <1>11 DEF now
  <2>4. ASSUME change'.failed = 0, NEW p \in affectedSlaves(change.list)
        PROVE  object'[p] = LastFor(change.list, p)
    <3> DEFINE S == {i \in DOMAIN change.list : change.list[i].pos = p}
    <3>1. S # {} /\ S \in SUBSET (0 .. Len(change.list))  BY <1>2 DEF affectedSlaves
    <3>2. Max(S) \in S /\ \A y \in S : Max(S) >= y  BY <1>2, <3>1, GreatestOf
    <3> DEFINE x == Max(S)
    <3>3. LastFor(change.list, p) = change.list[x].value  BY DEF LastFor
    <3> HIDE DEF x
    <3>4. x \in now /\ change.list[x].pos = p /\ \A y \in S : x >= y  BY <2>3, <3>2 DEF x
    <3>5. \A j \in now : j > x => change.list[j].pos # change.list[x].pos
      BY <1>2, <2>3, <3>4
    <3> QED BY <1>9, <2>4, <3>3, <3>4, <3>5
  <2>5. Written'  BY <2>1, <2>4 DEF Written
  <2> QED BY <2>1, <2>2, <2>5, HandlersConstants DEF ChangeInv, Writes, Restores
<1> QED BY <1>10, <1>11

(* Its last call, and what the reply tells. *)
LEMMA ChangeRestore ==
  ASSUME ChangeInv, BusOK, Restore
  PROVE  /\ ChangeInv'
         /\ change' = None => \A p \in affectedSlaves(change.list) :
              /\ asked'[p] = change.target \/ p \in reply'.notRestored
              /\ reply'.success => object'[p] = LastFor(change.list, p)
<1> DEFINE m == Min(change.todo)
<1>1. ~Idle /\ Phase /\ change.phase = "transition_op" /\ Written /\ Restores
  BY DEF Restore, ChangeInv
<1>2. /\ change.list \in Changes /\ change \in Locals /\ change.todo \subseteq Nat
      /\ change.todo \subseteq affectedSlaves(change.list)
      /\ affectedSlaves(change.list) \subseteq Slaves
      /\ change.notRestored \subseteq affectedSlaves(change.list)
      /\ asked \in [Slaves -> States] /\ change.target \in States
  BY <1>1, LocalsFacts, HandlersConstants DEF Phase, BusOK
<1>3. m \in change.todo  BY <1>1, NextTodo
<1> DEFINE named(ok) == IF ok THEN change.notRestored ELSE change.notRestored \cup {m}
<1>4. PICK ok \in BOOLEAN, done \in BOOLEAN :
        /\ Outcome(ok, done) /\ Ask(m, change.target, done)
        /\ IF Rest # {}
             THEN change' = [change EXCEPT !.todo = Rest, !.notRestored = named(ok)] /\ UNCHANGED reply
             ELSE /\ change' = None
                  /\ reply' = [success |-> change.failed = 0, notRestored |-> named(ok)]
  BY Zenon DEF Restore
<1>5. Rest = change.todo \ {m} /\ (ok => done) /\ object' = object  BY <1>4 DEF Rest, Outcome, Restore
<1> DEFINE names == named(ok)
<1>6. /\ names \subseteq affectedSlaves(change.list) /\ change.notRestored \subseteq names
      /\ ~ok => m \in names
  BY <1>2, <1>3
<1> HIDE DEF Rest, m, names
<1>7. /\ \A q \in Slaves : asked'[q] = asked[q] \/ asked'[q] = change.target
      /\ done => asked'[m] = change.target
  <2>1. Ask(m, change.target, done) /\ m \in Slaves  BY <1>2, <1>3, <1>4
  <2>2. change.target \in States /\ asked \in [Slaves -> States]  BY <1>2
  <2> DEFINE t == change.target
  <2> HIDE DEF t
  <2>3. t \in States /\ Ask(m, t, done)  BY <2>1, <2>2 DEF t
  <2>4. /\ \A q \in Slaves : asked'[q] = asked[q] \/ asked'[q] = t
        /\ done /\ m \in Slaves => asked'[m] = t
    BY <2>2, <2>3, AskFacts
  <2> QED BY <2>1, <2>4 DEF t
<1>8. \A p \in affectedSlaves(change.list) \ Rest : asked'[p] = change.target \/ p \in names
  <2> TAKE p \in affectedSlaves(change.list) \ Rest
  <2>1. CASE p = m  BY <1>5, <1>6, <1>7, <2>1
  <2>2. CASE p # m
    <3>1. asked[p] = change.target \/ p \in change.notRestored  BY <1>1, <1>5, <2>2 DEF Restores
    <3> QED BY <1>2, <1>6, <1>7, <3>1
  <2> QED BY <2>1, <2>2
<1>9. CASE Rest # {}
  <2>1. change' = [change EXCEPT !.todo = Rest, !.notRestored = names]
    BY <1>4, <1>9 DEF names
  <2>2. /\ change' \in Locals /\ change'.phase = "transition_op" /\ change'.list = change.list
        /\ change'.target = change.target /\ change'.failed = change.failed
        /\ change'.todo = Rest /\ change'.notRestored = names
    BY <1>1, <1>2, <1>5, <1>6, <2>1 DEF Locals
  <2>3. Phase'  BY <1>2, <1>5, <1>6, <1>9, <2>2 DEF Phase
  <2>4. Written'  BY <1>1, <1>5, <2>2 DEF Written
  <2>5. Restores'  BY <1>8, <2>2 DEF Restores
  <2>6. ChangeInv'  BY <2>2, <2>3, <2>4, <2>5 DEF ChangeInv, Writes
  <2>7. change' # None  BY <2>2, HandlersConstants
  <2> QED BY <2>6, <2>7
<1>10. CASE Rest = {}
  <2>1. change' = None /\ reply' = [success |-> change.failed = 0, notRestored |-> names]
    BY <1>4, <1>10 DEF names
  <2>2. reply'.notRestored = names /\ (reply'.success => change.failed = 0)  BY <2>1
  <2>3. ChangeInv'  BY <2>1 DEF ChangeInv, Idle
  <2>4. change.failed = 0 => \A p \in affectedSlaves(change.list) : object'[p] = LastFor(change.list, p)
    BY <1>1, <1>5 DEF Written
  <2> QED BY <1>8, <1>10, <2>2, <2>3, <2>4
<1> QED BY <1>9, <1>10

LEMMA ChangeStep == ASSUME ChangeInv, BusOK, [Next]_vars PROVE ChangeInv'
<1>1. CASE UNCHANGED change /\ (~Idle => asked' = asked /\ object' = object)
  <2>1. CASE Idle  BY <1>1, <2>1 DEF Idle, ChangeInv
  <2>2. CASE ~Idle
    <3>1. UNCHANGED <<change, asked, object>> /\ Phase /\ Writes /\ Written /\ Restores
      BY <1>1, <2>2 DEF ChangeInv
    <3> QED BY <3>1 DEF ChangeInv, Phase, Writes, Written, Restores, AsDone, Done
  <2> QED BY <2>1, <2>2
<1>2. CASE \E list \in Changes, target \in Targets : onlineChangeApply(list, target)
  BY <1>2, ChangeBegins
<1>3. CASE ToPreop  BY <1>3, ChangeToPreop
<1>4. CASE Download  BY <1>4, ChangeDownload
<1>5. CASE Restore  BY <1>5, ChangeRestore
<1> QED BY <1>1, <1>2, <1>3, <1>4, <1>5, StepsOfChange

-----------------------------------------------------------------------------
(* The theorems. *)

HandlersInv == BusOK /\ LogOK /\ HistoryOK /\ FlagsOK /\ ChangeInv /\ FaultsAreLogged

LEMMA HandlersStep == ASSUME HandlersInv, [Next]_vars PROVE HandlersInv'
BY BusStep, LogStep, HistoryStep, FlagsStep, ChangeStep DEF HandlersInv

(* The invariant holds over any calls, polls, switches, faults and failures. *)
THEOREM HandlersInvariant == Spec => []HandlersInv
<1>1. Init => HandlersInv  BY HandlersInit DEF HandlersInv
<1> QED BY <1>1, HandlersStep, PTL DEF Spec

(* The type invariant, with the bounds of the event log and of the history.  *)
THEOREM HandlersTypeCorrect == Spec => []TypeOK
<1>1. HandlersInv => TypeOK
  <2> SUFFICES ASSUME HandlersInv PROVE TypeOK
    OBVIOUS
  <2>1. Idle \/ /\ change \in Locals
                /\ change.todo # {} /\ change.notRestored \subseteq affectedSlaves(change.list)
                /\ change.todo \subseteq IF change.phase = "apply_sdo" THEN DOMAIN change.list
                                                                      ELSE affectedSlaves(change.list)
    BY DEF HandlersInv, ChangeInv, Phase
  <2> QED BY <2>1 DEF HandlersInv, BusOK, LogOK, HistoryOK, FlagsOK, TypeOK, Entries
<1> QED BY <1>1, HandlersInvariant, PTL

(* A fault the poll will not report again is in the log, unless that is full: *)
(* previousAlStatus_ and events_ are written by one poll (and cleared by one  *)
(* call), and a list cut short leaves both as they were for the slaves missed. *)
THEOREM KnownFaultsAreLogged == Spec => []FaultsAreLogged
<1>1. HandlersInv => FaultsAreLogged  BY DEF HandlersInv
<1> QED BY <1>1, HandlersInvariant, PTL

(* handleApply tells what it leaves behind, whichever of its calls failed and *)
(* whatever the bus did between them.                                         *)
THEOREM RepliesTellTheChange == Spec => ChangesAreTold
<1>1. HandlersInv /\ [Next]_vars =>
        [~Idle /\ change' = None => \A p \in affectedSlaves(change.list) :
           /\ asked'[p] = change.target \/ p \in reply'.notRestored
           /\ reply'.success => object'[p] = LastFor(change.list, p)]_vars
  <2> SUFFICES ASSUME HandlersInv, [Next]_vars, ~Idle, change' = None
               PROVE  \A p \in affectedSlaves(change.list) :
                        /\ asked'[p] = change.target \/ p \in reply'.notRestored
                        /\ reply'.success => object'[p] = LastFor(change.list, p)
    OBVIOUS
  <2>1. ~ToPreop /\ ~Download  BY ChangeToPreop, ChangeDownload DEF HandlersInv
  <2>2. Restore  BY <2>1, StepsOfChange DEF Idle
  <2> QED BY <2>2, ChangeRestore DEF HandlersInv
<1> QED BY <1>1, HandlersInvariant, PTL DEF Spec, ChangesAreTold
=============================================================================
