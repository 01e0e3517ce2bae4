-------------------------- MODULE OnlineView_proofs --------------------------
(****************************************************************************)
(* Theorems about OnlineView, for any masters, buses, projects and bounds:  *)
(* what is loaded is of the slave selected, and once nothing is on its way  *)
(* for it, was asked of the active master after the list last changed.      *)
(****************************************************************************)
EXTENDS OnlineView, SequenceTheorems, TLAPS

-----------------------------------------------------------------------------
(* The inductive invariant. *)

Asked == {q \in Requests : /\ q.op = "sdos" => q.position > 0
                           /\ q.op = "scan" => q.answer \in Seq(Slaves) \cup {None}}

Typed ==
  /\ link \in {"up", "down"} /\ (link = "down" => flight = <<>>)
  /\ flight \in Seq(Asked) /\ failing \in Seq(Asked)
  /\ bus \in [Masters -> Buses] /\ master \in Masters
  /\ current \in Int
  /\ loaded # None => loaded.position \in Nat

(* A request for the dictionary of the slave selected. *)
OfCurrent(q) == q.op = "sdos" /\ q.position = current

Good == loaded = None \/ loaded.position # current \/ loaded.text = Blank
          \/ (loaded.fresh /\ loaded.master = master)

(* What is loaded is good, or will be replaced. *)
Replaced ==
  online => \/ Good
            \/ \E i \in DOMAIN flight : OfCurrent(flight[i])
            \/ \E i \in DOMAIN failing : OfCurrent(failing[i])

(* The last answer that will replace it is good. *)
LastIsGood ==
  online => \A i \in DOMAIN flight :
    OfCurrent(flight[i]) => \/ flight[i].fresh /\ flight[i].master = master
                            \/ \E j \in DOMAIN flight : j > i /\ OfCurrent(flight[j])

ViewInv == Typed /\ LoadedIsOfSelection /\ Replaced /\ LastIsGood

LEMMA ViewInit == Init => ViewInv
BY ViewAssumption DEF Init, ViewInv, Typed, LoadedIsOfSelection, Replaced, LastIsGood, Good

-----------------------------------------------------------------------------
(* Requests. *)

LEMMA ScanAsked == ASSUME NEW m \in Masters PROVE [Scan EXCEPT !.master = m] \in Asked
BY DEF Scan, Asked, Requests

LEMMA ScanIsAsked == ASSUME master \in Masters PROVE Scan \in Asked
BY DEF Scan, Asked, Requests

LEMMA SdosAsked == ASSUME master \in Masters, NEW p \in Nat \ {0} PROVE Sdos(p) \in Asked
BY DEF Sdos, Asked, Requests

LEMMA OfMaster ==
  ASSUME NEW q \in Asked, NEW m \in Masters
  PROVE  [q EXCEPT !.master = m] \in Asked
BY DEF Asked, Requests

LEMMA StaleAsked ==
  ASSUME NEW q \in Asked
  PROVE  Stale(q) \in Asked /\ Stale(q).op = q.op /\ Stale(q).position = q.position
BY DEF Stale, Asked, Requests

LEMMA StaleSeq ==
  ASSUME NEW s \in Seq(Asked)
  PROVE  /\ [i \in DOMAIN s |-> Stale(s[i])] \in Seq(Asked)
         /\ Len([i \in DOMAIN s |-> Stale(s[i])]) = Len(s)
<1> DEFINE t == [i \in DOMAIN s |-> Stale(s[i])]
<1>1. \A i \in DOMAIN s : t[i] \in Asked  BY StaleAsked, ElementOfSeq
<1>2. DOMAIN t = 1 .. Len(s) /\ Len(s) \in Nat  BY LenProperties
<1> QED BY <1>1, <1>2, IsASeq

-----------------------------------------------------------------------------
(* The steps that leave the requests and the view alone, or almost. *)

LEMMA QuietStep ==
  ASSUME ViewInv, UNCHANGED <<link, flight, failing, master, view>>, bus' \in [Masters -> Buses]
  PROVE  ViewInv'
BY DEF ViewInv, Typed, LoadedIsOfSelection, Replaced, LastIsGood, Good, OfCurrent, view

(* A request of anything else than the slave selected comes last. *)
LEMMA AppendStep ==
  ASSUME ViewInv, NEW q \in Asked, flight' = Append(flight, q), link' = "up",
         UNCHANGED <<failing, bus, master, current, online>>,
         loaded' = loaded \/ loaded' = None,
         OfCurrent(q) => q.fresh /\ q.master = master
  PROVE  ViewInv'
<1> USE DEF ViewInv, Typed
<1>1. flight' \in Seq(Asked) /\ Len(flight') = Len(flight) + 1 /\ Len(flight) \in Nat
      /\ flight'[Len(flight) + 1] = q /\ \A i \in DOMAIN flight : flight'[i] = flight[i]
  BY AppendProperties, LenProperties
<1>2. DOMAIN flight = 1 .. Len(flight) /\ DOMAIN flight' = 1 .. Len(flight) + 1
  BY <1>1, LenProperties
<1>3. Replaced'
  BY <1>1, <1>2 DEF Replaced, Good, OfCurrent
<1>4. LastIsGood'
  <2> SUFFICES ASSUME online, NEW i \in DOMAIN flight', OfCurrent(flight'[i])
               PROVE  \/ flight'[i].fresh /\ flight'[i].master = master
                      \/ \E j \in DOMAIN flight' : j > i /\ OfCurrent(flight'[j])
    BY DEF LastIsGood, OfCurrent
  <2>1. CASE i = Len(flight) + 1  BY <1>1, <2>1
  <2>2. CASE i \in DOMAIN flight
    <3>1. OfCurrent(flight[i])  BY <1>1, <2>2
    <3>2. CASE flight[i].fresh /\ flight[i].master = master  BY <1>1, <2>2, <3>2
    <3>3. ASSUME NEW j \in DOMAIN flight, j > i, OfCurrent(flight[j])
          PROVE  j \in DOMAIN flight' /\ OfCurrent(flight'[j])
      BY <1>1, <1>2, <3>3
    <3> QED BY <2>2, <3>1, <3>2, <3>3 DEF LastIsGood
  <2> QED BY <1>1, <1>2, <2>1, <2>2
<1> QED BY <1>1, <1>3, <1>4 DEF LoadedIsOfSelection

(* The first answer is taken, or is not for the slave selected. *)
LEMMA TailStep ==
  ASSUME ViewInv, flight # <<>>, flight' = Tail(flight),
         UNCHANGED <<link, failing, bus, master, current, online>>,
         \/ ~OfCurrent(Head(flight)) /\ loaded' = loaded
         \/ /\ OfCurrent(Head(flight)) /\ loaded'.position = current
            /\ loaded'.fresh = Head(flight).fresh /\ loaded'.master = Head(flight).master
  PROVE  ViewInv'
<1> USE DEF ViewInv, Typed
<1>1. /\ Len(flight) \in Nat \ {0} /\ Len(flight') = Len(flight) - 1 /\ flight' \in Seq(Asked)
      /\ Head(flight) = flight[1] /\ \A i \in 1 .. Len(flight') : flight'[i] = flight[i + 1]
  BY HeadTailProperties, LenProperties
<1>2. DOMAIN flight = 1 .. Len(flight) /\ DOMAIN flight' = 1 .. Len(flight) - 1
  BY <1>1, LenProperties
<1>3. ASSUME NEW j \in DOMAIN flight, j > 1 PROVE j - 1 \in DOMAIN flight' /\ flight'[j - 1] = flight[j]
  BY <1>1, <1>2, <1>3
<1>4. Typed'
  <2>1. flight[1] \in Asked  BY <1>1, <1>2, ElementOfSeq
  <2>2. OfCurrent(flight[1]) => current \in Nat  BY <2>1 DEF OfCurrent, Asked, Requests
  <2> QED BY <1>1, <2>2
<1>5. LastIsGood'
  <2> SUFFICES ASSUME online, NEW i \in DOMAIN flight', OfCurrent(flight'[i])
               PROVE  \/ flight'[i].fresh /\ flight'[i].master = master
                      \/ \E j \in DOMAIN flight' : j > i /\ OfCurrent(flight'[j])
    BY DEF LastIsGood, OfCurrent
  <2>1. i + 1 \in DOMAIN flight /\ flight'[i] = flight[i + 1]  BY <1>1, <1>2
  <2>2. CASE flight[i + 1].fresh /\ flight[i + 1].master = master  BY <2>1, <2>2
  <2>3. ASSUME NEW j \in DOMAIN flight, j > i + 1, OfCurrent(flight[j])
        PROVE  j - 1 \in DOMAIN flight' /\ j - 1 > i /\ OfCurrent(flight'[j - 1])
    BY <1>2, <1>3, <2>3
  <2> QED BY <2>1, <2>2, <2>3 DEF LastIsGood
<1>6. Replaced'
  <2> SUFFICES ASSUME online PROVE \/ Good'
                                   \/ \E i \in DOMAIN flight' : OfCurrent(flight'[i])
                                   \/ \E i \in DOMAIN failing : OfCurrent(failing[i])
    BY DEF Replaced, OfCurrent
  <2>1. ASSUME NEW j \in DOMAIN flight, j > 1, OfCurrent(flight[j])
        PROVE  \E i \in DOMAIN flight' : OfCurrent(flight'[i])
    BY <1>3, <2>1
  <2>2. CASE ~OfCurrent(flight[1]) /\ loaded' = loaded
    <3>1. Good => Good'  BY <2>2 DEF Good
    <3>2. ASSUME NEW j \in DOMAIN flight, OfCurrent(flight[j]) PROVE j > 1
      BY <1>2, <2>2, <3>2
    <3> QED BY <2>1, <3>1, <3>2 DEF Replaced
  <2>3. CASE OfCurrent(flight[1]) /\ loaded'.position = current
             /\ loaded'.fresh = flight[1].fresh /\ loaded'.master = flight[1].master
    <3>1. 1 \in DOMAIN flight  BY <1>1, <1>2
    <3>2. CASE flight[1].fresh /\ flight[1].master = master  BY <2>3, <3>2 DEF Good
    <3> QED BY <2>1, <2>3, <3>1, <3>2 DEF LastIsGood
  <2> QED BY <1>1, <2>2, <2>3
<1>7. LoadedIsOfSelection'  BY <1>1 DEF LoadedIsOfSelection
<1> QED BY <1>4, <1>5, <1>6, <1>7

LEMMA Part ==
  ASSUME NEW S, NEW s \in Seq(S), NEW m \in 1 .. Len(s) + 1, NEW n \in 0 .. Len(s), m <= n + 1
  PROVE  /\ SubSeq(s, m, n) \in Seq(S) /\ Len(SubSeq(s, m, n)) = n - m + 1
         /\ \A k \in 1 .. n - m + 1 : SubSeq(s, m, n)[k] = s[m + k - 1]
<1>1. Len(s) \in Nat /\ \A k \in 1 .. Len(s) : s[k] \in S  BY LenProperties, ElementOfSeq
<1>2. m \in Int /\ n \in Int /\ \A k \in m .. n : s[k] \in S  BY <1>1
<1>3. /\ SubSeq(s, m, n) \in Seq(S) /\ Len(SubSeq(s, m, n)) = IF m <= n THEN n - m + 1 ELSE 0
      /\ \A k \in 1 .. n - m + 1 : SubSeq(s, m, n)[k] = s[m + k - 1]
  BY <1>2, SubSeqProperties
<1>4. (IF m <= n THEN n - m + 1 ELSE 0) = n - m + 1  BY <1>1
<1> QED BY <1>3, <1>4

(* The three sequences of a removal: what is before, what is after, the rest.  *)
Before(a, s, i) == Len(a) = i - 1 /\ \A k \in 1 .. i - 1 : a[k] = s[k]
After(b, s, n, i) == Len(b) = n - i /\ \A k \in 1 .. n - i : b[k] = s[i + k]
Without(t, s, n, i) ==
  Len(t) = n - 1 /\ (\A k \in 1 .. i - 1 : t[k] = s[k]) /\ \A k \in i + 1 .. n : t[k - 1] = s[k]

LEMMA Joined ==
  ASSUME NEW S, NEW s, NEW n \in Nat, NEW i \in 1 .. n,
         NEW a \in Seq(S), NEW b \in Seq(S), Before(a, s, i), After(b, s, n, i)
  PROVE  a \o b \in Seq(S) /\ Without(a \o b, s, n, i)
<1> DEFINE t == a \o b
<1>1. /\ t \in Seq(S) /\ Len(t) = Len(a) + Len(b)
      /\ \A k \in 1 .. Len(a) + Len(b) : t[k] = IF k <= Len(a) THEN a[k] ELSE b[k - Len(a)]
  BY ConcatProperties, Zenon
<1> HIDE DEF t
<1> USE DEF Before, After, Without
<1>2. Len(t) = n - 1  BY <1>1
<1>3. ASSUME NEW k \in 1 .. i - 1 PROVE t[k] = s[k]
  <2>1. k \in 1 .. Len(a) + Len(b) /\ k <= Len(a)  OBVIOUS
  <2> QED BY <1>1, <2>1
<1>4. ASSUME NEW k \in i + 1 .. n PROVE t[k - 1] = s[k]
  <2>1. k - 1 \in 1 .. Len(a) + Len(b) /\ ~(k - 1 <= Len(a)) /\ (k - 1) - Len(a) = k - i
    OBVIOUS
  <2>2. t[k - 1] = b[k - i]  BY <1>1, <2>1
  <2>3. k - i \in 1 .. n - i /\ i + (k - i) = k  OBVIOUS
  <2> QED BY <2>2, <2>3
<1>5. t \in Seq(S) /\ Without(t, s, n, i)
  BY <1>1, <1>2, <1>3, <1>4, Zenon
<1> QED BY <1>5, Zenon DEF t

LEMMA RemoveOne ==
  ASSUME NEW S, NEW s \in Seq(S), NEW i \in 1 .. Len(s)
  PROVE  LET t == SubSeq(s, 1, i - 1) \o SubSeq(s, i + 1, Len(s))
         IN t \in Seq(S) /\ Without(t, s, Len(s), i)
<1> DEFINE n == Len(s)
           a == SubSeq(s, 1, i - 1)
           b == SubSeq(s, i + 1, n)
<1>1. n \in Nat /\ i - 1 \in 0 .. n /\ 1 \in 1 .. n + 1 /\ n \in 0 .. n /\ i + 1 \in 1 .. n + 1
      /\ i \in 1 .. n
  BY LenProperties
<1>2. /\ a \in Seq(S) /\ Len(a) = (i - 1) - 1 + 1
      /\ \A k \in 1 .. (i - 1) - 1 + 1 : a[k] = s[1 + k - 1]
  BY <1>1, Part
<1>3. /\ b \in Seq(S) /\ Len(b) = n - (i + 1) + 1
      /\ \A k \in 1 .. n - (i + 1) + 1 : b[k] = s[(i + 1) + k - 1]
  BY <1>1, Part
<1> HIDE DEF a, b, n
<1>4. a \in Seq(S) /\ Before(a, s, i)  BY <1>1, <1>2 DEF Before
<1>5. b \in Seq(S) /\ After(b, s, n, i)  BY <1>1, <1>3 DEF After
<1>6. n \in Nat /\ i \in 1 .. n  BY <1>1
<1>7. a \o b \in Seq(S) /\ Without(a \o b, s, n, i)  BY <1>4, <1>5, <1>6, Joined, Zenon
<1> QED BY <1>7, Zenon DEF a, b, n

LEMMA ConcatLast ==
  ASSUME NEW S, NEW s \in Seq(S), NEW t \in Seq(S)
  PROVE  /\ s \o t \in Seq(S)
         /\ t # <<>> => s \o t # <<>> /\ (s \o t)[Len(s \o t)] = t[Len(t)]
<1>1. /\ s \o t \in Seq(S) /\ Len(s \o t) = Len(s) + Len(t)
      /\ \A k \in 1 .. Len(s) + Len(t) : (s \o t)[k] = IF k <= Len(s) THEN s[k] ELSE t[k - Len(s)]
  BY ConcatProperties, Zenon
<1>2. Len(s) \in Nat /\ Len(t) \in Nat /\ (t # <<>> => Len(t) # 0)  BY LenProperties, EmptySeq
<1>3. ASSUME t # <<>>
      PROVE  /\ Len(s) + Len(t) \in 1 .. Len(s) + Len(t) /\ ~(Len(s) + Len(t) <= Len(s))
             /\ Len(s) + Len(t) - Len(s) = Len(t) /\ Len(s) + Len(t) # 0
  BY <1>2, <1>3
<1> DEFINE u == s \o t
<1> HIDE DEF u
<1>4. ASSUME t # <<>> PROVE u # <<>> /\ u[Len(u)] = t[Len(t)]
  <2>1. Len(u) = Len(s) + Len(t) /\ Len(<<>>) = 0  BY <1>1, EmptySeq DEF u
  <2>2. u[Len(s) + Len(t)] = t[Len(s) + Len(t) - Len(s)]  BY <1>1, <1>3, <1>4 DEF u
  <2> QED BY <1>3, <1>4, <2>1, <2>2
<1> QED BY <1>1, <1>4 DEF u

(* A request given up is answered with the blank text, or is not for the slave *)
(* selected.                                                                   *)
LEMMA FailedStep ==
  ASSUME ViewInv, NEW i \in DOMAIN failing,
         failing' \in Seq(Asked), Without(failing', failing, Len(failing), i),
         UNCHANGED <<link, flight, bus, master, current, online>>,
         \/ ~OfCurrent(failing[i]) /\ loaded' = loaded
         \/ OfCurrent(failing[i]) /\ loaded'.position = current /\ loaded'.text = Blank
  PROVE  ViewInv'
<1> USE DEF ViewInv, Typed, Without
<1>1. i \in 1 .. Len(failing) /\ Len(failing) \in Nat  BY LenProperties
<1>5. DOMAIN failing' = 1 .. Len(failing) - 1  BY LenProperties
<1>6. Typed'
  <2>1. failing[i] \in Asked  BY ElementOfSeq
  <2>2. OfCurrent(failing[i]) => current \in Nat  BY <2>1 DEF OfCurrent, Asked, Requests
  <2> QED BY <2>2
<1>7. Replaced'
  <2>1. CASE ~OfCurrent(failing[i]) /\ loaded' = loaded
    <3>1. ASSUME NEW k \in DOMAIN failing, OfCurrent(failing[k])
          PROVE  \E j \in DOMAIN failing' : OfCurrent(failing'[j])
      <4>1. k \in 1 .. Len(failing) /\ k # i  BY <2>1, <3>1, LenProperties
      <4>2. CASE k < i
        <5>1. k \in 1 .. i - 1 /\ k \in DOMAIN failing'  BY <1>1, <1>5, <4>1, <4>2
        <5> QED BY <3>1, <5>1
      <4>3. CASE k > i
        <5>1. k \in i + 1 .. Len(failing) /\ k - 1 \in DOMAIN failing'  BY <1>1, <1>5, <4>1, <4>3
        <5>2. failing'[k - 1] = failing[k]  BY <5>1
        <5> QED BY <3>1, <5>1, <5>2
      <4> QED BY <1>1, <4>1, <4>2, <4>3
    <3>2. Good => Good'  BY <2>1 DEF Good
    <3> QED BY <3>1, <3>2 DEF Replaced, OfCurrent
  <2>2. CASE loaded'.text = Blank  BY <2>2 DEF Replaced, Good
  <2> QED BY <2>1, <2>2
<1>8. LastIsGood' /\ LoadedIsOfSelection'  BY DEF LastIsGood, LoadedIsOfSelection, OfCurrent
<1> QED BY <1>6, <1>7, <1>8

-----------------------------------------------------------------------------
(* The steps that select anew. *)

(* The last request is for the slave selected, of the list and master shown.   *)
LEMMA FreshStep ==
  ASSUME Typed', flight' # <<>>, loaded' = None \/ loaded'.position = current',
         flight'[Len(flight')].op = "sdos", flight'[Len(flight')].position = current',
         flight'[Len(flight')].fresh, flight'[Len(flight')].master = master'
  PROVE  ViewInv'
<1>1. Len(flight') \in Nat /\ DOMAIN flight' = 1 .. Len(flight') /\ Len(flight') # 0
  BY EmptySeq, LenProperties DEF Typed
<1>2. Len(flight') \in DOMAIN flight'  BY <1>1
<1>3. Replaced'  BY <1>2 DEF Replaced, OfCurrent
<1>4. \A i \in DOMAIN flight' : i = Len(flight') \/ i < Len(flight')  BY <1>1
<1>5. LastIsGood'  BY <1>2, <1>4 DEF LastIsGood, OfCurrent
<1>6. LoadedIsOfSelection'  BY DEF LoadedIsOfSelection
<1> QED BY <1>3, <1>5, <1>6 DEF ViewInv

(* Without a connection the empty text is shown, or nothing.                   *)
LEMMA BlankStep ==
  ASSUME Typed', flight' = <<>>,
         loaded' = None \/ (loaded'.position = current' /\ loaded'.text = Blank)
  PROVE  ViewInv'
BY DEF ViewInv, Replaced, Good, LastIsGood, LoadedIsOfSelection

(* No slave is selected.                                                       *)
LEMMA NoneSelected ==
  ASSUME Typed', current' = -1 \/ (current' = 0 /\ loaded' = None)
  PROVE  ViewInv'
<1>1. Good'  BY DEF Good, Typed
<1>2. \A i \in DOMAIN flight' : flight'[i] \in Asked  BY ElementOfSeq DEF Typed
<1>3. \A i \in DOMAIN flight' : ~(flight'[i].op = "sdos" /\ flight'[i].position = current')
  BY <1>2 DEF Asked, Requests
<1> QED BY <1>1, <1>3 DEF ViewInv, Replaced, LastIsGood, OfCurrent, LoadedIsOfSelection

(* What is shown was not loaded online.                                        *)
LEMMA OfflineStep == ASSUME Typed', ~online' PROVE ViewInv'
BY DEF ViewInv, Replaced, LastIsGood, LoadedIsOfSelection

(* Selecting p with the requests of s before: the three cases above.           *)
LEMMA Selected ==
  ASSUME NEW s \in Seq(Asked), NEW p \in Nat, setSelectedSlave(p, s, p), current' = p,
         link \in {"up", "down"}, link = "down" => s = <<>>,
         failing' \in Seq(Asked), bus' \in [Masters -> Buses], master \in Masters,
         UNCHANGED <<link, master>>
  PROVE  ViewInv'
<1>1. p > 0 => Sdos(p) \in Asked  BY SdosAsked
<1>2. CASE p > 0 /\ link = "up"
  <2>1. /\ flight' \in Seq(Asked) /\ Len(flight') = Len(s) + 1 /\ flight'[Len(s) + 1] = Sdos(p)
    BY <1>1, <1>2, AppendProperties DEF setSelectedSlave
  <2>2. Typed' /\ loaded' = None
    BY <1>2, <2>1 DEF Typed, setSelectedSlave
  <2>3. flight' # <<>>  BY <2>1, LenProperties, EmptySeq
  <2>4. Sdos(p).op = "sdos" /\ Sdos(p).position = p /\ Sdos(p).fresh /\ Sdos(p).master = master
    BY DEF Sdos
  <2> QED BY <2>1, <2>2, <2>3, <2>4, FreshStep
<1>3. CASE p > 0 /\ link # "up"
  <2>1. flight' = <<>> /\ loaded'.position = p /\ loaded'.text = Blank
    BY <1>3 DEF setSelectedSlave
  <2>2. Typed'  BY <1>3, <2>1 DEF Typed
  <2> QED BY <2>1, <2>2, BlankStep
<1>4. CASE p = 0
  <2>1. flight' = s /\ loaded' = None  BY <1>4 DEF setSelectedSlave
  <2>2. Typed'  BY <1>4, <2>1 DEF Typed
  <2> QED BY <1>4, <2>1, <2>2, NoneSelected
<1> QED BY <1>2, <1>3, <1>4

-----------------------------------------------------------------------------
(* The actions, in the order of the module. *)

LEMMA SelectKeeps == ASSUME ViewInv, NEW p \in 0 .. Len(slaves), SelectInTree(p) PROVE ViewInv'
<1>1. p \in Nat  BY DEF SelectInTree, Items
<1> QED BY <1>1, Selected DEF ViewInv, Typed, SelectInTree

LEMMA JumpKeeps == ASSUME ViewInv, NEW p \in 0 .. Len(slaves), JumpTo(p) PROVE ViewInv'
<1>1. p \in Nat \ {0} /\ Sdos(p) \in Asked  BY SdosAsked DEF JumpTo, ViewInv, Typed
<1>2. CASE link = "up"
  <2>1. flight' = Append(flight, Sdos(p)) /\ loaded' = None
    BY <1>1, <1>2 DEF JumpTo, setSelectedSlave
  <2>2. Sdos(p).fresh /\ Sdos(p).master = master  BY DEF Sdos
  <2> QED BY <1>1, <1>2, <2>1, <2>2, AppendStep DEF JumpTo
<1>3. CASE link # "up"
  <2>1. flight' = <<>> /\ (loaded' = None \/ (p = current /\ loaded'.position = p /\ loaded'.text = Blank))
    BY <1>1, <1>3 DEF JumpTo, setSelectedSlave, ViewInv, Typed
  <2>2. Typed' /\ current' = current  BY <1>1, <2>1 DEF JumpTo, ViewInv, Typed
  <2> QED BY <2>1, <2>2, BlankStep
<1> QED BY <1>2, <1>3

LEMMA LocalKeeps ==
  ASSUME ViewInv, NEW p \in 0 .. Len(slaves), selectSlaveForLocalEvidence(p) PROVE ViewInv'
<1>1. Typed'  BY DEF ViewInv, Typed, selectSlaveForLocalEvidence, net, Items
<1>2. CASE online /\ p = current
  BY <1>1, <1>2 DEF ViewInv, Replaced, LastIsGood, Good, OfCurrent, LoadedIsOfSelection,
                    selectSlaveForLocalEvidence, net
<1>3. CASE ~(online /\ p = current)
  BY <1>1, <1>3, OfflineStep DEF selectSlaveForLocalEvidence
<1> QED BY <1>2, <1>3

LEMMA StaleFlightAsked == ASSUME ViewInv PROVE StaleFlight \in Seq(Asked)
BY StaleSeq DEF StaleFlight, ViewInv, Typed

LEMMA SwitchKeeps ==
  ASSUME ViewInv, NEW m \in Masters, setActiveMaster(m) \/ showSettings(m) PROVE ViewInv'
<1>1. StaleFlight \in Seq(Asked)  BY StaleFlightAsked
<1>2. [Scan EXCEPT !.master = m] \in Asked  BY ScanAsked
<1>3. flight = <<>> => StaleFlight = <<>>
  BY <1>1, StaleSeq, EmptySeq DEF StaleFlight, ViewInv, Typed
<1>4. flight' \in Seq(Asked) /\ (link = "down" => flight' = <<>>)
  <2>1. Append(StaleFlight, [Scan EXCEPT !.master = m]) \in Seq(Asked)
    BY <1>1, <1>2, AppendProperties
  <2>2. \/ link = "up" /\ flight' = Append(StaleFlight, [Scan EXCEPT !.master = m])
        \/ flight' = StaleFlight
    BY DEF setActiveMaster, showSettings
  <2> QED BY <1>1, <1>3, <2>1, <2>2 DEF ViewInv, Typed
<1>5. Typed' /\ current' = -1
  BY <1>4 DEF ViewInv, Typed, setActiveMaster, showSettings, clearOnlineViews
<1> QED BY <1>5, NoneSelected

LEMMA NewKeeps == ASSUME ViewInv, newProject PROVE ViewInv'
<1>1. StaleFlight \in Seq(Asked) /\ (flight = <<>> => StaleFlight = <<>>)
  BY StaleFlightAsked, StaleSeq, EmptySeq DEF StaleFlight, ViewInv, Typed
<1>2. Typed' /\ current' = -1  BY <1>1 DEF ViewInv, Typed, newProject, clearOnlineViews
<1> QED BY <1>2, NoneSelected

LEMMA RefreshKeeps == ASSUME ViewInv, requestRefresh PROVE ViewInv'
<1>1. Scan \in Asked /\ Scan.op = "scan"  BY ScanIsAsked DEF ViewInv, Typed, Scan
<1>2. ~OfCurrent(Scan)  BY <1>1 DEF OfCurrent
<1>3. Len(flight) >= 0 /\ link' = "up" /\ loaded' = loaded /\ flight' = Append(flight, Scan)
      /\ UNCHANGED <<failing, bus, master, current, online>>
  BY LenProperties DEF requestRefresh, view, ViewInv, Typed
<1> QED BY <1>1, <1>2, <1>3, AppendStep

LEMMA ConnectKeeps == ASSUME ViewInv, Connect PROVE ViewInv'
<1>1. Scan \in Asked /\ Scan.op = "scan"  BY ScanIsAsked DEF ViewInv, Typed, Scan
<1>2. ~OfCurrent(Scan)  BY <1>1 DEF OfCurrent
<1>3. flight = <<>> /\ flight' = Append(flight, Scan)
  BY DEF Connect, ViewInv, Typed
<1> QED BY <1>1, <1>2, <1>3, AppendStep DEF Connect, view

LEMMA BusKeeps == ASSUME ViewInv, NEW m \in Masters, BusChange(m) PROVE ViewInv'
<1>1. bus' \in [Masters -> Buses]  BY DEF BusChange, ViewInv, Typed
<1> QED BY <1>1, QuietStep DEF BusChange, net

LEMMA DialogKeeps == ASSUME ViewInv, OpenWrite \/ writeCurrentSdo \/ Cancel PROVE ViewInv'
BY QuietStep DEF OpenWrite, writeCurrentSdo, Cancel, net, ViewInv, Typed

(* The daemon answers a request: what it asked for stays.                      *)
LEMMA PerformKeeps ==
  ASSUME ViewInv, NEW fails \in BOOLEAN, Perform(fails), link = "up" PROVE ViewInv'
<1> USE DEF ViewInv, Typed
<1>1. PICK i \in DOMAIN flight, answer \in Seq(Slaves) \cup Slaves \cup {Blank, None} :
        /\ flight' = [flight EXCEPT ![i].answer = answer]
        /\ flight[i].op = "scan" => answer \in Seq(Slaves)
  <2>1. PICK i \in Unanswered :
          LET q == flight[i]
              there == bus[q.master]
              text == IF q.position \in DOMAIN there THEN there[q.position] ELSE Blank
          IN flight' = [flight EXCEPT ![i].answer = IF q.op = "scan" THEN IF fails THEN <<>> ELSE there
                                                    ELSE IF fails THEN Blank ELSE text]
    BY DEF Perform
  <2>2. i \in DOMAIN flight  BY DEF Unanswered
  <2>3. flight[i] \in Asked  BY <2>2, ElementOfSeq
  <2>4. bus[flight[i].master] \in Seq(Slaves)
    BY <2>3, ViewAssumption DEF Asked, Requests
  <2>5. \A p \in DOMAIN bus[flight[i].master] : bus[flight[i].master][p] \in Slaves
    BY <2>4, ElementOfSeq
  <2>6. <<>> \in Seq(Slaves)  BY EmptySeq
  <2> DEFINE there == bus[flight[i].master]
             answer == IF flight[i].op = "scan" THEN IF fails THEN <<>> ELSE there
                       ELSE IF fails \/ flight[i].position \notin DOMAIN there THEN Blank
                       ELSE there[flight[i].position]
  <2>7. flight' = [flight EXCEPT ![i].answer = answer]  BY <2>1
  <2>8. answer \in Seq(Slaves) \cup Slaves \cup {Blank, None}  BY <2>4, <2>5, <2>6
  <2>9. flight[i].op = "scan" => answer \in Seq(Slaves)  BY <2>4, <2>6
  <2> HIDE DEF answer
  <2> QED BY <2>2, <2>7, <2>8, <2>9
<1>2. /\ DOMAIN flight' = DOMAIN flight
      /\ \A j \in DOMAIN flight :
           flight'[j] = IF j = i THEN [flight[j] EXCEPT !.answer = answer] ELSE flight[j]
  BY <1>1
<1>3. \A j \in DOMAIN flight : flight[j] \in Asked  BY ElementOfSeq
<1>4. ASSUME NEW j \in DOMAIN flight
      PROVE  /\ flight'[j] \in Asked /\ flight'[j].op = flight[j].op /\ flight'[j].fresh = flight[j].fresh
             /\ flight'[j].position = flight[j].position /\ flight'[j].master = flight[j].master
  BY <1>1, <1>2, <1>3 DEF Asked, Requests
<1>5. DOMAIN flight = 1 .. Len(flight) /\ Len(flight) \in Nat  BY LenProperties
<1>6. flight' \in Seq(Asked)
  <2>1. flight' = [j \in 1 .. Len(flight) |-> flight'[j]]  BY <1>1, <1>2, <1>5
  <2>2. \A j \in 1 .. Len(flight) : flight'[j] \in Asked  BY <1>4, <1>5
  <2>3. [j \in 1 .. Len(flight) |-> flight'[j]] \in Seq(Asked)  BY <1>5, <2>2, IsASeq
  <2> QED BY <2>1, <2>3, Zenon
<1>7. UNCHANGED <<link, failing, bus, master, current, loaded, online>>  BY DEF Perform, view
<1>8. Typed'  BY <1>6, <1>7
<1>9. Replaced'  BY <1>2, <1>4, <1>7 DEF Replaced, Good, OfCurrent
<1>10. LastIsGood'
  <2> SUFFICES ASSUME online, NEW j \in DOMAIN flight, OfCurrent(flight'[j])
               PROVE  \/ flight'[j].fresh /\ flight'[j].master = master
                      \/ \E k \in DOMAIN flight : k > j /\ OfCurrent(flight'[k])
    BY <1>2, <1>7 DEF LastIsGood, OfCurrent
  <2>1. OfCurrent(flight[j])  BY <1>4 DEF OfCurrent
  <2>2. CASE flight[j].fresh /\ flight[j].master = master  BY <1>4, <2>2
  <2>3. ASSUME NEW k \in DOMAIN flight, k > j, OfCurrent(flight[k]) PROVE OfCurrent(flight'[k])
    BY <1>4, <2>3 DEF OfCurrent
  <2> QED BY <2>1, <2>2, <2>3 DEF LastIsGood
<1> QED BY <1>7, <1>8, <1>9, <1>10 DEF LoadedIsOfSelection

(* A sweep splits what is on its way, a loss gives up all of it.               *)
LEMMA SplitStep ==
  ASSUME ViewInv, failing = <<>>, NEW n \in 0 .. Len(flight), link' = "down" => flight' = <<>>,
         link' \in {"up", "down"}, UNCHANGED <<bus, master, view>>,
         failing' \in Seq(Asked), flight' \in Seq(Asked),
         Len(failing') = n, Len(flight') = Len(flight) - n,
         \A k \in 1 .. n : failing'[k] = flight[k],
         \A k \in 1 .. Len(flight) - n : flight'[k] = flight[n + k]
  PROVE  ViewInv'
<1> USE DEF ViewInv, Typed, view
<1>1. /\ DOMAIN flight = 1 .. Len(flight) /\ Len(flight) \in Nat /\ DOMAIN failing' = 1 .. n
      /\ DOMAIN flight' = 1 .. Len(flight) - n
  BY LenProperties
<1>2. ASSUME NEW i \in DOMAIN flight, i > n
      PROVE  i - n \in DOMAIN flight' /\ flight'[i - n] = flight[i]
  <2>1. i - n \in 1 .. Len(flight) - n /\ n + (i - n) = i  BY <1>1, <1>2
  <2> QED BY <1>1, <2>1
<1>3. ASSUME NEW i \in DOMAIN flight, ~(i > n)
      PROVE  i \in DOMAIN failing' /\ failing'[i] = flight[i]
  BY <1>1, <1>3
<1>4. Replaced'
  <2>1. DOMAIN failing = {}  BY <1>1, LenProperties
  <2> QED BY <1>2, <1>3, <2>1 DEF Replaced, Good, OfCurrent
<1>5. LastIsGood'
  <2> SUFFICES ASSUME online, NEW i \in DOMAIN flight', OfCurrent(flight'[i])
               PROVE  \/ flight'[i].fresh /\ flight'[i].master = master
                      \/ \E j \in DOMAIN flight' : j > i /\ OfCurrent(flight'[j])
    BY DEF LastIsGood, OfCurrent
  <2>1. n + i \in DOMAIN flight /\ flight'[i] = flight[n + i]  BY <1>1
  <2>2. CASE flight[n + i].fresh /\ flight[n + i].master = master  BY <2>1, <2>2
  <2>3. ASSUME NEW j \in DOMAIN flight, j > n + i, OfCurrent(flight[j])
        PROVE  j - n \in DOMAIN flight' /\ j - n > i /\ OfCurrent(flight'[j - n])
    BY <1>1, <1>2, <2>3
  <2> QED BY <2>1, <2>2, <2>3 DEF LastIsGood
<1> QED BY <1>4, <1>5 DEF LoadedIsOfSelection

LEMMA SweepKeeps == ASSUME ViewInv, Sweep PROVE ViewInv'
<1>1. PICK n \in 1 .. Len(flight) :
        failing' = SubSeq(flight, 1, n) /\ flight' = SubSeq(flight, n + 1, Len(flight))
  BY DEF Sweep
<1>2. Len(flight) \in Nat  BY LenProperties DEF ViewInv, Typed
<1>3. /\ failing' \in Seq(Asked) /\ Len(failing') = n - 1 + 1
      /\ \A k \in 1 .. n - 1 + 1 : failing'[k] = flight[1 + k - 1]
  BY <1>1, <1>2, Part DEF ViewInv, Typed
<1>4. /\ flight' \in Seq(Asked) /\ Len(flight') = Len(flight) - (n + 1) + 1
      /\ \A k \in 1 .. Len(flight) - (n + 1) + 1 : flight'[k] = flight[(n + 1) + k - 1]
  BY <1>1, <1>2, Part DEF ViewInv, Typed
<1>5. Len(failing') = n /\ \A k \in 1 .. n : failing'[k] = flight[k]  BY <1>2, <1>3
<1>6. Len(flight') = Len(flight) - n /\ \A k \in 1 .. Len(flight) - n : flight'[k] = flight[n + k]
  BY <1>2, <1>4
<1>7. n \in 0 .. Len(flight) /\ link' = "up"  BY <1>2 DEF Sweep
<1> QED BY <1>3, <1>4, <1>5, <1>6, <1>7, SplitStep DEF Sweep, Idle

LEMMA LoseKeeps == ASSUME ViewInv, Lose PROVE ViewInv'
<1>1. Len(flight) \in Nat /\ flight \in Seq(Asked)  BY LenProperties DEF ViewInv, Typed
<1>2. failing = <<>> /\ failing' = flight /\ flight' = <<>> /\ link' = "down"
      /\ UNCHANGED <<bus, master, view>>
  BY DEF Lose, Idle
<1>3. flight' \in Seq(Asked) /\ Len(flight') = Len(flight) - Len(flight)  BY <1>1, <1>2, EmptySeq
<1>4. Len(flight) \in 0 .. Len(flight) /\ 1 .. Len(flight) - Len(flight) = {}  BY <1>1
<1> QED BY <1>1, <1>2, <1>3, <1>4, SplitStep

(* A scan that answers: the list is as it was, or what is shown is selected     *)
(* anew; nothing the window already had, or is still to get, is taken for good. *)
LEMMA ListStep ==
  ASSUME ViewInv, NEW now \in Seq(Slaves), NEW rest \in Seq(Asked), now # slaves,
         updateSlaves(now, rest), now = <<>> \/ link = "up" \/ rest = <<>>,
         link = "down" => rest = <<>>, failing' \in Seq(Asked), UNCHANGED <<link, bus, master>>
  PROVE  ViewInv'
<1> DEFINE later == [i \in DOMAIN rest |-> Stale(rest[i])]
<1>1. later \in Seq(Asked) /\ (rest = <<>> => later = <<>>)
  BY StaleSeq, EmptySeq
<1>2. CASE now = <<>>
  <2>1. flight' = later /\ current' = -1 /\ loaded' = loaded
    BY <1>2 DEF updateSlaves
  <2>2. Typed'  BY <1>1, <2>1 DEF ViewInv, Typed
  <2> QED BY <2>1, <2>2, NoneSelected
<1>3. CASE now # <<>>
  <2>1. current' = Target(now) /\ setSelectedSlave(Target(now), later, Target(now))
    BY <1>3 DEF updateSlaves
  <2>2. Target(now) \in Nat  BY LenProperties DEF Target
  <2> HIDE DEF later
  <2>3. link \in {"up", "down"} /\ bus' \in [Masters -> Buses] /\ master \in Masters
        /\ (link = "down" => later = <<>>)
    BY <1>1 DEF ViewInv, Typed
  <2> QED BY <1>1, <2>1, <2>2, <2>3, Selected
<1> QED BY <1>2, <1>3

LEMMA ReceiveKeeps == ASSUME ViewInv, Receive PROVE ViewInv'
<1> DEFINE q == Head(flight)
<1>1. flight # <<>> /\ flight \in Seq(Asked) /\ link = "up" /\ q.answer # None
      /\ UNCHANGED <<link, failing, bus, master>>
  BY DEF Receive, ViewInv, Typed
<1>2. q \in Asked /\ Tail(flight) \in Seq(Asked)  BY <1>1, HeadTailProperties
<1>3. CASE q.op = "scan" /\ updateSlaves(q.answer, Tail(flight))
  <2>1. q.answer \in Seq(Slaves)  BY <1>1, <1>2, <1>3 DEF Asked
  <2>2. CASE q.answer = slaves
    <3>1. flight' = Tail(flight) /\ UNCHANGED view  BY <1>3, <2>2 DEF updateSlaves
    <3>2. ~OfCurrent(q)  BY <1>3 DEF OfCurrent
    <3> QED BY <1>1, <3>1, <3>2, TailStep DEF view
  <2>3. CASE q.answer # slaves
    <3>1. failing' \in Seq(Asked)  BY <1>1 DEF ViewInv, Typed
    <3> QED BY <1>1, <1>2, <1>3, <2>1, <2>3, <3>1, ListStep
  <2> QED BY <2>2, <2>3
<1>4. CASE q.op = "sdos" /\ slaveTextResult(q, q.answer, Tail(flight))
  <2>1. flight' = Tail(flight) /\ UNCHANGED <<current, online>>  BY <1>4 DEF slaveTextResult
  <2>2. CASE q.position # current
    <3>1. ~OfCurrent(q) /\ loaded' = loaded  BY <1>4, <2>2 DEF OfCurrent, slaveTextResult
    <3> QED BY <1>1, <2>1, <3>1, TailStep
  <2>3. CASE q.position = current
    <3>1. OfCurrent(q)  BY <1>4, <2>3 DEF OfCurrent
    <3>2. loaded' = [position |-> q.position, text |-> q.answer, master |-> q.master, fresh |-> q.fresh]
      BY <1>4, <2>3 DEF slaveTextResult
    <3>3. loaded'.position = current /\ loaded'.fresh = q.fresh
          /\ loaded'.master = q.master
      BY <2>3, <3>2
    <3> QED BY <1>1, <2>1, <3>1, <3>3, TailStep
  <2> QED BY <2>2, <2>3
<1> QED BY <1>3, <1>4 DEF Receive, Handle

LEMMA CallFailedKeeps == ASSUME ViewInv, CallFailed PROVE ViewInv'
<1>1. PICK i \in DOMAIN failing :
        /\ failing' = SubSeq(failing, 1, i - 1) \o SubSeq(failing, i + 1, Len(failing))
        /\ Handle(failing[i], IF failing[i].op = "scan" THEN <<>> ELSE Blank, flight)
  BY DEF CallFailed
<1> DEFINE q == failing[i]
<1>2. failing \in Seq(Asked) /\ flight \in Seq(Asked) /\ i \in 1 .. Len(failing) /\ q \in Asked
  BY LenProperties, ElementOfSeq DEF ViewInv, Typed
<1>3. failing' \in Seq(Asked) /\ Without(failing', failing, Len(failing), i)
  <2>1. SubSeq(failing, 1, i - 1) \o SubSeq(failing, i + 1, Len(failing)) \in Seq(Asked)
    BY <1>2, RemoveOne, Zenon
  <2>2. Without(SubSeq(failing, 1, i - 1) \o SubSeq(failing, i + 1, Len(failing)), failing, Len(failing), i)
    BY <1>2, RemoveOne, Zenon
  <2> QED BY <1>1, <2>1, <2>2, Zenon
<1>4. UNCHANGED <<link, bus, master>>  BY DEF CallFailed
<1>5. CASE q.op = "scan" /\ updateSlaves(<<>>, flight)
  <2>1. CASE slaves = <<>>
    <3>1. UNCHANGED <<flight, view>>  BY <1>5, <2>1 DEF updateSlaves
    <3>2. ~OfCurrent(q)  BY <1>5 DEF OfCurrent
    <3> QED BY <1>3, <1>4, <3>1, <3>2, FailedStep DEF view
  <2>2. CASE slaves # <<>>
    <3>1. link = "down" => flight = <<>>  BY DEF ViewInv, Typed
    <3>2. <<>> \in Seq(Slaves)  BY EmptySeq
    <3>3. updateSlaves(<<>>, flight) /\ <<>> # slaves /\ flight \in Seq(Asked)  BY <1>2, <1>5, <2>2
    <3> QED BY <1>3, <1>4, <3>1, <3>2, <3>3, ListStep
  <2> QED BY <2>1, <2>2
<1>6. CASE q.op = "sdos" /\ slaveTextResult(q, Blank, flight)
  <2>1. UNCHANGED <<flight, current, online>>  BY <1>6 DEF slaveTextResult
  <2>2. CASE q.position # current
    <3>1. ~OfCurrent(q) /\ loaded' = loaded  BY <1>6, <2>2 DEF OfCurrent, slaveTextResult
    <3> QED BY <1>3, <1>4, <2>1, <3>1, FailedStep
  <2>3. CASE q.position = current
    <3>1. OfCurrent(q)  BY <1>6, <2>3 DEF OfCurrent
    <3>2. loaded' = [position |-> q.position, text |-> Blank, master |-> q.master, fresh |-> q.fresh]
      BY <1>6, <2>3 DEF slaveTextResult
    <3>3. loaded'.position = current /\ loaded'.text = Blank  BY <2>3, <3>2
    <3> QED BY <1>3, <1>4, <2>1, <3>1, <3>3, FailedStep
  <2> QED BY <2>2, <2>3
<1> QED BY <1>1, <1>5, <1>6 DEF Handle

(* The dictionaries a project loads: of the first item, then of the saved one.  *)
Loads(none, first, at) == (IF none THEN <<>> ELSE <<first>>) \o (IF at = first THEN <<>> ELSE <<at>>)
EndsWith(s, at) ==
  s \in Seq(Nat \ {0}) /\ (s # <<>> => s[Len(s)] = at /\ Len(s) \in DOMAIN s)

LEMMA LastLoad ==
  ASSUME NEW none \in BOOLEAN, NEW first, NEW at,
         ~none => first \in Nat \ {0}, at # first => at \in Nat \ {0}
  PROVE  EndsWith(Loads(none, first, at), at)
<1> DEFINE P == Nat \ {0}
           s == IF none THEN <<>> ELSE <<first>>
           t == IF at = first THEN <<>> ELSE <<at>>
<1>1. s \in Seq(P) /\ (s # <<>> => s = <<first>>)
  <2>1. CASE none  BY <2>1
  <2>2. CASE ~none  BY <2>2
  <2> QED BY <2>1, <2>2
<1>2. t \in Seq(P) /\ (at # first => t = <<at>>) /\ (at = first => t = <<>>)
  <2>1. CASE at = first  BY <2>1
  <2>2. CASE at # first  BY <2>2
  <2> QED BY <2>1, <2>2
<1>3. <<at>> # <<>> /\ <<first>> # <<>> /\ <<at>>[Len(<<at>>)] = at /\ <<first>>[Len(<<first>>)] = first
  OBVIOUS
<1> HIDE DEF s, t
<1>4. s \o t \in Seq(P)  BY <1>1, <1>2, ConcatLast
<1>5. ASSUME s \o t # <<>> PROVE (s \o t)[Len(s \o t)] = at
  <2>1. CASE at = first
    <3>1. s \o t = s  BY <1>1, <1>2, <2>1, ConcatEmptySeq
    <3> QED BY <1>1, <1>3, <1>5, <2>1, <3>1
  <2>2. CASE at # first
    <3>1. t # <<>> /\ t[Len(t)] = at  BY <1>2, <1>3, <2>2
    <3>2. s \in Seq(P) /\ t \in Seq(P)  BY <1>1, <1>2
    <3>3. (s \o t)[Len(s \o t)] = t[Len(t)]  BY <3>1, <3>2, ConcatLast
    <3> QED BY <3>1, <3>3, Zenon
  <2> QED BY <2>1, <2>2
<1>6. ASSUME s \o t # <<>> PROVE Len(s \o t) \in DOMAIN (s \o t)
  <2> DEFINE u == s \o t
  <2> HIDE DEF u
  <2>1. u \in Seq(P) /\ u # <<>>  BY <1>4, <1>6 DEF u
  <2>2. Len(u) \in Nat /\ Len(u) # 0 /\ DOMAIN u = 1 .. Len(u)  BY <2>1, LenProperties, EmptySeq
  <2> QED BY <2>2 DEF u
<1> QED BY <1>4, <1>5, <1>6, Zenon DEF s, t, EndsWith, Loads

(* A project: the last dictionary asked for is that of the saved selection.    *)
LEMMA OpenKeeps == ASSUME ViewInv, NEW f \in Projects, openProject(f) PROVE ViewInv'
<1> DEFINE same == f.slaves = slaves
           first == IF same THEN current ELSE IF f.slaves = <<>> THEN -1 ELSE Target(f.slaves)
           at == IF f.position \in DOMAIN f.slaves THEN f.position ELSE first
           loads == (IF same \/ first = -1 THEN <<>> ELSE <<first>>) \o (IF at = first THEN <<>> ELSE <<at>>)
           sent == [i \in DOMAIN loads |-> [Sdos(loads[i]) EXCEPT !.master = f.master]]
<1>1. /\ f.master \in Masters /\ f.slaves \in Seq(Slaves) /\ f.position \in Nat
      /\ DOMAIN f.slaves = 1 .. Len(f.slaves)
  BY ViewAssumption, LenProperties
<1>2. first \in Int /\ at \in Int  BY <1>1 DEF Target, ViewInv, Typed
<1>3. (~(same \/ first = -1) => first \in Nat \ {0}) /\ (at # first => at \in Nat \ {0})
  BY <1>1 DEF Target
<1>4. /\ flight' = IF link = "up" THEN StaleFlight \o sent ELSE flight
      /\ current' = at /\ online' = (loads # <<>> /\ link = "up")
      /\ loaded' = IF f.text = Blank \/ f.position # at THEN None
                   ELSE [position |-> at, text |-> f.text, master |-> f.master, fresh |-> FALSE]
      /\ master' = f.master /\ UNCHANGED <<link, failing, bus>>
  BY DEF openProject
<1>5. /\ loads \in Seq(Nat \ {0})
      /\ loads # <<>> => loads[Len(loads)] = at /\ Len(loads) \in DOMAIN loads
  <2> DEFINE none == same \/ first = -1
  <2>1. none \in BOOLEAN  OBVIOUS
  <2>2. (~none => first \in Nat \ {0}) /\ (at # first => at \in Nat \ {0})  BY <1>3
  <2> HIDE DEF first, at, none
  <2>3. EndsWith(Loads(none, first, at), at)  BY <2>1, <2>2, LastLoad, Zenon
  <2> QED BY <2>3, Zenon DEF none, Loads, EndsWith
<1> HIDE DEF loads
<1>6. sent \in Seq(Asked) /\ Len(sent) = Len(loads) /\ DOMAIN sent = DOMAIN loads
  <2>1. ASSUME NEW i \in DOMAIN loads PROVE sent[i] \in Asked
    <3>1. loads[i] \in Nat \ {0}  BY <1>5, ElementOfSeq
    <3>2. Sdos(loads[i]) \in Asked  BY <3>1, SdosAsked DEF ViewInv, Typed
    <3> QED BY <1>1, <3>2, OfMaster
  <2>2. DOMAIN loads = 1 .. Len(loads) /\ Len(loads) \in Nat  BY <1>5, LenProperties
  <2> QED BY <2>1, <2>2, IsASeq
<1>7. loads # <<>> => /\ sent # <<>> /\ sent[Len(sent)].op = "sdos" /\ sent[Len(sent)].position = at
                      /\ sent[Len(sent)].fresh /\ sent[Len(sent)].master = f.master
  BY <1>5, <1>6 DEF Sdos
<1> HIDE DEF sent
<1>8. StaleFlight \in Seq(Asked)  BY StaleFlightAsked
<1>9. /\ StaleFlight \o sent \in Seq(Asked)
      /\ sent # <<>> => /\ StaleFlight \o sent # <<>>
                        /\ (StaleFlight \o sent)[Len(StaleFlight \o sent)] = sent[Len(sent)]
  BY <1>6, <1>8, ConcatLast
<1>10. loaded' = None \/ (loaded'.position = at /\ at = f.position)
  <2>1. CASE f.text = Blank \/ f.position # at  BY <1>4, <2>1
  <2>2. CASE ~(f.text = Blank \/ f.position # at)  BY <1>4, <2>2
  <2> QED BY <2>1, <2>2
<1> HIDE DEF at, first
<1>11. Typed'
  <2>1. flight' \in Seq(Asked) /\ (link' = "down" => flight' = <<>>)
    BY <1>4, <1>9 DEF ViewInv, Typed
  <2> QED BY <1>1, <1>2, <1>4, <1>10, <2>1 DEF ViewInv, Typed
<1>12. CASE online'
  <2>1. flight' = StaleFlight \o sent /\ loads # <<>>  BY <1>4, <1>12
  <2>2. loaded' = None \/ loaded'.position = current'  BY <1>4, <1>10
  <2>3. /\ flight' # <<>> /\ flight'[Len(flight')].op = "sdos" /\ flight'[Len(flight')].position = current'
        /\ flight'[Len(flight')].fresh /\ flight'[Len(flight')].master = master'
    BY <1>4, <1>7, <1>9, <2>1
  <2> QED BY <1>11, <2>2, <2>3, FreshStep
<1> QED BY <1>11, <1>12, OfflineStep

-----------------------------------------------------------------------------
(* The invariant, and what it gives. *)

(* Selections, scans, projects, switches of the master and answers in any order *)
(* keep the invariant.                                                          *)
THEOREM ViewInvariant == Spec => []ViewInv
<1>1. ASSUME ViewInv, [Next]_vars PROVE ViewInv'
  <2>1. CASE \E p \in 0 .. Len(slaves) : SelectInTree(p) \/ JumpTo(p) \/ selectSlaveForLocalEvidence(p)
    BY <1>1, <2>1, SelectKeeps, JumpKeeps, LocalKeeps
  <2>2. CASE \E m \in Masters : setActiveMaster(m) \/ showSettings(m) \/ BusChange(m)
    BY <1>1, <2>2, SwitchKeeps, BusKeeps
  <2>3. CASE \E f \in Projects : openProject(f)  BY <1>1, <2>3, OpenKeeps
  <2>4. CASE newProject  BY <1>1, <2>4, NewKeeps
  <2>5. CASE requestRefresh  BY <1>1, <2>5, RefreshKeeps
  <2>6. CASE OpenWrite \/ writeCurrentSdo \/ Cancel  BY <1>1, <2>6, DialogKeeps
  <2>7. CASE Dispatch \/ Refuse  BY <1>1, <2>7, PerformKeeps DEF Dispatch, Refuse
  <2>8. CASE Receive  BY <1>1, <2>8, ReceiveKeeps
  <2>9. CASE Sweep  BY <1>1, <2>9, SweepKeeps
  <2>10. CASE Lose  BY <1>1, <2>10, LoseKeeps
  <2>11. CASE CallFailed  BY <1>1, <2>11, CallFailedKeeps
  <2>12. CASE Connect  BY <1>1, <2>12, ConnectKeeps
  <2>13. CASE UNCHANGED vars  BY <1>1, <2>13, QuietStep DEF vars, net, ViewInv, Typed
  <2> QED BY <1>1, <2>1, <2>2, <2>3, <2>4, <2>5, <2>6, <2>7, <2>8, <2>9, <2>10, <2>11, <2>12, <2>13 DEF Next
<1> QED BY ViewInit, <1>1, PTL DEF Spec

(* The handler of slaveTextResult knows an answer by its position alone: what   *)
(* the window shows as the dictionary of the selected slave was asked for at    *)
(* its position, whatever was selected, swept or lost while requests were on    *)
(* their way.                                                                   *)
THEOREM LoadedFitsSelection == Spec => []LoadedIsOfSelection
BY ViewInvariant, PTL DEF ViewInv

(* updateSlaves and setActiveMaster cancel nothing that is on its way.  Still,  *)
(* once no request for the slave selected is left, its dictionary was asked of  *)
(* the active master after the list last changed, or is empty.                  *)
THEOREM EvidenceFitsList == Spec => []EvidenceIsOfList
<1>1. ASSUME ViewInv PROVE EvidenceIsOfList
  <2> SUFFICES ASSUME online, Idle, loaded # None, loaded.position = current, ~Awaited
               PROVE  loaded.text = Blank \/ (loaded.fresh /\ loaded.master = master)
    BY DEF EvidenceIsOfList
  <2>1. \A i \in DOMAIN flight : ~OfCurrent(flight[i])  BY DEF Awaited, OfCurrent
  <2>2. DOMAIN failing = {}  BY LenProperties DEF Idle
  <2> QED BY <1>1, <2>1, <2>2 DEF ViewInv, Replaced, Good
<1> QED BY ViewInvariant, <1>1, PTL
=============================================================================
