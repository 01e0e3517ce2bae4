---------------------------- MODULE EcatRpc_proofs ----------------------------
(****************************************************************************)
(* Theorems about EcatRpc, for any number of requests and of losses of the  *)
(* connection, and any set of methods.                                      *)
(****************************************************************************)
EXTENDS EcatRpc, SequenceTheorems, TLAPS

-----------------------------------------------------------------------------
(* The inductive invariant. *)

(* Ids that were never handed out are untouched. *)
FutureIsFresh ==
  \A r \in Requests : r >= nextId => done[r] = "no" /\ outcome[r] = "none" /\ r \notin announced

(* A frame on its way to the daemon is that of a request not performed yet,   *)
(* and no request is on its way twice.                                        *)
Underway(s) == \A i \in 1..Len(s) : s[i] < nextId /\ done[s[i]] = "no"
Distinct(s) == \A i, j \in 1..Len(s) : s[i] = s[j] => i = j
FramesAreOnce ==
  /\ Underway(requests) /\ Underway(orphans)
  /\ Distinct(requests) /\ Distinct(orphans)
  /\ \A i \in 1..Len(requests), j \in 1..Len(orphans) : requests[i] # orphans[j]

(* A reply on its way says what the daemon did for its request. *)
RepliesAreTrue ==
  \A i \in 1..Len(replies) : /\ replies[i].id < nextId
                             /\ replies[i].result = done[replies[i].id]

(* What was announced was answered, and a download only by "ok" or a loss. *)
AnnouncedIsAnswered ==
  \A r \in announced : /\ r < nextId /\ outcome[r] # "none"
                       /\ method[r] = "download" => outcome[r] \in {"ok", "lost"}

RpcInv == /\ TypeOK /\ FutureIsFresh /\ FramesAreOnce /\ RepliesAreTrue
          /\ AnnouncedIsAnswered /\ NoneForgotten /\ AnswersAreOwn

-----------------------------------------------------------------------------
(* The parts of RpcInv are preserved by each action. *)

LEMMA InitInv == Init => RpcInv
<1> SUFFICES ASSUME Init PROVE RpcInv  OBVIOUS
<1> USE RpcAssumption DEF Init, Requests
<1>1. TypeOK  BY DEF TypeOK, Frames, AllMethods
<1>2. FutureIsFresh  BY DEF FutureIsFresh
<1>3. FramesAreOnce /\ RepliesAreTrue
  <2>1. Len(requests) = 0 /\ Len(orphans) = 0 /\ Len(replies) = 0  OBVIOUS
  <2> QED BY <2>1 DEF FramesAreOnce, Underway, Distinct, RepliesAreTrue
<1>4. AnnouncedIsAnswered  BY DEF AnnouncedIsAnswered
<1>5. NoneForgotten  BY DEF NoneForgotten
<1>6. AnswersAreOwn  BY DEF AnswersAreOwn
<1> QED BY <1>1, <1>2, <1>3, <1>4, <1>5, <1>6 DEF RpcInv

(* Every frame names a request. *)
LEMMA FramesAreRequests ==
  ASSUME TypeOK
  PROVE  /\ Len(requests) \in Nat /\ Len(orphans) \in Nat /\ Len(replies) \in Nat
         /\ \A i \in 1..Len(requests) : requests[i] \in Requests
         /\ \A i \in 1..Len(orphans) : orphans[i] \in Requests
         /\ \A i \in 1..Len(replies) : /\ replies[i].id \in Requests
                                        /\ replies[i].result \in {"ok", "failed"}
<1> DEFINE Reply == [id : Requests, result : {"ok", "failed"}]
<1>1. requests \in Seq(Requests) /\ orphans \in Seq(Requests) /\ replies \in Seq(Reply)
  BY DEF TypeOK, Frames
<1> HIDE DEF Reply
<1>2. \A i \in 1..Len(replies) : replies[i] \in Reply  BY <1>1, ElementOfSeq
<1>3. \A i \in 1..Len(requests) : requests[i] \in Requests  BY <1>1, ElementOfSeq
<1>4. \A i \in 1..Len(orphans) : orphans[i] \in Requests  BY <1>1, ElementOfSeq
<1>5. Len(requests) \in Nat /\ Len(orphans) \in Nat /\ Len(replies) \in Nat
  BY <1>1, LenProperties
<1> QED BY <1>2, <1>3, <1>4, <1>5 DEF Reply

(* A request that is made joins the end of the frames to the daemon. *)
LEMMA AppendedFrame ==
  ASSUME RpcInv, nextId \in Requests, requests' = Append(requests, nextId),
         nextId' = nextId + 1, UNCHANGED <<orphans, done>>
  PROVE  requests' \in Frames /\ FramesAreOnce'
<1> USE DEF RpcInv, TypeOK, Frames
<1>1. requests' \in Frames /\ Len(requests') = Len(requests) + 1
      /\ (\A i \in 1..Len(requests) : requests'[i] = requests[i])
      /\ requests'[Len(requests) + 1] = nextId
  BY AppendProperties
<1>2. Len(requests) \in Nat /\ Len(orphans) \in Nat  BY FramesAreRequests
<1>3. nextId \in Nat /\ done[nextId] = "no"  BY DEF FutureIsFresh, Requests
<1>4. /\ \A i \in 1..Len(requests) : requests[i] \in Nat /\ requests[i] < nextId
      /\ \A i \in 1..Len(orphans) : orphans[i] \in Nat /\ orphans[i] < nextId
  BY FramesAreRequests DEF FramesAreOnce, Underway, Requests
<1>5. Underway(requests)' /\ Underway(orphans)'
  BY <1>1, <1>2, <1>3, <1>4 DEF FramesAreOnce, Underway
<1>6. Distinct(requests)'
  BY <1>1, <1>2, <1>3, <1>4 DEF FramesAreOnce, Distinct
<1>7. Distinct(orphans)'  BY DEF FramesAreOnce, Distinct
<1>8. \A i \in 1..Len(requests'), j \in 1..Len(orphans) : requests'[i] # orphans[j]
  BY <1>1, <1>2, <1>3, <1>4 DEF FramesAreOnce
<1> QED BY <1>1, <1>5, <1>6, <1>7, <1>8 DEF FramesAreOnce

LEMMA CallInv == ASSUME RpcInv, Call PROVE RpcInv'
<1> USE RpcAssumption DEF Requests
<1>1. PICK m \in Methods : Send(m)  BY DEF Call
<1>2. nextId \in Requests /\ connected
      /\ UNCHANGED <<connected, buffer, orphans, replies, drops, done, outcome, announced>>
  BY <1>1 DEF Call, Send, history
<1>3. requests' \in Frames /\ FramesAreOnce'
  BY <1>1, <1>2, AppendedFrame DEF Send
<1>4. TypeOK'
  <2>1. nextId' \in 1..(MaxRequests + 1) /\ handlers' \subseteq 1..(nextId' - 1)
    BY <1>1, <1>2 DEF RpcInv, TypeOK, Send
  <2>2. method' \in [Requests -> AllMethods]
    BY <1>1, <1>2 DEF RpcInv, TypeOK, Send, AllMethods
  <2> QED BY <1>2, <1>3, <2>1, <2>2 DEF RpcInv, TypeOK, Frames
<1>5. FutureIsFresh'  BY <1>1, <1>2 DEF RpcInv, TypeOK, FutureIsFresh, Send
<1>6. RepliesAreTrue'
  <2>1. \A i \in 1..Len(replies) : replies[i].id \in Nat  BY FramesAreRequests DEF RpcInv
  <2> QED BY <1>1, <1>2, <2>1 DEF RpcInv, TypeOK, RepliesAreTrue, Send
<1>7. AnnouncedIsAnswered'
  BY <1>1, <1>2 DEF RpcInv, TypeOK, AnnouncedIsAnswered, Send
<1>8. NoneForgotten'
  BY <1>1, <1>2 DEF RpcInv, TypeOK, FutureIsFresh, NoneForgotten, Send
<1>9. AnswersAreOwn'  BY <1>2 DEF RpcInv, AnswersAreOwn
<1> QED BY <1>3, <1>4, <1>5, <1>6, <1>7, <1>8, <1>9 DEF RpcInv

LEMMA DispatchInv == ASSUME RpcInv, Dispatch PROVE RpcInv'
<1> USE RpcAssumption DEF Requests
<1> DEFINE r == Head(requests)
<1>1. PICK result \in {"ok", "failed"} :
        /\ done' = [done EXCEPT ![r] = result]
        /\ replies' = Append(replies, [id |-> r, result |-> result])
  BY DEF Dispatch, Perform
<1>2. requests # <<>> /\ requests' = Tail(requests)
      /\ UNCHANGED <<connected, nextId, method, handlers, buffer, orphans, drops, outcome, announced>>
  BY DEF Dispatch, client
<1>3. /\ r \in Requests /\ requests' \in Seq(Requests) /\ Len(requests') = Len(requests) - 1
      /\ \A i \in 1..Len(requests') : requests'[i] = requests[i + 1]
  BY <1>2, HeadTailProperties DEF RpcInv, TypeOK, Frames
<1>4. r = requests[1] /\ Len(requests) \in Nat \ {0}
  BY <1>2, FramesAreRequests, EmptySeq DEF RpcInv, TypeOK, Frames
<1>5. r < nextId /\ done[r] = "no"  BY <1>4 DEF RpcInv, FramesAreOnce, Underway
<1>6. /\ replies' \in Seq([id : Requests, result : {"ok", "failed"}])
      /\ Len(replies') = Len(replies) + 1
      /\ \A i \in 1..Len(replies) : replies'[i] = replies[i]
      /\ replies'[Len(replies) + 1] = [id |-> r, result |-> result]
  <2> HIDE DEF r
  <2> QED BY <1>1, <1>3, AppendProperties DEF RpcInv, TypeOK
<1>7. done' \in [Requests -> {"no", "ok", "failed"}] /\ done'[r] = result
      /\ \A q \in Requests : q # r => done'[q] = done[q]
  BY <1>1, <1>3 DEF RpcInv, TypeOK
<1> HIDE DEF r
<1>8. TypeOK'  BY <1>2, <1>3, <1>6, <1>7 DEF RpcInv, TypeOK, Frames
<1>9. FutureIsFresh'
  BY <1>2, <1>3, <1>5, <1>7 DEF RpcInv, TypeOK, FutureIsFresh
<1>10. FramesAreOnce'
  <2>1. \A i \in 1..Len(requests') : requests'[i] # r /\ requests'[i] \in Requests
    BY <1>3, <1>4, FramesAreRequests DEF RpcInv, FramesAreOnce, Distinct
  <2>2. \A i \in 1..Len(orphans) : orphans[i] # r /\ orphans[i] \in Requests
    BY <1>4, FramesAreRequests DEF RpcInv, FramesAreOnce
  <2>3. Underway(requests)'
    BY <1>2, <1>3, <1>4, <1>7, <2>1 DEF RpcInv, FramesAreOnce, Underway
  <2>4. Underway(orphans)'  BY <1>2, <1>7, <2>2 DEF RpcInv, FramesAreOnce, Underway
  <2>5. Distinct(requests)' /\ Distinct(orphans)'
    BY <1>2, <1>3, <1>4 DEF RpcInv, FramesAreOnce, Distinct
  <2>6. \A i \in 1..Len(requests'), j \in 1..Len(orphans) : requests'[i] # orphans[j]
    BY <1>3, <1>4 DEF RpcInv, FramesAreOnce
  <2> QED BY <1>2, <2>3, <2>4, <2>5, <2>6 DEF FramesAreOnce
<1>11. RepliesAreTrue'
  <2>1. \A i \in 1..Len(replies) : replies[i].id # r
    BY <1>5, FramesAreRequests DEF RpcInv, RepliesAreTrue
  <2> QED BY <1>2, <1>5, <1>6, <1>7, <2>1, FramesAreRequests DEF RpcInv, RepliesAreTrue
<1>12. AnnouncedIsAnswered' /\ NoneForgotten'
  BY <1>2 DEF RpcInv, AnnouncedIsAnswered, NoneForgotten
<1>13. AnswersAreOwn'
  BY <1>2, <1>5, <1>7 DEF RpcInv, TypeOK, AnswersAreOwn
<1> QED BY <1>8, <1>9, <1>10, <1>11, <1>12, <1>13 DEF RpcInv

LEMMA DispatchOrphanInv == ASSUME RpcInv, DispatchOrphan PROVE RpcInv'
<1> USE RpcAssumption DEF Requests
<1> DEFINE r == Head(orphans)
<1>1. PICK result \in {"ok", "failed"} : done' = [done EXCEPT ![r] = result]
  BY DEF DispatchOrphan, Perform
<1>2. orphans # <<>> /\ orphans' = Tail(orphans)
      /\ UNCHANGED <<connected, nextId, method, handlers, buffer, requests, replies, drops,
                     outcome, announced>>
  BY DEF DispatchOrphan, client
<1>3. /\ r \in Requests /\ orphans' \in Seq(Requests) /\ Len(orphans') = Len(orphans) - 1
      /\ \A i \in 1..Len(orphans') : orphans'[i] = orphans[i + 1]
  BY <1>2, HeadTailProperties DEF RpcInv, TypeOK, Frames
<1>4. r = orphans[1] /\ Len(orphans) \in Nat \ {0}
  BY <1>2, FramesAreRequests, EmptySeq DEF RpcInv, TypeOK, Frames
<1>5. r < nextId /\ done[r] = "no"  BY <1>4 DEF RpcInv, FramesAreOnce, Underway
<1>6. done' \in [Requests -> {"no", "ok", "failed"}] /\ done'[r] = result
      /\ \A q \in Requests : q # r => done'[q] = done[q]
  BY <1>1, <1>3 DEF RpcInv, TypeOK
<1> HIDE DEF r
<1>7. TypeOK'  BY <1>2, <1>3, <1>6 DEF RpcInv, TypeOK, Frames
<1>8. FutureIsFresh'  BY <1>2, <1>3, <1>5, <1>6 DEF RpcInv, TypeOK, FutureIsFresh
<1>9. FramesAreOnce'
  <2>1. \A i \in 1..Len(orphans') : i + 1 \in 1..Len(orphans) /\ 1 \in 1..Len(orphans)
                                     /\ i + 1 # 1
    BY <1>3, <1>4
  <2>2. Distinct(orphans) /\ \A i \in 1..Len(orphans) : orphans[i] \in Requests
    BY FramesAreRequests DEF RpcInv, FramesAreOnce
  <2>3. \A i \in 1..Len(orphans') : orphans'[i] # r /\ orphans'[i] \in Requests
    BY <1>3, <1>4, <2>1, <2>2 DEF Distinct
  <2>4. \A i \in 1..Len(requests) : requests[i] # r /\ requests[i] \in Requests
    BY <1>4, FramesAreRequests DEF RpcInv, FramesAreOnce
  <2>5. Underway(orphans)'
    <3>1. \A i \in 1..Len(orphans) : orphans[i] < nextId /\ done[orphans[i]] = "no"
      BY DEF RpcInv, FramesAreOnce, Underway
    <3>2. \A i \in 1..Len(orphans') : orphans'[i] < nextId /\ done[orphans'[i]] = "no"
      <4> TAKE i \in 1..Len(orphans')
      <4>1. i + 1 \in 1..Len(orphans)  BY <2>1
      <4>2. orphans'[i] = orphans[i + 1]  BY <1>3
      <4>3. orphans[i + 1] < nextId /\ done[orphans[i + 1]] = "no"  BY <3>1, <4>1
      <4> QED BY <4>2, <4>3
    <3>3. \A i \in 1..Len(orphans') : done'[orphans'[i]] = "no"  BY <1>6, <2>3, <3>2
    <3> QED BY <1>2, <3>2, <3>3 DEF Underway
  <2>6. Underway(requests)'  BY <1>2, <1>6, <2>4 DEF RpcInv, FramesAreOnce, Underway
  <2>7. Distinct(requests)' /\ Distinct(orphans)'
    BY <1>2, <1>3, <1>4 DEF RpcInv, FramesAreOnce, Distinct
  <2>8. \A i \in 1..Len(requests), j \in 1..Len(orphans') : requests[i] # orphans'[j]
    BY <1>3, <1>4 DEF RpcInv, FramesAreOnce
  <2> QED BY <1>2, <2>5, <2>6, <2>7, <2>8 DEF FramesAreOnce
<1>10. RepliesAreTrue'
  <2>1. \A i \in 1..Len(replies) : replies[i].id # r
    BY <1>5, FramesAreRequests DEF RpcInv, RepliesAreTrue
  <2> QED BY <1>2, <1>6, <2>1, FramesAreRequests DEF RpcInv, RepliesAreTrue
<1>11. AnnouncedIsAnswered' /\ NoneForgotten'
  BY <1>2 DEF RpcInv, AnnouncedIsAnswered, NoneForgotten
<1>12. AnswersAreOwn'  BY <1>2, <1>5, <1>6 DEF RpcInv, TypeOK, AnswersAreOwn
<1> QED BY <1>7, <1>8, <1>9, <1>10, <1>11, <1>12 DEF RpcInv

LEMMA QuietStepInv ==
  ASSUME RpcInv, OrphansLost \/ ReceivePart \/ Reconnect \/ UNCHANGED vars PROVE RpcInv'
<1> USE RpcAssumption DEF RpcInv, client, wire, history, vars
<1>1. CASE OrphansLost
  <2>1. orphans' = <<>> /\ Len(orphans') = 0 /\ orphans' \in Seq(Requests)  BY <1>1 DEF OrphansLost
  <2>2. UNCHANGED <<client, requests, replies, drops, history>>  BY <1>1 DEF OrphansLost
  <2>3. TypeOK'  BY <2>1, <2>2 DEF TypeOK, Frames
  <2>4. FramesAreOnce'  BY <2>1, <2>2 DEF FramesAreOnce, Underway, Distinct
  <2> QED BY <2>2, <2>3, <2>4 DEF FutureIsFresh, RepliesAreTrue, AnnouncedIsAnswered,
                                  NoneForgotten, AnswersAreOwn
<1>2. CASE ReceivePart \/ Reconnect \/ UNCHANGED vars
  <2>1. TypeOK'  BY <1>2 DEF ReceivePart, Reconnect, TypeOK
  <2>2. FutureIsFresh' /\ RepliesAreTrue' /\ AnnouncedIsAnswered' /\ AnswersAreOwn'
    BY <1>2 DEF ReceivePart, Reconnect, FutureIsFresh, RepliesAreTrue, AnnouncedIsAnswered,
                AnswersAreOwn
  <2>3. FramesAreOnce'
    BY <1>2 DEF ReceivePart, Reconnect, FramesAreOnce, Underway, Distinct
  <2>4. NoneForgotten'  BY <1>2 DEF ReceivePart, Reconnect, NoneForgotten
  <2> QED BY <2>1, <2>2, <2>3, <2>4
<1> QED BY <1>1, <1>2

(* Requests whose handlers are called with an error, or because the           *)
(* connection is lost.                                                        *)
LEMMA AbandonInv ==
  ASSUME RpcInv, NEW S \in SUBSET handlers, NEW result \in {"error", "lost"},
         CallHandlers(S, result), UNCHANGED <<nextId, method, done>>
  PROVE  /\ outcome' \in [Requests -> {"none", "ok", "failed", "error", "lost"}]
         /\ announced' \subseteq Requests
         /\ FutureIsFresh' /\ AnnouncedIsAnswered' /\ AnswersAreOwn'
         /\ {r \in 1..(nextId - 1) : outcome'[r] = "none"} = handlers \ S
<1> USE RpcAssumption DEF RpcInv, Requests
<1>1. S \subseteq 1..(nextId - 1) /\ S \subseteq Requests /\ nextId \in Nat
      /\ \A r \in S : outcome[r] = "none"
  BY DEF TypeOK, NoneForgotten
<1>2. /\ \A r \in S : outcome'[r] = result
      /\ \A r \in Requests \ S : outcome'[r] = outcome[r]
      /\ outcome' \in [Requests -> {"none", "ok", "failed", "error", "lost"}]
  BY <1>1 DEF CallHandlers, TypeOK
<1>3. announced' \subseteq announced \cup S  BY DEF CallHandlers
<1>4. announced' \subseteq Requests  BY <1>1, <1>3 DEF TypeOK
<1>5. FutureIsFresh'  BY <1>1, <1>2, <1>3 DEF FutureIsFresh
<1>6. AnnouncedIsAnswered'
  <2> SUFFICES ASSUME NEW r \in announced'
               PROVE  /\ r < nextId /\ outcome'[r] # "none"
                      /\ method[r] = "download" => outcome'[r] \in {"ok", "lost"}
    BY DEF AnnouncedIsAnswered
  <2>1. CASE r \in S
    <3>1. r \in {q \in S : Announces(method[q], result)} \/ r \in announced
      BY DEF CallHandlers
    <3>2. r \notin announced  BY <1>1, <2>1 DEF AnnouncedIsAnswered
    <3> QED BY <1>1, <1>2, <2>1, <3>1, <3>2 DEF Announces
  <2>2. CASE r \notin S
    BY <1>2, <1>3, <1>4, <2>2 DEF AnnouncedIsAnswered
  <2> QED BY <2>1, <2>2
<1>7. AnswersAreOwn'  BY <1>2 DEF AnswersAreOwn
<1>8. {r \in 1..(nextId - 1) : outcome'[r] = "none"} = handlers \ S
  BY <1>1, <1>2 DEF TypeOK, NoneForgotten
<1> QED BY <1>2, <1>4, <1>5, <1>6, <1>7, <1>8

LEMMA SweepInv == ASSUME RpcInv, Sweep PROVE RpcInv'
<1> USE RpcAssumption DEF Requests
<1>1. PICK S \in SUBSET handlers : CallHandlers(S, "error") /\ handlers' = handlers \ S
  BY DEF Sweep
<1>2. connected /\ UNCHANGED <<connected, nextId, method, buffer, requests, orphans, replies, drops, done>>
  BY DEF Sweep, wire
<1>3. /\ outcome' \in [Requests -> {"none", "ok", "failed", "error", "lost"}]
      /\ announced' \subseteq Requests
      /\ FutureIsFresh' /\ AnnouncedIsAnswered' /\ AnswersAreOwn'
      /\ {r \in 1..(nextId - 1) : outcome'[r] = "none"} = handlers \ S
  BY <1>1, <1>2, AbandonInv
<1>4. TypeOK'  BY <1>1, <1>2, <1>3 DEF RpcInv, TypeOK
<1>5. FramesAreOnce' /\ RepliesAreTrue'
  BY <1>2 DEF RpcInv, FramesAreOnce, RepliesAreTrue, Underway, Distinct
<1>6. NoneForgotten'  BY <1>1, <1>2, <1>3 DEF NoneForgotten
<1> QED BY <1>3, <1>4, <1>5, <1>6 DEF RpcInv

(* The frames of the lost connection join those of the ones before. *)
LEMMA OrphanedFrames ==
  ASSUME RpcInv, orphans' = orphans \o requests, requests' = <<>>, UNCHANGED <<nextId, done>>
  PROVE  requests' \in Frames /\ orphans' \in Frames /\ FramesAreOnce'
<1>1. /\ orphans' \in Seq(Requests) /\ Len(orphans') = Len(orphans) + Len(requests)
      /\ \A i \in 1..(Len(orphans) + Len(requests)) :
           orphans'[i] = IF i <= Len(orphans) THEN orphans[i] ELSE requests[i - Len(orphans)]
  BY ConcatProperties DEF RpcInv, TypeOK, Frames
<1>2. Len(orphans) \in Nat /\ Len(requests) \in Nat  BY FramesAreRequests DEF RpcInv
<1>3. requests' \in Seq(Requests) /\ Len(requests') = 0  OBVIOUS
<1>4. ASSUME NEW i \in 1..Len(orphans')
      PROVE  \/ i \in 1..Len(orphans) /\ orphans'[i] = orphans[i]
             \/ /\ i > Len(orphans) /\ i - Len(orphans) \in 1..Len(requests)
                /\ orphans'[i] = requests[i - Len(orphans)]
  <2>1. i \in 1..(Len(orphans) + Len(requests))  BY <1>1
  <2>2. CASE i <= Len(orphans)  BY <1>1, <1>2, <2>1, <2>2
  <2>3. CASE i > Len(orphans)
    <3>1. i - Len(orphans) \in 1..Len(requests) /\ ~(i <= Len(orphans))  BY <1>2, <2>1, <2>3
    <3> QED BY <1>1, <2>1, <2>3, <3>1
  <2> QED BY <1>2, <2>1, <2>2, <2>3
<1>5. Underway(orphans)'
  <2> SUFFICES ASSUME NEW i \in 1..Len(orphans')
               PROVE  orphans'[i] < nextId /\ done[orphans'[i]] = "no"
    BY DEF Underway
  <2> QED BY <1>4 DEF RpcInv, FramesAreOnce, Underway
<1>6. Distinct(orphans)'
  <2> SUFFICES ASSUME NEW i \in 1..Len(orphans'), NEW j \in 1..Len(orphans'),
                      orphans'[i] = orphans'[j]
               PROVE  i = j
    BY DEF Distinct
  <2>1. CASE i \in 1..Len(orphans) /\ j \in 1..Len(orphans)
    <3>1. orphans'[i] = orphans[i] /\ orphans'[j] = orphans[j]  BY <1>2, <1>4, <2>1
    <3> QED BY <2>1, <3>1 DEF RpcInv, FramesAreOnce, Distinct
  <2>2. CASE i \notin 1..Len(orphans) /\ j \notin 1..Len(orphans)
    <3> DEFINE a == i - Len(orphans)
               b == j - Len(orphans)
    <3>1. /\ a \in 1..Len(requests) /\ orphans'[i] = requests[a]
          /\ b \in 1..Len(requests) /\ orphans'[j] = requests[b]
      BY <1>4, <2>2
    <3>2. a = b
      <4> HIDE DEF a, b
      <4> QED BY <3>1 DEF RpcInv, FramesAreOnce, Distinct
    <3> QED BY <1>1, <1>2, <3>2
  <2>3. CASE (i \in 1..Len(orphans)) # (j \in 1..Len(orphans))
    <3>1. CASE i \in 1..Len(orphans)
      <4>1. orphans'[i] = orphans[i]  BY <1>2, <1>4, <3>1
      <4>2. j - Len(orphans) \in 1..Len(requests) /\ orphans'[j] = requests[j - Len(orphans)]
        BY <1>4, <2>3, <3>1
      <4> QED BY <3>1, <4>1, <4>2 DEF RpcInv, FramesAreOnce
    <3>2. CASE j \in 1..Len(orphans)
      <4>1. orphans'[j] = orphans[j]  BY <1>2, <1>4, <3>2
      <4>2. i - Len(orphans) \in 1..Len(requests) /\ orphans'[i] = requests[i - Len(orphans)]
        BY <1>4, <2>3, <3>2
      <4> QED BY <3>2, <4>1, <4>2 DEF RpcInv, FramesAreOnce
    <3> QED BY <2>3, <3>1, <3>2
  <2> QED BY <2>1, <2>2, <2>3
<1>7. Underway(requests)' /\ Distinct(requests)'
      /\ \A i \in 1..Len(requests'), j \in 1..Len(orphans') : requests'[i] # orphans'[j]
  BY <1>3 DEF Underway, Distinct
<1> QED BY <1>1, <1>3, <1>5, <1>6, <1>7 DEF FramesAreOnce, Frames

LEMMA DropInv == ASSUME RpcInv, Drop PROVE RpcInv'
<1> USE RpcAssumption DEF Requests
<1>1. /\ connected' = FALSE /\ drops < MaxDrops /\ drops' = drops + 1
      /\ CallHandlers(handlers, "lost") /\ handlers' = {}
      /\ orphans' = orphans \o requests /\ requests' = <<>> /\ replies' = <<>>
      /\ UNCHANGED <<nextId, method, done>>
  BY DEF Drop
<1>2. buffer' \in {"empty", "part", "stale"}  BY DEF Drop
<1>3. /\ outcome' \in [Requests -> {"none", "ok", "failed", "error", "lost"}]
      /\ announced' \subseteq Requests
      /\ FutureIsFresh' /\ AnnouncedIsAnswered' /\ AnswersAreOwn'
      /\ {r \in 1..(nextId - 1) : outcome'[r] = "none"} = {}
  BY <1>1, AbandonInv
<1>4. requests' \in Frames /\ orphans' \in Frames /\ FramesAreOnce'  BY <1>1, OrphanedFrames
<1>5. Len(replies') = 0 /\ replies' \in Seq([id : Requests, result : {"ok", "failed"}])  BY <1>1
<1>6. TypeOK'
  <2>1. drops' \in 0..MaxDrops
    <3>1. drops \in 0..MaxDrops  BY DEF RpcInv, TypeOK
    <3>2. drops' = drops + 1 /\ drops < MaxDrops  BY <1>1
    <3> QED BY <3>1, <3>2
  <2>2. connected' \in BOOLEAN
    <3>1. connected' = FALSE  BY <1>1
    <3> QED BY <3>1
  <2>3. /\ handlers' \subseteq 1..(nextId' - 1) /\ nextId' \in 1..(MaxRequests + 1)
        /\ method' \in [1..MaxRequests -> AllMethods]
        /\ done' \in [1..MaxRequests -> {"no", "ok", "failed"}]
    BY <1>1 DEF RpcInv, TypeOK
  <2>4. requests' \in Frames /\ orphans' \in Frames  BY <1>4
  <2> QED BY <1>2, <1>3, <1>5, <2>1, <2>2, <2>3, <2>4 DEF TypeOK, Frames
<1>7. RepliesAreTrue'  BY <1>5 DEF RepliesAreTrue
<1>8. NoneForgotten'  BY <1>1, <1>3 DEF NoneForgotten
<1> QED BY <1>3, <1>4, <1>6, <1>7, <1>8 DEF RpcInv

(* A reply taken off the wire. *)
LEMMA ReplyTaken ==
  ASSUME RpcInv, replies # <<>>
  PROVE  /\ Head(replies).id \in Requests /\ Head(replies).id < nextId
         /\ Head(replies).result \in {"ok", "failed"}
         /\ Head(replies).result = done[Head(replies).id]
         /\ Tail(replies) \in Seq([id : Requests, result : {"ok", "failed"}])
         /\ Len(Tail(replies)) = Len(replies) - 1
         /\ \A i \in 1..Len(Tail(replies)) : Tail(replies)[i] = replies[i + 1]
<1>1. replies \in Seq([id : Requests, result : {"ok", "failed"}])  BY DEF RpcInv, TypeOK
<1>2. Head(replies) = replies[1] /\ Len(replies) \in Nat \ {0}  BY <1>1, EmptySeq
<1>3. 1 \in 1..Len(replies)  BY <1>2
<1>4. /\ Tail(replies) \in Seq([id : Requests, result : {"ok", "failed"}])
      /\ Len(Tail(replies)) = Len(replies) - 1
      /\ \A i \in 1..Len(Tail(replies)) : Tail(replies)[i] = replies[i + 1]
  BY <1>1, HeadTailProperties
<1>5. /\ replies[1].id \in Requests /\ replies[1].result \in {"ok", "failed"}
      /\ replies[1].id < nextId /\ replies[1].result = done[replies[1].id]
  BY <1>3, FramesAreRequests DEF RpcInv, RepliesAreTrue
<1> QED BY <1>2, <1>4, <1>5

LEMMA ReceiveInv == ASSUME RpcInv, Receive PROVE RpcInv'
<1> USE RpcAssumption DEF Requests
<1> DEFINE id == Head(replies).id
           result == Head(replies).result
           readBack == method[id] = "download" /\ result = "ok" /\ nextId \in Requests
<1>1. connected /\ replies # <<>> /\ replies' = Tail(replies) /\ buffer' = "empty"
      /\ UNCHANGED <<connected, orphans, drops, done>>
  BY DEF Receive
<1>2. \/ UNCHANGED <<nextId, method, handlers, requests, outcome, announced>>
      \/ /\ id \in handlers /\ CallHandlers({id}, result)
         /\ \/ /\ readBack
               /\ method' = [method EXCEPT ![nextId] = "upload"]
               /\ handlers' = (handlers \ {id}) \cup {nextId}
               /\ requests' = Append(requests, nextId)
               /\ nextId' = nextId + 1
            \/ handlers' = handlers \ {id} /\ UNCHANGED <<nextId, method, requests>>
  BY DEF Receive
<1>3. /\ id \in Requests /\ id < nextId /\ result \in {"ok", "failed"} /\ result = done[id]
      /\ replies' \in Seq([id : Requests, result : {"ok", "failed"}])
      /\ Len(replies') = Len(replies) - 1
      /\ \A i \in 1..Len(replies') : replies'[i] = replies[i + 1]
  BY <1>1, ReplyTaken
<1> HIDE DEF id, result
<1>4. nextId \in Nat /\ nextId' \in Nat /\ nextId <= nextId'  BY <1>2 DEF RpcInv, TypeOK
<1>5. RepliesAreTrue'
  <2> SUFFICES ASSUME NEW i \in 1..Len(replies')
               PROVE  replies'[i].id < nextId' /\ replies'[i].result = done'[replies'[i].id]
    BY DEF RepliesAreTrue
  <2>1. Len(replies) \in Nat  BY FramesAreRequests DEF RpcInv
  <2>2. i + 1 \in 1..Len(replies) /\ replies'[i] = replies[i + 1]  BY <1>3, <2>1
  <2>3. /\ replies[i + 1].id \in Nat /\ replies[i + 1].id < nextId
        /\ replies[i + 1].result = done[replies[i + 1].id]
    BY <2>2, FramesAreRequests DEF RpcInv, RepliesAreTrue
  <2> QED BY <1>1, <1>4, <2>2, <2>3
<1>6. CASE UNCHANGED <<nextId, method, handlers, requests, outcome, announced>>
  <2>1. TypeOK'  BY <1>1, <1>3, <1>6 DEF RpcInv, TypeOK
  <2>2. FutureIsFresh' /\ AnnouncedIsAnswered' /\ AnswersAreOwn' /\ NoneForgotten'
    BY <1>1, <1>6 DEF RpcInv, FutureIsFresh, AnnouncedIsAnswered, AnswersAreOwn, NoneForgotten
  <2>3. FramesAreOnce'  BY <1>1, <1>6 DEF RpcInv, FramesAreOnce, Underway, Distinct
  <2> QED BY <1>5, <2>1, <2>2, <2>3 DEF RpcInv
<1>7. CASE id \in handlers /\ CallHandlers({id}, result)
           /\ \/ /\ readBack
                 /\ method' = [method EXCEPT ![nextId] = "upload"]
                 /\ handlers' = (handlers \ {id}) \cup {nextId}
                 /\ requests' = Append(requests, nextId)
                 /\ nextId' = nextId + 1
              \/ handlers' = handlers \ {id} /\ UNCHANGED <<nextId, method, requests>>
  <2>1. /\ outcome'[id] = result /\ \A r \in Requests : r # id => outcome'[r] = outcome[r]
        /\ outcome' \in [Requests -> {"none", "ok", "failed", "error", "lost"}]
    BY <1>3, <1>7 DEF CallHandlers, RpcInv, TypeOK
  <2>2. /\ announced' \subseteq announced \cup {id}
        /\ id \in announced' => id \in announced \/ Announces(method[id], result)
    BY <1>7 DEF CallHandlers
  <2>3. id \notin announced /\ outcome[id] = "none"
    BY <1>7 DEF RpcInv, NoneForgotten, AnnouncedIsAnswered
  <2>4. \A r \in Requests : r < nextId => method'[r] = method[r]
    BY <1>4, <1>7 DEF RpcInv, TypeOK
  <2>5. requests' \in Frames /\ FramesAreOnce'
    <3>1. CASE UNCHANGED <<nextId, requests>>
      BY <1>1, <3>1 DEF RpcInv, TypeOK, Frames, FramesAreOnce, Underway, Distinct
    <3>2. CASE readBack /\ requests' = Append(requests, nextId) /\ nextId' = nextId + 1
      BY <1>1, <3>2, AppendedFrame
    <3> QED BY <1>7, <3>1, <3>2
  <2>6. TypeOK'
    <3>1. handlers \subseteq 1..(nextId - 1) /\ nextId \in 1..(MaxRequests + 1)
      BY DEF RpcInv, TypeOK
    <3>2. nextId' \in 1..(MaxRequests + 1) /\ handlers' \subseteq 1..(nextId' - 1)
      <4>1. CASE readBack /\ nextId' = nextId + 1 /\ handlers' = (handlers \ {id}) \cup {nextId}
        <5>1. nextId \in 1..MaxRequests /\ nextId' = nextId + 1  BY <4>1
        <5>2. nextId' \in 1..(MaxRequests + 1)  BY <5>1
        <5>3. handlers' = (handlers \ {id}) \cup {nextId}  BY <4>1
        <5>4. nextId' - 1 = nextId /\ 1..(nextId - 1) \subseteq 1..nextId /\ nextId \in 1..nextId
          BY <5>1
        <5>5. handlers' \subseteq 1..nextId  BY <3>1, <5>3, <5>4
        <5>6. handlers' \subseteq 1..(nextId' - 1)  BY <5>4, <5>5
        <5> QED BY <5>2, <5>6
      <4>2. CASE handlers' = handlers \ {id} /\ UNCHANGED nextId  BY <3>1, <4>2
      <4> QED BY <1>7, <4>1, <4>2
    <3>3. method' \in [Requests -> AllMethods]  BY <1>7 DEF RpcInv, TypeOK, AllMethods
    <3>4. announced' \subseteq Requests  BY <1>3, <2>2 DEF RpcInv, TypeOK
    <3> QED BY <1>1, <1>3, <2>1, <2>5, <3>2, <3>3, <3>4 DEF RpcInv, TypeOK, Frames
  <2>7. FutureIsFresh'
    BY <1>1, <1>3, <1>4, <2>1, <2>2 DEF RpcInv, TypeOK, FutureIsFresh
  <2>8. AnnouncedIsAnswered'
    <3> SUFFICES ASSUME NEW r \in announced'
                 PROVE  /\ r < nextId' /\ outcome'[r] # "none"
                        /\ method'[r] = "download" => outcome'[r] \in {"ok", "lost"}
      BY DEF AnnouncedIsAnswered
    <3>1. CASE r = id
      <4>1. Announces(method[id], result) /\ method'[id] = method[id]
        BY <1>3, <2>2, <2>3, <2>4, <3>1
      <4>2. method[id] = "download" => result = "ok"  BY <1>3, <4>1 DEF Announces
      <4>3. outcome'[id] = result /\ result # "none" /\ id < nextId'  BY <1>3, <1>4, <2>1
      <4> QED BY <3>1, <4>1, <4>2, <4>3
    <3>2. CASE r # id
      <4>1. r \in announced /\ r \in Requests  BY <2>2, <3>2 DEF RpcInv, TypeOK
      <4> QED BY <1>4, <2>1, <2>4, <3>2, <4>1 DEF RpcInv, AnnouncedIsAnswered
    <3> QED BY <3>1, <3>2
  <2>9. AnswersAreOwn'  BY <1>1, <1>3, <2>1 DEF RpcInv, AnswersAreOwn
  <2>10. NoneForgotten'
    <3>1. \A r \in 1..(nextId - 1) : r \in Requests  BY DEF RpcInv, TypeOK
    <3>2. CASE UNCHANGED nextId /\ handlers' = handlers \ {id}
      BY <1>1, <1>3, <2>1, <3>1, <3>2 DEF RpcInv, NoneForgotten
    <3>3. CASE readBack /\ nextId' = nextId + 1 /\ handlers' = (handlers \ {id}) \cup {nextId}
      <4>1. outcome'[nextId] = "none"
        BY <1>3, <1>4, <2>1, <3>3 DEF RpcInv, FutureIsFresh
      <4> QED BY <1>1, <1>3, <1>4, <2>1, <3>1, <3>3, <4>1 DEF RpcInv, NoneForgotten
    <3> QED BY <1>7, <3>2, <3>3
  <2> QED BY <1>5, <2>5, <2>6, <2>7, <2>8, <2>9, <2>10 DEF RpcInv
<1> QED BY <1>2, <1>6, <1>7

(* RpcInv is an invariant of the protocol. *)
THEOREM RpcInvariant == Spec => []RpcInv
<1>1. Init => RpcInv  BY InitInv
<1>2. RpcInv /\ [Next]_vars => RpcInv'
  BY CallInv, DispatchInv, DispatchOrphanInv, QuietStepInv, SweepInv, DropInv, ReceiveInv DEF Next
<1> QED BY <1>1, <1>2, PTL DEF Spec

-----------------------------------------------------------------------------
(* What the invariant says of the properties that the runs check. *)

(* Type correctness (EcatClient, EcatDaemon). *)
THEOREM RpcTypeCorrect == Spec => []TypeOK
<1>1. RpcInv => TypeOK  BY DEF RpcInv
<1> QED BY <1>1, RpcInvariant, PTL

(* A handler is given the answer to its own request (handleLine). *)
THEOREM HandlersGetOwnAnswers == Spec => []AnswersAreOwn
<1>1. RpcInv => AnswersAreOwn  BY DEF RpcInv
<1> QED BY <1>1, RpcInvariant, PTL

(* Every request made has its handler waiting or has had it called, and none  *)
(* waits on a lost connection (send, handleLine, the disconnected handler).   *)
THEOREM RequestsAreKept == Spec => []NoneForgotten
<1>1. RpcInv => NoneForgotten  BY DEF RpcInv
<1> QED BY <1>1, RpcInvariant, PTL

(* A download announced otherwise than by the loss of the connection was done *)
(* (the handler of EcatClient::download).                                     *)
THEOREM AnnouncementsAreTrue == Spec => []AnnouncedAsDone
<1>1. RpcInv => AnnouncedAsDone
  BY DEF RpcInv, TypeOK, AnnouncedIsAnswered, AnswersAreOwn, AnnouncedAsDone
<1> QED BY <1>1, RpcInvariant, PTL

-----------------------------------------------------------------------------
(* Every step is one of the contract, or none. *)

(* What the contract sees of the outcomes. *)
SeenOutcome == [r \in Requests |-> IF outcome[r] = "lost" THEN "error" ELSE outcome[r]]

LEMMA InitKeepsContract == Init => Contract!Init
BY RpcAssumption DEF Init, Contract!Init, Requests

LEMMA CallIssues == ASSUME RpcInv, Call PROVE Contract!Issue
<1> USE RpcAssumption DEF Requests
<1>1. nextId \in 1..MaxRequests /\ nextId' = nextId + 1 /\ UNCHANGED <<done, outcome>>
  BY DEF Call, Send, history
<1>2. 1..(nextId' - 1) = (1..(nextId - 1)) \cup {nextId} /\ nextId \notin 1..(nextId - 1)
  BY <1>1
<1> QED BY <1>1, <1>2 DEF Contract!Issue

LEMMA DispatchPerforms ==
  ASSUME RpcInv, Dispatch \/ DispatchOrphan PROVE \E r \in Requests : Contract!Perform(r)
<1>1. PICK s \in {requests, orphans} :
        /\ s # <<>> /\ UNCHANGED <<nextId, outcome>>
        /\ \E result \in {"ok", "failed"} : done' = [done EXCEPT ![Head(s)] = result]
  BY DEF Dispatch, DispatchOrphan, Perform, client
<1>2. s \in Seq(Requests) /\ Underway(s)
  BY DEF RpcInv, TypeOK, Frames, FramesAreOnce
<1>3. Head(s) = s[1] /\ 1 \in 1..Len(s) /\ Head(s) \in Requests
  BY <1>1, <1>2, EmptySeq, HeadTailProperties
<1>4. Head(s) \in 1..(nextId - 1) /\ done[Head(s)] = "no"
  BY <1>2, <1>3 DEF Underway, Requests, RpcInv, TypeOK
<1> QED BY <1>1, <1>3, <1>4 DEF Contract!Perform

LEMMA CallsAbandon ==
  ASSUME RpcInv, NEW S \in SUBSET handlers, NEW result \in {"error", "lost"},
         CallHandlers(S, result), UNCHANGED <<nextId, done>>
  PROVE  Contract!Abandon
<1>1. S \subseteq {r \in 1..(nextId - 1) : SeenOutcome[r] = "none"}
  <2>1. \A r \in S : r \in 1..(nextId - 1) /\ outcome[r] = "none"
    BY DEF RpcInv, NoneForgotten
  <2>2. 1..(nextId - 1) \subseteq Requests  BY RpcAssumption DEF RpcInv, TypeOK, Requests
  <2> QED BY <2>1, <2>2 DEF SeenOutcome
<1>2. SeenOutcome' = [r \in Requests |-> IF r \in S THEN "error" ELSE SeenOutcome[r]]
  BY DEF CallHandlers, SeenOutcome
<1> QED BY <1>1, <1>2 DEF Contract!Abandon, Contract!Open, SeenOutcome

LEMMA ReceiveAnswers ==
  ASSUME RpcInv, Receive
  PROVE  (\E r \in Requests : Contract!Answer(r)) \/ UNCHANGED <<nextId, done, outcome>>
<1> DEFINE id == Head(replies).id
           result == Head(replies).result
<1>1. /\ id \in Requests /\ id < nextId /\ result \in {"ok", "failed"} /\ result = done[id]
  BY ReplyTaken DEF Receive
<1>2. done' = done  BY DEF Receive
<1>3. CASE UNCHANGED <<nextId, outcome>>  BY <1>2, <1>3
<1>4. CASE /\ id \in handlers /\ CallHandlers({id}, result)
           /\ nextId' = nextId \/ (nextId \in Requests /\ nextId' = nextId + 1)
  <2> HIDE DEF id, result
  <2>1. id \in 1..(nextId - 1) /\ outcome[id] = "none"
    BY <1>4 DEF RpcInv, TypeOK, NoneForgotten
  <2>2. id \in {r \in 1..(nextId - 1) : SeenOutcome[r] = "none"}
    BY <1>1, <2>1 DEF SeenOutcome
  <2>3. SeenOutcome' = [SeenOutcome EXCEPT ![id] = done[id]]
    BY <1>1, <1>4 DEF CallHandlers, SeenOutcome
  <2>4. \/ 1..(nextId' - 1) = 1..(nextId - 1)
        \/ \E f \in Requests \ (1..(nextId - 1)) : 1..(nextId' - 1) = (1..(nextId - 1)) \cup {f}
    <3>1. CASE nextId' = nextId  BY <3>1
    <3>2. CASE nextId \in Requests /\ nextId' = nextId + 1
      <4>1. nextId \in Nat /\ nextId \notin 1..(nextId - 1)
            /\ 1..(nextId' - 1) = (1..(nextId - 1)) \cup {nextId}
        BY <3>2 DEF Requests, RpcInv, TypeOK
      <4> QED BY <3>2, <4>1
    <3> QED BY <1>4, <3>1, <3>2
  <2>5. Contract!Answer(id)
    BY <1>1, <1>2, <2>2, <2>3, <2>4 DEF Contract!Answer, Contract!Open, SeenOutcome
  <2>6. \E r \in Requests : Contract!Answer(r)
    BY <1>1, <2>5 DEF Contract!Answer
  <2> QED BY <2>6
<1>5. \/ UNCHANGED <<nextId, method, handlers, requests, outcome, announced>>
      \/ /\ id \in handlers /\ CallHandlers({id}, result)
         /\ \/ nextId \in Requests /\ nextId' = nextId + 1
            \/ UNCHANGED <<nextId, method, requests>>
  BY DEF Receive
<1> HIDE DEF id, result
<1> QED BY <1>3, <1>4, <1>5

(* The protocol implements the contract: whatever is lost, late or swept, a   *)
(* request is performed at most once and answered exactly once, truly.        *)
THEOREM ProtocolKeepsContract == Spec => ContractSpec
<1>1. Init => Contract!Init  BY InitKeepsContract
<1>2. RpcInv /\ [Next]_vars => [Contract!Next]_(Contract!vars)
  <2> SUFFICES ASSUME RpcInv, [Next]_vars PROVE [Contract!Next]_(Contract!vars)  OBVIOUS
  <2>1. CASE Call  BY <2>1, CallIssues DEF Contract!Next
  <2>2. CASE Dispatch \/ DispatchOrphan  BY <2>2, DispatchPerforms DEF Contract!Next
  <2>3. CASE Receive
    BY <2>3, ReceiveAnswers DEF Contract!Next, Contract!vars
  <2>4. CASE Sweep
    <3>1. PICK S \in SUBSET handlers : CallHandlers(S, "error")  BY <2>4 DEF Sweep
    <3> QED BY <2>4, <3>1, CallsAbandon DEF Sweep, Contract!Next
  <2>5. CASE Drop  BY <2>5, CallsAbandon DEF Drop, Contract!Next
  <2>6. CASE OrphansLost \/ ReceivePart \/ Reconnect \/ UNCHANGED vars
    BY <2>6 DEF OrphansLost, ReceivePart, Reconnect, vars, client, history, Contract!vars
  <2> QED BY <2>1, <2>2, <2>3, <2>4, <2>5, <2>6 DEF Next
<1> QED BY <1>1, <1>2, RpcInvariant, PTL DEF Spec, ContractSpec, Contract!Spec
=============================================================================
