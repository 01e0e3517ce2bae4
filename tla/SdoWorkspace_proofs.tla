------------------------- MODULE SdoWorkspace_proofs -------------------------
(****************************************************************************)
(* Theorems about SdoWorkspace, for any objects, values and table, any      *)
(* number of operations, failures and losses: what is shown as under way is *)
(* waited for; a write shown as verified, unless by a blank text, was read  *)
(* back after the daemon performed it; every variable keeps its type; and,  *)
(* if the rows applied together are the first ones of the table, a row is   *)
(* told what became of its own item.                                        *)
(****************************************************************************)
EXTENDS SdoWorkspace, SequenceTheorems, FiniteSetTheorems, WellFoundedInduction, TLAPS

-----------------------------------------------------------------------------
(* The inductive invariant. *)

TableItem == [key : Keys, value : Values]
Row == [key : Keys, value : Texts, status : Statuses]

DialogType(d) == /\ d.kind = "row" => d.value \in Texts
                 /\ d.kind \in {"write", "row"} => d.key \in Keys

Typed ==
  /\ clock \in Nat /\ field \in Texts /\ rows \in Seq(Row)
  /\ writes \in [Keys -> Pending(Texts)]
  /\ verifications \in [Keys -> Pending([expected : Texts, written : Nat])]
  /\ DOMAIN evidence = Keys
  /\ dialog # None => DialogType(dialog)

(* Answers come in the order the daemon gave them, and a lost connection has none. *)
AnswersInOrder ==
  /\ \E S : replies \in Seq(S)
  /\ \A i \in 1 .. Len(replies) : replies[i].at \in 1 .. clock
  /\ \A i, j \in 1 .. Len(replies) : i < j => replies[i].at < replies[j].at
  /\ link # "up" => replies = <<>>

(* Every answer still to come was given after the write that waits for one. *)
ReadsComeAfter ==
  \A k \in Keys : verifications[k] # None =>
    /\ verifications[k].written <= clock
    /\ \A i \in 1 .. Len(replies) : verifications[k].written < replies[i].at

SdoInv == Typed /\ AnswersInOrder /\ ReadsComeAfter /\ OkIsReadBack /\ WaitingIsPending

LEMMA TextsType == Texts = Values \cup {Blank} /\ Values \subseteq Texts /\ None \notin Texts
BY SdoAssumption DEF Texts

LEMMA VerificationIsSome ==
  ASSUME NEW e \in Texts, NEW t \in Nat PROVE [expected |-> e, written |-> t] # None
BY SdoAssumption, TextsType

LEMMA SdoInit == Init => SdoInv
<1> SUFFICES ASSUME Init PROVE SdoInv  OBVIOUS
<1> USE SdoAssumption, TextsType DEF Init
<1>1. rows \in Seq(Row)
  <2>1. Table \in Seq(TableItem)  BY DEF TableItem
  <2>2. /\ Len(Table) \in Nat /\ DOMAIN Table = 1 .. Len(Table)
        /\ \A r \in DOMAIN Table : Table[r] \in TableItem
    BY <2>1, Zenon, ElementOfSeq, LenProperties
  <2>3. \A r \in DOMAIN Table : [key |-> Table[r].key, value |-> Table[r].value, status |-> "Pending"] \in Row
    BY <2>2 DEF Row, TableItem, Statuses, Texts
  <2>4. rows = [r \in 1 .. Len(Table) |-> [key |-> Table[r].key, value |-> Table[r].value, status |-> "Pending"]]
    BY <2>2
  <2> HIDE DEF Init
  <2> QED BY <2>2, <2>3, <2>4
<1>2. field \in Texts  BY DEF Texts
<1>3. Typed
  <2>1. writes \in [Keys -> Pending(Texts)]  BY DEF Pending
  <2>2. verifications \in [Keys -> Pending([expected : Texts, written : Nat])]  BY DEF Pending
  <2>3. DOMAIN evidence = Keys  OBVIOUS
  <2> QED BY <1>1, <1>2, <2>1, <2>2, <2>3 DEF Typed
<1>4. AnswersInOrder /\ ReadsComeAfter  BY DEF AnswersInOrder, ReadsComeAfter
<1>5. OkIsReadBack /\ WaitingIsPending  BY DEF OkIsReadBack, WaitingIsPending
<1> QED BY <1>3, <1>4, <1>5 DEF SdoInv

-----------------------------------------------------------------------------
(* Steps of the user, and of the client, that leave the answers and what is    *)
(* compared with them alone.                                                   *)
LEMMA AwayFromAnswers ==
  ASSUME SdoInv, UNCHANGED <<link, clock, replies, verifications, verdict>>,
         Typed', WaitingIsPending'
  PROVE  SdoInv'
BY DEF SdoInv, AnswersInOrder, ReadsComeAfter, OkIsReadBack

(* A change of statuses leaves the rows rows. *)
LEMMA SetStatusType ==
  ASSUME rows \in Seq(Row), NEW S, NEW status \in Statuses PROVE SetStatus(S, status) \in Seq(Row)
<1>1. Len(rows) \in Nat /\ DOMAIN rows = 1 .. Len(rows) /\ \A r \in DOMAIN rows : rows[r] \in Row
  OBVIOUS
<1>2. \A r \in DOMAIN rows : [rows[r] EXCEPT !.status = status] \in Row  BY <1>1 DEF Row
<1> QED BY <1>1, <1>2 DEF SetStatus

LEMMA WriteStep ==
  ASSUME SdoInv, NEW k, writes' = [writes EXCEPT ![k] = field],
         evidence' = [evidence EXCEPT ![k] = "Write Pending"],
         UNCHANGED <<link, clock, replies, verifications, verdict, field, rows, cleared>>,
         dialog' = None
  PROVE  SdoInv'
<1> USE DEF SdoInv
<1>1. Typed'  BY DEF Typed, Pending
<1>2. WaitingIsPending'  BY TextsType DEF WaitingIsPending, Typed
<1> QED BY <1>1, <1>2, AwayFromAnswers

LEMMA writeCurrentSdoStep == ASSUME SdoInv, writeCurrentSdo PROVE SdoInv'
<1>1. Write(dialog.key) /\ dialog' = None  BY DEF writeCurrentSdo
<1>2. UNCHANGED <<link, clock, replies, verifications, verdict, field, rows, cleared>>
  BY DEF writeCurrentSdo, Write, daemon, bounds
<1> QED BY <1>1, <1>2, WriteStep DEF Write

LEMMA applyStartupSdoRowStep == ASSUME SdoInv, applyStartupSdoRow PROVE SdoInv'
<1> USE DEF SdoInv, applyStartupSdoRow
<1>1. UNCHANGED <<link, clock, replies, verifications, verdict, field, evidence, cleared>>
  BY DEF daemon, bounds
<1>2. dialog.value \in Texts  BY TextsType DEF Typed, DialogType
<1>3. rows' \in Seq(Row)  BY SetStatusType DEF Typed, Statuses
<1>4. writes' = [writes EXCEPT ![dialog.key] = dialog.value] /\ dialog' = None  OBVIOUS
<1>5. Typed'  BY <1>1, <1>2, <1>3, <1>4 DEF Typed, Pending
<1>6. WaitingIsPending'  BY <1>1, <1>2, <1>4, TextsType DEF WaitingIsPending, Typed
<1> QED BY <1>1, <1>5, <1>6, AwayFromAnswers

(* Where only the table, the write field or the dialog change. *)
LEMMA TableStep ==
  ASSUME SdoInv,
         UNCHANGED <<link, clock, replies, verifications, verdict, writes, evidence, cleared>>,
         rows' \in Seq(Row), field' \in Texts,
         dialog' # None => DialogType(dialog')
  PROVE  SdoInv'
<1> USE DEF SdoInv
<1>1. Typed'  BY DEF Typed
<1>2. WaitingIsPending'  BY DEF WaitingIsPending
<1> QED BY <1>1, <1>2, AwayFromAnswers

LEMMA MovedRows ==
  ASSUME rows \in Seq(Row), NEW r \in DOMAIN rows
  PROVE  /\ SubSeq(rows, 1, r - 1) \o SubSeq(rows, r + 1, Len(rows)) \in Seq(Row)
         /\ r + 1 \in DOMAIN rows => [rows EXCEPT ![r] = rows[r + 1], ![r + 1] = rows[r]] \in Seq(Row)
<1>1. r \in 1 .. Len(rows) /\ Len(rows) \in Nat /\ \A i \in 1 .. Len(rows) : rows[i] \in Row
  OBVIOUS
<1>2. SubSeq(rows, 1, r - 1) \in Seq(Row) /\ SubSeq(rows, r + 1, Len(rows)) \in Seq(Row)
  BY <1>1
<1>3. r + 1 \in DOMAIN rows => [rows EXCEPT ![r] = rows[r + 1], ![r + 1] = rows[r]] \in Seq(Row)
  BY <1>1
<1> QED BY <1>2, <1>3

(* Everything the user does but writing and forgetting. *)
Arranges ==
  \/ \E k \in Keys : Watch(k) \/ addStartupSdo(k) \/ OpenWrite(k) \/ \E v \in Values : ServiceDownload(k, v)
  \/ \E v \in Texts : EditField(v)
  \/ \E r \in DOMAIN rows : \/ verifyStartupSdoRow(r) \/ OpenApplyRow(r) \/ RefuseBlanks({r})
                            \/ removeStartupSdo(r) \/ moveStartupSdoRow(r)
  \/ \E S \in Selections : OpenApply(S) \/ RefuseBlanks(S)
  \/ applyStartupSdoRows \/ Cancel \/ verifyStartupSdoList

LEMMA ArrangesStep == ASSUME SdoInv, Arranges PROVE SdoInv'
<1> USE DEF daemon, shown, pending, unstarted, bounds, wire, Starts, Moves
<1>t. rows \in Seq(Row) /\ field \in Texts
      /\ (dialog # None => DialogType(dialog))
  BY DEF SdoInv, Typed
<1> DEFINE Others == <<link, clock, replies, verifications, verdict, writes, evidence, cleared>>
<1>1. CASE \E k \in Keys : Watch(k) \/ \E v \in Values : ServiceDownload(k, v)
  <2>1. UNCHANGED Others /\ UNCHANGED <<rows, field, dialog>>
    BY <1>1 DEF Watch, ServiceDownload
  <2> QED BY <1>t, <2>1, TableStep
<1>2. CASE \E k \in Keys : addStartupSdo(k)
  <2>1. PICK k \in Keys : addStartupSdo(k)  BY <1>2
  <2>2. UNCHANGED Others /\ UNCHANGED <<field, dialog>>  BY <2>1 DEF addStartupSdo
  <2>4. [key |-> k, value |-> field, status |-> "Pending"] \in Row  BY <1>t DEF Row, Statuses
  <2>5. rows' \in Seq(Row)  BY <1>t, <2>1, <2>4 DEF addStartupSdo
  <2> QED BY <1>t, <2>2, <2>5, TableStep
<1>3. CASE \E k \in Keys : OpenWrite(k)
  <2>1. PICK k \in Keys : OpenWrite(k)  BY <1>3
  <2>2. UNCHANGED Others /\ UNCHANGED <<rows, field>>  BY <2>1 DEF OpenWrite
  <2>3. DialogType(dialog')  BY <2>1 DEF OpenWrite, DialogType
  <2> QED BY <1>t, <2>2, <2>3, TableStep
<1>4. CASE \E r \in DOMAIN rows : verifyStartupSdoRow(r)
  <2>1. PICK r \in DOMAIN rows : verifyStartupSdoRow(r)  BY <1>4
  <2>2. UNCHANGED Others /\ UNCHANGED <<field, dialog>>  BY <2>1 DEF verifyStartupSdoRow
  <2>3. rows' \in Seq(Row)  BY <1>t, <2>1, SetStatusType DEF verifyStartupSdoRow, Statuses
  <2> QED BY <1>t, <2>2, <2>3, TableStep
<1>5. CASE \E r \in DOMAIN rows : OpenApplyRow(r)
  <2>1. PICK r \in DOMAIN rows : OpenApplyRow(r)  BY <1>5
  <2>2. UNCHANGED Others /\ UNCHANGED <<rows, field>>  BY <2>1 DEF OpenApplyRow
  <2>3. rows[r].value \in Texts /\ rows[r].key \in Keys
    <3>1. rows[r] \in Row  BY <1>t
    <3> QED BY <3>1 DEF Row
  <2>4. DialogType(dialog')  BY <2>1, <2>3 DEF OpenApplyRow, DialogType
  <2> QED BY <1>t, <2>2, <2>3, <2>4, TableStep
<1>6. CASE \E r \in DOMAIN rows : removeStartupSdo(r) \/ moveStartupSdoRow(r)
  <2>1. PICK r \in DOMAIN rows : removeStartupSdo(r) \/ moveStartupSdoRow(r)  BY <1>6
  <2>2. UNCHANGED Others /\ UNCHANGED <<field, dialog>>
    BY <2>1 DEF removeStartupSdo, moveStartupSdoRow
  <2>3. rows' \in Seq(Row)  BY <1>t, <2>1, MovedRows DEF removeStartupSdo, moveStartupSdoRow
  <2> QED BY <1>t, <2>2, <2>3, TableStep
<1>7. CASE \E S \in Selections : OpenApply(S)
  <2>1. UNCHANGED Others /\ UNCHANGED <<rows, field>>  BY <1>7 DEF OpenApply
  <2>2. DialogType(dialog')  BY <1>7 DEF OpenApply, DialogType
  <2> QED BY <1>t, <2>1, <2>2, TableStep
<1>8. CASE applyStartupSdoRows
  <2>1. UNCHANGED Others /\ UNCHANGED field /\ dialog' = None  BY <1>8 DEF applyStartupSdoRows
  <2>2. rows' \in Seq(Row)  BY <1>t, <1>8, SetStatusType DEF applyStartupSdoRows, Statuses
  <2> QED BY <1>t, <2>1, <2>2, TableStep
<1>9. CASE Cancel
  <2>1. UNCHANGED Others /\ UNCHANGED <<rows, field>> /\ dialog' = None  BY <1>9 DEF Cancel
  <2> QED BY <1>t, <2>1, TableStep
<1>10. CASE verifyStartupSdoList
  <2>1. UNCHANGED Others /\ UNCHANGED <<field, dialog>>  BY <1>10 DEF verifyStartupSdoList
  <2>2. rows' \in Seq(Row)  BY <1>t, <1>10, SetStatusType DEF verifyStartupSdoList, Statuses
  <2> QED BY <1>t, <2>1, <2>2, TableStep
<1>11. CASE \E v \in Texts : EditField(v)
  <2>1. UNCHANGED Others /\ UNCHANGED <<rows, dialog>> /\ field' \in Texts  BY <1>11 DEF EditField
  <2> QED BY <1>t, <2>1, TableStep
<1>12. CASE \E S : RefuseBlanks(S)
  <2>1. UNCHANGED Others /\ UNCHANGED <<field, dialog>>  BY <1>12 DEF RefuseBlanks
  <2>2. rows' \in Seq(Row)  BY <1>t, <1>12, SetStatusType DEF RefuseBlanks, Statuses
  <2> QED BY <1>t, <2>1, <2>2, TableStep
<1> QED BY <1>1, <1>2, <1>3, <1>4, <1>5, <1>6, <1>7, <1>8, <1>9, <1>10, <1>11, <1>12 DEF Arranges

(* Forgetting what is pending: "cleared" is set, or the evidence goes as well. *)
LEMMA ForgetStep == ASSUME SdoInv, clearSdoHistory \/ clearOnlineViews PROVE SdoInv'
<1> USE DEF SdoInv, daemon, wire, ForgetPending
<1>1. /\ UNCHANGED <<link, clock, replies, rows, field, dialog>>
      /\ writes' = [k \in Keys |-> None] /\ verifications' = [k \in Keys |-> None] /\ verdict' = None
  BY DEF clearSdoHistory, clearOnlineViews
<1>2. DOMAIN evidence' = Keys  BY DEF clearSdoHistory, clearOnlineViews, Typed
<1>3. Typed'  BY <1>1, <1>2 DEF Typed, Pending
<1>4. WaitingIsPending'
  <2>1. CASE clearSdoHistory  BY <2>1 DEF clearSdoHistory, WaitingIsPending
  <2>2. CASE clearOnlineViews  BY <2>2 DEF clearOnlineViews, WaitingIsPending
  <2> QED BY <2>1, <2>2
<1>5. AnswersInOrder'  BY <1>1 DEF AnswersInOrder
<1>6. ReadsComeAfter' /\ OkIsReadBack'  BY <1>1 DEF ReadsComeAfter, OkIsReadBack
<1> QED BY <1>3, <1>4, <1>5, <1>6

-----------------------------------------------------------------------------
(* Without a connection nothing is on its way to the daemon. *)
NoFramesWithoutLink == link # "up" => requests = <<>>

LEMMA SentWithLink ==
  ASSUME NoFramesWithoutLink, UNCHANGED link,
         (link # "up" => UNCHANGED requests)
  PROVE  NoFramesWithoutLink'
BY DEF NoFramesWithoutLink

LEMMA FramesStep == ASSUME NoFramesWithoutLink, Next PROVE NoFramesWithoutLink'
<1> USE DEF wire, Send, SendAfter, Nothing, RequestRead, Write, DownloadComplete, Perform
<1>0. CASE (\E v \in Texts : EditField(v)) \/ \E S : RefuseBlanks(S)
  BY <1>0, SentWithLink DEF EditField, RefuseBlanks
<1>1. CASE \E k \in Keys : Watch(k) \/ OpenWrite(k) \/ \E v \in Values : ServiceDownload(k, v)
  BY <1>1, SentWithLink DEF Watch, OpenWrite, ServiceDownload
<1>2. CASE \E k \in Keys : addStartupSdo(k)  BY <1>2, SentWithLink DEF addStartupSdo
<1>3. CASE \E r \in DOMAIN rows : \/ verifyStartupSdoRow(r) \/ OpenApplyRow(r)
                                  \/ removeStartupSdo(r) \/ moveStartupSdoRow(r)
  BY <1>3, SentWithLink DEF verifyStartupSdoRow, OpenApplyRow, removeStartupSdo, moveStartupSdoRow
<1>4. CASE \E S \in Selections : OpenApply(S)  BY <1>4, SentWithLink DEF OpenApply
<1>5. CASE writeCurrentSdo \/ applyStartupSdoRow \/ applyStartupSdoRows \/ Cancel
  BY <1>5, SentWithLink DEF writeCurrentSdo, applyStartupSdoRow, applyStartupSdoRows, Cancel
<1>6. CASE verifyStartupSdoList \/ clearSdoHistory \/ clearOnlineViews
  BY <1>6, SentWithLink DEF verifyStartupSdoList, clearSdoHistory, clearOnlineViews, ForgetPending
<1>7. CASE Dispatch  BY <1>7 DEF Dispatch, NoFramesWithoutLink
<1>8. CASE DispatchOrphan  BY <1>8, SentWithLink DEF DispatchOrphan
<1>9. CASE Receive  BY <1>9, SentWithLink DEF Receive
<1>10. CASE CallLost  BY <1>10, SentWithLink DEF CallLost
<1>11. CASE flushPendingSdoState  BY <1>11 DEF flushPendingSdoState, NoFramesWithoutLink
<1>12. CASE Reconnect  BY <1>12 DEF Reconnect, NoFramesWithoutLink
<1>13. CASE Sweep  BY <1>13, SentWithLink DEF Sweep
<1>14. CASE Lose  BY <1>14 DEF Lose, NoFramesWithoutLink
<1> QED BY <1>0, <1>1, <1>2, <1>3, <1>4, <1>5, <1>6, <1>7, <1>8, <1>9, <1>10, <1>11, <1>12, <1>13, <1>14
       DEF Next, User, Daemon, Client, Faults

(* What the client waits for are reads and writes of objects. *)
IsKnown(call) == call.op \in {"upload", "download"} => call.key \in Keys

KnownKeys == \A h \in handlers : IsKnown(h.call)

LEMMA SentAreKnown ==
  ASSUME KnownKeys, NEW kept \in SUBSET handlers, NEW calls, \A i \in DOMAIN calls : IsKnown(calls[i]),
         SendAfter(kept, calls)
  PROVE  KnownKeys'
<1> DEFINE sent == [i \in DOMAIN calls |-> [id |-> nextId + i - 1, call |-> calls[i]]]
<1>0. DOMAIN sent = DOMAIN calls  OBVIOUS
<1>1. \A i \in DOMAIN calls : sent[i].call = calls[i]  OBVIOUS
<1>2. handlers' = kept \/ handlers' = kept \cup {sent[i] : i \in DOMAIN sent}  BY DEF SendAfter
<1> HIDE DEF sent
<1> SUFFICES ASSUME NEW h \in handlers' PROVE IsKnown(h.call)  BY DEF KnownKeys
<1>3. CASE h \in kept  BY <1>3 DEF KnownKeys
<1>4. CASE h \notin kept
  <2>1. PICK i \in DOMAIN sent : h = sent[i]  BY <1>2, <1>4
  <2>2. i \in DOMAIN calls /\ sent[i].call = calls[i]  BY <1>0, <1>1, <2>1
  <2>3. IsKnown(calls[i])  BY <2>2
  <2> QED BY <2>1, <2>2, <2>3 DEF IsKnown
<1> QED BY <1>3, <1>4

LEMMA KeptAreKnown == ASSUME KnownKeys, handlers' \subseteq handlers PROVE KnownKeys'
BY DEF KnownKeys

LEMMA CallsAreKnown ==
  ASSUME NEW k \in Keys, NEW v, NEW items
  PROVE  /\ \A i \in DOMAIN <<Upload(k)>> : IsKnown(<<Upload(k)>>[i])
         /\ \A i \in DOMAIN ReadBack(k) : IsKnown(ReadBack(k)[i])
         /\ \A i \in DOMAIN <<Download(k, v)>> : IsKnown(<<Download(k, v)>>[i])
         /\ \A i \in DOMAIN <<Apply(items)>> : IsKnown(<<Apply(items)>>[i])
BY DEF Upload, Download, Apply, ReadBack, IsKnown

LEMMA KeysStep == ASSUME SdoInv, KnownKeys, Next PROVE KnownKeys'
<1> USE DEF wire, Send, RequestRead
<1>t. /\ \A r \in DOMAIN rows : rows[r].key \in Keys
      /\ dialog # None => DialogType(dialog)
  <2>1. \A r \in DOMAIN rows : rows[r] \in Row  BY DEF SdoInv, Typed
  <2> QED BY <2>1 DEF Row, SdoInv, Typed
<1>1. CASE \E k \in Keys : Watch(k) \/ \E v \in Values : ServiceDownload(k, v)
  BY <1>1, CallsAreKnown, SentAreKnown DEF Watch, ServiceDownload
<1>0. CASE (\E v \in Texts : EditField(v)) \/ \E S : RefuseBlanks(S)
  BY <1>0, KeptAreKnown DEF EditField, RefuseBlanks
<1>2. CASE \E k \in Keys : addStartupSdo(k) \/ OpenWrite(k)
  BY <1>2, KeptAreKnown DEF addStartupSdo, OpenWrite
<1>3. CASE \E r \in DOMAIN rows : verifyStartupSdoRow(r)
  BY <1>t, <1>3, CallsAreKnown, SentAreKnown DEF verifyStartupSdoRow
<1>4. CASE \E r \in DOMAIN rows : OpenApplyRow(r) \/ removeStartupSdo(r) \/ moveStartupSdoRow(r)
  BY <1>4, KeptAreKnown DEF OpenApplyRow, removeStartupSdo, moveStartupSdoRow
<1>5. CASE (\E S \in Selections : OpenApply(S)) \/ Cancel \/ clearSdoHistory \/ clearOnlineViews
  BY <1>5, KeptAreKnown DEF OpenApply, Cancel, clearSdoHistory, clearOnlineViews, ForgetPending
<1>6. CASE writeCurrentSdo
  <2>1. dialog.key \in Keys  BY <1>t, <1>6 DEF writeCurrentSdo, DialogType
  <2> QED BY <1>6, <2>1, CallsAreKnown, SentAreKnown DEF writeCurrentSdo, Write
<1>7. CASE applyStartupSdoRow
  <2>1. dialog.key \in Keys  BY <1>t, <1>7 DEF applyStartupSdoRow, DialogType
  <2> QED BY <1>7, <2>1, CallsAreKnown, SentAreKnown DEF applyStartupSdoRow
<1>8. CASE applyStartupSdoRows
  <2>1. PICK items : SendAfter(handlers, <<Apply(items)>>)  BY <1>8 DEF applyStartupSdoRows
  <2>2. \A i \in DOMAIN <<Apply(items)>> : IsKnown(<<Apply(items)>>[i])  BY DEF Apply, IsKnown
  <2> QED BY <2>1, <2>2, SentAreKnown
<1>9. CASE verifyStartupSdoList
  <2> DEFINE calls == [r \in DOMAIN rows |-> Upload(rows[r].key)]
  <2>1. \A i \in DOMAIN calls : IsKnown(calls[i])  BY <1>t DEF Upload, IsKnown
  <2>2. SendAfter(handlers, calls)  BY <1>9 DEF verifyStartupSdoList
  <2> HIDE DEF calls
  <2> QED BY <2>1, <2>2, SentAreKnown
<1>10. CASE Dispatch \/ DispatchOrphan
  BY <1>10, KeptAreKnown DEF Dispatch, DispatchOrphan, Perform
<1>11. CASE Receive
  <2>1. CASE handlers' \subseteq handlers  BY <2>1, KeptAreKnown
  <2>2. CASE ~(handlers' \subseteq handlers)
    <3>1. PICK h \in handlers, kept \in SUBSET handlers :
            h.call.op = "download" /\ \E at : DownloadComplete(h.call.key, kept, at)
      BY <1>11, <2>2 DEF Receive, Nothing
    <3>2. h.call.key \in Keys  BY <3>1 DEF KnownKeys, IsKnown
    <3> QED BY <3>1, <3>2, CallsAreKnown, SentAreKnown DEF DownloadComplete
  <2> QED BY <2>1, <2>2
<1>12. CASE CallLost
  <2>1. CASE handlers' \subseteq handlers  BY <2>1, KeptAreKnown
  <2>2. CASE ~(handlers' \subseteq handlers)
    <3>1. PICK h \in handlers, kept \in SUBSET handlers :
            h.call.op = "download" /\ \E at : DownloadComplete(h.call.key, kept, at)
      BY <1>12, <2>2 DEF CallLost, Nothing
    <3>2. h.call.key \in Keys  BY <3>1 DEF KnownKeys, IsKnown
    <3> QED BY <3>1, <3>2, CallsAreKnown, SentAreKnown DEF DownloadComplete
  <2> QED BY <2>1, <2>2
<1>13. CASE flushPendingSdoState \/ Reconnect \/ Lose
  BY <1>13, KeptAreKnown DEF flushPendingSdoState, Reconnect, Lose
<1>14. CASE Sweep  BY <1>14, KeptAreKnown DEF Sweep, Nothing
<1> QED BY <1>0, <1>1, <1>2, <1>3, <1>4, <1>5, <1>6, <1>7, <1>8, <1>9, <1>10, <1>11, <1>12, <1>13, <1>14
       DEF Next, User, Daemon, Client, Faults

-----------------------------------------------------------------------------
(* The daemon's clock moves on, and an answer given is the latest. *)
LEMMA PerformStep ==
  ASSUME SdoInv, NEW q, NEW live \in BOOLEAN, Perform(q, live),
         live => link = "up"
  PROVE  SdoInv'
<1> USE DEF SdoInv, Perform
<1>1. PICK result :
        replies' = IF live THEN Append(replies, [id |-> q.id, at |-> clock + 1, result |-> result]) ELSE replies
  BY DEF upload, download, Refuse, applyStartupSdos, Answer
<1>2. /\ clock' = clock + 1 /\ clock \in Nat
      /\ UNCHANGED <<link, writes, verifications, evidence, rows, verdict, field, dialog, cleared>>
  BY DEF pending, shown, Typed
<1>3. Typed' /\ WaitingIsPending'
  <2>1. Typed /\ WaitingIsPending  OBVIOUS
  <2> HIDE DEF SdoInv, Perform
  <2>2. Typed'
    <3>1. clock' \in Nat  BY <1>2
    <3>2. /\ writes' = writes /\ verifications' = verifications /\ evidence' = evidence
          /\ rows' = rows /\ field' = field /\ dialog' = dialog
      BY <1>2
    <3> QED BY <2>1, <3>1, <3>2, Zenon DEF Typed
  <2>3. WaitingIsPending'  BY <1>2, <2>1 DEF WaitingIsPending
  <2> QED BY <2>2, <2>3
<1>4. OkIsReadBack'  BY <1>2 DEF OkIsReadBack
<1>5. PICK S : replies \in Seq(S)  BY DEF AnswersInOrder
<1> DEFINE x == [id |-> q.id, at |-> clock + 1, result |-> result]
<1>6. CASE ~live
  <2>1. replies' = replies  BY <1>1, <1>6
  <2>2. AnswersInOrder'  BY <1>2, <2>1 DEF AnswersInOrder
  <2>3. ReadsComeAfter'  BY <1>2, <2>1 DEF ReadsComeAfter, Typed, Pending
  <2> QED BY <1>3, <1>4, <2>2, <2>3
<1>7. CASE live
  <2>1. replies' = Append(replies, x)  BY <1>1, <1>7
  <2>2. x.at = clock + 1  OBVIOUS
  <2> HIDE DEF x
  <2>3. replies \in Seq(S \cup {x}) /\ x \in S \cup {x}
    BY <1>5, SeqMonotonic
  <2>4. /\ replies' \in Seq(S \cup {x}) /\ Len(replies') = Len(replies) + 1 /\ Len(replies) \in Nat
        /\ \A i \in 1 .. Len(replies) : replies'[i] = replies[i]
        /\ replies'[Len(replies) + 1] = x
    BY <2>1, <2>3
  <2>5. \A i \in 1 .. Len(replies) : replies[i].at \in 1 .. clock  BY DEF AnswersInOrder
  <2>6. \A i \in 1 .. Len(replies') : replies'[i].at \in 1 .. clock'
    BY <1>2, <2>2, <2>4, <2>5
  <2>7. \A i, j \in 1 .. Len(replies') : i < j => replies'[i].at < replies'[j].at
    <3> SUFFICES ASSUME NEW i \in 1 .. Len(replies'), NEW j \in 1 .. Len(replies'), i < j
                 PROVE  replies'[i].at < replies'[j].at
      OBVIOUS
    <3>1. i \in 1 .. Len(replies) /\ replies'[i].at = replies[i].at  BY <2>4
    <3>2. CASE j = Len(replies) + 1  BY <1>2, <2>2, <2>4, <2>5, <3>1, <3>2
    <3>3. CASE j # Len(replies) + 1
      <4>1. j \in 1 .. Len(replies) /\ replies'[j] = replies[j]  BY <2>4, <3>3
      <4> QED BY <3>1, <4>1 DEF AnswersInOrder
    <3> QED BY <3>2, <3>3
  <2>8. AnswersInOrder'  BY <1>2, <1>7, <2>4, <2>6, <2>7 DEF AnswersInOrder
  <2>9. ReadsComeAfter'
    <3> SUFFICES ASSUME NEW k \in Keys, verifications[k] # None
                 PROVE  /\ verifications[k].written <= clock'
                        /\ \A i \in 1 .. Len(replies') : verifications[k].written < replies'[i].at
      BY <1>2 DEF ReadsComeAfter
    <3>1. verifications[k].written \in Nat  BY DEF Typed, Pending
    <3>2. /\ verifications[k].written <= clock
          /\ \A i \in 1 .. Len(replies) : verifications[k].written < replies[i].at
      BY DEF ReadsComeAfter
    <3> QED BY <1>2, <2>2, <2>4, <3>1, <3>2
  <2> QED BY <1>3, <1>4, <2>8, <2>9
<1> QED BY <1>6, <1>7

LEMMA DaemonStep == ASSUME SdoInv, NoFramesWithoutLink, Daemon PROVE SdoInv'
<1>1. CASE Dispatch
  <2>1. link = "up" /\ Perform(Head(requests), TRUE)  BY <1>1 DEF Dispatch, NoFramesWithoutLink
  <2> QED BY <2>1, PerformStep
<1>2. CASE DispatchOrphan
  <2>1. Perform(Head(orphans), FALSE)  BY <1>2 DEF DispatchOrphan
  <2> QED BY <2>1, PerformStep
<1> QED BY <1>1, <1>2 DEF Daemon

-----------------------------------------------------------------------------
(* The client: an answer is taken from the front, and every one behind it is *)
(* later.                                                                    *)
Later == \A k \in Keys : verifications[k] # None =>
           \A i \in 1 .. Len(replies') : verifications[k].written < replies'[i].at

LEMMA FrontIsEarliest ==
  ASSUME SdoInv, replies # <<>>, replies' = Tail(replies), UNCHANGED <<link, clock>>
  PROVE  /\ AnswersInOrder' /\ Later
         /\ Head(replies).at \in 1 .. clock
         /\ \A i \in 1 .. Len(replies') : Head(replies).at < replies'[i].at
         /\ \A k \in Keys : verifications[k] # None => verifications[k].written < Head(replies).at
<1>1. PICK S : replies \in Seq(S)  BY DEF SdoInv, AnswersInOrder
<1>2. /\ replies' \in Seq(S) /\ Len(replies') = Len(replies) - 1 /\ Len(replies) \in Nat \ {0}
      /\ \A i \in 1 .. Len(replies') : replies'[i] = replies[i + 1]
      /\ Head(replies) = replies[1]
  BY <1>1
<1>3. /\ \A i \in 1 .. Len(replies) : replies[i].at \in 1 .. clock
      /\ \A i, j \in 1 .. Len(replies) : i < j => replies[i].at < replies[j].at
      /\ link # "up" => replies = <<>>
  BY DEF SdoInv, AnswersInOrder
<1>4. \A i \in 1 .. Len(replies') : i + 1 \in 1 .. Len(replies) /\ 1 < i + 1  BY <1>2
<1>5. \A i \in 1 .. Len(replies') : replies'[i].at \in 1 .. clock'  BY <1>2, <1>3, <1>4
<1>6. \A i, j \in 1 .. Len(replies') : i < j => replies'[i].at < replies'[j].at
  BY <1>2, <1>3, <1>4
<1>7. link' = "up"  BY <1>3
<1>8. AnswersInOrder'  BY <1>2, <1>5, <1>6, <1>7 DEF AnswersInOrder
<1>9. 1 \in 1 .. Len(replies)  BY <1>2
<1>10. \A k \in Keys : verifications[k] # None =>
         \A i \in 1 .. Len(replies) : verifications[k].written < replies[i].at
  BY DEF SdoInv, ReadsComeAfter
<1>11. Later  BY <1>2, <1>4, <1>10 DEF Later
<1> QED BY <1>2, <1>3, <1>4, <1>8, <1>9, <1>10, <1>11

LEMMA VerdictRows ==
  ASSUME rows \in Seq(Row), NEW k, NEW v, NEW A, NEW F
  PROVE  /\ Judged(k, v) \in Seq(Row)
         /\ startupSdoResults(A, F) => rows' \in Seq(Row)
<1>1. Len(rows) \in Nat /\ DOMAIN rows = 1 .. Len(rows) /\ \A r \in DOMAIN rows : rows[r] \in Row
  OBVIOUS
<1>2. \A r \in DOMAIN rows, s \in Statuses : [rows[r] EXCEPT !.status = s] \in Row  BY <1>1 DEF Row
<1>3. {"Verified", "Mismatch", "Applied", "Failed"} \subseteq Statuses  BY DEF Statuses
<1>4. Judged(k, v) \in Seq(Row)  BY <1>1, <1>2, <1>3 DEF Judged
<1>5. startupSdoResults(A, F) => rows' \in Seq(Row)  BY <1>1, <1>2, <1>3 DEF startupSdoResults
<1> QED BY <1>4, <1>5

LEMMA ResponseStep ==
  ASSUME SdoInv, AnswersInOrder', Later, UNCHANGED <<link, clock, field, dialog, cleared>>,
         NEW k \in Keys, NEW v, NEW at, handleSdoValueResponse(k, v, at),
         v # Blank /\ verifications[k] # None => at > verifications[k].written
  PROVE  SdoInv'
<1>1. /\ verifications' = [verifications EXCEPT ![k] = None] /\ UNCHANGED writes /\ rows' = Judged(k, v)
      /\ \E s \in {"Complete", "OK", "Failed"} : evidence' = [evidence EXCEPT ![k] = s]
  BY DEF handleSdoValueResponse
<1>2. Typed'
  <2>1. Typed /\ rows' \in Seq(Row)  BY <1>1, VerdictRows DEF SdoInv, Typed
  <2>2. verifications' \in [Keys -> Pending([expected : Texts, written : Nat])]
    BY <1>1, <2>1 DEF Typed, Pending
  <2>3. DOMAIN evidence' = Keys  BY <1>1, <2>1 DEF Typed
  <2>4. /\ clock' = clock /\ writes' = writes /\ field' = field /\ dialog' = dialog  BY <1>1
  <2> QED BY <2>1, <2>2, <2>3, <2>4 DEF Typed
<1>3. ReadsComeAfter'  BY <1>1 DEF ReadsComeAfter, Later, SdoInv, Typed
<1>4. WaitingIsPending'  BY <1>1 DEF WaitingIsPending, SdoInv, Typed
<1>5. OkIsReadBack'
  <2> SUFFICES ASSUME verdict' # None, verdict'.ok, verdict'.expected # Blank
               PROVE  verdict'.read > verdict'.written
    BY DEF OkIsReadBack
  <2>1. CASE verdict' = verdict  BY <2>1 DEF OkIsReadBack, SdoInv
  <2>2. CASE verdict' # verdict
    <3>1. /\ verifications[k] # None
          /\ verdict' = [ok |-> verifications[k].expected = v, expected |-> verifications[k].expected,
                         read |-> at, written |-> verifications[k].written]
      BY <2>2 DEF handleSdoValueResponse
    <3>2. verifications[k].expected = v /\ verdict'.expected = v  BY <3>1
    <3>3. verdict'.read = at /\ verdict'.written = verifications[k].written  BY <3>1
    <3> QED BY <3>1, <3>2, <3>3
  <2> QED BY <2>1, <2>2
<1> QED BY <1>2, <1>3, <1>4, <1>5 DEF SdoInv

LEMMA CompleteStep ==
  ASSUME SdoInv, AnswersInOrder', Later, UNCHANGED <<link, clock, field, dialog, cleared>>,
         NEW k, NEW kept, NEW at \in 0 .. clock, DownloadComplete(k, kept, at),
         \A i \in 1 .. Len(replies') : at < replies'[i].at
  PROVE  SdoInv'
<1>1. /\ writes' = [writes EXCEPT ![k] = None] /\ evidence' = [evidence EXCEPT ![k] = "Write OK"]
      /\ verifications' = [verifications EXCEPT ![k] = [expected |-> Written(k), written |-> at]]
      /\ UNCHANGED <<rows, verdict>>
  BY DEF DownloadComplete
<1>2. Typed  BY DEF SdoInv
<1>3. at \in Nat /\ at <= clock  BY <1>2 DEF Typed
<1>4. k \in Keys => Written(k) \in Texts  BY <1>2 DEF Written, Typed, Pending
<1> DEFINE x == [expected |-> Written(k), written |-> at]
<1>5. k \in Keys => x # None /\ x \in [expected : Texts, written : Nat]
  BY <1>3, <1>4, VerificationIsSome
<1>6. x.written = at  OBVIOUS
<1> HIDE DEF x
<1>7. Typed'
  <2>1. verifications' \in [Keys -> Pending([expected : Texts, written : Nat])]
    BY <1>1, <1>2, <1>5 DEF Typed, Pending, x
  <2>2. writes' \in [Keys -> Pending(Texts)]  BY <1>1, <1>2 DEF Typed, Pending
  <2>3. DOMAIN evidence' = Keys  BY <1>1, <1>2 DEF Typed
  <2>4. /\ clock' = clock /\ rows' = rows /\ field' = field /\ dialog' = dialog  BY <1>1
  <2> QED BY <1>2, <2>1, <2>2, <2>3, <2>4 DEF Typed
<1>8. verifications' = [verifications EXCEPT ![k] = x]  BY <1>1 DEF x
<1>9. ReadsComeAfter'
  <2> SUFFICES ASSUME NEW j \in Keys, verifications'[j] # None
               PROVE  /\ verifications'[j].written <= clock
                      /\ \A i \in 1 .. Len(replies') : verifications'[j].written < replies'[i].at
    BY DEF ReadsComeAfter
  <2>1. CASE j = k  BY <1>2, <1>3, <1>6, <1>8, <2>1 DEF Typed
  <2>2. CASE j # k
    <3>1. verifications'[j] = verifications[j]  BY <1>2, <1>8, <2>2 DEF Typed
    <3> QED BY <3>1 DEF Later, SdoInv, ReadsComeAfter
  <2> QED BY <2>1, <2>2
<1>10. WaitingIsPending'  BY <1>1, <1>2, <1>5, <1>8 DEF WaitingIsPending, SdoInv, Typed
<1>11. OkIsReadBack'  BY <1>1 DEF OkIsReadBack, SdoInv
<1> QED BY <1>7, <1>9, <1>10, <1>11 DEF SdoInv

LEMMA ReceiveStep == ASSUME SdoInv, KnownKeys, Receive PROVE SdoInv'
<1> USE DEF daemon, pending, shown, bounds
<1>1. /\ replies # <<>> /\ replies' = Tail(replies) /\ UNCHANGED <<link, clock, field, dialog, cleared>>
  BY DEF Receive
<1>2. /\ AnswersInOrder' /\ Later /\ Head(replies).at \in 1 .. clock
      /\ \A i \in 1 .. Len(replies') : Head(replies).at < replies'[i].at
      /\ \A k \in Keys : verifications[k] # None => verifications[k].written < Head(replies).at
  BY <1>1, FrontIsEarliest
<1>3. clock \in Nat /\ Typed /\ ReadsComeAfter /\ OkIsReadBack /\ WaitingIsPending
  BY DEF SdoInv, Typed
<1>4. CASE UNCHANGED <<writes, verifications, verdict, evidence>> /\ rows' \in Seq(Row)
  <2>1. Typed' /\ WaitingIsPending'  BY <1>1, <1>3, <1>4 DEF Typed, WaitingIsPending
  <2>2. ReadsComeAfter'  BY <1>1, <1>2, <1>3, <1>4 DEF ReadsComeAfter, Later
  <2>3. OkIsReadBack'  BY <1>3, <1>4 DEF OkIsReadBack
  <2> QED BY <1>2, <2>1, <2>2, <2>3 DEF SdoInv
<1>5. ASSUME NEW h \in handlers, h.call.op = "upload", NEW v,
             handleSdoValueResponse(h.call.key, v, Head(replies).at)
      PROVE  SdoInv'
  <2>1. h.call.key \in Keys  BY <1>5 DEF KnownKeys, IsKnown
  <2>2. verifications[h.call.key] # None => Head(replies).at > verifications[h.call.key].written
    <3> SUFFICES ASSUME verifications[h.call.key] # None
                 PROVE  Head(replies).at > verifications[h.call.key].written
      OBVIOUS
    <3>1. verifications[h.call.key].written < Head(replies).at  BY <1>2, <2>1
    <3>2. verifications[h.call.key].written \in Nat  BY <1>3, <2>1 DEF Typed, Pending
    <3>3. Head(replies).at \in Nat  BY <1>2, <1>3
    <3> QED BY <3>1, <3>2, <3>3
  <2> QED BY <1>1, <1>2, <1>5, <2>1, <2>2, ResponseStep
<1>6. ASSUME NEW h \in handlers, NEW kept, DownloadComplete(h.call.key, kept, Head(replies).at)
      PROVE  SdoInv'
  <2>1. Head(replies).at \in 0 .. clock  BY <1>2, <1>3
  <2> QED BY <1>1, <1>2, <1>6, <2>1, CompleteStep
<1>7. CASE \E kept : Nothing(kept)
  <2>1. UNCHANGED <<writes, verifications, verdict, evidence, rows>>  BY <1>7 DEF Nothing
  <2> QED BY <1>3, <1>4, <2>1 DEF Typed
<1>8. ASSUME NEW A, NEW F, startupSdoResults(A, F), UNCHANGED <<pending, evidence, verdict>>
      PROVE  SdoInv'
  <2>1. rows' \in Seq(Row)  BY <1>3, <1>8, VerdictRows DEF Typed
  <2> QED BY <1>4, <1>8, <2>1
<1> QED BY <1>5, <1>6, <1>7, <1>8 DEF Receive

LEMMA CallLostStep == ASSUME SdoInv, KnownKeys, CallLost PROVE SdoInv'
<1> USE DEF daemon, pending, shown, bounds
<1>1. link = "losing" /\ UNCHANGED <<link, replies, clock, field, dialog, cleared>>  BY DEF CallLost
<1>2. replies = <<>>  BY <1>1 DEF SdoInv, AnswersInOrder
<1>3. AnswersInOrder' /\ Later  BY <1>1, <1>2 DEF SdoInv, AnswersInOrder, Later
<1>4. PICK h \in handlers :
        \/ h.call.op = "upload" /\ handleSdoValueResponse(h.call.key, Blank, clock)
        \/ DownloadComplete(h.call.key, handlers \ {h}, clock)
        \/ Nothing(handlers \ {h})
  BY DEF CallLost
<1>5. CASE h.call.op = "upload" /\ handleSdoValueResponse(h.call.key, Blank, clock)
  <2>1. h.call.key \in Keys  BY <1>5 DEF KnownKeys, IsKnown
  <2> QED BY <1>1, <1>3, <1>5, <2>1, ResponseStep
<1>6. CASE DownloadComplete(h.call.key, handlers \ {h}, clock)
  <2>1. clock \in 0 .. clock  BY DEF SdoInv, Typed
  <2>2. \A i \in 1 .. Len(replies') : clock < replies'[i].at  BY <1>1, <1>2
  <2> QED BY <1>1, <1>3, <1>6, <2>1, <2>2, CompleteStep
<1>7. CASE Nothing(handlers \ {h})
  <2>1. UNCHANGED <<writes, verifications, verdict, evidence, rows>>  BY <1>7 DEF Nothing
  <2>2. Typed' /\ WaitingIsPending'  BY <1>1, <2>1 DEF SdoInv, Typed, WaitingIsPending
  <2> QED BY <1>1, <2>1, <2>2, AwayFromAnswers
<1> QED BY <1>4, <1>5, <1>6, <1>7

LEMMA FlushStep == ASSUME SdoInv, flushPendingSdoState PROVE SdoInv'
<1> USE DEF wire, daemon, bounds, flushPendingSdoState
<1>1. /\ link = "losing" /\ link' = "down" /\ UNCHANGED <<replies, clock, rows, field, dialog>>
      /\ writes' = [k \in Keys |-> None] /\ verifications' = [k \in Keys |-> None]
  OBVIOUS
<1>2. Typed'
  <2>1. Typed  BY DEF SdoInv
  <2>2. DOMAIN evidence' = Keys  OBVIOUS
  <2> QED BY <1>1, <2>1, <2>2 DEF Typed, Pending
<1>3. AnswersInOrder'  BY <1>1 DEF AnswersInOrder, SdoInv
<1>4. ReadsComeAfter'  BY <1>1 DEF ReadsComeAfter
<1>5. WaitingIsPending'
  <2> SUFFICES ASSUME ~cleared', NEW k \in Keys
               PROVE  evidence'[k] # "Write Pending" /\ evidence'[k] # "Write OK"
    BY DEF WaitingIsPending
  <2>1. evidence'[k] = IF k \in reads \/ writes[k] # None \/ verifications[k] # None
                         THEN "Failed" ELSE evidence[k]
    OBVIOUS
  <2>2. ~cleared  OBVIOUS
  <2> HIDE DEF flushPendingSdoState
  <2>3. /\ evidence[k] = "Write Pending" => writes[k] # None
        /\ evidence[k] = "Write OK" => verifications[k] # None
    BY <2>2 DEF SdoInv, WaitingIsPending
  <2> QED BY <2>1, <2>3
<1>6. OkIsReadBack'
  <2>1. CASE UNCHANGED verdict  BY <2>1 DEF OkIsReadBack, SdoInv
  <2>2. CASE \E k \in Keys : verdict' = [ok |-> FALSE, expected |-> verifications[k].expected,
                                        read |-> clock, written |-> verifications[k].written]
    BY <2>2 DEF OkIsReadBack
  <2> QED BY <2>1, <2>2
<1> QED BY <1>2, <1>3, <1>4, <1>5, <1>6 DEF SdoInv

LEMMA LinkStep == ASSUME SdoInv, Sweep \/ Lose \/ Reconnect PROVE SdoInv'
<1> USE DEF wire, daemon, pending, shown, bounds, SdoInv
<1>1. UNCHANGED <<clock, writes, verifications, evidence, rows, verdict, field, dialog, cleared>>
  BY DEF Sweep, Lose, Reconnect, Nothing
<1>2. Typed' /\ WaitingIsPending' /\ OkIsReadBack'
  BY <1>1 DEF Typed, WaitingIsPending, OkIsReadBack
<1>3. CASE replies' = <<>>
  BY <1>1, <1>2, <1>3 DEF AnswersInOrder, ReadsComeAfter
<1>4. CASE UNCHANGED replies /\ (link' = link \/ link' = "up")
  BY <1>1, <1>2, <1>4 DEF AnswersInOrder, ReadsComeAfter
<1> QED BY <1>3, <1>4 DEF Sweep, Lose, Reconnect

-----------------------------------------------------------------------------
SdoInvariantParts == SdoInv /\ NoFramesWithoutLink /\ KnownKeys

LEMMA SdoStep == ASSUME SdoInvariantParts, [Next]_vars PROVE SdoInvariantParts'
<1> USE DEF SdoInvariantParts
<1>1. CASE Next
  <2>1. SdoInv'
    <3>1. CASE Arranges  BY <3>1, ArrangesStep
    <3>2. CASE writeCurrentSdo  BY <3>2, writeCurrentSdoStep
    <3>3. CASE applyStartupSdoRow  BY <3>3, applyStartupSdoRowStep
    <3>4. CASE clearSdoHistory \/ clearOnlineViews  BY <3>4, ForgetStep
    <3>5. CASE Daemon  BY <3>5, DaemonStep
    <3>6. CASE Receive  BY <3>6, ReceiveStep
    <3>7. CASE CallLost  BY <3>7, CallLostStep
    <3>8. CASE flushPendingSdoState  BY <3>8, FlushStep
    <3>9. CASE Sweep \/ Lose \/ Reconnect  BY <3>9, LinkStep
    <3> QED BY <1>1, <3>1, <3>2, <3>3, <3>4, <3>5, <3>6, <3>7, <3>8, <3>9
            DEF Next, User, Client, Faults, Arranges
  <2> QED BY <1>1, <2>1, FramesStep, KeysStep
<1>2. CASE UNCHANGED vars
  <2> USE <1>2 DEF vars, wire, daemon, pending, shown, bounds, SdoInv
  <2>1. Typed' /\ WaitingIsPending'  BY DEF Typed, WaitingIsPending
  <2>2. NoFramesWithoutLink' /\ KnownKeys'  BY DEF NoFramesWithoutLink, KnownKeys
  <2> QED BY <2>1, <2>2, AwayFromAnswers
<1> QED BY <1>1, <1>2

(* The inductive invariant holds throughout. *)
THEOREM SdoInvariant == Spec => []SdoInvariantParts
<1>1. Init => SdoInvariantParts
  BY SdoInit DEF Init, SdoInvariantParts, NoFramesWithoutLink, KnownKeys
<1>2. SdoInvariantParts /\ [Next]_vars => SdoInvariantParts'  BY SdoStep
<1> QED BY <1>1, <1>2, PTL DEF Spec

(* What is shown as under way is still waited for, whatever is written, read,  *)
(* refused, swept or lost meanwhile (MainWindowWiring.cpp, the handlers of     *)
(* commandSucceeded, sdoValue and disconnected).                               *)
THEOREM ShownIsWaitedFor == Spec => []WaitingIsPending
<1>1. SdoInvariantParts => WaitingIsPending  BY DEF SdoInvariantParts, SdoInv
<1> QED BY <1>1, SdoInvariant, PTL

(* A write shown as verified was read back after the daemon performed it,      *)
(* whatever the user types or clears meanwhile, unless the text it was         *)
(* compared with is blank (handleSdoValueResponse).                            *)
THEOREM VerifiedIsReadBack == Spec => []OkIsReadBack
<1>1. SdoInvariantParts => OkIsReadBack  BY DEF SdoInvariantParts, SdoInv, OkIsReadBack
<1> QED BY <1>1, SdoInvariant, PTL

-----------------------------------------------------------------------------
(* The frames on their way, and the type invariant. *)

InLine(s) == {s[i] : i \in 1 .. Len(s)}
Rising(s) == \A i, j \in 1 .. Len(s) : i < j => s[i].id < s[j].id
Frames == InLine(requests) \cup InLine(orphans)

WireOK ==
  /\ nextId \in Nat /\ handlers \subseteq Sent /\ requests \in Seq(Sent) /\ orphans \in Seq(Sent)
  /\ \A h \in handlers : h.id < nextId
  /\ \A p \in InLine(replies) : p.id \in Nat /\ p.id < nextId
  /\ \A f \in Frames : f.id < nextId

LinkOK ==
  /\ link \in {"up", "losing", "down"}
  /\ link = "down" => handlers = {}

DaemonOK ==
  /\ object \in [Keys -> Values] /\ performed \subseteq [id : Nat, item : Items]
  /\ \A d \in performed : d.id < nextId

(* What the dialog that is open asks about. *)
DialogOK ==
  \/ dialog = None
  \/ dialog.kind = "write" /\ dialog.key \in Keys /\ field \in Values
  \/ dialog.kind = "row" /\ dialog.key \in Keys /\ dialog.value \in Values /\ dialog.row \in 1 .. MaxRows
  \/ /\ dialog.kind = "rows" /\ dialog.rows \in Selections /\ dialog.rows \subseteq DOMAIN rows
     /\ \A r \in dialog.rows : rows[r].value \in Values

Evidence == {"none", "Complete", "OK", "Failed", "Write Pending", "Write OK"}

Verdicts == [ok : BOOLEAN, expected : Texts, read : Nat, written : Nat]

WindowOK ==
  /\ reads \subseteq Keys /\ writes \in [Keys -> Pending(Values)]
  /\ checks \in [Keys -> SUBSET (1 .. MaxRows)] /\ evidence \in [Keys -> Evidence]
  /\ Len(rows) <= MaxRows /\ verdict \in Pending(Verdicts)

TypeInv == SdoInvariantParts /\ WireOK /\ LinkOK /\ DaemonOK /\ WindowOK /\ DialogOK

(* Every frame on its way is there once, the oldest first, and not done yet; a *)
(* handler has the call of the frame with its id.                              *)
FramesAreOnce ==
  Rising(requests) /\ Rising(orphans) /\ \A f \in InLine(orphans), g \in InLine(requests) : f.id < g.id

FramesAreUndone ==
  \A f \in Frames : /\ \A d \in performed : d.id # f.id
                    /\ \A p \in InLine(replies) : p.id # f.id

HandlersKnowCalls == \A h \in handlers : \A g \in handlers \cup Frames : h.id = g.id => h = g

(* An application's items are the rows of the table they were made from. *)
ItemIsRow(items, i) ==
  /\ items[i].row = i
  /\ ~moved => i \in DOMAIN rows /\ items[i] = Item(i, rows[i].key, rows[i].value)

ItemsAreRows ==
  \A h \in handlers : h.call.op = "apply" => \A i \in DOMAIN h.call.items : ItemIsRow(h.call.items, i)

(* An answer to an application tells of each item whether it was written. *)
Tells(result, h) ==
  /\ \A i \in result.applied : [id |-> h.id, item |-> h.call.items[i]] \in performed
  /\ \A i \in result.failed : [id |-> h.id, item |-> h.call.items[i]] \notin performed
  /\ result.applied \cup result.failed \subseteq DOMAIN h.call.items

RepliesAreTrue ==
  \A p \in InLine(replies), h \in handlers :
    p.id = h.id /\ h.call.op = "apply" /\ p.result.ok => Tells(p.result, h)

VerdictInv == FramesAreOnce /\ FramesAreUndone /\ HandlersKnowCalls /\ ItemsAreRows /\ RepliesAreTrue

-----------------------------------------------------------------------------
(* Queues of frames. *)

LEMMA TailOfLine ==
  ASSUME NEW S, NEW s \in Seq(S), s # <<>>
  PROVE  /\ Tail(s) \in Seq(S) /\ Head(s) \in S /\ Head(s) \in InLine(s) /\ InLine(Tail(s)) \subseteq InLine(s)
         /\ Rising(s) => Rising(Tail(s)) /\ \A x \in InLine(Tail(s)) : Head(s).id < x.id
<1>1. /\ Len(s) \in Nat \ {0} /\ Tail(s) \in Seq(S) /\ Len(Tail(s)) = Len(s) - 1 /\ Head(s) = s[1]
      /\ \A i \in 1 .. Len(Tail(s)) : Tail(s)[i] = s[i + 1]
  OBVIOUS
<1>2. \A i \in 1 .. Len(Tail(s)) : i + 1 \in 1 .. Len(s) /\ 1 < i + 1  BY <1>1
<1>3. 1 \in 1 .. Len(s) /\ Head(s) \in S  BY <1>1
<1>4. Head(s) \in InLine(s) /\ InLine(Tail(s)) \subseteq InLine(s)  BY <1>1, <1>2, <1>3 DEF InLine
<1>5. ASSUME Rising(s) PROVE Rising(Tail(s)) /\ \A x \in InLine(Tail(s)) : Head(s).id < x.id
  <2>1. \A i \in 1 .. Len(Tail(s)) : Head(s).id < Tail(s)[i].id  BY <1>1, <1>2, <1>3, <1>5 DEF Rising
  <2>2. \A i, j \in 1 .. Len(Tail(s)) : i < j => Tail(s)[i].id < Tail(s)[j].id
    <3> SUFFICES ASSUME NEW i \in 1 .. Len(Tail(s)), NEW j \in 1 .. Len(Tail(s)), i < j
                 PROVE  Tail(s)[i].id < Tail(s)[j].id
      OBVIOUS
    <3>1. i + 1 \in 1 .. Len(s) /\ j + 1 \in 1 .. Len(s) /\ i + 1 < j + 1  BY <1>2, <1>1
    <3>2. s[i + 1].id < s[j + 1].id  BY <1>5, <3>1 DEF Rising
    <3> QED BY <1>1, <3>2
  <2> QED BY <2>1, <2>2 DEF Rising, InLine
<1> QED BY <1>1, <1>3, <1>4, <1>5

LEMMA LongerLine ==
  ASSUME NEW S, NEW s \in Seq(S), NEW x PROVE InLine(Append(s, x)) = InLine(s) \cup {x}
<1>1. /\ s \in Seq(S \cup {x}) /\ x \in S \cup {x}  BY SeqMonotonic
<1>2. /\ Len(s) \in Nat /\ Len(Append(s, x)) = Len(s) + 1 /\ Append(s, x)[Len(s) + 1] = x
      /\ \A i \in 1 .. Len(s) : Append(s, x)[i] = s[i]
  BY <1>1
<1>3. 1 .. Len(s) + 1 = (1 .. Len(s)) \cup {Len(s) + 1}  BY <1>2
<1> QED BY <1>2, <1>3 DEF InLine

LEMMA JoinedLine ==
  ASSUME NEW S, NEW s \in Seq(S), NEW t \in Seq(S)
  PROVE  /\ s \o t \in Seq(S) /\ InLine(s \o t) = InLine(s) \cup InLine(t)
         /\ Rising(s) /\ Rising(t) /\ (\A f \in InLine(s), g \in InLine(t) : f.id < g.id) => Rising(s \o t)
<1>1. /\ Len(s) \in Nat /\ Len(t) \in Nat /\ s \o t \in Seq(S) /\ Len(s \o t) = Len(s) + Len(t)
      /\ \A i \in 1 .. Len(s) + Len(t) : (s \o t)[i] = IF i <= Len(s) THEN s[i] ELSE t[i - Len(s)]
  OBVIOUS
<1>2. \A i \in 1 .. Len(s) + Len(t) : \/ i \in 1 .. Len(s) /\ (s \o t)[i] = s[i]
                                      \/ i - Len(s) \in 1 .. Len(t) /\ (s \o t)[i] = t[i - Len(s)]
  BY <1>1
<1>3. \A i \in 1 .. Len(s) : i \in 1 .. Len(s) + Len(t) /\ (s \o t)[i] = s[i]  BY <1>1
<1>4. \A i \in 1 .. Len(t) : i + Len(s) \in 1 .. Len(s) + Len(t) /\ (s \o t)[i + Len(s)] = t[i]  BY <1>1
<1>5. InLine(s \o t) = InLine(s) \cup InLine(t)
  <2>1. InLine(s \o t) \subseteq InLine(s) \cup InLine(t)  BY <1>1, <1>2 DEF InLine
  <2>2. InLine(s) \subseteq InLine(s \o t)  BY <1>1, <1>3 DEF InLine
  <2>3. \A i \in 1 .. Len(t) : t[i] \in InLine(s \o t)  BY <1>1, <1>4 DEF InLine
  <2>4. InLine(t) \subseteq InLine(s \o t)  BY <2>3 DEF InLine
  <2> QED BY <2>1, <2>2, <2>4
<1>6. ASSUME Rising(s), Rising(t), \A f \in InLine(s), g \in InLine(t) : f.id < g.id
      PROVE  Rising(s \o t)
  <2> SUFFICES ASSUME NEW i \in 1 .. Len(s) + Len(t), NEW j \in 1 .. Len(s) + Len(t), i < j
               PROVE  (s \o t)[i].id < (s \o t)[j].id
    BY <1>1 DEF Rising
  <2>1. CASE i \in 1 .. Len(s) /\ j \in 1 .. Len(s)  BY <1>3, <1>6, <2>1 DEF Rising
  <2>2. CASE i \in 1 .. Len(s) /\ j \notin 1 .. Len(s)
    <3>1. j - Len(s) \in 1 .. Len(t) /\ (s \o t)[j] = t[j - Len(s)]  BY <1>2, <2>2
    <3> QED BY <1>3, <1>6, <2>2, <3>1 DEF InLine
  <2>3. CASE i \notin 1 .. Len(s)
    <3>1. i - Len(s) \in 1 .. Len(t) /\ (s \o t)[i] = t[i - Len(s)]  BY <1>2, <2>3
    <3>2. j \notin 1 .. Len(s)  BY <1>1, <2>3
    <3>3. j - Len(s) \in 1 .. Len(t) /\ (s \o t)[j] = t[j - Len(s)]  BY <1>2, <3>2
    <3>4. i - Len(s) < j - Len(s)  BY <1>1
    <3> QED BY <1>6, <3>1, <3>3, <3>4 DEF Rising
  <2> QED BY <2>1, <2>2, <2>3
<1> QED BY <1>1, <1>5, <1>6

LEMMA PrefixOfLine ==
  ASSUME NEW S, NEW s \in Seq(S), NEW n \in 0 .. Len(s)
  PROVE  /\ SubSeq(s, 1, n) \in Seq(S) /\ InLine(SubSeq(s, 1, n)) \subseteq InLine(s)
         /\ Rising(s) => Rising(SubSeq(s, 1, n))
<1>1. /\ Len(s) \in Nat /\ n \in Nat /\ n <= Len(s) /\ SubSeq(s, 1, n) \in Seq(S) /\ Len(SubSeq(s, 1, n)) = n
      /\ \A i \in 1 .. n : SubSeq(s, 1, n)[i] = s[i] /\ i \in 1 .. Len(s)
  OBVIOUS
<1> QED BY <1>1 DEF InLine, Rising

-----------------------------------------------------------------------------
(* What a step does to the frames. *)

TakesAnswers == UNCHANGED replies \/ (replies # <<>> /\ replies' = Tail(replies))

(* No frame is written, and handlers may go. *)
Waits == /\ handlers' \subseteq handlers /\ UNCHANGED <<nextId, requests, orphans, performed>>
         /\ TakesAnswers

SendsThese(kept, calls) ==
  SendAfter(kept, calls) /\ UNCHANGED <<orphans, performed>> /\ TakesAnswers

Sends == \E kept \in SUBSET handlers, calls \in Seq(Calls) :
           SendsThese(kept, calls) /\ \A i \in DOMAIN calls : calls[i].op # "apply"

FramesInv == FramesAreOnce /\ FramesAreUndone /\ HandlersKnowCalls

LEMMA FewerAnswers ==
  ASSUME SdoInv, TakesAnswers PROVE InLine(replies') \subseteq InLine(replies)
<1>1. PICK S : replies \in Seq(S)  BY DEF SdoInv, AnswersInOrder
<1> QED BY <1>1, TailOfLine DEF TakesAnswers

LEMMA SentFrames ==
  ASSUME WireOK, NEW calls \in Seq(Calls)
  PROVE  LET sent == [i \in DOMAIN calls |-> [id |-> nextId + i - 1, call |-> calls[i]]]
         IN /\ sent \in Seq(Sent) /\ Rising(sent) /\ nextId + Len(calls) \in Nat
            /\ InLine(sent) = {sent[i] : i \in DOMAIN sent}
            /\ \A f \in InLine(sent) : /\ f.id >= nextId /\ f.id < nextId + Len(calls)
                                      /\ \E i \in DOMAIN calls : f.call = calls[i]
            /\ \A f, g \in InLine(sent) : f.id = g.id => f = g
<1> DEFINE sent == [i \in DOMAIN calls |-> [id |-> nextId + i - 1, call |-> calls[i]]]
<1>1. nextId \in Nat /\ Len(calls) \in Nat /\ DOMAIN calls = 1 .. Len(calls)
      /\ \A i \in 1 .. Len(calls) : calls[i] \in Calls
  BY DEF WireOK
<1>2. \A i \in 1 .. Len(calls) : sent[i].id = nextId + i - 1 /\ sent[i].call = calls[i] /\ sent[i] \in Sent
  <2> TAKE i \in 1 .. Len(calls)
  <2>1. nextId + i - 1 \in Nat  BY <1>1
  <2> QED BY <1>1, <2>1 DEF Sent
<1>3. sent = [i \in 1 .. Len(calls) |-> sent[i]] /\ DOMAIN sent = 1 .. Len(calls)  BY <1>1
<1> HIDE DEF sent
<1>4. sent \in Seq(Sent) /\ Len(sent) = Len(calls)
  BY <1>1, <1>2, <1>3
<1>5. Rising(sent)  BY <1>1, <1>2, <1>4 DEF Rising
<1>6. InLine(sent) = {sent[i] : i \in DOMAIN sent}  BY <1>3, <1>4 DEF InLine
<1>7. \A f \in InLine(sent) : /\ f.id >= nextId /\ f.id < nextId + Len(calls)
                              /\ \E i \in DOMAIN calls : f.call = calls[i]
  <2> TAKE f \in InLine(sent)
  <2>1. PICK i \in 1 .. Len(calls) : f = sent[i]  BY <1>4 DEF InLine
  <2>2. f.id = nextId + i - 1 /\ f.call = calls[i]  BY <1>2, <2>1
  <2>3. f.id >= nextId /\ f.id < nextId + Len(calls)  BY <1>1, <2>2
  <2> QED BY <1>1, <2>2, <2>3
<1>8. \A f, g \in InLine(sent) : f.id = g.id => f = g
  <2> SUFFICES ASSUME NEW f \in InLine(sent), NEW g \in InLine(sent), f.id = g.id PROVE f = g
    OBVIOUS
  <2>1. PICK i \in 1 .. Len(calls), j \in 1 .. Len(calls) : f = sent[i] /\ g = sent[j]  BY <1>4 DEF InLine
  <2>2. nextId + i - 1 = nextId + j - 1  BY <1>2, <2>1
  <2>3. i = j  BY <1>1, <2>2
  <2> QED BY <2>1, <2>3
<1> QED BY <1>1, <1>4, <1>5, <1>6, <1>7, <1>8 DEF sent

LEMMA WaitsKeeps ==
  ASSUME TypeInv, Waits
  PROVE  WireOK' /\ (FramesInv => FramesInv')
<1>1. InLine(replies') \subseteq InLine(replies)  BY FewerAnswers DEF TypeInv, SdoInvariantParts, Waits
<1>2. Frames' = Frames  BY DEF Waits, Frames
<1>3. WireOK'  BY <1>1, <1>2 DEF Waits, WireOK, TypeInv
<1>4. FramesInv => FramesAreOnce'  BY DEF Waits, FramesInv, FramesAreOnce
<1>5. FramesInv => FramesAreUndone'  BY <1>1, <1>2 DEF Waits, FramesInv, FramesAreUndone
<1>6. FramesInv => HandlersKnowCalls'  BY <1>2 DEF Waits, FramesInv, HandlersKnowCalls
<1> QED BY <1>3, <1>4, <1>5, <1>6 DEF FramesInv

(* The frames written are new, and the handlers registered are theirs. *)
LEMMA SendsKeeps ==
  ASSUME TypeInv, NEW kept \in SUBSET handlers, NEW calls \in Seq(Calls), SendsThese(kept, calls)
  PROVE  /\ WireOK' /\ (FramesInv => FramesInv')
         /\ \A h \in handlers' : h \in kept \/ (h.id >= nextId /\ \E i \in DOMAIN calls : h.call = calls[i])
<1>1. InLine(replies') \subseteq InLine(replies)
  BY FewerAnswers DEF TypeInv, SdoInvariantParts, SendsThese
<1>2. CASE link # "up"
  <2>1. handlers' = kept /\ UNCHANGED <<nextId, requests, orphans, performed>>
    BY <1>2 DEF SendsThese, SendAfter
  <2>2. Waits  BY <2>1 DEF Waits, SendsThese
  <2>3. WireOK' /\ (FramesInv => FramesInv')  BY <2>2, WaitsKeeps
  <2> QED BY <2>1, <2>3
<1>3. CASE link = "up"
  <2> DEFINE sent == [i \in DOMAIN calls |-> [id |-> nextId + i - 1, call |-> calls[i]]]
  <2>1. /\ sent \in Seq(Sent) /\ Rising(sent) /\ nextId + Len(calls) \in Nat
        /\ InLine(sent) = {sent[i] : i \in DOMAIN sent}
        /\ \A f \in InLine(sent) : /\ f.id >= nextId /\ f.id < nextId + Len(calls)
                                  /\ \E i \in DOMAIN calls : f.call = calls[i]
        /\ \A f, g \in InLine(sent) : f.id = g.id => f = g
    BY SentFrames DEF TypeInv
  <2>2. /\ nextId' = nextId + Len(calls) /\ requests' = requests \o sent
        /\ handlers' = kept \cup InLine(sent) /\ UNCHANGED <<orphans, performed>>
    BY <1>3, <2>1 DEF SendsThese, SendAfter
  <2> HIDE DEF sent
  <2>3. WireOK /\ DaemonOK  BY DEF TypeInv
  <2>4. /\ requests' \in Seq(Sent) /\ InLine(requests') = InLine(requests) \cup InLine(sent)
        /\ (Rising(requests) => Rising(requests'))
    <3>1. \A f \in InLine(requests), g \in InLine(sent) : f.id < g.id
      <4> SUFFICES ASSUME NEW f \in InLine(requests), NEW g \in InLine(sent) PROVE f.id < g.id
        OBVIOUS
      <4>1. f.id < nextId /\ f \in Sent  BY <2>3 DEF WireOK, Frames, InLine
      <4>2. g \in Sent /\ g.id >= nextId  BY <2>1 DEF InLine
      <4> QED BY <2>3, <4>1, <4>2 DEF WireOK, Sent
    <3>2. requests \in Seq(Sent) /\ sent \in Seq(Sent)  BY <2>1, <2>3 DEF WireOK
    <3>3. /\ requests \o sent \in Seq(Sent) /\ InLine(requests \o sent) = InLine(requests) \cup InLine(sent)
          /\ Rising(requests) /\ Rising(sent) /\ (\A f \in InLine(requests), g \in InLine(sent) : f.id < g.id)
               => Rising(requests \o sent)
      BY <3>2, JoinedLine
    <3> QED BY <2>1, <2>2, <3>1, <3>3
  <2>5. InLine(sent) \subseteq Sent  BY <2>1 DEF InLine
  <2>6. Frames' = Frames \cup InLine(sent)  BY <2>2, <2>4 DEF Frames
  <2>7. \A n \in Nat : n < nextId => n < nextId'  BY <2>1, <2>2, <2>3 DEF WireOK
  <2>8. Frames \subseteq Sent  BY <2>3 DEF Frames, WireOK, InLine
  <2>9. WireOK'
    <3>1. \A f \in Frames' : f.id < nextId'
      BY <2>1, <2>2, <2>3, <2>6, <2>7, <2>8 DEF WireOK, Sent
    <3>2. \A h \in handlers' : h.id < nextId'
      BY <2>1, <2>2, <2>3, <2>7 DEF WireOK, Sent
    <3>3. \A p \in InLine(replies') : p.id \in Nat /\ p.id < nextId'
      BY <1>1, <2>1, <2>2, <2>3, <2>7 DEF WireOK
    <3> QED BY <2>1, <2>2, <2>3, <2>4, <2>5, <3>1, <3>2, <3>3 DEF WireOK
  <2>10. ASSUME FramesInv PROVE FramesInv'
    <3>1. FramesAreOnce'
      <4>1. \A f \in InLine(orphans), g \in InLine(sent) : f.id < g.id
        <5> SUFFICES ASSUME NEW f \in InLine(orphans), NEW g \in InLine(sent) PROVE f.id < g.id
          OBVIOUS
        <5>1. f.id < nextId /\ f \in Sent  BY <2>3, <2>8 DEF WireOK, Frames
        <5>2. g \in Sent /\ g.id >= nextId  BY <2>1, <2>5
        <5> QED BY <2>3, <5>1, <5>2 DEF WireOK, Sent
      <4> QED BY <2>2, <2>4, <2>10, <4>1 DEF FramesInv, FramesAreOnce
    <3>2. FramesAreUndone'
      <4>1. \A f \in InLine(sent), d \in performed : d.id # f.id
        <5> SUFFICES ASSUME NEW f \in InLine(sent), NEW d \in performed, d.id = f.id PROVE FALSE
          OBVIOUS
        <5>1. d.id < nextId /\ d.id \in Nat  BY <2>3 DEF DaemonOK
        <5>2. f.id \in Nat /\ f.id >= nextId  BY <2>1, <2>5 DEF Sent
        <5>3. nextId \in Nat  BY <2>3 DEF WireOK
        <5> QED BY <5>1, <5>2, <5>3
      <4>2. \A f \in InLine(sent), p \in InLine(replies) : p.id # f.id
        <5> SUFFICES ASSUME NEW f \in InLine(sent), NEW p \in InLine(replies), p.id = f.id PROVE FALSE
          OBVIOUS
        <5>1. p.id < nextId /\ p.id \in Nat  BY <2>3 DEF WireOK
        <5>2. f.id \in Nat /\ f.id >= nextId  BY <2>1, <2>5 DEF Sent
        <5>3. nextId \in Nat  BY <2>3 DEF WireOK
        <5> QED BY <5>1, <5>2, <5>3
      <4> QED BY <1>1, <2>2, <2>6, <2>10, <4>1, <4>2 DEF FramesInv, FramesAreUndone
    <3>3. HandlersKnowCalls'
      <4>1. \A h \in handlers \cup Frames, g \in InLine(sent) : h.id # g.id
        <5> SUFFICES ASSUME NEW h \in handlers \cup Frames, NEW g \in InLine(sent), h.id = g.id PROVE FALSE
          OBVIOUS
        <5>1. h \in Sent /\ h.id < nextId  BY <2>3, <2>8 DEF WireOK
        <5>2. g \in Sent /\ g.id >= nextId  BY <2>1, <2>5
        <5> QED BY <2>3, <5>1, <5>2 DEF WireOK, Sent
      <4> SUFFICES ASSUME NEW h \in handlers', NEW g \in handlers' \cup Frames', h.id = g.id PROVE h = g
        BY DEF HandlersKnowCalls
      <4>2. (h \in handlers \/ h \in InLine(sent)) /\ (g \in handlers \cup Frames \/ g \in InLine(sent))
        BY <2>2, <2>6
      <4>3. CASE h \in InLine(sent) /\ g \in InLine(sent)  BY <2>1, <4>3
      <4>4. CASE h \in handlers /\ g \in handlers \cup Frames
        BY <2>10, <4>4 DEF FramesInv, HandlersKnowCalls
      <4> QED BY <4>1, <4>2, <4>3, <4>4
    <3> QED BY <3>1, <3>2, <3>3 DEF FramesInv
  <2>11. \A h \in handlers' : h \in kept \/ (h.id >= nextId /\ \E i \in DOMAIN calls : h.call = calls[i])
    BY <2>1, <2>2
  <2> QED BY <2>9, <2>10, <2>11
<1> QED BY <1>2, <1>3

-----------------------------------------------------------------------------
(* The rows applied together, and what the daemon writes. *)

LEMMA LeastOf == ASSUME NEW S \in SUBSET Nat, S # {} PROVE \E x \in S : \A y \in S : x <= y
<1> DEFINE R == {ss \in Nat \X Nat : ss[1] < ss[2]}
<1>1. IsWellFoundedOn(R, Nat)  BY NatLessThanWellFounded, Zenon DEF OpToRel
<1>2. \E x \in S : \A y \in S : ~(<<y, x>> \in R)
  <2> HIDE DEF R
  <2>1. S \subseteq Nat  OBVIOUS
  <2> QED BY <1>1, <2>1, WFMin, Zenon
<1>3. PICK x \in S : \A y \in S : ~(<<y, x>> \in R)  BY <1>2
<1>4. ASSUME NEW y \in S PROVE x <= y
  <2>1. <<y, x>> \in Nat \X Nat /\ <<y, x>>[1] = y /\ <<y, x>>[2] = x  OBVIOUS
  <2>2. ~(<<y, x>>[1] < <<y, x>>[2])  BY <1>3, <2>1, Zenon
  <2> QED BY <2>1, <2>2
<1> QED BY <1>4

LEMMA GreatestOf ==
  ASSUME NEW n \in Nat, NEW S \in SUBSET (0 .. n), S # {} PROVE \E x \in S : \A y \in S : y <= x
<1> DEFINE Flip == {n - y : y \in S}
<1>1. Flip \in SUBSET Nat /\ Flip # {}
  <2>1. \A y \in S : n - y \in Nat  OBVIOUS
  <2>2. Flip # {}  OBVIOUS
  <2> QED BY <2>1, <2>2
<1>2. PICK z \in Flip : \A y \in Flip : z <= y  BY <1>1, LeastOf
<1>3. PICK x \in S : z = n - x  BY <1>2
<1>4. \A y \in S : y <= x
  <2> TAKE y \in S
  <2>1. n - y \in Flip  OBVIOUS
  <2>2. n - x <= n - y  BY <1>2, <1>3, <2>1
  <2> QED BY <2>2
<1> QED BY <1>4

(* A set of rows is finite. *)
LEMMA RowsAreFew ==
  ASSUME NEW n \in Nat, NEW S \in SUBSET (1 .. n) PROVE IsFiniteSet(S) /\ Cardinality(S) \in Nat
<1>1. 1 \in Int /\ n \in Int  OBVIOUS
<1>2. IsFiniteSet(1 .. n)  BY <1>1, FS_Interval
<1>3. IsFiniteSet(S)  BY <1>2, FS_Subset
<1> QED BY <1>3, FS_CardinalityType

(* Of n rows, one has i - 1 before it, for each i from 1 to n. *)
LEMMA RankOf ==
  ASSUME NEW n \in Nat, NEW S \in SUBSET (1 .. n), NEW i \in 1 .. Cardinality(S)
  PROVE  \E r \in S : Cardinality({s \in S : s < r}) = i - 1
<1> DEFINE Below(r) == {s \in S : s < r}
<1>1. \A T \in SUBSET S : IsFiniteSet(T) /\ Cardinality(T) \in Nat
  <2> TAKE T \in SUBSET S
  <2>1. T \in SUBSET (1 .. n)  OBVIOUS
  <2> QED BY <2>1, RowsAreFew
<1>2. S # {} /\ i \in Nat \ {0} /\ Cardinality(S) \in Nat /\ i <= Cardinality(S)
  <2>1. Cardinality(S) \in Nat  BY <1>1
  <2>2. S # {}
    <3> SUFFICES ASSUME S = {} PROVE FALSE  OBVIOUS
    <3>1. Cardinality(S) = 0  BY FS_EmptySet
    <3> QED BY <3>1
  <2> QED BY <2>1, <2>2
<1> DEFINE Low == {r \in S : Cardinality(Below(r)) <= i - 1}
<1>3. Low # {}
  <2>1. PICK x \in S : \A y \in S : x <= y  BY <1>2, LeastOf
  <2>2. Below(x) = {}
    <3> SUFFICES ASSUME NEW y \in Below(x) PROVE FALSE  OBVIOUS
    <3>1. y \in S /\ y < x /\ x <= y /\ x \in Nat /\ y \in Nat  BY <2>1
    <3> QED BY <3>1
  <2>3. Cardinality(Below(x)) = 0  BY <2>2, FS_EmptySet
  <2> QED BY <1>2, <2>3
<1>4. PICK r \in Low : \A y \in Low : y <= r
  <2>1. S \subseteq 0 .. n  OBVIOUS
  <2>2. Low \subseteq S  OBVIOUS
  <2> HIDE DEF Low
  <2>3. Low \in SUBSET (0 .. n)  BY <2>1, <2>2
  <2> QED BY <1>3, <2>3, GreatestOf
<1>5. Cardinality(Below(r)) \in Nat /\ IsFiniteSet(Below(r))  BY <1>1
<1> SUFFICES ASSUME Cardinality(Below(r)) # i - 1 PROVE FALSE
  OBVIOUS
<1>6. Cardinality(Below(r) \cup {r}) = Cardinality(Below(r)) + 1
  <2>1. r \notin Below(r)  OBVIOUS
  <2> HIDE DEF Below
  <2> QED BY <1>5, <2>1, FS_AddElement
<1>7. Cardinality(Below(r) \cup {r}) <= i - 1  BY <1>2, <1>4, <1>5, <1>6
<1> DEFINE Above == {s \in S : r < s}
<1>8. Above # {}
  <2> SUFFICES ASSUME Above = {} PROVE FALSE  OBVIOUS
  <2>1. S = Below(r) \cup {r}
    <3> SUFFICES ASSUME NEW y \in S PROVE y < r \/ y = r  BY <1>4
    <3>1. ~(r < y) /\ r \in Nat /\ y \in Nat  BY <1>4
    <3> QED BY <3>1
  <2> HIDE DEF Below
  <2>2. Cardinality(S) <= i - 1  BY <1>7, <2>1
  <2> QED BY <1>2, <2>2
<1>9. PICK x \in Above : \A y \in Above : x <= y
  <2>1. S \subseteq Nat  OBVIOUS
  <2>2. Above \subseteq S  OBVIOUS
  <2> HIDE DEF Above
  <2>3. Above \in SUBSET Nat  BY <2>1, <2>2
  <2> QED BY <1>8, <2>3, LeastOf
<1>a. x \in S /\ r \in S /\ x \in Nat /\ r \in Nat /\ r < x /\ S \subseteq Nat  BY <1>4, <1>9
<1>10. Below(x) = Below(r) \cup {r}
  <2>1. ASSUME NEW s \in S PROVE s < x <=> s < r \/ s = r
    <3>1. s \in Nat /\ (r < s => x <= s)  BY <1>9, <1>a
    <3> QED BY <1>a, <3>1
  <2> QED BY <1>a, <2>1
<1>11. x \in Low
  <2>1. Cardinality(Below(x)) <= i - 1  BY <1>7, <1>10
  <2> QED BY <1>a, <2>1
<1>12. x <= r  BY <1>4, <1>11
<1> QED BY <1>a, <1>12

LEMMA InOrderLists ==
  ASSUME NEW n \in Nat, NEW S \in SUBSET (1 .. n)
  PROVE  /\ Cardinality(S) \in Nat /\ DOMAIN InOrder(S) = 1 .. Cardinality(S)
         /\ \A i \in DOMAIN InOrder(S) :
              InOrder(S)[i] \in S /\ Cardinality({s \in S : s < InOrder(S)[i]}) = i - 1
<1>1. Cardinality(S) \in Nat  BY RowsAreFew
<1>2. DOMAIN InOrder(S) = 1 .. Cardinality(S)  BY DEF InOrder
<1> SUFFICES ASSUME NEW i \in 1 .. Cardinality(S)
             PROVE  InOrder(S)[i] \in S /\ Cardinality({s \in S : s < InOrder(S)[i]}) = i - 1
  BY <1>1, <1>2
<1>3. \E r \in S : Cardinality({s \in S : s < r}) = i - 1  BY RankOf
<1>4. InOrder(S)[i] = CHOOSE r \in S : Cardinality({s \in S : s < r}) = i - 1  BY DEF InOrder
<1> QED BY <1>3, <1>4

(* The first rows of the table are listed as they stand. *)
LEMMA FirstRowsInOrder ==
  ASSUME NEW n \in Nat
  PROVE  DOMAIN InOrder(1 .. n) = 1 .. n /\ \A i \in 1 .. n : InOrder(1 .. n)[i] = i
<1>1. Cardinality(1 .. n) = n
  <2>1. 1 \in Int /\ n \in Int  OBVIOUS
  <2>2. Cardinality(1 .. n) = IF 1 > n THEN 0 ELSE n - 1 + 1  BY <2>1, FS_Interval
  <2> QED BY <2>2
<1>2. DOMAIN InOrder(1 .. n) = 1 .. n  BY <1>1 DEF InOrder
<1>3. ASSUME NEW i \in 1 .. n PROVE InOrder(1 .. n)[i] = i
  <2> DEFINE r == InOrder(1 .. n)[i]
  <2>1. r \in 1 .. n /\ Cardinality({s \in 1 .. n : s < r}) = i - 1
    BY <1>2, InOrderLists
  <2>2. {s \in 1 .. n : s < r} = 1 .. (r - 1)  BY <2>1
  <2>3. Cardinality(1 .. (r - 1)) = r - 1
    <3> HIDE DEF r
    <3>1. 1 \in Int /\ r - 1 \in Int  BY <2>1
    <3>2. Cardinality(1 .. (r - 1)) = IF 1 > r - 1 THEN 0 ELSE (r - 1) - 1 + 1  BY <3>1, FS_Interval
    <3> QED BY <2>1, <3>2
  <2>4. r - 1 = i - 1  BY <2>1, <2>2, <2>3
  <2> HIDE DEF r
  <2>5. r = i  BY <2>1, <2>4
  <2> QED BY <2>5 DEF r
<1> QED BY <1>2, <1>3

LEMMA AfterType ==
  ASSUME NEW items \in Seq(Items), NEW places \in SUBSET (1 .. Len(items)), object \in [Keys -> Values]
  PROVE  After(items, places) \in [Keys -> Values]
<1> SUFFICES ASSUME NEW k \in Keys PROVE After(items, places)[k] \in Values
  BY DEF After
<1> DEFINE hits == {i \in places : items[i].key = k}
<1>1. After(items, places)[k] = IF hits = {} THEN object[k]
                                ELSE items[CHOOSE i \in hits : \A j \in hits : j <= i].value
  BY DEF After
<1>2. hits \in SUBSET (0 .. Len(items)) /\ Len(items) \in Nat /\ hits \subseteq 1 .. Len(items)
  <2>1. hits \subseteq places  OBVIOUS
  <2>2. 1 .. Len(items) \subseteq 0 .. Len(items) /\ Len(items) \in Nat  OBVIOUS
  <2> HIDE DEF hits
  <2> QED BY <2>1, <2>2
<1>3. ASSUME hits # {} PROVE (CHOOSE i \in hits : \A j \in hits : j <= i) \in 1 .. Len(items)
  <2> HIDE DEF hits
  <2>1. \E i \in hits : \A j \in hits : j <= i  BY <1>2, <1>3, GreatestOf
  <2> QED BY <1>2, <2>1
<1>4. \A i \in 1 .. Len(items) : items[i].value \in Values
  <2>1. \A i \in 1 .. Len(items) : items[i] \in Items  OBVIOUS
  <2> QED BY <2>1 DEF Items
<1> HIDE DEF hits
<1> QED BY <1>1, <1>3, <1>4

-----------------------------------------------------------------------------
(* Every step sends, waits, performs a frame or loses the connection. *)

LEMMA CallsType ==
  ASSUME NEW k \in Keys, NEW v \in Values
  PROVE  /\ <<Upload(k)>> \in Seq(Calls) /\ ReadBack(k) \in Seq(Calls) /\ <<Download(k, v)>> \in Seq(Calls)
         /\ \A i \in DOMAIN <<Upload(k)>> : <<Upload(k)>>[i].op # "apply"
         /\ \A i \in DOMAIN ReadBack(k) : ReadBack(k)[i].op # "apply"
         /\ \A i \in DOMAIN <<Download(k, v)>> : <<Download(k, v)>>[i].op # "apply"
<1>1. Upload(k) \in Calls /\ Upload(k).op # "apply"  BY DEF Upload, Calls
<1>2. Download(k, v) \in Calls /\ Download(k, v).op # "apply"  BY DEF Download, Calls
<1> QED BY <1>1, <1>2 DEF ReadBack

(* The rows of the dialog are sent as one request, in order. *)
Applies == \E items \in Seq(Items) :
  /\ SendsThese(handlers, <<Apply(items)>>)
  /\ \A i \in 1 .. Len(items) : items[i].row \in dialog.rows
       /\ items[i] = Item(items[i].row, rows[items[i].row].key, rows[items[i].row].value)
  /\ (\E n \in Nat : dialog.rows = 1 .. n) => \A i \in 1 .. Len(items) : items[i].row = i

LEMMA ApplySends == ASSUME TypeInv, applyStartupSdoRows PROVE Applies
<1>1. dialog.rows \subseteq DOMAIN rows /\ \A r \in dialog.rows : rows[r].value \in Values
  BY DEF TypeInv, DialogOK, applyStartupSdoRows
<1>2. rows \in Seq(Row) /\ DOMAIN rows = 1 .. Len(rows) /\ Len(rows) \in Nat
  BY DEF TypeInv, SdoInvariantParts, SdoInv, Typed
<1> DEFINE order == InOrder(dialog.rows)
           items == [i \in DOMAIN order |-> Item(order[i], rows[order[i]].key, rows[order[i]].value)]
           n == Cardinality(dialog.rows)
<1>3. n \in Nat /\ DOMAIN order = 1 .. n /\ \A i \in 1 .. n : order[i] \in dialog.rows
  <2>1. dialog.rows \in SUBSET (1 .. Len(rows))  BY <1>1, <1>2
  <2> QED BY <1>2, <2>1, InOrderLists
<1>4. \A i \in 1 .. n : items[i] = Item(order[i], rows[order[i]].key, rows[order[i]].value)
  BY <1>3
<1>5. items = [i \in 1 .. n |-> items[i]] /\ DOMAIN items = 1 .. n  BY <1>3
<1>6. SendsThese(handlers, <<Apply(items)>>)
  BY DEF applyStartupSdoRows, SendsThese, Send, daemon, TakesAnswers
<1>11. (\E m \in Nat : dialog.rows = 1 .. m) => \A i \in 1 .. n : order[i] = i
  BY <1>3, FirstRowsInOrder
<1> HIDE DEF items, order, n
<1>7. ASSUME NEW i \in 1 .. n
      PROVE  /\ items[i] \in Items /\ items[i].row \in dialog.rows /\ items[i].row = order[i]
             /\ items[i] = Item(items[i].row, rows[items[i].row].key, rows[items[i].row].value)
  <2>1. order[i] \in 1 .. Len(rows) /\ order[i] \in dialog.rows  BY <1>1, <1>2, <1>3
  <2>2. rows[order[i]] \in Row /\ order[i] \in Nat /\ rows[order[i]].value \in Values  BY <1>1, <1>2, <2>1
  <2>3. items[i] = [row |-> order[i], key |-> rows[order[i]].key, value |-> rows[order[i]].value]
    BY <1>4, Zenon DEF Item
  <2>4. items[i].row = order[i] /\ items[i] \in Items  BY <2>2, <2>3 DEF Items, Row
  <2> QED BY <1>4, <2>1, <2>4
<1>8. items \in Seq(Items) /\ Len(items) = n
  BY <1>3, <1>5, <1>7
<1>9. \A i \in 1 .. Len(items) : items[i].row \in dialog.rows
         /\ items[i] = Item(items[i].row, rows[items[i].row].key, rows[items[i].row].value)
  BY <1>7, <1>8
<1>10. (\E m \in Nat : dialog.rows = 1 .. m) => \A i \in 1 .. Len(items) : items[i].row = i
  BY <1>7, <1>8, <1>11
<1> QED BY <1>6, <1>8, <1>9, <1>10 DEF Applies

LEMMA SendsOf ==
  ASSUME NEW kept \in SUBSET handlers, NEW calls \in Seq(Calls), \A i \in DOMAIN calls : calls[i].op # "apply",
         SendAfter(kept, calls), UNCHANGED <<orphans, performed>>, TakesAnswers
  PROVE  Sends
BY DEF Sends, SendsThese

LEMMA CompletionSends ==
  ASSUME TypeInv, NEW k \in Keys, NEW kept \in SUBSET handlers, NEW at, DownloadComplete(k, kept, at),
         UNCHANGED <<orphans, performed>>, TakesAnswers
  PROVE  Sends
<1>1. Values # {}  BY SdoAssumption
<1> QED BY <1>1, CallsType, SendsOf DEF DownloadComplete

LEMMA WireSteps ==
  ASSUME TypeInv, Next
  PROVE  Waits \/ Sends \/ applyStartupSdoRows \/ Dispatch \/ DispatchOrphan \/ Lose
<1> USE DEF wire, daemon, Send, RequestRead, TakesAnswers
<1>t. /\ \A r \in DOMAIN rows : rows[r] \in Row
      /\ rows \in Seq(Row) /\ KnownKeys
  BY DEF TypeInv, SdoInvariantParts, SdoInv, Typed
<1>k. \A r \in DOMAIN rows : rows[r].key \in Keys  BY <1>t DEF Row
<1>v. PICK v \in Values : TRUE  BY SdoAssumption
<1>1. CASE \E k \in Keys : Watch(k) \/ \E w \in Values : ServiceDownload(k, w)
  BY <1>1, <1>v, CallsType, SendsOf DEF Watch, ServiceDownload
<1>0. CASE (\E w \in Texts : EditField(w)) \/ \E S : RefuseBlanks(S)
  BY <1>0 DEF EditField, RefuseBlanks, Waits
<1>2. CASE \E k \in Keys : addStartupSdo(k) \/ OpenWrite(k)
  BY <1>2 DEF addStartupSdo, OpenWrite, Waits
<1>3. CASE \E r \in DOMAIN rows : verifyStartupSdoRow(r)
  BY <1>k, <1>v, <1>3, CallsType, SendsOf DEF verifyStartupSdoRow
<1>4. CASE \E r \in DOMAIN rows : OpenApplyRow(r) \/ removeStartupSdo(r) \/ moveStartupSdoRow(r)
  BY <1>4 DEF OpenApplyRow, removeStartupSdo, moveStartupSdoRow, Waits
<1>5. CASE (\E S \in Selections : OpenApply(S)) \/ Cancel \/ clearSdoHistory \/ clearOnlineViews
  BY <1>5 DEF OpenApply, Cancel, clearSdoHistory, clearOnlineViews, ForgetPending, Waits
<1>6. CASE writeCurrentSdo
  <2>1. dialog.key \in Keys /\ field \in Values  BY <1>6 DEF writeCurrentSdo, TypeInv, DialogOK
  <2> QED BY <1>6, <2>1, CallsType, SendsOf DEF writeCurrentSdo, Write
<1>7. CASE applyStartupSdoRow
  <2>1. dialog.key \in Keys /\ dialog.value \in Values  BY <1>7 DEF applyStartupSdoRow, TypeInv, DialogOK
  <2> QED BY <1>7, <2>1, CallsType, SendsOf DEF applyStartupSdoRow
<1>9. CASE verifyStartupSdoList
  <2> DEFINE calls == [r \in DOMAIN rows |-> Upload(rows[r].key)]
  <2>1. \A i \in DOMAIN rows : calls[i] \in Calls /\ calls[i].op # "apply"
    <3> TAKE i \in DOMAIN rows
    <3>1. rows[i].key \in Keys  BY <1>k
    <3> QED BY <3>1 DEF Upload, Calls
  <2>2. SendAfter(handlers, calls) /\ UNCHANGED <<orphans, replies, performed>>  BY <1>9 DEF verifyStartupSdoList
  <2>3. DOMAIN rows = 1 .. Len(rows) /\ Len(rows) \in Nat  BY <1>t
  <2>4. calls = [i \in 1 .. Len(rows) |-> calls[i]] /\ DOMAIN calls = 1 .. Len(rows)  BY <2>3
  <2> HIDE DEF calls
  <2>5. calls \in Seq(Calls)  BY <2>1, <2>3, <2>4
  <2> QED BY <2>1, <2>2, <2>3, <2>4, <2>5, SendsOf
<1>11. CASE Receive
  <2>1. UNCHANGED <<orphans, performed>> /\ TakesAnswers  BY <1>11 DEF Receive
  <2>2. CASE handlers' \subseteq handlers /\ UNCHANGED <<nextId, requests>>  BY <2>1, <2>2 DEF Waits
  <2>3. CASE ~(handlers' \subseteq handlers /\ UNCHANGED <<nextId, requests>>)
    <3>1. PICK h \in handlers, kept \in SUBSET handlers :
            h.call.op = "download" /\ \E at : DownloadComplete(h.call.key, kept, at)
      BY <1>11, <2>3 DEF Receive, Nothing
    <3>2. h.call.key \in Keys  BY <1>t, <3>1 DEF KnownKeys, IsKnown
    <3> HIDE DEF TakesAnswers
    <3> QED BY <2>1, <3>1, <3>2, CompletionSends
  <2> QED BY <2>2, <2>3
<1>12. CASE CallLost
  <2>1. UNCHANGED <<orphans, performed>> /\ TakesAnswers  BY <1>12 DEF CallLost
  <2>2. CASE handlers' \subseteq handlers /\ UNCHANGED <<nextId, requests>>  BY <2>1, <2>2 DEF Waits
  <2>3. CASE ~(handlers' \subseteq handlers /\ UNCHANGED <<nextId, requests>>)
    <3>1. PICK h \in handlers, kept \in SUBSET handlers :
            h.call.op = "download" /\ \E at : DownloadComplete(h.call.key, kept, at)
      BY <1>12, <2>3 DEF CallLost, Nothing
    <3>2. h.call.key \in Keys  BY <1>t, <3>1 DEF KnownKeys, IsKnown
    <3> HIDE DEF TakesAnswers
    <3> QED BY <2>1, <3>1, <3>2, CompletionSends
  <2> QED BY <2>2, <2>3
<1>13. CASE flushPendingSdoState \/ Reconnect  BY <1>13 DEF flushPendingSdoState, Reconnect, Waits
<1>14. CASE Sweep  BY <1>14 DEF Sweep, Nothing, Waits
<1> QED BY <1>0, <1>1, <1>2, <1>3, <1>4, <1>5, <1>6, <1>7, <1>9, <1>11, <1>12, <1>13, <1>14
       DEF Next, User, Daemon, Client, Faults

-----------------------------------------------------------------------------
(* The daemon performs a frame. *)

AnswerOf(q, result) == [id |-> q.id, at |-> clock + 1, result |-> result]

IsTold(q, result) ==
  q.call.op = "apply" =>
    /\ result.applied \cap result.failed = {} /\ result.applied \cup result.failed \subseteq DOMAIN q.call.items
    /\ performed' = performed \cup {[id |-> q.id, item |-> q.call.items[i]] : i \in result.applied}

LEMMA CallOfFrame ==
  ASSUME NEW q \in Sent
  PROVE  /\ q.id \in Nat /\ q.call \in Calls
         /\ q.call.op \in {"upload", "download", "apply"}
         /\ q.call.op = "download" => q.call.key \in Keys /\ q.call.value \in Values
         /\ q.call.op = "apply" => q.call.items \in Seq(Items)
<1>1. q.id \in Nat /\ q.call \in Calls  BY DEF Sent
<1>2. \/ q.call \in [op : {"upload"}, key : Keys] \/ q.call \in [op : {"download"}, key : Keys, value : Values]
      \/ q.call \in [op : {"apply"}, items : Seq(Items)]
  BY <1>1 DEF Calls
<1> QED BY <1>1, <1>2

LEMMA WriteItemsType ==
  ASSUME DaemonOK, NEW id \in Nat, NEW items \in Seq(Items), NEW places \in SUBSET (1 .. Len(items)),
         WriteItems(id, items, places)
  PROVE  object' \in [Keys -> Values] /\ performed' \subseteq [id : Nat, item : Items]
<1>1. \A i \in 1 .. Len(items) : items[i] \in Items  OBVIOUS
<1>2. \A i \in places : [id |-> id, item |-> items[i]] \in [id : Nat, item : Items]  BY <1>1
<1>3. performed' \subseteq [id : Nat, item : Items]  BY <1>2 DEF WriteItems, DaemonOK
<1>4. object' \in [Keys -> Values]  BY AfterType DEF WriteItems, DaemonOK
<1> QED BY <1>3, <1>4

(* What is performed and answered is the frame's own call. *)
LEMMA PerformDoes ==
  ASSUME TypeInv, NEW q \in Sent, NEW live, Perform(q, live)
  PROVE  /\ object' \in [Keys -> Values] /\ performed' \subseteq [id : Nat, item : Items]
         /\ performed \subseteq performed' /\ \A d \in performed' : d \in performed \/ d.id = q.id
         /\ \/ UNCHANGED replies
            \/ \E result : replies' = Append(replies, AnswerOf(q, result)) /\ IsTold(q, result)
<1>c. /\ q.id \in Nat
      /\ q.call.op \in {"upload", "download", "apply"}
      /\ q.call.op = "download" => q.call.key \in Keys /\ q.call.value \in Values
      /\ q.call.op = "apply" => q.call.items \in Seq(Items)
  BY CallOfFrame
<1>d. DaemonOK  BY DEF TypeInv
<1>w. ASSUME NEW items, NEW places, WriteItems(q.id, items, places)
      PROVE  performed \subseteq performed' /\ \A d \in performed' : d \in performed \/ d.id = q.id
  <2>1. performed' = performed \cup {[id |-> q.id, item |-> items[i]] : i \in places}  BY <1>w DEF WriteItems
  <2> QED BY <2>1
<1>1. CASE upload(q, live) \/ Refuse(q, live)
  <2>1. UNCHANGED <<object, performed>> /\ q.call.op # "apply"  BY <1>1 DEF upload, Refuse
  <2>2. UNCHANGED replies \/ \E result : replies' = Append(replies, AnswerOf(q, result))
    BY <1>1 DEF upload, Refuse, Answer, AnswerOf
  <2> QED BY <1>d, <2>1, <2>2 DEF DaemonOK, IsTold
<1>2. CASE download(q, live)
  <2> DEFINE items == <<Item(0, q.call.key, q.call.value)>>
  <2>1. q.call.op = "download" /\ WriteItems(q.id, items, {1})  BY <1>2 DEF download
  <2>2. UNCHANGED replies \/ \E result : replies' = Append(replies, AnswerOf(q, result))
    BY <1>2 DEF download, Answer, AnswerOf
  <2>3. Item(0, q.call.key, q.call.value) \in Items  BY <1>c, <2>1 DEF Item, Items
  <2>4. items \in Seq(Items) /\ {1} \in SUBSET (1 .. Len(items))  BY <2>3
  <2> HIDE DEF items
  <2>5. object' \in [Keys -> Values] /\ performed' \subseteq [id : Nat, item : Items]
    BY <1>c, <1>d, <2>1, <2>4, WriteItemsType
  <2>6. performed \subseteq performed' /\ \A d \in performed' : d \in performed \/ d.id = q.id
    BY <2>1, <1>w
  <2>7. \A result : IsTold(q, result)  BY <2>1 DEF IsTold
  <2> QED BY <2>2, <2>5, <2>6, <2>7
<1>3. CASE applyStartupSdos(q, live)
  <2>1. PICK bad \in SUBSET DOMAIN q.call.items :
          /\ WriteItems(q.id, q.call.items, DOMAIN q.call.items \ bad)
          /\ Answer(q, live, [ok |-> TRUE, applied |-> DOMAIN q.call.items \ bad, failed |-> bad])
    BY <1>3 DEF applyStartupSdos
  <2> DEFINE result == [ok |-> TRUE, applied |-> DOMAIN q.call.items \ bad, failed |-> bad]
             places == DOMAIN q.call.items \ bad
  <2>2. result.applied = places /\ result.failed = bad  OBVIOUS
  <2>3. UNCHANGED replies \/ replies' = Append(replies, AnswerOf(q, result))
    BY <2>1 DEF Answer, AnswerOf
  <2>4. q.call.op = "apply"  BY <1>3 DEF applyStartupSdos
  <2>5. q.call.items \in Seq(Items) /\ places \in SUBSET (1 .. Len(q.call.items))  BY <1>c, <2>4
  <2>6. performed' = performed \cup {[id |-> q.id, item |-> q.call.items[i]] : i \in places}
    BY <2>1 DEF WriteItems
  <2>7. IsTold(q, result)
    <3>1. places \cap bad = {} /\ places \cup bad \subseteq DOMAIN q.call.items  OBVIOUS
    <3> HIDE DEF result, places
    <3> QED BY <2>2, <2>6, <3>1 DEF IsTold
  <2>8. WriteItems(q.id, q.call.items, places)  BY <2>1
  <2> HIDE DEF result, places
  <2>9. object' \in [Keys -> Values] /\ performed' \subseteq [id : Nat, item : Items]
    BY <1>c, <1>d, <2>5, <2>8, WriteItemsType
  <2>10. performed \subseteq performed' /\ \A d \in performed' : d \in performed \/ d.id = q.id
    BY <2>8, <1>w
  <2> QED BY <2>3, <2>7, <2>9, <2>10
<1> QED BY <1>1, <1>2, <1>3 DEF Perform

-----------------------------------------------------------------------------
(* A frame leaves the line. *)
Takes(q) ==
  /\ q \in Frames /\ Frames' \subseteq Frames /\ requests' \in Seq(Sent) /\ orphans' \in Seq(Sent)
  /\ FramesAreOnce => FramesAreOnce' /\ \A f \in Frames' : f.id # q.id

LEMMA FramesAreSent == ASSUME WireOK PROVE Frames \subseteq Sent
BY DEF WireOK, Frames, InLine

LEMMA TakesHead == ASSUME TypeInv, Dispatch \/ DispatchOrphan
  PROVE \E q, live : Takes(q) /\ Perform(q, live)
<1>w. requests \in Seq(Sent) /\ orphans \in Seq(Sent) /\ Frames \subseteq Sent
  BY FramesAreSent DEF TypeInv, WireOK
<1>1. CASE Dispatch
  <2> DEFINE q == Head(requests)
  <2>1. requests # <<>> /\ requests' = Tail(requests) /\ UNCHANGED orphans /\ Perform(q, TRUE)
    BY <1>1 DEF Dispatch
  <2>2. /\ Tail(requests) \in Seq(Sent) /\ q \in InLine(requests) /\ InLine(Tail(requests)) \subseteq InLine(requests)
        /\ Rising(requests) => Rising(Tail(requests)) /\ \A x \in InLine(Tail(requests)) : q.id < x.id
    BY <1>w, <2>1, TailOfLine
  <2>3. q \in Frames /\ Frames' \subseteq Frames /\ Frames' = InLine(Tail(requests)) \cup InLine(orphans)
    BY <2>1, <2>2 DEF Frames
  <2> HIDE DEF q
  <2>4. ASSUME FramesAreOnce PROVE FramesAreOnce' /\ \A f \in Frames' : f.id # q.id
    <3>1. \A f \in InLine(orphans) : f.id < q.id  BY <2>2, <2>4 DEF FramesAreOnce
    <3>2. \A f \in InLine(Tail(requests)) : q.id < f.id  BY <2>2, <2>4 DEF FramesAreOnce
    <3>3. \A f \in Frames' : f.id \in Nat /\ q.id \in Nat  BY <1>w, <2>3 DEF Sent
    <3>4. \A f \in Frames' : f.id # q.id
      <4> SUFFICES ASSUME NEW f \in Frames', f.id = q.id PROVE FALSE  OBVIOUS
      <4> QED BY <2>3, <3>1, <3>2, <3>3
    <3>5. FramesAreOnce'  BY <2>1, <2>2, <2>4 DEF FramesAreOnce
    <3> QED BY <3>4, <3>5
  <2> QED BY <1>w, <2>1, <2>2, <2>3, <2>4 DEF Takes
<1>2. CASE DispatchOrphan
  <2> DEFINE q == Head(orphans)
  <2>1. orphans # <<>> /\ orphans' = Tail(orphans) /\ UNCHANGED requests /\ Perform(q, FALSE)
    BY <1>2 DEF DispatchOrphan
  <2>2. /\ Tail(orphans) \in Seq(Sent) /\ q \in InLine(orphans) /\ InLine(Tail(orphans)) \subseteq InLine(orphans)
        /\ Rising(orphans) => Rising(Tail(orphans)) /\ \A x \in InLine(Tail(orphans)) : q.id < x.id
    BY <1>w, <2>1, TailOfLine
  <2>3. q \in Frames /\ Frames' \subseteq Frames /\ Frames' = InLine(requests) \cup InLine(Tail(orphans))
    BY <2>1, <2>2 DEF Frames
  <2> HIDE DEF q
  <2>4. ASSUME FramesAreOnce PROVE FramesAreOnce' /\ \A f \in Frames' : f.id # q.id
    <3>1. \A f \in InLine(requests) : q.id < f.id  BY <2>2, <2>4 DEF FramesAreOnce
    <3>2. \A f \in InLine(Tail(orphans)) : q.id < f.id  BY <2>2, <2>4 DEF FramesAreOnce
    <3>3. \A f \in Frames' : f.id \in Nat /\ q.id \in Nat  BY <1>w, <2>3 DEF Sent
    <3>4. \A f \in Frames' : f.id # q.id
      <4> SUFFICES ASSUME NEW f \in Frames', f.id = q.id PROVE FALSE  OBVIOUS
      <4> QED BY <2>3, <3>1, <3>2, <3>3
    <3>5. FramesAreOnce'  BY <2>1, <2>2, <2>4 DEF FramesAreOnce
    <3> QED BY <3>4, <3>5
  <2> QED BY <1>w, <2>1, <2>2, <2>3, <2>4 DEF Takes
<1> QED BY <1>1, <1>2

LEMMA FrameStep ==
  ASSUME TypeInv, Dispatch \/ DispatchOrphan
  PROVE  /\ WireOK' /\ DaemonOK' /\ (FramesInv => FramesInv')
         /\ (FramesInv /\ ItemsAreRows /\ RepliesAreTrue => RepliesAreTrue')
<1>1. PICK q, live : Takes(q) /\ Perform(q, live)  BY TakesHead
<1>w. WireOK /\ DaemonOK /\ Frames \subseteq Sent  BY FramesAreSent DEF TypeInv
<1>2. q \in Sent /\ q.id \in Nat /\ q.id < nextId /\ q \in Frames  BY <1>1, <1>w DEF Takes, WireOK, Sent
<1>3. /\ object' \in [Keys -> Values] /\ performed' \subseteq [id : Nat, item : Items]
      /\ performed \subseteq performed' /\ \A d \in performed' : d \in performed \/ d.id = q.id
      /\ \/ UNCHANGED replies
         \/ \E result : replies' = Append(replies, AnswerOf(q, result)) /\ IsTold(q, result)
  BY <1>1, <1>2, PerformDoes
<1>4. UNCHANGED <<nextId, handlers>>  BY <1>1 DEF Perform
<1>5. PICK S : replies \in Seq(S)  BY DEF TypeInv, SdoInvariantParts, SdoInv, AnswersInOrder
<1>6. \/ UNCHANGED replies
      \/ \E result : InLine(replies') = InLine(replies) \cup {AnswerOf(q, result)} /\ IsTold(q, result)
  BY <1>3, <1>5, LongerLine
<1>7. \A p \in InLine(replies') : p \in InLine(replies) \/ p.id = q.id  BY <1>6 DEF AnswerOf
<1>8. WireOK'
  <2>1. \A p \in InLine(replies') : p.id \in Nat /\ p.id < nextId  BY <1>2, <1>7, <1>w DEF WireOK
  <2> QED BY <1>1, <1>4, <1>w, <2>1 DEF WireOK, Takes
<1>9. DaemonOK'  BY <1>2, <1>3, <1>4, <1>w DEF DaemonOK
<1>10. ASSUME FramesInv PROVE FramesInv'
  <2>1. FramesAreOnce' /\ \A f \in Frames' : f.id # q.id /\ f \in Frames
    BY <1>1, <1>10 DEF FramesInv, Takes
  <2>2. FramesAreUndone'  BY <1>3, <1>7, <1>10, <2>1 DEF FramesInv, FramesAreUndone
  <2>3. HandlersKnowCalls'  BY <1>4, <1>10, <2>1 DEF FramesInv, HandlersKnowCalls
  <2> QED BY <2>1, <2>2, <2>3 DEF FramesInv
<1>11. ASSUME FramesInv, ItemsAreRows, RepliesAreTrue PROVE RepliesAreTrue'
  <2> SUFFICES ASSUME NEW p \in InLine(replies'), NEW h \in handlers,
                      p.id = h.id, h.call.op = "apply", p.result.ok
               PROVE  Tells(p.result, h)'
    BY <1>4 DEF RepliesAreTrue
  <2>1. CASE p \in InLine(replies)
    <3>1. Tells(p.result, h)  BY <1>11, <2>1 DEF RepliesAreTrue
    <3>2. h.id # q.id  BY <1>2, <1>11, <2>1 DEF FramesInv, FramesAreUndone
    <3>3. \A i : [id |-> h.id, item |-> h.call.items[i]].id # q.id  BY <3>2
    <3>4. \A i : [id |-> h.id, item |-> h.call.items[i]] \in performed'
                   <=> [id |-> h.id, item |-> h.call.items[i]] \in performed
      BY <1>3, <3>3
    <3> QED BY <3>1, <3>4 DEF Tells
  <2>2. CASE p \notin InLine(replies)
    <3>1. PICK result : p = AnswerOf(q, result) /\ IsTold(q, result)  BY <1>6, <2>2
    <3>2. p.id = q.id /\ p.result = result  BY <3>1 DEF AnswerOf
    <3>3. h = q  BY <1>2, <1>11, <3>2 DEF FramesInv, HandlersKnowCalls
    <3>4. /\ result.applied \cap result.failed = {} /\ result.applied \cup result.failed \subseteq DOMAIN h.call.items
          /\ performed' = performed \cup {[id |-> h.id, item |-> h.call.items[i]] : i \in result.applied}
      BY <3>1, <3>3 DEF IsTold
    <3>5. \A i \in DOMAIN h.call.items : h.call.items[i].row = i  BY <1>11 DEF ItemsAreRows, ItemIsRow
    <3>6. ASSUME NEW i \in result.failed PROVE [id |-> h.id, item |-> h.call.items[i]] \notin performed'
      <4>1. [id |-> h.id, item |-> h.call.items[i]].id = q.id  BY <3>3
      <4>2. [id |-> h.id, item |-> h.call.items[i]] \notin performed
        BY <1>2, <1>11, <4>1 DEF FramesInv, FramesAreUndone
      <4>3. ASSUME NEW j \in result.applied,
                   [id |-> h.id, item |-> h.call.items[i]] = [id |-> h.id, item |-> h.call.items[j]]
            PROVE  FALSE
        <5>1. h.call.items[i] = h.call.items[j]
          <6>1. [id |-> h.id, item |-> h.call.items[i]].item = [id |-> h.id, item |-> h.call.items[j]].item
            BY <4>3
          <6> QED BY <6>1
        <5>2. i = j  BY <3>4, <3>5, <5>1
        <5> QED BY <3>4, <5>2
      <4> QED BY <3>4, <4>2, <4>3
    <3> QED BY <3>2, <3>4, <3>6 DEF Tells
  <2> QED BY <2>1, <2>2
<1> QED BY <1>8, <1>9, <1>10, <1>11

LEMMA LoseStep ==
  ASSUME TypeInv, Lose
  PROVE  WireOK' /\ (FramesInv => FramesInv') /\ RepliesAreTrue'
<1>1. PICK n \in 0 .. Len(requests) : orphans' = orphans \o SubSeq(requests, 1, n)  BY DEF Lose
<1>2. requests' = <<>> /\ replies' = <<>> /\ UNCHANGED <<nextId, handlers, performed>>
  BY DEF Lose, daemon
<1>w. WireOK /\ requests \in Seq(Sent) /\ orphans \in Seq(Sent) /\ Frames \subseteq Sent
  BY FramesAreSent DEF TypeInv, WireOK
<1> DEFINE first == SubSeq(requests, 1, n)
<1>3. /\ first \in Seq(Sent) /\ InLine(first) \subseteq InLine(requests)
      /\ Rising(requests) => Rising(first)
  BY <1>w, PrefixOfLine
<1>4. InLine(requests') = {} /\ InLine(replies') = {} /\ Rising(requests') /\ requests' \in Seq(Sent)
  <2>1. Len(<<>>) = 0  OBVIOUS
  <2>2. InLine(<<>>) = {} /\ Rising(<<>>)  BY <2>1 DEF InLine, Rising
  <2> QED BY <1>2, <2>2
<1>o. orphans' = orphans \o first  BY <1>1
<1> HIDE DEF first
<1>5. /\ orphans' \in Seq(Sent) /\ InLine(orphans') = InLine(orphans) \cup InLine(first)
      /\ Rising(orphans) /\ Rising(first) /\ (\A f \in InLine(orphans), g \in InLine(first) : f.id < g.id)
           => Rising(orphans')
  BY <1>o, <1>w, <1>3, JoinedLine
<1>6. Frames' \subseteq Frames  BY <1>3, <1>4, <1>5 DEF Frames
<1>7. WireOK'  BY <1>2, <1>4, <1>5, <1>6, <1>w DEF WireOK
<1>8. ASSUME FramesInv PROVE FramesInv'
  <2>1. FramesAreOnce'  BY <1>3, <1>4, <1>5, <1>8 DEF FramesInv, FramesAreOnce
  <2>2. FramesAreUndone'  BY <1>2, <1>4, <1>6, <1>8 DEF FramesInv, FramesAreUndone
  <2>3. HandlersKnowCalls'  BY <1>2, <1>6, <1>8 DEF FramesInv, HandlersKnowCalls
  <2> QED BY <2>1, <2>2, <2>3 DEF FramesInv
<1>9. RepliesAreTrue'  BY <1>4 DEF RepliesAreTrue
<1> QED BY <1>7, <1>8, <1>9

-----------------------------------------------------------------------------
(* The link, the dialog and the window. *)

(* Without a connection no handler is registered. *)
LEMMA WithoutLink ==
  ASSUME TypeInv, Next, link # "up" PROVE handlers' \subseteq handlers
<1>1. CASE Waits  BY <1>1 DEF Waits
<1>2. CASE Sends  BY <1>2 DEF Sends, SendsThese, SendAfter
<1>3. CASE applyStartupSdoRows  BY <1>3 DEF applyStartupSdoRows, Send, SendAfter
<1>4. CASE Dispatch \/ DispatchOrphan  BY <1>4 DEF Dispatch, DispatchOrphan, Perform
<1>5. CASE Lose  BY <1>5 DEF Lose
<1> QED BY <1>1, <1>2, <1>3, <1>4, <1>5, WireSteps

LEMMA LinkMoves ==
  ASSUME Next PROVE UNCHANGED link \/ Lose \/ flushPendingSdoState \/ Reconnect
BY DEF Next, User, Daemon, Client, Faults, Watch, addStartupSdo, EditField, OpenWrite, ServiceDownload,
       RefuseBlanks, verifyStartupSdoRow, OpenApplyRow, removeStartupSdo, moveStartupSdoRow, OpenApply, writeCurrentSdo,
       applyStartupSdoRow, applyStartupSdoRows, Cancel, verifyStartupSdoList, clearSdoHistory,
       clearOnlineViews, Dispatch, DispatchOrphan, Perform, Receive, CallLost, Sweep

(* The parts of the type invariant, one by one. *)
LEMMA LinkOKStep == ASSUME TypeInv, Next PROVE LinkOK'
<1>1. LinkOK  BY DEF TypeInv
<1>2. CASE UNCHANGED link  BY <1>1, <1>2, WithoutLink DEF LinkOK
<1>3. CASE Lose  BY <1>3 DEF Lose, LinkOK
<1>4. CASE flushPendingSdoState  BY <1>4 DEF flushPendingSdoState, LinkOK, wire
<1>5. CASE Reconnect  BY <1>5 DEF Reconnect, LinkOK
<1> QED BY <1>2, <1>3, <1>4, <1>5, LinkMoves

LEMMA DaemonUnchanged == ASSUME Next, ~Dispatch, ~DispatchOrphan PROVE UNCHANGED <<object, performed>>
BY DEF Next, User, Daemon, Client, Faults, Watch, addStartupSdo, EditField, OpenWrite, ServiceDownload,
       RefuseBlanks, verifyStartupSdoRow, OpenApplyRow, removeStartupSdo, moveStartupSdoRow, OpenApply, writeCurrentSdo,
       applyStartupSdoRow, applyStartupSdoRows, Cancel, verifyStartupSdoList, clearSdoHistory,
       clearOnlineViews, ForgetPending, Receive, CallLost, Sweep, Lose, flushPendingSdoState, Reconnect, daemon

LEMMA IdsGrow == ASSUME TypeInv, Next PROVE nextId \in Nat /\ nextId' \in Nat /\ nextId <= nextId'
<1>0. nextId \in Nat  BY DEF TypeInv, WireOK
<1>s. ASSUME NEW kept, NEW calls \in Seq(Calls), SendAfter(kept, calls)
      PROVE  nextId' \in Nat /\ nextId <= nextId'
  <2>1. Len(calls) \in Nat  OBVIOUS
  <2>2. nextId' = nextId \/ nextId' = nextId + Len(calls)  BY <1>s DEF SendAfter
  <2> QED BY <1>0, <2>1, <2>2
<1>1. CASE Waits  BY <1>0, <1>1 DEF Waits
<1>2. CASE Sends  BY <1>0, <1>s, <1>2 DEF Sends, SendsThese
<1>3. CASE applyStartupSdoRows
  <2>1. PICK items \in Seq(Items) : SendAfter(handlers, <<Apply(items)>>)
    BY <1>3, ApplySends DEF Applies, SendsThese
  <2>2. <<Apply(items)>> \in Seq(Calls)  BY DEF Apply, Calls
  <2> QED BY <1>0, <1>s, <2>1, <2>2
<1>4. CASE Dispatch \/ DispatchOrphan
  <2>1. nextId' = nextId  BY <1>4 DEF Dispatch, DispatchOrphan, Perform
  <2> QED BY <1>0, <2>1
<1>5. CASE Lose  BY <1>0, <1>5 DEF Lose
<1> QED BY <1>0, <1>1, <1>2, <1>3, <1>4, <1>5, WireSteps

LEMMA DaemonOKStep == ASSUME TypeInv, Next PROVE DaemonOK'
<1>1. CASE Dispatch \/ DispatchOrphan  BY <1>1, FrameStep
<1>2. CASE ~Dispatch /\ ~DispatchOrphan
  <2>1. UNCHANGED <<object, performed>>  BY <1>2, DaemonUnchanged
  <2>2. DaemonOK /\ nextId \in Nat /\ nextId' \in Nat /\ nextId <= nextId'  BY IdsGrow DEF TypeInv
  <2>3. \A d \in performed : d.id < nextId'
    <3> TAKE d \in performed
    <3>1. d.id \in Nat /\ d.id < nextId  BY <2>2 DEF DaemonOK
    <3> QED BY <2>2, <3>1
  <2> QED BY <2>1, <2>2, <2>3 DEF DaemonOK
<1> QED BY <1>1, <1>2

LEMMA WireOKStep ==
  ASSUME TypeInv, Next
  PROVE  WireOK' /\ (FramesInv => FramesInv')
<1>1. CASE Waits  BY <1>1, WaitsKeeps
<1>2. CASE Sends
  <2>1. PICK kept \in SUBSET handlers, calls \in Seq(Calls) : SendsThese(kept, calls)  BY <1>2 DEF Sends
  <2> QED BY <2>1, SendsKeeps
<1>3. CASE applyStartupSdoRows
  <2>1. PICK items \in Seq(Items) : SendsThese(handlers, <<Apply(items)>>)
    BY <1>3, ApplySends DEF Applies
  <2>2. <<Apply(items)>> \in Seq(Calls) /\ handlers \in SUBSET handlers  BY DEF Apply, Calls
  <2> QED BY <2>1, <2>2, SendsKeeps
<1>4. CASE Dispatch \/ DispatchOrphan  BY <1>4, FrameStep
<1>5. CASE Lose  BY <1>5, LoseStep
<1> QED BY <1>1, <1>2, <1>3, <1>4, <1>5, WireSteps

-----------------------------------------------------------------------------
(* What becomes of a row. *)

IsJudged == \E h \in handlers :
  /\ replies # <<>> /\ h.id = Head(replies).id /\ h.call.op = "apply" /\ Head(replies).result.ok
  /\ startupSdoResults(Head(replies).result.applied, Head(replies).result.failed)

Quiet == {"Verifying", "Applying", "Validation Error"} \* no verdict of the daemon's

RowsStay ==
  UNCHANGED moved /\ \/ UNCHANGED rows \/ IsJudged
                     \/ \E S, s : s \in Quiet /\ rows' = SetStatus(S, s)
                     \/ \E k, v : rows' = Judged(k, v)
                     \/ \E x : rows' = Append(rows, x)

LEMMA AnswersMoveRows == ASSUME Receive \/ CallLost PROVE RowsStay
<1> USE DEF shown, pending, bounds, RowsStay
<1>1. CASE Receive
  <2>1. UNCHANGED moved /\ replies # <<>>  BY <1>1 DEF Receive
  <2>2. UNCHANGED rows \/ (\E k, v : rows' = Judged(k, v)) \/ IsJudged
    BY <1>1 DEF Receive, Nothing, handleSdoValueResponse, DownloadComplete, IsJudged
  <2> QED BY <2>1, <2>2
<1>2. CASE CallLost  BY <1>2 DEF CallLost, Nothing, handleSdoValueResponse, DownloadComplete
<1> QED BY <1>1, <1>2

LEMMA RowMoves == ASSUME Next PROVE moved' = TRUE \/ RowsStay
<1> USE DEF shown, pending, bounds, unstarted, RowsStay
<1>0. CASE (\E v \in Texts : EditField(v)) \/ \E S : RefuseBlanks(S)
  BY <1>0 DEF EditField, RefuseBlanks, Quiet
<1>1. CASE \E k \in Keys : Watch(k) \/ OpenWrite(k) \/ \E v \in Values : ServiceDownload(k, v)
  BY <1>1 DEF Watch, OpenWrite, ServiceDownload
<1>2. CASE \E k \in Keys : addStartupSdo(k)  BY <1>2 DEF addStartupSdo
<1>3. CASE \E r \in DOMAIN rows : verifyStartupSdoRow(r) \/ OpenApplyRow(r)
  BY <1>3 DEF verifyStartupSdoRow, OpenApplyRow, Quiet
<1>4. CASE \E r \in DOMAIN rows : removeStartupSdo(r) \/ moveStartupSdoRow(r)
  BY <1>4 DEF removeStartupSdo, moveStartupSdoRow, Moves
<1>5. CASE (\E S \in Selections : OpenApply(S)) \/ Cancel \/ clearSdoHistory \/ clearOnlineViews
  BY <1>5 DEF OpenApply, Cancel, clearSdoHistory, clearOnlineViews, ForgetPending
<1>6. CASE writeCurrentSdo \/ applyStartupSdoRow \/ applyStartupSdoRows
  BY <1>6 DEF writeCurrentSdo, applyStartupSdoRow, applyStartupSdoRows, Write, Quiet
<1>7. CASE verifyStartupSdoList  BY <1>7 DEF verifyStartupSdoList, Quiet
<1>8. CASE Dispatch \/ DispatchOrphan  BY <1>8 DEF Dispatch, DispatchOrphan, Perform
<1>9. CASE Receive \/ CallLost  BY <1>9, AnswersMoveRows
<1>11. CASE flushPendingSdoState \/ Reconnect \/ Sweep \/ Lose
  BY <1>11 DEF flushPendingSdoState, Reconnect, Sweep, Lose, Nothing
<1> QED BY <1>0, <1>1, <1>2, <1>3, <1>4, <1>5, <1>6, <1>7, <1>8, <1>9, <1>11
       DEF Next, User, Daemon, Client, Faults

LEMMA RowsKeepItems ==
  ASSUME TypeInv, RowsStay, NEW r \in DOMAIN rows
  PROVE  r \in DOMAIN rows' /\ rows'[r].key = rows[r].key /\ rows'[r].value = rows[r].value
<1>1. rows \in Seq(Row)  BY DEF TypeInv, SdoInvariantParts, SdoInv, Typed
<1>2. rows[r] \in Row /\ r \in 1 .. Len(rows) /\ Len(rows) \in Nat  BY <1>1
<1>3. rows[r] = [key |-> rows[r].key, value |-> rows[r].value, status |-> rows[r].status]  BY <1>2 DEF Row
<1>4. \A s : [rows[r] EXCEPT !.status = s].key = rows[r].key /\ [rows[r] EXCEPT !.status = s].value = rows[r].value
  BY <1>3
<1>5. CASE UNCHANGED rows  BY <1>5
<1>6. CASE IsJudged
  <2>1. r \in DOMAIN rows' /\ \/ rows'[r] = rows[r]
                              \/ \E s : rows'[r] = [rows[r] EXCEPT !.status = s]
    BY <1>6 DEF IsJudged, startupSdoResults
  <2> QED BY <1>4, <2>1
<1>7. CASE \E S, s : rows' = SetStatus(S, s)
  <2>1. r \in DOMAIN rows' /\ \/ rows'[r] = rows[r]
                              \/ \E s : rows'[r] = [rows[r] EXCEPT !.status = s]
    BY <1>7 DEF SetStatus
  <2> QED BY <1>4, <2>1
<1>8. CASE \E k, v : rows' = Judged(k, v)
  <2>1. r \in DOMAIN rows' /\ \/ rows'[r] = rows[r]
                              \/ \E s : rows'[r] = [rows[r] EXCEPT !.status = s]
    BY <1>8 DEF Judged
  <2> QED BY <1>4, <2>1
<1>9. CASE \E x : rows' = Append(rows, x)
  <2>1. PICK x : rows' = Append(rows, x)  BY <1>9
  <2>2. rows \in Seq(Row \cup {x}) /\ x \in Row \cup {x}  BY <1>1, SeqMonotonic
  <2>3. DOMAIN rows' = 1 .. Len(rows) + 1 /\ rows'[r] = rows[r]  BY <1>2, <2>1, <2>2
  <2> QED BY <1>2, <2>3
<1> QED BY <1>5, <1>6, <1>7, <1>8, <1>9 DEF RowsStay

-----------------------------------------------------------------------------
(* What the open dialog asks about. *)

LEMMA DialogKept == ASSUME TypeInv, UNCHANGED <<dialog, field>>, RowsStay PROVE DialogOK'
<1>1. \A r \in DOMAIN rows : r \in DOMAIN rows' /\ rows'[r].value = rows[r].value  BY RowsKeepItems
<1> QED BY <1>1 DEF TypeInv, DialogOK

LEMMA DialogOKStep == ASSUME TypeInv, Next PROVE DialogOK'
<1>r. /\ rows \in Seq(Row) /\ Len(rows) \in Nat /\ DOMAIN rows = 1 .. Len(rows) /\ Len(rows) <= MaxRows
      /\ MaxRows \in Nat
      /\ \A r \in DOMAIN rows : rows[r].key \in Keys /\ rows[r].value \in Texts
  <2>1. rows \in Seq(Row) /\ Len(rows) <= MaxRows  BY DEF TypeInv, SdoInvariantParts, SdoInv, Typed, WindowOK
  <2>2. \A r \in DOMAIN rows : rows[r] \in Row  BY <2>1
  <2>3. \A r \in DOMAIN rows : rows[r].key \in Keys /\ rows[r].value \in Texts  BY <2>2 DEF Row
  <2> QED BY <2>1, <2>3, SdoAssumption
<1>n. ASSUME dialog' = None PROVE DialogOK'  BY <1>n DEF DialogOK
<1>1. CASE \E k \in Keys : Watch(k) \/ \E v \in Values : ServiceDownload(k, v)
  BY <1>1, DialogKept DEF Watch, ServiceDownload, shown, unstarted, RowsStay
<1>2. CASE (\E k \in Keys : addStartupSdo(k)) \/ (\E v \in Texts : EditField(v)) \/ \E S : RefuseBlanks(S)
  BY <1>2, <1>n DEF addStartupSdo, EditField, RefuseBlanks, NoDialog
<1>3. CASE \E k \in Keys : OpenWrite(k)
  <2>1. field \in Values  BY <1>3, TextsType DEF OpenWrite, TypeInv, SdoInvariantParts, SdoInv, Typed
  <2> QED BY <1>3, <2>1 DEF OpenWrite, DialogOK
<1>4. CASE \E r \in DOMAIN rows : verifyStartupSdoRow(r)  BY <1>4, <1>n DEF verifyStartupSdoRow, NoDialog
<1>v. \A r \in DOMAIN rows : rows[r].value # Blank => rows[r].value \in Values  BY <1>r, TextsType
<1>5. CASE \E r \in DOMAIN rows : OpenApplyRow(r)
  <2>1. PICK r \in DOMAIN rows : OpenApplyRow(r)  BY <1>5
  <2>2. rows[r].value \in Values  BY <1>v, <2>1 DEF OpenApplyRow, Blanks
  <2> QED BY <1>r, <2>1, <2>2 DEF OpenApplyRow, DialogOK
<1>6. CASE \E r \in DOMAIN rows : removeStartupSdo(r) \/ moveStartupSdoRow(r)
  BY <1>6, <1>n DEF removeStartupSdo, moveStartupSdoRow, Moves, NoDialog
<1>7. CASE \E S \in Selections : OpenApply(S)
  <2>1. PICK S \in Selections : OpenApply(S)  BY <1>7
  <2>2. S \subseteq DOMAIN rows /\ \A r \in S : rows[r].value \in Values  BY <1>v, <2>1 DEF OpenApply, Blanks
  <2> QED BY <2>1, <2>2 DEF OpenApply, DialogOK, shown
<1>8. CASE writeCurrentSdo \/ applyStartupSdoRow \/ applyStartupSdoRows \/ Cancel
  BY <1>8, <1>n DEF writeCurrentSdo, applyStartupSdoRow, applyStartupSdoRows, Cancel
<1>9. CASE verifyStartupSdoList \/ clearSdoHistory \/ clearOnlineViews
  BY <1>9, <1>n DEF verifyStartupSdoList, clearSdoHistory, clearOnlineViews, ForgetPending, NoDialog
<1>10. CASE Dispatch \/ DispatchOrphan \/ Sweep \/ Lose \/ Reconnect \/ flushPendingSdoState
  BY <1>10, DialogKept DEF Dispatch, DispatchOrphan, Perform, Sweep, Nothing, Lose, Reconnect,
                           flushPendingSdoState, shown, bounds, RowsStay
<1>11. CASE Receive \/ CallLost
  <2>1. UNCHANGED <<dialog, field>>  BY <1>11 DEF Receive, CallLost
  <2> QED BY <1>11, <2>1, AnswersMoveRows, DialogKept
<1> QED BY <1>1, <1>2, <1>3, <1>4, <1>5, <1>6, <1>7, <1>8, <1>9, <1>10, <1>11
       DEF Next, User, Daemon, Client, Faults

-----------------------------------------------------------------------------
(* What the window keeps. *)
ShownType == evidence \in [Keys -> Evidence] /\ verdict \in Pending(Verdicts)

LEMMA TableLength ==
  ASSUME rows \in Seq(Row), NEW r \in DOMAIN rows
  PROVE  /\ r + 1 \in DOMAIN rows => Len([rows EXCEPT ![r] = rows[r + 1], ![r + 1] = rows[r]]) = Len(rows)
         /\ Len(SubSeq(rows, 1, r - 1) \o SubSeq(rows, r + 1, Len(rows))) <= Len(rows)
<1>1. r \in 1 .. Len(rows) /\ Len(rows) \in Nat  OBVIOUS
<1>2. Len(SubSeq(rows, 1, r - 1)) = r - 1 /\ SubSeq(rows, 1, r - 1) \in Seq(Row)  BY <1>1
<1>3. Len(SubSeq(rows, r + 1, Len(rows))) = Len(rows) - r /\ SubSeq(rows, r + 1, Len(rows)) \in Seq(Row)
  BY <1>1
<1>4. Len(SubSeq(rows, 1, r - 1) \o SubSeq(rows, r + 1, Len(rows))) = (r - 1) + (Len(rows) - r)
  BY <1>2, <1>3
<1> QED BY <1>1, <1>4

LEMMA SameLength ==
  ASSUME rows \in Seq(Row), DOMAIN rows' = DOMAIN rows, rows' \in Seq(Row) PROVE Len(rows') = Len(rows)
<1>1. DOMAIN rows = 1 .. Len(rows) /\ DOMAIN rows' = 1 .. Len(rows') /\ Len(rows) \in Nat /\ Len(rows') \in Nat
  OBVIOUS
<1> QED BY <1>1

LEMMA RowsKept ==
  ASSUME rows \in Seq(Row), Len(rows) <= MaxRows, rows' \in Seq(Row),
         \/ UNCHANGED rows \/ (\E S, s : rows' = SetStatus(S, s)) \/ (\E k, v : rows' = Judged(k, v))
         \/ \E A, F : startupSdoResults(A, F)
  PROVE  Len(rows') <= MaxRows
<1>1. DOMAIN rows' = DOMAIN rows  BY DEF SetStatus, Judged, startupSdoResults
<1> QED BY <1>1, SameLength

LEMMA ResponseShows ==
  ASSUME TypeInv, NEW k \in Keys, NEW v, NEW at \in Nat, handleSdoValueResponse(k, v, at)
  PROVE  /\ reads' \subseteq Keys /\ writes' \in [Keys -> Pending(Values)]
         /\ checks' \in [Keys -> SUBSET (1 .. MaxRows)] /\ ShownType'
<1>1. WindowOK /\ Typed  BY DEF TypeInv, SdoInvariantParts, SdoInv
<1>2. reads' \subseteq Keys /\ writes' \in [Keys -> Pending(Values)] /\ checks' \in [Keys -> SUBSET (1 .. MaxRows)]
  BY <1>1 DEF WindowOK, handleSdoValueResponse
<1>3. evidence' \in [Keys -> Evidence]
  <2>1. \E s \in Evidence : evidence' = [evidence EXCEPT ![k] = s]
    BY DEF handleSdoValueResponse, Evidence
  <2> QED BY <1>1, <2>1 DEF WindowOK
<1>4. verdict' \in Pending(Verdicts)
  <2>1. CASE verifications[k] = None  BY <1>1, <2>1 DEF handleSdoValueResponse, WindowOK
  <2>2. CASE verifications[k] # None
    <3>1. verifications[k].written \in Nat /\ verifications[k].expected \in Texts
      BY <1>1, <2>2 DEF Typed, Pending
    <3>2. verdict' = [ok |-> verifications[k].expected = v, expected |-> verifications[k].expected,
                      read |-> at, written |-> verifications[k].written]
      BY <2>2 DEF handleSdoValueResponse
    <3>3. (verifications[k].expected = v) \in BOOLEAN  OBVIOUS
    <3> QED BY <3>1, <3>2, <3>3 DEF Pending, Verdicts
  <2> QED BY <2>1, <2>2
<1> QED BY <1>2, <1>3, <1>4 DEF ShownType

LEMMA CompletionShows ==
  ASSUME TypeInv, NEW k \in Keys, NEW kept, NEW at, DownloadComplete(k, kept, at)
  PROVE  /\ reads' \subseteq Keys /\ writes' \in [Keys -> Pending(Values)]
         /\ checks' \in [Keys -> SUBSET (1 .. MaxRows)] /\ ShownType'
<1>1. WindowOK  BY DEF TypeInv
<1>2. evidence' \in [Keys -> Evidence]  BY <1>1 DEF WindowOK, DownloadComplete, Evidence
<1> QED BY <1>1, <1>2 DEF WindowOK, DownloadComplete, ShownType, Pending

LEMMA WindowOKStep == ASSUME TypeInv, Next PROVE WindowOK'
<1> USE DEF pending, shown
<1>w. /\ WindowOK /\ Typed /\ DialogOK /\ KnownKeys /\ rows \in Seq(Row) /\ Len(rows) <= MaxRows /\ ShownType
      /\ clock \in Nat /\ MaxRows \in Nat
  BY SdoAssumption DEF TypeInv, SdoInvariantParts, SdoInv, Typed, WindowOK, ShownType
<1>r. \A r \in DOMAIN rows : rows[r].key \in Keys /\ r \in 1 .. MaxRows
  <2>1. \A r \in DOMAIN rows : rows[r] \in Row /\ r \in 1 .. Len(rows)  BY <1>w
  <2> QED BY <1>w, <2>1 DEF Row
<1>p. rows' \in Seq(Row)
  <2>1. SdoInvariantParts'  BY SdoStep DEF TypeInv
  <2> QED BY <2>1 DEF SdoInvariantParts, SdoInv, Typed
<1>1. CASE \E k \in Keys : Watch(k) \/ \E v \in Values : ServiceDownload(k, v)
  BY <1>1, <1>w DEF Watch, ServiceDownload, RequestRead, WindowOK
<1>2. CASE \E k \in Keys : addStartupSdo(k)
  <2>1. UNCHANGED <<pending, evidence, verdict>> /\ Len(rows) < MaxRows /\ \E x : rows' = Append(rows, x)
    BY <1>2 DEF addStartupSdo
  <2>2. Len(rows') = Len(rows) + 1  BY <1>w, <2>1
  <2>3. Len(rows') <= MaxRows  BY <1>w, <2>1, <2>2
  <2> QED BY <1>w, <2>1, <2>3 DEF WindowOK
<1>3. CASE \/ \E k \in Keys : OpenWrite(k)
           \/ \E v \in Texts : EditField(v)
           \/ \E r \in DOMAIN rows : OpenApplyRow(r)
           \/ \E S \in Selections : OpenApply(S)
           \/ Cancel \/ Dispatch \/ DispatchOrphan \/ Sweep \/ Lose \/ Reconnect
  <2>1. UNCHANGED <<pending, evidence, verdict, rows>>
    BY <1>3 DEF OpenWrite, EditField, OpenApplyRow, OpenApply, Cancel, Dispatch, DispatchOrphan, Perform, Sweep, Nothing,
                Lose, Reconnect
  <2> QED BY <1>w, <2>1 DEF WindowOK
<1>0. CASE \E S : RefuseBlanks(S)
  <2>1. Len(rows') <= MaxRows  BY <1>w, <1>p, <1>0, RowsKept DEF RefuseBlanks
  <2> QED BY <1>w, <1>0, <2>1 DEF WindowOK, RefuseBlanks
<1>4. CASE \E r \in DOMAIN rows : verifyStartupSdoRow(r)
  <2>1. PICK r \in DOMAIN rows : verifyStartupSdoRow(r)  BY <1>4
  <2>2. Len(rows') <= MaxRows  BY <1>w, <1>p, <2>1, RowsKept DEF verifyStartupSdoRow
  <2>3. checks' \in [Keys -> SUBSET (1 .. MaxRows)] /\ reads' \subseteq Keys
    BY <1>w, <1>r, <2>1 DEF verifyStartupSdoRow, RequestRead, WindowOK
  <2> QED BY <1>w, <2>1, <2>2, <2>3 DEF verifyStartupSdoRow, WindowOK
<1>5. CASE \E r \in DOMAIN rows : removeStartupSdo(r) \/ moveStartupSdoRow(r)
  <2>1. PICK r \in DOMAIN rows : removeStartupSdo(r) \/ moveStartupSdoRow(r)  BY <1>5
  <2>2. UNCHANGED <<pending, evidence, verdict>>  BY <2>1 DEF removeStartupSdo, moveStartupSdoRow
  <2>3. Len(rows') <= Len(rows)  BY <1>w, <2>1, TableLength DEF removeStartupSdo, moveStartupSdoRow
  <2>4. Len(rows') <= MaxRows  BY <1>w, <1>p, <2>3
  <2> QED BY <1>w, <2>2, <2>4 DEF WindowOK
<1>6. CASE writeCurrentSdo
  <2>1. dialog.key \in Keys /\ field \in Values  BY <1>6, <1>w DEF writeCurrentSdo, DialogOK
  <2>2. /\ writes' = [writes EXCEPT ![dialog.key] = field]
        /\ evidence' = [evidence EXCEPT ![dialog.key] = "Write Pending"]
        /\ UNCHANGED <<reads, checks, rows, verdict>>
    BY <1>6 DEF writeCurrentSdo, Write
  <2> QED BY <1>w, <2>1, <2>2 DEF WindowOK, Pending, Evidence
<1>7. CASE applyStartupSdoRow
  <2>1. dialog.key \in Keys /\ dialog.value \in Values /\ dialog.row \in 1 .. MaxRows
    BY <1>7, <1>w DEF applyStartupSdoRow, DialogOK
  <2>2. Len(rows') <= MaxRows  BY <1>w, <1>p, <1>7, RowsKept DEF applyStartupSdoRow
  <2> QED BY <1>w, <1>7, <2>1, <2>2 DEF WindowOK, Pending, applyStartupSdoRow
<1>8. CASE applyStartupSdoRows
  <2>1. Len(rows') <= MaxRows  BY <1>w, <1>p, <1>8, RowsKept DEF applyStartupSdoRows
  <2> QED BY <1>w, <1>8, <2>1 DEF WindowOK, applyStartupSdoRows
<1>9. CASE verifyStartupSdoList
  <2>1. Len(rows') <= MaxRows  BY <1>w, <1>p, <1>9, RowsKept DEF verifyStartupSdoList
  <2>2. checks' \in [Keys -> SUBSET (1 .. MaxRows)] /\ reads' \subseteq Keys
    BY <1>w, <1>r, <1>9 DEF verifyStartupSdoList, WindowOK
  <2> QED BY <1>w, <1>9, <2>1, <2>2 DEF WindowOK, verifyStartupSdoList
<1>10. CASE clearSdoHistory \/ clearOnlineViews
  <2>1. UNCHANGED rows /\ ForgetPending /\ (UNCHANGED evidence \/ evidence' = [k \in Keys |-> "none"])
    BY <1>10 DEF clearSdoHistory, clearOnlineViews
  <2> QED BY <1>w, <2>1 DEF WindowOK, ForgetPending, Pending, Evidence
<1>11. CASE Receive
  <2>1. CASE \E kept : Nothing(kept)  BY <1>w, <2>1 DEF Nothing, WindowOK
  <2>2. CASE \E h \in handlers :
               h.call.op = "upload" /\ \E v : handleSdoValueResponse(h.call.key, v, Head(replies).at)
    <3>1. PICK h \in handlers : h.call.op = "upload" /\ \E v : handleSdoValueResponse(h.call.key, v, Head(replies).at)
      BY <2>2
    <3>2. h.call.key \in Keys  BY <1>w, <3>1 DEF KnownKeys, IsKnown
    <3>3. Head(replies).at \in Nat
      <4>1. Head(replies).at \in 1 .. clock
        BY <1>11, FrontIsEarliest DEF Receive, TypeInv, SdoInvariantParts, daemon
      <4> QED BY <1>w, <4>1
    <3>4. Len(rows') <= MaxRows  BY <1>w, <1>p, <3>1, RowsKept DEF handleSdoValueResponse
    <3> QED BY <3>1, <3>2, <3>3, <3>4, ResponseShows DEF ShownType, WindowOK
  <2>3. CASE \E h \in handlers : h.call.op = "download" /\ \E kept, at : DownloadComplete(h.call.key, kept, at)
    <3>1. PICK h \in handlers : h.call.op = "download" /\ \E kept, at : DownloadComplete(h.call.key, kept, at)
      BY <2>3
    <3>2. h.call.key \in Keys  BY <1>w, <3>1 DEF KnownKeys, IsKnown
    <3>3. Len(rows') <= MaxRows  BY <1>w, <3>1 DEF DownloadComplete
    <3> QED BY <3>1, <3>2, <3>3, CompletionShows DEF ShownType, WindowOK
  <2>4. CASE (\E A, F : startupSdoResults(A, F)) /\ UNCHANGED <<pending, evidence, verdict>>
    <3>1. Len(rows') <= MaxRows  BY <1>w, <1>p, <2>4, RowsKept
    <3> QED BY <1>w, <2>4, <3>1 DEF WindowOK
  <2> QED BY <1>11, <2>1, <2>2, <2>3, <2>4 DEF Receive
<1>12. CASE CallLost
  <2>1. CASE \E kept : Nothing(kept)  BY <1>w, <2>1 DEF Nothing, WindowOK
  <2>2. CASE \E h \in handlers : h.call.op = "upload" /\ handleSdoValueResponse(h.call.key, Blank, clock)
    <3>1. PICK h \in handlers : h.call.op = "upload" /\ handleSdoValueResponse(h.call.key, Blank, clock)
      BY <2>2
    <3>2. h.call.key \in Keys  BY <1>w, <3>1 DEF KnownKeys, IsKnown
    <3>4. Len(rows') <= MaxRows  BY <1>w, <1>p, <3>1, RowsKept DEF handleSdoValueResponse
    <3> QED BY <1>w, <3>1, <3>2, <3>4, ResponseShows DEF ShownType, WindowOK
  <2>3. CASE \E h \in handlers : h.call.op = "download" /\ \E kept, at : DownloadComplete(h.call.key, kept, at)
    <3>1. PICK h \in handlers : h.call.op = "download" /\ \E kept, at : DownloadComplete(h.call.key, kept, at)
      BY <2>3
    <3>2. h.call.key \in Keys  BY <1>w, <3>1 DEF KnownKeys, IsKnown
    <3>3. Len(rows') <= MaxRows  BY <1>w, <3>1 DEF DownloadComplete
    <3> QED BY <3>1, <3>2, <3>3, CompletionShows DEF ShownType, WindowOK
  <2> QED BY <1>12, <2>1, <2>2, <2>3 DEF CallLost
<1>13. CASE flushPendingSdoState
  <2>1. verdict' \in Pending(Verdicts)
    <3>1. CASE UNCHANGED verdict  BY <1>w, <3>1 DEF ShownType
    <3>2. CASE ~UNCHANGED verdict
      <4>1. PICK k \in Keys :
              /\ verifications[k] # None
              /\ verdict' = [ok |-> FALSE, expected |-> verifications[k].expected,
                             read |-> clock, written |-> verifications[k].written]
        BY <1>13, <3>2 DEF flushPendingSdoState
      <4>2. verifications[k].written \in Nat /\ verifications[k].expected \in Texts
        BY <1>w, <4>1 DEF Typed, Pending
      <4> QED BY <1>w, <4>1, <4>2 DEF Pending, Verdicts
    <3> QED BY <3>1, <3>2
  <2>2. evidence' \in [Keys -> Evidence]  BY <1>w, <1>13 DEF flushPendingSdoState, ShownType, Evidence
  <2> QED BY <1>w, <1>13, <2>1, <2>2 DEF flushPendingSdoState, WindowOK, Pending
<1> QED BY <1>0, <1>1, <1>2, <1>3, <1>4, <1>5, <1>6, <1>7, <1>8, <1>9, <1>10, <1>11, <1>12, <1>13
       DEF Next, User, Daemon, Client, Faults

-----------------------------------------------------------------------------
(* The type invariant holds throughout. *)

LEMMA TypeInit == Init => TypeInv
<1> SUFFICES ASSUME Init PROVE TypeInv  OBVIOUS
<1>1. SdoInvariantParts  BY SdoInit DEF Init, SdoInvariantParts, NoFramesWithoutLink, KnownKeys
<1>2. requests = <<>> /\ orphans = <<>> /\ replies = <<>> /\ nextId = 1 /\ handlers = {} /\ performed = {}
  BY DEF Init
<1>3. InLine(<<>>) = {}
  <2>1. Len(<<>>) = 0  OBVIOUS
  <2> QED BY <2>1 DEF InLine
<1>4. WireOK  BY <1>2, <1>3 DEF WireOK, Frames
<1>5. LinkOK /\ DaemonOK /\ DialogOK  BY DEF Init, LinkOK, DaemonOK, DialogOK
<1>6. Len(rows) <= MaxRows
  <2>1. Len(Table) \in Nat /\ DOMAIN Table = 1 .. Len(Table) /\ Len(Table) <= MaxRows  BY SdoAssumption
  <2>2. DOMAIN rows = 1 .. Len(Table)  BY <2>1 DEF Init
  <2>3. rows \in Seq(Row)  BY <1>1 DEF SdoInvariantParts, SdoInv, Typed
  <2>4. DOMAIN rows = 1 .. Len(rows) /\ Len(rows) \in Nat  BY <2>3
  <2>5. Len(rows) = Len(Table)  BY <2>1, <2>2, <2>4
  <2> QED BY <2>1, <2>5
<1>7. WindowOK  BY <1>6 DEF Init, WindowOK, Pending, Evidence
<1> QED BY <1>1, <1>4, <1>5, <1>7 DEF TypeInv

LEMMA TypeStep == ASSUME TypeInv, [Next]_vars PROVE TypeInv'
<1>0. SdoInvariantParts'  BY SdoStep DEF TypeInv
<1>1. CASE Next
  BY <1>0, <1>1, WireOKStep, LinkOKStep, DaemonOKStep, WindowOKStep, DialogOKStep DEF TypeInv
<1>2. CASE UNCHANGED vars
  <2> USE DEF vars, wire, daemon, pending, shown, bounds
  <2>1. WireOK'  BY <1>2 DEF TypeInv, WireOK, Frames, InLine
  <2>2. LinkOK' /\ DaemonOK'  BY <1>2 DEF TypeInv, LinkOK, DaemonOK
  <2>3. WindowOK' /\ DialogOK'  BY <1>2 DEF TypeInv, WindowOK, DialogOK
  <2> QED BY <1>0, <2>1, <2>2, <2>3 DEF TypeInv
<1> QED BY <1>1, <1>2

(* The type invariant and what it rests on: the frames have ids that were handed *)
(* out, and the open dialog asks about rows there are (EcatClient::send).        *)
THEOREM TypeInvariant == Spec => []TypeInv
<1>1. TypeInv /\ [Next]_vars => TypeInv'  BY TypeStep
<1> QED BY <1>1, TypeInit, PTL DEF Spec

LEMMA TypeIsOK == TypeInv => TypeOK
<1> SUFFICES ASSUME TypeInv PROVE TypeOK  OBVIOUS
<1>w. /\ WireOK /\ LinkOK /\ DaemonOK /\ WindowOK /\ Typed /\ AnswersInOrder /\ NoFramesWithoutLink
  BY DEF TypeInv, SdoInvariantParts, SdoInv
<1>1. \A i \in DOMAIN replies : replies[i].id < nextId /\ replies[i].at \in 1 .. clock
  <2>1. PICK S : replies \in Seq(S)  BY <1>w DEF AnswersInOrder
  <2>2. DOMAIN replies = 1 .. Len(replies)  BY <2>1
  <2>3. \A i \in 1 .. Len(replies) : replies[i] \in InLine(replies)  BY DEF InLine
  <2> QED BY <1>w, <2>2, <2>3 DEF WireOK, AnswersInOrder
<1>2. verifications \in [Keys -> Pending([expected : Texts, written : Nat])] /\ field \in Texts
  BY <1>w DEF Typed
<1>3. rows \in Seq([key : Keys, value : Texts, status : Statuses]) /\ clock \in Nat  BY <1>w DEF Typed, Row
<1> QED BY <1>w, <1>1, <1>2, <1>3
        DEF TypeOK, WireOK, LinkOK, DaemonOK, WindowOK, AnswersInOrder, NoFramesWithoutLink, Evidence,
            Verdicts

(* Every variable keeps its type; without a connection nothing is on its way to *)
(* the daemon, and once its handlers were called none is left.                  *)
THEOREM SdoTypes == Spec => []TypeOK
BY TypeInvariant, TypeIsOK, PTL

-----------------------------------------------------------------------------
(* What an application is told of its items. *)

FirstRows == \A S \in Selections : \E n \in Nat : S = 1 .. n

LEMMA ItemsAreRowsStep == ASSUME TypeInv, FirstRows, ItemsAreRows, Next PROVE ItemsAreRows'
<1>1. ASSUME NEW h \in handlers, h.call.op = "apply"
      PROVE  \A i \in DOMAIN h.call.items : ItemIsRow(h.call.items, i)'
  <2> SUFFICES ASSUME NEW i \in DOMAIN h.call.items PROVE ItemIsRow(h.call.items, i)'
    OBVIOUS
  <2>1. ItemIsRow(h.call.items, i)  BY <1>1 DEF ItemsAreRows
  <2>2. ASSUME ~moved' PROVE RowsStay /\ ~moved
    <3>1. RowsStay  BY <2>2, RowMoves, Zenon
    <3>2. moved' = moved  BY <3>1 DEF RowsStay
    <3> QED BY <2>2, <3>1, <3>2, Zenon
  <2> QED BY <2>1, <2>2, RowsKeepItems DEF ItemIsRow
<1>2. CASE handlers' \subseteq handlers  BY <1>1, <1>2 DEF ItemsAreRows
<1>3. CASE Sends
  <2>1. PICK kept \in SUBSET handlers, calls \in Seq(Calls) :
          SendsThese(kept, calls) /\ \A i \in DOMAIN calls : calls[i].op # "apply"
    BY <1>3 DEF Sends
  <2>2. \A h \in handlers' : h \in kept \/ (h.id >= nextId /\ \E i \in DOMAIN calls : h.call = calls[i])
    BY <2>1, SendsKeeps
  <2>3. \A h \in handlers' : h \in handlers \/ h.call.op # "apply"  BY <2>1, <2>2
  <2> QED BY <1>1, <2>3 DEF ItemsAreRows
<1>4. CASE applyStartupSdoRows
  <2>1. PICK items \in Seq(Items) :
          /\ SendsThese(handlers, <<Apply(items)>>)
          /\ \A i \in 1 .. Len(items) : items[i].row \in dialog.rows
               /\ items[i] = Item(items[i].row, rows[items[i].row].key, rows[items[i].row].value)
          /\ (\E n \in Nat : dialog.rows = 1 .. n) => \A i \in 1 .. Len(items) : items[i].row = i
    BY <1>4, ApplySends DEF Applies
  <2>2. dialog.rows \in Selections /\ dialog.rows \subseteq DOMAIN rows
    BY <1>4 DEF TypeInv, DialogOK, applyStartupSdoRows
  <2>3. \A i \in 1 .. Len(items) : items[i].row = i /\ i \in DOMAIN rows
                                   /\ items[i] = Item(i, rows[i].key, rows[i].value)
    <3>1. \A i \in 1 .. Len(items) : items[i].row = i  BY <2>1, <2>2 DEF FirstRows
    <3> QED BY <2>1, <2>2, <3>1
  <2>4. <<Apply(items)>> \in Seq(Calls) /\ handlers \in SUBSET handlers  BY DEF Apply, Calls
  <2>5. \A h \in handlers' : h \in handlers \/ h.call = Apply(items)
    <3>1. \A h \in handlers' : h \in handlers \/ \E i \in DOMAIN <<Apply(items)>> : h.call = <<Apply(items)>>[i]
      BY <2>1, <2>4, SendsKeeps
    <3> QED BY <3>1
  <2>6. Apply(items).items = items /\ DOMAIN items = 1 .. Len(items)  BY DEF Apply
  <2>7. UNCHANGED moved /\ rows' = SetStatus(dialog.rows, "Applying")
    BY <1>4 DEF applyStartupSdoRows, bounds
  <2>8. RowsStay  BY <2>7 DEF RowsStay, Quiet
  <2>9. \A i \in 1 .. Len(items) : ItemIsRow(items, i)'
    BY <2>3, <2>8, RowsKeepItems DEF ItemIsRow
  <2>10. ASSUME NEW h \in handlers', h.call = Apply(items)
         PROVE  \A i \in DOMAIN h.call.items : ItemIsRow(h.call.items, i)'
    BY <2>6, <2>9, <2>10
  <2> QED BY <1>1, <2>5, <2>10, Zenon DEF ItemsAreRows
<1>5. CASE Waits \/ Dispatch \/ DispatchOrphan \/ Lose
  <2>1. handlers' \subseteq handlers
    BY <1>5 DEF Waits, Dispatch, DispatchOrphan, Perform, Lose
  <2> QED BY <1>2, <2>1
<1> QED BY <1>3, <1>4, <1>5, WireSteps

LEMMA RepliesAreTrueStep ==
  ASSUME TypeInv, FramesInv, ItemsAreRows, RepliesAreTrue, Next PROVE RepliesAreTrue'
<1>0. WireOK  BY DEF TypeInv
<1>1. CASE Waits
  <2>1. InLine(replies') \subseteq InLine(replies)
    BY <1>1, FewerAnswers DEF TypeInv, SdoInvariantParts, Waits
  <2> QED BY <1>1, <2>1 DEF Waits, RepliesAreTrue, Tells
<1>s. ASSUME NEW kept \in SUBSET handlers, NEW calls \in Seq(Calls), SendsThese(kept, calls)
      PROVE  RepliesAreTrue'
  <2>1. InLine(replies') \subseteq InLine(replies)
    BY <1>s, FewerAnswers DEF TypeInv, SdoInvariantParts, SendsThese
  <2>2. \A h \in handlers' : h \in handlers \/ h.id >= nextId  BY <1>s, SendsKeeps
  <2>3. \A p \in InLine(replies), h \in handlers' : p.id = h.id => h \in handlers
    <3> SUFFICES ASSUME NEW p \in InLine(replies), NEW h \in handlers', p.id = h.id, h.id >= nextId
                 PROVE  FALSE
      BY <2>2
    <3>1. p.id \in Nat /\ p.id < nextId /\ nextId \in Nat  BY <1>0 DEF WireOK
    <3> QED BY <3>1
  <2>4. UNCHANGED performed  BY <1>s DEF SendsThese
  <2> QED BY <2>1, <2>3, <2>4 DEF RepliesAreTrue, Tells
<1>2. CASE Sends  BY <1>s, <1>2 DEF Sends
<1>3. CASE applyStartupSdoRows
  <2>1. PICK items \in Seq(Items) : SendsThese(handlers, <<Apply(items)>>)
    BY <1>3, ApplySends DEF Applies
  <2>2. <<Apply(items)>> \in Seq(Calls) /\ handlers \in SUBSET handlers  BY DEF Apply, Calls
  <2> QED BY <1>s, <2>1, <2>2
<1>4. CASE Dispatch \/ DispatchOrphan  BY <1>4, FrameStep
<1>5. CASE Lose  BY <1>5, LoseStep
<1> QED BY <1>1, <1>2, <1>3, <1>4, <1>5, WireSteps

-----------------------------------------------------------------------------
(* The verdicts of the rows. *)
VerdictTypeInv == TypeInv /\ VerdictInv

LEMMA VerdictInit == Init => VerdictTypeInv
<1> SUFFICES ASSUME Init PROVE VerdictTypeInv  OBVIOUS
<1>1. requests = <<>> /\ orphans = <<>> /\ replies = <<>> /\ handlers = {}  BY DEF Init
<1>2. InLine(<<>>) = {} /\ Rising(<<>>)
  <2>1. Len(<<>>) = 0  OBVIOUS
  <2> QED BY <2>1 DEF InLine, Rising
<1>3. VerdictInv
  BY <1>1, <1>2 DEF VerdictInv, FramesAreOnce, FramesAreUndone, HandlersKnowCalls, ItemsAreRows, RepliesAreTrue,
                    Frames
<1> QED BY <1>3, TypeInit DEF VerdictTypeInv

LEMMA VerdictStep == ASSUME VerdictTypeInv, FirstRows, [Next]_vars PROVE VerdictTypeInv'
<1>0. TypeInv /\ TypeInv' /\ FramesInv /\ ItemsAreRows /\ RepliesAreTrue
  BY TypeStep DEF VerdictTypeInv, VerdictInv, FramesInv
<1>1. CASE Next
  <2>1. FramesInv'  BY <1>0, <1>1, WireOKStep
  <2>2. ItemsAreRows' /\ RepliesAreTrue'  BY <1>0, <1>1, ItemsAreRowsStep, RepliesAreTrueStep
  <2> QED BY <1>0, <2>1, <2>2 DEF VerdictTypeInv, VerdictInv, FramesInv
<1>2. CASE UNCHANGED vars
  <2>0. UNCHANGED <<handlers, requests, orphans, replies, performed, rows, moved>>
    BY <1>2 DEF vars, wire, daemon, shown, bounds
  <2>1. FramesInv'
    BY <1>0, <2>0 DEF FramesInv, FramesAreOnce, FramesAreUndone, HandlersKnowCalls, Frames
  <2>2. ItemsAreRows' /\ RepliesAreTrue'
    BY <1>0, <2>0 DEF ItemsAreRows, ItemIsRow, RepliesAreTrue, Tells
  <2> QED BY <1>0, <2>1, <2>2 DEF VerdictTypeInv, VerdictInv, FramesInv
<1> QED BY <1>1, <1>2

(* A step gives a row no verdict but its own. *)
RowIsTrue(r) ==
  ~moved' /\ rows'[r].status \in {"Applied", "Failed"} /\ rows[r].status # rows'[r].status
    => (rows'[r].status = "Applied")
         <=> [id |-> Head(replies).id, item |-> Item(r, rows[r].key, rows[r].value)] \in performed

LEMMA VerdictIsTrue ==
  ASSUME VerdictTypeInv, Next, NEW r \in DOMAIN rows PROVE RowIsTrue(r)
<1> SUFFICES ASSUME ~moved', rows'[r].status \in {"Applied", "Failed"}, rows[r].status # rows'[r].status
             PROVE  (rows'[r].status = "Applied")
                      <=> [id |-> Head(replies).id, item |-> Item(r, rows[r].key, rows[r].value)] \in performed
  BY DEF RowIsTrue
<1>1. RowsStay  BY RowMoves, Zenon
<1>2. ~moved
  <2>1. moved' = moved  BY <1>1 DEF RowsStay
  <2> QED BY <2>1, Zenon
<1>3. rows \in Seq(Row) /\ (\E S : replies \in Seq(S))
  BY DEF VerdictTypeInv, TypeInv, SdoInvariantParts, SdoInv, Typed, AnswersInOrder
<1>4. rows[r] \in Row /\ r \in 1 .. Len(rows) /\ Len(rows) \in Nat  BY <1>3
<1>5. rows[r] = [key |-> rows[r].key, value |-> rows[r].value, status |-> rows[r].status]  BY <1>4 DEF Row
<1>6. \A s : [rows[r] EXCEPT !.status = s].status = s  BY <1>5
<1>7. ~UNCHANGED rows  OBVIOUS
<1>8. ASSUME NEW S, NEW s \in Quiet, rows' = SetStatus(S, s) PROVE FALSE
  <2>1. rows'[r] = rows[r] \/ rows'[r] = [rows[r] EXCEPT !.status = s]  BY <1>8 DEF SetStatus
  <2> QED BY <1>6, <2>1 DEF Quiet
<1>9. ASSUME NEW k, NEW v, rows' = Judged(k, v) PROVE FALSE
  <2>1. rows'[r] = rows[r] \/ \E s \in {"Verified", "Mismatch"} : rows'[r] = [rows[r] EXCEPT !.status = s]
    BY <1>9 DEF Judged
  <2> QED BY <1>6, <2>1
<1>10. ASSUME NEW x, rows' = Append(rows, x) PROVE FALSE
  <2>1. rows \in Seq(Row \cup {x}) /\ x \in Row \cup {x}  BY <1>3, SeqMonotonic
  <2>2. rows'[r] = rows[r]  BY <1>4, <1>10, <2>1
  <2> QED BY <2>2
<1>11. IsJudged  BY <1>1, <1>7, <1>8, <1>9, <1>10, Zenon DEF RowsStay
<1>12. PICK h \in handlers :
         /\ replies # <<>> /\ h.id = Head(replies).id /\ h.call.op = "apply" /\ Head(replies).result.ok
         /\ startupSdoResults(Head(replies).result.applied, Head(replies).result.failed)
  BY <1>11 DEF IsJudged
<1> DEFINE result == Head(replies).result
<1>13. Head(replies) \in InLine(replies)  BY <1>3, <1>12, TailOfLine
<1>14. Tells(result, h)  BY <1>12, <1>13 DEF VerdictTypeInv, VerdictInv, RepliesAreTrue
<1>15. \A i \in DOMAIN h.call.items : h.call.items[i] = Item(i, rows[i].key, rows[i].value)
  BY <1>2, <1>12 DEF VerdictTypeInv, VerdictInv, ItemsAreRows, ItemIsRow
<1>16. \/ r \in result.applied /\ rows'[r] = [rows[r] EXCEPT !.status = "Applied"]
       \/ r \in result.failed /\ rows'[r] = [rows[r] EXCEPT !.status = "Failed"]
  BY <1>12 DEF startupSdoResults
<1> HIDE DEF result
<1>17. CASE r \in result.applied /\ rows'[r] = [rows[r] EXCEPT !.status = "Applied"]
  <2>1. rows'[r].status = "Applied"  BY <1>6, <1>17
  <2>2. r \in DOMAIN h.call.items /\ [id |-> h.id, item |-> h.call.items[r]] \in performed
    BY <1>14, <1>17 DEF Tells
  <2>3. [id |-> Head(replies).id, item |-> Item(r, rows[r].key, rows[r].value)] \in performed
    BY <1>12, <1>15, <2>2
  <2> QED BY <2>1, <2>3
<1>18. CASE r \in result.failed /\ rows'[r] = [rows[r] EXCEPT !.status = "Failed"]
  <2>1. rows'[r].status = "Failed"  BY <1>6, <1>18
  <2>2. r \in DOMAIN h.call.items /\ [id |-> h.id, item |-> h.call.items[r]] \notin performed
    BY <1>14, <1>18 DEF Tells
  <2>3. [id |-> Head(replies).id, item |-> Item(r, rows[r].key, rows[r].value)] \notin performed
    BY <1>12, <1>15, <2>2
  <2> QED BY <2>1, <2>3
<1> QED BY <1>16, <1>17, <1>18

(* If the rows applied together are the first ones of the table, as they are when *)
(* the whole table is applied, a row that turns "Applied" or "Failed" is told     *)
(* what the daemon did with its own item (startupSdoResults, applyStartupSdos).   *)
THEOREM ResultsAreTrue ==
  ASSUME \A S \in Selections : \E n \in Nat : S = 1 .. n PROVE Spec => RowVerdictsAreTrue
<1>0. FirstRows  BY DEF FirstRows
<1>1. VerdictTypeInv /\ [Next]_vars => VerdictTypeInv'  BY <1>0, VerdictStep
<1>2. VerdictTypeInv /\ [Next]_vars =>
        [\A r \in DOMAIN rows :
           ~moved' /\ rows'[r].status \in {"Applied", "Failed"} /\ rows[r].status # rows'[r].status
             => (rows'[r].status = "Applied")
                  <=> [id |-> Head(replies).id, item |-> Item(r, rows[r].key, rows[r].value)] \in performed]_vars
  BY VerdictIsTrue DEF RowIsTrue
<1> QED BY <1>1, <1>2, VerdictInit, PTL DEF Spec, RowVerdictsAreTrue
=============================================================================
