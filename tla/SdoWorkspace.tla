---------------------------- MODULE SdoWorkspace ----------------------------
(****************************************************************************)
(* The SDO workspace of the Studio main window: writes with automatic       *)
(* read-back, watch reads, and the startup SDO table, over one connection   *)
(* to the daemon.  The window keeps what it waits for in maps keyed by      *)
(* object, not by request: any value that arrives for a key answers         *)
(* whatever is pending under it.  The connection is a FIFO of requests and  *)
(* one of replies; EcatRpc models it in detail.                             *)
(*                                                                          *)
(* Simplifications: a key stands for <<position, index, sub-index>>; texts, *)
(* types, times and colours are left out; values compare equal iff they are *)
(* the same; the object a confirmation dialog names does not change while   *)
(* it is open (OnlineView models that it may).                              *)
(****************************************************************************)
EXTENDS Naturals, Sequences, FiniteSets

CONSTANTS
  Keys, Values,
  Table,        \* the startup table at the start: a sequence of [key, value]
  FirstField,   \* what the write field holds at the start
  Selections,   \* the sets of table rows a user applies together
  None,         \* no entry in a map
  Blank,        \* the empty text
  MaxOps,       \* bound: operations the user or a timer starts
  MaxFailures,  \* bound: operations the daemon refuses, or that are swept
  MaxLosses,    \* bound: losses of the connection
  MaxRows       \* bound: rows of the table

ASSUME SdoAssumption ==
  /\ Keys # {} /\ Values # {} /\ None \notin Values /\ Blank \notin Values /\ None # Blank
  /\ None \notin [expected : Values \cup {Blank}, written : Nat]
  /\ FirstField \in Values \cup {Blank}
  /\ Table \in Seq([key : Keys, value : Values])
  /\ {MaxOps, MaxFailures, MaxLosses, MaxRows} \subseteq Nat /\ Len(Table) <= MaxRows

Texts == Values \cup {Blank} \* what a text field or a cell of the table may hold

VARIABLES
  link,          \* "up"; "losing" while the handlers of a lost connection are called; "down"
  nextId, handlers,            \* EcatClient: nextId_, handlers_
  requests, orphans, replies,  \* frames to the daemon, such frames of lost connections, answers
  object, clock, performed,    \* the slaves' objects; history: downloads done, counted and listed
  reads, writes, verifications, checks, \* pendingSdoReads_, ...Writes_, ...Verifications_,
                                        \* pendingStartupSdoChecks_
  evidence,      \* sdoEvidence_: the status shown for a key
  rows,          \* startupSdoTable_
  field,         \* the write field of the inspector
  dialog,        \* the confirmation that is open, if any
  verdict,       \* the last "Verify" line of the history
  cleared, moved, \* history: clearSdoHistory was called; rows were moved or removed
  ops, failures, losses \* bounds

wire == <<nextId, handlers, requests, orphans, replies>>
daemon == <<object, clock, performed>>
pending == <<reads, writes, verifications, checks>>
shown == <<evidence, rows, verdict>>
bounds == <<cleared, moved, ops, failures, losses>>
unstarted == <<cleared, moved, failures, losses>> \* all but ops
vars == <<link, wire, daemon, pending, shown, field, dialog, bounds>>

Init ==
  /\ link = "up" /\ nextId = 1 /\ handlers = {}
  /\ requests = <<>> /\ orphans = <<>> /\ replies = <<>>
  /\ object \in [Keys -> Values] /\ clock = 0 /\ performed = {}
  /\ reads = {} /\ writes = [k \in Keys |-> None]
  /\ verifications = [k \in Keys |-> None] /\ checks = [k \in Keys |-> {}]
  /\ evidence = [k \in Keys |-> "none"]
  /\ rows = [r \in DOMAIN Table |-> [key |-> Table[r].key, value |-> Table[r].value, status |-> "Pending"]]
  /\ field = FirstField /\ dialog = None /\ verdict = None
  /\ cleared = FALSE /\ moved = FALSE
  /\ ops = 0 /\ failures = 0 /\ losses = 0

--------------------------------------------------------------------------
(* EcatClient.  send() registers the handler and writes the frame; without   *)
(* a connection it calls the handler with an error, which changes nothing.   *)

Upload(k) == [op |-> "upload", key |-> k]
Download(k, v) == [op |-> "download", key |-> k, value |-> v]
Apply(items) == [op |-> "apply", items |-> items]
Item(r, k, v) == [row |-> r, key |-> k, value |-> v] \* r: the table row, 0 if it is none

SendAfter(kept, calls) == \* calls in a row, once handlers_ has come down to kept
  IF link = "up"
  THEN LET sent == [i \in DOMAIN calls |-> [id |-> nextId + i - 1, call |-> calls[i]]]
       IN /\ nextId' = nextId + Len(calls)
          /\ requests' = requests \o sent
          /\ handlers' = kept \cup {sent[i] : i \in DOMAIN sent}
  ELSE handlers' = kept /\ UNCHANGED <<nextId, requests>>

Send(calls) == SendAfter(handlers, calls)

--------------------------------------------------------------------------
(* The window.  Something the user or a timer starts; the dialogs are modal, *)
(* so only the timers go on under them.                                      *)

Starts == ops < MaxOps /\ ops' = ops + 1
NoDialog == dialog = None /\ link # "losing"

(* requestSdoRead: every read of an object goes through it. *)
RequestRead(k) == reads' = reads \cup {k} /\ Send(<<Upload(k)>>)

Watch(k) == \* refreshWatchList, from its timer or by hand
  /\ link = "up" /\ Starts
  /\ RequestRead(k)
  /\ UNCHANGED <<link, orphans, replies, daemon, writes, verifications, checks, shown, field,
                 dialog, unstarted>>

(* The write field: typed in, filled from a value read, or cleared, as it is   *)
(* when a read-only object is selected.                                        *)
EditField(v) ==
  /\ NoDialog /\ field' = v
  /\ UNCHANGED <<link, wire, daemon, pending, shown, dialog, bounds>>

(* writeCurrentSdo up to its dialog, which a blank field does not reach, and   *)
(* what it does once confirmed: nothing is checked again, so the connection    *)
(* may be gone by then.                                                        *)
OpenWrite(k) ==
  /\ NoDialog /\ link = "up" /\ field # Blank /\ Starts
  /\ dialog' = [kind |-> "write", key |-> k]
  /\ UNCHANGED <<link, wire, daemon, pending, shown, field, unstarted>>

WriteVerifiedAtOnce(k) == \* mutant: the verification is entered with the request
  /\ writes' = [writes EXCEPT ![k] = field]
  /\ verifications' = [verifications EXCEPT ![k] = [expected |-> field, written |-> clock]]
  /\ evidence' = [evidence EXCEPT ![k] = "Write Pending"]
  /\ Send(<<Download(k, field)>>)

WriteUnrecorded(k) == \* mutant: the status is shown, the entry is not made
  /\ evidence' = [evidence EXCEPT ![k] = "Write Pending"]
  /\ Send(<<Download(k, field)>>)
  /\ UNCHANGED <<writes, verifications>>

Write(k) ==
  /\ writes' = [writes EXCEPT ![k] = field]
  /\ evidence' = [evidence EXCEPT ![k] = "Write Pending"]
  /\ Send(<<Download(k, field)>>)
  /\ UNCHANGED verifications

writeCurrentSdo ==
  /\ dialog # None /\ dialog.kind = "write" /\ link # "losing"
  /\ dialog' = None /\ Write(dialog.key)
  /\ UNCHANGED <<link, orphans, replies, daemon, reads, checks, rows, verdict, field, bounds>>

Cancel == \* any of the dialogs
  /\ dialog # None /\ link # "losing" /\ dialog' = None
  /\ UNCHANGED <<link, wire, daemon, pending, shown, field, bounds>>

(* A download by a service that shares the client (SdoService, used by the  *)
(* batch and the scripting service): the window learns of it only when it   *)
(* is announced.                                                            *)
ServiceDownload(k, v) ==
  /\ link = "up" /\ Starts
  /\ Send(<<Download(k, v)>>)
  /\ UNCHANGED <<link, orphans, replies, daemon, pending, shown, field, dialog, unstarted>>

--------------------------------------------------------------------------
(* The startup table. *)

SetStatus(S, status) ==
  [r \in DOMAIN rows |-> IF r \in S THEN [rows[r] EXCEPT !.status = status] ELSE rows[r]]

verifyStartupSdoRow(r) ==
  /\ NoDialog /\ link = "up" /\ r \in DOMAIN rows /\ Starts
  /\ rows' = SetStatus({r}, "Verifying")
  /\ checks' = [checks EXCEPT ![rows[r].key] = @ \cup {r}]
  /\ RequestRead(rows[r].key)
  /\ UNCHANGED <<link, orphans, replies, daemon, writes, verifications, evidence, verdict, field,
                 dialog, unstarted>>

verifyStartupSdoList == \* forgets the checks of earlier verifications first
  /\ NoDialog /\ link = "up" /\ rows # <<>> /\ Starts
  /\ rows' = SetStatus(DOMAIN rows, "Verifying")
  /\ checks' = [k \in Keys |-> {r \in DOMAIN rows : rows[r].key = k}]
  /\ reads' = reads \cup {rows[r].key : r \in DOMAIN rows}
  /\ Send([r \in DOMAIN rows |-> Upload(rows[r].key)])
  /\ UNCHANGED <<link, orphans, replies, daemon, writes, verifications, evidence, verdict, field,
                 dialog, unstarted>>

Blanks(S) == {r \in S : rows[r].value = Blank}

RefuseBlanks(S) == \* validation: any row without a value keeps the dialog from opening
  /\ NoDialog /\ link = "up" /\ S \subseteq DOMAIN rows /\ Blanks(S) # {} /\ Starts
  /\ rows' = SetStatus(Blanks(S), "Validation Error")
  /\ UNCHANGED <<link, wire, daemon, pending, evidence, verdict, field, dialog, unstarted>>

(* applyStartupSdoRow enters its check with the request, not with the answer. *)
OpenApplyRow(r) ==
  /\ NoDialog /\ link = "up" /\ r \in DOMAIN rows /\ Blanks({r}) = {} /\ Starts
  /\ dialog' = [kind |-> "row", row |-> r, key |-> rows[r].key, value |-> rows[r].value]
  /\ UNCHANGED <<link, wire, daemon, pending, shown, field, unstarted>>

applyStartupSdoRow ==
  /\ dialog # None /\ dialog.kind = "row" /\ link # "losing" /\ dialog' = None
  /\ rows' = SetStatus({dialog.row}, "Applying")
  /\ writes' = [writes EXCEPT ![dialog.key] = dialog.value]
  /\ checks' = [checks EXCEPT ![dialog.key] = @ \cup {dialog.row}]
  /\ Send(<<Download(dialog.key, dialog.value)>>)
  /\ UNCHANGED <<link, orphans, replies, daemon, reads, verifications, evidence, verdict, field, bounds>>

(* applyStartupSdoRows and applyStartupSdoList: one request for all rows. *)
OpenApply(S) ==
  /\ NoDialog /\ link = "up" /\ S # {} /\ S \subseteq DOMAIN rows /\ Blanks(S) = {} /\ Starts
  /\ dialog' = [kind |-> "rows", rows |-> S]
  /\ UNCHANGED <<link, wire, daemon, pending, shown, field, unstarted>>

InOrder(S) == \* the rows of S, first to last
  [i \in 1..Cardinality(S) |-> CHOOSE r \in S : Cardinality({s \in S : s < r}) = i - 1]

applyStartupSdoRows ==
  /\ dialog # None /\ dialog.kind = "rows" /\ link # "losing" /\ dialog' = None
  /\ rows' = SetStatus(dialog.rows, "Applying")
  /\ LET order == InOrder(dialog.rows)
     IN Send(<<Apply([i \in DOMAIN order |->
                        Item(order[i], rows[order[i]].key, rows[order[i]].value)])>>)
  /\ UNCHANGED <<link, orphans, replies, daemon, pending, evidence, verdict, field, bounds>>

(* Edits of the table: rows move, the indices kept in checks do not. *)
addStartupSdo(k) ==
  /\ NoDialog /\ Len(rows) < MaxRows
  /\ rows' = Append(rows, [key |-> k, value |-> field, status |-> "Pending"])
  /\ UNCHANGED <<link, wire, daemon, pending, evidence, verdict, field, dialog, bounds>>

Moves == NoDialog /\ Starts /\ moved' = TRUE

removeStartupSdo(r) ==
  /\ Moves /\ r \in DOMAIN rows
  /\ rows' = SubSeq(rows, 1, r - 1) \o SubSeq(rows, r + 1, Len(rows))
  /\ UNCHANGED <<link, wire, daemon, pending, evidence, verdict, field, dialog, cleared, failures, losses>>

moveStartupSdoRow(r) == \* one place down; up is the same swap
  /\ Moves /\ {r, r + 1} \subseteq DOMAIN rows
  /\ rows' = [rows EXCEPT ![r] = rows[r + 1], ![r + 1] = rows[r]]
  /\ UNCHANGED <<link, wire, daemon, pending, evidence, verdict, field, dialog, cleared, failures, losses>>

ForgetPending ==
  /\ NoDialog /\ Starts
  /\ reads' = {} /\ writes' = [k \in Keys |-> None]
  /\ verifications' = [k \in Keys |-> None] /\ checks' = [k \in Keys |-> {}]
  /\ verdict' = None

clearSdoHistory == \* forgets all that is pending, and leaves the evidence
  /\ ForgetPending /\ cleared' = TRUE
  /\ UNCHANGED <<link, wire, daemon, evidence, rows, field, dialog, moved, failures, losses>>

clearOnlineViews == \* newProject: the same, with the evidence
  /\ ForgetPending /\ evidence' = [k \in Keys |-> "none"]
  /\ UNCHANGED <<link, wire, daemon, rows, field, dialog, cleared, moved, failures, losses>>

--------------------------------------------------------------------------
(* The daemon: one request at a time, those of lost connections included.    *)
(* An item of a batch that fails does not keep the next ones from being      *)
(* applied, and the results are numbered by their place in the request.      *)

Fail(n) == failures + n <= MaxFailures /\ failures' = failures + n

After(items, places) == \* the objects once the items at these places were written in order
  [k \in Keys |-> LET hits == {i \in places : items[i].key = k}
                  IN IF hits = {} THEN object[k]
                     ELSE items[CHOOSE i \in hits : \A j \in hits : j <= i].value]

WriteItems(id, items, places) ==
  /\ object' = After(items, places)
  /\ performed' = performed \cup {[id |-> id, item |-> items[i]] : i \in places}

Answer(q, live, result) == \* a lost connection takes no answer
  replies' = IF live THEN Append(replies, [id |-> q.id, at |-> clock + 1, result |-> result]) ELSE replies

upload(q, live) ==
  /\ q.call.op = "upload" /\ Answer(q, live, [ok |-> TRUE, value |-> object[q.call.key]])
  /\ UNCHANGED <<object, performed, failures>>

download(q, live) ==
  /\ q.call.op = "download" /\ Answer(q, live, [ok |-> TRUE])
  /\ WriteItems(q.id, <<Item(0, q.call.key, q.call.value)>>, {1}) /\ UNCHANGED failures

Refuse(q, live) ==
  /\ q.call.op # "apply" /\ Fail(1) /\ Answer(q, live, [ok |-> FALSE])
  /\ UNCHANGED <<object, performed>>

ApplyBlindly(q, live) == \* mutant: an item that fails is reported as applied
  /\ q.call.op = "apply"
  /\ \E bad \in SUBSET DOMAIN q.call.items :
       /\ Fail(Cardinality(bad))
       /\ WriteItems(q.id, q.call.items, DOMAIN q.call.items \ bad)
       /\ Answer(q, live, [ok |-> TRUE, applied |-> DOMAIN q.call.items, failed |-> {}])

applyStartupSdos(q, live) ==
  /\ q.call.op = "apply"
  /\ \E bad \in SUBSET DOMAIN q.call.items :
       /\ Fail(Cardinality(bad))
       /\ WriteItems(q.id, q.call.items, DOMAIN q.call.items \ bad)
       /\ Answer(q, live, [ok |-> TRUE, applied |-> DOMAIN q.call.items \ bad, failed |-> bad])

Perform(q, live) ==
  /\ upload(q, live) \/ download(q, live) \/ Refuse(q, live) \/ applyStartupSdos(q, live)
  /\ clock' = clock + 1
  /\ UNCHANGED <<link, nextId, handlers, pending, shown, field, dialog, cleared, moved, ops, losses>>

Dispatch == requests # <<>> /\ requests' = Tail(requests) /\ UNCHANGED orphans /\ Perform(Head(requests), TRUE)
DispatchOrphan == orphans # <<>> /\ orphans' = Tail(orphans) /\ UNCHANGED requests /\ Perform(Head(orphans), FALSE)

--------------------------------------------------------------------------
(* What the window does with an answer.  at: the daemon's clock when it was   *)
(* given, history of the read and of the write it verifies.                   *)

Judged(k, v) == \* the rows waiting for a value of k, with their verdict
  [r \in DOMAIN rows |-> IF r \in checks[k]
     THEN [rows[r] EXCEPT !.status = IF rows[r].value = v THEN "Verified" ELSE "Mismatch"] ELSE rows[r]]

handleSdoValueResponse(k, v, at) ==
  /\ reads' = reads \ {k}
  /\ verifications' = [verifications EXCEPT ![k] = None]
  /\ checks' = [checks EXCEPT ![k] = {}]
  /\ rows' = Judged(k, v)
  /\ IF verifications[k] = None
     THEN evidence' = [evidence EXCEPT ![k] = "Complete"] /\ UNCHANGED verdict
     ELSE LET ok == verifications[k].expected = v
          IN /\ evidence' = [evidence EXCEPT ![k] = IF ok THEN "OK" ELSE "Failed"]
             /\ verdict' = [ok |-> ok, expected |-> verifications[k].expected, read |-> at,
                            written |-> verifications[k].written]
  /\ UNCHANGED writes

(* An announced download: the pending write of the key is what was written,   *)
(* or, if there is none, the write field.  The window reads the object back,  *)
(* and then the client does, too.                                             *)
ReadBackOnce(k) == <<Upload(k)>> \* mutant: the client leaves the read-back to the window
ReadBack(k) == <<Upload(k), Upload(k)>>

Written(k) == IF writes[k] # None THEN writes[k] ELSE field

DownloadComplete(k, kept, at) ==
  /\ writes' = [writes EXCEPT ![k] = None]
  /\ evidence' = [evidence EXCEPT ![k] = "Write OK"]
  /\ verifications' = [verifications EXCEPT ![k] = [expected |-> Written(k), written |-> at]]
  /\ reads' = reads \cup {k}
  /\ SendAfter(kept, ReadBack(k))
  /\ UNCHANGED <<checks, rows, verdict>>

startupSdoResults(applied, failed) ==
  rows' = [r \in DOMAIN rows |->
             IF r \in applied THEN [rows[r] EXCEPT !.status = "Applied"]
             ELSE IF r \in failed THEN [rows[r] EXCEPT !.status = "Failed"] ELSE rows[r]]

Nothing(kept) == handlers' = kept /\ UNCHANGED <<nextId, requests, pending, shown>>

Receive == \* handleLine; an answer whose handler was swept is dropped
  /\ link = "up" /\ replies # <<>> /\ replies' = Tail(replies)
  /\ LET reply == Head(replies)
         called == {h \in handlers : h.id = reply.id}
         kept == handlers \ called
     IN \/ (called = {} \/ ~reply.result.ok) /\ Nothing(kept)
        \/ /\ reply.result.ok
           /\ \E h \in called :
                \/ /\ h.call.op = "upload" /\ handleSdoValueResponse(h.call.key, reply.result.value, reply.at)
                   /\ handlers' = kept /\ UNCHANGED <<nextId, requests>>
                \/ h.call.op = "download" /\ DownloadComplete(h.call.key, kept, reply.at)
                \/ /\ h.call.op = "apply" /\ startupSdoResults(reply.result.applied, reply.result.failed)
                   /\ handlers' = kept /\ UNCHANGED <<nextId, requests, pending, evidence, verdict>>
  /\ UNCHANGED <<link, orphans, daemon, field, dialog, bounds>>

Sweep == \* no answer in time: the handler is called with an error
  /\ link = "up" /\ Fail(1)
  /\ \E h \in handlers : Nothing(handlers \ {h})
  /\ UNCHANGED <<link, orphans, replies, daemon, field, dialog, cleared, moved, ops, losses>>

(* The connection is lost: the daemon may still get the first few requests;   *)
(* the handlers are called, in any order, with a result that has no "error"   *)
(* in it, and then what is still pending is flushed.                          *)
LoseKeepsReplies == \* mutant: answers of the lost connection stay in the buffer
  /\ link = "up" /\ losses < MaxLosses /\ losses' = losses + 1 /\ link' = "losing"
  /\ \E n \in 0..Len(requests) : orphans' = orphans \o SubSeq(requests, 1, n)
  /\ requests' = <<>>
  /\ UNCHANGED <<replies, nextId, handlers, daemon, pending, shown, field, dialog, cleared, moved, ops, failures>>

Lose ==
  /\ link = "up" /\ losses < MaxLosses /\ losses' = losses + 1 /\ link' = "losing"
  /\ \E n \in 0..Len(requests) : orphans' = orphans \o SubSeq(requests, 1, n)
  /\ requests' = <<>> /\ replies' = <<>>
  /\ UNCHANGED <<nextId, handlers, daemon, pending, shown, field, dialog, cleared, moved, ops, failures>>

CallLost ==
  /\ link = "losing"
  /\ \E h \in handlers :
       \/ /\ h.call.op = "upload" /\ handleSdoValueResponse(h.call.key, Blank, clock)
          /\ handlers' = handlers \ {h} /\ UNCHANGED <<nextId, requests>>
       \/ h.call.op = "download" /\ DownloadComplete(h.call.key, handlers \ {h}, clock)
       \/ h.call.op = "apply" /\ Nothing(handlers \ {h}) \* no results: no row is touched
  /\ UNCHANGED <<link, orphans, replies, daemon, field, dialog, bounds>>

flushPendingSdoState == \* the startup checks are not flushed
  /\ link = "losing" /\ handlers = {} /\ link' = "down"
  /\ evidence' = [k \in Keys |-> IF k \in reads \/ writes[k] # None \/ verifications[k] # None
                                 THEN "Failed" ELSE evidence[k]]
  /\ reads' = {} /\ writes' = [k \in Keys |-> None] /\ verifications' = [k \in Keys |-> None]
  /\ \/ (\A k \in Keys : verifications[k] = None) /\ UNCHANGED verdict
     \/ \E k \in Keys : /\ verifications[k] # None
                       /\ verdict' = [ok |-> FALSE, expected |-> verifications[k].expected,
                                      read |-> clock, written |-> verifications[k].written]
  /\ UNCHANGED <<wire, daemon, checks, rows, field, dialog, bounds>>

Reconnect == \* see EcatReconnect
  /\ link = "down" /\ link' = "up"
  /\ UNCHANGED <<wire, daemon, pending, shown, field, dialog, bounds>>

--------------------------------------------------------------------------
User ==
  \/ \E k \in Keys : Watch(k) \/ addStartupSdo(k) \/ OpenWrite(k) \/ \E v \in Values : ServiceDownload(k, v)
  \/ \E v \in Texts : EditField(v)
  \/ \E r \in DOMAIN rows : \/ verifyStartupSdoRow(r) \/ OpenApplyRow(r) \/ RefuseBlanks({r})
                            \/ removeStartupSdo(r) \/ moveStartupSdoRow(r)
  \/ \E S \in Selections : OpenApply(S) \/ RefuseBlanks(S)
  \/ writeCurrentSdo \/ applyStartupSdoRow \/ applyStartupSdoRows \/ Cancel
  \/ verifyStartupSdoList \/ clearSdoHistory \/ clearOnlineViews

Daemon == Dispatch \/ DispatchOrphan
Client == Receive \/ CallLost \/ flushPendingSdoState
Faults == Sweep \/ Lose

Next == User \/ Daemon \/ Client \/ Reconnect \/ Faults

Spec == Init /\ [][Next]_vars

(* The daemon goes on dispatching and the event loop of the window goes on     *)
(* delivering; nobody has to reconnect, and the user may stop at any time.     *)
FairSpec == Spec /\ WF_vars(Dispatch) /\ WF_vars(Receive) /\ WF_vars(CallLost) /\ WF_vars(flushPendingSdoState)

--------------------------------------------------------------------------
Pending(T) == T \cup {None}
Statuses == {"Pending", "Verifying", "Applying", "Applied", "Failed", "Verified", "Mismatch",
             "Validation Error"}
Items == [row : Nat, key : Keys, value : Values]
Calls == [op : {"upload"}, key : Keys] \cup [op : {"download"}, key : Keys, value : Values]
         \cup [op : {"apply"}, items : Seq(Items)]
Sent == [id : Nat, call : Calls]

(* The type invariant: what waits has an id that was handed out, and only the *)
(* handlers of a lost connection are left without a frame.                    *)
TypeOK ==
  /\ link \in {"up", "losing", "down"} /\ nextId \in Nat
  /\ handlers \subseteq Sent /\ \A h \in handlers : h.id < nextId
  /\ requests \in Seq(Sent) /\ orphans \in Seq(Sent) /\ (link # "up" => requests = <<>> /\ replies = <<>>)
  /\ (link = "down" => handlers = {})
  /\ \A i \in DOMAIN replies : replies[i].id < nextId /\ replies[i].at \in 1..clock
  /\ object \in [Keys -> Values] /\ clock \in Nat
  /\ performed \subseteq [id : Nat, item : Items]
  /\ reads \subseteq Keys /\ writes \in [Keys -> Pending(Values)]
  /\ verifications \in [Keys -> Pending([expected : Texts, written : Nat])]
  /\ checks \in [Keys -> SUBSET (1..MaxRows)]
  /\ evidence \in [Keys -> {"none", "Complete", "OK", "Failed", "Write Pending", "Write OK"}]
  /\ rows \in Seq([key : Keys, value : Texts, status : Statuses]) /\ Len(rows) <= MaxRows
  /\ field \in Texts
  /\ verdict \in Pending([ok : BOOLEAN, expected : Texts, read : Nat, written : Nat])

(* A write shown as verified was verified: the value compared was read by the  *)
(* daemon after it performed the write, though values are matched to writes    *)
(* by their key alone and reads of the same object are always on their way.    *)
(* Except that a blank text is what a lost connection answers a read with: a   *)
(* write announced for an object without a pending one is compared with the    *)
(* write field, and if that is blank nothing has to be read (AnyOkIsReadBack). *)
OkIsReadBack ==
  verdict # None => (verdict.ok /\ verdict.expected # Blank => verdict.read > verdict.written)

(* What is shown as under way is still waited for: a status "Write Pending" or *)
(* "Write OK; waiting for read-back" has its entry, which an answer or the     *)
(* flush of a lost connection will end.  Clearing the history breaks it.       *)
WaitingIsPending ==
  ~cleared => \A k \in Keys : /\ evidence[k] = "Write Pending" => writes[k] # None
                              /\ evidence[k] = "Write OK" => verifications[k] # None

(* A row that turns "Applied" or "Failed" is told what the daemon did with its *)
(* own item, whatever failed beside it, unless rows were moved meanwhile.      *)
RowVerdictsAreTrue ==
  [][\A r \in DOMAIN rows :
       ~moved' /\ rows'[r].status \in {"Applied", "Failed"} /\ rows[r].status # rows'[r].status
         => (rows'[r].status = "Applied")
              <=> [id |-> Head(replies).id, item |-> Item(r, rows[r].key, rows[r].value)] \in performed]_vars

(* Every write that was announced gets its verdict, even if one of the two     *)
(* reads that follow it is refused or swept, or the connection is lost.        *)
WritesAreJudged == \A k \in Keys : verifications[k] # None ~> verifications[k] = None

(* What one might expect, and the code does not give (see the README).         *)

(* Every write shown as verified was read back: broken by a blank write field. *)
AnyOkIsReadBack == verdict # None => (verdict.ok => verdict.read > verdict.written)

(* A row being applied is judged by a value read after it was written: broken, *)
(* the check is entered with the request, and a read on its way answers it.    *)
ApplyIsJudgedAfter ==
  [][\A r \in DOMAIN rows :
       ~moved' /\ rows[r].status = "Applying" /\ rows'[r].status = "Mismatch" /\ link = "up"
         => \E d \in performed : d.item.key = rows[r].key /\ d.item.value = rows[r].value]_vars

(* The download announced is the one shown: broken by two writes of one object *)
(* on their way, by a refused write and by a service's download.               *)
AnnouncedIsShown ==
  [][\A h \in handlers :
       h.call.op = "download" /\ h \notin handlers' /\ verifications'[h.call.key] # verifications[h.call.key]
         => verifications'[h.call.key].expected = h.call.value]_vars

(* A loss leaves no row under way: broken, nothing flushes the rows.           *)
RowsSettle ==
  [][link = "losing" /\ link' = "down" => \A r \in DOMAIN rows : rows[r].status \notin {"Verifying", "Applying"}]_vars

(* "Write Pending" ends: broken, a refused or swept write changes nothing.     *)
WritePendingEnds == \A k \in Keys : evidence[k] = "Write Pending" ~> evidence[k] # "Write Pending"
=============================================================================
