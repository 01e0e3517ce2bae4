------------------------------- MODULE EcatRpc -------------------------------
(****************************************************************************)
(* The newline-delimited JSON request protocol between EcatClient (Studio)  *)
(* and EcatDaemon: correlation of replies by id, frames cut by the loss of  *)
(* a connection, the sweep of requests that got no answer in time, and what *)
(* the client's handlers announce.  Both ends are single-threaded event     *)
(* loops; a connection is a FIFO of whole frames in each direction, of      *)
(* which the last may have arrived in part.  Time is abstracted: any        *)
(* pending request may be old enough for the sweep.                         *)
(****************************************************************************)
EXTENDS Integers, Sequences, FiniteSets

CONSTANTS
  MaxRequests,  \* bound: ids handed out
  MaxDrops,     \* bound: losses of the connection
  Methods       \* the methods the user calls

ASSUME RpcAssumption ==
  /\ MaxRequests \in Nat /\ MaxDrops \in Nat
  /\ Methods \subseteq {"download", "upload", "freeRunStart"}

Requests == 1..MaxRequests
AllMethods == {"download", "upload", "freeRunStart"}

VARIABLES
  connected,  \* connectionState_ is Connected
  nextId,     \* nextId_
  method,     \* the method of each request
  handlers,   \* keys of handlers_ and of requestTimestamps_
  buffer,     \* what buffer_ holds: "empty", the head of the frame being
              \* received ("part"), or the head of a frame of a lost connection
  requests,   \* frames on their way to the daemon, or in its socket buffer
  orphans,    \* such frames of lost connections
  replies,    \* frames on their way to the client
  drops,      \* bound
  done,       \* history: what the daemon did for each request
  outcome,    \* history: what the handler of each request was given
  announced   \* history: requests whose success was announced

client == <<connected, nextId, method, handlers, buffer>>
wire == <<requests, orphans, replies>>
history == <<done, outcome, announced>>
vars == <<client, wire, drops, history>>

Init ==
  /\ connected = TRUE /\ nextId = 1 /\ method = [r \in Requests |-> "upload"]
  /\ handlers = {} /\ buffer = "empty"
  /\ requests = <<>> /\ orphans = <<>> /\ replies = <<>> /\ drops = 0
  /\ done = [r \in Requests |-> "no"] /\ outcome = [r \in Requests |-> "none"]
  /\ announced = {}

(* send(): register the handler under a fresh id and write the frame.  Not    *)
(* connected, it calls the handler with an error and nothing else happens.    *)
SendOffByOne(m) == \* mutant: the handler is registered under the next id
  /\ connected
  /\ method' = [method EXCEPT ![nextId] = m]
  /\ handlers' = handlers \cup {nextId + 1}
  /\ requests' = Append(requests, nextId)
  /\ nextId' = nextId + 1

Send(m) ==
  /\ connected
  /\ method' = [method EXCEPT ![nextId] = m]
  /\ handlers' = handlers \cup {nextId}
  /\ requests' = Append(requests, nextId)
  /\ nextId' = nextId + 1

Call ==
  /\ nextId \in Requests
  /\ \E m \in Methods : Send(m)
  /\ UNCHANGED <<connected, buffer, orphans, replies, drops, history>>

(* Which handlers announce success when given this outcome: download looks    *)
(* for an "error" key, which the flush of a lost connection does not set;     *)
(* freeRunStart looks for nothing.                                            *)
AnnouncesUnchecked(m, result) == m \in {"download", "freeRunStart"} \* mutant: no check at all

Announces(m, result) == \/ m = "download" /\ result \in {"ok", "lost"}
                        \/ m = "freeRunStart"

(* Handlers taken out of the table and called with this result. *)
CallHandlers(S, result) ==
  /\ outcome' = [r \in Requests |-> IF r \in S THEN result ELSE outcome[r]]
  /\ announced' = announced \cup {r \in S : Announces(method[r], result)}

(* The daemon's turn: one frame is one blocking dispatch and one reply. *)
Perform(r, result) == done' = [done EXCEPT ![r] = result]

Dispatch ==
  /\ requests # <<>>
  /\ requests' = Tail(requests)
  /\ \E result \in {"ok", "failed"} :
       /\ Perform(Head(requests), result)
       /\ replies' = Append(replies, [id |-> Head(requests), result |-> result])
  /\ UNCHANGED <<client, orphans, drops, outcome, announced>>

(* A frame of a lost connection that reached the daemon is still dispatched; *)
(* the reply has nowhere to go.  The rest never arrives.                      *)
DispatchOrphan ==
  /\ orphans # <<>>
  /\ orphans' = Tail(orphans)
  /\ \E result \in {"ok", "failed"} : Perform(Head(orphans), result)
  /\ UNCHANGED <<client, requests, replies, drops, outcome, announced>>

OrphansLost ==
  /\ orphans # <<>>
  /\ orphans' = <<>>
  /\ UNCHANGED <<client, requests, replies, drops, history>>

(* Part of the next frame arrives: it waits in buffer_ for its newline. *)
ReceivePart ==
  /\ connected /\ replies # <<>> /\ buffer = "empty"
  /\ buffer' = "part"
  /\ UNCHANGED <<connected, nextId, method, handlers, wire, drops, history>>

(* The newline arrives and handleLine runs.  Glued to the head of an older    *)
(* frame, the line is no JSON object and is thrown away.                      *)
ReceiveByOrder == \* mutant: a reply goes to the oldest pending request
  /\ connected /\ replies # <<>>
  /\ replies' = Tail(replies) /\ buffer' = "empty"
  /\ IF buffer = "stale" \/ handlers = {}
       THEN UNCHANGED <<nextId, method, handlers, requests, outcome, announced>>
       ELSE LET id == CHOOSE h \in handlers : \A k \in handlers : h <= k
            IN /\ CallHandlers({id}, Head(replies).result)
               /\ handlers' = handlers \ {id}
               /\ UNCHANGED <<nextId, method, requests>>
  /\ UNCHANGED <<connected, orphans, drops, done>>

Receive ==
  /\ connected /\ replies # <<>>
  /\ replies' = Tail(replies) /\ buffer' = "empty"
  /\ LET id == Head(replies).id
         result == Head(replies).result
         readBack == method[id] = "download" /\ result = "ok" /\ nextId \in Requests
     IN IF buffer = "stale" \/ id \notin handlers
          THEN UNCHANGED <<nextId, method, handlers, requests, outcome, announced>>
          ELSE /\ CallHandlers({id}, result)
               /\ IF readBack
                    THEN /\ method' = [method EXCEPT ![nextId] = "upload"]
                         /\ handlers' = (handlers \ {id}) \cup {nextId}
                         /\ requests' = Append(requests, nextId)
                         /\ nextId' = nextId + 1
                    ELSE /\ handlers' = handlers \ {id}
                         /\ UNCHANGED <<nextId, method, requests>>
  /\ UNCHANGED <<connected, orphans, drops, done>>

(* sweepTimedOutRequests: the pending requests up to some age are given up. *)
Sweep ==
  /\ connected
  /\ \E youngest \in handlers :
       LET old == {r \in handlers : r <= youngest}
       IN CallHandlers(old, "error") /\ handlers' = handlers \ old
  /\ UNCHANGED <<connected, nextId, method, buffer, wire, drops, done>>

DropKeepsHandlers == \* mutant: the pending handlers are not flushed
  /\ connected /\ drops < MaxDrops
  /\ connected' = FALSE /\ drops' = drops + 1
  /\ buffer' = IF buffer = "empty" THEN "empty" ELSE "stale"
  /\ orphans' = orphans \o requests /\ requests' = <<>> /\ replies' = <<>>
  /\ UNCHANGED <<nextId, method, handlers, done, outcome, announced>>

(* The connection is lost: the handler of the disconnected signal flushes the *)
(* pending handlers with {"code", "message"}; buffer_ keeps its bytes.  What  *)
(* the handlers send in turn fails at once.                                   *)
Drop ==
  /\ connected /\ drops < MaxDrops
  /\ connected' = FALSE /\ drops' = drops + 1
  /\ CallHandlers(handlers, "lost") /\ handlers' = {}
  /\ buffer' = IF buffer = "empty" THEN "empty" ELSE "stale"
  /\ orphans' = orphans \o requests /\ requests' = <<>> /\ replies' = <<>>
  /\ UNCHANGED <<nextId, method, done>>

(* connected signal after auto-reconnect. *)
Reconnect ==
  /\ ~connected /\ connected' = TRUE
  /\ UNCHANGED <<nextId, method, handlers, buffer, wire, drops, history>>

Next == \/ Call \/ Receive \/ ReceivePart \/ Sweep \/ Drop \/ Reconnect
        \/ Dispatch \/ DispatchOrphan \/ OrphansLost

(* The sweep timer runs while the client is connected. *)
Spec == Init /\ [][Next]_vars /\ WF_vars(Sweep)

-----------------------------------------------------------------------------
(* Properties. *)

Frames == Seq(Requests)

TypeOK ==
  /\ connected \in BOOLEAN /\ nextId \in 1..(MaxRequests + 1)
  /\ method \in [Requests -> AllMethods] /\ handlers \subseteq 1..(nextId - 1)
  /\ buffer \in {"empty", "part", "stale"}
  /\ requests \in Frames /\ orphans \in Frames
  /\ replies \in Seq([id : Requests, result : {"ok", "failed"}]) /\ drops \in 0..MaxDrops
  /\ done \in [Requests -> {"no", "ok", "failed"}]
  /\ outcome \in [Requests -> {"none", "ok", "failed", "error", "lost"}]
  /\ announced \subseteq Requests

(* A handler that is given a result is given that of its own request, whatever *)
(* replies of swept requests come late and whatever the reconnects in between. *)
AnswersAreOwn ==
  \A r \in Requests : outcome[r] \in {"ok", "failed"} => outcome[r] = done[r]

(* No handler waits on a connection that is gone, and every request made has   *)
(* its handler waiting or has had it called: none is forgotten.                *)
NoneForgotten ==
  /\ handlers = {r \in 1..(nextId - 1) : outcome[r] = "none"}
  /\ ~connected => handlers = {}

(* Every request ends, with a result or with an error. *)
EveryRequestEnds == \A r \in Requests : r < nextId ~> outcome[r] # "none"

(* A download whose request did not end with the connection is announced as    *)
(* done only if the slave took it (EcatClient.cpp:258).                        *)
AnnouncedAsDone ==
  \A r \in announced :
    method[r] = "download" /\ outcome[r] # "lost" => done[r] = "ok"

(* commandSucceeded confirms something that succeeded (EcatClient.h:446,       *)
(* "Generic success confirmation"; EcatClient.cpp:258, "Don't emit success or  *)
(* auto-read on error").                                                       *)
NoFalseSuccess == \A r \in announced : done[r] = "ok"

(* A complete response frame for a pending request reaches its handler         *)
(* (EcatClient.cpp:386, "extract complete JSON response frames").              *)
RepliesAreDelivered ==
  [][Receive /\ Head(replies).id \in handlers
       => outcome'[Head(replies).id] = Head(replies).result]_vars

(* The requests keep the contract: performed and answered at most once each.  *)
Contract == INSTANCE RequestContract WITH
  issued <- 1..(nextId - 1),
  outcome <- [r \in Requests |-> IF outcome[r] = "lost" THEN "error" ELSE outcome[r]]
ContractSpec == Contract!Spec
=============================================================================
