----------------------------- MODULE EventQueue -----------------------------
(***************************************************************************)
(* What the event stream of a session promises its consumer, torrent by      *)
(* torrent: there is one event for every critical event published, in the    *)
(* order of publication, a one-shot event at most once per admission; a      *)
(* status event is the latest one, is received after the critical events     *)
(* published before it and never after the torrent's terminal event.         *)
(* An error that is published behind an unread error of its torrent is       *)
(* reported with the text of that one: what it said itself is not promised.  *)
(* An identifier is reused only when its predecessor's events are drained.   *)
(***************************************************************************)
EXTENDS Integers, Sequences, FiniteSets

CONSTANTS Ids, ErrorJson, OneShotJson, StatusJson, NoStatus,
          KindOf,         \* the kind of a one-shot payload
          TerminalKinds,  \* kinds after which no status is reported
          Capacity        \* how many torrents may be admitted at once

VARIABLES queue,     \* queue[id]: critical events published, not yet received
          latest,    \* latest[id]: the status event waiting, or NoStatus
          published, \* published[id]: one-shot kinds published so far
          phase,     \* phase[id]: "absent", "admitted" or "draining"
          received   \* the event handed to the consumer last

vars == <<queue, latest, published, phase, received>>

Init ==
    /\ queue     = [id \in Ids |-> <<>>]
    /\ latest    = [id \in Ids |-> NoStatus]
    /\ published = [id \in Ids |-> {}]
    /\ phase     = [id \in Ids |-> "absent"]
    /\ received  = <<>>

Admit(id) ==
    /\ phase[id] = "absent"
    /\ Cardinality({i \in Ids : phase[i] # "absent"}) < Capacity
    /\ phase'     = [phase EXCEPT ![id] = "admitted"]
    /\ published' = [published EXCEPT ![id] = {}]
    /\ UNCHANGED <<queue, latest, received>>

\* The torrent is removed: its status is dropped, its critical events are not.
Leave(id) ==
    /\ phase[id] = "admitted"
    /\ phase'  = [phase EXCEPT ![id] = IF queue[id] = <<>> THEN "absent" ELSE "draining"]
    /\ latest' = [latest EXCEPT ![id] = NoStatus]
    /\ published' = [published EXCEPT ![id] = IF queue[id] = <<>> THEN {} ELSE @]
    /\ UNCHANGED <<queue, received>>

\* The text an error is reported with: that of the unread error just before it,
\* if there is one.
Reported(unread, json) ==
    IF unread # <<>> /\ unread[Len(unread)] \in ErrorJson THEN unread[Len(unread)] ELSE json

PublishError(id, json) ==
    /\ phase[id] = "admitted"
    /\ queue' = [queue EXCEPT ![id] = Append(@, Reported(@, json))]
    /\ latest' \in {latest, [latest EXCEPT ![id] = NoStatus]}
    /\ UNCHANGED <<published, phase, received>>

PublishOnce(id, json) ==
    /\ phase[id] = "admitted"
    /\ KindOf[json] \notin published[id]
    /\ queue'     = [queue EXCEPT ![id] = Append(@, json)]
    /\ published' = [published EXCEPT ![id] = @ \cup {KindOf[json]}]
    /\ latest'    = [latest EXCEPT ![id] = NoStatus]
    /\ UNCHANGED <<phase, received>>

PublishStatus(id, json) ==
    /\ phase[id] = "admitted"
    /\ published[id] \cap TerminalKinds = {}
    /\ latest' = [latest EXCEPT ![id] = json]
    /\ UNCHANGED <<queue, published, phase, received>>

Receive(id) ==
    /\ queue[id] # <<>>
    /\ received' = <<id, Head(queue[id])>>
    /\ queue'    = [queue EXCEPT ![id] = Tail(@)]
    /\ LET drained == phase[id] = "draining" /\ Tail(queue[id]) = <<>>
       IN  /\ phase'     = [phase EXCEPT ![id] = IF drained THEN "absent" ELSE @]
           /\ published' = [published EXCEPT ![id] = IF drained THEN {} ELSE @]
    /\ UNCHANGED latest

ReceiveStatus(id) ==
    /\ queue[id] = <<>>
    /\ latest[id] # NoStatus
    /\ received' = <<id, latest[id]>>
    /\ latest'   = [latest EXCEPT ![id] = NoStatus]
    /\ UNCHANGED <<queue, published, phase>>

Next == \E id \in Ids :
    \/ Admit(id)
    \/ Leave(id)
    \/ \E json \in ErrorJson   : PublishError(id, json)
    \/ \E json \in OneShotJson : PublishOnce(id, json)
    \/ \E json \in StatusJson  : PublishStatus(id, json)
    \/ Receive(id)
    \/ ReceiveStatus(id)

Spec == Init /\ [][Next]_vars
=============================================================================
