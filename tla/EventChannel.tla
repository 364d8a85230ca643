---------------------------- MODULE EventChannel ----------------------------
(***************************************************************************)
(* The event mailbox under the calls the session makes on it: admission in   *)
(* ltkit_session_add, retirement in ltkit_session_remove, publication by     *)
(* enqueue() and by the alert thread, and reading by ltkit_session_next_event.*)
(* The session publishes only for identifiers in its own job table, which    *)
(* are exactly the admitted and unretired ones (MailboxMirrorsJobs of        *)
(* NativeSession).                                                           *)
(***************************************************************************)
EXTENDS EventMailbox, SequencesExt

CONSTANTS
    KindOf,     \* the one-shot kind whose payload a text of OneShotJson is
    MaxRun,     \* bound: length of one error run
    MaxEntries  \* bound: entries in the mailbox

ASSUME KindOfAssumption ==
    KindOf \in [OneShotJson -> OneShotKinds]

VARIABLES mailbox,  \* ltkit_session::events
          received  \* <<id, payload>> that the last next_event returned, or <<>>

vars == <<mailbox, received>>

jobs     == mailbox.jobs
critical == mailbox.critical

Init ==
    /\ mailbox  = EmptyMailbox
    /\ received = <<>>

\* The identifiers of the session's own jobs.
Live == LiveIds(mailbox)

Admit(id) ==
    /\ CanAdd(mailbox, id)
    /\ mailbox' = Add(mailbox, id)
    /\ UNCHANGED received

Leave(id) ==
    /\ id \in Live
    /\ mailbox' = Retire(mailbox, id)
    /\ UNCHANGED received

PublishError(id, json) ==
    /\ id \in Live
    /\ Coalesces(mailbox, id, Kind.error) =>
          critical[jobs[id].last_error].count < MaxRun
    /\ ~Coalesces(mailbox, id, Kind.error) => Len(critical) < MaxEntries
    /\ mailbox' = Critical(mailbox, id, Kind.error, json)
    /\ UNCHANGED received

PublishOnce(id, json) ==
    /\ id \in Live
    /\ Len(critical) < MaxEntries
    /\ mailbox' = Critical(mailbox, id, KindOf[json], json)
    /\ UNCHANGED received

PublishStatus(id, json) ==
    /\ id \in Live
    /\ mailbox' = Status(mailbox, id, json)
    /\ UNCHANGED received

NextEventCritical ==
    /\ FrontIsCritical(mailbox)
    /\ received' = <<Head(critical).id, Head(critical).json>>
    /\ mailbox'  = PopCritical(mailbox)

NextEventStatus(id) ==
    /\ FrontIsStatus(mailbox)
    /\ id \in StatusIds(mailbox)
    /\ received' = <<id, jobs[id].status>>
    /\ mailbox'  = PopStatus(mailbox, id)

Publish == \E id \in Ids :
    \/ \E json \in ErrorJson   : PublishError(id, json)
    \/ \E json \in OneShotJson : PublishOnce(id, json)
    \/ \E json \in StatusJson  : PublishStatus(id, json)

Consume == NextEventCritical \/ \E id \in Ids : NextEventStatus(id)

Next ==
    \/ \E id \in Ids : Admit(id) \/ Leave(id)
    \/ Publish
    \/ Consume

Spec == Init /\ [][Next]_vars

\* A consumer that keeps reading its stream.
FairSpec == Spec /\ WF_vars(Consume)

----------------------------------------------------------------------------
(***************************************************************************)
(* Safety.                                                                   *)
(***************************************************************************)
\* The types of mailbox and received: counts, positions and payloads are what
\* EventMailbox declares, and next_event returns published payloads only.
TypeOK ==
    /\ MailboxType(mailbox)
    /\ received \in {<<>>} \cup (Ids \X (Json \cup StatusJson))

\* The pointer, the counter and the flags of EventMailbox are consistent with
\* its list after every sequence of add(), retire(), critical(), status(), pop().
Inv == MailboxInv(mailbox)

(***************************************************************************)
(* The assertion at the end of critical(): the nine reserved entries of each *)
(* admitted torrent are enough, so the alert thread never has to wait for    *)
(* the consumer.                                                             *)
(***************************************************************************)
CriticalBounded == Len(critical) <= ReservedEntries * MaxJobs

(***************************************************************************)
(* last_error never points to a freed entry or to another torrent's entry,   *)
(* although pop() frees entries while the torrent keeps reporting errors.    *)
(***************************************************************************)
LastErrorNotDangling == LastErrorValid(mailbox)

(***************************************************************************)
(* A status event never follows a torrent's completed or invalid-selection   *)
(* event: status() drops the later ones and critical() the waiting one.      *)
(***************************************************************************)
NoStatusAfterTerminal == TerminalSilence(mailbox)

(***************************************************************************)
(* The count by which retire() and pop() decide to forget a torrent is the   *)
(* number of its waiting entries, so an identifier is neither kept for ever  *)
(* nor reusable while events of the removed torrent are still to be read.    *)
(***************************************************************************)
ForgottenWhenDrained == PendingExact(mailbox) /\ RetiredDrains(mailbox)

----------------------------------------------------------------------------
(***************************************************************************)
(* Refinement: read torrent by torrent and with the counted runs unrolled,   *)
(* the mailbox is an EventQueue.                                             *)
(***************************************************************************)
Unrolled(id) ==
    LET mine == SelectSeq(critical, LAMBDA entry : entry.id = id)
    IN  FlattenSeq([i \in DOMAIN mine |-> [n \in 1..mine[i].count |-> mine[i].json]])

Admitted(id) == id \in DOMAIN jobs

Queue == INSTANCE EventQueue WITH
    queue     <- [id \in Ids |-> Unrolled(id)],
    latest    <- [id \in Ids |-> IF Admitted(id) THEN jobs[id].status ELSE NoStatus],
    published <- [id \in Ids |-> IF Admitted(id) THEN jobs[id].delivered_or_pending ELSE {}],
    phase     <- [id \in Ids |-> IF ~Admitted(id) THEN "absent"
                                 ELSE IF jobs[id].retired THEN "draining" ELSE "admitted"],
    TerminalKinds <- {Kind.completed, Kind.invalid_selection},
    Capacity      <- MaxJobs

\* The mailbox implements the event stream of EventQueue: with both error texts
\* the session publishes, critical() loses, duplicates and reorders no occurrence
\* of an event, and the only text it replaces is that of an error that joins an
\* unread error of its torrent ("Repeated identical native errors are stored as a
\* count"; these need not be identical).
ImplementsEventQueue == Queue!Spec

(***************************************************************************)
(* Liveness.                                                                 *)
(***************************************************************************)
ErrorPublished == \E id \in Ids, json \in ErrorJson : PublishError(id, json)

Waiting(id, json) == \E i \in DOMAIN critical : critical[i].id = id /\ critical[i].json = json

(***************************************************************************)
(* If the torrents stop reporting errors, a consumer that keeps calling      *)
(* next_event gets every waiting critical event (an entry leaves the list    *)
(* only by being received).  Without the premise it may not: critical()      *)
(* lengthens a run at the head of the list as fast as pop() shortens it, and *)
(* the entries behind it wait for ever.                                      *)
(***************************************************************************)
EventuallyReceived ==
    <>[][~ErrorPublished]_vars =>
        \A id \in Ids, json \in Json : Waiting(id, json) ~> ~Waiting(id, json)

=============================================================================
