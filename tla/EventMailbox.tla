---------------------------- MODULE EventMailbox ----------------------------
(***************************************************************************)
(* The event mailbox of the native bridge (src/Native/src/EventMailbox.hpp) *)
(* as operators on a mailbox VALUE: every caller holds the session mutex,   *)
(* so a caller's step may chain several of them.                            *)
(*                                                                          *)
(* A mailbox is a record                                                    *)
(*   critical : the std::list of counted entries, in delivery order;        *)
(*   jobs     : the unordered_map from admitted identifiers to their Job.   *)
(***************************************************************************)
EXTENDS Integers, Sequences, FiniteSets, Functions

CONSTANTS
    Ids,         \* torrent identifiers a client may use
    MaxJobs,     \* max_jobs
    ErrorJson,   \* the payload texts of Kind::error events
    OneShotJson, \* the payload texts of the four one-shot kinds
    StatusJson,  \* the payload texts of status events
    NoStatus     \* the empty std::optional

ASSUME MaxJobsAssumption == MaxJobs \in Nat
ASSUME JsonAssumption    == NoStatus \notin StatusJson

\* enum class Kind; a one-shot kind is also its bit in delivered_or_pending.
Kind == [metadata |-> 0, completed |-> 1, stopped |-> 2,
         invalid_selection |-> 3, error |-> 4]

OneShotKinds == 0..3
Kinds        == 0..4
Json         == ErrorJson \cup OneShotJson

\* "Four one-shot transitions can separate at most five error runs."
ReservedEntries == 9

(***************************************************************************)
(* An entry carries a ghost, slot: which of the nine places of its torrent's *)
(* reservation it takes.  A one-shot takes the place of its bit; an error    *)
(* run takes 4 + the number of one-shots published before it.  Nothing in    *)
(* the mailbox reads it.                                                    *)
(***************************************************************************)
Slots == 0..8
Entry == [id : Ids, json : Json, count : Nat, slot : Slots]

(***************************************************************************)
(* Job::last_error is a pointer into critical.  It is the 1-based position  *)
(* of its target; Null is nullptr and Dangling a pointer to a freed entry.  *)
(***************************************************************************)
Null     == -1
Dangling == 0

Job == [delivered_or_pending : SUBSET OneShotKinds,
        status               : StatusJson \cup {NoStatus},
        last_error           : Int,
        pending              : Int,
        retired              : BOOLEAN]

NewJob == [delivered_or_pending |-> {}, status |-> NoStatus,
           last_error |-> Null, pending |-> 0, retired |-> FALSE]

\* What type a mailbox value has.
MailboxType(m) ==
    /\ m.critical \in Seq(Entry)
    /\ DOMAIN m.jobs \subseteq Ids
    /\ m.jobs \in [DOMAIN m.jobs -> Job]
    /\ m = [critical |-> m.critical, jobs |-> m.jobs]

EmptyMailbox == [critical |-> <<>>, jobs |-> [i \in {} |-> NewJob]]

----------------------------------------------------------------------------
SetJob(m, id, job) == [m EXCEPT !.jobs[id] = job]

EraseJob(m, id) ==
    [m EXCEPT !.jobs = Restrict(m.jobs, DOMAIN m.jobs \ {id})]

\* Mutant of CanAdd: an identifier still in the table is admitted again.
CanAddByCount(m, id) ==
    Cardinality(DOMAIN m.jobs) < MaxJobs /\ id \in Ids

CanAdd(m, id) ==
    /\ Cardinality(DOMAIN m.jobs) < MaxJobs
    /\ id \notin DOMAIN m.jobs

Add(m, id) ==
    [m EXCEPT !.jobs = [i \in DOMAIN m.jobs \cup {id} |->
                            IF i = id THEN NewJob ELSE m.jobs[i]]]

\* Mutant of Retire: a job with nothing left to read is kept.
RetireNeverErases(m, id) ==
    IF id \notin DOMAIN m.jobs THEN m
    ELSE SetJob(m, id, [m.jobs[id] EXCEPT !.retired = TRUE, !.status = NoStatus])

Retire(m, id) ==
    IF id \notin DOMAIN m.jobs THEN m
    ELSE IF m.jobs[id].pending = 0 THEN EraseJob(m, id)
    ELSE SetJob(m, id, [m.jobs[id] EXCEPT !.retired = TRUE, !.status = NoStatus])

\* ++count and --count of the run at position i.
Recount(m, i, count) ==
    LET entry == [m.critical[i] EXCEPT !.count = count]
    IN  [m EXCEPT !.critical = [m.critical EXCEPT ![i] = entry]]

\* Mutant of PushEntry: a one-shot does not end the pending error run.
PushEntryKeepsRun(m, id, kind, json) ==
    LET job  == m.jobs[id]
        bits == IF kind = Kind.error THEN job.delivered_or_pending
                ELSE job.delivered_or_pending \cup {kind}
        slot == IF kind = Kind.error THEN 4 + Cardinality(bits) ELSE kind
    IN  [critical |-> Append(m.critical,
                             [id |-> id, json |-> json, count |-> 1, slot |-> slot]),
         jobs     |-> [m.jobs EXCEPT ![id] =
                         [job EXCEPT !.delivered_or_pending = bits,
                                     !.last_error = IF kind = Kind.error
                                                    THEN Len(m.critical) + 1 ELSE @,
                                     !.status  = NoStatus,
                                     !.pending = job.pending + 1]]]

\* push_back of a fresh run of length one; an error run becomes last_error.
PushEntry(m, id, kind, json) ==
    LET job  == m.jobs[id]
        bits == IF kind = Kind.error THEN job.delivered_or_pending
                ELSE job.delivered_or_pending \cup {kind}
        slot == IF kind = Kind.error THEN 4 + Cardinality(bits) ELSE kind
    IN  [critical |-> Append(m.critical,
                             [id |-> id, json |-> json, count |-> 1, slot |-> slot]),
         jobs     |-> [m.jobs EXCEPT ![id] =
                         [job EXCEPT !.delivered_or_pending = bits,
                                     !.last_error = IF kind = Kind.error
                                                    THEN Len(m.critical) + 1 ELSE Null,
                                     !.status  = NoStatus,
                                     !.pending = job.pending + 1]]]

\* Mutant of Coalesces: every error takes an entry of its own.
NeverCoalesces(m, id, kind) == id \in DOMAIN m.jobs /\ kind \notin Kinds

\* A repeated error only lengthens the pending run, whatever its payload is.
Coalesces(m, id, kind) ==
    kind = Kind.error /\ m.jobs[id].last_error # Null

\* Mutant of AlreadyPublished: a one-shot is published as often as it occurs.
NeverPublished(m, id, kind) == id \in DOMAIN m.jobs /\ kind \notin Kinds

AlreadyPublished(m, id, kind) ==
    kind # Kind.error /\ kind \in m.jobs[id].delivered_or_pending

\* critical(): jobs_.at(id) requires an admitted id.
Critical(m, id, kind, json) ==
    IF Coalesces(m, id, kind)
    THEN LET run == m.jobs[id].last_error
         IN  Recount(m, run, m.critical[run].count + 1)
    ELSE IF AlreadyPublished(m, id, kind) THEN m
    ELSE PushEntry(m, id, kind, json)

\* Mutant of Status: only completed silences a torrent.
StatusAfterInvalidSelection(m, id, json) ==
    IF m.jobs[id].retired \/ Kind.completed \in m.jobs[id].delivered_or_pending THEN m
    ELSE SetJob(m, id, [m.jobs[id] EXCEPT !.status = json])

\* status(): dropped once the torrent is retired or has reached a final event.
Status(m, id, json) ==
    IF \/ m.jobs[id].retired
       \/ Kind.completed \in m.jobs[id].delivered_or_pending
       \/ Kind.invalid_selection \in m.jobs[id].delivered_or_pending
    THEN m
    ELSE SetJob(m, id, [m.jobs[id] EXCEPT !.status = json])

\* The identifiers admitted and not retired: those that may publish.
LiveIds(m) == {id \in DOMAIN m.jobs : ~m.jobs[id].retired}

\* The identifiers whose status front() and pop() may find first in the map.
StatusIds(m) == {id \in DOMAIN m.jobs : m.jobs[id].status # NoStatus}

FrontIsCritical(m) == m.critical # <<>>
FrontIsStatus(m)   == m.critical = <<>> /\ StatusIds(m) # {}
HasFront(m)        == FrontIsCritical(m) \/ FrontIsStatus(m)

(***************************************************************************)
(* pop_front() frees the head: every position moves down by one, and a       *)
(* pointer that was not cleared and pointed at the head is left Dangling.   *)
(***************************************************************************)
Shifted(m) ==
    [id \in DOMAIN m.jobs |->
        [m.jobs[id] EXCEPT !.last_error = IF @ = Null THEN Null ELSE @ - 1]]

\* Mutant of Settled: the pointer to the freed run is not cleared.
SettledKeepsPointer(job) == [job EXCEPT !.pending = @ - 1]

\* The owner forgets a run that is about to be freed and has one entry less.
Settled(job) ==
    [job EXCEPT !.last_error = IF @ = 1 THEN Null ELSE @,
                !.pending    = @ - 1]

\* Mutant of PopCritical: a run read to its end is not freed.
PopCriticalNeverFrees(m) == Recount(m, 1, Head(m.critical).count - 1)

\* Mutant of PopCritical: the count of the run is not taken down.
PopCriticalKeepsHead(m) == Recount(m, 1, Head(m.critical).count)

\* pop() when front() was a critical entry.
PopCritical(m) ==
    LET entry == Head(m.critical)
        job   == Settled(m.jobs[entry.id])
        freed == [critical |-> Tail(m.critical),
                  jobs     |-> Shifted(SetJob(m, entry.id, job))]
    IN  IF entry.count # 1
        THEN Recount(m, 1, entry.count - 1)
        ELSE IF job.retired /\ job.pending = 0
             THEN EraseJob(freed, entry.id)
             ELSE freed

\* pop() when front() was the status of id.
PopStatus(m, id) == SetJob(m, id, [m.jobs[id] EXCEPT !.status = NoStatus])

----------------------------------------------------------------------------
(* The inductive invariant of a mailbox value, part by part.                 *)

\* The positions of the entries of a torrent.
EntriesOf(m, id) == {i \in DOMAIN m.critical : m.critical[i].id = id}

\* Every entry belongs to an admitted torrent and stands for an event at least.
EntriesOwned(m) == \A i \in DOMAIN m.critical :
    /\ m.critical[i].id \in DOMAIN m.jobs
    /\ m.critical[i].count \in Nat \ {0}

\* No two entries of a torrent take the same place of its reservation.
SlotsDistinct(m) == \A i, j \in DOMAIN m.critical :
    m.critical[i].id = m.critical[j].id /\ m.critical[i].slot = m.critical[j].slot
        => i = j

\* A waiting one-shot has its bit set; an error run that followed the latest
\* one-shot is the run that last_error points to.
SlotsJustified(m) == \A i \in DOMAIN m.critical :
    LET entry == m.critical[i]
        bits  == m.jobs[entry.id].delivered_or_pending
    IN  IF entry.slot \in OneShotKinds THEN entry.slot \in bits
        ELSE /\ entry.slot <= 4 + Cardinality(bits)
             /\ entry.slot = 4 + Cardinality(bits) => m.jobs[entry.id].last_error = i

\* last_error is null or points to a waiting error run of the same torrent,
\* the one published after all of the torrent's one-shots.
LastErrorValid(m) == \A id \in DOMAIN m.jobs :
    m.jobs[id].last_error # Null =>
        /\ m.jobs[id].last_error \in EntriesOf(m, id)
        /\ m.critical[m.jobs[id].last_error].slot
              = 4 + Cardinality(m.jobs[id].delivered_or_pending)

\* pending counts the torrent's entries: retire() and pop() erase by it.
PendingExact(m) == \A id \in DOMAIN m.jobs :
    m.jobs[id].pending = Cardinality(EntriesOf(m, id))

\* A retired job is kept only for the entries still to be read.
RetiredDrains(m) == \A id \in DOMAIN m.jobs :
    m.jobs[id].retired => m.jobs[id].pending > 0 /\ m.jobs[id].status = NoStatus

\* No status waits behind a completed or an invalid_selection event.
TerminalSilence(m) == \A id \in DOMAIN m.jobs :
    m.jobs[id].delivered_or_pending \cap {Kind.completed, Kind.invalid_selection} # {}
        => m.jobs[id].status = NoStatus

\* can_add() keeps the table within max_jobs.
JobsBounded(m) == IsFiniteSet(DOMAIN m.jobs) /\ Cardinality(DOMAIN m.jobs) <= MaxJobs

\* All of it: what every sequence of calls on a mailbox keeps.
MailboxInv(m) ==
    /\ MailboxType(m)
    /\ EntriesOwned(m)
    /\ SlotsDistinct(m)
    /\ SlotsJustified(m)
    /\ LastErrorValid(m)
    /\ PendingExact(m)
    /\ RetiredDrains(m)
    /\ TerminalSilence(m)
    /\ JobsBounded(m)
=============================================================================
