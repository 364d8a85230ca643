------------------------ MODULE EventMailboxProofs -------------------------
(***************************************************************************)
(* Lemmas about the operations on a mailbox value, for every number of       *)
(* torrents, every payload and every bound.                                  *)
(***************************************************************************)
EXTENDS EventMailbox, FiniteSetTheorems, TLAPS

----------------------------------------------------------------------------
(* Sets of one-shot kinds and of entry positions.                            *)

\* delivered_or_pending has at most four bits.
LEMMA BitsBounded ==
    ASSUME NEW bits \in SUBSET OneShotKinds
    PROVE  IsFiniteSet(bits) /\ Cardinality(bits) \in 0..4
<1>1. 0 \in Int /\ 3 \in Int
  OBVIOUS
<1>2. IsFiniteSet(0..3) /\ Cardinality(0..3) = IF 0 > 3 THEN 0 ELSE 3 - 0 + 1
  BY <1>1, FS_Interval, Zenon
<1>3. IsFiniteSet(OneShotKinds) /\ Cardinality(OneShotKinds) = 4
  BY <1>2 DEF OneShotKinds
<1>4. IsFiniteSet(bits) /\ Cardinality(bits) <= 4
  BY <1>3, FS_Subset
<1> QED
  BY <1>4, FS_CardinalityType

\* Setting a clear bit adds one to their number.
LEMMA BitAdded ==
    ASSUME NEW bits \in SUBSET OneShotKinds, NEW kind \in OneShotKinds, kind \notin bits
    PROVE  Cardinality(bits \cup {kind}) = Cardinality(bits) + 1
  BY BitsBounded, FS_AddElement

\* The entries of a torrent are finitely many.
LEMMA EntriesFinite ==
    ASSUME NEW m, MailboxType(m), NEW id
    PROVE  IsFiniteSet(EntriesOf(m, id)) /\ Cardinality(EntriesOf(m, id)) \in Nat
<1>1. 1 \in Int /\ Len(m.critical) \in Int
  BY DEF MailboxType
<1>2. IsFiniteSet(1..Len(m.critical))
  BY <1>1, FS_Interval, Zenon
<1>3. EntriesOf(m, id) \subseteq 1..Len(m.critical)
  BY DEF EntriesOf, MailboxType
<1> QED
  BY <1>2, <1>3, FS_Subset, FS_CardinalityType

----------------------------------------------------------------------------
(* Each operation on a mailbox keeps MailboxInv.                             *)

\* A new session has an empty mailbox.
LEMMA EmptyMailboxInv == MailboxInv(EmptyMailbox)
<1> DEFINE m == EmptyMailbox
<1>1. /\ m.critical = <<>> /\ DOMAIN m.jobs = {}
      /\ m.jobs \in [{} -> Job]
      /\ m = [critical |-> m.critical, jobs |-> m.jobs]
  BY DEF EmptyMailbox
<1> HIDE DEF m
<1>2. DOMAIN m.critical = {} /\ m.critical \in Seq(Entry)
  BY <1>1
<1>3. MailboxType(m)
  BY <1>1, <1>2 DEF MailboxType
<1>4. JobsBounded(m)
  BY <1>1, FS_EmptySet, MaxJobsAssumption DEF JobsBounded
<1>5. MailboxInv(m)
  BY <1>1, <1>2, <1>3, <1>4 DEF MailboxInv, EntriesOwned, SlotsDistinct, SlotsJustified,
     LastErrorValid, PendingExact, RetiredDrains, TerminalSilence
<1> QED
  BY <1>5 DEF m

\* add() reserves an empty place for a new identifier.
LEMMA AddKeeps ==
    ASSUME NEW m, MailboxInv(m), NEW id \in Ids, CanAdd(m, id)
    PROVE  MailboxInv(Add(m, id))
<1> DEFINE n == Add(m, id)
<1>1. /\ n = [critical |-> m.critical, jobs |-> n.jobs]
      /\ n.critical = m.critical
      /\ DOMAIN n.jobs = DOMAIN m.jobs \cup {id}
      /\ n.jobs \in [DOMAIN m.jobs \cup {id} -> Job]
      /\ n.jobs[id] = NewJob
      /\ \A i \in DOMAIN m.jobs : i # id /\ n.jobs[i] = m.jobs[i]
  <2>1. NewJob \in Job
    BY DEF NewJob, Job, Null
  <2> QED
    BY <2>1 DEF Add, CanAdd, MailboxInv, MailboxType
<1> HIDE DEF n
<1>2. MailboxType(n)
  BY <1>1 DEF MailboxInv, MailboxType
<1>3. \A i : EntriesOf(n, i) = EntriesOf(m, i)
  BY <1>1 DEF EntriesOf
<1>4. EntriesOf(m, id) = {}
  BY DEF MailboxInv, EntriesOwned, EntriesOf, CanAdd
<1>5. EntriesOwned(n) /\ SlotsDistinct(n) /\ SlotsJustified(n)
  BY <1>1 DEF MailboxInv, EntriesOwned, SlotsDistinct, SlotsJustified
<1>6. LastErrorValid(n)
  BY <1>1, <1>3 DEF MailboxInv, LastErrorValid, NewJob
<1>7. PendingExact(n)
  BY <1>1, <1>3, <1>4, FS_EmptySet DEF MailboxInv, PendingExact, NewJob
<1>8. RetiredDrains(n) /\ TerminalSilence(n)
  BY <1>1 DEF MailboxInv, RetiredDrains, TerminalSilence, NewJob
<1>9. JobsBounded(n)
  <2> DEFINE D == DOMAIN m.jobs
  <2>1. IsFiniteSet(D) /\ Cardinality(D) \in Nat
    BY FS_CardinalityType DEF MailboxInv, JobsBounded
  <2>2. id \notin D /\ Cardinality(D) < MaxJobs
    BY DEF CanAdd
  <2> HIDE DEF D
  <2>3. IsFiniteSet(D \cup {id}) /\ Cardinality(D \cup {id}) = Cardinality(D) + 1
    BY <2>1, <2>2, FS_AddElement
  <2>4. Cardinality(D \cup {id}) <= MaxJobs
    BY <2>1, <2>2, <2>3, MaxJobsAssumption
  <2> QED
    BY <1>1, <2>3, <2>4 DEF JobsBounded, D
<1> QED
  BY <1>2, <1>5, <1>6, <1>7, <1>8, <1>9 DEF MailboxInv, n

\* MailboxInv, but id may be retired with nothing left to read: the state in
\* which retire() and pop() erase it.
DrainedInv(m, id) ==
    /\ MailboxType(m)
    /\ EntriesOwned(m)
    /\ SlotsDistinct(m)
    /\ SlotsJustified(m)
    /\ LastErrorValid(m)
    /\ PendingExact(m)
    /\ \A i \in DOMAIN m.jobs \ {id} :
          m.jobs[i].retired => m.jobs[i].pending > 0 /\ m.jobs[i].status = NoStatus
    /\ TerminalSilence(m)
    /\ JobsBounded(m)

\* erase(): a job without entries may be forgotten.
LEMMA EraseKeeps ==
    ASSUME NEW m, NEW id \in DOMAIN m.jobs, DrainedInv(m, id), m.jobs[id].pending = 0
    PROVE  MailboxInv(EraseJob(m, id))
<1> DEFINE n == EraseJob(m, id)
<1>1. /\ n = [critical |-> m.critical, jobs |-> n.jobs]
      /\ n.critical = m.critical
      /\ DOMAIN n.jobs = DOMAIN m.jobs \ {id}
      /\ n.jobs \in [DOMAIN m.jobs \ {id} -> Job]
      /\ \A i \in DOMAIN n.jobs : n.jobs[i] = m.jobs[i]
  BY DEF EraseJob, Restrict, DrainedInv, MailboxType
<1> HIDE DEF n
<1>2. MailboxType(n)
  BY <1>1 DEF DrainedInv, MailboxType
<1>3. \A i : EntriesOf(n, i) = EntriesOf(m, i)
  BY <1>1 DEF EntriesOf
<1>4. EntriesOf(m, id) = {}
  BY EntriesFinite, FS_EmptySet DEF DrainedInv, PendingExact
<1>5. \A i \in DOMAIN m.critical : m.critical[i].id \in DOMAIN n.jobs
  BY <1>1, <1>4 DEF DrainedInv, EntriesOwned, EntriesOf
<1>6. EntriesOwned(n) /\ SlotsDistinct(n) /\ SlotsJustified(n)
  BY <1>1, <1>5 DEF DrainedInv, EntriesOwned, SlotsDistinct, SlotsJustified
<1>7. LastErrorValid(n) /\ PendingExact(n)
  BY <1>1, <1>3 DEF DrainedInv, LastErrorValid, PendingExact
<1>8. RetiredDrains(n) /\ TerminalSilence(n)
  BY <1>1 DEF DrainedInv, RetiredDrains, TerminalSilence
<1>9. JobsBounded(n)
  <2> DEFINE D == DOMAIN m.jobs
  <2>1. IsFiniteSet(D) /\ Cardinality(D) \in Nat /\ Cardinality(D) <= MaxJobs
    BY FS_CardinalityType DEF DrainedInv, JobsBounded
  <2> HIDE DEF D
  <2>2. IsFiniteSet(D \ {id}) /\ Cardinality(D \ {id}) <= Cardinality(D)
    BY <2>1, FS_Subset
  <2>3. Cardinality(D \ {id}) \in Nat
    BY <2>2, FS_CardinalityType
  <2>4. Cardinality(D \ {id}) <= MaxJobs
    BY <2>1, <2>2, <2>3, MaxJobsAssumption
  <2> QED
    BY <1>1, <2>2, <2>4 DEF JobsBounded, D
<1> QED
  BY <1>2, <1>6, <1>7, <1>8, <1>9 DEF MailboxInv, n

\* A change of status and retired alone keeps the invariant when a retired job
\* has entries and no status, and a terminal one has no status.
LEMMA SetJobKeeps ==
    ASSUME NEW m, MailboxInv(m), NEW id \in DOMAIN m.jobs, NEW job \in Job,
           job.delivered_or_pending = m.jobs[id].delivered_or_pending,
           job.last_error = m.jobs[id].last_error,
           job.pending = m.jobs[id].pending,
           job.retired => job.pending > 0 /\ job.status = NoStatus,
           job.delivered_or_pending \cap {Kind.completed, Kind.invalid_selection} # {}
               => job.status = NoStatus
    PROVE  MailboxInv(SetJob(m, id, job))
<1> DEFINE n == SetJob(m, id, job)
<1>1. /\ n = [critical |-> m.critical, jobs |-> n.jobs]
      /\ n.critical = m.critical
      /\ DOMAIN n.jobs = DOMAIN m.jobs
      /\ n.jobs \in [DOMAIN m.jobs -> Job]
      /\ n.jobs[id] = job
      /\ \A i \in DOMAIN m.jobs : i # id => n.jobs[i] = m.jobs[i]
  BY DEF SetJob, MailboxInv, MailboxType
<1> HIDE DEF n
<1>2. MailboxType(n)
  BY <1>1 DEF MailboxInv, MailboxType
<1>3. \A i : EntriesOf(n, i) = EntriesOf(m, i)
  BY <1>1 DEF EntriesOf
<1>4. \A i \in DOMAIN m.jobs :
        /\ n.jobs[i].delivered_or_pending = m.jobs[i].delivered_or_pending
        /\ n.jobs[i].last_error = m.jobs[i].last_error
        /\ n.jobs[i].pending = m.jobs[i].pending
  BY <1>1
<1>5. EntriesOwned(n) /\ SlotsDistinct(n) /\ SlotsJustified(n)
  BY <1>1, <1>4 DEF MailboxInv, EntriesOwned, SlotsDistinct, SlotsJustified
<1>6. LastErrorValid(n) /\ PendingExact(n)
  BY <1>1, <1>3, <1>4 DEF MailboxInv, LastErrorValid, PendingExact
<1>7. RetiredDrains(n) /\ TerminalSilence(n)
  BY <1>1 DEF MailboxInv, RetiredDrains, TerminalSilence
<1>8. JobsBounded(n)
  BY <1>1 DEF MailboxInv, JobsBounded
<1> QED
  BY <1>2, <1>5, <1>6, <1>7, <1>8 DEF MailboxInv, n

\* retire() drops the status, and the job too when nothing waits.
LEMMA RetireKeeps ==
    ASSUME NEW m, MailboxInv(m), NEW id
    PROVE  MailboxInv(Retire(m, id))
<1>1. CASE id \notin DOMAIN m.jobs
  BY <1>1 DEF Retire
<1>2. CASE id \in DOMAIN m.jobs /\ m.jobs[id].pending = 0
  <2>1. DrainedInv(m, id)
    BY DEF MailboxInv, DrainedInv, RetiredDrains
  <2> QED
    BY <1>2, <2>1, EraseKeeps DEF Retire
<1>3. CASE id \in DOMAIN m.jobs /\ m.jobs[id].pending # 0
  <2> DEFINE job == [m.jobs[id] EXCEPT !.retired = TRUE, !.status = NoStatus]
  <2>1. m.jobs[id] \in Job
    BY <1>3 DEF MailboxInv, MailboxType
  <2>2. m.jobs[id].pending > 0
    BY <1>3, EntriesFinite DEF MailboxInv, PendingExact
  <2>3. /\ job \in Job
        /\ job.delivered_or_pending = m.jobs[id].delivered_or_pending
        /\ job.last_error = m.jobs[id].last_error
        /\ job.pending = m.jobs[id].pending
        /\ job.status = NoStatus
    BY <2>1 DEF Job
  <2>4. Retire(m, id) = SetJob(m, id, job)
    BY <1>3 DEF Retire
  <2> HIDE DEF job
  <2> QED
    BY <1>3, <2>2, <2>3, <2>4, SetJobKeeps
<1> QED
  BY <1>1, <1>2, <1>3

\* status() replaces the waiting status of a torrent that may report one.
LEMMA StatusKeeps ==
    ASSUME NEW m, MailboxInv(m), NEW id \in DOMAIN m.jobs, NEW json \in StatusJson
    PROVE  MailboxInv(Status(m, id, json))
<1> DEFINE job == [m.jobs[id] EXCEPT !.status = json]
<1>1. m.jobs[id] \in Job
  BY DEF MailboxInv, MailboxType
<1>2. /\ job \in Job
      /\ job.delivered_or_pending = m.jobs[id].delivered_or_pending
      /\ job.last_error = m.jobs[id].last_error
      /\ job.pending = m.jobs[id].pending
      /\ job.retired = m.jobs[id].retired
  BY <1>1 DEF Job
<1> HIDE DEF job
<1>3. CASE \/ m.jobs[id].retired
           \/ Kind.completed \in m.jobs[id].delivered_or_pending
           \/ Kind.invalid_selection \in m.jobs[id].delivered_or_pending
  BY <1>3 DEF Status
<1>4. CASE ~ \/ m.jobs[id].retired
             \/ Kind.completed \in m.jobs[id].delivered_or_pending
             \/ Kind.invalid_selection \in m.jobs[id].delivered_or_pending
  <2>1. Status(m, id, json) = SetJob(m, id, job)
    BY <1>4 DEF Status, job
  <2>2. job.delivered_or_pending \cap {Kind.completed, Kind.invalid_selection} = {}
    BY <1>2, <1>4
  <2> QED
    BY <1>2, <1>4, <2>1, <2>2, SetJobKeeps
<1> QED
  BY <1>3, <1>4

\* pop() of a status event.
LEMMA PopStatusKeeps ==
    ASSUME NEW m, MailboxInv(m), NEW id \in DOMAIN m.jobs
    PROVE  MailboxInv(PopStatus(m, id))
<1> DEFINE job == [m.jobs[id] EXCEPT !.status = NoStatus]
<1>1. m.jobs[id] \in Job
  BY DEF MailboxInv, MailboxType
<1>2. /\ job \in Job
      /\ job.delivered_or_pending = m.jobs[id].delivered_or_pending
      /\ job.last_error = m.jobs[id].last_error
      /\ job.pending = m.jobs[id].pending
      /\ job.retired = m.jobs[id].retired
      /\ job.status = NoStatus
  BY <1>1 DEF Job
<1>3. PopStatus(m, id) = SetJob(m, id, job)
  BY DEF PopStatus
<1> HIDE DEF job
<1>4. job.retired => job.pending > 0
  BY <1>2 DEF MailboxInv, RetiredDrains
<1> QED
  BY <1>2, <1>3, <1>4, SetJobKeeps

\* A change of counts alone: a run grows in critical() or shrinks in pop().
LEMMA RecountKeeps ==
    ASSUME NEW m, MailboxInv(m), NEW i \in DOMAIN m.critical, NEW c \in Nat \ {0}
    PROVE  MailboxInv(Recount(m, i, c))
<1> DEFINE n == Recount(m, i, c)
<1> DEFINE e == [m.critical[i] EXCEPT !.count = c]
<1>0. m.critical \in Seq(Entry) /\ m.critical[i] \in Entry
  BY DEF MailboxInv, MailboxType
<1>1. /\ n = [critical |-> n.critical, jobs |-> m.jobs]
      /\ n.jobs = m.jobs
      /\ n.critical = [m.critical EXCEPT ![i] = e]
  <2> DEFINE q == [m.critical EXCEPT ![i] = e]
  <2>1. n = [m EXCEPT !.critical = q]
    BY DEF Recount
  <2>2. m = [critical |-> m.critical, jobs |-> m.jobs]
    BY DEF MailboxInv, MailboxType
  <2>3. n.critical = [m.critical EXCEPT ![i] = e]
    <3> HIDE DEF q, n
    <3>1. n.critical = q
      BY <2>1, <2>2
    <3> QED
      BY <3>1 DEF q
  <2>4. n = [critical |-> n.critical, jobs |-> m.jobs] /\ n.jobs = m.jobs
    <3> HIDE DEF q, n
    <3> QED
      BY <2>1, <2>2
  <2> QED
    BY <2>3, <2>4
<1>2. e \in Entry /\ e.id = m.critical[i].id /\ e.slot = m.critical[i].slot /\ e.count = c
  BY <1>0 DEF Entry
<1> HIDE DEF n, e
<1>2a. /\ n.critical \in Seq(Entry)
       /\ DOMAIN n.critical = DOMAIN m.critical
  BY <1>0, <1>1, <1>2
<1>2b. \A j \in DOMAIN m.critical :
            /\ n.critical[j].id = m.critical[j].id
            /\ n.critical[j].slot = m.critical[j].slot
            /\ n.critical[j].count = IF j = i THEN c ELSE m.critical[j].count
  BY <1>0, <1>1, <1>2
<1>3. MailboxType(n)
  BY <1>1, <1>2a DEF MailboxInv, MailboxType
<1>4. \A id : EntriesOf(n, id) = EntriesOf(m, id)
  BY <1>2a, <1>2b DEF EntriesOf
<1>5. EntriesOwned(n) /\ SlotsDistinct(n) /\ SlotsJustified(n)
  BY <1>1, <1>2a, <1>2b DEF MailboxInv, EntriesOwned, SlotsDistinct, SlotsJustified
<1>6. LastErrorValid(n) /\ PendingExact(n)
  <2>1. \A id : EntriesOf(m, id) \subseteq DOMAIN m.critical
    BY DEF EntriesOf
  <2>2. LastErrorValid(n)
    BY <1>1, <1>2b, <1>4, <2>1 DEF MailboxInv, LastErrorValid
  <2>3. PendingExact(n)
    BY <1>1, <1>4 DEF MailboxInv, PendingExact
  <2> QED
    BY <2>2, <2>3
<1>7. RetiredDrains(n) /\ TerminalSilence(n) /\ JobsBounded(n)
  BY <1>1 DEF MailboxInv, RetiredDrains, TerminalSilence, JobsBounded
<1> QED
  BY <1>3, <1>5, <1>6, <1>7 DEF MailboxInv, n

\* The Job that critical() leaves behind when it pushes an entry.
LEMMA JobUpdated ==
    ASSUME NEW old \in Job, NEW bits \in SUBSET OneShotKinds, NEW le \in Int, NEW p \in Int
    PROVE  [old EXCEPT !.delivered_or_pending = bits, !.last_error = le,
                       !.status = NoStatus, !.pending = p] \in Job
  BY DEF Job

\* The owner of the freed head.
LEMMA SettledJob ==
    ASSUME NEW job \in Job
    PROVE  /\ Settled(job) \in Job
           /\ Settled(job).delivered_or_pending = job.delivered_or_pending
           /\ Settled(job).status = job.status
           /\ Settled(job).retired = job.retired
           /\ Settled(job).pending = job.pending - 1
           /\ Settled(job).last_error = IF job.last_error = 1 THEN Null ELSE job.last_error
<1> DEFINE le == IF job.last_error = 1 THEN Null ELSE job.last_error
           p  == job.pending - 1
<1>1. le \in Int /\ p \in Int
  BY DEF Job, Null
<1>2. Settled(job) = [job EXCEPT !.last_error = le, !.pending = p]
  BY DEF Settled
<1> HIDE DEF le, p
<1>3. Settled(job) \in Job /\ Settled(job).pending = p /\ Settled(job).last_error = le
  BY <1>1, <1>2 DEF Job
<1>4. /\ Settled(job).delivered_or_pending = job.delivered_or_pending
      /\ Settled(job).status = job.status
      /\ Settled(job).retired = job.retired
  BY <1>2 DEF Job
<1> QED
  BY <1>3, <1>4 DEF le, p

\* A job whose pointer alone moves.
LEMMA MovedJob ==
    ASSUME NEW job \in Job, NEW le \in Int
    PROVE  LET moved == [job EXCEPT !.last_error = le]
           IN  /\ moved \in Job
               /\ moved.delivered_or_pending = job.delivered_or_pending
               /\ moved.status = job.status
               /\ moved.retired = job.retired
               /\ moved.pending = job.pending
               /\ moved.last_error = le
  BY DEF Job

\* push_back in critical(): an error run that no pending run absorbs, or a
\* one-shot published for the first time.
LEMMA PushKeeps ==
    ASSUME NEW m, MailboxInv(m), NEW id \in DOMAIN m.jobs,
           NEW kind \in Kinds, NEW json \in Json,
           ~Coalesces(m, id, kind), ~AlreadyPublished(m, id, kind)
    PROVE  MailboxInv(PushEntry(m, id, kind, json))
<1> DEFINE n    == PushEntry(m, id, kind, json)
           old  == m.jobs[id]
           bits == IF kind = Kind.error THEN old.delivered_or_pending
                   ELSE old.delivered_or_pending \cup {kind}
           slot == IF kind = Kind.error THEN 4 + Cardinality(bits) ELSE kind
           last == Len(m.critical) + 1
           e    == [id |-> id, json |-> json, count |-> 1, slot |-> slot]
           le   == IF kind = Kind.error THEN last ELSE Null
           job  == [old EXCEPT !.delivered_or_pending = bits,
                               !.last_error = le,
                               !.status  = NoStatus,
                               !.pending = old.pending + 1]
<1>1. /\ m.critical \in Seq(Entry) /\ Len(m.critical) \in Nat
      /\ id \in Ids /\ old \in Job /\ m.jobs \in [DOMAIN m.jobs -> Job]
      /\ DOMAIN m.critical = 1..Len(m.critical)
  BY DEF MailboxInv, MailboxType
<1>2. old.delivered_or_pending \in SUBSET OneShotKinds /\ bits \in SUBSET OneShotKinds
  BY <1>1 DEF Job, Kinds, OneShotKinds, Kind
<1>3. /\ Cardinality(old.delivered_or_pending) \in 0..4
      /\ Cardinality(bits) \in 0..4
      /\ kind # Kind.error => Cardinality(bits) = Cardinality(old.delivered_or_pending) + 1
  <2>1. kind # Kind.error => kind \in OneShotKinds /\ kind \notin old.delivered_or_pending
    BY DEF AlreadyPublished, Kinds, OneShotKinds, Kind
  <2> QED
    BY <1>2, <2>1, BitsBounded, BitAdded
<1>4. slot \in Slots /\ (kind # Kind.error => slot \in OneShotKinds)
                     /\ (kind = Kind.error => slot \notin OneShotKinds)
  <2> HIDE DEF bits
  <2> QED
    BY <1>3 DEF Slots, Kinds, OneShotKinds, Kind
<1>5. /\ job \in Job
      /\ job.delivered_or_pending = bits
      /\ job.last_error = le
      /\ job.status = NoStatus
      /\ job.pending = old.pending + 1
      /\ job.retired = old.retired
  <2>1. le \in Int
    BY <1>1 DEF Null
  <2>2. old \in Job /\ old.pending + 1 \in Int
    BY <1>1 DEF Job
  <2> HIDE DEF bits, old, le
  <2>3. job \in Job
    BY <1>2, <2>1, <2>2, JobUpdated
  <2>4. /\ job.delivered_or_pending = bits
        /\ job.last_error = le
        /\ job.status = NoStatus
        /\ job.pending = old.pending + 1
        /\ job.retired = old.retired
    BY <2>2 DEF Job
  <2> QED
    BY <2>3, <2>4
<1>6. e \in Entry /\ e.id = id /\ e.slot = slot /\ e.count = 1
  <2> HIDE DEF slot
  <2> QED
    BY <1>1, <1>4 DEF Entry
<1>7. /\ n = [critical |-> n.critical, jobs |-> n.jobs]
      /\ n.critical = Append(m.critical, e)
      /\ n.jobs = [m.jobs EXCEPT ![id] = job]
  BY DEF PushEntry
<1> HIDE DEF n, job, e, slot, bits, old
<1>8. /\ n.critical \in Seq(Entry)
      /\ DOMAIN n.critical = DOMAIN m.critical \cup {last}
      /\ last \notin DOMAIN m.critical
      /\ n.critical[last] = e
      /\ \A j \in DOMAIN m.critical : n.critical[j] = m.critical[j]
  BY <1>1, <1>6, <1>7
<1>9. /\ n.jobs \in [DOMAIN m.jobs -> Job]
      /\ DOMAIN n.jobs = DOMAIN m.jobs
      /\ n.jobs[id] = job
      /\ \A i \in DOMAIN m.jobs : i # id => n.jobs[i] = m.jobs[i]
  BY <1>1, <1>5, <1>7
<1>10. old = m.jobs[id]
  BY DEF old
<1>11. MailboxType(n)
  BY <1>7, <1>8, <1>9 DEF MailboxInv, MailboxType
<1>12. EntriesOwned(n)
  BY <1>6, <1>8, <1>9 DEF MailboxInv, EntriesOwned
<1>13. \A j \in DOMAIN m.critical : m.critical[j].id = id => m.critical[j].slot # slot
  <2> SUFFICES ASSUME NEW j \in DOMAIN m.critical, m.critical[j].id = id,
                      m.critical[j].slot = slot
               PROVE  FALSE
    OBVIOUS
  <2>1. CASE kind = Kind.error
    <3>1. slot = 4 + Cardinality(old.delivered_or_pending)
      BY <2>1 DEF slot, bits
    <3>2. m.jobs[id].last_error = j
      BY <1>4, <1>10, <2>1, <3>1 DEF MailboxInv, SlotsJustified
    <3>3. j # Null
      BY <1>1 DEF Null
    <3> QED
      BY <2>1, <3>2, <3>3 DEF Coalesces
  <2>2. CASE kind # Kind.error
    <3>1. slot = kind
      BY <2>2 DEF slot
    <3> QED
      BY <1>4, <2>2, <3>1 DEF MailboxInv, SlotsJustified, AlreadyPublished
  <2> QED
    BY <2>1, <2>2
<1>14. SlotsDistinct(n)
  BY <1>6, <1>8, <1>13 DEF MailboxInv, SlotsDistinct
<1>15. SlotsJustified(n)
  <2> SUFFICES ASSUME NEW j \in DOMAIN n.critical
               PROVE  LET x == n.critical[j]
                          b == n.jobs[x.id].delivered_or_pending
                      IN  IF x.slot \in OneShotKinds THEN x.slot \in b
                          ELSE /\ x.slot <= 4 + Cardinality(b)
                               /\ x.slot = 4 + Cardinality(b) => n.jobs[x.id].last_error = j
    BY DEF SlotsJustified
  <2>1. CASE j = last
    <3>1. n.critical[j] = e /\ n.jobs[e.id] = job
      BY <1>6, <1>8, <1>9, <2>1
    <3>2. kind # Kind.error => slot \in bits
      BY DEF slot, bits
    <3>3. kind = Kind.error => slot = 4 + Cardinality(bits) /\ job.last_error = j
      BY <1>5, <2>1 DEF slot
    <3> QED
      BY <1>3, <1>4, <1>5, <1>6, <3>1, <3>2, <3>3
  <2>2. CASE j \in DOMAIN m.critical /\ m.critical[j].id # id
    BY <1>8, <1>9, <2>2 DEF MailboxInv, SlotsJustified, EntriesOwned
  <2>3. CASE j \in DOMAIN m.critical /\ m.critical[j].id = id
    <3>1. n.critical[j] = m.critical[j] /\ n.jobs[n.critical[j].id] = job
      BY <1>8, <1>9, <2>3
    <3>2. old.delivered_or_pending \subseteq bits
      BY DEF bits
    <3>3. m.critical[j].slot \in Slots
      <4>1. m.critical[j] \in Entry
        BY <1>1, <2>3
      <4> QED
        BY <4>1 DEF Entry
    <3>4. IF m.critical[j].slot \in OneShotKinds
          THEN m.critical[j].slot \in old.delivered_or_pending
          ELSE /\ m.critical[j].slot <= 4 + Cardinality(old.delivered_or_pending)
               /\ m.critical[j].slot = 4 + Cardinality(old.delivered_or_pending)
                    => old.last_error = j
      BY <1>10, <2>3 DEF MailboxInv, SlotsJustified
    <3>5. CASE kind = Kind.error
      <4>1. bits = old.delivered_or_pending /\ slot = 4 + Cardinality(bits)
        BY <3>5 DEF bits, slot
      <4> QED
        BY <1>3, <1>5, <1>13, <2>3, <3>1, <3>2, <3>4, <4>1
    <3>6. CASE kind # Kind.error
      BY <1>3, <1>5, <3>1, <3>2, <3>3, <3>4, <3>6 DEF Slots
    <3> QED
      BY <3>5, <3>6
  <2> QED
    BY <1>8, <2>1, <2>2, <2>3
<1>16. \A i : EntriesOf(n, i) = IF i = id THEN EntriesOf(m, i) \cup {last} ELSE EntriesOf(m, i)
  BY <1>6, <1>8 DEF EntriesOf
<1>17. LastErrorValid(n)
  <2>1. n.jobs[id].last_error # Null =>
           /\ n.jobs[id].last_error = last
           /\ n.critical[last].slot = 4 + Cardinality(n.jobs[id].delivered_or_pending)
    BY <1>5, <1>6, <1>8, <1>9 DEF slot
  <2>2. \A i : EntriesOf(m, i) \subseteq DOMAIN m.critical
    BY DEF EntriesOf
  <2> QED
    BY <1>8, <1>9, <1>16, <2>1, <2>2 DEF MailboxInv, LastErrorValid
<1>18. PendingExact(n)
  <2>1. last \notin EntriesOf(m, id)
    BY <1>8 DEF EntriesOf
  <2>2. Cardinality(EntriesOf(m, id) \cup {last}) = Cardinality(EntriesOf(m, id)) + 1
    BY <2>1, EntriesFinite, FS_AddElement DEF MailboxInv
  <2> QED
    BY <1>5, <1>9, <1>10, <1>16, <2>2 DEF MailboxInv, PendingExact
<1>19. RetiredDrains(n)
  <2>1. job.pending > 0
    BY <1>5, <1>10, EntriesFinite DEF MailboxInv, PendingExact
  <2> QED
    BY <1>5, <1>9, <2>1 DEF MailboxInv, RetiredDrains
<1>20. TerminalSilence(n) /\ JobsBounded(n)
  BY <1>5, <1>9 DEF MailboxInv, TerminalSilence, JobsBounded
<1> QED
  BY <1>11, <1>12, <1>14, <1>15, <1>17, <1>18, <1>19, <1>20 DEF MailboxInv, n

\* critical(), whatever the kind.
LEMMA CriticalKeeps ==
    ASSUME NEW m, MailboxInv(m), NEW id \in DOMAIN m.jobs, NEW kind \in Kinds, NEW json \in Json
    PROVE  MailboxInv(Critical(m, id, kind, json))
<1>1. CASE Coalesces(m, id, kind)
  <2> DEFINE run == m.jobs[id].last_error
  <2>1. run \in DOMAIN m.critical
    BY <1>1 DEF Coalesces, MailboxInv, LastErrorValid, EntriesOf
  <2>2. m.critical[run].count + 1 \in Nat \ {0}
    BY <2>1 DEF MailboxInv, EntriesOwned
  <2>3. Critical(m, id, kind, json) = Recount(m, run, m.critical[run].count + 1)
    BY <1>1 DEF Critical
  <2> HIDE DEF run
  <2> QED
    BY <2>1, <2>2, <2>3, RecountKeeps
<1>2. CASE ~Coalesces(m, id, kind) /\ AlreadyPublished(m, id, kind)
  BY <1>2 DEF Critical
<1>3. CASE ~Coalesces(m, id, kind) /\ ~AlreadyPublished(m, id, kind)
  BY <1>3, PushKeeps DEF Critical
<1> QED
  BY <1>1, <1>2, <1>3

\* The mailbox after pop() freed its head and before it looked at retired.
Freed(m) ==
    LET entry == Head(m.critical)
    IN  [critical |-> Tail(m.critical),
         jobs     |-> Shifted(SetJob(m, entry.id, Settled(m.jobs[entry.id])))]

\* Freeing the head: every other entry moves down by one place, and so does
\* every pointer to one.
LEMMA FreedKeeps ==
    ASSUME NEW m, MailboxInv(m), m.critical # <<>>
    PROVE  /\ Head(m.critical).id \in DOMAIN Freed(m).jobs
           /\ DrainedInv(Freed(m), Head(m.critical).id)
<1> DEFINE n   == Freed(m)
           id  == Head(m.critical).id
<1>1. /\ m.critical \in Seq(Entry) /\ Len(m.critical) \in Nat /\ Len(m.critical) > 0
      /\ DOMAIN m.critical = 1..Len(m.critical)
      /\ m.jobs \in [DOMAIN m.jobs -> Job]
      /\ m = [critical |-> m.critical, jobs |-> m.jobs]
  BY DEF MailboxInv, MailboxType
<1>2. 1 \in DOMAIN m.critical /\ id = m.critical[1].id /\ id \in DOMAIN m.jobs
  <2>1. 1 \in DOMAIN m.critical /\ id = m.critical[1].id
    BY <1>1
  <2> QED
    BY <2>1 DEF MailboxInv, EntriesOwned
<1>3. /\ n.critical = Tail(m.critical)
      /\ n.critical \in Seq(Entry)
      /\ DOMAIN n.critical = 1..(Len(m.critical) - 1)
      /\ \A j \in DOMAIN n.critical :
            j + 1 \in DOMAIN m.critical /\ n.critical[j] = m.critical[j + 1]
  <2>1. n.critical = Tail(m.critical)
    BY DEF Freed
  <2> HIDE DEF n
  <2> QED
    BY <1>1, <2>1
<1>4. /\ n = [critical |-> n.critical, jobs |-> n.jobs]
      /\ n.jobs = Shifted(SetJob(m, id, Settled(m.jobs[id])))
  BY DEF Freed
<1>5. Settled(m.jobs[id]) \in Job
  BY <1>1, <1>2, SettledJob
<1>6. /\ DOMAIN n.jobs = DOMAIN m.jobs
      /\ n.jobs \in [DOMAIN m.jobs -> Job]
      /\ \A i \in DOMAIN m.jobs :
            /\ n.jobs[i].delivered_or_pending = m.jobs[i].delivered_or_pending
            /\ n.jobs[i].status = m.jobs[i].status
            /\ n.jobs[i].retired = m.jobs[i].retired
            /\ n.jobs[i].pending = IF i = id THEN m.jobs[i].pending - 1 ELSE m.jobs[i].pending
            /\ n.jobs[i].last_error =
                 IF m.jobs[i].last_error = Null \/ (i = id /\ m.jobs[i].last_error = 1)
                 THEN Null ELSE m.jobs[i].last_error - 1
  <2> DEFINE p == SetJob(m, id, Settled(m.jobs[id]))
  <2>1. /\ DOMAIN p.jobs = DOMAIN m.jobs
        /\ p.jobs \in [DOMAIN m.jobs -> Job]
        /\ p.jobs[id] = Settled(m.jobs[id])
        /\ \A i \in DOMAIN m.jobs : i # id => p.jobs[i] = m.jobs[i]
    BY <1>1, <1>2, <1>5 DEF SetJob
  <2> HIDE DEF p
  <2>2. \A i \in DOMAIN m.jobs :
            /\ p.jobs[i].delivered_or_pending = m.jobs[i].delivered_or_pending
            /\ p.jobs[i].status = m.jobs[i].status
            /\ p.jobs[i].retired = m.jobs[i].retired
            /\ p.jobs[i].pending = IF i = id THEN m.jobs[i].pending - 1 ELSE m.jobs[i].pending
            /\ p.jobs[i].last_error =
                 IF i = id /\ m.jobs[i].last_error = 1 THEN Null ELSE m.jobs[i].last_error
    BY <1>1, <1>2, <2>1, SettledJob
  <2>3. /\ n.jobs = [i \in DOMAIN m.jobs |-> n.jobs[i]]
        /\ \A i \in DOMAIN m.jobs :
              n.jobs[i] = [p.jobs[i] EXCEPT !.last_error =
                              IF p.jobs[i].last_error = Null THEN Null
                              ELSE p.jobs[i].last_error - 1]
    BY <1>4, <2>1 DEF Shifted, p
  <2> HIDE DEF n
  <2>4. ASSUME NEW i \in DOMAIN m.jobs
        PROVE  /\ n.jobs[i] \in Job
               /\ n.jobs[i].delivered_or_pending = p.jobs[i].delivered_or_pending
               /\ n.jobs[i].status = p.jobs[i].status
               /\ n.jobs[i].retired = p.jobs[i].retired
               /\ n.jobs[i].pending = p.jobs[i].pending
               /\ n.jobs[i].last_error =
                    IF p.jobs[i].last_error = Null THEN Null ELSE p.jobs[i].last_error - 1
    <3> DEFINE le == IF p.jobs[i].last_error = Null THEN Null ELSE p.jobs[i].last_error - 1
    <3>1. p.jobs[i] \in Job
      BY <2>1
    <3>2. le \in Int
      BY <3>1 DEF Job, Null
    <3>3. n.jobs[i] = [p.jobs[i] EXCEPT !.last_error = le]
      BY <2>3
    <3> HIDE DEF le
    <3>4. /\ n.jobs[i] \in Job
          /\ n.jobs[i].delivered_or_pending = p.jobs[i].delivered_or_pending
          /\ n.jobs[i].status = p.jobs[i].status
          /\ n.jobs[i].retired = p.jobs[i].retired
          /\ n.jobs[i].pending = p.jobs[i].pending
          /\ n.jobs[i].last_error = le
      BY <3>1, <3>2, <3>3, MovedJob
    <3> QED
      BY <3>4 DEF le
  <2>5. DOMAIN n.jobs = DOMAIN m.jobs /\ n.jobs \in [DOMAIN m.jobs -> Job]
    BY <2>3, <2>4
  <2>6. \A i \in DOMAIN m.jobs :
            n.jobs[i].last_error =
                 IF m.jobs[i].last_error = Null \/ (i = id /\ m.jobs[i].last_error = 1)
                 THEN Null ELSE m.jobs[i].last_error - 1
    BY <2>2, <2>4 DEF Null
  <2> QED
    BY <2>2, <2>4, <2>5, <2>6
<1> HIDE DEF n, id
<1>7. MailboxType(n)
  BY <1>3, <1>4, <1>6 DEF MailboxInv, MailboxType
<1>8. EntriesOwned(n)
  BY <1>3, <1>6 DEF MailboxInv, EntriesOwned
<1>9. SlotsDistinct(n)
  BY <1>1, <1>3 DEF MailboxInv, SlotsDistinct
<1>10. SlotsJustified(n)
  <2> SUFFICES ASSUME NEW j \in DOMAIN n.critical
               PROVE  LET x == n.critical[j]
                          b == n.jobs[x.id].delivered_or_pending
                      IN  IF x.slot \in OneShotKinds THEN x.slot \in b
                          ELSE /\ x.slot <= 4 + Cardinality(b)
                               /\ x.slot = 4 + Cardinality(b) => n.jobs[x.id].last_error = j
    BY DEF SlotsJustified
  <2> DEFINE x == m.critical[j + 1]
  <2>1. /\ n.critical[j] = x /\ j + 1 \in DOMAIN m.critical /\ j \in Nat \ {0}
        /\ x.id \in DOMAIN m.jobs
        /\ n.jobs[x.id].delivered_or_pending = m.jobs[x.id].delivered_or_pending
    BY <1>3, <1>6 DEF MailboxInv, EntriesOwned
  <2>2. IF x.slot \in OneShotKinds THEN x.slot \in m.jobs[x.id].delivered_or_pending
        ELSE /\ x.slot <= 4 + Cardinality(m.jobs[x.id].delivered_or_pending)
             /\ x.slot = 4 + Cardinality(m.jobs[x.id].delivered_or_pending)
                   => m.jobs[x.id].last_error = j + 1
    BY <2>1 DEF MailboxInv, SlotsJustified
  <2>3. m.jobs[x.id].last_error = j + 1 => n.jobs[x.id].last_error = j
    BY <1>6, <2>1 DEF Null
  <2> QED
    BY <2>1, <2>2, <2>3
<1>11. LastErrorValid(n)
  <2> SUFFICES ASSUME NEW i \in DOMAIN m.jobs, n.jobs[i].last_error # Null
               PROVE  /\ n.jobs[i].last_error \in EntriesOf(n, i)
                      /\ n.critical[n.jobs[i].last_error].slot
                            = 4 + Cardinality(n.jobs[i].delivered_or_pending)
    BY <1>6 DEF LastErrorValid
  <2> DEFINE p == m.jobs[i].last_error
  <2>1. p # Null /\ n.jobs[i].last_error = p - 1 /\ ~(i = id /\ p = 1)
    BY <1>6
  <2>2. /\ p \in 1..Len(m.critical) /\ m.critical[p].id = i
        /\ m.critical[p].slot = 4 + Cardinality(m.jobs[i].delivered_or_pending)
    BY <1>1, <2>1 DEF MailboxInv, LastErrorValid, EntriesOf
  <2>3. p # 1
    BY <1>2, <2>1, <2>2
  <2>4. p - 1 \in DOMAIN n.critical /\ n.critical[p - 1] = m.critical[p]
    BY <1>1, <1>3, <2>2, <2>3
  <2> QED
    BY <1>6, <2>1, <2>2, <2>4 DEF EntriesOf
<1>12. PendingExact(n)
  <2> SUFFICES ASSUME NEW i \in DOMAIN m.jobs
               PROVE  n.jobs[i].pending = Cardinality(EntriesOf(n, i))
    BY <1>6 DEF PendingExact
  <2> DEFINE S == EntriesOf(m, i) \ {1}
             T == EntriesOf(n, i)
             f == [j \in S |-> j - 1]
  <2>1. IsFiniteSet(S) /\ Cardinality(S) = IF 1 \in EntriesOf(m, i)
                                           THEN Cardinality(EntriesOf(m, i)) - 1
                                           ELSE Cardinality(EntriesOf(m, i))
    BY EntriesFinite, FS_RemoveElement DEF MailboxInv
  <2>2. 1 \in EntriesOf(m, i) <=> i = id
    BY <1>2 DEF EntriesOf
  <2>3. \A j \in S : j \in Int /\ j - 1 \in T
    BY <1>1, <1>3 DEF EntriesOf
  <2>4. \A j \in T : j \in Int /\ j + 1 \in S
    BY <1>1, <1>3 DEF EntriesOf
  <2> HIDE DEF S, T
  <2>5. f \in Bijection(S, T)
    <3>1. f \in [S -> T]
      BY <2>3
    <3>2. \A a, b \in S : f[a] = f[b] => a = b
      BY <2>3
    <3>3. \A t \in T : \E a \in S : f[a] = t
      <4> SUFFICES ASSUME NEW t \in T PROVE f[t + 1] = t
        BY <2>4
      <4> QED
        BY <2>4
    <3> HIDE DEF f
    <3> QED
      BY <3>1, <3>2, <3>3 DEF Bijection, Injection, Surjection, IsInjective
  <2>6. Cardinality(T) = Cardinality(S)
    BY <2>1, <2>5, FS_Bijection DEF ExistsBijection
  <2> QED
    BY <1>6, <2>1, <2>2, <2>6 DEF MailboxInv, PendingExact, T
<1>13. \A i \in DOMAIN n.jobs \ {id} :
          n.jobs[i].retired => n.jobs[i].pending > 0 /\ n.jobs[i].status = NoStatus
  BY <1>6 DEF MailboxInv, RetiredDrains
<1>14. TerminalSilence(n) /\ JobsBounded(n)
  BY <1>6 DEF MailboxInv, TerminalSilence, JobsBounded
<1> QED
  BY <1>2, <1>6, <1>7, <1>8, <1>9, <1>10, <1>11, <1>12, <1>13, <1>14
     DEF DrainedInv, n, id

\* pop() of a critical event.
LEMMA PopCriticalKeeps ==
    ASSUME NEW m, MailboxInv(m), m.critical # <<>>
    PROVE  MailboxInv(PopCritical(m))
<1> DEFINE entry == Head(m.critical)
           job   == Settled(m.jobs[entry.id])
<1>1. /\ 1 \in DOMAIN m.critical /\ entry = m.critical[1]
      /\ entry.id \in DOMAIN m.jobs /\ entry.count \in Nat \ {0}
  <2>1. 1 \in DOMAIN m.critical /\ entry = m.critical[1]
    BY DEF MailboxInv, MailboxType
  <2> QED
    BY <2>1 DEF MailboxInv, EntriesOwned
<1>2. CASE entry.count # 1
  <2>1. entry.count - 1 \in Nat \ {0}
    BY <1>1, <1>2
  <2>2. PopCritical(m) = Recount(m, 1, entry.count - 1)
    BY <1>2 DEF PopCritical
  <2> HIDE DEF entry
  <2> QED
    BY <1>1, <2>1, <2>2, RecountKeeps
<1>3. CASE entry.count = 1
  <2>1. entry.id \in DOMAIN Freed(m).jobs /\ DrainedInv(Freed(m), entry.id)
    BY FreedKeeps
  <2>2. PopCritical(m) = IF job.retired /\ job.pending = 0
                         THEN EraseJob(Freed(m), entry.id) ELSE Freed(m)
    BY <1>3 DEF PopCritical, Freed
  <2>3. m.jobs[entry.id] \in Job
    BY <1>1 DEF MailboxInv, MailboxType
  <2>4. /\ Freed(m).jobs[entry.id].retired = job.retired
        /\ Freed(m).jobs[entry.id].pending = job.pending
        /\ Freed(m).jobs[entry.id].status = job.status
    <3> DEFINE p  == SetJob(m, entry.id, job)
               le == IF job.last_error = Null THEN Null ELSE job.last_error - 1
    <3>1. entry.id \in DOMAIN p.jobs /\ p.jobs[entry.id] = job
      BY <1>1 DEF SetJob, MailboxInv, MailboxType
    <3>2. Freed(m).jobs = Shifted(p)
      BY DEF Freed
    <3> HIDE DEF p
    <3>3. Freed(m).jobs[entry.id] = [job EXCEPT !.last_error = le]
      BY <3>1, <3>2 DEF Shifted
    <3>4. job \in Job
      BY <2>3, SettledJob
    <3>5. le \in Int
      BY <3>4 DEF Job, Null
    <3> HIDE DEF job, le
    <3> QED
      BY <3>3, <3>4, <3>5, MovedJob
  <2>5. job.pending \in Nat /\ (job.retired => job.status = NoStatus)
    <3>1. /\ job.pending = m.jobs[entry.id].pending - 1
          /\ job.retired = m.jobs[entry.id].retired /\ job.status = m.jobs[entry.id].status
      BY <2>3, SettledJob
    <3>2. Freed(m).jobs[entry.id].pending \in Nat
      BY <2>1, EntriesFinite DEF DrainedInv, PendingExact
    <3> QED
      BY <1>1, <2>4, <3>1, <3>2 DEF MailboxInv, RetiredDrains
  <2> HIDE DEF job, entry
  <2>6. CASE job.retired /\ job.pending = 0
    BY <2>1, <2>2, <2>4, <2>6, EraseKeeps
  <2>7. CASE ~(job.retired /\ job.pending = 0)
    <3>1. RetiredDrains(Freed(m))
      BY <2>1, <2>4, <2>5, <2>7 DEF DrainedInv, RetiredDrains
    <3> QED
      BY <2>1, <2>2, <2>7, <3>1 DEF DrainedInv, MailboxInv
  <2> QED
    BY <2>6, <2>7
<1> QED
  BY <1>2, <1>3

\* The entries never outgrow the reservation: they map one-to-one into the
\* pairs of an admitted torrent and one of its nine places.
LEMMA ReservationSuffices ==
    ASSUME NEW m, MailboxInv(m)
    PROVE  Len(m.critical) <= ReservedEntries * MaxJobs
<1> DEFINE D == DOMAIN m.jobs
           S == 1..Len(m.critical)
           f == [i \in S |-> <<m.critical[i].id, m.critical[i].slot>>]
<1>1. /\ m.critical \in Seq(Entry) /\ Len(m.critical) \in Nat
      /\ DOMAIN m.critical = S
  BY DEF MailboxInv, MailboxType
<1>2. IsFiniteSet(D) /\ Cardinality(D) \in Nat /\ Cardinality(D) <= MaxJobs
  BY FS_CardinalityType DEF MailboxInv, JobsBounded
<1>3. IsFiniteSet(Slots) /\ Cardinality(Slots) = 9
  <2>1. 0 \in Int /\ 8 \in Int
    OBVIOUS
  <2>2. IsFiniteSet(0..8) /\ Cardinality(0..8) = IF 0 > 8 THEN 0 ELSE 8 - 0 + 1
    BY <2>1, FS_Interval, Zenon
  <2> QED
    BY <2>2 DEF Slots
<1>4. IsFiniteSet(D \X Slots) /\ Cardinality(D \X Slots) = Cardinality(D) * Cardinality(Slots)
  BY <1>2, <1>3, FS_Product
<1>5. f \in Injection(S, D \X Slots)
  <2>1. \A i \in S : m.critical[i].id \in D /\ m.critical[i].slot \in Slots
    <3>1. \A i \in S : m.critical[i] \in Entry
      BY <1>1
    <3> HIDE DEF S
    <3>2. \A i \in S : m.critical[i].slot \in Slots
      BY <3>1 DEF Entry
    <3> QED
      BY <1>1, <3>2 DEF MailboxInv, EntriesOwned
  <2>2. f \in [S -> D \X Slots]
    BY <2>1
  <2>3. \A i, j \in S : f[i] = f[j] => i = j
    BY <1>1 DEF MailboxInv, SlotsDistinct
  <2> HIDE DEF f, S
  <2> QED
    BY <2>2, <2>3 DEF Injection, IsInjective
<1>6. IsFiniteSet(S) /\ Cardinality(S) = Len(m.critical)
  <2>1. 1 \in Int /\ Len(m.critical) \in Int
    BY <1>1
  <2>2. IsFiniteSet(S) /\ Cardinality(S) = IF 1 > Len(m.critical) THEN 0 ELSE Len(m.critical) - 1 + 1
    BY <2>1, FS_Interval, Zenon
  <2> HIDE DEF S
  <2> QED
    BY <1>1, <2>2
<1> HIDE DEF f, S, D
<1>7. Cardinality(S) <= Cardinality(D \X Slots)
  BY <1>4, <1>5, FS_Injection
<1>8. Len(m.critical) <= Cardinality(D) * 9
  BY <1>3, <1>4, <1>6, <1>7
<1> QED
  BY <1>1, <1>2, <1>8, MaxJobsAssumption DEF ReservedEntries

----------------------------------------------------------------------------
(* Which identifiers may publish after each operation.                       *)

\* add() admits its identifier and no other.
LEMMA AddLive ==
    ASSUME NEW m, MailboxType(m), NEW id, CanAdd(m, id)
    PROVE  /\ LiveIds(Add(m, id)) = LiveIds(m) \cup {id}
           /\ id \in DOMAIN Add(m, id).jobs
<1> DEFINE n == Add(m, id)
<1>1. /\ DOMAIN n.jobs = DOMAIN m.jobs \cup {id}
      /\ n.jobs[id].retired = FALSE
      /\ \A i \in DOMAIN m.jobs : i # id /\ n.jobs[i] = m.jobs[i]
  BY DEF Add, MailboxType, CanAdd, NewJob
<1> QED
  BY <1>1 DEF LiveIds

\* retire() takes its identifier out, whether it erases the job or not.
LEMMA RetireLive ==
    ASSUME NEW m, MailboxType(m), NEW id
    PROVE  LiveIds(Retire(m, id)) = LiveIds(m) \ {id}
<1> DEFINE n == Retire(m, id)
<1>1. CASE id \notin DOMAIN m.jobs
  BY <1>1 DEF Retire, LiveIds
<1>2. CASE id \in DOMAIN m.jobs /\ m.jobs[id].pending = 0
  <2>1. /\ DOMAIN n.jobs = DOMAIN m.jobs \ {id}
        /\ \A i \in DOMAIN n.jobs : n.jobs[i] = m.jobs[i]
    BY <1>2 DEF Retire, EraseJob, Restrict, MailboxType
  <2> QED
    BY <2>1 DEF LiveIds
<1>3. CASE id \in DOMAIN m.jobs /\ m.jobs[id].pending # 0
  <2>1. m.jobs[id] \in Job
    BY <1>3 DEF MailboxType
  <2>2. /\ DOMAIN n.jobs = DOMAIN m.jobs
        /\ n.jobs[id].retired = TRUE
        /\ \A i \in DOMAIN m.jobs \ {id} : n.jobs[i] = m.jobs[i]
    BY <1>3, <2>1 DEF Retire, SetJob, MailboxType, Job
  <2> QED
    BY <2>2 DEF LiveIds
<1> QED
  BY <1>1, <1>2, <1>3

\* critical() admits and retires nobody.
LEMMA CriticalLive ==
    ASSUME NEW m, MailboxType(m), NEW id \in DOMAIN m.jobs, NEW kind, NEW json
    PROVE  LiveIds(Critical(m, id, kind, json)) = LiveIds(m)
<1> DEFINE n == Critical(m, id, kind, json)
<1>1. CASE Coalesces(m, id, kind)
  BY <1>1 DEF Critical, Recount, LiveIds, MailboxType
<1>2. CASE ~Coalesces(m, id, kind) /\ AlreadyPublished(m, id, kind)
  BY <1>2 DEF Critical
<1>3. CASE ~Coalesces(m, id, kind) /\ ~AlreadyPublished(m, id, kind)
  <2>1. m.jobs[id] \in Job
    BY DEF MailboxType
  <2>2. /\ DOMAIN n.jobs = DOMAIN m.jobs
        /\ \A i \in DOMAIN m.jobs \ {id} : n.jobs[i] = m.jobs[i]
    BY <1>3 DEF Critical, PushEntry, MailboxType
  <2>3. n.jobs[id].retired = m.jobs[id].retired
    BY <1>3, <2>1 DEF Critical, PushEntry, MailboxType, Job
  <2> QED
    BY <2>2, <2>3 DEF LiveIds
<1> QED
  BY <1>1, <1>2, <1>3

\* Nor does a change of the status in a job.
LEMMA SetStatusLive ==
    ASSUME NEW m, MailboxType(m), NEW id \in DOMAIN m.jobs, NEW json
    PROVE  LiveIds(SetJob(m, id, [m.jobs[id] EXCEPT !.status = json])) = LiveIds(m)
<1> DEFINE n == SetJob(m, id, [m.jobs[id] EXCEPT !.status = json])
<1>1. m.jobs[id] \in Job
  BY DEF MailboxType
<1>2. /\ DOMAIN n.jobs = DOMAIN m.jobs
      /\ \A i \in DOMAIN m.jobs \ {id} : n.jobs[i] = m.jobs[i]
      /\ n.jobs[id].retired = m.jobs[id].retired
  BY <1>1 DEF SetJob, MailboxType, Job
<1> QED
  BY <1>2 DEF LiveIds

\* pop() forgets only jobs that were retired.
LEMMA PopCriticalLive ==
    ASSUME NEW m, MailboxInv(m), m.critical # <<>>
    PROVE  LiveIds(PopCritical(m)) = LiveIds(m)
<1> DEFINE entry == Head(m.critical)
           job   == Settled(m.jobs[entry.id])
<1>1. MailboxType(m) /\ entry.id \in DOMAIN m.jobs /\ m.jobs[entry.id] \in Job
  <2>1. 1 \in DOMAIN m.critical /\ entry = m.critical[1]
    BY DEF MailboxInv, MailboxType
  <2> QED
    BY <2>1 DEF MailboxInv, MailboxType, EntriesOwned
<1>2. job \in Job /\ job.retired = m.jobs[entry.id].retired
  BY <1>1, SettledJob
<1>3. LiveIds(Freed(m)) = LiveIds(m) /\ DOMAIN Freed(m).jobs = DOMAIN m.jobs
  <2> DEFINE p == SetJob(m, entry.id, job)
  <2>1. /\ DOMAIN p.jobs = DOMAIN m.jobs /\ p.jobs[entry.id] = job
        /\ \A i \in DOMAIN m.jobs \ {entry.id} : p.jobs[i] = m.jobs[i]
    BY <1>1 DEF SetJob, MailboxType
  <2>2. Freed(m).jobs = Shifted(p)
    BY DEF Freed
  <2>3. \A i \in DOMAIN m.jobs : p.jobs[i] \in Job /\ p.jobs[i].retired = m.jobs[i].retired
    BY <1>1, <1>2, <2>1 DEF MailboxType
  <2> HIDE DEF p, job, entry
  <2>4. DOMAIN Shifted(p) = DOMAIN m.jobs
    BY <2>1 DEF Shifted
  <2>5. \A i \in DOMAIN m.jobs : Shifted(p)[i].retired = m.jobs[i].retired
    BY <2>1, <2>3 DEF Shifted, Job
  <2> QED
    BY <2>2, <2>4, <2>5 DEF LiveIds
<1>4. CASE entry.count # 1
  BY <1>1, <1>4 DEF PopCritical, Recount, LiveIds, MailboxType
<1>5. CASE entry.count = 1
  <2>1. PopCritical(m) = IF job.retired /\ job.pending = 0
                         THEN EraseJob(Freed(m), entry.id) ELSE Freed(m)
    BY <1>5 DEF PopCritical, Freed
  <2>2. job.retired => entry.id \notin LiveIds(m)
    BY <1>2 DEF LiveIds
  <2>3. LiveIds(EraseJob(Freed(m), entry.id)) = LiveIds(Freed(m)) \ {entry.id}
    BY DEF EraseJob, Restrict, LiveIds, Freed
  <2> QED
    BY <1>3, <2>1, <2>2, <2>3
<1> QED
  BY <1>4, <1>5

============================================================================
