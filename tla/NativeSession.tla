--------------------------- MODULE NativeSession ----------------------------
(***************************************************************************)
(* The native session (src/Native/src/LibtorrentNative.cpp): its job table,  *)
(* the alert thread, the client's calls and the two condition-variable waits,*)
(* around the torrent engine, which is external.                             *)
(*                                                                           *)
(* A step is what one thread does while it holds the session mutex: a call,  *)
(* the part of a call before or after a condition wait, or the handling of   *)
(* one alert.  (The alert thread handles a batch per lock hold; a batch is   *)
(* a run of such steps, and a batch of one is always possible.)              *)
(*                                                                           *)
(* A torrent has N files of one piece each, so that a set of files is also a *)
(* set of pieces; of a priority only whether it is dont_download matters     *)
(* (Priorities has the levels and shared pieces).  The index N + 1 is out of *)
(* range.                                                                    *)
(***************************************************************************)
EXTENDS EventMailbox, DiskCheckpoint

CONSTANTS
    Callers,     \* threads that make client calls
    Reader,      \* the thread that reads events
    N,           \* files of a torrent
    Selections,  \* the selections clients ask for
    AddRequests, \* the add requests clients make
    MaxHandles,  \* bound: torrents added over the life of the session
    MaxAlerts,   \* bound: alerts waiting for the alert thread
    MaxFaults,   \* bound: disk faults and spontaneous engine alerts
    MaxWakes     \* bound: calls of ltkit_session_wake

ASSUME NAssumption      == N \in Nat \ {0}
ASSUME ReaderAssumption == Reader \notin Callers
ASSUME BoundAssumption  == {MaxHandles, MaxAlerts, MaxFaults, MaxWakes} \subseteq Nat

Files   == 1..N
Indexes == 1..(N + 1)
Unset   == {0}       \* an empty file_priorities or piece_priorities vector
NoData  == {0}       \* an empty resume-data buffer

ASSUME SelectionsAssumption == Selections \subseteq SUBSET Indexes

\* pieces and written are what the resume data of the request has.
ASSUME AddAssumption == AddRequests \subseteq
    [desired : SUBSET Indexes, metadata : BOOLEAN, safe : SUBSET Files,
     pieces : {Unset} \cup SUBSET Files, written : SUBSET Files,
     paused : BOOLEAN, stops : BOOLEAN]

\* The texts of the events the session publishes.
ASSUME PayloadAssumption ==
    /\ {"metadataReady", "completed", "stoppedAfterCompletion", "invalidSelection",
        "recoverable", "completionFailed"} \subseteq Json
    /\ "statusChanged" \in StatusJson

VARIABLES
    jobs,         \* ltkit_session::jobs
    events,       \* ltkit_session::events
    engine,       \* the engine's torrents, by handle
    alerts,       \* alerts posted and not yet handled
    calls,        \* the condition wait each thread is in
    asleep,       \* threads blocked on the condition variable
    alert_thread, \* "running", "joined" by destroy, or "terminated" by an exception
    faults, wakes \* how often the engine and the client used up a bound

vars == <<jobs, events, engine, alerts, calls, asleep, alert_thread, faults, wakes>>

Threads == Callers \cup {Reader}
Handles == 1..MaxHandles

----------------------------------------------------------------------------
(* State.                                                                    *)

Checkpoint == [active : BOOLEAN, phase : Phases, done : BOOLEAN,
               error : BOOLEAN, data : {NoData} \cup SUBSET Files]

NewCheckpoint == [active |-> FALSE, phase |-> "idle", done |-> FALSE,
                  error |-> FALSE, data |-> NoData]

\* final stands for final_status, final_metadata and final_resume_data, which
\* finish_checkpoint fills together; its value is what the resume data covers.
\* fenced is history: what was written when the completion asked for its flush.
SessionJob == [handle : Handles, desired : SUBSET Indexes,
               priorities : {Unset} \cup SUBSET Files, pieces : {Unset} \cup SUBSET Files,
               metadata_ready : BOOLEAN, completion_stops : BOOLEAN,
               completion_checkpoint : BOOLEAN, completion_waiting : BOOLEAN,
               completion_rechecked : BOOLEAN, stopped : BOOLEAN,
               fenced : SUBSET Files, final : {NoData} \cup SUBSET Files,
               checkpoint : Checkpoint]

(***************************************************************************)
(* A torrent of the engine.  The files safe have an acceptable path; of its  *)
(* pieces, wanted have a priority, written are downloaded and durable have   *)
(* left the write cache; intact says that the payload files are on disk.     *)
(* finished is the engine's torrent state; requests are the flush and save   *)
(* requests it has yet to answer.                                            *)
(***************************************************************************)
Torrent == [life : {"live", "removing", "gone"}, metadata : BOOLEAN, safe : SUBSET Files,
            paused : BOOLEAN, wanted : SUBSET Files, written : SUBSET Files,
            durable : SUBSET Files, intact : BOOLEAN, finished : BOOLEAN,
            requests : Seq({"flush", "save"})]

Alert == [type : {"metadata_received", "torrent_finished", "cache_flushed",
                  "save_resume_data", "save_resume_data_failed", "error", "state_changed"},
          handle : Handles, data : {NoData} \cup SUBSET Files]

\* interrupted: wake_generation differs from the value the wait captured.
\* need is history: what was written when a flush was asked for.
Call == [op : {"none", "metadata", "checkpoint", "next_event"}, id : Ids \cup {NoStatus},
         interrupted : BOOLEAN, need : SUBSET Files]

NoCall == [op |-> "none", id |-> NoStatus, interrupted |-> FALSE, need |-> {}]

Init ==
    /\ jobs         = [id \in {} |-> NoCall]
    /\ events       = EmptyMailbox
    /\ engine       = [h \in {} |-> NoCall]
    /\ alerts       = <<>>
    /\ calls        = [c \in Threads |-> NoCall]
    /\ asleep       = {}
    /\ alert_thread = "running"
    /\ faults       = 0
    /\ wakes        = 0

----------------------------------------------------------------------------
(* The helpers of ltkit_session work on a view: one job, its torrent, the    *)
(* mailbox, the alert queue and the sleepers.                                *)

View(id) == [job |-> jobs[id], torrent |-> engine[jobs[id].handle],
             events |-> events, alerts |-> alerts, asleep |-> asleep]

Commit(id, v) ==
    /\ jobs'   = [jobs EXCEPT ![id] = v.job]
    /\ engine' = [engine EXCEPT ![jobs[id].handle] = v.torrent]
    /\ events' = v.events
    /\ alerts' = v.alerts
    /\ asleep' = v.asleep

NewAlert(type, h, data) == [type |-> type, handle |-> h, data |-> data]

NotifyAll(v) == [v EXCEPT !.asleep = {}]

Enqueue(v, id, kind, json) ==
    NotifyAll([v EXCEPT !.events = Critical(v.events, id, kind, json)])

\* flush_cache and save_resume_data: the engine has one more request to answer.
Asked(torrent, request) == [torrent EXCEPT !.requests = Append(@, request)]

StartCheckpoint(v, flush) ==
    [v EXCEPT !.job     = [v.job EXCEPT !.checkpoint.phase = Begin(@, flush)],
              !.torrent = Asked(v.torrent, IF flush THEN "flush" ELSE "save")]

\* The waiting completion takes the slot.
Completing(v) == [v EXCEPT !.job = [v.job EXCEPT !.completion_waiting = FALSE,
                                                 !.completion_checkpoint = TRUE,
                                                 !.fenced = v.torrent.written]]

\* Mutant of StartWaitingCompletion: the completion saves without a disk fence.
StartWaitingUnflushed(v) ==
    IF ~v.job.completion_waiting \/ v.job.checkpoint.active \/ ~Idle(v.job.checkpoint.phase)
    THEN v
    ELSE StartCheckpoint(Completing(v), FALSE)

StartWaitingCompletion(v) ==
    IF ~v.job.completion_waiting \/ v.job.checkpoint.active \/ ~Idle(v.job.checkpoint.phase)
    THEN v
    ELSE StartCheckpoint(Completing(v), TRUE)

\* engine->remove_torrent: the handle stays valid until the engine gets to it.
RemoveTorrent(v) == [v EXCEPT !.torrent.life = IF @ = "live" THEN "removing" ELSE @]

\* prioritize_pieces: the engine posts torrent_finished when it becomes finished.
PrioritizePieces(v, pieces) ==
    LET finished == pieces \subseteq v.torrent.written
    IN  [v EXCEPT !.torrent = [v.torrent EXCEPT !.wanted = pieces, !.finished = finished],
                  !.alerts = IF finished /\ ~v.torrent.finished
                             THEN Append(@, NewAlert("torrent_finished", v.job.handle, NoData))
                             ELSE @]

(***************************************************************************)
(* apply_selection: vectors of the right size are used as they are; else     *)
(* file_priorities is rebuilt from desired_files and piece_priorities from   *)
(* file_priorities.  An index out of range refuses the selection and leaves  *)
(* the files before it in file_priorities (the indexes come in order).       *)
(***************************************************************************)
FilesToApply(job) == IF job.priorities # Unset THEN job.priorities ELSE job.desired

PiecesToApply(job) == IF job.pieces # Unset THEN job.pieces ELSE FilesToApply(job)

\* Mutant of SelectionApplies: the indexes are not checked.
SelectionUnchecked(v) == v.torrent.metadata

SelectionApplies(v) == v.torrent.metadata /\ FilesToApply(v.job) \subseteq Files

Accepted(job) ==
    [job EXCEPT !.priorities = FilesToApply(job), !.pieces = PiecesToApply(job)]

ApplySelection(v) ==
    IF SelectionApplies(v)
    THEN PrioritizePieces([v EXCEPT !.job = Accepted(v.job)], PiecesToApply(v.job))
    ELSE [v EXCEPT !.job.priorities =
             IF v.torrent.metadata THEN v.job.desired \cap Files ELSE v.job.priorities]

\* sync_selected_payloads on some files: none is refused, a missing one too.  It
\* syncs what has left the engine's write cache.
PayloadsSynced(v, files) == files # {} /\ v.torrent.intact

\* Mutant of PayloadsReady: the progress of the files is not checked.
PayloadsUnmeasured(v) ==
    /\ v.torrent.metadata
    /\ v.job.desired \subseteq v.torrent.safe
    /\ PayloadsSynced(v, v.job.desired)

\* refresh_selected_payloads: a selection that is out of range, unsafe, not
\* downloaded or not on disk does not pass.
PayloadsReady(v) ==
    /\ v.torrent.metadata
    /\ v.job.desired \subseteq v.torrent.safe
    /\ v.job.desired \subseteq v.torrent.written
    /\ PayloadsSynced(v, v.job.desired)

\* metadata_json finds every path acceptable.
MetadataSafe(v) == v.torrent.safe = Files

\* The end of a completion: the torrent is removed and the job stopped.
Stop(v) == [RemoveTorrent(v) EXCEPT !.job =
               [v.job EXCEPT !.completion_checkpoint = FALSE, !.stopped = TRUE,
                             !.checkpoint = NewCheckpoint]]

Complete(v, id) ==
    LET final == [v EXCEPT !.job.final = v.job.checkpoint.data]
        told  == Enqueue(final, id, Kind.completed, "completed")
    IN  Enqueue(Stop(told), id, Kind.stopped, "stoppedAfterCompletion")

FailCompletion(v, id) ==
    Stop(Enqueue(v, id, Kind.error, "completionFailed"))

RecheckCompletion(v) ==
    StartCheckpoint([v EXCEPT !.job = [v.job EXCEPT !.completion_rechecked = TRUE,
                                                    !.fenced = v.torrent.written,
                                                    !.checkpoint = NewCheckpoint]], TRUE)

\* Mutant of FinishCompletion: the final metadata is not required.
FinishCompletionUnread(v, id, success) ==
    IF success /\ ~PayloadsReady(v) /\ ~v.job.completion_rechecked
    THEN RecheckCompletion(v)
    ELSE NotifyAll(IF success /\ PayloadsReady(v)
                   THEN Complete(v, id) ELSE FailCompletion(v, id))

FinishCompletion(v, id, success) ==
    IF success /\ ~PayloadsReady(v) /\ ~v.job.completion_rechecked
    THEN RecheckCompletion(v)
    ELSE NotifyAll(IF success /\ PayloadsReady(v) /\ MetadataSafe(v)
                   THEN Complete(v, id) ELSE FailCompletion(v, id))

\* The caller's reply is there.
Answered(job, success) ==
    [job EXCEPT !.checkpoint = [job.checkpoint EXCEPT !.done = TRUE, !.error = ~success]]

\* Mutant of FinishCheckpoint: the waiting caller is not notified.
FinishCheckpointSilent(v, id, saved) ==
    LET success == saved /\ ~v.job.checkpoint.error
    IN  IF v.job.completion_checkpoint THEN FinishCompletion(v, id, success)
        ELSE IF v.job.checkpoint.active
        THEN [v EXCEPT !.job = Answered(v.job, success)]
        ELSE NotifyAll(StartWaitingCompletion([v EXCEPT !.job.checkpoint = NewCheckpoint]))

\* Mutant of FinishCheckpoint: draining an abandoned reply starts nothing.
FinishCheckpointDrains(v, id, saved) ==
    LET success == saved /\ ~v.job.checkpoint.error
    IN  IF v.job.completion_checkpoint THEN FinishCompletion(v, id, success)
        ELSE NotifyAll(IF v.job.checkpoint.active
                       THEN [v EXCEPT !.job = Answered(v.job, success)]
                       ELSE [v EXCEPT !.job.checkpoint = NewCheckpoint])

FinishCheckpoint(v, id, saved) ==
    LET success == saved /\ ~v.job.checkpoint.error
    IN  IF v.job.completion_checkpoint THEN FinishCompletion(v, id, success)
        ELSE IF v.job.checkpoint.active
        THEN NotifyAll([v EXCEPT !.job = Answered(v.job, success)])
        ELSE NotifyAll(StartWaitingCompletion([v EXCEPT !.job.checkpoint = NewCheckpoint]))

----------------------------------------------------------------------------
(* The alert thread.                                                         *)

\* Mutant of Due: the alert is taken for the identifier's present torrent.
DueAnyHandle(type, id) ==
    /\ alerts # <<>>
    /\ id \in DOMAIN jobs
    /\ Head(alerts).type = type
    /\ engine[jobs[id].handle].life # "gone"

\* The alert at the head of the queue is for job id and its handle is valid.
Due(type, id) ==
    /\ alerts # <<>>
    /\ id \in DOMAIN jobs
    /\ Head(alerts).type = type
    /\ Head(alerts).handle = jobs[id].handle
    /\ engine[jobs[id].handle].life # "gone"

AlertView(id) == [View(id) EXCEPT !.alerts = Tail(@)]

Handled(id, v) == Commit(id, v) /\ UNCHANGED <<calls, alert_thread, faults, wakes>>

\* Pause and remove a torrent whose metadata cannot be accepted.
Reject(v) ==
    LET removed == RemoveTorrent(v)
    IN  [removed EXCEPT !.torrent = [removed.torrent EXCEPT !.paused = TRUE],
                        !.job     = [v.job EXCEPT !.stopped = TRUE]]

MetadataReceived(id) ==
    /\ Due("metadata_received", id)
    /\ LET v == [AlertView(id) EXCEPT !.job.metadata_ready = TRUE]
       IN  Handled(id, NotifyAll(
               IF SelectionApplies(v)
               THEN Enqueue(ApplySelection(v), id, Kind.metadata, "metadataReady")
               ELSE Enqueue(Reject(ApplySelection(v)), id, Kind.invalid_selection, "invalidSelection")))

\* The alert may be stale: what counts is the status read now.
CompletionBegins(v) ==
    /\ v.job.completion_stops
    /\ v.job.final = NoData
    /\ ~v.job.completion_checkpoint
    /\ ~v.job.completion_waiting
    /\ ~v.job.stopped
    /\ v.torrent.wanted # {}
    /\ v.torrent.wanted \subseteq v.torrent.written

TorrentFinished(id) ==
    /\ Due("torrent_finished", id)
    /\ LET v == AlertView(id)
       IN  Handled(id, IF CompletionBegins(v)
                       THEN StartWaitingCompletion(
                               [v EXCEPT !.torrent = [v.torrent EXCEPT !.paused = TRUE],
                                         !.job     = [v.job EXCEPT !.completion_waiting = TRUE]])
                       ELSE v)

CacheFlushedAlert(id) ==
    /\ Due("cache_flushed", id)
    /\ LET v == AlertView(id)
       IN  Handled(id, IF FlushDue(v.job.checkpoint.phase)
                       THEN [v EXCEPT !.job     = [v.job EXCEPT !.checkpoint.phase = CacheFlushed(@)],
                                      !.torrent = Asked(v.torrent, "save")]
                       ELSE v)

Saved(job, data) ==
    [job EXCEPT !.checkpoint = [job.checkpoint EXCEPT !.phase = ResumeSaved(@), !.data = data]]

SaveResumeData(id) ==
    /\ Due("save_resume_data", id)
    /\ LET v == AlertView(id)
           saved == [v EXCEPT !.job = Saved(v.job, Head(alerts).data)]
       IN  Handled(id, IF SaveDue(v.job.checkpoint.phase)
                       THEN FinishCheckpoint(saved, id, TRUE) ELSE v)

SaveResumeDataFailed(id) ==
    /\ Due("save_resume_data_failed", id)
    /\ LET v == AlertView(id)
       IN  Handled(id, IF Pending(v.job.checkpoint.phase)
                       THEN FinishCheckpoint([v EXCEPT !.job.checkpoint.phase = Fail(@)], id, FALSE)
                       ELSE v)

\* Mutant of ErrorAlert: an error does not fail the pending checkpoint.
ErrorAlertUnflagged(id) ==
    /\ Due("error", id)
    /\ Handled(id, Enqueue(AlertView(id), id, Kind.error, "recoverable"))

ErrorAlert(id) ==
    /\ Due("error", id)
    /\ LET v == AlertView(id)
       IN  Handled(id, IF Pending(v.job.checkpoint.phase)
                       THEN [v EXCEPT !.job.checkpoint.error = TRUE]
                       ELSE Enqueue(v, id, Kind.error, "recoverable"))

StateChanged(id) ==
    /\ Due("state_changed", id)
    /\ LET v == AlertView(id)
       IN  Handled(id, NotifyAll([v EXCEPT !.events = Status(v.events, id, "statusChanged")]))

\* No job has the handle, or the handle is no longer valid.
SkipAlert ==
    /\ alerts # <<>>
    /\ \A id \in DOMAIN jobs :
          jobs[id].handle = Head(alerts).handle => engine[jobs[id].handle].life = "gone"
    /\ alerts' = Tail(alerts)
    /\ UNCHANGED <<jobs, events, engine, calls, asleep, alert_thread, faults, wakes>>

(***************************************************************************)
(* The torrent of a stopped job is being removed: its handle can expire      *)
(* after is_valid() and before the handler's next call on it.  That call     *)
(* throws, and alerts() has no handler.  (No job is stopped before its       *)
(* metadata_received is handled, and torrent_finished makes no call on the   *)
(* handle of a stopped one.)                                                 *)
(***************************************************************************)
\* finish_checkpoint ends or starts a completion, with calls on the handle.
FinishUsesHandle(job) ==
    job.completion_checkpoint \/ (~job.checkpoint.active /\ job.completion_waiting)

AlertThrows(id) ==
    /\ \/ Due("state_changed", id)
       \/ Due("cache_flushed", id) /\ FlushDue(jobs[id].checkpoint.phase)
       \/ /\ Due("save_resume_data", id) /\ SaveDue(jobs[id].checkpoint.phase)
          /\ FinishUsesHandle(jobs[id])
       \/ /\ Due("save_resume_data_failed", id) /\ Pending(jobs[id].checkpoint.phase)
          /\ FinishUsesHandle(jobs[id])
    /\ engine[jobs[id].handle].life = "removing"
    /\ alert_thread' = "terminated"
    /\ UNCHANGED <<jobs, events, engine, alerts, calls, asleep, faults, wakes>>

HandleAlert ==
    \/ \E id \in Ids :
          \/ MetadataReceived(id)
          \/ TorrentFinished(id)
          \/ CacheFlushedAlert(id)
          \/ SaveResumeData(id)
          \/ SaveResumeDataFailed(id)
          \/ ErrorAlert(id)
          \/ StateChanged(id)
          \/ AlertThrows(id)
    \/ SkipAlert

----------------------------------------------------------------------------
(* The client's calls.  A call that only reports an error or reads is a      *)
(* stuttering step and is left out.                                          *)

Free(c) == calls[c].op = "none"

\* Bounds the alerts that steps other than replies add to the queue.
Room == Len(alerts) < MaxAlerts

\* A job whose torrent is neither stopped nor removed.
Active(id) == id \in DOMAIN jobs /\ ~jobs[id].stopped

NewTorrent(r) ==
    LET wanted  == IF ~r.metadata THEN {} ELSE IF r.pieces # Unset THEN r.pieces ELSE r.desired
        written == IF r.metadata THEN r.written ELSE {}
    IN  [life |-> "live", metadata |-> r.metadata, safe |-> r.safe, paused |-> r.paused,
         wanted |-> wanted, written |-> written, durable |-> written, intact |-> TRUE,
         finished |-> r.metadata /\ wanted \subseteq written, requests |-> <<>>]

NewSessionJob(r, h) ==
    [handle |-> h, desired |-> r.desired,
     priorities |-> IF r.metadata /\ r.desired # {} THEN r.desired ELSE Unset,
     pieces |-> IF r.metadata THEN r.pieces ELSE Unset,
     metadata_ready |-> r.metadata, completion_stops |-> r.stops,
     completion_checkpoint |-> FALSE, completion_waiting |-> FALSE,
     completion_rechecked |-> FALSE, stopped |-> FALSE,
     fenced |-> {}, final |-> NoData, checkpoint |-> NewCheckpoint]

AddTorrent(c, id, r) ==
    /\ Free(c)
    /\ id \notin DOMAIN jobs
    /\ CanAdd(events, id)
    /\ r.metadata => r.desired \subseteq Files
    /\ Cardinality(DOMAIN engine) < MaxHandles
    /\ LET h    == Cardinality(DOMAIN engine) + 1
           kept == Add(events, id)
       IN  /\ engine' = [x \in DOMAIN engine \cup {h} |->
                            IF x = h THEN NewTorrent(r) ELSE engine[x]]
           /\ jobs'   = [i \in DOMAIN jobs \cup {id} |->
                            IF i = id THEN NewSessionJob(r, h) ELSE jobs[i]]
           /\ events' = IF r.metadata THEN Critical(kept, id, Kind.metadata, "metadataReady")
                        ELSE kept
           /\ asleep' = IF r.metadata THEN {} ELSE asleep
           /\ alerts' = IF NewTorrent(r).finished
                        THEN Append(alerts, NewAlert("torrent_finished", h, NoData)) ELSE alerts
    /\ UNCHANGED <<calls, alert_thread, faults, wakes>>

\* The predicate each wait is for.
MetadataPredicate(c) ==
    \/ calls[c].interrupted
    \/ calls[c].id \notin DOMAIN jobs
    \/ jobs[calls[c].id].metadata_ready
    \/ jobs[calls[c].id].stopped

CheckpointPredicate(c) ==
    \/ calls[c].interrupted
    \/ calls[c].id \notin DOMAIN jobs
    \/ jobs[calls[c].id].checkpoint.done

NextEventPredicate(c) == HasFront(events) \/ calls[c].interrupted

Predicate(c) ==
    \/ calls[c].op = "metadata"   /\ MetadataPredicate(c)
    \/ calls[c].op = "checkpoint" /\ CheckpointPredicate(c)
    \/ calls[c].op = "next_event" /\ NextEventPredicate(c)

\* A thread that was notified finds its predicate false and sleeps again.
Resleep(c) ==
    /\ ~Free(c)
    /\ c \notin asleep
    /\ ~Predicate(c)
    /\ asleep' = asleep \cup {c}
    /\ UNCHANGED <<jobs, events, engine, alerts, calls, alert_thread, faults, wakes>>

\* The rest of ltkit_session_metadata: unsafe metadata stops the torrent.
MetadataRejected(id) ==
    /\ Active(id)
    /\ engine[jobs[id].handle].metadata
    /\ ~MetadataSafe(View(id))

Metadata(c, id) ==
    /\ Free(c)
    /\ Active(id)
    /\ \/ /\ ~jobs[id].metadata_ready
          /\ calls'  = [calls EXCEPT ![c] = [NoCall EXCEPT !.op = "metadata", !.id = id]]
          /\ asleep' = asleep \cup {c}
          /\ UNCHANGED <<jobs, events, engine, alerts, alert_thread, faults, wakes>>
       \/ /\ jobs[id].metadata_ready
          /\ MetadataRejected(id)
          /\ Handled(id, Reject(View(id)))

MetadataReturn(c) ==
    /\ calls[c].op = "metadata"
    /\ calls' = [calls EXCEPT ![c] = NoCall]
    /\ LET id   == calls[c].id
           stop == MetadataPredicate(c) /\ ~calls[c].interrupted /\ MetadataRejected(id)
           v    == Reject(View(id))
       IN  /\ jobs'   = IF stop THEN [jobs EXCEPT ![id] = v.job] ELSE jobs
           /\ engine' = IF stop THEN [engine EXCEPT ![jobs[id].handle] = v.torrent] ELSE engine
    /\ asleep' = asleep \ {c}
    /\ UNCHANGED <<events, alerts, alert_thread, faults, wakes>>

\* The files may not change while the torrent completes.
MayReselect(id) ==
    /\ Active(id)
    /\ ~jobs[id].completion_checkpoint
    /\ ~jobs[id].completion_waiting
    /\ engine[jobs[id].handle].metadata

Selected(id, files) ==
    [View(id) EXCEPT !.job = [jobs[id] EXCEPT !.desired = files, !.priorities = Unset,
                                              !.pieces = Unset]]

\* select_files, and set_file_priority with the files that it ends up with: both
\* replace the desired files, drop the piece priorities and apply.
SelectFiles(c, id, files) ==
    /\ Free(c)
    /\ Room
    /\ MayReselect(id)
    /\ SelectionApplies(Selected(id, files))
    /\ Handled(id, ApplySelection(Selected(id, files)))

\* The selection is stored before it is found wanting: the primary file is not
\* in it, or an index is out of range.
SelectFilesRejected(c, id, files) ==
    /\ Free(c)
    /\ MayReselect(id)
    /\ \/ Handled(id, Selected(id, files))
       \/ /\ ~SelectionApplies(Selected(id, files))
          /\ Handled(id, ApplySelection(Selected(id, files)))

(***************************************************************************)
(* The calls on pieces and on the streaming window need metadata; none of    *)
(* them is refused while the torrent completes.                              *)
(***************************************************************************)
HasPieces(id) == Active(id) /\ engine[jobs[id].handle].metadata

Toggled(pieces, p, on) == IF on THEN pieces \cup {p} ELSE pieces \ {p}

SetPiecePriority(c, id, p, on) ==
    /\ Free(c)
    /\ Room
    /\ HasPieces(id)
    /\ LET v    == View(id)
           kept == IF v.job.pieces # Unset THEN v.job.pieces ELSE v.torrent.wanted
       IN  Handled(id, PrioritizePieces([v EXCEPT !.job.pieces = Toggled(kept, p, on)],
                                        Toggled(v.torrent.wanted, p, on)))

\* The selection is applied, then the pieces of the window are raised in the
\* engine only.
Raised(v, f) ==
    LET applied == ApplySelection(v)
    IN  IF SelectionApplies(v)
        THEN PrioritizePieces(applied, applied.torrent.wanted \cup {f}) ELSE applied

UpdateStreamingWindow(c, id, f) ==
    /\ Free(c)
    /\ Room
    /\ HasPieces(id)
    /\ f \in jobs[id].desired
    /\ Handled(id, Raised(View(id), f))

ClearStreamingWindow(c, id) ==
    /\ Free(c)
    /\ Room
    /\ HasPieces(id)
    /\ Handled(id, ApplySelection(View(id)))

Start(c, id) ==
    /\ Free(c)
    /\ Active(id)
    /\ Handled(id, [View(id) EXCEPT !.torrent.paused = FALSE])

Pause(c, id) ==
    /\ Free(c)
    /\ Active(id)
    /\ Handled(id, [View(id) EXCEPT !.torrent.paused = TRUE])

CheckpointCall(c, id, flush) ==
    /\ Free(c)
    /\ Active(id)
    /\ ~jobs[id].checkpoint.active
    /\ Idle(jobs[id].checkpoint.phase)
    /\ ~jobs[id].completion_checkpoint
    /\ LET fresh == [View(id) EXCEPT !.job.checkpoint = [NewCheckpoint EXCEPT !.active = TRUE]]
           v     == StartCheckpoint(fresh, flush)
       IN  Commit(id, [v EXCEPT !.asleep = @ \cup {c}])
    /\ calls' = [calls EXCEPT ![c] =
                   [op |-> "checkpoint", id |-> id, interrupted |-> FALSE,
                    need |-> IF flush THEN engine[jobs[id].handle].written ELSE {}]]
    /\ UNCHANGED <<alert_thread, faults, wakes>>

\* Mutant of CheckpointReturn: a caller that gives up forgets the request.
CheckpointReturnForgets(c) ==
    /\ calls[c].op = "checkpoint"
    /\ calls' = [calls EXCEPT ![c] = NoCall]
    /\ Commit(calls[c].id, StartWaitingCompletion(
           [View(calls[c].id) EXCEPT !.asleep = @ \ {c}, !.job.checkpoint = NewCheckpoint]))
    /\ UNCHANGED <<alert_thread, faults, wakes>>

\* Mutant of CheckpointReturn: a consumed reply does not start the completion.
CheckpointReturnStartsNothing(c) ==
    /\ calls[c].op = "checkpoint"
    /\ calls' = [calls EXCEPT ![c] = NoCall]
    /\ LET v == [View(calls[c].id) EXCEPT !.asleep = @ \ {c}]
       IN  Commit(calls[c].id, IF v.job.checkpoint.done
                               THEN [v EXCEPT !.job.checkpoint = NewCheckpoint]
                               ELSE [v EXCEPT !.job.checkpoint.active = FALSE])
    /\ UNCHANGED <<alert_thread, faults, wakes>>

\* Mutant of CheckpointReturn: a caller that gives up stays the owner.
CheckpointReturnStaysActive(c) ==
    /\ calls[c].op = "checkpoint"
    /\ calls' = [calls EXCEPT ![c] = NoCall]
    /\ LET v == [View(calls[c].id) EXCEPT !.asleep = @ \ {c}]
       IN  Commit(calls[c].id, IF v.job.checkpoint.done
                               THEN StartWaitingCompletion([v EXCEPT !.job.checkpoint = NewCheckpoint])
                               ELSE v)
    /\ UNCHANGED <<alert_thread, faults, wakes>>

(***************************************************************************)
(* The end of the wait, by its predicate or by its timeout.  Answered, timed *)
(* out or cancelled, the caller gives up the slot; a reply that has come is  *)
(* consumed, one that has not stays due and is drained by finish_checkpoint. *)
(***************************************************************************)
CheckpointReturn(c) ==
    /\ calls[c].op = "checkpoint"
    /\ calls' = [calls EXCEPT ![c] = NoCall]
    /\ LET id   == calls[c].id
           v    == [View(id) EXCEPT !.asleep = @ \ {c}]
           done == v.job.checkpoint.done
       IN  IF id \in DOMAIN jobs
           THEN Commit(id, IF done
                           THEN StartWaitingCompletion([v EXCEPT !.job.checkpoint = NewCheckpoint])
                           ELSE [v EXCEPT !.job.checkpoint.active = FALSE])
           ELSE asleep' = asleep \ {c} /\ UNCHANGED <<jobs, events, engine, alerts>>
    /\ UNCHANGED <<alert_thread, faults, wakes>>

\* Mutant of Remove: a caller waiting for the torrent is not notified.
RemoveSilently(c, id) ==
    /\ Free(c)
    /\ id \in DOMAIN jobs
    /\ ~jobs[id].checkpoint.active
    /\ jobs'   = Restrict(jobs, DOMAIN jobs \ {id})
    /\ engine' = IF jobs[id].stopped THEN engine
                 ELSE [engine EXCEPT ![jobs[id].handle] = RemoveTorrent(View(id)).torrent]
    /\ events' = Retire(events, id)
    /\ UNCHANGED <<alerts, calls, asleep, alert_thread, faults, wakes>>

\* Mutant of Remove: the mailbox keeps admitting the removed torrent.
RemoveUnretired(c, id) ==
    /\ Free(c)
    /\ id \in DOMAIN jobs
    /\ ~jobs[id].checkpoint.active
    /\ jobs'   = Restrict(jobs, DOMAIN jobs \ {id})
    /\ engine' = IF jobs[id].stopped THEN engine
                 ELSE [engine EXCEPT ![jobs[id].handle] = RemoveTorrent(View(id)).torrent]
    /\ asleep' = {}
    /\ UNCHANGED <<events, alerts, calls, alert_thread, faults, wakes>>

Remove(c, id) ==
    /\ Free(c)
    /\ id \in DOMAIN jobs
    /\ ~jobs[id].checkpoint.active
    /\ jobs'   = Restrict(jobs, DOMAIN jobs \ {id})
    /\ engine' = IF jobs[id].stopped THEN engine
                 ELSE [engine EXCEPT ![jobs[id].handle] = RemoveTorrent(View(id)).torrent]
    /\ events' = Retire(events, id)
    /\ asleep' = {}
    /\ UNCHANGED <<alerts, calls, alert_thread, faults, wakes>>

\* The event is popped only once the buffer for it was allocated.
Deliver ==
    \/ FrontIsCritical(events) /\ events' = PopCritical(events)
    \/ FrontIsStatus(events) /\ \E id \in StatusIds(events) : events' = PopStatus(events, id)

\* ltkit_session_next_event finds an event, or sleeps.
NextEvent ==
    /\ Free(Reader)
    /\ \/ Deliver /\ UNCHANGED <<calls, asleep>>
       \/ /\ ~HasFront(events)
          /\ calls'  = [calls EXCEPT ![Reader] = [NoCall EXCEPT !.op = "next_event"]]
          /\ asleep' = asleep \cup {Reader}
          /\ UNCHANGED events
    /\ UNCHANGED <<jobs, engine, alerts, alert_thread, faults, wakes>>

\* It returns with an event, or without one: timed out, cancelled or for want
\* of memory.
NextEventReturn ==
    /\ calls[Reader].op = "next_event"
    /\ calls'  = [calls EXCEPT ![Reader] = NoCall]
    /\ asleep' = asleep \ {Reader}
    /\ Deliver \/ UNCHANGED events
    /\ UNCHANGED <<jobs, engine, alerts, alert_thread, faults, wakes>>

\* ltkit_session_wake: every wait in progress has a stale generation.
Wake ==
    /\ wakes < MaxWakes
    /\ wakes'  = wakes + 1
    /\ calls'  = [c \in Threads |-> [calls[c] EXCEPT !.interrupted = calls[c].op # "none"]]
    /\ asleep' = {}
    /\ UNCHANGED <<jobs, events, engine, alerts, alert_thread, faults>>

\* The torrent object is released: its handles expire, its requests are dropped
\* and nothing more can be learnt of it.
Released == [life |-> "gone", metadata |-> FALSE, safe |-> {}, paused |-> TRUE,
             wanted |-> {}, written |-> {}, durable |-> {}, intact |-> FALSE,
             finished |-> FALSE, requests |-> <<>>]

(***************************************************************************)
(* ltkit_session_destroy, which the Swift lanes call with no other call in   *)
(* progress: the alert thread sees shutting_down, leaves what it has popped, *)
(* and is joined; the session and its torrents are gone.                     *)
(***************************************************************************)
Destroy ==
    /\ \A c \in Threads : Free(c)
    /\ alert_thread' = "joined"
    /\ jobs'   = [id \in {} |-> NoCall]
    /\ events' = EmptyMailbox
    /\ engine' = [h \in DOMAIN engine |-> Released]
    /\ alerts' = <<>>
    /\ UNCHANGED <<calls, asleep, faults, wakes>>

ClientCall ==
    \/ \E c \in Callers, id \in Ids :
          \/ \E r \in AddRequests : AddTorrent(c, id, r)
          \/ Metadata(c, id)
          \/ \E files \in Selections :
                SelectFiles(c, id, files) \/ SelectFilesRejected(c, id, files)
          \/ \E p \in Files, on \in BOOLEAN : SetPiecePriority(c, id, p, on)
          \/ \E f \in Files : UpdateStreamingWindow(c, id, f)
          \/ ClearStreamingWindow(c, id)
          \/ Start(c, id)
          \/ Pause(c, id)
          \/ \E flush \in BOOLEAN : CheckpointCall(c, id, flush)
          \/ Remove(c, id)
    \/ NextEvent
    \/ Wake
    \/ Destroy

Return(c) == MetadataReturn(c) \/ CheckpointReturn(c)

----------------------------------------------------------------------------
(* The engine, as the session uses it.                                       *)

\* The engine changes torrent h and posts alerts.
Posts(h, torrent, posted) ==
    /\ engine' = [engine EXCEPT ![h] = torrent]
    /\ alerts' = alerts \o posted
    /\ UNCHANGED <<jobs, events, calls, asleep, alert_thread, wakes>>

Fault == faults < MaxFaults /\ faults' = faults + 1

\* Metadata arrives; nothing is wanted yet, so the torrent is finished at once.
EngineMetadata(h) ==
    /\ engine[h].life = "live" /\ ~engine[h].metadata /\ ~engine[h].paused
    /\ Posts(h, [engine[h] EXCEPT !.metadata = TRUE, !.finished = TRUE],
             <<NewAlert("metadata_received", h, NoData), NewAlert("torrent_finished", h, NoData)>>)
    /\ UNCHANGED faults

EngineDownload(h, p) ==
    /\ engine[h].life = "live" /\ engine[h].metadata /\ ~engine[h].paused
    /\ p \in engine[h].wanted \ engine[h].written
    /\ LET written  == engine[h].written \cup {p}
           finished == engine[h].wanted \subseteq written
       IN  Posts(h, [engine[h] EXCEPT !.written = written, !.finished = finished],
                 IF finished THEN <<NewAlert("torrent_finished", h, NoData)>> ELSE <<>>)
    /\ UNCHANGED faults

\* The write cache is written out and the flush is answered ...
EngineFlush(h) ==
    /\ engine[h].requests # <<>> /\ Head(engine[h].requests) = "flush"
    /\ Posts(h, [engine[h] EXCEPT !.requests = Tail(@), !.durable = engine[h].written],
             <<NewAlert("cache_flushed", h, NoData)>>)
    /\ UNCHANGED faults

\* ... or a write fails: the error is reported before the answer.
EngineFlushFails(h) ==
    /\ engine[h].requests # <<>> /\ Head(engine[h].requests) = "flush"
    /\ Fault
    /\ Posts(h, [engine[h] EXCEPT !.requests = Tail(@)],
             <<NewAlert("error", h, NoData), NewAlert("cache_flushed", h, NoData)>>)

EngineSave(h) ==
    /\ engine[h].requests # <<>> /\ Head(engine[h].requests) = "save"
    /\ Posts(h, [engine[h] EXCEPT !.requests = Tail(@)],
             <<NewAlert("save_resume_data", h, engine[h].written)>>)
    /\ UNCHANGED faults

EngineSaveFails(h) ==
    /\ engine[h].requests # <<>> /\ Head(engine[h].requests) = "save"
    /\ Fault
    /\ Posts(h, [engine[h] EXCEPT !.requests = Tail(@)],
             <<NewAlert("save_resume_data_failed", h, NoData)>>)

\* An error or a change of state that nobody asked for.
EngineReports(h, type) ==
    /\ engine[h].life # "gone"
    /\ Room
    /\ Fault
    /\ Posts(h, engine[h], <<NewAlert(type, h, NoData)>>)

\* Somebody deletes the payload files, or puts them back.
PayloadChanges(h) ==
    /\ engine[h].life # "gone"
    /\ Fault
    /\ Posts(h, [engine[h] EXCEPT !.intact = ~@], <<>>)

EngineReleases(h) ==
    /\ engine[h].life = "removing"
    /\ Posts(h, Released, <<>>)
    /\ UNCHANGED faults

EngineAnswers(h) ==
    EngineFlush(h) \/ EngineFlushFails(h) \/ EngineSave(h) \/ EngineSaveFails(h)

EngineStep == \E h \in DOMAIN engine :
    \/ EngineMetadata(h)
    \/ \E p \in Files : EngineDownload(h, p)
    \/ EngineAnswers(h)
    \/ \E type \in {"error", "state_changed"} : EngineReports(h, type)
    \/ PayloadChanges(h)
    \/ EngineReleases(h)

----------------------------------------------------------------------------
Ended == alert_thread # "running" /\ UNCHANGED vars

Next ==
    \/ /\ alert_thread = "running"
       /\ \/ HandleAlert
          \/ ClientCall
          \/ \E c \in Callers : Return(c)
          \/ NextEventReturn
          \/ \E c \in Threads : Resleep(c)
          \/ EngineStep
    \/ Ended

Spec == Init /\ [][Next]_vars

(***************************************************************************)
(* Fairness: the alert loop never blocks on anything but the mutex and an    *)
(* empty queue; every wait has a timeout; the engine answers every request   *)
(* it has accepted ("Explicit flush_cache replies are unconditional").       *)
(***************************************************************************)
Running(A) == alert_thread = "running" /\ A

Fairness ==
    /\ WF_vars(Running(HandleAlert))
    /\ \A c \in Callers : WF_vars(Running(Return(c)))
    /\ \A h \in Handles : WF_vars(Running(h \in DOMAIN engine /\ EngineAnswers(h)))

FairSpec == Spec /\ Fairness

----------------------------------------------------------------------------
(* Safety.                                                                   *)

\* The types of the session's state; among them that apply_selection hands the
\* engine only priorities of files the torrent has.
TypeOK ==
    /\ DOMAIN jobs \subseteq Ids /\ jobs \in [DOMAIN jobs -> SessionJob]
    /\ MailboxType(events)
    /\ DOMAIN engine \subseteq Handles /\ engine \in [DOMAIN engine -> Torrent]
    /\ alerts \in Seq(Alert)
    /\ calls \in [Threads -> Call]
    /\ asleep \subseteq Threads
    /\ alert_thread \in {"running", "joined", "terminated"}
    /\ faults \in 0..MaxFaults
    /\ wakes \in 0..MaxWakes

TorrentOf(id) == engine[jobs[id].handle]

(***************************************************************************)
(* The request slot.  What a torrent's job awaits is what the engine owes:   *)
(* the request that it has yet to answer, or its answer in the alert queue s.*)
(***************************************************************************)
Replies == [cache_flushed |-> "flush", save_resume_data |-> "save",
            save_resume_data_failed |-> "save"]
Awaited == [flushing |-> "flush", saving |-> "save"]

IsReply(a, h) == a.handle = h /\ a.type \in DOMAIN Replies

NoReply(s, h) == \A i \in DOMAIN s : ~IsReply(s[i], h)

OneReply(s, h, request) == \E i \in DOMAIN s :
    /\ IsReply(s[i], h) /\ Replies[s[i].type] = request
    /\ \A j \in DOMAIN s : IsReply(s[j], h) => j = i

Owes(torrent, s, h, request) ==
    \/ torrent.requests = <<request>> /\ NoReply(s, h)
    \/ torrent.requests = <<>> /\ OneReply(s, h, request)

OwesNothing(torrent, s, h) == torrent.requests = <<>> /\ NoReply(s, h)

SlotExact(job, torrent, s) == torrent.life # "gone" =>
    IF Pending(job.checkpoint.phase)
    THEN Owes(torrent, s, job.handle, Awaited[job.checkpoint.phase])
    ELSE OwesNothing(torrent, s, job.handle)

(***************************************************************************)
(* "One native request at a time, including after a caller times out": what  *)
(* the engine still owes a torrent is exactly what its barrier waits for, so *)
(* no checkpoint is ever satisfied by another one's late reply.              *)
(***************************************************************************)
OneRequestAtATime == \A id \in DOMAIN jobs : SlotExact(jobs[id], TorrentOf(id), alerts)

(***************************************************************************)
(* A flushed checkpoint that the caller will be told succeeded has moved     *)
(* everything written before the request to disk and into the resume data.   *)
(***************************************************************************)
FlushCoversRequest == \A c \in Callers :
    calls[c].op = "checkpoint" /\ calls[c].id \in DOMAIN jobs =>
        LET checkpoint == jobs[calls[c].id].checkpoint
        IN  checkpoint.done /\ ~checkpoint.error =>
                /\ calls[c].need \subseteq checkpoint.data
                /\ TorrentOf(calls[c].id).life = "live" =>
                      calls[c].need \subseteq TorrentOf(calls[c].id).durable

HasOwner(job) ==
    /\ job.completion_waiting /\ ~job.stopped
          => job.checkpoint.active \/ ~Idle(job.checkpoint.phase)
    /\ job.completion_checkpoint => Pending(job.checkpoint.phase) /\ ~job.checkpoint.active
    /\ ~(job.completion_waiting /\ job.completion_checkpoint)

(***************************************************************************)
(* A completion that waits has somebody to start it, and one that runs owns  *)
(* the barrier: finish_checkpoint or the returning caller will get to it.    *)
(***************************************************************************)
CompletionHasOwner == \A id \in DOMAIN jobs : HasOwner(jobs[id])

\* The caller of an active checkpoint is there to take its reply.
ActiveHasCaller == \A id \in DOMAIN jobs :
    jobs[id].checkpoint.active <=>
        \E c \in Callers : calls[c].op = "checkpoint" /\ calls[c].id = id

(***************************************************************************)
(* No wake-up is lost: a thread asleep on the condition variable has nothing *)
(* to return for, whichever handler changed its predicate.                   *)
(***************************************************************************)
NoLostWakeup == \A c \in asleep : ~Predicate(c)

\* The mailbox admits exactly the session's jobs, so that critical() and
\* status() never look up an identifier that is not there.
MailboxMirrorsJobs == DOMAIN jobs = LiveIds(events)

\* The step publishes "completed" for job id and keeps its snapshot.
PublishesCompleted(id) == jobs[id].final = NoData /\ jobs'[id].final # NoData

(***************************************************************************)
(* "completed" is published only for a selection that exists, is downloaded  *)
(* and is on disk, and behind a fence: everything that was written when the  *)
(* completion last asked for its flush has left the write cache and is in    *)
(* the resume data kept for the client.  (What the client makes the engine   *)
(* download after that is CompletedIsDurable's matter.)                      *)
(***************************************************************************)
CompletedIsFenced == [][\A id \in DOMAIN jobs \cap DOMAIN jobs' : PublishesCompleted(id) =>
    /\ jobs[id].desired # {} /\ jobs[id].desired \subseteq TorrentOf(id).written
    /\ TorrentOf(id).intact
    /\ jobs[id].fenced \subseteq TorrentOf(id).durable
    /\ jobs[id].fenced \subseteq jobs'[id].final]_vars

(***************************************************************************)
(* A stopped torrent stays stopped, with the snapshot it stopped with, until *)
(* it is removed; it is never completed afterwards and never restarted.      *)
(***************************************************************************)
StoppedIsFinal == [][\A id \in DOMAIN jobs \cap DOMAIN jobs' :
    jobs[id].stopped => jobs'[id].stopped /\ jobs'[id].final = jobs[id].final]_vars

----------------------------------------------------------------------------
(* The inductive invariant, part by part.                                    *)

\* A handle is given out once, names a torrent of one job at most, and no alert
\* is about a torrent that was never added.
HandlesKnown ==
    /\ \E n \in 0..MaxHandles : DOMAIN engine = 1..n
    /\ \A id \in DOMAIN jobs : jobs[id].handle \in DOMAIN engine
    /\ \A i, j \in DOMAIN jobs : jobs[i].handle = jobs[j].handle => i = j
    /\ \A i \in DOMAIN alerts : alerts[i].handle \in DOMAIN engine

\* Who is in a wait, and that a checkpoint in progress keeps its job and is the
\* only one.
CallsKnown ==
    /\ \A c \in asleep : ~Free(c)
    /\ \A c \in Threads :
          /\ calls[c].op \in {"metadata", "checkpoint"} => c \in Callers /\ calls[c].id \in Ids
          /\ calls[c].op = "next_event" => c = Reader
          /\ calls[c].op = "checkpoint" =>
                /\ calls[c].id \in DOMAIN jobs
                /\ \A d \in Callers :
                      calls[d].op = "checkpoint" /\ calls[d].id = calls[c].id => d = c

\* done, active and the phase move together.
DoneInStep(checkpoint) ==
    /\ checkpoint.done <=> checkpoint.phase \in {"succeeded", "failed"}
    /\ checkpoint.done => checkpoint.active
    /\ checkpoint.active => ~Idle(checkpoint.phase)

\* A job is stopped with its torrent; if that was in the middle of a completion,
\* it was for metadata that no completion accepts.
StoppedForGood(job, torrent) ==
    /\ job.stopped <=> torrent.life # "live"
    /\ job.stopped /\ (job.completion_waiting \/ job.completion_checkpoint)
          => ~torrent.metadata \/ torrent.safe # Files \/ ~(job.desired \subseteq Files)

HasAlert(s, h, type) == \E i \in DOMAIN s : s[i].handle = h /\ s[i].type = type

\* No torrent_finished is ahead of a metadata_received.
MetadataFirst(s, h) == \A i, j \in DOMAIN s :
    /\ s[i].handle = h /\ s[i].type = "metadata_received"
    /\ s[j].handle = h /\ s[j].type = "torrent_finished"
    => i < j

\* metadata_received comes once and before any torrent_finished, so the handler
\* that applies the selection never runs during a completion.
MetadataOnce(job, torrent, s) == torrent.life # "gone" =>
    /\ ~torrent.metadata => /\ ~HasAlert(s, job.handle, "metadata_received")
                            /\ ~HasAlert(s, job.handle, "torrent_finished")
    /\ MetadataFirst(s, job.handle)
    /\ job.completion_waiting \/ job.completion_checkpoint =>
          /\ torrent.metadata
          /\ ~HasAlert(s, job.handle, "metadata_received")

\* Every answered flush has moved what it had to, or an error alert is ahead of it.
FlushOrError(s, h, moved) == \A i \in DOMAIN s :
    s[i].handle = h /\ s[i].type = "cache_flushed" =>
        moved \/ \E j \in DOMAIN s : j < i /\ s[j].handle = h /\ s[j].type = "error"

\* The resume data on its way covers the pieces need.
DataAtLeast(s, h, need) == \A i \in DOMAIN s :
    s[i].handle = h /\ s[i].type = "save_resume_data" => need \subseteq s[i].data

\* The checkpoint under way covers the pieces need, unless it fails.
Covers(job, torrent, s, need) ==
    LET moved == job.checkpoint.error \/ need \subseteq torrent.durable
    IN  /\ torrent.life # "gone" =>
              /\ need \subseteq torrent.written
              /\ FlushOrError(s, job.handle, moved)
              /\ job.checkpoint.phase = "saving" => moved
              /\ DataAtLeast(s, job.handle, need)
        /\ job.checkpoint.done /\ ~job.checkpoint.error =>
              /\ need \subseteq job.checkpoint.data
              /\ torrent.life = "live" => need \subseteq torrent.durable

\* What is true of every job, its torrent and the alert queue.
JobInv(job, torrent, s) ==
    /\ DoneInStep(job.checkpoint)
    /\ HasOwner(job)
    /\ StoppedForGood(job, torrent)
    /\ SlotExact(job, torrent, s)
    /\ MetadataOnce(job, torrent, s)
    /\ job.completion_checkpoint => Covers(job, torrent, s, job.fenced)

\* What a caller that waits for a checkpoint is owed.
RequestsCovered == \A c \in Callers : calls[c].op = "checkpoint" =>
    Covers(jobs[calls[c].id], TorrentOf(calls[c].id), alerts, calls[c].need)

\* The session's tables, its barrier and its waits stay in step under every
\* interleaving of the alert thread, the callers and the engine.
Inv ==
    /\ TypeOK
    /\ MailboxInv(events)
    /\ MailboxMirrorsJobs
    /\ HandlesKnown
    /\ CallsKnown
    /\ ActiveHasCaller
    /\ NoLostWakeup
    /\ \A id \in DOMAIN jobs : JobInv(jobs[id], TorrentOf(id), alerts)
    /\ RequestsCovered

----------------------------------------------------------------------------
(***************************************************************************)
(* Statements of the documentation that the code does not keep.              *)
(***************************************************************************)

\* "The bridge pauses the handle, waits for the explicit flush_cache() /
\* cache_flushed_alert disk fence, then saves resume data" before it publishes
\* "completed": every selected file is out of the write cache and in the resume
\* data then.  The piece and window calls can have the engine download a selected
\* piece behind the fence.
CompletedIsDurable == [][\A id \in DOMAIN jobs \cap DOMAIN jobs' : PublishesCompleted(id) =>
    /\ jobs[id].desired \subseteq TorrentOf(id).durable
    /\ jobs[id].desired \subseteq jobs'[id].final]_vars

\* "Failure emits completionFailed": when a completion fails, the torrent has a
\* completionFailed event for the consumer to read.  critical() does not keep it:
\* behind an unread engine error it only counts one more of those.
FailureEmitsCompletionFailed == [][\A id \in DOMAIN jobs \cap DOMAIN jobs' :
    /\ jobs[id].completion_checkpoint /\ ~jobs'[id].completion_checkpoint
    /\ jobs'[id].final = NoData
    => \E i \in DOMAIN events'.critical :
          events'.critical[i].id = id /\ events'.critical[i].json = "completionFailed"]_vars

\* "The C ABI catches every C++ exception": none of them ends the process.  The
\* alert thread's calls on a handle that expires are outside every try block.
ExceptionsAreCaught == alert_thread # "terminated"

----------------------------------------------------------------------------
(* Liveness.                                                                 *)

IsCompleting(id) ==
    /\ Active(id)
    /\ jobs[id].completion_waiting \/ jobs[id].completion_checkpoint

\* A completion that has begun ends: the torrent stops or is gone, whatever
\* checkpoints were pending, timed out or failed meanwhile.
CompletionEnds == \A id \in Ids :
    IsCompleting(id) ~> (~Active(id) \/ alert_thread = "terminated")

=============================================================================
