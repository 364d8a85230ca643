------------------------ MODULE NativeSessionProofs ------------------------
(***************************************************************************)
(* Inv is an inductive invariant of the native session, for any number of    *)
(* torrents, callers, files, alerts and faults; with it the safety properties*)
(* of NativeSession.                                                         *)
(***************************************************************************)
EXTENDS NativeSessionLemmas

----------------------------------------------------------------------------
(* Steps on one job.                                                         *)

\* What a step does to the snapshot of a job that is there before and after it.
FinalStep == \A id \in DOMAIN jobs \cap DOMAIN jobs' :
    /\ jobs[id].stopped => jobs'[id].stopped /\ jobs'[id].final = jobs[id].final
    /\ jobs'[id].final # jobs[id].final
          => CompletedWell(jobs[id], TorrentOf(id), jobs'[id])

\* What the invariant says of one job.
LEMMA ViewFacts ==
    ASSUME Inv, NEW id \in DOMAIN jobs
    PROVE  /\ Given(View(id), id)
           /\ View(id).job = jobs[id] /\ View(id).torrent = TorrentOf(id)
           /\ View(id).events = events /\ View(id).alerts = alerts /\ View(id).asleep = asleep
           /\ id \in Ids /\ jobs[id].handle \in DOMAIN engine
<1>1. /\ View(id).job = jobs[id] /\ View(id).torrent = TorrentOf(id)
      /\ View(id).events = events /\ View(id).alerts = alerts /\ View(id).asleep = asleep
      /\ IsView(View(id))
  BY DEF View, TorrentOf, IsView
<1>2. jobs[id].handle \in DOMAIN engine /\ id \in Ids
  BY DEF Inv, HandlesKnown, TypeOK
<1>3. Typed(View(id))
  BY <1>1, <1>2 DEF Typed, Inv, TypeOK, TorrentOf
<1>4. JobInv(jobs[id], TorrentOf(id), alerts)
  BY DEF Inv
<1>5. Publishes(View(id), id)
  BY <1>1 DEF Publishes, Inv, MailboxMirrorsJobs
<1> QED
  BY <1>1, <1>2, <1>3, <1>4, <1>5 DEF Given

\* A call either goes on as it was, or is a wait for metadata that returns.
CallsLeft ==
    /\ calls' \in [Threads -> Call]
    /\ \A c \in Threads :
          \/ calls'[c] = calls[c]
          \/ calls[c].op = "metadata" /\ calls'[c] = NoCall /\ c \notin asleep'

\* A step that keeps a job, in the sense of Kept, keeps the invariant.
LEMMA CommitKeeps ==
    ASSUME Inv, NEW id \in DOMAIN jobs, NEW n, Kept(View(id), n),
           jobs' = [jobs EXCEPT ![id] = n.job],
           engine' = [engine EXCEPT ![jobs[id].handle] = n.torrent],
           events' = n.events, alerts' = n.alerts, asleep' \subseteq n.asleep,
           CallsLeft, UNCHANGED <<alert_thread, faults, wakes>>
    PROVE  Inv' /\ FinalStep
<1> DEFINE v == View(id)
           h == jobs[id].handle
<1>1. /\ Given(v, id)
      /\ v.job = jobs[id] /\ v.torrent = engine[h]
      /\ v.events = events /\ v.alerts = alerts /\ v.asleep = asleep
      /\ id \in Ids /\ h \in DOMAIN engine
  BY ViewFacts DEF TorrentOf
<1>2. Kept(v, n)
  OBVIOUS
<1> HIDE DEF v
<1>3. /\ DOMAIN jobs' = DOMAIN jobs /\ jobs'[id] = n.job
      /\ \A j \in DOMAIN jobs : j # id => jobs'[j] = jobs[j]
  BY DEF Inv, TypeOK
<1>4. /\ DOMAIN engine' = DOMAIN engine /\ engine'[h] = n.torrent
      /\ \A g \in DOMAIN engine : g # h => engine'[g] = engine[g]
  BY <1>1 DEF Inv, TypeOK
<1>5. /\ Typed(n) /\ n.job.handle = h
      /\ n.job.checkpoint.active = jobs[id].checkpoint.active
      /\ QueueKept(alerts, n.alerts, h)
      /\ MailboxInv(n.events) /\ LiveIds(n.events) = LiveIds(events)
  BY <1>1, <1>2 DEF Kept
<1>6. \A j \in DOMAIN jobs : jobs'[j].handle = jobs[j].handle
  BY <1>3, <1>5
<1>7. \A j \in DOMAIN jobs : j # id =>
         /\ jobs[j].handle \in DOMAIN engine /\ jobs[j].handle # h
         /\ engine'[jobs[j].handle] = engine[jobs[j].handle]
         /\ Alike(alerts, n.alerts, jobs[j].handle)
  BY <1>4, <1>5 DEF Inv, HandlesKnown, QueueKept
<1>8. TypeOK'
  <2>1. jobs' \in [DOMAIN jobs' -> SessionJob]
    BY <1>3, <1>5 DEF Inv, TypeOK, Typed
  <2>2. engine' \in [DOMAIN engine' -> Torrent]
    BY <1>4, <1>5 DEF Inv, TypeOK, Typed
  <2>3. asleep' \subseteq Threads
    BY <1>1, <1>2 DEF Inv, TypeOK, Kept, Rested
  <2>4. MailboxType(events') /\ alerts' \in Seq(Alert)
    BY <1>5 DEF MailboxInv, Typed
  <2>5. DOMAIN jobs' \subseteq Ids /\ DOMAIN engine' \subseteq Handles
    BY <1>3, <1>4 DEF Inv, TypeOK
  <2>6. /\ alert_thread' \in {"running", "joined", "terminated"}
        /\ faults' \in 0..MaxFaults /\ wakes' \in 0..MaxWakes
    BY DEF Inv, TypeOK
  <2> QED
    BY <2>1, <2>2, <2>3, <2>4, <2>5, <2>6 DEF TypeOK, CallsLeft
<1>9. MailboxInv(events') /\ MailboxMirrorsJobs'
  BY <1>3, <1>5 DEF Inv, MailboxMirrorsJobs
<1>10. HandlesKnown'
  <2>1. \E k \in 0..MaxHandles : DOMAIN engine' = 1..k
    BY <1>4 DEF Inv, HandlesKnown
  <2>2. \A j \in DOMAIN jobs' : jobs'[j].handle \in DOMAIN engine'
    BY <1>3, <1>4, <1>6 DEF Inv, HandlesKnown
  <2>3. \A i, j \in DOMAIN jobs' : jobs'[i].handle = jobs'[j].handle => i = j
    BY <1>3, <1>6 DEF Inv, HandlesKnown
  <2>4. \A i \in DOMAIN alerts' : alerts'[i].handle \in DOMAIN engine'
    BY <1>1, <1>4, <1>5 DEF Inv, HandlesKnown, QueueKept
  <2> QED
    BY <2>1, <2>2, <2>3, <2>4 DEF HandlesKnown
<1>11. \A c \in Threads : /\ calls'[c].op = "checkpoint" => calls'[c] = calls[c]
                          /\ calls'[c].op # "none" => calls'[c] = calls[c]
                          /\ calls[c].op = "checkpoint" => calls'[c] = calls[c]
  BY DEF CallsLeft, NoCall
<1>12. CallsKnown'
  <2>1. \A c \in asleep' : ~Free(c)'
    <3> SUFFICES ASSUME NEW c \in asleep' PROVE calls'[c].op # "none"
      BY DEF Free
    <3>1. c \in asleep /\ c \in Threads
      BY <1>1, <1>2 DEF Kept, Rested, Inv, TypeOK
    <3> QED
      BY <3>1 DEF CallsLeft, Inv, CallsKnown, Free
  <2>2. ASSUME NEW c \in Threads
        PROVE  /\ calls'[c].op \in {"metadata", "checkpoint"} => c \in Callers /\ calls'[c].id \in Ids
               /\ calls'[c].op = "next_event" => c = Reader
               /\ calls'[c].op = "checkpoint" =>
                     /\ calls'[c].id \in DOMAIN jobs'
                     /\ \A d \in Callers :
                           calls'[d].op = "checkpoint" /\ calls'[d].id = calls'[c].id => d = c
    <3>1. \A d \in Callers : d \in Threads
      BY DEF Threads
    <3> QED
      BY <1>3, <1>11, <3>1 DEF Inv, CallsKnown
  <2> QED
    BY <2>1, <2>2 DEF CallsKnown
<1>13. ActiveHasCaller'
  <2>1. \A j \in DOMAIN jobs : jobs'[j].checkpoint.active <=> jobs[j].checkpoint.active
    BY <1>3, <1>5
  <2>2. \A c \in Callers : \A j \in Ids :
           calls'[c].op = "checkpoint" /\ calls'[c].id = j <=>
           calls[c].op = "checkpoint" /\ calls[c].id = j
    BY <1>11 DEF Threads
  <2>3. \A j \in DOMAIN jobs : j \in Ids
    BY DEF Inv, TypeOK
  <2> QED
    BY <1>3, <2>1, <2>2, <2>3 DEF Inv, ActiveHasCaller
<1>14. NoLostWakeup'
  <2> SUFFICES ASSUME NEW c \in asleep' PROVE ~Predicate(c)'
    BY DEF NoLostWakeup
  <2>1. /\ c \in asleep /\ c \in Threads /\ events' = events
        /\ n.job.metadata_ready => jobs[id].metadata_ready
        /\ n.job.checkpoint.done => jobs[id].checkpoint.done
        /\ n.job.stopped => jobs[id].stopped \/ jobs[id].metadata_ready
    BY <1>1, <1>2 DEF Kept, Rested, Inv, TypeOK
  <2>2. calls'[c] = calls[c] /\ ~Predicate(c)
    BY <2>1 DEF CallsLeft, Inv, NoLostWakeup
  <2>3. \A j \in DOMAIN jobs :
           /\ jobs'[j].metadata_ready => jobs[j].metadata_ready
           /\ jobs'[j].checkpoint.done => jobs[j].checkpoint.done
           /\ jobs'[j].stopped => jobs[j].stopped \/ jobs[j].metadata_ready
    BY <1>3, <2>1
  <2> QED
    BY <1>3, <2>1, <2>2, <2>3
       DEF Predicate, MetadataPredicate, CheckpointPredicate, NextEventPredicate
<1>15. ASSUME NEW j \in DOMAIN jobs' PROVE JobInv(jobs'[j], TorrentOf(j)', alerts')
  <2>1. CASE j = id
    BY <1>2, <1>3, <1>4, <1>5, <2>1 DEF Kept, TorrentOf
  <2>2. CASE j # id
    <3>1. JobInv(jobs[j], engine[jobs[j].handle], alerts) /\ Alike(alerts, n.alerts, jobs[j].handle)
      BY <1>3, <1>7, <1>15, <2>2 DEF Inv, TorrentOf
    <3> QED
      BY <1>3, <1>7, <1>15, <2>2, <3>1, AlikeKeeps DEF TorrentOf
  <2> QED
    BY <2>1, <2>2
<1>16. RequestsCovered'
  <2> SUFFICES ASSUME NEW c \in Callers, calls'[c].op = "checkpoint"
               PROVE  Covers(jobs'[calls'[c].id], engine'[jobs'[calls'[c].id].handle],
                             alerts', calls'[c].need)
    BY DEF RequestsCovered, TorrentOf
  <2> DEFINE j    == calls[c].id
             need == calls[c].need
  <2>1. /\ calls'[c] = calls[c] /\ j \in DOMAIN jobs /\ need \in SUBSET Files
        /\ jobs[j].checkpoint.active
        /\ Covers(jobs[j], engine[jobs[j].handle], alerts, need)
    BY <1>11 DEF Threads, Inv, CallsKnown, ActiveHasCaller, RequestsCovered, TypeOK, Call, TorrentOf
  <2> HIDE DEF need
  <2>2. CASE j = id
    <3>1. Covers(n.job, n.torrent, n.alerts, need)
      BY <1>1, <1>2, <2>1, <2>2 DEF Kept, Promised
    <3> QED
      BY <1>3, <1>4, <1>5, <2>1, <2>2, <3>1 DEF need
  <2>3. CASE j # id
    <3>1. Covers(jobs[j], engine[jobs[j].handle], n.alerts, need)
      BY <1>7, <2>1, <2>3, AlikeKeeps
    <3> QED
      BY <1>3, <1>7, <2>1, <2>3, <3>1 DEF need
  <2> QED
    BY <2>2, <2>3
<1>17. FinalStep
  BY <1>1, <1>2, <1>3 DEF FinalStep, Kept, Promised, TorrentOf
<1> QED
  BY <1>8, <1>9, <1>10, <1>12, <1>13, <1>14, <1>15, <1>16, <1>17 DEF Inv

\* The same, in the form the handlers and the calls have.
LEMMA HandledKeeps ==
    ASSUME Inv, NEW id \in DOMAIN jobs, NEW n, Kept(View(id), n), Handled(id, n)
    PROVE  Inv' /\ FinalStep
<1>1. CallsLeft
  BY DEF Handled, CallsLeft, Inv, TypeOK
<1> QED
  BY <1>1, CommitKeeps DEF Handled, Commit

\* The view a handler starts from.
LEMMA DueFacts ==
    ASSUME Inv, NEW type, NEW id, Due(type, id)
    PROVE  /\ id \in DOMAIN jobs /\ Given(View(id), id) /\ Taken(View(id), AlertView(id))
           /\ View(id).alerts = alerts /\ Head(View(id).alerts).type = type
<1>1. id \in DOMAIN jobs
  BY DEF Due
<1>2. /\ Given(View(id), id)
      /\ View(id).job = jobs[id] /\ View(id).torrent = TorrentOf(id)
      /\ View(id).events = events /\ View(id).alerts = alerts /\ View(id).asleep = asleep
  BY <1>1, ViewFacts
<1>3. /\ IsView(AlertView(id))
      /\ AlertView(id).job = View(id).job /\ AlertView(id).torrent = View(id).torrent
      /\ AlertView(id).events = View(id).events /\ AlertView(id).asleep = View(id).asleep
      /\ AlertView(id).alerts = Tail(View(id).alerts)
  BY <1>2 DEF AlertView, Given, Typed, IsView
<1> QED
  BY <1>1, <1>2, <1>3 DEF Taken, Due, TorrentOf

\* The handlers of alerts.
LEMMA HandlersKeep ==
    ASSUME Inv, NEW id,
           \/ MetadataReceived(id) \/ TorrentFinished(id) \/ CacheFlushedAlert(id)
           \/ SaveResumeData(id) \/ SaveResumeDataFailed(id)
           \/ ErrorAlert(id) \/ StateChanged(id)
    PROVE  Inv' /\ FinalStep
<1> DEFINE v == View(id)
           w == AlertView(id)
<1>1. CASE MetadataReceived(id)
  <2> DEFINE x == [w EXCEPT !.job.metadata_ready = TRUE]
             n == NotifyAll(
                    IF SelectionApplies(x)
                    THEN Enqueue(ApplySelection(x), id, Kind.metadata, "metadataReady")
                    ELSE Enqueue(Reject(ApplySelection(x)), id, Kind.invalid_selection,
                                 "invalidSelection"))
  <2>1. Due("metadata_received", id) /\ Handled(id, n)
    BY <1>1 DEF MetadataReceived
  <2>2. /\ id \in DOMAIN jobs /\ Given(v, id) /\ Taken(v, w)
        /\ Head(v.alerts).type = "metadata_received"
    BY <2>1, DueFacts
  <2>3. Kept(v, n)
    <3> HIDE DEF v, w
    <3> QED
      BY <2>2, MetadataReceivedKeeps
  <2> HIDE DEF n
  <2> QED
    BY <2>1, <2>2, <2>3, HandledKeeps
<1>2. CASE TorrentFinished(id)
  <2> DEFINE n == IF CompletionBegins(w)
                  THEN StartWaitingCompletion(
                          [w EXCEPT !.torrent = [w.torrent EXCEPT !.paused = TRUE],
                                    !.job     = [w.job EXCEPT !.completion_waiting = TRUE]])
                  ELSE w
  <2>1. Due("torrent_finished", id) /\ Handled(id, n)
    BY <1>2 DEF TorrentFinished
  <2>2. /\ id \in DOMAIN jobs /\ Given(v, id) /\ Taken(v, w)
        /\ Head(v.alerts).type = "torrent_finished"
    BY <2>1, DueFacts
  <2>3. Kept(v, n)
    <3> HIDE DEF v, w
    <3> QED
      BY <2>2, TorrentFinishedKeeps
  <2> HIDE DEF n
  <2> QED
    BY <2>1, <2>2, <2>3, HandledKeeps
<1>3. CASE CacheFlushedAlert(id)
  <2> DEFINE n == IF FlushDue(w.job.checkpoint.phase)
                  THEN [w EXCEPT !.job     = [w.job EXCEPT !.checkpoint.phase = CacheFlushed(@)],
                                 !.torrent = Asked(w.torrent, "save")]
                  ELSE w
  <2>1. Due("cache_flushed", id) /\ Handled(id, n)
    BY <1>3 DEF CacheFlushedAlert
  <2>2. /\ id \in DOMAIN jobs /\ Given(v, id) /\ Taken(v, w)
        /\ Head(v.alerts).type = "cache_flushed"
    BY <2>1, DueFacts
  <2>3. Kept(v, n)
    <3> HIDE DEF v, w
    <3> QED
      BY <2>2, CacheFlushedKeeps
  <2> HIDE DEF n
  <2> QED
    BY <2>1, <2>2, <2>3, HandledKeeps
<1>4. CASE SaveResumeData(id)
  <2> DEFINE x == [w EXCEPT !.job = Saved(w.job, Head(alerts).data)]
             n == IF SaveDue(w.job.checkpoint.phase) THEN FinishCheckpoint(x, id, TRUE) ELSE w
  <2>1. Due("save_resume_data", id) /\ Handled(id, n)
    BY <1>4 DEF SaveResumeData
  <2>2. /\ id \in DOMAIN jobs /\ Given(v, id) /\ Taken(v, w)
        /\ Head(v.alerts).type = "save_resume_data" /\ v.alerts = alerts
    BY <2>1, DueFacts
  <2>3. Kept(v, n)
    <3> HIDE DEF v, w
    <3>1. Kept(v, IF SaveDue(w.job.checkpoint.phase)
                  THEN FinishCheckpoint([w EXCEPT !.job = Saved(w.job, Head(v.alerts).data)], id, TRUE)
                  ELSE w)
      BY <2>2, SaveResumeDataKeeps
    <3> QED
      BY <2>2, <3>1
  <2> HIDE DEF n
  <2> QED
    BY <2>1, <2>2, <2>3, HandledKeeps
<1>5. CASE SaveResumeDataFailed(id)
  <2> DEFINE n == IF Pending(w.job.checkpoint.phase)
                  THEN FinishCheckpoint([w EXCEPT !.job.checkpoint.phase = Fail(@)], id, FALSE)
                  ELSE w
  <2>1. Due("save_resume_data_failed", id) /\ Handled(id, n)
    BY <1>5 DEF SaveResumeDataFailed
  <2>2. /\ id \in DOMAIN jobs /\ Given(v, id) /\ Taken(v, w)
        /\ Head(v.alerts).type = "save_resume_data_failed"
    BY <2>1, DueFacts
  <2>3. Kept(v, n)
    <3> HIDE DEF v, w
    <3> QED
      BY <2>2, SaveFailedKeeps
  <2> HIDE DEF n
  <2> QED
    BY <2>1, <2>2, <2>3, HandledKeeps
<1>6. CASE ErrorAlert(id)
  <2> DEFINE n == IF Pending(w.job.checkpoint.phase)
                  THEN [w EXCEPT !.job.checkpoint.error = TRUE]
                  ELSE Enqueue(w, id, Kind.error, "recoverable")
  <2>1. Due("error", id) /\ Handled(id, n)
    BY <1>6 DEF ErrorAlert
  <2>2. /\ id \in DOMAIN jobs /\ Given(v, id) /\ Taken(v, w)
        /\ Head(v.alerts).type = "error"
    BY <2>1, DueFacts
  <2>3. Kept(v, n)
    <3> HIDE DEF v, w
    <3> QED
      BY <2>2, ErrorKeeps
  <2> HIDE DEF n
  <2> QED
    BY <2>1, <2>2, <2>3, HandledKeeps
<1>7. CASE StateChanged(id)
  <2> DEFINE n == NotifyAll([w EXCEPT !.events = Status(w.events, id, "statusChanged")])
  <2>1. Due("state_changed", id) /\ Handled(id, n)
    BY <1>7 DEF StateChanged
  <2>2. /\ id \in DOMAIN jobs /\ Given(v, id) /\ Taken(v, w)
        /\ Head(v.alerts).type = "state_changed"
    BY <2>1, DueFacts
  <2>3. Kept(v, n)
    <3> HIDE DEF v, w
    <3> QED
      BY <2>2, StateChangedKeeps
  <2> HIDE DEF n
  <2> QED
    BY <2>1, <2>2, <2>3, HandledKeeps
<1> QED
  BY <1>1, <1>2, <1>3, <1>4, <1>5, <1>6, <1>7

\* The client's calls that touch one job and wait for nothing.
LEMMA CallsKeep ==
    ASSUME Inv, NEW c, NEW id,
           \/ Start(c, id) \/ Pause(c, id)
           \/ \E files \in Selections : SelectFiles(c, id, files) \/ SelectFilesRejected(c, id, files)
           \/ \E p \in Files, on \in BOOLEAN : SetPiecePriority(c, id, p, on)
           \/ \E f \in Files : UpdateStreamingWindow(c, id, f)
           \/ ClearStreamingWindow(c, id)
    PROVE  Inv' /\ FinalStep
<1> DEFINE v == View(id)
<1>1. id \in DOMAIN jobs
  BY DEF Start, Pause, SelectFiles, SelectFilesRejected, SetPiecePriority,
         UpdateStreamingWindow, ClearStreamingWindow, Active, MayReselect, HasPieces
<1>2. Given(v, id) /\ v.job = jobs[id] /\ v.torrent = TorrentOf(id)
  BY <1>1, ViewFacts
<1>3. CASE Start(c, id)
  <2>1. Handled(id, [v EXCEPT !.torrent.paused = FALSE])
    BY <1>3 DEF Start
  <2>2. Kept(v, [v EXCEPT !.torrent.paused = FALSE])
    <3> HIDE DEF v
    <3> QED
      BY <1>2, PausedKeeps
  <2> QED
    BY <1>1, <2>1, <2>2, HandledKeeps
<1>4. CASE Pause(c, id)
  <2>1. Handled(id, [v EXCEPT !.torrent.paused = TRUE])
    BY <1>4 DEF Pause
  <2>2. Kept(v, [v EXCEPT !.torrent.paused = TRUE])
    <3> HIDE DEF v
    <3> QED
      BY <1>2, PausedKeeps
  <2> QED
    BY <1>1, <2>1, <2>2, HandledKeeps
<1>5. ASSUME NEW files \in Selections, SelectFiles(c, id, files) \/ SelectFilesRejected(c, id, files)
      PROVE  Inv' /\ FinalStep
  <2> DEFINE x == [v EXCEPT !.job = [v.job EXCEPT !.desired = files, !.priorities = Unset,
                                                  !.pieces = Unset]]
  <2>1. x = Selected(id, files) /\ files \in SUBSET Indexes
    BY <1>2, SelectionsAssumption DEF Selected
  <2>2. /\ ~v.job.completion_checkpoint /\ ~v.job.completion_waiting
        /\ Handled(id, x) \/ Handled(id, ApplySelection(x))
    BY <1>2, <1>5, <2>1 DEF SelectFiles, SelectFilesRejected, MayReselect
  <2>3. Kept(v, x) /\ Kept(v, ApplySelection(x))
    <3> HIDE DEF v
    <3> QED
      BY <1>2, <2>1, <2>2, SelectFilesKeeps
  <2> QED
    BY <1>1, <2>2, <2>3, HandledKeeps
<1>6. ASSUME NEW p \in Files, NEW on \in BOOLEAN, SetPiecePriority(c, id, p, on)
      PROVE  Inv' /\ FinalStep
  <2> DEFINE held   == IF v.job.pieces # Unset THEN v.job.pieces ELSE v.torrent.wanted
             kept   == Toggled(held, p, on)
             wanted == Toggled(v.torrent.wanted, p, on)
  <2>1. /\ v.torrent.metadata
        /\ Handled(id, PrioritizePieces([v EXCEPT !.job.pieces = kept], wanted))
    BY <1>2, <1>6 DEF SetPiecePriority, HasPieces, TorrentOf
  <2>2. kept \in SUBSET Files /\ wanted \in SUBSET Files
    <3> HIDE DEF v
    <3>1. v.torrent.wanted \in SUBSET Files /\ v.job.pieces \in {Unset} \cup SUBSET Files
      BY <1>2 DEF Given, Typed, SessionJob, Torrent
    <3>2. held \in SUBSET Files
      BY <3>1
    <3> HIDE DEF held
    <3> QED
      BY <3>1, <3>2 DEF Toggled
  <2>3. Kept(v, PrioritizePieces([v EXCEPT !.job.pieces = kept], wanted))
    <3> HIDE DEF v, kept, wanted
    <3> QED
      BY <1>2, <2>1, <2>2, SetPieceKeeps
  <2> QED
    BY <1>1, <2>1, <2>3, HandledKeeps
<1>7. ASSUME NEW f \in Files, UpdateStreamingWindow(c, id, f) PROVE Inv' /\ FinalStep
  <2>1. v.torrent.metadata /\ Handled(id, Raised(v, f))
    BY <1>2, <1>7 DEF UpdateStreamingWindow, HasPieces, TorrentOf
  <2>2. Kept(v, Raised(v, f))
    <3> HIDE DEF v
    <3> QED
      BY <1>2, <2>1, WindowKeeps
  <2> QED
    BY <1>1, <2>1, <2>2, HandledKeeps
<1>8. CASE ClearStreamingWindow(c, id)
  <2>1. v.torrent.metadata /\ Handled(id, ApplySelection(v)) /\ 1 \in Files
    BY <1>2, <1>8, NAssumption DEF ClearStreamingWindow, HasPieces, TorrentOf, Files
  <2>2. Kept(v, ApplySelection(v))
    <3> HIDE DEF v
    <3> QED
      BY <1>2, <2>1, WindowKeeps
  <2> QED
    BY <1>1, <2>1, <2>2, HandledKeeps
<1> QED
  BY <1>3, <1>4, <1>5, <1>6, <1>7, <1>8

----------------------------------------------------------------------------
(* Waits, and the reader.                                                    *)

\* A step that touches no job, torrent or alert.
LEMMA WaitKeeps ==
    ASSUME Inv, UNCHANGED <<jobs, engine, alerts>>,
           MailboxInv(events'), LiveIds(events') = LiveIds(events),
           calls' \in [Threads -> Call], asleep' \subseteq Threads,
           \A c \in Threads : calls[c].op = "checkpoint" \/ calls'[c].op = "checkpoint" =>
              /\ calls'[c].op = calls[c].op /\ calls'[c].id = calls[c].id
              /\ calls'[c].need = calls[c].need,
           CallsKnown', NoLostWakeup',
           alert_thread' \in {"running", "joined", "terminated"},
           faults' \in 0..MaxFaults, wakes' \in 0..MaxWakes
    PROVE  Inv' /\ FinalStep
<1>1. TypeOK'
  BY DEF Inv, TypeOK, MailboxInv
<1>2. MailboxMirrorsJobs' /\ HandlesKnown'
  BY DEF Inv, MailboxMirrorsJobs, HandlesKnown
<1>3. ActiveHasCaller'
  BY DEF Inv, ActiveHasCaller, Threads
<1>4. \A id \in DOMAIN jobs' : JobInv(jobs'[id], TorrentOf(id)', alerts')
  BY DEF Inv, TorrentOf
<1>5. RequestsCovered'
  BY DEF Inv, RequestsCovered, TorrentOf, Threads
<1>6. FinalStep
  BY DEF FinalStep
<1> QED
  BY <1>1, <1>2, <1>3, <1>4, <1>5, <1>6 DEF Inv

\* A call that waits for nothing.
LEMMA NoCallFacts ==
    /\ NoCall \in Call /\ NoCall.op = "none"
    /\ NoCall.interrupted = FALSE /\ NoCall.id = NoStatus
  BY NAssumption DEF NoCall, Call

\* A thread that begins to wait and has nothing to return for, or sleeps again.
LEMMA SleepKeeps ==
    ASSUME Inv, NEW c \in Threads, NEW call \in Call,
           calls' = [calls EXCEPT ![c] = call], asleep' = asleep \cup {c},
           UNCHANGED <<jobs, events, engine, alerts, alert_thread, faults, wakes>>,
           \/ /\ calls[c].op = "none"
              /\ \/ call.op = "metadata" /\ c \in Callers /\ call.id \in Ids
                 \/ call.op = "next_event" /\ c = Reader
           \/ call = calls[c] /\ call.op # "none",
           ~Predicate(c)'
    PROVE  Inv' /\ FinalStep
<1>1. /\ calls'[c] = call /\ calls' \in [Threads -> Call]
      /\ \A d \in Threads : d # c => calls'[d] = calls[d]
  BY DEF Inv, TypeOK
<1>2. MailboxInv(events') /\ LiveIds(events') = LiveIds(events) /\ asleep' \subseteq Threads
  BY DEF Inv, TypeOK
<1>3. \A d \in Threads : calls[d].op = "checkpoint" \/ calls'[d].op = "checkpoint" =>
              /\ calls'[d].op = calls[d].op /\ calls'[d].id = calls[d].id
              /\ calls'[d].need = calls[d].need
  BY <1>1
<1>4. CallsKnown'
  <2>1. \A d \in asleep' : ~Free(d)'
    BY <1>1 DEF Inv, TypeOK, CallsKnown, Free
  <2>2. \A d \in Callers : d \in Threads
    BY DEF Threads
  <2>3. ASSUME NEW d \in Threads
        PROVE  /\ calls'[d].op \in {"metadata", "checkpoint"} => d \in Callers /\ calls'[d].id \in Ids
               /\ calls'[d].op = "next_event" => d = Reader
    BY <1>1, <2>3 DEF Inv, CallsKnown
  <2>4. ASSUME NEW d \in Threads, calls'[d].op = "checkpoint"
        PROVE  /\ calls'[d].id \in DOMAIN jobs'
               /\ \A e \in Callers :
                     calls'[e].op = "checkpoint" /\ calls'[e].id = calls'[d].id => e = d
    BY <1>3, <2>2, <2>4 DEF Inv, CallsKnown
  <2> QED
    BY <2>1, <2>3, <2>4 DEF CallsKnown
<1>5. NoLostWakeup'
  <2> SUFFICES ASSUME NEW d \in asleep, d # c PROVE ~Predicate(d)'
    BY DEF NoLostWakeup
  <2>1. calls'[d] = calls[d] /\ ~Predicate(d)
    BY <1>1 DEF Inv, TypeOK, NoLostWakeup
  <2> QED
    BY <2>1 DEF Predicate, MetadataPredicate, CheckpointPredicate, NextEventPredicate
<1>6. /\ alert_thread' \in {"running", "joined", "terminated"}
      /\ faults' \in 0..MaxFaults /\ wakes' \in 0..MaxWakes
  BY DEF Inv, TypeOK
<1> QED
  BY <1>1, <1>2, <1>3, <1>4, <1>5, <1>6, WaitKeeps

\* A thread that returns from a wait other than a checkpoint, or that did not
\* wait, may take an event with it.
LEMMA ReturnKeeps ==
    ASSUME Inv, NEW c \in Threads, calls[c].op # "checkpoint",
           calls' = [calls EXCEPT ![c] = NoCall], asleep' = asleep \ {c},
           MailboxInv(events'), LiveIds(events') = LiveIds(events),
           events' # events => c = Reader,
           UNCHANGED <<jobs, engine, alerts, alert_thread, faults, wakes>>
    PROVE  Inv' /\ FinalStep
<1>1. /\ calls'[c] = NoCall /\ calls' \in [Threads -> Call]
      /\ \A d \in Threads : d # c => calls'[d] = calls[d]
  BY NoCallFacts DEF Inv, TypeOK
<1>2. asleep' \subseteq Threads /\ \A d \in asleep' : d \in asleep /\ d # c
  BY DEF Inv, TypeOK
<1>3. \A d \in Threads : calls[d].op = "checkpoint" \/ calls'[d].op = "checkpoint" =>
              /\ calls'[d].op = calls[d].op /\ calls'[d].id = calls[d].id
              /\ calls'[d].need = calls[d].need
  BY <1>1, NoCallFacts
<1>4. CallsKnown'
  <2>1. \A d \in asleep' : ~Free(d)'
    BY <1>1, <1>2 DEF Inv, TypeOK, CallsKnown, Free
  <2>2. \A d \in Callers : d \in Threads
    BY DEF Threads
  <2>3. ASSUME NEW d \in Threads
        PROVE  /\ calls'[d].op \in {"metadata", "checkpoint"} => d \in Callers /\ calls'[d].id \in Ids
               /\ calls'[d].op = "next_event" => d = Reader
    BY <1>1, <2>3, NoCallFacts DEF Inv, CallsKnown
  <2>4. ASSUME NEW d \in Threads, calls'[d].op = "checkpoint"
        PROVE  /\ calls'[d].id \in DOMAIN jobs'
               /\ \A e \in Callers :
                     calls'[e].op = "checkpoint" /\ calls'[e].id = calls'[d].id => e = d
    BY <1>3, <2>2, <2>4 DEF Inv, CallsKnown
  <2> QED
    BY <2>1, <2>3, <2>4 DEF CallsKnown
<1>5. NoLostWakeup'
  <2> SUFFICES ASSUME NEW d \in asleep' PROVE ~Predicate(d)'
    BY DEF NoLostWakeup
  <2>1. calls'[d] = calls[d] /\ ~Predicate(d) /\ d \in Threads /\ d # c
    BY <1>1, <1>2 DEF Inv, TypeOK, NoLostWakeup
  <2>2. calls[d].op = "next_event" => events' = events
    BY <2>1 DEF Inv, CallsKnown
  <2> QED
    BY <2>1, <2>2 DEF Predicate, MetadataPredicate, CheckpointPredicate, NextEventPredicate
<1>6. /\ alert_thread' \in {"running", "joined", "terminated"}
      /\ faults' \in 0..MaxFaults /\ wakes' \in 0..MaxWakes
  BY DEF Inv, TypeOK
<1> QED
  BY <1>1, <1>2, <1>3, <1>4, <1>5, <1>6, WaitKeeps

\* An event is taken from the mailbox.
LEMMA DeliverKeeps ==
    ASSUME Inv, Deliver
    PROVE  MailboxInv(events') /\ LiveIds(events') = LiveIds(events)
<1>1. MailboxInv(events) /\ MailboxType(events)
  BY DEF Inv, MailboxInv
<1>2. CASE FrontIsCritical(events) /\ events' = PopCritical(events)
  BY <1>1, <1>2, PopCriticalKeeps, PopCriticalLive DEF FrontIsCritical
<1>3. CASE \E id \in StatusIds(events) : events' = PopStatus(events, id)
  BY <1>1, <1>3, PopStatusKeeps, SetStatusLive DEF PopStatus, StatusIds
<1> QED
  BY <1>2, <1>3 DEF Deliver

\* ltkit_session_next_event.
LEMMA NextEventKeeps ==
    ASSUME Inv, NextEvent \/ NextEventReturn
    PROVE  Inv' /\ FinalStep
<1>1. Reader \in Threads /\ calls \in [Threads -> Call] /\ MailboxInv(events)
  BY DEF Threads, Inv, TypeOK
<1>2. CASE NextEventReturn
  <2>1. MailboxInv(events') /\ LiveIds(events') = LiveIds(events)
    BY <1>1, <1>2, DeliverKeeps DEF NextEventReturn
  <2> QED
    BY <1>1, <1>2, <2>1, ReturnKeeps DEF NextEventReturn
<1>3. CASE NextEvent /\ Deliver /\ UNCHANGED <<calls, asleep>>
  <2>1. MailboxInv(events') /\ LiveIds(events') = LiveIds(events)
    BY <1>3, DeliverKeeps
  <2>2. Free(Reader)
    BY <1>3 DEF NextEvent
  <2>3. CallsKnown'
    BY <1>3 DEF NextEvent, Inv, CallsKnown, Free
  <2>4. NoLostWakeup'
    <3> SUFFICES ASSUME NEW d \in asleep' PROVE ~Predicate(d)'
      BY DEF NoLostWakeup
    <3>1. ~Predicate(d) /\ d \in Threads /\ d # Reader /\ calls' = calls
      BY <1>3, <2>2 DEF Inv, TypeOK, NoLostWakeup, CallsKnown
    <3>2. calls[d].op # "next_event"
      BY <3>1 DEF Inv, CallsKnown
    <3> QED
      BY <1>3, <3>1, <3>2 DEF Predicate, MetadataPredicate, CheckpointPredicate, NextEvent
  <2>5. /\ calls' \in [Threads -> Call] /\ asleep' \subseteq Threads
        /\ alert_thread' \in {"running", "joined", "terminated"}
        /\ faults' \in 0..MaxFaults /\ wakes' \in 0..MaxWakes
        /\ UNCHANGED <<jobs, engine, alerts, calls>>
    BY <1>3 DEF NextEvent, Inv, TypeOK
  <2> QED
    BY <2>1, <2>3, <2>4, <2>5, WaitKeeps
<1>4. CASE /\ NextEvent /\ ~HasFront(events)
           /\ calls'  = [calls EXCEPT ![Reader] = [NoCall EXCEPT !.op = "next_event"]]
           /\ asleep' = asleep \cup {Reader}
           /\ UNCHANGED events
  <2> DEFINE call == [NoCall EXCEPT !.op = "next_event"]
  <2>1. call \in Call /\ call.op = "next_event" /\ call.interrupted = FALSE
    BY NoCallFacts DEF Call
  <2>2. calls[Reader].op = "none"
    BY <1>4 DEF NextEvent, Free
  <2> HIDE DEF call
  <2>3. calls'[Reader] = call
    BY <1>1, <1>4 DEF call
  <2>4. ~Predicate(Reader)'
    BY <1>4, <2>1, <2>3 DEF Predicate, NextEventPredicate
  <2> QED
    BY <1>1, <1>4, <2>1, <2>2, <2>4, SleepKeeps DEF NextEvent, call
<1> QED
  BY <1>2, <1>3, <1>4 DEF NextEvent

\* A notified thread that finds nothing sleeps again.
LEMMA ResleepKeeps ==
    ASSUME Inv, NEW c \in Threads, Resleep(c)
    PROVE  Inv' /\ FinalStep
<1>1. calls[c] \in Call /\ calls' = [calls EXCEPT ![c] = calls[c]] /\ calls[c].op # "none"
  BY DEF Resleep, Inv, TypeOK, Free
<1>2. ~Predicate(c)'
  BY DEF Resleep, Predicate, MetadataPredicate, CheckpointPredicate, NextEventPredicate
<1> QED
  BY <1>1, <1>2, SleepKeeps DEF Resleep

\* ltkit_session_wake.
LEMMA WakeKeeps ==
    ASSUME Inv, Wake
    PROVE  Inv' /\ FinalStep
<1>1. ASSUME NEW c \in Threads
      PROVE  /\ calls'[c] = [calls[c] EXCEPT !.interrupted = calls[c].op # "none"]
             /\ calls'[c] \in Call
             /\ calls'[c].op = calls[c].op /\ calls'[c].id = calls[c].id
             /\ calls'[c].need = calls[c].need
  <2>1. calls[c] \in Call /\ (calls[c].op # "none") \in BOOLEAN
    BY DEF Inv, TypeOK
  <2>2. calls'[c] = [calls[c] EXCEPT !.interrupted = calls[c].op # "none"]
    BY DEF Wake
  <2> QED
    BY <2>1, <2>2 DEF Call
<1>2. calls' \in [Threads -> Call]
  <2>1. calls' = [c \in Threads |-> calls'[c]]
    BY DEF Wake
  <2> QED
    BY <1>1, <2>1
<1>3. CallsKnown'
  <2>1. asleep' = {} /\ jobs' = jobs /\ \A c \in Callers : c \in Threads
    BY DEF Wake, Threads
  <2>2. \A c \in Threads : calls'[c].op = calls[c].op /\ calls'[c].id = calls[c].id
    BY <1>1
  <2>3. ASSUME NEW c \in Threads
        PROVE  /\ calls'[c].op \in {"metadata", "checkpoint"} => c \in Callers /\ calls'[c].id \in Ids
               /\ calls'[c].op = "next_event" => c = Reader
    BY <2>2, <2>3 DEF Inv, CallsKnown
  <2>4. ASSUME NEW c \in Threads, calls'[c].op = "checkpoint"
        PROVE  /\ calls'[c].id \in DOMAIN jobs'
               /\ \A d \in Callers :
                     calls'[d].op = "checkpoint" /\ calls'[d].id = calls'[c].id => d = c
    BY <2>1, <2>2, <2>4 DEF Inv, CallsKnown
  <2> QED
    BY <2>1, <2>3, <2>4 DEF CallsKnown
<1>4. NoLostWakeup' /\ asleep' \subseteq Threads
  BY DEF NoLostWakeup, Wake
<1>5. /\ alert_thread' \in {"running", "joined", "terminated"}
      /\ faults' \in 0..MaxFaults /\ wakes' \in 0..MaxWakes
      /\ MailboxInv(events') /\ LiveIds(events') = LiveIds(events)
      /\ UNCHANGED <<jobs, engine, alerts>>
  BY BoundAssumption DEF Wake, Inv, TypeOK
<1> QED
  BY <1>1, <1>2, <1>3, <1>4, <1>5, WaitKeeps

\* ltkit_session_metadata: it waits, or stops an unsafe torrent at once.
LEMMA MetadataKeeps ==
    ASSUME Inv, NEW c \in Callers, NEW id, Metadata(c, id)
    PROVE  Inv' /\ FinalStep
<1>1. /\ id \in DOMAIN jobs /\ id \in Ids /\ c \in Threads /\ ~jobs[id].stopped
      /\ calls[c].op = "none"
  BY DEF Metadata, Active, Free, Threads, Inv, TypeOK
<1>2. CASE /\ ~jobs[id].metadata_ready
           /\ calls'  = [calls EXCEPT ![c] = [NoCall EXCEPT !.op = "metadata", !.id = id]]
           /\ asleep' = asleep \cup {c}
           /\ UNCHANGED <<jobs, events, engine, alerts, alert_thread, faults, wakes>>
  <2> DEFINE call == [NoCall EXCEPT !.op = "metadata", !.id = id]
  <2>1. call \in Call /\ call.op = "metadata" /\ call.id = id /\ call.interrupted = FALSE
    BY <1>1, NoCallFacts DEF Call
  <2> HIDE DEF call
  <2>2. calls'[c] = call
    BY <1>1, <1>2 DEF Inv, TypeOK, call
  <2>3. ~Predicate(c)'
    BY <1>1, <1>2, <2>1, <2>2 DEF Predicate, MetadataPredicate
  <2> QED
    BY <1>1, <1>2, <2>1, <2>3, SleepKeeps DEF call
<1>3. CASE jobs[id].metadata_ready /\ MetadataRejected(id) /\ Handled(id, Reject(View(id)))
  <2>1. Given(View(id), id) /\ View(id).job = jobs[id]
    BY <1>1, ViewFacts
  <2>2. Kept(View(id), Reject(View(id)))
    BY <1>1, <1>3, <2>1, UnsafeKeeps DEF MetadataRejected
  <2> QED
    BY <1>1, <1>3, <2>2, HandledKeeps
<1> QED
  BY <1>2, <1>3 DEF Metadata

\* Its return.
LEMMA MetadataReturnKeeps ==
    ASSUME Inv, NEW c \in Callers, MetadataReturn(c)
    PROVE  Inv' /\ FinalStep
<1> DEFINE id   == calls[c].id
           stop == MetadataPredicate(c) /\ ~calls[c].interrupted /\ MetadataRejected(id)
           v    == View(id)
           n    == Reject(v)
<1>1. /\ calls[c].op = "metadata" /\ c \in Threads
      /\ calls' = [calls EXCEPT ![c] = NoCall] /\ asleep' = asleep \ {c}
      /\ UNCHANGED <<events, alerts, alert_thread, faults, wakes>>
      /\ jobs'   = IF stop THEN [jobs EXCEPT ![id] = n.job] ELSE jobs
      /\ engine' = IF stop THEN [engine EXCEPT ![jobs[id].handle] = n.torrent] ELSE engine
  BY DEF MetadataReturn, Threads
<1>2. CASE ~stop
  <2>1. MailboxInv(events') /\ LiveIds(events') = LiveIds(events)
    BY <1>1 DEF Inv
  <2> HIDE DEF stop, n
  <2> QED
    BY <1>1, <1>2, <2>1, ReturnKeeps
<1>3. CASE stop
  <2>1. id \in DOMAIN jobs /\ ~jobs[id].stopped /\ jobs[id].metadata_ready /\ ~MetadataSafe(v)
    BY <1>3 DEF MetadataRejected, Active, MetadataPredicate
  <2>2. /\ Given(v, id) /\ v.job = jobs[id]
        /\ v.events = events /\ v.alerts = alerts /\ v.asleep = asleep
    BY <2>1, ViewFacts
  <2>3. Kept(v, n) /\ SameQueues(v, n)
    <3> HIDE DEF v
    <3> QED
      BY <2>1, <2>2, UnsafeKeeps
  <2>4. CallsLeft
    BY <1>1, NoCallFacts DEF CallsLeft, Inv, TypeOK
  <2>5. /\ events' = n.events /\ alerts' = n.alerts /\ asleep' \subseteq n.asleep
    BY <1>1, <2>2, <2>3 DEF SameQueues
  <2>6. /\ jobs' = [jobs EXCEPT ![id] = n.job]
        /\ engine' = [engine EXCEPT ![jobs[id].handle] = n.torrent]
        /\ UNCHANGED <<alert_thread, faults, wakes>>
    BY <1>1, <1>3
  <2> HIDE DEF n, stop
  <2> QED
    BY <2>1, <2>3, <2>4, <2>5, <2>6, CommitKeeps
<1> QED
  BY <1>2, <1>3

----------------------------------------------------------------------------
(* The checkpoint slot.                                                      *)

\* A caller takes the slot, or gives it up.
LEMMA SlotKeeps ==
    ASSUME Inv, NEW id \in DOMAIN jobs, NEW c \in Callers, NEW call \in Call,
           NEW job \in SessionJob, NEW torrent \in Torrent, JobInv(job, torrent, alerts),
           job.handle = jobs[id].handle, job.metadata_ready = jobs[id].metadata_ready,
           job.stopped = jobs[id].stopped, job.final = jobs[id].final,
           jobs' = [jobs EXCEPT ![id] = job],
           engine' = [engine EXCEPT ![jobs[id].handle] = torrent],
           calls' = [calls EXCEPT ![c] = call],
           UNCHANGED <<events, alerts, alert_thread, faults, wakes>>,
           \/ /\ calls[c].op = "none" /\ ~jobs[id].checkpoint.active
              /\ job.checkpoint.active /\ ~job.checkpoint.done
              /\ call.op = "checkpoint" /\ call.id = id /\ ~call.interrupted
              /\ Covers(job, torrent, alerts, call.need)
              /\ asleep' = asleep \cup {c}
           \/ /\ calls[c].op = "checkpoint" /\ calls[c].id = id
              /\ ~job.checkpoint.active
              /\ call = NoCall
              /\ asleep' = asleep \ {c}
    PROVE  Inv' /\ FinalStep
<1> DEFINE h     == jobs[id].handle
           takes == call.op = "checkpoint"
<1>1. /\ h \in DOMAIN engine /\ id \in Ids /\ c \in Threads /\ c # Reader
      /\ \A d \in Callers : d \in Threads
  BY ReaderAssumption DEF Inv, HandlesKnown, TypeOK, Threads
<1>2. /\ DOMAIN jobs' = DOMAIN jobs /\ jobs'[id] = job
      /\ \A j \in DOMAIN jobs : j # id => jobs'[j] = jobs[j]
  BY DEF Inv, TypeOK
<1>3. /\ DOMAIN engine' = DOMAIN engine /\ engine'[h] = torrent
      /\ \A g \in DOMAIN engine : g # h => engine'[g] = engine[g]
  BY <1>1 DEF Inv, TypeOK
<1>4. /\ calls' \in [Threads -> Call] /\ calls'[c] = call
      /\ \A d \in Threads : d # c => calls'[d] = calls[d]
  BY <1>1 DEF Inv, TypeOK
<1>5. \A d \in Callers : d # c /\ calls[d].op = "checkpoint" => calls[d].id # id
  <2>1. CASE calls[c].op = "checkpoint" /\ calls[c].id = id
    BY <1>1, <2>1 DEF Inv, CallsKnown
  <2>2. CASE ~jobs[id].checkpoint.active
    BY <2>2 DEF Inv, ActiveHasCaller
  <2> QED
    BY <2>1, <2>2
<1>6. TypeOK'
  <2>1. jobs' \in [DOMAIN jobs' -> SessionJob]
    BY <1>2 DEF Inv, TypeOK
  <2>2. engine' \in [DOMAIN engine' -> Torrent]
    BY <1>3 DEF Inv, TypeOK
  <2>3. asleep' \subseteq Threads
    BY <1>1 DEF Inv, TypeOK
  <2> QED
    BY <1>2, <1>3, <1>4, <2>1, <2>2, <2>3 DEF Inv, TypeOK
<1>7. MailboxInv(events') /\ MailboxMirrorsJobs'
  BY <1>2 DEF Inv, MailboxMirrorsJobs
<1>8. \A j \in DOMAIN jobs : jobs'[j].handle = jobs[j].handle
  BY <1>2
<1>9. HandlesKnown'
  BY <1>2, <1>3, <1>8 DEF Inv, HandlesKnown
<1>10. CallsKnown'
  <2>1. \A d \in asleep' : ~Free(d)'
    <3>1. ASSUME NEW d \in asleep', d # c PROVE calls'[d].op # "none"
      <4>1. d \in asleep /\ d \in Threads
        BY <3>1 DEF Inv, TypeOK
      <4> QED
        BY <1>4, <3>1, <4>1 DEF Inv, CallsKnown, Free
    <3>2. c \in asleep' => calls'[c].op # "none"
      BY <1>4
    <3> QED
      BY <3>1, <3>2 DEF Free
  <2>2. ASSUME NEW d \in Threads
        PROVE  /\ calls'[d].op \in {"metadata", "checkpoint"} => d \in Callers /\ calls'[d].id \in Ids
               /\ calls'[d].op = "next_event" => d = Reader
    BY <1>1, <1>4, <2>2, NoCallFacts DEF Inv, CallsKnown
  <2>3. ASSUME NEW d \in Threads, calls'[d].op = "checkpoint"
        PROVE  /\ calls'[d].id \in DOMAIN jobs'
               /\ \A e \in Callers :
                     calls'[e].op = "checkpoint" /\ calls'[e].id = calls'[d].id => e = d
    <3>0. d \in Callers
      BY <2>2, <2>3
    <3>1. CASE d = c
      <4>1. call.id = id /\ call.op = "checkpoint"
        BY <1>4, <2>3, <3>1, NoCallFacts
      <4> QED
        BY <1>1, <1>2, <1>4, <1>5, <3>1, <4>1
    <3>2. CASE d # c
      <4>1. calls'[d] = calls[d] /\ calls[d].id # id /\ calls[d].id \in DOMAIN jobs
        BY <1>4, <1>5, <2>3, <3>0, <3>2 DEF Inv, CallsKnown
      <4>2. ASSUME NEW e \in Callers, calls'[e].op = "checkpoint", calls'[e].id = calls'[d].id
            PROVE  e = d
        <5>1. e # c
          BY <1>4, <4>1, <4>2, NoCallFacts
        <5> QED
          BY <1>1, <1>4, <2>3, <4>1, <4>2, <5>1 DEF Inv, CallsKnown
      <4> QED
        BY <1>2, <4>1, <4>2
    <3> QED
      BY <3>1, <3>2
  <2> QED
    BY <2>1, <2>2, <2>3 DEF CallsKnown
<1>11. ActiveHasCaller'
  <2> SUFFICES ASSUME NEW j \in DOMAIN jobs
               PROVE  jobs'[j].checkpoint.active <=>
                        \E d \in Callers : calls'[d].op = "checkpoint" /\ calls'[d].id = j
    BY <1>2 DEF ActiveHasCaller
  <2>1. CASE j = id
    BY <1>1, <1>2, <1>4, <1>5, <2>1, NoCallFacts
  <2>2. CASE j # id
    <3>1. \A d \in Callers : calls'[d].op = "checkpoint" /\ calls'[d].id = j <=>
                             calls[d].op = "checkpoint" /\ calls[d].id = j
      BY <1>1, <1>4, <2>2, NoCallFacts
    <3>2. jobs[j].checkpoint.active <=>
             \E d \in Callers : calls[d].op = "checkpoint" /\ calls[d].id = j
      BY DEF Inv, ActiveHasCaller
    <3> QED
      BY <1>2, <2>2, <3>1, <3>2
  <2> QED
    BY <2>1, <2>2
<1>12. NoLostWakeup'
  <2>1. ASSUME NEW d \in asleep', d # c PROVE ~Predicate(d)'
    <3>1. /\ d \in asleep /\ d \in Threads /\ calls'[d] = calls[d] /\ ~Predicate(d)
      BY <1>4, <2>1 DEF Inv, TypeOK, NoLostWakeup
    <3>2. calls[d].op = "checkpoint" => calls[d].id # id
      BY <1>5, <2>1, <3>1 DEF Inv, CallsKnown
    <3> QED
      BY <1>2, <3>1, <3>2
         DEF Predicate, MetadataPredicate, CheckpointPredicate, NextEventPredicate
  <2>2. c \in asleep' => ~Predicate(c)'
    <3>1. ASSUME c \in asleep'
          PROVE  /\ call.op = "checkpoint" /\ call.id = id /\ ~call.interrupted
                 /\ ~job.checkpoint.done
      BY <3>1
    <3> QED
      BY <1>2, <1>4, <3>1 DEF Predicate, CheckpointPredicate
  <2> QED
    BY <2>1, <2>2 DEF NoLostWakeup
<1>13. \A j \in DOMAIN jobs : j # id =>
          jobs[j].handle # h /\ engine'[jobs[j].handle] = engine[jobs[j].handle]
  BY <1>3 DEF Inv, HandlesKnown
<1>14. \A j \in DOMAIN jobs' : JobInv(jobs'[j], TorrentOf(j)', alerts')
  BY <1>2, <1>3, <1>13 DEF Inv, TorrentOf
<1>15. RequestsCovered'
  <2> SUFFICES ASSUME NEW d \in Callers, calls'[d].op = "checkpoint"
               PROVE  Covers(jobs'[calls'[d].id], engine'[jobs'[calls'[d].id].handle],
                             alerts, calls'[d].need)
    BY DEF RequestsCovered, TorrentOf
  <2>1. CASE d = c
    <3>1. calls'[c] = call /\ call.id = id /\ Covers(job, torrent, alerts, call.need)
      BY <1>4, <2>1, NoCallFacts
    <3> QED
      BY <1>2, <1>3, <2>1, <3>1
  <2>2. CASE d # c
    <3>1. calls'[d] = calls[d] /\ calls[d].id # id /\ calls[d].id \in DOMAIN jobs
      BY <1>1, <1>4, <1>5, <2>2 DEF Inv, CallsKnown
    <3>2. Covers(jobs[calls[d].id], engine[jobs[calls[d].id].handle], alerts, calls[d].need)
      BY <3>1 DEF Inv, RequestsCovered, TorrentOf
    <3> QED
      BY <1>2, <1>13, <3>1, <3>2
  <2> QED
    BY <2>1, <2>2
<1>16. FinalStep
  BY <1>2 DEF FinalStep
<1> QED
  BY <1>6, <1>7, <1>9, <1>10, <1>11, <1>12, <1>14, <1>15, <1>16 DEF Inv

\* What a caller that takes the free slot asks for.
LEMMA TakenSlot ==
    ASSUME NEW v, NEW id, Given(v, id), ~v.job.stopped, NEW flush \in BOOLEAN,
           Idle(v.job.checkpoint.phase), ~v.job.completion_checkpoint
    PROVE  LET fresh == [v EXCEPT !.job.checkpoint = [NewCheckpoint EXCEPT !.active = TRUE]]
               n     == StartCheckpoint(fresh, flush)
           IN  /\ Typed(n) /\ SameQueues(v, n) /\ SameIdentity(v.job, n.job)
               /\ n.job.stopped = v.job.stopped /\ n.job.final = v.job.final
               /\ n.job.checkpoint.active /\ ~n.job.checkpoint.done
               /\ JobInv(n.job, n.torrent, n.alerts)
               /\ Covers(n.job, n.torrent, n.alerts, IF flush THEN v.torrent.written ELSE {})
<1> DEFINE slot       == [NewCheckpoint EXCEPT !.active = TRUE]
           job        == [v.job EXCEPT !.checkpoint = slot]
           fresh      == [v EXCEPT !.job.checkpoint = slot]
           phase      == IF flush THEN "flushing" ELSE "saving"
           request    == IF flush THEN "flush" ELSE "save"
           checkpoint == [slot EXCEPT !.phase = phase]
           requests   == Append(v.torrent.requests, request)
           n          == StartCheckpoint(fresh, flush)
<1>1. Typed(v) /\ IsView(v) /\ v.job \in SessionJob /\ v.torrent \in Torrent
  BY DEF Given, Typed
<1>2. /\ slot \in Checkpoint /\ slot.phase = "idle" /\ slot.active = TRUE
      /\ slot.done = FALSE /\ slot.error = FALSE
  BY NewCheckpointFacts DEF Checkpoint
<1> HIDE DEF slot
<1>3. /\ job \in SessionJob /\ SameIdentity(v.job, job) /\ job.checkpoint = slot
      /\ job.completion_waiting = v.job.completion_waiting
      /\ job.completion_checkpoint = v.job.completion_checkpoint
      /\ job.stopped = v.job.stopped /\ job.final = v.job.final
  BY <1>1, <1>2 DEF SessionJob, SameIdentity
<1>4. fresh = [v EXCEPT !.job = job]
  OBVIOUS
<1> HIDE DEF job, fresh
<1>5. IsView(fresh) /\ fresh.job = job /\ fresh.torrent = v.torrent /\ SameQueues(v, fresh)
  BY <1>1, <1>4 DEF IsView, SameQueues
<1>6. /\ IsView(n) /\ SameQueues(fresh, n) /\ n.job \in SessionJob /\ n.torrent \in Torrent
      /\ n.job = [fresh.job EXCEPT !.checkpoint = [fresh.job.checkpoint EXCEPT !.phase = phase]]
      /\ n.torrent = [fresh.torrent EXCEPT !.requests = Append(fresh.torrent.requests, request)]
  <2>1. fresh.job \in SessionJob /\ fresh.torrent \in Torrent /\ Idle(fresh.job.checkpoint.phase)
    BY <1>1, <1>2, <1>3, <1>5 DEF Idle
  <2> QED
    BY <1>5, <2>1, StartCheckpointEffect
<1> HIDE DEF n
<1>7. n.job = [job EXCEPT !.checkpoint = checkpoint] /\ n.torrent = [v.torrent EXCEPT !.requests = requests]
  BY <1>3, <1>5, <1>6
<1>8. /\ checkpoint.phase = phase /\ checkpoint.active = TRUE
      /\ checkpoint.done = FALSE /\ checkpoint.error = FALSE
  BY <1>2 DEF Checkpoint
<1> HIDE DEF checkpoint
<1>9. /\ n.job.checkpoint = checkpoint /\ SameIdentity(v.job, n.job)
      /\ n.job.completion_waiting = v.job.completion_waiting
      /\ n.job.completion_checkpoint = v.job.completion_checkpoint
      /\ n.job.stopped = v.job.stopped /\ n.job.final = v.job.final
  BY <1>3, <1>7 DEF SessionJob, SameIdentity
<1> HIDE DEF requests
<1>10. /\ n.torrent.requests = requests /\ n.torrent.life = v.torrent.life
       /\ SamePayload(v.torrent, n.torrent)
  BY <1>1, <1>7 DEF Torrent, SamePayload
<1>11. n.events = v.events /\ n.alerts = v.alerts /\ n.asleep = v.asleep /\ Typed(n)
  BY <1>1, <1>5, <1>6 DEF SameQueues, Typed
<1>12. v.torrent.life = "live" /\ OwesNothing(v.torrent, v.alerts, v.job.handle)
  BY DEF Given, JobInv, StoppedForGood, SlotExact, Idle, Pending
<1>13. requests = <<request>>
  BY <1>12 DEF OwesNothing, requests
<1>14. DoneInStep(n.job.checkpoint) /\ HasOwner(n.job)
  BY <1>8, <1>9 DEF DoneInStep, HasOwner, Idle
<1>15. StoppedForGood(n.job, n.torrent)
  BY <1>9, <1>10 DEF StoppedForGood, Given, JobInv, SameIdentity, SamePayload
<1>16. SlotExact(n.job, n.torrent, n.alerts)
  <2>1. Pending(phase) /\ Awaited[phase] = request
    BY DEF Pending, Awaited
  <2> HIDE DEF phase, request
  <2> QED
    BY <1>8, <1>9, <1>10, <1>11, <1>12, <1>13, <2>1 DEF SlotExact, Owes, OwesNothing, SameIdentity
<1>17. MetadataOnce(n.job, n.torrent, n.alerts)
  BY <1>9, <1>10, <1>11 DEF MetadataOnce, Given, JobInv, SameIdentity, SamePayload
<1>18. JobInv(n.job, n.torrent, n.alerts)
  BY <1>9, <1>14, <1>15, <1>16, <1>17 DEF JobInv
<1>19. Covers(n.job, n.torrent, n.alerts, IF flush THEN v.torrent.written ELSE {})
  <2>1. /\ \A moved : FlushOrError(v.alerts, v.job.handle, moved)
        /\ \A need : DataAtLeast(v.alerts, v.job.handle, need)
    BY <1>1, <1>12, NoReplyCovers DEF Typed, OwesNothing
  <2>2. CASE flush
    BY <1>8, <1>9, <1>10, <1>11, <2>1, <2>2 DEF Covers, SameIdentity, SamePayload
  <2>3. CASE ~flush
    BY <1>8, <1>9, <1>10, <1>11, <2>1, <2>3 DEF Covers, SameIdentity, SamePayload
  <2> QED
    BY <2>2, <2>3
<1> QED
  BY <1>8, <1>9, <1>11, <1>18, <1>19 DEF SameQueues, n, fresh, slot

\* ltkit_session_checkpoint, up to its wait.
LEMMA CheckpointCallKeeps ==
    ASSUME Inv, NEW c \in Callers, NEW id, NEW flush \in BOOLEAN, CheckpointCall(c, id, flush)
    PROVE  Inv' /\ FinalStep
<1> DEFINE v     == View(id)
           fresh == [v EXCEPT !.job.checkpoint = [NewCheckpoint EXCEPT !.active = TRUE]]
           n     == StartCheckpoint(fresh, flush)
           need  == IF flush THEN engine[jobs[id].handle].written ELSE {}
           call  == [op |-> "checkpoint", id |-> id, interrupted |-> FALSE, need |-> need]
<1>1. /\ id \in DOMAIN jobs /\ ~jobs[id].stopped /\ calls[c].op = "none"
      /\ ~jobs[id].checkpoint.active /\ Idle(jobs[id].checkpoint.phase)
      /\ ~jobs[id].completion_checkpoint
  BY DEF CheckpointCall, Active, Free
<1>2. /\ Given(v, id) /\ v.job = jobs[id] /\ v.torrent = engine[jobs[id].handle]
      /\ v.events = events /\ v.alerts = alerts /\ v.asleep = asleep
      /\ id \in Ids
  BY <1>1, ViewFacts DEF TorrentOf
<1>3. /\ Commit(id, [n EXCEPT !.asleep = @ \cup {c}])
      /\ calls' = [calls EXCEPT ![c] = call]
      /\ UNCHANGED <<alert_thread, faults, wakes>>
  BY DEF CheckpointCall
<1> HIDE DEF v
<1>4. /\ Typed(n) /\ SameQueues(v, n) /\ SameIdentity(v.job, n.job)
      /\ n.job.stopped = v.job.stopped /\ n.job.final = v.job.final
      /\ n.job.checkpoint.active /\ ~n.job.checkpoint.done
      /\ JobInv(n.job, n.torrent, n.alerts)
      /\ Covers(n.job, n.torrent, n.alerts, need)
  BY <1>1, <1>2, TakenSlot
<1> HIDE DEF n
<1>5. /\ jobs' = [jobs EXCEPT ![id] = n.job]
      /\ engine' = [engine EXCEPT ![jobs[id].handle] = n.torrent]
      /\ events' = events /\ alerts' = alerts /\ asleep' = asleep \cup {c}
  <2>1. IsView(n)
    BY <1>4 DEF Typed
  <2>2. LET u == [n EXCEPT !.asleep = @ \cup {c}]
        IN  /\ u.job = n.job /\ u.torrent = n.torrent /\ u.events = n.events
            /\ u.alerts = n.alerts /\ u.asleep = n.asleep \cup {c}
    BY <2>1 DEF IsView
  <2> QED
    BY <1>2, <1>3, <1>4, <2>2 DEF Commit, SameQueues
<1>6. need \in SUBSET Files
  <2>1. v.torrent \in Torrent
    BY <1>2 DEF Given, Typed
  <2> QED
    BY <1>2, <2>1, NAssumption DEF Torrent
<1> HIDE DEF need
<1>7. /\ call \in Call /\ call.op = "checkpoint" /\ call.id = id /\ ~call.interrupted
      /\ call.need = need
  BY <1>2, <1>6 DEF Call
<1> HIDE DEF call
<1>8. n.job \in SessionJob /\ n.torrent \in Torrent /\ n.alerts = alerts
  BY <1>2, <1>4 DEF Typed, SameQueues
<1>9. /\ n.job.handle = jobs[id].handle /\ n.job.metadata_ready = jobs[id].metadata_ready
      /\ n.job.stopped = jobs[id].stopped /\ n.job.final = jobs[id].final
      /\ JobInv(n.job, n.torrent, alerts) /\ Covers(n.job, n.torrent, alerts, call.need)
  BY <1>2, <1>4, <1>7, <1>8 DEF SameIdentity
<1>10. calls' = [calls EXCEPT ![c] = call] /\ UNCHANGED <<events, alerts, alert_thread, faults, wakes>>
  BY <1>3, <1>5
<1> QED
  BY <1>1, <1>4, <1>5, <1>7, <1>8, <1>9, <1>10, SlotKeeps

\* What a caller leaves when it gives the slot up.
LEMMA LeftSlot ==
    ASSUME NEW v, NEW id, Given(v, id), v.job.checkpoint.active
    PROVE  LET n == IF v.job.checkpoint.done
                    THEN StartWaitingCompletion([v EXCEPT !.job.checkpoint = NewCheckpoint])
                    ELSE [v EXCEPT !.job.checkpoint.active = FALSE]
           IN  /\ Typed(n) /\ SameQueues(v, n) /\ SameIdentity(v.job, n.job)
               /\ n.job.stopped = v.job.stopped /\ n.job.final = v.job.final
               /\ ~n.job.checkpoint.active
               /\ JobInv(n.job, n.torrent, n.alerts)
<1>1. /\ Typed(v) /\ IsView(v) /\ v.job \in SessionJob /\ v.torrent \in Torrent
      /\ v.job.checkpoint \in Checkpoint
  BY DEF Given, Typed, SessionJob
<1>2. /\ ~v.job.completion_checkpoint /\ DoneInStep(v.job.checkpoint)
      /\ StoppedForGood(v.job, v.torrent) /\ SlotExact(v.job, v.torrent, v.alerts)
      /\ MetadataOnce(v.job, v.torrent, v.alerts) /\ HasOwner(v.job)
  BY DEF Given, JobInv, HasOwner
<1>3. CASE v.job.checkpoint.done
  <2> DEFINE job == [v.job EXCEPT !.checkpoint = NewCheckpoint]
             w   == [v EXCEPT !.job.checkpoint = NewCheckpoint]
             n   == StartWaitingCompletion(w)
  <2>1. /\ job \in SessionJob /\ SameIdentity(v.job, job) /\ job.checkpoint = NewCheckpoint
        /\ job.completion_waiting = v.job.completion_waiting
        /\ job.completion_checkpoint = v.job.completion_checkpoint
        /\ job.stopped = v.job.stopped /\ job.final = v.job.final
    BY <1>1, NewCheckpointFacts DEF SessionJob, SameIdentity
  <2>2. w = [v EXCEPT !.job = job]
    OBVIOUS
  <2> HIDE DEF job, w
  <2>3. IsView(w) /\ w.job = job /\ w.torrent = v.torrent /\ SameQueues(v, w) /\ Typed(w)
    BY <1>1, <2>1, <2>2 DEF IsView, SameQueues, Typed
  <2>4. Unowned(w.job, w.torrent, w.alerts)
    <3>1. DoneInStep(w.job.checkpoint)
      BY <2>1, <2>3, NewCheckpointFacts DEF DoneInStep
    <3>2. StoppedForGood(w.job, w.torrent)
      BY <1>2, <2>1, <2>3 DEF StoppedForGood, SameIdentity
    <3>3. SlotExact(w.job, w.torrent, w.alerts)
      BY <1>2, <1>3, <2>1, <2>3, NewCheckpointFacts
         DEF SlotExact, Pending, DoneInStep, SameIdentity, SameQueues
    <3>4. MetadataOnce(w.job, w.torrent, w.alerts)
      BY <1>2, <2>1, <2>3 DEF MetadataOnce, SameIdentity, SameQueues
    <3> QED
      BY <1>2, <2>1, <2>3, <3>1, <3>2, <3>3, <3>4 DEF Unowned
  <2>5. /\ Typed(n) /\ SameQueues(w, n)
        /\ JobInv(n.job, n.torrent, n.alerts)
        /\ SameIdentity(w.job, n.job)
        /\ n.job.stopped = w.job.stopped /\ n.job.final = w.job.final
        /\ n.job.checkpoint.active = w.job.checkpoint.active
    BY <2>3, <2>4, StartWaitingKeeps
  <2> HIDE DEF n
  <2>6. /\ SameQueues(v, n) /\ SameIdentity(v.job, n.job)
        /\ n.job.stopped = v.job.stopped /\ n.job.final = v.job.final
        /\ ~n.job.checkpoint.active
    BY <2>1, <2>3, <2>5, NewCheckpointFacts DEF SameQueues, SameIdentity
  <2> QED
    BY <1>3, <2>5, <2>6 DEF n, w
<1>4. CASE ~v.job.checkpoint.done
  <2> DEFINE checkpoint == [v.job.checkpoint EXCEPT !.active = FALSE]
             job        == [v.job EXCEPT !.checkpoint = checkpoint]
             n          == [v EXCEPT !.job = job]
  <2>1. /\ checkpoint \in Checkpoint /\ checkpoint.active = FALSE
        /\ checkpoint.phase = v.job.checkpoint.phase /\ checkpoint.done = v.job.checkpoint.done
    BY <1>1 DEF Checkpoint
  <2>2. n = [v EXCEPT !.job.checkpoint.active = FALSE]
    OBVIOUS
  <2> HIDE DEF checkpoint
  <2>3. /\ job \in SessionJob /\ SameIdentity(v.job, job) /\ job.checkpoint = checkpoint
        /\ job.completion_waiting = v.job.completion_waiting
        /\ job.completion_checkpoint = v.job.completion_checkpoint
        /\ job.stopped = v.job.stopped /\ job.final = v.job.final
    BY <1>1, <2>1 DEF SessionJob, SameIdentity
  <2> HIDE DEF job
  <2>4. IsView(n) /\ n.job = job /\ n.torrent = v.torrent /\ SameQueues(v, n)
    BY <1>1 DEF IsView, SameQueues
  <2> HIDE DEF n
  <2>5. DoneInStep(n.job.checkpoint) /\ HasOwner(n.job)
    BY <1>2, <1>4, <2>1, <2>3, <2>4 DEF DoneInStep, HasOwner
  <2>6. StoppedForGood(n.job, n.torrent)
    BY <1>2, <2>3, <2>4 DEF StoppedForGood, SameIdentity
  <2>7. SlotExact(n.job, n.torrent, n.alerts)
    BY <1>2, <2>1, <2>3, <2>4 DEF SlotExact, SameIdentity, SameQueues
  <2>8. MetadataOnce(n.job, n.torrent, n.alerts)
    BY <1>2, <2>3, <2>4 DEF MetadataOnce, SameIdentity, SameQueues
  <2>9. JobInv(n.job, n.torrent, n.alerts)
    BY <1>2, <2>3, <2>4, <2>5, <2>6, <2>7, <2>8 DEF JobInv
  <2>10. Typed(n)
    BY <1>1, <2>3, <2>4 DEF Typed, SameQueues
  <2> QED
    BY <1>4, <2>1, <2>2, <2>3, <2>4, <2>9, <2>10
<1> QED
  BY <1>3, <1>4

\* The end of its wait.
LEMMA CheckpointReturnKeeps ==
    ASSUME Inv, NEW c \in Callers, CheckpointReturn(c)
    PROVE  Inv' /\ FinalStep
<1> DEFINE id == calls[c].id
           w  == View(id)
           v  == [w EXCEPT !.asleep = @ \ {c}]
           n  == IF v.job.checkpoint.done
                 THEN StartWaitingCompletion([v EXCEPT !.job.checkpoint = NewCheckpoint])
                 ELSE [v EXCEPT !.job.checkpoint.active = FALSE]
<1>1. /\ calls[c].op = "checkpoint" /\ id \in DOMAIN jobs /\ jobs[id].checkpoint.active
  BY DEF CheckpointReturn, Inv, CallsKnown, ActiveHasCaller, Threads
<1>2. /\ Given(w, id) /\ w.job = jobs[id] /\ w.torrent = engine[jobs[id].handle]
      /\ w.events = events /\ w.alerts = alerts /\ w.asleep = asleep
  BY <1>1, ViewFacts DEF TorrentOf
<1>3. /\ Commit(id, n) /\ calls' = [calls EXCEPT ![c] = NoCall]
      /\ UNCHANGED <<alert_thread, faults, wakes>>
  BY <1>1 DEF CheckpointReturn
<1> HIDE DEF w
<1>4. /\ IsView(v) /\ v.job = jobs[id] /\ v.torrent = w.torrent
      /\ v.events = events /\ v.alerts = alerts /\ v.asleep = asleep \ {c}
  BY <1>2 DEF Given, Typed, IsView
<1>5. Given(v, id)
  BY <1>2, <1>4 DEF Given, Typed, Publishes
<1> HIDE DEF v
<1>6. /\ Typed(n) /\ SameQueues(v, n) /\ SameIdentity(v.job, n.job)
      /\ n.job.stopped = v.job.stopped /\ n.job.final = v.job.final
      /\ ~n.job.checkpoint.active
      /\ JobInv(n.job, n.torrent, n.alerts)
  BY <1>1, <1>4, <1>5, LeftSlot
<1> HIDE DEF n
<1>7. /\ jobs' = [jobs EXCEPT ![id] = n.job]
      /\ engine' = [engine EXCEPT ![jobs[id].handle] = n.torrent]
      /\ events' = events /\ alerts' = alerts /\ asleep' = asleep \ {c}
      /\ n.alerts = alerts
  BY <1>3, <1>4, <1>6 DEF Commit, SameQueues
<1>8. n.job \in SessionJob /\ n.torrent \in Torrent
  BY <1>6 DEF Typed
<1>9. /\ n.job.handle = jobs[id].handle /\ n.job.metadata_ready = jobs[id].metadata_ready
      /\ n.job.stopped = jobs[id].stopped /\ n.job.final = jobs[id].final
      /\ JobInv(n.job, n.torrent, alerts)
  BY <1>4, <1>6, <1>7 DEF SameIdentity
<1>10. /\ NoCall \in Call /\ calls' = [calls EXCEPT ![c] = NoCall]
       /\ UNCHANGED <<events, alerts, alert_thread, faults, wakes>>
  BY <1>3, <1>7, NoCallFacts
<1> QED
  BY <1>1, <1>6, <1>7, <1>8, <1>9, <1>10, SlotKeeps

----------------------------------------------------------------------------
(* The engine.                                                               *)

\* A step of the engine on the torrent of handle h that keeps the job it belongs
\* to, if there is one.
LEMMA EngineKeeps ==
    ASSUME Inv, NEW h \in DOMAIN engine, NEW torrent \in Torrent, NEW s \in Seq(Alert),
           engine' = [engine EXCEPT ![h] = torrent], alerts' = s,
           UNCHANGED <<jobs, events, calls, asleep, alert_thread, wakes>>,
           faults' \in 0..MaxFaults,
           QueueKept(alerts, s, h),
           \A id \in DOMAIN jobs : jobs[id].handle = h =>
              /\ JobInv(jobs[id], torrent, s)
              /\ \A need \in SUBSET Files : Covers(jobs[id], engine[h], alerts, need)
                                       => Covers(jobs[id], torrent, s, need)
    PROVE  Inv' /\ FinalStep
<1>1. /\ DOMAIN engine' = DOMAIN engine /\ engine'[h] = torrent
      /\ \A g \in DOMAIN engine : g # h => engine'[g] = engine[g]
  BY DEF Inv, TypeOK
<1>2. TypeOK'
  <2>1. engine' \in [DOMAIN engine' -> Torrent]
    BY <1>1 DEF Inv, TypeOK
  <2> QED
    BY <1>1, <2>1 DEF Inv, TypeOK
<1>3. MailboxInv(events') /\ MailboxMirrorsJobs' /\ CallsKnown' /\ ActiveHasCaller'
  BY DEF Inv, MailboxMirrorsJobs, CallsKnown, Free, ActiveHasCaller
<1>4. NoLostWakeup'
  BY DEF Inv, NoLostWakeup, Predicate, MetadataPredicate, CheckpointPredicate, NextEventPredicate
<1>5. HandlesKnown'
  <2>1. \A i \in DOMAIN alerts' : alerts'[i].handle \in DOMAIN engine'
    BY <1>1 DEF Inv, HandlesKnown, QueueKept
  <2> QED
    BY <1>1, <2>1 DEF Inv, HandlesKnown
<1>6. \A id \in DOMAIN jobs : jobs[id].handle # h =>
         /\ jobs[id].handle \in DOMAIN engine
         /\ engine'[jobs[id].handle] = engine[jobs[id].handle]
         /\ Alike(alerts, s, jobs[id].handle)
  BY <1>1 DEF Inv, HandlesKnown, QueueKept
<1>7. ASSUME NEW id \in DOMAIN jobs PROVE JobInv(jobs[id], engine'[jobs[id].handle], s)
  <2>1. CASE jobs[id].handle = h
    BY <1>1, <2>1
  <2>2. CASE jobs[id].handle # h
    <3>1. JobInv(jobs[id], engine[jobs[id].handle], alerts)
      BY DEF Inv, TorrentOf
    <3> QED
      BY <1>6, <2>2, <3>1, AlikeKeeps
  <2> QED
    BY <2>1, <2>2
<1>8. \A id \in DOMAIN jobs' : JobInv(jobs'[id], TorrentOf(id)', alerts')
  BY <1>7 DEF TorrentOf
<1>9. RequestsCovered'
  <2> SUFFICES ASSUME NEW c \in Callers, calls[c].op = "checkpoint"
               PROVE  Covers(jobs[calls[c].id], engine'[jobs[calls[c].id].handle], s, calls[c].need)
    BY DEF RequestsCovered, TorrentOf
  <2> DEFINE id   == calls[c].id
             need == calls[c].need
  <2>1. /\ id \in DOMAIN jobs /\ need \in SUBSET Files
        /\ Covers(jobs[id], engine[jobs[id].handle], alerts, need)
    BY DEF Threads, Inv, CallsKnown, RequestsCovered, TypeOK, Call, TorrentOf
  <2> HIDE DEF id, need
  <2>2. CASE jobs[id].handle = h
    BY <1>1, <2>1, <2>2 DEF id, need
  <2>3. CASE jobs[id].handle # h
    BY <1>6, <2>1, <2>3, AlikeKeeps DEF id, need
  <2> QED
    BY <2>2, <2>3
<1>10. FinalStep
  BY DEF FinalStep
<1> QED
  BY <1>2, <1>3, <1>4, <1>5, <1>8, <1>9, <1>10 DEF Inv

\* The alerts of a step of the engine, one and two.
LEMMA PostedFacts ==
    ASSUME NEW s \in Seq(Alert), NEW a \in Alert, NEW b \in Alert
    PROVE  /\ s \o <<>> = s /\ s \o <<a>> = Append(s, a)
           /\ s \o <<a, b>> = Append(Append(s, a), b)
           /\ Append(s, a) \in Seq(Alert) /\ Append(Append(s, a), b) \in Seq(Alert)
<1>1. s \o <<>> = s
  OBVIOUS
<1>2. s \o <<a>> = Append(s, a)
  OBVIOUS
<1>3. s \o <<a, b>> = Append(Append(s, a), b)
  OBVIOUS
<1> QED
  BY <1>1, <1>2, <1>3

\* Alerts of the engine have the type of one.
LEMMA NewAlertFacts ==
    ASSUME NEW h \in Handles, NEW data \in {NoData} \cup SUBSET Files,
           NEW type \in {"metadata_received", "torrent_finished", "cache_flushed",
                         "save_resume_data", "save_resume_data_failed", "error", "state_changed"}
    PROVE  LET a == NewAlert(type, h, data)
           IN  a \in Alert /\ a.type = type /\ a.handle = h /\ a.data = data
  BY DEF NewAlert, Alert

\* A reply is posted: it is what the barrier waits for.
LEMMA ReplyPosted ==
    ASSUME NEW job, NEW torrent \in Torrent, NEW next, NEW s \in Seq(Alert), NEW a \in Alert,
           JobInv(job, torrent, s), IsReply(a, job.handle),
           torrent.requests # <<>>, Head(torrent.requests) = Replies[a.type],
           next.requests = Tail(torrent.requests), next.life = torrent.life,
           next.metadata = torrent.metadata, next.safe = torrent.safe,
           next.wanted = torrent.wanted, next.written = torrent.written,
           next.durable \in {torrent.durable, torrent.written}, NEW e, e \in {s} \cup
               {Append(s, error) : error \in {b \in Alert : b.handle = job.handle /\ b.type = "error"}},
           a.type = "cache_flushed" => next.durable = torrent.written \/ e # s,
           a.type = "save_resume_data" => a.data = torrent.written
    PROVE  /\ JobInv(job, next, Append(e, a))
           /\ \A need : Covers(job, torrent, s, need) => Covers(job, next, Append(e, a), need)
<1> DEFINE h == job.handle
           t == Append(e, a)
<1>1. e \in Seq(Alert) /\ Alike(s, e, h) /\ (e # s => HasAlert(e, h, "error"))
  <2>1. CASE e = s
    BY <2>1 DEF Alike, RepliesAlike
  <2>2. ASSUME NEW b \in Alert, b.handle = h, b.type = "error", e = Append(s, b)
        PROVE  e \in Seq(Alert) /\ Alike(s, e, h) /\ HasAlert(e, h, "error")
    BY <2>2, AppendAlike, AppendKeeps
  <2> QED
    BY <2>1, <2>2
<1>2. a.handle = h /\ a.type \in {"cache_flushed", "save_resume_data", "save_resume_data_failed"}
  BY DEF IsReply, Replies
<1>3. DoneInStep(job.checkpoint) /\ HasOwner(job) /\ StoppedForGood(job, next)
  BY DEF JobInv, StoppedForGood
<1>4. ASSUME torrent.life # "gone"
      PROVE  /\ Pending(job.checkpoint.phase) /\ NoReply(e, h)
             /\ Awaited[job.checkpoint.phase] = Replies[a.type] /\ next.requests = <<>>
  <2>1. /\ Pending(job.checkpoint.phase) /\ NoReply(s, h)
        /\ torrent.requests = <<Awaited[job.checkpoint.phase]>>
    BY <1>4 DEF JobInv, SlotExact, Owes, OwesNothing
  <2>2. /\ Head(<<Awaited[job.checkpoint.phase]>>) = Awaited[job.checkpoint.phase]
        /\ Tail(<<Awaited[job.checkpoint.phase]>>) = <<>>
    OBVIOUS
  <2> QED
    BY <1>1, <2>1, <2>2 DEF Alike, RepliesAlike
<1>5. SlotExact(job, next, t)
  <2>1. torrent.life # "gone" => OneReply(t, h, Replies[a.type])
    BY <1>1, <1>4, AppendKeeps
  <2> QED
    BY <1>4, <2>1 DEF SlotExact, Owes
<1>6. MetadataOnce(job, next, t)
  <2>1. MetadataOnce(job, torrent, e)
    BY <1>1, AlikeKeeps DEF JobInv
  <2>2. /\ \A type \in {"metadata_received", "torrent_finished"} :
              HasAlert(t, h, type) => HasAlert(e, h, type)
        /\ MetadataFirst(e, h) => MetadataFirst(t, h)
    BY <1>1, <1>2, AppendKeeps
  <2> QED
    BY <2>1, <2>2 DEF MetadataOnce
<1>7. ASSUME NEW need, Covers(job, torrent, s, need)
      PROVE  Covers(job, next, t, need)
  <2> DEFINE moved == job.checkpoint.error \/ need \subseteq next.durable
  <2>2. CASE torrent.life = "gone"
    BY <1>7, <2>2 DEF Covers
  <2>3. CASE torrent.life # "gone"
    <3>1. Covers(job, torrent, e, need)
      BY <1>1, <1>7, AlikeKeeps
    <3>2. /\ need \subseteq torrent.written /\ DataAtLeast(e, h, need)
          /\ job.checkpoint.error \/ need \subseteq torrent.durable => moved
      BY <2>3, <3>1 DEF Covers
    <3>3. \A any : FlushOrError(e, h, any)
      BY <1>1, <1>4, <2>3, NoReplyCovers
    <3>4. a.type = "cache_flushed" => moved \/ HasAlert(e, h, "error")
      BY <1>1, <3>2
    <3>5. FlushOrError(t, h, moved)
      <4> HIDE DEF moved
      <4> QED
        BY <1>1, <1>2, <3>3, <3>4, AppendKeeps
    <3>6. DataAtLeast(t, h, need)
      BY <1>1, <1>2, <3>2, AppendKeeps
    <3>7. job.checkpoint.phase = "saving" => moved
      BY <2>3, <3>1, <3>2 DEF Covers
    <3>8. ~job.checkpoint.done
      BY <1>3, <1>4, <2>3 DEF DoneInStep, Pending
    <3> QED
      BY <3>2, <3>5, <3>6, <3>7, <3>8 DEF Covers
  <2> QED
    BY <2>2, <2>3
<1>8. job.completion_checkpoint => Covers(job, next, t, job.fenced)
  BY <1>7 DEF JobInv
<1> QED
  BY <1>3, <1>5, <1>6, <1>7, <1>8 DEF JobInv

\* What the invariant says of a torrent.
LEMMA EngineFacts ==
    ASSUME Inv, NEW h \in DOMAIN engine
    PROVE  /\ h \in Handles /\ engine[h] \in Torrent /\ alerts \in Seq(Alert)
           /\ faults \in 0..MaxFaults /\ MaxFaults \in Nat
           /\ \A id \in DOMAIN jobs : jobs[id].handle = h => JobInv(jobs[id], engine[h], alerts)
  BY BoundAssumption DEF Inv, TypeOK, TorrentOf

\* A fault stays within its bound.
LEMMA FaultFacts ==
    ASSUME Inv, Fault \/ UNCHANGED faults
    PROVE  faults' \in 0..MaxFaults
  BY BoundAssumption DEF Inv, TypeOK, Fault

\* A request is answered.
LEMMA AnswerKeeps ==
    ASSUME Inv, NEW h \in DOMAIN engine, EngineAnswers(h)
    PROVE  Inv' /\ FinalStep
<1> DEFINE torrent == engine[h]
           kept    == [torrent EXCEPT !.requests = Tail(torrent.requests)]
           moved   == [torrent EXCEPT !.requests = Tail(torrent.requests),
                                      !.durable = torrent.written]
           failure == NewAlert("error", h, NoData)
           flushed == NewAlert("cache_flushed", h, NoData)
           saved   == NewAlert("save_resume_data", h, torrent.written)
           unsaved == NewAlert("save_resume_data_failed", h, NoData)
<1>1. /\ h \in Handles /\ torrent \in Torrent /\ alerts \in Seq(Alert)
      /\ \A id \in DOMAIN jobs : jobs[id].handle = h => JobInv(jobs[id], torrent, alerts)
  BY EngineFacts
<1>2. /\ torrent.requests \in Seq({"flush", "save"}) /\ torrent.written \in SUBSET Files
      /\ torrent.requests # <<>>
  BY <1>1 DEF Torrent, EngineAnswers, EngineFlush, EngineFlushFails, EngineSave, EngineSaveFails
<1>3. Tail(torrent.requests) \in Seq({"flush", "save"})
  BY <1>2
<1>4. /\ kept \in Torrent /\ kept.requests = Tail(torrent.requests) /\ kept.life = torrent.life
      /\ kept.metadata = torrent.metadata /\ kept.safe = torrent.safe
      /\ kept.wanted = torrent.wanted /\ kept.written = torrent.written
      /\ kept.durable = torrent.durable
  BY <1>1, <1>3 DEF Torrent
<1>5. /\ moved \in Torrent /\ moved.requests = Tail(torrent.requests) /\ moved.life = torrent.life
      /\ moved.metadata = torrent.metadata /\ moved.safe = torrent.safe
      /\ moved.wanted = torrent.wanted /\ moved.written = torrent.written
      /\ moved.durable = torrent.written
  BY <1>1, <1>3 DEF Torrent
<1>6. /\ failure \in Alert /\ failure.type = "error" /\ failure.handle = h
      /\ flushed \in Alert /\ flushed.type = "cache_flushed" /\ flushed.handle = h
      /\ saved \in Alert /\ saved.type = "save_resume_data" /\ saved.handle = h
      /\ saved.data = torrent.written
      /\ unsaved \in Alert /\ unsaved.type = "save_resume_data_failed" /\ unsaved.handle = h
  BY <1>1, <1>2, NewAlertFacts
<1>7. faults' \in 0..MaxFaults
  BY FaultFacts DEF EngineAnswers, EngineFlush, EngineFlushFails, EngineSave, EngineSaveFails
<1>8. /\ Replies["cache_flushed"] = "flush" /\ Replies["save_resume_data"] = "save"
      /\ Replies["save_resume_data_failed"] = "save"
      /\ {"cache_flushed", "save_resume_data", "save_resume_data_failed"} = DOMAIN Replies
  BY DEF Replies
<1>9. CASE EngineFlush(h)
  <2>1. /\ engine' = [engine EXCEPT ![h] = moved] /\ alerts' = alerts \o <<flushed>>
        /\ UNCHANGED <<jobs, events, calls, asleep, alert_thread, wakes>>
        /\ Head(torrent.requests) = "flush"
    BY <1>9 DEF EngineFlush, Posts
  <2> HIDE DEF torrent, moved, flushed
  <2>2. alerts' = Append(alerts, flushed) /\ Append(alerts, flushed) \in Seq(Alert)
    BY <1>1, <1>6, <2>1, PostedFacts
  <2>3. QueueKept(alerts, Append(alerts, flushed), h)
    BY <1>1, <1>6, AppendQueueKept
  <2>4. ASSUME NEW id \in DOMAIN jobs, jobs[id].handle = h
        PROVE  /\ JobInv(jobs[id], moved, Append(alerts, flushed))
               /\ \A need \in SUBSET Files : Covers(jobs[id], torrent, alerts, need)
                                        => Covers(jobs[id], moved, Append(alerts, flushed), need)
    <3>1. JobInv(jobs[id], torrent, alerts) /\ IsReply(flushed, jobs[id].handle)
      BY <1>1, <1>6, <1>8, <2>4 DEF IsReply
    <3> QED
      BY <1>1, <1>2, <1>5, <1>6, <1>8, <2>1, <3>1, ReplyPosted
  <2>6. \A id \in DOMAIN jobs : jobs[id].handle = h =>
            /\ JobInv(jobs[id], moved, Append(alerts, flushed))
            /\ \A need \in SUBSET Files : Covers(jobs[id], engine[h], alerts, need)
                                     => Covers(jobs[id], moved, Append(alerts, flushed), need)
    BY <2>4 DEF torrent
  <2>7. /\ moved \in Torrent /\ Append(alerts, flushed) \in Seq(Alert)
        /\ engine' = [engine EXCEPT ![h] = moved] /\ alerts' = Append(alerts, flushed)
    BY <1>5, <2>1, <2>2
  <2>8. UNCHANGED <<jobs, events, calls, asleep, alert_thread, wakes>> /\ faults' \in 0..MaxFaults
    BY <1>7, <2>1
  <2> QED
    BY <2>3, <2>6, <2>7, <2>8, EngineKeeps
<1>10. CASE EngineFlushFails(h)
  <2> DEFINE e == Append(alerts, failure)
  <2>1. /\ engine' = [engine EXCEPT ![h] = kept] /\ alerts' = alerts \o <<failure, flushed>>
        /\ UNCHANGED <<jobs, events, calls, asleep, alert_thread, wakes>>
        /\ Head(torrent.requests) = "flush"
    BY <1>10 DEF EngineFlushFails, Posts
  <2> HIDE DEF torrent, kept, flushed, failure
  <2>2. alerts' = Append(e, flushed) /\ Append(e, flushed) \in Seq(Alert) /\ e \in Seq(Alert)
    BY <1>1, <1>6, <2>1, PostedFacts
  <2>3. QueueKept(alerts, Append(e, flushed), h)
    BY <1>1, <1>6, <2>2, AppendQueueKept, QueueKeptTwice
  <2>4. e # alerts
    BY <1>1, <1>6
  <2>5. ASSUME NEW id \in DOMAIN jobs, jobs[id].handle = h
        PROVE  /\ JobInv(jobs[id], kept, Append(e, flushed))
               /\ \A need \in SUBSET Files : Covers(jobs[id], torrent, alerts, need)
                                        => Covers(jobs[id], kept, Append(e, flushed), need)
    <3>1. JobInv(jobs[id], torrent, alerts) /\ IsReply(flushed, jobs[id].handle)
      BY <1>1, <1>6, <1>8, <2>5 DEF IsReply
    <3>2. e \in {alerts} \cup {Append(alerts, error) :
                    error \in {b \in Alert : b.handle = jobs[id].handle /\ b.type = "error"}}
      BY <1>6, <2>5
    <3> HIDE DEF e
    <3> QED
      BY <1>1, <1>2, <1>4, <1>6, <1>8, <2>1, <2>4, <3>1, <3>2, ReplyPosted
  <2> HIDE DEF e
  <2>6. \A id \in DOMAIN jobs : jobs[id].handle = h =>
            /\ JobInv(jobs[id], kept, Append(e, flushed))
            /\ \A need \in SUBSET Files : Covers(jobs[id], engine[h], alerts, need)
                                     => Covers(jobs[id], kept, Append(e, flushed), need)
    BY <2>5 DEF torrent
  <2>7. /\ kept \in Torrent /\ Append(e, flushed) \in Seq(Alert)
        /\ engine' = [engine EXCEPT ![h] = kept] /\ alerts' = Append(e, flushed)
    BY <1>4, <2>1, <2>2
  <2>8. UNCHANGED <<jobs, events, calls, asleep, alert_thread, wakes>> /\ faults' \in 0..MaxFaults
    BY <1>7, <2>1
  <2> QED
    BY <2>3, <2>6, <2>7, <2>8, EngineKeeps
<1>11. ASSUME NEW a \in {saved, unsaved}, alerts' = alerts \o <<a>>,
              engine' = [engine EXCEPT ![h] = kept], Head(torrent.requests) = "save",
              UNCHANGED <<jobs, events, calls, asleep, alert_thread, wakes>>
       PROVE  Inv' /\ FinalStep
  <2> HIDE DEF torrent, kept, saved, unsaved
  <2>1. /\ a \in Alert /\ a.handle = h /\ Replies[a.type] = "save" /\ a.type \in DOMAIN Replies
        /\ a.type # "cache_flushed" /\ (a.type = "save_resume_data" => a.data = torrent.written)
    BY <1>6, <1>8, <1>11
  <2>2. alerts' = Append(alerts, a) /\ Append(alerts, a) \in Seq(Alert)
    BY <1>1, <1>11, <2>1, PostedFacts
  <2>3. QueueKept(alerts, Append(alerts, a), h)
    BY <1>1, <2>1, AppendQueueKept
  <2>4. ASSUME NEW id \in DOMAIN jobs, jobs[id].handle = h
        PROVE  /\ JobInv(jobs[id], kept, Append(alerts, a))
               /\ \A need \in SUBSET Files : Covers(jobs[id], torrent, alerts, need)
                                        => Covers(jobs[id], kept, Append(alerts, a), need)
    <3>1. JobInv(jobs[id], torrent, alerts) /\ IsReply(a, jobs[id].handle)
      BY <1>1, <2>1, <2>4 DEF IsReply
    <3> QED
      BY <1>1, <1>2, <1>4, <1>11, <2>1, <3>1, ReplyPosted
  <2>6. \A id \in DOMAIN jobs : jobs[id].handle = h =>
            /\ JobInv(jobs[id], kept, Append(alerts, a))
            /\ \A need \in SUBSET Files : Covers(jobs[id], engine[h], alerts, need)
                                     => Covers(jobs[id], kept, Append(alerts, a), need)
    BY <2>4 DEF torrent
  <2>7. /\ kept \in Torrent /\ Append(alerts, a) \in Seq(Alert)
        /\ engine' = [engine EXCEPT ![h] = kept] /\ alerts' = Append(alerts, a)
    BY <1>4, <1>11, <2>2
  <2>8. UNCHANGED <<jobs, events, calls, asleep, alert_thread, wakes>> /\ faults' \in 0..MaxFaults
    BY <1>7, <1>11
  <2> QED
    BY <2>3, <2>6, <2>7, <2>8, EngineKeeps
<1>12. CASE EngineSave(h)
  <2>1. /\ engine' = [engine EXCEPT ![h] = kept] /\ alerts' = alerts \o <<saved>>
        /\ UNCHANGED <<jobs, events, calls, asleep, alert_thread, wakes>>
        /\ Head(torrent.requests) = "save"
    BY <1>12 DEF EngineSave, Posts
  <2> HIDE DEF torrent, kept, saved, unsaved
  <2> QED
    BY <1>11, <2>1
<1>13. CASE EngineSaveFails(h)
  <2>1. /\ engine' = [engine EXCEPT ![h] = kept] /\ alerts' = alerts \o <<unsaved>>
        /\ UNCHANGED <<jobs, events, calls, asleep, alert_thread, wakes>>
        /\ Head(torrent.requests) = "save"
    BY <1>13 DEF EngineSaveFails, Posts
  <2> HIDE DEF torrent, kept, saved, unsaved
  <2> QED
    BY <1>11, <2>1
<1> QED
  BY <1>9, <1>10, <1>12, <1>13 DEF EngineAnswers

\* Metadata arrives: the torrent was not completing, and its alerts are the first
\* of their kind.
LEMMA EngineMetadataKeeps ==
    ASSUME Inv, NEW h \in DOMAIN engine, EngineMetadata(h)
    PROVE  Inv' /\ FinalStep
<1> DEFINE torrent == engine[h]
           next    == [torrent EXCEPT !.metadata = TRUE, !.finished = TRUE]
           a       == NewAlert("metadata_received", h, NoData)
           b       == NewAlert("torrent_finished", h, NoData)
           e       == Append(alerts, a)
           s       == Append(e, b)
<1>1. /\ h \in Handles /\ torrent \in Torrent /\ alerts \in Seq(Alert)
      /\ \A id \in DOMAIN jobs : jobs[id].handle = h => JobInv(jobs[id], torrent, alerts)
  BY EngineFacts
<1>2. /\ torrent.life = "live" /\ ~torrent.metadata
      /\ engine' = [engine EXCEPT ![h] = next] /\ alerts' = alerts \o <<a, b>>
      /\ UNCHANGED <<jobs, events, calls, asleep, alert_thread, wakes>>
  BY DEF EngineMetadata, Posts
<1>3. /\ next \in Torrent /\ next.life = torrent.life /\ next.metadata = TRUE
      /\ next.written = torrent.written /\ next.durable = torrent.durable
      /\ next.requests = torrent.requests
  BY <1>1 DEF Torrent
<1>4. /\ a \in Alert /\ a.type = "metadata_received" /\ a.handle = h
      /\ b \in Alert /\ b.type = "torrent_finished" /\ b.handle = h
  BY <1>1, NewAlertFacts
<1> HIDE DEF torrent, next, a, b
<1>5. alerts' = s /\ s \in Seq(Alert) /\ e \in Seq(Alert)
  BY <1>1, <1>2, <1>4, PostedFacts
<1>6. QueueKept(alerts, s, h)
  BY <1>1, <1>4, <1>5, AppendQueueKept, QueueKeptTwice
<1>7. RepliesAlike(alerts, s, h)
  <2>1. RepliesAlike(alerts, e, h)
    BY <1>1, <1>4, AppendRepliesAlike
  <2>2. RepliesAlike(e, s, h)
    <3> HIDE DEF e
    <3> QED
      BY <1>4, <1>5, AppendRepliesAlike
  <2> QED
    BY <2>1, <2>2, QueueKeptTwice
<1>8. ASSUME NEW id \in DOMAIN jobs, jobs[id].handle = h
      PROVE  /\ JobInv(jobs[id], next, s)
             /\ \A need \in SUBSET Files : Covers(jobs[id], torrent, alerts, need)
                                      => Covers(jobs[id], next, s, need)
  <2> DEFINE job == jobs[id]
  <2>1. JobInv(job, torrent, alerts)
    BY <1>1, <1>8
  <2>2. /\ ~HasAlert(alerts, h, "torrent_finished") /\ MetadataFirst(alerts, h)
        /\ ~job.completion_waiting /\ ~job.completion_checkpoint
    BY <1>2, <1>8, <2>1 DEF JobInv, MetadataOnce
  <2>3. MetadataFirst(s, h)
    <3>1. MetadataFirst(e, h)
      BY <1>1, <1>4, <2>2, AppendKeeps
    <3> QED
      BY <1>4, <1>5, <3>1, AppendKeeps
  <2>4. MetadataOnce(job, next, s)
    BY <1>3, <1>8, <2>2, <2>3 DEF MetadataOnce
  <2>5. DoneInStep(job.checkpoint) /\ HasOwner(job) /\ StoppedForGood(job, next)
    BY <1>3, <2>1, <2>2 DEF JobInv, StoppedForGood
  <2>6. SlotExact(job, next, s)
    BY <1>3, <1>7, <1>8, <2>1 DEF JobInv, SlotExact, Owes, OwesNothing, RepliesAlike
  <2>7. ASSUME NEW need \in SUBSET Files, Covers(job, torrent, alerts, need)
        PROVE  Covers(job, next, s, need)
    BY <1>3, <1>7, <1>8, <2>7 DEF Covers, RepliesAlike
  <2> QED
    BY <2>2, <2>4, <2>5, <2>6, <2>7 DEF JobInv
<1>9. \A id \in DOMAIN jobs : jobs[id].handle = h =>
         /\ JobInv(jobs[id], next, s)
         /\ \A need \in SUBSET Files : Covers(jobs[id], engine[h], alerts, need)
                                  => Covers(jobs[id], next, s, need)
  BY <1>8 DEF torrent
<1>10. faults' \in 0..MaxFaults
  BY FaultFacts DEF EngineMetadata
<1> HIDE DEF s
<1>11. /\ next \in Torrent /\ s \in Seq(Alert)
       /\ engine' = [engine EXCEPT ![h] = next] /\ alerts' = s
  BY <1>2, <1>3, <1>5
<1>12. UNCHANGED <<jobs, events, calls, asleep, alert_thread, wakes>>
  BY <1>2
<1> QED
  BY <1>6, <1>9, <1>10, <1>11, <1>12, EngineKeeps

\* A piece is downloaded, in a completion too: what was covered stays covered.
LEMMA EngineDownloadKeeps ==
    ASSUME Inv, NEW h \in DOMAIN engine, NEW p \in Files, EngineDownload(h, p)
    PROVE  Inv' /\ FinalStep
<1> DEFINE torrent  == engine[h]
           written  == torrent.written \cup {p}
           finished == torrent.wanted \subseteq written
           next     == [torrent EXCEPT !.written = written, !.finished = finished]
           a        == NewAlert("torrent_finished", h, NoData)
           s        == IF finished THEN Append(alerts, a) ELSE alerts
<1>1. /\ h \in Handles /\ torrent \in Torrent /\ alerts \in Seq(Alert)
      /\ \A id \in DOMAIN jobs : jobs[id].handle = h => JobInv(jobs[id], torrent, alerts)
  BY EngineFacts
<1>2. /\ torrent.life = "live" /\ torrent.metadata
      /\ engine' = [engine EXCEPT ![h] = next]
      /\ alerts' = alerts \o IF finished THEN <<a>> ELSE <<>>
      /\ UNCHANGED <<jobs, events, calls, asleep, alert_thread, wakes>>
  BY DEF EngineDownload, Posts
<1>3. written \in SUBSET Files /\ torrent.written \subseteq written /\ finished \in BOOLEAN
  BY <1>1 DEF Torrent
<1> HIDE DEF written, finished
<1>5. /\ next \in Torrent /\ next.life = torrent.life /\ next.metadata = torrent.metadata
      /\ next.safe = torrent.safe
      /\ next.written = written /\ next.durable = torrent.durable
      /\ next.requests = torrent.requests
  BY <1>1, <1>3 DEF Torrent
<1>6. a \in Alert /\ a.type = "torrent_finished" /\ a.handle = h
  BY <1>1, NewAlertFacts
<1>7. alerts' = s /\ s \in Seq(Alert)
  BY <1>1, <1>2, <1>6, PostedFacts
<1> HIDE DEF torrent, next, a
<1>8. QueueKept(alerts, s, h) /\ RepliesAlike(alerts, s, h)
  <2>1. QueueKept(alerts, Append(alerts, a), h) /\ RepliesAlike(alerts, Append(alerts, a), h)
    BY <1>1, <1>6, AppendQueueKept, AppendRepliesAlike
  <2> QED
    BY <2>1, QueueKeptTwice
<1>9. /\ MetadataFirst(alerts, h) => MetadataFirst(s, h)
      /\ HasAlert(s, h, "metadata_received") => HasAlert(alerts, h, "metadata_received")
  BY <1>1, <1>6, AppendKeeps
<1> HIDE DEF s
<1>10. ASSUME NEW id \in DOMAIN jobs, jobs[id].handle = h
       PROVE  /\ JobInv(jobs[id], next, s)
              /\ \A need \in SUBSET Files : Covers(jobs[id], torrent, alerts, need)
                                       => Covers(jobs[id], next, s, need)
  <2> DEFINE job == jobs[id]
  <2>1. JobInv(job, torrent, alerts)
    BY <1>1, <1>10
  <2>3. MetadataOnce(job, next, s)
    BY <1>2, <1>5, <1>9, <1>10, <2>1 DEF JobInv, MetadataOnce
  <2>4. DoneInStep(job.checkpoint) /\ HasOwner(job) /\ StoppedForGood(job, next)
    BY <1>5, <2>1 DEF JobInv, StoppedForGood
  <2>5. SlotExact(job, next, s)
    BY <1>5, <1>8, <1>10, <2>1 DEF JobInv, SlotExact, Owes, OwesNothing, RepliesAlike
  <2>6. ASSUME NEW need, Covers(job, torrent, alerts, need)
        PROVE  Covers(job, next, s, need)
    <3>1. torrent.life # "gone" /\ need \subseteq torrent.written
      BY <1>2, <2>6 DEF Covers
    <3>2. need \subseteq next.written
      BY <1>3, <1>5, <3>1
    <3> QED
      BY <1>5, <1>8, <1>10, <2>6, <3>2 DEF Covers, RepliesAlike
  <2> QED
    BY <2>1, <2>3, <2>4, <2>5, <2>6 DEF JobInv
<1>11. \A id \in DOMAIN jobs : jobs[id].handle = h =>
          /\ JobInv(jobs[id], next, s)
          /\ \A need \in SUBSET Files : Covers(jobs[id], engine[h], alerts, need)
                                   => Covers(jobs[id], next, s, need)
  BY <1>10 DEF torrent
<1>12. faults' \in 0..MaxFaults
  BY FaultFacts DEF EngineDownload
<1>13. /\ next \in Torrent /\ s \in Seq(Alert)
       /\ engine' = [engine EXCEPT ![h] = next] /\ alerts' = s
  BY <1>2, <1>5, <1>7
<1>14. UNCHANGED <<jobs, events, calls, asleep, alert_thread, wakes>>
  BY <1>2
<1> QED
  BY <1>8, <1>11, <1>12, <1>13, <1>14, EngineKeeps

\* An error or a change of state that nobody asked for.
LEMMA EngineReportsKeeps ==
    ASSUME Inv, NEW h \in DOMAIN engine, NEW type \in {"error", "state_changed"},
           EngineReports(h, type)
    PROVE  Inv' /\ FinalStep
<1> DEFINE a == NewAlert(type, h, NoData)
           s == Append(alerts, a)
<1>1. /\ h \in Handles /\ engine[h] \in Torrent /\ alerts \in Seq(Alert)
      /\ \A id \in DOMAIN jobs : jobs[id].handle = h => JobInv(jobs[id], engine[h], alerts)
  BY EngineFacts
<1>2. /\ engine' = [engine EXCEPT ![h] = engine[h]] /\ alerts' = alerts \o <<a>>
      /\ UNCHANGED <<jobs, events, calls, asleep, alert_thread, wakes>>
  BY DEF EngineReports, Posts
<1>3. a \in Alert /\ a.handle = h /\ a.type \in {"error", "state_changed"}
  BY <1>1, NewAlertFacts
<1> HIDE DEF a
<1>4. alerts' = s /\ s \in Seq(Alert)
  BY <1>1, <1>2, <1>3, PostedFacts
<1>5. QueueKept(alerts, s, h) /\ Alike(alerts, s, h)
  BY <1>1, <1>3, AppendQueueKept, AppendAlike
<1> HIDE DEF s
<1>6. \A id \in DOMAIN jobs : jobs[id].handle = h =>
         /\ JobInv(jobs[id], engine[h], s)
         /\ \A need \in SUBSET Files : Covers(jobs[id], engine[h], alerts, need)
                                  => Covers(jobs[id], engine[h], s, need)
  BY <1>1, <1>5, AlikeKeeps
<1>7. faults' \in 0..MaxFaults
  BY FaultFacts DEF EngineReports
<1>8. /\ engine[h] \in Torrent /\ s \in Seq(Alert)
      /\ engine' = [engine EXCEPT ![h] = engine[h]] /\ alerts' = s
  BY <1>1, <1>2, <1>4
<1>9. UNCHANGED <<jobs, events, calls, asleep, alert_thread, wakes>>
  BY <1>2
<1> QED
  BY <1>5, <1>6, <1>7, <1>8, <1>9, EngineKeeps

\* The payload files go or come back; the torrent object is released.
LEMMA QuietKeeps ==
    ASSUME Inv, NEW h \in DOMAIN engine, PayloadChanges(h) \/ EngineReleases(h)
    PROVE  Inv' /\ FinalStep
<1> DEFINE torrent == engine[h]
           next    == IF PayloadChanges(h) THEN [torrent EXCEPT !.intact = ~torrent.intact]
                      ELSE Released
<1>1. /\ h \in Handles /\ torrent \in Torrent /\ alerts \in Seq(Alert)
      /\ \A id \in DOMAIN jobs : jobs[id].handle = h => JobInv(jobs[id], torrent, alerts)
  BY EngineFacts
<1>2. /\ engine' = [engine EXCEPT ![h] = next] /\ alerts' = alerts \o <<>>
      /\ UNCHANGED <<jobs, events, calls, asleep, alert_thread, wakes>>
  BY DEF PayloadChanges, EngineReleases, Posts
<1>3. alerts' = alerts
  BY <1>1, <1>2
<1>4. faults' \in 0..MaxFaults
  BY FaultFacts DEF PayloadChanges, EngineReleases
<1>5. CASE PayloadChanges(h)
  <2>1. /\ next \in Torrent /\ next.life = torrent.life /\ next.metadata = torrent.metadata
        /\ next.safe = torrent.safe /\ next.wanted = torrent.wanted
        /\ next.written = torrent.written /\ next.durable = torrent.durable
        /\ next.requests = torrent.requests
    BY <1>1, <1>5 DEF Torrent
  <2> HIDE DEF torrent, next
  <2>2. ASSUME NEW job, JobInv(job, torrent, alerts)
        PROVE  /\ JobInv(job, next, alerts)
               /\ \A need \in SUBSET Files : Covers(job, torrent, alerts, need)
                                        => Covers(job, next, alerts, need)
    <3>1. \A need : Covers(job, torrent, alerts, need) => Covers(job, next, alerts, need)
      BY <2>1 DEF Covers
    <3>2. StoppedForGood(job, next) /\ SlotExact(job, next, alerts)
      BY <2>1, <2>2 DEF JobInv, StoppedForGood, SlotExact, Owes, OwesNothing
    <3>3. MetadataOnce(job, next, alerts)
      BY <2>1, <2>2 DEF JobInv, MetadataOnce
    <3> QED
      BY <2>1, <2>2, <3>1, <3>2, <3>3 DEF JobInv
  <2>3. \A id \in DOMAIN jobs : jobs[id].handle = h =>
           /\ JobInv(jobs[id], next, alerts)
           /\ \A need \in SUBSET Files : Covers(jobs[id], engine[h], alerts, need)
                                    => Covers(jobs[id], next, alerts, need)
    BY <1>1, <2>2 DEF torrent
  <2>4. /\ next \in Torrent /\ alerts \in Seq(Alert)
        /\ engine' = [engine EXCEPT ![h] = next] /\ alerts' = alerts
    BY <1>1, <1>2, <1>3, <2>1
  <2>5. UNCHANGED <<jobs, events, calls, asleep, alert_thread, wakes>>
    BY <1>2
  <2>6. QueueKept(alerts, alerts, h)
    BY QueueKeptTwice
  <2> QED
    BY <1>4, <2>3, <2>4, <2>5, <2>6, EngineKeeps
<1>6. CASE ~PayloadChanges(h)
  <2>1. /\ next \in Torrent /\ next.life = "gone" /\ next.metadata = FALSE
        /\ torrent.life = "removing"
    BY <1>6, NAssumption DEF Released, Torrent, EngineReleases
  <2> HIDE DEF torrent, next
  <2>2. ASSUME NEW job, JobInv(job, torrent, alerts)
        PROVE  /\ JobInv(job, next, alerts)
               /\ \A need \in SUBSET Files : Covers(job, torrent, alerts, need)
                                        => Covers(job, next, alerts, need)
    <3>1. \A need : Covers(job, torrent, alerts, need) => Covers(job, next, alerts, need)
      BY <2>1 DEF Covers
    <3>2. StoppedForGood(job, next) /\ SlotExact(job, next, alerts) /\ MetadataOnce(job, next, alerts)
      BY <2>1, <2>2 DEF JobInv, StoppedForGood, SlotExact, MetadataOnce
    <3>3. job.completion_checkpoint => ~job.checkpoint.done
      BY <2>2 DEF JobInv, HasOwner, DoneInStep, Pending
    <3>4. job.completion_checkpoint => Covers(job, next, alerts, job.fenced)
      BY <2>1, <3>3 DEF Covers
    <3> QED
      BY <2>2, <3>1, <3>2, <3>4 DEF JobInv
  <2>3. \A id \in DOMAIN jobs : jobs[id].handle = h =>
           /\ JobInv(jobs[id], next, alerts)
           /\ \A need \in SUBSET Files : Covers(jobs[id], engine[h], alerts, need)
                                    => Covers(jobs[id], next, alerts, need)
    BY <1>1, <2>2 DEF torrent
  <2>4. /\ next \in Torrent /\ alerts \in Seq(Alert)
        /\ engine' = [engine EXCEPT ![h] = next] /\ alerts' = alerts
    BY <1>1, <1>2, <1>3, <2>1
  <2>5. UNCHANGED <<jobs, events, calls, asleep, alert_thread, wakes>>
    BY <1>2
  <2>6. QueueKept(alerts, alerts, h)
    BY QueueKeptTwice
  <2> QED
    BY <1>4, <2>3, <2>4, <2>5, <2>6, EngineKeeps
<1> QED
  BY <1>5, <1>6

\* Every step of the engine.
LEMMA EngineStepKeeps ==
    ASSUME Inv, EngineStep
    PROVE  Inv' /\ FinalStep
  BY EngineMetadataKeeps, EngineDownloadKeeps, AnswerKeeps, EngineReportsKeeps, QuietKeeps
  DEF EngineStep

----------------------------------------------------------------------------
(* Alerts about torrents that no job has, and the end of the session.        *)

\* Nobody's alert is dropped.
LEMMA SkipAlertKeeps ==
    ASSUME Inv, SkipAlert
    PROVE  Inv' /\ FinalStep
<1> DEFINE h == Head(alerts).handle
           s == Tail(alerts)
<1>1. alerts \in Seq(Alert) /\ alerts # <<>> /\ alerts' = s
  BY DEF SkipAlert, Inv, TypeOK
<1>2. 1 \in DOMAIN alerts /\ Head(alerts) = alerts[1] /\ s \in Seq(Alert)
  BY <1>1, TailPositions
<1>3. h \in DOMAIN engine
  BY <1>2 DEF Inv, HandlesKnown
<1>4. /\ engine[h] \in Torrent
      /\ \A id \in DOMAIN jobs : jobs[id].handle = h => JobInv(jobs[id], engine[h], alerts)
      /\ faults' \in 0..MaxFaults
  BY <1>3, EngineFacts, FaultFacts DEF SkipAlert
<1>5. \A id \in DOMAIN jobs : jobs[id].handle = h => engine[h].life = "gone"
  BY DEF SkipAlert
<1>6. QueueKept(alerts, s, h)
  BY <1>1, TailQueueKept
<1> HIDE DEF h, s
<1>7. \A id \in DOMAIN jobs : jobs[id].handle = h =>
         /\ JobInv(jobs[id], engine[h], s)
         /\ \A need \in SUBSET Files : Covers(jobs[id], engine[h], alerts, need)
                                  => Covers(jobs[id], engine[h], s, need)
  BY <1>4, <1>5, AlikeKeeps
<1>8. engine' = [engine EXCEPT ![h] = engine[h]]
  BY <1>3 DEF SkipAlert, Inv, TypeOK
<1>9. UNCHANGED <<jobs, events, calls, asleep, alert_thread, wakes>> /\ faults' \in 0..MaxFaults
  BY <1>4 DEF SkipAlert
<1>10. engine[h] \in Torrent /\ s \in Seq(Alert) /\ alerts' = s
  BY <1>1, <1>2, <1>4
<1> QED
  BY <1>3, <1>6, <1>7, <1>8, <1>9, <1>10, EngineKeeps

\* The alert thread's exception changes none of the tables.
LEMMA AlertThrowsKeeps ==
    ASSUME Inv, NEW id, AlertThrows(id)
    PROVE  Inv' /\ FinalStep
<1>1. /\ UNCHANGED <<jobs, engine, alerts>> /\ UNCHANGED <<events, calls, asleep, faults, wakes>>
      /\ alert_thread' = "terminated"
  BY DEF AlertThrows
<1>2. /\ MailboxInv(events') /\ LiveIds(events') = LiveIds(events)
      /\ calls' \in [Threads -> Call] /\ asleep' \subseteq Threads
      /\ faults' \in 0..MaxFaults /\ wakes' \in 0..MaxWakes
  BY <1>1 DEF Inv, TypeOK
<1>3. CallsKnown' /\ NoLostWakeup'
  BY <1>1 DEF Inv, CallsKnown, Free, NoLostWakeup, Predicate, MetadataPredicate,
              CheckpointPredicate, NextEventPredicate
<1> QED
  BY <1>1, <1>2, <1>3, WaitKeeps

\* ltkit_session_destroy.
LEMMA DestroyKeeps ==
    ASSUME Inv, Destroy
    PROVE  Inv' /\ FinalStep
<1>1. /\ DOMAIN jobs' = {} /\ jobs' \in [DOMAIN jobs' -> SessionJob]
      /\ alerts' = <<>> /\ DOMAIN alerts' = {} /\ alerts' \in Seq(Alert)
      /\ UNCHANGED <<calls, asleep, faults, wakes>>
      /\ alert_thread' = "joined" /\ events' = EmptyMailbox
  BY DEF Destroy
<1>2. asleep = {} /\ \A c \in Threads : calls[c].op = "none"
  BY DEF Destroy, Inv, TypeOK, CallsKnown, Free
<1>3. Released \in Torrent
  BY NAssumption DEF Released, Torrent
<1>4. DOMAIN engine' = DOMAIN engine /\ engine' \in [DOMAIN engine -> Torrent]
  BY <1>3 DEF Destroy
<1>5. MailboxInv(events') /\ LiveIds(events') = {}
  BY <1>1, EmptyMailboxInv DEF EmptyMailbox, LiveIds
<1>6. TypeOK'
  BY <1>1, <1>2, <1>4, <1>5 DEF Inv, TypeOK, MailboxInv
<1>7. MailboxMirrorsJobs' /\ HandlesKnown'
  BY <1>1, <1>4, <1>5 DEF Inv, MailboxMirrorsJobs, HandlesKnown
<1>8. CallsKnown' /\ ActiveHasCaller' /\ NoLostWakeup' /\ RequestsCovered'
  BY <1>1, <1>2 DEF CallsKnown, ActiveHasCaller, NoLostWakeup, RequestsCovered, Threads
<1>9. FinalStep /\ \A id \in DOMAIN jobs' : JobInv(jobs'[id], TorrentOf(id)', alerts')
  BY <1>1 DEF FinalStep
<1> QED
  BY <1>5, <1>6, <1>7, <1>8, <1>9 DEF Inv

----------------------------------------------------------------------------
(* Adding and removing a torrent.                                            *)

\* ltkit_session_remove.
LEMMA RemoveKeeps ==
    ASSUME Inv, NEW c \in Callers, NEW id, Remove(c, id)
    PROVE  Inv' /\ FinalStep
<1> DEFINE h    == jobs[id].handle
           view == View(id)
<1>1. id \in DOMAIN jobs /\ ~jobs[id].checkpoint.active /\ asleep' = {}
      /\ UNCHANGED <<alerts, calls, alert_thread, faults, wakes>> /\ events' = Retire(events, id)
  BY DEF Remove
<1>2. /\ Typed(view) /\ view.torrent = engine[h] /\ view.job = jobs[id]
      /\ id \in Ids /\ h \in DOMAIN engine
  BY <1>1, ViewFacts DEF Given, TorrentOf
<1>3. DOMAIN jobs' = DOMAIN jobs \ {id} /\ \A i \in DOMAIN jobs' : jobs'[i] = jobs[i]
  BY <1>1 DEF Remove, Restrict
<1>4. jobs' \in [DOMAIN jobs' -> SessionJob]
  <2>1. jobs' = [i \in DOMAIN jobs \ {id} |-> jobs[i]]
    BY DEF Remove, Restrict
  <2> QED
    BY <1>3, <2>1 DEF Inv, TypeOK
<1>5. RemoveTorrent(view).torrent \in Torrent
  BY <1>2, RemoveTorrentEffect DEF Typed
<1>6. /\ DOMAIN engine' = DOMAIN engine /\ engine' \in [DOMAIN engine -> Torrent]
      /\ \A g \in DOMAIN engine : g # h => engine'[g] = engine[g]
  <2>1. engine \in [DOMAIN engine -> Torrent]
    BY DEF Inv, TypeOK
  <2>2. engine' = engine \/ engine' = [engine EXCEPT ![h] = RemoveTorrent(view).torrent]
    BY DEF Remove
  <2> HIDE DEF view
  <2> QED
    BY <1>2, <1>5, <2>1, <2>2
<1>7. MailboxInv(events') /\ LiveIds(events') = LiveIds(events) \ {id}
  BY <1>1, RetireKeeps, RetireLive DEF Inv, MailboxInv
<1>8. TypeOK'
  BY <1>1, <1>3, <1>4, <1>6, <1>7 DEF Inv, TypeOK, MailboxInv
<1>9. MailboxMirrorsJobs' /\ HandlesKnown'
  BY <1>1, <1>3, <1>6, <1>7 DEF Inv, MailboxMirrorsJobs, HandlesKnown
<1>10. ASSUME NEW d \in Callers, calls[d].op = "checkpoint" PROVE calls[d].id \in DOMAIN jobs'
  <2>1. calls[d].id # id
    BY <1>1, <1>10 DEF Inv, ActiveHasCaller
  <2> QED
    BY <1>3, <1>10, <2>1 DEF Inv, CallsKnown, Threads
<1>11. CallsKnown'
  <2>1. ASSUME NEW d \in Threads
        PROVE  /\ calls'[d].op \in {"metadata", "checkpoint"} => d \in Callers /\ calls'[d].id \in Ids
               /\ calls'[d].op = "next_event" => d = Reader
    BY <1>1, <2>1 DEF Inv, CallsKnown
  <2>2. ASSUME NEW d \in Threads, calls'[d].op = "checkpoint"
        PROVE  /\ calls'[d].id \in DOMAIN jobs'
               /\ \A e \in Callers :
                     calls'[e].op = "checkpoint" /\ calls'[e].id = calls'[d].id => e = d
    <3>1. d \in Callers /\ calls' = calls
      BY <1>1, <2>1, <2>2
    <3>2. \A e \in Callers : calls[e].op = "checkpoint" /\ calls[e].id = calls[d].id => e = d
      BY <2>2, <3>1 DEF Inv, CallsKnown
    <3> QED
      BY <1>10, <2>2, <3>1, <3>2
  <2>3. \A d \in asleep' : ~Free(d)'
    BY <1>1
  <2> QED
    BY <2>1, <2>2, <2>3 DEF CallsKnown
<1>12. ActiveHasCaller' /\ NoLostWakeup'
  BY <1>1, <1>3 DEF Inv, ActiveHasCaller, NoLostWakeup
<1>13. ASSUME NEW i \in DOMAIN jobs' PROVE jobs'[i] = jobs[i] /\ TorrentOf(i)' = TorrentOf(i)
  <2>1. i \in DOMAIN jobs /\ jobs'[i] = jobs[i] /\ jobs[i].handle # h /\ jobs[i].handle \in DOMAIN engine
    BY <1>1, <1>3 DEF Inv, HandlesKnown
  <2> QED
    BY <1>6, <2>1 DEF TorrentOf
<1>14. \A i \in DOMAIN jobs' : JobInv(jobs'[i], TorrentOf(i)', alerts')
  BY <1>1, <1>3, <1>13 DEF Inv
<1>15. RequestsCovered'
  <2> SUFFICES ASSUME NEW d \in Callers, calls[d].op = "checkpoint"
               PROVE  Covers(jobs'[calls[d].id], engine'[jobs'[calls[d].id].handle], alerts, calls[d].need)
    BY <1>1 DEF RequestsCovered, TorrentOf
  <2>1. Covers(jobs[calls[d].id], engine[jobs[calls[d].id].handle], alerts, calls[d].need)
    BY DEF Inv, RequestsCovered, TorrentOf
  <2>2. \A i \in DOMAIN jobs' :
           jobs'[i] = jobs[i] /\ engine'[jobs'[i].handle] = engine[jobs[i].handle]
    BY <1>13 DEF TorrentOf
  <2> QED
    BY <1>10, <2>1, <2>2
<1>16. FinalStep
  BY <1>3 DEF FinalStep
<1> QED
  BY <1>7, <1>8, <1>9, <1>11, <1>12, <1>14, <1>15, <1>16 DEF Inv

\* The torrent and the job of an add request.
LEMMA AddFacts ==
    ASSUME NEW r \in AddRequests, NEW h \in Handles, r.metadata => r.desired \subseteq Files
    PROVE  /\ NewTorrent(r) \in Torrent /\ NewTorrent(r).life = "live"
           /\ NewTorrent(r).requests = <<>> /\ NewTorrent(r).metadata = r.metadata
           /\ NewTorrent(r).finished => r.metadata
           /\ NewSessionJob(r, h) \in SessionJob /\ NewSessionJob(r, h).handle = h
           /\ NewSessionJob(r, h).checkpoint = NewCheckpoint
           /\ NewSessionJob(r, h).stopped = FALSE
           /\ NewSessionJob(r, h).completion_waiting = FALSE
           /\ NewSessionJob(r, h).completion_checkpoint = FALSE
<1>1. /\ r.desired \in SUBSET Indexes /\ r.metadata \in BOOLEAN /\ r.safe \in SUBSET Files
      /\ r.pieces \in {Unset} \cup SUBSET Files /\ r.written \in SUBSET Files
      /\ r.paused \in BOOLEAN /\ r.stops \in BOOLEAN
  BY AddAssumption
<1> DEFINE wanted  == IF ~r.metadata THEN {} ELSE IF r.pieces # Unset THEN r.pieces ELSE r.desired
           written == IF r.metadata THEN r.written ELSE {}
           ends    == r.metadata /\ wanted \subseteq written
           given   == IF r.metadata /\ r.desired # {} THEN r.desired ELSE Unset
           pieces  == IF r.metadata THEN r.pieces ELSE Unset
<1>3. /\ wanted \in SUBSET Files /\ written \in SUBSET Files /\ ends \in BOOLEAN
      /\ given \in {Unset} \cup SUBSET Files /\ pieces \in {Unset} \cup SUBSET Files
      /\ (ends => r.metadata)
  BY <1>1
<1>4. NewTorrent(r) = [life |-> "live", metadata |-> r.metadata, safe |-> r.safe,
                       paused |-> r.paused, wanted |-> wanted, written |-> written,
                       durable |-> written, intact |-> TRUE, finished |-> ends, requests |-> <<>>]
  BY DEF NewTorrent
<1>5. NewSessionJob(r, h) =
         [handle |-> h, desired |-> r.desired, priorities |-> given, pieces |-> pieces,
          metadata_ready |-> r.metadata, completion_stops |-> r.stops,
          completion_checkpoint |-> FALSE, completion_waiting |-> FALSE,
          completion_rechecked |-> FALSE, stopped |-> FALSE,
          fenced |-> {}, final |-> NoData, checkpoint |-> NewCheckpoint]
  BY DEF NewSessionJob
<1> HIDE DEF wanted, written, ends, given, pieces
<1>6. /\ NewTorrent(r) \in Torrent /\ NewTorrent(r).life = "live"
      /\ NewTorrent(r).requests = <<>> /\ NewTorrent(r).metadata = r.metadata
      /\ NewTorrent(r).finished => r.metadata
  BY <1>1, <1>3, <1>4 DEF Torrent
<1>7. /\ NewSessionJob(r, h) \in SessionJob /\ NewSessionJob(r, h).handle = h
      /\ NewSessionJob(r, h).checkpoint = NewCheckpoint
      /\ NewSessionJob(r, h).stopped = FALSE
      /\ NewSessionJob(r, h).completion_waiting = FALSE
      /\ NewSessionJob(r, h).completion_checkpoint = FALSE
  BY <1>1, <1>3, <1>5, NewCheckpointFacts DEF SessionJob
<1> QED
  BY <1>6, <1>7

\* ltkit_session_add_magnet and ltkit_session_add_torrent.
LEMMA AddTorrentKeeps ==
    ASSUME Inv, NEW c \in Callers, NEW id \in Ids, NEW r \in AddRequests, AddTorrent(c, id, r)
    PROVE  Inv' /\ FinalStep
<1> DEFINE h       == Cardinality(DOMAIN engine) + 1
           torrent == NewTorrent(r)
           job     == NewSessionJob(r, h)
           kept    == Add(events, id)
           a       == NewAlert("torrent_finished", h, NoData)
           s       == IF torrent.finished THEN Append(alerts, a) ELSE alerts
<1>1. /\ id \notin DOMAIN jobs /\ CanAdd(events, id) /\ (r.metadata => r.desired \subseteq Files)
      /\ Cardinality(DOMAIN engine) < MaxHandles
      /\ engine' = [x \in DOMAIN engine \cup {h} |-> IF x = h THEN torrent ELSE engine[x]]
      /\ jobs' = [i \in DOMAIN jobs \cup {id} |-> IF i = id THEN job ELSE jobs[i]]
      /\ events' = (IF r.metadata THEN Critical(kept, id, Kind.metadata, "metadataReady") ELSE kept)
      /\ asleep' = (IF r.metadata THEN {} ELSE asleep)
      /\ alerts' = s
      /\ UNCHANGED <<calls, alert_thread, faults, wakes>>
  BY DEF AddTorrent
<1>2. PICK n \in 0..MaxHandles : DOMAIN engine = 1..n
  BY DEF Inv, HandlesKnown
<1>3. /\ n \in Nat /\ MaxHandles \in Nat /\ h = n + 1 /\ h \in Handles
      /\ h \in 0..MaxHandles /\ h \notin DOMAIN engine /\ DOMAIN engine \cup {h} = 1..h
  <2>1. n \in Nat /\ MaxHandles \in Nat
    BY <1>2, BoundAssumption
  <2>2. Cardinality(1..n) = n
    BY <2>1, FS_Interval
  <2> QED
    BY <1>1, <1>2, <2>1, <2>2 DEF Handles
<1> HIDE DEF h
<1>4. /\ torrent \in Torrent /\ torrent.life = "live"
      /\ torrent.requests = <<>> /\ torrent.metadata = r.metadata
      /\ torrent.finished => r.metadata
      /\ job \in SessionJob /\ job.handle = h /\ job.checkpoint = NewCheckpoint
      /\ job.stopped = FALSE /\ job.completion_waiting = FALSE /\ job.completion_checkpoint = FALSE
  BY <1>1, <1>3, AddFacts
<1> HIDE DEF torrent, job
<1>5. a \in Alert /\ a.type = "torrent_finished" /\ a.handle = h
  BY <1>3, NewAlertFacts
<1> HIDE DEF a
<1>6. alerts \in Seq(Alert) /\ s \in Seq(Alert)
  BY <1>5 DEF Inv, TypeOK
<1>7. /\ DOMAIN jobs' = DOMAIN jobs \cup {id} /\ jobs'[id] = job
      /\ \A i \in DOMAIN jobs : i # id /\ jobs'[i] = jobs[i]
      /\ jobs' \in [DOMAIN jobs' -> SessionJob]
  BY <1>1, <1>4 DEF Inv, TypeOK
<1>8. /\ DOMAIN engine' = 1..h /\ engine'[h] = torrent
      /\ \A g \in DOMAIN engine : g # h /\ engine'[g] = engine[g]
      /\ engine' \in [DOMAIN engine' -> Torrent]
  BY <1>1, <1>3, <1>4 DEF Inv, TypeOK
<1>9. /\ MailboxInv(events') /\ LiveIds(events') = LiveIds(events) \cup {id}
  <2>1. /\ MailboxInv(kept) /\ MailboxType(kept)
        /\ LiveIds(kept) = LiveIds(events) \cup {id} /\ id \in DOMAIN kept.jobs
    BY <1>1, AddKeeps, AddLive DEF Inv, MailboxInv
  <2>2. "metadataReady" \in Json /\ Kind.metadata \in Kinds
    BY PayloadAssumption DEF Kind, Kinds
  <2> HIDE DEF kept
  <2> QED
    BY <1>1, <2>1, <2>2, CriticalKeeps, CriticalLive
<1>10. TypeOK'
  <2>1. h \in Nat /\ 1..h \subseteq Handles
    BY <1>3 DEF Handles
  <2> QED
    BY <1>1, <1>6, <1>7, <1>8, <1>9, <2>1 DEF Inv, TypeOK, MailboxInv
<1>11. MailboxMirrorsJobs'
  BY <1>7, <1>9 DEF Inv, MailboxMirrorsJobs
<1>12. \A i \in DOMAIN alerts : alerts[i].handle \in DOMAIN engine /\ alerts[i].handle # h
  BY <1>3 DEF Inv, HandlesKnown
<1>13. \A other : other # h => Alike(alerts, s, other)
  BY <1>5, <1>6, AppendAlike, QueueKeptTwice DEF QueueKept
<1>14. \A i \in DOMAIN jobs : /\ jobs[i].handle \in DOMAIN engine /\ jobs[i].handle # h
                              /\ engine'[jobs[i].handle] = engine[jobs[i].handle]
                              /\ Alike(alerts, s, jobs[i].handle)
  BY <1>3, <1>8, <1>13 DEF Inv, HandlesKnown
<1>15. HandlesKnown'
  <2>1. \A i \in DOMAIN s : s[i].handle = h \/ s[i].handle \in DOMAIN engine
    <3>1. CASE torrent.finished
      <4>1. \A i \in DOMAIN s : s[i] = a \/ (i \in DOMAIN alerts /\ s[i] = alerts[i])
        BY <1>5, <1>6, <3>1, AppendPositions
      <4> QED
        BY <1>5, <1>12, <4>1
    <3>2. CASE ~torrent.finished
      BY <1>12, <3>2
    <3> QED
      BY <3>1, <3>2
  <2>2. \E m \in 0..MaxHandles : DOMAIN engine' = 1..m
    BY <1>3, <1>8
  <2>3. DOMAIN engine' = DOMAIN engine \cup {h}
    BY <1>3, <1>8
  <2>4. \A i \in DOMAIN jobs' : jobs'[i].handle \in DOMAIN engine'
    BY <1>4, <1>7, <1>14, <2>3
  <2>5. \A i, j \in DOMAIN jobs' : jobs'[i].handle = jobs'[j].handle => i = j
    BY <1>4, <1>7, <1>14 DEF Inv, HandlesKnown
  <2>6. \A i \in DOMAIN alerts' : alerts'[i].handle \in DOMAIN engine'
    BY <1>1, <2>1, <2>3
  <2> QED
    BY <2>2, <2>4, <2>5, <2>6 DEF HandlesKnown
<1>16. \A d \in Callers : calls[d].op = "checkpoint" => calls[d].id \in DOMAIN jobs
  BY DEF Inv, CallsKnown, Threads
<1>17. CallsKnown'
  <2>1. \A d \in asleep' : ~Free(d)'
    BY <1>1 DEF Inv, CallsKnown, Free
  <2>2. ASSUME NEW d \in Threads
        PROVE  /\ calls'[d].op \in {"metadata", "checkpoint"} => d \in Callers /\ calls'[d].id \in Ids
               /\ calls'[d].op = "next_event" => d = Reader
    BY <1>1, <2>2 DEF Inv, CallsKnown
  <2>3. ASSUME NEW d \in Threads, calls'[d].op = "checkpoint"
        PROVE  /\ calls'[d].id \in DOMAIN jobs'
               /\ \A e \in Callers :
                     calls'[e].op = "checkpoint" /\ calls'[e].id = calls'[d].id => e = d
    <3>1. d \in Callers /\ calls' = calls
      BY <1>1, <2>2, <2>3
    <3>2. \A e \in Callers : calls[e].op = "checkpoint" /\ calls[e].id = calls[d].id => e = d
      BY <2>3, <3>1 DEF Inv, CallsKnown
    <3> QED
      BY <1>7, <1>16, <2>3, <3>1, <3>2
  <2> QED
    BY <2>1, <2>2, <2>3 DEF CallsKnown
<1>18. ActiveHasCaller'
  <2>1. ~job.checkpoint.active
    BY <1>4, NewCheckpointFacts
  <2>2. \A i \in DOMAIN jobs : jobs'[i].checkpoint.active <=>
           \E d \in Callers : calls[d].op = "checkpoint" /\ calls[d].id = i
    BY <1>7 DEF Inv, ActiveHasCaller
  <2> QED
    BY <1>1, <1>7, <1>16, <2>1, <2>2 DEF ActiveHasCaller
<1>19. NoLostWakeup'
  <2> SUFFICES ASSUME NEW d \in asleep, asleep' = asleep, ~r.metadata PROVE ~Predicate(d)'
    BY <1>1 DEF NoLostWakeup
  <2>1. ~Predicate(d) /\ calls' = calls /\ events' = kept
    BY <1>1 DEF Inv, NoLostWakeup
  <2>2. HasFront(kept) => HasFront(events)
    <3>1. kept.critical = events.critical /\ StatusIds(kept) \subseteq StatusIds(events)
      <4>1. /\ kept.critical = events.critical
            /\ DOMAIN kept.jobs = DOMAIN events.jobs \cup {id}
            /\ kept.jobs[id].status = NoStatus
            /\ \A i \in DOMAIN events.jobs : i # id /\ kept.jobs[i] = events.jobs[i]
        BY <1>1 DEF Add, Inv, MailboxInv, MailboxType, CanAdd, NewJob
      <4> HIDE DEF kept
      <4> QED
        BY <4>1 DEF StatusIds
    <3> HIDE DEF kept
    <3> QED
      BY <3>1 DEF HasFront, FrontIsCritical, FrontIsStatus
  <2>3. ~(calls[d].op = "metadata" /\ MetadataPredicate(d)')
    BY <1>7, <2>1 DEF Predicate, MetadataPredicate
  <2>4. ~(calls[d].op = "checkpoint" /\ CheckpointPredicate(d)')
    BY <1>7, <2>1 DEF Predicate, CheckpointPredicate
  <2>5. ~(calls[d].op = "next_event" /\ NextEventPredicate(d)')
    <3> HIDE DEF kept
    <3> QED
      BY <2>1, <2>2 DEF Predicate, NextEventPredicate
  <2> QED
    BY <2>1, <2>3, <2>4, <2>5 DEF Predicate
<1>20. JobInv(job, torrent, s)
  <2>1. DoneInStep(job.checkpoint) /\ HasOwner(job) /\ StoppedForGood(job, torrent)
    BY <1>4, NewCheckpointFacts DEF DoneInStep, HasOwner, StoppedForGood
  <2>2. /\ NoReply(alerts, h) /\ MetadataFirst(alerts, h)
        /\ \A type : ~HasAlert(alerts, h, type)
    BY <1>12 DEF NoReply, IsReply, MetadataFirst, HasAlert
  <2>3. /\ NoReply(s, h) /\ MetadataFirst(s, h)
        /\ ~HasAlert(s, h, "metadata_received")
        /\ ~torrent.metadata => ~HasAlert(s, h, "torrent_finished")
    <3>1. CASE ~torrent.finished
      BY <2>2, <3>1
    <3>2. CASE torrent.finished
      <4>1. ~IsReply(a, h)
        BY <1>5 DEF IsReply, Replies
      <4>2. NoReply(Append(alerts, a), h)
        BY <1>6, <1>5, <2>2, <4>1, AppendKeeps
      <4>3. MetadataFirst(Append(alerts, a), h)
        BY <1>6, <1>5, <2>2, AppendKeeps
      <4>4. ~HasAlert(Append(alerts, a), h, "metadata_received")
        BY <1>6, <1>5, <2>2, AppendKeeps
      <4> QED
        BY <1>4, <3>2, <4>2, <4>3, <4>4
    <3> QED
      BY <3>1, <3>2
  <2> HIDE DEF s
  <2>4. SlotExact(job, torrent, s)
    BY <1>4, <2>3, NewCheckpointFacts DEF SlotExact, OwesNothing, Pending
  <2>5. MetadataOnce(job, torrent, s)
    BY <1>4, <2>3 DEF MetadataOnce
  <2> QED
    BY <1>4, <2>1, <2>4, <2>5 DEF JobInv
<1> HIDE DEF s
<1>21. ASSUME NEW i \in DOMAIN jobs' PROVE JobInv(jobs'[i], engine'[jobs'[i].handle], s)
  <2>1. CASE i = id
    BY <1>4, <1>7, <1>8, <1>20, <2>1
  <2>2. CASE i \in DOMAIN jobs
    <3>1. JobInv(jobs[i], engine[jobs[i].handle], alerts)
      BY <2>2 DEF Inv, TorrentOf
    <3> QED
      BY <1>7, <1>14, <2>2, <3>1, AlikeKeeps
  <2> QED
    BY <1>7, <2>1, <2>2
<1>22. \A i \in DOMAIN jobs' : JobInv(jobs'[i], TorrentOf(i)', alerts')
  BY <1>1, <1>21 DEF TorrentOf
<1>23. RequestsCovered'
  <2> SUFFICES ASSUME NEW d \in Callers, calls[d].op = "checkpoint"
               PROVE  Covers(jobs'[calls[d].id], engine'[jobs'[calls[d].id].handle], s, calls[d].need)
    BY <1>1 DEF RequestsCovered, TorrentOf
  <2>1. Covers(jobs[calls[d].id], engine[jobs[calls[d].id].handle], alerts, calls[d].need)
    BY DEF Inv, RequestsCovered, TorrentOf
  <2>2. calls[d].id \in DOMAIN jobs
    BY <1>16
  <2> QED
    BY <1>7, <1>14, <2>1, <2>2, AlikeKeeps
<1>24. FinalStep
  BY <1>7 DEF FinalStep
<1> QED
  BY <1>9, <1>10, <1>11, <1>15, <1>17, <1>18, <1>19, <1>22, <1>23, <1>24 DEF Inv

----------------------------------------------------------------------------
(* The theorems.                                                             *)

\* An empty session is in step.
LEMMA InitInv == Init => Inv
<1> SUFFICES ASSUME Init PROVE Inv
  OBVIOUS
<1>1. /\ DOMAIN jobs = {} /\ jobs \in [DOMAIN jobs -> SessionJob]
      /\ DOMAIN engine = {} /\ engine \in [DOMAIN engine -> Torrent]
      /\ alerts \in Seq(Alert) /\ DOMAIN alerts = {} /\ asleep = {}
  BY DEF Init
<1>2. calls \in [Threads -> Call] /\ \A c \in Threads : calls[c].op = "none"
  BY NoCallFacts DEF Init
<1>3. MailboxInv(events) /\ LiveIds(events) = {}
  BY EmptyMailboxInv DEF Init, EmptyMailbox, LiveIds
<1>4. TypeOK
  BY <1>1, <1>2, <1>3, BoundAssumption DEF Init, TypeOK, MailboxInv
<1>5. MailboxMirrorsJobs
  BY <1>1, <1>3 DEF MailboxMirrorsJobs
<1>6. HandlesKnown
  <2>1. MaxHandles \in Nat
    BY BoundAssumption
  <2>2. 0 \in 0..MaxHandles /\ 1..0 = {}
    BY <2>1
  <2> QED
    BY <1>1, <2>2 DEF HandlesKnown
<1>7. CallsKnown /\ ActiveHasCaller /\ NoLostWakeup /\ RequestsCovered
  BY <1>1, <1>2 DEF CallsKnown, ActiveHasCaller, NoLostWakeup, RequestsCovered, Threads
<1> QED
  BY <1>1, <1>3, <1>4, <1>5, <1>6, <1>7 DEF Inv

\* A step that changes nothing.
LEMMA StutterKeeps ==
    ASSUME Inv, UNCHANGED vars
    PROVE  Inv' /\ FinalStep
<1>1. /\ UNCHANGED <<jobs, engine, alerts>>
      /\ UNCHANGED <<events, calls, asleep, alert_thread, faults, wakes>>
  BY DEF vars
<1>2. /\ MailboxInv(events') /\ LiveIds(events') = LiveIds(events)
      /\ calls' \in [Threads -> Call] /\ asleep' \subseteq Threads
      /\ alert_thread' \in {"running", "joined", "terminated"}
      /\ faults' \in 0..MaxFaults /\ wakes' \in 0..MaxWakes
  BY <1>1 DEF Inv, TypeOK
<1>3. CallsKnown' /\ NoLostWakeup'
  BY <1>1 DEF Inv, CallsKnown, Free, NoLostWakeup, Predicate, MetadataPredicate,
              CheckpointPredicate, NextEventPredicate
<1> QED
  BY <1>1, <1>2, <1>3, WaitKeeps

\* Every step keeps the invariant, and touches the snapshot of a job only to
\* publish a completion.
LEMMA NextKeeps ==
    ASSUME Inv, [Next]_vars
    PROVE  Inv' /\ FinalStep
<1>1. CASE HandleAlert
  <2>1. CASE SkipAlert
    BY <2>1, SkipAlertKeeps
  <2>2. ASSUME NEW id \in Ids, AlertThrows(id) PROVE Inv' /\ FinalStep
    BY <2>2, AlertThrowsKeeps
  <2>3. ASSUME NEW id \in Ids,
               \/ MetadataReceived(id) \/ TorrentFinished(id) \/ CacheFlushedAlert(id)
               \/ SaveResumeData(id) \/ SaveResumeDataFailed(id)
               \/ ErrorAlert(id) \/ StateChanged(id)
        PROVE  Inv' /\ FinalStep
    BY <2>3, HandlersKeep
  <2> QED
    BY <1>1, <2>1, <2>2, <2>3 DEF HandleAlert
<1>2. CASE ClientCall
  <2>1. ASSUME NEW c \in Callers, NEW id \in Ids, NEW r \in AddRequests, AddTorrent(c, id, r)
        PROVE  Inv' /\ FinalStep
    BY <2>1, AddTorrentKeeps
  <2>2. ASSUME NEW c \in Callers, NEW id \in Ids, Metadata(c, id) \/ Remove(c, id)
        PROVE  Inv' /\ FinalStep
    BY <2>2, MetadataKeeps, RemoveKeeps
  <2>3. ASSUME NEW c \in Callers, NEW id \in Ids,
               \/ Start(c, id) \/ Pause(c, id)
               \/ \E files \in Selections :
                     SelectFiles(c, id, files) \/ SelectFilesRejected(c, id, files)
               \/ \E p \in Files, on \in BOOLEAN : SetPiecePriority(c, id, p, on)
               \/ \E f \in Files : UpdateStreamingWindow(c, id, f)
               \/ ClearStreamingWindow(c, id)
        PROVE  Inv' /\ FinalStep
    BY <2>3, CallsKeep
  <2>4. ASSUME NEW c \in Callers, NEW id \in Ids, NEW flush \in BOOLEAN, CheckpointCall(c, id, flush)
        PROVE  Inv' /\ FinalStep
    BY <2>4, CheckpointCallKeeps
  <2>5. CASE NextEvent \/ Wake \/ Destroy
    BY <2>5, NextEventKeeps, WakeKeeps, DestroyKeeps
  <2> QED
    BY <1>2, <2>1, <2>2, <2>3, <2>4, <2>5 DEF ClientCall
<1>3. ASSUME NEW c \in Callers, Return(c) PROVE Inv' /\ FinalStep
  BY <1>3, MetadataReturnKeeps, CheckpointReturnKeeps DEF Return
<1>4. CASE NextEventReturn \/ \E c \in Threads : Resleep(c)
  BY <1>4, NextEventKeeps, ResleepKeeps
<1>5. CASE EngineStep
  BY <1>5, EngineStepKeeps
<1>6. CASE Ended \/ UNCHANGED vars
  BY <1>6, StutterKeeps DEF Ended
<1> QED
  BY <1>1, <1>2, <1>3, <1>4, <1>5, <1>6 DEF Next

(***************************************************************************)
(* The session's tables, its barrier, its waits and what the engine owes it  *)
(* stay in step, however alerts, client calls, timeouts, cancellations and   *)
(* faults interleave.                                                        *)
(***************************************************************************)
THEOREM InvHolds == Spec => []Inv
<1>1. Inv /\ [Next]_vars => Inv'
  BY NextKeeps
<1> QED
  BY <1>1, InitInv, PTL DEF Spec

\* The types of the session's state: among them that the engine is handed only
\* priorities of files the torrent has.
THEOREM TypeOKHolds == Spec => []TypeOK
<1>1. Inv => TypeOK
  BY DEF Inv
<1> QED
  BY <1>1, InvHolds, PTL

\* critical() and status() never look up an identifier that is not there.
THEOREM MailboxMirrorsJobsHolds == Spec => []MailboxMirrorsJobs
<1>1. Inv => MailboxMirrorsJobs
  BY DEF Inv
<1> QED
  BY <1>1, InvHolds, PTL

\* "One native request at a time, including after a caller times out."
THEOREM OneRequestAtATimeHolds == Spec => []OneRequestAtATime
<1>1. Inv => OneRequestAtATime
  BY DEF Inv, OneRequestAtATime, JobInv
<1> QED
  BY <1>1, InvHolds, PTL

\* A completion that waits has somebody to start it, one that runs owns the barrier.
THEOREM CompletionHasOwnerHolds == Spec => []CompletionHasOwner
<1>1. Inv => CompletionHasOwner
  BY DEF Inv, CompletionHasOwner, JobInv
<1> QED
  BY <1>1, InvHolds, PTL

\* The caller of an active checkpoint is there to take its reply.
THEOREM ActiveHasCallerHolds == Spec => []ActiveHasCaller
<1>1. Inv => ActiveHasCaller
  BY DEF Inv
<1> QED
  BY <1>1, InvHolds, PTL

\* No thread sleeps on the condition variable with something to return for.
THEOREM NoLostWakeupHolds == Spec => []NoLostWakeup
<1>1. Inv => NoLostWakeup
  BY DEF Inv
<1> QED
  BY <1>1, InvHolds, PTL

\* A flushed checkpoint that reports success covers what was written before it.
THEOREM FlushCoversRequestHolds == Spec => []FlushCoversRequest
<1>1. Inv => FlushCoversRequest
  BY DEF Inv, RequestsCovered, Covers, FlushCoversRequest
<1> QED
  BY <1>1, InvHolds, PTL

\* "completed" is published only for a selection that is downloaded and on disk,
\* behind the fence that the completion last asked for: all that was written then
\* has left the write cache and is in the resume data kept for the client.
THEOREM CompletedIsFencedHolds == Spec => CompletedIsFenced
<1>1. Inv /\ [Next]_vars =>
        [\A id \in DOMAIN jobs \cap DOMAIN jobs' : PublishesCompleted(id) =>
            /\ jobs[id].desired # {} /\ jobs[id].desired \subseteq TorrentOf(id).written
            /\ TorrentOf(id).intact
            /\ jobs[id].fenced \subseteq TorrentOf(id).durable
            /\ jobs[id].fenced \subseteq jobs'[id].final]_vars
  BY NextKeeps DEF FinalStep, CompletedWell, PublishesCompleted
<1> QED
  BY <1>1, InvHolds, PTL DEF Spec, CompletedIsFenced

\* A stopped torrent stays stopped, with the snapshot it stopped with.
THEOREM StoppedIsFinalHolds == Spec => StoppedIsFinal
<1>1. Inv /\ [Next]_vars =>
        [\A id \in DOMAIN jobs \cap DOMAIN jobs' :
            jobs[id].stopped => jobs'[id].stopped /\ jobs'[id].final = jobs[id].final]_vars
  BY NextKeeps DEF FinalStep
<1> QED
  BY <1>1, InvHolds, PTL DEF Spec, StoppedIsFinal
=============================================================================
