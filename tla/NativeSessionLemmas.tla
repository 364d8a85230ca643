------------------------ MODULE NativeSessionLemmas ------------------------
(***************************************************************************)
(* Lemmas about the native session: what becomes of the alert queue, what    *)
(* the helpers of ltkit_session return, and what each of them keeps of JobInv*)
(* for a job, its torrent and the queue.                                     *)
(***************************************************************************)
EXTENDS NativeSession, EventMailboxProofs, SequenceTheorems

----------------------------------------------------------------------------
(* The alert queue.                                                          *)

\* Positions of a queue whose head has been taken.
LEMMA TailPositions ==
    ASSUME NEW s \in Seq(Alert), s # <<>>
    PROVE  /\ Head(s) = s[1] /\ Head(s) \in Alert /\ 1 \in DOMAIN s
           /\ Tail(s) \in Seq(Alert)
           /\ \A i \in DOMAIN Tail(s) : i \in Nat /\ i + 1 \in DOMAIN s /\ Tail(s)[i] = s[i + 1]
           /\ \A i \in DOMAIN s : i \in Nat /\ (i # 1 => i - 1 \in DOMAIN Tail(s) /\ Tail(s)[i - 1] = s[i])
<1>1. /\ Len(s) \in Nat /\ Len(s) > 0 /\ DOMAIN s = 1..Len(s)
      /\ Tail(s) \in Seq(Alert) /\ Len(Tail(s)) = Len(s) - 1 /\ DOMAIN Tail(s) = 1..(Len(s) - 1)
      /\ \A i \in 1..(Len(s) - 1) : Tail(s)[i] = s[i + 1]
  OBVIOUS
<1>2. Head(s) = s[1] /\ s[1] \in Alert
  BY <1>1
<1> QED
  BY <1>1, <1>2

\* Positions of a queue to which an alert has been added.
LEMMA AppendPositions ==
    ASSUME NEW s \in Seq(Alert), NEW a \in Alert
    PROVE  LET t == Append(s, a)
               n == Len(s) + 1
           IN  /\ t \in Seq(Alert) /\ n \in Nat /\ n \in DOMAIN t /\ t[n] = a
               /\ DOMAIN t = DOMAIN s \cup {n}
               /\ \A i \in DOMAIN s : i \in Nat /\ i < n /\ t[i] = s[i]
  OBVIOUS

\* Taking the head away, whatever it is ...
LEMMA TailKeeps ==
    ASSUME NEW s \in Seq(Alert), s # <<>>, NEW h
    PROVE  /\ NoReply(s, h) => NoReply(Tail(s), h)
           /\ \A type : ~HasAlert(s, h, type) => ~HasAlert(Tail(s), h, type)
           /\ MetadataFirst(s, h) => MetadataFirst(Tail(s), h)
           /\ \A need : DataAtLeast(s, h, need) => DataAtLeast(Tail(s), h, need)
           /\ \A moved : /\ FlushOrError(s, h, moved)
                         /\ Head(s).handle = h => Head(s).type # "error"
                         => FlushOrError(Tail(s), h, moved)
<1> DEFINE t == Tail(s)
<1>1. \A i \in DOMAIN t : i \in Nat /\ i + 1 \in DOMAIN s /\ t[i] = s[i + 1]
  BY TailPositions
<1>2. \A i \in DOMAIN s : i \in Nat /\ (i # 1 => i - 1 \in DOMAIN t /\ t[i - 1] = s[i])
  BY TailPositions
<1>3. Head(s) = s[1]
  BY TailPositions
<1> HIDE DEF t
<1>4. NoReply(s, h) => NoReply(t, h)
  BY <1>1 DEF NoReply
<1>5. \A type : ~HasAlert(s, h, type) => ~HasAlert(t, h, type)
  BY <1>1 DEF HasAlert
<1>6. MetadataFirst(s, h) => MetadataFirst(t, h)
  <2> SUFFICES ASSUME MetadataFirst(s, h), NEW i \in DOMAIN t, NEW j \in DOMAIN t,
                      t[i].handle = h, t[i].type = "metadata_received",
                      t[j].handle = h, t[j].type = "torrent_finished"
               PROVE  i < j
    BY DEF MetadataFirst
  <2>1. i + 1 < j + 1
    BY <1>1 DEF MetadataFirst
  <2> QED
    BY <1>1, <2>1
<1>7. \A need : DataAtLeast(s, h, need) => DataAtLeast(t, h, need)
  BY <1>1 DEF DataAtLeast
<1>8. ASSUME NEW moved, FlushOrError(s, h, moved), Head(s).handle = h => Head(s).type # "error"
      PROVE  FlushOrError(t, h, moved)
  <2> SUFFICES ASSUME NEW i \in DOMAIN t, t[i].handle = h, t[i].type = "cache_flushed", ~moved
               PROVE  \E j \in DOMAIN t : j < i /\ t[j].handle = h /\ t[j].type = "error"
    BY DEF FlushOrError
  <2>1. PICK j \in DOMAIN s : j < i + 1 /\ s[j].handle = h /\ s[j].type = "error"
    BY <1>1, <1>8 DEF FlushOrError
  <2>2. j # 1
    BY <1>3, <1>8, <2>1
  <2>3. j - 1 \in DOMAIN t /\ t[j - 1] = s[j] /\ j - 1 < i
    BY <1>1, <1>2, <2>1, <2>2
  <2> QED
    BY <2>1, <2>3
<1> QED
  BY <1>4, <1>5, <1>6, <1>7, <1>8 DEF t

\* ... and a head that is a reply, or is none.
LEMMA TailReply ==
    ASSUME NEW s \in Seq(Alert), s # <<>>, NEW h, NEW request, OneReply(s, h, request)
    PROVE  /\ ~IsReply(Head(s), h) => OneReply(Tail(s), h, request)
           /\ IsReply(Head(s), h) => NoReply(Tail(s), h) /\ Replies[Head(s).type] = request
<1> DEFINE t == Tail(s)
<1>1. \A i \in DOMAIN t : i \in Nat /\ i + 1 \in DOMAIN s /\ t[i] = s[i + 1]
  BY TailPositions
<1>2. \A i \in DOMAIN s : i \in Nat /\ (i # 1 => i - 1 \in DOMAIN t /\ t[i - 1] = s[i])
  BY TailPositions
<1>3. Head(s) = s[1] /\ 1 \in DOMAIN s
  BY TailPositions
<1>4. PICK i \in DOMAIN s : /\ IsReply(s[i], h) /\ Replies[s[i].type] = request
                            /\ \A j \in DOMAIN s : IsReply(s[j], h) => j = i
  BY DEF OneReply
<1> HIDE DEF t
<1>5. CASE i = 1
  <2>1. IsReply(Head(s), h) /\ Replies[Head(s).type] = request
    BY <1>3, <1>4, <1>5
  <2>2. NoReply(t, h)
    <3> SUFFICES ASSUME NEW k \in DOMAIN t, IsReply(t[k], h) PROVE FALSE
      BY DEF NoReply
    <3>1. k \in Nat /\ k + 1 = 1 /\ k + 1 \in DOMAIN s
      BY <1>1, <1>4, <1>5
    <3>2. k = 0 /\ t = Tail(s)
      BY <3>1 DEF t
    <3> QED
      BY <3>2
  <2> QED
    BY <2>1, <2>2 DEF t
<1>6. CASE i # 1
  <2>1. ~IsReply(Head(s), h)
    BY <1>3, <1>4, <1>6
  <2>2. /\ i - 1 \in DOMAIN t /\ t[i - 1] = s[i]
    BY <1>2, <1>6
  <2>3. \A k \in DOMAIN t : IsReply(t[k], h) => k = i - 1
    <3> SUFFICES ASSUME NEW k \in DOMAIN t, IsReply(t[k], h) PROVE k = i - 1
      OBVIOUS
    <3>1. k \in Nat /\ k + 1 = i
      BY <1>1, <1>4
    <3> QED
      BY <3>1
  <2>4. OneReply(t, h, request)
    BY <1>4, <2>2, <2>3 DEF OneReply
  <2> QED
    BY <2>1, <2>4 DEF t
<1> QED
  BY <1>5, <1>6

\* Behind a torrent_finished there is no metadata_received.
LEMMA FinishedAtHead ==
    ASSUME NEW s \in Seq(Alert), s # <<>>, NEW h, MetadataFirst(s, h),
           Head(s).handle = h, Head(s).type = "torrent_finished"
    PROVE  ~HasAlert(s, h, "metadata_received")
<1>1. \A i \in DOMAIN s : i \in Nat /\ i >= 1
  OBVIOUS
<1>2. Head(s) = s[1] /\ 1 \in DOMAIN s
  BY TailPositions
<1> QED
  BY <1>1, <1>2 DEF MetadataFirst, HasAlert

\* The head is in the queue.
LEMMA HeadIsAlert ==
    ASSUME NEW s \in Seq(Alert), s # <<>>
    PROVE  /\ HasAlert(s, Head(s).handle, Head(s).type)
           /\ \A h : NoReply(s, h) => ~IsReply(Head(s), h)
           /\ \A need : /\ DataAtLeast(s, Head(s).handle, need)
                        /\ Head(s).type = "save_resume_data"
                        => need \subseteq Head(s).data
<1>1. Head(s) = s[1] /\ 1 \in DOMAIN s
  BY TailPositions
<1>2. HasAlert(s, Head(s).handle, Head(s).type)
  BY <1>1 DEF HasAlert
<1>3. \A h : NoReply(s, h) => ~IsReply(Head(s), h)
  BY <1>1 DEF NoReply
<1>4. \A need : /\ DataAtLeast(s, Head(s).handle, need)
                /\ Head(s).type = "save_resume_data"
                => need \subseteq Head(s).data
  BY <1>1 DEF DataAtLeast
<1> QED
  BY <1>2, <1>3, <1>4

\* A flush at the head has no error alert ahead of it.
LEMMA FlushAtHead ==
    ASSUME NEW s \in Seq(Alert), s # <<>>, NEW h, NEW moved, FlushOrError(s, h, moved),
           Head(s).handle = h, Head(s).type = "cache_flushed"
    PROVE  moved
<1>1. \A i \in DOMAIN s : i \in Nat /\ i >= 1
  OBVIOUS
<1>2. Head(s) = s[1] /\ 1 \in DOMAIN s
  BY TailPositions
<1> QED
  BY <1>1, <1>2 DEF FlushOrError

\* Adding an alert.
LEMMA AppendKeeps ==
    ASSUME NEW s \in Seq(Alert), NEW a \in Alert, NEW h
    PROVE  LET t == Append(s, a)
           IN  /\ NoReply(s, h) /\ ~IsReply(a, h) => NoReply(t, h)
               /\ NoReply(s, h) /\ IsReply(a, h) => OneReply(t, h, Replies[a.type])
               /\ \A request : OneReply(s, h, request) /\ ~IsReply(a, h) => OneReply(t, h, request)
               /\ \A type : HasAlert(t, h, type) <=>
                               HasAlert(s, h, type) \/ (a.handle = h /\ a.type = type)
               /\ /\ MetadataFirst(s, h)
                  /\ a.handle = h /\ a.type = "metadata_received"
                        => ~HasAlert(s, h, "torrent_finished")
                  => MetadataFirst(t, h)
               /\ \A need : /\ DataAtLeast(s, h, need)
                            /\ a.handle = h /\ a.type = "save_resume_data" => need \subseteq a.data
                            => DataAtLeast(t, h, need)
               /\ \A moved : /\ FlushOrError(s, h, moved)
                             /\ a.handle = h /\ a.type = "cache_flushed"
                                   => moved \/ HasAlert(s, h, "error")
                             => FlushOrError(t, h, moved)
<1> DEFINE t == Append(s, a)
           n == Len(s) + 1
<1>1. /\ n \in Nat /\ n \in DOMAIN t /\ t[n] = a
      /\ DOMAIN t = DOMAIN s \cup {n}
      /\ \A i \in DOMAIN s : i \in Nat /\ i < n /\ t[i] = s[i]
  BY AppendPositions
<1> HIDE DEF t, n
<1>2. NoReply(s, h) /\ ~IsReply(a, h) => NoReply(t, h)
  BY <1>1 DEF NoReply
<1>3. NoReply(s, h) /\ IsReply(a, h) => OneReply(t, h, Replies[a.type])
  BY <1>1 DEF NoReply, OneReply
<1>4. ASSUME NEW request, OneReply(s, h, request), ~IsReply(a, h) PROVE OneReply(t, h, request)
  <2>1. PICK i \in DOMAIN s : /\ IsReply(s[i], h) /\ Replies[s[i].type] = request
                              /\ \A j \in DOMAIN s : IsReply(s[j], h) => j = i
    BY <1>4 DEF OneReply
  <2>2. i \in DOMAIN t /\ IsReply(t[i], h) /\ Replies[t[i].type] = request
    BY <1>1, <2>1
  <2>3. \A j \in DOMAIN t : IsReply(t[j], h) => j = i
    BY <1>1, <1>4, <2>1
  <2> QED
    BY <2>2, <2>3 DEF OneReply
<1>5. \A type : HasAlert(t, h, type) <=> HasAlert(s, h, type) \/ (a.handle = h /\ a.type = type)
  BY <1>1 DEF HasAlert
<1>6. ASSUME MetadataFirst(s, h),
             a.handle = h /\ a.type = "metadata_received" => ~HasAlert(s, h, "torrent_finished")
      PROVE  MetadataFirst(t, h)
  <2> SUFFICES ASSUME NEW i \in DOMAIN t, NEW j \in DOMAIN t,
                      t[i].handle = h, t[i].type = "metadata_received",
                      t[j].handle = h, t[j].type = "torrent_finished"
               PROVE  i < j
    BY DEF MetadataFirst
  <2>1. CASE i \in DOMAIN s /\ j \in DOMAIN s
    BY <1>1, <1>6, <2>1 DEF MetadataFirst
  <2>2. CASE i \in DOMAIN s /\ j = n
    BY <1>1, <2>2
  <2>3. CASE i = n /\ j \in DOMAIN s
    BY <1>1, <1>6, <2>3 DEF HasAlert
  <2>4. CASE i = n /\ j = n
    BY <1>1, <2>4
  <2> QED
    BY <1>1, <2>1, <2>2, <2>3, <2>4
<1>7. \A need : /\ DataAtLeast(s, h, need)
                /\ a.handle = h /\ a.type = "save_resume_data" => need \subseteq a.data
                => DataAtLeast(t, h, need)
  BY <1>1 DEF DataAtLeast
<1>8. ASSUME NEW moved, FlushOrError(s, h, moved),
             a.handle = h /\ a.type = "cache_flushed" => moved \/ HasAlert(s, h, "error")
      PROVE  FlushOrError(t, h, moved)
  <2> SUFFICES ASSUME NEW i \in DOMAIN t, t[i].handle = h, t[i].type = "cache_flushed", ~moved
               PROVE  \E j \in DOMAIN t : j < i /\ t[j].handle = h /\ t[j].type = "error"
    BY DEF FlushOrError
  <2>1. CASE i \in DOMAIN s
    <3>1. \E j \in DOMAIN s : j < i /\ s[j].handle = h /\ s[j].type = "error"
      BY <1>1, <1>8, <2>1 DEF FlushOrError
    <3> QED
      BY <1>1, <3>1
  <2>2. CASE i = n
    <3>1. HasAlert(s, h, "error")
      BY <1>1, <1>8, <2>2
    <3> QED
      BY <1>1, <2>2, <3>1 DEF HasAlert
  <2> QED
    BY <1>1, <2>1, <2>2
<1> QED
  BY <1>2, <1>3, <1>4, <1>5, <1>6, <1>7, <1>8 DEF t

\* A torrent without replies owes nothing that could cover too little.
LEMMA NoReplyCovers ==
    ASSUME NEW s \in Seq(Alert), NEW h, NoReply(s, h)
    PROVE  /\ \A moved : FlushOrError(s, h, moved)
           /\ \A need : DataAtLeast(s, h, need)
  BY DEF NoReply, IsReply, Replies, FlushOrError, DataAtLeast

\* A flush that has moved enough needs no error alert.
LEMMA MovedFlush ==
    ASSUME NEW s, NEW h, NEW moved, moved
    PROVE  FlushOrError(s, h, moved)
  BY DEF FlushOrError

\* For the torrent of handle h the queue t has the replies of the queue s ...
RepliesAlike(s, t, h) ==
    /\ NoReply(s, h) => NoReply(t, h)
    /\ \A request : OneReply(s, h, request) => OneReply(t, h, request)
    /\ \A need : DataAtLeast(s, h, need) => DataAtLeast(t, h, need)
    /\ \A moved : FlushOrError(s, h, moved) => FlushOrError(t, h, moved)

\* ... and announces nothing that s did not.
Alike(s, t, h) ==
    /\ RepliesAlike(s, t, h)
    /\ \A type \in {"metadata_received", "torrent_finished"} :
          HasAlert(t, h, type) => HasAlert(s, h, type)
    /\ MetadataFirst(s, h) => MetadataFirst(t, h)

\* A head that is neither a reply nor an error may go.
LEMMA TailAlike ==
    ASSUME NEW s \in Seq(Alert), s # <<>>, NEW h,
           Head(s).handle = h => ~IsReply(Head(s), h) /\ Head(s).type # "error"
    PROVE  Alike(s, Tail(s), h)
<1>1. ~IsReply(Head(s), h)
  BY DEF IsReply
<1>2. \A request : OneReply(s, h, request) => OneReply(Tail(s), h, request)
  BY <1>1, TailReply
<1>3. \A moved : FlushOrError(s, h, moved) => FlushOrError(Tail(s), h, moved)
  BY TailKeeps
<1> QED
  BY <1>2, <1>3, TailKeeps DEF Alike, RepliesAlike

\* An alert about another torrent, an error or a change of state may come.
LEMMA AppendAlike ==
    ASSUME NEW s \in Seq(Alert), NEW a \in Alert, NEW h,
           a.handle # h \/ a.type \in {"error", "state_changed"}
    PROVE  Alike(s, Append(s, a), h)
<1>1. ~IsReply(a, h)
  BY DEF IsReply, Replies
<1>2. a.handle = h => a.type \notin {"metadata_received", "torrent_finished", "cache_flushed", "save_resume_data"}
  OBVIOUS
<1>3. NoReply(s, h) => NoReply(Append(s, a), h)
  BY <1>1, AppendKeeps
<1>4. \A request : OneReply(s, h, request) => OneReply(Append(s, a), h, request)
  BY <1>1, AppendKeeps
<1>5. \A type \in {"metadata_received", "torrent_finished"} :
          HasAlert(Append(s, a), h, type) => HasAlert(s, h, type)
  BY <1>2, AppendKeeps
<1>6. MetadataFirst(s, h) => MetadataFirst(Append(s, a), h)
  BY <1>2, AppendKeeps
<1>7. \A need : DataAtLeast(s, h, need) => DataAtLeast(Append(s, a), h, need)
  BY <1>2, AppendKeeps
<1>8. \A moved : FlushOrError(s, h, moved) => FlushOrError(Append(s, a), h, moved)
  BY <1>2, AppendKeeps
<1> QED
  BY <1>3, <1>4, <1>5, <1>6, <1>7, <1>8 DEF Alike, RepliesAlike

\* A job whose torrent's queue is alike keeps what it was promised.
LEMMA AlikeKeeps ==
    ASSUME NEW job, NEW torrent, NEW s, NEW t, torrent.life # "gone" => Alike(s, t, job.handle)
    PROVE  /\ SlotExact(job, torrent, s) => SlotExact(job, torrent, t)
           /\ MetadataOnce(job, torrent, s) => MetadataOnce(job, torrent, t)
           /\ \A need : Covers(job, torrent, s, need) => Covers(job, torrent, t, need)
           /\ JobInv(job, torrent, s) => JobInv(job, torrent, t)
<1>1. SlotExact(job, torrent, s) => SlotExact(job, torrent, t)
  BY DEF SlotExact, Owes, OwesNothing, Alike, RepliesAlike
<1>2. MetadataOnce(job, torrent, s) => MetadataOnce(job, torrent, t)
  BY DEF MetadataOnce, Alike
<1>3. ASSUME NEW need, Covers(job, torrent, s, need) PROVE Covers(job, torrent, t, need)
  BY <1>3 DEF Covers, Alike, RepliesAlike
<1> QED
  BY <1>1, <1>2, <1>3 DEF JobInv

----------------------------------------------------------------------------
(* The helpers of ltkit_session, on a view.                                  *)

IsView(v) ==
    /\ DOMAIN v = {"job", "torrent", "events", "alerts", "asleep"}
    /\ v = [x \in DOMAIN v |-> v[x]]

Typed(v) ==
    /\ IsView(v)
    /\ v.job \in SessionJob
    /\ v.torrent \in Torrent
    /\ v.alerts \in Seq(Alert)

\* The parts of two views that a helper leaves alone.
SameQueues(v, n) == n.events = v.events /\ n.alerts = v.alerts /\ n.asleep = v.asleep

\* The fields of a job that only client calls and the metadata handler change.
SameIdentity(job, next) ==
    /\ next.handle = job.handle
    /\ next.desired = job.desired
    /\ next.metadata_ready = job.metadata_ready

\* A new checkpoint slot has the type of one.
LEMMA NewCheckpointFacts ==
    /\ NewCheckpoint \in Checkpoint
    /\ NewCheckpoint.active = FALSE /\ NewCheckpoint.done = FALSE /\ NewCheckpoint.error = FALSE
    /\ NewCheckpoint.phase = "idle" /\ NewCheckpoint.data = NoData
  BY DEF NewCheckpoint, Checkpoint, Phases, NoData

\* start_checkpoint on an idle barrier.
LEMMA StartCheckpointEffect ==
    ASSUME NEW v, IsView(v), v.job \in SessionJob, v.torrent \in Torrent, NEW flush \in BOOLEAN,
           Idle(v.job.checkpoint.phase)
    PROVE  LET n       == StartCheckpoint(v, flush)
               request == IF flush THEN "flush" ELSE "save"
               phase   == IF flush THEN "flushing" ELSE "saving"
           IN  /\ IsView(n) /\ SameQueues(v, n)
               /\ n.job \in SessionJob /\ n.torrent \in Torrent
               /\ n.job = [v.job EXCEPT !.checkpoint = [v.job.checkpoint EXCEPT !.phase = phase]]
               /\ n.torrent = [v.torrent EXCEPT !.requests = Append(v.torrent.requests, request)]
<1> DEFINE request    == IF flush THEN "flush" ELSE "save"
           phase      == IF flush THEN "flushing" ELSE "saving"
           checkpoint == [v.job.checkpoint EXCEPT !.phase = phase]
           job        == [v.job EXCEPT !.checkpoint = checkpoint]
           torrent    == [v.torrent EXCEPT !.requests = Append(v.torrent.requests, request)]
<1>1. [v.job EXCEPT !.checkpoint.phase = Begin(@, flush)] = job
  BY DEF Begin, Idle
<1>2. Asked(v.torrent, request) = torrent
  BY DEF Asked
<1>3. StartCheckpoint(v, flush) = [v EXCEPT !.job = job, !.torrent = torrent]
  <2> HIDE DEF job, torrent
  <2> QED
    BY <1>1, <1>2 DEF StartCheckpoint
<1>4. checkpoint \in Checkpoint
  <2>1. phase \in Phases
    BY DEF Phases
  <2>2. v.job.checkpoint \in Checkpoint
    BY DEF SessionJob
  <2> HIDE DEF phase
  <2> QED
    BY <2>1, <2>2 DEF Checkpoint
<1>5. job \in SessionJob
  <2> HIDE DEF checkpoint
  <2> QED
    BY <1>4 DEF SessionJob
<1>6. torrent \in Torrent
  <2>1. request \in {"flush", "save"} /\ v.torrent.requests \in Seq({"flush", "save"})
    BY DEF Torrent
  <2>2. Append(v.torrent.requests, request) \in Seq({"flush", "save"})
    <3> HIDE DEF request
    <3> QED
      BY <2>1
  <2> QED
    BY <2>2 DEF Torrent
<1> HIDE DEF job, torrent
<1>7. LET n == StartCheckpoint(v, flush)
      IN  IsView(n) /\ n.job = job /\ n.torrent = torrent /\ SameQueues(v, n)
  BY <1>3 DEF IsView, SameQueues
<1> QED
  BY <1>5, <1>6, <1>7 DEF job, torrent

\* start_checkpoint with a flush.
LEMMA StartFlushEffect ==
    ASSUME NEW v, IsView(v), v.job \in SessionJob, v.torrent \in Torrent,
           Idle(v.job.checkpoint.phase)
    PROVE  LET n == StartCheckpoint(v, TRUE)
           IN  /\ IsView(n) /\ SameQueues(v, n)
               /\ n.job \in SessionJob /\ n.torrent \in Torrent
               /\ n.job = [v.job EXCEPT !.checkpoint =
                             [v.job.checkpoint EXCEPT !.phase = "flushing"]]
               /\ n.torrent = [v.torrent EXCEPT !.requests = Append(v.torrent.requests, "flush")]
<1>1. TRUE \in BOOLEAN
  OBVIOUS
<1> QED
  BY <1>1, StartCheckpointEffect, Zenon

\* JobInv, but for a waiting completion that nobody may have been told to start.
Unowned(job, torrent, s) ==
    /\ DoneInStep(job.checkpoint)
    /\ job.completion_checkpoint => Pending(job.checkpoint.phase) /\ ~job.checkpoint.active
    /\ ~(job.completion_waiting /\ job.completion_checkpoint)
    /\ StoppedForGood(job, torrent)
    /\ SlotExact(job, torrent, s)
    /\ MetadataOnce(job, torrent, s)
    /\ job.completion_checkpoint => Covers(job, torrent, s, job.fenced)

\* start_waiting_completion leaves no waiting completion behind: it takes the
\* free slot, or somebody has it.
LEMMA StartWaitingKeeps ==
    ASSUME NEW v, Typed(v), Unowned(v.job, v.torrent, v.alerts)
    PROVE  LET n == StartWaitingCompletion(v)
           IN  /\ Typed(n) /\ SameQueues(v, n)
               /\ JobInv(n.job, n.torrent, n.alerts)
               /\ SameIdentity(v.job, n.job)
               /\ n.job.stopped = v.job.stopped /\ n.job.final = v.job.final
               /\ n.job.checkpoint.active = v.job.checkpoint.active
               /\ n.job.checkpoint.done = v.job.checkpoint.done
               /\ v.job.checkpoint.active => n = v
<1> DEFINE n    == StartWaitingCompletion(v)
           job  == v.job
           free == job.completion_waiting /\ ~job.checkpoint.active /\ Idle(job.checkpoint.phase)
<1>1. CASE ~free
  <2>1. n = v
    BY <1>1 DEF StartWaitingCompletion
  <2>2. HasOwner(job)
    BY <1>1 DEF HasOwner, Unowned
  <2>3. JobInv(v.job, v.torrent, v.alerts)
    BY <2>2 DEF JobInv, Unowned
  <2> QED
    BY <2>1, <2>3 DEF SameQueues, SameIdentity
<1>2. CASE free
  <2> DEFINE ready == [job EXCEPT !.completion_waiting = FALSE, !.completion_checkpoint = TRUE,
                                  !.fenced = v.torrent.written]
             w     == [v EXCEPT !.job = ready]
  <2>1. ready \in SessionJob /\ ready.checkpoint = job.checkpoint
    BY DEF Typed, SessionJob, Torrent
  <2>2. IsView(w) /\ w.job = ready /\ w.torrent = v.torrent /\ SameQueues(v, w)
    BY DEF IsView, SameQueues, Typed
  <2>3. n = StartCheckpoint(w, TRUE)
    BY <1>2 DEF StartWaitingCompletion, Completing
  <2> DEFINE checkpoint == [job.checkpoint EXCEPT !.phase = "flushing"]
             requests   == Append(v.torrent.requests, "flush")
  <2>4. /\ IsView(n) /\ SameQueues(w, n) /\ n.job \in SessionJob /\ n.torrent \in Torrent
        /\ n.job = [ready EXCEPT !.checkpoint = checkpoint]
        /\ n.torrent = [v.torrent EXCEPT !.requests = requests]
    <3>1. w.job \in SessionJob /\ w.torrent \in Torrent /\ Idle(w.job.checkpoint.phase)
      BY <1>2, <2>1, <2>2 DEF Typed
    <3> HIDE DEF n, w, ready
    <3>2. /\ IsView(n) /\ SameQueues(w, n) /\ n.job \in SessionJob /\ n.torrent \in Torrent
          /\ n.job = [w.job EXCEPT !.checkpoint = [w.job.checkpoint EXCEPT !.phase = "flushing"]]
          /\ n.torrent = [w.torrent EXCEPT !.requests = Append(w.torrent.requests, "flush")]
      BY <2>2, <2>3, <3>1, StartFlushEffect
    <3> QED
      BY <2>1, <2>2, <3>2
  <2>5. job.checkpoint \in Checkpoint /\ v.torrent \in Torrent
    BY DEF Typed, SessionJob
  <2>6. /\ checkpoint.phase = "flushing" /\ checkpoint.active = FALSE
        /\ checkpoint.done = FALSE /\ job.checkpoint.done = FALSE /\ job.checkpoint.active = FALSE
    BY <1>2, <2>5 DEF Checkpoint, Idle, Unowned, DoneInStep
  <2>7. /\ SameIdentity(job, n.job) /\ n.job.stopped = job.stopped /\ n.job.final = job.final
        /\ n.job.completion_waiting = FALSE /\ n.job.completion_checkpoint = TRUE
        /\ n.job.checkpoint = checkpoint /\ n.job.fenced = v.torrent.written
    <3> HIDE DEF checkpoint, n
    <3> QED
      BY <2>4 DEF Typed, SessionJob, SameIdentity
  <2>8. /\ n.torrent.requests = requests /\ n.torrent.life = v.torrent.life
        /\ n.torrent.metadata = v.torrent.metadata /\ n.torrent.safe = v.torrent.safe
        /\ n.torrent.wanted = v.torrent.wanted /\ n.torrent.written = v.torrent.written
        /\ n.torrent.durable = v.torrent.durable
    <3> HIDE DEF requests, n
    <3> QED
      BY <2>4, <2>5 DEF Torrent
  <2>9. n.events = v.events /\ n.alerts = v.alerts /\ n.asleep = v.asleep
    BY <2>2, <2>4 DEF SameQueues
  <2>10. v.torrent.life # "gone" => OwesNothing(v.torrent, v.alerts, job.handle)
    BY <1>2 DEF Unowned, SlotExact, Idle, Pending
  <2> HIDE DEF n, checkpoint
  <2>11. DoneInStep(n.job.checkpoint) /\ HasOwner(n.job)
    BY <2>6, <2>7 DEF DoneInStep, HasOwner, Pending, Idle
  <2>12. StoppedForGood(n.job, n.torrent)
    BY <1>2, <2>7, <2>8 DEF StoppedForGood, Unowned, SameIdentity
  <2>13. SlotExact(n.job, n.torrent, n.alerts)
    <3>1. v.torrent.life # "gone" => n.torrent.requests = <<"flush">>
      <4>1. Append(<<>>, "flush") = <<"flush">>
        OBVIOUS
      <4> QED
        BY <2>8, <2>10, <4>1 DEF OwesNothing
    <3> QED
      BY <2>6, <2>7, <2>8, <2>9, <2>10, <3>1
         DEF SlotExact, Owes, OwesNothing, Pending, Awaited, SameIdentity
  <2>14. MetadataOnce(n.job, n.torrent, n.alerts)
    BY <1>2, <2>7, <2>8, <2>9 DEF MetadataOnce, Unowned, SameIdentity
  <2>15. Covers(n.job, n.torrent, n.alerts, n.job.fenced)
    <3>1. v.torrent.life # "gone" =>
             /\ \A moved : FlushOrError(v.alerts, job.handle, moved)
             /\ \A need : DataAtLeast(v.alerts, job.handle, need)
      BY <2>10, NoReplyCovers DEF OwesNothing, Typed
    <3> QED
      BY <2>6, <2>7, <2>8, <2>9, <3>1 DEF Covers, SameIdentity
  <2>16. Typed(n)
    BY <2>4, <2>9 DEF Typed
  <2> QED
    BY <1>2, <2>6, <2>7, <2>9, <2>11, <2>12, <2>13, <2>14, <2>15, <2>16
       DEF JobInv, SameQueues, n
<1> QED
  BY <1>1, <1>2

\* What the session may publish for.
Publishes(v, id) == MailboxInv(v.events) /\ id \in LiveIds(v.events)

\* enqueue() and notify_all().
LEMMA EnqueueEffect ==
    ASSUME NEW v, IsView(v), NEW id, Publishes(v, id), NEW kind \in Kinds, NEW json \in Json
    PROVE  LET n == Enqueue(v, id, kind, json)
           IN  /\ IsView(n) /\ n.job = v.job /\ n.torrent = v.torrent
               /\ n.alerts = v.alerts /\ n.asleep = {}
               /\ MailboxInv(n.events) /\ LiveIds(n.events) = LiveIds(v.events)
<1> DEFINE m == Critical(v.events, id, kind, json)
           w == [v EXCEPT !.events = m]
           n == Enqueue(v, id, kind, json)
<1>1. MailboxInv(v.events) /\ id \in DOMAIN v.events.jobs /\ MailboxType(v.events)
  BY DEF Publishes, LiveIds, MailboxInv
<1>2. MailboxInv(m) /\ LiveIds(m) = LiveIds(v.events)
  BY <1>1, CriticalKeeps, CriticalLive
<1> HIDE DEF m
<1>3. /\ IsView(w) /\ w.job = v.job /\ w.torrent = v.torrent
      /\ w.events = m /\ w.alerts = v.alerts
  BY DEF IsView
<1>4. n = [w EXCEPT !.asleep = {}]
  BY DEF Enqueue, NotifyAll, m
<1> HIDE DEF w, n
<1>5. /\ IsView(n) /\ n.job = w.job /\ n.torrent = w.torrent
      /\ n.events = w.events /\ n.alerts = w.alerts /\ n.asleep = {}
  BY <1>3, <1>4 DEF IsView
<1> QED
  BY <1>2, <1>3, <1>5 DEF n

\* notify_all().
LEMMA NotifyAllEffect ==
    ASSUME NEW v, IsView(v)
    PROVE  LET n == NotifyAll(v)
           IN  /\ IsView(n) /\ n.job = v.job /\ n.torrent = v.torrent
               /\ n.events = v.events /\ n.alerts = v.alerts /\ n.asleep = {}
  BY DEF IsView, NotifyAll

\* The payload and the metadata of a torrent, which removal leaves alone.
SamePayload(torrent, next) ==
    /\ next.metadata = torrent.metadata /\ next.safe = torrent.safe
    /\ next.wanted = torrent.wanted /\ next.written = torrent.written
    /\ next.durable = torrent.durable /\ next.intact = torrent.intact

\* remove_torrent of a torrent that may have been removed already.
LEMMA RemoveTorrentEffect ==
    ASSUME NEW v, IsView(v), v.torrent \in Torrent
    PROVE  LET n == RemoveTorrent(v)
           IN  /\ IsView(n) /\ n.job = v.job /\ SameQueues(v, n)
               /\ n.torrent \in Torrent /\ SamePayload(v.torrent, n.torrent)
               /\ n.torrent.requests = v.torrent.requests
               /\ n.torrent.life # "live"
               /\ n.torrent.life = "gone" <=> v.torrent.life = "gone"
<1> DEFINE life    == IF v.torrent.life = "live" THEN "removing" ELSE v.torrent.life
           torrent == [v.torrent EXCEPT !.life = life]
<1>1. life \in {"removing", "gone"} /\ (life = "gone" <=> v.torrent.life = "gone")
  BY DEF Torrent
<1>2. RemoveTorrent(v) = [v EXCEPT !.torrent = torrent]
  BY DEF RemoveTorrent
<1> HIDE DEF life
<1>3. /\ torrent \in Torrent /\ torrent.life = life /\ torrent.requests = v.torrent.requests
      /\ SamePayload(v.torrent, torrent)
  BY <1>1 DEF Torrent, SamePayload
<1> HIDE DEF torrent
<1>4. LET n == RemoveTorrent(v)
      IN  IsView(n) /\ n.job = v.job /\ SameQueues(v, n) /\ n.torrent = torrent
  BY <1>2 DEF IsView, SameQueues
<1> QED
  BY <1>1, <1>3, <1>4

\* The end of a completion.
LEMMA StopEffect ==
    ASSUME NEW v, IsView(v), v.job \in SessionJob, v.torrent \in Torrent
    PROVE  LET n == Stop(v)
           IN  /\ IsView(n) /\ SameQueues(v, n)
               /\ n.job \in SessionJob /\ SameIdentity(v.job, n.job)
               /\ n.job.completion_checkpoint = FALSE /\ n.job.stopped = TRUE
               /\ n.job.checkpoint = NewCheckpoint
               /\ n.job.completion_waiting = v.job.completion_waiting
               /\ n.job.final = v.job.final
               /\ n.torrent \in Torrent /\ SamePayload(v.torrent, n.torrent)
               /\ n.torrent.requests = v.torrent.requests
               /\ n.torrent.life # "live"
               /\ n.torrent.life = "gone" <=> v.torrent.life = "gone"
<1> DEFINE job == [v.job EXCEPT !.completion_checkpoint = FALSE, !.stopped = TRUE,
                                !.checkpoint = NewCheckpoint]
           w   == RemoveTorrent(v)
           n   == Stop(v)
<1>1. /\ job \in SessionJob /\ SameIdentity(v.job, job)
      /\ job.completion_checkpoint = FALSE /\ job.stopped = TRUE /\ job.checkpoint = NewCheckpoint
      /\ job.completion_waiting = v.job.completion_waiting /\ job.final = v.job.final
  BY NewCheckpointFacts DEF SessionJob, SameIdentity
<1>2. n = [w EXCEPT !.job = job]
  BY DEF Stop
<1>3. /\ IsView(w) /\ SameQueues(v, w)
      /\ w.torrent \in Torrent /\ SamePayload(v.torrent, w.torrent)
      /\ w.torrent.requests = v.torrent.requests
      /\ w.torrent.life # "live"
      /\ w.torrent.life = "gone" <=> v.torrent.life = "gone"
  BY RemoveTorrentEffect
<1> HIDE DEF job, w, n
<1>4. IsView(n) /\ n.job = job /\ n.torrent = w.torrent /\ SameQueues(w, n)
  BY <1>2, <1>3 DEF IsView, SameQueues
<1> QED
  BY <1>1, <1>3, <1>4 DEF SameQueues, n

\* Pausing and removing a torrent that cannot be accepted.
LEMMA RejectEffect ==
    ASSUME NEW v, IsView(v), v.job \in SessionJob, v.torrent \in Torrent
    PROVE  LET n == Reject(v)
           IN  /\ IsView(n) /\ SameQueues(v, n)
               /\ n.job \in SessionJob /\ n.job = [v.job EXCEPT !.stopped = TRUE]
               /\ n.torrent \in Torrent /\ SamePayload(v.torrent, n.torrent)
               /\ n.torrent.requests = v.torrent.requests
               /\ n.torrent.life # "live"
               /\ n.torrent.life = "gone" <=> v.torrent.life = "gone"
<1> DEFINE job     == [v.job EXCEPT !.stopped = TRUE]
           w       == RemoveTorrent(v)
           torrent == [w.torrent EXCEPT !.paused = TRUE]
           n       == Reject(v)
<1>1. job \in SessionJob
  BY DEF SessionJob
<1>2. n = [w EXCEPT !.torrent = torrent, !.job = job]
  BY DEF Reject
<1>3. /\ IsView(w) /\ SameQueues(v, w)
      /\ w.torrent \in Torrent /\ SamePayload(v.torrent, w.torrent)
      /\ w.torrent.requests = v.torrent.requests
      /\ w.torrent.life # "live"
      /\ w.torrent.life = "gone" <=> v.torrent.life = "gone"
  BY RemoveTorrentEffect
<1> HIDE DEF job, w, n
<1>4. /\ torrent \in Torrent /\ SamePayload(w.torrent, torrent)
      /\ torrent.requests = w.torrent.requests /\ torrent.life = w.torrent.life
  BY <1>3 DEF Torrent, SamePayload
<1> HIDE DEF torrent
<1>5. IsView(n) /\ n.job = job /\ n.torrent = torrent /\ SameQueues(w, n)
  BY <1>2, <1>3 DEF IsView, SameQueues
<1> QED
  BY <1>1, <1>3, <1>4, <1>5 DEF SameQueues, SamePayload, n, job

\* What a completion publishes is there, and what it fenced is on disk and in the
\* snapshot.
CompletedWell(job, torrent, next) ==
    /\ ~job.stopped
    /\ job.desired # {} /\ job.desired \subseteq torrent.written
    /\ torrent.intact
    /\ job.fenced \subseteq torrent.durable
    /\ job.fenced \subseteq next.final

\* What finish_checkpoint finds: the one reply has come and the barrier is done.
Answering(v, saved) ==
    /\ Typed(v)
    /\ v.torrent.life # "gone"
    /\ v.job.checkpoint.phase \in {"succeeded", "failed"} /\ ~v.job.checkpoint.done
    /\ v.job.completion_checkpoint => ~v.job.checkpoint.active
    /\ ~(v.job.completion_waiting /\ v.job.completion_checkpoint)
    /\ StoppedForGood(v.job, v.torrent)
    /\ OwesNothing(v.torrent, v.alerts, v.job.handle)
    /\ MetadataOnce(v.job, v.torrent, v.alerts)
    /\ saved /\ ~v.job.checkpoint.error /\ v.job.completion_checkpoint =>
          v.job.fenced \subseteq v.torrent.durable /\ v.job.fenced \subseteq v.job.checkpoint.data

\* What finish_checkpoint leaves.
Finished(v, n, saved) ==
    /\ Typed(n) /\ n.alerts = v.alerts
    /\ MailboxInv(n.events) /\ LiveIds(n.events) = LiveIds(v.events)
    /\ SameIdentity(v.job, n.job)
    /\ JobInv(n.job, n.torrent, n.alerts)
    /\ n.job.checkpoint.active = v.job.checkpoint.active
    /\ v.job.stopped => n.job.stopped /\ n.job.final = v.job.final
    /\ n.job.final # v.job.final => CompletedWell(v.job, v.torrent, n.job)
    /\ \/ n.asleep = {}
       \/ /\ n.asleep = v.asleep /\ n.events = v.events
          /\ ~n.job.checkpoint.done /\ n.job.stopped = v.job.stopped
    /\ v.job.checkpoint.active => \A need \in SUBSET Files :
          /\ need \subseteq v.torrent.written
          /\ saved /\ ~v.job.checkpoint.error =>
                need \subseteq v.job.checkpoint.data /\ need \subseteq v.torrent.durable
          => Covers(n.job, n.torrent, n.alerts, need)

\* A torrent that is stopped and owes nothing is done with.
LEMMA StoppedKeeps ==
    ASSUME NEW job \in SessionJob, NEW torrent \in Torrent, NEW s \in Seq(Alert),
           job.stopped, torrent.life # "live", ~job.completion_waiting, ~job.completion_checkpoint,
           job.checkpoint = NewCheckpoint, torrent.life # "gone" => OwesNothing(torrent, s, job.handle),
           MetadataOnce(job, torrent, s)
    PROVE  JobInv(job, torrent, s)
<1>1. DoneInStep(job.checkpoint) /\ HasOwner(job) /\ StoppedForGood(job, torrent)
  BY NewCheckpointFacts DEF DoneInStep, HasOwner, StoppedForGood
<1>2. SlotExact(job, torrent, s)
  BY NewCheckpointFacts DEF SlotExact, Pending
<1> QED
  BY <1>1, <1>2 DEF JobInv

\* A completion that fails.
LEMMA FailCompletionKeeps ==
    ASSUME NEW v, NEW saved \in BOOLEAN, Answering(v, saved), NEW id, Publishes(v, id),
           v.job.completion_checkpoint
    PROVE  Finished(v, NotifyAll(FailCompletion(v, id)), saved)
<1> DEFINE w == Enqueue(v, id, Kind.error, "completionFailed")
           u == Stop(w)
           n == NotifyAll(FailCompletion(v, id))
<1>1. Typed(v) /\ IsView(v) /\ v.job \in SessionJob /\ v.torrent \in Torrent
  BY DEF Answering, Typed
<1>2. Kind.error \in Kinds /\ "completionFailed" \in Json
  BY PayloadAssumption DEF Kind, Kinds
<1>3. /\ IsView(w) /\ w.job = v.job /\ w.torrent = v.torrent
      /\ w.alerts = v.alerts /\ w.asleep = {}
      /\ MailboxInv(w.events) /\ LiveIds(w.events) = LiveIds(v.events)
  BY <1>1, <1>2, EnqueueEffect
<1>4. n = NotifyAll(u)
  BY DEF FailCompletion
<1> HIDE DEF w
<1>5. /\ IsView(u) /\ SameQueues(w, u)
      /\ u.job \in SessionJob /\ SameIdentity(w.job, u.job)
      /\ u.job.completion_checkpoint = FALSE /\ u.job.stopped = TRUE
      /\ u.job.checkpoint = NewCheckpoint
      /\ u.job.completion_waiting = w.job.completion_waiting
      /\ u.job.final = w.job.final
      /\ u.torrent \in Torrent /\ SamePayload(w.torrent, u.torrent)
      /\ u.torrent.requests = w.torrent.requests
      /\ u.torrent.life # "live"
      /\ u.torrent.life = "gone" <=> w.torrent.life = "gone"
  BY <1>1, <1>3, StopEffect
<1> HIDE DEF u, n
<1>6. /\ IsView(n) /\ n.job = u.job /\ n.torrent = u.torrent
      /\ n.events = u.events /\ n.alerts = u.alerts /\ n.asleep = {}
  BY <1>4, <1>5, NotifyAllEffect
<1>7. /\ n.alerts = v.alerts /\ n.events = w.events /\ SameIdentity(v.job, n.job)
      /\ n.alerts \in Seq(Alert)
  BY <1>1, <1>3, <1>5, <1>6 DEF SameQueues, SameIdentity, Typed
<1>8. ~n.job.completion_waiting /\ ~v.job.checkpoint.active
  BY <1>3, <1>5, <1>6 DEF Answering
<1>9. OwesNothing(n.torrent, n.alerts, n.job.handle)
  BY <1>3, <1>5, <1>6, <1>7 DEF Answering, OwesNothing, SameIdentity
<1>10. MetadataOnce(n.job, n.torrent, n.alerts)
  BY <1>3, <1>5, <1>6, <1>7, <1>8 DEF Answering, MetadataOnce, SameIdentity, SamePayload
<1>11. JobInv(n.job, n.torrent, n.alerts)
  BY <1>5, <1>6, <1>7, <1>8, <1>9, <1>10, StoppedKeeps
<1>12. n.job.checkpoint.active = v.job.checkpoint.active
  BY <1>1, <1>5, <1>6, <1>8, NewCheckpointFacts DEF SessionJob, Checkpoint
<1> QED
  BY <1>3, <1>5, <1>6, <1>7, <1>8, <1>11, <1>12 DEF Finished, Typed, SameQueues, n

\* A completion that succeeds.
LEMMA CompleteKeeps ==
    ASSUME NEW v, NEW saved \in BOOLEAN, Answering(v, saved), NEW id, Publishes(v, id),
           v.job.completion_checkpoint, saved, ~v.job.checkpoint.error,
           PayloadsReady(v), MetadataSafe(v)
    PROVE  Finished(v, NotifyAll(Complete(v, id)), saved)
<1> DEFINE job == [v.job EXCEPT !.final = v.job.checkpoint.data]
           f   == [v EXCEPT !.job.final = v.job.checkpoint.data]
           w   == Enqueue(f, id, Kind.completed, "completed")
           u   == Stop(w)
           x   == Enqueue(u, id, Kind.stopped, "stoppedAfterCompletion")
           n   == NotifyAll(Complete(v, id))
<1>1. Typed(v) /\ IsView(v) /\ v.job \in SessionJob /\ v.torrent \in Torrent
  BY DEF Answering, Typed
<1>2. /\ Kind.completed \in Kinds /\ "completed" \in Json
      /\ Kind.stopped \in Kinds /\ "stoppedAfterCompletion" \in Json
  BY PayloadAssumption DEF Kind, Kinds
<1>3. /\ job \in SessionJob /\ SameIdentity(v.job, job) /\ job.final = v.job.checkpoint.data
      /\ job.completion_waiting = v.job.completion_waiting
  <2>1. v.job.checkpoint.data \in {NoData} \cup SUBSET Files
    BY <1>1 DEF SessionJob, Checkpoint
  <2> QED
    BY <1>1, <2>1 DEF SessionJob, SameIdentity
<1>4. f = [v EXCEPT !.job = job]
  OBVIOUS
<1> HIDE DEF job, f
<1>5. IsView(f) /\ f.job = job /\ f.torrent = v.torrent /\ SameQueues(v, f) /\ Publishes(f, id)
  BY <1>1, <1>4 DEF IsView, SameQueues, Publishes
<1>6. /\ IsView(w) /\ w.job = job /\ w.torrent = v.torrent
      /\ w.alerts = v.alerts /\ w.asleep = {}
      /\ MailboxInv(w.events) /\ LiveIds(w.events) = LiveIds(v.events)
  BY <1>2, <1>5, EnqueueEffect DEF SameQueues
<1>7. n = NotifyAll(x)
  BY DEF Complete, f
<1> HIDE DEF w
<1>8. /\ IsView(u) /\ SameQueues(w, u)
      /\ u.job \in SessionJob /\ SameIdentity(w.job, u.job)
      /\ u.job.completion_checkpoint = FALSE /\ u.job.stopped = TRUE
      /\ u.job.checkpoint = NewCheckpoint
      /\ u.job.completion_waiting = w.job.completion_waiting
      /\ u.job.final = w.job.final
      /\ u.torrent \in Torrent /\ SamePayload(w.torrent, u.torrent)
      /\ u.torrent.requests = w.torrent.requests
      /\ u.torrent.life # "live"
      /\ u.torrent.life = "gone" <=> w.torrent.life = "gone"
  BY <1>1, <1>3, <1>6, StopEffect
<1>9. Publishes(u, id)
  BY <1>6, <1>8 DEF Publishes, SameQueues
<1> HIDE DEF u
<1>10. /\ IsView(x) /\ x.job = u.job /\ x.torrent = u.torrent
       /\ x.alerts = u.alerts /\ x.asleep = {}
       /\ MailboxInv(x.events) /\ LiveIds(x.events) = LiveIds(u.events)
  BY <1>2, <1>8, <1>9, EnqueueEffect
<1> HIDE DEF x, n
<1>11. /\ IsView(n) /\ n.job = u.job /\ n.torrent = u.torrent
       /\ n.events = x.events /\ n.alerts = u.alerts /\ n.asleep = {}
  BY <1>7, <1>10, NotifyAllEffect
<1>12. /\ n.alerts = v.alerts /\ SameIdentity(v.job, n.job) /\ n.alerts \in Seq(Alert)
       /\ LiveIds(n.events) = LiveIds(v.events)
  BY <1>1, <1>3, <1>6, <1>8, <1>10, <1>11 DEF SameQueues, SameIdentity, Typed
<1>13. ~n.job.completion_waiting /\ ~v.job.checkpoint.active
  BY <1>3, <1>6, <1>8, <1>11 DEF Answering
<1>14. OwesNothing(n.torrent, n.alerts, n.job.handle)
  BY <1>6, <1>8, <1>11, <1>12 DEF Answering, OwesNothing, SameIdentity
<1>15. MetadataOnce(n.job, n.torrent, n.alerts)
  BY <1>6, <1>8, <1>11, <1>12, <1>13 DEF Answering, MetadataOnce, SameIdentity, SamePayload
<1>16. JobInv(n.job, n.torrent, n.alerts)
  BY <1>8, <1>11, <1>12, <1>13, <1>14, <1>15, StoppedKeeps
<1>17. n.job.checkpoint.active = v.job.checkpoint.active
  BY <1>1, <1>8, <1>11, <1>13, NewCheckpointFacts DEF SessionJob, Checkpoint
<1>18. CompletedWell(v.job, v.torrent, n.job)
  <2>1. n.job.final = v.job.checkpoint.data
    BY <1>3, <1>6, <1>8, <1>11
  <2>2. ~v.job.stopped
    BY DEF Answering, StoppedForGood, PayloadsReady, MetadataSafe
  <2>3. v.job.fenced \subseteq v.torrent.durable /\ v.job.fenced \subseteq v.job.checkpoint.data
    BY DEF Answering
  <2>4. v.job.desired # {} /\ v.job.desired \subseteq v.torrent.written /\ v.torrent.intact
    BY DEF PayloadsReady, PayloadsSynced
  <2> QED
    BY <2>1, <2>2, <2>3, <2>4 DEF CompletedWell
<1> QED
  BY <1>8, <1>10, <1>11, <1>12, <1>13, <1>16, <1>17, <1>18 DEF Finished, Typed, CompletedWell, n

\* The payload is not there yet: one more disk fence.
LEMMA RecheckKeeps ==
    ASSUME NEW v, NEW saved \in BOOLEAN, Answering(v, saved), NEW id, Publishes(v, id),
           v.job.completion_checkpoint
    PROVE  Finished(v, RecheckCompletion(v), saved)
<1> DEFINE job == [v.job EXCEPT !.completion_rechecked = TRUE, !.fenced = v.torrent.written,
                                !.checkpoint = NewCheckpoint]
           w   == [v EXCEPT !.job = job]
           n   == RecheckCompletion(v)
<1>1. Typed(v) /\ IsView(v) /\ v.job \in SessionJob /\ v.torrent \in Torrent
  BY DEF Answering, Typed
<1>2. /\ job \in SessionJob /\ SameIdentity(v.job, job) /\ job.checkpoint = NewCheckpoint
      /\ job.completion_waiting = v.job.completion_waiting
      /\ job.completion_checkpoint = v.job.completion_checkpoint
      /\ job.stopped = v.job.stopped /\ job.final = v.job.final
      /\ job.fenced = v.torrent.written
  BY <1>1, NewCheckpointFacts DEF SessionJob, SameIdentity, Torrent
<1>3. n = StartCheckpoint(w, TRUE)
  BY DEF RecheckCompletion
<1> HIDE DEF job
<1>4. IsView(w) /\ w.job = job /\ w.torrent = v.torrent /\ SameQueues(v, w)
  BY <1>1 DEF IsView, SameQueues
<1> HIDE DEF w, n
<1> DEFINE checkpoint == [NewCheckpoint EXCEPT !.phase = "flushing"]
           requests   == Append(v.torrent.requests, "flush")
<1>5. /\ IsView(n) /\ SameQueues(w, n) /\ n.job \in SessionJob /\ n.torrent \in Torrent
      /\ n.job = [job EXCEPT !.checkpoint = checkpoint]
      /\ n.torrent = [v.torrent EXCEPT !.requests = requests]
  <2>1. w.job \in SessionJob /\ w.torrent \in Torrent /\ Idle(w.job.checkpoint.phase)
    BY <1>1, <1>2, <1>4, NewCheckpointFacts DEF Idle
  <2>2. /\ IsView(n) /\ SameQueues(w, n) /\ n.job \in SessionJob /\ n.torrent \in Torrent
        /\ n.job = [w.job EXCEPT !.checkpoint = [w.job.checkpoint EXCEPT !.phase = "flushing"]]
        /\ n.torrent = [w.torrent EXCEPT !.requests = Append(w.torrent.requests, "flush")]
    BY <1>3, <1>4, <2>1, StartFlushEffect
  <2>3. w.job = job /\ w.job.checkpoint = NewCheckpoint /\ w.torrent = v.torrent
    BY <1>2, <1>4
  <2> QED
    BY <2>2, <2>3
<1>6. /\ checkpoint.phase = "flushing" /\ checkpoint.active = FALSE
      /\ checkpoint.done = FALSE /\ checkpoint.error = FALSE
  BY DEF NewCheckpoint
<1> HIDE DEF checkpoint
<1>7. /\ n.job.checkpoint = checkpoint
      /\ SameIdentity(v.job, n.job) /\ n.job.stopped = v.job.stopped /\ n.job.final = v.job.final
      /\ n.job.completion_waiting = v.job.completion_waiting
      /\ n.job.completion_checkpoint = v.job.completion_checkpoint
      /\ n.job.fenced = v.torrent.written
  BY <1>2, <1>5 DEF SessionJob, SameIdentity
<1> HIDE DEF requests
<1>8. /\ n.torrent.requests = requests /\ n.torrent.life = v.torrent.life
      /\ SamePayload(v.torrent, n.torrent)
  BY <1>1, <1>5 DEF Torrent, SamePayload
<1>9. requests = <<"flush">> /\ NoReply(v.alerts, v.job.handle)
  BY DEF Answering, OwesNothing, requests
<1>10. n.events = v.events /\ n.alerts = v.alerts /\ n.asleep = v.asleep /\ Typed(n)
  BY <1>1, <1>4, <1>5 DEF SameQueues, Typed
<1>11. ~v.job.completion_waiting /\ ~v.job.checkpoint.active
  BY DEF Answering
<1>12. DoneInStep(n.job.checkpoint) /\ HasOwner(n.job)
  BY <1>6, <1>7, <1>11 DEF DoneInStep, HasOwner, Pending, Idle
<1>13. StoppedForGood(n.job, n.torrent)
  BY <1>7, <1>8 DEF StoppedForGood, Answering, SameIdentity, SamePayload
<1>14. SlotExact(n.job, n.torrent, n.alerts)
  BY <1>6, <1>7, <1>8, <1>9, <1>10 DEF SlotExact, Owes, Pending, Awaited, SameIdentity
<1>15. MetadataOnce(n.job, n.torrent, n.alerts)
  BY <1>7, <1>8, <1>10 DEF MetadataOnce, Answering, SameIdentity, SamePayload
<1>16. Covers(n.job, n.torrent, n.alerts, n.job.fenced)
  <2>1. /\ \A moved : FlushOrError(v.alerts, v.job.handle, moved)
        /\ \A need : DataAtLeast(v.alerts, v.job.handle, need)
    BY <1>1, <1>9, NoReplyCovers DEF Typed
  <2> QED
    BY <1>6, <1>7, <1>8, <1>10, <2>1 DEF Covers, SameIdentity, SamePayload
<1>17. n.job.checkpoint.active = v.job.checkpoint.active
  BY <1>1, <1>6, <1>7, <1>11 DEF SessionJob, Checkpoint
<1> QED
  BY <1>6, <1>7, <1>10, <1>11, <1>12, <1>13, <1>14, <1>15, <1>16, <1>17, Zenon
     DEF Finished, JobInv, Publishes, n

\* The caller that waits gets its reply.
LEMMA AnsweredKeeps ==
    ASSUME NEW v, NEW saved \in BOOLEAN, Answering(v, saved), NEW id, Publishes(v, id),
           ~v.job.completion_checkpoint, v.job.checkpoint.active
    PROVE  LET success == saved /\ ~v.job.checkpoint.error
           IN  Finished(v, NotifyAll([v EXCEPT !.job = Answered(v.job, success)]), saved)
<1> DEFINE success    == saved /\ ~v.job.checkpoint.error
           checkpoint == [v.job.checkpoint EXCEPT !.done = TRUE, !.error = ~success]
           job        == [v.job EXCEPT !.checkpoint = checkpoint]
           w          == [v EXCEPT !.job = job]
           n          == NotifyAll([v EXCEPT !.job = Answered(v.job, success)])
<1>1. Typed(v) /\ IsView(v) /\ v.job \in SessionJob /\ v.torrent \in Torrent
  BY DEF Answering, Typed
<1>2. v.job.checkpoint \in Checkpoint /\ success \in BOOLEAN
  BY <1>1 DEF SessionJob
<1>3. /\ checkpoint \in Checkpoint /\ checkpoint.done = TRUE /\ checkpoint.error = ~success
      /\ checkpoint.phase = v.job.checkpoint.phase /\ checkpoint.data = v.job.checkpoint.data
      /\ checkpoint.active = v.job.checkpoint.active
  <2> HIDE DEF success
  <2> QED
    BY <1>2 DEF Checkpoint
<1>4. n = NotifyAll(w)
  BY DEF Answered
<1> HIDE DEF checkpoint
<1>5. /\ job \in SessionJob /\ SameIdentity(v.job, job) /\ job.checkpoint = checkpoint
      /\ job.completion_waiting = v.job.completion_waiting
      /\ job.completion_checkpoint = v.job.completion_checkpoint
      /\ job.stopped = v.job.stopped /\ job.final = v.job.final
  BY <1>1, <1>3 DEF SessionJob, SameIdentity
<1> HIDE DEF job
<1>6. IsView(w) /\ w.job = job /\ w.torrent = v.torrent /\ SameQueues(v, w)
  BY <1>1 DEF IsView, SameQueues
<1> HIDE DEF w, n
<1>7. /\ IsView(n) /\ n.job = job /\ n.torrent = v.torrent
      /\ n.events = v.events /\ n.alerts = v.alerts /\ n.asleep = {}
  BY <1>4, <1>6, NotifyAllEffect DEF SameQueues
<1>8. DoneInStep(n.job.checkpoint) /\ HasOwner(n.job)
  BY <1>3, <1>5, <1>7 DEF DoneInStep, HasOwner, Pending, Idle, Answering
<1>9. StoppedForGood(n.job, n.torrent)
  BY <1>5, <1>7 DEF StoppedForGood, Answering, SameIdentity
<1>10. SlotExact(n.job, n.torrent, n.alerts)
  BY <1>3, <1>5, <1>7 DEF SlotExact, Pending, SameIdentity, Answering
<1>11. MetadataOnce(n.job, n.torrent, n.alerts)
  BY <1>5, <1>7 DEF MetadataOnce, Answering, SameIdentity
<1>12. JobInv(n.job, n.torrent, n.alerts)
  BY <1>5, <1>7, <1>8, <1>9, <1>10, <1>11 DEF JobInv
<1>13. ASSUME NEW need \in SUBSET Files, need \subseteq v.torrent.written,
              success => need \subseteq v.job.checkpoint.data /\ need \subseteq v.torrent.durable
       PROVE  Covers(n.job, n.torrent, n.alerts, need)
  <2>1. /\ \A moved : FlushOrError(v.alerts, v.job.handle, moved)
        /\ DataAtLeast(v.alerts, v.job.handle, need)
    BY <1>1, NoReplyCovers DEF Typed, Answering, OwesNothing
  <2>2. checkpoint.phase # "saving"
    BY <1>3 DEF Answering
  <2>3. checkpoint.done /\ ~checkpoint.error =>
           need \subseteq checkpoint.data /\ need \subseteq v.torrent.durable
    BY <1>3, <1>13
  <2> QED
    BY <1>5, <1>7, <1>13, <2>1, <2>2, <2>3 DEF Covers, SameIdentity
<1> QED
  BY <1>1, <1>3, <1>5, <1>7, <1>12, <1>13 DEF Finished, Typed, Publishes, n

\* The caller has gone: the reply is drained and a waiting completion may start.
LEMMA DrainedKeeps ==
    ASSUME NEW v, NEW saved \in BOOLEAN, Answering(v, saved), NEW id, Publishes(v, id),
           ~v.job.completion_checkpoint, ~v.job.checkpoint.active
    PROVE  Finished(v, NotifyAll(StartWaitingCompletion(
                            [v EXCEPT !.job.checkpoint = NewCheckpoint])), saved)
<1> DEFINE job == [v.job EXCEPT !.checkpoint = NewCheckpoint]
           w   == [v EXCEPT !.job.checkpoint = NewCheckpoint]
           u   == StartWaitingCompletion(w)
           n   == NotifyAll(u)
<1>1. Typed(v) /\ IsView(v) /\ v.job \in SessionJob /\ v.torrent \in Torrent
  BY DEF Answering, Typed
<1>2. /\ job \in SessionJob /\ SameIdentity(v.job, job) /\ job.checkpoint = NewCheckpoint
      /\ job.completion_waiting = v.job.completion_waiting
      /\ job.completion_checkpoint = v.job.completion_checkpoint
      /\ job.stopped = v.job.stopped /\ job.final = v.job.final
  BY <1>1, NewCheckpointFacts DEF SessionJob, SameIdentity
<1>3. w = [v EXCEPT !.job = job]
  OBVIOUS
<1> HIDE DEF job, w
<1>4. IsView(w) /\ w.job = job /\ w.torrent = v.torrent /\ SameQueues(v, w) /\ Typed(w)
  BY <1>1, <1>2, <1>3 DEF IsView, SameQueues, Typed
<1>5. Unowned(w.job, w.torrent, w.alerts)
  <2>1. DoneInStep(w.job.checkpoint)
    BY <1>2, <1>4, NewCheckpointFacts DEF DoneInStep
  <2>2. StoppedForGood(w.job, w.torrent)
    BY <1>2, <1>4 DEF StoppedForGood, Answering, SameIdentity
  <2>3. SlotExact(w.job, w.torrent, w.alerts)
    BY <1>2, <1>4, NewCheckpointFacts DEF SlotExact, Pending, Answering, SameIdentity, SameQueues
  <2>4. MetadataOnce(w.job, w.torrent, w.alerts)
    BY <1>2, <1>4 DEF MetadataOnce, Answering, SameIdentity, SameQueues
  <2> QED
    BY <1>2, <1>4, <2>1, <2>2, <2>3, <2>4 DEF Unowned
<1>6. /\ Typed(u) /\ SameQueues(w, u)
      /\ JobInv(u.job, u.torrent, u.alerts)
      /\ SameIdentity(w.job, u.job)
      /\ u.job.stopped = w.job.stopped /\ u.job.final = w.job.final
      /\ u.job.checkpoint.active = w.job.checkpoint.active
  BY <1>4, <1>5, StartWaitingKeeps
<1> HIDE DEF u
<1>7. /\ IsView(n) /\ n.job = u.job /\ n.torrent = u.torrent
      /\ n.events = u.events /\ n.alerts = u.alerts /\ n.asleep = {}
  BY <1>6, NotifyAllEffect DEF Typed
<1> HIDE DEF n
<1>8. n.events = v.events /\ n.alerts = v.alerts /\ SameIdentity(v.job, n.job)
  BY <1>2, <1>4, <1>6, <1>7 DEF SameQueues, SameIdentity
<1>9. n.job.checkpoint.active = v.job.checkpoint.active
  BY <1>1, <1>2, <1>4, <1>6, <1>7, NewCheckpointFacts DEF SessionJob, Checkpoint
<1> QED
  BY <1>2, <1>4, <1>6, <1>7, <1>8, <1>9 DEF Finished, Typed, Publishes, n, u, w

\* finish_checkpoint.
LEMMA FinishCheckpointKeeps ==
    ASSUME NEW v, NEW saved \in BOOLEAN, Answering(v, saved), NEW id, Publishes(v, id)
    PROVE  Finished(v, FinishCheckpoint(v, id, saved), saved)
<1> DEFINE success == saved /\ ~v.job.checkpoint.error
           n       == FinishCheckpoint(v, id, saved)
<1>1. CASE v.job.completion_checkpoint
  <2>1. n = FinishCompletion(v, id, success)
    BY <1>1 DEF FinishCheckpoint
  <2>2. CASE success /\ ~PayloadsReady(v) /\ ~v.job.completion_rechecked
    BY <1>1, <2>1, <2>2, RecheckKeeps DEF FinishCompletion
  <2>3. CASE success /\ PayloadsReady(v) /\ MetadataSafe(v)
    <3>1. n = NotifyAll(Complete(v, id))
      BY <2>1, <2>3 DEF FinishCompletion
    <3> QED
      BY <1>1, <2>3, <3>1, CompleteKeeps
  <2>4. CASE /\ ~(success /\ ~PayloadsReady(v) /\ ~v.job.completion_rechecked)
             /\ ~(success /\ PayloadsReady(v) /\ MetadataSafe(v))
    <3>1. n = NotifyAll(FailCompletion(v, id))
      BY <2>1, <2>4 DEF FinishCompletion
    <3> QED
      BY <1>1, <3>1, FailCompletionKeeps
  <2> QED
    BY <2>2, <2>3, <2>4
<1>2. CASE ~v.job.completion_checkpoint /\ v.job.checkpoint.active
  BY <1>2, AnsweredKeeps DEF FinishCheckpoint
<1>3. CASE ~v.job.completion_checkpoint /\ ~v.job.checkpoint.active
  BY <1>3, DrainedKeeps DEF FinishCheckpoint
<1> QED
  BY <1>1, <1>2, <1>3

----------------------------------------------------------------------------
(* What a step on one job keeps.                                             *)

\* An alert that is no reply may come behind the replies.
LEMMA AppendRepliesAlike ==
    ASSUME NEW s \in Seq(Alert), NEW a \in Alert, NEW h,
           a.type \in {"metadata_received", "torrent_finished", "error", "state_changed"}
    PROVE  RepliesAlike(s, Append(s, a), h)
<1>1. ~IsReply(a, h) /\ a.type # "save_resume_data" /\ a.type # "cache_flushed"
  BY DEF IsReply, Replies
<1>2. NoReply(s, h) => NoReply(Append(s, a), h)
  BY <1>1, AppendKeeps
<1>3. \A request : OneReply(s, h, request) => OneReply(Append(s, a), h, request)
  BY <1>1, AppendKeeps
<1>4. \A need : DataAtLeast(s, h, need) => DataAtLeast(Append(s, a), h, need)
  BY <1>1, AppendKeeps
<1>5. \A moved : FlushOrError(s, h, moved) => FlushOrError(Append(s, a), h, moved)
  BY <1>1, AppendKeeps
<1> QED
  BY <1>2, <1>3, <1>4, <1>5 DEF RepliesAlike

\* A step that leaves the barrier, the completion and what is downloaded alone.
Steady(v, n) ==
    LET h == v.job.handle
    IN  /\ n.job.handle = h /\ n.job.checkpoint = v.job.checkpoint
        /\ n.job.completion_waiting = v.job.completion_waiting
        /\ n.job.completion_checkpoint = v.job.completion_checkpoint
        /\ n.job.stopped = v.job.stopped
        /\ n.torrent.life = v.torrent.life /\ n.torrent.requests = v.torrent.requests
        /\ n.torrent.metadata = v.torrent.metadata /\ n.torrent.safe = v.torrent.safe
        /\ n.torrent.written = v.torrent.written /\ n.torrent.durable = v.torrent.durable
        /\ n.job.fenced = v.job.fenced
        /\ v.job.completion_waiting \/ v.job.completion_checkpoint => n.job.desired = v.job.desired
        /\ RepliesAlike(v.alerts, n.alerts, h)
        /\ MetadataFirst(v.alerts, h) => MetadataFirst(n.alerts, h)
        /\ HasAlert(n.alerts, h, "metadata_received") => HasAlert(v.alerts, h, "metadata_received")
        /\ ~v.torrent.metadata /\ HasAlert(n.alerts, h, "torrent_finished")
              => HasAlert(v.alerts, h, "torrent_finished")

\* Such a step keeps what is true of the job and what its caller was promised.
LEMMA SteadyKeeps ==
    ASSUME NEW v, NEW n, Steady(v, n), JobInv(v.job, v.torrent, v.alerts)
    PROVE  /\ JobInv(n.job, n.torrent, n.alerts)
           /\ \A need : Covers(v.job, v.torrent, v.alerts, need)
                           => Covers(n.job, n.torrent, n.alerts, need)
<1>1. DoneInStep(n.job.checkpoint) /\ HasOwner(n.job)
  BY DEF Steady, JobInv, HasOwner
<1>2. StoppedForGood(n.job, n.torrent)
  BY DEF Steady, JobInv, StoppedForGood
<1>3. SlotExact(n.job, n.torrent, n.alerts)
  BY DEF Steady, JobInv, SlotExact, Owes, OwesNothing, RepliesAlike
<1>4. MetadataOnce(n.job, n.torrent, n.alerts)
  BY DEF Steady, JobInv, MetadataOnce
<1>5. ASSUME NEW need, Covers(v.job, v.torrent, v.alerts, need)
      PROVE  Covers(n.job, n.torrent, n.alerts, need)
  BY <1>5 DEF Steady, Covers, RepliesAlike
<1>6. n.job.completion_checkpoint => Covers(n.job, n.torrent, n.alerts, n.job.fenced)
  BY <1>5 DEF Steady, JobInv
<1> QED
  BY <1>1, <1>2, <1>3, <1>4, <1>5, <1>6 DEF JobInv

\* The queues of the other torrents are left alone.
QueueKept(s, t, h) ==
    /\ \A other : other # h => Alike(s, t, other)
    /\ \A i \in DOMAIN t : t[i].handle = h \/ \E j \in DOMAIN s : t[i].handle = s[j].handle

\* Who sleeps has nothing new to return for, or everybody is woken.
Rested(v, n) ==
    \/ n.asleep = {}
    \/ /\ n.asleep = v.asleep /\ n.events = v.events
       /\ n.job.metadata_ready => v.job.metadata_ready
       /\ n.job.checkpoint.done => v.job.checkpoint.done
       /\ n.job.stopped => v.job.stopped \/ v.job.metadata_ready

\* What becomes of the caller's request and of the final snapshot.
Promised(v, n) ==
    /\ v.job.checkpoint.active => \A need \in SUBSET Files :
          Covers(v.job, v.torrent, v.alerts, need) => Covers(n.job, n.torrent, n.alerts, need)
    /\ v.job.stopped => n.job.stopped /\ n.job.final = v.job.final
    /\ n.job.final # v.job.final => CompletedWell(v.job, v.torrent, n.job)

\* What every handler of an alert and every client call on a job keeps.
Kept(v, n) ==
    /\ Typed(n)
    /\ JobInv(n.job, n.torrent, n.alerts)
    /\ n.job.handle = v.job.handle
    /\ n.job.checkpoint.active = v.job.checkpoint.active
    /\ Promised(v, n)
    /\ QueueKept(v.alerts, n.alerts, v.job.handle)
    /\ MailboxInv(n.events) /\ LiveIds(n.events) = LiveIds(v.events)
    /\ Rested(v, n)

\* What a step on a job starts from.
Given(v, id) == Typed(v) /\ JobInv(v.job, v.torrent, v.alerts) /\ Publishes(v, id)

\* The view of a handler of the alert at the head of the queue.
Taken(v, w) ==
    /\ IsView(w)
    /\ w.job = v.job /\ w.torrent = v.torrent
    /\ w.events = v.events /\ w.asleep = v.asleep
    /\ v.alerts # <<>> /\ w.alerts = Tail(v.alerts)
    /\ Head(v.alerts).handle = v.job.handle /\ v.torrent.life # "gone"

\* The rest of the queue is left alone by its handler.
LEMMA TailQueueKept ==
    ASSUME NEW s \in Seq(Alert), s # <<>>
    PROVE  QueueKept(s, Tail(s), Head(s).handle)
<1>1. \A other : other # Head(s).handle => Alike(s, Tail(s), other)
  BY TailAlike
<1>2. \A i \in DOMAIN Tail(s) : i + 1 \in DOMAIN s /\ Tail(s)[i] = s[i + 1]
  BY TailPositions
<1> QED
  BY <1>1, <1>2 DEF QueueKept

\* An alert about a job's own torrent, too.
LEMMA AppendQueueKept ==
    ASSUME NEW s \in Seq(Alert), NEW a \in Alert
    PROVE  QueueKept(s, Append(s, a), a.handle)
<1>1. \A other : other # a.handle => Alike(s, Append(s, a), other)
  BY AppendAlike
<1>2. \A i \in DOMAIN Append(s, a) :
         Append(s, a)[i] = a \/ (i \in DOMAIN s /\ Append(s, a)[i] = s[i])
  BY AppendPositions
<1> QED
  BY <1>1, <1>2 DEF QueueKept

\* An unchanged queue is kept, and so is one that is kept twice.
LEMMA QueueKeptTwice ==
    ASSUME NEW s, NEW t, NEW u, NEW h
    PROVE  /\ QueueKept(s, s, h) /\ RepliesAlike(s, s, h)
           /\ QueueKept(s, t, h) /\ QueueKept(t, u, h) => QueueKept(s, u, h)
           /\ RepliesAlike(s, t, h) /\ RepliesAlike(t, u, h) => RepliesAlike(s, u, h)
<1>1. QueueKept(s, s, h) /\ RepliesAlike(s, s, h)
  BY DEF QueueKept, Alike, RepliesAlike
<1>2. ASSUME NEW k, RepliesAlike(s, t, k), RepliesAlike(t, u, k) PROVE RepliesAlike(s, u, k)
  BY <1>2 DEF RepliesAlike
<1>3. ASSUME NEW k, Alike(s, t, k), Alike(t, u, k) PROVE Alike(s, u, k)
  BY <1>2, <1>3 DEF Alike
<1>4. ASSUME QueueKept(s, t, h), QueueKept(t, u, h) PROVE QueueKept(s, u, h)
  <2>1. \A other : other # h => Alike(s, u, other)
    BY <1>3, <1>4 DEF QueueKept
  <2>2. \A i \in DOMAIN u : u[i].handle = h \/ \E j \in DOMAIN s : u[i].handle = s[j].handle
    BY <1>4 DEF QueueKept
  <2> QED
    BY <2>1, <2>2 DEF QueueKept
<1> QED
  BY <1>1, <1>2, <1>4

\* The head is taken, and it is neither a reply nor an error.
LEMMA TakenSteady ==
    ASSUME NEW v, Typed(v), NEW w, Taken(v, w),
           Head(v.alerts).type \in {"metadata_received", "torrent_finished", "state_changed"}
    PROVE  Typed(w) /\ Steady(v, w) /\ QueueKept(v.alerts, w.alerts, v.job.handle)
<1>1. v.alerts \in Seq(Alert) /\ v.alerts # <<>> /\ w.alerts = Tail(v.alerts)
  BY DEF Typed, Taken
<1>2. ~IsReply(Head(v.alerts), v.job.handle) /\ Head(v.alerts).type # "error"
  BY DEF IsReply, Replies
<1>3. Alike(v.alerts, w.alerts, v.job.handle)
  BY <1>1, <1>2, TailAlike
<1>4. w.alerts \in Seq(Alert)
  BY <1>1, TailPositions
<1>5. Steady(v, w)
  BY <1>3 DEF Steady, Alike, Taken
<1>6. QueueKept(v.alerts, w.alerts, v.job.handle)
  BY <1>1, TailQueueKept DEF Taken
<1> QED
  BY <1>4, <1>5, <1>6 DEF Typed, Taken

\* Two steady steps are one.
LEMMA SteadyTwice ==
    ASSUME NEW v, NEW x, NEW n, Steady(v, x), Steady(x, n),
           QueueKept(v.alerts, x.alerts, v.job.handle),
           QueueKept(x.alerts, n.alerts, v.job.handle)
    PROVE  Steady(v, n) /\ QueueKept(v.alerts, n.alerts, v.job.handle)
<1>1. RepliesAlike(v.alerts, n.alerts, v.job.handle)
  BY QueueKeptTwice DEF Steady
<1>2. QueueKept(v.alerts, n.alerts, v.job.handle)
  BY QueueKeptTwice
<1>3. Steady(v, n)
  BY <1>1 DEF Steady
<1> QED
  BY <1>2, <1>3

\* A job of which at most the priority vectors change.
SameButVectors(job, next) ==
    /\ next.handle = job.handle /\ next.desired = job.desired
    /\ next.checkpoint = job.checkpoint
    /\ next.completion_waiting = job.completion_waiting
    /\ next.completion_checkpoint = job.completion_checkpoint
    /\ next.stopped = job.stopped /\ next.fenced = job.fenced /\ next.final = job.final
    /\ next.metadata_ready = job.metadata_ready

\* What the calls on priorities leave: the barrier, the completion, the waits and
\* the mailbox are as they were.
Applied(v, n) ==
    /\ Typed(n) /\ Steady(v, n)
    /\ QueueKept(v.alerts, n.alerts, v.job.handle)
    /\ n.events = v.events /\ n.asleep = v.asleep
    /\ n.job.handle = v.job.handle
    /\ n.job.final = v.job.final /\ n.job.metadata_ready = v.job.metadata_ready

\* Two such calls are one.
LEMMA AppliedTwice ==
    ASSUME NEW v, NEW x, NEW n, Applied(v, x), Applied(x, n)
    PROVE  Applied(v, n)
<1>1. Steady(v, n) /\ QueueKept(v.alerts, n.alerts, v.job.handle)
  BY SteadyTwice DEF Applied
<1> QED
  BY <1>1 DEF Applied

\* A job with other vectors.
LEMMA StoredApplied ==
    ASSUME NEW v, Typed(v), NEW job \in SessionJob, SameButVectors(v.job, job)
    PROVE  LET n == [v EXCEPT !.job = job]
           IN  /\ Applied(v, n)
               /\ n.job = job /\ n.torrent = v.torrent /\ n.alerts = v.alerts
<1> DEFINE n == [v EXCEPT !.job = job]
<1>1. /\ IsView(n) /\ n.job = job /\ n.torrent = v.torrent
      /\ n.events = v.events /\ n.alerts = v.alerts /\ n.asleep = v.asleep
  BY DEF Typed, IsView
<1> HIDE DEF n
<1>2. /\ QueueKept(v.alerts, n.alerts, v.job.handle)
      /\ RepliesAlike(v.alerts, n.alerts, v.job.handle)
  BY <1>1, QueueKeptTwice
<1>3. Steady(v, n)
  BY <1>1, <1>2 DEF Steady, SameButVectors
<1> QED
  BY <1>1, <1>2, <1>3 DEF Applied, Typed, SameButVectors, n

\* prioritize_pieces.
LEMMA PrioritizeApplied ==
    ASSUME NEW x, Typed(x), x.torrent.metadata, NEW k \in SUBSET Files
    PROVE  Applied(x, PrioritizePieces(x, k))
<1> DEFINE finished == k \subseteq x.torrent.written
           torrent  == [x.torrent EXCEPT !.wanted = k, !.finished = finished]
           a        == NewAlert("torrent_finished", x.job.handle, NoData)
           queue    == IF finished /\ ~x.torrent.finished THEN Append(x.alerts, a) ELSE x.alerts
           n        == PrioritizePieces(x, k)
<1>1. x.job \in SessionJob /\ x.torrent \in Torrent /\ x.alerts \in Seq(Alert) /\ IsView(x)
  BY DEF Typed
<1>2. n = [x EXCEPT !.torrent = torrent, !.alerts = queue]
  BY DEF PrioritizePieces
<1>3. a \in Alert /\ a.handle = x.job.handle /\ a.type = "torrent_finished"
  BY <1>1 DEF NewAlert, Alert, SessionJob, NoData
<1>4. finished \in BOOLEAN
  OBVIOUS
<1> HIDE DEF finished
<1>5. /\ torrent \in Torrent /\ torrent.life = x.torrent.life
      /\ torrent.requests = x.torrent.requests
      /\ torrent.metadata = x.torrent.metadata /\ torrent.safe = x.torrent.safe
      /\ torrent.written = x.torrent.written /\ torrent.durable = x.torrent.durable
  BY <1>1, <1>4 DEF Torrent
<1> HIDE DEF a, torrent
<1>6. /\ queue \in Seq(Alert)
      /\ QueueKept(x.alerts, queue, x.job.handle)
      /\ RepliesAlike(x.alerts, queue, x.job.handle)
      /\ MetadataFirst(x.alerts, x.job.handle) => MetadataFirst(queue, x.job.handle)
      /\ HasAlert(queue, x.job.handle, "metadata_received")
            => HasAlert(x.alerts, x.job.handle, "metadata_received")
  <2>1. CASE queue = x.alerts
    BY <1>1, <2>1, QueueKeptTwice
  <2>2. CASE queue = Append(x.alerts, a)
    <3>1. queue \in Seq(Alert)
      BY <1>1, <1>3, <2>2
    <3>2. QueueKept(x.alerts, queue, x.job.handle)
      BY <1>1, <1>3, <2>2, AppendQueueKept
    <3>3. RepliesAlike(x.alerts, queue, x.job.handle)
      BY <1>1, <1>3, <2>2, AppendRepliesAlike
    <3>4. /\ MetadataFirst(x.alerts, x.job.handle) => MetadataFirst(queue, x.job.handle)
          /\ HasAlert(queue, x.job.handle, "metadata_received")
                => HasAlert(x.alerts, x.job.handle, "metadata_received")
      BY <1>1, <1>3, <2>2, AppendKeeps
    <3> QED
      BY <3>1, <3>2, <3>3, <3>4
  <2> QED
    BY <2>1, <2>2
<1> HIDE DEF queue, n
<1>7. /\ IsView(n) /\ n.job = x.job /\ n.torrent = torrent /\ n.alerts = queue
      /\ n.events = x.events /\ n.asleep = x.asleep
  BY <1>1, <1>2 DEF IsView
<1>8. Steady(x, n)
  BY <1>5, <1>6, <1>7 DEF Steady
<1> QED
  BY <1>1, <1>5, <1>6, <1>7, <1>8 DEF Applied, Typed, n

\* apply_selection, whether it refuses or not.
LEMMA ApplySelectionEffect ==
    ASSUME NEW x, Typed(x)
    PROVE  Applied(x, ApplySelection(x))
<1>1. x.job \in SessionJob
  BY DEF Typed
<1>2. CASE SelectionApplies(x)
  <2> DEFINE job == Accepted(x.job)
             y   == [x EXCEPT !.job = job]
             k   == PiecesToApply(x.job)
  <2>1. FilesToApply(x.job) \in SUBSET Files /\ x.torrent.metadata
    BY <1>2 DEF SelectionApplies
  <2>2. k \in SUBSET Files
    BY <1>1, <2>1 DEF PiecesToApply, SessionJob
  <2>3. job \in SessionJob /\ SameButVectors(x.job, job)
    <3>1. Accepted(x.job) \in SessionJob
      BY <1>1, <2>1, <2>2 DEF Accepted, SessionJob, k
    <3>2. SameButVectors(x.job, Accepted(x.job))
      BY <1>1 DEF Accepted, SessionJob, SameButVectors
    <3> QED
      BY <3>1, <3>2
  <2> HIDE DEF job, k
  <2>4. Applied(x, y) /\ y.torrent = x.torrent
    BY <2>3, StoredApplied
  <2>5. ApplySelection(x) = PrioritizePieces(y, k)
    BY <1>2 DEF ApplySelection, job, k
  <2> HIDE DEF y
  <2>6. Applied(y, PrioritizePieces(y, k))
    BY <2>1, <2>2, <2>4, PrioritizeApplied DEF Applied
  <2> QED
    BY <2>4, <2>5, <2>6, AppliedTwice
<1>3. CASE ~SelectionApplies(x)
  <2> DEFINE files == IF x.torrent.metadata THEN x.job.desired \cap Files ELSE x.job.priorities
             job   == [x.job EXCEPT !.priorities = files]
  <2>1. files \in {Unset} \cup SUBSET Files
    BY <1>1 DEF SessionJob
  <2>2. ApplySelection(x) = [x EXCEPT !.job = job]
    BY <1>3 DEF ApplySelection
  <2> HIDE DEF files
  <2>3. job \in SessionJob /\ SameButVectors(x.job, job)
    BY <1>1, <2>1 DEF SessionJob, SameButVectors
  <2> HIDE DEF job
  <2> QED
    BY <2>2, <2>3, StoredApplied
<1> QED
  BY <1>2, <1>3

\* Rejecting a torrent: if it was completing, for metadata no completion accepts.
LEMMA RejectKeeps ==
    ASSUME NEW v, Typed(v), JobInv(v.job, v.torrent, v.alerts),
           v.job.completion_waiting \/ v.job.completion_checkpoint => v.torrent.safe # Files
    PROVE  LET n == Reject(v)
           IN  /\ Typed(n) /\ SameQueues(v, n)
               /\ JobInv(n.job, n.torrent, n.alerts)
               /\ \A need : Covers(v.job, v.torrent, v.alerts, need)
                               => Covers(n.job, n.torrent, n.alerts, need)
               /\ SameIdentity(v.job, n.job) /\ n.job.checkpoint = v.job.checkpoint
               /\ n.job.stopped = TRUE /\ n.job.final = v.job.final
<1> DEFINE n == Reject(v)
<1>1. /\ IsView(n) /\ SameQueues(v, n)
      /\ n.job \in SessionJob /\ n.job = [v.job EXCEPT !.stopped = TRUE]
      /\ n.torrent \in Torrent /\ SamePayload(v.torrent, n.torrent)
      /\ n.torrent.requests = v.torrent.requests
      /\ n.torrent.life # "live"
      /\ n.torrent.life = "gone" <=> v.torrent.life = "gone"
  BY RejectEffect DEF Typed
<1> HIDE DEF n
<1>2. /\ SameIdentity(v.job, n.job) /\ n.job.checkpoint = v.job.checkpoint
      /\ n.job.completion_waiting = v.job.completion_waiting
      /\ n.job.completion_checkpoint = v.job.completion_checkpoint
      /\ n.job.stopped = TRUE /\ n.job.final = v.job.final /\ n.job.fenced = v.job.fenced
  BY <1>1 DEF Typed, SessionJob, SameIdentity
<1>3. Typed(n) /\ n.alerts = v.alerts
  BY <1>1 DEF Typed, SameQueues
<1>4. DoneInStep(n.job.checkpoint) /\ HasOwner(n.job)
  BY <1>2 DEF JobInv, HasOwner
<1>5. StoppedForGood(n.job, n.torrent)
  BY <1>1, <1>2 DEF StoppedForGood, SamePayload
<1>6. SlotExact(n.job, n.torrent, n.alerts)
  BY <1>1, <1>2, <1>3 DEF JobInv, SlotExact, Owes, OwesNothing, SameIdentity
<1>7. MetadataOnce(n.job, n.torrent, n.alerts)
  BY <1>1, <1>2, <1>3 DEF JobInv, MetadataOnce, SameIdentity, SamePayload
<1>8. \A need : Covers(v.job, v.torrent, v.alerts, need)
                   => Covers(n.job, n.torrent, n.alerts, need)
  BY <1>1, <1>2, <1>3 DEF Covers, SameIdentity, SamePayload
<1>9. JobInv(n.job, n.torrent, n.alerts)
  BY <1>1, <1>2, <1>4, <1>5, <1>6, <1>7, <1>8 DEF JobInv, SamePayload
<1> QED
  BY <1>1, <1>2, <1>3, <1>8, <1>9 DEF n

\* A steady step that wakes everybody it has news for keeps the job.
LEMMA SteadyKept ==
    ASSUME NEW v, NEW n, NEW id, Given(v, id), Steady(v, n), Typed(n),
           QueueKept(v.alerts, n.alerts, v.job.handle),
           MailboxInv(n.events), LiveIds(n.events) = LiveIds(v.events),
           n.job.final = v.job.final,
           \/ n.asleep = {}
           \/ /\ n.asleep = v.asleep /\ n.events = v.events
              /\ n.job.metadata_ready = v.job.metadata_ready
    PROVE  Kept(v, n)
<1>1. /\ JobInv(n.job, n.torrent, n.alerts)
      /\ \A need : Covers(v.job, v.torrent, v.alerts, need)
                      => Covers(n.job, n.torrent, n.alerts, need)
  BY SteadyKeeps DEF Given
<1>2. Promised(v, n)
  BY <1>1 DEF Promised, Steady
<1>3. Rested(v, n)
  BY DEF Rested, Steady
<1> QED
  BY <1>1, <1>2, <1>3 DEF Kept, Steady

\* metadata_received_alert.
LEMMA MetadataReceivedKeeps ==
    ASSUME NEW v, NEW id, Given(v, id), NEW w, Taken(v, w),
           Head(v.alerts).type = "metadata_received"
    PROVE  LET x == [w EXCEPT !.job.metadata_ready = TRUE]
           IN  Kept(v, NotifyAll(
                   IF SelectionApplies(x)
                   THEN Enqueue(ApplySelection(x), id, Kind.metadata, "metadataReady")
                   ELSE Enqueue(Reject(ApplySelection(x)), id, Kind.invalid_selection,
                                "invalidSelection")))
<1> DEFINE x   == [w EXCEPT !.job.metadata_ready = TRUE]
           job == [v.job EXCEPT !.metadata_ready = TRUE]
<1>1. Typed(v) /\ v.job \in SessionJob /\ v.alerts \in Seq(Alert) /\ v.alerts # <<>>
  BY DEF Given, Typed, Taken
<1>2. Typed(w) /\ Steady(v, w) /\ QueueKept(v.alerts, w.alerts, v.job.handle)
  BY <1>1, TakenSteady
<1>3. /\ job \in SessionJob /\ job.handle = v.job.handle /\ job.checkpoint = v.job.checkpoint
      /\ job.completion_waiting = v.job.completion_waiting
      /\ job.completion_checkpoint = v.job.completion_checkpoint
      /\ job.stopped = v.job.stopped /\ job.final = v.job.final /\ job.desired = v.job.desired
      /\ job.fenced = v.job.fenced
  BY <1>1 DEF SessionJob
<1>4. x = [w EXCEPT !.job = job]
  BY DEF Taken
<1> HIDE DEF job, x
<1>5. /\ IsView(x) /\ x.job = job /\ x.torrent = v.torrent
      /\ x.events = v.events /\ x.alerts = w.alerts /\ x.asleep = v.asleep
  BY <1>4 DEF IsView, Taken
<1>6. Typed(x) /\ Steady(v, x) /\ QueueKept(v.alerts, x.alerts, v.job.handle)
  BY <1>2, <1>3, <1>5 DEF Typed, Steady, Taken
<1>7. ~v.job.completion_waiting /\ ~v.job.completion_checkpoint
  <2>1. HasAlert(v.alerts, v.job.handle, "metadata_received")
    BY <1>1, HeadIsAlert DEF Taken
  <2> QED
    BY <2>1 DEF Given, JobInv, MetadataOnce, Taken
<1>8. /\ JobInv(x.job, x.torrent, x.alerts)
      /\ \A need : Covers(v.job, v.torrent, v.alerts, need)
                      => Covers(x.job, x.torrent, x.alerts, need)
  BY <1>6, SteadyKeeps DEF Given
<1>9. Publishes(x, id)
  BY <1>5 DEF Given, Publishes
<1>10. /\ Kind.metadata \in Kinds /\ "metadataReady" \in Json
       /\ Kind.invalid_selection \in Kinds /\ "invalidSelection" \in Json
  BY PayloadAssumption DEF Kind, Kinds
<1>11. CASE SelectionApplies(x)
  <2> DEFINE y == ApplySelection(x)
             z == Enqueue(y, id, Kind.metadata, "metadataReady")
             n == NotifyAll(z)
  <2>1. /\ Typed(y) /\ Steady(x, y)
        /\ QueueKept(x.alerts, y.alerts, x.job.handle)
        /\ y.events = x.events /\ y.asleep = x.asleep /\ y.job.final = x.job.final
    BY <1>6, ApplySelectionEffect DEF Applied
  <2> HIDE DEF y
  <2>2. Steady(v, y) /\ QueueKept(v.alerts, y.alerts, v.job.handle)
    BY <1>3, <1>5, <1>6, <2>1, SteadyTwice
  <2>3. IsView(y) /\ Publishes(y, id)
    BY <1>9, <2>1 DEF Typed, Publishes
  <2>4. /\ IsView(z) /\ z.job = y.job /\ z.torrent = y.torrent
        /\ z.alerts = y.alerts /\ z.asleep = {}
        /\ MailboxInv(z.events) /\ LiveIds(z.events) = LiveIds(y.events)
    BY <1>10, <2>3, EnqueueEffect
  <2> HIDE DEF z
  <2>5. /\ IsView(n) /\ n.job = z.job /\ n.torrent = z.torrent
        /\ n.events = z.events /\ n.alerts = z.alerts /\ n.asleep = {}
    BY <2>4, NotifyAllEffect
  <2> HIDE DEF n
  <2>6. Steady(v, n)
    BY <2>2, <2>4, <2>5 DEF Steady
  <2>7. Typed(n)
    BY <2>1, <2>4, <2>5 DEF Typed
  <2>8. Kept(v, n)
    BY <1>3, <1>5, <2>1, <2>2, <2>4, <2>5, <2>6, <2>7, SteadyKept
  <2> QED
    BY <1>11, <2>8 DEF n, z, y, x
<1>12. CASE ~SelectionApplies(x)
  <2> DEFINE u == ApplySelection(x)
             y == Reject(u)
             z == Enqueue(y, id, Kind.invalid_selection, "invalidSelection")
             n == NotifyAll(z)
  <2>01. Applied(x, u)
    BY <1>6, ApplySelectionEffect
  <2> HIDE DEF u
  <2>02. /\ Typed(u) /\ JobInv(u.job, u.torrent, u.alerts)
        /\ \A need : Covers(x.job, x.torrent, x.alerts, need)
                        => Covers(u.job, u.torrent, u.alerts, need)
    BY <1>8, <2>01, SteadyKeeps DEF Applied
  <2>03. ~u.job.completion_waiting /\ ~u.job.completion_checkpoint
    BY <1>3, <1>5, <1>7, <2>01 DEF Applied, Steady
  <2>1. /\ Typed(y) /\ SameQueues(u, y)
        /\ JobInv(y.job, y.torrent, y.alerts)
        /\ \A need : Covers(u.job, u.torrent, u.alerts, need)
                        => Covers(y.job, y.torrent, y.alerts, need)
        /\ SameIdentity(u.job, y.job) /\ y.job.checkpoint = u.job.checkpoint
        /\ y.job.stopped = TRUE /\ y.job.final = u.job.final
    BY <2>02, <2>03, RejectKeeps
  <2> HIDE DEF y
  <2>2. IsView(y) /\ Publishes(y, id)
    BY <1>9, <2>01, <2>1 DEF Typed, Publishes, SameQueues, Applied
  <2>3. /\ IsView(z) /\ z.job = y.job /\ z.torrent = y.torrent
        /\ z.alerts = y.alerts /\ z.asleep = {}
        /\ MailboxInv(z.events) /\ LiveIds(z.events) = LiveIds(y.events)
    BY <1>10, <2>2, EnqueueEffect
  <2> HIDE DEF z
  <2>4. /\ IsView(n) /\ n.job = z.job /\ n.torrent = z.torrent
        /\ n.events = z.events /\ n.alerts = z.alerts /\ n.asleep = {}
    BY <2>3, NotifyAllEffect
  <2> HIDE DEF n
  <2>5. Typed(n) /\ JobInv(n.job, n.torrent, n.alerts) /\ n.alerts = u.alerts
    BY <2>1, <2>3, <2>4 DEF Typed, SameQueues
  <2>6. Promised(v, n)
    BY <1>3, <1>5, <1>8, <2>01, <2>02, <2>1, <2>3, <2>4 DEF Promised, Applied
  <2>7. /\ n.job.handle = v.job.handle /\ n.job.checkpoint = v.job.checkpoint
        /\ LiveIds(n.events) = LiveIds(v.events) /\ MailboxInv(n.events)
    BY <1>3, <1>5, <2>01, <2>1, <2>3, <2>4 DEF SameIdentity, SameQueues, Applied, Steady
  <2>8. QueueKept(v.alerts, n.alerts, v.job.handle)
    BY <1>3, <1>5, <1>6, <2>01, <2>5, QueueKeptTwice DEF Applied
  <2>9. Kept(v, n)
    BY <2>4, <2>5, <2>6, <2>7, <2>8 DEF Kept, Rested
  <2> QED
    BY <1>12, <2>9 DEF n, z, y, x, u
<1> QED
  BY <1>11, <1>12 DEF x

\* torrent_finished_alert: the completion waits for the slot, or takes it.
LEMMA TorrentFinishedKeeps ==
    ASSUME NEW v, NEW id, Given(v, id), NEW w, Taken(v, w),
           Head(v.alerts).type = "torrent_finished"
    PROVE  Kept(v, IF CompletionBegins(w)
                   THEN StartWaitingCompletion(
                           [w EXCEPT !.torrent = [w.torrent EXCEPT !.paused = TRUE],
                                     !.job     = [w.job EXCEPT !.completion_waiting = TRUE]])
                   ELSE w)
<1>1. /\ Typed(v) /\ v.job \in SessionJob /\ v.torrent \in Torrent
      /\ v.alerts \in Seq(Alert) /\ v.alerts # <<>>
  BY DEF Given, Typed, Taken
<1>2. Typed(w) /\ Steady(v, w) /\ QueueKept(v.alerts, w.alerts, v.job.handle)
  BY <1>1, TakenSteady
<1>3. CASE ~CompletionBegins(w)
  <2>1. Kept(v, w)
    BY <1>2, SteadyKept DEF Given, Publishes, Taken
  <2> QED
    BY <1>3, <2>1
<1>4. CASE CompletionBegins(w)
  <2> DEFINE job     == [v.job EXCEPT !.completion_waiting = TRUE]
             torrent == [v.torrent EXCEPT !.paused = TRUE]
             x       == [w EXCEPT !.torrent = torrent, !.job = job]
             n       == StartWaitingCompletion(x)
  <2>1. /\ job \in SessionJob /\ SameIdentity(v.job, job) /\ job.checkpoint = v.job.checkpoint
        /\ job.completion_waiting = TRUE
        /\ job.completion_checkpoint = v.job.completion_checkpoint
        /\ job.stopped = v.job.stopped /\ job.final = v.job.final
        /\ job.fenced = v.job.fenced
    BY <1>1 DEF SessionJob, SameIdentity
  <2>2. /\ torrent \in Torrent /\ SamePayload(v.torrent, torrent)
        /\ torrent.life = v.torrent.life /\ torrent.requests = v.torrent.requests
    BY <1>1 DEF Torrent, SamePayload
  <2> HIDE DEF job, torrent
  <2>3. /\ IsView(x) /\ x.job = job /\ x.torrent = torrent
        /\ x.events = v.events /\ x.alerts = w.alerts /\ x.asleep = v.asleep
    BY DEF IsView, Taken
  <2> HIDE DEF x
  <2>4. Typed(x)
    BY <1>2, <2>1, <2>2, <2>3 DEF Typed
  <2>5. ~v.job.completion_checkpoint /\ ~v.job.stopped
    BY <1>4 DEF CompletionBegins, Taken
  <2>6. /\ JobInv(w.job, w.torrent, w.alerts)
        /\ \A need : Covers(v.job, v.torrent, v.alerts, need)
                        => Covers(w.job, w.torrent, w.alerts, need)
    BY <1>2, SteadyKeeps DEF Given
  <2>7. /\ v.torrent.metadata
        /\ ~HasAlert(w.alerts, v.job.handle, "metadata_received")
    <3>1. HasAlert(v.alerts, v.job.handle, "torrent_finished")
      BY <1>1, HeadIsAlert DEF Taken
    <3>2. v.torrent.metadata /\ MetadataFirst(v.alerts, v.job.handle)
      BY <3>1 DEF Given, JobInv, MetadataOnce, Taken
    <3>3. ~HasAlert(v.alerts, v.job.handle, "metadata_received")
      BY <1>1, <3>2, FinishedAtHead DEF Taken
    <3> QED
      BY <1>2, <3>2, <3>3 DEF Steady
  <2>8. Unowned(x.job, x.torrent, x.alerts)
    <3>1. DoneInStep(x.job.checkpoint)
      BY <2>1, <2>3, <2>6 DEF JobInv, Taken
    <3>2. StoppedForGood(x.job, x.torrent)
      BY <2>1, <2>2, <2>3, <2>5, <2>6 DEF StoppedForGood, JobInv, Taken
    <3>3. SlotExact(x.job, x.torrent, x.alerts)
      BY <2>1, <2>2, <2>3, <2>6 DEF SlotExact, Owes, OwesNothing, JobInv, Taken, SameIdentity
    <3>4. MetadataOnce(x.job, x.torrent, x.alerts)
      BY <2>1, <2>2, <2>3, <2>5, <2>6, <2>7
         DEF MetadataOnce, JobInv, Taken, SameIdentity, SamePayload
    <3> QED
      BY <2>1, <2>3, <2>5, <3>1, <3>2, <3>3, <3>4 DEF Unowned
  <2>9. /\ Typed(n) /\ SameQueues(x, n)
        /\ JobInv(n.job, n.torrent, n.alerts)
        /\ SameIdentity(x.job, n.job)
        /\ n.job.stopped = x.job.stopped /\ n.job.final = x.job.final
        /\ n.job.checkpoint.active = x.job.checkpoint.active
        /\ n.job.checkpoint.done = x.job.checkpoint.done
        /\ x.job.checkpoint.active => n = x
    BY <2>4, <2>8, StartWaitingKeeps
  <2> HIDE DEF n
  <2>10. Promised(v, n)
    <3>1. \A need : Covers(w.job, w.torrent, w.alerts, need)
                       => Covers(x.job, x.torrent, x.alerts, need)
      BY <2>1, <2>2, <2>3 DEF Covers, Taken, SameIdentity, SamePayload
    <3>2. v.job.checkpoint.active => n = x
      BY <2>1, <2>3, <2>9
    <3>3. n.job.stopped = v.job.stopped /\ n.job.final = v.job.final
      BY <2>1, <2>3, <2>9
    <3> QED
      BY <2>6, <3>1, <3>2, <3>3 DEF Promised
  <2>11. Rested(v, n)
    BY <2>1, <2>3, <2>9 DEF Rested, SameQueues, SameIdentity
  <2>12. /\ n.job.handle = v.job.handle
         /\ n.job.checkpoint.active = v.job.checkpoint.active
         /\ n.alerts = w.alerts /\ n.events = v.events
    BY <2>1, <2>3, <2>9 DEF SameQueues, SameIdentity
  <2>13. Kept(v, n)
    BY <1>2, <2>9, <2>10, <2>11, <2>12 DEF Kept, Given, Publishes
  <2>14. n = StartWaitingCompletion(
                 [w EXCEPT !.torrent = [w.torrent EXCEPT !.paused = TRUE],
                           !.job     = [w.job EXCEPT !.completion_waiting = TRUE]])
    BY DEF n, x, job, torrent, Taken
  <2> QED
    BY <1>4, <2>13, <2>14
<1> QED
  BY <1>3, <1>4

\* A reply at the head is the one the barrier waits for, and the last.
LEMMA ReplyIsAwaited ==
    ASSUME NEW v, NEW id, Given(v, id), NEW w, Taken(v, w),
           Head(v.alerts).type \in DOMAIN Replies
    PROVE  /\ Typed(w) /\ QueueKept(v.alerts, w.alerts, v.job.handle)
           /\ Pending(v.job.checkpoint.phase)
           /\ Replies[Head(v.alerts).type] = Awaited[v.job.checkpoint.phase]
           /\ v.torrent.requests = <<>> /\ NoReply(w.alerts, v.job.handle)
           /\ MetadataOnce(w.job, w.torrent, w.alerts)
           /\ ~v.job.checkpoint.done
<1>1. v.alerts \in Seq(Alert) /\ v.alerts # <<>> /\ w.alerts = Tail(v.alerts)
  BY DEF Given, Typed, Taken
<1>2. IsReply(Head(v.alerts), v.job.handle)
  BY DEF IsReply, Taken
<1>3. ~NoReply(v.alerts, v.job.handle)
  BY <1>1, <1>2, HeadIsAlert
<1>4. /\ Pending(v.job.checkpoint.phase) /\ v.torrent.requests = <<>>
      /\ OneReply(v.alerts, v.job.handle, Awaited[v.job.checkpoint.phase])
  BY <1>3 DEF Given, JobInv, SlotExact, Owes, OwesNothing, Taken
<1>5. /\ NoReply(w.alerts, v.job.handle)
      /\ Replies[Head(v.alerts).type] = Awaited[v.job.checkpoint.phase]
  BY <1>1, <1>2, <1>4, TailReply
<1>6. w.alerts \in Seq(Alert) /\ QueueKept(v.alerts, w.alerts, v.job.handle)
  BY <1>1, TailPositions, TailQueueKept DEF Taken
<1>7. MetadataOnce(w.job, w.torrent, w.alerts)
  <2>1. /\ MetadataFirst(v.alerts, v.job.handle) => MetadataFirst(w.alerts, v.job.handle)
        /\ \A type : ~HasAlert(v.alerts, v.job.handle, type)
                        => ~HasAlert(w.alerts, v.job.handle, type)
    BY <1>1, TailKeeps
  <2> QED
    BY <2>1 DEF MetadataOnce, Given, JobInv, Taken
<1>8. ~v.job.checkpoint.done
  BY <1>4 DEF Given, JobInv, DoneInStep, Pending
<1> QED
  BY <1>4, <1>5, <1>6, <1>7, <1>8 DEF Typed, Given, Taken

\* cache_flushed_alert: the save follows the flush.
LEMMA CacheFlushedKeeps ==
    ASSUME NEW v, NEW id, Given(v, id), NEW w, Taken(v, w),
           Head(v.alerts).type = "cache_flushed"
    PROVE  Kept(v, IF FlushDue(w.job.checkpoint.phase)
                   THEN [w EXCEPT !.job     = [w.job EXCEPT !.checkpoint.phase = CacheFlushed(@)],
                                  !.torrent = Asked(w.torrent, "save")]
                   ELSE w)
<1> DEFINE checkpoint == [v.job.checkpoint EXCEPT !.phase = "saving"]
           job        == [v.job EXCEPT !.checkpoint = checkpoint]
           requests   == Append(v.torrent.requests, "save")
           torrent    == [v.torrent EXCEPT !.requests = requests]
           n          == [w EXCEPT !.job = job, !.torrent = torrent]
<1>1. /\ v.job \in SessionJob /\ v.torrent \in Torrent /\ v.job.checkpoint \in Checkpoint
      /\ v.alerts \in Seq(Alert) /\ v.alerts # <<>>
  BY DEF Given, Typed, Taken, SessionJob
<1>2. Head(v.alerts).type \in DOMAIN Replies /\ Replies["cache_flushed"] = "flush"
  BY DEF Replies
<1>3. /\ Typed(w) /\ QueueKept(v.alerts, w.alerts, v.job.handle)
      /\ Pending(v.job.checkpoint.phase)
      /\ Replies[Head(v.alerts).type] = Awaited[v.job.checkpoint.phase]
      /\ v.torrent.requests = <<>> /\ NoReply(w.alerts, v.job.handle)
      /\ MetadataOnce(w.job, w.torrent, w.alerts)
      /\ ~v.job.checkpoint.done
  BY <1>2, ReplyIsAwaited
<1>4. v.job.checkpoint.phase = "flushing"
  BY <1>2, <1>3 DEF Pending, Awaited
<1>5. [w.job EXCEPT !.checkpoint.phase = CacheFlushed(@)] = job
  BY <1>4 DEF CacheFlushed, FlushDue, Taken
<1>6. Asked(w.torrent, "save") = torrent
  BY DEF Asked, Taken
<1>7. /\ checkpoint \in Checkpoint /\ checkpoint.phase = "saving"
      /\ checkpoint.active = v.job.checkpoint.active /\ checkpoint.done = v.job.checkpoint.done
      /\ checkpoint.error = v.job.checkpoint.error
  BY <1>1 DEF Checkpoint, Phases
<1> HIDE DEF checkpoint
<1>8. /\ job \in SessionJob /\ SameIdentity(v.job, job) /\ job.checkpoint = checkpoint
      /\ job.completion_waiting = v.job.completion_waiting
      /\ job.completion_checkpoint = v.job.completion_checkpoint
      /\ job.stopped = v.job.stopped /\ job.final = v.job.final
      /\ job.fenced = v.job.fenced
  BY <1>1, <1>7 DEF SessionJob, SameIdentity
<1>9. requests = <<"save">> /\ requests \in Seq({"flush", "save"})
  BY <1>3
<1> HIDE DEF requests
<1>10. /\ torrent \in Torrent /\ SamePayload(v.torrent, torrent)
       /\ torrent.life = v.torrent.life /\ torrent.requests = requests
  BY <1>1, <1>9 DEF Torrent, SamePayload
<1> HIDE DEF job, torrent
<1>11. /\ IsView(n) /\ n.job = job /\ n.torrent = torrent
       /\ n.events = v.events /\ n.alerts = w.alerts /\ n.asleep = v.asleep
  BY DEF IsView, Taken
<1> HIDE DEF n
<1>12. DoneInStep(n.job.checkpoint) /\ HasOwner(n.job)
  BY <1>3, <1>7, <1>8, <1>11 DEF DoneInStep, HasOwner, Pending, Idle, Given, JobInv
<1>13. StoppedForGood(n.job, n.torrent)
  BY <1>8, <1>10, <1>11 DEF StoppedForGood, Given, JobInv, SameIdentity, SamePayload
<1>14. SlotExact(n.job, n.torrent, n.alerts)
  BY <1>3, <1>7, <1>8, <1>9, <1>10, <1>11 DEF SlotExact, Owes, Pending, Awaited, SameIdentity
<1>15. MetadataOnce(n.job, n.torrent, n.alerts)
  BY <1>3, <1>8, <1>10, <1>11 DEF MetadataOnce, Taken, SameIdentity, SamePayload
<1>16. ASSUME NEW need, Covers(v.job, v.torrent, v.alerts, need)
       PROVE  Covers(n.job, n.torrent, n.alerts, need)
  <2> DEFINE moved == v.job.checkpoint.error \/ need \subseteq v.torrent.durable
  <2>1. FlushOrError(v.alerts, v.job.handle, moved) /\ need \subseteq v.torrent.written
    BY <1>16 DEF Covers, Taken
  <2>2. moved
    <3> HIDE DEF moved
    <3> QED
      BY <1>1, <2>1, FlushAtHead DEF Taken
  <2>3. w.alerts \in Seq(Alert)
    BY <1>3 DEF Typed
  <2>4. /\ \A any : FlushOrError(w.alerts, v.job.handle, any)
        /\ DataAtLeast(w.alerts, v.job.handle, need)
    BY <1>3, <2>3, NoReplyCovers
  <2> QED
    BY <1>3, <1>7, <1>8, <1>10, <1>11, <2>1, <2>2, <2>4 DEF Covers, SameIdentity, SamePayload
<1>17. JobInv(n.job, n.torrent, n.alerts)
  BY <1>8, <1>10, <1>11, <1>12, <1>13, <1>14, <1>15, <1>16 DEF JobInv, Given, SamePayload
<1>18. Promised(v, n)
  BY <1>8, <1>11, <1>16 DEF Promised
<1>19. Rested(v, n)
  BY <1>7, <1>8, <1>11 DEF Rested, SameIdentity
<1>20. Typed(n)
  BY <1>3, <1>8, <1>10, <1>11 DEF Typed
<1>21. Kept(v, n)
  BY <1>3, <1>7, <1>8, <1>11, <1>17, <1>18, <1>19, <1>20 DEF Kept, Given, Publishes, SameIdentity
<1> QED
  BY <1>4, <1>5, <1>6, <1>21 DEF n, FlushDue, Taken

\* What finish_checkpoint leaves is kept, if it answers what the barrier waited for.
LEMMA FinishedKept ==
    ASSUME NEW v, NEW id, Given(v, id), NEW w, NEW x, NEW n, NEW saved \in BOOLEAN,
           Typed(v), QueueKept(v.alerts, w.alerts, v.job.handle),
           Finished(x, n, saved),
           SameIdentity(v.job, x.job), x.job.stopped = v.job.stopped, x.job.final = v.job.final,
           x.job.fenced = v.job.fenced,
           x.job.checkpoint.active = v.job.checkpoint.active,
           x.job.checkpoint.error = v.job.checkpoint.error,
           x.torrent = v.torrent, x.events = v.events, x.asleep = v.asleep, x.alerts = w.alerts,
           v.torrent.life # "gone", v.job.checkpoint.phase = "saving",
           saved => \A need : DataAtLeast(v.alerts, v.job.handle, need)
                                 => need \subseteq x.job.checkpoint.data
    PROVE  Kept(v, n)
<1>1. Typed(n) /\ JobInv(n.job, n.torrent, n.alerts)
  BY DEF Finished
<1>2. /\ n.job.handle = v.job.handle /\ n.alerts = w.alerts
      /\ n.job.checkpoint.active = v.job.checkpoint.active
      /\ MailboxInv(n.events) /\ LiveIds(n.events) = LiveIds(v.events)
  BY DEF Finished, SameIdentity
<1>3. ASSUME v.job.checkpoint.active, NEW need \in SUBSET Files, Covers(v.job, v.torrent, v.alerts, need)
      PROVE  Covers(n.job, n.torrent, n.alerts, need)
  <2>1. /\ need \subseteq v.torrent.written /\ DataAtLeast(v.alerts, v.job.handle, need)
        /\ v.job.checkpoint.error \/ need \subseteq v.torrent.durable
    BY <1>3 DEF Covers
  <2> QED
    BY <1>3, <2>1 DEF Finished
<1>4. /\ v.job.stopped => n.job.stopped /\ n.job.final = v.job.final
      /\ n.job.final # v.job.final => CompletedWell(v.job, v.torrent, n.job)
  BY DEF Finished, CompletedWell, SameIdentity
<1>5. Promised(v, n)
  BY <1>3, <1>4 DEF Promised
<1>6. Rested(v, n)
  BY DEF Finished, Rested, SameIdentity
<1> QED
  BY <1>1, <1>2, <1>5, <1>6 DEF Kept

\* The reply to a save has come: with checkpoint in its slot the job is answering.
LEMMA SaveAnswers ==
    ASSUME NEW v, NEW id, Given(v, id), NEW w, Taken(v, w), NEW saved \in BOOLEAN,
           Head(v.alerts).type \in {"save_resume_data", "save_resume_data_failed"},
           NEW checkpoint \in Checkpoint,
           checkpoint.phase \in {"succeeded", "failed"},
           checkpoint.done = v.job.checkpoint.done,
           checkpoint.active = v.job.checkpoint.active,
           checkpoint.error = v.job.checkpoint.error,
           saved => \A need : DataAtLeast(v.alerts, v.job.handle, need) => need \subseteq checkpoint.data
    PROVE  LET x == [w EXCEPT !.job = [v.job EXCEPT !.checkpoint = checkpoint]]
           IN  v.job.checkpoint.phase = "saving" /\ Kept(v, FinishCheckpoint(x, id, saved))
<1> DEFINE job == [v.job EXCEPT !.checkpoint = checkpoint]
           x   == [w EXCEPT !.job = job]
           n   == FinishCheckpoint(x, id, saved)
<1>1. /\ v.job \in SessionJob /\ v.torrent \in Torrent /\ v.job.checkpoint \in Checkpoint
  BY DEF Given, Typed, SessionJob
<1>2. Head(v.alerts).type \in DOMAIN Replies /\ Replies[Head(v.alerts).type] = "save"
  BY DEF Replies
<1>3. /\ Typed(w) /\ QueueKept(v.alerts, w.alerts, v.job.handle)
      /\ Pending(v.job.checkpoint.phase)
      /\ Replies[Head(v.alerts).type] = Awaited[v.job.checkpoint.phase]
      /\ v.torrent.requests = <<>> /\ NoReply(w.alerts, v.job.handle)
      /\ MetadataOnce(w.job, w.torrent, w.alerts)
      /\ ~v.job.checkpoint.done
  BY <1>2, ReplyIsAwaited
<1>4. v.job.checkpoint.phase = "saving"
  BY <1>2, <1>3 DEF Pending, Awaited
<1>5. /\ job \in SessionJob /\ SameIdentity(v.job, job) /\ job.checkpoint = checkpoint
      /\ job.completion_waiting = v.job.completion_waiting
      /\ job.completion_checkpoint = v.job.completion_checkpoint
      /\ job.stopped = v.job.stopped /\ job.final = v.job.final
      /\ job.fenced = v.job.fenced
  BY <1>1 DEF SessionJob, SameIdentity
<1> HIDE DEF job
<1>6. /\ IsView(x) /\ x.job = job /\ x.torrent = v.torrent
      /\ x.events = v.events /\ x.alerts = w.alerts /\ x.asleep = v.asleep
  BY DEF IsView, Taken
<1> HIDE DEF x
<1>7. Typed(x)
  BY <1>1, <1>3, <1>5, <1>6 DEF Typed
<1>8. /\ v.job.completion_checkpoint => ~v.job.checkpoint.active
      /\ ~(v.job.completion_waiting /\ v.job.completion_checkpoint)
      /\ StoppedForGood(v.job, v.torrent)
      /\ v.job.completion_checkpoint => Covers(v.job, v.torrent, v.alerts, v.job.fenced)
  BY DEF Given, JobInv, HasOwner
<1>9. StoppedForGood(x.job, x.torrent)
  BY <1>5, <1>6, <1>8 DEF StoppedForGood, SameIdentity
<1>10. OwesNothing(x.torrent, x.alerts, x.job.handle)
  BY <1>3, <1>5, <1>6 DEF OwesNothing, SameIdentity
<1>11. MetadataOnce(x.job, x.torrent, x.alerts)
  BY <1>3, <1>5, <1>6 DEF MetadataOnce, SameIdentity, Taken
<1>12. saved /\ ~x.job.checkpoint.error /\ x.job.completion_checkpoint =>
          x.job.fenced \subseteq x.torrent.durable /\ x.job.fenced \subseteq x.job.checkpoint.data
  BY <1>4, <1>5, <1>6, <1>8 DEF Covers, Taken
<1>13. Answering(x, saved)
  BY <1>3, <1>5, <1>6, <1>7, <1>8, <1>9, <1>10, <1>11, <1>12 DEF Answering, Taken
<1>14. Publishes(x, id)
  BY <1>6 DEF Given, Publishes
<1>15. Finished(x, n, saved)
  BY <1>13, <1>14, FinishCheckpointKeeps
<1> HIDE DEF n
<1>16. v.torrent.life # "gone" /\ Typed(v)
  BY DEF Taken, Given
<1>17. Kept(v, n)
  BY <1>3, <1>4, <1>5, <1>6, <1>15, <1>16, FinishedKept
<1> QED
  BY <1>4, <1>17 DEF n, x, job

\* save_resume_data_alert.
LEMMA SaveResumeDataKeeps ==
    ASSUME NEW v, NEW id, Given(v, id), NEW w, Taken(v, w),
           Head(v.alerts).type = "save_resume_data"
    PROVE  LET x == [w EXCEPT !.job = Saved(w.job, Head(v.alerts).data)]
           IN  Kept(v, IF SaveDue(w.job.checkpoint.phase)
                       THEN FinishCheckpoint(x, id, TRUE) ELSE w)
<1> DEFINE data       == Head(v.alerts).data
           checkpoint == [v.job.checkpoint EXCEPT !.phase = "succeeded", !.data = data]
           x          == [w EXCEPT !.job = [v.job EXCEPT !.checkpoint = checkpoint]]
<1>1. /\ v.job.checkpoint \in Checkpoint /\ v.alerts \in Seq(Alert) /\ v.alerts # <<>>
  BY DEF Given, Typed, SessionJob, Taken
<1>2. data \in {NoData} \cup SUBSET Files
  BY <1>1, TailPositions DEF Alert
<1>3. \A need : DataAtLeast(v.alerts, v.job.handle, need) => need \subseteq data
  BY <1>1, HeadIsAlert DEF Taken
<1> HIDE DEF data
<1>4. /\ checkpoint \in Checkpoint /\ checkpoint.phase = "succeeded"
      /\ checkpoint.done = v.job.checkpoint.done /\ checkpoint.active = v.job.checkpoint.active
      /\ checkpoint.error = v.job.checkpoint.error /\ checkpoint.data = data
  BY <1>1, <1>2 DEF Checkpoint, Phases
<1>5. \A need : DataAtLeast(v.alerts, v.job.handle, need) => need \subseteq checkpoint.data
  BY <1>3, <1>4
<1>6. ASSUME v.job.checkpoint.phase = "saving"
      PROVE  checkpoint = [v.job.checkpoint EXCEPT !.phase = ResumeSaved(@), !.data = data]
  BY <1>6 DEF ResumeSaved, SaveDue
<1> HIDE DEF checkpoint
<1>7. v.job.checkpoint.phase = "saving" /\ Kept(v, FinishCheckpoint(x, id, TRUE))
  <2>1. TRUE \in BOOLEAN
    OBVIOUS
  <2> QED
    BY <1>4, <1>5, <2>1, SaveAnswers
<1>8. x = [w EXCEPT !.job = Saved(w.job, Head(v.alerts).data)]
  BY <1>6, <1>7 DEF Saved, Taken, data
<1> QED
  BY <1>7, <1>8 DEF SaveDue, Taken

\* save_resume_data_failed_alert.
LEMMA SaveFailedKeeps ==
    ASSUME NEW v, NEW id, Given(v, id), NEW w, Taken(v, w),
           Head(v.alerts).type = "save_resume_data_failed"
    PROVE  LET x == [w EXCEPT !.job.checkpoint.phase = Fail(@)]
           IN  Kept(v, IF Pending(w.job.checkpoint.phase)
                       THEN FinishCheckpoint(x, id, FALSE) ELSE w)
<1> DEFINE checkpoint == [v.job.checkpoint EXCEPT !.phase = "failed"]
           x          == [w EXCEPT !.job = [v.job EXCEPT !.checkpoint = checkpoint]]
<1>1. v.job.checkpoint \in Checkpoint
  BY DEF Given, Typed, SessionJob
<1>2. /\ checkpoint \in Checkpoint /\ checkpoint.phase = "failed"
      /\ checkpoint.done = v.job.checkpoint.done /\ checkpoint.active = v.job.checkpoint.active
      /\ checkpoint.error = v.job.checkpoint.error
  BY <1>1 DEF Checkpoint, Phases
<1>3. v.job.checkpoint.phase = "saving" /\ Kept(v, FinishCheckpoint(x, id, FALSE))
  <2>1. FALSE \in BOOLEAN
    OBVIOUS
  <2> HIDE DEF checkpoint
  <2> QED
    BY <1>2, <2>1, SaveAnswers
<1>4. x = [w EXCEPT !.job.checkpoint.phase = Fail(@)]
  <2>1. Fail(v.job.checkpoint.phase) = "failed"
    BY <1>3 DEF Fail, Pending
  <2> QED
    BY <2>1 DEF Taken
<1> QED
  BY <1>3, <1>4 DEF Pending, Taken

\* An error alert: it fails the pending checkpoint or is published.
LEMMA ErrorKeeps ==
    ASSUME NEW v, NEW id, Given(v, id), NEW w, Taken(v, w), Head(v.alerts).type = "error"
    PROVE  Kept(v, IF Pending(w.job.checkpoint.phase)
                   THEN [w EXCEPT !.job.checkpoint.error = TRUE]
                   ELSE Enqueue(w, id, Kind.error, "recoverable"))
<1> DEFINE h == v.job.handle
<1>1. /\ v.job \in SessionJob /\ v.torrent \in Torrent /\ v.job.checkpoint \in Checkpoint
      /\ v.alerts \in Seq(Alert) /\ v.alerts # <<>> /\ w.alerts = Tail(v.alerts)
  BY DEF Given, Typed, SessionJob, Taken
<1>2. ~IsReply(Head(v.alerts), h)
  BY DEF IsReply, Replies
<1>3. Typed(w) /\ QueueKept(v.alerts, w.alerts, h)
  <2>1. w.alerts \in Seq(Alert) /\ QueueKept(v.alerts, w.alerts, h)
    BY <1>1, TailPositions, TailQueueKept DEF Taken
  <2> QED
    BY <2>1 DEF Typed, Given, Taken
<1>4. /\ NoReply(v.alerts, h) => NoReply(w.alerts, h)
      /\ \A request : OneReply(v.alerts, h, request) => OneReply(w.alerts, h, request)
      /\ \A type : ~HasAlert(v.alerts, h, type) => ~HasAlert(w.alerts, h, type)
      /\ MetadataFirst(v.alerts, h) => MetadataFirst(w.alerts, h)
      /\ \A need : DataAtLeast(v.alerts, h, need) => DataAtLeast(w.alerts, h, need)
  <2>1. \A request : OneReply(v.alerts, h, request) => OneReply(w.alerts, h, request)
    BY <1>1, <1>2, TailReply
  <2> QED
    BY <1>1, <2>1, TailKeeps
<1>5. MetadataOnce(w.job, w.torrent, w.alerts)
  BY <1>4 DEF MetadataOnce, Given, JobInv, Taken
<1>6. SlotExact(w.job, w.torrent, w.alerts)
  BY <1>4 DEF SlotExact, Owes, OwesNothing, Given, JobInv, Taken
<1>7. CASE Pending(v.job.checkpoint.phase)
  <2> DEFINE checkpoint == [v.job.checkpoint EXCEPT !.error = TRUE]
             job        == [v.job EXCEPT !.checkpoint = checkpoint]
             n          == [w EXCEPT !.job = job]
  <2>1. /\ checkpoint \in Checkpoint /\ checkpoint.phase = v.job.checkpoint.phase
        /\ checkpoint.done = v.job.checkpoint.done /\ checkpoint.active = v.job.checkpoint.active
        /\ checkpoint.error = TRUE
    BY <1>1 DEF Checkpoint
  <2>2. n = [w EXCEPT !.job.checkpoint.error = TRUE]
    BY DEF Taken
  <2> HIDE DEF checkpoint
  <2>3. /\ job \in SessionJob /\ SameIdentity(v.job, job) /\ job.checkpoint = checkpoint
        /\ job.completion_waiting = v.job.completion_waiting
        /\ job.completion_checkpoint = v.job.completion_checkpoint
        /\ job.stopped = v.job.stopped /\ job.final = v.job.final
        /\ job.fenced = v.job.fenced
    BY <1>1, <2>1 DEF SessionJob, SameIdentity
  <2> HIDE DEF job
  <2>4. /\ IsView(n) /\ n.job = job /\ n.torrent = v.torrent
        /\ n.events = v.events /\ n.alerts = w.alerts /\ n.asleep = v.asleep
    BY DEF IsView, Taken
  <2> HIDE DEF n
  <2>5. DoneInStep(n.job.checkpoint) /\ HasOwner(n.job)
    BY <2>1, <2>3, <2>4 DEF DoneInStep, HasOwner, Given, JobInv
  <2>6. StoppedForGood(n.job, n.torrent)
    BY <2>3, <2>4 DEF StoppedForGood, Given, JobInv, SameIdentity
  <2>7. SlotExact(n.job, n.torrent, n.alerts)
    BY <1>6, <2>1, <2>3, <2>4 DEF SlotExact, SameIdentity, Taken
  <2>8. MetadataOnce(n.job, n.torrent, n.alerts)
    BY <1>5, <2>3, <2>4 DEF MetadataOnce, SameIdentity, Taken
  <2>9. ASSUME NEW need, Covers(v.job, v.torrent, v.alerts, need)
        PROVE  Covers(n.job, n.torrent, n.alerts, need)
    BY <1>4, <2>1, <2>3, <2>4, <2>9, MovedFlush DEF Covers, SameIdentity
  <2>10. JobInv(n.job, n.torrent, n.alerts)
    BY <2>3, <2>4, <2>5, <2>6, <2>7, <2>8, <2>9 DEF JobInv, Given
  <2>11. Promised(v, n) /\ Rested(v, n)
    BY <2>1, <2>3, <2>4, <2>9 DEF Promised, Rested, SameIdentity
  <2>12. Typed(n)
    BY <1>1, <1>3, <2>3, <2>4 DEF Typed
  <2>13. Kept(v, n)
    BY <1>3, <2>1, <2>3, <2>4, <2>10, <2>11, <2>12 DEF Kept, Given, Publishes, SameIdentity
  <2> QED
    BY <1>7, <2>2, <2>13 DEF Taken
<1>8. CASE ~Pending(v.job.checkpoint.phase)
  <2> DEFINE n == Enqueue(w, id, Kind.error, "recoverable")
  <2>1. Kind.error \in Kinds /\ "recoverable" \in Json
    BY PayloadAssumption DEF Kind, Kinds
  <2>2. IsView(w) /\ Publishes(w, id)
    BY DEF Given, Publishes, Taken
  <2>3. /\ IsView(n) /\ n.job = v.job /\ n.torrent = v.torrent
        /\ n.alerts = w.alerts /\ n.asleep = {}
        /\ MailboxInv(n.events) /\ LiveIds(n.events) = LiveIds(v.events)
    BY <2>1, <2>2, EnqueueEffect DEF Taken
  <2> HIDE DEF n
  <2>4. NoReply(w.alerts, h) /\ w.alerts \in Seq(Alert)
    BY <1>3, <1>6, <1>8 DEF SlotExact, OwesNothing, Taken, Typed
  <2>5. \A any : FlushOrError(w.alerts, h, any)
    BY <2>4, NoReplyCovers
  <2>6. ASSUME NEW need, Covers(v.job, v.torrent, v.alerts, need)
        PROVE  Covers(n.job, n.torrent, n.alerts, need)
    BY <1>4, <2>3, <2>5, <2>6 DEF Covers
  <2>7. JobInv(n.job, n.torrent, n.alerts)
    BY <1>5, <1>6, <2>3, <2>6 DEF JobInv, Given, Taken
  <2>8. Promised(v, n) /\ Rested(v, n)
    BY <2>3, <2>6 DEF Promised, Rested
  <2>9. Typed(n)
    BY <1>1, <2>3, <2>4 DEF Typed
  <2>10. Kept(v, n)
    BY <1>3, <2>3, <2>7, <2>8, <2>9 DEF Kept
  <2> QED
    BY <1>8, <2>10 DEF Taken, n
<1> QED
  BY <1>7, <1>8

\* state_changed_alert.
LEMMA StateChangedKeeps ==
    ASSUME NEW v, NEW id, Given(v, id), NEW w, Taken(v, w),
           Head(v.alerts).type = "state_changed"
    PROVE  Kept(v, NotifyAll([w EXCEPT !.events = Status(w.events, id, "statusChanged")]))
<1> DEFINE m == Status(v.events, id, "statusChanged")
           x == [w EXCEPT !.events = m]
           n == NotifyAll(x)
<1>1. MailboxInv(v.events) /\ MailboxType(v.events) /\ id \in DOMAIN v.events.jobs
  BY DEF Given, Publishes, LiveIds, MailboxInv
<1>2. MailboxInv(m)
  BY <1>1, PayloadAssumption, StatusKeeps
<1>3. LiveIds(m) = LiveIds(v.events)
  BY <1>1, SetStatusLive DEF Status
<1>4. Typed(w) /\ Steady(v, w) /\ QueueKept(v.alerts, w.alerts, v.job.handle)
  BY TakenSteady DEF Given
<1>5. n = NotifyAll([w EXCEPT !.events = Status(w.events, id, "statusChanged")])
  BY DEF Taken
<1> HIDE DEF m
<1>6. /\ IsView(x) /\ x.job = w.job /\ x.torrent = w.torrent
      /\ x.events = m /\ x.alerts = w.alerts
  BY DEF IsView, Taken
<1> HIDE DEF x
<1>7. /\ IsView(n) /\ n.job = w.job /\ n.torrent = w.torrent
      /\ n.events = m /\ n.alerts = w.alerts /\ n.asleep = {}
  BY <1>6, NotifyAllEffect
<1> HIDE DEF n
<1>8. Typed(n) /\ Steady(v, n)
  BY <1>4, <1>7 DEF Typed, Steady
<1>9. Kept(v, n)
  BY <1>2, <1>3, <1>4, <1>7, <1>8, SteadyKept DEF Taken
<1> QED
  BY <1>5, <1>9

\* What a call on priorities leaves is kept.
LEMMA AppliedKept ==
    ASSUME NEW v, NEW id, Given(v, id), NEW n, Applied(v, n)
    PROVE  Kept(v, n)
  BY SteadyKept DEF Applied, Given, Publishes

\* Out of a completion, another selection is stored ...
LEMMA SelectedApplied ==
    ASSUME NEW v, Typed(v), NEW files \in SUBSET Indexes,
           ~v.job.completion_checkpoint, ~v.job.completion_waiting
    PROVE  Applied(v, [v EXCEPT !.job = [v.job EXCEPT !.desired = files, !.priorities = Unset,
                                                      !.pieces = Unset]])
<1> DEFINE job == [v.job EXCEPT !.desired = files, !.priorities = Unset, !.pieces = Unset]
           x   == [v EXCEPT !.job = job]
<1>1. v.job \in SessionJob
  BY DEF Typed
<1>2. /\ job \in SessionJob /\ job.handle = v.job.handle /\ job.checkpoint = v.job.checkpoint
      /\ job.completion_waiting = v.job.completion_waiting
      /\ job.completion_checkpoint = v.job.completion_checkpoint
      /\ job.stopped = v.job.stopped /\ job.final = v.job.final /\ job.fenced = v.job.fenced
      /\ job.metadata_ready = v.job.metadata_ready
  BY <1>1 DEF SessionJob
<1> HIDE DEF job
<1>3. /\ IsView(x) /\ x.job = job /\ x.torrent = v.torrent
      /\ x.events = v.events /\ x.alerts = v.alerts /\ x.asleep = v.asleep
  BY DEF Typed, IsView
<1> HIDE DEF x
<1>4. /\ QueueKept(v.alerts, x.alerts, v.job.handle)
      /\ RepliesAlike(v.alerts, x.alerts, v.job.handle)
  BY <1>3, QueueKeptTwice
<1>5. Typed(x) /\ Steady(v, x)
  BY <1>2, <1>3, <1>4 DEF Typed, Steady
<1>6. Applied(v, x)
  BY <1>2, <1>3, <1>4, <1>5 DEF Applied
<1> QED
  BY <1>6 DEF x, job

\* ... and applied: ltkit_session_select_files and ltkit_session_set_file_priority.
LEMMA SelectFilesKeeps ==
    ASSUME NEW v, NEW id, Given(v, id), NEW files \in SUBSET Indexes,
           ~v.job.completion_checkpoint, ~v.job.completion_waiting,
           NEW x, x = [v EXCEPT !.job = [v.job EXCEPT !.desired = files, !.priorities = Unset,
                                                      !.pieces = Unset]]
    PROVE  Kept(v, x) /\ Kept(v, ApplySelection(x))
<1>1. Applied(v, x)
  BY SelectedApplied DEF Given
<1>2. Applied(x, ApplySelection(x))
  BY <1>1, ApplySelectionEffect DEF Applied
<1>3. Applied(v, ApplySelection(x))
  BY <1>1, <1>2, AppliedTwice
<1> QED
  BY <1>1, <1>3, AppliedKept

\* ltkit_session_set_piece_priority.
LEMMA SetPieceKeeps ==
    ASSUME NEW v, NEW id, Given(v, id), v.torrent.metadata,
           NEW kept \in SUBSET Files, NEW wanted \in SUBSET Files
    PROVE  Kept(v, PrioritizePieces([v EXCEPT !.job.pieces = kept], wanted))
<1> DEFINE job == [v.job EXCEPT !.pieces = kept]
           x   == [v EXCEPT !.job = job]
<1>1. Typed(v) /\ v.job \in SessionJob
  BY DEF Given, Typed
<1>2. job \in SessionJob /\ SameButVectors(v.job, job)
  BY <1>1 DEF SessionJob, SameButVectors
<1>3. x = [v EXCEPT !.job.pieces = kept]
  OBVIOUS
<1> HIDE DEF job
<1>4. Applied(v, x) /\ x.torrent = v.torrent
  BY <1>1, <1>2, StoredApplied
<1> HIDE DEF x
<1>5. Applied(x, PrioritizePieces(x, wanted))
  BY <1>4, PrioritizeApplied DEF Applied
<1>6. Applied(v, PrioritizePieces(x, wanted))
  BY <1>4, <1>5, AppliedTwice
<1> QED
  BY <1>3, <1>6, AppliedKept

\* ltkit_session_clear_streaming_window and ltkit_session_update_streaming_window.
LEMMA WindowKeeps ==
    ASSUME NEW v, NEW id, Given(v, id), v.torrent.metadata, NEW f \in Files
    PROVE  Kept(v, ApplySelection(v)) /\ Kept(v, Raised(v, f))
<1> DEFINE x == ApplySelection(v)
<1>1. Applied(v, x)
  BY ApplySelectionEffect DEF Given
<1> HIDE DEF x
<1>2. Typed(x) /\ x.torrent.metadata /\ x.torrent.wanted \cup {f} \in SUBSET Files
  BY <1>1 DEF Applied, Steady, Typed, Torrent
<1> DEFINE n == PrioritizePieces(x, x.torrent.wanted \cup {f})
<1>3. Applied(x, n)
  BY <1>2, PrioritizeApplied
<1> HIDE DEF n
<1>4. Applied(v, n)
  BY <1>1, <1>3, AppliedTwice
<1>5. Raised(v, f) = IF SelectionApplies(v) THEN n ELSE x
  BY DEF Raised, n, x
<1>6. Kept(v, x) /\ Kept(v, n)
  BY <1>1, <1>4, AppliedKept
<1> QED
  BY <1>5, <1>6 DEF x

\* ltkit_session_start and ltkit_session_pause.
LEMMA PausedKeeps ==
    ASSUME NEW v, NEW id, Given(v, id), NEW paused \in BOOLEAN
    PROVE  Kept(v, [v EXCEPT !.torrent.paused = paused])
<1> DEFINE torrent == [v.torrent EXCEPT !.paused = paused]
           n       == [v EXCEPT !.torrent = torrent]
<1>1. Typed(v) /\ v.torrent \in Torrent
  BY DEF Given, Typed
<1>2. /\ torrent \in Torrent /\ SamePayload(v.torrent, torrent)
      /\ torrent.life = v.torrent.life /\ torrent.requests = v.torrent.requests
  BY <1>1 DEF Torrent, SamePayload
<1>3. n = [v EXCEPT !.torrent.paused = paused]
  OBVIOUS
<1> HIDE DEF torrent
<1>4. IsView(n) /\ n.job = v.job /\ n.torrent = torrent /\ SameQueues(v, n)
  BY <1>1 DEF Typed, IsView, SameQueues
<1> HIDE DEF n
<1>5. QueueKept(v.alerts, n.alerts, v.job.handle) /\ RepliesAlike(v.alerts, n.alerts, v.job.handle)
  BY <1>4, QueueKeptTwice DEF SameQueues
<1>6. Typed(n) /\ Steady(v, n)
  BY <1>1, <1>2, <1>4, <1>5 DEF Typed, Steady, SameQueues, SamePayload
<1>7. Kept(v, n)
  BY <1>4, <1>5, <1>6, SteadyKept DEF SameQueues, Given, Publishes
<1> QED
  BY <1>3, <1>7

\* ltkit_session_metadata stops a torrent whose metadata is unsafe.
LEMMA UnsafeKeeps ==
    ASSUME NEW v, NEW id, Given(v, id), v.job.metadata_ready, ~v.job.stopped, ~MetadataSafe(v)
    PROVE  Kept(v, Reject(v)) /\ SameQueues(v, Reject(v))
<1> DEFINE n == Reject(v)
<1>1. /\ Typed(n) /\ SameQueues(v, n)
      /\ JobInv(n.job, n.torrent, n.alerts)
      /\ \A need : Covers(v.job, v.torrent, v.alerts, need)
                      => Covers(n.job, n.torrent, n.alerts, need)
      /\ SameIdentity(v.job, n.job) /\ n.job.checkpoint = v.job.checkpoint
      /\ n.job.stopped = TRUE /\ n.job.final = v.job.final
  BY RejectKeeps DEF Given, MetadataSafe
<1> HIDE DEF n
<1>2. QueueKept(v.alerts, n.alerts, v.job.handle)
  BY <1>1, QueueKeptTwice DEF SameQueues
<1>3. Promised(v, n) /\ Rested(v, n)
  BY <1>1 DEF Promised, Rested, SameQueues, SameIdentity
<1> QED
  BY <1>1, <1>2, <1>3 DEF Kept, Given, Publishes, SameQueues, SameIdentity, n
=============================================================================
