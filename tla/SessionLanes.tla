---------------------------- MODULE SessionLanes ----------------------------
(***************************************************************************)
(* The Swift side of a session: the TorrentSession actor, the two serial     *)
(* lanes on which it calls the bridge (NativeSessionExecutor, one for the     *)
(* operations and one for NativeEventReader), the shared NativeSessionHandle, *)
(* cancellation and shutdown.  Of the bridge it keeps the table of torrents,  *)
(* the condition waits and when the session is freed.                        *)
(*                                                                           *)
(* A slot of Tasks stands for one client task at a time, which makes one     *)
(* call of the actor.  A member of a lane's queue is a caller's block, the   *)
(* reader's drain or the destruction of the session.                         *)
(***************************************************************************)
EXTENDS Integers, Sequences, Functions

CONSTANTS
    Tasks,    \* slots for client tasks
    Reader,   \* the task that iterates over the event stream
    Ids,      \* torrent identifiers
    Layouts,  \* file layouts (TorrentGeometry) a torrent may have
    None,     \* no identifier, no layout
    Ops,      \* the operations that clients call
    MaxCalls  \* bound: client calls

\* start stands for every mutation and status for every read that leaves the
\* actor's own tables alone.
Mutations == {"add", "remove", "start", "window"}
Reads     == {"status", "metadata", "checkpoint"}
Waits     == {"metadata", "checkpoint"}

ASSUME OpsAssumption   == Ops \subseteq Mutations \cup Reads
ASSUME LanesAssumption == Reader \notin Tasks /\ None \notin Layouts \cup Ids /\ MaxCalls \in Nat
ASSUME BlocksAssumption == {"drain", "destroy"} \cap (Tasks \cup {Reader}) = {}

VARIABLES
    call,         \* the call each task is in
    lanes,        \* the blocks of the two dispatch queues, the running one first
    due,          \* callers whose onCancel is about to call native.wake()
    storage,      \* NativeSessionHandle.storage is not nil
    torrents,     \* the bridge's job table: the layout of each torrent
    freed,        \* ltkit_session_destroy has deleted the session
    closed,       \* NativeEventReader.closed
    identifiers, geometry, \* the actor's tables
    shutdown,     \* how far TorrentSession.shutdown() is
    overlapped,   \* history: identifiers that two tasks used at the same time
    started       \* client calls so far

\* The actor's state.
actor == <<identifiers, geometry, shutdown, overlapped, started>>

vars == <<call, lanes, due, storage, torrents, freed, closed, actor>>

Callers == Tasks \cup {Reader}
Lanes   == {"operations", "events"}
Lane(c) == IF c = Reader THEN "events" ELSE "operations"

(***************************************************************************)
(* pc: a call is "queued" on its lane; its block has "begun", holds the      *)
(* pointer ("entering"), makes the native call ("calling"), is in a          *)
(* condition wait ("waiting") and has "returned"; then the continuation is   *)
(* "resumed".  The reader has "checked" that it is open before it queues.    *)
(***************************************************************************)
Call == [pc : {"idle", "checked", "queued", "begun", "entering", "calling", "waiting",
               "returned", "resumed"},
         op : Mutations \cup Reads \cup {"event"}, id : Ids \cup {None},
         layout : Layouts \cup {None},
         window : BOOLEAN,       \* a metadata read of updateStreamingWindow
         cancelled : BOOLEAN,    \* of the task and of its NativeOperationCancellation
         executed : BOOLEAN,     \* history: the native function was called
         answered : BOOLEAN,     \* what the wait is for has happened
         interrupted : BOOLEAN,  \* wake_generation moved since the wait began
         outcome : {"none", "ok", "failed", "cancelled", "shut_down"}]

NoCall == [pc |-> "idle", op |-> "event", id |-> None, layout |-> None, window |-> FALSE,
           cancelled |-> FALSE, executed |-> FALSE, answered |-> FALSE, interrupted |-> FALSE, outcome |-> "none"]

\* Tables from identifiers to layouts.
EmptyTable         == [id \in {} |-> None]
With(f, id, layout) == [i \in DOMAIN f \cup {id} |-> IF i = id THEN layout ELSE f[i]]
Without(f, id)      == Restrict(f, DOMAIN f \ {id})

Init ==
    /\ call        = [c \in Callers |-> NoCall]
    /\ lanes       = [l \in Lanes |-> <<>>]
    /\ due         = {}
    /\ storage     = TRUE
    /\ torrents    = EmptyTable
    /\ freed       = FALSE
    /\ closed      = FALSE
    /\ identifiers = {}
    /\ geometry    = EmptyTable
    /\ shutdown    = "no"
    /\ overlapped  = {}
    /\ started     = 0

----------------------------------------------------------------------------
(* NativeSessionHandle and NativeOperationCancellation.                      *)

\* begin() has set running and finish() has not cleared it.
Running(c) == call[c].pc \in {"begun", "entering", "calling", "waiting", "returned"}

\* wake(): every wait in progress has a stale generation.
Woken(calls) ==
    IF storage
    THEN [c \in Callers |-> [calls[c] EXCEPT !.interrupted = @ \/ calls[c].pc = "waiting"]]
    ELSE calls

\* The deferred wake of an onCancel handler: cancel() and wake() are two steps.
Wake(c) ==
    /\ c \in due
    /\ due'  = due \ {c}
    /\ call' = Woken(call)
    /\ UNCHANGED <<lanes, storage, torrents, freed, closed, actor>>

\* A client task is cancelled while it is in perform().
CancelTask(t) ==
    /\ call[t].pc # "idle"
    /\ ~call[t].cancelled
    /\ call' = [call EXCEPT ![t].cancelled = TRUE]
    /\ due'  = IF Running(t) /\ call[t].op \in Reads THEN due \cup {t} ELSE due
    /\ UNCHANGED <<lanes, storage, torrents, freed, closed, actor>>

\* The iterating task is cancelled: the stream's onCancel closes the reader.
CancelStream ==
    /\ ~call[Reader].cancelled
    /\ call'   = [call EXCEPT ![Reader].cancelled = TRUE]
    /\ closed' = TRUE
    /\ due'    = due \cup {Reader}
    /\ UNCHANGED <<lanes, storage, torrents, freed, actor>>

----------------------------------------------------------------------------
(* perform(): the block on its lane.                                         *)

Enqueued(member, lane) == [lanes EXCEPT ![lane] = Append(@, member)]
Popped(lane)           == [lanes EXCEPT ![lane] = Tail(@)]
AtHead(member, lane)   == lanes[lane] # <<>> /\ Head(lanes[lane]) = member

\* What a block on a lane leaves alone.
InLane == UNCHANGED <<due, storage, freed, closed, actor>>

\* The continuation is resumed and the block ends.
Resume(c, outcome) ==
    /\ call'  = [call EXCEPT ![c].pc = "resumed", ![c].outcome = outcome]
    /\ lanes' = Popped(Lane(c))

\* Mutant of Begin: a block refused by begin() does not resume its task.
BeginForgets(c) ==
    /\ call[c].pc = "queued" /\ AtHead(c, Lane(c))
    /\ IF call[c].cancelled THEN lanes' = Popped(Lane(c)) /\ UNCHANGED call
       ELSE call' = [call EXCEPT ![c].pc = "begun"] /\ UNCHANGED lanes
    /\ InLane /\ UNCHANGED torrents

Begin(c) ==
    /\ call[c].pc = "queued" /\ AtHead(c, Lane(c))
    /\ IF call[c].cancelled THEN Resume(c, "cancelled")
       ELSE call' = [call EXCEPT ![c].pc = "begun"] /\ UNCHANGED lanes
    /\ InLane /\ UNCHANGED torrents

\* optionalPointer; only the reader looks at closed before it calls.
ReadPointer(c) ==
    /\ call[c].pc = "begun"
    /\ IF ~storage THEN Resume(c, "shut_down")
       ELSE /\ call' = [call EXCEPT ![c].pc = IF c = Reader THEN "entering" ELSE "calling"]
            /\ UNCHANGED lanes
    /\ InLane /\ UNCHANGED torrents

EnterReader ==
    /\ call[Reader].pc = "entering"
    /\ call' = IF closed THEN [call EXCEPT ![Reader].pc = "returned", ![Reader].outcome = "failed"]
               ELSE [call EXCEPT ![Reader].pc = "calling"]
    /\ InLane /\ UNCHANGED <<lanes, torrents>>

Returned(c, outcome, layout) ==
    call' = [call EXCEPT ![c].pc = "returned", ![c].executed = TRUE, ![c].outcome = outcome,
                         ![c].layout = layout, ![c].answered = FALSE, ![c].interrupted = FALSE]

\* The bridge's functions that do not wait, or do not find the torrent.  Any may be
\* refused (an invalid source, a full mailbox, a pending checkpoint, a handle that is
\* gone), except that removing an unknown torrent succeeds.
NativeCall(c) ==
    /\ call[c].pc = "calling"
    /\ LET id == call[c].id
           known == id \in DOMAIN torrents
       IN  \/ /\ call[c].op = "add" /\ ~known
              /\ torrents' = With(torrents, id, call[c].layout)
              /\ Returned(c, "ok", None)
           \/ /\ call[c].op = "remove"
              /\ torrents' = Without(torrents, id)
              /\ Returned(c, "ok", None)
           \/ /\ call[c].op \in {"start", "window", "status"} /\ known
              /\ Returned(c, "ok", None)
              /\ UNCHANGED torrents
           \/ /\ \/ call[c].op \in {"add", "start", "window", "status"}
                 \/ call[c].op = "remove" /\ known
                 \/ call[c].op \in Waits /\ ~known
              /\ Returned(c, "failed", None)
              /\ UNCHANGED torrents
    /\ InLane /\ UNCHANGED lanes

\* metadata, checkpoint and next_event begin their condition wait.
NativeWait(c) ==
    /\ call[c].pc = "calling"
    /\ c = Reader \/ (call[c].op \in Waits /\ call[c].id \in DOMAIN torrents)
    /\ call' = [call EXCEPT ![c].pc = "waiting", ![c].executed = TRUE]
    /\ InLane /\ UNCHANGED <<lanes, torrents>>

\* The alert thread provides what the wait is for.
NativeAnswer(c) ==
    /\ call[c].pc = "waiting"
    /\ ~call[c].answered
    /\ call' = [call EXCEPT ![c].answered = TRUE]
    /\ InLane /\ UNCHANGED <<lanes, torrents>>

(***************************************************************************)
(* The wait ends: with an answer, because it was interrupted, or by its      *)
(* timeout.  A torrent that is not there fails, and an interrupted call      *)
(* fails even if it was answered, but next_event still returns its event.    *)
(***************************************************************************)
WaitSucceeds(c) ==
    /\ call[c].answered
    /\ c # Reader => ~call[c].interrupted /\ call[c].id \in DOMAIN torrents

\* Mutant of NativeReturn: the waits have no timeout.
NativeReturnUntimed(c) ==
    /\ call[c].pc = "waiting"
    /\ call[c].answered \/ call[c].interrupted
    /\ Returned(c, IF WaitSucceeds(c) THEN "ok" ELSE "failed",
                IF WaitSucceeds(c) /\ call[c].op = "metadata" THEN torrents[call[c].id] ELSE None)
    /\ InLane /\ UNCHANGED <<lanes, torrents>>

NativeReturn(c) ==
    /\ call[c].pc = "waiting"
    /\ Returned(c, IF WaitSucceeds(c) THEN "ok" ELSE "failed",
                IF WaitSucceeds(c) /\ call[c].op = "metadata" THEN torrents[call[c].id] ELSE None)
    /\ InLane /\ UNCHANGED <<lanes, torrents>>

\* Mutant of Finish: cancellation replaces the result of a mutation too.
FinishDiscards(c) ==
    /\ call[c].pc = "returned"
    /\ Resume(c, IF call[c].cancelled THEN "cancelled" ELSE call[c].outcome)
    /\ InLane /\ UNCHANGED torrents

\* Cancellation replaces the result of a read, never that of a mutation.
Finish(c) ==
    /\ call[c].pc = "returned"
    /\ Resume(c, IF call[c].cancelled /\ call[c].op \notin Mutations
                 THEN "cancelled" ELSE call[c].outcome)
    /\ InLane /\ UNCHANGED torrents

LaneStep(c) ==
    \/ Begin(c)
    \/ ReadPointer(c)
    \/ c = Reader /\ EnterReader
    \/ NativeCall(c)
    \/ NativeWait(c)
    \/ NativeReturn(c)
    \/ Finish(c)

----------------------------------------------------------------------------
(* The actor.  Its methods interleave at every await.                        *)

Queued(op, id, layout) == [NoCall EXCEPT !.pc = "queued", !.op = op, !.id = id, !.layout = layout]

\* A call passes checkCancellation and is put on the lane.
Perform(t, request) ==
    /\ call[t].pc = "idle"
    /\ started < MaxCalls
    /\ started'    = started + 1
    /\ overlapped' = overlapped \cup {request.id : u \in {v \in Tasks : call[v].id = request.id}}
    /\ call'       = [call EXCEPT ![t] = request]
    /\ lanes'      = Enqueued(t, "operations")
    /\ UNCHANGED <<due, storage, torrents, freed, closed, identifiers, geometry, shutdown>>

\* add, metadata, checkpoint and remove; start, which stands for selectFiles,
\* setFilePriority, setPiecePriority, pause and clearStreamingWindow too; and status,
\* which stands for pieces and pieceCompletion too.  ensureRunning comes first.
Request(t, op, id, layout) ==
    /\ op \in Ops \ {"window"}
    /\ (op = "add") = (layout # None)
    /\ shutdown = "no"
    /\ Perform(t, Queued(op, id, layout))

\* updateStreamingWindow: with a cached geometry nothing asks whether the session
\* is running; without one the metadata is read first.
UpdateStreamingWindow(t, id) ==
    /\ "window" \in Ops
    /\ IF id \in DOMAIN geometry
       THEN Perform(t, Queued("window", id, None))
       ELSE shutdown = "no" /\ Perform(t, [Queued("metadata", id, None) EXCEPT !.window = TRUE])

\* Mutant of Continue: remove leaves the cached geometry.
ContinueKeepsGeometry(t, planned) ==
    /\ call[t].pc = "resumed"
    /\ LET ok(op) == call[t].op = op /\ call[t].outcome = "ok"
           id     == call[t].id
       IN  /\ identifiers' = CASE ok("add")    -> identifiers \cup {id}
                               [] ok("remove") -> identifiers \ {id}
                               [] OTHER        -> identifiers
           /\ geometry'    = IF ok("metadata") THEN With(geometry, id, call[t].layout) ELSE geometry
    /\ call' = [call EXCEPT ![t] = NoCall]
    /\ UNCHANGED <<lanes, due, storage, torrents, freed, closed, shutdown, overlapped, started>>

\* Mutant of Continue: a geometry is made of whatever response there is.
ContinueUnchecked(t, planned) ==
    /\ call[t].pc = "resumed"
    /\ geometry' = IF call[t].op = "metadata" THEN With(geometry, call[t].id, call[t].layout)
                   ELSE geometry
    /\ call' = [call EXCEPT ![t] = NoCall]
    /\ UNCHANGED <<lanes, due, storage, torrents, freed, closed, identifiers, shutdown, overlapped, started>>

\* The task continues on the actor and brings the actor's tables up to date.  A
\* window whose metadata has come is queued, unless its task was cancelled or the
\* plan refuses the request.
Continue(t, planned) ==
    /\ call[t].pc = "resumed"
    /\ LET ok(op) == call[t].op = op /\ call[t].outcome = "ok"
           id     == call[t].id
           next   == call[t].window /\ ok("metadata") /\ planned /\ ~call[t].cancelled
       IN  /\ identifiers' = CASE ok("add")    -> identifiers \cup {id}
                               [] ok("remove") -> identifiers \ {id}
                               [] OTHER        -> identifiers
           /\ geometry'    = CASE ok("metadata") -> With(geometry, id, call[t].layout)
                               [] ok("remove")   -> Without(geometry, id)
                               [] OTHER          -> geometry
           /\ call'  = [call EXCEPT ![t] = IF next THEN Queued("window", id, None) ELSE NoCall]
           /\ lanes' = IF next THEN Enqueued(t, "operations") ELSE lanes
    /\ UNCHANGED <<due, storage, torrents, freed, closed, shutdown, overlapped, started>>

----------------------------------------------------------------------------
(* NativeEventReader.next(): one pass through its loop.                      *)

ReaderChecks ==
    /\ call[Reader].pc = "idle"
    /\ ~closed /\ ~call[Reader].cancelled
    /\ call' = [call EXCEPT ![Reader] = [NoCall EXCEPT !.pc = "checked"]]
    /\ UNCHANGED <<lanes, due, storage, torrents, freed, closed, actor>>

\* perform() throws at once if the task has been cancelled since.
ReaderQueues ==
    /\ call[Reader].pc = "checked"
    /\ IF call[Reader].cancelled
       THEN call' = [call EXCEPT ![Reader].pc = "idle"] /\ UNCHANGED lanes
       ELSE call' = [call EXCEPT ![Reader].pc = "queued"] /\ lanes' = Enqueued(Reader, "events")
    /\ UNCHANGED <<due, storage, torrents, freed, closed, actor>>

\* An error of the executor closes the reader; otherwise it delivers or loops.
ReaderContinues ==
    /\ call[Reader].pc = "resumed"
    /\ call'   = [call EXCEPT ![Reader] = [NoCall EXCEPT !.cancelled = call[Reader].cancelled]]
    /\ closed' = (closed \/ call[Reader].outcome = "shut_down")
    /\ due'    = IF call[Reader].outcome = "shut_down" THEN due \cup {Reader} ELSE due
    /\ UNCHANGED <<lanes, storage, torrents, freed, actor>>

----------------------------------------------------------------------------
(* TorrentSession.shutdown().                                                *)

ShutdownBegins ==
    /\ shutdown = "no"
    /\ shutdown' = "closing"
    /\ UNCHANGED <<call, lanes, due, storage, torrents, freed, closed, identifiers, geometry, overlapped, started>>

\* NativeEventReader.close() sets the flag and then wakes.
ReaderCloses ==
    /\ shutdown = "closing"
    /\ shutdown' = "closed"
    /\ closed'   = TRUE
    /\ UNCHANGED <<call, lanes, due, storage, torrents, freed, identifiers, geometry, overlapped, started>>

\* Mutant of ReaderDrains: shutdown does not wait for the event lane.
ReaderDrainsNothing ==
    /\ shutdown = "closed"
    /\ shutdown' = "drained"
    /\ call'     = Woken(call)
    /\ UNCHANGED <<lanes, due, storage, torrents, freed, closed, identifiers, geometry, overlapped, started>>

ReaderDrains ==
    /\ shutdown = "closed"
    /\ shutdown' = "draining"
    /\ call'     = Woken(call)
    /\ lanes'    = Enqueued("drain", "events")
    /\ UNCHANGED <<due, storage, torrents, freed, closed, identifiers, geometry, overlapped, started>>

LaneDrained ==
    /\ shutdown = "draining"
    /\ AtHead("drain", "events")
    /\ shutdown' = "drained"
    /\ lanes'    = Popped("events")
    /\ UNCHANGED <<call, due, storage, torrents, freed, closed, identifiers, geometry, overlapped, started>>

\* Back on the actor: NativeSessionExecutor.shutdown() wakes and queues.
ExecutorShutsDown ==
    /\ shutdown = "drained"
    /\ shutdown' = "destroying"
    /\ geometry' = EmptyTable
    /\ call'     = Woken(call)
    /\ lanes'    = Enqueued("destroy", "operations")
    /\ UNCHANGED <<due, storage, torrents, freed, closed, identifiers, overlapped, started>>

\* NativeSessionHandle.destroy() takes the pointer under its lock ...
TakePointer ==
    /\ shutdown = "destroying"
    /\ AtHead("destroy", "operations")
    /\ storage
    /\ storage' = FALSE
    /\ UNCHANGED <<call, lanes, due, torrents, freed, closed, actor>>

\* ... and destroys the session outside it.
Destroy ==
    /\ shutdown = "destroying"
    /\ AtHead("destroy", "operations")
    /\ ~storage
    /\ freed'    = TRUE
    /\ torrents' = EmptyTable
    /\ lanes'    = Popped("operations")
    /\ shutdown' = "done"
    /\ UNCHANGED <<call, due, storage, closed, identifiers, geometry, overlapped, started>>

Shutdown == ReaderCloses \/ ReaderDrains \/ LaneDrained \/ ExecutorShutsDown
            \/ TakePointer \/ Destroy

----------------------------------------------------------------------------
Next ==
    \/ \E c \in Callers : LaneStep(c) \/ NativeAnswer(c) \/ Wake(c)
    \/ \E t \in Tasks :
          \/ \E id \in Ids :
                \/ \E op \in Ops, layout \in Layouts \cup {None} : Request(t, op, id, layout)
                \/ UpdateStreamingWindow(t, id)
          \/ \E planned \in BOOLEAN : Continue(t, planned)
          \/ CancelTask(t)
    \/ ReaderChecks \/ ReaderQueues \/ ReaderContinues \/ CancelStream
    \/ ShutdownBegins \/ Shutdown

Spec == Init /\ [][Next]_vars

(***************************************************************************)
(* Fairness: the dispatch queues run their blocks, every native wait has a   *)
(* timeout, the actor gets to its resumed tasks, and onCancel handlers run.  *)
(***************************************************************************)
Fairness ==
    /\ \A c \in Callers : WF_vars(LaneStep(c)) /\ WF_vars(Wake(c))
    /\ \A t \in Tasks : WF_vars(\E planned \in BOOLEAN : Continue(t, planned))
    /\ WF_vars(ReaderQueues) /\ WF_vars(ReaderContinues)
    /\ WF_vars(Shutdown)

FairSpec == Spec /\ Fairness

----------------------------------------------------------------------------
(* Safety.                                                                   *)

\* The types of the state; among them that the actor caches only a geometry
\* that some torrent has.
TypeOK ==
    /\ call \in [Callers -> Call]
    /\ lanes \in [Lanes -> Seq(Callers \cup {"drain", "destroy"})]
    /\ due \subseteq Callers
    /\ {storage, freed, closed} \subseteq BOOLEAN
    /\ DOMAIN torrents \subseteq Ids /\ torrents \in [DOMAIN torrents -> Layouts]
    /\ identifiers \subseteq Ids
    /\ DOMAIN geometry \subseteq Ids /\ geometry \in [DOMAIN geometry -> Layouts]
    /\ shutdown \in {"no", "closing", "closed", "draining", "drained", "destroying", "done"}
    /\ started \in 0..MaxCalls

(***************************************************************************)
(* No lane is inside the bridge, or about to enter it with a pointer it has  *)
(* read, once the session is freed: not the event lane either, whose reader  *)
(* may have found itself open long before the drain.                         *)
(***************************************************************************)
NoUseAfterFree == \A c \in Callers : call[c].pc \in {"calling", "waiting"} => ~freed

(***************************************************************************)
(* "Once execution starts, they return the native outcome despite            *)
(* cancellation": a mutation that throws CancellationError, or the error of  *)
(* a session shut down, has not touched the native session.                  *)
(***************************************************************************)
MutationOutcome == \A t \in Tasks :
    call[t].pc = "resumed" /\ call[t].op \in Mutations =>
        (call[t].executed <=> call[t].outcome \in {"ok", "failed"})

Untouched(id) == shutdown = "no" /\ \A t \in Tasks : call[t].id # id

(***************************************************************************)
(* Once no call on an identifier is under way, and if none ever overlapped   *)
(* another on it, the actor's tables are those of the bridge, whatever was   *)
(* cancelled or refused: checkpointAll goes by the identifiers, and          *)
(* updateStreamingWindow plans with the geometry.                            *)
(***************************************************************************)
TablesReconciled == \A id \in Ids \ overlapped : Untouched(id) =>
    /\ id \in identifiers <=> id \in DOMAIN torrents
    /\ id \in DOMAIN geometry => id \in DOMAIN torrents /\ geometry[id] = torrents[id]

\* The same of the geometry, of calls that overlap too.
GeometryIsCurrent == \A id \in DOMAIN geometry :
    Untouched(id) => id \in DOMAIN torrents /\ geometry[id] = torrents[id]

\* "Reads and checkpoint waits remain cancellable": a cancelled task that waits
\* in the bridge has been interrupted or is about to be.  A cancellation between
\* begin() and the capture of wake_generation is not kept.
NoLostCancellation == \A t \in Tasks :
    call[t].pc = "waiting" /\ call[t].cancelled => call[t].interrupted \/ t \in due

----------------------------------------------------------------------------
(* What keeps these true: the inductive invariant.                           *)

\* A lane runs one block, the one at its head.
HeadsRun == \A c \in Callers : Running(c) => AtHead(c, Lane(c))

(***************************************************************************)
(* What a shutdown has done by the time it gets somewhere.  A task holds a   *)
(* pointer only while it is in storage, which is emptied at the head of the  *)
(* task's own lane; the reader holds one only until its lane is drained.     *)
(***************************************************************************)
ShutdownOrder ==
    /\ shutdown \notin {"no", "closing"} => closed
    /\ ~storage => shutdown \in {"destroying", "done"}
    /\ ~storage /\ shutdown = "destroying" => AtHead("destroy", "operations")
    /\ freed => shutdown = "done" /\ ~storage
    /\ \A t \in Tasks : call[t].pc \in {"calling", "waiting"} => storage
    /\ call[Reader].pc \in {"calling", "waiting"} =>
          shutdown \in {"no", "closing", "closed", "draining"}

\* The native call of a task has returned, and well.
Done(t, op) ==
    call[t].pc \in {"returned", "resumed"} /\ call[t].op = op /\ call[t].outcome = "ok"

\* What a task's call has with it on its way: a mutation never waits, has been
\* executed when it returns and not before, and keeps its outcome.
CallsInOrder == call[Reader].op = "event" /\ \A t \in Tasks :
    /\ call[t].pc \notin {"checked", "entering"}
    /\ call[t].pc = "idle" <=> call[t].id = None
    /\ call[t].pc \in {"queued", "begun", "calling"} => ~call[t].executed
    /\ call[t].pc \in {"queued", "begun", "calling"} /\ call[t].op = "add" => call[t].layout # None
    /\ call[t].op \in Mutations =>
          /\ call[t].pc # "waiting"
          /\ call[t].pc = "returned" => call[t].executed /\ call[t].outcome \in {"ok", "failed"}
    /\ Done(t, "metadata") => call[t].layout # None

\* Two tasks on one identifier overlap.
OverlapsKnown == \A t, u \in Tasks :
    t # u /\ call[t].id = call[u].id => call[t].id \in overlapped \cup {None}

\* The actor's tables agree with the bridge on an identifier ...
InStep(id) ==
    /\ id \in identifiers <=> id \in DOMAIN torrents
    /\ id \in DOMAIN geometry => id \in DOMAIN torrents /\ geometry[id] = torrents[id]

(***************************************************************************)
(* ... or the one task that uses it is about to see to that: between the     *)
(* native call and the task's continuation.                                  *)
(***************************************************************************)
TablesFollow == shutdown = "no" => \A id \in Ids \ overlapped :
    /\ Untouched(id) => InStep(id)
    /\ \A t \in Tasks : call[t].id = id =>
          CASE Done(t, "add")    -> id \in DOMAIN torrents /\ id \notin DOMAIN geometry
            [] Done(t, "remove") -> id \notin DOMAIN torrents
            [] OTHER -> /\ InStep(id)
                        /\ Done(t, "metadata") =>
                              id \in DOMAIN torrents /\ call[t].layout = torrents[id]

\* One block at a time per lane, pointers that outlive nothing, calls that keep
\* their outcome, and tables that follow the bridge: together they are inductive.
Inv ==
    /\ TypeOK
    /\ HeadsRun
    /\ ShutdownOrder
    /\ CallsInOrder
    /\ MutationOutcome
    /\ OverlapsKnown
    /\ TablesFollow

----------------------------------------------------------------------------
(* Liveness.                                                                 *)

\* Every call returns to its task: no block, refused, late or behind the
\* destruction of the session, leaves its continuation unresumed.
EveryCallReturns == \A c \in Callers : (call[c].pc # "idle") ~> (call[c].pc = "idle")

\* A shutdown ends, whatever waits are in progress when it begins.
ShutdownEnds == (shutdown # "no") ~> (shutdown = "done")
=============================================================================
