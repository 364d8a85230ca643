# A TLA+ development for LibtorrentKit

LibtorrentKit wraps libtorrent for Swift. A C++ bridge (`Native/src`) keeps a
table of torrents, a thread that turns libtorrent's alerts into checkpoints,
completions and events, and a bounded mailbox of events. A Swift actor
(`Sources/LibtorrentKit`) calls the bridge from two serial dispatch queues.
This directory models the bridge and the Swift lanes, checks them with TLC on
small instances and proves their safety, with TLAPS, for instances of every
size: every invariant and action property that a passing run checks is a
theorem. Liveness and the refinement of the abstract event queue are checked only.
Five statements of the repository turned out not to be kept; for each there is
a run that shows how (section 3).

## 1. Inventory

### Components, state, operations

| Part | Source | State | Operations |
|---|---|---|---|
| Event mailbox | `EventMailbox.hpp` | a list of counted entries; per torrent four one-shot bits, the latest status, a raw pointer to its current error run, a count of its entries, a retired flag | `can_add`, `add`, `retire`, `critical`, `status`, `front`, `pop` |
| Disk checkpoint | `DiskCheckpoint.hpp` | one of five phases | `begin`, `cache_flushed`, `resume_saved`, `fail` |
| Native session | `LibtorrentNative.cpp` | per torrent a handle, the selection, the checkpoint slot, the completion flags and the final snapshot; a mutex, a condition variable, a wake generation | the C functions, and `alerts()` on its own thread |
| Priorities and streaming window | `LibtorrentNative.cpp` | per torrent `desired_files`, `file_priorities`, `piece_priorities`, `deadline_pieces`; in the engine the priorities and deadlines in force | `apply_selection`, `set_file_priority`, `set_piece_priority`, `update_streaming_window`, `clear_streaming_window` |
| Payload check | `SelectedPayload.hpp` | none | open, stat and fsync every selected file |
| Executor | `NativeSessionExecutor.swift` | a serial queue, the handle, per operation two flags | `perform`, `drain`, `shutdown` |
| Event reader | `NativeEventReader.swift` | a second serial queue, `closed` | `next`, `close`, `shutdown` |
| Session actor | `TorrentSession.swift` | `isShutDown`, `identifiers`, `geometry` | the public API |
| Piece-window planner | `TorrentStreamingWindow.swift` | none | arithmetic that must agree with `update_streaming_window` |
| Sources, value types, errors | other Swift files | none | validation, decoding |
| libtorrent | external | torrents, disk cache, alert queue | asynchronous |

### How they interact

Every function of the bridge, and every batch of alerts, holds the session
mutex, except while it waits on the condition variable (`metadata`,
`checkpoint`, `next_event`). Clients ask the engine for a flush or for resume
data; the replies come as alerts. A selection becomes file priorities, and
these a baseline of piece priorities; a streaming window raises pieces above
the baseline in the engine only, and resume data carries what the engine has.
`ltkit_session_wake` interrupts every wait by moving a generation that each wait has captured. A finished torrent is paused,
flushed, saved, checked on disk, published as completed and removed, unless a
client's checkpoint has the one request slot; then it waits for the slot. On
the Swift side, operations run one at a time on one queue and event reads on
another; cancelling a task wakes the bridge; shutdown closes the reader, drains
its queue and destroys the bridge as the last block of the operation queue.

### What is hard

* One request slot per torrent, shared by clients that time out or are
  cancelled, replies that arrive late, and a completion that must not be
  forgotten behind them.
* Replies, errors and removals arrive in any order and for handles that have
  been replaced.
* The alert thread may never wait for the consumer, so the mailbox is bounded
  by a reservation, and frees list entries to which a raw pointer leads.
* Three copies of the priorities (the selection, the job's vectors, the
  engine's) are changed by calls that may be refused halfway, and come back
  from resume data.
* `select_files` and `set_file_priority` are refused while a torrent completes;
  `set_piece_priority`, the window calls and `start` are not.
* Two planners, in C++ and in Swift, compute the same pieces from 64-bit sums.
* The actor's tables are written after an `await`; cancellation meets an
  operation at any point; the bridge is freed while two lanes use it.

`PROJECT.json` lists each hazard at its line with the properties that are for it.

## 2. Modules

| Module | Models | Composed from |
|---|---|---|
| `EventMailbox` | `EventMailbox.hpp` as operators on a mailbox value | |
| `EventChannel` | the mailbox under the session's calls: a state machine, its invariants, its refinement | `EventMailbox` |
| `EventQueue` | abstract: what the event stream promises, torrent by torrent | |
| `DiskCheckpoint` | the phases of a checkpoint | |
| `NativeSession` | `LibtorrentNative.cpp` with the engine it talks to | `EventMailbox`, `DiskCheckpoint` |
| `PieceWindow` | the arithmetic of a streaming window, native and Swift, as operators with their integer widths | |
| `Priorities` | the file and piece priorities of a torrent and its streaming window | `PieceWindow` |
| `SessionLanes` | the executor, the reader, the handle and the actor | |
| `EventMailboxProofs` | lemmas: what each operation does to a mailbox value | `EventMailbox` |
| `EventChannelProofs` | theorems about `EventChannel` | `EventChannel`, `EventMailboxProofs` |
| `NativeSessionLemmas` | lemmas: what each handler and call does to one job | `NativeSession`, `EventMailboxProofs` |
| `NativeSessionProofs` | theorems about `NativeSession` | `NativeSessionLemmas` |
| `PrioritiesProofs` | theorems about the arithmetic of a window | `Priorities` |
| `PolicyProofs` | theorems about the priorities policy | `PrioritiesProofs` |
| `SessionLanesProofs` | theorems about `SessionLanes` | `SessionLanes` |
| `MCEventChannel`, `MCNativeSession`, `MCPriorities` | constants for TLC | |

**EventMailbox, EventChannel.** `critical` is the list and `jobs` the map of the
header. A pointer into the list is a position; `pop` moves every position down
and leaves a pointer to the freed head at 0, so a dangling pointer is a state
that can be seen. Each entry carries a ghost, `slot`, naming the place of the
torrent's reservation that it takes; nothing reads it but the invariant. The
actions of `EventChannel` are the calls that the session makes, for torrents it
has in its own table (`MailboxMirrorsJobs` checks that claim in `NativeSession`).
The session publishes errors with two texts, "recoverable" and
"completionFailed", and so does the model.

**EventQueue.** What the consumer of one torrent may rely on: one event for each
critical event published, in order, one-shots at most once, the status last. Of
the text of an error it promises less: an error published behind an unread error
of its torrent is reported with the text of that one (`Reported`), for
`critical` does not compare texts when it coalesces. The source's `README.md:179`
("Repeated identical native errors are stored as a count") speaks of identical
errors only; `session_failure_lost` shows what becomes of others.

**NativeSession.** A step is what one thread does in one hold of the mutex. A
call that waits is two steps, and a thread in a wait is asleep or awake, so a
missing notification is a state that can be seen. `Return` may happen at any
time in a wait: that is its timeout. `wake_generation` is, in each call, the
flag "interrupted". A torrent has `N` files of one piece each, so the selection,
the job's two priority vectors and what the engine wants, has written and has
flushed are all sets of files; of a priority it only matters here whether it is
`dont_download`. A selection with `N + 1` in it has an index out of range.
`SelectFiles` stands for `select_files` and for `set_file_priority`, with the
files it ends up with; `SelectFilesRejected` for a `select_files` that is refused
and has stored its list already.
`SetPiecePriority`, `UpdateStreamingWindow` and `ClearStreamingWindow` are open
during a completion, as in the code, and so is `Start`, so that a torrent may
download behind the fence of its completion. `fenced` is history: what was
written when the completion last asked for its flush. The engine is external:
it answers requests in order, reports a failed write before the reply of the
flush that met it, keeps a removed torrent's handle valid until it gets round to
releasing it, and drops what such a torrent still owed. `PayloadChanges` is
somebody deleting or restoring the payload files. `Destroy` comes when no call
is in progress, which is what the lanes guarantee (`NoUseAfterFree`): it joins
the alert thread and drops the table, the mailbox and the torrents in any state
they are in. Calls that only read or only fail are stuttering steps and left out.

**PieceWindow, Priorities.** Every call holds the mutex throughout, so a step is
a call. `job` is the bridge's part of the policy and `torrent` the engine's; an
empty vector is `Unset`. The engine is external: file priorities without piece
priorities determine the pieces as `apply_selection` would, given piece
priorities override them, of two entries of a list for one piece the later one
holds, and resume data saves the priorities in force. Two variables are history.
`policy` is what the client may expect: the accepted file priorities, the
baseline (each piece at the level of its most important file, or the client's
own) and the pieces raised by the last window; the reference definitions
(`Baseline`, `Raised`) go byte by byte and share nothing with the code's
arithmetic. `window` is the answer of the last window call with both plans.
A rejected `select_files` has already overwritten the job, and resume data taken
while a window was open, or restored with another selection, holds priorities
nobody asked for; such a policy is `deviated`, and `EngineFollowsPolicy` asks
nothing (`Settled`) until an accepted `select_files`, a removal or a settled
restart. The other properties ask as much as is left: `DesiredMatchesEngine`,
`DeadlinesInStep` and `FrozenUnlessRefused` hold after any restart, and are
weakened only while the last call on files is a `select_files` that was
`refused`. A sum of two `int64_t` wraps at `MaxOffset`, a deadline is clamped
at `MaxDeadline`. A deadline is a truncated quotient in the code (floating
point) and here.

**SessionLanes.** A call goes through the points at which another thread can get
in between: queued, begun, pointer read, calling, waiting, returned, resumed.
Of the bridge there is the table of torrents, the waits, and when it is freed;
it may refuse any call (`NativeCall`), the `add` of an unknown identifier too,
and must refuse those on torrents it does not have.
The operations that touch none of the actor's tables are represented by one
mutation and one read. `updateStreamingWindow` is an operation of its own: it
asks for nothing if a geometry is cached, not even whether the session is
running, and otherwise reads the metadata and queues a second block when it
continues. `overlapped` is history: the identifiers two tasks used at once.
Resuming the continuation and leaving the block are one step; cancelling the
stream sets the task's flag and closes the reader in one.

## 3. Runs

| Run | Instance | Shows |
|---|---|---|
| `mailbox_one_job` | 1 torrent, all four one-shots, 2 error texts, runs of at most 2 | the whole reservation of 9 entries fills up (`MaxEntries` is 10, so the bound is not what stops it), the identifier is removed and reused; the inductive invariant holds |
| `mailbox_two_jobs` | 2 torrents, 1 one-shot, 2 error texts, one list of at most 4 entries, fairness | entries of one torrent between those of the other, runs in which both texts meet, admission at its limit, reuse: each torrent has the queue that `EventQueue` promises, and a reading consumer gets every event once the errors stop |
| `session_faults` | 1 client thread, 1 file, 2 faults, 1 wake | one request at a time, flush covers the request, completion never orphaned, no lost wake-up, completed only behind a fence |
| `session_callers` | 2 client threads, 2 files; a torrent file, magnets, unsafe paths | completion while the selection, the wanted pieces and the window change under it; waiting for metadata; a stopped torrent stays stopped |
| `session_reuse` | 1 identifier, 2 handles, 1 fault, fairness | late alerts of a replaced torrent; a completion that began ends, whatever checkpoints were given up |
| `priorities` | 5 bytes in pieces of 2: files of 3, 0 and 2 bytes; levels 0 and 7; 5 selections, one of them out of range; 3 windows | after any sequence of calls, until one is refused or unsettled resume data restored, the engine has the priorities the calls asked for. After restarts too, its files are those the completion verifies. After refused selections too, windows have the right pieces in both planners, deadlines are in playback order and none is unreported, and what a completion verifies does not change |
| `lanes` | 1 client task, 3 calls, the reader, fairness | nobody inside the bridge when it is freed; cancellation never separates the actor's tables from the bridge, mutations report what they did; every continuation is resumed, shutdown ends |

`mailbox_one_job`, `session_faults`, `priorities` and `lanes` also check the
inductive invariant `Inv` of their module, on which its proofs rest. `lanes` has
one task because its liveness is costly to check; the safety it checks is proved
for any number of tasks (section 4), and `lanes_geometry` has two.

Five runs end in a violation: what a document, a comment, a message or a test
says is not what the code does.

| Run | The code |
|---|---|
| `session_late_piece` | a piece made unwanted lets a torrent finish; wanted again with `set_piece_priority` while the completion runs, and downloaded after `start`, it passes the progress check, and `completed` is published without it in the flush or the resume data (`CompletedIsDurable`) |
| `session_failure_lost` | `critical` coalesces all errors of a torrent, so `completionFailed` behind an unread engine error is counted as one more of those (and the assertion on equal payloads fails in a debug build) |
| `session_exception` | `alerts()` uses a handle after `is_valid()`, in its own handlers, in the progress check and in what it asks of the engine next; the handle of a stopped torrent can expire in between, and no handler surrounds the thread |
| `lanes_geometry` | a metadata read that continues after its torrent's removal caches the geometry of a torrent that is gone |
| `lanes_cancellation` | a wake between `begin()` and the capture of `wake_generation` is lost, and the cancelled call blocks its lane until its timeout |

Other behaviour a maintainer may want to know of, that is not a run of its own:

* An engine error that falls into a request whose caller has gone is stored in
  the checkpoint and reset with it, so nobody is told.
* `TablesReconciled` leaves out identifiers that two tasks used at once: when
  the actor runs the continuations of an `add` and a `remove` in the other order,
  a removed torrent stays in `identifiers`, or `checkpointAll` skips a live one.
  Nothing here says what the tables owe such tasks.
* A window that fails because of a refused selection has cleared the engine's
  deadlines and leaves the job's list of them, which `pieces` goes on reporting;
  `DeadlinesInStep` therefore asks for equality only without a refusal.
* `select_files` stores its list before it refuses it, and the next window call,
  or the clearing of a window, applies that list if its indexes are valid. In a
  completion that began meanwhile it changes the engine's files, although the
  calls that are refused then say that "the selected files cannot change during
  torrent completion". `FrozenUnlessRefused` makes exactly this exception: what
  the completion verifies stays as it is even so.
* A torrent restored with another selection than the saved one, or from a
  checkpoint taken while a window was open, has the saved piece priorities as its
  baseline, and `clearStreamingWindow`, which "restores file-selection
  priorities" (`README.md:143` of the source), restores those. Its files are
  those of the selection (`DesiredMatchesEngine`).
* A window lowers: a piece whose baseline is 7 has 6 while it is in the warm
  window, and so has the edge of the file that was to be prioritized.

**Bounds.** `MaxRun` and `MaxEntries` cap the mailbox; two is enough for a run
to differ from a single entry and the proofs need no bound. `MaxHandles` is how
many torrents are ever added: one, or two where an identifier is reused.
`MaxAlerts` limits the alerts that steps other than replies add; replies are
limited by the request slot. `MaxFaults` limits disk faults, spontaneous
errors, state changes and changes of the payload together: two suffice for an
error before a failing completion and for a failure of the recheck. `MaxWakes`
limits cancellations. In `priorities`, the first file shares its last piece with
the third and the second is empty; `MaxOffset` is 15 and `MaxDeadline` 1000, so
that one window wraps if its end is summed up before it is clamped and one
deadline exceeds its type; the calls themselves are not bounded. `MaxCalls`
limits the client's calls in `SessionLanes`;
an inconsistency of the tables needs two of them, plus one to fill a cache.
The lanes' runs do not check for deadlock: after a shutdown nothing is to happen.

**Fairness.** `EventChannel`: the consumer keeps reading. `NativeSession`: the
alert thread handles the alerts in its queue, since it blocks on nothing but the
mutex; a wait ends, since each has a timeout; the engine answers the requests
it has accepted, as the bridge assumes of `flush_cache` and `save_resume_data`.
Neither clients nor the engine are assumed to do anything else. `SessionLanes`:
dispatch queues run their blocks, waits time out, the actor gets to resumed
tasks, cancellation handlers run. Events, cancellations and answers are not fair.

## 4. Proofs

All theorems are about the specifications the runs check, for every value of
the constants that satisfies the named assumptions. TLC evaluates those on every
run. The bounds on handles, alerts, faults, wakes and calls occur in guards only
and are arbitrary, so the theorems hold for executions of any length.

### The mailbox (`EventMailboxProofs`, `EventChannelProofs`)

* `InvHolds`: the invariant `Inv`;
* `TypeOKHolds`: type correctness, of the event received too;
* `CriticalBoundedHolds`: the list never exceeds nine entries per admissible
  torrent, which is the assertion at the end of `critical`;
* `LastErrorNotDanglingHolds`: the pointer leads nowhere or to a live error run
  of its own torrent;
* `NoStatusAfterTerminalHolds` and `ForgottenWhenDrainedHolds`.

Assumed: the capacity is a natural number, "no status" is not the text of a
status, and every one-shot payload has one of the four kinds.

*The argument.* None of the four properties is inductive. The bound needs to
know why a torrent has at most nine entries: four one-shots, published at most
once each, separate at most five error runs. `SlotsDistinct` says that its
entries take different places, and `SlotsJustified` says why: a waiting
one-shot has its bit set, and a run after the latest one-shot is the one that
`last_error` leads to, so a new run is started only when the place is free. The
entries then map one-to-one into the pairs of an admitted torrent and a place
(`ReservationSuffices`). `LastErrorValid` is needed for coalescing to keep
owner and place; `PendingExact` for erasing a drained torrent to leave no entry
without an owner. There is a lemma per operation, about mailbox values, so that
`NativeSessionProofs` uses the same ones; the largest is `FreedKeeps`, in which
every position moves.

### The native session (`NativeSessionLemmas`, `NativeSessionProofs`)

* `InvHolds`, `TypeOKHolds`;
* `OneRequestAtATimeHolds`: what the engine owes a torrent is what its barrier
  waits for, so no checkpoint takes another one's late reply for its own;
* `FlushCoversRequestHolds`: a flushed checkpoint that reports success has on
  disk and in its resume data everything written before it was requested;
* `CompletionHasOwnerHolds`, `ActiveHasCallerHolds`, `NoLostWakeupHolds`,
  `MailboxMirrorsJobsHolds`;
* `CompletedIsFencedHolds`: `completed` is published for a selection that is
  downloaded and on disk, and everything written when the completion last asked
  for its flush is out of the write cache and in the resume data kept. It says
  nothing of what is downloaded behind the fence, and cannot: that is
  `CompletedIsDurable`, which `session_late_piece` refutes;
* `StoppedIsFinalHolds`.

Assumed: a torrent has at least one file (`NAssumption`), the thread that reads
events makes no other calls (`ReaderAssumption`, which the two Swift queues
guarantee), the texts published are texts (`PayloadAssumption`), and the shape
of the add requests (`AddAssumption`). `BoundAssumption` types the bounds.

*The argument.* `Inv` has a part about the session as a whole and a part per
job, `JobInv(job, torrent, alerts)`.

* `SlotExact` is `OneRequestAtATime` for one job. It holds while the engine
  still has the torrent, also after its removal was asked for: the handlers do
  not look at that. `DoneInStep` ties `done`, `active` and the phase together.
* `HasOwner` is `CompletionHasOwner` for one job. `StoppedForGood` says that a
  job is stopped with its torrent, and that a completion cut short by a stop was
  for metadata that no completion accepts.
* `Covers` is why `FlushCoversRequest` holds: everything needed is written, and
  each flush reply in the queue either has it on disk or has an error alert ahead of
  it (`FlushOrError`), which fails the checkpoint before the reply is handled.
  It is asked for each caller in a checkpoint (`RequestsCovered`) and for each
  completion, where what is needed is `fenced`. It survives the calls that change
  what is wanted and the downloads they lead to, since these only add to what is
  written.
* `MetadataOnce` says that `metadata_received` comes once and ahead of any
  `torrent_finished`. Without it the handler that applies the selection could
  run during a completion.
* `HandlesKnown` and `CallsKnown`: a handle names one torrent of at most one
  job, and a checkpoint in progress keeps its job.

A handler sees one job, its torrent, the alerts, the mailbox and who is asleep:
a *view*. The lemmas say of each handler and call that it takes a view `v` to a
view `n` with `Kept(v, n)`: the job's invariant, the caller's coverage and the
mailbox survive, other torrents' alerts are untouched, and whoever has something
to return for is awake. `CommitKeeps` lifts this once and for all to the
session, `NextKeeps` goes through the actions, and the steps of the engine,
which change a torrent and the alerts but no job, have a lemma each
(`EngineStepKeeps`). `FinalStep` is the fact about every step from which the two
action properties follow.

### The priorities (`PrioritiesProofs`, `PolicyProofs`)

* `PlannersAgree`: `PieceWindowPlan.make` and `update_streaming_window` compute
  the same playback, critical and warm pieces from every request that passes the
  checks;
* `WindowsAreCovered`: in every reachable state, the window the client was last
  told of has exactly the pieces with a byte of the bytes it asked for;
* `InvHolds`, `TypeOKHolds`;
* `EngineFollowsPolicyHolds`: as long as no selection was refused and no
  unsettled resume data restored, the engine has the priorities asked for;
* `DesiredMatchesEngineHolds`: after any calls and restarts, the engine's files
  are those a completion verifies, unless the client's last call on files was a
  `select_files` that was refused;
* `DeadlinesInStepHolds`: the deadlines reported are those of the window the
  client was last told of; the engine's are among them, in playback order, and
  are all of them without a refusal;
* `FrozenUnlessRefusedHolds`: what a completion verifies does not change, and the
  engine's files change during it only after a refused `select_files`.

Assumed: pieces have a positive length, the widths are natural numbers
(`PieceLengthAssumption`, `WidthAssumption`), files end within 64 bits
(`LayoutAssumption`, in `Stored` for the planners), levels are at most 7
(`LevelsAssumption`, libtorrent's), a request's rate is positive and a selection
names at most the first index out of range (`RequestsAssumption`).

*The argument for windows.* A quotient is the one number whose multiple is
within a piece of the byte (`PieceBounds`, `PieceUnique`), so pieces follow the
order of their bytes and the pieces of a run of bytes are a run of pieces
(`PieceMonotone`, `PiecesOfRun`). Clamping the length before adding keeps every
sum below the end of the file (`WindowEndExact`), so nothing wraps, and each
clamp to the file is the identity (`PlansExact`). `WindowCoversRequest` is then
inductive as it stands, since `Admissible` guards the one step that sets a window.

*The argument for the policy.* `EngineFollowsPolicy` is not inductive: a call
works on the job's vectors and not on the engine's. `JobFollowsPolicy` says that
what the job has stored, or would derive from what it has, is what the client
asked for, and that pieces are raised over a stored baseline only;
`MetadataDecides` says which vectors exist before the metadata. What is said of
deviated policies needs two more parts: `JobFollowsEngine`, that without a refusal
the engine has the files the job has stored or would derive, and `RefusedDeviates`.
The calls are
then shown to compute the reference definitions: the baseline derived file by
file is the one defined byte by byte, and the merged list of a window's pieces
raises what `Raised` says.

### The lanes (`SessionLanesProofs`)

* `InvHolds`, `TypeOKHolds`;
* `NoUseAfterFreeHolds`: nobody is inside the bridge when it is destroyed, and
  nobody enters it afterwards;
* `MutationOutcomeHolds`: a mutation that was executed reports its own outcome;
* `TablesReconciledHolds`: the actor's tables agree with the bridge's for every
  identifier that no two tasks used at once.

Assumed: the reader is not one of the tasks, "none" is neither an identifier nor
a geometry (`LanesAssumption`), the two blocks of a shutdown are not tasks
(`BlocksAssumption`), and operations are those modelled (`OpsAssumption`).

*The argument.* `HeadsRun` says that a lane runs the block at its head, and
`ShutdownOrder` what a shutdown has done at each stage: the stored pointer is
taken out at the head of the tasks' own lane, so no task holds one beyond that,
and the reader holds one only until its lane is drained. `CallsInOrder` says
what a call has with it between the native call and the continuation, which
`MutationOutcome` needs. For the tables, `TablesFollow` adds to
`TablesReconciled` the states in between: the one task that uses an identifier
has changed the bridge and is about to change the table; `OverlapsKnown` says
that it is the only one.

### Only model-checked

`ImplementsEventQueue` (the mapping unrolls runs by recursion over the list,
and what a recursive definition computes is beyond the provers) and the liveness
properties `EventuallyReceived`, `CompletionEnds`, `EveryCallReturns` and
`ShutdownEnds`, which need fairness and `ENABLED`.

## 5. Not modelled

The texts of events, errors and metadata; the parsing of sources; the read-only
calls (`status`, `pieces`, `piece_completion`), which change nothing;
allocation failures inside a step (a failed copy in `next_event` is modelled:
the event stays); two identifiers for one info-hash, and whether clearing
deadlines changes priorities, both of which depend on libtorrent alone; the
settings that `create` hands to the engine; `checkpointAll`, which repeats
`checkpoint`; the argument checks of the actor; `deinit`. The demonstration
application, the scripts and the vendored certificates are left out.

## 6. Plan

1. *Done:* the mailbox with its proofs, the checkpoint, the session, the lanes.
2. *Done:* priorities and the streaming window on single files and pieces, the
   two planners with their proofs, `destroy`, the window calls on the lanes.
3. *Done:* inductive invariants for the session, the priorities and the lanes,
   and all their safety properties as theorems.
4. The refinement of `EventQueue` in a form that can be proved: the mapping
   unrolls runs by recursion; a history variable with the unrolled queue, kept
   by the actions of `EventChannel`, would do without it.
5. An abstract specification of a checkpoint (asked for, answered or given up)
   that the session implements, checked and then proved from `Inv`.
6. A composition of `SessionLanes` with the waits of `NativeSession`.
