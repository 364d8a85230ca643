----------------------------- MODULE Priorities -----------------------------
(***************************************************************************)
(* The file and piece priorities of one torrent and its streaming window:    *)
(* what the bridge keeps in its job, what it tells the engine, and what      *)
(* comes back with resume data (src/Native/src/LibtorrentNative.cpp).        *)
(*                                                                           *)
(* Every call holds the session mutex throughout, so a step is a call.  A    *)
(* call that is refused before it changes anything is left out.  A selection *)
(* is a set of file indexes (the Swift caller sends a Set, sorted), and the  *)
(* index Len(Sizes) stands for those out of range.                           *)
(***************************************************************************)
EXTENDS PieceWindow, Sequences, FiniteSetsExt

CONSTANTS
    Sizes,       \* the sizes of the torrent's files, in order
    FileLevels,  \* priorities that clients give to files ...
    PieceLevels, \* ... and to pieces
    Selections,  \* the selections clients make; None is no selection
    Requests,    \* the streaming windows clients ask for
    None         \* no selection, no window, no resume data

ASSUME SizesAssumption  == Sizes \in Seq(Nat)
ASSUME LevelsAssumption == FileLevels \cup PieceLevels \subseteq 0..7

Files == 0..(Len(Sizes) - 1)

ASSUME RequestsAssumption ==
    /\ \A s \in Selections \ {None} : s \subseteq 0..Len(Sizes)
    /\ \A r \in Requests : /\ DOMAIN r = {"file", "at", "critical", "warm", "rate", "edges"}
                           /\ r.rate \in Nat \ {0}

\* The windows that clients are told of: the request, and what the two sides make of it.
Windows == [request : Requests, native : Plan, swift : Plan]

ASSUME NoneAssumption == None \notin Windows

VARIABLES
    phase,   \* of the torrent in the session: see Phases
    job,     \* the job's part of the policy
    torrent, \* the engine's part of it
    resume,  \* what the last resume data carries, or None
    policy,  \* history: what the accepted calls ask for
    window   \* history: the streaming window the client was last told of, or None

vars == <<phase, job, torrent, resume, policy, window>>

----------------------------------------------------------------------------
(* The torrent's layout.                                                     *)

FileAt(f) == [offset |-> MapThenSumSet(LAMBDA g : Sizes[g + 1], 0..(f - 1)), size |-> Sizes[f + 1]]
Pieces    == UNION {FirstPiece(FileAt(f))..FinalPiece(FileAt(f)) : f \in {g \in Files : FileAt(g).size > 0}}

\* The offsets of a torrent's bytes have 64 bits.
ASSUME LayoutAssumption ==
    \A f \in Files : FileAt(f) \in File /\ FileAt(f).offset + FileAt(f).size <= MaxOffset

DontDownload == 0
Default      == 4
High         == 6
Top          == 7
Unset        == <<>>   \* an empty priority vector; no raised pieces; no deadlines

To(S, level) == [x \in S |-> level]
Over(f, g)   == [x \in DOMAIN f \cup DOMAIN g |-> IF x \in DOMAIN f THEN f[x] ELSE g[x]]

Phases  == {"absent", "active", "completing", "stopped"}
Present == phase \in {"active", "completing"}

\* Reference: the pieces that hold a byte of the file.
PiecesOf(f) == PiecesAhead(FileAt(f), 0, FileAt(f).size)

\* Reference: a piece is as important as the most important file with a byte in it.
Baseline(files) ==
    [p \in Pieces |-> Max({DontDownload} \cup {files[f] : f \in {g \in Files : p \in PiecesOf(g)}})]

\* Reference: the priorities a window asks for, byte by byte.
Ahead(r, bytes) == PiecesAhead(FileAt(r.file), r.at, bytes)

Raised(r) == LET all   == PiecesOf(r.file)
                 edges == IF r.edges THEN {Min(all), Max(all)} ELSE {}
             IN  [p \in edges \cup Ahead(r, r.warm) |->
                     IF p \in Ahead(r, r.warm) \ Ahead(r, r.critical) THEN High ELSE Top]

NoJob     == [desired |-> {}, files |-> Unset, pieces |-> Unset, deadline_pieces |-> {}]
NoTorrent == [metadata |-> FALSE, files |-> Unset, pieces |-> Unset, deadlines |-> Unset]

\* deviated: the job has something that no accepted call put there.  refused: the
\* client's last call on files was a select_files that was refused.
NoPolicy == [files |-> Unset, baseline |-> Unset, raised |-> Unset,
             deviated |-> FALSE, refused |-> FALSE]
Deviated == [NoPolicy EXCEPT !.deviated = TRUE]

Init ==
    /\ phase   = "absent"
    /\ job     = NoJob
    /\ torrent = NoTorrent
    /\ resume  = None
    /\ policy  = NoPolicy
    /\ window  = None

----------------------------------------------------------------------------
(* apply_selection, on a view of the job and its torrent.                    *)

View == [job |-> job, torrent |-> torrent]

Commit(v) == job' = v.job /\ torrent' = v.torrent

\* Mutant of Selected: the indexes are not checked against the vector's size.
SelectedUnchecked(desired) ==
    [f \in Files \cup desired |-> IF f \in desired THEN Default ELSE DontDownload]

\* The priorities of a selection; of one with an index out of range, those
\* written before it was met.
Selected(desired) == [f \in Files |-> IF f \in desired THEN Default ELSE DontDownload]

\* Mutant of FromFiles: the last file with a part of the piece decides.
FromFilesLast(files) ==
    LET Covers(f, p) == /\ files[f] # DontDownload /\ FileAt(f).size > 0
                        /\ p \in FirstPiece(FileAt(f))..FinalPiece(FileAt(f))
    IN  [p \in Pieces |-> IF \E f \in Files : Covers(f, p)
                          THEN files[Max({f \in Files : Covers(f, p)})] ELSE DontDownload]

\* Piece priorities from file priorities: empty files have no piece.
FromFiles(files) ==
    LET Covers(f, p) == /\ files[f] # DontDownload /\ FileAt(f).size > 0
                        /\ p \in FirstPiece(FileAt(f))..FinalPiece(FileAt(f))
    IN  [p \in Pieces |-> Max({DontDownload} \cup {files[f] : f \in {g \in Files : Covers(g, p)}})]

Applies(v) == v.torrent.metadata /\ (v.job.files # Unset \/ v.job.desired \subseteq Files)

\* Mutant of ApplySelection: the job's deadlines are not cleared with the engine's.
ApplySelectionKeepsDeadlines(v) ==
    LET files  == IF v.job.files = Unset THEN Selected(v.job.desired) ELSE v.job.files
        pieces == IF v.job.pieces = Unset THEN FromFiles(files) ELSE v.job.pieces
    IN  IF Applies(v)
        THEN [job     |-> [v.job EXCEPT !.files = files, !.pieces = pieces],
              torrent |-> [v.torrent EXCEPT !.files = files, !.pieces = pieces,
                                            !.deadlines = Unset]]
        ELSE [v EXCEPT !.job.files = IF v.torrent.metadata THEN files ELSE @]

ApplySelection(v) ==
    LET files  == IF v.job.files = Unset THEN Selected(v.job.desired) ELSE v.job.files
        pieces == IF v.job.pieces = Unset THEN FromFiles(files) ELSE v.job.pieces
    IN  IF Applies(v)
        THEN [job     |-> [v.job EXCEPT !.files = files, !.pieces = pieces,
                                        !.deadline_pieces = {}],
              torrent |-> [v.torrent EXCEPT !.files = files, !.pieces = pieces,
                                            !.deadlines = Unset]]
        ELSE [v EXCEPT !.job.files = IF v.torrent.metadata THEN files ELSE @]

\* What the client now has every right to expect, until it asks for a window.
Agreed(files) == [NoPolicy EXCEPT !.files = files, !.baseline = Baseline(files)]

\* The client expects as much only of a policy that has not been deviated from.
Expect(expected) == policy' = IF policy.deviated THEN policy ELSE expected

----------------------------------------------------------------------------
(* Adding the torrent, its metadata, its completion and its end.             *)

(***************************************************************************)
(* ltkit_session_add with a selection, or None, and with resume data or not. *)
(* The selection replaces the restored file priorities and leaves the        *)
(* restored piece priorities.  The engine takes file priorities and, over    *)
(* them, piece priorities; without any it downloads nothing.                 *)
(***************************************************************************)
AddTorrent(selection, metadata, restore) ==
    /\ phase = "absent"
    /\ restore => resume # None /\ metadata
    /\ LET restored == IF restore THEN resume.files ELSE Unset
           desired  == IF selection \notin {None, {}} THEN selection
                       ELSE {f \in DOMAIN restored : restored[f] # DontDownload}
           files    == IF metadata /\ selection # None THEN Selected(desired) ELSE restored
           pieces   == IF restore THEN resume.pieces ELSE Unset
           wanted   == IF files = Unset THEN To(Files, DontDownload) ELSE files
           chosen   == IF pieces = Unset THEN FromFiles(wanted) ELSE pieces
       IN  /\ metadata /\ selection # None => desired \subseteq Files
           /\ job' = [desired |-> desired, files |-> files, pieces |-> pieces,
                      deadline_pieces |-> {}]
           /\ torrent' = IF metadata
                         THEN [metadata |-> TRUE, files |-> wanted, pieces |-> chosen,
                               deadlines |-> Unset]
                         ELSE NoTorrent
           /\ policy' = CASE ~metadata             -> NoPolicy
                          [] metadata /\ ~restore -> Agreed(wanted)
                          [] OTHER                -> IF resume.settled /\ wanted = resume.files
                                                     THEN [Agreed(wanted) EXCEPT !.baseline = resume.pieces]
                                                     ELSE Deviated
    /\ phase'  = "active"
    /\ window' = None
    /\ resume' = None

\* The metadata of a magnet link arrives: a selection it has no room for stops
\* the torrent.
MetadataReceived ==
    /\ phase = "active"
    /\ ~torrent.metadata
    /\ LET v == [View EXCEPT !.torrent.metadata = TRUE]
       IN  IF Applies(v)
           THEN /\ Commit(ApplySelection(v))
                /\ policy' = Agreed(ApplySelection(v).torrent.files)
                /\ UNCHANGED phase
           ELSE /\ job'   = ApplySelection(v).job
                /\ phase' = "stopped"
                /\ UNCHANGED <<torrent, policy>>
    /\ UNCHANGED <<resume, window>>

\* The completion begins and ends; NativeSession has its steps.
BeginCompletion ==
    /\ phase = "active"
    /\ \E p \in DOMAIN torrent.pieces : torrent.pieces[p] # DontDownload
    /\ phase' = "completing"
    /\ UNCHANGED <<job, torrent, resume, policy, window>>

EndCompletion ==
    /\ phase = "completing"
    /\ phase' = "stopped"
    /\ UNCHANGED <<job, torrent, resume, policy, window>>

\* The torrent is removed, or the application ends; before that a checkpoint may
\* have saved the engine's priorities.  settled is history.
Remove(saved) ==
    /\ phase # "absent"
    /\ saved => torrent.metadata
    /\ resume' = IF saved
                 THEN [files |-> torrent.files, pieces |-> torrent.pieces,
                       settled |-> ~policy.deviated /\ policy.raised = Unset]
                 ELSE None
    /\ phase'   = "absent"
    /\ job'     = NoJob
    /\ torrent' = NoTorrent
    /\ policy'  = NoPolicy
    /\ window'  = None

----------------------------------------------------------------------------
(* The client's calls.                                                       *)

\* Mutant of MayReselect: the files may change during the completion.
MayReselectAlways == Present /\ torrent.metadata

MayReselect == phase = "active" /\ torrent.metadata

\* Mutant of Storing: the piece priorities of the old selection stay.
StoringKeepsPieces(s) == [View EXCEPT !.job = [job EXCEPT !.desired = s, !.files = Unset]]

\* What select_files stores before it looks at the selection.
Storing(s) == [View EXCEPT !.job = [job EXCEPT !.desired = s, !.files = Unset, !.pieces = Unset]]

SelectFiles(s) ==
    /\ MayReselect
    /\ Applies(Storing(s))
    /\ Commit(ApplySelection(Storing(s)))
    /\ policy' = Agreed(Selected(s))
    /\ window' = None
    /\ UNCHANGED <<phase, resume>>

\* The primary file is not in the selection, or the selection does not apply.
SelectFilesRejected(s, primary_missing) ==
    /\ MayReselect
    /\ primary_missing \/ ~Applies(Storing(s))
    /\ Commit(IF primary_missing THEN Storing(s) ELSE ApplySelection(Storing(s)))
    /\ policy' = [Deviated EXCEPT !.refused = TRUE]
    /\ UNCHANGED <<phase, resume, window>>

\* Mutant of SetFilePriority: the selection is not derived again.
SetFilePriorityOnly(f, level) ==
    /\ MayReselect
    /\ LET kept  == IF job.files = Unset THEN torrent.files ELSE job.files
           files == [kept EXCEPT ![f] = level]
       IN  Commit(ApplySelection(
               [View EXCEPT !.job = [job EXCEPT !.files = files, !.pieces = Unset]]))
    /\ policy' = IF policy.deviated THEN Deviated ELSE Agreed([policy.files EXCEPT ![f] = level])
    /\ window' = None
    /\ UNCHANGED <<phase, resume>>

SetFilePriority(f, level) ==
    /\ MayReselect
    /\ LET kept  == IF job.files = Unset THEN torrent.files ELSE job.files
           files == [kept EXCEPT ![f] = level]
       IN  Commit(ApplySelection(
               [View EXCEPT !.job = [job EXCEPT !.files   = files,
                                                !.desired = {g \in Files : files[g] # DontDownload},
                                                !.pieces  = Unset]]))
    /\ policy' = IF policy.deviated THEN Deviated ELSE Agreed([policy.files EXCEPT ![f] = level])
    /\ window' = None
    /\ UNCHANGED <<phase, resume>>

\* The completion does not refuse this call.
SetPiecePriority(p, level) ==
    /\ Present
    /\ torrent.metadata
    /\ LET kept == IF job.pieces = Unset THEN torrent.pieces ELSE job.pieces
       IN  job' = [job EXCEPT !.pieces = [kept EXCEPT ![p] = level]]
    /\ torrent' = [torrent EXCEPT !.pieces[p] = level]
    /\ Expect([policy EXCEPT !.baseline[p] = level,
                              !.raised = [q \in DOMAIN @ \ {p} |-> @[q]]])
    /\ UNCHANGED <<phase, resume, window>>

\* The old deadlines go first; then the baseline, and the window over it.
UpdateStreamingWindow(r) ==
    /\ Present
    /\ torrent.metadata
    /\ r.file \in job.desired \cap Files
    /\ Admissible(FileAt(r.file), r.at, r.critical, r.warm)
    /\ LET file  == FileAt(r.file)
           v     == ApplySelection([View EXCEPT !.torrent.deadlines = Unset])
           plan  == NativeWindow(file, r.at, r.critical, r.warm)
           due   == plan.playback..plan.critical_last
           warm  == plan.playback..plan.warm_last
           edges == IF r.edges THEN {FirstPiece(file), FinalPiece(file)} ELSE {}
       IN  IF Applies(View)
           THEN /\ job' = [v.job EXCEPT !.deadline_pieces = due]
                /\ torrent' = [v.torrent EXCEPT
                      !.pieces    = Over(To(due, Top), Over(To(warm, High), Over(To(edges, Top), @))),
                      !.deadlines = [p \in due |-> Deadline(file, r.at, p, r.rate)]]
                /\ window' = [request |-> r, native |-> plan,
                              swift |-> SwiftPlan(file, r.at, r.critical, r.warm)]
                /\ Expect([policy EXCEPT !.raised = Raised(r)])
           ELSE Commit(v) /\ UNCHANGED <<policy, window>>
    /\ UNCHANGED <<phase, resume>>

ClearStreamingWindow ==
    /\ Present
    /\ torrent.metadata
    /\ Commit(ApplySelection([job     |-> [job EXCEPT !.deadline_pieces = {}],
                              torrent |-> [torrent EXCEPT !.deadlines = Unset]]))
    /\ Expect([policy EXCEPT !.raised = Unset])
    /\ window' = None
    /\ UNCHANGED <<phase, resume>>

Next ==
    \/ \E s \in Selections, metadata, restore \in BOOLEAN :
          AddTorrent(s, metadata, restore)
    \/ MetadataReceived
    \/ BeginCompletion
    \/ EndCompletion
    \/ \E saved \in BOOLEAN : Remove(saved)
    \/ \E s \in Selections \ {None} : SelectFiles(s)
    \/ \E s \in Selections \ {None}, primary_missing \in BOOLEAN :
          SelectFilesRejected(s, primary_missing)
    \/ \E f \in Files, level \in FileLevels : SetFilePriority(f, level)
    \/ \E p \in Pieces, level \in PieceLevels : SetPiecePriority(p, level)
    \/ \E r \in Requests : UpdateStreamingWindow(r)
    \/ ClearStreamingWindow

Spec == Init /\ [][Next]_vars

----------------------------------------------------------------------------
(* Safety.                                                                   *)

Vector(S) == {Unset} \cup [S -> 0..Top]

Jobs == [desired : SUBSET (0..Len(Sizes)), files : Vector(Files), pieces : Vector(Pieces),
         deadline_pieces : SUBSET Pieces]

\* Torrents with deadlines for these pieces, and policies that raise these.
Torrents(due)    == [metadata : BOOLEAN, files : Vector(Files), pieces : Vector(Pieces),
                     deadlines : [due -> 0..MaxDeadline]]
Policies(raised) == [files : Vector(Files), baseline : Vector(Pieces),
                     raised : [raised -> 0..Top], deviated : BOOLEAN, refused : BOOLEAN]

ResumeData == [files : [Files -> 0..Top], pieces : [Pieces -> 0..Top], settled : BOOLEAN]

\* The types of the state: every vector is empty or has an entry for each file or
\* piece, resume data has them all, and every entry is a priority.
TypeOK ==
    /\ phase \in Phases
    /\ job \in Jobs
    /\ torrent \in Torrents(DOMAIN torrent.deadlines) /\ DOMAIN torrent.deadlines \subseteq Pieces
    /\ policy \in Policies(DOMAIN policy.raised) /\ DOMAIN policy.raised \subseteq Pieces
    /\ resume \in ResumeData \cup {None}
    /\ window \in Windows \cup {None}

\* No refused selection and no unsettled resume data stand between the client and
\* the torrent.
Settled == torrent.metadata /\ ~policy.deviated

(***************************************************************************)
(* Whatever the order of the calls, the engine works to what they asked for, *)
(* as long as none of them was refused and nothing unsettled was restored:   *)
(* the file priorities, each piece at the level of its most important file   *)
(* or at the client's own, and over that only the pieces of the last window  *)
(* ("Pieces beyond the warm window retain their normal selected-file         *)
(* policy").                                                                 *)
(***************************************************************************)
EngineFollowsPolicy == Settled =>
    /\ torrent.files = policy.files
    /\ torrent.pieces = Over(policy.raised, policy.baseline)

\* The selection the completion will verify is the one the engine downloads, after
\* restarts too, unless the client's last call on files was refused.
DesiredMatchesEngine == torrent.metadata /\ ~policy.refused =>
    job.desired = {f \in Files : torrent.files[f] # DontDownload}

(***************************************************************************)
(* The pieces a window reports are those with a byte of the next warm and    *)
(* critical bytes of the file, whatever their sum does to 64 bits, and the   *)
(* plan Swift makes of the same request is the native one.                   *)
(***************************************************************************)
WindowCoversRequest == window # None =>
    LET r == window.request
    IN  /\ window.native = window.swift
        /\ window.native.playback..window.native.warm_last = Ahead(r, r.warm)
        /\ window.native.playback..window.native.critical_last = Ahead(r, r.critical)

(***************************************************************************)
(* The deadlines the client reads back are the critical pieces of the window *)
(* it was last told of; the engine has no other, has them in playback order, *)
(* and has them all unless a refused selection made a later window fail.     *)
(***************************************************************************)
DeadlinesInStep ==
    LET due == DOMAIN torrent.deadlines
    IN  /\ job.deadline_pieces =
              IF window = None THEN {} ELSE Ahead(window.request, window.request.critical)
        /\ due \subseteq job.deadline_pieces
        /\ ~policy.refused => due = job.deadline_pieces
        /\ \A p, q \in due : p <= q => torrent.deadlines[p] <= torrent.deadlines[q]

----------------------------------------------------------------------------
(* What keeps these true: the inductive invariant.                           *)

\* With its metadata the engine has every priority; before, there is no window, and
\* the job of a torrent that still waits for it has nothing but the selection.
MetadataDecides ==
    IF torrent.metadata
    THEN torrent.files \in [Files -> 0..Top] /\ torrent.pieces \in [Pieces -> 0..Top]
    ELSE /\ window = None
         /\ phase = "active" => job.files = Unset /\ job.pieces = Unset

\* What the job has stored, or would derive from what it has, is what the client
\* asked for; pieces are raised only over a stored baseline.
JobFollowsPolicy == Settled =>
    /\ policy.files = IF job.files = Unset THEN Selected(job.desired) ELSE job.files
    /\ policy.baseline = IF job.pieces = Unset THEN FromFiles(policy.files) ELSE job.pieces
    /\ policy.baseline \in [Pieces -> 0..Top]
    /\ job.pieces = Unset => policy.raised = Unset

\* Unless a selection was refused, the engine has the files that the job has stored
\* or would derive.
JobFollowsEngine == torrent.metadata /\ ~policy.refused =>
    torrent.files = IF job.files = Unset THEN Selected(job.desired) ELSE job.files

\* A refused selection is something that no accepted call put there.
RefusedDeviates == policy.refused => policy.deviated

\* The engine, the job and the client's expectation agree: inductive together.
Inv ==
    /\ TypeOK
    /\ MetadataDecides
    /\ JobFollowsPolicy
    /\ JobFollowsEngine
    /\ RefusedDeviates
    /\ EngineFollowsPolicy
    /\ DesiredMatchesEngine
    /\ DeadlinesInStep

(***************************************************************************)
(* What a completion verifies never changes under it.  What the engine       *)
(* downloads does not either, unless a select_files was refused before it:   *)
(* the next window call applies what that left in the job, although "the     *)
(* selected files cannot change during torrent completion".                  *)
(***************************************************************************)
FrozenUnlessRefused == [][
    phase = "completing" /\ phase' = "completing" =>
        /\ job'.desired = job.desired
        /\ policy.refused \/ torrent'.files = torrent.files]_vars
=============================================================================
