---------------------------- MODULE PolicyProofs ----------------------------
(***************************************************************************)
(* Theorems about Priorities: the engine works to the policy that the        *)
(* accepted calls ask for, for every layout, every set of requests and every *)
(* order of the calls.                                                       *)
(***************************************************************************)
EXTENDS PrioritiesProofs

----------------------------------------------------------------------------
(* Vectors.                                                                  *)

\* An empty vector has no entries, and only for an empty torrent is it complete.
LEMMA UnsetFacts ==
    /\ DOMAIN Unset = {}
    /\ \A T : Unset \in [{} -> T]
    /\ \A S, T : Unset \in [S -> T] => S = {}
  BY DEF Unset

LEMMA OverTyped ==
    ASSUME NEW S, NEW T, NEW g \in [S -> T], NEW D, D \subseteq S, NEW f \in [D -> T]
    PROVE  Over(f, g) \in [S -> T]
  BY DEF Over

LEMMA OverNothing ==
    ASSUME NEW S, NEW T, NEW g \in [S -> T]
    PROVE  Over(Unset, g) = g
  BY UnsetFacts DEF Over

LEMMA SelectedTyped ==
    ASSUME NEW desired
    PROVE  /\ Selected(desired) \in [Files -> 0..Top]
           /\ desired \subseteq Files => desired = {f \in Files : Selected(desired)[f] # DontDownload}
  BY DEF Selected, Default, DontDownload, Top

----------------------------------------------------------------------------
(* Pieces and files.                                                         *)

\* The largest of some priorities, one of which is given, is a priority.
LEMMA MaxTyped ==
    ASSUME NEW S, S \subseteq 0..Top, DontDownload \in S
    PROVE  Max(S) \in 0..Top
  <1>1. \E x \in S : \A y \in S : x >= y
    BY DEF Top, DontDownload
  <1>2. Max(S) \in S
    BY <1>1 DEF Max
  <1> QED BY <1>2

LEMMA RunEnds ==
    ASSUME NEW a \in Int, NEW b \in Int, a <= b
    PROVE  Min(a..b) = a /\ Max(a..b) = b
  BY DEF Min, Max

LEMMA FileStored ==
    ASSUME NEW f \in Files
    PROVE  /\ FileAt(f) \in File
           /\ FileAt(f).size > 0 => Stored(FileAt(f))
  BY LayoutAssumption DEF Stored

\* The pieces with a byte of a file are those from its first to its final one.
LEMMA FilePieces ==
    ASSUME NEW f \in Files
    PROVE  /\ FileAt(f).size > 0 =>
                 /\ PiecesOf(f) = FirstPiece(FileAt(f))..FinalPiece(FileAt(f))
                 /\ PiecesOf(f) \subseteq Pieces
                 /\ FirstPiece(FileAt(f)) \in Nat /\ FinalPiece(FileAt(f)) \in Nat
                 /\ FirstPiece(FileAt(f)) <= FinalPiece(FileAt(f))
           /\ FileAt(f).size = 0 => PiecesOf(f) = {}
  <1> DEFINE file == FileAt(f)
  <1>1. file \in File /\ file.offset \in Nat /\ file.size \in Nat
    BY FileStored DEF File
  <1>2. ASSUME file.size > 0
        PROVE  /\ PiecesOf(f) = FirstPiece(file)..FinalPiece(file)
               /\ FirstPiece(file) \in Nat /\ FinalPiece(file) \in Nat
               /\ FirstPiece(file) <= FinalPiece(file)
    <2>1. Stored(file)
      BY <1>2, FileStored
    <2> HIDE DEF file
    <2>2. file.offset + file.size <= MaxOffset /\ MaxOffset \in Nat
      BY <2>1, WidthAssumption DEF Stored
    <2>3. 0 \in 0..(file.size - 1) /\ file.size \in 1..MaxOffset
      BY <1>1, <1>2, <2>2
    <2>4. WindowEnd(file, 0, file.size) = file.size - 1
      BY <1>1, <1>2, <2>1, <2>3, WindowEndExact DEF Lesser
    <2>5. PiecesAhead(file, 0, file.size) = PieceAt(file.offset + 0)..PieceAt(file.offset + (file.size - 1))
      BY <2>1, <2>3, <2>4, AheadIsRun
    <2>6. /\ file.offset + 0 = file.offset
          /\ Int64(file.offset + file.size) - 1 = file.offset + (file.size - 1)
      BY <1>1, <2>2 DEF Int64
    <2>7. /\ FirstPiece(file) = PieceAt(file.offset + 0)
          /\ FinalPiece(file) = PieceAt(file.offset + (file.size - 1))
      BY <2>6, Zenon DEF FirstPiece, FinalPiece
    <2>8. /\ file.offset + 0 \in Nat /\ file.offset + (file.size - 1) \in Nat
          /\ file.offset + 0 <= file.offset + (file.size - 1)
      BY <1>1, <1>2
    <2> QED BY <2>5, <2>7, <2>8, PieceBounds, PieceMonotone DEF PiecesOf, file
  <1>3. ASSUME file.size > 0
        PROVE  PiecesOf(f) \subseteq Pieces
    BY <1>2, <1>3 DEF Pieces
  <1>4. ASSUME file.size = 0
        PROVE  PiecesOf(f) = {}
    BY <1>1, <1>4 DEF PiecesOf, PiecesAhead, Lesser
  <1> QED BY <1>2, <1>3, <1>4

\* The piece priorities that the job derives from the files' are the reference ones.
LEMMA BaselineDerived ==
    ASSUME NEW files \in [Files -> 0..Top]
    PROVE  /\ FromFiles(files) = Baseline(files)
           /\ FromFiles(files) \in [Pieces -> 0..Top]
  <1> DEFINE Covers(f, p) == /\ files[f] # DontDownload /\ FileAt(f).size > 0
                             /\ p \in FirstPiece(FileAt(f))..FinalPiece(FileAt(f))
             S(p) == {DontDownload} \cup {files[f] : f \in {g \in Files : Covers(g, p)}}
             R(p) == {DontDownload} \cup {files[f] : f \in {g \in Files : p \in PiecesOf(g)}}
  <1>1. ASSUME NEW p \in Pieces
        PROVE  S(p) = R(p)
    <2>1. \A g \in Files : Covers(g, p) => p \in PiecesOf(g)
      BY FilePieces
    <2>2. \A g \in Files : p \in PiecesOf(g) => Covers(g, p) \/ files[g] = DontDownload
      <3> TAKE g \in Files
      <3> HAVE p \in PiecesOf(g)
      <3>1. FileAt(g).size \in Nat
        BY FileStored DEF File
      <3> QED BY <3>1, FilePieces
    <2> HIDE DEF Covers
    <2> QED BY <2>1, <2>2
  <1>2. ASSUME NEW p \in Pieces
        PROVE  Max(S(p)) \in 0..Top
    <2>1. S(p) \subseteq 0..Top /\ DontDownload \in S(p)
      BY DEF DontDownload, Top
    <2> QED BY <2>1, MaxTyped
  <1>3. FromFiles(files) = [p \in Pieces |-> Max(S(p))]
    BY DEF FromFiles
  <1>4. Baseline(files) = [p \in Pieces |-> Max(R(p))]
    BY DEF Baseline
  <1> HIDE DEF S, R
  <1>5. FromFiles(files) = Baseline(files)
    BY <1>1, <1>3, <1>4
  <1>6. FromFiles(files) \in [Pieces -> 0..Top]
    BY <1>2, <1>3
  <1> QED BY <1>5, <1>6

----------------------------------------------------------------------------
(* The window.                                                               *)

\* The deadlines of a window's pieces fit an int and keep the order of playback.
LEMMA DeadlineFacts ==
    ASSUME NEW file \in File, NEW at \in Nat, NEW rate \in Nat \ {0},
           NEW p \in Nat, NEW q \in Nat, p <= q
    PROVE  /\ Deadline(file, at, p, rate) \in 0..MaxDeadline
           /\ Deadline(file, at, p, rate) <= Deadline(file, at, q, rate)
  <1> DEFINE x(n) == (Greater(n * PieceLength - file.offset, at) - at) * 1000
  <1>1. file.offset \in Nat
    BY DEF File
  <1>2. p * PieceLength \in Nat /\ q * PieceLength \in Nat /\ p * PieceLength <= q * PieceLength
    BY Multiples
  <1>3. x(p) \in Nat /\ x(q) \in Nat /\ x(p) <= x(q)
    BY <1>1, <1>2 DEF Greater
  <1>4. /\ Deadline(file, at, p, rate) = Lesser(100 + x(p) \div rate, MaxDeadline)
        /\ Deadline(file, at, q, rate) = Lesser(100 + x(q) \div rate, MaxDeadline)
    BY DEF Deadline
  <1> HIDE DEF x
  <1>5. x(p) \div rate \in Nat /\ x(q) \div rate \in Nat /\ x(p) \div rate <= x(q) \div rate
    BY <1>3
  <1>6. MaxDeadline \in Nat
    BY WidthAssumption
  <1> QED BY <1>4, <1>5, <1>6 DEF Lesser

\* The critical bytes are among the warm ones, and those in the file.
LEMMA AheadNested ==
    ASSUME NEW r, r.file \in Files, Admissible(FileAt(r.file), r.at, r.critical, r.warm)
    PROVE  /\ Ahead(r, r.critical) \subseteq Ahead(r, r.warm)
           /\ Ahead(r, r.warm) \subseteq PiecesOf(r.file)
           /\ PiecesOf(r.file) \subseteq Pieces
  <1> DEFINE file == FileAt(r.file)
             end(bytes) == Lesser(file.size, r.at + bytes) - 1
  <1>1. /\ file.size \in Nat /\ file.size > 0 /\ r.at \in Nat
        /\ r.critical \in Nat /\ r.warm \in Nat /\ r.critical <= r.warm
    BY WidthAssumption DEF Admissible, Stored, File
  <1>2. /\ r.at..end(r.critical) \subseteq r.at..end(r.warm)
        /\ r.at..end(r.warm) \subseteq 0..(Lesser(file.size, 0 + file.size) - 1)
    BY <1>1 DEF Lesser
  <1>3. PiecesOf(r.file) \subseteq Pieces
    BY <1>1, FilePieces
  <1> QED BY <1>2, <1>3 DEF Ahead, PiecesOf, PiecesAhead

LEMMA PlansTyped ==
    ASSUME NEW file, NEW at, NEW critical, NEW warm, Admissible(file, at, critical, warm)
    PROVE  /\ NativeWindow(file, at, critical, warm) \in Plan
           /\ SwiftPlan(file, at, critical, warm) \in Plan
  <1> DEFINE c == file.offset + WindowEnd(file, at, critical)
             w == file.offset + WindowEnd(file, at, warm)
             a == file.offset + at
  <1>1. /\ Stored(file) /\ at \in 0..(file.size - 1)
        /\ critical \in 1..MaxOffset /\ warm \in 1..MaxOffset
    BY WidthAssumption DEF Admissible
  <1>2. file.offset \in Nat /\ file.size \in Nat
    BY <1>1 DEF Stored, File
  <1>3. a \in Nat /\ c \in Nat /\ w \in Nat
    BY <1>1, <1>2, WindowEndExact
  <1>4. PieceAt(a) \in Nat /\ PieceAt(c) \in Nat /\ PieceAt(w) \in Nat
    BY <1>3, PieceBounds
  <1>5. [playback |-> PieceAt(a), critical_last |-> PieceAt(c), warm_last |-> PieceAt(w)] \in Plan
    <2> HIDE DEF a, c, w
    <2> QED BY <1>4 DEF Plan
  <1> QED BY <1>5, PlansExact

\* The three passes over the vector come to the priorities that the window asks for.
LEMMA WindowRaises ==
    ASSUME NEW r, r.file \in Files, Admissible(FileAt(r.file), r.at, r.critical, r.warm),
           NEW base \in [Pieces -> 0..Top]
    PROVE  LET file  == FileAt(r.file)
               plan  == NativeWindow(file, r.at, r.critical, r.warm)
               due   == plan.playback..plan.critical_last
               warm  == plan.playback..plan.warm_last
               edges == IF r.edges THEN {FirstPiece(file), FinalPiece(file)} ELSE {}
           IN  /\ due = Ahead(r, r.critical)
               /\ due \subseteq Pieces /\ due \subseteq Nat
               /\ DOMAIN Raised(r) \subseteq Pieces
               /\ Raised(r) \in [DOMAIN Raised(r) -> 0..Top]
               /\ Over(To(due, Top), Over(To(warm, High), Over(To(edges, Top), base)))
                    = Over(Raised(r), base)
  <1> DEFINE file  == FileAt(r.file)
             plan  == NativeWindow(file, r.at, r.critical, r.warm)
             due   == plan.playback..plan.critical_last
             warm  == plan.playback..plan.warm_last
             edges == IF r.edges THEN {FirstPiece(file), FinalPiece(file)} ELSE {}
             all   == PiecesOf(r.file)
             ends  == IF r.edges THEN {Min(all), Max(all)} ELSE {}
  <1>1. file.size > 0
    BY DEF Admissible, Stored
  <1>2. due = Ahead(r, r.critical) /\ warm = Ahead(r, r.warm)
    BY NativeCovers DEF Ahead
  <1>3. due \subseteq warm /\ warm \subseteq Pieces
    BY <1>2, AheadNested
  <1>4. ends = edges /\ edges \subseteq Pieces
    <2>1. /\ all = FirstPiece(file)..FinalPiece(file) /\ all \subseteq Pieces
          /\ FirstPiece(file) \in Int /\ FinalPiece(file) \in Int /\ FirstPiece(file) <= FinalPiece(file)
      BY <1>1, FilePieces
    <2>2. Min(all) = FirstPiece(file) /\ Max(all) = FinalPiece(file)
      BY <2>1, RunEnds
    <2>3. {FirstPiece(file), FinalPiece(file)} \subseteq Pieces
      BY <2>1
    <2> QED BY <2>2, <2>3
  <1>5. due \subseteq Nat
    <2>1. all \subseteq Nat
      BY <1>1, FilePieces
    <2> QED BY <1>2, <2>1, AheadNested
  <1>6. Raised(r) = [p \in edges \cup warm |-> IF p \in warm \ due THEN High ELSE Top]
    BY <1>2, <1>4 DEF Raised
  <1> HIDE DEF due, warm, edges
  <1>7. DOMAIN Raised(r) = edges \cup warm /\ Raised(r) \in [edges \cup warm -> 0..Top]
    BY <1>6 DEF High, Top
  <1>8. Over(To(due, Top), Over(To(warm, High), Over(To(edges, Top), base))) = Over(Raised(r), base)
    BY <1>3, <1>4, <1>6 DEF Over, To
  <1> QED BY <1>2, <1>3, <1>4, <1>5, <1>7, <1>8 DEF due, warm, edges

----------------------------------------------------------------------------
(* apply_selection.                                                          *)

\* The priorities that a job has or would derive.
JobFiles(j)  == IF j.files = Unset THEN Selected(j.desired) ELSE j.files
JobPieces(j) == IF j.pieces = Unset THEN FromFiles(JobFiles(j)) ELSE j.pieces

LEMMA JobTyped ==
    ASSUME NEW j \in Jobs
    PROVE  JobFiles(j) \in [Files -> 0..Top] /\ JobPieces(j) \in [Pieces -> 0..Top]
  <1>1. JobFiles(j) \in [Files -> 0..Top]
    BY SelectedTyped DEF JobFiles, Jobs, Vector
  <1> QED BY <1>1, BaselineDerived DEF JobPieces, Jobs, Vector

LEMMA ApplyEffect ==
    ASSUME NEW j \in Jobs, NEW D, NEW t \in Torrents(D), NEW v, v = [job |-> j, torrent |-> t], Applies(v)
    PROVE  /\ ApplySelection(v).job \in Jobs
           /\ ApplySelection(v).job.desired = j.desired
           /\ ApplySelection(v).job.files = JobFiles(j)
           /\ ApplySelection(v).job.pieces = JobPieces(j)
           /\ ApplySelection(v).job.deadline_pieces = {}
           /\ ApplySelection(v).torrent \in Torrents({})
           /\ ApplySelection(v).torrent.metadata
           /\ ApplySelection(v).torrent.files = JobFiles(j)
           /\ ApplySelection(v).torrent.pieces = JobPieces(j)
           /\ ApplySelection(v).torrent.deadlines = Unset
  <1>1. v.job = j /\ v.torrent = t
    OBVIOUS
  <1>2. ApplySelection(v) =
          [job     |-> [j EXCEPT !.files = JobFiles(j), !.pieces = JobPieces(j), !.deadline_pieces = {}],
           torrent |-> [t EXCEPT !.files = JobFiles(j), !.pieces = JobPieces(j), !.deadlines = Unset]]
    BY <1>1 DEF ApplySelection, JobFiles, JobPieces
  <1>3. t.metadata
    BY <1>1 DEF Applies
  <1>4. JobFiles(j) \in Vector(Files) /\ JobPieces(j) \in Vector(Pieces)
    BY JobTyped DEF Vector
  <1> DEFINE nj == [j EXCEPT !.files = JobFiles(j), !.pieces = JobPieces(j), !.deadline_pieces = {}]
             nt == [t EXCEPT !.files = JobFiles(j), !.pieces = JobPieces(j), !.deadlines = Unset]
  <1>5. /\ nj \in Jobs /\ nj.desired = j.desired /\ nj.files = JobFiles(j) /\ nj.pieces = JobPieces(j)
        /\ nj.deadline_pieces = {}
    BY <1>4 DEF Jobs
  <1>6. /\ nt \in Torrents({}) /\ nt.metadata /\ nt.files = JobFiles(j) /\ nt.pieces = JobPieces(j)
        /\ nt.deadlines = Unset
    BY <1>3, <1>4, UnsetFacts DEF Torrents
  <1> HIDE DEF nj, nt
  <1>7. ApplySelection(v) = [job |-> nj, torrent |-> nt]
    BY <1>2 DEF nj, nt
  <1> QED BY <1>5, <1>6, <1>7

LEMMA ApplyRefused ==
    ASSUME NEW j \in Jobs, NEW D, NEW t \in Torrents(D), NEW v, v = [job |-> j, torrent |-> t], ~Applies(v)
    PROVE  /\ ApplySelection(v).job \in Jobs
           /\ ApplySelection(v).job.desired = j.desired
           /\ ApplySelection(v).job.deadline_pieces = j.deadline_pieces
           /\ ApplySelection(v).torrent = t
  <1>1. v.job = j /\ v.torrent = t
    OBVIOUS
  <1>2. ApplySelection(v) =
          [job     |-> [j EXCEPT !.files = IF t.metadata THEN JobFiles(j) ELSE j.files],
           torrent |-> t]
    BY <1>1 DEF ApplySelection, JobFiles
  <1>3. (IF t.metadata THEN JobFiles(j) ELSE j.files) \in Vector(Files)
    BY JobTyped DEF Vector, Jobs
  <1> DEFINE nj == [j EXCEPT !.files = IF t.metadata THEN JobFiles(j) ELSE j.files]
  <1>4. nj \in Jobs /\ nj.desired = j.desired /\ nj.deadline_pieces = j.deadline_pieces
    BY <1>3 DEF Jobs
  <1> HIDE DEF nj
  <1>5. ApplySelection(v) = [job |-> nj, torrent |-> t]
    BY <1>2 DEF nj
  <1> QED BY <1>4, <1>5

----------------------------------------------------------------------------
(* What keeps the invariant.                                                 *)

\* A complete vector is what it is, or stands for, when it is stored in a job.
LEMMA StoredVector ==
    ASSUME NEW S, NEW T, NEW f \in [S -> T], NEW g \in [S -> T]
    PROVE  f = IF f = Unset THEN g ELSE f
  <1>1. CASE f = Unset
    <2>1. S = {}
      BY <1>1, UnsetFacts
    <2> QED BY <1>1, <2>1
  <1> QED BY <1>1

LEMMA JobStored ==
    ASSUME NEW j \in Jobs, NEW k \in Jobs, k.files = JobFiles(j), k.pieces = JobPieces(j)
    PROVE  JobFiles(k) = JobFiles(j) /\ JobPieces(k) = JobPieces(j)
  <1>1. JobFiles(k) = JobFiles(j)
    BY JobTyped, SelectedTyped, StoredVector DEF JobFiles
  <1>2. JobPieces(k) = JobPieces(j)
    BY <1>1, JobTyped, BaselineDerived, StoredVector DEF JobPieces
  <1> QED BY <1>1, <1>2

\* Unless a selection was refused, apply_selection would not change the engine's files.
LEMMA HeldFacts ==
    ASSUME Inv, torrent.metadata, ~policy.refused
    PROVE  /\ JobFiles(job) = torrent.files /\ torrent.files \in [Files -> 0..Top]
           /\ job.desired \subseteq Files
           /\ job.desired = {f \in Files : JobFiles(job)[f] # DontDownload}
  <1>1. JobFiles(job) = torrent.files
    BY DEF Inv, JobFollowsEngine, JobFiles
  <1>2. torrent.files \in [Files -> 0..Top]
    BY DEF Inv, MetadataDecides
  <1>3. job.desired = {f \in Files : torrent.files[f] # DontDownload}
    BY DEF Inv, DesiredMatchesEngine
  <1> QED BY <1>1, <1>2, <1>3

LEMMA SettledFacts ==
    ASSUME Inv, Settled
    PROVE  /\ JobFiles(job) = policy.files /\ torrent.files = policy.files
           /\ JobPieces(job) = policy.baseline
           /\ policy.files \in [Files -> 0..Top] /\ policy.baseline \in [Pieces -> 0..Top]
           /\ job.desired \subseteq Files
           /\ job.desired = {f \in Files : JobFiles(job)[f] # DontDownload}
  <1>1. /\ JobFiles(job) = policy.files /\ torrent.files = policy.files
        /\ policy.baseline \in [Pieces -> 0..Top]
        /\ job.desired = {f \in Files : torrent.files[f] # DontDownload}
    BY DEF Inv, JobFollowsPolicy, EngineFollowsPolicy, DesiredMatchesEngine, JobFiles,
           RefusedDeviates, Settled
  <1>2. JobPieces(job) = policy.baseline
    BY <1>1 DEF Inv, JobFollowsPolicy, JobPieces
  <1>3. policy.files \in [Files -> 0..Top]
    BY <1>1 DEF Inv, MetadataDecides, Settled
  <1> QED BY <1>1, <1>2, <1>3

\* After a policy that the client cannot rely on, what is left is between the job and
\* the engine.
LEMMA DeviatedStep ==
    ASSUME TypeOK', MetadataDecides', policy'.deviated,
           JobFollowsEngine', DesiredMatchesEngine', DeadlinesInStep'
    PROVE  Inv'
  BY DEF Inv, JobFollowsPolicy, EngineFollowsPolicy, RefusedDeviates, Settled

\* Without metadata nothing is promised but that there are no deadlines.
LEMMA NoMetadataStep ==
    ASSUME TypeOK', MetadataDecides', ~torrent'.metadata, RefusedDeviates', DeadlinesInStep'
    PROVE  Inv'
  BY DEF Inv, JobFollowsPolicy, JobFollowsEngine, EngineFollowsPolicy, DesiredMatchesEngine, Settled

LEMMA DeadlinesKept ==
    ASSUME DeadlinesInStep, torrent'.deadlines = torrent.deadlines,
           job'.deadline_pieces = job.deadline_pieces, window' = window,
           policy.refused => policy'.refused
    PROVE  DeadlinesInStep'
  BY DEF DeadlinesInStep

LEMMA NoDeadlines ==
    ASSUME torrent'.deadlines = Unset, job'.deadline_pieces = {}, window' = None
    PROVE  DeadlinesInStep'
  BY UnsetFacts DEF DeadlinesInStep

\* After apply_selection the engine has what the job has, and no deadlines.
LEMMA AppliedStep ==
    ASSUME NEW j \in Jobs, NEW D, NEW t \in Torrents(D), NEW v, v = [job |-> j, torrent |-> t],
           Applies(v), Commit(ApplySelection(v)), phase' \in Phases, resume' \in ResumeData \cup {None},
           window' = None,
           policy' \in Policies(DOMAIN policy'.raised), DOMAIN policy'.raised \subseteq Pieces,
           RefusedDeviates',
           ~policy'.refused => j.desired = {f \in Files : JobFiles(j)[f] # DontDownload},
           ~policy'.deviated =>
              /\ policy'.files = JobFiles(j) /\ policy'.baseline = JobPieces(j)
              /\ policy'.raised = Unset
    PROVE  Inv'
  <1>1. /\ job' \in Jobs /\ job'.desired = j.desired /\ job'.files = JobFiles(j)
        /\ job'.pieces = JobPieces(j) /\ job'.deadline_pieces = {}
        /\ torrent' \in Torrents({}) /\ torrent'.metadata /\ torrent'.files = JobFiles(j)
        /\ torrent'.pieces = JobPieces(j) /\ torrent'.deadlines = Unset
    BY ApplyEffect DEF Commit
  <1>2. JobFiles(j) \in [Files -> 0..Top] /\ JobPieces(j) \in [Pieces -> 0..Top]
    BY JobTyped
  <1>3. TypeOK'
    BY <1>1, UnsetFacts DEF TypeOK
  <1>4. MetadataDecides'
    BY <1>1, <1>2 DEF MetadataDecides
  <1>5. JobFiles(job') = JobFiles(j) /\ JobPieces(job') = JobPieces(j)
    BY <1>1, JobStored
  <1>6. JobFollowsEngine' /\ DesiredMatchesEngine' /\ DeadlinesInStep'
    <2>1. JobFollowsEngine'
      BY <1>1, <1>5 DEF JobFollowsEngine, JobFiles
    <2>2. DesiredMatchesEngine'
      BY <1>1 DEF DesiredMatchesEngine
    <2> QED BY <1>1, <2>1, <2>2, NoDeadlines
  <1>7. CASE policy'.deviated
    BY <1>3, <1>4, <1>6, <1>7, DeviatedStep
  <1>8. CASE ~policy'.deviated
    <2>1. JobFiles(job') = policy'.files /\ JobPieces(job') = policy'.baseline
      BY <1>5, <1>8
    <2>2. JobFollowsPolicy'
      <3>1. policy'.files = IF job'.files = Unset THEN Selected(job'.desired) ELSE job'.files
        BY <2>1 DEF JobFiles
      <3>2. policy'.baseline = IF job'.pieces = Unset THEN FromFiles(policy'.files) ELSE job'.pieces
        BY <2>1 DEF JobPieces
      <3> QED BY <1>2, <1>8, <3>1, <3>2 DEF JobFollowsPolicy
    <2>3. EngineFollowsPolicy'
      <3>1. Over(policy'.raised, policy'.baseline) = policy'.baseline
        BY <1>2, <1>8, OverNothing
      <3> QED BY <1>1, <1>8, <3>1 DEF EngineFollowsPolicy
    <2> QED BY <1>3, <1>4, <1>6, <2>2, <2>3 DEF Inv
  <1> QED BY <1>7, <1>8

LEMMA AgreedTyped ==
    ASSUME NEW files \in [Files -> 0..Top]
    PROVE  /\ Agreed(files) \in Policies({}) /\ ~Agreed(files).deviated /\ ~Agreed(files).refused
           /\ Agreed(files).files = files /\ Agreed(files).baseline = FromFiles(files)
           /\ Agreed(files).raised = Unset /\ DOMAIN Agreed(files).raised = {}
  <1>1. FromFiles(files) = Baseline(files) /\ FromFiles(files) \in [Pieces -> 0..Top]
    BY BaselineDerived
  <1> QED BY <1>1, UnsetFacts DEF Agreed, NoPolicy, Policies, Vector

LEMMA NothingTyped ==
    /\ NoJob \in Jobs
    /\ NoTorrent \in Torrents({}) /\ DOMAIN NoTorrent.deadlines = {} /\ ~NoTorrent.metadata
  BY UnsetFacts DEF NoJob, NoTorrent, Jobs, Torrents, Vector

LEMMA DeviatedTyped ==
    /\ Deviated \in Policies({}) /\ Deviated.deviated /\ DOMAIN Deviated.raised = {}
    /\ NoPolicy \in Policies({}) /\ DOMAIN NoPolicy.raised = {}
    /\ ~Deviated.refused /\ ~NoPolicy.refused
    /\ LET refused == [Deviated EXCEPT !.refused = TRUE]
       IN  refused \in Policies({}) /\ refused.deviated /\ refused.refused /\ DOMAIN refused.raised = {}
  BY UnsetFacts DEF Deviated, NoPolicy, Policies, Vector

----------------------------------------------------------------------------
(* The calls.                                                                *)

LEMMA SelectFilesStep ==
    ASSUME Inv, NEW s \in Selections \ {None}, SelectFiles(s)
    PROVE  Inv'
  <1> DEFINE j == [job EXCEPT !.desired = s, !.files = Unset, !.pieces = Unset]
             D == DOMAIN torrent.deadlines
  <1>1. TypeOK /\ MetadataDecides
    BY DEF Inv
  <1>2. /\ Applies(Storing(s)) /\ Commit(ApplySelection(Storing(s)))
        /\ policy' = Agreed(Selected(s)) /\ window' = None /\ UNCHANGED <<phase, resume>>
    BY DEF SelectFiles
  <1>3. s \subseteq 0..Len(Sizes)
    BY RequestsAssumption
  <1>4. j \in Jobs /\ j.desired = s /\ j.files = Unset /\ j.pieces = Unset
    BY <1>1, <1>3 DEF TypeOK, Jobs, Vector
  <1>5. torrent \in Torrents(D) /\ Storing(s) = [job |-> j, torrent |-> torrent]
    <2>1. Storing(s) = [job |-> j, torrent |-> torrent]
      BY DEF Storing, View
    <2> QED BY <1>1, <2>1 DEF TypeOK
  <1> HIDE DEF j
  <1>6. s \subseteq Files
    BY <1>2, <1>4, <1>5 DEF Applies
  <1>7. JobFiles(j) = Selected(s) /\ JobPieces(j) = FromFiles(Selected(s))
    BY <1>4 DEF JobFiles, JobPieces
  <1>8. Selected(s) \in [Files -> 0..Top] /\ s = {f \in Files : Selected(s)[f] # DontDownload}
    BY <1>6, SelectedTyped
  <1>9. /\ policy' \in Policies(DOMAIN policy'.raised) /\ DOMAIN policy'.raised \subseteq Pieces
        /\ policy'.files = Selected(s) /\ policy'.baseline = FromFiles(Selected(s)) /\ policy'.raised = Unset
        /\ RefusedDeviates'
    BY <1>2, <1>8, AgreedTyped DEF RefusedDeviates
  <1> QED BY <1>1, <1>2, <1>4, <1>5, <1>7, <1>8, <1>9, AppliedStep DEF TypeOK

LEMMA SelectFilesRejectedStep ==
    ASSUME Inv, NEW s \in Selections \ {None}, NEW missing \in BOOLEAN, SelectFilesRejected(s, missing)
    PROVE  Inv'
  <1> DEFINE j == [job EXCEPT !.desired = s, !.files = Unset, !.pieces = Unset]
             D == DOMAIN torrent.deadlines
  <1>1. TypeOK /\ MetadataDecides
    BY DEF Inv
  <1>2. /\ missing \/ ~Applies(Storing(s))
        /\ Commit(IF missing THEN Storing(s) ELSE ApplySelection(Storing(s)))
        /\ policy' = [Deviated EXCEPT !.refused = TRUE] /\ UNCHANGED <<phase, resume, window>>
        /\ torrent.metadata
    BY DEF SelectFilesRejected, MayReselect
  <1>3. s \subseteq 0..Len(Sizes)
    BY RequestsAssumption
  <1>4. j \in Jobs /\ j.deadline_pieces = job.deadline_pieces
    BY <1>1, <1>3 DEF TypeOK, Jobs, Vector
  <1>5. torrent \in Torrents(D) /\ Storing(s) = [job |-> j, torrent |-> torrent]
    <2>1. Storing(s) = [job |-> j, torrent |-> torrent]
      BY DEF Storing, View
    <2> QED BY <1>1, <2>1 DEF TypeOK
  <1> HIDE DEF j
  <1>6. job' \in Jobs /\ torrent' = torrent /\ job'.deadline_pieces = job.deadline_pieces
    BY <1>2, <1>4, <1>5, ApplyRefused DEF Commit
  <1>7. TypeOK'
    BY <1>1, <1>2, <1>6, DeviatedTyped DEF TypeOK
  <1>8. MetadataDecides'
    BY <1>1, <1>2, <1>6 DEF MetadataDecides
  <1>9. policy'.deviated /\ policy'.refused
    BY <1>2, DeviatedTyped
  <1>10. JobFollowsEngine' /\ DesiredMatchesEngine'
    BY <1>9 DEF JobFollowsEngine, DesiredMatchesEngine
  <1>11. DeadlinesInStep'
    BY <1>2, <1>6, <1>9, DeadlinesKept DEF Inv
  <1> QED BY <1>7, <1>8, <1>9, <1>10, <1>11, DeviatedStep

LEMMA SetFilePriorityStep ==
    ASSUME Inv, NEW f \in Files, NEW level \in FileLevels, SetFilePriority(f, level)
    PROVE  Inv'
  <1> DEFINE kept  == IF job.files = Unset THEN torrent.files ELSE job.files
             files == [kept EXCEPT ![f] = level]
             want  == {g \in Files : files[g] # DontDownload}
             v     == [View EXCEPT !.job = [job EXCEPT !.files = files, !.desired = want, !.pieces = Unset]]
             j     == [job EXCEPT !.files = files, !.desired = want, !.pieces = Unset]
             D     == DOMAIN torrent.deadlines
  <1>1. TypeOK /\ MetadataDecides
    BY DEF Inv
  <1>2. /\ phase = "active" /\ torrent.metadata
        /\ Commit(ApplySelection(v))
        /\ policy' = IF policy.deviated THEN Deviated ELSE Agreed([policy.files EXCEPT ![f] = level])
        /\ window' = None /\ UNCHANGED <<phase, resume>>
    BY DEF SetFilePriority, MayReselect
  <1>3. level \in 0..Top
    BY LevelsAssumption DEF Top
  <1>4. torrent.files \in [Files -> 0..Top] /\ kept \in [Files -> 0..Top]
    BY <1>1, <1>2 DEF TypeOK, Jobs, Vector, MetadataDecides
  <1>5. v = [job |-> j, torrent |-> torrent] /\ torrent \in Torrents(D)
    <2> HIDE DEF files, want
    <2>1. v = [job |-> j, torrent |-> torrent]
      BY DEF View
    <2> QED BY <1>1, <2>1 DEF TypeOK
  <1>6. Settled => kept = policy.files
    <2> HAVE Settled
    <2>1. JobFiles(job) = policy.files /\ torrent.files = policy.files
      BY SettledFacts
    <2> QED BY <2>1 DEF JobFiles
  <1> HIDE DEF kept
  <1>7. files \in [Files -> 0..Top]
    BY <1>3, <1>4
  <1>8. Settled => [policy.files EXCEPT ![f] = level] = files
    BY <1>6
  <1> HIDE DEF files
  <1>9. files # Unset
    BY <1>7, UnsetFacts
  <1>10. want \subseteq 0..Len(Sizes)
    BY SizesAssumption DEF Files
  <1>11. j \in Jobs /\ j.files = files /\ j.desired = want /\ j.pieces = Unset
    <2> HIDE DEF want
    <2> QED BY <1>1, <1>7, <1>10 DEF TypeOK, Jobs, Vector
  <1> HIDE DEF j, v
  <1>12. Applies(v)
    BY <1>2, <1>5, <1>9, <1>11 DEF Applies
  <1>13. JobFiles(j) = files /\ JobPieces(j) = FromFiles(files)
    BY <1>9, <1>11 DEF JobFiles, JobPieces
  <1>14. ~policy.deviated => policy' = Agreed(files)
    BY <1>2, <1>8 DEF Settled
  <1>15. policy.deviated => policy' = Deviated
    BY <1>2
  <1>16. /\ policy' \in Policies(DOMAIN policy'.raised) /\ DOMAIN policy'.raised \subseteq Pieces
         /\ ~policy'.deviated => policy'.files = files /\ policy'.baseline = FromFiles(files)
                                 /\ policy'.raised = Unset
         /\ ~policy'.refused
    <2>1. CASE policy.deviated
      BY <1>15, <2>1, DeviatedTyped
    <2>2. CASE ~policy.deviated
      BY <1>7, <1>14, <2>2, AgreedTyped
    <2> QED BY <2>1, <2>2
  <1>17. RefusedDeviates'
    BY <1>16 DEF RefusedDeviates
  <1> QED BY <1>1, <1>2, <1>5, <1>11, <1>12, <1>13, <1>16, <1>17, AppliedStep DEF TypeOK

LEMMA ClearStreamingWindowStep ==
    ASSUME Inv, ClearStreamingWindow
    PROVE  Inv'
  <1> DEFINE j == [job EXCEPT !.deadline_pieces = {}]
             t == [torrent EXCEPT !.deadlines = Unset]
             v == [job |-> j, torrent |-> t]
             p == [policy EXCEPT !.raised = Unset]
  <1>1. TypeOK /\ MetadataDecides
    BY DEF Inv
  <1>2. /\ torrent.metadata /\ Commit(ApplySelection(v)) /\ Expect(p)
        /\ window' = None /\ UNCHANGED <<phase, resume>>
    BY DEF ClearStreamingWindow
  <1>3. /\ j \in Jobs /\ j.desired = job.desired /\ j.files = job.files /\ j.pieces = job.pieces
        /\ j.deadline_pieces = {}
    BY <1>1 DEF TypeOK, Jobs
  <1>4. /\ t \in Torrents({}) /\ t.metadata /\ t.files = torrent.files /\ t.pieces = torrent.pieces
        /\ t.deadlines = Unset
    BY <1>1, <1>2, UnsetFacts DEF TypeOK, Torrents
  <1>5. /\ p \in Policies({}) /\ p.files = policy.files /\ p.baseline = policy.baseline
        /\ p.raised = Unset /\ DOMAIN p.raised = {} /\ p.deviated = policy.deviated
        /\ p.refused = policy.refused
    BY <1>1, UnsetFacts DEF TypeOK, Policies
  <1> HIDE DEF j, t, p
  <1>6. JobFiles(j) = JobFiles(job) /\ JobPieces(j) = JobPieces(job)
    BY <1>3 DEF JobFiles, JobPieces
  <1>7. policy' = IF policy.deviated THEN policy ELSE p
    BY <1>2 DEF Expect
  <1>8. /\ policy' \in Policies(DOMAIN policy'.raised) /\ DOMAIN policy'.raised \subseteq Pieces
        /\ policy'.deviated = policy.deviated /\ policy'.refused = policy.refused
    BY <1>1, <1>5, <1>7 DEF TypeOK
  <1>9. CASE Applies(v)
    <2>1. ASSUME ~policy'.deviated
          PROVE  /\ policy'.files = JobFiles(j) /\ policy'.baseline = JobPieces(j)
                 /\ policy'.raised = Unset
      BY <1>2, <1>5, <1>6, <1>7, <1>8, <2>1, SettledFacts DEF Settled
    <2>2. ASSUME ~policy'.refused
          PROVE  j.desired = {f \in Files : JobFiles(j)[f] # DontDownload}
      BY <1>2, <1>3, <1>6, <1>8, <2>2, HeldFacts
    <2>3. RefusedDeviates'
      BY <1>8 DEF Inv, RefusedDeviates
    <2> QED BY <1>1, <1>2, <1>3, <1>4, <1>8, <1>9, <2>1, <2>2, <2>3, AppliedStep DEF TypeOK
  <1>10. CASE ~Applies(v)
    <2>1. policy.refused /\ policy.deviated
      <3>1. policy.refused
        <4> SUFFICES ASSUME ~policy.refused
                     PROVE  FALSE
          BY <1>1 DEF TypeOK, Policies
        <4>1. job.desired \subseteq Files
          BY <1>2, HeldFacts
        <4> QED BY <1>3, <1>4, <1>10, <4>1 DEF Applies
      <3> QED BY <3>1 DEF Inv, RefusedDeviates
    <2>2. job' \in Jobs /\ torrent' = t /\ job'.deadline_pieces = {}
      BY <1>2, <1>3, <1>4, <1>10, ApplyRefused DEF Commit
    <2>3. TypeOK'
      BY <1>1, <1>2, <1>4, <1>8, <2>2, UnsetFacts DEF TypeOK
    <2>4. MetadataDecides'
      BY <1>1, <1>2, <1>4, <2>2 DEF MetadataDecides
    <2>5. JobFollowsEngine' /\ DesiredMatchesEngine'
      BY <1>8, <2>1 DEF JobFollowsEngine, DesiredMatchesEngine
    <2>6. DeadlinesInStep'
      BY <1>2, <1>4, <2>2, NoDeadlines
    <2> QED BY <1>8, <2>1, <2>3, <2>4, <2>5, <2>6, DeviatedStep
  <1> QED BY <1>9, <1>10

LEMMA SetPiecePriorityStep ==
    ASSUME Inv, NEW p \in Pieces, NEW level \in PieceLevels, SetPiecePriority(p, level)
    PROVE  Inv'
  <1> DEFINE kept   == IF job.pieces = Unset THEN torrent.pieces ELSE job.pieces
             pieces == [kept EXCEPT ![p] = level]
             engine == [torrent.pieces EXCEPT ![p] = level]
             base   == [policy.baseline EXCEPT ![p] = level]
             up     == [q \in DOMAIN policy.raised \ {p} |-> policy.raised[q]]
             want   == [policy EXCEPT !.baseline = base, !.raised = up]
  <1>1. TypeOK /\ MetadataDecides
    BY DEF Inv
  <1>2. /\ torrent.metadata /\ UNCHANGED <<phase, resume, window>>
        /\ job' = [job EXCEPT !.pieces = pieces]
        /\ torrent' = [torrent EXCEPT !.pieces = engine]
        /\ Expect(want)
    BY DEF SetPiecePriority
  <1>3. level \in 0..Top
    BY LevelsAssumption DEF Top
  <1>4. torrent.pieces \in [Pieces -> 0..Top] /\ kept \in [Pieces -> 0..Top]
    BY <1>1, <1>2 DEF TypeOK, Jobs, Vector, MetadataDecides
  <1>5. pieces \in [Pieces -> 0..Top] /\ engine \in [Pieces -> 0..Top] /\ pieces # Unset
    <2> HIDE DEF kept
    <2> QED BY <1>3, <1>4, UnsetFacts
  <1>6. Settled =>
           /\ policy.baseline \in [Pieces -> 0..Top]
           /\ kept = policy.baseline
           /\ torrent.pieces = Over(policy.raised, policy.baseline)
    <2> HAVE Settled
    <2>1. /\ policy.baseline \in [Pieces -> 0..Top]
          /\ policy.baseline = IF job.pieces = Unset THEN FromFiles(policy.files) ELSE job.pieces
          /\ job.pieces = Unset => policy.raised = Unset
          /\ torrent.pieces = Over(policy.raised, policy.baseline)
      BY DEF Inv, JobFollowsPolicy, EngineFollowsPolicy
    <2> QED BY <2>1, OverNothing
  <1> HIDE DEF kept
  <1>7. policy \in Policies(DOMAIN policy.raised) /\ DOMAIN policy.raised \subseteq Pieces
    BY <1>1 DEF TypeOK
  <1>8. DOMAIN up = DOMAIN policy.raised \ {p} /\ up \in [DOMAIN policy.raised \ {p} -> 0..Top]
    BY <1>7 DEF Policies
  <1>9. Settled => base \in [Pieces -> 0..Top] /\ base = pieces /\ engine = Over(up, base)
    <2> HAVE Settled
    <2>1. base \in [Pieces -> 0..Top] /\ base = pieces
      BY <1>3, <1>6
    <2>2. engine = Over(up, base)
      BY <1>3, <1>6, <1>7 DEF Over
    <2> QED BY <2>1, <2>2
  <1> HIDE DEF pieces, engine, base, up
  <1>10. /\ job' \in Jobs /\ job'.desired = job.desired /\ job'.files = job.files
         /\ job'.pieces = pieces /\ job'.deadline_pieces = job.deadline_pieces
    BY <1>1, <1>2, <1>5 DEF TypeOK, Jobs, Vector
  <1>11. /\ torrent' \in Torrents(DOMAIN torrent.deadlines) /\ torrent'.metadata
         /\ torrent'.files = torrent.files /\ torrent'.pieces = engine
         /\ torrent'.deadlines = torrent.deadlines
    BY <1>1, <1>2, <1>5 DEF TypeOK, Torrents, Vector
  <1>12. Settled =>
           /\ want \in Policies(DOMAIN want.raised) /\ DOMAIN want.raised \subseteq Pieces
           /\ want.files = policy.files /\ want.baseline = base /\ want.raised = up
           /\ want.deviated = policy.deviated /\ want.refused = policy.refused
    BY <1>7, <1>8, <1>9 DEF Policies, Vector
  <1> HIDE DEF want
  <1>13. policy' = IF policy.deviated THEN policy ELSE want
    BY <1>2 DEF Expect
  <1>14. TypeOK'
    BY <1>1, <1>2, <1>10, <1>11, <1>12, <1>13 DEF TypeOK, Settled
  <1>15. MetadataDecides'
    BY <1>1, <1>2, <1>5, <1>11 DEF MetadataDecides
  <1>16. policy'.refused = policy.refused /\ policy'.deviated = policy.deviated
    BY <1>2, <1>12, <1>13 DEF Settled
  <1>17. JobFollowsEngine' /\ DesiredMatchesEngine'
    <2>1. JobFollowsEngine'
      BY <1>2, <1>10, <1>11, <1>16 DEF Inv, JobFollowsEngine
    <2> QED BY <1>2, <1>10, <1>11, <1>16, <2>1 DEF Inv, DesiredMatchesEngine
  <1>18. DeadlinesInStep'
    BY <1>2, <1>10, <1>11, <1>16, DeadlinesKept DEF Inv
  <1>19. CASE policy.deviated
    BY <1>14, <1>15, <1>16, <1>17, <1>18, <1>19, DeviatedStep
  <1>20. CASE ~policy.deviated
    <2>1. Settled
      BY <1>2, <1>20 DEF Settled
    <2>2. /\ policy'.files = policy.files /\ policy'.baseline = base /\ policy'.raised = up
      BY <1>12, <1>13, <1>20, <2>1
    <2>3. JobFollowsPolicy'
      BY <1>5, <1>9, <1>10, <2>1, <2>2 DEF Inv, JobFollowsPolicy
    <2>4. EngineFollowsPolicy'
      BY <1>9, <1>10, <1>11, <2>1, <2>2 DEF Inv, EngineFollowsPolicy
    <2>5. RefusedDeviates'
      BY <1>16 DEF Inv, RefusedDeviates
    <2> QED BY <1>14, <1>15, <1>17, <1>18, <2>3, <2>4, <2>5 DEF Inv
  <1> QED BY <1>19, <1>20

LEMMA CompletionSteps ==
    ASSUME Inv, phase' \in Phases, phase' = "active" => phase = "active",
           UNCHANGED <<job, torrent, resume, policy, window>>
    PROVE  Inv'
  <1>1. TypeOK' /\ MetadataDecides'
    BY DEF Inv, TypeOK, MetadataDecides
  <1>2. JobFollowsPolicy' /\ EngineFollowsPolicy'
    BY DEF Inv, JobFollowsPolicy, EngineFollowsPolicy, Settled
  <1>3. JobFollowsEngine' /\ DesiredMatchesEngine' /\ RefusedDeviates'
    BY DEF Inv, JobFollowsEngine, DesiredMatchesEngine, RefusedDeviates
  <1>4. DeadlinesInStep'
    BY DeadlinesKept DEF Inv
  <1> QED BY <1>1, <1>2, <1>3, <1>4 DEF Inv

LEMMA RemoveStep ==
    ASSUME Inv, NEW saved \in BOOLEAN, Remove(saved)
    PROVE  Inv'
  <1>1. TypeOK /\ MetadataDecides
    BY DEF Inv
  <1>2. /\ saved => torrent.metadata
        /\ resume' = IF saved
                     THEN [files |-> torrent.files, pieces |-> torrent.pieces,
                           settled |-> ~policy.deviated /\ policy.raised = Unset]
                     ELSE None
        /\ phase' = "absent" /\ job' = NoJob /\ torrent' = NoTorrent /\ policy' = NoPolicy /\ window' = None
    BY DEF Remove
  <1>3. resume' \in ResumeData \cup {None}
    <2>1. saved => torrent.files \in [Files -> 0..Top] /\ torrent.pieces \in [Pieces -> 0..Top]
      BY <1>1, <1>2 DEF MetadataDecides
    <2>2. (~policy.deviated /\ policy.raised = Unset) \in BOOLEAN
      OBVIOUS
    <2> QED BY <1>2, <2>1, <2>2 DEF ResumeData
  <1>4. TypeOK'
    BY <1>2, <1>3, NothingTyped, DeviatedTyped DEF TypeOK, Phases
  <1>5. MetadataDecides' /\ ~torrent'.metadata
    BY <1>2, NothingTyped DEF MetadataDecides
  <1>6. RefusedDeviates'
    BY <1>2, DeviatedTyped DEF RefusedDeviates
  <1>7. DeadlinesInStep'
    BY <1>2, NoDeadlines DEF NoJob, NoTorrent
  <1> QED BY <1>4, <1>5, <1>6, <1>7, NoMetadataStep

LEMMA UpdateStreamingWindowStep ==
    ASSUME Inv, NEW r \in Requests, UpdateStreamingWindow(r)
    PROVE  Inv'
  <1> DEFINE file  == FileAt(r.file)
             t     == [torrent EXCEPT !.deadlines = Unset]
             start == [View EXCEPT !.torrent.deadlines = Unset]
             v     == ApplySelection(start)
             plan  == NativeWindow(file, r.at, r.critical, r.warm)
             due   == plan.playback..plan.critical_last
             warm  == plan.playback..plan.warm_last
             edges == IF r.edges THEN {FirstPiece(file), FinalPiece(file)} ELSE {}
             base  == JobPieces(job)
             over  == Over(To(due, Top), Over(To(warm, High), Over(To(edges, Top), base)))
             dl    == [p \in due |-> Deadline(file, r.at, p, r.rate)]
             want  == [policy EXCEPT !.raised = Raised(r)]
  <1>1. TypeOK /\ MetadataDecides
    BY DEF Inv
  <1>2. /\ torrent.metadata /\ r.file \in job.desired /\ r.file \in Files
        /\ Admissible(file, r.at, r.critical, r.warm) /\ UNCHANGED <<phase, resume>>
    BY DEF UpdateStreamingWindow
  <1>3. start = [job |-> job, torrent |-> t]
    BY DEF View
  <1>4. job \in Jobs
    BY <1>1 DEF TypeOK
  <1>5. /\ t \in Torrents({}) /\ t.metadata /\ t.files = torrent.files /\ t.pieces = torrent.pieces
        /\ t.deadlines = Unset
    BY <1>1, <1>2, UnsetFacts DEF TypeOK, Torrents
  <1>6. Applies(start) <=> Applies(View)
    BY <1>2, <1>3, <1>5 DEF Applies, View
  <1> HIDE DEF t, start
  <1>7. CASE ~Applies(View)
    <2>1. Commit(v) /\ UNCHANGED <<policy, window>>
      BY <1>7 DEF UpdateStreamingWindow, start
    <2>2. policy.refused /\ policy.deviated
      <3>1. policy.refused
        <4> SUFFICES ASSUME ~policy.refused
                     PROVE  FALSE
          BY <1>1 DEF TypeOK, Policies
        <4>1. job.desired \subseteq Files
          BY <1>2, HeldFacts
        <4> QED BY <1>2, <1>7, <4>1 DEF Applies, View
      <3> QED BY <3>1 DEF Inv, RefusedDeviates
    <2>3. job' \in Jobs /\ torrent' = t /\ job'.deadline_pieces = job.deadline_pieces
      BY <1>3, <1>4, <1>5, <1>6, <1>7, <2>1, ApplyRefused DEF Commit
    <2>4. TypeOK'
      BY <1>1, <1>2, <1>5, <2>1, <2>3, UnsetFacts DEF TypeOK
    <2>5. MetadataDecides'
      BY <1>1, <1>2, <1>5, <2>1, <2>3 DEF MetadataDecides
    <2>6. JobFollowsEngine' /\ DesiredMatchesEngine'
      BY <2>1, <2>2 DEF JobFollowsEngine, DesiredMatchesEngine
    <2>7. DeadlinesInStep'
      BY <1>5, <2>1, <2>2, <2>3, UnsetFacts DEF Inv, DeadlinesInStep
    <2> QED BY <2>1, <2>2, <2>4, <2>5, <2>6, <2>7, DeviatedStep
  <1>8. CASE Applies(View)
    <2>1. /\ job' = [v.job EXCEPT !.deadline_pieces = due]
          /\ torrent' = [v.torrent EXCEPT
                !.pieces    = Over(To(due, Top), Over(To(warm, High), Over(To(edges, Top), v.torrent.pieces))),
                !.deadlines = dl]
          /\ window' = [request |-> r, native |-> plan,
                        swift |-> SwiftPlan(file, r.at, r.critical, r.warm)]
          /\ Expect(want)
      BY <1>8 DEF UpdateStreamingWindow, start
    <2>2. /\ v.job \in Jobs /\ v.job.desired = job.desired /\ v.job.files = JobFiles(job)
          /\ v.job.pieces = base /\ v.torrent \in Torrents({}) /\ v.torrent.metadata
          /\ v.torrent.files = JobFiles(job) /\ v.torrent.pieces = base
      BY <1>3, <1>4, <1>5, <1>6, <1>8, ApplyEffect
    <2>3. base \in [Pieces -> 0..Top] /\ JobFiles(job) \in [Files -> 0..Top]
      BY <1>4, JobTyped
    <2>4. /\ due = Ahead(r, r.critical) /\ due \subseteq Pieces /\ due \subseteq Nat
          /\ DOMAIN Raised(r) \subseteq Pieces /\ Raised(r) \in [DOMAIN Raised(r) -> 0..Top]
          /\ over = Over(Raised(r), base)
      BY <1>2, <2>3, WindowRaises
    <2>5. over \in [Pieces -> 0..Top]
      <3> HIDE DEF over, base
      <3> QED BY <2>3, <2>4, OverTyped
    <2>6. /\ dl \in [due -> 0..MaxDeadline] /\ DOMAIN dl = due
          /\ \A p, q \in due : p <= q => dl[p] <= dl[q]
      <3>1. file \in File /\ r.at \in Nat /\ r.rate \in Nat \ {0}
        BY <1>2, RequestsAssumption DEF Admissible, Stored, File
      <3> HIDE DEF file, due
      <3>2. \A p \in due : Deadline(file, r.at, p, r.rate) \in 0..MaxDeadline
        BY <2>4, <3>1, DeadlineFacts
      <3>3. \A p, q \in due : p <= q => Deadline(file, r.at, p, r.rate) <= Deadline(file, r.at, q, r.rate)
        BY <2>4, <3>1, DeadlineFacts
      <3> QED BY <3>2, <3>3
    <2>7. window' \in Windows /\ window' # None /\ window'.request = r
      <3>1. plan \in Plan /\ SwiftPlan(file, r.at, r.critical, r.warm) \in Plan
        BY <1>2, PlansTyped
      <3> HIDE DEF plan
      <3> QED BY <2>1, <3>1, NoneAssumption DEF Windows
    <2> HIDE DEF v, due, base, over, dl
    <2>8. /\ job' \in Jobs /\ job'.desired = job.desired /\ job'.files = JobFiles(job)
          /\ job'.pieces = base /\ job'.deadline_pieces = due
      BY <2>1, <2>2, <2>4 DEF Jobs
    <2>9. /\ torrent' \in Torrents(due) /\ torrent'.metadata /\ torrent'.files = JobFiles(job)
          /\ torrent'.pieces = over /\ torrent'.deadlines = dl
      BY <2>1, <2>2, <2>5, <2>6 DEF Torrents, Vector, over
    <2>10. /\ want \in Policies(DOMAIN Raised(r)) /\ want.files = policy.files
           /\ want.baseline = policy.baseline /\ want.raised = Raised(r) /\ want.deviated = policy.deviated
           /\ want.refused = policy.refused
      BY <1>1, <2>4 DEF TypeOK, Policies
    <2> HIDE DEF want
    <2>11. policy' = IF policy.deviated THEN policy ELSE want
      BY <2>1 DEF Expect
    <2>12. TypeOK'
      BY <1>1, <1>2, <2>4, <2>6, <2>7, <2>8, <2>9, <2>10, <2>11 DEF TypeOK
    <2>13. MetadataDecides'
      BY <2>3, <2>5, <2>9 DEF MetadataDecides
    <2>14. policy'.refused = policy.refused /\ policy'.deviated = policy.deviated
      BY <2>10, <2>11
    <2>15. JobFiles(job') = JobFiles(job) /\ JobPieces(job') = base
      BY <1>4, <2>8, JobStored DEF base
    <2>16. JobFollowsEngine' /\ DesiredMatchesEngine'
      <3>1. JobFollowsEngine'
        BY <2>9, <2>15 DEF JobFollowsEngine, JobFiles
      <3>2. DesiredMatchesEngine'
        BY <1>2, <2>8, <2>9, <2>14, HeldFacts DEF DesiredMatchesEngine
      <3> QED BY <3>1, <3>2
    <2>17. DeadlinesInStep'
      BY <2>4, <2>6, <2>7, <2>8, <2>9 DEF DeadlinesInStep
    <2>18. CASE policy.deviated
      BY <2>12, <2>13, <2>14, <2>16, <2>17, <2>18, DeviatedStep
    <2>19. CASE ~policy.deviated
      <3>1. Settled
        BY <1>2, <2>19 DEF Settled
      <3>2. /\ JobFiles(job) = policy.files /\ base = policy.baseline
            /\ job.desired = {f \in Files : JobFiles(job)[f] # DontDownload}
        BY <3>1, SettledFacts DEF base
      <3>3. /\ policy'.files = policy.files /\ policy'.baseline = policy.baseline
            /\ policy'.raised = Raised(r)
        BY <2>10, <2>11, <2>19
      <3>4. JobFollowsPolicy'
        <4>1. policy'.files = IF job'.files = Unset THEN Selected(job'.desired) ELSE job'.files
          BY <2>15, <3>2, <3>3 DEF JobFiles
        <4>2. policy'.baseline = IF job'.pieces = Unset THEN FromFiles(policy'.files) ELSE job'.pieces
          BY <2>15, <3>2, <3>3 DEF JobPieces
        <4>3. job'.pieces # Unset
          <5>1. r.file \in Files /\ FileAt(r.file).size > 0
            BY <1>2 DEF Admissible, Stored
          <5>2. Pieces # {}
            BY <5>1, FilePieces
          <5> QED BY <2>3, <2>8, <5>2, UnsetFacts
        <4> QED BY <2>3, <3>2, <3>3, <4>1, <4>2, <4>3 DEF JobFollowsPolicy
      <3>5. EngineFollowsPolicy'
        BY <2>4, <2>9, <3>2, <3>3 DEF EngineFollowsPolicy
      <3>6. RefusedDeviates'
        BY <2>14 DEF Inv, RefusedDeviates
      <3> QED BY <2>12, <2>13, <2>16, <2>17, <3>4, <3>5, <3>6 DEF Inv
    <2> QED BY <2>18, <2>19
  <1> QED BY <1>7, <1>8

LEMMA MetadataReceivedStep ==
    ASSUME Inv, MetadataReceived
    PROVE  Inv'
  <1> DEFINE t == [torrent EXCEPT !.metadata = TRUE]
             v == [View EXCEPT !.torrent.metadata = TRUE]
             D == DOMAIN torrent.deadlines
  <1>1. TypeOK /\ MetadataDecides
    BY DEF Inv
  <1>2. /\ phase = "active" /\ ~torrent.metadata /\ UNCHANGED <<resume, window>>
        /\ IF Applies(v)
           THEN /\ Commit(ApplySelection(v))
                /\ policy' = Agreed(ApplySelection(v).torrent.files)
                /\ UNCHANGED phase
           ELSE /\ job'   = ApplySelection(v).job
                /\ phase' = "stopped"
                /\ UNCHANGED <<torrent, policy>>
    BY DEF MetadataReceived
  <1>3. v = [job |-> job, torrent |-> t]
    <2>1. ASSUME NEW x
          PROVE  [View EXCEPT !.torrent.metadata = x] = [job |-> job, torrent |-> [torrent EXCEPT !.metadata = x]]
      BY DEF View
    <2> QED BY <2>1
  <1>4. t \in Torrents(D) /\ job \in Jobs
    BY <1>1 DEF TypeOK, Torrents
  <1>5. window = None /\ job.files = Unset /\ job.pieces = Unset
    BY <1>1, <1>2 DEF MetadataDecides
  <1> HIDE DEF t, v
  <1>6. CASE Applies(v)
    <2>1. job.desired \subseteq Files
      BY <1>3, <1>5, <1>6 DEF Applies
    <2>2. JobFiles(job) = Selected(job.desired) /\ JobPieces(job) = FromFiles(JobFiles(job))
      BY <1>5 DEF JobFiles, JobPieces
    <2>3. /\ JobFiles(job) \in [Files -> 0..Top]
          /\ job.desired = {f \in Files : JobFiles(job)[f] # DontDownload}
      BY <2>1, <2>2, SelectedTyped
    <2>4. policy' = Agreed(JobFiles(job))
      BY <1>2, <1>3, <1>4, <1>6, ApplyEffect
    <2>5. /\ policy' \in Policies(DOMAIN policy'.raised) /\ DOMAIN policy'.raised \subseteq Pieces
          /\ policy'.files = JobFiles(job) /\ policy'.baseline = JobPieces(job) /\ policy'.raised = Unset
          /\ RefusedDeviates'
      BY <2>2, <2>3, <2>4, AgreedTyped DEF RefusedDeviates
    <2> QED BY <1>1, <1>2, <1>3, <1>4, <1>5, <1>6, <2>3, <2>5, AppliedStep DEF TypeOK
  <1>7. CASE ~Applies(v)
    <2>1. /\ job' \in Jobs /\ job'.deadline_pieces = job.deadline_pieces
          /\ UNCHANGED <<torrent, policy>> /\ phase' = "stopped"
      BY <1>2, <1>3, <1>4, <1>7, ApplyRefused
    <2>2. TypeOK'
      BY <1>1, <1>2, <2>1 DEF TypeOK, Phases
    <2>3. MetadataDecides' /\ ~torrent'.metadata
      BY <1>2, <1>5, <2>1 DEF MetadataDecides
    <2>4. RefusedDeviates' /\ DeadlinesInStep'
      BY <1>2, <2>1, DeadlinesKept DEF Inv, RefusedDeviates
    <2> QED BY <2>2, <2>3, <2>4, NoMetadataStep
  <1> QED BY <1>6, <1>7

LEMMA AddTorrentStep ==
    ASSUME Inv, NEW selection \in Selections, NEW metadata \in BOOLEAN, NEW restore \in BOOLEAN,
           AddTorrent(selection, metadata, restore)
    PROVE  Inv'
  <1> DEFINE restored == IF restore THEN resume.files ELSE Unset
             desired  == IF selection \notin {None, {}} THEN selection
                         ELSE {f \in DOMAIN restored : restored[f] # DontDownload}
             files    == IF metadata /\ selection # None THEN Selected(desired) ELSE restored
             pieces   == IF restore THEN resume.pieces ELSE Unset
             wanted   == IF files = Unset THEN To(Files, DontDownload) ELSE files
             chosen   == IF pieces = Unset THEN FromFiles(wanted) ELSE pieces
  <1>1. TypeOK
    BY DEF Inv
  <1>2. /\ restore => resume # None /\ metadata
        /\ metadata /\ selection # None => desired \subseteq Files
        /\ job' = [desired |-> desired, files |-> files, pieces |-> pieces, deadline_pieces |-> {}]
        /\ torrent' = IF metadata
                      THEN [metadata |-> TRUE, files |-> wanted, pieces |-> chosen, deadlines |-> Unset]
                      ELSE NoTorrent
        /\ policy' = CASE ~metadata             -> NoPolicy
                       [] metadata /\ ~restore -> Agreed(wanted)
                       [] OTHER                -> IF resume.settled /\ wanted = resume.files
                                                  THEN [Agreed(wanted) EXCEPT !.baseline = resume.pieces]
                                                  ELSE Deviated
        /\ phase' = "active" /\ window' = None /\ resume' = None
    BY DEF AddTorrent
  <1>3. restore => resume.files \in [Files -> 0..Top] /\ resume.pieces \in [Pieces -> 0..Top]
    BY <1>1, <1>2 DEF TypeOK, ResumeData
  <1>4. /\ To(Files, DontDownload) \in [Files -> 0..Top]
        /\ To(Files, DontDownload) = Selected({})
        /\ Selected(desired) \in [Files -> 0..Top] /\ Selected({}) \in [Files -> 0..Top]
    BY SelectedTyped DEF To, Selected, DontDownload, Top
  <1>5. /\ restored \in Vector(Files) /\ files \in Vector(Files) /\ pieces \in Vector(Pieces)
        /\ restore => restored \in [Files -> 0..Top]
    BY <1>3, <1>4 DEF Vector
  <1>6. wanted \in [Files -> 0..Top] /\ chosen \in [Pieces -> 0..Top]
    <2>1. wanted \in [Files -> 0..Top]
      BY <1>4, <1>5 DEF Vector
    <2> HIDE DEF wanted
    <2> QED BY <1>5, <2>1, BaselineDerived DEF Vector
  <1>7. desired \subseteq 0..Len(Sizes)
    <2>1. DOMAIN restored \subseteq Files
      BY <1>5, UnsetFacts DEF Vector
    <2>2. Files \subseteq 0..Len(Sizes)
      BY SizesAssumption DEF Files
    <2> QED BY <2>1, <2>2, RequestsAssumption
  <1>8. ASSUME metadata
        PROVE  /\ wanted = IF files = Unset THEN Selected(desired) ELSE files
               /\ desired = {f \in Files : wanted[f] # DontDownload}
    <2>1. CASE selection # None
      <3>1. files = Selected(desired) /\ desired \subseteq Files
        BY <1>2, <1>8, <2>1
      <3>2. wanted = files
        BY <1>4, <3>1, StoredVector
      <3> QED BY <3>1, <3>2, SelectedTyped
    <2>2. CASE selection = None /\ restore
      <3>1. files = restored /\ restored \in [Files -> 0..Top] /\ restored = resume.files
        BY <1>5, <2>2
      <3>2. wanted = files /\ files = IF files = Unset THEN Selected(desired) ELSE files
        BY <1>4, <3>1, StoredVector
      <3>3. desired = {f \in Files : restored[f] # DontDownload}
        BY <2>2, <3>1
      <3> QED BY <3>1, <3>2, <3>3
    <2>3. CASE selection = None /\ ~restore
      <3>1. files = Unset /\ desired = {} /\ wanted = Selected({})
        BY <1>4, <2>3, UnsetFacts
      <3> QED BY <1>4, <3>1, SelectedTyped
    <2> QED BY <2>1, <2>2, <2>3
  <1> HIDE DEF restored, desired, files, wanted
  <1>9. restore => chosen = resume.pieces /\ pieces = resume.pieces
    BY <1>3, <1>6, StoredVector, BaselineDerived
  <1> HIDE DEF pieces, chosen
  <1>10. /\ job' \in Jobs /\ job'.desired = desired /\ job'.files = files /\ job'.pieces = pieces
         /\ job'.deadline_pieces = {}
    BY <1>2, <1>5, <1>7 DEF Jobs
  <1>11. CASE ~metadata
    <2>1. torrent' = NoTorrent /\ policy' = NoPolicy
      BY <1>2, <1>11
    <2>2. TypeOK'
      BY <1>2, <1>10, <2>1, NothingTyped, DeviatedTyped DEF TypeOK, Phases
    <2>3. files = Unset /\ pieces = Unset
      BY <1>2, <1>11 DEF files, restored, pieces
    <2>4. MetadataDecides' /\ ~torrent'.metadata
      BY <1>2, <1>10, <2>1, <2>3, NothingTyped DEF MetadataDecides
    <2>5. RefusedDeviates'
      BY <2>1, DeviatedTyped DEF RefusedDeviates
    <2>6. DeadlinesInStep'
      BY <1>2, <1>10, <2>1, NoDeadlines DEF NoTorrent
    <2> QED BY <2>2, <2>4, <2>5, <2>6, NoMetadataStep
  <1>12. CASE metadata
    <2>1. /\ torrent' \in Torrents({}) /\ torrent'.metadata /\ torrent'.files = wanted
          /\ torrent'.pieces = chosen /\ torrent'.deadlines = Unset
      BY <1>2, <1>6, <1>12, UnsetFacts DEF Torrents, Vector
    <2>2. /\ policy' \in Policies({}) /\ DOMAIN policy'.raised = {} /\ ~policy'.refused
          /\ ~policy'.deviated =>
                /\ policy'.files = wanted /\ policy'.raised = Unset
                /\ policy'.baseline = IF restore THEN resume.pieces ELSE FromFiles(wanted)
      <3> DEFINE a == Agreed(wanted)
      <3>1. /\ a \in Policies({}) /\ ~a.deviated /\ ~a.refused /\ a.files = wanted
            /\ a.baseline = FromFiles(wanted) /\ a.raised = Unset /\ DOMAIN a.raised = {}
        BY <1>6, AgreedTyped
      <3> HIDE DEF a
      <3>2. CASE ~restore
        <4>1. policy' = a
          BY <1>2, <1>12, <3>2 DEF a
        <4> QED BY <3>1, <3>2, <4>1
      <3>3. CASE restore /\ resume.settled /\ wanted = resume.files
        <4> DEFINE b == [a EXCEPT !.baseline = resume.pieces]
        <4>1. /\ b \in Policies({}) /\ b.files = wanted /\ b.baseline = resume.pieces
              /\ b.raised = Unset /\ DOMAIN b.raised = {} /\ ~b.refused
          BY <1>3, <3>1, <3>3 DEF Policies, Vector
        <4>2. policy' = b
          BY <1>2, <1>12, <3>3 DEF a
        <4> HIDE DEF b
        <4> QED BY <3>3, <4>1, <4>2
      <3>4. CASE restore /\ ~(resume.settled /\ wanted = resume.files)
        <4>1. policy' = Deviated
          BY <1>2, <1>12, <3>4
        <4> QED BY <4>1, DeviatedTyped
      <3> QED BY <3>2, <3>3, <3>4
    <2>3. TypeOK'
      BY <1>2, <1>10, <2>1, <2>2, UnsetFacts DEF TypeOK, Phases
    <2>4. MetadataDecides'
      BY <1>6, <2>1 DEF MetadataDecides
    <2>5. JobFollowsEngine' /\ DesiredMatchesEngine'
      BY <1>8, <1>10, <1>12, <2>1 DEF JobFollowsEngine, DesiredMatchesEngine
    <2>6. DeadlinesInStep'
      BY <1>2, <1>10, <2>1, NoDeadlines
    <2>7. CASE policy'.deviated
      BY <2>3, <2>4, <2>5, <2>6, <2>7, DeviatedStep
    <2>8. CASE ~policy'.deviated
      <3>1. /\ policy'.files = wanted /\ policy'.raised = Unset
            /\ policy'.baseline = chosen
            /\ policy'.baseline = IF pieces = Unset THEN FromFiles(wanted) ELSE pieces
        <4>1. CASE restore
          BY <1>9, <2>2, <2>8, <4>1 DEF chosen
        <4>2. CASE ~restore
          BY <2>2, <2>8, <4>2 DEF chosen, pieces
        <4> QED BY <4>1, <4>2
      <3>2. JobFollowsPolicy'
        BY <1>6, <1>8, <1>10, <1>12, <3>1 DEF JobFollowsPolicy
      <3>3. EngineFollowsPolicy'
        BY <1>6, <2>1, <3>1, OverNothing DEF EngineFollowsPolicy
      <3>4. RefusedDeviates'
        BY <2>2 DEF RefusedDeviates
      <3> QED BY <2>3, <2>4, <2>5, <2>6, <3>2, <3>3, <3>4 DEF Inv
    <2> QED BY <2>7, <2>8
  <1> QED BY <1>11, <1>12

----------------------------------------------------------------------------
(* The theorems.                                                             *)

LEMMA InvInit == Init => Inv
  <1> SUFFICES ASSUME Init
               PROVE  Inv
    OBVIOUS
  <1>1. TypeOK
    BY NothingTyped, DeviatedTyped DEF Init, TypeOK, Phases
  <1>2. MetadataDecides /\ ~torrent.metadata
    BY NothingTyped DEF Init, MetadataDecides
  <1>3. RefusedDeviates /\ DeadlinesInStep
    BY DeviatedTyped, UnsetFacts DEF Init, RefusedDeviates, DeadlinesInStep, NoJob, NoTorrent
  <1> QED BY <1>1, <1>2, <1>3
          DEF Inv, JobFollowsPolicy, JobFollowsEngine, EngineFollowsPolicy, DesiredMatchesEngine, Settled

LEMMA InvStep == Inv /\ [Next]_vars => Inv'
  <1> SUFFICES ASSUME Inv, [Next]_vars
               PROVE  Inv'
    OBVIOUS
  <1>1. CASE UNCHANGED vars \/ BeginCompletion \/ EndCompletion
    <2>1. phase \in Phases
      BY DEF Inv, TypeOK
    <2> QED BY <1>1, <2>1, CompletionSteps DEF vars, BeginCompletion, EndCompletion, Phases
  <1> QED BY <1>1, AddTorrentStep, MetadataReceivedStep, RemoveStep, SelectFilesStep, SelectFilesRejectedStep,
             SetFilePriorityStep, SetPiecePriorityStep, UpdateStreamingWindowStep, ClearStreamingWindowStep
          DEF Next

\* The inductive invariant of the priorities.  The job, the engine and what the client
\* was promised agree until a selection is refused or unsettled resume data restored;
\* after resume data the job and the engine still agree on the files, and after a
\* refused selection on the deadlines.
THEOREM InvHolds == Spec => []Inv
  BY InvInit, InvStep, PTL DEF Spec

\* No vector of the job, of the engine or of resume data is ever of another length, and
\* every deadline fits an int.
THEOREM TypeOKHolds == Spec => []TypeOK
  <1>1. Inv => TypeOK
    BY DEF Inv
  <1> QED BY <1>1, InvHolds, PTL

\* The engine works to the file priorities, piece priorities and window that the
\* accepted calls asked for, as long as no selection was refused and no unsettled resume
\* data restored.
THEOREM EngineFollowsPolicyHolds == Spec => []EngineFollowsPolicy
  <1>1. Inv => EngineFollowsPolicy
    BY DEF Inv
  <1> QED BY <1>1, InvHolds, PTL

\* The selection that the completion verifies is the one the engine downloads, after any
\* calls and restarts in which the last call on files was not a refused select_files.
THEOREM DesiredMatchesEngineHolds == Spec => []DesiredMatchesEngine
  <1>1. Inv => DesiredMatchesEngine
    BY DEF Inv
  <1> QED BY <1>1, InvHolds, PTL

\* The deadlines the client is told of are those of the window it was last told of; the
\* engine's are among them, in playback order, and fall short of them only when a window
\* failed after a refused selection.
THEOREM DeadlinesInStepHolds == Spec => []DeadlinesInStep
  <1>1. Inv => DeadlinesInStep
    BY DEF Inv
  <1> QED BY <1>1, InvHolds, PTL

\* While a completion is under way no call changes what it verifies, and one changes
\* what the engine downloads only if a selection was refused before it: the windows that
\* are still accepted apply the job's selection again, and without a refused one that is
\* the selection the engine has.
THEOREM FrozenUnlessRefusedHolds == Spec => FrozenUnlessRefused
  <1> DEFINE Kept == /\ job'.desired = job.desired
                     /\ policy.refused \/ torrent'.files = torrent.files
             A    == phase = "completing" /\ phase' = "completing" => Kept
  <1>1. Inv /\ [Next]_vars => [A]_vars
    <2> SUFFICES ASSUME Inv, Next, phase = "completing", phase' = "completing"
                 PROVE  Kept
      OBVIOUS
    <2>1. job \in Jobs /\ torrent \in Torrents(DOMAIN torrent.deadlines)
      BY DEF Inv, TypeOK
    <2> DEFINE t == [torrent EXCEPT !.deadlines = Unset]
    <2>2. t \in Torrents({}) /\ t.metadata = torrent.metadata /\ t.files = torrent.files
      BY <2>1, UnsetFacts DEF Torrents
    <2>3. ASSUME NEW p \in Pieces, NEW level \in PieceLevels, SetPiecePriority(p, level)
          PROVE  Kept
      BY <2>1, <2>3 DEF SetPiecePriority, Jobs, Torrents
    <2>4. ASSUME NEW r \in Requests, UpdateStreamingWindow(r)
          PROVE  Kept
      <3> DEFINE start == [View EXCEPT !.torrent.deadlines = Unset]
                 v     == ApplySelection(start)
                 file  == FileAt(r.file)
                 plan  == NativeWindow(file, r.at, r.critical, r.warm)
                 due   == plan.playback..plan.critical_last
                 warm  == plan.playback..plan.warm_last
                 edges == IF r.edges THEN {FirstPiece(file), FinalPiece(file)} ELSE {}
                 all   == Over(To(due, Top), Over(To(warm, High), Over(To(edges, Top), v.torrent.pieces)))
                 dl    == [p \in due |-> Deadline(file, r.at, p, r.rate)]
      <3>1. torrent.metadata
        BY <2>4 DEF UpdateStreamingWindow
      <3>2. start = [job |-> job, torrent |-> t]
        BY DEF View
      <3>3. Applies(start) <=> Applies(View)
        BY <2>2, <3>2 DEF Applies, View
      <3>4. CASE Applies(View)
        <4>1. /\ job' = [v.job EXCEPT !.deadline_pieces = due]
              /\ torrent' = [v.torrent EXCEPT !.pieces = all, !.deadlines = dl]
          BY <2>4, <3>4 DEF UpdateStreamingWindow
        <4> HIDE DEF due, all, dl, t, start
        <4>2. /\ v.job \in Jobs /\ v.torrent \in Torrents({})
              /\ v.job.desired = job.desired /\ v.torrent.files = JobFiles(job)
          BY <2>1, <2>2, <3>2, <3>3, <3>4, ApplyEffect
        <4> HIDE DEF v
        <4>3. job'.desired = job.desired /\ torrent'.files = JobFiles(job)
          BY <4>1, <4>2 DEF Jobs, Torrents
        <4> QED BY <3>1, <4>3, HeldFacts
      <3>5. CASE ~Applies(View)
        <4>1. Commit(v)
          BY <2>4, <3>5 DEF UpdateStreamingWindow
        <4> HIDE DEF t, start
        <4> QED BY <2>1, <2>2, <3>2, <3>3, <3>5, <4>1, ApplyRefused DEF Commit
      <3> QED BY <3>4, <3>5
    <2>5. ASSUME ClearStreamingWindow
          PROVE  Kept
      <3> DEFINE j == [job EXCEPT !.deadline_pieces = {}]
                 v == [job |-> j, torrent |-> t]
      <3>1. j \in Jobs /\ j.desired = job.desired /\ j.files = job.files
        BY <2>1 DEF Jobs
      <3>2. torrent.metadata /\ Commit(ApplySelection(v))
        BY <2>5 DEF ClearStreamingWindow
      <3> HIDE DEF j, t
      <3>3. CASE Applies(v)
        <4>1. job'.desired = j.desired /\ torrent'.files = JobFiles(j)
          BY <2>2, <3>1, <3>2, <3>3, ApplyEffect DEF Commit
        <4>2. JobFiles(j) = JobFiles(job)
          BY <3>1 DEF JobFiles
        <4> QED BY <3>1, <3>2, <4>1, <4>2, HeldFacts
      <3>4. CASE ~Applies(v)
        BY <2>2, <3>1, <3>2, <3>4, ApplyRefused DEF Commit
      <3> QED BY <3>3, <3>4
    <2>6. CASE BeginCompletion \/ EndCompletion
      BY <2>6 DEF BeginCompletion, EndCompletion
    <2> QED BY <2>3, <2>4, <2>5, <2>6 DEF Next, AddTorrent, MetadataReceived, Remove, SelectFiles,
               SelectFilesRejected, SetFilePriority, MayReselect
  <1> QED BY <1>1, InvHolds, PTL DEF Spec, FrozenUnlessRefused
=============================================================================
