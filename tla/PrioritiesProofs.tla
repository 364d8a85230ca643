-------------------------- MODULE PrioritiesProofs --------------------------
(***************************************************************************)
(* Proofs about the streaming window: the arithmetic of the two planners, for*)
(* every piece length, layout, request and integer width, and from it that   *)
(* the window a client is told of covers what it asked for.                  *)
(***************************************************************************)
EXTENDS Priorities, TLAPS

\* A byte lies in its piece.
LEMMA PieceBounds ==
    ASSUME NEW x \in Nat
    PROVE  /\ PieceAt(x) \in Nat
           /\ PieceAt(x) * PieceLength <= x
           /\ x < (PieceAt(x) + 1) * PieceLength
  BY PieceLengthAssumption DEF PieceAt

\* Multiples of the piece length keep the order.
LEMMA Multiples ==
    ASSUME NEW p \in Nat, NEW q \in Nat, p <= q
    PROVE  /\ p * PieceLength \in Nat /\ q * PieceLength \in Nat
           /\ p * PieceLength <= q * PieceLength
  BY PieceLengthAssumption

\* A later piece begins where the earlier one ends, or after it.
LEMMA PieceOrder ==
    ASSUME NEW p \in Nat, NEW q \in Nat, p < q
    PROVE  (p + 1) * PieceLength <= q * PieceLength
  BY p + 1 \in Nat, p + 1 <= q, Multiples

\* A byte lies in no other piece.
LEMMA PieceUnique ==
    ASSUME NEW x \in Nat, NEW p \in Nat,
           p * PieceLength <= x, x < (p + 1) * PieceLength
    PROVE  PieceAt(x) = p
  <1> DEFINE q == PieceAt(x)
  <1>0. q \in Nat /\ q * PieceLength <= x /\ x < (q + 1) * PieceLength
    BY PieceBounds
  <1>a. /\ p * PieceLength \in Int /\ q * PieceLength \in Int
        /\ (p + 1) * PieceLength \in Int /\ (q + 1) * PieceLength \in Int
    BY <1>0, PieceLengthAssumption
  <1> HIDE DEF q
  <1>1. ASSUME q < p PROVE FALSE
    <2>1. (q + 1) * PieceLength <= p * PieceLength
      BY <1>0, <1>1, PieceOrder
    <2> QED BY <1>0, <1>a, <2>1
  <1>2. ASSUME p < q PROVE FALSE
    <2>1. (p + 1) * PieceLength <= q * PieceLength
      BY <1>0, <1>2, PieceOrder
    <2> QED BY <1>0, <1>a, <2>1
  <1>3. q = p
    BY <1>0, <1>1, <1>2
  <1> QED BY <1>3 DEF q

\* A later byte lies in the same piece or in a later one.
LEMMA PieceMonotone ==
    ASSUME NEW x \in Nat, NEW y \in Nat, x <= y
    PROVE  PieceAt(x) <= PieceAt(y)
  <1> DEFINE p == PieceAt(x)
             q == PieceAt(y)
  <1>1. /\ p \in Nat /\ p * PieceLength <= x /\ x < (p + 1) * PieceLength
        /\ q \in Nat /\ q * PieceLength <= y /\ y < (q + 1) * PieceLength
    BY PieceBounds
  <1>2. /\ p * PieceLength \in Int /\ (q + 1) * PieceLength \in Int
    BY <1>1, PieceLengthAssumption
  <1> HIDE DEF p, q
  <1>3. ASSUME q < p PROVE FALSE
    <2>1. (q + 1) * PieceLength <= p * PieceLength
      BY <1>1, <1>3, PieceOrder
    <2> QED BY <1>1, <1>2, <2>1
  <1>4. p <= q
    BY <1>1, <1>3
  <1> QED BY <1>4 DEF p, q

\* The pieces of a run of bytes are the run of pieces from its first to its last.
LEMMA PiecesOfRun ==
    ASSUME NEW a \in Nat, NEW b \in Nat, a <= b
    PROVE  {PieceAt(x) : x \in a..b} = PieceAt(a)..PieceAt(b)
  <1>1. PieceAt(a) \in Nat /\ PieceAt(b) \in Nat
    BY PieceBounds
  <1>2. ASSUME NEW x \in a..b PROVE PieceAt(x) \in PieceAt(a)..PieceAt(b)
    <2>1. x \in Nat /\ a <= x /\ x <= b
      OBVIOUS
    <2>2. PieceAt(x) \in Nat /\ PieceAt(a) <= PieceAt(x) /\ PieceAt(x) <= PieceAt(b)
      BY <2>1, PieceBounds, PieceMonotone
    <2> QED BY <1>1, <2>2
  <1>3. ASSUME NEW p \in PieceAt(a)..PieceAt(b) PROVE \E x \in a..b : PieceAt(x) = p
    <2>1. p \in Nat /\ PieceAt(a) <= p /\ p <= PieceAt(b)
      BY <1>1
    <2>2. /\ p * PieceLength \in Nat /\ p * PieceLength <= PieceAt(b) * PieceLength
          /\ PieceAt(b) * PieceLength <= b /\ PieceAt(b) * PieceLength \in Nat
      BY <1>1, <2>1, Multiples, PieceBounds
    <2>3. CASE a <= p * PieceLength
      <3>1. p * PieceLength \in a..b
        BY <2>2, <2>3
      <3>2. p * PieceLength < (p + 1) * PieceLength
        BY <2>1, PieceLengthAssumption
      <3>3. PieceAt(p * PieceLength) = p
        BY <2>1, <2>2, <3>2, PieceUnique
      <3> QED BY <3>1, <3>3
    <2>4. CASE p * PieceLength < a
      <3>1. a < (PieceAt(a) + 1) * PieceLength
        BY PieceBounds
      <3>2. /\ (PieceAt(a) + 1) * PieceLength <= (p + 1) * PieceLength
            /\ (PieceAt(a) + 1) * PieceLength \in Nat /\ (p + 1) * PieceLength \in Nat
        BY <1>1, <2>1, PieceAt(a) + 1 \in Nat, p + 1 \in Nat, PieceAt(a) + 1 <= p + 1, Multiples
      <3>3. PieceAt(a) = p
        BY <2>1, <2>2, <2>4, <3>1, <3>2, PieceUnique
      <3> QED BY <3>3
    <2> QED BY <2>2, <2>3, <2>4
  <1> QED BY <1>2, <1>3


\* No sum of a window wraps: its last byte is the last of the file's next bytes.
LEMMA WindowEndExact ==
    ASSUME NEW file, Stored(file), NEW at \in 0..(file.size - 1), NEW bytes \in 1..MaxOffset
    PROVE  /\ WindowEnd(file, at, bytes) = Lesser(file.size, at + bytes) - 1
           /\ WindowEnd(file, at, bytes) \in at..(file.size - 1)
           /\ Int64(file.offset + WindowEnd(file, at, bytes))
                = file.offset + WindowEnd(file, at, bytes)
  <1>1. /\ file.offset \in Nat /\ file.size \in Nat /\ file.size > 0
        /\ file.offset + file.size <= MaxOffset /\ MaxOffset \in Nat
    BY WidthAssumption DEF Stored, File
  <1>2. at \in Nat /\ bytes \in Nat /\ bytes >= 1 /\ at <= file.size - 1
    BY <1>1
  <1> QED BY <1>1, <1>2 DEF WindowEnd, Int64, Lesser

\* The reference in one piece: the run from the first to the last byte's piece.
LEMMA AheadIsRun ==
    ASSUME NEW file, Stored(file), NEW at \in 0..(file.size - 1), NEW bytes \in 1..MaxOffset
    PROVE  PiecesAhead(file, at, bytes)
             = PieceAt(file.offset + at)..PieceAt(file.offset + WindowEnd(file, at, bytes))
  <1> DEFINE end == WindowEnd(file, at, bytes)
  <1>1. file.offset \in Nat /\ at \in Nat /\ end \in Nat /\ at <= end
    BY WindowEndExact DEF Stored, File
  <1>2. PiecesAhead(file, at, bytes) = {PieceAt(file.offset + byte) : byte \in at..end}
    BY WindowEndExact DEF PiecesAhead
  <1> HIDE DEF end
  <1>3. {PieceAt(file.offset + byte) : byte \in at..end}
          = {PieceAt(x) : x \in (file.offset + at)..(file.offset + end)}
    <2>1. ASSUME NEW byte \in at..end
          PROVE  file.offset + byte \in (file.offset + at)..(file.offset + end)
      BY <1>1
    <2>2. ASSUME NEW x \in (file.offset + at)..(file.offset + end)
          PROVE  x - file.offset \in at..end /\ x = file.offset + (x - file.offset)
      BY <1>1
    <2> QED BY <2>1, <2>2
  <1>4. {PieceAt(x) : x \in (file.offset + at)..(file.offset + end)}
          = PieceAt(file.offset + at)..PieceAt(file.offset + end)
    <2>1. /\ file.offset + at \in Nat /\ file.offset + end \in Nat
          /\ file.offset + at <= file.offset + end
      BY <1>1
    <2> QED BY <2>1, PiecesOfRun, Zenon
  <1> QED BY <1>2, <1>3, <1>4 DEF end

(***************************************************************************)
(* What both planners compute: the pieces of the byte asked for and of the   *)
(* last bytes of the two windows; no clamp and no wrap changes them.         *)
(***************************************************************************)
LEMMA PlansExact ==
    ASSUME NEW file, NEW at, NEW critical, NEW warm, Admissible(file, at, critical, warm)
    PROVE  LET exact == [playback      |-> PieceAt(file.offset + at),
                         critical_last |-> PieceAt(file.offset + WindowEnd(file, at, critical)),
                         warm_last     |-> PieceAt(file.offset + WindowEnd(file, at, warm))]
           IN  /\ NativeWindow(file, at, critical, warm) = exact
               /\ SwiftPlan(file, at, critical, warm) = exact
  <1> DEFINE c == WindowEnd(file, at, critical)
             w == WindowEnd(file, at, warm)
             first == FirstPiece(file)
             final == FinalPiece(file)
             pb == PieceAt(file.offset + at)
             pc == PieceAt(file.offset + c)
             pw == PieceAt(file.offset + w)
  <1>1. /\ Stored(file) /\ at \in 0..(file.size - 1)
        /\ critical \in 1..MaxOffset /\ warm \in 1..MaxOffset /\ critical <= warm
    BY WidthAssumption DEF Admissible
  <1>2. /\ file.offset \in Nat /\ file.size \in Nat /\ file.size > 0
        /\ file.offset + file.size <= MaxOffset /\ MaxOffset \in Nat
    BY <1>1, WidthAssumption DEF Stored, File
  <1>3. /\ c = Lesser(file.size, at + critical) - 1 /\ c \in at..(file.size - 1)
        /\ w = Lesser(file.size, at + warm) - 1 /\ w \in at..(file.size - 1)
        /\ Int64(file.offset + c) = file.offset + c
        /\ Int64(file.offset + w) = file.offset + w
    BY <1>1, WindowEndExact
  <1>4. Int64(file.offset + at) = file.offset + at
    BY <1>1, <1>2 DEF Int64
  <1>5. Int64(file.offset + file.size) = file.offset + file.size
    BY <1>2 DEF Int64
  <1>6. at \in Nat /\ c \in Nat /\ w \in Nat /\ at <= c /\ c <= w /\ w <= file.size - 1
    BY <1>1, <1>2, <1>3 DEF Lesser
  <1>7. final = PieceAt((file.offset + file.size) - 1)
    BY <1>5, Zenon DEF FinalPiece
  <1> HIDE DEF c, w
  <1>8. /\ {first, pb, pc, pw, final} \subseteq Nat
        /\ first <= pb /\ pb <= pc /\ pc <= pw /\ pw <= final
    <2>1. /\ file.offset + at \in Nat /\ file.offset + c \in Nat /\ file.offset + w \in Nat
          /\ (file.offset + file.size) - 1 \in Nat
      BY <1>2, <1>6
    <2>2. /\ file.offset <= file.offset + at /\ file.offset + at <= file.offset + c
          /\ file.offset + c <= file.offset + w
          /\ file.offset + w <= (file.offset + file.size) - 1
      BY <1>2, <1>6
    <2> QED BY <1>2, <1>7, <2>1, <2>2, PieceBounds, PieceMonotone DEF FirstPiece
  <1> HIDE DEF first, final, pb, pc, pw
  <1>9. /\ Clamp(pb, first, final) = pb /\ Clamp(pc, pb, final) = pc /\ Clamp(pw, pc, final) = pw
    BY <1>8 DEF Clamp
  <1>10. /\ Lesser(final, Greater(first, pb)) = pb
         /\ Lesser(final, Greater(pb, pc)) = pc /\ Lesser(final, Greater(pb, pw)) = pw
    BY <1>8 DEF Lesser, Greater
  <1>11. NativeWindow(file, at, critical, warm)
           = [playback |-> pb, critical_last |-> pc, warm_last |-> pw]
    BY <1>3, <1>4, <1>9 DEF NativeWindow, c, w, first, final, pb, pc, pw
  <1>12. SwiftPlan(file, at, critical, warm)
           = [playback |-> pb, critical_last |-> pc, warm_last |-> pw]
    BY <1>3, <1>4, <1>10 DEF SwiftPlan, c, w, first, final, pb, pc, pw
  <1> QED BY <1>11, <1>12 DEF c, w, pb, pc, pw


(***************************************************************************)
(* For every layout, request and width of the integers: the plan that        *)
(* PieceWindowPlan.make makes of an admissible request is the window that    *)
(* ltkit_session_update_streaming_window computes.                           *)
(***************************************************************************)
THEOREM PlannersAgree ==
    ASSUME NEW file, NEW at, NEW critical, NEW warm, Admissible(file, at, critical, warm)
    PROVE  SwiftPlan(file, at, critical, warm) = NativeWindow(file, at, critical, warm)
  BY PlansExact, Zenon

\* The native window is the reference, for the critical and for the warm bytes.
LEMMA NativeCovers ==
    ASSUME NEW file, NEW at, NEW critical, NEW warm, Admissible(file, at, critical, warm)
    PROVE  LET plan == NativeWindow(file, at, critical, warm)
           IN  /\ plan.playback..plan.critical_last = PiecesAhead(file, at, critical)
               /\ plan.playback..plan.warm_last = PiecesAhead(file, at, warm)
  <1> DEFINE plan == NativeWindow(file, at, critical, warm)
  <1>1. /\ plan.playback = PieceAt(file.offset + at)
        /\ plan.critical_last = PieceAt(file.offset + WindowEnd(file, at, critical))
        /\ plan.warm_last = PieceAt(file.offset + WindowEnd(file, at, warm))
    BY PlansExact
  <1>2. /\ Stored(file) /\ at \in 0..(file.size - 1)
        /\ critical \in 1..MaxOffset /\ warm \in 1..MaxOffset
    BY WidthAssumption DEF Admissible
  <1>3. /\ PiecesAhead(file, at, critical)
             = PieceAt(file.offset + at)..PieceAt(file.offset + WindowEnd(file, at, critical))
        /\ PiecesAhead(file, at, warm)
             = PieceAt(file.offset + at)..PieceAt(file.offset + WindowEnd(file, at, warm))
    BY <1>2, AheadIsRun
  <1> QED BY <1>1, <1>3, Zenon

(***************************************************************************)
(* In every reachable state the window the client was last told of covers    *)
(* exactly the pieces of the bytes it asked for, in both planners, whatever  *)
(* the layout, the requests and the other calls.  The guard of the call      *)
(* (Admissible) is all the arithmetic needs: the invariant is inductive as   *)
(* it stands.                                                                *)
(***************************************************************************)
THEOREM WindowsAreCovered == Spec => []WindowCoversRequest
  <1>1. Init => WindowCoversRequest
    BY DEF Init, WindowCoversRequest
  <1>2. WindowCoversRequest /\ [Next]_vars => WindowCoversRequest'
    <2> SUFFICES ASSUME WindowCoversRequest, [Next]_vars PROVE WindowCoversRequest'
      OBVIOUS
    <2>1. ASSUME UNCHANGED window \/ window' = None PROVE WindowCoversRequest'
      BY <2>1 DEF WindowCoversRequest, Ahead
    <2>2. ASSUME NEW r \in Requests, UpdateStreamingWindow(r) PROVE WindowCoversRequest'
      <3> DEFINE file == FileAt(r.file)
                 told == [request |-> r,
                          native  |-> NativeWindow(file, r.at, r.critical, r.warm),
                          swift   |-> SwiftPlan(file, r.at, r.critical, r.warm)]
      <3>1. Admissible(file, r.at, r.critical, r.warm)
        BY <2>2 DEF UpdateStreamingWindow
      <3>2. window' = told \/ UNCHANGED window
        BY <2>2 DEF UpdateStreamingWindow
      <3>3. CASE window' = told
        <4>1. told.native = told.swift
          BY <3>1, PlannersAgree
        <4>2. /\ told.native.playback..told.native.warm_last = Ahead(r, r.warm)
              /\ told.native.playback..told.native.critical_last = Ahead(r, r.critical)
          BY <3>1, NativeCovers DEF Ahead
        <4> HIDE DEF file
        <4> QED BY <3>3, <4>1, <4>2 DEF WindowCoversRequest
      <3> QED BY <2>1, <3>2, <3>3
    <2>3. CASE UNCHANGED vars
      BY <2>1, <2>3 DEF vars
    <2>4. CASE Next
      <3>1. CASE \E s \in Selections, metadata, restore \in BOOLEAN : AddTorrent(s, metadata, restore)
        BY <2>1, <3>1 DEF AddTorrent
      <3>2. CASE MetadataReceived \/ BeginCompletion \/ EndCompletion
        BY <2>1, <3>2 DEF MetadataReceived, BeginCompletion, EndCompletion
      <3>3. CASE \E saved \in BOOLEAN : Remove(saved)
        BY <2>1, <3>3 DEF Remove
      <3>4. CASE \E s \in Selections \ {None} : SelectFiles(s)
        BY <2>1, <3>4 DEF SelectFiles
      <3>5. CASE \E s \in Selections \ {None}, primary_missing \in BOOLEAN :
                    SelectFilesRejected(s, primary_missing)
        BY <2>1, <3>5 DEF SelectFilesRejected
      <3>6. CASE \E f \in Files, level \in FileLevels : SetFilePriority(f, level)
        BY <2>1, <3>6 DEF SetFilePriority
      <3>7. CASE \E p \in Pieces, level \in PieceLevels : SetPiecePriority(p, level)
        BY <2>1, <3>7 DEF SetPiecePriority
      <3>8. CASE ClearStreamingWindow
        BY <2>1, <3>8 DEF ClearStreamingWindow
      <3> QED BY <2>2, <2>4, <3>1, <3>2, <3>3, <3>4, <3>5, <3>6, <3>7, <3>8 DEF Next
    <2> QED BY <2>3, <2>4
  <1> QED BY <1>1, <1>2, PTL DEF Spec
=============================================================================
