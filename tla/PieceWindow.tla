----------------------------- MODULE PieceWindow ----------------------------
(***************************************************************************)
(* The arithmetic of a streaming window, as operators: what the native       *)
(* ltkit_session_update_streaming_window computes, and what the Swift        *)
(* planner (PieceWindowPlan.make) computes before it.                        *)
(*                                                                           *)
(* A file is a record of its offset in the torrent and its size in bytes.    *)
(* at, critical and warm are the byte offset in the file and the lengths of  *)
(* the two windows that begin there.                                         *)
(***************************************************************************)
EXTENDS Integers

CONSTANTS
    PieceLength, \* bytes in a piece
    MaxOffset,   \* the largest int64_t
    MaxDeadline  \* the largest int

ASSUME PieceLengthAssumption == PieceLength \in Nat \ {0}
ASSUME WidthAssumption       == MaxOffset \in Nat /\ MaxDeadline \in Nat \ 0..99

Lesser(a, b)     == IF a <= b THEN a ELSE b
Greater(a, b)    == IF a >= b THEN a ELSE b
Clamp(x, lo, hi) == IF x < lo THEN lo ELSE IF hi < x THEN hi ELSE x

\* A sum of two int64_t values, as two's complement leaves it.
Int64(sum) == IF sum > MaxOffset THEN sum - 2 * (MaxOffset + 1) ELSE sum

\* A file of a torrent whose bytes have 64-bit offsets.
File == [offset : Nat, size : Nat]

Stored(file) == file \in File /\ file.size > 0 /\ file.offset + file.size <= MaxOffset

\* file_storage's piece_index_at_file and last_piece_index_at_file.
PieceAt(byte)    == byte \div PieceLength
FirstPiece(file) == PieceAt(file.offset)
FinalPiece(file) == PieceAt(Int64(file.offset + file.size) - 1)

\* The requests for a window that pass the checks; the rate is positive.
Admissible(file, at, critical, warm) ==
    /\ Stored(file)
    /\ at \in 0..(file.size - 1)
    /\ critical \in 1..MaxOffset
    /\ warm \in critical..MaxOffset

\* Mutant of WindowEnd: the end is summed up first and clamped afterwards.
WindowEndUnclamped(file, at, bytes) == Lesser(file.size - 1, Int64(at + bytes) - 1)

\* The last byte of a window of the file: critical_end and warm_end.
WindowEnd(file, at, bytes) ==
    Int64(at + Lesser(file.size - 1 - at, bytes - 1))

\* The first piece of a window and the last ones of its two parts.
Plan == [playback : Nat, critical_last : Nat, warm_last : Nat]

NativeWindow(file, at, critical, warm) ==
    LET playback      == Clamp(PieceAt(Int64(file.offset + at)), FirstPiece(file), FinalPiece(file))
        critical_last == Clamp(PieceAt(Int64(file.offset + WindowEnd(file, at, critical))),
                               playback, FinalPiece(file))
        warm_last     == Clamp(PieceAt(Int64(file.offset + WindowEnd(file, at, warm))),
                               critical_last, FinalPiece(file))
    IN  [playback |-> playback, critical_last |-> critical_last, warm_last |-> warm_last]

\* PieceWindowPlan.make; its lastPiece(for:) starts from playback in both cases.
SwiftPlan(file, at, critical, warm) ==
    LET playback        == Lesser(FinalPiece(file),
                                  Greater(FirstPiece(file), PieceAt(Int64(file.offset + at))))
        lastPiece(bytes) == Lesser(FinalPiece(file),
                                   Greater(playback,
                                           PieceAt(Int64(file.offset + WindowEnd(file, at, bytes)))))
    IN  [playback |-> playback, critical_last |-> lastPiece(critical),
         warm_last |-> lastPiece(warm)]

\* The time, in milliseconds, by which a piece of the critical window is due.
Deadline(file, at, piece, rate) ==
    LET piece_file_offset == Greater(piece * PieceLength - file.offset, at)
    IN  Lesser(100 + ((piece_file_offset - at) * 1000) \div rate, MaxDeadline)

\* Reference: the pieces with a byte of the file's next so many bytes.
PiecesAhead(file, at, bytes) ==
    {PieceAt(file.offset + byte) : byte \in at..(Lesser(file.size, at + bytes) - 1)}
=============================================================================
