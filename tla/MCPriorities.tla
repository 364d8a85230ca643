---------------------------- MODULE MCPriorities ----------------------------
(***************************************************************************)
(* An instance of Priorities for TLC: five bytes in pieces of two, a file of *)
(* three bytes, an empty file, and one of two bytes that shares a piece with *)
(* the first.                                                                *)
(***************************************************************************)
EXTENDS Priorities

MCSizes == <<3, 0, 2>>

\* None, nothing, one file, all of them, and a list with an index out of range.
MCSelections == {None, {}, {0}, {0, 1, 2}, {2, 3}}

Request(file, at, critical, warm, edges) ==
    [file |-> file, at |-> at, critical |-> critical, warm |-> warm, rate |-> 1, edges |-> edges]

\* The start of a file; a window whose end is past the largest int64_t, with a
\* deadline past the largest int; and one that reaches beyond the end of its file.
MCRequests == {Request(0, 0, 1, 3, FALSE), Request(0, 1, MaxOffset, MaxOffset, TRUE),
               Request(2, 1, 1, 2, TRUE)}
=============================================================================
