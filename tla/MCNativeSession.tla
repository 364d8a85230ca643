--------------------------- MODULE MCNativeSession --------------------------
(***************************************************************************)
(* Instances of NativeSession for TLC.                                       *)
(***************************************************************************)
EXTENDS NativeSession

MCOneShotJson == {"metadataReady", "completed", "stoppedAfterCompletion", "invalidSelection"}
MCErrorJson   == {"recoverable", "completionFailed"}

Request(desired, metadata, safe) ==
    [desired |-> desired, metadata |-> metadata, safe |-> safe, pieces |-> Unset,
     written |-> {}, paused |-> FALSE, stops |-> TRUE]

\* The first file.
OneFile == {{1}}

\* One file beyond the last, and all files (torrents are added with the first).
WholeOrBeyond == {{N + 1}, Files}

\* A .torrent file, of which the first file is wanted.
TorrentFile == {Request({1}, TRUE, Files)}

\* A .torrent file, of which all files are wanted.
WholeTorrent == {Request(Files, TRUE, Files)}

\* The first of them, one that keeps running when it is finished, magnet links with
\* a valid and an invalid selection, and a .torrent file in which a path that
\* nobody selected is unsafe.
AnySource == TorrentFile \cup
    {[Request({1}, TRUE, Files) EXCEPT !.stops = FALSE],
     Request({1}, FALSE, Files), Request({N + 1}, FALSE, Files), Request({1}, TRUE, {1})}

\* A paused torrent restored with all its data and its piece priorities.
Restored == {[Request({1}, TRUE, Files) EXCEPT !.written = {1}, !.pieces = {1}, !.paused = TRUE]}
=============================================================================
