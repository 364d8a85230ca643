--------------------------- MODULE DiskCheckpoint ---------------------------
(***************************************************************************)
(* The phase machine of a disk checkpoint                                    *)
(* (src/Native/src/DiskCheckpoint.hpp).  Each operator takes the phase and   *)
(* returns the next one; a call the machine refuses leaves it alone.         *)
(***************************************************************************)

Phases == {"idle", "flushing", "saving", "succeeded", "failed"}

Idle(phase)    == phase = "idle"
Pending(phase) == phase \in {"flushing", "saving"}

Begin(phase, flush) ==
    IF phase # "idle" THEN phase ELSE IF flush THEN "flushing" ELSE "saving"

\* cache_flushed(), resume_saved() and fail() return whether the reply was due.
FlushDue(phase)     == phase = "flushing"
CacheFlushed(phase) == IF FlushDue(phase) THEN "saving" ELSE phase

SaveDue(phase)     == phase = "saving"
ResumeSaved(phase) == IF SaveDue(phase) THEN "succeeded" ELSE phase

Fail(phase) == IF Pending(phase) THEN "failed" ELSE phase
=============================================================================
