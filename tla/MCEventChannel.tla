--------------------------- MODULE MCEventChannel ---------------------------
(***************************************************************************)
(* Instances of EventChannel for TLC.                                        *)
(***************************************************************************)
EXTENDS EventChannel

MCOneShotJson == {"metadataReady", "completed", "stoppedAfterCompletion", "invalidSelection"}

KindOfPayload == [metadataReady          |-> Kind.metadata,
                  completed              |-> Kind.completed,
                  stoppedAfterCompletion |-> Kind.stopped,
                  invalidSelection       |-> Kind.invalid_selection]

MCKindOf == [json \in OneShotJson |-> KindOfPayload[json]]
=============================================================================
