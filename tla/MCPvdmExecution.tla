-------------------------- MODULE MCPvdmExecution --------------------------
(* Small instances of PvdmExecution for TLC. *)
EXTENDS PvdmExecution

CONSTANTS s0, s1

\* Of the rows of s0 the filter leaves none.
MCChunkCount == [s \in Sources |-> IF s = s0 THEN 0 ELSE MaxChunks]

BeforePublish == {"loop", "readback", "verify"}
=============================================================================
