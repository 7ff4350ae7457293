--------------------------- MODULE MCPvdmRuntime ---------------------------
(* Small instances of PvdmRuntime for TLC. *)
EXTENDS PvdmRuntime, TLC

CONSTANTS s1, s2, filtered, malformed

\* s1 and s2 have every chunk, of every other input the row filter leaves nothing.
MCChunkCount == [s \in Sources |-> IF s \in {s1, s2} THEN MaxChunks ELSE 0]

AnyPoint == {"loop", "readback", "verify", "burn", "record"}
BeforePublish == {"loop", "readback", "verify"}

Symmetry == Permutations(Invocations)
=============================================================================
