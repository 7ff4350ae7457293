---------------------------- MODULE PvdmRuntime ----------------------------
(***************************************************************************)
(* The PVDM runtime (services/pvdm-runtime/index.js) over the durable log, *)
(* the staging files, the nonce ledger, the transparency log and the       *)
(* Iceberg catalog state that all invocations of ONE workload_id share.    *)
(*                                                                         *)
(* An invocation is one call of runPvdmWorkload.  It runs from await to    *)
(* await, and the saves of two different files are two steps, since the    *)
(* process can die between them.  Rows are abstracted to chunks: offsets   *)
(* are counted in chunks, and the rows of chunk c of an input s are the    *)
(* value s, wherever they are (in memory, in the staging file, in the      *)
(* digests of a proof).                                                    *)
(***************************************************************************)
EXTENDS Naturals, FiniteSets, FiniteSetsExt

CONSTANTS
    Invocations,        \* calls of runPvdmWorkload, each used once
    Sources,            \* inputs (source_rows) a caller sends under the workload_id
    MaxChunks,          \* bound on the number of chunks of an input
    ChunkCount,         \* input -> number of chunks left after the row filter
    Malformed,          \* inputs that are empty or whose fields do not resolve
    None,               \* no file at a staging path, no input of an unused call
    Overlap,            \* TRUE: a call may start while another one still runs
    MayCrashAt,         \* program points at which the process may die
    HostMayBeReplaced,  \* TRUE: a later call may find an empty local disk
    SaveMayFail         \* TRUE: saving a state file may throw

Chunk == 0 .. MaxChunks - 1

ASSUME SourcesAssumption ==
    /\ MaxChunks \in Nat
    /\ ChunkCount \in [Sources -> 0 .. MaxChunks]
    /\ Malformed \subseteq Sources
    /\ None \notin Sources

ASSUME EnvironmentAssumption ==
    /\ Overlap \in BOOLEAN
    /\ HostMayBeReplaced \in BOOLEAN
    /\ SaveMayFail \in BOOLEAN
    /\ MayCrashAt \subseteq {"loop", "readback", "verify", "burn", "record"}

VARIABLES
    \* shared, on the host's disk
    logOutcome,   \* durable log: outcome of the workload
    logChunks,    \* durable log: the drafts recorded as "verified"
    logSnapshot,  \* durable log: snapshot_id of the committed workload
    files,        \* staging file of every chunk
    ledger,       \* nonce ledger
    catalog,      \* snapshot_id of the table in the catalog state file
    \* shared, off the host
    transparency, \* proofs appended to the transparency log
    \* one per invocation, in memory
    pc, source, from, next, written, drafts, gated,
    \* one per invocation, what it returned
    outcome, resumeAt, snapshot,
    \* history, not part of the program
    passed,       \* drafts whose VRP verdict was PASS
    published,    \* the snapshots made visible in the catalog
    acked         \* invocations that burned the nonces of their snapshot

durable == <<logOutcome, logChunks, logSnapshot>>
disk == <<durable, files, ledger, catalog>>
memory == <<source, from, next, written, drafts, gated>>
reply == <<outcome, resumeAt, snapshot>>
history == <<passed, published, acked>>
vars == <<disk, transparency, pc, memory, reply, history>>

-----------------------------------------------------------------------------
(* Types *)

\* A verified chunk.  generateVRP draws a fresh nonce per proof, and a call
\* proves a chunk at most once: the nonce is the pair (by, chunk).
Draft == [chunk : Chunk, by : Invocations, src : Sources]
Nonce == [chunk : Chunk, by : Invocations]
NonceOf(d) == [chunk |-> d.chunk, by |-> d.by]

\* What one call of commitIcebergSnapshot makes readable.
Publication == [by : Invocations, src : Sources, snapshot : Nat, drafts : SUBSET Draft]

FailOutcomes == {"verification_failed", "signing_failed", "publish_blocked"}
Outcomes == FailOutcomes \cup {"committed", "rolled_back", "unverified"}

TypeOK ==
    /\ logOutcome \in FailOutcomes \cup {"none", "in_progress", "committed"}
    /\ logChunks \in SUBSET Draft
    /\ logSnapshot \in Nat
    /\ files \in [Chunk -> Sources \cup {None}]
    /\ ledger \in SUBSET Nonce
    /\ catalog \in Nat
    /\ transparency \in SUBSET Draft
    /\ pc \in [Invocations -> {"idle", "loop", "readback", "verify", "burn",
                               "record", "done", "crashed"}]
    /\ source \in [Invocations -> Sources \cup {None}]
    /\ from \in [Invocations -> 0 .. MaxChunks]
    /\ next \in [Invocations -> 0 .. MaxChunks]
    /\ written \in [Invocations -> SUBSET Chunk]
    /\ drafts \in [Invocations -> SUBSET Draft]
    /\ gated \in [Invocations -> SUBSET Draft]
    /\ outcome \in [Invocations -> Outcomes \cup {"none"}]
    /\ resumeAt \in [Invocations -> 0 .. MaxChunks]
    /\ snapshot \in [Invocations -> Nat]
    /\ passed \in SUBSET Draft
    /\ published \in SUBSET Publication
    /\ acked \in SUBSET Invocations

Init ==
    /\ logOutcome = "none" /\ logChunks = {} /\ logSnapshot = 0
    /\ files = [c \in Chunk |-> None]
    /\ ledger = {} /\ catalog = 0 /\ transparency = {}
    /\ pc = [i \in Invocations |-> "idle"]
    /\ source = [i \in Invocations |-> None]
    /\ from = [i \in Invocations |-> 0]
    /\ next = [i \in Invocations |-> 0]
    /\ written = [i \in Invocations |-> {}]
    /\ drafts = [i \in Invocations |-> {}]
    /\ gated = [i \in Invocations |-> {}]
    /\ outcome = [i \in Invocations |-> "none"]
    /\ resumeAt = [i \in Invocations |-> 0]
    /\ snapshot = [i \in Invocations |-> 0]
    /\ passed = {} /\ published = {} /\ acked = {}

-----------------------------------------------------------------------------
(* State helpers *)

Running == {"loop", "readback", "verify", "burn", "record"}
Active == {i \in Invocations : pc[i] \in Running}

ChunksOf(D) == {d.chunk : d \in D}
NoncesOf(D) == {NonceOf(d) : d \in D}

\* Offsets a caller has in hand: 0, or what a rolled_back call returned.
Offered ==
    {0} \cup {resumeAt[i] : i \in {j \in Invocations : outcome[j] = "rolled_back"}}

\* Chunks the write loop still has to go through.
Pending(i) ==
    {c \in Chunk : /\ next[i] <= c
                   /\ c < ChunkCount[source[i]]
                   /\ c \notin ChunksOf(drafts[i])}

AtMetadata(i) == pc[i] = "loop" /\ Pending(i) = {} /\ drafts[i] # {}

\* chunkDrafts: the drafts loaded from the log by chunk id, then the call's own.
Precedes(i, d, e) ==
    IF (d.by = i) = (e.by = i) THEN d.chunk < e.chunk ELSE e.by = i

ToGate(i) == {d \in drafts[i] \ gated[i] :
                 \A e \in drafts[i] \ gated[i] : e # d => Precedes(i, d, e)}

\* The memory of a call goes with it.
Release(i) ==
    /\ source' = [source EXCEPT ![i] = None]
    /\ from' = [from EXCEPT ![i] = 0]
    /\ next' = [next EXCEPT ![i] = 0]
    /\ written' = [written EXCEPT ![i] = {}]
    /\ drafts' = [drafts EXCEPT ![i] = {}]
    /\ gated' = [gated EXCEPT ![i] = {}]

\* Seeded fault: committedChunks is not consulted.
UnlinkedAll(fs, i, committed) ==
    [c \in Chunk |-> IF c \in written[i] \cup committed THEN None ELSE fs[c]]

\* IceGuardWriter.rollback: unlink what this call wrote and did not commit.
Unlinked(fs, i, committed) ==
    [c \in Chunk |-> IF c \in written[i] \ committed THEN None ELSE fs[c]]

\* recordWorkloadFailed and the two fail-closed returns.
FailClosed(i, out) ==
    /\ files' = Unlinked(files, i, ChunksOf(drafts[i]))
    /\ logOutcome' = out
    /\ pc' = [pc EXCEPT ![i] = "done"]
    /\ outcome' = [outcome EXCEPT ![i] = out]
    /\ snapshot' = [snapshot EXCEPT ![i] = 0]
    /\ Release(i)
    /\ UNCHANGED <<logChunks, logSnapshot, ledger, catalog, transparency, resumeAt, history>>

\* Seeded fault: an off-by-one in the chunk id.
SkippingOffset(i, committed) ==
    IF committed = {} THEN from[i] ELSE Max(committed) + 2

\* nextResumeOffset: the chunk after the last committed one.
NextResumeOffset(i, committed) ==
    IF committed = {} THEN from[i] ELSE Max(committed) + 1

\* The catch-all return: roll back, tell the caller where to resume.
RollBack(i, fs, committed) ==
    /\ files' = Unlinked(fs, i, committed)
    /\ pc' = [pc EXCEPT ![i] = "done"]
    /\ outcome' = [outcome EXCEPT ![i] = "rolled_back"]
    /\ resumeAt' = [resumeAt EXCEPT ![i] = NextResumeOffset(i, committed)]
    /\ snapshot' = [snapshot EXCEPT ![i] = 0]
    /\ Release(i)
    /\ UNCHANGED <<durable, ledger, catalog, transparency, history>>

Return(i, out, snap) ==
    /\ pc' = [pc EXCEPT ![i] = "done"]
    /\ outcome' = [outcome EXCEPT ![i] = out]
    /\ snapshot' = [snapshot EXCEPT ![i] = snap]
    /\ Release(i)
    /\ UNCHANGED <<disk, transparency, resumeAt, history>>

-----------------------------------------------------------------------------
(* Entry of runPvdmWorkload *)

CanStart(i, o) ==
    /\ pc[i] = "idle"
    /\ Overlap \/ Active = {}
    /\ o \in Offered

\* No rows, or identity and content fields that do not resolve: no state changes.
RefuseInput(i, s, o) ==
    /\ CanStart(i, o) /\ s \in Malformed
    /\ \E out \in {"unverified", "verification_failed"} : Return(i, out, 0)

\* Seeded fault: any workload that did not fail is replayed.
ReplayUnlessFailed(i, s, o) ==
    /\ CanStart(i, o) /\ s \notin Malformed
    /\ logOutcome \in {"in_progress", "committed"}
    /\ Return(i, "committed", logSnapshot)

\* The workload is already committed in the durable log.
ReplayCommitted(i, s, o) ==
    /\ CanStart(i, o) /\ s \notin Malformed
    /\ logOutcome = "committed"
    /\ Return(i, "committed", logSnapshot)

\* The row filter left nothing.
AllFiltered(i, s, o) ==
    /\ CanStart(i, o) /\ s \notin Malformed
    /\ logOutcome # "committed" /\ ChunkCount[s] = 0
    /\ Return(i, "unverified", 0)

\* Seeded fault: the reply carries no resume_offset.
FilterThrowsForgetsOffset(i, s, o) ==
    /\ CanStart(i, o) /\ s \notin Malformed
    /\ logOutcome # "committed"
    /\ pc' = [pc EXCEPT ![i] = "done"]
    /\ outcome' = [outcome EXCEPT ![i] = "rolled_back"]
    /\ resumeAt' = [resumeAt EXCEPT ![i] = 0]
    /\ UNCHANGED <<disk, transparency, memory, snapshot, history>>

\* The rules of the row filter cannot be read: nothing is loaded or rolled back yet.
FilterThrows(i, s, o) ==
    /\ CanStart(i, o) /\ s \notin Malformed
    /\ logOutcome # "committed"
    /\ pc' = [pc EXCEPT ![i] = "done"]
    /\ outcome' = [outcome EXCEPT ![i] = "rolled_back"]
    /\ resumeAt' = [resumeAt EXCEPT ![i] = o]
    /\ UNCHANGED <<disk, transparency, memory, snapshot, history>>

\* Seeded fault: the durable log is not read.
LoadIgnoresLog(i, s, o) ==
    /\ CanStart(i, o) /\ s \notin Malformed
    /\ ChunkCount[s] # 0
    /\ pc' = [pc EXCEPT ![i] = "loop"]
    /\ source' = [source EXCEPT ![i] = s]
    /\ from' = [from EXCEPT ![i] = o]
    /\ next' = [next EXCEPT ![i] = o]
    /\ UNCHANGED <<disk, transparency, written, drafts, gated, reply, history>>

\* Load the verified drafts of earlier calls and enter the write loop.
Load(i, s, o) ==
    /\ CanStart(i, o) /\ s \notin Malformed
    /\ logOutcome # "committed" /\ ChunkCount[s] # 0
    /\ pc' = [pc EXCEPT ![i] = "loop"]
    /\ source' = [source EXCEPT ![i] = s]
    /\ from' = [from EXCEPT ![i] = o]
    /\ next' = [next EXCEPT ![i] = o]
    /\ drafts' = [drafts EXCEPT ![i] = logChunks]
    /\ UNCHANGED <<disk, transparency, written, gated, reply, history>>

Invoke(i, s, o) ==
    \/ RefuseInput(i, s, o)
    \/ ReplayCommitted(i, s, o)
    \/ AllFiltered(i, s, o)
    \/ FilterThrows(i, s, o)
    \/ Load(i, s, o)

-----------------------------------------------------------------------------
(* The write loop: Physical, Verify, Durable *)

\* Write the next chunk to its staging path, which all calls of the workload share.
WriteChunk(i) ==
    /\ pc[i] = "loop" /\ Pending(i) # {}
    /\ LET c == Min(Pending(i)) IN
        /\ files' = [files EXCEPT ![c] = source[i]]
        /\ next' = [next EXCEPT ![i] = c]
        /\ written' = [written EXCEPT ![i] = @ \cup {c}]
    /\ pc' = [pc EXCEPT ![i] = "readback"]
    /\ UNCHANGED <<durable, ledger, catalog, transparency, source, from, drafts, gated,
                   reply, history>>

\* The file is written, but its upload throws: no checkpoint, so no unlink.
UploadThrows(i) ==
    /\ pc[i] = "loop" /\ Pending(i) # {}
    /\ RollBack(i, [files EXCEPT ![Min(Pending(i))] = source[i]], ChunksOf(drafts[i]))

\* The time budget is used up; or writing, reading back (another call's rollback
\* may have removed the file), proving or recording a failure throws.
LoopThrows(i) ==
    /\ pc[i] \in {"loop", "readback", "verify"}
    /\ pc[i] = "loop" => Pending(i) # {}
    /\ RollBack(i, files, ChunksOf(drafts[i]))

\* Read the file back: the bytes must be the ones this call wrote.
ReadBack(i) ==
    /\ pc[i] = "readback"
    /\ files[next[i]] = source[i]
    /\ pc' = [pc EXCEPT ![i] = "verify"]
    /\ UNCHANGED <<disk, transparency, memory, reply, history>>

ReadBackMismatch(i) ==
    /\ pc[i] = "readback"
    /\ files[next[i]] \notin {source[i], None}
    /\ FailClosed(i, "verification_failed")

NewDraft(i) == [chunk |-> next[i], by |-> i, src |-> source[i]]

\* Seeded fault: the record of the chunk replaces the chunks recorded before.
VerifyPassOverwrites(i) ==
    /\ pc[i] = "verify"
    /\ LET d == NewDraft(i) IN
        /\ logChunks' = {d}
        /\ drafts' = [drafts EXCEPT ![i] = @ \cup {d}]
        /\ passed' = passed \cup {d}
    /\ logOutcome' = "in_progress"
    /\ next' = [next EXCEPT ![i] = @ + 1]
    /\ pc' = [pc EXCEPT ![i] = "loop"]
    /\ UNCHANGED <<logSnapshot, files, ledger, catalog, transparency, source, from,
                   written, gated, reply, published, acked>>

\* VRP PASS: commitChunk, then recordChunkVerified, which re-opens the workload.
VerifyPass(i) ==
    /\ pc[i] = "verify"
    /\ LET d == NewDraft(i) IN
        /\ logChunks' = {e \in logChunks : e.chunk # d.chunk} \cup {d}
        /\ drafts' = [drafts EXCEPT ![i] = @ \cup {d}]
        /\ passed' = passed \cup {d}
    /\ logOutcome' = "in_progress"
    /\ next' = [next EXCEPT ![i] = @ + 1]
    /\ pc' = [pc EXCEPT ![i] = "loop"]
    /\ UNCHANGED <<logSnapshot, files, ledger, catalog, transparency, source, from,
                   written, gated, reply, published, acked>>

\* VRP PASS, but recordChunkVerified throws: commitChunk has counted the chunk.
RecordChunkThrows(i) ==
    /\ pc[i] = "verify" /\ SaveMayFail
    /\ RollBack(i, files, ChunksOf(drafts[i]) \cup {next[i]})

\* Seeded fault: the chunk is recorded and kept before the verdict is looked at.
RecordsBeforeVerdict(i) ==
    /\ pc[i] = "verify"
    /\ logChunks' = {e \in logChunks : e.chunk # next[i]} \cup {NewDraft(i)}
    /\ logOutcome' = "verification_failed"
    /\ pc' = [pc EXCEPT ![i] = "done"]
    /\ outcome' = [outcome EXCEPT ![i] = "verification_failed"]
    /\ Release(i)
    /\ UNCHANGED <<logSnapshot, files, ledger, catalog, transparency, resumeAt, snapshot,
                   history>>

\* VRP FAIL, or the proof could not be made or signed.
VerifyFail(i) ==
    /\ pc[i] = "verify"
    /\ \E out \in FailOutcomes : FailClosed(i, out)

\* The loop ended without a draft, stored or new.
NothingToCommit(i) ==
    /\ pc[i] = "loop" /\ Pending(i) = {} /\ drafts[i] = {}
    /\ Return(i, "unverified", 0)

-----------------------------------------------------------------------------
(* The metadata phase *)

\* Seeded fault: proofGatedCommit is called with consumeNonce.
GateConsumesNonce(i) ==
    /\ AtMetadata(i)
    /\ \E d \in ToGate(i) :
        /\ NonceOf(d) \notin ledger
        /\ files[d.chunk] = d.src
        /\ gated' = [gated EXCEPT ![i] = @ \cup {d}]
        /\ transparency' = transparency \cup {d}
        /\ ledger' = ledger \cup {NonceOf(d)}
    /\ UNCHANGED <<durable, files, catalog, pc, source, from, next, written, drafts, reply,
                   history>>

\* proofGatedCommit passes; the proof is appended to the transparency log and stored.
GateDraft(i) ==
    /\ AtMetadata(i)
    /\ \E d \in ToGate(i) :
        /\ NonceOf(d) \notin ledger
        /\ files[d.chunk] = d.src
        /\ gated' = [gated EXCEPT ![i] = @ \cup {d}]
        /\ transparency' = transparency \cup {d}
    /\ UNCHANGED <<disk, pc, source, from, next, written, drafts, reply, history>>

\* The nonce is in the ledger, or the signature, target or source snapshot of
\* the proof is not accepted.
GateRefuses(i) ==
    /\ AtMetadata(i) /\ ToGate(i) # {}
    /\ FailClosed(i, "verification_failed")

\* The bytes are gone or changed, or the transparency log or the proof store
\* refused, the proof of the last draft too.
PublishBlocked(i) ==
    /\ AtMetadata(i)
    /\ FailClosed(i, "publish_blocked")

\* commitIcebergSnapshot: the snapshot becomes readable by consumers.
Publish(i) ==
    /\ AtMetadata(i) /\ gated[i] = drafts[i]
    /\ catalog' = catalog + 1
    /\ snapshot' = [snapshot EXCEPT ![i] = catalog + 1]
    /\ published' = published \cup
         {[by |-> i, src |-> source[i], snapshot |-> catalog + 1, drafts |-> drafts[i]]}
    /\ pc' = [pc EXCEPT ![i] = "burn"]
    /\ UNCHANGED <<durable, files, ledger, transparency, memory, outcome, resumeAt,
                   passed, acked>>

\* Storing a proof or saving the catalog state throws before the publication.
MetadataThrows(i) ==
    /\ AtMetadata(i)
    /\ RollBack(i, files, ChunksOf(drafts[i]))

\* Seeded fault: nonces are added without looking whether they are in the ledger.
BurnUnchecked(i) ==
    /\ pc[i] = "burn"
    /\ ledger' = ledger \cup NoncesOf(drafts[i])
    /\ acked' = acked \cup {i}
    /\ pc' = [pc EXCEPT ![i] = "record"]
    /\ UNCHANGED <<durable, files, catalog, transparency, memory, reply, passed, published>>

\* commitNonces: all nonces of the snapshot, or none.
BurnNonces(i) ==
    /\ pc[i] = "burn"
    /\ NoncesOf(drafts[i]) \cap ledger = {}
    /\ ledger' = ledger \cup NoncesOf(drafts[i])
    /\ acked' = acked \cup {i}
    /\ pc' = [pc EXCEPT ![i] = "record"]
    /\ UNCHANGED <<durable, files, catalog, transparency, memory, reply, passed, published>>

BurnRefused(i) ==
    /\ pc[i] = "burn"
    /\ NoncesOf(drafts[i]) \cap ledger # {}
    /\ FailClosed(i, "verification_failed")

\* Seeded fault: the committed outcome is returned but not recorded.
ReturnsUnrecorded(i) ==
    /\ pc[i] = "record"
    /\ pc' = [pc EXCEPT ![i] = "done"]
    /\ outcome' = [outcome EXCEPT ![i] = "committed"]
    /\ Release(i)
    /\ UNCHANGED <<disk, transparency, resumeAt, snapshot, history>>

\* recordWorkloadCommitted, then the committed reply.
RecordCommitted(i) ==
    /\ pc[i] = "record"
    /\ logOutcome' = "committed"
    /\ logSnapshot' = snapshot[i]
    /\ pc' = [pc EXCEPT ![i] = "done"]
    /\ outcome' = [outcome EXCEPT ![i] = "committed"]
    /\ Release(i)
    /\ UNCHANGED <<logChunks, files, ledger, catalog, transparency, resumeAt, snapshot,
                   history>>

\* Saving the ledger or the durable log throws after the publication.
AcknowledgeThrows(i) ==
    /\ pc[i] \in {"burn", "record"} /\ SaveMayFail
    /\ RollBack(i, files, ChunksOf(drafts[i]))

\* Recording a failure throws inside the catch block: files are rolled back, the
\* call rejects and its caller gets no outcome.
FailureNotRecorded(i) ==
    /\ SaveMayFail
    /\ pc[i] \in {"verify", "burn"} \/ AtMetadata(i)
    /\ files' = Unlinked(files, i, ChunksOf(drafts[i]))
    /\ pc' = [pc EXCEPT ![i] = "crashed"]
    /\ snapshot' = [snapshot EXCEPT ![i] = 0]
    /\ Release(i)
    /\ UNCHANGED <<durable, ledger, catalog, transparency, outcome, resumeAt, history>>

-----------------------------------------------------------------------------
(* Environment *)

\* The process dies (Lambda timeout, eviction, kill): nothing is rolled back.
Crash(i) ==
    /\ pc[i] \in MayCrashAt
    /\ pc' = [pc EXCEPT ![i] = "crashed"]
    /\ snapshot' = [snapshot EXCEPT ![i] = 0]
    /\ Release(i)
    /\ UNCHANGED <<disk, transparency, outcome, resumeAt, history>>

\* Once no call runs (those that did have died), the next one lands on another
\* host, with an empty disk.
ReplaceHost ==
    /\ HostMayBeReplaced
    /\ logOutcome' = "none" /\ logChunks' = {} /\ logSnapshot' = 0
    /\ files' = [c \in Chunk |-> None]
    /\ ledger' = {} /\ catalog' = 0
    /\ Active = {}
    /\ UNCHANGED <<transparency, pc, memory, reply, history>>

\* Everything an invocation does once it has been called.
Step(i) ==
    \/ WriteChunk(i) \/ UploadThrows(i) \/ LoopThrows(i)
    \/ ReadBack(i) \/ ReadBackMismatch(i)
    \/ VerifyPass(i) \/ RecordChunkThrows(i) \/ VerifyFail(i)
    \/ NothingToCommit(i)
    \/ GateDraft(i) \/ GateRefuses(i) \/ PublishBlocked(i) \/ MetadataThrows(i)
    \/ Publish(i)
    \/ BurnNonces(i) \/ BurnRefused(i) \/ RecordCommitted(i) \/ AcknowledgeThrows(i)
    \/ FailureNotRecorded(i)

Next ==
    \/ \E i \in Invocations, s \in Sources, o \in 0 .. MaxChunks : Invoke(i, s, o)
    \/ \E i \in Invocations : Step(i) \/ Crash(i)
    \/ ReplaceHost

Spec == Init /\ [][Next]_vars

-----------------------------------------------------------------------------
(* Safety, whatever the environment does *)

\* A snapshot is made visible only from chunks whose proof was PASS and is in
\* the transparency log, also when the chunks come from the durable log of an
\* earlier call ("commit_metadata => VRP = PASS" for every committed chunk).
PublishedIsVerified ==
    \A p \in published :
        /\ p.drafts # {}
        /\ p.drafts \subseteq passed
        /\ p.drafts \subseteq transparency

\* A nonce is in the ledger only if a snapshot with its chunk was published
\* before ("burned only after the catalog publish succeeds"): a call that
\* fails earlier leaves its proofs usable by the resume.
BurnedOnlyAfterPublish ==
    \A n \in ledger : \E p \in published : n \in NoncesOf(p.drafts)

\* Whoever is told "committed", by the call that published or by a replay from
\* the durable log, is given the id of a snapshot that was published and whose
\* nonces were burned.
CommittedNamesASnapshot ==
    \A i \in Invocations : outcome[i] = "committed" =>
        \E p \in published : p.by \in acked /\ p.snapshot = snapshot[i]

-----------------------------------------------------------------------------
(* Safety on one host whose disk does not lose writes *)

\* A proof is acknowledged by one snapshot only, however many calls loaded it
\* from the durable log and published it at the same time.
NonceBurnedOnce ==
    \A p, q \in published :
        p # q /\ {p.by, q.by} \subseteq acked => NoncesOf(p.drafts) \cap NoncesOf(q.drafts) = {}

\* A published snapshot holds every chunk of the input it was made from.
PublishedIsComplete ==
    \A p \in published :
        \A c \in Chunk : c < ChunkCount[p.src] => c \in ChunksOf(p.drafts)

\* The resume_offset a rolled_back call returns skips no chunk that is not in
\* the durable log ("first uncommitted chunk start index").
ResumeSkipsOnlyVerified ==
    \A o \in Offered : \A c \in Chunk : c < o => c \in ChunksOf(logChunks)

-----------------------------------------------------------------------------
(* Safety when calls do not overlap *)

\* The workload is published at most once.
CommitsOnce == Cardinality(published) <= 1

\* A workload that the durable log calls committed stays committed.
CommittedStays == [][logOutcome = "committed" => logOutcome' = "committed"]_durable

\* No rollback removes or changes the staging file of a chunk that the durable log
\* calls verified: a resume finds the bytes its stored proofs were made from.
VerifiedBytesStay == \A d \in logChunks : files[d.chunk] = d.src

\* When a snapshot becomes visible, the staging files hold the bytes its
\* proofs were made from (norm N4 of docs/vaquar-pattern.md).
PublishedBytesAreVerified ==
    [][\A p \in published' \ published :
        \A d \in p.drafts : files[d.chunk] = d.src]_vars
-----------------------------------------------------------------------------
(* What the runtime implements *)

Gate == INSTANCE ProofGatedPublication WITH LedgerIsDurable <- ~HostMayBeReplaced

\* Under every interleaving of calls, crashes and resumes the runtime is a
\* proof-gated publication: files, durable log and offsets are its detail.
RefinesGate == Gate!Spec
=============================================================================
