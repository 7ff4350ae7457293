-------------------------- MODULE PvdmResumeProofs --------------------------
(***************************************************************************)
(* What a resume skips, what it finds, and that it does not commit again,  *)
(* for every value of the constants.  First, however many calls overlap    *)
(* and wherever they die, on one host whose saves do not fail: the chunks  *)
(* in the durable log, and the chunks every call holds, are prefixes of    *)
(* the offsets.  Then for calls that do not overlap: the bytes of what was *)
(* recorded stay, and the workload is published once.                      *)
(***************************************************************************)
EXTENDS PvdmRuntimeProofs

\* Every chunk before offset n is in S.
Reaches(n, S) == \A c \in Chunk : c < n => c \in S

\* The durable log has no gap.
LogIsPrefix == \A c \in ChunksOf(logChunks) : Reaches(c, ChunksOf(logChunks))

\* What a call holds has no gap and is in the durable log.
DraftsArePrefix ==
    \A i \in Invocations : \A c \in ChunksOf(drafts[i]) :
        c \in ChunksOf(logChunks) /\ Reaches(c, ChunksOf(drafts[i]))

\* The write loop has passed no chunk that the call does not hold, and a call began
\* where the durable log reached.
CursorsArePrefix ==
    \A i \in Invocations :
        Reaches(next[i], ChunksOf(drafts[i])) /\ Reaches(from[i], ChunksOf(logChunks))

Prefix ==
    /\ LogIsPrefix /\ DraftsArePrefix /\ CursorsArePrefix
    /\ ResumeSkipsOnlyVerified /\ PublishedIsComplete

LEMMA InitPrefix == Init => Prefix
<1>1. Init => Offered = {0}
  BY DEF Init, Offered
<1>2. \A c \in Chunk : ~(c < 0)
  BY SourcesAssumption DEF Chunk
<1>3. Init => ResumeSkipsOnlyVerified
  BY <1>1, <1>2 DEF ResumeSkipsOnlyVerified
<1>4. Init => CursorsArePrefix
  BY <1>2 DEF Init, CursorsArePrefix, Reaches
<1>5. Init => LogIsPrefix /\ DraftsArePrefix /\ PublishedIsComplete
  BY DEF Init, LogIsPrefix, DraftsArePrefix, PublishedIsComplete, ChunksOf
<1>. QED
  BY <1>3, <1>4, <1>5 DEF Prefix

-----------------------------------------------------------------------------
(* What the log may do, and how a call may end *)

\* The offset a rolled back call returns is reached by the durable log.
LEMMA OffsetIsReached ==
    ASSUME Types, Prefix, NEW i \in Invocations
    PROVE  Reaches(NextResumeOffset(i, ChunksOf(drafts[i])), ChunksOf(logChunks))
<1>. DEFINE held == ChunksOf(drafts[i])
<1>1. CASE held = {}
  BY <1>1 DEF NextResumeOffset, Prefix, CursorsArePrefix
<1>2. CASE held # {}
  <2>1. held \subseteq Chunk
    BY ChunksOfType DEF Types, TypeOK
  <2>2. MaxChunks - 1 \in Nat
    BY <1>2, <2>1, SourcesAssumption DEF Chunk
  <2>3. Max(held) \in held
    BY <1>2, <2>1, <2>2, MaxOfBounded DEF Chunk
  <2>4. NextResumeOffset(i, held) = Max(held) + 1
    BY <1>2 DEF NextResumeOffset
  <2>5. Max(held) \in ChunksOf(logChunks) /\ Reaches(Max(held), ChunksOf(logChunks))
    BY <2>3 DEF Prefix, DraftsArePrefix, LogIsPrefix
  <2>6. ASSUME NEW c \in Chunk, c < Max(held) + 1 PROVE c \in ChunksOf(logChunks)
    <3>1. Max(held) \in Nat /\ c \in Nat
      BY <2>1, <2>3, SourcesAssumption DEF Chunk
    <3>2. c < Max(held) \/ c = Max(held)
      BY <2>6, <3>1
    <3>. QED
      BY <2>5, <3>2 DEF Reaches
  <2>. QED
    BY <2>4, <2>6 DEF Reaches
<1>. QED
  BY <1>1, <1>2

\* A call that ends and leaves the log and the publications alone, with an offset
\* that the log reaches if it hands one out.
LEMMA EndsPrefix ==
    ASSUME Types, Prefix, NEW i \in Invocations, Release(i), NEW out, NEW off,
           \/ UNCHANGED <<outcome, resumeAt>>
           \/ /\ outcome' = [outcome EXCEPT ![i] = out] /\ out # "rolled_back"
              /\ UNCHANGED resumeAt
           \/ /\ outcome' = [outcome EXCEPT ![i] = out]
              /\ resumeAt' = [resumeAt EXCEPT ![i] = off]
              /\ Reaches(off, ChunksOf(logChunks)),
           UNCHANGED <<logChunks, published>>
    PROVE  Prefix'
<1>. USE DEF Types, TypeOK, Release, Prefix
<1>1. LogIsPrefix' /\ PublishedIsComplete'
  BY DEF LogIsPrefix, Reaches, PublishedIsComplete
<1>2. DraftsArePrefix'
  <2>1. ChunksOf({}) = {}
    BY DEF ChunksOf
  <2>2. \A j \in Invocations : drafts'[j] = IF j = i THEN {} ELSE drafts[j]
    OBVIOUS
  <2>. QED
    BY <2>1, <2>2 DEF DraftsArePrefix, Reaches
<1>3. CursorsArePrefix'
  <2>1. \A c \in Chunk : ~(c < 0)
    BY SourcesAssumption DEF Chunk
  <2>2. ASSUME NEW j \in Invocations
        PROVE  Reaches(next[j], ChunksOf(drafts[j]))' /\ Reaches(from[j], ChunksOf(logChunks))'
    <3>1. CASE j = i
      BY <2>1, <3>1 DEF Reaches
    <3>2. CASE j # i
      BY <3>2 DEF CursorsArePrefix, Reaches
    <3>. QED
      BY <3>1, <3>2
  <2>. QED
    BY <2>2 DEF CursorsArePrefix
<1>4. ResumeSkipsOnlyVerified'
  <2>1. \A o \in Offered' : o \in Offered \/ Reaches(o, ChunksOf(logChunks))
    BY DEF Offered
  <2>. QED
    BY <2>1 DEF ResumeSkipsOnlyVerified, Reaches
<1>. QED
  BY <1>1, <1>2, <1>3, <1>4

LEMMA FailClosedPrefix ==
    ASSUME Types, Prefix, NEW i \in Invocations, NEW out \in FailOutcomes, FailClosed(i, out)
    PROVE  Prefix'
BY EndsPrefix DEF FailClosed, FailOutcomes, history

LEMMA RollBackPrefix ==
    ASSUME Types, Prefix, NEW i \in Invocations, NEW fs,
           RollBack(i, fs, ChunksOf(drafts[i]))
    PROVE  Prefix'
BY EndsPrefix, OffsetIsReached DEF RollBack, durable, history

LEMMA ReturnPrefix ==
    ASSUME Types, Prefix, NEW i \in Invocations, NEW out, NEW snap,
           out # "rolled_back", Return(i, out, snap)
    PROVE  Prefix'
BY EndsPrefix DEF Return, disk, durable, history

\* Steps that leave alone everything the invariant speaks of.
LEMMA UnrelatedPrefix ==
    ASSUME Prefix,
           UNCHANGED <<logChunks, source, from, next, drafts, outcome, resumeAt, published>>
    PROVE  Prefix'
BY DEF Prefix, LogIsPrefix, DraftsArePrefix, CursorsArePrefix, ResumeSkipsOnlyVerified,
    PublishedIsComplete, Offered, Reaches

-----------------------------------------------------------------------------
(* The steps *)

LEMMA InvokePrefix ==
    ASSUME Types, Prefix, NEW i \in Invocations, NEW s \in Sources, NEW o \in 0 .. MaxChunks,
           Invoke(i, s, o)
    PROVE  Prefix'
<1>. USE DEF Types, TypeOK, Prefix
<1>1. CASE RefuseInput(i, s, o) \/ ReplayCommitted(i, s, o) \/ AllFiltered(i, s, o)
  BY <1>1, ReturnPrefix DEF RefuseInput, ReplayCommitted, AllFiltered
<1>2. CanStart(i, o) => Reaches(o, ChunksOf(logChunks))
  BY DEF CanStart, ResumeSkipsOnlyVerified, Reaches
<1>3. CASE FilterThrows(i, s, o)
  <2>. USE <1>3 DEF FilterThrows, disk, durable, memory, history
  <2>1. LogIsPrefix' /\ DraftsArePrefix' /\ CursorsArePrefix' /\ PublishedIsComplete'
    BY DEF LogIsPrefix, DraftsArePrefix, CursorsArePrefix, PublishedIsComplete, Reaches
  <2>2. \A p \in Offered' : p \in Offered \/ p = o
    BY DEF Offered
  <2>3. ResumeSkipsOnlyVerified'
    BY <1>2, <2>2 DEF ResumeSkipsOnlyVerified, Reaches
  <2>. QED
    BY <2>1, <2>3
<1>4. CASE Load(i, s, o)
  <2>. USE <1>4 DEF Load, disk, durable, reply, history
  <2>1. LogIsPrefix' /\ PublishedIsComplete'
    BY DEF LogIsPrefix, PublishedIsComplete, Reaches
  <2>2. Offered' = Offered
    BY DEF Offered
  <2>3. ResumeSkipsOnlyVerified'
    BY <2>2 DEF ResumeSkipsOnlyVerified
  <2>4. \A j \in Invocations :
            IF j = i THEN drafts'[j] = logChunks /\ next'[j] = o /\ from'[j] = o
                     ELSE drafts'[j] = drafts[j] /\ next'[j] = next[j] /\ from'[j] = from[j]
    OBVIOUS
  <2>5. DraftsArePrefix'
    <3>1. ASSUME NEW j \in Invocations, NEW c \in ChunksOf(drafts'[j])
          PROVE  c \in ChunksOf(logChunks) /\ Reaches(c, ChunksOf(drafts'[j]))
      <4>1. CASE j = i
        BY <2>4, <3>1, <4>1 DEF LogIsPrefix
      <4>2. CASE j # i
        BY <2>4, <3>1, <4>2 DEF DraftsArePrefix
      <4>. QED
        BY <4>1, <4>2
    <3>. QED
      BY <3>1 DEF DraftsArePrefix, Reaches
  <2>6. CursorsArePrefix'
    <3>1. ASSUME NEW j \in Invocations
          PROVE  Reaches(next'[j], ChunksOf(drafts'[j])) /\ Reaches(from'[j], ChunksOf(logChunks))
      <4>1. CASE j = i
        BY <1>2, <2>4, <4>1
      <4>2. CASE j # i
        BY <2>4, <4>2 DEF CursorsArePrefix
      <4>. QED
        BY <4>1, <4>2
    <3>. QED
      BY <3>1 DEF CursorsArePrefix, Reaches
  <2>. QED
    BY <2>1, <2>3, <2>5, <2>6
<1>. QED
  BY <1>1, <1>3, <1>4 DEF Invoke

\* The loop takes the first chunk it does not hold, so it passes none.
LEMMA WriteChunkPrefix ==
    ASSUME Types, Prefix, NEW i \in Invocations, WriteChunk(i)
    PROVE  Prefix'
<1>. DEFINE k == Min(Pending(i))
<1>1. k \in Pending(i) /\ (\A x \in Pending(i) : k <= x)
  <2>1. Pending(i) # {}
    BY DEF WriteChunk
  <2>2. Pending(i) \subseteq Chunk
    BY <2>1, PendingType
  <2>3. Pending(i) \subseteq Nat
    BY <2>2, SourcesAssumption DEF Chunk
  <2>. QED
    BY <2>1, <2>3, MinOfNaturals
<1>. USE DEF Types, TypeOK, Prefix
<1>2. Reaches(k, ChunksOf(drafts[i]))
  <2>1. ASSUME NEW c \in Chunk, c < k, c \notin ChunksOf(drafts[i]) PROVE FALSE
    <3>1. ~(c < next[i])
      BY <2>1 DEF CursorsArePrefix, Reaches
    <3>2. source[i] \in Sources
      BY DEF WriteChunk, InCall, Running
    <3>3. ChunkCount[source[i]] \in Nat /\ next[i] \in Nat /\ c \in Nat /\ k \in Nat
      BY <1>1, <3>2, SourcesAssumption DEF Chunk, Pending
    <3>4. k < ChunkCount[source[i]]
      BY <1>1 DEF Pending
    <3>5. c \in Pending(i)
      BY <2>1, <3>1, <3>3, <3>4 DEF Pending
    <3>. QED
      BY <1>1, <2>1, <3>3, <3>5
  <2>. QED
    BY <2>1 DEF Reaches
<1>. HIDE DEF k
<1>3. /\ next' = [next EXCEPT ![i] = k]
      /\ UNCHANGED <<logChunks, from, drafts, outcome, resumeAt, published>>
  BY DEF WriteChunk, k, durable, reply, history
<1>4. LogIsPrefix' /\ DraftsArePrefix' /\ PublishedIsComplete'
  BY <1>3 DEF LogIsPrefix, DraftsArePrefix, PublishedIsComplete, Reaches
<1>5. ResumeSkipsOnlyVerified'
  BY <1>3 DEF ResumeSkipsOnlyVerified, Offered
<1>6. CursorsArePrefix'
  <2>1. ASSUME NEW j \in Invocations
        PROVE  Reaches(next'[j], ChunksOf(drafts[j])) /\ Reaches(from[j], ChunksOf(logChunks))
    <3>1. CASE j = i
      BY <1>2, <1>3, <3>1 DEF CursorsArePrefix
    <3>2. CASE j # i
      BY <1>3, <3>2 DEF CursorsArePrefix
    <3>. QED
      BY <3>1, <3>2
  <2>. QED
    BY <1>3, <2>1 DEF CursorsArePrefix, Reaches
<1>. QED
  BY <1>4, <1>5, <1>6

\* Recording a chunk extends the log and the call by the same chunk, and takes no
\* chunk out of the log (it may replace the draft of another call).
LEMMA VerifyPassPrefix ==
    ASSUME Types, Prefix, NEW i \in Invocations, VerifyPass(i)
    PROVE  Prefix'
<1>. DEFINE n == next[i]
            d == NewDraft(i)
<1>. USE DEF Types, TypeOK, Prefix
<1>1. n \in Chunk /\ d.chunk = n /\ n \in Nat
  BY SourcesAssumption DEF VerifyPass, InCall, NewDraft, Chunk
<1>2. /\ logChunks' = {e \in logChunks : e.chunk # d.chunk} \cup {d}
      /\ drafts' = [drafts EXCEPT ![i] = @ \cup {d}]
      /\ next' = [next EXCEPT ![i] = n + 1]
      /\ UNCHANGED <<from, outcome, resumeAt, published>>
  BY DEF VerifyPass, reply
<1>. HIDE DEF n, d
<1>3. ChunksOf(logChunks') = ChunksOf(logChunks) \cup {n}
  BY <1>1, <1>2 DEF ChunksOf
<1>4. \A j \in Invocations :
        IF j = i THEN ChunksOf(drafts'[j]) = ChunksOf(drafts[j]) \cup {n} /\ next'[j] = n + 1
                 ELSE drafts'[j] = drafts[j] /\ next'[j] = next[j]
  BY <1>1, <1>2 DEF ChunksOf
<1>5. Reaches(n, ChunksOf(drafts[i])) /\ Reaches(n, ChunksOf(logChunks))
  BY DEF n, CursorsArePrefix, DraftsArePrefix, Reaches
<1>6. LogIsPrefix'
  BY <1>3, <1>5 DEF LogIsPrefix, Reaches
<1>7. DraftsArePrefix'
  <2>1. ASSUME NEW j \in Invocations, NEW c \in ChunksOf(drafts'[j])
        PROVE  c \in ChunksOf(logChunks') /\ Reaches(c, ChunksOf(drafts'[j]))
    <3>1. CASE j = i
      BY <1>3, <1>4, <1>5, <2>1, <3>1 DEF DraftsArePrefix, Reaches
    <3>2. CASE j # i
      BY <1>3, <1>4, <2>1, <3>2 DEF DraftsArePrefix
    <3>. QED
      BY <3>1, <3>2
  <2>. QED
    BY <2>1 DEF DraftsArePrefix, Reaches
<1>8. CursorsArePrefix'
  <2>1. ASSUME NEW j \in Invocations
        PROVE  Reaches(next'[j], ChunksOf(drafts'[j])) /\ Reaches(from[j], ChunksOf(logChunks'))
    <3>1. Reaches(from[j], ChunksOf(logChunks'))
      BY <1>3 DEF CursorsArePrefix, Reaches
    <3>2. CASE j = i
      <4>1. \A c \in Chunk : c < n + 1 => c < n \/ c = n
        BY <1>1, SourcesAssumption DEF Chunk
      <4>. QED
        BY <1>4, <1>5, <3>1, <3>2, <4>1 DEF Reaches
    <3>3. CASE j # i
      BY <1>4, <3>1, <3>3 DEF CursorsArePrefix
    <3>. QED
      BY <3>2, <3>3
  <2>. QED
    BY <1>2, <2>1 DEF CursorsArePrefix, Reaches
<1>9. ResumeSkipsOnlyVerified' /\ PublishedIsComplete'
  BY <1>2, <1>3 DEF ResumeSkipsOnlyVerified, Offered, PublishedIsComplete
<1>. QED
  BY <1>6, <1>7, <1>8, <1>9

\* When the loop ends, the call holds every chunk of its input.
LEMMA PublishPrefix ==
    ASSUME Types, Prefix, NEW i \in Invocations, Publish(i)
    PROVE  Prefix'
<1>. USE DEF Types, TypeOK, Prefix
<1>1. UNCHANGED <<logChunks, from, next, drafts, outcome, resumeAt>>
  BY DEF Publish, durable, memory
<1>2. LogIsPrefix' /\ DraftsArePrefix' /\ CursorsArePrefix'
  BY <1>1 DEF LogIsPrefix, DraftsArePrefix, CursorsArePrefix, Reaches
<1>3. ResumeSkipsOnlyVerified'
  BY <1>1 DEF ResumeSkipsOnlyVerified, Offered
<1>4. ASSUME NEW c \in Chunk, c < ChunkCount[source[i]] PROVE c \in ChunksOf(drafts[i])
  <2>1. c \notin Pending(i)
    BY DEF Publish, AtMetadata
  <2>2. c \in Nat /\ next[i] \in Nat
    BY SourcesAssumption DEF Chunk
  <2>3. c < next[i] \/ c \in ChunksOf(drafts[i])
    BY <1>4, <2>1, <2>2 DEF Pending
  <2>. QED
    BY <2>3 DEF CursorsArePrefix, Reaches
<1>5. PublishedIsComplete'
  BY <1>4 DEF Publish, PublishedIsComplete
<1>. QED
  BY <1>2, <1>3, <1>5

LEMMA StepPrefix ==
    ASSUME ~SaveMayFail, Types, Prefix, NEW i \in Invocations, Step(i)
    PROVE  Prefix'
<1>1. CASE UploadThrows(i) \/ LoopThrows(i) \/ MetadataThrows(i)
  BY <1>1, RollBackPrefix DEF UploadThrows, LoopThrows, MetadataThrows
<1>2. CASE \/ ReadBackMismatch(i) \/ VerifyFail(i) \/ GateRefuses(i) \/ PublishBlocked(i)
           \/ BurnRefused(i)
  BY <1>2, FailClosedPrefix
  DEF ReadBackMismatch, VerifyFail, GateRefuses, PublishBlocked, BurnRefused, FailOutcomes
<1>3. CASE NothingToCommit(i)
  BY <1>3, ReturnPrefix DEF NothingToCommit
<1>4. CASE ReadBack(i) \/ GateDraft(i) \/ BurnNonces(i)
  BY <1>4, UnrelatedPrefix
  DEF ReadBack, GateDraft, BurnNonces, disk, durable, memory, reply, history
<1>5. CASE RecordCommitted(i)
  BY <1>5, EndsPrefix DEF RecordCommitted, history
<1>6. CASE RecordChunkThrows(i) \/ AcknowledgeThrows(i) \/ FailureNotRecorded(i)
  BY <1>6 DEF RecordChunkThrows, AcknowledgeThrows, FailureNotRecorded
<1>. QED
  BY <1>1, <1>2, <1>3, <1>4, <1>5, <1>6, WriteChunkPrefix, VerifyPassPrefix, PublishPrefix
  DEF Step

LEMMA NextPrefix ==
    ASSUME ~SaveMayFail, ~HostMayBeReplaced, Types, Prefix, [Next]_vars
    PROVE  Prefix'
<1>1. ASSUME NEW i \in Invocations, Crash(i) PROVE Prefix'
  BY <1>1, EndsPrefix DEF Crash, disk, durable, history
<1>2. ~ReplaceHost
  BY DEF ReplaceHost
<1>3. CASE UNCHANGED vars
  BY <1>3, UnrelatedPrefix DEF vars, disk, durable, memory, reply, history
<1>. QED
  BY <1>1, <1>2, <1>3, InvokePrefix, StepPrefix DEF Next

-----------------------------------------------------------------------------

\* On one host whose saves do not fail, log and calls hold prefixes, however the
\* calls overlap and wherever they die.
THEOREM PrefixAlways ==
    ASSUME ~SaveMayFail, ~HostMayBeReplaced
    PROVE  Spec => []Prefix
<1>1. Types /\ Prefix /\ [Next]_vars => Prefix'
  BY NextPrefix
<1>. QED
  BY <1>1, InitPrefix, TypesAlways, PTL DEF Spec

\* A published snapshot holds every chunk of its input, those of calls that died
\* or rolled back before included.
THEOREM SnapshotsAreComplete ==
    ASSUME ~SaveMayFail, ~HostMayBeReplaced
    PROVE  Spec => []PublishedIsComplete
<1>1. Prefix => PublishedIsComplete
  BY DEF Prefix
<1>. QED
  BY <1>1, PrefixAlways, PTL

\* No resume_offset skips a chunk that the durable log does not hold.
THEOREM OffsetsSkipNothing ==
    ASSUME ~SaveMayFail, ~HostMayBeReplaced
    PROVE  Spec => []ResumeSkipsOnlyVerified
<1>1. Prefix => ResumeSkipsOnlyVerified
  BY DEF Prefix
<1>. QED
  BY <1>1, PrefixAlways, PTL


-----------------------------------------------------------------------------
(* Calls that do not overlap: what the call that runs finds on the disk *)

OneAtATime == \A i, j \in Invocations : pc[i] \in Running /\ pc[j] \in Running => i = j

\* What the running call holds is what the durable log records.
HoldsTheLog == \A i \in Invocations : pc[i] \in Running => drafts[i] = logChunks

\* The chunk between its write and its record is in no earlier record, and once
\* read back its file is the input.
ChunkInHand ==
    \A i \in Invocations :
        /\ pc[i] \in {"readback", "verify"} => next[i] \notin ChunksOf(logChunks)
        /\ pc[i] = "verify" => files[next[i]] = source[i]

CommittedIsQuiet == logOutcome = "committed" => \A i \in Invocations : pc[i] \notin Running

Serial ==
    /\ OneAtATime /\ HoldsTheLog /\ ChunkInHand /\ CommittedIsQuiet
    /\ VerifiedBytesStay

LEMMA InitSerial == Init => Serial
BY DEF Init, Serial, OneAtATime, HoldsTheLog, ChunkInHand, CommittedIsQuiet,
       VerifiedBytesStay, Running

\* Once the running call has ended no other runs.
LEMMA EndsSerial ==
    ASSUME Types, Serial, NEW i \in Invocations, pc[i] \in Running,
           NEW end \in {"done", "crashed"}, pc' = [pc EXCEPT ![i] = end],
           UNCHANGED logChunks,
           \A d \in logChunks : files'[d.chunk] = files[d.chunk]
    PROVE  Serial'
<1>1. \A j \in Invocations : pc'[j] \notin Running
  BY DEF Serial, OneAtATime, Types, TypeOK, Running
<1>2. OneAtATime' /\ HoldsTheLog' /\ ChunkInHand' /\ CommittedIsQuiet'
  BY <1>1 DEF OneAtATime, HoldsTheLog, ChunkInHand, CommittedIsQuiet, Running
<1>3. VerifiedBytesStay'
  BY DEF Serial, VerifiedBytesStay
<1>. QED
  BY <1>2, <1>3 DEF Serial

\* A rollback keeps the files of what it counts as committed.
LEMMA UnlinkedKeeps ==
    ASSUME NEW fs \in [Chunk -> Sources \cup {None}], NEW i, NEW committed, NEW c \in Chunk,
           c \in committed
    PROVE  Unlinked(fs, i, committed)[c] = fs[c]
BY DEF Unlinked

\* A call that rolls back, having changed no file of a recorded chunk.
LEMMA UnlinksSerial ==
    ASSUME Types, Serial, NEW i \in Invocations, pc[i] \in Running,
           NEW end \in {"done", "crashed"}, pc' = [pc EXCEPT ![i] = end],
           UNCHANGED logChunks,
           NEW fs \in [Chunk -> Sources \cup {None}],
           \A d \in logChunks : fs[d.chunk] = files[d.chunk],
           NEW committed, ChunksOf(drafts[i]) \subseteq committed,
           files' = Unlinked(fs, i, committed)
    PROVE  Serial'
<1>1. ASSUME NEW d \in logChunks PROVE files'[d.chunk] = files[d.chunk]
  <2>1. d.chunk \in committed
    BY DEF Serial, HoldsTheLog, ChunksOf
  <2>2. d.chunk \in Chunk
    BY DEF Types, TypeOK, Draft
  <2>. QED
    BY <2>1, <2>2, UnlinkedKeeps
<1>. QED
  BY <1>1, EndsSerial

LEMMA FailClosedSerial ==
    ASSUME Types, Serial, NEW i \in Invocations, pc[i] \in Running, NEW out,
           FailClosed(i, out)
    PROVE  Serial'
<1>1. files \in [Chunk -> Sources \cup {None}]
  BY DEF Types, TypeOK
<1>. QED
  BY <1>1, UnlinksSerial DEF FailClosed

LEMMA RollBackSerial ==
    ASSUME Types, Serial, NEW i \in Invocations, pc[i] \in Running,
           NEW fs \in [Chunk -> Sources \cup {None}],
           \A d \in logChunks : fs[d.chunk] = files[d.chunk],
           NEW committed, ChunksOf(drafts[i]) \subseteq committed, RollBack(i, fs, committed)
    PROVE  Serial'
BY UnlinksSerial DEF RollBack, durable

\* The entry: nothing else runs, and what is loaded is what the log records.
LEMMA InvokeSerial ==
    ASSUME ~Overlap, Types, Serial,
           NEW i \in Invocations, NEW s \in Sources, NEW o \in 0 .. MaxChunks, Invoke(i, s, o)
    PROVE  Serial'
<1>. USE DEF Types, TypeOK, Serial, OneAtATime, HoldsTheLog, ChunkInHand, CommittedIsQuiet,
             VerifiedBytesStay
<1>1. \A j \in Invocations : pc[j] \notin Running
  BY DEF Invoke, RefuseInput, ReplayCommitted, AllFiltered, FilterThrows, Load, CanStart, Active
<1>2. CASE Load(i, s, o)
  BY <1>1, <1>2 DEF Load, Running, disk, durable, reply, history
<1>3. CASE \/ RefuseInput(i, s, o) \/ ReplayCommitted(i, s, o) \/ AllFiltered(i, s, o)
           \/ FilterThrows(i, s, o)
  <2>1. pc' = [pc EXCEPT ![i] = "done"] /\ UNCHANGED <<logChunks, logOutcome, files>>
    BY <1>3 DEF RefuseInput, ReplayCommitted, AllFiltered, FilterThrows, Return, disk, durable
  <2>2. \A j \in Invocations : pc'[j] \notin Running
    BY <1>1, <2>1 DEF Running
  <2>. QED
    BY <2>1, <2>2 DEF Running
<1>. QED
  BY <1>2, <1>3 DEF Invoke

\* The chunk the loop takes has no record, so its file may be written.
LEMMA TakenIsUnrecorded ==
    ASSUME Types, Serial, NEW i \in Invocations, pc[i] = "loop", Pending(i) # {}
    PROVE  /\ Min(Pending(i)) \in Chunk
           /\ Min(Pending(i)) \notin ChunksOf(logChunks)
<1>1. Min(Pending(i)) \in Pending(i) /\ Pending(i) \subseteq Chunk
  BY PendingType
<1>. QED
  BY <1>1 DEF Pending, Serial, HoldsTheLog, Running

LEMMA LoopSerial ==
    ASSUME Types, Serial, NEW i \in Invocations,
           \/ WriteChunk(i) \/ UploadThrows(i) \/ LoopThrows(i)
           \/ ReadBack(i) \/ ReadBackMismatch(i)
           \/ VerifyPass(i) \/ RecordChunkThrows(i) \/ VerifyFail(i)
           \/ NothingToCommit(i)
    PROVE  Serial'
<1>1. files \in [Chunk -> Sources \cup {None}]
  BY DEF Types, TypeOK
<1>2. pc[i] \in Running
  BY DEF WriteChunk, UploadThrows, LoopThrows, ReadBack, ReadBackMismatch, VerifyPass,
         RecordChunkThrows, VerifyFail, NothingToCommit, Running
<1>3. \A j \in Invocations : j # i => pc[j] \notin Running
  BY <1>2 DEF Serial, OneAtATime
<1>4. CASE WriteChunk(i)
  <2>1. Min(Pending(i)) \in Chunk /\ Min(Pending(i)) \notin ChunksOf(logChunks)
    BY <1>4, TakenIsUnrecorded DEF WriteChunk
  <2>. DEFINE c == Min(Pending(i))
  <2>2. /\ files' = [files EXCEPT ![c] = source[i]]
        /\ next' = [next EXCEPT ![i] = c]
        /\ pc' = [pc EXCEPT ![i] = "readback"]
        /\ UNCHANGED <<logChunks, logOutcome, drafts, source>>
    BY <1>4 DEF WriteChunk, durable
  <2>. HIDE DEF c
  <2>3. \A d \in logChunks : d.chunk # c /\ files'[d.chunk] = files[d.chunk]
    BY <1>1, <2>1, <2>2 DEF c, ChunksOf, Types, TypeOK, Draft
  <2>4. VerifiedBytesStay'
    BY <2>2, <2>3 DEF Serial, VerifiedBytesStay
  <2>5. \A j \in Invocations : j # i => pc'[j] \notin Running
    BY <1>3, <2>2 DEF Types, TypeOK
  <2>6. OneAtATime' /\ HoldsTheLog' /\ CommittedIsQuiet'
    BY <1>2, <2>2, <2>5 DEF Serial, OneAtATime, HoldsTheLog, CommittedIsQuiet, Types, TypeOK, Running
  <2>7. ChunkInHand'
    BY <2>1, <2>2, <2>5 DEF c, ChunkInHand, Types, TypeOK, Running
  <2>. QED
    BY <2>4, <2>6, <2>7 DEF Serial
<1>5. CASE UploadThrows(i)
  <2>. DEFINE c == Min(Pending(i))
              fs == [files EXCEPT ![c] = source[i]]
  <2>1. c \in Chunk /\ c \notin ChunksOf(logChunks)
    BY <1>5, TakenIsUnrecorded DEF UploadThrows
  <2>2. source[i] \in Sources
    BY <1>2 DEF Types, InCall
  <2>3. fs \in [Chunk -> Sources \cup {None}]
    BY <1>1, <2>2
  <2>4. RollBack(i, fs, ChunksOf(drafts[i]))
    BY <1>5 DEF UploadThrows
  <2>. HIDE DEF c
  <2>5. \A d \in logChunks : fs[d.chunk] = files[d.chunk]
    BY <1>1, <2>1 DEF ChunksOf, Types, TypeOK, Draft
  <2>. HIDE DEF fs
  <2>. QED
    BY <1>2, <2>3, <2>4, <2>5, RollBackSerial
<1>6. CASE LoopThrows(i) \/ RecordChunkThrows(i)
  BY <1>1, <1>2, <1>6, RollBackSerial DEF LoopThrows, RecordChunkThrows
<1>7. CASE ReadBackMismatch(i) \/ VerifyFail(i)
  BY <1>2, <1>7, FailClosedSerial DEF ReadBackMismatch, VerifyFail
<1>8. CASE NothingToCommit(i)
  BY <1>2, <1>8, EndsSerial DEF NothingToCommit, Return, disk, durable
<1>9. CASE ReadBack(i)
  BY <1>9 DEF ReadBack, Types, TypeOK, Serial, OneAtATime, HoldsTheLog, ChunkInHand,
              CommittedIsQuiet, VerifiedBytesStay, Running, disk, durable, memory
<1>10. CASE VerifyPass(i)
  <2>. DEFINE d == NewDraft(i)
  <2>1. d.chunk = next[i] /\ d.src = source[i]
    BY DEF NewDraft
  <2>2. next[i] \notin ChunksOf(logChunks) /\ files[next[i]] = source[i]
    BY <1>10 DEF VerifyPass, Serial, ChunkInHand
  <2>3. /\ logChunks' = {e \in logChunks : e.chunk # d.chunk} \cup {d}
        /\ drafts' = [drafts EXCEPT ![i] = @ \cup {d}]
        /\ logOutcome' = "in_progress"
        /\ pc' = [pc EXCEPT ![i] = "loop"]
        /\ UNCHANGED files
    BY <1>10 DEF VerifyPass
  <2>. HIDE DEF d
  <2>4. logChunks' = logChunks \cup {d}
    BY <2>1, <2>2, <2>3 DEF ChunksOf
  <2>5. \A j \in Invocations : j # i => pc'[j] \notin Running
    BY <1>3, <2>3 DEF Types, TypeOK
  <2>6. pc'[i] = "loop" /\ drafts'[i] = drafts[i] \cup {d}
    BY <2>3 DEF Types, TypeOK
  <2>7. OneAtATime' /\ HoldsTheLog' /\ ChunkInHand' /\ CommittedIsQuiet'
    BY <1>2, <2>3, <2>4, <2>5, <2>6
    DEF Serial, OneAtATime, HoldsTheLog, ChunkInHand, CommittedIsQuiet, Running
  <2>8. VerifiedBytesStay'
    BY <2>1, <2>2, <2>3, <2>4 DEF Serial, VerifiedBytesStay
  <2>. QED
    BY <2>7, <2>8 DEF Serial
<1>. QED
  BY <1>4, <1>5, <1>6, <1>7, <1>8, <1>9, <1>10

LEMMA MetadataSerial ==
    ASSUME Types, Serial, NEW i \in Invocations,
           \/ GateDraft(i) \/ GateRefuses(i) \/ PublishBlocked(i) \/ MetadataThrows(i)
           \/ Publish(i) \/ BurnNonces(i) \/ BurnRefused(i) \/ RecordCommitted(i)
           \/ AcknowledgeThrows(i) \/ FailureNotRecorded(i)
    PROVE  Serial'
<1>1. files \in [Chunk -> Sources \cup {None}]
  BY DEF Types, TypeOK
<1>2. pc[i] \in Running
  BY DEF GateDraft, GateRefuses, PublishBlocked, MetadataThrows, Publish, BurnNonces,
         BurnRefused, RecordCommitted, AcknowledgeThrows, FailureNotRecorded, AtMetadata, Running
<1>3. CASE GateRefuses(i) \/ PublishBlocked(i) \/ BurnRefused(i)
  BY <1>2, <1>3, FailClosedSerial DEF GateRefuses, PublishBlocked, BurnRefused
<1>4. CASE MetadataThrows(i) \/ AcknowledgeThrows(i)
  BY <1>1, <1>2, <1>4, RollBackSerial DEF MetadataThrows, AcknowledgeThrows
<1>5. CASE FailureNotRecorded(i)
  BY <1>1, <1>2, <1>5, UnlinksSerial DEF FailureNotRecorded, durable
<1>6. CASE RecordCommitted(i)
  BY <1>2, <1>6, EndsSerial DEF RecordCommitted
<1>7. CASE GateDraft(i) \/ Publish(i) \/ BurnNonces(i)
  <2>1. /\ UNCHANGED <<logChunks, logOutcome, files, drafts, next, source>>
        /\ UNCHANGED pc \/ pc' = [pc EXCEPT ![i] = "burn"] \/ pc' = [pc EXCEPT ![i] = "record"]
    BY <1>7 DEF GateDraft, Publish, BurnNonces, disk, durable, memory
  <2>. QED
    BY <1>2, <2>1 DEF Types, TypeOK, Serial, OneAtATime, HoldsTheLog, ChunkInHand,
                      CommittedIsQuiet, VerifiedBytesStay, Running
<1>. QED
  BY <1>3, <1>4, <1>5, <1>6, <1>7

LEMMA EnvironmentSerial ==
    ASSUME Types, Serial, (\E i \in Invocations : Crash(i)) \/ ReplaceHost
    PROVE  Serial'
<1>1. ASSUME NEW i \in Invocations, Crash(i) PROVE Serial'
  <2>1. pc[i] \in Running
    BY <1>1, EnvironmentAssumption DEF Crash, Running
  <2>. QED
    BY <1>1, <2>1, EndsSerial DEF Crash, disk, durable
<1>2. CASE ReplaceHost
  <2>1. \A i \in Invocations : pc'[i] \notin Running
    BY <1>2 DEF ReplaceHost, Active
  <2>. QED
    BY <1>2, <2>1 DEF ReplaceHost, Serial, OneAtATime, HoldsTheLog, ChunkInHand,
        CommittedIsQuiet, VerifiedBytesStay, Running
<1>. QED
  BY <1>1, <1>2

LEMMA NextSerial == ASSUME ~Overlap, Types, Serial, [Next]_vars PROVE Serial'
<1>1. CASE UNCHANGED vars
  BY <1>1 DEF Serial, OneAtATime, HoldsTheLog, ChunkInHand, CommittedIsQuiet,
      VerifiedBytesStay, vars, disk, durable, memory
<1>. QED
  BY <1>1, InvokeSerial, LoopSerial, MetadataSerial, EnvironmentSerial DEF Next, Step

\* When calls do not overlap the running call holds what the log records, and
\* touches no file of it, wherever calls die and whatever saves fail.
THEOREM SerialAlways == ASSUME ~Overlap PROVE Spec => []Serial
<1>1. Types /\ Serial /\ [Next]_vars => Serial'
  BY NextSerial
<1>. QED
  BY <1>1, InitSerial, TypesAlways, PTL DEF Spec

\* No rollback, retry or resume removes or changes the file of a recorded chunk.
THEOREM RecordedBytesStay == ASSUME ~Overlap PROVE Spec => []VerifiedBytesStay
<1>1. Serial => VerifiedBytesStay
  BY DEF Serial
<1>. QED
  BY <1>1, SerialAlways, PTL

\* The only step that makes something visible is the publication of a call.
LEMMA OnlyPublishPublishes ==
    ASSUME [Next]_vars, published' # published
    PROVE  \E i \in Invocations : Publish(i)
<1>1. ASSUME NEW i \in Invocations, NEW s \in Sources, NEW o \in 0 .. MaxChunks, Invoke(i, s, o)
      PROVE  FALSE
  BY <1>1 DEF Invoke, RefuseInput, ReplayCommitted, AllFiltered, FilterThrows, Load, Return,
              history
<1>2. ASSUME NEW i \in Invocations,
             \/ WriteChunk(i) \/ UploadThrows(i) \/ LoopThrows(i)
             \/ ReadBack(i) \/ ReadBackMismatch(i)
             \/ VerifyPass(i) \/ RecordChunkThrows(i) \/ VerifyFail(i)
             \/ NothingToCommit(i)
      PROVE  FALSE
  BY <1>2 DEF WriteChunk, UploadThrows, LoopThrows, ReadBack, ReadBackMismatch, VerifyPass,
              RecordChunkThrows, VerifyFail, NothingToCommit, FailClosed, RollBack, Return, history
<1>3. ASSUME NEW i \in Invocations,
             \/ GateDraft(i) \/ GateRefuses(i) \/ PublishBlocked(i) \/ MetadataThrows(i)
             \/ BurnNonces(i) \/ BurnRefused(i) \/ RecordCommitted(i)
             \/ AcknowledgeThrows(i) \/ FailureNotRecorded(i)
      PROVE  FALSE
  BY <1>3 DEF GateDraft, GateRefuses, PublishBlocked, MetadataThrows, BurnNonces, BurnRefused,
              RecordCommitted, AcknowledgeThrows, FailureNotRecorded, FailClosed, RollBack, history
<1>4. ASSUME (\E i \in Invocations : Crash(i)) \/ ReplaceHost \/ UNCHANGED vars
      PROVE  FALSE
  BY <1>4 DEF Crash, ReplaceHost, vars, history
<1>. QED
  BY <1>1, <1>2, <1>3, <1>4 DEF Next, Step

\* Between the gate and the publication nobody changes the bytes: what becomes visible
\* is what was proved.  Run "bytes" shows that overlapping calls can.
THEOREM SerialPublishesProvedBytes == ASSUME ~Overlap PROVE Spec => PublishedBytesAreVerified
<1>1. ASSUME Types, Serial, [Next]_vars
      PROVE  [\A p \in published' \ published : \A d \in p.drafts : files[d.chunk] = d.src]_vars
  <2>1. SUFFICES ASSUME published' # published
                 PROVE  \A p \in published' \ published :
                            \A d \in p.drafts : files[d.chunk] = d.src
    OBVIOUS
  <2>2. PICK i \in Invocations : Publish(i)
    BY <1>1, <2>1, OnlyPublishPublishes
  <2>3. drafts[i] = logChunks
    BY <1>1, <2>2 DEF Publish, AtMetadata, Serial, HoldsTheLog, Running
  <2>4. \A p \in published' \ published : p.drafts = drafts[i]
    BY <2>2 DEF Publish
  <2>. QED
    BY <1>1, <2>3, <2>4 DEF Serial, VerifiedBytesStay
<1>. QED
  BY <1>1, SerialAlways, TypesAlways, PTL DEF Spec, PublishedBytesAreVerified

\* A workload that is committed stays so, on a host that is not replaced.
THEOREM CommittedForGood ==
    ASSUME ~Overlap, ~HostMayBeReplaced
    PROVE  Spec => CommittedStays
<1>1. ASSUME Types, Serial, [Next]_vars, logOutcome = "committed"
      PROVE  logOutcome' = "committed"
  <2>1. \A i \in Invocations : pc[i] \notin Running
    BY <1>1 DEF Serial, CommittedIsQuiet
  <2>2. \A i \in Invocations : ~Step(i)
    BY <2>1 DEF Step, WriteChunk, UploadThrows, LoopThrows, ReadBack,
       ReadBackMismatch, VerifyPass, RecordChunkThrows, VerifyFail, NothingToCommit, GateDraft,
       GateRefuses, PublishBlocked, MetadataThrows, Publish, BurnNonces, BurnRefused,
       RecordCommitted, AcknowledgeThrows, FailureNotRecorded, AtMetadata, Running
  <2>3. ~ReplaceHost
    BY DEF ReplaceHost
  <2>. QED
    BY <1>1, <2>2, <2>3 DEF Next, Invoke, RefuseInput, ReplayCommitted, AllFiltered,
       FilterThrows, Load, Return, Crash, vars, disk, durable
<1>2. Types /\ Serial /\ [Next]_vars
        => [logOutcome = "committed" => logOutcome' = "committed"]_durable
  BY <1>1
<1>. QED
  BY <1>2, SerialAlways, TypesAlways, PTL DEF Spec, CommittedStays

-----------------------------------------------------------------------------
(* Calls that do not overlap and, once they have published, neither die nor *)
(* fail to save: the workload is published once                             *)

\* Nothing is published before a call leaves the write loop; a call that burns is
\* the first to; what was published is being acknowledged or committed for good.
Once ==
    /\ \A i \in Invocations : pc[i] \in {"loop", "readback", "verify"} => published = {}
    /\ \A i \in Invocations : pc[i] = "burn" => ledger = {}
    /\ published # {} =>
         logOutcome = "committed" \/ \E i \in Invocations : pc[i] \in {"burn", "record"}
    /\ published = {} \/ \E p \in published : published = {p}

LEMMA InitOnce == Init => Once
BY DEF Init, Once

LEMMA NothingPublishedOnce == ASSUME Safe', published' = {} PROVE Once'
<1>1. ledger' = {}
  BY DEF Safe, BurnedOnlyAfterPublish
<1>. QED
  BY <1>1 DEF Once

\* A call starts only if nothing is published or the log says so.
LEMMA InvokeOnce ==
    ASSUME ~Overlap, Types, Safe', Once,
           NEW i \in Invocations, NEW s \in Sources, NEW o \in 0 .. MaxChunks, Invoke(i, s, o)
    PROVE  Once'
<1>1. \A j \in Invocations : pc[j] \notin Running
  BY DEF Invoke, RefuseInput, ReplayCommitted, AllFiltered, FilterThrows, Load, CanStart, Active
<1>2. UNCHANGED <<published, ledger, logOutcome>>
  BY DEF Invoke, RefuseInput, ReplayCommitted, AllFiltered, FilterThrows, Load, Return, disk,
         durable, history
<1>3. CASE Load(i, s, o)
  <2>1. published = {}
    BY <1>1, <1>3 DEF Load, Once, Running
  <2>. QED
    BY <1>2, <2>1, NothingPublishedOnce
<1>4. CASE \/ RefuseInput(i, s, o) \/ ReplayCommitted(i, s, o) \/ AllFiltered(i, s, o)
           \/ FilterThrows(i, s, o)
  <2>1. pc' = [pc EXCEPT ![i] = "done"]
    BY <1>4 DEF RefuseInput, ReplayCommitted, AllFiltered, FilterThrows, Return
  <2>2. \A j \in Invocations : pc'[j] \notin Running
    BY <1>1, <2>1 DEF Types, TypeOK, Running
  <2>. QED
    BY <1>1, <1>2, <2>2 DEF Once, Running
<1>. QED
  BY <1>3, <1>4 DEF Invoke

\* Before its publication a call, however it goes on or ends, has nothing to repeat.
LEMMA StepOnce ==
    ASSUME ~SaveMayFail, Types, Serial, Safe, Safe', Once,
           NEW i \in Invocations, Step(i)
    PROVE  Once'
<1>1. \A j \in Invocations : j # i /\ pc[i] \in Running => pc[j] \notin Running
  BY DEF Serial, OneAtATime
<1>2. CASE \/ WriteChunk(i) \/ UploadThrows(i) \/ LoopThrows(i)
           \/ ReadBack(i) \/ ReadBackMismatch(i)
           \/ VerifyPass(i) \/ RecordChunkThrows(i) \/ VerifyFail(i)
           \/ NothingToCommit(i)
  <2>1. pc[i] \in {"loop", "readback", "verify"}
    BY <1>2 DEF WriteChunk, UploadThrows, LoopThrows, ReadBack, ReadBackMismatch, VerifyPass,
                RecordChunkThrows, VerifyFail, NothingToCommit
  <2>2. UNCHANGED published
    BY <1>2 DEF WriteChunk, UploadThrows, LoopThrows, ReadBack, ReadBackMismatch, VerifyPass,
       RecordChunkThrows, VerifyFail, NothingToCommit, FailClosed, RollBack, Return, history
  <2>. QED
    BY <2>1, <2>2, NothingPublishedOnce DEF Once
<1>3. CASE GateDraft(i) \/ GateRefuses(i) \/ PublishBlocked(i) \/ MetadataThrows(i)
  <2>1. pc[i] = "loop" /\ UNCHANGED published
    BY <1>3 DEF GateDraft, GateRefuses, PublishBlocked, MetadataThrows, AtMetadata, FailClosed,
                RollBack, history
  <2>. QED
    BY <2>1, NothingPublishedOnce DEF Once
<1>4. CASE Publish(i)
  <2>1. published = {} /\ pc[i] \in Running
    BY <1>4 DEF Publish, AtMetadata, Once, Running
  <2>2. ledger = {}
    BY <2>1 DEF Safe, BurnedOnlyAfterPublish
  <2>3. pc' = [pc EXCEPT ![i] = "burn"] /\ UNCHANGED ledger
    BY <1>4 DEF Publish
  <2>4. \E p : published' = {p}
    BY <1>4, <2>1 DEF Publish
  <2>5. pc'[i] = "burn" /\ \A j \in Invocations : j # i => pc'[j] \notin Running
    BY <1>1, <2>1, <2>3 DEF Types, TypeOK
  <2>. QED
    BY <2>2, <2>3, <2>4, <2>5 DEF Once, Running
<1>5. CASE BurnNonces(i)
  <2>1. pc[i] \in Running /\ pc' = [pc EXCEPT ![i] = "record"] /\ UNCHANGED published
    BY <1>5 DEF BurnNonces, Running
  <2>2. pc'[i] = "record" /\ \A j \in Invocations : j # i => pc'[j] \notin Running
    BY <1>1, <2>1 DEF Types, TypeOK
  <2>. QED
    BY <2>1, <2>2 DEF Once, Running
<1>6. CASE BurnRefused(i)
  BY <1>6 DEF BurnRefused, Once
<1>7. CASE RecordCommitted(i)
  <2>1. /\ pc[i] \in Running /\ pc' = [pc EXCEPT ![i] = "done"]
        /\ UNCHANGED published /\ logOutcome' = "committed"
    BY <1>7 DEF RecordCommitted, Running, history
  <2>2. \A j \in Invocations : pc'[j] \notin Running
    BY <1>1, <2>1 DEF Types, TypeOK, Running
  <2>. QED
    BY <2>1, <2>2 DEF Once, Running
<1>8. CASE AcknowledgeThrows(i) \/ FailureNotRecorded(i)
  BY <1>8 DEF AcknowledgeThrows, FailureNotRecorded
<1>. QED
  BY <1>2, <1>3, <1>4, <1>5, <1>6, <1>7, <1>8 DEF Step

LEMMA NextOnce ==
    ASSUME ~Overlap, ~SaveMayFail, ~HostMayBeReplaced,
           MayCrashAt \cap {"burn", "record"} = {},
           Types, Serial, Safe, Safe', Once, [Next]_vars
    PROVE  Once'
<1>1. ASSUME NEW i \in Invocations, Crash(i) PROVE Once'
  <2>1. pc[i] \in {"loop", "readback", "verify"} /\ UNCHANGED published
    BY <1>1, EnvironmentAssumption DEF Crash, history
  <2>. QED
    BY <2>1, NothingPublishedOnce DEF Once
<1>2. ~ReplaceHost
  BY DEF ReplaceHost
<1>3. CASE UNCHANGED vars
  BY <1>3 DEF Once, vars, disk, durable, history
<1>. QED
  BY <1>1, <1>2, <1>3, InvokeOnce, StepOnce DEF Next

\* The first publication is the last, when nothing stops a call from recording it.
THEOREM OnceAlways ==
    ASSUME ~Overlap, ~SaveMayFail, ~HostMayBeReplaced,
           MayCrashAt \cap {"burn", "record"} = {}
    PROVE  Spec => []Once
<1>1. Types /\ Serial /\ Safe /\ Safe' /\ Once /\ [Next]_vars => Once'
  BY NextOnce
<1>. QED
  BY <1>1, InitOnce, TypesAlways, SafeAlways, SerialAlways, PTL DEF Spec

\* The workload is published once, however many calls failed, died in the write loop or
\* were resumed before.  Run "died" shows what a death after the publication does.
THEOREM WorkloadCommitsOnce ==
    ASSUME ~Overlap, ~SaveMayFail, ~HostMayBeReplaced,
           MayCrashAt \cap {"burn", "record"} = {}
    PROVE  Spec => []CommitsOnce
<1>1. Cardinality({}) = 0 /\ \A p : Cardinality({p}) = 1
  BY FS_EmptySet, FS_Singleton
<1>2. Once => CommitsOnce
  BY <1>1 DEF Once, CommitsOnce
<1>. QED
  BY <1>2, OnceAlways, PTL
=============================================================================
