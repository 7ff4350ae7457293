------------------------- MODULE PvdmRuntimeProofs -------------------------
(* Proofs about PvdmRuntime, for every value of its constants. *)
EXTENDS PvdmRuntime, WellFoundedInduction, FiniteSetTheorems, TLAPS

\* A nonempty set of naturals has a least element: its initial segments are
\* finite sets, and strict inclusion is well-founded on those.
LEMMA MinOfNaturals ==
    ASSUME NEW S, S \subseteq Nat, S # {}
    PROVE  Min(S) \in S /\ \A y \in S : Min(S) <= y
<1>. DEFINE T == {0 .. x : x \in S}
<1>1. T # {}
  OBVIOUS
<1>2. T \subseteq FiniteSubsetsOf(Nat)
  <2>1. ASSUME NEW x \in S PROVE 0 .. x \in SUBSET Nat /\ IsFiniteSet(0 .. x)
    <3>1. x \in Int /\ 0 .. x \in SUBSET Nat
      OBVIOUS
    <3>. QED
      BY <3>1, FS_Interval
  <2>. QED
    BY <2>1 DEF FiniteSubsetsOf
<1>3. \E X \in T : \A Y \in T : <<Y, X>> \notin StrictSubsetOrdering(Nat)
  <2>1. IsWellFoundedOn(StrictSubsetOrdering(Nat), FiniteSubsetsOf(Nat))
    BY FS_StrictSubsetOrderingWellFounded
  <2>. HIDE DEF T
  <2>. QED
    BY <1>1, <1>2, <2>1, WFMin
<1>4. PICK x \in S : \A y \in S : <<0 .. y, 0 .. x>> \notin StrictSubsetOrdering(Nat)
  BY <1>3
<1>5. ASSUME NEW y \in S PROVE x <= y
  <2>1. SUFFICES ASSUME y < x PROVE FALSE
    OBVIOUS
  <2>2. 0 .. y \subseteq 0 .. x /\ 0 .. y \subseteq Nat /\ 0 .. x \subseteq Nat
    BY <2>1
  <2>3. x \in 0 .. x /\ x \notin 0 .. y
    BY <2>1
  <2>4. <<0 .. y, 0 .. x>> \in StrictSubsetOrdering(Nat)
    BY <2>2, <2>3 DEF StrictSubsetOrdering
  <2>. QED
    BY <1>4, <2>4
<1>. QED
  BY <1>5 DEF Min

\* A nonempty set of naturals with an upper bound has a greatest element.
LEMMA MaxOfBounded ==
    ASSUME NEW n \in Nat, NEW S, S \subseteq 0 .. n, S # {}
    PROVE  Max(S) \in S /\ \A y \in S : Max(S) >= y
<1>. DEFINE T == {n - s : s \in S}
<1>1. T \subseteq Nat /\ T # {}
  <2>1. \A s \in S : n - s \in Nat
    OBVIOUS
  <2>. QED
    BY <2>1, Zenon
<1>2. PICK t \in T : \A u \in T : t <= u
  BY <1>1, MinOfNaturals
<1>3. PICK x \in S : t = n - x
  OBVIOUS
<1>4. \A y \in S : x >= y
  BY <1>2, <1>3
<1>. QED
  BY <1>4 DEF Max

-----------------------------------------------------------------------------
(* Types *)

\* What the helpers of the actions return, and that what releases the memory of
\* a call keeps its types.
LEMMA ReleaseTypes ==
    ASSUME TypeOK, NEW i \in Invocations, Release(i)
    PROVE  /\ source' \in [Invocations -> Sources \cup {None}]
           /\ from' \in [Invocations -> 0 .. MaxChunks]
           /\ next' \in [Invocations -> 0 .. MaxChunks]
           /\ written' \in [Invocations -> SUBSET Chunk]
           /\ drafts' \in [Invocations -> SUBSET Draft]
           /\ gated' \in [Invocations -> SUBSET Draft]
BY SourcesAssumption DEF TypeOK, Release

LEMMA ChunksOfType == ASSUME NEW D \in SUBSET Draft PROVE ChunksOf(D) \subseteq Chunk
BY DEF ChunksOf, Draft

LEMMA NoncesOfType == ASSUME NEW D \in SUBSET Draft PROVE NoncesOf(D) \subseteq Nonce
BY DEF NoncesOf, NonceOf, Draft, Nonce

LEMMA UnlinkedType ==
    ASSUME NEW i, NEW committed, NEW fs \in [Chunk -> Sources \cup {None}]
    PROVE  Unlinked(fs, i, committed) \in [Chunk -> Sources \cup {None}]
BY DEF Unlinked

\* A resume offset is an offset: the chunk after a committed one, or where the
\* call began.
LEMMA NextResumeOffsetType ==
    ASSUME TypeOK, NEW i \in Invocations, NEW committed, committed \subseteq Chunk
    PROVE  NextResumeOffset(i, committed) \in 0 .. MaxChunks
<1>1. CASE committed = {}
  BY <1>1 DEF TypeOK, NextResumeOffset
<1>2. CASE committed # {}
  <2>1. PICK c \in Chunk : TRUE
    BY <1>2
  <2>2. MaxChunks - 1 \in Nat
    BY <2>1, SourcesAssumption DEF Chunk
  <2>3. Max(committed) \in Chunk
    BY <1>2, <2>2, MaxOfBounded DEF Chunk
  <2>4. \A x \in Chunk : x + 1 \in 0 .. MaxChunks
    BY SourcesAssumption DEF Chunk
  <2>5. NextResumeOffset(i, committed) = Max(committed) + 1
    BY <1>2 DEF NextResumeOffset
  <2>. QED
    BY <2>3, <2>4, <2>5
<1>. QED
  BY <1>1, <1>2

\* The chunk the write loop takes is one.
LEMMA PendingType ==
    ASSUME NEW i, Pending(i) # {}
    PROVE  Min(Pending(i)) \in Pending(i) /\ Pending(i) \subseteq Chunk
<1>1. Pending(i) \subseteq Chunk
  BY DEF Pending
<1>2. Chunk \subseteq Nat
  BY SourcesAssumption DEF Chunk
<1>. QED
  BY <1>1, <1>2, MinOfNaturals

\* A call that runs has its input; the chunk that is read back and verified is one.
InCall ==
    \A i \in Invocations :
        /\ pc[i] \in Running => source[i] \in Sources
        /\ pc[i] \in {"readback", "verify"} => next[i] \in Chunk

Types == TypeOK /\ InCall

LEMMA NewDraftType ==
    ASSUME Types, NEW i \in Invocations, pc[i] = "verify"
    PROVE  NewDraft(i) \in Draft
BY DEF Types, InCall, Running, NewDraft, Draft

LEMMA FailClosedTypes ==
    ASSUME Types, NEW i \in Invocations, NEW out \in FailOutcomes, FailClosed(i, out)
    PROVE  Types'
<1>1. TypeOK'
  BY ReleaseTypes, UnlinkedType DEF Types, TypeOK, FailClosed, FailOutcomes, Outcomes, history
<1>2. InCall'
  BY DEF Types, TypeOK, InCall, FailClosed, Release, Running
<1>. QED
  BY <1>1, <1>2 DEF Types

LEMMA RollBackTypes ==
    ASSUME Types, NEW i \in Invocations, NEW committed, committed \subseteq Chunk,
           NEW fs \in [Chunk -> Sources \cup {None}], RollBack(i, fs, committed)
    PROVE  Types'
<1>1. TypeOK'
  BY ReleaseTypes, UnlinkedType, NextResumeOffsetType
  DEF Types, TypeOK, RollBack, Outcomes, FailOutcomes, durable, history
<1>2. InCall'
  BY DEF Types, TypeOK, InCall, RollBack, Release, Running
<1>. QED
  BY <1>1, <1>2 DEF Types

LEMMA ReturnTypes ==
    ASSUME Types, NEW i \in Invocations, NEW out \in Outcomes, NEW snap \in Nat,
           Return(i, out, snap)
    PROVE  Types'
<1>1. TypeOK'
  BY ReleaseTypes DEF Types, TypeOK, Return, disk, durable, history
<1>2. InCall'
  BY DEF Types, TypeOK, InCall, Return, Release, Running
<1>. QED
  BY <1>1, <1>2 DEF Types

LEMMA InitTypes == Init => Types
BY SourcesAssumption DEF Init, Types, TypeOK, InCall, Running

\* The entry of a call.
LEMMA InvokeTypes ==
    ASSUME Types, NEW i \in Invocations, NEW s \in Sources, NEW o \in 0 .. MaxChunks,
           Invoke(i, s, o)
    PROVE  Types'
<1>1. CASE RefuseInput(i, s, o)
  BY <1>1, ReturnTypes DEF RefuseInput, Outcomes, FailOutcomes
<1>2. CASE ReplayCommitted(i, s, o)
  BY <1>2, ReturnTypes DEF ReplayCommitted, Outcomes, Types, TypeOK
<1>3. CASE AllFiltered(i, s, o)
  BY <1>3, ReturnTypes DEF AllFiltered, Outcomes
<1>4. CASE FilterThrows(i, s, o)
  BY <1>4 DEF FilterThrows, Types, TypeOK, InCall, Running, Outcomes, FailOutcomes, disk,
              durable, memory, history
<1>5. CASE Load(i, s, o)
  BY <1>5 DEF Load, Types, TypeOK, InCall, Running, disk, durable, reply, history
<1>. QED
  BY <1>1, <1>2, <1>3, <1>4, <1>5 DEF Invoke

\* The write loop.
LEMMA LoopTypes ==
    ASSUME Types, NEW i \in Invocations,
           \/ WriteChunk(i) \/ UploadThrows(i) \/ LoopThrows(i)
           \/ ReadBack(i) \/ ReadBackMismatch(i)
           \/ VerifyPass(i) \/ RecordChunkThrows(i) \/ VerifyFail(i)
           \/ NothingToCommit(i)
    PROVE  Types'
<1>1. ChunksOf(drafts[i]) \subseteq Chunk
  BY ChunksOfType DEF Types, TypeOK
<1>2. files \in [Chunk -> Sources \cup {None}]
  BY DEF Types, TypeOK
<1>3. CASE WriteChunk(i)
  <2>1. Min(Pending(i)) \in Chunk
    BY <1>3, PendingType DEF WriteChunk
  <2>2. Chunk \subseteq 0 .. MaxChunks
    BY SourcesAssumption DEF Chunk
  <2>3. source[i] \in Sources
    BY <1>3 DEF WriteChunk, Types, InCall, Running
  <2>. QED
    BY <1>3, <2>1, <2>2, <2>3
    DEF WriteChunk, Types, TypeOK, InCall, Running, durable, reply, history
<1>4. CASE UploadThrows(i)
  <2>1. source[i] \in Sources
    BY <1>4 DEF UploadThrows, Types, InCall, Running
  <2>2. [files EXCEPT ![Min(Pending(i))] = source[i]] \in [Chunk -> Sources \cup {None}]
    BY <1>2, <2>1
  <2>. QED
    BY <1>1, <1>4, <2>2, RollBackTypes DEF UploadThrows
<1>5. CASE LoopThrows(i)
  BY <1>1, <1>2, <1>5, RollBackTypes DEF LoopThrows
<1>6. CASE ReadBack(i)
  BY <1>6 DEF ReadBack, Types, TypeOK, InCall, Running, disk, durable, memory, reply, history
<1>7. CASE ReadBackMismatch(i)
  BY <1>7, FailClosedTypes DEF ReadBackMismatch, FailOutcomes
<1>8. CASE VerifyPass(i)
  <2>1. NewDraft(i) \in Draft
    BY <1>8, NewDraftType DEF VerifyPass
  <2>2. next[i] + 1 \in 0 .. MaxChunks
    BY <1>8, SourcesAssumption DEF VerifyPass, Types, InCall, Chunk
  <2>. QED
    BY <1>8, <2>1, <2>2 DEF VerifyPass, Types, TypeOK, InCall, Running, reply
<1>9. CASE RecordChunkThrows(i)
  <2>1. next[i] \in Chunk
    BY <1>9 DEF RecordChunkThrows, Types, InCall
  <2>. QED
    BY <1>1, <1>2, <1>9, <2>1, RollBackTypes DEF RecordChunkThrows
<1>10. CASE VerifyFail(i)
  BY <1>10, FailClosedTypes DEF VerifyFail
<1>11. CASE NothingToCommit(i)
  BY <1>11, ReturnTypes DEF NothingToCommit, Outcomes
<1>. QED
  BY <1>3, <1>4, <1>5, <1>6, <1>7, <1>8, <1>9, <1>10, <1>11

\* The metadata phase.
LEMMA MetadataTypes ==
    ASSUME Types, NEW i \in Invocations,
           \/ GateDraft(i) \/ GateRefuses(i) \/ PublishBlocked(i) \/ MetadataThrows(i)
           \/ Publish(i) \/ BurnNonces(i) \/ BurnRefused(i) \/ RecordCommitted(i)
           \/ AcknowledgeThrows(i) \/ FailureNotRecorded(i)
    PROVE  Types'
<1>1. ChunksOf(drafts[i]) \subseteq Chunk
  BY ChunksOfType DEF Types, TypeOK
<1>2. files \in [Chunk -> Sources \cup {None}]
  BY DEF Types, TypeOK
<1>3. CASE GateDraft(i)
  <2>1. ToGate(i) \subseteq Draft
    BY DEF ToGate, Types, TypeOK
  <2>. QED
    BY <1>3, <2>1 DEF GateDraft, Types, TypeOK, InCall, disk, durable, reply, history
<1>4. CASE GateRefuses(i)
  BY <1>4, FailClosedTypes DEF GateRefuses, FailOutcomes
<1>5. CASE PublishBlocked(i)
  BY <1>5, FailClosedTypes DEF PublishBlocked, FailOutcomes
<1>6. CASE MetadataThrows(i)
  BY <1>1, <1>2, <1>6, RollBackTypes DEF MetadataThrows
<1>7. CASE Publish(i)
  <2>1. source[i] \in Sources /\ drafts[i] \in SUBSET Draft /\ catalog + 1 \in Nat
    BY <1>7 DEF Publish, AtMetadata, Types, TypeOK, InCall, Running
  <2>2. [by |-> i, src |-> source[i], snapshot |-> catalog + 1, drafts |-> drafts[i]]
          \in Publication
    BY <2>1 DEF Publication
  <2>. QED
    BY <1>7, <2>1, <2>2
    DEF Publish, AtMetadata, Types, TypeOK, InCall, Running, durable, memory
<1>8. CASE BurnNonces(i)
  <2>1. NoncesOf(drafts[i]) \subseteq Nonce
    BY NoncesOfType DEF Types, TypeOK
  <2>. QED
    BY <1>8, <2>1 DEF BurnNonces, Types, TypeOK, InCall, Running, durable, memory, reply
<1>9. CASE BurnRefused(i)
  BY <1>9, FailClosedTypes DEF BurnRefused, FailOutcomes
<1>10. CASE RecordCommitted(i)
  <2>1. TypeOK'
    BY <1>10, ReleaseTypes DEF RecordCommitted, Types, TypeOK, Outcomes, history
  <2>2. InCall'
    BY <1>10 DEF RecordCommitted, Release, Types, TypeOK, InCall, Running
  <2>. QED
    BY <2>1, <2>2 DEF Types
<1>11. CASE AcknowledgeThrows(i)
  BY <1>1, <1>2, <1>11, RollBackTypes DEF AcknowledgeThrows
<1>12. CASE FailureNotRecorded(i)
  <2>1. TypeOK'
    BY <1>2, <1>12, ReleaseTypes, UnlinkedType
    DEF FailureNotRecorded, Types, TypeOK, durable, history
  <2>2. InCall'
    BY <1>12 DEF FailureNotRecorded, Release, Types, TypeOK, InCall, Running
  <2>. QED
    BY <2>1, <2>2 DEF Types
<1>. QED
  BY <1>3, <1>4, <1>5, <1>6, <1>7, <1>8, <1>9, <1>10, <1>11, <1>12

LEMMA EnvironmentTypes ==
    ASSUME Types, (\E i \in Invocations : Crash(i)) \/ ReplaceHost
    PROVE  Types'
<1>1. ASSUME NEW i \in Invocations, Crash(i) PROVE Types'
  <2>1. TypeOK'
    BY <1>1, ReleaseTypes DEF Crash, Types, TypeOK, disk, durable, history
  <2>2. InCall'
    BY <1>1 DEF Crash, Release, Types, TypeOK, InCall, Running
  <2>. QED
    BY <2>1, <2>2 DEF Types
<1>2. CASE ReplaceHost
  BY <1>2 DEF ReplaceHost, Types, TypeOK, InCall, memory, reply, history
<1>. QED
  BY <1>1, <1>2

LEMMA StutterTypes == ASSUME Types, UNCHANGED vars PROVE Types'
BY DEF Types, TypeOK, InCall, vars, disk, durable, memory, reply, history

LEMMA NextTypes == ASSUME Types, [Next]_vars PROVE Types'
BY InvokeTypes, LoopTypes, MetadataTypes, EnvironmentTypes, StutterTypes DEF Next, Step

\* Every reachable state is well typed: resume offsets, chunks and drafts stay in
\* range whatever calls, failures, crashes and host changes there are.
THEOREM TypesAlways == Spec => []Types
<1>. QED
  BY InitTypes, NextTypes, PTL DEF Spec

\* Type correctness in every environment, overlap and host changes included.
THEOREM TypeCorrect == Spec => []TypeOK
<1>1. Types => TypeOK
  BY DEF Types
<1>. QED
  BY <1>1, TypesAlways, PTL

-----------------------------------------------------------------------------
(* What a publication and an acknowledgement rest on *)

\* Chunks in the durable log or in the memory of a call have a PASS proof.
KeptArePassed == logChunks \subseteq passed /\ \A i \in Invocations : drafts[i] \subseteq passed

\* What passed the gate is kept by the call and is in the transparency log.
GatedAreLogged ==
    \A i \in Invocations :
        /\ gated[i] \subseteq drafts[i]
        /\ gated[i] \subseteq transparency
        /\ pc[i] = "idle" => gated[i] = {}

\* A call past the publication has published exactly what it holds.
BurningIsPublished ==
    \A i \in Invocations : pc[i] \in {"burn", "record"} =>
        \E p \in published : p.by = i /\ p.drafts = drafts[i] /\ p.snapshot = snapshot[i]

RecordingIsAcked == \A i \in Invocations : pc[i] = "record" => i \in acked

\* What the durable log calls committed is an acknowledged snapshot.
LogNamesASnapshot ==
    logOutcome = "committed" =>
        \E p \in published : p.by \in acked /\ p.snapshot = logSnapshot

RepliesAreLast == \A i \in Invocations : pc[i] # "done" => outcome[i] = "none"

Safe ==
    /\ KeptArePassed /\ GatedAreLogged
    /\ BurningIsPublished /\ RecordingIsAcked
    /\ LogNamesASnapshot /\ RepliesAreLast
    /\ PublishedIsVerified /\ BurnedOnlyAfterPublish /\ CommittedNamesASnapshot

LEMMA InitSafe == Init => Safe
BY DEF Init, Safe, KeptArePassed, GatedAreLogged, BurningIsPublished, RecordingIsAcked,
       LogNamesASnapshot, RepliesAreLast, PublishedIsVerified, BurnedOnlyAfterPublish,
       CommittedNamesASnapshot

\* A call that ends otherwise than committed, whatever it rolls back and records.
LEMMA EndsSafe ==
    ASSUME Types, Safe, NEW i \in Invocations, Release(i),
           NEW out \in Outcomes \ {"committed"}, NEW snap,
           \/ pc' = [pc EXCEPT ![i] = "done"] /\ outcome' = [outcome EXCEPT ![i] = out]
           \/ pc' = [pc EXCEPT ![i] = "crashed"] /\ pc[i] # "done" /\ UNCHANGED outcome,
           snapshot' = [snapshot EXCEPT ![i] = snap],
           logOutcome' # "committed" \/ UNCHANGED logOutcome,
           UNCHANGED <<logChunks, logSnapshot, ledger, transparency, history>>
    PROVE  Safe'
<1>. USE DEF Types, TypeOK, Release, history
<1>1. KeptArePassed'
  BY DEF Safe, KeptArePassed
<1>2. GatedAreLogged'
  BY DEF Safe, GatedAreLogged
<1>3. BurningIsPublished'
  BY DEF Safe, BurningIsPublished
<1>4. RecordingIsAcked'
  BY DEF Safe, RecordingIsAcked
<1>5. LogNamesASnapshot'
  BY DEF Safe, LogNamesASnapshot
<1>6. RepliesAreLast'
  BY DEF Safe, RepliesAreLast
<1>7. PublishedIsVerified' /\ BurnedOnlyAfterPublish'
  BY DEF Safe, PublishedIsVerified, BurnedOnlyAfterPublish
<1>8. CommittedNamesASnapshot'
  BY DEF Safe, CommittedNamesASnapshot, RepliesAreLast
<1>. QED
  BY <1>1, <1>2, <1>3, <1>4, <1>5, <1>6, <1>7, <1>8 DEF Safe

LEMMA FailClosedSafe ==
    ASSUME Types, Safe, NEW i \in Invocations, NEW out \in FailOutcomes, FailClosed(i, out)
    PROVE  Safe'
BY EndsSafe DEF FailClosed, FailOutcomes, Outcomes

LEMMA RollBackSafe ==
    ASSUME Types, Safe, NEW i \in Invocations, NEW committed, NEW fs, RollBack(i, fs, committed)
    PROVE  Safe'
BY EndsSafe DEF RollBack, Outcomes, durable

LEMMA ReturnSafe ==
    ASSUME Types, Safe, NEW i \in Invocations, NEW out \in Outcomes \ {"committed"},
           Return(i, out, 0)
    PROVE  Safe'
BY EndsSafe DEF Return, disk, durable

\* The steps of a call that publish, burn and record nothing.
LEMMA LoopSafe ==
    ASSUME Types, Safe, NEW i \in Invocations,
           \/ WriteChunk(i) \/ UploadThrows(i) \/ LoopThrows(i)
           \/ ReadBack(i) \/ ReadBackMismatch(i)
           \/ VerifyPass(i) \/ RecordChunkThrows(i) \/ VerifyFail(i)
           \/ NothingToCommit(i)
    PROVE  Safe'
<1>1. CASE WriteChunk(i) \/ ReadBack(i)
  BY <1>1 DEF WriteChunk, ReadBack, Types, TypeOK, Safe, KeptArePassed, GatedAreLogged,
      BurningIsPublished, RecordingIsAcked, LogNamesASnapshot, RepliesAreLast,
      PublishedIsVerified, BurnedOnlyAfterPublish, CommittedNamesASnapshot,
      disk, durable, memory, reply, history
<1>2. CASE UploadThrows(i) \/ LoopThrows(i) \/ RecordChunkThrows(i)
  BY <1>2, RollBackSafe DEF UploadThrows, LoopThrows, RecordChunkThrows
<1>3. CASE ReadBackMismatch(i) \/ VerifyFail(i)
  BY <1>3, FailClosedSafe DEF ReadBackMismatch, VerifyFail, FailOutcomes
<1>4. CASE NothingToCommit(i)
  BY <1>4, ReturnSafe DEF NothingToCommit, Outcomes
<1>5. CASE VerifyPass(i)
  <2>. USE <1>5 DEF VerifyPass, Types, TypeOK, Safe, reply
  <2>1. KeptArePassed'
    BY DEF KeptArePassed
  <2>2. GatedAreLogged'
    BY DEF GatedAreLogged
  <2>3. BurningIsPublished' /\ RecordingIsAcked'
    BY DEF BurningIsPublished, RecordingIsAcked
  <2>4. LogNamesASnapshot' /\ RepliesAreLast' /\ CommittedNamesASnapshot'
    BY DEF LogNamesASnapshot, RepliesAreLast, CommittedNamesASnapshot
  <2>5. PublishedIsVerified' /\ BurnedOnlyAfterPublish'
    BY DEF PublishedIsVerified, BurnedOnlyAfterPublish
  <2>. QED
    BY <2>1, <2>2, <2>3, <2>4, <2>5
<1>. QED
  BY <1>1, <1>2, <1>3, <1>4, <1>5

LEMMA InvokeSafe ==
    ASSUME Types, Safe, NEW i \in Invocations, NEW s \in Sources, NEW o \in 0 .. MaxChunks,
           Invoke(i, s, o)
    PROVE  Safe'
<1>1. CASE RefuseInput(i, s, o) \/ AllFiltered(i, s, o)
  BY <1>1, ReturnSafe DEF RefuseInput, AllFiltered, Outcomes, FailOutcomes
<1>2. CASE ReplayCommitted(i, s, o)
  <2>. USE <1>2 DEF ReplayCommitted, CanStart, Return, Release, Types, TypeOK, Safe, disk,
                    durable, history
  <2>1. KeptArePassed' /\ GatedAreLogged'
    BY DEF KeptArePassed, GatedAreLogged
  <2>2. BurningIsPublished' /\ RecordingIsAcked'
    BY DEF BurningIsPublished, RecordingIsAcked
  <2>3. LogNamesASnapshot' /\ RepliesAreLast'
    BY DEF LogNamesASnapshot, RepliesAreLast
  <2>4. PublishedIsVerified' /\ BurnedOnlyAfterPublish'
    BY DEF PublishedIsVerified, BurnedOnlyAfterPublish
  <2>5. CommittedNamesASnapshot'
    BY DEF CommittedNamesASnapshot, LogNamesASnapshot
  <2>. QED
    BY <2>1, <2>2, <2>3, <2>4, <2>5
<1>3. CASE FilterThrows(i, s, o)
  BY <1>3 DEF FilterThrows, CanStart, Types, TypeOK, Safe, KeptArePassed, GatedAreLogged,
      BurningIsPublished, RecordingIsAcked, LogNamesASnapshot, RepliesAreLast,
      PublishedIsVerified, BurnedOnlyAfterPublish, CommittedNamesASnapshot,
      disk, durable, memory, history
<1>4. CASE Load(i, s, o)
  <2>. USE <1>4 DEF Load, CanStart, Types, TypeOK, Safe, disk, durable, reply, history
  <2>1. KeptArePassed'
    BY DEF KeptArePassed
  <2>2. GatedAreLogged'
    BY DEF GatedAreLogged
  <2>3. BurningIsPublished' /\ RecordingIsAcked'
    BY DEF BurningIsPublished, RecordingIsAcked
  <2>4. LogNamesASnapshot' /\ RepliesAreLast' /\ CommittedNamesASnapshot'
    BY DEF LogNamesASnapshot, RepliesAreLast, CommittedNamesASnapshot
  <2>5. PublishedIsVerified' /\ BurnedOnlyAfterPublish'
    BY DEF PublishedIsVerified, BurnedOnlyAfterPublish
  <2>. QED
    BY <2>1, <2>2, <2>3, <2>4, <2>5
<1>. QED
  BY <1>1, <1>2, <1>3, <1>4 DEF Invoke

\* Publication, acknowledgement and what fails around them.
LEMMA MetadataSafe ==
    ASSUME Types, Safe, NEW i \in Invocations,
           \/ GateDraft(i) \/ GateRefuses(i) \/ PublishBlocked(i) \/ MetadataThrows(i)
           \/ Publish(i) \/ BurnNonces(i) \/ BurnRefused(i) \/ RecordCommitted(i)
           \/ AcknowledgeThrows(i) \/ FailureNotRecorded(i)
    PROVE  Safe'
<1>1. CASE GateRefuses(i) \/ PublishBlocked(i) \/ BurnRefused(i)
  BY <1>1, FailClosedSafe DEF GateRefuses, PublishBlocked, BurnRefused, FailOutcomes
<1>2. CASE MetadataThrows(i) \/ AcknowledgeThrows(i)
  BY <1>2, RollBackSafe DEF MetadataThrows, AcknowledgeThrows
<1>3. CASE FailureNotRecorded(i)
  <2>1. "unverified" \in Outcomes \ {"committed"}
    BY DEF Outcomes
  <2>. QED
    BY <1>3, <2>1, EndsSafe DEF FailureNotRecorded, AtMetadata, durable
<1>4. CASE GateDraft(i)
  <2>. USE <1>4 DEF GateDraft, AtMetadata, Types, TypeOK, Safe, disk, durable, reply, history
  <2>1. KeptArePassed'
    BY DEF KeptArePassed
  <2>2. GatedAreLogged'
    BY DEF GatedAreLogged, ToGate
  <2>3. BurningIsPublished' /\ RecordingIsAcked'
    BY DEF BurningIsPublished, RecordingIsAcked
  <2>4. LogNamesASnapshot' /\ RepliesAreLast' /\ CommittedNamesASnapshot'
    BY DEF LogNamesASnapshot, RepliesAreLast, CommittedNamesASnapshot
  <2>5. PublishedIsVerified' /\ BurnedOnlyAfterPublish'
    BY DEF PublishedIsVerified, BurnedOnlyAfterPublish
  <2>. QED
    BY <2>1, <2>2, <2>3, <2>4, <2>5
<1>5. CASE Publish(i)
  <2>. USE <1>5 DEF Publish, AtMetadata, Types, TypeOK, Safe, durable, memory
  <2>1. KeptArePassed'
    BY DEF KeptArePassed
  <2>2. GatedAreLogged'
    BY DEF GatedAreLogged
  <2>3. BurningIsPublished'
    <3>1. ASSUME NEW j \in Invocations, j # i, pc[j] \in {"burn", "record"}
          PROVE  \E p \in published' : p.by = j /\ p.drafts = drafts[j] /\ p.snapshot = snapshot'[j]
      BY <3>1 DEF BurningIsPublished
    <3>2. \E p \in published' : p.by = i /\ p.drafts = drafts[i] /\ p.snapshot = snapshot'[i]
      <4>. DEFINE p == [by |-> i, src |-> source[i], snapshot |-> catalog + 1,
                       drafts |-> drafts[i]]
      <4>1. p \in published' /\ snapshot'[i] = catalog + 1
        OBVIOUS
      <4>. QED
        BY <4>1
    <3>3. \A j \in Invocations \ {i} : pc'[j] = pc[j]
      OBVIOUS
    <3>. QED
      BY <3>1, <3>2, <3>3 DEF BurningIsPublished
  <2>4. RecordingIsAcked' /\ RepliesAreLast'
    BY DEF RecordingIsAcked, RepliesAreLast
  <2>5. LogNamesASnapshot'
    BY DEF LogNamesASnapshot
  <2>6. CommittedNamesASnapshot'
    BY DEF CommittedNamesASnapshot, RepliesAreLast
  <2>7. PublishedIsVerified'
    BY DEF PublishedIsVerified, KeptArePassed, GatedAreLogged
  <2>8. BurnedOnlyAfterPublish'
    BY DEF BurnedOnlyAfterPublish
  <2>. QED
    BY <2>1, <2>2, <2>3, <2>4, <2>5, <2>6, <2>7, <2>8
<1>6. CASE BurnNonces(i)
  <2>. USE <1>6 DEF BurnNonces, Types, TypeOK, Safe, durable, memory, reply
  <2>1. KeptArePassed' /\ GatedAreLogged'
    BY DEF KeptArePassed, GatedAreLogged
  <2>2. BurningIsPublished'
    BY DEF BurningIsPublished
  <2>3. RecordingIsAcked' /\ RepliesAreLast'
    BY DEF RecordingIsAcked, RepliesAreLast
  <2>4. LogNamesASnapshot' /\ CommittedNamesASnapshot'
    BY DEF LogNamesASnapshot, CommittedNamesASnapshot
  <2>5. PublishedIsVerified'
    BY DEF PublishedIsVerified
  <2>6. BurnedOnlyAfterPublish'
    <3>1. PICK p \in published : p.drafts = drafts[i]
      BY DEF BurningIsPublished
    <3>. QED
      BY <3>1 DEF BurnedOnlyAfterPublish
  <2>. QED
    BY <2>1, <2>2, <2>3, <2>4, <2>5, <2>6
<1>7. CASE RecordCommitted(i)
  <2>. USE <1>7 DEF RecordCommitted, Release, Types, TypeOK, Safe, history
  <2>1. KeptArePassed' /\ GatedAreLogged'
    BY DEF KeptArePassed, GatedAreLogged
  <2>2. BurningIsPublished' /\ RecordingIsAcked'
    BY DEF BurningIsPublished, RecordingIsAcked
  <2>3. RepliesAreLast'
    BY DEF RepliesAreLast
  <2>4. PICK p \in published : p.by = i /\ p.snapshot = snapshot[i]
    BY DEF BurningIsPublished
  <2>5. LogNamesASnapshot' /\ CommittedNamesASnapshot'
    BY <2>4 DEF LogNamesASnapshot, CommittedNamesASnapshot, RecordingIsAcked
  <2>6. PublishedIsVerified' /\ BurnedOnlyAfterPublish'
    BY DEF PublishedIsVerified, BurnedOnlyAfterPublish
  <2>. QED
    BY <2>1, <2>2, <2>3, <2>5, <2>6
<1>. QED
  BY <1>1, <1>2, <1>3, <1>4, <1>5, <1>6, <1>7

LEMMA EnvironmentSafe ==
    ASSUME Types, Safe, (\E i \in Invocations : Crash(i)) \/ ReplaceHost
    PROVE  Safe'
<1>1. ASSUME NEW i \in Invocations, Crash(i) PROVE Safe'
  <2>1. "unverified" \in Outcomes \ {"committed"}
    BY DEF Outcomes
  <2>2. pc[i] # "done"
    BY <1>1, EnvironmentAssumption DEF Crash
  <2>. QED
    BY <1>1, <2>1, <2>2, EndsSafe DEF Crash, disk, durable
<1>2. CASE ReplaceHost
  BY <1>2 DEF ReplaceHost, Safe, KeptArePassed, GatedAreLogged, BurningIsPublished,
      RecordingIsAcked, LogNamesASnapshot, RepliesAreLast, PublishedIsVerified,
      BurnedOnlyAfterPublish, CommittedNamesASnapshot, memory, reply, history
<1>. QED
  BY <1>1, <1>2

LEMMA StutterSafe == ASSUME Safe, UNCHANGED vars PROVE Safe'
BY DEF Safe, KeptArePassed, GatedAreLogged, BurningIsPublished, RecordingIsAcked,
    LogNamesASnapshot, RepliesAreLast, PublishedIsVerified, BurnedOnlyAfterPublish,
    CommittedNamesASnapshot, vars, disk, durable, memory, reply, history

LEMMA NextSafe == ASSUME Types, Safe, [Next]_vars PROVE Safe'
BY InvokeSafe, LoopSafe, MetadataSafe, EnvironmentSafe, StutterSafe DEF Next, Step

\* What log, memory and history have in common, in every environment.
THEOREM SafeAlways == Spec => []Safe
BY InitSafe, NextSafe, TypesAlways, PTL DEF Spec

\* The core invariant of the pattern, with any number of overlapping calls,
\* crashes, failed saves and host changes: a snapshot is published only from
\* chunks whose proof was PASS and is in the transparency log.
THEOREM CommitImpliesPass == Spec => []PublishedIsVerified
<1>1. Safe => PublishedIsVerified
  BY DEF Safe
<1>. QED
  BY <1>1, SafeAlways, PTL

\* No nonce is burned for a snapshot that was not published.
THEOREM BurnFollowsPublish == Spec => []BurnedOnlyAfterPublish
<1>1. Safe => BurnedOnlyAfterPublish
  BY DEF Safe
<1>. QED
  BY <1>1, SafeAlways, PTL

\* A committed reply, first or replayed, names an acknowledged snapshot.
THEOREM CommittedIsPublished == Spec => []CommittedNamesASnapshot
<1>1. Safe => CommittedNamesASnapshot
  BY DEF Safe
<1>. QED
  BY <1>1, SafeAlways, PTL

-----------------------------------------------------------------------------
(* PvdmRuntime implements ProofGatedPublication: calls publish and acknowledge once *)

Single ==
    /\ \A p \in published : pc[p.by] \in {"burn", "record", "done", "crashed"}
    /\ \A i \in Invocations :
         pc[i] \in {"idle", "loop", "readback", "verify", "burn"} => i \notin acked

LEMMA InitSingle == Init => Single
BY DEF Init, Single

LEMMA PublishersAreInvocations == ASSUME Types PROVE \A p \in published : p.by \in Invocations
BY DEF Types, TypeOK, Publication

\* A call that ends.
LEMMA EndsSingle ==
    ASSUME Types, Single, NEW i \in Invocations, NEW end \in {"done", "crashed"},
           pc' = [pc EXCEPT ![i] = end], UNCHANGED history
    PROVE  Single'
BY PublishersAreInvocations DEF Types, TypeOK, Single, history

\* A call that goes on before its publication.
LEMMA GoesOnSingle ==
    ASSUME Types, Single, NEW i \in Invocations, NEW at \in {"loop", "readback", "verify"},
           pc[i] \in {"idle", "loop", "readback", "verify"},
           pc' = [pc EXCEPT ![i] = at] \/ UNCHANGED pc, UNCHANGED <<published, acked>>
    PROVE  Single'
BY PublishersAreInvocations DEF Types, TypeOK, Single

LEMMA InvokeSingle ==
    ASSUME Types, Single, NEW i \in Invocations, NEW s \in Sources, NEW o \in 0 .. MaxChunks,
           Invoke(i, s, o)
    PROVE  Single'
<1>1. CASE Load(i, s, o)
  BY <1>1, GoesOnSingle DEF Load, CanStart, history
<1>. QED
  BY <1>1, EndsSingle DEF Invoke, RefuseInput, ReplayCommitted, AllFiltered, FilterThrows, Return

LEMMA StepSingle ==
    ASSUME Types, Single, NEW i \in Invocations, Step(i)
    PROVE  Single'
<1>1. CASE UploadThrows(i) \/ LoopThrows(i) \/ RecordChunkThrows(i) \/ MetadataThrows(i)
           \/ AcknowledgeThrows(i)
  BY <1>1, EndsSingle DEF UploadThrows, LoopThrows, RecordChunkThrows, MetadataThrows,
                         AcknowledgeThrows, RollBack
<1>2. CASE ReadBackMismatch(i) \/ VerifyFail(i) \/ GateRefuses(i) \/ PublishBlocked(i)
           \/ BurnRefused(i)
  BY <1>2, EndsSingle DEF ReadBackMismatch, VerifyFail, GateRefuses, PublishBlocked,
                         BurnRefused, FailClosed
<1>3. CASE NothingToCommit(i) \/ RecordCommitted(i) \/ FailureNotRecorded(i)
  BY <1>3, EndsSingle DEF NothingToCommit, RecordCommitted, FailureNotRecorded, Return
<1>4. CASE WriteChunk(i) \/ ReadBack(i) \/ VerifyPass(i) \/ GateDraft(i)
  BY <1>4, GoesOnSingle DEF WriteChunk, ReadBack, VerifyPass, GateDraft, AtMetadata, history
<1>5. CASE Publish(i)
  <2>1. i \notin acked
    BY <1>5 DEF Publish, AtMetadata, Single
  <2>. QED
    BY <1>5, <2>1, PublishersAreInvocations DEF Publish, Types, TypeOK, Single
<1>6. CASE BurnNonces(i)
  BY <1>6, PublishersAreInvocations DEF BurnNonces, Types, TypeOK, Single
<1>. QED
  BY <1>1, <1>2, <1>3, <1>4, <1>5, <1>6 DEF Step

LEMMA NextSingle == ASSUME Types, Single, [Next]_vars PROVE Single'
<1>1. ASSUME NEW i \in Invocations, Crash(i) PROVE Single'
  BY <1>1, EndsSingle DEF Crash
<1>2. CASE ReplaceHost \/ UNCHANGED vars
  BY <1>2 DEF ReplaceHost, vars, history, Single
<1>. QED
  BY <1>1, <1>2, InvokeSingle, StepSingle DEF Next

\* Who has published is past the publication, and who has acknowledged is past that.
THEOREM SingleAlways == Spec => []Single
BY InitSingle, NextSingle, TypesAlways, PTL DEF Spec

-----------------------------------------------------------------------------
(* Every step of the runtime is a step of the gate, or leaves it alone *)

Unseen == UNCHANGED <<passed, published, acked, ledger>>

LEMMA InvokeUnseen ==
    ASSUME NEW i \in Invocations, NEW s \in Sources, NEW o \in 0 .. MaxChunks, Invoke(i, s, o)
    PROVE  Unseen
BY DEF Invoke, RefuseInput, ReplayCommitted, AllFiltered, FilterThrows, Load, Return, Unseen,
       disk, history

LEMMA StepUnseen ==
    ASSUME NEW i \in Invocations, Step(i), ~VerifyPass(i), ~Publish(i), ~BurnNonces(i)
    PROVE  Unseen
BY DEF Step, WriteChunk, UploadThrows, LoopThrows, ReadBack, ReadBackMismatch,
       RecordChunkThrows, VerifyFail, NothingToCommit, GateDraft, GateRefuses,
       PublishBlocked, MetadataThrows, BurnRefused, RecordCommitted, AcknowledgeThrows,
       FailureNotRecorded, RollBack, FailClosed, Return, Unseen, disk, history

LEMMA VerifyIsVerify ==
    ASSUME NEW i \in Invocations, VerifyPass(i)
    PROVE  Gate!Verify \/ Unseen
<1>1. passed' = passed \cup {NewDraft(i)} /\ UNCHANGED <<published, acked, ledger>>
  BY DEF VerifyPass
<1>. QED
  BY <1>1 DEF Gate!Verify, Unseen

LEMMA PublishIsPublish ==
    ASSUME Types, Safe, Single, NEW i \in Invocations, Publish(i)
    PROVE  Gate!Publish
<1>. DEFINE p == [by |-> i, src |-> source[i], snapshot |-> catalog + 1, drafts |-> drafts[i]]
<1>1. published' = published \cup {p} /\ UNCHANGED <<passed, acked, ledger>>
  BY DEF Publish
<1>2. \A q \in published : q.by # i
  BY DEF Single, Publish, AtMetadata
<1>3. p \notin published
  BY <1>2
<1>4. p.drafts # {} /\ p.drafts \subseteq passed
  BY DEF Publish, AtMetadata, Safe, KeptArePassed
<1>5. \E q \in published' \ published :
        /\ published' = published \cup {q}
        /\ q.drafts # {} /\ q.drafts \subseteq passed
        /\ \A r \in published : r.by # q.by
  BY <1>1, <1>2, <1>3, <1>4
<1>. QED
  BY <1>1, <1>5 DEF Gate!Publish

LEMMA BurnIsAcknowledge ==
    ASSUME Safe, Single, NEW i \in Invocations, BurnNonces(i)
    PROVE  Gate!Acknowledge
<1>1. PICK p \in published : p.by = i /\ p.drafts = drafts[i]
  BY DEF Safe, BurningIsPublished, BurnNonces
<1>2. Gate!Nonces(p) = NoncesOf(drafts[i])
  BY <1>1 DEF Gate!Nonces, NoncesOf
<1>3. p.by \notin acked
  BY <1>1 DEF Single, BurnNonces
<1>. QED
  BY <1>1, <1>2, <1>3 DEF Gate!Acknowledge, BurnNonces

LEMMA NextIsGateNext ==
    ASSUME Types, Safe, Single, [Next]_vars
    PROVE  [Gate!Next]_(Gate!vars)
<1>1. Unseen => UNCHANGED Gate!vars
  BY DEF Unseen, Gate!vars
<1>2. ASSUME NEW i \in Invocations, Step(i) PROVE Gate!Next \/ Unseen
  <2>1. CASE VerifyPass(i)
    BY <2>1, VerifyIsVerify DEF Gate!Next
  <2>2. CASE Publish(i)
    BY <2>2, PublishIsPublish DEF Gate!Next
  <2>3. CASE BurnNonces(i)
    BY <2>3, BurnIsAcknowledge DEF Gate!Next
  <2>. QED
    BY <1>2, <2>1, <2>2, <2>3, StepUnseen
<1>3. ASSUME NEW i \in Invocations, Crash(i) PROVE Unseen
  BY <1>3 DEF Crash, disk, history, Unseen
<1>4. CASE ReplaceHost
  BY <1>4 DEF ReplaceHost, history, Gate!Next, Gate!Forget
<1>5. ASSUME UNCHANGED vars PROVE Unseen
  BY <1>5 DEF vars, disk, history, Unseen
<1>. QED
  BY <1>1, <1>2, <1>3, <1>4, <1>5, InvokeUnseen DEF Next

LEMMA InitIsGateInit == Init => Gate!Init
BY DEF Init, Gate!Init

\* The runtime implements the proof-gated publication, for any number of calls,
\* inputs and chunks, with overlap, crashes, failed saves and host changes.
THEOREM RuntimeRefinesGate == Spec => RefinesGate
BY InitIsGateInit, NextIsGateNext, TypesAlways, SafeAlways, SingleAlways, PTL
DEF Spec, RefinesGate, Gate!Spec

-----------------------------------------------------------------------------
(* What the gate says of nonces, hence the runtime too *)

\* An acknowledged snapshot is the only one of its publisher, and its nonces are
\* in the ledger: a later acknowledgement finds them there.
Spent ==
    /\ \A p, q \in published : p.by = q.by => p = q
    /\ \A a \in acked : \E p \in published : p.by = a
    /\ \A p \in published : p.by \in acked => NoncesOf(p.drafts) \subseteq ledger
    /\ NonceBurnedOnce

LEMMA GateSpent ==
    ASSUME ~HostMayBeReplaced, Spent, [Gate!Next]_(Gate!vars)
    PROVE  Spent'
<1>1. CASE Gate!Verify \/ UNCHANGED Gate!vars
  BY <1>1 DEF Gate!Verify, Gate!vars, Spent, NonceBurnedOnce
<1>2. CASE Gate!Publish
  <2>1. PICK p \in published' \ published :
               published' = published \cup {p} /\ \A q \in published : q.by # p.by
    BY <1>2 DEF Gate!Publish
  <2>2. p.by \notin acked /\ UNCHANGED <<acked, ledger>>
    BY <1>2, <2>1 DEF Gate!Publish, Spent
  <2>. QED
    BY <2>1, <2>2 DEF Spent, NonceBurnedOnce
<1>3. CASE Gate!Acknowledge
  <2>1. PICK p \in published :
               /\ p.by \notin acked /\ Gate!Nonces(p) \cap ledger = {}
               /\ acked' = acked \cup {p.by}
               /\ ledger' = ledger \cup Gate!Nonces(p)
    BY <1>3 DEF Gate!Acknowledge
  <2>2. Gate!Nonces(p) = NoncesOf(p.drafts) /\ UNCHANGED published
    BY <1>3 DEF Gate!Acknowledge, Gate!Nonces, NoncesOf
  <2>3. \A q \in published : q.by \in acked' => q = p \/ q.by \in acked
    BY <2>1 DEF Spent
  <2>4. \A q \in published : q.by \in acked' => NoncesOf(q.drafts) \subseteq ledger'
    BY <2>1, <2>2, <2>3 DEF Spent
  <2>5. \A q \in published : q.by \in acked => NoncesOf(q.drafts) \cap NoncesOf(p.drafts) = {}
    BY <2>1, <2>2 DEF Spent
  <2>6. NonceBurnedOnce'
    <3>1. \A q, r \in published : q # r /\ q.by \in acked' /\ r.by \in acked' =>
             NoncesOf(q.drafts) \cap NoncesOf(r.drafts) = {}
      BY <2>3, <2>5 DEF Spent, NonceBurnedOnce
    <3>. QED
      BY <2>2, <3>1 DEF NonceBurnedOnce
  <2>. QED
    BY <2>1, <2>2, <2>4, <2>6 DEF Spent
<1>4. CASE Gate!Forget
  BY <1>4 DEF Gate!Forget
<1>. QED
  BY <1>1, <1>2, <1>3, <1>4 DEF Gate!Next

\* As long as the ledger is not lost, a nonce is acknowledged by one snapshot,
\* for any number of calls that publish the same stored chunks at the same time.
THEOREM NoncesAreBurnedOnce == ASSUME ~HostMayBeReplaced PROVE Spec => []NonceBurnedOnce
<1>1. Init => Spent
  BY DEF Init, Spent, NonceBurnedOnce
<1>2. Types /\ Safe /\ Single /\ Spent /\ [Next]_vars => Spent'
  BY NextIsGateNext, GateSpent
<1>3. Spent => NonceBurnedOnce
  BY DEF Spent
<1>. QED
  BY <1>1, <1>2, <1>3, TypesAlways, SafeAlways, SingleAlways, PTL DEF Spec
=============================================================================
