------------------------ MODULE PvdmExecutionProofs ------------------------
(***************************************************************************)
(* The execution around the runtime, for any input, any number of calls,   *)
(* retries and resumes.  An execution is a user of PvdmRuntime: every step *)
(* of it is one of the runtime or leaves the runtime alone, so what holds  *)
(* of the runtime holds here.  What the end of an execution tells of the   *)
(* catalog follows from that and from who may still be running.            *)
(***************************************************************************)
EXTENDS PvdmExecution, PvdmResumeProofs

-----------------------------------------------------------------------------
(* Types, and the runtime the execution uses *)

Going == {"IntegrityGate", "InvokeDomainWriter", "Waiting"}

ExecTypes ==
    /\ Types /\ ExecTypeOK
    /\ state \in {"Waiting", "Success"} /\ input # None => current \in Invocations
    /\ state \in Going => resumeAttempt < MaxResumeAttempts

LEMMA InitExecTypes == ExecInit => ExecTypes
<1>1. ExecInit => Types
  BY InitTypes DEF ExecInit
<1>. QED
  BY <1>1, SourcesAssumption, ExecutionAssumption
  DEF ExecInit, ExecTypes, ExecTypeOK, Types, Going, Terminal, Failed

LEMMA FreshIsUnused ==
    ASSUME Unused # {}
    PROVE  Fresh \in Invocations /\ pc[Fresh] = "idle"
<1>1. Fresh \in Unused
  BY DEF Fresh
<1>. QED
  BY <1>1 DEF Unused

\* A step of the execution calls the runtime, lets it go on or leaves it alone.
LEMMA ExecStepIsStep ==
    ASSUME ExecTypes, [ExecNext]_execVars
    PROVE  [Next]_vars
<1>1. CASE InvokeDomainWriter
  <2>1. Fresh \in Invocations /\ input \in Sources /\ resumeOffset \in 0 .. MaxChunks
    BY <1>1, FreshIsUnused, ExecutionAssumption
    DEF InvokeDomainWriter, ExecTypes, ExecTypeOK
  <2>2. Invoke(Fresh, input, resumeOffset)
    BY <1>1 DEF InvokeDomainWriter
  <2>. QED
    BY <2>1, <2>2 DEF Next
<1>2. CASE LambdaMoves
  BY <1>2 DEF LambdaMoves, Next
<1>3. CASE \/ IntegrityGate \/ InvokeWithoutRows \/ RetryTask \/ TaskFails \/ RouteOutcome
           \/ ResumeAfterRollback \/ UNCHANGED execVars
  BY <1>3 DEF IntegrityGate, InvokeWithoutRows, RetryTask, TaskFails, RouteOutcome,
              ResumeAfterRollback, Goto, execVars
<1>. QED
  BY <1>1, <1>2, <1>3 DEF ExecNext

LEMMA InputStays == ASSUME [ExecNext]_execVars PROVE input' = input
BY DEF ExecNext, IntegrityGate, InvokeDomainWriter, InvokeWithoutRows, RetryTask, TaskFails,
       RouteOutcome, ResumeAfterRollback, LambdaMoves, Goto, execVars, sfn

LEMMA InputType == ASSUME ExecTypes, input # None PROVE input \in Sources
BY ExecutionAssumption DEF ExecTypes, ExecTypeOK

LEMMA NextExecTypes == ASSUME ExecTypes, [ExecNext]_execVars PROVE ExecTypes'
<1>1. Types'
  BY ExecStepIsStep, NextTypes DEF ExecTypes
<1>. USE <1>1, ExecutionAssumption
     DEF ExecTypes, ExecTypeOK, Types, Going, Terminal, Failed
<1>2. CASE IntegrityGate
  BY <1>2 DEF IntegrityGate, Goto
<1>3. CASE InvokeDomainWriter
  BY <1>3, FreshIsUnused DEF InvokeDomainWriter
<1>10. CASE InvokeWithoutRows
  BY <1>10 DEF InvokeWithoutRows, Goto
<1>4. CASE RetryTask
  BY <1>4 DEF RetryTask
<1>5. CASE TaskFails
  BY <1>5 DEF TaskFails, Goto
<1>6. CASE RouteOutcome
  BY <1>6 DEF RouteOutcome, Replied, Goto
<1>7. CASE ResumeAfterRollback
  <2>1. resumeAt[current] \in 0 .. MaxChunks
    BY <1>7 DEF ResumeAfterRollback, Replied, TypeOK
  <2>2. resumeAttempt + 1 \in 0 .. MaxResumeAttempts
    BY <1>7 DEF ResumeAfterRollback, Replied
  <2>. QED
    BY <1>7, <2>1, <2>2 DEF ResumeAfterRollback, Replied
<1>8. CASE LambdaMoves
  BY <1>8 DEF LambdaMoves, sfn
<1>9. CASE UNCHANGED execVars
  BY <1>9 DEF execVars, sfn
<1>. QED
  BY <1>2, <1>3, <1>4, <1>5, <1>6, <1>7, <1>8, <1>9, <1>10 DEF ExecNext

\* Types of the execution and its runtime, and the attempts that are left while it goes on.
THEOREM ExecTypesAlways == ExecSpec => []ExecTypes
BY InitExecTypes, NextExecTypes, PTL DEF ExecSpec

\* The execution is well typed, and its attempts and offsets stay in their bounds,
\* whatever the runtime and its hosts do.
THEOREM ExecTypeCorrect == ExecSpec => []ExecTypeOK
<1>1. ExecTypes => ExecTypeOK
  BY DEF ExecTypes
<1>. QED
  BY <1>1, ExecTypesAlways, PTL

\* An execution uses the runtime as its callers may: with an offset it was given,
\* one call after the other.  What is proved of the runtime holds in it.
THEOREM ExecutionUsesRuntime == ExecSpec => Spec
<1>1. ExecInit => Init
  BY DEF ExecInit
<1>2. ExecTypes /\ [ExecNext]_execVars => [Next]_vars
  BY ExecStepIsStep
<1>. QED
  BY <1>1, <1>2, ExecTypesAlways, PTL DEF ExecSpec, Spec

-----------------------------------------------------------------------------
(* What a call has answered stays, and Success rests on it *)

\* No step of another call, nor of the environment, changes the answer of a call.
LEMMA AnswersStay ==
    ASSUME Types, [Next]_vars, NEW i \in Invocations, pc[i] = "done"
    PROVE  /\ pc'[i] = "done"
           /\ outcome'[i] = outcome[i] /\ resumeAt'[i] = resumeAt[i]
<1>. USE DEF Types, TypeOK
<1>1. ASSUME NEW j \in Invocations, NEW s \in Sources, NEW o \in 0 .. MaxChunks, Invoke(j, s, o)
      PROVE  j # i /\ \A k \in Invocations \ {j} :
                /\ pc'[k] = pc[k]
                /\ outcome'[k] = outcome[k] /\ resumeAt'[k] = resumeAt[k]
  BY <1>1 DEF Invoke, CanStart, RefuseInput, ReplayCommitted, AllFiltered, FilterThrows, Load,
              Return, reply
<1>2. ASSUME NEW j \in Invocations,
             \/ WriteChunk(j) \/ UploadThrows(j) \/ LoopThrows(j)
             \/ ReadBack(j) \/ ReadBackMismatch(j)
             \/ VerifyPass(j) \/ RecordChunkThrows(j) \/ VerifyFail(j)
             \/ NothingToCommit(j)
      PROVE  j # i /\ \A k \in Invocations \ {j} :
                /\ pc'[k] = pc[k]
                /\ outcome'[k] = outcome[k] /\ resumeAt'[k] = resumeAt[k]
  BY <1>2 DEF WriteChunk, UploadThrows, LoopThrows, ReadBack, ReadBackMismatch, VerifyPass,
      RecordChunkThrows, VerifyFail, NothingToCommit, FailClosed, RollBack, Return, reply
<1>3. ASSUME NEW j \in Invocations,
             \/ GateDraft(j) \/ GateRefuses(j) \/ PublishBlocked(j) \/ MetadataThrows(j)
             \/ Publish(j) \/ BurnNonces(j) \/ BurnRefused(j) \/ RecordCommitted(j)
             \/ AcknowledgeThrows(j) \/ FailureNotRecorded(j)
      PROVE  j # i /\ \A k \in Invocations \ {j} :
                /\ pc'[k] = pc[k]
                /\ outcome'[k] = outcome[k] /\ resumeAt'[k] = resumeAt[k]
  BY <1>3 DEF GateDraft, GateRefuses, PublishBlocked, MetadataThrows, Publish, BurnNonces,
      BurnRefused, RecordCommitted, AcknowledgeThrows, FailureNotRecorded, AtMetadata,
      FailClosed, RollBack, reply
<1>4. ASSUME NEW j \in Invocations, Crash(j)
      PROVE  j # i /\ \A k \in Invocations \ {j} :
                /\ pc'[k] = pc[k]
                /\ outcome'[k] = outcome[k] /\ resumeAt'[k] = resumeAt[k]
  BY <1>4, EnvironmentAssumption DEF Crash
<1>5. CASE ReplaceHost \/ UNCHANGED vars
  BY <1>5 DEF ReplaceHost, vars, reply
<1>. QED
  BY <1>1, <1>2, <1>3, <1>4, <1>5 DEF Next, Step

\* Nothing but the input of the execution is in memory or published.
OnlyInput ==
    /\ \A i \in Invocations : source[i] \in {input, None}
    /\ \A p \in published : p.src = input

SuccessIsAnswered ==
    state = "Success" /\ input # None => pc[current] = "done" /\ outcome[current] = "committed"

Answered == OnlyInput /\ SuccessIsAnswered

LEMMA InitAnswered == ExecInit => Answered
BY DEF ExecInit, Init, Answered, OnlyInput, SuccessIsAnswered

\* A call is started with the input of the execution.
LEMMA InvokeKeepsInput ==
    ASSUME Types, OnlyInput, NEW i \in Invocations, NEW o \in 0 .. MaxChunks,
           input \in Sources, Invoke(i, input, o), input' = input
    PROVE  OnlyInput'
BY DEF Types, TypeOK, OnlyInput, Invoke, RefuseInput, ReplayCommitted, AllFiltered,
       FilterThrows, Load, Return, Release, memory, history

\* A call that goes on keeps its input and publishes it, one that ends forgets it.
LEMMA StepKeepsInput ==
    ASSUME Types, OnlyInput, [Next]_vars, input' = input,
           (\E i \in Invocations : Step(i) \/ Crash(i)) \/ ReplaceHost \/ UNCHANGED vars
    PROVE  OnlyInput'
<1>. USE DEF Types, TypeOK, OnlyInput
<1>1. \A i \in Invocations : source'[i] \in {source[i], None}
  <2>1. ASSUME NEW j \in Invocations, Release(j) \/ UNCHANGED source
        PROVE  \A i \in Invocations : source'[i] \in {source[i], None}
    BY <2>1 DEF Release
  <2>2. ASSUME NEW j \in Invocations, Step(j)
        PROVE  Release(j) \/ UNCHANGED source
    <3>1. CASE \/ WriteChunk(j) \/ UploadThrows(j) \/ LoopThrows(j)
               \/ ReadBack(j) \/ ReadBackMismatch(j)
               \/ VerifyPass(j) \/ RecordChunkThrows(j) \/ VerifyFail(j)
               \/ NothingToCommit(j)
      BY <3>1 DEF WriteChunk, UploadThrows, LoopThrows, ReadBack, ReadBackMismatch, VerifyPass,
          RecordChunkThrows, VerifyFail, NothingToCommit, FailClosed, RollBack, Return, memory
    <3>2. CASE \/ GateDraft(j) \/ GateRefuses(j) \/ PublishBlocked(j) \/ MetadataThrows(j)
               \/ Publish(j) \/ BurnNonces(j) \/ BurnRefused(j) \/ RecordCommitted(j)
               \/ AcknowledgeThrows(j) \/ FailureNotRecorded(j)
      BY <3>2 DEF GateDraft, GateRefuses, PublishBlocked, MetadataThrows, Publish, BurnNonces,
          BurnRefused, RecordCommitted, AcknowledgeThrows, FailureNotRecorded,
          FailClosed, RollBack, memory
    <3>. QED
      BY <2>2, <3>1, <3>2 DEF Step
  <2>3. ASSUME NEW j \in Invocations, Crash(j) PROVE Release(j)
    BY <2>3 DEF Crash
  <2>4. CASE ReplaceHost \/ UNCHANGED vars
    BY <2>4 DEF ReplaceHost, vars, memory
  <2>. QED
    BY <2>1, <2>2, <2>3, <2>4
<1>2. \A p \in published' : p.src = input
  <2>1. CASE published' = published
    BY <2>1
  <2>2. CASE published' # published
    <3>1. PICK i \in Invocations : Publish(i)
      BY <2>2, OnlyPublishPublishes
    <3>2. source[i] \in Sources
      BY <3>1 DEF Publish, AtMetadata, InCall, Running
    <3>3. source[i] = input
      BY <3>2, SourcesAssumption
    <3>. QED
      BY <3>1, <3>3 DEF Publish
  <2>. QED
    BY <2>1, <2>2
<1>. QED
  BY <1>1, <1>2

LEMMA NextAnswered ==
    ASSUME ExecTypes, Answered, [ExecNext]_execVars
    PROVE  Answered'
<1>1. [Next]_vars
  BY ExecStepIsStep
<1>4. input' = input
  BY InputStays
<1>2. OnlyInput'
  <2>1. CASE InvokeDomainWriter
    <3>1. Fresh \in Invocations /\ resumeOffset \in 0 .. MaxChunks
      BY <2>1, FreshIsUnused DEF InvokeDomainWriter, ExecTypes, ExecTypeOK
    <3>2. input \in Sources
      BY <2>1, InputType DEF InvokeDomainWriter
    <3>. QED
      BY <1>4, <2>1, <3>1, <3>2, InvokeKeepsInput DEF InvokeDomainWriter, Answered, ExecTypes
  <2>2. CASE LambdaMoves
    BY <1>1, <1>4, <2>2, StepKeepsInput DEF LambdaMoves, Answered, ExecTypes
  <2>3. CASE \/ IntegrityGate \/ InvokeWithoutRows \/ RetryTask \/ TaskFails
             \/ RouteOutcome \/ ResumeAfterRollback \/ UNCHANGED execVars
    <3>1. UNCHANGED vars
      BY <2>3 DEF IntegrityGate, InvokeWithoutRows, RetryTask, TaskFails, RouteOutcome,
                  ResumeAfterRollback, Goto, execVars
    <3>. QED
      BY <1>1, <1>4, <3>1, StepKeepsInput DEF Answered, ExecTypes
  <2>. QED
    BY <2>1, <2>2, <2>3 DEF ExecNext
<1>3. SuccessIsAnswered'
  <2>1. CASE state = "Success" /\ UNCHANGED <<state, current>>
    BY <1>1, <1>4, <2>1, AnswersStay DEF Answered, SuccessIsAnswered, ExecTypes
  <2>2. CASE state = "Success" /\ ~UNCHANGED <<state, current>>
    BY <2>2 DEF ExecNext, IntegrityGate, InvokeDomainWriter, InvokeWithoutRows, RetryTask,
                TaskFails, RouteOutcome, ResumeAfterRollback,
                LambdaMoves, Replied, execVars, sfn
  <2>3. CASE RouteOutcome
    <3>1. UNCHANGED <<vars, current>>
      BY <2>3 DEF RouteOutcome, Goto
    <3>2. state' = "Success" => Replied("committed")
      BY <2>3 DEF RouteOutcome, Goto
    <3>. QED
      BY <1>4, <3>1, <3>2 DEF SuccessIsAnswered, Replied, vars, reply
  <2>4. CASE state # "Success" /\ ~RouteOutcome
    BY <2>4 DEF SuccessIsAnswered, ExecNext, IntegrityGate, InvokeDomainWriter,
                InvokeWithoutRows, RetryTask, TaskFails, ResumeAfterRollback,
                LambdaMoves, Goto, execVars, sfn
  <2>. QED
    BY <2>1, <2>2, <2>3, <2>4
<1>. QED
  BY <1>2, <1>3 DEF Answered

\* An execution handles one input, and has Success from a committed reply only.
THEOREM AnsweredAlways == ExecSpec => []Answered
BY InitAnswered, NextAnswered, ExecTypesAlways, PTL DEF ExecSpec

\* Success means: a snapshot with every chunk of the input is visible, it is acknowledged,
\* and the reply names it, also when retried calls overlap and calls die anywhere.
THEOREM SuccessMeansPublished ==
    ASSUME ~SaveMayFail, ~HostMayBeReplaced
    PROVE  ExecSpec => []SuccessIsPublished
<1>1. ASSUME ExecTypes, Answered, Safe, Prefix, state = "Success", input # None
      PROVE  \E p \in published :
                /\ p.by \in acked /\ p.snapshot = snapshot[current]
                /\ \A c \in Chunk : c < ChunkCount[input] => c \in ChunksOf(p.drafts)
  <2>1. current \in Invocations /\ outcome[current] = "committed"
    BY <1>1 DEF ExecTypes, Answered, SuccessIsAnswered
  <2>2. PICK p \in published : p.by \in acked /\ p.snapshot = snapshot[current]
    BY <1>1, <2>1 DEF Safe, CommittedNamesASnapshot
  <2>3. p.src = input
    BY <1>1 DEF Answered, OnlyInput
  <2>4. \A c \in Chunk : c < ChunkCount[input] => c \in ChunksOf(p.drafts)
    BY <1>1, <2>3 DEF Prefix, PublishedIsComplete
  <2>. QED
    BY <2>2, <2>4
<1>2. ExecTypes /\ Answered /\ Safe /\ Prefix => SuccessIsPublished
  BY <1>1 DEF SuccessIsPublished
<1>. QED
  BY <1>2, ExecTypesAlways, AnsweredAlways, ExecutionUsesRuntime, SafeAlways, PrefixAlways, PTL

-----------------------------------------------------------------------------
(* A resume does not go back *)

\* The write loop is not before where the call began; the call the execution waits for
\* began at its offset and, rolled back, returns one that is not before.
Forward ==
    /\ \A i \in Invocations : from[i] <= next[i]
    /\ state = "Waiting" /\ input # None /\ pc[current] \in Running => from[current] = resumeOffset
    /\ state = "Waiting" /\ input # None /\ pc[current] = "done"
         /\ outcome[current] = "rolled_back" =>
         resumeAt[current] >= resumeOffset

LEMMA InitForward == ExecInit => Forward
BY DEF ExecInit, Init, Forward

\* All chunks before the place of the write loop are held: the chunk after the last one
\* held is not before the place, nor before where the call began.
LEMMA OffsetIsForward ==
    ASSUME Types, Prefix, NEW i \in Invocations, from[i] <= next[i]
    PROVE  NextResumeOffset(i, ChunksOf(drafts[i])) >= from[i]
<1>. DEFINE held == ChunksOf(drafts[i])
<1>1. from[i] \in 0 .. MaxChunks /\ next[i] \in 0 .. MaxChunks /\ MaxChunks \in Nat
  BY SourcesAssumption DEF Types, TypeOK
<1>2. CASE held = {}
  BY <1>1, <1>2 DEF NextResumeOffset
<1>3. CASE held # {}
  <2>1. held \subseteq Chunk
    BY ChunksOfType DEF Types, TypeOK
  <2>2. MaxChunks - 1 \in Nat
    BY <1>1, <1>3, <2>1 DEF Chunk
  <2>3. Max(held) \in Nat /\ \A y \in held : Max(held) >= y
    BY <1>3, <2>1, <2>2, MaxOfBounded DEF Chunk
  <2>4. NextResumeOffset(i, held) = Max(held) + 1
    BY <1>3 DEF NextResumeOffset
  <2>5. CASE from[i] = 0
    BY <2>3, <2>4, <2>5
  <2>6. CASE from[i] # 0
    <3>1. from[i] - 1 \in Chunk /\ from[i] - 1 < next[i]
      BY <1>1, <2>6 DEF Chunk
    <3>2. from[i] - 1 \in held
      BY <3>1 DEF Prefix, CursorsArePrefix, Reaches
    <3>3. Max(held) >= from[i] - 1
      BY <2>3, <3>2
    <3>. QED
      BY <1>1, <2>3, <2>4, <3>3
  <2>. QED
    BY <2>5, <2>6
<1>. QED
  BY <1>2, <1>3

\* What a step of a call does to its place, and to its answer if it rolls back.
CallMoves(i) ==
    /\ \A j \in Invocations \ {i} :
         /\ pc'[j] = pc[j] /\ from'[j] = from[j] /\ next'[j] = next[j]
         /\ outcome'[j] = outcome[j] /\ resumeAt'[j] = resumeAt[j]
    /\ from'[i] <= next'[i]
    /\ pc'[i] \in Running => from'[i] = from[i]
    /\ pc'[i] = "done" /\ outcome'[i] = "rolled_back" => resumeAt'[i] >= from[i]

LEMMA RollBackMoves ==
    ASSUME Types, Prefix, NEW i \in Invocations, from[i] <= next[i],
           NEW fs, RollBack(i, fs, ChunksOf(drafts[i]))
    PROVE  CallMoves(i)
BY OffsetIsForward DEF Types, TypeOK, RollBack, Release, CallMoves, Running

LEMMA FailClosedMoves ==
    ASSUME Types, NEW i \in Invocations, NEW out \in FailOutcomes, FailClosed(i, out)
    PROVE  CallMoves(i)
BY DEF Types, TypeOK, FailClosed, FailOutcomes, Release, CallMoves, Running

LEMMA StepMoves ==
    ASSUME ~SaveMayFail, Types, Prefix, NEW i \in Invocations, from[i] <= next[i], Step(i)
    PROVE  CallMoves(i)
<1>. USE DEF Types, TypeOK
<1>1. CASE UploadThrows(i) \/ LoopThrows(i) \/ MetadataThrows(i)
  BY <1>1, RollBackMoves DEF UploadThrows, LoopThrows, MetadataThrows
<1>2. CASE \/ ReadBackMismatch(i) \/ VerifyFail(i) \/ GateRefuses(i) \/ PublishBlocked(i)
           \/ BurnRefused(i)
  BY <1>2, FailClosedMoves
  DEF ReadBackMismatch, VerifyFail, GateRefuses, PublishBlocked, BurnRefused, FailOutcomes
<1>3. CASE NothingToCommit(i)
  BY <1>3 DEF NothingToCommit, Return, Release, CallMoves, Running
<1>4. CASE RecordCommitted(i)
  BY <1>4 DEF RecordCommitted, Release, CallMoves, Running
<1>5. CASE ReadBack(i) \/ GateDraft(i) \/ BurnNonces(i) \/ Publish(i)
  <2>1. UNCHANGED <<from, next, outcome, resumeAt>>
    BY <1>5 DEF ReadBack, GateDraft, BurnNonces, Publish, memory, reply
  <2>2. pc[i] # "done" /\ \E to \in Running : pc' = [pc EXCEPT ![i] = to] \/ UNCHANGED pc
    BY <1>5 DEF ReadBack, GateDraft, BurnNonces, Publish, AtMetadata, Running
  <2>. QED
    BY <2>1, <2>2 DEF CallMoves, Running
<1>6. CASE WriteChunk(i)
  <2>1. Min(Pending(i)) \in Pending(i)
    BY <1>6, PendingType DEF WriteChunk
  <2>2. next[i] <= Min(Pending(i)) /\ Min(Pending(i)) \in Nat
    BY <2>1, SourcesAssumption DEF Pending, Chunk
  <2>3. from[i] <= Min(Pending(i))
    BY <2>2
  <2>4. /\ next' = [next EXCEPT ![i] = Min(Pending(i))]
        /\ pc' = [pc EXCEPT ![i] = "readback"]
        /\ UNCHANGED <<from, outcome, resumeAt>>
    BY <1>6 DEF WriteChunk, reply
  <2>. QED
    BY <2>3, <2>4 DEF CallMoves, Running
<1>7. CASE VerifyPass(i)
  <2>1. /\ next' = [next EXCEPT ![i] = @ + 1]
        /\ pc' = [pc EXCEPT ![i] = "loop"]
        /\ UNCHANGED <<from, outcome, resumeAt>>
    BY <1>7 DEF VerifyPass, reply
  <2>. QED
    BY <2>1, SourcesAssumption DEF CallMoves, Running
<1>8. CASE RecordChunkThrows(i) \/ AcknowledgeThrows(i) \/ FailureNotRecorded(i)
  BY <1>8 DEF RecordChunkThrows, AcknowledgeThrows, FailureNotRecorded
<1>. QED
  BY <1>1, <1>2, <1>3, <1>4, <1>5, <1>6, <1>7, <1>8 DEF Step

\* A call that is entered begins at the offset, or answers at once.
LEMMA InvokeMoves ==
    ASSUME Types, NEW i \in Invocations, NEW s \in Sources, NEW o \in 0 .. MaxChunks,
           Invoke(i, s, o), from[i] <= next[i]
    PROVE  /\ \A j \in Invocations \ {i} : from'[j] = from[j] /\ next'[j] = next[j]
           /\ from'[i] <= next'[i]
           /\ pc'[i] \in Running => from'[i] = o
           /\ pc'[i] = "done" /\ outcome'[i] = "rolled_back" => resumeAt'[i] >= o
<1>. USE DEF Types, TypeOK
<1>1. CASE RefuseInput(i, s, o) \/ ReplayCommitted(i, s, o) \/ AllFiltered(i, s, o)
  BY <1>1 DEF RefuseInput, ReplayCommitted, AllFiltered, Return, Release, Running
<1>2. CASE FilterThrows(i, s, o)
  BY <1>2 DEF FilterThrows, memory, Running
<1>3. CASE Load(i, s, o)
  BY <1>3 DEF Load
<1>. QED
  BY <1>1, <1>2, <1>3 DEF Invoke

LEMMA NextForward ==
    ASSUME ~SaveMayFail, ~HostMayBeReplaced, ExecTypes, Prefix, Forward, [ExecNext]_execVars
    PROVE  Forward'
<1>. USE DEF Forward
<1>7. input' = input
  BY InputStays
<1>1. CASE InvokeDomainWriter
  <2>1. Fresh \in Invocations /\ input \in Sources /\ resumeOffset \in 0 .. MaxChunks
    BY <1>1, FreshIsUnused, ExecutionAssumption
    DEF InvokeDomainWriter, ExecTypes, ExecTypeOK
  <2>2. /\ Invoke(Fresh, input, resumeOffset)
        /\ state' = "Waiting" /\ current' = Fresh /\ UNCHANGED resumeOffset
    BY <1>1 DEF InvokeDomainWriter
  <2>3. from[Fresh] <= next[Fresh]
    BY <2>1
  <2>. HIDE DEF Forward
  <2>4. /\ \A j \in Invocations \ {Fresh} : from'[j] = from[j] /\ next'[j] = next[j]
        /\ from'[Fresh] <= next'[Fresh]
        /\ pc'[Fresh] \in Running => from'[Fresh] = resumeOffset
        /\ pc'[Fresh] = "done" /\ outcome'[Fresh] = "rolled_back"
             => resumeAt'[Fresh] >= resumeOffset
    BY <2>1, <2>2, <2>3, InvokeMoves DEF ExecTypes
  <2>. QED
    BY <2>2, <2>4 DEF Forward
<1>2. CASE \E i \in Invocations : Step(i) /\ UNCHANGED sfn
  <2>1. PICK i \in Invocations : Step(i) /\ UNCHANGED sfn
    BY <1>2
  <2>2. CallMoves(i)
    BY <2>1, StepMoves DEF ExecTypes
  <2>3. pc[i] \in Running
    BY <2>1 DEF Step, WriteChunk, UploadThrows, LoopThrows, ReadBack, ReadBackMismatch,
       VerifyPass, RecordChunkThrows, VerifyFail, NothingToCommit, GateDraft, GateRefuses,
       PublishBlocked, MetadataThrows, Publish, BurnNonces, BurnRefused, RecordCommitted,
       AcknowledgeThrows, FailureNotRecorded, AtMetadata, Running
  <2>4. state' = state /\ current' = current /\ resumeOffset' = resumeOffset
    BY <2>1 DEF sfn
  <2>. QED
    BY <1>7, <2>2, <2>3, <2>4 DEF CallMoves, ExecTypes
<1>3. CASE \E i \in Invocations : Crash(i) /\ UNCHANGED sfn
  <2>1. PICK i \in Invocations : Crash(i) /\ UNCHANGED sfn
    BY <1>3
  <2>2. CallMoves(i) /\ pc'[i] = "crashed"
    BY <2>1 DEF Crash, Release, CallMoves, ExecTypes, Types, TypeOK, Running
  <2>3. state' = state /\ current' = current /\ resumeOffset' = resumeOffset
    BY <2>1 DEF sfn
  <2>. QED
    BY <1>7, <2>2, <2>3 DEF CallMoves, ExecTypes, Running
<1>4. CASE \/ IntegrityGate \/ InvokeWithoutRows \/ RetryTask \/ TaskFails \/ RouteOutcome
           \/ ResumeAfterRollback
  <2>1. UNCHANGED vars /\ (state' # "Waiting" \/ input = None)
    BY <1>4 DEF IntegrityGate, InvokeWithoutRows, RetryTask, TaskFails, RouteOutcome,
                ResumeAfterRollback, Goto
  <2>. QED
    BY <1>7, <2>1 DEF vars, memory
<1>5. CASE UNCHANGED execVars
  BY <1>5 DEF execVars, vars, sfn, memory, reply
<1>6. ~ReplaceHost
  BY DEF ReplaceHost
<1>. QED
  BY <1>1, <1>2, <1>3, <1>4, <1>5, <1>6 DEF ExecNext, LambdaMoves

\* No call is before the offset it was given, in its loop or in its reply.
THEOREM ForwardAlways ==
    ASSUME ~SaveMayFail, ~HostMayBeReplaced
    PROVE  ExecSpec => []Forward
<1>1. ExecTypes /\ Prefix /\ Forward /\ [ExecNext]_execVars => Forward'
  BY NextForward
<1>. QED
  BY <1>1, InitForward, ExecTypesAlways, ExecutionUsesRuntime, PrefixAlways, PTL DEF ExecSpec

\* A resume continues at or after the chunk the call before started from, so the
\* attempts of an execution get on, wherever calls die and retries overlap.
THEOREM ResumesGoForward ==
    ASSUME ~SaveMayFail, ~HostMayBeReplaced
    PROVE  ExecSpec => ResumeNeverGoesBack
<1>1. ASSUME ExecTypes, Forward, [ExecNext]_execVars
      PROVE  [resumeOffset' >= resumeOffset]_sfn
  <2>1. resumeOffset \in Nat
    BY <1>1, SourcesAssumption DEF ExecTypes, ExecTypeOK
  <2>2. CASE ResumeAfterRollback
    BY <1>1, <2>1, <2>2 DEF ResumeAfterRollback, Replied, Forward
  <2>3. CASE ~ResumeAfterRollback
    <3>1. UNCHANGED resumeOffset
      BY <1>1, <2>3 DEF ExecNext, IntegrityGate, InvokeDomainWriter, InvokeWithoutRows,
                        RetryTask, TaskFails,
                        RouteOutcome, LambdaMoves, Goto, execVars, sfn
    <3>. QED
      BY <2>1, <3>1
  <2>. QED
    BY <2>2, <2>3
<1>. QED
  BY <1>1, ExecTypesAlways, ForwardAlways, PTL DEF ExecSpec, ResumeNeverGoesBack

-----------------------------------------------------------------------------
(* A failure that is reported has published nothing: for calls that do not  *)
(* overlap and, once they have published, neither die nor fail to save      *)

Reported == {"IntegrityFailed", "Unverified", "VerificationFailed", "ResumeLimitExceeded"}

\* Whom the execution waits for is the only call that runs; when that call has answered
\* other than committed, and when a failure is reported, nothing is published and
\* nobody is left who could.
Quiet ==
    /\ state = "Waiting" => \A i \in Invocations : pc[i] \in Running => i = current
    /\ state = "Waiting" /\ input # None /\ pc[current] = "done"
         /\ outcome[current] # "committed" => published = {}
    /\ state \in Reported \cup {"IntegrityGate"} =>
         published = {} /\ \A i \in Invocations : pc[i] \notin Running
    /\ input \in Malformed \cup {None} =>
         published = {} /\ \A i \in Invocations : pc[i] \notin Running

LEMMA InitQuiet == ExecInit => Quiet
BY DEF ExecInit, Init, Quiet, Running, Reported

\* The log becomes committed by the step that answers so.
LEMMA OnlyRecordCommits ==
    ASSUME Types, NEW i \in Invocations, Step(i), logOutcome # "committed",
           logOutcome' = "committed"
    PROVE  RecordCommitted(i)
<1>1. CASE \/ WriteChunk(i) \/ UploadThrows(i) \/ LoopThrows(i)
           \/ ReadBack(i) \/ ReadBackMismatch(i)
           \/ VerifyPass(i) \/ RecordChunkThrows(i) \/ VerifyFail(i)
           \/ NothingToCommit(i)
  BY <1>1 DEF WriteChunk, UploadThrows, LoopThrows, ReadBack, ReadBackMismatch, VerifyPass,
      RecordChunkThrows, VerifyFail, NothingToCommit, FailClosed, RollBack, Return, FailOutcomes,
      disk, durable
<1>2. CASE \/ GateDraft(i) \/ GateRefuses(i) \/ PublishBlocked(i) \/ MetadataThrows(i)
           \/ Publish(i) \/ BurnNonces(i) \/ BurnRefused(i)
           \/ AcknowledgeThrows(i) \/ FailureNotRecorded(i)
  BY <1>2 DEF GateDraft, GateRefuses, PublishBlocked, MetadataThrows, Publish, BurnNonces,
      BurnRefused, AcknowledgeThrows, FailureNotRecorded, FailClosed, RollBack, disk, durable
<1>. QED
  BY <1>1, <1>2 DEF Step

\* The call that ends leaves nobody running: what is published then is in the log.
LEMMA EndedMeansCommitted ==
    ASSUME Types', Once', NEW i \in Invocations, pc'[i] = "done",
           \A j \in Invocations : pc'[j] \in Running => j = i,
           published' # {}
    PROVE  logOutcome' = "committed"
BY DEF Once, Running

\* A call answers other than committed only if nothing is published.
LEMMA StepQuiet ==
    ASSUME ExecTypes, Serial, Once, Once', Types', Quiet,
           NEW i \in Invocations, Step(i), UNCHANGED sfn
    PROVE  Quiet'
<1>1. pc[i] \in Running
  BY DEF Step, WriteChunk, UploadThrows, LoopThrows, ReadBack, ReadBackMismatch, VerifyPass,
     RecordChunkThrows, VerifyFail, NothingToCommit, GateDraft, GateRefuses, PublishBlocked,
     MetadataThrows, Publish, BurnNonces, BurnRefused, RecordCommitted, AcknowledgeThrows,
     FailureNotRecorded, AtMetadata, Running
<1>2. logOutcome # "committed" /\ \A j \in Invocations \ {i} : pc[j] \notin Running
  BY <1>1 DEF Serial, CommittedIsQuiet, OneAtATime
<1>3. \A j \in Invocations \ {i} : pc'[j] = pc[j]
  <2>1. CASE \/ WriteChunk(i) \/ UploadThrows(i) \/ LoopThrows(i)
             \/ ReadBack(i) \/ ReadBackMismatch(i)
             \/ VerifyPass(i) \/ RecordChunkThrows(i) \/ VerifyFail(i)
             \/ NothingToCommit(i)
    BY <2>1 DEF WriteChunk, UploadThrows, LoopThrows, ReadBack, ReadBackMismatch, VerifyPass,
        RecordChunkThrows, VerifyFail, NothingToCommit, FailClosed, RollBack, Return,
        ExecTypes, Types, TypeOK
  <2>2. CASE \/ GateDraft(i) \/ GateRefuses(i) \/ PublishBlocked(i) \/ MetadataThrows(i)
             \/ Publish(i) \/ BurnNonces(i) \/ BurnRefused(i) \/ RecordCommitted(i)
             \/ AcknowledgeThrows(i) \/ FailureNotRecorded(i)
    BY <2>2 DEF GateDraft, GateRefuses, PublishBlocked, MetadataThrows, Publish, BurnNonces,
        BurnRefused, RecordCommitted, AcknowledgeThrows, FailureNotRecorded, FailClosed,
        RollBack, ExecTypes, Types, TypeOK
  <2>. QED
    BY <2>1, <2>2 DEF Step
<1>4. state' = state /\ current' = current /\ input' = input
  BY DEF sfn
<1>5. input \notin Malformed \cup {None} /\ state \notin Reported \cup {"IntegrityGate"}
  BY <1>1 DEF Quiet
<1>6. ASSUME state = "Waiting", pc'[current] = "done", outcome'[current] # "committed",
             published' # {}
      PROVE  FALSE
  <2>1. current = i
    BY <1>1, <1>6 DEF Quiet
  <2>2. logOutcome' = "committed"
    BY <1>2, <1>3, <1>6, <2>1, EndedMeansCommitted
  <2>3. RecordCommitted(i)
    BY <1>2, <2>2, OnlyRecordCommits DEF ExecTypes
  <2>. QED
    BY <1>6, <2>1, <2>3 DEF RecordCommitted, ExecTypes, Types, TypeOK
<1>7. state = "Waiting" => \A j \in Invocations : pc'[j] \in Running => j = current
  BY <1>1, <1>2, <1>3 DEF Quiet
<1>. QED
  BY <1>4, <1>5, <1>6, <1>7 DEF Quiet

\* A call is started when none runs: it answers that the workload is committed, or
\* nothing has been published.
LEMMA InvokeQuiet ==
    ASSUME ~Overlap, ExecTypes, Once, Quiet, InvokeDomainWriter
    PROVE  Quiet'
<1>. DEFINE i == Fresh
<1>1. i \in Invocations
  BY FreshIsUnused DEF InvokeDomainWriter
<1>2. /\ Invoke(i, input, resumeOffset) /\ state' = "Waiting" /\ current' = i
      /\ input' = input /\ input # None
  BY DEF InvokeDomainWriter
<1>. HIDE DEF i
<1>3. CanStart(i, resumeOffset)
  BY <1>2 DEF Invoke, RefuseInput, ReplayCommitted, AllFiltered, FilterThrows, Load
<1>4. \A j \in Invocations : pc[j] \notin Running
  BY <1>3 DEF CanStart, Active
<1>5. UNCHANGED published /\ \A j \in Invocations \ {i} : pc'[j] = pc[j]
  BY <1>1, <1>2 DEF Invoke, RefuseInput, ReplayCommitted, AllFiltered, FilterThrows, Load, Return,
                    history, ExecTypes, Types, TypeOK
<1>6. \A j \in Invocations \ {i} : pc'[j] \notin Running
  BY <1>4, <1>5
<1>7. logOutcome # "committed" => published = {}
  BY <1>4 DEF Once, Running
<1>8. CASE RefuseInput(i, input, resumeOffset)
  <2>1. published = {} /\ pc'[i] = "done"
    BY <1>1, <1>8 DEF RefuseInput, Return, Quiet, ExecTypes, Types, TypeOK
  <2>. QED
    BY <1>2, <1>5, <1>6, <2>1 DEF Quiet, Reported, Running
<1>9. CASE ReplayCommitted(i, input, resumeOffset)
  <2>1. input \notin Malformed \cup {None} /\ outcome'[i] = "committed" /\ pc'[i] = "done"
    BY <1>1, <1>2, <1>9 DEF ReplayCommitted, Return, ExecTypes, Types, TypeOK
  <2>. QED
    BY <1>2, <1>5, <1>6, <2>1 DEF Quiet, Reported, Running
<1>10. CASE \/ AllFiltered(i, input, resumeOffset) \/ FilterThrows(i, input, resumeOffset)
            \/ Load(i, input, resumeOffset)
  <2>1. published = {} /\ input \notin Malformed \cup {None}
    BY <1>2, <1>7, <1>10 DEF AllFiltered, FilterThrows, Load
  <2>. QED
    BY <1>2, <1>5, <1>6, <2>1 DEF Quiet, Reported
<1>. QED
  BY <1>2, <1>8, <1>9, <1>10 DEF Invoke

LEMMA NextQuiet ==
    ASSUME ~Overlap, ~HostMayBeReplaced,
           ExecTypes, Types', Serial, Once, Once', Quiet, [ExecNext]_execVars
    PROVE  Quiet'
<1>1. CASE \E i \in Invocations : Step(i) /\ UNCHANGED sfn
  BY <1>1, StepQuiet
<1>2. CASE \E i \in Invocations : Crash(i) /\ UNCHANGED sfn
  <2>1. PICK i \in Invocations : Crash(i) /\ UNCHANGED sfn
    BY <1>2
  <2>2. /\ pc'[i] = "crashed" /\ \A j \in Invocations \ {i} : pc'[j] = pc[j]
        /\ UNCHANGED <<published, outcome, input, state, current>>
    BY <2>1 DEF Crash, history, sfn, ExecTypes, Types, TypeOK
  <2>. QED
    BY <2>2 DEF Quiet, Running, ExecTypes
<1>3. CASE RouteOutcome \/ ResumeAfterRollback
  <2>1. PICK o \in {"committed", "unverified", "rolled_back"} \cup FailOutcomes :
          Replied(o) /\ (o = "committed" => state' = "Success")
    <3>1. CASE Replied("committed") /\ Goto("Success")
      BY <3>1 DEF Goto
    <3>2. CASE \E o \in FailOutcomes : Replied(o)
      BY <3>2 DEF FailOutcomes
    <3>3. CASE Replied("unverified")
      BY <3>3
    <3>4. CASE Replied("rolled_back")
      BY <3>4
    <3>. QED
      BY <1>3, <3>1, <3>2, <3>3, <3>4 DEF RouteOutcome, ResumeAfterRollback
  <2>2. state' \in {"Success", "InvokeDomainWriter"} \cup Reported /\ UNCHANGED <<vars, input>>
    BY <1>3 DEF RouteOutcome, ResumeAfterRollback, Goto, Reported
  <2>3. CASE input = None
    BY <2>2, <2>3 DEF Quiet, Reported, vars, history
  <2>4. CASE input # None
    <3>1. state = "Waiting" /\ pc[current] = "done" /\ outcome[current] = o
      BY <2>1, <2>4 DEF Replied
    <3>2. \A j \in Invocations : pc[j] \notin Running
      BY <3>1 DEF Quiet, Running
    <3>3. state' \in Reported => o # "committed"
      BY <2>1 DEF Reported
    <3>. QED
      BY <2>2, <2>4, <3>1, <3>2, <3>3 DEF Quiet, Reported, vars, history
  <2>. QED
    BY <2>3, <2>4
<1>4. CASE IntegrityGate
  BY <1>4 DEF IntegrityGate, Goto, Quiet, Reported, vars, history
<1>8. CASE InvokeWithoutRows
  BY <1>8 DEF InvokeWithoutRows, Goto, Quiet, Reported, vars, history
<1>5. CASE RetryTask \/ TaskFails
  BY <1>5 DEF RetryTask, TaskFails, Goto, Quiet, Reported, vars, history
<1>6. CASE UNCHANGED execVars
  BY <1>6 DEF execVars, vars, sfn, reply, history, Quiet
<1>7. ~ReplaceHost
  BY DEF ReplaceHost
<1>. QED
  BY <1>1, <1>2, <1>3, <1>4, <1>5, <1>6, <1>7, <1>8, InvokeQuiet DEF ExecNext, LambdaMoves

\* With calls that do not overlap, on a disk that stays and takes every save, and without
\* deaths after a publication, what the execution is told is all that happened.
THEOREM QuietAlways ==
    ASSUME ~Overlap, ~SaveMayFail, ~HostMayBeReplaced,
           MayCrashAt \cap {"burn", "record"} = {}
    PROVE  ExecSpec => []Quiet
<1>1. ExecTypes /\ Types' /\ Serial /\ Once /\ Once' /\ Quiet /\ [ExecNext]_execVars => Quiet'
  BY NextQuiet
<1>. QED
  BY <1>1, InitQuiet, ExecTypesAlways, ExecutionUsesRuntime, TypesAlways, SerialAlways, OnceAlways,
     PTL DEF ExecSpec

\* What a Fail state says of the catalog is true: however many calls were retried,
\* resumed or died in the write loop before, nothing they did is visible, nor will be.
THEOREM FailureMeansNothing ==
    ASSUME ~Overlap, ~SaveMayFail, ~HostMayBeReplaced,
           MayCrashAt \cap {"burn", "record"} = {}
    PROVE  ExecSpec => []FailurePublishesNothing
<1>1. Quiet => FailurePublishesNothing
  BY DEF Quiet, Reported, FailurePublishesNothing
<1>. QED
  BY <1>1, QuietAlways, PTL
=============================================================================
