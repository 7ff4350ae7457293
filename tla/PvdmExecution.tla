--------------------------- MODULE PvdmExecution ---------------------------
(***************************************************************************)
(* One execution of the Vaquar state machine that compileVaquarStateMachine*)
(* (lib/vaquar/pvdm-sfn.js) emits, driving the domain-writer Lambda        *)
(* (services/lambda/domain-writer/handler.js).  The handler calls          *)
(* runPvdmWorkload, modelled in PvdmRuntime, unless its payload has no     *)
(* source_rows: then it runs the integrity gate on the contract only, and  *)
(* answers "committed".  Choice, Pass and Wait states are taken together   *)
(* with the state that leads to them.                                      *)
(***************************************************************************)
EXTENDS PvdmRuntime

CONSTANTS
    Inputs,             \* the source_rows an execution may be started with, None: null
    MaxResumeAttempts,  \* maxResumeAttempts
    MaxRetries          \* Retry.MaxAttempts of InvokeDomainWriter

ASSUME ExecutionAssumption ==
    /\ Inputs \subseteq Sources \cup {None}
    /\ MaxResumeAttempts \in Nat \ {0}
    /\ MaxRetries \in Nat
    /\ Cardinality(Invocations) >= MaxResumeAttempts * (MaxRetries + 1)

VARIABLES
    input,          \* $.source_rows, an input of the runtime or None
    state,          \* the state the execution is in
    current,        \* the Lambda invocation it waits for
    resumeAttempt,  \* $.resume_attempt
    resumeOffset,   \* $.workload.resume_offset
    retries         \* attempts of the current Task that a Retry has used

sfn == <<input, state, current, resumeAttempt, resumeOffset, retries>>
execVars == <<vars, sfn>>

Failed == {"IntegrityFailed", "Unverified", "VerificationFailed",
           "ResumeLimitExceeded", "TaskFailed"}
Terminal == Failed \cup {"Success"}

ExecTypeOK ==
    /\ TypeOK
    /\ input \in Inputs
    /\ state \in Terminal \cup {"IntegrityGate", "InvokeDomainWriter", "Waiting"}
    /\ current \in Invocations \cup {None}
    /\ resumeAttempt \in 0 .. MaxResumeAttempts
    /\ resumeOffset \in 0 .. MaxChunks
    /\ retries \in 0 .. MaxRetries

ExecInit ==
    /\ Init
    /\ input \in Inputs
    /\ state = "IntegrityGate" /\ current = None
    /\ resumeAttempt = 0 /\ resumeOffset = 0 /\ retries = 0

Goto(next_state) ==
    /\ state' = next_state
    /\ UNCHANGED <<vars, input, current, resumeAttempt, resumeOffset, retries>>

\* IntegrityGate, GateChoice, InitializeRetryCounter.  A gate Lambda that fails, and
\* an execution input without the field source_rows, end the execution: no Catch.
IntegrityGate ==
    /\ state = "IntegrityGate"
    /\ \E s \in {"InvokeDomainWriter", "IntegrityFailed", "TaskFailed"} : Goto(s)

\* Unused calls differ in nothing but their name: take a fixed one.
Unused == {i \in Invocations : pc[i] = "idle"}
Fresh == CHOOSE i \in Unused : TRUE

\* InvokeDomainWriter: the Task starts the Lambda with $.workload, whose contract
\* has passed the gate that the handler runs once more.
InvokeDomainWriter ==
    /\ state = "InvokeDomainWriter" /\ input # None /\ Unused # {}
    /\ Invoke(Fresh, input, resumeOffset)
    /\ state' = "Waiting" /\ current' = Fresh
    /\ UNCHANGED <<input, resumeAttempt, resumeOffset, retries>>

\* The same Task with source_rows null: the handler stops after its gate, there is
\* no call of the runtime to wait for.
InvokeWithoutRows ==
    /\ state = "InvokeDomainWriter" /\ input = None
    /\ Goto("Waiting")

\* A Lambda service error: the Task is tried again with the same payload.  The
\* invocation it gave up may have died, or finished, or it still runs.
RetryTask ==
    /\ state = "Waiting" /\ retries < MaxRetries
    /\ state' = "InvokeDomainWriter" /\ current' = None /\ retries' = retries + 1
    /\ UNCHANGED <<vars, input, resumeAttempt, resumeOffset>>

\* TimeoutSeconds has passed, the function died, or the retries are used up: no
\* Catch, the execution fails.  A timeout leaves the Lambda running.
TaskFails ==
    /\ state = "Waiting"
    /\ Goto("TaskFailed")

\* The outcome in the reply of the Lambda: that of the runtime, or "committed".
Replied(o) ==
    /\ state = "Waiting"
    /\ IF input = None THEN o = "committed"
       ELSE pc[current] = "done" /\ outcome[current] = o

\* RouteOutcome to Success or to one of the Fail states.
RouteOutcome ==
    \/ Replied("committed") /\ Goto("Success")
    \/ (\E o \in FailOutcomes : Replied(o)) /\ Goto("VerificationFailed")
    \/ Replied("unverified") /\ Goto("Unverified")

\* Seeded fault: the limit is compared before the counter is incremented.
ResumeOnceTooOften ==
    /\ Replied("rolled_back")
    /\ resumeOffset' = resumeAt[current]
    /\ resumeAttempt' = resumeAttempt + 1
    /\ state' = IF resumeAttempt >= MaxResumeAttempts
                THEN "ResumeLimitExceeded" ELSE "InvokeDomainWriter"
    /\ current' = None /\ retries' = 0
    /\ UNCHANGED <<vars, input>>

\* Seeded fault: the counter is not incremented.
ResumeUncounted ==
    /\ Replied("rolled_back")
    /\ resumeOffset' = resumeAt[current]
    /\ state' = "InvokeDomainWriter" /\ current' = None /\ retries' = 0
    /\ UNCHANGED <<vars, input, resumeAttempt>>

\* IncrementResumeAttempt, CheckResumeLimit, WaitBeforeResume.
ResumeAfterRollback ==
    /\ Replied("rolled_back")
    /\ resumeOffset' = resumeAt[current]
    /\ resumeAttempt' = resumeAttempt + 1
    /\ state' = IF resumeAttempt' >= MaxResumeAttempts
                THEN "ResumeLimitExceeded" ELSE "InvokeDomainWriter"
    /\ current' = None /\ retries' = 0
    /\ UNCHANGED <<vars, input>>

\* The Lambda runs, dies, or its next invocation is given another host.
LambdaMoves ==
    /\ (\E i \in Invocations : Step(i) \/ Crash(i)) \/ ReplaceHost
    /\ UNCHANGED sfn

ExecNext ==
    \/ IntegrityGate \/ InvokeDomainWriter \/ InvokeWithoutRows \/ RetryTask \/ TaskFails
    \/ RouteOutcome \/ ResumeAfterRollback
    \/ LambdaMoves

\* The service moves an execution on, and a Lambda that runs is scheduled.  No
\* fairness on RetryTask and TaskFails alone, nor on the environment: a reply is
\* routed, and a task whose Lambda died times out.
Fairness ==
    /\ WF_execVars(IntegrityGate)
    /\ WF_execVars(InvokeDomainWriter \/ InvokeWithoutRows)
    /\ WF_execVars(RouteOutcome \/ ResumeAfterRollback)
    /\ WF_execVars(state = "Waiting" /\ current # None /\ pc[current] = "crashed" /\ TaskFails)
    /\ \A i \in Invocations : WF_execVars(Step(i) /\ UNCHANGED sfn)

ExecSpec == ExecInit /\ [][ExecNext]_execVars /\ Fairness

-----------------------------------------------------------------------------
(* Properties *)

\* An execution that was given rows reaches Success only when a snapshot with every
\* chunk of them was published, its nonces are burned, and the reply of the last call
\* names it.  Success without rows says only that the contract passed the gate, although
\* docs/vaquar-pattern.md:216 says "All chunks verified; metadata updated" of committed.
SuccessIsPublished ==
    state = "Success" /\ input # None =>
        \E p \in published :
            /\ p.by \in acked /\ p.snapshot = snapshot[current]
            /\ \A c \in Chunk : c < ChunkCount[input] => c \in ChunksOf(p.drafts)

\* The Causes of the Fail states: "No snapshot was published", "blocked metadata
\* commit", "exceeded max attempts".  However many calls were retried or resumed
\* before, nothing they did is visible to consumers.
FailurePublishesNothing ==
    state \in {"IntegrityFailed", "Unverified", "VerificationFailed", "ResumeLimitExceeded"}
        => published = {}

\* A resume continues at or after the chunk the previous one started from.
ResumeNeverGoesBack == [][resumeOffset' >= resumeOffset]_sfn

\* Timeouts, crashes, retries and resumes notwithstanding, the execution ends.
Terminates == <>(state \in Terminal)
=============================================================================
