# CogniMesh: TLA+ models, checks and proofs

CogniMesh builds data pipelines whose output becomes readable only after a
cryptographic proof of the transformation (a VRP proof) has passed. This
directory models the parts of it that are protocols: who may publish what, when,
and what survives a crash, a retry or a second caller. It holds

- `PvdmRuntime`, the PVDM runtime over its durable state;
- `ProofGatedPublication`, what that runtime promises, and the refinement between them;
- `PvdmExecution`, the Step Functions execution that drives the runtime;
- `EpochController`, the transaction controller of the cognitive runtime;
- `PlatformStore` and `DeployApproval`, the gateway's stores and the deployments that
  wait for a steward in them;
- `DeployPipeline`, what a deployment does after that, with `SchemaEvolution`;
- `ConsumerAccess`, the marketplace's access requests and subscription tokens, over it;
- `GraphCompiler`, the canvas compiled to a Step Functions machine;
- `PvdmRuntimeProofs`, `PvdmResumeProofs`, `PvdmExecutionProofs`,
  `EpochControllerProofs`, `DeployApprovalProofs`, `DeployPipelineProofs`,
  `ConsumerAccessProofs`, `GraphCompilerProofs`, machine-checked proofs.

Run a check with `tlc -workers 2 -config <run>.cfg <module>.tla`, a proof with
`tlapm <module>.tla`. `PROJECT.json` lists the runs, the map from definitions to
source lines, the hazards and the theorems.

## 1. Inventory

| Component | State | Operations | Interacts with | Hard behaviour | Correct when |
|---|---|---|---|---|---|
| PVDM runtime (`services/pvdm-runtime/index.js`) | per call: write position, files written, drafts, gated drafts | `runPvdmWorkload`: replay, filter, write / read back / prove chunks, gate, publish, burn nonces, record | calls the VRP library and the catalog; called by the Lambda | overlapping calls of one workload, timeouts, deaths between two saves, resumes | only proven chunks are published; a workload is published once and completely |
| VRP durable state (`lib/vrp/durable-log.js`, `steward-gate.js`, `chunk-store.js`, `transparency-log.js`, `proof-store.js`) | durable log, nonce ledger, staging files, transparency log, proof artifacts | load / record, `assertNonceUnused` / `commitNonces`, write / read / delete chunk, append, persist | shared by all calls | separate files, no transaction over them | a nonce is used once; a recorded chunk is the one on disk |
| Iceberg catalog (`lib/aws/glue-iceberg.js`) | snapshot id per table | `commitIcebergSnapshot`, `resolveSnapshotForRead` | runtime, proof gateway | the one step consumers see | ids grow; each names one publication |
| Vaquar orchestrator (`lib/vaquar/pvdm-sfn.js`, the two Lambda handlers) | execution state, `resume_attempt`, `resume_offset` | gate, invoke, retry, route, resume | domain-writer Lambda | a retry while the first attempt still runs; state on the Lambda's disk | it ends; Success and Fail say what happened |
| Cognitive runtime (`services/cognitive-runtime`) | committed epoch and frontier per partition, outputs per key | `BeginTransaction`, `Commit`, `Execute`, `compensate` | HTTP handler, one goroutine per request | lock released during execution | epochs in order, each committed once |
| Platform stores (`lib/platform/platform-store.js`, `deploy-approval.js`, `pipeline-versions.js`, `lib/execution-history.js`) | memory over a file or a DynamoDB table | read, write-through, queue, approve, reject, record, restart | API gateway, deploy pipeline | un-awaited puts, failing puts, restarts | what a restart loses is bounded; a decision takes effect once |
| Deploy pipeline (`lib/contract-builder/index.js`, `stepfunctions-deploy.js`, `pvdm-run-summary.js`, `lib/catalog-client.js`, `lib/lineage-catalog.js`) | state machine, catalogs, lineage, run history | `deployPipeline`: check, push, register, save lineage, prove, patch trust, record | runtime, catalog service, platform stores | concurrent deployments without a lock, one step of several fails, lost replies | a trust card is that of the manifest beside it; a refused deployment leaves nothing |
| Schema evolution (`lib/schema-evolution.js`) | none | diff, policy | deploy pipeline | a baseline read long before it is replaced | the baseline moves along allowed changes |
| Marketplace access (`lib/access-requests.js`, `lib/marketplace`, `lake-formation-grant.js`, `subscription-token.js`) | pending / approved / rejected, tokens | request, approve, grant, reject, issue | API gateway, Lake Formation, catalog | awaited grant, ids that collide, products deployed between two checks | an approval reaches the one who asked; a token rests on a proof |
| Graph compiler (`lib/contract-builder/graph-to-workflow.js`) | none | validate, compile, complete, finalise | deploy pipeline | cycles, branches that meet, nested flow blocks | the machine runs the blocks of the canvas in their order |
| Consumer side (`proof-gateway.js`, `gateway-token.js`, `decision-attestation.js`) | proof cache, sessions | serve, attest | catalog, proofs | expiry, snapshot moved between checks | served rows are those of a published snapshot |
| VRP algorithms (`lib/vrp/generate.js`, `multiset.js`, `merkle.js`, `canonical.js`, `verify.js`, `transform-verify.js`) | none | proof generation and verification | runtime, gateway | boundary cases of hashing and comparison | PASS iff source and sink agree |
| Integrity gate (`lib/integrity-gate`) | none | rules over a contract | orchestrator, deploy | - | failing contracts never run |
| API gateway, MCP server, catalog service | rate-limit windows, sessions, products | HTTP / JSON-RPC routes | everything | window boundary, routes without a catch | - |
| Designers, copilot, exporters, cost, health, plugins, billing, tracing, portal, infrastructure | configuration and text | - | - | - | - |

The first ten rows are modelled, with the deploy and access routes of the gateway and
the registration of the catalog service; section 11 says why the others are not.
The hazards of all of them, each at its line, are in `PROJECT.json`.

## 2. PvdmRuntime

One workload id, any number of calls (`Invocations`) of `runPvdmWorkload`.

**State.** `logOutcome`, `logChunks`, `logSnapshot` are the entry of the workload
in the durable log; `files` the staging file of every chunk (the path depends on
the workload id and the chunk only, so calls share it); `ledger` the nonce ledger;
`catalog` the snapshot id of the table; `transparency` the transparency log. Per
call: `pc`, the input `source`, `from` (its `resume_offset`), `next` (loop
position), `written` (`checkpoints`), `drafts` (`chunkDrafts`), `gated`
(drafts that passed the gate loop), and the reply `outcome`, `resumeAt`,
`snapshot`. `committedChunks` of the writer is `ChunksOf(drafts)`, except between
`commitChunk` and a failing `recordChunkVerified`, which `RecordChunkThrows` adds.
`passed`, `published` and `acked` are history: they record which proofs passed,
which snapshots became visible, and who burned the nonces.

**Steps.** A call runs from await to await, and two saves of different files are
two steps even without an await between them, as the process can die there.

| Action | Code |
|---|---|
| `RefuseInput`, `ReplayCommitted`, `AllFiltered`, `FilterThrows`, `Load` | entry of `runPvdmWorkload` (191-267) |
| `WriteChunk`, `UploadThrows`, `ReadBack`, `ReadBackMismatch` | write and read back (269-289) |
| `VerifyPass`, `RecordChunkThrows`, `VerifyFail` | proof, `commitChunk`, `recordChunkVerified` (291-336) |
| `NothingToCommit`, `GateDraft`, `GateRefuses`, `PublishBlocked`, `MetadataThrows` | gate loop (339-387) |
| `Publish`, `BurnNonces`, `BurnRefused`, `RecordCommitted`, `AcknowledgeThrows` | metadata, nonces, outcome (389-416) |
| `FailClosed`, `RollBack`, `FailureNotRecorded` | `failClosed` and the catch block (234-238, 418-454) |
| `Crash`, `ReplaceHost` | the process dies; a later call finds an empty disk |

**Abstractions.** Rows are chunks and offsets are counted in chunks; the rows of
chunk `c` of input `s` are the value `s` wherever they are. The bytes of a chunk
are a function of its rows (deterministic Parquet writing), so equal rows give
equal digests. A verdict is a choice. Signing is on, Glue is off (the snapshot
id is the counter in the state file). A load-modify-save of one file is atomic
and so is writing one chunk: all calls run in one Node process, or in one Lambda
after the other. A caller passes offset 0 or one that a rolled-back call
returned. `None` is the missing file and the missing input.

**Environment constants.** `Overlap`: calls may run at the same time (an API
process) or not (a Lambda host). `MayCrashAt`: where the process may die.
`HostMayBeReplaced`: a later call may find an empty disk, once no call runs (a
second host working on its own disk at the same time is not modelled).
`SaveMayFail`: saving a state file may throw.

Operators marked *seeded fault* are variants of the definition below them with a
plausible bug. No action uses them; they show that every property can fail.

## 3. ProofGatedPublication

The abstract specification: proofs pass; a snapshot appears from proofs that
passed, one per publisher; its nonces are burned together, if none was burned
before. Files, logs, offsets, retries and crashes are invisible. `RefinesGate`
says that `PvdmRuntime` implements it with the mapping that keeps the history
variables and the ledger; `LedgerIsDurable <- ~HostMayBeReplaced` allows the
ledger to be forgotten exactly when the disk can be lost.

## 4. PvdmExecution

Extends `PvdmRuntime` with the state machine that `compileVaquarStateMachine`
emits: `IntegrityGate`, `InvokeDomainWriter` (which takes the entry step of a
fresh call), `RetryTask`, `TaskFails`, `RouteOutcome`, `ResumeAfterRollback`;
`LambdaMoves` is a step of the runtime, of a death, or of the host. A retry or a
timeout does not stop the Lambda it gave up.

`Inputs` is what an execution may be started with: the rows of a source, or `None`,
`source_rows` that are null. Of a contract without rows the handler runs the integrity gate only
(`InvokeWithoutRows`) and answers committed, which the machine routes to Success: an
execution can succeed with nothing published. `docs/vaquar-pattern.md:218` says
`unverified` of "PVDM not run", and :216 "All chunks verified; metadata updated" of
`committed`; the code keeps neither here. `SuccessIsPublished` is therefore about
executions that were given rows. An execution whose input lacks the field altogether
fails at `$.source_rows` (`IntegrityGate` to `TaskFailed`), and the handler's own gate
decides as the one of the machine before it, on the same contract.

**Fairness.** Step Functions moves an execution on (weak fairness of its own
steps), a Lambda that runs is scheduled (weak fairness per call), and a task
whose Lambda died times out. Nothing is assumed of retries, of timeouts of a live
Lambda, of crashes or of verdicts.

## 5. EpochController

`Controller.Commit` by concurrent requests, each a goroutine of the HTTP handler.
The two critical sections are single steps (`BeginTransaction` with its two
rejections, `RecordEpoch`), the execution between them is not under the mutex.
`Execute` is `InMemoryExecutor` with the output named by the epoch of the first
execution of the key; `ExecuteFails` any error of the executor interface;
`Compensate` leaves the controller's maps alone. No liveness is stated: a request is a
straight line that nothing in the model can hold up. Epochs are bounded by `MaxEpoch`;
the overflow of `frontier + 1` at 2^64 is out of reach of a run of the service.

Two promises hold for requests served one at a time only, where they are proved.
`FrontierIsCeiling`, the frontier is never below the committed epoch: with three
concurrent requests of a partition 1 and 2 begin, 2 is executed, 1 is retried and lowers
the frontier to 1, 2 is recorded; now 1 and 2 are stale and 3 is blocked, for ever.
`EpochsGrow`: when 1 and 2 are in flight and 1 is recorded last, the committed epoch goes
back from 2 to 1.

## 6. PlatformStore and DeployApproval

**State.** `live` is what the process works on, per store (its lists and the memory
map of `platform-store.js`, which is read at the start only); `file` and `table` what
is stored; `puts` the DynamoDB puts on their way, numbered by `issued`. `mode` is
`PLATFORM_STORE`. Of the five stores those that one deployment writes are modelled:
approvals, runs and versions. `off` are the stores whose `_PERSIST` switch is "false".
`disturbed` and `lost` are history: stores a write of which was not made or failed, or a
put of which failed, was overtaken or was not awaited, and stores a restart did not
restore.

| Action | Code |
|---|---|
| `WriteStore` (in every action that stores) | the store's persist function and `writeStore`: nothing if the store is off; the text of the put is fixed at the call |
| `FilesAfter` (in `WriteStore` and `PutFails`) | `saveToFile`, which swallows errors and does nothing with `PLATFORM_STORE_PERSIST=false`: the file has the new text, is as before, or is no JSON and loaded as none |
| `PutDone`, `PutFails` | the put ends, in any order; its `catch` writes the file from the object of the call, whose pending list has changed since (`NowIn`) |
| `Bootstrap` (`Restart`), `StopProcess` (`Crash`) | `bootstrapPlatformStores`; puts of a dead process may still arrive |
| `Queue`, `Approve`, `Reject` | `queueDeployApproval`, `approveDeploy`, `rejectDeploy` |
| `DeployDirectly`, `DeployRefused`, `DeployTakesEffect`, `DeployThrows` | the two routes around `deployPipeline` |
| `RecordRun`, `RecordBlocked`, `SaveVersion`, `NotifyFailure` | `recordRun`, `savePipelineVersion`, the rest of the routes |

`DeployApproval` sees `deployPipeline` as one effect outside; its steps are in
`DeployPipeline`. Ids are unique here (`deploy-approval.js` adds random characters).
Lists stay below their bounds of 25, 50 and 200: truncation is not modelled, so what is
said of decided approvals, runs and versions is said of those still listed.

**Fairness** is an assumption about the services: the calls a route awaits answer, so a
route goes on, although the client of Step Functions (`stepfunctions-deploy.js:71`) and the
registration (`catalog-client.js:117`) set no timeout of their own; a put ends, well or
badly; a dead gateway is restarted. Nothing is
assumed of stewards, of crashes, or of the order of puts. `DeploymentsAreAnswered`
has the outcome "hung" for a `deployPipeline` that throws: the routes have no catch
and Express 4 does not see the rejection.

## 7. DeployPipeline, SchemaEvolution and ConsumerAccess

**DeployPipeline** runs `deployPipeline` for any number of concurrent calls. A
deployment stands for its contract and its manifest; product id, lineage key and name
of the machine depend on the pipeline. The lineage key is domain and name
(`lineage-catalog.js:11`), the product id has the version too: a pipeline here is one
version, and a baseline that moves from version to version is not modelled. `embedded` is the
catalog in the process (manifest and trust card), `remote` the Java service, which
gives every registration a new id; `storage` is `CATALOG_STORAGE`. A step runs to
the next await that others can notice:

| Action | Code (`lib/contract-builder/index.js`) |
|---|---|
| `Refuse`, `RefuseSchema`, `Begin` | the checks (24-109) |
| `PushMachine`, `AwsFails` | `deployStateMachine` and its catch (111-116) |
| `RegisterEmbedded`, `RegisterRemote`, `RegisterFails` | `registerProduct`, also with a lost answer (128-151) |
| `ArtifactsThrow`, `SaveLineage` | files and lineage (153-173) |
| `Finish` | proof, trust card, `recordRun`, reply (175-244) |

The awaits inside `deployStateMachine` are one step: between the update and the answer
nothing else reads the machine. The verdict of the deploy-time proof and of the
checks is a choice, except the schema check, which depends on the baseline it reads.
`overlapped` is history: deployments that ran at the same time as another of their
pipeline. Most promises hold without overlap only, and the properties say so;
`RefusedLeavesNothing` and the first part of `TrustIsOfTheManifest` need no such excuse.

**SchemaEvolution** holds `diffSchemas` and `evaluateSchemaEvolution` as operators; the
instance computes from two contracts which may follow which.

**ConsumerAccess** extends `DeployPipeline` with consumers. A request is a value, its
record moves between the three lists; its id is the millisecond it was made, which
several may share. `ApproveRequest`, `RejectRequest` take the first pending record
with the id; `Grant` is the end of the approve route, after two awaits; `StartIssue`
and `Mint`, `IssueRefused` are the two halves of `issueSubscriptionToken`, around the
await of the product. `Products` are those of the process, one per pipeline, and those of
the remote catalog, one per registration. A trust card decides whether a token is minted;
without one, as with every remote product, `enrichProduct` takes the `vrpVerdict` of the
product's tags (`lib/marketplace/index.js:32`), which are free text of the contract.
`Claims` are the contracts whose tags say PASS, and `SaysPass` both ways. So "Subscription
tokens require VRP PASS on the product" (:234), `TokensAreProven`, does not hold: a tag is
enough. `TokensAreEarned` demands the proof of every contract that makes no such claim, and
the theorem `UnclaimedTokensAreProven` says that without claims `TokensAreProven` holds.
`MaxTokens` bounds the tokens and the calls that wait for one, `MaxClock` the milliseconds;
the first request is made at millisecond 0.

## 8. GraphCompiler

A canvas gives each block its type and the blocks its edges lead to, in the order of
the edges; `Canvases` is a constant, any set of finite canvases. The compiler is one
synchronous function, so nothing interleaves; what is hard are its loops over graphs
with cycles, and the model has one action per turn of a loop:

| Action | Code in `graph-to-workflow.js` |
|---|---|
| `Refuse`, `Start` | `validateWorkflowGraph`; the main loop is set up at a start block |
| `CompileParallel`, `CompileChoice`, `CompileTask`, `MainEnds` | a turn of the main loop by type of the block, and its end |
| `StartBranch`, `ExtendBranch`, `BranchesEnd` | `compileBranchSubgraph` for each edge of a Parallel, a turn of `linearChainStates` in it |
| `StartPass`, `Materialise`, `ExtendMachine`, `EndPass` | a pass of `completeReferencedTargets`, a target in it, a turn of `linearChainStates` for it |
| `FinalizeTerminals` | `finalizeTerminals`, the machine is returned |

A block names its state (`stateNameFor`). A state is its kind, its `Next`, its `End` and
the targets of its choices (`Step`, `ParallelState`, `ChoiceState`); the branches of a
Parallel are maps of states of their own, named by the Parallel and the block they
begin at. The task a state runs and the settings of a block are left out. `starts[0]` is
any start block. That a block is reachable is said without a search: no smaller set has
the start blocks and is closed under edges (`ClosedFromStart`).

**Fairness.** A synchronous function that has a step to take takes it (weak fairness of
`Next`); `CompilerEnds` says that this brings every canvas, cycles included, to an end.

Run `flows` shows that the block before a Choice or a Parallel ends the machine. Other
departures from the canvas, which `SimpleGraphsRunWhole` therefore excludes: when two
routes of a Choice meet again, the second ends where it meets the first
(`graph-to-workflow.js:175`); a Parallel without a direct edge to its Merge compiles
Merge and sink into every branch (`findConvergenceNode`, :215, is not used); of
several start blocks only the first is compiled (:296); the states of a branch are not
finalised, so one may have neither `Next` nor `End` (:236). The machine is returned by
the deployment and shown; Step Functions gets the compiled contract.

## 9. Runs

| Run | Instance | Shows |
|---|---|---|
| `hostile` | 2 overlapping calls, 4 inputs (two that differ, one filtered to nothing, one malformed), 2 chunks, deaths anywhere, failing saves, host changes | types; only proven and logged chunks are published; nonces are burned only after a publication; a committed reply names an acknowledged snapshot; refinement |
| `overlap` | 3 overlapping calls, one input, 2 chunks, deaths anywhere | one acknowledgement per nonce, complete snapshots, resume offsets skip only recorded chunks, refinement |
| `died` (violation) | 2 calls one after the other, deaths anywhere | a death between catalog save and nonce ledger publishes twice |
| `bytes` (violation) | 2 overlapping calls, nothing dies | the other call changes gated bytes before the publication |
| `onehost` | one execution, with rows, with none after the filter, or without rows, 6 Lambda calls, 3 attempts with 1 retry each, 2 chunks, deaths before the publication | it ends; with rows, Success means complete and acknowledged; a reported failure means nothing visible; one snapshot; offsets never go back; committed stays committed; verified files stay |
| `newhost` (violation) | the same with host changes | a tail of the workload is published as the whole |
| `concurrent` | 3 requests, 2 partitions, 2 keys, epochs to 3 | frontier order, outputs per key, failed jobs |
| `twice` (violation) | 3 requests, 1 partition | one epoch committed by two requests |
| `restarts` | one deployment id, files or table, any file write may fail or leave no JSON, approvals and runs may be switched off, 3 puts on their way, 2 deaths | what is stored settles; what a restart may lose; one list per approval; one effect per approval; versions have runs and approvals; every route ends |
| `deploys` | 2 overlapping deployments of one pipeline, the second drops a column; the second has a tag that says PASS; 2 consumers, 2 requests, one for the product in the process and one for a remote one, 2 milliseconds, one token; all catalog modes | trust cards, refused deployments, baselines, decisions and grants by id, tokens |
| `workflows` | graphs of 3 shapes of 5 blocks with up to 5 edges in ascending and up to 4 in descending order | the compiler ends; targets are states, top-level states but a Choice end or go on; transitions are edges, at the top level and in branches; chains and plain choices are run whole |
| `flows` (violation) | source, choice, 2 sinks | the source has `End` and no link to the choice: the machine ends after the source, the choice and its sinks are never reached |

**Why the bounds are enough.** Two chunks make a first, a last and a resume
between them; the staging conflicts need two calls, the nonce race two publishers
and a third that resumes them. The execution needs three attempts to reach the
limit after two resumes, and six calls let every attempt be retried. Three
requests are the least that lower a frontier, raise it and retry below it. One
deployment id is enough in `restarts`, as its properties are about one id at a time
and the theorems cover all; it writes the approvals twice, so puts overtake each
other, a third put is of another store, and two deaths let a restart work on what
the one before wrote. In `deploys` an overlap needs two deployments, a shared id two
requests, and two milliseconds make ids both equal and different; one token is enough, as a call
for a token writes nothing another one reads and the property is about single tokens. In `workflows` five blocks with five edges make a diamond, a cycle behind it or
a Choice inside a Parallel; the order of the edges decides which successor and which merge
is first. Nothing leads to the first block there, and canvases whose forks lack routes,
which are refused, are kept up to two edges; the theorems assume neither.

**Where properties stop holding, on purpose.** `PublishedIsComplete` and
`ResumeSkipsOnlyVerified` are checked with saves that succeed and a disk that
stays: with `SaveMayFail` the offset after a failed `recordChunkVerified` skips a
chunk nobody recorded, with `HostMayBeReplaced` see `newhost`. `CommitsOnce`,
`CommittedStays` and `VerifiedBytesStay` need calls that do not overlap, and
`CommitsOnce` no death between publication and record; they are checked in
`onehost`, where a timed-out Lambda keeps the host busy until it ends. There,
`FailurePublishesNothing` is about failures the runtime reported: `TaskFailed`
may leave a Lambda running that still commits.

The runs use `CHECK_DEADLOCK FALSE`: calls, requests and deployments are finite, so every
instance stops when all of them are done.

## 10. Proofs

`TLC` shows the properties on the instances above; the theorems hold for every
set of calls, inputs, chunks, requests, partitions and keys. They rest on the
named assumptions of the modules only (`SourcesAssumption`,
`EnvironmentAssumption`, `ExecutionAssumption`, `ControllerAssumption`,
`StoreAssumption`, `NoneAssumption`, `RestartsAssumption`, `DeployAssumption`,
`AccessAssumption`, `CanvasAssumption`). A theorem with an environment constant in its hypothesis says
so below; a run refutes its conclusion without the hypothesis where one is named.

**PvdmRuntimeProofs.** `MinOfNaturals` and `MaxOfBounded` show what `Min` and
`Max` return (the first from the well-foundedness of strict inclusion on finite
sets), so loop positions and offsets stay in range. `Types` adds to `TypeOK` that
a running call has an input and, while it verifies, a chunk as position; without
that a draft could have no source. `Safe` is the inductive invariant:
`KeptArePassed` (log and memory hold proven drafts only), `GatedAreLogged`,
`BurningIsPublished` (a call past the publication published exactly its drafts),
`RecordingIsAcked`, `LogNamesASnapshot`, `RepliesAreLast`. The three safety
properties are not inductive without them: that a published chunk was proved
depends on what the durable log held when an earlier call died. One lemma covers
every way a call ends other than committed (`EndsSafe`), so the many error paths
need one proof. Theorems: `TypeCorrect`, `CommitImpliesPass`,
`BurnFollowsPublish`, `CommittedIsPublished`, in every environment, overlap and
host changes included.

Its second part is the refinement. `Single` (a call publishes once, and acknowledges only
after) and `Safe` give the step simulation `NextIsGateNext`, hence `RuntimeRefinesGate`.
`NoncesAreBurnedOnce` is then proved of the abstract steps: a publisher has one
snapshot and acknowledged nonces are in the ledger (`Spent`). It assumes that
the host, so the ledger, is not replaced.

**PvdmResumeProofs.** The invariant `Prefix` says that the chunks in the durable
log (`LogIsPrefix`) and those a call holds (`DraftsArePrefix`) have no gap, that
the write loop has passed no chunk the call does not hold, and that a call began
at an offset the log reached (`CursorsArePrefix`). `PublishedIsComplete` and
`ResumeSkipsOnlyVerified` are conjuncts of it because they need each other: a
call that starts at a returned offset publishes a complete snapshot only if that
offset skipped nothing, and the offset it returns is right only if what it
loaded had no gap. Theorems `SnapshotsAreComplete` and `OffsetsSkipNothing`
assume `~SaveMayFail` (else `commitChunk` counts a chunk the log does not hold)
and `~HostMayBeReplaced` (else the offset outlives the log, run `newhost`); calls
may overlap and die anywhere.

The second part is about calls that do not overlap (`~Overlap`). `Serial`: one call
runs; what it holds is what the log records (`HoldsTheLog`), so rollback and the
end of a call touch no file of a recorded chunk; the chunk between its write and its
record is in no record, and once read back its file is the input (`ChunkInHand`);
after a committed outcome nobody runs (`CommittedIsQuiet`). This holds wherever calls
die, whatever saves fail, and with host changes. Theorems `RecordedBytesStay` (`VerifiedBytesStay`),
`SerialPublishesProvedBytes` (`PublishedBytesAreVerified`, which run `bytes` refutes
with overlap) and, if the host stays, `CommittedForGood` (`CommittedStays`).

The third part adds `~SaveMayFail`, `~HostMayBeReplaced` and no death while nonces are
burned or the outcome is recorded. `Once`: in the write loop nothing is published, who
burns nonces finds the ledger empty, and a publication is the only one and is either
on its way to the record or committed. Hence `WorkloadCommitsOnce` (`CommitsOnce`). Run
`died` shows two snapshots after one such death.

**PvdmExecutionProofs.** For any input, number of calls, retries and resumes.
`ExecTypes` adds to `ExecTypeOK` that an execution that waits, or has Success, has a call
and one that goes on has attempts left. `ExecStepIsStep` maps every step of an
execution to one of the runtime or to a stutter: `ExecutionUsesRuntime`
(`ExecSpec => Spec`) carries all theorems above over. What they do not say is what the
execution knows:
- `Answered` (an execution handles one input, Success with rows came from a committed reply)
  with `Safe` and `Prefix` gives `SuccessMeansPublished`, and `Forward` (no call
  is before the offset it was given, in its loop or in its reply) `ResumesGoForward`.
  Both assume `~SaveMayFail` and `~HostMayBeReplaced`, as `Prefix` does; a retry may
  overlap the call it gave up, and calls may die anywhere.
- `Quiet` (whom the execution waits for is the only call that runs; after a reply other
  than committed nothing is published and nobody is left who could) gives
  `FailureMeansNothing`, under the assumptions of `WorkloadCommitsOnce`. It rests on
  `Once`: a call that answers "rolled back" was not preceded by one that published.

**EpochControllerProofs.** `NoEpochBeginsEarly` needs that the frontier is an
epoch that began; `OneOutputPerKey` that outputs are the remembered ones.
Under `~Concurrent` the invariant `Serial` (committed epochs are at or below the
recorded one, the one in flight above) gives `SerialCommitsOnce`,
`SerialEpochsGrow` and `SerialFrontierKeepsUp`: the exactly-once promise holds for a serial caller, and run
`twice` shows it does not for concurrent ones.

**DeployApprovalProofs.** For any number of deployments, puts and deaths. `StoreInv` says
of every store that numbers of puts are distinct and below the next one and that,
while it is not disturbed, the newest put on its way carries what the process works
on, or, with none on its way, a restart would load that (`Settled`); hence
`StoresSettle` and `RestartsKeepStores`. `ListInv` adds to `OneDecision` that the pending
list of the process shares nothing with the decided lists of its own puts, the two
moments the file of a failed put mixes, and that an id nobody asked for is nowhere.
`DeployInv` ties `pc` and `deployed` to the lists, unless the approvals were lost, and
`VersionInv` the versions to runs and approvals. Theorems `TypeCorrect`,
`StoresSettle`, `RestartsKeepStores`, `DecidedOnce`, `DeployedOnce`, `VersionsAccounted`.

**DeployPipelineProofs.** For any deployments and pipelines. The properties are not
inductive: between registration and patch the record in the catalog belongs to a
deployment that is still running. `RecordStays` says that a running deployment finds
its own manifest there or that of one that overlapped, `BaselineStays` that the lineage
a deployment without overlap was checked against is still there, `OverlapsAreNoted` that
two running deployments of a pipeline are both in `overlapped`, `NamesAreLeft` that a
name found in one of the places belongs to a deployment that came that far. Theorems
`DeployTypes`, `DeployTrust`, `DeployRefused`, `DeploySchemas` are about `DeploySpec`.

**ConsumerAccessProofs.** For any users, requests, products and deployments.
`DeploymentsUndisturbed` (`Spec => DeploySpec`) carries the theorems about deployments
over. The lemmas about lists come first: what appending, `RemoveAt`, concatenation,
`findIndex` and the sort of `getAccessForProduct` return (that a nonempty list has a
newest record needs the least element of a set of naturals again). `ListsAreDisjoint`
says that no record is twice in a list or in two of them and that all of them together
are those asked for, so `AccessTypeCorrect`. `DecisionsKeepTheId` says that a decision and
a grant were made for a request of the same millisecond as the record, and a grant for
an approved one: with `DecisionsReach` as the case that no other request has that
millisecond. `GrantsAreRecorded` is inductive with these (`GrantsRecorded`).
`TokensEarned` needs `WaitingIsApproved` (the approval a token call saw is there
when the call goes on), `PinsAreOfTheProduct` (a token pins a manifest of its product),
`PassIsProvenOrClaimed` (what says PASS is claimed by the tags or, by
`TrustIsOfTheManifest` at the time of minting, proven), and that verdicts are final
and overlaps stay noted afterwards (`DeploymentsGoForward`). No environment is assumed;
`UnclaimedTokensAreProven` adds `Claims = {}`.

**GraphCompilerProofs.** For any set of canvases, of any size, with any cycles. The
lemmas about operators come first: what `Put`, `Link`, `Chain` and `Finalize` make of a map of
states. No property is inductive, because the machine is well formed only when it is
done. `Inv` says what holds at every turn: once compiling has begun the canvas is valid and
the start block has a state or is the next one (`Begun`); a state leads along edges, its
`Next` is a state and then it does not end, and the state that the next block will be
linked to is a step connected to it (`StatesLinked`); a branch has its first block as soon
as it has states (`Branched`); a Parallel has its branches but for those to be compiled
(`Forked`); and the targets missing during a pass of `completeReferencedTargets` are those
still to be done or the one its chain is about to add (`Completed`). So one pass is enough:
a chain stops only at a state that exists or where nothing is linked, and the guard of
`nodes.length + 5` passes is never reached. Theorems `MachineIsAlwaysWellFormed`,
`MachineAlwaysFollowsTheGraph`.

`SimpleGraphsAlwaysRunWhole` needs `Whole`, about canvases that are a chain or a Choice
with chains: states but the first have a predecessor, and lead to everything their block is
connected to but the start block and the one block that is next (`Joined`). Where a chain
stops at a block with a state, that block has one predecessor in the canvas, so the link
that made it a target is the one the chain would set (`JoinedToAll`). The theorem then does
without induction over paths: the blocks with states in any set closed under the machine's
transitions are closed under edges from the start, and a valid canvas has only one such
set.

**Only model-checked:** liveness (`Terminates`, `DeploymentsAreAnswered`,
`CompilerEnds`), which under fairness is outside what the prover
handles. Every invariant and every safety action property of the passing runs is a theorem.

## 11. Not modelled, and the plan

Not modelled: the VRP algorithms and the integrity rules are pure functions of bytes
and of one contract, best served by tests and conformance vectors; the MCP server
routes to what is modelled; the audit log is read by a report only. The portal, the
designers, exporters, cost and health reports and the infrastructure code, most of
the repository's lines, compute text from configuration, and no step of theirs depends
on another. A corrupt or concurrently saved state file of the VRP library, the
proof artifact that is overwritten within a run and the rows the proof gateway reads
after its check of the file are hazards without a property.

Next, in this order:

1. the proof gateway: token expiry and sessions over published snapshots; theorem:
   what is served was published.
2. two processes on one disk: load and save of a state file as two steps.
