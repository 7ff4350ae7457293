---------------------------- MODULE DeployPipeline ----------------------------
(***************************************************************************)
(* deployPipeline (lib/contract-builder/index.js) by concurrent requests:  *)
(* schema check, integrity gate, Step Functions, catalog registration,     *)
(* lineage, deploy-time proof, trust card and run history, one after the   *)
(* other with awaits between them and no lock over them.                   *)
(*                                                                         *)
(* A deployment stands for its contract and manifest.  The key of the      *)
(* lineage, the product id and the name of the state machine depend on its *)
(* pipeline only: the deployments of a pipeline have one version.  What    *)
(* the checks decide is a choice, except the schema check, which depends   *)
(* on the baseline it reads.  Steps that only read the contract belong to  *)
(* the step before the next await that others can notice.                  *)
(***************************************************************************)
EXTENDS Naturals

CONSTANTS
    Deploys,        \* calls of deployPipeline, each with its contract
    Pipelines,      \* domain, name and version of a contract
    PipelineOf,     \* the pipeline of every deployment
    Breaks,         \* pairs of contracts whose schema change is not allowed
    None

ASSUME DeployAssumption ==
    /\ PipelineOf \in [Deploys -> Pipelines]
    /\ Breaks \subseteq Deploys \X Deploys
    /\ None \notin Deploys \cup {"PASS", "FAIL", "UNVERIFIED", "embedded", "remote"}

VARIABLES
    storage,    \* CATALOG_STORAGE: memory, or the remote catalog with or without fallback
    embedded,   \* in-process catalog: manifest and trust of every product
    remote,     \* remote catalog: one product for every registration
    lineage,    \* lineageByKey: the contract last saved
    machine,    \* definition of the state machine
    runs,       \* outcome recorded for a deployment
    pc,         \* where a deployment is
    verdict,    \* vrpVerdict of the run summary
    \* locals of a deployment, reset when they are not read any more
    aws,        \* aws.deployed
    product,    \* where catalogProduct came from
    \* history
    overlapped  \* deployments during which another of the pipeline ran

deployVars == <<storage, embedded, remote, lineage, machine, runs, pc, verdict, aws,
                product, overlapped>>

Verdicts == {"PASS", "FAIL", "UNVERIFIED"}
Ended == {"new", "refused", "thrown", "success", "error"}

Record == [manifest : Deploys \cup {None}, trust : Verdicts \cup {None}]

DeployTypeOK ==
    /\ storage \in {"memory", "fallback", "remote"}
    /\ embedded \in [Pipelines -> Record]
    /\ remote \subseteq Deploys
    /\ lineage \in [Pipelines -> Deploys \cup {None}]
    /\ machine \in [Pipelines -> Deploys \cup {None}]
    /\ runs \in [Deploys -> {None, "schema_evolution_blocked", "success",
                             "verification_failed", "deployed", "unverified"}]
    /\ pc \in [Deploys -> Ended \cup {"push", "register", "lineage", "prove"}]
    /\ verdict \in [Deploys -> Verdicts \cup {None}]
    /\ aws \in [Deploys -> BOOLEAN]
    /\ product \in [Deploys -> {None, "embedded", "remote"}]
    /\ overlapped \subseteq Deploys

DeployInit ==
    /\ storage \in {"memory", "fallback", "remote"}
    /\ embedded = [p \in Pipelines |-> [manifest |-> None, trust |-> None]]
    /\ remote = {}
    /\ lineage = [p \in Pipelines |-> None]
    /\ machine = [p \in Pipelines |-> None]
    /\ runs = [d \in Deploys |-> None]
    /\ pc = [d \in Deploys |-> "new"]
    /\ verdict = [d \in Deploys |-> None]
    /\ aws = [d \in Deploys |-> FALSE]
    /\ product = [d \in Deploys |-> None]
    /\ overlapped = {}

Goto(d, label) == pc' = [pc EXCEPT ![d] = label]

Others(d) ==
    {e \in Deploys \ {d} : PipelineOf[e] = PipelineOf[d] /\ pc[e] \notin Ended}

Blocked(d) == <<lineage[PipelineOf[d]], d>> \in Breaks

\* Graph, contract version or contract are not valid, or the integrity gate fails.
Refuse(d) ==
    /\ pc[d] = "new"
    /\ Goto(d, "refused")
    /\ UNCHANGED <<storage, embedded, remote, lineage, machine, runs, verdict, aws,
                   product, overlapped>>

\* The schema change against the saved lineage is not allowed: recorded, returned.
RefuseSchema(d) ==
    /\ pc[d] = "new" /\ Blocked(d)
    /\ runs' = [runs EXCEPT ![d] = "schema_evolution_blocked"]
    /\ Goto(d, "refused")
    /\ UNCHANGED <<storage, embedded, remote, lineage, machine, verdict, aws,
                   product, overlapped>>

\* Seeded fault: the baseline is not looked up.
BeginUnchecked(d) ==
    /\ pc[d] = "new"
    /\ overlapped' = IF Others(d) = {} THEN overlapped ELSE overlapped \cup {d} \cup Others(d)
    /\ Goto(d, "push")
    /\ UNCHANGED <<storage, embedded, remote, lineage, machine, runs, verdict, aws, product>>

\* All checks pass; the account is looked up, the contract compiled.
Begin(d) ==
    /\ pc[d] = "new" /\ ~Blocked(d)
    /\ overlapped' = IF Others(d) = {} THEN overlapped ELSE overlapped \cup {d} \cup Others(d)
    /\ Goto(d, "push")
    /\ UNCHANGED <<storage, embedded, remote, lineage, machine, runs, verdict, aws, product>>

\* deployStateMachine updates or creates the machine; the rest of it, an execution that
\* is started if asked for, succeeds or fails, then deployed is false.
PushMachine(d) ==
    /\ pc[d] = "push"
    /\ machine' = [machine EXCEPT ![PipelineOf[d]] = d]
    /\ \E deployed \in BOOLEAN : aws' = [aws EXCEPT ![d] = deployed]
    /\ Goto(d, "register")
    /\ UNCHANGED <<storage, embedded, remote, lineage, runs, verdict, product, overlapped>>

\* Seeded fault: a failed push ends the deployment, the machine may be updated.
AwsFailsDeploy(d) ==
    /\ pc[d] = "push"
    /\ \/ UNCHANGED machine
       \/ machine' = [machine EXCEPT ![PipelineOf[d]] = d]
    /\ Goto(d, "refused")
    /\ UNCHANGED <<storage, embedded, remote, lineage, runs, verdict, aws, product, overlapped>>

\* It is not enabled, or an error is caught: of the list, of the update, of a create
\* another deployment of the name was faster with.
AwsFails(d) ==
    /\ pc[d] = "push"
    /\ Goto(d, "register")
    /\ UNCHANGED <<storage, embedded, remote, lineage, machine, runs, verdict, aws,
                   product, overlapped>>

\* Seeded fault: a record that exists keeps its trust card.
RegisterKeepsTrust(d) ==
    /\ pc[d] = "register" /\ storage # "remote"
    /\ embedded' = [embedded EXCEPT ![PipelineOf[d]].manifest = d]
    /\ product' = [product EXCEPT ![d] = "embedded"]
    /\ Goto(d, "lineage")
    /\ UNCHANGED <<storage, remote, lineage, machine, runs, verdict, aws, overlapped>>

\* registerEmbedded: a new record, approved, without trust.  In front of a remote
\* catalog it is the fallback; an answer that was lost leaves a product there too.
RegisterEmbedded(d) ==
    /\ pc[d] = "register" /\ storage # "remote"
    /\ embedded' = [embedded EXCEPT ![PipelineOf[d]] = [manifest |-> d, trust |-> None]]
    /\ \/ UNCHANGED remote
       \/ storage = "fallback" /\ remote' = remote \cup {d}
    /\ product' = [product EXCEPT ![d] = "embedded"]
    /\ Goto(d, "lineage")
    /\ UNCHANGED <<storage, lineage, machine, runs, verdict, aws, overlapped>>

\* ProductRegistry.register: a new product, approved, under a random id.
RegisterRemote(d) ==
    /\ pc[d] = "register" /\ storage # "memory"
    /\ remote' = remote \cup {d}
    /\ product' = [product EXCEPT ![d] = "remote"]
    /\ Goto(d, "lineage")
    /\ UNCHANGED <<storage, embedded, lineage, machine, runs, verdict, aws, overlapped>>

\* There is no fallback: the deployment goes on without a product.
RegisterFails(d) ==
    /\ pc[d] = "register" /\ storage = "remote"
    /\ remote' \in {remote, remote \cup {d}}
    /\ Goto(d, "lineage")
    /\ UNCHANGED <<storage, embedded, lineage, machine, runs, verdict, aws, product,
                   overlapped>>

\* The files of generateVaquarArtifacts cannot be written: deployPipeline throws.
ArtifactsThrow(d) ==
    /\ pc[d] = "lineage"
    /\ aws' = [aws EXCEPT ![d] = FALSE]
    /\ product' = [product EXCEPT ![d] = None]
    /\ Goto(d, "thrown")
    /\ UNCHANGED <<storage, embedded, remote, lineage, machine, runs, verdict, overlapped>>

\* saveLineage: its key is domain and name; as a pipeline has one version here, a change
\* from one version to the next, which replaces the baseline too, is not modelled.
SaveLineage(d) ==
    /\ pc[d] = "lineage"
    /\ lineage' = [lineage EXCEPT ![PipelineOf[d]] = d]
    /\ Goto(d, "prove")
    /\ UNCHANGED <<storage, embedded, remote, machine, runs, verdict, aws, product, overlapped>>

\* buildPvdmRunSummary: a deployed machine proves its output later, else the
\* runtime processes sample rows; no verdict and other errors are UNVERIFIED.
ProofOf(d) == IF aws[d] THEN {"UNVERIFIED"} ELSE Verdicts

\* patchProductTrust: the record that has the id in this process, whoever made it.
\* No record has the id the remote catalog gave, and without a product there is none.
Patched(d, v) ==
    IF product[d] = "embedded" THEN [embedded EXCEPT ![PipelineOf[d]].trust = v]
    ELSE embedded

RunOutcome(d, v) ==
    CASE v = "PASS" -> "success"
      [] v = "FAIL" -> "verification_failed"
      [] OTHER -> IF aws[d] THEN "deployed" ELSE "unverified"

\* The deploy-time proof, the trust card, recordRun and the reply.
Finish(d) ==
    /\ pc[d] = "prove"
    /\ \E v \in ProofOf(d) :
        /\ verdict' = [verdict EXCEPT ![d] = v]
        /\ embedded' = Patched(d, v)
        /\ runs' = [runs EXCEPT ![d] = RunOutcome(d, v)]
        /\ Goto(d, IF v = "FAIL" THEN "error" ELSE "success")
    /\ aws' = [aws EXCEPT ![d] = FALSE]
    /\ product' = [product EXCEPT ![d] = None]
    /\ UNCHANGED <<storage, remote, lineage, machine, overlapped>>

Deploy(d) ==
    \/ Refuse(d) \/ RefuseSchema(d) \/ Begin(d)
    \/ PushMachine(d) \/ AwsFails(d)
    \/ RegisterEmbedded(d) \/ RegisterRemote(d) \/ RegisterFails(d)
    \/ ArtifactsThrow(d) \/ SaveLineage(d) \/ Finish(d)

DeployNext == \E d \in Deploys : Deploy(d)

DeploySpec == DeployInit /\ [][DeployNext]_deployVars

-----------------------------------------------------------------------------
(* Properties *)

\* The trust card of a product is that of the manifest beside it as long as the
\* deployment of the manifest overlapped no other of the pipeline (registerProduct and
\* patchProductTrust are awaits apart); in any case PASS means that a deployment of
\* the pipeline was proven.
TrustIsOfTheManifest ==
    \A p \in Pipelines :
        LET m == embedded[p].manifest  t == embedded[p].trust IN
        /\ t = "PASS" => \E d \in Deploys : PipelineOf[d] = p /\ verdict[d] = "PASS"
        /\ m # None /\ m \notin overlapped /\ t # None => t = verdict[m]

\* The schema baseline of a pipeline moves only along allowed changes, unless the
\* deployment overlapped another: it is checked at the start and saved after
\* several awaits (evaluateSchemaEvolution, saveLineage).
SchemaEvolvesAsAllowed ==
    [][\A p \in Pipelines :
        lineage'[p] # lineage[p] /\ lineage'[p] \notin overlapped =>
            <<lineage[p], lineage'[p]>> \notin Breaks]_lineage

\* A deployment that was refused left nothing behind in any of the places a deployment
\* writes, however it interleaved with others: every check comes before the first
\* write, and what fails after one does not refuse (deployPipeline's early returns).
RefusedLeavesNothing ==
    \A d \in Deploys : pc[d] = "refused" =>
        /\ machine[PipelineOf[d]] # d /\ lineage[PipelineOf[d]] # d
        /\ embedded[PipelineOf[d]].manifest # d /\ d \notin remote
        /\ runs[d] \in {None, "schema_evolution_blocked"}
=============================================================================
