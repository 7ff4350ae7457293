---------------------------- MODULE DeployApproval ----------------------------
(***************************************************************************)
(* Deployments that wait for a steward (lib/platform/deploy-approval.js),  *)
(* the gateway's deploy and approve routes (services/api-gateway/server.js)*)
(* and what they leave in the execution history and in the version list.   *)
(* deployPipeline is a step that takes effect outside, or an error before  *)
(* it; its own steps are in DeployPipeline.                                *)
(***************************************************************************)
EXTENDS PlatformStore

CONSTANT MaxRestarts    \* bound on the deaths of the gateway

ASSUME RestartsAssumption == MaxRestarts \in Nat

VARIABLES
    up,         \* the gateway runs
    pc,         \* where the request of a deployment is
    restarts,
    \* history
    direct,     \* deployments that needed no approval
    deployed    \* how often a deployment took effect

vars == <<storeVars, up, pc, restarts, direct, deployed>>

InFlight == {"deploying", "deployed", "ok", "failed"}

TypeOK ==
    /\ StoreTypeOK
    /\ up \in BOOLEAN
    /\ pc \in [Ids -> {"new", "queued", "lost", "hung", "done"} \cup InFlight]
    /\ restarts \in 0 .. MaxRestarts
    /\ direct \subseteq Ids
    /\ deployed \in [Ids -> Nat]

Init ==
    /\ StoreInit
    /\ up = TRUE
    /\ pc = [i \in Ids |-> "new"]
    /\ restarts = 0
    /\ direct = {}
    /\ deployed = [i \in Ids |-> 0]

Goto(i, label) == pc' = [pc EXCEPT ![i] = label]

\* POST /pipelines/deploy with approvals required: queueDeployApproval.
Queue(i) ==
    /\ up /\ pc[i] = "new"
    /\ WriteStore(Approvals, [live[Approvals] EXCEPT !.pending = @ \cup {i}])
    /\ Goto(i, "queued")
    /\ UNCHANGED <<up, restarts, direct, deployed>>

\* The same without: deployPipeline begins.
DeployDirectly(i) ==
    /\ up /\ pc[i] = "new"
    /\ direct' = direct \cup {i}
    /\ Goto(i, "deploying")
    /\ UNCHANGED <<storeVars, up, restarts, deployed>>

\* POST /deploy-approvals/:id/approve: approveDeploy, then deployPipeline begins.  Of the
\* decided lists persistStore saves the last 50 entries, more than the model has.
Approve(i) ==
    /\ up /\ i \in live[Approvals].pending
    /\ WriteStore(Approvals, [live[Approvals] EXCEPT !.pending = @ \ {i},
                                                     !.approved = @ \cup {i}])
    /\ Goto(i, "deploying")
    /\ UNCHANGED <<up, restarts, direct, deployed>>

\* POST /deploy-approvals/:id/reject: rejectDeploy.
Reject(i) ==
    /\ up /\ i \in live[Approvals].pending
    /\ WriteStore(Approvals, [live[Approvals] EXCEPT !.pending = @ \ {i},
                                                     !.rejected = @ \cup {i}])
    /\ Goto(i, "done")
    /\ UNCHANGED <<up, restarts, direct, deployed>>

\* deployPipeline returns an error before it changed anything.
DeployRefused(i) ==
    /\ up /\ pc[i] = "deploying"
    /\ Goto(i, "failed")
    /\ UNCHANGED <<storeVars, up, restarts, direct, deployed>>

\* deployPipeline updates the state machine and the catalog.
DeployTakesEffect(i) ==
    /\ up /\ pc[i] = "deploying"
    /\ deployed' = [deployed EXCEPT ![i] = @ + 1]
    /\ Goto(i, "deployed")
    /\ UNCHANGED <<storeVars, up, restarts, direct>>

\* deployPipeline throws after that, when it cannot write its files: Express 4 does not
\* see the rejection, the gateway logs it and the request has no answer.
DeployThrows(i) ==
    /\ up /\ pc[i] = "deployed"
    /\ Goto(i, "hung")
    /\ UNCHANGED <<storeVars, up, restarts, direct, deployed>>

\* recordRun at the end of deployPipeline, whether or not the proof passed.
RecordRun(i) ==
    /\ up /\ pc[i] = "deployed"
    /\ WriteStore(Runs, live[Runs] \cup {i})
    /\ \E result \in {"ok", "failed"} : Goto(i, result)
    /\ UNCHANGED <<up, restarts, direct, deployed>>

\* recordRun of a blocked schema change, nothing was deployed.
RecordBlocked(i) ==
    /\ up /\ pc[i] = "deploying"
    /\ WriteStore(Runs, live[Runs] \cup {i})
    /\ Goto(i, "failed")
    /\ UNCHANGED <<up, restarts, direct, deployed>>

\* Seeded fault: a version is saved before the run is recorded.
SaveVersionEarly(i) ==
    /\ up /\ pc[i] \in {"deployed", "ok"}
    /\ WriteStore(Versions, live[Versions] \cup {i})
    /\ IF pc[i] = "ok" THEN Goto(i, "done") ELSE UNCHANGED pc
    /\ UNCHANGED <<up, restarts, direct, deployed>>

\* savePipelineVersion of a deployment that succeeded, then audit and reply.
SaveVersion(i) ==
    /\ up /\ pc[i] = "ok"
    /\ WriteStore(Versions, live[Versions] \cup {i})
    /\ Goto(i, "done")
    /\ UNCHANGED <<up, restarts, direct, deployed>>

\* Seeded fault: the steward may decide again after a failed deployment.
NotifyFailureRequeues(i) ==
    /\ up /\ pc[i] = "failed"
    /\ WriteStore(Approvals, [live[Approvals] EXCEPT !.approved = @ \ {i},
                                                     !.pending = @ \cup {i}])
    /\ Goto(i, "queued")
    /\ UNCHANGED <<up, restarts, direct, deployed>>

\* Seeded fault: a webhook that does not answer keeps the route.
NotifyForever(i) ==
    /\ up /\ pc[i] = "failed"
    /\ UNCHANGED vars

\* notifyPipelineFailure, audit and reply; the approval stays approved.
NotifyFailure(i) ==
    /\ up /\ pc[i] = "failed"
    /\ Goto(i, "done")
    /\ UNCHANGED <<storeVars, up, restarts, direct, deployed>>

Crash ==
    /\ up /\ restarts < MaxRestarts
    /\ up' = FALSE
    /\ restarts' = restarts + 1
    /\ StopProcess
    /\ pc' = [i \in Ids |-> IF pc[i] \in InFlight THEN "lost" ELSE pc[i]]
    /\ UNCHANGED <<direct, deployed>>

Restart ==
    /\ ~up
    /\ up' = TRUE
    /\ Bootstrap
    /\ UNCHANGED <<pc, restarts, direct, deployed>>

PutMoves ==
    /\ \E k \in Stores : \E p \in puts[k] : PutDone(k, p) \/ PutFails(k, p)
    /\ UNCHANGED <<up, pc, restarts, direct, deployed>>

Serve(i) ==
    \/ DeployRefused(i) \/ DeployTakesEffect(i) \/ DeployThrows(i)
    \/ RecordRun(i) \/ RecordBlocked(i) \/ SaveVersion(i) \/ NotifyFailure(i)

Next ==
    \/ \E i \in Ids : Queue(i) \/ DeployDirectly(i) \/ Approve(i) \/ Reject(i) \/ Serve(i)
    \/ PutMoves \/ Crash \/ Restart

\* Assumed of the environment: the awaited calls answer (the Step Functions client and
\* the registration at the catalog set no timeout of their own), a put ends, a gateway
\* that died is restarted.
Spec ==
    /\ Init /\ [][Next]_vars
    /\ \A i \in Ids : WF_vars(Serve(i))
    /\ WF_vars(PutMoves) /\ WF_vars(Restart)

-----------------------------------------------------------------------------
(* Properties *)

OnOneList(a) ==
    /\ a.pending \cap a.approved = {}
    /\ a.pending \cap a.rejected = {}
    /\ a.approved \cap a.rejected = {}

\* A deployment is pending, approved or rejected and never two of them: in the
\* process, in the table, in the file a failed put wrote from a list that has
\* changed since, and in every put (approveDeploy, rejectDeploy, writeStore).
OneDecision ==
    /\ OnOneList(live[Approvals])
    /\ \A a \in {file[Approvals], table[Approvals]} \ {None} : OnOneList(a)
    /\ \A p \in puts[Approvals] : OnOneList(p.body)

\* An approved deployment takes effect once, one that waits or was rejected never
\* did, across restarts, unless a restart lost the approval: the decision is stored
\* before deployPipeline is called.
DeploysOnce ==
    Approvals \notin lost =>
        \A i \in Ids :
            /\ deployed[i] <= 1
            /\ i \in live[Approvals].pending \cup live[Approvals].rejected => deployed[i] = 0

\* Every version one can roll back to belongs to a recorded run of an approved (or
\* direct) deployment, after restarts too, unless one of those stores lost a write.
VersionsAreAccountedFor ==
    Approvals \notin lost /\ Runs \notin lost =>
        \A i \in live[Versions] :
            i \in live[Runs] /\ (i \in direct \/ i \in live[Approvals].approved)

\* The route of an approved deployment answers, unless the gateway died under it or
\* deployPipeline threw (the routes have no catch), however puts and restarts interleave.
DeploymentsAreAnswered ==
    \A i \in Ids : pc[i] = "deploying" ~> pc[i] \in {"done", "lost", "hung"}
=============================================================================
