------------------------- MODULE DeployPipelineProofs -------------------------
(***************************************************************************)
(* What DeployPipeline keeps for any deployments, pipelines and contracts. *)
(* The invariant IInv says where a deployment must be for a place to hold  *)
(* its name, and that two deployments of a pipeline that run at the same   *)
(* time are both in overlapped; the properties about trust cards and about *)
(* the schema baseline follow for the deployments that are not.            *)
(***************************************************************************)
EXTENDS DeployPipeline, TLAPS

Registered == {"lineage", "prove", "thrown", "success", "error"}
Written == {"register"} \cup Registered

\* Only a deployment that got so far has left its name.
NamesAreLeft ==
    /\ \A p \in Pipelines :
        /\ machine[p] # None => pc[machine[p]] \in Written
        /\ embedded[p].manifest # None =>
            /\ PipelineOf[embedded[p].manifest] = p
            /\ pc[embedded[p].manifest] \in Registered
            /\ pc[embedded[p].manifest] \in {"lineage", "prove"}
                => product[embedded[p].manifest] = "embedded"
        /\ lineage[p] # None => pc[lineage[p]] \in {"prove", "success", "error"}
    /\ \A d \in remote : pc[d] \in Registered
    /\ \A d \in Deploys :
        /\ product[d] # None => pc[d] \in {"lineage", "prove"}
        /\ verdict[d] # None => pc[d] \in {"success", "error"}
        /\ pc[d] \in {"new", "push", "register", "lineage", "prove"} => runs[d] = None
        /\ pc[d] = "refused" => runs[d] \in {None, "schema_evolution_blocked"}

\* Deployments of one pipeline that run at the same time know it.
OverlapsAreNoted ==
    \A d, e \in Deploys :
        d # e /\ PipelineOf[d] = PipelineOf[e] /\ pc[d] \notin Ended /\ pc[e] \notin Ended
            => d \in overlapped

\* The record a deployment registered is replaced by overlapping ones only.
RecordStays ==
    \A d \in Deploys : product[d] = "embedded" =>
        LET m == embedded[PipelineOf[d]].manifest IN m # None /\ (m = d \/ m \in overlapped)

\* The baseline a running deployment was checked against is still there.
BaselineStays ==
    \A d \in Deploys : pc[d] \in {"push", "register", "lineage"} /\ d \notin overlapped =>
        <<lineage[PipelineOf[d]], d>> \notin Breaks

IInv ==
    /\ DeployTypeOK
    /\ NamesAreLeft
    /\ OverlapsAreNoted
    /\ RecordStays
    /\ BaselineStays
    /\ TrustIsOfTheManifest

-----------------------------------------------------------------------------

LEMMA InitIInv == ASSUME DeployInit PROVE IInv
<1> USE DeployAssumption DEF DeployInit, DeployAssumption
<1>1. DeployTypeOK BY DEF DeployTypeOK, Record, Ended
<1>2. NamesAreLeft BY DEF NamesAreLeft
<1>3. OverlapsAreNoted BY DEF OverlapsAreNoted, Ended
<1>4. RecordStays BY DEF RecordStays
<1>5. BaselineStays BY DEF BaselineStays
<1>6. TrustIsOfTheManifest BY DEF TrustIsOfTheManifest
<1> QED BY <1>1, <1>2, <1>3, <1>4, <1>5, <1>6 DEF IInv

LEMMA RefuseKeeps ==
    ASSUME IInv, NEW d \in Deploys, Refuse(d) PROVE IInv'
<1> USE DeployAssumption DEF IInv, DeployAssumption, Refuse, Goto
<1>1. DeployTypeOK' BY DEF DeployTypeOK, Record, Verdicts, Ended
<1>2. NamesAreLeft' BY DEF DeployTypeOK, NamesAreLeft, Written, Registered, Record, Ended
<1>3. OverlapsAreNoted' BY DEF DeployTypeOK, OverlapsAreNoted, Ended
<1>4. RecordStays'
  BY DEF DeployTypeOK, RecordStays, NamesAreLeft, OverlapsAreNoted, Record, Ended
<1>5. BaselineStays' BY DEF DeployTypeOK, BaselineStays, OverlapsAreNoted, Ended
<1>6. TrustIsOfTheManifest'
  BY DEF DeployTypeOK, TrustIsOfTheManifest, NamesAreLeft, RecordStays, Record, Registered
<1> QED BY <1>1, <1>2, <1>3, <1>4, <1>5, <1>6

LEMMA RefuseSchemaKeeps ==
    ASSUME IInv, NEW d \in Deploys, RefuseSchema(d) PROVE IInv'
<1> USE DeployAssumption DEF IInv, DeployAssumption, RefuseSchema, Goto, Blocked
<1>1. DeployTypeOK' BY DEF DeployTypeOK, Record, Verdicts, Ended
<1>2. NamesAreLeft' BY DEF DeployTypeOK, NamesAreLeft, Written, Registered, Record, Ended
<1>3. OverlapsAreNoted' BY DEF DeployTypeOK, OverlapsAreNoted, Ended
<1>4. RecordStays'
  BY DEF DeployTypeOK, RecordStays, NamesAreLeft, OverlapsAreNoted, Record, Ended
<1>5. BaselineStays' BY DEF DeployTypeOK, BaselineStays, OverlapsAreNoted, Ended
<1>6. TrustIsOfTheManifest'
  BY DEF DeployTypeOK, TrustIsOfTheManifest, NamesAreLeft, RecordStays, Record, Registered
<1> QED BY <1>1, <1>2, <1>3, <1>4, <1>5, <1>6

LEMMA BeginKeeps ==
    ASSUME IInv, NEW d \in Deploys, Begin(d) PROVE IInv'
<1> USE DeployAssumption DEF IInv, DeployAssumption, Begin, Goto, Others, Blocked
<1>1. DeployTypeOK' BY DEF DeployTypeOK, Record, Verdicts, Ended
<1>2. NamesAreLeft' BY DEF DeployTypeOK, NamesAreLeft, Written, Registered, Record, Ended
<1>3. OverlapsAreNoted' BY DEF DeployTypeOK, OverlapsAreNoted, Ended
<1>4. RecordStays'
  BY DEF DeployTypeOK, RecordStays, NamesAreLeft, OverlapsAreNoted, Record, Ended
<1>5. BaselineStays' BY DEF DeployTypeOK, BaselineStays, OverlapsAreNoted, Ended
<1>6. TrustIsOfTheManifest'
  BY DEF DeployTypeOK, TrustIsOfTheManifest, NamesAreLeft, RecordStays, Record, Registered
<1> QED BY <1>1, <1>2, <1>3, <1>4, <1>5, <1>6

LEMMA PushMachineKeeps ==
    ASSUME IInv, NEW d \in Deploys, PushMachine(d) PROVE IInv'
<1> USE DeployAssumption DEF IInv, DeployAssumption, PushMachine, Goto
<1>1. DeployTypeOK'
  <2>1. machine' \in [Pipelines -> Deploys \cup {None}] BY DEF DeployTypeOK
  <2>2. aws' \in [Deploys -> BOOLEAN] BY DEF DeployTypeOK
  <2>3. pc' \in [Deploys -> Ended \cup {"push", "register", "lineage", "prove"}]
    BY DEF DeployTypeOK
  <2> QED BY <2>1, <2>2, <2>3 DEF DeployTypeOK
<1>2. NamesAreLeft' BY DEF DeployTypeOK, NamesAreLeft, Written, Registered, Record, Ended
<1>3. OverlapsAreNoted' BY DEF DeployTypeOK, OverlapsAreNoted, Ended
<1>4. RecordStays'
  BY DEF DeployTypeOK, RecordStays, NamesAreLeft, OverlapsAreNoted, Record, Ended
<1>5. BaselineStays' BY DEF DeployTypeOK, BaselineStays, OverlapsAreNoted, Ended
<1>6. TrustIsOfTheManifest'
  BY DEF DeployTypeOK, TrustIsOfTheManifest, NamesAreLeft, RecordStays, Record, Registered
<1> QED BY <1>1, <1>2, <1>3, <1>4, <1>5, <1>6

LEMMA AwsFailsKeeps ==
    ASSUME IInv, NEW d \in Deploys, AwsFails(d) PROVE IInv'
<1> USE DeployAssumption DEF IInv, DeployAssumption, AwsFails, Goto
<1>1. DeployTypeOK' BY DEF DeployTypeOK, Record, Verdicts, Ended
<1>2. NamesAreLeft' BY DEF DeployTypeOK, NamesAreLeft, Written, Registered, Record, Ended
<1>3. OverlapsAreNoted' BY DEF DeployTypeOK, OverlapsAreNoted, Ended
<1>4. RecordStays'
  BY DEF DeployTypeOK, RecordStays, NamesAreLeft, OverlapsAreNoted, Record, Ended
<1>5. BaselineStays' BY DEF DeployTypeOK, BaselineStays, OverlapsAreNoted, Ended
<1>6. TrustIsOfTheManifest'
  BY DEF DeployTypeOK, TrustIsOfTheManifest, NamesAreLeft, RecordStays, Record, Registered
<1> QED BY <1>1, <1>2, <1>3, <1>4, <1>5, <1>6

LEMMA RegisterEmbeddedKeeps ==
    ASSUME IInv, NEW d \in Deploys, RegisterEmbedded(d) PROVE IInv'
<1> USE DeployAssumption DEF IInv, DeployAssumption, RegisterEmbedded, Goto
<1>1. DeployTypeOK' BY DEF DeployTypeOK, Record, Verdicts, Ended
<1>2. NamesAreLeft' BY DEF DeployTypeOK, NamesAreLeft, Written, Registered, Record, Ended
<1>3. OverlapsAreNoted' BY DEF DeployTypeOK, OverlapsAreNoted, Ended
<1>4. RecordStays'
  <2> SUFFICES ASSUME NEW e \in Deploys, product'[e] = "embedded"
               PROVE  LET m == embedded'[PipelineOf[e]].manifest
                      IN  m # None /\ (m = e \/ m \in overlapped')
    BY DEF RecordStays
  <2>1. CASE PipelineOf[e] # PipelineOf[d]
    BY <2>1 DEF DeployTypeOK, RecordStays
  <2>2. CASE PipelineOf[e] = PipelineOf[d]
    <3>1. embedded'[PipelineOf[e]].manifest = d BY <2>2 DEF DeployTypeOK, Record
    <3>2. CASE e = d BY <3>1, <3>2
    <3>3. CASE e # d
      <4>1. pc[e] \in {"lineage", "prove"} BY <3>3 DEF DeployTypeOK, NamesAreLeft
      <4>2. d \in overlapped BY <2>2, <3>3, <4>1 DEF OverlapsAreNoted, Ended
      <4> QED BY <3>1, <4>2
    <3> QED BY <3>2, <3>3
  <2> QED BY <2>1, <2>2
<1>5. BaselineStays' BY DEF DeployTypeOK, BaselineStays, OverlapsAreNoted, Ended
<1>6. TrustIsOfTheManifest'
  BY DEF DeployTypeOK, TrustIsOfTheManifest, NamesAreLeft, RecordStays, Record, Registered
<1> QED BY <1>1, <1>2, <1>3, <1>4, <1>5, <1>6

LEMMA RegisterRemoteKeeps ==
    ASSUME IInv, NEW d \in Deploys, RegisterRemote(d) PROVE IInv'
<1> USE DeployAssumption DEF IInv, DeployAssumption, RegisterRemote, Goto
<1>1. DeployTypeOK' BY DEF DeployTypeOK, Record, Verdicts, Ended
<1>2. NamesAreLeft' BY DEF DeployTypeOK, NamesAreLeft, Written, Registered, Record, Ended
<1>3. OverlapsAreNoted' BY DEF DeployTypeOK, OverlapsAreNoted, Ended
<1>4. RecordStays'
  BY DEF DeployTypeOK, RecordStays, NamesAreLeft, OverlapsAreNoted, Record, Ended
<1>5. BaselineStays' BY DEF DeployTypeOK, BaselineStays, OverlapsAreNoted, Ended
<1>6. TrustIsOfTheManifest'
  BY DEF DeployTypeOK, TrustIsOfTheManifest, NamesAreLeft, RecordStays, Record, Registered
<1> QED BY <1>1, <1>2, <1>3, <1>4, <1>5, <1>6

LEMMA RegisterFailsKeeps ==
    ASSUME IInv, NEW d \in Deploys, RegisterFails(d) PROVE IInv'
<1> USE DeployAssumption DEF IInv, DeployAssumption, RegisterFails, Goto
<1>1. DeployTypeOK' BY DEF DeployTypeOK, Record, Verdicts, Ended
<1>2. NamesAreLeft' BY DEF DeployTypeOK, NamesAreLeft, Written, Registered, Record, Ended
<1>3. OverlapsAreNoted' BY DEF DeployTypeOK, OverlapsAreNoted, Ended
<1>4. RecordStays'
  BY DEF DeployTypeOK, RecordStays, NamesAreLeft, OverlapsAreNoted, Record, Ended
<1>5. BaselineStays' BY DEF DeployTypeOK, BaselineStays, OverlapsAreNoted, Ended
<1>6. TrustIsOfTheManifest'
  BY DEF DeployTypeOK, TrustIsOfTheManifest, NamesAreLeft, RecordStays, Record, Registered
<1> QED BY <1>1, <1>2, <1>3, <1>4, <1>5, <1>6

LEMMA ArtifactsThrowKeeps ==
    ASSUME IInv, NEW d \in Deploys, ArtifactsThrow(d) PROVE IInv'
<1> USE DeployAssumption DEF IInv, DeployAssumption, ArtifactsThrow, Goto
<1>1. DeployTypeOK' BY DEF DeployTypeOK, Record, Verdicts, Ended
<1>2. NamesAreLeft' BY DEF DeployTypeOK, NamesAreLeft, Written, Registered, Record, Ended
<1>3. OverlapsAreNoted' BY DEF DeployTypeOK, OverlapsAreNoted, Ended
<1>4. RecordStays'
  BY DEF DeployTypeOK, RecordStays, NamesAreLeft, OverlapsAreNoted, Record, Ended
<1>5. BaselineStays' BY DEF DeployTypeOK, BaselineStays, OverlapsAreNoted, Ended
<1>6. TrustIsOfTheManifest'
  BY DEF DeployTypeOK, TrustIsOfTheManifest, NamesAreLeft, RecordStays, Record, Registered
<1> QED BY <1>1, <1>2, <1>3, <1>4, <1>5, <1>6

LEMMA SaveLineageKeeps ==
    ASSUME IInv, NEW d \in Deploys, SaveLineage(d) PROVE IInv'
<1> USE DeployAssumption DEF IInv, DeployAssumption, SaveLineage, Goto
<1>1. DeployTypeOK' BY DEF DeployTypeOK, Record, Verdicts, Ended
<1>2. NamesAreLeft' BY DEF DeployTypeOK, NamesAreLeft, Written, Registered, Record, Ended
<1>3. OverlapsAreNoted' BY DEF DeployTypeOK, OverlapsAreNoted, Ended
<1>4. RecordStays'
  BY DEF DeployTypeOK, RecordStays, NamesAreLeft, OverlapsAreNoted, Record, Ended
<1>5. BaselineStays' BY DEF DeployTypeOK, BaselineStays, OverlapsAreNoted, Ended
<1>6. TrustIsOfTheManifest'
  BY DEF DeployTypeOK, TrustIsOfTheManifest, NamesAreLeft, RecordStays, Record, Registered
<1> QED BY <1>1, <1>2, <1>3, <1>4, <1>5, <1>6

LEMMA FinishKeeps ==
    ASSUME IInv, NEW d \in Deploys, Finish(d) PROVE IInv'
<1>0. PICK v \in Verdicts :
        /\ verdict' = [verdict EXCEPT ![d] = v]
        /\ embedded' = Patched(d, v)
        /\ runs' = [runs EXCEPT ![d] = RunOutcome(d, v)]
        /\ Goto(d, IF v = "FAIL" THEN "error" ELSE "success")
  BY DEF Finish, ProofOf, Verdicts
<1> USE DeployAssumption DEF IInv, DeployAssumption, Finish, Goto, Patched
<1>1. DeployTypeOK'
  <2>1. RunOutcome(d, v) \in {"success", "verification_failed", "deployed", "unverified"}
    BY DEF RunOutcome
  <2>2. embedded' \in [Pipelines -> Record]
    <3>1. v \in Verdicts \cup {None} OBVIOUS
    <3>2. embedded \in [Pipelines -> [manifest : Deploys \cup {None},
                                      trust : Verdicts \cup {None}]]
      BY DEF DeployTypeOK, Record
    <3>3. PipelineOf[d] \in Pipelines OBVIOUS
    <3>4. embedded' = embedded \/ embedded' = [embedded EXCEPT ![PipelineOf[d]].trust = v]
      BY <1>0
    <3> QED BY <3>1, <3>2, <3>3, <3>4 DEF Record
  <2> QED BY <1>0, <2>1, <2>2 DEF DeployTypeOK, Ended
<1>2. NamesAreLeft' BY <1>0 DEF DeployTypeOK, NamesAreLeft, Written, Registered, Record, Ended
<1>3. OverlapsAreNoted' BY <1>0 DEF DeployTypeOK, OverlapsAreNoted, Ended
<1>4. RecordStays'
  BY <1>0 DEF DeployTypeOK, RecordStays, NamesAreLeft, OverlapsAreNoted, Record, Ended
<1>5. BaselineStays' BY <1>0 DEF DeployTypeOK, BaselineStays, OverlapsAreNoted, Ended
<1>6. TrustIsOfTheManifest'
  BY <1>0 DEF DeployTypeOK, TrustIsOfTheManifest, NamesAreLeft, RecordStays, Record, Registered
<1> QED BY <1>1, <1>2, <1>3, <1>4, <1>5, <1>6

-----------------------------------------------------------------------------

LEMMA StepIInv == ASSUME IInv, [DeployNext]_deployVars PROVE IInv'
<1>1. CASE UNCHANGED deployVars
  BY <1>1 DEF deployVars, IInv, DeployTypeOK, NamesAreLeft, OverlapsAreNoted, RecordStays,
     BaselineStays, TrustIsOfTheManifest
<1>2. ASSUME NEW d \in Deploys, Deploy(d) PROVE IInv'
  BY <1>2, RefuseKeeps, RefuseSchemaKeeps, BeginKeeps, PushMachineKeeps, AwsFailsKeeps,
     RegisterEmbeddedKeeps, RegisterRemoteKeeps, RegisterFailsKeeps, ArtifactsThrowKeeps,
     SaveLineageKeeps, FinishKeeps DEF Deploy
<1> QED BY <1>1, <1>2 DEF DeployNext

\* The invariant holds in every state of every instance.
THEOREM DeployInvariant == DeploySpec => []IInv
<1>1. DeployInit => IInv BY InitIInv
<1>2. IInv /\ [DeployNext]_deployVars => IInv' BY StepIInv
<1> QED BY <1>1, <1>2, PTL DEF DeploySpec

\* Type correctness of deployPipeline's stores and locals.
THEOREM DeployTypes == DeploySpec => []DeployTypeOK
<1>1. IInv => DeployTypeOK BY DEF IInv
<1> QED BY <1>1, DeployInvariant, PTL

\* The trust card beside a manifest is the manifest's, unless deployments overlapped.
THEOREM DeployTrust == DeploySpec => []TrustIsOfTheManifest
<1>1. IInv => TrustIsOfTheManifest BY DEF IInv
<1> QED BY <1>1, DeployInvariant, PTL

\* A refused deployment has written nowhere.
THEOREM DeployRefused == DeploySpec => []RefusedLeavesNothing
<1>1. IInv => RefusedLeavesNothing
  <2> SUFFICES ASSUME IInv, NEW d \in Deploys, pc[d] = "refused"
               PROVE  /\ machine[PipelineOf[d]] # d /\ lineage[PipelineOf[d]] # d
                      /\ embedded[PipelineOf[d]].manifest # d /\ d \notin remote
                      /\ runs[d] \in {None, "schema_evolution_blocked"}
    BY DEF RefusedLeavesNothing
  <2> QED BY DeployAssumption DEF IInv, NamesAreLeft, Written, Registered, DeployAssumption
<1> QED BY <1>1, DeployInvariant, PTL

\* The baseline of a pipeline moves along allowed changes, unless deployments overlapped.
THEOREM DeploySchemas == DeploySpec => SchemaEvolvesAsAllowed
<1> DEFINE Moves == \A p \in Pipelines :
        lineage'[p] # lineage[p] /\ lineage'[p] \notin overlapped =>
            <<lineage[p], lineage'[p]>> \notin Breaks
<1>1. IInv /\ [DeployNext]_deployVars => [Moves]_lineage
  <2> SUFFICES ASSUME IInv, [DeployNext]_deployVars PROVE [Moves]_lineage OBVIOUS
  <2>1. CASE UNCHANGED deployVars BY <2>1 DEF deployVars
  <2>2. ASSUME NEW d \in Deploys, SaveLineage(d) PROVE Moves
    BY <2>2, DeployAssumption
       DEF SaveLineage, IInv, BaselineStays, DeployTypeOK, DeployAssumption
  <2>3. ASSUME NEW d \in Deploys, Deploy(d), ~SaveLineage(d) PROVE UNCHANGED lineage
    BY <2>3 DEF Deploy, Refuse, RefuseSchema, Begin, PushMachine, AwsFails,
       RegisterEmbedded, RegisterRemote, RegisterFails, ArtifactsThrow, Finish
  <2> QED BY <2>1, <2>2, <2>3 DEF DeployNext
<1> QED BY <1>1, DeployInvariant, PTL DEF SchemaEvolvesAsAllowed, DeploySpec
=============================================================================
