---------------------------- MODULE ConsumerAccess ----------------------------
(***************************************************************************)
(* Consumers of the marketplace: access requests (lib/access-requests.js), *)
(* the gateway's approve route, which waits for a Lake Formation grant,    *)
(* and subscription tokens (lib/marketplace/index.js), issued while the    *)
(* products are being deployed by DeployPipeline.                          *)
(*                                                                         *)
(* A request is a value; its record moves between the three lists.  The    *)
(* id of a record and its requestedAt are the millisecond it was made.  A  *)
(* product of this process has the id of its pipeline, one of the remote   *)
(* catalog an id of its own and stands for the deployment it registered.   *)
(***************************************************************************)
EXTENDS DeployPipeline, SequencesExt

CONSTANTS
    Users,
    Requests,   \* calls of requestAccess
    By,         \* the user of every request
    For,        \* the product it asks for
    Claims,     \* contracts the tags of which say vrpVerdict PASS
    MaxClock,   \* bound on the milliseconds that pass
    MaxTokens   \* bound on the tokens and the calls that wait for one

Products == Pipelines \cup Deploys

ASSUME AccessAssumption ==
    /\ By \in [Requests -> Users]
    /\ For \in [Requests -> Products]
    /\ Claims \subseteq Deploys
    /\ Pipelines \cap Deploys = {}
    /\ MaxClock \in Nat /\ MaxTokens \in Nat
    /\ None \notin Requests \cup Nat

VARIABLES
    clock,      \* the millisecond of the last request
    id,         \* id of a record, its clock
    pending, approved, rejected,
    granting,   \* approved records the route of which awaits product and grant
    grant,      \* lakeFormationGrant: the record it was made for
    issuing,    \* products token calls of somebody wait for
    tokens,     \* product and manifest of the subscription tokens
    \* history
    asked,      \* the millisecond of a request
    meant       \* the request the steward had chosen when a record was decided

accessVars == <<clock, id, pending, approved, rejected, granting, grant, issuing,
                tokens, asked, meant>>
vars == <<deployVars, accessVars>>

TypeOK ==
    /\ DeployTypeOK
    /\ clock \in 0 .. MaxClock
    /\ id \in [Requests -> (0 .. MaxClock) \cup {None}]
    /\ asked \in [Requests -> (0 .. MaxClock) \cup {None}]
    /\ LET all == pending \o approved \o rejected IN
        /\ IsInjective(all)
        /\ ToSet(all) = {r \in Requests : asked[r] # None}
    /\ granting \subseteq ToSet(approved)
    /\ grant \in [Requests -> Requests \cup {None}]
    /\ meant \in [Requests -> Requests \cup {None}]
    /\ issuing \subseteq Products
    /\ tokens \subseteq Products \X Deploys

Init ==
    /\ DeployInit
    /\ clock = 0
    /\ id = [r \in Requests |-> None]
    /\ asked = [r \in Requests |-> None]
    /\ pending = <<>> /\ approved = <<>> /\ rejected = <<>>
    /\ granting = {}
    /\ grant = [r \in Requests |-> None]
    /\ meant = [r \in Requests |-> None]
    /\ issuing = {}
    /\ tokens = {}

\* The millisecond of a request: the first is made at 0, others then or later.
Now == IF \E r \in Requests : asked[r] # None THEN clock .. MaxClock ELSE {0}

\* Seeded fault: ids are made from seconds.
RequestAccessCoarse(r) ==
    /\ asked[r] = None /\ For[r] \in Pipelines \cup remote
    /\ clock' \in Now
    /\ id' = [id EXCEPT ![r] = clock' \div 2]
    /\ asked' = [asked EXCEPT ![r] = clock']
    /\ pending' = Append(pending, r)
    /\ UNCHANGED <<deployVars, approved, rejected, granting, grant, issuing,
                   tokens, meant>>

\* requestAccess; milliseconds may have passed since the last request.  The random id of
\* a remote product is known when it is registered, that of a pipeline before.
RequestAccess(r) ==
    /\ asked[r] = None /\ For[r] \in Pipelines \cup remote
    /\ clock' \in Now
    /\ id' = [id EXCEPT ![r] = clock']
    /\ asked' = [asked EXCEPT ![r] = clock']
    /\ pending' = Append(pending, r)
    /\ UNCHANGED <<deployVars, approved, rejected, granting, grant, issuing,
                   tokens, meant>>

\* Position of the first record of a list with the id of r, 0 if there is none.
FindIndex(list, r) == SelectInSeq(list, LAMBDA q : id[q] = id[r])

\* approveRequest: a steward chose r, the first pending record with its id is taken.
ApproveRequest(r) ==
    LET i == FindIndex(pending, r)  q == pending[i] IN
    /\ asked[r] # None /\ i > 0
    /\ pending' = RemoveAt(pending, i)
    /\ approved' = Append(approved, q)
    /\ granting' = granting \cup {q}
    /\ meant' = [meant EXCEPT ![q] = r]
    /\ UNCHANGED <<deployVars, clock, id, rejected, grant, issuing, tokens, asked>>

\* Seeded fault: the record stays in the pending list.
RejectKeepsPending(r) ==
    LET i == FindIndex(pending, r)  q == pending[i] IN
    /\ asked[r] # None /\ i > 0
    /\ rejected' = Append(rejected, q)
    /\ meant' = [meant EXCEPT ![q] = r]
    /\ UNCHANGED <<deployVars, clock, id, pending, approved, granting, grant, issuing,
                   tokens, asked>>

\* rejectRequest.
RejectRequest(r) ==
    LET i == FindIndex(pending, r)  q == pending[i] IN
    /\ asked[r] # None /\ i > 0
    /\ pending' = RemoveAt(pending, i)
    /\ rejected' = Append(rejected, q)
    /\ meant' = [meant EXCEPT ![q] = r]
    /\ UNCHANGED <<deployVars, clock, id, approved, granting, grant, issuing, tokens, asked>>

\* Seeded fault: only setLakeFormationGrant stores the grant.
GrantByIdOnly(q) ==
    /\ q \in granting
    /\ grant' = [grant EXCEPT ![approved[FindIndex(approved, q)]] = q]
    /\ granting' = granting \ {q}
    /\ UNCHANGED <<deployVars, clock, id, pending, approved, rejected, issuing, tokens,
                   asked, meant>>

\* Product and grant have answered, or failed: setLakeFormationGrant on the first
\* approved record with the id, and on the record the route holds.
Grant(q) ==
    /\ q \in granting
    /\ grant' = [grant EXCEPT ![approved[FindIndex(approved, q)]] = q, ![q] = q]
    /\ granting' = granting \ {q}
    /\ UNCHANGED <<deployVars, clock, id, pending, approved, rejected, issuing, tokens,
                   asked, meant>>

\* The first of the newest records at some positions of a list: the sort is stable.
NewestAt(list, positions) ==
    list[Min({i \in positions : \A j \in positions : asked[list[j]] <= asked[list[i]]})]

\* getAccessForProduct: the newest record of the user, or of anybody.
AccessForProduct(p, u) ==
    LET all == pending \o approved \o rejected
        asking == {i \in DOMAIN all : For[all[i]] = p}
        mine == {i \in asking : By[all[i]] = u}
    IN IF mine # {} THEN NewestAt(all, mine)
       ELSE IF asking # {} THEN NewestAt(all, asking) ELSE None

\* issueSubscriptionToken up to the await of getProduct.
StartIssue(u, p) ==
    /\ Cardinality(issuing) + Cardinality(tokens) < MaxTokens
    /\ AccessForProduct(p, u) \in ToSet(approved)
    /\ issuing' = issuing \cup {p}
    /\ UNCHANGED <<deployVars, clock, id, pending, approved, rejected, granting, grant,
                   tokens, asked, meant>>

ManifestOf(p) == IF p \in Deploys THEN p ELSE embedded[p].manifest

\* What getProduct can answer with.
HasProduct(p) == IF p \in Deploys THEN p \in remote ELSE embedded[p].manifest # None

\* enrichProduct: the trust card, and without one, as no product of the remote catalog
\* has one, the tags of the contract.
SaysPass(p) ==
    IF p \in Deploys \/ embedded[p].trust = None THEN ManifestOf(p) \in Claims
    ELSE embedded[p].trust = "PASS"

\* Seeded fault: a product that is registered has passed.
MintUnproven(p) ==
    /\ p \in issuing
    /\ HasProduct(p)
    /\ tokens' = tokens \cup {<<p, ManifestOf(p)>>}
    /\ issuing' = issuing \ {p}
    /\ UNCHANGED <<deployVars, clock, id, pending, approved, rejected, granting, grant,
                   asked, meant>>

\* A product with VRP PASS: mintSubscriptionToken.
Mint(p) ==
    /\ p \in issuing
    /\ HasProduct(p) /\ SaysPass(p)
    /\ tokens' = tokens \cup {<<p, ManifestOf(p)>>}
    /\ issuing' = issuing \ {p}
    /\ UNCHANGED <<deployVars, clock, id, pending, approved, rejected, granting, grant,
                   asked, meant>>

\* No product, one without PASS, or the remote catalog, the only one to have its own
\* products, does not answer.
IssueRefused(p) ==
    /\ p \in issuing
    /\ p \in Deploys \/ ~HasProduct(p) \/ ~SaysPass(p)
    /\ issuing' = issuing \ {p}
    /\ UNCHANGED <<deployVars, clock, id, pending, approved, rejected, granting, grant,
                   tokens, asked, meant>>

Next ==
    \/ DeployNext /\ UNCHANGED accessVars
    \/ \E r \in Requests :
        RequestAccess(r) \/ ApproveRequest(r) \/ RejectRequest(r) \/ Grant(r)
    \/ \E p \in Products :
        (\E u \in Users : StartIssue(u, p)) \/ Mint(p) \/ IssueRefused(p)

Spec == Init /\ [][Next]_vars

-----------------------------------------------------------------------------
(* Properties *)

\* A decision and a grant land on the record of the request the steward chose, unless
\* another request was made in the same millisecond (the ids are Date.now(), approve
\* and setLakeFormationGrant look records up by id, awaits apart).
DecisionsReachTheirRequest ==
    \A r \in ToSet(approved \o rejected) :
        \/ \E q \in Requests \ {r} : asked[q] = asked[r]
        \/ meant[r] = r /\ grant[r] \in {None, r}

\* When its approve route is done an approved record has the outcome of a grant, also
\* when two routes with one id ended in any order: setLakeFormationGrant finds the
\* first record with the id only, the route writes the record it holds as well.
GrantsAreRecorded == \A r \in ToSet(approved) \ granting : grant[r] # None

\* A subscription token was minted for a product somebody's access to which had been
\* approved.  Unless the tags of the contract it pins say PASS, a deployment of the
\* product was proven, and if the deployment of that contract overlapped no other, the
\* proof is that of the very manifest (issueSubscriptionToken awaits the product
\* between its two checks, deployments go on).
TokensAreEarned ==
    \A t \in tokens : LET p == t[1]  manifest == t[2] IN
        /\ \E r \in ToSet(approved) : For[r] = p
        /\ manifest \notin Claims =>
            /\ \E d \in Deploys : PipelineOf[d] = p /\ verdict[d] = "PASS"
            /\ manifest \notin overlapped => verdict[manifest] = "PASS"

\* A token rests on a proof: of some deployment of the pipeline of the manifest it
\* pins.  The refusal of issueSubscriptionToken says "Subscription tokens require VRP
\* PASS on the product" (lib/marketplace/index.js:234), but enrichProduct takes the
\* verdict from the tags of the contract when there is no trust card.
TokensAreProven ==
    \A t \in tokens : \E d \in Deploys :
        PipelineOf[d] = PipelineOf[t[2]] /\ verdict[d] = "PASS"
=============================================================================
