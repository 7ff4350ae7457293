------------------------- MODULE ConsumerAccessProofs -------------------------
(***************************************************************************)
(* What ConsumerAccess keeps for any users, requests, products and         *)
(* deployments.  The deployments go on beneath it (Spec => DeploySpec), so *)
(* the theorems of DeployPipelineProofs hold of it too.  The invariant     *)
(* AccessInv says what the three lists are as sequences, that an id stands *)
(* for a millisecond and what a token call that waits and a token rest on. *)
(***************************************************************************)
EXTENDS ConsumerAccess, DeployPipelineProofs, FiniteSetTheorems, WellFoundedInduction,
        SequenceTheorems

\* The lists share no record, no list has one twice, and every record is in one.
ListsAreDisjoint ==
    /\ pending \in Seq(Requests) /\ approved \in Seq(Requests) /\ rejected \in Seq(Requests)
    /\ IsInjective(pending) /\ IsInjective(approved) /\ IsInjective(rejected)
    /\ ToSet(pending) \cap ToSet(approved) = {}
    /\ ToSet(pending) \cap ToSet(rejected) = {}
    /\ ToSet(approved) \cap ToSet(rejected) = {}
    /\ ToSet(pending) \cup ToSet(approved) \cup ToSet(rejected)
        = {r \in Requests : asked[r] # None}

AccessTypes ==
    /\ clock \in 0 .. MaxClock
    /\ asked \in [Requests -> (0 .. MaxClock) \cup {None}]
    /\ id = asked
    /\ granting \subseteq ToSet(approved)
    /\ grant \in [Requests -> Requests \cup {None}]
    /\ meant \in [Requests -> Requests \cup {None}]
    /\ issuing \subseteq Products
    /\ tokens \subseteq Products \X Deploys

\* A decision and a grant were made for a request of the millisecond of the record, a
\* grant for an approved one.
DecisionsKeepTheId ==
    /\ \A r \in ToSet(approved) \cup ToSet(rejected) :
        meant[r] \in Requests /\ asked[meant[r]] = asked[r]
    /\ \A r \in Requests : grant[r] # None =>
        /\ r \in ToSet(approved) /\ grant[r] \in ToSet(approved)
        /\ asked[grant[r]] = asked[r]

\* Somebody's access to a product a token call waits for has been approved.
WaitingIsApproved == \A p \in issuing : \E r \in ToSet(approved) : For[r] = p

\* The manifest a token for a product of this process pins is one of that product.
PinsAreOfTheProduct == \A t \in tokens : t[1] \in Pipelines => PipelineOf[t[2]] = t[1]

AccessInv ==
    /\ AccessTypes
    /\ ListsAreDisjoint
    /\ DecisionsKeepTheId
    /\ GrantsAreRecorded
    /\ WaitingIsApproved
    /\ TokensAreEarned
    /\ PinsAreOfTheProduct

-----------------------------------------------------------------------------
(* Lists *)

\* A nonempty set of naturals has a least element: its initial segments are
\* finite sets, and strict inclusion is well-founded on those.
LEMMA MinOfNaturals ==
    ASSUME NEW S, S \subseteq Nat, S # {}
    PROVE  Min(S) \in S /\ \A y \in S : Min(S) <= y
<1>. DEFINE T == {0 .. x : x \in S}
<1>1. T # {}
  OBVIOUS
<1>2. T \subseteq FiniteSubsetsOf(Nat)
  <2>1. ASSUME NEW x \in S PROVE 0 .. x \in SUBSET Nat /\ IsFiniteSet(0 .. x)
    <3>1. x \in Int /\ 0 .. x \in SUBSET Nat
      OBVIOUS
    <3>. QED
      BY <3>1, FS_Interval
  <2>. QED
    BY <2>1 DEF FiniteSubsetsOf
<1>3. \E X \in T : \A Y \in T : <<Y, X>> \notin StrictSubsetOrdering(Nat)
  <2>1. IsWellFoundedOn(StrictSubsetOrdering(Nat), FiniteSubsetsOf(Nat))
    BY FS_StrictSubsetOrderingWellFounded
  <2>. HIDE DEF T
  <2>. QED
    BY <1>1, <1>2, <2>1, WFMin
<1>4. PICK x \in S : \A y \in S : <<0 .. y, 0 .. x>> \notin StrictSubsetOrdering(Nat)
  BY <1>3
<1>5. ASSUME NEW y \in S PROVE x <= y
  <2>1. SUFFICES ASSUME y < x PROVE FALSE
    OBVIOUS
  <2>2. 0 .. y \subseteq 0 .. x /\ 0 .. y \subseteq Nat /\ 0 .. x \subseteq Nat
    BY <2>1
  <2>3. x \in 0 .. x /\ x \notin 0 .. y
    BY <2>1
  <2>4. <<0 .. y, 0 .. x>> \in StrictSubsetOrdering(Nat)
    BY <2>2, <2>3 DEF StrictSubsetOrdering
  <2>. QED
    BY <1>4, <2>4
<1>. QED
  BY <1>5 DEF Min

\* Some member of a nonempty set has the greatest value of a bounded function.
LEMMA SomeIsGreatest ==
    ASSUME NEW n \in Nat, NEW S, S # {}, NEW f \in [S -> 0 .. n]
    PROVE  \E x \in S : \A y \in S : f[y] <= f[x]
<1> DEFINE T == {n - f[x] : x \in S}
<1>1. T \subseteq Nat /\ T # {}
  <2>1. \A x \in S : n - f[x] \in Nat OBVIOUS
  <2> QED BY <2>1, Zenon
<1>2. PICK t \in T : \A u \in T : t <= u BY <1>1, MinOfNaturals
<1>3. PICK x \in S : t = n - f[x] BY <1>2
<1>4. \A y \in S : f[y] <= f[x] BY <1>2, <1>3
<1> QED BY <1>4

\* What the members of a list are.
LEMMA Members ==
    ASSUME NEW S, NEW s \in Seq(S)
    PROVE  /\ ToSet(s) \subseteq S
           /\ \A i \in 1 .. Len(s) : s[i] \in ToSet(s)
           /\ \A x : x \in ToSet(s) <=> \E i \in 1 .. Len(s) : s[i] = x
           /\ Len(s) \in Nat /\ DOMAIN s = 1 .. Len(s)
BY LenProperties, ElementOfSeq DEF ToSet

\* An element that is not in a list is appended to it.
LEMMA AppendedList ==
    ASSUME NEW S, NEW s \in Seq(S), NEW e \in S, IsInjective(s), e \notin ToSet(s)
    PROVE  /\ Append(s, e) \in Seq(S)
           /\ ToSet(Append(s, e)) = ToSet(s) \cup {e}
           /\ IsInjective(Append(s, e))
<1> DEFINE t == Append(s, e)
<1>1. /\ t \in Seq(S) /\ Len(t) = Len(s) + 1 /\ t[Len(s) + 1] = e
      /\ \A i \in 1 .. Len(s) : t[i] = s[i]
  BY AppendProperties
<1>2. /\ DOMAIN t = 1 .. Len(s) + 1 /\ DOMAIN s = 1 .. Len(s) /\ Len(s) \in Nat
  BY <1>1, LenProperties
<1> HIDE DEF t
<1>3. \A i \in DOMAIN s : s[i] # e BY DEF ToSet
<1>4. \A i \in DOMAIN t : i \in DOMAIN s \/ i = Len(s) + 1 BY <1>2
<1>5. \A i \in DOMAIN s : i \in DOMAIN t BY <1>2
<1>6. Len(s) + 1 \in DOMAIN t BY <1>2
<1>7. ToSet(t) = ToSet(s) \cup {e} BY <1>1, <1>2, <1>4, <1>5, <1>6 DEF ToSet
<1>8. IsInjective(t) BY <1>1, <1>2, <1>3, <1>4 DEF IsInjective
<1> QED BY <1>1, <1>7, <1>8 DEF t

\* The element at a position is taken out of a list.
LEMMA ShortenedList ==
    ASSUME NEW S, NEW s \in Seq(S), IsInjective(s), NEW i \in 1 .. Len(s)
    PROVE  /\ RemoveAt(s, i) \in Seq(S)
           /\ ToSet(RemoveAt(s, i)) = ToSet(s) \ {s[i]}
           /\ IsInjective(RemoveAt(s, i))
<1> DEFINE a == SubSeq(s, 1, i - 1)
           b == SubSeq(s, i + 1, Len(s))
           t == a \o b
           At(j) == IF j < i THEN j ELSE j + 1
<1>0. Len(s) \in Nat /\ DOMAIN s = 1 .. Len(s) /\ \A j \in 1 .. Len(s) : s[j] \in S
  BY LenProperties, ElementOfSeq
<1>1. a \in Seq(S) /\ Len(a) = i - 1 /\ \A j \in 1 .. i - 1 : a[j] = s[j]
  <2>1. 1 \in Int /\ i - 1 \in Int /\ \A j \in 1 .. i - 1 : s[j] \in S BY <1>0
  <2>2. /\ a \in Seq(S) /\ Len(a) = IF 1 <= i - 1 THEN i - 1 - 1 + 1 ELSE 0
        /\ \A j \in 1 .. i - 1 - 1 + 1 : a[j] = s[1 + j - 1]
    BY <2>1, SubSeqProperties
  <2> QED BY <2>2
<1>2. b \in Seq(S) /\ Len(b) = Len(s) - i /\ \A j \in 1 .. Len(s) - i : b[j] = s[i + j]
  <2>1. i + 1 \in Int /\ Len(s) \in Int /\ \A j \in i + 1 .. Len(s) : s[j] \in S BY <1>0
  <2>2. /\ b \in Seq(S) /\ Len(b) = IF i + 1 <= Len(s) THEN Len(s) - (i + 1) + 1 ELSE 0
        /\ \A j \in 1 .. Len(s) - (i + 1) + 1 : b[j] = s[(i + 1) + j - 1]
    BY <2>1, SubSeqProperties
  <2> HIDE DEF b
  <2>3. Len(s) \in Nat /\ i \in Nat /\ 1 <= i /\ i <= Len(s) BY <1>0
  <2>4. Len(b) = Len(s) - i
    <3>1. CASE i + 1 <= Len(s) BY <2>2, <2>3, <3>1
    <3>2. CASE ~(i + 1 <= Len(s)) BY <2>2, <2>3, <3>2
    <3> QED BY <3>1, <3>2
  <2>5. ASSUME NEW j \in 1 .. Len(s) - i PROVE b[j] = s[i + j]
    <3>1. j \in Int /\ j \in 1 .. Len(s) - (i + 1) + 1 BY <2>3
    <3>2. (i + 1) + j - 1 = i + j BY <2>3, <3>1
    <3> QED BY <2>2, <3>1, <3>2
  <2> QED BY <2>2, <2>4, <2>5
<1> HIDE DEF a, b
<1>3. t \in Seq(S) /\ Len(t) = Len(s) - 1 /\ \A j \in 1 .. Len(s) - 1 : t[j] = s[At(j)]
  <2>1. /\ t \in Seq(S) /\ Len(t) = Len(a) + Len(b)
        /\ \A j \in 1 .. Len(a) + Len(b) :
             t[j] = IF j <= Len(a) THEN a[j] ELSE b[j - Len(a)]
    BY <1>1, <1>2, ConcatProperties
  <2> HIDE DEF t
  <2>2. Len(a) + Len(b) = Len(s) - 1 BY <1>0, <1>1, <1>2
  <2>3. ASSUME NEW j \in 1 .. Len(s) - 1 PROVE t[j] = s[At(j)]
    <3>1. CASE j < i BY <1>0, <1>1, <2>1, <2>2, <3>1
    <3>2. CASE ~(j < i)
      <4>1. j - Len(a) \in 1 .. Len(s) - i /\ ~(j <= Len(a)) BY <1>0, <1>1, <3>2
      <4>2. t[j] = b[j - Len(a)] BY <2>1, <2>2, <4>1
      <4>3. i + (j - Len(a)) = j + 1 BY <1>0, <1>1
      <4> QED BY <1>2, <3>2, <4>1, <4>2, <4>3
    <3> QED BY <3>1, <3>2
  <2> QED BY <2>1, <2>2, <2>3
<1> HIDE DEF t
<1>4. DOMAIN t = 1 .. Len(s) - 1 BY <1>3, LenProperties
<1>5. \A j \in DOMAIN t : At(j) \in DOMAIN s /\ At(j) # i BY <1>0, <1>4
<1>6. \A k \in DOMAIN s : k # i => \E j \in DOMAIN t : At(j) = k
  <2> SUFFICES ASSUME NEW k \in DOMAIN s, k # i PROVE \E j \in DOMAIN t : At(j) = k OBVIOUS
  <2>1. CASE k < i BY <1>0, <1>4, <2>1
  <2>2. CASE k > i
    <3>1. k - 1 \in DOMAIN t /\ At(k - 1) = k BY <1>0, <1>4, <2>2
    <3> QED BY <3>1
  <2> QED BY <1>0, <2>1, <2>2
<1>7. \A j, k \in DOMAIN t : At(j) = At(k) => j = k BY <1>0, <1>4
<1>8. i \in DOMAIN s BY <1>0
<1>9. \A j \in DOMAIN t : t[j] = s[At(j)] BY <1>3, <1>4
<1> HIDE DEF At
<1>10. ToSet(t) = ToSet(s) \ {s[i]}
  <2>1. ASSUME NEW j \in DOMAIN t PROVE t[j] \in ToSet(s) \ {s[i]}
    BY <1>5, <1>8, <1>9 DEF ToSet, IsInjective
  <2>2. ASSUME NEW k \in DOMAIN s, s[k] # s[i] PROVE s[k] \in ToSet(t)
    BY <1>6, <1>9, <2>2 DEF ToSet
  <2> QED BY <2>1, <2>2 DEF ToSet
<1>11. IsInjective(t) BY <1>5, <1>7, <1>9 DEF IsInjective
<1> QED BY <1>3, <1>10, <1>11 DEF RemoveAt, t, a, b

\* Two lists without a common member behind each other.
LEMMA JoinedLists ==
    ASSUME NEW S, NEW s \in Seq(S), NEW t \in Seq(S)
    PROVE  /\ s \o t \in Seq(S)
           /\ ToSet(s \o t) = ToSet(s) \cup ToSet(t)
           /\ IsInjective(s) /\ IsInjective(t) /\ ToSet(s) \cap ToSet(t) = {}
                => IsInjective(s \o t)
<1> DEFINE u == s \o t
<1>0. /\ Len(s) \in Nat /\ DOMAIN s = 1 .. Len(s)
      /\ Len(t) \in Nat /\ DOMAIN t = 1 .. Len(t)
  BY LenProperties
<1>1. /\ u \in Seq(S) /\ Len(u) = Len(s) + Len(t)
      /\ \A i \in 1 .. Len(s) + Len(t) : u[i] = IF i <= Len(s) THEN s[i] ELSE t[i - Len(s)]
  BY ConcatProperties
<1> HIDE DEF u
<1>2. DOMAIN u = 1 .. Len(s) + Len(t) BY <1>1, LenProperties
<1>3. \A i \in DOMAIN u : i \in DOMAIN s \/ i - Len(s) \in DOMAIN t BY <1>0, <1>2
<1>4. \A i \in DOMAIN s : i \in DOMAIN u /\ u[i] = s[i] BY <1>0, <1>1, <1>2
<1>5. \A i \in DOMAIN t : i + Len(s) \in DOMAIN u /\ u[i + Len(s)] = t[i]
  <2> SUFFICES ASSUME NEW i \in DOMAIN t
               PROVE  i + Len(s) \in DOMAIN u /\ u[i + Len(s)] = t[i]
    OBVIOUS
  <2>1. i + Len(s) \in 1 .. Len(s) + Len(t) /\ ~(i + Len(s) <= Len(s)) BY <1>0
  <2>2. (i + Len(s)) - Len(s) = i BY <1>0
  <2> QED BY <1>1, <1>2, <2>1, <2>2
<1>6. \A i \in DOMAIN u : i \notin DOMAIN s => u[i] = t[i - Len(s)] BY <1>0, <1>1, <1>2
<1>7. ToSet(u) = ToSet(s) \cup ToSet(t) BY <1>3, <1>4, <1>5, <1>6 DEF ToSet
<1>8. ASSUME IsInjective(s), IsInjective(t), ToSet(s) \cap ToSet(t) = {}
      PROVE  IsInjective(u)
  <2> SUFFICES ASSUME NEW i \in DOMAIN u, NEW j \in DOMAIN u, u[i] = u[j] PROVE i = j
    BY DEF IsInjective
  <2>1. CASE i \in DOMAIN s /\ j \in DOMAIN s BY <1>4, <1>8, <2>1 DEF IsInjective
  <2>2. CASE i \notin DOMAIN s /\ j \notin DOMAIN s
    <3>1. i - Len(s) = j - Len(s) BY <1>3, <1>6, <1>8, <2>2 DEF IsInjective
    <3> QED BY <1>0, <1>2, <3>1
  <2>3. CASE i \in DOMAIN s /\ j \notin DOMAIN s BY <1>3, <1>4, <1>6, <1>8, <2>3 DEF ToSet
  <2>4. CASE i \notin DOMAIN s /\ j \in DOMAIN s BY <1>3, <1>4, <1>6, <1>8, <2>4 DEF ToSet
  <2> QED BY <2>1, <2>2, <2>3, <2>4
<1> QED BY <1>1, <1>7, <1>8 DEF u

\* findIndex and find return a position with the id, and miss none.
LEMMA Found ==
    ASSUME NEW list \in Seq(Requests), NEW r \in Requests
    PROVE  /\ FindIndex(list, r) \in 0 .. Len(list)
           /\ FindIndex(list, r) > 0 => id[list[FindIndex(list, r)]] = id[r]
           /\ r \in ToSet(list) => FindIndex(list, r) > 0
<1> DEFINE I == {i \in 1 .. Len(list) : id[list[i]] = id[r]}
<1>1. FindIndex(list, r) = IF I # {} THEN Min(I) ELSE 0 BY DEF FindIndex, SelectInSeq
<1>2. Len(list) \in Nat /\ I \subseteq Nat BY Members
<1>3. I # {} => Min(I) \in I BY <1>2, MinOfNaturals
<1>4. r \in ToSet(list) => I # {} BY Members
<1> QED BY <1>1, <1>2, <1>3, <1>4

\* All records behind each other: what listAll returns.
LEMMA AllRecords ==
    ASSUME ListsAreDisjoint
    PROVE  LET all == pending \o approved \o rejected IN
            /\ all \in Seq(Requests) /\ IsInjective(all)
            /\ ToSet(all) = {r \in Requests : asked[r] # None}
<1> DEFINE two == pending \o approved
<1>1. /\ two \in Seq(Requests) /\ IsInjective(two)
      /\ ToSet(two) = ToSet(pending) \cup ToSet(approved)
  BY JoinedLists DEF ListsAreDisjoint
<1>2. ToSet(two) \cap ToSet(rejected) = {} BY <1>1 DEF ListsAreDisjoint
<1> HIDE DEF two
<1>3. /\ two \o rejected \in Seq(Requests) /\ IsInjective(two \o rejected)
      /\ ToSet(two \o rejected) = ToSet(two) \cup ToSet(rejected)
  BY <1>1, <1>2, JoinedLists DEF ListsAreDisjoint
<1> QED BY <1>1, <1>3 DEF two, ListsAreDisjoint

\* Sorting finds one of the records it is given.
LEMMA NewestIsOne ==
    ASSUME AccessTypes, NEW list \in Seq(Requests), \A r \in ToSet(list) : asked[r] # None,
           NEW I \in SUBSET (1 .. Len(list)), I # {}
    PROVE  \E i \in I : NewestAt(list, I) = list[i]
<1> DEFINE f == [i \in I |-> asked[list[i]]]
           N == {i \in I : \A j \in I : asked[list[j]] <= asked[list[i]]}
<1>1. f \in [I -> 0 .. MaxClock]
  <2> SUFFICES ASSUME NEW i \in I PROVE asked[list[i]] \in 0 .. MaxClock OBVIOUS
  <2>1. list[i] \in Requests /\ list[i] \in ToSet(list) BY Members
  <2> QED BY <2>1 DEF AccessTypes
<1>2. MaxClock \in Nat BY AccessAssumption DEF AccessAssumption
<1>3. \E x \in I : \A y \in I : f[y] <= f[x]
  <2> HIDE DEF f
  <2> QED BY <1>1, <1>2, SomeIsGreatest
<1>4. N # {} BY <1>3
<1>5. N \subseteq Nat
  <2>1. N \subseteq I OBVIOUS
  <2>2. I \subseteq 1 .. Len(list) /\ Len(list) \in Nat BY Members
  <2> HIDE DEF N
  <2> QED BY <2>1, <2>2
<1>6. Min(N) \in N
  <2> HIDE DEF N
  <2> QED BY <1>4, <1>5, MinOfNaturals
<1> QED BY <1>6 DEF NewestAt

\* getAccessForProduct answers with a request for the product.
LEMMA AccessIsForTheProduct ==
    ASSUME AccessTypes, ListsAreDisjoint, NEW p \in Products, NEW u \in Users,
           AccessForProduct(p, u) \in Requests
    PROVE  For[AccessForProduct(p, u)] = p
<1> DEFINE all == pending \o approved \o rejected
           asking == {i \in DOMAIN all : For[all[i]] = p}
           mine == {i \in asking : By[all[i]] = u}
<1>1. /\ all \in Seq(Requests) /\ DOMAIN all = 1 .. Len(all)
      /\ \A r \in ToSet(all) : asked[r] # None
  BY AllRecords, Members
<1>2. AccessForProduct(p, u) = IF mine # {} THEN NewestAt(all, mine)
                              ELSE IF asking # {} THEN NewestAt(all, asking) ELSE None
  BY DEF AccessForProduct
<1> HIDE DEF all
<1>3. asking \in SUBSET (1 .. Len(all)) /\ mine \in SUBSET (1 .. Len(all)) /\ mine \subseteq asking
  BY <1>1
<1>4. \A i \in asking : For[all[i]] = p OBVIOUS
<1> HIDE DEF asking, mine
<1>5. CASE mine # {} BY <1>1, <1>2, <1>3, <1>4, <1>5, NewestIsOne
<1>6. CASE mine = {} /\ asking # {} BY <1>1, <1>2, <1>3, <1>4, <1>6, NewestIsOne
<1>7. ~(mine = {} /\ asking = {}) BY <1>2, AccessAssumption DEF AccessAssumption
<1> QED BY <1>5, <1>6, <1>7

-----------------------------------------------------------------------------
(* The initial states, and the steps of the deployments *)

LEMMA InitAccess == ASSUME Init PROVE AccessInv
<1> USE DEF Init
<1>1. <<>> \in Seq(Requests) /\ ToSet(<<>>) = {} /\ IsInjective(<<>>)
  BY DEF ToSet, IsInjective
<1>2. AccessTypes BY <1>1, AccessAssumption DEF AccessTypes, AccessAssumption
<1>3. ListsAreDisjoint BY <1>1 DEF ListsAreDisjoint
<1>4. DecisionsKeepTheId BY <1>1 DEF DecisionsKeepTheId
<1>5. GrantsAreRecorded /\ WaitingIsApproved BY <1>1 DEF GrantsAreRecorded, WaitingIsApproved
<1>6. TokensAreEarned /\ PinsAreOfTheProduct BY DEF TokensAreEarned, PinsAreOfTheProduct
<1> QED BY <1>2, <1>3, <1>4, <1>5, <1>6 DEF AccessInv

\* A verdict is final and an overlap stays noted.
LEMMA DeploymentsGoForward ==
    ASSUME IInv, [DeployNext]_deployVars
    PROVE  /\ \A d \in Deploys : verdict[d] # None => verdict'[d] = verdict[d]
           /\ overlapped \subseteq overlapped'
<1>1. CASE UNCHANGED deployVars BY <1>1 DEF deployVars
<1>2. ASSUME NEW d \in Deploys, Finish(d)
      PROVE  /\ \A e \in Deploys : verdict[e] # None => verdict'[e] = verdict[e]
             /\ overlapped \subseteq overlapped'
  <2>1. PICK v \in Verdicts : verdict' = [verdict EXCEPT ![d] = v]
    BY <1>2 DEF Finish, ProofOf, Verdicts
  <2>2. \A e \in Deploys : verdict[e] # None => verdict'[e] = verdict[e]
    BY <1>2, <2>1 DEF Finish, IInv, NamesAreLeft, DeployTypeOK
  <2> QED BY <1>2, <2>2 DEF Finish
<1>3. ASSUME NEW d \in Deploys, Deploy(d), ~Finish(d)
      PROVE  verdict' = verdict /\ overlapped \subseteq overlapped'
  BY <1>3 DEF Deploy, Refuse, RefuseSchema, Begin, PushMachine, AwsFails, RegisterEmbedded,
     RegisterRemote, RegisterFails, ArtifactsThrow, SaveLineage
<1> QED BY <1>1, <1>2, <1>3 DEF DeployNext

LEMMA DeploymentKeeps ==
    ASSUME IInv, AccessInv, [DeployNext]_deployVars, UNCHANGED accessVars PROVE AccessInv'
<1> USE DEF AccessInv, accessVars
<1>1. AccessTypes' /\ ListsAreDisjoint' /\ DecisionsKeepTheId' /\ GrantsAreRecorded'
      /\ WaitingIsApproved'
  BY DEF AccessTypes, ListsAreDisjoint, DecisionsKeepTheId, GrantsAreRecorded, WaitingIsApproved
<1>2. /\ \A d \in Deploys : verdict[d] # None => verdict'[d] = verdict[d]
      /\ overlapped \subseteq overlapped'
  BY DeploymentsGoForward
<1>3. TokensAreEarned'
  <2> SUFFICES ASSUME NEW t \in tokens
               PROVE  /\ \E r \in ToSet(approved) : For[r] = t[1]
                      /\ t[2] \notin Claims =>
                          /\ \E d \in Deploys : PipelineOf[d] = t[1] /\ verdict'[d] = "PASS"
                          /\ t[2] \notin overlapped' => verdict'[t[2]] = "PASS"
    BY DEF TokensAreEarned
  <2>1. t[2] \in Deploys BY DEF AccessTypes
  <2>2. "PASS" # None BY DeployAssumption DEF DeployAssumption
  <2> QED BY <1>2, <2>1, <2>2 DEF TokensAreEarned
<1>4. PinsAreOfTheProduct' BY DEF PinsAreOfTheProduct
<1> QED BY <1>1, <1>2, <1>3, <1>4

\* What a step that decides on nothing keeps of the earned tokens.
LEMMA TokensStay ==
    ASSUME AccessInv, UNCHANGED <<deployVars, tokens>>, ToSet(approved) \subseteq ToSet(approved')
    PROVE  TokensAreEarned' /\ PinsAreOfTheProduct'
BY DEF AccessInv, TokensAreEarned, PinsAreOfTheProduct, deployVars

-----------------------------------------------------------------------------
(* The steps of the consumers and stewards *)

LEMMA RequestAccessKeeps ==
    ASSUME AccessInv, NEW r \in Requests, RequestAccess(r) PROVE AccessInv'
<1> USE AccessAssumption DEF AccessInv, AccessAssumption, RequestAccess
<1>1. clock' \in 0 .. MaxClock /\ clock' # None BY DEF AccessTypes, Now
<1>2. r \notin ToSet(pending) /\ r \notin ToSet(approved) /\ r \notin ToSet(rejected)
  BY DEF ListsAreDisjoint
<1>3. /\ pending' \in Seq(Requests) /\ ToSet(pending') = ToSet(pending) \cup {r}
      /\ IsInjective(pending')
  BY <1>2, AppendedList DEF ListsAreDisjoint
<1>4. /\ asked' \in [Requests -> (0 .. MaxClock) \cup {None}]
      /\ \A q \in Requests : asked'[q] = IF q = r THEN clock' ELSE asked[q]
      /\ id' = asked'
  BY <1>1 DEF AccessTypes
<1>5. AccessTypes' BY <1>1, <1>4 DEF AccessTypes
<1>6. ListsAreDisjoint'
  <2>1. {q \in Requests : asked'[q] # None} = {q \in Requests : asked[q] # None} \cup {r}
    BY <1>1, <1>4
  <2> QED BY <1>2, <1>3, <2>1 DEF ListsAreDisjoint
<1>7. DecisionsKeepTheId'
  <2>1. \A q \in Requests : asked[q] # None => q # r OBVIOUS
  <2>2. \A q \in ToSet(approved) \cup ToSet(rejected) :
          q \in Requests /\ asked[q] # None
    BY DEF ListsAreDisjoint
  <2>3. \A q \in ToSet(approved) \cup ToSet(rejected) : asked'[q] = asked[q]
    BY <1>4, <2>1, <2>2
  <2>4. ASSUME NEW q \in ToSet(approved) \cup ToSet(rejected)
        PROVE  meant'[q] \in Requests /\ asked'[meant'[q]] = asked'[q]
    BY <1>4, <2>1, <2>2, <2>3 DEF DecisionsKeepTheId
  <2>5. ASSUME NEW q \in Requests, grant[q] # None
        PROVE  /\ q \in ToSet(approved) /\ grant[q] \in ToSet(approved)
               /\ asked'[grant[q]] = asked'[q]
    BY <2>3, <2>5 DEF DecisionsKeepTheId
  <2> QED BY <2>4, <2>5 DEF DecisionsKeepTheId
<1>8. GrantsAreRecorded' /\ WaitingIsApproved' BY DEF GrantsAreRecorded, WaitingIsApproved
<1>9. TokensAreEarned' /\ PinsAreOfTheProduct' BY TokensStay
<1> QED BY <1>5, <1>6, <1>7, <1>8, <1>9

\* What approve and reject take out of the pending list.
LEMMA TakenRecord ==
    ASSUME AccessInv, NEW r \in Requests, asked[r] # None, FindIndex(pending, r) > 0
    PROVE  LET i == FindIndex(pending, r)  q == pending[i] IN
            /\ q \in ToSet(pending) /\ q \in Requests /\ asked[q] = asked[r]
            /\ RemoveAt(pending, i) \in Seq(Requests) /\ IsInjective(RemoveAt(pending, i))
            /\ ToSet(RemoveAt(pending, i)) = ToSet(pending) \ {q}
<1> DEFINE i == FindIndex(pending, r)
<1>1. pending \in Seq(Requests) /\ IsInjective(pending) BY DEF AccessInv, ListsAreDisjoint
<1>2. Len(pending) \in Nat BY <1>1, Members
<1>3. i \in 1 .. Len(pending) /\ id[pending[i]] = id[r]
  <2>1. i \in 0 .. Len(pending) /\ i > 0 /\ id[pending[i]] = id[r] BY <1>1, Found
  <2> HIDE DEF i
  <2> QED BY <1>2, <2>1
<1> HIDE DEF i
<1>4. pending[i] \in ToSet(pending) /\ pending[i] \in Requests BY <1>1, <1>3, Members
<1>5. asked[pending[i]] = asked[r] BY <1>3 DEF AccessInv, AccessTypes
<1>6. /\ RemoveAt(pending, i) \in Seq(Requests) /\ IsInjective(RemoveAt(pending, i))
      /\ ToSet(RemoveAt(pending, i)) = ToSet(pending) \ {pending[i]}
  BY <1>1, <1>3, ShortenedList
<1> QED BY <1>4, <1>5, <1>6 DEF i

LEMMA ApproveRequestKeeps ==
    ASSUME AccessInv, NEW r \in Requests, ApproveRequest(r) PROVE AccessInv'
<1> DEFINE q == pending[FindIndex(pending, r)]
<1>1. /\ asked[r] # None /\ FindIndex(pending, r) > 0
      /\ pending' = RemoveAt(pending, FindIndex(pending, r))
      /\ approved' = Append(approved, q)
      /\ granting' = granting \cup {q}
      /\ meant' = [meant EXCEPT ![q] = r]
      /\ UNCHANGED <<deployVars, clock, id, rejected, grant, issuing, tokens, asked>>
  BY DEF ApproveRequest
<1>2. /\ q \in ToSet(pending) /\ q \in Requests /\ asked[q] = asked[r]
      /\ pending' \in Seq(Requests) /\ IsInjective(pending')
      /\ ToSet(pending') = ToSet(pending) \ {q}
  BY <1>1, TakenRecord
<1> HIDE DEF q
<1> USE DEF AccessInv
<1>3. q \notin ToSet(approved) /\ q \notin ToSet(rejected) BY <1>2 DEF ListsAreDisjoint
<1>4. /\ approved' \in Seq(Requests) /\ IsInjective(approved')
      /\ ToSet(approved') = ToSet(approved) \cup {q}
  BY <1>1, <1>2, <1>3, AppendedList DEF ListsAreDisjoint
<1>5. AccessTypes' BY <1>1, <1>2, <1>4 DEF AccessTypes
<1>6. ListsAreDisjoint' BY <1>1, <1>2, <1>3, <1>4 DEF ListsAreDisjoint
<1>7. DecisionsKeepTheId'
  BY <1>1, <1>2, <1>3, <1>4 DEF DecisionsKeepTheId, AccessTypes
<1>8. GrantsAreRecorded' BY <1>1, <1>4 DEF GrantsAreRecorded
<1>9. WaitingIsApproved' BY <1>1, <1>4 DEF WaitingIsApproved
<1>10. TokensAreEarned' /\ PinsAreOfTheProduct' BY <1>1, <1>4, TokensStay
<1> QED BY <1>5, <1>6, <1>7, <1>8, <1>9, <1>10

LEMMA RejectRequestKeeps ==
    ASSUME AccessInv, NEW r \in Requests, RejectRequest(r) PROVE AccessInv'
<1> DEFINE q == pending[FindIndex(pending, r)]
<1>1. /\ asked[r] # None /\ FindIndex(pending, r) > 0
      /\ pending' = RemoveAt(pending, FindIndex(pending, r))
      /\ rejected' = Append(rejected, q)
      /\ meant' = [meant EXCEPT ![q] = r]
      /\ UNCHANGED <<deployVars, clock, id, approved, granting, grant, issuing, tokens, asked>>
  BY DEF RejectRequest
<1>2. /\ q \in ToSet(pending) /\ q \in Requests /\ asked[q] = asked[r]
      /\ pending' \in Seq(Requests) /\ IsInjective(pending')
      /\ ToSet(pending') = ToSet(pending) \ {q}
  BY <1>1, TakenRecord
<1> HIDE DEF q
<1> USE DEF AccessInv
<1>3. q \notin ToSet(approved) /\ q \notin ToSet(rejected) BY <1>2 DEF ListsAreDisjoint
<1>4. /\ rejected' \in Seq(Requests) /\ IsInjective(rejected')
      /\ ToSet(rejected') = ToSet(rejected) \cup {q}
  BY <1>1, <1>2, <1>3, AppendedList DEF ListsAreDisjoint
<1>5. AccessTypes' BY <1>1, <1>2 DEF AccessTypes
<1>6. ListsAreDisjoint' BY <1>1, <1>2, <1>3, <1>4 DEF ListsAreDisjoint
<1>7. DecisionsKeepTheId'
  BY <1>1, <1>2, <1>3, <1>4 DEF DecisionsKeepTheId, AccessTypes
<1>8. GrantsAreRecorded' BY <1>1 DEF GrantsAreRecorded
<1>9. WaitingIsApproved' BY <1>1 DEF WaitingIsApproved
<1>10. TokensAreEarned' /\ PinsAreOfTheProduct' BY <1>1, TokensStay
<1> QED BY <1>5, <1>6, <1>7, <1>8, <1>9, <1>10

LEMMA GrantKeeps ==
    ASSUME AccessInv, NEW q \in Requests, Grant(q) PROVE AccessInv'
<1> DEFINE a == approved[FindIndex(approved, q)]
<1>1. /\ q \in granting
      /\ grant' = [grant EXCEPT ![a] = q, ![q] = q]
      /\ granting' = granting \ {q}
      /\ UNCHANGED <<deployVars, clock, id, pending, approved, rejected, issuing, tokens,
                     asked, meant>>
  BY DEF Grant
<1> USE DEF AccessInv
<1>2. q \in ToSet(approved) /\ approved \in Seq(Requests) BY <1>1 DEF AccessTypes, ListsAreDisjoint
<1>3. a \in ToSet(approved) /\ a \in Requests /\ asked[a] = asked[q]
  <2> DEFINE i == FindIndex(approved, q)
  <2>1. i \in 0 .. Len(approved) /\ i > 0 /\ id[approved[i]] = id[q] BY <1>2, Found
  <2> HIDE DEF i
  <2>2. i \in 1 .. Len(approved) BY <1>2, <2>1, Members
  <2>3. approved[i] \in ToSet(approved) /\ approved[i] \in Requests BY <1>2, <2>2, Members
  <2>4. asked[approved[i]] = asked[q] BY <2>1 DEF AccessTypes
  <2> QED BY <2>3, <2>4 DEF i
<1> HIDE DEF a
<1>4. /\ grant' \in [Requests -> Requests \cup {None}]
      /\ \A r \in Requests : grant'[r] = IF r = q \/ r = a THEN q ELSE grant[r]
  BY <1>1, <1>3 DEF AccessTypes
<1>5. AccessTypes' BY <1>1, <1>4 DEF AccessTypes
<1>6. ListsAreDisjoint' BY <1>1 DEF ListsAreDisjoint
<1>7. DecisionsKeepTheId' BY <1>1, <1>2, <1>3, <1>4 DEF DecisionsKeepTheId
<1>8. GrantsAreRecorded'
  BY <1>1, <1>2, <1>4, Members, AccessAssumption DEF GrantsAreRecorded, AccessAssumption
<1>9. WaitingIsApproved' BY <1>1 DEF WaitingIsApproved
<1>10. TokensAreEarned' /\ PinsAreOfTheProduct' BY <1>1, TokensStay
<1> QED BY <1>5, <1>6, <1>7, <1>8, <1>9, <1>10

LEMMA StartIssueKeeps ==
    ASSUME AccessInv, NEW u \in Users, NEW p \in Products, StartIssue(u, p) PROVE AccessInv'
<1> USE DEF AccessInv, StartIssue
<1>1. AccessTypes' BY DEF AccessTypes
<1>2. ListsAreDisjoint' BY DEF ListsAreDisjoint
<1>3. DecisionsKeepTheId' /\ GrantsAreRecorded' BY DEF DecisionsKeepTheId, GrantsAreRecorded
<1>4. WaitingIsApproved'
  <2>1. AccessForProduct(p, u) \in Requests BY Members DEF ListsAreDisjoint
  <2>2. For[AccessForProduct(p, u)] = p BY <2>1, AccessIsForTheProduct
  <2> QED BY <2>2 DEF WaitingIsApproved
<1>5. TokensAreEarned' /\ PinsAreOfTheProduct' BY TokensStay
<1> QED BY <1>1, <1>2, <1>3, <1>4, <1>5

\* A product that is found has a manifest; PASS is the verdict of a proof or in its tags.
LEMMA PassIsProvenOrClaimed ==
    ASSUME IInv, NEW p \in Products, HasProduct(p), SaysPass(p)
    PROVE  /\ ManifestOf(p) \in Deploys
           /\ p \in Pipelines => PipelineOf[ManifestOf(p)] = p
           /\ ManifestOf(p) \notin Claims =>
               /\ \E d \in Deploys : PipelineOf[d] = p /\ verdict[d] = "PASS"
               /\ ManifestOf(p) \notin overlapped => verdict[ManifestOf(p)] = "PASS"
<1>1. CASE p \in Deploys
  BY <1>1, AccessAssumption DEF HasProduct, SaysPass, ManifestOf, AccessAssumption
<1>2. CASE p \notin Deploys
  <2>1. p \in Pipelines /\ ManifestOf(p) = embedded[p].manifest BY <1>2 DEF Products, ManifestOf
  <2>2. embedded[p].manifest \in Deploys
    BY <1>2, <2>1 DEF HasProduct, IInv, DeployTypeOK, Record
  <2>3. ASSUME ManifestOf(p) \notin Claims PROVE embedded[p].trust = "PASS"
    BY <1>2, <2>1, <2>3 DEF SaysPass
  <2>4. "PASS" # None /\ embedded[p].manifest # None
    BY <2>2, DeployAssumption DEF DeployAssumption
  <2>5. ASSUME embedded[p].trust = "PASS"
        PROVE  /\ \E d \in Deploys : PipelineOf[d] = p /\ verdict[d] = "PASS"
               /\ embedded[p].manifest \notin overlapped
                    => verdict[embedded[p].manifest] = "PASS"
    BY <2>1, <2>4, <2>5 DEF IInv, TrustIsOfTheManifest
  <2>6. PipelineOf[ManifestOf(p)] = p BY <2>1, <2>4 DEF IInv, NamesAreLeft
  <2> QED BY <2>1, <2>2, <2>3, <2>5, <2>6
<1> QED BY <1>1, <1>2

LEMMA MintKeeps ==
    ASSUME IInv, AccessInv, NEW p \in Products, Mint(p) PROVE AccessInv'
<1>1. /\ p \in issuing /\ HasProduct(p) /\ SaysPass(p)
      /\ tokens' = tokens \cup {<<p, ManifestOf(p)>>}
      /\ issuing' = issuing \ {p}
      /\ UNCHANGED <<deployVars, clock, id, pending, approved, rejected, granting, grant,
                     asked, meant>>
  BY DEF Mint
<1> USE DEF AccessInv
<1>2. /\ ManifestOf(p) \in Deploys
      /\ p \in Pipelines => PipelineOf[ManifestOf(p)] = p
      /\ ManifestOf(p) \notin Claims =>
          /\ \E d \in Deploys : PipelineOf[d] = p /\ verdict[d] = "PASS"
          /\ ManifestOf(p) \notin overlapped => verdict[ManifestOf(p)] = "PASS"
  BY <1>1, PassIsProvenOrClaimed
<1>3. AccessTypes' BY <1>1, <1>2 DEF AccessTypes
<1>4. ListsAreDisjoint' BY <1>1 DEF ListsAreDisjoint
<1>5. DecisionsKeepTheId' /\ GrantsAreRecorded'
  BY <1>1 DEF DecisionsKeepTheId, GrantsAreRecorded
<1>6. WaitingIsApproved' BY <1>1 DEF WaitingIsApproved
<1>7. \E r \in ToSet(approved) : For[r] = p BY <1>1 DEF WaitingIsApproved
<1>8. TokensAreEarned' BY <1>1, <1>2, <1>7 DEF TokensAreEarned, deployVars
<1>9. PinsAreOfTheProduct' BY <1>1, <1>2 DEF PinsAreOfTheProduct
<1> QED BY <1>3, <1>4, <1>5, <1>6, <1>8, <1>9

LEMMA IssueRefusedKeeps ==
    ASSUME AccessInv, NEW p \in Products, IssueRefused(p) PROVE AccessInv'
<1> USE DEF AccessInv, IssueRefused
<1>1. AccessTypes' BY DEF AccessTypes
<1>2. ListsAreDisjoint' BY DEF ListsAreDisjoint
<1>3. DecisionsKeepTheId' /\ GrantsAreRecorded' BY DEF DecisionsKeepTheId, GrantsAreRecorded
<1>4. WaitingIsApproved' BY DEF WaitingIsApproved
<1>5. TokensAreEarned' /\ PinsAreOfTheProduct' BY TokensStay
<1> QED BY <1>1, <1>2, <1>3, <1>4, <1>5

-----------------------------------------------------------------------------
(* Theorems *)

\* The consumers and stewards leave the deployments alone: every run is a run of
\* DeployPipeline, so what DeployPipelineProofs shows of deployPipeline holds beside
\* access requests and tokens (no route of theirs writes to a store of a deployment).
THEOREM DeploymentsUndisturbed == Spec => DeploySpec
<1>1. Init => DeployInit BY DEF Init
<1>2. [Next]_vars => [DeployNext]_deployVars
  BY DEF Next, vars, RequestAccess, ApproveRequest, RejectRequest, Grant, StartIssue, Mint,
     IssueRefused
<1> QED BY <1>1, <1>2, PTL DEF Spec, DeploySpec

LEMMA StepAccess == ASSUME IInv, AccessInv, [Next]_vars PROVE AccessInv'
<1>1. CASE UNCHANGED vars BY <1>1, DeploymentKeeps DEF vars
<1>2. CASE DeployNext /\ UNCHANGED accessVars BY <1>2, DeploymentKeeps
<1>3. ASSUME NEW r \in Requests,
             RequestAccess(r) \/ ApproveRequest(r) \/ RejectRequest(r) \/ Grant(r)
      PROVE  AccessInv'
  BY <1>3, RequestAccessKeeps, ApproveRequestKeeps, RejectRequestKeeps, GrantKeeps
<1>4. ASSUME NEW p \in Products,
             (\E u \in Users : StartIssue(u, p)) \/ Mint(p) \/ IssueRefused(p)
      PROVE  AccessInv'
  BY <1>4, StartIssueKeeps, MintKeeps, IssueRefusedKeeps
<1> QED BY <1>1, <1>2, <1>3, <1>4 DEF Next

\* The invariant holds in every state of every instance.
THEOREM AccessAlways == Spec => [](IInv /\ AccessInv)
<1>1. Init => AccessInv BY InitAccess
<1>2. IInv /\ AccessInv /\ [Next]_vars => AccessInv' BY StepAccess
<1> QED BY <1>1, <1>2, DeploymentsUndisturbed, DeployInvariant, PTL DEF Spec

\* Type correctness: also no record is lost between the three lists or in two of them
\* (approveRequest and rejectRequest splice and push).
THEOREM AccessTypeCorrect == Spec => []TypeOK
<1>1. IInv /\ AccessInv => TypeOK
  <2> SUFFICES ASSUME IInv, AccessInv PROVE TypeOK OBVIOUS
  <2>1. LET all == pending \o approved \o rejected IN
            IsInjective(all) /\ ToSet(all) = {r \in Requests : asked[r] # None}
    BY AllRecords DEF AccessInv
  <2> QED BY <2>1 DEF TypeOK, AccessInv, AccessTypes, IInv
<1> QED BY <1>1, AccessAlways, PTL

\* A grant whose route is done is in the approved record it was made for.
THEOREM GrantsRecorded == Spec => []GrantsAreRecorded
<1>1. AccessInv => GrantsAreRecorded BY DEF AccessInv
<1> QED BY <1>1, AccessAlways, PTL

\* Decision and grant reach the chosen request, if no other has its millisecond.
THEOREM DecisionsReach == Spec => []DecisionsReachTheirRequest
<1>1. AccessInv => DecisionsReachTheirRequest
  <2> SUFFICES ASSUME AccessInv, NEW r \in ToSet(approved \o rejected),
                      \A q \in Requests \ {r} : asked[q] # asked[r]
               PROVE  meant[r] = r /\ grant[r] \in {None, r}
    BY DEF DecisionsReachTheirRequest
  <2>1. r \in ToSet(approved) \cup ToSet(rejected) /\ r \in Requests
    BY JoinedLists, Members DEF AccessInv, ListsAreDisjoint
  <2> QED BY <2>1 DEF AccessInv, AccessTypes, DecisionsKeepTheId
<1> QED BY <1>1, AccessAlways, PTL

\* A token rests on an approval and, unless the tags of the contract it pins say PASS,
\* on a proof of a deployment, of the very manifest it pins if that overlapped no other
\* (issueSubscriptionToken, enrichProduct).
THEOREM TokensEarned == Spec => []TokensAreEarned
<1>1. AccessInv => TokensAreEarned BY DEF AccessInv
<1> QED BY <1>1, AccessAlways, PTL

\* Without such tags every token rests on a proof of the pipeline of its manifest: the
\* tags are the only way around (enrichProduct); run claimed has a contract with them.
THEOREM UnclaimedTokensAreProven == ASSUME Claims = {} PROVE Spec => []TokensAreProven
<1>1. IInv /\ AccessInv => TokensAreProven
  <2> SUFFICES ASSUME AccessInv, NEW t \in tokens
               PROVE  \E d \in Deploys :
                        PipelineOf[d] = PipelineOf[t[2]] /\ verdict[d] = "PASS"
    BY DEF TokensAreProven
  <2>1. PICK d \in Deploys : PipelineOf[d] = t[1] /\ verdict[d] = "PASS"
    BY DEF AccessInv, TokensAreEarned
  <2>2. t[1] \in Pipelines BY <2>1, DeployAssumption DEF DeployAssumption
  <2> QED BY <2>1, <2>2 DEF AccessInv, PinsAreOfTheProduct
<1> QED BY <1>1, AccessAlways, PTL
=============================================================================
