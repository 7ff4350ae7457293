------------------------- MODULE DeployApprovalProofs -------------------------
(***************************************************************************)
(* What the platform stores and the approvals in them keep, for any number *)
(* of deployments, of puts on their way and of deaths of the gateway.      *)
(* StoreInv is about one store: its newest put holds what the process      *)
(* works on.  ListInv, DeployInv and VersionInv are about what the routes  *)
(* write, wherever a copy of it is.                                        *)
(***************************************************************************)
EXTENDS DeployApproval, TLAPS

\* Of a store that is not disturbed the newest put, or what is stored, is live.
Settled(k) ==
    /\ \A p, q \in puts[k] : p.n = q.n => p = q
    /\ \A p \in puts[k] : p.n < issued[k]
    /\ mode = "file" => puts[k] = {}
    /\ k \notin disturbed =>
        /\ k \notin lost
        /\ puts[k] = {} => Load(k) = live[k]
        /\ puts[k] # {} => \E p \in puts[k] : p.n = issued[k] - 1 /\ p.body = live[k]

StoreInv == \A k \in Stores : Settled(k)

LEMMA StoresDiffer == Approvals # Runs /\ Approvals # Versions /\ Runs # Versions
BY DEF Approvals, Runs, Versions

\* What is left of a file is the new text, the old one, or none that can be read.
LEMMA FilesAfterType ==
    ASSUME StoreTypeOK, NEW k \in Stores, NEW body \in Body(k), NEW f \in FilesAfter(k, body)
    PROVE  /\ DOMAIN f = Stores
           /\ \A j \in Stores : f[j] \in Body(j) \cup {None}
           /\ \A j \in Stores \ {k} : f[j] = file[j]
           /\ f[k] \in {body, file[k], None}
BY DEF StoreTypeOK, FilesAfter

\* A write is not made, becomes a put, or goes to the file.
LEMMA WriteCases ==
    ASSUME StoreTypeOK, NEW k \in Stores, NEW body \in Body(k), WriteStore(k, body)
    PROVE  /\ live' = [live EXCEPT ![k] = body]
           /\ UNCHANGED <<mode, off, table, lost>>
           /\ \/ disturbed' = disturbed \cup {k} /\ UNCHANGED <<puts, issued, file>>
              \/ /\ mode = "dynamodb"
                 /\ puts' = [puts EXCEPT ![k] =
                       @ \cup {[n |-> issued[k], body |-> body, mine |-> TRUE]}]
                 /\ issued' = [issued EXCEPT ![k] = @ + 1]
                 /\ UNCHANGED <<file, disturbed>>
              \/ /\ mode = "file" /\ file' \in FilesAfter(k, body)
                 /\ disturbed' = IF file'[k] = body THEN disturbed ELSE disturbed \cup {k}
                 /\ UNCHANGED <<puts, issued>>
BY DEF WriteStore

LEMMA WriteTypes ==
    ASSUME StoreTypeOK, NEW k \in Stores, NEW body \in Body(k), WriteStore(k, body)
    PROVE  StoreTypeOK'
<1> USE DEF StoreTypeOK
<1>0. live' = [live EXCEPT ![k] = body] /\ UNCHANGED <<mode, off, table, lost>>
  BY WriteCases
<1>1. CASE mode = "dynamodb" /\ UNCHANGED <<file, disturbed>>
           /\ puts' = [puts EXCEPT ![k] =
                 @ \cup {[n |-> issued[k], body |-> body, mine |-> TRUE]}]
           /\ issued' = [issued EXCEPT ![k] = @ + 1]
  <2>1. DOMAIN live' = Stores /\ DOMAIN file' = Stores /\ DOMAIN table' = Stores
        /\ DOMAIN puts' = Stores
    BY <1>0, <1>1
  <2>2. ASSUME NEW j \in Stores
        PROVE  /\ live'[j] \in Body(j)
               /\ file'[j] \in Body(j) \cup {None}
               /\ table'[j] \in Body(j) \cup {None}
    BY <1>0, <1>1
  <2>3. ASSUME NEW j \in Stores, NEW p \in puts'[j] PROVE p \in Put(j)
    <3>1. CASE j # k BY <1>1, <2>3, <3>1
    <3>2. CASE j = k
      <4>1. p \in puts[k] \/ p = [n |-> issued[k], body |-> body, mine |-> TRUE]
        BY <1>1, <2>3, <3>2
      <4>2. [n |-> issued[k], body |-> body, mine |-> TRUE] \in Put(k) BY DEF Put
      <4> QED BY <3>2, <4>1, <4>2
    <3> QED BY <3>1, <3>2
  <2>4. issued' \in [Stores -> Nat] BY <1>1
  <2> QED BY <1>0, <1>1, <2>1, <2>2, <2>3, <2>4
<1>2. CASE disturbed' = disturbed \cup {k} /\ UNCHANGED <<puts, issued, file>>
  BY <1>0, <1>2
<1>3. CASE /\ file' \in FilesAfter(k, body) /\ UNCHANGED <<puts, issued>>
           /\ disturbed' = IF file'[k] = body THEN disturbed ELSE disturbed \cup {k}
  <2>1. DOMAIN file' = Stores /\ \A j \in Stores : file'[j] \in Body(j) \cup {None}
    BY <1>3, FilesAfterType
  <2>2. disturbed' \subseteq Stores BY <1>3
  <2> QED BY <1>0, <1>3, <2>1, <2>2
<1> QED BY <1>1, <1>2, <1>3, WriteCases

LEMMA WriteKeeps ==
    ASSUME StoreTypeOK, StoreInv, NEW k \in Stores, NEW body \in Body(k), WriteStore(k, body)
    PROVE  StoreInv'
<1> USE DEF StoreTypeOK
<1>0. body # None BY NoneAssumption
<1>c. live' = [live EXCEPT ![k] = body] /\ UNCHANGED <<mode, off, table, lost>>
  BY WriteCases
<1> SUFFICES ASSUME NEW j \in Stores PROVE Settled(j)' BY DEF StoreInv
<1>1. CASE j # k
  <2>1. live'[j] = live[j] /\ puts'[j] = puts[j] /\ issued'[j] = issued[j]
    BY <1>1, <1>c, WriteCases
  <2>2. file'[j] = file[j] BY <1>1, FilesAfterType, WriteCases
  <2>3. j \in disturbed' <=> j \in disturbed BY <1>1, WriteCases
  <2> QED BY <1>c, <2>1, <2>2, <2>3 DEF StoreInv, Settled, Load
<1>2. CASE /\ j = k /\ mode = "dynamodb" /\ UNCHANGED <<file, disturbed>>
           /\ puts' = [puts EXCEPT ![k] =
                 @ \cup {[n |-> issued[k], body |-> body, mine |-> TRUE]}]
           /\ issued' = [issued EXCEPT ![k] = @ + 1]
  <2> DEFINE new == [n |-> issued[k], body |-> body, mine |-> TRUE]
  <2>1. puts'[j] = puts[k] \cup {new} /\ issued'[j] = issued[k] + 1 /\ live'[j] = body
    BY <1>2, <1>c
  <2>2. \A p \in puts[k] : p.n \in Nat /\ p.n < issued[k] BY DEF StoreInv, Settled, Put
  <2>3. issued[k] \in Nat OBVIOUS
  <2>4. new.n = issued[k] /\ new.body = body OBVIOUS
  <2> HIDE DEF new
  <2>5. \A p, q \in puts'[j] : p.n = q.n => p = q BY <2>1, <2>2, <2>3, <2>4 DEF StoreInv, Settled
  <2>6. \A p \in puts'[j] : p.n < issued'[j] BY <2>1, <2>2, <2>3, <2>4
  <2>7. \E p \in puts'[j] : p.n = issued'[j] - 1 /\ p.body = live'[j]
    BY <2>1, <2>3, <2>4
  <2> QED BY <1>2, <1>c, <2>1, <2>5, <2>6, <2>7
    DEF StoreInv, Settled
<1>3. CASE j = k /\ disturbed' = disturbed \cup {k} /\ UNCHANGED <<puts, issued, file>>
  BY <1>3, <1>c DEF StoreInv, Settled
<1>4. CASE /\ j = k /\ mode = "file" /\ file' \in FilesAfter(k, body)
           /\ disturbed' = IF file'[k] = body THEN disturbed ELSE disturbed \cup {k}
           /\ UNCHANGED <<puts, issued>>
  <2>1. puts[k] = {} BY <1>4 DEF StoreInv, Settled
  <2>2. k \notin disturbed' => file'[k] = body /\ k \notin disturbed BY <1>4
  <2>3. live'[k] = body BY <1>c
  <2> QED BY <1>0, <1>4, <1>c, <2>1, <2>2, <2>3 DEF StoreInv, Settled, Load
<1> QED BY <1>1, <1>2, <1>3, <1>4, WriteCases

LEMMA PutDoneKeeps ==
    ASSUME StoreTypeOK, StoreInv, NEW k \in Stores, NEW p \in puts[k], PutDone(k, p)
    PROVE  StoreTypeOK' /\ StoreInv'
<1> USE DEF StoreTypeOK, PutDone
<1>1. p \in Put(k) /\ p.body \in Body(k) /\ p.n \in Nat BY DEF Put
<1>2. StoreTypeOK' BY <1>1
<1>3. mode = "dynamodb" BY DEF StoreInv, Settled
<1>4. p.body # None BY <1>1, NoneAssumption
<1>5. ASSUME NEW j \in Stores PROVE Settled(j)'
  <2>1. CASE j # k BY <1>3, <2>1 DEF StoreInv, Settled, Load
  <2>2. CASE j = k
    <3>1. puts'[k] = puts[k] \ {p} /\ table'[k] = p.body /\ issued'[k] = issued[k]
          /\ live'[k] = live[k]
      OBVIOUS
    <3>2. ASSUME k \notin disturbed'
          PROVE  /\ k \notin lost'
                 /\ puts'[k] = {} => Load(k)' = live'[k]
                 /\ puts'[k] # {} =>
                     \E q \in puts'[k] : q.n = issued'[k] - 1 /\ q.body = live'[k]
      <4>1. k \notin disturbed /\ \A q \in puts[k] : ~ q.n < p.n BY <3>2
      <4>2. PICK q \in puts[k] : q.n = issued[k] - 1 /\ q.body = live[k]
        BY <4>1 DEF StoreInv, Settled
      <4>3. \A r \in puts[k] : r.n \in Nat /\ r.n < issued[k] BY DEF StoreInv, Settled, Put
      <4>4. ASSUME q = p PROVE puts'[k] = {}
        <5> SUFFICES ASSUME NEW r \in puts'[k] PROVE FALSE OBVIOUS
        <5>1. r \in puts[k] /\ r # p BY <3>1
        <5>2. r.n # p.n BY <5>1 DEF StoreInv, Settled
        <5>3. issued[k] \in Nat OBVIOUS
        <5>4. r.n < p.n BY <4>2, <4>3, <4>4, <5>1, <5>2, <5>3
        <5> QED BY <4>1, <5>1, <5>4
      <4>5. CASE q = p
        <5>1. Load(k)' = p.body BY <1>3, <1>4, <3>1 DEF Load
        <5> QED BY <3>1, <4>1, <4>2, <4>4, <4>5, <5>1 DEF StoreInv, Settled
      <4>6. CASE q # p BY <3>1, <4>1, <4>2, <4>6 DEF StoreInv, Settled
      <4> QED BY <4>5, <4>6
    <3>3. /\ \A q, r \in puts'[k] : q.n = r.n => q = r
          /\ \A q \in puts'[k] : q.n < issued'[k]
          /\ mode' # "file"
      BY <1>3, <3>1 DEF StoreInv, Settled
    <3> QED BY <2>2, <3>2, <3>3 DEF Settled
  <2> QED BY <2>1, <2>2
<1> QED BY <1>2, <1>5 DEF StoreInv

LEMMA PutFailsKeeps ==
    ASSUME StoreTypeOK, StoreInv, NEW k \in Stores, NEW p \in puts[k], PutFails(k, p)
    PROVE  StoreTypeOK' /\ StoreInv'
<1> USE DEF StoreTypeOK, PutFails
<1>1. p.body \in Body(k) BY DEF Put
<1>2. NowIn(k, p.body) \in Body(k) BY <1>1 DEF NowIn, Body
<1>6. /\ DOMAIN file' = Stores /\ \A j \in Stores : file'[j] \in Body(j) \cup {None}
      /\ \A j \in Stores \ {k} : file'[j] = file[j]
  BY <1>2, FilesAfterType
<1>3. StoreTypeOK'
  <2>1. UNCHANGED <<mode, off, live, table, issued, lost>> /\ disturbed' \subseteq Stores
    OBVIOUS
  <2>2. DOMAIN puts' = Stores /\ \A j \in Stores : puts'[j] \subseteq puts[j]
    OBVIOUS
  <2>3. \A j \in Stores : \A q \in puts'[j] : q \in Put(j)
    BY <2>2
  <2> QED BY <1>6, <2>1, <2>2, <2>3
<1>4. mode = "dynamodb" BY DEF StoreInv, Settled
<1>5. ASSUME NEW j \in Stores PROVE Settled(j)'
  <2>1. CASE j # k
    <3>1. file'[j] = file[j] /\ puts'[j] = puts[j] /\ (j \in disturbed' <=> j \in disturbed)
      BY <1>6, <2>1
    <3> QED BY <1>4, <3>1 DEF StoreInv, Settled, Load
  <2>2. CASE j = k BY <1>4, <2>2 DEF StoreInv, Settled
  <2> QED BY <2>1, <2>2
<1> QED BY <1>3, <1>5 DEF StoreInv

LEMMA StopKeeps ==
    ASSUME StoreTypeOK, StoreInv, StopProcess
    PROVE  StoreTypeOK' /\ StoreInv'
<1> USE DEF StoreTypeOK, StopProcess
<1>1. ASSUME NEW j \in Stores, NEW p \in puts[j]
      PROVE  [p EXCEPT !.mine = FALSE] \in
                {r \in Put(j) : r.n = p.n /\ r.body = p.body}
  BY DEF Put
<1>2. ASSUME NEW j \in Stores, NEW p \in puts'[j]
      PROVE  p \in Put(j) /\ \E q \in puts[j] :
                q \in Put(j) /\ p = [q EXCEPT !.mine = FALSE] /\ p.n = q.n /\ p.body = q.body
  BY <1>1
<1>3. StoreTypeOK' BY <1>2
<1>4. ASSUME NEW j \in Stores PROVE Settled(j)'
  <2>1. ASSUME NEW p \in puts'[j], NEW q \in puts'[j], p.n = q.n PROVE p = q
    <3>1. PICK r \in puts[j] : p = [r EXCEPT !.mine = FALSE] /\ p.n = r.n BY <1>2
    <3>2. PICK s \in puts[j] : q = [s EXCEPT !.mine = FALSE] /\ q.n = s.n BY <1>2
    <3>3. r = s BY <2>1, <3>1, <3>2 DEF StoreInv, Settled
    <3> QED BY <3>1, <3>2, <3>3
  <2>2. \A p \in puts'[j] : p.n < issued'[j] BY <1>2 DEF StoreInv, Settled
  <2>3. ASSUME NEW q \in puts[j]
        PROVE \E p \in puts'[j] : p.n = q.n /\ p.body = q.body
    BY <1>1
  <2>4. puts'[j] = {} <=> puts[j] = {} BY <1>2, <2>3
  <2>5. Load(j)' = Load(j) /\ live'[j] = live[j] /\ issued'[j] = issued[j] BY DEF Load
  <2>6. mode' = mode /\ disturbed' = disturbed /\ lost' = lost OBVIOUS
  <2>7. ASSUME puts[j] # {}, j \notin disturbed
        PROVE  \E p \in puts'[j] : p.n = issued'[j] - 1 /\ p.body = live'[j]
    <3>1. PICK q \in puts[j] : q.n = issued[j] - 1 /\ q.body = live[j]
      BY <2>7 DEF StoreInv, Settled
    <3>2. PICK p \in puts'[j] : p.n = q.n /\ p.body = q.body BY <2>3
    <3> QED BY <2>5, <3>1, <3>2
  <2> QED BY <2>1, <2>2, <2>4, <2>5, <2>6, <2>7 DEF StoreInv, Settled
<1> QED BY <1>3, <1>4 DEF StoreInv

LEMMA LoadType == ASSUME StoreTypeOK, NEW k \in Stores PROVE Load(k) \in Body(k)
BY DEF StoreTypeOK, Load, Fallback, Body

LEMMA BootstrapKeeps ==
    ASSUME StoreTypeOK, StoreInv, Bootstrap
    PROVE  StoreTypeOK' /\ StoreInv'
<1> USE DEF StoreTypeOK, Bootstrap
<1>1. StoreTypeOK' BY LoadType
<1>2. ASSUME NEW j \in Stores PROVE Settled(j)'
  BY DEF StoreInv, Settled, Load
<1> QED BY <1>1, <1>2 DEF StoreInv

-----------------------------------------------------------------------------
(* What the routes write *)

Absent(i, a) == i \notin a.pending \cup a.approved \cup a.rejected

\* No copy of the approvals holds a deployment twice, or one not asked for; a put of
\* this process has decided nothing that is pending now.
ListInv ==
    /\ OneDecision
    /\ \A i \in Ids : pc[i] = "new" =>
        /\ Absent(i, live[Approvals])
        /\ file[Approvals] # None => Absent(i, file[Approvals])
        /\ table[Approvals] # None => Absent(i, table[Approvals])
        /\ \A p \in puts[Approvals] : Absent(i, p.body)
    /\ \A p \in puts[Approvals] : p.mine =>
        /\ up
        /\ live[Approvals].pending \cap (p.body.approved \cup p.body.rejected) = {}

\* While no approval is lost, what waits or was rejected has not been deployed.
DeployInv ==
    Approvals \notin lost =>
        \A i \in Ids :
            /\ deployed[i] <= 1
            /\ pc[i] \in {"new", "queued", "deploying"} => deployed[i] = 0
            /\ i \in live[Approvals].pending => pc[i] = "queued"
            /\ i \in live[Approvals].rejected => pc[i] = "done" /\ deployed[i] = 0

Cleared(i) == i \in direct \/ i \in live[Approvals].approved

Backed(versions) == \A i \in versions : i \in live[Runs] /\ Cleared(i)

\* While approvals and runs are there, every copy of the versions is accounted for.
VersionInv ==
    Approvals \notin lost /\ Runs \notin lost =>
        /\ \A i \in Ids :
            /\ pc[i] \in {"deploying", "deployed", "ok"} => Cleared(i)
            /\ pc[i] = "ok" => i \in live[Runs]
        /\ Backed(live[Versions])
        /\ file[Versions] # None => Backed(file[Versions])
        /\ table[Versions] # None => Backed(table[Versions])
        /\ \A p \in puts[Versions] : Backed(p.body)

IInv == TypeOK /\ StoreInv /\ ListInv /\ DeployInv /\ VersionInv

LEMMA InitIInv == ASSUME Init PROVE IInv
<1> USE DEF Init, StoreInit
<1>0. \A k \in Stores : Fallback(k) \in Body(k) BY DEF Fallback, Body
<1>1. TypeOK
  <2>1. StoreTypeOK BY <1>0 DEF StoreTypeOK
  <2> QED BY <2>1, RestartsAssumption DEF TypeOK
<1>2. StoreInv BY DEF StoreInv, Settled, Load
<1>3. ListInv BY StoresDiffer DEF ListInv, OneDecision, OnOneList, Absent, Fallback, Stores
<1>4. DeployInv BY StoresDiffer DEF DeployInv, Fallback, Stores
<1>5. VersionInv BY StoresDiffer DEF VersionInv, Backed, Fallback, Stores
<1> QED BY <1>1, <1>2, <1>3, <1>4, <1>5 DEF IInv

LEMMA WriteFacts ==
    ASSUME StoreTypeOK, NEW k \in Stores, NEW body \in Body(k), WriteStore(k, body)
    PROVE  /\ live'[k] = body
           /\ \A j \in Stores \ {k} :
                live'[j] = live[j] /\ file'[j] = file[j] /\ puts'[j] = puts[j]
           /\ table' = table /\ lost' = lost
           /\ file'[k] \in {body, file[k], None}
           /\ \A p \in puts'[k] : p \in puts[k] \/ p.body = body
<1> USE DEF StoreTypeOK
<1>1. live' = [live EXCEPT ![k] = body] /\ UNCHANGED <<table, lost>>
  BY WriteCases
<1>2. \A j \in Stores \ {k} : file'[j] = file[j] /\ puts'[j] = puts[j]
  BY FilesAfterType, WriteCases
<1>3. file'[k] \in {body, file[k], None}
  BY FilesAfterType, WriteCases
<1>4. \A p \in puts'[k] : p \in puts[k] \/ p.body = body
  BY WriteCases
<1> QED BY <1>1, <1>2, <1>3, <1>4

\* A step that writes the new lists of one deployment i, of which it knew the state.
LEMMA ApprovalsKeep ==
    ASSUME IInv, up, NEW i \in Ids, NEW body \in Body(Approvals), WriteStore(Approvals, body),
           NEW label \in {"queued", "deploying", "done"}, Goto(i, label),
           UNCHANGED <<up, restarts, direct, deployed>>,
           \/ /\ pc[i] = "new" /\ label = "queued"
              /\ body = [live[Approvals] EXCEPT !.pending = @ \cup {i}]
           \/ /\ i \in live[Approvals].pending /\ label = "deploying"
              /\ body = [live[Approvals] EXCEPT !.pending = @ \ {i},
                                                !.approved = @ \cup {i}]
           \/ /\ i \in live[Approvals].pending /\ label = "done"
              /\ body = [live[Approvals] EXCEPT !.pending = @ \ {i},
                                                !.rejected = @ \cup {i}]
    PROVE  IInv'
<1> USE DEF IInv, TypeOK, Goto
<1>0. Approvals \in Stores /\ Runs \in Stores /\ Versions \in Stores BY DEF Stores
<1>1. /\ live'[Approvals] = body
      /\ \A j \in Stores \ {Approvals} :
            live'[j] = live[j] /\ file'[j] = file[j] /\ puts'[j] = puts[j]
      /\ table' = table /\ lost' = lost
      /\ file'[Approvals] \in {body, file[Approvals], None}
      /\ \A p \in puts'[Approvals] : p \in puts[Approvals] \/ p.body = body
  BY <1>0, WriteFacts
<1>2. /\ live'[Runs] = live[Runs] /\ live'[Versions] = live[Versions]
      /\ file'[Versions] = file[Versions] /\ puts'[Versions] = puts[Versions]
  BY <1>0, <1>1, StoresDiffer
<1>3. /\ live[Approvals] \in Body(Approvals)
      /\ \A p \in puts[Approvals] : p.body \in Body(Approvals)
      /\ file[Approvals] # None => file[Approvals] \in Body(Approvals)
      /\ table[Approvals] # None => table[Approvals] \in Body(Approvals)
  BY <1>0 DEF StoreTypeOK, Put
<1>4. TypeOK'
  <2>1. StoreTypeOK' BY <1>0, WriteTypes
  <2> QED BY <2>1 DEF InFlight
<1>5. StoreInv' BY <1>0, WriteKeeps
<1> DEFINE old == live[Approvals]
<1>a. \/ /\ pc[i] = "new" /\ label = "queued" /\ Absent(i, old)
         /\ body.pending = old.pending \cup {i} /\ body.approved = old.approved
         /\ body.rejected = old.rejected
      \/ /\ i \in old.pending /\ label = "deploying" /\ body.rejected = old.rejected
         /\ body.pending = old.pending \ {i} /\ body.approved = old.approved \cup {i}
      \/ /\ i \in old.pending /\ label = "done" /\ body.approved = old.approved
         /\ body.pending = old.pending \ {i} /\ body.rejected = old.rejected \cup {i}
  BY <1>3 DEF ListInv, Body
<1>b. OnOneList(old) /\ (\A j \in Ids : pc[j] = "new" => Absent(j, old))
  BY DEF ListInv, OneDecision
<1>c. \A j \in Ids : pc'[j] = IF j = i THEN label ELSE pc[j] OBVIOUS
<1>6. OnOneList(body) /\ (\A j \in Ids : pc'[j] = "new" => Absent(j, body) /\ pc[j] = "new")
  <2> HIDE DEF old, IInv, TypeOK
  <2>1. OnOneList(body) BY <1>a, <1>b DEF OnOneList, Absent
  <2> QED BY <2>1, <1>a, <1>b, <1>c DEF Absent
<1>7. ListInv'
  <2>1. OneDecision' BY <1>1, <1>6 DEF ListInv, OneDecision
  <2>2. ASSUME NEW j \in Ids, pc'[j] = "new"
        PROVE  /\ Absent(j, live'[Approvals])
               /\ file'[Approvals] # None => Absent(j, file'[Approvals])
               /\ table'[Approvals] # None => Absent(j, table'[Approvals])
               /\ \A p \in puts'[Approvals] : Absent(j, p.body)
    BY <1>1, <1>6, <2>2 DEF ListInv
  <2>3. ASSUME NEW p \in puts'[Approvals], p.mine
        PROVE  live'[Approvals].pending \cap (p.body.approved \cup p.body.rejected) = {}
    <3>1. CASE p.body = body BY <1>1, <1>6, <3>1 DEF OnOneList
    <3>2. CASE p \in puts[Approvals]
      <4>1. live[Approvals].pending \cap (p.body.approved \cup p.body.rejected) = {}
        BY <2>3, <3>2 DEF ListInv
      <4>2. pc[i] = "new" => Absent(i, p.body) BY <3>2 DEF ListInv
      <4>3. /\ body.pending \subseteq live[Approvals].pending \cup {i}
            /\ pc[i] # "new" \/ Absent(i, p.body)
            /\ pc[i] = "new" \/ body.pending \subseteq live[Approvals].pending
            /\ pc[i] = "new" => Absent(i, live[Approvals])
        BY <1>3, <4>2 DEF ListInv, Body, Absent
      <4> QED BY <1>1, <4>1, <4>3 DEF Absent
    <3> QED BY <1>1, <3>1, <3>2
  <2> QED BY <2>1, <2>2, <2>3 DEF ListInv
<1>8. DeployInv'
  <2>1. DeployInv OBVIOUS
  <2> HIDE DEF old, IInv, TypeOK
  <2> SUFFICES ASSUME Approvals \notin lost, NEW j \in Ids
      PROVE  /\ deployed[j] <= 1
             /\ pc'[j] \in {"new", "queued", "deploying"} => deployed[j] = 0
             /\ j \in body.pending => pc'[j] = "queued"
             /\ j \in body.rejected => pc'[j] = "done" /\ deployed[j] = 0
    BY <1>1 DEF DeployInv
  <2>2. /\ deployed[j] <= 1
        /\ pc[j] \in {"new", "queued", "deploying"} => deployed[j] = 0
        /\ j \in old.pending => pc[j] = "queued"
        /\ j \in old.rejected => pc[j] = "done" /\ deployed[j] = 0
    BY <2>1 DEF DeployInv, old
  <2> QED BY <1>a, <1>b, <1>c, <2>2 DEF OnOneList, Absent
<1>9. VersionInv'
  <2>1. VersionInv OBVIOUS
  <2>2. \A j \in Ids : Cleared(j) => Cleared(j)' BY <1>1, <1>a DEF Cleared
  <2>3. pc'[i] = "deploying" => Cleared(i)' BY <1>1, <1>a, <1>c DEF Cleared
  <2>4. \A j : Cleared(j) => Cleared(j)' BY <1>1, <1>a DEF Cleared
  <2> HIDE DEF old, IInv, TypeOK
  <2> SUFFICES ASSUME Approvals \notin lost, Runs \notin lost PROVE VersionInv'
    BY <1>1 DEF VersionInv
  <2>5. ASSUME NEW v, Backed(v) PROVE Backed(v)' BY <1>2, <2>4, <2>5 DEF Backed
  <2>6. ASSUME NEW j \in Ids
        PROVE  /\ pc'[j] \in {"deploying", "deployed", "ok"} => Cleared(j)'
               /\ pc'[j] = "ok" => j \in live'[Runs]
    BY <1>2, <1>c, <2>1, <2>2, <2>3 DEF VersionInv
  <2> QED BY <1>1, <1>2, <2>1, <2>5, <2>6 DEF VersionInv
<1> QED BY <1>4, <1>5, <1>7, <1>8, <1>9

LEMMA QueueKeeps == ASSUME IInv, NEW i \in Ids, Queue(i) PROVE IInv'
<1>1. live[Approvals] \in Body(Approvals) BY DEF IInv, TypeOK, StoreTypeOK, Stores
<1>2. [live[Approvals] EXCEPT !.pending = @ \cup {i}] \in Body(Approvals) BY <1>1 DEF Body
<1> QED BY <1>2, ApprovalsKeep DEF Queue

LEMMA ApproveKeeps == ASSUME IInv, NEW i \in Ids, Approve(i) PROVE IInv'
<1>1. live[Approvals] \in Body(Approvals) BY DEF IInv, TypeOK, StoreTypeOK, Stores
<1>2. [live[Approvals] EXCEPT !.pending = @ \ {i}, !.approved = @ \cup {i}]
        \in Body(Approvals)
  BY <1>1 DEF Body
<1> QED BY <1>2, ApprovalsKeep DEF Approve

LEMMA RejectKeeps == ASSUME IInv, NEW i \in Ids, Reject(i) PROVE IInv'
<1>1. live[Approvals] \in Body(Approvals) BY DEF IInv, TypeOK, StoreTypeOK, Stores
<1>2. [live[Approvals] EXCEPT !.pending = @ \ {i}, !.rejected = @ \cup {i}]
        \in Body(Approvals)
  BY <1>1 DEF Body
<1> QED BY <1>2, ApprovalsKeep DEF Reject

\* A step that leaves the approvals alone.
LEMMA ListKeeps ==
    ASSUME ListInv, live'[Approvals] = live[Approvals], file'[Approvals] = file[Approvals],
           table'[Approvals] = table[Approvals], puts'[Approvals] = puts[Approvals], up' = up,
           \A i \in Ids : pc'[i] = "new" => pc[i] = "new"
    PROVE  ListInv'
BY DEF ListInv, OneDecision

\* A step that writes no store.
LEMMA RouteKeeps ==
    ASSUME IInv, NEW i \in Ids, UNCHANGED <<storeVars, up, restarts>>,
           \/ /\ pc[i] = "new" /\ Goto(i, "deploying") /\ UNCHANGED deployed
              /\ direct' = direct \cup {i}
           \/ /\ pc[i] \in {"deploying", "deployed", "failed"}
              /\ \E label \in {"failed", "hung", "done"} : Goto(i, label)
              /\ UNCHANGED <<direct, deployed>>
           \/ /\ pc[i] = "deploying" /\ Goto(i, "deployed") /\ UNCHANGED direct
              /\ deployed' = [deployed EXCEPT ![i] = @ + 1]
    PROVE  IInv'
<1> USE DEF IInv, TypeOK, Goto, storeVars
<1>1. TypeOK'
  <2>1. StoreTypeOK' BY DEF StoreTypeOK, Put
  <2>2. pc' \in [Ids -> {"new", "queued", "lost", "hung", "done"} \cup InFlight]
    BY DEF InFlight
  <2>3. direct' \subseteq Ids /\ deployed' \in [Ids -> Nat] OBVIOUS
  <2> QED BY <2>1, <2>2, <2>3
<1>2. StoreInv' BY DEF StoreInv, Settled, Load
<1>3. ListInv' BY ListKeeps
<1>4. DeployInv'
  <2> SUFFICES ASSUME Approvals \notin lost, NEW j \in Ids
      PROVE  /\ deployed'[j] <= 1
             /\ pc'[j] \in {"new", "queued", "deploying"} => deployed'[j] = 0
             /\ j \in live[Approvals].pending => pc'[j] = "queued"
             /\ j \in live[Approvals].rejected => pc'[j] = "done" /\ deployed'[j] = 0
    BY DEF DeployInv
  <2>1. /\ deployed[j] <= 1 /\ deployed[j] \in Nat
        /\ pc[j] \in {"new", "queued", "deploying"} => deployed[j] = 0
        /\ j \in live[Approvals].pending => pc[j] = "queued"
        /\ j \in live[Approvals].rejected => pc[j] = "done" /\ deployed[j] = 0
    BY DEF DeployInv
  <2> QED BY <2>1
<1>5. VersionInv' BY DEF VersionInv, Backed, Cleared
<1> QED BY <1>1, <1>2, <1>3, <1>4, <1>5

\* recordRun.
LEMMA RunsKeep ==
    ASSUME IInv, up, NEW i \in Ids, WriteStore(Runs, live[Runs] \cup {i}),
           UNCHANGED <<up, restarts, direct, deployed>>,
           pc[i] \in {"deployed", "deploying"},
           NEW label \in {"ok", "failed"}, Goto(i, label)
    PROVE  IInv'
<1> USE DEF IInv, TypeOK, Goto
<1> DEFINE body == live[Runs] \cup {i}
<1>0. Approvals \in Stores /\ Runs \in Stores /\ Versions \in Stores BY DEF Stores
<1>1. body \in Body(Runs) BY <1>0, StoresDiffer DEF StoreTypeOK, Body
<1>2. /\ live'[Runs] = body
      /\ \A j \in Stores \ {Runs} :
            live'[j] = live[j] /\ file'[j] = file[j] /\ puts'[j] = puts[j]
      /\ table' = table /\ lost' = lost
  BY <1>0, <1>1, WriteFacts
<1>3. /\ live'[Approvals] = live[Approvals] /\ live'[Versions] = live[Versions]
      /\ file'[Approvals] = file[Approvals] /\ file'[Versions] = file[Versions]
      /\ puts'[Approvals] = puts[Approvals] /\ puts'[Versions] = puts[Versions]
  BY <1>0, <1>2, StoresDiffer
<1>4. TypeOK'
  <2>1. StoreTypeOK' BY <1>0, <1>1, WriteTypes
  <2> QED BY <2>1 DEF InFlight
<1>5. StoreInv' BY <1>0, <1>1, WriteKeeps
<1>6. ListInv' BY <1>2, <1>3, ListKeeps
<1>7. DeployInv' BY <1>2, <1>3 DEF DeployInv
<1>8. VersionInv' BY <1>2, <1>3 DEF VersionInv, Backed, Cleared
<1> QED BY <1>4, <1>5, <1>6, <1>7, <1>8

LEMMA SaveVersionKeeps == ASSUME IInv, NEW i \in Ids, SaveVersion(i) PROVE IInv'
<1> USE DEF IInv, TypeOK, Goto, SaveVersion
<1> DEFINE body == live[Versions] \cup {i}
<1>0. Approvals \in Stores /\ Runs \in Stores /\ Versions \in Stores BY DEF Stores
<1>1. body \in Body(Versions) BY <1>0, StoresDiffer DEF StoreTypeOK, Body
<1>2. /\ live'[Versions] = body
      /\ \A j \in Stores \ {Versions} :
            live'[j] = live[j] /\ file'[j] = file[j] /\ puts'[j] = puts[j]
      /\ table' = table /\ lost' = lost
      /\ file'[Versions] \in {body, file[Versions], None}
      /\ \A p \in puts'[Versions] : p \in puts[Versions] \/ p.body = body
  BY <1>0, <1>1, WriteFacts
<1>3. /\ live'[Approvals] = live[Approvals] /\ live'[Runs] = live[Runs]
      /\ file'[Approvals] = file[Approvals] /\ puts'[Approvals] = puts[Approvals]
  BY <1>0, <1>2, StoresDiffer
<1>4. TypeOK'
  <2>1. StoreTypeOK' BY <1>0, <1>1, WriteTypes
  <2> QED BY <2>1 DEF InFlight
<1>5. StoreInv' BY <1>0, <1>1, WriteKeeps
<1>6. ListInv' BY <1>2, <1>3, ListKeeps
<1>7. DeployInv' BY <1>2, <1>3 DEF DeployInv
<1>8. VersionInv'
  <2> SUFFICES ASSUME Approvals \notin lost, Runs \notin lost PROVE VersionInv'
    BY <1>2 DEF VersionInv
  <2>1. Backed(body) BY DEF VersionInv, Backed
  <2>2. ASSUME NEW v, Backed(v) PROVE Backed(v)' BY <1>3, <2>2 DEF Backed, Cleared
  <2>3. \A j \in Ids : /\ pc'[j] \in {"deploying", "deployed", "ok"} => Cleared(j)'
                       /\ pc'[j] = "ok" => j \in live'[Runs]
    BY <1>3 DEF VersionInv, Cleared
  <2> HIDE DEF body, IInv, TypeOK
  <2>4. VersionInv BY DEF IInv
  <2> QED BY <1>2, <2>1, <2>2, <2>3, <2>4 DEF VersionInv
<1> QED BY <1>4, <1>5, <1>6, <1>7, <1>8

LEMMA PutDoneKeepsAll ==
    ASSUME IInv, NEW k \in Stores, NEW p \in puts[k], PutDone(k, p),
           UNCHANGED <<up, pc, restarts, direct, deployed>>
    PROVE  IInv'
<1> USE DEF IInv
<1>0. Approvals \in Stores /\ Versions \in Stores BY DEF Stores
<1>1. StoreTypeOK' /\ StoreInv' BY PutDoneKeeps DEF TypeOK
<1>2. /\ live' = live /\ file' = file /\ lost' = lost
      /\ \A j \in Stores : puts'[j] \subseteq puts[j]
      /\ \A j \in Stores : table'[j] = table[j] \/ \E q \in puts[j] : table'[j] = q.body
  BY DEF TypeOK, StoreTypeOK, PutDone
<1>3. TypeOK' BY <1>1 DEF TypeOK
<1>4. ListInv'
  <2>1. ListInv OBVIOUS
  <2>2. OneDecision' BY <1>0, <1>2, <2>1 DEF ListInv, OneDecision
  <2>3. \A i \in Ids : pc[i] = "new" /\ table'[Approvals] # None => Absent(i, table'[Approvals])
    BY <1>0, <1>2, <2>1 DEF ListInv
  <2> QED BY <1>0, <1>2, <2>1, <2>2, <2>3 DEF ListInv
<1>5. DeployInv' BY <1>2 DEF DeployInv
<1>6. VersionInv'
  <2>1. VersionInv OBVIOUS
  <2> SUFFICES ASSUME Approvals \notin lost, Runs \notin lost PROVE VersionInv'
    BY <1>2 DEF VersionInv
  <2>2. \A v : Backed(v) <=> Backed(v)' BY <1>2 DEF Backed, Cleared
  <2>3. table'[Versions] # None => Backed(table'[Versions])
    BY <1>0, <1>2, <2>1 DEF VersionInv
  <2>4. \A i : Cleared(i) <=> Cleared(i)' BY <1>2 DEF Cleared
  <2> QED BY <1>0, <1>2, <2>1, <2>2, <2>3, <2>4 DEF VersionInv
<1> QED BY <1>1, <1>3, <1>4, <1>5, <1>6

LEMMA PutFailsKeepsAll ==
    ASSUME IInv, NEW k \in Stores, NEW p \in puts[k], PutFails(k, p),
           UNCHANGED <<up, pc, restarts, direct, deployed>>
    PROVE  IInv'
<1> USE DEF IInv
<1>0. Approvals \in Stores /\ Versions \in Stores BY DEF Stores
<1>1. StoreTypeOK' /\ StoreInv' BY PutFailsKeeps DEF TypeOK
<1>2. /\ live' = live /\ table' = table /\ lost' = lost
      /\ \A j \in Stores : puts'[j] \subseteq puts[j]
      /\ \A j \in Stores :
            \/ file'[j] = file[j]
            \/ j = k /\ p.mine /\ file'[j] \in {NowIn(j, p.body), None}
  <2>1. UNCHANGED <<live, table, lost>> /\ \A j \in Stores : puts'[j] \subseteq puts[j]
    BY DEF TypeOK, StoreTypeOK, PutFails
  <2>2. NowIn(k, p.body) \in Body(k) BY DEF TypeOK, StoreTypeOK, Put, NowIn, Body
  <2>3. file' = file \/ (p.mine /\ file' \in FilesAfter(k, NowIn(k, p.body)))
    BY DEF PutFails
  <2> HIDE DEF IInv
  <2>4. StoreTypeOK BY DEF IInv, TypeOK
  <2>5. ASSUME NEW j \in Stores
        PROVE  \/ file'[j] = file[j]
               \/ j = k /\ p.mine /\ file'[j] \in {NowIn(j, p.body), None}
    BY <2>2, <2>3, <2>4, FilesAfterType
  <2> QED BY <2>1, <2>5
<1>3. TypeOK' BY <1>1 DEF TypeOK
<1>4. ListInv'
  <2>1. ListInv OBVIOUS
  <2>2. ASSUME file'[Approvals] \notin {file[Approvals], None}
        PROVE  /\ OnOneList(file'[Approvals])
               /\ \A i \in Ids : pc[i] = "new" => Absent(i, file'[Approvals])
    <3>1. k = Approvals /\ p.mine /\ file'[Approvals] = NowIn(Approvals, p.body)
      BY <1>0, <1>2, <2>2
    <3>2. p.body \in [pending : SUBSET Ids, approved : SUBSET Ids, rejected : SUBSET Ids]
      BY <1>0, <3>1 DEF TypeOK, StoreTypeOK, Put, Body
    <3>3. file'[Approvals] = [p.body EXCEPT !.pending = live[Approvals].pending]
      BY <3>1, StoresDiffer DEF NowIn
    <3> DEFINE x == live[Approvals].pending
               b == p.body
    <3>6. /\ [b EXCEPT !.pending = x].pending = x
          /\ [b EXCEPT !.pending = x].approved = b.approved
          /\ [b EXCEPT !.pending = x].rejected = b.rejected
      <4> HIDE DEF x, b, IInv
      <4>1. b \in [pending : SUBSET Ids, approved : SUBSET Ids, rejected : SUBSET Ids]
        BY <3>2 DEF b
      <4> QED BY <4>1
    <3>4. /\ file'[Approvals].pending = live[Approvals].pending
          /\ file'[Approvals].approved = p.body.approved
          /\ file'[Approvals].rejected = p.body.rejected
      BY <3>3, <3>6
    <3>5. /\ OnOneList(p.body)
          /\ live[Approvals].pending \cap (p.body.approved \cup p.body.rejected) = {}
          /\ \A i \in Ids : pc[i] = "new" => Absent(i, p.body) /\ Absent(i, live[Approvals])
      BY <2>1, <3>1 DEF ListInv, OneDecision
    <3> QED BY <3>4, <3>5 DEF OnOneList, Absent
  <2>3. OneDecision' BY <1>0, <1>2, <2>1, <2>2 DEF ListInv, OneDecision
  <2> QED BY <1>0, <1>2, <2>1, <2>2, <2>3 DEF ListInv
<1>5. DeployInv' BY <1>2 DEF DeployInv
<1>6. VersionInv'
  <2>1. VersionInv OBVIOUS
  <2> SUFFICES ASSUME Approvals \notin lost, Runs \notin lost PROVE VersionInv'
    BY <1>2 DEF VersionInv
  <2>2. \A v : Backed(v) <=> Backed(v)' BY <1>2 DEF Backed, Cleared
  <2>3. NowIn(Versions, p.body) = live[Versions] BY StoresDiffer DEF NowIn
  <2>4. file'[Versions] \in {file[Versions], live[Versions], None}
    BY <1>0, <1>2, <2>3
  <2>5. \A i : Cleared(i) <=> Cleared(i)' BY <1>2 DEF Cleared
  <2> QED BY <1>0, <1>2, <2>1, <2>2, <2>4, <2>5 DEF VersionInv
<1> QED BY <1>1, <1>3, <1>4, <1>5, <1>6

LEMMA CrashKeeps == ASSUME IInv, Crash PROVE IInv'
<1> USE DEF IInv, Crash
<1>0. Approvals \in Stores /\ Versions \in Stores BY DEF Stores
<1>1. StoreTypeOK' /\ StoreInv' BY StopKeeps DEF TypeOK
<1>2. /\ live' = live /\ file' = file /\ table' = table /\ lost' = lost
      /\ \A j \in Stores : \A p \in puts'[j] :
            p.mine = FALSE /\ \E q \in puts[j] : p.body = q.body
  <2>1. ASSUME NEW j \in Stores, NEW q \in puts[j]
        PROVE  [q EXCEPT !.mine = FALSE].mine = FALSE /\ [q EXCEPT !.mine = FALSE].body = q.body
    BY DEF TypeOK, StoreTypeOK, Put
  <2>2. UNCHANGED <<live, file, table, lost>> BY DEF StopProcess
  <2>3. \A j \in Stores : puts'[j] = {[q EXCEPT !.mine = FALSE] : q \in puts[j]}
    BY DEF StopProcess
  <2> HIDE DEF IInv, Crash
  <2>4. ASSUME NEW j \in Stores, NEW p \in puts'[j]
        PROVE  p.mine = FALSE /\ \E q \in puts[j] : p.body = q.body
    <3>1. PICK q \in puts[j] : p = [q EXCEPT !.mine = FALSE] BY <2>3
    <3> QED BY <2>1, <3>1
  <2> QED BY <2>2, <2>4
<1>3. /\ pc' = [i \in Ids |-> IF pc[i] \in InFlight THEN "lost" ELSE pc[i]]
      /\ \A i \in Ids : /\ pc'[i] = "new" => pc[i] = "new"
                        /\ pc'[i] = pc[i] \/ (pc[i] \in InFlight /\ pc'[i] = "lost")
  <2>1. pc' = [i \in Ids |-> IF pc[i] \in InFlight THEN "lost" ELSE pc[i]] OBVIOUS
  <2> HIDE DEF IInv, Crash
  <2>2. ASSUME NEW i \in Ids
        PROVE  /\ pc'[i] = "new" => pc[i] = "new"
               /\ pc'[i] = pc[i] \/ (pc[i] \in InFlight /\ pc'[i] = "lost")
    BY <2>1
  <2> QED BY <2>1, <2>2
<1>4. TypeOK'
  <2>1. pc' \in [Ids -> {"new", "queued", "lost", "hung", "done"} \cup InFlight]
    <3>1. pc \in [Ids -> {"new", "queued", "lost", "hung", "done"} \cup InFlight] BY DEF TypeOK
    <3> HIDE DEF IInv, Crash
    <3> QED BY <1>3, <3>1
  <2>2. restarts' \in 0 .. MaxRestarts BY RestartsAssumption DEF TypeOK
  <2> QED BY <1>1, <2>1, <2>2 DEF TypeOK
<1>5. ListInv'
  <2>1. ListInv OBVIOUS
  <2> QED BY <1>0, <1>2, <1>3, <2>1 DEF ListInv, OneDecision
<1>6. DeployInv'
  <2>1. DeployInv OBVIOUS
  <2> HIDE DEF IInv, Crash
  <2>2. UNCHANGED deployed BY DEF Crash
  <2> QED BY <1>2, <1>3, <2>1, <2>2 DEF DeployInv, InFlight
<1>7. VersionInv'
  <2>1. VersionInv OBVIOUS
  <2>2. UNCHANGED direct OBVIOUS
  <2> HIDE DEF IInv, Crash
  <2>3. \A i : Cleared(i) <=> Cleared(i)' BY <1>2, <2>2 DEF Cleared
  <2>4. \A v : Backed(v) <=> Backed(v)' BY <1>2, <2>3 DEF Backed
  <2> QED BY <1>0, <1>2, <1>3, <2>1, <2>3, <2>4 DEF VersionInv
<1> QED BY <1>1, <1>4, <1>5, <1>6, <1>7

LEMMA RestartKeeps == ASSUME IInv, Restart PROVE IInv'
<1> USE DEF IInv, Restart
<1>0. Approvals \in Stores /\ Runs \in Stores /\ Versions \in Stores BY DEF Stores
<1>1. StoreTypeOK' /\ StoreInv' BY BootstrapKeeps DEF TypeOK
<1>2. /\ file' = file /\ table' = table /\ puts' = puts
      /\ \A j \in Stores : live'[j] = Load(j)
      /\ \A j \in Stores : j \notin lost' => j \notin lost /\ live'[j] = live[j]
  BY DEF Bootstrap
<1>3. TypeOK' BY <1>1 DEF TypeOK
<1>4. ListInv'
  <2>1. ListInv /\ ~up /\ UNCHANGED pc OBVIOUS
  <2>2. OnOneList(Fallback(Approvals)) /\ \A i : Absent(i, Fallback(Approvals))
    BY DEF OnOneList, Absent, Fallback
  <2>3. OnOneList(Load(Approvals)) BY <2>1, <2>2 DEF ListInv, OneDecision, Load
  <2>4. \A i \in Ids : pc[i] = "new" => Absent(i, Load(Approvals))
    BY <2>1, <2>2 DEF ListInv, Load
  <2>5. live'[Approvals] = Load(Approvals) BY <1>0, <1>2
  <2>6. OneDecision' BY <1>2, <2>1, <2>3, <2>5 DEF ListInv, OneDecision
  <2> QED BY <1>2, <2>1, <2>4, <2>5, <2>6 DEF ListInv
<1>5. DeployInv' BY <1>0, <1>2 DEF DeployInv
<1>6. VersionInv'
  <2>1. VersionInv /\ UNCHANGED <<pc, direct>> OBVIOUS
  <2> HIDE DEF IInv, Restart
  <2> SUFFICES ASSUME Approvals \notin lost', Runs \notin lost' PROVE VersionInv'
    BY DEF VersionInv
  <2>2. /\ Approvals \notin lost /\ live'[Approvals] = live[Approvals]
        /\ Runs \notin lost /\ live'[Runs] = live[Runs]
    BY <1>0, <1>2
  <2>3. \A i : Cleared(i) <=> Cleared(i)' BY <2>1, <2>2 DEF Cleared
  <2>4. \A v : Backed(v) <=> Backed(v)' BY <2>2, <2>3 DEF Backed
  <2>5. Backed(Fallback(Versions)) BY StoresDiffer DEF Backed, Fallback
  <2>6. Backed(Load(Versions)) BY <2>1, <2>2, <2>5 DEF VersionInv, Load
  <2>7. live'[Versions] = Load(Versions) BY <1>0, <1>2
  <2>8. Backed(live[Versions])' BY <2>2, <2>3, <2>6, <2>7 DEF Backed
  <2> QED BY <1>2, <2>1, <2>2, <2>3, <2>4, <2>8 DEF VersionInv
<1> QED BY <1>1, <1>3, <1>4, <1>5, <1>6

-----------------------------------------------------------------------------

LEMMA StepIInv == ASSUME IInv, [Next]_vars PROVE IInv'
<1>1. CASE UNCHANGED vars
  <2>1. UNCHANGED <<storeVars, up, pc, restarts, direct, deployed>> BY <1>1 DEF vars
  <2>2. TypeOK' BY <2>1 DEF IInv, TypeOK, StoreTypeOK, storeVars, Put
  <2>3. StoreInv' BY <2>1 DEF IInv, StoreInv, Settled, Load, storeVars
  <2>4. ListInv' BY <2>1, ListKeeps DEF IInv, storeVars
  <2>5. DeployInv' BY <2>1 DEF IInv, DeployInv, storeVars
  <2>6. VersionInv' BY <2>1 DEF IInv, VersionInv, Backed, Cleared, storeVars
  <2> QED BY <2>2, <2>3, <2>4, <2>5, <2>6 DEF IInv
<1>2. ASSUME NEW i \in Ids, DeployDirectly(i) PROVE IInv'
  BY <1>2, RouteKeeps DEF DeployDirectly
<1>3. ASSUME NEW i \in Ids, DeployRefused(i) PROVE IInv'
  BY <1>3, RouteKeeps DEF DeployRefused
<1>4. ASSUME NEW i \in Ids, DeployTakesEffect(i) PROVE IInv'
  BY <1>4, RouteKeeps DEF DeployTakesEffect
<1>5. ASSUME NEW i \in Ids, DeployThrows(i) PROVE IInv'
  BY <1>5, RouteKeeps DEF DeployThrows
<1>6. ASSUME NEW i \in Ids, NotifyFailure(i) PROVE IInv'
  BY <1>6, RouteKeeps DEF NotifyFailure
<1>7. ASSUME NEW i \in Ids, RecordRun(i) PROVE IInv'
  BY <1>7, RunsKeep DEF RecordRun
<1>8. ASSUME NEW i \in Ids, RecordBlocked(i) PROVE IInv'
  BY <1>8, RunsKeep DEF RecordBlocked
<1>9. ASSUME PutMoves PROVE IInv'
  BY <1>9, PutDoneKeepsAll, PutFailsKeepsAll DEF PutMoves
<1> QED
  BY <1>1, <1>2, <1>3, <1>4, <1>5, <1>6, <1>7, <1>8, <1>9, QueueKeeps, ApproveKeeps,
     RejectKeeps, SaveVersionKeeps, CrashKeeps, RestartKeeps DEF Next, Serve

\* The invariant holds in every state of every instance.
THEOREM Invariant == Spec => []IInv
<1>1. Init => IInv BY InitIInv
<1>2. IInv /\ [Next]_vars => IInv' BY StepIInv
<1> QED BY <1>1, <1>2, PTL DEF Spec

\* Type correctness of the stores and of the routes over them.
THEOREM TypeCorrect == Spec => []TypeOK
<1>1. IInv => TypeOK BY DEF IInv
<1> QED BY <1>1, Invariant, PTL

\* Write-through: a store that settled undisturbed would be loaded as it is.
THEOREM StoresSettle == Spec => []InOrderPutsSettle
<1>1. IInv => InOrderPutsSettle BY DEF IInv, StoreInv, Settled, InOrderPutsSettle
<1> QED BY <1>1, Invariant, PTL

\* Only a store of which a write was not made or failed, or whose puts went wrong or were
\* on their way, loses content in a restart.
THEOREM RestartsKeepStores == Spec => []OnlyDisturbedStoresLose
<1>1. IInv => OnlyDisturbedStoresLose
  BY DEF IInv, TypeOK, StoreTypeOK, StoreInv, Settled, OnlyDisturbedStoresLose
<1> QED BY <1>1, Invariant, PTL

\* In no copy of the approvals has a deployment two states.
THEOREM DecidedOnce == Spec => []OneDecision
<1>1. IInv => OneDecision BY DEF IInv, ListInv
<1> QED BY <1>1, Invariant, PTL

\* A deployment takes effect once, and not before it is approved.
THEOREM DeployedOnce == Spec => []DeploysOnce
<1>1. IInv => DeploysOnce
  <2> SUFFICES ASSUME IInv, Approvals \notin lost, NEW i \in Ids
               PROVE  /\ deployed[i] <= 1
                      /\ i \in live[Approvals].pending \cup live[Approvals].rejected =>
                            deployed[i] = 0
    BY DEF DeploysOnce
  <2> QED BY DEF IInv, DeployInv
<1> QED BY <1>1, Invariant, PTL

\* Versions belong to recorded runs of approved deployments.
THEOREM VersionsAccounted == Spec => []VersionsAreAccountedFor
<1>1. IInv => VersionsAreAccountedFor
  BY DEF IInv, VersionInv, Backed, Cleared, VersionsAreAccountedFor
<1> QED BY <1>1, Invariant, PTL
=============================================================================
