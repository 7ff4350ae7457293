----------------------- MODULE EpochControllerProofs -----------------------
(* Proofs about EpochController, for every value of its constants. *)
EXTENDS EpochController, TLAPS

-----------------------------------------------------------------------------
(* Types *)

\* A request that began carries its job.
CarriesItsJob ==
    \A r \in Requests :
        pc[r] \in {"executing", "executed", "failed", "committed", "aborted"} =>
            part[r] \in Partitions /\ key[r] \in Keys

Types == TypeOK /\ CarriesItsJob

LEMMA InitTypes == Init => Types
BY ControllerAssumption DEF Init, Types, TypeOK, CarriesItsJob, Epoch

LEMMA BeginTypes ==
    ASSUME Types, NEW r \in Requests, NEW p \in Partitions, NEW e \in Epoch, NEW k \in Keys,
           BeginTransaction(r, p, e, k)
    PROVE  Types'
BY DEF Types, TypeOK, CarriesItsJob, BeginTransaction

LEMMA NextTypes == ASSUME Types, [Next]_vars PROVE Types'
<1>1. ASSUME NEW r \in Requests, NEW p \in Partitions, NEW e \in Epoch,
             RejectStale(r, p, e) \/ RejectBlocked(r, p, e)
      PROVE  Types'
  BY <1>1 DEF Types, TypeOK, CarriesItsJob, RejectStale, RejectBlocked, job
<1>2. ASSUME NEW r \in Requests, Execute(r) PROVE Types'
  BY <1>2 DEF Types, TypeOK, CarriesItsJob, Execute, job
<1>3. ASSUME NEW r \in Requests, ExecuteFails(r) \/ Compensate(r) PROVE Types'
  BY <1>3 DEF Types, TypeOK, CarriesItsJob, ExecuteFails, Compensate, job
<1>4. ASSUME NEW r \in Requests, RecordEpoch(r) PROVE Types'
  BY <1>4 DEF Types, TypeOK, CarriesItsJob, RecordEpoch, job
<1>5. CASE UNCHANGED vars
  BY <1>5 DEF Types, TypeOK, CarriesItsJob, vars, job
<1>. QED
  BY <1>1, <1>2, <1>3, <1>4, <1>5, BeginTypes DEF Next

\* The types hold in every state, and a request that got past the checks has its job.
THEOREM TypesAlways == Spec => []Types
BY InitTypes, NextTypes, PTL DEF Spec

\* Epochs, frontiers and outputs stay in range, whatever requests arrive.
THEOREM TypeCorrect == Spec => []TypeOK
<1>1. Types => TypeOK
  BY DEF Types
<1>. QED
  BY <1>1, TypesAlways, PTL

-----------------------------------------------------------------------------
(* What holds however requests interleave *)

\* The frontier is an epoch that began.
FrontierBegan == \A p \in Partitions : frontiers[p] = 0 \/ frontiers[p] \in begun[p]

\* An output is the one the executor remembers for the key.
OutputIsSeen ==
    \A r \in Requests :
        /\ pc[r] = "new" => output[r] = None
        /\ output[r] # None => key[r] \in Keys /\ output[r] = seen[key[r]]

Safe == NoEpochBeginsEarly /\ FrontierBegan /\ EpochIsOfACommittedJob /\ OutputIsSeen

LEMMA InitSafe == Init => Safe
BY DEF Init, Safe, NoEpochBeginsEarly, FrontierBegan, EpochIsOfACommittedJob, OutputIsSeen

LEMMA BeginSafe ==
    ASSUME Types, Safe, NEW r \in Requests, NEW p \in Partitions, NEW e \in Epoch,
           NEW k \in Keys, BeginTransaction(r, p, e, k)
    PROVE  Safe'
<1>. USE DEF BeginTransaction, CanArrive, Types, TypeOK, Safe
<1>1. NoEpochBeginsEarly'
  <2>1. 1 .. e \subseteq begun[p] \cup {e}
    <3>1. SUFFICES ASSUME NEW x \in 1 .. e, x # e PROVE x \in begun[p]
      OBVIOUS
    <3>2. frontiers[p] \in Nat /\ e \in Nat /\ e <= frontiers[p] + 1
      BY ControllerAssumption DEF Epoch
    <3>3. x \in 1 .. frontiers[p] /\ frontiers[p] # 0
      BY <3>1, <3>2
    <3>. QED
      BY <3>3 DEF FrontierBegan, NoEpochBeginsEarly
  <2>2. \A q \in Partitions : begun'[q] = IF q = p THEN begun[p] \cup {e} ELSE begun[q]
    OBVIOUS
  <2>3. \A q \in Partitions : \A x \in begun'[q] : 1 .. x \subseteq begun'[q]
    BY <2>1, <2>2 DEF NoEpochBeginsEarly
  <2>. QED
    BY <2>3 DEF NoEpochBeginsEarly
<1>2. FrontierBegan'
  BY DEF FrontierBegan
<1>3. EpochIsOfACommittedJob'
  BY DEF EpochIsOfACommittedJob, Committed
<1>4. OutputIsSeen'
  BY DEF OutputIsSeen
<1>. QED
  BY <1>1, <1>2, <1>3, <1>4

LEMMA NextSafe == ASSUME Types, Safe, [Next]_vars PROVE Safe'
<1>1. ASSUME NEW r \in Requests, NEW p \in Partitions, NEW e \in Epoch,
             RejectStale(r, p, e) \/ RejectBlocked(r, p, e)
      PROVE  Safe'
  BY <1>1 DEF Types, TypeOK, Safe, NoEpochBeginsEarly, FrontierBegan,
              EpochIsOfACommittedJob, OutputIsSeen, Committed, CanArrive,
              RejectStale, RejectBlocked, job
<1>2. ASSUME NEW r \in Requests, Execute(r) PROVE Safe'
  <2>. USE <1>2 DEF Execute, Types, TypeOK, CarriesItsJob, Safe, job
  <2>1. NoEpochBeginsEarly' /\ FrontierBegan'
    BY DEF NoEpochBeginsEarly, FrontierBegan
  <2>2. EpochIsOfACommittedJob'
    BY DEF EpochIsOfACommittedJob, Committed
  <2>3. OutputIsSeen'
    <3>1. key[r] \in Keys /\ None \notin Epoch
      BY ControllerAssumption DEF Epoch
    <3>. QED
      BY <3>1 DEF OutputIsSeen
  <2>. QED
    BY <2>1, <2>2, <2>3
<1>3. ASSUME NEW r \in Requests, ExecuteFails(r) \/ Compensate(r) PROVE Safe'
  BY <1>3 DEF Types, TypeOK, Safe, NoEpochBeginsEarly, FrontierBegan,
              EpochIsOfACommittedJob, OutputIsSeen, Committed, ExecuteFails, Compensate, job
<1>4. ASSUME NEW r \in Requests, RecordEpoch(r) PROVE Safe'
  <2>. USE <1>4 DEF RecordEpoch, Types, TypeOK, CarriesItsJob, Safe, job
  <2>1. NoEpochBeginsEarly' /\ FrontierBegan'
    BY DEF NoEpochBeginsEarly, FrontierBegan
  <2>2. EpochIsOfACommittedJob'
    BY DEF EpochIsOfACommittedJob, Committed
  <2>3. OutputIsSeen'
    BY DEF OutputIsSeen
  <2>. QED
    BY <2>1, <2>2, <2>3
<1>5. CASE UNCHANGED vars
  BY <1>5 DEF Safe, NoEpochBeginsEarly, FrontierBegan, EpochIsOfACommittedJob, OutputIsSeen,
              Committed, vars, job
<1>. QED
  BY <1>1, <1>2, <1>3, <1>4, <1>5, BeginSafe DEF Next

\* In every state the frontier is an epoch that began, a committed epoch is that of a
\* committed job, and an output is the one remembered for its key.
THEOREM SafeAlways == Spec => []Safe
BY InitSafe, NextSafe, TypesAlways, PTL DEF Spec

\* No epoch begins before every lower one has, for any number of concurrent
\* requests, although BeginTransaction lowers the frontier on a retry.
THEOREM EpochsBeginInOrder == Spec => []NoEpochBeginsEarly
<1>1. Safe => NoEpochBeginsEarly
  BY DEF Safe
<1>. QED
  BY <1>1, SafeAlways, PTL

\* A committed epoch is that of a job that was executed.
THEOREM EpochsAreExecuted == Spec => []EpochIsOfACommittedJob
<1>1. Safe => EpochIsOfACommittedJob
  BY DEF Safe
<1>. QED
  BY <1>1, SafeAlways, PTL

\* The executor gives one output per idempotency key.
THEOREM ExecutorIsIdempotent == Spec => []OneOutputPerKey
<1>1. Safe => OneOutputPerKey
  BY DEF Safe, OutputIsSeen, OneOutputPerKey
<1>. QED
  BY <1>1, SafeAlways, PTL

-----------------------------------------------------------------------------
(* What holds when requests are served one at a time *)

\* Committed epochs are at or below the recorded one, the one in flight is above it and
\* is the frontier.
Serial ==
    /\ \A r, q \in InFlight : r = q
    /\ \A r \in Committed : epoch[r] <= epochs[part[r]]
    /\ \A r \in InFlight : epoch[r] > epochs[part[r]] /\ epoch[r] = frontiers[part[r]]
    /\ FrontierIsCeiling
    /\ CommitsEpochOnce

LEMMA InitSerial == Init => Serial
BY DEF Init, Serial, InFlight, Committed, CommitsEpochOnce, FrontierIsCeiling

LEMMA NextSerial ==
    ASSUME ~Concurrent, Types, Serial, [Next]_vars
    PROVE  Serial' /\ \A p \in Partitions : epochs'[p] >= epochs[p]
<1>. USE DEF Types, TypeOK, CarriesItsJob
<1>0. (\A p \in Partitions : epochs[p] \in Nat) /\ (\A r \in Requests : epoch[r] \in Nat)
  BY ControllerAssumption DEF Epoch
<1>1. ASSUME NEW r \in Requests, NEW p \in Partitions, NEW e \in Epoch, NEW k \in Keys,
             BeginTransaction(r, p, e, k)
      PROVE  Serial' /\ UNCHANGED epochs
  <2>. USE <1>1 DEF BeginTransaction, CanArrive, InFlight, Committed
  <2>1. Committed' = Committed /\ InFlight = {} /\ InFlight' = {r}
    OBVIOUS
  <2>2. \A q \in Partitions : frontiers'[q] >= epochs[q]
    BY <1>0 DEF Serial, FrontierIsCeiling, Epoch
  <2>. QED
    BY <2>1, <2>2 DEF Serial, FrontierIsCeiling, CommitsEpochOnce
<1>2. ASSUME NEW r \in Requests, NEW p \in Partitions, NEW e \in Epoch,
             RejectStale(r, p, e) \/ RejectBlocked(r, p, e)
      PROVE  Serial' /\ UNCHANGED epochs
  BY <1>2 DEF RejectStale, RejectBlocked, CanArrive, Serial, InFlight, Committed,
              CommitsEpochOnce, FrontierIsCeiling, job
<1>3. ASSUME NEW r \in Requests, Execute(r) \/ ExecuteFails(r) \/ Compensate(r)
      PROVE  Serial' /\ UNCHANGED epochs
  BY <1>3 DEF Execute, ExecuteFails, Compensate, Serial, InFlight, Committed,
              CommitsEpochOnce, FrontierIsCeiling, job
<1>4. ASSUME NEW r \in Requests, RecordEpoch(r)
      PROVE  Serial' /\ \A p \in Partitions : epochs'[p] >= epochs[p]
  <2>. USE <1>4 DEF RecordEpoch, job
  <2>1. InFlight = {r} /\ Committed' = Committed \cup {r} /\ InFlight' = {}
    BY DEF Serial, InFlight, Committed
  <2>2. part[r] \in Partitions /\ epoch[r] > epochs[part[r]] /\ epoch[r] = frontiers[part[r]]
    BY <2>1 DEF Serial
  <2>3. \A p \in Partitions : epochs'[p] >= epochs[p]
    BY <1>0, <2>2
  <2>4. \A q \in Committed : part[q] \in Partitions /\ epoch[q] <= epochs[part[q]]
    BY DEF Serial, Committed
  <2>5. \A q \in Committed' : epoch[q] <= epochs'[part[q]]
    BY <1>0, <2>1, <2>2, <2>3, <2>4 DEF Committed
  <2>6. CommitsEpochOnce'
    <3>1. \A q \in Committed : part[q] # part[r] \/ epoch[q] # epoch[r]
      BY <1>0, <2>2, <2>4 DEF Committed
    <3>. QED
      BY <2>1, <3>1 DEF CommitsEpochOnce, Serial
  <2>7. FrontierIsCeiling'
    BY <1>0, <2>2 DEF Serial, FrontierIsCeiling
  <2>. QED
    BY <2>1, <2>3, <2>5, <2>6, <2>7 DEF Serial
<1>5. ASSUME UNCHANGED vars PROVE Serial' /\ UNCHANGED epochs
  <2>1. InFlight' = InFlight /\ Committed' = Committed
    BY <1>5 DEF InFlight, Committed, vars
  <2>2. epochs' = epochs /\ frontiers' = frontiers /\ part' = part /\ epoch' = epoch
    BY <1>5 DEF vars, job
  <2>. QED
    BY <2>1, <2>2 DEF Serial, CommitsEpochOnce, FrontierIsCeiling
<1>6. UNCHANGED epochs => \A p \in Partitions : epochs'[p] >= epochs[p]
  BY <1>0
<1>. QED
  BY <1>1, <1>2, <1>3, <1>4, <1>5, <1>6 DEF Next, vars

\* While requests are served one at a time, committed epochs are at or below the recorded
\* one and the epoch in flight is above it.
THEOREM SerialAlways == ASSUME ~Concurrent PROVE Spec => []Serial
<1>1. Types /\ Serial /\ [Next]_vars => Serial'
  BY NextSerial
<1>. QED
  BY <1>1, InitSerial, TypesAlways, PTL DEF Spec

\* With requests served one at a time an epoch is committed exactly once: the
\* check in BeginTransaction is enough for that, and only for that.
THEOREM SerialCommitsOnce == ASSUME ~Concurrent PROVE Spec => []CommitsEpochOnce
<1>1. Serial => CommitsEpochOnce
  BY DEF Serial
<1>. QED
  BY <1>1, SerialAlways, PTL

\* With requests served one at a time the frontier never stays behind the committed
\* epoch, whatever jobs fail: the epoch after the committed one may always begin.
THEOREM SerialFrontierKeepsUp == ASSUME ~Concurrent PROVE Spec => []FrontierIsCeiling
<1>1. Serial => FrontierIsCeiling
  BY DEF Serial
<1>. QED
  BY <1>1, SerialAlways, PTL

\* With requests served one at a time the committed epoch of a partition only grows.
THEOREM SerialEpochsGrow == ASSUME ~Concurrent PROVE Spec => EpochsGrow
<1>1. Types /\ Serial /\ [Next]_vars => [\A p \in Partitions : epochs'[p] >= epochs[p]]_epochs
  BY NextSerial
<1>. QED
  BY <1>1, SerialAlways, TypesAlways, PTL DEF Spec, EpochsGrow
=============================================================================
