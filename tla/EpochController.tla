-------------------------- MODULE EpochController --------------------------
(***************************************************************************)
(* The cognitive runtime's transaction controller                          *)
(* (services/cognitive-runtime/pkg/runtime/controller.go) with its         *)
(* in-memory executor (executor.go).  Every request of /v1/commit          *)
(* (cmd/controller/main.go) runs Controller.Commit in a goroutine of its   *)
(* own; the controller's mutex is held in BeginTransaction and again for   *)
(* the assignment of the committed epoch, but not while the job executes.  *)
(***************************************************************************)
EXTENDS Naturals, FiniteSets

CONSTANTS
    Requests,     \* calls of Commit, each used once
    Partitions,   \* Job.PartitionKey
    Keys,         \* Job.IdempotencyKey
    MaxEpoch,     \* bound on Job.Epoch
    None,         \* no output, no partition, no key
    Concurrent    \* TRUE: a request may arrive while another one is served

Epoch == 0 .. MaxEpoch

ASSUME ControllerAssumption ==
    /\ MaxEpoch \in Nat
    /\ None \notin Partitions \cup Keys \cup Nat
    /\ Concurrent \in BOOLEAN

VARIABLES
    epochs,     \* last committed epoch of every partition
    frontiers,  \* epoch of the last transaction that began
    seen,       \* executor: output of every key executed so far
    pc,         \* where a request is
    part, epoch, key,  \* the job of a request
    output,     \* the OutputURI a request got
    \* history
    begun       \* epochs that began, per partition

job == <<part, epoch, key>>
vars == <<epochs, frontiers, seen, pc, job, output, begun>>

TypeOK ==
    /\ epochs \in [Partitions -> Epoch]
    /\ frontiers \in [Partitions -> Epoch]
    /\ seen \in [Keys -> Epoch \cup {None}]
    /\ pc \in [Requests -> {"new", "executing", "executed", "failed", "committed",
                            "stale", "blocked", "aborted"}]
    /\ part \in [Requests -> Partitions \cup {None}]
    /\ epoch \in [Requests -> Epoch]
    /\ key \in [Requests -> Keys \cup {None}]
    /\ output \in [Requests -> Epoch \cup {None}]
    /\ begun \in [Partitions -> SUBSET Epoch]

Init ==
    /\ epochs = [p \in Partitions |-> 0]
    /\ frontiers = [p \in Partitions |-> 0]
    /\ seen = [k \in Keys |-> None]
    /\ pc = [r \in Requests |-> "new"]
    /\ part = [r \in Requests |-> None]
    /\ epoch = [r \in Requests |-> 0]
    /\ key = [r \in Requests |-> None]
    /\ output = [r \in Requests |-> None]
    /\ begun = [p \in Partitions |-> {}]

InFlight == {r \in Requests : pc[r] \in {"executing", "executed", "failed"}}

CanArrive(r) ==
    /\ pc[r] = "new"
    /\ Concurrent \/ InFlight = {}

\* Seeded fault: the frontier becomes the next epoch.
BeginsPastEpoch(r, p, e, k) ==
    /\ CanArrive(r)
    /\ e > epochs[p] /\ e <= frontiers[p] + 1
    /\ frontiers' = [frontiers EXCEPT ![p] = e + 1]
    /\ begun' = [begun EXCEPT ![p] = @ \cup {e}]
    /\ pc' = [pc EXCEPT ![r] = "executing"]
    /\ part' = [part EXCEPT ![r] = p]
    /\ epoch' = [epoch EXCEPT ![r] = e]
    /\ key' = [key EXCEPT ![r] = k]
    /\ UNCHANGED <<epochs, seen, output>>

\* BeginTransaction, under the mutex: the epoch is newer than the committed one
\* and at most one above the frontier, which it then becomes.
BeginTransaction(r, p, e, k) ==
    /\ CanArrive(r)
    /\ e > epochs[p] /\ e <= frontiers[p] + 1
    /\ frontiers' = [frontiers EXCEPT ![p] = e]
    /\ begun' = [begun EXCEPT ![p] = @ \cup {e}]
    /\ pc' = [pc EXCEPT ![r] = "executing"]
    /\ part' = [part EXCEPT ![r] = p]
    /\ epoch' = [epoch EXCEPT ![r] = e]
    /\ key' = [key EXCEPT ![r] = k]
    /\ UNCHANGED <<epochs, seen, output>>

RejectStale(r, p, e) ==
    /\ CanArrive(r)
    /\ e <= epochs[p]
    /\ pc' = [pc EXCEPT ![r] = "stale"]
    /\ UNCHANGED <<epochs, frontiers, seen, job, output, begun>>

RejectBlocked(r, p, e) ==
    /\ CanArrive(r)
    /\ e > epochs[p] /\ e > frontiers[p] + 1
    /\ pc' = [pc EXCEPT ![r] = "blocked"]
    /\ UNCHANGED <<epochs, frontiers, seen, job, output, begun>>

\* Seeded fault: outputs are not looked up by key.
ExecuteAfresh(r) ==
    /\ pc[r] = "executing"
    /\ seen' = [seen EXCEPT ![key[r]] = epoch[r]]
    /\ output' = [output EXCEPT ![r] = epoch[r]]
    /\ pc' = [pc EXCEPT ![r] = "executed"]
    /\ UNCHANGED <<epochs, frontiers, job, begun>>

\* Executor: the first execution of a key decides its output, named after the
\* epoch of the job; later ones return it.
Execute(r) ==
    /\ pc[r] = "executing"
    /\ LET k == key[r]
           out == IF seen[k] = None THEN epoch[r] ELSE seen[k]
       IN /\ seen' = [seen EXCEPT ![k] = out]
          /\ output' = [output EXCEPT ![r] = out]
    /\ pc' = [pc EXCEPT ![r] = "executed"]
    /\ UNCHANGED <<epochs, frontiers, job, begun>>

ExecuteFails(r) ==
    /\ pc[r] = "executing"
    /\ pc' = [pc EXCEPT ![r] = "failed"]
    /\ UNCHANGED <<epochs, frontiers, seen, job, output, begun>>

\* Seeded fault: the epoch of a failed job is recorded.
CompensateRecords(r) ==
    /\ pc[r] = "failed"
    /\ epochs' = [epochs EXCEPT ![part[r]] = epoch[r]]
    /\ pc' = [pc EXCEPT ![r] = "aborted"]
    /\ UNCHANGED <<frontiers, seen, job, output, begun>>

\* compensate: handlers touch storage only, the controller's maps stay.
Compensate(r) ==
    /\ pc[r] = "failed"
    /\ pc' = [pc EXCEPT ![r] = "aborted"]
    /\ UNCHANGED <<epochs, frontiers, seen, job, output, begun>>

\* The second critical section of Commit: an unconditional assignment.
RecordEpoch(r) ==
    /\ pc[r] = "executed"
    /\ epochs' = [epochs EXCEPT ![part[r]] = epoch[r]]
    /\ pc' = [pc EXCEPT ![r] = "committed"]
    /\ UNCHANGED <<frontiers, seen, job, output, begun>>

Next ==
    \E r \in Requests :
        \/ \E p \in Partitions, e \in Epoch :
            \/ \E k \in Keys : BeginTransaction(r, p, e, k)
            \/ RejectStale(r, p, e)
            \/ RejectBlocked(r, p, e)
        \/ Execute(r) \/ ExecuteFails(r) \/ Compensate(r) \/ RecordEpoch(r)

\* Go schedules every goroutine: a request that is being served goes on.
Spec ==
    /\ Init /\ [][Next]_vars
    /\ \A r \in Requests :
        WF_vars(Execute(r) \/ ExecuteFails(r) \/ Compensate(r) \/ RecordEpoch(r))

-----------------------------------------------------------------------------
(* Properties *)

Committed == {r \in Requests : pc[r] = "committed"}

\* "Frontier": an epoch begins only when every lower one has begun before, even
\* though a retry of an older epoch moves the frontier back.
NoEpochBeginsEarly ==
    \A p \in Partitions : \A e \in begun[p] : 1 .. e \subseteq begun[p]

\* The committed epoch of a partition is that of a request that was executed
\* and told so; a failed job, compensated or not, never moves it.
EpochIsOfACommittedJob ==
    \A p \in Partitions : epochs[p] # 0 =>
        \E r \in Committed : part[r] = p /\ epoch[r] = epochs[p]

\* Requests with one idempotency key get one output, in whatever order and with
\* whatever epochs they run.
OneOutputPerKey ==
    \A r, q \in Requests :
        key[r] = key[q] /\ output[r] # None /\ output[q] # None => output[r] = output[q]

\* "Exactly-once ... execution", "Duplicate epoch must be rejected": an epoch of
\* a partition is committed by one request.
CommitsEpochOnce ==
    \A r, q \in Committed : r # q => part[r] # part[q] \/ epoch[r] # epoch[q]

\* The frontier is the "in-flight ceiling" (controller.go, the service's README): it is
\* never below the committed epoch.  A partition whose frontier is left behind, with no
\* request in flight any more, is closed for good: the committed epoch and all below are
\* stale, all above are blocked.
FrontierIsCeiling == \A p \in Partitions : frontiers[p] >= epochs[p]

\* "Monotonic sequence per partition" (the service's README): the committed epoch of a
\* partition only grows.
EpochsGrow == [][\A p \in Partitions : epochs'[p] >= epochs[p]]_epochs
=============================================================================
