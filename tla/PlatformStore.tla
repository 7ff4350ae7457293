---------------------------- MODULE PlatformStore ----------------------------
(***************************************************************************)
(* The stores of the API gateway (lib/platform/platform-store.js): what    *)
(* the process keeps in memory is written through to a file or, with       *)
(* PLATFORM_STORE=dynamodb, to a table by puts nobody waits for; a put     *)
(* that fails writes the file instead.  A restart reads the table first,   *)
(* then the file.  A file write that fails is swallowed, and every store   *)
(* has a switch that turns its writes off.                                 *)
(*                                                                         *)
(* Of the five stores three are modelled, those one deployment writes.     *)
(* The process reads its memory map at the start only, afterwards it       *)
(* works on the lists it filled from it: live stands for both.  Lists stay *)
(* below the bounds of 25, 50 and 200 that their saved copies are cut to.  *)
(***************************************************************************)
EXTENDS Naturals, FiniteSets

CONSTANTS
    Ids,    \* deployments asked for, each once
    MaxInFlight,    \* bound on the puts on their way
    MayBeOff,       \* stores whose writes may be switched off
    None    \* no item, no file

ASSUME StoreAssumption == MaxInFlight \in Nat

VARIABLES
    mode,       \* PLATFORM_STORE
    off,        \* stores whose _PERSIST switch is "false"
    live,       \* content of every store in the process
    file,       \* data/<store>.json; None: missing, or not JSON
    table,      \* body of the DynamoDB item
    puts,       \* puts on their way
    issued,     \* number of puts of a store so far
    \* history
    disturbed,  \* stores of which a write was not made or failed, or a put failed,
                \* was overtaken, or was on its way when the process died
    lost        \* stores of which a restart did not bring back the content

storeVars == <<mode, off, live, file, table, puts, issued, disturbed, lost>>

Approvals == "deploy-approvals"
Runs == "execution-runs"
Versions == "pipeline-versions"
Stores == {Approvals, Runs, Versions}

Body(k) == IF k = Approvals
           THEN [pending : SUBSET Ids, approved : SUBSET Ids, rejected : SUBSET Ids]
           ELSE SUBSET Ids

Fallback(k) == IF k = Approvals
               THEN [pending |-> {}, approved |-> {}, rejected |-> {}] ELSE {}

ASSUME NoneAssumption == \A k \in Stores : \A body \in Body(k) : body # None

\* mine: the process that sent the put is the one that runs.
Put(k) == [n : Nat, body : Body(k), mine : BOOLEAN]

StoreTypeOK ==
    /\ mode \in {"file", "dynamodb"} /\ off \subseteq Stores
    /\ DOMAIN live = Stores /\ DOMAIN file = Stores /\ DOMAIN table = Stores
    /\ \A k \in Stores :
        /\ live[k] \in Body(k)
        /\ file[k] \in Body(k) \cup {None}
        /\ table[k] \in Body(k) \cup {None}
        /\ \A p \in puts[k] : p \in Put(k)
    /\ DOMAIN puts = Stores
    /\ issued \in [Stores -> Nat]
    /\ disturbed \subseteq Stores
    /\ lost \subseteq Stores

StoreInit ==
    /\ mode \in {"file", "dynamodb"} /\ off \in SUBSET (MayBeOff \cap Stores)
    /\ live = [k \in Stores |-> Fallback(k)]
    /\ file = [k \in Stores |-> None]
    /\ table = [k \in Stores |-> None]
    /\ puts = [k \in Stores |-> {}]
    /\ issued = [k \in Stores |-> 0]
    /\ disturbed = {}
    /\ lost = {}

CanPut == Cardinality(UNION {{k} \X puts[k] : k \in Stores}) < MaxInFlight

\* saveToFile: the text is written; or it is not, as PLATFORM_STORE_PERSIST is "false"
\* or the file cannot be opened; or the write breaks off and what is left is no JSON.
FilesAfter(k, body) == {file} \cup {[file EXCEPT ![k] = f] : f \in {body, None}}

\* Seeded fault: a change of the pending list only is not worth a write.
WriteStoreUnlessQueued(k, body) ==
    /\ live' = [live EXCEPT ![k] = body]
    /\ IF k = Approvals /\ body.approved = live[k].approved /\ body.rejected = live[k].rejected
       THEN UNCHANGED <<puts, issued, file, disturbed>>
       ELSE IF mode = "dynamodb"
       THEN /\ CanPut
            /\ puts' = [puts EXCEPT ![k] =
                @ \cup {[n |-> issued[k], body |-> body, mine |-> TRUE]}]
            /\ issued' = [issued EXCEPT ![k] = @ + 1]
            /\ UNCHANGED <<file, disturbed>>
       ELSE /\ file' = [file EXCEPT ![k] = body]
            /\ UNCHANGED <<puts, issued, disturbed>>
    /\ UNCHANGED <<mode, off, table, lost>>

\* The store's persist function and writeStore: a store that is switched off stays in
\* memory only; the body of a put is the text of the data at the call.
WriteStore(k, body) ==
    /\ live' = [live EXCEPT ![k] = body]
    /\ \/ /\ k \in off
          /\ disturbed' = disturbed \cup {k}
          /\ UNCHANGED <<puts, issued, file>>
       \/ /\ k \notin off /\ mode = "dynamodb" /\ CanPut
          /\ puts' = [puts EXCEPT ![k] =
                @ \cup {[n |-> issued[k], body |-> body, mine |-> TRUE]}]
          /\ issued' = [issued EXCEPT ![k] = @ + 1]
          /\ UNCHANGED <<file, disturbed>>
       \/ /\ k \notin off /\ mode = "file"
          /\ file' \in FilesAfter(k, body)
          /\ disturbed' = IF file'[k] = body THEN disturbed ELSE disturbed \cup {k}
          /\ UNCHANGED <<puts, issued>>
    /\ UNCHANGED <<mode, off, table, lost>>

\* Seeded fault: the decided lists are shared and the pending list is the copy.
SharesDecided(k, body) ==
    CASE k = Approvals -> [live[k] EXCEPT !.pending = body.pending]
      [] k = Versions -> live[k]
      [] OTHER -> body

\* What a failed put writes: the data is the object of the call, which shares the
\* pending list and the version lists with the process and copies the others.
NowIn(k, body) ==
    CASE k = Approvals -> [body EXCEPT !.pending = live[k].pending]
      [] k = Versions -> live[k]
      [] OTHER -> body

\* The table took the put; an older one of the store may still be on its way.
PutDone(k, p) ==
    /\ p \in puts[k]
    /\ table' = [table EXCEPT ![k] = p.body]
    /\ puts' = [puts EXCEPT ![k] = @ \ {p}]
    /\ disturbed' = IF \E q \in puts[k] : q.n < p.n
                    THEN disturbed \cup {k} ELSE disturbed
    /\ UNCHANGED <<mode, off, live, file, issued, lost>>

\* The catch of writeStore, if the process that sent the put still runs.
PutFails(k, p) ==
    /\ p \in puts[k]
    /\ IF p.mine THEN file' \in FilesAfter(k, NowIn(k, p.body)) ELSE UNCHANGED file
    /\ puts' = [puts EXCEPT ![k] = @ \ {p}]
    /\ disturbed' = disturbed \cup {k}
    /\ UNCHANGED <<mode, off, live, table, issued, lost>>

\* Seeded fault: a store that was never written has no fallback.
LoadNoFallback(k) ==
    IF mode = "dynamodb" /\ table[k] # None THEN table[k] ELSE file[k]

\* initPlatformStore and readStore.
Load(k) ==
    IF mode = "dynamodb" /\ table[k] # None THEN table[k]
    ELSE IF file[k] # None THEN file[k]
    ELSE Fallback(k)

\* bootstrapPlatformStores: all lists are filled from what was loaded.
Bootstrap ==
    /\ live' = [k \in Stores |-> Load(k)]
    /\ lost' = lost \cup {k \in Stores : Load(k) # live[k]}
    /\ disturbed' = disturbed \cup {k \in Stores : puts[k] # {}}
    /\ UNCHANGED <<mode, off, file, table, puts, issued>>

\* The process dies: its puts may still reach the table, or never.
StopProcess ==
    /\ puts' = [k \in Stores |-> {[p EXCEPT !.mine = FALSE] : p \in puts[k]}]
    /\ UNCHANGED <<mode, off, live, file, table, issued, disturbed, lost>>

-----------------------------------------------------------------------------
(* Properties *)

\* "Write-through": once the puts of a store are done, and each was in order, or its
\* file writes succeeded, what a restart would load is what the process works on
\* (writeStore, initPlatformStore).
InOrderPutsSettle ==
    \A k \in Stores \ disturbed : puts[k] = {} => Load(k) = live[k]

\* A restart forgets content of a store only if a write of it before was not made or
\* failed, or a put of it failed, was overtaken by a later one, or was still on its way.
OnlyDisturbedStoresLose == lost \subseteq disturbed
=============================================================================
