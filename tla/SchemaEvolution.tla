--------------------------- MODULE SchemaEvolution ---------------------------
(***************************************************************************)
(* What a contract may change against the saved lineage of its pipeline    *)
(* (lib/schema-evolution.js, called by deployPipeline).  A contract is a   *)
(* record of its schema, a function from columns to types, and its policy, *)
(* or None for a policy it does not state.                                 *)
(***************************************************************************)

\* diffSchemas; the pii flags make warnings only.
DiffSchemas(old, new) ==
    [added |-> DOMAIN new \ DOMAIN old,
     removed |-> DOMAIN old \ DOMAIN new,
     typeChanged |-> {c \in DOMAIN old \cap DOMAIN new : old[c] # new[c]}]

\* The policy of the new contract, else that of the lineage, else compatible.
Policy(old, new, none) ==
    CASE new.policy # none -> new.policy
      [] old.policy # none -> old.policy
      [] OTHER -> "compatible"

\* evaluateSchemaEvolution, for a lineage that has columns; else there is no check.
Allowed(old, new, none) ==
    LET diff == DiffSchemas(old.schema, new.schema) IN
    \/ DOMAIN old.schema = {}
    \/ CASE Policy(old, new, none) = "strict" ->
                diff.added = {} /\ diff.removed = {} /\ diff.typeChanged = {}
         [] Policy(old, new, none) = "compatible" ->
                diff.removed = {} /\ diff.typeChanged = {}
         [] OTHER -> Policy(old, new, none) = "ignore"
=============================================================================
