--------------------------- MODULE MCConsumerAccess ---------------------------
(* Small instance of ConsumerAccess for TLC: two deployments of one pipeline, the
   second drops a column of the first and has a tag that says PASS.  One user asks for
   the product of this process, another for the one the second deployment may have
   registered in the remote catalog.  What a deployment may change is computed from the
   contracts.  One token is enough: calls for tokens write nothing but their token, and
   TokensAreEarned speaks of one token at a time. *)
EXTENDS ConsumerAccess, SchemaEvolution
CONSTANTS d1, d2, p1, u1, u2, r1, r2
MCDeploys == {d1, d2}
MCPipelineOf == [d \in MCDeploys |-> p1]
Contract == d1 :> [schema |-> "k" :> "int" @@ "v" :> "int", policy |-> None]
         @@ d2 :> [schema |-> "k" :> "int", policy |-> "compatible"]
MCBreaks == {b \in MCDeploys \X MCDeploys : ~Allowed(Contract[b[1]], Contract[b[2]], None)}
MCBy == r1 :> u1 @@ r2 :> u2
MCFor == r1 :> p1 @@ r2 :> d2
=============================================================================
