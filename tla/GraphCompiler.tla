---------------------------- MODULE GraphCompiler ----------------------------
(***************************************************************************)
(* The canvas compiled to an Amazon States Language machine                *)
(* (lib/contract-builder/graph-to-workflow.js): one action per turn of its *)
(* loops.                                                                  *)
(*                                                                         *)
(* A block names its state.  Of a state its kind and the states it leads   *)
(* to are modelled, not the task it runs; blocks have the settings their   *)
(* type needs.                                                             *)
(***************************************************************************)
EXTENDS Naturals, Sequences, FiniteSets

CONSTANTS
    Canvases,   \* graphs: the type of each block, and the blocks its edges lead to in order
    None

\* Edges join blocks of the canvas.
ASSUME CanvasAssumption ==
    \A g \in Canvases :
        /\ DOMAIN g = {"type", "out"}
        /\ IsFiniteSet(DOMAIN g.type) /\ None \notin DOMAIN g.type
        /\ g.out \in [DOMAIN g.type -> Seq(DOMAIN g.type)]

VARIABLES
    graph,
    pc,         \* the loop the compiler is in
    startAt,
    states,     \* of the machine, by block
    branches,   \* the states of the branches, by Parallel and first block
    cursor, prev, visited,      \* of the main loop
    todo,       \* branches, or missing targets, still to be compiled
    walk,       \* the call of linearChainStates: fork and first name its branch
    passes      \* of completeReferencedTargets
loop == <<cursor, prev, visited>>
vars == <<graph, pc, startAt, states, branches, loop, todo, walk, passes>>

Nodes == DOMAIN graph.type
Out(n) == {graph.out[n][i] : i \in DOMAIN graph.out[n]}
First(n) == IF graph.out[n] = <<>> THEN None ELSE graph.out[n][1]
Edges == {e \in Nodes \X Nodes : e[2] \in Out(e[1])}

\* Forks: the main loop alone compiles them.
ForkTypes == {"parallel", "choice"}

\* findStartNodes.
StartNodes ==
    LET explicit == {n \in Nodes : graph.type[n] = "start"} IN
    IF explicit # {} THEN explicit ELSE {n \in Nodes : \A m \in Nodes : n \notin Out(m)}

\* A set of blocks that has the start blocks and what its blocks lead to.
ClosedFromStart(S) == StartNodes \subseteq S /\ \A n \in S : Out(n) \subseteq S

\* validateWorkflowGraph; blocks are reachable when no smaller set is closed.
Valid ==
    /\ \E n \in Nodes : graph.type[n] = "source"
    /\ \E n \in Nodes : graph.type[n] = "sink"
    /\ StartNodes # {}
    /\ \A n \in Nodes : graph.type[n] \in ForkTypes => Len(graph.out[n]) >= 2
    /\ \A S \in SUBSET Nodes : ClosedFromStart(S) => S = Nodes

-----------------------------------------------------------------------------
(* States *)

Step(end) == [kind |-> "step", next |-> None, end |-> end, to |-> {}]

\* Seeded fault: the parallel is linked to what comes after the merge.
ParallelSkipsMerge(n, merge) ==
    LET after == IF merge = None THEN None ELSE First(merge) IN
    [kind |-> "Parallel", next |-> after, end |-> after = None, to |-> {}]

ParallelState(n, merge) == [kind |-> "Parallel", next |-> merge, end |-> merge = None, to |-> {}]

ChoiceState(n) == [kind |-> "Choice", next |-> None, end |-> FALSE, to |-> Out(n)]

Put(S, n, s) == [m \in DOMAIN S \cup {n} |-> IF m = n THEN s ELSE S[m]]

Link(S, from, to) == IF from \in DOMAIN S THEN [S EXCEPT ![from].next = to] ELSE S

Targets(s) == s.to \cup ({s.next} \ {None})

\* Targets of states that are not states.
Missing == (UNION {Targets(states[n]) : n \in DOMAIN states}) \ DOMAIN states

\* Seeded fault: states without a successor are left as they are.
FinalizeNothing(S) == S

\* finalizeTerminals.
Finalize(S) ==
    [n \in DOMAIN S |->
        IF S[n].kind # "Choice" /\ S[n].next = None THEN [S[n] EXCEPT !.end = TRUE] ELSE S[n]]

-----------------------------------------------------------------------------
(* The chain of linearChainStates, into a branch or into the machine *)

NoWalk == [fork |-> None, first |-> None, stop |-> None, current |-> None, prev |-> None]

\* There is a block to go on to, before stop, without a state and not a fork.
WalkGoesOn(S) ==
    /\ walk.current \notin {None, walk.stop} \cup DOMAIN S
    /\ graph.type[walk.current] \notin ForkTypes

\* Seeded fault: the state before is not linked.
ChainUnlinked(S, n, from) == Put(S, n, Step(graph.out[n] = <<>>))

\* The state of a block, linked to by the state before if there is one.
Chain(S, n, from) == Link(Put(S, n, Step(graph.out[n] = <<>>)), from, n)

WalkOn ==
    walk' = [walk EXCEPT !.prev = walk.current,
                         !.current = IF Len(graph.out[walk.current]) = 1
                                     THEN First(walk.current) ELSE None]

-----------------------------------------------------------------------------
(* compileGraphToStateMachine *)

Init ==
    /\ graph \in Canvases
    /\ pc = "validate"
    /\ startAt = None
    /\ states = << >> /\ branches = << >>
    /\ cursor = None /\ prev = None /\ visited = {}
    /\ todo = {} /\ walk = NoWalk /\ passes = 0

Refuse ==
    /\ pc = "validate" /\ ~Valid
    /\ pc' = "refused"
    /\ UNCHANGED <<graph, startAt, states, branches, loop, todo, walk, passes>>

\* starts[0] is any start block: the order of the blocks is used for nothing else.
Start(n) ==
    /\ pc = "validate" /\ Valid
    /\ pc' = "main" /\ startAt' = n /\ cursor' = n
    /\ UNCHANGED <<graph, states, branches, prev, visited, todo, walk, passes>>

\* Seeded fault: the main loop goes on as long as there is a next block.
MainGoesOnForever == cursor # None

MainGoesOn == cursor # None /\ cursor \notin visited

\* A turn of the main loop at a block of one of the types.
AtBlock(types) ==
    /\ pc = "main" /\ MainGoesOn
    /\ graph.type[cursor] \in types
    /\ visited' = visited \cup {cursor}

\* The first merge block the parallel is connected to ends its branches and is next.
IsMergeOf(n, merge) ==
    LET merges == {i \in DOMAIN graph.out[n] : graph.type[graph.out[n][i]] = "merge"} IN
    \/ merges = {} /\ merge = None
    \/ \E i \in merges : merge = graph.out[n][i] /\ \A j \in merges : i <= j

CompileParallel(merge) ==
    /\ AtBlock({"parallel"}) /\ IsMergeOf(cursor, merge)
    /\ pc' = "branches"
    /\ LET S == Put(states, cursor, ParallelState(cursor, merge)) IN
       IF merge = None
       THEN /\ states' = S
            /\ cursor' = None /\ UNCHANGED prev
       ELSE /\ states' = Put(S, merge, Step(graph.out[merge] = <<>>))
            /\ cursor' = First(merge) /\ prev' = merge
    /\ todo' = Out(cursor) \ {merge}
    /\ walk' = [NoWalk EXCEPT !.fork = cursor, !.stop = merge]
    /\ UNCHANGED <<graph, startAt, branches, passes>>

CompileChoice ==
    /\ AtBlock({"choice"})
    /\ states' = Put(states, cursor, ChoiceState(cursor))
    /\ prev' = cursor /\ cursor' = None
    /\ UNCHANGED <<graph, pc, startAt, branches, todo, walk, passes>>

CompileTask ==
    /\ AtBlock({graph.type[n] : n \in Nodes} \ ForkTypes)
    /\ states' = Chain(states, cursor, prev)
    /\ prev' = cursor /\ cursor' = First(cursor)
    /\ UNCHANGED <<graph, pc, startAt, branches, todo, walk, passes>>

MainEnds ==
    /\ pc = "main" /\ ~MainGoesOn
    /\ pc' = "pass"
    /\ UNCHANGED <<graph, startAt, states, branches, loop, todo, walk, passes>>

BranchGoesOn == walk.current # None /\ WalkGoesOn(branches[<<walk.fork, walk.first>>])

\* compileBranchSubgraph; a branch left without states is the EmptyBranch.
StartBranch(b) ==
    /\ pc = "branches" /\ b \in todo
    /\ ~BranchGoesOn
    /\ branches' = Put(branches, <<walk.fork, b>>, << >>)
    /\ todo' = todo \ {b}
    /\ walk' = [walk EXCEPT !.first = b, !.current = b, !.prev = None]
    /\ UNCHANGED <<graph, pc, startAt, states, loop, passes>>

ExtendBranch ==
    LET b == <<walk.fork, walk.first>> IN
    /\ pc = "branches" /\ BranchGoesOn
    /\ branches' = [branches EXCEPT ![b] = Chain(branches[b], walk.current, walk.prev)]
    /\ WalkOn
    /\ UNCHANGED <<graph, pc, startAt, states, loop, todo, passes>>

BranchesEnd ==
    /\ pc = "branches" /\ todo = {}
    /\ ~BranchGoesOn
    /\ pc' = "main" /\ walk' = NoWalk
    /\ UNCHANGED <<graph, startAt, states, branches, loop, todo, passes>>

\* completeReferencedTargets; a pass that has a target to add adds it.
StartPass ==
    /\ pc = "pass" /\ Missing # {} /\ passes < Cardinality(Nodes) + 5
    /\ pc' = "complete" /\ todo' = Missing /\ passes' = passes + 1
    /\ UNCHANGED <<graph, startAt, states, branches, loop, walk>>

\* A missing target: a fork becomes a Pass state, another starts a chain.
Materialise(n) ==
    /\ pc = "complete" /\ ~WalkGoesOn(states)
    /\ n \in todo /\ todo' = todo \ {n}
    /\ \/ n \in DOMAIN states /\ UNCHANGED <<states, walk>>
       \/ /\ n \notin DOMAIN states /\ graph.type[n] \in ForkTypes
          /\ states' = Put(states, n, Step(TRUE)) /\ UNCHANGED walk
       \/ /\ n \notin DOMAIN states /\ graph.type[n] \notin ForkTypes
          /\ walk' = [NoWalk EXCEPT !.current = n] /\ UNCHANGED states
    /\ UNCHANGED <<graph, pc, startAt, branches, loop, passes>>

ExtendMachine ==
    /\ pc = "complete" /\ WalkGoesOn(states)
    /\ states' = Chain(states, walk.current, walk.prev)
    /\ WalkOn
    /\ UNCHANGED <<graph, pc, startAt, branches, loop, todo, passes>>

EndPass ==
    /\ pc = "complete" /\ ~WalkGoesOn(states) /\ todo = {}
    /\ pc' = "pass"
    /\ UNCHANGED <<graph, startAt, states, branches, loop, todo, walk, passes>>

FinalizeTerminals ==
    /\ pc = "pass" /\ ~(Missing # {} /\ passes < Cardinality(Nodes) + 5)
    /\ pc' = "done" /\ states' = Finalize(states)
    /\ UNCHANGED <<graph, startAt, branches, loop, todo, walk, passes>>

Next ==
    \/ Refuse
    \/ \E n \in StartNodes : Start(n)
    \/ \E merge \in Nodes \cup {None} : CompileParallel(merge)
    \/ CompileChoice
    \/ CompileTask
    \/ MainEnds
    \/ \E b \in todo : StartBranch(b)
    \/ ExtendBranch
    \/ BranchesEnd
    \/ StartPass
    \/ \E n \in todo : Materialise(n)
    \/ ExtendMachine
    \/ EndPass
    \/ FinalizeTerminals

Spec == Init /\ [][Next]_vars

\* compileGraphToStateMachine is a synchronous function: it takes its steps.
FairSpec == Spec /\ WF_vars(Next)

-----------------------------------------------------------------------------
(* Properties *)

Compiled == pc = "done"

\* The Amazon States Language asks it: what a state leads to is a state, within a
\* branch a state of the branch, and every state of the machine but a Choice has a
\* successor or ends, not both (completeReferencedTargets, finalizeTerminals, for
\* graphs with cycles too).
MachineIsWellFormed ==
    Compiled =>
        /\ startAt \in DOMAIN states
        /\ Missing = {}
        /\ \A n \in DOMAIN states :
            states[n].kind # "Choice" => (states[n].end <=> states[n].next = None)
        /\ \A b \in DOMAIN branches : \A n \in DOMAIN branches[b] :
            Targets(branches[b][n]) \subseteq DOMAIN branches[b]

Transitions(S) == {e \in (DOMAIN S) \X Nodes : e[2] \in Targets(S[e[1]])}

\* Blocks run in an order the canvas has: the machine begins at a start block, a
\* transition of the machine or within a branch is an edge, and a Parallel forks to
\* every block it is connected to but its merge, at that block
\* (compileGraphToStateMachine, linearChainStates).
MachineFollowsTheGraph ==
    Compiled =>
        /\ startAt \in StartNodes
        /\ Transitions(states) \subseteq Edges
        /\ \A b \in DOMAIN branches :
            /\ b \in Edges
            /\ Transitions(branches[b]) \subseteq Edges
            /\ DOMAIN branches[b] # {} => b[2] \in DOMAIN branches[b]
        /\ \A n \in DOMAIN states : states[n].kind = "Parallel" =>
            \A m \in Out(n) \ {states[n].next} : <<n, m>> \in DOMAIN branches

\* Blocks the machine runs: those of every set that has startAt and what its states
\* lead to, and those of the branches of its Parallels.
Run ==
    LET closed == {S \in SUBSET Nodes :
                      startAt \in S /\ \A n \in S \cap DOMAIN states : Targets(states[n]) \subseteq S}
        top == {n \in Nodes : \A S \in closed : n \in S}
    IN top \cup UNION {DOMAIN branches[b] : b \in {b \in DOMAIN branches : b[1] \in top}}

\* A canvas with one start block that is a chain, or a Choice with separate chains,
\* is run to its end.
SimpleGraph ==
    /\ \A l, m \in Nodes : Out(l) \cap Out(m) # {} => l = m
    /\ \A n \in Nodes : Len(graph.out[n]) > 1 => graph.type[n] = "choice" /\ StartNodes = {n}
    /\ \E n \in Nodes : StartNodes = {n}

SimpleGraphsRunWhole == Compiled /\ SimpleGraph => Run = Nodes

\* Whatever cycles the canvas has, the compiler comes to an end.
CompilerEnds == <>(pc \in {"done", "refused"})

\* The header of graph-to-workflow.js: "Supports many sources, transforms, sinks, plus
\* Parallel / Choice / Merge flow states".  The blocks after a start block are run.
FlowsRunWhole == Compiled /\ Cardinality(StartNodes) = 1 => Run = Nodes
=============================================================================
