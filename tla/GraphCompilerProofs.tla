------------------------- MODULE GraphCompilerProofs -------------------------
(* Proofs about GraphCompiler, for every set of canvases. *)
EXTENDS GraphCompiler, FiniteSetTheorems, TLAPS

-----------------------------------------------------------------------------
(* The inductive invariant *)

Blocks == Nodes \cup {None}

State == [kind : {"step", "Parallel", "Choice"}, next : Blocks, end : BOOLEAN, to : SUBSET Nodes]

\* States by block.
IsMap(S) ==
    /\ S = [n \in DOMAIN S |-> S[n]] /\ DOMAIN S \subseteq Nodes
    /\ \A n \in DOMAIN S : S[n] \in State

TypeOK ==
    /\ graph \in Canvases
    /\ pc \in {"validate", "main", "branches", "pass", "complete", "done", "refused"}
    /\ startAt \in Blocks /\ cursor \in Blocks /\ prev \in Blocks
    /\ visited \subseteq Nodes /\ todo \subseteq Nodes
    /\ walk \in [fork : Blocks, first : Blocks, stop : Blocks, current : Blocks, prev : Blocks]
    /\ IsMap(states)
    /\ branches = [b \in DOMAIN branches |-> branches[b]]
    /\ \A b \in DOMAIN branches : IsMap(branches[b])
    /\ passes \in Nat

\* Before the main loop nothing is compiled; after it the start block is.
Begun ==
    /\ pc \in {"validate", "refused"} =>
         /\ states = << >> /\ branches = << >> /\ visited = {} /\ todo = {}
         /\ cursor = None /\ prev = None /\ walk = NoWalk
    /\ pc \notin {"validate", "refused"} =>
         /\ Valid /\ startAt \in StartNodes
         /\ \/ startAt \in DOMAIN states
            \/ pc = "main" /\ cursor = startAt /\ prev = None /\ visited = {} /\ states = << >>
    /\ pc = "main" => walk = NoWalk
    /\ pc \in {"pass", "complete"} => walk.stop = None

\* What a state leads to is an edge, and its next is a state; a state with a next
\* does not end.
Linked(S) ==
    \A n \in DOMAIN S :
        /\ Targets(S[n]) \subseteq Out(n)
        /\ S[n].kind # "Choice" => S[n].to = {}
        /\ S[n].next # None => S[n].kind # "Choice" /\ S[n].next \in DOMAIN S /\ ~S[n].end

\* The state the next block is going to be linked to.
Linkable(S, from, to) ==
    to # None /\ from # None =>
        /\ from \in DOMAIN S /\ S[from].kind = "step" /\ ~S[from].end
        /\ to \in Out(from)

StatesLinked ==
    /\ Linked(states)
    /\ pc \in {"main", "branches"} => Linkable(states, prev, cursor)
    /\ pc \in {"pass", "complete"} => Linkable(states, walk.prev, walk.current)

\* A branch begins at its first block, once it has states.
Branched ==
    /\ \A b \in DOMAIN branches :
         /\ b \in Edges
         /\ Linked(branches[b])
         /\ \A n \in DOMAIN branches[b] : branches[b][n].kind = "step"
         /\ DOMAIN branches[b] = {} \/ b[2] \in DOMAIN branches[b]
    /\ pc = "branches" => walk.fork \in Nodes /\ todo \subseteq Out(walk.fork)
    /\ pc = "branches" /\ walk.current # None =>
         LET b == <<walk.fork, walk.first>> IN
         /\ b \in DOMAIN branches
         /\ Linkable(branches[b], walk.prev, walk.current)
         /\ DOMAIN branches[b] = {} => walk.current = walk.first

\* A Parallel has its branches, but for those that are still to be compiled.
Forked ==
    \A n \in DOMAIN states : states[n].kind = "Parallel" =>
        \A m \in Out(n) \ {states[n].next} :
            \/ <<n, m>> \in DOMAIN branches
            \/ pc = "branches" /\ n = walk.fork /\ m \in todo

\* One pass of completeReferencedTargets is enough.
Completed ==
    /\ pc \in {"validate", "main", "branches", "refused"} => passes = 0
    /\ pc = "pass" /\ passes # 0 => Missing = {}
    /\ pc = "complete" => passes = 1 /\ Missing \subseteq todo \cup (IF WalkGoesOn(states) THEN {walk.current} ELSE {})
    /\ pc = "done" =>
         /\ Missing = {}
         /\ \A n \in DOMAIN states : states[n].kind # "Choice" /\ states[n].next = None => states[n].end

Inv ==
    /\ TypeOK /\ Begun /\ StatesLinked /\ Branched /\ Forked /\ Completed

Referenced(S) == UNION {Targets(S[n]) : n \in DOMAIN S}

\* States but the first have a predecessor, and lead to all the blocks their block is
\* connected to, but for the start block and the block that one of them leads to next.
Joined(S, from, to) ==
    /\ DOMAIN S \subseteq Referenced(S) \cup {startAt}
    /\ \A n \in DOMAIN S :
         Out(n) \subseteq Targets(S[n]) \cup {startAt} \cup (IF n = from THEN {to} ELSE {})
    /\ from # None => from \in DOMAIN S /\ S[from].next = None

\* What the compiler has made of a simple graph.
Whole ==
    SimpleGraph /\ pc \notin {"validate", "refused"} =>
        /\ pc # "branches" /\ branches = << >>
        /\ StartNodes = {startAt}
        /\ pc = "main" =>
             /\ Joined(states, prev, cursor)
             /\ DOMAIN states = visited
             /\ prev = None => cursor = startAt
        /\ pc \in {"pass", "done"} => Joined(states, None, None)
        /\ pc = "pass" /\ passes = 0 => walk = NoWalk
        /\ pc = "complete" =>
             /\ Joined(states, walk.prev, walk.current)
             /\ todo \subseteq Referenced(states)
             /\ walk.current # None /\ walk.prev = None => walk.current \in Referenced(states)

-----------------------------------------------------------------------------
(* The canvas, and the operators on states *)

LEMMA CanvasFacts ==
    ASSUME graph \in Canvases
    PROVE  /\ None \notin Nodes /\ IsFiniteSet(Nodes)
           /\ \A n \in Nodes :
                /\ graph.out[n] \in Seq(Nodes) /\ Out(n) \subseteq Nodes
                /\ First(n) \in Blocks
                /\ First(n) # None => First(n) \in Out(n)
                /\ First(n) = None <=> graph.out[n] = << >>
                /\ graph.out[n] = << >> <=> Out(n) = {}
                /\ Len(graph.out[n]) <= 1 => Out(n) \subseteq {First(n)}
<1>1. None \notin Nodes /\ IsFiniteSet(Nodes) /\ graph.out \in [Nodes -> Seq(Nodes)]
  BY CanvasAssumption DEF Nodes
<1>2. ASSUME NEW n \in Nodes
      PROVE  /\ graph.out[n] \in Seq(Nodes) /\ Out(n) \subseteq Nodes
             /\ First(n) \in Blocks
             /\ First(n) # None => First(n) \in Out(n)
             /\ First(n) = None <=> graph.out[n] = << >>
             /\ graph.out[n] = << >> <=> Out(n) = {}
             /\ Len(graph.out[n]) <= 1 => Out(n) \subseteq {First(n)}
  <2>. DEFINE s == graph.out[n]
  <2>1. s \in Seq(Nodes)
    BY <1>1
  <2>2. DOMAIN s = 1 .. Len(s) /\ Len(s) \in Nat /\ \A i \in 1 .. Len(s) : s[i] \in Nodes
    BY <2>1
  <2>3. s # << >> => Len(s) >= 1
    BY <2>1
  <2>4. s = << >> => Len(s) = 0
    BY <2>1
  <2>5. Out(n) = {s[i] : i \in 1 .. Len(s)}
    BY <2>2 DEF Out
  <2>6. First(n) = IF s = << >> THEN None ELSE s[1]
    BY DEF First
  <2>. HIDE DEF s
  <2>7. s # << >> => s[1] \in Nodes /\ s[1] \in Out(n)
    BY <2>2, <2>3, <2>5
  <2>8. Len(s) <= 1 => Out(n) \subseteq {First(n)}
    BY <2>2, <2>3, <2>4, <2>5, <2>6
  <2>9. First(n) \in Blocks /\ (First(n) # None => First(n) \in Out(n))
    BY <2>6, <2>7 DEF Blocks
  <2>10. (First(n) = None) <=> s = << >>
    BY <1>1, <2>6, <2>7
  <2>11. (s = << >>) <=> (Out(n) = {})
    BY <2>2, <2>4, <2>5, <2>7
  <2>12. Out(n) \subseteq Nodes
    BY <2>2, <2>5
  <2>. QED
    BY <2>1, <2>8, <2>9, <2>10, <2>11, <2>12 DEF s
<1>. QED
  BY <1>1, <1>2

LEMMA PutIs ==
    ASSUME NEW S, NEW n, NEW s
    PROVE  /\ \A m : m \in DOMAIN Put(S, n, s) <=> m \in DOMAIN S \cup {n}
           /\ Put(S, n, s)[n] = s
           /\ \A m \in DOMAIN S : m # n => Put(S, n, s)[m] = S[m]
BY DEF Put

LEMMA PutIsMap ==
    ASSUME NEW S, NEW n \in Nodes, NEW s \in State, IsMap(S)
    PROVE  IsMap(Put(S, n, s))
<1>. DEFINE T == Put(S, n, s)
<1>1. T = [m \in DOMAIN T |-> T[m]]
  BY DEF Put
<1>2. DOMAIN T = DOMAIN S \cup {n} /\ \A m \in DOMAIN T : T[m] = IF m = n THEN s ELSE S[m]
  BY DEF Put
<1>. HIDE DEF T
<1>3. DOMAIN T \subseteq Nodes /\ \A m \in DOMAIN T : T[m] \in State
  BY <1>2 DEF IsMap
<1>. QED
  BY <1>1, <1>3 DEF IsMap, T

LEMMA StepIsState ==
    ASSUME NEW e \in BOOLEAN
    PROVE  /\ Step(e) \in State /\ Targets(Step(e)) = {}
           /\ Step(e).kind = "step" /\ Step(e).to = {}
           /\ Step(e).next = None /\ Step(e).end = e
BY DEF Step, State, Blocks, Targets

\* A state that differs in its next.
Relinked(s, t, next) == t.kind = s.kind /\ t.to = s.to /\ t.end = s.end /\ t.next = next

LEMMA LinkIs ==
    ASSUME NEW S, NEW from \in Blocks, NEW to \in Nodes, IsMap(S)
    PROVE  /\ IsMap(Link(S, from, to))
           /\ DOMAIN Link(S, from, to) = DOMAIN S
           /\ \A m \in DOMAIN S : m # from => Link(S, from, to)[m] = S[m]
           /\ from \in DOMAIN S => Relinked(S[from], Link(S, from, to)[from], to)
<1>1. CASE from \in DOMAIN S
  <2>. DEFINE T == [S EXCEPT ![from].next = to]
  <2>1. Link(S, from, to) = T
    BY <1>1 DEF Link
  <2>2. DOMAIN T = DOMAIN S /\ T = [m \in DOMAIN T |-> T[m]]
    BY DEF IsMap
  <2>3. T[from] = [S[from] EXCEPT !.next = to] /\ \A m \in DOMAIN S : m # from => T[m] = S[m]
    BY <1>1 DEF IsMap
  <2>4. [S[from] EXCEPT !.next = to] \in State
    BY <1>1 DEF IsMap, State, Blocks
  <2>5. Relinked(S[from], T[from], to)
    BY <1>1, <2>3 DEF Relinked, IsMap, State
  <2>. QED
    BY <1>1, <2>1, <2>2, <2>3, <2>4, <2>5 DEF IsMap
<1>2. CASE from \notin DOMAIN S
  BY <1>2 DEF Link
<1>. QED
  BY <1>1, <1>2

\* A state for n, linked to by the state it comes from.
LEMMA ChainIs ==
    ASSUME graph \in Canvases, NEW S, IsMap(S), NEW n \in Nodes, NEW from \in Blocks,
           Linkable(S, from, n)
    PROVE  /\ IsMap(Chain(S, n, from))
           /\ \A m : m \in DOMAIN Chain(S, n, from) <=> m \in DOMAIN S \cup {n}
           /\ \A m \in DOMAIN S : m # from /\ m # n => Chain(S, n, from)[m] = S[m]
           /\ Chain(S, n, from)[n].kind = "step" /\ Chain(S, n, from)[n].to = {}
           /\ graph.out[n] # << >> => ~Chain(S, n, from)[n].end
           /\ Chain(S, n, from)[n].next = IF from = n THEN n ELSE None
           /\ from # n /\ from # None => Relinked(S[from], Chain(S, n, from)[from], n)
<1>. DEFINE s == Step(graph.out[n] = << >>)
            P == Put(S, n, s)
            T == Link(P, from, n)
<1>1. /\ s \in State /\ s.kind = "step" /\ s.to = {} /\ s.next = None
      /\ graph.out[n] # << >> => ~s.end
  BY StepIsState
<1>. HIDE DEF s
<1>2. IsMap(P)
  BY <1>1, PutIsMap
<1>3. DOMAIN P = DOMAIN S \cup {n} /\ P[n] = s /\ \A m \in DOMAIN S : m # n => P[m] = S[m]
  BY PutIs
<1>. HIDE DEF P
<1>4. /\ IsMap(T) /\ DOMAIN T = DOMAIN P
      /\ \A m \in DOMAIN P : m # from => T[m] = P[m]
      /\ from \in DOMAIN P => Relinked(P[from], T[from], n)
  BY <1>2, LinkIs
<1>5. from # None => from \in DOMAIN S
  BY CanvasFacts DEF Linkable
<1>6. T = Chain(S, n, from)
  BY DEF Chain, s, P
<1>. HIDE DEF T
<1>7. /\ IsMap(T) /\ DOMAIN T = DOMAIN S \cup {n}
      /\ \A m \in DOMAIN S : m # from /\ m # n => T[m] = S[m]
  BY <1>3, <1>4, <1>5
<1>8. T[n].kind = "step" /\ T[n].to = {} /\ (graph.out[n] # << >> => ~T[n].end)
      /\ T[n].next = IF from = n THEN n ELSE None
  BY <1>1, <1>3, <1>4 DEF Relinked
<1>9. from # n /\ from # None => Relinked(S[from], T[from], n)
  BY <1>3, <1>4, <1>5
<1>. QED
  BY <1>6, <1>7, <1>8, <1>9

LEMMA ChainIsLinked ==
    ASSUME graph \in Canvases, NEW S, IsMap(S), Linked(S), NEW n \in Nodes, NEW from \in Blocks,
           Linkable(S, from, n)
    PROVE  Linked(Chain(S, n, from))
<1>. DEFINE T == Chain(S, n, from)
<1>0. DOMAIN T = DOMAIN S \cup {n}
  BY ChainIs
<1>1. /\ IsMap(T)
      /\ \A m \in DOMAIN S : m # from /\ m # n => T[m] = S[m]
      /\ T[n].kind = "step" /\ T[n].to = {} /\ (graph.out[n] # << >> => ~T[n].end)
      /\ T[n].next = IF from = n THEN n ELSE None
      /\ from # n /\ from # None => Relinked(S[from], T[from], n)
  BY ChainIs
<1>2. n # None /\ (graph.out[n] = << >> <=> Out(n) = {})
  BY CanvasFacts
<1>. HIDE DEF T
<1>. SUFFICES ASSUME NEW m \in DOMAIN T
              PROVE  /\ Targets(T[m]) \subseteq Out(m)
                     /\ T[m].kind # "Choice" => T[m].to = {}
                     /\ T[m].next # None =>
                          T[m].kind # "Choice" /\ T[m].next \in DOMAIN T /\ ~T[m].end
  BY DEF Linked, T
<1>3. from # None => /\ from \in DOMAIN S /\ S[from].kind = "step" /\ ~S[from].end
                     /\ S[from].to = {} /\ n \in Out(from)
  BY <1>2 DEF Linkable, Linked
<1>4. CASE m # from /\ m # n
  BY <1>0, <1>1, <1>4 DEF Linked
<1>5. CASE m = n
  BY <1>0, <1>1, <1>2, <1>3, <1>5 DEF Targets
<1>6. CASE m = from /\ from # n
  <2>1. from # None
    BY <1>0, <1>1, <1>6, CanvasFacts DEF IsMap
  <2>. QED
    BY <1>0, <1>1, <1>2, <1>3, <1>6, <2>1 DEF Targets, Relinked
<1>. QED
  BY <1>4, <1>5, <1>6

-----------------------------------------------------------------------------
(* Types *)

\* The canvas stays as it is, and what is said of it.
LEMMA Framed ==
    ASSUME graph' = graph
    PROVE  /\ Nodes' = Nodes /\ Blocks' = Blocks /\ State' = State /\ Edges' = Edges
           /\ StartNodes' = StartNodes /\ Valid' = Valid /\ SimpleGraph' = SimpleGraph
           /\ \A n : Out(n)' = Out(n)
<1>1. Nodes' = Nodes /\ \A n : Out(n)' = Out(n)
  BY DEF Nodes, Out
<1>2. Blocks' = Blocks /\ State' = State /\ Edges' = Edges
  BY <1>1 DEF Blocks, State, Edges
<1>3. StartNodes' = StartNodes
  BY <1>1 DEF StartNodes
<1>4. Valid' = Valid
  BY <1>1, <1>3 DEF Valid, ClosedFromStart
<1>5. SimpleGraph' = SimpleGraph
  BY <1>1, <1>3 DEF SimpleGraph
<1>. QED
  BY <1>1, <1>2, <1>3, <1>4, <1>5

LEMMA GraphStays == ASSUME [Next]_vars PROVE graph' = graph
BY DEF Next, vars, Refuse, Start, CompileParallel, CompileChoice, CompileTask, MainEnds,
       StartBranch, ExtendBranch, BranchesEnd, StartPass, Materialise, ExtendMachine, EndPass,
       FinalizeTerminals

\* What the parallel's merge is, and the states after its turn.
LEMMA ParallelPuts ==
    ASSUME TypeOK, NEW merge \in Nodes \cup {None}, CompileParallel(merge)
    PROVE  /\ cursor \in Nodes /\ graph.type[cursor] = "parallel" /\ merge # cursor
           /\ merge # None => merge \in Out(cursor)
           /\ IsMap(states')
           /\ \A m : m \in DOMAIN states' <=> m \in DOMAIN states \cup ({cursor, merge} \ {None})
           /\ \A m \in DOMAIN states : m \notin {cursor, merge} => states'[m] = states[m]
           /\ states'[cursor] = ParallelState(cursor, merge)
           /\ merge # None => states'[merge] = Step(graph.out[merge] = << >>)
<1>1. cursor \in Nodes /\ cursor # None /\ graph.type[cursor] = "parallel"
  BY DEF CompileParallel, AtBlock, MainGoesOn, TypeOK, Blocks
<1>2. merge # None => merge \in Out(cursor) /\ graph.type[merge] = "merge"
  BY DEF CompileParallel, IsMergeOf, Out
<1>3. merge # cursor
  BY <1>1, <1>2
<1>. DEFINE p == ParallelState(cursor, merge)
            S == Put(states, cursor, p)
            s == Step(graph.out[merge] = << >>)
<1>4. p \in State /\ s \in State
  BY StepIsState DEF ParallelState, State, Blocks
<1>5. states' = IF merge = None THEN S ELSE Put(S, merge, s)
  BY DEF CompileParallel
<1>. HIDE DEF p, s
<1>6. IsMap(S)
  BY <1>1, <1>4, PutIsMap DEF TypeOK
<1>7. /\ \A m : m \in DOMAIN S <=> m \in DOMAIN states \cup {cursor}
      /\ S[cursor] = p
      /\ \A m \in DOMAIN states : m # cursor => S[m] = states[m]
  BY PutIs
<1>. HIDE DEF S
<1>8. CASE merge = None
  BY <1>1, <1>2, <1>3, <1>5, <1>6, <1>7, <1>8 DEF p
<1>9. CASE merge # None
  <2>1. IsMap(Put(S, merge, s))
    BY <1>4, <1>6, <1>9, PutIsMap
  <2>2. /\ \A m : m \in DOMAIN Put(S, merge, s) <=> m \in DOMAIN S \cup {merge}
        /\ Put(S, merge, s)[merge] = s
        /\ \A m \in DOMAIN S : m # merge => Put(S, merge, s)[m] = S[m]
    BY PutIs
  <2>. QED
    BY <1>1, <1>2, <1>3, <1>5, <1>7, <1>9, <2>1, <2>2 DEF p, s
<1>. QED
  BY <1>8, <1>9

\* A turn of the walk: it goes on to the only block its block leads to.
LEMMA WalkTurns ==
    ASSUME TypeOK, NEW S, WalkGoesOn(S), WalkOn
    PROVE  /\ walk.current \in Nodes /\ walk.current \notin DOMAIN S
           /\ graph.type[walk.current] \notin ForkTypes
           /\ walk' \in [fork : Blocks, first : Blocks, stop : Blocks, current : Blocks, prev : Blocks]
           /\ walk'.fork = walk.fork /\ walk'.first = walk.first /\ walk'.stop = walk.stop
           /\ walk'.prev = walk.current
           /\ walk'.current # None => walk'.current \in Out(walk.current)
           /\ Len(graph.out[walk.current]) <= 1 => Out(walk.current) \subseteq {walk'.current}
<1>1. walk.current \in Nodes /\ walk.current \notin DOMAIN S /\ graph.type[walk.current] \notin ForkTypes
  BY DEF WalkGoesOn, TypeOK, Blocks
<1>. DEFINE c == walk.current
            next == IF Len(graph.out[c]) = 1 THEN First(c) ELSE None
<1>2. /\ First(c) \in Blocks /\ (First(c) # None => First(c) \in Out(c))
      /\ graph.out[c] \in Seq(Nodes) /\ (graph.out[c] = << >> <=> Out(c) = {})
      /\ Len(graph.out[c]) <= 1 => Out(c) \subseteq {First(c)}
  BY <1>1, CanvasFacts DEF TypeOK
<1>3. Len(graph.out[c]) \in Nat /\ (Len(graph.out[c]) = 0 => graph.out[c] = << >>)
  BY <1>2
<1>4. next \in Blocks
  BY <1>2 DEF Blocks
<1>5. walk' = [walk EXCEPT !.prev = c, !.current = next]
  BY DEF WalkOn
<1>6. Len(graph.out[c]) <= 1 => Out(c) \subseteq {next}
  <2>1. Len(graph.out[c]) = 0 => Out(c) = {}
    BY <1>2, <1>3
  <2>2. Len(graph.out[c]) = 1 => next = First(c) /\ Out(c) \subseteq {First(c)}
    BY <1>2
  <2>3. Len(graph.out[c]) <= 1 => Len(graph.out[c]) = 0 \/ Len(graph.out[c]) = 1
    <3>1. \A k \in Nat : k <= 1 => k = 0 \/ k = 1
      OBVIOUS
    <3>. QED
      BY <1>3, <3>1
  <2>. HIDE DEF next
  <2>. QED
    BY <2>1, <2>2, <2>3
<1>7. next # None => next \in Out(c)
  BY <1>2
<1>. HIDE DEF next
<1>8. /\ walk' \in [fork : Blocks, first : Blocks, stop : Blocks, current : Blocks, prev : Blocks]
      /\ walk'.fork = walk.fork /\ walk'.first = walk.first /\ walk'.stop = walk.stop
      /\ walk'.prev = c /\ walk'.current = next
  BY <1>4, <1>5 DEF TypeOK
<1>. QED
  BY <1>1, <1>6, <1>7, <1>8

LEMMA InitTypes == Init => TypeOK
BY DEF Init, TypeOK, Blocks, NoWalk, IsMap

\* Steps that leave the states and the branches.
LEMMA KeptTypes ==
    ASSUME TypeOK, graph' = graph, UNCHANGED <<states, branches>>,
           pc' \in {"validate", "main", "branches", "pass", "complete", "done", "refused"},
           startAt' \in Blocks, cursor' \in Blocks, prev' \in Blocks, visited' \subseteq Nodes,
           todo' \subseteq Nodes, passes' \in Nat,
           walk' \in [fork : Blocks, first : Blocks, stop : Blocks, current : Blocks, prev : Blocks]
    PROVE  TypeOK'
BY Framed DEF TypeOK, IsMap

LEMMA NoWalkType ==
    ASSUME NEW f \in Blocks, NEW s \in Blocks, NEW c \in Blocks
    PROVE  /\ NoWalk \in [fork : Blocks, first : Blocks, stop : Blocks, current : Blocks, prev : Blocks]
           /\ [NoWalk EXCEPT !.fork = f, !.stop = s] \in
                [fork : Blocks, first : Blocks, stop : Blocks, current : Blocks, prev : Blocks]
           /\ [NoWalk EXCEPT !.current = c] \in
                [fork : Blocks, first : Blocks, stop : Blocks, current : Blocks, prev : Blocks]
BY DEF NoWalk, Blocks

LEMMA FinalizeIs ==
    ASSUME NEW S, IsMap(S)
    PROVE  /\ IsMap(Finalize(S))
           /\ \A n : n \in DOMAIN Finalize(S) <=> n \in DOMAIN S
           /\ \A n \in DOMAIN S :
                /\ Finalize(S)[n].kind = S[n].kind /\ Finalize(S)[n].to = S[n].to
                /\ Finalize(S)[n].next = S[n].next
                /\ S[n].kind # "Choice" /\ S[n].next = None => Finalize(S)[n].end
                /\ S[n].next # None => Finalize(S)[n] = S[n]
<1>. DEFINE T == Finalize(S)
            ended(n) == [S[n] EXCEPT !.end = TRUE]
<1>1. /\ T = [n \in DOMAIN T |-> T[n]] /\ DOMAIN T = DOMAIN S
      /\ \A n \in DOMAIN S : T[n] = IF S[n].kind # "Choice" /\ S[n].next = None
                                    THEN ended(n) ELSE S[n]
  BY DEF Finalize
<1>2. ASSUME NEW n \in DOMAIN S
      PROVE  /\ S[n] \in State /\ ended(n) \in State /\ ended(n).kind = S[n].kind
             /\ ended(n).to = S[n].to /\ ended(n).next = S[n].next /\ ended(n).end
  BY DEF IsMap, State
<1>. HIDE DEF T, ended
<1>3. \A n \in DOMAIN S :
                /\ T[n].kind = S[n].kind /\ T[n].to = S[n].to
                /\ T[n].next = S[n].next
                /\ S[n].kind # "Choice" /\ S[n].next = None => T[n].end
                /\ S[n].next # None => T[n] = S[n]
                /\ T[n] \in State
  BY <1>1, <1>2
<1>4. IsMap(T)
  BY <1>1, <1>3 DEF IsMap
<1>. QED
  BY <1>1, <1>3, <1>4 DEF T

\* A chain into the machine, from the main loop or from a walk.
LEMMA MachineChainTypes ==
    ASSUME TypeOK, graph' = graph, UNCHANGED branches, NEW n \in Nodes, NEW from \in Blocks,
           Linkable(states, from, n), states' = Chain(states, n, from),
           pc' = pc, startAt' = startAt, cursor' \in Blocks, prev' \in Blocks,
           visited' \subseteq Nodes, todo' = todo, passes' = passes,
           walk' \in [fork : Blocks, first : Blocks, stop : Blocks, current : Blocks, prev : Blocks]
    PROVE  TypeOK'
<1>1. IsMap(Chain(states, n, from))
  BY ChainIs DEF TypeOK
<1>. QED
  BY <1>1, Framed DEF TypeOK, IsMap

\* The branch that is being compiled.
LEMMA BranchChains ==
    ASSUME TypeOK, Branched, ExtendBranch
    PROVE  LET b == <<walk.fork, walk.first>> IN
           /\ b \in DOMAIN branches /\ IsMap(branches[b])
           /\ walk.current \in Nodes
           /\ walk.prev \in Blocks
           /\ Linkable(branches[b], walk.prev, walk.current)
           /\ IsMap(Chain(branches[b], walk.current, walk.prev))
           /\ branches' = [branches EXCEPT ![b] = Chain(branches[b], walk.current, walk.prev)]
           /\ \A c : c \in DOMAIN branches' <=> c \in DOMAIN branches
           /\ \A c \in DOMAIN branches : c # b => branches'[c] = branches[c]
           /\ branches'[b] = Chain(branches[b], walk.current, walk.prev)
<1>. DEFINE b == <<walk.fork, walk.first>>
<1>1. b \in DOMAIN branches /\ Linkable(branches[b], walk.prev, walk.current)
  BY DEF Branched, ExtendBranch, BranchGoesOn
<1>2. walk.current \in Nodes /\ walk.prev \in Blocks /\ IsMap(branches[b])
  BY <1>1 DEF TypeOK, ExtendBranch, BranchGoesOn, Blocks
<1>3. IsMap(Chain(branches[b], walk.current, walk.prev))
  BY <1>1, <1>2, ChainIs DEF TypeOK
<1>4. branches' = [branches EXCEPT ![b] = Chain(branches[b], walk.current, walk.prev)]
  BY DEF ExtendBranch
<1>. HIDE DEF b
<1>5. /\ \A c : c \in DOMAIN branches' <=> c \in DOMAIN branches
      /\ \A c \in DOMAIN branches : c # b => branches'[c] = branches[c]
      /\ branches'[b] = Chain(branches[b], walk.current, walk.prev)
  BY <1>1, <1>4 DEF TypeOK
<1>. QED
  BY <1>1, <1>2, <1>3, <1>4, <1>5 DEF b

LEMMA TypesStep ==
    ASSUME Inv, Next
    PROVE  TypeOK'
<1>. USE DEF Inv
<1>0. graph' = graph
  BY GraphStays
<1>1. CASE Refuse \/ MainEnds \/ EndPass
  BY <1>0, <1>1, KeptTypes DEF TypeOK, Refuse, MainEnds, EndPass, loop
<1>2. ASSUME NEW n \in StartNodes, Start(n) PROVE TypeOK'
  <2>1. n \in Blocks
    BY DEF StartNodes, Blocks
  <2>. QED
    BY <1>0, <1>2, <2>1, KeptTypes DEF TypeOK, Start
<1>3. ASSUME NEW merge \in Nodes \cup {None}, CompileParallel(merge) PROVE TypeOK'
  <2>1. IsMap(states') /\ cursor \in Nodes
    BY <1>3, ParallelPuts
  <2>2. /\ cursor' \in Blocks /\ prev' \in Blocks /\ visited' \subseteq Nodes
        /\ todo' \subseteq Nodes
    BY <1>3, <2>1, CanvasFacts DEF CompileParallel, AtBlock, TypeOK, Blocks
  <2>3. walk' \in [fork : Blocks, first : Blocks, stop : Blocks, current : Blocks, prev : Blocks]
    BY <1>3, <2>1, NoWalkType DEF CompileParallel, Blocks
  <2>. QED
    BY <1>0, <1>3, <2>1, <2>2, <2>3, Framed DEF TypeOK, IsMap, CompileParallel
<1>4. CASE CompileChoice
  <2>1. cursor \in Nodes /\ ChoiceState(cursor) \in State
    BY <1>4, CanvasFacts DEF CompileChoice, AtBlock, MainGoesOn, TypeOK, Blocks, ChoiceState, State
  <2>2. IsMap(states')
    BY <1>4, <2>1, PutIsMap DEF CompileChoice, TypeOK
  <2>. QED
    BY <1>0, <1>4, <2>1, <2>2, Framed DEF TypeOK, IsMap, CompileChoice, AtBlock, Blocks
<1>5. CASE CompileTask
  <2>1. cursor \in Nodes /\ pc = "main" /\ visited' = visited \cup {cursor}
        /\ First(cursor) \in Blocks
    BY <1>5, CanvasFacts DEF CompileTask, AtBlock, MainGoesOn, TypeOK, Blocks
  <2>2. Linkable(states, prev, cursor)
    BY <2>1 DEF StatesLinked
  <2>. QED
    BY <1>0, <1>5, <2>1, <2>2, MachineChainTypes DEF TypeOK, CompileTask, Blocks
<1>6. ASSUME NEW b \in todo, StartBranch(b) PROVE TypeOK'
  <2>. DEFINE B == Put(branches, <<walk.fork, b>>, << >>)
  <2>1. B = [c \in DOMAIN B |-> B[c]]
    BY DEF Put
  <2>2. /\ \A c : c \in DOMAIN B <=> c \in DOMAIN branches \cup {<<walk.fork, b>>}
        /\ B[<<walk.fork, b>>] = << >>
        /\ \A c \in DOMAIN branches : c # <<walk.fork, b>> => B[c] = branches[c]
    BY PutIs
  <2>3. IsMap(<< >>)
    BY DEF IsMap
  <2>4. walk' \in [fork : Blocks, first : Blocks, stop : Blocks, current : Blocks, prev : Blocks]
    BY <1>6 DEF StartBranch, TypeOK, Blocks
  <2>. HIDE DEF B
  <2>5. \A c \in DOMAIN B : IsMap(B[c])
    BY <2>2, <2>3 DEF TypeOK
  <2>6. branches' = B
    BY <1>6 DEF StartBranch, B
  <2>. QED
    BY <1>0, <1>6, <2>1, <2>4, <2>5, <2>6, Framed DEF TypeOK, IsMap, StartBranch, loop
<1>7. CASE ExtendBranch
  <2>. DEFINE b == <<walk.fork, walk.first>>
  <2>1. WalkGoesOn(branches[b]) /\ WalkOn
    BY <1>7 DEF ExtendBranch, BranchGoesOn
  <2>2. walk' \in [fork : Blocks, first : Blocks, stop : Blocks, current : Blocks, prev : Blocks]
    BY <2>1, WalkTurns
  <2>3. \A c \in DOMAIN branches' : IsMap(branches'[c])
    BY <1>7, BranchChains DEF TypeOK
  <2>4. branches' = [c \in DOMAIN branches' |-> branches'[c]]
    BY <1>7 DEF ExtendBranch
  <2>. QED
    BY <1>0, <1>7, <2>2, <2>3, <2>4, Framed DEF TypeOK, IsMap, ExtendBranch, loop
<1>8. CASE BranchesEnd \/ StartPass
  <2>1. Missing \subseteq Nodes
    BY DEF Missing, TypeOK, IsMap, State, Blocks, Targets
  <2>2. CASE BranchesEnd
    <3>1. NoWalk \in [fork : Blocks, first : Blocks, stop : Blocks, current : Blocks, prev : Blocks]
      BY DEF NoWalk, Blocks
    <3>. QED
      BY <1>0, <2>2, <3>1, KeptTypes DEF TypeOK, BranchesEnd, loop
  <2>3. CASE StartPass
    BY <1>0, <2>1, <2>3, KeptTypes DEF TypeOK, StartPass, loop
  <2>. QED
    BY <1>8, <2>2, <2>3
<1>9. ASSUME NEW n \in todo, Materialise(n) PROVE TypeOK'
  <2>0. n \in Nodes
    BY DEF TypeOK
  <2>1. CASE states' = states
    <3>1. walk' = walk \/ walk' = [NoWalk EXCEPT !.current = n]
      BY <1>9 DEF Materialise
    <3>2. walk' \in [fork : Blocks, first : Blocks, stop : Blocks, current : Blocks, prev : Blocks]
      BY <2>0, <3>1 DEF NoWalk, Blocks, TypeOK
    <3>. QED
      BY <1>0, <1>9, <2>1, <3>2, KeptTypes DEF TypeOK, Materialise, loop
  <2>2. CASE states' = Put(states, n, Step(TRUE)) /\ walk' = walk
    <3>1. IsMap(states')
      BY <2>0, <2>2, StepIsState, PutIsMap DEF TypeOK
    <3>. QED
      BY <1>0, <1>9, <2>2, <3>1, Framed DEF TypeOK, IsMap, Materialise, loop
  <2>. QED
    BY <1>9, <2>1, <2>2 DEF Materialise
<1>10. CASE ExtendMachine
  <2>1. WalkGoesOn(states) /\ WalkOn /\ pc = "complete"
    BY <1>10 DEF ExtendMachine
  <2>2. /\ walk' \in [fork : Blocks, first : Blocks, stop : Blocks, current : Blocks, prev : Blocks]
        /\ walk.current \in Nodes
    BY <2>1, WalkTurns
  <2>3. Linkable(states, walk.prev, walk.current) /\ walk.prev \in Blocks
    BY <2>1 DEF StatesLinked, TypeOK
  <2>. QED
    BY <1>0, <1>10, <2>2, <2>3, MachineChainTypes DEF TypeOK, ExtendMachine, loop
<1>11. CASE FinalizeTerminals
  <2>1. IsMap(states')
    BY <1>11, FinalizeIs DEF FinalizeTerminals, TypeOK
  <2>. QED
    BY <1>0, <1>11, <2>1, Framed DEF TypeOK, IsMap, FinalizeTerminals, loop
<1>. QED
  BY <1>1, <1>2, <1>3, <1>4, <1>5, <1>6, <1>7, <1>8, <1>9, <1>10, <1>11 DEF Next

-----------------------------------------------------------------------------
(* What is compiled when *)

LEMMA InitBegun == Init => Begun
BY DEF Init, Begun

\* States are replaced, never removed, and the block of a turn gets one.
LEMMA StatesStay ==
    ASSUME Inv, Next
    PROVE  /\ \A n \in DOMAIN states : n \in DOMAIN states'
           /\ \A types : AtBlock(types) => cursor \in DOMAIN states'
<1>. USE DEF Inv
<1>1. CASE UNCHANGED states /\ pc # "main"
  BY <1>1 DEF AtBlock
<1>2. ASSUME NEW merge \in Nodes \cup {None}, CompileParallel(merge)
      PROVE  (\A n \in DOMAIN states : n \in DOMAIN states') /\ cursor \in DOMAIN states'
  <2>1. /\ \A m : m \in DOMAIN states' <=> m \in DOMAIN states \cup ({cursor, merge} \ {None})
        /\ cursor \in Nodes
    BY <1>2, ParallelPuts
  <2>2. cursor # None
    BY <2>1, CanvasFacts DEF TypeOK
  <2>. QED
    BY <2>1, <2>2
<1>3. CASE CompileChoice
  BY <1>3, PutIs DEF CompileChoice
<1>4. CASE CompileTask
  <2>1. cursor \in Nodes /\ Linkable(states, prev, cursor)
    BY <1>4 DEF CompileTask, AtBlock, MainGoesOn, TypeOK, Blocks, StatesLinked
  <2>2. \A m : m \in DOMAIN Chain(states, cursor, prev) <=> m \in DOMAIN states \cup {cursor}
    BY <2>1, ChainIs DEF TypeOK
  <2>. QED
    BY <1>4, <2>2 DEF CompileTask
<1>5. CASE MainEnds
  BY <1>5 DEF MainEnds, AtBlock
<1>6. ASSUME NEW n \in todo, Materialise(n)
      PROVE  (\A m \in DOMAIN states : m \in DOMAIN states') /\ pc # "main"
  <2>1. pc # "main" /\ (states' = states \/ states' = Put(states, n, Step(TRUE)))
    BY <1>6 DEF Materialise
  <2>2. \A m : m \in DOMAIN Put(states, n, Step(TRUE)) <=> m \in DOMAIN states \cup {n}
    BY DEF Put
  <2>. QED
    BY <2>1, <2>2
<1>7. CASE ExtendMachine
  <2>1. walk.current \in Nodes /\ walk.prev \in Blocks /\ Linkable(states, walk.prev, walk.current)
    BY <1>7, WalkTurns DEF ExtendMachine, StatesLinked, TypeOK
  <2>2. \A m : m \in DOMAIN Chain(states, walk.current, walk.prev) <=>
               m \in DOMAIN states \cup {walk.current}
    BY <2>1, ChainIs DEF TypeOK
  <2>. QED
    BY <1>7, <2>2 DEF ExtendMachine, AtBlock
<1>8. CASE FinalizeTerminals
  BY <1>8, FinalizeIs DEF FinalizeTerminals, TypeOK, AtBlock
<1>9. CASE Refuse \/ ExtendBranch \/ BranchesEnd \/ StartPass \/ EndPass
           \/ (\E n \in StartNodes : Start(n)) \/ (\E b \in todo : StartBranch(b))
  BY <1>1, <1>9 DEF Refuse, ExtendBranch, BranchesEnd, StartPass, EndPass, Start, StartBranch
<1>. QED
  BY <1>2, <1>3, <1>4, <1>5, <1>6, <1>7, <1>8, <1>9 DEF Next, AtBlock

LEMMA BegunStep ==
    ASSUME Inv, Next
    PROVE  Begun'
<1>. USE DEF Inv
<1>0. graph' = graph /\ Valid' = Valid /\ StartNodes' = StartNodes
  BY GraphStays, Framed
<1>1. (\A n \in DOMAIN states : n \in DOMAIN states')
      /\ \A types : AtBlock(types) => cursor \in DOMAIN states'
  BY StatesStay
<1>2. CASE Refuse
  BY <1>0, <1>2 DEF Refuse, Begun, loop
<1>3. ASSUME NEW n \in StartNodes, Start(n) PROVE Begun'
  BY <1>0, <1>3 DEF Start, Begun
<1>4. ASSUME NEW merge \in Nodes \cup {None}, CompileParallel(merge) PROVE Begun'
  BY <1>0, <1>1, <1>4 DEF CompileParallel, Begun, AtBlock
<1>5. CASE CompileChoice \/ CompileTask
  BY <1>0, <1>1, <1>5 DEF CompileChoice, CompileTask, Begun, AtBlock
<1>6. CASE MainEnds
  <2>1. startAt \in Nodes /\ startAt # None
    BY <1>6, CanvasFacts DEF Begun, MainEnds, StartNodes, TypeOK
  <2>. QED
    BY <1>0, <1>1, <1>6, <2>1 DEF MainEnds, MainGoesOn, Begun, loop, NoWalk
<1>7. ASSUME NEW b \in todo, StartBranch(b) PROVE Begun'
  BY <1>0, <1>1, <1>7 DEF StartBranch, Begun, loop
<1>8. CASE ExtendBranch \/ BranchesEnd \/ StartPass \/ EndPass \/ FinalizeTerminals
  BY <1>0, <1>1, <1>8 DEF ExtendBranch, BranchesEnd, StartPass, EndPass, FinalizeTerminals, Begun, loop
<1>9. ASSUME NEW n \in todo, Materialise(n) PROVE Begun'
  BY <1>0, <1>1, <1>9 DEF Materialise, Begun, loop, NoWalk
<1>10. CASE ExtendMachine
  <2>1. walk'.stop = walk.stop
    BY <1>10, WalkTurns DEF ExtendMachine
  <2>. QED
    BY <1>0, <1>1, <1>10, <2>1 DEF ExtendMachine, Begun, loop
<1>. QED
  BY <1>2, <1>3, <1>4, <1>5, <1>6, <1>7, <1>8, <1>9, <1>10 DEF Next

-----------------------------------------------------------------------------
(* Links follow edges *)

LEMMA InitLinked == Init => StatesLinked
BY DEF Init, StatesLinked, Linked, Linkable

LEMMA LinkedFramed ==
    ASSUME graph' = graph
    PROVE  /\ \A n : Out(n)' = Out(n)
           /\ states' = states => Linked(states)' = Linked(states)
BY DEF Out, Linked

\* A step for a block without one; nothing leads nowhere.
LEMMA PutStepLinked ==
    ASSUME NEW S, Linked(S), NEW n, NEW e \in BOOLEAN, n \notin DOMAIN S
    PROVE  Linked(Put(S, n, Step(e)))
<1>. DEFINE T == Put(S, n, Step(e))
<1>1. /\ \A m : m \in DOMAIN T <=> m \in DOMAIN S \cup {n}
      /\ \A m \in DOMAIN S : m # n => T[m] = S[m]
  BY DEF Put
<1>2. T[n].kind = "step" /\ T[n].to = {} /\ T[n].next = None /\ Targets(T[n]) = {}
  BY DEF Put, Step, Targets
<1>. HIDE DEF T
<1>3. Linked(T)
  BY <1>1, <1>2 DEF Linked
<1>. QED
  BY <1>3 DEF T

LEMMA ParallelLinked ==
    ASSUME Inv, NEW merge \in Nodes \cup {None}, CompileParallel(merge)
    PROVE  StatesLinked'
<1>. USE DEF Inv
<1>0. graph' = graph
  BY DEF CompileParallel
<1>1. /\ cursor \in Nodes /\ merge # cursor /\ (merge # None => merge \in Out(cursor))
      /\ \A m : m \in DOMAIN states' <=> m \in DOMAIN states \cup ({cursor, merge} \ {None})
      /\ \A m \in DOMAIN states : m \notin {cursor, merge} => states'[m] = states[m]
      /\ states'[cursor] = ParallelState(cursor, merge)
      /\ merge # None => states'[merge] = Step(graph.out[merge] = << >>)
  BY ParallelPuts
<1>. DEFINE p == ParallelState(cursor, merge)
            s == Step(graph.out[merge] = << >>)
<1>2. /\ p.kind = "Parallel" /\ p.to = {} /\ p.next = merge /\ (merge # None => ~p.end)
      /\ Targets(p) = {merge} \ {None}
  BY DEF ParallelState, Targets
<1>3. /\ s.kind = "step" /\ s.to = {} /\ s.next = None /\ Targets(s) = {}
      /\ graph.out[merge] # << >> => ~s.end
  BY DEF Step, Targets
<1>. HIDE DEF p, s
<1>4. /\ states'[cursor].kind = "Parallel" /\ states'[cursor].to = {}
      /\ states'[cursor].next = merge /\ (merge # None => ~states'[cursor].end)
      /\ Targets(states'[cursor]) = {merge} \ {None}
  BY <1>1, <1>2 DEF p
<1>5. merge # None => /\ states'[merge].kind = "step" /\ states'[merge].to = {}
                      /\ states'[merge].next = None /\ Targets(states'[merge]) = {}
                      /\ (graph.out[merge] # << >> => ~states'[merge].end)
  BY <1>1, <1>3 DEF s
<1>6. ASSUME NEW m \in DOMAIN states'
      PROVE  /\ Targets(states'[m]) \subseteq Out(m)
             /\ states'[m].kind # "Choice" => states'[m].to = {}
             /\ states'[m].next # None =>
                  states'[m].kind # "Choice" /\ states'[m].next \in DOMAIN states' /\ ~states'[m].end
  <2>1. CASE m = cursor
    BY <1>1, <1>4, <2>1
  <2>2. CASE m = merge
    <3>1. m # None
      BY CanvasFacts, <1>1, <2>2 DEF TypeOK, IsMap
    <3>. QED
      BY <1>5, <2>2, <3>1
  <2>3. CASE m # cursor /\ m # merge
    <3>1. m \in DOMAIN states /\ states'[m] = states[m]
      BY <1>1, <2>3
    <3>. QED
      BY <1>1, <3>1 DEF StatesLinked, Linked
  <2>. QED
    BY <2>1, <2>2, <2>3
<1>7. pc' = "branches"
  BY DEF CompileParallel
<1>8. Linkable(states, prev, cursor)'
  <2>1. CASE merge = None
    BY <2>1 DEF CompileParallel, Linkable
  <2>2. CASE merge # None
    <3>1. cursor' = First(merge) /\ prev' = merge
      BY <2>2 DEF CompileParallel
    <3>2. First(merge) # None => First(merge) \in Out(merge) /\ graph.out[merge] # << >>
      BY <2>2, CanvasFacts DEF TypeOK
    <3>. QED
      BY <1>0, <1>1, <1>5, <2>2, <3>1, <3>2, LinkedFramed DEF Linkable
  <2>. QED
    BY <2>1, <2>2
<1>. QED
  BY <1>0, <1>6, <1>7, <1>8, LinkedFramed DEF StatesLinked, Linked

LEMMA ChoiceLinked ==
    ASSUME Inv, CompileChoice
    PROVE  StatesLinked'
<1>. USE DEF Inv
<1>. DEFINE c == ChoiceState(cursor)
<1>0. graph' = graph
  BY DEF CompileChoice
<1>1. c.kind = "Choice" /\ c.to = Out(cursor) /\ c.next = None /\ Targets(c) = Out(cursor)
  BY DEF ChoiceState, Targets
<1>2. /\ \A m : m \in DOMAIN states' <=> m \in DOMAIN states \cup {cursor}
      /\ states'[cursor] = c
      /\ \A m \in DOMAIN states : m # cursor => states'[m] = states[m]
  BY DEF CompileChoice, Put
<1>. HIDE DEF c
<1>3. \A m \in DOMAIN states' :
        /\ Targets(states'[m]) \subseteq Out(m)
        /\ states'[m].kind # "Choice" => states'[m].to = {}
        /\ states'[m].next # None =>
             states'[m].kind # "Choice" /\ states'[m].next \in DOMAIN states' /\ ~states'[m].end
  BY <1>1, <1>2 DEF StatesLinked, Linked
<1>4. pc' = "main" /\ cursor' = None
  BY DEF CompileChoice, AtBlock
<1>. QED
  BY <1>0, <1>3, <1>4, LinkedFramed DEF StatesLinked, Linked, Linkable

\* The state a chain has put is one to link from.
LEMMA ChainLinkable ==
    ASSUME graph \in Canvases, NEW S, IsMap(S), NEW n \in Nodes, NEW from \in Blocks,
           Linkable(S, from, n), NEW to, to # None => to \in Out(n)
    PROVE  Linkable(Chain(S, n, from), n, to)
<1>1. /\ \A m : m \in DOMAIN Chain(S, n, from) <=> m \in DOMAIN S \cup {n}
      /\ Chain(S, n, from)[n].kind = "step"
      /\ graph.out[n] # << >> => ~Chain(S, n, from)[n].end
  BY ChainIs
<1>2. to # None => graph.out[n] # << >>
  BY CanvasFacts
<1>. QED
  BY <1>1, <1>2 DEF Linkable

LEMMA LinkableFramed ==
    ASSUME graph' = graph, NEW S, NEW from, NEW to, states' = S, Linkable(S, from, to)
    PROVE  /\ prev' = from /\ cursor' = to => Linkable(states, prev, cursor)'
           /\ walk'.prev = from /\ walk'.current = to =>
                Linkable(states, walk.prev, walk.current)'
BY LinkedFramed DEF Linkable

LEMMA LinkedStep ==
    ASSUME Inv, Next
    PROVE  StatesLinked'
<1>. USE DEF Inv
<1>0. graph' = graph
  BY GraphStays
<1>1. CASE Refuse
  BY <1>0, <1>1, LinkedFramed DEF Refuse, StatesLinked
<1>2. CASE StartPass \/ EndPass
  <2>1. UNCHANGED <<states, walk>> /\ pc \in {"pass", "complete"} /\ pc' \in {"pass", "complete"}
    BY <1>2 DEF StartPass, EndPass
  <2>. QED
    BY <1>0, <2>1, LinkedFramed DEF StatesLinked, Linkable
<1>3. ASSUME NEW n \in StartNodes, Start(n) PROVE StatesLinked'
  <2>1. prev' = None /\ UNCHANGED states /\ pc' = "main"
    BY <1>3 DEF Start, Begun
  <2>. QED
    BY <1>0, <2>1, LinkedFramed DEF StatesLinked, Linkable
<1>4. CASE CompileTask
  <2>1. cursor \in Nodes /\ pc = "main" /\ pc' = "main" /\ Linkable(states, prev, cursor)
    BY <1>4 DEF CompileTask, AtBlock, MainGoesOn, TypeOK, Blocks, StatesLinked
  <2>2. states' = Chain(states, cursor, prev) /\ prev' = cursor /\ cursor' = First(cursor)
    BY <1>4 DEF CompileTask
  <2>3. Linked(Chain(states, cursor, prev))
    BY <2>1, ChainIsLinked DEF TypeOK, StatesLinked
  <2>4. First(cursor) # None => First(cursor) \in Out(cursor)
    BY <2>1, CanvasFacts DEF TypeOK
  <2>5. Linkable(Chain(states, cursor, prev), cursor, First(cursor))
    BY <2>1, <2>4, ChainLinkable DEF TypeOK
  <2>6. Linked(states)'
    BY <1>0, <2>2, <2>3, LinkedFramed DEF Linked
  <2>. QED
    BY <1>0, <2>1, <2>2, <2>5, <2>6, LinkableFramed DEF StatesLinked
<1>5. CASE MainEnds
  BY <1>0, <1>5, LinkedFramed DEF MainEnds, StatesLinked, Begun, NoWalk, Linkable, loop
<1>6. ASSUME NEW b \in todo, StartBranch(b) PROVE StatesLinked'
  BY <1>0, <1>6, LinkedFramed DEF StartBranch, StatesLinked, Linkable, loop
<1>7. CASE ExtendBranch \/ BranchesEnd
  BY <1>0, <1>7, LinkedFramed DEF ExtendBranch, BranchesEnd, StatesLinked, Linkable, loop
<1>8. ASSUME NEW n \in todo, Materialise(n) PROVE StatesLinked'
  <2>1. CASE states' = states
    <3>1. walk' = walk \/ walk' = [NoWalk EXCEPT !.current = n]
      BY <1>8 DEF Materialise
    <3>2. pc = "complete" /\ pc' = "complete"
      BY <1>8 DEF Materialise
    <3>. QED
      BY <1>0, <2>1, <3>1, <3>2, LinkedFramed DEF StatesLinked, Linkable, NoWalk
  <2>2. CASE states' = Put(states, n, Step(TRUE)) /\ walk' = walk /\ n \notin DOMAIN states
    <3>1. Linked(Put(states, n, Step(TRUE)))
      BY <2>2, PutStepLinked DEF StatesLinked
    <3>2. /\ \A m : m \in DOMAIN states' <=> m \in DOMAIN states \cup {n}
          /\ \A m \in DOMAIN states : states'[m] = states[m]
      BY <2>2 DEF Put
    <3>3. pc = "complete" /\ pc' = "complete"
      BY <1>8 DEF Materialise
    <3>4. Linkable(states', walk.prev, walk.current)
      BY <3>2, <3>3 DEF StatesLinked, Linkable
    <3>5. Linked(states)'
      BY <1>0, <2>2, <3>1, LinkedFramed DEF Linked
    <3>. QED
      BY <1>0, <2>2, <3>3, <3>4, <3>5, LinkableFramed DEF StatesLinked
  <2>. QED
    BY <1>8, <2>1, <2>2 DEF Materialise
<1>9. CASE ExtendMachine
  <2>1. WalkGoesOn(states) /\ WalkOn /\ pc = "complete" /\ pc' = "complete"
        /\ states' = Chain(states, walk.current, walk.prev)
    BY <1>9 DEF ExtendMachine
  <2>2. /\ walk.current \in Nodes /\ walk'.prev = walk.current
        /\ walk'.current # None => walk'.current \in Out(walk.current)
    BY <2>1, WalkTurns
  <2>3. Linkable(states, walk.prev, walk.current) /\ walk.prev \in Blocks
    BY <2>1 DEF StatesLinked, TypeOK
  <2>4. Linked(Chain(states, walk.current, walk.prev))
    BY <2>2, <2>3, ChainIsLinked DEF TypeOK, StatesLinked
  <2>5. Linkable(Chain(states, walk.current, walk.prev), walk.current, walk'.current)
    BY <2>2, <2>3, ChainLinkable DEF TypeOK
  <2>6. Linked(states)'
    BY <1>0, <2>1, <2>4, LinkedFramed DEF Linked
  <2>. QED
    BY <1>0, <2>1, <2>2, <2>5, <2>6, LinkableFramed DEF StatesLinked
<1>10. CASE FinalizeTerminals
  <2>1. /\ pc' = "done"
        /\ \A n : n \in DOMAIN states' <=> n \in DOMAIN states
        /\ \A n \in DOMAIN states :
             /\ states'[n].kind = states[n].kind /\ states'[n].to = states[n].to
             /\ states'[n].next = states[n].next
             /\ states[n].next # None => states'[n] = states[n]
    BY <1>10, FinalizeIs DEF FinalizeTerminals, TypeOK
  <2>. QED
    BY <1>0, <2>1, LinkedFramed DEF StatesLinked, Linked, Targets
<1>. QED
  BY <1>1, <1>2, <1>3, <1>4, <1>5, <1>6, <1>7, <1>8, <1>9, <1>10, ParallelLinked, ChoiceLinked DEF Next

-----------------------------------------------------------------------------
(* Branches *)

LEMMA InitBranched == Init => Branched
BY DEF Init, Branched

\* A branch as it should be.
WellBranched(b, S) ==
    /\ Linked(S)
    /\ \A n \in DOMAIN S : S[n].kind = "step"
    /\ DOMAIN S = {} \/ b[2] \in DOMAIN S

LEMMA WellBranchedFramed ==
    ASSUME graph' = graph
    PROVE  /\ Edges' = Edges
           /\ (\A b \in DOMAIN branches' : b \in Edges /\ WellBranched(b, branches'[b])) =>
                (\A b \in DOMAIN branches : b \in Edges /\ WellBranched(b, branches[b]))'
BY Framed DEF WellBranched, Linked

LEMMA BranchExtends ==
    ASSUME Inv, ExtendBranch
    PROVE  Branched'
<1>. USE DEF Inv
<1>. DEFINE b == <<walk.fork, walk.first>>
            T == Chain(branches[b], walk.current, walk.prev)
<1>0. graph' = graph
  BY DEF ExtendBranch
<1>1. /\ b \in DOMAIN branches /\ IsMap(branches[b])
      /\ walk.current \in Nodes /\ walk.prev \in Blocks
      /\ Linkable(branches[b], walk.prev, walk.current)
  BY BranchChains
<1>2. /\ \A c : c \in DOMAIN branches' <=> c \in DOMAIN branches
      /\ \A c \in DOMAIN branches : c # b => branches'[c] = branches[c]
      /\ branches'[b] = T
  BY BranchChains
<1>3. \A c \in DOMAIN branches : c \in Edges /\ WellBranched(c, branches[c])
  BY DEF Branched, WellBranched
<1>4. WellBranched(b, T)
  <2>1. Linked(T)
    BY <1>1, <1>3, ChainIsLinked DEF TypeOK, WellBranched
  <2>2. /\ \A m : m \in DOMAIN T <=> m \in DOMAIN branches[b] \cup {walk.current}
        /\ \A m \in DOMAIN branches[b] : m # walk.prev /\ m # walk.current => T[m] = branches[b][m]
        /\ T[walk.current].kind = "step"
        /\ walk.prev # walk.current /\ walk.prev # None =>
             Relinked(branches[b][walk.prev], T[walk.prev], walk.current)
    BY <1>1, ChainIs DEF TypeOK
  <2>3. None \notin DOMAIN branches[b]
    BY <1>1, CanvasFacts DEF IsMap, TypeOK
  <2>4. \A m \in DOMAIN T : T[m].kind = "step"
    BY <1>1, <1>3, <2>2, <2>3 DEF WellBranched, Relinked
  <2>5. DOMAIN branches[b] = {} => walk.current = b[2]
    BY DEF Branched, ExtendBranch, BranchGoesOn
  <2>6. b[2] \in DOMAIN T
    BY <1>1, <1>3, <2>2, <2>5 DEF WellBranched
  <2>. QED
    BY <2>1, <2>4, <2>6 DEF WellBranched
<1>5. /\ walk'.fork = walk.fork /\ walk'.first = walk.first /\ walk'.prev = walk.current
      /\ walk'.current # None => walk'.current \in Out(walk.current)
  BY WalkTurns DEF ExtendBranch, BranchGoesOn
<1>6. pc' = "branches" /\ todo' = todo /\ pc = "branches"
  BY DEF ExtendBranch
<1>. HIDE DEF T
<1>7. Linkable(T, walk.current, walk'.current)
  BY <1>1, <1>5, ChainLinkable DEF T, TypeOK
<1>8. walk.current \in DOMAIN T
  BY <1>1, ChainIs DEF T, TypeOK
<1>. HIDE DEF b
<1>9. \A c \in DOMAIN branches' : c \in Edges /\ WellBranched(c, branches'[c])
  BY <1>2, <1>3, <1>4
<1>10. (\A c \in DOMAIN branches : c \in Edges /\ WellBranched(c, branches[c]))'
  BY <1>0, <1>9, WellBranchedFramed
<1>11. (walk.fork \in Nodes /\ todo \subseteq Out(walk.fork))'
  BY <1>0, <1>5, <1>6 DEF Branched, Nodes, Out
<1>12. /\ <<walk'.fork, walk'.first>> = b /\ b \in DOMAIN branches' /\ branches'[b] = T
       /\ DOMAIN T # {}
  BY <1>1, <1>2, <1>5, <1>8 DEF b
<1>13. Linkable(branches[b], walk.prev, walk.current)'
  <2>1. walk'.fork = walk.fork /\ walk'.first = walk.first
    BY <1>5
  <2>. QED
    BY <1>0, <1>5, <1>7, <1>12, <2>1, Framed DEF Linkable, b
<1>. QED
  BY <1>5, <1>10, <1>11, <1>12, <1>13 DEF Branched, WellBranched, b

LEMMA BranchedStep ==
    ASSUME Inv, Next
    PROVE  Branched'
<1>. USE DEF Inv
<1>0. graph' = graph
  BY GraphStays
<1>1. \A c \in DOMAIN branches : c \in Edges /\ WellBranched(c, branches[c])
  BY DEF Branched, WellBranched
<1>2. CASE UNCHANGED branches /\ pc' # "branches"
  <2>1. (\A c \in DOMAIN branches : c \in Edges /\ WellBranched(c, branches[c]))'
    BY <1>0, <1>1, <1>2, WellBranchedFramed
  <2>. QED
    BY <1>2, <2>1 DEF Branched, WellBranched
<1>3. ASSUME NEW merge \in Nodes \cup {None}, CompileParallel(merge) PROVE Branched'
  <2>1. (\A c \in DOMAIN branches : c \in Edges /\ WellBranched(c, branches[c]))'
    BY <1>0, <1>1, <1>3, WellBranchedFramed DEF CompileParallel
  <2>2. walk'.fork = cursor /\ walk'.current = None /\ cursor \in Nodes
    BY <1>3, ParallelPuts DEF CompileParallel, NoWalk
  <2>3. todo' \subseteq Out(cursor)
    BY <1>3 DEF CompileParallel
  <2>4. (walk.fork \in Nodes /\ todo \subseteq Out(walk.fork))'
    BY <1>0, <2>2, <2>3 DEF Out, Nodes
  <2>. QED
    BY <2>1, <2>2, <2>4 DEF Branched, WellBranched
<1>4. ASSUME NEW b \in todo, StartBranch(b) PROVE Branched'
  <2>. DEFINE k == <<walk.fork, b>>
  <2>1. walk.fork \in Nodes /\ b \in Out(walk.fork) /\ b \in Nodes /\ pc' = "branches"
    BY <1>4 DEF Branched, StartBranch, TypeOK
  <2>2. k \in Edges
    BY <2>1 DEF Edges
  <2>3. branches' = Put(branches, k, << >>)
    BY <1>4 DEF StartBranch
  <2>4. WellBranched(k, << >>)
    BY DEF WellBranched, Linked
  <2>5. walk'.fork = walk.fork /\ walk'.first = b /\ walk'.current = b /\ walk'.prev = None
        /\ todo' \subseteq todo
    BY <1>4 DEF StartBranch, TypeOK
  <2>6. <<walk'.fork, walk'.first>> = k
    BY <2>5
  <2>. HIDE DEF k
  <2>7. /\ \A c : c \in DOMAIN branches' <=> c \in DOMAIN branches \cup {k}
        /\ branches'[k] = << >>
        /\ \A c \in DOMAIN branches : c # k => branches'[c] = branches[c]
    BY <2>3 DEF Put
  <2>8. \A c \in DOMAIN branches' : c \in Edges /\ WellBranched(c, branches'[c])
    BY <1>1, <2>2, <2>4, <2>7
  <2>9. (\A c \in DOMAIN branches : c \in Edges /\ WellBranched(c, branches[c]))'
    BY <1>0, <2>8, WellBranchedFramed
  <2>10. (walk.fork \in Nodes /\ todo \subseteq Out(walk.fork))'
    BY <1>0, <1>4, <2>1, <2>5 DEF Branched, StartBranch, Nodes, Out
  <2>11. Linkable(branches[<<walk.fork, walk.first>>], walk.prev, walk.current)'
    BY <2>5 DEF Linkable
  <2>. QED
    BY <2>5, <2>6, <2>7, <2>9, <2>10, <2>11 DEF Branched, WellBranched
<1>5. ASSUME NEW n \in todo, Materialise(n) PROVE Branched'
  BY <1>2, <1>5 DEF Materialise
<1>6. ASSUME NEW n \in StartNodes, Start(n) PROVE Branched'
  BY <1>2, <1>6 DEF Start
<1>. QED
  BY <1>2, <1>3, <1>4, <1>5, <1>6, BranchExtends
  DEF Next, Refuse, CompileChoice, CompileTask, AtBlock, MainEnds, BranchesEnd, StartPass,
      ExtendMachine, EndPass, FinalizeTerminals

-----------------------------------------------------------------------------
(* Parallels fork to their branches *)

LEMMA InitForked == Init => Forked
BY DEF Init, Forked

\* A chain puts and relinks steps only.
LEMMA ChainKeepsParallels ==
    ASSUME graph \in Canvases, NEW S, IsMap(S), NEW n \in Nodes, NEW from \in Blocks,
           Linkable(S, from, n)
    PROVE  \A m \in DOMAIN Chain(S, n, from) :
             Chain(S, n, from)[m].kind = "Parallel" =>
               m \in DOMAIN S /\ Chain(S, n, from)[m] = S[m]
<1>1. /\ \A m : m \in DOMAIN Chain(S, n, from) <=> m \in DOMAIN S \cup {n}
      /\ \A m \in DOMAIN S : m # from /\ m # n => Chain(S, n, from)[m] = S[m]
      /\ Chain(S, n, from)[n].kind = "step"
      /\ from # n /\ from # None => Relinked(S[from], Chain(S, n, from)[from], n)
  BY ChainIs
<1>2. from # None => S[from].kind = "step"
  BY CanvasFacts DEF Linkable
<1>3. None \notin DOMAIN S
  BY CanvasFacts DEF IsMap
<1>. QED
  BY <1>1, <1>2, <1>3 DEF Relinked

LEMMA ForkedStep ==
    ASSUME Inv, Next
    PROVE  Forked'
<1>. USE DEF Inv
<1>0. graph' = graph /\ \A n : Out(n)' = Out(n)
  BY GraphStays, Framed
\* Steps of the machine that put and relink no Parallel.
<1>1. ASSUME \A n \in DOMAIN states' : states'[n].kind = "Parallel" =>
                 n \in DOMAIN states /\ states'[n].kind = states[n].kind
                 /\ states'[n].next = states[n].next,
             UNCHANGED branches,
             pc # "branches"
      PROVE  Forked'
  BY <1>0, <1>1 DEF Forked
<1>2. CASE UNCHANGED states /\ UNCHANGED branches /\ pc # "branches"
  BY <1>1, <1>2
<1>3. CASE Refuse \/ MainEnds \/ StartPass \/ EndPass
  BY <1>2, <1>3 DEF Refuse, MainEnds, StartPass, EndPass
<1>4. ASSUME NEW n \in StartNodes, Start(n) PROVE Forked'
  BY <1>2, <1>4 DEF Start
<1>5. ASSUME NEW merge \in Nodes \cup {None}, CompileParallel(merge) PROVE Forked'
  <2>1. /\ \A m : m \in DOMAIN states' <=> m \in DOMAIN states \cup ({cursor, merge} \ {None})
        /\ \A m \in DOMAIN states : m \notin {cursor, merge} => states'[m] = states[m]
        /\ states'[cursor] = ParallelState(cursor, merge)
        /\ merge # None => states'[merge] = Step(graph.out[merge] = << >>)
        /\ IsMap(states')
    BY <1>5, ParallelPuts
  <2>2. merge # None => states'[merge].kind = "step"
    BY <2>1 DEF Step
  <2>3. states'[cursor].next = merge
    BY <2>1 DEF ParallelState
  <2>4. pc = "main" /\ pc' = "branches" /\ walk'.fork = cursor /\ todo' = Out(cursor) \ {merge}
        /\ UNCHANGED branches
    BY <1>5 DEF CompileParallel, AtBlock, NoWalk
  <2>5. ASSUME NEW n \in DOMAIN states', states'[n].kind = "Parallel",
               NEW m \in Out(n), m # states'[n].next
        PROVE  <<n, m>> \in DOMAIN branches' \/ (n = walk'.fork /\ m \in todo')
    <3>1. CASE n = cursor
      BY <2>3, <2>4, <2>5, <3>1
    <3>2. CASE n # cursor
      <4>1. n # None
        BY <2>1, CanvasFacts, <1>0, Framed DEF IsMap, TypeOK
      <4>2. n # merge
        BY <2>2, <2>5, <4>1
      <4>3. n \in DOMAIN states /\ states'[n] = states[n]
        BY <2>1, <3>2, <4>2
      <4>. QED
        BY <2>4, <2>5, <4>3 DEF Forked
    <3>. QED
      BY <3>1, <3>2
  <2>. QED
    BY <1>0, <2>4, <2>5 DEF Forked
<1>6. CASE CompileChoice
  <2>1. /\ \A m : m \in DOMAIN states' <=> m \in DOMAIN states \cup {cursor}
        /\ states'[cursor].kind = "Choice"
        /\ \A m \in DOMAIN states : m # cursor => states'[m] = states[m]
        /\ UNCHANGED branches /\ pc = "main"
    BY <1>6 DEF CompileChoice, AtBlock, Put, ChoiceState
  <2>2. \A n \in DOMAIN states' : states'[n].kind = "Parallel" =>
           n \in DOMAIN states /\ states'[n] = states[n]
    BY <2>1
  <2>. QED
    BY <1>1, <2>1, <2>2
<1>7. CASE CompileTask
  <2>1. cursor \in Nodes /\ pc = "main" /\ Linkable(states, prev, cursor)
        /\ states' = Chain(states, cursor, prev) /\ UNCHANGED branches
    BY <1>7 DEF CompileTask, AtBlock, MainGoesOn, TypeOK, Blocks, StatesLinked
  <2>2. \A n \in DOMAIN states' : states'[n].kind = "Parallel" =>
           n \in DOMAIN states /\ states'[n] = states[n]
    BY <2>1, ChainKeepsParallels DEF TypeOK
  <2>. QED
    BY <1>1, <2>1, <2>2
<1>8. ASSUME NEW b \in todo, StartBranch(b) PROVE Forked'
  <2>1. pc = "branches" /\ pc' = "branches" /\ walk'.fork = walk.fork /\ todo' = todo \ {b}
        /\ states' = states
        /\ \A c : c \in DOMAIN branches' <=> c \in DOMAIN branches \cup {<<walk.fork, b>>}
    BY <1>8 DEF StartBranch, TypeOK, Put
  <2>. QED
    BY <1>0, <2>1 DEF Forked
<1>9. CASE ExtendBranch
  <2>1. \A c : c \in DOMAIN branches' <=> c \in DOMAIN branches
    BY <1>9, BranchChains
  <2>2. walk'.fork = walk.fork /\ states' = states /\ todo' = todo /\ pc = "branches" /\ pc' = "branches"
    BY <1>9, WalkTurns DEF ExtendBranch, BranchGoesOn
  <2>. QED
    BY <1>0, <2>1, <2>2 DEF Forked
<1>10. CASE BranchesEnd
  BY <1>0, <1>10 DEF BranchesEnd, Forked
<1>11. ASSUME NEW b \in todo, Materialise(b) PROVE Forked'
  <2>1. pc # "branches" /\ UNCHANGED branches
        /\ (states' = states \/ states' = Put(states, b, Step(TRUE)))
    BY <1>11 DEF Materialise
  <2>2. CASE states' = Put(states, b, Step(TRUE))
    <3>1. /\ \A m : m \in DOMAIN states' <=> m \in DOMAIN states \cup {b}
          /\ states'[b].kind = "step"
          /\ \A m \in DOMAIN states : m # b => states'[m] = states[m]
      BY <2>2 DEF Put, Step
    <3>2. \A n \in DOMAIN states' : states'[n].kind = "Parallel" =>
             n \in DOMAIN states /\ states'[n] = states[n]
      BY <3>1
    <3>. QED
      BY <1>1, <2>1, <3>2
  <2>. QED
    BY <1>2, <2>1, <2>2
<1>12. CASE ExtendMachine
  <2>1. WalkGoesOn(states) /\ WalkOn /\ pc = "complete" /\ UNCHANGED branches
        /\ states' = Chain(states, walk.current, walk.prev)
    BY <1>12 DEF ExtendMachine
  <2>2. walk.current \in Nodes /\ walk.prev \in Blocks /\ Linkable(states, walk.prev, walk.current)
    BY <2>1, WalkTurns DEF StatesLinked, TypeOK
  <2>3. \A n \in DOMAIN states' : states'[n].kind = "Parallel" =>
           n \in DOMAIN states /\ states'[n] = states[n]
    BY <2>1, <2>2, ChainKeepsParallels DEF TypeOK
  <2>. QED
    BY <1>1, <2>1, <2>3
<1>13. CASE FinalizeTerminals
  <2>1. \A n \in DOMAIN states' :
           n \in DOMAIN states /\ states'[n].kind = states[n].kind /\ states'[n].next = states[n].next
    BY <1>13, FinalizeIs DEF FinalizeTerminals, TypeOK
  <2>. QED
    BY <1>1, <1>13, <2>1 DEF FinalizeTerminals
<1>. QED
  BY <1>3, <1>4, <1>5, <1>6, <1>7, <1>8, <1>9, <1>10, <1>11, <1>12, <1>13 DEF Next

-----------------------------------------------------------------------------
(* Targets that are missing are completed in one pass *)

LEMMA InitCompleted == Init => Completed
BY DEF Init, Completed, Missing

LEMMA MissingIs ==
    /\ \A m : m \in Missing <=>
         m \notin DOMAIN states /\ \E n \in DOMAIN states : m \in Targets(states[n])
    /\ \A m : m \in Missing' <=>
         m \notin DOMAIN states' /\ \E n \in DOMAIN states' : m \in Targets(states'[n])
BY DEF Missing

\* A chain adds the state of its block, and a link to it.
LEMMA ChainTargets ==
    ASSUME graph \in Canvases, NEW S, IsMap(S), NEW n \in Nodes, NEW from \in Blocks,
           Linkable(S, from, n)
    PROVE  \A m \in DOMAIN Chain(S, n, from) : \A t \in Targets(Chain(S, n, from)[m]) :
             t = n \/ (m \in DOMAIN S /\ t \in Targets(S[m]))
<1>1. /\ \A m : m \in DOMAIN Chain(S, n, from) <=> m \in DOMAIN S \cup {n}
      /\ \A m \in DOMAIN S : m # from /\ m # n => Chain(S, n, from)[m] = S[m]
      /\ Chain(S, n, from)[n].to = {}
      /\ Chain(S, n, from)[n].next = IF from = n THEN n ELSE None
      /\ from # n /\ from # None => Relinked(S[from], Chain(S, n, from)[from], n)
  BY ChainIs
<1>2. None \notin DOMAIN S
  BY CanvasFacts DEF IsMap
<1>. QED
  BY <1>1, <1>2 DEF Relinked, Targets

LEMMA CompletedStep ==
    ASSUME Inv, Next
    PROVE  Completed'
<1>. USE DEF Inv
<1>1. CASE Refuse \/ ExtendBranch \/ BranchesEnd
  BY <1>1 DEF Refuse, ExtendBranch, BranchesEnd, Completed
<1>2. ASSUME NEW n \in StartNodes, Start(n) PROVE Completed'
  BY <1>2 DEF Start, Completed
<1>3. ASSUME NEW merge \in Nodes \cup {None}, CompileParallel(merge) PROVE Completed'
  BY <1>3 DEF CompileParallel, AtBlock, Completed
<1>4. CASE CompileChoice \/ CompileTask
  BY <1>4 DEF CompileChoice, CompileTask, AtBlock, Completed
<1>5. CASE MainEnds
  BY <1>5 DEF MainEnds, Completed
<1>6. ASSUME NEW b \in todo, StartBranch(b) PROVE Completed'
  BY <1>6 DEF StartBranch, Completed
<1>7. CASE StartPass
  <2>1. passes' = 1 /\ todo' = Missing /\ Missing' = Missing /\ pc' = "complete"
    BY <1>7 DEF StartPass, Completed, Missing
  <2>. QED
    BY <2>1 DEF Completed
<1>8. ASSUME NEW n \in todo, Materialise(n) PROVE Completed'
  <2>1. /\ pc = "complete" /\ pc' = "complete" /\ passes' = passes /\ todo' = todo \ {n}
        /\ passes = 1 /\ Missing \subseteq todo /\ ~WalkGoesOn(states)
    BY <1>8 DEF Materialise, Completed
  <2>2. CASE n \in DOMAIN states /\ UNCHANGED <<states, walk>>
    <3>1. Missing' \subseteq todo'
      BY <2>1, <2>2, MissingIs
    <3>. QED
      BY <2>1, <3>1 DEF Completed
  <2>3. CASE states' = Put(states, n, Step(TRUE)) /\ n \notin DOMAIN states
    <3>1. /\ \A m : m \in DOMAIN states' <=> m \in DOMAIN states \cup {n}
          /\ Targets(states'[n]) = {}
          /\ \A m \in DOMAIN states : states'[m] = states[m]
      BY <2>3 DEF Put, Step, Targets
    <3>2. Missing' \subseteq todo'
      BY <2>1, <3>1, MissingIs
    <3>. QED
      BY <2>1, <3>2 DEF Completed
  <2>4. CASE /\ n \notin DOMAIN states /\ graph.type[n] \notin ForkTypes
             /\ walk' = [NoWalk EXCEPT !.current = n] /\ UNCHANGED states
    <3>1. walk'.current = n /\ walk'.stop = None /\ graph' = graph
      BY <1>8, <2>4 DEF NoWalk, Materialise
    <3>2. n # None
      BY CanvasFacts DEF TypeOK
    <3>3. WalkGoesOn(states)'
      BY <2>4, <3>1, <3>2 DEF WalkGoesOn, ForkTypes
    <3>4. Missing' \subseteq todo' \cup {n}
      BY <2>1, <2>4, MissingIs
    <3>. QED
      BY <2>1, <3>1, <3>3, <3>4 DEF Completed
  <2>. QED
    BY <1>8, <2>2, <2>3, <2>4 DEF Materialise
<1>9. CASE ExtendMachine
  <2>1. /\ WalkGoesOn(states) /\ WalkOn /\ pc = "complete" /\ pc' = "complete"
        /\ states' = Chain(states, walk.current, walk.prev)
        /\ passes' = passes /\ todo' = todo /\ passes = 1
        /\ Missing \subseteq todo \cup {walk.current}
    BY <1>9 DEF ExtendMachine, Completed
  <2>2. walk.current \in Nodes /\ walk.prev \in Blocks /\ Linkable(states, walk.prev, walk.current)
    BY <2>1, WalkTurns DEF StatesLinked, TypeOK
  <2>3. /\ \A m : m \in DOMAIN states' <=> m \in DOMAIN states \cup {walk.current}
        /\ \A m \in DOMAIN states' : \A t \in Targets(states'[m]) :
             t = walk.current \/ (m \in DOMAIN states /\ t \in Targets(states[m]))
    BY <2>1, <2>2, ChainIs, ChainTargets DEF TypeOK
  <2>4. Missing' \subseteq todo'
    BY <2>1, <2>3, MissingIs
  <2>. QED
    BY <2>1, <2>4 DEF Completed
<1>10. CASE EndPass
  <2>1. Missing' = Missing /\ Missing = {} /\ pc' = "pass"
    BY <1>10 DEF EndPass, Completed, Missing
  <2>. QED
    BY <2>1 DEF Completed
<1>11. CASE FinalizeTerminals
  <2>1. Cardinality(Nodes) \in Nat
    BY CanvasFacts, FS_CardinalityType DEF TypeOK
  <2>2. Missing = {}
    BY <1>11, <2>1 DEF FinalizeTerminals, Completed, TypeOK
  <2>3. /\ \A n : n \in DOMAIN states' <=> n \in DOMAIN states
        /\ \A n \in DOMAIN states :
             /\ states'[n].kind = states[n].kind /\ states'[n].to = states[n].to
             /\ states'[n].next = states[n].next
             /\ states[n].kind # "Choice" /\ states[n].next = None => states'[n].end
    BY <1>11, FinalizeIs DEF FinalizeTerminals, TypeOK
  <2>4. \A n \in DOMAIN states : Targets(states'[n]) = Targets(states[n])
    BY <2>3 DEF Targets
  <2>5. Missing' = {}
    BY <2>2, <2>3, <2>4, MissingIs
  <2>. QED
    BY <1>11, <2>3, <2>5 DEF Completed, FinalizeTerminals
<1>. QED
  BY <1>1, <1>2, <1>3, <1>4, <1>5, <1>6, <1>7, <1>8, <1>9, <1>10, <1>11 DEF Next

-----------------------------------------------------------------------------
(* The machine is well formed and follows the graph *)

LEMMA InitInv == Init => Inv
BY InitTypes, InitBegun, InitLinked, InitBranched, InitForked, InitCompleted DEF Inv

LEMMA StepInv == ASSUME Inv, [Next]_vars PROVE Inv'
<1>1. CASE Next
  BY <1>1, TypesStep, BegunStep, LinkedStep, BranchedStep, ForkedStep, CompletedStep DEF Inv
<1>2. CASE UNCHANGED vars
  <2>1. graph' = graph
    BY <1>2 DEF vars
  <2>. QED
    BY <1>2, <2>1, Framed, LinkedFramed
    DEF vars, loop, Inv, TypeOK, IsMap, Begun, StatesLinked, Linked, Linkable, Branched, Forked,
        Completed, Missing, WalkGoesOn
<1>. QED
  BY <1>1, <1>2

\* What the compiler holds at every turn of its loops.
THEOREM InvAlways == Spec => []Inv
BY InitInv, StepInv, PTL DEF Spec

\* Whatever the canvas, with cycles, blocks that meet and nested forks: what a
\* state of the machine or of a branch leads to is there, and states end or go on.
THEOREM MachineIsAlwaysWellFormed == Spec => []MachineIsWellFormed
<1>1. ASSUME Inv, Compiled PROVE MachineIsWellFormed
  <2>1. startAt \in DOMAIN states /\ Missing = {}
    BY <1>1 DEF Inv, Begun, Completed, Compiled
  <2>2. ASSUME NEW n \in DOMAIN states, states[n].kind # "Choice"
        PROVE  states[n].end <=> states[n].next = None
    <3>1. states[n].end \in BOOLEAN
      BY <1>1 DEF Inv, TypeOK, IsMap, State
    <3>2. states[n].next = None => states[n].end
      BY <1>1, <2>2 DEF Inv, Completed, Compiled
    <3>3. states[n].next # None => ~states[n].end
      BY <1>1 DEF Inv, StatesLinked, Linked
    <3>. QED
      BY <3>1, <3>2, <3>3
  <2>3. ASSUME NEW b \in DOMAIN branches, NEW n \in DOMAIN branches[b]
        PROVE  Targets(branches[b][n]) \subseteq DOMAIN branches[b]
    <3>1. branches[b][n].to = {} /\ (branches[b][n].next # None =>
                                       branches[b][n].next \in DOMAIN branches[b])
      BY <1>1 DEF Inv, Branched, Linked
    <3>. QED
      BY <3>1 DEF Targets
  <2>. QED
    BY <2>1, <2>2, <2>3 DEF MachineIsWellFormed
<1>2. Inv => MachineIsWellFormed
  BY <1>1 DEF MachineIsWellFormed
<1>. QED
  BY <1>2, InvAlways, PTL

\* The machine begins at a start block, goes from block to block along edges of the
\* canvas only, and a Parallel has a branch for every block it leads to but its merge.
THEOREM MachineAlwaysFollowsTheGraph == Spec => []MachineFollowsTheGraph
<1>1. ASSUME Inv, Compiled PROVE MachineFollowsTheGraph
  <2>1. startAt \in StartNodes
    BY <1>1 DEF Inv, Begun, Compiled
  <2>2. ASSUME NEW S, Linked(S), NEW e \in Transitions(S), DOMAIN S \subseteq Nodes
        PROVE  e \in Edges
    <3>1. e[1] \in DOMAIN S /\ e[2] \in Nodes /\ e[2] \in Targets(S[e[1]]) /\ e = <<e[1], e[2]>>
      BY DEF Transitions
    <3>2. e[2] \in Out(e[1])
      BY <2>2, <3>1 DEF Linked
    <3>3. e \in Nodes \X Nodes
      BY <2>2, <3>1
    <3>. QED
      BY <3>2, <3>3 DEF Edges
  <2>3. Transitions(states) \subseteq Edges
    BY <1>1, <2>2 DEF Inv, TypeOK, IsMap, StatesLinked
  <2>4. ASSUME NEW b \in DOMAIN branches
        PROVE  /\ b \in Edges /\ Transitions(branches[b]) \subseteq Edges
               /\ DOMAIN branches[b] # {} => b[2] \in DOMAIN branches[b]
    BY <1>1, <2>2 DEF Inv, TypeOK, IsMap, Branched
  <2>5. ASSUME NEW n \in DOMAIN states, states[n].kind = "Parallel",
               NEW m \in Out(n) \ {states[n].next}
        PROVE  <<n, m>> \in DOMAIN branches
    BY <1>1, <2>5 DEF Inv, Forked, Compiled
  <2>. QED
    BY <2>1, <2>3, <2>4, <2>5 DEF MachineFollowsTheGraph
<1>2. Inv => MachineFollowsTheGraph
  BY <1>1 DEF MachineFollowsTheGraph
<1>. QED
  BY <1>2, InvAlways, PTL

-----------------------------------------------------------------------------
(* Simple graphs are run whole *)

\* A simple graph has no Parallel, its one Choice is its start, to which nothing
\* leads, and its blocks have one predecessor.
LEMMA SimpleFacts ==
    ASSUME graph \in Canvases, Valid, SimpleGraph, StartNodes = {startAt}
    PROVE  /\ \A n \in Nodes : graph.type[n] # "parallel"
           /\ \A n \in Nodes : graph.type[n] \in ForkTypes => n = startAt
           /\ \A n \in Nodes : graph.type[n] \notin ForkTypes => Len(graph.out[n]) <= 1
           /\ \A l, m \in Nodes : Out(l) \cap Out(m) # {} => l = m
           /\ graph.type[startAt] \in ForkTypes => \A m \in Nodes : startAt \notin Out(m)
           /\ startAt \in Nodes
<1>1. \A n \in Nodes : Len(graph.out[n]) \in Nat
  BY CanvasFacts
<1>2. \A n \in Nodes : Len(graph.out[n]) > 1 => graph.type[n] = "choice" /\ StartNodes = {n}
  BY DEF SimpleGraph
<1>3. \A n \in Nodes : graph.type[n] \in ForkTypes => Len(graph.out[n]) > 1
  BY <1>1 DEF Valid
<1>4. \A n \in Nodes : graph.type[n] \notin ForkTypes => Len(graph.out[n]) <= 1
  BY <1>1, <1>2 DEF ForkTypes
<1>5. \A n \in Nodes : graph.type[n] \in ForkTypes => n = startAt /\ graph.type[n] = "choice"
  BY <1>2, <1>3
<1>6. startAt \in Nodes /\
      (graph.type[startAt] # "start" => \A m \in Nodes : startAt \notin Out(m))
  BY DEF StartNodes
<1>. QED
  BY <1>4, <1>5, <1>6 DEF SimpleGraph, ForkTypes

LEMMA ReferencedIs ==
    ASSUME NEW S
    PROVE  \A t : t \in Referenced(S) <=> \E n \in DOMAIN S : t \in Targets(S[n])
BY DEF Referenced

\* Where a chain stops, the block it stops at has a state: it is linked to already.
LEMMA JoinedToAll ==
    ASSUME graph \in Canvases, Valid, SimpleGraph, StartNodes = {startAt},
           NEW S, IsMap(S), Linked(S), NEW from, NEW to \in {None, startAt} \cup DOMAIN S,
           Linkable(S, from, to), Joined(S, from, to)
    PROVE  Joined(S, None, None)
<1>1. None \notin Nodes /\ \A n \in DOMAIN S : n \in Nodes /\ Out(n) \subseteq Nodes
  BY CanvasFacts DEF IsMap
<1>2. DOMAIN S \subseteq Referenced(S) \cup {startAt}
  BY DEF Joined
<1>3. ASSUME NEW n \in DOMAIN S PROVE Out(n) \subseteq Targets(S[n]) \cup {startAt}
  <2>1. n # from => Out(n) \subseteq Targets(S[n]) \cup {startAt}
    BY DEF Joined
  <2>2. n = from => Out(n) \subseteq Targets(S[n]) \cup {startAt} \cup {to}
    BY DEF Joined
  <2>. SUFFICES ASSUME n = from, to # None, to # startAt
                PROVE  to \in Targets(S[n])
    BY <1>1, <2>1, <2>2
  <2>3. to \in Out(n)
    BY <1>1 DEF Linkable
  <2>4. PICK m \in DOMAIN S : to \in Targets(S[m])
    BY <1>2, ReferencedIs
  <2>5. m \in Nodes /\ to \in Out(m)
    BY <1>1, <2>4 DEF Linked
  <2>. QED
    BY <1>1, <2>3, <2>4, <2>5, SimpleFacts
<1>. QED
  BY <1>1, <1>2, <1>3 DEF Joined

\* A chain leads to the new block from the state before, which led nowhere.
LEMMA ChainGrows ==
    ASSUME graph \in Canvases, NEW S, IsMap(S), NEW n \in Nodes, n \notin DOMAIN S,
           NEW from \in Blocks, Linkable(S, from, n),
           from # None => S[from].next = None
    PROVE  /\ \A m : m \in DOMAIN Chain(S, n, from) <=> m \in DOMAIN S \cup {n}
           /\ \A m \in DOMAIN S : Targets(S[m]) \subseteq Targets(Chain(S, n, from)[m])
           /\ from # None => from \in DOMAIN S /\ n \in Targets(Chain(S, n, from)[from])
           /\ Chain(S, n, from)[n].next = None
<1>0. n # None
  BY CanvasFacts
<1>1. from # None => from \in DOMAIN S /\ from # n
  BY <1>0 DEF Linkable
<1>. DEFINE T == Chain(S, n, from)
<1>2. /\ \A m : m \in DOMAIN T <=> m \in DOMAIN S \cup {n}
      /\ \A m \in DOMAIN S : m # from /\ m # n => T[m] = S[m]
      /\ T[n].next = IF from = n THEN n ELSE None
      /\ from # n /\ from # None => Relinked(S[from], T[from], n)
  BY ChainIs
<1>. HIDE DEF T
<1>3. T[n].next = None
  BY <1>0, <1>1, <1>2
<1>4. ASSUME NEW m \in DOMAIN S PROVE Targets(S[m]) \subseteq Targets(T[m])
  <2>1. CASE m # from
    BY <1>2, <2>1
  <2>2. CASE m = from
    <3>1. m # None
      BY CanvasFacts DEF IsMap
    <3>2. T[m].to = S[m].to /\ S[m].next = None
      BY <1>1, <1>2, <2>2, <3>1 DEF Relinked
    <3>. QED
      BY <3>2 DEF Targets
  <2>. QED
    BY <2>1, <2>2
<1>5. from # None => from \in DOMAIN S /\ n \in Targets(T[from])
  BY <1>0, <1>1, <1>2 DEF Relinked, Targets
<1>. QED
  BY <1>2, <1>3, <1>4, <1>5 DEF T

LEMMA ChainIsJoined ==
    ASSUME graph \in Canvases, NEW S, IsMap(S), NEW n \in Nodes, n \notin DOMAIN S,
           NEW from \in Blocks, Linkable(S, from, n), Joined(S, from, n),
           from = None => n \in Referenced(S) \cup {startAt},
           NEW to, Out(n) \subseteq {to}
    PROVE  /\ Joined(Chain(S, n, from), n, to)
           /\ Referenced(S) \subseteq Referenced(Chain(S, n, from))
<1>. DEFINE T == Chain(S, n, from)
<1>1. from # None => S[from].next = None
  BY DEF Joined
<1>2. /\ \A m : m \in DOMAIN T <=> m \in DOMAIN S \cup {n}
      /\ \A m \in DOMAIN S : Targets(S[m]) \subseteq Targets(T[m])
      /\ from # None => from \in DOMAIN S /\ n \in Targets(T[from])
      /\ T[n].next = None
  BY <1>1, ChainGrows
<1>. HIDE DEF T
<1>3. Referenced(S) \subseteq Referenced(T)
  BY <1>2, ReferencedIs
<1>4. n \in Referenced(T) \cup {startAt}
  BY <1>2, <1>3, ReferencedIs
<1>5. DOMAIN T \subseteq Referenced(T) \cup {startAt}
  BY <1>2, <1>3, <1>4 DEF Joined
<1>6. ASSUME NEW m \in DOMAIN T, m # n
      PROVE  Out(m) \subseteq Targets(T[m]) \cup {startAt}
  <2>1. m \in DOMAIN S /\ Targets(S[m]) \subseteq Targets(T[m])
    BY <1>2, <1>6
  <2>2. Out(m) \subseteq Targets(S[m]) \cup {startAt} \cup (IF m = from THEN {n} ELSE {})
    BY <2>1 DEF Joined
  <2>3. m # None
    BY <2>1, CanvasFacts DEF IsMap
  <2>. QED
    BY <1>2, <2>1, <2>2, <2>3
<1>7. Joined(T, n, to)
  BY <1>2, <1>5, <1>6 DEF Joined
<1>. QED
  BY <1>3, <1>7 DEF T

\* A state that leads to all its block is connected to, put for the first block.
LEMMA ChoiceIsJoined ==
    ASSUME graph \in Canvases, NEW S, IsMap(S), startAt \in Nodes, startAt \notin DOMAIN S,
           Joined(S, None, startAt)
    PROVE  Joined(Put(S, startAt, ChoiceState(startAt)), startAt, None)
<1>. DEFINE s == ChoiceState(startAt)
            T == Put(S, startAt, s)
<1>1. s.next = None /\ Targets(s) = Out(startAt)
  BY DEF ChoiceState, Targets
<1>. HIDE DEF s
<1>2. /\ \A m : m \in DOMAIN T <=> m \in DOMAIN S \cup {startAt}
      /\ T[startAt] = s
      /\ \A m \in DOMAIN S : T[m] = S[m]
  BY PutIs
<1>. HIDE DEF T
<1>3. Referenced(S) \subseteq Referenced(T)
  BY <1>2, ReferencedIs
<1>4. DOMAIN T \subseteq Referenced(T) \cup {startAt}
  BY <1>2, <1>3 DEF Joined
<1>5. ASSUME NEW m \in DOMAIN T PROVE Out(m) \subseteq Targets(T[m]) \cup {startAt}
  <2>1. CASE m = startAt
    BY <1>1, <1>2, <2>1
  <2>2. CASE m # startAt
    <3>1. m \in DOMAIN S /\ T[m] = S[m]
      BY <1>2, <2>2
    <3>2. m # None
      BY <3>1, CanvasFacts DEF IsMap
    <3>. QED
      BY <3>1, <3>2 DEF Joined
  <2>. QED
    BY <2>1, <2>2
<1>6. Joined(T, startAt, None)
  BY <1>1, <1>2, <1>4, <1>5 DEF Joined
<1>. QED
  BY <1>6 DEF s, T

LEMMA InitWhole == Init => Whole
BY DEF Init, Whole

LEMMA JoinedFramed ==
    ASSUME graph' = graph, startAt' = startAt, NEW S, NEW from, NEW to, Joined(S, from, to)
    PROVE  Joined(S, from, to)'
BY Framed DEF Joined, Referenced, Targets

LEMMA WholeStep ==
    ASSUME Inv, Whole, Next
    PROVE  Whole'
<1>. USE DEF Inv
<1>0. /\ graph' = graph /\ graph \in Canvases /\ SimpleGraph' = SimpleGraph
      /\ StartNodes' = StartNodes
  BY GraphStays, Framed DEF TypeOK
<1>. SUFFICES ASSUME SimpleGraph PROVE Whole'
  BY <1>0 DEF Whole
<1>1. CASE Refuse
  BY <1>1 DEF Refuse, Whole
<1>2. ASSUME NEW n \in StartNodes, Start(n) PROVE Whole'
  <2>1. /\ pc = "validate" /\ pc' = "main" /\ startAt' = n /\ cursor' = n
        /\ states' = << >> /\ branches' = << >> /\ prev' = None /\ visited' = {}
    BY <1>2 DEF Start, Begun, loop
  <2>2. StartNodes' = {startAt'}
    BY <1>0, <2>1 DEF SimpleGraph
  <2>3. DOMAIN states' = {}
    BY <2>1
  <2>4. Joined(states, prev, cursor)'
    BY <2>1, <2>3 DEF Joined
  <2>. QED
    BY <2>1, <2>2, <2>3, <2>4 DEF Whole
\* From here on the machine is being compiled.
<1>3. ASSUME pc \notin {"validate", "refused"}
      PROVE  /\ Valid /\ startAt \in StartNodes /\ StartNodes = {startAt}
             /\ pc # "branches" /\ branches = << >>
             /\ \A n \in Nodes : graph.type[n] # "parallel"
             /\ \A n \in Nodes : graph.type[n] \in ForkTypes => n = startAt
             /\ \A n \in Nodes : graph.type[n] \notin ForkTypes => Len(graph.out[n]) <= 1
             /\ graph.type[startAt] \in ForkTypes => \A m \in Nodes : startAt \notin Out(m)
  <2>1. /\ Valid /\ startAt \in StartNodes /\ StartNodes = {startAt}
        /\ pc # "branches" /\ branches = << >>
    BY <1>3 DEF Begun, Whole
  <2>. QED
    BY <1>0, <2>1, SimpleFacts
<1>4. ASSUME NEW merge \in Nodes \cup {None}, CompileParallel(merge) PROVE Whole'
  <2>1. cursor \in Nodes /\ graph.type[cursor] = "parallel" /\ pc = "main"
    BY <1>4, ParallelPuts DEF CompileParallel, AtBlock
  <2>. QED
    BY <1>3, <2>1
<1>6. ASSUME NEW b \in todo, StartBranch(b) PROVE Whole'
  BY <1>3, <1>6 DEF StartBranch
<1>7. CASE CompileChoice
  <2>1. /\ pc = "main" /\ pc' = "main" /\ startAt' = startAt /\ branches' = branches
        /\ cursor \in Nodes /\ cursor \notin visited /\ graph.type[cursor] \in ForkTypes
        /\ visited' = visited \cup {cursor} /\ prev' = cursor /\ cursor' = None
        /\ states' = Put(states, cursor, ChoiceState(cursor))
    BY <1>7 DEF CompileChoice, AtBlock, MainGoesOn, TypeOK, Blocks, ForkTypes
  <2>2. /\ Joined(states, prev, cursor) /\ DOMAIN states = visited
        /\ IsMap(states) /\ Linkable(states, prev, cursor)
    BY <2>1 DEF Whole, TypeOK, StatesLinked
  <2>3. cursor = startAt /\ \A m \in Nodes : cursor \notin Out(m)
    BY <1>3, <2>1
  <2>4. cursor # None
    BY <1>0, <2>1, CanvasFacts
  <2>5. prev = None
    BY <2>2, <2>3, <2>4 DEF Linkable, IsMap
  <2>6. Joined(states', cursor, None)
    BY <1>0, <2>1, <2>2, <2>3, <2>5, ChoiceIsJoined
  <2>7. Joined(states, prev, cursor)'
    BY <1>0, <2>1, <2>6, JoinedFramed
  <2>8. DOMAIN states' = visited'
    BY <2>1, <2>2 DEF Put
  <2>. QED
    BY <1>0, <1>3, <2>1, <2>4, <2>7, <2>8 DEF Whole
<1>8. CASE CompileTask
  <2>1. /\ pc = "main" /\ pc' = "main" /\ startAt' = startAt /\ branches' = branches
        /\ cursor \in Nodes /\ cursor \notin visited /\ graph.type[cursor] \notin ForkTypes
        /\ visited' = visited \cup {cursor} /\ prev' = cursor /\ cursor' = First(cursor)
        /\ states' = Chain(states, cursor, prev) /\ prev \in Blocks
    BY <1>8 DEF CompileTask, AtBlock, MainGoesOn, TypeOK, Blocks
  <2>2. /\ Joined(states, prev, cursor) /\ DOMAIN states = visited
        /\ IsMap(states) /\ Linkable(states, prev, cursor)
        /\ prev = None => cursor = startAt
    BY <2>1 DEF Whole, TypeOK, StatesLinked
  <2>3. Out(cursor) \subseteq {First(cursor)} /\ cursor # None
    BY <1>0, <1>3, <2>1, CanvasFacts
  <2>4. Joined(states', cursor, First(cursor))
    BY <1>0, <2>1, <2>2, <2>3, ChainIsJoined
  <2>5. Joined(states, prev, cursor)'
    BY <1>0, <2>1, <2>4, JoinedFramed
  <2>6. DOMAIN states' = visited'
    BY <1>0, <2>1, <2>2, ChainIs
  <2>7. pc' = "main" /\ prev' # None /\ branches' = << >> /\ StartNodes' = {startAt'}
    BY <1>0, <1>3, <2>1, <2>3
  <2>. QED
    BY <2>5, <2>6, <2>7 DEF Whole

<1>9. CASE MainEnds
  <2>1. /\ pc = "main" /\ pc' = "pass" /\ UNCHANGED <<startAt, branches, states, walk, passes>>
        /\ cursor \in {None} \cup visited
    BY <1>9 DEF MainEnds, MainGoesOn
  <2>2. /\ Joined(states, prev, cursor) /\ DOMAIN states = visited
        /\ IsMap(states) /\ Linked(states) /\ Linkable(states, prev, cursor)
        /\ walk = NoWalk
    BY <2>1 DEF Whole, TypeOK, StatesLinked, Begun
  <2>3. Joined(states, None, None)
    BY <1>0, <1>3, <2>1, <2>2, JoinedToAll
  <2>4. Joined(states, None, None)'
    BY <1>0, <2>1, <2>3, JoinedFramed
  <2>5. StartNodes' = {startAt'} /\ branches' = << >>
    BY <1>0, <1>3, <2>1
  <2>. QED
    BY <2>1, <2>2, <2>4, <2>5 DEF Whole
<1>10. CASE StartPass
  <2>1. /\ pc = "pass" /\ pc' = "complete" /\ UNCHANGED <<startAt, branches, states, walk>>
        /\ Missing # {} /\ todo' = Missing
    BY <1>10 DEF StartPass
  <2>2. Joined(states, None, None) /\ walk = NoWalk
    BY <2>1 DEF Whole, Completed
  <2>3. walk'.prev = None /\ walk'.current = None
    BY <2>1, <2>2 DEF NoWalk
  <2>4. Joined(states, walk.prev, walk.current)'
    BY <1>0, <2>1, <2>2, <2>3, JoinedFramed
  <2>5. Missing \subseteq Referenced(states)
    BY DEF Missing, Referenced
  <2>6. (todo \subseteq Referenced(states))'
    BY <2>1, <2>5 DEF Referenced, Targets
  <2>7. StartNodes' = {startAt'} /\ branches' = << >>
    BY <1>0, <1>3, <2>1
  <2>. QED
    BY <2>1, <2>3, <2>4, <2>6, <2>7 DEF Whole
\* In a pass of completeReferencedTargets.
<1>11. ASSUME pc = "complete"
       PROVE  /\ Joined(states, walk.prev, walk.current)
              /\ todo \subseteq Referenced(states)
              /\ walk.current # None /\ walk.prev = None => walk.current \in Referenced(states)
              /\ IsMap(states) /\ Linked(states) /\ Linkable(states, walk.prev, walk.current)
              /\ startAt \in DOMAIN states /\ walk.stop = None /\ walk.current \in Blocks
  BY <1>11 DEF Whole, TypeOK, StatesLinked, Begun
<1>12. ASSUME pc = "complete", ~WalkGoesOn(states) PROVE Joined(states, None, None)
  <2>1. walk.current \in {None} \cup DOMAIN states \/ graph.type[walk.current] \in ForkTypes
    BY <1>11, <1>12 DEF WalkGoesOn
  <2>2. walk.current \in {None, startAt} \cup DOMAIN states
    BY <1>3, <1>11, <1>12, <2>1 DEF Blocks
  <2>. QED
    BY <1>0, <1>3, <1>11, <1>12, <2>2, JoinedToAll
<1>13. ASSUME NEW n \in todo, Materialise(n) PROVE Whole'
  <2>1. /\ pc = "complete" /\ pc' = "complete" /\ UNCHANGED <<startAt, branches>>
        /\ ~WalkGoesOn(states) /\ todo' = todo \ {n} /\ n \in Nodes
    BY <1>13 DEF Materialise, TypeOK
  <2>2. StartNodes' = {startAt'} /\ branches' = << >>
    BY <1>0, <1>3, <2>1
  <2>3. CASE UNCHANGED <<states, walk>>
    <3>1. Joined(states, walk.prev, walk.current)'
      BY <1>0, <1>11, <2>1, <2>3, JoinedFramed
    <3>2. Referenced(states)' = Referenced(states)
      BY <2>3 DEF Referenced, Targets
    <3>. QED
      BY <1>11, <2>1, <2>2, <2>3, <3>1, <3>2 DEF Whole
  <2>4. CASE n \notin DOMAIN states /\ graph.type[n] \in ForkTypes
    BY <1>3, <1>11, <2>1, <2>4
  <2>5. CASE walk' = [NoWalk EXCEPT !.current = n] /\ UNCHANGED states
    <3>1. walk'.prev = None /\ walk'.current = n
      BY <2>5 DEF NoWalk
    <3>2. Joined(states, None, None)
      BY <1>12, <2>1
    <3>3. None \notin DOMAIN states
      BY <1>0, <1>11, <2>1, CanvasFacts DEF IsMap
    <3>4. Joined(states, None, n)
      BY <3>2, <3>3 DEF Joined
    <3>5. Joined(states, walk.prev, walk.current)'
      BY <1>0, <2>1, <2>5, <3>1, <3>4, JoinedFramed
    <3>6. Referenced(states)' = Referenced(states)
      BY <2>5 DEF Referenced, Targets
    <3>. QED
      BY <1>11, <2>1, <2>2, <3>1, <3>5, <3>6 DEF Whole
  <2>. QED
    BY <1>13, <2>3, <2>4, <2>5 DEF Materialise
<1>14. CASE ExtendMachine
  <2>1. /\ pc = "complete" /\ pc' = "complete" /\ UNCHANGED <<startAt, branches, todo>>
        /\ WalkGoesOn(states) /\ WalkOn /\ states' = Chain(states, walk.current, walk.prev)
    BY <1>14 DEF ExtendMachine
  <2>2. /\ walk.current \in Nodes /\ walk.current \notin DOMAIN states
        /\ graph.type[walk.current] \notin ForkTypes
        /\ walk'.prev = walk.current
        /\ Len(graph.out[walk.current]) <= 1 => Out(walk.current) \subseteq {walk'.current}
    BY <2>1, WalkTurns
  <2>3. Out(walk.current) \subseteq {walk'.current} /\ walk.current # None
    BY <1>0, <1>3, <2>1, <2>2, CanvasFacts
  <2>4. walk.prev \in Blocks
    BY DEF TypeOK
  <2>5. /\ Joined(states', walk.current, walk'.current)
        /\ Referenced(states) \subseteq Referenced(states')
    BY <1>0, <1>11, <2>1, <2>2, <2>3, <2>4, ChainIsJoined
  <2>6. Joined(states, walk.prev, walk.current)'
    BY <1>0, <2>1, <2>2, <2>5, JoinedFramed
  <2>7. (todo \subseteq Referenced(states))'
    BY <1>11, <2>1, <2>5 DEF Referenced, Targets
  <2>8. pc' = "complete" /\ walk'.prev # None /\ branches' = << >> /\ StartNodes' = {startAt'}
    BY <1>0, <1>3, <2>1, <2>2, <2>3
  <2>. QED
    BY <2>6, <2>7, <2>8 DEF Whole
<1>15. CASE EndPass
  <2>1. /\ pc = "complete" /\ pc' = "pass" /\ UNCHANGED <<startAt, branches, states, passes>>
        /\ ~WalkGoesOn(states) /\ passes = 1
    BY <1>15 DEF EndPass, Completed
  <2>2. Joined(states, None, None)'
    BY <1>0, <1>12, <2>1, JoinedFramed
  <2>3. StartNodes' = {startAt'} /\ branches' = << >>
    BY <1>0, <1>3, <2>1
  <2>. QED
    BY <2>1, <2>2, <2>3 DEF Whole
<1>16. CASE FinalizeTerminals
  <2>1. /\ pc = "pass" /\ pc' = "done" /\ UNCHANGED <<startAt, branches>>
        /\ states' = Finalize(states) /\ IsMap(states)
    BY <1>16 DEF FinalizeTerminals, TypeOK
  <2>2. /\ \A n : n \in DOMAIN states' <=> n \in DOMAIN states
        /\ \A n \in DOMAIN states :
             states'[n].to = states[n].to /\ states'[n].next = states[n].next
    BY <2>1, FinalizeIs
  <2>3. \A n \in DOMAIN states : Targets(states'[n]) = Targets(states[n])
    BY <2>2 DEF Targets
  <2>4. Joined(states, None, None)
    BY <2>1 DEF Whole
  <2>5. Referenced(states) \subseteq Referenced(states')
    BY <2>2, <2>3, ReferencedIs
  <2>6. Joined(states', None, None)
    BY <2>2, <2>3, <2>4, <2>5 DEF Joined
  <2>7. Joined(states, None, None)'
    BY <1>0, <2>1, <2>6, JoinedFramed
  <2>8. StartNodes' = {startAt'} /\ branches' = << >>
    BY <1>0, <1>3, <2>1
  <2>. QED
    BY <2>1, <2>7, <2>8 DEF Whole
<1>. QED
  BY <1>1, <1>2, <1>4, <1>6, <1>3, <1>7, <1>8, <1>9, <1>10, <1>13, <1>14, <1>15, <1>16
  DEF Next, ExtendBranch, BranchesEnd

\* A canvas with one start block whose blocks form one chain, or a Choice with chains
\* of its own, is compiled to a machine that runs every block: none is left out where
\* the main loop and the chains of the missing targets stop.
THEOREM SimpleGraphsAlwaysRunWhole == Spec => []SimpleGraphsRunWhole
<1>1. ASSUME Inv, Whole, Compiled, SimpleGraph PROVE Run = Nodes
  <2>1. /\ Valid /\ StartNodes = {startAt} /\ startAt \in DOMAIN states /\ branches = << >>
        /\ Joined(states, None, None) /\ Missing = {} /\ IsMap(states) /\ graph \in Canvases
        /\ Linked(states)
    BY <1>1 DEF Inv, Whole, Compiled, Begun, Completed, TypeOK, StatesLinked
  <2>2. ASSUME NEW S \in SUBSET Nodes, startAt \in S,
               \A n \in S \cap DOMAIN states : Targets(states[n]) \subseteq S
        PROVE  S = Nodes
    <3>. DEFINE C == S \cap DOMAIN states
    <3>1. ASSUME NEW n \in C PROVE Out(n) \subseteq C
      <4>1. Targets(states[n]) \subseteq DOMAIN states
        BY <2>1, MissingIs
      <4>2. n # None
        BY <2>1, CanvasFacts
      <4>3. Out(n) \subseteq Targets(states[n]) \cup {startAt}
        BY <2>1, <4>2 DEF Joined
      <4>. QED
        BY <2>1, <2>2, <4>1, <4>3
    <3>2. ClosedFromStart(C)
      BY <2>1, <2>2, <3>1 DEF ClosedFromStart
    <3>. QED
      BY <2>1, <3>2 DEF Valid
  <2>. DEFINE closed == {S \in SUBSET Nodes :
                           startAt \in S /\ \A n \in S \cap DOMAIN states : Targets(states[n]) \subseteq S}
              top == {n \in Nodes : \A S \in closed : n \in S}
              forked == UNION {DOMAIN branches[b] : b \in {b \in DOMAIN branches : b[1] \in top}}
  <2>3. Run = top \cup forked
    BY DEF Run
  <2>4. top = Nodes
    BY <2>2
  <2>5. DOMAIN branches = {}
    BY <2>1
  <2>. HIDE DEF top
  <2>6. forked = {}
    BY <2>5
  <2>. QED
    BY <2>3, <2>4, <2>6
<1>2. Inv /\ Whole => SimpleGraphsRunWhole
  BY <1>1 DEF SimpleGraphsRunWhole
<1>3. ASSUME Inv, Whole, [Next]_vars PROVE Whole'
  <2>1. CASE UNCHANGED vars
    <3>1. /\ graph' = graph /\ SimpleGraph' = SimpleGraph /\ StartNodes' = StartNodes
          /\ UNCHANGED <<pc, startAt, states, branches, cursor, prev, visited, todo, walk, passes>>
      BY <2>1, Framed DEF vars, loop
    <3>2. Referenced(states)' = Referenced(states)
      BY <3>1 DEF Referenced, Targets
    <3>. QED
      BY <1>3, <3>1, <3>2, JoinedFramed DEF Whole
  <2>. QED
    BY <1>3, <2>1, WholeStep
<1>. QED
  BY <1>2, <1>3, InitWhole, InvAlways, PTL DEF Spec
=============================================================================
