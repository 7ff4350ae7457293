--------------------------- MODULE MCGraphCompiler ---------------------------
(* Small instances of GraphCompiler for TLC: five blocks that can make a Choice or a
   Parallel with two routes that meet again. *)
EXTENDS GraphCompiler
CONSTANTS
    Shapes,     \* block types of the graphs, sequences
    MaxEdges    \* bound on the edges of a graph
ChoiceShape == <<"choice", "source", "transform", "merge", "sink">>
ParallelShape == <<"parallel", "source", "source", "merge", "sink">>
NestedShape == <<"source", "parallel", "choice", "merge", "sink">>
MCShapes == {ChoiceShape, ParallelShape, NestedShape}
\* Source to choice, choice to two sinks, in either order of its edges.
RoutedCanvases ==
    {[type |-> <<"source", "choice", "sink", "sink">>, out |-> <<<<2>>, sinks, <<>>, <<>>>>] :
        sinks \in {<<3, 4>>, <<4, 3>>}}
\* The graphs of the shapes in which nothing leads to the first block, the edges of a
\* block in ascending order, and with one edge less in descending order too.  Of those
\* whose forks lack routes, which are refused, only the ones with two edges at most.
MCCanvases ==
    LET edges(shape, max) ==
            LET n == Len(shape)
                forks == {i \in 1 .. n : shape[i] \in ForkTypes}
            IN {e \in SUBSET {e \in (1 .. n) \X (2 .. n) : e[1] # e[2]} :
                   /\ Cardinality(e) <= max
                   /\ \/ Cardinality(e) <= 2
                      \/ \A i \in forks : Cardinality({p \in e : p[1] = i}) >= 2}
        canvas(shape, e, order) ==
            [type |-> shape,
             out |-> [n \in DOMAIN shape |-> SelectSeq(order, LAMBDA m : <<n, m>> \in e)]]
        canvases(max, order) ==
            UNION {{canvas(shape, e, order) : e \in edges(shape, max)} : shape \in Shapes}
    IN canvases(MaxEdges, <<2, 3, 4, 5>>) \cup canvases(MaxEdges - 1, <<5, 4, 3, 2>>)
=============================================================================
