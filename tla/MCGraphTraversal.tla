-------------------------- MODULE MCGraphTraversal --------------------------
(* Bounded instances of GraphTraversal for TLC.                            *)
EXTENDS GraphTraversal

(* Sites 1 and 2 are of one kind; a greater number is one of another.      *)
TwoKinds == [s \in Site |-> IF s < 3 THEN 1 ELSE 2]

OneKind == [s \in Site |-> 1]

(* No limit that bites, or one of them tightened.                          *)
Ample == [depth |-> 9, results |-> 9, nodes |-> 9, edges |-> 9, frontier |-> 9]

Tight == {Ample, [Ample EXCEPT !.depth = 1], [Ample EXCEPT !.depth = 2],
          [Ample EXCEPT !.results = 2], [Ample EXCEPT !.nodes = 2],
          [Ample EXCEPT !.edges = 2], [Ample EXCEPT !.frontier = 1]}

Middle == [type |-> "definition", at |-> 2]

ImpactRequests(limits) ==
    [start : {Middle}, direction : {"inbound"}, kinds : {{1, 2}}, limits : limits,
     impact : {TRUE}]

TraceRequests(kinds, limits) ==
    [start : {Middle} \cup [type : {"site"}, at : {1, 3}], direction : {"outbound", "inbound"},
     kinds : {kinds}, limits : limits, impact : {FALSE}]

AllRequests ==
    TraceRequests({1, 2}, Tight) \cup TraceRequests({1}, {Ample}) \cup ImpactRequests(Tight)

CompleteImpact == ImpactRequests({Ample})

(* Sites of one kind are numbered in the order of their sources, which the *)
(* order of edges looks at first; their evidence varies where it matters,  *)
(* in the classes of a complete impact.                                    *)
Numbered ==
    {g \in Graphs : \A s, t \in Site :
        (s < t /\ KindOf[s] = KindOf[t]) => g[s].source <= g[t].source}

Plain == {g \in Numbered : \A s \in Site : g[s].evidence = "direct"}

MCInit ==
    /\ request \in Requests
    /\ graph \in IF request.impact /\ request.limits = Ample THEN Numbered ELSE Plain
    /\ Init

MCSpec == MCInit /\ [][Next]_vars
=============================================================================
