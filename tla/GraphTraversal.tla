--------------------------- MODULE GraphTraversal ---------------------------
(***************************************************************************)
(* Bounded traversal of the resolved relationships of one generation, and  *)
(* the impact of a declaration.  A site is an occurrence inside one        *)
(* declaration; it resolves to one target, or ambiguously to several, and  *)
(* every (site, target) pair is an edge.  A request names a start, a       *)
(* direction, the kinds of site it follows and its limits.  The slice of   *)
(* edges is immutable, so the traversal is sequential: a breadth-first     *)
(* search whose steps are the selection of a level's edges, the turn of    *)
(* each of them, and the end of the level.                                 *)
(*                                                                         *)
(* Declarations and sites are numbers, in the order of their identities.   *)
(* Byte accounting is left out, but for the failure it ends in.            *)
(***************************************************************************)
EXTENDS Integers, FiniteSets, Sequences

CONSTANTS
    Node,          \* declarations
    Site,          \* sites
    KindOf,        \* the kind of a site, part of its identity
    Evidence,      \* what the relationships of a site may rest on
    MaxCandidates, \* bound on the retained targets of a site
    Requests       \* the requests that may be made

ASSUME GraphAssumption ==
    /\ Node \subseteq Nat /\ IsFiniteSet(Node)
    /\ Site \subseteq Nat /\ IsFiniteSet(Site)
    /\ KindOf \in [Site -> Nat]
    /\ Evidence \subseteq {"direct", "name", "heuristic", "omitted"}
    /\ MaxCandidates \in Nat \ {0}
    /\ \A q \in Requests :
          /\ q.start \in [type : {"definition"}, at : Node] \cup [type : {"site"}, at : Site]
          /\ q.direction \in {"outbound", "inbound"}
          /\ q.kinds # {}
          /\ q.impact \in BOOLEAN
          /\ q.impact => q.start.type = "definition" /\ q.direction = "inbound"
          /\ \A limit \in {"depth", "results", "nodes", "edges", "frontier"} :
                q.limits[limit] \in Nat \ {0}

VARIABLES
    graph,       \* what extraction and resolution stored about each site
    request,     \* the request being served
    phase,       \* where the traversal and the analysis of its trace are
    depth,       \* the level under way
    seen,        \* Traversal.seen
    current,     \* Traversal.current, the frontier of the level
    next,        \* Traversal.next, the frontier of the following one
    results,     \* Traversal.results
    visited,     \* Traversal.visited_edges
    completed,   \* Traversal.maximum_completed_depth
    truncation,  \* Traversal.truncation, the flags that are set
    stop,        \* Traversal.stop
    selected,    \* the edges the level selected
    pending,     \* those that the loop over them has not come to
    strongest,   \* the class and depth of the declarations classed so far
    classed,     \* number of traced edges that impact analysis has taken
    impacted     \* the answer to an impact request

inputVars == <<graph, request>>
frontierVars == <<seen, current, next>>
countVars == <<visited, completed>>
flagVars == <<truncation, stop>>
impactVars == <<strongest, classed, impacted>>
traceVars == <<depth, frontierVars, results, countVars, flagVars, selected, pending>>
vars == <<inputVars, phase, traceVars, impactVars>>

-----------------------------------------------------------------------------
(* A site is extracted from direct syntax and resolved by it, resolved by  *)
(* its name only, or extracted by a heuristic; only an ambiguous site may  *)
(* have lost ("omitted") candidates to a bound.                            *)
Resolutions ==
    {r \in [source : Node, targets : SUBSET Node, evidence : Evidence] :
        /\ Cardinality(r.targets) \in 1 .. MaxCandidates
        /\ r.evidence = "omitted" => Cardinality(r.targets) > 1}

Graphs == [Site -> Resolutions]

Edges == {e \in [site : Site, target : Node] : e.target \in graph[e.site].targets}

Source(e) == graph[e.site].source

Origin(e) == IF request.direction = "outbound" THEN Source(e) ELSE e.target

Neighbor(e) == IF request.direction = "outbound" THEN e.target ELSE Source(e)

Allowed(e) == KindOf[e.site] \in request.kinds

(* Lexicographic order of tuples of numbers of the same length.            *)
Before(k, l) ==
    \E i \in DOMAIN k : k[i] < l[i] /\ \A j \in 1 .. i - 1 : k[j] = l[j]

Heuristic(s) == graph[s].evidence \in {"name", "heuristic"}

(* compare_relationship: kind, evidence, source, site, target.             *)
Key(e) == <<KindOf[e.site], IF Heuristic(e.site) THEN 1 ELSE 0, Source(e), e.site, e.target>>

(* The orders the edges of a site and of a level are selected in, as a key *)
(* of each edge, and the one in which what was selected is gone through.   *)
ByTarget == [e \in Edges |-> <<e.target>>]

ByOrigin == [e \in Edges |-> <<Origin(e)>> \o Key(e)]

InOrder(e, edges) == \A f \in edges \ {e} : Before(Key(e), Key(f))

AllowedFrom(nodes) == {e \in Edges : Allowed(e) /\ Origin(e) \in nodes}

-----------------------------------------------------------------------------
(* Traversal::new                                                          *)
Init ==
    /\ graph \in Graphs
    /\ request \in Requests
    /\ phase = "start"
    /\ depth = 1
    /\ seen = {} /\ current = {} /\ next = {}
    /\ results = <<>>
    /\ visited = 0 /\ completed = 0
    /\ truncation = {} /\ stop = FALSE
    /\ selected = {} /\ pending = {}
    /\ strongest = <<>> /\ classed = 0
    /\ impacted = [of |-> <<>>, unknown |-> TRUE]

(* admit_visited_edge, for each of some edges in an order, until one is    *)
(* refused.                                                                *)
Kept(edges, order) ==
    {e \in edges : Cardinality({f \in edges : Before(order[f], order[e])})
                     < request.limits["edges"] - visited}

Select(edges, order) ==
    LET kept == Kept(edges, order) IN
    /\ selected' = kept
    /\ pending' = kept
    /\ visited' = visited + Cardinality(kept)
    /\ stop' = (stop \/ kept # edges)
    /\ truncation' = IF kept = edges THEN truncation ELSE truncation \cup {"edges"}
    /\ UNCHANGED completed

(* admit_node                                                              *)
Room == Cardinality(seen) < request.limits["nodes"]

StartAtDefinition ==
    /\ phase = "start"
    /\ request.start.type = "definition"
    /\ seen' = {request.start.at}
    /\ current' = {request.start.at}
    /\ phase' = "level"
    /\ UNCHANGED <<inputVars, depth, next, results, countVars, flagVars, selected, pending,
                   impactVars>>

(* run_from_site: only the edges of the site itself; their origins count   *)
(* as seen, as far as the limit on nodes admits them.                      *)
SiteEdges == {e \in Edges : e.site = request.start.at /\ Allowed(e)}

StartAtSite ==
    /\ phase = "start"
    /\ request.start.type = "site"
    /\ Select(SiteEdges, ByTarget)
    /\ phase' = "admit"
    /\ UNCHANGED <<inputVars, depth, frontierVars, results, impactVars>>

AdmitOrigin(e) ==
    /\ phase = "admit"
    /\ InOrder(e, pending)
    /\ pending' = pending \ {e}
    /\ seen' = IF Room THEN seen \cup {Origin(e)} ELSE seen
    /\ truncation' = IF Room \/ Origin(e) \in seen THEN truncation
                     ELSE truncation \cup {"nodes"}
    /\ UNCHANGED <<inputVars, phase, depth, current, next, results, countVars, stop, selected,
                   impactVars>>

OriginsAdmitted ==
    /\ phase = "admit"
    /\ pending = {}
    /\ pending' = selected
    /\ phase' = "process"
    /\ UNCHANGED <<inputVars, depth, frontierVars, results, countVars, flagVars, selected,
                   impactVars>>

(* A turn of the loop of run_from_depth, up to the sort of its selection.  *)
Level ==
    /\ phase = "level"
    /\ Select(AllowedFrom(current), ByOrigin)
    /\ current' = {}
    /\ phase' = "process"
    /\ UNCHANGED <<inputVars, depth, seen, next, results, impactVars>>

-----------------------------------------------------------------------------
(* The body of process_selected_edges, for the next edge.                  *)

(* Faulty variant: new is what is not in the next frontier.                *)
IsNew_Frontier(n) == n \notin next

IsNew(n) == n \notin seen

(* An edge whose origin the start at a site could not admit.               *)
SkipEdge(e) ==
    /\ Origin(e) \notin seen
    /\ pending' = pending \ {e}
    /\ UNCHANGED <<frontierVars, results, flagVars>>

RefuseNode(e) ==
    /\ Origin(e) \in seen
    /\ IsNew(Neighbor(e)) /\ ~Room
    /\ truncation' = truncation \cup {"nodes"}
    /\ pending' = pending \ {e}
    /\ UNCHANGED <<frontierVars, results, stop>>

(* A new neighbour joins the next frontier if that has room.  Nothing      *)
(* follows a refused result.                                               *)
FrontierFull == Cardinality(next) >= request.limits["frontier"]

ResultsFull == Len(results) >= request.limits["results"]

TakeEdge(e) ==
    LET new == IsNew(Neighbor(e)) IN
    /\ Origin(e) \in seen
    /\ new => Room
    /\ seen' = seen \cup {Neighbor(e)}
    /\ next' = IF new /\ ~FrontierFull THEN next \cup {Neighbor(e)} ELSE next
    /\ results' = IF ResultsFull THEN results
                  ELSE Append(results, [depth |-> depth, edge |-> e])
    /\ pending' = IF ResultsFull THEN {} ELSE pending \ {e}
    /\ stop' = (stop \/ ResultsFull)
    /\ truncation' = truncation \cup (IF new /\ FrontierFull THEN {"frontier"} ELSE {})
                                \cup (IF ResultsFull THEN {"results"} ELSE {})
    /\ UNCHANGED current

ProcessEdge(e) ==
    /\ phase = "process"
    /\ InOrder(e, pending)
    /\ SkipEdge(e) \/ RefuseNode(e) \/ TakeEdge(e)
    /\ UNCHANGED <<inputVars, phase, depth, countVars, selected, impactVars>>

(* The end of a level.  The last one looks whether the frontier leads on;  *)
(* the loop goes on while there is a frontier and no stop.                 *)
AtSite == request.start.type = "site" /\ depth = 1

Finished == IF request.impact THEN "traced" ELSE "done"

EndLevel ==
    /\ phase = "process"
    /\ pending = {}
    /\ completed' = IF stop \/ (AtSite /\ selected = {}) THEN completed ELSE depth
    /\ IF depth = request.limits["depth"]
       THEN /\ truncation' = IF AllowedFrom(next) = {} THEN truncation
                             ELSE truncation \cup {"depth"}
            /\ phase' = Finished
            /\ UNCHANGED <<depth, current, next>>
       ELSE /\ current' = next
            /\ next' = {}
            /\ depth' = depth + 1
            /\ phase' = IF next # {} /\ ~stop THEN "level" ELSE Finished
            /\ UNCHANGED truncation
    /\ UNCHANGED <<inputVars, seen, results, visited, stop, selected, pending, impactVars>>

-----------------------------------------------------------------------------
(* analyze_rust_graph_impact, of the finished trace.                       *)
BeginImpact ==
    /\ phase = "traced"
    /\ strongest' = [n \in {request.start.at} |-> [class |-> "direct", depth |-> 0]]
    /\ classed' = 0
    /\ phase' = "impact"
    /\ UNCHANGED <<inputVars, traceVars, impacted>>

(* propagated_class                                                        *)
(* Faulty variant: one of several candidates counts as the target.         *)
Propagated_Ambiguous(parent, e) ==
    IF parent # "direct" \/ Heuristic(e.site) THEN "possible" ELSE "direct"

Propagated(parent, e) ==
    IF parent # "direct" \/ Cardinality(graph[e.site].targets) > 1 \/ Heuristic(e.site)
    THEN "possible" ELSE "direct"

(* The entry of the source of a traced edge: the strongest class and the   *)
(* least depth so far.                                                     *)
Strengthened(traced) ==
    LET e     == traced.edge
        class == Propagated(strongest[e.target].class, e)
        old   == strongest[Source(e)]
    IN
    IF Source(e) \notin DOMAIN strongest THEN [class |-> class, depth |-> traced.depth]
    ELSE [class |-> IF class = "direct" THEN class ELSE old.class,
          depth |-> IF traced.depth < old.depth THEN traced.depth ELSE old.depth]

(* The traced edges are taken in order; one whose target has no class is   *)
(* an invalid edge.                                                        *)
Strengthen ==
    LET traced == results[classed + 1]
        s      == Source(traced.edge)
    IN
    /\ phase = "impact"
    /\ classed < Len(results)
    /\ IF traced.edge.target \notin DOMAIN strongest
       THEN phase' = "invalid" /\ UNCHANGED <<strongest, classed>>
       ELSE /\ strongest' = [n \in DOMAIN strongest \cup {s} |->
                               IF n = s THEN Strengthened(traced) ELSE strongest[n]]
            /\ classed' = classed + 1
            /\ UNCHANGED phase
    /\ UNCHANGED <<inputVars, traceVars, impacted>>

(* has_unknown_impact: the coverage of the whole generation, which counts  *)
(* the sites that resolution by name rests on as covered.                  *)
HasUnknownImpact == \E s \in Site : graph[s].evidence \in {"heuristic", "omitted"}

RelationshipUnknown ==
    \E i \in DOMAIN results : graph[results[i].edge.site].evidence = "omitted"

Impact ==
    /\ phase = "impact"
    /\ classed = Len(results)
    /\ impacted' =
         [of |-> [n \in DOMAIN strongest \ {request.start.at} |-> strongest[n]],
          unknown |-> HasUnknownImpact \/ truncation # {} \/ RelationshipUnknown]
    /\ phase' = "done"
    /\ UNCHANGED <<inputVars, traceVars, strongest, classed>>

(* Cancellation, the deadline and the byte limits fail the whole request,  *)
(* which then has no partial answer.                                       *)
Fail ==
    /\ phase \notin {"done", "invalid", "failed"}
    /\ phase' = "failed"
    /\ depth' = 1
    /\ seen' = {} /\ current' = {} /\ next' = {}
    /\ results' = <<>>
    /\ visited' = 0 /\ completed' = 0
    /\ truncation' = {} /\ stop' = FALSE
    /\ selected' = {} /\ pending' = {}
    /\ strongest' = <<>> /\ classed' = 0
    /\ UNCHANGED <<inputVars, impacted>>

Next ==
    \/ StartAtDefinition \/ StartAtSite \/ OriginsAdmitted \/ Level \/ EndLevel
    \/ \E e \in pending : AdmitOrigin(e) \/ ProcessEdge(e)
    \/ BeginImpact \/ Strengthen \/ Impact \/ Fail

Spec == Init /\ [][Next]_vars

-----------------------------------------------------------------------------
(* Properties.  The reference is the set of walks through the graph: a     *)
(* walk begins with an edge of the start and goes on from neighbour to     *)
(* origin; one that begins at a site never takes another relationship of   *)
(* the declarations the site relates.                                      *)

First ==
    IF request.start.type = "definition" THEN AllowedFrom({request.start.at}) ELSE SiteEdges

Later ==
    {e \in Edges : /\ Allowed(e)
                   /\ request.start.type = "site" => \A f \in First : Origin(e) # Origin(f)}

(* The edges at the end of the walks of each length.                       *)
EndsAt[n \in 1 .. request.limits["depth"]] ==
    IF n = 1 THEN First
    ELSE LET from == {Neighbor(f) : f \in EndsAt[n - 1]}
         IN  {e \in Later : Origin(e) \in from}

(* The declarations that the walks through some edges lead to: the least   *)
(* set of them that no such walk leaves.  And the edges on those walks.    *)
Holds(S, through) ==
    \A e \in through :
        (e \in First \/ (e \in Later /\ Origin(e) \in S)) => Neighbor(e) \in S

Reached(through) ==
    {n \in Node : \A S \in SUBSET Node : Holds(S, through) => n \in S}

Reachable(through) ==
    LET reached == Reached(through)
    IN  {e \in through : e \in First \/ (e \in Later /\ Origin(e) \in reached)}

Listed == {results[i].edge : i \in DOMAIN results}

(* A trace lists each edge once, in the order of its depth, and only edges *)
(* that a walk of that many edges ends with.  Unless a node was refused or *)
(* left out of a frontier, it has the end of every walk that is no longer  *)
(* than the completed depth, and its depths are the distances from the     *)
(* start.  A trace with no truncation flag is complete; a flag other than  *)
(* that of the frontier, whose node may lead nowhere, means that an edge   *)
(* is missing (process_selected_edges, admit_visited_edge,                 *)
(* frontier_has_allowed_edges).                                            *)
TraceIsExact ==
    phase = "done" =>
        LET ends == EndsAt
            all  == Reachable(Edges)
        IN
        /\ \A i, j \in DOMAIN results :
              i < j => /\ results[i].edge # results[j].edge
                       /\ results[i].depth <= results[j].depth
        /\ \A i \in DOMAIN results :
              results[i].depth \in DOMAIN ends /\ results[i].edge \in ends[results[i].depth]
        /\ truncation \cap {"nodes", "frontier"} = {} =>
              /\ \A n \in 1 .. completed : ends[n] \subseteq Listed
              /\ \A i \in DOMAIN results : \A n \in 1 .. results[i].depth - 1 :
                    results[i].edge \notin ends[n]
        /\ Listed \subseteq all
        /\ truncation = {} => Listed = all
        /\ truncation \ {"frontier"} # {} => Listed # all

Certain == {e \in Edges : graph[e.site].evidence = "direct"
                         /\ Cardinality(graph[e.site].targets) = 1}

(* The impact of a declaration is conservative: the classes can always be  *)
(* computed from the trace, however truncated; a declaration is called     *)
(* directly connected only if a walk of unique, direct relationships leads *)
(* from it to the start; and an answer that claims no unknown coverage     *)
(* names every declaration that leads there, at its distance.              *)
ImpactIsConservative ==
    /\ phase # "invalid"
    /\ (phase = "done" /\ request.impact) =>
          LET ends == EndsAt
              of   == impacted.of
          IN
          /\ \A n \in DOMAIN of : of[n].class = "direct" => n \in Reached(Certain)
          /\ ~impacted.unknown =>
                /\ DOMAIN of = Reached(Edges) \ {request.start.at}
                /\ \A n \in DOMAIN of :
                      /\ of[n].depth \in DOMAIN ends
                      /\ \E e \in ends[of[n].depth] : Source(e) = n
                      /\ \A i \in 1 .. of[n].depth - 1 : \A e \in ends[i] : Source(e) # n

(* RustGraphImpactClass::Possible: "Only ambiguous or heuristic paths are  *)
(* available."  Of a complete answer: no declaration it calls possible is  *)
(* connected by unique, direct relationships.                              *)
PossibleMeansOnlyPossible ==
    (phase = "done" /\ request.impact /\ ~impacted.unknown) =>
        \A n \in DOMAIN impacted.of :
            impacted.of[n].class = "possible" => n \notin Reached(Certain)
=============================================================================
