------------------------ MODULE GraphTraversalProofs ------------------------
(***************************************************************************)
(* Machine-checked exactness of traces and of the impact computed from     *)
(* them, for any graph, any request and any limits.                        *)
(*                                                                         *)
(* The argument: a node enters a frontier once, when it is first seen, so  *)
(* an edge is selected at most once, at the length of a walk to it.  While *)
(* nothing was refused, the seen nodes that have left the frontiers have   *)
(* all their edges listed or about to be: so the walks of a completed      *)
(* length are listed, and at the end, when no frontier is left, the seen   *)
(* nodes hold every walk.  Whatever sets a flag, other than that of the    *)
(* frontier, does so over an edge of a walk that the trace cannot list any *)
(* more.  From a declaration, the trace lists an edge after one that led   *)
(* to its origin, so impact analysis always finds the class it propagates. *)
(***************************************************************************)
EXTENDS GraphTraversal, FiniteSetTheorems, TLAPS

-----------------------------------------------------------------------------
(* The inductive invariant.                                                *)

(* The phases of the loop over levels, and those after it.                 *)
Walking == {"level", "process"}

Ended == {"traced", "impact", "invalid", "done"}

AtDefinition == request.start.type = "definition"

Start == request.start.at

Classified == [class : {"direct", "possible"}, depth : Nat]

(* Types.                                                                  *)
GraphTypeOK ==
    /\ graph \in Graphs /\ request \in Requests
    /\ phase \in {"start", "admit", "failed"} \cup Walking \cup Ended
    /\ depth \in 1 .. request.limits["depth"]
    /\ seen \subseteq Node /\ current \subseteq Node /\ next \subseteq Node
    /\ results \in Seq([depth : Nat, edge : Edges])
    /\ visited \in Nat /\ completed \in Nat
    /\ truncation \subseteq {"edges", "nodes", "frontier", "results", "depth"}
    /\ stop \in BOOLEAN
    /\ selected \subseteq Edges /\ pending \subseteq selected
    /\ strongest \in [DOMAIN strongest -> Classified] /\ DOMAIN strongest \subseteq Node
    /\ classed \in 0 .. Len(results)
    /\ impacted.of \in [DOMAIN impacted.of -> Classified] /\ impacted.unknown \in BOOLEAN

(* What the place in the loop says of the traversal.                       *)
PlaceOK ==
    /\ phase = "start" => seen = {} /\ truncation = {} /\ selected = {}
    /\ phase \in {"start", "admit"} =>
          current = {} /\ next = {} /\ results = <<>> /\ completed = 0 /\ depth = 1
    /\ phase = "admit" => ~AtDefinition /\ "results" \notin truncation
    /\ phase = "level" => ~stop /\ next = {} /\ pending = {}
    /\ (phase = "level" /\ depth = 1) => AtDefinition /\ current = {Start}
    /\ phase = "process" => current = {} /\ (next # {} => selected # {})
    /\ (phase = "process" /\ "results" \in truncation) => pending = {}
    /\ phase \in Walking => depth = completed + 1
    /\ phase \in Ended => pending = {}
    /\ phase \in {"traced", "impact", "invalid"} => request.impact
    /\ stop <=> truncation \cap {"edges", "results"} # {}

(* The origin of an edge that is not examined again: it left the frontiers *)
(* and cannot come back to them.                                           *)
Left(e) == Origin(e) \notin current \cup next /\ (Origin(e) \in seen \/ ~Room)

(* No node is in a frontier twice.                                         *)
FrontierOK ==
    /\ current \cup next \subseteq seen
    /\ phase \in Walking => \A e \in selected : Left(e)
    /\ phase \in Walking => \A e \in Listed : Left(e)
    /\ phase = "admit" => \A e \in selected \ pending : Left(e)
    /\ phase = "admit" => \A n \in seen : \E e \in selected : Origin(e) = n
    /\ (phase = "admit" /\ ~stop) => selected = First
    /\ (phase \in Walking /\ ~stop /\ ~(phase = "level" /\ depth = 1)) =>
          \A f \in First : Left(f)

(* The trace lists no edge twice, in the order of depths, and the ends of  *)
(* walks of these lengths.                                                 *)
TraceOK ==
    /\ phase = "process" => pending \cap Listed = {}
    /\ \A i, j \in DOMAIN results :
          i < j => results[i].edge # results[j].edge /\ results[i].depth <= results[j].depth
    /\ \A i \in DOMAIN results :
          /\ results[i].depth \in 1 .. depth
          /\ results[i].depth <= completed + 1
          /\ results[i].edge \in EndsAt[results[i].depth]
          /\ Neighbor(results[i].edge) \in seen

(* The frontiers are where walks of the level's length lead.               *)
LevelOK ==
    /\ phase \in {"admit", "process"} => selected \subseteq EndsAt[depth]
    /\ phase = "process" => \A n \in next : \E f \in EndsAt[depth] : Neighbor(f) = n
    /\ (phase = "level" /\ depth > 1) =>
          \A n \in current : \E f \in EndsAt[depth - 1] : Neighbor(f) = n
    /\ phase = "process" =>
          \A i \in DOMAIN results : results[i].depth < depth => Neighbor(results[i].edge) \notin next

(* Only what the start leads to is visited.                                *)
ReachOK ==
    /\ next \subseteq Reached(Edges)
    /\ (phase = "level" /\ depth > 1) => current \subseteq Reached(Edges)
    /\ selected \subseteq Reachable(Edges)
    /\ Listed \subseteq Reachable(Edges)

Undisturbed == truncation \cap {"nodes", "frontier"} = {}

(* While nothing was refused, the edges of the nodes that left the         *)
(* frontiers are listed or about to be.                                    *)
CompleteOK ==
    /\ (phase = "admit" /\ "nodes" \notin truncation) =>
          \A e \in selected \ pending : Origin(e) \in seen
    /\ (phase \in Walking /\ ~stop /\ Undisturbed) =>
          /\ \A e \in First : Origin(e) \in seen
          /\ \A e \in First \cup Later :
                Origin(e) \in seen \ (current \cup next) => e \in Listed \cup pending
    /\ Undisturbed =>
          \A n \in 1 .. completed : \A e \in EndsAt[n] :
              \E i \in DOMAIN results : results[i].edge = e /\ results[i].depth <= n
    /\ (phase \in Ended /\ truncation = {}) => Reachable(Edges) \subseteq Listed

(* An edge that the start leads to and that the trace will never list.     *)
Lost(e) ==
    /\ e \in Reachable(Edges) \ Listed
    /\ \/ phase \in Ended
       \/ stop /\ e \notin pending /\ (phase = "admit" => e \notin selected)
       \/ Origin(e) \notin seen /\ ~Room
       \/ phase # "admit" /\ e \notin pending /\ Origin(e) \in seen \ (current \cup next)

LostOK == truncation \ {"frontier"} # {} => \E e \in Edges : Lost(e)

(* From a declaration, an edge is listed after one that led to its origin. *)
LedTo(n, k) == n = Start \/ \E j \in 1 .. k : Neighbor(results[j].edge) = n

OrderOK ==
    AtDefinition =>
        /\ \A i \in DOMAIN results : LedTo(Origin(results[i].edge), i - 1)
        /\ "results" \notin truncation => \A n \in seen : LedTo(n, Len(results))

(* What the loop of impact analysis has made of the edges it has taken.    *)
From(n) == {j \in 1 .. classed : Source(results[j].edge) = n}

ClassesOK ==
    phase = "impact" =>
        /\ \A n \in Node : n \in DOMAIN strongest <=> n = Start \/ From(n) # {}
        /\ \A n \in DOMAIN strongest :
              strongest[n].class = "direct" => n = Start \/ n \in Reached(Certain)
        /\ \A n \in DOMAIN strongest \ {Start} :
              /\ \E j \in From(n) : strongest[n].depth = results[j].depth
              /\ \A j \in From(n) : strongest[n].depth <= results[j].depth

TraversalInv ==
    /\ GraphTypeOK /\ PlaceOK /\ FrontierOK /\ TraceOK /\ LevelOK /\ ReachOK
    /\ CompleteOK /\ LostOK /\ OrderOK
    /\ ClassesOK /\ ImpactIsConservative

-----------------------------------------------------------------------------
(* What the definitions of the model say.                                  *)

(* The walks of n edges, as functions.                                     *)
Walks(n) ==
    {w \in [1 .. n -> First \cup Later] :
        /\ w[1] \in First
        /\ \A i \in 2 .. n : w[i] \in Later /\ Origin(w[i]) = Neighbor(w[i - 1])}

WalkEnd == [n \in 1 .. request.limits["depth"] |-> {w[n] : w \in Walks(n)}]

(* The ends of the walks satisfy the recursive equation of EndsAt ...      *)
LEMMA WalksByLength ==
    ASSUME request \in Requests
    PROVE  WalkEnd = [n \in 1 .. request.limits["depth"] |->
               IF n = 1 THEN First
               ELSE {e \in Later : Origin(e) \in {Neighbor(f) : f \in WalkEnd[n - 1]}}]
<1> DEFINE D == request.limits["depth"]
<1>1. D \in Nat
  BY GraphAssumption
<1> HIDE DEF D
<1>2. ASSUME NEW n \in 1 .. D, n = 1
      PROVE  WalkEnd[n] = First
  <2>1. \A e \in First : [i \in 1 .. 1 |-> e] \in Walks(1)
    BY DEF Walks
  <2>2. WalkEnd[n] = {w[1] : w \in Walks(1)}
    BY <1>2 DEF WalkEnd, D
  <2>3. \A w \in Walks(1) : w[1] \in First
    BY DEF Walks
  <2>4. \A e \in First : [i \in 1 .. 1 |-> e][1] = e
    OBVIOUS
  <2> QED
    BY <2>1, <2>2, <2>3, <2>4
<1>3. ASSUME NEW n \in 1 .. D, n # 1
      PROVE  WalkEnd[n] = {e \in Later : Origin(e) \in {Neighbor(f) : f \in WalkEnd[n - 1]}}
  <2>1. n \in Nat /\ n - 1 \in 1 .. D /\ n \in 2 .. n
    BY <1>1, <1>3
  <2>2. WalkEnd[n] = {w[n] : w \in Walks(n)} /\ WalkEnd[n - 1] = {w[n - 1] : w \in Walks(n - 1)}
    BY <2>1 DEF WalkEnd, D
  <2>3. ASSUME NEW w \in Walks(n)
        PROVE  w[n] \in Later /\ \E f \in WalkEnd[n - 1] : Origin(w[n]) = Neighbor(f)
    <3> DEFINE v == [i \in 1 .. n - 1 |-> w[i]]
    <3>1. w[n] \in Later /\ Origin(w[n]) = Neighbor(w[n - 1])
      BY <2>1 DEF Walks
    <3>2. v \in Walks(n - 1) /\ v[n - 1] = w[n - 1]
      BY <2>1 DEF Walks
    <3> QED
      BY <3>1, <3>2, <2>2
  <2>4. ASSUME NEW e \in Later, NEW f \in WalkEnd[n - 1], Origin(e) = Neighbor(f)
        PROVE  \E w \in Walks(n) : w[n] = e
    <3>1. PICK v \in Walks(n - 1) : v[n - 1] = f
      BY <2>2
    <3> DEFINE w == [i \in 1 .. n |-> IF i = n THEN e ELSE v[i]]
    <3>2. w[n] = e /\ w[1] = v[1] /\ w[n - 1] = f /\ \A i \in 1 .. n - 1 : w[i] = v[i]
      BY <2>1, <3>1, <1>3
    <3>3. w \in [1 .. n -> First \cup Later] /\ w[1] \in First
      BY <3>2, <2>1 DEF Walks
    <3>4. ASSUME NEW i \in 2 .. n
          PROVE  w[i] \in Later /\ Origin(w[i]) = Neighbor(w[i - 1])
      <4>1. CASE i = n
        BY <4>1, <3>2, <2>4
      <4>2. CASE i # n
        <5>1. i \in 2 .. n - 1 /\ i \in 1 .. n - 1 /\ i - 1 \in 1 .. n - 1
          BY <4>2, <2>1
        <5>2. v[i] \in Later /\ Origin(v[i]) = Neighbor(v[i - 1])
          BY <5>1 DEF Walks
        <5>3. w[i] = v[i] /\ w[i - 1] = v[i - 1]
          BY <5>1, <3>2
        <5> QED
          BY <5>2, <5>3
      <4> QED
        BY <4>1, <4>2
    <3> HIDE DEF w
    <3>5. w \in Walks(n)
      BY <3>3, <3>4 DEF Walks
    <3> QED
      BY <3>5, <3>2
  <2> QED
    BY <2>2, <2>3, <2>4
<1>4. WalkEnd = [n \in 1 .. D |-> WalkEnd[n]]
  BY DEF WalkEnd, D
<1> QED
  BY <1>2, <1>3, <1>4 DEF D

(* ... so that EndsAt, the function chosen by it, satisfies it too.        *)
LEMMA EndsAtEquation ==
    ASSUME request \in Requests
    PROVE  EndsAt = [n \in 1 .. request.limits["depth"] |->
               IF n = 1 THEN First
               ELSE {e \in Later : Origin(e) \in {Neighbor(f) : f \in EndsAt[n - 1]}}]
<1> DEFINE F(h) == [n \in 1 .. request.limits["depth"] |->
               IF n = 1 THEN First
               ELSE {e \in Later : Origin(e) \in {Neighbor(f) : f \in h[n - 1]}}]
           chosen == CHOOSE h : h = F(h)
<1>1. \E h : h = F(h)
  BY WalksByLength
<1>2. chosen = F(chosen)
  <2> HIDE DEF F
  <2> QED
    BY <1>1
<1>3. EndsAt = chosen
  BY DEF EndsAt
<1> QED
  BY <1>2, <1>3

(* Walks of one edge end with the first edges.                             *)
LEMMA EndsAtFirst ==
    ASSUME request \in Requests
    PROVE  DOMAIN EndsAt = 1 .. request.limits["depth"] /\ EndsAt[1] = First
<1>1. request.limits["depth"] \in Nat \ {0}
  BY GraphAssumption
<1> QED
  BY <1>1, EndsAtEquation

(* A longer walk goes on from where one that is shorter by an edge led.    *)
LEMMA EndsAtNext ==
    ASSUME request \in Requests, NEW n \in 2 .. request.limits["depth"]
    PROVE  EndsAt[n] = {e \in Later : \E f \in EndsAt[n - 1] : Neighbor(f) = Origin(e)}
<1>1. request.limits["depth"] \in Nat \ {0}
  BY GraphAssumption
<1>2. EndsAt[n] = {e \in Later : Origin(e) \in {Neighbor(f) : f \in EndsAt[n - 1]}}
  BY <1>1, EndsAtEquation
<1> QED
  BY <1>2

(* Edges relate declarations.                                              *)
LEMMA EdgeEnds ==
    ASSUME graph \in Graphs, NEW e \in Edges
    PROVE  e.site \in Site /\ Source(e) \in Node /\ Origin(e) \in Node /\ Neighbor(e) \in Node
  BY DEF Graphs, Resolutions, Edges, Source, Origin, Neighbor

(* What every request satisfies.                                           *)
LEMMA StartFacts ==
    ASSUME request \in Requests
    PROVE  /\ request.start.type \in {"definition", "site"}
           /\ AtDefinition => Start \in Node
           /\ request.impact \in BOOLEAN
           /\ request.impact => AtDefinition /\ request.direction = "inbound"
           /\ request.limits["depth"] \in Nat \ {0}
  BY GraphAssumption DEF AtDefinition, Start

(* The edges that begin a walk and those that continue one.                *)
LEMMA FirstAndLater ==
    ASSUME request \in Requests
    PROVE  /\ First \subseteq Edges /\ Later \subseteq Edges
           /\ \A e \in First \cup Later : Allowed(e)
           /\ AtDefinition => First = AllowedFrom({Start})
           /\ AtDefinition => Later = {e \in Edges : Allowed(e)}
           /\ ~AtDefinition => First = SiteEdges
           /\ ~AtDefinition =>
                 Later = {e \in Edges : Allowed(e) /\ \A f \in First : Origin(e) # Origin(f)}
<1>1. AtDefinition => First = AllowedFrom({Start})
  BY DEF First, AtDefinition, Start
<1>2. ~AtDefinition => First = SiteEdges
  BY DEF First, AtDefinition
<1>3. AtDefinition => Later = {e \in Edges : Allowed(e)}
  <2> SUFFICES ASSUME AtDefinition
               PROVE  Later = {e \in Edges : Allowed(e)}
    OBVIOUS
  <2>1. request.start.type # "site"
    BY DEF AtDefinition
  <2> QED
    BY <2>1 DEF Later
<1>4. ~AtDefinition => Later = {e \in Edges : Allowed(e) /\ \A f \in First : Origin(e) # Origin(f)}
  <2> SUFFICES ASSUME ~AtDefinition
               PROVE  Later = {e \in Edges : Allowed(e) /\ \A f \in First : Origin(e) # Origin(f)}
    OBVIOUS
  <2>1. request.start.type = "site"
    BY StartFacts DEF AtDefinition
  <2> QED
    BY <2>1 DEF Later
<1>5. /\ First \subseteq Edges /\ Later \subseteq Edges
      /\ \A e \in First \cup Later : Allowed(e)
  BY <1>1, <1>2 DEF Later, AllowedFrom, SiteEdges
<1> QED
  BY <1>1, <1>2, <1>3, <1>4, <1>5

(* What walks lead to is closed under walking on, and the least such set.  *)
LEMMA ReachedClosed ==
    ASSUME graph \in Graphs, NEW T, T \subseteq Edges
    PROVE  /\ Reached(T) \subseteq Node
           /\ Holds(Reached(T), T)
           /\ First \cap T \subseteq Reachable(T)
           /\ \A e \in Later \cap T : Origin(e) \in Reached(T) => e \in Reachable(T)
           /\ Reachable(T) \subseteq T /\ Reachable(T) \subseteq First \cup Later
           /\ \A e \in Reachable(T) : Neighbor(e) \in Reached(T)
           /\ \A n \in Reached(T) : \E e \in Reachable(T) : Neighbor(e) = n
<1>1. Reached(T) \subseteq Node
  BY DEF Reached
<1>2. ASSUME NEW e \in T, e \in First \/ (e \in Later /\ Origin(e) \in Reached(T))
      PROVE  Neighbor(e) \in Reached(T)
  <2>1. Neighbor(e) \in Node
    BY EdgeEnds
  <2>2. ASSUME NEW S \in SUBSET Node, Holds(S, T)
        PROVE  Neighbor(e) \in S
    <3>1. Origin(e) \in Reached(T) => Origin(e) \in S
      BY <2>2 DEF Reached
    <3> QED
      BY <3>1, <1>2, <2>2 DEF Holds
  <2> QED
    BY <2>1, <2>2 DEF Reached
<1>3. /\ First \cap T \subseteq Reachable(T)
      /\ \A e \in Later \cap T : Origin(e) \in Reached(T) => e \in Reachable(T)
      /\ Reachable(T) \subseteq T /\ Reachable(T) \subseteq First \cup Later
  BY DEF Reachable
<1>4. \A e \in Reachable(T) : Neighbor(e) \in Reached(T)
  BY <1>2 DEF Reachable
<1>5. ASSUME NEW n \in Reached(T)
      PROVE  \E e \in Reachable(T) : Neighbor(e) = n
  <2> DEFINE S == {Neighbor(e) : e \in Reachable(T)}
  <2>1. S \in SUBSET Node
    BY <1>1, <1>4
  <2>2. ASSUME NEW e \in T, e \in First \/ (e \in Later /\ Origin(e) \in S)
        PROVE  Neighbor(e) \in S
    <3>1. e \in Reachable(T)
      BY <2>2, <1>3, <1>4
    <3> QED
      BY <3>1
  <2>3. Holds(S, T)
    BY <2>2 DEF Holds
  <2>4. n \in S
    BY <2>1, <2>3 DEF Reached
  <2> QED
    BY <2>4
<1> QED
  BY <1>1, <1>2, <1>3, <1>4, <1>5 DEF Holds

(* No smaller set holds what walks lead to.                                *)
LEMMA ReachedLeast ==
    ASSUME NEW T, NEW S \in SUBSET Node, Holds(S, T)
    PROVE  Reached(T) \subseteq S
  BY DEF Reached

(* The reference depends on the graph and the request alone.               *)
LEMMA SameInputs ==
    ASSUME UNCHANGED inputVars
    PROVE  /\ Edges' = Edges /\ First' = First /\ Later' = Later /\ EndsAt' = EndsAt
           /\ Reached(Edges)' = Reached(Edges) /\ Reachable(Edges)' = Reachable(Edges)
           /\ Reached(Certain)' = Reached(Certain)
           /\ \A e : Origin(e)' = Origin(e) /\ Neighbor(e)' = Neighbor(e) /\ Source(e)' = Source(e)
<1> USE DEF inputVars
<1>1. graph' = graph /\ request' = request
  OBVIOUS
<1>2. \A e : Origin(e)' = Origin(e) /\ Neighbor(e)' = Neighbor(e) /\ Source(e)' = Source(e)
  BY <1>1 DEF Origin, Neighbor, Source
<1>3. Edges' = Edges
  BY <1>1 DEF Edges
<1>4. First' = First
  BY <1>1 DEF First, SiteEdges, AllowedFrom, Edges, Allowed, Origin, Source
<1>5. Later' = Later
  BY <1>1, <1>2, <1>3, <1>4 DEF Later, Allowed
<1>6. EndsAt' = EndsAt
  <2> DEFINE src(g, e) == g[e.site].source
             origin(g, q, e) == IF q.direction = "outbound" THEN src(g, e) ELSE e.target
             neighbor(g, q, e) == IF q.direction = "outbound" THEN e.target ELSE src(g, e)
             edges(g) == {e \in [site : Site, target : Node] : e.target \in g[e.site].targets}
             first(g, q) ==
                 IF q.start.type = "definition"
                 THEN {e \in edges(g) : KindOf[e.site] \in q.kinds
                                        /\ origin(g, q, e) \in {q.start.at}}
                 ELSE {e \in edges(g) : e.site = q.start.at /\ KindOf[e.site] \in q.kinds}
             later(g, q) ==
                 {e \in edges(g) :
                     /\ KindOf[e.site] \in q.kinds
                     /\ q.start.type = "site" =>
                           \A f \in first(g, q) : origin(g, q, e) # origin(g, q, f)}
             ends(g, q) ==
                 CHOOSE h : h = [n \in 1 .. q.limits["depth"] |->
                     IF n = 1 THEN first(g, q)
                     ELSE {e \in later(g, q) :
                             origin(g, q, e) \in {neighbor(g, q, f) : f \in h[n - 1]}}]
  <2>1. EndsAt = ends(graph, request)
    BY DEF EndsAt, First, Later, SiteEdges, AllowedFrom, Edges, Allowed, Origin, Neighbor, Source
  <2>2. EndsAt' = ends(graph', request')
    BY DEF EndsAt, First, Later, SiteEdges, AllowedFrom, Edges, Allowed, Origin, Neighbor, Source
  <2> HIDE DEF ends
  <2> QED
    BY <1>1, <2>1, <2>2
<1>7. Reached(Edges)' = Reached(Edges) /\ Reachable(Edges)' = Reachable(Edges)
  BY <1>1, <1>2, <1>3, <1>4, <1>5 DEF Reached, Reachable, Holds
<1>8. Certain' = Certain
  BY <1>1, <1>3 DEF Certain
<1>9. Reached(Certain)' = Reached(Certain)
  BY <1>1, <1>2, <1>8, <1>4, <1>5 DEF Reached, Holds
<1> QED
  BY <1>2, <1>3, <1>4, <1>5, <1>6, <1>7, <1>9

-----------------------------------------------------------------------------
(* The initial states, and what failing leaves.                            *)
LEMMA TraversalInit ==
    ASSUME Init
    PROVE  TraversalInv
<1> USE DEF Init
<1>1. request \in Requests /\ request.limits["depth"] \in Nat \ {0}
  BY StartFacts
<1>2. Listed = {} /\ DOMAIN results = {} /\ Len(results) = 0
  BY DEF Listed
<1>3. GraphTypeOK
  <2>1. DOMAIN <<>> = {} /\ <<>> \in [{} -> Classified]
    OBVIOUS
  <2>2. strongest \in [DOMAIN strongest -> Classified] /\ DOMAIN strongest \subseteq Node
    BY <2>1
  <2>3. impacted.of \in [DOMAIN impacted.of -> Classified] /\ impacted.unknown \in BOOLEAN
    BY <2>1
  <2>4. results \in Seq([depth : Nat, edge : Edges])
    OBVIOUS
  <2>5. depth \in 1 .. request.limits["depth"] /\ classed \in 0 .. Len(results)
    BY <1>1, <1>2
  <2>6. phase \in {"start", "admit", "failed"} \cup Walking \cup Ended /\ stop \in BOOLEAN
    OBVIOUS
  <2> QED
    BY <2>2, <2>3, <2>4, <2>5, <2>6 DEF GraphTypeOK
<1>4. PlaceOK
  BY DEF PlaceOK, Walking, Ended
<1>5. FrontierOK
  BY DEF FrontierOK, Walking
<1>6. TraceOK
  BY <1>2 DEF TraceOK
<1>7. LevelOK
  BY DEF LevelOK
<1>8. ReachOK
  BY <1>2 DEF ReachOK
<1>9. CompleteOK
  BY DEF CompleteOK, Walking, Ended
<1>10. LostOK
  BY DEF LostOK
<1>11. OrderOK
  BY <1>2 DEF OrderOK
<1>12. ClassesOK /\ ImpactIsConservative
  BY DEF ClassesOK, ImpactIsConservative
<1> QED
  BY <1>3, <1>4, <1>5, <1>6, <1>7, <1>8, <1>9, <1>10, <1>11, <1>12 DEF TraversalInv

(* A failed request has no trace.                                          *)
LEMMA TraversalFail ==
    ASSUME TraversalInv, Fail
    PROVE  TraversalInv'
<1> USE DEF Fail
<1>1. request \in Requests /\ request.limits["depth"] \in Nat \ {0} /\ UNCHANGED inputVars
  BY StartFacts DEF TraversalInv, GraphTypeOK
<1>2. graph' = graph /\ request' = request
  BY DEF inputVars
<1>3. Listed' = {} /\ DOMAIN results' = {} /\ Len(results') = 0
  BY DEF Listed
<1>4. GraphTypeOK'
  <2>1. DOMAIN <<>> = {} /\ <<>> \in [{} -> Classified]
    OBVIOUS
  <2>2. strongest' \in [DOMAIN strongest' -> Classified] /\ DOMAIN strongest' \subseteq Node
    BY <2>1
  <2>3. impacted' = impacted
    OBVIOUS
  <2>4. graph \in Graphs /\ graph' \in Graphs'
    BY <1>2 DEF TraversalInv, GraphTypeOK, Graphs, Resolutions
  <2>5. results' \in Seq([depth : Nat, edge : Edges'])
    OBVIOUS
  <2>6. depth' \in 1 .. request'.limits["depth"] /\ classed' \in 0 .. Len(results')
    BY <1>1, <1>2, <1>3
  <2>7. impacted'.of \in [DOMAIN impacted'.of -> Classified] /\ impacted'.unknown \in BOOLEAN
    BY <2>3 DEF TraversalInv, GraphTypeOK
  <2>8. phase' \in {"start", "admit", "failed"} \cup Walking \cup Ended /\ stop' \in BOOLEAN
    OBVIOUS
  <2> QED
    BY <1>1, <1>2, <2>2, <2>4, <2>5, <2>6, <2>7, <2>8 DEF GraphTypeOK, Classified, Walking, Ended
<1>5. PlaceOK'
  BY DEF PlaceOK, Walking, Ended
<1>6. FrontierOK'
  BY DEF FrontierOK, Walking
<1>7. TraceOK'
  BY <1>3 DEF TraceOK
<1>8. LevelOK'
  BY DEF LevelOK
<1>9. ReachOK'
  BY <1>3 DEF ReachOK
<1>10. CompleteOK'
  BY DEF CompleteOK, Walking, Ended
<1>11. LostOK'
  BY DEF LostOK
<1>12. OrderOK'
  BY <1>3 DEF OrderOK
<1>13. ClassesOK' /\ ImpactIsConservative'
  BY DEF ClassesOK, ImpactIsConservative
<1> QED
  BY <1>4, <1>5, <1>6, <1>7, <1>8, <1>9, <1>10, <1>11, <1>12, <1>13 DEF TraversalInv

-----------------------------------------------------------------------------
(* The steps of the traversal.                                             *)

(* Steps of the traversal leave the input and the analysis alone.          *)
LEMMA TypesOfTrace ==
    ASSUME TraversalInv, UNCHANGED inputVars, UNCHANGED impactVars, Len(results') >= Len(results),
           phase' \in {"start", "admit", "failed"} \cup Walking \cup Ended,
           depth' \in 1 .. request.limits["depth"],
           seen' \subseteq Node, current' \subseteq Node, next' \subseteq Node,
           results' \in Seq([depth : Nat, edge : Edges]),
           visited' \in Nat, completed' \in Nat,
           truncation' \subseteq {"edges", "nodes", "frontier", "results", "depth"},
           stop' \in BOOLEAN,
           selected' \subseteq Edges, pending' \subseteq selected'
    PROVE  GraphTypeOK'
<1>1. graph' = graph /\ request' = request /\ strongest' = strongest /\ classed' = classed
      /\ impacted' = impacted
  BY DEF inputVars, impactVars
<1>2. graph \in Graphs /\ request \in Requests
  BY DEF TraversalInv, GraphTypeOK
<1>3. Edges' = Edges
  BY SameInputs
<1>4. strongest \in [DOMAIN strongest -> Classified] /\ DOMAIN strongest \subseteq Node
  BY DEF TraversalInv, GraphTypeOK
<1>5. impacted.of \in [DOMAIN impacted.of -> Classified] /\ impacted.unknown \in BOOLEAN
  BY DEF TraversalInv, GraphTypeOK
<1>6. classed' \in 0 .. Len(results')
  <2>1. classed \in 0 .. Len(results) /\ Len(results) \in Nat /\ Len(results') \in Nat
    BY DEF TraversalInv, GraphTypeOK
  <2> QED
    BY <1>1, <2>1
<1>7. /\ results' \in Seq([depth : Nat, edge : Edges'])
      /\ selected' \subseteq Edges'
  BY <1>3
<1> QED
  BY <1>1, <1>2, <1>4, <1>5, <1>6, <1>7 DEF GraphTypeOK, Classified, Walking, Ended

(* From a declaration, the walk has not begun: its frontier is the start.  *)
LEMMA TraversalStartsAtDefinition ==
    ASSUME TraversalInv, StartAtDefinition
    PROVE  TraversalInv'
<1>1. /\ phase = "start" /\ phase' = "level" /\ AtDefinition
      /\ seen' = {Start} /\ current' = {Start} /\ next' = next /\ depth' = depth
      /\ results' = results /\ visited' = visited /\ completed' = completed
      /\ truncation' = truncation /\ stop' = stop /\ selected' = selected /\ pending' = pending
      /\ graph' = graph /\ request' = request
      /\ UNCHANGED inputVars /\ UNCHANGED impactVars
  BY DEF StartAtDefinition, inputVars, countVars, flagVars, AtDefinition, Start
<1>2. /\ graph \in Graphs /\ request \in Requests /\ Start \in Node
      /\ depth = 1 /\ completed = 0 /\ results = <<>> /\ current = {} /\ next = {} /\ truncation = {}
      /\ stop = FALSE
  BY <1>1, StartFacts DEF TraversalInv, GraphTypeOK, PlaceOK, AtDefinition, Start
<1>3. Listed' = {} /\ DOMAIN results' = {} /\ Len(results') = 0
  BY <1>1, <1>2 DEF Listed
<1>4. AtDefinition' /\ Start' = Start
  BY <1>1 DEF AtDefinition, Start
<1>5. GraphTypeOK'
  BY <1>1, <1>2, TypesOfTrace DEF TraversalInv, GraphTypeOK, Walking
<1>6. selected = {} /\ pending = {}
  BY <1>1 DEF TraversalInv, PlaceOK, GraphTypeOK
<1>7. PlaceOK'
  BY <1>1, <1>2, <1>4, <1>6 DEF PlaceOK, Walking, Ended
<1>8. FrontierOK'
  BY <1>1, <1>2, <1>3, <1>4, <1>6 DEF FrontierOK, Walking
<1>9. TraceOK'
  BY <1>1, <1>3 DEF TraceOK
<1>10. LevelOK'
  BY <1>1, <1>2 DEF LevelOK
<1>11. ReachOK'
  BY <1>1, <1>2, <1>3, <1>6 DEF ReachOK
<1>12. CompleteOK'
  <2>1. \A e \in First' : Origin(e)' \in seen'
    BY <1>1, <1>2, <1>4, FirstAndLater, SameInputs DEF AllowedFrom
  <2>2. 1 .. completed' = {}
    BY <1>1, <1>2
  <2> QED
    BY <1>1, <1>2, <2>1, <2>2 DEF CompleteOK, Ended
<1>13. LostOK'
  BY <1>1, <1>2 DEF LostOK
<1>14. OrderOK'
  BY <1>1, <1>3, <1>4 DEF OrderOK, LedTo
<1>15. ClassesOK' /\ ImpactIsConservative'
  BY <1>1 DEF ClassesOK, ImpactIsConservative
<1> QED
  BY <1>5, <1>7, <1>8, <1>9, <1>10, <1>11, <1>12, <1>13, <1>14, <1>15 DEF TraversalInv

(* Edges can be counted.                                                   *)
LEMMA EdgesFinite == IsFiniteSet(Edges)
<1> DEFINE P == [site : Site, target : Node]
           f == [e \in P |-> <<e.site, e.target>>]
<1>1. IsFiniteSet(Site \X Node)
  BY FS_Product, GraphAssumption
<1>2. f \in [P -> Site \X Node]
  OBVIOUS
<1>3. ASSUME NEW a \in P, NEW b \in P, f[a] = f[b]
      PROVE  a = b
  <2>1. a.site = b.site /\ a.target = b.target
    BY <1>3
  <2> QED
    BY <2>1
<1>4. f \in Injection(P, Site \X Node)
  <2> HIDE DEF f
  <2> QED
    BY <1>2, <1>3 DEF Injection, IsInjective
<1>5. IsFiniteSet(P)
  BY <1>1, <1>4, FS_Injection
<1>6. Edges \in SUBSET P
  BY DEF Edges
<1> QED
  BY <1>5, <1>6, FS_Subset

(* A selection keeps edges, and sets the flag when it loses one.           *)
LEMMA Selection ==
    ASSUME NEW edges, edges \subseteq Edges, NEW order, Select(edges, order),
           visited \in Nat, stop \in BOOLEAN
    PROVE  /\ selected' \subseteq edges /\ pending' = selected' /\ completed' = completed
           /\ visited' \in Nat /\ stop' \in BOOLEAN
           /\ stop' <=> stop \/ selected' # edges
           /\ truncation' = IF selected' = edges THEN truncation ELSE truncation \cup {"edges"}
<1>1. Kept(edges, order) \subseteq edges
  BY DEF Kept
<1>2. Cardinality(Kept(edges, order)) \in Nat
  BY <1>1, EdgesFinite, FS_Subset, FS_CardinalityType
<1>3. /\ selected' = Kept(edges, order) /\ pending' = Kept(edges, order)
      /\ visited' = visited + Cardinality(Kept(edges, order))
      /\ stop' = (stop \/ Kept(edges, order) # edges)
      /\ truncation' = IF Kept(edges, order) = edges THEN truncation
                       ELSE truncation \cup {"edges"}
      /\ completed' = completed
  BY DEF Select
<1>4. stop' \in BOOLEAN /\ (stop' <=> stop \/ Kept(edges, order) # edges)
  BY <1>3
<1> QED
  BY <1>1, <1>2, <1>3, <1>4

(* From a site, the selection is of the first edges; one left out is lost. *)
LEMMA TraversalStartsAtSite ==
    ASSUME TraversalInv, StartAtSite
    PROVE  TraversalInv'
<1>1. /\ phase = "start" /\ phase' = "admit" /\ ~AtDefinition
      /\ seen' = seen /\ current' = current /\ next' = next /\ depth' = depth
      /\ results' = results /\ graph' = graph /\ request' = request
      /\ UNCHANGED inputVars /\ UNCHANGED impactVars /\ Select(SiteEdges, ByTarget)
  BY DEF StartAtSite, inputVars, frontierVars, AtDefinition
<1>2. /\ graph \in Graphs /\ request \in Requests /\ visited \in Nat
      /\ depth = 1 /\ completed = 0 /\ results = <<>> /\ current = {} /\ next = {} /\ truncation = {}
      /\ stop = FALSE /\ seen = {}
  BY <1>1 DEF TraversalInv, GraphTypeOK, PlaceOK
<1>3. Listed' = {} /\ DOMAIN results' = {} /\ Len(results') = 0
  BY <1>1, <1>2 DEF Listed
<1>4. ~AtDefinition'
  BY <1>1 DEF AtDefinition
<1>5. First = SiteEdges /\ First \subseteq Edges /\ First \subseteq Reachable(Edges)
  BY <1>1, <1>2, FirstAndLater, ReachedClosed
<1>6. /\ selected' \subseteq First /\ pending' = selected' /\ completed' = completed
      /\ visited' \in Nat /\ stop' \in BOOLEAN
      /\ stop' <=> selected' # First
      /\ truncation' = IF selected' = First THEN {} ELSE {"edges"}
  BY <1>1, <1>2, <1>5, Selection
<1>7. GraphTypeOK'
  <2>1. results' \in Seq([depth : Nat, edge : Edges]) /\ Len(results') >= Len(results)
    BY <1>1, <1>2
  <2>2. depth' \in 1 .. request.limits["depth"]
    BY <1>1 DEF TraversalInv, GraphTypeOK
  <2> QED
    BY <1>1, <1>2, <1>5, <1>6, <2>1, <2>2, TypesOfTrace
<1>8. PlaceOK'
  BY <1>1, <1>2, <1>4, <1>6 DEF PlaceOK, Walking, Ended
<1>9. First' = First /\ Reachable(Edges)' = Reachable(Edges) /\ EndsAt' = EndsAt /\ Edges' = Edges
  BY <1>1, SameInputs
<1>10. FrontierOK'
  BY <1>1, <1>2, <1>6, <1>9 DEF FrontierOK, Walking
<1>11. TraceOK'
  BY <1>1, <1>3 DEF TraceOK
<1>12. LevelOK'
  BY <1>1, <1>2, <1>6, <1>9, EndsAtFirst DEF LevelOK
<1>13. ReachOK'
  BY <1>1, <1>2, <1>3, <1>5, <1>6, <1>9 DEF ReachOK
<1>14. CompleteOK'
  <2>1. 1 .. completed' = {}
    BY <1>6, <1>2
  <2> QED
    BY <1>1, <1>6, <2>1 DEF CompleteOK, Walking, Ended
<1>15. LostOK'
  BY <1>1, <1>3, <1>5, <1>6, <1>9 DEF LostOK, Lost
<1>16. OrderOK'
  BY <1>4 DEF OrderOK
<1>17. ClassesOK' /\ ImpactIsConservative'
  BY <1>1 DEF ClassesOK, ImpactIsConservative
<1> QED
  BY <1>7, <1>8, <1>10, <1>11, <1>12, <1>13, <1>14, <1>15, <1>16, <1>17 DEF TraversalInv

(* An origin that is not admitted loses its edge.                          *)
LEMMA TraversalAdmitsOrigin ==
    ASSUME TraversalInv, NEW e \in pending, AdmitOrigin(e)
    PROVE  TraversalInv'
<1>1. /\ phase = "admit" /\ phase' = "admit" /\ pending' = pending \ {e}
      /\ seen' = IF Room THEN seen \cup {Origin(e)} ELSE seen
      /\ truncation' = IF Room \/ Origin(e) \in seen THEN truncation ELSE truncation \cup {"nodes"}
      /\ current' = current /\ next' = next /\ depth' = depth
      /\ results' = results /\ graph' = graph /\ request' = request
      /\ visited' = visited /\ completed' = completed /\ stop' = stop /\ selected' = selected
      /\ UNCHANGED inputVars /\ UNCHANGED impactVars
  BY DEF AdmitOrigin, inputVars, countVars
<1>2. /\ graph \in Graphs /\ request \in Requests /\ selected \subseteq Edges /\ pending \subseteq selected
      /\ depth = 1 /\ completed = 0 /\ results = <<>> /\ current = {} /\ next = {} /\ ~AtDefinition
  BY <1>1 DEF TraversalInv, GraphTypeOK, PlaceOK
<1>3. Listed = {} /\ Listed' = {} /\ DOMAIN results' = {} /\ Len(results') = 0
  BY <1>1, <1>2 DEF Listed
<1>4. ~AtDefinition'
  BY <1>1, <1>2 DEF AtDefinition
<1>5. ~Room => seen' = seen /\ ~Room'
  BY <1>1 DEF Room
<1>6. seen \subseteq seen' /\ (Room => Origin(e) \in seen')
  BY <1>1
<1>7. GraphTypeOK'
  <2>1. Origin(e) \in Node
    BY <1>2, EdgeEnds
  <2> QED
    BY <1>1, <1>2, <2>1, TypesOfTrace DEF TraversalInv, GraphTypeOK
<1>8. PlaceOK'
  BY <1>1, <1>2, <1>4 DEF TraversalInv, PlaceOK, Walking, Ended
<1>9. /\ First' = First /\ Reachable(Edges)' = Reachable(Edges) /\ EndsAt' = EndsAt /\ Edges' = Edges
      /\ Reached(Edges)' = Reached(Edges) /\ \A f : Origin(f)' = Origin(f)
  BY <1>1, SameInputs
<1>10. FrontierOK'
  <2>1. ASSUME NEW f \in selected' \ pending'
        PROVE  Left(f)'
    BY <1>1, <1>2, <1>5, <1>6, <1>9 DEF TraversalInv, FrontierOK, Left
  <2>2. \A n \in seen' : \E f \in selected' : Origin(f)' = n
    BY <1>1, <1>2, <1>9 DEF TraversalInv, FrontierOK
  <2> QED
    BY <1>1, <1>2, <1>9, <2>1, <2>2 DEF TraversalInv, FrontierOK, Walking
<1>11. TraceOK'
  BY <1>1, <1>3 DEF TraceOK
<1>12. LevelOK'
  BY <1>1, <1>9 DEF TraversalInv, LevelOK
<1>13. ReachOK'
  BY <1>1, <1>2, <1>3, <1>9 DEF TraversalInv, ReachOK
<1>14. CompleteOK'
  <2>1. 1 .. completed' = {}
    BY <1>1, <1>2
  <2>2. "nodes" \notin truncation' => \A f \in selected' \ pending' : Origin(f)' \in seen'
    BY <1>1, <1>6, <1>9 DEF TraversalInv, CompleteOK
  <2> QED
    BY <1>1, <2>1, <2>2 DEF CompleteOK, Walking, Ended
<1>15. LostOK'
  <2>1. CASE truncation' = truncation
    <3>1. \A f \in Edges : Lost(f) => Lost(f)'
      BY <1>1, <1>3, <1>5, <1>9 DEF Lost, Ended
    <3> QED
      BY <2>1, <3>1, <1>9 DEF TraversalInv, LostOK
  <2>2. CASE truncation' # truncation
    <3>1. ~Room /\ Origin(e) \notin seen
      BY <2>2, <1>1
    <3>2. e \in Reachable(Edges)
      BY <1>2 DEF TraversalInv, ReachOK
    <3>3. Lost(e)'
      BY <3>1, <3>2, <1>3, <1>5, <1>9 DEF Lost
    <3> QED
      BY <3>3, <1>2, <1>9 DEF LostOK
  <2> QED
    BY <2>1, <2>2
<1>16. OrderOK'
  BY <1>4 DEF OrderOK
<1>17. ClassesOK' /\ ImpactIsConservative'
  BY <1>1 DEF ClassesOK, ImpactIsConservative
<1> QED
  BY <1>7, <1>8, <1>10, <1>11, <1>12, <1>13, <1>14, <1>15, <1>16, <1>17 DEF TraversalInv

(* The turn of the edges of the site begins.                               *)
LEMMA TraversalOriginsAdmitted ==
    ASSUME TraversalInv, OriginsAdmitted
    PROVE  TraversalInv'
<1>1. /\ phase = "admit" /\ phase' = "process" /\ pending = {} /\ pending' = selected
      /\ seen' = seen /\ truncation' = truncation
      /\ current' = current /\ next' = next /\ depth' = depth
      /\ results' = results /\ graph' = graph /\ request' = request
      /\ visited' = visited /\ completed' = completed /\ stop' = stop /\ selected' = selected
      /\ UNCHANGED inputVars /\ UNCHANGED impactVars
  BY DEF OriginsAdmitted, inputVars, countVars, frontierVars, flagVars
<1>2. /\ graph \in Graphs /\ request \in Requests /\ selected \subseteq Edges
      /\ depth = 1 /\ completed = 0 /\ results = <<>> /\ current = {} /\ next = {} /\ ~AtDefinition
  BY <1>1 DEF TraversalInv, GraphTypeOK, PlaceOK
<1>3. Listed = {} /\ Listed' = {} /\ DOMAIN results' = {} /\ Len(results') = 0
  BY <1>1, <1>2 DEF Listed
<1>4. ~AtDefinition'
  BY <1>1, <1>2 DEF AtDefinition
<1>5. Room' = Room
  BY <1>1 DEF Room
<1>6. GraphTypeOK'
  BY <1>1, <1>2, TypesOfTrace DEF TraversalInv, GraphTypeOK, Walking
<1>7. PlaceOK'
  BY <1>1, <1>2, <1>4 DEF TraversalInv, PlaceOK, Walking, Ended
<1>8. /\ First' = First /\ Reachable(Edges)' = Reachable(Edges) /\ EndsAt' = EndsAt /\ Edges' = Edges
      /\ Reached(Edges)' = Reached(Edges) /\ Later' = Later /\ \A f : Origin(f)' = Origin(f)
  BY <1>1, SameInputs
<1>9. \A f \in selected : Left(f) /\ Left(f)'
  BY <1>1, <1>2, <1>5, <1>8 DEF TraversalInv, FrontierOK, Left
<1>10. FrontierOK'
  <2>1. ~stop => selected = First
    BY <1>1 DEF TraversalInv, FrontierOK
  <2> QED
    BY <1>1, <1>2, <1>3, <1>8, <1>9, <2>1 DEF FrontierOK
<1>11. TraceOK'
  BY <1>1, <1>3 DEF TraceOK
<1>12. LevelOK'
  BY <1>1, <1>2, <1>3, <1>8 DEF TraversalInv, LevelOK
<1>13. ReachOK'
  BY <1>1, <1>2, <1>3, <1>8 DEF TraversalInv, ReachOK
<1>14. CompleteOK'
  <2>1. 1 .. completed' = {}
    BY <1>1, <1>2
  <2>2. SUFFICES ASSUME ~stop', Undisturbed'
                 PROVE  /\ \A e \in First' : Origin(e)' \in seen'
                        /\ \A e \in First' \cup Later' : Origin(e)' \in seen' => e \in pending'
    BY <1>1, <1>2, <1>3, <2>1 DEF CompleteOK, Ended
  <2>3. selected = First /\ "nodes" \notin truncation
    BY <1>1, <2>2 DEF TraversalInv, FrontierOK, Undisturbed
  <2>4. \A e \in First : Origin(e) \in seen
    BY <1>1, <2>3 DEF TraversalInv, CompleteOK
  <2>5. ASSUME NEW e \in Later, Origin(e) \in seen
        PROVE  FALSE
    <3>1. PICK f \in First : Origin(f) = Origin(e)
      BY <1>1, <2>3, <2>5 DEF TraversalInv, FrontierOK
    <3> QED
      BY <3>1, <2>5, <1>2, FirstAndLater
  <2> QED
    BY <1>1, <1>8, <2>3, <2>4, <2>5
<1>15. LostOK'
  <2>1. \A f \in Edges : Lost(f) => Lost(f)'
    BY <1>1, <1>3, <1>5, <1>8 DEF Lost, Ended
  <2> QED
    BY <2>1, <1>1, <1>8 DEF TraversalInv, LostOK
<1>16. OrderOK'
  BY <1>4 DEF OrderOK
<1>17. ClassesOK' /\ ImpactIsConservative'
  BY <1>1 DEF ClassesOK, ImpactIsConservative
<1> QED
  BY <1>6, <1>7, <1>10, <1>11, <1>12, <1>13, <1>14, <1>15, <1>16, <1>17 DEF TraversalInv

(* The edges of a level are new, on walks of its length, and reachable.    *)
LEMMA LevelEdges ==
    ASSUME TraversalInv, phase = "level", NEW e \in AllowedFrom(current)
    PROVE  /\ e \in Edges /\ e \in First \cup Later /\ e \notin Listed
           /\ Origin(e) \in seen
           /\ e \in EndsAt[depth] /\ e \in Reachable(Edges)
<1>1. /\ graph \in Graphs /\ request \in Requests /\ depth \in 1 .. request.limits["depth"]
      /\ ~stop /\ current \subseteq seen
  BY DEF TraversalInv, GraphTypeOK, PlaceOK, FrontierOK
<1>2. e \in Edges /\ Allowed(e) /\ Origin(e) \in current
  BY DEF AllowedFrom
<1>3. e \notin Listed
  BY <1>2 DEF TraversalInv, FrontierOK, Left, Walking
<1>4. CASE depth = 1
  <2>1. AtDefinition /\ current = {Start}
    BY <1>4 DEF TraversalInv, PlaceOK
  <2>2. e \in First
    BY <2>1, <1>1, FirstAndLater
  <2>3. e \in EndsAt[depth]
    BY <2>2, <1>1, <1>4, EndsAtFirst
  <2>4. e \in Reachable(Edges)
    BY <2>2, <1>1, <1>2, ReachedClosed
  <2> QED
    BY <1>1, <1>2, <1>3, <2>2, <2>3, <2>4
<1>5. CASE depth # 1
  <2>1. depth \in 2 .. request.limits["depth"] /\ depth > 1
    BY <1>1, <1>5, StartFacts
  <2>2. e \in Later
    <3>1. CASE AtDefinition
      BY <3>1, <1>1, <1>2, FirstAndLater
    <3>2. CASE ~AtDefinition
      <4>1. \A f \in First : Origin(e) # Origin(f)
        BY <1>1, <1>2, <1>5 DEF TraversalInv, FrontierOK, Left, Walking
      <4> QED
        BY <3>2, <4>1, <1>1, <1>2, FirstAndLater
    <3> QED
      BY <3>1, <3>2
  <2>3. e \in EndsAt[depth]
    <3>1. \E f \in EndsAt[depth - 1] : Neighbor(f) = Origin(e)
      BY <1>2, <2>1 DEF TraversalInv, LevelOK
    <3> QED
      BY <2>1, <2>2, <3>1, <1>1, EndsAtNext
  <2>4. e \in Reachable(Edges)
    <3>1. Origin(e) \in Reached(Edges)
      BY <1>2, <2>1 DEF TraversalInv, ReachOK
    <3> QED
      BY <3>1, <2>2, <1>1, <1>2, ReachedClosed
  <2> QED
    BY <1>1, <1>2, <1>3, <2>2, <2>3, <2>4
<1> QED
  BY <1>4, <1>5

(* The selection of a level.                                               *)
LEMMA TraversalLevel ==
    ASSUME TraversalInv, Level
    PROVE  TraversalInv'
<1> DEFINE edges == AllowedFrom(current)
<1>1. /\ phase = "level" /\ phase' = "process" /\ current' = {}
      /\ seen' = seen /\ next' = next /\ depth' = depth
      /\ results' = results /\ graph' = graph /\ request' = request
      /\ UNCHANGED inputVars /\ UNCHANGED impactVars /\ Select(edges, ByOrigin)
  BY DEF Level, inputVars
<1>2. /\ graph \in Graphs /\ request \in Requests /\ visited \in Nat /\ stop = FALSE /\ next = {}
      /\ depth = completed + 1 /\ pending = {} /\ completed \in Nat
      /\ depth \in 1 .. request.limits["depth"]
  BY <1>1 DEF TraversalInv, GraphTypeOK, PlaceOK, Walking
<1>3. edges \subseteq Edges
  BY DEF AllowedFrom
<1>4. \A e \in edges :
          /\ e \in First \cup Later /\ e \notin Listed /\ Origin(e) \in seen
          /\ e \in EndsAt[depth] /\ e \in Reachable(Edges)
  BY <1>1, LevelEdges
<1>5. /\ selected' \subseteq edges /\ pending' = selected' /\ completed' = completed
      /\ visited' \in Nat /\ stop' \in BOOLEAN
      /\ stop' <=> selected' # edges
      /\ truncation' = IF selected' = edges THEN truncation ELSE truncation \cup {"edges"}
  BY <1>1, <1>2, <1>3, Selection
<1>6. \A e \in Edges : e \in edges <=> Allowed(e) /\ Origin(e) \in current
  BY DEF AllowedFrom
<1> HIDE DEF edges
<1>7. Listed' = Listed /\ Room' = Room /\ (AtDefinition' <=> AtDefinition) /\ Start' = Start
  BY <1>1 DEF Listed, Room, AtDefinition, Start
<1>8. /\ First' = First /\ Reachable(Edges)' = Reachable(Edges) /\ EndsAt' = EndsAt /\ Edges' = Edges
      /\ Reached(Edges)' = Reached(Edges) /\ Later' = Later
      /\ \A f : Origin(f)' = Origin(f) /\ Neighbor(f)' = Neighbor(f)
  BY <1>1, SameInputs
<1>9. GraphTypeOK'
  <2>1. truncation' \subseteq {"edges", "nodes", "frontier", "results", "depth"}
    BY <1>5 DEF TraversalInv, GraphTypeOK
  <2>2. results' \in Seq([depth : Nat, edge : Edges]) /\ Len(results') >= Len(results)
        /\ seen' \subseteq Node /\ next' \subseteq Node
    BY <1>1 DEF TraversalInv, GraphTypeOK
  <2> QED
    BY <1>1, <1>2, <1>3, <1>5, <2>1, <2>2, TypesOfTrace DEF Walking
<1>10. PlaceOK'
  <2>1. stop' <=> truncation' \cap {"edges", "results"} # {}
    BY <1>2, <1>5 DEF TraversalInv, PlaceOK
  <2>2. "results" \notin truncation'
    BY <1>2, <1>5 DEF TraversalInv, PlaceOK
  <2> QED
    BY <1>1, <1>2, <1>5, <2>1, <2>2 DEF PlaceOK, Ended
<1>11. FrontierOK'
  <2>1. \A e \in selected' : Left(e)'
    BY <1>1, <1>2, <1>4, <1>5, <1>8 DEF Left
  <2>2. \A e : Left(e) => Left(e)'
    BY <1>1, <1>2, <1>7, <1>8 DEF Left
  <2>3. \A f \in First : Left(f)'
    <3>1. CASE depth = 1
      <4>1. AtDefinition /\ current = {Start}
        BY <3>1, <1>1 DEF TraversalInv, PlaceOK
      <4>2. \A f \in First : f \in edges
        BY <4>1, <1>2, FirstAndLater DEF edges
      <4> QED
        BY <4>2, <1>1, <1>2, <1>4, <1>8 DEF Left
    <3>2. CASE depth # 1
      BY <3>2, <1>1, <1>2, <2>2 DEF TraversalInv, FrontierOK, Walking
    <3> QED
      BY <3>1, <3>2
  <2> QED
    BY <1>1, <1>2, <1>7, <1>8, <2>1, <2>2, <2>3 DEF TraversalInv, FrontierOK, Walking
<1>12. TraceOK'
  BY <1>1, <1>4, <1>5, <1>7, <1>8 DEF TraversalInv, TraceOK
<1>13. LevelOK'
  BY <1>1, <1>2, <1>4, <1>5, <1>8 DEF LevelOK
<1>14. ReachOK'
  BY <1>1, <1>4, <1>5, <1>7, <1>8 DEF TraversalInv, ReachOK
<1>15. CompleteOK'
  <2>1. (~stop' /\ Undisturbed') =>
            /\ \A e \in First' : Origin(e)' \in seen'
            /\ \A e \in First' \cup Later' : Origin(e)' \in seen' => e \in Listed' \cup pending'
    <3>1. SUFFICES ASSUME ~stop', Undisturbed'
                   PROVE  /\ \A e \in First : Origin(e) \in seen
                          /\ \A e \in First \cup Later : Origin(e) \in seen => e \in Listed \cup pending'
      BY <1>1, <1>7, <1>8
    <3>2. Undisturbed /\ pending' = edges
      BY <3>1, <1>5 DEF Undisturbed
    <3>3. \A e \in First \cup Later : e \in Edges /\ Allowed(e)
      BY <1>2, FirstAndLater
    <3> QED
      BY <1>1, <1>2, <1>6, <3>2, <3>3 DEF TraversalInv, CompleteOK, Walking
  <2>2. Undisturbed' => \A n \in 1 .. completed' : \A e \in EndsAt'[n] :
              \E i \in DOMAIN results' : results'[i].edge = e /\ results'[i].depth <= n
    BY <1>1, <1>5, <1>8 DEF TraversalInv, CompleteOK, Undisturbed
  <2> QED
    BY <1>1, <1>2, <2>1, <2>2 DEF CompleteOK, Ended
<1>16. LostOK'
  <2>1. CASE selected' = edges
    <3>1. \A f \in Edges : Lost(f) => Lost(f)'
      BY <1>1, <1>2, <1>5, <1>6, <1>7, <1>8 DEF Lost, Ended
    <3> QED
      BY <2>1, <3>1, <1>5, <1>8 DEF TraversalInv, LostOK
  <2>2. CASE selected' # edges
    <3>1. PICK f \in edges : f \notin selected'
      BY <2>2, <1>5
    <3>2. Lost(f)'
      BY <3>1, <1>1, <1>2, <1>4, <1>5, <1>7, <1>8 DEF Lost
    <3> QED
      BY <3>2, <1>3, <1>8 DEF LostOK
  <2> QED
    BY <2>1, <2>2
<1>17. OrderOK'
  BY <1>1, <1>5, <1>7, <1>8 DEF TraversalInv, OrderOK, LedTo
<1>18. ClassesOK' /\ ImpactIsConservative'
  BY <1>1 DEF ClassesOK, ImpactIsConservative
<1> QED
  BY <1>9, <1>10, <1>11, <1>12, <1>13, <1>14, <1>15, <1>16, <1>17, <1>18 DEF TraversalInv

(* What is known of the edge whose turn it is.                             *)
LEMMA PendingEdge ==
    ASSUME TraversalInv, phase = "process", NEW e \in pending
    PROVE  /\ graph \in Graphs /\ request \in Requests /\ current = {}
           /\ depth = completed + 1 /\ depth \in 1 .. request.limits["depth"] /\ depth \in Nat
           /\ e \in Edges /\ e \in selected /\ e \notin Listed /\ Left(e)
           /\ e \in EndsAt[depth] /\ e \in Reachable(Edges)
           /\ Neighbor(e) \in Node /\ Neighbor(e) \in Reached(Edges)
           /\ "results" \notin truncation
<1>1. /\ graph \in Graphs /\ request \in Requests /\ current = {} /\ depth = completed + 1
      /\ depth \in 1 .. request.limits["depth"] /\ "results" \notin truncation
      /\ e \in Edges /\ e \in selected
  BY DEF TraversalInv, GraphTypeOK, PlaceOK, Walking
<1>2. depth \in Nat
  BY <1>1, StartFacts
<1>3. e \notin Listed /\ Left(e) /\ e \in EndsAt[depth] /\ e \in Reachable(Edges)
  BY <1>1 DEF TraversalInv, TraceOK, FrontierOK, LevelOK, ReachOK, Walking
<1>4. Neighbor(e) \in Node /\ Neighbor(e) \in Reached(Edges)
  BY <1>1, <1>3, EdgeEnds, ReachedClosed
<1> QED
  BY <1>1, <1>2, <1>3, <1>4

(* An edge that adds nothing: its origin or its neighbour was refused.     *)
LEMMA TraversalPasses ==
    ASSUME TraversalInv, phase = "process", NEW e \in pending, SkipEdge(e) \/ RefuseNode(e),
           UNCHANGED <<inputVars, phase, depth, countVars, selected, impactVars>>
    PROVE  TraversalInv'
<1>1. /\ phase' = "process" /\ pending' = pending \ {e}
      /\ seen' = seen /\ current' = current /\ next' = next /\ depth' = depth
      /\ results' = results /\ graph' = graph /\ request' = request
      /\ visited' = visited /\ completed' = completed /\ stop' = stop /\ selected' = selected
      /\ UNCHANGED inputVars /\ UNCHANGED impactVars
  BY DEF SkipEdge, RefuseNode, inputVars, countVars, frontierVars, flagVars
<1>2. \/ Origin(e) \notin seen /\ truncation' = truncation
      \/ Origin(e) \in seen /\ truncation' = truncation \cup {"nodes"}
  BY DEF SkipEdge, RefuseNode, flagVars
<1>3. /\ graph \in Graphs /\ request \in Requests /\ current = {} /\ depth \in Nat
      /\ e \in Edges /\ e \notin Listed /\ Left(e) /\ e \in Reachable(Edges)
  BY PendingEdge
<1>4. Listed' = Listed /\ Room' = Room /\ (AtDefinition' <=> AtDefinition) /\ Start' = Start
  BY <1>1 DEF Listed, Room, AtDefinition, Start
<1>5. /\ First' = First /\ Reachable(Edges)' = Reachable(Edges) /\ EndsAt' = EndsAt /\ Edges' = Edges
      /\ Reached(Edges)' = Reached(Edges) /\ Later' = Later
      /\ \A f : Origin(f)' = Origin(f) /\ Neighbor(f)' = Neighbor(f)
  BY <1>1, SameInputs
<1>6. GraphTypeOK'
  BY <1>1, <1>2, TypesOfTrace DEF TraversalInv, GraphTypeOK
<1>7. PlaceOK'
  <2>1. stop' <=> truncation' \cap {"edges", "results"} # {}
    BY <1>1, <1>2 DEF TraversalInv, PlaceOK
  <2> QED
    BY <1>1, <1>2, <2>1 DEF TraversalInv, PlaceOK, Walking, Ended
<1>8. FrontierOK'
  <2>1. \A f : Left(f) => Left(f)'
    BY <1>1, <1>4, <1>5 DEF Left
  <2> QED
    BY <1>1, <1>4, <1>5, <2>1 DEF TraversalInv, FrontierOK, Walking
<1>9. TraceOK'
  BY <1>1, <1>4, <1>5 DEF TraversalInv, TraceOK
<1>10. LevelOK'
  BY <1>1, <1>5 DEF TraversalInv, LevelOK
<1>11. ReachOK'
  BY <1>1, <1>4, <1>5 DEF TraversalInv, ReachOK
<1>12. CompleteOK'
  <2>1. (~stop' /\ Undisturbed') =>
            /\ \A f \in First' : Origin(f)' \in seen'
            /\ \A f \in First' \cup Later' :
                  Origin(f)' \in seen' \ (current' \cup next') => f \in Listed' \cup pending'
    <3>1. SUFFICES ASSUME ~stop', Undisturbed'
                   PROVE  /\ \A f \in First : Origin(f) \in seen
                          /\ \A f \in First \cup Later :
                                Origin(f) \in seen \ (current \cup next) => f \in Listed \cup pending'
      BY <1>1, <1>4, <1>5
    <3>2. Undisturbed /\ Origin(e) \notin seen
      BY <3>1, <1>2 DEF Undisturbed
    <3> QED
      BY <1>1, <3>1, <3>2 DEF TraversalInv, CompleteOK, Walking
  <2>2. Undisturbed' => \A n \in 1 .. completed' : \A f \in EndsAt'[n] :
              \E i \in DOMAIN results' : results'[i].edge = f /\ results'[i].depth <= n
    BY <1>1, <1>2, <1>5 DEF TraversalInv, CompleteOK, Undisturbed
  <2> QED
    BY <1>1, <2>1, <2>2 DEF CompleteOK, Ended
<1>13. LostOK'
  <2>1. \A f \in Edges : Lost(f) => Lost(f)'
    BY <1>1, <1>4, <1>5 DEF Lost, Ended
  <2>2. Origin(e) \in seen => Lost(e)'
    BY <1>1, <1>3, <1>4, <1>5 DEF Lost, Left
  <2> QED
    BY <1>2, <1>3, <1>5, <2>1, <2>2 DEF TraversalInv, LostOK
<1>14. OrderOK'
  BY <1>1, <1>2, <1>4, <1>5 DEF TraversalInv, OrderOK, LedTo
<1>15. ClassesOK' /\ ImpactIsConservative'
  BY <1>1 DEF ClassesOK, ImpactIsConservative
<1> QED
  BY <1>6, <1>7, <1>8, <1>9, <1>10, <1>11, <1>12, <1>13, <1>14, <1>15 DEF TraversalInv

(* What taking an edge does to the frontiers.                              *)
LEMMA TakenEdge ==
    ASSUME TraversalInv, phase = "process", NEW e \in pending, TakeEdge(e), UNCHANGED inputVars
    PROVE  /\ Origin(e) \in seen /\ current' = current
           /\ seen' = seen \cup {Neighbor(e)}
           /\ next' \subseteq next \cup {Neighbor(e)} /\ next \subseteq next'
           /\ Neighbor(e) \in seen => next' = next /\ seen' = seen
           /\ ("frontier" \notin truncation' /\ Neighbor(e) \notin seen) => Neighbor(e) \in next'
           /\ ~Room => seen' = seen /\ next' = next /\ ~Room'
           /\ \A f : Left(f) => Left(f)'
           /\ current' \cup next' \subseteq seen'
<1>1. /\ Origin(e) \in seen /\ current' = current
      /\ seen' = seen \cup {Neighbor(e)}
      /\ Neighbor(e) \notin seen => Room
      /\ next' = IF Neighbor(e) \notin seen /\ ~FrontierFull THEN next \cup {Neighbor(e)} ELSE next
      /\ (Neighbor(e) \notin seen /\ FrontierFull) => "frontier" \in truncation'
  BY DEF TakeEdge, IsNew
<1>2. next' \subseteq next \cup {Neighbor(e)} /\ next \subseteq next'
      /\ (Neighbor(e) \in seen => next' = next /\ seen' = seen)
  BY <1>1
<1>3. graph' = graph /\ request' = request
  BY DEF inputVars
<1>4. ~Room => seen' = seen /\ next' = next /\ ~Room'
  BY <1>1, <1>2, <1>3 DEF Room
<1>5. ASSUME NEW f, Left(f)
      PROVE  Left(f)'
  <2>1. Origin(f)' = Origin(f)
    BY SameInputs
  <2> QED
    BY <1>1, <1>2, <1>4, <1>5, <2>1 DEF Left
<1>6. current' \cup next' \subseteq seen'
  BY <1>1, <1>2 DEF TraversalInv, FrontierOK
<1> QED
  BY <1>1, <1>2, <1>4, <1>5, <1>6

(* A result too many: the edge is lost, and the traversal stops.           *)
LEMMA TraversalRefusesResult ==
    ASSUME TraversalInv, phase = "process", NEW e \in pending, TakeEdge(e), ResultsFull,
           UNCHANGED <<inputVars, phase, depth, countVars, selected, impactVars>>
    PROVE  TraversalInv'
<1>1. /\ phase' = "process" /\ pending' = {} /\ depth' = depth
      /\ results' = results /\ graph' = graph /\ request' = request
      /\ visited' = visited /\ completed' = completed /\ stop' = TRUE /\ selected' = selected
      /\ UNCHANGED inputVars /\ UNCHANGED impactVars
  BY DEF TakeEdge, inputVars, countVars
<1>2. /\ "results" \in truncation' /\ truncation \subseteq truncation'
      /\ truncation' \subseteq truncation \cup {"frontier", "results"}
  BY DEF TakeEdge
<1>3. /\ graph \in Graphs /\ request \in Requests /\ current = {} /\ depth \in Nat
      /\ e \in Edges /\ e \in selected /\ e \notin Listed /\ e \in Reachable(Edges)
      /\ e \in EndsAt[depth] /\ Neighbor(e) \in Node /\ Neighbor(e) \in Reached(Edges)
  BY PendingEdge
<1>4. /\ current' = current /\ seen' = seen \cup {Neighbor(e)}
      /\ next' \subseteq next \cup {Neighbor(e)}
      /\ Neighbor(e) \in seen => next' = next
      /\ \A f : Left(f) => Left(f)'
      /\ current' \cup next' \subseteq seen'
  BY <1>1, TakenEdge
<1>5. Listed' = Listed /\ (AtDefinition' <=> AtDefinition) /\ Start' = Start
  BY <1>1 DEF Listed, AtDefinition, Start
<1>6. /\ First' = First /\ Reachable(Edges)' = Reachable(Edges) /\ EndsAt' = EndsAt /\ Edges' = Edges
      /\ Reached(Edges)' = Reached(Edges) /\ Later' = Later
      /\ \A f : Origin(f)' = Origin(f) /\ Neighbor(f)' = Neighbor(f)
  BY <1>1, SameInputs
<1>7. GraphTypeOK'
  <2>1. truncation' \subseteq {"edges", "nodes", "frontier", "results", "depth"}
    BY <1>2 DEF TraversalInv, GraphTypeOK
  <2>2. seen' \subseteq Node /\ next' \subseteq Node /\ current' \subseteq Node
    BY <1>3, <1>4 DEF TraversalInv, GraphTypeOK
  <2> QED
    BY <1>1, <2>1, <2>2, TypesOfTrace DEF TraversalInv, GraphTypeOK
<1>8. PlaceOK'
  <2>1. truncation' \cap {"edges", "results"} # {}
    BY <1>2
  <2>2. selected' # {} /\ current' = {}
    BY <1>1, <1>3, <1>4
  <2>3. depth' = completed' + 1
    BY <1>1 DEF TraversalInv, PlaceOK, Walking
  <2> QED
    BY <1>1, <2>1, <2>2, <2>3 DEF PlaceOK, Ended
<1>9. FrontierOK'
  BY <1>1, <1>4, <1>5, <1>6 DEF TraversalInv, FrontierOK, Walking
<1>10. TraceOK'
  BY <1>1, <1>4, <1>5, <1>6 DEF TraversalInv, TraceOK
<1>11. LevelOK'
  <2>1. \A i \in DOMAIN results : results[i].depth < depth => Neighbor(results[i].edge) \notin next'
    BY <1>4 DEF TraversalInv, LevelOK, TraceOK
  <2>2. \A n \in next' : \E f \in EndsAt[depth] : Neighbor(f) = n
    BY <1>3, <1>4 DEF TraversalInv, LevelOK
  <2> QED
    BY <1>1, <1>6, <2>1, <2>2 DEF TraversalInv, LevelOK
<1>12. ReachOK'
  BY <1>1, <1>3, <1>4, <1>5, <1>6 DEF TraversalInv, ReachOK
<1>13. CompleteOK'
  <2>1. Undisturbed' => \A n \in 1 .. completed' : \A f \in EndsAt'[n] :
              \E i \in DOMAIN results' : results'[i].edge = f /\ results'[i].depth <= n
    BY <1>1, <1>2, <1>6 DEF TraversalInv, CompleteOK, Undisturbed
  <2> QED
    BY <1>1, <2>1 DEF CompleteOK, Ended
<1>14. LostOK'
  <2>1. Lost(e)'
    BY <1>1, <1>3, <1>5, <1>6 DEF Lost
  <2> QED
    BY <1>3, <1>6, <2>1 DEF LostOK
<1>15. OrderOK'
  BY <1>1, <1>2, <1>5, <1>6 DEF TraversalInv, OrderOK, LedTo
<1>16. ClassesOK' /\ ImpactIsConservative'
  BY <1>1 DEF ClassesOK, ImpactIsConservative
<1> QED
  BY <1>7, <1>8, <1>9, <1>10, <1>11, <1>12, <1>13, <1>14, <1>15, <1>16 DEF TraversalInv

(* An edge is listed.                                                      *)
LEMMA TraversalLists ==
    ASSUME TraversalInv, phase = "process", NEW e \in pending, TakeEdge(e), ~ResultsFull,
           UNCHANGED <<inputVars, phase, depth, countVars, selected, impactVars>>
    PROVE  TraversalInv'
<1> DEFINE entry == [depth |-> depth, edge |-> e]
           N == Len(results)
<1>1. /\ phase' = "process" /\ pending' = pending \ {e} /\ depth' = depth
      /\ results' = Append(results, entry) /\ graph' = graph /\ request' = request
      /\ visited' = visited /\ completed' = completed /\ selected' = selected
      /\ UNCHANGED inputVars /\ UNCHANGED impactVars
  BY DEF TakeEdge, inputVars, countVars
<1>2. stop \in BOOLEAN /\ stop' = stop
  BY DEF TakeEdge, TraversalInv, GraphTypeOK
<1>3. truncation \subseteq truncation' /\ truncation' \subseteq truncation \cup {"frontier"}
  BY DEF TakeEdge
<1>4. /\ graph \in Graphs /\ request \in Requests /\ current = {} /\ depth \in Nat
      /\ depth = completed + 1 /\ depth \in 1 .. request.limits["depth"]
      /\ e \in Edges /\ e \in selected /\ e \notin Listed /\ e \in Reachable(Edges) /\ Left(e)
      /\ e \in EndsAt[depth] /\ Neighbor(e) \in Node /\ Neighbor(e) \in Reached(Edges)
      /\ "results" \notin truncation
  BY PendingEdge
<1>5. /\ current' = current /\ seen' = seen \cup {Neighbor(e)} /\ Origin(e) \in seen
      /\ next' \subseteq next \cup {Neighbor(e)} /\ next \subseteq next'
      /\ Neighbor(e) \in seen => next' = next /\ seen' = seen
      /\ ("frontier" \notin truncation' /\ Neighbor(e) \notin seen) => Neighbor(e) \in next'
      /\ ~Room => seen' = seen /\ next' = next /\ ~Room'
      /\ \A f : Left(f) => Left(f)'
      /\ current' \cup next' \subseteq seen'
  BY <1>1, TakenEdge
<1>6. /\ results \in Seq([depth : Nat, edge : Edges]) /\ entry \in [depth : Nat, edge : Edges]
      /\ entry.depth = depth /\ entry.edge = e /\ N \in Nat
  BY <1>4 DEF TraversalInv, GraphTypeOK
<1>7. /\ DOMAIN results = 1 .. N /\ DOMAIN results' = 1 .. N + 1 /\ Len(results') = N + 1
      /\ results'[N + 1] = entry /\ \A i \in 1 .. N : results'[i] = results[i]
      /\ results' \in Seq([depth : Nat, edge : Edges])
  BY <1>1, <1>6
<1> HIDE DEF entry, N
<1>8. Listed' = Listed \cup {e}
  <2>1. 1 .. N + 1 = (1 .. N) \cup {N + 1}
    BY <1>6
  <2> QED
    BY <1>6, <1>7, <2>1 DEF Listed
<1>9. (AtDefinition' <=> AtDefinition) /\ Start' = Start
  BY <1>1 DEF AtDefinition, Start
<1>10. /\ First' = First /\ Reachable(Edges)' = Reachable(Edges) /\ EndsAt' = EndsAt /\ Edges' = Edges
       /\ Reached(Edges)' = Reached(Edges) /\ Later' = Later
       /\ \A f : Origin(f)' = Origin(f) /\ Neighbor(f)' = Neighbor(f)
  BY <1>1, SameInputs
<1>11. GraphTypeOK'
  <2>1. truncation' \subseteq {"edges", "nodes", "frontier", "results", "depth"}
    BY <1>3 DEF TraversalInv, GraphTypeOK
  <2>2. seen' \subseteq Node /\ next' \subseteq Node /\ current' \subseteq Node
    BY <1>4, <1>5 DEF TraversalInv, GraphTypeOK
  <2>3. Len(results') >= Len(results)
    BY <1>6, <1>7 DEF N
  <2>4. visited \in Nat /\ completed \in Nat /\ selected \subseteq Edges /\ pending \subseteq selected
    BY DEF TraversalInv, GraphTypeOK
  <2> QED
    BY <1>1, <1>2, <1>4, <1>7, <2>1, <2>2, <2>3, <2>4, TypesOfTrace DEF Walking
<1>12. PlaceOK'
  <2>1. stop' <=> truncation' \cap {"edges", "results"} # {}
    BY <1>2, <1>3 DEF TraversalInv, PlaceOK
  <2>2. selected' # {} /\ current' = {} /\ "results" \notin truncation'
    BY <1>1, <1>3, <1>4, <1>5
  <2>3. depth' = completed' + 1
    BY <1>1, <1>4
  <2> QED
    BY <1>1, <2>1, <2>2, <2>3 DEF PlaceOK, Ended
<1>13. FrontierOK'
  BY <1>1, <1>2, <1>4, <1>5, <1>8, <1>9, <1>10 DEF TraversalInv, FrontierOK, Walking
<1>14. TraceOK'
  <2>1. \A i \in 1 .. N : /\ results[i].depth \in 1 .. depth /\ results[i].depth <= completed + 1
                          /\ results[i].edge \in EndsAt[results[i].depth]
                          /\ Neighbor(results[i].edge) \in seen /\ results[i].edge # e
    BY <1>4, <1>7 DEF TraversalInv, TraceOK, Listed
  <2>2. ASSUME NEW i \in DOMAIN results', NEW j \in DOMAIN results', i < j
        PROVE  results'[i].edge # results'[j].edge /\ results'[i].depth <= results'[j].depth
    <3>1. i \in 1 .. N /\ (j \in 1 .. N \/ j = N + 1)
      BY <1>6, <1>7, <2>2
    <3>2. CASE j \in 1 .. N
      BY <3>1, <3>2, <2>2, <1>7 DEF TraversalInv, TraceOK
    <3>3. CASE j = N + 1
      BY <3>1, <3>3, <2>1, <1>4, <1>6, <1>7
    <3> QED
      BY <3>1, <3>2, <3>3
  <2>3. ASSUME NEW i \in DOMAIN results'
        PROVE  /\ results'[i].depth \in 1 .. depth /\ results'[i].depth <= completed + 1
               /\ results'[i].edge \in EndsAt[results'[i].depth]
               /\ Neighbor(results'[i].edge) \in seen'
    <3>1. CASE i \in 1 .. N
      BY <3>1, <2>1, <1>5, <1>7
    <3>2. CASE i = N + 1
      BY <3>2, <1>4, <1>5, <1>6, <1>7
    <3> QED
      BY <3>1, <3>2, <1>6, <1>7
  <2>4. pending' \cap Listed' = {}
    BY <1>1, <1>8 DEF TraversalInv, TraceOK
  <2> QED
    BY <1>1, <1>10, <2>2, <2>3, <2>4 DEF TraceOK
<1>15. LevelOK'
  <2>1. ASSUME NEW i \in DOMAIN results', results'[i].depth < depth
        PROVE  Neighbor(results'[i].edge) \notin next'
    <3>1. i \in 1 .. N
      BY <2>1, <1>4, <1>6, <1>7
    <3> QED
      BY <3>1, <2>1, <1>5, <1>7 DEF TraversalInv, LevelOK, TraceOK
  <2>2. \A n \in next' : \E f \in EndsAt[depth] : Neighbor(f) = n
    BY <1>4, <1>5 DEF TraversalInv, LevelOK
  <2> QED
    BY <1>1, <1>10, <2>1, <2>2 DEF TraversalInv, LevelOK
<1>16. ReachOK'
  BY <1>1, <1>4, <1>5, <1>8, <1>10 DEF TraversalInv, ReachOK
<1>17. CompleteOK'
  <2>1. (~stop' /\ Undisturbed') =>
            /\ \A f \in First' : Origin(f)' \in seen'
            /\ \A f \in First' \cup Later' :
                  Origin(f)' \in seen' \ (current' \cup next') => f \in Listed' \cup pending'
    <3>1. SUFFICES ASSUME ~stop', Undisturbed'
                   PROVE  /\ \A f \in First : Origin(f) \in seen'
                          /\ \A f \in First \cup Later :
                                Origin(f) \in seen' \ (current' \cup next') => f \in Listed' \cup pending'
      BY <1>10
    <3>2. Undisturbed /\ ~stop /\ "frontier" \notin truncation'
      BY <3>1, <1>2, <1>3 DEF Undisturbed
    <3>3. \A f \in First : Origin(f) \in seen
      BY <3>2 DEF TraversalInv, CompleteOK, Walking
    <3>4. ASSUME NEW f \in First \cup Later, Origin(f) \in seen' \ (current' \cup next')
          PROVE  f \in Listed' \cup pending'
      <4>1. Origin(f) \in seen \ (current \cup next)
        BY <3>2, <3>4, <1>5
      <4>2. f \in Listed \cup pending
        BY <4>1, <3>2 DEF TraversalInv, CompleteOK, Walking
      <4> QED
        BY <4>2, <1>1, <1>8
    <3> QED
      BY <3>3, <3>4, <1>5
  <2>2. Undisturbed' => \A n \in 1 .. completed' : \A f \in EndsAt'[n] :
              \E i \in DOMAIN results' : results'[i].edge = f /\ results'[i].depth <= n
    <3>1. SUFFICES ASSUME Undisturbed', NEW n \in 1 .. completed, NEW f \in EndsAt[n]
                   PROVE  \E i \in DOMAIN results' : results'[i].edge = f /\ results'[i].depth <= n
      BY <1>1, <1>10
    <3>2. PICK i \in DOMAIN results : results[i].edge = f /\ results[i].depth <= n
      BY <3>1, <1>3 DEF TraversalInv, CompleteOK, Undisturbed
    <3>3. i \in DOMAIN results' /\ results'[i] = results[i]
      BY <1>6, <1>7
    <3> QED
      BY <3>2, <3>3
  <2> QED
    BY <1>1, <2>1, <2>2 DEF CompleteOK, Ended
<1>18. LostOK'
  <2>1. ASSUME NEW f \in Edges, Lost(f)
        PROVE  Lost(f)'
    <3>1. CASE stop /\ f \notin pending
      BY <3>1, <2>1, <1>1, <1>2, <1>8, <1>10 DEF Lost
    <3>2. CASE Origin(f) \notin seen /\ ~Room
      BY <3>2, <2>1, <1>5, <1>8, <1>10 DEF Lost
    <3>3. CASE f \notin pending /\ Origin(f) \in seen \ (current \cup next)
      BY <3>3, <2>1, <1>1, <1>5, <1>8, <1>10 DEF Lost
    <3> QED
      BY <3>1, <3>2, <3>3, <2>1 DEF Lost, Ended
  <2>2. truncation' \ {"frontier"} = truncation \ {"frontier"}
    BY <1>3
  <2> QED
    BY <1>10, <2>1, <2>2 DEF TraversalInv, LostOK
<1>19. OrderOK'
  <2> SUFFICES ASSUME AtDefinition
               PROVE  /\ \A i \in DOMAIN results' : LedTo(Origin(results[i].edge), i - 1)'
                      /\ \A n \in seen' : LedTo(n, Len(results))'
    BY <1>9 DEF OrderOK
  <2>1. \A n \in seen : LedTo(n, N)
    BY <1>4 DEF TraversalInv, OrderOK, N
  <2>2. \A n : \A k \in 0 .. N : LedTo(n, k) => n = Start \/ \E j \in 1 .. k : Neighbor(results'[j].edge) = n
    BY <1>6, <1>7 DEF LedTo
  <2>3. ASSUME NEW i \in DOMAIN results'
        PROVE  Origin(results'[i].edge) = Start
               \/ \E j \in 1 .. i - 1 : Neighbor(results'[j].edge) = Origin(results'[i].edge)
    <3>1. CASE i \in 1 .. N
      <4>1. LedTo(Origin(results[i].edge), i - 1)
        BY <3>1, <1>7 DEF TraversalInv, OrderOK
      <4>2. i - 1 \in 0 .. N /\ results'[i] = results[i]
        BY <3>1, <1>6, <1>7
      <4> QED
        BY <4>1, <4>2, <2>2
    <3>2. CASE i = N + 1
      <4>1. LedTo(Origin(e), N) /\ N \in 0 .. N /\ i - 1 = N
        BY <2>1, <1>5, <1>6, <3>2
      <4> QED
        BY <4>1, <2>2, <3>2, <1>6, <1>7
    <3> QED
      BY <3>1, <3>2, <1>6, <1>7
  <2>4. ASSUME NEW n \in seen'
        PROVE  n = Start \/ \E j \in 1 .. N + 1 : Neighbor(results'[j].edge) = n
    <3>1. CASE n \in seen
      BY <3>1, <2>1, <2>2, <1>6
    <3>2. CASE n = Neighbor(e)
      BY <3>2, <1>6, <1>7
    <3> QED
      BY <3>1, <3>2, <1>5
  <2> QED
    BY <1>7, <1>9, <1>10, <2>3, <2>4 DEF LedTo
<1>20. ClassesOK' /\ ImpactIsConservative'
  BY <1>1 DEF ClassesOK, ImpactIsConservative
<1> QED
  BY <1>11, <1>12, <1>13, <1>14, <1>15, <1>16, <1>17, <1>18, <1>19, <1>20 DEF TraversalInv

(* The turn of an edge, by its outcome.                                    *)
LEMMA TraversalProcesses ==
    ASSUME TraversalInv, NEW e \in pending, ProcessEdge(e)
    PROVE  TraversalInv'
<1>1. /\ phase = "process" /\ (SkipEdge(e) \/ RefuseNode(e) \/ TakeEdge(e))
      /\ UNCHANGED <<inputVars, phase, depth, countVars, selected, impactVars>>
  BY DEF ProcessEdge
<1> QED
  BY <1>1, TraversalPasses, TraversalRefusesResult, TraversalLists

(* At the end of a level where nothing was refused, the ends of the walks  *)
(* of its length are listed.                                               *)
LEMMA LevelComplete ==
    ASSUME TraversalInv, phase = "process", pending = {}, ~stop, Undisturbed,
           NEW e \in EndsAt[depth]
    PROVE  e \in Listed
<1>1. /\ graph \in Graphs /\ request \in Requests /\ current = {}
      /\ depth \in 1 .. request.limits["depth"] /\ depth = completed + 1 /\ completed \in Nat
  BY DEF TraversalInv, GraphTypeOK, PlaceOK, Walking
<1>2. CASE depth = 1
  <2>1. e \in First
    BY <1>1, <1>2, EndsAtFirst
  <2>2. Origin(e) \in seen
    BY <2>1 DEF TraversalInv, CompleteOK, Walking
  <2>3. Left(e)
    BY <2>1 DEF TraversalInv, FrontierOK, Walking
  <2> QED
    BY <2>1, <2>2, <2>3 DEF TraversalInv, CompleteOK, Walking, Left
<1>3. CASE depth # 1
  <2>1. depth \in 2 .. request.limits["depth"] /\ depth - 1 \in 1 .. completed
        /\ depth - 1 < depth /\ depth \in Nat
    BY <1>1, <1>3, StartFacts
  <2>2. e \in Later /\ \E f \in EndsAt[depth - 1] : Neighbor(f) = Origin(e)
    BY <1>1, <2>1, EndsAtNext
  <2>3. PICK f \in EndsAt[depth - 1] : Neighbor(f) = Origin(e)
    BY <2>2
  <2>4. PICK i \in DOMAIN results : results[i].edge = f /\ results[i].depth <= depth - 1
    BY <2>1, <2>3 DEF TraversalInv, CompleteOK
  <2>5. results[i].depth < depth
    <3>1. results[i].depth \in 1 .. depth
      BY DEF TraversalInv, TraceOK
    <3> QED
      BY <2>1, <2>4, <3>1
  <2>6. Origin(e) \in seen /\ Origin(e) \notin next
    BY <2>3, <2>4, <2>5 DEF TraversalInv, TraceOK, LevelOK
  <2> QED
    BY <1>1, <2>2, <2>6 DEF TraversalInv, CompleteOK, Walking
<1> QED
  BY <1>2, <1>3

(* If moreover the frontier leads nowhere, all that the start leads to is. *)
LEMMA TraceComplete ==
    ASSUME TraversalInv, phase = "process", pending = {}, ~stop, Undisturbed,
           AllowedFrom(next) = {}
    PROVE  Reachable(Edges) \subseteq Listed
<1>1. graph \in Graphs /\ request \in Requests /\ current = {} /\ seen \subseteq Node
  BY DEF TraversalInv, GraphTypeOK, PlaceOK
<1>2. ASSUME NEW e \in First \cup Later, Origin(e) \in seen
      PROVE  e \in Listed
  <2>1. e \in Edges /\ Allowed(e)
    BY <1>1, FirstAndLater
  <2>2. Origin(e) \notin next
    BY <2>1 DEF AllowedFrom
  <2> QED
    BY <1>1, <1>2, <2>2 DEF TraversalInv, CompleteOK, Walking
<1>3. \A e \in First : Origin(e) \in seen
  BY DEF TraversalInv, CompleteOK, Walking
<1>4. \A e \in Listed : Neighbor(e) \in seen
  BY DEF TraversalInv, TraceOK, Listed
<1>5. Holds(seen, Edges)
  BY <1>2, <1>3, <1>4 DEF Holds
<1>6. Reached(Edges) \subseteq seen
  BY <1>1, <1>5, ReachedLeast
<1> QED
  BY <1>2, <1>3, <1>6 DEF Reachable

(* An edge that leads on from the last frontier is missing.                *)
LEMMA FrontierLeadsOn ==
    ASSUME TraversalInv, phase = "process", ~stop, NEW e \in AllowedFrom(next)
    PROVE  e \in Edges /\ e \in Reachable(Edges) /\ e \notin Listed
<1>1. graph \in Graphs /\ request \in Requests
  BY DEF TraversalInv, GraphTypeOK
<1>2. e \in Edges /\ Allowed(e) /\ Origin(e) \in next
  BY DEF AllowedFrom
<1>3. e \notin Listed
  BY <1>2 DEF TraversalInv, FrontierOK, Left, Walking
<1>4. e \in Later
  <2>1. \A f \in First : Origin(e) # Origin(f)
    BY <1>2 DEF TraversalInv, FrontierOK, Left, Walking
  <2> QED
    BY <2>1, <1>1, <1>2, FirstAndLater
<1>5. Origin(e) \in Reached(Edges)
  BY <1>2 DEF TraversalInv, ReachOK
<1> QED
  BY <1>1, <1>2, <1>3, <1>4, <1>5, ReachedClosed

(* The end of a level, and of the traversal.                               *)
LEMMA TraversalEndsLevel ==
    ASSUME TraversalInv, EndLevel
    PROVE  TraversalInv'
<1> DEFINE last == depth = request.limits["depth"]
<1>1. /\ phase = "process" /\ pending = {} /\ pending' = {}
      /\ seen' = seen /\ results' = results /\ graph' = graph /\ request' = request
      /\ visited' = visited /\ stop' = stop /\ selected' = selected
      /\ UNCHANGED inputVars /\ UNCHANGED impactVars
  BY DEF EndLevel, inputVars
<1>2. completed' = IF stop \/ (AtSite /\ selected = {}) THEN completed ELSE depth
  BY DEF EndLevel
<1>3. last => /\ truncation' = IF AllowedFrom(next) = {} THEN truncation
                               ELSE truncation \cup {"depth"}
              /\ phase' = Finished /\ depth' = depth /\ current' = current /\ next' = next
  BY DEF EndLevel
<1>4. ~last => /\ current' = next /\ next' = {} /\ depth' = depth + 1 /\ truncation' = truncation
               /\ phase' = IF next # {} /\ ~stop THEN "level" ELSE Finished
  BY DEF EndLevel
<1>5. /\ graph \in Graphs /\ request \in Requests /\ current = {} /\ depth = completed + 1
      /\ depth \in 1 .. request.limits["depth"] /\ completed \in Nat /\ stop \in BOOLEAN
      /\ next # {} => selected # {}
      /\ request.limits["depth"] \in Nat
  BY <1>1, StartFacts DEF TraversalInv, GraphTypeOK, PlaceOK, Walking
<1>6. /\ Finished \in {"traced", "done"} /\ Finished \in Ended /\ (Finished = "traced" => request.impact)
      /\ (Finished = "done" => ~request.impact)
  BY <1>5, StartFacts DEF Finished, Ended
<1>7. completed' \in Nat /\ completed' \in {completed, depth} /\ completed <= completed'
  BY <1>2, <1>5
<1>8. /\ phase' = "level" \/ phase' = Finished
      /\ phase' = "level" => ~stop /\ next # {} /\ ~last /\ completed' = depth
  BY <1>2, <1>3, <1>4, <1>5, <1>6 DEF Ended
<1>9. /\ current' \cup next' = current \cup next
      /\ phase' = "level" => next' = {} /\ current' = next /\ depth' = depth + 1
  BY <1>3, <1>4, <1>5, <1>8
<1>10. /\ truncation \subseteq truncation' /\ truncation' \subseteq truncation \cup {"depth"}
       /\ (phase' = "level" => truncation' = truncation)
  BY <1>3, <1>4, <1>8
<1>11. depth' \in 1 .. request.limits["depth"] /\ depth <= depth'
  BY <1>3, <1>4, <1>5
<1> HIDE DEF last
<1>12. /\ Listed' = Listed /\ Room' = Room /\ (AtDefinition' <=> AtDefinition) /\ Start' = Start
  BY <1>1 DEF Listed, Room, AtDefinition, Start
<1>13. /\ First' = First /\ Reachable(Edges)' = Reachable(Edges) /\ EndsAt' = EndsAt /\ Edges' = Edges
       /\ Reached(Edges)' = Reached(Edges) /\ Later' = Later
       /\ \A f : Origin(f)' = Origin(f) /\ Neighbor(f)' = Neighbor(f)
  BY <1>1, SameInputs
<1>14. GraphTypeOK'
  <2>1. truncation' \subseteq {"edges", "nodes", "frontier", "results", "depth"}
    BY <1>10 DEF TraversalInv, GraphTypeOK
  <2>2. seen' \subseteq Node /\ next' \subseteq Node /\ current' \subseteq Node
    BY <1>1, <1>9 DEF TraversalInv, GraphTypeOK
  <2>3. results' \in Seq([depth : Nat, edge : Edges]) /\ Len(results') >= Len(results)
        /\ visited' \in Nat /\ stop' \in BOOLEAN /\ selected' \subseteq Edges
    BY <1>1 DEF TraversalInv, GraphTypeOK
  <2>4. phase' \in {"start", "admit", "failed"} \cup Walking \cup Ended
    BY <1>6, <1>8 DEF Walking
  <2> QED
    BY <1>1, <1>7, <1>11, <2>1, <2>2, <2>3, <2>4, TypesOfTrace
<1>15. PlaceOK'
  <2>1. stop' <=> truncation' \cap {"edges", "results"} # {}
    BY <1>1, <1>10 DEF TraversalInv, PlaceOK
  <2>2. phase' = "level" => depth' = completed' + 1 /\ depth' # 1
    BY <1>5, <1>8, <1>9
  <2> QED
    BY <1>1, <1>6, <1>8, <1>9, <2>1, <2>2 DEF PlaceOK, Walking, Ended
<1>16. FrontierOK'
  <2>1. \A f : Left(f) => Left(f)'
    BY <1>1, <1>9, <1>12, <1>13 DEF Left
  <2> QED
    BY <1>1, <1>6, <1>8, <1>9, <1>12, <1>13, <2>1 DEF TraversalInv, FrontierOK, Walking
<1>17. TraceOK'
  <2>1. ASSUME NEW i \in DOMAIN results
        PROVE  results[i].depth \in 1 .. depth' /\ results[i].depth <= completed' + 1
    <3>1. results[i].depth \in 1 .. depth /\ results[i].depth <= completed + 1
      BY DEF TraversalInv, TraceOK
    <3> QED
      BY <3>1, <1>5, <1>7, <1>11
  <2>2. phase' # "process"
    BY <1>6, <1>8
  <2> QED
    BY <1>1, <1>13, <2>1, <2>2 DEF TraversalInv, TraceOK
<1>18. LevelOK'
  <2>1. phase' = "level" => \A n \in current' : \E f \in EndsAt[depth' - 1] : Neighbor(f) = n
    <3>1. depth' = depth + 1 => depth' - 1 = depth
      BY <1>5
    <3> QED
      BY <1>1, <1>9, <3>1 DEF TraversalInv, LevelOK
  <2> QED
    BY <1>6, <1>8, <1>13, <2>1 DEF LevelOK
<1>19. ReachOK'
  BY <1>1, <1>9, <1>5, <1>12, <1>13 DEF TraversalInv, ReachOK
<1>20. CompleteOK'
  <2>2. (phase' \in Walking /\ ~stop' /\ Undisturbed') =>
            /\ \A f \in First' : Origin(f)' \in seen'
            /\ \A f \in First' \cup Later' :
                  Origin(f)' \in seen' \ (current' \cup next') => f \in Listed' \cup pending'
    <3>1. (phase' \in Walking /\ ~stop' /\ Undisturbed') => ~stop /\ Undisturbed
      BY <1>1, <1>10 DEF Undisturbed
    <3> QED
      BY <1>1, <1>9, <1>12, <1>13, <3>1 DEF TraversalInv, CompleteOK, Walking
  <2>3. ASSUME Undisturbed', NEW n \in 1 .. completed', NEW f \in EndsAt[n]
        PROVE  \E i \in DOMAIN results : results[i].edge = f /\ results[i].depth <= n
    <3>1. Undisturbed
      BY <2>3, <1>10 DEF Undisturbed
    <3>2. CASE n \in 1 .. completed
      BY <3>1, <3>2 DEF TraversalInv, CompleteOK
    <3>3. CASE n \notin 1 .. completed
      <4>1. n = depth /\ ~stop
        BY <3>3, <1>2, <1>5
      <4>2. f \in Listed
        BY <4>1, <3>1, <1>1, LevelComplete
      <4>3. PICK i \in DOMAIN results : results[i].edge = f
        BY <4>2 DEF Listed
      <4>4. results[i].depth \in 1 .. depth
        BY DEF TraversalInv, TraceOK
      <4> QED
        BY <4>1, <4>3, <4>4, <1>5
    <3> QED
      BY <3>2, <3>3
  <2>4. (phase' \in Ended /\ truncation' = {}) => Reachable(Edges) \subseteq Listed
    <3>1. SUFFICES ASSUME phase' \in Ended, truncation' = {}
                   PROVE  Reachable(Edges) \subseteq Listed
      OBVIOUS
    <3>2. ~stop /\ Undisturbed
      BY <3>1, <1>10 DEF TraversalInv, PlaceOK, Undisturbed
    <3>3. AllowedFrom(next) = {}
      <4>1. phase' # "level"
        BY <3>1 DEF Ended
      <4>2. CASE last
        BY <4>2, <1>3, <3>1
      <4>3. CASE ~last
        <5>1. next = {}
          BY <4>1, <4>3, <1>4, <3>2
        <5> QED
          BY <5>1 DEF AllowedFrom
      <4> QED
        BY <4>2, <4>3
    <3> QED
      BY <3>2, <3>3, <1>1, TraceComplete
  <2>5. phase' # "admit"
    BY <1>6, <1>8
  <2> QED
    BY <1>1, <1>12, <1>13, <2>2, <2>3, <2>4, <2>5 DEF CompleteOK
<1>21. LostOK'
  <2>1. ASSUME NEW f \in Edges, Lost(f)
        PROVE  Lost(f)'
    <3>1. CASE phase' = "level"
      BY <3>1, <2>1, <1>1, <1>8, <1>9, <1>12, <1>13 DEF Lost, Ended
    <3>2. CASE phase' = Finished
      BY <3>2, <2>1, <1>6, <1>12, <1>13 DEF Lost, Ended
    <3> QED
      BY <3>1, <3>2, <1>8
  <2>2. CASE truncation \ {"frontier"} # {}
    BY <2>1, <2>2, <1>13 DEF TraversalInv, LostOK
  <2>3. CASE truncation \ {"frontier"} = {} /\ truncation' \ {"frontier"} # {}
    <3>1. ~stop
      BY <2>3 DEF TraversalInv, PlaceOK
    <3>2. PICK f \in AllowedFrom(next) : TRUE
      BY <2>3, <1>3, <1>4
    <3>3. f \in Edges /\ f \in Reachable(Edges) /\ f \notin Listed
      BY <3>1, <1>1, FrontierLeadsOn
    <3>4. phase' \in Ended
      BY <2>3, <1>6, <1>8, <1>10
    <3>5. Lost(f)'
      BY <3>3, <3>4, <1>12, <1>13 DEF Lost, Ended
    <3> QED
      BY <3>3, <3>5, <1>13 DEF LostOK
  <2> QED
    BY <2>2, <2>3 DEF LostOK
<1>22. OrderOK'
  BY <1>1, <1>10, <1>12, <1>13 DEF TraversalInv, OrderOK, LedTo
<1>23. ClassesOK' /\ ImpactIsConservative'
  BY <1>1, <1>6, <1>8 DEF ClassesOK, ImpactIsConservative
<1> QED
  BY <1>14, <1>15, <1>16, <1>17, <1>18, <1>19, <1>20, <1>21, <1>22, <1>23 DEF TraversalInv

-----------------------------------------------------------------------------
(* The analysis of the finished trace.                                     *)

(* Its steps leave the trace, and what is known of it, alone.              *)
LEMMA AnalysisKeepsTrace ==
    ASSUME TraversalInv, UNCHANGED inputVars, UNCHANGED traceVars,
           phase \in Ended, phase' \in Ended, request.impact
    PROVE  PlaceOK' /\ FrontierOK' /\ TraceOK' /\ LevelOK' /\ ReachOK' /\ CompleteOK'
           /\ LostOK' /\ OrderOK'
<1>1. /\ graph' = graph /\ request' = request /\ depth' = depth /\ seen' = seen
      /\ current' = current /\ next' = next /\ results' = results /\ completed' = completed
      /\ truncation' = truncation /\ stop' = stop /\ selected' = selected /\ pending' = pending
  BY DEF inputVars, traceVars, frontierVars, countVars, flagVars
<1>2. /\ Listed' = Listed /\ (AtDefinition' <=> AtDefinition) /\ Start' = Start
      /\ (Undisturbed' <=> Undisturbed)
  BY <1>1 DEF Listed, AtDefinition, Start, Undisturbed
<1>3. /\ First' = First /\ Reachable(Edges)' = Reachable(Edges) /\ EndsAt' = EndsAt /\ Edges' = Edges
      /\ Reached(Edges)' = Reached(Edges) /\ Later' = Later
      /\ \A f : Origin(f)' = Origin(f) /\ Neighbor(f)' = Neighbor(f)
  BY SameInputs
<1>4. PlaceOK'
  BY <1>1, <1>2 DEF TraversalInv, PlaceOK, Walking, Ended
<1>5. FrontierOK'
  BY <1>1 DEF TraversalInv, FrontierOK, Walking, Ended
<1>6. TraceOK'
  BY <1>1, <1>3 DEF TraversalInv, TraceOK, Ended
<1>7. LevelOK'
  BY DEF LevelOK, Ended
<1>8. ReachOK'
  BY <1>1, <1>2, <1>3 DEF TraversalInv, ReachOK, Ended
<1>9. CompleteOK'
  BY <1>1, <1>2, <1>3 DEF TraversalInv, CompleteOK, Walking, Ended
<1>10. LostOK'
  <2>1. \A f : Lost(f) => Lost(f)'
    BY <1>2, <1>3 DEF Lost
  <2> QED
    BY <1>1, <1>3, <2>1 DEF TraversalInv, LostOK
<1>11. OrderOK'
  BY <1>1, <1>2, <1>3 DEF TraversalInv, OrderOK, LedTo
<1> QED
  BY <1>4, <1>5, <1>6, <1>7, <1>8, <1>9, <1>10, <1>11

(* Types, after a step of the analysis.                                    *)
LEMMA TypesOfAnalysis ==
    ASSUME TraversalInv, UNCHANGED inputVars, UNCHANGED traceVars, phase' \in Ended,
           strongest' \in [DOMAIN strongest' -> Classified], DOMAIN strongest' \subseteq Node,
           classed' \in 0 .. Len(results'),
           impacted' = impacted \/ (/\ impacted'.of \in [DOMAIN impacted'.of -> Classified]
                                   /\ impacted'.unknown \in BOOLEAN)
    PROVE  GraphTypeOK'
<1>1. /\ graph' = graph /\ request' = request /\ depth' = depth /\ seen' = seen
      /\ current' = current /\ next' = next /\ results' = results /\ completed' = completed
      /\ visited' = visited
      /\ truncation' = truncation /\ stop' = stop /\ selected' = selected /\ pending' = pending
  BY DEF inputVars, traceVars, frontierVars, countVars, flagVars
<1>2. Edges' = Edges
  BY SameInputs
<1>3. /\ graph \in Graphs /\ request \in Requests /\ depth \in 1 .. request.limits["depth"]
      /\ seen \subseteq Node /\ current \subseteq Node /\ next \subseteq Node
      /\ results \in Seq([depth : Nat, edge : Edges])
      /\ visited \in Nat /\ completed \in Nat
      /\ truncation \subseteq {"edges", "nodes", "frontier", "results", "depth"}
      /\ stop \in BOOLEAN
      /\ selected \subseteq Edges /\ pending \subseteq selected
  BY DEF TraversalInv, GraphTypeOK
<1>4. impacted'.of \in [DOMAIN impacted'.of -> Classified] /\ impacted'.unknown \in BOOLEAN
  BY DEF TraversalInv, GraphTypeOK
<1>5. /\ results' \in Seq([depth : Nat, edge : Edges'])
      /\ selected' \subseteq Edges'
  BY <1>1, <1>2, <1>3
<1> QED
  BY <1>1, <1>3, <1>4, <1>5 DEF GraphTypeOK, Classified, Walking, Ended

(* An impact request starts at a declaration and goes against the          *)
(* relationships: an edge leads from its target to its source.             *)
LEMMA ImpactEdges ==
    ASSUME TraversalInv, phase \in {"traced", "impact", "invalid"}
    PROVE  /\ graph \in Graphs /\ request \in Requests /\ request.impact
           /\ AtDefinition /\ Start \in Node
           /\ \A e : Origin(e) = e.target /\ Neighbor(e) = Source(e)
<1>1. graph \in Graphs /\ request \in Requests /\ request.impact
  BY DEF TraversalInv, GraphTypeOK, PlaceOK
<1>2. AtDefinition /\ Start \in Node /\ request.direction = "inbound"
  BY <1>1, StartFacts
<1> QED
  BY <1>1, <1>2 DEF Origin, Neighbor

(* The start is classed before the first edge is taken.                    *)
LEMMA TraversalBeginsImpact ==
    ASSUME TraversalInv, BeginImpact
    PROVE  TraversalInv'
<1>1. /\ phase = "traced" /\ phase' = "impact" /\ classed' = 0 /\ impacted' = impacted
      /\ graph' = graph /\ request' = request /\ results' = results
      /\ strongest' = [n \in {Start} |-> [class |-> "direct", depth |-> 0]]
      /\ UNCHANGED inputVars /\ UNCHANGED traceVars
  BY DEF BeginImpact, inputVars, traceVars, Start
<1>2. Start \in Node /\ request.impact
  BY <1>1, ImpactEdges
<1>3. /\ PlaceOK' /\ FrontierOK' /\ TraceOK' /\ LevelOK' /\ ReachOK' /\ CompleteOK'
      /\ LostOK' /\ OrderOK'
  BY <1>1, <1>2, AnalysisKeepsTrace DEF Ended
<1>4. /\ DOMAIN strongest' = {Start} /\ strongest'[Start].class = "direct"
      /\ strongest' \in [DOMAIN strongest' -> Classified]
  BY <1>1 DEF Classified
<1>5. classed' \in 0 .. Len(results')
  <2>1. Len(results) \in Nat
    BY DEF TraversalInv, GraphTypeOK
  <2> QED
    BY <2>1, <1>1
<1>6. GraphTypeOK'
  BY <1>1, <1>2, <1>4, <1>5, TypesOfAnalysis DEF Ended
<1>7. ClassesOK'
  <2>1. \A n : From(n)' = {}
    BY <1>1 DEF From
  <2>2. Start' = Start
    BY <1>1 DEF Start
  <2> QED
    BY <1>2, <1>4, <2>1, <2>2 DEF ClassesOK
<1>8. ImpactIsConservative'
  BY <1>1 DEF ImpactIsConservative
<1> QED
  BY <1>3, <1>6, <1>7, <1>8 DEF TraversalInv

(* The edge the loop comes to has a target with a class, and what it       *)
(* propagates is "direct" only along unique, direct relationships.         *)
LEMMA NextClassed ==
    ASSUME TraversalInv, phase = "impact", classed < Len(results)
    PROVE  LET e == results[classed + 1].edge IN
           /\ classed + 1 \in DOMAIN results /\ results[classed + 1].depth \in Nat
           /\ e \in Edges /\ Source(e) \in Node
           /\ e.target \in DOMAIN strongest
           /\ Propagated(strongest[e.target].class, e) \in {"direct", "possible"}
           /\ Propagated(strongest[e.target].class, e) = "direct" => Source(e) \in Reached(Certain)
<1> DEFINE k == classed + 1
           e == results[k].edge
<1>1. /\ graph \in Graphs /\ request \in Requests /\ AtDefinition
      /\ \A f : Origin(f) = f.target /\ Neighbor(f) = Source(f)
  BY ImpactEdges
<1>2. /\ results \in Seq([depth : Nat, edge : Edges]) /\ Len(results) \in Nat
      /\ classed \in 0 .. Len(results)
  BY DEF TraversalInv, GraphTypeOK
<1>3. k \in 1 .. Len(results) /\ k \in DOMAIN results /\ k - 1 = classed
  BY <1>2
<1>4. results[k] \in [depth : Nat, edge : Edges]
  <2> DEFINE T == [depth : Nat, edge : Edges]
  <2>1. results \in Seq(T)
    BY <1>2
  <2> HIDE DEF T, k
  <2>2. results[k] \in T
    BY <2>1, <1>3
  <2> QED
    BY <2>2 DEF T
<1>5. e \in Edges /\ results[k].depth \in Nat /\ Source(e) \in Node /\ e.target \in Node
      /\ e.site \in Site
  BY <1>4, <1>1, EdgeEnds DEF Edges
<1>6. e.target \in DOMAIN strongest
  <2>1. LedTo(Origin(e), k - 1)
    BY <1>1, <1>3 DEF TraversalInv, OrderOK
  <2>2. LedTo(e.target, classed)
    BY <1>1, <1>3, <2>1
  <2>3. e.target = Start \/ From(e.target) # {}
    BY <2>2, <1>1 DEF LedTo, From
  <2> QED
    BY <2>3, <1>5 DEF TraversalInv, ClassesOK
<1>7. ASSUME Propagated(strongest[e.target].class, e) = "direct"
      PROVE  Source(e) \in Reached(Certain)
  <2>1. /\ strongest[e.target].class = "direct" /\ ~(Cardinality(graph[e.site].targets) > 1)
        /\ ~Heuristic(e.site)
    BY <1>7 DEF Propagated
  <2>2. graph[e.site] \in Resolutions
    BY <1>1, <1>5 DEF Graphs
  <2>3. /\ Cardinality(graph[e.site].targets) \in 1 .. MaxCandidates
        /\ graph[e.site].evidence \in {"direct", "name", "heuristic", "omitted"}
        /\ graph[e.site].evidence = "omitted" => Cardinality(graph[e.site].targets) > 1
    BY <2>2, GraphAssumption DEF Resolutions
  <2>4. Cardinality(graph[e.site].targets) = 1
    BY <2>1, <2>3, GraphAssumption
  <2>5. e \in Certain
    BY <2>1, <2>3, <2>4, <1>5 DEF Certain, Heuristic
  <2>6. e \in Listed
    BY <1>3 DEF Listed
  <2>7. e \in First \cup Later
    BY <2>6, <1>1, ReachedClosed DEF TraversalInv, ReachOK
  <2>8. Allowed(e)
    BY <2>7, <1>1, FirstAndLater
  <2>9. e.target = Start => e \in First
    BY <2>8, <1>1, <1>5, FirstAndLater DEF AllowedFrom
  <2>10. e \in Later
    BY <2>8, <1>1, <1>5, FirstAndLater
  <2>11. e.target = Start \/ e.target \in Reached(Certain)
    BY <1>6, <2>1 DEF TraversalInv, ClassesOK
  <2>12. Holds(Reached(Certain), Certain)
    BY <1>1, ReachedClosed DEF Certain
  <2>13. Neighbor(e) \in Reached(Certain)
    BY <2>5, <2>9, <2>10, <2>11, <2>12, <1>1 DEF Holds
  <2> QED
    BY <2>13, <1>1
<1>8. Propagated(strongest[e.target].class, e) \in {"direct", "possible"}
  BY DEF Propagated
<1> QED
  BY <1>3, <1>5, <1>6, <1>7, <1>8

(* The loop keeps the strongest class and the least depth.                 *)
LEMMA TraversalStrengthens ==
    ASSUME TraversalInv, Strengthen
    PROVE  TraversalInv'
<1> DEFINE traced == results[classed + 1]
           e == traced.edge
           s == Source(e)
           class == Propagated(strongest[e.target].class, e)
           new == Strengthened(traced)
<1>1. phase = "impact" /\ classed < Len(results) /\ UNCHANGED inputVars /\ UNCHANGED traceVars
      /\ impacted' = impacted
  BY DEF Strengthen
<1>2. /\ classed + 1 \in DOMAIN results /\ traced.depth \in Nat
      /\ e \in Edges /\ s \in Node /\ e.target \in DOMAIN strongest
      /\ class \in {"direct", "possible"} /\ (class = "direct" => s \in Reached(Certain))
  BY <1>1, NextClassed
<1>3. /\ classed' = classed + 1 /\ phase' = phase
      /\ strongest' = [n \in DOMAIN strongest \cup {s} |-> IF n = s THEN new ELSE strongest[n]]
  BY <1>2 DEF Strengthen
<1>4. /\ s \notin DOMAIN strongest => new = [class |-> class, depth |-> traced.depth]
      /\ s \in DOMAIN strongest =>
            new = [class |-> IF class = "direct" THEN class ELSE strongest[s].class,
                   depth |-> IF traced.depth < strongest[s].depth THEN traced.depth
                             ELSE strongest[s].depth]
  BY DEF Strengthened
<1> HIDE DEF class, new
<1>5. /\ strongest \in [DOMAIN strongest -> Classified] /\ DOMAIN strongest \subseteq Node
      /\ classed \in 0 .. Len(results) /\ Len(results) \in Nat
  BY DEF TraversalInv, GraphTypeOK
<1>6. new \in Classified
  BY <1>2, <1>4, <1>5 DEF Classified
<1>7. /\ DOMAIN strongest' = DOMAIN strongest \cup {s} /\ strongest'[s] = new
      /\ \A n \in DOMAIN strongest : n # s => strongest'[n] = strongest[n]
      /\ strongest' \in [DOMAIN strongest' -> Classified] /\ DOMAIN strongest' \subseteq Node
  BY <1>2, <1>3, <1>5, <1>6
<1>8. /\ PlaceOK' /\ FrontierOK' /\ TraceOK' /\ LevelOK' /\ ReachOK' /\ CompleteOK'
      /\ LostOK' /\ OrderOK'
  BY <1>1, <1>3, AnalysisKeepsTrace, ImpactEdges DEF Ended
<1>9. results' = results
  BY <1>1 DEF traceVars
<1>10. GraphTypeOK'
  <2>1. classed' \in 0 .. Len(results')
    BY <1>1, <1>3, <1>5, <1>9
  <2> QED
    BY <2>1, <1>1, <1>3, <1>7, TypesOfAnalysis DEF Ended
<1>11. ClassesOK'
  <2>1. /\ Start' = Start /\ Reached(Certain)' = Reached(Certain)
        /\ \A f : Source(f)' = Source(f)
    BY <1>1, SameInputs DEF Start, inputVars
  <2>2. 1 .. classed + 1 = (1 .. classed) \cup {classed + 1} /\ classed + 1 \notin 1 .. classed
    BY <1>5
  <2>3. \A n : From(n)' = IF n = s THEN From(n) \cup {classed + 1} ELSE From(n)
    <3> TAKE n
    <3>1. From(n)' = {j \in 1 .. classed + 1 : Source(results[j].edge) = n}
      BY <1>3, <1>9, <2>1 DEF From
    <3>2. From(n)' = From(n) \cup {j \in {classed + 1} : Source(results[j].edge) = n}
      BY <3>1, <2>2 DEF From
    <3> QED
      BY <3>2
  <2>4. \A n \in Node : n \in DOMAIN strongest' <=> n = Start \/ From(n)' # {}
    <3>1. \A n \in Node : n \in DOMAIN strongest <=> n = Start \/ From(n) # {}
      BY <1>1 DEF TraversalInv, ClassesOK
    <3> QED
      BY <3>1, <2>3, <1>7
  <2>5. ASSUME NEW n \in DOMAIN strongest', strongest'[n].class = "direct"
        PROVE  n = Start \/ n \in Reached(Certain)
    <3>1. CASE n = s /\ class = "direct"
      BY <3>1, <1>2 DEF class
    <3>2. CASE n = s /\ class # "direct"
      <4>1. s \in DOMAIN strongest /\ strongest[s].class = "direct"
        BY <3>2, <2>5, <1>4, <1>7
      <4> QED
        BY <4>1, <3>2, <1>1 DEF TraversalInv, ClassesOK
    <3>3. CASE n # s
      BY <3>3, <2>5, <1>7, <1>1 DEF TraversalInv, ClassesOK
    <3> QED
      BY <3>1, <3>2, <3>3
  <2>6. ASSUME NEW n \in DOMAIN strongest' \ {Start}
        PROVE  /\ \E j \in From(n)' : strongest'[n].depth = results[j].depth
               /\ \A j \in From(n)' : strongest'[n].depth <= results[j].depth
    <3>1. CASE n # s
      BY <3>1, <1>7, <2>3, <1>1 DEF TraversalInv, ClassesOK
    <3>2. CASE n = s /\ s \notin DOMAIN strongest
      <4>1. From(s) = {}
        BY <3>2, <2>6, <1>1, <1>2 DEF TraversalInv, ClassesOK
      <4>2. From(n)' = {classed + 1}
        BY <4>1, <3>2, <2>3
      <4>3. strongest'[n].depth = traced.depth
        BY <3>2, <1>4, <1>7
      <4> QED
        BY <4>2, <4>3, <1>2
    <3>3. CASE n = s /\ s \in DOMAIN strongest
      <4>1. /\ \E j \in From(s) : strongest[s].depth = results[j].depth
            /\ \A j \in From(s) : strongest[s].depth <= results[j].depth
        BY <3>3, <2>6, <1>1 DEF TraversalInv, ClassesOK
      <4>2. From(n)' = From(s) \cup {classed + 1}
        BY <3>3, <2>3
      <4>3. strongest'[n].depth = IF traced.depth < strongest[s].depth THEN traced.depth
                                  ELSE strongest[s].depth
        BY <3>3, <1>4, <1>7
      <4>4. strongest[s].depth \in Nat
        BY <3>3, <1>5 DEF Classified
      <4>5. \A j \in From(s) : results[j].depth \in Nat
        <5> DEFINE T == [depth : Nat, edge : Edges]
        <5>1. results \in Seq(T)
          BY DEF TraversalInv, GraphTypeOK
        <5>2. \A j \in From(s) : j \in 1 .. Len(results)
          BY <1>5 DEF From
        <5> HIDE DEF T
        <5>3. \A j \in From(s) : results[j] \in T
          BY <5>1, <5>2
        <5> QED
          BY <5>3 DEF T
      <4> QED
        BY <4>1, <4>2, <4>3, <4>4, <4>5, <1>2
    <3> QED
      BY <3>1, <3>2, <3>3
  <2> QED
    BY <1>9, <2>1, <2>4, <2>5, <2>6 DEF ClassesOK
<1>12. ImpactIsConservative'
  BY <1>1, <1>3 DEF ImpactIsConservative
<1> QED
  BY <1>8, <1>10, <1>11, <1>12 DEF TraversalInv

(* The classes of a trace that nothing cut short: every declaration that   *)
(* leads to the start has one, at its distance.                            *)
LEMMA ClassesExact ==
    ASSUME TraversalInv, phase = "impact", classed = Len(results), truncation = {}
    PROVE  /\ DOMAIN strongest \ {Start} = Reached(Edges) \ {Start}
           /\ \A n \in DOMAIN strongest \ {Start} :
                 /\ strongest[n].depth \in DOMAIN EndsAt
                 /\ \E e \in EndsAt[strongest[n].depth] : Source(e) = n
                 /\ \A i \in 1 .. strongest[n].depth - 1 : \A e \in EndsAt[i] : Source(e) # n
<1>1. /\ graph \in Graphs /\ request \in Requests
      /\ \A f : Neighbor(f) = Source(f)
  BY ImpactEdges
<1>2. /\ DOMAIN results = 1 .. Len(results) /\ Len(results) \in Nat
      /\ depth \in 1 .. request.limits["depth"] /\ completed \in Nat
      /\ DOMAIN strongest \subseteq Node
  BY DEF TraversalInv, GraphTypeOK
<1>3. Listed = Reachable(Edges)
  BY DEF TraversalInv, ReachOK, CompleteOK, Ended
<1>4. \A n : From(n) = {j \in DOMAIN results : Source(results[j].edge) = n}
  BY <1>2 DEF From
<1>5. \A n : From(n) # {} <=> n \in Reached(Edges)
  <2>1. \A n : From(n) # {} <=> \E f \in Listed : Neighbor(f) = n
    BY <1>1, <1>4 DEF Listed
  <2>2. \A n : (\E f \in Reachable(Edges) : Neighbor(f) = n) <=> n \in Reached(Edges)
    BY <1>1, ReachedClosed
  <2> QED
    BY <2>1, <2>2, <1>3
<1>6. DOMAIN strongest \ {Start} = Reached(Edges) \ {Start}
  <2>1. \A n \in Node : n \in DOMAIN strongest <=> n = Start \/ From(n) # {}
    BY DEF TraversalInv, ClassesOK
  <2>2. Reached(Edges) \subseteq Node
    BY DEF Reached
  <2> QED
    BY <1>2, <1>5, <2>1, <2>2
<1>7. ASSUME NEW n \in DOMAIN strongest \ {Start}
      PROVE  /\ strongest[n].depth \in DOMAIN EndsAt
             /\ \E e \in EndsAt[strongest[n].depth] : Source(e) = n
             /\ \A i \in 1 .. strongest[n].depth - 1 : \A e \in EndsAt[i] : Source(e) # n
  <2>1. /\ \E j \in From(n) : strongest[n].depth = results[j].depth
        /\ \A j \in From(n) : strongest[n].depth <= results[j].depth
    BY DEF TraversalInv, ClassesOK
  <2>2. PICK j \in From(n) : strongest[n].depth = results[j].depth
    BY <2>1
  <2>3. j \in DOMAIN results /\ Source(results[j].edge) = n
    BY <1>4
  <2>4. /\ results[j].depth \in 1 .. depth /\ results[j].depth <= completed + 1
        /\ results[j].edge \in EndsAt[results[j].depth]
    BY <2>3 DEF TraversalInv, TraceOK
  <2>5. results[j].depth \in DOMAIN EndsAt
    <3>1. DOMAIN EndsAt = 1 .. request.limits["depth"] /\ request.limits["depth"] \in Nat
      BY <1>1, EndsAtFirst, StartFacts
    <3> QED
      BY <3>1, <2>4, <1>2
  <2>6. ASSUME NEW i \in 1 .. strongest[n].depth - 1, NEW e \in EndsAt[i], Source(e) = n
        PROVE  FALSE
    <3>1. i \in 1 .. completed /\ i < strongest[n].depth /\ i \in Nat
      BY <2>2, <2>4, <1>2
    <3>2. Undisturbed
      BY DEF Undisturbed
    <3>3. PICK k \in DOMAIN results : results[k].edge = e /\ results[k].depth <= i
      BY <3>1, <3>2 DEF TraversalInv, CompleteOK
    <3>4. k \in From(n)
      BY <3>3, <2>6, <1>4
    <3>5. results[k].depth \in 1 .. depth
      BY <3>3 DEF TraversalInv, TraceOK
    <3>6. strongest[n].depth <= results[k].depth
      BY <3>4, <2>1
    <3> QED
      BY <3>1, <3>3, <3>5, <3>6, <2>2, <2>4, <1>2
  <2> QED
    BY <2>2, <2>3, <2>4, <2>5, <2>6
<1> QED
  BY <1>6, <1>7

(* The answer.                                                             *)
LEMMA TraversalAnswers ==
    ASSUME TraversalInv, Impact
    PROVE  TraversalInv'
<1> DEFINE D == DOMAIN strongest \ {Start}
<1>1. /\ phase = "impact" /\ phase' = "done" /\ classed = Len(results)
      /\ strongest' = strongest /\ classed' = classed /\ results' = results
      /\ request' = request /\ UNCHANGED inputVars /\ UNCHANGED traceVars
  BY DEF Impact, inputVars, traceVars
<1>2. /\ impacted'.of = [n \in D |-> strongest[n]]
      /\ impacted'.unknown = (HasUnknownImpact \/ truncation # {} \/ RelationshipUnknown)
  BY DEF Impact, Start
<1>3. /\ DOMAIN impacted'.of = D /\ \A n \in D : impacted'.of[n] = strongest[n]
      /\ (~impacted'.unknown => truncation = {})
  BY <1>2
<1>4. /\ strongest \in [DOMAIN strongest -> Classified] /\ DOMAIN strongest \subseteq Node
      /\ classed \in 0 .. Len(results)
  BY DEF TraversalInv, GraphTypeOK
<1>5. request.impact
  BY <1>1, ImpactEdges
<1>6. /\ PlaceOK' /\ FrontierOK' /\ TraceOK' /\ LevelOK' /\ ReachOK' /\ CompleteOK'
      /\ LostOK' /\ OrderOK'
  BY <1>1, <1>5, AnalysisKeepsTrace DEF Ended
<1>7. GraphTypeOK'
  <2>1. impacted'.of \in [DOMAIN impacted'.of -> Classified]
    BY <1>2, <1>3, <1>4
  <2>2. impacted'.unknown \in BOOLEAN
    BY <1>2
  <2>3. phase' \in Ended
    BY <1>1 DEF Ended
  <2>4. /\ strongest' \in [DOMAIN strongest' -> Classified] /\ DOMAIN strongest' \subseteq Node
        /\ classed' \in 0 .. Len(results')
    BY <1>1, <1>4
  <2> QED
    BY <1>1, <2>1, <2>2, <2>3, <2>4, TypesOfAnalysis
<1>8. ClassesOK'
  BY <1>1 DEF ClassesOK
<1>9. ImpactIsConservative'
  <2>1. /\ Reached(Edges)' = Reached(Edges) /\ Reached(Certain)' = Reached(Certain)
        /\ EndsAt' = EndsAt /\ \A f : Source(f)' = Source(f)
    BY <1>1, SameInputs
  <2>2. \A n \in D : strongest[n].class = "direct" => n \in Reached(Certain)
    BY <1>1 DEF TraversalInv, ClassesOK
  <2>3. truncation = {} =>
           /\ D = Reached(Edges) \ {Start}
           /\ \A n \in D :
                 /\ strongest[n].depth \in DOMAIN EndsAt
                 /\ \E e \in EndsAt[strongest[n].depth] : Source(e) = n
                 /\ \A i \in 1 .. strongest[n].depth - 1 : \A e \in EndsAt[i] : Source(e) # n
    BY <1>1, ClassesExact
  <2> HIDE DEF D
  <2> QED
    BY <1>1, <1>3, <2>1, <2>2, <2>3 DEF ImpactIsConservative, Start
<1> QED
  BY <1>6, <1>7, <1>8, <1>9 DEF TraversalInv

(* A step that changes nothing.                                            *)
LEMMA TraversalStutters ==
    ASSUME TraversalInv, UNCHANGED inputVars, UNCHANGED traceVars, UNCHANGED impactVars,
           phase' = phase
    PROVE  TraversalInv'
<1>1. /\ graph' = graph /\ request' = request /\ depth' = depth /\ seen' = seen
      /\ current' = current /\ next' = next /\ results' = results /\ completed' = completed
      /\ visited' = visited /\ truncation' = truncation /\ stop' = stop
      /\ selected' = selected /\ pending' = pending
      /\ strongest' = strongest /\ classed' = classed /\ impacted' = impacted
  BY DEF inputVars, traceVars, frontierVars, countVars, flagVars, impactVars
<1>2. /\ Listed' = Listed /\ (AtDefinition' <=> AtDefinition) /\ Start' = Start /\ Room' = Room
      /\ (Undisturbed' <=> Undisturbed)
  BY <1>1 DEF Listed, AtDefinition, Start, Undisturbed, Room
<1>3. /\ First' = First /\ Reachable(Edges)' = Reachable(Edges) /\ EndsAt' = EndsAt /\ Edges' = Edges
      /\ Reached(Edges)' = Reached(Edges) /\ Later' = Later
      /\ Reached(Certain)' = Reached(Certain)
      /\ \A f : Origin(f)' = Origin(f) /\ Neighbor(f)' = Neighbor(f) /\ Source(f)' = Source(f)
  BY SameInputs
<1>4. PlaceOK'
  BY <1>1, <1>2 DEF TraversalInv, PlaceOK
<1>5. FrontierOK'
  <2>1. \A f : Left(f)' <=> Left(f)
    BY <1>1, <1>2, <1>3 DEF Left
  <2> QED
    BY <1>1, <1>2, <1>3, <2>1 DEF TraversalInv, FrontierOK
<1>6. TraceOK'
  BY <1>1, <1>2, <1>3 DEF TraversalInv, TraceOK
<1>7. LevelOK'
  BY <1>1, <1>2, <1>3 DEF TraversalInv, LevelOK
<1>8. ReachOK'
  BY <1>1, <1>2, <1>3 DEF TraversalInv, ReachOK
<1>9. CompleteOK'
  BY <1>1, <1>2, <1>3 DEF TraversalInv, CompleteOK
<1>10. LostOK'
  <2>1. \A f : Lost(f)' <=> Lost(f)
    BY <1>1, <1>2, <1>3 DEF Lost
  <2> QED
    BY <1>1, <1>3, <2>1 DEF TraversalInv, LostOK
<1>11. OrderOK'
  BY <1>1, <1>2, <1>3 DEF TraversalInv, OrderOK, LedTo
<1>12. ClassesOK'
  <2>1. \A n : From(n)' = From(n)
    BY <1>1, <1>3 DEF From
  <2> QED
    BY <1>1, <1>2, <1>3, <2>1 DEF TraversalInv, ClassesOK
<1>13. ImpactIsConservative'
  BY <1>1, <1>3 DEF TraversalInv, ImpactIsConservative
<1>14. GraphTypeOK'
  <2>1. /\ Len(results') >= Len(results)
        /\ phase' \in {"start", "admit", "failed"} \cup Walking \cup Ended
        /\ depth' \in 1 .. request.limits["depth"]
        /\ seen' \subseteq Node /\ current' \subseteq Node /\ next' \subseteq Node
        /\ results' \in Seq([depth : Nat, edge : Edges])
        /\ visited' \in Nat /\ completed' \in Nat
        /\ truncation' \subseteq {"edges", "nodes", "frontier", "results", "depth"}
        /\ stop' \in BOOLEAN
        /\ selected' \subseteq Edges /\ pending' \subseteq selected'
    BY <1>1 DEF TraversalInv, GraphTypeOK
  <2> QED
    BY <2>1, TypesOfTrace
<1> QED
  BY <1>4, <1>5, <1>6, <1>7, <1>8, <1>9, <1>10, <1>11, <1>12, <1>13, <1>14 DEF TraversalInv

(* What the invariant says of a finished trace.                            *)
LEMMA ExactWhenEnded ==
    ASSUME TraversalInv, phase = "done"
    PROVE  TraceIsExact
<1>1. graph \in Graphs /\ request \in Requests /\ completed \in Nat
      /\ depth \in 1 .. request.limits["depth"] /\ request.limits["depth"] \in Nat
  BY StartFacts DEF TraversalInv, GraphTypeOK
<1>2. \A i, j \in DOMAIN results :
         i < j => results[i].edge # results[j].edge /\ results[i].depth <= results[j].depth
  BY DEF TraversalInv, TraceOK
<1>3. ASSUME NEW i \in DOMAIN results
      PROVE  /\ results[i].depth \in 1 .. depth /\ results[i].depth <= completed + 1
             /\ results[i].depth \in DOMAIN EndsAt
             /\ results[i].edge \in EndsAt[results[i].depth]
  <2>1. /\ results[i].depth \in 1 .. depth /\ results[i].depth <= completed + 1
        /\ results[i].edge \in EndsAt[results[i].depth]
    BY DEF TraversalInv, TraceOK
  <2>2. DOMAIN EndsAt = 1 .. request.limits["depth"]
    BY <1>1, EndsAtFirst
  <2> QED
    BY <1>1, <2>1, <2>2
<1>4. ASSUME truncation \cap {"nodes", "frontier"} = {}, NEW n \in 1 .. completed, NEW e \in EndsAt[n]
      PROVE  \E i \in DOMAIN results : results[i].edge = e /\ results[i].depth <= n
  BY <1>4 DEF TraversalInv, CompleteOK, Undisturbed
<1>5. truncation \cap {"nodes", "frontier"} = {} =>
         \A n \in 1 .. completed : EndsAt[n] \subseteq Listed
  BY <1>4 DEF Listed
<1>6. ASSUME truncation \cap {"nodes", "frontier"} = {}, NEW i \in DOMAIN results,
             NEW n \in 1 .. results[i].depth - 1, results[i].edge \in EndsAt[n]
      PROVE  FALSE
  <2>1. results[i].depth \in 1 .. depth /\ results[i].depth <= completed + 1
    BY <1>3
  <2>2. n \in 1 .. completed /\ n < results[i].depth /\ n \in Nat
    BY <1>1, <2>1
  <2>3. PICK k \in DOMAIN results : results[k].edge = results[i].edge /\ results[k].depth <= n
    BY <1>4, <1>6, <2>2
  <2>4. DOMAIN results = 1 .. Len(results) /\ Len(results) \in Nat
    BY DEF TraversalInv, GraphTypeOK
  <2>5. k = i
    <3>1. ~(k < i) /\ ~(i < k)
      BY <1>2, <2>3
    <3> QED
      BY <3>1, <2>4
  <2> QED
    BY <2>1, <2>2, <2>3, <2>5, <1>1
<1>7. Listed \subseteq Reachable(Edges)
  BY DEF TraversalInv, ReachOK
<1>8. truncation = {} => Listed = Reachable(Edges)
  BY <1>7 DEF TraversalInv, CompleteOK, Ended
<1>9. truncation \ {"frontier"} # {} => Listed # Reachable(Edges)
  BY DEF TraversalInv, LostOK, Lost
<1> QED
  BY <1>2, <1>3, <1>5, <1>6, <1>7, <1>8, <1>9 DEF TraceIsExact

-----------------------------------------------------------------------------
(* Every step preserves the invariant.                                     *)
LEMMA TraversalStep ==
    ASSUME TraversalInv, [Next]_vars
    PROVE  TraversalInv'
<1>1. CASE StartAtDefinition
  BY <1>1, TraversalStartsAtDefinition
<1>2. CASE StartAtSite
  BY <1>2, TraversalStartsAtSite
<1>3. CASE OriginsAdmitted
  BY <1>3, TraversalOriginsAdmitted
<1>4. CASE Level
  BY <1>4, TraversalLevel
<1>5. CASE EndLevel
  BY <1>5, TraversalEndsLevel
<1>6. ASSUME NEW e \in pending, AdmitOrigin(e)
      PROVE  TraversalInv'
  BY <1>6, TraversalAdmitsOrigin
<1>7. ASSUME NEW e \in pending, ProcessEdge(e)
      PROVE  TraversalInv'
  BY <1>7, TraversalProcesses
<1>8. CASE BeginImpact
  BY <1>8, TraversalBeginsImpact
<1>9. CASE Strengthen
  BY <1>9, TraversalStrengthens
<1>10. CASE Impact
  BY <1>10, TraversalAnswers
<1>11. CASE Fail
  BY <1>11, TraversalFail
<1>12. CASE UNCHANGED vars
  <2>1. /\ UNCHANGED inputVars /\ UNCHANGED traceVars /\ UNCHANGED impactVars /\ phase' = phase
    BY <1>12 DEF vars
  <2> QED
    BY <2>1, TraversalStutters
<1> QED
  BY <1>1, <1>2, <1>3, <1>4, <1>5, <1>6, <1>7, <1>8, <1>9, <1>10, <1>11, <1>12 DEF Next

(* The invariant of the traversal: types, the place in the loop, the       *)
(* frontiers, the trace against the walks, completeness while nothing was  *)
(* refused, a missing edge behind every other flag, and the classes of     *)
(* impact analysis against the edges it has taken.                         *)
THEOREM TraversalInvariance == Spec => []TraversalInv
<1>1. Init => TraversalInv
  BY TraversalInit
<1>2. TraversalInv /\ [Next]_vars => TraversalInv'
  BY TraversalStep
<1> QED
  BY <1>1, <1>2, PTL DEF Spec

(* Whatever the graph, the request and its limits, a finished trace lists  *)
(* ends of walks, once, in the order of their depths; a trace without      *)
(* flags is complete, and every flag but that of the frontier stands for   *)
(* an edge that is missing (trace_rust_graph).                             *)
THEOREM TraceExact == Spec => []TraceIsExact
<1>1. TraversalInv => TraceIsExact
  BY ExactWhenEnded DEF TraceIsExact
<1> QED
  BY <1>1, TraversalInvariance, PTL

(* Whatever the graph, the request and its limits, the classes of impact   *)
(* analysis can be computed from the trace, "direct" is said only of what  *)
(* unique, direct relationships connect, and an answer without unknown     *)
(* coverage is exact (analyze_rust_graph_impact).                          *)
THEOREM ImpactConservative == Spec => []ImpactIsConservative
<1>1. TraversalInv => ImpactIsConservative
  BY DEF TraversalInv
<1> QED
  BY <1>1, TraversalInvariance, PTL
=============================================================================
