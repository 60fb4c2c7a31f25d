--------------------------- MODULE DependencyGraph ---------------------------
(***************************************************************************)
(* backend/die: normalisation of dependency candidates (implementation.go),*)
(* structural analysis (analysis.go) and the bounded queries               *)
(* (analysis_query.go).                                                    *)
(*                                                                         *)
(* The file, module and package graphs are analysed one after the other    *)
(* and share nothing but limits; this module follows one of them.  A node  *)
(* of another kind, or one that is not resolved to the repository, is a    *)
(* node outside local.  Nodes are numbered in the order of their IDs.      *)
(* Evidence and containment do not influence any of the results.           *)
(***************************************************************************)
EXTENDS Integers, FiniteSets, SequencesExt

CONSTANTS
    Nodes,          \* node IDs, natural numbers
    GraphInputs,    \* the raw inputs, with the configured limits
    ImpactLimits,   \* the limits a query may ask for
    PageSize

ASSUME NodesAssumption == IsFiniteSet(Nodes) /\ Nodes \subseteq Nat \ {0}
ASSUME PageAssumption == PageSize \in Nat \ {0}

VARIABLES
    given,      \* the raw input: declared nodes, local nodes, candidates, limits
    phase,      \* what the engine is doing
    view,       \* the normalised inventory
    search,     \* the depth-first search for strong components
    query,      \* the query being answered
    walk        \* the breadth-first search of an impact query, or the pages

graphVars == <<given, phase, view, search, query, walk>>

NoNode == 0

\* References come only from resolved declarations.
EdgeSpace(nodes) ==
    [kind : {"imports"}, from : nodes, to : nodes, resolution : {"resolved_local", "ambiguous"}]
    \cup [kind : {"references"}, from : nodes, to : nodes, resolution : {"resolved_local"}]

\* Local nodes are declared; candidates may name nodes that are not.
ASSUME InputsAssumption ==
    \A g \in GraphInputs :
        /\ g.local \subseteq g.declared /\ g.declared \subseteq Nodes
        /\ g.candidates \in Seq(EdgeSpace(Nodes))
        /\ g.limits.edges \in Nat

Rank == [imports |-> 1, references |-> 2, ambiguous |-> 1, resolved_local |-> 2]

Lexicographic(a, b) ==
    \E i \in DOMAIN a : a[i] < b[i] /\ \A j \in 1..(i - 1) : a[j] = b[j]

Canonical(e, f) ==
    Lexicographic(<<Rank[e.kind], e.from, e.to, Rank[e.resolution]>>,
                  <<Rank[f.kind], f.from, f.to, Rank[f.resolution]>>)

\* The elements of S in order: each comes after as many as are before it.
InOrder(S, Before(_, _)) ==
    [i \in 1..Cardinality(S) |-> CHOOSE x \in S : Cardinality({y \in S : Before(y, x)}) = i - 1]
Ascending(S) == InOrder(S, <)
CanonicalOrder(S) == InOrder(S, Canonical)

-----------------------------------------------------------------------------
(* Normalize *)

\* Equal candidates become one edge that counts them; what exceeds the limit
\* is cut from the end of the canonical order and counted.
Kept(all) ==
    SubSeq(all, 1, IF Len(all) <= given.limits.edges THEN Len(all) ELSE given.limits.edges)

NormalizedEdges(candidates) ==
    LET all == CanonicalOrder(ToSet(candidates))
        kept == Kept(all)
    IN [edges |-> ToSet(kept), omitted |-> Len(all) - Len(kept),
        occurrences |-> [e \in ToSet(kept) |->
                            Cardinality({i \in DOMAIN candidates : candidates[i] = e})]]

Endpoints(candidates) ==
    UNION {{candidates[i].from, candidates[i].to} : i \in DOMAIN candidates}

NormalizeOutcome(g) ==
    IF Cardinality(g.declared) > g.limits.nodes THEN "limit_exceeded"
    ELSE IF Endpoints(g.candidates) \subseteq g.declared THEN "ok"
    ELSE "missing_dependency_node"

NoView == [edges |-> {}, omitted |-> 0, occurrences |-> <<>>]

Normalize ==
    /\ phase = "normalize"
    /\ IF NormalizeOutcome(given) = "ok"
       THEN /\ view' = NormalizedEdges(given.candidates)
            /\ phase' = "ready"
       ELSE /\ phase' = NormalizeOutcome(given)
            /\ UNCHANGED view
    /\ UNCHANGED <<given, search, query, walk>>

-----------------------------------------------------------------------------
(* The index *)

LocalVertex(n) == n \in given.local
Eligible(e) ==
    e.resolution = "resolved_local" /\ LocalVertex(e.from) /\ LocalVertex(e.to)

Far(direction, e) == IF direction = "dependents" THEN e.from ELSE e.to
Near(direction, e) == IF direction = "dependents" THEN e.to ELSE e.from

\* The adjacency list of a node, in the order of its neighbours.
Adjacent(direction, n) ==
    InOrder({e \in view.edges : Near(direction, e) = n},
            LAMBDA e, f : Lexicographic(<<Far(direction, e), Rank[e.kind], Rank[e.resolution]>>,
                                        <<Far(direction, f), Rank[f.kind], Rank[f.resolution]>>))

\* The result says so when it was computed from an incomplete graph.
TopologyLimited ==
    \/ view.omitted > 0
    \/ \E e \in view.edges : ~Eligible(e)

-----------------------------------------------------------------------------
(* Analyze: strong components with an explicit stack of frames *)

Zero == [n \in Nodes |-> 0]
NoSearch == [tick |-> 0, index |-> Zero, low |-> Zero, stack |-> <<>>, frames |-> <<>>,
             components |-> {}, cycles |-> {}]

Enter(s, n, parent) ==
    [s EXCEPT !.tick = @ + 1, !.index[n] = s.tick + 1, !.low[n] = s.tick + 1,
              !.stack = Append(@, n),
              !.frames = Append(@, [id |-> n, parent |-> parent, lastTarget |-> NoNode,
                                    rest |-> Adjacent("dependencies", n)])]

BeginAnalyze ==
    /\ phase = "ready"
    /\ phase' = "analyze"
    /\ search' = NoSearch
    /\ UNCHANGED <<given, view, query, walk>>

Unvisited == {n \in given.local : search.index[n] = 0}

EnterRoot ==
    /\ phase = "analyze" /\ search.frames = <<>> /\ Unvisited # {}
    /\ \E n \in Unvisited :
        /\ \A m \in Unvisited : n <= m
        /\ search' = Enter(search, n, NoNode)
    /\ UNCHANGED <<given, phase, view, query, walk>>

Frame == Last(search.frames)
Lowered(s, n, value) == IF value < s.low[n] THEN [s EXCEPT !.low[n] = value] ELSE s

\* Follow the next edge of the innermost frame; parallel edges are one arc.
FollowEdge ==
    /\ phase = "analyze" /\ search.frames # <<>> /\ Frame.rest # <<>>
    /\ LET e == Head(Frame.rest)
           top == Len(search.frames)
           skipped == [search EXCEPT !.frames[top].rest = Tail(@)]
           taken == [skipped EXCEPT !.frames[top].lastTarget = e.to]
       IN search' =
            IF ~Eligible(e) \/ Frame.lastTarget = e.to THEN skipped
            ELSE IF search.index[e.to] = 0 THEN Enter(taken, e.to, Frame.id)
            ELSE IF Contains(search.stack, e.to)
                 THEN Lowered(taken, Frame.id, search.index[e.to])
            ELSE taken
    /\ UNCHANGED <<given, phase, view, query, walk>>

\* Leave the innermost frame; the root of a component pops the stack down to
\* itself.
WrongMembers(n) == {n}
PositionOf(n) == CHOOSE i \in DOMAIN search.stack : search.stack[i] = n
Members(n) == {search.stack[i] : i \in PositionOf(n)..Len(search.stack)}
Popped(n) == SubSeq(search.stack, 1, PositionOf(n) - 1)

SelfLoop(members) ==
    \E e \in view.edges : Eligible(e) /\ e.from \in members /\ e.from = e.to
Cyclic(members) == Cardinality(members) > 1 \/ SelfLoop(members)

LeaveFrame ==
    /\ phase = "analyze" /\ search.frames # <<>> /\ Frame.rest = <<>>
    /\ LET n == Frame.id
           popped == [search EXCEPT !.frames = Front(@)]
           left == IF Frame.parent = NoNode THEN popped
                   ELSE Lowered(popped, Frame.parent, search.low[n])
           members == Members(n)
           closed == [left EXCEPT !.stack = Popped(n),
                                  !.components = @ \cup {members},
                                  !.cycles = IF Cyclic(members) THEN @ \cup {members} ELSE @]
           root == search.low[n] = search.index[n]
           full == root /\ (\/ Cardinality(search.components) >= given.limits.components
                            \/ Cyclic(members) /\ Cardinality(search.cycles) >= given.limits.cycles)
       IN /\ search' = IF full THEN NoSearch ELSE IF root THEN closed ELSE left
          /\ phase' = IF full THEN "limit_exceeded" ELSE phase
    /\ UNCHANGED <<given, view, query, walk>>

EndAnalyze ==
    /\ phase = "analyze" /\ search.frames = <<>> /\ Unvisited = {}
    /\ phase' = "analyzed"
    /\ UNCHANGED <<given, view, search, query, walk>>

-----------------------------------------------------------------------------
(* Impact: breadth-first search within limits *)

Directions == {"dependencies", "dependents"}
NoQuery == [kind |-> "none"]
NoWalk == [kind |-> "none"]

\* Seeds must be local vertices, and no more than the query may visit.
BeginImpact(seeds, direction, limits) ==
    /\ phase = "ready"
    /\ seeds # {} /\ seeds \subseteq given.local
    /\ Cardinality(seeds) <= limits.nodes
    /\ phase' = "impact"
    /\ query' = [kind |-> "impact", seeds |-> seeds, direction |-> direction, limits |-> limits]
    /\ walk' = [seen |-> seeds, localSeen |-> seeds, boundary |-> {}, edges |-> {},
                reached |-> {}, depth |-> 0, scanned |-> 0,
                front |-> Ascending(seeds), list |-> <<>>, next |-> {}]
    /\ UNCHANGED <<given, view, search>>

TakeNode ==
    /\ phase = "impact" /\ walk.list = <<>> /\ walk.front # <<>>
    /\ walk.depth < query.limits.depth
    /\ walk' = [walk EXCEPT !.list = Adjacent(query.direction, Head(walk.front)),
                            !.front = Tail(@)]
    /\ UNCHANGED <<given, phase, view, search, query>>

\* An uncertain edge grants no reachability: its target is a boundary until a
\* certain edge reaches it.
WrongReach(w, e, target) ==
    IF Eligible(e) /\ target \notin w.seen
    THEN [w EXCEPT !.localSeen = @ \cup {target}, !.boundary = @ \ {target},
                   !.reached = @ \cup {<<target, w.depth + 1>>}, !.next = @ \cup {target}]
    ELSE IF ~Eligible(e) /\ target \notin w.localSeen
    THEN [w EXCEPT !.boundary = @ \cup {target}]
    ELSE w
Reach(w, e, target) ==
    IF Eligible(e) /\ target \notin w.localSeen
    THEN [w EXCEPT !.localSeen = @ \cup {target}, !.boundary = @ \ {target},
                   !.reached = @ \cup {<<target, w.depth + 1>>}, !.next = @ \cup {target}]
    ELSE IF ~Eligible(e) /\ target \notin w.localSeen
    THEN [w EXCEPT !.boundary = @ \cup {target}]
    ELSE w

ScanEdge ==
    /\ phase = "impact" /\ walk.list # <<>>
    /\ walk.scanned < query.limits.edges
    /\ LET e == Head(walk.list)
           target == Far(query.direction, e)
           reached == Reach(walk, e, target)
       IN /\ target \in walk.seen \/ Cardinality(walk.seen) < query.limits.nodes
          /\ walk' = [reached EXCEPT !.scanned = @ + 1, !.list = Tail(@),
                                     !.seen = @ \cup {target}, !.edges = @ \cup {e}]
    /\ UNCHANGED <<given, phase, view, search, query>>

Deepen ==
    /\ phase = "impact" /\ walk.list = <<>> /\ walk.front = <<>> /\ walk.next # {}
    /\ walk' = [walk EXCEPT !.front = Ascending(walk.next), !.next = {}, !.depth = @ + 1]
    /\ UNCHANGED <<given, phase, view, search, query>>

\* A limit stops the search and marks the result truncated.
StopImpact ==
    /\ phase = "impact"
    /\ \/ /\ walk.list = <<>> /\ walk.front # <<>>
          /\ walk.depth >= query.limits.depth
       \/ /\ walk.list # <<>>
          /\ \/ walk.scanned >= query.limits.edges
             \/ /\ Far(query.direction, Head(walk.list)) \notin walk.seen
                /\ Cardinality(walk.seen) >= query.limits.nodes
    /\ phase' = "truncated"
    /\ UNCHANGED <<given, view, search, query, walk>>

EndImpact ==
    /\ phase = "impact" /\ walk.list = <<>> /\ walk.front = <<>> /\ walk.next = {}
    /\ phase' = "complete"
    /\ UNCHANGED <<given, view, search, query, walk>>

-----------------------------------------------------------------------------
(* DirectDependencies and DirectDependents: pages of neighbours *)

Neighbors(direction, n) ==
    Ascending({Far(direction, e) : e \in {f \in view.edges : Near(direction, f) = n}})

BeginPages(n, direction) ==
    /\ phase = "ready"
    /\ n \in given.declared
    /\ LocalVertex(n) \/ \E e \in view.edges : n \in {e.from, e.to}
    /\ phase' = "pages"
    /\ query' = [kind |-> "pages", node |-> n, direction |-> direction]
    /\ walk' = [cursor |-> NoNode, served |-> <<>>]
    /\ UNCHANGED <<given, view, search>>

\* The cursor names the last neighbour of the page before.
PageStart(all, cursor) == IF cursor = NoNode THEN 1 ELSE SelectInSeq(all, LAMBDA n : n >= cursor) + 1
NextPage ==
    /\ phase = "pages"
    /\ LET all == Neighbors(query.direction, query.node)
           start == PageStart(all, walk.cursor)
           end == IF start + PageSize - 1 <= Len(all) THEN start + PageSize - 1 ELSE Len(all)
           page == SubSeq(all, start, end)
       IN /\ walk' = [cursor |-> IF end < Len(all) THEN all[end] ELSE NoNode,
                      served |-> walk.served \o page]
          /\ phase' = IF end < Len(all) THEN "pages" ELSE "served"
    /\ UNCHANGED <<given, view, search, query>>

-----------------------------------------------------------------------------
GraphInit ==
    /\ given \in GraphInputs
    /\ phase = "normalize"
    /\ view = NoView /\ search = NoSearch
    /\ query = NoQuery /\ walk = NoWalk

GraphNext ==
    \/ Normalize
    \/ BeginAnalyze \/ EnterRoot \/ FollowEdge \/ LeaveFrame \/ EndAnalyze
    \/ \E seeds \in SUBSET Nodes, d \in Directions, l \in ImpactLimits :
            BeginImpact(seeds, d, l)
    \/ TakeNode \/ ScanEdge \/ Deepen \/ StopImpact \/ EndImpact
    \/ \E n \in Nodes, d \in Directions : BeginPages(n, d)
    \/ NextPage

GraphSpec == GraphInit /\ [][GraphNext]_graphVars

-----------------------------------------------------------------------------
(* Properties *)

\* The nodes reached from a set of nodes over a set of arcs, in at most so
\* many steps.
Reachable(arcs, from) ==
    LET Within[k \in 0..Cardinality(Nodes)] ==
            IF k = 0 THEN from
            ELSE Within[k - 1] \cup {a[2] : a \in {b \in arcs : b[1] \in Within[k - 1]}}
    IN Within

Arcs(direction, edges) == {<<Near(direction, e), Far(direction, e)>> : e \in edges}
Everywhere(reach) == reach[Cardinality(Nodes)]

\* The strong components reported by the iterative search are the classes of
\* mutual reachability over the certain local edges, each once, and exactly
\* those with a cycle, a self loop included, are reported as cycles.
AnalysisExact ==
    phase = "analyzed" =>
        LET arcs == Arcs("dependencies", {e \in view.edges : Eligible(e)})
            From(n) == Everywhere(Reachable(arcs, {n}))
            Class(n) == {m \in given.local : m \in From(n) /\ n \in From(m)}
        IN /\ search.components = {Class(n) : n \in given.local}
           /\ search.cycles = {Class(n) : n \in {m \in given.local :
                                  \E a \in arcs : a[1] = m /\ m \in From(a[2])}}
           /\ search.stack = <<>>

\* A complete impact result reaches exactly what is reachable over certain
\* edges, at its least distance; its boundary is what only uncertain edges
\* reach from there.  A truncated one never reports more than that.
ImpactExact ==
    phase \in {"complete", "truncated"} =>
        LET certain == Arcs(query.direction, {e \in view.edges : Eligible(e)})
            uncertain == Arcs(query.direction, {e \in view.edges : ~Eligible(e)})
            within == Reachable(certain, query.seeds)
            inside == Everywhere(within)
            exact == {r \in inside \X (1..Cardinality(Nodes)) :
                        r[1] \in within[r[2]] /\ r[1] \notin within[r[2] - 1]}
        IN /\ walk.reached \subseteq exact
           /\ walk.boundary \cap walk.localSeen = {}
           /\ phase = "complete" =>
                /\ walk.reached = exact
                /\ walk.boundary = {a[2] : a \in {b \in uncertain : b[1] \in inside}} \ inside

\* A complete result that does not declare its topology limited is right for
\* the candidates that were given, not only for the edges that were kept.
LimitsDeclared ==
    phase = "complete" /\ ~TopologyLimited =>
        {r[1] : r \in walk.reached} \cup query.seeds =
            Everywhere(Reachable(Arcs(query.direction, ToSet(given.candidates)), query.seeds))

\* The pages of a listing, followed by their cursors, serve every neighbour
\* once and in order.
PagesComplete ==
    phase = "served" => walk.served = Neighbors(query.direction, query.node)

\* Every query is answered for what it asks: the three above, of one graph.
QueriesExact == ImpactExact /\ LimitsDeclared /\ PagesComplete
=============================================================================
