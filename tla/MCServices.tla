------------------------------- MODULE MCServices ------------------------------
(***************************************************************************)
(* What TLC checks around the scans of a repository: its registration and  *)
(* the listings, the graphs of its dependencies with every query on each,  *)
(* and their publication by two processes.  They share no state, so a      *)
(* behaviour is one of them, the others at rest.                           *)
(***************************************************************************)
EXTENDS DependencyGraph, DependencyPublication, RepositoryCatalog, TLC

CONSTANTS s1, r1, n1, x1, q1, a1, d1, d2, b1, b2, i1, i2, c1, c2, c3, e1

-----------------------------------------------------------------------------
(* Graphs *)

MCNodes == 1..3

Sorted(s) == \A i \in 1..(Len(s) - 1) : s[i] = s[i + 1] \/ Canonical(s[i], s[i + 1])

\* Normalisation sorts its input, so that one order of it is enough.
Bags(n, space) == {s \in [1..n -> space] : Sorted(s)}

Certain == {e \in EdgeSpace(MCNodes) : e.kind = "imports" /\ e.resolution = "resolved_local"}

Roomy == [nodes |-> 3, edges |-> 4, components |-> 3, cycles |-> 3]
Tight == [nodes |-> 2, edges |-> 2, components |-> 2, cycles |-> 1]

Of(declared, locals, candidates, limits) ==
    [declared : declared, local : locals, candidates : candidates, limits : {limits}]

MCGraphInputs ==
    \* uncertain edges, foreign nodes and parallel edges
    Of({MCNodes}, SUBSET MCNodes, UNION {Bags(n, EdgeSpace(MCNodes)) : n \in 0..2}, Roomy)
    \* longer cycles and chains
    \cup Of({MCNodes}, {MCNodes}, Bags(3, EdgeSpace(MCNodes)), Roomy)
    \cup Of({MCNodes}, {MCNodes}, {SetToSortSeq(s, Canonical) : s \in kSubset(4, Certain)}, Roomy)
    \* limits met, endpoints that were never declared
    \cup Of({1..2, MCNodes}, {1..2}, UNION {Bags(n, EdgeSpace(1..2)) : n \in 0..3}, Tight)
    \cup Of({1..2}, {1..2}, Bags(1, EdgeSpace(MCNodes)), Tight)

MCImpactLimits ==
    {[nodes |-> 3, edges |-> 8, depth |-> 3], [nodes |-> 2, edges |-> 8, depth |-> 3],
     [nodes |-> 3, edges |-> 2, depth |-> 1]}

-----------------------------------------------------------------------------
(* Publications *)

MCHash == (b1 :> d1) @@ (b2 :> d2)
MCManifests == {ManifestOf(d) : d \in Payloads}
MCKeys == {Child(d) : d \in Payloads}

\* Two processes are given the same scan with different inventories; the
\* second call of the first process repeats the first.
MCAt == [c \in Calls |-> IF c = c2 THEN i2 ELSE i1]
MCInventory == [c \in Publishers |-> IF c = c2 THEN d2 ELSE d1]

-----------------------------------------------------------------------------
(* One of the machines *)

VARIABLE machine

AtRest == [declared |-> {}, local |-> {}, candidates |-> <<>>, limits |-> Roomy]
NoGraph ==
    /\ given = AtRest /\ phase = "none" /\ view = NoView /\ search = NoSearch
    /\ query = NoQuery /\ walk = NoWalk
NoCatalog ==
    /\ rows = {} /\ sources = <<>> /\ opened = {} /\ made = 0
    /\ clientCalls = [c \in Clients |-> NoCall] /\ listing = NotListing
NoReading == reading = [step |-> "none"]

MCInit ==
    /\ PublicationInit
    /\ \/ machine = "graph" /\ GraphInit /\ NoCatalog /\ NoReading
       \/ machine = "publication" /\ NoGraph /\ NoCatalog /\ NoReading
       \/ machine = "catalog" /\ NoGraph /\ CatalogInit /\ NoReading
       \/ machine = "reading" /\ NoGraph /\ NoCatalog /\ ReadingInit

MCNext ==
    /\ \/ machine = "graph" /\ GraphNext /\ UNCHANGED <<publicationVars, catalogVars, reading>>
       \/ machine = "publication" /\ PublicationNext /\ UNCHANGED <<graphVars, catalogVars, reading>>
       \/ machine = "catalog" /\ CatalogNext /\ UNCHANGED <<graphVars, publicationVars, reading>>
       \/ machine = "reading" /\ ReadingNext /\ UNCHANGED <<graphVars, publicationVars, catalogVars>>
    /\ UNCHANGED machine

MCSpec == MCInit /\ [][MCNext]_<<graphVars, publicationVars, catalogVars, reading, machine>>
=============================================================================
