------------------------- MODULE MCPersistenceStore -------------------------
(***************************************************************************)
(* Small instances of PersistenceStore for TLC.                            *)
(***************************************************************************)
EXTENDS PersistenceStore, TLC

CONSTANTS s1, s2, r1, r2, n1, n2, k1, k2, x1, x2, q1, q2, a1, a2,
          p1, p2, p3, c1, c2, c3

\* c3 is a truncated or altered stream: it hashes to a digest no publication
\* asks for.
MCPayloads == {p1, p2, p3}
MCHash == (c1 :> p1) @@ (c2 :> p2) @@ (c3 :> p3)
MCOneHash == c1 :> p1
MCNoHash == [c \in {} |-> p1]

\* One artifact alone, two artifacts with a dependency edge, and the second
\* artifact alone, so that two publications can ask for the same artifact id.
MCManifests ==
    {[artifacts |-> (a1 :> p1), dependencies |-> {}],
     [artifacts |-> (a1 :> p1) @@ (a2 :> p2), dependencies |-> {<<a2, a1>>}],
     [artifacts |-> (a2 :> p2), dependencies |-> {}]}

\* Two publications that share a payload but no artifact.
MCOneManifest == {[artifacts |-> (a1 :> p1), dependencies |-> {}],
                  [artifacts |-> (a2 :> p1), dependencies |-> {}]}

MCSingleManifest == {[artifacts |-> (a1 :> p1), dependencies |-> {}]}
=============================================================================
