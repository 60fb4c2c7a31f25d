---------------------------- MODULE MCScanService ----------------------------
(***************************************************************************)
(* Small instances of ScanService for TLC.                                 *)
(***************************************************************************)
EXTENDS ScanService, TLC

CONSTANTS s1, r1, n1, k1, k2, x1, q1, a1, d1, d2, b1, b2,
          p1, p2, c1, c2, c3, e1

MCHash == (b1 :> d1) @@ (b2 :> d2)
MCOneHash == b1 :> d1

MCManifest(d) == [artifacts |-> (a1 :> d), dependencies |-> {}]
MCOneManifest == {MCManifest(d1)}
\* Two analyses of one scan that disagree on the bytes of the artifact.
MCTwoManifests == {MCManifest(d1), MCManifest(d2)}

\* The identical request of every call, and a second request for the same scan.
MCRequest(k) == [scan |-> n1, key |-> k, body |-> q1]
MCAlike == [c \in Callers \cup Cancelers |-> MCRequest(k1)]
MCOneForeign == [c \in Callers \cup Cancelers |-> MCRequest(IF c = c2 THEN k2 ELSE k1)]

\* c1 and c2 share a process, c3 has another; the canceler is in the first.
MCTwoSlots == [c \in Callers \cup Cancelers |-> IF c = c3 THEN p2 ELSE p1]
MCOneSlot == [c \in Callers \cup Cancelers |-> p1]
=============================================================================
