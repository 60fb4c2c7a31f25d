--------------------------- MODULE GoScopesProofs ---------------------------
(***************************************************************************)
(* Theorems about GoScopes for every value of its constants: whatever the  *)
(* body of a function is, the collector binds every use of a name to what  *)
(* the blocks of the language say.  WalkSteady relates the collector's     *)
(* stack of scopes to those blocks at every point of the walk.             *)
(***************************************************************************)
EXTENDS GoScopes, SequenceTheorems, FiniteSetTheorems, WellFoundedInduction, TLAPS

-----------------------------------------------------------------------------
(* Scopes: what a walk is made of.  The lemmas are about any scopes s, blocks b *)
(* and nodes ns, so that a step can be taken apart into several.               *)

DeclarationSet == [name : Names, at : Nat]
BlockSet == [Names -> SUBSET DeclarationSet]
ScopeSet == [kind : {"file", "function", "block", "body"}, declarations : BlockSet]
StatementKinds == {"function", "block", "literal", "label", "define", "spec", "type", "range", "ranged"}
NodeSet == [kind : StatementKinds, pushed : 0..2, pending : SUBSET DeclarationSet, spec : SUBSET DeclarationSet]

WalkTyped(s, b, ns, off) ==
    s \in Seq(ScopeSet) /\ b \in Seq(BlockSet) /\ ns \in Seq(NodeSet) /\ off \in Nat

\* Before their bodies, these contain expressions only.
HeadKinds == {"define", "spec", "type", "range"}

\* The statement in which scope top is the innermost one.
NodeWell(s, node, first, top) ==
    /\ node.kind \in StatementKinds
    /\ node.kind = "function" <=> first
    /\ node.kind \in {"function", "block", "range", "ranged"} => node.pushed = 1
    /\ node.kind = "function" => s[top].kind = "function"
    /\ node.kind \in {"block", "range", "ranged"} => s[top].kind = "block"
    /\ node.kind = "literal" => node.pushed = 2 /\ s[top - 1].kind = "function" /\ s[top].kind = "body"
    /\ node.kind \in {"define", "spec", "type", "label"} => node.pushed = 0

\* base has, for every open statement, the scopes there are in it.
BaseWell(s, ns, base) == base \in [0..Len(ns) -> 1..Len(s)] /\ base[0] = 1 /\ base[Len(ns)] = Len(s)
Rising(ns, base) == \A k, l \in 0..Len(ns) : k <= l => base[k] <= base[l]
NodesWell(s, ns, base) ==
    /\ BaseWell(s, ns, base)
    /\ \A k \in 1..Len(ns) : base[k] = base[k - 1] + ns[k].pushed
    /\ \A k \in 1..Len(ns) : NodeWell(s, ns[k], k = 1, base[k])
    /\ \A k \in 1..Len(ns) : k < Len(ns) /\ ns[k].kind \in HeadKinds => ns[k + 1].kind = "literal"
    /\ Rising(ns, base)

\* home has, for every scope but the file's, the one of the h blocks it stands for.
\* The two scopes of a literal stand for one block.
Ends(s, h, home) ==
    /\ s[1].kind = "file" /\ (h = 0 => Len(s) = 1) /\ (h # 0 => 2 <= Len(s))
    /\ home \in [2..Len(s) -> 1..h]
    /\ 2 <= Len(s) => home[2] = 1 /\ home[Len(s)] = h
Bodies(s, home) ==
    \A i \in 2..Len(s) : s[i].kind = "body" => i > 2 /\ s[i - 1].kind = "function" /\ home[i] = home[i - 1]
Steps(s, home) == \A i \in 3..Len(s) : s[i].kind # "body" => home[i] = home[i - 1] + 1
Onto(s, h, home) == \A j \in 1..h : \E i \in 2..Len(s) : home[i] = j
Ordered(s, home) ==
    \A i, m \in 2..Len(s) : i < m => home[i] < home[m] \/ (home[i] = home[m] /\ m = i + 1 /\ s[m].kind = "body")
HomesWell(s, h, home) ==
    /\ Ends(s, h, home) /\ \A i \in 2..Len(s) : s[i].kind \in {"function", "block", "body"}
    /\ Bodies(s, home) /\ Steps(s, home) /\ Onto(s, h, home) /\ Ordered(s, home)

\* What is declared in scopes does not matter for this.
LEMMA NodesAlike ==
    ASSUME NEW s, NEW ns, NEW base, NodesWell(s, ns, base), Len(s) \in Nat, Len(ns) \in Nat,
           NEW t, NEW ms, Len(t) = Len(s), Len(ms) = Len(ns),
           \A i \in 1..Len(s) : t[i].kind = s[i].kind,
           \A k \in 1..Len(ns) : ms[k].pushed = ns[k].pushed
                                 /\ (ms[k].kind = ns[k].kind \/ (ns[k].kind = "range" /\ ms[k].kind = "ranged"))
    PROVE  NodesWell(t, ms, base)
  <1>1. \A k \in 1..Len(ns) : base[k] \in 1..Len(s) /\ base[k - 1] \in 1..Len(s) /\ base[k] = base[k - 1] + ns[k].pushed
    <2>1. \A k \in 1..Len(ns) : k \in 0..Len(ns) /\ k - 1 \in 0..Len(ns)
      OBVIOUS
    <2>2. base \in [0..Len(ns) -> 1..Len(s)]
      BY DEF NodesWell, BaseWell
    <2> QED
      BY <2>1, <2>2 DEF NodesWell
  <1>2. ASSUME NEW k \in 1..Len(ns) PROVE NodeWell(t, ms[k], k = 1, base[k])
    <2>1. NodeWell(s, ns[k], k = 1, base[k]) /\ t[base[k]].kind = s[base[k]].kind
      BY <1>1 DEF NodesWell
    <2>2. ns[k].kind = "literal" => t[base[k] - 1].kind = s[base[k] - 1].kind
      <3>1. ns[k].kind = "literal" => base[k] - 1 = base[k - 1] + 1
        BY <1>1, <2>1 DEF NodeWell
      <3>2. ns[k].kind = "literal" => base[k] - 1 \in 1..Len(s)
        BY <1>1, <3>1
      <3> QED
        BY <3>2
    <2> QED
      BY <2>1, <2>2 DEF NodeWell, StatementKinds
  <1>3. ASSUME NEW k \in 1..Len(ns), k < Len(ns), ms[k].kind \in HeadKinds PROVE ms[k + 1].kind = "literal"
    <2>1. k + 1 \in 1..Len(ns) /\ ns[k].kind \in HeadKinds
      BY <1>3 DEF HeadKinds
    <2>2. ns[k + 1].kind = "literal"
      BY <1>3, <2>1 DEF NodesWell
    <2> QED
      BY <2>1, <2>2
  <1> QED
    <2>1. BaseWell(t, ms, base) /\ Rising(ms, base)
      BY DEF NodesWell, BaseWell, Rising
    <2> QED
      BY <1>1, <1>2, <1>3, <2>1 DEF NodesWell

\* Nor for which block a scope stands for.
LEMMA HomesAlike ==
    ASSUME NEW s, NEW h, NEW home, HomesWell(s, h, home), Len(s) \in Nat, NEW t, Len(t) = Len(s),
           \A i \in 1..Len(s) : t[i].kind = s[i].kind
    PROVE  HomesWell(t, h, home)
  <1>1. \A i \in 2..Len(s) : i \in 1..Len(s) /\ i - 1 \in 1..Len(s)
    OBVIOUS
  <1>2. 1 \in 1..Len(s)
    BY DEF HomesWell, Ends
  <1>3. t[1].kind = "file" /\ \A i \in 2..Len(s) : t[i].kind = s[i].kind /\ t[i - 1].kind = s[i - 1].kind
    BY <1>1, <1>2 DEF HomesWell, Ends
  <1>4. Ends(t, h, home)
    BY <1>3 DEF HomesWell, Ends
  <1>5. Bodies(t, home)
    BY <1>3 DEF HomesWell, Bodies
  <1>6. Steps(t, home)
    <2>1. \A i \in 3..Len(s) : i \in 2..Len(s)
      OBVIOUS
    <2> QED
      BY <1>3, <2>1 DEF HomesWell, Steps
  <1>7. Onto(t, h, home)
    BY DEF HomesWell, Onto
  <1>8. Ordered(t, home)
    BY <1>3 DEF HomesWell, Ordered
  <1> QED
    BY <1>3, <1>4, <1>5, <1>6, <1>7, <1>8 DEF HomesWell

\* A statement is entered.
Base(base, l, top) == [k \in 0..l + 1 |-> IF k <= l THEN base[k] ELSE top]

\* A statement with scopes on top of them keeps the nesting of statements.
LEMMA NodesPushed ==
    ASSUME NEW s, NEW ns, NEW base, NodesWell(s, ns, base), Len(s) \in Nat, Len(ns) \in Nat \ {0},
           NEW t, NEW ms, NEW node, node.pushed \in Nat, Len(t) = Len(s) + node.pushed, Len(ms) = Len(ns) + 1,
           ms[Len(ns) + 1] = node, \A k \in 1..Len(ns) : ms[k] = ns[k],
           \A i \in 1..Len(s) : t[i].kind = s[i].kind,
           NodeWell(t, node, FALSE, Len(t)), ns[Len(ns)].kind \in HeadKinds => node.kind = "literal"
    PROVE  NodesWell(t, ms, Base(base, Len(ns), Len(t)))
  <1>1. PICK bases : bases = Base(base, Len(ns), Len(t))
    OBVIOUS
  <1>2. /\ bases[Len(ms)] = Len(t) /\ DOMAIN bases = 0..Len(ms)
        /\ \A k \in 0..Len(ns) : bases[k] = base[k] /\ base[k] \in 1..Len(s)
    <2>1. /\ bases = [k \in 0..Len(ns) + 1 |-> IF k <= Len(ns) THEN base[k] ELSE Len(t)]
          /\ Len(ns) + 1 \in 0..Len(ns) + 1 /\ ~(Len(ns) + 1 <= Len(ns))
          /\ \A k \in 0..Len(ns) : k \in 0..Len(ns) + 1 /\ k <= Len(ns)
      BY <1>1 DEF Base
    <2>2. base \in [0..Len(ns) -> 1..Len(s)]
      BY DEF NodesWell, BaseWell
    <2> QED
      BY <2>1, <2>2
  <1>3. bases \in [0..Len(ms) -> 1..Len(t)]
    <2>1. \A k \in 0..Len(ms) : bases[k] \in 1..Len(t)
      <3>1. \A k \in 0..Len(ms) : k \in 0..Len(ns) \/ k = Len(ms)
        OBVIOUS
      <3>2. Len(t) \in 1..Len(t) /\ 1..Len(s) \subseteq 1..Len(t)
        <4>1. base[0] \in 1..Len(s)
          BY <1>2
        <4>2. 1 <= Len(s) /\ Len(s) <= Len(t) /\ Len(t) \in Nat
          BY <4>1
        <4> QED
          BY <4>2
      <3> QED
        BY <1>2, <3>1, <3>2
    <2> QED
      BY <1>1, <1>2, <2>1 DEF Base
  <1>4. base[Len(ns)] = Len(s) /\ base[0] = 1
    BY DEF NodesWell, BaseWell
  <1>5. ASSUME NEW k \in 1..Len(ns)
        PROVE  /\ bases[k] = bases[k - 1] + ms[k].pushed
               /\ NodeWell(t, ms[k], k = 1, bases[k])
               /\ ms[k].kind \in HeadKinds => ms[k + 1].kind = "literal"
    <2>1. k \in 0..Len(ns) /\ k - 1 \in 0..Len(ns)
      OBVIOUS
    <2>2. bases[k] = base[k] /\ bases[k - 1] = base[k - 1] /\ base[k] \in 1..Len(s) /\ base[k - 1] \in 1..Len(s)
      BY <1>2, <2>1
    <2>3. base[k] = base[k - 1] + ns[k].pushed /\ NodeWell(s, ns[k], k = 1, base[k])
      BY DEF NodesWell
    <2>4. NodeWell(t, ns[k], k = 1, base[k])
      <3>1. t[base[k]].kind = s[base[k]].kind
        BY <2>2
      <3>2. ns[k].kind = "literal" => base[k] - 1 \in 1..Len(s)
        BY <2>2, <2>3 DEF NodeWell
      <3> QED
        BY <2>3, <3>1, <3>2 DEF NodeWell
    <2>5. ns[k].kind \in HeadKinds => ms[k + 1].kind = "literal"
      <3>1. CASE k = Len(ns)
        BY <3>1
      <3>2. CASE k < Len(ns)
        <4>1. k + 1 \in 1..Len(ns)
          BY <3>2
        <4>2. ns[k].kind \in HeadKinds => ns[k + 1].kind = "literal"
          BY <3>2 DEF NodesWell
        <4> QED
          BY <4>1, <4>2
      <3> QED
        BY <3>1, <3>2
    <2> QED
      BY <2>2, <2>3, <2>4, <2>5
  <1>6. bases[Len(ms)] = bases[Len(ms) - 1] + ms[Len(ms)].pushed /\ NodeWell(t, ms[Len(ms)], Len(ms) = 1, bases[Len(ms)])
    <2>1. Len(ms) - 1 = Len(ns) /\ Len(ns) \in 0..Len(ns) /\ ~(Len(ms) = 1)
      OBVIOUS
    <2>2. bases[Len(ms) - 1] = Len(s)
      BY <1>2, <1>4, <2>1
    <2> QED
      BY <1>2, <2>1, <2>2
  <1>7. ASSUME NEW k \in 0..Len(ms), NEW l \in 0..Len(ms), k <= l PROVE bases[k] <= bases[l]
    <2>1. CASE l = Len(ms)
      <3>1. bases[k] \in 1..Len(t)
        BY <1>3
      <3> QED
        BY <1>2, <2>1, <3>1
    <2>2. CASE l # Len(ms)
      <3>1. k \in 0..Len(ns) /\ l \in 0..Len(ns)
        BY <1>7, <2>2
      <3>2. base[k] <= base[l]
        BY <1>7, <3>1 DEF NodesWell, Rising
      <3> QED
        BY <1>2, <3>1, <3>2
    <2> QED
      BY <2>1, <2>2
  <1>8. \A k \in 1..Len(ms) : k \in 1..Len(ns) \/ k = Len(ms)
    OBVIOUS
  <1>9. NodesWell(t, ms, bases)
    <2>1. bases[0] = 1
      <3>1. 0 \in 0..Len(ns)
        OBVIOUS
      <3>2. bases[0] = base[0]
        BY <1>2, <3>1
      <3> QED
        BY <1>4, <3>2
    <2> QED
      <3>1. BaseWell(t, ms, bases) /\ Rising(ms, bases)
        BY <1>2, <1>3, <1>7, <2>1 DEF BaseWell, Rising
      <3>2. \A k \in 1..Len(ms) : bases[k] = bases[k - 1] + ms[k].pushed
        BY <1>5, <1>6, <1>8
      <3>3. \A k \in 1..Len(ms) : NodeWell(t, ms[k], k = 1, bases[k])
        BY <1>5, <1>6, <1>8
      <3>4. \A k \in 1..Len(ms) : k < Len(ms) /\ ms[k].kind \in HeadKinds => ms[k + 1].kind = "literal"
        BY <1>5, <1>8
      <3> QED
        BY <3>1, <3>2, <3>3, <3>4 DEF NodesWell
  <1> QED
    BY <1>1, <1>9

\* The innermost statement is left.
LEMMA NodesPopped ==
    ASSUME NEW s, NEW ns, NEW base, NodesWell(s, ns, base), Len(s) \in Nat, Len(ns) \in Nat \ {0}, ns[Len(ns)].pushed \in Nat,
           NEW t, NEW ms, Len(t) = Len(s) - ns[Len(ns)].pushed, Len(ms) = Len(ns) - 1,
           \A k \in 1..Len(ms) : ms[k] = ns[k], \A i \in 1..Len(t) : t[i].kind = s[i].kind
    PROVE  NodesWell(t, ms, [k \in 0..Len(ms) |-> base[k]])
  <1>1. PICK bases : bases = [k \in 0..Len(ms) |-> base[k]]
    OBVIOUS
  <1>2. Len(ns) - 1 = Len(ms) /\ Len(ms) \in 0..Len(ns) /\ Len(ns) \in 0..Len(ns) /\ Len(ns) \in 1..Len(ns)
    OBVIOUS
  <1>3. base[Len(ms)] = Len(t)
    <2>1. base[Len(ns)] = base[Len(ns) - 1] + ns[Len(ns)].pushed /\ base[Len(ns)] = Len(s) /\ base[Len(ms)] \in 1..Len(s)
      BY <1>2 DEF NodesWell, BaseWell
    <2> QED
      BY <1>2, <2>1
  <1>4. \A k \in 0..Len(ms) : bases[k] = base[k] /\ base[k] \in 1..Len(t)
    <2> SUFFICES ASSUME NEW k \in 0..Len(ms) PROVE bases[k] = base[k] /\ base[k] \in 1..Len(t)
      OBVIOUS
    <2>1. k \in 0..Len(ns) /\ k <= Len(ms)
      OBVIOUS
    <2>2. base[k] \in 1..Len(s) /\ base[k] <= base[Len(ms)]
      BY <1>2, <2>1 DEF NodesWell, BaseWell, Rising
    <2> QED
      BY <1>1, <1>3, <2>2
  <1>5. bases \in [0..Len(ms) -> 1..Len(t)]
    BY <1>1, <1>4
  <1>6. ASSUME NEW k \in 1..Len(ms)
        PROVE  /\ bases[k] = bases[k - 1] + ms[k].pushed
               /\ NodeWell(t, ms[k], k = 1, bases[k])
               /\ k < Len(ms) /\ ms[k].kind \in HeadKinds => ms[k + 1].kind = "literal"
    <2>1. k \in 1..Len(ns) /\ k \in 0..Len(ms) /\ k - 1 \in 0..Len(ms)
      OBVIOUS
    <2>2. bases[k] = base[k] /\ bases[k - 1] = base[k - 1] /\ base[k] \in 1..Len(t) /\ base[k - 1] \in 1..Len(t)
      BY <1>4, <2>1
    <2>3. /\ base[k] = base[k - 1] + ns[k].pushed /\ NodeWell(s, ns[k], k = 1, base[k])
          /\ k < Len(ns) /\ ns[k].kind \in HeadKinds => ns[k + 1].kind = "literal"
      BY <2>1 DEF NodesWell
    <2>4. NodeWell(t, ns[k], k = 1, base[k])
      <3>1. t[base[k]].kind = s[base[k]].kind
        BY <2>2
      <3>2. ns[k].kind = "literal" => base[k] - 1 \in 1..Len(t)
        BY <2>2, <2>3 DEF NodeWell
      <3> QED
        BY <2>3, <3>1, <3>2 DEF NodeWell
    <2>5. k < Len(ms) => k < Len(ns) /\ k + 1 \in 1..Len(ms)
      OBVIOUS
    <2> QED
      BY <2>2, <2>3, <2>4, <2>5
  <1>7. ASSUME NEW k \in 0..Len(ms), NEW l \in 0..Len(ms), k <= l PROVE bases[k] <= bases[l]
    <2>1. k \in 0..Len(ns) /\ l \in 0..Len(ns)
      OBVIOUS
    <2>2. base[k] <= base[l]
      BY <1>7, <2>1 DEF NodesWell, Rising
    <2> QED
      BY <1>4, <2>2
  <1>8. NodesWell(t, ms, bases)
    <2>1. bases[0] = 1 /\ bases[Len(ms)] = Len(t)
      <3>1. base[0] = 1 /\ 0 \in 0..Len(ms) /\ Len(ms) \in 0..Len(ms)
        BY DEF NodesWell, BaseWell
      <3> QED
        BY <1>3, <1>4, <3>1
    <2>2. BaseWell(t, ms, bases) /\ Rising(ms, bases)
      BY <1>5, <1>7, <2>1 DEF BaseWell, Rising
    <2> QED
      BY <1>6, <2>2 DEF NodesWell
  <1> QED
    BY <1>1, <1>8

\* A block is entered, by one scope or by the two of a literal.
Home(home, m, top, h) == [i \in 2..top |-> IF i <= m THEN home[i] ELSE h + 1]

\* A block, or the two scopes of a literal, on top stands for a new block.
LEMMA HomesPushed ==
    ASSUME NEW s, NEW h \in Nat, NEW home, HomesWell(s, h, home), Len(s) \in Nat, h > 0,
           NEW t, Len(t) \in Nat, \A i \in 1..Len(s) : t[i].kind = s[i].kind,
           \/ Len(t) = Len(s) + 1 /\ t[Len(t)].kind = "block"
           \/ Len(t) = Len(s) + 2 /\ t[Len(t)].kind = "body" /\ t[Len(t) - 1].kind = "function"
    PROVE  HomesWell(t, h + 1, Home(home, Len(s), Len(t), h))
  <1>1. PICK homes : homes = Home(home, Len(s), Len(t), h)
    OBVIOUS
  <1>2. 2 <= Len(s)
    BY DEF HomesWell, Ends
  <1>3. /\ \A i \in 2..Len(s) : homes[i] = home[i] /\ home[i] \in 1..h /\ t[i].kind = s[i].kind /\ t[i - 1].kind = s[i - 1].kind
        /\ \A i \in Len(s) + 1..Len(t) : homes[i] = h + 1
        /\ t[1].kind = s[1].kind
    <2>1. \A i \in 2..Len(s) : i \in 2..Len(t) /\ i \in 1..Len(s) /\ i - 1 \in 1..Len(s) /\ i <= Len(s)
      OBVIOUS
    <2>2. \A i \in Len(s) + 1..Len(t) : i \in 2..Len(t) /\ ~(i <= Len(s))
      BY <1>2
    <2>3. home \in [2..Len(s) -> 1..h] /\ 1 \in 1..Len(s)
      BY <1>2 DEF HomesWell, Ends
    <2> QED
      BY <1>1, <1>2, <2>1, <2>2, <2>3 DEF Home
  <1>4. \A i \in 2..Len(t) : i \in 2..Len(s) \/ i \in Len(s) + 1..Len(t)
    BY <1>2
  <1>5. homes \in [2..Len(t) -> 1..h + 1]
    <2>1. \A i \in 2..Len(t) : homes[i] \in 1..h + 1
      BY <1>3, <1>4
    <2> QED
      BY <1>1, <2>1 DEF Home
  <1>6. \A i \in Len(s) + 1..Len(t) : \/ i = Len(s) + 1 /\ t[i].kind \in {"block", "function"}
                                      \/ i = Len(s) + 2 /\ i = Len(t) /\ t[i].kind = "body" /\ t[i - 1].kind = "function"
    OBVIOUS
  <1>7. \A i \in 2..Len(t) : t[i].kind \in {"function", "block", "body"}
    BY <1>3, <1>4, <1>6 DEF HomesWell
  <1>8. ASSUME NEW i \in 2..Len(t), t[i].kind = "body"
        PROVE  i > 2 /\ t[i - 1].kind = "function" /\ homes[i] = homes[i - 1]
    <2>1. CASE i \in 2..Len(s)
      <3>1. i > 2 /\ s[i - 1].kind = "function" /\ home[i] = home[i - 1]
        BY <1>3, <1>8, <2>1 DEF HomesWell, Bodies
      <3>2. i - 1 \in 2..Len(s)
        BY <2>1, <3>1
      <3> QED
        BY <1>3, <2>1, <3>1, <3>2
    <2>2. CASE i \in Len(s) + 1..Len(t)
      <3>1. i = Len(s) + 2 /\ t[i - 1].kind = "function" /\ i - 1 \in Len(s) + 1..Len(t)
        BY <1>6, <1>8, <2>2
      <3> QED
        BY <1>2, <1>3, <2>2, <3>1
    <2> QED
      BY <1>4, <2>1, <2>2
  <1>9. ASSUME NEW i \in 3..Len(t), t[i].kind # "body" PROVE homes[i] = homes[i - 1] + 1
    <2>1. CASE i \in 3..Len(s)
      <3>1. i \in 2..Len(s) /\ i - 1 \in 2..Len(s)
        BY <2>1
      <3>2. home[i] = home[i - 1] + 1
        BY <1>3, <1>9, <2>1, <3>1 DEF HomesWell, Steps
      <3> QED
        BY <1>3, <3>1, <3>2
    <2>2. CASE i \notin 3..Len(s)
      <3>1. i \in Len(s) + 1..Len(t)
        BY <2>2
      <3>2. i = Len(s) + 1 /\ i - 1 = Len(s) /\ Len(s) \in 2..Len(s)
        BY <1>2, <1>6, <1>9, <3>1
      <3>3. homes[i] = h + 1 /\ homes[i - 1] = home[Len(s)] /\ home[Len(s)] = h
        BY <1>2, <1>3, <3>1, <3>2 DEF HomesWell, Ends
      <3> QED
        BY <3>3
    <2> QED
      BY <2>1, <2>2
  <1>10. ASSUME NEW j \in 1..h + 1 PROVE \E i \in 2..Len(t) : homes[i] = j
    <2>1. CASE j = h + 1
      <3>1. Len(t) \in 2..Len(t) /\ Len(t) \in Len(s) + 1..Len(t)
        BY <1>2
      <3> QED
        BY <1>3, <2>1, <3>1
    <2>2. CASE j # h + 1
      <3>1. j \in 1..h
        BY <2>2
      <3>2. PICK i \in 2..Len(s) : home[i] = j
        BY <3>1 DEF HomesWell, Onto
      <3> QED
        BY <1>3, <3>2
    <2> QED
      BY <2>1, <2>2
  <1>11. ASSUME NEW i \in 2..Len(t), NEW m \in 2..Len(t), i < m
         PROVE  homes[i] < homes[m] \/ (homes[i] = homes[m] /\ m = i + 1 /\ t[m].kind = "body")
    <2>1. CASE m \in 2..Len(s)
      <3>1. i \in 2..Len(s)
        BY <1>11, <2>1
      <3>2. home[i] < home[m] \/ (home[i] = home[m] /\ m = i + 1 /\ s[m].kind = "body")
        BY <1>11, <2>1, <3>1 DEF HomesWell, Ordered
      <3> QED
        BY <1>3, <2>1, <3>1, <3>2
    <2>2. CASE m \in Len(s) + 1..Len(t) /\ i \in 2..Len(s)
      BY <1>3, <2>2
    <2>3. CASE m \in Len(s) + 1..Len(t) /\ i \in Len(s) + 1..Len(t)
      <3>1. i = Len(s) + 1 /\ m = Len(s) + 2 /\ t[m].kind = "body"
        BY <1>6, <1>11, <2>3
      <3> QED
        BY <1>3, <2>3, <3>1
    <2> QED
      BY <1>4, <2>1, <2>2, <2>3
  <1>12. homes[2] = 1 /\ homes[Len(t)] = h + 1 /\ t[1].kind = "file" /\ 2 <= Len(t) /\ h + 1 # 0
    <2>1. 2 \in 2..Len(s) /\ Len(t) \in Len(s) + 1..Len(t)
      BY <1>2
    <2> QED
      BY <1>2, <1>3, <2>1 DEF HomesWell, Ends
  <1>13. HomesWell(t, h + 1, homes)
    <2>1. Ends(t, h + 1, homes)
      BY <1>5, <1>12 DEF Ends
    <2>2. Bodies(t, homes)
      BY <1>8 DEF Bodies
    <2>3. Steps(t, homes)
      BY <1>9 DEF Steps
    <2>4. Onto(t, h + 1, homes)
      BY <1>10 DEF Onto
    <2>5. Ordered(t, homes)
      BY <1>11 DEF Ordered
    <2> QED
      BY <1>7, <2>1, <2>2, <2>3, <2>4, <2>5 DEF HomesWell
  <1> QED
    BY <1>1, <1>13

\* The innermost block is left, with the scopes that stand for it.
LEMMA HomesPopped ==
    ASSUME NEW s, NEW h \in Nat, NEW home, HomesWell(s, h, home), Len(s) \in Nat, h > 0,
           NEW t, Len(t) \in Nat, \A i \in 1..Len(t) : t[i].kind = s[i].kind,
           \/ Len(t) = Len(s) - 1 /\ s[Len(s)].kind # "body"
           \/ Len(t) = Len(s) - 2 /\ s[Len(s)].kind = "body"
    PROVE  HomesWell(t, h - 1, [i \in 2..Len(t) |-> home[i]])
  <1>1. PICK homes : homes = [i \in 2..Len(t) |-> home[i]]
    OBVIOUS
  <1>2. 2 <= Len(s) /\ Len(s) \in 2..Len(s)
    BY DEF HomesWell, Ends
  <1>3. PICK m : m = Len(t) + 1
    OBVIOUS
  <1>4. m \in 2..Len(s) /\ s[m].kind # "body" /\ home[m] = h /\ \A i \in m..Len(s) : home[i] = h
    <2>1. home[Len(s)] = h
      BY <1>2 DEF HomesWell, Ends
    <2>2. CASE s[Len(s)].kind # "body"
      BY <1>2, <1>3, <2>1, <2>2
    <2>3. CASE s[Len(s)].kind = "body"
      <3>1. Len(s) > 2 /\ s[Len(s) - 1].kind = "function" /\ home[Len(s)] = home[Len(s) - 1]
        BY <1>2, <2>3 DEF HomesWell, Bodies
      <3>2. m = Len(s) - 1
        BY <1>3, <2>3
      <3>3. \A i \in m..Len(s) : i = m \/ i = Len(s)
        BY <3>1, <3>2
      <3> QED
        BY <2>1, <3>1, <3>2, <3>3
    <2> QED
      BY <2>2, <2>3
  <1>5. \A i \in 2..Len(t) : homes[i] = home[i] /\ home[i] \in 1..h - 1 /\ i \in 2..Len(s)
    <2> SUFFICES ASSUME NEW i \in 2..Len(t) PROVE homes[i] = home[i] /\ home[i] \in 1..h - 1 /\ i \in 2..Len(s)
      OBVIOUS
    <2>1. i \in 2..Len(s) /\ i < m
      BY <1>3, <1>4
    <2>2. home[i] \in 1..h /\ (home[i] < home[m] \/ (home[i] = home[m] /\ m = i + 1 /\ s[m].kind = "body"))
      BY <1>4, <2>1 DEF HomesWell, Ends, Ordered
    <2> QED
      BY <1>1, <1>4, <2>1, <2>2
  <1>6. homes \in [2..Len(t) -> 1..h - 1]
    BY <1>1, <1>5
  <1>7. \A i \in 1..Len(t) : t[i].kind = s[i].kind
    OBVIOUS
  <1>8. 2 <= Len(t) => homes[Len(t)] = h - 1 /\ homes[2] = 1
    <2> SUFFICES ASSUME 2 <= Len(t) PROVE homes[Len(t)] = h - 1 /\ homes[2] = 1
      OBVIOUS
    <2>1. m \in 3..Len(s) /\ m - 1 = Len(t) /\ Len(t) \in 2..Len(t) /\ 2 \in 2..Len(t)
      BY <1>3, <1>4
    <2>2. home[m] = home[m - 1] + 1 /\ home[2] = 1 /\ home[m - 1] \in 1..h - 1
      BY <1>2, <1>4, <1>5, <2>1 DEF HomesWell, Ends, Steps
    <2> QED
      <3>1. h = home[m - 1] + 1 /\ home[m - 1] \in Int
        BY <1>4, <2>2
      <3> QED
        BY <1>5, <2>1, <2>2, <3>1
  <1>9. (h - 1 = 0 => Len(t) = 1) /\ (h - 1 # 0 => 2 <= Len(t))
    <2>1. 1 <= Len(t)
      BY <1>3, <1>4
    <2>2. CASE Len(t) = 1
      <3>1. home[2] = 1 /\ m = 2
        BY <1>2, <1>3, <2>2 DEF HomesWell, Ends
      <3> QED
        BY <1>4, <2>2, <3>1
    <2>3. CASE Len(t) # 1
      <3>1. 2 <= Len(t)
        BY <2>1, <2>3
      <3>2. Len(t) \in 2..Len(t)
        BY <3>1
      <3>3. home[Len(t)] \in 1..h - 1
        BY <1>5, <3>2
      <3>4. h - 1 # 0
        BY <3>3
      <3> QED
        BY <3>1, <3>4
    <2> QED
      BY <2>2, <2>3
  <1>10. Len(t) >= 1 /\ t[1].kind = "file"
    <2>1. Len(t) >= 1 /\ 1 \in 1..Len(t)
      BY <1>3, <1>4
    <2> QED
      BY <1>7, <2>1 DEF HomesWell, Ends
  <1>11. \A i \in 2..Len(t) : t[i].kind = s[i].kind /\ t[i - 1].kind = s[i - 1].kind
    <2>1. \A i \in 2..Len(t) : i \in 1..Len(t) /\ i - 1 \in 1..Len(t)
      OBVIOUS
    <2> QED
      BY <1>7, <2>1
  <1>12. ASSUME NEW i \in 2..Len(t), t[i].kind = "body"
         PROVE  i > 2 /\ t[i - 1].kind = "function" /\ homes[i] = homes[i - 1]
    <2>1. i > 2 /\ s[i - 1].kind = "function" /\ home[i] = home[i - 1]
      BY <1>5, <1>11, <1>12 DEF HomesWell, Bodies
    <2>2. i - 1 \in 2..Len(t)
      BY <2>1
    <2> QED
      BY <1>5, <1>11, <2>1, <2>2
  <1>13. ASSUME NEW i \in 3..Len(t), t[i].kind # "body" PROVE homes[i] = homes[i - 1] + 1
    <2>1. i \in 2..Len(t) /\ i - 1 \in 2..Len(t)
      OBVIOUS
    <2>2. i \in 3..Len(s) /\ s[i].kind # "body"
      BY <1>5, <1>11, <1>13, <2>1
    <2>3. home[i] = home[i - 1] + 1
      BY <2>2 DEF HomesWell, Steps
    <2> QED
      BY <1>5, <2>1, <2>3
  <1>14. ASSUME NEW j \in 1..h - 1 PROVE \E i \in 2..Len(t) : homes[i] = j
    <2>1. j \in 1..h /\ j # h
      OBVIOUS
    <2>2. PICK i \in 2..Len(s) : home[i] = j
      BY <2>1 DEF HomesWell, Onto
    <2>3. ~(i \in m..Len(s))
      BY <1>4, <2>1, <2>2
    <2>4. i \in 2..Len(t)
      BY <1>3, <2>3
    <2> QED
      BY <1>5, <2>2, <2>4
  <1>15. \A i, k \in 2..Len(t) : i < k => homes[i] < homes[k] \/ (homes[i] = homes[k] /\ k = i + 1 /\ t[k].kind = "body")
    <2>1. Ordered(s, home)
      BY DEF HomesWell
    <2> QED
      BY <1>5, <1>11, <2>1 DEF Ordered
  <1>16. \A i \in 2..Len(t) : t[i].kind \in {"function", "block", "body"}
    BY <1>5, <1>11 DEF HomesWell
  <1>17. HomesWell(t, h - 1, homes)
    <2>1. Ends(t, h - 1, homes)
      BY <1>6, <1>8, <1>9, <1>10 DEF Ends
    <2>2. Bodies(t, homes)
      BY <1>12 DEF Bodies
    <2>3. Steps(t, homes)
      BY <1>13 DEF Steps
    <2>4. Onto(t, h - 1, homes)
      BY <1>14 DEF Onto
    <2>5. Ordered(t, homes)
      BY <1>15 DEF Ordered
    <2> QED
      BY <1>16, <2>1, <2>2, <2>3, <2>4, <2>5 DEF HomesWell
  <1> QED
    BY <1>1, <1>17

-----------------------------------------------------------------------------
(* Scopes: what is declared in them *)

Decls(s, i, n) == s[i].declarations[n]
IsPending(ns, n, d) == \E k \in 1..Len(ns) : d \in ns[k].pending /\ d.name = n
IsKnown(b, ns, n, d) == IsPending(ns, n, d) \/ \E j \in 1..Len(b) : d \in b[j][n]

\* The scope has a label of that name, or a method or a label that hides one.
Stray(s, b, ns, i, n) == \E d \in Decls(s, i, n) : ~IsKnown(b, ns, n, d)

\* A declaration is known by where it is, and is before the walk.
Earlier(d, n, off) == d.name = n /\ d.at \in Nat /\ d.at < off
AllEarlier(s, b, ns, off) ==
    /\ \A i \in 1..Len(s) : \A n \in Names : \A d \in Decls(s, i, n) : Earlier(d, n, off)
    /\ \A j \in 1..Len(b) : \A n \in Names : \A d \in b[j][n] : Earlier(d, n, off)
    /\ \A k \in 1..Len(ns) : \A d \in ns[k].pending : d.name \in Names /\ Earlier(d, d.name, off)

\* A scope has what its block has, and what is pending in it.  What it has more
\* are labels, methods, and parameters of a literal that its body assigns; and
\* it may lack a variable only where a label has its name.
BlockScope(s, b, ns, home, i, n) ==
    s[i].kind = "block" =>
        /\ \A d \in Decls(s, i, n) : d \in b[home[i]][n] \/ IsPending(ns, n, d)
        /\ \A d \in b[home[i]][n] : d \in Decls(s, i, n)
BodyScope(s, b, ns, home, i, n) ==
    s[i].kind = "body" =>
        /\ Decls(s, i - 1, n) # {} \/ \A d \in Decls(s, i, n) : d \in b[home[i]][n] \/ IsPending(ns, n, d)
        /\ Stray(s, b, ns, i - 1, n) \/ \A d \in b[home[i]][n] : d \in Decls(s, i, n) \/ d \in Decls(s, i - 1, n)
FunctionScope(s, b, ns, home, i, n) ==
    s[i].kind = "function" /\ (i = Len(s) \/ s[i + 1].kind # "body") =>
        Stray(s, b, ns, i, n) \/ \A d \in b[home[i]][n] : d \in Decls(s, i, n)
OwnBlock(s, b, home, i, n) ==
    \A j \in 1..Len(b) : \A d \in b[j][n] : d \in Decls(s, i, n) => j = home[i]
ScopeWell(s, b, ns, home, i, n) ==
    /\ BlockScope(s, b, ns, home, i, n) /\ BodyScope(s, b, ns, home, i, n)
    /\ FunctionScope(s, b, ns, home, i, n) /\ OwnBlock(s, b, home, i, n)

\* What is pending is so in the scope that is innermost at its statement.
OnlyIn(s, top, d) == \A i \in 1..Len(s) : d \in Decls(s, i, d.name) => i = top
PendingWell(s, b, ns, top, d) ==
    /\ OnlyIn(s, top, d)
    /\ \/ d \in Decls(s, top, d.name)
       \/ s[top].kind = "function" /\ Stray(s, b, ns, top, d.name)
       \/ s[top].kind = "body" /\ Stray(s, b, ns, top - 1, d.name)

ContentWell(s, b, ns, base, home) ==
    /\ \A i \in 2..Len(s) : \A n \in Names : ScopeWell(s, b, ns, home, i, n)
    /\ \A k \in 1..Len(ns) : \A d \in ns[k].pending : PendingWell(s, b, ns, base[k], d)
    /\ \A k \in 1..Len(ns) : ns[k].kind \notin {"define", "spec", "range"} => ns[k].pending = {}
    /\ \A k \in 1..Len(ns) : ns[k].kind = "range" => \A n \in Names : b[home[base[k]]][n] = {}

Sized(s, b, ns, off) == Len(s) \in Nat /\ Len(b) \in Nat /\ Len(ns) \in Nat /\ off \in Nat

WalkWell(s, b, ns, off, base, home) ==
    /\ Sized(s, b, ns, off) /\ (Len(ns) = 0 <=> Len(b) = 0)
    /\ NodesWell(s, ns, base) /\ HomesWell(s, Len(b), home)
    /\ AllEarlier(s, b, ns, off) /\ ContentWell(s, b, ns, base, home)

\* A stray declaration stays one while what becomes known was declared later.
LEMMA StrayStays ==
    ASSUME NEW s, NEW b, NEW ns, NEW off \in Nat, AllEarlier(s, b, ns, off), NEW t, NEW c, NEW ms,
           NEW n \in Names, NEW i \in 1..Len(s), \A d \in Decls(s, i, n) : d \in Decls(t, i, n),
           \A d : IsKnown(c, ms, n, d) => IsKnown(b, ns, n, d) \/ d.at = off,
           Stray(s, b, ns, i, n)
    PROVE  Stray(t, c, ms, i, n)
  <1>1. PICK d \in Decls(s, i, n) : ~IsKnown(b, ns, n, d)
    BY DEF Stray
  <1>2. d.at < off /\ d.at \in Nat
    BY DEF AllEarlier, Earlier
  <1> QED
    BY <1>1, <1>2 DEF Stray

\* A scope in which nothing happened stays well.
LEMMA ScopeStays ==
    ASSUME NEW s, NEW b, NEW ns, NEW home, NEW n \in Names, NEW i, ScopeWell(s, b, ns, home, i, n),
           NEW t, NEW c, NEW ms, NEW homes, t[i].kind = s[i].kind, Decls(t, i, n) = Decls(s, i, n),
           s[i].kind = "body" => Decls(t, i - 1, n) = Decls(s, i - 1, n),
           homes[i] = home[i], c[home[i]][n] = b[home[i]][n],
           \A d \in Decls(s, i, n) : IsPending(ns, n, d) => IsPending(ms, n, d),
           Stray(s, b, ns, i, n) => Stray(t, c, ms, i, n),
           s[i].kind = "body" /\ Stray(s, b, ns, i - 1, n) => Stray(t, c, ms, i - 1, n),
           i = Len(t) \/ t[i + 1].kind # "body" => i = Len(s) \/ s[i + 1].kind # "body",
           \A j \in 1..Len(c) : \A d \in c[j][n] : d \in Decls(s, i, n) => j \in 1..Len(b) /\ d \in b[j][n]
    PROVE  ScopeWell(t, c, ms, homes, i, n)
  <1>1. BlockScope(t, c, ms, homes, i, n)
    BY DEF ScopeWell, BlockScope
  <1>2. BodyScope(t, c, ms, homes, i, n)
    BY DEF ScopeWell, BodyScope
  <1>3. FunctionScope(t, c, ms, homes, i, n)
    BY DEF ScopeWell, FunctionScope
  <1>4. OwnBlock(t, c, homes, i, n)
    BY DEF ScopeWell, OwnBlock
  <1> QED
    BY <1>1, <1>2, <1>3, <1>4 DEF ScopeWell

\* Where the walk is, below a head with a literal in it.
LEMMA HeadBelow ==
    ASSUME NEW s, NEW h \in Nat, NEW ns, NEW base, NEW home, Len(s) \in Nat, Len(ns) \in Nat,
           NodesWell(s, ns, base), HomesWell(s, h, home),
           NEW k \in 1..Len(ns), k # Len(ns), ns[k].kind \in HeadKinds
    PROVE  base[k] \in 2..Len(s) - 2 /\ home[base[k]] < h /\ home[base[k]] \in 1..h
  <1>1. k + 1 \in 1..Len(ns) /\ k \in 0..Len(ns) /\ 1 \in 1..Len(ns) /\ k < Len(ns) /\ k + 1 \in 0..Len(ns)
        /\ Len(ns) \in 0..Len(ns) /\ 1 \in 0..Len(ns) /\ 1 <= k /\ k + 1 <= Len(ns)
    OBVIOUS
  <1>2. ns[k + 1].kind = "literal"
    BY <1>1 DEF NodesWell
  <1>3. NodeWell(s, ns[k + 1], FALSE, base[k + 1]) /\ NodeWell(s, ns[1], TRUE, base[1])
    <2>1. (1 = 1) = TRUE /\ (k + 1 = 1) = FALSE
      BY <1>1
    <2> QED
      BY <1>1, <2>1 DEF NodesWell
  <1>4. ns[k + 1].pushed = 2 /\ ns[1].pushed = 1
    BY <1>2, <1>3 DEF NodeWell
  <1>5. base[k + 1] = base[k] + 2
    BY <1>1, <1>4 DEF NodesWell
  <1>6. base[1] = 2
    BY <1>1, <1>4 DEF NodesWell, BaseWell
  <1>7. base[k] \in 1..Len(s) /\ base[k + 1] <= Len(s) /\ 2 <= base[k]
    BY <1>1, <1>6 DEF NodesWell, BaseWell, Rising
  <1>8. base[k] \in 2..Len(s) - 2
    BY <1>5, <1>7
  <1>9. base[k] \in 2..Len(s) /\ Len(s) \in 2..Len(s) /\ base[k] < Len(s) /\ base[k] + 1 # Len(s) /\ 2 <= Len(s)
    BY <1>8
  <1>10. home[Len(s)] = h /\ home[base[k]] \in 1..h
    BY <1>9 DEF HomesWell, Ends
  <1> QED
    BY <1>8, <1>9, <1>10 DEF HomesWell, Ordered

\* The scopes of the innermost block: the innermost one, and the parameters of a
\* literal below its body.
LEMMA InnermostScopes ==
    ASSUME NEW s, NEW h \in Nat, NEW home, Len(s) \in Nat, HomesWell(s, h, home), NEW i \in 2..Len(s)
    PROVE  /\ home[i] \in 1..h
           /\ home[i] = h <=> i = Len(s) \/ (i = Len(s) - 1 /\ s[Len(s)].kind = "body")
           /\ i = Len(s) - 1 /\ s[Len(s)].kind = "body" => s[i].kind = "function"
  <1>1. Len(s) \in 2..Len(s) /\ 2 <= Len(s)
    OBVIOUS
  <1>2. home[Len(s)] = h /\ home[i] \in 1..h
    BY <1>1 DEF HomesWell, Ends
  <1>3. s[Len(s)].kind = "body" => s[Len(s) - 1].kind = "function" /\ home[Len(s) - 1] = h
    BY <1>1, <1>2 DEF HomesWell, Bodies
  <1>4. i < Len(s) => home[i] < h \/ (Len(s) = i + 1 /\ s[Len(s)].kind = "body")
    BY <1>1, <1>2 DEF HomesWell, Ordered
  <1>5. i = Len(s) \/ i < Len(s)
    OBVIOUS
  <1>6. Len(s) = i + 1 => i = Len(s) - 1
    OBVIOUS
  <1> QED
    BY <1>2, <1>3, <1>4, <1>5, <1>6

\* A statement with scopes of its own: a scope in which what it declares is pending,
\* or the two of a literal, of which the first has its parameters.
Opens(node, more, block, off) ==
    /\ \/ /\ node.kind \in {"block", "range"} /\ node.pushed = 1 /\ Len(more) = 1 /\ more[1].kind = "block"
          /\ \A n \in Names : block[n] = {} /\ \A d : d \in more[1].declarations[n] <=> d \in node.pending /\ d.name = n
       \/ /\ node.kind = "literal" /\ node.pushed = 2 /\ node.pending = {}
          /\ Len(more) = 2 /\ more[1].kind = "function" /\ more[2].kind = "body"
          /\ \A n \in Names : block[n] = more[1].declarations[n] /\ more[2].declarations[n] = {}
    /\ node.kind # "range" => node.pending = {}
    /\ \A i \in 1..Len(more) : \A n \in Names : \A d \in more[i].declarations[n] : d.name = n /\ d.at = off
    /\ \A d \in node.pending : d.name \in Names /\ d.at = off

Undeclared(more) == \A i \in 1..Len(more) : \A n \in Names : more[i].declarations[n] = {}

\* The scopes, the block and the node are pushed.
Pushes(s, b, ns, t, c, ms, node, more, block) ==
    /\ Len(t) = Len(s) + Len(more) /\ Len(c) = Len(b) + 1 /\ Len(ms) = Len(ns) + 1
    /\ \A i \in 1..Len(s) : t[i] = s[i]
    /\ \A i \in 1..Len(more) : t[Len(s) + i] = more[i]
    /\ \A j \in 1..Len(b) : c[j] = b[j]
    /\ c[Len(b) + 1] = block
    /\ \A k \in 1..Len(ns) : ms[k] = ns[k]
    /\ ms[Len(ns) + 1] = node

\* The walk enters a statement with scopes of its own.
LEMMA Pushed ==
    ASSUME NEW s, NEW b, NEW ns, NEW off, NEW base, NEW home, WalkWell(s, b, ns, off, base, home), Len(ns) # 0,
           NEW node, ns[Len(ns)].kind \in HeadKinds => node.kind = "literal",
           NEW more, NEW block, Opens(node, more, block, off),
           NEW t, NEW c, NEW ms, Pushes(s, b, ns, t, c, ms, node, more, block),
           NEW next \in {off, off + 1},
           next = off + 1 \/ Undeclared(more)
    PROVE  WalkWell(t, c, ms, next, Base(base, Len(ns), Len(t)), Home(home, Len(s), Len(t), Len(b)))
  <1>1. PICK bases : bases = Base(base, Len(ns), Len(t))
    OBVIOUS
  <1>2. PICK homes : homes = Home(home, Len(s), Len(t), Len(b))
    OBVIOUS
  <1>3. Len(s) \in Nat /\ Len(b) \in Nat \ {0} /\ Len(ns) \in Nat \ {0} /\ off \in Nat
    BY DEF WalkWell, Sized
  <1>4. /\ Len(more) = node.pushed /\ node.pushed \in {1, 2} /\ Len(more) \in 1..2
        /\ Len(t) = Len(s) + node.pushed /\ Len(t) \in Nat
        /\ Len(c) = Len(b) + 1 /\ Len(ms) = Len(ns) + 1 /\ next \in Nat
    <2>1. (node.pushed = 1 /\ Len(more) = 1) \/ (node.pushed = 2 /\ Len(more) = 2)
      BY DEF Opens
    <2>2. Len(t) = Len(s) + Len(more) /\ Len(c) = Len(b) + 1 /\ Len(ms) = Len(ns) + 1
      BY DEF Pushes
    <2>3. next \in Nat
      BY <1>3
    <2>4. Len(more) = node.pushed /\ node.pushed \in {1, 2} /\ Len(more) \in 1..2
      <3>1. Len(more) = node.pushed /\ node.pushed \in {1, 2}
        BY <2>1
      <3>2. node.pushed \in 1..2
        BY <3>1
      <3> QED
        BY <3>1, <3>2
    <2>5. Len(t) \in Nat
      BY <1>3, <2>2, <2>4
    <2> QED
      BY <2>2, <2>3, <2>4, <2>5
  <1>5. \A i \in 1..Len(s) : t[i] = s[i]
    BY DEF Pushes
  <1>6. \A i \in Len(s) + 1..Len(t) : i - Len(s) \in 1..Len(more) /\ t[i] = more[i - Len(s)]
    <2> SUFFICES ASSUME NEW i \in Len(s) + 1..Len(t) PROVE i - Len(s) \in 1..Len(more) /\ t[i] = more[i - Len(s)]
      OBVIOUS
    <2>1. i - Len(s) \in 1..Len(more) /\ Len(s) + (i - Len(s)) = i
      BY <1>3, <1>4
    <2> QED
      BY <2>1 DEF Pushes
  <1>7. t[Len(s) + 1] = more[1] /\ (node.pushed = 2 => t[Len(s) + 2] = more[2])
    <2>1. 1 \in 1..Len(more) /\ (node.pushed = 2 => 2 \in 1..Len(more))
      BY <1>4
    <2> QED
      BY <2>1 DEF Pushes
  <1>8. /\ node.kind = "literal" => node.pushed = 2 /\ more[1].kind = "function" /\ more[2].kind = "body"
        /\ node.kind # "literal" => node.kind \in {"block", "range"} /\ node.pushed = 1 /\ more[1].kind = "block"
    BY DEF Opens
  <1>9. NodesWell(t, ms, bases)
    <2>1. NodesWell(s, ns, base)
      BY DEF WalkWell
    <2>2. NodeWell(t, node, FALSE, Len(t))
      <3>1. CASE node.kind = "literal"
        <4>1. Len(t) - 1 = Len(s) + 1 /\ Len(t) = Len(s) + 2
          BY <1>3, <1>4, <1>8, <3>1
        <4> QED
          BY <1>7, <1>8, <3>1, <4>1 DEF NodeWell, StatementKinds
      <3>2. CASE node.kind # "literal"
        <4>1. Len(t) = Len(s) + 1
          BY <1>4, <1>8, <3>2
        <4> QED
          BY <1>7, <1>8, <3>2, <4>1 DEF NodeWell, StatementKinds
      <3> QED
        BY <3>1, <3>2
    <2>3. /\ ms[Len(ns) + 1] = node /\ \A k \in 1..Len(ns) : ms[k] = ns[k]
          /\ \A i \in 1..Len(s) : t[i].kind = s[i].kind
      BY <1>5 DEF Pushes
    <2> QED
      <3>1. node.pushed \in Nat /\ Len(s) \in Nat /\ Len(ns) \in Nat \ {0}
            /\ Len(t) = Len(s) + node.pushed /\ Len(ms) = Len(ns) + 1
        BY <1>3, <1>4
      <3>2. NodesWell(t, ms, Base(base, Len(ns), Len(t)))
        BY <2>1, <2>2, <2>3, <3>1, NodesPushed
      <3> QED
        BY <1>1, <3>2
  <1>10. HomesWell(t, Len(c), homes)
    <2>1. HomesWell(s, Len(b), home)
      BY DEF WalkWell
    <2>2. \A i \in 1..Len(s) : t[i].kind = s[i].kind
      BY <1>5
    <2>3. \/ Len(t) = Len(s) + 1 /\ t[Len(t)].kind = "block"
          \/ Len(t) = Len(s) + 2 /\ t[Len(t)].kind = "body" /\ t[Len(t) - 1].kind = "function"
      <3>1. CASE node.kind = "literal"
        <4>1. Len(t) - 1 = Len(s) + 1 /\ Len(t) = Len(s) + 2
          BY <1>3, <1>4, <1>8, <3>1
        <4> QED
          BY <1>7, <1>8, <3>1, <4>1
      <3>2. CASE node.kind # "literal"
        BY <1>4, <1>7, <1>8, <3>2
      <3> QED
        BY <3>1, <3>2
    <2>4. Len(b) \in Nat /\ Len(b) > 0
      BY <1>3
    <2> QED
      BY <1>2, <1>3, <1>4, <2>1, <2>2, <2>3, <2>4, HomesPushed
  <1>11. /\ \A k \in 0..Len(ns) : bases[k] = base[k] /\ base[k] \in 1..Len(s)
         /\ bases[Len(ns) + 1] = Len(t)
    <2>1. /\ bases = [k \in 0..Len(ns) + 1 |-> IF k <= Len(ns) THEN base[k] ELSE Len(t)]
          /\ Len(ns) + 1 \in 0..Len(ns) + 1 /\ ~(Len(ns) + 1 <= Len(ns))
          /\ \A k \in 0..Len(ns) : k \in 0..Len(ns) + 1 /\ k <= Len(ns)
      BY <1>1, <1>3 DEF Base
    <2>2. base \in [0..Len(ns) -> 1..Len(s)]
      BY DEF WalkWell, NodesWell, BaseWell
    <2> QED
      BY <2>1, <2>2
  <1>12. /\ \A i \in 2..Len(s) : homes[i] = home[i] /\ home[i] \in 1..Len(b)
         /\ \A i \in Len(s) + 1..Len(t) : homes[i] = Len(b) + 1
         /\ 2 <= Len(s)
    <2>1. HomesWell(s, Len(b), home)
      BY DEF WalkWell
    <2>2. home \in [2..Len(s) -> 1..Len(b)] /\ 2 <= Len(s)
      BY <1>3, <2>1 DEF HomesWell, Ends
    <2>3. \A i \in 2..Len(s) : i \in 2..Len(t) /\ i <= Len(s)
      BY <1>3, <1>4
    <2>4. \A i \in Len(s) + 1..Len(t) : i \in 2..Len(t) /\ ~(i <= Len(s))
      BY <1>3, <1>4, <2>2
    <2> QED
      BY <1>2, <2>2, <2>3, <2>4 DEF Home
  <1>13. \A j \in 1..Len(b) : c[j] = b[j]
    BY DEF Pushes
  <1>14. c[Len(b) + 1] = block /\ ms[Len(ns) + 1] = node /\ \A k \in 1..Len(ns) : ms[k] = ns[k]
    BY DEF Pushes
  <1>15. \A i \in Len(s) + 1..Len(t) : \A n \in Names : \A d \in Decls(t, i, n) : d.name = n /\ d.at = off /\ next = off + 1
    BY <1>6 DEF Opens, Decls, Undeclared
  <1>16. \A n \in Names : \A d \in block[n] : d.name = n /\ d.at = off /\ next = off + 1
    <2>1. \A n \in Names : \A d \in block[n] : d \in more[1].declarations[n] /\ 1 \in 1..Len(more)
      BY <1>4 DEF Opens
    <2> QED
      BY <2>1 DEF Opens, Undeclared
  <1>17. \A d \in node.pending : d.name \in Names /\ d.at = off /\ next = off + 1 /\ node.kind = "range"
    <2> SUFFICES ASSUME NEW d \in node.pending
                 PROVE  d.name \in Names /\ d.at = off /\ next = off + 1 /\ node.kind = "range"
      OBVIOUS
    <2>1. d.name \in Names /\ d.at = off /\ node.kind = "range"
      BY DEF Opens
    <2>2. d \in more[1].declarations[d.name] /\ 1 \in 1..Len(more)
      BY <1>4, <2>1 DEF Opens
    <2> QED
      BY <2>1, <2>2 DEF Undeclared
  <1>18. /\ \A i \in 1..Len(t) : i \in 1..Len(s) \/ i \in Len(s) + 1..Len(t)
         /\ \A j \in 1..Len(c) : j \in 1..Len(b) \/ j = Len(b) + 1
         /\ \A k \in 1..Len(ms) : k \in 1..Len(ns) \/ k = Len(ns) + 1
    BY <1>3, <1>4
  <1>19. AllEarlier(s, b, ns, off)
    BY DEF WalkWell
  <1>20. AllEarlier(t, c, ms, next)
    <2>1. \A d, n : Earlier(d, n, off) => Earlier(d, n, next)
      BY <1>3, <1>4 DEF Earlier
    <2>2. \A d, n : d.name = n /\ d.at = off /\ next = off + 1 => Earlier(d, n, next)
      BY <1>3 DEF Earlier
    <2>3. ASSUME NEW i \in 1..Len(t), NEW n \in Names, NEW d \in Decls(t, i, n) PROVE Earlier(d, n, next)
      <3>1. CASE i \in 1..Len(s)
        BY <1>5, <1>19, <2>1, <2>3, <3>1 DEF AllEarlier, Decls
      <3>2. CASE i \in Len(s) + 1..Len(t)
        BY <1>15, <2>2, <2>3, <3>2
      <3> QED
        BY <1>18, <3>1, <3>2
    <2>4. ASSUME NEW j \in 1..Len(c), NEW n \in Names, NEW d \in c[j][n] PROVE Earlier(d, n, next)
      <3>1. CASE j \in 1..Len(b)
        BY <1>13, <1>19, <2>1, <2>4, <3>1 DEF AllEarlier
      <3>2. CASE j = Len(b) + 1
        BY <1>14, <1>16, <2>2, <2>4, <3>2
      <3> QED
        BY <1>18, <3>1, <3>2
    <2>5. ASSUME NEW k \in 1..Len(ms), NEW d \in ms[k].pending PROVE d.name \in Names /\ Earlier(d, d.name, next)
      <3>1. CASE k \in 1..Len(ns)
        BY <1>14, <1>19, <2>1, <2>5, <3>1 DEF AllEarlier
      <3>2. CASE k = Len(ns) + 1
        BY <1>14, <1>17, <2>2, <2>5, <3>2
      <3> QED
        BY <1>18, <3>1, <3>2
    <2> QED
      BY <2>3, <2>4, <2>5 DEF AllEarlier
  <1>21. \A n, d : IsPending(ns, n, d) => IsPending(ms, n, d)
    <2>1. \A k \in 1..Len(ns) : k \in 1..Len(ms)
      BY <1>3, <1>4
    <2> QED
      BY <1>14, <2>1 DEF IsPending
  <1>22. ASSUME NEW n \in Names, NEW d, IsKnown(c, ms, n, d) PROVE IsKnown(b, ns, n, d) \/ d.at = off
    <2>1. CASE IsPending(ms, n, d)
      <3>1. PICK k \in 1..Len(ms) : d \in ms[k].pending /\ d.name = n
        BY <2>1 DEF IsPending
      <3>2. CASE k \in 1..Len(ns)
        BY <1>14, <3>1, <3>2 DEF IsKnown, IsPending
      <3>3. CASE k = Len(ns) + 1
        BY <1>14, <1>17, <3>1, <3>3
      <3> QED
        BY <1>18, <3>2, <3>3
    <2>2. CASE ~IsPending(ms, n, d)
      <3>1. PICK j \in 1..Len(c) : d \in c[j][n]
        BY <1>22, <2>2 DEF IsKnown
      <3>2. CASE j \in 1..Len(b)
        BY <1>13, <3>1, <3>2 DEF IsKnown
      <3>3. CASE j = Len(b) + 1
        BY <1>14, <1>16, <3>1, <3>3
      <3> QED
        BY <1>18, <3>2, <3>3
    <2> QED
      BY <2>1, <2>2
  <1>23. ASSUME NEW n \in Names, NEW i \in 1..Len(s)
         PROVE  Decls(t, i, n) = Decls(s, i, n) /\ (Stray(s, b, ns, i, n) => Stray(t, c, ms, i, n))
    <2>1. Decls(t, i, n) = Decls(s, i, n)
      BY <1>5 DEF Decls
    <2> QED
      BY <1>3, <1>19, <1>22, <2>1, StrayStays
  <1>24. ContentWell(s, b, ns, base, home)
    BY DEF WalkWell
  <1>25. ASSUME NEW i \in 2..Len(t), NEW n \in Names PROVE ScopeWell(t, c, ms, homes, i, n)
    <2>1. CASE i \in 2..Len(s)
      <3>1. i \in 1..Len(s) /\ i - 1 \in 1..Len(s) /\ home[i] \in 1..Len(b) /\ homes[i] = home[i]
        BY <1>12, <2>1
      <3>2. ScopeWell(s, b, ns, home, i, n)
        BY <1>24, <2>1 DEF ContentWell
      <3>3. t[i].kind = s[i].kind /\ c[home[i]][n] = b[home[i]][n]
        BY <1>5, <1>13, <3>1
      <3>4. Decls(t, i, n) = Decls(s, i, n) /\ Decls(t, i - 1, n) = Decls(s, i - 1, n)
        BY <1>23, <3>1
      <3>5. (Stray(s, b, ns, i, n) => Stray(t, c, ms, i, n)) /\ (Stray(s, b, ns, i - 1, n) => Stray(t, c, ms, i - 1, n))
        BY <1>23, <3>1
      <3>6. i = Len(t) \/ t[i + 1].kind # "body" => i = Len(s) \/ s[i + 1].kind # "body"
        <4>1. i # Len(t)
          BY <1>3, <1>4, <2>1
        <4>2. i # Len(s) => i + 1 \in 1..Len(s)
          BY <1>3, <2>1
        <4> QED
          BY <1>5, <4>1, <4>2
      <3>7. ASSUME NEW j \in 1..Len(c), NEW d \in c[j][n], d \in Decls(s, i, n) PROVE j \in 1..Len(b) /\ d \in b[j][n]
        <4>1. d.at < off /\ d.at \in Nat
          BY <1>19, <3>1, <3>7 DEF AllEarlier, Earlier
        <4>2. CASE j = Len(b) + 1
          BY <1>3, <1>14, <1>16, <3>7, <4>1, <4>2
        <4>3. CASE j \in 1..Len(b)
          BY <1>13, <3>7, <4>3
        <4> QED
          BY <1>18, <4>2, <4>3
      <3> QED
        BY <1>21, <3>1, <3>2, <3>3, <3>4, <3>5, <3>6, <3>7, ScopeStays
    <2>2. CASE i \in Len(s) + 1..Len(t)
      <3>1. homes[i] = Len(b) + 1 /\ c[homes[i]] = block
        BY <1>12, <1>14, <2>2
      <3>2. ASSUME NEW j \in 1..Len(c), NEW d \in c[j][n], d \in Decls(t, i, n) PROVE j = homes[i]
        <4>1. d.at = off
          BY <1>15, <2>2, <3>2
        <4>2. CASE j \in 1..Len(b)
          <5>1. d.at < off /\ d.at \in Nat
            BY <1>13, <1>19, <3>2, <4>2 DEF AllEarlier, Earlier
          <5> QED
            BY <1>3, <4>1, <5>1
        <4> QED
          BY <1>18, <3>1, <4>2
      <3>3. CASE node.kind # "literal"
        <4>1. i = Len(s) + 1 /\ t[i] = more[1] /\ t[i].kind = "block"
          BY <1>3, <1>4, <1>7, <1>8, <2>2, <3>3
        <4>2. block[n] = {} /\ \A d \in Decls(t, i, n) : d \in node.pending /\ d.name = n
          BY <1>8, <3>3, <4>1 DEF Opens, Decls
        <4>3. \A d \in Decls(t, i, n) : IsPending(ms, n, d)
          <5>1. Len(ns) + 1 \in 1..Len(ms)
            BY <1>3, <1>4
          <5> QED
            BY <1>14, <4>2, <5>1 DEF IsPending
        <4> QED
          BY <3>1, <3>2, <4>1, <4>2, <4>3 DEF ScopeWell, BlockScope, BodyScope, FunctionScope, OwnBlock
      <3>4. CASE node.kind = "literal"
        <4>1. Len(t) = Len(s) + 2 /\ t[Len(s) + 1] = more[1] /\ t[Len(s) + 2] = more[2]
          BY <1>4, <1>7, <1>8, <3>4
        <4>2. more[1].kind = "function" /\ more[2].kind = "body" /\ block[n] = more[1].declarations[n]
              /\ more[2].declarations[n] = {}
          BY <1>8, <3>4 DEF Opens
        <4>3. CASE i = Len(s) + 1
          <5>1. i # Len(t) /\ t[i + 1].kind = "body" /\ t[i].kind = "function"
            BY <1>3, <4>1, <4>2, <4>3
          <5> QED
            BY <3>2, <5>1 DEF ScopeWell, BlockScope, BodyScope, FunctionScope, OwnBlock
        <4>4. CASE i = Len(s) + 2
          <5>1. t[i - 1] = more[1]
            BY <1>3, <4>1, <4>4
          <5>2. Decls(t, i, n) = {} /\ Decls(t, i - 1, n) = block[n] /\ t[i].kind = "body"
            BY <4>1, <4>2, <4>4, <5>1 DEF Decls
          <5> QED
            BY <3>1, <3>2, <5>2 DEF ScopeWell, BlockScope, BodyScope, FunctionScope, OwnBlock
        <4> QED
          BY <1>3, <2>2, <4>1, <4>3, <4>4
      <3> QED
        BY <3>3, <3>4
    <2> QED
      BY <1>3, <1>4, <2>1, <2>2
  <1>26. ASSUME NEW k \in 1..Len(ms), NEW d \in ms[k].pending PROVE PendingWell(t, c, ms, bases[k], d)
    <2>1. CASE k = Len(ns) + 1
      <3>1. /\ d \in node.pending /\ d.name \in Names /\ d.at = off /\ node.kind = "range"
            /\ bases[k] = Len(t) /\ Len(t) = Len(s) + 1
        BY <1>4, <1>8, <1>11, <1>14, <1>17, <1>26, <2>1
      <3>2. d \in Decls(t, Len(t), d.name)
        BY <1>7, <3>1 DEF Decls, Opens
      <3>3. ASSUME NEW i \in 1..Len(t), d \in Decls(t, i, d.name), i # Len(t) PROVE FALSE
        <4>1. i \in 1..Len(s)
          BY <1>3, <3>1, <3>3
        <4>2. d.at < off /\ d.at \in Nat
          BY <1>19, <1>23, <3>1, <3>3, <4>1 DEF AllEarlier, Earlier
        <4> QED
          BY <1>3, <3>1, <4>2
      <3> QED
        BY <3>1, <3>2, <3>3 DEF PendingWell, OnlyIn
    <2>2. CASE k \in 1..Len(ns)
      <3>1. ms[k] = ns[k] /\ bases[k] = base[k] /\ base[k] \in 1..Len(s) /\ NodeWell(s, ns[k], k = 1, base[k])
        <4>1. k \in 0..Len(ns)
          BY <2>2
        <4>2. NodesWell(s, ns, base)
          BY DEF WalkWell
        <4> QED
          BY <1>11, <1>14, <2>2, <4>1, <4>2 DEF NodesWell
      <3>2. d \in ns[k].pending /\ d.name \in Names /\ d.at < off /\ d.at \in Nat
        BY <1>19, <1>26, <2>2, <3>1 DEF AllEarlier, Earlier
      <3>3. PendingWell(s, b, ns, base[k], d)
        BY <1>24, <2>2, <3>2 DEF ContentWell
      <3>4. t[base[k]].kind = s[base[k]].kind /\ Decls(t, base[k], d.name) = Decls(s, base[k], d.name)
            /\ (Stray(s, b, ns, base[k], d.name) => Stray(t, c, ms, base[k], d.name))
        BY <1>5, <1>23, <3>1, <3>2
      <3>5. s[base[k]].kind = "body" /\ Stray(s, b, ns, base[k] - 1, d.name) => Stray(t, c, ms, base[k] - 1, d.name)
        <4>1. s[base[k]].kind = "body" => base[k] # 1
          BY DEF WalkWell, HomesWell, Ends
        <4>2. s[base[k]].kind = "body" => base[k] - 1 \in 1..Len(s)
          BY <1>3, <3>1, <4>1
        <4> QED
          BY <1>23, <3>2, <4>2
      <3>6. OnlyIn(t, base[k], d)
        <4> SUFFICES ASSUME NEW i \in 1..Len(t), d \in Decls(t, i, d.name) PROVE i = base[k]
          BY DEF OnlyIn
        <4>1. CASE i \in 1..Len(s)
          BY <1>23, <3>2, <3>3, <4>1 DEF PendingWell, OnlyIn
        <4>2. CASE i \in Len(s) + 1..Len(t)
          BY <1>3, <1>15, <3>2, <4>2
        <4> QED
          BY <1>18, <4>1, <4>2
      <3> QED
        BY <3>1, <3>3, <3>4, <3>5, <3>6 DEF PendingWell
    <2> QED
      BY <1>18, <2>1, <2>2
  <1>27. ASSUME NEW k \in 1..Len(ms) PROVE ms[k].kind \notin {"define", "spec", "range"} => ms[k].pending = {}
    <2>1. CASE k \in 1..Len(ns)
      BY <1>14, <1>24, <2>1 DEF ContentWell
    <2>2. CASE k = Len(ns) + 1
      BY <1>14, <2>2 DEF Opens
    <2> QED
      BY <1>18, <2>1, <2>2
  <1>28. ASSUME NEW k \in 1..Len(ms), ms[k].kind = "range", NEW n \in Names PROVE c[homes[bases[k]]][n] = {}
    <2>1. CASE k = Len(ns) + 1
      <3>1. bases[k] = Len(t) /\ Len(t) \in Len(s) + 1..Len(t)
        BY <1>3, <1>4, <1>11, <2>1
      <3>2. c[homes[bases[k]]] = block /\ node.kind = "range"
        BY <1>12, <1>14, <1>28, <2>1, <3>1
      <3> QED
        BY <3>2 DEF Opens
    <2>2. CASE k \in 1..Len(ns)
      <3>1. ms[k] = ns[k] /\ bases[k] = base[k] /\ ns[k].kind \in HeadKinds /\ ns[k].kind = "range"
        <4>1. k \in 0..Len(ns)
          BY <2>2
        <4> QED
          BY <1>11, <1>14, <1>28, <2>2, <4>1 DEF HeadKinds
      <3>2. base[k] \in 2..Len(s)
        <4>1. CASE k = Len(ns)
          BY <1>3, <1>12, <4>1 DEF WalkWell, NodesWell, BaseWell
        <4>2. CASE k # Len(ns)
          <5>1. base[k] \in 2..Len(s) - 2
            BY <1>3, <2>2, <3>1, <4>2, HeadBelow DEF WalkWell
          <5> QED
            BY <1>3, <5>1
        <4> QED
          BY <4>1, <4>2
      <3>3. homes[base[k]] = home[base[k]] /\ home[base[k]] \in 1..Len(b)
        BY <1>12, <3>2
      <3>4. b[home[base[k]]][n] = {}
        BY <1>24, <2>2, <3>1 DEF ContentWell
      <3> QED
        BY <1>13, <3>1, <3>3, <3>4
    <2> QED
      BY <1>18, <2>1, <2>2
  <1>29. ContentWell(t, c, ms, bases, homes)
    BY <1>25, <1>26, <1>27, <1>28 DEF ContentWell
  <1>30. Sized(t, c, ms, next) /\ Len(ms) # 0 /\ Len(c) # 0
    BY <1>3, <1>4 DEF Sized
  <1>31. WalkWell(t, c, ms, next, bases, homes)
    BY <1>9, <1>10, <1>20, <1>29, <1>30 DEF WalkWell
  <1> QED
    BY <1>1, <1>2, <1>31

\* Where a statement begins, nothing is pending in the innermost scopes.
LEMMA InnermostClear ==
    ASSUME NEW s, NEW b, NEW ns, NEW off, NEW base, NEW home, WalkWell(s, b, ns, off, base, home),
           ns[Len(ns)].kind \notin HeadKinds, NEW n, NEW d, IsPending(ns, n, d)
    PROVE  /\ d \notin Decls(s, Len(s), n)
           /\ d \notin Decls(s, Len(s) - 1, n)
  <1>1. Len(s) \in Nat /\ Len(b) \in Nat /\ Len(ns) \in Nat
    BY DEF WalkWell, Sized
  <1>2. PICK k \in 1..Len(ns) : d \in ns[k].pending /\ d.name = n
    BY DEF IsPending
  <1>3. ns[k].kind \in HeadKinds
    BY <1>2 DEF WalkWell, ContentWell, HeadKinds
  <1>4. base[k] \in 2..Len(s) - 2
    <2>1. k # Len(ns)
      BY <1>3
    <2> QED
      BY <1>1, <1>3, <2>1, HeadBelow DEF WalkWell
  <1>5. OnlyIn(s, base[k], d)
    BY <1>2 DEF WalkWell, ContentWell, PendingWell
  <1>6. Len(s) \in 1..Len(s) /\ Len(s) - 1 \in 1..Len(s) /\ Len(s) # base[k] /\ Len(s) - 1 # base[k]
    BY <1>1, <1>4
  <1> QED
    BY <1>2, <1>5, <1>6 DEF OnlyIn

\* A declaration: of the names X in scope f, of V in the innermost block, while Z
\* become pending.
Mark(n, off) == [name |-> n, at |-> off]
Declares(s, b, ns, off, t, c, ms, node, f, X, V) ==
    /\ Len(t) = Len(s) /\ Len(c) = Len(b) /\ Len(ms) = Len(ns) + 1
    /\ \A i \in 1..Len(s) : t[i].kind = s[i].kind
    /\ \A i \in 1..Len(s) : \A n \in Names : \A d :
         d \in Decls(t, i, n) <=> d \in Decls(s, i, n) \/ (i = f /\ n \in X /\ d = Mark(n, off))
    /\ \A j \in 1..Len(b) : \A n \in Names : \A d :
         d \in c[j][n] <=> d \in b[j][n] \/ (j = Len(b) /\ n \in V /\ d = Mark(n, off))
    /\ \A k \in 1..Len(ns) : ms[k] = ns[k]
    /\ ms[Len(ns) + 1] = node

Defines(node, off, Z) ==
    /\ node.pushed = 0 /\ node.kind \in {"define", "spec", "type", "label"}
    /\ Z # {} => node.kind \in {"define", "spec"}
    /\ \A d : d \in node.pending <=> \E n \in Z : d = Mark(n, off)

\* A variable is declared in the innermost scope, now or with the end of its
\* statement in the innermost block too, unless it is a parameter of the literal
\* that its body assigns; or it may be missing in the scope for a name that is
\* there already.  A label is declared in the scope of a function only.
Declarable(s, b, f, X, V, Z) ==
    \/ /\ f = Len(s) /\ V \subseteq X
       /\ \A n \in X : n \in V \/ n \in Z \/ (s[f].kind = "body" /\ Decls(s, f - 1, n) # {})
       /\ \A n \in Z : b[Len(b)][n] = {} /\ (n \in X \/ Decls(s, f, n) # {})
    \/ s[f].kind = "function" /\ V = {} /\ Z = {}

\* The walk meets a statement that declares names in an open scope.
LEMMA Declarations ==
    ASSUME NEW s, NEW b, NEW ns, NEW off, NEW base, NEW home, WalkWell(s, b, ns, off, base, home), Len(ns) # 0,
           ns[Len(ns)].kind \notin HeadKinds,
           NEW X \in SUBSET Names, NEW V \in SUBSET Names, NEW Z \in SUBSET Names, NEW f \in 2..Len(s),
           Declarable(s, b, f, X, V, Z), NEW node, Defines(node, off, Z),
           NEW t, NEW c, NEW ms, Declares(s, b, ns, off, t, c, ms, node, f, X, V)
    PROVE  WalkWell(t, c, ms, off + 1, Base(base, Len(ns), Len(t)), home)
  <1>1. PICK bases : bases = Base(base, Len(ns), Len(t))
    OBVIOUS
  <1>2. Len(s) \in Nat /\ Len(b) \in Nat \ {0} /\ Len(ns) \in Nat \ {0} /\ off \in Nat
    BY DEF WalkWell, Sized
  <1>3. Len(t) = Len(s) /\ Len(c) = Len(b) /\ Len(ms) = Len(ns) + 1
    BY DEF Declares
  <1>4. \A i \in 1..Len(s) : t[i].kind = s[i].kind
    BY DEF Declares
  <1>5. ms[Len(ns) + 1] = node /\ \A k \in 1..Len(ns) : ms[k] = ns[k]
    BY DEF Declares
  <1>6. node.pushed = 0 /\ node.kind \in {"define", "spec", "type", "label"} /\ (Z # {} => node.kind \in {"define", "spec"})
    BY DEF Defines
  <1>7. NodesWell(t, ms, bases)
    <2>1. NodeWell(t, node, FALSE, Len(t))
      BY <1>6 DEF NodeWell, StatementKinds
    <2>2. NodesWell(s, ns, base) /\ Len(t) = Len(s) + node.pushed /\ node.pushed \in Nat
      BY <1>2, <1>3, <1>6 DEF WalkWell
    <2>3. NodesWell(t, ms, Base(base, Len(ns), Len(t)))
      BY <1>2, <1>3, <1>4, <1>5, <2>1, <2>2, NodesPushed
    <2> QED
      BY <1>1, <2>3
  <1>8. HomesWell(t, Len(c), home)
    BY <1>2, <1>3, <1>4, HomesAlike DEF WalkWell
  <1>9. /\ \A k \in 0..Len(ns) : bases[k] = base[k] /\ base[k] \in 1..Len(s)
        /\ bases[Len(ns) + 1] = Len(t)
    <2>1. /\ bases = [k \in 0..Len(ns) + 1 |-> IF k <= Len(ns) THEN base[k] ELSE Len(t)]
          /\ Len(ns) + 1 \in 0..Len(ns) + 1 /\ ~(Len(ns) + 1 <= Len(ns))
          /\ \A k \in 0..Len(ns) : k \in 0..Len(ns) + 1 /\ k <= Len(ns)
      BY <1>1, <1>2 DEF Base
    <2>2. base \in [0..Len(ns) -> 1..Len(s)]
      BY DEF WalkWell, NodesWell, BaseWell
    <2> QED
      BY <2>1, <2>2
  <1>10. \A k \in 1..Len(ms) : k \in 1..Len(ns) \/ k = Len(ns) + 1
    BY <1>2, <1>3
  <1>11. AllEarlier(s, b, ns, off) /\ ContentWell(s, b, ns, base, home)
    BY DEF WalkWell
  <1>12. ASSUME NEW n \in Names
         PROVE  /\ \A i \in 1..Len(s) : \A d \in Decls(s, i, n) : d.at # off
                /\ \A j \in 1..Len(b) : \A d \in b[j][n] : d.at # off
                /\ Mark(n, off).at = off /\ Mark(n, off).name = n
    BY <1>2, <1>11 DEF AllEarlier, Earlier, Mark
  <1>13. /\ \A i \in 1..Len(s) : \A n \in Names : \A d :
              d \in Decls(t, i, n) <=> d \in Decls(s, i, n) \/ (i = f /\ n \in X /\ d = Mark(n, off))
         /\ \A j \in 1..Len(b) : \A n \in Names : \A d :
              d \in c[j][n] <=> d \in b[j][n] \/ (j = Len(b) /\ n \in V /\ d = Mark(n, off))
    BY DEF Declares
  <1>14. AllEarlier(t, c, ms, off + 1)
    <2>1. \A d, n : Earlier(d, n, off) => Earlier(d, n, off + 1)
      BY <1>2 DEF Earlier
    <2>2. \A n \in Names : Earlier(Mark(n, off), n, off + 1)
      BY <1>2 DEF Earlier, Mark
    <2>3. \A i \in 1..Len(t) : \A n \in Names : \A d \in Decls(t, i, n) : Earlier(d, n, off + 1)
      BY <1>3, <1>11, <1>13, <2>1, <2>2 DEF AllEarlier
    <2>4. \A j \in 1..Len(c) : \A n \in Names : \A d \in c[j][n] : Earlier(d, n, off + 1)
      BY <1>3, <1>11, <1>13, <2>1, <2>2 DEF AllEarlier
    <2>5. ASSUME NEW k \in 1..Len(ms), NEW d \in ms[k].pending PROVE d.name \in Names /\ Earlier(d, d.name, off + 1)
      <3>1. CASE k \in 1..Len(ns)
        BY <1>5, <1>11, <2>1, <2>5, <3>1 DEF AllEarlier
      <3>2. CASE k = Len(ns) + 1
        <4>1. PICK n \in Z : d = Mark(n, off)
          BY <1>5, <2>5, <3>2 DEF Defines
        <4> QED
          BY <1>12, <2>2, <4>1
      <3> QED
        BY <1>10, <3>1, <3>2
    <2> QED
      BY <2>3, <2>4, <2>5 DEF AllEarlier
  <1>15. /\ \A n, d : IsPending(ns, n, d) => IsPending(ms, n, d)
         /\ \A n \in Z : IsPending(ms, n, Mark(n, off))
    <2>1. \A k \in 1..Len(ns) : k \in 1..Len(ms)
      BY <1>2, <1>3
    <2>2. Len(ns) + 1 \in 1..Len(ms)
      BY <1>2, <1>3
    <2>3. \A n \in Z : Mark(n, off) \in node.pending /\ Mark(n, off).name = n
      BY DEF Defines, Mark
    <2> QED
      BY <1>5, <2>1, <2>2, <2>3 DEF IsPending
  <1>16. ASSUME NEW n \in Names, NEW d, IsKnown(c, ms, n, d) PROVE IsKnown(b, ns, n, d) \/ d.at = off
    <2>1. CASE IsPending(ms, n, d)
      <3>1. PICK k \in 1..Len(ms) : d \in ms[k].pending /\ d.name = n
        BY <2>1 DEF IsPending
      <3>2. CASE k \in 1..Len(ns)
        BY <1>5, <3>1, <3>2 DEF IsKnown, IsPending
      <3>3. CASE k = Len(ns) + 1
        BY <1>5, <1>12, <3>1, <3>3 DEF Defines
      <3> QED
        BY <1>10, <3>2, <3>3
    <2>2. CASE ~IsPending(ms, n, d)
      <3>1. PICK j \in 1..Len(b) : d \in c[j][n]
        BY <1>3, <1>16, <2>2 DEF IsKnown
      <3> QED
        BY <1>12, <1>13, <3>1 DEF IsKnown
    <2> QED
      BY <2>1, <2>2
  <1>17. ASSUME NEW n \in Names, NEW i \in 1..Len(s), Stray(s, b, ns, i, n) PROVE Stray(t, c, ms, i, n)
    <2>1. \A d \in Decls(s, i, n) : d \in Decls(t, i, n)
      BY <1>13
    <2>2. \A d : IsKnown(c, ms, n, d) => IsKnown(b, ns, n, d) \/ d.at = off
      BY <1>16
    <2>3. AllEarlier(s, b, ns, off) /\ off \in Nat
      BY <1>2, <1>11
    <2> QED
      BY <1>17, <2>1, <2>2, <2>3, StrayStays
  <1>18. HomesWell(s, Len(b), home)
    BY DEF WalkWell
  <1>19. ASSUME NEW i \in 2..Len(s)
         PROVE  /\ home[i] \in 1..Len(b) /\ i \in 1..Len(s) /\ i - 1 \in 1..Len(s)
                /\ home[i] = Len(b) /\ i # Len(s) => s[i].kind = "function" /\ i + 1 = Len(s) /\ s[i + 1].kind = "body"
                /\ i = Len(s) => home[i] = Len(b)
    <2>1. /\ home[i] \in 1..Len(b)
          /\ home[i] = Len(b) <=> i = Len(s) \/ (i = Len(s) - 1 /\ s[Len(s)].kind = "body")
          /\ i = Len(s) - 1 /\ s[Len(s)].kind = "body" => s[i].kind = "function"
      BY <1>2, <1>18, InnermostScopes
    <2>2. i = Len(s) - 1 => i + 1 = Len(s)
      BY <1>2
    <2>3. i \in 1..Len(s) /\ i - 1 \in 1..Len(s)
      BY <1>2
    <2> QED
      BY <2>1, <2>2, <2>3
  <1>20. f \in 1..Len(s) /\ Len(b) \in 1..Len(b)
    BY <1>2
  <1>21. ASSUME NEW i \in 2..Len(s), NEW n \in Names
         PROVE  /\ \A d \in b[home[i]][n] : d \in c[home[i]][n]
                /\ \A d \in c[home[i]][n] : d \in b[home[i]][n] \/ (home[i] = Len(b) /\ n \in V /\ d = Mark(n, off))
                /\ \A d \in Decls(s, i, n) : d \in Decls(t, i, n)
                /\ \A d \in Decls(t, i, n) : d \in Decls(s, i, n) \/ (i = f /\ n \in X /\ d = Mark(n, off))
                /\ \A d \in Decls(s, i - 1, n) : d \in Decls(t, i - 1, n)
    BY <1>13, <1>19
  <1>22. V # {} => f = Len(s) /\ V \subseteq X
    BY DEF Declarable
  <1>23. \A n \in V : Mark(n, off) \in c[Len(b)][n] /\ Mark(n, off) \in Decls(t, f, n) /\ Mark(n, off) \in Decls(t, Len(s), n)
    BY <1>13, <1>20, <1>22
  <1>24. ASSUME NEW i \in 2..Len(s), NEW n \in Names PROVE ScopeWell(t, c, ms, home, i, n)
    <2>1. ScopeWell(s, b, ns, home, i, n)
      BY <1>11 DEF ContentWell
    <2>2. t[i].kind = s[i].kind /\ t[i - 1].kind = s[i - 1].kind
      BY <1>4, <1>19
    <2>3. /\ Stray(s, b, ns, i, n) => Stray(t, c, ms, i, n)
          /\ Stray(s, b, ns, i - 1, n) => Stray(t, c, ms, i - 1, n)
      BY <1>17, <1>19
    <2>4. ASSUME s[i].kind # "function", i = f, n \in X, ~(s[i].kind = "body" /\ Decls(s, i - 1, n) # {})
          PROVE  Mark(n, off) \in c[home[i]][n] \/ IsPending(ms, n, Mark(n, off))
      <3>1. f = Len(s) /\ home[i] = Len(b) /\ (n \in V \/ n \in Z)
        BY <1>19, <2>4 DEF Declarable
      <3> QED
        BY <1>15, <1>23, <3>1
    <2>5. BlockScope(t, c, ms, home, i, n)
      <3> SUFFICES ASSUME s[i].kind = "block"
                   PROVE  /\ \A d \in Decls(t, i, n) : d \in c[home[i]][n] \/ IsPending(ms, n, d)
                          /\ \A d \in c[home[i]][n] : d \in Decls(t, i, n)
        BY <2>2 DEF BlockScope
      <3>1. /\ \A d \in Decls(s, i, n) : d \in b[home[i]][n] \/ IsPending(ns, n, d)
            /\ \A d \in b[home[i]][n] : d \in Decls(s, i, n)
        BY <2>1 DEF ScopeWell, BlockScope
      <3>2. ASSUME NEW d \in Decls(t, i, n) PROVE d \in c[home[i]][n] \/ IsPending(ms, n, d)
        <4>1. CASE d \in Decls(s, i, n)
          BY <1>15, <1>21, <3>1, <4>1
        <4>2. CASE i = f /\ n \in X /\ d = Mark(n, off)
          BY <2>4, <4>2
        <4> QED
          BY <1>21, <3>2, <4>1, <4>2
      <3>3. ASSUME NEW d \in c[home[i]][n] PROVE d \in Decls(t, i, n)
        <4>1. CASE d \in b[home[i]][n]
          BY <1>21, <3>1, <4>1
        <4>2. CASE home[i] = Len(b) /\ n \in V /\ d = Mark(n, off)
          <5>1. i = Len(s)
            BY <1>19, <4>2
          <5> QED
            BY <1>23, <4>2, <5>1
        <4> QED
          BY <1>21, <3>3, <4>1, <4>2
      <3> QED
        BY <3>2, <3>3
    <2>6. BodyScope(t, c, ms, home, i, n)
      <3> SUFFICES ASSUME s[i].kind = "body"
                   PROVE  /\ Decls(t, i - 1, n) # {} \/ \A d \in Decls(t, i, n) : d \in c[home[i]][n] \/ IsPending(ms, n, d)
                          /\ \/ Stray(t, c, ms, i - 1, n)
                             \/ \A d \in c[home[i]][n] : d \in Decls(t, i, n) \/ d \in Decls(t, i - 1, n)
        BY <2>2 DEF BodyScope
      <3>1. /\ Decls(s, i - 1, n) # {} \/ \A d \in Decls(s, i, n) : d \in b[home[i]][n] \/ IsPending(ns, n, d)
            /\ Stray(s, b, ns, i - 1, n) \/ \A d \in b[home[i]][n] : d \in Decls(s, i, n) \/ d \in Decls(s, i - 1, n)
        BY <2>1 DEF ScopeWell, BodyScope
      <3>2. Decls(t, i - 1, n) # {} \/ \A d \in Decls(t, i, n) : d \in c[home[i]][n] \/ IsPending(ms, n, d)
        <4>1. CASE Decls(s, i - 1, n) # {}
          BY <1>21, <4>1
        <4>2. CASE Decls(s, i - 1, n) = {}
          <5> SUFFICES ASSUME NEW d \in Decls(t, i, n) PROVE d \in c[home[i]][n] \/ IsPending(ms, n, d)
            OBVIOUS
          <5>1. CASE d \in Decls(s, i, n)
            BY <1>15, <1>21, <3>1, <4>2, <5>1
          <5>2. CASE i = f /\ n \in X /\ d = Mark(n, off)
            BY <2>4, <4>2, <5>2
          <5> QED
            BY <1>21, <5>1, <5>2
        <4> QED
          BY <4>1, <4>2
      <3>3. ASSUME ~Stray(s, b, ns, i - 1, n), NEW d \in c[home[i]][n] PROVE d \in Decls(t, i, n) \/ d \in Decls(t, i - 1, n)
        <4>1. CASE d \in b[home[i]][n]
          BY <1>21, <3>1, <3>3, <4>1
        <4>2. CASE home[i] = Len(b) /\ n \in V /\ d = Mark(n, off)
          <5>1. i = Len(s)
            BY <1>19, <4>2
          <5> QED
            BY <1>23, <4>2, <5>1
        <4> QED
          BY <1>21, <3>3, <4>1, <4>2
      <3> QED
        BY <2>3, <3>2, <3>3
    <2>7. FunctionScope(t, c, ms, home, i, n)
      <3> SUFFICES ASSUME s[i].kind = "function", i = Len(s) \/ t[i + 1].kind # "body", ~Stray(s, b, ns, i, n),
                          NEW d \in c[home[i]][n]
                   PROVE  d \in Decls(t, i, n)
        BY <1>3, <2>2, <2>3 DEF FunctionScope
      <3>1. i = Len(s) \/ s[i + 1].kind # "body"
        <4>1. i # Len(s) => i + 1 \in 1..Len(s)
          BY <1>2
        <4> QED
          BY <1>4, <4>1
      <3>2. CASE d \in b[home[i]][n]
        BY <1>21, <2>1, <3>1, <3>2 DEF ScopeWell, FunctionScope
      <3>3. CASE home[i] = Len(b) /\ n \in V /\ d = Mark(n, off)
        <4>1. i = Len(s)
          BY <1>19, <3>1, <3>3
        <4> QED
          BY <1>23, <3>3, <4>1
      <3> QED
        BY <1>21, <3>2, <3>3
    <2>8. OwnBlock(t, c, home, i, n)
      <3> SUFFICES ASSUME NEW j \in 1..Len(b), NEW d \in c[j][n], d \in Decls(t, i, n) PROVE j = home[i]
        BY <1>3 DEF OwnBlock
      <3>1. CASE d.at = off
        <4>1. j = Len(b) /\ n \in V /\ i = f
          BY <1>12, <1>13, <1>19, <3>1
        <4> QED
          BY <1>19, <1>22, <4>1
      <3>2. CASE d.at # off
        <4>1. d \in b[j][n] /\ d \in Decls(s, i, n)
          BY <1>12, <1>13, <1>19, <3>2
        <4> QED
          BY <2>1, <4>1 DEF ScopeWell, OwnBlock
      <3> QED
        BY <3>1, <3>2
    <2> QED
      BY <2>5, <2>6, <2>7, <2>8 DEF ScopeWell
  <1>25. ASSUME NEW k \in 1..Len(ns), NEW d \in ns[k].pending PROVE PendingWell(t, c, ms, base[k], d)
    <2>1. k \in 0..Len(ns)
      OBVIOUS
    <2>2. base[k] \in 1..Len(s)
      BY <1>9, <2>1
    <2>3. d.name \in Names /\ d.at # off /\ PendingWell(s, b, ns, base[k], d)
      BY <1>2, <1>11 DEF AllEarlier, Earlier, ContentWell
    <2>4. OnlyIn(t, base[k], d)
      BY <1>3, <1>12, <1>13, <2>3 DEF PendingWell, OnlyIn
    <2>5. /\ d \in Decls(s, base[k], d.name) => d \in Decls(t, base[k], d.name)
          /\ Stray(s, b, ns, base[k], d.name) => Stray(t, c, ms, base[k], d.name)
          /\ t[base[k]].kind = s[base[k]].kind
      BY <1>4, <1>13, <1>17, <2>2, <2>3
    <2>6. s[base[k]].kind = "body" /\ Stray(s, b, ns, base[k] - 1, d.name) => Stray(t, c, ms, base[k] - 1, d.name)
      <3>1. s[base[k]].kind = "body" => base[k] # 1
        BY <1>18 DEF HomesWell, Ends
      <3>2. s[base[k]].kind = "body" => base[k] - 1 \in 1..Len(s)
        BY <1>2, <2>2, <3>1
      <3> QED
        BY <1>17, <2>3, <3>2
    <2> QED
      BY <2>3, <2>4, <2>5, <2>6 DEF PendingWell
  <1>26. ASSUME NEW n \in Z PROVE PendingWell(t, c, ms, Len(t), Mark(n, off))
    <2>1. f = Len(s) /\ b[Len(b)][n] = {} /\ (n \in X \/ Decls(s, f, n) # {})
      BY DEF Declarable
    <2>2. n \in Names /\ Mark(n, off).name = n /\ Mark(n, off).at = off
      BY <1>12
    <2>3. OnlyIn(t, Len(t), Mark(n, off))
      BY <1>3, <1>12, <1>13, <2>1, <2>2 DEF OnlyIn
    <2>4. CASE n \in X
      <3>1. Mark(n, off) \in Decls(t, Len(t), n)
        BY <1>3, <1>13, <1>20, <2>1, <2>2, <2>4
      <3> QED
        BY <2>2, <2>3, <3>1 DEF PendingWell
    <2>5. CASE n \notin X
      <3>1. Len(s) \in 2..Len(s) /\ Len(s) \in 1..Len(s) /\ Len(s) - 1 \in 1..Len(s)
        BY <1>2
      <3>2. ScopeWell(s, b, ns, home, Len(s), n) /\ home[Len(s)] = Len(b)
        BY <1>11, <1>19, <2>2, <3>1 DEF ContentWell
      <3>3. \A d : IsPending(ns, n, d) => d \notin Decls(s, Len(s), n) /\ d \notin Decls(s, Len(s) - 1, n)
        BY InnermostClear
      <3>4. CASE s[Len(s)].kind = "block"
        BY <2>1, <2>5, <3>2, <3>3, <3>4 DEF ScopeWell, BlockScope
      <3>5. CASE s[Len(s)].kind = "function"
        <4>1. PICK d : d \in Decls(s, Len(s), n)
          BY <2>1, <2>5
        <4>2. ~IsKnown(b, ns, n, d)
          BY <2>1, <3>2, <3>3, <4>1 DEF ScopeWell, OwnBlock, IsKnown
        <4>3. Stray(t, c, ms, Len(t), n)
          BY <1>3, <1>17, <2>2, <3>1, <4>1, <4>2 DEF Stray
        <4> QED
          BY <1>3, <1>4, <2>2, <2>3, <3>1, <3>5, <4>3 DEF PendingWell
      <3>6. CASE s[Len(s)].kind = "body"
        <4>1. s[Len(s) - 1].kind = "function" /\ home[Len(s) - 1] = home[Len(s)] /\ Len(s) - 1 \in 2..Len(s)
          BY <1>2, <1>18, <3>1, <3>6 DEF HomesWell, Bodies
        <4>2. PICK d : d \in Decls(s, Len(s) - 1, n)
          BY <2>1, <2>5, <3>2, <3>3, <3>6 DEF ScopeWell, BodyScope
        <4>3. ScopeWell(s, b, ns, home, Len(s) - 1, n)
          BY <1>11, <2>2, <4>1 DEF ContentWell
        <4>4. ~IsKnown(b, ns, n, d)
          BY <2>1, <3>2, <3>3, <4>1, <4>2, <4>3 DEF ScopeWell, OwnBlock, IsKnown
        <4>5. Stray(t, c, ms, Len(t) - 1, n)
          BY <1>3, <1>17, <2>2, <3>1, <4>2, <4>4 DEF Stray
        <4> QED
          BY <1>3, <1>4, <2>2, <2>3, <3>1, <3>6, <4>5 DEF PendingWell
      <3>7. s[Len(s)].kind \in {"block", "function", "body"}
        BY <1>18, <3>1 DEF HomesWell
      <3> QED
        BY <3>4, <3>5, <3>6, <3>7
    <2> QED
      BY <2>4, <2>5
  <1>27. ASSUME NEW k \in 1..Len(ms), NEW d \in ms[k].pending PROVE PendingWell(t, c, ms, bases[k], d)
    <2>1. CASE k \in 1..Len(ns)
      <3>1. k \in 0..Len(ns)
        BY <2>1
      <3> QED
        BY <1>5, <1>9, <1>25, <1>27, <2>1, <3>1
    <2>2. CASE k = Len(ns) + 1
      <3>1. PICK n \in Z : d = Mark(n, off)
        BY <1>5, <1>27, <2>2 DEF Defines
      <3> QED
        BY <1>9, <1>26, <2>2, <3>1
    <2> QED
      BY <1>10, <2>1, <2>2
  <1>28. ASSUME NEW k \in 1..Len(ms) PROVE ms[k].kind \notin {"define", "spec", "range"} => ms[k].pending = {}
    <2>1. CASE k \in 1..Len(ns)
      BY <1>5, <1>11, <2>1 DEF ContentWell
    <2>2. CASE k = Len(ns) + 1
      BY <1>5, <1>6, <2>2 DEF Defines
    <2> QED
      BY <1>10, <2>1, <2>2
  <1>29. ASSUME NEW k \in 1..Len(ms), ms[k].kind = "range", NEW n \in Names PROVE c[home[bases[k]]][n] = {}
    <2>1. k \in 1..Len(ns) /\ k \in 0..Len(ns)
      BY <1>5, <1>6, <1>10, <1>29
    <2>2. ns[k].kind = "range" /\ ns[k].kind \in HeadKinds /\ bases[k] = base[k]
      BY <1>5, <1>9, <1>29, <2>1 DEF HeadKinds
    <2>3. home[base[k]] < Len(b) /\ home[base[k]] \in 1..Len(b)
      <3>1. k # Len(ns)
        BY <2>2
      <3>2. Len(b) \in Nat /\ Len(ns) \in Nat /\ NodesWell(s, ns, base)
        BY <1>2 DEF WalkWell
      <3> QED
        BY <1>2, <1>18, <2>1, <2>2, <3>1, <3>2, HeadBelow
    <2>4. b[home[base[k]]][n] = {}
      BY <1>11, <2>1, <2>2 DEF ContentWell
    <2>5. \A d : d \notin c[home[base[k]]][n]
      BY <1>2, <1>13, <2>3, <2>4
    <2> QED
      BY <2>2, <2>5
  <1>30. ContentWell(t, c, ms, bases, home)
    BY <1>3, <1>24, <1>27, <1>28, <1>29 DEF ContentWell
  <1>31. Sized(t, c, ms, off + 1) /\ Len(ms) # 0 /\ Len(c) # 0
    BY <1>2, <1>3 DEF Sized
  <1>32. WalkWell(t, c, ms, off + 1, bases, home)
    BY <1>7, <1>8, <1>14, <1>30, <1>31 DEF WalkWell
  <1> QED
    BY <1>1, <1>32

\* What was pending in the innermost statement is declared in the innermost block:
\* all of it, or those now of the specifications of a group.
Settles(b, ns, c, ms, now) ==
    /\ now \subseteq ns[Len(ns)].pending
    /\ Len(c) = Len(b) /\ Len(ms) = Len(ns)
    /\ \A j \in 1..Len(b) : \A n \in Names : \A d :
         d \in c[j][n] <=> d \in b[j][n] \/ (j = Len(b) /\ d \in now /\ d.name = n)
    /\ \A k \in 1..Len(ns) : k # Len(ns) => ms[k] = ns[k]
    /\ ms[Len(ns)].pending = ns[Len(ns)].pending \ now /\ ms[Len(ns)].pushed = ns[Len(ns)].pushed
    /\ ms[Len(ns)].pending # {} => ns[Len(ns)].kind = "spec"
    /\ ms[Len(ns)].kind = IF ns[Len(ns)].kind = "range" THEN "ranged" ELSE ns[Len(ns)].kind

\* What the innermost statement declares becomes visible in its block.
LEMMA Settled ==
    ASSUME NEW s, NEW b, NEW ns, NEW off, NEW base, NEW home, WalkWell(s, b, ns, off, base, home), Len(ns) # 0,
           NEW c, NEW ms, NEW now, Settles(b, ns, c, ms, now)
    PROVE  WalkWell(s, c, ms, off, base, home)
  <1>1. Len(s) \in Nat /\ Len(b) \in Nat \ {0} /\ Len(ns) \in Nat \ {0} /\ off \in Nat
    BY DEF WalkWell, Sized
  <1>2. Len(c) = Len(b) /\ Len(ms) = Len(ns) /\ Len(ns) \in 1..Len(ns) /\ Len(ns) \in 0..Len(ns) /\ Len(b) \in 1..Len(b)
    BY <1>1 DEF Settles
  <1>3. PICK top : top = ns[Len(ns)]
    OBVIOUS
  <1>4. /\ \A k \in 1..Len(ns) : k # Len(ns) => ms[k] = ns[k]
        /\ ms[Len(ns)].pending = top.pending \ now /\ ms[Len(ns)].pushed = top.pushed
        /\ now \subseteq top.pending /\ (ms[Len(ns)].pending # {} => top.kind = "spec")
        /\ ms[Len(ns)].kind = IF top.kind = "range" THEN "ranged" ELSE top.kind
    BY <1>3 DEF Settles
  <1>5. \A j \in 1..Len(b) : \A n \in Names : \A d :
          d \in c[j][n] <=> d \in b[j][n] \/ (j = Len(b) /\ d \in now /\ d.name = n)
    BY <1>3 DEF Settles
  <1>6. NodesWell(s, ns, base) /\ HomesWell(s, Len(b), home) /\ AllEarlier(s, b, ns, off) /\ ContentWell(s, b, ns, base, home)
    BY DEF WalkWell
  <1>7. NodesWell(s, ms, base)
    <2>1. \A k \in 1..Len(ns) : ms[k].pushed = ns[k].pushed
                                /\ (ms[k].kind = ns[k].kind \/ (ns[k].kind = "range" /\ ms[k].kind = "ranged"))
      BY <1>3, <1>4
    <2> QED
      BY <1>1, <1>2, <1>6, <2>1, NodesAlike
  <1>8. base[Len(ns)] = Len(s) /\ HomesWell(s, Len(c), home)
    BY <1>2, <1>6 DEF NodesWell, BaseWell
  <1>9. \A d \in now : /\ d.name \in Names /\ Earlier(d, d.name, off)
                       /\ OnlyIn(s, Len(s), d) /\ PendingWell(s, b, ns, Len(s), d)
    BY <1>2, <1>3, <1>4, <1>6, <1>8 DEF AllEarlier, ContentWell, PendingWell
  <1>10. AllEarlier(s, c, ms, off)
    <2>1. \A j \in 1..Len(c) : \A n \in Names : \A d \in c[j][n] : Earlier(d, n, off)
      BY <1>2, <1>5, <1>6, <1>9 DEF AllEarlier, Earlier
    <2>2. \A k \in 1..Len(ms) : \A d \in ms[k].pending : d.name \in Names /\ Earlier(d, d.name, off)
      BY <1>2, <1>3, <1>4, <1>6 DEF AllEarlier
    <2> QED
      BY <1>6, <2>1, <2>2 DEF AllEarlier
  <1>11. \A n, d : IsPending(ms, n, d) => IsPending(ns, n, d)
    BY <1>2, <1>3, <1>4 DEF IsPending
  <1>12. \A n, d : IsPending(ns, n, d) => IsPending(ms, n, d) \/ (d \in now /\ d.name = n)
    BY <1>2, <1>3, <1>4 DEF IsPending
  <1>13. \A n \in Names : \A d : IsKnown(c, ms, n, d) => IsKnown(b, ns, n, d)
    <2> SUFFICES ASSUME NEW n \in Names, NEW d, IsKnown(c, ms, n, d) PROVE IsKnown(b, ns, n, d)
      OBVIOUS
    <2>1. CASE IsPending(ms, n, d)
      BY <1>11, <2>1 DEF IsKnown
    <2>2. CASE ~IsPending(ms, n, d)
      <3>1. PICK j \in 1..Len(b) : d \in c[j][n]
        BY <1>2, <2>2 DEF IsKnown
      <3>2. CASE d \in b[j][n]
        BY <3>2 DEF IsKnown
      <3>3. CASE d \in now /\ d.name = n
        BY <1>2, <1>3, <1>4, <3>3 DEF IsKnown, IsPending
      <3> QED
        BY <1>5, <3>1, <3>2, <3>3
    <2> QED
      BY <2>1, <2>2
  <1>14. \A n \in Names : \A i : Stray(s, b, ns, i, n) => Stray(s, c, ms, i, n)
    BY <1>13 DEF Stray
  <1>15. ASSUME NEW i \in 2..Len(s)
         PROVE  /\ home[i] \in 1..Len(b) /\ i \in 1..Len(s)
                /\ home[i] = Len(b) /\ i # Len(s) => s[i].kind = "function" /\ i + 1 = Len(s) /\ s[i + 1].kind = "body"
                /\ i = Len(s) => home[i] = Len(b)
    <2>1. /\ home[i] \in 1..Len(b)
          /\ home[i] = Len(b) <=> i = Len(s) \/ (i = Len(s) - 1 /\ s[Len(s)].kind = "body")
          /\ i = Len(s) - 1 /\ s[Len(s)].kind = "body" => s[i].kind = "function"
      BY <1>1, <1>6, InnermostScopes
    <2>2. i = Len(s) - 1 => i + 1 = Len(s)
      BY <1>1
    <2>3. i \in 1..Len(s)
      BY <1>1
    <2> QED
      BY <2>1, <2>2, <2>3
  <1>16. ASSUME NEW i \in 2..Len(s), NEW n \in Names PROVE ScopeWell(s, c, ms, home, i, n)
    <2>1. ScopeWell(s, b, ns, home, i, n)
      BY <1>6 DEF ContentWell
    <2>2. /\ \A d \in b[home[i]][n] : d \in c[home[i]][n]
          /\ \A d \in c[home[i]][n] : d \in b[home[i]][n] \/ (home[i] = Len(b) /\ d \in now /\ d.name = n)
      BY <1>5, <1>15
    <2>3. ASSUME NEW d \in Decls(s, i, n), IsPending(ns, n, d) PROVE IsPending(ms, n, d) \/ d \in c[home[i]][n]
      <3>1. CASE d \in now /\ d.name = n
        <4>1. i = Len(s)
          BY <1>9, <1>15, <2>3, <3>1 DEF OnlyIn
        <4> QED
          BY <1>2, <1>5, <1>15, <3>1, <4>1
      <3> QED
        BY <1>12, <2>3, <3>1
    <2>4. BlockScope(s, c, ms, home, i, n)
      <3> SUFFICES ASSUME s[i].kind = "block"
                   PROVE  /\ \A d \in Decls(s, i, n) : d \in c[home[i]][n] \/ IsPending(ms, n, d)
                          /\ \A d \in c[home[i]][n] : d \in Decls(s, i, n)
        BY DEF BlockScope
      <3>1. \A d \in c[home[i]][n] : d \in b[home[i]][n] \/ (i = Len(s) /\ d \in now /\ d.name = n)
        BY <1>15, <2>2
      <3> QED
        BY <1>9, <2>1, <2>2, <2>3, <3>1 DEF ScopeWell, BlockScope, PendingWell
    <2>5. BodyScope(s, c, ms, home, i, n)
      <3> SUFFICES ASSUME s[i].kind = "body"
                   PROVE  /\ Decls(s, i - 1, n) # {} \/ \A d \in Decls(s, i, n) : d \in c[home[i]][n] \/ IsPending(ms, n, d)
                          /\ \/ Stray(s, c, ms, i - 1, n)
                             \/ \A d \in c[home[i]][n] : d \in Decls(s, i, n) \/ d \in Decls(s, i - 1, n)
        BY DEF BodyScope
      <3>1. \A d \in c[home[i]][n] : d \in b[home[i]][n] \/ (i = Len(s) /\ d \in now /\ d.name = n)
        BY <1>15, <2>2
      <3>2. Decls(s, i - 1, n) # {} \/ \A d \in Decls(s, i, n) : d \in c[home[i]][n] \/ IsPending(ms, n, d)
        BY <2>1, <2>2, <2>3 DEF ScopeWell, BodyScope
      <3>3. ASSUME ~Stray(s, b, ns, i - 1, n), NEW d \in c[home[i]][n] PROVE d \in Decls(s, i, n) \/ d \in Decls(s, i - 1, n)
        <4>1. CASE d \in b[home[i]][n]
          BY <2>1, <3>3, <4>1 DEF ScopeWell, BodyScope
        <4>2. CASE i = Len(s) /\ d \in now /\ d.name = n
          BY <1>9, <3>3, <4>2 DEF PendingWell
        <4> QED
          BY <3>1, <3>3, <4>1, <4>2
      <3> QED
        BY <1>14, <3>2, <3>3
    <2>6. FunctionScope(s, c, ms, home, i, n)
      <3> SUFFICES ASSUME s[i].kind = "function", i = Len(s) \/ s[i + 1].kind # "body", ~Stray(s, b, ns, i, n),
                          NEW d \in c[home[i]][n]
                   PROVE  d \in Decls(s, i, n)
        BY <1>14 DEF FunctionScope
      <3>1. CASE d \in b[home[i]][n]
        BY <2>1, <3>1 DEF ScopeWell, FunctionScope
      <3>2. CASE home[i] = Len(b) /\ d \in now /\ d.name = n
        <4>1. i = Len(s)
          BY <1>15, <3>2
        <4> QED
          BY <1>9, <3>2, <4>1 DEF PendingWell
      <3> QED
        BY <2>2, <3>1, <3>2
    <2>7. OwnBlock(s, c, home, i, n)
      <3> SUFFICES ASSUME NEW j \in 1..Len(b), NEW d \in c[j][n], d \in Decls(s, i, n) PROVE j = home[i]
        BY <1>2 DEF OwnBlock
      <3>1. CASE d \in b[j][n]
        BY <2>1, <3>1 DEF ScopeWell, OwnBlock
      <3>2. CASE j = Len(b) /\ d \in now /\ d.name = n
        BY <1>9, <1>15, <3>2 DEF OnlyIn
      <3> QED
        BY <1>5, <3>1, <3>2
    <2> QED
      BY <2>4, <2>5, <2>6, <2>7 DEF ScopeWell
  <1>17. ASSUME NEW k \in 1..Len(ms), NEW d \in ms[k].pending PROVE PendingWell(s, c, ms, base[k], d)
    <2>1. k \in 1..Len(ns) /\ d \in ns[k].pending
      BY <1>2, <1>3, <1>4, <1>17
    <2>2. PendingWell(s, b, ns, base[k], d) /\ d.name \in Names
      BY <1>6, <2>1 DEF ContentWell, AllEarlier
    <2> QED
      BY <1>14, <2>2 DEF PendingWell
  <1>18. \A k \in 1..Len(ms) : ms[k].kind \notin {"define", "spec", "range"} => ms[k].pending = {}
    BY <1>2, <1>3, <1>4, <1>6 DEF ContentWell
  <1>19. ASSUME NEW k \in 1..Len(ms), ms[k].kind = "range", NEW n \in Names PROVE c[home[base[k]]][n] = {}
    <2>1. k \in 1..Len(ns) /\ k # Len(ns) /\ ns[k].kind = "range" /\ ns[k].kind \in HeadKinds
      BY <1>2, <1>4, <1>19 DEF HeadKinds
    <2>2. home[base[k]] < Len(b) /\ home[base[k]] \in 1..Len(b)
      <3>1. Len(b) \in Nat /\ Len(ns) \in Nat
        BY <1>1
      <3> QED
        BY <1>1, <1>6, <2>1, <3>1, HeadBelow
    <2>3. b[home[base[k]]][n] = {}
      BY <1>6, <2>1 DEF ContentWell
    <2>4. \A d : d \notin c[home[base[k]]][n]
      BY <1>1, <1>5, <2>2, <2>3
    <2> QED
      BY <2>4
  <1>20. ContentWell(s, c, ms, base, home)
    BY <1>16, <1>17, <1>18, <1>19 DEF ContentWell
  <1> QED
    BY <1>1, <1>2, <1>7, <1>8, <1>10, <1>20 DEF WalkWell, Sized

\* The innermost statement is left, with the scopes and the block it pushed.
Pops(s, b, ns, t, c, ms) ==
    /\ Len(t) = Len(s) - ns[Len(ns)].pushed /\ Len(ms) = Len(ns) - 1
    /\ Len(c) = IF ns[Len(ns)].pushed = 0 THEN Len(b) ELSE Len(b) - 1
    /\ \A i \in 1..Len(t) : t[i] = s[i]
    /\ \A j \in 1..Len(c) : c[j] = b[j]
    /\ \A k \in 1..Len(ms) : ms[k] = ns[k]

BaseBelow(base, l) == [k \in 0..l |-> base[k]]
HomeBelow(home, top) == [i \in 2..top |-> home[i]]

\* The walk leaves the innermost statement.
LEMMA Popped ==
    ASSUME NEW s, NEW b, NEW ns, NEW off, NEW base, NEW home, WalkWell(s, b, ns, off, base, home), Len(ns) # 0,
           ns[Len(ns)].pending = {}, NEW t, NEW c, NEW ms, Pops(s, b, ns, t, c, ms)
    PROVE  WalkWell(t, c, ms, off, BaseBelow(base, Len(ms)), HomeBelow(home, Len(t)))
  <1>1. PICK bases : bases = [k \in 0..Len(ms) |-> base[k]]
    OBVIOUS
  <1>2. PICK homes : homes = [i \in 2..Len(t) |-> home[i]]
    OBVIOUS
  <1>3. PICK top : top = ns[Len(ns)]
    OBVIOUS
  <1>4. Len(s) \in Nat /\ Len(b) \in Nat \ {0} /\ Len(ns) \in Nat \ {0} /\ off \in Nat
    BY DEF WalkWell, Sized
  <1>5. NodesWell(s, ns, base) /\ HomesWell(s, Len(b), home) /\ AllEarlier(s, b, ns, off) /\ ContentWell(s, b, ns, base, home)
    BY DEF WalkWell
  <1>6. 2 <= Len(s) /\ base[Len(ns)] = Len(s) /\ base[0] = 1 /\ home[2] = 1 /\ home[Len(s)] = Len(b)
    BY <1>4, <1>5 DEF NodesWell, BaseWell, HomesWell, Ends
  <1>7. 1 \in 1..Len(ns) /\ Len(ns) \in 1..Len(ns) /\ Len(ns) \in 0..Len(ns) /\ 1 \in 0..Len(ns)
        /\ Len(ns) - 1 \in 0..Len(ns)
    BY <1>4
  <1>8. NodeWell(s, top, Len(ns) = 1, Len(s)) /\ NodeWell(s, ns[1], TRUE, base[1])
    <2>1. (1 = 1) = TRUE
      OBVIOUS
    <2> QED
      BY <1>3, <1>5, <1>6, <1>7, <2>1 DEF NodesWell
  <1>9. ns[1].pushed = 1 /\ base[1] = 2
    BY <1>5, <1>6, <1>7, <1>8 DEF NodesWell, NodeWell
  <1>10. /\ top.pushed \in {0, 1, 2}
         /\ top.pushed = 1 => s[Len(s)].kind # "body"
         /\ top.pushed = 2 => s[Len(s)].kind = "body" /\ s[Len(s) - 1].kind = "function"
         /\ Len(ns) = 1 => top.pushed = 1
    <2>1. \/ top.kind \in {"function", "block", "range", "ranged"}
          \/ top.kind = "literal" \/ top.kind \in {"define", "spec", "type", "label"}
      BY <1>8 DEF NodeWell, StatementKinds
    <2>2. CASE top.kind \in {"function", "block", "range", "ranged"}
      BY <1>8, <2>2 DEF NodeWell
    <2>3. CASE top.kind = "literal"
      BY <1>8, <2>3 DEF NodeWell
    <2>4. CASE top.kind \in {"define", "spec", "type", "label"}
      BY <1>8, <2>4 DEF NodeWell
    <2> QED
      BY <2>1, <2>2, <2>3, <2>4
  <1>11. /\ Len(t) = Len(s) - top.pushed /\ Len(ms) = Len(ns) - 1 /\ Len(ms) \in Nat
         /\ Len(c) = IF top.pushed = 0 THEN Len(b) ELSE Len(b) - 1
         /\ Len(c) \in Nat /\ Len(c) <= Len(b)
    <2>1. /\ Len(t) = Len(s) - top.pushed /\ Len(ms) = Len(ns) - 1
          /\ Len(c) = IF top.pushed = 0 THEN Len(b) ELSE Len(b) - 1
      BY <1>3 DEF Pops
    <2> QED
      BY <1>4, <2>1
  <1>12. /\ \A i \in 1..Len(t) : t[i] = s[i]
         /\ \A j \in 1..Len(c) : c[j] = b[j]
         /\ \A k \in 1..Len(ms) : ms[k] = ns[k]
    BY DEF Pops
  <1>13. base[Len(ms)] = Len(t) /\ Len(t) \in 1..Len(s)
    <2>1. base[Len(ns)] = base[Len(ns) - 1] + top.pushed /\ base[Len(ns) - 1] \in 1..Len(s)
      BY <1>3, <1>5, <1>7 DEF NodesWell, BaseWell
    <2> QED
      BY <1>4, <1>6, <1>10, <1>11, <2>1
  <1>14. Len(t) \in Nat /\ \A i \in 1..Len(t) : i \in 1..Len(s) /\ t[i].kind = s[i].kind
    BY <1>4, <1>12, <1>13
  <1>15. NodesWell(t, ms, bases)
    <2>1. ns[Len(ns)].pushed \in Nat /\ Len(t) = Len(s) - ns[Len(ns)].pushed /\ Len(ns) \in Nat \ {0}
      BY <1>3, <1>4, <1>10, <1>11
    <2>2. Len(ms) = Len(ns) - 1 /\ \A i \in 1..Len(t) : t[i].kind = s[i].kind
      BY <1>11, <1>14
    <2>3. NodesWell(t, ms, [k \in 0..Len(ms) |-> base[k]])
      <3>1. NodesWell(s, ns, base) /\ Len(s) \in Nat /\ \A k \in 1..Len(ms) : ms[k] = ns[k]
        BY <1>4, <1>5, <1>12
      <3> QED
        BY <2>1, <2>2, <3>1, NodesPopped
    <2> QED
      BY <1>1, <2>3
  <1>16. HomesWell(t, Len(c), homes)
    <2>1. CASE top.pushed = 0
      <3>1. Len(t) = Len(s) /\ Len(c) = Len(b)
        BY <1>4, <1>11, <2>1
      <3>2. homes = home
        BY <1>2, <1>5, <3>1 DEF HomesWell, Ends
      <3>3. \A i \in 1..Len(s) : t[i].kind = s[i].kind
        BY <1>14, <3>1
      <3> QED
        BY <1>4, <1>5, <3>1, <3>2, <3>3, HomesAlike
    <2>2. CASE top.pushed # 0
      <3>1. Len(c) = Len(b) - 1 /\ Len(b) \in Nat /\ Len(b) > 0
        BY <1>4, <1>11, <2>2
      <3>2. \/ Len(t) = Len(s) - 1 /\ s[Len(s)].kind # "body"
            \/ Len(t) = Len(s) - 2 /\ s[Len(s)].kind = "body"
        BY <1>10, <1>11, <2>2
      <3>3. \A i \in 1..Len(t) : t[i].kind = s[i].kind
        BY <1>14
      <3> QED
        BY <1>2, <1>4, <1>5, <1>14, <3>1, <3>2, <3>3, HomesPopped
    <2> QED
      BY <2>1, <2>2
  <1>17. Len(ms) = 0 <=> Len(c) = 0
    <2>1. ASSUME Len(ms) = 0 PROVE Len(c) = 0
      <3>1. Len(ns) = 1
        BY <1>4, <1>11, <2>1
      <3>2. Len(s) = 2 /\ top.pushed = 1
        BY <1>6, <1>9, <1>10, <3>1
      <3>3. Len(b) = 1
        BY <1>6, <3>2
      <3> QED
        BY <1>11, <3>2, <3>3
    <2>2. ASSUME Len(c) = 0, Len(ms) # 0 PROVE FALSE
      <3>1. Len(t) = 1
        BY <1>16, <2>2 DEF HomesWell, Ends
      <3>2. 1 <= Len(ms) /\ Len(ms) \in 0..Len(ns)
        BY <1>4, <1>11, <2>2
      <3>3. base[1] <= base[Len(ms)]
        BY <1>5, <1>7, <3>2 DEF NodesWell, Rising
      <3> QED
        BY <1>9, <1>13, <3>1, <3>3
    <2> QED
      BY <2>1, <2>2
  <1>18. \A k \in 1..Len(ns) : k \in 1..Len(ms) \/ k = Len(ns)
    BY <1>4, <1>11
  <1>19. \A k \in 1..Len(ms) : k \in 1..Len(ns) /\ k # Len(ns)
    BY <1>4, <1>11
  <1>20. \A n, d : IsPending(ns, n, d) <=> IsPending(ms, n, d)
    BY <1>12, <1>18, <1>19 DEF IsPending
  <1>21. \A j \in 1..Len(c) : j \in 1..Len(b)
    BY <1>4, <1>11
  <1>22. \A n \in Names : \A d : IsKnown(c, ms, n, d) => IsKnown(b, ns, n, d)
    BY <1>12, <1>20, <1>21 DEF IsKnown
  <1>23. ASSUME NEW n \in Names, NEW i \in 1..Len(t)
         PROVE  Decls(t, i, n) = Decls(s, i, n) /\ (Stray(s, b, ns, i, n) => Stray(t, c, ms, i, n))
    <2>1. Decls(t, i, n) = Decls(s, i, n)
      BY <1>12 DEF Decls
    <2> QED
      BY <1>22, <2>1 DEF Stray
  <1>24. AllEarlier(t, c, ms, off)
    <2>1. \A i \in 1..Len(t) : \A n \in Names : \A d \in Decls(t, i, n) : Earlier(d, n, off)
      BY <1>5, <1>14, <1>23 DEF AllEarlier
    <2>2. \A j \in 1..Len(c) : \A n \in Names : \A d \in c[j][n] : Earlier(d, n, off)
      BY <1>5, <1>12, <1>21 DEF AllEarlier
    <2>3. \A k \in 1..Len(ms) : \A d \in ms[k].pending : d.name \in Names /\ Earlier(d, d.name, off)
      BY <1>5, <1>12, <1>19 DEF AllEarlier
    <2> QED
      BY <2>1, <2>2, <2>3 DEF AllEarlier
  <1>25. ASSUME NEW i \in 2..Len(t), NEW n \in Names PROVE ScopeWell(t, c, ms, homes, i, n)
    <2>1. i \in 1..Len(t) /\ i - 1 \in 1..Len(t) /\ i \in 2..Len(s)
      BY <1>4, <1>13
    <2>2. homes[i] = home[i] /\ home[i] \in 1..Len(c)
      <3>1. homes[i] = home[i]
        BY <1>2
      <3>2. homes[i] \in 1..Len(c)
        BY <1>16 DEF HomesWell, Ends
      <3> QED
        BY <3>1, <3>2
    <2>3. ScopeWell(s, b, ns, home, i, n)
      BY <1>5, <2>1 DEF ContentWell
    <2>4. t[i].kind = s[i].kind /\ c[home[i]][n] = b[home[i]][n]
      BY <1>12, <1>14, <2>1, <2>2
    <2>5. /\ Decls(t, i, n) = Decls(s, i, n) /\ Decls(t, i - 1, n) = Decls(s, i - 1, n)
          /\ Stray(s, b, ns, i, n) => Stray(t, c, ms, i, n)
          /\ Stray(s, b, ns, i - 1, n) => Stray(t, c, ms, i - 1, n)
      BY <1>23, <2>1
    <2>6. i = Len(t) \/ t[i + 1].kind # "body" => i = Len(s) \/ s[i + 1].kind # "body"
      <3>1. CASE i = Len(t)
        <4>1. CASE top.pushed = 0
          BY <1>4, <1>11, <3>1, <4>1
        <4>2. CASE top.pushed = 1
          <5>1. i + 1 = Len(s)
            BY <1>4, <1>11, <3>1, <4>2
          <5> QED
            BY <1>10, <4>2, <5>1
        <4>3. CASE top.pushed = 2
          <5>1. i + 1 = Len(s) - 1
            BY <1>4, <1>11, <3>1, <4>3
          <5> QED
            BY <1>10, <4>3, <5>1
        <4> QED
          BY <1>10, <4>1, <4>2, <4>3
      <3>2. CASE i # Len(t)
        <4>1. i + 1 \in 1..Len(t)
          BY <1>14, <3>2
        <4> QED
          BY <1>14, <3>2, <4>1
      <3> QED
        BY <3>1, <3>2
    <2>7. \A j \in 1..Len(c) : \A d \in c[j][n] : d \in Decls(s, i, n) => j \in 1..Len(b) /\ d \in b[j][n]
      BY <1>12, <1>21
    <2>8. \A d \in Decls(s, i, n) : IsPending(ns, n, d) => IsPending(ms, n, d)
      BY <1>20
    <2> QED
      BY <2>2, <2>3, <2>4, <2>5, <2>6, <2>7, <2>8, ScopeStays
  <1>26. ASSUME NEW k \in 1..Len(ms), NEW d \in ms[k].pending PROVE PendingWell(t, c, ms, bases[k], d)
    <2>1. k \in 1..Len(ns) /\ k # Len(ns) /\ ms[k] = ns[k] /\ k \in 0..Len(ms) /\ bases[k] = base[k]
      BY <1>1, <1>11, <1>12, <1>19
    <2>2. PendingWell(s, b, ns, base[k], d) /\ d.name \in Names
      BY <1>5, <2>1 DEF ContentWell, AllEarlier
    <2>3. base[k] \in 1..Len(t)
      <3>1. bases[k] \in 1..Len(t)
        BY <1>15, <2>1 DEF NodesWell, BaseWell
      <3> QED
        BY <2>1, <3>1
    <2>4. /\ t[base[k]].kind = s[base[k]].kind
          /\ Decls(t, base[k], d.name) = Decls(s, base[k], d.name)
          /\ Stray(s, b, ns, base[k], d.name) => Stray(t, c, ms, base[k], d.name)
      BY <1>14, <1>23, <2>2, <2>3
    <2>5. s[base[k]].kind = "body" /\ Stray(s, b, ns, base[k] - 1, d.name) => Stray(t, c, ms, base[k] - 1, d.name)
      <3>1. s[base[k]].kind = "body" => base[k] # 1
        BY <1>5 DEF HomesWell, Ends
      <3>2. s[base[k]].kind = "body" => base[k] - 1 \in 1..Len(t)
        BY <1>14, <2>3, <3>1
      <3> QED
        BY <1>23, <2>2, <3>2
    <2>6. OnlyIn(t, base[k], d)
      BY <1>14, <1>23, <2>2 DEF PendingWell, OnlyIn
    <2> QED
      BY <2>1, <2>2, <2>4, <2>5, <2>6 DEF PendingWell
  <1>27. \A k \in 1..Len(ms) : ms[k].kind \notin {"define", "spec", "range"} => ms[k].pending = {}
    BY <1>5, <1>12, <1>19 DEF ContentWell
  <1>28. ASSUME NEW k \in 1..Len(ms), ms[k].kind = "range", NEW n \in Names PROVE c[homes[bases[k]]][n] = {}
    <2>1. k \in 1..Len(ns) /\ k # Len(ns) /\ ns[k].kind = "range" /\ ns[k].kind \in HeadKinds /\ bases[k] = base[k]
      <3>1. k \in 0..Len(ms)
        BY <1>11
      <3> QED
        BY <1>1, <1>12, <1>19, <1>28, <3>1 DEF HeadKinds
    <2>2. base[k] \in 2..Len(s) - 2
      <3>1. Len(b) \in Nat /\ Len(ns) \in Nat
        BY <1>4
      <3> QED
        BY <1>4, <1>5, <2>1, <3>1, HeadBelow
    <2>3. base[k] \in 2..Len(t)
      BY <1>4, <1>10, <1>11, <2>2
    <2>4. homes[base[k]] = home[base[k]] /\ homes[base[k]] \in 1..Len(c)
      BY <1>2, <1>16, <2>3 DEF HomesWell, Ends
    <2>5. b[home[base[k]]][n] = {}
      BY <1>5, <2>1 DEF ContentWell
    <2> QED
      BY <1>12, <2>1, <2>4, <2>5
  <1>29. ContentWell(t, c, ms, bases, homes)
    BY <1>25, <1>26, <1>27, <1>28 DEF ContentWell
  <1>30. Sized(t, c, ms, off)
    BY <1>4, <1>11, <1>14 DEF Sized
  <1>31. WalkWell(t, c, ms, off, bases, homes)
    BY <1>15, <1>16, <1>17, <1>24, <1>29, <1>30 DEF WalkWell
  <1> QED
    BY <1>1, <1>2, <1>31 DEF BaseBelow, HomeBelow

\* Between functions there is the file's scope only; a function has its own.
LEMMA Between ==
    ASSUME NEW s, NEW off \in Nat, Len(s) = 1, s[1].kind = "file",
           \A n \in Names : \A d \in Decls(s, 1, n) : Earlier(d, n, off)
    PROVE  WalkWell(s, <<>>, <<>>, off, [k \in 0..0 |-> 1], [i \in 2..1 |-> 1])
  <1>1. PICK base : base = [k \in 0..0 |-> 1]
    OBVIOUS
  <1>2. PICK home : home = [i \in 2..1 |-> 1]
    OBVIOUS
  <1>3. PICK b : b = <<>>
    OBVIOUS
  <1>4. Len(b) = 0 /\ 1..0 = {} /\ 2..1 = {} /\ 0..0 = {0} /\ 3..1 = {} /\ 1..1 = {1}
    BY <1>3
  <1>5. NodesWell(s, b, base)
    <2>1. base \in [0..0 -> 1..1] /\ base[0] = 1
      BY <1>1, <1>4
    <2>2. BaseWell(s, b, base) /\ Rising(b, base)
      BY <1>4, <2>1 DEF BaseWell, Rising
    <2> QED
      BY <1>4, <2>2 DEF NodesWell
  <1>6. HomesWell(s, Len(b), home)
    <2>1. home \in [2..1 -> 1..0]
      BY <1>2, <1>4
    <2>2. Ends(s, Len(b), home)
      BY <1>4, <2>1 DEF Ends
    <2>3. Bodies(s, home) /\ Steps(s, home) /\ Onto(s, Len(b), home) /\ Ordered(s, home)
      BY <1>4 DEF Bodies, Steps, Onto, Ordered
    <2> QED
      BY <1>4, <2>2, <2>3 DEF HomesWell
  <1>7. AllEarlier(s, b, b, off)
    BY <1>4 DEF AllEarlier
  <1>8. ContentWell(s, b, b, base, home)
    BY <1>4 DEF ContentWell
  <1>9. Sized(s, b, b, off)
    BY <1>4 DEF Sized
  <1> QED
    BY <1>1, <1>2, <1>3, <1>5, <1>6, <1>7, <1>8, <1>9 DEF WalkWell

\* The walk enters a function from the file's scope.
LEMMA FunctionEntered ==
    ASSUME NEW t, NEW c, NEW ms, NEW off \in Nat, Len(t) = 2, Len(c) = 1, Len(ms) = 1,
           t[1].kind = "file", t[2].kind = "function",
           ms[1].kind = "function", ms[1].pushed = 1, ms[1].pending = {},
           \A n \in Names : \A d \in Decls(t, 1, n) : Earlier(d, n, off),
           \A n \in Names : \A d \in Decls(t, 2, n) : Earlier(d, n, off),
           \A n \in Names : c[1][n] = Decls(t, 2, n)
    PROVE  WalkWell(t, c, ms, off, [k \in 0..1 |-> k + 1], [i \in 2..2 |-> 1])
  <1>1. PICK base : base = [k \in 0..1 |-> k + 1]
    OBVIOUS
  <1>2. PICK home : home = [i \in 2..2 |-> 1]
    OBVIOUS
  <1>3. 1..1 = {1} /\ 2..2 = {2} /\ 3..2 = {} /\ 0..1 = {0, 1} /\ 1..2 = {1, 2}
    OBVIOUS
  <1>4. base \in [0..1 -> 1..2] /\ base[0] = 1 /\ base[1] = 2
    BY <1>1, <1>3
  <1>5. home \in [2..2 -> 1..1] /\ home[2] = 1
    BY <1>2, <1>3
  <1>6. NodesWell(t, ms, base)
    <2>1. BaseWell(t, ms, base) /\ Rising(ms, base)
      BY <1>3, <1>4 DEF BaseWell, Rising
    <2>2. NodeWell(t, ms[1], TRUE, base[1])
      BY <1>4 DEF NodeWell, StatementKinds
    <2>3. \A k \in 1..Len(ms) : NodeWell(t, ms[k], k = 1, base[k])
      <3>1. (1 = 1) = TRUE
        OBVIOUS
      <3> QED
        BY <1>3, <2>2, <3>1
    <2>4. \A k \in 1..Len(ms) : base[k] = base[k - 1] + ms[k].pushed
      <3>1. base[1] = base[1 - 1] + ms[1].pushed
        BY <1>4
      <3> QED
        BY <1>3, <3>1
    <2>5. \A k \in 1..Len(ms) : k < Len(ms) /\ ms[k].kind \in HeadKinds => ms[k + 1].kind = "literal"
      BY <1>3
    <2> QED
      BY <2>1, <2>3, <2>4, <2>5 DEF NodesWell
  <1>7. HomesWell(t, Len(c), home)
    <2>1. Ends(t, Len(c), home)
      BY <1>5 DEF Ends
    <2>2. Bodies(t, home)
      BY <1>3 DEF Bodies
    <2>3. Steps(t, home)
      BY <1>3 DEF Steps
    <2>4. Onto(t, Len(c), home)
      BY <1>3, <1>5 DEF Onto
    <2>5. Ordered(t, home)
      BY <1>3 DEF Ordered
    <2> QED
      BY <1>3, <2>1, <2>2, <2>3, <2>4, <2>5 DEF HomesWell
  <1>8. AllEarlier(t, c, ms, off)
    BY <1>3 DEF AllEarlier
  <1>9. ContentWell(t, c, ms, base, home)
    <2>1. \A n \in Names : ScopeWell(t, c, ms, home, 2, n)
      BY <1>3, <1>5 DEF ScopeWell, BlockScope, BodyScope, FunctionScope, OwnBlock
    <2> QED
      BY <1>3, <2>1 DEF ContentWell
  <1>10. Sized(t, c, ms, off)
    BY DEF Sized
  <1>11. WalkWell(t, c, ms, off, base, home)
    BY <1>6, <1>7, <1>8, <1>9, <1>10 DEF WalkWell
  <1> QED
    BY <1>1, <1>2, <1>11

\* A declaration adds one mark for each of the names, and nothing else.
LEMMA ScopeDeclared ==
    ASSUME NEW scope \in ScopeSet, NEW names \in SUBSET Names, NEW at \in Nat, NEW more, more = Declared(scope, names, at)
    PROVE  /\ more \in ScopeSet /\ more.kind = scope.kind
           /\ \A n \in Names : \A d :
                d \in more.declarations[n] <=> d \in scope.declarations[n] \/ (n \in names /\ d = Mark(n, at))
  <1>1. PICK declarations : declarations = [n \in Names |->
                IF n \in names THEN scope.declarations[n] \cup {[name |-> n, at |-> at]} ELSE scope.declarations[n]]
    OBVIOUS
  <1>2. declarations \in BlockSet
    <2>1. \A n \in Names : [name |-> n, at |-> at] \in DeclarationSet
      BY DEF DeclarationSet
    <2>2. scope.declarations \in BlockSet
      BY DEF ScopeSet
    <2> QED
      BY <1>1, <2>1, <2>2 DEF BlockSet
  <1>3. more = [kind |-> scope.kind, declarations |-> declarations]
    BY <1>1 DEF Declared, ScopeSet
  <1>4. more \in ScopeSet
    BY <1>2, <1>3 DEF ScopeSet
  <1>5. \A n \in Names : \A d : d \in declarations[n] <=> d \in scope.declarations[n] \/ (n \in names /\ d = Mark(n, at))
    BY <1>1 DEF Mark
  <1> QED
    BY <1>3, <1>4, <1>5

\* A new scope declares nothing.
LEMMA ScopeNew ==
    ASSUME NEW kind \in {"file", "function", "block", "body"}, NEW scope, scope = Scope(kind)
    PROVE  /\ scope \in ScopeSet /\ scope.kind = kind /\ \A n \in Names : scope.declarations[n] = {}
           /\ NoDeclarations \in BlockSet /\ \A n \in Names : NoDeclarations[n] = {}
  <1>1. NoDeclarations \in BlockSet /\ \A n \in Names : NoDeclarations[n] = {}
    BY DEF NoDeclarations, BlockSet
  <1> QED
    BY <1>1 DEF Scope, ScopeSet

\* A block declares its names at one place.
LEMMA BlockNew ==
    ASSUME NEW names \in SUBSET Names, offset \in Nat
    PROVE  /\ Block(names) \in BlockSet
           /\ \A n \in Names : \A d : d \in Block(names)[n] <=> n \in names /\ d = Mark(n, offset)
  BY DEF Block, BlockSet, DeclarationSet, Mark

WalkSteady ==
    /\ WalkTyped(scopes, blocks, nodes, offset)
    /\ \E base, home : WalkWell(scopes, blocks, nodes, offset, base, home)

\* The sizes of what the walk is made of.
LEMMA WalkSizes ==
    ASSUME WalkSteady
    PROVE  /\ scopes \in Seq(ScopeSet) /\ blocks \in Seq(BlockSet) /\ nodes \in Seq(NodeSet) /\ offset \in Nat
           /\ Len(scopes) \in Nat \ {0} /\ Len(blocks) \in Nat /\ Len(nodes) \in Nat
           /\ scopes[1] \in ScopeSet /\ scopes[1].kind = "file"
           /\ ~InFunction => Len(scopes) = 1 /\ Len(nodes) = 0 /\ Len(blocks) = 0
           /\ InFunction => /\ 2 <= Len(scopes) /\ Len(blocks) # 0 /\ Len(nodes) # 0
                            /\ scopes[Len(scopes)] \in ScopeSet /\ blocks[Len(blocks)] \in BlockSet
                            /\ nodes[Len(nodes)] \in NodeSet
  <1>1. scopes \in Seq(ScopeSet) /\ blocks \in Seq(BlockSet) /\ nodes \in Seq(NodeSet) /\ offset \in Nat
    BY DEF WalkSteady, WalkTyped
  <1>2. PICK base, home : WalkWell(scopes, blocks, nodes, offset, base, home)
    BY DEF WalkSteady
  <1>3. Len(blocks) \in Nat /\ Len(nodes) \in Nat /\ Len(scopes) \in Nat /\ (blocks = <<>> <=> Len(blocks) = 0)
    BY <1>1
  <1>4. Len(nodes) = 0 <=> Len(blocks) = 0
    BY <1>2 DEF WalkWell
  <1>5. /\ scopes[1].kind = "file" /\ (Len(blocks) = 0 => Len(scopes) = 1)
        /\ Len(blocks) # 0 => 2 <= Len(scopes)
    BY <1>2 DEF WalkWell, HomesWell, Ends
  <1>6. Len(scopes) # 0
    BY <1>5
  <1>7. scopes[1] \in ScopeSet /\ scopes[Len(scopes)] \in ScopeSet
    <2>1. 1 \in 1..Len(scopes) /\ Len(scopes) \in 1..Len(scopes)
      BY <1>3, <1>6
    <2> QED
      BY <1>1, <2>1
  <1>8. InFunction => blocks[Len(blocks)] \in BlockSet /\ nodes[Len(nodes)] \in NodeSet
    BY <1>1, <1>3, <1>4 DEF InFunction
  <1> QED
    BY <1>1, <1>3, <1>4, <1>5, <1>6, <1>7, <1>8 DEF InFunction

\* The walk of a file begins steady.
LEMMA WalkBegins == ScopesInit => WalkSteady
  <1> SUFFICES ASSUME ScopesInit PROVE WalkSteady
    OBVIOUS
  <1>1. scopes = <<Scope("file")>> /\ blocks = <<>> /\ nodes = <<>> /\ offset = 0
    BY DEF ScopesInit
  <1>2. PICK scope : scope = Scope("file")
    OBVIOUS
  <1>3. scope \in ScopeSet /\ scope.kind = "file" /\ \A n \in Names : scope.declarations[n] = {}
    BY <1>2, ScopeNew
  <1>4. Len(scopes) = 1 /\ scopes[1] = scope /\ scopes \in Seq(ScopeSet)
    BY <1>1, <1>2, <1>3
  <1>5. WalkTyped(scopes, blocks, nodes, offset)
    BY <1>1, <1>4 DEF WalkTyped
  <1>6. WalkWell(scopes, <<>>, <<>>, offset, [k \in 0..0 |-> 1], [i \in 2..1 |-> 1])
    <2>1. \A n \in Names : \A d \in Decls(scopes, 1, n) : Earlier(d, n, offset)
      BY <1>3, <1>4 DEF Decls
    <2>2. offset \in Nat /\ scopes[1].kind = "file"
      BY <1>1, <1>3, <1>4
    <2> QED
      BY <1>4, <2>1, <2>2, Between
  <1> QED
    BY <1>1, <1>5, <1>6 DEF WalkSteady

-----------------------------------------------------------------------------
(* The actions *)

\* A function, with its receiver and parameters.
LEMMA WalkFunction ==
    ASSUME WalkSteady, NEW method \in SUBSET Names, NEW parameters \in SUBSET Names, Function(method, parameters)
    PROVE  WalkSteady'
  <1>1. /\ scopes' = <<Declared(scopes[1], method, offset), Declared(Scope("function"), parameters, offset)>>
        /\ blocks' = <<Block(parameters)>> /\ nodes' = <<Node("function", 1, {})>> /\ offset' = offset + 1 /\ ~InFunction
    BY DEF Function
  <1>2. offset \in Nat /\ scopes[1] \in ScopeSet /\ scopes[1].kind = "file" /\ Len(scopes) = 1
    BY <1>1, WalkSizes
  <1>3. PICK first, second : first = Declared(scopes[1], method, offset)
                             /\ second = Declared(Scope("function"), parameters, offset)
    OBVIOUS
  <1>4. /\ first \in ScopeSet /\ first.kind = "file"
        /\ \A n \in Names : \A d :
             d \in first.declarations[n] <=> d \in scopes[1].declarations[n] \/ (n \in method /\ d = Mark(n, offset))
    <2>1. PICK old : old = scopes[1]
      OBVIOUS
    <2>2. first = Declared(old, method, offset) /\ old \in ScopeSet
      BY <1>2, <1>3, <2>1
    <2>3. /\ first \in ScopeSet /\ first.kind = old.kind
          /\ \A n \in Names : \A d :
               d \in first.declarations[n] <=> d \in old.declarations[n] \/ (n \in method /\ d = Mark(n, offset))
      BY <1>2, <2>2, ScopeDeclared
    <2> QED
      BY <1>2, <2>1, <2>3
  <1>5. PICK empty : empty = Scope("function")
    OBVIOUS
  <1>6. empty \in ScopeSet /\ empty.kind = "function" /\ \A n \in Names : empty.declarations[n] = {}
    BY <1>5, ScopeNew
  <1>7. /\ second \in ScopeSet /\ second.kind = "function"
        /\ \A n \in Names : \A d : d \in second.declarations[n] <=> n \in parameters /\ d = Mark(n, offset)
    <2>1. /\ second \in ScopeSet /\ second.kind = "function"
          /\ \A n \in Names : \A d :
               d \in second.declarations[n] <=> d \in empty.declarations[n] \/ (n \in parameters /\ d = Mark(n, offset))
      BY <1>2, <1>3, <1>5, <1>6, ScopeDeclared
    <2> QED
      BY <1>6, <2>1
  <1>8. PICK block, node : block = Block(parameters) /\ node = Node("function", 1, {})
    OBVIOUS
  <1>9. /\ block \in BlockSet
        /\ \A n \in Names : \A d : d \in block[n] <=> n \in parameters /\ d = Mark(n, offset)
    BY <1>2, <1>8, BlockNew
  <1>10. node.kind = "function" /\ node.pushed = 1 /\ node.pending = {} /\ node \in NodeSet
    BY <1>8 DEF Node, NodeSet, StatementKinds
  <1>11. scopes' = <<first, second>> /\ blocks' = <<block>> /\ nodes' = <<node>>
    BY <1>1, <1>3, <1>8
  <1>12. /\ Len(scopes') = 2 /\ scopes'[1] = first /\ scopes'[2] = second
         /\ Len(blocks') = 1 /\ blocks'[1] = block /\ Len(nodes') = 1 /\ nodes'[1] = node
    BY <1>11
  <1>13. WalkTyped(scopes', blocks', nodes', offset')
    <2>1. scopes' \in Seq(ScopeSet)
      BY <1>4, <1>7, <1>11
    <2>2. blocks' \in Seq(BlockSet) /\ nodes' \in Seq(NodeSet)
      BY <1>9, <1>10, <1>11
    <2>3. offset' \in Nat
      BY <1>1, <1>2
    <2> QED
      BY <2>1, <2>2, <2>3 DEF WalkTyped
  <1>14. offset' \in Nat /\ offset < offset'
    BY <1>1, <1>2
  <1>15. \A n \in Names : \A d \in Decls(scopes', 2, n) : Earlier(d, n, offset')
    BY <1>2, <1>7, <1>12, <1>14 DEF Decls, Earlier, Mark
  <1>16. \A n \in Names : \A d \in Decls(scopes', 1, n) : Earlier(d, n, offset')
    <2>1. PICK base, home : WalkWell(scopes, blocks, nodes, offset, base, home)
      BY DEF WalkSteady
    <2>2. \A n \in Names : \A d \in scopes[1].declarations[n] : Earlier(d, n, offset)
      <3>1. 1 \in 1..Len(scopes)
        BY <1>2
      <3> QED
        BY <2>1, <3>1 DEF WalkWell, AllEarlier, Decls
    <2> QED
      BY <1>2, <1>4, <1>12, <1>14, <2>2 DEF Decls, Earlier, Mark
  <1>17. \A n \in Names : blocks'[1][n] = Decls(scopes', 2, n)
    BY <1>7, <1>9, <1>12 DEF Decls
  <1>18. WalkWell(scopes', blocks', nodes', offset', [k \in 0..1 |-> k + 1], [i \in 2..2 |-> 1])
    <2>1. scopes'[1].kind = "file" /\ scopes'[2].kind = "function"
      BY <1>4, <1>7, <1>12
    <2>2. nodes'[1].kind = "function" /\ nodes'[1].pushed = 1 /\ nodes'[1].pending = {}
      BY <1>10, <1>12
    <2> QED
      BY <1>12, <1>14, <1>15, <1>16, <1>17, <2>1, <2>2, FunctionEntered
  <1> QED
    BY <1>13, <1>18 DEF WalkSteady

\* Statements with scopes of their own.
LEMMA WalkPushed ==
    ASSUME WalkSteady, InFunction, NEW node \in NodeSet, Last(nodes).kind \in HeadKinds => node.kind = "literal",
           NEW more \in Seq(ScopeSet), NEW block \in BlockSet, Opens(node, more, block, offset),
           offset' \in {offset, offset + 1},
           offset' = offset + 1 \/ Undeclared(more),
           nodes' = Append(nodes, node), scopes' = scopes \o more, blocks' = Append(blocks, block)
    PROVE  WalkSteady'
  <1>1. PICK base, home : WalkWell(scopes, blocks, nodes, offset, base, home)
    BY DEF WalkSteady
  <1>2. /\ scopes \in Seq(ScopeSet) /\ blocks \in Seq(BlockSet) /\ nodes \in Seq(NodeSet) /\ offset \in Nat
        /\ Len(nodes) # 0 /\ Len(nodes) \in Nat /\ Len(scopes) \in Nat /\ Len(blocks) \in Nat
    BY WalkSizes
  <1>3. scopes' \in Seq(ScopeSet) /\ blocks' \in Seq(BlockSet) /\ nodes' \in Seq(NodeSet) /\ offset' \in Nat
    BY <1>2
  <1>4. Pushes(scopes, blocks, nodes, scopes', blocks', nodes', node, more, block)
    <2>1. Len(scopes') = Len(scopes) + Len(more) /\ Len(blocks') = Len(blocks) + 1 /\ Len(nodes') = Len(nodes) + 1
      BY <1>2
    <2>2. \A i \in 1..Len(scopes) : scopes'[i] = scopes[i]
      BY <1>2
    <2>3. \A i \in 1..Len(more) : scopes'[Len(scopes) + i] = more[i]
      BY <1>2
    <2>4. (\A j \in 1..Len(blocks) : blocks'[j] = blocks[j]) /\ blocks'[Len(blocks) + 1] = block
      BY <1>2
    <2>5. (\A k \in 1..Len(nodes) : nodes'[k] = nodes[k]) /\ nodes'[Len(nodes) + 1] = node
      BY <1>2
    <2> QED
      BY <2>1, <2>2, <2>3, <2>4, <2>5 DEF Pushes
  <1>5. nodes[Len(nodes)].kind \in HeadKinds => node.kind = "literal"
    BY DEF Last
  <1>6. WalkWell(scopes', blocks', nodes', offset', Base(base, Len(nodes), Len(scopes')), Home(home, Len(scopes), Len(scopes'), Len(blocks)))
    BY <1>1, <1>2, <1>4, <1>5, Pushed
  <1> QED
    BY <1>3, <1>6 DEF WalkSteady, WalkTyped

\* A block, a case or a branch.
LEMMA WalkOpenBlock == ASSUME WalkSteady, OpenBlock PROVE WalkSteady'
  <1>1. PICK scope, node : scope = Scope("block") /\ node = Node("block", 1, {})
    OBVIOUS
  <1>2. scope \in ScopeSet /\ scope.kind = "block" /\ \A n \in Names : scope.declarations[n] = {}
    BY <1>1, ScopeNew
  <1>3. NoDeclarations \in BlockSet /\ \A n \in Names : NoDeclarations[n] = {}
    BY ScopeNew
  <1>4. node \in NodeSet /\ node.kind = "block" /\ node.pushed = 1 /\ node.pending = {}
    BY <1>1 DEF Node, NodeSet, StatementKinds
  <1>5. InFunction /\ Last(nodes).kind \notin HeadKinds /\ offset' = offset
        /\ nodes' = Append(nodes, node) /\ scopes' = Append(scopes, scope) /\ blocks' = Append(blocks, NoDeclarations)
    BY <1>1 DEF OpenBlock, Statements, HeadKinds, Enter
  <1>6. PICK more : more = <<scope>>
    OBVIOUS
  <1>7. more \in Seq(ScopeSet) /\ Len(more) = 1 /\ more[1] = scope /\ 1..1 = {1}
    BY <1>2, <1>6
  <1>8. scopes' = scopes \o more
    BY <1>2, <1>5, <1>6, WalkSizes, AppendIsConcat
  <1>9. Opens(node, more, NoDeclarations, offset)
    BY <1>2, <1>3, <1>4, <1>7 DEF Opens
  <1>10. Undeclared(more)
    BY <1>2, <1>7 DEF Undeclared
  <1> QED
    BY <1>3, <1>4, <1>5, <1>7, <1>8, <1>9, <1>10, WalkPushed

\* A function literal.
LEMMA WalkLiteral == ASSUME WalkSteady, NEW parameters \in SUBSET Names, Literal(parameters) PROVE WalkSteady'
  <1>1. PICK empty, body, node, block :
          empty = Scope("function") /\ body = Scope("body") /\ node = Node("literal", 2, {}) /\ block = Block(parameters)
    OBVIOUS
  <1>2. PICK scope : scope = Declared(empty, parameters, offset)
    OBVIOUS
  <1>3. offset \in Nat
    BY WalkSizes
  <1>4. empty \in ScopeSet /\ empty.kind = "function" /\ \A n \in Names : empty.declarations[n] = {}
    BY <1>1, ScopeNew
  <1>5. body \in ScopeSet /\ body.kind = "body" /\ \A n \in Names : body.declarations[n] = {}
    BY <1>1, ScopeNew
  <1>6. /\ scope \in ScopeSet /\ scope.kind = "function"
        /\ \A n \in Names : \A d : d \in scope.declarations[n] <=> n \in parameters /\ d = Mark(n, offset)
    <2>1. /\ scope \in ScopeSet /\ scope.kind = empty.kind
          /\ \A n \in Names : \A d :
               d \in scope.declarations[n] <=> d \in empty.declarations[n] \/ (n \in parameters /\ d = Mark(n, offset))
      BY <1>2, <1>3, <1>4, ScopeDeclared
    <2> QED
      BY <1>4, <2>1
  <1>7. block \in BlockSet /\ \A n \in Names : \A d : d \in block[n] <=> n \in parameters /\ d = Mark(n, offset)
    BY <1>1, <1>3, BlockNew
  <1>8. node \in NodeSet /\ node.kind = "literal" /\ node.pushed = 2 /\ node.pending = {}
    BY <1>1 DEF Node, NodeSet, StatementKinds
  <1>9. PICK more : more = <<scope, body>>
    OBVIOUS
  <1>10. more \in Seq(ScopeSet) /\ Len(more) = 2 /\ more[1] = scope /\ more[2] = body /\ 1..2 = {1, 2}
    BY <1>5, <1>6, <1>9
  <1>11. InFunction /\ offset' = offset + 1
         /\ nodes' = Append(nodes, node) /\ scopes' = scopes \o more /\ blocks' = Append(blocks, block)
    BY <1>1, <1>2, <1>9 DEF Literal, Expressions, Enter
  <1>12. Opens(node, more, block, offset)
    <2>1. \A n \in Names : block[n] = more[1].declarations[n] /\ more[2].declarations[n] = {}
      <3> SUFFICES ASSUME NEW n \in Names PROVE block[n] = scope.declarations[n] /\ body.declarations[n] = {}
        BY <1>10
      <3>1. \A d : d \in block[n] <=> d \in scope.declarations[n]
        BY <1>6, <1>7
      <3> QED
        BY <1>5, <3>1
    <2>2. \A i \in 1..Len(more) : \A n \in Names : \A d \in more[i].declarations[n] : d.name = n /\ d.at = offset
      BY <1>5, <1>6, <1>10 DEF Mark
    <2> QED
      BY <1>5, <1>6, <1>8, <1>10, <2>1, <2>2 DEF Opens
  <1> QED
    BY <1>7, <1>8, <1>10, <1>11, <1>12, WalkPushed

\* A range statement, whose variables are pending until its body.
LEMMA WalkRange == ASSUME WalkSteady, NEW names \in SUBSET Names, RangeStatement(names) PROVE WalkSteady'
  <1>1. PICK empty, node : empty = Scope("block") /\ node = Node("range", 1, {[name |-> n, at |-> offset] : n \in names})
    OBVIOUS
  <1>2. PICK scope : scope = Declared(empty, names, offset)
    OBVIOUS
  <1>3. offset \in Nat
    BY WalkSizes
  <1>4. empty \in ScopeSet /\ empty.kind = "block" /\ \A n \in Names : empty.declarations[n] = {}
    BY <1>1, ScopeNew
  <1>5. /\ scope \in ScopeSet /\ scope.kind = "block"
        /\ \A n \in Names : \A d : d \in scope.declarations[n] <=> n \in names /\ d = Mark(n, offset)
    <2>1. /\ scope \in ScopeSet /\ scope.kind = empty.kind
          /\ \A n \in Names : \A d :
               d \in scope.declarations[n] <=> d \in empty.declarations[n] \/ (n \in names /\ d = Mark(n, offset))
      BY <1>2, <1>3, <1>4, ScopeDeclared
    <2> QED
      BY <1>4, <2>1
  <1>6. NoDeclarations \in BlockSet /\ \A n \in Names : NoDeclarations[n] = {}
    BY ScopeNew
  <1>7. /\ node \in NodeSet /\ node.kind = "range" /\ node.pushed = 1
        /\ \A d : d \in node.pending <=> \E n \in names : d = Mark(n, offset)
    BY <1>1, <1>3 DEF Node, NodeSet, StatementKinds, DeclarationSet, Mark
  <1>8. PICK more : more = <<scope>>
    OBVIOUS
  <1>9. more \in Seq(ScopeSet) /\ Len(more) = 1 /\ more[1] = scope /\ 1..1 = {1}
    BY <1>5, <1>8
  <1>10. InFunction /\ Last(nodes).kind \notin HeadKinds /\ offset' = offset + 1
         /\ nodes' = Append(nodes, node) /\ scopes' = Append(scopes, scope) /\ blocks' = Append(blocks, NoDeclarations)
    BY <1>1, <1>2 DEF RangeStatement, Statements, HeadKinds, Enter
  <1>11. scopes' = scopes \o more
    BY <1>5, <1>8, <1>10, WalkSizes, AppendIsConcat
  <1>12. \A n : Mark(n, offset).name = n /\ Mark(n, offset).at = offset
    BY DEF Mark
  <1>13. Opens(node, more, NoDeclarations, offset)
    <2>1. \A n \in Names : \A d : d \in more[1].declarations[n] <=> d \in node.pending /\ d.name = n
      BY <1>5, <1>7, <1>9, <1>12
    <2>2. \A i \in 1..Len(more) : \A n \in Names : \A d \in more[i].declarations[n] : d.name = n /\ d.at = offset
      BY <1>5, <1>9, <1>12
    <2>3. \A d \in node.pending : d.name \in Names /\ d.at = offset
      BY <1>7, <1>12
    <2> QED
      BY <1>5, <1>6, <1>7, <1>9, <2>1, <2>2, <2>3 DEF Opens
  <1> QED
    BY <1>6, <1>7, <1>9, <1>10, <1>11, <1>13, WalkPushed

\* The greatest of some positions in a sequence.
LEMMA Greatest ==
    ASSUME NEW l \in Nat, NEW S \in SUBSET (1..l), S # {}
    PROVE  Max(S) \in S /\ \A i \in S : i <= Max(S)
  <1>1. PICK T : T = {k \in Nat : l - k \in S}
    OBVIOUS
  <1>2. T \in SUBSET Nat /\ T # {}
    <2>1. PICK i \in S : i \in 1..l
      OBVIOUS
    <2>2. l - i \in Nat /\ l - (l - i) = i
      BY <2>1
    <2>3. l - i \in T
      BY <1>1, <2>1, <2>2
    <2> QED
      BY <1>1, <2>3
  <1>3. PICK k \in T : \A m \in T : k <= m
    <2>1. PICK R : R = OpToRel(<, Nat)
      OBVIOUS
    <2>2. IsWellFoundedOn(R, Nat)
      BY <2>1, NatLessThanWellFounded
    <2>3. PICK k \in T : \A m \in T : ~(<<m, k>> \in R)
      BY <1>2, <2>2, WFMin
    <2>4. \A m \in T : ~(m < k)
      BY <1>2, <2>1, <2>3 DEF OpToRel
    <2> QED
      BY <1>2, <2>4
  <1>4. l - k \in S /\ \A i \in S : i <= l - k
    <2>1. k \in Nat /\ l - k \in S
      BY <1>1
    <2>2. ASSUME NEW i \in S PROVE i <= l - k
      <3>1. i \in 1..l /\ l - i \in Nat /\ l - (l - i) = i
        OBVIOUS
      <3>2. l - i \in T
        BY <1>1, <3>1
      <3>3. k <= l - i
        BY <1>3, <3>2
      <3> QED
        BY <2>1, <3>1, <3>3
    <2> QED
      BY <2>1, <2>2
  <1>5. \A y \in S : l - k >= y
    <2>1. \A y \in S : y \in Int /\ l - k \in Int
      BY <1>3, <1>2
    <2> QED
      BY <1>4, <2>1
  <1>6. Max(S) \in S /\ \A y \in S : Max(S) >= y
    BY <1>4, <1>5 DEF Max
  <1> QED
    <2>1. PICK m : m = Max(S)
      OBVIOUS
    <2>2. m \in S /\ \A y \in S : m >= y
      BY <1>6, <2>1
    <2>3. m \in Int /\ \A y \in S : y \in Int
      BY <2>2
    <2>4. \A y \in S : y <= m
      BY <2>2, <2>3
    <2> QED
      BY <2>1, <2>2, <2>4

\* Declarations.
Declaring(t, s, f, X, at) == t = [s EXCEPT ![f] = Declared(s[f], X, at)]
SameKinds(t, s) == \A i \in 1..Len(s) : t[i].kind = s[i].kind
MoreDeclared(t, s, f, X, at) ==
    \A i \in 1..Len(s) : \A n \in Names : \A d :
        d \in Decls(t, i, n) <=> d \in Decls(s, i, n) \/ (i = f /\ n \in X /\ d = Mark(n, at))

\* Names are declared in one scope of several.
LEMMA ScopesDeclared ==
    ASSUME NEW s \in Seq(ScopeSet), NEW f \in 1..Len(s), NEW X \in SUBSET Names, NEW at \in Nat,
           NEW t, Declaring(t, s, f, X, at)
    PROVE  t \in Seq(ScopeSet) /\ Len(t) = Len(s) /\ SameKinds(t, s) /\ MoreDeclared(t, s, f, X, at)
  <1>1. PICK old : old = s[f]
    OBVIOUS
  <1>2. old \in ScopeSet
    BY <1>1
  <1>3. PICK new : new = Declared(old, X, at)
    OBVIOUS
  <1>4. /\ new \in ScopeSet /\ new.kind = old.kind
        /\ \A n \in Names : \A d :
             d \in new.declarations[n] <=> d \in old.declarations[n] \/ (n \in X /\ d = Mark(n, at))
    <2>1. ASSUME NEW scope \in ScopeSet, NEW more, more = Declared(scope, X, at)
          PROVE  /\ more \in ScopeSet /\ more.kind = scope.kind
                 /\ \A n \in Names : \A d :
                      d \in more.declarations[n] <=> d \in scope.declarations[n] \/ (n \in X /\ d = Mark(n, at))
      BY <2>1, ScopeDeclared
    <2> QED
      BY <1>2, <1>3, <2>1
  <1>5. t \in Seq(ScopeSet) /\ Len(t) = Len(s) /\ t[f] = new /\ \A i \in 1..Len(s) : i # f => t[i] = s[i]
    <2>1. t = [s EXCEPT ![f] = new]
      BY <1>1, <1>3 DEF Declaring
    <2> QED
      BY <1>4, <2>1
  <1>6. \A i \in 1..Len(s) : t[i].kind = s[i].kind
    <2> SUFFICES ASSUME NEW i \in 1..Len(s) PROVE t[i].kind = s[i].kind
      OBVIOUS
    <2>1. CASE i = f
      BY <1>1, <1>4, <1>5, <2>1
    <2>2. CASE i # f
      BY <1>5, <2>2
    <2> QED
      BY <2>1, <2>2
  <1>7. ASSUME NEW i \in 1..Len(s), NEW n \in Names, NEW d
        PROVE  d \in Decls(t, i, n) <=> d \in Decls(s, i, n) \/ (i = f /\ n \in X /\ d = Mark(n, at))
    <2>1. CASE i = f
      BY <1>1, <1>4, <1>5, <2>1 DEF Decls
    <2>2. CASE i # f
      BY <1>5, <2>2 DEF Decls
    <2> QED
      BY <2>1, <2>2
  <1> QED
    BY <1>5, <1>6, <1>7 DEF SameKinds, MoreDeclared

\* Statements that declare names in a scope that is open.
LEMMA WalkDeclared ==
    ASSUME WalkSteady, InFunction, Last(nodes).kind \notin HeadKinds,
           NEW X \in SUBSET Names, NEW V \in SUBSET Names, NEW Z \in SUBSET Names, NEW f \in 2..Len(scopes),
           Declarable(scopes, blocks, f, X, V, Z), NEW node \in NodeSet, Defines(node, offset, Z),
           offset' = offset + 1, nodes' = Append(nodes, node),
           scopes' = [scopes EXCEPT ![f] = Declared(scopes[f], X, offset)],
           \/ V = {} /\ blocks' = blocks
           \/ blocks' = [blocks EXCEPT ![Len(blocks)] = [n \in Names |->
                            blocks[Len(blocks)][n] \cup (IF n \in V THEN {[name |-> n, at |-> offset]} ELSE {})]]
    PROVE  WalkSteady'
  <1>1. PICK base, home : WalkWell(scopes, blocks, nodes, offset, base, home)
    BY DEF WalkSteady
  <1>2. /\ scopes \in Seq(ScopeSet) /\ blocks \in Seq(BlockSet) /\ nodes \in Seq(NodeSet) /\ offset \in Nat
        /\ Len(nodes) # 0 /\ Len(nodes) \in Nat /\ Len(scopes) \in Nat /\ Len(blocks) \in Nat \ {0}
        /\ blocks[Len(blocks)] \in BlockSet
    BY WalkSizes
  <1>3. f \in 1..Len(scopes) /\ scopes[f] \in ScopeSet
    BY <1>2
  <1>7. /\ scopes' \in Seq(ScopeSet) /\ Len(scopes') = Len(scopes)
        /\ \A i \in 1..Len(scopes) : scopes'[i].kind = scopes[i].kind
        /\ \A i \in 1..Len(scopes) : \A n \in Names : \A d :
             d \in Decls(scopes', i, n) <=> d \in Decls(scopes, i, n) \/ (i = f /\ n \in X /\ d = Mark(n, offset))
    <2>1. Declaring(scopes', scopes, f, X, offset)
      BY DEF Declaring
    <2>2. scopes' \in Seq(ScopeSet) /\ Len(scopes') = Len(scopes) /\ SameKinds(scopes', scopes)
          /\ MoreDeclared(scopes', scopes, f, X, offset)
      BY <1>2, <1>3, <2>1, ScopesDeclared
    <2> QED
      BY <2>2 DEF SameKinds, MoreDeclared
  <1>8. PICK block : block = [n \in Names |->
                       blocks[Len(blocks)][n] \cup (IF n \in V THEN {[name |-> n, at |-> offset]} ELSE {})]
    OBVIOUS
  <1>9. /\ block \in BlockSet
        /\ \A n \in Names : \A d : d \in block[n] <=> d \in blocks[Len(blocks)][n] \/ (n \in V /\ d = Mark(n, offset))
    <2>1. \A n \in Names : [name |-> n, at |-> offset] \in DeclarationSet
      BY <1>2 DEF DeclarationSet
    <2>2. \A n \in Names : block[n] \in SUBSET DeclarationSet
      BY <1>2, <1>8, <2>1 DEF BlockSet
    <2> QED
      BY <1>8, <2>2 DEF BlockSet, Mark
  <1>10. /\ blocks' \in Seq(BlockSet) /\ Len(blocks') = Len(blocks)
         /\ \A j \in 1..Len(blocks) : \A n \in Names : \A d :
              d \in blocks'[j][n] <=> d \in blocks[j][n] \/ (j = Len(blocks) /\ n \in V /\ d = Mark(n, offset))
    <2>1. CASE V = {} /\ blocks' = blocks
      BY <1>2, <2>1
    <2>2. CASE blocks' = [blocks EXCEPT ![Len(blocks)] = block]
      <3>1. Len(blocks) \in 1..Len(blocks)
        BY <1>2
      <3>2. /\ blocks' \in Seq(BlockSet) /\ Len(blocks') = Len(blocks) /\ blocks'[Len(blocks)] = block
            /\ \A j \in 1..Len(blocks) : j # Len(blocks) => blocks'[j] = blocks[j]
        BY <1>2, <1>9, <2>2, <3>1
      <3>3. ASSUME NEW j \in 1..Len(blocks), NEW n \in Names, NEW d
            PROVE  d \in blocks'[j][n] <=> d \in blocks[j][n] \/ (j = Len(blocks) /\ n \in V /\ d = Mark(n, offset))
        <4>1. CASE j = Len(blocks)
          BY <1>9, <3>2, <4>1
        <4>2. CASE j # Len(blocks)
          BY <3>2, <4>2
        <4> QED
          BY <4>1, <4>2
      <3> QED
        BY <3>2, <3>3
    <2> QED
      BY <1>8, <2>1, <2>2
  <1>11. nodes' \in Seq(NodeSet) /\ Len(nodes') = Len(nodes) + 1 /\ nodes'[Len(nodes) + 1] = node
         /\ \A k \in 1..Len(nodes) : nodes'[k] = nodes[k]
    BY <1>2
  <1>12. Declares(scopes, blocks, nodes, offset, scopes', blocks', nodes', node, f, X, V)
    BY <1>7, <1>10, <1>11 DEF Declares
  <1>13. nodes[Len(nodes)].kind \notin HeadKinds
    BY DEF Last
  <1>14. WalkWell(scopes', blocks', nodes', offset + 1, Base(base, Len(nodes), Len(scopes')), home)
    BY <1>1, <1>2, <1>12, <1>13, Declarations
  <1>15. offset' \in Nat
    BY <1>2
  <1> QED
    BY <1>7, <1>10, <1>11, <1>14, <1>15 DEF WalkSteady, WalkTyped

\* In a function the innermost scope is not the file's.
LEMMA InnermostScope ==
    ASSUME WalkSteady, InFunction
    PROVE  /\ Len(scopes) \in 2..Len(scopes) /\ scopes[Len(scopes)].kind \in {"function", "block", "body"}
           /\ scopes[Len(scopes)].kind = "body" => Len(scopes) - 1 \in 2..Len(scopes)
  <1>1. PICK base, home : WalkWell(scopes, blocks, nodes, offset, base, home)
    BY DEF WalkSteady
  <1>2. Len(scopes) \in Nat /\ 2 <= Len(scopes)
    BY WalkSizes
  <1>3. Len(scopes) \in 2..Len(scopes)
    BY <1>2
  <1>4. scopes[Len(scopes)].kind \in {"function", "block", "body"}
    BY <1>1, <1>3 DEF WalkWell, HomesWell
  <1>5. scopes[Len(scopes)].kind = "body" => Len(scopes) > 2
    BY <1>1, <1>3 DEF WalkWell, HomesWell, Bodies
  <1> QED
    BY <1>2, <1>3, <1>4, <1>5

\* A group of specifications, which declares variables as the walk gets on in it.
LEMMA SpecNode ==
    ASSUME NEW Z \in SUBSET Names, NEW Y \in SUBSET Names, offset \in Nat, NEW node,
           node = [kind |-> "spec", pushed |-> 0, pending |-> {[name |-> n, at |-> offset] : n \in Z},
                   spec |-> {[name |-> n, at |-> offset] : n \in Y}]
    PROVE  node \in NodeSet /\ Defines(node, offset, Z)
  BY DEF NodeSet, StatementKinds, DeclarationSet, Defines, Mark

\* A statement that declares variables at its end.
LEMMA DefineNode ==
    ASSUME NEW Z \in SUBSET Names, offset \in Nat, NEW node, node = Node("define", 0, {[name |-> n, at |-> offset] : n \in Z})
    PROVE  node \in NodeSet /\ Defines(node, offset, Z)
  BY DEF Node, NodeSet, StatementKinds, DeclarationSet, Defines, Mark

\* A type or a label has nothing pending.
LEMMA FlatNode ==
    ASSUME NEW kind \in {"type", "label"}, NEW node, node = Node(kind, 0, {})
    PROVE  node \in NodeSet /\ Defines(node, offset, {})
  BY DEF Node, NodeSet, StatementKinds, Defines

\* A var or const declaration.
LEMMA WalkValueSpecs ==
    ASSUME WalkSteady, NEW names \in SUBSET Names, NEW first \in SUBSET names, ValueSpecs(names, first)
    PROVE  WalkSteady'
  <1>2. PICK node : node = [kind |-> "spec", pushed |-> 0, pending |-> {[name |-> n, at |-> offset] : n \in names},
                            spec |-> {[name |-> n, at |-> offset] : n \in first}]
    OBVIOUS
  <1>1. /\ InFunction /\ Last(nodes).kind \notin HeadKinds /\ blocks' = blocks /\ offset' = offset + 1
        /\ \A n \in names : Last(blocks)[n] = {}
        /\ nodes' = Append(nodes, node)
        /\ scopes' = [scopes EXCEPT ![Len(scopes)] = Declared(scopes[Len(scopes)], names, offset)]
    BY <1>2 DEF ValueSpecs, Statements, HeadKinds, Enter
  <1>3. node \in NodeSet /\ Defines(node, offset, names)
    <2>1. first \in SUBSET Names
      OBVIOUS
    <2> QED
      BY <1>2, <2>1, SpecNode, WalkSizes
  <1>4. Declarable(scopes, blocks, Len(scopes), names, {}, names)
    BY <1>1 DEF Declarable, Last
  <1>5. Len(scopes) \in 2..Len(scopes)
    BY <1>1, InnermostScope
  <1> QED
    BY <1>1, <1>2, <1>3, <1>4, <1>5, WalkDeclared

\* A short declaration, which assigns what its block has already.
LEMMA WalkShortDeclaration == ASSUME WalkSteady, NEW names \in SUBSET Names, ShortDeclaration(names) PROVE WalkSteady'
  <1>1. PICK Z, X : Z = {n \in names : Last(blocks)[n] = {}} /\ X = {n \in names : ~HasLocal(n)}
    OBVIOUS
  <1>2. /\ InFunction /\ Last(nodes).kind \notin HeadKinds /\ blocks' = blocks /\ offset' = offset + 1
        /\ nodes' = Append(nodes, Node("define", 0, {[name |-> n, at |-> offset] : n \in Z}))
        /\ scopes' = [scopes EXCEPT ![Len(scopes)] = Declared(scopes[Len(scopes)], X, offset)]
    BY <1>1 DEF ShortDeclaration, Statements, HeadKinds, Enter
  <1>3. PICK node : node = Node("define", 0, {[name |-> n, at |-> offset] : n \in Z})
    OBVIOUS
  <1>4. Z \in SUBSET Names /\ X \in SUBSET Names
    BY <1>1
  <1>5. node \in NodeSet /\ Defines(node, offset, Z)
    BY <1>3, <1>4, DefineNode, WalkSizes
  <1>6. Len(scopes) \in 2..Len(scopes)
    BY <1>2, InnermostScope
  <1>7. Declarable(scopes, blocks, Len(scopes), X, {}, Z)
    <2>1. \A n \in Z : blocks[Len(blocks)][n] = {} /\ (n \in X \/ Decls(scopes, Len(scopes), n) # {})
      BY <1>1 DEF Last, HasLocal, Decls
    <2>2. ASSUME NEW n \in X PROVE n \in Z \/ (scopes[Len(scopes)].kind = "body" /\ Decls(scopes, Len(scopes) - 1, n) # {})
      <3> SUFFICES ASSUME blocks[Len(blocks)][n] # {}
                   PROVE  scopes[Len(scopes)].kind = "body" /\ Decls(scopes, Len(scopes) - 1, n) # {}
        BY <1>1 DEF Last
      <3>1. Decls(scopes, Len(scopes), n) = {} /\ n \in Names
        BY <1>1 DEF Last, HasLocal, Decls
      <3>2. PICK base, home : WalkWell(scopes, blocks, nodes, offset, base, home)
        BY DEF WalkSteady
      <3>3. home[Len(scopes)] = Len(blocks)
        BY <1>6, <3>2 DEF WalkWell, HomesWell, Ends
      <3>4. ScopeWell(scopes, blocks, nodes, home, Len(scopes), n)
        BY <1>6, <3>1, <3>2 DEF WalkWell, ContentWell
      <3>5. PICK d : d \in blocks[Len(blocks)][n]
        OBVIOUS
      <3>6. scopes[Len(scopes)].kind \in {"function", "block", "body"}
        BY <1>2, InnermostScope
      <3>7. scopes[Len(scopes)].kind # "block"
        BY <3>1, <3>3, <3>4, <3>5 DEF ScopeWell, BlockScope
      <3>8. scopes[Len(scopes)].kind # "function"
        BY <3>1, <3>3, <3>4, <3>5 DEF ScopeWell, FunctionScope, Stray
      <3>9. scopes[Len(scopes)].kind = "body" => Decls(scopes, Len(scopes) - 1, n) # {}
        BY <3>1, <3>3, <3>4, <3>5 DEF ScopeWell, BodyScope, Stray
      <3> QED
        BY <3>6, <3>7, <3>8, <3>9
    <2> QED
      BY <2>1, <2>2 DEF Declarable
  <1> QED
    BY <1>2, <1>3, <1>4, <1>5, <1>6, <1>7, WalkDeclared

\* A type declaration, visible at once.
LEMMA WalkTypeSpec == ASSUME WalkSteady, NEW n \in Names, TypeSpec(n) PROVE WalkSteady'
  <1>1. /\ InFunction /\ Last(nodes).kind \notin HeadKinds /\ offset' = offset + 1
        /\ nodes' = Append(nodes, Node("type", 0, {}))
        /\ scopes' = [scopes EXCEPT ![Len(scopes)] = Declared(scopes[Len(scopes)], {n}, offset)]
        /\ blocks' = [blocks EXCEPT ![Len(blocks)] = [m \in Names |->
                        blocks[Len(blocks)][m] \cup (IF m \in {n} THEN {[name |-> m, at |-> offset]} ELSE {})]]
    BY DEF TypeSpec, AddToBlock, Statements, HeadKinds, Enter
  <1>2. PICK node : node = Node("type", 0, {})
    OBVIOUS
  <1>3. node \in NodeSet /\ Defines(node, offset, {})
    BY <1>2, FlatNode
  <1>4. Declarable(scopes, blocks, Len(scopes), {n}, {n}, {})
    BY DEF Declarable
  <1>5. Len(scopes) \in 2..Len(scopes)
    BY <1>1, InnermostScope
  <1>6. {n} \in SUBSET Names /\ {} \in SUBSET Names
    OBVIOUS
  <1> QED
    BY <1>1, <1>2, <1>3, <1>4, <1>5, <1>6, WalkDeclared

\* The function or the literal the walk is in.
LEMMA NearestIsFunction ==
    ASSUME WalkSteady, InFunction
    PROVE  NearestFunction \in 2..Len(scopes) /\ scopes[NearestFunction].kind = "function"
  <1>1. PICK base, home : WalkWell(scopes, blocks, nodes, offset, base, home)
    BY DEF WalkSteady
  <1>2. /\ scopes \in Seq(ScopeSet) /\ Len(scopes) \in Nat /\ 2 <= Len(scopes)
        /\ Len(nodes) # 0 /\ Len(nodes) \in Nat
    BY WalkSizes
  <1>3. 1 \in 1..Len(nodes) /\ 1 - 1 = 0 /\ (1 = 1) = TRUE
    BY <1>2
  <1>4. NodeWell(scopes, nodes[1], TRUE, base[1]) /\ base[1] = base[0] + nodes[1].pushed /\ base[0] = 1
    BY <1>1, <1>3 DEF WalkWell, NodesWell, BaseWell
  <1>5. base[1] = 2 /\ scopes[2].kind = "function"
    BY <1>4 DEF NodeWell
  <1>6. PICK candidates : candidates = {i \in DOMAIN scopes : scopes[i].kind = "function"} \cup {1}
    OBVIOUS
  <1>7. candidates \in SUBSET (1..Len(scopes)) /\ 2 \in candidates
    BY <1>2, <1>5, <1>6
  <1>8. Max(candidates) \in candidates /\ \A i \in candidates : i <= Max(candidates)
    BY <1>2, <1>7, Greatest
  <1>9. Max(candidates) \in 1..Len(scopes) /\ 2 <= Max(candidates)
    BY <1>7, <1>8
  <1>10. Max(candidates) # 1
    BY <1>9
  <1>11. NearestFunction = Max(candidates)
    BY <1>6 DEF NearestFunction
  <1> QED
    <2>1. scopes[Max(candidates)].kind = "function"
      BY <1>6, <1>8, <1>10
    <2>2. Max(candidates) \in 2..Len(scopes)
      BY <1>2, <1>9
    <2> QED
      BY <1>11, <2>1, <2>2

\* A label, which the collector puts into the scope of the function.
LEMMA WalkLabel == ASSUME WalkSteady, NEW n \in Names, Label(n) PROVE WalkSteady'
  <1>1. /\ InFunction /\ Last(nodes).kind \notin HeadKinds /\ offset' = offset + 1 /\ blocks' = blocks
        /\ nodes' = Append(nodes, Node("label", 0, {}))
        /\ scopes' = [scopes EXCEPT ![NearestFunction] = Declared(scopes[NearestFunction], {n}, offset)]
    BY DEF Label, Statements, HeadKinds, Enter
  <1>2. PICK node, f : node = Node("label", 0, {}) /\ f = NearestFunction
    OBVIOUS
  <1>3. node \in NodeSet /\ Defines(node, offset, {})
    BY <1>2, FlatNode
  <1>4. f \in 2..Len(scopes) /\ scopes[f].kind = "function"
    BY <1>1, <1>2, NearestIsFunction
  <1>5. Declarable(scopes, blocks, f, {n}, {}, {})
    BY <1>4 DEF Declarable
  <1>6. {n} \in SUBSET Names /\ {} \in SUBSET Names
    OBVIOUS
  <1> QED
    BY <1>1, <1>2, <1>3, <1>4, <1>5, <1>6, WalkDeclared

-----------------------------------------------------------------------------

\* A sequence without its last element.
LEMMA FrontOf ==
    ASSUME NEW S, NEW s \in Seq(S), Len(s) # 0
    PROVE  /\ Front(s) \in Seq(S) /\ Len(Front(s)) = Len(s) - 1
           /\ \A i \in 1..Len(s) - 1 : Front(s)[i] = s[i]
  <1>1. PICK last1 : last1 = Len(s) - 1
    OBVIOUS
  <1>2. last1 \in Nat /\ 1 \in Int /\ last1 \in Int /\ Front(s) = SubSeq(s, 1, last1) /\ \A i \in 1..last1 : s[i] \in S
    BY <1>1 DEF Front
  <1>3. /\ SubSeq(s, 1, last1) \in Seq(S)
        /\ Len(SubSeq(s, 1, last1)) = IF 1 <= last1 THEN last1 - 1 + 1 ELSE 0
        /\ \A i \in 1..last1 - 1 + 1 : SubSeq(s, 1, last1)[i] = s[1 + i - 1]
    BY <1>2, SubSeqProperties
  <1>4. last1 - 1 + 1 = last1 /\ \A i \in 1..last1 : 1 + i - 1 = i
    BY <1>2
  <1> QED
    BY <1>1, <1>2, <1>3, <1>4

\* Another element at the end.
OnTop(t, s, e) == Len(t) = Len(s) /\ t[Len(s)] = e /\ \A i \in 1..Len(s) : i # Len(s) => t[i] = s[i]

\* A sequence with another last element.
LEMMA Topped ==
    ASSUME NEW S, NEW s \in Seq(S), Len(s) # 0, NEW e \in S, NEW t, t = Append(Front(s), e)
    PROVE  t \in Seq(S) /\ OnTop(t, s, e)
  <1>1. PICK front : front = Front(s)
    OBVIOUS
  <1>2. front \in Seq(S) /\ Len(front) = Len(s) - 1 /\ \A i \in 1..Len(s) - 1 : front[i] = s[i]
    BY <1>1, FrontOf
  <1>3. Len(s) \in Nat \ {0}
    OBVIOUS
  <1>4. t = Append(front, e) /\ t \in Seq(S)
    BY <1>1, <1>2
  <1>5. Len(t) = Len(s) /\ t[Len(s)] = e
    BY <1>2, <1>3, <1>4
  <1>6. \A i \in 1..Len(s) : i # Len(s) => i \in 1..Len(s) - 1
    BY <1>3
  <1>7. \A i \in 1..Len(s) - 1 : t[i] = front[i]
    BY <1>2, <1>3, <1>4
  <1> QED
    BY <1>2, <1>4, <1>5, <1>6, <1>7 DEF OnTop

\* What the innermost statement of a walk is like.
LEMMA InnermostNode ==
    ASSUME NEW base, NEW home, WalkWell(scopes, blocks, nodes, offset, base, home), WalkSteady, InFunction,
           NEW node, node = Last(nodes)
    PROVE  /\ node \in NodeSet /\ node = nodes[Len(nodes)]
           /\ node.kind \notin {"define", "spec", "range"} => node.pending = {}
           /\ node.kind = "range" => node.pushed = 1 /\ \A n \in Names : blocks[Len(blocks)][n] = {}
           /\ node.kind \in {"define", "spec"} => node.pushed = 0
           /\ Len(scopes) - node.pushed \in 1..Len(scopes)
  <1>1. /\ Len(nodes) # 0 /\ Len(nodes) \in Nat /\ nodes[Len(nodes)] \in NodeSet /\ 2 <= Len(scopes)
        /\ Len(scopes) \in Nat
    BY WalkSizes
  <1>2. node = nodes[Len(nodes)] /\ Len(nodes) \in 1..Len(nodes) /\ Len(nodes) \in 0..Len(nodes) /\ Len(nodes) - 1 \in 0..Len(nodes)
    BY <1>1 DEF Last
  <1>3. NodesWell(scopes, nodes, base)
    BY DEF WalkWell
  <1>4. base[Len(nodes)] = Len(scopes) /\ NodeWell(scopes, node, Len(nodes) = 1, Len(scopes))
    BY <1>2, <1>3 DEF NodesWell, BaseWell
  <1>5. base[Len(nodes)] = base[Len(nodes) - 1] + node.pushed /\ base[Len(nodes) - 1] \in 1..Len(scopes)
    BY <1>2, <1>3 DEF NodesWell, BaseWell
  <1>6. node.kind \notin {"define", "spec", "range"} => node.pending = {}
    BY <1>2 DEF WalkWell, ContentWell
  <1>7. node.kind = "range" => \A n \in Names : blocks[Len(blocks)][n] = {}
    <2>1. home[Len(scopes)] = Len(blocks)
      BY <1>1 DEF WalkWell, HomesWell, Ends
    <2> QED
      BY <1>2, <1>4, <2>1 DEF WalkWell, ContentWell
  <1>8. (node.kind = "range" => node.pushed = 1) /\ (node.kind \in {"define", "spec"} => node.pushed = 0)
    BY <1>4 DEF NodeWell
  <1>9. node \in NodeSet
    BY <1>1, <1>2
  <1>10. node.pushed \in 0..2
    BY <1>9 DEF NodeSet
  <1>11. Len(scopes) - node.pushed \in 1..Len(scopes)
    BY <1>1, <1>4, <1>5, <1>10
  <1> QED
    BY <1>2, <1>6, <1>7, <1>8, <1>9, <1>11

\* What is pending becomes declared.
Shown(n, block, now) == block[n] \cup {d \in now : d.name = n}
ShownBlock(block, now) == [n \in Names |-> Shown(n, block, now)]

\* What a statement has pending is declared in the block it ends in.
LEMMA BlockShown ==
    ASSUME NEW block \in BlockSet, NEW now \in SUBSET DeclarationSet, NEW more, more = ShownBlock(block, now)
    PROVE  /\ more \in BlockSet
           /\ \A n \in Names : \A d : d \in more[n] <=> d \in block[n] \/ (d \in now /\ d.name = n)
  <1>2. \A n \in Names : more[n] \in SUBSET DeclarationSet
    BY DEF BlockSet, Shown, ShownBlock
  <1> QED
    BY <1>2 DEF BlockSet, Shown, ShownBlock

IsSettled(settled, node, now) ==
    /\ now \in SUBSET node.pending
    /\ settled.pending = node.pending \ now /\ settled.pushed = node.pushed
    /\ settled.pending # {} => node.kind = "spec"
    /\ settled.kind = IF node.kind = "range" THEN "ranged" ELSE node.kind

\* The innermost statement of the walk settles.
LEMMA WalkSettled ==
    ASSUME WalkSteady, InFunction, NEW c, NEW ms, NEW block, NEW node, NEW settled \in NodeSet, NEW now,
           node = Last(nodes), block = ShownBlock(blocks[Len(blocks)], now),
           c = Append(Front(blocks), block), ms = Append(Front(nodes), settled),
           IsSettled(settled, node, now),
           NEW base, NEW home, WalkWell(scopes, blocks, nodes, offset, base, home)
    PROVE  /\ c \in Seq(BlockSet) /\ ms \in Seq(NodeSet) /\ Len(c) = Len(blocks) /\ Len(ms) = Len(nodes)
           /\ ms[Len(ms)] = settled
           /\ WalkWell(scopes, c, ms, offset, base, home)
  <1>1. /\ blocks \in Seq(BlockSet) /\ nodes \in Seq(NodeSet) /\ Len(nodes) # 0 /\ Len(blocks) # 0
        /\ Len(nodes) \in Nat /\ Len(blocks) \in Nat /\ blocks[Len(blocks)] \in BlockSet
    BY WalkSizes
  <1>2. node \in NodeSet /\ node = nodes[Len(nodes)]
    BY InnermostNode
  <1>3. PICK old : old = blocks[Len(blocks)]
    OBVIOUS
  <1>4. /\ block \in BlockSet
        /\ \A n \in Names : \A d : d \in block[n] <=> d \in old[n] \/ (d \in now /\ d.name = n)
    <2>1. old \in BlockSet /\ block = ShownBlock(old, now)
      BY <1>1, <1>3
    <2>2. now \in SUBSET DeclarationSet
      BY <1>2 DEF IsSettled, NodeSet
    <2> QED
      BY <2>1, <2>2, BlockShown
  <1>5. /\ c \in Seq(BlockSet) /\ Len(c) = Len(blocks) /\ c[Len(blocks)] = block
        /\ \A j \in 1..Len(blocks) : j # Len(blocks) => c[j] = blocks[j]
    <2>1. ASSUME NEW e \in BlockSet, NEW t, t = Append(Front(blocks), e) PROVE t \in Seq(BlockSet) /\ OnTop(t, blocks, e)
      BY <1>1, <2>1, Topped
    <2>2. c \in Seq(BlockSet) /\ OnTop(c, blocks, block)
      BY <1>4, <2>1
    <2> QED
      BY <2>2 DEF OnTop
  <1>6. /\ ms \in Seq(NodeSet) /\ Len(ms) = Len(nodes) /\ ms[Len(nodes)] = settled
        /\ \A k \in 1..Len(nodes) : k # Len(nodes) => ms[k] = nodes[k]
    <2>1. ms \in Seq(NodeSet) /\ OnTop(ms, nodes, settled)
      BY <1>1, Topped
    <2> QED
      BY <2>1 DEF OnTop
  <1>7. Settles(blocks, nodes, c, ms, now)
    <2>1. ASSUME NEW j \in 1..Len(blocks), NEW n \in Names, NEW d
          PROVE  d \in c[j][n] <=> d \in blocks[j][n] \/ (j = Len(blocks) /\ d \in now /\ d.name = n)
      <3>1. CASE j = Len(blocks)
        BY <1>2, <1>3, <1>4, <1>5, <3>1
      <3>2. CASE j # Len(blocks)
        BY <1>5, <3>2
      <3> QED
        BY <3>1, <3>2
    <2> QED
      BY <1>2, <1>5, <1>6, <2>1 DEF Settles, IsSettled
  <1>8. WalkWell(scopes, c, ms, offset, base, home)
    BY <1>1, <1>7, Settled
  <1> QED
    BY <1>5, <1>6, <1>8

\* The body of a range statement, in which its variables are visible.
LEMMA WalkRangeBody == ASSUME WalkSteady, RangeBody PROVE WalkSteady'
  <1>1. PICK base, home : WalkWell(scopes, blocks, nodes, offset, base, home)
    BY DEF WalkSteady
  <1>2. PICK node : node = Last(nodes)
    OBVIOUS
  <1>3. PICK settled, inner, scope : settled = Node("ranged", 1, {}) /\ inner = Node("block", 1, {}) /\ scope = Scope("block")
    OBVIOUS
  <1>4. /\ InFunction /\ node.kind = "range" /\ offset' = offset
        /\ nodes' = Append(Front(nodes), settled) \o <<inner>>
        /\ scopes' = Append(scopes, scope)
        /\ blocks' = Front(blocks) \o <<[n \in Names |-> {d \in node.pending : d.name = n}], NoDeclarations>>
    BY <1>2, <1>3 DEF RangeBody
  <1>5. /\ node \in NodeSet /\ node.pushed = 1 /\ \A n \in Names : blocks[Len(blocks)][n] = {}
    BY <1>1, <1>2, <1>4, InnermostNode
  <1>6. settled \in NodeSet /\ settled.kind = "ranged" /\ settled.pushed = 1 /\ settled.pending = {}
    BY <1>3 DEF Node, NodeSet, StatementKinds
  <1>7. inner \in NodeSet /\ inner.kind = "block" /\ inner.pushed = 1 /\ inner.pending = {}
    BY <1>3 DEF Node, NodeSet, StatementKinds
  <1>8. /\ scope \in ScopeSet /\ scope.kind = "block" /\ \A n \in Names : scope.declarations[n] = {}
        /\ NoDeclarations \in BlockSet /\ \A n \in Names : NoDeclarations[n] = {}
    BY <1>3, ScopeNew
  <1>9. PICK block : block = ShownBlock(blocks[Len(blocks)], node.pending)
    OBVIOUS
  <1>10. [n \in Names |-> {d \in node.pending : d.name = n}] = block
    <2>1. \A n \in Names : Shown(n, blocks[Len(blocks)], node.pending) = {d \in node.pending : d.name = n}
      BY <1>5 DEF Shown
    <2> QED
      BY <1>9, <2>1 DEF ShownBlock
  <1>11. PICK c, ms : c = Append(Front(blocks), block) /\ ms = Append(Front(nodes), settled)
    OBVIOUS
  <1>12. /\ c \in Seq(BlockSet) /\ ms \in Seq(NodeSet) /\ Len(c) = Len(blocks) /\ Len(ms) = Len(nodes)
         /\ ms[Len(ms)] = settled
         /\ WalkWell(scopes, c, ms, offset, base, home)
    <2>1. IsSettled(settled, node, node.pending)
      BY <1>4, <1>5, <1>6 DEF IsSettled
    <2> QED
      BY <1>1, <1>2, <1>4, <1>6, <1>9, <1>11, <2>1, WalkSettled
  <1>13. /\ scopes \in Seq(ScopeSet) /\ blocks \in Seq(BlockSet) /\ nodes \in Seq(NodeSet) /\ offset \in Nat
         /\ Len(nodes) # 0 /\ Len(nodes) \in Nat /\ Len(scopes) \in Nat /\ Len(blocks) # 0 /\ Len(blocks) \in Nat
    BY <1>4, WalkSizes
  <1>14. blocks' = Append(c, NoDeclarations)
    <2>1. PICK front : front = Front(blocks)
      OBVIOUS
    <2>2. front \in Seq(BlockSet)
      BY <1>13, <2>1, FrontOf
    <2>3. block \in BlockSet
      <3>1. c[Len(c)] = block /\ Len(c) \in 1..Len(c)
        BY <1>11, <1>12, <1>13, <2>1, <2>2
      <3> QED
        BY <1>12, <3>1
    <2>4. front \o <<block, NoDeclarations>> = Append(Append(front, block), NoDeclarations)
      BY <1>8, <2>2, <2>3
    <2> QED
      BY <1>4, <1>10, <1>11, <2>1, <2>4
  <1>15. nodes' = Append(ms, inner)
    BY <1>4, <1>7, <1>11, <1>12
  <1>16. PICK more : more = <<scope>>
    OBVIOUS
  <1>17. more \in Seq(ScopeSet) /\ Len(more) = 1 /\ more[1] = scope /\ 1..1 = {1}
    BY <1>8, <1>16
  <1>18. /\ scopes' \in Seq(ScopeSet) /\ Len(scopes') = Len(scopes) + 1
         /\ (\A i \in 1..Len(scopes) : scopes'[i] = scopes[i]) /\ scopes'[Len(scopes) + 1] = scope
    BY <1>4, <1>8, <1>13
  <1>19. /\ blocks' \in Seq(BlockSet) /\ Len(blocks') = Len(c) + 1
         /\ (\A j \in 1..Len(c) : blocks'[j] = c[j]) /\ blocks'[Len(c) + 1] = NoDeclarations
    BY <1>8, <1>12, <1>14
  <1>20. /\ nodes' \in Seq(NodeSet) /\ Len(nodes') = Len(ms) + 1
         /\ (\A k \in 1..Len(ms) : nodes'[k] = ms[k]) /\ nodes'[Len(ms) + 1] = inner
    BY <1>7, <1>12, <1>15
  <1>21. Pushes(scopes, c, ms, scopes', blocks', nodes', inner, more, NoDeclarations)
    BY <1>17, <1>18, <1>19, <1>20 DEF Pushes
  <1>22. Opens(inner, more, NoDeclarations, offset)
    BY <1>7, <1>8, <1>17 DEF Opens
  <1>23. Undeclared(more)
    BY <1>8, <1>17 DEF Undeclared
  <1>24. ms[Len(ms)].kind \notin HeadKinds /\ Len(ms) # 0
    BY <1>6, <1>12, <1>13 DEF HeadKinds
  <1>25. WalkWell(scopes', blocks', nodes', offset', Base(base, Len(ms), Len(scopes')), Home(home, Len(scopes), Len(scopes'), Len(c)))
    BY <1>4, <1>12, <1>21, <1>22, <1>23, <1>24, Pushed
  <1> QED
    BY <1>4, <1>13, <1>18, <1>19, <1>20, <1>25 DEF WalkSteady, WalkTyped

\* The next specification of a group, before which the language declares the one before.
LEMMA WalkNextSpec == ASSUME WalkSteady, NextSpec PROVE WalkSteady'
  <1>1. PICK base, home : WalkWell(scopes, blocks, nodes, offset, base, home)
    BY DEF WalkSteady
  <1>2. PICK node, now : node = Last(nodes) /\ now = node.pending \cap node.spec
    OBVIOUS
  <1>3. PICK next \in SUBSET LaterIn(node) :
          /\ InFunction /\ node.kind = "spec" /\ scopes' = scopes /\ offset' = offset
          /\ nodes' = Append(Front(nodes), [node EXCEPT !.pending = LaterIn(node), !.spec = next])
          /\ blocks' = [blocks EXCEPT ![Len(blocks)] = ShownBlock(blocks[Len(blocks)], now)]
    BY <1>2 DEF NextSpec, Shown, ShownBlock
  <1>4. node \in NodeSet /\ node.pushed = 0
    BY <1>1, <1>2, <1>3, InnermostNode
  <1>5. PICK settled : settled = [node EXCEPT !.pending = LaterIn(node), !.spec = next]
    OBVIOUS
  <1>6. settled \in NodeSet /\ IsSettled(settled, node, now)
    <2>1. LaterIn(node) = node.pending \ now /\ now \in SUBSET node.pending
      BY <1>2 DEF LaterIn
    <2>2. /\ settled \in NodeSet /\ settled.kind = node.kind /\ settled.pushed = node.pushed
          /\ settled.pending = LaterIn(node)
      BY <1>4, <1>5 DEF NodeSet, LaterIn
    <2> QED
      BY <1>3, <2>1, <2>2 DEF IsSettled
  <1>7. PICK block : block = ShownBlock(blocks[Len(blocks)], now)
    OBVIOUS
  <1>8. PICK c, ms : c = Append(Front(blocks), block) /\ ms = Append(Front(nodes), settled)
    OBVIOUS
  <1>9. /\ c \in Seq(BlockSet) /\ ms \in Seq(NodeSet) /\ Len(c) = Len(blocks)
        /\ WalkWell(scopes, c, ms, offset, base, home)
    BY <1>1, <1>2, <1>3, <1>6, <1>7, <1>8, WalkSettled
  <1>10. /\ scopes \in Seq(ScopeSet) /\ blocks \in Seq(BlockSet) /\ offset \in Nat
         /\ Len(blocks) # 0 /\ Len(blocks) \in Nat /\ blocks[Len(blocks)] \in BlockSet
    BY <1>3, WalkSizes
  <1>11. block \in BlockSet
    <2>1. PICK old \in BlockSet : old = blocks[Len(blocks)]
      BY <1>10
    <2>2. now \in SUBSET DeclarationSet /\ block = ShownBlock(old, now)
      BY <1>2, <1>4, <1>7, <2>1 DEF NodeSet
    <2> QED
      BY <2>2, BlockShown
  <1>12. blocks' = c
    <2>1. blocks' = [blocks EXCEPT ![Len(blocks)] = block]
      BY <1>3, <1>7
    <2>2. OnTop(c, blocks, block)
      BY <1>8, <1>10, <1>11, Topped
    <2>3. blocks' \in Seq(BlockSet) /\ Len(blocks') = Len(c) /\ \A j \in 1..Len(c) : blocks'[j] = c[j]
      BY <1>10, <1>11, <2>1, <2>2 DEF OnTop
    <2> QED
      BY <1>9, <2>3
  <1>13. nodes' = ms
    BY <1>3, <1>5, <1>8
  <1> QED
    BY <1>3, <1>9, <1>10, <1>12, <1>13 DEF WalkSteady, WalkTyped

\* The walk leaves a statement, or the function.
LEMMA WalkLeave == ASSUME WalkSteady, Leave PROVE WalkSteady'
  <1>1. PICK base, home : WalkWell(scopes, blocks, nodes, offset, base, home)
    BY DEF WalkSteady
  <1>2. PICK node : node = Last(nodes)
    OBVIOUS
  <1>3. /\ InFunction /\ node.kind # "range" /\ offset' = offset /\ nodes' = Front(nodes)
        /\ scopes' = SubSeq(scopes, 1, Len(scopes) - node.pushed)
        /\ node.pushed > 0 => blocks' = Front(blocks)
        /\ ~(node.pushed > 0) => blocks' = [blocks EXCEPT ![Len(blocks)] =
                                              ShownBlock(blocks[Len(blocks)], node.pending)]
    BY <1>2 DEF Leave, Left, Shown, ShownBlock
  <1>4. /\ node \in NodeSet /\ node = nodes[Len(nodes)] /\ Len(scopes) - node.pushed \in 1..Len(scopes)
        /\ node.kind \notin {"define", "spec"} => node.pending = {}
        /\ node.kind \in {"define", "spec"} => node.pushed = 0
    BY <1>1, <1>2, <1>3, InnermostNode
  <1>5. /\ scopes \in Seq(ScopeSet) /\ blocks \in Seq(BlockSet) /\ nodes \in Seq(NodeSet) /\ offset \in Nat
        /\ Len(nodes) # 0 /\ Len(nodes) \in Nat /\ Len(scopes) \in Nat /\ Len(blocks) # 0 /\ Len(blocks) \in Nat
        /\ blocks[Len(blocks)] \in BlockSet
    BY <1>3, WalkSizes
  <1>6. /\ nodes' \in Seq(NodeSet) /\ Len(nodes') = Len(nodes) - 1
        /\ \A k \in 1..Len(nodes) - 1 : nodes'[k] = nodes[k]
    BY <1>3, <1>5, FrontOf
  <1>7. /\ scopes' \in Seq(ScopeSet) /\ Len(scopes') = Len(scopes) - node.pushed
        /\ \A i \in 1..Len(scopes') : scopes'[i] = scopes[i]
    <2>1. PICK left : left = Len(scopes) - node.pushed
      OBVIOUS
    <2>2. left \in 1..Len(scopes) /\ scopes' = SubSeq(scopes, 1, left) /\ left \in Int /\ 1 \in Int
      BY <1>3, <1>4, <2>1
    <2>3. \A i \in 1..left : scopes[i] \in ScopeSet
      BY <1>5, <2>2
    <2>4. /\ SubSeq(scopes, 1, left) \in Seq(ScopeSet)
          /\ Len(SubSeq(scopes, 1, left)) = IF 1 <= left THEN left - 1 + 1 ELSE 0
          /\ \A i \in 1..left - 1 + 1 : SubSeq(scopes, 1, left)[i] = scopes[1 + i - 1]
      BY <2>2, <2>3, SubSeqProperties
    <2>5. left - 1 + 1 = left /\ 1 <= left /\ \A i \in 1..left : 1 + i - 1 = i
      BY <2>2
    <2> QED
      BY <2>1, <2>2, <2>4, <2>5
  <1>8. CASE node.pushed > 0
    <2>1. node.pending = {} /\ node.pushed # 0
      BY <1>4, <1>8
    <2>2. /\ blocks' \in Seq(BlockSet) /\ Len(blocks') = Len(blocks) - 1
          /\ \A j \in 1..Len(blocks) - 1 : blocks'[j] = blocks[j]
      BY <1>3, <1>5, <1>8, FrontOf
    <2>3. Pops(scopes, blocks, nodes, scopes', blocks', nodes')
      BY <1>4, <1>6, <1>7, <2>1, <2>2 DEF Pops
    <2>4. WalkWell(scopes', blocks', nodes', offset, BaseBelow(base, Len(nodes')), HomeBelow(home, Len(scopes')))
      BY <1>1, <1>4, <1>5, <2>1, <2>3, Popped
    <2> QED
      BY <1>3, <1>5, <1>6, <1>7, <2>2, <2>4 DEF WalkSteady, WalkTyped
  <1>9. CASE ~(node.pushed > 0)
    <2>1. node.pushed = 0
      BY <1>4, <1>9 DEF NodeSet
    <2>2. PICK block : block = ShownBlock(blocks[Len(blocks)], node.pending)
      OBVIOUS
    <2>3. PICK settled : settled = Node(node.kind, 0, {})
      OBVIOUS
    <2>4. settled \in NodeSet /\ settled.kind = node.kind /\ settled.pushed = 0 /\ settled.pending = {}
      BY <1>4, <2>3 DEF Node, NodeSet
    <2>5. PICK c, ms : c = Append(Front(blocks), block) /\ ms = Append(Front(nodes), settled)
      OBVIOUS
    <2>6. /\ c \in Seq(BlockSet) /\ ms \in Seq(NodeSet) /\ Len(c) = Len(blocks) /\ Len(ms) = Len(nodes)
          /\ ms[Len(ms)] = settled
          /\ WalkWell(scopes, c, ms, offset, base, home)
      <3>1. IsSettled(settled, node, node.pending)
        BY <1>3, <2>1, <2>4 DEF IsSettled
      <3> QED
        <4>1. InFunction /\ settled \in NodeSet
          BY <1>3, <2>4
        <4> QED
          BY <1>1, <1>2, <2>2, <2>5, <3>1, <4>1, WalkSettled
    <2>7. PICK old : old = blocks[Len(blocks)]
      OBVIOUS
    <2>8. block \in BlockSet
      <3>1. old \in BlockSet /\ block = ShownBlock(old, node.pending)
        BY <1>5, <2>2, <2>7
      <3>2. node.pending \in SUBSET DeclarationSet
        BY <1>4 DEF NodeSet
      <3> QED
        BY <3>1, <3>2, BlockShown
    <2>9. blocks' = c
      <3>1. blocks' = [blocks EXCEPT ![Len(blocks)] = block]
        BY <1>3, <1>9, <2>2
      <3>2. /\ Len(c) = Len(blocks) /\ c[Len(blocks)] = block
            /\ \A j \in 1..Len(blocks) : j # Len(blocks) => c[j] = blocks[j]
        <4>1. OnTop(c, blocks, block)
          BY <1>5, <2>5, <2>8, Topped
        <4> QED
          BY <4>1 DEF OnTop
      <3>3. blocks' \in Seq(BlockSet) /\ Len(blocks') = Len(c) /\ \A j \in 1..Len(c) : blocks'[j] = c[j]
        BY <1>5, <2>8, <3>1, <3>2
      <3> QED
        BY <2>6, <3>3
    <2>10. Pops(scopes, c, ms, scopes', blocks', nodes')
      <3>1. ms[Len(ms)].pushed = 0
        BY <2>4, <2>6
      <3>2. \A k \in 1..Len(nodes') : nodes'[k] = ms[k]
        <4>1. \A k \in 1..Len(nodes) : k # Len(nodes) => ms[k] = nodes[k]
          <5>1. OnTop(ms, nodes, settled)
            BY <1>5, <2>4, <2>5, Topped
          <5> QED
            BY <5>1 DEF OnTop
        <4>2. \A k \in 1..Len(nodes') : k \in 1..Len(nodes) /\ k # Len(nodes) /\ k \in 1..Len(nodes) - 1
          BY <1>5, <1>6
        <4> QED
          BY <1>6, <4>1, <4>2
      <3> QED
        BY <1>6, <1>7, <2>1, <2>6, <2>9, <3>1, <3>2 DEF Pops
    <2>11. WalkWell(scopes', blocks', nodes', offset, BaseBelow(base, Len(nodes')), HomeBelow(home, Len(scopes')))
      BY <1>5, <2>4, <2>6, <2>10, Popped
    <2> QED
      BY <1>3, <1>5, <1>6, <1>7, <2>6, <2>9, <2>11 DEF WalkSteady, WalkTyped
  <1> QED
    BY <1>8, <1>9

\* WalkSteady is inductive.
LEMMA WalkSteps == WalkSteady /\ [ScopesNext]_scopeVars => WalkSteady'
  <1> SUFFICES ASSUME WalkSteady, [ScopesNext]_scopeVars PROVE WalkSteady'
    OBVIOUS
  <1>1. ASSUME UNCHANGED <<scopes, blocks, nodes, offset>> PROVE WalkSteady'
    BY <1>1 DEF WalkSteady, WalkTyped
  <1>2. CASE ScopesNext
    <2>1. ASSUME NEW method \in {{}} \cup {{n} : n \in Names}, NEW parameters \in {{}} \cup {{n} : n \in Names},
                 Function(method, parameters)
          PROVE  WalkSteady'
      BY <2>1, WalkFunction
    <2>2. CASE OpenBlock
      BY <2>2, WalkOpenBlock
    <2>3. CASE RangeBody
      BY <2>3, WalkRangeBody
    <2>4. CASE Leave
      BY <2>4, WalkLeave
    <2>5. ASSUME NEW n \in Names, Literal({n}) PROVE WalkSteady'
      BY <2>5, WalkLiteral
    <2>6. ASSUME NEW n \in Names, TypeSpec(n) PROVE WalkSteady'
      BY <2>6, WalkTypeSpec
    <2>7. ASSUME NEW n \in Names, RangeStatement({n}) PROVE WalkSteady'
      BY <2>7, WalkRange
    <2>8. ASSUME NEW n \in Names, Label(n) PROVE WalkSteady'
      BY <2>8, WalkLabel
    <2>9. ASSUME NEW names \in SmallSets, NEW first \in (SUBSET names) \ {{}}, ValueSpecs(names, first) PROVE WalkSteady'
      BY <2>9, WalkValueSpecs DEF SmallSets
    <2>10. ASSUME NEW n \in Names, Use(n) PROVE WalkSteady'
      BY <1>1, <2>10 DEF Use
    <2>13. ASSUME NEW n \in Names, UseOfDeclared(n) PROVE WalkSteady'
      BY <1>1, <2>13 DEF UseOfDeclared
    <2>14. CASE NextSpec
      BY <2>14, WalkNextSpec
    <2>11. ASSUME NEW names \in SmallSets, ShortDeclaration(names) PROVE WalkSteady'
      BY <2>11, WalkShortDeclaration DEF SmallSets
    <2>12. ASSUME NEW base \in Names \cup {"expression"}, NEW n \in Names, SelectImported(base, n) \/ SelectOfValue(base, n)
           PROVE  WalkSteady'
      BY <1>1, <2>12 DEF SelectImported, SelectOfValue
    <2> QED
      BY <1>2, <2>1, <2>2, <2>3, <2>4, <2>5, <2>6, <2>7, <2>8, <2>9, <2>10, <2>11, <2>12, <2>13, <2>14 DEF ScopesNext
  <1>3. CASE UNCHANGED scopeVars
    BY <1>1, <1>3 DEF scopeVars
  <1> QED
    BY <1>2, <1>3

-----------------------------------------------------------------------------
(* The references *)

\* What a name is that the collector is not blurred about.
Clear(n) ==
    /\ \A d : ~IsPending(nodes, n, d)
    /\ \A i \in 1..Len(scopes) : scopes[i].kind \in {"file", "function"} => ~Stray(scopes, blocks, nodes, i, n)
    /\ \A i \in 1..Len(scopes) - 1 :
          scopes[i].kind = "function" /\ scopes[i + 1].kind = "body" =>
              Decls(scopes, i, n) = {} \/ Decls(scopes, i + 1, n) = {}

\* A name that is not blurred is neither pending, nor stray, nor assigned over a parameter.
LEMMA NotBlurred ==
    ASSUME WalkSteady, NEW n \in Names, ~Blurred(n)
    PROVE  Clear(n)
  <1>1. /\ scopes \in Seq(ScopeSet) /\ blocks \in Seq(BlockSet) /\ nodes \in Seq(NodeSet)
        /\ DOMAIN scopes = 1..Len(scopes) /\ DOMAIN blocks = 1..Len(blocks) /\ DOMAIN nodes = 1..Len(nodes)
    BY WalkSizes
  <1>2. Pending(n) = {} /\ ~LabelOrMethod(n) /\ ~AssignedParameter(n)
    BY DEF Blurred
  <1>3. ASSUME NEW d, IsPending(nodes, n, d) PROVE FALSE
    <2>1. PICK k \in 1..Len(nodes) : d \in nodes[k].pending /\ d.name = n
      BY <1>3 DEF IsPending
    <2>2. d \in UNION {nodes[i].pending : i \in DOMAIN nodes}
      BY <1>1, <2>1
    <2> QED
      BY <1>2, <2>1, <2>2 DEF Pending
  <1>4. ASSUME NEW i \in 1..Len(scopes), scopes[i].kind \in {"file", "function"}, Stray(scopes, blocks, nodes, i, n)
        PROVE  FALSE
    <2>1. PICK d \in Decls(scopes, i, n) : ~IsKnown(blocks, nodes, n, d)
      BY <1>4 DEF Stray
    <2>2. NoVariables(i, n) = {}
      BY <1>1, <1>2, <1>4 DEF LabelOrMethod
    <2>3. d \in Pending(n) \cup UNION {blocks[j][n] : j \in DOMAIN blocks}
      BY <2>1, <2>2 DEF NoVariables, Decls
    <2>4. PICK j \in DOMAIN blocks : d \in blocks[j][n]
      BY <1>2, <2>3
    <2> QED
      BY <1>1, <2>1, <2>4 DEF IsKnown
  <1>5. ASSUME NEW i \in 1..Len(scopes) - 1, scopes[i].kind = "function", scopes[i + 1].kind = "body"
        PROVE  Decls(scopes, i, n) = {} \/ Decls(scopes, i + 1, n) = {}
    BY <1>2, <1>5 DEF AssignedParameter, Decls
  <1> QED
    BY <1>3, <1>4, <1>5 DEF Clear

\* Every walk that meets it sees all that the scopes declare of it.
LEMMA AllSeen ==
    ASSUME WalkSteady, NEW n \in Names, ~Blurred(n), NEW walk \in Walks, NEW i \in DOMAIN scopes
    PROVE  Seen(walk, i, n) = Decls(scopes, i, n)
  <1>1. /\ scopes \in Seq(ScopeSet) /\ nodes \in Seq(NodeSet) /\ DOMAIN scopes = 1..Len(scopes) /\ Clear(n)
        /\ ~OfInitializer(n)
    BY WalkSizes, NotBlurred DEF Blurred
  <1>2. CASE walk = BodyWalk
    BY <1>2 DEF Seen, Decls
  <1>3. CASE walk # BodyWalk /\ i > ScopesAt(walk)
    <2>1. Decls(scopes, i, n) = {}
      BY <1>1, <1>3 DEF OfInitializer, Walks, Decls
    <2> QED
      BY <1>3, <2>1 DEF Seen
  <1>4. CASE walk # BodyWalk /\ ~(i > ScopesAt(walk))
    <2>1. walk \in 1..Len(nodes)
      BY <1>1, <1>4 DEF Walks, Initializers
    <2>2. \A d \in Decls(scopes, i, n) : d.name = n
      BY <1>1 DEF WalkSteady, WalkWell, AllEarlier, Earlier
    <2>3. \A d \in LaterIn(nodes[walk]) : d \notin Decls(scopes, i, n)
      BY <1>1, <2>1, <2>2 DEF LaterIn, Clear, IsPending
    <2>4. Decls(scopes, i, n) \ LaterIn(nodes[walk]) = Decls(scopes, i, n)
      BY <2>3
    <2> QED
      BY <1>4, <2>4 DEF Seen, Decls
  <1> QED
    BY <1>2, <1>3, <1>4

\* Then a scope declares of it what its block declares, or nothing.
LEMMA ScopeIsBlock ==
    ASSUME NEW base, NEW home, WalkWell(scopes, blocks, nodes, offset, base, home), NEW n \in Names, Clear(n),
           NEW i \in 2..Len(scopes)
    PROVE  Decls(scopes, i, n) = {} \/ Decls(scopes, i, n) = blocks[home[i]][n]
  <1>1. /\ Len(scopes) \in Nat /\ i \in 1..Len(scopes) /\ home[i] \in 1..Len(blocks)
        /\ scopes[i].kind \in {"function", "block", "body"} /\ ScopeWell(scopes, blocks, nodes, home, i, n)
    <2>1. Len(scopes) \in Nat /\ home[i] \in 1..Len(blocks)
      BY DEF WalkWell, Sized, HomesWell, Ends
    <2>2. i \in 1..Len(scopes)
      BY <2>1
    <2> QED
      BY <2>1, <2>2 DEF WalkWell, HomesWell, ContentWell
  <1> SUFFICES ASSUME Decls(scopes, i, n) # {}
               PROVE  \A d : d \in Decls(scopes, i, n) <=> d \in blocks[home[i]][n]
    OBVIOUS
  <1>2. \A d : ~IsPending(nodes, n, d)
    BY DEF Clear
  <1>3. \A j \in 2..Len(scopes) : \A d \in Decls(scopes, j, n) :
          scopes[j].kind = "function" => d \in blocks[home[j]][n]
    <2> SUFFICES ASSUME NEW j \in 2..Len(scopes), NEW d \in Decls(scopes, j, n), scopes[j].kind = "function"
                 PROVE  d \in blocks[home[j]][n]
      OBVIOUS
    <2>1. j \in 1..Len(scopes) /\ ScopeWell(scopes, blocks, nodes, home, j, n)
      BY <1>1 DEF WalkWell, ContentWell
    <2>2. ~Stray(scopes, blocks, nodes, j, n)
      BY <2>1 DEF Clear
    <2>3. PICK k \in 1..Len(blocks) : d \in blocks[k][n]
      BY <1>2, <2>2 DEF Stray, IsKnown
    <2> QED
      BY <2>1, <2>3 DEF ScopeWell, OwnBlock
  <1>4. CASE scopes[i].kind = "block"
    BY <1>1, <1>2, <1>4 DEF ScopeWell, BlockScope
  <1>5. CASE scopes[i].kind = "body"
    <2>1. i > 2 /\ scopes[i - 1].kind = "function" /\ home[i] = home[i - 1]
      BY <1>5 DEF WalkWell, HomesWell, Bodies
    <2>2. i - 1 \in 1..Len(scopes) - 1 /\ i - 1 \in 1..Len(scopes) /\ i - 1 + 1 = i
      BY <1>1, <2>1
    <2>3. Decls(scopes, i - 1, n) = {} /\ ~Stray(scopes, blocks, nodes, i - 1, n)
      BY <1>5, <2>1, <2>2 DEF Clear
    <2> QED
      BY <1>1, <1>2, <1>5, <2>3 DEF ScopeWell, BodyScope
  <1>6. CASE scopes[i].kind = "function" /\ i # Len(scopes) /\ scopes[i + 1].kind = "body"
    <2>1. i + 1 \in 2..Len(scopes) /\ i \in 1..Len(scopes) - 1 /\ i + 1 - 1 = i
      BY <1>1, <1>6
    <2>2. home[i + 1] = home[i] /\ ScopeWell(scopes, blocks, nodes, home, i + 1, n)
      BY <1>6, <2>1 DEF WalkWell, HomesWell, Bodies, ContentWell
    <2>3. Decls(scopes, i + 1, n) = {} /\ ~Stray(scopes, blocks, nodes, i, n)
      BY <1>1, <1>6, <2>1 DEF Clear
    <2>4. \A d \in blocks[home[i]][n] : d \in Decls(scopes, i, n)
      BY <1>6, <2>1, <2>2, <2>3 DEF ScopeWell, BodyScope
    <2> QED
      BY <1>3, <1>6, <2>4
  <1>7. CASE scopes[i].kind = "function" /\ (i = Len(scopes) \/ scopes[i + 1].kind # "body")
    <2>1. ~Stray(scopes, blocks, nodes, i, n)
      BY <1>1, <1>7 DEF Clear
    <2>2. \A d \in blocks[home[i]][n] : d \in Decls(scopes, i, n)
      BY <1>1, <1>7, <2>1 DEF ScopeWell, FunctionScope
    <2> QED
      BY <1>3, <1>7, <2>2
  <1> QED
    BY <1>1, <1>4, <1>5, <1>6, <1>7

\* And what a block declares of it, one of its scopes declares.
LEMMA BlockHasScope ==
    ASSUME NEW base, NEW home, WalkWell(scopes, blocks, nodes, offset, base, home), NEW n \in Names, Clear(n),
           NEW j \in 1..Len(blocks), blocks[j][n] # {}
    PROVE  \E i \in 2..Len(scopes) : home[i] = j /\ Decls(scopes, i, n) # {}
  <1>1. PICK i \in 2..Len(scopes) : home[i] = j
    BY DEF WalkWell, HomesWell, Onto
  <1>2. Len(scopes) \in Nat /\ i \in 1..Len(scopes)
    BY DEF WalkWell, Sized
  <1>3. scopes[i].kind \in {"function", "block", "body"} /\ ScopeWell(scopes, blocks, nodes, home, i, n)
    BY <1>2 DEF WalkWell, HomesWell, ContentWell
  <1>4. PICK d : d \in blocks[j][n]
    OBVIOUS
  <1>5. CASE scopes[i].kind = "block"
    BY <1>1, <1>3, <1>4, <1>5 DEF ScopeWell, BlockScope
  <1>6. ASSUME NEW m \in 2..Len(scopes), home[m] = j, scopes[m].kind = "body"
        PROVE  \E k \in 2..Len(scopes) : home[k] = j /\ Decls(scopes, k, n) # {}
    <2>1. m > 2 /\ scopes[m - 1].kind = "function" /\ home[m] = home[m - 1]
      BY <1>6 DEF WalkWell, HomesWell, Bodies
    <2>2. m - 1 \in 2..Len(scopes) /\ m - 1 \in 1..Len(scopes)
      BY <1>2, <2>1
    <2>3. ScopeWell(scopes, blocks, nodes, home, m, n) /\ ~Stray(scopes, blocks, nodes, m - 1, n)
      BY <2>1, <2>2 DEF WalkWell, ContentWell, Clear
    <2>4. d \in Decls(scopes, m, n) \/ d \in Decls(scopes, m - 1, n)
      BY <1>4, <1>6, <2>3 DEF ScopeWell, BodyScope
    <2> QED
      BY <1>6, <2>1, <2>2, <2>4
  <1>7. CASE scopes[i].kind = "body"
    BY <1>1, <1>6, <1>7
  <1>8. CASE scopes[i].kind = "function" /\ i # Len(scopes) /\ scopes[i + 1].kind = "body"
    <2>1. i + 1 \in 2..Len(scopes) /\ i + 1 - 1 = i
      BY <1>2, <1>8
    <2>2. home[i + 1] = home[i]
      BY <1>8, <2>1 DEF WalkWell, HomesWell, Bodies
    <2> QED
      BY <1>1, <1>6, <1>8, <2>1, <2>2
  <1>9. CASE scopes[i].kind = "function" /\ (i = Len(scopes) \/ scopes[i + 1].kind # "body")
    <2>1. ~Stray(scopes, blocks, nodes, i, n)
      BY <1>2, <1>9 DEF Clear
    <2> QED
      BY <1>1, <1>3, <1>4, <1>9, <2>1 DEF ScopeWell, FunctionScope
  <1> QED
    BY <1>3, <1>5, <1>7, <1>8, <1>9

\* A name that is declared in no block is declared in no scope; any other is
\* found to be what its innermost block declares.
LEMMA LookupTrue ==
    ASSUME WalkSteady, NEW n \in Names, ~Blurred(n), NEW walk \in Walks,
           NEW declaring, declaring = {j \in DOMAIN blocks : blocks[j][n] # {}}
    PROVE  /\ declaring = {} => Lookup(walk, n) = {}
           /\ declaring # {} => Lookup(walk, n) = blocks[Max(declaring)][n] /\ Lookup(walk, n) # {}
  <1>0. Clear(n) /\ \A i \in DOMAIN scopes : Seen(walk, i, n) = Decls(scopes, i, n)
    BY NotBlurred, AllSeen
  <1>1. /\ scopes \in Seq(ScopeSet) /\ blocks \in Seq(BlockSet) /\ Len(scopes) \in Nat \ {0} /\ Len(blocks) \in Nat
        /\ DOMAIN scopes = 1..Len(scopes) /\ DOMAIN blocks = 1..Len(blocks) /\ scopes[1].kind = "file"
    BY WalkSizes
  <1>2. PICK base, home : WalkWell(scopes, blocks, nodes, offset, base, home)
    BY DEF WalkSteady
  <1>3. PICK having : having = {i \in DOMAIN scopes : scopes[i].declarations[n] # {}}
    OBVIOUS
  <1>4. \A i : i \in having <=> i \in 1..Len(scopes) /\ Decls(scopes, i, n) # {}
    BY <1>1, <1>3 DEF Decls
  <1>5. \A j : j \in declaring <=> j \in 1..Len(blocks) /\ blocks[j][n] # {}
    BY <1>1
  <1>6. Lookup(walk, n) = IF having = {} THEN {} ELSE Decls(scopes, Max(having), n)
    <2>1. having = {i \in DOMAIN scopes : Seen(walk, i, n) # {}}
      BY <1>0, <1>3 DEF Decls
    <2>2. having # {} => Max(having) \in DOMAIN scopes
      <3>1. having \in SUBSET (1..Len(scopes))
        BY <1>4
      <3>2. having # {} => Max(having) \in having
        BY <1>1, <3>1, Greatest
      <3> QED
        BY <1>1, <3>1, <3>2
    <2> QED
      BY <1>0, <2>1, <2>2 DEF Lookup
  <1>7. home \in [2..Len(scopes) -> 1..Len(blocks)] /\ Ordered(scopes, home)
    BY <1>2 DEF WalkWell, HomesWell, Ends
  <1>8. ASSUME NEW i \in having PROVE \/ i = 1 /\ \E j \in declaring : TRUE
                                      \/ i \in 2..Len(scopes) /\ home[i] \in declaring /\ Decls(scopes, i, n) = blocks[home[i]][n]
    <2>1. i \in 1..Len(scopes) /\ Decls(scopes, i, n) # {}
      BY <1>4
    <2>2. CASE i = 1
      <3>1. ~Stray(scopes, blocks, nodes, 1, n) /\ \A d : ~IsPending(nodes, n, d)
        BY <1>0, <1>1, <2>1, <2>2 DEF Clear
      <3>2. PICK d : d \in Decls(scopes, 1, n)
        BY <2>1, <2>2
      <3>3. PICK j \in 1..Len(blocks) : d \in blocks[j][n]
        BY <3>1, <3>2 DEF Stray, IsKnown
      <3> QED
        BY <1>5, <2>2, <3>3
    <2>3. CASE i # 1
      <3>1. i \in 2..Len(scopes)
        BY <1>1, <2>1, <2>3
      <3>2. Decls(scopes, i, n) = blocks[home[i]][n]
        BY <1>0, <1>2, <2>1, <3>1, ScopeIsBlock
      <3> QED
        BY <1>5, <1>7, <2>1, <3>1, <3>2
    <2> QED
      BY <2>2, <2>3
  <1>9. ASSUME declaring = {} PROVE Lookup(walk, n) = {}
    <2>1. having = {}
      BY <1>8, <1>9
    <2> QED
      BY <1>6, <2>1
  <1>10. ASSUME declaring # {} PROVE Lookup(walk, n) = blocks[Max(declaring)][n] /\ Lookup(walk, n) # {}
    <2>1. declaring \in SUBSET (1..Len(blocks))
      BY <1>5
    <2>2. PICK top : top = Max(declaring)
      OBVIOUS
    <2>3. top \in declaring /\ \A j \in declaring : j <= top
      BY <1>1, <1>10, <2>1, <2>2, Greatest
    <2>4. PICK i \in 2..Len(scopes) : home[i] = top /\ Decls(scopes, i, n) # {}
      BY <1>0, <1>2, <1>5, <2>3, BlockHasScope
    <2>5. i \in having /\ having \in SUBSET (1..Len(scopes)) /\ having # {}
      <3>1. i \in 1..Len(scopes)
        BY <1>1
      <3> QED
        BY <1>4, <2>4, <3>1
    <2>6. PICK inner : inner = Max(having)
      OBVIOUS
    <2>7. inner \in having /\ i <= inner
      BY <1>1, <2>5, <2>6, Greatest
    <2>8. inner \in 2..Len(scopes) /\ home[inner] \in declaring /\ Decls(scopes, inner, n) = blocks[home[inner]][n]
      <3>1. inner \in 1..Len(scopes) /\ inner # 1
        BY <2>5, <2>7
      <3> QED
        BY <1>8, <2>7, <3>1
    <2>9. home[inner] = top
      <3>1. home[inner] <= top
        BY <2>3, <2>8
      <3>2. inner = i \/ i < inner
        BY <2>7, <2>8
      <3>3. home[i] <= home[inner]
        <4>1. home[i] \in 1..Len(blocks) /\ home[inner] \in 1..Len(blocks)
          BY <1>7, <2>8
        <4>2. CASE inner = i
          BY <4>1, <4>2
        <4>3. CASE i < inner
          <5>1. home[i] < home[inner] \/ home[i] = home[inner]
            BY <1>7, <2>8, <4>3 DEF Ordered
          <5> QED
            BY <4>1, <5>1
        <4> QED
          BY <3>2, <4>2, <4>3
      <3>4. home[inner] \in Int /\ top \in Int
        BY <2>1, <2>3, <2>8
      <3> QED
        BY <2>4, <3>1, <3>3, <3>4
    <2> QED
      BY <1>5, <1>6, <2>2, <2>3, <2>5, <2>6, <2>8, <2>9
  <1> QED
    BY <1>9, <1>10

\* A use is bound to what the language binds it to.
LEMMA UseExact ==
    ASSUME WalkSteady, NEW n \in Names, ~Blurred(n), LanguageBinds(n) # Unresolved, NEW walk \in Walks
    PROVE  BindName(walk, n) = LanguageBinds(n)
  <1>1. PICK declaring : declaring = {j \in DOMAIN blocks : blocks[j][n] # {}}
    OBVIOUS
  <1>2. /\ declaring = {} => Lookup(walk, n) = {}
        /\ declaring # {} => Lookup(walk, n) = blocks[Max(declaring)][n] /\ Lookup(walk, n) # {}
    BY <1>1, LookupTrue
  <1>3. LanguageBinds(n) = IF declaring # {} THEN Candidates(blocks[Max(declaring)][n])
                           ELSE IF n \in PackageNames THEN OfPackage(n)
                           ELSE IF n \in Builtins \ Aliases THEN Builtin(n)
                           ELSE Unresolved
    BY <1>1 DEF LanguageBinds
  <1>4. BindName(walk, n) = IF Lookup(walk, n) # {} THEN Candidates(Lookup(walk, n))
                            ELSE IF n \in PackageNames THEN OfPackage(n)
                            ELSE IF n \in Builtins THEN Builtin(n)
                            ELSE Unresolved
    BY DEF BindName
  <1> QED
    BY <1>2, <1>3, <1>4

\* A qualified name is bound to the import it is qualified with.
LEMMA ImportExact ==
    ASSUME WalkSteady, NEW alias \in Names, NEW n, ~Blurred(alias), IsImport(alias), NEW walk \in Walks
    PROVE  BindSelected(walk, alias, n) = Imported(alias, n)
  <1>1. PICK declaring : declaring = {j \in DOMAIN blocks : blocks[j][alias] # {}}
    OBVIOUS
  <1>2. declaring = {} /\ alias \in Aliases
    BY <1>1 DEF IsImport
  <1>3. Lookup(walk, alias) = {}
    BY <1>1, <1>2, LookupTrue
  <1> QED
    BY <1>2, <1>3 DEF BindSelected

\* ReferencesExact: every name the walk of a file meets is bound to what the
\* language binds it to, however its blocks are nested and its names shadowed.
THEOREM ReferencesAlwaysExact == ScopesSpec => []ReferencesExact
  <1>1. ScopesInit => WalkSteady /\ ReferencesExact
    BY WalkBegins DEF ScopesInit, ReferencesExact
  <1>2. WalkSteady /\ ReferencesExact /\ [ScopesNext]_scopeVars => WalkSteady' /\ ReferencesExact'
    <2> SUFFICES ASSUME WalkSteady, ReferencesExact, [ScopesNext]_scopeVars PROVE ReferencesExact'
      BY WalkSteps
    <2>1. ASSUME NEW n \in Names, Use(n) PROVE ReferencesExact'
      <3>1. PICK walk \in Walks :
              /\ last' = [form |-> "identifier", answer |-> BindName(walk, n), truth |-> LanguageBinds(n), blurred |-> Blurred(n)]
              /\ LanguageBinds(n) # Unresolved
        BY <2>1 DEF Use
      <3>2. last'.answer = BindName(walk, n) /\ last'.truth = LanguageBinds(n) /\ last'.blurred = Blurred(n)
        BY <3>1
      <3>3. Blurred(n) \/ BindName(walk, n) = LanguageBinds(n)
        BY <3>1, UseExact
      <3> QED
        BY <3>2, <3>3 DEF ReferencesExact
    <2>2. ASSUME NEW alias \in Names, NEW n \in Names, SelectImported(alias, n) PROVE ReferencesExact'
      <3>1. PICK walk \in Walks :
              /\ last' = [form |-> "imported", answer |-> BindSelected(walk, alias, n), truth |-> Imported(alias, n),
                          blurred |-> Blurred(alias)]
              /\ IsImport(alias)
        BY <2>2 DEF SelectImported
      <3>2. last'.answer = BindSelected(walk, alias, n) /\ last'.truth = Imported(alias, n) /\ last'.blurred = Blurred(alias)
        BY <3>1
      <3>3. Blurred(alias) \/ BindSelected(walk, alias, n) = Imported(alias, n)
        BY <3>1, ImportExact
      <3> QED
        BY <3>2, <3>3 DEF ReferencesExact
    <2>3. ASSUME NEW base, NEW n, SelectOfValue(base, n) PROVE ReferencesExact'
      <3>1. last'.blurred = TRUE
        BY <2>3 DEF SelectOfValue
      <3> QED
        BY <3>1 DEF ReferencesExact
    <2>8. ASSUME NEW n, UseOfDeclared(n) PROVE ReferencesExact'
      <3>1. last'.blurred = TRUE
        BY <2>8 DEF UseOfDeclared
      <3> QED
        BY <3>1 DEF ReferencesExact
    <2>4. ASSUME Forget PROVE ReferencesExact'
      BY <2>4 DEF Forget, ReferencesExact
    <2>5. ASSUME UNCHANGED last PROVE ReferencesExact'
      BY <2>5 DEF ReferencesExact
    <2>6. CASE ScopesNext
      <3>1. \/ Forget
            \/ \E n \in Names : Use(n) \/ UseOfDeclared(n)
            \/ \E alias, n \in Names : SelectImported(alias, n)
            \/ \E base, n : SelectOfValue(base, n)
        BY <2>6 DEF ScopesNext, Function, OpenBlock, RangeBody, Leave, Literal, TypeSpec, RangeStatement, Label, ValueSpecs, NextSpec, ShortDeclaration
      <3> QED
        BY <2>1, <2>2, <2>3, <2>4, <2>8, <3>1
    <2>7. CASE UNCHANGED scopeVars
      BY <2>5, <2>7 DEF scopeVars
    <2> QED
      BY <2>6, <2>7
  <1> QED
    BY <1>1, <1>2, PTL DEF ScopesSpec

=============================================================================
