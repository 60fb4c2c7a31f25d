------------------------------- MODULE GoScopes -------------------------------
(***************************************************************************)
(* How the declaration collector of lie/golang/semantic walks a file and   *)
(* binds the names it meets.  A behaviour is the walk of one file: its     *)
(* functions one after the other, and the statements of each as the walk   *)
(* enters and leaves them.                                                 *)
(*                                                                         *)
(* Beside the scopes of the collector stand the blocks of the language, in *)
(* which a variable is declared only after the statement that declares it. *)
(* Every file walked is one the compiler accepts.                          *)
(***************************************************************************)
EXTENDS Integers, SequencesExt, FiniteSetsExt

CONSTANTS
    Names,          \* identifiers that appear in the file
    PackageNames,   \* those the package declares once, outside any function
    Aliases,        \* those the file imports a package as
    Builtins,       \* those the language predeclares
    MaxOffset,      \* bound: declarations
    MaxNesting      \* bound: open statements

ASSUME ScopesAssumption ==
    /\ PackageNames \cup Aliases \cup Builtins \subseteq Names
    /\ PackageNames \cap Aliases = {}
    /\ MaxOffset \in Nat /\ MaxNesting \in Nat

VARIABLES
    scopes,     \* the lexicalScope chain, the file's first: [kind, declarations]
    blocks,     \* the blocks of the language the walk is in: what each declares
    nodes,      \* the statements the walk is in
    offset,     \* where the walk is: the next declaration
    last        \* the reference met last, bound by the collector and by the language

scopeVars == <<scopes, blocks, nodes, offset, last>>

NoDeclarations == [n \in Names |-> {}]
Scope(kind) == [kind |-> kind, declarations |-> NoDeclarations]
NoReference == [form |-> "none"]

ScopesInit ==
    /\ scopes = <<Scope("file")>>
    /\ blocks = <<>> /\ nodes = <<>>
    /\ offset = 0
    /\ last = NoReference

-----------------------------------------------------------------------------
(* Scopes *)

\* declare appends: a name may have several declarations in one scope.
Declared(scope, names, first) ==
    [scope EXCEPT !.declarations = [n \in Names |->
        IF n \in names THEN @[n] \cup {[name |-> n, at |-> first]} ELSE @[n]]]

WrongHasLocal(n) == \E i \in DOMAIN scopes : scopes[i].declarations[n] # {}
HasLocal(n) == Last(scopes).declarations[n] # {}

\* The values of a local var or const are walked twice: by collectExpressionReferences
\* as soon as their specification is declared, in the scope it is declared in, and with
\* the body.  The first walk does not enter the scopes of a literal, and there are none
\* yet of the later specifications of the group.
Initializers == {k \in DOMAIN nodes : nodes[k].kind = "spec"}
BodyWalk == 0
Walks == {BodyWalk} \cup Initializers
ScopesAt(k) == 1 + FoldSeq(LAMBDA node, sum : sum + node.pushed, 0, SubSeq(nodes, 1, k))
LaterIn(node) == node.pending \ node.spec
Seen(walk, i, n) ==
    CASE walk = BodyWalk -> scopes[i].declarations[n]
      [] walk # BodyWalk /\ i > ScopesAt(walk) -> {}
      [] OTHER -> scopes[i].declarations[n] \ LaterIn(nodes[walk])

\* lookupBeforePackage: the innermost scope that declares the name.
Lookup(walk, n) ==
    LET declaring == {i \in DOMAIN scopes : Seen(walk, i, n) # {}}
    IN  IF declaring = {} THEN {} ELSE Seen(walk, Max(declaring), n)

NearestFunction == Max({i \in DOMAIN scopes : scopes[i].kind = "function"} \cup {1})

-----------------------------------------------------------------------------
(* References *)

NoTarget == [none |-> TRUE]
Unresolved == [status |-> "unresolved", target |-> NoTarget]
Resolved(target) == [status |-> "resolved", target |-> target]
Imported(alias, n) == Resolved([alias |-> alias, name |-> n])
OfPackage(n) == Resolved([package |-> n])
Builtin(n) == [status |-> "external", target |-> [builtin |-> n]]

Candidates(found) ==
    IF Cardinality(found) = 1 THEN Resolved(CHOOSE d \in found : TRUE)
    ELSE [status |-> "ambiguous", target |-> NoTarget]

\* Local declarations, then the package's, then what is predeclared.
BindName(walk, n) ==
    IF Lookup(walk, n) # {} THEN Candidates(Lookup(walk, n))
    ELSE IF n \in PackageNames THEN OfPackage(n)
    ELSE IF n \in Builtins THEN Builtin(n)
    ELSE Unresolved

\* A qualifier no scope declares is an import or nothing; any other qualifier
\* is not looked at, and the selected name is bound as if it stood alone.
BindSelected(walk, base, n) ==
    IF base \in Names /\ Lookup(walk, base) = {}
    THEN IF base \in Aliases THEN Imported(base, n) ELSE Unresolved
    ELSE BindName(walk, n)

\* What the language binds: the innermost block, the package, the import, the
\* predeclared name.
LanguageBinds(n) ==
    LET declaring == {i \in DOMAIN blocks : blocks[i][n] # {}}
    IN  IF declaring # {} THEN Candidates(blocks[Max(declaring)][n])
        ELSE IF n \in PackageNames THEN OfPackage(n)
        ELSE IF n \in Builtins \ Aliases THEN Builtin(n)
        ELSE Unresolved

IsImport(n) == n \in Aliases /\ \A i \in DOMAIN blocks : blocks[i][n] = {}

-----------------------------------------------------------------------------
(* The walk *)

Room(n) == offset + n <= MaxOffset
\* pending: what it declares when it ends; spec: what of it the walk has come to.
Node(kind, pushed, pending) == [kind |-> kind, pushed |-> pushed, pending |-> pending, spec |-> pending]
Enter(node) == Len(nodes) < MaxNesting /\ nodes' = Append(nodes, node)
InFunction == blocks # <<>>
Statements == InFunction /\ Last(nodes).kind \in {"function", "block", "literal", "label"}
Expressions == InFunction /\ Last(nodes).kind # "ranged"
Block(names) == [n \in Names |-> IF n \in names THEN {[name |-> n, at |-> offset]} ELSE {}]
AddToBlock(names, at) ==
    blocks' = [blocks EXCEPT ![Len(blocks)] =
                 [n \in Names |-> @[n] \cup (IF n \in names THEN {[name |-> n, at |-> at]} ELSE {})]]
Forget == last' = NoReference

\* Why the collector may take a name for something else than the language
\* does: it is being declared by an open statement or later in its group, is also
\* a label or a method, is a parameter of a literal that its body assigns with :=,
\* or is declared by a literal in an initializer, whose scopes one of the walks
\* does not enter.
Pending(n) == {d \in UNION {nodes[i].pending : i \in DOMAIN nodes} : d.name = n}
NoVariables(i, n) ==
    scopes[i].declarations[n] \ (Pending(n) \cup UNION {blocks[j][n] : j \in DOMAIN blocks})
LabelOrMethod(n) ==
    \E i \in DOMAIN scopes : scopes[i].kind \in {"file", "function"} /\ NoVariables(i, n) # {}
AssignedParameter(n) ==
    \E i \in 1..(Len(scopes) - 1) :
        /\ scopes[i].kind = "function" /\ scopes[i + 1].kind = "body"
        /\ scopes[i].declarations[n] # {} /\ scopes[i + 1].declarations[n] # {}
OfInitializer(n) ==
    \E k \in Initializers, i \in DOMAIN scopes : i > ScopesAt(k) /\ scopes[i].declarations[n] # {}
Blurred(n) == Pending(n) # {} \/ LabelOrMethod(n) \/ AssignedParameter(n) \/ OfInitializer(n)

\* A function or method: the name of a method (and of init) is declared in the
\* file, its parameters and its body share one scope.
Function(method, parameters) ==
    /\ ~InFunction /\ Room(1)
    /\ scopes' = <<Declared(scopes[1], method, offset), Declared(Scope("function"), parameters, offset)>>
    /\ blocks' = <<Block(parameters)>>
    /\ nodes' = <<Node("function", 1, {})>>
    /\ offset' = offset + 1
    /\ Forget

\* if, for, switch, select, a clause, a block: a scope of its own.
OpenBlock ==
    /\ Statements
    /\ Enter(Node("block", 1, {}))
    /\ scopes' = Append(scopes, Scope("block"))
    /\ blocks' = Append(blocks, NoDeclarations)
    /\ UNCHANGED offset /\ Forget

\* A function literal: one scope for its parameters, one for its body.
Literal(parameters) ==
    /\ Expressions /\ Room(1)
    /\ Enter(Node("literal", 2, {}))
    /\ scopes' = scopes \o <<Declared(Scope("function"), parameters, offset), Scope("body")>>
    /\ blocks' = Append(blocks, Block(parameters))
    /\ offset' = offset + 1
    /\ Forget

\* names := ...: those the scope does not declare are new, at once for the
\* collector, after the statement for the language.
ShortDeclaration(names) ==
    /\ Statements /\ Room(1)
    /\ LET new == {n \in names : Last(blocks)[n] = {}}
       IN  /\ new # {}
           /\ Enter(Node("define", 0, {[name |-> n, at |-> offset] : n \in new}))
    /\ scopes' = [scopes EXCEPT ![Len(scopes)] =
                    Declared(@, {n \in names : ~HasLocal(n)}, offset)]
    /\ offset' = offset + 1
    /\ UNCHANGED blocks /\ Forget

\* var (...) or const (...): all specifications of the group, the first of which
\* declares some of the names, are declared before the values of one are walked
\* with the body; for the language each is after its values.
ValueSpecs(names, first) ==
    /\ Statements /\ Room(1)
    /\ \A n \in names : Last(blocks)[n] = {}
    /\ LET of(some) == {[name |-> n, at |-> offset] : n \in some}
       IN  Enter([kind |-> "spec", pushed |-> 0, pending |-> of(names), spec |-> of(first)])
    /\ scopes' = [scopes EXCEPT ![Len(scopes)] = Declared(@, names, offset)]
    /\ offset' = offset + 1
    /\ UNCHANGED blocks /\ Forget

\* From the values of one specification to those of the next.
NextSpec ==
    /\ InFunction /\ Last(nodes).kind = "spec"
    /\ LET node == Last(nodes)
       IN  /\ \E next \in (SUBSET LaterIn(node)) \ {{}} :
                nodes' = Append(Front(nodes), [node EXCEPT !.pending = LaterIn(node), !.spec = next])
           /\ blocks' = [blocks EXCEPT ![Len(blocks)] =
                [n \in Names |-> @[n] \cup {d \in node.pending \cap node.spec : d.name = n}]]
    /\ UNCHANGED <<scopes, offset>> /\ Forget

\* A type is declared within its own specification.
TypeSpec(n) ==
    /\ Statements /\ Room(1)
    /\ Last(blocks)[n] = {}
    /\ Enter(Node("type", 0, {}))
    /\ scopes' = [scopes EXCEPT ![Len(scopes)] = Declared(@, {n}, offset)]
    /\ AddToBlock({n}, offset)
    /\ offset' = offset + 1
    /\ Forget

\* for names := range ...: declared before the operand is walked.
RangeStatement(names) ==
    /\ Statements /\ Room(1)
    /\ Enter(Node("range", 1, {[name |-> n, at |-> offset] : n \in names}))
    /\ scopes' = Append(scopes, Declared(Scope("block"), names, offset))
    /\ blocks' = Append(blocks, NoDeclarations)
    /\ offset' = offset + 1
    /\ Forget

\* Its body, in which the language declares them.
RangeBody ==
    /\ InFunction /\ Last(nodes).kind = "range"
    /\ Len(nodes) < MaxNesting
    /\ nodes' = Append(Front(nodes), Node("ranged", 1, {})) \o <<Node("block", 1, {})>>
    /\ scopes' = Append(scopes, Scope("block"))
    /\ blocks' = Front(blocks) \o
                 <<[n \in Names |-> {d \in Last(nodes).pending : d.name = n}], NoDeclarations>>
    /\ UNCHANGED offset /\ Forget

\* A label is declared in the function, among its variables.
Label(n) ==
    /\ Statements /\ Room(1)
    /\ NoVariables(NearestFunction, n) = {}
    /\ Enter(Node("label", 0, {}))
    /\ scopes' = [scopes EXCEPT ![NearestFunction] = Declared(@, {n}, offset)]
    /\ offset' = offset + 1
    /\ UNCHANGED blocks /\ Forget

\* The marker of the node says how many scopes it leaves.
Left(node) == SubSeq(scopes, 1, Len(scopes) - node.pushed)

Leave ==
    /\ InFunction /\ Last(nodes).kind # "range" /\ LaterIn(Last(nodes)) = {}
    /\ LET node == Last(nodes)
       IN  /\ scopes' = Left(node)
           /\ IF node.pushed > 0
              THEN blocks' = Front(blocks)
              ELSE blocks' = [blocks EXCEPT ![Len(blocks)] =
                     [n \in Names |-> @[n] \cup {d \in node.pending : d.name = n}]]
    /\ nodes' = Front(nodes)
    /\ UNCHANGED offset /\ Forget

\* What several walks found at one place is one reference, and the sort before that
\* is not stable: any of them may be the one that is kept.  A reference changes nothing
\* of the walk, so one at each place is enough (last = NoReference).
Use(n) ==
    /\ Expressions /\ last = NoReference
    /\ LanguageBinds(n) # Unresolved
    /\ \E walk \in Walks :
         last' = [form |-> "identifier", answer |-> BindName(walk, n), truth |-> LanguageBinds(n),
                  blurred |-> Blurred(n)]
    /\ UNCHANGED <<scopes, blocks, nodes, offset>>

\* The walk that enters no literal takes the names declared in one for references.
UseOfDeclared(n) ==
    /\ Expressions /\ last = NoReference
    /\ \E k \in Initializers :
         /\ \E i \in DOMAIN scopes : i > ScopesAt(k) /\ scopes[i].declarations[n] # {}
         /\ last' = [form |-> "declared", answer |-> BindName(k, n), truth |-> Unresolved, blurred |-> TRUE]
    /\ UNCHANGED <<scopes, blocks, nodes, offset>>

SelectImported(alias, n) ==
    /\ Expressions /\ last = NoReference
    /\ IsImport(alias)
    /\ \E walk \in Walks :
         last' = [form |-> "imported", answer |-> BindSelected(walk, alias, n), truth |-> Imported(alias, n),
                  blurred |-> Blurred(alias)]
    /\ UNCHANGED <<scopes, blocks, nodes, offset>>

\* A field or method of a value: of a variable, or of an expression.
SelectOfValue(base, n) ==
    /\ Expressions /\ last = NoReference
    /\ base \in Names => LanguageBinds(base).status = "resolved"
    /\ \E walk \in Walks :
         last' = [form |-> "member", answer |-> BindSelected(walk, base, n), truth |-> Unresolved,
                  blurred |-> TRUE]
    /\ UNCHANGED <<scopes, blocks, nodes, offset>>

SmallSets == {s \in SUBSET Names : Cardinality(s) \in 1..2}
ScopesNext ==
    \/ \E method \in {{}} \cup {{n} : n \in Names}, parameters \in {{}} \cup {{n} : n \in Names} :
          Function(method, parameters)
    \/ OpenBlock \/ RangeBody \/ NextSpec \/ Leave
    \/ \E n \in Names : Literal({n}) \/ TypeSpec(n) \/ RangeStatement({n}) \/ Label(n) \/ Use(n) \/ UseOfDeclared(n)
    \/ \E names \in SmallSets : \E first \in (SUBSET names) \ {{}} : ValueSpecs(names, first)
    \/ \E names \in SmallSets : ShortDeclaration(names)
    \/ \E base, n \in Names : SelectImported(base, n) \/ SelectOfValue(base, n)
    \/ \E n \in Names : SelectOfValue("expression", n)

ScopesSpec == ScopesInit /\ [][ScopesNext]_scopeVars

-----------------------------------------------------------------------------
(* Properties *)

\* Whatever is nested, shadowed and redeclared, a name is bound to what the
\* language binds it to, and a qualified name to the import it is qualified
\* with, by each walk that meets it; except for the six ways in which the
\* collector is blurred.
ReferencesExact ==
    last = NoReference \/ last.blurred \/ last.answer = last.truth

=============================================================================
