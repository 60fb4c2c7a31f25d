----------------------------- MODULE GoDependency -----------------------------
(***************************************************************************)
(* The Go dependency engine (backend/die/golang): it reads no file, only   *)
(* the artifacts of the engines before it, refuses them when they do not   *)
(* agree, and translates them into the graph the core (DependencyGraph)    *)
(* normalizes and analyzes. The artifacts are immutable, so it may run     *)
(* whenever the semantic facts exist.                                      *)
(***************************************************************************)
EXTENDS GoIntelligence

Semantic == artifacts["go-semantic"]
Identity == artifacts["go-package-identity"]

Verified(p) == Semantic.files[p].status = "verified"
ProofsFor(pkg, path) == {f \in Identity.proofs : f.package = pkg /\ f.path = path}
BindingsFor(p, i) == {b \in Semantic.bindings : b.file = p /\ b.path = i.path /\ b.alias = i.alias}

-----------------------------------------------------------------------------
(* Agreement between the artifacts. *)

(* Every record names files, packages, proofs and declarations that exist, and *)
(* a verified file is the one that was parsed. *)
SyntaxAgrees == InSnapshot(DOMAIN artifacts["golang"])

ProofsAgree ==
  \A f \in Identity.proofs :
    /\ f.package \in Packages /\ f.evidence \subseteq SnapshotFiles
    /\ f.context = "unmanaged" \/
         \E c \in Contexts(Identity.read) : c.kind = f.context /\ c.root = f.root
    /\ f.status = "resolved" => f.target \in Packages

SemanticsAgree ==
  /\ DOMAIN Semantic.files \subseteq DOMAIN artifacts["golang"]
  /\ \A p \in DOMAIN Semantic.files : Verified(p) =>
        p \in Parsed /\ Semantic.files[p].digest = Source(p)
  /\ \A b \in Semantic.bindings :
        b.file \in Parsed /\ \E i \in Source(b.file).imports : i.path = b.path /\ i.alias = b.alias
  /\ \A r \in Semantic.references :
        r.file \in Parsed /\ \A d \in r.target : d[1] \in Parsed

(* What an import of a file resolves to: a package, or why there is none. A *)
(* binding that the proofs do not carry is refused. *)
Boundary(resolution) == [resolution |-> resolution, target |-> NoPackage]

(* The first of its files, in the order of their ids, that is not verified. *)
Unsure(pkg) == {q \in FilesOf(pkg) : ~Verified(q)}
FirstUnsure(pkg) == Semantic.files[CHOOSE q \in Unsure(pkg) : TRUE].status

ResolveBound(p, b, proofs) ==
  IF b.status = "resolved" THEN
    IF \/ ~Verified(p) \/ b.target = NoPackage \/ proofs = {}
       \/ \E f \in proofs : f.status # "resolved" \/ f.target # b.target
      THEN Boundary("refused")
    ELSE IF Unsure(b.target) # {}
      THEN Boundary(IF FirstUnsure(b.target) = "stale" THEN "stale" ELSE "unresolved")
    ELSE [resolution |-> "local", target |-> b.target]
  ELSE IF b.target # NoPackage THEN Boundary("refused")
  ELSE IF b.status = "external" /\ (proofs = {} \/ \E f \in proofs : f.status # "external")
    THEN Boundary("refused")
  ELSE Boundary(b.status)

ResolveContext(p, i) ==
  LET bound == BindingsFor(p, i)
      b     == CHOOSE c \in bound : TRUE
  IN IF Semantic.files[p].status = "stale" THEN Boundary("stale")
     ELSE IF bound = {} THEN Boundary("unresolved")
     ELSE IF b.stale THEN Boundary("stale")
     ELSE ResolveBound(p, b, ProofsFor(PackageOf(p), i.path))

-----------------------------------------------------------------------------
(* The graph. *)

(* The module around a directory is the nearest root, of those that parsed. *)
OwnerOf(pkg) == NearestModule(Identity.read, pkg[1])

(* Outside the repository every package that imports a path has its own node, *)
(* one per context when a single context decides. *)
BoundaryNode(p, i) ==
  LET contexts == {<<f.context, f.root>> : f \in ProofsFor(PackageOf(p), i.path)}
  IN [importer |-> PackageOf(p), path |-> i.path,
      context  |-> IF Cardinality(contexts) = 1 THEN contexts ELSE {}]

ImportEdges(p, i) ==
  LET r  == ResolveContext(p, i)
      to == IF r.resolution = "local" THEN r.target ELSE BoundaryNode(p, i)
      from == OwnerOf(PackageOf(p))
  IN {[graph |-> "package", from |-> PackageOf(p), to |-> to, resolution |-> r.resolution],
      [graph |-> "file", from |-> p, to |-> to, resolution |-> r.resolution]}
     \cup (IF /\ r.resolution = "local" /\ from # NoRoot
              /\ OwnerOf(r.target) \notin {NoRoot, from}
             THEN {[graph |-> "module", from |-> from, to |-> OwnerOf(r.target),
                    resolution |-> "local"]} ELSE {})

(* A reference counts when both ends are verified and lie in different files. *)
ReferenceEdges ==
  UNION {{[graph |-> "reference", from |-> r.file, to |-> d[1], resolution |-> "local"] :
            d \in {e \in r.target : Verified(r.file) /\ Verified(e[1]) /\ r.file # e[1]}} :
           r \in {x \in Semantic.references : x.status = "resolved"}}

Translated ==
  (UNION {UNION {ImportEdges(p, i) : i \in Source(p).imports} : p \in Parsed})
    \cup ReferenceEdges

Contained ==
  {<<OwnerOf(pkg), pkg>> : pkg \in {q \in Packages : OwnerOf(q) # NoRoot}}
    \cup {<<PackageOf(p), p>> : p \in Parsed}

(* One handler: extraction, validation, translation. *)
AnalyzeDependencies ==
  /\ Semantic # NoResult /\ artifacts["go-dependency"] = NoResult /\ outcome # "mismatch"
  /\ IF /\ SyntaxAgrees /\ ProofsAgree /\ SemanticsAgree
        /\ \A e \in Translated : e.resolution # "refused"
       THEN /\ artifacts' = [artifacts EXCEPT !["go-dependency"] =
                               [edges |-> Translated, contained |-> Contained]]
            /\ UNCHANGED outcome
       ELSE outcome' = "mismatch" /\ UNCHANGED artifacts
  /\ UNCHANGED <<tree, edits, ended, engines>>
=============================================================================
