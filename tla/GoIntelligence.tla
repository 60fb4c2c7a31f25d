---------------------------- MODULE GoIntelligence ----------------------------
(***************************************************************************)
(* The Go language engines (backend/lie/golang): the syntax inventory, the *)
(* proofs of which package an import path names, and the semantic facts    *)
(* that join the two. They run after the engines of RepositoryIntelligence *)
(* when the repository has Go files, and read the directory again: sources *)
(* for the syntax, manifests for the proofs, both once more before a fact  *)
(* is derived, when what changed since is stale.                           *)
(*                                                                         *)
(* Import paths, like file paths, are sequences of names. The digest of a  *)
(* content is the content itself.                                          *)
(***************************************************************************)
EXTENDS RepositoryIntelligence

CONSTANTS
  PathNames,   \* what paths and import paths are made of
  TestFiles,   \* base names that end in _test.go
  Exported,    \* the identifiers that start with a capital letter
  Predeclared, \* the identifiers of the universe scope
  PredeclaredTypes

NoRoot == <<"..">>    \* no module, or a path outside the repository
NoPackage == <<>>     \* a package is <<directory, name>>

(* What a Go source holds, and what a manifest declares:                    *)
(*   [kind |-> "go", package, imports, declares, types, methods, refs]      *)
(*     imports:  [path, alias] with "" for the default, "_" and "." as in Go *)
(*     declares: the names, types those of types; methods: receiver types;  *)
(*     refs: [name, qualifier], in expressions and in types alike           *)
(*   [kind |-> "gomod", module (<<>> when it does not parse), requires:     *)
(*     [path -> version], replaces: [old, version, target, filesystem]]     *)
(*   [kind |-> "gowork", uses, replaces]                                    *)
(*     either with vendoring: is its Go version one that vendors by itself? *)
(*   [kind |-> "vendor", packages: set of [path, module, version]]          *)

\* What a directory may hold: a file that can be read is what its name says.
\* Paths have no "..", and only a replacement by a directory has a target.
Replacements(e) ==
  \A r \in e.replaces :
    r.old \in Seq(PathNames) /\ r.target \in Seq(PathNames) /\ (~r.filesystem => r.target = NoRoot)

\* A rule of an ignore file; a pattern of several segments has a slash.
IgnoreRules ==
  {r \in [pattern : Seq(PathNames \cup {"*"}), anchored : BOOLEAN, directory : BOOLEAN,
          negated : BOOLEAN] :
     Len(r.pattern) = 1 \/ (Len(r.pattern) > 1 /\ r.anchored)}

WellFormed(p, e) ==
  /\ p \in Seq(PathNames) /\ p # <<>> /\ p[1] # ".."
  /\ e.kind \notin {"dir", "locked"} =>
       /\ BaseName(p) \in DOMAIN LanguageOf /\ LanguageOf[BaseName(p)] = "Go" =>
            \/ e.kind \in {"broken", "large"}
            \/ e.kind = "go" /\ \A i \in e.imports : i.path \in Seq(PathNames)
       /\ BaseName(p) = ".gitignore" => e.rules \in Seq(IgnoreRules)
       /\ BaseName(p) = "go.mod" => e.module \in Seq(PathNames) /\ Replacements(e)
       /\ BaseName(p) = "go.work" => Replacements(e)

\* What holds an entry is a folder, which one may be forbidden to enter.
TreeShaped(t) ==
  \A p \in DOMAIN t : \A q \in Ancestors(p) :
    q \in DOMAIN t /\ t[q].kind \in {"dir", "locked"}

ASSUME DirectoryAssumption ==
  /\ {"go.mod", "go.work", "vendor", "modules.txt"} \subseteq PathNames
  /\ \A t \in Trees : IsFiniteSet(DOMAIN t) /\ TreeShaped(t) /\ \A p \in DOMAIN t : WellFormed(p, t[p])
  /\ \A e \in Edits : e[2] # NoFile => WellFormed(e[1], e[2])

GoOrder == Append(Append(Append(Order, "golang"), "go-package-identity"), "go-semantic")

NextGoEngine(name) ==
  /\ outcome = "running" /\ IsPrefix(Order, engines)
  /\ IsPrefix(Append(engines, name), GoOrder)
  /\ "Go" \in DOMAIN artifacts["language"].counts

-----------------------------------------------------------------------------
(* Syntax (lie/golang/implementation.go). *)

GoCandidates == {p \in SnapshotFiles : BaseName(p) \in DOMAIN LanguageOf
                                       /\ LanguageOf[BaseName(p)] = "Go"}

InSnapshot(paths) == paths \subseteq SnapshotFiles

(* The files and the languages must agree on how many Go files there are. *)
VerifyLanguageInventory ==
  artifacts["language"].counts["Go"] = Cardinality(GoCandidates)

(* A worker reads each file once; what cannot be read or parsed has failed, *)
(* what is too large is skipped. *)
ProcessFile(p) ==
  IF ~Readable(p) \/ tree[p].kind = "broken" THEN [status |-> "failed"]
  ELSE IF tree[p].kind = "large" THEN [status |-> "skipped"]
  ELSE [status |-> "parsed", digest |-> tree[p],
        package |-> <<Parent(p), tree[p].package>>]

ParseGo ==
  /\ NextGoEngine("golang") /\ ~ended
  /\ IF VerifyLanguageInventory
       THEN Executed("golang", [p \in GoCandidates |-> ProcessFile(p)])
       ELSE outcome' = "mismatch" /\ UNCHANGED <<tree, edits, ended, engines, artifacts>>

Parsed == {p \in DOMAIN artifacts["golang"] : artifacts["golang"][p].status = "parsed"}
Source(p) == artifacts["golang"][p].digest
PackageOf(p) == artifacts["golang"][p].package
Packages == {PackageOf(p) : p \in Parsed}
FilesOf(pkg) == {p \in Parsed : PackageOf(p) = pkg}
Importable(pkg) == \E p \in FilesOf(pkg) : BaseName(p) \notin TestFiles

-----------------------------------------------------------------------------
(* Package identity (lie/golang/packageidentity). read: the manifests of the *)
(* snapshot that could be read, with their contents. *)

(* The syntax must be of this snapshot. *)
IdentityInputAgrees == InSnapshot(DOMAIN artifacts["golang"])

ManifestPaths == {p \in SnapshotFiles :
  BaseName(p) \in {"go.mod", "go.work"} \/
  (BaseName(p) = "modules.txt" /\ Len(p) > 1 /\ p[Len(p) - 1] = "vendor")}

ReadManifests == [p \in {q \in ManifestPaths : Readable(q)} |-> tree[p]]

(* The roots of the modules that parsed. *)
Modules(read) == {Parent(p) : p \in {q \in DOMAIN read :
                    BaseName(q) = "go.mod" /\ read[q].module # <<>>}}
ModFile(root) == Append(root, "go.mod")
ModulePath(read, root) == read[ModFile(root)].module

Longest(S) == CHOOSE s \in S : \A t \in S : Len(t) <= Len(s)

NearestModule(read, dir) ==
  LET around == {r \in Modules(read) : IsPrefix(r, dir)}
  IN IF around = {} THEN NoRoot ELSE Longest(around)

\* Mutant: a nested module's packages count for the module around it too.
WrongPackagesAt(read, root, suffix) ==
  {pkg \in Packages : Importable(pkg) /\ pkg[1] = root \o suffix}

(* A module has the importable packages no module is nearer to, each at an *)
(* import path below its own. *)
Assigned(read, root) ==
  {pkg \in Packages : Importable(pkg) /\ NearestModule(read, pkg[1]) = root}

PackagesAt(read, root, suffix) == {pkg \in Assigned(read, root) : pkg[1] = root \o suffix}

Suffix(path, prefix) == SubSeq(path, Len(prefix) + 1, Len(path))

VendorFile(root) == Append(Append(root, "vendor"), "modules.txt")

Workspaces(read) ==
  {[kind |-> "workspace", root |-> Parent(p), modules |-> read[p].uses \cap Modules(read)] :
     p \in {q \in DOMAIN read : BaseName(q) = "go.work"}}

(* A context is vendored when its manifest's Go version is new enough. *)
Vendors(read, c) ==
  /\ VendorFile(c.root) \in DOMAIN read
  /\ read[IF c.kind = "single" THEN ModFile(c.root) ELSE Append(c.root, "go.work")].vendoring

(* The contexts an import can be resolved in: each module alone, each *)
(* workspace, either with its vendor folder, and a package no module contains. *)
Contexts(read) ==
  LET plain == {[kind |-> "single", root |-> r, modules |-> {r}] : r \in Modules(read)}
                 \cup Workspaces(read)
  IN plain \cup {[c EXCEPT !.kind = "vendor"] : c \in {d \in plain : Vendors(read, d)}}

(* Neither resolved nor external unless the candidates say so. *)
Decided(candidates, evidence) ==
  IF Cardinality(candidates) = 1
    THEN [status |-> "resolved", target |-> CHOOSE c \in candidates : TRUE, evidence |-> evidence]
    ELSE [status |-> IF candidates = {} THEN "unresolved" ELSE "ambiguous",
          target |-> NoPackage, evidence |-> evidence]

Targetless(status, evidence) == [status |-> status, target |-> NoPackage, evidence |-> evidence]

LongestMatching(read, path, roots) ==
  LET match == {r \in roots : IsPrefix(ModulePath(read, r), path)}
  IN {r \in match : \A s \in match : Len(ModulePath(read, s)) <= Len(ModulePath(read, r))}

VendorProof(read, path, owner, c) ==
  LET file     == VendorFile(c.root)
      requires == read[ModFile(owner)].requires
      declared == {d \in read[file].packages : d.path = path}
      valid    == {d \in declared : /\ d.module \in DOMAIN requires
                                    /\ requires[d.module] = d.version
                                    /\ IsPrefix(d.module, path)}
      here     == {pkg \in Packages : Importable(pkg) /\ pkg[1] = Parent(file) \o path}
  IN IF declared = {} THEN Targetless("external", {})
     ELSE IF valid = {} THEN Targetless("unresolved", {file})
     ELSE IF Cardinality(valid) = 1 THEN Decided(here, {file, ModFile(owner)})
     ELSE Targetless("ambiguous", {file, ModFile(owner)})

(* The replacements of one file that apply: of the longest old path, and the *)
(* ones for the required version before the ones for any. *)
Replacing(read, path, owner, file) ==
  LET requires == read[ModFile(owner)].requires
      match    == {r \in read[file].replaces :
                     /\ r.old \in DOMAIN requires /\ IsPrefix(r.old, path)
                     /\ r.version \in {"", requires[r.old]}}
      longest  == {r \in match : \A s \in match : Len(s.old) <= Len(r.old)}
  IN IF \E r \in longest : r.version # "" THEN {r \in longest : r.version # ""}
                                          ELSE longest

ReplacementProof(read, path, owner, file) ==
  LET chosen  == Replacing(read, path, owner, file)
      targets == {r \in chosen : r.target \in Modules(read)}
      evidence == {ModFile(owner), file} \cup {ModFile(r.target) : r \in targets}
  IN IF \E r \in chosen : r.filesystem
       THEN Decided(UNION {PackagesAt(read, r.target, Suffix(path, r.old)) : r \in targets}, evidence)
       ELSE Targetless("external", evidence)

Resolve(read, path, owner, c) ==
  LET match == LongestMatching(read, path, c.modules)
      work  == Append(c.root, "go.work")
  IN IF match # {}
       THEN Decided(UNION {PackagesAt(read, r, Suffix(path, ModulePath(read, r))) : r \in match},
                    {ModFile(r) : r \in match})
     ELSE IF c.kind = "vendor" THEN VendorProof(read, path, owner, c)
     ELSE IF c.kind = "workspace" /\ Replacing(read, path, owner, work) # {}
       THEN ReplacementProof(read, path, owner, work)
     ELSE IF Replacing(read, path, owner, ModFile(owner)) # {}
       THEN ReplacementProof(read, path, owner, ModFile(owner))
     ELSE Targetless("external", {})

Imports(pkg) == UNION {{i.path : i \in Source(p).imports} : p \in FilesOf(pkg)}

(* A package outside every module has its own context, in which nothing *)
(* resolves; one that only tests make up has none. *)
ProofsOf(read, pkg, path) ==
  LET owner == NearestModule(read, pkg[1])
      Proof(c) == LET r == Resolve(read, path, owner, c)
                  IN [package |-> pkg, path |-> path, context |-> c.kind, root |-> c.root,
                      status |-> r.status, target |-> r.target, evidence |-> r.evidence]
  IN IF owner # NoRoot THEN {Proof(c) : c \in {d \in Contexts(read) : owner \in d.modules}}
     ELSE IF Importable(pkg)
       THEN {[package |-> pkg, path |-> path, context |-> "unmanaged", root |-> pkg[1],
              status |-> "unresolved", target |-> NoPackage, evidence |-> {}]}
     ELSE {}

ProveIdentities ==
  LET read == ReadManifests
  IN /\ NextGoEngine("go-package-identity") /\ ~ended
     /\ IF IdentityInputAgrees
          THEN Executed("go-package-identity",
                 [read   |-> read,
                  proofs |-> UNION {UNION {ProofsOf(read, pkg, path) : path \in Imports(pkg)}
                                      : pkg \in Packages}])
          ELSE outcome' = "mismatch" /\ UNCHANGED <<tree, edits, ended, engines, artifacts>>

-----------------------------------------------------------------------------
(* Semantics (lie/golang/semantic). *)

(* The three artifacts come from the store, and must be of one another. *)
SemanticInput == [syntax |-> artifacts["golang"], identities |-> artifacts["go-package-identity"]]

SemanticInputAgrees ==
  /\ InSnapshot(DOMAIN SemanticInput.syntax)
  /\ \A f \in SemanticInput.identities.proofs :
       /\ {f.package, f.target} \subseteq Packages \cup {NoPackage}
       /\ InSnapshot(f.evidence) /\ f.evidence \subseteq DOMAIN SemanticInput.identities.read

(* A file is read again. One that has changed is stale, and only a verified *)
(* one is what was parsed; its digest says so. *)
VerifyFile(p) ==
  LET status == IF p \notin Parsed THEN artifacts["golang"][p].status
                ELSE IF ~Readable(p) THEN "failed"
                ELSE IF tree[p].kind = "large" THEN "skipped"
                ELSE IF tree[p] # Source(p) THEN "stale" ELSE "verified"
  IN [status |-> status, digest |-> IF status = "verified" THEN tree[p] ELSE NoFile]

\* Mutant: a manifest that can still be read counts as unchanged.
WrongFresh(proof) == \A e \in proof.evidence : Readable(e)

(* A proof holds while every manifest it cites is as it was read. *)
Fresh(proof) ==
  \A e \in proof.evidence : Readable(e) /\ tree[e] = artifacts["go-package-identity"].read[e]

Binding(status, target, stale) == [status |-> status, target |-> target, stale |-> stale]
NoBinding(status) == Binding(status, NoPackage, FALSE)

\* Mutant: the contexts in which the import resolves decide.
WrongCombineProofs(proofs) ==
  LET targets == {f.target : f \in proofs} \ {NoPackage}
  IN IF \E f \in proofs : ~Fresh(f) THEN Binding("unresolved", NoPackage, TRUE)
     ELSE IF Cardinality(targets) = 1
       THEN Binding("resolved", CHOOSE t \in targets : TRUE, FALSE)
     ELSE IF targets # {} THEN NoBinding("ambiguous")
     ELSE IF proofs # {} /\ \A f \in proofs : f.status = "external"
       THEN NoBinding("external")
     ELSE NoBinding("unresolved")

(* All contexts must agree, and one stale proof is enough to know nothing. *)
CombineProofs(proofs) ==
  LET statuses == {f.status : f \in proofs}
      targets  == {f.target : f \in proofs} \ {NoPackage}
  IN IF proofs = {} THEN NoBinding("unresolved")
     ELSE IF \E f \in proofs : ~Fresh(f) THEN Binding("unresolved", NoPackage, TRUE)
     ELSE IF "ambiguous" \in statuses \/ Cardinality(targets) > 1
       THEN NoBinding("ambiguous")
     ELSE IF statuses = {"resolved"}
       THEN Binding("resolved", CHOOSE t \in targets : TRUE, FALSE)
     ELSE IF statuses = {"external"} THEN NoBinding("external")
     ELSE NoBinding("unresolved")

(* One binding per import of a verified file; a default name is known once *)
(* the package is. *)
BindImport(p, i) ==
  LET b == CombineProofs({f \in artifacts["go-package-identity"].proofs :
                            f.package = PackageOf(p) /\ f.path = i.path})
  IN [status |-> b.status, target |-> b.target, stale |-> b.stale,
      file |-> p, path |-> i.path, alias |-> i.alias,
      name |-> IF i.alias # "" THEN i.alias
               ELSE IF b.status = "resolved" THEN b.target[2] ELSE ""]

(* texts: the verified files with what was read. A declaration is <<file, name>>; *)
(* two of a name in a package are ambiguous. *)
DeclaredIn(texts, pkg, name) ==
  {<<p, name>> : p \in {q \in DOMAIN texts : PackageOf(q) = pkg /\ name \in texts[q].declares}}

NotBound(status) == [status |-> status, target |-> {}]
Unbound == NotBound("unresolved")

Among(decls) ==
  CASE Cardinality(decls) = 0 -> Unbound
    [] Cardinality(decls) = 1 -> [status |-> "resolved", target |-> decls]
    [] OTHER                  -> NotBound("ambiguous")

(* x.Name: the one import that is called x here, and what was found in its *)
(* package. *)
ImportedName(named, name, found) ==
  LET b == CHOOSE c \in named : TRUE IN
  IF named = {} \/ name \notin Exported THEN Unbound
  ELSE IF Cardinality(named) > 1 THEN NotBound("ambiguous")
  ELSE IF b.status = "resolved" THEN found[b]
  ELSE NotBound(b.status)

(* Name: the package, then the dot imports, then the universe. *)
PlainName(texts, p, bindings, name) ==
  LET own  == DeclaredIn(texts, PackageOf(p), name)
      dots == UNION {DeclaredIn(texts, b.target, name) :
                b \in {c \in bindings : c.alias = "." /\ c.status = "resolved"}}
  IN IF own # {} THEN Among(own)
     ELSE IF name \in Exported /\ dots # {} THEN Among(dots)
     ELSE IF name \in Predeclared THEN NotBound("external")
     ELSE Unbound

Called(qualifier, mine) == {b \in mine : b.name = qualifier /\ b.name \notin {"", "_", "."}}

\* What a file's name or receiver is bound to.
Bound(p, name, qualifier, found) ==
  [file |-> p, name |-> name, qualifier |-> qualifier, status |-> found.status, target |-> found.target]

BindReference(texts, bindings, p, r) ==
  LET mine == {b \in bindings : b.file = p}
      named == Called(r.qualifier, mine)
  IN Bound(p, r.name, r.qualifier,
       IF r.qualifier # ""
         THEN ImportedName(named, r.name, [b \in named |-> Among(DeclaredIn(texts, b.target, r.name))])
         ELSE PlainName(texts, p, mine, r.name))

(* Types alone; one that shares its name with another declaration is not *)
(* resolved either. *)
TypesIn(texts, pkg, name) == {d \in DeclaredIn(texts, pkg, name) : name \in texts[d[1]].types}

AmongTypes(texts, pkg, name) ==
  IF TypesIn(texts, pkg, name) = {} THEN Unbound ELSE Among(DeclaredIn(texts, pkg, name))

(* The receiver types of methods are types of their own package. *)
BindReceiver(texts, p, type) == Bound(p, type, "", AmongTypes(texts, PackageOf(p), type))

(* A type as it is used: what the file declares under the name hides the rest *)
(* of the package; dot imports are not looked at. *)
TypeTarget(texts, p, name) ==
  IF name \in texts[p].declares \ texts[p].types THEN Unbound
  ELSE AmongTypes(texts, PackageOf(p), name)

BindTypeRelation(texts, bindings, p, r) ==
  LET mine == {b \in bindings : b.file = p}
      own  == TypeTarget(texts, p, r.name)
      named == Called(r.qualifier, mine)
  IN Bound(p, r.name, r.qualifier,
       IF r.qualifier # ""
         THEN ImportedName(named, r.name, [b \in named |-> AmongTypes(texts, b.target, r.name)])
         ELSE IF own = Unbound /\ r.name \in PredeclaredTypes
           THEN NotBound("external")
         ELSE own)

Facts(files, texts, bindings) ==
  [files      |-> files,
   bindings   |-> bindings,
   receivers  |-> UNION {{BindReceiver(texts, p, m) : m \in texts[p].methods} : p \in DOMAIN texts},
   relations  |-> UNION {{BindTypeRelation(texts, bindings, p, r) : r \in texts[p].refs} :
                            p \in DOMAIN texts},
   references |-> UNION {{BindReference(texts, bindings, p, r) : r \in texts[p].refs} :
                            p \in DOMAIN texts},
   seen       |-> tree]   \* history: the directory this engine read

ResolveSemantics ==
  LET files    == [p \in DOMAIN artifacts["golang"] |-> VerifyFile(p)]
      texts    == [p \in {q \in DOMAIN files : files[q].status = "verified"} |-> files[p].digest]
      bindings == UNION {{BindImport(p, i) : i \in Source(p).imports} : p \in DOMAIN texts}
  IN /\ NextGoEngine("go-semantic") /\ ~ended
     /\ IF SemanticInputAgrees
          THEN Executed("go-semantic", Facts(files, texts, bindings))
          ELSE outcome' = "mismatch" /\ UNCHANGED <<tree, edits, ended, engines, artifacts>>

GoFails ==
  /\ outcome = "running" /\ Len(engines) >= Len(Order) /\ ended
  /\ outcome' = "failed"
  /\ UNCHANGED <<tree, edits, ended, engines, artifacts>>
=============================================================================
