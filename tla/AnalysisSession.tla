---------------------------- MODULE AnalysisSession ----------------------------
(***************************************************************************)
(* The analysis adapter of the repository service                          *)
(* (backend/internal/service/repository/adapters): a session holds a       *)
(* source, runs the engines of the frozen profile over it, and writes each *)
(* artifact to a sealed spool file that lives until the session closes.    *)
(* The scan coordinator (ScanService) uses one session per flight: Prepare, *)
(* Analyze once, and Close when the flight ends, however it ends.          *)
(***************************************************************************)
EXTENDS GoDependency

CONSTANTS
  MaxArtifacts, \* the adapter's limit on artifacts per scan
  MaxStuck      \* bound: spool files that refuse to be removed; 0: no disk fault at all

VARIABLES
  phase,    \* "new" | "prepared" | "analyzing" | "result" | "failed" | "refused"
  source,   \* the authorized source: "none" | "held" | "closed"
  payloads, \* the sealed payloads the session owns, in order
  spools,   \* the spool files that exist
  stuck,    \* history: spool files whose removal failed
  closed    \* has the session been closed?
sessionVars == <<phase, source, payloads, spools, stuck, closed>>
vars == <<rieVars, sessionVars>>

-----------------------------------------------------------------------------
(* Every refusal after the source is resolved gives it back. *)
Refused(held) == phase' = "refused" /\ source' = IF held THEN "closed" ELSE "none"

Prepare ==
  /\ phase = "new"
  /\ \/ Refused(FALSE)                       \* context, profile or resolver
     \/ ~ended /\ Refused(TRUE)              \* fingerprint, root, spool folder, revision
     \/ ~ended /\ phase' = "prepared" /\ source' = "held"
  /\ UNCHANGED <<rieVars, payloads, spools, stuck, closed>>

(* A session is analyzed once; an ended context leaves it unused. *)
BeginAnalysis ==
  /\ phase = "prepared" /\ ~closed
  /\ phase' = IF ended THEN "failed" ELSE "analyzing"
  /\ UNCHANGED <<rieVars, source, payloads, spools, stuck, closed>>

-----------------------------------------------------------------------------
(* The frozen profile: seven engines, and three more when there is Go code. *)

GoPresent == "Go" \in DOMAIN artifacts["language"].counts
Contracts == IF GoPresent THEN GoOrder ELSE Order
EnginesDone == Len(engines) >= Len(Order) /\ engines = Contracts

RunEngine ==
  /\ phase = "analyzing" /\ UNCHANGED sessionVars
  /\ \/ Discover \/ Ignore \/ DetectLanguages \/ DetectFrameworks \/ DetectBuild
     \/ Synthesize \/ Summarize
     \/ ParseGo \/ ProveIdentities \/ ResolveSemantics
     \/ PipelineFails \/ (GoFails /\ ~EnginesDone)

EnginesFailed ==
  /\ phase = "analyzing" /\ outcome \in {"failed", "mismatch"} /\ ~EnginesDone
  /\ phase' = "failed"
  /\ UNCHANGED <<rieVars, source, payloads, spools, stuck, closed>>

(* Payloads are removed in reverse, each once; one that refuses stays. *)
Refusing(files) == {f \in SUBSET files : Cardinality(stuck \cup f) <= MaxStuck}

Removing(files, failed) ==
  /\ spools' = spools \ (files \ failed)
  /\ stuck' = stuck \cup failed

\* Mutant: the list is cleared before it is copied.
WrongCleanupPayloads(files) ==
  /\ \E failed \in Refusing(files \ Range(payloads)) : Removing(files \ Range(payloads), failed)
  /\ payloads' = <<>> /\ phase' = "failed"

(* What Analyze does on every failure once payloads exist. *)
CleanupPayloads(files) ==
  /\ \E failed \in Refusing(files) : Removing(files, failed)
  /\ payloads' = <<>> /\ phase' = "failed"

NextContract(name) == Len(payloads) < Len(Contracts) /\ Contracts[Len(payloads) + 1] = name

(* One artifact: created, encoded, synced, measured and scanned for the root's *)
(* path. Whatever goes wrong, the unfinished file is removed, then the others. *)
Materialize(name) ==
  /\ phase = "analyzing" /\ EnginesDone /\ NextContract(name)
  /\ \/ /\ ~ended
        /\ payloads' = Append(payloads, name) /\ spools' = spools \cup {name}
        /\ UNCHANGED <<stuck, phase>>
     \/ /\ ended \/ MaxStuck > 0
        /\ CleanupPayloads(Range(payloads) \cup {name})
  /\ UNCHANGED <<rieVars, source, closed>>

Conclude ==
  /\ phase = "analyzing" /\ EnginesDone /\ Len(payloads) = Len(Contracts)
  /\ IF Len(payloads) <= MaxArtifacts
       THEN phase' = "result" /\ UNCHANGED <<payloads, spools, stuck>>
       ELSE CleanupPayloads(Range(payloads))
  /\ UNCHANGED <<rieVars, source, closed>>

(* The coordinator closes under a context of its own, after success, failure, *)
(* or a scan that another process had begun. *)
Close ==
  /\ phase \in {"prepared", "result", "failed"} /\ ~closed
  /\ closed' = TRUE
  /\ \E failed \in Refusing(Range(payloads)) : Removing(Range(payloads), failed)
  /\ payloads' = <<>> /\ source' = "closed"
  /\ UNCHANGED <<rieVars, phase>>

-----------------------------------------------------------------------------
Around == phase \in {"prepared", "analyzing"} /\ UNCHANGED sessionVars

SessionInit ==
  /\ RIEInit(Range(GoOrder) \cup {"go-dependency"})
  /\ phase = "new" /\ source = "none" /\ payloads = <<>>
  /\ spools = {} /\ stuck = {} /\ closed = FALSE

SessionNext ==
  \/ Prepare \/ BeginAnalysis \/ RunEngine \/ EnginesFailed
  \/ \E name \in Range(GoOrder) : Materialize(name)
  \/ Conclude \/ Close
  \/ Around /\ ~EnginesDone /\ Edit
  \/ Around /\ EndContext
  \/ AnalyzeDependencies /\ UNCHANGED sessionVars

SessionSpec == SessionInit /\ [][SessionNext]_vars

-----------------------------------------------------------------------------
(* Properties *)

\* With plain rules the snapshot holds exactly the files git would leave: no
\* component of the path is excluded by a rule of an ignore file above it.
\* The code has one list for all files and matches parents by hand
\* (rie/ignore ruleMatchesTarget).
Excluded(rules, p) ==
  \E r \in rules, q \in Ancestors(p) \cup {p} :
    LET path == SubSeq(q, Len(r.base) + 1, Len(q))
    IN /\ IsStrictPrefix(r.base, q)
       /\ r.rule.directory => q # p
       /\ IF r.rule.anchored THEN Segments(r.rule.pattern, path)
                             ELSE r.rule.pattern[1] \in {"*", Last(path)}

IgnoreExact ==
  [][engines' = Append(engines, "ignore") =>
       LET found == artifacts["discovery"]
           files == found.entries \ found.folders
           rules == LoadRules(files)
       IN (\A r \in rules : ~r.rule.negated) =>
            artifacts'["ignore"].entries \cap files = {p \in files : ~Excluded(rules, p)}]_vars

\* Whatever is edited while they run, no engine refuses what the engines
\* before it produced: the counts of languages and Go files agree, bindings
\* follow from proofs, verified files are the parsed ones; and a name that is
\* resolved as a type is resolved to the same as a reference.
EnginesAgree ==
  /\ outcome # "mismatch"
  /\ Semantic # NoResult =>
       \A t \in Semantic.relations, r \in Semantic.references :
         t.status = "resolved" /\ <<r.file, r.name, r.qualifier>> = <<t.file, t.name, t.qualifier>> =>
           r.status = "resolved" /\ r.target = t.target

\* What Go itself would answer, from a set of manifests: the importing
\* module, an import path, and the package it names.
CanonicalPath(read, pkg) ==
  LET r == NearestModule(read, pkg[1]) IN ModulePath(read, r) \o Suffix(pkg[1], r)

Vendored(read, owner, path, pkg) ==
  \E root \in {Parent(Parent(q)) : q \in {m \in DOMAIN read : BaseName(m) = "modules.txt"}} :
    /\ pkg[1] = root \o <<"vendor">> \o path
    /\ \E d \in read[VendorFile(root)].packages :
         /\ d.path = path /\ d.module \in DOMAIN read[ModFile(owner)].requires
         /\ read[ModFile(owner)].requires[d.module] = d.version

Replaced(read, owner, path, pkg) ==
  \E file \in {m \in DOMAIN read : BaseName(m) = "go.work"} \cup {ModFile(owner)} :
    \E r \in read[file].replaces :
      /\ r.filesystem /\ r.old \in DOMAIN read[ModFile(owner)].requires
      /\ NearestModule(read, pkg[1]) = r.target
      /\ path = r.old \o Suffix(pkg[1], r.target)

Justified(read, importer, path, pkg) ==
  LET owner == NearestModule(read, importer[1]) IN
  /\ owner # NoRoot
  /\ \/ /\ NearestModule(read, pkg[1]) # NoRoot
        /\ CanonicalPath(read, pkg) = path
        /\ \E c \in Contexts(read) : {owner, NearestModule(read, pkg[1])} \subseteq c.modules
     \/ Vendored(read, owner, path, pkg)
     \/ Replaced(read, owner, path, pkg)

\* A proof is true of the manifests that were read, and inside one module it
\* is complete: it is resolved exactly when one package has the path.
ProofsExact ==
  Identity # NoResult =>
    \A f \in Identity.proofs :
      /\ f.status = "resolved" => Justified(Identity.read, f.package, f.path, f.target)
      /\ f.context = "single" =>
           LET named == {pkg \in Packages :
                           /\ Importable(pkg) /\ NearestModule(Identity.read, pkg[1]) = f.root
                           /\ CanonicalPath(Identity.read, pkg) = f.path}
           IN /\ Cardinality(named) = 1 => f.status = "resolved" /\ f.target \in named
              /\ Cardinality(named) > 1 => f.status = "ambiguous"

\* A local edge was true of the directory when the facts were derived,
\* although sources and manifests were read by earlier engines: the import or
\* the reference is there, the manifests of then still justify it, and what it
\* points to exists. (The modules are those whose manifests parsed.)
EdgesTrue ==
  artifacts["go-dependency"] # NoResult =>
    LET dir  == Semantic.seen
        read == [m \in {q \in DOMAIN Identity.read \cap DOMAIN dir :
                          /\ dir[q].kind = Identity.read[q].kind
                          /\ BaseName(q) = "go.mod" => Identity.read[q].module # <<>>}
                   |-> dir[m]]
        Go(p) == p \in DOMAIN dir /\ dir[p].kind = "go"
        Holds(pkg) == {p \in FilesOf(pkg) : Go(p) /\ dir[p].package = pkg[2]}
    IN \A e \in {x \in artifacts["go-dependency"].edges : x.resolution = "local"} :
         /\ e.graph = "package" =>
              /\ Holds(e.to) = FilesOf(e.to)
              /\ \E p \in Holds(e.from) : \E i \in dir[p].imports :
                   Justified(read, e.from, i.path, e.to)
         /\ e.graph = "module" =>
              \E p, q \in Parsed : \E i \in (IF Go(p) THEN dir[p].imports ELSE {}) :
                /\ NearestModule(read, Parent(p)) = e.from
                /\ NearestModule(read, Parent(q)) = e.to
                /\ Justified(read, PackageOf(p), i.path, PackageOf(q))
         /\ e.graph = "reference" =>
              /\ Go(e.from) /\ Go(e.to)
              /\ \E r \in dir[e.from].refs : r.name \in dir[e.to].declares

\* Whatever fails, no spool file and no source outlive the session, and until
\* then every artifact of a result can be opened; only files that refused to be
\* removed remain.
SessionReleases ==
  /\ (closed \/ phase = "refused") => spools \subseteq stuck /\ source # "held"
  /\ phase = "failed" => spools \subseteq stuck
  /\ phase = "result" /\ ~closed => Range(Contracts) \subseteq spools

=============================================================================
