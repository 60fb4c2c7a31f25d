----------------------- MODULE RepositoryIntelligence -----------------------
(***************************************************************************)
(* The repository intelligence engines (backend/rie): an ordered pipeline  *)
(* that discovers the entries of a directory, drops the ignored ones, and  *)
(* derives language, framework and build inventories and their synthesis.  *)
(*                                                                         *)
(* The directory is nobody's: an editor may change it between two engines, *)
(* and each engine reads the files it needs for itself. Paths are sequences *)
(* of names; a file's content is what the engines tell apart of it: the    *)
(* rules of an ignore file, what the detectors find in a manifest, and, for *)
(* the engines of GoIntelligence, the declarations of a Go source.         *)
(***************************************************************************)
EXTENDS Naturals, FiniteSets, Sequences, SequencesExt

CONSTANTS
  Trees,        \* the directories a scan may start from: [path -> content]
  Edits,        \* the <<path, content>> pairs an editor may write; NoFile deletes
  LanguageOf,   \* [base name -> language], by extension (rie/language/config.go)
  Manifests,    \* the base names the framework engine inspects
  BuildFiles,   \* the base names a build detector reads
  Presence,     \* [base name -> findings] of the detectors that read nothing
  MaxEdits,     \* bound: edits while one pipeline runs
  Interruptible \* may the context end?

NoFile   == [kind |-> "none"]   \* an edit's deletion
Locked   == [kind |-> "locked"] \* present, but cannot be opened
Folder   == [kind |-> "dir"]
NoResult == [none |-> TRUE]     \* an artifact that is not in the store

VARIABLES
  tree,      \* the directory as it is now
  edits,     \* how often it has been edited
  ended,     \* has the context ended?
  engines,   \* the engines executed so far, in order
  artifacts, \* the store: [name -> artifact or NoResult]
  outcome    \* "running" | "done" | "failed" | "mismatch"
rieVars == <<tree, edits, ended, engines, artifacts, outcome>>

Parent(p)    == SubSeq(p, 1, Len(p) - 1)
BaseName(p)  == p[Len(p)]
Ancestors(p) == {SubSeq(p, 1, n) : n \in 1..(Len(p) - 1)}
IsFolder(t, p) == t[p].kind = "dir"
Readable(p)  == p \in DOMAIN tree /\ tree[p].kind \notin {"dir", "locked"}

-----------------------------------------------------------------------------
(* Ignore rules (rie/ignore). A pattern is a sequence of segments, "*" stands *)
(* for any one; it is anchored when it starts with or contains a slash. *)

(* A target is the path below the directory of the rule's file; the empty one *)
(* is that directory itself, which the pattern "*" matches too. *)
Segments(pattern, target) ==
  \/ /\ Len(pattern) = Len(target)
     /\ \A i \in 1..Len(pattern) : pattern[i] \in {"*", target[i]}
  \/ pattern = <<"*">> /\ target = <<>>

Matches(rule, target) ==
  IF rule.anchored THEN Segments(rule.pattern, target)
  ELSE Segments(rule.pattern, IF target = <<>> THEN <<>> ELSE <<Last(target)>>)

\* Mutant: a folder's rule hides the folder and not what is in it.
WrongRuleMatches(rule, target, isDir) ==
  Matches(rule, target) /\ (rule.directory => isDir)

(* A rule also matches what lies below a folder it matches, negated or not. *)
RuleMatches(rule, target, isDir) ==
  \/ Matches(rule, target) /\ (rule.directory => isDir)
  \/ \E parent \in Ancestors(target) : Matches(rule, parent)

(* The code's list of rules, as a set: rules are ordered by the depth of their *)
(* file, then by line; those of two files of one depth reach disjoint parts of *)
(* the tree, and their order decides nothing. *)
Before(r, s) ==
  Len(r.base) < Len(s.base) \/ (Len(r.base) = Len(s.base) /\ r.line < s.line)

(* The last rule that applies decides. *)
Ignored(rules, p, isDir) ==
  LET hits == {r \in rules :
                 /\ IsPrefix(r.base, p)
                 /\ RuleMatches(r.rule, SubSeq(p, Len(r.base) + 1, Len(p)), isDir)}
  IN hits # {} /\ ~(CHOOSE r \in hits : \A s \in hits : ~Before(r, s)).rule.negated

(* An ignore file that cannot be read now costs a warning. *)
IgnoreFiles(files) == {p \in files : BaseName(p) = ".gitignore" /\ Readable(p)}

LoadRules(files) ==
  UNION {{[base |-> Parent(file), line |-> i, rule |-> tree[file].rules[i]] :
            i \in DOMAIN tree[file].rules} : file \in IgnoreFiles(files)}

-----------------------------------------------------------------------------
(* The pipeline (rie/pipeline.go): engines in order, the first error ends it. *)

Order == <<"discovery", "ignore", "language", "framework", "build-package",
           "repository-metadata", "repository-intelligence-summary">>

NextEngine(name) == outcome = "running" /\ IsPrefix(Append(engines, name), Order)

Executed(name, artifact) ==
  /\ engines' = Append(engines, name)
  /\ artifacts' = [artifacts EXCEPT ![name] = artifact]
  /\ UNCHANGED <<tree, edits, ended, outcome>>

(* Every engine stops at an ended context: discovery and the others in their *)
(* loops, the syntheses before they start. *)
PipelineFails ==
  /\ outcome = "running" /\ Len(engines) < Len(Order)
  /\ \/ ended
     \/ engines = <<>> /\ \E p \in DOMAIN tree :
          tree[p].kind = "locked" /\ \E q \in DOMAIN tree : IsStrictPrefix(p, q)
  /\ outcome' = "failed"
  /\ UNCHANGED <<tree, edits, ended, engines, artifacts>>

(* The walk does not enter .git, and records that it saw one, anywhere. *)
Walked == {p \in DOMAIN tree : \A i \in DOMAIN p : p[i] # ".git"}

Discover ==
  /\ NextEngine("discovery") /\ ~ended
  /\ ~ \E p, q \in DOMAIN tree : tree[p].kind = "locked" /\ IsStrictPrefix(p, q)
  /\ Executed("discovery",
       [entries |-> Walked,
        folders |-> {p \in Walked : IsFolder(tree, p)},
        git     |-> \E p \in DOMAIN tree : BaseName(p) = ".git"])

(* run.Entries carries isDir from the walk; only the rules are read now. *)
Ignore ==
  LET found   == artifacts["discovery"]
      rules   == LoadRules(found.entries \ found.folders)
      kept    == {p \in found.entries : ~Ignored(rules, p, p \in found.folders)}
  IN /\ NextEngine("ignore") /\ ~ended
     /\ Executed("ignore",
          [entries |-> kept,
           files   |-> Cardinality(kept \ found.folders),
           isDir   |-> found.folders \cap kept,
           plain   |-> \A r \in rules : ~r.rule.negated])

SnapshotFiles == artifacts["ignore"].entries \ artifacts["ignore"].isDir

DetectLanguages ==
  LET detected == {p \in SnapshotFiles : BaseName(p) \in DOMAIN LanguageOf}
      counts   == [l \in {LanguageOf[BaseName(p)] : p \in detected} |->
                     Cardinality({p \in detected : LanguageOf[BaseName(p)] = l})]
  IN /\ NextEngine("language") /\ ~ended
     /\ Executed("language",
          [counts |-> counts, detected |-> Cardinality(detected),
           unknown |-> Cardinality(SnapshotFiles \ detected)])

(* A manifest that cannot be read or parsed costs a warning, not the run. *)
ReadableAmong(names) == {p \in SnapshotFiles : BaseName(p) \in names /\ Readable(p)}

DetectFrameworks ==
  LET inspected == ReadableAmong(Manifests)
  IN /\ NextEngine("framework") /\ ~ended
     /\ Executed("framework",
          [found |-> UNION {{<<f, p>> : f \in tree[p].frameworks} : p \in inspected},
           inspected |-> Cardinality(inspected)])

(* Findings are records with the kind, the tool and, for a workspace, its *)
(* members; they are merged by kind, tool and location. *)
DetectBuild ==
  /\ NextEngine("build-package") /\ ~ended
  /\ Executed("build-package",
       UNION ({{[location |-> Parent(p)] @@ f : f \in tree[p].findings} :
                 p \in ReadableAmong(BuildFiles)}
              \cup {{[location |-> Parent(p)] @@ f : f \in Presence[BaseName(p)]} :
                 p \in {q \in SnapshotFiles : BaseName(q) \in DOMAIN Presence}}))

-----------------------------------------------------------------------------
(* The syntheses read artifacts only. *)

ProjectLocations(build) ==
  {f.location : f \in {g \in build : g.kind \in {"package_manager", "build_system"}}}

Monorepo(build) ==
  \/ Cardinality(ProjectLocations(build)) >= 2
  \/ \E f \in build : f.kind = "workspace" /\ Cardinality(f.members) >= 2

Synthesize ==
  LET entries == artifacts["ignore"].entries
  IN /\ NextEngine("repository-metadata") /\ ~ended
     /\ Executed("repository-metadata",
          [topFolders |-> {Head(p) : p \in {q \in entries :
                             Len(q) > 1 \/ q \in artifacts["ignore"].isDir}},
           topFiles   |-> {Head(p) : p \in {q \in SnapshotFiles : Len(q) = 1}},
           languages  |-> artifacts["language"].counts,
           frameworks |-> {<<f[1], Parent(f[2])>> : f \in artifacts["framework"].found},
           projects   |-> ProjectLocations(artifacts["build-package"]),
           monorepo   |-> Monorepo(artifacts["build-package"]),
           modules    |-> UNION {{<<f.location, m>> : m \in f.members}
                            : f \in {g \in artifacts["build-package"] :
                                       g.kind = "workspace"}}])

(* The summary names, for every section, the artifact that answers for it. *)
Sections == [repository |-> "discovery", layout |-> "ignore", languages |-> "language",
             frameworks |-> "framework", build |-> "build-package",
             workspaces |-> "build-package", executive |-> "repository-metadata"]

Summarize ==
  /\ NextEngine("repository-intelligence-summary") /\ ~ended
  /\ Executed("repository-intelligence-summary", Sections)

-----------------------------------------------------------------------------
(* The directory's other users. *)

Edit ==
  /\ outcome = "running" /\ edits < MaxEdits
  /\ \E e \in Edits :
       /\ IF e[2] = NoFile THEN e[1] \in DOMAIN tree
          ELSE /\ \/ Parent(e[1]) = <<>>
                  \/ Parent(e[1]) \in DOMAIN tree /\ IsFolder(tree, Parent(e[1]))
               /\ \/ e[2].kind \in {"dir", "locked"}
                  \/ ~ \E p \in DOMAIN tree : IsStrictPrefix(e[1], p)
       /\ tree' = IF e[2] = NoFile
                    THEN [p \in {q \in DOMAIN tree : ~IsPrefix(e[1], q)} |-> tree[p]]
                    ELSE [p \in DOMAIN tree \cup {e[1]} |-> IF p = e[1] THEN e[2] ELSE tree[p]]
       /\ tree' # tree
  /\ edits' = edits + 1
  /\ UNCHANGED <<ended, engines, artifacts, outcome>>

EndContext ==
  /\ Interruptible /\ outcome = "running" /\ ~ended
  /\ ended' = TRUE
  /\ UNCHANGED <<tree, edits, engines, artifacts, outcome>>

RIEInit(names) ==
  /\ tree \in Trees /\ edits = 0 /\ ended = FALSE
  /\ engines = <<>> /\ artifacts = [n \in names |-> NoResult]
  /\ outcome = "running"

RIENext == \/ Discover \/ Ignore \/ DetectLanguages \/ DetectFrameworks
           \/ DetectBuild \/ Synthesize \/ Summarize
           \/ PipelineFails \/ Edit \/ EndContext
=============================================================================
