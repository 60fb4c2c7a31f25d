------------------------------ MODULE MCAnalysis ------------------------------
(***************************************************************************)
(* What TLC checks of the analysis of a repository: sessions over small    *)
(* directories that an editor changes while they are analyzed, and the     *)
(* scopes and the method sets of the semantic engine and the readers of    *)
(* the Go engines, which are machines of their own; a behaviour is one of  *)
(* the four, the others at rest.                                           *)
(***************************************************************************)
EXTENDS AnalysisSession, GoScopes, MCGoInterfaces, SourceReader, TLC

Go(pkg, imports, declares, refs) ==
  [kind |-> "go", package |-> pkg, imports |-> imports, declares |-> declares,
   types |-> declares \cap {"B", "T"}, methods |-> declares \cap {"T"}, refs |-> refs]
Import(path, alias) == [path |-> path, alias |-> alias]
Ref(qualifier, name) == [qualifier |-> qualifier, name |-> name]

Manifest(kind) == [kind |-> kind, frameworks |-> {}, findings |-> {}]
Managed == [kind |-> "package_manager", tool |-> "go", members |-> {}]
Module(path, requires, replaces) ==
  [Manifest("gomod") EXCEPT !.findings = {Managed}]
    @@ [module |-> path, requires |-> requires, replaces |-> replaces, vendoring |-> TRUE]
Plain(path) == Module(path, <<>>, {})
Broken == Plain(<<>>)
Replace(old, version, target) ==
  [old |-> old, version |-> version, target |-> target, filesystem |-> target # NoRoot]
Work(uses, replaces) ==
  [Manifest("gowork") EXCEPT !.findings =
     {[kind |-> "workspace", tool |-> "go", members |-> uses]}]
    @@ [uses |-> uses, replaces |-> replaces, vendoring |-> TRUE]
Vendor(packages) == Manifest("vendor") @@ [packages |-> packages]
Rule(pattern, anchored, directory, negated) ==
  [pattern |-> pattern, anchored |-> anchored, directory |-> directory, negated |-> negated]
IgnoreFile(rules) == Manifest("ignore") @@ [rules |-> rules]
Script == [kind |-> "text"]
Framed == [Manifest("json") EXCEPT !.frameworks = {"react"}]

\* Folders are implied by the files below them.
Dir(entries) ==
  entries @@ [p \in (UNION {Ancestors(q) : q \in DOMAIN entries}) \ DOMAIN entries |-> Folder]

A == Go("a", {Import(<<"m", "b">>, ""), Import(<<"fmt">>, "")}, {"A"},
        {Ref("b", "B"), Ref("fmt", "B"), Ref("", "len"), Ref("", "int")})
B == Go("b", {}, {"B", "T"}, {Ref("", "T")})

\* One module; b is a package of it, with a second file and a test.
OneModule == Dir(
  (<<"go.mod">> :> Plain(<<"m">>)) @@ (<<"a", "a.go">> :> A) @@ (<<"b", "b.go">> :> B)
  @@ (<<"b", "c.go">> :> Go("b", {}, {}, {Ref("", "B")}))
  @@ (<<"b", "a_test.go">> :> Go("b_test", {Import(<<"m", "b">>, ".")}, {}, {Ref("", "B")})))

\* A module inside another one, a file that does not parse, one that is too
\* large, and a folder with two packages.
Nested(inner) == Dir(
  (<<"go.mod">> :> Plain(<<"m">>)) @@ (<<"b", "go.mod">> :> inner)
  @@ (<<"a", "a.go">> :> A) @@ (<<"b", "b.go">> :> B) @@ (<<"b", "c.go">> :> [kind |-> "broken"])
  @@ (<<"a", "c.go">> :> [kind |-> "large"])
  @@ (<<"c", "a.go">> :> Go("c", {Import(<<"m", "d">>, "")}, {}, {Ref("d", "D")}))
  @@ (<<"d", "a.go">> :> Go("d", {}, {"D"}, {})) @@ (<<"d", "b.go">> :> Go("e", {}, {"D"}, {})))

\* A workspace of two modules that import each other, and a third one that is
\* reached by the workspace's replacement, or the module's own.
Workspace == Dir(
  (<<"go.work">> :> Work({<<"x">>, <<"y">>}, {Replace(<<"z">>, "v1", <<"z">>)}))
  @@ (<<"x", "go.mod">> :> Module(<<"mx">>, (<<"z">> :> "v1") @@ (<<"w">> :> "v1"),
                             {Replace(<<"z">>, "", <<"z">>), Replace(<<"w">>, "", NoRoot)}))
  @@ (<<"y", "go.mod">> :> Plain(<<"m">>)) @@ (<<"z", "go.mod">> :> Plain(<<"mz">>))
  @@ (<<"x", "a.go">> :> Go("x", {Import(<<"m">>, "n"), Import(<<"z">>, ""), Import(<<"w">>, "_")},
                            {"X"}, {Ref("n", "Y"), Ref("z", "Z")}))
  @@ (<<"y", "b.go">> :> Go("y", {}, {"Y"}, {}))
  @@ (<<"z", "b.go">> :> Go("z", {}, {"Z"}, {})))

\* Vendored code, and a package outside every module.
Vendoring == Dir(
  (<<"k", "go.mod">> :> Module(<<"k">>, <<"v">> :> "v1", {}))
  @@ (<<"k", "vendor", "modules.txt">> :>
        Vendor({[path |-> <<"v">>, module |-> <<"v">>, version |-> "v1"]}))
  @@ (<<"k", "vendor", "v", "b.go">> :> Go("v", {}, {"V"}, {}))
  @@ (<<"k", "a.go">> :> Go("k", {Import(<<"v">>, "")}, {}, {Ref("v", "V")}))
  @@ (<<"a", "a.go">> :> A))

\* No Go at all; nested ignore files and folders to exclude.
Ignoring == Dir(
  (<<".gitignore">> :> IgnoreFile(<<Rule(<<"out">>, FALSE, TRUE, FALSE),
                                    Rule(<<"p", "*">>, TRUE, FALSE, FALSE)>>))
  @@ (<<"p", "out", "x.py">> :> Script) @@ (<<"q", "out">> :> Script)
  @@ (<<"q", ".gitignore">> :> IgnoreFile(<<Rule(<<"x.py">>, FALSE, FALSE, FALSE)>>))
  @@ (<<"q", "x.py">> :> Script) @@ (<<"q", "r", "x.py">> :> Script)
  @@ (<<"q", "package.json">> :> Framed) @@ (<<"q", "Makefile">> :> Script)
  @@ (<<".git", "HEAD">> :> Script))

\* A folder the walk cannot enter.
Blocked == (<<"p">> :> Locked) @@ Dir(<<"p", "x.py">> :> Script)

MCTrees == {OneModule, Nested(Plain(<<"n">>)), Nested(Plain(<<"m", "b">>)), Workspace,
            Vendoring, Ignoring, Blocked}

MCEdits ==
  {<<<<"b", "b.go">>, Go("b", {}, {"A"}, {})>>, <<<<"b", "b.go">>, NoFile>>,
   <<<<"b", "go.mod">>, NoFile>>, <<<<"go.mod">>, Plain(<<"n">>)>>,
   <<<<"a", "a.go">>, Locked>>, <<<<"b", "c.go">>, B>>,
   <<<<"go.work">>, Work({<<"y">>}, {})>>, <<<<"x", "go.mod">>, Plain(<<"mx">>)>>,
   <<<<"y", "go.mod">>, Plain(<<"mx">>)>>, <<<<"k", "go.mod">>, [Module(<<"k">>, <<"v">> :> "v1", {}) EXCEPT !.vendoring = FALSE]>>,
   <<<<".gitignore">>, IgnoreFile(<<Rule(<<"b">>, TRUE, FALSE, FALSE)>>)>>,
   <<<<"q", ".gitignore">>, IgnoreFile(<<Rule(<<"out">>, FALSE, FALSE, TRUE)>>)>>}

MCPathNames ==
  {"go.mod", "go.work", "vendor", "modules.txt", "fmt", "m", "mx", "mz", "n", "w"}
    \cup Range(NoRoot) \cup (UNION {UNION {Range(p) : p \in DOMAIN t} : t \in MCTrees})

MCLanguageOf == [n \in {"a.go", "b.go", "c.go", "a_test.go"} |-> "Go"] @@ ("x.py" :> "Python")
MCPresence == "Makefile" :> {[kind |-> "build_system", tool |-> "make", members |-> {}]}

-----------------------------------------------------------------------------
MCTexts == {<<1, 2>>, <<2, 1>>, <<1, 2, 2>>}

-----------------------------------------------------------------------------
(* One of the four machines *)

VARIABLE machine

NoSession == SessionInit /\ tree = Blocked
NoTypedPackage ==
  /\ package = <<>> /\ disk = <<>> /\ files = <<>> /\ inventory = [phase |-> "none"]

NoReader ==
  /\ place = "nothing" /\ held = <<>> /\ reader = [step |-> "none"]
  /\ disturbed = 0 /\ history = {}

MCInit ==
  \/ machine = "session" /\ SessionInit /\ ScopesInit /\ NoTypedPackage /\ NoReader
  \/ machine = "scopes" /\ NoSession /\ ScopesInit /\ NoTypedPackage /\ NoReader
  \/ machine = "interfaces" /\ NoSession /\ ScopesInit /\ InterfacesInit /\ NoReader
  \/ machine = "reader" /\ NoSession /\ ScopesInit /\ NoTypedPackage /\ ReaderInit

MCNext ==
  /\ \/ machine = "session" /\ SessionNext /\ UNCHANGED <<scopeVars, interfaceVars, readerVars>>
     \/ machine = "scopes" /\ ScopesNext /\ UNCHANGED <<vars, interfaceVars, readerVars>>
     \/ machine = "interfaces" /\ InterfacesNext /\ UNCHANGED <<vars, scopeVars, readerVars>>
     \/ machine = "reader" /\ ReaderNext /\ UNCHANGED <<vars, scopeVars, interfaceVars>>
  /\ UNCHANGED machine

MCSpec == MCInit /\ [][MCNext]_<<vars, scopeVars, interfaceVars, readerVars, machine>>
=============================================================================
