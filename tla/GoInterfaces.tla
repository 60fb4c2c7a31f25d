------------------------------ MODULE GoInterfaces ------------------------------
(***************************************************************************)
(* What lie/golang/semantic says of a package in which a type T may        *)
(* implement an interface I: the workers verify its files one by one while *)
(* the directory changes, and the files that were read are type-checked    *)
(* together, without an importer.                                          *)
(*                                                                         *)
(* The package is what GoLanguageInventory recorded of it.  A file says    *)
(* what it declares, the methods of T it holds, whether its T embeds I,    *)
(* where it uses a T as an I, and whether it holds anything else the       *)
(* checker rejects, an import for one.                                     *)
(***************************************************************************)
EXTENDS Integers, FiniteSetsExt

CONSTANTS
    Files,              \* numbers: the files of the package in order of their paths
    Methods,            \* the methods I requires
    TypedPackages,      \* the packages considered, each a function on Files
    MaxPackageFiles,    \* Config.MaxPackageFiles
    MaxRelationships,   \* Config.MaxRelationships
    MaxUnread,          \* bound: files that are too large or change
    MaxFound            \* bound: relationships found of each other kind

Forms == {"var", "typed", "anonymous"}
Contents ==
    [declares : SUBSET {"T", "I"}, embeds : BOOLEAN, rejected : BOOLEAN,
     methods : SUBSET [name : Methods, signature : {"required", "other"}, pointer : BOOLEAN],
     uses : SUBSET [at : 1..2, form : Forms, pointer : BOOLEAN]]

ASSUME InterfacesAssumption ==
    /\ Files \subseteq Nat /\ IsFiniteSet(Files) /\ IsFiniteSet(Methods)
    /\ \A p \in TypedPackages : DOMAIN p = Files /\ \A f \in Files : p[f] \in Contents
    /\ MaxPackageFiles \in Nat \ {0} /\ MaxRelationships \in Nat \ {0} /\ MaxUnread \in Nat /\ MaxFound \in Nat

VARIABLES
    package,    \* what the files held when GoLanguageInventory was made
    disk,       \* what has become of each file since: "intact", "edited", "missing", "oversized"
    files,      \* SemanticFile.Status of each, "pending" before its worker came
    inventory   \* "none", "canceled", or what Resolve answers

interfaceVars == <<package, disk, files, inventory>>

Unread == {f \in Files : disk[f] # "intact"}

InterfacesInit ==
    /\ package \in TypedPackages
    /\ disk \in [Files -> {"intact", "oversized"}]
    /\ Cardinality(Unread) <= MaxUnread
    /\ files = [f \in Files |-> "pending"]
    /\ inventory = [phase |-> "none"]

-----------------------------------------------------------------------------
(* What go/types makes of some of the files *)

Declaring(fs, name) == {f \in fs : name \in package[f].declares}
OwnMethods(fs, m) == {d \in UNION {package[f].methods : f \in fs} : d.name = m}
Embeds(fs) == \E f \in Declaring(fs, "T") : package[f].embeds

\* The method sets of T and of *T: T's own methods hide those of an embedded I.
Signatures(fs, pointer, m) ==
    IF OwnMethods(fs, m) # {}
    THEN {d.signature : d \in {o \in OwnMethods(fs, m) : pointer \/ ~o.pointer}}
    ELSE IF Embeds(fs) THEN {"required"} ELSE {}
Missing(fs, pointer) == {m \in Methods : "required" \notin Signatures(fs, pointer, m)}
Implements(fs, pointer) == Missing(fs, pointer) = {}

Refers(f) ==
    (IF package[f].methods # {} \/ package[f].uses # {} THEN {"T"} ELSE {}) \cup
    (IF package[f].embeds \/ \E u \in package[f].uses : u.form # "anonymous" THEN {"I"} ELSE {})

\* Errors that are not about a T used as an I.
OtherErrors(fs) ==
    \/ \E f \in fs : package[f].rejected \/ \E name \in Refers(f) : Declaring(fs, name) = {}
    \/ \E name \in {"T", "I"} : Cardinality(Declaring(fs, name)) > 1
    \/ \E f, g \in fs : \E d \in package[f].methods, e \in package[g].methods :
          d.name = e.name /\ <<f, d>> # <<g, e>>

CannotUse(fs) ==
    UNION {{[file |-> f, at |-> u.at] : u \in {v \in package[f].uses : ~Implements(fs, v.pointer)}} : f \in fs}

-----------------------------------------------------------------------------
(* evaluateInterfaceSatisfaction *)

Read == {f \in Files : files[f] = "partial"}

Exact(name) == Cardinality(Declaring(Read, name)) = 1

Candidate(f, at, pointer) == [file |-> f, at |-> at, pointer |-> pointer]
Uses(form) == UNION {{Candidate(f, u.at, u.pointer) : u \in {v \in package[f].uses : v.form = form}} : f \in Read}

\* A variable of type I with a value that is written as a T; what is assigned,
\* passed or returned as an I and typed as a T; a T that embeds I.
VarCandidates == Uses("var")
TypedCandidates == Uses("typed")
EmbeddedCandidates == {Candidate(f, 0, FALSE) : f \in {g \in Declaring(Read, "T") : package[g].embeds}}

InterfaceCandidates ==
    IF Exact("T") /\ Exact("I") THEN VarCandidates \cup TypedCandidates \cup EmbeddedCandidates ELSE {}

\* One candidate for T and one for *T: the first in the package, with its place.
MergedCandidates ==
    {c \in InterfaceCandidates : \A d \in InterfaceCandidates :
        d.pointer = c.pointer => c.file < d.file \/ (c.file = d.file /\ c.at <= d.at)}

CandidateOnly ==
    /\ ~OtherErrors(Read)
    /\ \A error \in CannotUse(Read) : \E c \in MergedCandidates : c.file = error.file /\ c.at = error.at

WrongEvaluateCandidate(c) ==
    [pointer |-> c.pointer, missing |-> Missing(Read, TRUE), pointerRequired |-> c.pointer,
     status |-> IF ~CandidateOnly THEN "unknown" ELSE IF Implements(Read, TRUE) THEN "proven" ELSE "disproven"]
EvaluateCandidate(c) ==
    IF ~CandidateOnly
    THEN [pointer |-> c.pointer, status |-> "unknown", missing |-> {}, pointerRequired |-> FALSE]
    ELSE [pointer |-> c.pointer,
          status |-> IF Implements(Read, c.pointer) THEN "proven" ELSE "disproven",
          missing |-> Missing(Read, c.pointer),
          pointerRequired |-> ~Implements(Read, FALSE) /\ Implements(Read, TRUE)]

PackageLimited == Cardinality(Read) > MaxPackageFiles

Satisfaction == IF PackageLimited THEN {} ELSE {EvaluateCandidate(c) : c \in MergedCandidates}

-----------------------------------------------------------------------------
(* The relationships of the inventory, of which it keeps MaxRelationships *)

Least(a, b) == IF a <= b THEN a ELSE b
Excess(a, b) == IF a > b THEN a - b ELSE 0

Kinds == {"imports", "receivers", "relations", "references"}

\* References are cut as the files are collected and again as they are bound.
CollectedReferences(found) == Least(found.references, MaxRelationships)
ReferenceLimit(found) == Excess(MaxRelationships, found.imports + found.receivers + found.relations)
BoundReferences(found) == Least(CollectedReferences(found), ReferenceLimit(found))

\* What limitSemanticRelationships leaves, kind after kind.
Kept(found, satisfied) ==
    LET imports == Least(found.imports, MaxRelationships)
        receivers == Least(found.receivers, MaxRelationships - imports)
        relations == Least(found.relations, MaxRelationships - imports - receivers)
        references == Least(BoundReferences(found), MaxRelationships - imports - receivers - relations)
    IN  [imports |-> imports, receivers |-> receivers, relations |-> relations, references |-> references,
         satisfaction |-> Least(Least(satisfied, MaxRelationships),
                                MaxRelationships - imports - receivers - relations - references)]

\* statistics.OmittedRelationships
Omitted(found, satisfied) ==
    LET checked == Least(satisfied, MaxRelationships)
    IN  Excess(found.references, MaxRelationships)
        + Excess(CollectedReferences(found), ReferenceLimit(found))
        + (satisfied - checked)
        + Excess(found.imports + found.receivers + found.relations + BoundReferences(found) + checked,
                 MaxRelationships)

-----------------------------------------------------------------------------
(* Resolve *)

Resolving == inventory.phase = "none"

\* The size, the digest and the parser of the worker that takes the file.
VerifySource(f) ==
    /\ Resolving /\ files[f] = "pending"
    /\ files' = [files EXCEPT ![f] =
                   CASE disk[f] = "intact" -> "partial"
                     [] disk[f] = "edited" -> "stale"
                     [] disk[f] = "missing" -> "failed"
                     [] disk[f] = "oversized" -> "skipped"]
    /\ UNCHANGED <<package, disk, inventory>>

Evaluate ==
    /\ Resolving /\ \A f \in Files : files[f] # "pending"
    /\ \E found \in [Kinds -> 0..MaxFound] :
          LET satisfied == Cardinality(Satisfaction)
              kept == Kept(found, satisfied)
          IN  \E satisfaction \in kSubset(kept.satisfaction, Satisfaction) :
                inventory' = [phase |-> "resolved", satisfaction |-> satisfaction,
                              found |-> found, kept |-> kept, checked |-> satisfied,
                              omitted |-> Omitted(found, satisfied)]
    /\ UNCHANGED <<package, disk, files>>

Cancel ==
    /\ Resolving
    /\ inventory' = [phase |-> "canceled"]
    /\ UNCHANGED <<package, disk, files>>

\* Whoever else works in the directory.
Disturb(f) ==
    /\ Resolving /\ disk[f] = "intact" /\ Cardinality(Unread) < MaxUnread
    /\ disk' \in {[disk EXCEPT ![f] = "edited"], [disk EXCEPT ![f] = "missing"]}
    /\ UNCHANGED <<package, files, inventory>>

InterfacesNext == Evaluate \/ Cancel \/ \E f \in Files : VerifySource(f) \/ Disturb(f)

InterfacesSpec == InterfacesInit /\ [][InterfacesNext]_interfaceVars

-----------------------------------------------------------------------------
(* Properties *)

Answered == inventory.phase = "resolved"

\* A proof holds of the whole package, whichever of its files could be read and
\* whatever else is wrong with it, unless T embeds I; when every file was read,
\* each answer is exact, a refutation names the methods that are missing, and
\* nothing is unknown but for another error, a use of a T as an unnamed
\* interface, or a second place where T fails to be the same I.
SatisfactionExact ==
    Answered =>
      \A answer \in inventory.satisfaction :
        /\ answer.status = "proven" /\ (Embeds(Files) => Read = Files) => Implements(Files, answer.pointer)
        /\ Read = Files =>
             /\ answer.status = "disproven" => answer.missing = Missing(Files, answer.pointer)
                                               /\ answer.missing # {}
             /\ answer.status # "unknown" => ~OtherErrors(Files)
                     /\ answer.pointerRequired = (~Implements(Files, FALSE) /\ Implements(Files, TRUE))
             /\ answer.status = "unknown" =>
                  OtherErrors(Files) \/ \E f \in Files : \E u \in package[f].uses :
                    /\ ~Implements(Files, u.pointer)
                    /\ \/ u.form = "anonymous"
                       \/ \E g \in Files : g < f \/ package[g].embeds \/ \E v \in package[g].uses : g = f /\ v.at < u.at

\* However the budget is spent, what is kept stays within it and what is not
\* kept is counted.
OmissionsCounted ==
    Answered =>
      LET found == inventory.found
          kept == inventory.kept
          total == kept.imports + kept.receivers + kept.relations + kept.references + kept.satisfaction
      IN  /\ total <= MaxRelationships
          /\ total + inventory.omitted =
               found.imports + found.receivers + found.relations + found.references + inventory.checked

\* What Resolve answers of interfaces is true, and it says how much is left out.
InventoryTrue == SatisfactionExact /\ OmissionsCounted

-----------------------------------------------------------------------------
(* What the documents say and the code does not do *)

\* What is decided is decided on complete method sets: a method of T in a file
\* that could not be read neither makes a refutation false nor, by hiding a
\* method of an embedded I, a proof.
DecidedOnlyWhenComplete ==
    Answered => \A answer \in inventory.satisfaction :
                  answer.status # "unknown" => (answer.status = "proven") = Implements(Files, answer.pointer)
=============================================================================
