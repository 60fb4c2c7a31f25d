----------------------------- MODULE MCGoInterfaces -----------------------------
(***************************************************************************)
(* Packages of three files: types, methods and uses, each file of one kind *)
(* in every form, or two of them together.                                 *)
(***************************************************************************)
EXTENDS GoInterfaces

MCMethods == {"M", "N"}
Method(m, signature, pointer) == [name |-> m, signature |-> signature, pointer |-> pointer]
Content(declares, embeds, rejected, methods, uses) ==
    [declares |-> declares, embeds |-> embeds, rejected |-> rejected, methods |-> methods, uses |-> uses]
Types ==
    {Content({"T", "I"}, e, r, {}, {}) : e, r \in BOOLEAN}
    \cup {Content({"T", "I"}, e, FALSE, {Method("M", "required", TRUE)}, {}) : e \in BOOLEAN}
    \cup {Content({"T"}, FALSE, FALSE, {}, {})}
MethodFiles ==
    {Content({}, FALSE, FALSE, m, {}) :
        m \in {{Method("M", s, p)} : s \in {"required", "other"}, p \in BOOLEAN}
              \cup {{Method("N", "required", FALSE)}, {Method("N", "required", FALSE), Method("M", "required", FALSE)}}}
    \cup {Content({"I"}, FALSE, FALSE, {}, {})}
Usage(at, form, pointer) == [at |-> at, form |-> form, pointer |-> pointer]
UseSets ==
    {{Usage(1, form, p)} : form \in Forms, p \in BOOLEAN}
    \cup {{Usage(1, "var", FALSE), Usage(2, form, p)} : form \in Forms, p \in BOOLEAN}
    \cup {{Usage(1, "var", FALSE), Usage(1, "var", TRUE)}}
UseFiles ==
    {Content({}, FALSE, FALSE, {}, u) : u \in UseSets}
    \cup {Content({}, FALSE, FALSE, {Method("N", "required", FALSE)}, {Usage(1, "typed", p)}) : p \in BOOLEAN}
MCTypedPackages ==
    {[f \in 1..3 |-> CASE f = 1 -> t [] f = 2 -> m [] f = 3 -> u] :
        t \in Types, m \in MethodFiles, u \in UseFiles}
=============================================================================
