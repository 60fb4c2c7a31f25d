------------------------- MODULE RuntimeConfiguration -------------------------
(***************************************************************************)
(* What Load of internal/runtime/config makes of the four layers it is     *)
(* given, and what internal/runtime/postgres makes of the result: which    *)
(* pools are opened, as whom, how large and over which transport.          *)
(*                                                                         *)
(* A layer is a sequence of entries [name, value].  An entry of the        *)
(* environment or of the command line that no schema knows, a repeated     *)
(* name and a value of the wrong kind refuse the whole configuration.      *)
(***************************************************************************)
EXTENDS Integers, SequencesExt

CONSTANTS
    Requests,   \* [environment, arguments, provider] Load is asked with
    Files,      \* the entries of each configuration file there is
    Empty,      \* the empty text
    Malformed   \* a value no field accepts

ASSUME LayersAssumption ==
    /\ \A r \in Requests : /\ r.environment \in Seq(ToSet(r.environment))
                           /\ r.arguments \in Seq(ToSet(r.arguments))
    /\ \A f \in DOMAIN Files : Files[f] \in Seq(ToSet(Files[f]))

Profiles == {"local", "ci", "staging", "production"}
Guarded == {"staging", "production"}
Users == {"u1", "u2", "u3"}
SocketOrLoopback == {"socket", "localhost", "127.0.0.1"}
DnsNames == {"localhost", "db.example"}
Hosts == SocketOrLoopback \cup DnsNames \cup {"192.0.2.1"}
Secrets == {"combined", "ingest", "read", "retention"}
Roles == <<"ingest", "read", "retention">>

\* The fields of one pool.
UserOf == [ingest |-> "ingestUser", read |-> "readUser", retention |-> "retentionUser"]
MaxOf == [ingest |-> "ingestMax", read |-> "readMax", retention |-> "retentionMax"]
MinOf == [ingest |-> "ingestMin", read |-> "readMin", retention |-> "retentionMin"]
PoolFields == UNION {{UserOf[r], MaxOf[r], MinOf[r]} : r \in ToSet(Roles)}

\* The environment and the command line know fewer fields than a file.
Overridable ==
    PoolFields \cup {"profile", "level", "format", "host", "name", "user", "budget", "startup",
                     "tls", "clientCert", "clientKey", "serverName"}
FileFields == Overridable \cup {"lifetime", "jitter", "metrics"}

DefaultValues(profile) ==
    LET small == profile \notin Guarded
        size(n) == IF small THEN n ELSE Empty
    IN  [profile |-> profile, level |-> "info", format |-> IF profile = "local" THEN "text" ELSE "json",
         host |-> Empty, name |-> Empty, user |-> Empty, budget |-> size(4),
         ingestUser |-> Empty, ingestMax |-> size(4), ingestMin |-> size(0),
         readUser |-> Empty, readMax |-> size(4), readMin |-> size(0),
         retentionUser |-> Empty, retentionMax |-> size(4), retentionMin |-> size(0),
         startup |-> 30, lifetime |-> 3600, jitter |-> 300, metrics |-> TRUE,
         tls |-> IF small THEN "disabled" ELSE "verify-full",
         clientCert |-> Empty, clientKey |-> Empty, serverName |-> Empty]

-----------------------------------------------------------------------------
(* The layers *)

Names(entries) == {entries[i].name : i \in DOMAIN entries}
Once(entries) == \A i, j \in DOMAIN entries : entries[i].name = entries[j].name => i = j

\* A layer overrides, for the field f, what is below it.
Override(entries, f, below) ==
    IF f \in Names(entries)
    THEN entries[CHOOSE i \in DOMAIN entries : entries[i].name = f].value
    ELSE below

EnvironmentAccepted(entries) ==
    Once(entries) /\ Names(entries) \subseteq Overridable \cup Secrets \cup {"config-file"}

ArgumentsAccepted(entries) ==
    /\ Once(entries) /\ Names(entries) \subseteq Overridable \cup {"config-file"}
    /\ \A i \in DOMAIN entries : entries[i].value # Empty

FileAccepted(entries) ==
    /\ Once(entries) /\ Names(entries) \subseteq FileFields
    /\ \A i \in DOMAIN entries : entries[i].value # Malformed

\* The file the environment names, unless the command line names another.
ConfigFile(request) ==
    Override(request.arguments, "config-file", Override(request.environment, "config-file", Empty))

FileEntries(request) ==
    IF ConfigFile(request) = Empty THEN <<>> ELSE Files[ConfigFile(request)]

LayersAccepted(request) ==
    /\ EnvironmentAccepted(request.environment)
    /\ ArgumentsAccepted(request.arguments)
    /\ ConfigFile(request) = Empty \/ ConfigFile(request) \in DOMAIN Files
    /\ FileAccepted(FileEntries(request))

\* Later layers win, also with an empty value of the environment.
Layered(request, file, f, default) ==
    Override(request.arguments, f, Override(request.environment, f, Override(file, f, default)))

Stated(request) ==
    FileFields \cap UNION {Names(request.arguments), Names(request.environment),
                           Names(FileEntries(request))}
SelectedProfile(request) == Layered(request, FileEntries(request), "profile", "local")
Effective(request) ==
    LET file == FileEntries(request)
        default == DefaultValues(SelectedProfile(request))
    IN  [f \in FileFields |-> Layered(request, file, f, default[f])]

-----------------------------------------------------------------------------
(* The rules of buildRuntimeConfig *)

Sized(v, r) == v[MaxOf[r]] \in 1..v.budget /\ v[MinOf[r]] \in 0..v[MaxOf[r]]

\* Local and CI: the three pools are one, of one user, and its size is fixed.
CombinedAccepted(v) ==
    /\ v.budget = 4 /\ v.user \in Users
    /\ \A r \in ToSet(Roles) :
          /\ Sized(v, r) /\ v[UserOf[r]] = Empty
          /\ v[MaxOf[r]] = v[MaxOf["ingest"]] /\ v[MinOf[r]] = v[MinOf["ingest"]]

WrongWithinBudget(v) == \A r \in ToSet(Roles) : v[MaxOf[r]] <= v.budget
WithinBudget(v) == v.ingestMax + v.readMax + v.retentionMax <= v.budget

\* Staging and production: nothing about the pools comes from a default.
SeparateAccepted(v, stated) ==
    /\ v.user = Empty
    /\ PoolFields \cup {"budget"} \subseteq stated
    /\ v.budget \in 1..64
    /\ \A r \in ToSet(Roles) : v[UserOf[r]] \in Users /\ Sized(v, r)
    /\ IsInjective([i \in DOMAIN Roles |-> v[UserOf[Roles[i]]]])
    /\ WithinBudget(v)

TLSAccepted(v) ==
    /\ v.tls \in {"disabled", "verify-full"}
    /\ v.tls = "disabled" => v.profile \notin Guarded /\ v.host \in SocketOrLoopback
    /\ (v.clientCert = Empty) = (v.clientKey = Empty)
    /\ v.clientCert # Malformed /\ v.clientKey # Malformed
    /\ v.tls = "verify-full" /\ v.host \notin DnsNames => v.serverName # Empty
    /\ v.serverName # Empty => v.serverName \in DnsNames

ValuesAccepted(v) ==
    /\ v.startup \in 1..600 /\ v.lifetime \in 60..2592000
    /\ v.jitter \in 1..86400 /\ v.jitter <= v.lifetime
    /\ v.metrics \in BOOLEAN /\ v.host \in Hosts /\ v.name \notin {Empty, Malformed}
    /\ v.level \in (IF v.profile \in Guarded THEN {} ELSE {"debug"}) \cup {"info", "warn", "error"}
    /\ v.format \in (IF v.profile = "local" THEN {"text"} ELSE {}) \cup {"json"}

Accepted(v, stated) ==
    /\ ValuesAccepted(v)
    /\ IF v.profile \in Guarded THEN SeparateAccepted(v, stated) ELSE CombinedAccepted(v)
    /\ TLSAccepted(v)

-----------------------------------------------------------------------------
(* Secrets, and the plan of pools *)

PlanOf(profile) == IF profile \in Guarded THEN Roles ELSE <<"combined">>

\* provider is the set of injected providers, each the secrets it resolves;
\* the environment is the provider when none is injected, and never both.
SecretsResolved(request, profile) ==
    LET given == {i \in DOMAIN request.environment : request.environment[i].name \in Secrets}
        environment == {request.environment[i].name : i \in
                          {j \in given : request.environment[j].value # Empty}}
    IN  IF request.provider = {}
        THEN ToSet(PlanOf(profile)) \subseteq environment
        ELSE given = {} /\ \A resolves \in request.provider : ToSet(PlanOf(profile)) \subseteq resolves

Loads(request) ==
    /\ LayersAccepted(request)
    /\ SelectedProfile(request) \in Profiles
    /\ Accepted(Effective(request), Stated(request))
    /\ SecretsResolved(request, SelectedProfile(request))

\* A pool as it is opened: the combined one takes what the ingest pool says.
\* Without a server name the certificate must name the host.
Opened(v, plan) ==
    [plan |-> plan, host |-> v.host,
     user |-> IF plan = "combined" THEN v.user ELSE v[UserOf[plan]],
     connections |-> v[MaxOf[IF plan = "combined" THEN "ingest" ELSE plan]],
     certificate |-> IF v.tls = "disabled" THEN Empty
                     ELSE IF v.serverName = Empty THEN v.host ELSE v.serverName]

\* What Load answers: nothing, or the configuration the runtime keeps, with
\* its pools in the order they are opened.
Configured(v) ==
    [metrics |-> v.metrics,
     pools |-> [i \in DOMAIN PlanOf(v.profile) |-> Opened(v, PlanOf(v.profile)[i])]]
Loaded == [request \in Requests |-> IF Loads(request) THEN {Configured(Effective(request))} ELSE {}]
=============================================================================
