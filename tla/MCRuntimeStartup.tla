-------------------------- MODULE MCRuntimeStartup --------------------------
(* Configurations of RuntimeStartup for TLC: a good file for a local, a CI  *)
(* and a production host, overridden in the environment and on the command  *)
(* line by one entry each.                                                  *)
EXTENDS RuntimeStartup

Entry(name, value) == <<[name |-> name, value |-> value]>>
LocalFile == Entry("host", "localhost") \o Entry("name", "db") \o Entry("user", "u1")
CiFile ==
    Entry("profile", "ci") \o Entry("host", "db.example") \o Entry("name", "db")
        \o Entry("user", "u1") \o Entry("tls", "verify-full") \o Entry("metrics", FALSE)
ProductionFile ==
    Entry("profile", "production") \o Entry("host", "db.example") \o Entry("name", "db")
        \o Entry("budget", 6)
        \o Entry("ingestUser", "u1") \o Entry("ingestMax", 2) \o Entry("ingestMin", 0)
        \o Entry("readUser", "u2") \o Entry("readMax", 3) \o Entry("readMin", 1)
        \o Entry("retentionUser", "u3") \o Entry("retentionMax", 1) \o Entry("retentionMin", 0)
MCFiles == [local |-> LocalFile, ci |-> CiFile, production |-> ProductionFile,
            broken |-> <<[name |-> "port", value |-> 1]>>]

Overrides ==
    {<<>>, Entry("profile", "production"), Entry("profile", "local"), Entry("profile", Malformed),
     Entry("host", "192.0.2.1"), Entry("host", "socket"), Entry("tls", "disabled"),
     Entry("serverName", "db.example"), Entry("serverName", Empty), Entry("clientCert", "file"),
     Entry("readMax", 4), Entry("readUser", "u1"), Entry("readUser", "u3"), Entry("budget", 4),
     Entry("budget", 64), Entry("level", "debug"), Entry("format", "text"), Entry("startup", 0),
     Entry("jitter", 4000)}
AllSecrets ==
    Entry("combined", "s") \o Entry("ingest", "s") \o Entry("read", "s") \o Entry("retention", "s")

MCRequests ==
    {[environment |-> Entry("config-file", file) \o override \o secrets, arguments |-> argument,
      provider |-> provider] :
        file \in DOMAIN MCFiles, override \in Overrides, argument \in Overrides,
        secrets \in {AllSecrets}, provider \in {{}}}
    \cup
    {[environment |-> Entry("config-file", "local") \o secrets, arguments |-> argument,
      provider |-> provider] :
        argument \in {<<>>, Entry("config-file", "production"), Entry("config-file", "missing"),
                      Entry("user", "u2") \o Entry("user", "u3")},
        secrets \in {<<>>, Entry("combined", "s"), Entry("combined", Empty), AllSecrets},
        provider \in {{}, {{"combined"}}, {Secrets}}}

\* One accepted configuration of one pool, for the run about the collector.
MCLocal ==
    {[environment |-> Entry("config-file", "local") \o AllSecrets, arguments |-> <<>>,
      provider |-> {}]}
=============================================================================
