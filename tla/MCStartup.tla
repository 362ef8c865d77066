------------------------------ MODULE MCStartup ------------------------------
(* One process that is given any configuration, up to what the section of   *)
(* its store tells apart, and another that uses the BoltDB file.            *)
EXTENDS Startup

CONSTANTS p1, p2,       \* processes
          good, endless \* directories of scripts

Base == [type |-> "mock", variant |-> "", place |-> "none",
         disk |-> FALSE, provider |-> "mock", key |-> "none", enabled |-> TRUE,
         frequency |-> 5, paths |-> <<good>>]

VariantsOf(type) ==
    CASE type = "sql"      -> {"", "sqlite", "postgres", "other"}
      [] type = "kv"       -> {"", "redis", "postgres_hstore", "boltdb",
                                "other"}
      [] type = "pgvector" -> {"", "cosine", "other"}
      [] OTHER             -> {""}

\* Every store, ...
StoreFiles == UNION {{[Base EXCEPT !.type = t, !.variant = v, !.place = w] :
                         v \in VariantsOf(t), w \in Values} : t \in Types}

\* ... every reasoning engine, every reflection, ...
EngineFiles == {[Base EXCEPT !.provider = r, !.key = k] :
                   r \in Providers, k \in Values}
ReflectionFiles == {[Base EXCEPT !.enabled = e, !.frequency = f] :
                       e \in BOOLEAN, f \in {-1, 0, 5}}

\* ... and scripts that fail, that never end, or that the file does not name.
ScriptFiles == {[Base EXCEPT !.paths = s] :
                   s \in {<<>>, <<endless, good>>, <<good, good>>}}

\* A chromem-go store that is to be on disk, and the BoltDB file.
OnDisk == [Base EXCEPT !.type = "chromemgo", !.place = "text", !.disk = TRUE]
Bolt == [Base EXCEPT !.type = "kv", !.variant = "boltdb"]

MCFiles == [p \in Procs |->
               IF p = p1
                 THEN StoreFiles \cup EngineFiles
                        \cup ReflectionFiles \cup ScriptFiles \cup {OnDisk}
                 ELSE {[Bolt EXCEPT !.paths = <<good, endless>>]}]

MCEnvironments == {{}, {"POSTGRES_URL", "OPENAI_API_KEY"},
                   {"COGMEM_LTM_SQL_DSN", "COGMEM_REDIS_ADDR", "PGVECTOR_URL",
                    "ANTHROPIC_API_KEY"}}

MCDefaultDirs == <<good>>
=============================================================================
