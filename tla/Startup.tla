------------------------------- MODULE Startup -------------------------------
(***************************************************************************)
(* How a program gets its client: NewCogMemFromConfig of                   *)
(* pkg/cogmem/cogmem.go with the loader of pkg/config/load.go.  The file   *)
(* is read, environment variables override it and it is validated; then    *)
(* the store is opened, the script directories are loaded one by one, and  *)
(* the reasoning engine and the client are made.                           *)
(*                                                                         *)
(* Nothing closes what a call has opened, not even one that fails: until   *)
(* its process ends it keeps the BoltDB file, whose lock bolt.Open waits   *)
(* for without a timeout, for ever if need be.  That file is always at the *)
(* default path, and chromem-go always in memory: neither path that a file *)
(* may give for them is used.                                              *)
(*                                                                         *)
(* A configuration is reduced to the section of the store in use.  Names   *)
(* are compared in lower case and are in lower case here, except for the   *)
(* name of the reasoning provider, which is not always.                    *)
(***************************************************************************)
EXTENDS Integers, Sequences

CONSTANTS
    Procs,          \* the processes, which make one call after the other
    Files,          \* the configuration files each process may be given
    Environments,   \* the sets of environment variables that may be set
    Dirs,           \* directories of Lua scripts
    Endless,        \* those with a script that loops when it is loaded
    DefaultDirs,    \* ./scripts, ../scripts, ../../scripts
    DefaultFrequency,
    NoOne           \* no process; no store; no engine

Types == {"", "mock", "sql", "kv", "chromemgo", "pgvector", "vector", "graph",
          "other"}

\* The driver of SQL, the provider of KV, the distance metric of pgvector.
Variants == {"", "sqlite", "postgres", "redis", "postgres_hstore", "boltdb",
             "cosine", "other"}

Providers == {"", "mock", "Mock", "openai", "anthropic", "other"}

\* How the file gives a DSN, address, collection or key: not at all, as a text,
\* or as a name like "${POSTGRES_URL}".
Values == {"none", "text", "placeholder"}

Configs == [type : Types, variant : Variants, place : Values,
            disk : BOOLEAN, \* chromem-go's storage_path is given
            provider : Providers, key : Values, enabled : BOOLEAN,
            frequency : Int, paths : Seq(Dirs)]

Stores == {"mock", "sqlite", "postgres", "bolt", "hstore", "chromem",
           "pgvector"}

ASSUME StartupAssumption ==
    /\ Files \in [Procs -> SUBSET Configs]
    /\ Endless \subseteq Dirs
    /\ DefaultDirs \in Seq(Dirs)
    /\ DefaultFrequency \in Nat \ {0}
    /\ NoOne \notin Procs \cup Configs \cup Stores \cup {"openai"}

VARIABLES
    environment,    \* the environment variables that are set
    holder,         \* the process that has the BoltDB file open
    stage,          \* where each process's last call is
    file,           \* the configuration file of that call
    todo,           \* the script directories it has yet to load
    client,         \* what it has made so far
    cause           \* why it was refused

startVars == <<environment, holder, stage, file, todo, client, cause>>

Busy == {"store", "initialize", "scripts", "looping"}

Causes == {"none", "unreadable", "invalid", "unsupported", "unplaced", "failed"}

Places == Values \cup {"memory", "default", "environment"}

Clients == [store : Stores \cup {NoOne}, place : Places, scripts : BOOLEAN,
            engine : {"mock", "openai", NoOne}, frequency : Nat \ {0}]

NoClient == [store |-> NoOne, place |-> "none", scripts |-> FALSE,
             engine |-> NoOne, frequency |-> DefaultFrequency]

StartInit ==
    /\ environment \in Environments
    /\ holder = NoOne
    /\ stage = [p \in Procs |-> "idle"]
    /\ file = [p \in Procs |-> NoOne]
    /\ todo = [p \in Procs |-> <<>>]
    /\ client = [p \in Procs |-> NoClient]
    /\ cause = [p \in Procs |-> "none"]

Enter(p, s) == stage' = [stage EXCEPT ![p] = s]

\* An error is returned; what was opened stays open.
RefuseCall(p, why) ==
    /\ Enter(p, "refused")
    /\ cause' = [cause EXCEPT ![p] = why]
    /\ client' = [client EXCEPT ![p] = NoClient]
    /\ todo' = [todo EXCEPT ![p] = <<>>]

-----------------------------------------------------------------------------
(* The configuration loader.                                               *)

\* The variables that override a field of the file, by section; none does for
\* hstore, and the URL of chromem-go is not used.
Overriders == {<<"sql", "COGMEM_LTM_SQL_DSN">>,
               <<"redis", "COGMEM_REDIS_ADDR">>,
               <<"pgvector", "PGVECTOR_URL">>,
               <<"openai", "OPENAI_API_KEY">>,
               <<"anthropic", "ANTHROPIC_API_KEY">>}

Section(c) == IF c.type = "kv" THEN c.variant ELSE c.type

Override(section, value) ==
    IF \E v \in environment : <<section, v>> \in Overriders THEN "text"
                                                           ELSE value

\* applyEnvironmentOverrides.
Overridden(c) == [c EXCEPT !.place = Override(Section(c), @),
                           !.key   = Override(c.provider, @)]

StoreValid(c) ==
    \/ c.type = "mock"
    \/ c.type = "sql" /\ c.variant # "" /\ c.place # "none"
    \/ c.type = "kv" /\ c.variant = "boltdb"
    \/ /\ c.type = "kv"
       /\ c.variant \in {"redis", "postgres_hstore"}
       /\ c.place # "none"
    \/ c.type = "chromemgo" /\ c.place # "none"
    \/ c.type = "pgvector" /\ c.variant \in {"", "cosine"} /\ c.place # "none"

\* Unlike the others, the name "mock" is compared as it is written.
ProviderValid(c) ==
    \/ c.provider \in {"mock", "openai"}
    \/ c.provider = "anthropic" /\ c.key # "none"

\* Mutant: a DSN is not asked for.
ValidUnplaced(c) ==
    /\ c.type = "sql" \/ StoreValid(c)
    /\ ProviderValid(c)

\* validateConfig.
Valid(c) == StoreValid(c) /\ ProviderValid(c)

\* validateConfig also replaces a frequency that is no frequency.
FrequencyOf(c) == IF c.frequency <= 0 THEN DefaultFrequency ELSE c.frequency

\* LoadFromFile, at the start of NewCogMemFromConfig.
LoadConfig(p, c) ==
    /\ stage[p] \notin Busy
    /\ file' = [file EXCEPT ![p] = c]
    /\ \/ RefuseCall(p, "unreadable")
       \/ ~Valid(Overridden(c)) /\ RefuseCall(p, "invalid")
       \/ /\ Valid(Overridden(c))
          /\ Enter(p, "store")
          /\ client' = [client EXCEPT ![p] = NoClient]
          /\ cause' = [cause EXCEPT ![p] = "none"]
          /\ todo' = [todo EXCEPT ![p] = <<>>]
    /\ UNCHANGED <<environment, holder>>

-----------------------------------------------------------------------------
(* initLTMStore and initPgVectorStore.                                     *)

StoreOf(c) ==
    CASE c.type \in {"mock", ""}                             -> "mock"
      [] c.type = "sql" /\ c.variant \in {"sqlite", ""}      -> "sqlite"
      [] c.type = "sql" /\ c.variant = "postgres"            -> "postgres"
      [] c.type = "kv" /\ c.variant \in {"boltdb", ""}       -> "bolt"
      [] c.type = "kv" /\ c.variant = "postgres_hstore"      -> "hstore"
      [] c.type \in {"chromemgo", "vector"}                  -> "chromem"
      [] c.type = "pgvector"                                 -> "pgvector"
      [] OTHER                                               -> NoOne

FromEnvironment == IF "POSTGRES_URL" \in environment THEN "environment"
                                                     ELSE "none"

\* Where the data are; only pgvector knows a placeholder.
PlaceOf(c) ==
    CASE StoreOf(c) \in {"mock", "chromem"} -> "memory"
      [] StoreOf(c) = "bolt"      -> "default"
      [] StoreOf(c) = "sqlite"    -> IF c.place = "none" THEN "default"
                                                         ELSE c.place
      [] StoreOf(c) \in {"postgres", "hstore"} ->
             IF c.place = "none" THEN FromEnvironment ELSE c.place
      [] StoreOf(c) = "pgvector"  -> IF c.place = "text" THEN "text"
                                                         ELSE FromEnvironment
      [] OTHER                    -> c.place

\* The PostgreSQL drivers take a name in braces for a malformed DSN.
Opens(store, place) ==
    store \in {"postgres", "hstore"} => place # "placeholder"

StoreReady(p, c) ==
    /\ Enter(p, "scripts")
    /\ client' = [client EXCEPT ![p].store = StoreOf(c),
                                ![p].place = PlaceOf(c)]
    /\ todo' = [todo EXCEPT ![p] = IF c.paths = <<>> THEN DefaultDirs
                                                     ELSE c.paths]
    /\ UNCHANGED cause

OpenStore(p) ==
    LET c == Overridden(file[p])
    IN  /\ stage[p] = "store"
        /\ StoreOf(c) # "bolt"
        /\ \/ StoreOf(c) = NoOne /\ RefuseCall(p, "unsupported")
           \/ PlaceOf(c) = "none" /\ RefuseCall(p, "unplaced")
           \/ /\ PlaceOf(c) # "memory"
              /\ PlaceOf(c) # "none"
              /\ StoreOf(c) # NoOne
              /\ RefuseCall(p, "failed")
           \/ /\ StoreOf(c) # NoOne
              /\ PlaceOf(c) # "none"
              /\ Opens(StoreOf(c), PlaceOf(c))
              /\ StoreReady(p, c)
        /\ UNCHANGED <<environment, holder, file>>

OpensFile(p) ==
    /\ stage[p] = "store"
    /\ StoreOf(Overridden(file[p])) = "bolt"

\* bolt.Open gets the lock once nobody has it, ...
OpenFile(p) ==
    /\ OpensFile(p)
    /\ holder = NoOne
    /\ holder' = p
    /\ Enter(p, "initialize")
    /\ UNCHANGED <<environment, file, todo, client, cause>>

\* ... unless its directory or the file fails before.
OpenFileFails(p) ==
    /\ OpensFile(p)
    /\ RefuseCall(p, "failed")
    /\ UNCHANGED <<environment, holder, file>>

\* BoltStore.Initialize; if it fails the file stays open.
InitializeFile(p) ==
    /\ stage[p] = "initialize"
    /\ StoreReady(p, Overridden(file[p])) \/ RefuseCall(p, "failed")
    /\ UNCHANGED <<environment, holder, file>>

-----------------------------------------------------------------------------
\* Mutant: a directory that fails is tried again after the others.
LoadDirAgain(p) ==
    /\ stage[p] = "scripts"
    /\ todo[p] # <<>>
    /\ \/ /\ todo' = [todo EXCEPT ![p] = Append(Tail(@), Head(@))]
          /\ UNCHANGED <<stage, client>>
       \/ /\ Head(todo[p]) \notin Endless
          /\ todo' = [todo EXCEPT ![p] = Tail(@)]
          /\ client' = [client EXCEPT ![p].scripts = TRUE]
          /\ UNCHANGED stage
    /\ UNCHANGED <<environment, holder, file, cause>>

\* Mutant: a directory that fails ends the start with its error.
LoadDirOrRefuse(p) ==
    /\ stage[p] = "scripts"
    /\ todo[p] # <<>>
    /\ \/ RefuseCall(p, "failed")
       \/ /\ Head(todo[p]) \notin Endless
          /\ todo' = [todo EXCEPT ![p] = Tail(@)]
          /\ client' = [client EXCEPT ![p].scripts = TRUE]
          /\ UNCHANGED <<stage, cause>>
       \/ /\ Head(todo[p]) \in Endless
          /\ Enter(p, "looping")
          /\ UNCHANGED <<todo, client, cause>>
    /\ UNCHANGED <<environment, holder, file>>

\* One directory of initScriptEngine: it is missing or one of its scripts fails,
\* which is only logged; all are loaded; or one of them never ends.
LoadDir(p) ==
    /\ stage[p] = "scripts"
    /\ todo[p] # <<>>
    /\ \/ /\ todo' = [todo EXCEPT ![p] = Tail(@)]
          /\ UNCHANGED <<stage, client>>
       \/ /\ Head(todo[p]) \notin Endless
          /\ todo' = [todo EXCEPT ![p] = Tail(@)]
          /\ client' = [client EXCEPT ![p].scripts = TRUE]
          /\ UNCHANGED stage
       \/ /\ Head(todo[p]) \in Endless
          /\ Enter(p, "looping")
          /\ UNCHANGED <<todo, client>>
    /\ UNCHANGED <<environment, holder, file, cause>>

\* initReasoningEngine: the mock engine for want of a key, and for Anthropic.
EngineOf(c) == IF c.provider = "openai" /\ c.key # "none" THEN "openai"
                                                          ELSE "mock"

\* initReasoningEngine and the client, whose reflection a configuration cannot
\* switch off: it then has the default frequency.
MakeClient(p) ==
    LET c == Overridden(file[p])
    IN  /\ stage[p] = "scripts"
        /\ todo[p] = <<>>
        /\ client' = [client EXCEPT
                         ![p].engine = EngineOf(c),
                         ![p].frequency = IF c.enabled THEN FrequencyOf(c)
                                                       ELSE DefaultFrequency]
        /\ Enter(p, "ready")
        /\ UNCHANGED <<environment, holder, file, todo, cause>>

\* The process ends, whatever it was doing, and the next one takes its place.
Exit(p) ==
    /\ holder' = IF holder = p THEN NoOne ELSE holder
    /\ Enter(p, "idle")
    /\ file' = [file EXCEPT ![p] = NoOne]
    /\ todo' = [todo EXCEPT ![p] = <<>>]
    /\ client' = [client EXCEPT ![p] = NoClient]
    /\ cause' = [cause EXCEPT ![p] = "none"]
    /\ UNCHANGED environment

Continue(p) ==
    \/ OpenStore(p) \/ OpenFile(p) \/ InitializeFile(p)
    \/ LoadDir(p) \/ MakeClient(p)

StartNext ==
    \E p \in Procs :
        \/ \E c \in Files[p] : LoadConfig(p, c)
        \/ Continue(p)
        \/ OpenFileFails(p)
        \/ Exit(p)

\* A call that has begun goes on, once the lock that it waits for is free; no
\* process need begin a call or end, nor a call fail while it waits.
StartSpec ==
    /\ StartInit
    /\ [][StartNext]_startVars
    /\ \A p \in Procs : WF_startVars(Continue(p))

-----------------------------------------------------------------------------
(* Correctness.                                                            *)

StartTypeOK ==
    /\ holder \in Procs \cup {NoOne}
    /\ stage \in [Procs -> Busy \cup {"idle", "refused", "ready"}]
    /\ file \in [Procs -> Configs \cup {NoOne}]
    /\ cause \in [Procs -> Causes]
    /\ todo \in [Procs -> Seq(Dirs)]
    /\ client \in [Procs -> Clients]

\* The store is the one that the file names ...
StoreAsNamed(c, store) ==
    \/ c.type \in {"mock", "pgvector"} /\ store = c.type
    \/ c.type = "sql" /\ store = c.variant
    \/ c.type = "kv" /\ <<c.variant, store>> \in {<<"boltdb", "bolt">>,
                                               <<"postgres_hstore", "hstore">>}
    \/ c.type = "chromemgo" /\ store = "chromem"

\* ... where the file or a variable says, if it is one for which that is asked.
PlaceAsNamed(c, store, place) ==
    \/ store \in {"mock", "chromem"} /\ place = "memory"
    \/ store = "bolt" /\ place = "default"
    \/ store \in {"sqlite", "postgres", "hstore", "pgvector"}
       /\ place = "text" /\ c.place = "text"
    \/ /\ store \in {"sqlite", "postgres", "pgvector"}
       /\ place = "text"
       /\ \/ c.type = "sql" /\ "COGMEM_LTM_SQL_DSN" \in environment
          \/ c.type = "pgvector" /\ "PGVECTOR_URL" \in environment
    \/ store = "sqlite" /\ place = "placeholder" /\ c.place = "placeholder"
    \/ store = "pgvector" /\ place = "environment" /\ c.place = "placeholder"

HasOpenAIKey(c) == c.key # "none" \/ "OPENAI_API_KEY" \in environment

\* What validateConfig accepts is what the init functions serve.  The client's
\* store is the one the file names; a database is where the file or a variable
\* says and never at a default.  BoltDB is at its default path and chromem-go
\* in memory whatever path the file gives them, although config.go:134 says of the
\* storage path that "if empty, in-memory is used", as if not otherwise;
\* the engine is OpenAI's exactly if the file names it and there is a key, and
\* the mock otherwise, also for Anthropic; and the frequency is the file's, or
\* the default if that is no frequency or reflection is switched off.  But redis
\* and other SQL drivers are only refused when the store is opened, and so is a
\* placeholder for a variable that is not set.
ServedAsConfigured ==
    \A p \in Procs :
        LET c == file[p]
        IN  /\ stage[p] = "ready" =>
                  /\ StoreAsNamed(c, client[p].store)
                  /\ PlaceAsNamed(c, client[p].store, client[p].place)
                  /\ client[p].engine = IF c.provider = "openai" /\ HasOpenAIKey(c)
                                          THEN "openai" ELSE "mock"
                  /\ client[p].frequency = IF c.enabled /\ c.frequency > 0
                                             THEN c.frequency
                                             ELSE DefaultFrequency
            /\ cause[p] = "unsupported" =>
                  \/ c.type = "kv" /\ c.variant = "redis"
                  \/ c.type = "sql" /\ c.variant \notin {"sqlite", "postgres"}
            /\ cause[p] = "unplaced" =>
                  /\ c.type = "pgvector"
                  /\ c.place = "placeholder"
                  /\ "POSTGRES_URL" \notin environment

\* The BoltDB file is open somewhere, in this process or in another.
Waits(p) == OpensFile(p) /\ holder # NoOne

\* A start ends, with a client or an error, unless one of its scripts never
\* ends, or somebody has the BoltDB file open each time that bolt.Open tries for
\* it; that may be an earlier start of its own process, which failed.
StartEnds ==
    \A p \in Procs :
        <>[](stage[p] \in Busy) =>
            \/ []<>Waits(p)
            \/ <>[](stage[p] = "looping")

\* Once its store is open a start ends with a client, whatever directories of
\* scripts are missing or fail, unless a script never ends or its process does.
ScriptsDoNotRefuse ==
    \A p \in Procs :
        stage[p] = "scripts" ~> stage[p] \in {"ready", "looping", "idle"}
=============================================================================
