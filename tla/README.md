# lcog in TLA+

This directory is a specification of `cogmem-go`, the memory client of the
repository: TLA+ modules translated from the Go source under
`src/cogmem-go/`, TLC configurations that check them on small instances, and
proofs, checked by TLAPS, of what holds for every instance. Source paths below
are relative to `src/cogmem-go/` unless they begin with `src/`.

    tlc -workers 2 -config LuaEngine.cfg MCLuaEngine.tla   # one run
    tlapm LuaEngine_proofs.tla                             # one proof module

`PROJECT.json` lists the components, the runs, for each property a mutant of
the specification that breaks it, the source lines behind each definition, the
hazards of the code, the findings and the theorems.

1. [Inventory](#inventory)
2. [Modules](#modules)
3. [Runs](#runs), what they show, and their bounds
4. [Proofs](#proofs)
5. [Where code and documentation disagree](#where-code-and-documentation-disagree)
6. [What is not modelled](#what-is-not-modelled)
7. [Plan](#plan)

## Inventory

An application calls the client with an entity context (an entity and perhaps
a user of it). The client hands stores and retrievals to the memory management
unit (MMU), which runs Lua hooks, asks the reasoning engine for embeddings and
calls the long-term memory (LTM) store; for a query it asks the reasoning
engine for an answer; and every so many operations it has the reflection
module analyse what is stored. Everything is a synchronous call within one
process. The goroutines are the application's own, and the two the Lua engine
starts for a function call.

    application -> client (pkg/cogmem) -> MMU (pkg/mmu) -> LTM store (pkg/mem/ltm/adapters)
                     |        |            |    |
                     |        |            |    +-> Lua engine (pkg/scripting) -> scripts
                     |        |            +------> reasoning engine (pkg/reasoning)
                     |        +-> reasoning engine
                     +-> reflection (pkg/reflection) -> MMU, reasoning engine

| Component | State | Operations | What is hard about it | What makes it correct |
|---|---|---|---|---|
| scripting engine, `pkg/scripting/engine.go` | one Lua state, `mutex`, `loadedFiles`; per call an `execMutex`, two result channels, a timer | LoadScript, LoadScriptFile, LoadScriptDir, ExecuteFunction, Close | three goroutines per call unlock two mutexes for each other; timeouts race answers; one Lua stack and one global `ctx` for all calls | one goroutine in the Lua state at a time; no double unlock, which kills the process; callers get their own answer, and get one at all; a file is run once |
| sandbox and Lua API, `sandbox.go`, `api.go` | none | set up the libraries, functions for scripts | nothing that interleaves | scripts cannot reach the system |
| Lua scripts, `scripts/` | globals of the Lua state | the hooks of MMU and reflection | several scripts define the same hook: the last loaded wins | a hook does what its script says |
| client, `pkg/cogmem/cogmem.go` | `opCount`, `operationHistory`, unsynchronised | Process (store, retrieve, query), reflect, construction from a configuration | lost updates of the counter; one history for all entities; reflection in the path of the operation | reflections on schedule, on the right operations, for the right entity |
| MMU, `pkg/mmu` | working-memory count (never changed) | EncodeToLTM, RetrieveFromLTM, ConsolidateLTM | every call of a hook or an engine may fail, time out, or return anything | one record per success, none per failure, as it was asked for; what was encoded is found |
| reflection, `pkg/reflection` | none | TriggerReflection | as the MMU, between other goroutines' operations | it analyses only the memories of its entity |
| LTM interface, `pkg/mem/ltm/ltm.go`, `pkg/entity` | none | the interface LTMStore; records, queries, access levels, contexts | what it promises is in comments only | each entity has a memory of its own |
| BoltDB adapter, `adapters/kv/boltdb` | a bucket for each entity | Store, Retrieve, Update, Delete, each one transaction | two paths of Retrieve; sort and limit by hand; JSON changes types | the promises of the interface |
| hstore adapter, `adapters/kv/postgres` | one table for all entities | the same; Update and Delete are two statements without a transaction | statements of others in between; upserts across entities; a hand-written codec | the same |
| SQL adapters, `adapters/sqlstore` | one table for all entities | the same, each one statement | the metadata filter is not part of the statement, the limit is | the same |
| chromem-go adapter, `adapters/vector/chromem_go` | one collection for all entities, in memory or on disk | the same, semantic search | Update is check, delete, add; the number of documents is not known; metadata are strings beside the adapter's own | what callers were told stays true; the nearest are found |
| pgvector adapter, `adapters/vector/pgvector` | one table for all entities | the same, semantic search | upserts; check-then-write; the caller's filter map is changed | the same, and answers of one entity only |
| mock store, `adapters/mock` | a map under a lock | the same | Update replaces everything | the same |
| redis adapter | none | none (three lines) | | |
| reasoning engines, `pkg/reasoning` | the mock's canned answers | GenerateEmbeddings, Process | failure | |
| configuration, `pkg/config`, and construction, `cogmem.go:408-829` | the file lock of the BoltDB store | load, override, validate; open a store, load scripts, make an engine | two tables of stores and defaults that must agree; a lock without a timeout; scripts that fail or loop | the client is the one configured; a start ends |
| logging, errors, `pkg/log`, `pkg/errors` | the logger | output | | |
| example client, `cmd/example-client` | session: entity, user | a loop of commands | one client for many entities | |
| migrations, configuration files | | primary keys, defaults | | |

The hazards, each at its line and with the properties that are about it, are
in `PROJECT.json`. The ones that shaped the plan:

* the unlocking of the Lua engine by goroutines that do not know about each
  other (`engine.go:244, 294, 315`);
* one counter and one history for all entities and all goroutines
  (`cogmem.go:148, 348, 375`);
* IDs that are unique over all entities while isolation is per entity
  (`postgres_hstore.go:142`, `sqlite3.go:68`);
* check-then-write without a transaction (`postgres_hstore.go:346, 388`,
  `chromem_go.go:590`);
* where a limit, a filter and a sort take effect (`boltdb.go:231`,
  `sqlite3.go:132`, `chromem_go.go:555`);
* filters that carry the entity (`pgvector.go:402`, `chromem_go.go:298`);
* text that is written and parsed by hand (`postgres_hstore.go:448`);
* what is waited for without a timeout when a program starts (`cogmem.go:567`,
  `engine.go:122`);
* what may fail between a call and its record (`mmu.go:222`).

## Modules

| Module | Models | Built on |
|---|---|---|
| `LuaEngine` | `pkg/scripting/engine.go` | |
| `CogMemClient` | `pkg/cogmem/cogmem.go`, Process and reflect | |
| `Memory` | records, queries, contexts, right answers (`ltm.go`, `entity.go`, `context.go`) | |
| `MemoryStore` | the abstract LTM store | `Memory` |
| `BoltStore` | `boltdb.go` | `Memory`, refines `MemoryStore` |
| `HstoreStore` | `postgres_hstore.go`, the statements | `Memory`, `HstoreCodec` |
| `HstoreCodec` | `postgres_hstore.go:401-506`, the text of the metadata | |
| `SqlStore` | `sqlite3.go`, `postgres.go` | `Memory`, writes refine `MemoryStore` |
| `VectorStore` | `chromem_go.go`, `pgvector.go` | `Memory` |
| `Mmu` | `mmu.go`, `mmu/lua_hooks.go` | `Memory`, over a store that keeps its promises or a vector adapter |
| `Reflection` | `pkg/reflection` | `Mmu` |
| `Startup` | `pkg/config`, `NewCogMemFromConfig` and the init functions | |
| `MC...` | small instances for TLC | the module of the name |
| `..._proofs` | theorems | the module of the name; those of `Startup` are in `CogMemClient_proofs`, those of `Mmu` in `Reflection_proofs` |
| `Memory_proofs` | lemmas on sorted and cut sequences of records | `Memory`, used by the adapters' proofs |

A definition whose comment begins with `Mutant:` is a plausible mistake in the
definition it precedes. It has no part in the specification; it is used to
show that a property would catch it.

### LuaEngine

Each call of ExecuteFunction has a place in its own goroutine (`pc`), one in
the goroutine that runs the function (`script`), and one in the goroutine it
leaves behind if it gives up (`cleanup`).

| Code | Action |
|---|---|
| `mutex.Lock` of a load or a call | `LockLoad`, `SkipLoad`, `LockCall` |
| `LoadScriptDir`: a file after the one before it has been loaded, none after one that failed | `Due`, of the constant `WalkedAfter` |
| `DoString`/`DoFile`, `loadedFiles[...] = true`, return | `LoadSucceeds`, `LoadFails` |
| function not found, argument not convertible | `FunctionNotFound`, `InvalidArgument` |
| push `ctx`, lock `execMutex`, start the goroutine | `StartScript` |
| the function returns and fills a channel | `ScriptReturns` |
| the three deferred calls, last first | `UnlockExec` (or `UnlockExecFatal`), `UnlockMain`, `CloseDone` |
| `select`: done; timer or context | `ReceiveDone`; `GiveUp` |
| `execMutex.Unlock` after giving up, start the cleanup | `Abort` (or `AbortFatal`) |
| sleep, `mutex.Unlock` | `CleanupUnlock` |
| `Close` | `Close` |

A Go mutex has no owner, and unlocking an unlocked one is a fatal error that
`recover` does not catch: the `Fatal` actions set `crashed`, after which nothing
runs. Two goroutines in the Lua state at once are undefined behaviour: what
they leave in their channels is any value (`Yields`), and the runtime may end
the process at any time (`DataRace`).

### CogMemClient

`c.opCount++` is a read (`Begin`) and a write (`Count`), and so is the append
to the history (`HandleSucceeds`, `AppendOperation`), followed by the cut
(`Trim`). The handlers succeed or fail. `inFlight`, chosen initially, is how
many calls the application runs at once: with one the properties are exact;
with more, only what holds in spite of lost updates is claimed.

### Memory, MemoryStore and the adapters

`Memory` says what records, queries and contexts are, whom a record is visible
to, and when a sequence of IDs is a right answer to a query (`Answers`: only
what is wanted, without repetition, and all of it unless the limit is reached;
`NewestFirst`: the newest, newest first). `MemoryStore` is the abstract store:
a memory for each entity, on which Put, Change, Erase and Look take effect one
at a time; any operation may fail without effect.

`BoltStore` has a bucket for each entity and one action for each transaction. A
query by ID takes a path of its own, on which nothing else in the query counts:
the refinement maps it to the query that asks for the ID alone (`Asked`).
`HstoreStore` and `SqlStore` have one table. In `HstoreStore` each SQL statement
is an action, so that Update and Delete are a `Check` and a write, between
which the other processes run. `SqlStore` is two adapters: `backend` says
whether an inserted row has the caller's ID, which must be new (SQLite), or
one of its own (PostgreSQL). Where the database decides on an order (equal
times), every order is possible.

What metadata read back as is the constant `Kept`: JSON makes each number a
float, hstore makes each value text. The text of a query and its filter are
the sets of contents and metadata that pass them.

`HstoreCodec` has no state: it is the writing and the reading of the hstore
text, function by function, on sequences of tokens (a letter, a word that is a
Boolean, a digit, the exponent of a number, each character that means something
to the codec or in JSON, and the two separators `, ` and `=>`, each of which the
code only ever looks for whole). A value is a text, a number, a Boolean, null,
an array of at most one scalar or an object of at most one member; deeper ones, and
JSON strings with escapes in them, are left out, and what `json.Unmarshal` accepts
(`IsArray`, `IsObject`) is modelled as far as that. Each loop over a text is a `Scan`, a recursive function from the length of what has
been read. `ReadBack` is what becomes of a map of metadata between a Store and a
Retrieve. In `HstoreStore` the constant `ReadAs` says which JSON value the
metadata of a row stand for.

### VectorStore

Two adapters in one module, told apart by `backend`; `onDisk` says whether what
is stored survives the process. A call of the chromem-go library, an SQL
statement or a transaction is one step.

| Code | Action |
|---|---|
| `Store`, of pgvector a transaction | `Store` |
| `retrieveByID`, `retrieveSemantic`, `retrieveByFilters` | `Retrieve`, `RetrieveRefused`; `Found` says what may be answered |
| `Update`: the record is looked for | `FindForUpdate` |
| pgvector: `UPDATE` | `WriteUpdate` |
| chromem-go: `collection.Delete`; `Store` | `RemoveForUpdate`; `AddForUpdate` |
| `Delete`, of chromem-go the lookup first | `Delete`; `RemoveForDelete` |
| the process stops and is started again | `Restart` |

Each of them may also fail, before it has changed anything (`Fails`) or after
(`Miscarries`): the answer of a statement or a COMMIT is lost, or chromem-go has
changed its documents in memory and not its files (`saved`), so that a restart
brings back what memory no longer had. `told` is a history variable: what the
last caller who was told anything of an ID was told, an Update of pgvector that
hit no row (`missed`) apart from one that did. A filter map is its entity (of the
type `entity.EntityID` or another), its users and its levels; `ExactMatch` gives
each query its criteria, on the same fields and on metadata. pgvector asks for
both and takes a criterion's key for a column (`NoSuchColumn`); chromem-go lets
criteria replace the fields of the map (`Overridden`), and does not look at them
in a search by embedding. `reused` is a map that an application keeps and passes
again, into which pgvector writes. Embeddings
are points on a line: the code uses nothing of them but which is nearer.
`Claimed` is the entity that metadata with the key `entity_id` name, which in
chromem-go takes the place of the record's own.

### Mmu and Reflection

`Mmu` has an action for each call the MMU makes of the Lua engine, of the
reasoning engine and of the store, with each outcome the call may have: a hook
that skips the embedding, replaces the content or the query, or fails; an
engine without an answer; a store that fails. `config` chooses the store:
one that keeps the promises of `MemoryStore`, or pgvector or chromem-go, which look
at neither user nor level, chromem-go not at the entity either, and may find fewer
than there are (`Reached`, `AnswersTo`). `Reflection` is a composition: a
goroutine that reflects goes through the retrieval actions of `Mmu`
(`WaitingStep`), then through `Analyze` and `Consolidate`, while the other
goroutines take their own steps. `origin` and `encoded` are history variables.

The hooks `after_encode`, `after_retrieve` and `rank_semantic_results`, and the
hooks of the reflection module, have no step: they are called and what they
return is dropped, or their arguments are of types the Lua engine refuses to
convert.

### Startup

Each process calls `NewCogMemFromConfig`, any number of times, and may exit at
any time; what it has opened stays open until then. `LoadConfig` is the loader
with its three steps (`Overridden`, `Valid`, `FrequencyOf`), `OpenStore`,
`OpenFile`, `OpenFileFails` and `InitializeFile` are `initLTMStore` and `initPgVectorStore`,
`LoadDir` one turn of the loop in `initScriptEngine`, `MakeClient` the rest. A
configuration is the section of the store that is in use, with `place` for its
DSN, address, collection or connection string: none, a text, or a name in braces
as the sample files have it, and with `disk` for whether chromem-go is given a
storage path. `bolt.Open` waits for the lock for ever: `OpenFile` needs it to be
free, and an error of the file or its directory is an action of its own. `cause`
says which check refused a file.

## Runs

Deadlock is checked in every run. States and seconds are of one machine with
two workers.

| Run | Instance | Distinct states | What it shows |
|---|---|---|---|
| `LuaEngine` | 3 calls (one with a bad argument), 2 loads of one file, Close | 672,818; 10 s | Who may be in the Lua state, whose mutex is unlocked, when the process dies, whose answer a call returns |
| `LuaEngine_live` | 2 calls of 2 functions, 2 loads of 2 scripts, fairness | 204,852; 25 s | Every caller gets an answer or an error |
| `CogMemClient` | six calls in sequence or four of which two overlap; frequency 2, history 3 | 888,124; 13 s | Counter, history, and when and on what the client reflects |
| `BoltStore` | 4 contexts, 2 IDs, 2 records, 5 queries | 15,229; 15 s | The adapter implements `MemoryStore`, isolates entities, and answers with the newest |
| `HstoreStore` | 2 processes, 3 contexts, 2 IDs, 2 records, 3 queries; the codec on texts of up to 3 tokens | 477,813; 47 s | Rows keep their owners and deleted rows stay deleted under every interleaving of statements; right answers; which metadata survive |
| `SqlStore` | both adapters, 4 contexts, 2 IDs, 2 times, 5 queries | 27,322; 46 s | Writes implement `MemoryStore`, nothing is overwritten, answers are right up to the effect of the filter |
| `VectorStore` | both adapters, 2 goroutines, 2 IDs, 3 records, 4 queries with criteria of each kind, with and without an embedding, 3 filter maps | 51,561; 33 s | The nearest are found, of the entity that is named, and what callers were told stays true through failures and restarts |
| `Reflection` | 2 goroutines, 2 records, three stores, all outcomes of hooks, engines and store | 2,492,461; 70 s | A record for each success and none for a failure, records as asked for, what was encoded found |
| `Startup` | 2 processes, 81 files, 3 environments, fairness | 21,351; 62 s | The client is the one configured; what may keep a start from ending; scripts that fail do not |
| `LuaEngine_fatal`, `CogMemClient_isolation`, `HstoreStore_isolation` | | | Violations: see [below](#where-code-and-documentation-disagree) |

### The properties

**LuaEngine.** `LiveUsersExclusive`: loads and calls that are waited for are
never in the Lua state together. `CrashOnlyAfterAbandonment`: no interleaving
is fatal before some call timed out or was cancelled. `CleanupOwnsMutex`: when
a cleanup unlocks the engine's mutex it is that call's lock, never one another
caller has taken since; that holds only because a script that ends after its
call gave up ends the process (`AbandonedNeverEnds`), which is why both are
stated. `AnswerIsOwn` and `ScriptSeesOwnContext`: the shared stack and the
shared global `ctx` do not mix up calls, the first until a call gives up, the
second even for the script of a call that gave up, until its cleanup.
`FileLoadedOnce`; `CloseWaits`, an action property; `CallersReturn`, liveness.

**CogMemClient.** `CountAndHistoryExact`, `ReflectsOnSchedule` and
`ReflectsOnOwnOperation` are about a client used by one goroutine, for every
pattern of failures and entities: the counter counts failures, the history
holds successes, and a reflection that a failed call at the multiple skips is
not made up for. `ReflectionsAreOwed` holds with lost updates too: an operation
reflects at most once, and only if it was successful. Nothing more of the
schedule holds then.

**Adapters.** `EntityIsolation`: no operation changes another entity's memory
(BoltStore, SqlStore; it fails for HstoreStore, of which `OwnersKept`,
`WritesOwnRows` and `NoResurrection` say what does hold). `RecordsAtHome`: a
bucket holds records of its entity only. `NewestAnswered` and `AnswersRight`
compare what an adapter selects, sorts and cuts with `Answers` and
`NewestFirst` for every state and query; for SqlStore a metadata filter may leave
less than the limit, and the property says which records those are. `ImplementsLTMStore` and
`WritesImplementLTMStore` are refinements of `MemoryStore`: for BoltStore whole,
for SqlStore without Retrieve, whose answers may be short. `MetadataSurvive`:
a value comes back as it was written exactly if it has neither `, ` nor `=>` in it and
is not a text with a quote or a backslash, or one that looks like another kind, nor
null, nor a number with an exponent, nor an array or object with digits and no
letter in it (`isNumeric` is asked first); and only a `, ` damages a value beside it.
`NothingOverwritten`: Store never takes the place of a record.

**VectorStore.** `NearestAnswered`: an answer is what was asked for, in order,
within the limit, and complete as far as the code can promise (chromem-go
answers nothing when the limit exceeds the documents, an index may miss rows).
`OwnEntityUnlessNamed`: whose records an answer shows, which depends on what is
in the filter map by then, and on criteria that name an entity. `AsTold`: a success
is never taken back, whatever other calls fail with or without effect, except by
the gap in chromem-go's Update; it is not said of an Update of pgvector that hit no
row. `NoResurrection`, an action property: what
is gone stays gone until a Store, but for that gap and for a restart of chromem-go
that finds a file a failed call has left. `EmbeddingsFit`: no
interleaving leaves a content with another's embedding, in memory or in a file.

**Startup.** `ServedAsConfigured` relates a client that was made, or the reason
there is none, to the file and the environment: the loader's checks and the
defaults of the init functions are two tables that must agree. It says that
BoltDB is at its default path and chromem-go in memory whatever the file says,
because they are; the second is not what `config.go:134` says. `StartEnds`, liveness: a start ends unless a
script loops, or somebody holds the BoltDB file each time that it is tried for,
which may be for ever. `ScriptsDoNotRefuse`, liveness: once the store is open,
directories that are missing or fail do not keep the client from being made.

**Mmu and Reflection.** `EncodesOnce`: the store holds one record for each
success and none for an error, whatever hook or engine fails before or after
the store. `RecordsAsAsked`: entity, user, level, content and embedding of a
record are those of its call, except where a hook or the code may change them.
Both hold over every store. `ReadsOwnWrites`, an action property, goes from one
call to another: over a store that keeps its promises a caller finds what it has
encoded, if its query asks for it when
the hooks are done with it and its limit is not full, although the level, the
content and the user go through the code of EncodeToLTM first. It excepts what a
caller without a user encodes as private, which the stores never show to anyone.
The vector adapters may miss a record or be full of others', so that nothing like
it holds over them. It is about the search of a reflection too, which goes the
same way. `Reflection` has no property of its own: what it sends to the engine is
what was found, and ConsolidateLTM stores nothing.

### Bounds

* *LuaEngine.* A call is made once. Two calls that exclude each other and one
  that fails early, with two loads of the same file, are enough for each pair
  of goroutines to meet in each pair of places; a third user of the mutex may
  take it between a give-up and the Unlock that follows. The proofs need no
  bound.
* *CogMemClient.* Six calls pass the frequency (2) three times and the history
  (3) twice, with failures anywhere. Two at once lose updates; four calls leave
  room for a reflection after one. The code's values are 10 and 10.
* *Stores.* Two entities, two users and nobody, two IDs, two times: enough for
  a conflict of IDs, a private record next to a shared one, equal and different
  times, and a limit below what matches. `DefaultLimit` is the code's 100 and
  never cuts here; the limits that do are in the queries.
* *HstoreStore.* Two processes: one between the other's check and write.
* *HstoreCodec.* Three tokens make every pair of special characters with
  something before, between or after them; arrays and objects hold each kind of
  scalar, one with a separator in it included; two pairs show what a value does to
  its neighbours on either side.
* *VectorStore.* One goroutine between the other's steps; three records, so that
  a content has two embeddings and an entity is named that is not the record's;
  limits of 1, 2 and 10 (the code's default) against at most two documents;
  criteria that name an entity, users, metadata or nothing. The last answer is left
  out of the states that are told apart (`VIEW Unanswered`): no guard and no state
  property reads it, and the one action property that does reads it in the step
  that writes it, of which TLC checks every one.
* *Startup.* One process with every store, driver, provider, frequency and
  script path, up to what one section tells apart, beside one with the BoltDB
  file; three environments set every variable.
* *Reflection.* Two goroutines and two records; at most two calls can store.
  A user of one entity and nobody of another: users who share an entity are in the
  stores' runs. `MaxMemoriesToAnalyze` is 1, so that a second record is
  cut.

Symmetry is used for goroutines, processes and entities that nothing in the
instance tells apart, never with a liveness property.

### Fairness

Safety runs assume none. `FairSpec` is weakly fair to each call's own steps, to
its deferred steps, to its cleanup, and to each load's attempt to lock: the Go
scheduler runs what can run, the timer of every call fires (the code gives each
call one), and the 100 ms sleep ends. Locking is weakly fair only: a waiting
goroutine could be overtaken for ever, were there not finitely many calls.
Nothing makes a Lua function terminate. `LoadsEndSpec` adds that the top-level
code of loaded scripts does: loading has no timeout, and a script that loops
while it is loaded blocks every caller for ever. `CallersReturn` does not hold
without that assumption.

`Startup` is weakly fair to the next step of each call that has begun: it is
sequential code, and what it waits for, the lock of the BoltDB file, is tried
for again and again by bolt.Open but not given to the one who waits longest.
Fairness does not extend to `OpenFileFails`: a call that waits for the lock need
never get an error. No process need begin a call or exit; `StartEnds` says what
follows if the holder never does.

## Proofs

The proofs are of all sets of calls, loads, entities, users, records, queries
and processes; they use the named assumptions on the constants
(`LuaEngineAssumption`, `CogMemClientAssumption`, `MemoryAssumption`,
`CallersAssumption`, `ReadAsAssumption`, `MmuAssumption`, `ReflectionAssumption`,
`VectorAssumption`, `NoneAssumption`, `StartupAssumption`) and nothing else.

**`LuaEngine_proofs`.** Mutual exclusion is not inductive: a mutex without an
owner says nothing about who will unlock it. The invariant `IInv` adds

* `CallInv`, where the three goroutines of a call can be together: for instance
  that a call that returned after giving up has an unlocked `execMutex`, and a
  script that is running or about to unlock it;
* `MutexInv`, that the mutex is locked exactly while there is a holder, and
  that there is at most one: a load or call between Lock and Unlock, or a
  script whose lock neither it nor its cleanup has released;
* `AnswerInv` and `FileInv`, what is in the channels and in `loadedFiles`.

Each kind of step preserves each part; the theorems follow: `TypeCorrect`,
`MutualExclusion`, `NoCrashWithoutAbandonment`, `CleanupUnlocksOwnMutex`,
`AbandonedScriptsStay`, `OwnAnswer`, `OwnContext`, `LoadedOnce`, and
`CloseIsExclusive`, an action property.

**`Memory_proofs`.** Answers are sequences that are sorted and cut, and facts
about sorting look like inductions over data, which the installed provers cannot
do. They are avoided: a finite set with a strict order has a listing in that
order, since the place of an element is the number of those before it, and that
map from elements to places is one to one (`Sortable`; the order is a set of
pairs, not an operator). `FirstOf` says what the first n of a sorted listing are:
n of the set or all of it, and none left out that comes before one that is there;
`NewestOf` says it of records and their times. `ListingByKey` and `NewestListing`
are orders by a number with ties by ID.

**`BoltStore_proofs`.** The types of the buckets and `RecordsAtHome` are
inductive together (`RecordsStayHome`); `Isolation` follows step by step. That
each bucket is finite is the invariant that answers need: without it there is no
sequence of what was scanned. With it `SearchIsRight` shows that sorting and then
cutting gives the newest (`TheNewestAnswered`), and every transaction, Retrieve by
ID and by search included, is a step that `MemoryStore` allows: the adapter
implements the interface (`Implements`).

**`HstoreStore_proofs`.** The invariant says that rows are records and that an
update under way has one. A lemma, `RowStep`, says for each row what a step can
do to it and which operation does it: nothing; insert or overwrite, by Store;
overwrite or delete, of the own entity, by Update and Delete. From it follow
the action properties `OwnersNeverChange`, `WritesAreOwn` and
`DeletedStaysDeleted`. `RightlyAnswered` is for every order in which the database
may return equal times: the WHERE clause selects what is wanted when the filter
is read as text (`WhereIsWanted`), and any permutation in the order of the times
and cut at the limit is the newest of it (`NewestOf`).

**`HstoreStore_proofs`, of `HstoreCodec`.** What a loop computes for a text of any
length needs induction, and the library's induction theorems have an operator as
a parameter, which the installed provers cannot instantiate. `InductionOnNat` and
`InductionOnSeq` are induction for sets instead of predicates, from the fact that
a non-empty set of numbers has a least one; `ScanIs`, `ScanEmpty` and `ScanAppend`
then say what a `Scan` is, token by token. Along the way of a text through the
codec: `Unescapes` (the reading of an array undoes the escaping of any text without
backslashes), `PartsOfText` and `TakesApart` (the
separators in a row are those that were written, and no others),
`TrimQuoted`, and `ParsedIs`, the guess of the kind of a value, in brackets and in
braces too. They
meet in `ReadsBack`: in metadata of any number of pairs without `, ` in a value
each pair is found under its key. `PairsSurvive`: with different keys, each value
that `Survives` comes back. `SurvivorsAreFaithful`: of all values in `JsonValues`, whose texts are of
any length and whose arrays and objects hold at most one scalar, exactly
those that `Survives` come back, so that its exceptions are neither too few nor
too many. For the rows the invariant is `MetaKept`, that metadata are some that
have been kept; `MetadataAreRead` joins the two.

**`SqlStore_proofs`.** Each action that writes changes one place of one memory
(`OnePlace`), and that change is one `MemoryStore` allows (`StepAllowed`); with
the initial states that is the refinement of the writes, `WritesImplement`, for
both adapters and any clock. `Isolation` follows from what the abstract store
allows, `NoOverwrite` from the actions. `RightlyAnswered` adds what the metadata
filter does to a selection: what is left can be listed in the selection's order
(`FilteredListing`), and if the limit cut nothing, nothing that is wanted is
missing.

*Of all three:* what is proved of every answer would be worth nothing if there
were none, so `AlwaysAnswerable` shows that there is one in every state (of the
BoltDB adapter there always is: its answer is a function). `Privacy`: no reply
shows a caller a record of another entity or a private one of another user; it
is about replies as they are given, `RightlyAnswered` about those that could be.
`TypeCorrect` is the whole `TypeOK`, replies included.

**`VectorStore_proofs`.** `AsTold` and `EmbeddingsFit` are inductive
together with the types of the table, of the files and of what is pending. A lemma for each
step says what it does to one document, to what is told of it, and to the
documents that an Update has taken away (`Removed`), which two goroutines may do
to one document at a time while only one of them brings it back. From them
`ToldTheTruth`, `EmbeddingsFitContents`, and `GoneStaysGone`, an action property.
`EntityUnlessNamed` is about answers: what `First` selects is among what it was given
(`FirstOfThem`), whatever the order. `TheNearestAnswered` says that it is the
nearest of it (`FirstAreNearest`, from the lemmas of `Memory_proofs`), for any
embeddings and any order of equal distances; `AlwaysAnswerable`, that there is an
answer but where chromem-go has none (fewer documents than are asked for, and no
embedding) and where pgvector has no such column. There may be any number of IDs: that there are finitely many documents
is an invariant, as in the other adapters. `PgvectorLosesNothing` and
`PgvectorRevivesNothing` say that what `AsTold` and `NoResurrection` except is
chromem-go's alone: an Update of pgvector under way is always about to write in
place (`UpdatesInPlace`), so that it has never taken anything away.

**`CogMemClient_proofs`.** There are two invariants. `IInv` holds for any number
of goroutines: a call's increment never takes the counter past the number of
calls, even when it has lost others; two calls have two operations; and what was
reflected on succeeded, has returned, and is not reflected on twice. From it
follow `TypeCorrect` and `OwedReflections`. `SequentialInv` says more of a
client with one call at a time: where that call is decides what the history is,
the last `HistoryLimit` operations, or those and one more between the append and
the trim (`AppendToLast` and `TrimToLast` are the facts about sequences), and
the schedule leaves out the operation of the call that is active. From it follow
`ExactCountAndHistory`, `ScheduledReflections` and `OwnOperationLast`.

**`CogMemClient_proofs`, of `Startup`.** The invariant carries, for each call
under way, that its file is valid as overridden and that what its client has so
far is what the tables say. Lemmas about the tables (`StoreIsNamed`, `NoStore`, `PlaceIsNamed`,
`NoPlace`, `EngineIsNamed`) do the case analysis once; `ConfiguredIsServed`
follows for any files and environments. `FrequencyIsProvided` joins the two
modules: a client that was made has the positive frequency that
`CogMemClientAssumption` takes for granted, so that Process never divides by zero.

**`Reflection_proofs`.** `MmuInv` says what an encoding under way has kept of
what it was given, and that the records in the store and the calls that have
stored them are equally many, and finitely many (for any set of IDs and
goroutines). Every step of the MMU keeps it (`MmuStepOK`), also those that a
reflection takes. `EncodedOnce` and `RecordedAsAsked` follow, over every store.
`OwnWritesRead` needs two facts more: the record of a call is there, as private as
the call said (`OriginStored`, inductive with `IInv`), and what a store that keeps
its promises may answer is a right answer in the sense of `Memory`
(`AnswersToAreRight`), so that what is wanted and not shown means that the limit
is full.

**Model-checked only.** `CallersReturn`, `StartEnds`, `ScriptsDoNotRefuse`: liveness under fairness is
beyond TLAPS. Every other property of a passing run is also the statement of a
theorem. That ReadsOwnWrites is not stated as a refinement of `MemoryStore`, one
interface for each goroutine, has to do with the prover too: it does not take an
INSTANCE with a parameter.

## Where code and documentation disagree

With a run whose counterexample shows it:

| Run | The text | The code |
|---|---|---|
| `LuaEngine_fatal` | `engine.go:307-308`, unlocking the main mutex will "ignore errors if it's already been unlocked" | A call that gives up unlocks `execMutex` (294, 326); when its script returns, the second Unlock (244) is fatal, and no `recover` catches it |
| `CogMemClient_isolation` | `entity.go:12`, "Each entity has its own isolated memory space" | `reflect` stores the history of all entities in the memory of one (`cogmem.go:375`) |
| `HstoreStore_isolation` | the same, and `ltm.go:62`, Store "enforces entity isolation by storing the EntityID with the record" | A Store under another entity's ID overwrites that entity's record (142) |

Others, met while modelling, that have no run:

* `cogmem.go:148`: concurrent calls lose counts, and the history may be torn
  (348), although `src/docs/prd.md:99` (NFR-REL-01) asks that "Concurrency
  mechanisms must prevent race conditions". `cogmem.go:167`: a call that fails
  at a multiple of the frequency skips the reflection.
* `engine.go:196` says "Lock the mutex before accessing the Lua state"; a script
  whose call gave up goes on in that state after the cleanup has unlocked it
  (315), beside the next call. `LiveUsersExclusive` says what holds.
* `ltm.go:65`, "Retrieve fetches memory records matching the query", and
  `ltm.go:55`, "Limit is the maximum number of results to return": the SQL
  adapters' limit is of rows before the metadata filter (`sqlite3.go:132, 196`,
  `postgres.go:127, 182`), so that matching records are missing from answers
  below the limit. `AnswersRight` of `SqlStore` says which.
* `analyzer.go:101`: a reflection asks for memories by a limit alone, the MMU names
  no entity to the store (`mmu.go:320-394`), and chromem-go does not look at the
  context (398): memories of any entity are analysed, although `src/docs/prd.md:69`
  (FR-MULTI-03) says "LTM retrieval operations MUST automatically filter data based
  on the current `entity_context`". The branch of chromem-go in `Reached` shows it.
* `chromem_go.go` never looks at the entity context, and takes a filter for an
  entity only from an `entity.EntityID` (298), while `ExactMatch` may replace it by
  any string (415-458); pgvector takes whatever entity the
  filter map names, and writes its own into the map (402, 462). `ltm.go:65-75`
  promises isolation of all four operations; Update and Delete of both look for
  the ID alone, and a key `entity_id` in the metadata replaces the record's entity
  in chromem-go (151). `OwnEntityUnlessNamed` says what holds.
* `chromem_go.go:590-606`: a failure or a stop between Delete and Store loses
  the record. `chromem_go.go:555`: with more results asked for than there are
  documents a search by embedding finds nothing (376), any other fails.
* `pgvector.go:22`: ErrRecordNotFound "is returned when a record with the specified
  ID doesn't exist", but Update ignores how many rows it hit (605), and says that it
  has updated a row that was deleted since it was found (`missed`).
* `reasoning/adapters/mock`: its embeddings have 3 dimensions; with pgvector's
  default of 1536 every Store fails (232).
* `cogmem.go:450-454`: the client's configuration starts from defaults that
  enable reflection; `enabled: false` does not disable it. The maximum of
  memories to analyse, the temperature and the model are read by nothing.
* `cogmem.go:627`: chromem-go is always in memory, although `config.go:134` says
  "StoragePath is the path for on-disk persistent storage (if empty, in-memory is
  used)", and `chromemgo.yaml:20` and `config.example.yaml:60` give one. Its URL
  is not used either, and its dimensions are only logged.
* `cogmem.go:560`: the BoltDB file is always `./data/cogmem.bolt.db`; the path that
  `config.example.yaml:36-37` gives for it is a field no section has. Nothing
  closes it, nor a database, when a start fails; bolt.Open waits for it for ever.
* `load.go:75-144` accepts redis and any SQL driver, which `initLTMStore` refuses;
  it refuses an empty type, "vector", and an empty provider or DSN, for which
  `initLTMStore` and `initReasoningEngine` have defaults that are never used. The
  provider "Mock" is refused although names are otherwise compared in lower case.
* The sample files write `${OPENAI_API_KEY}`: only pgvector's connection string
  is ever substituted (660), so that without the variable the name itself is sent
  as the key.
* `engine.go:41, 122`: the timeout is of waiting for a script, not of the
  script.
* `mmu.go:199` says "If the hook returns false, skip embedding generation"; it
  is skipped if the hook returns true.
* `mmu.go:152-161`: an access level that is not an int is ignored, and the
  record shared. `mmu.go:187`: the caller's metadata map is written to.
  `mmu.go:230, 373`: content and query text may be replaced after they were
  embedded. `mmu.go:291-318`: nothing is written to the store on overflow.
* `reflection.go:145` says it "stores a single insight in long-term memory";
  ConsolidateLTM stores nothing.
* `boltdb.go:160`: a query by ID ignores its text and filters; `boltdb.go:433`:
  an int in stored metadata never equals an int in a filter.
* `sqlite3.go:312-317`: every timestamp reads back as the present time.
* `postgres_hstore.go:346, 388`: Update and Delete succeed when the row is
  gone by the time they write.
* `postgres_hstore.go:440-500`: values with `, ` or `=>`, texts with quotes or
  backslashes, texts that look like numbers, Booleans, arrays or objects, null,
  numbers with an exponent, and arrays and objects without a letter read back as
  something else or not at all; keys are not escaped. `MetadataSurvive` says which.
* `mock.go:221`: Update replaces access level and user as well; answers have no
  order, and a caller without a user sees the private records that have no user.
* `mmu.go:153`: a caller without a user may encode a record as private; the BoltDB
  and the SQL adapters then show it to nobody (`boltdb.go:397`).
* Users of one entity can overwrite, update and delete each other's private
  records in every adapter: only Retrieve asks for the user.

## What is not modelled

* *Mock store*: a stand-in for tests, a map whose every operation holds one
  mutex; nothing interleaves in it and nothing fails.
* *Sandbox, Lua API, logging, errors*: no state the rest depends on. *redis
  adapter*: there is no code. *Lua scripts*: samples; `Mmu` has hooks that may do
  anything.
* *Reasoning engines*: calls of a remote service and a stand-in for it; their
  users have every outcome.
* *Example client*: a terminal loop over one client. That a client is used for
  several entities in turn, by one goroutine, is in `CogMemClient`.
* *Migrations*: the primary keys they declare are assumptions of the adapters.
* *Text*: contents, prompts, embeddings and metadata are reduced to members of
  small sets and to what the properties tell apart; only `HstoreCodec` looks
  inside one. The words of a torn slice header in `operationHistory` are not
  modelled, so nothing is claimed of the history under concurrent calls. Two
  goroutines that write to one filter or metadata map at once (`pgvector.go:402`,
  `mmu.go:187`) are undefined behaviour that no model shows.
* *UpdatedAt*, except in `VectorStore`, and in SQLite the times an answer shows.
* *Keys of their own*: in `VectorStore` metadata use none of the adapters' keys
  but `entity_id`.

## Plan

Done, in this order: `LuaEngine` and its proofs; `CogMemClient`; `Memory`,
`MemoryStore`, `BoltStore` and its proofs; `HstoreStore` and its proofs;
`SqlStore`; `Mmu`; `Reflection`; `HstoreCodec`; `VectorStore` and its proofs;
`Startup` and its proofs; the proofs of `SqlStore`, `CogMemClient`, `Mmu` and
`Reflection`; the proofs about answers, replies and the refinement of
`MemoryStore` by `BoltStore`; the proofs of `HstoreCodec`, of pgvector by itself,
and that the MMU finds what it has stored.

Next:

1. Proofs: what an answer of the vector adapters shows, told from what could be
   answered, as for the other stores.
2. The client, the MMU and a store composed: who can retrieve a history that was
   stored as a shared record.
3. The mock store, should it be used for more than tests.
