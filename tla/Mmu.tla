--------------------------------- MODULE Mmu ---------------------------------
(***************************************************************************)
(* The memory management unit, pkg/mmu/mmu.go and lua_hooks.go: EncodeToLTM *)
(* and RetrieveFromLTM lead a record to the store and a query to it, past   *)
(* the hooks of the Lua engine and the embeddings of the reasoning engine.  *)
(* Each call of an engine or of the store is a step of its own, between     *)
(* which other goroutines take theirs, and any of them may fail.  The store *)
(* is one that keeps the promises of MemoryStore, or one of the two vector  *)
(* adapters, which find more than the caller may see (VectorStore).         *)
(* A call without an entity context, with data that cannot be marshalled,   *)
(* or with a query of another type returns an error at once, and has no     *)
(* step.                                                                    *)
(*                                                                          *)
(* The embedding of a content or a text is written as what it embeds.  The  *)
(* hooks after_encode, after_retrieve and rank_semantic_results have no     *)
(* step: the first two are called and what they return is dropped, the      *)
(* third cannot be called with records.  Nothing is ever put in the working *)
(* memory, so that its overflow handling does nothing.                      *)
(***************************************************************************)
EXTENDS Memory, FiniteSetsExt

CONSTANTS
    Procs,          \* the goroutines that use the MMU
    Data,           \* what they pass to EncodeToLTM
    NoText,         \* the empty content
    HookQueries     \* what before_retrieve may make of a query

\* The content of a string or a map, with the level and the embedding of a map.
AllData == [content : Contents, level : Levels, levelIsInt : BOOLEAN,
            embedding : Contents \cup {None}]

VARIABLES
    config,         \* whether there are hooks, and embeddings, and which store
    mem,            \* the store: the records of each entity, by ID
    embedded,       \* ... and the embedding of each record
    op,             \* the operation of each goroutine
    origin,         \* which call each record comes from
    encoded         \* how many calls of EncodeToLTM have succeeded

vars == <<config, mem, embedded, op, origin, encoded>>

Encodings == [call : {"encode"}, ctx : Callers, data : Data,
              at : {"before_embedding", "embed", "before_encode", "store", "stored"},
              content : Contents, embedding : Contents \cup {None}]

Retrievals == [call : {"retrieve"}, ctx : Callers, query : AllQueries,
               at : {"embed_query", "before_retrieve", "search", "found"},
               embedding : (SUBSET Contents) \cup {None}, rows : Seq(Ids)]

\* The call a record comes from.
Origins == [ctx : Callers, data : Data]

ASSUME MmuAssumption ==
    /\ Data \subseteq AllData
    /\ HookQueries \subseteq AllQueries
    /\ Metas # {}
    /\ None \notin Contents \cup Records \cup Origins
    /\ None \notin Encodings \cup Retrievals

\* Vector operations may be enabled or not when the store is capable of them.
Configs == {c \in [hooks : BOOLEAN, vectors : BOOLEAN,
                   store : {"promising", "pgvector", "chromem"}] :
               c.vectors => c.store # "promising"}

TypeOK ==
    /\ config \in Configs
    /\ mem \in [Entities -> [Ids -> Records \cup {None}]]
    /\ embedded \in [Ids -> Contents \cup {None}]
    /\ op \in [Procs -> Encodings \cup Retrievals \cup {None}]
    /\ origin \in [Ids -> Origins \cup {None}]
    /\ encoded \in Nat

Init ==
    /\ config \in Configs
    /\ mem = [e \in Entities |-> [id \in Ids |-> None]]
    /\ embedded = [id \in Ids |-> None]
    /\ op = [p \in Procs |-> None]
    /\ origin = [id \in Ids |-> None]
    /\ encoded = 0

At(p, call, step) == op[p] # None /\ op[p].call = call /\ op[p].at = step

Return(p) == op' = [op EXCEPT ![p] = None]

-----------------------------------------------------------------------------
(* EncodeToLTM.                                                            *)

\* Mutant: a record without a usable level is private.
LevelPrivate(data) == IF data.levelIsInt THEN data.level ELSE "private"

\* Mutant: the level is not taken over.
LevelDropped(data) == "shared"

\* The access level is taken from a map if it is an int: an entity.AccessLevel
\* or a number decoded from JSON is not one, and the record is shared.
Level(data) == IF data.levelIsInt THEN data.level ELSE "shared"

shouldGenerateEmbedding(data) ==
    config.vectors /\ data.embedding = None /\ data.content # NoText

AfterEmbedding == IF config.hooks THEN "before_encode" ELSE "store"

Encode(p, ctx, data) ==
    /\ op[p] = None
    /\ op' = [op EXCEPT ![p] =
          [call |-> "encode", ctx |-> ctx, data |-> data,
           at |-> IF ~shouldGenerateEmbedding(data) THEN AfterEmbedding
                  ELSE IF config.hooks THEN "before_embedding" ELSE "embed",
           content |-> data.content, embedding |-> data.embedding]]
    /\ UNCHANGED <<config, mem, embedded, origin, encoded>>

\* If the hook returns true there is no embedding; if it fails there is one.
BeforeEmbedding(p) ==
    /\ At(p, "encode", "before_embedding")
    /\ \E next \in {"embed", AfterEmbedding} :
          op' = [op EXCEPT ![p].at = next]
    /\ UNCHANGED <<config, mem, embedded, origin, encoded>>

\* Without an answer of the engine the record goes on without an embedding.
Embed(p) ==
    /\ At(p, "encode", "embed")
    /\ \E embedding \in {op[p].content, None} :
          op' = [op EXCEPT ![p].embedding = embedding, ![p].at = AfterEmbedding]
    /\ UNCHANGED <<config, mem, embedded, origin, encoded>>

\* The hook may return another content; if it fails the content stays.
BeforeEncode(p) ==
    /\ At(p, "encode", "before_encode")
    /\ \E content \in Contents :
          op' = [op EXCEPT ![p].content = content, ![p].at = "store"]
    /\ UNCHANGED <<config, mem, embedded, origin, encoded>>

\* The record that is handed to the store.
Draft(p, now) ==
    [entity |-> op[p].ctx.entity, user |-> op[p].ctx.user,
     level |-> Level(op[p].data), content |-> op[p].content,
     meta |-> CHOOSE m \in Metas : TRUE, created |-> now]

\* The store takes the record under a new ID; pgvector's only with an embedding.
Store(p) ==
    /\ At(p, "encode", "store")
    /\ config.store = "pgvector" => op[p].embedding # None
    /\ \E id \in Ids, now \in Times :
          /\ origin[id] = None
          /\ mem' = [mem EXCEPT ![op[p].ctx.entity][id] =
                        Owned(Draft(p, now), op[p].ctx)]
          /\ embedded' = [embedded EXCEPT ![id] = op[p].embedding]
          /\ origin' = [origin EXCEPT ![id] =
                           [ctx |-> op[p].ctx, data |-> op[p].data]]
    /\ op' = [op EXCEPT ![p].at = "stored"]
    /\ UNCHANGED <<config, encoded>>

\* ... or does not, and its error is returned.
StoreFails(p) ==
    /\ At(p, "encode", "store")
    /\ Return(p)
    /\ UNCHANGED <<config, mem, embedded, origin, encoded>>

\* Mutant: an error of the hook after_encode is returned.
EncodeEndsOrFails(p) ==
    /\ At(p, "encode", "stored")
    /\ Return(p)
    /\ encoded' \in {encoded, encoded + 1}
    /\ UNCHANGED <<config, mem, embedded, origin>>

\* After the hook after_encode, whatever it does, the ID is returned.
EncodeEnds(p) ==
    /\ At(p, "encode", "stored")
    /\ Return(p)
    /\ encoded' = encoded + 1
    /\ UNCHANGED <<config, mem, embedded, origin>>

-----------------------------------------------------------------------------
(* RetrieveFromLTM.                                                        *)

BeforeSearch == IF config.hooks THEN "before_retrieve" ELSE "search"

Retrieve(p, ctx, query, strategy, embedding) ==
    /\ op[p] = None
    /\ op' = [op EXCEPT ![p] =
          [call |-> "retrieve", ctx |-> ctx, query |-> query,
           at |-> IF /\ config.vectors
                     /\ strategy = "semantic"
                     /\ embedding = None
                     /\ query.text # Contents
                  THEN "embed_query" ELSE BeforeSearch,
           embedding |-> embedding, rows |-> <<>>]]
    /\ UNCHANGED <<config, mem, embedded, origin, encoded>>

\* Without an answer of the engine the search is one for the text.
EmbedQuery(p) ==
    /\ At(p, "retrieve", "embed_query")
    /\ \E embedding \in {op[p].query.text, None} :
          op' = [op EXCEPT ![p].embedding = embedding, ![p].at = BeforeSearch]
    /\ UNCHANGED <<config, mem, embedded, origin, encoded>>

\* The hook may change the query, but not its embedding.
BeforeRetrieve(p) ==
    /\ At(p, "retrieve", "before_retrieve")
    /\ \E query \in HookQueries \cup {op[p].query} :
          op' = [op EXCEPT ![p].query = query, ![p].at = "search"]
    /\ UNCHANGED <<config, mem, embedded, origin, encoded>>

\* What the store looks among: what the caller may see and wants; in the vector
\* adapters, which ask for no level or user, what passes the filter, in pgvector
\* of the caller's entity and with the text if there is no embedding, and in
\* chromem-go of any entity and text.
Reached(ctx, q, near) ==
    LET InFilter(id, r) == IF q.id # None THEN q.id = id ELSE r.meta \in q.filter
        OfEntity(e)     == {id \in Ids : /\ mem[e][id] # None
                                         /\ InFilter(id, mem[e][id])}
    IN  CASE config.store = "promising" -> Wanted(mem[ctx.entity], ctx, q)
          [] config.store = "pgvector" ->
                {id \in OfEntity(ctx.entity) :
                    near = None /\ q.id = None
                       => mem[ctx.entity][id].content \in q.text}
          [] OTHER -> UNION {OfEntity(e) : e \in Entities}

\* As many of those as the limit allows, or fewer if an index or chromem-go does
\* not find them all.
AnswersTo(ctx, q, near) ==
    LET reached == Reached(ctx, q, near)
        n       == IF Cardinality(reached) > LimitOf(q) THEN LimitOf(q)
                                                        ELSE Cardinality(reached)
        sizes   == IF config.store = "promising" THEN {n} ELSE 0 .. n
    IN  UNION {SetToSeqs(s) : s \in UNION {kSubset(k, reached) : k \in sizes}}

Search(p) ==
    /\ At(p, "retrieve", "search")
    /\ \E rows \in AnswersTo(op[p].ctx, op[p].query, op[p].embedding) :
          op' = [op EXCEPT ![p].rows = rows, ![p].at = "found"]
    /\ UNCHANGED <<config, mem, embedded, origin, encoded>>

SearchFails(p) ==
    /\ At(p, "retrieve", "search")
    /\ Return(p)
    /\ UNCHANGED <<config, mem, embedded, origin, encoded>>

\* The records are returned as the store has answered, whatever the hooks do.
RetrieveEnds(p) ==
    /\ At(p, "retrieve", "found")
    /\ Return(p)
    /\ UNCHANGED <<config, mem, embedded, origin, encoded>>

-----------------------------------------------------------------------------
Continue(p) ==
    \/ BeforeEmbedding(p)
    \/ Embed(p)
    \/ BeforeEncode(p)
    \/ Store(p)
    \/ StoreFails(p)
    \/ EncodeEnds(p)
    \/ EmbedQuery(p)
    \/ BeforeRetrieve(p)
    \/ Search(p)
    \/ SearchFails(p)
    \/ RetrieveEnds(p)

Call(p) ==
    \E ctx \in Callers :
        \/ \E data \in Data : Encode(p, ctx, data)
        \/ \E q \in Queries, strategy \in {"exact", "semantic"} :
              \E embedding \in {None, q.text} :
                  Retrieve(p, ctx, q, strategy, embedding)

Next == \E p \in Procs : Call(p) \/ Continue(p)

Spec == Init /\ [][Next]_vars

-----------------------------------------------------------------------------
(* Correctness.                                                            *)

\* The store holds one record for each call of EncodeToLTM that has succeeded
\* or is about to, and none for a call that has returned an error: no hook or
\* engine that fails before or after the store makes the answer a wrong one.
EncodesOnce ==
    encoded + Cardinality({p \in Procs : At(p, "encode", "stored")})
        = Cardinality({r \in Entities \X Ids : mem[r[1]][r[2]] # None})

\* A record belongs to the entity and the user of the call it comes from and is
\* private if the call said so with an int; only a hook can have changed its
\* content; and its embedding is the one that was passed, or one of the content
\* that was passed, or none.
RecordsAsAsked ==
    \A e \in Entities, id \in Ids :
        mem[e][id] # None =>
            LET r    == mem[e][id]
                data == origin[id].data
            IN  /\ e = origin[id].ctx.entity
                /\ r.entity = e
                /\ r.user = origin[id].ctx.user
                /\ data.levelIsInt => r.level = data.level
                /\ ~config.hooks => r.content = data.content
                /\ IF data.embedding # None
                   THEN embedded[id] = data.embedding
                   ELSE /\ embedded[id] \in {None, data.content}
                        /\ ~config.vectors => embedded[id] = None

\* What a caller without a user encodes as private nobody may see.
SeenByNobody(id) ==
    /\ origin[id].ctx.user = None
    /\ origin[id].data.levelIsInt /\ origin[id].data.level = "private"

\* A query asks for what was passed when the record was encoded.
AsksFor(q, id) ==
    /\ q.id \in {None, id}
    /\ q.filter = Metas
    /\ IF config.hooks THEN q.text = Contents
                       ELSE origin[id].data.content \in q.text

\* A caller finds what it has encoded: once the store has a record, a search for
\* the context it was encoded with, by a query that in the end asks for what was
\* passed, shows it or is full.  This is said of a store that keeps its promises:
\* the vector adapters may miss a record or be full of others.
ReadsOwnWrites ==
    [][\A p \in Procs, id \in Ids :
          /\ config.store = "promising"
          /\ At(p, "retrieve", "search")
          /\ At(p, "retrieve", "found")'
          /\ origin[id] # None
          /\ origin[id].ctx = op[p].ctx
          /\ ~SeenByNobody(id)
          /\ AsksFor(op[p].query, id)
          => \/ id \in ToSet(op'[p].rows)
             \/ Len(op'[p].rows) = LimitOf(op[p].query)]_vars
=============================================================================
