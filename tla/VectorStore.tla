----------------------------- MODULE VectorStore -----------------------------
(***************************************************************************)
(* The vector adapters, .../vector/chromem_go/chromem_go.go, a collection  *)
(* of documents in the process or on its disk, and                         *)
(* .../vector/pgvector/pgvector.go, one PostgreSQL table.  An SQL          *)
(* statement, a transaction or a call of the chromem-go library is a step; *)
(* pgvector's Update is two of them, chromem-go's Update three and its     *)
(* Delete two, between which the other processes' steps run.  Any step may *)
(* fail, also after it has had its effect: the answer of a statement or a  *)
(* COMMIT is lost, or chromem-go has changed its documents in memory and   *)
(* cannot write or remove the file.  The process may stop and start again  *)
(* between any two steps.                                                  *)
(*                                                                         *)
(* Embeddings are points on a line, which for both adapters is all that    *)
(* distances are used for.  Neither Store, Update nor Delete looks at the  *)
(* entity context, so that they have none here.  Metadata do not use the   *)
(* adapters' own keys, but for "entity_id".                                *)
(***************************************************************************)
EXTENDS Memory

CONSTANTS
    Procs,          \* the goroutines that call the store
    EmbeddingOf,    \* the point the reasoning engine gives to a content
    Embedded,       \* those of NewRecords that come with an embedding
    Placeholder,    \* the embedding that chromem_go.go uses for want of one
    AsText,         \* what metadata become when their values are strings
    Claimed,        \* the entity that a key "entity_id" of metadata names
    Near,           \* the embeddings of the callers' queries, or None
    ExactMatch,     \* each query's criteria beside the ID
    Maps,           \* filter maps that callers make for one query
    Reused          \* the one that they use again and again

\* The system fields of a filter map: an entity_id, of type entity.EntityID or
\* not, and the users and access levels let through.
FilterMaps == [entity : Entities \cup {None}, typed : BOOLEAN,
               users : SUBSET (Users \cup {None}), levels : SUBSET Levels]

\* The criteria of ExactMatch: on the system fields, as in a filter map, and on
\* metadata, whose keys are not those of the query's filter.
Criteria == [fields : FilterMaps, metas : SUBSET Metas]

Points == {EmbeddingOf[c] : c \in Contents} \cup {Placeholder}

ASSUME VectorAssumption ==
    /\ EmbeddingOf \in [Contents -> Nat]
    /\ Embedded \subseteq NewRecords
    /\ Placeholder \in Nat
    /\ AsText \in [Metas -> Metas]
    /\ Claimed \in [Metas -> Entities \cup {None}]
    /\ Near \subseteq Points \cup {None}
    /\ None \notin Points
    /\ None \notin NewRecords
    /\ ExactMatch \in [Queries -> Criteria]
    /\ Maps \subseteq FilterMaps
    /\ Reused \notin FilterMaps

VARIABLES
    backend,        \* which of the two adapters this is
    onDisk,         \* what is stored survives the process
    table,          \* the document or row of each ID
    saved,          \* the file of each document of chromem-go
    pending,        \* the Update or Delete each process is in the middle of
    reused,         \* what the reused filter map holds
    told,           \* what callers were last told of each ID
    reply           \* the last call that ended, and its answer

vars == <<backend, onDisk, table, saved, pending, reused, told, reply>>

\* A record may name no entity, and is then stored for none.
Rows == [entity : Entities \cup {None}, user : Users \cup {None},
         level : Levels, content : Contents, meta : Metas, created : Times,
         updated : Times, embedding : Points]

Steps == [next : {"write", "remove", "add"}, id : Ids, input : NewRecords]
           \cup [next : {"delete"}, id : Ids]

ASSUME NoneAssumption == None \notin Rows \cup Steps

\* A caller was told nothing that it can rely on; that the record is there; that
\* an Update wrote it, which had gone; that it is not there.
Tales == {"nothing", "kept", "missed", "gone"}

TypeOK ==
    /\ backend \in {"chromem", "pgvector"}
    /\ onDisk \in BOOLEAN
    /\ table \in [Ids -> Rows \cup {None}]
    /\ saved \in [Ids -> Rows \cup {None}]
    /\ pending \in [Procs -> Steps \cup {None}]
    /\ reused \in FilterMaps
    /\ told \in [Ids -> Tales]
    /\ reply \in [call : {"none", "Store", "Retrieve", "Update", "Delete"},
                  outcome : {"none", "ok", "error"}, rows : Seq(Ids)]

EmptyTable == [id \in Ids |-> None]

\* A map with no system field in it.
NoFilters == [entity |-> None, typed |-> TRUE, users |-> Users \cup {None},
              levels |-> Levels]

\* initializeTable; GetOrCreateCollection.
Init ==
    /\ backend \in {"chromem", "pgvector"}
    /\ onDisk \in BOOLEAN
    /\ backend = "pgvector" => onDisk
    /\ table = EmptyTable
    /\ saved = EmptyTable
    /\ pending = [p \in Procs |-> None]
    /\ reused = NoFilters
    /\ told = [id \in Ids |-> "nothing"]
    /\ reply = [call |-> "none", outcome |-> "none", rows |-> <<>>]

Reply(call, outcome, rows) ==
    reply' = [call |-> call, outcome |-> outcome, rows |-> rows]

Tell(id, what) == told' = [told EXCEPT ![id] = what]

Idle(p) == pending[p] = None

Continue(p, step) == pending' = [pending EXCEPT ![p] = step]

\* A call is refused or fails before it has changed anything.
Fails(p, call) ==
    /\ Reply(call, "error", <<>>)
    /\ Continue(p, None)
    /\ UNCHANGED <<backend, onDisk, table, saved, reused, told>>

\* ErrRecordNotFound, which also tells the caller something.
NotFound(p, id, call) ==
    /\ table[id] = None
    /\ Tell(id, "gone")
    /\ Reply(call, "error", <<>>)
    /\ UNCHANGED <<backend, onDisk, table, saved, pending, reused>>

\* What has been done to the table is done to the files of chromem-go.
HasFiles == backend = "chromem" /\ onDisk

Save(id) ==
    saved' = IF HasFiles THEN [saved EXCEPT ![id] = table'[id]] ELSE saved

\* A write of a document succeeds, and its caller is told, ...
Succeeds(id, call, what) ==
    Save(id) /\ Tell(id, what) /\ Reply(call, "ok", <<>>)

\* ... or it has its effect and the caller gets an error.
Miscarries(id, call) ==
    /\ backend = "pgvector" \/ HasFiles
    /\ Tell(id, "nothing")
    /\ Reply(call, "error", <<>>)
    /\ UNCHANGED saved

-----------------------------------------------------------------------------
\* pgvector refuses a record without an embedding of its dimension.
Storable(input) == backend = "pgvector" => input \in Embedded

EmbeddingFor(input) ==
    IF input \in Embedded THEN EmbeddingOf[input.content] ELSE Placeholder

\* Metadata become strings in chromem-go, where they overwrite the system
\* fields, and JSON in PostgreSQL.
Keeps(m) == IF backend = "chromem" THEN AsText[m] ELSE Kept[m]

EntityFor(input) ==
    IF backend = "chromem" /\ Claimed[input.meta] # None
      THEN Claimed[input.meta]
      ELSE input.entity

Row(input, now) ==
    [entity |-> EntityFor(input), user |-> input.user, level |-> input.level,
     content |-> input.content, meta |-> Keeps(input.meta),
     created |-> input.created, updated |-> now,
     embedding |-> EmbeddingFor(input)]

\* Mutant: UPDATE leaves the embedding as it was.
ReplacedUnembedded(old, input, now) ==
    IF backend = "pgvector" /\ old # None
      THEN [Row(input, now) EXCEPT !.created = old.created,
                                   !.embedding = old.embedding]
      ELSE Row(input, now)

\* ON CONFLICT (id) DO UPDATE and UPDATE leave created_at as it was; a document
\* is replaced as a whole.
Replaced(old, input, now) ==
    IF backend = "pgvector" /\ old # None
      THEN [Row(input, now) EXCEPT !.created = old.created]
      ELSE Row(input, now)

\* The time of the update is the caller's or that of the clock.  chromem-go does
\* not compare times, so that there one of them stands for all.
Clock(input) == IF backend = "pgvector" THEN Times ELSE {input.created}

Put(id, input) ==
    /\ Storable(input)
    /\ \E now \in Clock(input) :
          table' = [table EXCEPT ![id] = Replaced(@, input, now)]
    /\ UNCHANGED <<backend, onDisk, reused>>

Store(p, id, input) ==
    /\ Idle(p)
    /\ \/ /\ Put(id, input)
          /\ Succeeds(id, "Store", "kept") \/ Miscarries(id, "Store")
          /\ UNCHANGED pending
       \/ Fails(p, "Store")

-----------------------------------------------------------------------------
Documents(rows) == {id \in Ids : rows[id] # None}

\* Mutant: pgvector looks for the ID in every entity.
ByIDAnywhere(rows, ctx, id) == Documents(rows) \cap {id}

\* retrieveByID.
ByID(rows, ctx, id) ==
    {i \in Documents(rows) \cap {id} :
        backend = "pgvector" => rows[i].entity = ctx.entity}

\* chromem-go takes the entity of a filter map only from an entity.EntityID.
NamesEntity(map) == map.entity # None /\ (map.typed \/ backend = "pgvector")

Passes(row, map) ==
    /\ NamesEntity(map) => row.entity = map.entity
    /\ row.user \in map.users
    /\ row.level \in map.levels

\* chromem-go's criteria, whose entity may be a string, replace what the filter
\* map says of the same field.
Overridden(map, fields) ==
    [entity |-> IF fields.entity # None THEN fields.entity ELSE map.entity,
     typed  |-> fields.entity # None \/ map.typed,
     users  |-> IF fields.users # Users \cup {None} THEN fields.users
                                                    ELSE map.users,
     levels |-> IF fields.levels # Levels THEN fields.levels ELSE map.levels]

\* What a row has to pass: pgvector asks for both, and chromem-go does not look
\* at the criteria when it searches by an embedding.
Asked(q, near, map) ==
    LET fields == ExactMatch[q].fields
    IN  CASE backend = "pgvector" -> {map, fields}
          [] backend = "chromem" /\ near = None -> {Overridden(map, fields)}
          [] OTHER -> {map}

\* The where map, buildWhereClause; only pgvector looks at the text, and only
\* in a query without an embedding.
Where(rows, q, near, map) ==
    {id \in Documents(rows) :
        /\ \A m \in Asked(q, near, map) : Passes(rows[id], m)
        /\ rows[id].meta \in q.filter
        /\ near = None => rows[id].meta \in ExactMatch[q].metas
        /\ backend = "pgvector" /\ near = None => rows[id].content \in q.text}

\* The filters that pgvector queries with: those of the caller's map, into
\* which it writes the entity of the context if none is there.
Filters(ctx, q, given) ==
    IF backend = "pgvector" /\ q.id = None /\ given.entity = None
      THEN [given EXCEPT !.entity = ctx.entity, !.typed = TRUE]
      ELSE given

Limit(q) == IF q.limit > 0 THEN q.limit ELSE DefaultLimit

Distance(a, b) == IF a > b THEN a - b ELSE b - a

\* A row that is asked for first: the nearest to a point, or the last updated.
Precedes(rows, near, i, j) ==
    IF near # None
      THEN Distance(rows[i].embedding, near)
             <= Distance(rows[j].embedding, near)
      ELSE rows[i].updated >= rows[j].updated

Ordered(rows, near, s) ==
    \A i, j \in DOMAIN s : i < j => Precedes(rows, near, s[i], s[j])

\* Mutant: the filters are applied to the nearest of all documents.
NearestThenFiltered(rows, ids, near, n) ==
    {SelectSeq(SubSeq(s, 1, IF Len(s) > n THEN n ELSE Len(s)),
               LAMBDA id : id \in ids) :
        s \in {t \in SetToSeqs(Documents(rows)) : Ordered(rows, near, t)}}

\* The first n of ids, in any order where nothing tells them apart.
First(rows, ids, near, n) ==
    {SubSeq(s, 1, IF Len(s) > n THEN n ELSE Len(s)) :
        s \in {t \in SetToSeqs(ids) : Ordered(rows, near, t)}}

\* The library answers a query for more results than there are documents with
\* an error, from which retrieveSemantic alone makes an empty answer.
TooMany(rows, n) == n > Cardinality(Documents(rows))

\* chromem-go: a query without an embedding, whether for text or not, is one
\* for what is near the placeholder.
ChromemAnswers(rows, q, near, map) ==
    LET n == Limit(q)
    IN  IF ~TooMany(rows, n)
          THEN First(rows, Where(rows, q, near, map),
                     IF near = None THEN Placeholder ELSE near, n)
          ELSE IF near # None THEN {<<>>} ELSE {}

\* pgvector takes the keys of criteria for columns, so that one on metadata is an
\* error.
NoSuchColumn(q) == ExactMatch[q].metas # Metas

\* pgvector: the ivfflat index may not find every row near a point.
PgvectorAnswers(rows, q, near, map) ==
    LET ids == Where(rows, q, near, map)
    IN  IF NoSuchColumn(q)
          THEN {}
          ELSE UNION {First(rows, found, near, Limit(q)) :
                         found \in IF near = None THEN {ids} ELSE SUBSET ids}

IDAnswers(rows, ctx, q) ==
    IF backend = "chromem" /\ TooMany(rows, 1)
      THEN {}
      ELSE First(rows, ByID(rows, ctx, q.id), None, 1)

\* The answers that a query may get when it does not fail.
Found(rows, ctx, q, near, given) ==
    IF q.id # None
      THEN IDAnswers(rows, ctx, q)
      ELSE IF backend = "chromem"
             THEN ChromemAnswers(rows, q, near, given)
             ELSE PgvectorAnswers(rows, q, near, Filters(ctx, q, given))

\* The maps that a caller may pass, and what they hold.
MapOf(m) == IF m = Reused THEN reused ELSE m

\* pgvector writes into the caller's map before it asks the database.
Retrieve(p, ctx, q, near, m) ==
    /\ Idle(p)
    /\ \/ \E rows \in Found(table, ctx, q, near, MapOf(m)) :
             Reply("Retrieve", "ok", rows)
       \/ Reply("Retrieve", "error", <<>>)
    /\ reused' = IF m = Reused THEN Filters(ctx, q, reused) ELSE reused
    /\ UNCHANGED <<backend, onDisk, table, saved, pending, told>>

\* pgvector alone asks for an entity context, and for embeddings of its table's
\* dimension, before anything else.
RetrieveRefused(p) == Idle(p) /\ backend = "pgvector" /\ Fails(p, "Retrieve")

-----------------------------------------------------------------------------
\* SELECT EXISTS; retrieveByID, which is an error when there is no document.
FindForUpdate(p, id, input) ==
    /\ Idle(p)
    /\ \/ /\ Storable(input)
          /\ table[id] # None
          /\ Continue(p, [next |-> IF backend = "pgvector" THEN "write"
                                                           ELSE "remove",
                          id |-> id, input |-> input])
          /\ UNCHANGED <<backend, onDisk, table, saved, reused, told, reply>>
       \/ /\ Storable(input)
          /\ backend = "chromem" => ~TooMany(table, 1)
          /\ NotFound(p, id, "Update")
       \/ Fails(p, "Update")

\* Mutant: a row that has gone is inserted again.
UpdateOrInsert(p) ==
    /\ ~Idle(p)
    /\ pending[p].next = "write"
    /\ Put(pending[p].id, pending[p].input)
    /\ Succeeds(pending[p].id, "Update", "kept")
    /\ Continue(p, None)

\* UPDATE ... WHERE id, which may hit no row: the count is not looked at, and the
\* caller is told the same.
WriteUpdate(p) ==
    /\ ~Idle(p)
    /\ pending[p].next = "write"
    /\ LET id == pending[p].id
       IN  \/ /\ table[id] # None
              /\ Put(id, pending[p].input)
              /\ Succeeds(id, "Update", "kept") \/ Miscarries(id, "Update")
              /\ Continue(p, None)
           \/ /\ table[id] = None
              /\ Tell(id, "missed")
              /\ Reply("Update", "ok", <<>>)
              /\ Continue(p, None)
              /\ UNCHANGED <<backend, onDisk, table, saved, reused>>
           \/ Fails(p, "Update")

\* The document or row is taken out.
Takes(id) ==
    /\ table' = [table EXCEPT ![id] = None]
    /\ UNCHANGED <<backend, onDisk, reused>>

\* chromem-go: the document is deleted, if it is still there, ...
RemoveForUpdate(p) ==
    /\ ~Idle(p)
    /\ pending[p].next = "remove"
    /\ LET id == pending[p].id
       IN  \/ /\ Takes(id)
              /\ Save(id)
              /\ Continue(p, [pending[p] EXCEPT !.next = "add"])
              /\ UNCHANGED <<told, reply>>
           \/ /\ table[id] # None
              /\ Takes(id)
              /\ Miscarries(id, "Update")
              /\ Continue(p, None)
           \/ Fails(p, "Update")

\* Mutant: that the document could not be added is not reported.
AddIgnoresError(p) ==
    /\ ~Idle(p)
    /\ pending[p].next = "add"
    /\ Put(pending[p].id, pending[p].input)
         \/ UNCHANGED <<backend, onDisk, table, reused>>
    /\ Succeeds(pending[p].id, "Update", "kept")
    /\ Continue(p, None)

\* ... and stored again.  If that fails there may be none.
AddForUpdate(p) ==
    /\ ~Idle(p)
    /\ pending[p].next = "add"
    /\ LET id == pending[p].id
       IN  \/ /\ Put(id, pending[p].input)
              /\ Succeeds(id, "Update", "kept") \/ Miscarries(id, "Update")
           \/ /\ Tell(id, "nothing")
              /\ Reply("Update", "error", <<>>)
              /\ UNCHANGED <<backend, onDisk, table, saved, reused>>
    /\ Continue(p, None)

\* DELETE ... WHERE id, of which no row is an error; retrieveByID.
Delete(p, id) ==
    /\ Idle(p)
    /\ \/ /\ backend = "pgvector"
          /\ table[id] # None
          /\ Takes(id)
          /\ Succeeds(id, "Delete", "gone") \/ Miscarries(id, "Delete")
          /\ UNCHANGED pending
       \/ backend = "pgvector" /\ NotFound(p, id, "Delete")
       \/ /\ backend = "chromem"
          /\ table[id] # None
          /\ Continue(p, [next |-> "delete", id |-> id])
          /\ UNCHANGED <<backend, onDisk, table, saved, reused, told, reply>>
       \/ /\ backend = "chromem"
          /\ table[id] = None
          /\ ~TooMany(table, 1)
          /\ Tell(id, "gone")
          /\ Reply("Delete", "ok", <<>>)
          /\ UNCHANGED <<backend, onDisk, table, saved, pending, reused>>
       \/ Fails(p, "Delete")

\* chromem-go: collection.Delete, of what may have gone by now.
RemoveForDelete(p) ==
    /\ ~Idle(p)
    /\ pending[p].next = "delete"
    /\ LET id == pending[p].id
       IN  \/ /\ Takes(id)
              /\ \/ Succeeds(id, "Delete", "gone")
                 \/ table[id] # None /\ Miscarries(id, "Delete")
              /\ Continue(p, None)
           \/ Fails(p, "Delete")

\* The IDs whose document an Update has taken away and not yet stored again.
Removed == {pending[p].id : p \in {r \in Procs :
                pending[r] # None /\ pending[r].next = "add"}}

\* What is there when the process starts again.
Left == IF backend = "pgvector" THEN table ELSE saved

\* The process stops, whatever it was doing, and is started again.  Nobody is
\* told what became of the calls that it was in, nor of a document whose file is
\* not what the process had in memory.
Restart ==
    /\ table' = Left
    /\ told' = [id \in Ids |->
                   IF Left[id] = table[id] /\ id \notin Removed /\ onDisk
                     THEN told[id] ELSE "nothing"]
    /\ pending' = [p \in Procs |-> None]
    /\ reused' = NoFilters
    /\ reply' = [call |-> "none", outcome |-> "none", rows |-> <<>>]
    /\ UNCHANGED <<backend, onDisk, saved>>

Next ==
    \/ \E p \in Procs :
          \/ RetrieveRefused(p)
          \/ \E ctx \in Callers, q \in Queries, near \in Near,
                m \in Maps \cup {Reused} : Retrieve(p, ctx, q, near, m)
          \/ \E id \in Ids :
                \/ Delete(p, id)
                \/ \E input \in NewRecords :
                      Store(p, id, input) \/ FindForUpdate(p, id, input)
          \/ WriteUpdate(p) \/ RemoveForUpdate(p) \/ AddForUpdate(p)
          \/ RemoveForDelete(p)
    \/ Restart

Spec == Init /\ [][Next]_vars

-----------------------------------------------------------------------------
(* Correctness.                                                            *)

\* An answer shows only rows that were asked for, each once, the nearest or the
\* last updated first, and no more than the limit.  Unless an index is used it
\* is all of them as far as the limit goes, nearer ones before those left out;
\* but chromem-go finds nothing when the limit exceeds its documents.
NearestAnswered ==
    \A ctx \in Callers, q \in Queries, near \in Near, m \in Maps \cup {Reused} :
        LET map   == IF backend = "pgvector" THEN Filters(ctx, q, MapOf(m))
                                             ELSE MapOf(m)
            ids   == Where(table, q, near, map)
            point == IF backend = "chromem" /\ near = None THEN Placeholder
                                                           ELSE near
            Right(rows) ==
                /\ IsInjective(rows)
                /\ ToSet(rows) \subseteq ids
                /\ Len(rows) <= Limit(q)
                /\ Ordered(table, point, rows)
            Complete(rows) ==
                \/ ToSet(rows) = ids
                \/ /\ Len(rows) = Limit(q)
                   /\ \A i \in ToSet(rows), j \in ids \ ToSet(rows) :
                         Precedes(table, point, i, j)
        IN  q.id = None =>
                \A rows \in Found(table, ctx, q, near, MapOf(m)) :
                    /\ Right(rows)
                    /\ \/ Complete(rows)
                       \/ backend = "pgvector" /\ near # None
                       \/ /\ backend = "chromem"
                          /\ Limit(q) > Cardinality(Documents(table))
                          /\ rows = <<>>

\* An answer of pgvector is of the context's entity, unless the filter map names
\* another, put there by the caller or by an earlier query with the same map, and
\* criteria that name an entity can only make it smaller.  One of chromem-go has
\* nothing to do with the context: it is of the entity that the criteria name,
\* whatever the map says, if it is a search without an embedding, and otherwise
\* of the one in the map, if that is an entity.EntityID.
OwnEntityUnlessNamed ==
    \A ctx \in Callers, q \in Queries, near \in Near, m \in Maps \cup {Reused} :
        LET map        == MapOf(m)
            exact      == ExactMatch[q].fields.entity
            inPg       == backend = "pgvector"
            own        == inPg /\ (q.id # None \/ map.entity = None)
            byCriteria == q.id = None /\ exact # None /\ (inPg \/ near = None)
            byMap      == /\ q.id = None /\ map.entity # None
                          /\ inPg \/ (map.typed /\ ~byCriteria)
        IN  \A rows \in Found(table, ctx, q, near, map) :
                \A id \in ToSet(rows) :
                    /\ own => table[id].entity = ctx.entity
                    /\ byCriteria => table[id].entity = exact
                    /\ byMap => table[id].entity = map.entity

\* What callers were told last of a record stays true, whatever else runs and
\* fails: a record that was stored or updated is there, except while an Update of
\* chromem-go has taken it away, and one that was deleted or not found is not.
\* It also stays true across restarts, except for documents that were only in
\* memory, that such an Update had taken away, or whose file an error had left
\* behind or unwritten.  It is not said of an Update of pgvector that hit no row,
\* which tells its caller of success all the same, although ErrRecordNotFound is to
\* be "returned when a record with the specified ID doesn't exist" (pgvector.go:22).
AsTold ==
    \A id \in Ids :
        /\ told[id] = "kept" => table[id] # None \/ id \in Removed
        /\ told[id] = "gone" => table[id] = None

\* A file that is not what chromem-go has in memory.
FileLeft(id) == backend = "chromem" /\ saved[id] # None

\* Nothing but Store brings back a record that is gone, not even an Update that
\* found it before, except in chromem-go: its Update between its own two steps,
\* or because it does not notice that what it takes away had been deleted; and a
\* restart that finds the file which a failed call could not remove.
NoResurrection ==
    [][\A id \in Ids :
          table[id] = None /\ table'[id] # None =>
              \/ reply'.call = "Store"
              \/ id \in Removed
              \/ reply'.call = "none" /\ FileLeft(id)]_vars

\* A content is always found by its own embedding, or in chromem-go by the
\* placeholder: no call leaves a row or a file with parts of different records.
EmbeddingsFit ==
    \A t \in {table, saved} : \A id \in Documents(t) :
        t[id].embedding \in
            {EmbeddingOf[t[id].content]}
              \cup (IF backend = "chromem" THEN {Placeholder} ELSE {})
=============================================================================
