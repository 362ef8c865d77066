------------------------------ MODULE SqlStore ------------------------------
(***************************************************************************)
(* The SQL adapters, pkg/mem/ltm/adapters/sqlstore/sqlite/sqlite3.go and   *)
(* .../postgres/postgres.go: one table for all entities, its primary key   *)
(* the record's ID.  Each operation is one statement, so that it is one    *)
(* step here, also when several goroutines share the store.  SQLite takes  *)
(* the ID of the caller; PostgreSQL ignores it and makes one up.           *)
(***************************************************************************)
EXTENDS Memory

VARIABLES
    backend,        \* which of the two adapters this is
    table,          \* memory_records: the row of each ID
    reply           \* the last operation and its answer

vars == <<backend, table, reply>>

TypeOK ==
    /\ backend \in {"sqlite", "postgres"}
    /\ table \in [Ids -> Records \cup {None}]
    /\ reply.ctx \in Callers \cup {None}
    /\ reply.outcome \in {"none", "ok", "error"}
    /\ reply.rows \in Seq(Ids)

Init ==
    /\ backend \in {"sqlite", "postgres"}
    /\ table = [id \in Ids |-> None]
    /\ reply = [call |-> "none", ctx |-> None, outcome |-> "none", rows |-> <<>>]

Reply(call, ctx, outcome, rows) ==
    reply' = [call |-> call, ctx |-> ctx, outcome |-> outcome, rows |-> rows]

\* ErrMissingEntityContext, a refused record, a statement that fails or hits no
\* row: an error is returned, and nothing has changed.
Fails(call, ctx) ==
    /\ Reply(call, ctx, "error", <<>>)
    /\ UNCHANGED <<backend, table>>

NoContext ==
    \E call \in {"Store", "Retrieve", "Update", "Delete"} : Fails(call, None)

-----------------------------------------------------------------------------
\* Mutant: INSERT OR REPLACE.
KeyOrReplace(id, given) == backend = "sqlite" => id = given

\* The ID of the row that Store inserts: SQLite's is the caller's, and must be
\* new; PostgreSQL's is one that no row has, whatever the caller's was.
Key(id, given) ==
    /\ backend = "sqlite" => id = given
    /\ table[id] = None

\* The time is that of the store's clock, which may stand still or be set back;
\* that of the caller's record is not used.
Store(ctx, given, input) ==
    \/ /\ Acceptable(input, ctx)
       /\ \E id \in Ids, now \in Times :
             /\ Key(id, given)
             /\ table' = [table EXCEPT ![id] =
                             [Owned(input, ctx) EXCEPT !.created = now]]
       /\ Reply("Store", ctx, "ok", <<>>)
       /\ UNCHANGED backend
    \/ Fails("Store", ctx)

\* Mutant: whoever stored a record sees it in every entity.
WhereOwner(rows, ctx, q) ==
    {id \in Ids : /\ rows[id] # None
                  /\ \/ /\ rows[id].entity = ctx.entity
                        /\ rows[id].level = "shared"
                     \/ /\ ctx.user # None
                        /\ rows[id].user = ctx.user
                  /\ q.id \in {None, id}
                  /\ rows[id].content \in q.text}

\* The WHERE clause of Retrieve, in which the metadata filter has no part.
Where(rows, ctx, q) ==
    {id \in Ids : /\ rows[id] # None
                  /\ rows[id].entity = ctx.entity
                  /\ \/ rows[id].level = "shared"
                     \/ /\ ctx.user # None
                        /\ rows[id].level = "private"
                        /\ rows[id].user = ctx.user
                  /\ q.id \in {None, id}
                  /\ rows[id].content \in q.text}

\* ORDER BY created_at DESC LIMIT: what the database may select.
Selected(rows, ctx, q) ==
    LET limit == IF q.limit > 0 THEN q.limit ELSE DefaultLimit
    IN  {SubSeq(s, 1, IF Len(s) > limit THEN limit ELSE Len(s)) :
            s \in {t \in SetToSeqs(Where(rows, ctx, q)) :
                      \A i, j \in DOMAIN t :
                          i < j => rows[t[i]].created >= rows[t[j]].created}}

\* x is somewhere before y.
Before(s, x, y) == \E i, j \in DOMAIN s : i < j /\ s[i] = x /\ s[j] = y

\* Those of the selected rows that pass matchesFilters, in the same order.
Filtered(rows, s, q) ==
    CHOOSE t \in SetToSeqs({id \in ToSet(s) : rows[id].meta \in q.filter}) :
        \A i, j \in DOMAIN t : i < j => Before(s, t[i], t[j])

\* The answers that a query may get.
Found(rows, ctx, q) == {Filtered(rows, s, q) : s \in Selected(rows, ctx, q)}

Retrieve(ctx, q) ==
    \/ /\ \E rows \in Found(table, ctx, q) : Reply("Retrieve", ctx, "ok", rows)
       /\ UNCHANGED <<backend, table>>
    \/ Fails("Retrieve", ctx)

-----------------------------------------------------------------------------
\* Mutant: WHERE id = ... only.
HitsByID(ctx, id) == table[id] # None

\* WHERE id = ... AND entity_id = ...
Hits(ctx, id) == table[id] # None /\ table[id].entity = ctx.entity

Update(ctx, id, input) ==
    \/ /\ Hits(ctx, id)
       /\ table' = [table EXCEPT ![id].content = input.content,
                                 ![id].meta = Kept[input.meta]]
       /\ Reply("Update", ctx, "ok", <<>>)
       /\ UNCHANGED backend
    \/ Fails("Update", ctx)

\* Mutant: the number of affected rows is not asked for.
DeleteUncounted(ctx, id) ==
    \/ /\ table' = IF Hits(ctx, id) THEN [table EXCEPT ![id] = None] ELSE table
       /\ Reply("Delete", ctx, "ok", <<>>)
       /\ UNCHANGED backend
    \/ Fails("Delete", ctx)

Delete(ctx, id) ==
    \/ /\ Hits(ctx, id)
       /\ table' = [table EXCEPT ![id] = None]
       /\ Reply("Delete", ctx, "ok", <<>>)
       /\ UNCHANGED backend
    \/ Fails("Delete", ctx)

Next ==
    \/ NoContext
    \/ \E ctx \in Callers :
          \/ \E q \in Queries : Retrieve(ctx, q)
          \/ \E id \in Ids :
                \/ Delete(ctx, id)
                \/ \E input \in NewRecords :
                      Store(ctx, id, input) \/ Update(ctx, id, input)

Spec == Init /\ [][Next]_vars

-----------------------------------------------------------------------------
(* Correctness.                                                            *)

\* The memory of each entity: its rows of the table.
Memories ==
    [e \in Entities |-> [id \in Ids |->
        IF table[id] # None /\ table[id].entity = e THEN table[id] ELSE None]]

\* What callers pass, at whatever time the store's clock shows.
Timed == {[input EXCEPT !.created = t] : input \in NewRecords, t \in Times}

Promise == INSTANCE MemoryStore WITH mem <- Memories, NewRecords <- Timed

\* Store, Update and Delete of both adapters do to the memory of the entity
\* what the interface ltm.LTMStore allows, and Retrieve does nothing to it.
WritesImplementLTMStore ==
    /\ Promise!Init
    /\ [][IF reply'.call = "Retrieve" THEN Memories' = Memories
                                      ELSE Promise!Next]_vars

\* No operation changes what another entity has stored.
EntityIsolation == Promise!EntityIsolation

\* Store never overwrites a record, whoever's it is and whatever ID is passed.
NothingOverwritten ==
    [][\A id \in Ids :
          reply'.call = "Store" /\ table[id] # None => table'[id] = table[id]]_vars

\* An answer shows, newest first, only what the caller may see and asked for;
\* without a filter it is the newest of that, as far as the limit goes, and with
\* one it is still all of it if the limit does not cut what the filter is for.
AnswersRight ==
    \A ctx \in Callers, q \in Queries :
        LET all == [q EXCEPT !.filter = Metas]
        IN  \A rows \in Found(table, ctx, q) :
                /\ IsInjective(rows)
                /\ ToSet(rows) \subseteq Wanted(table, ctx, q)
                /\ \A i, j \in DOMAIN rows :
                      i < j => table[rows[i]].created >= table[rows[j]].created
                /\ q.filter = Metas =>
                      /\ Answers(table, ctx, q, rows)
                      /\ NewestFirst(table, ctx, q, rows)
                /\ Cardinality(Wanted(table, ctx, all)) <= LimitOf(q) =>
                      ToSet(rows) = Wanted(table, ctx, q)
=============================================================================
