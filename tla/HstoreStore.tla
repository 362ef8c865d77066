---------------------------- MODULE HstoreStore ----------------------------
(***************************************************************************)
(* The PostgreSQL adapter with hstore metadata,                            *)
(* pkg/mem/ltm/adapters/kv/postgres/postgres_hstore.go: one table for all  *)
(* entities, its primary key the record's ID.  An SQL statement is a step; *)
(* Update and Delete are two statements in no transaction, between which   *)
(* the other processes' statements run.  Any statement may fail.           *)
(***************************************************************************)
EXTENDS Memory, HstoreCodec

CONSTANTS
    Procs,          \* the goroutines that call the store
    ReadAs          \* the value that the metadata of a row stand for

ASSUME ReadAsAssumption ==
    \A m \in Metas : Kept[m] \in DOMAIN ReadAs /\ ReadAs[Kept[m]] \in JsonValues

VARIABLES
    table,          \* memory_records: the row of each ID
    pending,        \* what each process has checked and is about to write
    reply           \* the last operation that ended, and its answer

vars == <<table, pending, reply>>

Writes == [call : {"Update", "Delete"}, ctx : Callers, id : Ids,
           input : NewRecords \cup {None}]

TypeOK ==
    /\ table \in [Ids -> Records \cup {None}]
    /\ pending \in [Procs -> Writes \cup {None}]
    /\ reply.ctx \in Callers \cup {None}
    /\ reply.id \in Ids \cup {None}
    /\ reply.input \in NewRecords \cup {None}
    /\ reply.outcome \in {"none", "ok", "error"}
    /\ reply.rows \in Seq(Ids)

Init ==
    /\ table = [id \in Ids |-> None]
    /\ pending = [p \in Procs |-> None]
    /\ reply = [call |-> "none", ctx |-> None, id |-> None, input |-> None,
                outcome |-> "none", rows |-> <<>>]

Reply(call, ctx, id, input, outcome, rows) ==
    reply' = [call |-> call, ctx |-> ctx, id |-> id, input |-> input,
              outcome |-> outcome, rows |-> rows]

\* An error is returned, and nothing has changed.
Fails(call, ctx, id) ==
    /\ Reply(call, ctx, id, None, "error", <<>>)
    /\ UNCHANGED table

Idle(p) == pending[p] = None

\* ErrMissingEntityContext, from every operation.
NoContext(p) ==
    /\ Idle(p)
    /\ \E call \in {"Store", "Retrieve", "Update", "Delete"} :
          Fails(call, None, None)
    /\ UNCHANGED pending

-----------------------------------------------------------------------------
\* Mutant: on a conflict the whole row is replaced.
UpsertedWhole(old, new) == new

\* INSERT ... ON CONFLICT (id) DO UPDATE: of a row that has the ID already, of
\* whatever entity and user, only the content and the metadata change.
Upserted(old, new) ==
    IF old = None THEN new
    ELSE [old EXCEPT !.content = new.content, !.meta = new.meta]

Store(p, ctx, id, input) ==
    /\ Idle(p)
    /\ \/ /\ Acceptable(input, ctx)
          /\ table' = [table EXCEPT ![id] = Upserted(@, Owned(input, ctx))]
          /\ Reply("Store", ctx, id, input, "ok", <<>>)
       \/ Fails("Store", ctx, id)
    /\ UNCHANGED pending

\* Mutant: without a user every row of the entity is selected.
WhereUnlessAnonymous(rows, ctx, q) ==
    {id \in Ids : /\ rows[id] # None
                  /\ rows[id].entity = ctx.entity
                  /\ \/ rows[id].level = "shared"
                     \/ ctx.user \in {None, rows[id].user}
                  /\ q.id \in {None, id}
                  /\ rows[id].content \in q.text
                  /\ rows[id].meta \in {Kept[m] : m \in q.filter}}

\* The WHERE clause of Retrieve: the entity's rows, those for the user or for
\* all, by ID, text and the hstore text of the metadata.
Where(rows, ctx, q) ==
    {id \in Ids : /\ rows[id] # None
                  /\ rows[id].entity = ctx.entity
                  /\ \/ rows[id].level = "shared"
                     \/ /\ ctx.user # None
                        /\ rows[id].level = "private"
                        /\ rows[id].user = ctx.user
                  /\ q.id \in {None, id}
                  /\ rows[id].content \in q.text
                  /\ rows[id].meta \in {Kept[m] : m \in q.filter}}

\* ORDER BY created_at DESC: rows of the same time come in any order.
Ordered(rows, s) ==
    \A i, j \in DOMAIN s : i < j => rows[s[i]].created >= rows[s[j]].created

Orders(rows, ids) == {s \in SetToSeqs(ids) : Ordered(rows, s)}

\* ... LIMIT: the answers the database may give.
Selected(rows, ctx, q) ==
    LET limit == IF q.limit > 0 THEN q.limit ELSE DefaultLimit
        ids   == Where(rows, ctx, q)
    IN  {SubSeq(s, 1, IF Len(s) > limit THEN limit ELSE Len(s)) :
            s \in Orders(rows, ids)}

Retrieve(p, ctx, q) ==
    /\ Idle(p)
    /\ \/ \E rows \in Selected(table, ctx, q) :
             /\ Reply("Retrieve", ctx, None, None, "ok", rows)
             /\ UNCHANGED table
       \/ Fails("Retrieve", ctx, None)
    /\ UNCHANGED pending

-----------------------------------------------------------------------------
\* SELECT entity_id: the row must be there and belong to the entity.
Check(p, call, ctx, id, input) ==
    /\ Idle(p)
    /\ \/ /\ table[id] # None
          /\ table[id].entity = ctx.entity
          /\ pending' = [pending EXCEPT ![p] =
                [call |-> call, ctx |-> ctx, id |-> id, input |-> input]]
          /\ UNCHANGED <<table, reply>>
       \/ Fails(call, ctx, id) /\ UNCHANGED pending

Update(p, ctx, id, input) == Check(p, "Update", ctx, id, input)
Delete(p, ctx, id)        == Check(p, "Delete", ctx, id, None)

\* Mutant: the second statement trusts the check.
HitsByID(w) == table[w.id] # None

\* WHERE id = ... AND entity_id = ...
Hits(w) == table[w.id] # None /\ table[w.id].entity = w.ctx.entity

\* Mutant: the update inserts the row it does not find.
UpdateOrInsert(p) ==
    /\ ~Idle(p)
    /\ pending[p].call = "Update"
    /\ LET w == pending[p]
       IN  /\ table' = [table EXCEPT ![w.id] =
                IF Hits(w) THEN [@ EXCEPT !.content = w.input.content,
                                          !.meta = Kept[w.input.meta]]
                ELSE IF @ = None THEN Owned(w.input, w.ctx) ELSE @]
           /\ Reply("Update", w.ctx, w.id, w.input, "ok", <<>>)
    /\ pending' = [pending EXCEPT ![p] = None]

\* The second statement of Update; how many rows it hit is not asked for.
WriteUpdate(p) ==
    /\ ~Idle(p)
    /\ pending[p].call = "Update"
    /\ LET w == pending[p]
       IN  /\ table' = [table EXCEPT ![w.id] =
                IF Hits(w) THEN [@ EXCEPT !.content = w.input.content,
                                          !.meta = Kept[w.input.meta]]
                           ELSE @]
           /\ Reply("Update", w.ctx, w.id, w.input, "ok", <<>>)
    /\ pending' = [pending EXCEPT ![p] = None]

\* The second statement of Delete; nor is it here.
WriteDelete(p) ==
    /\ ~Idle(p)
    /\ pending[p].call = "Delete"
    /\ LET w == pending[p]
       IN  /\ table' = [table EXCEPT ![w.id] = IF Hits(w) THEN None ELSE @]
           /\ Reply("Delete", w.ctx, w.id, None, "ok", <<>>)
    /\ pending' = [pending EXCEPT ![p] = None]

\* The second statement fails.
WriteFails(p) ==
    /\ ~Idle(p)
    /\ Fails(pending[p].call, pending[p].ctx, pending[p].id)
    /\ pending' = [pending EXCEPT ![p] = None]

Next ==
    \E p \in Procs :
        \/ NoContext(p)
        \/ WriteUpdate(p)
        \/ WriteDelete(p)
        \/ WriteFails(p)
        \/ \E ctx \in Callers :
              \/ \E q \in Queries : Retrieve(p, ctx, q)
              \/ \E id \in Ids :
                    \/ Delete(p, ctx, id)
                    \/ \E input \in NewRecords :
                          Store(p, ctx, id, input) \/ Update(p, ctx, id, input)

Spec == Init /\ [][Next]_vars

-----------------------------------------------------------------------------
(* Correctness.                                                            *)

\* Whatever a query asks for, by ID, text, metadata or all at once, the answer
\* is the newest of what the caller may see, newest first, up to the limit.
\* Metadata pass the filter if their hstore text is the filter's.
AnswersRight ==
    \A ctx \in Callers, q \in Queries :
        LET asked == [q EXCEPT !.filter = {Kept[m] : m \in @}]
        IN  \A rows \in Selected(table, ctx, q) :
                /\ Answers(table, ctx, asked, rows)
                /\ NewestFirst(table, ctx, asked, rows)

ReadsFaithfully ==
    [m \in DOMAIN ReadAs |-> Faithful(ReadAs[m], Texts \cup Others)]

\* The metadata of a row are read as they were written, and so is every value of
\* Texts and Others stored beside them, but for texts that have quotes, backslashes,
\* ", " or "=>" in them or look like another value, for null, for numbers with an
\* exponent, and for arrays and objects that have digits and no letter, or ", ".
\* Of these only what has ", " in it can harm the metadata beside it.
MetadataSurvive ==
    \A id \in Ids : table[id] # None => ReadsFaithfully[table[id].meta]

\* As long as a row exists it keeps its entity, user, level and time: neither a
\* Store under its ID nor an Update hands a record over to others.
OwnersKept ==
    [][\A id \in Ids :
          LET old == table[id]
              new == table'[id]
          IN  old # None /\ new # None =>
                  /\ new.entity = old.entity
                  /\ new.user = old.user
                  /\ new.level = old.level
                  /\ new.created = old.created]_vars

\* Update and Delete write to rows of the context's entity only, also when the
\* row that was checked has been deleted and its ID taken by another entity.
WritesOwnRows ==
    [][\A id \in Ids :
          LET old == table[id]
          IN  /\ old # None
              /\ old # table'[id]
              /\ reply'.call \in {"Update", "Delete"}
              => old.entity = reply'.ctx.entity]_vars

\* A deleted row stays deleted until its ID is stored again: an Update that was
\* under way does not bring it back.
NoResurrection ==
    [][\A id \in Ids :
          table[id] = None /\ table'[id] # None => reply'.call = "Store"]_vars

-----------------------------------------------------------------------------
(* What the repository says and this adapter does not do.                  *)

\* pkg/mem/ltm/ltm.go:62, of Store, "It enforces entity isolation by storing the
\* EntityID with the record", and pkg/entity/entity.go:12, "Each entity has its
\* own isolated memory space": no operation changes a record of another entity.
EntityIsolation ==
    [][\A id \in Ids :
          table'[id] # table[id] /\ table[id] # None
              => table[id].entity = reply'.ctx.entity]_vars
=============================================================================
