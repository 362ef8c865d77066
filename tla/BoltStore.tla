----------------------------- MODULE BoltStore -----------------------------
(***************************************************************************)
(* The BoltDB adapter, pkg/mem/ltm/adapters/kv/boltdb/boltdb.go: a bucket  *)
(* per entity, under it the records by ID.  Each operation is one          *)
(* transaction of the database, so that it is one step here.  An entity    *)
(* whose bucket has not been made yet is one with an empty bucket: it gets *)
(* the same answers.                                                       *)
(***************************************************************************)
EXTENDS Memory

VARIABLES
    buckets,        \* the entity buckets
    reply           \* the last operation and its answer

vars == <<buckets, reply>>

TypeOK ==
    /\ buckets \in [Entities -> [Ids -> Records \cup {None}]]
    /\ reply.ctx \in Callers \cup {None}
    /\ reply.outcome \in {"none", "ok", "error"}
    /\ reply.rows \in Seq(Ids)

Init ==
    /\ buckets = [e \in Entities |-> [id \in Ids |-> None]]
    /\ reply = [call |-> "none", ctx |-> None, outcome |-> "none", rows |-> <<>>]

Reply(call, ctx, outcome, rows) ==
    reply' = [call |-> call, ctx |-> ctx, outcome |-> outcome, rows |-> rows]

Fail(call, ctx) == Reply(call, ctx, "error", <<>>) /\ UNCHANGED buckets

\* ErrMissingEntityContext, from every operation.
NoContext == \E call \in {"Store", "Retrieve", "Update", "Delete"} : Fail(call, None)

-----------------------------------------------------------------------------
\* Mutant: a record of another entity is not refused.
StoreUnchecked(ctx, id, input) ==
    /\ buckets' = [buckets EXCEPT ![ctx.entity][id] = Owned(input, ctx)]
    /\ Reply("Store", ctx, "ok", <<>>)

\* A new record, or one that replaces what is stored under its ID.
Store(ctx, id, input) ==
    IF Acceptable(input, ctx)
      THEN /\ buckets' = [buckets EXCEPT ![ctx.entity][id] = Owned(input, ctx)]
           /\ Reply("Store", ctx, "ok", <<>>)
      ELSE Fail("Store", ctx)

\* Mutant: private records are shown to whoever has no user ID as well.
isAccessibleToAnonymous(r, ctx) ==
    /\ r.entity = ctx.entity
    /\ \/ r.level = "shared"
       \/ r.level = "private" /\ r.user = ctx.user

isAccessible(r, ctx) ==
    /\ r.entity = ctx.entity
    /\ \/ r.level = "shared"
       \/ r.level = "private" /\ ctx.user # None /\ r.user = ctx.user

\* The full scan: what is accessible, contains the text and passes the filter.
Scanned(bucket, ctx, q) ==
    {id \in Ids : /\ bucket[id] # None
                  /\ isAccessible(bucket[id], ctx)
                  /\ bucket[id].content \in q.text
                  /\ bucket[id].meta \in q.filter}

\* sortRecordsByCreatedAt, a stable bubble sort: equal times keep key order.
Sorted(bucket, ids) ==
    CHOOSE s \in SetToSeqs(ids) :
        \A i, j \in DOMAIN s : i < j =>
            \/ bucket[s[i]].created > bucket[s[j]].created
            \/ bucket[s[i]].created = bucket[s[j]].created /\ s[i] < s[j]

Limited(rows, q) ==
    LET limit == IF q.limit > 0 THEN q.limit ELSE DefaultLimit
    IN  IF Len(rows) > limit THEN SubSeq(rows, 1, limit) ELSE rows

\* Mutant: the limit cuts what is scanned, before it is sorted.
LimitBeforeSort(bucket, ctx, q) ==
    LET keys == SetToSortSeq(Scanned(bucket, ctx, q), <)
    IN  Sorted(bucket, ToSet(Limited(keys, q)))

\* The answer to a query without an ID: sorted, and then cut at the limit.
Search(bucket, ctx, q) == Limited(Sorted(bucket, Scanned(bucket, ctx, q)), q)

\* The answer to a query: an ID is looked up, and nothing else in the query
\* counts.
Found(bucket, ctx, q) ==
    IF q.id = None THEN Search(bucket, ctx, q)
    ELSE IF bucket[q.id] # None /\ isAccessible(bucket[q.id], ctx)
      THEN <<q.id>> ELSE <<>>

Retrieve(ctx, q) ==
    /\ Reply("Retrieve", ctx, "ok", Found(buckets[ctx.entity], ctx, q))
    /\ UNCHANGED buckets

\* Content and metadata are replaced, all else stays as it was stored.
Update(ctx, id, input) ==
    LET old == buckets[ctx.entity][id]
    IN  IF old # None /\ old.entity = ctx.entity
          THEN /\ buckets' = [buckets EXCEPT ![ctx.entity][id] =
                                [old EXCEPT !.content = input.content,
                                            !.meta = Kept[input.meta]]]
               /\ Reply("Update", ctx, "ok", <<>>)
          ELSE Fail("Update", ctx)

\* Mutant: the record is looked for in every bucket.
DeleteAnywhere(ctx, id) ==
    LET holders == {e \in Entities : buckets[e][id] # None}
    IN  IF holders # {}
          THEN /\ buckets' = [e \in Entities |->
                                [buckets[e] EXCEPT ![id] = None]]
               /\ Reply("Delete", ctx, "ok", <<>>)
          ELSE Fail("Delete", ctx)

Delete(ctx, id) ==
    LET old == buckets[ctx.entity][id]
    IN  IF old # None /\ old.entity = ctx.entity
          THEN /\ buckets' = [buckets EXCEPT ![ctx.entity][id] = None]
               /\ Reply("Delete", ctx, "ok", <<>>)
          ELSE Fail("Delete", ctx)

Next ==
    \/ NoContext
    \/ \E ctx \in Callers :
          \/ \E q \in Queries : Retrieve(ctx, q)
          \/ \E id \in Ids :
                \/ Delete(ctx, id)
                \/ \E input \in NewRecords :
                      Store(ctx, id, input) \/ Update(ctx, id, input)

Spec == Init /\ [][Next]_vars

-----------------------------------------------------------------------------
(* Correctness.                                                            *)

\* What a query asks for: of one with an ID nothing else counts.
Asked(q) ==
    IF q.id = None THEN q ELSE [q EXCEPT !.text = Contents, !.filter = Metas]

\* The adapter keeps the promises of the interface ltm.LTMStore: every
\* operation does to the entity's own memory what MemoryStore allows, and the
\* answer to a query is complete up to its limit and shows nothing private.
Promise == INSTANCE MemoryStore
             WITH mem <- buckets, Queries <- {Asked(q) : q \in Queries}
ImplementsLTMStore == Promise!Spec

\* No operation changes what another entity has stored.
EntityIsolation == Promise!EntityIsolation

\* The bucket of an entity holds its records, so that the checks of the owner
\* in Update and Delete never fail and no record is out of its owner's reach.
RecordsAtHome ==
    \A e \in Entities, id \in Ids :
        buckets[e][id] # None => buckets[e][id].entity = e

\* A query without an ID is answered with the newest records it asks for,
\* newest first, also when the limit cuts the answer.
NewestAnswered ==
    \A ctx \in Callers, q \in Queries :
        q.id = None =>
            LET bucket == buckets[ctx.entity]
            IN  NewestFirst(bucket, ctx, q, Found(bucket, ctx, q))

=============================================================================
