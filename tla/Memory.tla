------------------------------- MODULE Memory -------------------------------
(***************************************************************************)
(* What every long-term memory store of pkg/mem/ltm works on: contexts     *)
(* (pkg/entity), memory records and queries (pkg/mem/ltm/ltm.go), who may  *)
(* see a record, and which answers to a query are right.                   *)
(*                                                                         *)
(* The text of a query stands for the contents that contain it, its        *)
(* metadata filter for the metadata that pass it; an embedding is left to  *)
(* the vector stores and UpdatedAt is left out.  Every record a caller     *)
(* passes has an ID and a time here: the stores make up fresh ones for     *)
(* those that have none.                                                   *)
(***************************************************************************)
EXTENDS Naturals, Sequences, FiniteSets, SequencesExt

CONSTANTS
    Entities, Users, Contents, Metas,
    Ids,            \* record IDs, compared as the stores compare them
    Times,          \* points in time, as numbers
    None,           \* no user, no ID, no entity, no record
    DefaultLimit,   \* results without a limit in the query, 100 in the stores
    Kept,           \* what metadata reads back as once it has been stored
    Callers,        \* the contexts on whose behalf operations are called
    NewRecords,     \* the records that callers pass
    Queries         \* the queries that callers pass

ASSUME MemoryAssumption ==
    /\ None \notin Entities \cup Users \cup Ids
    /\ Ids \subseteq Nat
    /\ Times \subseteq Nat
    /\ DefaultLimit \in Nat \ {0}
    /\ Kept \in [Metas -> Metas]

Levels == {"private", "shared"}

\* entity.Context; None is the empty user ID.
Contexts == [entity : Entities, user : Users \cup {None}]

\* ltm.MemoryRecord as it is stored, under its ID.
Records == [entity : Entities, user : Users \cup {None}, level : Levels,
            content : Contents, meta : Metas, created : Times]

\* ... and as callers may pass it to Store, without an entity or a user.
Inputs == [entity : Entities \cup {None}, user : Users \cup {None},
           level : Levels, content : Contents, meta : Metas, created : Times]

\* ltm.LTMQuery; no text is Contents, no filter is Metas, no limit is 0.
AllQueries == [id : Ids \cup {None}, text : SUBSET Contents,
               filter : SUBSET Metas, limit : Nat]

ASSUME CallersAssumption ==
    /\ Callers \subseteq Contexts
    /\ NewRecords \subseteq Inputs
    /\ Queries \subseteq AllQueries

-----------------------------------------------------------------------------
\* A private record is for the user who stored it, within its entity.
Visible(r, ctx) ==
    /\ r.entity = ctx.entity
    /\ r.level = "private" => ctx.user # None /\ r.user = ctx.user

\* A record stored under id is what the query asks for.
Matches(id, r, q) ==
    /\ q.id \in {None, id}
    /\ r.content \in q.text
    /\ r.meta \in q.filter

LimitOf(q) == IF q.limit > 0 THEN q.limit ELSE DefaultLimit

\* The IDs of what ctx may see of a store's records and q asks for.
Wanted(rows, ctx, q) ==
    {id \in DOMAIN rows : /\ rows[id] # None
                          /\ Visible(rows[id], ctx)
                          /\ Matches(id, rows[id], q)}

\* An answer shows what is wanted, each record once, as far as the limit goes.
Answers(rows, ctx, q, answer) ==
    /\ IsInjective(answer)
    /\ ToSet(answer) \subseteq Wanted(rows, ctx, q)
    /\ \/ Len(answer) = LimitOf(q)
       \/ Len(answer) < LimitOf(q) /\ ToSet(answer) = Wanted(rows, ctx, q)

\* ... and what it shows is the newest of what is wanted, newest first.
NewestFirst(rows, ctx, q, answer) ==
    \A i \in DOMAIN answer :
        \A id \in Wanted(rows, ctx, q) \ ToSet(SubSeq(answer, 1, i - 1)) :
            rows[answer[i]].created >= rows[id].created

\* Stores give a record that names no entity or no user that of the context it
\* is stored with, and keep its metadata in a format of their own.
Owned(input, ctx) ==
    [input EXCEPT !.entity = IF @ = None THEN ctx.entity ELSE @,
                  !.user = IF @ = None THEN ctx.user ELSE @,
                  !.meta = Kept[@]]

\* Store refuses a record that names another entity.
Acceptable(input, ctx) == input.entity \in {None, ctx.entity}
=============================================================================
