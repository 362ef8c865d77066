---------------------------- MODULE MCVectorStore ----------------------------
(* Small instances of VectorStore: records of two entities, with and without *)
(* an embedding, and filter maps with and without an entity.                 *)
EXTENDS VectorStore, TLC

CONSTANTS acme, globex, ann, p1, p2

Ctx(e, u) == [entity |-> e, user |-> u]

MCCallers == {Ctx(acme, ann), Ctx(globex, None)}

Rec(e, u, l, c, m) ==
    [entity |-> e, user |-> u, level |-> l, content |-> c, meta |-> m,
     created |-> 1]

\* A private record of acme's ann; one of globex whose metadata name acme; and
\* one of acme that comes without an embedding.
Cat     == Rec(acme, ann, "private", "cat", "int")
Claimer == Rec(globex, None, "shared", "dog", "claim")
Plain   == Rec(acme, None, "shared", "dog", "int")

MCNewRecords == {Cat, Claimer, Plain}
MCEmbedded   == {Cat, Claimer}

MCEmbeddingOf == [cat |-> 1, dog |-> 4]

\* PostgreSQL reads every number back as a float64, chromem-go as a string.
MCKept    == [int |-> "float", float |-> "float", text |-> "text",
              claim |-> "claim"]
MCAsText  == [int |-> "text", float |-> "text", text |-> "text",
              claim |-> "claim"]
MCClaimed == [m \in Metas |-> IF m = "claim" THEN acme ELSE None]

Query(i, t, f, n) == [id |-> i, text |-> t, filter |-> f, limit |-> n]

\* One of the text "dog"; one of anything; two of the number, however it is read
\* back; by ID.
MCQueries == {Query(None, {"dog"}, Metas, 1), Query(None, Contents, Metas, 1),
              Query(None, Contents, {"int", "float", "text"}, 2),
              Query(1, Contents, Metas, 0)}

Anything == [entity |-> None, typed |-> TRUE, users |-> Users \cup {None},
             levels |-> Levels]

Map(e, t, u, l) == [entity |-> e, typed |-> t, users |-> u, levels |-> l]

\* globex by an entity.EntityID; acme by a string, shared records only.
MCMaps == {Map(globex, TRUE, Users \cup {None}, Levels),
           Map(acme, FALSE, Users \cup {None}, {"shared"})}

\* Criteria that name acme, or metadata, or users, or nothing.
MCExactMatch ==
    [q \in MCQueries |->
        CASE q.id # None ->
                [fields |-> Anything, metas |-> Metas]
          [] q.text = {"dog"} ->
                [fields |-> [Anything EXCEPT !.entity = acme], metas |-> Metas]
          [] q.limit = 1 ->
                [fields |-> Anything, metas |-> {"claim"}]
          [] OTHER ->
                [fields |-> [Anything EXCEPT !.users = {None}],
                 metas |-> Metas]]

\* No action and no property depends on what the last answer was.
Unanswered == <<backend, onDisk, table, saved, pending, reused, told>>

Symmetry == Permutations(Procs)
=============================================================================
