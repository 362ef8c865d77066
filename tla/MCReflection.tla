---------------------------- MODULE MCReflection ----------------------------
(* A small instance: two goroutines that use the MMU and reflect, and two   *)
(* records.                                                                 *)
EXTENDS Reflection

CONSTANTS acme, globex, ann, p1, p2

Ctx(e, u) == [entity |-> e, user |-> u]

\* A user of an entity, and nobody in particular of another.
MCCallers == {Ctx(acme, ann), Ctx(globex, None)}

\* A map with a level that is not an int; one with an int, and an embedding.
MCData == {[content |-> "cat", level |-> "private", levelIsInt |-> FALSE,
            embedding |-> None],
           [content |-> "", level |-> "private", levelIsInt |-> TRUE,
            embedding |-> "cat"]}

MCKept == [plain |-> "plain"]

Query(i, t, n) == [id |-> i, text |-> t, filter |-> Metas, limit |-> n]

\* By text, and all, up to ten.
MCQueries == {Query(None, {"cat"}, 10), Query(None, Contents, 10)}

\* A hook that changes the text and the limit.
MCHookQueries == {Query(None, Contents, 1)}

Symmetry == Permutations(Procs)
=============================================================================
