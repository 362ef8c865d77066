--------------------------- MODULE MCHstoreStore ---------------------------
(* Small instances of HstoreStore: two processes, and records of the same   *)
(* and of different times, private and shared.                              *)
EXTENDS HstoreStore

CONSTANTS acme, globex, ann, bob, p1, p2

Ctx(e, u) == [entity |-> e, user |-> u]

\* Two users of one entity, and nobody in particular of another.
MCCallers == {Ctx(acme, ann), Ctx(acme, bob), Ctx(globex, None)}

Rec(e, u, l, c, m, t) ==
    [entity |-> e, user |-> u, level |-> l, content |-> c, meta |-> m,
     created |-> t]

\* A private record of whoever stores it, and a shared one of acme's bob.
MCNewRecords == {Rec(None, None, "private", "cat", "int", 1),
                 Rec(acme, bob, "shared", "dog", "text", 2)}

\* Metadata values are kept as text: 7 as "7".
MCKept == [int |-> "digits", digits |-> "digits", text |-> "text"]

Query(i, t, f, n) == [id |-> i, text |-> t, filter |-> f, limit |-> n]

\* All but one; by ID and text; with a filter and a limit.
MCQueries == {Query(None, Contents, Metas, 1),
              Query(1, {"cat"}, Metas, 0),
              Query(None, Contents, {"int"}, 2)}

\* What the metadata of a row are read as.
MCReadAs == [digits |-> Value("number", <<"7">>),
             text   |-> Value("text", <<"x">>)]

Symmetry == Permutations(Procs)
=============================================================================
