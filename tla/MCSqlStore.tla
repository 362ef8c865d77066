----------------------------- MODULE MCSqlStore -----------------------------
(* Small instances of SqlStore: private and shared records, and the queries *)
(* that tell apart when the limit and the filter take effect.               *)
EXTENDS SqlStore

CONSTANTS acme, globex, ann, bob

Ctx(e, u) == [entity |-> e, user |-> u]

\* Two users of one entity, nobody in particular of it, and a user of another.
MCCallers == {Ctx(acme, ann), Ctx(acme, bob), Ctx(acme, None), Ctx(globex, ann)}

Rec(e, u, l, c, m, t) ==
    [entity |-> e, user |-> u, level |-> l, content |-> c, meta |-> m,
     created |-> t]

\* A private record of whoever stores it, and a shared one of acme's bob.
MCNewRecords == {Rec(None, None, "private", "cat", "int", 1),
                 Rec(acme, bob, "shared", "dog", "text", 1)}

\* JSON reads every number back as a float64.
MCKept == [int |-> "float", float |-> "float", text |-> "text"]

Query(i, t, f, n) == [id |-> i, text |-> t, filter |-> f, limit |-> n]

\* All; all but one; by ID and text; with a filter, with and without a limit.
MCQueries == {Query(None, Contents, Metas, 0),
              Query(None, Contents, Metas, 1),
              Query(1, {"cat"}, Metas, 0),
              Query(None, Contents, {"float"}, 0),
              Query(None, Contents, {"float"}, 1)}
=============================================================================
