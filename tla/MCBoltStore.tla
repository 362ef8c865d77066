---------------------------- MODULE MCBoltStore ----------------------------
(* Small instances of BoltStore: a few records that differ in what the      *)
(* answers depend on, and the queries that do.                              *)
EXTENDS BoltStore

CONSTANTS acme, globex, ann, bob

Ctx(e, u) == [entity |-> e, user |-> u]

\* Two users and nobody in particular of one entity, and a user of another.
MCCallers == {Ctx(acme, ann), Ctx(acme, bob), Ctx(acme, None), Ctx(globex, ann)}

Rec(e, u, l, c, m, t) ==
    [entity |-> e, user |-> u, level |-> l, content |-> c, meta |-> m,
     created |-> t]

\* A private record of whoever stores it, and a shared one of acme's bob.
MCNewRecords == {Rec(None, None, "private", "cat", "int", 1),
                 Rec(acme, bob, "shared", "dog", "text", 2)}

\* JSON reads every number back as a float64.
MCKept == [int |-> "float", float |-> "float", text |-> "text"]

Query(i, t, f, n) == [id |-> i, text |-> t, filter |-> f, limit |-> n]

\* By ID, with a text and a filter that do not count; all; all but one; with a
\* text; with a filter and a limit.
MCQueries == {Query(1, {"dog"}, {"text"}, 0),
              Query(None, Contents, Metas, 0),
              Query(None, Contents, Metas, 1),
              Query(None, {"cat"}, Metas, 1),
              Query(None, Contents, {"float"}, 2)}
=============================================================================
