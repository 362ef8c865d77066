--------------------------- MODULE SqlStore_proofs ---------------------------
(***************************************************************************)
(* The SQL adapters implement what ltm.LTMStore promises of the operations *)
(* that write, for every set of entities, users, records and queries.  The *)
(* table is one for all entities; what makes each entity's memory its own  *)
(* is that Store takes an ID only where there is no row, and that Update   *)
(* and Delete hit rows of the context's entity only, so that a statement   *)
(* changes one place of one memory (OnePlace).                             *)
(* The second part is of answers: what Retrieve selects and what is left   *)
(* of it after the metadata filter, for any limit.                         *)
(***************************************************************************)
EXTENDS SqlStore, Memory_proofs

\* The table's part of TypeOK, and the reply's as far as writes need it.
TableOK == table \in [Ids -> Records \cup {None}]

-----------------------------------------------------------------------------
\* What Store inserts is a record of the context's entity; and it is what the
\* interface stores of a record that carries the clock's time.
LEMMA InsertedIsRecord ==
    ASSUME NEW ctx \in Callers, NEW input \in NewRecords, NEW now \in Times,
           Acceptable(input, ctx)
    PROVE  LET new   == [Owned(input, ctx) EXCEPT !.created = now]
               timed == [input EXCEPT !.created = now]
           IN  /\ new \in Records
               /\ new.entity = ctx.entity
               /\ timed \in Timed
               /\ Acceptable(timed, ctx)
               /\ Owned(timed, ctx) = new
<1>1. ctx \in Contexts /\ input \in Inputs
  BY CallersAssumption
<1> DEFINE owned == Owned(input, ctx)
           timed == [input EXCEPT !.created = now]
<1>2. owned \in Records /\ owned.entity = ctx.entity
  BY <1>1, MemoryAssumption DEF Contexts, Inputs, Records, Owned, Acceptable
<1>3. LET new == [owned EXCEPT !.created = now]
      IN  new \in Records /\ new.entity = ctx.entity
  <2> HIDE DEF owned
  <2> QED
    BY <1>2 DEF Records
<1>4. timed \in Timed
  BY DEF Timed
<1>5. Acceptable(timed, ctx)
  BY <1>1 DEF Inputs, Acceptable
<1>6. Owned(timed, ctx) = [owned EXCEPT !.created = now]
  BY <1>1, MemoryAssumption DEF Inputs, Contexts, Owned
<1> QED
  BY <1>3, <1>4, <1>5, <1>6

\* What Update makes of a row is a record of the same entity.
LEMMA ChangedIsRecord ==
    ASSUME NEW old \in Records, NEW input \in NewRecords
    PROVE  LET new == [old EXCEPT !.content = input.content,
                                  !.meta = Kept[input.meta]]
           IN  new \in Records /\ new.entity = old.entity
<1>1. input \in Inputs
  BY CallersAssumption
<1> QED
  BY <1>1, MemoryAssumption DEF Inputs, Records

\* The table after an Update that succeeds.
LEMMA UpdatedTable ==
    ASSUME TableOK, NEW ctx \in Callers, NEW id \in Ids, NEW input \in NewRecords,
           Hits(ctx, id),
           table' = [table EXCEPT ![id].content = input.content,
                                  ![id].meta = Kept[input.meta]]
    PROVE  table' = [table EXCEPT ![id] =
                        [table[id] EXCEPT !.content = input.content,
                                          !.meta = Kept[input.meta]]]
BY DEF TableOK

-----------------------------------------------------------------------------
\* Every operation keeps the type of the table.
LEMMA TableStep == TableOK /\ [Next]_vars => TableOK'
<1> SUFFICES ASSUME TableOK, [Next]_vars
             PROVE  TableOK'
  OBVIOUS
<1> USE DEF TableOK
<1>1. ASSUME NEW ctx \in Callers, NEW given \in Ids, NEW input \in NewRecords,
             Store(ctx, given, input)
      PROVE  TableOK'
  <2>1. ASSUME NEW id \in Ids, NEW now \in Times, Acceptable(input, ctx),
               table' = [table EXCEPT ![id] =
                            [Owned(input, ctx) EXCEPT !.created = now]]
        PROVE  TableOK'
    <3>1. [Owned(input, ctx) EXCEPT !.created = now] \in Records
      BY <2>1, InsertedIsRecord
    <3> QED
      BY <2>1, <3>1
  <2> QED
    BY <1>1, <2>1 DEF Store, Fails
<1>2. ASSUME NEW ctx \in Callers, NEW id \in Ids, NEW input \in NewRecords,
             Update(ctx, id, input)
      PROVE  TableOK'
  <2>1. CASE Hits(ctx, id) /\ table' = [table EXCEPT ![id].content = input.content,
                                                     ![id].meta = Kept[input.meta]]
    <3>1. table[id] \in Records
      BY <2>1 DEF Hits
    <3> QED
      BY <2>1, <3>1, UpdatedTable, ChangedIsRecord
  <2> QED
    BY <1>2, <2>1 DEF Update, Fails
<1>3. ASSUME NEW ctx \in Callers, NEW id \in Ids, Delete(ctx, id)
      PROVE  TableOK'
  BY <1>3 DEF Delete, Fails
<1>4. ASSUME NEW ctx \in Callers, NEW q \in Queries, Retrieve(ctx, q)
      PROVE  TableOK'
  BY <1>4 DEF Retrieve, Fails
<1>5. CASE NoContext \/ UNCHANGED vars
  BY <1>5 DEF NoContext, Fails, vars
<1> QED
  BY <1>1, <1>2, <1>3, <1>4, <1>5 DEF Next

\* In e's memory r takes the place of what was stored under id.
Places(e, id, r) ==
    /\ Memories'[e][id] = r
    /\ Memories[e][id] = table[id]
    /\ Promise!ChangesOnly(e, id)

\* A statement that puts r, a row of e or none, where there was a row of e or
\* none, changes one place of e's memory, and no other memory.
LEMMA OnePlace ==
    ASSUME TableOK, NEW e \in Entities, NEW id \in Ids, NEW r,
           table' = [table EXCEPT ![id] = r],
           table[id] = None \/ table[id].entity = e,
           r = None \/ r.entity = e
    PROVE  Places(e, id, r)
<1> DEFINE memory(t, f) ==
             [i \in Ids |-> IF t[i] # None /\ t[i].entity = f THEN t[i] ELSE None]
<1>1. /\ Memories = [f \in Entities |-> memory(table, f)]
      /\ Memories' = [f \in Entities |-> memory(table', f)]
  BY DEF Memories
<1>2. ASSUME NEW f \in Entities, f # e
      PROVE  memory(table', f) = memory(table, f)
  BY <1>2 DEF TableOK
<1>3. memory(table', e) = [memory(table, e) EXCEPT ![id] = r]
  BY DEF TableOK
<1>4. memory(table, e)[id] = table[id]
  OBVIOUS
<1> HIDE DEF memory
<1>6. Memories[e] = memory(table, e) /\ Memories'[e] = memory(table', e)
  BY <1>1
<1>7. memory(table, e) \in [Ids -> {memory(table, e)[i] : i \in Ids}]
  BY DEF memory
<1>8. Memories'[e][id] = r
  BY <1>3, <1>6, <1>7
<1>9. Promise!ChangesOnly(e, id)
  BY <1>1, <1>2, <1>3, <1>6, <1>8 DEF Promise!ChangesOnly
<1> QED
  BY <1>4, <1>6, <1>8, <1>9 DEF Places

-----------------------------------------------------------------------------
\* What the property says of one step.
Allowed == IF reply'.call = "Retrieve" THEN Memories' = Memories
                                       ELSE Promise!Next

\* A failure changes no memory, whatever failed.
LEMMA FailureAllowed ==
    ASSUME NEW call \in {"Store", "Retrieve", "Update", "Delete"},
           NEW ctx \in Callers \cup {None}, Fails(call, ctx)
    PROVE  Allowed
<1>1. Memories' = Memories
  BY DEF Fails, Memories
<1>2. Promise!Refuse(call, ctx)
  BY <1>1 DEF Fails, Reply, Promise!Refuse, Promise!Replies
<1> QED
  BY <1>1, <1>2 DEF Allowed, Promise!Next, Promise!Calls

\* Every step of the adapters does what the interface allows.
LEMMA StepAllowed == TableOK /\ Next => Allowed
<1> SUFFICES ASSUME TableOK, Next
             PROVE  Allowed
  OBVIOUS
<1>1. ASSUME NEW ctx \in Callers, NEW given \in Ids, NEW input \in NewRecords,
             Store(ctx, given, input)
      PROVE  Allowed
  <2>1. ASSUME NEW id \in Ids, NEW now \in Times,
               Acceptable(input, ctx), Key(id, given),
               table' = [table EXCEPT ![id] =
                            [Owned(input, ctx) EXCEPT !.created = now]],
               Reply("Store", ctx, "ok", <<>>)
        PROVE  Allowed
    <3> DEFINE new   == [Owned(input, ctx) EXCEPT !.created = now]
               timed == [input EXCEPT !.created = now]
    <3>1. /\ new.entity = ctx.entity
          /\ timed \in Timed
          /\ Acceptable(timed, ctx)
          /\ Owned(timed, ctx) = new
      BY <2>1, InsertedIsRecord
    <3>2. ctx.entity \in Entities
      BY CallersAssumption DEF Contexts
    <3>3. table' = [table EXCEPT ![id] = new]
      BY <2>1
    <3> HIDE DEF new, timed
    <3>4. table[id] = None \/ table[id].entity = ctx.entity
      BY <2>1 DEF Key
    <3>5. new = None \/ new.entity = ctx.entity
      BY <3>1
    <3>6. Places(ctx.entity, id, new)
      BY <3>2, <3>3, <3>4, <3>5, OnePlace
    <3>7. Promise!Acceptable(timed, ctx) /\ Promise!Owned(timed, ctx) = new
      BY <3>1 DEF Acceptable, Owned, Promise!Acceptable, Promise!Owned
    <3>8. Promise!Put(ctx, id, timed)
      BY <2>1, <3>6, <3>7 DEF Places, Reply, Promise!Put, Promise!Replies
    <3> QED
      BY <2>1, <3>1, <3>8 DEF Allowed, Reply, Promise!Next
  <2> QED
    BY <1>1, <2>1, FailureAllowed DEF Store
<1>2. ASSUME NEW ctx \in Callers, NEW id \in Ids, NEW input \in NewRecords,
             Update(ctx, id, input)
      PROVE  Allowed
  <2> DEFINE new == [table[id] EXCEPT !.content = input.content,
                                      !.meta = Kept[input.meta]]
  <2>1. ASSUME Hits(ctx, id), Reply("Update", ctx, "ok", <<>>),
               table' = [table EXCEPT ![id].content = input.content,
                                      ![id].meta = Kept[input.meta]]
        PROVE  Allowed
    <3>1. table[id] \in Records /\ table[id] # None /\ table[id].entity = ctx.entity
      BY <2>1 DEF Hits, TableOK
    <3>2. ctx.entity \in Entities
      BY CallersAssumption DEF Contexts
    <3>3. table' = [table EXCEPT ![id] = new] /\ new.entity = ctx.entity
      BY <2>1, <3>1, UpdatedTable, ChangedIsRecord
    <3> HIDE DEF new
    <3>4. Places(ctx.entity, id, new)
      BY <3>1, <3>2, <3>3, OnePlace
    <3>5. Promise!Change(ctx, id, [input EXCEPT !.created = input.created])
      BY <2>1, <3>1, <3>4 DEF Places, Reply, Promise!Change, Promise!Replies, new
    <3>6. [input EXCEPT !.created = input.created] \in Timed
      BY CallersAssumption DEF Timed, Inputs
    <3> QED
      BY <2>1, <3>5, <3>6 DEF Allowed, Reply, Promise!Next
  <2> QED
    BY <1>2, <2>1, FailureAllowed DEF Update
<1>3. ASSUME NEW ctx \in Callers, NEW id \in Ids, Delete(ctx, id)
      PROVE  Allowed
  <2>1. ASSUME Hits(ctx, id), table' = [table EXCEPT ![id] = None],
               Reply("Delete", ctx, "ok", <<>>)
        PROVE  Allowed
    <3>1. ctx.entity \in Entities
      BY CallersAssumption DEF Contexts
    <3>2. Places(ctx.entity, id, None)
      BY <2>1, <3>1, OnePlace DEF Hits
    <3>3. Promise!Erase(ctx, id)
      BY <2>1, <3>2 DEF Places, Hits, Reply, Promise!Erase, Promise!Replies
    <3> QED
      BY <2>1, <3>3 DEF Allowed, Reply, Promise!Next
  <2> QED
    BY <1>3, <2>1, FailureAllowed DEF Delete
<1>4. ASSUME NEW ctx \in Callers, NEW q \in Queries, Retrieve(ctx, q)
      PROVE  Allowed
  <2>1. UNCHANGED table /\ reply'.call = "Retrieve"
    BY <1>4 DEF Retrieve, Fails, Reply
  <2> QED
    BY <2>1 DEF Allowed, Memories
<1>5. CASE NoContext
  BY <1>5, FailureAllowed DEF NoContext
<1> QED
  BY <1>1, <1>2, <1>3, <1>4, <1>5 DEF Next

\* The adapters start with memories that are empty.
LEMMA InitAllowed == Init => Promise!Init /\ TableOK
<1> SUFFICES ASSUME Init
             PROVE  Promise!Init /\ TableOK
  OBVIOUS
<1>1. TableOK
  BY DEF Init, TableOK
<1>2. Memories = Promise!EmptyMemory
  BY DEF Init, Memories, Promise!EmptyMemory
<1>3. reply = Promise!NoReply
  BY DEF Init, Promise!NoReply
<1> QED
  BY <1>1, <1>2, <1>3 DEF Promise!Init

\* Store, Update and Delete of both adapters (sqlite3.go:30, 211, 258,
\* postgres.go:28, 200, 239) do to the memory of the entity what the interface
\* allows, for any entities, users, records, IDs and clock; and Retrieve changes
\* nothing.
THEOREM WritesImplement == Spec => WritesImplementLTMStore
<1>1. TableOK /\ [Next]_vars => [Allowed]_vars
  BY StepAllowed
<1> QED
  BY <1>1, InitAllowed, TableStep, PTL DEF Spec, WritesImplementLTMStore, Allowed

-----------------------------------------------------------------------------
\* Only the context's entity's memory changes, in what the interface allows.
LEMMA AllowedIsolates ==
    ASSUME Promise!Next, NEW e \in Entities, Memories'[e] # Memories[e]
    PROVE  reply'.ctx.entity = e
BY DEF Promise!Next, Promise!Look, Promise!Erase, Promise!Put, Promise!Change,
       Promise!Refuse, Promise!Replies, Promise!ChangesOnly

\* No operation of either adapter changes what another entity has stored.
THEOREM Isolation == Spec => EntityIsolation
<1>1. TableOK /\ [Next]_vars
        => [\A e \in Entities : Memories'[e] # Memories[e]
               => reply'.ctx.entity = e]_<<Memories, reply>>
  <2> SUFFICES ASSUME TableOK, [Next]_vars
               PROVE  [\A e \in Entities : Memories'[e] # Memories[e]
                          => reply'.ctx.entity = e]_<<Memories, reply>>
    OBVIOUS
  <2>1. CASE Next
    BY <2>1, StepAllowed, AllowedIsolates DEF Allowed
  <2>2. CASE UNCHANGED vars
    BY <2>2 DEF vars, Memories
  <2> QED
    BY <2>1, <2>2
<1> QED
  BY <1>1, InitAllowed, TableStep, PTL
     DEF Spec, EntityIsolation, Promise!EntityIsolation

\* No Store of either adapter changes a row that is there, whoever's it is.
THEOREM NoOverwrite == Spec => NothingOverwritten
<1>1. TableOK /\ [Next]_vars
        => [\A id \in Ids : reply'.call = "Store" /\ table[id] # None
               => table'[id] = table[id]]_vars
  <2> SUFFICES ASSUME TableOK, Next, NEW id \in Ids,
                      reply'.call = "Store", table[id] # None
               PROVE  table'[id] = table[id]
    BY DEF vars
  <2>1. ASSUME NEW ctx \in Callers, NEW given \in Ids, NEW input \in NewRecords,
               Store(ctx, given, input)
        PROVE  table'[id] = table[id]
    BY <2>1 DEF Store, Fails, Key, TableOK
  <2>2. ASSUME NEW ctx \in Callers, NEW i \in Ids, NEW input \in NewRecords,
               Update(ctx, i, input)
        PROVE  table'[id] = table[id]
    BY <2>2 DEF Update, Fails, Reply
  <2>3. ASSUME NEW ctx \in Callers, NEW i \in Ids, Delete(ctx, i)
        PROVE  table'[id] = table[id]
    BY <2>3 DEF Delete, Fails, Reply
  <2> QED
    BY <2>1, <2>2, <2>3 DEF Next, NoContext, Retrieve, Fails
<1> QED
  BY <1>1, InitAllowed, TableStep, PTL DEF Spec, NothingOverwritten

-----------------------------------------------------------------------------
(* Answers.                                                                *)

Filled == {id \in Ids : table[id] # None}

\* The table has finitely many rows, however many IDs there are: it starts
\* empty, and a statement writes one row.
FiniteTable == IsFiniteSet(Filled)

\* A statement writes to one row at most.
LEMMA WritesOneRow ==
    ASSUME TableOK, Next
    PROVE  UNCHANGED table \/ \E i \in Ids : Filled' \subseteq Filled \cup {i}
<1> USE DEF TableOK
<1>1. ASSUME NEW i \in Ids, NEW r, table' = [table EXCEPT ![i] = r]
      PROVE  Filled' \subseteq Filled \cup {i}
  BY <1>1 DEF Filled
<1>2. ASSUME NEW ctx \in Callers, NEW given \in Ids, NEW input \in NewRecords,
             Store(ctx, given, input)
      PROVE  UNCHANGED table \/ \E i \in Ids : Filled' \subseteq Filled \cup {i}
  BY <1>1, <1>2 DEF Store, Fails
<1>3. ASSUME NEW ctx \in Callers, NEW id \in Ids, NEW input \in NewRecords,
             Update(ctx, id, input)
      PROVE  UNCHANGED table \/ Filled' \subseteq Filled \cup {id}
  BY <1>1, <1>3, UpdatedTable DEF Update, Fails
<1>4. ASSUME NEW ctx \in Callers, NEW id \in Ids, Delete(ctx, id)
      PROVE  UNCHANGED table \/ Filled' \subseteq Filled \cup {id}
  BY <1>1, <1>4 DEF Delete, Fails
<1>5. ASSUME NoContext \/ \E ctx \in Callers, q \in Queries : Retrieve(ctx, q)
      PROVE  UNCHANGED table
  BY <1>5 DEF NoContext, Retrieve, Fails
<1> QED
  BY <1>2, <1>3, <1>4, <1>5 DEF Next

\* So the table stays finite.
LEMMA FiniteStep == TableOK /\ FiniteTable /\ [Next]_vars => FiniteTable'
<1> SUFFICES ASSUME TableOK, FiniteTable, Next
             PROVE  FiniteTable'
  BY DEF vars, FiniteTable, Filled
<1>1. PICK i : UNCHANGED table \/ Filled' \subseteq Filled \cup {i}
  BY WritesOneRow
<1>2. IsFiniteSet(Filled \cup {i})
  BY FS_AddElement DEF FiniteTable
<1>3. CASE Filled' \subseteq Filled \cup {i}
  BY <1>2, <1>3, FS_Subset DEF FiniteTable
<1>4. CASE UNCHANGED table
  BY <1>4 DEF FiniteTable, Filled
<1> QED
  BY <1>1, <1>3, <1>4

\* The empty table is finite.
LEMMA InitFinite == Init => FiniteTable
BY FS_EmptySet DEF Init, FiniteTable, Filled

\* What passes the filter can be listed in the order in which it was selected.
LEMMA FilteredListing ==
    ASSUME NEW rows, NEW q, NEW S, IsFiniteSet(S), NEW s \in Seq(S), IsInjective(s)
    PROVE  LET t == Filtered(rows, s, q)
               P == {id \in ToSet(s) : rows[id].meta \in q.filter}
           IN  /\ t \in SetToSeqs(P)
               /\ \A i, j \in DOMAIN t : i < j => Before(s, t[i], t[j])
               /\ IsFiniteSet(P)
<1> DEFINE P == {id \in ToSet(s) : rows[id].meta \in q.filter}
           R == {p \in P \X P : Before(s, p[1], p[2])}
<1>1. P \subseteq S
  BY DEF ToSet
<1>2. IsFiniteSet(P)
  BY <1>1, FS_Subset
<1>3. \A x \in P : \E i \in DOMAIN s : s[i] = x
  BY DEF ToSet
<1>4. \A x, y \in P : <<x, y>> \in R <=> Before(s, x, y)
  OBVIOUS
<1>5. DOMAIN s \subseteq Nat /\ \A i, j \in DOMAIN s : s[i] = s[j] => i = j
  BY DEF IsInjective
<1> HIDE DEF P, R
<1>6. StrictOrder(R, P)
  <2>1. ASSUME NEW x \in P, NEW y \in P
        PROVE  x = y \/ <<x, y>> \in R \/ <<y, x>> \in R
    <3>1. PICK i \in DOMAIN s, j \in DOMAIN s : s[i] = x /\ s[j] = y
      BY <1>3
    <3>2. i = j \/ i < j \/ j < i
      BY <1>5
    <3> QED
      BY <1>4, <3>1, <3>2 DEF Before
  <2>2. ASSUME NEW x \in P
        PROVE  <<x, x>> \notin R
    BY <1>4, <1>5 DEF Before
  <2>3. ASSUME NEW x \in P, NEW y \in P, NEW z \in P,
               <<x, y>> \in R, <<y, z>> \in R
        PROVE  <<x, z>> \in R
    <3>1. PICK i \in DOMAIN s, j \in DOMAIN s : i < j /\ s[i] = x /\ s[j] = y
      BY <1>4, <2>3 DEF Before
    <3>2. PICK k \in DOMAIN s, l \in DOMAIN s : k < l /\ s[k] = y /\ s[l] = z
      BY <1>4, <2>3 DEF Before
    <3>3. j = k /\ i < l
      BY <1>5, <3>1, <3>2
    <3> QED
      BY <1>4, <3>1, <3>2, <3>3 DEF Before
  <2> QED
    BY <2>1, <2>2, <2>3, Zenon DEF StrictOrder
<1>7. \E t \in SetToSeqs(P) : \A i, j \in DOMAIN t : i < j => <<t[i], t[j]>> \in R
  BY <1>2, <1>6, Sortable, Zenon
<1>8. PICK t \in SetToSeqs(P) : \A i, j \in DOMAIN t : i < j => <<t[i], t[j]>> \in R
  BY <1>7, Zenon
<1>9. \A i \in DOMAIN t : t[i] \in P
  BY DEF SetToSeqs
<1>10. \A i, j \in DOMAIN t : i < j => Before(s, t[i], t[j])
  BY <1>4, <1>8, <1>9, Zenon
<1>11. \E u \in SetToSeqs(P) : \A i, j \in DOMAIN u : i < j => Before(s, u[i], u[j])
  BY <1>10, Zenon
<1> QED
  BY <1>2, <1>11 DEF Filtered, P

\* The WHERE clause selects what is wanted, but for the metadata.
LEMMA WhereIsWanted ==
    ASSUME TableOK, NEW ctx \in Callers, NEW q \in Queries
    PROVE  LET all == [q EXCEPT !.filter = Metas]
               ids == Where(table, ctx, q)
           IN  /\ ids \subseteq Filled
               /\ \A id \in ids : table[id].created \in Nat
               /\ Wanted(table, ctx, all) = ids
               /\ Wanted(table, ctx, q) = {id \in ids : table[id].meta \in q.filter}
<1> DEFINE all == [q EXCEPT !.filter = Metas]
           ids == Where(table, ctx, q)
<1>1. q \in AllQueries
  BY CallersAssumption
<1>2. all.id = q.id /\ all.text = q.text /\ all.filter = Metas
  BY <1>1 DEF AllQueries
<1> HIDE DEF all
<1>3. DOMAIN table = Ids
  BY DEF TableOK
<1>4. ids \subseteq Filled
  BY DEF Where, Filled
<1>5. \A id \in ids : table[id].created \in Nat
  BY <1>4, MemoryAssumption DEF Filled, TableOK, Records
<1>6. ASSUME NEW id \in Ids, table[id] # None
      PROVE  /\ id \in ids <=> id \in Wanted(table, ctx, all)
             /\ id \in Wanted(table, ctx, q)
                  <=> id \in ids /\ table[id].meta \in q.filter
  <2>1. table[id].level \in {"private", "shared"} /\ table[id].meta \in Metas
    BY <1>6 DEF TableOK, Records, Levels
  <2> QED
    BY <1>2, <1>3, <1>6, <2>1 DEF Where, Wanted, Visible, Matches
<1>7. /\ Wanted(table, ctx, all) \subseteq Filled
      /\ Wanted(table, ctx, q) \subseteq Filled
  BY <1>3 DEF Wanted, Filled
<1> HIDE DEF ids
<1>8. Wanted(table, ctx, all) = ids
  BY <1>4, <1>6, <1>7 DEF Filled
<1>9. Wanted(table, ctx, q) = {id \in ids : table[id].meta \in q.filter}
  BY <1>4, <1>6, <1>7 DEF Filled
<1> QED
  BY <1>4, <1>5, <1>8, <1>9 DEF all, ids

\* What the database selects: the newest of what the WHERE clause is for, all of
\* it unless there is more than the limit.
LEMMA SelectedAreNewest ==
    ASSUME TableOK, FiniteTable, NEW ctx \in Callers, NEW q \in Queries,
           NEW a \in Selected(table, ctx, q)
    PROVE  LET ids == Where(table, ctx, q)
               n   == LimitOf(q)
           IN  /\ n \in Nat /\ IsFiniteSet(ids)
               /\ a \in Seq(ids) /\ IsInjective(a) /\ Len(a) <= n
               /\ Len(a) = n \/ ToSet(a) = ids
               /\ Cardinality(ids) <= n => ToSet(a) = ids
               /\ \A i, j \in DOMAIN a :
                     i < j => table[a[i]].created >= table[a[j]].created
               /\ \A x \in ToSet(a), y \in ids \ ToSet(a) :
                     table[x].created >= table[y].created
<1> DEFINE ids == Where(table, ctx, q)
           n   == LimitOf(q)
           R   == {p \in ids \X ids : table[p[1]].created >= table[p[2]].created}
<1>1. n \in Nat /\ n = IF q.limit > 0 THEN q.limit ELSE DefaultLimit
  BY CallersAssumption, MemoryAssumption DEF LimitOf, AllQueries
<1>2. ids \subseteq Filled
  BY WhereIsWanted
<1>3. IsFiniteSet(ids)
  BY <1>2, FS_Subset DEF FiniteTable
<1>4. PICK s \in SetToSeqs(ids) :
         /\ \A i, j \in DOMAIN s :
               i < j => table[s[i]].created >= table[s[j]].created
         /\ a = SubSeq(s, 1, IF Len(s) > n THEN n ELSE Len(s))
  BY <1>1 DEF Selected
<1>5. \A x, y \in ids : <<x, y>> \in R <=> table[x].created >= table[y].created
  OBVIOUS
<1>6. \A i \in DOMAIN s : s[i] \in ids
  BY DEF SetToSeqs
<1> HIDE DEF ids, n, R
<1>7. \A i, j \in DOMAIN s : i < j => <<s[i], s[j]>> \in R
  BY <1>4, <1>5, <1>6, Zenon
<1>8. /\ a \in Seq(ids) /\ IsInjective(a) /\ Len(a) <= n
      /\ Len(a) = n \/ ToSet(a) = ids
      /\ \A i, j \in DOMAIN a : i < j => <<a[i], a[j]>> \in R
      /\ \A x \in ToSet(a), y \in ids \ ToSet(a) : <<x, y>> \in R
  <2>1. n \in Nat /\ a = SubSeq(s, 1, IF Len(s) > n THEN n ELSE Len(s))
    BY <1>1, <1>4
  <2> QED
    BY <1>3, <1>7, <2>1, FirstOf
<1>9. \A i \in DOMAIN a : a[i] \in ids
  BY <1>8
<1>10. ToSet(a) \subseteq ids
  BY <1>8 DEF ToSet
<1>11. ASSUME Cardinality(ids) <= n
       PROVE  ToSet(a) = ids
  <2>1. /\ Len(s) = Cardinality(ids) /\ s \in Seq(ids)
        /\ \A x \in ids : \E i \in 1 .. Len(s) : s[i] = x
    BY <1>3, Listing
  <2>2. a = s
    BY <1>1, <1>4, <1>11, <2>1
  <2>3. \A x \in ids : \E i \in DOMAIN a : a[i] = x
    BY <2>1, <2>2
  <2> QED
    BY <1>10, <2>3 DEF ToSet
<1>12. /\ \A i, j \in DOMAIN a :
             i < j => table[a[i]].created >= table[a[j]].created
       /\ \A x \in ToSet(a), y \in ids \ ToSet(a) :
             table[x].created >= table[y].created
  BY <1>5, <1>8, <1>9, <1>10, Zenon
<1> QED
  BY <1>1, <1>3, <1>8, <1>11, <1>12 DEF ids, n

\* Every answer that a query may get is right.
LEMMA FoundIsRight == TableOK /\ FiniteTable => AnswersRight
<1> SUFFICES ASSUME TableOK, FiniteTable, NEW ctx \in Callers, NEW q \in Queries,
                    NEW a \in Selected(table, ctx, q)
             PROVE  LET t   == Filtered(table, a, q)
                        all == [q EXCEPT !.filter = Metas]
                    IN  /\ IsInjective(t)
                        /\ ToSet(t) \subseteq Wanted(table, ctx, q)
                        /\ \A i, j \in DOMAIN t :
                              i < j => table[t[i]].created >= table[t[j]].created
                        /\ q.filter = Metas =>
                              /\ Answers(table, ctx, q, t)
                              /\ NewestFirst(table, ctx, q, t)
                        /\ Cardinality(Wanted(table, ctx, all)) <= LimitOf(q) =>
                              ToSet(t) = Wanted(table, ctx, q)
  BY DEF AnswersRight, Found
<1> DEFINE ids == Where(table, ctx, q)
           n   == LimitOf(q)
           all == [q EXCEPT !.filter = Metas]
           W   == Wanted(table, ctx, q)
           t   == Filtered(table, a, q)
           P   == {id \in ToSet(a) : table[id].meta \in q.filter}
           R   == {p \in ids \X ids : table[p[1]].created >= table[p[2]].created}
<1>1. /\ n \in Nat /\ IsFiniteSet(ids)
      /\ a \in Seq(ids) /\ IsInjective(a) /\ Len(a) <= n
      /\ Len(a) = n \/ ToSet(a) = ids
      /\ Cardinality(ids) <= n => ToSet(a) = ids
      /\ \A i, j \in DOMAIN a :
            i < j => table[a[i]].created >= table[a[j]].created
      /\ \A x \in ToSet(a), y \in ids \ ToSet(a) :
            table[x].created >= table[y].created
  BY SelectedAreNewest
<1>2. /\ \A id \in ids : table[id].created \in Nat
      /\ \A id \in ids : table[id] # None /\ id \in Ids
      /\ Wanted(table, ctx, all) = ids
      /\ W = {id \in ids : table[id].meta \in q.filter}
  BY WhereIsWanted DEF Filled
<1>3. /\ t \in SetToSeqs(P)
      /\ \A i, j \in DOMAIN t : i < j => Before(a, t[i], t[j])
      /\ IsFiniteSet(P)
  BY <1>1, FilteredListing
<1>4. \A x, y \in ids : <<x, y>> \in R <=> table[x].created >= table[y].created
  OBVIOUS
<1>5. ToSet(a) \subseteq ids
  BY <1>1 DEF ToSet
<1>6. P \subseteq ids
  BY <1>5
<1>7. P \subseteq W /\ (ToSet(a) = ids => P = W)
  BY <1>2, <1>5
<1>8. q.filter = Metas => P = ToSet(a) /\ W = ids
  <2>1. \A id \in ids : table[id].meta \in Metas
    BY <1>2 DEF TableOK, Records
  <2> QED
    BY <1>2, <1>5, <2>1
<1> HIDE DEF ids, n, all, W, t, P, R
<1>9. /\ Len(t) = Cardinality(P) /\ t \in Seq(P)
      /\ \A i, j \in 1 .. Len(t) : t[i] = t[j] => i = j
      /\ \A x \in P : \E i \in 1 .. Len(t) : t[i] = x
  BY <1>3, Listing
<1>10. DOMAIN t = 1 .. Len(t) /\ \A i \in DOMAIN t : t[i] \in P
  BY <1>9
<1>11. ToSet(t) = P
  BY <1>9, <1>10 DEF ToSet
<1>12. IsInjective(t)
  BY <1>9, <1>10 DEF IsInjective
<1>13. \A i, j \in DOMAIN t :
          i < j => table[t[i]].created >= table[t[j]].created
  <2> SUFFICES ASSUME NEW i \in DOMAIN t, NEW j \in DOMAIN t, i < j
               PROVE  table[t[i]].created >= table[t[j]].created
    OBVIOUS
  <2>1. PICK k \in DOMAIN a, l \in DOMAIN a : k < l /\ a[k] = t[i] /\ a[l] = t[j]
    BY <1>3 DEF Before
  <2> QED
    BY <1>1, <2>1
<1>14. ASSUME q.filter = Metas
       PROVE  Answers(table, ctx, q, t) /\ NewestFirst(table, ctx, q, t)
  <2>1. P = ToSet(a) /\ W = ids
    BY <1>8, <1>14
  <2>2. Len(t) = Len(a)
    <3>1. Len(a) \in Nat /\ a \in [1 .. Len(a) -> ids]
      BY <1>1
    <3>2. \A x \in P : \E i \in 1 .. Len(a) : a[i] = x
      BY <2>1, <3>1 DEF ToSet
    <3>3. a \in [1 .. Len(a) -> P]
      BY <2>1, <3>1 DEF ToSet
    <3>4. a \in Injection(1 .. Len(a), P) /\ a \in Surjection(1 .. Len(a), P)
      BY <1>1, <3>1, <3>2, <3>3
      DEF Injection, Surjection, IsInjective
    <3>5. IsFiniteSet(1 .. Len(a)) /\ Cardinality(1 .. Len(a)) = Len(a)
      BY <3>1, FS_Interval
    <3>6. Cardinality(1 .. Len(a)) = Cardinality(P)
      BY <3>4, <3>5, FS_Surjection
    <3> QED
      BY <1>9, <3>5, <3>6
  <2>3. Answers(table, ctx, q, t)
    <3>1. Len(t) = n \/ (Len(t) < n /\ ToSet(t) = W)
      BY <1>1, <1>9, <1>11, <2>1, <2>2
    <3> QED
      BY <1>7, <1>11, <1>12, <3>1 DEF Answers, W, n
  <2>4. ASSUME NEW i \in DOMAIN t, NEW x \in W \ ToSet(SubSeq(t, 1, i - 1))
        PROVE  table[t[i]].created >= table[x].created
    <3>1. CASE x \notin ToSet(t)
      <4>1. t[i] \in ToSet(a) /\ x \in ids \ ToSet(a)
        BY <1>10, <1>11, <2>1, <3>1
      <4> QED
        BY <1>1, <4>1
    <3>2. CASE x \in ToSet(t)
      <4>1. x \in P \ ToSet(SubSeq(t, 1, i - 1))
        BY <1>11, <3>2
      <4>2. \A k, l \in DOMAIN t : k < l => <<t[k], t[l]>> \in R
        BY <1>4, <1>6, <1>10, <1>13, Zenon
      <4>3. Len(t) \in Nat /\ SubSeq(t, 1, Len(t)) = t
        BY <1>9
      <4>4. x = t[i] \/ <<t[i], x>> \in R
        <5>1. LET b == SubSeq(t, 1, IF Len(t) > Len(t) THEN Len(t) ELSE Len(t))
              IN  \A k \in DOMAIN b : \A y \in P \ ToSet(SubSeq(b, 1, k - 1)) :
                     y = b[k] \/ <<b[k], y>> \in R
          BY <1>3, <4>2, <4>3, FirstOf
        <5>2. \A k \in DOMAIN t : \A y \in P \ ToSet(SubSeq(t, 1, k - 1)) :
                 y = t[k] \/ <<t[k], y>> \in R
          BY <4>3, <5>1
        <5> QED
          BY <4>1, <5>2, Zenon
      <4>5. t[i] \in ids /\ x \in ids
        BY <1>6, <1>10, <4>1
      <4>6. table[x].created \in Nat
        BY <1>2, <4>5
      <4> QED
        BY <1>4, <4>4, <4>5, <4>6
    <3> QED
      BY <3>1, <3>2
  <2>5. NewestFirst(table, ctx, q, t)
    BY <2>4 DEF NewestFirst, W
  <2> QED
    BY <2>3, <2>5
<1>15. Cardinality(Wanted(table, ctx, all)) <= n => ToSet(t) = W
  BY <1>1, <1>2, <1>7, <1>11
<1>16. ToSet(t) \subseteq W
  BY <1>7, <1>11
<1> QED
  BY <1>12, <1>13, <1>14, <1>15, <1>16 DEF t, W, all, n

\* Whatever is asked for and however large the table, the limit and the filter,
\* the answers of both adapters (sqlite3.go:83, postgres.go:72) are the newest
\* of what the caller may see, newest first, of which the filter drops some: as
\* many as the limit allows without a filter, and all if the limit is no matter.
THEOREM RightlyAnswered == Spec => []AnswersRight
<1>1. TableOK /\ FiniteTable => AnswersRight
  BY FoundIsRight
<1> QED
  BY <1>1, InitAllowed, TableStep, InitFinite, FiniteStep, PTL DEF Spec

\* There is always an answer that a query may get, so that what is right of
\* every answer is not so for want of one.
Answerable == \A ctx \in Callers, q \in Queries : Found(table, ctx, q) # {}

\* Every query has an answer in both adapters, whatever is stored and whatever
\* the filter drops.
THEOREM AlwaysAnswerable == Spec => []Answerable
<1>1. TableOK /\ FiniteTable => Answerable
  <2> SUFFICES ASSUME TableOK, FiniteTable, NEW ctx \in Callers, NEW q \in Queries
               PROVE  Selected(table, ctx, q) # {}
    BY DEF Answerable, Found
  <2> DEFINE ids == Where(table, ctx, q)
  <2>1. ids \subseteq Filled /\ \A id \in ids : table[id].created \in Nat
    BY WhereIsWanted
  <2>2. IsFiniteSet(ids) /\ ids \subseteq Nat
    BY <2>1, MemoryAssumption, FS_Subset DEF FiniteTable, Filled
  <2> HIDE DEF ids
  <2>3. PICK s \in SetToSeqs(ids) :
           \A i, j \in DOMAIN s : i < j => Newer(table, s[i], s[j])
    BY <2>1, <2>2, NewestListing
  <2>4. ASSUME NEW i \in DOMAIN s, NEW j \in DOMAIN s, i < j
        PROVE  table[s[i]].created >= table[s[j]].created
    <3>1. s[i] \in ids /\ s[j] \in ids
      BY DEF SetToSeqs
    <3>2. Newer(table, s[i], s[j])
      BY <2>3, <2>4
    <3> QED
      BY <2>1, <3>1, <3>2 DEF Newer
  <2> QED
    BY <2>4 DEF Selected, ids
<1> QED
  BY <1>1, InitAllowed, TableStep, InitFinite, FiniteStep, PTL DEF Spec

-----------------------------------------------------------------------------
(* Replies.                                                                *)

\* No reply shows a caller a row that is not its own to see: one of another
\* entity, or a private one of another user.
NothingPrivateShown ==
    \A id \in ToSet(reply.rows) :
        table[id] # None /\ Visible(table[id], reply.ctx)

\* The answer to a query is a sequence of IDs that the caller may see.
LEMMA FoundAreVisible ==
    ASSUME TableOK, FiniteTable, NEW ctx \in Callers, NEW q \in Queries,
           NEW rows \in Found(table, ctx, q)
    PROVE  /\ rows \in Seq(Ids)
           /\ \A id \in ToSet(rows) : table[id] # None /\ Visible(table[id], ctx)
<1> DEFINE ids == Where(table, ctx, q)
<1>1. PICK a \in Selected(table, ctx, q) : rows = Filtered(table, a, q)
  BY DEF Found
<1>2. IsFiniteSet(ids) /\ a \in Seq(ids) /\ IsInjective(a)
  BY SelectedAreNewest
<1> DEFINE P == {id \in ToSet(a) : table[id].meta \in q.filter}
<1>3. rows \in SetToSeqs(P) /\ IsFiniteSet(P)
  BY <1>1, <1>2, FilteredListing
<1>4. P \subseteq Ids
  <2>1. ids \subseteq Ids
    BY DEF Where
  <2> HIDE DEF ids
  <2> QED
    BY <1>2, <2>1 DEF ToSet
<1> HIDE DEF P
<1>5. rows \in Seq(P)
  BY <1>3, Listing
<1>6. rows \in Seq(Ids)
  BY <1>4, <1>5
<1>7. ToSet(rows) \subseteq Wanted(table, ctx, q)
  BY FoundIsRight DEF AnswersRight
<1> QED
  BY <1>6, <1>7 DEF Wanted

\* Every step replies, with rows only if they are an answer that a query may get.
Replied(ctx, outcome, rows) ==
    /\ ctx \in Callers \cup {None}
    /\ outcome \in {"ok", "error"}
    /\ \E call : Reply(call, ctx, outcome, rows)
    /\ \/ rows = <<>>
       \/ /\ ctx \in Callers
          /\ \E q \in Queries : rows \in Found(table, ctx, q)
          /\ UNCHANGED table

\* Whatever a statement replies is of the types and shows nothing private.
LEMMA StepReplies ==
    ASSUME Next
    PROVE  \E ctx, outcome, rows : Replied(ctx, outcome, rows)
<1>1. ASSUME NEW call, NEW ctx \in Callers \cup {None}, Fails(call, ctx)
      PROVE  Replied(ctx, "error", <<>>)
  BY <1>1, Zenon DEF Fails, Replied
<1>2. ASSUME NEW call, NEW ctx \in Callers, Reply(call, ctx, "ok", <<>>)
      PROVE  Replied(ctx, "ok", <<>>)
  BY <1>2, Zenon DEF Replied
<1>3. ASSUME NEW ctx \in Callers, NEW q \in Queries,
             NEW rows \in Found(table, ctx, q), Reply("Retrieve", ctx, "ok", rows),
             UNCHANGED table
      PROVE  Replied(ctx, "ok", rows)
  BY <1>3, Zenon DEF Replied
<1>4. ASSUME NoContext
      PROVE  \E ctx, outcome, rows : Replied(ctx, outcome, rows)
  BY <1>1, <1>4, Zenon DEF NoContext
<1>5. ASSUME NEW ctx \in Callers, NEW q \in Queries, Retrieve(ctx, q)
      PROVE  \E outcome, rows : Replied(ctx, outcome, rows)
  BY <1>1, <1>3, <1>5, Zenon DEF Retrieve
<1>6. ASSUME NEW ctx \in Callers, NEW id \in Ids, NEW input \in NewRecords,
             Store(ctx, id, input) \/ Update(ctx, id, input)
      PROVE  \E outcome, rows : Replied(ctx, outcome, rows)
  BY <1>1, <1>2, <1>6, Zenon DEF Store, Update
<1>7. ASSUME NEW ctx \in Callers, NEW id \in Ids, Delete(ctx, id)
      PROVE  \E outcome, rows : Replied(ctx, outcome, rows)
  BY <1>1, <1>2, <1>7, Zenon DEF Delete
<1> QED
  BY <1>4, <1>5, <1>6, <1>7, Zenon DEF Next

\* Whoever asks either adapter for whatever, and whatever others store.
THEOREM Privacy == Spec => []NothingPrivateShown
<1>1. Init => NothingPrivateShown
  BY DEF Init, NothingPrivateShown, ToSet
<1>2. TableOK /\ FiniteTable /\ NothingPrivateShown /\ [Next]_vars
        => NothingPrivateShown'
  <2> SUFFICES ASSUME TableOK, FiniteTable, NothingPrivateShown, [Next]_vars,
                      NEW id \in ToSet(reply'.rows)
               PROVE  table'[id] # None /\ Visible(table'[id], reply'.ctx)
    BY DEF NothingPrivateShown
  <2>1. CASE Next
    <3>1. PICK ctx, outcome, rows : Replied(ctx, outcome, rows)
      BY <2>1, StepReplies
    <3>2. reply'.ctx = ctx /\ reply'.rows = rows
      BY <3>1 DEF Replied, Reply
    <3>3. rows # <<>>
      BY <3>2 DEF ToSet
    <3> QED
      BY <3>1, <3>2, <3>3, FoundAreVisible DEF Replied
  <2>2. CASE UNCHANGED vars
    BY <2>2 DEF vars, NothingPrivateShown
  <2> QED
    BY <2>1, <2>2
<1> QED
  BY <1>1, <1>2, InitAllowed, TableStep, InitFinite, FiniteStep, PTL DEF Spec

\* Types hold; in particular an answer never names anything but IDs.
THEOREM TypeCorrect == Spec => []TypeOK
<1>1. Init => TypeOK
  BY DEF Init, TypeOK
<1>2. TypeOK /\ FiniteTable /\ [Next]_vars => TypeOK'
  <2> SUFFICES ASSUME TypeOK, FiniteTable, [Next]_vars
               PROVE  TypeOK'
    OBVIOUS
  <2>1. TableOK /\ TableOK'
    BY TableStep DEF TypeOK, TableOK
  <2>2. backend' = backend
    BY DEF Next, NoContext, Store, Retrieve, Update, Delete, Fails, vars
  <2>3. CASE Next
    <3>1. PICK ctx, outcome, rows : Replied(ctx, outcome, rows)
      BY <2>3, StepReplies
    <3>2. reply'.ctx = ctx /\ reply'.outcome = outcome /\ reply'.rows = rows
      BY <3>1 DEF Replied, Reply
    <3>3. rows \in Seq(Ids)
      <4>1. CASE rows = <<>>
        BY <4>1
      <4>2. ASSUME ctx \in Callers, NEW q \in Queries, rows \in Found(table, ctx, q)
            PROVE  rows \in Seq(Ids)
        BY <2>1, <4>2, FoundAreVisible
      <4> QED
        BY <3>1, <4>1, <4>2, Zenon DEF Replied
    <3> QED
      BY <2>1, <2>2, <3>1, <3>2, <3>3 DEF TypeOK, TableOK, Replied
  <2>4. CASE UNCHANGED vars
    BY <2>4 DEF TypeOK, vars
  <2> QED
    BY <2>3, <2>4
<1>3. TypeOK => TableOK
  BY DEF TypeOK, TableOK
<1> QED
  BY <1>1, <1>2, <1>3, InitFinite, FiniteStep, PTL DEF Spec
=============================================================================
