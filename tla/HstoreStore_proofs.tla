------------------------- MODULE HstoreStore_proofs -------------------------
(***************************************************************************)
(* What the hstore adapter guarantees of its rows and of its answers, for  *)
(* any number of processes whose statements interleave; and, in the second *)
(* half, of the metadata, for texts and metadata of any length: which      *)
(* values come back from the text they are written as.                     *)
(***************************************************************************)
EXTENDS HstoreStore, Memory_proofs, Integers, SequenceTheorems,
        WellFoundedInduction

\* The rows' and the processes' part of TypeOK.
RowsOK ==
    /\ table \in [Ids -> Records \cup {None}]
    /\ pending \in [Procs -> Writes \cup {None}]

\* None is no write under way, and an update has a record.
PendingOK ==
    \A p \in Procs : pending[p] # None /\ pending[p].call = "Update"
                        => pending[p].input \in NewRecords

IInv == RowsOK /\ PendingOK

-----------------------------------------------------------------------------
\* What Store writes where there was no row is a record.
LEMMA OwnedIsRecord ==
    ASSUME NEW ctx \in Callers, NEW input \in NewRecords, Acceptable(input, ctx)
    PROVE  Owned(input, ctx) \in Records
<1>1. ctx \in Contexts /\ input \in Inputs
  BY CallersAssumption
<1> QED
  BY <1>1, MemoryAssumption DEF Contexts, Inputs, Records, Owned, Acceptable

\* A row whose content and metadata change is the same row otherwise.
SameOwner(old, new) ==
    /\ new.entity = old.entity
    /\ new.user = old.user
    /\ new.level = old.level
    /\ new.created = old.created

\* What an Update writes is a record.
LEMMA ChangedIsRecord ==
    ASSUME NEW old \in Records, NEW c \in Contents, NEW m \in Metas
    PROVE  LET new == [old EXCEPT !.content = c, !.meta = m]
           IN  new \in Records /\ SameOwner(old, new)
BY DEF Records, SameOwner

-----------------------------------------------------------------------------
\* What a statement makes of one row: each kind of step says what it writes.
Unchanged(id)    == table'[id] = table[id]
Inserted(id)     == table[id] = None /\ table'[id] \in Records
Deleted(id)      == table[id] # None /\ table'[id] = None
Overwritten(id)  == /\ table[id] # None
                    /\ table'[id] \in Records
                    /\ SameOwner(table[id], table'[id])

\* A row is of the entity of the write that is under way.
OfWriter(id) == table[id].entity = reply'.ctx.entity

\* Everything a step does to a row, and which operations do it.
RowStep(id) ==
    \/ Unchanged(id)
    \/ reply'.call = "Store" /\ (Inserted(id) \/ Overwritten(id))
    \/ reply'.call \in {"Update", "Delete"} /\ OfWriter(id)
          /\ (Overwritten(id) \/ Deleted(id))

\* What Store may do to a row: insert it, or overwrite it.
LEMMA StoreStep ==
    ASSUME IInv, NEW p \in Procs, NEW ctx \in Callers, NEW i \in Ids,
           NEW input \in NewRecords, Store(p, ctx, i, input)
    PROVE  table' \in [Ids -> Records \cup {None}] /\ \A id \in Ids : RowStep(id)
<1>0. table \in [Ids -> Records \cup {None}]
  BY DEF IInv, RowsOK
<1>1. CASE UNCHANGED table
  BY <1>0, <1>1 DEF RowStep, Unchanged
<1>2. CASE /\ Acceptable(input, ctx)
           /\ table' = [table EXCEPT ![i] = Upserted(@, Owned(input, ctx))]
           /\ Reply("Store", ctx, i, input, "ok", <<>>)
  <2> DEFINE new == Owned(input, ctx)
  <2>1. new \in Records
    BY <1>2, OwnedIsRecord
  <2>2. new.content \in Contents /\ new.meta \in Metas
    BY <2>1 DEF Records
  <2>3. reply'.call = "Store"
    BY <1>2 DEF Reply
  <2> HIDE DEF new
  <2>4. CASE table[i] = None
    <3>1. table' = [table EXCEPT ![i] = new]
      BY <1>0, <1>2, <2>4 DEF Upserted, new
    <3> QED
      BY <1>0, <2>1, <2>3, <2>4, <3>1 DEF RowStep, Unchanged, Inserted
  <2>5. CASE table[i] # None
    <3> DEFINE row == [table[i] EXCEPT !.content = new.content,
                                       !.meta = new.meta]
    <3>1. table' = [table EXCEPT ![i] = row]
      BY <1>0, <1>2, <2>5 DEF Upserted, new
    <3>2. row \in Records /\ SameOwner(table[i], row)
      BY <1>0, <2>2, <2>5, ChangedIsRecord
    <3> HIDE DEF row
    <3> QED
      BY <1>0, <2>3, <2>5, <3>1, <3>2 DEF RowStep, Unchanged, Overwritten
  <2> QED
    BY <2>4, <2>5
<1> QED
  BY <1>1, <1>2 DEF Store, Fails

\* The write of an Update hits a row of its own entity or none.
LEMMA UpdateStep ==
    ASSUME IInv, NEW p \in Procs, WriteUpdate(p)
    PROVE  table' \in [Ids -> Records \cup {None}] /\ \A id \in Ids : RowStep(id)
<1> DEFINE w == pending[p]
<1>0. table \in [Ids -> Records \cup {None}]
  BY DEF IInv, RowsOK
<1>1. w \in Writes /\ w.input \in NewRecords
  BY DEF IInv, RowsOK, PendingOK, WriteUpdate, Idle
<1>2. w.input.content \in Contents /\ Kept[w.input.meta] \in Metas
  <2>1. w.input \in Inputs
    BY <1>1, CallersAssumption
  <2> QED
    BY <2>1, MemoryAssumption DEF Inputs
<1>3. w.id \in Ids
  BY <1>1 DEF Writes
<1>4. reply'.call = "Update" /\ reply'.ctx = w.ctx
  BY DEF WriteUpdate, Reply
<1>5. CASE Hits(w)
  <2> DEFINE row == [table[w.id] EXCEPT !.content = w.input.content,
                                        !.meta = Kept[w.input.meta]]
  <2>1. table' = [table EXCEPT ![w.id] = row]
    BY <1>0, <1>5 DEF WriteUpdate
  <2>2. row \in Records /\ SameOwner(table[w.id], row)
    BY <1>0, <1>2, <1>3, <1>5, ChangedIsRecord DEF Hits
  <2>3. table[w.id] # None /\ table[w.id].entity = reply'.ctx.entity
    BY <1>4, <1>5 DEF Hits
  <2> HIDE DEF row, w
  <2> QED
    BY <1>0, <1>3, <1>4, <2>1, <2>2, <2>3
    DEF RowStep, Unchanged, Overwritten, OfWriter
<1>6. CASE ~Hits(w)
  <2>1. table' = table
    BY <1>0, <1>3, <1>6 DEF WriteUpdate
  <2> QED
    BY <1>0, <2>1 DEF RowStep, Unchanged
<1> QED
  BY <1>5, <1>6

\* So does that of a Delete.
LEMMA DeleteStep ==
    ASSUME IInv, NEW p \in Procs, WriteDelete(p)
    PROVE  table' \in [Ids -> Records \cup {None}] /\ \A id \in Ids : RowStep(id)
<1> DEFINE w == pending[p]
<1>0. table \in [Ids -> Records \cup {None}]
  BY DEF IInv, RowsOK
<1>1. w.id \in Ids
  BY DEF IInv, RowsOK, WriteDelete, Idle, Writes
<1>2. reply'.call = "Delete" /\ reply'.ctx = w.ctx
  BY DEF WriteDelete, Reply
<1>3. CASE Hits(w)
  <2>1. table' = [table EXCEPT ![w.id] = None]
    BY <1>0, <1>3 DEF WriteDelete
  <2>2. table[w.id] # None /\ table[w.id].entity = reply'.ctx.entity
    BY <1>2, <1>3 DEF Hits
  <2> HIDE DEF w
  <2> QED
    BY <1>0, <1>1, <1>2, <2>1, <2>2 DEF RowStep, Unchanged, Deleted, OfWriter
<1>4. CASE ~Hits(w)
  <2>1. table' = table
    BY <1>0, <1>1, <1>4 DEF WriteDelete
  <2> QED
    BY <1>0, <2>1 DEF RowStep, Unchanged
<1> QED
  BY <1>3, <1>4

\* Every step of every process does one of these things to each row.
LEMMA StepDoesToRows ==
    ASSUME IInv, Next
    PROVE  table' \in [Ids -> Records \cup {None}] /\ \A id \in Ids : RowStep(id)
<1>1. ASSUME UNCHANGED table
      PROVE  /\ table' \in [Ids -> Records \cup {None}]
             /\ \A id \in Ids : RowStep(id)
  BY <1>1 DEF IInv, RowsOK, RowStep, Unchanged
<1> PICK p \in Procs :
      \/ NoContext(p)
      \/ WriteUpdate(p)
      \/ WriteDelete(p)
      \/ WriteFails(p)
      \/ \E ctx \in Callers :
            \/ \E q \in Queries : Retrieve(p, ctx, q)
            \/ \E id \in Ids :
                  \/ Delete(p, ctx, id)
                  \/ \E input \in NewRecords :
                        Store(p, ctx, id, input) \/ Update(p, ctx, id, input)
  BY DEF Next
<1>2. CASE \/ NoContext(p) \/ WriteFails(p)
           \/ \E ctx \in Callers, q \in Queries : Retrieve(p, ctx, q)
           \/ \E ctx \in Callers, id \in Ids : Delete(p, ctx, id)
           \/ \E ctx \in Callers, id \in Ids, input \in NewRecords :
                 Update(p, ctx, id, input)
  BY <1>1, <1>2
  DEF NoContext, WriteFails, Retrieve, Delete, Update, Check, Fails
<1> QED
  BY <1>2, StoreStep, UpdateStep, DeleteStep

-----------------------------------------------------------------------------
\* The write a process has under way is one it has checked.
LEMMA PendingStep ==
    ASSUME IInv, Next
    PROVE  pending' \in [Procs -> Writes \cup {None}] /\ PendingOK'
<1> USE DEF IInv, RowsOK, PendingOK
<1>1. ASSUME UNCHANGED pending
      PROVE  pending' \in [Procs -> Writes \cup {None}] /\ PendingOK'
  BY <1>1
<1>2. ASSUME NEW p \in Procs, pending' = [pending EXCEPT ![p] = None]
      PROVE  pending' \in [Procs -> Writes \cup {None}] /\ PendingOK'
  BY <1>2
<1>3. ASSUME NEW p \in Procs, NEW ctx \in Callers, NEW id \in Ids,
             NEW call \in {"Update", "Delete"}, NEW input \in NewRecords \cup {None},
             call = "Update" => input \in NewRecords,
             Check(p, call, ctx, id, input)
      PROVE  pending' \in [Procs -> Writes \cup {None}] /\ PendingOK'
  <2> DEFINE w == [call |-> call, ctx |-> ctx, id |-> id, input |-> input]
  <2>1. CASE pending' = [pending EXCEPT ![p] = w]
    <3>1. w \in Writes /\ (w.call = "Update" => w.input \in NewRecords)
      BY <1>3 DEF Writes
    <3> HIDE DEF w
    <3> QED
      BY <2>1, <3>1
  <2> QED
    BY <1>1, <1>3, <2>1 DEF Check
<1>4. ASSUME NEW p \in Procs, NEW ctx \in Callers, NEW id \in Ids,
             NEW input \in NewRecords, Update(p, ctx, id, input)
      PROVE  pending' \in [Procs -> Writes \cup {None}] /\ PendingOK'
  BY <1>3, <1>4 DEF Update
<1>5. ASSUME NEW p \in Procs, NEW ctx \in Callers, NEW id \in Ids,
             Delete(p, ctx, id)
      PROVE  pending' \in [Procs -> Writes \cup {None}] /\ PendingOK'
  BY <1>3, <1>5 DEF Delete
<1> QED
  BY <1>1, <1>2, <1>4, <1>5
  DEF Next, NoContext, Store, Retrieve, WriteUpdate, WriteDelete, WriteFails

\* The empty table has the invariant.
LEMMA InitIInv == Init => IInv
BY DEF Init, IInv, RowsOK, PendingOK

\* Every statement keeps it.
LEMMA StepIInv == IInv /\ [Next]_vars => IInv'
<1>1. ASSUME IInv, Next
      PROVE  IInv'
  BY <1>1, StepDoesToRows, PendingStep DEF IInv, RowsOK
<1>2. ASSUME IInv, UNCHANGED vars
      PROVE  IInv'
  BY <1>2 DEF IInv, RowsOK, PendingOK, vars
<1> QED
  BY <1>1, <1>2

-----------------------------------------------------------------------------
\* Neither a Store under a row's ID nor an Update, in whatever order statements
\* run, changes whose a row is and who may see it.
THEOREM OwnersNeverChange == Spec => OwnersKept
<1>1. IInv /\ [Next]_vars
        => [\A id \in Ids :
              LET old == table[id]
                  new == table'[id]
              IN  old # None /\ new # None =>
                      /\ new.entity = old.entity
                      /\ new.user = old.user
                      /\ new.level = old.level
                      /\ new.created = old.created]_vars
  BY StepDoesToRows
  DEF RowStep, Unchanged, Inserted, Deleted, Overwritten, SameOwner
<1> QED
  BY <1>1, InitIInv, StepIInv, PTL DEF Spec, OwnersKept

\* Update and Delete write to their own entity's rows, whatever other processes
\* did between the check and the write.
THEOREM WritesAreOwn == Spec => WritesOwnRows
<1>1. IInv /\ [Next]_vars
        => [\A id \in Ids :
              LET old == table[id]
              IN  /\ old # None
                  /\ old # table'[id]
                  /\ reply'.call \in {"Update", "Delete"}
                  => old.entity = reply'.ctx.entity]_vars
  BY StepDoesToRows
  DEF RowStep, Unchanged, OfWriter
<1> QED
  BY <1>1, InitIInv, StepIInv, PTL DEF Spec, WritesOwnRows

\* No Update that was under way brings back a row that was deleted.
THEOREM DeletedStaysDeleted == Spec => NoResurrection
<1>1. IInv /\ [Next]_vars
        => [\A id \in Ids : table[id] = None /\ table'[id] # None
               => reply'.call = "Store"]_vars
  BY StepDoesToRows
  DEF RowStep, Unchanged, Deleted, Overwritten
<1> QED
  BY <1>1, InitIInv, StepIInv, PTL DEF Spec, NoResurrection

-----------------------------------------------------------------------------
(* Answers.                                                                *)

Filled == {id \in Ids : table[id] # None}

\* A table has finitely many rows, however many IDs there are: it starts empty,
\* and a statement writes one row.
FiniteTable == IsFiniteSet(Filled)

\* A statement writes to one row at most.
LEMMA WritesOneRow ==
    ASSUME IInv, Next
    PROVE  \/ UNCHANGED table
           \/ \E i \in Ids : Filled' \subseteq Filled \cup {i}
<1> USE DEF IInv, RowsOK
<1>1. ASSUME NEW i \in Ids, NEW r, table' = [table EXCEPT ![i] = r]
      PROVE  Filled' \subseteq Filled \cup {i}
  BY <1>1 DEF Filled
<1>2. ASSUME NEW p \in Procs, NEW ctx \in Callers, NEW id \in Ids,
             NEW input \in NewRecords, Store(p, ctx, id, input)
      PROVE  Filled' \subseteq Filled \cup {id} \/ UNCHANGED table
  BY <1>1, <1>2 DEF Store, Fails
<1>3. ASSUME NEW p \in Procs, WriteUpdate(p) \/ WriteDelete(p)
      PROVE  \E i \in Ids : Filled' \subseteq Filled \cup {i}
  <2> DEFINE i == pending[p].id
  <2>1. i \in Ids
    BY <1>3 DEF WriteUpdate, WriteDelete, Idle, Writes
  <2>2. \E r : table' = [table EXCEPT ![i] = r]
    BY <1>3 DEF WriteUpdate, WriteDelete
  <2> QED
    BY <1>1, <2>1, <2>2
<1>4. ASSUME NEW p \in Procs,
             \/ NoContext(p) \/ WriteFails(p)
             \/ \E ctx \in Callers, q \in Queries : Retrieve(p, ctx, q)
             \/ \E ctx \in Callers, id \in Ids : Delete(p, ctx, id)
             \/ \E ctx \in Callers, id \in Ids, input \in NewRecords :
                   Update(p, ctx, id, input)
      PROVE  UNCHANGED table
  BY <1>4 DEF NoContext, WriteFails, Retrieve, Delete, Update, Check, Fails
<1> QED
  BY <1>2, <1>3, <1>4 DEF Next

\* So the table stays finite.
LEMMA FiniteStep == IInv /\ FiniteTable /\ [Next]_vars => FiniteTable'
<1> SUFFICES ASSUME IInv, FiniteTable, Next
             PROVE  FiniteTable'
  BY DEF vars, FiniteTable, Filled
<1>1. PICK i : UNCHANGED table \/ Filled' \subseteq Filled \cup {i}
  BY WritesOneRow
<1>2. IsFiniteSet(Filled \cup {i})
  BY FS_AddElement DEF FiniteTable
<1>3. CASE Filled' \subseteq Filled \cup {i}
  BY <1>2, <1>3, FS_Subset DEF FiniteTable
<1>4. CASE UNCHANGED table
  BY <1>4 DEF FiniteTable, Filled
<1> QED
  BY <1>1, <1>3, <1>4

\* The empty table is finite.
LEMMA InitFinite == Init => FiniteTable
BY FS_EmptySet DEF Init, FiniteTable, Filled

\* The WHERE clause selects what is wanted of the rows: those that the context
\* may see, with the filter taken for the text it is compared as.
LEMMA WhereIsWanted ==
    ASSUME RowsOK, NEW ctx \in Callers, NEW q \in Queries
    PROVE  LET asked == [q EXCEPT !.filter = {Kept[m] : m \in @}]
           IN  Where(table, ctx, q) = Wanted(table, ctx, asked)
<1> DEFINE asked == [q EXCEPT !.filter = {Kept[m] : m \in @}]
<1>1. q \in AllQueries
  BY CallersAssumption
<1>2. /\ asked.id = q.id
      /\ asked.text = q.text
      /\ asked.filter = {Kept[m] : m \in q.filter}
  BY <1>1 DEF AllQueries
<1> HIDE DEF asked
<1>3. DOMAIN table = Ids
  BY DEF RowsOK
<1>4. ASSUME NEW id \in Ids, table[id] # None
      PROVE  id \in Where(table, ctx, q) <=> id \in Wanted(table, ctx, asked)
  <2>1. table[id].level \in {"private", "shared"}
    BY <1>4 DEF RowsOK, Records, Levels
  <2> QED
    BY <1>2, <1>3, <1>4, <2>1 DEF Where, Wanted, Visible, Matches
<1>5. Where(table, ctx, q) \subseteq Ids /\ Wanted(table, ctx, asked) \subseteq Ids
  BY <1>3 DEF Where, Wanted
<1>6. \A id \in Where(table, ctx, q) \cup Wanted(table, ctx, asked) :
         table[id] # None
  BY DEF Where, Wanted
<1> QED
  BY <1>4, <1>5, <1>6 DEF asked

\* Every answer that the database may select is right.
LEMMA SelectedIsRight == RowsOK /\ FiniteTable => AnswersRight
<1> SUFFICES ASSUME RowsOK, FiniteTable, NEW ctx \in Callers, NEW q \in Queries,
                    NEW a \in Selected(table, ctx, q)
             PROVE  LET asked == [q EXCEPT !.filter = {Kept[m] : m \in @}]
                    IN  /\ Answers(table, ctx, asked, a)
                        /\ NewestFirst(table, ctx, asked, a)
  BY DEF AnswersRight
<1> DEFINE asked == [q EXCEPT !.filter = {Kept[m] : m \in @}]
           n     == LimitOf(asked)
<1>1. q \in AllQueries
  BY CallersAssumption
<1>2. /\ n \in Nat
      /\ n = IF q.limit > 0 THEN q.limit ELSE DefaultLimit
  BY <1>1, MemoryAssumption DEF AllQueries, LimitOf
<1>3. Where(table, ctx, q) = Wanted(table, ctx, asked)
  BY WhereIsWanted
<1> HIDE DEF asked, n
<1>4. PICK s \in Orders(table, Where(table, ctx, q)) :
         a = SubSeq(s, 1, IF Len(s) > n THEN n ELSE Len(s))
  BY <1>2 DEF Selected
<1>5. /\ s \in SetToSeqs(Wanted(table, ctx, asked))
      /\ \A i, j \in DOMAIN s :
            i < j => table[s[i]].created >= table[s[j]].created
  BY <1>3, <1>4 DEF Orders, Ordered
<1>6. /\ Wanted(table, ctx, asked) \subseteq Filled
      /\ \A id \in Filled : table[id].created \in Nat
  BY MemoryAssumption DEF RowsOK, Wanted, Filled, Records
<1>7. IsFiniteSet(Wanted(table, ctx, asked))
  BY <1>6, FS_Subset DEF FiniteTable
<1>8. Answers(table, ctx, asked, a) /\ NewestFirst(table, ctx, asked, a)
  BY <1>2, <1>4, <1>5, <1>6, <1>7, NewestOf DEF n
<1> QED
  BY <1>8 DEF asked

\* Whatever is asked for, by ID, text, metadata or all at once, and however
\* large the table and the limit, an answer of Retrieve (postgres_hstore.go:169)
\* is the newest of what the caller may see, newest first, up to the limit.
THEOREM RightlyAnswered == Spec => []AnswersRight
<1>1. IInv /\ FiniteTable => AnswersRight
  BY SelectedIsRight DEF IInv
<1> QED
  BY <1>1, InitIInv, StepIInv, InitFinite, FiniteStep, PTL DEF Spec

\* There is always an answer that the database may give, so that what is right
\* of every answer is not so for want of one.
Answerable ==
    \A ctx \in Callers, q \in Queries : Selected(table, ctx, q) # {}

\* Every query has an answer, whatever is stored: Retrieve is never stuck for want
\* of an order of the rows.
THEOREM AlwaysAnswerable == Spec => []Answerable
<1>1. RowsOK /\ FiniteTable => Answerable
  <2> SUFFICES ASSUME RowsOK, FiniteTable, NEW ctx \in Callers, NEW q \in Queries
               PROVE  Selected(table, ctx, q) # {}
    BY DEF Answerable
  <2> DEFINE ids == Where(table, ctx, q)
  <2>1. ids \subseteq Filled
    BY DEF Where, Filled
  <2>2. /\ ids \subseteq Nat
        /\ \A id \in ids : table[id].created \in Nat
    BY <2>1, MemoryAssumption DEF RowsOK, Filled, Records
  <2>3. IsFiniteSet(ids)
    BY <2>1, FS_Subset DEF FiniteTable
  <2> HIDE DEF ids
  <2>4. PICK s \in SetToSeqs(ids) :
           \A i, j \in DOMAIN s : i < j => Newer(table, s[i], s[j])
    BY <2>2, <2>3, NewestListing
  <2>5. \A i \in DOMAIN s : s[i] \in ids
    BY DEF SetToSeqs
  <2>6. s \in Orders(table, ids)
    BY <2>2, <2>4, <2>5 DEF Orders, Ordered, Newer
  <2> QED
    BY <2>6 DEF Selected, ids
<1> QED
  BY <1>1, InitIInv, StepIInv, InitFinite, FiniteStep, PTL DEF Spec, IInv

-----------------------------------------------------------------------------
(* Replies.                                                                *)

\* No reply shows a caller a row that is not its own to see: one of another
\* entity, or a private one of another user.
NothingPrivateShown ==
    \A id \in ToSet(reply.rows) :
        table[id] # None /\ Visible(table[id], reply.ctx)

\* The answer to a query is a sequence of IDs that the caller may see.
LEMMA SelectedAreVisible ==
    ASSUME RowsOK, FiniteTable, NEW ctx \in Callers, NEW q \in Queries,
           NEW rows \in Selected(table, ctx, q)
    PROVE  /\ rows \in Seq(Ids)
           /\ \A id \in ToSet(rows) : table[id] # None /\ Visible(table[id], ctx)
<1> DEFINE ids   == Where(table, ctx, q)
           limit == IF q.limit > 0 THEN q.limit ELSE DefaultLimit
<1>1. PICK s \in SetToSeqs(ids) :
         rows = SubSeq(s, 1, IF Len(s) > limit THEN limit ELSE Len(s))
  BY DEF Selected, Orders
<1>2. limit \in Nat
  BY CallersAssumption, MemoryAssumption DEF AllQueries
<1>3. ids \subseteq Filled
  BY DEF Where, Filled
<1>4. IsFiniteSet(ids) /\ ids \subseteq Ids
  BY <1>3, FS_Subset DEF FiniteTable, Filled
<1> HIDE DEF ids, limit
<1>5. s \in Seq(ids)
  BY <1>4, Listing
<1>6. rows \in Seq(Ids)
  BY <1>1, <1>2, <1>4, <1>5
<1>7. ToSet(rows) \subseteq Wanted(table, ctx, [q EXCEPT !.filter = {Kept[m] : m \in @}])
  BY SelectedIsRight DEF AnswersRight, Answers
<1> QED
  BY <1>6, <1>7 DEF Wanted

\* Every step leaves the reply alone, or replies with rows only if they are an
\* answer that the database may give.
Replied(ctx, id, input, outcome, rows) ==
    /\ ctx \in Callers \cup {None} /\ id \in Ids \cup {None}
    /\ input \in NewRecords \cup {None} /\ outcome \in {"ok", "error"}
    /\ \E call : Reply(call, ctx, id, input, outcome, rows)
    /\ \/ rows = <<>>
       \/ /\ ctx \in Callers
          /\ \E q \in Queries : rows \in Selected(table, ctx, q)
          /\ UNCHANGED table

\* Whatever a statement replies is of the types and shows nothing private.
LEMMA StepReplies ==
    ASSUME IInv, Next
    PROVE  \/ UNCHANGED <<table, reply>>
           \/ \E ctx, id, input, outcome, rows :
                 Replied(ctx, id, input, outcome, rows)
<1> DEFINE Goal == \/ UNCHANGED <<table, reply>>
                   \/ \E ctx, id, input, outcome, rows :
                         Replied(ctx, id, input, outcome, rows)
<1> PICK p \in Procs :
      \/ NoContext(p)
      \/ WriteUpdate(p)
      \/ WriteDelete(p)
      \/ WriteFails(p)
      \/ \E ctx \in Callers :
            \/ \E q \in Queries : Retrieve(p, ctx, q)
            \/ \E id \in Ids :
                  \/ Delete(p, ctx, id)
                  \/ \E input \in NewRecords :
                        Store(p, ctx, id, input) \/ Update(p, ctx, id, input)
  BY DEF Next
<1>1. ASSUME NEW call, NEW ctx \in Callers \cup {None}, NEW id \in Ids \cup {None},
             Fails(call, ctx, id)
      PROVE  Goal
  <2>1. Replied(ctx, id, None, "error", <<>>)
    BY <1>1, Zenon DEF Fails, Replied
  <2> QED
    BY <2>1, Zenon
<1>2. ASSUME NEW call, NEW ctx \in Callers, NEW id \in Ids \cup {None},
             NEW input \in NewRecords \cup {None},
             Reply(call, ctx, id, input, "ok", <<>>)
      PROVE  Goal
  <2>1. Replied(ctx, id, input, "ok", <<>>)
    BY <1>2, Zenon DEF Replied
  <2> QED
    BY <2>1, Zenon
<1>3. ASSUME NEW ctx \in Callers, NEW q \in Queries, Retrieve(p, ctx, q)
      PROVE  Goal
  <2>1. ASSUME NEW rows \in Selected(table, ctx, q), UNCHANGED table,
               Reply("Retrieve", ctx, None, None, "ok", rows)
        PROVE  Goal
    <3>1. Replied(ctx, None, None, "ok", rows)
      BY <2>1, Zenon DEF Replied
    <3> QED
      BY <3>1, Zenon
  <2> HIDE DEF Goal
  <2> QED
    BY <1>1, <1>3, <2>1, Zenon DEF Retrieve
<1>4. ASSUME ~Idle(p)
      PROVE  pending[p].ctx \in Callers /\ pending[p].id \in Ids
  BY <1>4 DEF IInv, RowsOK, Idle, Writes
<1>5. ASSUME ~Idle(p), pending[p].call = "Update"
      PROVE  pending[p].input \in NewRecords
  BY <1>5 DEF IInv, PendingOK, Idle
<1> HIDE DEF Goal
<1>6. ASSUME NoContext(p)
      PROVE  Goal
  BY <1>1, <1>6, Zenon DEF NoContext
<1>7. ASSUME WriteUpdate(p)
      PROVE  Goal
  BY <1>2, <1>4, <1>5, <1>7 DEF WriteUpdate
<1>8. ASSUME WriteDelete(p)
      PROVE  Goal
  BY <1>2, <1>4, <1>8 DEF WriteDelete
<1>9. ASSUME WriteFails(p)
      PROVE  Goal
  BY <1>1, <1>4, <1>9 DEF WriteFails
<1>10. ASSUME NEW ctx \in Callers, NEW id \in Ids, NEW input \in NewRecords,
              Store(p, ctx, id, input)
       PROVE  Goal
  BY <1>1, <1>2, <1>10 DEF Store
<1>11. ASSUME NEW ctx \in Callers, NEW id \in Ids, NEW call, NEW input,
              Check(p, call, ctx, id, input)
       PROVE  Goal
  BY <1>1, <1>11 DEF Check, Goal
<1> QED
  BY <1>3, <1>6, <1>7, <1>8, <1>9, <1>10, <1>11 DEF Update, Delete, Goal

\* Whoever asks for whatever, however the statements of others run in between.
THEOREM Privacy == Spec => []NothingPrivateShown
<1>1. Init => NothingPrivateShown
  BY DEF Init, NothingPrivateShown, ToSet
<1>2. IInv /\ FiniteTable /\ NothingPrivateShown /\ [Next]_vars
        => NothingPrivateShown'
  <2> SUFFICES ASSUME IInv, FiniteTable, NothingPrivateShown, [Next]_vars,
                      NEW id \in ToSet(reply'.rows)
               PROVE  table'[id] # None /\ Visible(table'[id], reply'.ctx)
    BY DEF NothingPrivateShown
  <2>1. CASE UNCHANGED <<table, reply>>
    BY <2>1 DEF NothingPrivateShown
  <2>2. ASSUME NEW ctx, NEW i, NEW input, NEW outcome, NEW rows,
               Replied(ctx, i, input, outcome, rows)
        PROVE  table'[id] # None /\ Visible(table'[id], reply'.ctx)
    <3>1. reply'.ctx = ctx /\ reply'.rows = rows
      BY <2>2 DEF Replied, Reply
    <3>2. rows # <<>>
      BY <3>1 DEF ToSet
    <3> QED
      BY <2>2, <3>1, <3>2, SelectedAreVisible DEF Replied, IInv
  <2> QED
    BY <2>1, <2>2, StepReplies DEF vars
<1> QED
  BY <1>1, <1>2, InitIInv, StepIInv, InitFinite, FiniteStep, PTL DEF Spec

\* Types hold; in particular an answer never names anything but IDs.
THEOREM TypeCorrect == Spec => []TypeOK
<1>1. Init => TypeOK
  BY DEF Init, TypeOK
<1>2. IInv /\ FiniteTable /\ TypeOK /\ [Next]_vars => TypeOK'
  <2> SUFFICES ASSUME IInv, FiniteTable, TypeOK, [Next]_vars
               PROVE  TypeOK'
    OBVIOUS
  <2>1. RowsOK'
    BY StepIInv DEF IInv
  <2>2. CASE UNCHANGED <<table, reply>>
    BY <2>1, <2>2 DEF TypeOK, RowsOK
  <2>3. ASSUME NEW ctx, NEW i, NEW input, NEW outcome, NEW rows,
               Replied(ctx, i, input, outcome, rows)
        PROVE  TypeOK'
    <3>1. /\ reply'.ctx = ctx /\ reply'.id = i /\ reply'.input = input
          /\ reply'.outcome = outcome /\ reply'.rows = rows
      BY <2>3 DEF Replied, Reply
    <3>2. rows \in Seq(Ids)
      <4>1. CASE rows = <<>>
        BY <4>1
      <4>2. ASSUME ctx \in Callers, NEW q \in Queries, rows \in Selected(table, ctx, q)
            PROVE  rows \in Seq(Ids)
        BY <4>2, SelectedAreVisible DEF IInv
      <4> QED
        BY <2>3, <4>1, <4>2, Zenon DEF Replied
    <3> QED
      BY <2>1, <2>3, <3>1, <3>2 DEF TypeOK, RowsOK, Replied
  <2> QED
    BY <2>2, <2>3, StepReplies DEF vars
<1> QED
  BY <1>1, <1>2, InitIInv, StepIInv, InitFinite, FiniteStep, PTL DEF Spec

-----------------------------------------------------------------------------
\* Induction over the naturals, for a set: a set that has no least number that is
\* missing misses none.
LEMMA InductionOnNat ==
    ASSUME NEW S, 0 \in S, \A n \in Nat : n \in S => n + 1 \in S
    PROVE  Nat \subseteq S
<1> DEFINE Missing == Nat \ S
<1>1. SUFFICES ASSUME Missing # {} PROVE FALSE
  OBVIOUS
<1>2. PICK n \in Missing : \A m \in Missing : ~(<<m, n>> \in OpToRel(<, Nat))
  BY <1>1, NatLessThanWellFounded, WFMin, Zenon
<1>3. \A m \in Missing : ~(m < n)
  BY <1>2 DEF OpToRel
<1> QED
  BY <1>3

\* Induction over sequences, for a set of them.
LEMMA InductionOnSeq ==
    ASSUME NEW T, NEW P, <<>> \in P,
           \A s \in Seq(T), t \in T : s \in P => Append(s, t) \in P
    PROVE  Seq(T) \subseteq P
<1> DEFINE N == {n \in Nat : \A s \in Seq(T) : Len(s) = n => s \in P}
<1>1. 0 \in N
  BY EmptySeq
<1>2. ASSUME NEW n \in Nat, n \in N
      PROVE  n + 1 \in N
  <2>1. SUFFICES ASSUME NEW s \in Seq(T), Len(s) = n + 1
                 PROVE  s \in P
    OBVIOUS
  <2>2. s # <<>>
    BY <2>1
  <2>3. PICK r \in Seq(T), t \in T : s = Append(r, t)
    BY <2>2, SequenceEmptyOrAppend
  <2>4. Len(r) = n
    BY <2>1, <2>3
  <2>5. r \in P
    BY <1>2, <2>4
  <2> QED
    BY <2>3, <2>5
<1>3. Nat \subseteq N
  <2> HIDE DEF N
  <2> QED
    BY <1>1, <1>2, InductionOnNat
<1>4. ASSUME NEW s \in Seq(T)
      PROVE  s \in P
  <2>1. Len(s) \in N
    BY <1>3
  <2> QED
    BY <2>1
<1> QED
  BY <1>4

-----------------------------------------------------------------------------
\* A scan under way: what there is after each element.
After(f, step, base, s) ==
    /\ f = [i \in 0 .. Len(s) |-> f[i]]
    /\ f[0] = base
    /\ \A i \in 1 .. Len(s) : f[i] = step[f[i - 1]][s[i]]

\* One element more continues a scan.
LEMMA AfterAppend ==
    ASSUME NEW S, NEW T, NEW step, NEW base, NEW s \in Seq(T), NEW t \in T,
           NEW f, After(f, step, base, s)
    PROVE  \E g : /\ After(g, step, base, Append(s, t))
                  /\ g[Len(s)] = f[Len(s)]
<1> DEFINE n == Len(s)
           u == Append(s, t)
           g == [i \in 0 .. n + 1 |-> IF i <= n THEN f[i] ELSE step[f[n]][t]]
<1>1. n \in Nat /\ Len(u) = n + 1 /\ u[n + 1] = t
  BY AppendProperties, LenProperties
<1>1a. \A i \in 1 .. n : u[i] = s[i]
  BY AppendProperties
<1>2. f[0] = base /\ \A i \in 1 .. n : f[i] = step[f[i - 1]][s[i]]
  BY DEF After
<1>3. g[n] = f[n] /\ g[0] = base
  BY <1>1, <1>2
<1> HIDE DEF u
<1>4. ASSUME NEW i \in 1 .. n + 1
      PROVE  g[i] = step[g[i - 1]][u[i]]
  <2>1. CASE i <= n
    <3>1. i \in 1 .. n
      BY <1>1, <2>1
    <3>2. g[i] = f[i] /\ g[i - 1] = f[i - 1]
      BY <1>1, <3>1
    <3> QED
      BY <1>1a, <1>2, <3>1, <3>2
  <2>2. CASE i = n + 1
    <3>1. g[i] = step[f[n]][t] /\ g[i - 1] = f[n]
      BY <1>1, <2>2
    <3> QED
      BY <1>1, <2>2, <3>1
  <2> QED
    BY <1>1, <2>1, <2>2
<1>5. g = [i \in 0 .. n + 1 |-> g[i]]
  OBVIOUS
<1> HIDE DEF g
<1>6. After(g, step, base, u)
  BY <1>1, <1>3, <1>4, <1>5 DEF After
<1> QED
  BY <1>3, <1>6 DEF u

\* Two scans that agree on the elements they have seen are in the same place.
LEMMA AfterUnique ==
    ASSUME NEW T, NEW step, NEW base, NEW s \in Seq(T), NEW f, NEW g,
           After(f, step, base, s), After(g, step, base, s)
    PROVE  f[Len(s)] = g[Len(s)]
<1> DEFINE n == Len(s)
           N == {i \in Nat : i <= n => f[i] = g[i]}
<1>1. n \in Nat
  BY LenProperties
<1>2. /\ f[0] = base /\ \A i \in 1 .. n : f[i] = step[f[i - 1]][s[i]]
      /\ g[0] = base /\ \A i \in 1 .. n : g[i] = step[g[i - 1]][s[i]]
  BY DEF After
<1>3. 0 \in N
  BY <1>2
<1>4. ASSUME NEW i \in Nat, i \in N
      PROVE  i + 1 \in N
  <2>1. SUFFICES ASSUME i + 1 <= n PROVE f[i + 1] = g[i + 1]
    OBVIOUS
  <2>2. i + 1 \in 1 .. n /\ (i + 1) - 1 = i /\ f[i] = g[i]
    BY <1>1, <1>4, <2>1
  <2> QED
    BY <1>2, <2>2
<1>5. Nat \subseteq N
  <2> HIDE DEF N
  <2> QED
    BY <1>3, <1>4, InductionOnNat
<1> QED
  BY <1>1, <1>5

\* There is a scan of every sequence.
LEMMA AfterExists ==
    ASSUME NEW T, NEW step, NEW base, NEW s \in Seq(T)
    PROVE  \E f : After(f, step, base, s)
<1> DEFINE P == {r \in Seq(T) : \E f : After(f, step, base, r)}
<1>1. <<>> \in P
  <2> DEFINE f == [i \in 0 .. 0 |-> base]
  <2>1. After(f, step, base, <<>>)
    <3>1. Len(<<>>) = 0
      OBVIOUS
    <3>2. \A i \in 0 .. 0 : i = 0
      OBVIOUS
    <3> QED
      BY <3>1, <3>2 DEF After
  <2> QED
    BY <2>1
<1>2. ASSUME NEW r \in Seq(T), NEW t \in T, r \in P
      PROVE  Append(r, t) \in P
  BY <1>2, AfterAppend, AppendProperties
<1>3. Seq(T) \subseteq P
  <2> HIDE DEF P
  <2> QED
    BY <1>1, <1>2, InductionOnSeq
<1> QED
  BY <1>3

\* What a scan ends in.
LEMMA ScanIs ==
    ASSUME NEW T, NEW step, NEW base, NEW s \in Seq(T),
           NEW f, After(f, step, base, s)
    PROVE  Scan(step, base, s) = f[Len(s)]
<1> DEFINE g == CHOOSE g : g = [i \in 0 .. Len(s) |->
                   IF i = 0 THEN base ELSE step[g[i - 1]][s[i]]]
<1>1. After(g, step, base, s)
  <2> DEFINE E(h) == h = [i \in 0 .. Len(s) |->
                            IF i = 0 THEN base ELSE step[h[i - 1]][s[i]]]
  <2>1. Len(s) \in Nat
    BY LenProperties
  <2>2. E(f)
    <3>1. \A i \in 0 .. Len(s) :
             f[i] = IF i = 0 THEN base ELSE step[f[i - 1]][s[i]]
      BY <2>1 DEF After
    <3> QED
      BY <3>1 DEF After
  <2>3. E(g)
    BY <2>2
  <2>4. g = [i \in 0 .. Len(s) |-> g[i]]
    <3> HIDE DEF g
    <3> QED
      BY <2>3
  <2>5. g[0] = base /\ \A i \in 1 .. Len(s) : g[i] = step[g[i - 1]][s[i]]
    <3> HIDE DEF g
    <3> QED
      BY <2>1, <2>3
  <2> QED
    BY <2>4, <2>5 DEF After
<1>0. Scan(step, base, s) = g[Len(s)]
  BY DEF Scan
<1> HIDE DEF g
<1> QED
  BY <1>0, <1>1, AfterUnique

\* A scan takes the elements one after the other.
LEMMA ScanAppend ==
    ASSUME NEW T, NEW step, NEW base, NEW s \in Seq(T), NEW t \in T
    PROVE  Scan(step, base, Append(s, t)) = step[Scan(step, base, s)][t]
<1>1. PICK f : After(f, step, base, s)
  BY AfterExists
<1>2. PICK g : After(g, step, base, Append(s, t)) /\ g[Len(s)] = f[Len(s)]
  BY <1>1, AfterAppend
<1>3. /\ Append(s, t) \in Seq(T)
      /\ Len(Append(s, t)) = Len(s) + 1
      /\ Append(s, t)[Len(s) + 1] = t
      /\ Len(s) \in Nat
  BY AppendProperties, LenProperties
<1>4. g[Len(s) + 1] = step[g[Len(s)]][t]
  <2> DEFINE u == Append(s, t)
  <2>1. \A i \in 1 .. Len(u) : g[i] = step[g[i - 1]][u[i]]
    BY <1>2 DEF After
  <2>2. Len(s) + 1 \in 1 .. Len(u) /\ (Len(s) + 1) - 1 = Len(s)
    BY <1>3
  <2> HIDE DEF u
  <2>3. g[Len(s) + 1] = step[g[Len(s)]][u[Len(s) + 1]]
    BY <2>1, <2>2
  <2> QED
    BY <1>3, <2>3 DEF u
<1>5. Scan(step, base, s) = f[Len(s)]
  BY <1>1, ScanIs
<1>6. Scan(step, base, Append(s, t)) = g[Len(Append(s, t))]
  <2>1. PICK u \in Seq(T) : u = Append(s, t)
    BY <1>3
  <2>2. After(g, step, base, u)
    BY <1>2, <2>1
  <2>3. Scan(step, base, u) = g[Len(u)]
    BY <2>2, ScanIs
  <2> QED
    BY <2>1, <2>3
<1> QED
  BY <1>2, <1>3, <1>4, <1>5, <1>6

\* Nothing has been scanned at first.
LEMMA ScanEmpty ==
    ASSUME NEW step, NEW base
    PROVE  Scan(step, base, <<>>) = base
<1>1. PICK e \in Seq({}) : e = <<>>
  BY EmptySeq
<1>2. PICK f : After(f, step, base, e)
  BY AfterExists
<1>3. Scan(step, base, e) = f[Len(e)]
  BY <1>2, ScanIs
<1>4. Len(e) = 0 /\ f[0] = base
  BY <1>1, <1>2 DEF After
<1> QED
  BY <1>1, <1>3, <1>4

\* What a scan ends in is of the type of its steps.
LEMMA ScanType ==
    ASSUME NEW S, NEW T, NEW step \in [S -> [T -> S]], NEW base \in S,
           NEW s \in Seq(T)
    PROVE  Scan(step, base, s) \in S
<1> DEFINE P == {r \in Seq(T) : Scan(step, base, r) \in S}
<1>1. <<>> \in P
  BY ScanEmpty
<1>2. ASSUME NEW r \in Seq(T), NEW t \in T, r \in P
      PROVE  Append(r, t) \in P
  BY <1>2, ScanAppend, AppendProperties
<1>3. Seq(T) \subseteq P
  <2> HIDE DEF P
  <2> QED
    BY <1>1, <1>2, InductionOnSeq
<1> QED
  BY <1>3

-----------------------------------------------------------------------------
(* The codec of the metadata, for texts of any length.                     *)

\* Appending to what is concatenated.
LEMMA ConcatAppend ==
    ASSUME NEW T, NEW u \in Seq(T), NEW s \in Seq(T), NEW t \in T
    PROVE  u \o Append(s, t) = Append(u \o s, t)
<1>1. <<t>> \in Seq(T)
  OBVIOUS
<1>2. Append(s, t) = s \o <<t>> /\ Append(u \o s, t) = (u \o s) \o <<t>>
  BY AppendIsConcat, ConcatProperties
<1> QED
  BY <1>1, <1>2, ConcatAssociative

\* Replacing the last element.
LEMMA LastReplaced ==
    ASSUME NEW T, NEW s \in Seq(T), NEW old \in T, NEW new \in T
    PROVE  [Append(s, old) EXCEPT ![Len(Append(s, old))] = new] = Append(s, new)
<1> DEFINE n == Len(s)
           a == Append(s, old)
           b == Append(s, new)
           c == [a EXCEPT ![n + 1] = new]
<1>1. /\ a \in Seq(T) /\ Len(a) = n + 1 /\ n \in Nat
      /\ \A i \in 1 .. n : a[i] = s[i]
  BY AppendProperties, LenProperties
<1>2. /\ b \in Seq(T) /\ Len(b) = n + 1 /\ b[n + 1] = new
      /\ \A i \in 1 .. n : b[i] = s[i]
  BY AppendProperties
<1> HIDE DEF a
<1>3. /\ c \in Seq(T) /\ Len(c) = n + 1
      /\ \A i \in 1 .. n + 1 : c[i] = IF i = n + 1 THEN new ELSE a[i]
  <2>1. n + 1 \in 1 .. Len(a)
    BY <1>1
  <2> QED
    BY <1>1, <2>1, ExceptSeq
<1> HIDE DEF b, c
<1>4. \A i \in 1 .. n + 1 : c[i] = b[i]
  BY <1>1, <1>2, <1>3
<1>5. c = b
  BY <1>2, <1>3, <1>4, SeqEqual
<1> QED
  BY <1>1, <1>5 DEF a, b, c

\* The tokens of an appended and of a concatenated text.
LEMMA TokensOf ==
    /\ ToSet(<<>>) = {}
    /\ \A T : \A s \in Seq(T), t \in T : ToSet(Append(s, t)) = ToSet(s) \cup {t}
    /\ \A T : \A s, r \in Seq(T) : ToSet(s \o r) = ToSet(s) \cup ToSet(r)
    /\ \A T : \A s \in Seq(T) : ToSet(s) \subseteq T
<1>1. ToSet(<<>>) = {}
  BY DEF ToSet
<1>2. ASSUME NEW T, NEW s \in Seq(T), NEW r \in Seq(T)
      PROVE  ToSet(s \o r) = ToSet(s) \cup ToSet(r)
  <2>1. /\ DOMAIN (s \o r) = 1 .. Len(s) + Len(r)
        /\ DOMAIN s = 1 .. Len(s) /\ DOMAIN r = 1 .. Len(r)
        /\ Len(s) \in Nat /\ Len(r) \in Nat
    BY ConcatProperties, LenProperties
  <2>2. \A i \in 1 .. Len(s) + Len(r) :
           (s \o r)[i] = IF i <= Len(s) THEN s[i] ELSE r[i - Len(s)]
    BY ConcatProperties
  <2>3. ToSet(s \o r) \subseteq ToSet(s) \cup ToSet(r)
    BY <2>1, <2>2 DEF ToSet
  <2>4. ASSUME NEW i \in 1 .. Len(s)
        PROVE  s[i] \in ToSet(s \o r)
    BY <2>1, <2>2 DEF ToSet
  <2>5. ASSUME NEW i \in 1 .. Len(r)
        PROVE  r[i] \in ToSet(s \o r)
    <3>1. Len(s) + i \in 1 .. Len(s) + Len(r) /\ (s \o r)[Len(s) + i] = r[i]
      BY <2>1, <2>2
    <3> QED
      BY <2>1, <3>1 DEF ToSet
  <2> QED
    BY <2>1, <2>3, <2>4, <2>5 DEF ToSet
<1>3. ASSUME NEW T, NEW s \in Seq(T), NEW t \in T
      PROVE  ToSet(Append(s, t)) = ToSet(s) \cup {t}
  <2>1. ToSet(<<t>>) = {t}
    BY DEF ToSet
  <2>0. <<t>> \in Seq(T)
    OBVIOUS
  <2>2. PICK r \in Seq(T) : r = <<t>>
    BY <2>0, Zenon
  <2>3. Append(s, t) = s \o r
    BY <2>2, AppendIsConcat
  <2>4. ToSet(s \o r) = ToSet(s) \cup ToSet(r)
    BY <1>2
  <2> QED
    BY <2>1, <2>2, <2>3, <2>4
<1>4. \A T : \A s \in Seq(T) : ToSet(s) \subseteq T
  BY LenProperties DEF ToSet
<1> QED
  BY <1>1, <1>2, <1>3, <1>4

-----------------------------------------------------------------------------
\* What a token is written as.
Escaped(t) == IF t \in escaped THEN <<"backslash", t>> ELSE <<t>>

\* A token is written as a text.
LEMMA EscapedIsText == \A t \in Tokens : Escaped(t) \in Text
<1>1. ASSUME NEW t \in Tokens
      PROVE  <<t>> \in Seq(Tokens) /\ <<"backslash", t>> \in Seq(Tokens)
  <2>1. "backslash" \in Tokens
    BY DEF Tokens
  <2> QED
    BY <2>1
<1> QED
  BY <1>1 DEF Escaped, Text

\* A text is escaped token by token.
LEMMA Escapes ==
    /\ escapeHstoreValue(<<>>) = <<>>
    /\ \A s \in Text : escapeHstoreValue(s) \in Text
    /\ \A s \in Text, t \in Tokens :
          escapeHstoreValue(Append(s, t)) = escapeHstoreValue(s) \o Escaped(t)
<1> DEFINE step == [text \in Text |-> [t \in Tokens |-> text \o Escaped(t)]]
<1>1. \A s : escapeHstoreValue(s) = Scan(step, <<>>, s)
  BY DEF escapeHstoreValue, Escaped
<1>2. step \in [Text -> [Tokens -> Text]]
  BY EscapedIsText, ConcatProperties DEF Text
<1>3. \A text \in Text, t \in Tokens : step[text][t] = text \o Escaped(t)
  OBVIOUS
<1>4. <<>> \in Text
  BY EmptySeq DEF Text
<1> HIDE DEF step
<1>5. \A s \in Text : Scan(step, <<>>, s) \in Text
  BY <1>2, <1>4, ScanType DEF Text
<1>6. \A s \in Text, t \in Tokens :
         Scan(step, <<>>, Append(s, t)) = step[Scan(step, <<>>, s)][t]
  BY ScanAppend DEF Text
<1> QED
  BY <1>1, <1>3, <1>5, <1>6, ScanEmpty

\* A text without quotes and backslashes is written as it is.
LEMMA PlainIsKept ==
    ASSUME NEW s \in Text, ToSet(s) \cap escaped = {}
    PROVE  escapeHstoreValue(s) = s
<1> DEFINE P == {r \in Text : ToSet(r) \cap escaped = {} => escapeHstoreValue(r) = r}
<1>1. <<>> \in P
  BY Escapes, EmptySeq DEF Text
<1>2. ASSUME NEW r \in Text, NEW t \in Tokens, r \in P
      PROVE  Append(r, t) \in P
  <2>1. SUFFICES ASSUME ToSet(Append(r, t)) \cap escaped = {}
                 PROVE  escapeHstoreValue(Append(r, t)) = Append(r, t)
    BY AppendProperties DEF Text
  <2>2. ToSet(r) \cap escaped = {} /\ t \notin escaped
    BY <2>1, TokensOf DEF Text
  <2>3. escapeHstoreValue(Append(r, t)) = r \o <<t>>
    BY <1>2, <2>2, Escapes DEF Escaped
  <2> QED
    BY <2>3, AppendIsConcat DEF Text
<1>3. Text \subseteq P
  <2> HIDE DEF P
  <2> QED
    BY <1>1, <1>2, InductionOnSeq DEF Text
<1> QED
  BY <1>3

\* Escaping adds backslashes, one for each quote and each backslash.
LEMMA EscapedTokens ==
    ASSUME NEW s \in Text
    PROVE  ToSet(escapeHstoreValue(s)) \cup {"backslash"}
               = ToSet(s) \cup {"backslash"}
<1> DEFINE E(r) == ToSet(escapeHstoreValue(r)) \cup {"backslash"}
           P == {r \in Text : E(r) = ToSet(r) \cup {"backslash"}}
<1>1. <<>> \in P
  BY Escapes, EmptySeq, TokensOf DEF Text
<1>2. ASSUME NEW r \in Text, NEW t \in Tokens, r \in P
      PROVE  Append(r, t) \in P
  <2>1. ToSet(Escaped(t)) \cup {"backslash"} = {t, "backslash"}
    BY DEF Escaped, ToSet
  <2>2. ToSet(escapeHstoreValue(Append(r, t)))
            = ToSet(escapeHstoreValue(r)) \cup ToSet(Escaped(t))
    <3>1. escapeHstoreValue(Append(r, t)) = escapeHstoreValue(r) \o Escaped(t)
      BY Escapes
    <3>2. /\ escapeHstoreValue(r) \in Seq(Tokens)
          /\ Escaped(t) \in Seq(Tokens)
      BY Escapes, EscapedIsText DEF Text
    <3> QED
      BY <3>1, <3>2, TokensOf
  <2>3. ToSet(Append(r, t)) = ToSet(r) \cup {t}
    BY TokensOf DEF Text
  <2>4. Append(r, t) \in Text
    BY AppendProperties DEF Text
  <2> QED
    BY <1>2, <2>1, <2>2, <2>3, <2>4
<1>3. Text \subseteq P
  <2> HIDE DEF P
  <2> QED
    BY <1>1, <1>2, InductionOnSeq DEF Text
<1> QED
  BY <1>3

\* ... so that a text with any of them is written as a longer one.
LEMMA EscapedLength ==
    ASSUME NEW s \in Text
    PROVE  /\ Len(escapeHstoreValue(s)) >= Len(s)
           /\ ToSet(s) \cap escaped # {} => Len(escapeHstoreValue(s)) > Len(s)
<1> DEFINE P == {r \in Text :
                    /\ Len(escapeHstoreValue(r)) >= Len(r)
                    /\ ToSet(r) \cap escaped # {} =>
                          Len(escapeHstoreValue(r)) > Len(r)}
<1>1. <<>> \in P
  BY Escapes, EmptySeq, TokensOf DEF Text
<1>2. ASSUME NEW r \in Text, NEW t \in Tokens, r \in P
      PROVE  Append(r, t) \in P
  <2>1. Len(Escaped(t)) = IF t \in escaped THEN 2 ELSE 1
    BY DEF Escaped
  <2>2. Len(escapeHstoreValue(Append(r, t)))
            = Len(escapeHstoreValue(r)) + Len(Escaped(t))
    BY Escapes, EscapedIsText, ConcatProperties DEF Text
  <2>3. ToSet(Append(r, t)) = ToSet(r) \cup {t}
    BY TokensOf DEF Text
  <2>4. Append(r, t) \in Text /\ Len(Append(r, t)) = Len(r) + 1
    BY AppendProperties DEF Text
  <2>5. Len(r) \in Nat /\ Len(escapeHstoreValue(r)) \in Nat
    BY Escapes, LenProperties DEF Text
  <2> QED
    BY <1>2, <2>1, <2>2, <2>3, <2>4, <2>5
<1>3. Text \subseteq P
  <2> HIDE DEF P
  <2> QED
    BY <1>1, <1>2, InductionOnSeq DEF Text
<1> QED
  BY <1>3

\* An escaped text never begins with a quote, but as the text does if that is
\* not with a character that is escaped, and ends as the text does.
LEMMA EscapedEnds ==
    ASSUME NEW s \in Text, s # <<>>
    PROVE  LET e == escapeHstoreValue(s)
           IN  /\ e # <<>> /\ e[1] # "quote" /\ e[Len(e)] = s[Len(s)]
               /\ s[1] \notin escaped => e[1] = s[1]
<1> DEFINE E(r) == escapeHstoreValue(r)
           P == {r \in Text : r # <<>> => /\ E(r) # <<>> /\ E(r)[1] # "quote"
                                          /\ E(r)[Len(E(r))] = r[Len(r)]
                                          /\ r[1] \notin escaped => E(r)[1] = r[1]}
<1>1. <<>> \in P
  BY EmptySeq DEF Text
<1>2. ASSUME NEW r \in Text, NEW t \in Tokens, r \in P
      PROVE  Append(r, t) \in P
  <2>1. /\ Len(Escaped(t)) \in {1, 2} /\ Escaped(t)[Len(Escaped(t))] = t
        /\ Escaped(t)[1] # "quote"
        /\ t \notin escaped => Escaped(t)[1] = t
        /\ Escaped(t) \in Text
    BY EscapedIsText DEF Escaped, escaped
  <2>2. PICK u \in Text : /\ u = Append(r, t) /\ u[Len(u)] = t
                          /\ r = <<>> => u[1] = t
                          /\ r # <<>> => u[1] = r[1]
    <3>1. /\ Append(r, t) \in Text /\ Len(Append(r, t)) = Len(r) + 1
          /\ \A i \in 1 .. Len(r) : Append(r, t)[i] = r[i]
          /\ Append(r, t)[Len(r) + 1] = t
      BY AppendProperties DEF Text
    <3>2. Len(r) \in Nat /\ (r = <<>> <=> Len(r) = 0)
      BY LenProperties, EmptySeq DEF Text
    <3>3. r = <<>> => Append(r, t)[1] = t
      BY <3>1, <3>2
    <3>4. r # <<>> => Append(r, t)[1] = r[1]
      BY <3>1, <3>2
    <3> QED
      BY <3>1, <3>3, <3>4
  <2>3. E(u) = E(r) \o Escaped(t) /\ E(r) \in Text
    BY <2>2, Escapes
  <2>4. r = <<>> => E(r) = <<>>
    BY Escapes
  <2>5. r # <<>> => /\ E(r) # <<>> /\ E(r)[1] # "quote"
                    /\ r[1] \notin escaped => E(r)[1] = r[1]
    BY <1>2
  <2> HIDE DEF E
  <2>6. /\ Len(E(r) \o Escaped(t)) = Len(E(r)) + Len(Escaped(t))
        /\ \A i \in 1 .. Len(E(r)) + Len(Escaped(t)) :
              (E(r) \o Escaped(t))[i] = IF i <= Len(E(r)) THEN E(r)[i]
                                        ELSE Escaped(t)[i - Len(E(r))]
    BY <2>1, <2>3, ConcatProperties DEF Text
  <2>7. Len(E(r)) \in Nat /\ (E(r) # <<>> => Len(E(r)) > 0)
    BY <2>3, EmptySeq, LenProperties DEF Text
  <2>8. E(u)[Len(E(u))] = t
    BY <2>1, <2>3, <2>6, <2>7
  <2>9. Len(E(u)) > 0 /\ E(u)[1] # "quote"
    BY <2>1, <2>3, <2>4, <2>5, <2>6, <2>7
  <2>10. E(u) # <<>>
    BY <2>9
  <2>11. u[1] \notin escaped => E(u)[1] = u[1]
    <3>1. CASE r = <<>>
      <4>1. Len(E(r)) = 0
        BY <2>4, <3>1
      <4>2. E(u)[1] = Escaped(t)[1]
        BY <2>1, <2>3, <2>6, <4>1
      <4> QED
        BY <2>1, <2>2, <3>1, <4>2
    <3>2. CASE r # <<>>
      <4>1. E(u)[1] = E(r)[1]
        BY <2>1, <2>3, <2>5, <2>6, <2>7, <3>2
      <4> QED
        BY <2>2, <2>5, <3>2, <4>1
    <3> QED
      BY <3>1, <3>2
  <2> QED
    BY <2>2, <2>8, <2>9, <2>10, <2>11
<1>3. Text \subseteq P
  <2> HIDE DEF P
  <2> QED
    BY <1>1, <1>2, InductionOnSeq DEF Text
<1> QED
  BY <1>3

-----------------------------------------------------------------------------
\* The parts after one token more.
PartsWith(parts, t, separator) ==
    IF t = separator THEN Append(parts, <<>>)
                     ELSE [parts EXCEPT ![Len(parts)] = Append(@, t)]

\* ... which are texts again, and still at least one.
LEMMA PartsAreTexts ==
    ASSUME NEW parts \in Seq(Text), NEW t \in Tokens, NEW separator
    PROVE  /\ PartsWith(parts, t, separator) \in Seq(Text)
           /\ parts # <<>> => PartsWith(parts, t, separator) # <<>>
<1>1. <<>> \in Text
  BY EmptySeq DEF Text
<1>2. CASE t = separator
  <2>1. PartsWith(parts, t, separator) = Append(parts, <<>>)
    BY <1>2 DEF PartsWith
  <2> QED
    BY <1>1, <2>1, AppendProperties
<1>3. CASE t # separator
  <2> DEFINE n == Len(parts)
  <2>1. PartsWith(parts, t, separator) = [parts EXCEPT ![n] = Append(parts[n], t)]
    BY <1>3 DEF PartsWith
  <2>2. CASE parts = <<>>
    <3>1. n = 0 /\ DOMAIN parts = {}
      BY <2>2
    <3>2. [parts EXCEPT ![n] = Append(parts[n], t)] = parts
      BY <3>1, <2>2
    <3> QED
      BY <2>1, <2>2, <3>2
  <2>3. CASE parts # <<>>
    <3>1. n \in 1 .. n
      BY <2>3, EmptySeq, LenProperties
    <3>2. Append(parts[n], t) \in Text
      <4>1. parts[n] \in Seq(Tokens)
        BY <3>1, ElementOfSeq DEF Text
      <4> QED
        BY <4>1, AppendProperties DEF Text
    <3>3. /\ [parts EXCEPT ![n] = Append(parts[n], t)] \in Seq(Text)
          /\ Len([parts EXCEPT ![n] = Append(parts[n], t)]) = n
      BY <3>1, <3>2, ExceptSeq
    <3> HIDE DEF n
    <3> QED
      BY <2>1, <3>1, <3>3
  <2> QED
    BY <2>2, <2>3
<1> QED
  BY <1>2, <1>3

\* A text is split token by token.
LEMMA SplitTokens ==
    ASSUME NEW sep
    PROVE  /\ Split(<<>>, sep) = <<<<>>>>
           /\ \A s \in Text : Split(s, sep) \in Seq(Text) \ {<<>>}
           /\ \A s \in Text, t \in Tokens :
                 Split(Append(s, t), sep) = PartsWith(Split(s, sep), t, sep)
<1> DEFINE step == [parts \in Seq(Text) |-> [t \in Tokens |->
                        PartsWith(parts, t, sep)]]
           Some == Seq(Text) \ {<<>>}
<1>1. \A s : Split(s, sep) = Scan(step, <<<<>>>>, s)
  BY DEF Split, PartsWith
<1>2. <<<<>>>> \in Seq(Text) \ {<<>>}
  <2>1. <<>> \in Text
    BY EmptySeq DEF Text
  <2>2. <<<<>>>> \in Seq(Text)
    BY <2>1
  <2> QED
    BY <2>2
<1>3. \A parts \in Seq(Text), t \in Tokens :
         step[parts][t] = PartsWith(parts, t, sep)
  OBVIOUS
<1> HIDE DEF step
<1>4. \A s \in Text, t \in Tokens :
         Scan(step, <<<<>>>>, Append(s, t)) = step[Scan(step, <<<<>>>>, s)][t]
  BY ScanAppend DEF Text
<1> DEFINE P == {s \in Text : Split(s, sep) \in Some}
<1>5. <<>> \in P
  BY <1>1, <1>2, ScanEmpty, EmptySeq DEF Text
<1>6. ASSUME NEW s \in Text, NEW t \in Tokens, s \in P
      PROVE  Append(s, t) \in P
  <2>1. Split(Append(s, t), sep) = PartsWith(Split(s, sep), t, sep)
    BY <1>1, <1>3, <1>4, <1>6
  <2>2. PartsWith(Split(s, sep), t, sep) \in Some
    BY <1>6, PartsAreTexts
  <2>3. Append(s, t) \in Text
    BY AppendProperties DEF Text
  <2> QED
    BY <2>1, <2>2, <2>3
<1>7. Text \subseteq P
  <2> HIDE DEF P
  <2> QED
    BY <1>5, <1>6, InductionOnSeq DEF Text
<1> QED
  BY <1>1, <1>3, <1>4, <1>7, ScanEmpty

\* A text without the separator is one part.
LEMMA OnePart ==
    ASSUME NEW s \in Text, NEW sep, sep \notin ToSet(s)
    PROVE  Split(s, sep) = <<s>>
<1> DEFINE P == {r \in Text : sep \notin ToSet(r) => Split(r, sep) = <<r>>}
<1>1. <<>> \in P
  BY SplitTokens, EmptySeq DEF Text
<1>2. ASSUME NEW r \in Text, NEW t \in Tokens, r \in P
      PROVE  Append(r, t) \in P
  <2>1. Append(r, t) \in Text
    BY AppendProperties DEF Text
  <2>2. SUFFICES ASSUME sep \notin ToSet(Append(r, t))
                 PROVE  Split(Append(r, t), sep) = <<Append(r, t)>>
    BY <2>1
  <2>3. sep \notin ToSet(r) /\ t # sep
    BY <2>2, TokensOf DEF Text
  <2>4. Split(r, sep) = <<r>>
    BY <1>2, <2>3
  <2>5. PartsWith(<<r>>, t, sep) = <<Append(r, t)>>
    BY <2>3 DEF PartsWith
  <2> QED
    BY <2>4, <2>5, SplitTokens
<1>3. Text \subseteq P
  <2> HIDE DEF P
  <2> QED
    BY <1>1, <1>2, InductionOnSeq DEF Text
<1> QED
  BY <1>3

\* What follows the last separator is the last part.
LEMMA LastPart ==
    ASSUME NEW z \in Text, NEW sep \in Tokens,
           NEW s \in Text, sep \notin ToSet(s)
    PROVE  Split(z \o <<sep>> \o s, sep) = Append(Split(z, sep), s)
<1> DEFINE y == z \o <<sep>>
           parts == Split(z, sep)
           P == {r \in Text : sep \notin ToSet(r) =>
                     Split(y \o r, sep) = Append(parts, r)}
<1>0. /\ y \in Text /\ y = Append(z, sep)
      /\ parts \in Seq(Text)
  <2>1. y = Append(z, sep)
    BY AppendIsConcat DEF Text
  <2>2. Append(z, sep) \in Text
    BY AppendProperties DEF Text
  <2>3. parts \in Seq(Text)
    BY SplitTokens
  <2> QED
    BY <2>1, <2>2, <2>3
<1>0a. Split(y, sep) = Append(parts, <<>>)
  BY <1>0, SplitTokens DEF PartsWith
<1> HIDE DEF y, parts
<1>1. <<>> \in P
  <2>1. y \o <<>> = y /\ <<>> \in Text
    BY <1>0, EmptySeq, ConcatEmptySeq DEF Text
  <2> QED
    BY <1>0a, <2>1
<1>2. ASSUME NEW r \in Text, NEW t \in Tokens, r \in P
      PROVE  Append(r, t) \in P
  <2>1. Append(r, t) \in Text
    BY AppendProperties DEF Text
  <2>2. SUFFICES ASSUME sep \notin ToSet(Append(r, t))
                 PROVE  Split(y \o Append(r, t), sep) = Append(parts, Append(r, t))
    BY <2>1
  <2>3. sep \notin ToSet(r) /\ t # sep
    BY <2>2, TokensOf DEF Text
  <2>4. Split(y \o r, sep) = Append(parts, r)
    BY <1>2, <2>3
  <2>5. PartsWith(Append(parts, r), t, sep) = Append(parts, Append(r, t))
    <3>1. PICK more : more = Append(parts, r)
      OBVIOUS
    <3>2. more[Len(more)] = r
      BY <1>0, <3>1, AppendProperties
    <3>3. PartsWith(more, t, sep) = [more EXCEPT ![Len(more)] = Append(r, t)]
      BY <2>3, <3>2 DEF PartsWith
    <3>4. PICK new \in Text : new = Append(r, t)
      BY <2>1
    <3>5. [more EXCEPT ![Len(more)] = new] = Append(parts, new)
      BY <1>0, <3>1, LastReplaced
    <3> QED
      BY <3>1, <3>3, <3>4, <3>5
  <2>6. y \o Append(r, t) = Append(y \o r, t) /\ y \o r \in Text
    BY <1>0, ConcatAppend, ConcatProperties DEF Text
  <2>7. Split(Append(y \o r, t), sep) = PartsWith(Split(y \o r, sep), t, sep)
    BY <2>6, SplitTokens
  <2> QED
    BY <2>4, <2>5, <2>6, <2>7
<1>3. Text \subseteq P
  <2> HIDE DEF P
  <2> QED
    BY <1>1, <1>2, InductionOnSeq DEF Text
<1> QED
  BY <1>3 DEF y, parts

\* What precedes the first separator is the first part.
LEMMA FirstPart ==
    ASSUME NEW x \in Text, NEW sep \in Tokens, sep \notin ToSet(x),
           NEW s \in Text
    PROVE  LET parts == Split(x \o <<sep>> \o s, sep)
           IN  Len(parts) >= 2 /\ parts[1] = x
<1> DEFINE y == x \o <<sep>>
           S(r) == Split(y \o r, sep)
           P == {r \in Text : Len(S(r)) >= 2 /\ S(r)[1] = x}
<1>0. y \in Text /\ y = Append(x, sep)
  <2>1. y = Append(x, sep)
    BY AppendIsConcat DEF Text
  <2>2. Append(x, sep) \in Text
    BY AppendProperties DEF Text
  <2> QED
    BY <2>1, <2>2
<1>0a. Len(Split(y, sep)) >= 2 /\ Split(y, sep)[1] = x
  <2>1. /\ Split(x, sep) \in Seq(Text)
        /\ Len(Split(x, sep)) = 1 /\ Split(x, sep)[1] = x
    <3>1. Split(x, sep) = <<x>>
      BY OnePart
    <3>2. Split(x, sep) \in Seq(Text)
      BY SplitTokens
    <3> QED
      BY <3>1, <3>2
  <2>2. Split(y, sep) = PartsWith(Split(x, sep), sep, sep)
    BY <1>0, SplitTokens
  <2>3. PartsWith(Split(x, sep), sep, sep) = Append(Split(x, sep), <<>>)
    BY DEF PartsWith
  <2>4. <<>> \in Text
    BY EmptySeq DEF Text
  <2> QED
    BY <2>1, <2>2, <2>3, <2>4, AppendProperties
<1> HIDE DEF y
<1>1. <<>> \in P
  <2>1. y \o <<>> = y /\ <<>> \in Text
    BY <1>0, EmptySeq, ConcatEmptySeq DEF Text
  <2> QED
    BY <1>0a, <2>1
<1>2. ASSUME NEW r \in Text, NEW t \in Tokens, r \in P
      PROVE  Append(r, t) \in P
  <2>1. Append(r, t) \in Text
    BY AppendProperties DEF Text
  <2>2. y \o Append(r, t) = Append(y \o r, t) /\ y \o r \in Text
    BY <1>0, ConcatAppend, ConcatProperties DEF Text
  <2>3. /\ S(Append(r, t)) = PartsWith(S(r), t, sep)
        /\ S(r) \in Seq(Text)
    BY <2>2, SplitTokens
  <2>4. Len(S(r)) >= 2 /\ S(r)[1] = x
    BY <1>2
  <2> HIDE DEF S
  <2> DEFINE n == Len(S(r))
  <2>5. n \in Nat /\ n >= 2
    BY <2>3, <2>4, LenProperties
  <2>6. CASE t = sep
    <3>1. PartsWith(S(r), t, sep) = Append(S(r), <<>>)
      BY <2>6 DEF PartsWith
    <3>2. <<>> \in Text
      BY EmptySeq DEF Text
    <3>3. /\ Len(Append(S(r), <<>>)) = n + 1
          /\ Append(S(r), <<>>)[1] = S(r)[1]
      BY <2>3, <2>5, <3>2, AppendProperties
    <3> QED
      BY <2>1, <2>3, <2>4, <2>5, <3>1, <3>3
  <2>7. CASE t # sep
    <3>1. PartsWith(S(r), t, sep) = [S(r) EXCEPT ![n] = Append(S(r)[n], t)]
      BY <2>7 DEF PartsWith
    <3>2. S(r)[n] \in Seq(Tokens) /\ n \in 1 .. Len(S(r))
      BY <2>3, <2>5, ElementOfSeq DEF Text
    <3>3. Append(S(r)[n], t) \in Text
      BY <3>2, AppendProperties DEF Text
    <3>4. /\ Len([S(r) EXCEPT ![n] = Append(S(r)[n], t)]) = n
          /\ [S(r) EXCEPT ![n] = Append(S(r)[n], t)][1] = S(r)[1]
      BY <2>3, <2>5, <3>2, <3>3, ExceptSeq
    <3> QED
      BY <2>1, <2>3, <2>4, <2>5, <3>1, <3>4
  <2> QED
    BY <2>6, <2>7
<1>3. Text \subseteq P
  <2> HIDE DEF P
  <2> QED
    BY <1>1, <1>2, InductionOnSeq DEF Text
<1> QED
  BY <1>3 DEF y

\* No part has the separator in it, nor a token that the text has not.
LEMMA PartsOfText ==
    ASSUME NEW s \in Text, NEW sep, NEW i \in DOMAIN Split(s, sep)
    PROVE  ToSet(Split(s, sep)[i]) \subseteq ToSet(s) \ {sep}
<1> DEFINE P == {r \in Text : \A j \in DOMAIN Split(r, sep) :
                     ToSet(Split(r, sep)[j]) \subseteq ToSet(r) \ {sep}}
<1>1. <<>> \in P
  <2>1. <<>> \in Text
    BY EmptySeq DEF Text
  <2>2. \A j \in DOMAIN <<<<>>>> : <<<<>>>>[j] = <<>>
    OBVIOUS
  <2> QED
    BY <2>1, <2>2, SplitTokens, TokensOf
<1>2. ASSUME NEW r \in Text, NEW t \in Tokens, r \in P
      PROVE  Append(r, t) \in P
  <2> DEFINE parts == Split(r, sep)
             n == Len(parts)
             more == Split(Append(r, t), sep)
  <2>1. /\ Append(r, t) \in Text
        /\ ToSet(Append(r, t)) = ToSet(r) \cup {t}
    BY AppendProperties, TokensOf DEF Text
  <2>2. /\ more = PartsWith(parts, t, sep)
        /\ parts \in Seq(Text) /\ parts # <<>>
    BY SplitTokens
  <2>3. \A j \in DOMAIN parts : ToSet(parts[j]) \subseteq ToSet(r) \ {sep}
    BY <1>2
  <2> HIDE DEF parts, more
  <2>4. n \in Nat /\ n >= 1 /\ DOMAIN parts = 1 .. n
    BY <2>2, LenProperties, EmptySeq
  <2>5. ASSUME NEW j \in DOMAIN more
        PROVE  ToSet(more[j]) \subseteq ToSet(Append(r, t)) \ {sep}
    <3>1. CASE t = sep
      <4>1. more = Append(parts, <<>>)
        BY <2>2, <3>1 DEF PartsWith
      <4>2. <<>> \in Text
        BY EmptySeq DEF Text
      <4>3. /\ Len(Append(parts, <<>>)) = n + 1
            /\ \A k \in 1 .. n : Append(parts, <<>>)[k] = parts[k]
            /\ Append(parts, <<>>)[n + 1] = <<>>
            /\ Append(parts, <<>>) \in Seq(Text)
        BY <2>2, <4>2, AppendProperties
      <4>4. j \in 1 .. n + 1
        BY <4>1, <4>3, LenProperties
      <4>5. more[j] = IF j = n + 1 THEN <<>> ELSE parts[j]
        BY <2>4, <4>1, <4>3, <4>4
      <4> QED
        BY <2>1, <2>3, <2>4, <4>4, <4>5, TokensOf
    <3>2. CASE t # sep
      <4>1. more = [parts EXCEPT ![n] = Append(parts[n], t)]
        BY <2>2, <3>2 DEF PartsWith
      <4>2. j \in 1 .. n
        BY <2>4, <4>1
      <4>3. more[j] = IF j = n THEN Append(parts[n], t) ELSE parts[j]
        BY <2>4, <4>1, <4>2
      <4>4. parts[n] \in Seq(Tokens)
        BY <2>2, <2>4, ElementOfSeq DEF Text
      <4>5. ToSet(Append(parts[n], t)) = ToSet(parts[n]) \cup {t}
        BY <4>4, TokensOf
      <4> QED
        BY <2>1, <2>3, <2>4, <3>2, <4>2, <4>3, <4>5
    <3> QED
      BY <3>1, <3>2
  <2> QED
    BY <2>1, <2>5 DEF more
<1>3. Text \subseteq P
  <2> HIDE DEF P
  <2> QED
    BY <1>1, <1>2, InductionOnSeq DEF Text
<1> QED
  BY <1>3

-----------------------------------------------------------------------------
(* What Trim takes from the ends of a text.                                 *)

\* A set of positions has a first and a last one.
LEMMA MinAndMax ==
    ASSUME NEW n \in Nat, NEW S \in SUBSET (1 .. n), S # {}
    PROVE  /\ Min(S) \in S /\ Max(S) \in S
           /\ \A i \in S : Min(S) <= i /\ i <= Max(S)
<1>0. S \subseteq Nat
  OBVIOUS
<1>1. \E i \in S : \A j \in S : i <= j
  <2>1. PICK i \in S : \A j \in S : ~(<<j, i>> \in OpToRel(<, Nat))
    BY <1>0, NatLessThanWellFounded, WFMin, Zenon
  <2>2. \A j \in S : ~(j < i)
    BY <1>0, <2>1 DEF OpToRel
  <2> QED
    BY <1>0, <2>2
<1>2. \E i \in S : \A j \in S : i >= j
  <2> DEFINE R == {n - i : i \in S}
  <2>1. R \subseteq Nat /\ R # {}
    <3>1. \A i \in S : n - i \in Nat
      OBVIOUS
    <3>2. PICK i \in S : TRUE
      OBVIOUS
    <3> QED
      BY <3>1, <3>2
  <2>2. PICK r \in R : \A j \in R : ~(<<j, r>> \in OpToRel(<, Nat))
    BY <2>1, NatLessThanWellFounded, WFMin, Zenon
  <2>3. \A j \in R : ~(j < r)
    BY <2>1, <2>2 DEF OpToRel
  <2>4. PICK i \in S : r = n - i
    OBVIOUS
  <2>5. \A j \in S : ~(n - j < n - i)
    BY <2>3, <2>4
  <2> QED
    BY <1>0, <2>5
<1>3. Min(S) \in S /\ \A j \in S : Min(S) <= j
  BY <1>1 DEF Min
<1>4. Max(S) \in S /\ \A j \in S : Max(S) >= j
  BY <1>2 DEF Max
<1> QED
  BY <1>0, <1>3, <1>4

\* What is left when the quotes are trimmed.
LEMMA Trimmed ==
    ASSUME NEW s \in Text
    PROVE  /\ Trim(s) \in Text
           /\ ToSet(Trim(s)) \subseteq ToSet(s)
           /\ Trim(s) # <<>> => /\ Trim(s)[1] # "quote"
                                /\ Trim(s)[Len(Trim(s))] # "quote"
<1> DEFINE kept == {i \in DOMAIN s : s[i] # "quote"}
           a == Min(kept)
           b == Max(kept)
<1>1. /\ Len(s) \in Nat /\ DOMAIN s = 1 .. Len(s)
      /\ \A i \in 1 .. Len(s) : s[i] \in Tokens
  BY LenProperties DEF Text
<1>2. CASE kept = {}
  <2>1. Trim(s) = <<>>
    BY <1>2 DEF Trim
  <2> QED
    BY <2>1, EmptySeq, TokensOf DEF Text
<1>3. CASE kept # {}
  <2>1. Trim(s) = SubSeq(s, a, b)
    BY <1>3 DEF Trim
  <2>2. kept \in SUBSET (1 .. Len(s))
    BY <1>1
  <2>3. a \in kept /\ b \in kept /\ a <= b
    <3> HIDE DEF kept
    <3> QED
      BY <1>1, <1>3, <2>2, MinAndMax
  <2>4. /\ a \in 1 .. Len(s) /\ b \in 1 .. Len(s) /\ a <= b
        /\ s[a] # "quote" /\ s[b] # "quote"
    BY <1>1, <2>3
  <2> HIDE DEF a, b, kept
  <2>5. /\ SubSeq(s, a, b) \in Seq(Tokens)
        /\ Len(SubSeq(s, a, b)) = b - a + 1
        /\ \A i \in 1 .. b - a + 1 : SubSeq(s, a, b)[i] = s[a + i - 1]
    <3>1. a \in Int /\ b \in Int /\ \A i \in a .. b : s[i] \in Tokens
      BY <1>1, <2>4
    <3> QED
      BY <2>4, <3>1, SubSeqProperties
  <2> DEFINE u == SubSeq(s, a, b)
  <2> HIDE DEF u
  <2>6. /\ u \in Seq(Tokens) /\ Len(u) = b - a + 1
        /\ \A i \in 1 .. b - a + 1 : u[i] = s[a + i - 1]
    BY <2>5 DEF u
  <2>7. u[1] = s[a] /\ u[Len(u)] = s[b]
    BY <1>1, <2>4, <2>6
  <2>8. ToSet(u) \subseteq ToSet(s)
    <3>1. DOMAIN u = 1 .. b - a + 1
      BY <2>6, LenProperties
    <3>2. ASSUME NEW i \in 1 .. b - a + 1
          PROVE  u[i] \in ToSet(s)
      <4>1. a + i - 1 \in DOMAIN s /\ u[i] = s[a + i - 1]
        BY <1>1, <2>4, <2>6
      <4> QED
        BY <4>1 DEF ToSet
    <3> QED
      BY <3>1, <3>2 DEF ToSet
  <2>9. Trim(s) = u
    BY <2>1 DEF u
  <2> QED
    BY <2>4, <2>6, <2>7, <2>8, <2>9 DEF Text
<1> QED
  BY <1>2, <1>3

\* What is between the quotes of a text.
LEMMA QuotedIs ==
    ASSUME NEW y \in Text
    PROVE  /\ Quoted(y) \in Text
           /\ Len(Quoted(y)) = Len(y) + 2
           /\ \A i \in 1 .. Len(y) + 2 : Quoted(y)[i] =
                 IF i \in 2 .. Len(y) + 1 THEN y[i - 1] ELSE "quote"
           /\ ToSet(Quoted(y)) = ToSet(y) \cup {"quote"}
<1>1. <<"quote">> \in Seq(Tokens)
  <2>1. "quote" \in Tokens
    BY DEF Tokens
  <2> QED
    BY <2>1
<1>2. PICK q \in Seq(Tokens) : q = <<"quote">>
  BY <1>1, Zenon
<1>3. Len(q) = 1 /\ q[1] = "quote" /\ ToSet(q) = {"quote"}
  BY <1>2 DEF ToSet
<1>4. Quoted(y) = q \o y \o q
  BY <1>2 DEF Quoted
<1>5. PICK u \in Seq(Tokens) : u = q \o y
  BY ConcatProperties DEF Text
<1>6. /\ Len(u) = Len(y) + 1
      /\ \A i \in 1 .. Len(y) + 1 : u[i] = IF i = 1 THEN "quote" ELSE y[i - 1]
      /\ ToSet(u) = ToSet(y) \cup {"quote"}
  <2>1. /\ Len(u) = 1 + Len(y) /\ Len(y) \in Nat
        /\ \A i \in 1 .. 1 + Len(y) : u[i] = IF i <= 1 THEN q[i] ELSE y[i - 1]
    BY <1>3, <1>5, ConcatProperties, LenProperties DEF Text
  <2>2. ToSet(u) = ToSet(q) \cup ToSet(y)
    BY <1>5, TokensOf DEF Text
  <2> QED
    BY <1>3, <2>1, <2>2
<1>7. /\ u \o q \in Seq(Tokens)
      /\ Len(u \o q) = Len(u) + 1 /\ Len(y) \in Nat
      /\ \A i \in 1 .. Len(u) + 1 : (u \o q)[i] =
            IF i <= Len(u) THEN u[i] ELSE q[i - Len(u)]
  BY <1>3, ConcatProperties, LenProperties DEF Text
<1>8. ToSet(u \o q) = ToSet(u) \cup ToSet(q)
  BY TokensOf
<1>9. Quoted(y) = u \o q
  BY <1>4, <1>5
<1>10. \A i \in 1 .. Len(y) + 2 : (u \o q)[i] =
                 IF i \in 2 .. Len(y) + 1 THEN y[i - 1] ELSE "quote"
  BY <1>3, <1>6, <1>7
<1> QED
  BY <1>3, <1>6, <1>7, <1>8, <1>9, <1>10 DEF Text

\* Trimming takes away the quotes that were put around a text, if it does not
\* begin or end with one itself.
LEMMA TrimQuoted ==
    ASSUME NEW y \in Text,
           y # <<>> => y[1] # "quote" /\ y[Len(y)] # "quote"
    PROVE  Trim(Quoted(y)) = y
<1> DEFINE s == Quoted(y)
           kept == {i \in DOMAIN s : s[i] # "quote"}
           n == Len(y)
<1>1. /\ n \in Nat /\ s \in Text /\ Len(s) = n + 2 /\ DOMAIN s = 1 .. n + 2
      /\ \A i \in 1 .. n + 2 : s[i] =
            IF i \in 2 .. n + 1 THEN y[i - 1] ELSE "quote"
  BY QuotedIs, LenProperties DEF Text
<1>2. Trim(s) = IF kept = {} THEN <<>> ELSE SubSeq(s, Min(kept), Max(kept))
  BY DEF Trim
<1> HIDE DEF s
<1>3. CASE y = <<>>
  <2>1. n = 0
    BY <1>3
  <2>2. kept = {}
    BY <1>1, <2>1
  <2> QED
    BY <1>2, <1>3, <2>2 DEF s
<1>4. CASE y # <<>>
  <2>1. n >= 1
    BY <1>1, <1>4, EmptySeq DEF Text
  <2>2. 2 \in kept /\ n + 1 \in kept /\ kept \subseteq 2 .. n + 1
    BY <1>1, <1>4, <2>1
  <2>3. Min(kept) = 2 /\ Max(kept) = n + 1
    <3>1. kept \in SUBSET (1 .. n + 2) /\ kept # {} /\ n + 2 \in Nat
      BY <1>1, <2>2
    <3> HIDE DEF kept
    <3>2. /\ Min(kept) \in kept /\ Max(kept) \in kept
          /\ \A i \in kept : Min(kept) <= i /\ i <= Max(kept)
      BY <3>1, MinAndMax
    <3>3. /\ Min(kept) <= 2 /\ n + 1 <= Max(kept)
          /\ Min(kept) \in 2 .. n + 1 /\ Max(kept) \in 2 .. n + 1
      BY <2>2, <3>2
    <3> QED
      BY <1>1, <3>3
  <2> HIDE DEF kept
  <2>4. Trim(s) = SubSeq(s, 2, n + 1)
    BY <1>2, <2>2, <2>3
  <2>5. /\ SubSeq(s, 2, n + 1) \in Seq(Tokens)
        /\ Len(SubSeq(s, 2, n + 1)) = n
        /\ \A i \in 1 .. n : SubSeq(s, 2, n + 1)[i] = s[i + 1]
    <3>1. \A i \in 2 .. n + 1 : s[i] \in Tokens
      BY <1>1, LenProperties DEF Text
    <3>2. 2 \in Int /\ n + 1 \in Int /\ (n + 1) - 2 + 1 = n /\ 2 <= n + 1
          /\ \A i \in Int : 2 + i - 1 = i + 1
      BY <1>1, <2>1
    <3> QED
      BY <1>1, <2>1, <3>1, <3>2, SubSeqProperties
  <2>6. PICK u \in Seq(Tokens) : u = SubSeq(s, 2, n + 1)
    BY <2>5
  <2>7. Len(u) = n /\ \A i \in 1 .. n : u[i] = y[i]
    BY <1>1, <2>5, <2>6
  <2>8. u = y
    BY <2>7, SeqEqual DEF Text
  <2> QED
    BY <2>4, <2>6, <2>8 DEF s
<1> QED
  BY <1>3, <1>4

-----------------------------------------------------------------------------
(* What ReplaceBoth makes of a text, and what Unescape does.                *)

\* What has been replaced so far, and whether the last token may yet be.
Replacing == [out : Text, open : BOOLEAN]

\* One token more.
ReplaceStep(acc, t, first, second, by) ==
    IF acc.open /\ t = second
      THEN [out |-> [acc.out EXCEPT ![Len(acc.out)] = by], open |-> FALSE]
      ELSE [out |-> Append(acc.out, t), open |-> t = first]

\* All tokens: ReplaceBoth is its out.
Replaced(s, first, second, by) ==
    Scan([acc \in Replacing |-> [t \in Tokens |->
             ReplaceStep(acc, t, first, second, by)]],
         [out |-> <<>>, open |-> FALSE], s)

\* A token adds no other tokens than itself and the replacement.
LEMMA ReplaceStepType ==
    ASSUME NEW acc \in Replacing, NEW t \in Tokens, NEW first, NEW second,
           NEW by \in Tokens
    PROVE  /\ ReplaceStep(acc, t, first, second, by) \in Replacing
           /\ ToSet(ReplaceStep(acc, t, first, second, by).out)
                 \subseteq ToSet(acc.out) \cup {t, by}
<1> DEFINE out == acc.out
           n == Len(out)
           next == ReplaceStep(acc, t, first, second, by)
<1>1. /\ out \in Seq(Tokens) /\ n \in Nat /\ DOMAIN out = 1 .. n
      /\ acc.open \in BOOLEAN
  BY LenProperties DEF Replacing, Text
<1>2. CASE ~(acc.open /\ t = second)
  <2>1. next = [out |-> Append(out, t), open |-> t = first]
    BY <1>2 DEF ReplaceStep
  <2>2. Append(out, t) \in Text /\ ToSet(Append(out, t)) = ToSet(out) \cup {t}
    BY <1>1, AppendProperties, TokensOf DEF Text
  <2> QED
    BY <2>1, <2>2 DEF Replacing
<1>3. CASE acc.open /\ t = second
  <2> DEFINE new == [out EXCEPT ![n] = by]
  <2>1. next = [out |-> new, open |-> FALSE]
    BY <1>3 DEF ReplaceStep
  <2>2. CASE n = 0
    <3>1. new = out
      BY <1>1, <2>2
    <3> HIDE DEF new
    <3> QED
      BY <1>1, <2>1, <3>1 DEF Replacing, Text
  <2>3. CASE n # 0
    <3>1. n \in 1 .. n
      BY <1>1, <2>3
    <3>2. /\ new \in Seq(Tokens) /\ DOMAIN new = 1 .. n
          /\ \A i \in 1 .. n : new[i] = IF i = n THEN by ELSE out[i]
      <4> HIDE DEF out
      <4> QED
        BY <1>1, <3>1, ExceptSeq
    <3>3. ToSet(new) \subseteq ToSet(out) \cup {by}
      <4> HIDE DEF new, out
      <4> QED
        BY <1>1, <3>2 DEF ToSet
    <3> HIDE DEF new, out
    <3>4. next \in Replacing
      BY <2>1, <3>2 DEF Replacing, Text
    <3>5. ToSet(next.out) \subseteq ToSet(out) \cup {t, by}
      BY <2>1, <3>3
    <3> QED
      BY <3>4, <3>5 DEF out
  <2> QED
    BY <2>2, <2>3
<1> QED
  BY <1>2, <1>3

\* A text's tokens are replaced one after the other.
LEMMA Replaces ==
    ASSUME NEW first, NEW second, NEW by \in Tokens
    PROVE  LET R(s) == Replaced(s, first, second, by)
           IN  /\ \A s : ReplaceBoth(s, first, second, by) = R(s).out
               /\ R(<<>>) = [out |-> <<>>, open |-> FALSE]
               /\ \A s \in Text : R(s) \in Replacing
               /\ \A s \in Text, t \in Tokens :
                     R(Append(s, t)) = ReplaceStep(R(s), t, first, second, by)
<1> DEFINE step == [acc \in Replacing |-> [t \in Tokens |->
                       ReplaceStep(acc, t, first, second, by)]]
           base == [out |-> <<>>, open |-> FALSE]
           R(s) == Replaced(s, first, second, by)
<1>1. \A s : R(s) = Scan(step, base, s)
  BY DEF Replaced
<1>2. \A s : ReplaceBoth(s, first, second, by) = R(s).out
  BY DEF ReplaceBoth, Replaced, ReplaceStep, Replacing
<1>3. base \in Replacing
  BY EmptySeq DEF Replacing, Text
<1>4. step \in [Replacing -> [Tokens -> Replacing]]
  BY ReplaceStepType
<1>5. \A acc \in Replacing, t \in Tokens :
         step[acc][t] = ReplaceStep(acc, t, first, second, by)
  OBVIOUS
<1> HIDE DEF step, base
<1>6. \A s \in Text : Scan(step, base, s) \in Replacing
  BY <1>3, <1>4, ScanType DEF Text
<1>7. \A s \in Text, t \in Tokens :
         Scan(step, base, Append(s, t)) = step[Scan(step, base, s)][t]
  BY ScanAppend DEF Text
<1>8. \A s \in Text, t \in Tokens :
         R(Append(s, t)) = ReplaceStep(R(s), t, first, second, by)
  <2> HIDE DEF R
  <2> QED
    BY <1>1, <1>5, <1>6, <1>7
<1>9. Scan(step, base, <<>>) = base
  BY ScanEmpty
<1>10. \A s \in Text : R(s) \in Replacing
  BY <1>1, <1>6
<1>11. R(<<>>) = [out |-> <<>>, open |-> FALSE]
  BY <1>1, <1>9 DEF base
<1> QED
  BY <1>2, <1>8, <1>10, <1>11

\* Append, as a name that the provers do not look into.
Longer(s, t) == Append(s, t)

\* A token that does not complete a pair is kept.
LEMMA Keeps ==
    ASSUME NEW first, NEW second, NEW by \in Tokens, NEW s \in Text,
           NEW t \in Tokens,
           ~(Replaced(s, first, second, by).open /\ t = second)
    PROVE  LET next == Replaced(Longer(s, t), first, second, by)
           IN  /\ next.out = Longer(Replaced(s, first, second, by).out, t)
               /\ next.open <=> t = first
<1> DEFINE R == Replaced(s, first, second, by)
<1>1. Replaced(Append(s, t), first, second, by) = ReplaceStep(R, t, first, second, by)
  BY Replaces, Zenon
<1>2. Replaced(Longer(s, t), first, second, by) = ReplaceStep(R, t, first, second, by)
  BY <1>1, Zenon DEF Longer
<1> HIDE DEF R
<1>3. /\ ReplaceStep(R, t, first, second, by).out = Append(R.out, t)
      /\ ReplaceStep(R, t, first, second, by).open <=> t = first
  <2>1. ~(R.open /\ t = second)
    BY DEF R
  <2> QED
    BY <2>1 DEF ReplaceStep
<1> QED
  BY <1>2, <1>3, Zenon DEF R, Longer

\* One that does takes the place of the pair.
LEMMA Merges ==
    ASSUME NEW first, NEW t \in Tokens, NEW by \in Tokens, NEW s \in Text,
           Replaced(s, first, t, by).open,
           NEW o, Replaced(s, first, t, by).out = o
    PROVE  LET next == Replaced(Longer(s, t), first, t, by)
           IN  /\ next.out = [o EXCEPT ![Len(o)] = by]
               /\ ~next.open
<1> DEFINE R == Replaced(s, first, t, by)
<1>1. Replaced(Append(s, t), first, t, by) = ReplaceStep(R, t, first, t, by)
  BY Replaces, Zenon
<1>2. Replaced(Longer(s, t), first, t, by) = ReplaceStep(R, t, first, t, by)
  BY <1>1, Zenon DEF Longer
<1>4. R.open /\ R.out = o
  OBVIOUS
<1> HIDE DEF R
<1>3. /\ ReplaceStep(R, t, first, t, by).out = [o EXCEPT ![Len(o)] = by]
      /\ ~ReplaceStep(R, t, first, t, by).open
  BY <1>4 DEF ReplaceStep
<1> QED
  BY <1>2, <1>3, Zenon

\* Only the token that is replaced by can be new.
LEMMA ReplacedTokens ==
    ASSUME NEW first, NEW second, NEW by \in Tokens, NEW s \in Text
    PROVE  /\ ReplaceBoth(s, first, second, by) \in Text
           /\ ToSet(ReplaceBoth(s, first, second, by)) \subseteq ToSet(s) \cup {by}
<1> DEFINE R(r) == Replaced(r, first, second, by)
           P == {r \in Text : ToSet(R(r).out) \subseteq ToSet(r) \cup {by}}
<1>1. <<>> \in P
  BY Replaces, EmptySeq, TokensOf DEF Text
<1>2. ASSUME NEW r \in Text, NEW t \in Tokens, r \in P
      PROVE  Append(r, t) \in P
  <2>1. R(r) \in Replacing /\ R(Append(r, t)) = ReplaceStep(R(r), t, first, second, by)
    BY Replaces
  <2>2. ToSet(R(Append(r, t)).out) \subseteq ToSet(R(r).out) \cup {t, by}
    BY <2>1, ReplaceStepType
  <2>3. Append(r, t) \in Text /\ ToSet(Append(r, t)) = ToSet(r) \cup {t}
    BY AppendProperties, TokensOf DEF Text
  <2> QED
    BY <1>2, <2>2, <2>3
<1>3. Text \subseteq P
  <2> HIDE DEF P
  <2> QED
    BY <1>1, <1>2, InductionOnSeq DEF Text
<1>4. R(s) \in Replacing /\ ReplaceBoth(s, first, second, by) = R(s).out
  BY Replaces
<1> QED
  BY <1>3, <1>4 DEF Replacing

\* Unescape can only add the two that it replaces pairs by.
LEMMA UnescapeTokens ==
    ASSUME NEW s \in Text
    PROVE  /\ Unescape(s) \in Text
           /\ ToSet(Unescape(s)) \subseteq ToSet(s) \cup {"quote", "backslash"}
<1>1. "quote" \in Tokens /\ "backslash" \in Tokens
  BY DEF Tokens
<1>2. PICK u \in Text : /\ u = ReplaceBoth(s, "backslash", "backslash", "backslash")
                        /\ ToSet(u) \subseteq ToSet(s) \cup {"backslash"}
  BY <1>1, ReplacedTokens
<1>3. Unescape(s) = ReplaceBoth(u, "backslash", "quote", "quote")
  BY <1>2 DEF Unescape
<1> QED
  BY <1>1, <1>2, <1>3, ReplacedTokens

\* Two replacements undo the escaping of a text without backslashes: the first
\* finds nothing to replace, the second what was put before the quotes.
LEMMA Unescapes ==
    ASSUME NEW s \in Text, "backslash" \notin ToSet(s)
    PROVE  Unescape(escapeHstoreValue(s)) = s
<1> DEFINE E(r) == escapeHstoreValue(r)
           R1(r) == Replaced(r, "backslash", "backslash", "backslash")
           R2(r) == Replaced(r, "backslash", "quote", "quote")
           P == {r \in Text : "backslash" \notin ToSet(r) =>
                    /\ R1(E(r)).out = E(r) /\ ~R1(E(r)).open
                    /\ R2(E(r)).out = r /\ ~R2(E(r)).open}
<1>0. "quote" \in Tokens /\ "backslash" \in Tokens
  BY DEF Tokens
<1>0a. /\ \A r : ReplaceBoth(r, "backslash", "backslash", "backslash") = R1(r).out
       /\ R1(<<>>) = [out |-> <<>>, open |-> FALSE]
  BY <1>0, Replaces
<1>0b. /\ \A r : ReplaceBoth(r, "backslash", "quote", "quote") = R2(r).out
       /\ R2(<<>>) = [out |-> <<>>, open |-> FALSE]
  BY <1>0, Replaces
<1>0c. /\ E(<<>>) = <<>>
       /\ \A r \in Text : E(r) \in Text
       /\ \A r \in Text, t \in Tokens : E(Append(r, t)) = E(r) \o Escaped(t)
  BY Escapes
<1> HIDE DEF E
<1>1. <<>> \in P
  BY <1>0a, <1>0b, <1>0c, EmptySeq DEF Text
<1>2. ASSUME NEW r \in Text, NEW t \in Tokens, r \in P
      PROVE  Append(r, t) \in P
  <2>1. Append(r, t) \in Text
    BY AppendProperties DEF Text
  <2>2. SUFFICES ASSUME "backslash" \notin ToSet(Append(r, t))
                 PROVE  /\ R1(E(Append(r, t))).out = E(Append(r, t)) /\ ~R1(E(Append(r, t))).open
                        /\ R2(E(Append(r, t))).out = Append(r, t) /\ ~R2(E(Append(r, t))).open
    BY <2>1
  <2>3. "backslash" \notin ToSet(r) /\ t # "backslash"
    BY <2>2, TokensOf DEF Text
  <2>4. PICK e \in Text : e = E(r)
    BY <1>0c
  <2>5. /\ R1(e).out = e /\ ~R1(e).open
        /\ R2(e).out = r /\ ~R2(e).open
    BY <1>2, <2>3, <2>4
  <2>6. CASE t # "quote"
    <3>1. E(Append(r, t)) = Longer(e, t)
      <4>1. Escaped(t) = <<t>>
        BY <2>3, <2>6 DEF Escaped, escaped
      <4>2. Append(e, t) = e \o <<t>>
        BY AppendIsConcat DEF Text
      <4> QED
        BY <1>0c, <2>4, <4>1, <4>2 DEF Longer
    <3>2. R1(Longer(e, t)).out = Longer(e, t) /\ ~R1(Longer(e, t)).open
      BY <1>0, <2>3, <2>5, Keeps
    <3>3. R2(Longer(e, t)).out = Longer(r, t) /\ ~R2(Longer(e, t)).open
      BY <1>0, <2>3, <2>5, <2>6, Keeps
    <3> QED
      BY <3>1, <3>2, <3>3, Zenon DEF Longer
  <2>7. CASE t = "quote"
    <3>1. PICK d \in Text : d = Longer(e, "backslash")
      BY <1>0, AppendProperties DEF Text, Longer
    <3>2. E(Append(r, t)) = Longer(d, t)
      <4>1. Escaped(t) = <<"backslash", t>>
        BY <2>7 DEF Escaped, escaped
      <4>2. Append(d, t) = e \o <<"backslash", t>>
        <5>1. <<"backslash">> \in Seq(Tokens)
          BY <1>0
        <5>2. PICK b \in Seq(Tokens) : b = <<"backslash">>
          BY <5>1, Zenon
        <5>3. <<"backslash", t>> = Append(b, t)
          BY <5>2
        <5>4. e \o Append(b, t) = Append(e \o b, t)
          BY ConcatAppend DEF Text
        <5>5. e \o b = d
          BY <1>0, <3>1, <5>2, AppendIsConcat DEF Text, Longer
        <5> QED
          BY <5>3, <5>4, <5>5
      <4> QED
        BY <1>0c, <2>4, <4>1, <4>2 DEF Longer
    <3>3. R1(d).out = d /\ R1(d).open
      BY <1>0, <2>5, <3>1, Keeps
    <3>4. PICK a : a = Longer(r, "backslash")
      OBVIOUS
    <3>5. R2(d).out = a /\ R2(d).open
      BY <1>0, <2>5, <3>1, <3>4, Keeps
    <3>6. R1(Longer(d, t)).out = Longer(d, t) /\ ~R1(Longer(d, t)).open
      BY <1>0, <2>7, <3>3, Keeps
    <3>7. R2(Longer(d, t)).out = Longer(r, t) /\ ~R2(Longer(d, t)).open
      <4>1. /\ R2(Longer(d, t)).out = [a EXCEPT ![Len(a)] = "quote"]
            /\ ~R2(Longer(d, t)).open
        BY <1>0, <2>7, <3>5, Merges
      <4>2. [a EXCEPT ![Len(a)] = "quote"] = Append(r, t)
        BY <1>0, <2>7, <3>4, LastReplaced DEF Text, Longer
      <4> QED
        BY <4>1, <4>2, Zenon DEF Longer
    <3> QED
      BY <3>2, <3>6, <3>7, Zenon DEF Longer
  <2> QED
    BY <2>6, <2>7
<1>3. Text \subseteq P
  <2> HIDE DEF P
  <2> QED
    BY <1>1, <1>2, InductionOnSeq DEF Text
<1>4. /\ R1(E(s)).out = E(s) /\ ~R1(E(s)).open
      /\ R2(E(s)).out = s /\ ~R2(E(s)).open
  BY <1>3
<1> QED
  BY <1>0a, <1>0b, <1>4 DEF Unescape, E

-----------------------------------------------------------------------------
(* What is written, and how it is taken apart again.                        *)

\* What the codec is given: keys and values.
Values  == [kind : Kinds, text : Text]
\* ... as pairs.
Entries == Letters \X Values

\* ... as \o is.
Joined(s, r) == s \o r

\* What is known of a longer sequence ...
LEMMA LongerIs ==
    ASSUME NEW T, NEW s \in Seq(T), NEW t \in T
    PROVE  /\ Longer(s, t) \in Seq(T)
           /\ Len(Longer(s, t)) = Len(s) + 1
           /\ \A i \in 1 .. Len(s) : Longer(s, t)[i] = s[i]
           /\ Longer(s, t)[Len(s) + 1] = t
BY AppendProperties DEF Longer

\* ... of a joined one.
LEMMA JoinedIs ==
    ASSUME NEW T, NEW s \in Seq(T), NEW r \in Seq(T)
    PROVE  /\ Joined(s, r) \in Seq(T)
           /\ Len(Joined(s, r)) = Len(s) + Len(r)
           /\ ToSet(Joined(s, r)) = ToSet(s) \cup ToSet(r)
<1>1. ToSet(s \o r) = ToSet(s) \cup ToSet(r)
  BY TokensOf
<1>2. s \o r \in Seq(T) /\ Len(s \o r) = Len(s) + Len(r)
  BY ConcatProperties
<1> QED
  BY <1>1, <1>2, Zenon DEF Joined

\* The text of a pair.
LEMMA PairIs ==
    ASSUME NEW k \in Letters, NEW v \in Values
    PROVE  /\ Quoted(<<k>>) \in Text
           /\ ToSet(Quoted(<<k>>)) = {k, "quote"}
           /\ Trim(Quoted(<<k>>)) = <<k>>
           /\ Quoted(escapeHstoreValue(v.text)) \in Text
           /\ ToSet(Quoted(escapeHstoreValue(v.text)))
                 \subseteq ToSet(v.text) \cup escaped
           /\ Pair(k, v) \in Text /\ Pair(k, v) # <<>>
           /\ ToSet(Pair(k, v)) \subseteq ToSet(v.text) \cup escaped \cup {k, "arrow"}
<1> DEFINE e == escapeHstoreValue(v.text)
<1>1. v.text \in Text /\ e \in Text /\ k \in Tokens /\ "arrow" \in Tokens
  BY Escapes DEF Values, Tokens
<1>2. <<k>> \in Seq(Tokens) /\ <<"arrow">> \in Seq(Tokens)
  BY <1>1
<1>3. PICK key \in Text : /\ key = <<k>> /\ ToSet(key) = {k}
                          /\ Len(key) = 1 /\ key[1] = k
  <2>1. ToSet(<<k>>) = {k}
    BY DEF ToSet
  <2> QED
    BY <1>2, <2>1 DEF Text
<1>4. PICK arrow \in Text : arrow = <<"arrow">> /\ ToSet(arrow) = {"arrow"}
  <2>1. ToSet(<<"arrow">>) = {"arrow"}
    BY DEF ToSet
  <2> QED
    BY <1>2, <2>1 DEF Text
<1>5. PICK front \in Text : /\ front = Quoted(key) /\ Len(front) = 3
                            /\ ToSet(front) = {k, "quote"}
  <2>1. /\ Quoted(key) \in Text /\ Len(Quoted(key)) = Len(key) + 2
        /\ ToSet(Quoted(key)) = ToSet(key) \cup {"quote"}
    BY QuotedIs
  <2> QED
    BY <1>3, <2>1
<1>6. Trim(front) = key
  <2>1. k # "quote"
    BY DEF Letters
  <2> QED
    BY <1>3, <1>5, <2>1, TrimQuoted
<1>7. PICK back \in Text : /\ back = Quoted(e)
                           /\ ToSet(back) \subseteq ToSet(v.text) \cup escaped
  <2>1. ToSet(Quoted(e)) = ToSet(e) \cup {"quote"} /\ Quoted(e) \in Text
    BY <1>1, QuotedIs
  <2>2. ToSet(e) \cup {"backslash"} = ToSet(v.text) \cup {"backslash"}
    BY <1>1, EscapedTokens
  <2> QED
    BY <2>1, <2>2 DEF escaped
<1>8. Pair(k, v) = Joined(Joined(front, arrow), back)
  BY <1>3, <1>4, <1>5, <1>7, Zenon DEF Pair, Joined
<1> HIDE DEF e
<1>9. /\ Joined(front, arrow) \in Text /\ Len(Joined(front, arrow)) >= 3
      /\ ToSet(Joined(front, arrow)) = {k, "quote", "arrow"}
  <2>1. Len(arrow) \in Nat
    BY LenProperties DEF Text
  <2>2. /\ Joined(front, arrow) \in Text
        /\ Len(Joined(front, arrow)) = Len(front) + Len(arrow)
        /\ ToSet(Joined(front, arrow)) = ToSet(front) \cup ToSet(arrow)
    BY JoinedIs, Zenon DEF Text
  <2>3. Len(front) = 3 /\ ToSet(front) = {k, "quote"} /\ ToSet(arrow) = {"arrow"}
    BY <1>4, <1>5
  <2>4. Len(Joined(front, arrow)) >= 3
    BY <2>1, <2>2, <2>3
  <2>5. ToSet(Joined(front, arrow)) = {k, "quote", "arrow"}
    BY <2>2, <2>3
  <2> QED
    BY <2>2, <2>4, <2>5
<1>10. /\ Pair(k, v) \in Text /\ Len(Pair(k, v)) >= 3
       /\ ToSet(Pair(k, v)) = {k, "quote", "arrow"} \cup ToSet(back)
  <2>1. PICK head \in Text : head = Joined(front, arrow)
    BY <1>9
  <2>2. Len(back) \in Nat
    BY LenProperties DEF Text
  <2>3. /\ Joined(head, back) \in Text
        /\ Len(Joined(head, back)) = Len(head) + Len(back)
        /\ ToSet(Joined(head, back)) = ToSet(head) \cup ToSet(back)
    BY JoinedIs, Zenon DEF Text
  <2> QED
    BY <1>8, <1>9, <2>1, <2>2, <2>3
<1>11. ToSet(Pair(k, v)) \subseteq ToSet(v.text) \cup escaped \cup {k, "arrow"}
  BY <1>7, <1>10 DEF escaped
<1>12. Pair(k, v) # <<>>
  BY <1>10
<1>13. Quoted(<<k>>) = front /\ <<k>> = key
  BY <1>3, <1>5
<1> QED
  BY <1>5, <1>6, <1>7, <1>10, <1>11, <1>12, <1>13 DEF e

\* The pairs are written one after the other.
LEMMA WritesPairs ==
    /\ jsonToHstoreStr(<<>>) = <<>>
    /\ \A ps \in Seq(Entries) : jsonToHstoreStr(ps) \in Text
    /\ \A ps \in Seq(Entries), p \in Entries :
          LET s == jsonToHstoreStr(ps)
          IN  jsonToHstoreStr(Longer(ps, p)) =
                 (IF s = <<>> THEN <<>> ELSE s \o <<"comma">>) \o Pair(p[1], p[2])
    /\ \A ps \in Seq(Entries) : ps # <<>> => jsonToHstoreStr(ps) # <<>>
<1> DEFINE More(s, p) == (IF s = <<>> THEN <<>> ELSE s \o <<"comma">>) \o Pair(p[1], p[2])
           step == [s \in Text |-> [p \in Entries |-> More(s, p)]]
           J(ps) == jsonToHstoreStr(ps)
<1>1. \A ps : J(ps) = Scan(step, <<>>, ps)
  BY DEF jsonToHstoreStr, Entries, Values
<1>2. <<>> \in Text
  BY EmptySeq DEF Text
<1>3. ASSUME NEW s \in Text, NEW p \in Entries
      PROVE  More(s, p) \in Text /\ More(s, p) # <<>>
  <2>1. Pair(p[1], p[2]) \in Text /\ Pair(p[1], p[2]) # <<>>
    BY PairIs DEF Entries
  <2>2. <<"comma">> \in Seq(Tokens)
    <3>1. "comma" \in Tokens
      BY DEF Tokens
    <3> QED
      BY <3>1
  <2>3. PICK comma \in Text : comma = <<"comma">>
    BY <2>2, Zenon DEF Text
  <2>4. PICK r \in Text : r = IF s = <<>> THEN <<>> ELSE Joined(s, comma)
    BY <1>2, JoinedIs DEF Text
  <2>5. PICK pair \in Text : pair = Pair(p[1], p[2]) /\ pair # <<>>
    BY <2>1
  <2>6. Len(r) \in Nat /\ Len(pair) \in Nat /\ Len(pair) # 0
    BY <2>5, LenProperties, EmptySeq DEF Text
  <2>7. Joined(r, pair) \in Text /\ Len(Joined(r, pair)) # 0
    BY <2>6, JoinedIs DEF Text
  <2>8. Joined(r, pair) # <<>>
    BY <2>7
  <2>9. More(s, p) = Joined(r, pair)
    BY <2>3, <2>4, <2>5, Zenon DEF Joined
  <2> QED
    BY <2>7, <2>8, <2>9
<1> HIDE DEF More
<1>4. step \in [Text -> [Entries -> Text]]
  BY <1>3
<1>5. \A s \in Text, p \in Entries : step[s][p] = More(s, p)
  OBVIOUS
<1> HIDE DEF step
<1>6. \A ps \in Seq(Entries) : Scan(step, <<>>, ps) \in Text
  BY <1>2, <1>4, ScanType
<1>7. \A ps \in Seq(Entries), p \in Entries :
         Scan(step, <<>>, Longer(ps, p)) = step[Scan(step, <<>>, ps)][p]
  <2> TAKE ps \in Seq(Entries), p \in Entries
  <2>1. Scan(step, <<>>, Append(ps, p)) = step[Scan(step, <<>>, ps)][p]
    BY ScanAppend
  <2> QED
    BY <2>1, Zenon DEF Longer
<1>8. \A ps \in Seq(Entries), p \in Entries : J(Longer(ps, p)) = More(J(ps), p)
  <2> HIDE DEF J
  <2> QED
    BY <1>1, <1>5, <1>6, <1>7
<1>9. J(<<>>) = <<>>
  BY <1>1, ScanEmpty
<1>10. \A ps \in Seq(Entries) : J(ps) \in Text
  BY <1>1, <1>6
<1>11. ASSUME NEW ps \in Seq(Entries), ps # <<>>
       PROVE  J(ps) # <<>>
  <2>1. PICK qs \in Seq(Entries), p \in Entries : ps = Longer(qs, p)
    BY <1>11, SequenceEmptyOrAppend DEF Longer
  <2>2. J(ps) = More(J(qs), p)
    BY <1>8, <2>1
  <2> QED
    BY <1>3, <1>10, <2>2
<1> QED
  BY <1>8, <1>9, <1>10, <1>11 DEF More

\* Pairs without ", " in their values are found again one by one.
LEMMA FindsPairs ==
    ASSUME NEW ps \in Seq(Entries), ps # <<>>,
           \A i \in 1 .. Len(ps) : "comma" \notin ToSet(ps[i][2].text)
    PROVE  LET parts == Split(jsonToHstoreStr(ps), "comma")
           IN  /\ Len(parts) = Len(ps)
               /\ \A i \in 1 .. Len(ps) : parts[i] = Pair(ps[i][1], ps[i][2])
<1> DEFINE S(qs) == Split(jsonToHstoreStr(qs), "comma")
           P == {qs \in Seq(Entries) :
                   (/\ qs # <<>>
                    /\ \A i \in 1 .. Len(qs) : "comma" \notin ToSet(qs[i][2].text))
                   => /\ Len(S(qs)) = Len(qs)
                      /\ \A i \in 1 .. Len(qs) : S(qs)[i] = Pair(qs[i][1], qs[i][2])}
<1>0. "comma" \in Tokens
  BY DEF Tokens
<1>1. <<>> \in P
  BY EmptySeq
<1>2. ASSUME NEW qs \in Seq(Entries), NEW p \in Entries, qs \in P
      PROVE  Append(qs, p) \in P
  <2>1. PICK rs \in Seq(Entries) :
           /\ rs = Longer(qs, p)
           /\ Len(rs) = Len(qs) + 1 /\ Len(qs) \in Nat
           /\ \A i \in 1 .. Len(qs) : rs[i] = qs[i]
           /\ rs[Len(qs) + 1] = p
    BY LongerIs, LenProperties
  <2>1a. Append(qs, p) = rs
    BY <2>1 DEF Longer
  <2>2. SUFFICES ASSUME \A i \in 1 .. Len(rs) : "comma" \notin ToSet(rs[i][2].text)
                 PROVE  /\ Len(S(rs)) = Len(rs)
                        /\ \A i \in 1 .. Len(rs) : S(rs)[i] = Pair(rs[i][1], rs[i][2])
    BY <2>1, <2>1a
  <2>3. \A i \in 1 .. Len(qs) : "comma" \notin ToSet(qs[i][2].text)
    BY <2>1, <2>2
  <2>4. "comma" \notin ToSet(p[2].text)
    <3>1. Len(qs) + 1 \in 1 .. Len(rs)
      BY <2>1
    <3> QED
      BY <2>1, <2>2, <3>1
  <2>5. PICK pair \in Text : pair = Pair(p[1], p[2]) /\ "comma" \notin ToSet(pair)
    <3>1. p[1] # "comma" /\ "comma" \notin escaped
      BY DEF Entries, Letters, escaped
    <3>2. /\ Pair(p[1], p[2]) \in Text
          /\ ToSet(Pair(p[1], p[2]))
                \subseteq ToSet(p[2].text) \cup escaped \cup {p[1], "arrow"}
      BY PairIs DEF Entries
    <3> QED
      BY <2>4, <3>1, <3>2
  <2>6. PICK s \in Text : s = jsonToHstoreStr(qs)
    BY WritesPairs
  <2>7. jsonToHstoreStr(rs) = (IF s = <<>> THEN <<>> ELSE s \o <<"comma">>) \o pair
    BY <2>1, <2>5, <2>6, WritesPairs
  <2>8. CASE qs = <<>>
    <3>1. s = <<>>
      BY <2>6, <2>8, WritesPairs
    <3>2. jsonToHstoreStr(rs) = pair
      BY <2>7, <3>1, ConcatEmptySeq DEF Text
    <3>3. S(rs) = <<pair>>
      BY <1>0, <2>5, <3>2, OnePart
    <3>4. Len(qs) = 0
      BY <2>8
    <3> HIDE DEF S
    <3>5. Len(S(rs)) = 1 /\ S(rs)[1] = pair
      BY <3>3
    <3>6. Len(rs) = 1 /\ rs[1] = p
      BY <2>1, <3>4
    <3> QED
      BY <2>5, <3>5, <3>6
  <2>9. CASE qs # <<>>
    <3>1. s # <<>>
      BY <2>6, <2>9, WritesPairs
    <3>2. jsonToHstoreStr(rs) = s \o <<"comma">> \o pair
      BY <2>7, <3>1, Zenon
    <3>3. S(rs) = Longer(Split(s, "comma"), pair)
      BY <1>0, <2>5, <3>2, LastPart DEF Longer
    <3>4. Split(s, "comma") \in Seq(Text)
      BY SplitTokens
    <3>5. /\ Len(Split(s, "comma")) = Len(qs)
          /\ \A i \in 1 .. Len(qs) : Split(s, "comma")[i] = Pair(qs[i][1], qs[i][2])
      BY <1>2, <2>3, <2>6, <2>9
    <3> HIDE DEF S
    <3>6. /\ Len(S(rs)) = Len(qs) + 1
          /\ \A i \in 1 .. Len(qs) : S(rs)[i] = Pair(qs[i][1], qs[i][2])
          /\ S(rs)[Len(qs) + 1] = pair
      <4>0. PICK parts \in Seq(Text) : parts = Split(s, "comma")
        BY <3>4, Zenon
      <4>1. /\ Longer(parts, pair) \in Seq(Text)
            /\ Len(Longer(parts, pair)) = Len(parts) + 1
            /\ \A i \in 1 .. Len(parts) : Longer(parts, pair)[i] = parts[i]
            /\ Longer(parts, pair)[Len(parts) + 1] = pair
        BY LongerIs
      <4> QED
        BY <3>3, <3>5, <4>0, <4>1
    <3>7. \A i \in 1 .. Len(rs) : S(rs)[i] = Pair(rs[i][1], rs[i][2])
      <4>1. \A i \in 1 .. Len(rs) : i \in 1 .. Len(qs) \/ i = Len(qs) + 1
        BY <2>1
      <4> QED
        BY <2>1, <2>5, <3>6, <4>1
    <3> QED
      BY <2>1, <3>6, <3>7
  <2> QED
    BY <2>8, <2>9
<1>3. Seq(Entries) \subseteq P
  <2> HIDE DEF P
  <2> QED
    BY <1>1, <1>2, InductionOnSeq
<1> QED
  BY <1>3

\* A pair is taken apart: at the first "=>", and only there if the value has none.
LEMMA TakesApart ==
    ASSUME NEW k \in Letters, NEW v \in Values
    PROVE  LET parts == Split(Pair(k, v), "arrow")
           IN  /\ Len(parts) >= 2
               /\ parts[1] = Quoted(<<k>>)
               /\ "arrow" \notin ToSet(v.text) =>
                     /\ Len(parts) = 2
                     /\ parts[2] = Quoted(escapeHstoreValue(v.text))
<1>1. PICK x \in Text, y \in Text :
         /\ x = Quoted(<<k>>) /\ ToSet(x) = {k, "quote"}
         /\ y = Quoted(escapeHstoreValue(v.text))
         /\ ToSet(y) \subseteq ToSet(v.text) \cup escaped
  BY PairIs
<1>2. Pair(k, v) = x \o <<"arrow">> \o y
  BY <1>1, Zenon DEF Pair
<1>3. "arrow" \in Tokens /\ "arrow" \notin {k, "quote"} /\ "arrow" \notin escaped
  BY DEF Tokens, Letters, escaped
<1>4. /\ Len(Split(Pair(k, v), "arrow")) >= 2
      /\ Split(Pair(k, v), "arrow")[1] = x
  BY <1>1, <1>2, <1>3, FirstPart
<1>5. ASSUME "arrow" \notin ToSet(v.text)
      PROVE  /\ Len(Split(Pair(k, v), "arrow")) = 2
             /\ Split(Pair(k, v), "arrow")[2] = y
  <2>1. Split(Pair(k, v), "arrow") = Longer(Split(x, "arrow"), y)
    BY <1>1, <1>2, <1>3, <1>5, LastPart DEF Longer
  <2>2. Split(x, "arrow") = <<x>>
    BY <1>1, <1>3, OnePart
  <2>3. PICK parts \in Seq(Text) : parts = Split(x, "arrow") /\ Len(parts) = 1
    <3>1. Split(x, "arrow") \in Seq(Text)
      BY SplitTokens
    <3> QED
      BY <2>2, <3>1
  <2>4. Len(Longer(parts, y)) = 2 /\ Longer(parts, y)[2] = y
    <3>1. /\ Len(Longer(parts, y)) = Len(parts) + 1
          /\ Longer(parts, y)[Len(parts) + 1] = y
      BY LongerIs, Zenon
    <3>2. Len(parts) + 1 = 2
      <4>1. Len(parts) = 1
        BY <2>3, Zenon
      <4> QED
        BY <4>1
    <3> QED
      BY <3>1, <3>2, Zenon
  <2> QED
    BY <2>1, <2>3, <2>4
<1> QED
  BY <1>1, <1>4, <1>5

\* What a value is read back as.
Back(v) == Parsed(Trim(Quoted(escapeHstoreValue(v.text))))

\* The keys that are written are those that are read, each with what its value
\* comes back as, unless a separator in a value is in the way.
LEMMA ReadsBack ==
    ASSUME NEW ps \in Seq(Entries),
           \A i \in 1 .. Len(ps) : "comma" \notin ToSet(ps[i][2].text),
           \A i, j \in 1 .. Len(ps) : ps[i][1] = ps[j][1] => i = j,
           NEW i \in 1 .. Len(ps), "arrow" \notin ToSet(ps[i][2].text)
    PROVE  /\ <<ps[i][1]>> \in DOMAIN ReadBack(ps)
           /\ ReadBack(ps)[<<ps[i][1]>>] = Back(ps[i][2])
           /\ DOMAIN ReadBack(ps) \subseteq {<<ps[j][1]>> : j \in 1 .. Len(ps)}
<1> DEFINE s == jsonToHstoreStr(ps)
           pairs == Split(s, "comma")
           Part(j) == Split(pairs[j], "arrow")
           read == {j \in DOMAIN pairs : Len(Part(j)) = 2}
           Key(j) == Trim(Part(j)[1])
           Same == {j \in read : Key(j) = <<ps[i][1]>>}
<1>0. ReadBack(ps) = [key \in {Key(j) : j \in read} |->
            Parsed(Trim(Part(Max({j \in read : Key(j) = key}))[2]))]
  BY DEF ReadBack, hstoreStrToMap
<1>1. Len(ps) \in Nat /\ \A j \in 1 .. Len(ps) : ps[j] \in Entries
  BY LenProperties
<1>2. /\ Len(pairs) = Len(ps)
      /\ \A j \in 1 .. Len(ps) : pairs[j] = Pair(ps[j][1], ps[j][2])
  <2>1. ps # <<>>
    <3>1. Len(ps) # 0
      BY <1>1
    <3> QED
      BY <3>1
  <2> QED
    BY <2>1, FindsPairs
<1>3. DOMAIN pairs = 1 .. Len(ps)
  <2>1. pairs \in Seq(Text)
    BY WritesPairs, SplitTokens
  <2> QED
    BY <1>2, <2>1, LenProperties
<1> HIDE DEF s, pairs
<1>4. ASSUME NEW j \in 1 .. Len(ps)
      PROVE  /\ Part(j)[1] = Quoted(<<ps[j][1]>>)
             /\ Key(j) = <<ps[j][1]>>
             /\ "arrow" \notin ToSet(ps[j][2].text) =>
                   /\ Len(Part(j)) = 2
                   /\ Part(j)[2] = Quoted(escapeHstoreValue(ps[j][2].text))
  <2>1. PICK k \in Letters, v \in Values : k = ps[j][1] /\ v = ps[j][2]
    BY <1>1 DEF Entries
  <2>2. Part(j) = Split(Pair(k, v), "arrow")
    BY <1>2, <2>1
  <2>3. Part(j)[1] = Quoted(<<k>>)
    BY <2>2, TakesApart
  <2>4. Key(j) = <<k>>
    BY <2>3, PairIs
  <2>5. "arrow" \notin ToSet(v.text) =>
                   /\ Len(Part(j)) = 2
                   /\ Part(j)[2] = Quoted(escapeHstoreValue(v.text))
    BY <2>2, TakesApart
  <2> QED
    BY <2>1, <2>3, <2>4, <2>5
<1>5. /\ Len(Part(i)) = 2
      /\ Part(i)[2] = Quoted(escapeHstoreValue(ps[i][2].text))
  BY <1>4
<1> HIDE DEF Part, Key
<1>6. i \in read /\ read \subseteq 1 .. Len(ps)
  BY <1>3, <1>5
<1>7. Same = {i}
  <2>1. \A j \in 1 .. Len(ps) : <<ps[j][1]>> = <<ps[i][1]>> => j = i
    OBVIOUS
  <2> QED
    BY <1>4, <1>6, <2>1
<1>8. Max(Same) = i
  <2>1. Same \in SUBSET (1 .. Len(ps)) /\ Same # {}
    BY <1>7
  <2>2. Max(Same) \in Same
    <3> HIDE DEF Same
    <3> QED
      BY <1>1, <2>1, MinAndMax
  <2> QED
    BY <1>7, <2>2
<1>9. <<ps[i][1]>> \in {Key(j) : j \in read}
  BY <1>4, <1>6
<1>10. ReadBack(ps)[<<ps[i][1]>>] = Parsed(Trim(Part(Max(Same))[2]))
  BY <1>0, <1>9
<1>11. ReadBack(ps)[<<ps[i][1]>>] = Back(ps[i][2])
  BY <1>5, <1>8, <1>10 DEF Back
<1>12. DOMAIN ReadBack(ps) = {Key(j) : j \in read}
  BY <1>0
<1>13. {Key(j) : j \in read} \subseteq {<<ps[j][1]>> : j \in 1 .. Len(ps)}
  <2>1. \A j \in read : j \in 1 .. Len(ps) /\ Key(j) = <<ps[j][1]>>
    BY <1>4, <1>6
  <2> HIDE DEF read
  <2> QED
    BY <2>1, Zenon
<1> QED
  BY <1>9, <1>11, <1>12, <1>13

-----------------------------------------------------------------------------
(* What a text is parsed as.                                                *)

\* What is asked of the tokens of a text, and of its ends.
LEMMA TextIs ==
    ASSUME NEW s \in Text
    PROVE  /\ isNumeric(s) <=> "7" \in ToSet(s) /\ ToSet(s) \cap Letters = {}
           /\ IsDigits(s) <=> s # <<>> /\ ToSet(s) \subseteq {"7"}
           /\ \A kind, t : Has(Value(kind, s), t) <=> t \in ToSet(s)
           /\ Len(s) \in Nat /\ DOMAIN s = 1 .. Len(s)
           /\ s # <<>> <=> Len(s) > 0
           /\ s # <<>> => s[1] \in ToSet(s) /\ s[Len(s)] \in ToSet(s)
<1>1. Len(s) \in Nat /\ DOMAIN s = 1 .. Len(s)
  BY LenProperties DEF Text
<1>2. s # <<>> <=> Len(s) > 0
  BY <1>1, EmptySeq DEF Text
<1>3. isNumeric(s) <=> "7" \in ToSet(s) /\ ToSet(s) \cap Letters = {}
  BY DEF isNumeric, ToSet
<1>4. IsDigits(s) <=> s # <<>> /\ ToSet(s) \subseteq {"7"}
  BY DEF IsDigits, ToSet
<1>5. \A kind, t : Has(Value(kind, s), t) <=> t \in ToSet(s)
  BY DEF Has, Value, ToSet
<1>6. s # <<>> => s[1] \in ToSet(s) /\ s[Len(s)] \in ToSet(s)
  BY <1>1, <1>2 DEF ToSet
<1> QED
  BY <1>1, <1>2, <1>3, <1>4, <1>5, <1>6

\* What the one-token texts with a meaning of their own have in them.
LEMMA TrueIs ==
    /\ <<"true">> \in Text /\ ToSet(<<"true">>) = {"true"}
    /\ ~isNumeric(<<"true">>) /\ (\A f, l : ~IsWithin(<<"true">>, f, l))
<1>1. <<"true">> \in Text
  <2>1. "true" \in Tokens
    BY DEF Tokens, Letters
  <2> QED
    BY <2>1 DEF Text
<1>2. ToSet(<<"true">>) = {"true"}
  BY DEF ToSet
<1>3. \A f, l : ~IsWithin(<<"true">>, f, l)
  BY DEF IsWithin
<1>4. ~isNumeric(<<"true">>)
  BY <1>1, <1>2, TextIs DEF Letters
<1> QED
  BY <1>1, <1>2, <1>3, <1>4

\* What a text is parsed as.
LEMMA ParsedIs ==
    ASSUME NEW s
    PROVE  LET json   == Unescape(s)
               number == isNumeric(s) /\ IsFloat(s)
               object == ~isNumeric(s) /\ IsWithin(s, "{", "}") /\ IsObject(json)
               array  == ~isNumeric(s) /\ IsWithin(s, "[", "]") /\ IsArray(json)
           IN  /\ s = <<"true">> => Parsed(s) = Value("bool", s)
               /\ number => Parsed(s) = Value("number", s)
               /\ object => Parsed(s) = Value("object", json)
               /\ array => Parsed(s) = Value("array", json)
               /\ s # <<"true">> /\ ~number /\ ~object /\ ~array
                     => Parsed(s) = Value("text", s)
               /\ Parsed(s).kind # "null"
               /\ Parsed(s).kind = "number" => number
               /\ Parsed(s).kind = "object" => object
               /\ Parsed(s).kind = "array" => array
               /\ Parsed(s).kind = "text" => /\ Parsed(s).text = s /\ s # <<"true">>
                                             /\ ~number /\ ~object /\ ~array
               /\ Parsed(s).text \in {s, json}
<1> DEFINE json   == Unescape(s)
           number == isNumeric(s) /\ IsFloat(s)
           object == ~isNumeric(s) /\ IsWithin(s, "{", "}") /\ IsObject(json)
           array  == ~isNumeric(s) /\ IsWithin(s, "[", "]") /\ IsArray(json)
           true   == s = <<"true">>
           parsed == CASE true   -> Value("bool", s)
                       [] number -> Value("number", s)
                       [] object -> Value("object", json)
                       [] array  -> Value("array", json)
                       [] OTHER  -> Value("text", s)
<1>1. Parsed(s) = parsed
  BY Zenon DEF Parsed
<1>2. ~(true /\ number) /\ ~(true /\ object) /\ ~(true /\ array)
  BY TrueIs
<1>3. ~(number /\ object) /\ ~(number /\ array) /\ ~(object /\ array)
  BY DEF IsWithin
<1> HIDE DEF array, object, number, true, json
<1>4. /\ true => parsed = Value("bool", s)
      /\ number => parsed = Value("number", s)
      /\ object => parsed = Value("object", json)
      /\ array => parsed = Value("array", json)
      /\ ~true /\ ~number /\ ~object /\ ~array => parsed = Value("text", s)
  BY <1>2, <1>3
<1>5. \A kind, t : Value(kind, t).kind = kind /\ Value(kind, t).text = t
  BY DEF Value
<1>6. /\ parsed.kind # "null"
      /\ parsed.kind = "number" => number
      /\ parsed.kind = "object" => object
      /\ parsed.kind = "array" => array
      /\ parsed.kind = "text" => parsed.text = s /\ ~true /\ ~number /\ ~object /\ ~array
      /\ parsed.text \in {s, json}
  BY <1>4, <1>5
<1> HIDE DEF parsed
<1> QED
  BY <1>1, <1>4, <1>6 DEF array, object, number, true, json

\* What is between the ends of a text.
LEMMA InnerIs ==
    ASSUME NEW s \in Text, Len(s) >= 2
    PROVE  /\ SubSeq(s, 2, Len(s) - 1) \in Text
           /\ Len(SubSeq(s, 2, Len(s) - 1)) = Len(s) - 2
           /\ \A i \in 1 .. Len(s) - 2 : SubSeq(s, 2, Len(s) - 1)[i] = s[i + 1]
<1>0. Len(s) \in Nat /\ \A i \in 1 .. Len(s) : s[i] \in Tokens
  BY LenProperties DEF Text
<1> DEFINE u == SubSeq(s, 2, Len(s) - 1)
<1>1. /\ u \in Seq(Tokens)
      /\ Len(u) = IF 2 <= Len(s) - 1 THEN (Len(s) - 1) - 2 + 1 ELSE 0
      /\ \A i \in 1 .. (Len(s) - 1) - 2 + 1 : u[i] = s[2 + i - 1]
  <2>1. 2 \in Int /\ Len(s) - 1 \in Int /\ \A i \in 2 .. Len(s) - 1 : s[i] \in Tokens
    BY <1>0
  <2> QED
    BY <2>1, SubSeqProperties
<1> HIDE DEF u
<1>2. Len(u) = Len(s) - 2
  <2>1. PICK n \in Nat : n = Len(s) /\ n >= 2
    BY <1>0
  <2>2. Len(u) = IF 2 <= n - 1 THEN (n - 1) - 2 + 1 ELSE 0
    BY <1>1, <2>1
  <2>3. (IF 2 <= n - 1 THEN (n - 1) - 2 + 1 ELSE 0) = n - 2
    BY <2>1
  <2> QED
    BY <2>1, <2>2, <2>3
<1>3. \A i \in 1 .. Len(s) - 2 : u[i] = s[i + 1]
  <2>1. \A i \in 1 .. Len(s) - 2 : 2 + i - 1 = i + 1 /\ i \in 1 .. (Len(s) - 1) - 2 + 1
    BY <1>0
  <2> QED
    BY <1>1, <2>1
<1> QED
  BY <1>1, <1>2, <1>3 DEF Text, u

\* A text is what is between its ends, and these.
LEMMA InnerTokens ==
    ASSUME NEW s \in Text, NEW first, NEW last, IsWithin(s, first, last)
    PROVE  /\ Len(s) >= 2 /\ s[1] = first /\ s[Len(s)] = last /\ s # <<>>
           /\ Inner(s) \in Text
           /\ ToSet(s) \subseteq {first, last} \cup ToSet(Inner(s))
<1>1. Len(s) >= 2 /\ s[1] = first /\ s[Len(s)] = last
  BY DEF IsWithin, Last
<1>2. Len(s) \in Nat /\ DOMAIN s = 1 .. Len(s)
  BY LenProperties DEF Text
<1>3. PICK r \in Text : /\ r = Inner(s)
                        /\ Len(r) = Len(s) - 2
                        /\ \A i \in 1 .. Len(s) - 2 : r[i] = s[i + 1]
  BY <1>1, InnerIs DEF Inner
<1>4. DOMAIN r = 1 .. Len(s) - 2
  BY <1>3, LenProperties DEF Text
<1>5. ASSUME NEW i \in 1 .. Len(s), i # 1, i # Len(s)
      PROVE  s[i] \in ToSet(r)
  <2>1. i - 1 \in 1 .. Len(s) - 2 /\ (i - 1) + 1 = i
    <3>1. PICK n \in Nat : n = Len(s)
      BY <1>2
    <3>2. i \in 1 .. n /\ i # 1 /\ i # n
      BY <1>5, <3>1
    <3>3. i - 1 \in 1 .. n - 2 /\ (i - 1) + 1 = i
      BY <3>2
    <3> QED
      BY <3>1, <3>3
  <2>2. i - 1 \in DOMAIN r /\ r[i - 1] = s[i]
    BY <1>3, <1>4, <2>1
  <2> QED
    BY <2>2 DEF ToSet
<1>6. ToSet(s) \subseteq {first, last} \cup ToSet(r)
  BY <1>1, <1>2, <1>5 DEF ToSet
<1> QED
  BY <1>1, <1>2, <1>3, <1>6

\* A text is what is before one of its tokens, that, and what is after it.
LEMMA CutIs ==
    ASSUME NEW s \in Text, NEW i \in DOMAIN s
    PROVE  /\ SubSeq(s, 1, i - 1) \in Text /\ SubSeq(s, i + 1, Len(s)) \in Text
           /\ ToSet(s) = {s[i]} \cup ToSet(SubSeq(s, 1, i - 1))
                               \cup ToSet(SubSeq(s, i + 1, Len(s)))
<1> DEFINE n == Len(s)
           a == SubSeq(s, 1, i - 1)
           b == SubSeq(s, i + 1, Len(s))
<1>1. /\ n \in Nat /\ DOMAIN s = 1 .. n /\ i \in 1 .. n
      /\ \A j \in 1 .. n : s[j] \in Tokens
  BY LenProperties DEF Text
<1>2. /\ a \in Seq(Tokens) /\ Len(a) = i - 1 /\ DOMAIN a = 1 .. i - 1
      /\ \A j \in 1 .. i - 1 : a[j] = s[j]
  <2>1. 1 \in Int /\ i - 1 \in Int /\ \A j \in 1 .. i - 1 : s[j] \in Tokens
    BY <1>1
  <2>2. /\ a \in Seq(Tokens)
        /\ Len(a) = IF 1 <= i - 1 THEN (i - 1) - 1 + 1 ELSE 0
        /\ \A j \in 1 .. (i - 1) - 1 + 1 : a[j] = s[1 + j - 1]
    BY <2>1, SubSeqProperties
  <2> HIDE DEF a
  <2>3. Len(a) = i - 1
    BY <1>1, <2>2
  <2>4. \A j \in 1 .. i - 1 : j \in 1 .. (i - 1) - 1 + 1 /\ 1 + j - 1 = j
    BY <1>1
  <2> QED
    BY <2>2, <2>3, <2>4, LenProperties
<1>3. /\ b \in Seq(Tokens) /\ Len(b) = n - i /\ DOMAIN b = 1 .. n - i
      /\ \A j \in 1 .. n - i : b[j] = s[i + j]
  <2>1. i + 1 \in Int /\ n \in Int /\ \A j \in i + 1 .. n : s[j] \in Tokens
    BY <1>1
  <2>2. /\ b \in Seq(Tokens)
        /\ Len(b) = IF i + 1 <= n THEN n - (i + 1) + 1 ELSE 0
        /\ \A j \in 1 .. n - (i + 1) + 1 : b[j] = s[(i + 1) + j - 1]
    BY <2>1, SubSeqProperties
  <2> HIDE DEF b, n
  <2>3. Len(b) = n - i
    BY <1>1, <2>2
  <2>4. \A j \in 1 .. n - i : j \in 1 .. n - (i + 1) + 1 /\ (i + 1) + j - 1 = i + j
    BY <1>1
  <2> QED
    BY <2>2, <2>3, <2>4, LenProperties
<1> HIDE DEF a, b, n
<1>4. ToSet(a) \subseteq ToSet(s)
  BY <1>1, <1>2 DEF ToSet
<1>5. ToSet(b) \subseteq ToSet(s)
  <2>1. \A j \in 1 .. n - i : i + j \in 1 .. n
    BY <1>1
  <2> QED
    BY <1>1, <1>3, <2>1 DEF ToSet
<1>6. ASSUME NEW j \in 1 .. n
      PROVE  s[j] \in {s[i]} \cup ToSet(a) \cup ToSet(b)
  <2>1. CASE j < i
    <3>1. j \in DOMAIN a /\ a[j] = s[j]
      BY <1>1, <1>2, <2>1
    <3> QED
      BY <3>1 DEF ToSet
  <2>2. CASE j > i
    <3>1. j - i \in DOMAIN b /\ b[j - i] = s[j]
      BY <1>1, <1>3, <2>2
    <3> QED
      BY <3>1 DEF ToSet
  <2> QED
    BY <1>1, <2>1, <2>2
<1>7. s[i] \in ToSet(s) /\ \A x \in ToSet(s) : \E j \in 1 .. n : x = s[j]
  BY <1>1 DEF ToSet
<1> QED
  BY <1>2, <1>3, <1>4, <1>5, <1>6, <1>7 DEF a, b, n, Text

\* What the texts of numbers look like.
LEMMA FloatIs ==
    ASSUME NEW s \in Text
    PROVE  /\ IsFloat(s) => s # <<>> /\ ToSet(s) \subseteq {"7", "e+"}
           /\ isNumeric(s) /\ IsFloat(s) <=> IsDigits(s)
<1>1. IsDigits(s) => s # <<>> /\ ToSet(s) \subseteq {"7"} /\ isNumeric(s)
  <2>1. IsDigits(s) => s # <<>> /\ ToSet(s) \subseteq {"7"} /\ "7" \in ToSet(s)
    BY TextIs
  <2> QED
    BY <2>1, TextIs DEF Letters
<1>2. ASSUME NEW i \in DOMAIN s, s[i] = "e+",
             IsDigits(SubSeq(s, 1, i - 1)), IsDigits(SubSeq(s, i + 1, Len(s)))
      PROVE  s # <<>> /\ ToSet(s) \subseteq {"7", "e+"} /\ ~isNumeric(s)
  <2>1. PICK a \in Text, b \in Text :
            /\ IsDigits(a) /\ IsDigits(b)
            /\ ToSet(s) = {"e+"} \cup ToSet(a) \cup ToSet(b)
    BY <1>2, CutIs
  <2>2. ToSet(a) \subseteq {"7"} /\ ToSet(b) \subseteq {"7"}
    BY <2>1, TextIs
  <2>3. s # <<>>
    BY <2>1, TokensOf
  <2> QED
    BY <2>1, <2>2, <2>3, TextIs DEF Letters
<1> QED
  BY <1>1, <1>2 DEF IsFloat

\* The texts of JSON strings, numbers and truth values are without backslashes.
LEMMA ScalarIs ==
    ASSUME NEW s \in Text
    PROVE  /\ IsString(s) => "backslash" \notin ToSet(s)
           /\ IsScalar(s) => "backslash" \notin ToSet(s)
<1>1. ASSUME IsString(s)
      PROVE  "backslash" \notin ToSet(s)
  <2>1. /\ Len(s) >= 2 /\ s[1] = "quote" /\ s[Len(s)] = "quote"
        /\ \A i \in 2 .. Len(s) - 1 : s[i] # "backslash"
    BY <1>1 DEF IsString, Last
  <2>2. Len(s) \in Nat /\ DOMAIN s = 1 .. Len(s)
    BY TextIs
  <2>3. \A i \in DOMAIN s : s[i] # "backslash"
    BY <2>1, <2>2
  <2> QED
    BY <2>3 DEF ToSet
<1>2. s = <<"true">> => "backslash" \notin ToSet(s)
  BY TrueIs
<1>3. IsFloat(s) => "backslash" \notin ToSet(s)
  BY FloatIs
<1> QED
  BY <1>1, <1>2, <1>3 DEF IsScalar

\* So are those of arrays and objects.
LEMMA JsonIs ==
    ASSUME NEW s \in Text, IsArray(s) \/ IsObject(s)
    PROVE  "backslash" \notin ToSet(s)
<1>1. ASSUME NEW r \in Text, r = <<>> \/ IsScalar(r) \/ IsMember(r)
      PROVE  "backslash" \notin ToSet(r)
  <2>1. CASE r = <<>>
    BY <2>1, TokensOf
  <2>2. CASE IsScalar(r)
    BY <2>2, ScalarIs
  <2>3. CASE IsMember(r)
    <3>1. PICK i \in DOMAIN r : /\ r[i] = ":"
                                /\ IsString(SubSeq(r, 1, i - 1))
                                /\ IsScalar(SubSeq(r, i + 1, Len(r)))
      BY <2>3 DEF IsMember
    <3>2. PICK a \in Text, b \in Text :
              /\ IsString(a) /\ IsScalar(b)
              /\ ToSet(r) = {":"} \cup ToSet(a) \cup ToSet(b)
      BY <3>1, CutIs
    <3> QED
      BY <3>2, ScalarIs
  <2> QED
    BY <1>1, <2>1, <2>2, <2>3
<1>2. PICK first \in {"[", "{"}, last \in {"]", "}"} : IsWithin(s, first, last)
  BY DEF IsArray, IsObject
<1>3. /\ Inner(s) \in Text
      /\ ToSet(s) \subseteq {first, last} \cup ToSet(Inner(s))
  BY <1>2, InnerTokens
<1>4. "backslash" \notin ToSet(Inner(s))
  BY <1>1, <1>3 DEF IsArray, IsObject
<1> QED
  BY <1>3, <1>4

\* What is left of a text between its quotes.
Unquoted(s) == Trim(Quoted(escapeHstoreValue(s)))

\* It is the text itself if nothing in it was escaped, and only then.
LEMMA UnquotedIs ==
    ASSUME NEW s \in Text
    PROVE  Unquoted(s) = s <=> ToSet(s) \cap escaped = {}
<1> DEFINE e == escapeHstoreValue(s)
<1>1. e \in Text /\ Quoted(e) \in Text
  BY Escapes, QuotedIs
<1>2. CASE ToSet(s) \cap escaped = {}
  <2>1. e = s
    BY <1>2, PlainIsKept
  <2>2. s # <<>> => s[1] # "quote" /\ s[Len(s)] # "quote"
    BY <1>2, TextIs DEF escaped
  <2>3. Trim(Quoted(s)) = s
    BY <2>2, TrimQuoted
  <2> QED
    BY <1>2, <2>1, <2>3 DEF Unquoted
<1>3. CASE ToSet(s) \cap escaped # {}
  <2>1. s # <<>>
    BY <1>3, TokensOf
  <2>2. e # <<>> /\ e[1] # "quote" /\ e[Len(e)] = s[Len(s)]
    BY <2>1, EscapedEnds
  <2>3. Len(e) > Len(s)
    BY <1>3, EscapedLength
  <2> HIDE DEF e
  <2>4. CASE s[Len(s)] = "quote"
    <3>1. Trim(Quoted(e)) # s
      BY <1>1, <2>1, <2>4, Trimmed
    <3> QED
      BY <1>3, <3>1 DEF Unquoted, e
  <2>5. CASE s[Len(s)] # "quote"
    <3>1. Trim(Quoted(e)) = e
      BY <1>1, <2>2, <2>5, TrimQuoted
    <3>2. e # s
      BY <2>3, TextIs
    <3> QED
      BY <1>3, <3>1, <3>2 DEF Unquoted, e
  <2> QED
    BY <2>4, <2>5
<1> QED
  BY <1>2, <1>3

\* The text of an array or an object keeps its escapes, until it is parsed.
LEMMA UnquotedJson ==
    ASSUME NEW s \in Text, IsArray(s) \/ IsObject(s),
           NEW first, NEW last, IsWithin(s, first, last),
           first \notin escaped, last # "quote"
    PROVE  /\ Unquoted(s) \in Text
           /\ IsWithin(Unquoted(s), first, last)
           /\ isNumeric(Unquoted(s)) <=> isNumeric(s)
           /\ Unescape(Unquoted(s)) = s
<1> DEFINE e == escapeHstoreValue(s)
<1>1. /\ Len(s) >= 2 /\ s[1] = first /\ s[Len(s)] = last /\ s # <<>>
      /\ "backslash" \notin ToSet(s)
  BY InnerTokens, JsonIs
<1>2. /\ e \in Text /\ e # <<>> /\ e[1] = first /\ e[Len(e)] = last
      /\ Len(e) >= Len(s)
      /\ ToSet(e) \cup {"backslash"} = ToSet(s) \cup {"backslash"}
  <2>2. e \in Text
    BY Escapes
  <2>3. e # <<>> /\ e[1] = first /\ e[Len(e)] = last
    BY <1>1, EscapedEnds
  <2>4. Len(e) >= Len(s)
    BY EscapedLength
  <2>5. ToSet(e) \cup {"backslash"} = ToSet(s) \cup {"backslash"}
    BY EscapedTokens
  <2> QED
    BY <2>2, <2>3, <2>4, <2>5
<1>3. Unescape(e) = s
  BY <1>1, Unescapes
<1>4. Unquoted(s) = e
  <2>1. e[1] # "quote" /\ e[Len(e)] # "quote"
    BY <1>2 DEF escaped
  <2>2. Trim(Quoted(e)) = e
    <3> HIDE DEF e
    <3> QED
      BY <1>2, <2>1, TrimQuoted
  <2> QED
    BY <2>2 DEF Unquoted
<1> HIDE DEF e
<1>5. IsWithin(e, first, last)
  <2>1. Len(e) \in Nat /\ Len(s) \in Nat
    BY <1>2, TextIs
  <2>2. Len(e) >= 2
    BY <1>1, <1>2, <2>1
  <2> QED
    BY <1>2, <2>2 DEF IsWithin, Last
<1>6. isNumeric(e) <=> isNumeric(s)
  <2>1. "backslash" \notin Letters /\ "7" # "backslash"
    BY DEF Letters
  <2>2. isNumeric(s) <=> "7" \in ToSet(s) /\ ToSet(s) \cap Letters = {}
    BY TextIs
  <2>3. isNumeric(e) <=> "7" \in ToSet(e) /\ ToSet(e) \cap Letters = {}
    BY <1>2, TextIs
  <2> QED
    BY <1>2, <2>1, <2>2, <2>3
<1> QED
  BY <1>2, <1>3, <1>4, <1>5, <1>6

-----------------------------------------------------------------------------
(* What comes back.                                                         *)

\* What survives, kind by kind.
LEMMA SurvivesIs ==
    ASSUME NEW s \in Text
    PROVE  /\ Survives(Value("text", s)) <=>
                 /\ ~Splits(Value("text", s)) /\ ToSet(s) \cap escaped = {}
                 /\ IF isNumeric(s)
                    THEN ~IsFloat(s)
                    ELSE s # <<"true">> /\ ~IsArray(s) /\ ~IsObject(s)
           /\ \A kind \in {"array", "object"} :
                 Survives(Value(kind, s)) <=> ~Splits(Value(kind, s)) /\ ~isNumeric(s)
           /\ Survives(Value("number", s)) <=>
                 ~Splits(Value("number", s)) /\ isNumeric(s)
           /\ Survives(Value("bool", s)) <=> ~Splits(Value("bool", s))
           /\ ~Survives(Value("null", s))
<1>1. \A kind : Value(kind, s).kind = kind /\ Value(kind, s).text = s
  BY DEF Value
<1>2. \A kind, t : Has(Value(kind, s), t) <=> t \in ToSet(s)
  BY TextIs
<1>3. Survives(Value("text", s)) <=>
                 /\ ~Splits(Value("text", s)) /\ ToSet(s) \cap escaped = {}
                 /\ IF isNumeric(s)
                    THEN ~IsFloat(s)
                    ELSE s # <<"true">> /\ ~IsArray(s) /\ ~IsObject(s)
  BY <1>1, <1>2 DEF Survives, escaped
<1>4. \A kind \in {"array", "object"} :
                 Survives(Value(kind, s)) <=> ~Splits(Value(kind, s)) /\ ~isNumeric(s)
  BY <1>1 DEF Survives
<1>5. /\ Survives(Value("number", s)) <=>
             ~Splits(Value("number", s)) /\ isNumeric(s)
      /\ Survives(Value("bool", s)) <=> ~Splits(Value("bool", s))
  BY <1>1 DEF Survives
<1>6. ~Survives(Value("null", s))
  BY <1>1 DEF Survives
<1> QED
  BY <1>3, <1>4, <1>5, <1>6

\* A value without separators in it is read back as itself just when it survives.
LEMMA BackIs ==
    ASSUME NEW v \in JsonValues, ~Splits(v)
    PROVE  Back(v) = v <=> Survives(v)
<1>0. \A kind, s : /\ Value(kind, s).kind = kind /\ Value(kind, s).text = s
                   /\ Back(Value(kind, s)) = Parsed(Unquoted(s))
  BY DEF Back, Value, Unquoted
<1>0a. \A k1, k2, s1, s2 : Value(k1, s1) = Value(k2, s2) => k1 = k2 /\ s1 = s2
  BY <1>0
<1>1. CASE v = Value("null", <<>>)
  <2>1. Parsed(Unquoted(<<>>)).kind # "null"
    BY ParsedIs
  <2>2. <<>> \in Text
    BY EmptySeq DEF Text
  <2> QED
    BY <1>0, <1>1, <2>1, <2>2, SurvivesIs
<1>2. CASE v = Value("bool", <<"true">>)
  <2>1. Unquoted(<<"true">>) = <<"true">>
    <3>1. ToSet(<<"true">>) \cap escaped = {}
      BY TrueIs DEF escaped
    <3> QED
      BY <3>1, TrueIs, UnquotedIs
  <2>2. Parsed(<<"true">>) = Value("bool", <<"true">>)
    BY ParsedIs
  <2> QED
    BY <1>0, <1>2, <2>1, <2>2, TrueIs, SurvivesIs
<1>3. ASSUME NEW s \in Text, IsFloat(s), v = Value("number", s)
      PROVE  Back(v) = v <=> Survives(v)
  <2>1. ToSet(s) \cap escaped = {}
    BY <1>3, FloatIs DEF escaped
  <2>2. Unquoted(s) = s
    BY <2>1, UnquotedIs
  <2>3. isNumeric(s) => Parsed(s) = Value("number", s)
    BY <1>3, ParsedIs
  <2>4. ~isNumeric(s) => Parsed(s) # Value("number", s)
    <3>1. Parsed(s).kind = "number" => isNumeric(s)
      BY ParsedIs
    <3> QED
      BY <1>0, <3>1
  <2> QED
    BY <1>0, <1>3, <2>2, <2>3, <2>4, SurvivesIs
<1>4. ASSUME NEW s \in Text, v = Value("text", s)
      PROVE  Back(v) = v <=> Survives(v)
  <2>1. CASE ToSet(s) \cap escaped # {}
    <3>1. Unquoted(s) # s
      BY <2>1, UnquotedIs
    <3>2. Parsed(Unquoted(s)) # Value("text", s)
      <4>1. LET t == Parsed(Unquoted(s)) IN t.kind = "text" => t.text = Unquoted(s)
        BY ParsedIs
      <4> QED
        BY <1>0, <3>1, <4>1
    <3> QED
      BY <1>0, <1>4, <2>1, <3>2, SurvivesIs
  <2>2. CASE ToSet(s) \cap escaped = {}
    <3>1. Unquoted(s) = s
      BY <2>2, UnquotedIs
    <3>2. Unescape(s) = s
      <4>1. "backslash" \notin ToSet(s)
        BY <2>2 DEF escaped
      <4>2. escapeHstoreValue(s) = s
        BY <2>2, PlainIsKept
      <4>3. Unescape(escapeHstoreValue(s)) = s
        BY <4>1, Unescapes
      <4> QED
        BY <4>2, <4>3
    <3>3. /\ IsArray(s) => IsWithin(s, "[", "]")
          /\ IsObject(s) => IsWithin(s, "{", "}")
      BY DEF IsArray, IsObject
    <3>4. Parsed(s) = Value("text", s) <=>
             IF isNumeric(s) THEN ~IsFloat(s)
                             ELSE s # <<"true">> /\ ~IsArray(s) /\ ~IsObject(s)
      <4> DEFINE number == isNumeric(s) /\ IsFloat(s)
                 object == /\ ~isNumeric(s) /\ IsWithin(s, "{", "}")
                           /\ IsObject(Unescape(s))
                 array  == /\ ~isNumeric(s) /\ IsWithin(s, "[", "]")
                           /\ IsArray(Unescape(s))
      <4>1. /\ s # <<"true">> /\ ~number /\ ~object /\ ~array
                  => Parsed(s) = Value("text", s)
            /\ Parsed(s).kind = "text" => /\ s # <<"true">>
                                          /\ ~number /\ ~object /\ ~array
        BY ParsedIs
      <4>2. Parsed(s) = Value("text", s) <=> /\ s # <<"true">>
                                             /\ ~number /\ ~object /\ ~array
        BY <1>0, <4>1
      <4> QED
        BY <3>2, <3>3, <4>2, TrueIs
    <3> QED
      BY <1>0, <1>4, <2>2, <3>1, <3>4, SurvivesIs
  <2> QED
    BY <2>1, <2>2
<1>5. ASSUME NEW s \in Text, IsArray(s), v = Value("array", s)
      PROVE  Back(v) = v <=> Survives(v)
  <2> DEFINE u == Unquoted(s)
  <2>1. IsWithin(s, "[", "]")
    BY <1>5 DEF IsArray
  <2>2. /\ IsWithin(u, "[", "]")
        /\ isNumeric(u) <=> isNumeric(s)
        /\ Unescape(u) = s
    BY <1>5, <2>1, UnquotedJson DEF escaped
  <2> HIDE DEF u
  <2>3. ~isNumeric(s) => Parsed(u) = Value("array", s)
    BY <1>5, <2>2, ParsedIs
  <2>4. isNumeric(s) => Parsed(u) # Value("array", s)
    <3>1. Parsed(u).kind = "array" => ~isNumeric(u)
      BY ParsedIs
    <3> QED
      BY <1>0, <2>2, <3>1
  <2> QED
    BY <1>0, <1>5, <2>3, <2>4, SurvivesIs DEF u
<1>6. ASSUME NEW s \in Text, IsObject(s), v = Value("object", s)
      PROVE  Back(v) = v <=> Survives(v)
  <2> DEFINE u == Unquoted(s)
  <2>1. IsWithin(s, "{", "}")
    BY <1>6 DEF IsObject
  <2>2. /\ IsWithin(u, "{", "}")
        /\ isNumeric(u) <=> isNumeric(s)
        /\ Unescape(u) = s
    BY <1>6, <2>1, UnquotedJson DEF escaped
  <2> HIDE DEF u
  <2>3. ~isNumeric(s) => Parsed(u) = Value("object", s)
    BY <1>6, <2>2, ParsedIs
  <2>4. isNumeric(s) => Parsed(u) # Value("object", s)
    <3>1. Parsed(u).kind = "object" => ~isNumeric(u)
      BY ParsedIs
    <3> QED
      BY <1>0, <2>2, <3>1
  <2> QED
    BY <1>0, <1>6, <2>3, <2>4, SurvivesIs DEF u
<1>7. v.kind \in Kinds /\ v.text \in Text /\ v = Value(v.kind, v.text)
  BY DEF JsonValues, Value
<1>8. /\ v.kind = "null" => v.text = <<>>
      /\ v.kind = "bool" => v.text = <<"true">>
      /\ v.kind = "number" => IsFloat(v.text)
      /\ v.kind = "array" => IsArray(v.text)
      /\ v.kind = "object" => IsObject(v.text)
  BY DEF JsonValues
<1> QED
  BY <1>1, <1>2, <1>3, <1>4, <1>5, <1>6, <1>7, <1>8 DEF Kinds

\* Nothing that is read has a separator in it.
LEMMA ReadTokens ==
    ASSUME NEW s \in Text, NEW key \in DOMAIN hstoreStrToMap(s)
    PROVE  LET v == hstoreStrToMap(s)[key]
           IN  "comma" \notin ToSet(v.text) /\ "arrow" \notin ToSet(v.text)
<1> DEFINE pairs == Split(s, "comma")
           Part(j) == Split(pairs[j], "arrow")
           read == {j \in DOMAIN pairs : Len(Part(j)) = 2}
           Key(j) == Trim(Part(j)[1])
           Same == {j \in read : Key(j) = key}
           i == Max(Same)
           u == Trim(Part(i)[2])
<1>0. hstoreStrToMap(s) = [k \in {Key(j) : j \in read} |->
            Parsed(Trim(Part(Max({j \in read : Key(j) = k}))[2]))]
  BY DEF hstoreStrToMap
<1>1. hstoreStrToMap(s)[key] = Parsed(u) /\ key \in {Key(j) : j \in read}
  BY <1>0
<1>2. pairs \in Seq(Text)
  BY SplitTokens
<1>3. Len(pairs) \in Nat /\ DOMAIN pairs = 1 .. Len(pairs)
  BY <1>2, LenProperties
<1>4. Same \in SUBSET (1 .. Len(pairs)) /\ Same # {}
  BY <1>1, <1>3
<1>5. i \in Same
  <2> HIDE DEF Same
  <2> QED
    BY <1>3, <1>4, MinAndMax
<1>6. i \in DOMAIN pairs /\ Len(Part(i)) = 2
  BY <1>5
<1> HIDE DEF i
<1>7. PICK p \in Text : p = pairs[i] /\ "comma" \notin ToSet(p)
  <2>1. pairs[i] \in Text
    BY <1>2, <1>3, <1>6, ElementOfSeq
  <2>2. ToSet(Split(s, "comma")[i]) \subseteq ToSet(s) \ {"comma"}
    BY <1>6, PartsOfText
  <2> QED
    BY <2>1, <2>2
<1>8. PICK r \in Text : /\ r = Part(i)[2]
                        /\ "comma" \notin ToSet(r) /\ "arrow" \notin ToSet(r)
  <2>1. Split(p, "arrow") \in Seq(Text) /\ Len(Split(p, "arrow")) = 2
    BY <1>6, <1>7, SplitTokens
  <2>2. 2 \in 1 .. Len(Split(p, "arrow")) /\ 2 \in DOMAIN Split(p, "arrow")
    BY <2>1, LenProperties
  <2>3. Split(p, "arrow")[2] \in Text
    BY <2>1, <2>2, ElementOfSeq
  <2>4. ToSet(Split(p, "arrow")[2]) \subseteq ToSet(p) \ {"arrow"}
    BY <2>2, PartsOfText
  <2> QED
    BY <1>7, <2>3, <2>4
<1>9. PICK t \in Text : /\ t = u
                        /\ "comma" \notin ToSet(t) /\ "arrow" \notin ToSet(t)
  <2>1. Trim(r) \in Text /\ ToSet(Trim(r)) \subseteq ToSet(r)
    BY Trimmed
  <2> QED
    BY <1>8, <2>1
<1>10. "comma" \notin ToSet(Unescape(t)) /\ "arrow" \notin ToSet(Unescape(t))
  BY <1>9, UnescapeTokens
<1>11. Parsed(t).text \in {t, Unescape(t)}
  BY ParsedIs
<1> QED
  BY <1>1, <1>9, <1>10, <1>11

\* A value alone is read back as itself just when it has no separator in it and
\* is parsed as itself.
LEMMA ReadsBackAlone ==
    ASSUME NEW k \in Letters, NEW v \in Values
    PROVE  ReadBack(<<<<k, v>>>>) = [key \in {<<k>>} |-> v] <=> ~Splits(v) /\ Back(v) = v
<1>0. Splits(v) <=> "comma" \in ToSet(v.text) \/ "arrow" \in ToSet(v.text)
  BY DEF Splits, Has, ToSet
<1>1. <<<<k, v>>>> \in Seq(Entries)
  <2>1. <<k, v>> \in Entries
    BY DEF Entries
  <2> QED
    BY <2>1
<1>2. PICK ps \in Seq(Entries) : ps = <<<<k, v>>>>
  BY <1>1, Zenon
<1>3. Len(ps) = 1 /\ ps[1][1] = k /\ ps[1][2] = v
  BY <1>2
<1>4. ASSUME ~Splits(v)
      PROVE  /\ <<k>> \in DOMAIN ReadBack(ps) /\ ReadBack(ps)[<<k>>] = Back(v)
             /\ DOMAIN ReadBack(ps) \subseteq {<<k>>}
  <2>1. /\ \A i \in 1 .. Len(ps) : "comma" \notin ToSet(ps[i][2].text)
        /\ \A i, j \in 1 .. Len(ps) : ps[i][1] = ps[j][1] => i = j
        /\ 1 \in 1 .. Len(ps) /\ "arrow" \notin ToSet(ps[1][2].text)
    BY <1>0, <1>3, <1>4
  <2>2. /\ <<ps[1][1]>> \in DOMAIN ReadBack(ps)
        /\ ReadBack(ps)[<<ps[1][1]>>] = Back(ps[1][2])
        /\ DOMAIN ReadBack(ps) \subseteq {<<ps[j][1]>> : j \in 1 .. Len(ps)}
    BY <2>1, ReadsBack
  <2> QED
    BY <1>3, <2>2
<1>5. ReadBack(ps) = [key \in DOMAIN ReadBack(ps) |-> ReadBack(ps)[key]]
  BY DEF ReadBack, hstoreStrToMap
<1>6. ASSUME ~Splits(v), Back(v) = v
      PROVE  ReadBack(ps) = [key \in {<<k>>} |-> v]
  <2>1. DOMAIN ReadBack(ps) = {<<k>>} /\ ReadBack(ps)[<<k>>] = v
    BY <1>4, <1>6
  <2>2. ReadBack(ps) = [key \in {<<k>>} |-> v]
    BY <1>5, <2>1
  <2> QED
    BY <2>2
<1>7. ASSUME ReadBack(ps) = [key \in {<<k>>} |-> v]
      PROVE  ~Splits(v)
  <2>1. <<k>> \in DOMAIN ReadBack(ps) /\ ReadBack(ps)[<<k>>] = v
    BY <1>7
  <2>2. jsonToHstoreStr(ps) \in Text
    BY WritesPairs
  <2> QED
    BY <1>0, <2>1, <2>2, ReadTokens DEF ReadBack
<1>8. ASSUME ReadBack(ps) = [key \in {<<k>>} |-> v]
      PROVE  Back(v) = v
  <2>1. ReadBack(ps) = [key \in {<<k>>} |-> v]
    BY <1>8
  <2>2. ReadBack(ps)[<<k>>] = v
    BY <2>1
  <2>3. ~Splits(v)
    BY <1>7, <1>8
  <2> QED
    BY <1>4, <2>2, <2>3
<1> QED
  BY <1>2, <1>6, <1>7, <1>8

\* What JSON has the codec can be given.
LEMMA JsonValuesAreValues == JsonValues \subseteq Values
BY DEF JsonValues, Values

\* In any metadata with different keys and no value with ", " in it, every value
\* that survives is read back under its key.
THEOREM PairsSurvive ==
    ASSUME NEW ps \in Seq(Letters \X JsonValues),
           \A i \in 1 .. Len(ps) : ~Has(ps[i][2], "comma"),
           \A i, j \in 1 .. Len(ps) : ps[i][1] = ps[j][1] => i = j,
           NEW i \in 1 .. Len(ps), Survives(ps[i][2])
    PROVE  /\ <<ps[i][1]>> \in DOMAIN ReadBack(ps)
           /\ ReadBack(ps)[<<ps[i][1]>>] = ps[i][2]
<1>1. ps \in Seq(Entries)
  BY JsonValuesAreValues DEF Entries
<1>2. \A v, t : Has(v, t) <=> t \in ToSet(v.text)
  BY DEF Has, ToSet
<1>3. ps[i] \in Letters \X JsonValues
  BY LenProperties
<1>4. ps[i][2] \in JsonValues /\ ~Splits(ps[i][2])
  BY <1>3 DEF Survives
<1>5. "arrow" \notin ToSet(ps[i][2].text)
  BY <1>2, <1>4 DEF Splits
<1>6. \A j \in 1 .. Len(ps) : "comma" \notin ToSet(ps[j][2].text)
  BY <1>2
<1>7. /\ <<ps[i][1]>> \in DOMAIN ReadBack(ps)
      /\ ReadBack(ps)[<<ps[i][1]>>] = Back(ps[i][2])
  BY <1>1, <1>5, <1>6, ReadsBack
<1>8. Back(ps[i][2]) = ps[i][2]
  BY <1>4, BackIs
<1> QED
  BY <1>7, <1>8

\* Of all the values of JsonValues, with texts of any length and arrays and objects
\* of at most one scalar, those that survive, and they alone, come back as they were
\* stored; and beside any such value without ", " in it they do.
THEOREM SurvivorsAreFaithful ==
    ASSUME NEW other \in JsonValues
    PROVE  Faithful(other, JsonValues)
<1>1. SUFFICES ASSUME NEW value \in JsonValues
      PROVE  /\ ReadBack(<<<<"k", value>>>>) = [key \in {<<"k">>} |-> value] <=> Survives(value)
             /\ Survives(other) /\ ~Has(value, "comma") =>
                   /\ ReadBack(<<<<"k", value>>, <<"x", other>>>>)[<<"x">>] = other
                   /\ ReadBack(<<<<"k", other>>, <<"x", value>>>>)[<<"k">>] = other
  BY DEF Faithful
<1>2. "k" \in Letters /\ "x" \in Letters
  BY DEF Letters
<1>3. ReadBack(<<<<"k", value>>>>) = [key \in {<<"k">>} |-> value] <=> Survives(value)
  <2>1. value \in Values
    BY JsonValuesAreValues
  <2>2. Survives(value) => ~Splits(value)
    BY DEF Survives
  <2>3. ~Splits(value) => (Back(value) = value <=> Survives(value))
    BY BackIs
  <2> QED
    BY <1>2, <2>1, <2>2, <2>3, ReadsBackAlone
<1>4. ASSUME NEW a \in JsonValues, NEW b \in JsonValues,
             ~Has(a, "comma"), ~Has(b, "comma")
      PROVE  /\ Survives(a) => ReadBack(<<<<"k", a>>, <<"x", b>>>>)[<<"k">>] = a
             /\ Survives(b) => ReadBack(<<<<"k", a>>, <<"x", b>>>>)[<<"x">>] = b
  <2>1. <<<<"k", a>>, <<"x", b>>>> \in Seq(Letters \X JsonValues)
    <3>1. <<"k", a>> \in Letters \X JsonValues /\ <<"x", b>> \in Letters \X JsonValues
      BY <1>2
    <3> QED
      BY <3>1
  <2>2. PICK ps \in Seq(Letters \X JsonValues) : ps = <<<<"k", a>>, <<"x", b>>>>
    BY <2>1, Zenon
  <2>3. /\ Len(ps) = 2 /\ ps[1][1] = "k" /\ ps[1][2] = a
        /\ ps[2][1] = "x" /\ ps[2][2] = b
    BY <2>2
  <2>4. /\ \A i \in 1 .. Len(ps) : ~Has(ps[i][2], "comma")
        /\ \A i, j \in 1 .. Len(ps) : ps[i][1] = ps[j][1] => i = j
        /\ 1 \in 1 .. Len(ps) /\ 2 \in 1 .. Len(ps)
    BY <1>4, <2>3
  <2>5. Survives(ps[1][2]) => ReadBack(ps)[<<ps[1][1]>>] = ps[1][2]
    BY <2>4, PairsSurvive
  <2>6. Survives(ps[2][2]) => ReadBack(ps)[<<ps[2][1]>>] = ps[2][2]
    BY <2>4, PairsSurvive
  <2> QED
    BY <2>2, <2>3, <2>5, <2>6
<1>5. Survives(other) => ~Has(other, "comma")
  BY DEF Survives, Splits
<1> QED
  BY <1>3, <1>4, <1>5

-----------------------------------------------------------------------------
(* The metadata of the rows.                                               *)

\* What is put between two tokens is between them.
LEMMA WithinIs ==
    ASSUME NEW s \in Text, NEW first \in Tokens, NEW last \in Tokens
    PROVE  /\ Within(first, s, last) \in Text
           /\ IsWithin(Within(first, s, last), first, last)
           /\ Inner(Within(first, s, last)) = s
           /\ ToSet(Within(first, s, last)) = {first, last} \cup ToSet(s)
<1>1. <<first>> \in Seq(Tokens) /\ <<last>> \in Seq(Tokens)
  OBVIOUS
<1>2. PICK f \in Seq(Tokens), l \in Seq(Tokens) : f = <<first>> /\ l = <<last>>
  BY <1>1, Zenon
<1>3. /\ Len(f) = 1 /\ f[1] = first /\ ToSet(f) = {first}
      /\ Len(l) = 1 /\ l[1] = last /\ ToSet(l) = {last}
  <2>1. Len(f) = 1 /\ f[1] = first /\ Len(l) = 1 /\ l[1] = last
    BY <1>2
  <2>2. ToSet(f) = {first} /\ ToSet(l) = {last}
    BY <2>1, LenProperties DEF ToSet
  <2> QED
    BY <2>1, <2>2
<1>4. PICK n \in Nat : n = Len(s)
  BY LenProperties DEF Text
<1>5. PICK u \in Seq(Tokens) : u = f \o s
  BY ConcatProperties DEF Text
<1>6. /\ Len(u) = 1 + n /\ ToSet(u) = {first} \cup ToSet(s)
      /\ \A i \in 1 .. 1 + n : u[i] = IF i <= 1 THEN f[i] ELSE s[i - 1]
  <2>1. /\ Len(u) = Len(f) + Len(s)
        /\ \A i \in 1 .. Len(f) + Len(s) :
               u[i] = IF i <= Len(f) THEN f[i] ELSE s[i - Len(f)]
    BY <1>5, ConcatProperties DEF Text
  <2>2. ToSet(u) = ToSet(f) \cup ToSet(s)
    BY <1>5, TokensOf DEF Text
  <2> QED
    BY <1>3, <1>4, <2>1, <2>2
<1>7. PICK w \in Seq(Tokens) : w = u \o l
  BY ConcatProperties
<1>8. /\ Len(w) = 1 + n + 1 /\ ToSet(w) = {first, last} \cup ToSet(s)
      /\ \A i \in 1 .. 1 + n + 1 : w[i] = IF i <= 1 + n THEN u[i] ELSE l[i - (1 + n)]
  <2>1. /\ Len(w) = 1 + n + 1
        /\ \A i \in 1 .. 1 + n + 1 : w[i] = IF i <= 1 + n THEN u[i] ELSE l[i - (1 + n)]
    <3>1. /\ Len(w) = Len(u) + Len(l)
          /\ \A i \in 1 .. Len(u) + Len(l) :
                 w[i] = IF i <= Len(u) THEN u[i] ELSE l[i - Len(u)]
      BY <1>7, ConcatProperties
    <3> QED
      BY <1>3, <1>6, <3>1
  <2>2. ToSet(w) = ToSet(u) \cup ToSet(l)
    BY <1>7, TokensOf
  <2> QED
    BY <1>3, <1>6, <2>1, <2>2
<1>9. w = Within(first, s, last)
  BY <1>2, <1>5, <1>7 DEF Within
<1>10. Len(w) >= 2 /\ w[1] = first /\ w[Len(w)] = last
  <2>1. w[1] = u[1] /\ u[1] = f[1]
    BY <1>6, <1>8
  <2>2. w[1 + n + 1] = l[1]
    BY <1>8
  <2> QED
    BY <1>3, <1>8, <2>1, <2>2
<1>11. IsWithin(w, first, last)
  BY <1>10 DEF IsWithin, Last
<1>12. PICK r \in Seq(Tokens) : /\ r = Inner(w) /\ Len(r) = Len(w) - 2
                               /\ \A i \in 1 .. Len(w) - 2 : r[i] = w[i + 1]
  BY <1>10, InnerIs DEF Inner, Text
<1>13. Len(r) = n /\ \A i \in 1 .. n : r[i] = s[i]
  <2>1. ASSUME NEW i \in 1 .. n
        PROVE  w[i + 1] = s[i]
    <3>1. i + 1 \in 1 .. 1 + n /\ i + 1 \in 1 .. 1 + n + 1 /\ ~(i + 1 <= 1)
          /\ (i + 1) - 1 = i
      OBVIOUS
    <3> QED
      BY <1>6, <1>8, <3>1
  <2> QED
    BY <1>8, <1>12, <2>1
<1>14. r = s
  BY <1>4, <1>13, SeqEqual DEF Text
<1> QED
  BY <1>8, <1>9, <1>11, <1>12, <1>14 DEF Text

\* A token other than those with a meaning makes a string.
LEMMA StringsAre ==
    ASSUME NEW t \in Tokens \ {"quote", "backslash"}
    PROVE  /\ Quoted(<<t>>) \in Text /\ IsString(Quoted(<<t>>))
           /\ ToSet(Quoted(<<t>>)) = {"quote", t}
           /\ Len(Quoted(<<t>>)) = 3
<1>1. <<t>> \in Text
  BY DEF Text
<1>2. PICK y \in Text : y = <<t>>
  BY <1>1, Zenon
<1>3. Len(y) = 1 /\ y[1] = t /\ ToSet(y) = {t}
  BY <1>2 DEF ToSet
<1>4. PICK q \in Text : /\ q = Quoted(y) /\ Len(q) = 3
                        /\ \A i \in 1 .. 3 : q[i] = IF i \in 2 .. 2 THEN y[i - 1]
                                                               ELSE "quote"
                        /\ ToSet(q) = ToSet(y) \cup {"quote"}
  <2>1. /\ Quoted(y) \in Text /\ Len(Quoted(y)) = 1 + 2
        /\ \A i \in 1 .. 1 + 2 : Quoted(y)[i] = IF i \in 2 .. 1 + 1 THEN y[i - 1]
                                                                 ELSE "quote"
        /\ ToSet(Quoted(y)) = ToSet(y) \cup {"quote"}
    BY <1>3, QuotedIs
  <2> QED
    BY <2>1
<1>5. q[1] = "quote" /\ q[2] = t /\ q[3] = "quote"
  BY <1>3, <1>4
<1>6. IsString(q)
  BY <1>4, <1>5 DEF IsString, Last
<1> QED
  BY <1>2, <1>3, <1>4, <1>6

\* The scalars of the instances are scalars.
LEMMA ScalarsAre ==
    ASSUME NEW s \in Scalars
    PROVE  s \in Text /\ IsScalar(s) /\ "arrow" \notin ToSet(s)
<1>1. \A t \in {"7", "true", "x", "comma", "e+"} :
          t \in Tokens /\ t \notin {"quote", "backslash", "arrow"}
  BY DEF Tokens, Letters
<1>2. CASE s = <<"true">>
  BY <1>2, TrueIs DEF IsScalar
<1>3. CASE s = <<"7">>
  <2>1. s \in Text /\ ToSet(s) = {"7"}
    BY <1>1, <1>3 DEF Text, ToSet
  <2>2. IsDigits(s)
    BY <1>3 DEF IsDigits
  <2> QED
    BY <2>1, <2>2 DEF IsScalar, IsFloat
<1>4. CASE s = <<"7", "e+", "7">>
  <2>1. s \in Text
    BY <1>1, <1>4 DEF Text
  <2>2. IsFloat(s)
    <3>1. PICK x \in Seq(Tokens) : x = s
      BY <2>1 DEF Text
    <3>2. Len(x) = 3 /\ DOMAIN x = 1 .. 3 /\ x[1] = "7" /\ x[2] = "e+" /\ x[3] = "7"
      BY <1>4, <3>1
    <3>3. ASSUME NEW j \in {1, 3}
          PROVE  IsDigits(SubSeq(x, j, j))
      <4>1. j \in Int /\ \A i \in j .. j : x[i] \in Tokens
        BY <1>1, <3>2
      <4>a. /\ SubSeq(x, j, j) \in Seq(Tokens)
            /\ Len(SubSeq(x, j, j)) = IF j <= j THEN j - j + 1 ELSE 0
            /\ \A i \in 1 .. j - j + 1 : SubSeq(x, j, j)[i] = x[j + i - 1]
        BY <4>1, SubSeqProperties
      <4>2. PICK a \in Seq(Tokens) :
                /\ a = SubSeq(x, j, j)
                /\ Len(a) = IF j <= j THEN j - j + 1 ELSE 0
                /\ \A i \in 1 .. j - j + 1 : a[i] = x[j + i - 1]
        BY <4>a
      <4>3. Len(a) = 1 /\ a[1] = "7"
        BY <3>2, <4>2
      <4>4. DOMAIN a = 1 .. 1 /\ a # <<>>
        BY <4>3, LenProperties, EmptySeq
      <4> QED
        BY <4>2, <4>3, <4>4 DEF IsDigits
    <3>4. IsDigits(SubSeq(x, 1, 2 - 1)) /\ IsDigits(SubSeq(x, 2 + 1, Len(x)))
      BY <3>2, <3>3
    <3> QED
      BY <3>1, <3>2, <3>4 DEF IsFloat
  <2> QED
    BY <2>1, <2>2, FloatIs DEF IsScalar
<1>5. CASE s \in {Quoted(<<"x">>), Quoted(<<"7">>), Quoted(<<"comma">>)}
  BY <1>1, <1>5, StringsAre DEF IsScalar
<1> QED
  BY <1>2, <1>3, <1>4, <1>5 DEF Scalars

\* The members of the instances are members.
LEMMA MembersAre ==
    ASSUME NEW key \in {"k", "7"}, NEW s \in Scalars
    PROVE  /\ Member(key, s) \in Text /\ IsMember(Member(key, s))
           /\ "arrow" \notin ToSet(Member(key, s))
<1>1. key \in Tokens \ {"quote", "backslash"} /\ ":" \in Tokens
  BY DEF Tokens, Letters
<1>2. PICK q \in Seq(Tokens) : /\ q = Quoted(<<key>>) /\ Len(q) = 3
                              /\ IsString(q) /\ "arrow" \notin ToSet(q)
  BY <1>1, StringsAre DEF Text
<1>3. <<":">> \in Seq(Tokens)
  BY <1>1
<1>4. PICK c \in Seq(Tokens) : c = <<":">>
  BY <1>3, Zenon
<1>5. Len(c) = 1 /\ c[1] = ":" /\ ToSet(c) = {":"}
  BY <1>4 DEF ToSet
<1>6. s \in Seq(Tokens) /\ IsScalar(s) /\ "arrow" \notin ToSet(s)
  BY ScalarsAre DEF Text
<1>7. PICK n \in Nat : n = Len(s)
  BY <1>6, LenProperties
<1>8. PICK u \in Seq(Tokens) : u = q \o c
  BY ConcatProperties
<1>9. /\ Len(u) = 4 /\ ToSet(u) = ToSet(q) \cup {":"}
      /\ \A i \in 1 .. 4 : u[i] = IF i <= 3 THEN q[i] ELSE c[i - 3]
  <2>1. /\ Len(u) = Len(q) + Len(c)
        /\ \A i \in 1 .. Len(q) + Len(c) :
               u[i] = IF i <= Len(q) THEN q[i] ELSE c[i - Len(q)]
    BY <1>8, ConcatProperties
  <2>2. ToSet(u) = ToSet(q) \cup ToSet(c)
    BY <1>8, TokensOf
  <2> QED
    BY <1>2, <1>5, <2>1, <2>2
<1>10. PICK m \in Seq(Tokens) : m = u \o s
  BY <1>6, ConcatProperties
<1>11. /\ Len(m) = 4 + n /\ ToSet(m) = ToSet(u) \cup ToSet(s)
       /\ \A i \in 1 .. 4 + n : m[i] = IF i <= 4 THEN u[i] ELSE s[i - 4]
  <2>1. /\ Len(m) = Len(u) + Len(s)
        /\ \A i \in 1 .. Len(u) + Len(s) :
               m[i] = IF i <= Len(u) THEN u[i] ELSE s[i - Len(u)]
    BY <1>6, <1>10, ConcatProperties
  <2>2. ToSet(m) = ToSet(u) \cup ToSet(s)
    BY <1>6, <1>10, TokensOf
  <2> QED
    BY <1>7, <1>9, <2>1, <2>2
<1>12. m = Member(key, s)
  BY <1>2, <1>4, <1>8, <1>10 DEF Member
<1>13. m[4] = ":" /\ 4 \in DOMAIN m
  <2>1. DOMAIN m = 1 .. 4 + n
    BY <1>11, LenProperties
  <2>2. u[4] = c[1]
    BY <1>9
  <2> QED
    BY <1>5, <1>11, <2>1, <2>2
<1>14. SubSeq(m, 1, 4 - 1) = q
  <2>1. \A i \in 1 .. 3 : m[i] = q[i]
    BY <1>9, <1>11
  <2>2. \A i \in 1 .. 4 + n : m[i] \in Tokens
    BY <1>11, LenProperties
  <2>3. \A i \in 1 .. 4 - 1 : m[i] \in Tokens
    BY <2>2
  <2>4. PICK a \in Seq(Tokens) :
            /\ a = SubSeq(m, 1, 4 - 1)
            /\ Len(a) = IF 1 <= 4 - 1 THEN (4 - 1) - 1 + 1 ELSE 0
            /\ \A i \in 1 .. (4 - 1) - 1 + 1 : a[i] = m[1 + i - 1]
    <3>1. 1 \in Int /\ 4 - 1 \in Int
      OBVIOUS
    <3>2. /\ SubSeq(m, 1, 4 - 1) \in Seq(Tokens)
          /\ Len(SubSeq(m, 1, 4 - 1)) = IF 1 <= 4 - 1 THEN (4 - 1) - 1 + 1 ELSE 0
          /\ \A i \in 1 .. (4 - 1) - 1 + 1 : SubSeq(m, 1, 4 - 1)[i] = m[1 + i - 1]
      BY <2>3, <3>1, SubSeqProperties
    <3> QED
      BY <3>2
  <2>5. Len(a) = 3 /\ \A i \in 1 .. 3 : a[i] = m[i]
    BY <2>4
  <2>6. a = q
    BY <1>2, <2>1, <2>5, SeqEqual
  <2> QED
    BY <2>4, <2>6
<1>15. SubSeq(m, 4 + 1, Len(m)) = s
  <2>1. \A i \in 1 .. 4 + n : m[i] \in Tokens
    BY <1>11, LenProperties
  <2>2. 4 + 1 \in Int /\ 4 + n \in Int /\ \A i \in 4 + 1 .. 4 + n : m[i] \in Tokens
    BY <2>1
  <2>3. PICK b \in Seq(Tokens) :
            /\ b = SubSeq(m, 4 + 1, 4 + n)
            /\ Len(b) = IF 4 + 1 <= 4 + n THEN (4 + n) - (4 + 1) + 1 ELSE 0
            /\ \A i \in 1 .. (4 + n) - (4 + 1) + 1 : b[i] = m[(4 + 1) + i - 1]
    <3>1. /\ SubSeq(m, 4 + 1, 4 + n) \in Seq(Tokens)
          /\ Len(SubSeq(m, 4 + 1, 4 + n)) =
                IF 4 + 1 <= 4 + n THEN (4 + n) - (4 + 1) + 1 ELSE 0
          /\ \A i \in 1 .. (4 + n) - (4 + 1) + 1 :
                SubSeq(m, 4 + 1, 4 + n)[i] = m[(4 + 1) + i - 1]
      BY <2>2, SubSeqProperties
    <3> QED
      BY <3>1
  <2>4. Len(b) = n
    BY <2>3
  <2>5. ASSUME NEW i \in 1 .. n
        PROVE  b[i] = s[i]
    <3>1. /\ i \in 1 .. (4 + n) - (4 + 1) + 1 /\ (4 + 1) + i - 1 = 4 + i
          /\ 4 + i \in 1 .. 4 + n /\ ~(4 + i <= 4) /\ (4 + i) - 4 = i
      OBVIOUS
    <3> QED
      BY <1>11, <2>3, <3>1
  <2>6. b = s
    BY <1>6, <1>7, <2>4, <2>5, SeqEqual
  <2> QED
    BY <1>11, <2>3, <2>6
<1>16. IsMember(m)
  BY <1>2, <1>6, <1>13, <1>14, <1>15 DEF IsMember
<1>17. "arrow" \notin ToSet(m)
  BY <1>2, <1>6, <1>9, <1>11
<1> QED
  BY <1>12, <1>16, <1>17 DEF Text

\* The values of the instances are values that JSON has.
LEMMA InstancesAreJson == Texts \cup Others \subseteq JsonValues
<1>1. ASSUME NEW s \in Text
      PROVE  /\ Value("text", s) \in JsonValues
             /\ s = <<>> => Value("null", s) \in JsonValues
             /\ s = <<"true">> => Value("bool", s) \in JsonValues
             /\ IsFloat(s) => Value("number", s) \in JsonValues
             /\ IsArray(s) /\ "arrow" \notin ToSet(s) => Value("array", s) \in JsonValues
             /\ IsObject(s) /\ "arrow" \notin ToSet(s) => Value("object", s) \in JsonValues
  <2>1. \A kind : Has(Value(kind, s), "arrow") <=> "arrow" \in ToSet(s)
    BY TextIs
  <2>2. \A kind : Value(kind, s).kind = kind /\ Value(kind, s).text = s
    BY DEF Value
  <2>3. \A kind \in Kinds : Value(kind, s) \in [kind : Kinds, text : Text]
    BY DEF Value
  <2> QED
    BY <2>1, <2>2, <2>3 DEF JsonValues, Kinds
<1>2. Texts \subseteq JsonValues
  <2>1. BoundedSeq(Tokens, 3) \subseteq Text
    <3>1. \A m \in 0 .. 3 : [1 .. m -> Tokens] \subseteq Seq(Tokens)
      OBVIOUS
    <3> QED
      BY <3>1 DEF BoundedSeq, SeqOf, Text
  <2> QED
    BY <1>1, <2>1 DEF Texts
<1>4. <<>> \in Text /\ ToSet(<<>>) = {}
  BY EmptySeq, TokensOf DEF Text
<1>5. ASSUME NEW s \in Scalars \cup {<<>>}
      PROVE  /\ Within("[", s, "]") \in Text /\ IsArray(Within("[", s, "]"))
             /\ "arrow" \notin ToSet(Within("[", s, "]"))
  <2>1. s \in Text /\ (s = <<>> \/ IsScalar(s)) /\ "arrow" \notin ToSet(s)
    BY <1>4, ScalarsAre
  <2>2. "[" \in Tokens /\ "]" \in Tokens
    BY DEF Tokens
  <2>3. PICK first \in Tokens, last \in Tokens : first = "[" /\ last = "]"
    BY <2>2
  <2>4. PICK w \in Text : /\ w = Within(first, s, last)
                          /\ IsWithin(w, first, last) /\ Inner(w) = s
                          /\ ToSet(w) = {first, last} \cup ToSet(s)
    <3>1. s \in Text
      BY <2>1
    <3> QED
      BY <3>1, WithinIs
  <2> QED
    BY <2>1, <2>3, <2>4 DEF IsArray
<1>6. ASSUME NEW s \in {Member(m[1], m[2]) : m \in {"k", "7"} \X Scalars} \cup {<<>>}
      PROVE  /\ Within("{", s, "}") \in Text /\ IsObject(Within("{", s, "}"))
             /\ "arrow" \notin ToSet(Within("{", s, "}"))
  <2>1. s \in Text /\ (s = <<>> \/ IsMember(s)) /\ "arrow" \notin ToSet(s)
    BY <1>4, MembersAre
  <2>2. "{" \in Tokens /\ "}" \in Tokens
    BY DEF Tokens
  <2>3. PICK first \in Tokens, last \in Tokens : first = "{" /\ last = "}"
    BY <2>2
  <2>4. PICK w \in Text : /\ w = Within(first, s, last)
                          /\ IsWithin(w, first, last) /\ Inner(w) = s
                          /\ ToSet(w) = {first, last} \cup ToSet(s)
    <3>1. s \in Text
      BY <2>1
    <3> QED
      BY <3>1, WithinIs
  <2> QED
    BY <2>1, <2>3, <2>4 DEF IsObject
<1>7. /\ Value("null", <<>>) \in JsonValues
      /\ Value("bool", <<"true">>) \in JsonValues
  BY <1>1, <1>4, TrueIs
<1>8. /\ Value("number", <<"7">>) \in JsonValues
      /\ Value("number", <<"7", "e+", "7">>) \in JsonValues
  <2>1. <<"7">> \in Scalars /\ <<"7", "e+", "7">> \in Scalars
    BY DEF Scalars
  <2>2. \A s \in {<<"7">>, <<"7", "e+", "7">>} : s \in Text /\ IsScalar(s)
    BY <2>1, ScalarsAre
  <2>3. \A s \in {<<"7">>, <<"7", "e+", "7">>} : s # <<"true">> /\ ~IsString(s)
    BY DEF IsString
  <2> QED
    BY <1>1, <2>2, <2>3 DEF IsScalar
<1>9. Others \subseteq JsonValues
  BY <1>1, <1>5, <1>6, <1>7, <1>8 DEF Others
<1> QED
  BY <1>2, <1>9

\* Every row's metadata are some that have been kept.
MetaKept == \A id \in Ids : table[id] # None
               => \E m \in Metas : table[id].meta = Kept[m]

\* An empty table has none.
LEMMA InitMetaKept == Init => MetaKept
BY DEF Init, MetaKept

\* Whoever writes a row keeps the metadata.
LEMMA StepMetaKept ==
    ASSUME IInv, MetaKept, [Next]_vars
    PROVE  MetaKept'
<1> DEFINE Some(r) == \E m \in Metas : r.meta = Kept[m]
           Result  == \A id \in Ids : table'[id] # None => Some(table'[id])
<1>0. table \in [Ids -> Records \cup {None}]
  BY DEF IInv, RowsOK
<1>1. ASSUME NEW i \in Ids, NEW r, r # None => Some(r),
             table' = [table EXCEPT ![i] = r]
      PROVE  Result
  BY <1>0, <1>1 DEF MetaKept
<1>2. ASSUME UNCHANGED table
      PROVE  Result
  BY <1>2 DEF MetaKept
<1>3. ASSUME NEW p \in Procs, NEW ctx \in Callers, NEW i \in Ids,
             NEW input \in NewRecords, Store(p, ctx, i, input)
      PROVE  Result
  <2> DEFINE new == Owned(input, ctx)
             row == Upserted(table[i], new)
  <2>1. CASE table' = [table EXCEPT ![i] = Upserted(@, Owned(input, ctx))]
    <3>0. table' = [table EXCEPT ![i] = row]
      BY <1>0, <2>1
    <3>1. input \in Inputs /\ input.meta \in Metas
      BY CallersAssumption DEF Inputs
    <3>2. new.meta = Kept[input.meta]
      BY <3>1 DEF Owned, Inputs
    <3>3. row.meta = new.meta
      BY <1>0 DEF Upserted, Records
    <3>4. Some(row)
      BY <3>1, <3>2, <3>3
    <3> HIDE DEF row, Some, Result
    <3> QED
      BY <1>1, <3>0, <3>4
  <2> HIDE DEF Result
  <2> QED
    BY <1>2, <1>3, <2>1 DEF Store, Fails
<1>4. ASSUME NEW p \in Procs, WriteUpdate(p)
      PROVE  Result
  <2> DEFINE w == pending[p]
  <2>1. w \in Writes /\ w.input \in NewRecords
    BY <1>4 DEF IInv, RowsOK, PendingOK, WriteUpdate, Idle
  <2>2. w.id \in Ids /\ w.input.meta \in Metas
    BY <2>1, CallersAssumption DEF Writes, Inputs
  <2>3. CASE Hits(w)
    <3> DEFINE row == [table[w.id] EXCEPT !.content = w.input.content,
                                          !.meta = Kept[w.input.meta]]
    <3>1. table' = [table EXCEPT ![w.id] = row]
      BY <1>0, <1>4, <2>3 DEF WriteUpdate
    <3>2. row.meta = Kept[w.input.meta]
      BY <1>0, <2>2, <2>3 DEF Hits, Records
    <3>3. Some(row)
      BY <2>2, <3>2
    <3> HIDE DEF row, w, Some, Result
    <3> QED
      BY <1>1, <2>2, <3>1, <3>3
  <2>4. CASE ~Hits(w)
    <3>1. table' = table
      BY <1>0, <1>4, <2>2, <2>4 DEF WriteUpdate
    <3> QED
      BY <1>2, <3>1
  <2> QED
    BY <2>3, <2>4
<1>5. ASSUME NEW p \in Procs, WriteDelete(p)
      PROVE  Result
  <2>1. \A id \in Ids : table'[id] \in {table[id], None}
    BY <1>0, <1>5 DEF WriteDelete
  <2> QED
    BY <2>1 DEF MetaKept
<1>6. ASSUME NEW p \in Procs,
             \/ NoContext(p) \/ WriteFails(p)
             \/ \E ctx \in Callers, q \in Queries : Retrieve(p, ctx, q)
             \/ \E ctx \in Callers, id \in Ids : Delete(p, ctx, id)
             \/ \E ctx \in Callers, id \in Ids, input \in NewRecords :
                   Update(p, ctx, id, input)
      PROVE  UNCHANGED table
  BY <1>6 DEF NoContext, WriteFails, Retrieve, Delete, Update, Check, Fails
<1>7. ASSUME Next
      PROVE  Result
  <2> HIDE DEF Result
  <2> QED
    BY <1>2, <1>3, <1>4, <1>5, <1>6, <1>7 DEF Next
<1> QED
  BY <1>2, <1>7 DEF MetaKept, vars

\* Whatever the rows hold is read as it was written, as long as it survives, and
\* so is every value of the instances beside it.
THEOREM MetadataAreRead == Spec => []MetadataSurvive
<1>1. ASSUME NEW m \in Metas
      PROVE  ReadsFaithfully[Kept[m]]
  <2>1. Kept[m] \in DOMAIN ReadAs /\ ReadAs[Kept[m]] \in JsonValues
    BY ReadAsAssumption
  <2>2. Faithful(ReadAs[Kept[m]], JsonValues)
    BY <2>1, SurvivorsAreFaithful
  <2>3. Faithful(ReadAs[Kept[m]], Texts \cup Others)
    BY <2>2, InstancesAreJson DEF Faithful
  <2> QED
    BY <2>1, <2>3 DEF ReadsFaithfully
<1>2. MetaKept => MetadataSurvive
  BY <1>1 DEF MetaKept, MetadataSurvive
<1> QED
  BY <1>2, InitIInv, StepIInv, InitMetaKept, StepMetaKept, PTL DEF Spec
=============================================================================
