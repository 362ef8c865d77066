------------------------- MODULE VectorStore_proofs -------------------------
(***************************************************************************)
(* What the vector adapters guarantee for any number of goroutines whose   *)
(* statements and library calls interleave, with failures and restarts,    *)
(* and that a search by embedding answers with the nearest.                *)
(***************************************************************************)
EXTENDS VectorStore, Memory_proofs

\* The part of TypeOK that the steps depend on.
StateOK ==
    /\ backend \in {"chromem", "pgvector"}
    /\ table \in [Ids -> Rows \cup {None}]
    /\ saved \in [Ids -> Rows \cup {None}]
    /\ pending \in [Procs -> Steps \cup {None}]
    /\ reused \in FilterMaps
    /\ told \in [Ids -> Tales]

\* A row has one of the embeddings that the adapters give to its content.
Fits(r) ==
    r.embedding \in {EmbeddingOf[r.content]}
                      \cup (IF backend = "chromem" THEN {Placeholder} ELSE {})

IInv == StateOK /\ AsTold /\ EmbeddingsFit

-----------------------------------------------------------------------------
\* What is written is a row whose embedding fits its content.
LEMMA RowIsRow ==
    ASSUME StateOK, NEW input \in NewRecords, NEW now \in Times, Storable(input)
    PROVE  Row(input, now) \in Rows /\ Fits(Row(input, now))
<1>1. input \in Inputs
  BY CallersAssumption
<1>2. EntityFor(input) \in Entities \cup {None}
  BY <1>1, VectorAssumption DEF EntityFor, Inputs
<1>3. Keeps(input.meta) \in Metas
  BY <1>1, VectorAssumption, MemoryAssumption DEF Keeps, Inputs
<1>4. EmbeddingFor(input) \in Points
  BY <1>1 DEF EmbeddingFor, Points, Inputs
<1>5. Row(input, now) \in Rows
  BY <1>1, <1>2, <1>3, <1>4 DEF Row, Rows, Inputs
<1>6. Fits(Row(input, now))
  BY DEF Row, Fits, Storable, EmbeddingFor, StateOK
<1> QED
  BY <1>5, <1>6

\* What Store puts in place of a row is a row with the embedding of its content.
LEMMA ReplacedIsRow ==
    ASSUME StateOK, NEW input \in NewRecords, NEW now \in Times,
           Storable(input), NEW old \in Rows \cup {None}
    PROVE  Replaced(old, input, now) \in Rows /\ Fits(Replaced(old, input, now))
<1> DEFINE row == Row(input, now)
<1>1. row \in Rows /\ Fits(row)
  BY RowIsRow
<1> HIDE DEF row
<1>2. CASE backend = "pgvector" /\ old # None
  <2>1. Replaced(old, input, now) = [row EXCEPT !.created = old.created]
    BY <1>2 DEF Replaced, row
  <2>2. old.created \in Times
    BY <1>2 DEF Rows
  <2> QED
    BY <1>1, <2>1, <2>2 DEF Rows, Fits
<1>3. CASE ~(backend = "pgvector" /\ old # None)
  BY <1>1, <1>3 DEF Replaced, row
<1> QED
  BY <1>2, <1>3

\* The times that are written are times.
LEMMA ClockTells ==
    ASSUME NEW input \in NewRecords
    PROVE  Clock(input) \subseteq Times
BY CallersAssumption DEF Clock, Inputs

\* A document is written in memory, and perhaps in its file.
Wrote(id, d) ==
    /\ table' = [table EXCEPT ![id] = d]
    /\ saved' = saved \/ saved' = [saved EXCEPT ![id] = d]
    /\ UNCHANGED backend

\* What Put writes is a row whose embedding fits.
LEMMA PutWrites ==
    ASSUME StateOK, NEW id \in Ids, NEW input \in NewRecords, Put(id, input),
           Save(id) \/ UNCHANGED saved
    PROVE  /\ \E r \in Rows : Fits(r) /\ Wrote(id, r)
           /\ UNCHANGED reused
<1>1. PICK now \in Times :
        table' = [table EXCEPT ![id] = Replaced(@, input, now)]
  BY ClockTells DEF Put
<1>2. table[id] \in Rows \cup {None}
  BY DEF StateOK
<1> DEFINE r == Replaced(table[id], input, now)
<1>3. r \in Rows /\ Fits(r)
  BY <1>2, ReplacedIsRow DEF Put
<1>4. table' = [table EXCEPT ![id] = r]
  BY <1>1
<1> HIDE DEF r
<1>5. table'[id] = r
  BY <1>4 DEF StateOK
<1> QED
  BY <1>3, <1>4, <1>5 DEF Wrote, Put, Save

\* So is what Takes leaves.
LEMMA TakesWrites ==
    ASSUME StateOK, NEW id \in Ids, Takes(id), Save(id) \/ UNCHANGED saved
    PROVE  Wrote(id, None) /\ UNCHANGED reused
BY DEF Takes, StateOK, Wrote, Save

\* Whether a call that has written succeeds or miscarries, the file follows or
\* stays, and the caller is told what it may rely on.
LEMMA EndTells ==
    ASSUME NEW id \in Ids, NEW call, NEW what,
           Succeeds(id, call, what) \/ Miscarries(id, call)
    PROVE  /\ Save(id) \/ UNCHANGED saved
           /\ Tell(id, what) \/ Tell(id, "nothing")
BY DEF Succeeds, Miscarries

-----------------------------------------------------------------------------
(* Each step changes at most one document, what is told of it, and what    *)
(* its process is in the middle of.                                        *)

\* Only the process p goes on, and not into or out of the second half of an
\* Update that has taken a document away.
Quiet(p) ==
    /\ pending' \in [Procs -> Steps \cup {None}]
    /\ \A q \in Procs \ {p} : pending'[q] = pending[q]
    /\ pending[p] # None => pending[p].next # "add"
    /\ pending'[p] # None => pending'[p].next # "add"

\* A step that leaves the documents and what is told of them alone.
Idles ==
    /\ UNCHANGED <<backend, table, saved, told>>
    /\ reused' \in FilterMaps

\* A step that neither removes nor brings back leaves what is removed.
LEMMA QuietKeepsRemoved ==
    ASSUME StateOK, NEW p \in Procs, Quiet(p)
    PROVE  Removed' = Removed
BY DEF Quiet, Removed

\* Such a step keeps the invariant if it writes nothing.
LEMMA IdleStep ==
    ASSUME IInv, NEW p \in Procs, Quiet(p), Idles
    PROVE  IInv'
<1>1. Removed' = Removed
  BY QuietKeepsRemoved DEF IInv
<1>2. StateOK'
  BY DEF IInv, StateOK, Quiet, Idles
<1>3. AsTold'
  BY <1>1 DEF IInv, AsTold, Idles
<1>4. EmbeddingsFit'
  BY DEF IInv, EmbeddingsFit, Documents, Idles
<1> QED
  BY <1>2, <1>3, <1>4 DEF IInv

\* Rows that fit are those of the table and of the files.
LEMMA FitOfBoth ==
    EmbeddingsFit <=> /\ \A id \in Documents(table) : Fits(table[id])
                      /\ \A id \in Documents(saved) : Fits(saved[id])
BY DEF EmbeddingsFit, Fits

\* A document is written or taken away, and what the caller is told of it is so.
LEMMA WriteStep ==
    ASSUME IInv, NEW id \in Ids, NEW d \in Rows \cup {None},
           d # None => Fits(d), Wrote(id, d), reused' \in FilterMaps,
           pending' \in [Procs -> Steps \cup {None}],
           \A i \in Removed : i = id \/ i \in Removed',
           NEW what \in Tales, told' = [told EXCEPT ![id] = what],
           what = "kept" => d # None \/ id \in Removed',
           what = "gone" => d = None
    PROVE  IInv'
<1>1. StateOK'
  BY DEF IInv, StateOK, Wrote
<1>2. AsTold'
  <2>1. \A i \in Ids : i # id => table'[i] = table[i] /\ told'[i] = told[i]
    BY DEF IInv, StateOK, Wrote
  <2>2. table'[id] = d /\ told'[id] = what
    BY DEF IInv, StateOK, Wrote
  <2> QED
    BY <2>1, <2>2 DEF IInv, AsTold
<1>3. EmbeddingsFit'
  <2>1. \A r : Fits(r)' <=> Fits(r)
    BY DEF Fits, Wrote
  <2>2. \A i \in Documents(table') : Fits(table'[i])
    BY FitOfBoth DEF IInv, StateOK, Documents, Wrote
  <2>3. \A i \in Documents(saved') : Fits(saved'[i])
    BY FitOfBoth DEF IInv, StateOK, Documents, Wrote
  <2> QED
    BY <2>2, <2>3 DEF EmbeddingsFit, Fits, Wrote
<1> QED
  BY <1>1, <1>2, <1>3 DEF IInv

\* A call writes a row and its caller is told so, or nothing.
LEMMA PutStep ==
    ASSUME IInv, NEW id \in Ids, NEW input \in NewRecords, NEW call,
           Put(id, input), Succeeds(id, call, "kept") \/ Miscarries(id, call),
           pending' \in [Procs -> Steps \cup {None}],
           \A i \in Removed : i = id \/ i \in Removed'
    PROVE  IInv'
<1>1. PICK r \in Rows : Fits(r) /\ Wrote(id, r)
  BY PutWrites, EndTells DEF IInv
<1>2. reused' \in FilterMaps
  BY DEF Put, IInv, StateOK
<1>3. r # None
  BY NoneAssumption
<1>4. PICK what \in {"kept", "nothing"} : Tell(id, what)
  BY EndTells
<1> QED
  BY <1>1, <1>2, <1>3, <1>4, WriteStep DEF Tell, Tales

\* A call takes a document away and its caller is told so, or nothing.
LEMMA TakeStep ==
    ASSUME IInv, NEW p \in Procs, Quiet(p), NEW id \in Ids, NEW call,
           Takes(id), Succeeds(id, call, "gone") \/ Miscarries(id, call)
    PROVE  IInv'
<1>1. Removed' = Removed
  BY QuietKeepsRemoved DEF IInv
<1>2. Wrote(id, None) /\ reused' \in FilterMaps
  BY TakesWrites, EndTells DEF IInv, StateOK
<1>3. PICK what \in {"gone", "nothing"} : Tell(id, what)
  BY EndTells
<1> QED
  BY <1>1, <1>2, <1>3, WriteStep DEF Tell, Tales, Quiet

\* A caller is told of a document that it is not there, or that it has missed it.
LEMMA MissStep ==
    ASSUME IInv, NEW p \in Procs, Quiet(p), NEW id \in Ids, table[id] = None,
           NEW what \in {"gone", "missed"}, Tell(id, what),
           UNCHANGED <<backend, table, saved, reused>>
    PROVE  IInv'
<1>1. Removed' = Removed
  BY QuietKeepsRemoved DEF IInv
<1>2. Wrote(id, None) /\ reused' \in FilterMaps
  BY DEF Wrote, IInv, StateOK
<1> QED
  BY <1>1, <1>2, WriteStep DEF Tell, Tales, Quiet

-----------------------------------------------------------------------------
(* The actions.                                                            *)

\* An error that leaves no document taken away.
LEMMA FailStep ==
    ASSUME IInv, NEW p \in Procs, NEW call, Fails(p, call),
           pending[p] # None => pending[p].next # "add"
    PROVE  IInv'
<1>1. Quiet(p) /\ Idles
  BY DEF Fails, Continue, Quiet, Idles, IInv, StateOK
<1> QED
  BY <1>1, IdleStep

\* A process that is idle stays so.
LEMMA IdleIsQuiet ==
    ASSUME StateOK, NEW p \in Procs, Idle(p), UNCHANGED pending
    PROVE  Quiet(p)
BY DEF StateOK, Idle, Quiet

\* A process that ends a call goes on with none.
LEMMA EndIsQuiet ==
    ASSUME StateOK, NEW p \in Procs, Continue(p, None), pending[p].next # "add"
    PROVE  Quiet(p)
BY DEF StateOK, Continue, Quiet

\* Store writes one row and says so, or says nothing.
LEMMA StoreStep ==
    ASSUME IInv, NEW p \in Procs, NEW id \in Ids, NEW input \in NewRecords,
           Store(p, id, input)
    PROVE  IInv'
<1>1. pending[p] = None
  BY DEF Store, Idle
<1>2. CASE Fails(p, "Store")
  BY <1>1, <1>2, FailStep
<1>3. CASE /\ Put(id, input)
           /\ Succeeds(id, "Store", "kept") \/ Miscarries(id, "Store")
           /\ UNCHANGED pending
  <2>1. pending' \in [Procs -> Steps \cup {None}] /\ Removed' = Removed
    BY <1>3 DEF IInv, StateOK, Removed
  <2> QED
    BY <1>3, <2>1, PutStep
<1> QED
  BY <1>2, <1>3 DEF Store

\* The map that is used again holds a filter map, whatever is written into it.
LEMMA FiltersInMaps ==
    ASSUME NEW ctx \in Callers, NEW q, NEW given \in FilterMaps
    PROVE  Filters(ctx, q, given) \in FilterMaps
<1>1. ctx.entity \in Entities
  BY CallersAssumption DEF Contexts
<1> QED
  BY <1>1 DEF Filters, FilterMaps

\* Retrieve writes nothing but the filter map.
LEMMA RetrieveStep ==
    ASSUME IInv, NEW p \in Procs, NEW ctx \in Callers, NEW q, NEW near, NEW m,
           Retrieve(p, ctx, q, near, m)
    PROVE  IInv'
<1>1. reused' \in FilterMaps
  BY FiltersInMaps DEF Retrieve, IInv, StateOK
<1>2. Quiet(p) /\ Idles
  BY <1>1 DEF Retrieve, Idle, Quiet, Idles, IInv, StateOK
<1> QED
  BY <1>2, IdleStep

\* A call that finds no row for its ID says so.
LEMMA NotFoundStep ==
    ASSUME IInv, NEW p \in Procs, Idle(p), NEW id \in Ids, NEW call,
           NotFound(p, id, call)
    PROVE  IInv'
<1>1. Quiet(p)
  BY IdleIsQuiet DEF NotFound, IInv
<1> QED
  BY <1>1, MissStep DEF NotFound

\* Finding a row for an Update writes nothing.
LEMMA FindStep ==
    ASSUME IInv, NEW p \in Procs, NEW id \in Ids, NEW input \in NewRecords,
           FindForUpdate(p, id, input)
    PROVE  IInv'
<1>1. pending[p] = None
  BY DEF FindForUpdate, Idle
<1>2. CASE Fails(p, "Update")
  BY <1>1, <1>2, FailStep
<1>3. CASE NotFound(p, id, "Update")
  BY <1>1, <1>3, NotFoundStep DEF Idle
<1>4. CASE ~Fails(p, "Update") /\ ~NotFound(p, id, "Update")
  <2> DEFINE step == [next |-> IF backend = "pgvector" THEN "write"
                                                       ELSE "remove",
                      id |-> id, input |-> input]
  <2>1. step \in Steps /\ step.next # "add"
    BY DEF Steps
  <2>2. /\ pending' = [pending EXCEPT ![p] = step]
        /\ UNCHANGED <<backend, table, saved, reused, told>>
    BY <1>4 DEF FindForUpdate, Continue
  <2> HIDE DEF step
  <2>3. Quiet(p) /\ Idles
    BY <1>1, <2>1, <2>2 DEF Quiet, Idles, IInv, StateOK
  <2> QED
    BY <2>3, IdleStep
<1> QED
  BY <1>2, <1>3, <1>4

\* What a process is in the middle of is a step, with a record but for "delete".
LEMMA PendingIsStep ==
    ASSUME StateOK, NEW p \in Procs, pending[p] # None
    PROVE  /\ pending[p].id \in Ids
           /\ pending[p].next # "delete" => pending[p].input \in NewRecords
BY DEF StateOK, Steps

\* pgvector's UPDATE writes content and embedding together, or nothing.
LEMMA WriteUpdateStep ==
    ASSUME IInv, NEW p \in Procs, WriteUpdate(p)
    PROVE  IInv'
<1> DEFINE id == pending[p].id
<1>1. pending[p] # None /\ pending[p].next = "write"
  BY DEF WriteUpdate, Idle
<1>2. id \in Ids /\ pending[p].input \in NewRecords
  BY <1>1, PendingIsStep DEF IInv
<1>3. CASE Fails(p, "Update")
  BY <1>1, <1>3, FailStep
<1>4. ASSUME Continue(p, None)
      PROVE  Quiet(p) /\ Removed' = Removed
  <2>1. Quiet(p)
    BY <1>1, <1>4, EndIsQuiet DEF IInv
  <2> QED
    BY <2>1, QuietKeepsRemoved DEF IInv
<1>5. CASE /\ Put(id, pending[p].input)
           /\ Succeeds(id, "Update", "kept") \/ Miscarries(id, "Update")
           /\ Continue(p, None)
  BY <1>2, <1>4, <1>5, PutStep DEF Quiet
<1>6. CASE /\ table[id] = None
           /\ Tell(id, "missed")
           /\ Continue(p, None)
           /\ UNCHANGED <<backend, table, saved, reused>>
  BY <1>2, <1>4, <1>6, MissStep
<1> QED
  BY <1>3, <1>5, <1>6 DEF WriteUpdate

\* The document that is taken away is one of those of which nobody is told that
\* it is there.
LEMMA RemoveForUpdateStep ==
    ASSUME IInv, NEW p \in Procs, RemoveForUpdate(p)
    PROVE  IInv'
<1> DEFINE id   == pending[p].id
           step == [pending[p] EXCEPT !.next = "add"]
<1>1. pending[p] # None /\ pending[p].next = "remove"
  BY DEF RemoveForUpdate, Idle
<1>2. id \in Ids
  BY <1>1, PendingIsStep DEF IInv
<1>3. CASE Fails(p, "Update")
  BY <1>1, <1>3, FailStep
<1>4. CASE Takes(id) /\ Miscarries(id, "Update") /\ Continue(p, None)
  <2>1. Quiet(p)
    BY <1>1, <1>4, EndIsQuiet DEF IInv
  <2> QED
    BY <1>2, <1>4, <2>1, TakeStep
<1>5. CASE Takes(id) /\ Save(id) /\ Continue(p, step) /\ UNCHANGED told
  <2>1. step \in Steps /\ step.next = "add" /\ step.id = id
    BY <1>1 DEF IInv, StateOK, Steps
  <2>2. step # None
    BY <2>1, NoneAssumption
  <2>3. pending' = [pending EXCEPT ![p] = step]
    BY <1>5 DEF Continue
  <2>4. Wrote(id, None) /\ reused' \in FilterMaps
    BY <1>2, <1>5, TakesWrites DEF IInv, StateOK
  <2> HIDE DEF step, id
  <2>5. Removed' = Removed \cup {id}
    BY <1>1, <2>1, <2>2, <2>3 DEF Removed, IInv, StateOK
  <2>6. pending' \in [Procs -> Steps \cup {None}]
    BY <2>1, <2>3 DEF IInv, StateOK
  <2>7. told[id] \in Tales /\ told' = [told EXCEPT ![id] = told[id]]
    BY <1>2, <1>5 DEF IInv, StateOK
  <2> QED
    BY <1>2, <2>4, <2>5, <2>6, <2>7, WriteStep
<1> QED
  BY <1>3, <1>4, <1>5 DEF RemoveForUpdate

\* It is written again, or nobody is told any more that it is there.
LEMMA AddForUpdateStep ==
    ASSUME IInv, NEW p \in Procs, AddForUpdate(p)
    PROVE  IInv'
<1> DEFINE id == pending[p].id
<1>1. pending[p] # None /\ pending[p].next = "add"
  BY DEF AddForUpdate, Idle
<1>2. id \in Ids /\ pending[p].input \in NewRecords
  BY <1>1, PendingIsStep DEF IInv
<1>3. /\ pending' = [pending EXCEPT ![p] = None]
      /\ pending' \in [Procs -> Steps \cup {None}]
  BY DEF AddForUpdate, Continue, IInv, StateOK
<1>4. \A i \in Removed : i = id \/ i \in Removed'
  BY <1>1, <1>3 DEF Removed, IInv, StateOK
<1>5. CASE /\ Put(id, pending[p].input)
           /\ Succeeds(id, "Update", "kept") \/ Miscarries(id, "Update")
  BY <1>2, <1>3, <1>4, <1>5, PutStep
<1>6. CASE /\ Tell(id, "nothing")
           /\ UNCHANGED <<backend, table, saved, reused>>
  <2> HIDE DEF id
  <2>1. table[id] \in Rows \cup {None} /\ reused' \in FilterMaps
    BY <1>2, <1>6 DEF IInv, StateOK
  <2>2. table[id] # None => Fits(table[id])
    BY <1>2, FitOfBoth DEF IInv, Documents
  <2>3. Wrote(id, table[id])
    BY <1>2, <1>6 DEF Wrote, IInv, StateOK
  <2> QED
    BY <1>2, <1>3, <1>4, <1>6, <2>1, <2>2, <2>3, WriteStep DEF Tell, Tales
<1> QED
  BY <1>5, <1>6 DEF AddForUpdate

\* A Delete takes the row away and says so, or says nothing; ...
LEMMA DeletesStep ==
    ASSUME IInv, NEW p \in Procs, NEW id \in Ids, Delete(p, id)
    PROVE  IInv'
<1>1. pending[p] = None
  BY DEF Delete, Idle
<1>2. CASE Fails(p, "Delete")
  BY <1>1, <1>2, FailStep
<1>3. ASSUME UNCHANGED pending
      PROVE  Quiet(p)
  BY <1>1, <1>3, IdleIsQuiet DEF Idle, IInv
<1>4. CASE /\ Takes(id)
           /\ Succeeds(id, "Delete", "gone") \/ Miscarries(id, "Delete")
           /\ UNCHANGED pending
  BY <1>3, <1>4, TakeStep
<1>5. CASE NotFound(p, id, "Delete")
  BY <1>1, <1>5, NotFoundStep DEF Idle
<1>6. CASE /\ table[id] = None
           /\ Tell(id, "gone")
           /\ UNCHANGED <<backend, table, saved, pending, reused>>
  BY <1>3, <1>6, MissStep
<1>7. CASE /\ Continue(p, [next |-> "delete", id |-> id])
           /\ UNCHANGED <<backend, table, saved, reused, told>>
  <2> DEFINE step == [next |-> "delete", id |-> id]
  <2>1. step \in Steps /\ step.next # "add"
    BY DEF Steps
  <2>2. pending' = [pending EXCEPT ![p] = step]
    BY <1>7 DEF Continue
  <2> HIDE DEF step
  <2>3. Quiet(p) /\ Idles
    BY <1>1, <1>7, <2>1, <2>2 DEF Quiet, Idles, IInv, StateOK
  <2> QED
    BY <2>3, IdleStep
<1> QED
  BY <1>2, <1>4, <1>5, <1>6, <1>7 DEF Delete

\* ... so does chromem-go's, after its lookup.
LEMMA RemoveForDeleteStep ==
    ASSUME IInv, NEW p \in Procs, RemoveForDelete(p)
    PROVE  IInv'
<1> DEFINE id == pending[p].id
<1>1. pending[p] # None /\ pending[p].next = "delete"
  BY DEF RemoveForDelete, Idle
<1>2. id \in Ids
  BY <1>1, PendingIsStep DEF IInv
<1>3. CASE Fails(p, "Delete")
  BY <1>1, <1>3, FailStep
<1>4. CASE /\ Takes(id)
           /\ Succeeds(id, "Delete", "gone") \/ Miscarries(id, "Delete")
           /\ Continue(p, None)
  <2>1. Quiet(p)
    BY <1>1, <1>4, EndIsQuiet DEF IInv
  <2> QED
    BY <1>2, <1>4, <2>1, TakeStep
<1> QED
  BY <1>3, <1>4 DEF RemoveForDelete

\* Whatever a restart interrupts, nobody is told of a document that is missing.
LEMMA RestartStep ==
    ASSUME IInv, Restart
    PROVE  IInv'
<1>1. table' = Left /\ Left \in [Ids -> Rows \cup {None}]
  BY DEF Restart, Left, IInv, StateOK
<1>2. StateOK'
  BY <1>1 DEF IInv, StateOK, Restart, NoFilters, FilterMaps, Tales
<1>3. AsTold'
  <2> SUFFICES ASSUME NEW id \in Ids, told'[id] \in {"kept", "gone"}
               PROVE  IF told'[id] = "kept" THEN table'[id] # None
                                            ELSE table'[id] = None
    BY DEF AsTold
  <2>1. told'[id] = told[id] /\ table'[id] = table[id] /\ id \notin Removed
    BY <1>1 DEF Restart
  <2> QED
    BY <2>1 DEF IInv, AsTold
<1>4. EmbeddingsFit'
  BY <1>1 DEF IInv, Restart, Left, EmbeddingsFit, Documents
<1> QED
  BY <1>2, <1>3, <1>4 DEF IInv

\* The empty table has the invariant.
LEMMA InitInv == Init => IInv
BY DEF Init, IInv, StateOK, AsTold, EmbeddingsFit, Documents, EmptyTable,
       NoFilters, FilterMaps, Tales

\* The inductive step: one step per action.
LEMMA Step == IInv /\ [Next]_vars => IInv'
<1> SUFFICES ASSUME IInv, [Next]_vars
             PROVE  IInv'
  OBVIOUS
<1>1. CASE UNCHANGED vars
  BY <1>1 DEF vars, IInv, StateOK, AsTold, EmbeddingsFit, Documents, Removed
<1>2. CASE Restart
  BY <1>2, RestartStep
<1>3. ASSUME NEW p \in Procs, RetrieveRefused(p)
      PROVE  IInv'
  BY <1>3, FailStep DEF RetrieveRefused, Idle
<1> QED
  BY <1>1, <1>2, <1>3, RetrieveStep, DeletesStep, StoreStep, FindStep,
     WriteUpdateStep, RemoveForUpdateStep, AddForUpdateStep,
     RemoveForDeleteStep DEF Next

\* There are finitely many documents, however many IDs there are: a step writes
\* one of them, and a restart none.
FiniteTable == IsFiniteSet(Documents(table) \cup Documents(saved))

\* A step writes one document at most.
LEMMA WritesOneDocument ==
    ASSUME IInv, Next
    PROVE  \E i : (Documents(table) \cup Documents(saved))'
                     \subseteq Documents(table) \cup Documents(saved) \cup {i}
<1> DEFINE Few == \E i : (Documents(table) \cup Documents(saved))'
                     \subseteq Documents(table) \cup Documents(saved) \cup {i}
<1> USE DEF StateOK
<1>1. ASSUME NEW i \in Ids, NEW d, table' = [table EXCEPT ![i] = d],
             Save(i) \/ UNCHANGED saved
      PROVE  Few
  <2>1. saved' = saved \/ saved' = [saved EXCEPT ![i] = table'[i]]
    BY <1>1 DEF Save
  <2> QED
    BY <1>1, <2>1 DEF IInv, Documents
<1>2. ASSUME UNCHANGED <<table, saved>>
      PROVE  Few
  BY <1>2 DEF Documents
<1>3. CASE Restart
  BY <1>3 DEF Restart, Left, Documents
<1> HIDE DEF Few
<1>4. ASSUME NEW i \in Ids, NEW input, NEW call, NEW what,
             Put(i, input) \/ Takes(i),
             \/ Succeeds(i, call, what) \/ Miscarries(i, call)
             \/ Save(i)
      PROVE  Few
  BY <1>1, <1>4 DEF Put, Takes, Succeeds, Miscarries
<1>5. ASSUME NEW p \in Procs, \E call : Fails(p, call)
      PROVE  Few
  BY <1>2, <1>5 DEF Fails
<1>6. ASSUME NEW p \in Procs, RetrieveRefused(p)
      PROVE  Few
  BY <1>5, <1>6 DEF RetrieveRefused
<1>7. ASSUME NEW p \in Procs, NEW ctx, NEW q, NEW near, NEW m,
             Retrieve(p, ctx, q, near, m)
      PROVE  Few
  BY <1>2, <1>7 DEF Retrieve
<1>8. ASSUME NEW p \in Procs, NEW id \in Ids, Delete(p, id)
      PROVE  Few
  BY <1>2, <1>4, <1>5, <1>8 DEF Delete, NotFound
<1>9. ASSUME NEW p \in Procs, NEW id \in Ids, NEW input,
             Store(p, id, input) \/ FindForUpdate(p, id, input)
      PROVE  Few
  BY <1>2, <1>4, <1>5, <1>9 DEF Store, FindForUpdate, NotFound
<1>10. ASSUME NEW p \in Procs,
              \/ WriteUpdate(p) \/ RemoveForUpdate(p) \/ AddForUpdate(p)
              \/ RemoveForDelete(p)
       PROVE  Few
  <2>1. pending[p].id \in Ids
    BY <1>10, PendingIsStep
    DEF IInv, WriteUpdate, RemoveForUpdate, AddForUpdate, RemoveForDelete, Idle
  <2> QED
    BY <1>2, <1>4, <1>5, <1>10, <2>1
    DEF WriteUpdate, RemoveForUpdate, AddForUpdate, RemoveForDelete
<1> QED
  BY <1>3, <1>6, <1>7, <1>8, <1>9, <1>10 DEF Next, Few

\* So there stay finitely many.
LEMMA FiniteStep == IInv /\ FiniteTable /\ [Next]_vars => FiniteTable'
<1> SUFFICES ASSUME IInv, FiniteTable, Next
             PROVE  FiniteTable'
  BY DEF vars, FiniteTable, Documents
<1> DEFINE all == Documents(table) \cup Documents(saved)
<1>1. PICK i : all' \subseteq all \cup {i}
  BY WritesOneDocument
<1>2. IsFiniteSet(all \cup {i})
  BY FS_AddElement DEF FiniteTable
<1>3. IsFiniteSet(all')
  BY <1>1, <1>2, FS_Subset
<1> QED
  BY <1>3 DEF FiniteTable

\* A set of documents of the table is finite.
LEMMA FewDocuments ==
    ASSUME FiniteTable, NEW ids \in SUBSET Documents(table)
    PROVE  IsFiniteSet(ids)
BY FS_Subset DEF FiniteTable

\* At first there are none.
LEMMA InitFinite == Init => FiniteTable
BY FS_EmptySet DEF Init, EmptyTable, FiniteTable, Documents

\* What callers were told last of a record stays true, for any number of
\* goroutines, records and restarts, in both adapters.
THEOREM ToldTheTruth == Spec => []AsTold
<1>1. IInv => AsTold
  BY DEF IInv
<1> QED
  BY <1>1, InitInv, Step, PTL DEF Spec

\* No call leaves a row with the embedding of another record's content.
THEOREM EmbeddingsFitContents == Spec => []EmbeddingsFit
<1>1. IInv => EmbeddingsFit
  BY DEF IInv
<1> QED
  BY <1>1, InitInv, Step, PTL DEF Spec
-----------------------------------------------------------------------------
(* Which steps bring back a record that was gone.                          *)

Revived(id) == table[id] = None /\ table'[id] # None

\* What NoResurrection lets happen to such a record.
Excused(id) ==
    \/ reply'.call = "Store"
    \/ id \in Removed
    \/ reply'.call = "none" /\ FileLeft(id)

\* An Update of pgvector writes where there is a row, and one of chromem-go to a
\* document of its own that it has taken away.
LEMMA RevivedByStore ==
    ASSUME IInv, [Next]_vars, NEW id \in Ids, Revived(id)
    PROVE  Excused(id)
<1>1. table' # table
  BY DEF Revived
<1>2. ASSUME NEW p \in Procs, NEW i \in Ids, NEW input \in NewRecords,
             Store(p, i, input)
      PROVE  reply'.call = "Store"
  BY <1>2 DEF Store, Fails, Succeeds, Miscarries, Reply
<1>3. ASSUME NEW p \in Procs, WriteUpdate(p)
      PROVE  FALSE
  <2>1. table[pending[p].id] # None /\ Put(pending[p].id, pending[p].input)
    BY <1>1, <1>3 DEF WriteUpdate, Fails
  <2>2. \E d : table' = [table EXCEPT ![pending[p].id] = d]
    BY <2>1 DEF Put
  <2> QED
    BY <2>1, <2>2 DEF Revived, IInv, StateOK
<1>4. ASSUME NEW p \in Procs, AddForUpdate(p)
      PROVE  id \in Removed
  <2>1. pending[p] # None /\ pending[p].next = "add"
    BY <1>4 DEF AddForUpdate, Idle
  <2>2. \E d : table' = [table EXCEPT ![pending[p].id] = d]
    BY <1>1, <1>4 DEF AddForUpdate, Put
  <2>3. id = pending[p].id
    BY <2>2 DEF Revived, IInv, StateOK
  <2> QED
    BY <2>1, <2>3 DEF Removed
<1>5. ASSUME NEW p \in Procs, RemoveForUpdate(p)
      PROVE  FALSE
  BY <1>1, <1>5 DEF RemoveForUpdate, Takes, Fails, Revived, IInv, StateOK
<1>6. ASSUME NEW p \in Procs, RemoveForDelete(p)
      PROVE  FALSE
  BY <1>1, <1>6 DEF RemoveForDelete, Takes, Fails, Revived, IInv, StateOK
<1>7. ASSUME NEW p \in Procs, NEW i \in Ids, Delete(p, i)
      PROVE  FALSE
  BY <1>1, <1>7
  DEF Delete, Takes, NotFound, Fails, Revived, IInv, StateOK
<1>8. ASSUME NEW p \in Procs, NEW i \in Ids, NEW input \in NewRecords,
             FindForUpdate(p, i, input)
      PROVE  FALSE
  BY <1>1, <1>8 DEF FindForUpdate, NotFound, Fails
<1>9. ASSUME NEW p \in Procs, RetrieveRefused(p)
      PROVE  FALSE
  BY <1>1, <1>9 DEF RetrieveRefused, Fails
<1>10. ASSUME NEW p \in Procs, NEW ctx, NEW q, NEW near, NEW m,
              Retrieve(p, ctx, q, near, m)
       PROVE  FALSE
  BY <1>1, <1>10 DEF Retrieve
<1>11. CASE Restart
  <2>1. table' = saved /\ backend = "chromem"
    BY <1>1, <1>11 DEF Restart, Left, IInv, StateOK
  <2> QED
    BY <1>11, <2>1 DEF Restart, Revived, Excused, FileLeft
<1> QED
  BY <1>1, <1>2, <1>3, <1>4, <1>5, <1>6, <1>7, <1>8, <1>9, <1>10, <1>11
  DEF Next, vars, Excused

\* Nothing but Store brings back a record that is gone, but for chromem-go's
\* Update of a document it has taken away itself and its restart with a file that
\* it could not remove, whatever the goroutines do.
THEOREM GoneStaysGone == Spec => NoResurrection
<1>1. IInv /\ [Next]_vars
        => [\A id \in Ids : table[id] = None /\ table'[id] # None
               => \/ reply'.call = "Store"
                  \/ id \in Removed
                  \/ reply'.call = "none" /\ FileLeft(id)]_vars
  BY RevivedByStore DEF Revived, Excused
<1> QED
  BY <1>1, InitInv, Step, PTL DEF Spec, NoResurrection

-----------------------------------------------------------------------------
(* Whose rows are answered.                                                *)

\* The first rows of some are some of them, in whatever order.
LEMMA FirstOfThem ==
    ASSUME NEW rows, NEW ids, IsFiniteSet(ids), NEW near, NEW n \in Nat,
           NEW s \in First(rows, ids, near, n)
    PROVE  ToSet(s) \subseteq ids
<1>1. Cardinality(ids) \in Nat
  BY FS_CardinalityType
<1>2. PICK t \in SetToSeqs(ids) :
        s = SubSeq(t, 1, IF Len(t) > n THEN n ELSE Len(t))
  BY DEF First
<1>3. t \in [1 .. Cardinality(ids) -> ids]
  BY <1>2 DEF SetToSeqs
<1>4. t \in Seq(ids)
  BY <1>1, <1>3
<1>5. s \in Seq(ids)
  BY <1>2, <1>4
<1> QED
  BY <1>5 DEF ToSet

\* What a filter map without an ID asks for is what the answers are taken from.
LEMMA FoundAreAsked ==
    ASSUME IInv, FiniteTable, NEW ctx \in Callers, NEW q \in Queries,
           NEW near \in Near, NEW map \in FilterMaps,
           NEW rows \in Found(table, ctx, q, near, map)
    PROVE  ToSet(rows) \subseteq
               IF q.id # None THEN ByID(table, ctx, q.id)
               ELSE IF backend = "chromem" THEN Where(table, q, near, map)
               ELSE Where(table, q, near, Filters(ctx, q, map))
<1>1. Limit(q) \in Nat
  BY CallersAssumption, MemoryAssumption DEF Limit, AllQueries
<1>2. CASE q.id # None
  <2>1. rows \in First(table, ByID(table, ctx, q.id), None, 1)
    BY <1>2 DEF Found, IDAnswers
  <2>2. IsFiniteSet(ByID(table, ctx, q.id))
    BY FewDocuments DEF ByID
  <2> QED
    BY <1>2, <2>1, <2>2, FirstOfThem
<1>3. CASE q.id = None /\ backend = "chromem"
  <2> DEFINE ids == Where(table, q, near, map)
  <2>1. rows \in ChromemAnswers(table, q, near, map)
    BY <1>3 DEF Found
  <2>2. IsFiniteSet(ids)
    BY FewDocuments DEF Where
  <2>3. CASE rows = <<>>
    <3>1. ToSet(rows) = {}
      BY <2>3 DEF ToSet
    <3> QED
      BY <1>3, <3>1
  <2>4. CASE rows # <<>>
    <3>1. \E point : rows \in First(table, ids, point, Limit(q))
      BY <2>1, <2>4 DEF ChromemAnswers
    <3> HIDE DEF ids
    <3>2. ToSet(rows) \subseteq ids
      BY <1>1, <2>2, <3>1, FirstOfThem
    <3> QED
      BY <1>3, <3>2 DEF ids
  <2> QED
    BY <2>3, <2>4
<1>4. CASE q.id = None /\ backend # "chromem"
  <2> DEFINE ids == Where(table, q, near, Filters(ctx, q, map))
  <2>1. rows \in PgvectorAnswers(table, q, near, Filters(ctx, q, map))
    BY <1>4 DEF Found
  <2>2. IsFiniteSet(ids)
    BY FewDocuments DEF Where
  <2>3. \E found \in SUBSET ids : rows \in First(table, found, near, Limit(q))
    BY <2>1 DEF PgvectorAnswers
  <2> HIDE DEF ids
  <2>4. ToSet(rows) \subseteq ids
    <3>1. PICK found \in SUBSET ids : rows \in First(table, found, near, Limit(q))
      BY <2>3
    <3>2. IsFiniteSet(found)
      BY <2>2, FS_Subset
    <3> QED
      BY <1>1, <3>1, <3>2, FirstOfThem
  <2> QED
    BY <1>4, <2>4 DEF ids
<1> QED
  BY <1>2, <1>3, <1>4

\* A row that is answered passes what is asked of it, whose entity is that of
\* the criteria or of the map.
LEMMA WhereAsks ==
    ASSUME StateOK, NEW q \in Queries, NEW near, NEW map \in FilterMaps,
           NEW id \in Where(table, q, near, map)
    PROVE  LET exact  == ExactMatch[q].fields.entity
               inPg   == backend = "pgvector"
               byExact == exact # None /\ (inPg \/ near = None)
           IN  /\ byExact => table[id].entity = exact
               /\ map.entity # None /\ (inPg \/ (map.typed /\ ~byExact))
                    => table[id].entity = map.entity
<1> DEFINE fields == ExactMatch[q].fields
           over   == Overridden(map, fields)
<1>1. \A m \in Asked(q, near, map) : NamesEntity(m) => table[id].entity = m.entity
  BY DEF Where, Passes
<1>2. CASE backend = "pgvector"
  <2>1. map \in Asked(q, near, map) /\ fields \in Asked(q, near, map)
    BY <1>2 DEF Asked
  <2> QED
    BY <1>1, <1>2, <2>1 DEF NamesEntity
<1>3. CASE backend # "pgvector" /\ near = None
  <2>1. over \in Asked(q, near, map)
    BY <1>3 DEF Asked, StateOK
  <2>2. /\ fields.entity # None => over.entity = fields.entity /\ over.typed
        /\ fields.entity = None => over.entity = map.entity
        /\ map.typed => over.typed
    BY DEF Overridden
  <2> HIDE DEF over
  <2> QED
    BY <1>1, <1>3, <2>1, <2>2 DEF NamesEntity
<1>4. CASE backend # "pgvector" /\ near # None
  <2>1. map \in Asked(q, near, map)
    BY <1>4 DEF Asked, StateOK
  <2> QED
    BY <1>1, <1>4, <2>1 DEF NamesEntity
<1> QED
  BY <1>2, <1>3, <1>4

\* Every answer is of the entity of the context, or of the one that the criteria
\* or the map names.
LEMMA AnswersOwnEntity == IInv /\ FiniteTable => OwnEntityUnlessNamed
<1> SUFFICES ASSUME IInv, FiniteTable, NEW ctx \in Callers, NEW q \in Queries,
                    NEW near \in Near, NEW m \in Maps \cup {Reused},
                    NEW rows \in Found(table, ctx, q, near, MapOf(m)),
                    NEW id \in ToSet(rows)
             PROVE  LET map        == MapOf(m)
                        exact      == ExactMatch[q].fields.entity
                        inPg       == backend = "pgvector"
                        own        == inPg /\ (q.id # None \/ map.entity = None)
                        byCriteria == /\ q.id = None /\ exact # None
                                      /\ inPg \/ near = None
                        byMap      == /\ q.id = None /\ map.entity # None
                                      /\ inPg \/ (map.typed /\ ~byCriteria)
                    IN  /\ own => table[id].entity = ctx.entity
                        /\ byCriteria => table[id].entity = exact
                        /\ byMap => table[id].entity = map.entity
  BY DEF OwnEntityUnlessNamed
<1> DEFINE map == MapOf(m)
<1>1. map \in FilterMaps
  BY VectorAssumption DEF MapOf, IInv, StateOK
<1>2. ctx.entity \in Entities /\ ctx.entity # None
  BY CallersAssumption, MemoryAssumption DEF Contexts
<1>3. id \in IF q.id # None THEN ByID(table, ctx, q.id)
             ELSE IF backend = "chromem" THEN Where(table, q, near, map)
             ELSE Where(table, q, near, Filters(ctx, q, map))
  BY <1>1, FoundAreAsked
<1> HIDE DEF map
<1>4. CASE q.id # None
  BY <1>3, <1>4 DEF ByID, map
<1>5. CASE q.id = None /\ backend = "chromem"
  <2>1. id \in Where(table, q, near, map)
    BY <1>3, <1>5
  <2> QED
    BY <1>1, <1>5, <2>1, WhereAsks DEF map, IInv
<1>6. CASE q.id = None /\ backend = "pgvector"
  <2> DEFINE asked == Filters(ctx, q, map)
  <2>1. asked \in FilterMaps
    BY <1>1, FiltersInMaps
  <2>2. id \in Where(table, q, near, asked)
    BY <1>3, <1>6
  <2>3. asked.entity = IF map.entity = None THEN ctx.entity ELSE map.entity
    BY <1>1, <1>6 DEF Filters, FilterMaps
  <2> HIDE DEF asked
  <2> QED
    BY <1>2, <1>6, <2>1, <2>2, <2>3, WhereAsks DEF map, IInv
<1> QED
  BY <1>4, <1>5, <1>6 DEF IInv, StateOK

\* pgvector answers with rows of the context's entity unless the filter map
\* names another, and chromem-go with those of the entity that the criteria name
\* or else of the entity.EntityID in the map, for any records, queries, filter
\* maps and criteria.
THEOREM EntityUnlessNamed == Spec => []OwnEntityUnlessNamed
  BY InitInv, Step, InitFinite, FiniteStep, AnswersOwnEntity, PTL DEF Spec

-----------------------------------------------------------------------------
(* Which rows are answered, and in which order.                            *)

\* The first n of some rows: the nearest of them, nearest first.
LEMMA FirstAreNearest ==
    ASSUME NEW rows, NEW ids, IsFiniteSet(ids), NEW near, NEW n \in Nat,
           NEW a \in First(rows, ids, near, n)
    PROVE  /\ IsInjective(a) /\ ToSet(a) \subseteq ids /\ Len(a) <= n
           /\ Ordered(rows, near, a)
           /\ Len(a) = n \/ ToSet(a) = ids
           /\ \A i \in ToSet(a), j \in ids \ ToSet(a) : Precedes(rows, near, i, j)
<1> DEFINE R == {p \in ids \X ids : Precedes(rows, near, p[1], p[2])}
<1>1. PICK s \in SetToSeqs(ids) :
         /\ Ordered(rows, near, s)
         /\ a = SubSeq(s, 1, IF Len(s) > n THEN n ELSE Len(s))
  BY DEF First
<1>2. IsFiniteSet(ids)
  OBVIOUS
<1>3. \A x, y \in ids : <<x, y>> \in R <=> Precedes(rows, near, x, y)
  OBVIOUS
<1>4. \A x, y : <<x, y>> \in R => x \in ids /\ y \in ids
  OBVIOUS
<1> HIDE DEF R
<1>5. \A i \in DOMAIN s : s[i] \in ids
  BY DEF SetToSeqs
<1>6. \A i, j \in DOMAIN s : i < j => <<s[i], s[j]>> \in R
  BY <1>1, <1>3, <1>5, Zenon DEF Ordered
<1>7. /\ a \in Seq(ids) /\ IsInjective(a) /\ Len(a) <= n
      /\ Len(a) = n \/ ToSet(a) = ids
      /\ \A i, j \in DOMAIN a : i < j => <<a[i], a[j]>> \in R
      /\ \A x \in ToSet(a), y \in ids \ ToSet(a) : <<x, y>> \in R
  BY <1>1, <1>2, <1>6, FirstOf
<1>8. ToSet(a) \subseteq ids
  BY <1>7 DEF ToSet
<1>9. Ordered(rows, near, a)
  BY <1>3, <1>4, <1>7, Zenon DEF Ordered
<1>10. \A i \in ToSet(a), j \in ids \ ToSet(a) : Precedes(rows, near, i, j)
  BY <1>3, <1>4, <1>7, Zenon
<1> QED
  BY <1>7, <1>8, <1>9, <1>10

\* Every answer that either adapter may give is as NearestAnswered says.
LEMMA FoundAreNearest == IInv /\ FiniteTable => NearestAnswered
<1> SUFFICES ASSUME IInv, FiniteTable, NEW ctx \in Callers, NEW q \in Queries, NEW near \in Near,
                    NEW m \in Maps \cup {Reused}, q.id = None,
                    NEW a \in Found(table, ctx, q, near, MapOf(m))
             PROVE  LET map   == IF backend = "pgvector"
                                   THEN Filters(ctx, q, MapOf(m)) ELSE MapOf(m)
                        ids   == Where(table, q, near, map)
                        point == IF backend = "chromem" /\ near = None
                                   THEN Placeholder ELSE near
                    IN  /\ IsInjective(a)
                        /\ ToSet(a) \subseteq ids
                        /\ Len(a) <= Limit(q)
                        /\ Ordered(table, point, a)
                        /\ \/ ToSet(a) = ids
                           \/ /\ Len(a) = Limit(q)
                              /\ \A i \in ToSet(a), j \in ids \ ToSet(a) :
                                    Precedes(table, point, i, j)
                           \/ backend = "pgvector" /\ near # None
                           \/ /\ backend = "chromem"
                              /\ Limit(q) > Cardinality(Documents(table))
                              /\ a = <<>>
  BY DEF NearestAnswered
<1> DEFINE map   == IF backend = "pgvector" THEN Filters(ctx, q, MapOf(m))
                                            ELSE MapOf(m)
           ids   == Where(table, q, near, map)
           point == IF backend = "chromem" /\ near = None THEN Placeholder
                                                          ELSE near
           n     == Limit(q)
<1>1. n \in Nat
  BY CallersAssumption, MemoryAssumption DEF Limit, AllQueries
<1>2. IsFiniteSet(ids)
  BY FewDocuments DEF Where
<1>3. backend \in {"chromem", "pgvector"}
  BY DEF IInv, StateOK
<1>4. CASE backend = "chromem" /\ ~TooMany(table, n)
  <2>1. a \in First(table, ids, point, n)
    BY <1>4 DEF Found, ChromemAnswers
  <2> HIDE DEF ids, point, n
  <2>2. /\ IsInjective(a) /\ ToSet(a) \subseteq ids /\ Len(a) <= n
        /\ Ordered(table, point, a)
        /\ Len(a) = n \/ ToSet(a) = ids
        /\ \A i \in ToSet(a), j \in ids \ ToSet(a) : Precedes(table, point, i, j)
    BY <1>1, <1>2, <2>1, FirstAreNearest
  <2> QED
    BY <2>2, Zenon DEF ids, point, n
<1>5. CASE backend = "chromem" /\ TooMany(table, n)
  <2>1. a = <<>> /\ n > Cardinality(Documents(table))
    BY <1>5 DEF Found, ChromemAnswers, TooMany
  <2>2. ToSet(a) = {} /\ DOMAIN a = {} /\ Len(a) = 0
    BY <2>1 DEF ToSet
  <2>3. IsInjective(a) /\ Ordered(table, point, a)
    BY <2>2 DEF IsInjective, Ordered
  <2> QED
    BY <1>1, <1>5, <2>1, <2>2, <2>3
<1>6. CASE backend = "pgvector"
  <2>1. PICK found \in SUBSET ids :
           /\ a \in First(table, found, near, n)
           /\ near = None => found = ids
    BY <1>6 DEF Found, PgvectorAnswers
  <2>2. IsFiniteSet(found)
    BY <1>2, <2>1, FS_Subset
  <2>3. a \in First(table, found, point, n)
    BY <1>6, <2>1
  <2> HIDE DEF ids, point, n
  <2>4. /\ IsInjective(a) /\ ToSet(a) \subseteq found /\ Len(a) <= n
        /\ Ordered(table, point, a)
        /\ Len(a) = n \/ ToSet(a) = found
        /\ \A i \in ToSet(a), j \in found \ ToSet(a) : Precedes(table, point, i, j)
    BY <1>1, <2>2, <2>3, FirstAreNearest
  <2> QED
    BY <1>6, <2>1, <2>4 DEF ids, point, n
<1> QED
  BY <1>3, <1>4, <1>5, <1>6

\* However many rows there are, and whatever is asked for, filtered and cut, an
\* answer of either vector adapter (chromem_go.go:198, pgvector.go:293) shows
\* what was asked for and nothing else, each row once, the nearest first; and it
\* leaves out none nearer but what an index misses or chromem-go does not find.
THEOREM TheNearestAnswered == Spec => []NearestAnswered
<1> QED
  BY InitInv, Step, InitFinite, FiniteStep, FoundAreNearest, PTL DEF Spec

-----------------------------------------------------------------------------
(* Which queries have an answer.                                           *)

\* What Precedes compares: the distance, or the time of the update.
KeyOf(r, near) ==
    IF near # None THEN Distance(r.embedding, near) ELSE 0 - r.updated

\* Rows can be listed in the order that a query asks for.
LEMMA FirstExist ==
    ASSUME StateOK, FiniteTable, NEW ids \in SUBSET Documents(table),
           NEW near \in Nat \cup {None}, NEW n
    PROVE  First(table, ids, near, n) # {}
<1> DEFINE key == [id \in ids |-> KeyOf(table[id], near)]
<1>1. \A id \in ids : table[id] \in Rows
  BY DEF Documents, StateOK
<1>2. \A id \in ids : table[id].embedding \in Nat /\ table[id].updated \in Nat
  <2>1. Points \subseteq Nat
    BY VectorAssumption DEF Points
  <2> QED
    BY <1>1, <2>1, MemoryAssumption DEF Rows
<1>3. IsFiniteSet(ids) /\ ids \subseteq Nat
  <2>1. ids \in SUBSET Ids
    BY DEF Documents
  <2> QED
    BY <2>1, MemoryAssumption, FewDocuments
<1>4. key \in [ids -> Int]
  BY <1>2 DEF KeyOf, Distance
<1>5. \A id \in ids : key[id] = KeyOf(table[id], near)
  OBVIOUS
<1> HIDE DEF key
<1>6. PICK s \in SetToSeqs(ids) :
         \A i, j \in DOMAIN s : i < j =>
            \/ key[s[i]] < key[s[j]]
            \/ key[s[i]] = key[s[j]] /\ s[i] < s[j]
  BY <1>3, <1>4, ListingByKey
<1>7. ASSUME NEW i \in DOMAIN s, NEW j \in DOMAIN s, i < j
      PROVE  Precedes(table, near, s[i], s[j])
  <2>1. s[i] \in ids /\ s[j] \in ids
    BY DEF SetToSeqs
  <2>2. key[s[i]] <= key[s[j]]
    BY <1>4, <1>6, <1>7, <2>1
  <2>3. KeyOf(table[s[i]], near) <= KeyOf(table[s[j]], near)
    BY <1>5, <2>1, <2>2
  <2>4. table[s[i]].updated \in Nat /\ table[s[j]].updated \in Nat
    BY <1>2, <2>1
  <2> QED
    BY <2>3, <2>4 DEF KeyOf, Precedes
<1>8. Ordered(table, near, s)
  BY <1>7 DEF Ordered
<1> QED
  BY <1>8 DEF First

\* A query is refused by nothing but an error of the database, unless chromem-go
\* has fewer documents than it asks for and it comes without an embedding, or
\* pgvector is given criteria on metadata.
Answerable ==
    \A ctx \in Callers, q \in Queries, near \in Near, m \in Maps \cup {Reused} :
        \/ Found(table, ctx, q, near, MapOf(m)) # {}
        \/ /\ backend = "chromem"
           /\ q.id # None \/ near = None
           /\ TooMany(table, IF q.id # None THEN 1 ELSE Limit(q))
        \/ backend = "pgvector" /\ q.id = None /\ NoSuchColumn(q)

\* In both adapters every query has an answer, whatever is stored, but for those.
THEOREM AlwaysAnswerable == Spec => []Answerable
<1>1. IInv /\ FiniteTable => Answerable
  <2> SUFFICES ASSUME IInv, FiniteTable, NEW ctx \in Callers, NEW q \in Queries,
                      NEW near \in Near, NEW m \in Maps \cup {Reused},
                      ~ /\ backend = "chromem"
                        /\ q.id # None \/ near = None
                        /\ TooMany(table, IF q.id # None THEN 1 ELSE Limit(q)),
                      ~ /\ backend = "pgvector"
                        /\ q.id = None
                        /\ NoSuchColumn(q)
               PROVE  Found(table, ctx, q, near, MapOf(m)) # {}
    BY DEF Answerable
  <2>1. StateOK /\ backend \in {"chromem", "pgvector"}
    BY DEF IInv, StateOK
  <2>2. near \in Nat \cup {None} /\ Placeholder \in Nat
    BY VectorAssumption DEF Points
  <2>3. CASE q.id # None
    <3>1. ByID(table, ctx, q.id) \in SUBSET Documents(table)
      BY DEF ByID
    <3>2. First(table, ByID(table, ctx, q.id), None, 1) # {}
      BY <2>1, <3>1, FirstExist
    <3> QED
      BY <2>3, <3>2 DEF Found, IDAnswers
  <2>4. CASE q.id = None /\ backend = "chromem"
    <3> DEFINE ids   == Where(table, q, near, MapOf(m))
               point == IF near = None THEN Placeholder ELSE near
    <3>1. ids \in SUBSET Documents(table)
      BY DEF Where
    <3>2. First(table, ids, point, Limit(q)) # {}
      <4>1. point \in Nat \cup {None}
        BY <2>2
      <4> HIDE DEF ids, point
      <4> QED
        BY <2>1, <3>1, <4>1, FirstExist
    <3> QED
      BY <2>4, <3>2 DEF Found, ChromemAnswers
  <2>5. CASE q.id = None /\ backend = "pgvector"
    <3> DEFINE ids == Where(table, q, near, Filters(ctx, q, MapOf(m)))
    <3>1. ids \in SUBSET Documents(table)
      BY DEF Where
    <3> HIDE DEF ids
    <3>2. First(table, ids, near, Limit(q)) # {}
      BY <2>1, <2>2, <3>1, FirstExist
    <3> QED
      BY <2>5, <3>2 DEF Found, PgvectorAnswers, ids
  <2> QED
    BY <2>1, <2>3, <2>4, <2>5
<1> QED
  BY <1>1, InitInv, Step, InitFinite, FiniteStep, PTL DEF Spec

-----------------------------------------------------------------------------
(* Types, of answers too.                                                  *)

\* An answer is a sequence of IDs.
LEMMA FoundAreSequences ==
    ASSUME IInv, FiniteTable, NEW ctx \in Callers, NEW q \in Queries,
           NEW near \in Near, NEW map \in FilterMaps,
           NEW rows \in Found(table, ctx, q, near, map)
    PROVE  rows \in Seq(Ids)
<1> DEFINE docs == Documents(table)
<1>1. Limit(q) \in Nat
  BY CallersAssumption, MemoryAssumption DEF Limit, AllQueries
<1>2. docs \subseteq Ids /\ IsFiniteSet(docs)
  BY FewDocuments DEF Documents
<1> HIDE DEF docs
<1>3. ASSUME NEW ids \in SUBSET docs, NEW point, NEW n \in Nat,
             rows \in First(table, ids, point, n)
      PROVE  rows \in Seq(Ids)
  <2>1. IsFiniteSet(ids) /\ Cardinality(ids) \in Nat
    BY <1>2, FS_Subset, FS_CardinalityType
  <2>2. PICK t \in SetToSeqs(ids) :
          rows = SubSeq(t, 1, IF Len(t) > n THEN n ELSE Len(t))
    BY <1>3 DEF First
  <2>3. t \in [1 .. Cardinality(ids) -> ids]
    BY <2>2 DEF SetToSeqs
  <2>4. t \in Seq(Ids)
    BY <1>2, <2>1, <2>3
  <2> QED
    BY <2>2, <2>4
<1>4. CASE rows = <<>>
  BY <1>4
<1>5. ByID(table, ctx, q.id) \subseteq docs
  BY DEF ByID, docs
<1>6. \A m : Where(table, q, near, m) \subseteq docs
  BY DEF Where, docs
<1>7. CASE q.id # None
  <2>1. rows \in First(table, ByID(table, ctx, q.id), None, 1)
    BY <1>7 DEF Found, IDAnswers
  <2> QED
    BY <1>3, <1>5, <2>1
<1>8. CASE q.id = None /\ backend = "chromem" /\ rows # <<>>
  <2>1. \E point : rows \in First(table, Where(table, q, near, map), point, Limit(q))
    BY <1>8 DEF Found, ChromemAnswers
  <2> QED
    BY <1>1, <1>3, <1>6, <2>1
<1>9. CASE q.id = None /\ backend # "chromem"
  <2> DEFINE ids == Where(table, q, near, Filters(ctx, q, map))
  <2>1. \E found \in SUBSET ids : rows \in First(table, found, near, Limit(q))
    BY <1>9 DEF Found, PgvectorAnswers
  <2>2. ids \subseteq docs
    BY <1>6
  <2> HIDE DEF ids
  <2> QED
    BY <1>1, <1>3, <2>1, <2>2
<1> QED
  BY <1>4, <1>7, <1>8, <1>9

\* What a call answers, if it ends.
Replies ==
    [call : {"none", "Store", "Retrieve", "Update", "Delete"},
     outcome : {"none", "ok", "error"}, rows : Seq(Ids)]

\* No step makes another store of it, or answers with anything but IDs.
LEMMA ReplyStep ==
    ASSUME IInv, FiniteTable, Next
    PROVE  onDisk' = onDisk /\ (reply' = reply \/ reply' \in Replies)
<1>0. <<>> \in Seq(Ids)
  OBVIOUS
<1> DEFINE Good == onDisk' = onDisk /\ (reply' = reply \/ reply' \in Replies)
<1>1. ASSUME NEW call \in {"none", "Store", "Retrieve", "Update", "Delete"},
             NEW outcome \in {"none", "ok", "error"}, NEW rows \in Seq(Ids),
             Reply(call, outcome, rows), UNCHANGED onDisk
      PROVE  Good
  BY <1>1 DEF Reply, Replies
<1>2. ASSUME UNCHANGED <<onDisk, reply>>
      PROVE  Good
  BY <1>2
<1>3. CASE Restart
  BY <1>0, <1>3 DEF Restart, Replies
<1> HIDE DEF Good
<1>4. ASSUME NEW p, NEW call \in {"Store", "Retrieve", "Update", "Delete"},
             Fails(p, call)
      PROVE  Good
  BY <1>0, <1>1, <1>4 DEF Fails
<1>5. ASSUME NEW p \in Procs, NEW ctx \in Callers, NEW q \in Queries,
             NEW near \in Near, NEW m \in Maps \cup {Reused},
             Retrieve(p, ctx, q, near, m)
      PROVE  Good
  <2>1. MapOf(m) \in FilterMaps
    BY VectorAssumption DEF MapOf, IInv, StateOK
  <2>2. \A rows \in Found(table, ctx, q, near, MapOf(m)) : rows \in Seq(Ids)
    BY <2>1, FoundAreSequences
  <2> QED
    BY <1>0, <1>1, <1>5, <2>2 DEF Retrieve
<1>6. ASSUME NEW p \in Procs, NEW id \in Ids, Delete(p, id)
      PROVE  Good
  BY <1>0, <1>1, <1>2, <1>4, <1>6
  DEF Delete, Takes, Succeeds, Miscarries, NotFound
<1>7. ASSUME NEW p \in Procs, NEW id \in Ids, NEW input,
             Store(p, id, input) \/ FindForUpdate(p, id, input)
      PROVE  Good
  BY <1>0, <1>1, <1>2, <1>4, <1>7
  DEF Store, FindForUpdate, Put, Succeeds, Miscarries, NotFound
<1>8. ASSUME NEW p \in Procs,
             \/ WriteUpdate(p) \/ RemoveForUpdate(p) \/ AddForUpdate(p)
             \/ RemoveForDelete(p)
      PROVE  Good
  BY <1>0, <1>1, <1>2, <1>4, <1>8
  DEF WriteUpdate, RemoveForUpdate, AddForUpdate, RemoveForDelete, Put, Takes,
      Succeeds, Miscarries
<1>9. ASSUME NEW p \in Procs, RetrieveRefused(p)
      PROVE  Good
  BY <1>4, <1>9 DEF RetrieveRefused
<1> QED
  BY <1>3, <1>5, <1>6, <1>7, <1>8, <1>9 DEF Next, Good

\* The types hold in both adapters, of what is stored, of what is under way and
\* of every answer.
THEOREM TypeCorrect == Spec => []TypeOK
<1>1. Init => TypeOK
  BY DEF Init, TypeOK, EmptyTable, NoFilters, FilterMaps, Tales
<1>2. IInv /\ FiniteTable /\ TypeOK /\ [Next]_vars => TypeOK'
  <2> SUFFICES ASSUME IInv, FiniteTable, TypeOK, [Next]_vars
               PROVE  TypeOK'
    OBVIOUS
  <2>1. StateOK'
    BY Step DEF IInv
  <2>2. onDisk' = onDisk /\ (reply' = reply \/ reply' \in Replies)
    BY ReplyStep DEF vars
  <2> QED
    BY <2>1, <2>2 DEF TypeOK, StateOK, Replies
<1> QED
  BY <1>1, <1>2, InitInv, Step, InitFinite, FiniteStep, PTL DEF Spec

-----------------------------------------------------------------------------
(* What pgvector is spared.                                                *)

\* A process in the middle of a call of pgvector is about to write its UPDATE.
UpdatesInPlace ==
    backend = "pgvector" =>
        \A p \in Procs : pending[p] # None => pending[p].next = "write"

\* Nothing else is ever under way.
LEMMA InPlaceStep ==
    ASSUME IInv, UpdatesInPlace, [Next]_vars
    PROVE  UpdatesInPlace'
<1>0. pending \in [Procs -> Steps \cup {None}]
  BY DEF IInv, StateOK
<1>1. ASSUME UNCHANGED <<backend, pending>>
      PROVE  UpdatesInPlace'
  BY <1>1 DEF UpdatesInPlace
<1>2. ASSUME NEW p \in Procs, Continue(p, None), UNCHANGED backend
      PROVE  UpdatesInPlace'
  BY <1>0, <1>2 DEF UpdatesInPlace, Continue
<1>3. CASE Restart
  BY <1>3 DEF Restart, UpdatesInPlace
<1>4. ASSUME NEW p \in Procs, NEW call, Fails(p, call)
      PROVE  UpdatesInPlace'
  BY <1>2, <1>4 DEF Fails
<1>5. ASSUME NEW p \in Procs, NEW id, NEW input, FindForUpdate(p, id, input)
      PROVE  UpdatesInPlace'
  <2>1. CASE Fails(p, "Update")
    BY <1>4, <2>1
  <2>2. CASE ~Fails(p, "Update") /\ ~NotFound(p, id, "Update")
    <3> DEFINE step == [next |-> IF backend = "pgvector" THEN "write"
                                                         ELSE "remove",
                        id |-> id, input |-> input]
    <3>1. pending' = [pending EXCEPT ![p] = step] /\ UNCHANGED backend
      BY <1>5, <2>2 DEF FindForUpdate, Continue
    <3>2. backend = "pgvector" => step.next = "write"
      OBVIOUS
    <3> HIDE DEF step
    <3> QED
      BY <1>0, <3>1, <3>2 DEF UpdatesInPlace
  <2>3. CASE NotFound(p, id, "Update")
    BY <1>1, <2>3 DEF NotFound
  <2> QED
    BY <2>1, <2>2, <2>3
<1>6. ASSUME NEW p \in Procs, NEW id, Delete(p, id)
      PROVE  UpdatesInPlace'
  <2>1. CASE backend = "pgvector"
    BY <1>1, <1>4, <1>6, <2>1 DEF Delete, Takes, NotFound
  <2>2. CASE backend # "pgvector"
    BY <1>6, <2>2 DEF Delete, Fails, UpdatesInPlace
  <2> QED
    BY <2>1, <2>2
<1>7. ASSUME NEW p \in Procs,
             WriteUpdate(p) \/ AddForUpdate(p) \/ RemoveForDelete(p)
      PROVE  UpdatesInPlace'
  BY <1>2, <1>4, <1>7
  DEF WriteUpdate, AddForUpdate, RemoveForDelete, Put, Takes
<1>8. ASSUME NEW p \in Procs, RemoveForUpdate(p)
      PROVE  UpdatesInPlace'
  <2>1. backend # "pgvector"
    BY <1>8 DEF RemoveForUpdate, UpdatesInPlace, Idle
  <2> QED
    BY <1>8, <2>1 DEF RemoveForUpdate, Takes, Fails, UpdatesInPlace
<1>9. ASSUME NEW p \in Procs, RetrieveRefused(p)
      PROVE  UpdatesInPlace'
  BY <1>4, <1>9 DEF RetrieveRefused
<1>10. ASSUME NEW p \in Procs, NEW id, NEW input, Store(p, id, input)
       PROVE  UpdatesInPlace'
  BY <1>1, <1>4, <1>10 DEF Store, Put
<1>11. ASSUME NEW p \in Procs, NEW ctx, NEW q, NEW near, NEW m,
              Retrieve(p, ctx, q, near, m)
       PROVE  UpdatesInPlace'
  BY <1>1, <1>11 DEF Retrieve
<1> QED
  BY <1>1, <1>3, <1>5, <1>6, <1>7, <1>8, <1>9, <1>10, <1>11 DEF Next, vars

\* So no Update of pgvector has taken a row away.
LEMMA NothingRemoved ==
    ASSUME UpdatesInPlace, backend = "pgvector"
    PROVE  Removed = {}
BY DEF UpdatesInPlace, Removed

\* At first nothing is under way.
LEMMA InitInPlace == Init => UpdatesInPlace
BY DEF Init, UpdatesInPlace

\* In pgvector a record whose caller was told that it is stored is there until
\* it is deleted: what AsTold excepts happens in chromem-go only.
THEOREM PgvectorLosesNothing ==
    Spec => [](backend = "pgvector" =>
                  \A id \in Ids : told[id] = "kept" => table[id] # None)
<1>1. IInv /\ UpdatesInPlace =>
        (backend = "pgvector" =>
            \A id \in Ids : told[id] = "kept" => table[id] # None)
  BY NothingRemoved DEF IInv, AsTold
<1> QED
  BY <1>1, InitInv, Step, InitInPlace, InPlaceStep, PTL DEF Spec

\* Nor does it bring back a row that is gone otherwise than by Store.
THEOREM PgvectorRevivesNothing ==
    Spec => [][backend = "pgvector" =>
                  \A id \in Ids : table[id] = None /\ table'[id] # None
                                    => reply'.call = "Store"]_vars
<1>1. IInv /\ UpdatesInPlace /\ [Next]_vars
        => [backend = "pgvector" =>
               \A id \in Ids : table[id] = None /\ table'[id] # None
                                 => reply'.call = "Store"]_vars
  BY NothingRemoved, RevivedByStore DEF Revived, Excused, FileLeft
<1> QED
  BY <1>1, InitInv, Step, InitInPlace, InPlaceStep, PTL DEF Spec
=============================================================================
