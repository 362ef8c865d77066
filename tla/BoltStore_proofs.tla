-------------------------- MODULE BoltStore_proofs --------------------------
(***************************************************************************)
(* The BoltDB adapter implements the interface ltm.LTMStore, for every set *)
(* of entities, users, records and queries: a record is in the bucket of   *)
(* the entity it belongs to, no operation changes another entity's bucket, *)
(* and queries are answered with the newest of what they ask for.          *)
(***************************************************************************)
EXTENDS BoltStore, Memory_proofs

\* The buckets' part of TypeOK.
BucketsOK == buckets \in [Entities -> [Ids -> Records \cup {None}]]

-----------------------------------------------------------------------------
\* What Store writes is a record of the context's entity.
LEMMA OwnedIsRecord ==
    ASSUME NEW ctx \in Callers, NEW input \in NewRecords,
           Acceptable(input, ctx)
    PROVE  /\ Owned(input, ctx) \in Records
           /\ Owned(input, ctx).entity = ctx.entity
<1>1. ctx \in Contexts /\ input \in Inputs
  BY CallersAssumption
<1> QED
  BY <1>1, MemoryAssumption DEF Contexts, Inputs, Records, Owned, Acceptable

\* Update leaves a record a record of the same entity.
LEMMA ChangedIsRecord ==
    ASSUME NEW old \in Records, NEW input \in NewRecords
    PROVE  LET new == [old EXCEPT !.content = input.content,
                                  !.meta = Kept[input.meta]]
           IN  new \in Records /\ new.entity = old.entity
<1>1. input \in Inputs
  BY CallersAssumption
<1> QED
  BY <1>1, MemoryAssumption DEF Inputs, Records

-----------------------------------------------------------------------------
\* The inductive step: one step per operation.
LEMMA Step ==
    BucketsOK /\ RecordsAtHome /\ [Next]_vars
        => (BucketsOK /\ RecordsAtHome)'
<1> SUFFICES ASSUME BucketsOK, RecordsAtHome, [Next]_vars
             PROVE  BucketsOK' /\ RecordsAtHome'
  OBVIOUS
<1> USE DEF BucketsOK, RecordsAtHome
<1>1. ASSUME UNCHANGED buckets
      PROVE  BucketsOK' /\ RecordsAtHome'
  BY <1>1
<1>2. ASSUME NEW ctx \in Callers, NEW id \in Ids, NEW input \in NewRecords,
             Store(ctx, id, input)
      PROVE  BucketsOK' /\ RecordsAtHome'
  <2>1. CASE Acceptable(input, ctx)
    <3>1. buckets' = [buckets EXCEPT ![ctx.entity][id] = Owned(input, ctx)]
      BY <1>2, <2>1 DEF Store
    <3> QED
      BY <2>1, <3>1, OwnedIsRecord
  <2>2. CASE ~Acceptable(input, ctx)
    BY <1>1, <1>2, <2>2 DEF Store, Fail
  <2> QED
    BY <2>1, <2>2
<1>3. ASSUME NEW ctx \in Callers, NEW id \in Ids, NEW input \in NewRecords,
             Update(ctx, id, input)
      PROVE  BucketsOK' /\ RecordsAtHome'
  <2> DEFINE old == buckets[ctx.entity][id]
             new == [old EXCEPT !.content = input.content,
                                !.meta = Kept[input.meta]]
  <2>1. CASE old # None /\ old.entity = ctx.entity
    <3>1. buckets' = [buckets EXCEPT ![ctx.entity][id] = new]
      BY <1>3, <2>1 DEF Update
    <3>2. ctx.entity \in Entities
      BY CallersAssumption DEF Contexts
    <3>3. old \in Records
      BY <2>1, <3>2
    <3>4. new \in Records /\ new.entity = old.entity
      BY <3>3, ChangedIsRecord
    <3> HIDE DEF new
    <3> QED
      BY <2>1, <3>1, <3>4
  <2>2. CASE ~(old # None /\ old.entity = ctx.entity)
    BY <1>1, <1>3, <2>2 DEF Update, Fail
  <2> QED
    BY <2>1, <2>2
<1>4. ASSUME NEW ctx \in Callers, NEW id \in Ids, Delete(ctx, id)
      PROVE  BucketsOK' /\ RecordsAtHome'
  BY <1>1, <1>4 DEF Delete, Fail
<1>5. ASSUME NEW ctx \in Callers, NEW q \in Queries, Retrieve(ctx, q)
      PROVE  BucketsOK' /\ RecordsAtHome'
  BY <1>1, <1>5 DEF Retrieve
<1>6. CASE NoContext
  BY <1>1, <1>6 DEF NoContext, Fail
<1> QED
  BY <1>1, <1>2, <1>3, <1>4, <1>5, <1>6 DEF Next, vars

\* A record is in the bucket of the entity it belongs to: the checks of the
\* owner in Update and Delete (boltdb.go:292, 360) never fail.
THEOREM RecordsStayHome == Spec => []RecordsAtHome
<1>1. Init => BucketsOK /\ RecordsAtHome
  BY DEF Init, BucketsOK, RecordsAtHome
<1> QED
  BY <1>1, Step, PTL DEF Spec

-----------------------------------------------------------------------------
\* Store, Update and Delete write to the bucket of the context's entity only.
LEMMA WritesOwnBucket ==
    ASSUME BucketsOK, Next, NEW e \in Entities, buckets'[e] # buckets[e]
    PROVE  reply'.ctx.entity = e
<1> USE DEF BucketsOK
<1>1. ASSUME NEW ctx \in Callers, NEW id \in Ids, NEW r, NEW call,
             buckets' = [buckets EXCEPT ![ctx.entity][id] = r],
             Reply(call, ctx, "ok", <<>>)
      PROVE  reply'.ctx.entity = e
  BY <1>1 DEF Reply
<1>2. ASSUME NEW ctx \in Callers, NEW id \in Ids, NEW input \in NewRecords,
             Store(ctx, id, input)
      PROVE  reply'.ctx.entity = e
  BY <1>1, <1>2 DEF Store, Fail
<1>3. ASSUME NEW ctx \in Callers, NEW id \in Ids, NEW input \in NewRecords,
             Update(ctx, id, input)
      PROVE  reply'.ctx.entity = e
  BY <1>1, <1>3 DEF Update, Fail
<1>4. ASSUME NEW ctx \in Callers, NEW id \in Ids, Delete(ctx, id)
      PROVE  reply'.ctx.entity = e
  BY <1>1, <1>4 DEF Delete, Fail
<1> QED
  BY <1>2, <1>3, <1>4 DEF Next, NoContext, Fail, Retrieve

\* No operation changes what another entity has stored, whoever calls it and
\* with whatever records, IDs and queries.
THEOREM Isolation == Spec => EntityIsolation
<1>1. Init => BucketsOK /\ RecordsAtHome
  BY DEF Init, BucketsOK, RecordsAtHome
<1>2. BucketsOK /\ [Next]_vars
        => [\A e \in Entities : buckets'[e] # buckets[e]
               => reply'.ctx.entity = e]_<<buckets, reply>>
  BY WritesOwnBucket DEF vars
<1> QED
  BY <1>1, <1>2, Step, PTL DEF Spec, EntityIsolation, Promise!EntityIsolation

-----------------------------------------------------------------------------
(* Answers.                                                                *)

Filled(e) == {id \in Ids : buckets[e][id] # None}

\* A bucket has finitely many records, however many IDs there are: it starts
\* empty, and an operation writes one record.
FiniteBuckets == \A e \in Entities : IsFiniteSet(Filled(e))

\* A transaction makes at most one more place occupied.
LEMMA FiniteStep == BucketsOK /\ FiniteBuckets /\ [Next]_vars => FiniteBuckets'
<1> SUFFICES ASSUME BucketsOK, FiniteBuckets, Next, NEW e \in Entities
             PROVE  IsFiniteSet(Filled(e)')
  BY DEF vars, FiniteBuckets, Filled
<1> USE DEF BucketsOK
<1>1. ASSUME NEW ctx \in Callers, NEW i \in Ids, NEW r,
             buckets' = [buckets EXCEPT ![ctx.entity][i] = r]
      PROVE  Filled(e)' \subseteq Filled(e) \cup {i}
  BY <1>1 DEF Filled
<1>2. PICK i : UNCHANGED buckets \/ Filled(e)' \subseteq Filled(e) \cup {i}
  <2>1. ASSUME NEW ctx \in Callers, NEW id \in Ids, NEW input \in NewRecords,
               Store(ctx, id, input) \/ Update(ctx, id, input)
        PROVE  UNCHANGED buckets \/ Filled(e)' \subseteq Filled(e) \cup {id}
    <3>1. UNCHANGED buckets
            \/ \E r : buckets' = [buckets EXCEPT ![ctx.entity][id] = r]
      BY <2>1, Zenon DEF Store, Update, Fail
    <3> QED
      BY <1>1, <3>1
  <2>2. ASSUME NEW ctx \in Callers, NEW id \in Ids, Delete(ctx, id)
        PROVE  UNCHANGED buckets \/ Filled(e)' \subseteq Filled(e) \cup {id}
    BY <1>1, <2>2 DEF Delete, Fail
  <2> QED
    BY <2>1, <2>2 DEF Next, NoContext, Retrieve, Fail
<1>3. IsFiniteSet(Filled(e)) /\ IsFiniteSet(Filled(e) \cup {i})
  BY FS_AddElement DEF FiniteBuckets
<1>4. CASE Filled(e)' \subseteq Filled(e) \cup {i}
  BY <1>3, <1>4, FS_Subset
<1>5. CASE UNCHANGED buckets
  BY <1>3, <1>5 DEF Filled
<1> QED
  BY <1>2, <1>4, <1>5

\* The sorting of finitely many records ends with all of them in order.
LEMMA SortedIsListing ==
    ASSUME NEW bucket, NEW ids, IsFiniteSet(ids), ids \subseteq Nat,
           \A id \in ids : bucket[id].created \in Nat
    PROVE  LET s == Sorted(bucket, ids)
           IN  /\ s \in SetToSeqs(ids)
               /\ \A i, j \in DOMAIN s :
                     i < j => bucket[s[i]].created >= bucket[s[j]].created
<1>1. \E s \in SetToSeqs(ids) :
         \A i, j \in DOMAIN s : i < j => Newer(bucket, s[i], s[j])
  BY NewestListing
<1> DEFINE s == Sorted(bucket, ids)
<1>2. s \in SetToSeqs(ids) /\ \A i, j \in DOMAIN s : i < j => Newer(bucket, s[i], s[j])
  BY <1>1 DEF Sorted, Newer
<1> HIDE DEF s
<1>3. \A i \in DOMAIN s : s[i] \in ids
  BY <1>2 DEF SetToSeqs
<1>4. ASSUME NEW i \in DOMAIN s, NEW j \in DOMAIN s, i < j
      PROVE  bucket[s[i]].created >= bucket[s[j]].created
  <2>1. bucket[s[i]].created \in Nat /\ bucket[s[j]].created \in Nat
    BY <1>3
  <2>2. Newer(bucket, s[i], s[j])
    BY <1>2, <1>4
  <2> QED
    BY <2>1, <2>2 DEF Newer
<1> QED
  BY <1>2, <1>4 DEF s

\* The full scan collects what is wanted.
LEMMA ScannedIsWanted ==
    ASSUME BucketsOK, NEW ctx \in Callers, NEW q, q.id = None
    PROVE  LET bucket == buckets[ctx.entity]
               ids    == Scanned(bucket, ctx, q)
           IN  /\ ids = Wanted(bucket, ctx, q)
               /\ ids \subseteq Filled(ctx.entity)
               /\ \A id \in ids : bucket[id].created \in Nat
<1> DEFINE bucket == buckets[ctx.entity]
<1>1. bucket \in [Ids -> Records \cup {None}]
  BY CallersAssumption DEF BucketsOK, Contexts
<1>2. Scanned(bucket, ctx, q) \subseteq Filled(ctx.entity)
  BY DEF Scanned, Filled
<1> HIDE DEF bucket
<1>3. ASSUME NEW id \in Ids, bucket[id] # None
      PROVE  /\ id \in Scanned(bucket, ctx, q) <=> id \in Wanted(bucket, ctx, q)
             /\ bucket[id].created \in Nat
  <2>1. bucket[id].level \in {"private", "shared"} /\ bucket[id].created \in Nat
    BY <1>1, <1>3, MemoryAssumption DEF Records, Levels
  <2> QED
    BY <1>1, <1>3, <2>1 DEF Scanned, isAccessible, Wanted, Visible, Matches
<1>4. \A id \in Scanned(bucket, ctx, q) \cup Wanted(bucket, ctx, q) :
         id \in Ids /\ bucket[id] # None
  BY <1>1 DEF Scanned, Wanted
<1> QED
  BY <1>2, <1>3, <1>4 DEF bucket

\* Without an ID the answer is the newest of what is wanted.
LEMMA SearchIsRight ==
    ASSUME BucketsOK, FiniteBuckets, NEW ctx \in Callers, NEW q \in Queries,
           q.id = None
    PROVE  LET bucket == buckets[ctx.entity]
               a      == Found(bucket, ctx, q)
           IN  /\ a \in Seq(Ids)
               /\ Answers(bucket, ctx, q, a)
               /\ NewestFirst(bucket, ctx, q, a)
<1> DEFINE bucket == buckets[ctx.entity]
           ids    == Scanned(bucket, ctx, q)
           s      == Sorted(bucket, ids)
           n      == LimitOf(q)
<1>1. n \in Nat /\ n = IF q.limit > 0 THEN q.limit ELSE DefaultLimit
  BY CallersAssumption, MemoryAssumption DEF LimitOf, AllQueries
<1>2. /\ ids = Wanted(bucket, ctx, q)
      /\ ids \subseteq Filled(ctx.entity)
      /\ \A id \in ids : bucket[id].created \in Nat
  BY ScannedIsWanted
<1>3. IsFiniteSet(ids) /\ ids \subseteq Nat
  <2>1. IsFiniteSet(Filled(ctx.entity)) /\ Filled(ctx.entity) \subseteq Nat
    BY CallersAssumption, MemoryAssumption DEF FiniteBuckets, Contexts, Filled
  <2> QED
    BY <1>2, <2>1, FS_Subset
<1>4. Found(bucket, ctx, q) = IF Len(s) > n THEN SubSeq(s, 1, n) ELSE s
  BY <1>1 DEF Found, Search, Limited
<1> HIDE DEF bucket, ids, s, n
<1>5. /\ s \in SetToSeqs(ids)
      /\ \A i, j \in DOMAIN s :
            i < j => bucket[s[i]].created >= bucket[s[j]].created
  BY <1>2, <1>3, SortedIsListing DEF s
<1>6. s \in Seq(ids)
  BY <1>3, <1>5, Listing
<1>7. Found(bucket, ctx, q) = SubSeq(s, 1, IF Len(s) > n THEN n ELSE Len(s))
  BY <1>1, <1>4, <1>6
<1>8. LET a == SubSeq(s, 1, IF Len(s) > n THEN n ELSE Len(s))
      IN  Answers(bucket, ctx, q, a) /\ NewestFirst(bucket, ctx, q, a)
  BY <1>1, <1>2, <1>3, <1>5, NewestOf DEF n
<1>9. Found(bucket, ctx, q) \in Seq(Ids)
  <2>1. ids \subseteq Ids
    BY <1>2 DEF Filled
  <2> QED
    BY <1>1, <1>6, <1>7, <2>1
<1> QED
  BY <1>7, <1>8, <1>9 DEF bucket

\* With an ID the answer is the record, if the caller may see it.
LEMMA LookUpIsRight ==
    ASSUME BucketsOK, NEW ctx \in Callers, NEW q \in Queries, q.id # None
    PROVE  LET bucket == buckets[ctx.entity]
           IN  /\ Found(bucket, ctx, q) \in Seq(Ids)
               /\ Answers(bucket, ctx, Asked(q), Found(bucket, ctx, q))
<1> DEFINE bucket == buckets[ctx.entity]
           asked  == Asked(q)
           a      == Found(bucket, ctx, q)
<1>1. bucket \in [Ids -> Records \cup {None}]
  BY CallersAssumption DEF BucketsOK, Contexts
<1>2. /\ asked.id = q.id /\ asked.text = Contents /\ asked.filter = Metas
      /\ q.id \in Ids
      /\ LimitOf(asked) \in Nat /\ LimitOf(asked) > 0
  BY CallersAssumption, MemoryAssumption DEF Asked, AllQueries, LimitOf
<1>3. a = IF bucket[q.id] # None /\ isAccessible(bucket[q.id], ctx)
            THEN <<q.id>> ELSE <<>>
  BY DEF Found
<1> HIDE DEF bucket, asked, a
<1>4. Wanted(bucket, ctx, asked) =
        IF bucket[q.id] # None /\ isAccessible(bucket[q.id], ctx)
          THEN {q.id} ELSE {}
  <2>1. ASSUME bucket[q.id] # None
        PROVE  /\ bucket[q.id].content \in Contents
               /\ bucket[q.id].meta \in Metas
               /\ bucket[q.id].level \in {"private", "shared"}
    BY <1>1, <1>2, <2>1 DEF Records, Levels
  <2>2. \A id \in Wanted(bucket, ctx, asked) : id = q.id /\ bucket[id] # None
    BY <1>2 DEF Wanted, Matches
  <2>3. q.id \in Wanted(bucket, ctx, asked)
          <=> bucket[q.id] # None /\ isAccessible(bucket[q.id], ctx)
    BY <1>1, <1>2, <2>1 DEF Wanted, Matches, Visible, isAccessible
  <2> QED
    BY <2>2, <2>3
<1>5. ToSet(a) = Wanted(bucket, ctx, asked) /\ IsInjective(a) /\ Len(a) <= 1
  BY <1>3, <1>4 DEF ToSet, IsInjective
<1>6. Len(a) \in Nat
  BY <1>3
<1>7. Len(a) = LimitOf(asked) \/ Len(a) < LimitOf(asked)
  BY <1>2, <1>5, <1>6
<1>8. Answers(bucket, ctx, asked, a)
  BY <1>5, <1>7 DEF Answers
<1>9. a \in Seq(Ids)
  BY <1>2, <1>3
<1> QED
  BY <1>8, <1>9 DEF bucket, asked, a

\* The empty store has the invariants.
LEMMA InitInv == Init => BucketsOK /\ RecordsAtHome /\ FiniteBuckets
BY FS_EmptySet DEF Init, BucketsOK, RecordsAtHome, FiniteBuckets, Filled

\* However many records an entity has and whatever the limit, a query without an
\* ID (boltdb.go:134) is answered with the newest of what it asks for, newest
\* first: the limit never cuts a newer record than any it leaves.
THEOREM TheNewestAnswered == Spec => []NewestAnswered
<1>1. BucketsOK /\ FiniteBuckets => NewestAnswered
  BY SearchIsRight DEF NewestAnswered
<1> QED
  BY <1>1, InitInv, Step, FiniteStep, PTL DEF Spec

-----------------------------------------------------------------------------
(* The refinement of the interface.                                        *)

\* A transaction that writes r under id in the bucket of the entity changes one
\* place of the memory that the interface speaks of.
LEMMA WritesOnePlace ==
    ASSUME BucketsOK, NEW ctx \in Callers, NEW id \in Ids, NEW r,
           buckets' = [buckets EXCEPT ![ctx.entity][id] = r]
    PROVE  /\ Promise!ChangesOnly(ctx.entity, id)
           /\ buckets'[ctx.entity][id] = r
<1>1. ctx.entity \in Entities
  BY CallersAssumption DEF Contexts
<1>2. /\ DOMAIN buckets' = Entities
      /\ \A f \in Entities \ {ctx.entity} : buckets'[f] = buckets[f]
      /\ buckets'[ctx.entity] = [buckets[ctx.entity] EXCEPT ![id] = r]
  BY <1>1 DEF BucketsOK
<1>3. buckets'[ctx.entity][id] = r
  BY <1>1, <1>2 DEF BucketsOK
<1> QED
  BY <1>2, <1>3 DEF Promise!ChangesOnly

\* An operation that fails is one that the interface lets fail.
LEMMA FailureRefuses ==
    ASSUME NEW call \in {"Store", "Retrieve", "Update", "Delete"},
           NEW ctx \in Callers \cup {None}, Fail(call, ctx)
    PROVE  Promise!Next
<1>1. Promise!Refuse(call, ctx)
  BY DEF Fail, Reply, Promise!Refuse, Promise!Replies
<1> QED
  BY <1>1 DEF Promise!Next, Promise!Calls

\* Every transaction is a step that the interface allows.
LEMMA StepImplements ==
    ASSUME BucketsOK, FiniteBuckets, Next
    PROVE  Promise!Next
<1>1. ASSUME NEW ctx \in Callers, NEW id \in Ids, NEW input \in NewRecords,
             Store(ctx, id, input)
      PROVE  Promise!Next
  <2>1. CASE Acceptable(input, ctx)
    <3>1. /\ buckets' = [buckets EXCEPT ![ctx.entity][id] = Owned(input, ctx)]
          /\ Reply("Store", ctx, "ok", <<>>)
      BY <1>1, <2>1 DEF Store
    <3>2. /\ Promise!ChangesOnly(ctx.entity, id)
          /\ buckets'[ctx.entity][id] = Owned(input, ctx)
      BY <3>1, WritesOnePlace
    <3>3. Promise!Acceptable(input, ctx) /\ Promise!Owned(input, ctx) = Owned(input, ctx)
      BY <2>1 DEF Acceptable, Owned, Promise!Acceptable, Promise!Owned
    <3>4. Promise!Put(ctx, id, input)
      BY <3>1, <3>2, <3>3 DEF Reply, Promise!Put, Promise!Replies
    <3> QED
      BY <3>4 DEF Promise!Next
  <2>2. CASE ~Acceptable(input, ctx)
    BY <1>1, <2>2, FailureRefuses DEF Store
  <2> QED
    BY <2>1, <2>2
<1>2. ASSUME NEW ctx \in Callers, NEW id \in Ids, NEW input \in NewRecords,
             Update(ctx, id, input)
      PROVE  Promise!Next
  <2> DEFINE old == buckets[ctx.entity][id]
             new == [old EXCEPT !.content = input.content,
                                !.meta = Kept[input.meta]]
  <2>1. CASE old # None /\ old.entity = ctx.entity
    <3>1. /\ buckets' = [buckets EXCEPT ![ctx.entity][id] = new]
          /\ Reply("Update", ctx, "ok", <<>>)
      BY <1>2, <2>1 DEF Update
    <3> HIDE DEF new
    <3>2. /\ Promise!ChangesOnly(ctx.entity, id)
          /\ buckets'[ctx.entity][id] = new
      BY <3>1, WritesOnePlace
    <3>3. Promise!Change(ctx, id, input)
      BY <2>1, <3>1, <3>2 DEF Reply, new, Promise!Change, Promise!Replies
    <3> QED
      BY <3>3 DEF Promise!Next
  <2>2. CASE ~(old # None /\ old.entity = ctx.entity)
    <3>1. Fail("Update", ctx)
      BY <1>2, <2>2 DEF Update
    <3> QED
      BY <3>1, FailureRefuses
  <2> QED
    BY <2>1, <2>2
<1>3. ASSUME NEW ctx \in Callers, NEW id \in Ids, Delete(ctx, id)
      PROVE  Promise!Next
  <2> DEFINE old == buckets[ctx.entity][id]
  <2>1. CASE old # None /\ old.entity = ctx.entity
    <3>1. /\ buckets' = [buckets EXCEPT ![ctx.entity][id] = None]
          /\ Reply("Delete", ctx, "ok", <<>>)
      BY <1>3, <2>1 DEF Delete
    <3>2. /\ Promise!ChangesOnly(ctx.entity, id)
          /\ buckets'[ctx.entity][id] = None
      BY <3>1, WritesOnePlace
    <3>3. Promise!Erase(ctx, id)
      BY <2>1, <3>1, <3>2 DEF Reply, Promise!Erase, Promise!Replies
    <3> QED
      BY <3>3 DEF Promise!Next
  <2>2. CASE ~(old # None /\ old.entity = ctx.entity)
    <3>1. Fail("Delete", ctx)
      BY <1>3, <2>2 DEF Delete
    <3> QED
      BY <3>1, FailureRefuses
  <2> QED
    BY <2>1, <2>2
<1>4. ASSUME NEW ctx \in Callers, NEW q \in Queries, Retrieve(ctx, q)
      PROVE  Promise!Next
  <2> DEFINE bucket == buckets[ctx.entity]
             a      == Found(bucket, ctx, q)
  <2>1. Answers(bucket, ctx, Asked(q), a)
    <3>1. CASE q.id = None
      BY <3>1, SearchIsRight DEF Asked
    <3>2. CASE q.id # None
      BY <3>2, LookUpIsRight
    <3> QED
      BY <3>1, <3>2
  <2>2. reply' = [call |-> "Retrieve", ctx |-> ctx, outcome |-> "ok", rows |-> a]
          /\ UNCHANGED buckets
    BY <1>4 DEF Retrieve, Reply
  <2> HIDE DEF bucket, a
  <2>3. Promise!Answers(bucket, ctx, Asked(q), a)
    <3>1. Promise!Wanted(bucket, ctx, Asked(q)) = Wanted(bucket, ctx, Asked(q))
      BY DEF Wanted, Visible, Matches,
             Promise!Wanted, Promise!Visible, Promise!Matches
    <3>2. /\ Promise!LimitOf(Asked(q)) = LimitOf(Asked(q))
          /\ Promise!ToSet(a) = ToSet(a)
          /\ Promise!IsInjective(a) <=> IsInjective(a)
      BY DEF LimitOf, ToSet, IsInjective,
             Promise!LimitOf, Promise!ToSet, Promise!IsInjective
    <3> QED
      BY <2>1, <3>1, <3>2 DEF Answers, Promise!Answers
  <2>4. Promise!Look(ctx, Asked(q))
    BY <2>2, <2>3 DEF bucket, Promise!Look, Promise!Replies
  <2> QED
    BY <2>4 DEF Promise!Next
<1>5. CASE NoContext
  BY <1>5, FailureRefuses DEF NoContext
<1> QED
  BY <1>1, <1>2, <1>3, <1>4, <1>5 DEF Next

\* The adapter implements ltm.LTMStore (ltm.go:59), answers of Retrieve included:
\* each of its transactions does what the interface allows of the operation, for
\* any entities, users, records, queries and limits.
THEOREM Implements == Spec => ImplementsLTMStore
<1>1. Init => Promise!Init
  BY DEF Init, Promise!Init, Promise!EmptyMemory, Promise!NoReply
<1>2. BucketsOK /\ FiniteBuckets /\ [Next]_vars => [Promise!Next]_<<buckets, reply>>
  BY StepImplements DEF vars
<1> QED
  BY <1>1, <1>2, InitInv, Step, FiniteStep, PTL
     DEF Spec, ImplementsLTMStore, Promise!Spec

-----------------------------------------------------------------------------
(* Replies.                                                                *)

\* No reply shows a caller a record that is not its own to see: one of another
\* entity, or a private one of another user.
NothingPrivateShown ==
    \A id \in ToSet(reply.rows) :
        LET r == buckets[reply.ctx.entity][id]
        IN  r # None /\ Visible(r, reply.ctx)

\* Every step replies, with rows only if they are the answer to a query.
Replied(ctx, outcome, rows) ==
    /\ ctx \in Callers \cup {None}
    /\ outcome \in {"ok", "error"}
    /\ \E call : Reply(call, ctx, outcome, rows)
    /\ \/ rows = <<>>
       \/ /\ ctx \in Callers
          /\ \E q \in Queries : rows = Found(buckets[ctx.entity], ctx, q)
          /\ UNCHANGED buckets

\* Whatever a transaction replies is of the types and shows nothing private.
LEMMA StepReplies ==
    ASSUME Next
    PROVE  \E ctx, outcome, rows : Replied(ctx, outcome, rows)
<1>1. ASSUME NEW call, NEW ctx \in Callers \cup {None}, Fail(call, ctx)
      PROVE  Replied(ctx, "error", <<>>)
  BY <1>1, Zenon DEF Fail, Replied
<1>2. ASSUME NEW call, NEW ctx \in Callers, Reply(call, ctx, "ok", <<>>)
      PROVE  Replied(ctx, "ok", <<>>)
  BY <1>2, Zenon DEF Replied
<1>3. ASSUME NEW ctx \in Callers, NEW q \in Queries, Retrieve(ctx, q)
      PROVE  Replied(ctx, "ok", Found(buckets[ctx.entity], ctx, q))
  BY <1>3, Zenon DEF Replied, Retrieve
<1>4. ASSUME NoContext
      PROVE  Replied(None, "error", <<>>)
  BY <1>1, <1>4, Zenon DEF NoContext
<1>5. ASSUME NEW ctx \in Callers, NEW id \in Ids, NEW input \in NewRecords,
             Store(ctx, id, input) \/ Update(ctx, id, input)
      PROVE  \E outcome : Replied(ctx, outcome, <<>>)
  BY <1>1, <1>2, <1>5, Zenon DEF Store, Update
<1>6. ASSUME NEW ctx \in Callers, NEW id \in Ids, Delete(ctx, id)
      PROVE  \E outcome : Replied(ctx, outcome, <<>>)
  BY <1>1, <1>2, <1>6, Zenon DEF Delete
<1> QED
  BY <1>3, <1>4, <1>5, <1>6, Zenon DEF Next

\* The answer to a query is a sequence of IDs that the caller may see.
LEMMA FoundAreVisible ==
    ASSUME BucketsOK, FiniteBuckets, NEW ctx \in Callers, NEW q \in Queries
    PROVE  LET bucket == buckets[ctx.entity]
               a      == Found(bucket, ctx, q)
           IN  /\ a \in Seq(Ids)
               /\ \A id \in ToSet(a) : bucket[id] # None /\ Visible(bucket[id], ctx)
<1> DEFINE bucket == buckets[ctx.entity]
           a      == Found(bucket, ctx, q)
<1>1. a \in Seq(Ids) /\ \E asked : Answers(bucket, ctx, asked, a)
  BY SearchIsRight, LookUpIsRight
<1> HIDE DEF bucket, a
<1>2. \A id \in ToSet(a) : bucket[id] # None /\ Visible(bucket[id], ctx)
  BY <1>1 DEF Answers, Wanted
<1> QED
  BY <1>1, <1>2 DEF bucket, a

\* Whoever asks for whatever, by ID or not, and whatever others store.
THEOREM Privacy == Spec => []NothingPrivateShown
<1>1. Init => NothingPrivateShown
  BY DEF Init, NothingPrivateShown, ToSet
<1>2. BucketsOK /\ FiniteBuckets /\ NothingPrivateShown /\ [Next]_vars
        => NothingPrivateShown'
  <2> SUFFICES ASSUME BucketsOK, FiniteBuckets, NothingPrivateShown, [Next]_vars,
                      NEW id \in ToSet(reply'.rows)
               PROVE  LET r == buckets'[reply'.ctx.entity][id]
                      IN  r # None /\ Visible(r, reply'.ctx)
    BY DEF NothingPrivateShown
  <2>1. CASE Next
    <3>1. PICK ctx, outcome, rows : Replied(ctx, outcome, rows)
      BY <2>1, StepReplies
    <3>2. reply'.ctx = ctx /\ reply'.rows = rows
      BY <3>1 DEF Replied, Reply
    <3>3. rows # <<>>
      BY <3>2 DEF ToSet
    <3> QED
      BY <3>1, <3>2, <3>3, FoundAreVisible DEF Replied
  <2>2. CASE UNCHANGED vars
    BY <2>2 DEF vars, NothingPrivateShown
  <2> QED
    BY <2>1, <2>2
<1> QED
  BY <1>1, <1>2, InitInv, Step, FiniteStep, PTL DEF Spec

\* Types hold; in particular an answer never names anything but IDs.
THEOREM TypeCorrect == Spec => []TypeOK
<1>1. Init => TypeOK
  BY DEF Init, TypeOK
<1>2. BucketsOK /\ RecordsAtHome /\ FiniteBuckets /\ TypeOK /\ [Next]_vars => TypeOK'
  <2> SUFFICES ASSUME BucketsOK, RecordsAtHome, FiniteBuckets, TypeOK, [Next]_vars
               PROVE  TypeOK'
    OBVIOUS
  <2>1. BucketsOK'
    BY Step
  <2>2. CASE Next
    <3>1. PICK ctx, outcome, rows : Replied(ctx, outcome, rows)
      BY <2>2, StepReplies
    <3>2. reply'.ctx = ctx /\ reply'.outcome = outcome /\ reply'.rows = rows
      BY <3>1 DEF Replied, Reply
    <3>3. rows \in Seq(Ids)
      <4>1. CASE rows = <<>>
        BY <4>1
      <4>2. ASSUME ctx \in Callers, NEW q \in Queries,
                   rows = Found(buckets[ctx.entity], ctx, q)
            PROVE  rows \in Seq(Ids)
        BY <4>2, FoundAreVisible
      <4> QED
        BY <3>1, <4>1, <4>2, Zenon DEF Replied
    <3> QED
      BY <2>1, <3>1, <3>2, <3>3 DEF TypeOK, BucketsOK, Replied
  <2>3. CASE UNCHANGED vars
    BY <2>3 DEF TypeOK, vars
  <2> QED
    BY <2>2, <2>3
<1> QED
  BY <1>1, <1>2, InitInv, Step, FiniteStep, PTL DEF Spec
=============================================================================
