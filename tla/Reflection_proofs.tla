-------------------------- MODULE Reflection_proofs --------------------------
(***************************************************************************)
(* What the MMU and the reflection module promise, for any number of        *)
(* goroutines, contexts, records, queries and whatever the hooks return.    *)
(***************************************************************************)
EXTENDS Reflection, Memory_proofs

\* What an encoding under way has kept of what it was given.
EncodedRight(o) ==
    /\ o.at \in {"before_embedding", "embed"} =>
           /\ config.vectors
           /\ o.content = o.data.content
           /\ o.data.embedding = None
    /\ ~config.hooks =>
           /\ o.at \notin {"before_embedding", "before_encode"}
           /\ o.content = o.data.content
    /\ IF o.data.embedding # None
       THEN o.embedding = o.data.embedding
       ELSE /\ o.embedding \in {None, o.data.content}
            /\ ~config.vectors => o.embedding = None

OperationOK(o) == o \in Encodings => EncodedRight(o)

\* Every record comes from a call.
OriginKnown ==
    \A e \in Entities, id \in Ids : mem[e][id] # None => origin[id] # None

Stored(p)    == At(p, "encode", "stored")
AtStored     == {p \in Procs : Stored(p)}
StoredCells  == {r \in Entities \X Ids : mem[r[1]][r[2]] # None}

\* However many goroutines and IDs there are.
FinitelyStored == IsFiniteSet(AtStored) /\ IsFiniteSet(StoredCells)

MmuInv ==
    /\ TypeOK
    /\ FinitelyStored
    /\ \A p \in Procs : OperationOK(op[p])
    /\ OriginKnown
    /\ RecordsAsAsked
    /\ encoded + Cardinality(AtStored) = Cardinality(StoredCells)

IInv == MmuInv /\ ReflectionTypeOK

-----------------------------------------------------------------------------
\* Encodings and retrievals are told apart by their call.
LEMMA CallsDiffer ==
    /\ \A o \in Encodings : o.call = "encode"
    /\ \A o \in Retrievals : o.call = "retrieve"
    /\ Encodings \cap Retrievals = {}
    /\ None \notin Encodings \cup Retrievals
BY MmuAssumption DEF Encodings, Retrievals

\* Where an operation under way is, is what it says.
LEMMA AtIs ==
    ASSUME TypeOK, NEW p \in Procs, NEW step
    PROVE  /\ At(p, "encode", step) <=> op[p] \in Encodings /\ op[p].at = step
           /\ At(p, "retrieve", step) <=> op[p] \in Retrievals /\ op[p].at = step
BY CallsDiffer DEF TypeOK, At

\* A step that only moves one operation on, and neither stores nor ends one that
\* has stored.
LEMMA OperationStep ==
    ASSUME MmuInv, NEW p \in Procs, NEW o,
           op' = [op EXCEPT ![p] = o],
           o \in Encodings \cup Retrievals \cup {None},
           OperationOK(o), ~Stored(p), o \in Encodings => o.at # "stored",
           UNCHANGED <<config, mem, embedded, origin, encoded>>
    PROVE  MmuInv'
<1>1. TypeOK'
  BY DEF MmuInv, TypeOK
<1>2. /\ op'[p] = o
      /\ \A q \in Procs \ {p} : op'[q] = op[q]
  BY DEF MmuInv, TypeOK
<1>3. ASSUME NEW q \in Procs
      PROVE  OperationOK(op[q])'
  <2>1. OperationOK(op'[q])
    BY <1>2 DEF MmuInv
  <2> QED
    BY <2>1 DEF OperationOK, EncodedRight
<1>4. ~Stored(p)'
  BY <1>2, CallsDiffer DEF Stored, At
<1>5. AtStored' = AtStored
  BY <1>2, <1>4 DEF AtStored, Stored, At
<1>6. StoredCells' = StoredCells
  BY DEF StoredCells
<1>7. OriginKnown' /\ RecordsAsAsked'
  BY DEF MmuInv, OriginKnown, RecordsAsAsked
<1> QED
  BY <1>1, <1>3, <1>5, <1>6, <1>7 DEF MmuInv, FinitelyStored

\* A call that returns and has stored nothing keeps the invariant of the MMU.
LEMMA ReturnStep ==
    ASSUME MmuInv, NEW p \in Procs, Return(p), ~Stored(p),
           UNCHANGED <<config, mem, embedded, origin, encoded>>
    PROVE  MmuInv'
BY OperationStep, CallsDiffer DEF Return, OperationOK

-----------------------------------------------------------------------------
(* EncodeToLTM.                                                            *)

\* So does one that begins to encode.
LEMMA EncodeStep ==
    ASSUME MmuInv, NEW p \in Procs, NEW ctx \in Callers, NEW data \in Data,
           Encode(p, ctx, data)
    PROVE  MmuInv'
<1> DEFINE o == [call |-> "encode", ctx |-> ctx, data |-> data,
                 at |-> IF ~shouldGenerateEmbedding(data) THEN AfterEmbedding
                        ELSE IF config.hooks THEN "before_embedding" ELSE "embed",
                 content |-> data.content, embedding |-> data.embedding]
<1>1. /\ op[p] = None
      /\ op' = [op EXCEPT ![p] = o]
      /\ UNCHANGED <<config, mem, embedded, origin, encoded>>
  BY DEF Encode
<1>2. data.content \in Contents /\ data.embedding \in Contents \cup {None}
  BY MmuAssumption DEF AllData
<1>3. /\ o.at \in {"before_embedding", "embed", "before_encode", "store"}
      /\ o \in Encodings
  BY <1>2 DEF Encodings, AfterEmbedding
<1>4. EncodedRight(o)
  BY DEF EncodedRight, shouldGenerateEmbedding, AfterEmbedding
<1>5. OperationOK(o)
  BY <1>3, <1>4, CallsDiffer DEF OperationOK
<1>6. ~Stored(p)
  BY <1>1 DEF Stored, At
<1> HIDE DEF o
<1> QED
  BY <1>1, <1>3, <1>5, <1>6, OperationStep

\* The steps between the call and the store.
LEMMA EncodingStep ==
    ASSUME MmuInv, NEW p \in Procs, BeforeEmbedding(p) \/ Embed(p) \/ BeforeEncode(p)
    PROVE  MmuInv'
<1>1. /\ op[p] \in Encodings
      /\ EncodedRight(op[p])
      /\ ~Stored(p)
      /\ UNCHANGED <<config, mem, embedded, origin, encoded>>
  BY AtIs DEF MmuInv, OperationOK, BeforeEmbedding, Embed, BeforeEncode, Stored, At
<1>2. SUFFICES ASSUME NEW o, op' = [op EXCEPT ![p] = o], o \in Encodings,
                      EncodedRight(o), o.at # "stored"
               PROVE  MmuInv'
  <2>1. CASE BeforeEmbedding(p)
    <3>1. PICK next \in {"embed", AfterEmbedding} :
              op' = [op EXCEPT ![p].at = next]
      BY <2>1 DEF BeforeEmbedding
    <3> DEFINE o == [op[p] EXCEPT !.at = next]
    <3>2. op' = [op EXCEPT ![p] = o] /\ op[p].at = "before_embedding"
      BY <2>1, <3>1 DEF BeforeEmbedding, At
    <3>3. o \in Encodings /\ o.at # "stored"
      BY <1>1, <3>1 DEF Encodings, AfterEmbedding
    <3>4. EncodedRight(o)
      BY <1>1, <3>1, <3>2 DEF EncodedRight, Encodings, AfterEmbedding
    <3> QED
      BY <1>2, <3>2, <3>3, <3>4
  <2>2. CASE Embed(p)
    <3>1. PICK embedding \in {op[p].content, None} :
              op' = [op EXCEPT ![p].embedding = embedding,
                               ![p].at = AfterEmbedding]
      BY <2>2 DEF Embed
    <3> DEFINE o == [op[p] EXCEPT !.embedding = embedding, !.at = AfterEmbedding]
    <3>2. op' = [op EXCEPT ![p] = o] /\ op[p].at = "embed"
      BY <2>2, <3>1 DEF Embed, At
    <3>3. o \in Encodings /\ o.at # "stored"
      BY <1>1, <3>1 DEF Encodings, AfterEmbedding
    <3>4. EncodedRight(o)
      BY <1>1, <3>1, <3>2 DEF EncodedRight, Encodings, AfterEmbedding
    <3> QED
      BY <1>2, <3>2, <3>3, <3>4
  <2>3. CASE BeforeEncode(p)
    <3>1. PICK content \in Contents :
              op' = [op EXCEPT ![p].content = content, ![p].at = "store"]
      BY <2>3 DEF BeforeEncode
    <3> DEFINE o == [op[p] EXCEPT !.content = content, !.at = "store"]
    <3>2. op' = [op EXCEPT ![p] = o] /\ op[p].at = "before_encode"
      BY <2>3, <3>1 DEF BeforeEncode, At
    <3>3. o \in Encodings /\ o.at # "stored"
      BY <1>1, <3>1 DEF Encodings
    <3>4. EncodedRight(o)
      BY <1>1, <3>1, <3>2 DEF EncodedRight, Encodings
    <3> QED
      BY <1>2, <3>2, <3>3, <3>4
  <2> QED
    BY <2>1, <2>2, <2>3
<1>3. OperationOK(o)
  BY <1>2, CallsDiffer DEF OperationOK
<1> QED
  BY <1>1, <1>2, <1>3, OperationStep

\* What the store takes and what it leaves.
LEMMA StoreTakes ==
    ASSUME MmuInv, NEW p \in Procs, Store(p)
    PROVE  \E id \in Ids :
             LET e == op[p].ctx.entity
             IN  /\ e \in Entities
                 /\ \A f \in Entities : mem[f][id] = None
                 /\ mem'[e][id] \in Records
                 /\ mem'[e][id] # None
                 /\ mem'[e][id].entity = e
                 /\ mem'[e][id].user = op[p].ctx.user
                 /\ mem'[e][id].level = Level(op[p].data)
                 /\ mem'[e][id].content = op[p].content
                 /\ mem' \in [Entities -> [Ids -> Records \cup {None}]]
                 /\ \A f \in Entities, i \in Ids :
                       <<f, i>> # <<e, id>> => mem'[f][i] = mem[f][i]
                 /\ embedded' = [embedded EXCEPT ![id] = op[p].embedding]
                 /\ origin' = [origin EXCEPT ![id] =
                                  [ctx |-> op[p].ctx, data |-> op[p].data]]
<1>1. PICK id \in Ids, now \in Times :
          /\ origin[id] = None
          /\ mem' = [mem EXCEPT ![op[p].ctx.entity][id] =
                        Owned(Draft(p, now), op[p].ctx)]
          /\ embedded' = [embedded EXCEPT ![id] = op[p].embedding]
          /\ origin' = [origin EXCEPT ![id] =
                           [ctx |-> op[p].ctx, data |-> op[p].data]]
  BY DEF Store
<1> DEFINE e == op[p].ctx.entity
           r == Owned(Draft(p, now), op[p].ctx)
<1>2. TypeOK /\ op[p] \in Encodings
  BY AtIs DEF MmuInv, Store
<1>3. /\ op[p].ctx \in Contexts
      /\ op[p].data \in AllData
      /\ op[p].content \in Contents
  BY <1>2, CallersAssumption, MmuAssumption DEF Encodings
<1>4. e \in Entities /\ e # None /\ op[p].ctx.user \in Users \cup {None}
  BY <1>3, MemoryAssumption DEF Contexts
<1>5. Level(op[p].data) \in Levels
  BY <1>3 DEF AllData, Level, Levels
<1>6. Kept[CHOOSE m \in Metas : TRUE] \in Metas
  BY MmuAssumption, MemoryAssumption
<1>7. /\ r \in Records
      /\ r.entity = e
      /\ r.user = op[p].ctx.user
      /\ r.level = Level(op[p].data)
      /\ r.content = op[p].content
  BY <1>3, <1>4, <1>5, <1>6 DEF Owned, Draft, Records
<1>8. r # None
  BY <1>7, MmuAssumption
<1> HIDE DEF r
<1>9. mem' = [mem EXCEPT ![e][id] = r]
  BY <1>1 DEF r
<1> HIDE DEF e
<1>10. mem \in [Entities -> [Ids -> Records \cup {None}]]
  BY <1>2 DEF TypeOK
<1>11. /\ mem'[e][id] = r
       /\ mem' \in [Entities -> [Ids -> Records \cup {None}]]
       /\ \A f \in Entities, i \in Ids :
             <<f, i>> # <<e, id>> => mem'[f][i] = mem[f][i]
  BY <1>4, <1>7, <1>9, <1>10
<1>12. \A f \in Entities : mem[f][id] = None
  BY <1>1 DEF MmuInv, OriginKnown
<1> USE DEF e
<1> QED
  BY <1>1, <1>4, <1>7, <1>8, <1>11, <1>12

\* Nothing that is in the store is ever changed.
MemKept ==
    \A e \in Entities, id \in Ids : mem[e][id] # None => mem'[e][id] = mem[e][id]

\* A store that succeeds adds one record, as it was asked for.
LEMMA StoreStep ==
    ASSUME MmuInv, NEW p \in Procs, Store(p)
    PROVE  MmuInv' /\ MemKept
<1>1. /\ TypeOK
      /\ op[p] \in Encodings
      /\ op[p].at = "store"
      /\ EncodedRight(op[p])
  BY AtIs DEF MmuInv, OperationOK, Store
<1> DEFINE o == [op[p] EXCEPT !.at = "stored"]
           e == op[p].ctx.entity
<1>2. PICK id \in Ids :
          /\ e \in Entities
          /\ \A f \in Entities : mem[f][id] = None
          /\ mem'[e][id] \in Records
          /\ mem'[e][id] # None
          /\ mem'[e][id].entity = e
          /\ mem'[e][id].user = op[p].ctx.user
          /\ mem'[e][id].level = Level(op[p].data)
          /\ mem'[e][id].content = op[p].content
          /\ mem' \in [Entities -> [Ids -> Records \cup {None}]]
          /\ \A f \in Entities, i \in Ids :
                <<f, i>> # <<e, id>> => mem'[f][i] = mem[f][i]
          /\ embedded' = [embedded EXCEPT ![id] = op[p].embedding]
          /\ origin' = [origin EXCEPT ![id] =
                           [ctx |-> op[p].ctx, data |-> op[p].data]]
  BY StoreTakes
<1>3. /\ op' = [op EXCEPT ![p] = o]
      /\ UNCHANGED <<config, encoded>>
  BY DEF Store
<1>4. o \in Encodings /\ o.at = "stored"
  BY <1>1 DEF Encodings
<1>5. /\ op'[p] = o
      /\ \A q \in Procs \ {p} : op'[q] = op[q]
  BY <1>1, <1>3 DEF TypeOK
<1>6. MemKept
  BY <1>2 DEF MemKept
<1>7. TypeOK'
  <2>1. op' \in [Procs -> Encodings \cup Retrievals \cup {None}]
    BY <1>1, <1>3, <1>4 DEF TypeOK
  <2>2. embedded' \in [Ids -> Contents \cup {None}]
    BY <1>1, <1>2 DEF TypeOK, Encodings
  <2>3. [ctx |-> op[p].ctx, data |-> op[p].data] \in Origins
    BY <1>1 DEF Encodings, Origins
  <2>4. origin' \in [Ids -> Origins \cup {None}]
    BY <1>1, <1>2, <2>3 DEF TypeOK
  <2> QED
    BY <1>1, <1>2, <1>3, <2>1, <2>2, <2>4 DEF TypeOK
<1>8. EncodedRight(o)
  BY <1>1, <1>4 DEF EncodedRight, Encodings
<1>9. ASSUME NEW q \in Procs
      PROVE  OperationOK(op[q])'
  <2>1. OperationOK(op'[q])
    BY <1>4, <1>5, <1>8, CallsDiffer DEF MmuInv, OperationOK
  <2>2. ASSUME NEW r, OperationOK(r)
        PROVE  OperationOK(r)'
    BY <1>3, <2>2 DEF OperationOK, EncodedRight
  <2> QED
    BY <2>1, <2>2 DEF OperationOK, EncodedRight
<1>10. OriginKnown'
  <2>1. [ctx |-> op[p].ctx, data |-> op[p].data] \in Origins
    BY <1>1 DEF Encodings, Origins
  <2> QED
    BY <1>1, <1>2, <2>1, MmuAssumption DEF MmuInv, OriginKnown, TypeOK
<1>11. RecordsAsAsked'
  <2>1. ASSUME NEW f \in Entities, NEW i \in Ids, mem'[f][i] # None
        PROVE  LET r    == mem'[f][i]
                   data == origin'[i].data
               IN  /\ f = origin'[i].ctx.entity
                   /\ r.entity = f
                   /\ r.user = origin'[i].ctx.user
                   /\ data.levelIsInt => r.level = data.level
                   /\ ~config.hooks => r.content = data.content
                   /\ IF data.embedding # None
                      THEN embedded'[i] = data.embedding
                      ELSE /\ embedded'[i] \in {None, data.content}
                           /\ ~config.vectors => embedded'[i] = None
    <3>1. CASE i = id
      <4>1. f = e
        BY <1>2, <2>1, <3>1
      <4>2. /\ origin'[id].ctx = op[p].ctx
            /\ origin'[id].data = op[p].data
            /\ embedded'[id] = op[p].embedding
        BY <1>1, <1>2 DEF TypeOK
      <4> QED
        BY <1>1, <1>2, <3>1, <4>1, <4>2 DEF EncodedRight, Level
    <3>2. CASE i # id
      <4>1. /\ origin'[i] = origin[i]
            /\ embedded'[i] = embedded[i]
            /\ mem'[f][i] = mem[f][i]
        BY <1>1, <1>2, <3>2 DEF TypeOK
      <4> QED
        BY <2>1, <4>1 DEF MmuInv, RecordsAsAsked
    <3> QED
      BY <3>1, <3>2
  <2> QED
    BY <1>3, <2>1 DEF RecordsAsAsked
<1>12. StoredCells' = StoredCells \cup {<<e, id>>} /\ <<e, id>> \notin StoredCells
  <2>1. ASSUME NEW f \in Entities, NEW i \in Ids
        PROVE  mem'[f][i] # None <=> mem[f][i] # None \/ <<f, i>> = <<e, id>>
    BY <1>2
  <2>2. <<e, id>> \in Entities \X Ids /\ mem[e][id] = None
    BY <1>2
  <2> QED
    BY <2>1, <2>2 DEF StoredCells
<1>13. AtStored' = AtStored \cup {p} /\ p \notin AtStored
  <2>1. Stored(p)' /\ ~Stored(p)
    BY <1>1, <1>4, <1>5, CallsDiffer DEF Stored, At
  <2>2. \A q \in Procs \ {p} : Stored(q)' <=> Stored(q)
    BY <1>5 DEF Stored, At
  <2> QED
    BY <2>1, <2>2 DEF AtStored
<1>14. (encoded + Cardinality(AtStored) = Cardinality(StoredCells))'
  <2>1. /\ Cardinality(AtStored') = Cardinality(AtStored) + 1
        /\ Cardinality(StoredCells') = Cardinality(StoredCells) + 1
    BY <1>12, <1>13, FS_AddElement DEF MmuInv, FinitelyStored
  <2>2. Cardinality(AtStored) \in Nat /\ Cardinality(StoredCells) \in Nat
    BY FS_CardinalityType DEF MmuInv, FinitelyStored
  <2> QED
    BY <1>1, <1>3, <2>1, <2>2 DEF MmuInv, TypeOK
<1>15. FinitelyStored'
  BY <1>12, <1>13, FS_AddElement DEF MmuInv, FinitelyStored
<1> QED
  BY <1>6, <1>7, <1>9, <1>10, <1>11, <1>14, <1>15 DEF MmuInv

\* An encoding that ends is counted in place of its record under way.
LEMMA EncodeEndsStep ==
    ASSUME MmuInv, NEW p \in Procs, EncodeEnds(p)
    PROVE  MmuInv'
<1>1. /\ TypeOK
      /\ Stored(p)
      /\ op' = [op EXCEPT ![p] = None]
      /\ encoded' = encoded + 1
      /\ UNCHANGED <<config, mem, embedded, origin>>
  BY DEF MmuInv, EncodeEnds, Return, Stored
<1>2. /\ op'[p] = None
      /\ \A q \in Procs \ {p} : op'[q] = op[q]
  BY <1>1 DEF TypeOK
<1>3. TypeOK'
  BY <1>1 DEF TypeOK
<1>4. ASSUME NEW q \in Procs
      PROVE  OperationOK(op[q])'
  BY <1>1, <1>2, CallsDiffer
  DEF MmuInv, OperationOK, EncodedRight
<1>5. OriginKnown' /\ RecordsAsAsked'
  BY <1>1 DEF MmuInv, OriginKnown, RecordsAsAsked
<1>6. AtStored' = AtStored \ {p} /\ p \in AtStored
  BY <1>1, <1>2 DEF AtStored, Stored, At
<1>7. StoredCells' = StoredCells
  BY <1>1 DEF StoredCells
<1>8. (encoded + Cardinality(AtStored) = Cardinality(StoredCells))'
  <2>1. Cardinality(AtStored') = Cardinality(AtStored) - 1
    BY <1>6, FS_RemoveElement DEF MmuInv, FinitelyStored
  <2>2. Cardinality(AtStored) \in Nat /\ encoded \in Nat
    BY <1>1, FS_CardinalityType DEF TypeOK, MmuInv, FinitelyStored
  <2> QED
    BY <1>1, <1>7, <2>1, <2>2 DEF MmuInv
<1>9. FinitelyStored'
  BY <1>6, <1>7, FS_RemoveElement DEF MmuInv, FinitelyStored
<1> QED
  BY <1>3, <1>4, <1>5, <1>8, <1>9 DEF MmuInv

-----------------------------------------------------------------------------
(* RetrieveFromLTM.                                                        *)

\* A retrieval that begins keeps the invariant.
LEMMA RetrieveStep ==
    ASSUME MmuInv, NEW p \in Procs, NEW ctx \in Callers, NEW q \in AllQueries,
           NEW strategy, NEW embedding \in {None, q.text},
           Retrieve(p, ctx, q, strategy, embedding)
    PROVE  MmuInv'
<1> DEFINE o == [call |-> "retrieve", ctx |-> ctx, query |-> q,
                 at |-> IF /\ config.vectors
                           /\ strategy = "semantic"
                           /\ embedding = None
                           /\ q.text # Contents
                        THEN "embed_query" ELSE BeforeSearch,
                 embedding |-> embedding, rows |-> <<>>]
<1>1. /\ op[p] = None
      /\ op' = [op EXCEPT ![p] = o]
      /\ UNCHANGED <<config, mem, embedded, origin, encoded>>
  BY DEF Retrieve
<1>2. embedding \in (SUBSET Contents) \cup {None}
  BY DEF AllQueries
<1>3. o \in Retrievals
  BY <1>2 DEF Retrievals, BeforeSearch
<1> HIDE DEF o
<1>4. OperationOK(o)
  BY <1>3, CallsDiffer DEF OperationOK
<1>5. ~Stored(p)
  BY <1>1 DEF Stored, At
<1> QED
  BY <1>1, <1>3, <1>4, <1>5, OperationStep, CallsDiffer

\* What is reached is in the store, of which there is finitely much.
LEMMA ReachedIsFinite ==
    ASSUME TypeOK, FinitelyStored, NEW ctx \in Contexts, NEW q, NEW near
    PROVE  /\ IsFiniteSet(Reached(ctx, q, near))
           /\ Reached(ctx, q, near) \subseteq Ids
<1> DEFINE T == {c[2] : c \in StoredCells}
           f == [c \in StoredCells |-> c[2]]
<1>1. f \in Surjection(StoredCells, T)
  BY DEF Surjection
<1>2. IsFiniteSet(T)
  BY <1>1, FS_Surjection DEF FinitelyStored
<1>3. ctx.entity \in Entities
  BY DEF Contexts
<1>4. ASSUME NEW id \in Reached(ctx, q, near)
      PROVE  \E e \in Entities : id \in Ids /\ mem[e][id] # None
  <2>1. CASE config.store = "promising"
    BY <1>3, <1>4, <2>1 DEF Reached, Wanted, TypeOK
  <2>2. CASE config.store = "pgvector"
    BY <1>3, <1>4, <2>2 DEF Reached
  <2>3. CASE config.store \notin {"promising", "pgvector"}
    BY <1>4, <2>3 DEF Reached
  <2> QED
    BY <2>1, <2>2, <2>3
<1>5. ASSUME NEW id \in Reached(ctx, q, near)
      PROVE  id \in T
  <2>1. PICK e \in Entities : id \in Ids /\ mem[e][id] # None
    BY <1>4
  <2>2. <<e, id>> \in StoredCells
    BY <2>1 DEF StoredCells
  <2> QED
    BY <2>2
<1> QED
  BY <1>2, <1>4, <1>5, FS_Subset

\* An answer is a list of records.
LEMMA AnswersToIds ==
    ASSUME TypeOK, FinitelyStored, NEW ctx \in Contexts, NEW q \in AllQueries,
           NEW near, NEW rows \in AnswersTo(ctx, q, near)
    PROVE  rows \in Seq(Ids)
<1> DEFINE reached == Reached(ctx, q, near)
<1>1. IsFiniteSet(reached) /\ reached \subseteq Ids
  BY ReachedIsFinite
<1>2. PICK s \in SUBSET reached : rows \in SetToSeqs(s)
  BY DEF AnswersTo, kSubset
<1>3. s \subseteq reached
  BY <1>2
<1>4. IsFiniteSet(s)
  BY <1>1, <1>3, FS_Subset
<1>5. rows \in Seq(s)
  BY <1>2, <1>4, Listing
<1> QED
  BY <1>1, <1>3, <1>5

\* The steps between the call and the answer.
LEMMA RetrievingStep ==
    ASSUME MmuInv, NEW p \in Procs, EmbedQuery(p) \/ BeforeRetrieve(p) \/ Search(p)
    PROVE  MmuInv'
<1>1. /\ TypeOK
      /\ op[p] \in Retrievals
      /\ ~Stored(p)
      /\ UNCHANGED <<config, mem, embedded, origin, encoded>>
  BY AtIs DEF MmuInv, EmbedQuery, BeforeRetrieve, Search, Stored, At
<1>2. op[p].query \in AllQueries /\ op[p].ctx \in Contexts
  BY <1>1, CallersAssumption DEF Retrievals
<1>3. SUFFICES ASSUME NEW o, op' = [op EXCEPT ![p] = o], o \in Retrievals
               PROVE  MmuInv'
  <2>1. CASE EmbedQuery(p)
    <3>1. PICK embedding \in {op[p].query.text, None} :
              op' = [op EXCEPT ![p].embedding = embedding,
                               ![p].at = BeforeSearch]
      BY <2>1 DEF EmbedQuery
    <3> DEFINE o == [op[p] EXCEPT !.embedding = embedding, !.at = BeforeSearch]
    <3>2. embedding \in (SUBSET Contents) \cup {None}
      BY <1>2 DEF AllQueries
    <3>3. o \in Retrievals
      BY <1>1, <3>2 DEF Retrievals, BeforeSearch
    <3>4. op' = [op EXCEPT ![p] = o]
      BY <3>1
    <3> QED
      BY <1>3, <3>3, <3>4
  <2>2. CASE BeforeRetrieve(p)
    <3>1. PICK query \in HookQueries \cup {op[p].query} :
              op' = [op EXCEPT ![p].query = query, ![p].at = "search"]
      BY <2>2 DEF BeforeRetrieve
    <3> DEFINE o == [op[p] EXCEPT !.query = query, !.at = "search"]
    <3>2. query \in AllQueries
      BY <1>2, MmuAssumption
    <3>3. o \in Retrievals
      BY <1>1, <3>2 DEF Retrievals
    <3>4. op' = [op EXCEPT ![p] = o]
      BY <3>1
    <3> QED
      BY <1>3, <3>3, <3>4
  <2>3. CASE Search(p)
    <3>1. PICK rows \in AnswersTo(op[p].ctx, op[p].query, op[p].embedding) :
              op' = [op EXCEPT ![p].rows = rows, ![p].at = "found"]
      BY <2>3 DEF Search
    <3> DEFINE o == [op[p] EXCEPT !.rows = rows, !.at = "found"]
    <3>2. rows \in Seq(Ids)
      BY <1>1, <1>2, AnswersToIds DEF MmuInv
    <3>3. o \in Retrievals
      BY <1>1, <3>2 DEF Retrievals
    <3>4. op' = [op EXCEPT ![p] = o]
      BY <3>1
    <3> QED
      BY <1>3, <3>3, <3>4
  <2> QED
    BY <2>1, <2>2, <2>3
<1>4. OperationOK(o)
  BY <1>3, CallsDiffer DEF OperationOK
<1> QED
  BY <1>1, <1>3, <1>4, OperationStep, CallsDiffer

\* A failed store, a failed search and the end of a retrieval keep the invariant.
LEMMA ReturnsStep ==
    ASSUME MmuInv, NEW p \in Procs, StoreFails(p) \/ SearchFails(p) \/ RetrieveEnds(p)
    PROVE  MmuInv'
BY ReturnStep DEF StoreFails, SearchFails, RetrieveEnds, Stored, At

-----------------------------------------------------------------------------
(* The MMU.                                                                *)

\* The invariant of the MMU holds initially.
LEMMA InitMmuInv ==
    Init => MmuInv
<1> SUFFICES ASSUME Init PROVE MmuInv
  OBVIOUS
<1>1. TypeOK
  BY DEF Init, TypeOK
<1>2. AtStored = {} /\ StoredCells = {}
  BY DEF Init, AtStored, Stored, At, StoredCells
<1>3. /\ FinitelyStored
      /\ encoded + Cardinality(AtStored) = Cardinality(StoredCells)
  BY <1>2, FS_EmptySet DEF Init, FinitelyStored
<1> QED
  BY <1>1, <1>3, CallsDiffer
  DEF Init, MmuInv, OperationOK, OriginKnown, RecordsAsAsked

\* Every step of the MMU, also one for a reflection, keeps the invariant, what
\* is in the store, and the operations of the other goroutines.
MmuStep(p) ==
    \/ Call(p)
    \/ Continue(p)
    \/ \E ctx \in Callers : Retrieve(p, ctx, MemoriesQuery, "keyword", None)

\* What a reflection asks for is a query.
LEMMA MemoriesQueryType == MemoriesQuery \in AllQueries
BY ReflectionAssumption DEF MemoriesQuery, AllQueries

\* Every step of the MMU keeps its invariant and what is in the store.
LEMMA MmuStepOK ==
    ASSUME MmuInv, NEW p \in Procs, MmuStep(p)
    PROVE  MmuInv' /\ MemKept
<1>1. CASE Call(p)
  <2>1. PICK ctx \in Callers :
            \/ \E data \in Data : Encode(p, ctx, data)
            \/ \E q \in Queries, strategy \in {"exact", "semantic"} :
                  \E embedding \in {None, q.text} :
                      Retrieve(p, ctx, q, strategy, embedding)
    BY <1>1 DEF Call
  <2>2. CASE \E data \in Data : Encode(p, ctx, data)
    BY <2>2, EncodeStep DEF Encode, MemKept
  <2>3. ASSUME NEW q \in Queries, NEW strategy \in {"exact", "semantic"},
               NEW embedding \in {None, q.text},
               Retrieve(p, ctx, q, strategy, embedding)
        PROVE  MmuInv' /\ MemKept
    <3>1. q \in AllQueries
      BY CallersAssumption
    <3> QED
      BY <2>3, <3>1, RetrieveStep DEF Retrieve, MemKept
  <2> QED
    BY <2>1, <2>2, <2>3
<1>2. ASSUME NEW ctx \in Callers,
             Retrieve(p, ctx, MemoriesQuery, "keyword", None)
      PROVE  MmuInv' /\ MemKept
  BY <1>2, MemoriesQueryType, RetrieveStep DEF Retrieve, MemKept
<1>3. CASE BeforeEmbedding(p) \/ Embed(p) \/ BeforeEncode(p)
  BY <1>3, EncodingStep DEF BeforeEmbedding, Embed, BeforeEncode, MemKept
<1>4. CASE Store(p)
  BY <1>4, StoreStep
<1>5. CASE EncodeEnds(p)
  BY <1>5, EncodeEndsStep DEF EncodeEnds, MemKept
<1>6. CASE EmbedQuery(p) \/ BeforeRetrieve(p) \/ Search(p)
  BY <1>6, RetrievingStep DEF EmbedQuery, BeforeRetrieve, Search, MemKept
<1>7. CASE StoreFails(p) \/ SearchFails(p) \/ RetrieveEnds(p)
  BY <1>7, ReturnsStep DEF StoreFails, SearchFails, RetrieveEnds, MemKept
<1> QED
  BY <1>1, <1>2, <1>3, <1>4, <1>5, <1>6, <1>7 DEF MmuStep, Continue

\* It leaves the operations of the other goroutines alone.
LEMMA OthersKept ==
    ASSUME TypeOK, NEW p \in Procs, MmuStep(p)
    PROVE  \A q \in Procs \ {p} : op'[q] = op[q]
BY DEF TypeOK, MmuStep, Call, Continue, Encode, BeforeEmbedding, Embed,
   BeforeEncode, Store, StoreFails, EncodeEnds, Retrieve, EmbedQuery,
   BeforeRetrieve, Search, SearchFails, RetrieveEnds, Return

-----------------------------------------------------------------------------
(* The reflection module.                                                  *)

\* None is no reflection.
LEMMA ReflectionIsSomething ==
    ASSUME ReflectionTypeOK, NEW p \in Procs, NEW step, Reflecting(p, step)
    PROVE  reflection[p] \in Reflections /\ reflection[p].at = step
BY DEF ReflectionTypeOK, Reflecting

\* Nothing is lost in a step that leaves the MMU alone.
LEMMA MmuStutterOK ==
    ASSUME MmuInv, UNCHANGED vars
    PROVE  MmuInv' /\ MemKept
<1> USE DEF vars
<1>1. TypeOK'
  BY DEF MmuInv, TypeOK
<1>2. FinitelyStored' /\ AtStored' = AtStored /\ StoredCells' = StoredCells
  BY DEF MmuInv, FinitelyStored, AtStored, StoredCells, Stored, At
<1>3. ASSUME NEW q \in Procs
      PROVE  OperationOK(op[q])'
  BY DEF MmuInv, OperationOK, EncodedRight
<1>4. OriginKnown' /\ RecordsAsAsked'
  BY DEF MmuInv, OriginKnown, RecordsAsAsked
<1> QED
  BY <1>1, <1>2, <1>3, <1>4 DEF MmuInv, MemKept

\* What is left to show of a step in which p moves its reflection on to r.
LEMMA ReflectionStepOK ==
    ASSUME IInv, NEW p \in Procs, NEW r \in Reflections \cup {None},
           MmuStep(p) \/ UNCHANGED vars,
           reflection' = [reflection EXCEPT ![p] = r]
    PROVE  IInv'
<1>1. MmuInv'
  BY MmuStepOK, MmuStutterOK DEF IInv
<1> QED
  BY <1>1 DEF IInv, ReflectionTypeOK, MmuInv

\* The inductive step: one step per action.
LEMMA NextIInv ==
    ASSUME IInv, [ReflectionNext]_rvars
    PROVE  IInv'
<1>1. CASE UNCHANGED rvars
  <2>1. MmuInv'
    BY <1>1, MmuStutterOK DEF IInv, rvars
  <2> QED
    BY <1>1, <2>1 DEF IInv, rvars, MmuInv, ReflectionTypeOK
<1>2. /\ TypeOK
      /\ reflection \in [Procs -> Reflections \cup {None}]
  BY DEF IInv, ReflectionTypeOK
<1>3. ASSUME NEW p \in Procs, NEW ctx \in Callers, TriggerReflection(p, ctx)
      PROVE  IInv'
  <2> DEFINE r == [ctx |-> ctx, at |-> "retrieve", rows |-> <<>>]
  <2>1. r \in Reflections
    BY DEF Reflections
  <2>2. reflection' = [reflection EXCEPT ![p] = r]
    BY <1>3 DEF TriggerReflection
  <2>3. MmuStep(p)
    BY <1>3 DEF TriggerReflection, MmuStep
  <2> HIDE DEF r
  <2> QED
    BY <2>1, <2>2, <2>3, ReflectionStepOK
<1>4. ASSUME NEW p \in Procs, EndReflection(p), MmuStep(p) \/ UNCHANGED vars
      PROVE  IInv'
  BY <1>4, ReflectionStepOK, ReflectionAssumption DEF EndReflection
<1>5. ASSUME NEW p \in Procs, Retrieved(p)
      PROVE  IInv'
  <2>1. RetrieveEnds(p) /\ MmuStep(p)
    BY <1>5 DEF Retrieved, MmuStep, Continue
  <2>2. CASE EndReflection(p)
    BY <1>4, <2>1, <2>2
  <2>3. CASE reflection' = [reflection EXCEPT ![p].at = "analyze",
                                              ![p].rows = op[p].rows]
    <3> DEFINE r == [reflection[p] EXCEPT !.at = "analyze", !.rows = op[p].rows]
    <3>1. reflection[p] \in Reflections
      BY <1>5, ReflectionIsSomething DEF IInv, Retrieved
    <3>2. op[p] \in Retrievals
      BY <1>2, <2>1, AtIs DEF RetrieveEnds
    <3>3. r \in Reflections
      BY <3>1, <3>2 DEF Reflections, Retrievals
    <3>4. reflection' = [reflection EXCEPT ![p] = r]
      BY <2>3
    <3> HIDE DEF r
    <3> QED
      BY <2>1, <3>3, <3>4, ReflectionStepOK
  <2> QED
    BY <1>5, <2>2, <2>3 DEF Retrieved
<1>6. ASSUME NEW p \in Procs, RetrievalFails(p)
      PROVE  IInv'
  BY <1>4, <1>6 DEF RetrievalFails, MmuStep, Continue
<1>7. ASSUME NEW p \in Procs, Analyze(p)
      PROVE  IInv'
  <2>1. CASE EndReflection(p)
    BY <1>4, <1>7, <2>1 DEF Analyze
  <2>2. CASE reflection' = [reflection EXCEPT ![p].at = "consolidate"]
    <3> DEFINE r == [reflection[p] EXCEPT !.at = "consolidate"]
    <3>1. reflection[p] \in Reflections
      BY <1>7, ReflectionIsSomething DEF IInv, Analyze
    <3>2. r \in Reflections
      BY <3>1 DEF Reflections
    <3>3. reflection' = [reflection EXCEPT ![p] = r]
      BY <2>2
    <3> HIDE DEF r
    <3> QED
      BY <1>7, <3>2, <3>3, ReflectionStepOK DEF Analyze
  <2> QED
    BY <1>7, <2>1, <2>2 DEF Analyze
<1>8. ASSUME NEW p \in Procs, Consolidate(p)
      PROVE  IInv'
  BY <1>4, <1>8 DEF Consolidate
<1>9. ASSUME NEW p \in Procs, WaitingStep(p) \/ DirectStep(p)
      PROVE  IInv'
  <2>1. MmuStep(p)
    BY <1>9 DEF WaitingStep, DirectStep, MmuStep, Continue
  <2>2. reflection' = [reflection EXCEPT ![p] = reflection[p]]
    BY <1>2, <1>9 DEF WaitingStep, DirectStep
  <2>3. reflection[p] \in Reflections \cup {None}
    BY <1>2
  <2> QED
    BY <2>1, <2>2, <2>3, ReflectionStepOK
<1> QED
  BY <1>1, <1>3, <1>5, <1>6, <1>7, <1>8, <1>9
  DEF ReflectionNext, ReflectionStep

\* The invariant holds initially, ...
LEMMA InitIInv ==
    ReflectionInit => IInv
<1> SUFFICES ASSUME ReflectionInit PROVE IInv
  OBVIOUS
<1>1. MmuInv
  BY InitMmuInv DEF ReflectionInit
<1> QED
  BY <1>1 DEF IInv, ReflectionInit, ReflectionTypeOK, MmuInv

\* ... and in every state.
LEMMA InvariantHolds ==
    ReflectionSpec => []IInv
BY InitIInv, NextIInv, PTL DEF ReflectionSpec

-----------------------------------------------------------------------------
(* What follows.                                                           *)

\* The types hold in every state.
THEOREM TypeCorrect ==
    ReflectionSpec => []ReflectionTypeOK
<1>1. IInv => ReflectionTypeOK
  BY DEF IInv
<1> QED
  BY <1>1, InvariantHolds, PTL

\* The store holds as many records as calls of EncodeToLTM have succeeded or are
\* about to: whatever fails, no call that returns an error leaves a record.
THEOREM EncodedOnce ==
    ReflectionSpec => []EncodesOnce
<1>1. IInv => EncodesOnce
  BY DEF IInv, MmuInv, EncodesOnce, AtStored, Stored, StoredCells
<1> QED
  BY <1>1, InvariantHolds, PTL

\* A record is the entity's and the user's who called, as private as the call
\* said with an int, with a content that only a hook has changed and with the
\* embedding of what was passed, or none.
THEOREM RecordedAsAsked ==
    ReflectionSpec => []RecordsAsAsked
<1>1. IInv => RecordsAsAsked
  BY DEF IInv, MmuInv
<1> QED
  BY <1>1, InvariantHolds, PTL

-----------------------------------------------------------------------------
(* What is encoded is found.                                               *)

\* What AnswersTo allows a store that keeps its promises is what the interface
\* calls a right answer: nothing but what is wanted, nothing twice, and everything
\* unless the limit is reached.
LEMMA AnswersToAreRight ==
    ASSUME TypeOK, FinitelyStored, config.store = "promising",
           NEW ctx \in Contexts, NEW q \in AllQueries, NEW near,
           NEW rows \in AnswersTo(ctx, q, near)
    PROVE  Answers(mem[ctx.entity], ctx, q, rows)
<1> DEFINE wanted == Wanted(mem[ctx.entity], ctx, q)
           n == IF Cardinality(wanted) > LimitOf(q) THEN LimitOf(q)
                                                    ELSE Cardinality(wanted)
<1>1. /\ Reached(ctx, q, near) = wanted
      /\ IsFiniteSet(wanted) /\ Cardinality(wanted) \in Nat
  BY ReachedIsFinite, FS_CardinalityType DEF Reached
<1>2. LimitOf(q) \in Nat
  BY MemoryAssumption DEF LimitOf, AllQueries
<1>3. PICK s \in kSubset(n, wanted) : rows \in SetToSeqs(s)
  BY <1>1 DEF AnswersTo
<1>4. s \subseteq wanted /\ Cardinality(s) = n
  BY <1>3 DEF kSubset
<1>5. IsFiniteSet(s)
  BY <1>1, <1>4, FS_Subset
<1>6. /\ Len(rows) = n /\ rows \in Seq(s)
      /\ \A i, j \in 1 .. Len(rows) : rows[i] = rows[j] => i = j
      /\ \A x \in s : \E i \in 1 .. Len(rows) : rows[i] = x
  BY <1>3, <1>4, <1>5, Listing
<1>7. IsInjective(rows)
  BY <1>6 DEF IsInjective
<1>8. ToSet(rows) = s
  BY <1>6 DEF ToSet
<1>9. CASE Cardinality(wanted) > LimitOf(q)
  BY <1>4, <1>6, <1>7, <1>8, <1>9 DEF Answers
<1>10. CASE ~(Cardinality(wanted) > LimitOf(q))
  <2>1. n = Cardinality(wanted)
    BY <1>10
  <2>2. s = wanted
    BY <1>1, <1>4, <2>1, FS_Subset
  <2> HIDE DEF n, wanted
  <2>3. Len(rows) = LimitOf(q) \/ Len(rows) < LimitOf(q)
    BY <1>1, <1>2, <1>6, <1>10, <2>1
  <2> QED
    BY <1>7, <1>8, <2>2, <2>3 DEF Answers, wanted
<1> QED
  BY <1>9, <1>10

\* The record of a call is there, as private as that call said.
OriginStored ==
    \A id \in Ids :
        origin[id] # None =>
            LET e == origin[id].ctx.entity
            IN  /\ mem[e][id] # None
                /\ mem[e][id].level = Level(origin[id].data)

\* Only a Store brings an origin, and the record with it.
LEMMA OriginStoredStep ==
    ASSUME MmuInv, OriginStored, NEW p \in Procs, MmuStep(p)
    PROVE  OriginStored'
<1>1. CASE Store(p)
  <2>1. MmuInv' /\ MemKept
    BY <1>1, StoreStep
  <2>2. PICK id \in Ids :
             LET e == op[p].ctx.entity
             IN  /\ mem'[e][id] # None
                 /\ mem'[e][id].level = Level(op[p].data)
                 /\ origin' = [origin EXCEPT ![id] =
                                  [ctx |-> op[p].ctx, data |-> op[p].data]]
    BY <1>1, StoreTakes
  <2>3. /\ origin \in [Ids -> Origins \cup {None}]
        /\ \A i \in Ids : origin[i] # None => origin[i].ctx.entity \in Entities
    BY CallersAssumption DEF MmuInv, TypeOK, Origins, Contexts
  <2>4. ASSUME NEW i \in Ids, origin'[i] # None
        PROVE  LET e == origin'[i].ctx.entity
               IN  mem'[e][i] # None /\ mem'[e][i].level = Level(origin'[i].data)
    <3>1. CASE i = id
      BY <2>2, <2>3, <3>1
    <3>2. CASE i # id
      BY <2>1, <2>2, <2>3, <2>4, <3>2 DEF OriginStored, MemKept
    <3> QED
      BY <3>1, <3>2
  <2> QED
    BY <2>4 DEF OriginStored, Level
<1>2. CASE ~Store(p)
  <2>1. UNCHANGED <<mem, origin>>
    BY <1>2 DEF MmuStep, Call, Continue, Encode, BeforeEmbedding, Embed,
       BeforeEncode, StoreFails, EncodeEnds, Retrieve, EmbedQuery,
       BeforeRetrieve, Search, SearchFails, RetrieveEnds
  <2> QED
    BY <2>1 DEF OriginStored, Level
<1> QED
  BY <1>1, <1>2

\* Whatever happens is a step of the MMU or leaves it alone.
LEMMA StepIsMmuStep ==
    ASSUME [ReflectionNext]_rvars
    PROVE  UNCHANGED vars \/ \E p \in Procs : MmuStep(p)
BY DEF ReflectionNext, TriggerReflection, ReflectionStep, Retrieved,
   RetrievalFails, Analyze, Consolidate, WaitingStep, DirectStep, MmuStep,
   Continue, rvars

\* A search that has succeeded was answered by the store.
LEMMA FoundBySearch ==
    ASSUME TypeOK, NEW p \in Procs, NEW q \in Procs, MmuStep(q),
           At(p, "retrieve", "search"), At(p, "retrieve", "found")'
    PROVE  Search(p)
<1>1. op[p] # None /\ op[p].at = "search" /\ op'[p] # None /\ op'[p].at = "found"
  BY DEF At
<1>2. q = p
  BY <1>1, OthersKept
<1>3. op[p] \in Retrievals /\ op[p].call = "retrieve"
  BY AtIs, CallsDiffer
<1>4. Search(p) \/ SearchFails(p)
  BY <1>1, <1>2, <1>3 DEF MmuStep, Call, Continue, Encode, BeforeEmbedding, Embed,
     BeforeEncode, Store, StoreFails, EncodeEnds, Retrieve, EmbedQuery,
     BeforeRetrieve, RetrieveEnds, At
<1>5. ~SearchFails(p)
  BY <1>1 DEF SearchFails, Return, TypeOK
<1> QED
  BY <1>4, <1>5

\* What a caller has encoded is among what it wants.
LEMMA OwnIsWanted ==
    ASSUME MmuInv, OriginStored, NEW ctx \in Contexts, NEW q, NEW id \in Ids,
           origin[id] # None, origin[id].ctx = ctx,
           ~SeenByNobody(id), AsksFor(q, id)
    PROVE  id \in Wanted(mem[ctx.entity], ctx, q)
<1> DEFINE r == mem[ctx.entity][id]
<1>1. ctx.entity \in Entities /\ DOMAIN mem[ctx.entity] = Ids
  BY DEF Contexts, MmuInv, TypeOK
<1>2. r # None /\ r.level = Level(origin[id].data)
  BY DEF OriginStored
<1>3. r \in Records
  BY <1>1, <1>2 DEF MmuInv, TypeOK
<1>4. /\ r.entity = ctx.entity
      /\ r.user = ctx.user
      /\ ~config.hooks => r.content = origin[id].data.content
  BY <1>1, <1>2 DEF MmuInv, RecordsAsAsked
<1>5. Visible(r, ctx)
  BY <1>2, <1>4 DEF Visible, Level, SeenByNobody
<1>6. Matches(id, r, q)
  BY <1>3, <1>4 DEF Matches, AsksFor, Records
<1> QED
  BY <1>1, <1>2, <1>5, <1>6 DEF Wanted

\* In a store that keeps its promises a caller finds what it has encoded, whatever
\* other goroutines and the hooks do, unless the limit of its query is full.
THEOREM OwnWritesRead ==
    ReflectionSpec => ReadsOwnWrites
<1>1. Init => OriginStored
  BY DEF Init, OriginStored
<1>2. ASSUME IInv, OriginStored, [ReflectionNext]_rvars
      PROVE  OriginStored'
  <2>1. CASE UNCHANGED vars
    BY <1>2, <2>1 DEF vars, OriginStored, Level
  <2>2. CASE \E p \in Procs : MmuStep(p)
    BY <1>2, <2>2, OriginStoredStep DEF IInv
  <2> QED
    BY <1>2, <2>1, <2>2, StepIsMmuStep
<1>3. ASSUME IInv, OriginStored, [ReflectionNext]_rvars,
             NEW p \in Procs, NEW id \in Ids, config.store = "promising",
             At(p, "retrieve", "search"), At(p, "retrieve", "found")',
             origin[id] # None, origin[id].ctx = op[p].ctx,
             ~SeenByNobody(id), AsksFor(op[p].query, id)
      PROVE  \/ id \in ToSet(op'[p].rows)
             \/ Len(op'[p].rows) = LimitOf(op[p].query)
  <2>1. MmuInv /\ TypeOK /\ FinitelyStored
    BY <1>3 DEF IInv, MmuInv
  <2>2. ~UNCHANGED vars
    BY <1>3 DEF At, vars
  <2>3. Search(p)
    BY <1>3, <2>1, <2>2, StepIsMmuStep, FoundBySearch
  <2>4. op[p] \in Retrievals
    BY <1>3, <2>1, AtIs
  <2>5. op[p].ctx \in Contexts /\ op[p].query \in AllQueries
    BY <2>4, CallersAssumption DEF Retrievals
  <2>6. PICK rows \in AnswersTo(op[p].ctx, op[p].query, op[p].embedding) :
            op' = [op EXCEPT ![p].rows = rows, ![p].at = "found"]
    BY <2>3 DEF Search
  <2>7. op'[p].rows = rows
    BY <2>1, <2>4, <2>6 DEF TypeOK, Retrievals
  <2>8. Answers(mem[op[p].ctx.entity], op[p].ctx, op[p].query, rows)
    BY <1>3, <2>1, <2>5, <2>6, AnswersToAreRight
  <2>9. id \in Wanted(mem[op[p].ctx.entity], op[p].ctx, op[p].query)
    BY <1>3, <2>1, <2>5, OwnIsWanted
  <2> QED
    BY <2>7, <2>8, <2>9 DEF Answers
<1>4. IInv /\ OriginStored /\ [ReflectionNext]_rvars
        => [\A p \in Procs, id \in Ids :
              /\ config.store = "promising"
              /\ At(p, "retrieve", "search")
              /\ At(p, "retrieve", "found")'
              /\ origin[id] # None
              /\ origin[id].ctx = op[p].ctx
              /\ ~SeenByNobody(id)
              /\ AsksFor(op[p].query, id)
              => \/ id \in ToSet(op'[p].rows)
                 \/ Len(op'[p].rows) = LimitOf(op[p].query)]_vars
  BY <1>3
<1>5. ReflectionInit => IInv /\ OriginStored
  BY <1>1, InitIInv DEF ReflectionInit
<1> QED
  BY <1>2, <1>4, <1>5, NextIInv, PTL DEF ReflectionSpec, ReadsOwnWrites
=============================================================================
