------------------------- MODULE CogMemClient_proofs -------------------------
(***************************************************************************)
(* What holds of the client however many goroutines use it, and what more  *)
(* holds when one does, for any callers, entities, frequency and length of *)
(* the history.                                                            *)
(* The last part is of how a client is made (Startup), for any processes,  *)
(* configuration files, environments and directories of scripts.           *)
(***************************************************************************)
EXTENDS CogMemClient, Startup, SequenceTheorems, FiniteSetTheorems, TLAPS

Active(c) == pc[c] # "idle"

\* The operation with number n was successful; it caused a reflection.
Succeeds(n)  == \E k \in DOMAIN succeeded : succeeded[k].num = n
Reflected(n) == \E i \in DOMAIN reflections : reflections[i].num = n

-----------------------------------------------------------------------------
(* However many goroutines there are.                                      *)

\* A call has an operation that was counted; its increment of the counter will
\* not take it past the number of calls; and once past its handler it succeeded.
CallOK(c) ==
    /\ Active(c) => op[c] \in Operations /\ op[c].num <= accepted
    /\ pc[c] = "count" => readCount[c] < accepted
    /\ pc[c] \in {"append", "trim", "check", "reflect"} => Succeeds(op[c].num)

\* Two calls have two operations.
Distinct ==
    \A c, d \in Callers :
        Active(c) /\ Active(d) /\ c # d => op[c].num # op[d].num

\* What was reflected on succeeded, has returned, and is not reflected on twice.
ReflectionOK(i) ==
    /\ reflections[i].num \in 1..accepted
    /\ Succeeds(reflections[i].num)
    /\ \A c \in Callers : Active(c) => reflections[i].num # op[c].num
    /\ \A j \in DOMAIN reflections :
          i # j => reflections[i].num # reflections[j].num

IInv ==
    /\ TypeOK
    /\ opCount <= accepted
    /\ \A c \in Callers : CallOK(c)
    /\ Distinct
    /\ \A i \in DOMAIN reflections : ReflectionOK(i)

-----------------------------------------------------------------------------
(* With one call at a time.                                                *)

Alone == \A c, d \in Callers : Active(c) /\ Active(d) => c = d

\* The last call is the one that is active, and how far it has counted.
CountOK(c) ==
    /\ Active(c) => op[c].num = accepted
    /\ pc[c] = "count" => readCount[c] = opCount /\ accepted = opCount + 1
    /\ Active(c) /\ pc[c] # "count" => opCount = accepted
    /\ pc[c] \in {"count", "handle"} => ~Succeeds(op[c].num)
    /\ pc[c] = "reflect" => ShouldReflect

\* How far recordOperation has brought the history.
HistoryOK(c) ==
    /\ pc[c] \in {"count", "handle", "check", "reflect"} =>
           operationHistory = LastOf(HistoryLimit, succeeded)
    /\ pc[c] = "append" =>
           /\ operationHistory = LastOf(HistoryLimit, Front(succeeded))
           /\ readHistory[c] = operationHistory
    /\ pc[c] = "trim" => operationHistory = LastOf(HistoryLimit + 1, succeeded)
    /\ pc[c] \in {"append", "trim", "check", "reflect"} =>
           succeeded # <<>> /\ Last(succeeded) = op[c]

\* No operation is numbered past the last call, and between calls all is done.
LastCallOK ==
    /\ \A k \in DOMAIN succeeded : succeeded[k].num \in 1..accepted
    /\ (\A c \in Callers : ~Active(c)) =>
           /\ opCount = accepted
           /\ operationHistory = LastOf(HistoryLimit, succeeded)

\* The multiples of the frequency that succeeded are reflected on, in their
\* order, except for the call that is active.
ScheduleOK ==
    Enabled =>
        \A n \in 1..accepted :
            Reflected(n) <=> /\ Succeeds(n)
                             /\ n % Frequency = 0
                             /\ \A c \in Callers : Active(c) => op[c].num # n

OrderOK ==
    \A i, j \in DOMAIN reflections :
        i < j => reflections[i].num < reflections[j].num

SequentialInv ==
    Sequential =>
        /\ Alone
        /\ \A c \in Callers : CountOK(c) /\ HistoryOK(c)
        /\ LastCallOK
        /\ ScheduleOK
        /\ OrderOK
        /\ ReflectsOnOwnOperation

-----------------------------------------------------------------------------
(* The proof for any number of goroutines.                                 *)

\* The invariant holds before the first call.
LEMMA InitIInv ==
    Init => IInv
<1> SUFFICES ASSUME Init PROVE IInv
  OBVIOUS
<1>1. Bound \in Nat
  BY CogMemClientAssumption DEF Init, Bound
<1>2. TypeOK
  BY <1>1, CogMemClientAssumption DEF Init, TypeOK, NoOp
<1> QED
  BY <1>2 DEF Init, IInv, CallOK, Distinct, ReflectionOK, Active, Reflections

\* What the counter is compared with is a number.
LEMMA BoundType ==
    ASSUME TypeOK
    PROVE  Bound \in Nat
BY CogMemClientAssumption DEF TypeOK, Bound

\* Every step keeps the types.
LEMMA TypeStep ==
    ASSUME IInv, [Next]_vars
    PROVE  TypeOK'
<1>1. TypeOK /\ Bound \in Nat
  BY BoundType DEF IInv
<1>2. CASE UNCHANGED vars
  BY <1>1, <1>2 DEF vars, TypeOK, Bound, Operations, Reflections
<1>3. ASSUME NEW c \in Callers, Process(c), UNCHANGED inFlight
      PROVE  TypeOK'
  <2>1. Bound' = Bound /\ Operations' = Operations /\ Reflections' = Reflections
    BY <1>3 DEF Bound, Operations, Reflections
  <2> USE <1>1, <2>1 DEF TypeOK
  <2>2. CASE Refuse(c)
    BY <1>3, <2>2 DEF Refuse, vars
  <2>3. ASSUME NEW e \in Entities, Begin(c, e)
        PROVE  TypeOK'
    <3>1. accepted' \in 1..Bound
      BY <2>3 DEF Begin
    <3>2. [num |-> accepted + 1, entity |-> e] \in Operations
      BY <2>3, <3>1 DEF Begin, Operations
    <3> QED
      BY <1>3, <2>3, <3>1, <3>2 DEF Begin, GoTo
  <2>4. CASE Count(c)
    <3>1. readCount[c] + 1 \in 0..Bound
      BY <2>4 DEF Count, IInv, CallOK
    <3> QED
      BY <1>3, <2>4, <3>1 DEF Count, GoTo
  <2>5. CASE HandleFails(c)
    BY <1>3, <2>5 DEF HandleFails, Return, GoTo
  <2>6. CASE HandleSucceeds(c)
    <3>1. op[c] \in Operations
      BY <2>6 DEF HandleSucceeds, IInv, CallOK, Active
    <3> QED
      BY <1>3, <2>6, <3>1 DEF HandleSucceeds, GoTo
  <2>7. CASE AppendOperation(c)
    <3>1. op[c] \in Operations
      BY <2>7 DEF AppendOperation, IInv, CallOK, Active
    <3> QED
      BY <1>3, <2>7, <3>1 DEF AppendOperation, GoTo
  <2>8. CASE Trim(c)
    <3>1. Len(operationHistory) > HistoryLimit => operationHistory # <<>>
      BY CogMemClientAssumption
    <3>2. operationHistory' \in Seq(Operations)
      BY <2>8, <3>1, HeadTailProperties DEF Trim
    <3> QED
      BY <1>3, <2>8, <3>2 DEF Trim, GoTo
  <2>9. CASE SkipReflection(c)
    BY <1>3, <2>9 DEF SkipReflection, Return, GoTo
  <2>10. CASE StartReflection(c)
    BY <1>3, <2>10 DEF StartReflection, GoTo
  <2>11. CASE Reflect(c)
    <3>1. op[c] \in Operations
      BY <2>11 DEF Reflect, IInv, CallOK, Active
    <3>2. ASSUME NEW stored \in BOOLEAN
          PROVE  [entity |-> op[c].entity, num |-> op[c].num, count |-> opCount,
                  content |-> operationHistory, stored |-> stored]
                     \in Reflections
      BY <3>1 DEF Operations, Reflections
    <3>3. reflections' \in Seq(Reflections)
      BY <2>11, <3>2 DEF Reflect
    <3> QED
      BY <1>3, <2>11, <3>3 DEF Reflect, Return, GoTo
  <2> QED
    BY <1>3, <2>2, <2>3, <2>4, <2>5, <2>6, <2>7, <2>8, <2>9, <2>10, <2>11
    DEF Process
<1> QED
  BY <1>2, <1>3 DEF Next

\* What a step of c leaves to the other calls.
OthersWait(c) ==
    \A d \in Callers \ {c} :
        pc'[d] = pc[d] /\ op'[d] = op[d] /\ readCount'[d] = readCount[d]

\* A step within a call, or its return, keeps what is known of the calls.
LEMMA CallStep ==
    ASSUME IInv, NEW c \in Callers, Active(c), OthersWait(c),
           \/ pc'[c] = "idle"
           \/ /\ pc'[c] # "count"
              /\ op'[c] = op[c]
              /\ pc'[c] \in {"append", "trim", "check", "reflect"} =>
                     Succeeds(op[c].num)',
           accepted' = accepted, inFlight' = inFlight,
           \A n : Succeeds(n) => Succeeds(n)'
    PROVE  /\ \A d \in Callers : CallOK(d)'
           /\ Distinct'
<1>1. Operations' = Operations
  BY DEF Operations, Bound
<1>2. CallOK(c)'
  BY <1>1 DEF IInv, CallOK, Active
<1>3. ASSUME NEW d \in Callers, d # c
      PROVE  CallOK(d)'
  BY <1>1, <1>3 DEF IInv, CallOK, Active, OthersWait
<1>4. Distinct'
  BY DEF IInv, Distinct, Active, OthersWait
<1> QED
  BY <1>2, <1>3, <1>4

\* It keeps what is known of the reflections when it makes none.
LEMMA NoReflectionStep ==
    ASSUME IInv, NEW c \in Callers, Active(c), OthersWait(c),
           pc'[c] = "idle" \/ op'[c] = op[c],
           accepted' = accepted, reflections' = reflections,
           \A n : Succeeds(n) => Succeeds(n)'
    PROVE  \A i \in DOMAIN reflections' : ReflectionOK(i)'
BY DEF IInv, ReflectionOK, Active, OthersWait

\* A call that begins has an operation that no other has.
LEMMA BeginStep ==
    ASSUME IInv, TypeOK', NEW c \in Callers, NEW e \in Entities,
           Begin(c, e), UNCHANGED inFlight
    PROVE  IInv'
<1>1. TypeOK /\ Bound' = Bound /\ Operations' = Operations
  BY DEF IInv, Operations, Bound
<1>2. /\ accepted \in Nat /\ opCount \in Nat /\ opCount <= accepted
      /\ accepted' = accepted + 1
      /\ op'[c] = [num |-> accepted + 1, entity |-> e]
      /\ readCount'[c] = opCount
      /\ pc'[c] = "count"
      /\ ~Active(c)
      /\ UNCHANGED <<opCount, succeeded, reflections>>
  BY <1>1, BoundType DEF TypeOK, IInv, Begin, GoTo, Active
<1>3. OthersWait(c)
  BY <1>1 DEF TypeOK, Begin, GoTo, OthersWait
<1>4. op'[c] \in Operations'
  BY <1>1, <1>2 DEF TypeOK, Begin, Operations
<1>5. ASSUME NEW d \in Callers
      PROVE  CallOK(d)'
  <2>1. Active(d) => op[d].num \in Nat
    BY BoundType, <1>1 DEF IInv, CallOK, Operations
  <2>2. readCount[d] \in Nat
    BY <1>1, BoundType DEF TypeOK
  <2>3. CASE d = c
    BY <1>2, <1>4, <2>3 DEF CallOK, Active
  <2>4. CASE d # c
    BY <1>1, <1>2, <1>3, <2>1, <2>2, <2>4
    DEF IInv, CallOK, Active, OthersWait, Succeeds
  <2> QED
    BY <2>3, <2>4
<1>6. Distinct'
  <2>1. ASSUME NEW d \in Callers, Active(d)
        PROVE  op[d].num \in Nat /\ op[d].num <= accepted
    BY <1>1, <2>1, BoundType DEF IInv, CallOK, Operations
  <2> QED
    BY <1>2, <1>3, <2>1 DEF IInv, Distinct, Active, OthersWait
<1>7. ASSUME NEW i \in DOMAIN reflections
      PROVE  ReflectionOK(i)'
  BY <1>2, <1>3 DEF IInv, ReflectionOK, Active, OthersWait, Succeeds
<1> QED
  BY <1>2, <1>5, <1>6, <1>7 DEF IInv

\* Succeeding adds an operation to those that were successful.
LEMMA SucceedingAdds ==
    ASSUME TypeOK, NEW o \in Operations, succeeded' = Append(succeeded, o)
    PROVE  \A n : Succeeds(n)' <=> Succeeds(n) \/ n = o.num
<1>1. /\ succeeded \in Seq(Operations)
      /\ succeeded' \in Seq(Operations)
      /\ Len(succeeded') = Len(succeeded) + 1
      /\ \A k \in 1..Len(succeeded) : succeeded'[k] = succeeded[k]
      /\ succeeded'[Len(succeeded) + 1] = o
  BY AppendProperties DEF TypeOK
<1>2. /\ Len(succeeded) \in Nat
      /\ DOMAIN succeeded = 1..Len(succeeded)
      /\ DOMAIN succeeded' = DOMAIN succeeded \cup {Len(succeeded) + 1}
  BY <1>1
<1> QED
  BY <1>1, <1>2 DEF Succeeds

\* Reflecting adds the operation of the caller, when there is a history.
LEMMA ReflectingAdds ==
    ASSUME TypeOK, NEW c \in Callers, op[c] \in Operations, Reflect(c),
           operationHistory # <<>>
    PROVE  /\ reflections' \in Seq(Reflections)
           /\ Len(reflections') = Len(reflections) + 1
           /\ \A i \in DOMAIN reflections : reflections'[i] = reflections[i]
           /\ reflections'[Len(reflections) + 1].num = op[c].num
           /\ reflections'[Len(reflections) + 1].entity = op[c].entity
           /\ reflections'[Len(reflections) + 1].content = operationHistory
<1>1. PICK stored \in BOOLEAN :
          reflections' = Append(reflections,
                           [entity |-> op[c].entity, num |-> op[c].num,
                            count |-> opCount, content |-> operationHistory,
                            stored |-> stored])
  BY DEF Reflect
<1> DEFINE r == [entity |-> op[c].entity, num |-> op[c].num, count |-> opCount,
                 content |-> operationHistory, stored |-> stored]
<1>2. r \in Reflections
  BY DEF TypeOK, Operations, Reflections
<1>3. /\ r.num = op[c].num
      /\ r.entity = op[c].entity
      /\ r.content = operationHistory
  OBVIOUS
<1>4. reflections \in Seq(Reflections) /\ reflections' = Append(reflections, r)
  BY <1>1 DEF TypeOK
<1> HIDE DEF r
<1> QED
  BY <1>2, <1>3, <1>4, AppendProperties

\* A reflection is of an operation that was owed one, and the last step of its call.
LEMMA ReflectStep ==
    ASSUME IInv, TypeOK', NEW c \in Callers, Reflect(c), UNCHANGED inFlight
    PROVE  IInv'
<1>1. /\ TypeOK
      /\ Active(c)
      /\ op[c] \in Operations
      /\ op[c].num <= accepted
      /\ Succeeds(op[c].num)
  BY DEF IInv, CallOK, Reflect, Active
<1>2. pc'[c] = "idle" /\ OthersWait(c)
  BY <1>1 DEF TypeOK, Reflect, Return, GoTo, OthersWait
<1>3. UNCHANGED <<opCount, accepted, succeeded>>
  BY DEF Reflect
<1>4. \A n : Succeeds(n)' <=> Succeeds(n)
  BY <1>3 DEF Succeeds
<1>5. (\A d \in Callers : CallOK(d)') /\ Distinct'
  BY <1>1, <1>2, <1>3, <1>4, CallStep
<1>6. CASE operationHistory = <<>>
  <2>1. reflections' = reflections
    BY <1>6 DEF Reflect
  <2>2. \A i \in DOMAIN reflections' : ReflectionOK(i)'
    BY <1>1, <1>2, <1>3, <1>4, <2>1, NoReflectionStep
  <2> QED
    BY <1>3, <1>5, <2>2 DEF IInv
<1>7. CASE operationHistory # <<>>
  <2>1. DOMAIN reflections' = DOMAIN reflections \cup {Len(reflections) + 1}
    <3>1. /\ reflections' \in Seq(Reflections)
          /\ Len(reflections') = Len(reflections) + 1
      BY <1>1, <1>7, ReflectingAdds
    <3>2. reflections \in Seq(Reflections) /\ Len(reflections) \in Nat
      BY <1>1 DEF TypeOK
    <3> QED
      BY <3>1, <3>2
  <2>2. /\ \A i \in DOMAIN reflections : reflections'[i] = reflections[i]
        /\ reflections'[Len(reflections) + 1].num = op[c].num
        /\ Len(reflections) + 1 \notin DOMAIN reflections
    <3>1. reflections \in Seq(Reflections)
      BY <1>1 DEF TypeOK
    <3>2. Len(reflections) + 1 \notin DOMAIN reflections
      BY <3>1
    <3> QED
      BY <1>1, <1>7, <3>2, ReflectingAdds
  <2>3. op[c].num \in 1..accepted
    BY <1>1, BoundType DEF TypeOK, Operations
  <2>4. ASSUME NEW i \in DOMAIN reflections
        PROVE  ReflectionOK(i)'
    BY <1>1, <1>2, <1>3, <1>4, <2>1, <2>2
    DEF IInv, ReflectionOK, Active, OthersWait
  <2>5. ASSUME NEW i \in {Len(reflections) + 1}
        PROVE  ReflectionOK(i)'
    <3>1. reflections'[i].num = op[c].num
      BY <2>2
    <3>2. \E k \in DOMAIN succeeded' : succeeded'[k].num = reflections'[i].num
      BY <1>1, <1>3, <3>1 DEF Succeeds
    <3>3. \A d \in Callers : Active(d)' => reflections'[i].num # op'[d].num
      BY <1>1, <1>2, <3>1 DEF IInv, Distinct, Active, OthersWait
    <3>4. \A j \in DOMAIN reflections : reflections[j].num # op[c].num
      BY <1>1 DEF IInv, ReflectionOK
    <3>5. \A j \in DOMAIN reflections' :
              i # j => reflections'[i].num # reflections'[j].num
      BY <2>1, <2>2, <3>1, <3>4
    <3> QED
      BY <1>3, <2>3, <3>1, <3>2, <3>3, <3>5 DEF ReflectionOK, Succeeds
  <2> QED
    BY <1>3, <1>5, <2>1, <2>4, <2>5 DEF IInv
<1> QED
  BY <1>6, <1>7

\* Every other step within a call.
LEMMA WithinCallStep ==
    ASSUME IInv, TypeOK', NEW c \in Callers, UNCHANGED inFlight,
           \/ Count(c) \/ HandleFails(c) \/ HandleSucceeds(c)
           \/ AppendOperation(c) \/ Trim(c)
           \/ SkipReflection(c) \/ StartReflection(c)
    PROVE  /\ IInv'
           /\ Active(c)
           /\ OthersWait(c)
           /\ UNCHANGED <<accepted, reflections>>
<1>1. TypeOK /\ CallOK(c)
  BY DEF IInv
<1>2. Active(c) /\ UNCHANGED <<accepted, reflections>>
  BY DEF Active, Count, HandleFails, HandleSucceeds, AppendOperation, Trim,
     SkipReflection, StartReflection
<1>3. OthersWait(c)
  BY <1>1 DEF TypeOK, OthersWait, Return, GoTo, Count, HandleFails,
     HandleSucceeds, AppendOperation, Trim, SkipReflection, StartReflection
<1>4. op[c] \in Operations
  BY <1>1, <1>2 DEF CallOK
<1>5. /\ pc'[c] # "count"
      /\ pc'[c] = "idle" \/ op'[c] = op[c]
      /\ succeeded' # succeeded => HandleSucceeds(c)
      /\ pc'[c] \in {"append", "trim", "check", "reflect"} =>
             \/ HandleSucceeds(c)
             \/ pc[c] \in {"append", "trim", "check"}
  BY <1>1 DEF TypeOK, Return, GoTo, Count, HandleFails, HandleSucceeds,
     AppendOperation, Trim, SkipReflection, StartReflection
<1>6. HandleSucceeds(c) => succeeded' = Append(succeeded, op[c])
  BY DEF HandleSucceeds
<1>7. \A n : Succeeds(n) => Succeeds(n)'
  <2>1. CASE HandleSucceeds(c)
    BY <1>1, <1>4, <1>6, <2>1, SucceedingAdds
  <2>2. CASE succeeded' = succeeded
    BY <2>2 DEF Succeeds
  <2> QED
    BY <1>5, <2>1, <2>2
<1>8. HandleSucceeds(c) => op' = op /\ Succeeds(op[c].num)'
  <2>1. HandleSucceeds(c) => op' = op
    BY DEF HandleSucceeds
  <2> QED
    BY <1>1, <1>4, <1>6, <2>1, SucceedingAdds
<1>9. pc'[c] \in {"append", "trim", "check", "reflect"} =>
          op'[c] = op[c] /\ Succeeds(op[c].num)'
  BY <1>1, <1>5, <1>7, <1>8 DEF CallOK
<1>10. (\A d \in Callers : CallOK(d)') /\ Distinct'
  BY <1>2, <1>3, <1>5, <1>7, <1>9, CallStep
<1>11. \A i \in DOMAIN reflections' : ReflectionOK(i)'
  BY <1>2, <1>3, <1>5, <1>7, NoReflectionStep
<1>12. opCount' <= accepted'
  <2>1. opCount' = opCount \/ Count(c)
    BY DEF HandleFails, HandleSucceeds, AppendOperation, Trim, SkipReflection,
       StartReflection
  <2>2. CASE Count(c)
    BY <1>1, <1>2, <2>2, BoundType DEF CallOK, TypeOK, Count
  <2> QED
    BY <1>2, <2>1, <2>2 DEF IInv
<1> QED
  BY <1>2, <1>3, <1>10, <1>11, <1>12 DEF IInv

\* The inductive step: one step per action.
LEMMA NextIInv ==
    ASSUME IInv, [Next]_vars
    PROVE  IInv'
<1>1. TypeOK'
  BY TypeStep
<1>2. CASE UNCHANGED vars
  BY <1>2, <1>1 DEF IInv, vars, CallOK, Distinct, ReflectionOK, Active,
     Operations, Bound, Succeeds
<1>3. ASSUME NEW c \in Callers, Process(c), UNCHANGED inFlight
      PROVE  IInv'
  BY <1>1, <1>2, <1>3, BeginStep, ReflectStep, WithinCallStep DEF Process, Refuse
<1> QED
  BY <1>2, <1>3 DEF Next

\* The types hold in every state.
THEOREM TypeCorrect ==
    Spec => []TypeOK
BY InitIInv, NextIInv, PTL DEF Spec, IInv

\* The invariant holds in every state, however many goroutines there are.
LEMMA InvariantHolds ==
    Spec => []IInv
BY InitIInv, NextIInv, PTL DEF Spec

\* However many goroutines share the client, and whatever the counter has lost,
\* no call reflects twice and none that failed reflects.
THEOREM OwedReflections ==
    Spec => []ReflectionsAreOwed
<1>1. ASSUME IInv
      PROVE  ReflectionsAreOwed
  <2> DEFINE nums == [i \in DOMAIN reflections |-> reflections[i].num]
  <2>1. IsInjective(nums)
    BY <1>1 DEF IInv, ReflectionOK, IsInjective
  <2>2. ASSUME NEW i \in DOMAIN reflections
        PROVE  nums[i] \in {o.num : o \in ToSet(succeeded)}
    BY <1>1 DEF IInv, ReflectionOK, Succeeds, ToSet
  <2> QED
    BY <2>1, <2>2 DEF ReflectionsAreOwed, ToSet
<1> QED
  BY <1>1, InvariantHolds, PTL

-----------------------------------------------------------------------------
(* What recordOperation does to the last operations.                       *)

\* The last n of a sequence are a sequence of the same elements.
LEMMA LastOfType ==
    ASSUME NEW S, NEW s \in Seq(S), NEW n \in Nat
    PROVE  /\ LastOf(n, s) \in Seq(S)
           /\ Len(LastOf(n, s)) = IF Len(s) <= n THEN Len(s) ELSE n
           /\ \A i \in 1..Len(LastOf(n, s)) :
                 LastOf(n, s)[i] = s[i + Len(s) - Len(LastOf(n, s))]
<1>1. CASE Len(s) <= n
  BY <1>1 DEF LastOf
<1>2. CASE Len(s) > n
  <2>1. /\ Len(s) \in Nat
        /\ Len(s) - n + 1 \in 1..Len(s) + 1
        /\ Len(s) \in Len(s) - n..Len(s)
    BY <1>2
  <2>2. LastOf(n, s) = SubSeq(s, Len(s) - n + 1, Len(s))
    BY <1>2, <2>1 DEF LastOf
  <2>3. /\ LastOf(n, s) \in Seq(S)
        /\ Len(LastOf(n, s)) = n
        /\ \A i \in 1..n : LastOf(n, s)[i] = s[Len(s) - n + 1 + i - 1]
    BY <1>2, <2>1, <2>2, SubSeqProperties
  <2> QED
    BY <1>2, <2>1, <2>3
<1> QED
  BY <1>1, <1>2

\* A prefix is a sequence of the same elements.
LEMMA PrefixType ==
    ASSUME NEW S, NEW s \in Seq(S), NEW m \in 0..Len(s)
    PROVE  /\ SubSeq(s, 1, m) \in Seq(S)
           /\ Len(SubSeq(s, 1, m)) = m
           /\ \A i \in 1..m : SubSeq(s, 1, m)[i] = s[i]
<1>1. m \in Nat /\ \A i \in 1..m : s[i] \in S
  OBVIOUS
<1>2. /\ SubSeq(s, 1, m) \in Seq(S)
      /\ Len(SubSeq(s, 1, m)) = IF 1 <= m THEN m - 1 + 1 ELSE 0
      /\ \A i \in 1..m - 1 + 1 : SubSeq(s, 1, m)[i] = s[1 + i - 1]
  BY <1>1, SubSeqProperties
<1> QED
  BY <1>1, <1>2

\* Front leaves out the last, and nothing else.
LEMMA FrontType ==
    ASSUME NEW S, NEW s \in Seq(S), s # <<>>
    PROVE  /\ Front(s) \in Seq(S)
           /\ Len(Front(s)) = Len(s) - 1
           /\ \A i \in 1..Len(s) - 1 : Front(s)[i] = s[i]
           /\ Last(s) = s[Len(s)]
           /\ Last(s) \in S
           /\ Len(s) \in Nat \ {0}
<1>1. Len(s) \in Nat \ {0}
  BY EmptySeq
<1>2. Len(s) - 1 \in 0..Len(s)
  BY <1>1
<1>3. s[Len(s)] \in S
  BY <1>1
<1> QED
  BY <1>1, <1>2, <1>3, PrefixType DEF Front, Last

\* What is appended is the last, before it is what was there.
LEMMA FrontOfAppend ==
    ASSUME NEW S, NEW s \in Seq(S), NEW e \in S
    PROVE  /\ Append(s, e) # <<>>
           /\ Last(Append(s, e)) = e
           /\ Front(Append(s, e)) = s
<1> DEFINE t == Append(s, e)
<1>1. /\ t \in Seq(S)
      /\ Len(t) = Len(s) + 1
      /\ \A i \in 1..Len(s) : t[i] = s[i]
      /\ t[Len(t)] = e
  BY AppendProperties
<1> HIDE DEF t
<1>2. t # <<>>
  BY <1>1
<1>3. /\ Front(t) \in Seq(S)
      /\ Len(Front(t)) = Len(s)
      /\ \A i \in 1..Len(s) : Front(t)[i] = s[i]
  BY <1>1, <1>2, FrontType
<1>4. Front(t) = s
  BY <1>3, SeqEqual
<1> QED
  BY <1>1, <1>2, <1>4 DEF Last, t

\* Appending the newest to the last n before it makes n + 1, ...
LEMMA AppendToLast ==
    ASSUME NEW S, NEW s \in Seq(S), s # <<>>, NEW n \in Nat
    PROVE  Append(LastOf(n, Front(s)), Last(s)) = LastOf(n + 1, s)
<1> DEFINE old == LastOf(n, Front(s))
           new == LastOf(n + 1, s)
<1>1. /\ old \in Seq(S)
      /\ Len(old) = IF Len(s) - 1 <= n THEN Len(s) - 1 ELSE n
      /\ \A i \in 1..Len(old) : old[i] = Front(s)[i + Len(s) - 1 - Len(old)]
  <2> DEFINE f == Front(s)
  <2>1. f \in Seq(S) /\ Len(f) = Len(s) - 1
    BY FrontType
  <2> HIDE DEF f
  <2>2. /\ LastOf(n, f) \in Seq(S)
        /\ Len(LastOf(n, f)) = IF Len(f) <= n THEN Len(f) ELSE n
        /\ \A i \in 1..Len(LastOf(n, f)) :
              LastOf(n, f)[i] = f[i + Len(f) - Len(LastOf(n, f))]
    BY <2>1, LastOfType
  <2> QED
    BY <2>1, <2>2 DEF f
<1>2. /\ new \in Seq(S)
      /\ Len(new) = IF Len(s) <= n + 1 THEN Len(s) ELSE n + 1
      /\ \A i \in 1..Len(new) : new[i] = s[i + Len(s) - Len(new)]
  BY LastOfType
<1>3. /\ Len(s) \in Nat \ {0}
      /\ \A i \in 1..Len(s) - 1 : Front(s)[i] = s[i]
      /\ Last(s) = s[Len(s)]
      /\ Last(s) \in S
  BY FrontType
<1> HIDE DEF old, new
<1>4. Len(new) = Len(old) + 1 /\ Len(old) \in 0..Len(s) - 1
  BY <1>1, <1>2, <1>3
<1>5. /\ Append(old, Last(s)) \in Seq(S)
      /\ Len(Append(old, Last(s))) = Len(new)
      /\ \A i \in 1..Len(old) : Append(old, Last(s))[i] = old[i]
      /\ Append(old, Last(s))[Len(new)] = Last(s)
  BY <1>1, <1>3, <1>4, AppendProperties
<1>6. ASSUME NEW i \in 1..Len(old)
      PROVE  old[i] = new[i]
  <2>1. i + Len(s) - 1 - Len(old) \in 1..Len(s) - 1
    BY <1>3, <1>4
  <2>2. i + Len(s) - 1 - Len(old) = i + Len(s) - Len(new)
    BY <1>3, <1>4
  <2>3. i \in 1..Len(new)
    BY <1>4
  <2> QED
    BY <1>1, <1>2, <1>3, <2>1, <2>2, <2>3
<1>7. new[Len(new)] = s[Len(s)]
  <2>1. Len(new) \in 1..Len(new) /\ Len(new) + Len(s) - Len(new) = Len(s)
    BY <1>3, <1>4
  <2> QED
    BY <1>2, <2>1
<1>8. \A i \in 1..Len(new) : Append(old, Last(s))[i] = new[i]
  BY <1>3, <1>4, <1>5, <1>6, <1>7
<1>9. Append(old, Last(s)) = new
  BY <1>2, <1>5, <1>8, SeqEqual
<1> QED
  BY <1>9 DEF old, new

\* ... and the trim makes them n again.
LEMMA TrimToLast ==
    ASSUME NEW S, NEW s \in Seq(S), NEW n \in Nat
    PROVE  LET t == LastOf(n + 1, s)
           IN  (IF Len(t) > n THEN Tail(t) ELSE t) = LastOf(n, s)
<1> DEFINE t == LastOf(n + 1, s)
           u == LastOf(n, s)
<1>1. /\ t \in Seq(S)
      /\ Len(t) = IF Len(s) <= n + 1 THEN Len(s) ELSE n + 1
      /\ \A i \in 1..Len(t) : t[i] = s[i + Len(s) - Len(t)]
  BY LastOfType
<1>2. /\ u \in Seq(S)
      /\ Len(u) = IF Len(s) <= n THEN Len(s) ELSE n
      /\ \A i \in 1..Len(u) : u[i] = s[i + Len(s) - Len(u)]
  BY LastOfType
<1>3. Len(s) \in Nat
  OBVIOUS
<1>4. Len(t) <= n => t = u
  BY <1>1, <1>3 DEF LastOf
<1>5. ASSUME Len(t) > n
      PROVE  Tail(t) = u
  <2> HIDE DEF t, u
  <2>1. Len(t) = n + 1 /\ Len(u) = n /\ Len(s) > n
    BY <1>1, <1>2, <1>3, <1>5
  <2>2. t # <<>>
    BY <2>1
  <2>3. /\ Tail(t) \in Seq(S)
        /\ Len(Tail(t)) = n
        /\ \A i \in 1..n : Tail(t)[i] = t[i + 1]
    BY <1>1, <2>1, <2>2, HeadTailProperties
  <2>4. ASSUME NEW i \in 1..n
        PROVE  t[i + 1] = u[i]
    <3>1. /\ i + 1 \in 1..Len(t)
          /\ i \in 1..Len(u)
          /\ i + 1 + Len(s) - Len(t) = i + Len(s) - Len(u)
      BY <1>3, <2>1
    <3> QED
      BY <1>1, <1>2, <3>1
  <2> QED
    BY <1>2, <2>1, <2>3, <2>4, SeqEqual
<1>6. Len(t) \in Nat
  BY <1>1
<1> QED
  BY <1>4, <1>5, <1>6

\* The last of the last n is the last.
LEMMA LastOfLast ==
    ASSUME NEW S, NEW s \in Seq(S), s # <<>>, NEW n \in Nat \ {0}
    PROVE  LastOf(n, s) # <<>> /\ Last(LastOf(n, s)) = Last(s)
<1> DEFINE t == LastOf(n, s)
<1>1. /\ t \in Seq(S)
      /\ Len(t) = IF Len(s) <= n THEN Len(s) ELSE n
      /\ \A i \in 1..Len(t) : t[i] = s[i + Len(s) - Len(t)]
  BY LastOfType
<1>2. Len(s) \in Nat \ {0} /\ Last(s) = s[Len(s)]
  BY FrontType
<1> HIDE DEF t
<1>3. Len(t) \in 1..Len(s)
  BY <1>1, <1>2
<1>4. Len(t) \in 1..Len(t) /\ Len(t) + Len(s) - Len(t) = Len(s)
  BY <1>2, <1>3
<1>5. t[Len(t)] = s[Len(s)]
  BY <1>1, <1>4
<1>6. t # <<>>
  BY <1>3
<1> QED
  BY <1>2, <1>5, <1>6 DEF Last, t

-----------------------------------------------------------------------------
(* The proof for one call at a time.                                       *)

\* The invariant of one call at a time holds before the first.
LEMMA InitSequentialInv ==
    Init => SequentialInv
<1> SUFFICES ASSUME Init PROVE SequentialInv
  OBVIOUS
<1>1. LastOf(HistoryLimit, <<>>) = <<>>
  BY CogMemClientAssumption DEF LastOf
<1> QED
  BY <1>1 DEF Init, SequentialInv, Alone, CountOK, HistoryOK, LastCallOK,
     ScheduleOK, OrderOK, ReflectsOnOwnOperation, Active

\* A call begins only when there is no other.
LEMMA BeginsAlone ==
    ASSUME Sequential, NEW c \in Callers, NEW e \in Entities, Begin(c, e)
    PROVE  \A d \in Callers : ~Active(d)
<1>1. IsFiniteSet(InFlight)
  BY CogMemClientAssumption, FS_Subset DEF InFlight
<1>2. Cardinality(InFlight) \in Nat /\ Cardinality(InFlight) < 1
  BY <1>1, FS_CardinalityType DEF Begin, Sequential
<1>3. InFlight = {}
  BY <1>1, <1>2, FS_EmptySet
<1> QED
  BY <1>3 DEF InFlight, Active

\* With one call at a time, a call begins when no other is under way.
LEMMA SequentialBegin ==
    ASSUME IInv, IInv', SequentialInv, Sequential, NEW c \in Callers,
           NEW e \in Entities, Begin(c, e), UNCHANGED inFlight
    PROVE  SequentialInv'
<1>1. TypeOK /\ accepted \in Nat
  <2>1. TypeOK
    BY DEF IInv
  <2>2. Bound \in Nat /\ accepted \in 0..Bound
    BY <2>1, BoundType DEF TypeOK
  <2> QED
    BY <2>1, <2>2
<1>2. /\ accepted' = accepted + 1
      /\ op'[c].num = accepted + 1
      /\ readCount'[c] = opCount
      /\ pc'[c] = "count"
      /\ UNCHANGED <<opCount, operationHistory, succeeded, reflections>>
  BY <1>1 DEF TypeOK, Begin, GoTo
<1>3. \A d \in Callers : ~Active(d)
  BY BeginsAlone
<1>4. \A d \in Callers \ {c} : ~Active(d)' /\ pc'[d] = "idle"
  BY <1>1, <1>3 DEF TypeOK, Begin, GoTo, Active
<1>5. /\ opCount = accepted
      /\ operationHistory = LastOf(HistoryLimit, succeeded)
      /\ \A k \in DOMAIN succeeded : succeeded[k].num \in 1..accepted
  BY <1>3 DEF SequentialInv, LastCallOK
<1>6. Active(c)' /\ Alone'
  BY <1>2, <1>4 DEF Active, Alone
<1>7. ASSUME NEW d \in Callers
      PROVE  CountOK(d)'
  BY <1>1, <1>2, <1>4, <1>5 DEF CountOK, Active, Succeeds
<1>8. ASSUME NEW d \in Callers
      PROVE  HistoryOK(d)'
  BY <1>2, <1>4, <1>5 DEF HistoryOK
<1>9. LastCallOK'
  BY <1>1, <1>2, <1>5, <1>6 DEF LastCallOK
<1>10. ScheduleOK'
  <2>1. \A i \in DOMAIN reflections : reflections[i].num \in 1..accepted
    BY DEF IInv, ReflectionOK
  <2>2. ASSUME Enabled, NEW n \in 1..accepted'
        PROVE  Reflected(n)' <=> /\ Succeeds(n)'
                                 /\ n % Frequency = 0
                                 /\ \A d \in Callers : Active(d)' => op'[d].num # n
    <3>1. CASE n = accepted + 1
      BY <1>1, <1>2, <1>6, <2>1, <3>1 DEF Reflected
    <3>2. CASE n # accepted + 1
      <4>1. n \in 1..accepted
        BY <1>1, <1>2, <3>2
      <4>2. Reflected(n) <=> Succeeds(n) /\ n % Frequency = 0
        BY <1>3, <2>2, <4>1 DEF SequentialInv, ScheduleOK
      <4>3. \A d \in Callers : Active(d)' => op'[d].num # n
        BY <1>2, <1>4, <3>2
      <4> QED
        BY <1>2, <4>2, <4>3 DEF Reflected, Succeeds
    <3> QED
      BY <3>1, <3>2
  <2> QED
    BY <2>2 DEF ScheduleOK
<1>11. OrderOK' /\ ReflectsOnOwnOperation'
  BY <1>2 DEF SequentialInv, OrderOK, ReflectsOnOwnOperation, Sequential
<1> QED
  BY <1>6, <1>7, <1>8, <1>9, <1>10, <1>11 DEF SequentialInv

\* What is left to show of a step that is not the first of its call.
LEMMA SequentialCallStep ==
    ASSUME SequentialInv, Sequential, NEW c \in Callers, Active(c),
           OthersWait(c), UNCHANGED <<inFlight, accepted>>,
           CountOK(c)', HistoryOK(c)',
           \A k \in DOMAIN succeeded' : succeeded'[k].num \in 1..accepted,
           pc'[c] = "idle" =>
               /\ opCount' = accepted
               /\ operationHistory' = LastOf(HistoryLimit, succeeded'),
           ScheduleOK', OrderOK', ReflectsOnOwnOperation'
    PROVE  SequentialInv'
<1>1. \A d \in Callers \ {c} : pc'[d] = "idle"
  BY DEF SequentialInv, Alone, Active, OthersWait
<1>2. Alone'
  BY <1>1 DEF Alone, Active
<1>3. \A d \in Callers : CountOK(d)' /\ HistoryOK(d)'
  BY <1>1 DEF CountOK, HistoryOK, Active
<1>4. LastCallOK'
  BY <1>1 DEF LastCallOK, Active
<1> QED
  BY <1>2, <1>3, <1>4 DEF SequentialInv

\* The schedule is kept by a step that does not reflect, if its operation, when
\* it is given up, was not to be reflected on.
LEMMA NoReflectionSequential ==
    ASSUME IInv, SequentialInv, Sequential, NEW c \in Callers, Active(c),
           OthersWait(c), UNCHANGED <<inFlight, accepted, reflections>>,
           \/ /\ Active(c)'
              /\ op'[c] = op[c]
              /\ \A n : n # op[c].num => (Succeeds(n)' <=> Succeeds(n))
           \/ /\ ~Active(c)'
              /\ UNCHANGED succeeded
              /\ Enabled => \/ ~Succeeds(op[c].num)
                            \/ op[c].num % Frequency # 0
    PROVE  ScheduleOK' /\ OrderOK' /\ ReflectsOnOwnOperation'
<1>1. \A d \in Callers \ {c} : ~Active(d) /\ ~Active(d)'
  BY DEF SequentialInv, Alone, Active, OthersWait
<1>2. ~Reflected(op[c].num)
  BY DEF IInv, ReflectionOK, Reflected
<1>3. ASSUME Enabled, NEW n \in 1..accepted
      PROVE  Reflected(n)' <=> /\ Succeeds(n)'
                               /\ n % Frequency = 0
                               /\ \A d \in Callers : Active(d)' => op'[d].num # n
  <2>1. Reflected(n)' <=> Reflected(n)
    BY DEF Reflected
  <2>2. Reflected(n) <=> /\ Succeeds(n)
                         /\ n % Frequency = 0
                         /\ op[c].num # n
    BY <1>1, <1>3 DEF SequentialInv, ScheduleOK
  <2>3. CASE Active(c)'
    BY <1>1, <2>1, <2>2, <2>3
  <2>4. CASE ~Active(c)'
    <3>1. Succeeds(n)' <=> Succeeds(n)
      BY <2>4 DEF Succeeds
    <3> QED
      BY <1>1, <1>2, <1>3, <2>1, <2>2, <2>4, <3>1
  <2> QED
    BY <2>3, <2>4
<1>4. ScheduleOK'
  BY <1>3 DEF ScheduleOK
<1> QED
  BY <1>4 DEF SequentialInv, OrderOK, ReflectsOnOwnOperation, Sequential

\* Its increment finds the counter as it has read it.
LEMMA SequentialCount ==
    ASSUME IInv, SequentialInv, Sequential, NEW c \in Callers, Count(c),
           UNCHANGED inFlight, Active(c), OthersWait(c)
    PROVE  SequentialInv'
<1>1. TypeOK /\ CountOK(c) /\ HistoryOK(c) /\ LastCallOK
  BY DEF IInv, SequentialInv
<1>2. /\ pc[c] = "count"
      /\ pc'[c] = "handle"
      /\ opCount' = readCount[c] + 1
      /\ UNCHANGED <<op, operationHistory, accepted, succeeded, reflections>>
  BY <1>1 DEF TypeOK, Count, GoTo
<1>3. CountOK(c)'
  BY <1>1, <1>2 DEF CountOK, Active, Succeeds
<1>4. HistoryOK(c)'
  BY <1>1, <1>2 DEF HistoryOK
<1>5. /\ Active(c)'
      /\ \A n : Succeeds(n)' <=> Succeeds(n)
  BY <1>2 DEF Active, Succeeds
<1>6. ScheduleOK' /\ OrderOK' /\ ReflectsOnOwnOperation'
  BY <1>2, <1>5, NoReflectionSequential
<1> QED
  BY <1>1, <1>2, <1>3, <1>4, <1>6, SequentialCallStep DEF LastCallOK

\* A call that fails leaves history and schedule alone.
LEMMA SequentialHandleFails ==
    ASSUME IInv, SequentialInv, Sequential, NEW c \in Callers, HandleFails(c),
           UNCHANGED inFlight, Active(c), OthersWait(c)
    PROVE  SequentialInv'
<1>1. TypeOK /\ CountOK(c) /\ HistoryOK(c) /\ LastCallOK
  BY DEF IInv, SequentialInv
<1>2. /\ pc[c] = "handle"
      /\ pc'[c] = "idle"
      /\ UNCHANGED <<opCount, operationHistory, accepted, succeeded, reflections>>
  BY <1>1 DEF TypeOK, HandleFails, Return, GoTo
<1>3. ~Active(c)' /\ ~Succeeds(op[c].num)
  BY <1>1, <1>2 DEF CountOK, Active
<1>4. ScheduleOK' /\ OrderOK' /\ ReflectsOnOwnOperation'
  BY <1>2, <1>3, NoReflectionSequential
<1>5. opCount = accepted /\ operationHistory = LastOf(HistoryLimit, succeeded)
  BY <1>1, <1>2 DEF CountOK, HistoryOK
<1>6. CountOK(c)' /\ HistoryOK(c)'
  BY <1>2 DEF CountOK, HistoryOK, Active
<1> QED
  BY <1>1, <1>2, <1>4, <1>5, <1>6, SequentialCallStep DEF LastCallOK

\* One that succeeds is the newest operation, ...
LEMMA SequentialHandleSucceeds ==
    ASSUME IInv, SequentialInv, Sequential, NEW c \in Callers,
           HandleSucceeds(c), UNCHANGED inFlight, Active(c), OthersWait(c)
    PROVE  SequentialInv'
<1>1. TypeOK /\ CountOK(c) /\ HistoryOK(c) /\ LastCallOK
  BY DEF IInv, SequentialInv
<1>2. op[c] \in Operations /\ succeeded \in Seq(Operations)
  BY <1>1 DEF IInv, CallOK, TypeOK
<1>3. /\ pc[c] = "handle"
      /\ pc'[c] = "append"
      /\ succeeded' = Append(succeeded, op[c])
      /\ readHistory'[c] = operationHistory
      /\ UNCHANGED <<op, opCount, operationHistory, accepted, reflections>>
  BY <1>1 DEF TypeOK, HandleSucceeds, GoTo
<1>4. \A n : Succeeds(n)' <=> Succeeds(n) \/ n = op[c].num
  BY <1>1, <1>2, <1>3, SucceedingAdds
<1>5. CountOK(c)'
  BY <1>1, <1>3 DEF CountOK, Active
<1>6. HistoryOK(c)'
  <2>1. /\ succeeded' # <<>>
        /\ Last(succeeded') = op[c]
        /\ Front(succeeded') = succeeded
    BY <1>2, <1>3, FrontOfAppend
  <2>2. operationHistory = LastOf(HistoryLimit, succeeded)
    BY <1>1, <1>3 DEF HistoryOK
  <2> QED
    BY <1>3, <2>1, <2>2 DEF HistoryOK
<1>7. Active(c)'
  BY <1>3 DEF Active
<1>8. ScheduleOK' /\ OrderOK' /\ ReflectsOnOwnOperation'
  BY <1>3, <1>4, <1>7, NoReflectionSequential
<1>9. \A k \in DOMAIN succeeded' : succeeded'[k].num \in 1..accepted
  <2>1. op[c].num \in 1..accepted
    BY <1>1, <1>2, BoundType DEF IInv, CallOK, TypeOK, Operations
  <2>2. /\ succeeded' \in Seq(Operations)
        /\ Len(succeeded') = Len(succeeded) + 1
        /\ \A k \in 1..Len(succeeded) : succeeded'[k] = succeeded[k]
        /\ succeeded'[Len(succeeded) + 1] = op[c]
    BY <1>2, <1>3, AppendProperties
  <2>3. /\ DOMAIN succeeded = 1..Len(succeeded)
        /\ DOMAIN succeeded' = DOMAIN succeeded \cup {Len(succeeded) + 1}
    BY <1>2, <2>2
  <2> QED
    BY <1>1, <2>1, <2>2, <2>3 DEF LastCallOK
<1> QED
  BY <1>3, <1>5, <1>6, <1>8, <1>9, SequentialCallStep

\* ... which it appends to the history, ...
LEMMA SequentialAppend ==
    ASSUME IInv, SequentialInv, Sequential, NEW c \in Callers,
           AppendOperation(c), UNCHANGED inFlight, Active(c), OthersWait(c)
    PROVE  SequentialInv'
<1>1. TypeOK /\ CountOK(c) /\ HistoryOK(c) /\ LastCallOK
  BY DEF IInv, SequentialInv
<1>2. /\ pc[c] = "append"
      /\ pc'[c] = "trim"
      /\ operationHistory' = Append(readHistory[c], op[c])
      /\ UNCHANGED <<op, opCount, accepted, succeeded, reflections>>
  BY <1>1 DEF TypeOK, AppendOperation, GoTo
<1>3. succeeded \in Seq(Operations) /\ HistoryLimit \in Nat
  BY <1>1, CogMemClientAssumption DEF TypeOK
<1>4. /\ readHistory[c] = LastOf(HistoryLimit, Front(succeeded))
      /\ succeeded # <<>>
      /\ Last(succeeded) = op[c]
  BY <1>1, <1>2 DEF HistoryOK
<1>5. operationHistory' = LastOf(HistoryLimit + 1, succeeded)
  BY <1>2, <1>3, <1>4, AppendToLast
<1>6. HistoryOK(c)'
  BY <1>2, <1>4, <1>5 DEF HistoryOK
<1>7. CountOK(c)'
  BY <1>1, <1>2 DEF CountOK, Active
<1>8. Active(c)' /\ \A n : Succeeds(n)' <=> Succeeds(n)
  BY <1>2 DEF Active, Succeeds
<1>9. ScheduleOK' /\ OrderOK' /\ ReflectsOnOwnOperation'
  BY <1>2, <1>8, NoReflectionSequential
<1> QED
  BY <1>1, <1>2, <1>6, <1>7, <1>9, SequentialCallStep DEF LastCallOK

\* ... which is then cut to the last HistoryLimit.
LEMMA SequentialTrim ==
    ASSUME IInv, SequentialInv, Sequential, NEW c \in Callers, Trim(c),
           UNCHANGED inFlight, Active(c), OthersWait(c)
    PROVE  SequentialInv'
<1>1. TypeOK /\ CountOK(c) /\ HistoryOK(c) /\ LastCallOK
  BY DEF IInv, SequentialInv
<1>2. /\ pc[c] = "trim"
      /\ pc'[c] = "check"
      /\ operationHistory' = IF Len(operationHistory) > HistoryLimit
                               THEN Tail(operationHistory)
                               ELSE operationHistory
      /\ UNCHANGED <<op, opCount, accepted, succeeded, reflections>>
  BY <1>1 DEF TypeOK, Trim, GoTo
<1>3. succeeded \in Seq(Operations) /\ HistoryLimit \in Nat
  BY <1>1, CogMemClientAssumption DEF TypeOK
<1>4. operationHistory' = LastOf(HistoryLimit, succeeded)
  BY <1>1, <1>2, <1>3, TrimToLast DEF HistoryOK
<1>5. HistoryOK(c)'
  BY <1>1, <1>2, <1>4 DEF HistoryOK
<1>6. CountOK(c)'
  BY <1>1, <1>2 DEF CountOK, Active
<1>7. Active(c)' /\ \A n : Succeeds(n)' <=> Succeeds(n)
  BY <1>2 DEF Active, Succeeds
<1>8. ScheduleOK' /\ OrderOK' /\ ReflectsOnOwnOperation'
  BY <1>2, <1>7, NoReflectionSequential
<1> QED
  BY <1>1, <1>2, <1>5, <1>6, <1>8, SequentialCallStep DEF LastCallOK

\* A call is due for a reflection or returns.
LEMMA SequentialCheck ==
    ASSUME IInv, SequentialInv, Sequential, NEW c \in Callers,
           SkipReflection(c) \/ StartReflection(c),
           UNCHANGED inFlight, Active(c), OthersWait(c)
    PROVE  SequentialInv'
<1>1. TypeOK /\ CountOK(c) /\ HistoryOK(c) /\ LastCallOK
  BY DEF IInv, SequentialInv
<1>2. /\ pc[c] = "check"
      /\ UNCHANGED <<opCount, operationHistory, accepted, succeeded, reflections>>
  BY DEF SkipReflection, StartReflection
<1>3. /\ opCount = accepted
      /\ op[c].num = accepted
      /\ operationHistory = LastOf(HistoryLimit, succeeded)
  BY <1>1, <1>2 DEF CountOK, HistoryOK, Active
<1>4. /\ SkipReflection(c) => pc'[c] = "idle"
      /\ StartReflection(c) => pc'[c] = "reflect" /\ op'[c] = op[c]
  BY <1>1 DEF TypeOK, SkipReflection, StartReflection, Return, GoTo
<1>5. CountOK(c)'
  BY <1>1, <1>2, <1>4
  DEF CountOK, Active, StartReflection, ShouldReflect
<1>6. HistoryOK(c)'
  BY <1>1, <1>2, <1>4 DEF HistoryOK
<1>7. ScheduleOK' /\ OrderOK' /\ ReflectsOnOwnOperation'
  <2>1. CASE SkipReflection(c)
    <3>1. op[c].num > 0
      BY <1>1, BoundType DEF IInv, CallOK, Operations
    <3>2. Enabled => op[c].num % Frequency # 0
      BY <1>3, <2>1, <3>1 DEF SkipReflection, ShouldReflect
    <3>3. ~Active(c)'
      BY <1>4, <2>1 DEF Active
    <3> QED
      BY <1>2, <3>2, <3>3, NoReflectionSequential
  <2>2. CASE StartReflection(c)
    <3>1. Active(c)' /\ \A n : Succeeds(n)' <=> Succeeds(n)
      BY <1>2, <1>4, <2>2 DEF Active, Succeeds
    <3> QED
      BY <1>2, <1>4, <2>2, <3>1, NoReflectionSequential
  <2> QED
    BY <2>1, <2>2
<1> QED
  BY <1>1, <1>2, <1>3, <1>5, <1>6, <1>7, SequentialCallStep DEF LastCallOK

\* A reflection adds the newest operation to the schedule.
LEMMA SequentialReflect ==
    ASSUME IInv, IInv', SequentialInv, Sequential, NEW c \in Callers,
           Reflect(c), UNCHANGED inFlight
    PROVE  SequentialInv'
<1>1. TypeOK /\ CallOK(c) /\ CountOK(c) /\ HistoryOK(c) /\ LastCallOK
  BY DEF IInv, SequentialInv
<1>2. /\ pc[c] = "reflect"
      /\ pc'[c] = "idle"
      /\ Active(c)
      /\ ~Active(c)'
      /\ OthersWait(c)
      /\ UNCHANGED <<opCount, operationHistory, accepted, succeeded>>
  BY <1>1 DEF TypeOK, Reflect, Return, GoTo, OthersWait, Active
<1>3. /\ op[c] \in Operations
      /\ Succeeds(op[c].num)
      /\ op[c].num = accepted
      /\ opCount = accepted
      /\ Enabled => op[c].num % Frequency = 0
      /\ operationHistory = LastOf(HistoryLimit, succeeded)
      /\ succeeded # <<>>
      /\ Last(succeeded) = op[c]
  BY <1>1, <1>2 DEF CallOK, CountOK, HistoryOK, Active, ShouldReflect
<1>4. operationHistory # <<>> /\ Last(operationHistory) = op[c]
  BY <1>1, <1>3, LastOfLast, CogMemClientAssumption DEF TypeOK
<1> DEFINE new == Len(reflections) + 1
<1>5. /\ reflections \in Seq(Reflections)
      /\ DOMAIN reflections = 1..Len(reflections)
      /\ Len(reflections) \in Nat
  BY <1>1 DEF TypeOK
<1>6. /\ reflections' \in Seq(Reflections)
      /\ Len(reflections') = new
      /\ \A i \in DOMAIN reflections : reflections'[i] = reflections[i]
      /\ reflections'[new].num = op[c].num
      /\ reflections'[new].entity = op[c].entity
      /\ reflections'[new].content = operationHistory
  BY <1>1, <1>3, <1>4, ReflectingAdds
<1>7. DOMAIN reflections' = DOMAIN reflections \cup {new}
  BY <1>5, <1>6
<1>8. \A n : Reflected(n)' <=> Reflected(n) \/ n = op[c].num
  BY <1>6, <1>7 DEF Reflected
<1>9. \A d \in Callers \ {c} : ~Active(d) /\ ~Active(d)'
  BY <1>2 DEF SequentialInv, Alone, Active, OthersWait
<1>10. ScheduleOK'
  <2>1. ASSUME Enabled, NEW n \in 1..accepted
        PROVE  Reflected(n)' <=> /\ Succeeds(n)'
                                 /\ n % Frequency = 0
                                 /\ \A d \in Callers : Active(d)' => op'[d].num # n
    <3>1. Reflected(n) <=> /\ Succeeds(n)
                           /\ n % Frequency = 0
                           /\ op[c].num # n
      BY <1>2, <1>9, <2>1 DEF SequentialInv, ScheduleOK
    <3>2. Succeeds(n)' <=> Succeeds(n)
      BY <1>2 DEF Succeeds
    <3> QED
      BY <1>2, <1>3, <1>8, <1>9, <2>1, <3>1, <3>2
  <2> QED
    BY <1>2, <2>1 DEF ScheduleOK
<1>11. OrderOK'
  <2>1. \A i \in DOMAIN reflections : reflections[i].num < op[c].num
    <3>1. ASSUME NEW i \in DOMAIN reflections
          PROVE  /\ reflections[i].num \in 1..accepted
                 /\ reflections[i].num # op[c].num
      BY <1>2 DEF IInv, ReflectionOK
    <3> QED
      BY <1>1, <1>3, <3>1, BoundType DEF TypeOK
  <2>2. ASSUME NEW i \in DOMAIN reflections', NEW j \in DOMAIN reflections',
               i < j
        PROVE  reflections'[i].num < reflections'[j].num
    <3>1. i \in DOMAIN reflections
      BY <1>5, <1>7, <2>2
    <3>2. CASE j \in DOMAIN reflections
      BY <1>6, <2>2, <3>1, <3>2 DEF SequentialInv, OrderOK
    <3>3. CASE j = new
      BY <1>6, <2>1, <3>1, <3>3
    <3> QED
      BY <1>7, <3>2, <3>3
  <2> QED
    BY <2>2 DEF OrderOK
<1>12. ReflectsOnOwnOperation'
  <2>1. ASSUME NEW i \in DOMAIN reflections'
        PROVE  LET r == reflections'[i]
               IN  Last(r.content) = [num |-> r.num, entity |-> r.entity]
    <3>1. CASE i \in DOMAIN reflections
      BY <1>6, <3>1 DEF SequentialInv, ReflectsOnOwnOperation
    <3>2. CASE i = new
      <4>1. op[c] = [num |-> op[c].num, entity |-> op[c].entity]
        BY <1>3 DEF Operations
      <4> QED
        BY <1>4, <1>6, <3>2, <4>1
    <3> QED
      BY <1>7, <3>1, <3>2
  <2> QED
    BY <2>1 DEF ReflectsOnOwnOperation
<1>13. CountOK(c)' /\ HistoryOK(c)'
  BY <1>2 DEF CountOK, HistoryOK, Active
<1> QED
  BY <1>1, <1>2, <1>3, <1>10, <1>11, <1>12, <1>13, SequentialCallStep
  DEF LastCallOK

\* The inductive step for one call at a time.
LEMMA NextSequentialInv ==
    ASSUME IInv, SequentialInv, [Next]_vars
    PROVE  SequentialInv'
<1>1. IInv'
  BY NextIInv
<1>2. inFlight' = inFlight
  BY DEF Next, vars
<1>3. CASE ~Sequential
  BY <1>2, <1>3 DEF SequentialInv, Sequential
<1>4. CASE UNCHANGED vars
  BY <1>4 DEF vars, SequentialInv, Sequential, Alone, CountOK, HistoryOK,
     LastCallOK, ScheduleOK, OrderOK, ReflectsOnOwnOperation, Active, Succeeds,
     Reflected, ShouldReflect
<1>5. ASSUME Sequential, NEW c \in Callers, Process(c)
      PROVE  SequentialInv'
  <2>1. CASE Refuse(c)
    BY <1>4, <2>1 DEF Refuse
  <2>2. CASE \E e \in Entities : Begin(c, e)
    BY <1>1, <1>2, <1>5, <2>2, SequentialBegin
  <2>3. CASE Reflect(c)
    BY <1>1, <1>2, <1>5, <2>3, SequentialReflect
  <2>4. CASE \/ Count(c) \/ HandleFails(c) \/ HandleSucceeds(c)
             \/ AppendOperation(c) \/ Trim(c)
             \/ SkipReflection(c) \/ StartReflection(c)
    <3>1. Active(c) /\ OthersWait(c)
      BY <1>1, <1>2, <2>4, WithinCallStep DEF IInv
    <3> QED
      BY <1>2, <1>5, <2>4, <3>1, SequentialCount, SequentialHandleFails,
         SequentialHandleSucceeds, SequentialAppend, SequentialTrim,
         SequentialCheck
  <2> QED
    BY <1>5, <2>1, <2>2, <2>3, <2>4 DEF Process
<1> QED
  BY <1>3, <1>4, <1>5 DEF Next

\* With one call at a time the invariant holds in every state.
LEMMA SequentialInvariantHolds ==
    Spec => [](IInv /\ SequentialInv)
<1>1. Init => IInv /\ SequentialInv
  BY InitIInv, InitSequentialInv
<1>2. IInv /\ SequentialInv /\ [Next]_vars => (IInv /\ SequentialInv)'
  BY NextIInv, NextSequentialInv
<1> QED
  BY <1>1, <1>2, PTL DEF Spec

\* Used by one goroutine at a time the client counts every call and keeps the
\* last HistoryLimit successful operations in their order.
THEOREM ExactCountAndHistory ==
    Spec => []CountAndHistoryExact
<1>1. SequentialInv => CountAndHistoryExact
  BY DEF SequentialInv, LastCallOK, CountAndHistoryExact, Quiet, InFlight, Active
<1> QED
  BY <1>1, SequentialInvariantHolds, PTL

\* Then it reflects on the successful operations whose number is a multiple of
\* the frequency, on no other, and on them in their order, ...
THEOREM ScheduledReflections ==
    Spec => []ReflectsOnSchedule
<1>1. ASSUME IInv, SequentialInv, Sequential, Enabled, Quiet
      PROVE  {r.num : r \in ToSet(reflections)}
                = {n \in {o.num : o \in ToSet(succeeded)} : n % Frequency = 0}
  <2>1. \A n : n \in {r.num : r \in ToSet(reflections)} <=> Reflected(n)
    BY DEF ToSet, Reflected
  <2>2. \A n : n \in {o.num : o \in ToSet(succeeded)} <=> Succeeds(n)
    BY DEF ToSet, Succeeds
  <2>3. \A n : Reflected(n) => n \in 1..accepted
    BY <1>1 DEF IInv, ReflectionOK, Reflected
  <2>4. \A n : Succeeds(n) => n \in 1..accepted
    BY <1>1 DEF SequentialInv, LastCallOK, Succeeds
  <2>5. \A n \in 1..accepted : Reflected(n) <=> Succeeds(n) /\ n % Frequency = 0
    BY <1>1 DEF SequentialInv, ScheduleOK, Quiet, InFlight, Active
  <2> QED
    BY <2>1, <2>2, <2>3, <2>4, <2>5
<1>2. IInv /\ SequentialInv => ReflectsOnSchedule
  BY <1>1 DEF SequentialInv, OrderOK, ReflectsOnSchedule
<1> QED
  BY <1>2, SequentialInvariantHolds, PTL

\* ... each time with a history that ends with that operation.
THEOREM OwnOperationLast ==
    Spec => []ReflectsOnOwnOperation
<1>1. SequentialInv => ReflectsOnOwnOperation
  BY DEF SequentialInv, ReflectsOnOwnOperation
<1> QED
  BY <1>1, SequentialInvariantHolds, PTL
-----------------------------------------------------------------------------
(***************************************************************************)
(* How a program gets its client (module Startup): what validateConfig     *)
(* accepts is what the init functions can serve, for every configuration,  *)
(* any processes and any environment variables.                            *)
(***************************************************************************)

\* The configuration that a call goes on with.
Effective(p) == Overridden(file[p])

\* A call that has got past the loader has a valid configuration, ...
LoadedOK(p) ==
    stage[p] \in Busy \cup {"ready"} =>
        file[p] \in Configs /\ Valid(Effective(p))

\* ... past the store the one it names, at the place it names, ...
StoreOK(p) ==
    stage[p] \in {"scripts", "looping", "ready"} =>
        /\ client[p].store = StoreOf(Effective(p))
        /\ client[p].place = PlaceOf(Effective(p))
        /\ client[p].store # NoOne
        /\ client[p].place # "none"
        /\ Opens(client[p].store, client[p].place)

\* ... and in the end the engine and the frequency that go with it.
ClientOK(p) ==
    stage[p] = "ready" =>
        /\ client[p].engine = EngineOf(Effective(p))
        /\ client[p].frequency = IF Effective(p).enabled
                                   THEN FrequencyOf(Effective(p))
                                   ELSE DefaultFrequency

\* Why a valid configuration was refused.
CauseOK(p) ==
    /\ stage[p] # "refused" => cause[p] = "none"
    /\ cause[p] \in {"unsupported", "unplaced"} =>
           file[p] \in Configs /\ Valid(Effective(p))
    /\ cause[p] = "unsupported" => StoreOf(Effective(p)) = NoOne
    /\ cause[p] = "unplaced" => PlaceOf(Effective(p)) = "none"

StartOK(p) == LoadedOK(p) /\ StoreOK(p) /\ ClientOK(p) /\ CauseOK(p)

StartIInv == StartTypeOK /\ \A p \in Procs : StartOK(p)

-----------------------------------------------------------------------------
(* The tables of the loader and of the init functions, side by side.       *)

\* Overriding fills in places and keys, and leaves the rest as it is.
LEMMA OverriddenFields ==
    ASSUME NEW c \in Configs
    PROVE  /\ Overridden(c) \in Configs
           /\ Overridden(c).type = c.type
           /\ Overridden(c).variant = c.variant
           /\ Overridden(c).provider = c.provider
           /\ Overridden(c).enabled = c.enabled
           /\ Overridden(c).frequency = c.frequency
           /\ Overridden(c).place = Override(Section(c), c.place)
           /\ Overridden(c).key = Override(c.provider, c.key)
<1>1. \A s, v : v \in Values => Override(s, v) \in Values
  BY DEF Override, Values
<1> QED
  BY <1>1 DEF Overridden, Configs

\* The store that is opened is the one that is named.
LEMMA StoreIsNamed ==
    ASSUME NEW c \in Configs, StoreValid(c), StoreOf(c) # NoOne
    PROVE  StoreAsNamed(c, StoreOf(c))
BY StartupAssumption DEF StoreValid, StoreOf, StoreAsNamed, Configs, Types,
   Variants, Stores

\* A valid configuration that names no store that there is.
LEMMA NoStore ==
    ASSUME NEW c \in Configs, StoreValid(c), StoreOf(c) = NoOne
    PROVE  \/ c.type = "kv" /\ c.variant = "redis"
           \/ c.type = "sql" /\ c.variant \notin {"sqlite", "postgres"}
BY StartupAssumption DEF StoreValid, StoreOf, Configs, Types, Variants, Stores

\* A valid configuration that is left without a place waits for a variable.
LEMMA NoPlace ==
    ASSUME NEW c \in Configs, StoreValid(Overridden(c)),
           PlaceOf(Overridden(c)) = "none"
    PROVE  /\ c.type = "pgvector"
           /\ c.place = "placeholder"
           /\ "POSTGRES_URL" \notin environment
<1> DEFINE o == Overridden(c)
<1>1. /\ o \in Configs
      /\ o.type = c.type
      /\ o.place = Override(Section(c), c.place)
  BY OverriddenFields
<1>2. o.place = "placeholder" => c.place = "placeholder"
  BY <1>1 DEF Override
<1> HIDE DEF o
<1>3. PlaceOf(o) = "none" /\ StoreValid(o)
  BY DEF o
<1>4. \/ o.place \in {"text", "placeholder"}
      \/ o.type = "mock"
      \/ o.type = "kv" /\ o.variant = "boltdb"
  BY <1>1, <1>3 DEF StoreValid, Configs, Values
<1>5. /\ o.type = "pgvector"
      /\ o.place = "placeholder"
      /\ FromEnvironment = "none"
  BY <1>2, <1>3, <1>4, StartupAssumption DEF PlaceOf, StoreOf, Stores
<1> QED
  BY <1>1, <1>2, <1>5 DEF FromEnvironment

\* The place that is opened is where the file or a variable says.
LEMMA PlaceIsNamed ==
    ASSUME NEW c \in Configs, StoreValid(Overridden(c)),
           StoreOf(Overridden(c)) # NoOne, PlaceOf(Overridden(c)) # "none",
           Opens(StoreOf(Overridden(c)), PlaceOf(Overridden(c)))
    PROVE  PlaceAsNamed(c, StoreOf(Overridden(c)), PlaceOf(Overridden(c)))
<1> DEFINE o == Overridden(c)
           store == StoreOf(o)
           place == PlaceOf(o)
<1>1. /\ o \in Configs
      /\ o.type = c.type
      /\ o.variant = c.variant
      /\ o.place = Override(Section(c), c.place)
  BY OverriddenFields
<1>2. c.place \in Values
  BY DEF Configs
<1>3. StoreValid(o) /\ store # NoOne /\ place # "none" /\ Opens(store, place)
  OBVIOUS
<1> SUFFICES PlaceAsNamed(c, store, place)
  OBVIOUS
<1> HIDE DEF o
<1>4. CASE store \in {"mock", "chromem"}
  BY <1>4 DEF PlaceOf, PlaceAsNamed
<1>5. CASE store = "bolt"
  BY <1>5 DEF PlaceOf, PlaceAsNamed
<1>6. CASE store \in {"sqlite", "postgres"}
  <2>1. c.type = "sql" /\ o.place # "none"
    BY <1>1, <1>3, <1>6, StartupAssumption DEF StoreOf, StoreValid, Stores
  <2>2. place = o.place
    BY <1>6, <2>1 DEF PlaceOf
  <2>3. \/ place = c.place
        \/ place = "text" /\ "COGMEM_LTM_SQL_DSN" \in environment
    BY <1>1, <2>1, <2>2 DEF Override, Section, Overriders
  <2> QED
    BY <1>2, <1>3, <1>6, <2>1, <2>3 DEF PlaceAsNamed, Values, Opens
<1>7. CASE store = "hstore"
  <2>1. c.type = "kv" /\ c.variant = "postgres_hstore" /\ o.place # "none"
    BY <1>1, <1>3, <1>7, StartupAssumption DEF StoreOf, StoreValid, Stores
  <2>2. place = o.place
    BY <1>7, <2>1 DEF PlaceOf
  <2>3. place = c.place
    BY <1>1, <2>1, <2>2 DEF Override, Section, Overriders
  <2> QED
    BY <1>2, <1>3, <1>7, <2>1, <2>2, <2>3 DEF PlaceAsNamed, Values, Opens
<1>8. CASE store = "pgvector"
  <2>1. c.type = "pgvector" /\ o.place # "none"
    BY <1>1, <1>3, <1>8, StartupAssumption DEF StoreOf, StoreValid, Stores
  <2>2. place = IF o.place = "placeholder" THEN FromEnvironment ELSE o.place
    BY <1>1, <1>8, <2>1 DEF PlaceOf, Configs, Values
  <2>3. \/ o.place = c.place
        \/ o.place = "text" /\ "PGVECTOR_URL" \in environment
    BY <1>1, <2>1 DEF Override, Section, Overriders
  <2> QED
    BY <1>2, <1>3, <1>8, <2>1, <2>2, <2>3
    DEF PlaceAsNamed, Values, FromEnvironment
<1>9. store \in Stores
  BY <1>3 DEF StoreOf, Stores
<1> QED
  BY <1>4, <1>5, <1>6, <1>7, <1>8, <1>9 DEF Stores

\* The OpenAI engine is made exactly if the file names it and there is a key.
LEMMA EngineIsNamed ==
    ASSUME NEW c \in Configs
    PROVE  EngineOf(Overridden(c)) = IF c.provider = "openai" /\ HasOpenAIKey(c)
                                       THEN "openai" ELSE "mock"
<1> DEFINE o == Overridden(c)
<1>1. o.provider = c.provider /\ o.key = Override(c.provider, c.key)
  BY OverriddenFields
<1> HIDE DEF o
<1>2. ASSUME c.provider = "openai"
      PROVE  o.key # "none" <=> HasOpenAIKey(c)
  BY <1>1, <1>2 DEF Override, Overriders, HasOpenAIKey
<1>3. EngineOf(o) = IF c.provider = "openai" /\ o.key # "none"
                      THEN "openai" ELSE "mock"
  BY <1>1 DEF EngineOf
<1> QED
  BY <1>2, <1>3 DEF o

-----------------------------------------------------------------------------
\* What the invariant says of a call is what the property asks.
LEMMA Served == StartIInv => ServedAsConfigured
<1> SUFFICES ASSUME StartIInv, NEW p \in Procs
             PROVE  LET c == file[p]
                    IN  /\ stage[p] = "ready" =>
                              /\ StoreAsNamed(c, client[p].store)
                              /\ PlaceAsNamed(c, client[p].store,
                                              client[p].place)
                              /\ client[p].engine =
                                    IF c.provider = "openai" /\ HasOpenAIKey(c)
                                      THEN "openai" ELSE "mock"
                              /\ client[p].frequency =
                                    IF c.enabled /\ c.frequency > 0
                                      THEN c.frequency ELSE DefaultFrequency
                        /\ cause[p] = "unsupported" =>
                              \/ c.type = "kv" /\ c.variant = "redis"
                              \/ /\ c.type = "sql"
                                 /\ c.variant \notin {"sqlite", "postgres"}
                        /\ cause[p] = "unplaced" =>
                              /\ c.type = "pgvector"
                              /\ c.place = "placeholder"
                              /\ "POSTGRES_URL" \notin environment
  BY DEF ServedAsConfigured
<1>1. StartOK(p)
  BY DEF StartIInv
<1>2. CASE stage[p] = "ready"
  <2> DEFINE c == file[p]
             o == Overridden(c)
  <2>1. c \in Configs /\ StoreValid(o)
    BY <1>1, <1>2 DEF StartOK, LoadedOK, Effective, Valid
  <2>2. /\ client[p].store = StoreOf(o) /\ StoreOf(o) # NoOne
        /\ client[p].place = PlaceOf(o) /\ PlaceOf(o) # "none"
        /\ Opens(StoreOf(o), PlaceOf(o))
    BY <1>1, <1>2 DEF StartOK, StoreOK, Effective
  <2>3. /\ client[p].engine = EngineOf(o)
        /\ client[p].frequency = IF o.enabled THEN FrequencyOf(o)
                                              ELSE DefaultFrequency
    BY <1>1, <1>2 DEF StartOK, ClientOK, Effective
  <2>4. /\ o \in Configs /\ o.type = c.type /\ o.variant = c.variant
        /\ o.enabled = c.enabled /\ o.frequency = c.frequency
    BY <2>1, OverriddenFields
  <2>5. c.frequency \in Int
    BY <2>1 DEF Configs
  <2> HIDE DEF o
  <2>6. StoreAsNamed(o, StoreOf(o))
    BY <2>1, <2>2, <2>4, StoreIsNamed
  <2>7. StoreAsNamed(c, StoreOf(o))
    BY <2>4, <2>6 DEF StoreAsNamed
  <2>8. PlaceAsNamed(c, StoreOf(o), PlaceOf(o))
    BY <2>1, <2>2, PlaceIsNamed DEF o
  <2>9. EngineOf(o) = IF c.provider = "openai" /\ HasOpenAIKey(c)
                        THEN "openai" ELSE "mock"
    BY <2>1, EngineIsNamed DEF o
  <2>11. client[p].frequency = IF c.enabled /\ c.frequency > 0
                                 THEN c.frequency ELSE DefaultFrequency
    BY <2>3, <2>4, <2>5 DEF FrequencyOf
  <2>10. cause[p] = "none"
    BY <1>1, <1>2 DEF StartOK, CauseOK
  <2> QED
    BY <1>2, <2>2, <2>3, <2>7, <2>8, <2>9, <2>10, <2>11
<1>3. CASE stage[p] # "ready" /\ cause[p] = "unsupported"
  <2> DEFINE c == file[p]
             o == Overridden(c)
  <2>1. c \in Configs /\ StoreValid(o) /\ StoreOf(o) = NoOne
    BY <1>1, <1>3 DEF StartOK, CauseOK, Effective, Valid
  <2>2. o \in Configs /\ o.type = c.type /\ o.variant = c.variant
    BY <2>1, OverriddenFields
  <2> HIDE DEF o
  <2> QED
    BY <1>3, <2>1, <2>2, NoStore
<1>4. CASE stage[p] # "ready" /\ cause[p] = "unplaced"
  BY <1>1, <1>4, NoPlace DEF StartOK, CauseOK, Effective, Valid
<1> QED
  BY <1>2, <1>3, <1>4

-----------------------------------------------------------------------------
(* The steps.                                                              *)

\* A step of the process p is nobody else's.
OnlyMoves(p) ==
    /\ environment' = environment
    /\ \A q \in Procs \ {p} :
          /\ stage'[q] = stage[q]
          /\ file'[q] = file[q]
          /\ client'[q] = client[q]
          /\ cause'[q] = cause[q]

\* With the same variables set, a configuration comes to the same.
LEMMA SameEnvironment ==
    ASSUME environment' = environment, NEW q \in Procs, file'[q] = file[q]
    PROVE  /\ Effective(q)' = Effective(q)
           /\ PlaceOf(Effective(q))' = PlaceOf(Effective(q))
BY DEF Effective, Overridden, Override, PlaceOf, FromEnvironment

\* A step of one process leaves the starts of the others as they are.
LEMMA OthersKept ==
    ASSUME StartIInv, NEW p \in Procs, OnlyMoves(p), StartTypeOK', StartOK(p)'
    PROVE  StartIInv'
<1> SUFFICES ASSUME NEW q \in Procs \ {p}
             PROVE  StartOK(q)'
  BY DEF StartIInv
<1>1. StartOK(q)
  BY DEF StartIInv
<1>2. /\ Effective(q)' = Effective(q)
      /\ PlaceOf(Effective(q))' = PlaceOf(Effective(q))
  BY SameEnvironment DEF OnlyMoves
<1> QED
  BY <1>1, <1>2 DEF OnlyMoves, StartOK, LoadedOK, StoreOK, ClientOK, CauseOK

\* A refusal for which there is a reason.
LEMMA RefuseStep ==
    ASSUME StartIInv, NEW p \in Procs, NEW why \in Causes \ {"none"},
           RefuseCall(p, why),
           environment' = environment, holder' \in Procs \cup {NoOne},
           file' \in [Procs -> Configs \cup {NoOne}],
           \A q \in Procs \ {p} : file'[q] = file[q],
           why \in {"unsupported", "unplaced"} =>
               /\ file'[p] = file[p]
               /\ file[p] \in Configs /\ Valid(Effective(p)),
           why = "unsupported" => StoreOf(Effective(p)) = NoOne,
           why = "unplaced" => PlaceOf(Effective(p)) = "none"
    PROVE  StartIInv'
<1>1. StartTypeOK
  BY DEF StartIInv
<1>2. StartTypeOK'
  BY <1>1, StartupAssumption 
  DEF StartTypeOK, RefuseCall, Enter, NoClient, Clients, Places, Values
<1>3. OnlyMoves(p)
  BY <1>1 DEF OnlyMoves, StartTypeOK, RefuseCall, Enter
<1>4. stage'[p] = "refused" /\ cause'[p] = why
  BY <1>1 DEF StartTypeOK, RefuseCall, Enter
<1>5. CauseOK(p)'
  BY <1>4, SameEnvironment DEF CauseOK
<1>6. StartOK(p)'
  BY <1>4, <1>5 DEF StartOK, LoadedOK, StoreOK, ClientOK, Busy
<1> QED
  BY <1>2, <1>3, <1>6, OthersKept

\* What the loader lets through is valid as overridden.
LEMMA LoadConfigStep ==
    ASSUME StartIInv, NEW p \in Procs, NEW c \in Files[p], LoadConfig(p, c)
    PROVE  StartIInv'
<1>1. StartTypeOK
  BY DEF StartIInv
<1>2. c \in Configs
  BY StartupAssumption
<1>3. /\ file' = [file EXCEPT ![p] = c]
      /\ file' \in [Procs -> Configs \cup {NoOne}]
      /\ UNCHANGED <<environment, holder>>
  BY <1>1, <1>2 DEF StartTypeOK, LoadConfig
<1>4. ASSUME NEW why \in {"unreadable", "invalid"}, RefuseCall(p, why)
      PROVE  StartIInv'
  BY <1>1, <1>3, <1>4, RefuseStep DEF StartTypeOK, Causes
<1>5. CASE /\ Valid(Overridden(c))
           /\ Enter(p, "store")
           /\ client' = [client EXCEPT ![p] = NoClient]
           /\ cause' = [cause EXCEPT ![p] = "none"]
           /\ todo' = [todo EXCEPT ![p] = <<>>]
  <2>1. StartTypeOK'
    BY <1>1, <1>3, <1>5, StartupAssumption
    DEF StartTypeOK, Enter, NoClient, Clients, Places, Values, Busy, Causes
  <2>2. OnlyMoves(p)
    BY <1>1, <1>3, <1>5 DEF OnlyMoves, StartTypeOK, Enter
  <2>3. /\ stage'[p] = "store"
        /\ cause'[p] = "none"
        /\ file'[p] = c
    BY <1>1, <1>3, <1>5 DEF StartTypeOK, Enter
  <2>4. Effective(p)' = Overridden(c)
    BY <1>3, <2>3 DEF Effective, Overridden, Override
  <2>5. StartOK(p)'
    BY <1>2, <1>5, <2>3, <2>4
    DEF StartOK, LoadedOK, StoreOK, ClientOK, CauseOK, Busy
  <2> QED
    BY <2>1, <2>2, <2>5, OthersKept
<1> QED
  BY <1>4, <1>5 DEF LoadConfig

\* The values that the tables give have their types.
LEMMA TableTypes ==
    ASSUME NEW c \in Configs
    PROVE  /\ StoreOf(c) \in Stores \cup {NoOne}
           /\ PlaceOf(c) \in Places
           /\ EngineOf(c) \in {"mock", "openai"}
           /\ FrequencyOf(c) \in Nat \ {0}
<1>1. StoreOf(c) \in Stores \cup {NoOne}
  BY DEF StoreOf, Stores
<1>2. PlaceOf(c) \in Places
  BY DEF PlaceOf, FromEnvironment, Places, Configs, Values
<1>3. FrequencyOf(c) \in Nat \ {0}
  BY StartupAssumption DEF FrequencyOf, Configs
<1> QED
  BY <1>1, <1>2, <1>3 DEF EngineOf

\* A store that is ready is the one of the tables.
LEMMA StoreReadyStep ==
    ASSUME StartIInv, NEW p \in Procs, stage[p] \in {"store", "initialize"},
           StoreReady(p, Effective(p)), UNCHANGED <<environment, holder, file>>,
           StoreOf(Effective(p)) # NoOne, PlaceOf(Effective(p)) # "none",
           Opens(StoreOf(Effective(p)), PlaceOf(Effective(p)))
    PROVE  StartIInv'
<1> DEFINE o == Effective(p)
<1>1. StartTypeOK /\ StartOK(p)
  BY DEF StartIInv
<1>2. file[p] \in Configs /\ Valid(o)
  BY <1>1 DEF StartOK, LoadedOK, Busy
<1>3. o \in Configs
  BY <1>2, OverriddenFields DEF Effective
<1>4. o' = o /\ PlaceOf(o)' = PlaceOf(o)
  BY SameEnvironment
<1>5. StoreOf(o) \in Stores \cup {NoOne} /\ PlaceOf(o) \in Places
  BY <1>3, TableTypes
<1>6. o.paths \in Seq(Dirs)
  BY <1>3 DEF Configs
<1> HIDE DEF o
<1>7. /\ stage' = [stage EXCEPT ![p] = "scripts"]
      /\ client' = [client EXCEPT ![p].store = StoreOf(o),
                                  ![p].place = PlaceOf(o)]
      /\ todo' = [todo EXCEPT ![p] = IF o.paths = <<>> THEN DefaultDirs
                                                       ELSE o.paths]
      /\ UNCHANGED <<environment, holder, file, cause>>
  BY DEF StoreReady, Enter, o
<1>8. StartTypeOK'
  <2> DEFINE store == StoreOf(o)
             place == PlaceOf(o)
             paths == IF o.paths = <<>> THEN DefaultDirs ELSE o.paths
  <2>1. store \in Stores \cup {NoOne} /\ place \in Places
    BY <1>5
  <2>2. paths \in Seq(Dirs)
    BY <1>6, StartupAssumption
  <2>3. /\ stage' = [stage EXCEPT ![p] = "scripts"]
        /\ client' = [client EXCEPT ![p].store = store, ![p].place = place]
        /\ todo' = [todo EXCEPT ![p] = paths]
        /\ UNCHANGED <<environment, holder, file, cause>>
    BY <1>7
  <2> HIDE DEF store, place, paths
  <2>4. stage' \in [Procs -> Busy \cup {"idle", "refused", "ready"}]
    BY <1>1, <2>3 DEF StartTypeOK, Busy
  <2>5. todo' \in [Procs -> Seq(Dirs)]
    BY <1>1, <2>2, <2>3 DEF StartTypeOK
  <2>6. client' \in [Procs -> Clients]
    BY ZenonT(60), <1>1, <2>1, <2>3 DEF StartTypeOK, Clients
  <2> QED
    BY <1>1, <2>3, <2>4, <2>5, <2>6 DEF StartTypeOK
<1>9. OnlyMoves(p)
  BY <1>1, <1>7 DEF OnlyMoves, StartTypeOK
<1>10. /\ stage'[p] = "scripts"
       /\ client'[p].store = StoreOf(o)
       /\ client'[p].place = PlaceOf(o)
  BY <1>1, <1>7 DEF StartTypeOK, Clients
<1>11. cause'[p] = "none" /\ file'[p] = file[p]
  BY <1>1, <1>7 DEF StartOK, CauseOK
<1>12. StartOK(p)'
  BY <1>2, <1>4, <1>10, <1>11
  DEF StartOK, LoadedOK, StoreOK, ClientOK, CauseOK, Busy, o
<1> QED
  BY <1>8, <1>9, <1>12, OthersKept

\* A call whose configuration is valid is refused by the store.
LEMMA FailStep ==
    ASSUME StartIInv, NEW p \in Procs, RefuseCall(p, "failed"),
           UNCHANGED <<environment, file>>, holder' \in Procs \cup {NoOne}
    PROVE  StartIInv'
BY RefuseStep DEF StartIInv, StartTypeOK, Causes

\* A store is refused for a reason the tables give.
LEMMA OpenStoreStep ==
    ASSUME StartIInv, NEW p \in Procs, OpenStore(p)
    PROVE  StartIInv'
<1>1. /\ stage[p] = "store"
      /\ UNCHANGED <<environment, holder, file>>
      /\ holder \in Procs \cup {NoOne}
      /\ file \in [Procs -> Configs \cup {NoOne}]
  BY DEF OpenStore, StartIInv, StartTypeOK
<1>2. file[p] \in Configs /\ Valid(Effective(p))
  BY <1>1 DEF StartIInv, StartOK, LoadedOK, Busy
<1>3. CASE StoreOf(Effective(p)) = NoOne /\ RefuseCall(p, "unsupported")
  BY <1>1, <1>2, <1>3, RefuseStep DEF Causes
<1>4. CASE PlaceOf(Effective(p)) = "none" /\ RefuseCall(p, "unplaced")
  BY <1>1, <1>2, <1>4, RefuseStep DEF Causes
<1>5. CASE RefuseCall(p, "failed")
  BY <1>1, <1>5, FailStep
<1>6. CASE /\ StoreOf(Effective(p)) # NoOne
           /\ PlaceOf(Effective(p)) # "none"
           /\ Opens(StoreOf(Effective(p)), PlaceOf(Effective(p)))
           /\ StoreReady(p, Effective(p))
  BY <1>1, <1>6, StoreReadyStep
<1> QED
  BY <1>3, <1>4, <1>5, <1>6 DEF OpenStore, Effective

\* Between opening the file and making the client a call keeps what it has.
LEMMA GoOnStep ==
    ASSUME StartIInv, NEW p \in Procs, StartTypeOK', OnlyMoves(p),
           UNCHANGED <<file, cause>>,
           stage[p] \in Busy, stage'[p] \in Busy \cup {"ready"},
           \/ stage'[p] = "initialize"
           \/ /\ stage[p] = "scripts"
              /\ client'[p].store = client[p].store
              /\ client'[p].place = client[p].place,
           stage'[p] = "ready" => ClientOK(p)'
    PROVE  StartIInv'
<1>1. StartOK(p)
  BY DEF StartIInv
<1>2. /\ Effective(p)' = Effective(p)
      /\ PlaceOf(Effective(p))' = PlaceOf(Effective(p))
  BY SameEnvironment DEF OnlyMoves
<1>3. LoadedOK(p)'
  BY <1>1, <1>2 DEF StartOK, LoadedOK
<1>4. StoreOK(p)'
  BY <1>1, <1>2 DEF StartOK, StoreOK
<1>5. cause[p] = "none"
  BY <1>1 DEF StartOK, CauseOK, Busy
<1>6. CauseOK(p)'
  BY <1>5 DEF CauseOK
<1>7. ClientOK(p)'
  BY DEF ClientOK
<1>8. StartOK(p)'
  BY <1>3, <1>4, <1>6, <1>7 DEF StartOK
<1> QED
  BY <1>8, OthersKept

\* Opening the BoltDB file keeps the invariant; ...
LEMMA OpenFileStep ==
    ASSUME StartIInv, NEW p \in Procs, OpenFile(p)
    PROVE  StartIInv'
<1>1. StartTypeOK
  BY DEF StartIInv
<1>2. /\ StartTypeOK' /\ OnlyMoves(p)
      /\ stage[p] = "store" /\ stage'[p] = "initialize"
  BY <1>1 DEF OpenFile, OpensFile, StartTypeOK, OnlyMoves, Enter, Busy
<1> QED
  BY <1>2, GoOnStep DEF OpenFile, Busy

\* ... so does giving up on it, ...
LEMMA OpenFileFailsStep ==
    ASSUME StartIInv, NEW p \in Procs, OpenFileFails(p)
    PROVE  StartIInv'
BY FailStep DEF OpenFileFails, StartIInv, StartTypeOK

\* ... initializing it, ...
LEMMA InitializeFileStep ==
    ASSUME StartIInv, NEW p \in Procs, InitializeFile(p), stage[p] = "initialize",
           StoreOf(Effective(p)) = "bolt"
    PROVE  StartIInv'
<1>1. PlaceOf(Effective(p)) = "default"
  BY DEF PlaceOf
<1>2. Opens(StoreOf(Effective(p)), PlaceOf(Effective(p)))
  BY DEF Opens
<1>3. StoreOf(Effective(p)) # NoOne
  BY StartupAssumption DEF Stores
<1>4. UNCHANGED <<environment, holder, file>> /\ holder \in Procs \cup {NoOne}
  BY DEF InitializeFile, StartIInv, StartTypeOK
<1>5. CASE RefuseCall(p, "failed")
  BY <1>4, <1>5, FailStep
<1>6. CASE StoreReady(p, Effective(p))
  BY <1>1, <1>2, <1>3, <1>4, <1>6, StoreReadyStep
<1> QED
  BY <1>5, <1>6 DEF InitializeFile, Effective

\* ... loading one directory of scripts, ...
LEMMA LoadDirStep ==
    ASSUME StartIInv, NEW p \in Procs, LoadDir(p)
    PROVE  StartIInv'
<1>1. StartTypeOK
  BY DEF StartIInv
<1>2. stage[p] = "scripts" /\ todo[p] # <<>> /\ todo[p] \in Seq(Dirs)
  BY <1>1 DEF LoadDir, StartTypeOK
<1>3. Tail(todo[p]) \in Seq(Dirs)
  BY <1>2
<1>4. StartTypeOK'
  <2>1. /\ stage' \in [Procs -> Busy \cup {"idle", "refused", "ready"}]
        /\ UNCHANGED <<environment, holder, file, cause>>
    BY <1>1 DEF LoadDir, StartTypeOK, Enter, Busy
  <2>2. todo' \in [Procs -> Seq(Dirs)]
    BY <1>1, <1>3 DEF LoadDir, StartTypeOK
  <2>3. client' = client \/ client' = [client EXCEPT ![p].scripts = TRUE]
    BY DEF LoadDir
  <2>4. client' \in [Procs -> Clients]
    <3> DEFINE new == [client[p] EXCEPT !.scripts = TRUE]
    <3>1. new \in Clients
      BY <1>1 DEF StartTypeOK, Clients
    <3>2. client' = client \/ client' = [client EXCEPT ![p] = new]
      BY <2>3
    <3> QED
      BY <1>1, <3>1, <3>2 DEF StartTypeOK, Clients
  <2> QED
    BY <1>1, <2>1, <2>2, <2>4 DEF StartTypeOK, Clients
<1>5. OnlyMoves(p) /\ UNCHANGED <<file, cause>>
  BY <1>1 DEF LoadDir, OnlyMoves, StartTypeOK, Enter
<1>6. /\ stage'[p] \in {"scripts", "looping"}
      /\ client'[p].store = client[p].store
      /\ client'[p].place = client[p].place
  BY <1>1, <1>2 DEF LoadDir, StartTypeOK, Enter, Clients
<1> QED
  BY <1>2, <1>4, <1>5, <1>6, GoOnStep DEF Busy

\* ... making the client, whose engine and frequency are the file's, ...
LEMMA MakeClientStep ==
    ASSUME StartIInv, NEW p \in Procs, MakeClient(p)
    PROVE  StartIInv'
<1> DEFINE o == Effective(p)
           f == IF o.enabled THEN FrequencyOf(o) ELSE DefaultFrequency
<1>1. StartTypeOK /\ stage[p] = "scripts"
  BY DEF StartIInv, MakeClient
<1>2. file[p] \in Configs
  BY <1>1 DEF StartIInv, StartOK, LoadedOK, Busy
<1>3. EngineOf(o) \in {"mock", "openai"} /\ f \in Nat \ {0}
  BY <1>2, OverriddenFields, TableTypes, StartupAssumption DEF Effective
<1>4. /\ client' = [client EXCEPT ![p].engine = EngineOf(o), ![p].frequency = f]
      /\ stage' = [stage EXCEPT ![p] = "ready"]
      /\ UNCHANGED <<environment, holder, file, todo, cause>>
  BY DEF MakeClient, Enter, Effective
<1>5. o' = o
  BY <1>4, SameEnvironment
<1> HIDE DEF o, f
<1>6. StartTypeOK'
  BY ZenonT(60), <1>1, <1>3, <1>4 DEF StartTypeOK, Clients
<1>7. OnlyMoves(p)
  BY <1>1, <1>4 DEF StartTypeOK, OnlyMoves
<1>8. /\ stage'[p] = "ready"
      /\ client'[p].store = client[p].store
      /\ client'[p].place = client[p].place
      /\ client'[p].engine = EngineOf(o)
      /\ client'[p].frequency = f
  BY <1>1, <1>4 DEF StartTypeOK, Clients
<1>9. ClientOK(p)'
  BY <1>5, <1>8 DEF ClientOK, o, f
<1> QED
  BY <1>1, <1>4, <1>6, <1>7, <1>8, <1>9, GoOnStep DEF Busy

\* ... and the end of a process.
LEMMA ExitStep ==
    ASSUME StartIInv, NEW p \in Procs, Exit(p)
    PROVE  StartIInv'
<1>1. StartTypeOK
  BY DEF StartIInv
<1>2. StartTypeOK'
  BY <1>1, StartupAssumption
  DEF Exit, StartTypeOK, Enter, NoClient, Clients, Places, Values, Causes
<1>3. OnlyMoves(p) /\ stage'[p] = "idle" /\ cause'[p] = "none"
  BY <1>1 DEF Exit, StartTypeOK, Enter, OnlyMoves
<1>4. StartOK(p)'
  BY <1>3 DEF StartOK, LoadedOK, StoreOK, ClientOK, CauseOK, Busy
<1> QED
  BY <1>2, <1>3, <1>4, OthersKept

-----------------------------------------------------------------------------
\* A process that initializes the BoltDB file has a configuration of BoltDB.
InitializesBolt ==
    \A p \in Procs :
        stage[p] = "initialize" => StoreOf(Effective(p)) = "bolt"

\* A process that initializes the file has a configuration for it.
LEMMA StillBolt ==
    ASSUME StartIInv, InitializesBolt, [StartNext]_startVars
    PROVE  InitializesBolt'
<1> SUFFICES ASSUME NEW q \in Procs, stage'[q] = "initialize"
             PROVE  StoreOf(Effective(q))' = "bolt"
  BY DEF InitializesBolt
<1>1. StartTypeOK
  BY DEF StartIInv
<1>2. environment' = environment
  BY DEF StartNext, startVars, Continue, LoadConfig, OpenStore, OpenFile, OpenFileFails,
         InitializeFile, LoadDir, MakeClient, Exit
<1>3. ASSUME stage[q] = "initialize", file'[q] = file[q]
      PROVE  StoreOf(Effective(q))' = "bolt"
  BY <1>2, <1>3, SameEnvironment DEF InitializesBolt
<1>4. ASSUME NEW p \in Procs, OpenFile(p)
      PROVE  StoreOf(Effective(q))' = "bolt"
  <2>1. CASE stage[q] = "initialize"
    BY <1>3, <1>4, <2>1 DEF OpenFile
  <2>2. CASE stage[q] # "initialize"
    <3>1. q = p
      BY <1>1, <1>4, <2>2 DEF OpenFile, StartTypeOK, Enter
    <3> QED
      BY <1>2, <1>4, <3>1, SameEnvironment DEF OpenFile, OpensFile, Effective
  <2> QED
    BY <2>1, <2>2
<1>5. ASSUME NEW p \in Procs, NEW c \in Files[p], LoadConfig(p, c)
      PROVE  stage[q] = "initialize" /\ file'[q] = file[q]
  <2>1. q # p
    BY <1>1, <1>5 DEF LoadConfig, StartTypeOK, Enter, RefuseCall
  <2> QED
    BY <1>1, <1>5, <2>1 DEF LoadConfig, StartTypeOK, Enter, RefuseCall
<1>6. ASSUME NEW p \in Procs,
             \/ OpenStore(p) \/ OpenFileFails(p) \/ InitializeFile(p)
             \/ LoadDir(p) \/ MakeClient(p)
      PROVE  stage[q] = "initialize" /\ file'[q] = file[q]
  BY <1>1, <1>6 DEF OpenStore, OpenFileFails, InitializeFile, LoadDir, MakeClient, StoreReady,
                    RefuseCall, Enter, StartTypeOK
<1>7. ASSUME NEW p \in Procs, Exit(p)
      PROVE  stage[q] = "initialize" /\ file'[q] = file[q]
  BY <1>1, <1>7 DEF Exit, Enter, StartTypeOK
<1>8. CASE UNCHANGED startVars
  BY <1>3, <1>8 DEF startVars
<1> QED
  BY <1>3, <1>4, <1>5, <1>6, <1>7, <1>8 DEF StartNext, Continue

\* The inductive step: one step per action.
LEMMA StartStep ==
    ASSUME StartIInv, InitializesBolt, [StartNext]_startVars
    PROVE  StartIInv'
<1>1. CASE UNCHANGED startVars
  <2>1. StartTypeOK'
    BY <1>1 DEF startVars, StartIInv, StartTypeOK
  <2>2. ASSUME NEW q \in Procs
        PROVE  StartOK(q)'
    <3>1. /\ Effective(q)' = Effective(q)
          /\ PlaceOf(Effective(q))' = PlaceOf(Effective(q))
      BY <1>1, SameEnvironment DEF startVars
    <3>2. StartOK(q)
      BY DEF StartIInv
    <3> QED
      BY <1>1, <3>1, <3>2
      DEF startVars, StartOK, LoadedOK, StoreOK, ClientOK, CauseOK
  <2> QED
    BY <2>1, <2>2 DEF StartIInv
<1>2. ASSUME NEW p \in Procs, InitializeFile(p)
      PROVE  StartIInv'
  <2>1. stage[p] = "initialize"
    BY <1>2 DEF InitializeFile
  <2> QED
    BY <1>2, <2>1, InitializeFileStep DEF InitializesBolt
<1> QED
  BY <1>1, <1>2, LoadConfigStep, OpenStoreStep, OpenFileStep, OpenFileFailsStep,
     LoadDirStep, MakeClientStep, ExitStep DEF StartNext, Continue

\* The invariant holds before the first start.
LEMMA StartInitInv == StartInit => StartIInv /\ InitializesBolt
BY StartupAssumption
DEF StartInit, StartIInv, InitializesBolt, StartTypeOK, StartOK, LoadedOK, StoreOK, ClientOK,
    CauseOK, Busy, NoClient, Clients, Places, Values, Causes

\* For any files, environments and processes, every client has the store and the
\* reasoning engine that its file names and a database where the file or the
\* environment says, OpenAI's without a key and Anthropic's being the mock, BoltDB
\* being at its default path and chromem-go in memory; it has the file's
\* frequency, or the default if that is none or reflection is switched off; and a
\* valid file is refused as unsupported or without a place only for redis, other
\* SQL drivers, and a placeholder whose variable is not set.
THEOREM ConfiguredIsServed == StartSpec => []ServedAsConfigured
<1>1. StartIInv /\ InitializesBolt /\ [StartNext]_startVars
        => (StartIInv /\ InitializesBolt)'
  BY StartStep, StillBolt
<1> QED
  BY <1>1, StartInitInv, Served, PTL DEF StartSpec

\* The frequency of a client is one to divide by.
FrequencyProvided ==
    \A p \in Procs : stage[p] = "ready" => client[p].frequency \in Nat \ {0}

\* What CogMemClientAssumption asks of a client's frequency, so that Process
\* does not divide by zero, is what every start provides.
THEOREM FrequencyIsProvided == StartSpec => []FrequencyProvided
<1>1. StartIInv => FrequencyProvided
  BY DEF StartIInv, StartTypeOK, Clients, FrequencyProvided
<1>2. StartIInv /\ InitializesBolt /\ [StartNext]_startVars
        => (StartIInv /\ InitializesBolt)'
  BY StartStep, StillBolt
<1> QED
  BY <1>1, <1>2, StartInitInv, PTL DEF StartSpec
=============================================================================
