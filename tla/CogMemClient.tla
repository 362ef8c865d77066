---------------------------- MODULE CogMemClient ----------------------------
(***************************************************************************)
(* CogMemClientImpl.Process of pkg/cogmem/cogmem.go, the facade through    *)
(* which an application stores, retrieves and asks, and its trigger for    *)
(* reflection.  One client serves every entity; it keeps an operation      *)
(* counter and the history of the last operations, neither behind a lock,  *)
(* so that an increment or an append is a read and a later write.  The     *)
(* words of a slice header are written one by one: with several calls at   *)
(* once the history may be torn in more ways than the lost updates here,   *)
(* so that what is claimed for that case is only about the counter.        *)
(* An application may run one Process call at a time, as the command line  *)
(* client does, or several: inFlight says how many.                        *)
(*                                                                         *)
(* The memory manager and the reasoning engine are reduced to what Process *)
(* observes of them, success or an error; the reflection module leaves no  *)
(* trace in the client.                                                    *)
(***************************************************************************)
EXTENDS Naturals, Sequences, FiniteSets, SequencesExt

CONSTANTS
    Callers,        \* the application's goroutines
    Entities,       \* the entities of the contexts they pass
    Nobody,         \* the entity of no operation
    Frequency,      \* Config.ReflectionFrequency
    Enabled,        \* Config.EnableReflection, with a reflection module
    HistoryLimit,   \* operations kept in operationHistory, 10 in the code
    MaxInFlight,    \* bound on the calls of Process at the same time
    MaxRequests     \* bound on the calls made in a behaviour, by inFlight

ASSUME CogMemClientAssumption ==
    /\ IsFiniteSet(Callers)
    /\ Nobody \notin Entities
    /\ Frequency \in Nat \ {0}      \* load.go replaces 0 by 10
    /\ Enabled \in BOOLEAN
    /\ HistoryLimit \in Nat \ {0}
    /\ MaxInFlight \in Nat \ {0}
    /\ MaxRequests \in [1..MaxInFlight -> Nat]

VARIABLES
    inFlight,           \* calls of Process that the application runs at once
    opCount,            \* CogMemClientImpl.opCount
    operationHistory,   \* CogMemClientImpl.operationHistory
    pc,                 \* where each caller is in Process
    op,                 \* the operation each caller processes
    readCount,          \* what each caller has read of opCount
    readHistory,        \* what each caller has read of operationHistory
    accepted,           \* number of calls with an entity context
    succeeded,          \* the operations that were successful, in order
    reflections         \* the calls of reflect that went through, in order

vars == <<inFlight, opCount, operationHistory, pc, op, readCount, readHistory,
          accepted, succeeded, reflections>>

Bound == MaxRequests[inFlight]

\* An operation is known by its number and the entity it is made for.
Operations == [num : 1..Bound, entity : Entities]
NoOp       == [num |-> 0, entity |-> Nobody]

\* reflect is called at count, for the operation of, with the history content
\* that is stored in the memory of entity unless EncodeToLTM fails.
Reflections == [entity : Entities, num : 1..Bound, count : 0..Bound,
                content : Seq(Operations), stored : BOOLEAN]

TypeOK ==
    /\ inFlight \in 1..MaxInFlight
    /\ opCount \in 0..Bound
    /\ operationHistory \in Seq(Operations)
    /\ pc \in [Callers -> {"idle", "count", "handle", "append", "trim",
                           "check", "reflect"}]
    /\ op \in [Callers -> Operations \cup {NoOp}]
    /\ readCount \in [Callers -> 0..Bound]
    /\ readHistory \in [Callers -> Seq(Operations)]
    /\ accepted \in 0..Bound
    /\ succeeded \in Seq(Operations)
    /\ reflections \in Seq(Reflections)

Init ==
    /\ inFlight \in 1..MaxInFlight
    /\ opCount = 0
    /\ operationHistory = <<>>
    /\ pc = [c \in Callers |-> "idle"]
    /\ op = [c \in Callers |-> NoOp]
    /\ readCount = [c \in Callers |-> 0]
    /\ readHistory = [c \in Callers |-> <<>>]
    /\ accepted = 0
    /\ succeeded = <<>>
    /\ reflections = <<>>

-----------------------------------------------------------------------------
InFlight == {c \in Callers : pc[c] # "idle"}
Quiet    == InFlight = {}

GoTo(c, place) == pc' = [pc EXCEPT ![c] = place]

\* Process returns, with a response or an error.
Return(c) == GoTo(c, "idle") /\ op' = [op EXCEPT ![c] = NoOp]

\* GetEntityContext finds none: nothing is counted.
Refuse(c) ==
    /\ pc[c] = "idle"
    /\ Cardinality(InFlight) < inFlight
    /\ UNCHANGED vars

\* Process is called for entity e; c.opCount++ reads the counter ...
Begin(c, e) ==
    /\ pc[c] = "idle"
    /\ Cardinality(InFlight) < inFlight
    /\ accepted < Bound
    /\ accepted' = accepted + 1
    /\ op' = [op EXCEPT ![c] = [num |-> accepted + 1, entity |-> e]]
    /\ readCount' = [readCount EXCEPT ![c] = opCount]
    /\ GoTo(c, "count")
    /\ UNCHANGED <<opCount, operationHistory, readHistory, succeeded,
                   reflections>>

\* Mutant: the operation is counted when it begins and when it ends.
CountTwice(c) ==
    /\ pc[c] = "count"
    /\ opCount' = readCount[c] + 2
    /\ GoTo(c, "handle")
    /\ UNCHANGED <<operationHistory, op, readCount, readHistory, accepted,
                   succeeded, reflections>>

\* ... and writes it.
Count(c) ==
    /\ pc[c] = "count"
    /\ opCount' = readCount[c] + 1
    /\ readCount' = [readCount EXCEPT ![c] = 0]
    /\ GoTo(c, "handle")
    /\ UNCHANGED <<operationHistory, op, readHistory, accepted,
                   succeeded, reflections>>

\* Mutant: a failed operation goes on to the check for reflection.
HandleFailsAndChecks(c) ==
    /\ pc[c] = "handle"
    /\ GoTo(c, "check")
    /\ UNCHANGED <<opCount, operationHistory, op, readCount, readHistory,
                   accepted, succeeded, reflections>>

\* The handler fails, or the input type is not supported.
HandleFails(c) ==
    /\ pc[c] = "handle"
    /\ Return(c)
    /\ UNCHANGED <<opCount, operationHistory, readCount, readHistory,
                   accepted, succeeded, reflections>>

\* handleStore, handleRetrieve or handleQuery succeeds; recordOperation reads
\* the history it will append to.
HandleSucceeds(c) ==
    /\ pc[c] = "handle"
    /\ succeeded' = Append(succeeded, op[c])
    /\ readHistory' = [readHistory EXCEPT ![c] = operationHistory]
    /\ GoTo(c, "append")
    /\ UNCHANGED <<opCount, operationHistory, op, readCount, accepted,
                   reflections>>

AppendOperation(c) ==
    /\ pc[c] = "append"
    /\ operationHistory' = Append(readHistory[c], op[c])
    /\ readHistory' = [readHistory EXCEPT ![c] = <<>>]
    /\ GoTo(c, "trim")
    /\ UNCHANGED <<opCount, op, readCount, accepted, succeeded,
                   reflections>>

\* Mutant: the newest operation is dropped instead of the oldest.
TrimNewest(c) ==
    /\ pc[c] = "trim"
    /\ operationHistory' = IF Len(operationHistory) > HistoryLimit
                             THEN Front(operationHistory)
                             ELSE operationHistory
    /\ GoTo(c, "check")
    /\ UNCHANGED <<opCount, op, readCount, readHistory, accepted, succeeded,
                   reflections>>

\* Mutant: the history is cut one operation too early.
TrimEarly(c) ==
    /\ pc[c] = "trim"
    /\ operationHistory' = IF Len(operationHistory) >= HistoryLimit
                             THEN Tail(operationHistory)
                             ELSE operationHistory
    /\ GoTo(c, "check")
    /\ UNCHANGED <<opCount, op, readCount, readHistory, accepted, succeeded,
                   reflections>>

\* recordOperation keeps the last HistoryLimit operations.
Trim(c) ==
    /\ pc[c] = "trim"
    /\ operationHistory' = IF Len(operationHistory) > HistoryLimit
                             THEN Tail(operationHistory)
                             ELSE operationHistory
    /\ GoTo(c, "check")
    /\ UNCHANGED <<opCount, op, readCount, readHistory, accepted, succeeded,
                   reflections>>

\* Mutant: the operations in the history are counted.
ShouldReflectOnHistory ==
    Enabled /\ Len(operationHistory) % Frequency = 0

ShouldReflect == Enabled /\ opCount > 0 /\ opCount % Frequency = 0

SkipReflection(c) ==
    /\ pc[c] = "check"
    /\ ~ShouldReflect
    /\ Return(c)
    /\ UNCHANGED <<opCount, operationHistory, readCount, readHistory,
                   accepted, succeeded, reflections>>

StartReflection(c) ==
    /\ pc[c] = "check"
    /\ ShouldReflect
    /\ GoTo(c, "reflect")
    /\ UNCHANGED <<opCount, operationHistory, op, readCount, readHistory,
                   accepted, succeeded, reflections>>

\* reflect stores the history in the memory of the entity at hand, whatever
\* EncodeToLTM answers, and calls TriggerReflection, whose errors it logs.
Reflect(c) ==
    /\ pc[c] = "reflect"
    /\ \E stored \in BOOLEAN :
          reflections' = IF operationHistory = <<>>
                           THEN reflections
                           ELSE Append(reflections,
                                  [entity |-> op[c].entity, num |-> op[c].num,
                                   count |-> opCount,
                                   content |-> operationHistory,
                                   stored |-> stored])
    /\ Return(c)
    /\ UNCHANGED <<opCount, operationHistory, readCount, readHistory,
                   accepted, succeeded>>

Process(c) ==
    \/ Refuse(c)
    \/ \E e \in Entities : Begin(c, e)
    \/ Count(c) \/ HandleFails(c) \/ HandleSucceeds(c)
    \/ AppendOperation(c) \/ Trim(c)
    \/ SkipReflection(c) \/ StartReflection(c) \/ Reflect(c)

Next == UNCHANGED inFlight /\ \E c \in Callers : Process(c)

Spec == Init /\ [][Next]_vars

-----------------------------------------------------------------------------
(* Correctness of a client that is used by one goroutine at a time.        *)

Sequential == inFlight = 1

LastOf(n, s) == IF Len(s) <= n THEN s ELSE SubSeq(s, Len(s) - n + 1, Len(s))

\* Between two calls the counter is the number of calls with an entity context,
\* those that failed included, and the history is the last HistoryLimit
\* operations that were successful, oldest first.
CountAndHistoryExact ==
    Sequential /\ Quiet =>
        /\ opCount = accepted
        /\ operationHistory = LastOf(HistoryLimit, succeeded)

\* Between two calls a reflection has taken place for each call whose number is
\* a multiple of the frequency and that was successful, and for no other, in the
\* order of the calls: a failed call at the multiple is not made up for, and a
\* success never reflects twice.
ReflectsOnSchedule ==
    Sequential /\ Enabled /\ Quiet =>
        /\ {r.num : r \in ToSet(reflections)}
             = {n \in {o.num : o \in ToSet(succeeded)} : n % Frequency = 0}
        /\ \A i, j \in DOMAIN reflections :
              i < j => reflections[i].num < reflections[j].num

\* What is stored about an operation's entity ends with that operation: the
\* reflection sees the operation that caused it.
ReflectsOnOwnOperation ==
    Sequential =>
        \A i \in DOMAIN reflections :
            LET r == reflections[i]
            IN  Last(r.content) = [num |-> r.num, entity |-> r.entity]

-----------------------------------------------------------------------------
(* Correctness however many goroutines use it.                             *)

\* Even with a counter that has lost updates a call reflects at most once, and
\* only if it was successful.
ReflectionsAreOwed ==
    LET nums == [i \in DOMAIN reflections |-> reflections[i].num]
    IN  /\ IsInjective(nums)
        /\ ToSet(nums) \subseteq {o.num : o \in ToSet(succeeded)}

-----------------------------------------------------------------------------
(* What the repository says of the client and the code does not do.        *)

\* pkg/entity/entity.go:12, "Each entity has its own isolated memory space":
\* what is stored for an entity is about its own operations only.
HistoryIsolated ==
    \A i \in DOMAIN reflections :
        reflections[i].stored =>
            \A j \in DOMAIN reflections[i].content :
                reflections[i].content[j].entity = reflections[i].entity
=============================================================================
