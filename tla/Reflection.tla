----------------------------- MODULE Reflection -----------------------------
(***************************************************************************)
(* The reflection module, pkg/reflection, on top of the MMU: a reflection   *)
(* retrieves memories through RetrieveFromLTM, with its hooks and next to   *)
(* the other goroutines' operations, has the reasoning engine analyse them  *)
(* and consolidates the insights, which the MMU does nothing for yet.       *)
(*                                                                          *)
(* None of the module's own hooks is ever run: records and insights are     *)
(* not among the arguments the Lua engine converts.  The insights of an     *)
(* answer are reduced to whether there are any.                             *)
(***************************************************************************)
EXTENDS Mmu

CONSTANT MaxMemoriesToAnalyze

VARIABLE
    reflection      \* the reflection of each goroutine

rvars == <<vars, reflection>>

Reflections == [ctx : Callers, at : {"retrieve", "analyze", "consolidate"},
                rows : Seq(Ids)]

ASSUME ReflectionAssumption ==
    /\ MaxMemoriesToAnalyze \in Nat \ {0}
    /\ None \notin Reflections

ReflectionTypeOK ==
    /\ TypeOK
    /\ reflection \in [Procs -> Reflections \cup {None}]

ReflectionInit ==
    /\ Init
    /\ reflection = [p \in Procs |-> None]

Reflecting(p, step) == reflection[p] # None /\ reflection[p].at = step

\* TriggerReflection returns insights, none, or an error.
EndReflection(p) == reflection' = [reflection EXCEPT ![p] = None]

\* retrieveMemoriesForAnalysis: everything, up to the maximum.
MemoriesQuery == [id |-> None, text |-> Contents, filter |-> Metas,
                  limit |-> MaxMemoriesToAnalyze]

TriggerReflection(p, ctx) ==
    /\ reflection[p] = None
    /\ Retrieve(p, ctx, MemoriesQuery, "keyword", None)
    /\ reflection' = [reflection EXCEPT ![p] =
          [ctx |-> ctx, at |-> "retrieve", rows |-> <<>>]]

\* RetrieveFromLTM returns; without memories the reflection ends.
Retrieved(p) ==
    /\ Reflecting(p, "retrieve")
    /\ RetrieveEnds(p)
    /\ IF op[p].rows = <<>>
       THEN EndReflection(p)
       ELSE reflection' = [reflection EXCEPT ![p].at = "analyze",
                                             ![p].rows = op[p].rows]

RetrievalFails(p) ==
    /\ Reflecting(p, "retrieve")
    /\ SearchFails(p)
    /\ EndReflection(p)

\* If the engine fails, if its answer cannot be parsed, or if it has no
\* insights, the reflection ends.
Analyze(p) ==
    /\ Reflecting(p, "analyze")
    /\ \/ EndReflection(p)
       \/ reflection' = [reflection EXCEPT ![p].at = "consolidate"]
    /\ UNCHANGED vars

\* ConsolidateLTM of each insight, which stores nothing.
Consolidate(p) ==
    /\ Reflecting(p, "consolidate")
    /\ EndReflection(p)
    /\ UNCHANGED vars

ReflectionStep(p) ==
    \/ Retrieved(p)
    \/ RetrievalFails(p)
    \/ Analyze(p)
    \/ Consolidate(p)

\* The steps of the MMU in which a reflection only waits.
WaitingStep(p) ==
    /\ Reflecting(p, "retrieve")
    /\ BeforeRetrieve(p) \/ Search(p)
    /\ UNCHANGED reflection

\* The steps of a goroutine that uses the MMU by itself.
DirectStep(p) ==
    /\ reflection[p] = None
    /\ Call(p) \/ Continue(p)
    /\ UNCHANGED reflection

ReflectionNext ==
    \E p \in Procs :
        \/ \E ctx \in Callers : TriggerReflection(p, ctx)
        \/ ReflectionStep(p)
        \/ WaitingStep(p)
        \/ DirectStep(p)

ReflectionSpec == ReflectionInit /\ [][ReflectionNext]_rvars
=============================================================================
