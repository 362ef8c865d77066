-------------------------- MODULE LuaEngine_proofs --------------------------
(***************************************************************************)
(* Theorems about LuaEngine for every set of calls and loads.              *)
(*                                                                         *)
(* The mutual exclusion of the engine's mutex is not inductive: a Go mutex *)
(* has no owner, so that an Unlock is right only because of where the      *)
(* three goroutines of a call are.  CallInv says where they can be         *)
(* together, MutexInv that the mutex is locked exactly while one of them   *)
(* owns it.                                                                *)
(***************************************************************************)
EXTENDS LuaEngine, TLAPS

Waited(c) ==
    /\ script[c] # "none"
    /\ cleanup[c] = "none"
    /\ execMutex[c] <=> script[c] \in {"running", "delivered"}

\* The three goroutines of a call, by the place of its own.
CallInv ==
    \A c \in Calls :
        /\ pc[c] \in {"idle", "waiting", "inState"} =>
              /\ script[c] = "none"
              /\ cleanup[c] = "none"
              /\ outcome[c] = "pending"
        /\ pc[c] = "select" => Waited(c) /\ outcome[c] = "pending"
        /\ pc[c] = "aborting" => Waited(c) /\ outcome[c] \in AbortOutcomes
        /\ pc[c] = "returned" =>
              \/ /\ outcome[c] \in {"notFound", "badArg"}
                 /\ script[c] = "none"
                 /\ cleanup[c] = "none"
              \/ /\ outcome[c] \in {"ok", "error"}
                 /\ script[c] = "done"
                 /\ cleanup[c] = "none"
              \/ /\ outcome[c] \in AbortOutcomes
                 /\ script[c] \in {"running", "delivered"}
                 /\ ~execMutex[c]
                 /\ cleanup[c] \in {"sleeping", "done"}

\* The mutex is locked exactly while somebody owns it, and nobody shares it.
MutexInv ==
    /\ \A p, q \in Holders : p = q
    /\ mutex <=> \E p \in Callers : p \in Holders

\* Without a call that gave up nothing is raced and answers are their own.
AnswerInv ==
    Abandoned = {} =>
        /\ raced = {}
        /\ \A c \in Calls :
              /\ script[c] \in {"delivered", "released", "unlocked", "done"}
                    => answer[c] \in {c, "failed"}
              /\ outcome[c] = "ok" => answer[c] = c

\* A load that has not returned has no outcome; one that reads its file has
\* not found it in loadedFiles, one that has read it has entered it there.
FileInv ==
    \A l \in Loads :
        /\ pc[l] # "returned" => outcome[l] = "pending"
        /\ outcome[l] = "loaded" => ScriptOf[l] \in loadedFiles
        /\ l \in FileLoads /\ pc[l] = "inState"
              => ScriptOf[l] \notin loadedFiles

IInv ==
    /\ TypeOK
    /\ CallInv
    /\ MutexInv
    /\ CrashOnlyAfterAbandonment
    /\ ScriptSeesOwnContext
    /\ AnswerInv
    /\ FileInv
    /\ FileLoadedOnce
\* Every step keeps the types.
LEMMA TypeStep ==
  ASSUME TypeOK, [Next]_vars
  PROVE  TypeOK'
<1> USE LuaEngineAssumption DEF Callers, AbortOutcomes, LoadOutcomes, Answers, Outcomes, TypeOK
<1>1. ASSUME NEW p \in Callers, Request(p)
      PROVE  TypeOK'
  BY <1>1 DEF Request, engine, perCall
<1>2. ASSUME NEW l \in Loads, LockLoad(l)
      PROVE  TypeOK'
  BY <1>2 DEF LockLoad, Touch, InState, perCall, AlreadyLoaded
<1>3. ASSUME NEW l \in Loads, SkipLoad(l)
      PROVE  TypeOK'
  BY <1>3 DEF SkipLoad, Return, engine, perCall, AlreadyLoaded
<1>4. ASSUME NEW l \in Loads, LoadSucceeds(l)
      PROVE  TypeOK'
  BY ZenonT(60), <1>4 DEF LoadSucceeds, Return, perCall
<1>5. ASSUME NEW l \in Loads, LoadFails(l)
      PROVE  TypeOK'
  BY <1>5 DEF LoadFails, Return, perCall
<1>6. ASSUME NEW c \in Calls, LockCall(c)
      PROVE  TypeOK'
  BY <1>6 DEF LockCall, Touch, InState, perCall
<1>7. ASSUME NEW c \in Calls, FunctionNotFound(c)
      PROVE  TypeOK'
  BY <1>7 DEF FunctionNotFound, Return, perCall
<1>8. ASSUME NEW c \in Calls, InvalidArgument(c)
      PROVE  TypeOK'
  BY <1>8 DEF InvalidArgument, Return, perCall
<1>9. ASSUME NEW c \in Calls, StartScript(c)
      PROVE  TypeOK'
  BY <1>9 DEF StartScript
<1>10. ASSUME NEW c \in Calls, ReceiveDone(c)
      PROVE  TypeOK'
  BY <1>10 DEF ReceiveDone, Return, engine, perCall
<1>11. ASSUME NEW c \in Calls, NEW why \in AbortOutcomes, GiveUp(c, why)
      PROVE  TypeOK'
  BY <1>11 DEF GiveUp, engine, perCall
<1>12. ASSUME NEW c \in Calls, Abort(c)
      PROVE  TypeOK'
  BY <1>12 DEF Abort, engine
<1>13. ASSUME NEW c \in Calls, AbortFatal(c)
      PROVE  TypeOK'
  BY <1>13 DEF AbortFatal, Fatal, engine, perCall
<1>14. ASSUME NEW c \in Calls, ScriptReturns(c)
      PROVE  TypeOK'
  BY <1>14 DEF ScriptReturns, Yields, engine
<1>15. ASSUME NEW c \in Calls, UnlockExec(c)
      PROVE  TypeOK'
  BY <1>15 DEF UnlockExec, engine
<1>16. ASSUME NEW c \in Calls, UnlockExecFatal(c)
      PROVE  TypeOK'
  BY <1>16 DEF UnlockExecFatal, Fatal, engine, perCall
<1>17. ASSUME NEW c \in Calls, UnlockMain(c)
      PROVE  TypeOK'
  BY <1>17 DEF UnlockMain
<1>18. ASSUME NEW c \in Calls, CloseDone(c)
      PROVE  TypeOK'
  BY <1>18 DEF CloseDone, engine
<1>19. ASSUME NEW c \in Calls, CleanupUnlock(c)
      PROVE  TypeOK'
  BY <1>19 DEF CleanupUnlock
<1>20. CASE Close
  BY <1>20 DEF Close, perCall, InState
<1>21. CASE DataRace
  BY <1>21 DEF DataRace, Fatal, engine, perCall
<1>22. CASE UNCHANGED vars
  BY <1>22 DEF vars
<1>23. QED
  BY <1>1, <1>2, <1>3, <1>4, <1>5, <1>6, <1>7, <1>8, <1>9, <1>10, <1>11, <1>12, <1>13, <1>14, <1>15, <1>16, <1>17, <1>18, <1>19, <1>20, <1>21, <1>22
     DEF Next, Step, LoadStep, CallStep, DeferredStep, Finished, Dead

\* Every step keeps the three goroutines of each call in step.
LEMMA CallStepInv ==
  ASSUME TypeOK, CallInv, [Next]_vars
  PROVE  CallInv'
<1> USE LuaEngineAssumption DEF Callers, AbortOutcomes, LoadOutcomes, Answers, Outcomes, TypeOK, CallInv, Waited
<1>1. ASSUME NEW p \in Callers, Request(p)
      PROVE  CallInv'
  BY <1>1 DEF Request, engine, perCall
<1>2. ASSUME NEW l \in Loads, LockLoad(l)
      PROVE  CallInv'
  BY <1>2 DEF LockLoad, Touch, InState, perCall, AlreadyLoaded
<1>3. ASSUME NEW l \in Loads, SkipLoad(l)
      PROVE  CallInv'
  BY <1>3 DEF SkipLoad, Return, engine, perCall, AlreadyLoaded
<1>4. ASSUME NEW l \in Loads, LoadSucceeds(l)
      PROVE  CallInv'
  BY <1>4 DEF LoadSucceeds, Return, perCall
<1>5. ASSUME NEW l \in Loads, LoadFails(l)
      PROVE  CallInv'
  BY <1>5 DEF LoadFails, Return, perCall
<1>6. ASSUME NEW c \in Calls, LockCall(c)
      PROVE  CallInv'
  BY <1>6 DEF LockCall, Touch, InState, perCall
<1>7. ASSUME NEW c \in Calls, FunctionNotFound(c)
      PROVE  CallInv'
  BY <1>7 DEF FunctionNotFound, Return, perCall
<1>8. ASSUME NEW c \in Calls, InvalidArgument(c)
      PROVE  CallInv'
  BY <1>8 DEF InvalidArgument, Return, perCall
<1>9. ASSUME NEW c \in Calls, StartScript(c)
      PROVE  CallInv'
  BY <1>9 DEF StartScript
<1>10. ASSUME NEW c \in Calls, ReceiveDone(c)
      PROVE  CallInv'
  BY <1>10 DEF ReceiveDone, Return, engine, perCall
<1>11. ASSUME NEW c \in Calls, NEW why \in AbortOutcomes, GiveUp(c, why)
      PROVE  CallInv'
  BY <1>11 DEF GiveUp, engine, perCall
<1>12. ASSUME NEW c \in Calls, Abort(c)
      PROVE  CallInv'
  BY <1>12 DEF Abort, engine
<1>13. ASSUME NEW c \in Calls, AbortFatal(c)
      PROVE  CallInv'
  BY <1>13 DEF AbortFatal, Fatal, engine, perCall
<1>14. ASSUME NEW c \in Calls, ScriptReturns(c)
      PROVE  CallInv'
  BY <1>14 DEF ScriptReturns, Yields, engine
<1>15. ASSUME NEW c \in Calls, UnlockExec(c)
      PROVE  CallInv'
  BY <1>15 DEF UnlockExec, engine
<1>16. ASSUME NEW c \in Calls, UnlockExecFatal(c)
      PROVE  CallInv'
  BY <1>16 DEF UnlockExecFatal, Fatal, engine, perCall
<1>17. ASSUME NEW c \in Calls, UnlockMain(c)
      PROVE  CallInv'
  BY <1>17 DEF UnlockMain
<1>18. ASSUME NEW c \in Calls, CloseDone(c)
      PROVE  CallInv'
  BY <1>18 DEF CloseDone, engine
<1>19. ASSUME NEW c \in Calls, CleanupUnlock(c)
      PROVE  CallInv'
  BY <1>19 DEF CleanupUnlock
<1>20. CASE Close
  BY <1>20 DEF Close, perCall, InState
<1>21. CASE DataRace
  BY <1>21 DEF DataRace, Fatal, engine, perCall
<1>22. CASE UNCHANGED vars
  BY <1>22 DEF vars
<1>23. QED
  BY <1>1, <1>2, <1>3, <1>4, <1>5, <1>6, <1>7, <1>8, <1>9, <1>10, <1>11, <1>12, <1>13, <1>14, <1>15, <1>16, <1>17, <1>18, <1>19, <1>20, <1>21, <1>22
     DEF Next, Step, LoadStep, CallStep, DeferredStep, Finished, Dead

\* Every Lock takes a free mutex and every Unlock is done for its only owner.
LEMMA MutexStep ==
  ASSUME TypeOK, CallInv, MutexInv, [Next]_vars
  PROVE  MutexInv'
<1> USE LuaEngineAssumption DEF Callers, AbortOutcomes, LoadOutcomes, Answers, Outcomes, TypeOK, CallInv, Waited, MutexInv, Holders
<1>1. ASSUME NEW p \in Callers, Request(p)
      PROVE  MutexInv'
  BY <1>1 DEF Request, engine, perCall
<1>2. ASSUME NEW l \in Loads, LockLoad(l)
      PROVE  MutexInv'
  BY <1>2 DEF LockLoad, Touch, InState, perCall, AlreadyLoaded
<1>3. ASSUME NEW l \in Loads, SkipLoad(l)
      PROVE  MutexInv'
  BY <1>3 DEF SkipLoad, Return, engine, perCall, AlreadyLoaded
<1>4. ASSUME NEW l \in Loads, LoadSucceeds(l)
      PROVE  MutexInv'
  BY <1>4 DEF LoadSucceeds, Return, perCall
<1>5. ASSUME NEW l \in Loads, LoadFails(l)
      PROVE  MutexInv'
  BY <1>5 DEF LoadFails, Return, perCall
<1>6. ASSUME NEW c \in Calls, LockCall(c)
      PROVE  MutexInv'
  BY <1>6 DEF LockCall, Touch, InState, perCall
<1>7. ASSUME NEW c \in Calls, FunctionNotFound(c)
      PROVE  MutexInv'
  BY <1>7 DEF FunctionNotFound, Return, perCall
<1>8. ASSUME NEW c \in Calls, InvalidArgument(c)
      PROVE  MutexInv'
  BY <1>8 DEF InvalidArgument, Return, perCall
<1>9. ASSUME NEW c \in Calls, StartScript(c)
      PROVE  MutexInv'
  BY <1>9 DEF StartScript
<1>10. ASSUME NEW c \in Calls, ReceiveDone(c)
      PROVE  MutexInv'
  BY <1>10 DEF ReceiveDone, Return, engine, perCall
<1>11. ASSUME NEW c \in Calls, NEW why \in AbortOutcomes, GiveUp(c, why)
      PROVE  MutexInv'
  BY <1>11 DEF GiveUp, engine, perCall
<1>12. ASSUME NEW c \in Calls, Abort(c)
      PROVE  MutexInv'
  BY <1>12 DEF Abort, engine
<1>13. ASSUME NEW c \in Calls, AbortFatal(c)
      PROVE  MutexInv'
  BY <1>13 DEF AbortFatal, Fatal, engine, perCall
<1>14. ASSUME NEW c \in Calls, ScriptReturns(c)
      PROVE  MutexInv'
  BY <1>14 DEF ScriptReturns, Yields, engine
<1>15. ASSUME NEW c \in Calls, UnlockExec(c)
      PROVE  MutexInv'
  BY <1>15 DEF UnlockExec, engine
<1>16. ASSUME NEW c \in Calls, UnlockExecFatal(c)
      PROVE  MutexInv'
  BY <1>16 DEF UnlockExecFatal, Fatal, engine, perCall
<1>17. ASSUME NEW c \in Calls, UnlockMain(c)
      PROVE  MutexInv'
  BY <1>17 DEF UnlockMain
<1>18. ASSUME NEW c \in Calls, CloseDone(c)
      PROVE  MutexInv'
  BY <1>18 DEF CloseDone, engine
<1>19. ASSUME NEW c \in Calls, CleanupUnlock(c)
      PROVE  MutexInv'
  BY <1>19 DEF CleanupUnlock
<1>20. CASE Close
  BY <1>20 DEF Close, perCall, InState
<1>21. CASE DataRace
  BY <1>21 DEF DataRace, Fatal, engine, perCall
<1>22. CASE UNCHANGED vars
  BY <1>22 DEF vars
<1>23. QED
  BY <1>1, <1>2, <1>3, <1>4, <1>5, <1>6, <1>7, <1>8, <1>9, <1>10, <1>11, <1>12, <1>13, <1>14, <1>15, <1>16, <1>17, <1>18, <1>19, <1>20, <1>21, <1>22
     DEF Next, Step, LoadStep, CallStep, DeferredStep, Finished, Dead

\* Between the lookup and the entry of a file in loadedFiles nobody else enters
\* it: both are under the mutex.
LEMMA FileStep ==
  ASSUME TypeOK, CallInv, MutexInv, FileInv, [Next]_vars
  PROVE  FileInv'
<1> USE LuaEngineAssumption DEF Callers, AbortOutcomes, LoadOutcomes, Answers, Outcomes, TypeOK, CallInv, MutexInv, Holders, FileInv
<1>1. ASSUME NEW p \in Callers, Request(p)
      PROVE  FileInv'
  BY <1>1 DEF Request, engine, perCall
<1>2. ASSUME NEW l \in Loads, LockLoad(l)
      PROVE  FileInv'
  BY <1>2 DEF LockLoad, Touch, InState, perCall, AlreadyLoaded
<1>3. ASSUME NEW l \in Loads, SkipLoad(l)
      PROVE  FileInv'
  BY <1>3 DEF SkipLoad, Return, engine, perCall, AlreadyLoaded
<1>4. ASSUME NEW l \in Loads, LoadSucceeds(l)
      PROVE  FileInv'
  BY <1>4 DEF LoadSucceeds, Return, perCall
<1>5. ASSUME NEW l \in Loads, LoadFails(l)
      PROVE  FileInv'
  BY <1>5 DEF LoadFails, Return, perCall
<1>6. ASSUME NEW c \in Calls, LockCall(c)
      PROVE  FileInv'
  BY <1>6 DEF LockCall, Touch, InState, perCall
<1>7. ASSUME NEW c \in Calls, FunctionNotFound(c)
      PROVE  FileInv'
  BY <1>7 DEF FunctionNotFound, Return, perCall
<1>8. ASSUME NEW c \in Calls, InvalidArgument(c)
      PROVE  FileInv'
  BY <1>8 DEF InvalidArgument, Return, perCall
<1>9. ASSUME NEW c \in Calls, StartScript(c)
      PROVE  FileInv'
  BY <1>9 DEF StartScript
<1>10. ASSUME NEW c \in Calls, ReceiveDone(c)
      PROVE  FileInv'
  BY <1>10 DEF ReceiveDone, Return, engine, perCall
<1>11. ASSUME NEW c \in Calls, NEW why \in AbortOutcomes, GiveUp(c, why)
      PROVE  FileInv'
  BY <1>11 DEF GiveUp, engine, perCall
<1>12. ASSUME NEW c \in Calls, Abort(c)
      PROVE  FileInv'
  BY <1>12 DEF Abort, engine
<1>13. ASSUME NEW c \in Calls, AbortFatal(c)
      PROVE  FileInv'
  BY <1>13 DEF AbortFatal, Fatal, engine, perCall
<1>14. ASSUME NEW c \in Calls, ScriptReturns(c)
      PROVE  FileInv'
  BY <1>14 DEF ScriptReturns, Yields, engine
<1>15. ASSUME NEW c \in Calls, UnlockExec(c)
      PROVE  FileInv'
  BY <1>15 DEF UnlockExec, engine
<1>16. ASSUME NEW c \in Calls, UnlockExecFatal(c)
      PROVE  FileInv'
  BY <1>16 DEF UnlockExecFatal, Fatal, engine, perCall
<1>17. ASSUME NEW c \in Calls, UnlockMain(c)
      PROVE  FileInv'
  BY <1>17 DEF UnlockMain
<1>18. ASSUME NEW c \in Calls, CloseDone(c)
      PROVE  FileInv'
  BY <1>18 DEF CloseDone, engine
<1>19. ASSUME NEW c \in Calls, CleanupUnlock(c)
      PROVE  FileInv'
  BY <1>19 DEF CleanupUnlock
<1>20. CASE Close
  BY <1>20 DEF Close, perCall, InState
<1>21. CASE DataRace
  BY <1>21 DEF DataRace, Fatal, engine, perCall
<1>22. CASE UNCHANGED vars
  BY <1>22 DEF vars
<1>23. QED
  BY <1>1, <1>2, <1>3, <1>4, <1>5, <1>6, <1>7, <1>8, <1>9, <1>10, <1>11, <1>12, <1>13, <1>14, <1>15, <1>16, <1>17, <1>18, <1>19, <1>20, <1>21, <1>22
     DEF Next, Step, LoadStep, CallStep, DeferredStep, Finished, Dead

\* Of the steps that may be fatal, those of a waited-for call cannot be.
LEMMA CrashStep ==
  ASSUME TypeOK, CallInv, MutexInv, CrashOnlyAfterAbandonment, [Next]_vars
  PROVE  CrashOnlyAfterAbandonment'
<1> USE LuaEngineAssumption DEF Callers, AbortOutcomes, LoadOutcomes, Answers, Outcomes, TypeOK, CallInv, Waited, MutexInv, Holders, Abandoned, CrashOnlyAfterAbandonment, InState
<1>1. ASSUME NEW p \in Callers, Request(p)
      PROVE  CrashOnlyAfterAbandonment'
  BY <1>1 DEF Request, engine, perCall
<1>2. ASSUME NEW l \in Loads, LockLoad(l)
      PROVE  CrashOnlyAfterAbandonment'
  BY <1>2 DEF LockLoad, Touch, InState, perCall, AlreadyLoaded
<1>3. ASSUME NEW l \in Loads, SkipLoad(l)
      PROVE  CrashOnlyAfterAbandonment'
  BY <1>3 DEF SkipLoad, Return, engine, perCall, AlreadyLoaded
<1>4. ASSUME NEW l \in Loads, LoadSucceeds(l)
      PROVE  CrashOnlyAfterAbandonment'
  BY <1>4 DEF LoadSucceeds, Return, perCall
<1>5. ASSUME NEW l \in Loads, LoadFails(l)
      PROVE  CrashOnlyAfterAbandonment'
  BY <1>5 DEF LoadFails, Return, perCall
<1>6. ASSUME NEW c \in Calls, LockCall(c)
      PROVE  CrashOnlyAfterAbandonment'
  BY <1>6 DEF LockCall, Touch, InState, perCall
<1>7. ASSUME NEW c \in Calls, FunctionNotFound(c)
      PROVE  CrashOnlyAfterAbandonment'
  BY <1>7 DEF FunctionNotFound, Return, perCall
<1>8. ASSUME NEW c \in Calls, InvalidArgument(c)
      PROVE  CrashOnlyAfterAbandonment'
  BY <1>8 DEF InvalidArgument, Return, perCall
<1>9. ASSUME NEW c \in Calls, StartScript(c)
      PROVE  CrashOnlyAfterAbandonment'
  BY <1>9 DEF StartScript
<1>10. ASSUME NEW c \in Calls, ReceiveDone(c)
      PROVE  CrashOnlyAfterAbandonment'
  BY <1>10 DEF ReceiveDone, Return, engine, perCall
<1>11. ASSUME NEW c \in Calls, NEW why \in AbortOutcomes, GiveUp(c, why)
      PROVE  CrashOnlyAfterAbandonment'
  BY <1>11 DEF GiveUp, engine, perCall
<1>12. ASSUME NEW c \in Calls, Abort(c)
      PROVE  CrashOnlyAfterAbandonment'
  BY <1>12 DEF Abort, engine
<1>13. ASSUME NEW c \in Calls, AbortFatal(c)
      PROVE  CrashOnlyAfterAbandonment'
  BY <1>13 DEF AbortFatal, Fatal, engine, perCall
<1>14. ASSUME NEW c \in Calls, ScriptReturns(c)
      PROVE  CrashOnlyAfterAbandonment'
  BY <1>14 DEF ScriptReturns, Yields, engine
<1>15. ASSUME NEW c \in Calls, UnlockExec(c)
      PROVE  CrashOnlyAfterAbandonment'
  BY <1>15 DEF UnlockExec, engine
<1>16. ASSUME NEW c \in Calls, UnlockExecFatal(c)
      PROVE  CrashOnlyAfterAbandonment'
  BY <1>16 DEF UnlockExecFatal, Fatal, engine, perCall
<1>17. ASSUME NEW c \in Calls, UnlockMain(c)
      PROVE  CrashOnlyAfterAbandonment'
  BY <1>17 DEF UnlockMain
<1>18. ASSUME NEW c \in Calls, CloseDone(c)
      PROVE  CrashOnlyAfterAbandonment'
  BY <1>18 DEF CloseDone, engine
<1>19. ASSUME NEW c \in Calls, CleanupUnlock(c)
      PROVE  CrashOnlyAfterAbandonment'
  BY <1>19 DEF CleanupUnlock
<1>20. CASE Close
  BY <1>20 DEF Close, perCall, InState
<1>21. CASE DataRace
  BY <1>21 DEF DataRace, Fatal, engine, perCall
<1>22. CASE UNCHANGED vars
  BY <1>22 DEF vars
<1>23. QED
  BY <1>1, <1>2, <1>3, <1>4, <1>5, <1>6, <1>7, <1>8, <1>9, <1>10, <1>11, <1>12, <1>13, <1>14, <1>15, <1>16, <1>17, <1>18, <1>19, <1>20, <1>21, <1>22
     DEF Next, Step, LoadStep, CallStep, DeferredStep, Finished, Dead

\* Only the owner of the mutex pushes a context.
LEMMA ContextStep ==
  ASSUME TypeOK, CallInv, MutexInv, ScriptSeesOwnContext, [Next]_vars
  PROVE  ScriptSeesOwnContext'
<1> USE LuaEngineAssumption DEF Callers, AbortOutcomes, LoadOutcomes, Answers, Outcomes, TypeOK, CallInv, Waited, MutexInv, Holders, ScriptSeesOwnContext
<1>1. ASSUME NEW p \in Callers, Request(p)
      PROVE  ScriptSeesOwnContext'
  BY <1>1 DEF Request, engine, perCall
<1>2. ASSUME NEW l \in Loads, LockLoad(l)
      PROVE  ScriptSeesOwnContext'
  BY <1>2 DEF LockLoad, Touch, InState, perCall, AlreadyLoaded
<1>3. ASSUME NEW l \in Loads, SkipLoad(l)
      PROVE  ScriptSeesOwnContext'
  BY <1>3 DEF SkipLoad, Return, engine, perCall, AlreadyLoaded
<1>4. ASSUME NEW l \in Loads, LoadSucceeds(l)
      PROVE  ScriptSeesOwnContext'
  BY <1>4 DEF LoadSucceeds, Return, perCall
<1>5. ASSUME NEW l \in Loads, LoadFails(l)
      PROVE  ScriptSeesOwnContext'
  BY <1>5 DEF LoadFails, Return, perCall
<1>6. ASSUME NEW c \in Calls, LockCall(c)
      PROVE  ScriptSeesOwnContext'
  BY <1>6 DEF LockCall, Touch, InState, perCall
<1>7. ASSUME NEW c \in Calls, FunctionNotFound(c)
      PROVE  ScriptSeesOwnContext'
  BY <1>7 DEF FunctionNotFound, Return, perCall
<1>8. ASSUME NEW c \in Calls, InvalidArgument(c)
      PROVE  ScriptSeesOwnContext'
  BY <1>8 DEF InvalidArgument, Return, perCall
<1>9. ASSUME NEW c \in Calls, StartScript(c)
      PROVE  ScriptSeesOwnContext'
  BY <1>9 DEF StartScript
<1>10. ASSUME NEW c \in Calls, ReceiveDone(c)
      PROVE  ScriptSeesOwnContext'
  BY <1>10 DEF ReceiveDone, Return, engine, perCall
<1>11. ASSUME NEW c \in Calls, NEW why \in AbortOutcomes, GiveUp(c, why)
      PROVE  ScriptSeesOwnContext'
  BY <1>11 DEF GiveUp, engine, perCall
<1>12. ASSUME NEW c \in Calls, Abort(c)
      PROVE  ScriptSeesOwnContext'
  BY <1>12 DEF Abort, engine
<1>13. ASSUME NEW c \in Calls, AbortFatal(c)
      PROVE  ScriptSeesOwnContext'
  BY <1>13 DEF AbortFatal, Fatal, engine, perCall
<1>14. ASSUME NEW c \in Calls, ScriptReturns(c)
      PROVE  ScriptSeesOwnContext'
  BY <1>14 DEF ScriptReturns, Yields, engine
<1>15. ASSUME NEW c \in Calls, UnlockExec(c)
      PROVE  ScriptSeesOwnContext'
  BY <1>15 DEF UnlockExec, engine
<1>16. ASSUME NEW c \in Calls, UnlockExecFatal(c)
      PROVE  ScriptSeesOwnContext'
  BY <1>16 DEF UnlockExecFatal, Fatal, engine, perCall
<1>17. ASSUME NEW c \in Calls, UnlockMain(c)
      PROVE  ScriptSeesOwnContext'
  BY <1>17 DEF UnlockMain
<1>18. ASSUME NEW c \in Calls, CloseDone(c)
      PROVE  ScriptSeesOwnContext'
  BY <1>18 DEF CloseDone, engine
<1>19. ASSUME NEW c \in Calls, CleanupUnlock(c)
      PROVE  ScriptSeesOwnContext'
  BY <1>19 DEF CleanupUnlock
<1>20. CASE Close
  BY <1>20 DEF Close, perCall, InState
<1>21. CASE DataRace
  BY <1>21 DEF DataRace, Fatal, engine, perCall
<1>22. CASE UNCHANGED vars
  BY <1>22 DEF vars
<1>23. QED
  BY <1>1, <1>2, <1>3, <1>4, <1>5, <1>6, <1>7, <1>8, <1>9, <1>10, <1>11, <1>12, <1>13, <1>14, <1>15, <1>16, <1>17, <1>18, <1>19, <1>20, <1>21, <1>22
     DEF Next, Step, LoadStep, CallStep, DeferredStep, Finished, Dead

\* Without a call that gave up nothing enters a Lua state in use.
LEMMA AnswerStep ==
  ASSUME TypeOK, CallInv, MutexInv, AnswerInv, [Next]_vars
  PROVE  AnswerInv'
<1> USE LuaEngineAssumption DEF Callers, AbortOutcomes, LoadOutcomes, Answers, Outcomes, TypeOK, CallInv, Waited, MutexInv, Holders, Abandoned, AnswerInv, InState
<1>1. ASSUME NEW p \in Callers, Request(p)
      PROVE  AnswerInv'
  BY <1>1 DEF Request, engine, perCall
<1>2. ASSUME NEW l \in Loads, LockLoad(l)
      PROVE  AnswerInv'
  BY <1>2 DEF LockLoad, Touch, InState, perCall, AlreadyLoaded
<1>3. ASSUME NEW l \in Loads, SkipLoad(l)
      PROVE  AnswerInv'
  BY <1>3 DEF SkipLoad, Return, engine, perCall, AlreadyLoaded
<1>4. ASSUME NEW l \in Loads, LoadSucceeds(l)
      PROVE  AnswerInv'
  BY <1>4 DEF LoadSucceeds, Return, perCall
<1>5. ASSUME NEW l \in Loads, LoadFails(l)
      PROVE  AnswerInv'
  BY <1>5 DEF LoadFails, Return, perCall
<1>6. ASSUME NEW c \in Calls, LockCall(c)
      PROVE  AnswerInv'
  BY <1>6 DEF LockCall, Touch, InState, perCall
<1>7. ASSUME NEW c \in Calls, FunctionNotFound(c)
      PROVE  AnswerInv'
  BY <1>7 DEF FunctionNotFound, Return, perCall
<1>8. ASSUME NEW c \in Calls, InvalidArgument(c)
      PROVE  AnswerInv'
  BY <1>8 DEF InvalidArgument, Return, perCall
<1>9. ASSUME NEW c \in Calls, StartScript(c)
      PROVE  AnswerInv'
  BY <1>9 DEF StartScript
<1>10. ASSUME NEW c \in Calls, ReceiveDone(c)
      PROVE  AnswerInv'
  BY <1>10 DEF ReceiveDone, Return, engine, perCall
<1>11. ASSUME NEW c \in Calls, NEW why \in AbortOutcomes, GiveUp(c, why)
      PROVE  AnswerInv'
  BY <1>11 DEF GiveUp, engine, perCall
<1>12. ASSUME NEW c \in Calls, Abort(c)
      PROVE  AnswerInv'
  BY <1>12 DEF Abort, engine
<1>13. ASSUME NEW c \in Calls, AbortFatal(c)
      PROVE  AnswerInv'
  BY <1>13 DEF AbortFatal, Fatal, engine, perCall
<1>14. ASSUME NEW c \in Calls, ScriptReturns(c)
      PROVE  AnswerInv'
  BY <1>14 DEF ScriptReturns, Yields, engine
<1>15. ASSUME NEW c \in Calls, UnlockExec(c)
      PROVE  AnswerInv'
  BY <1>15 DEF UnlockExec, engine
<1>16. ASSUME NEW c \in Calls, UnlockExecFatal(c)
      PROVE  AnswerInv'
  BY <1>16 DEF UnlockExecFatal, Fatal, engine, perCall
<1>17. ASSUME NEW c \in Calls, UnlockMain(c)
      PROVE  AnswerInv'
  BY <1>17 DEF UnlockMain
<1>18. ASSUME NEW c \in Calls, CloseDone(c)
      PROVE  AnswerInv'
  BY <1>18 DEF CloseDone, engine
<1>19. ASSUME NEW c \in Calls, CleanupUnlock(c)
      PROVE  AnswerInv'
  BY <1>19 DEF CleanupUnlock
<1>20. CASE Close
  BY <1>20 DEF Close, perCall, InState
<1>21. CASE DataRace
  BY <1>21 DEF DataRace, Fatal, engine, perCall
<1>22. CASE UNCHANGED vars
  BY <1>22 DEF vars
<1>23. QED
  BY <1>1, <1>2, <1>3, <1>4, <1>5, <1>6, <1>7, <1>8, <1>9, <1>10, <1>11, <1>12, <1>13, <1>14, <1>15, <1>16, <1>17, <1>18, <1>19, <1>20, <1>21, <1>22
     DEF Next, Step, LoadStep, CallStep, DeferredStep, Finished, Dead

\* A file entered in loadedFiles is not read to its end again.
LEMMA FileOnceStep ==
  ASSUME TypeOK, FileInv, FileLoadedOnce, [Next]_vars
  PROVE  FileLoadedOnce'
<1> USE LuaEngineAssumption DEF Callers, AbortOutcomes, LoadOutcomes, Answers, Outcomes, TypeOK, FileInv, FileLoadedOnce
<1>1. ASSUME NEW p \in Callers, Request(p)
      PROVE  FileLoadedOnce'
  BY <1>1 DEF Request, engine, perCall
<1>2. ASSUME NEW l \in Loads, LockLoad(l)
      PROVE  FileLoadedOnce'
  BY <1>2 DEF LockLoad, Touch, InState, perCall, AlreadyLoaded
<1>3. ASSUME NEW l \in Loads, SkipLoad(l)
      PROVE  FileLoadedOnce'
  BY <1>3 DEF SkipLoad, Return, engine, perCall, AlreadyLoaded
<1>4. ASSUME NEW l \in Loads, LoadSucceeds(l)
      PROVE  FileLoadedOnce'
  BY <1>4 DEF LoadSucceeds, Return, perCall
<1>5. ASSUME NEW l \in Loads, LoadFails(l)
      PROVE  FileLoadedOnce'
  BY <1>5 DEF LoadFails, Return, perCall
<1>6. ASSUME NEW c \in Calls, LockCall(c)
      PROVE  FileLoadedOnce'
  BY <1>6 DEF LockCall, Touch, InState, perCall
<1>7. ASSUME NEW c \in Calls, FunctionNotFound(c)
      PROVE  FileLoadedOnce'
  BY <1>7 DEF FunctionNotFound, Return, perCall
<1>8. ASSUME NEW c \in Calls, InvalidArgument(c)
      PROVE  FileLoadedOnce'
  BY <1>8 DEF InvalidArgument, Return, perCall
<1>9. ASSUME NEW c \in Calls, StartScript(c)
      PROVE  FileLoadedOnce'
  BY <1>9 DEF StartScript
<1>10. ASSUME NEW c \in Calls, ReceiveDone(c)
      PROVE  FileLoadedOnce'
  BY <1>10 DEF ReceiveDone, Return, engine, perCall
<1>11. ASSUME NEW c \in Calls, NEW why \in AbortOutcomes, GiveUp(c, why)
      PROVE  FileLoadedOnce'
  BY <1>11 DEF GiveUp, engine, perCall
<1>12. ASSUME NEW c \in Calls, Abort(c)
      PROVE  FileLoadedOnce'
  BY <1>12 DEF Abort, engine
<1>13. ASSUME NEW c \in Calls, AbortFatal(c)
      PROVE  FileLoadedOnce'
  BY <1>13 DEF AbortFatal, Fatal, engine, perCall
<1>14. ASSUME NEW c \in Calls, ScriptReturns(c)
      PROVE  FileLoadedOnce'
  BY <1>14 DEF ScriptReturns, Yields, engine
<1>15. ASSUME NEW c \in Calls, UnlockExec(c)
      PROVE  FileLoadedOnce'
  BY <1>15 DEF UnlockExec, engine
<1>16. ASSUME NEW c \in Calls, UnlockExecFatal(c)
      PROVE  FileLoadedOnce'
  BY <1>16 DEF UnlockExecFatal, Fatal, engine, perCall
<1>17. ASSUME NEW c \in Calls, UnlockMain(c)
      PROVE  FileLoadedOnce'
  BY <1>17 DEF UnlockMain
<1>18. ASSUME NEW c \in Calls, CloseDone(c)
      PROVE  FileLoadedOnce'
  BY <1>18 DEF CloseDone, engine
<1>19. ASSUME NEW c \in Calls, CleanupUnlock(c)
      PROVE  FileLoadedOnce'
  BY <1>19 DEF CleanupUnlock
<1>20. CASE Close
  BY <1>20 DEF Close, perCall, InState
<1>21. CASE DataRace
  BY <1>21 DEF DataRace, Fatal, engine, perCall
<1>22. CASE UNCHANGED vars
  BY <1>22 DEF vars
<1>23. QED
  BY <1>1, <1>2, <1>3, <1>4, <1>5, <1>6, <1>7, <1>8, <1>9, <1>10, <1>11, <1>12, <1>13, <1>14, <1>15, <1>16, <1>17, <1>18, <1>19, <1>20, <1>21, <1>22
     DEF Next, Step, LoadStep, CallStep, DeferredStep, Finished, Dead

-----------------------------------------------------------------------------
\* The invariant holds when the engine is made.
LEMMA InitIInv == Init => IInv
<1> SUFFICES ASSUME Init PROVE IInv
  OBVIOUS
<1> USE LuaEngineAssumption DEF Init, Callers, Abandoned, AbortOutcomes
<1>1. TypeOK
  BY DEF TypeOK, Outcomes, LoadOutcomes, Answers
<1>2. CallInv /\ MutexInv
  BY DEF CallInv, MutexInv, Holders
<1>3. CrashOnlyAfterAbandonment /\ ScriptSeesOwnContext
  BY DEF CrashOnlyAfterAbandonment, ScriptSeesOwnContext
<1>4. AnswerInv /\ FileInv /\ FileLoadedOnce
  BY DEF AnswerInv, FileInv, FileLoadedOnce
<1>5. QED
  BY <1>1, <1>2, <1>3, <1>4 DEF IInv

\* The invariant is inductive.
LEMMA IInvStep == IInv /\ [Next]_vars => IInv'
BY TypeStep, CallStepInv, MutexStep, CrashStep, ContextStep, AnswerStep,
   FileStep, FileOnceStep DEF IInv

\* The invariant holds in every reachable state.
LEMMA Invariance == Spec => []IInv
BY InitIInv, IInvStep, PTL DEF Spec

-----------------------------------------------------------------------------
\* Every variable keeps to its type, whatever loads, calls and time-outs occur.
THEOREM TypeCorrect == Spec => []TypeOK
<1>1. IInv => TypeOK
  BY DEF IInv
<1>2. QED
  BY <1>1, Invariance, PTL

\* Loads and the calls that are still waited for never share the Lua state.
THEOREM MutualExclusion == Spec => []LiveUsersExclusive
<1>1. IInv => LiveUsersExclusive
  <2> SUFFICES ASSUME IInv,
                      NEW p \in InState \ Abandoned, NEW q \in InState \ Abandoned
               PROVE  p = q
    BY DEF LiveUsersExclusive
  <2>1. ASSUME NEW r \in InState \ Abandoned
        PROVE  r \in Holders
    BY <2>1 DEF IInv, CallInv, Waited, InState, Abandoned, Holders, TypeOK,
                Callers
  <2>2. QED
    BY <2>1 DEF IInv, MutexInv
<1>2. QED
  BY <1>1, Invariance, PTL

\* The process can die here only after a call timed out or was cancelled.
THEOREM NoCrashWithoutAbandonment == Spec => []CrashOnlyAfterAbandonment
<1>1. IInv => CrashOnlyAfterAbandonment
  BY DEF IInv
<1>2. QED
  BY <1>1, Invariance, PTL

\* A cleanup goroutine unlocks the lock of its own call and no other.
THEOREM CleanupUnlocksOwnMutex == Spec => []CleanupOwnsMutex
<1>1. IInv => CleanupOwnsMutex
  <2> SUFFICES ASSUME IInv, NEW c \in Calls, cleanup[c] = "sleeping"
               PROVE  mutex /\ Holders = {c}
    BY DEF CleanupOwnsMutex
  <2>1. c \in Holders /\ c \in Callers
    BY DEF IInv, CallInv, Waited, Holders, TypeOK, Callers
  <2>2. QED
    BY <2>1 DEF IInv, MutexInv
<1>2. QED
  BY <1>1, Invariance, PTL

\* The goroutine of a call that gave up never ends in a live process.
THEOREM AbandonedScriptsStay == Spec => []AbandonedNeverEnds
<1>1. IInv => AbandonedNeverEnds
  BY DEF IInv, CallInv, AbandonedNeverEnds, Abandoned, AbortOutcomes
<1>2. QED
  BY <1>1, Invariance, PTL

\* Without abandoned calls every call returns what its own function left.
THEOREM OwnAnswer == Spec => []AnswerIsOwn
<1>1. IInv => AnswerIsOwn
  BY DEF IInv, AnswerInv, AnswerIsOwn
<1>2. QED
  BY <1>1, Invariance, PTL

\* A function finds the context of its own call in the Lua global.
THEOREM OwnContext == Spec => []ScriptSeesOwnContext
<1>1. IInv => ScriptSeesOwnContext
  BY DEF IInv
<1>2. QED
  BY <1>1, Invariance, PTL

\* No file is run to completion twice by LoadScriptFile.
THEOREM LoadedOnce == Spec => []FileLoadedOnce
<1>1. IInv => FileLoadedOnce
  BY DEF IInv
<1>2. QED
  BY <1>1, Invariance, PTL

\* Close never interrupts a load or a call that is still waited for.
THEOREM CloseIsExclusive == Spec => CloseWaits
<1>1. IInv /\ [Next]_vars => [closed' # closed => InState \subseteq Abandoned]_vars
  <2> SUFFICES ASSUME IInv, Next, closed' # closed
               PROVE  InState \subseteq Abandoned
    BY DEF vars
  <2>1. ~mutex
    BY DEF Next, Step, LoadStep, CallStep, DeferredStep, Finished, Dead, vars,
           Request, LockLoad, SkipLoad, LoadSucceeds, LoadFails, LockCall,
           FunctionNotFound, InvalidArgument, StartScript, ReceiveDone, GiveUp,
           Abort, AbortFatal, ScriptReturns, UnlockExec, UnlockExecFatal,
           UnlockMain, CloseDone, CleanupUnlock, Close, DataRace, Fatal, engine
  <2>2. ASSUME NEW r \in InState, r \notin Abandoned
        PROVE  r \in Holders /\ r \in Callers
    BY <2>2 DEF IInv, CallInv, Waited, InState, Abandoned, Holders, TypeOK,
                Callers
  <2>3. QED
    BY <2>1, <2>2 DEF IInv, MutexInv
<1>2. QED
  BY <1>1, Invariance, PTL DEF Spec, CloseWaits
=============================================================================
