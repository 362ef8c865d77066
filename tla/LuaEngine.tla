------------------------------ MODULE LuaEngine ------------------------------
(***************************************************************************)
(* The Lua scripting engine of pkg/scripting/engine.go: one gopher-lua     *)
(* state shared by every caller, guarded by the engine's mutex.            *)
(*                                                                         *)
(* A call of ExecuteFunction takes the mutex, starts a goroutine that runs *)
(* the function, and waits in a select for that goroutine, for the timer   *)
(* or for the cancellation of its context.  The goroutine's deferred calls *)
(* release first the mutex of this execution, then the engine's mutex.  A  *)
(* call that stops waiting releases the execution mutex itself and leaves  *)
(* a third goroutine behind that releases the engine's mutex.              *)
(*                                                                         *)
(* Go mutexes have no owner, and unlocking an unlocked one is a fatal      *)
(* error that no recover can catch: the process ends (crashed).            *)
(***************************************************************************)
EXTENDS Naturals, FiniteSets

CONSTANTS
    Calls,          \* the calls of ExecuteFunction, each made at most once
    Loads,          \* the calls of LoadScript and LoadScriptFile
    FileLoads,      \* those of Loads that go through LoadScriptFile
    Scripts,        \* names of scripts
    Functions,      \* names of Lua globals that scripts define
    ScriptOf,       \* the script each load asks for
    WalkedAfter,    \* the load before it in the same LoadScriptDir, or Nil
    Defines,        \* the functions a complete run of a script defines
    FunctionOf,     \* the function each call asks for
    BadArgs,        \* the calls with an argument convertToLua does not know
    Nil             \* the Lua nil; also: no context, no answer yet

ASSUME LuaEngineAssumption ==
    /\ Calls \cap Loads = {}
    /\ FileLoads \subseteq Loads
    /\ ScriptOf \in [Loads -> Scripts]
    /\ WalkedAfter \in [Loads -> FileLoads \cup {Nil}]
    /\ Defines \in [Scripts -> SUBSET Functions]
    /\ FunctionOf \in [Calls -> Functions]
    /\ BadArgs \subseteq Calls
    /\ Nil \notin Calls \cup Loads \cup {"failed"}
    /\ "failed" \notin Calls

VARIABLES
    mutex,          \* LuaEngine.mutex is locked
    globals,        \* the functions defined in the Lua state
    loadedFiles,    \* LuaEngine.loadedFiles
    luaCtx,         \* the call whose context is in the Lua global "ctx"
    pc,             \* where each load and each call's own goroutine is
    script,         \* where each call's execution goroutine is
    execMutex,      \* execMutex of each call is locked
    answer,         \* what errCh or resultCh of each call holds
    cleanup,        \* the goroutine a call that gave up leaves behind
    outcome,        \* what each load or call returned, or decided to return
    closed,         \* Close has been called on the Lua state
    raced,          \* those that shared the Lua state with another goroutine
    crashed         \* the Go runtime has ended the process

vars == <<mutex, globals, loadedFiles, luaCtx, pc, script, execMutex,
          answer, cleanup, outcome, closed, raced, crashed>>

engine  == <<mutex, globals, loadedFiles, luaCtx, closed>>
perCall == <<script, execMutex, answer, cleanup>>

Callers == Calls \cup Loads

AbortOutcomes == {"timeout", "canceled"}
LoadOutcomes  == {"loaded", "skipped", "loadFailed"}
Answers       == Calls \cup {Nil, "failed"}
\* A script that returns normally yields a value of its own call.
Outcomes      == {"pending", "notFound", "badArg", "ok", "error"}
                   \cup AbortOutcomes \cup LoadOutcomes

TypeOK ==
    /\ mutex \in BOOLEAN
    /\ globals \subseteq Functions
    /\ loadedFiles \subseteq Scripts
    /\ luaCtx \in Calls \cup {Nil}
    /\ pc \in [Callers -> {"idle", "waiting", "inState", "select",
                           "aborting", "returned"}]
    /\ script \in [Calls -> {"none", "running", "delivered", "released",
                             "unlocked", "done"}]
    /\ execMutex \in [Calls -> BOOLEAN]
    /\ answer \in [Calls -> Answers]
    /\ cleanup \in [Calls -> {"none", "sleeping", "done"}]
    /\ outcome \in [Callers -> Outcomes]
    /\ closed \in BOOLEAN
    /\ raced \subseteq Callers
    /\ crashed \in BOOLEAN

-----------------------------------------------------------------------------
\* The goroutines that are inside the Lua state: a load or a call between its
\* Lock and its Unlock, and every Lua function that is still running.
InState == {p \in Callers : pc[p] = "inState"}
             \cup {c \in Calls : script[c] = "running"}

\* The calls that gave up waiting: timer or context won their select.
Abandoned == {c \in Calls : outcome[c] \in AbortOutcomes}

Init ==
    /\ mutex = FALSE
    /\ globals = {}
    /\ loadedFiles = {}
    /\ luaCtx = Nil
    /\ pc = [p \in Callers |-> "idle"]
    /\ script = [c \in Calls |-> "none"]
    /\ execMutex = [c \in Calls |-> FALSE]
    /\ answer = [c \in Calls |-> Nil]
    /\ cleanup = [c \in Calls |-> "none"]
    /\ outcome = [p \in Callers |-> "pending"]
    /\ closed = FALSE
    /\ raced = {}
    /\ crashed = FALSE

\* p starts to use the Lua state while others may be in it.
Touch(p) == raced' = IF InState = {} THEN raced ELSE raced \cup InState \cup {p}

Return(p, o) ==
    /\ pc' = [pc EXCEPT ![p] = "returned"]
    /\ outcome' = [outcome EXCEPT ![p] = o]

\* The runtime's fatal error: nothing runs any more.
Fatal ==
    /\ crashed' = TRUE
    /\ UNCHANGED <<engine, pc, perCall, outcome, raced>>

\* LoadScriptDir loads one file after the other and ends at the first that
\* fails, so that some loads may never be asked for.
Due(p) ==
    p \in Loads /\ WalkedAfter[p] # Nil =>
        outcome[WalkedAfter[p]] \in {"loaded", "skipped"}

\* Mutant: the context is pushed before the mutex is taken.
RequestPushesContext(p) ==
    /\ pc[p] = "idle"
    /\ pc' = [pc EXCEPT ![p] = "waiting"]
    /\ luaCtx' = IF p \in Calls THEN p ELSE luaCtx
    /\ UNCHANGED <<mutex, globals, loadedFiles, closed, perCall, outcome,
                   raced, crashed>>

\* A goroutine of this program calls the engine and waits for its mutex.
Request(p) ==
    /\ pc[p] = "idle"
    /\ Due(p)
    /\ pc' = [pc EXCEPT ![p] = "waiting"]
    /\ UNCHANGED <<engine, perCall, outcome, raced, crashed>>

-----------------------------------------------------------------------------
(* LoadScript and LoadScriptFile: under the mutex from Lock to return.     *)

AlreadyLoaded(l) == l \in FileLoads /\ ScriptOf[l] \in loadedFiles

LockLoad(l) ==
    /\ pc[l] = "waiting"
    /\ ~mutex
    /\ ~AlreadyLoaded(l)
    /\ mutex' = TRUE
    /\ pc' = [pc EXCEPT ![l] = "inState"]
    /\ Touch(l)
    /\ UNCHANGED <<globals, loadedFiles, luaCtx, closed, perCall, outcome,
                   crashed>>

\* Lock, find the file in loadedFiles, Unlock.
SkipLoad(l) ==
    /\ pc[l] = "waiting"
    /\ ~mutex
    /\ AlreadyLoaded(l)
    /\ Return(l, "skipped")
    /\ UNCHANGED <<engine, perCall, raced, crashed>>

\* Mutant: the functions a script defines are recorded, not its name.
LoadRecordsFunctions(l) ==
    /\ pc[l] = "inState"
    /\ globals' = globals \cup Defines[ScriptOf[l]]
    /\ loadedFiles' = loadedFiles \cup Defines[ScriptOf[l]]
    /\ mutex' = FALSE
    /\ Return(l, "loaded")
    /\ UNCHANGED <<luaCtx, closed, perCall, raced, crashed>>

\* Mutant: the file is not entered in loadedFiles.
LoadForgetsFile(l) ==
    /\ pc[l] = "inState"
    /\ globals' = globals \cup Defines[ScriptOf[l]]
    /\ mutex' = FALSE
    /\ Return(l, "loaded")
    /\ UNCHANGED <<loadedFiles, luaCtx, closed, perCall, raced, crashed>>

LoadSucceeds(l) ==
    /\ pc[l] = "inState"
    /\ globals' = globals \cup Defines[ScriptOf[l]]
    /\ loadedFiles' = loadedFiles \cup {ScriptOf[l]}
    /\ mutex' = FALSE
    /\ Return(l, "loaded")
    /\ UNCHANGED <<luaCtx, closed, perCall, raced, crashed>>

\* A script that fails leaves the globals it had already assigned.
LoadFails(l) ==
    /\ pc[l] = "inState"
    /\ \E defined \in SUBSET Defines[ScriptOf[l]] :
          globals' = globals \cup defined
    /\ mutex' = FALSE
    /\ Return(l, "loadFailed")
    /\ UNCHANGED <<loadedFiles, luaCtx, closed, perCall, raced, crashed>>

-----------------------------------------------------------------------------
(* ExecuteFunction, in the caller's goroutine.                             *)

LockCall(c) ==
    /\ pc[c] = "waiting"
    /\ ~mutex
    /\ mutex' = TRUE
    /\ pc' = [pc EXCEPT ![c] = "inState"]
    /\ Touch(c)
    /\ UNCHANGED <<globals, loadedFiles, luaCtx, closed, perCall, outcome,
                   crashed>>

FunctionNotFound(c) ==
    /\ pc[c] = "inState"
    /\ FunctionOf[c] \notin globals
    /\ mutex' = FALSE
    /\ Return(c, "notFound")
    /\ UNCHANGED <<globals, loadedFiles, luaCtx, closed, perCall, raced,
                   crashed>>

InvalidArgument(c) ==
    /\ pc[c] = "inState"
    /\ FunctionOf[c] \in globals
    /\ c \in BadArgs
    /\ mutex' = FALSE
    /\ Return(c, "badArg")
    /\ UNCHANGED <<globals, loadedFiles, luaCtx, closed, perCall, raced,
                   crashed>>

\* Mutant: the caller's own defer unlocks the engine when it starts to wait.
StartScriptUnlocks(c) ==
    /\ pc[c] = "inState"
    /\ FunctionOf[c] \in globals
    /\ c \notin BadArgs
    /\ luaCtx' = c
    /\ mutex' = FALSE
    /\ execMutex' = [execMutex EXCEPT ![c] = TRUE]
    /\ script' = [script EXCEPT ![c] = "running"]
    /\ pc' = [pc EXCEPT ![c] = "select"]
    /\ UNCHANGED <<globals, loadedFiles, closed, answer, cleanup, outcome,
                   raced, crashed>>

\* pushContext, lock a fresh execMutex, start the execution goroutine.
StartScript(c) ==
    /\ pc[c] = "inState"
    /\ FunctionOf[c] \in globals
    /\ c \notin BadArgs
    /\ luaCtx' = c
    /\ execMutex' = [execMutex EXCEPT ![c] = TRUE]
    /\ script' = [script EXCEPT ![c] = "running"]
    /\ pc' = [pc EXCEPT ![c] = "select"]
    /\ UNCHANGED <<mutex, globals, loadedFiles, closed, answer, cleanup,
                   outcome, raced, crashed>>

\* Mutant: the caller unlocks the engine as well when it has its answer.
ReceiveDoneUnlocks(c) ==
    /\ pc[c] = "select"
    /\ script[c] = "done"
    /\ ~execMutex[c]
    /\ mutex' = FALSE
    /\ crashed' = ~mutex
    /\ Return(c, IF answer[c] = "failed" THEN "error" ELSE "ok")
    /\ UNCHANGED <<globals, loadedFiles, luaCtx, closed, perCall, raced>>

\* select, case <-done: the channels are read after execMutex is seen free.
ReceiveDone(c) ==
    /\ pc[c] = "select"
    /\ script[c] = "done"
    /\ ~execMutex[c]
    /\ Return(c, IF answer[c] = "failed" THEN "error" ELSE "ok")
    /\ UNCHANGED <<engine, perCall, raced, crashed>>

\* select, the timer or ctx.Done(): either may win, also against a ready done.
GiveUp(c, why) ==
    /\ pc[c] = "select"
    /\ pc' = [pc EXCEPT ![c] = "aborting"]
    /\ outcome' = [outcome EXCEPT ![c] = why]
    /\ UNCHANGED <<engine, perCall, raced, crashed>>

\* Mutant: nothing is left behind to unlock the engine.
AbortLeavesMutex(c) ==
    /\ pc[c] = "aborting"
    /\ execMutex[c]
    /\ execMutex' = [execMutex EXCEPT ![c] = FALSE]
    /\ pc' = [pc EXCEPT ![c] = "returned"]
    /\ UNCHANGED <<engine, script, answer, cleanup, outcome, raced, crashed>>

\* execMutex.Unlock() of the call that gave up, and its cleanup goroutine.
Abort(c) ==
    /\ pc[c] = "aborting"
    /\ execMutex[c]
    /\ execMutex' = [execMutex EXCEPT ![c] = FALSE]
    /\ cleanup' = [cleanup EXCEPT ![c] = "sleeping"]
    /\ pc' = [pc EXCEPT ![c] = "returned"]
    /\ UNCHANGED <<engine, script, answer, outcome, raced, crashed>>

\* ... which is fatal if the execution goroutine has unlocked it before.
AbortFatal(c) == pc[c] = "aborting" /\ ~execMutex[c] /\ Fatal

-----------------------------------------------------------------------------
(* The execution goroutine and its deferred calls, last deferred first.    *)

\* The answers a function may leave in a channel.  One that shared the Lua
\* state may find any value on its stack, or none.
Yields(c) == IF c \in raced THEN Answers ELSE {c, "failed"}

ScriptReturns(c) ==
    /\ script[c] = "running"
    /\ \E a \in Yields(c) : answer' = [answer EXCEPT ![c] = a]
    /\ script' = [script EXCEPT ![c] = "delivered"]
    /\ UNCHANGED <<engine, pc, execMutex, cleanup, outcome, raced, crashed>>

UnlockExec(c) ==
    /\ script[c] = "delivered"
    /\ execMutex[c]
    /\ execMutex' = [execMutex EXCEPT ![c] = FALSE]
    /\ script' = [script EXCEPT ![c] = "released"]
    /\ UNCHANGED <<engine, pc, answer, cleanup, outcome, raced, crashed>>

\* Mutant: an execMutex found unlocked is passed over.
UnlockExecTolerant(c) ==
    /\ script[c] = "delivered"
    /\ ~execMutex[c]
    /\ script' = [script EXCEPT ![c] = "released"]
    /\ UNCHANGED <<engine, pc, execMutex, answer, cleanup, outcome, raced,
                   crashed>>

UnlockExecFatal(c) == script[c] = "delivered" /\ ~execMutex[c] /\ Fatal

\* defer e.mutex.Unlock()
UnlockMain(c) ==
    /\ script[c] = "released"
    /\ mutex' = FALSE
    /\ crashed' = ~mutex
    /\ script' = [script EXCEPT ![c] = "unlocked"]
    /\ UNCHANGED <<globals, loadedFiles, luaCtx, closed, pc, execMutex, answer,
                   cleanup, outcome, raced>>

\* defer close(done)
CloseDone(c) ==
    /\ script[c] = "unlocked"
    /\ script' = [script EXCEPT ![c] = "done"]
    /\ UNCHANGED <<engine, pc, execMutex, answer, cleanup, outcome, raced,
                   crashed>>

\* The goroutine left behind wakes up and unlocks the engine's mutex.
CleanupUnlock(c) ==
    /\ cleanup[c] = "sleeping"
    /\ mutex' = FALSE
    /\ crashed' = ~mutex
    /\ cleanup' = [cleanup EXCEPT ![c] = "done"]
    /\ UNCHANGED <<globals, loadedFiles, luaCtx, closed, pc, script, execMutex,
                   answer, outcome, raced>>

-----------------------------------------------------------------------------
\* Mutant: Close does not take the mutex.
CloseAnytime ==
    /\ ~closed
    /\ closed' = TRUE
    /\ raced' = raced \cup InState
    /\ UNCHANGED <<mutex, globals, loadedFiles, luaCtx, pc, perCall, outcome,
                   crashed>>

\* Close: Lock, close the Lua state, Unlock.
Close ==
    /\ ~mutex
    /\ ~closed
    /\ closed' = TRUE
    /\ raced' = raced \cup InState
    /\ UNCHANGED <<mutex, globals, loadedFiles, luaCtx, pc, perCall, outcome,
                   crashed>>

\* Unsynchronised use of the Lua tables: the runtime may notice and abort.
DataRace == (\E p, q \in InState : p # q) /\ Fatal

CallStep(c) ==
    \/ LockCall(c) \/ FunctionNotFound(c) \/ InvalidArgument(c)
    \/ StartScript(c) \/ ReceiveDone(c)
    \/ (\E why \in AbortOutcomes : GiveUp(c, why))
    \/ Abort(c) \/ AbortFatal(c)

DeferredStep(c) ==
    UnlockExec(c) \/ UnlockExecFatal(c) \/ UnlockMain(c) \/ CloseDone(c)

LoadStep(l) ==
    LockLoad(l) \/ SkipLoad(l) \/ LoadSucceeds(l) \/ LoadFails(l)

\* Every call has returned and no goroutine is left: the program may stop.
Finished ==
    /\ \A p \in Callers : pc[p] = "returned" \/ (pc[p] = "idle" /\ ~Due(p))
    /\ \A c \in Calls : script[c] \in {"none", "done"}
    /\ UNCHANGED vars

\* A crashed process does nothing more.
Dead == crashed /\ UNCHANGED vars

Step ==
    \/ \E p \in Callers : Request(p)
    \/ \E l \in Loads : LoadStep(l)
    \/ \E c \in Calls : CallStep(c) \/ ScriptReturns(c) \/ DeferredStep(c)
                          \/ CleanupUnlock(c)
    \/ Close
    \/ DataRace

Next == (~crashed /\ Step) \/ Finished \/ Dead

Spec == Init /\ [][Next]_vars

\* The scheduler runs every goroutine that can run, the timer of a call fires,
\* and the sleep of a cleanup ends.  Nothing makes a Lua script terminate.
FairSpec ==
    /\ Spec
    /\ \A c \in Calls :
          /\ WF_vars(~crashed /\ CallStep(c))
          /\ WF_vars(~crashed /\ DeferredStep(c))
          /\ WF_vars(~crashed /\ CleanupUnlock(c))
    /\ \A l \in Loads : WF_vars(~crashed /\ (LockLoad(l) \/ SkipLoad(l)))

\* ... and the top-level code of every script that is loaded terminates.
LoadsEndSpec ==
    FairSpec /\ \A l \in Loads : WF_vars(~crashed /\ LoadStep(l))
-----------------------------------------------------------------------------
(* Correctness.                                                            *)

\* Those that own the engine's mutex: from Lock until the Unlock that is done
\* on their behalf, by themselves, their execution goroutine or their cleanup.
Holders ==
    {p \in Callers : pc[p] = "inState"}
      \cup {c \in Calls : script[c] \in {"running", "delivered", "released"}
                           /\ cleanup[c] # "done"}

\* Two goroutines are in the Lua state together only when one of them is the
\* script of a call that gave up: loads and live calls exclude each other.
LiveUsersExclusive == \A p, q \in InState \ Abandoned : p = q

\* The process dies in this package only after some call timed out or was
\* cancelled: no interleaving of loads and completed calls is fatal.
CrashOnlyAfterAbandonment == crashed => Abandoned # {}

\* The Unlock of a cleanup goroutine (lines 315 and 336) always releases the
\* lock its own call took, never one that another caller has taken since and
\* never an unlocked one: the recover around it has nothing to catch.
CleanupOwnsMutex ==
    \A c \in Calls :
        cleanup[c] = "sleeping" => mutex /\ Holders = {c}

\* In a live process the script of a call that gave up has not ended: its
\* first deferred Unlock is fatal, so no such goroutine is ever reclaimed.
AbandonedNeverEnds ==
    \A c \in Abandoned :
        pc[c] = "returned" => script[c] \in {"running", "delivered"}

\* As long as no call gave up, what a call returns is what its own function
\* left, however many calls and loads share the Lua stack.
AnswerIsOwn ==
    Abandoned = {} =>
        \A c \in Calls : outcome[c] = "ok" => answer[c] = c

\* A function reads its own call's context in the global "ctx" until its
\* call's cleanup hands the mutex on.
ScriptSeesOwnContext ==
    \A c \in Calls :
        script[c] = "running" /\ cleanup[c] # "done" => luaCtx = c

\* However many goroutines load it at once, a file runs to completion once.
FileLoadedOnce ==
    \A l, m \in FileLoads :
        /\ outcome[l] = "loaded"
        /\ outcome[m] = "loaded"
        /\ ScriptOf[l] = ScriptOf[m]
        => l = m

\* Close never closes the Lua state under a load or a call still waited for.
CloseWaits == [][closed' # closed => InState \subseteq Abandoned]_vars

\* Every caller gets its answer or an error, even from a function that never
\* ends, if what is loaded ends: the engine's mutex is always handed on.
CallersReturn ==
    \A p \in Callers : pc[p] = "waiting" ~> (pc[p] = "returned" \/ crashed)

-----------------------------------------------------------------------------
(* What the comments of engine.go say and the code does not do.            *)

\* engine.go:307-308, "The main mutex might still be locked - we'll try to
\* unlock it but ignore errors if it's already been unlocked": a call that
\* gives up would leave a process that carries on.
SurvivesAbandonment == ~crashed
=============================================================================
