---------------------------- MODULE MemoryStore ----------------------------
(***************************************************************************)
(* What the interface ltm.LTMStore promises: each entity has a memory of   *)
(* its own, in which operations on behalf of the entity take effect one at *)
(* a time, and out of which nobody else reads or writes.  The adapters are *)
(* to implement it.                                                        *)
(***************************************************************************)
EXTENDS Memory

Calls == {"Store", "Retrieve", "Update", "Delete"}

VARIABLES
    mem,    \* the records of each entity, by ID
    reply   \* the last operation: who asked for it, and what was answered

EmptyMemory == [e \in Entities |-> [id \in Ids |-> None]]
NoReply     == [call |-> "none", ctx |-> None, outcome |-> "none",
                rows |-> <<>>]

TypeOK ==
    /\ mem \in [Entities -> [Ids -> Records \cup {None}]]
    /\ reply.outcome \in {"none", "ok", "error"}
    /\ reply.rows \in Seq(Ids)

Init ==
    /\ mem = EmptyMemory
    /\ reply = NoReply

Replies(call, ctx, outcome) ==
    /\ reply'.call = call
    /\ reply'.ctx = ctx
    /\ reply'.outcome = outcome

\* Nothing changes but what is stored for the entity under id.
ChangesOnly(e, id) ==
    /\ DOMAIN mem' = Entities
    /\ \A f \in Entities \ {e} : mem'[f] = mem[f]
    /\ mem'[e] = [mem[e] EXCEPT ![id] = mem'[e][id]]

\* Store: the caller's record takes the place of what its ID held.
Put(ctx, id, input) ==
    /\ Replies("Store", ctx, "ok")
    /\ Acceptable(input, ctx)
    /\ ChangesOnly(ctx.entity, id)
    /\ mem'[ctx.entity][id] = Owned(input, ctx)

\* Update: the contents of what exists, which stays whose and as old as it was.
Change(ctx, id, input) ==
    /\ Replies("Update", ctx, "ok")
    /\ mem[ctx.entity][id] # None
    /\ ChangesOnly(ctx.entity, id)
    /\ mem'[ctx.entity][id] =
          [mem[ctx.entity][id] EXCEPT !.content = input.content,
                                      !.meta = Kept[input.meta]]

\* Delete: only what exists.
Erase(ctx, id) ==
    /\ Replies("Delete", ctx, "ok")
    /\ mem[ctx.entity][id] # None
    /\ ChangesOnly(ctx.entity, id)
    /\ mem'[ctx.entity][id] = None

\* Retrieve: a right answer from the entity's own memory.
Look(ctx, q) ==
    /\ Replies("Retrieve", ctx, "ok")
    /\ Answers(mem[ctx.entity], ctx, q, reply'.rows)
    /\ UNCHANGED mem

\* Any operation may fail, without effect; without a context it does.
Refuse(call, ctx) == Replies(call, ctx, "error") /\ UNCHANGED mem

Next ==
    \/ \E ctx \in Callers :
          \/ \E q \in Queries : Look(ctx, q)
          \/ \E id \in Ids :
                \/ Erase(ctx, id)
                \/ \E input \in NewRecords :
                      Put(ctx, id, input) \/ Change(ctx, id, input)
    \/ \E call \in Calls, ctx \in Callers \cup {None} : Refuse(call, ctx)

Spec == Init /\ [][Next]_<<mem, reply>>

-----------------------------------------------------------------------------
\* No operation changes the memory of an entity other than its own.
EntityIsolation ==
    [][\A e \in Entities :
          mem'[e] # mem[e] => reply'.ctx.entity = e]_<<mem, reply>>
=============================================================================
