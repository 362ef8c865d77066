----------------------------- MODULE MCLuaEngine -----------------------------
(* Small instances of LuaEngine: calls of functions of two scripts, and the *)
(* loads of these scripts.                                                  *)
EXTENDS LuaEngine, TLC

CONSTANTS c1, c2, c3,   \* calls: c3 asks for a function of its own
          l1, l2, l3    \* loads: l3 asks for the second script

MCScriptOf   == [l \in Loads |-> IF l = l3 THEN "extra" ELSE "hooks"]
MCDefines    == [s \in Scripts |->
                  IF s = "hooks" THEN {"before", "after"} ELSE {"after"}]
MCFunctionOf == [c \in Calls |-> IF c = c3 THEN "after" ELSE "before"]

\* Loads of their own; and a directory with two scripts.
MCAlone == [l \in Loads |-> Nil]
MCWalk  == [l \in Loads |-> IF l = l3 THEN l1 ELSE Nil]

\* c1 and c2 ask for the same function, l1 and l2 for the same file.
Symmetry == Permutations({c1, c2}) \cup Permutations({l1, l2})
=============================================================================
