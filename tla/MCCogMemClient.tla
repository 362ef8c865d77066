--------------------------- MODULE MCCogMemClient ---------------------------
(* Small instances of CogMemClient.                                        *)
EXTENDS CogMemClient, TLC

CONSTANTS g1, g2, acme, globex

\* Six calls one after the other, or four of which two run at once.
MCMaxRequests == <<6, 4>>

\* Neither the goroutines nor the entities are told apart.
Symmetry == Permutations(Callers) \cup Permutations(Entities)
=============================================================================
