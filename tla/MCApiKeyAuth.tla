---------------------------- MODULE MCApiKeyAuth ----------------------------
(* Requests of one process over its cache, and rotations in processes      *)
(* whose clocks differ.                                                    *)
EXTENDS ApiKeyAuth, TLC

CONSTANTS p1, p2

MCProcOf == [q \in Requests |-> p1]
MCSkew == [p \in Processes |-> IF p = p1 THEN 0 ELSE 1]
MCExpiries == {Never, 2}
MCNeverExpires == {Never}

\* Keys are alike (all start out uncreated), and so are requests of one
\* process and rotations.
Alike == Permutations(Keys) \cup Permutations(Rotations) \cup Permutations(Requests)
=============================================================================
