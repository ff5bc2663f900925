------------------------------ MODULE MCCoUsage ------------------------------
(***************************************************************************)
(* Small instances of CoUsage: skills used together in chains, runs inside *)
(* one window and long after it, a pair that comes back, a name without a  *)
(* skill.                                                                  *)
(***************************************************************************)
EXTENDS CoUsage, TLC

Evidence(digest, at, skills) == [digest |-> digest, at |-> at, skills |-> skills]

MCRequests == { Evidence("together", 1, {1, 2}), Evidence("chain", 2, {2, 3}),
                Evidence("later", 9, {3}), Evidence("again", 9, {1, 2}),
                Evidence("unknown", 1, {1, 4}) }

MCSymmetry == Permutations(Imports)

=============================================================================
