------------------------------ MODULE MCCodex ------------------------------
(* Small instance of Codex: two conversations, two runs, two openings.     *)
EXTENDS Codex, TLC

CONSTANTS c1, c2, r1, r2, u1, u2
MCSymmetry == Permutations(Conversations) \cup Permutations(Runs)
=============================================================================
