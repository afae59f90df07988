-------------------------- MODULE MCSourceDelivery --------------------------
(***************************************************************************)
(* Two trees, two revisions of the recipe.  Two attempts for each URL: the *)
(* first may fail and the second succeed, or both fail.  One patch is      *)
(* enough for a tree that has its sources and not yet all its patches.     *)
(***************************************************************************)
EXTENDS SourceDelivery, TLC

CONSTANTS t1, t2, r1, r2

MCTrees     == {t1, t2}
MCRevisions == {r1, r2}
Symmetry    == Permutations(MCTrees) \cup Permutations(MCRevisions)
=============================================================================
