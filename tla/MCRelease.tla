------------------------------ MODULE MCRelease ------------------------------
(***************************************************************************)
(* Two runs, two platforms.  The second revision of the recipes keeps one  *)
(* source of the first and pins one more.                                  *)
(***************************************************************************)
EXTENDS Release, TLC

CONSTANTS w1, w2, p1, p2, r1, r2, s1, s2

MCRuns      == {w1, w2}
MCPlatforms == {p1, p2}
MCPinsOf    == (r1 :> {s1}) @@ (r2 :> {s1, s2})
Symmetry    == Permutations(MCRuns) \cup Permutations(MCPlatforms)
=============================================================================
