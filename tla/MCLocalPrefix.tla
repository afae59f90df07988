--------------------------- MODULE MCLocalPrefix ---------------------------
(***************************************************************************)
(* Two recipes and three releases: the second release republishes the      *)
(* first recipe, the third carries the new recipe.  Either recipe may be   *)
(* checked out with any lock line, so a stale, a current and a republished *)
(* line all occur.                                                         *)
(***************************************************************************)
EXTENDS LocalPrefix

CONSTANTS r1, r2, l1, l2, l3

MCRecipes  == {r1, r2}
MCReleases == {l1, l2, l3}
MCRecipeOf == [l \in MCReleases |-> IF l = l3 THEN r2 ELSE r1]
MCModes    == {"prebuilt", "rebuild", "system"}
MCConfigs  == {"RelWithDebInfo", "Debug"}
=============================================================================
