-------------------------- MODULE MCPlatformBuild --------------------------
(***************************************************************************)
(* Three libraries and a tool.  The first two libraries depend on any of   *)
(* the three, themselves included, the third on the tool as well or on a   *)
(* library whose recipe this platform skips: chains against the order of   *)
(* ALL, cycles of every length, missing dependencies.  Some lists hold two *)
(* versions of a library.  Recipes are sorted by path, as list(SORT) does. *)
(* In out/ an earlier run left a fragment and its archive, one of the two  *)
(* or none.                                                                *)
(***************************************************************************)
EXTENDS PlatformBuild

Recipe(n, v, k, h, d) ==
    [name |-> n, version |-> v, kind |-> k, source |-> TRUE, here |-> h, deps |-> d]

Libs == {"a", "b", "c"}

MCNames    == {"a", "b", "c", "t"}
MCVersions == {"1", "2"}

Graphs == { << Recipe("a", "1", "library", TRUE, da),
               Recipe("b", "1", "library", TRUE, db),
               Recipe("c", "1", "library", h, dc),
               Recipe("t", "1", "tool", TRUE, {}) >> :
            da \in SUBSET Libs, db \in SUBSET Libs, dc \in SUBSET MCNames, h \in BOOLEAN }

TwoVersions == { << Recipe("a", "1", "library", TRUE, da),
                    Recipe("a", "2", "library", TRUE, {}),
                    Recipe("b", "1", "library", TRUE, {"a"}),
                    Recipe("c", "1", "source", TRUE, {}) >> :
                 da \in SUBSET Libs }

TwoTools == { << Recipe("a", "1", "library", TRUE, {}),
                 Recipe("t", "1", "tool", TRUE, {}),
                 Recipe("t", "2", "tool", TRUE, {}) >> }

MCSpecLists == Graphs \cup TwoVersions \cup TwoTools

OldLine == [name |-> "a", version |-> "1", run |-> "earlier"]

MCLeftovers == [fragment : {<<>>, <<OldLine>>}, out : {{}, {OldLine}}]
=============================================================================
