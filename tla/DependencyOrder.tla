-------------------------- MODULE DependencyOrder --------------------------
(***************************************************************************)
(* What a dependency-ordered build promises, whatever order it searches    *)
(* the graph in: a package is built only after everything it depends on,   *)
(* the build is complete only when every package of the plan is built, and *)
(* it is declared stuck only when no package that is left can be built.    *)
(***************************************************************************)
CONSTANT Names

VARIABLES
    graph,    \* the plan: package -> the packages it depends on
    done,     \* the packages built so far
    outcome   \* "planning", "building", "built", "stuck" or "broken"

vars == <<graph, done, outcome>>

NoPlan == [n \in {} |-> {}]

Buildable(p) == p \in DOMAIN graph \ done /\ graph[p] \subseteq done

Init ==
    /\ graph = NoPlan
    /\ done = {}
    /\ outcome = "planning"

(* The plan may name packages it does not contain. *)
Plan ==
    /\ outcome = "planning"
    /\ \E S \in SUBSET Names : graph' \in [S -> SUBSET Names]
    /\ outcome' = "building"
    /\ UNCHANGED done

BuildNext ==
    /\ outcome = "building"
    /\ \E p \in Names : Buildable(p) /\ done' = done \cup {p}
    /\ UNCHANGED <<graph, outcome>>

Complete ==
    /\ outcome = "building"
    /\ DOMAIN graph = done
    /\ outcome' = "built"
    /\ UNCHANGED <<graph, done>>

Stuck ==
    /\ outcome = "building"
    /\ DOMAIN graph # done
    /\ \A p \in Names : ~Buildable(p)
    /\ outcome' = "stuck"
    /\ UNCHANGED <<graph, done>>

Break ==
    /\ outcome \in {"planning", "building"}
    /\ outcome' = "broken"
    /\ UNCHANGED <<graph, done>>

Next == Plan \/ BuildNext \/ Complete \/ Stuck \/ Break

Spec == Init /\ [][Next]_vars
=============================================================================
