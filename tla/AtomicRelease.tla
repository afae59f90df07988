--------------------------- MODULE AtomicRelease ----------------------------
(***************************************************************************)
(* The release workflow as a consumer sees it, who checks out any commit   *)
(* of the branch and downloads what its lock refers to: releases appear    *)
(* whole, together with the commit that names them, and never change.      *)
(***************************************************************************)
EXTENDS Naturals, Sequences

CONSTANTS
    Runs, Platforms, Recipes, Sources,
    PinsOf,     \* the sources that recipes pin
    None        \* no lock

VARIABLES
    offers,     \* the commits: their recipes, and what their lock offers
    ended       \* the runs that have published

vars == <<offers, ended>>

Last == offers[Len(offers)]

Init ==
    /\ offers \in {<<[recipes |-> r, assets |-> None]>> : r \in Recipes}
    /\ ended = {}

(* Whatever recipes are pushed, the offer stays. *)
Commit(r) ==
    /\ offers' = Append(offers, [Last EXCEPT !.recipes = r])
    /\ UNCHANGED ended

(* A run offers an archive of one commit for every platform, and beside    *)
(* them the sources that the newest recipes pin.                           *)
Publish(w, built) ==
    /\ w \notin ended
    /\ ended' = ended \cup {w}
    /\ offers' = Append(offers,
           [recipes |-> Last.recipes,
            assets  |-> {<<p, offers[built].recipes, w>> : p \in Platforms}
                            \cup PinsOf[Last.recipes]])

Next ==
    \/ \E r \in Recipes : Commit(r)
    \/ \E w \in Runs, built \in DOMAIN offers : Publish(w, built)

Spec == Init /\ [][Next]_vars
=============================================================================
