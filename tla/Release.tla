------------------------------- MODULE Release -------------------------------
(***************************************************************************)
(* The workflow build_release.yml: runs of it, dispatched at any time and  *)
(* next to each other, while developers push to the same branch.  A run    *)
(* builds the commit it was dispatched at, one job for each platform; then *)
(* collect checks out the head of the branch, publishes the archives in a  *)
(* release with a tag of its own second, and pushes the lock that names    *)
(* them.  Any step may fail or be killed, and failed jobs be run again.    *)
(*                                                                         *)
(* An archive stands for all archives of one platform.  The recipes of a   *)
(* commit are one value that pins some source tarballs.                    *)
(***************************************************************************)
EXTENDS Integers, Sequences

CONSTANTS
    Runs, Platforms, Recipes, Sources,
    PinsOf,        \* the sources that recipes pin
    Seconds,       \* bound: the last second of the clock
    MaxCommits,    \* bound: how many commits developers push
    MaxReruns,     \* bound: how often failed jobs are run again
    None           \* no lock, no release

ASSUME PinsAssumption   == PinsOf \in [Recipes -> SUBSET Sources]
ASSUME BoundsAssumption == Seconds \in Nat \ {0} /\ MaxCommits \in Nat /\ MaxReruns \in Nat
ASSUME NoneAssumption   == \A S \in SUBSET (Sources \cup (Platforms \X Recipes \X Runs)) : None # S

VARIABLES
    branch,        \* the commits of the branch, each with its recipes and its lock
    upstream,      \* the sources that can still be downloaded upstream
    second,        \* date -u +%Y%m%d-%H%M%S
    release,       \* of each tag: the assets of its release, or None
    pc,            \* where each run is
    sha,           \* the commit each run was dispatched at
    job,           \* the state of each run's matrix jobs
    base,          \* the commit each run's collect checked out
    staged,        \* the sources in its .build/mirror
    tag, lock,     \* its tag, and the prebuilt.lock it wrote
    commits, reruns

world == <<upstream, second, commits, reruns>>
local == <<base, staged, tag, lock>>
vars  == <<branch, world, release, pc, sha, job, local>>

Tags == 1 .. Seconds

(* An archive, by the platform and the recipes in its name and by the run  *)
(* its bytes are from, which the SHA-256 of its lock line tells.           *)
Archives == Platforms \X Recipes \X Runs
Assets   == Archives \cup Sources
Locks    == [tag : Tags, lines : SUBSET Archives] \cup {None}

ASSUME NoneIsNoLock == None \notin [tag : Tags, lines : SUBSET Archives]

Steps == {"collect", "tagged", "mirrored", "merged", "created", "uploaded"}
PCs   == {"idle", "build", "done", "failed"} \cup Steps

CheckedOut(w) == branch[base[w]]

(* The archives that the artifacts of a run hold. *)
Built(w) == {<<p, branch[sha[w]].recipes, w>> : p \in {q \in Platforms : job[w][q] = "done"}}

Init ==
    /\ branch \in {<<[recipes |-> r, lock |-> None]>> : r \in Recipes}
    /\ upstream = Sources
    /\ second = 1
    /\ release = [t \in Tags |-> None]
    /\ pc = [w \in Runs |-> "idle"]
    /\ sha = [w \in Runs |-> 1]
    /\ job = [w \in Runs |-> [p \in Platforms |-> "queued"]]
    /\ base = [w \in Runs |-> 1]
    /\ staged = [w \in Runs |-> {}]
    /\ tag = [w \in Runs |-> 1]
    /\ lock = [w \in Runs |-> None]
    /\ commits = 0
    /\ reruns = 0

Goto(w, from, to) == pc[w] = from /\ pc' = [pc EXCEPT ![w] = to]

Dispatch(w) ==
    /\ Goto(w, "idle", "build")
    /\ sha' = [sha EXCEPT ![w] = Len(branch)]
    /\ UNCHANGED <<branch, world, release, job, local>>

(* One job of the matrix; the others go on if it fails (fail-fast: false). *)
BuildJob(w, p) ==
    /\ pc[w] = "build"
    /\ job[w][p] = "queued"
    /\ \E end \in {"done", "failed"} : job' = [job EXCEPT ![w][p] = end]
    /\ UNCHANGED <<branch, world, release, pc, sha, local>>

(* Faulty variant: collect runs after the jobs, whatever became of them.   *)
JobsSucceededAlways(w) == \A p \in Platforms : job[w][p] # "queued"

(* needs: build *)
JobsSucceeded(w) == \A p \in Platforms : job[w][p] = "done"

SkipCollect(w) ==
    /\ \A p \in Platforms : job[w][p] # "queued"
    /\ ~JobsSucceeded(w)
    /\ Goto(w, "build", "failed")
    /\ UNCHANGED <<branch, world, release, sha, job, local>>

Collect(w) ==
    /\ JobsSucceeded(w)
    /\ Goto(w, "build", "collect")
    /\ base' = [base EXCEPT ![w] = Len(branch)]
    /\ UNCHANGED <<branch, world, release, sha, job, staged, tag, lock>>

(* Faulty variant: the tag is of the second to come. *)
TakeTagLater(w) ==
    /\ Goto(w, "collect", "tagged")
    /\ tag' = [tag EXCEPT ![w] = second + 1]
    /\ UNCHANGED <<branch, world, release, sha, job, base, staged, lock>>

TakeTag(w) ==
    /\ Goto(w, "collect", "tagged")
    /\ tag' = [tag EXCEPT ![w] = second]
    /\ UNCHANGED <<branch, world, release, sha, job, base, staged, lock>>

(* mirror_sources.cmake, in the checked-out commit: the release its lock   *)
(* refers to is asked before upstream, and only the pinned bytes count.    *)
Reachable(w) ==
    upstream \cup (IF CheckedOut(w).lock = None THEN {} ELSE release[CheckedOut(w).lock.tag] \cap Sources)

Mirror(w) ==
    LET pins == PinsOf[CheckedOut(w).recipes]
    IN  /\ pins \subseteq Reachable(w)
        /\ Goto(w, "tagged", "mirrored")
        /\ staged' = [staged EXCEPT ![w] = pins]
        /\ UNCHANGED <<branch, world, release, sha, job, base, tag, lock>>

Merge(w) ==
    /\ Goto(w, "mirrored", "merged")
    /\ lock' = [lock EXCEPT ![w] = [tag |-> tag[w], lines |-> Built(w)]]
    /\ UNCHANGED <<branch, world, release, sha, job, base, staged, tag>>

(* Faulty variant: a release that has the tag is used as it is. *)
CreateReleaseOrUse(w) ==
    /\ Goto(w, "merged", "created")
    /\ release' = [release EXCEPT ![tag[w]] = IF @ = None THEN {} ELSE @]
    /\ UNCHANGED <<branch, world, sha, job, local>>

(* gh release create: fails if there is a release with the tag. *)
CreateRelease(w) ==
    /\ release[tag[w]] = None
    /\ Goto(w, "merged", "created")
    /\ release' = [release EXCEPT ![tag[w]] = {}]
    /\ UNCHANGED <<branch, world, sha, job, local>>

Upload(w) ==
    /\ Goto(w, "created", "uploaded")
    /\ release' = [release EXCEPT ![tag[w]] = @ \cup Built(w) \cup staged[w]]
    /\ UNCHANGED <<branch, world, sha, job, local>>

(* Faulty variant: the script goes on after an upload that failed. *)
UploadFailsUnnoticed(w) ==
    \E part \in SUBSET (Built(w) \cup staged[w]) :
        /\ Goto(w, "created", "uploaded")
        /\ release' = [release EXCEPT ![tag[w]] = @ \cup part]
        /\ UNCHANGED <<branch, world, sha, job, local>>

(* gh release upload has some of the assets up when it fails. *)
UploadFails(w) ==
    \E part \in SUBSET (Built(w) \cup staged[w]) :
        /\ Goto(w, "created", "failed")
        /\ release' = [release EXCEPT ![tag[w]] = @ \cup part]
        /\ UNCHANGED <<branch, world, sha, job, local>>

(* Faulty variant: the commit is moved onto whatever was pushed meanwhile. *)
PushRebased(w) ==
    /\ Goto(w, "uploaded", "done")
    /\ branch' = Append(branch, [recipes |-> branch[Len(branch)].recipes, lock |-> lock[w]])
    /\ UNCHANGED <<world, release, sha, job, local>>

(* A lock with a new tag is always a commit; git push takes it if nobody   *)
(* has pushed since the checkout.                                          *)
Push(w) ==
    /\ base[w] = Len(branch)
    /\ Goto(w, "uploaded", "done")
    /\ branch' = Append(branch, [recipes |-> CheckedOut(w).recipes, lock |-> lock[w]])
    /\ UNCHANGED <<world, release, sha, job, local>>

(* bash -e: the first command that fails ends the job, as a cancellation   *)
(* or a lost runner does anywhere.                                         *)
CollectFails(w) ==
    /\ pc[w] \in Steps
    /\ Goto(w, pc[w], "failed")
    /\ UNCHANGED <<branch, world, release, sha, job, local>>

(* "Re-run failed jobs": the same commit, the artifacts there are, and     *)
(* another collect.                                                        *)
Rerun(w) ==
    /\ reruns < MaxReruns
    /\ reruns' = reruns + 1
    /\ Goto(w, "failed", "build")
    /\ job' = [job EXCEPT ![w] = [p \in Platforms |-> IF @[p] = "failed" THEN "queued" ELSE @[p]]]
    /\ UNCHANGED <<branch, upstream, second, commits, release, sha, local>>

(* Developers push recipes, and leave the lock to the workflow. *)
Commit ==
    /\ commits < MaxCommits
    /\ commits' = commits + 1
    /\ \E r \in Recipes :
           branch' = Append(branch, [branch[Len(branch)] EXCEPT !.recipes = r])
    /\ UNCHANGED <<upstream, second, reruns, release, pc, sha, job, local>>

Vanish ==
    /\ \E s \in upstream : upstream' = upstream \ {s}
    /\ UNCHANGED <<branch, second, commits, reruns, release, pc, sha, job, local>>

Tick ==
    /\ second < Seconds
    /\ second' = second + 1
    /\ UNCHANGED <<branch, upstream, commits, reruns, release, pc, sha, job, local>>

Publish(w) ==
    \/ TakeTag(w) \/ Mirror(w) \/ Merge(w) \/ CreateRelease(w)
    \/ Upload(w) \/ UploadFails(w) \/ Push(w) \/ CollectFails(w)

Next ==
    \/ \E w \in Runs : \/ Dispatch(w) \/ Rerun(w) \/ SkipCollect(w) \/ Collect(w)
                       \/ \E p \in Platforms : BuildJob(w, p)
                       \/ Publish(w)
    \/ Commit \/ Vanish \/ Tick

Spec == Init /\ [][Next]_vars

-----------------------------------------------------------------------------
(* Properties. *)

(* The branch, the releases and every run keep their types; collect works  *)
(* in a commit of the branch, under a tag of some second.                  *)
TypeOK ==
    /\ branch \in Seq([recipes : Recipes, lock : Locks]) /\ Len(branch) >= 1
    /\ upstream \subseteq Sources
    /\ second \in 1 .. Seconds
    /\ release \in [Tags -> (SUBSET Assets) \cup {None}]
    /\ pc \in [Runs -> PCs]
    /\ sha \in [Runs -> 1 .. Len(branch)]
    /\ job \in [Runs -> [Platforms -> {"queued", "done", "failed"}]]
    /\ base \in [Runs -> 1 .. Len(branch)]
    /\ staged \in [Runs -> SUBSET Sources]
    /\ tag \in [Runs -> Tags]
    /\ lock \in [Runs -> Locks]
    /\ commits \in 0 .. MaxCommits /\ reruns \in 0 .. MaxReruns

(* The commits that have a lock of the workflow. *)
Locked == {i \in DOMAIN branch : branch[i].lock # None}

(* Every line of a lock that was ever pushed names an archive with these   *)
(* bytes in a release that exists (create and upload come before push).    *)
PushedLinesHaveArchives ==
    \A i \in Locked : /\ release[branch[i].lock.tag] # None
                      /\ branch[i].lock.lines \subseteq release[branch[i].lock.tag]

(* A pushed lock has a line for every platform, all built from one commit  *)
(* by one run, even where jobs failed and were run again (needs: build).   *)
LockIsWhole ==
    \A i \in Locked :
        \E r \in Recipes, w \in Runs : branch[i].lock.lines = {<<p, r, w>> : p \in Platforms}

(* In the commit that brings a lock, the release it names mirrors every    *)
(* source that the recipes of that very commit pin: a local build there    *)
(* needs no upstream, although collect publishes before it pushes and      *)
(* others push meanwhile.                                                  *)
SourcesBesideRecipes ==
    \A i \in Locked :
        branch[i - 1].lock # branch[i].lock =>
            PinsOf[branch[i].recipes] \subseteq release[branch[i].lock.tag]

(* A release that a pushed lock refers to never changes again: two runs    *)
(* that take the same second never share one.                              *)
ReferencedIsImmutable ==
    [][\A i \in Locked : release'[branch[i].lock.tag] = release[branch[i].lock.tag]]_vars

(* What the commits of the branch offer to those who check them out. *)
Offered ==
    [i \in DOMAIN branch |->
        [recipes |-> branch[i].recipes,
         assets  |-> IF branch[i].lock = None THEN None ELSE release[branch[i].lock.tag]]]

Consumed == INSTANCE AtomicRelease WITH offers <- Offered,
                                        ended  <- {w \in Runs : pc[w] = "done"}

(* Jobs, tags, uploads and pushes of many runs, which fail anywhere and    *)
(* are run again, look to a consumer like one atomic step for each run     *)
(* that succeeds, and like nothing for the others.                         *)
ImplementsAtomicRelease == Consumed!Spec
=============================================================================
