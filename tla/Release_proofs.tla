--------------------------- MODULE Release_proofs ----------------------------
(***************************************************************************)
(* Proofs about Release, for any runs, platforms, recipes and sources and  *)
(* any bounds.                                                             *)
(***************************************************************************)
EXTENDS Release, TLAPS

-----------------------------------------------------------------------------
(* Types.  An upload adds to a release that exists, which is part of the   *)
(* inductive invariant: OwnsRelease says so where the type needs it.       *)

Owns(w) == pc[w] \in {"created", "uploaded"}
OwnsRelease == \A w \in Runs : Owns(w) => release[tag[w]] # None

LEMMA InitType == Init => TypeOK
<1> USE BoundsAssumption
<1> SUFFICES ASSUME Init PROVE TypeOK
    OBVIOUS
<1>1. PICK r \in Recipes : branch = <<[recipes |-> r, lock |-> None]>>
    BY DEF Init
<1>2. branch \in Seq([recipes : Recipes, lock : Locks]) /\ Len(branch) = 1
    BY <1>1 DEF Locks
<1>3. pc \in [Runs -> PCs]
    BY DEF Init, PCs
<1> QED BY <1>2, <1>3 DEF Init, TypeOK, Locks, Tags

LEMMA Element == ASSUME NEW S, NEW s \in Seq(S), NEW i \in DOMAIN s PROVE s[i] \in S
OBVIOUS

LEMMA CommitType ==
    TypeOK => \A i \in DOMAIN branch : /\ branch[i] \in [recipes : Recipes, lock : Locks]
                                       /\ branch[i].recipes \in Recipes
                                       /\ branch[i].lock \in Locks
<1> SUFFICES ASSUME TypeOK, NEW i \in DOMAIN branch
             PROVE  branch[i] \in [recipes : Recipes, lock : Locks]
    OBVIOUS
<1>1. branch \in Seq([recipes : Recipes, lock : Locks])
    BY DEF TypeOK
<1> QED BY <1>1, Element

LEMMA Positions == TypeOK => \A w \in Runs : sha[w] \in DOMAIN branch /\ base[w] \in DOMAIN branch
BY DEF TypeOK

LEMMA BuiltType == TypeOK => \A w \in Runs : Built(w) \subseteq Archives
<1> SUFFICES ASSUME TypeOK, NEW w \in Runs PROVE Built(w) \subseteq Archives
    OBVIOUS
<1>1. branch[sha[w]].recipes \in Recipes
    BY CommitType, Positions
<1> QED BY <1>1 DEF Built, Archives

LEMMA NextType == TypeOK /\ OwnsRelease /\ [Next]_vars => TypeOK'
<1> USE BoundsAssumption
<1> SUFFICES ASSUME TypeOK, OwnsRelease, [Next]_vars PROVE TypeOK'
    OBVIOUS
<1>1. ASSUME NEW w \in Runs, Dispatch(w) PROVE TypeOK'
    BY <1>1 DEF TypeOK, Dispatch, Goto, PCs, local, world
<1>2. ASSUME NEW w \in Runs, NEW p \in Platforms, BuildJob(w, p) PROVE TypeOK'
    BY <1>2 DEF TypeOK, BuildJob, local, world
<1>3. ASSUME NEW w \in Runs, SkipCollect(w) PROVE TypeOK'
    BY <1>3 DEF TypeOK, SkipCollect, Goto, PCs, local, world
<1>4. ASSUME NEW w \in Runs, Collect(w) PROVE TypeOK'
    BY <1>4 DEF TypeOK, Collect, Goto, PCs, Steps, world
<1>5. ASSUME NEW w \in Runs, TakeTag(w) PROVE TypeOK'
    BY <1>5 DEF TypeOK, TakeTag, Goto, PCs, Steps, world, Tags
<1>6. ASSUME NEW w \in Runs, Mirror(w) PROVE TypeOK'
  <2>1. PinsOf[CheckedOut(w).recipes] \subseteq Sources
    BY PinsAssumption, CommitType, Positions DEF CheckedOut
  <2> QED BY <1>6, <2>1 DEF TypeOK, Mirror, Goto, PCs, Steps, world
<1>7. ASSUME NEW w \in Runs, Merge(w) PROVE TypeOK'
  <2>1. [tag |-> tag[w], lines |-> Built(w)] \in Locks
    BY BuiltType DEF TypeOK, Locks
  <2> QED BY <1>7, <2>1 DEF TypeOK, Merge, Goto, PCs, Steps, world
<1>8. ASSUME NEW w \in Runs, CreateRelease(w) PROVE TypeOK'
    BY <1>8 DEF TypeOK, CreateRelease, Goto, PCs, Steps, local, world
<1>9. ASSUME NEW w \in Runs, Upload(w) PROVE TypeOK'
  <2>1. Built(w) \cup staged[w] \subseteq Assets
    BY BuiltType DEF TypeOK, Assets
  <2>2. release[tag[w]] \subseteq Assets
    BY <1>9 DEF Upload, Goto, OwnsRelease, Owns, TypeOK
  <2>3. release' \in [Tags -> (SUBSET Assets) \cup {None}]
    BY <1>9, <2>1, <2>2 DEF TypeOK, Upload
  <2> QED BY <1>9, <2>3 DEF TypeOK, Upload, Goto, PCs, Steps, local, world
<1>10. ASSUME NEW w \in Runs, UploadFails(w) PROVE TypeOK'
  <2>1. Built(w) \cup staged[w] \subseteq Assets
    BY BuiltType DEF TypeOK, Assets
  <2>2. release[tag[w]] \subseteq Assets
    BY <1>10 DEF UploadFails, Goto, OwnsRelease, Owns, TypeOK
  <2>3. release' \in [Tags -> (SUBSET Assets) \cup {None}]
    BY <1>10, <2>1, <2>2 DEF TypeOK, UploadFails
  <2> QED BY <1>10, <2>3 DEF TypeOK, UploadFails, Goto, PCs, Steps, local, world
<1>11. ASSUME NEW w \in Runs, Push(w) PROVE TypeOK'
  <2>1. [recipes |-> CheckedOut(w).recipes, lock |-> lock[w]] \in [recipes : Recipes, lock : Locks]
    BY CommitType, Positions DEF TypeOK, CheckedOut
  <2>2. /\ branch' \in Seq([recipes : Recipes, lock : Locks])
        /\ Len(branch') = Len(branch) + 1
    BY <1>11, <2>1 DEF TypeOK, Push
  <2> QED BY <1>11, <2>2 DEF TypeOK, Push, Goto, PCs, Steps, local, world
<1>12. ASSUME NEW w \in Runs, CollectFails(w) PROVE TypeOK'
    BY <1>12 DEF TypeOK, CollectFails, Goto, PCs, local, world
<1>13. ASSUME NEW w \in Runs, Rerun(w) PROVE TypeOK'
    BY <1>13 DEF TypeOK, Rerun, Goto, PCs, local
<1>14. ASSUME Commit PROVE TypeOK'
  <2>1. PICK r \in Recipes : branch' = Append(branch, [branch[Len(branch)] EXCEPT !.recipes = r])
    BY <1>14 DEF Commit
  <2>2. Len(branch) \in DOMAIN branch
    BY DEF TypeOK
  <2>3. branch[Len(branch)] \in [recipes : Recipes, lock : Locks]
    BY <2>2, CommitType
  <2>4. [branch[Len(branch)] EXCEPT !.recipes = r] \in [recipes : Recipes, lock : Locks]
    BY <2>3
  <2>5. /\ branch' \in Seq([recipes : Recipes, lock : Locks])
        /\ Len(branch') = Len(branch) + 1
    BY <2>1, <2>4 DEF TypeOK
  <2> QED BY <1>14, <2>5 DEF TypeOK, Commit, local
<1>15. ASSUME Vanish PROVE TypeOK'
    BY <1>15 DEF TypeOK, Vanish, local
<1>16. ASSUME Tick PROVE TypeOK'
    BY <1>16 DEF TypeOK, Tick, local
<1>17. CASE UNCHANGED vars
    BY <1>17 DEF TypeOK, vars, world, local
<1> QED
    BY <1>1, <1>2, <1>3, <1>4, <1>5, <1>6, <1>7, <1>8, <1>9, <1>10, <1>11, <1>12, <1>13, <1>14,
       <1>15, <1>16, <1>17 DEF Next, Publish

-----------------------------------------------------------------------------
(* What a run holds.  Between checkout and push, nothing that it builds on *)
(* changes: its jobs are done, its commits stay where they are, and a      *)
(* release is touched by the run that created it and by no other.          *)

Holds(w) ==
    /\ pc[w] \in Steps => JobsSucceeded(w)
    /\ pc[w] \in {"mirrored", "merged", "created", "uploaded"} =>
           staged[w] = PinsOf[CheckedOut(w).recipes]
    /\ pc[w] \in {"merged", "created", "uploaded"} =>
           lock[w] = [tag |-> tag[w], lines |-> Built(w)]
    /\ pc[w] = "uploaded" => Built(w) \cup staged[w] \subseteq release[tag[w]]

(* No two runs own one release, and no pushed lock refers to a release     *)
(* that a run still owns.                                                  *)
OwnedByOne ==
    \A w \in Runs : Owns(w) =>
        /\ \A v \in Runs : Owns(v) /\ tag[v] = tag[w] => v = w
        /\ \A i \in Locked : branch[i].lock.tag # tag[w]

StartsUnlocked == branch[1].lock = None

IInv ==
    /\ TypeOK
    /\ OwnsRelease
    /\ OwnedByOne
    /\ \A w \in Runs : Holds(w)
    /\ StartsUnlocked
    /\ PushedLinesHaveArchives
    /\ LockIsWhole
    /\ SourcesBesideRecipes

LEMMA InitInv == Init => IInv
<1> SUFFICES ASSUME Init PROVE IInv
    OBVIOUS
<1>1. TypeOK
    BY InitType
<1>2. branch[1].lock = None /\ DOMAIN branch = {1}
    BY DEF Init
<1>3. Locked = {}
    BY <1>2 DEF Locked
<1>4. \A w \in Runs : pc[w] = "idle"
    BY DEF Init
<1> QED
    BY <1>1, <1>2, <1>3, <1>4 DEF IInv, OwnsRelease, OwnedByOne, Owns, Holds, Steps, StartsUnlocked,
       PushedLinesHaveArchives, LockIsWhole, SourcesBesideRecipes

LEMMA Quiet ==
    ASSUME IInv, UNCHANGED <<branch, release>>
    PROVE  /\ Locked' = Locked
           /\ StartsUnlocked' /\ PushedLinesHaveArchives' /\ LockIsWhole' /\ SourcesBesideRecipes'
BY DEF IInv, Locked, StartsUnlocked, PushedLinesHaveArchives, LockIsWhole, SourcesBesideRecipes

(* A run that does not move holds what it held, if the releases of others  *)
(* keep what they have and the branch only grows.                          *)
LEMMA Bystander ==
    ASSUME IInv, NEW v \in Runs,
           \A i \in DOMAIN branch : i \in DOMAIN branch' /\ branch'[i] = branch[i],
           pc'[v] = pc[v], job'[v] = job[v], sha'[v] = sha[v], base'[v] = base[v],
           staged'[v] = staged[v], tag'[v] = tag[v], lock'[v] = lock[v],
           pc[v] = "uploaded" => release'[tag[v]] = release[tag[v]]
    PROVE  Holds(v)'
<1>1. Holds(v)
    BY DEF IInv
<1>2. branch'[sha[v]] = branch[sha[v]] /\ branch'[base[v]] = branch[base[v]]
    BY Positions DEF IInv
<1>3. Built(v)' = Built(v)
    BY <1>2 DEF Built
<1>4. CheckedOut(v)' = CheckedOut(v)
    BY <1>2 DEF CheckedOut
<1>5. JobsSucceeded(v)' = JobsSucceeded(v)
    BY DEF JobsSucceeded
<1> QED BY <1>1, <1>3, <1>4, <1>5 DEF Holds

(* The steps of one run that leave the branch and the releases alone. *)
LEMMA QuietStep ==
    ASSUME IInv, TypeOK', NEW w \in Runs, UNCHANGED <<branch, release>>,
           \A v \in Runs \ {w} : /\ pc'[v] = pc[v] /\ job'[v] = job[v] /\ sha'[v] = sha[v]
                                 /\ base'[v] = base[v] /\ staged'[v] = staged[v]
                                 /\ tag'[v] = tag[v] /\ lock'[v] = lock[v],
           Owns(w)' => Owns(w) /\ tag'[w] = tag[w],
           Holds(w)'
    PROVE  IInv'
<1>1. /\ Locked' = Locked
      /\ StartsUnlocked' /\ PushedLinesHaveArchives' /\ LockIsWhole' /\ SourcesBesideRecipes'
    BY Quiet
<1>2. \A v \in Runs : Owns(v)' => Owns(v) /\ tag'[v] = tag[v]
    BY DEF Owns
<1>3. OwnsRelease'
    BY <1>2 DEF IInv, OwnsRelease
<1>4. OwnedByOne'
    BY <1>1, <1>2 DEF IInv, OwnedByOne
<1>5. ASSUME NEW v \in Runs PROVE Holds(v)'
  <2>1. CASE v = w
    BY <2>1
  <2>2. CASE v # w
    BY <2>2, Bystander
  <2> QED BY <2>1, <2>2
<1> QED BY <1>1, <1>3, <1>4, <1>5 DEF IInv

(* Steps of the world around the runs. *)
LEMMA StillStep ==
    ASSUME IInv, TypeOK', UNCHANGED <<branch, release, pc, sha, job, local>>
    PROVE  IInv'
<1>1. Locked' = Locked
    BY DEF Locked
<1> USE DEF local
<1>2. \A v \in Runs : Holds(v)'
    BY DEF IInv, Holds, JobsSucceeded, CheckedOut, Built
<1> QED
    BY <1>1, <1>2 DEF IInv, OwnsRelease, OwnedByOne, Owns, StartsUnlocked, PushedLinesHaveArchives,
       LockIsWhole, SourcesBesideRecipes

LEMMA LockedTag == TypeOK => \A i \in Locked : branch[i].lock.tag \in Tags
<1> SUFFICES ASSUME TypeOK, NEW i \in Locked PROVE branch[i].lock.tag \in Tags
    OBVIOUS
<1>1. branch[i].lock \in [tag : Tags, lines : SUBSET Archives]
    BY CommitType DEF Locked, Locks
<1> QED BY <1>1

(* Steps of one run on a release that nothing refers to and nobody else    *)
(* owns.                                                                   *)
LEMMA ReleaseStep ==
    ASSUME IInv, TypeOK', NEW w \in Runs,
           UNCHANGED <<branch, sha, job, local>>,
           \A v \in Runs \ {w} : pc'[v] = pc[v],
           \A t \in Tags : t # tag[w] => release'[t] = release[t],
           \A v \in Runs \ {w} : Owns(v) => tag[v] # tag[w],
           \A i \in Locked : branch[i].lock.tag # tag[w],
           Owns(w)' => release'[tag[w]] # None,
           Holds(w)'
    PROVE  IInv'
<1> USE DEF local
<1>1. Locked' = Locked
    BY DEF Locked
<1>2. \A i \in Locked : release'[branch[i].lock.tag] = release[branch[i].lock.tag]
    BY LockedTag DEF IInv
<1>3. \A v \in Runs \ {w} : Owns(v)' => Owns(v) /\ release'[tag[v]] = release[tag[v]]
    BY DEF IInv, Owns, TypeOK
<1>4. OwnsRelease'
    BY <1>3 DEF IInv, OwnsRelease
<1>5. OwnedByOne'
    BY <1>1, <1>3 DEF IInv, OwnedByOne
<1>6. ASSUME NEW v \in Runs PROVE Holds(v)'
  <2>1. CASE v = w
    BY <2>1
  <2>2. CASE v # w
    <3>1. pc[v] = "uploaded" => release'[tag[v]] = release[tag[v]]
        BY <2>2, <1>3 DEF Owns
    <3> QED BY <2>2, <3>1, Bystander
  <2> QED BY <2>1, <2>2
<1>7. StartsUnlocked' /\ LockIsWhole'
    BY <1>1 DEF IInv, StartsUnlocked, LockIsWhole
<1>8. PushedLinesHaveArchives' /\ SourcesBesideRecipes'
    BY <1>1, <1>2 DEF IInv, PushedLinesHaveArchives, SourcesBesideRecipes
<1> QED BY <1>4, <1>5, <1>6, <1>7, <1>8 DEF IInv

(* A commit c on top of the branch, with the lock it has or a new one.     *)
Backed(c) ==
    /\ release[c.lock.tag] # None
    /\ c.lock.lines \subseteq release[c.lock.tag]
    /\ \E r \in Recipes, w \in Runs : c.lock.lines = {<<p, r, w>> : p \in Platforms}

LEMMA GrowStep ==
    ASSUME IInv, TypeOK', NEW c, branch' = Append(branch, c),
           UNCHANGED <<release, sha, job, local>>,
           \A v \in Runs : Owns(v)' => Owns(v) /\ (c.lock # None => tag[v] # c.lock.tag),
           c.lock # None => Backed(c),
           c.lock # None /\ c.lock # branch[Len(branch)].lock =>
               PinsOf[c.recipes] \subseteq release[c.lock.tag],
           \A v \in Runs : Holds(v)'
    PROVE  IInv'
<1> USE DEF local
<1> DEFINE n == Len(branch)
<1>1. branch \in Seq([recipes : Recipes, lock : Locks]) /\ n \in Nat \ {0}
    BY DEF IInv, TypeOK
<1>2. /\ DOMAIN branch = 1 .. n /\ DOMAIN branch' = 1 .. n + 1
      /\ \A i \in 1 .. n : branch'[i] = branch[i]
      /\ branch'[n + 1] = c
    BY <1>1
<1> HIDE DEF n
<1>3. \A i \in Locked' : \/ i \in Locked /\ i \in 1 .. n /\ branch'[i] = branch[i]
                         \/ i = n + 1 /\ branch'[i] = c /\ c.lock # None
    BY <1>1, <1>2 DEF Locked
<1>4. OwnsRelease'
    BY DEF IInv, OwnsRelease
<1>5. OwnedByOne'
    BY <1>3 DEF IInv, OwnedByOne
<1>6. StartsUnlocked'
    BY <1>1, <1>2 DEF IInv, StartsUnlocked
<1>7. PushedLinesHaveArchives'
    BY <1>3 DEF IInv, PushedLinesHaveArchives, Backed
<1>8. LockIsWhole'
  <2> SUFFICES ASSUME NEW i \in Locked'
               PROVE  \E r \in Recipes, w \in Runs :
                          branch'[i].lock.lines = {<<p, r, w>> : p \in Platforms}
    BY DEF LockIsWhole
  <2>1. CASE i \in Locked /\ branch'[i] = branch[i]
    BY <2>1 DEF IInv, LockIsWhole
  <2>2. CASE branch'[i] = c /\ c.lock # None
    BY <2>2 DEF Backed
  <2> QED BY <2>1, <2>2, <1>3
<1>9. SourcesBesideRecipes'
  <2> SUFFICES ASSUME NEW i \in Locked', branch'[i - 1].lock # branch'[i].lock
               PROVE  PinsOf[branch'[i].recipes] \subseteq release[branch'[i].lock.tag]
    BY DEF SourcesBesideRecipes
  <2>1. CASE i \in Locked /\ i \in 1 .. n /\ branch'[i] = branch[i]
    <3>1. i # 1
        BY <2>1 DEF Locked, IInv, StartsUnlocked
    <3>2. branch'[i - 1] = branch[i - 1]
        BY <2>1, <3>1, <1>1, <1>2
    <3> QED BY <2>1, <3>2 DEF IInv, SourcesBesideRecipes
  <2>2. CASE i = n + 1 /\ branch'[i] = c /\ c.lock # None
    <3>1. branch'[i - 1] = branch[n]
        BY <2>2, <1>1, <1>2
    <3> QED BY <2>2, <3>1 DEF n
  <2> QED BY <2>1, <2>2, <1>3
<1> QED BY <1>4, <1>5, <1>6, <1>7, <1>8, <1>9 DEF IInv

LEMMA NextInv == IInv /\ [Next]_vars => IInv'
<1> SUFFICES ASSUME IInv, [Next]_vars PROVE IInv'
    OBVIOUS
<1> TypeOK /\ OwnsRelease /\ OwnedByOne
    BY DEF IInv
<1> TypeOK'
    BY NextType
<1>1. ASSUME NEW w \in Runs, Dispatch(w) PROVE IInv'
  <2>1. Holds(w)'
    BY <1>1 DEF Dispatch, Goto, Holds, Steps, TypeOK
  <2> QED BY <1>1, <2>1, QuietStep DEF Dispatch, Goto, local, Owns, TypeOK
<1>2. ASSUME NEW w \in Runs, NEW p \in Platforms, BuildJob(w, p) PROVE IInv'
  <2>1. Holds(w)'
    BY <1>2 DEF BuildJob, Holds, Steps
  <2> QED BY <1>2, <2>1, QuietStep DEF BuildJob, local, Owns, TypeOK
<1>3. ASSUME NEW w \in Runs, SkipCollect(w) PROVE IInv'
  <2>1. Holds(w)'
    BY <1>3 DEF SkipCollect, Goto, Holds, Steps, TypeOK
  <2> QED BY <1>3, <2>1, QuietStep DEF SkipCollect, Goto, local, Owns, TypeOK
<1>4. ASSUME NEW w \in Runs, Collect(w) PROVE IInv'
  <2>1. Holds(w)'
    BY <1>4 DEF Collect, Goto, Holds, Steps, TypeOK, JobsSucceeded
  <2> QED BY <1>4, <2>1, QuietStep DEF Collect, Goto, Owns, TypeOK
<1>5. ASSUME NEW w \in Runs, TakeTag(w) PROVE IInv'
  <2>1. Holds(w)'
    BY <1>5 DEF TakeTag, Goto, Holds, Steps, TypeOK, JobsSucceeded, IInv
  <2> QED BY <1>5, <2>1, QuietStep DEF TakeTag, Goto, Owns, TypeOK
<1>6. ASSUME NEW w \in Runs, Mirror(w) PROVE IInv'
  <2>1. Holds(w)'
    BY <1>6 DEF Mirror, Goto, Holds, Steps, TypeOK, JobsSucceeded, CheckedOut, IInv
  <2> QED BY <1>6, <2>1, QuietStep DEF Mirror, Goto, Owns, TypeOK
<1>7. ASSUME NEW w \in Runs, Merge(w) PROVE IInv'
  <2>1. Holds(w)'
    BY <1>7 DEF Merge, Goto, Holds, Steps, TypeOK, JobsSucceeded, CheckedOut, Built, IInv
  <2> QED BY <1>7, <2>1, QuietStep DEF Merge, Goto, Owns, TypeOK
<1>8. ASSUME NEW w \in Runs, CreateRelease(w) PROVE IInv'
  <2>1. Holds(w)'
    BY <1>8 DEF CreateRelease, Goto, Holds, Steps, TypeOK, JobsSucceeded, CheckedOut, Built, IInv, local
  <2>2. \A i \in Locked : branch[i].lock.tag # tag[w]
    BY <1>8 DEF CreateRelease, IInv, PushedLinesHaveArchives
  <2>3. \A v \in Runs \ {w} : Owns(v) => tag[v] # tag[w]
    BY <1>8 DEF CreateRelease, OwnsRelease
  <2>4. Owns(w)' => release'[tag[w]] # None
    BY <1>8, NoneAssumption DEF CreateRelease, TypeOK
  <2>5. /\ \A v \in Runs \ {w} : pc'[v] = pc[v]
        /\ \A t \in Tags : t # tag[w] => release'[t] = release[t]
    BY <1>8 DEF CreateRelease, Goto, TypeOK
  <2> QED BY <1>8, <2>1, <2>2, <2>3, <2>4, <2>5, ReleaseStep DEF CreateRelease
<1>9. ASSUME NEW w \in Runs, Upload(w) PROVE IInv'
  <2>1. Holds(w)'
    BY <1>9 DEF Upload, Goto, Holds, Steps, TypeOK, JobsSucceeded, CheckedOut, Built, IInv, local
  <2>2. Owns(w)
    BY <1>9 DEF Upload, Goto, Owns
  <2> DEFINE all == release[tag[w]] \cup Built(w) \cup staged[w]
  <2>3. release'[tag[w]] # None
    <3>1. release[tag[w]] \in SUBSET Assets
        BY <2>2 DEF TypeOK, OwnsRelease
    <3>2. all \in SUBSET Assets
        BY <3>1, BuiltType DEF TypeOK, Assets
    <3>3. release'[tag[w]] = all
        BY <1>9 DEF Upload, TypeOK
    <3>4. Assets = Sources \cup (Platforms \X Recipes \X Runs)
        BY DEF Assets, Archives
    <3> HIDE DEF all
    <3> QED BY <3>2, <3>3, <3>4, NoneAssumption
  <2>4. /\ \A v \in Runs \ {w} : pc'[v] = pc[v]
        /\ \A t \in Tags : t # tag[w] => release'[t] = release[t]
    BY <1>9 DEF Upload, Goto, TypeOK
  <2> QED BY <1>9, <2>1, <2>2, <2>3, <2>4, ReleaseStep DEF Upload, OwnedByOne
<1>10. ASSUME NEW w \in Runs, UploadFails(w) PROVE IInv'
  <2>1. Holds(w)' /\ ~Owns(w)'
    BY <1>10 DEF UploadFails, Goto, Holds, Owns, Steps, TypeOK
  <2>2. Owns(w)
    BY <1>10 DEF UploadFails, Goto, Owns
  <2>3. /\ \A v \in Runs \ {w} : pc'[v] = pc[v]
        /\ \A t \in Tags : t # tag[w] => release'[t] = release[t]
    BY <1>10 DEF UploadFails, Goto, TypeOK
  <2> QED BY <1>10, <2>1, <2>2, <2>3, ReleaseStep DEF UploadFails, OwnedByOne
<1>11. ASSUME NEW w \in Runs, Push(w) PROVE IInv'
  <2> DEFINE c == [recipes |-> CheckedOut(w).recipes, lock |-> lock[w]]
  <2>1. /\ lock[w] = [tag |-> tag[w], lines |-> Built(w)]
        /\ staged[w] = PinsOf[CheckedOut(w).recipes]
        /\ Built(w) \cup staged[w] \subseteq release[tag[w]]
        /\ JobsSucceeded(w)
    BY <1>11 DEF Push, Goto, IInv, Holds, Steps
  <2>2. Owns(w) /\ release[tag[w]] # None
    BY <1>11 DEF Push, Goto, Owns, OwnsRelease
  <2>3. Built(w) = {<<p, branch[sha[w]].recipes, w>> : p \in Platforms}
    BY <2>1 DEF Built, JobsSucceeded
  <2>4. branch[sha[w]].recipes \in Recipes
    BY CommitType, Positions
  <2>5. c.lock # None => Backed(c)
    BY <2>1, <2>2, <2>3, <2>4 DEF Backed
  <2>6. PinsOf[c.recipes] \subseteq release[c.lock.tag]
    BY <2>1
  <2>7. \A v \in Runs : Owns(v)' => Owns(v) /\ tag[v] # c.lock.tag
    BY <1>11, <2>1, <2>2 DEF Push, Goto, Owns, OwnedByOne, TypeOK
  <2>8. ASSUME NEW v \in Runs PROVE Holds(v)'
    <3>1. CASE v = w
        BY <1>11, <3>1 DEF Push, Goto, Holds, Steps, TypeOK
    <3>2. CASE v # w
      <4>1. \A i \in DOMAIN branch : i \in DOMAIN branch' /\ branch'[i] = branch[i]
          BY <1>11 DEF Push, TypeOK
      <4> QED BY <1>11, <3>2, <4>1, Bystander DEF Push, Goto, local, TypeOK
    <3> QED BY <3>1, <3>2
  <2>9. branch' = Append(branch, c) /\ UNCHANGED <<release, sha, job, local>>
    BY <1>11 DEF Push
  <2> HIDE DEF c
  <2> QED BY <2>5, <2>6, <2>7, <2>8, <2>9, GrowStep
<1>12. ASSUME NEW w \in Runs, CollectFails(w) PROVE IInv'
  <2>1. Holds(w)'
    BY <1>12 DEF CollectFails, Goto, Holds, Steps, TypeOK
  <2> QED BY <1>12, <2>1, QuietStep DEF CollectFails, Goto, local, Owns, TypeOK
<1>13. ASSUME NEW w \in Runs, Rerun(w) PROVE IInv'
  <2>1. Holds(w)'
    BY <1>13 DEF Rerun, Goto, Holds, Steps, TypeOK
  <2> QED BY <1>13, <2>1, QuietStep DEF Rerun, Goto, local, Owns, TypeOK
<1>14. ASSUME Commit PROVE IInv'
  <2> DEFINE last == branch[Len(branch)]
  <2>1. PICK r \in Recipes : branch' = Append(branch, [last EXCEPT !.recipes = r])
    BY <1>14 DEF Commit
  <2> DEFINE c == [last EXCEPT !.recipes = r]
  <2>2. Len(branch) \in DOMAIN branch
    BY DEF TypeOK
  <2>3. c.lock = last.lock
    BY <2>2, CommitType
  <2>4. last.lock # None => Len(branch) \in Locked
    BY <2>2 DEF Locked
  <2>5. c.lock # None => Backed(c)
    BY <2>3, <2>4 DEF Backed, IInv, PushedLinesHaveArchives, LockIsWhole
  <2>6. UNCHANGED <<release, sha, job, local>> /\ pc' = pc
    BY <1>14 DEF Commit
  <2>7. \A v \in Runs : Owns(v)' => Owns(v) /\ (c.lock # None => tag[v] # c.lock.tag)
    BY <2>3, <2>4, <2>6 DEF Owns, OwnedByOne
  <2>8. ASSUME NEW v \in Runs PROVE Holds(v)'
    <3>1. \A i \in DOMAIN branch : i \in DOMAIN branch' /\ branch'[i] = branch[i]
        BY <2>1 DEF TypeOK
    <3> QED BY <2>6, <3>1, Bystander DEF local
  <2>9. branch' = Append(branch, c)
    BY <2>1
  <2> HIDE DEF c
  <2> QED BY <2>3, <2>5, <2>6, <2>7, <2>8, <2>9, GrowStep
<1>15. ASSUME Vanish PROVE IInv'
    BY <1>15, StillStep DEF Vanish
<1>16. ASSUME Tick PROVE IInv'
    BY <1>16, StillStep DEF Tick
<1>17. CASE UNCHANGED vars
    BY <1>17, StillStep DEF vars
<1> QED
    BY <1>1, <1>2, <1>3, <1>4, <1>5, <1>6, <1>7, <1>8, <1>9, <1>10, <1>11, <1>12, <1>13, <1>14,
       <1>15, <1>16, <1>17 DEF Next, Publish

(* The inductive invariant of the workflow. *)
THEOREM Invariance == Spec => []IInv
BY InitInv, NextInv, PTL DEF Spec

(* Runs, releases and branch keep their types.                             *)
THEOREM TypeCorrect == Spec => []TypeOK
<1>1. IInv => TypeOK
    BY DEF IInv
<1> QED BY Invariance, <1>1, PTL

(* Whatever is pushed names archives that are there, whichever steps of    *)
(* build_release.yml fail or are repeated and however many runs meet.      *)
THEOREM PushedLinesCorrect == Spec => []PushedLinesHaveArchives
<1>1. IInv => PushedLinesHaveArchives
    BY DEF IInv
<1> QED BY Invariance, <1>1, PTL

(* A pushed lock is of all platforms, one commit and one run.              *)
THEOREM LockWhole == Spec => []LockIsWhole
<1>1. IInv => LockIsWhole
    BY DEF IInv
<1> QED BY Invariance, <1>1, PTL

(* The release of a lock mirrors the sources its commit pins.              *)
THEOREM SourcesMirrored == Spec => []SourcesBesideRecipes
<1>1. IInv => SourcesBesideRecipes
    BY DEF IInv
<1> QED BY Invariance, <1>1, PTL

LEMMA ReferencedKept ==
    ASSUME IInv, [Next]_vars
    PROVE  \A i \in Locked : release'[branch[i].lock.tag] = release[branch[i].lock.tag]
<1> SUFFICES ASSUME NEW i \in Locked
             PROVE  release'[branch[i].lock.tag] = release[branch[i].lock.tag]
    OBVIOUS
<1>1. branch[i].lock.tag \in Tags /\ release[branch[i].lock.tag] # None
    BY LockedTag DEF IInv, PushedLinesHaveArchives
<1>2. CASE UNCHANGED release
    BY <1>2
<1>3. ASSUME NEW w \in Runs, CreateRelease(w)
      PROVE  release'[branch[i].lock.tag] = release[branch[i].lock.tag]
    BY <1>1, <1>3 DEF CreateRelease, IInv, TypeOK
<1>4. ASSUME NEW w \in Runs, Upload(w) \/ UploadFails(w)
      PROVE  release'[branch[i].lock.tag] = release[branch[i].lock.tag]
    BY <1>1, <1>4 DEF Upload, UploadFails, Goto, IInv, OwnedByOne, Owns, TypeOK
<1>5. \/ UNCHANGED release
      \/ \E w \in Runs : CreateRelease(w) \/ Upload(w) \/ UploadFails(w)
    BY DEF Next, Publish, Dispatch, BuildJob, SkipCollect, Collect, TakeTag, Mirror, Merge, Push,
       CollectFails, Rerun, Commit, Vanish, Tick, vars
<1> QED BY <1>2, <1>3, <1>4, <1>5

(* A release that a pushed lock refers to is never touched again.          *)
THEOREM ReferencedCorrect == Spec => ReferencedIsImmutable
<1> DEFINE Kept == \A i \in Locked : release'[branch[i].lock.tag] = release[branch[i].lock.tag]
<1>1. IInv /\ [Next]_vars => [Kept]_vars
    BY ReferencedKept
<1> QED BY Invariance, <1>1, PTL DEF Spec, ReferencedIsImmutable

-----------------------------------------------------------------------------
(* The refinement.                                                         *)

(* A release holds what its run has put there, and nothing else. *)
Exactly(w) ==
    /\ pc[w] = "created" => release[tag[w]] = {}
    /\ pc[w] = "uploaded" => release[tag[w]] = Built(w) \cup staged[w]

HoldsExactly == \A w \in Runs : Exactly(w)

(* A run that does not move leaves its release as it is. *)
LEMMA ExactlyKept ==
    ASSUME IInv, NEW v \in Runs, Exactly(v),
           \A i \in DOMAIN branch : branch'[i] = branch[i],
           pc'[v] = pc[v], job'[v] = job[v], sha'[v] = sha[v],
           staged'[v] = staged[v], tag'[v] = tag[v],
           Owns(v) => release'[tag[v]] = release[tag[v]]
    PROVE  Exactly(v)'
<1>1. branch'[sha[v]] = branch[sha[v]]
    BY Positions DEF IInv
<1>2. Built(v)' = Built(v)
    BY <1>1 DEF Built
<1> QED BY <1>2 DEF Exactly, Owns

(* A commit leaves those before it as they are. *)
LEMMA Grows ==
    ASSUME TypeOK, [Next]_vars
    PROVE  \A i \in DOMAIN branch : branch'[i] = branch[i]
<1>1. \/ branch' = branch
      \/ \E c : branch' = Append(branch, c)
    BY DEF Next, Publish, Dispatch, BuildJob, SkipCollect, Collect, TakeTag, Mirror, Merge,
       CreateRelease, Upload, UploadFails, Push, CollectFails, Rerun, Commit, Vanish, Tick, vars
<1>2. branch \in Seq([recipes : Recipes, lock : Locks])
    BY DEF TypeOK
<1>3. ASSUME NEW c, branch' = Append(branch, c)
      PROVE  \A i \in DOMAIN branch : branch'[i] = branch[i]
    BY <1>2, <1>3
<1> QED BY <1>1, <1>3

(* No step touches a release that another run owns. *)
LEMMA OthersReleases ==
    ASSUME IInv, NEW w \in Runs, CreateRelease(w) \/ Upload(w) \/ UploadFails(w),
           NEW v \in Runs, v # w, Owns(v)
    PROVE  release'[tag[v]] = release[tag[v]]
<1>1. tag[v] # tag[w]
    BY DEF CreateRelease, Upload, UploadFails, Goto, IInv, OwnsRelease, OwnedByOne, Owns
<1>2. tag[v] \in Tags /\ tag[w] \in Tags /\ release \in [Tags -> (SUBSET Assets) \cup {None}]
    BY DEF IInv, TypeOK
<1> QED BY <1>1, <1>2 DEF CreateRelease, Upload, UploadFails

LEMMA ExactlyInv == IInv /\ HoldsExactly /\ [Next]_vars => HoldsExactly'
<1> SUFFICES ASSUME IInv, HoldsExactly, [Next]_vars, NEW v \in Runs PROVE Exactly(v)'
    BY DEF HoldsExactly
<1> TypeOK /\ Exactly(v)
    BY DEF IInv, HoldsExactly
<1>1. \A i \in DOMAIN branch : branch'[i] = branch[i]
    BY Grows
<1>2. ASSUME NEW w \in Runs,
             Dispatch(w) \/ SkipCollect(w) \/ Collect(w) \/ TakeTag(w) \/ Mirror(w)
                 \/ Merge(w) \/ CollectFails(w) \/ Rerun(w) \/ Push(w)
                 \/ \E p \in Platforms : BuildJob(w, p)
      PROVE  Exactly(v)'
  <2>1. release' = release
    BY <1>2 DEF Dispatch, SkipCollect, Collect, TakeTag, Mirror, Merge, CollectFails, Rerun,
       Push, BuildJob
  <2>2. CASE v = w
    <3>1. pc'[v] \notin {"created", "uploaded"}
        BY <1>2, <2>2 DEF Dispatch, SkipCollect, Collect, TakeTag, Mirror, Merge, CollectFails,
           Rerun, Push, BuildJob, Goto, TypeOK
    <3> QED BY <3>1 DEF Exactly
  <2>3. CASE v # w
    <3>1. /\ pc'[v] = pc[v] /\ job'[v] = job[v] /\ sha'[v] = sha[v]
          /\ staged'[v] = staged[v] /\ tag'[v] = tag[v]
        BY <1>2, <2>3 DEF Dispatch, SkipCollect, Collect, TakeTag, Mirror, Merge, CollectFails,
           Rerun, Push, BuildJob, Goto, local, TypeOK
    <3> QED BY <1>1, <2>1, <3>1, ExactlyKept
  <2> QED BY <2>2, <2>3
<1>3. ASSUME NEW w \in Runs, CreateRelease(w) \/ Upload(w) \/ UploadFails(w)
      PROVE  Exactly(v)'
  <2>1. UNCHANGED <<branch, sha, job, staged, tag>>
    BY <1>3 DEF CreateRelease, Upload, UploadFails, local
  <2>2. CASE v # w
    <3>1. pc'[v] = pc[v]
        BY <1>3, <2>2 DEF CreateRelease, Upload, UploadFails, Goto, TypeOK
    <3>2. Owns(v) => release'[tag[v]] = release[tag[v]]
        BY <1>3, <2>2, OthersReleases
    <3> QED BY <1>1, <2>1, <3>1, <3>2, ExactlyKept
  <2>3. CASE v = w
    <3>1. Built(v)' = Built(v)
        BY <2>1 DEF Built
    <3>2. tag[v] \in Tags /\ release \in [Tags -> (SUBSET Assets) \cup {None}]
        BY DEF TypeOK
    <3>3. CASE CreateRelease(w)
        BY <2>1, <2>3, <3>2, <3>3 DEF CreateRelease, Goto, TypeOK, Exactly
    <3>4. CASE Upload(w)
      <4>1. release[tag[v]] = {}
          BY <2>3, <3>4 DEF Upload, Goto, Exactly
      <4>2. release'[tag[v]] = Built(v) \cup staged[v] /\ pc'[v] = "uploaded"
          BY <2>3, <3>2, <3>4, <4>1 DEF Upload, Goto, TypeOK
      <4> QED BY <2>1, <3>1, <4>2 DEF Exactly
    <3>5. CASE UploadFails(w)
        BY <2>3, <3>5 DEF UploadFails, Goto, TypeOK, Exactly
    <3> QED BY <1>3, <3>3, <3>4, <3>5
  <2> QED BY <2>2, <2>3
<1>4. ASSUME Commit \/ Vanish \/ Tick \/ UNCHANGED vars PROVE Exactly(v)'
  <2>1. UNCHANGED <<release, pc, job, sha, staged, tag>>
    BY <1>4 DEF Commit, Vanish, Tick, vars, local
  <2> QED BY <1>1, <2>1, ExactlyKept
<1> QED BY <1>2, <1>3, <1>4 DEF Next, Publish

(* What a commit offers. *)
Offer(c, releases) ==
    [recipes |-> c.recipes,
     assets  |-> IF c.lock = None THEN None ELSE releases[c.lock.tag]]

(* When the releases of pushed locks stay, a commit on top of the branch   *)
(* is one on top of the offers.                                            *)
LEMMA OffersGrow ==
    ASSUME TypeOK, \A i \in Locked : release'[branch[i].lock.tag] = release[branch[i].lock.tag],
           NEW c, branch' = Append(branch, c)
    PROVE  Offered' = Append(Offered, Offer(c, release'))
<1> DEFINE n == Len(branch)
<1>1. n \in Nat /\ DOMAIN branch = 1 .. n /\ DOMAIN branch' = 1 .. n + 1
    BY DEF TypeOK
<1>2. branch'[n + 1] = c /\ \A i \in 1 .. n : branch'[i] = branch[i]
    BY DEF TypeOK
<1>3. DOMAIN Offered = 1 .. n /\ DOMAIN Offered' = 1 .. n + 1
    BY <1>1 DEF Offered
<1>4. \A i \in 1 .. n : Offered'[i] = Offered[i]
    BY <1>1, <1>2 DEF Offered, Locked
<1>5. Offered'[n + 1] = Offer(c, release')
    BY <1>1, <1>2 DEF Offered, Offer
<1>6. Len(Offered) = n /\ Offered \in Seq({Offered[i] : i \in 1 .. n})
  <2>1. Offered = [i \in 1 .. n |-> Offered[i]]
    BY <1>1 DEF Offered
  <2> QED BY <1>1, <2>1
<1>7. Offered' = [i \in 1 .. n + 1 |-> Offered'[i]]
    BY <1>1 DEF Offered
<1> HIDE DEF n
<1> QED BY <1>1, <1>3, <1>4, <1>5, <1>6, <1>7

LEMMA OffersStay ==
    ASSUME TypeOK, \A i \in Locked : release'[branch[i].lock.tag] = release[branch[i].lock.tag],
           branch' = branch
    PROVE  Offered' = Offered
BY DEF Offered, Locked

LEMMA LastOffer ==
    TypeOK => /\ Len(branch) \in DOMAIN branch
              /\ Len(Offered) = Len(branch) /\ DOMAIN Offered = DOMAIN branch
              /\ \A i \in DOMAIN branch : Offered[i] = Offer(branch[i], release)
<1> SUFFICES ASSUME TypeOK
             PROVE  /\ Len(branch) \in DOMAIN branch
                    /\ Len(Offered) = Len(branch) /\ DOMAIN Offered = DOMAIN branch
                    /\ \A i \in DOMAIN branch : Offered[i] = Offer(branch[i], release)
    OBVIOUS
<1>1. Len(branch) \in Nat /\ DOMAIN branch = 1 .. Len(branch) /\ Len(branch) >= 1
    BY DEF TypeOK
<1>2. DOMAIN Offered = 1 .. Len(branch)
    BY <1>1 DEF Offered
<1> QED BY <1>1, <1>2 DEF Offered, Offer

Ended == {w \in Runs : pc[w] = "done"}

LEMMA PushRefines ==
    ASSUME IInv, HoldsExactly, NEW w \in Runs, Push(w),
           \A i \in Locked : release'[branch[i].lock.tag] = release[branch[i].lock.tag]
    PROVE  Consumed!Next
<1> DEFINE c == [recipes |-> CheckedOut(w).recipes, lock |-> lock[w]]
           b == sha[w]
<1>1. /\ branch' = Append(branch, c) /\ release' = release
      /\ base[w] = Len(branch) /\ CheckedOut(w) = branch[Len(branch)]
    BY DEF Push, CheckedOut
<1>2. /\ lock[w] = [tag |-> tag[w], lines |-> Built(w)]
      /\ staged[w] = PinsOf[CheckedOut(w).recipes] /\ JobsSucceeded(w)
      /\ release[tag[w]] = Built(w) \cup staged[w] /\ release[tag[w]] # None
    BY DEF Push, Goto, IInv, Holds, Steps, HoldsExactly, Exactly, OwnsRelease, Owns
<1>3. Built(w) = {<<p, branch[b].recipes, w>> : p \in Platforms}
    BY <1>2 DEF Built, JobsSucceeded
<1>4. b \in DOMAIN branch
    BY Positions DEF IInv
<1>5. lock[w] # None
  <2>1. [tag |-> tag[w], lines |-> Built(w)] \in [tag : Tags, lines : SUBSET Archives]
    BY BuiltType DEF IInv, TypeOK
  <2> QED BY <1>2, <2>1, NoneIsNoLock
<1>6. Offered' = Append(Offered, Offer(c, release'))
    BY <1>1, OffersGrow DEF IInv
<1>7. c.lock = lock[w] /\ c.lock.tag = tag[w] /\ c.recipes = branch[Len(branch)].recipes
    BY <1>1, <1>2
<1>8. Offer(c, release') = [recipes |-> c.recipes, assets |-> release[tag[w]]]
    BY <1>1, <1>2, <1>5, <1>7 DEF Offer
<1>9. /\ Offered[Len(Offered)].recipes = c.recipes
      /\ Offered[b].recipes = branch[b].recipes /\ b \in DOMAIN Offered
    BY <1>4, <1>7, LastOffer DEF IInv, Offer
<1>10. release[tag[w]] = {<<p, Offered[b].recipes, w>> : p \in Platforms} \cup PinsOf[c.recipes]
    BY <1>1, <1>2, <1>3, <1>9
<1>11. /\ w \notin Ended /\ Ended' = Ended \cup {w}
    BY DEF Push, Goto, IInv, TypeOK, Ended
<1> HIDE DEF c, b
<1>12. Consumed!Publish(w, b)
    BY <1>6, <1>8, <1>9, <1>10, <1>11 DEF Consumed!Publish, Consumed!Last, Ended
<1> QED BY <1>9, <1>12 DEF Consumed!Next, Consumed!Publish

LEMMA CommitRefines ==
    ASSUME IInv, Commit,
           \A i \in Locked : release'[branch[i].lock.tag] = release[branch[i].lock.tag]
    PROVE  Consumed!Next
<1> DEFINE last == branch[Len(branch)]
<1>1. PICK r \in Recipes : branch' = Append(branch, [last EXCEPT !.recipes = r])
    BY DEF Commit
<1> DEFINE c == [last EXCEPT !.recipes = r]
<1>2. release' = release /\ Ended' = Ended
    BY DEF Commit, Ended
<1>3. last \in [recipes : Recipes, lock : Locks] /\ Offered[Len(Offered)] = Offer(last, release)
    BY CommitType, LastOffer DEF IInv
<1>4. c.recipes = r /\ c.lock = last.lock
    BY <1>3
<1>5. Offered' = Append(Offered, Offer(c, release'))
    BY <1>1, OffersGrow DEF IInv
<1>6. Offer(c, release') = [Offer(last, release) EXCEPT !.recipes = r]
    BY <1>2, <1>4 DEF Offer
<1> HIDE DEF c, last
<1>7. Consumed!Commit(r)
    BY <1>2, <1>3, <1>5, <1>6 DEF Consumed!Commit, Consumed!Last, Ended
<1> QED BY <1>7 DEF Consumed!Next

(* Every other step is invisible to those who check out a commit. *)
LEMMA OthersStutter ==
    ASSUME IInv, [Next]_vars, ~Commit, \A w \in Runs : ~Push(w),
           \A i \in Locked : release'[branch[i].lock.tag] = release[branch[i].lock.tag]
    PROVE  UNCHANGED <<Offered, Ended>>
<1>1. branch' = branch
    BY DEF Next, Publish, Dispatch, BuildJob, SkipCollect, Collect, TakeTag, Mirror, Merge,
       CreateRelease, Upload, UploadFails, CollectFails, Rerun, Vanish, Tick, vars
<1>2. Offered' = Offered
    BY <1>1, OffersStay DEF IInv
<1>3. \A v \in Runs : pc'[v] = "done" <=> pc[v] = "done"
    BY DEF Next, Publish, Dispatch, BuildJob, SkipCollect, Collect, TakeTag, Mirror, Merge,
       CreateRelease, Upload, UploadFails, CollectFails, Rerun, Vanish, Tick, vars, Goto, IInv,
       TypeOK, Steps
<1> QED BY <1>2, <1>3 DEF Ended

LEMMA InitRefines == Init => Consumed!Init
<1> SUFFICES ASSUME Init PROVE Consumed!Init
    OBVIOUS
<1>1. PICK r \in Recipes : branch = <<[recipes |-> r, lock |-> None]>>
    BY DEF Init
<1>2. Offered = <<[recipes |-> r, assets |-> None]>>
    BY <1>1 DEF Offered
<1>3. Ended = {}
    BY DEF Init, Ended
<1> QED BY <1>2, <1>3 DEF Consumed!Init, Ended

LEMMA StepRefines ==
    IInv /\ HoldsExactly /\ [Next]_vars => [Consumed!Next]_Consumed!vars
<1> SUFFICES ASSUME IInv, HoldsExactly, [Next]_vars PROVE [Consumed!Next]_Consumed!vars
    OBVIOUS
<1>1. \A i \in Locked : release'[branch[i].lock.tag] = release[branch[i].lock.tag]
    BY ReferencedKept
<1>2. CASE Commit
    BY <1>1, <1>2, CommitRefines
<1>3. CASE \E w \in Runs : Push(w)
    BY <1>1, <1>3, PushRefines
<1>4. CASE ~Commit /\ \A w \in Runs : ~Push(w)
    BY <1>1, <1>4, OthersStutter DEF Consumed!vars, Ended
<1> QED BY <1>2, <1>3, <1>4

(* For whoever checks out a commit, the workflow publishes atomically: the *)
(* tag, the mirror, the uploads and the push of build_release.yml, done by *)
(* any number of runs side by side, are steps of AtomicRelease.            *)
THEOREM AtomicReleaseImplemented == Spec => ImplementsAtomicRelease
<1>1. Init => HoldsExactly
    BY DEF Init, HoldsExactly, Exactly
<1>2. Spec => []HoldsExactly
    BY <1>1, ExactlyInv, Invariance, PTL DEF Spec
<1> QED
    BY <1>2, InitRefines, StepRefines, Invariance, PTL
    DEF Spec, ImplementsAtomicRelease, Consumed!Spec
=============================================================================
