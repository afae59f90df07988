--------------------------- MODULE SourceDelivery ---------------------------
(***************************************************************************)
(* One pinned source of one dependency, on its way from upstream through   *)
(* the download cache into the directories of several build trees.  The    *)
(* code that delivers it is one of five (Kinds):                           *)
(*                                                                         *)
(*   tarball, git   DEP_SOURCES of a source dependency, populated under    *)
(*                  the local path and stamped with .populated;            *)
(*   source_url     DEP_SOURCE_URL of a build, extracted into its work     *)
(*                  directory, which is removed first;                     *)
(*   stage_source, stage_git   what crashpad_handler's build.cmake adds to *)
(*                  its build directory.                                   *)
(*                                                                         *)
(* The cached tarball <downloads>/<basename> and clone <subdir>.git belong *)
(* to the user: trees with different pins share them without a lock, and   *)
(* neither name carries the pin.  A directory has two parts, enough to be  *)
(* missing, half removed, half copied, mixed or whole.  How a file that is *)
(* read while others write it looks part by part is ArchiveCache's matter. *)
(***************************************************************************)
EXTENDS Naturals, Sequences

CONSTANTS
    Trees,       \* build trees, each with a directory of its own
    Revisions,   \* revisions of the recipe: tarball SHA-256 or commit, patches
    Kinds,       \* the kinds of delivery the instance chooses from
    Attempts,    \* downloads tried for each URL: 3 in the code
    Patches,     \* patches of the recipe
    MaxKills,    \* bound: how many processes are killed
    None,        \* nothing there
    Partial,     \* a file cut short
    Foreign      \* whatever else a server sends or a clone checks out

AllKinds == {"tarball", "git", "source_url", "stage_source", "stage_git"}

ASSUME KindsAssumption    == Kinds \subseteq AllKinds
ASSUME AttemptsAssumption == Attempts \in Nat \ {0}
ASSUME PatchesAssumption  == Patches \in Nat
ASSUME KillsAssumption    == MaxKills \in Nat
ASSUME ContentsAssumption ==
    /\ None # Partial /\ None # Foreign /\ Partial # Foreign
    /\ {None, Partial, Foreign} \cap Revisions = {}

VARIABLES
    kind,        \* how this source is delivered
    good,        \* the URLs that serve what is pinned
    tarball,     \* the cached tarball
    writers,     \* the trees that are downloading into that very file
    clone,       \* the cached clone: its state, commits, lock, HEAD and files
    published,   \* the commits that exist upstream
    pc,          \* where each tree's process is, or how it ended
    pin,         \* the revision of its recipe, or None after an unfinished run
    url,         \* the URL that _bd_fetch is at
    tries,       \* rounds of the running loop: attempts for a URL, or patches
    dir,         \* the tree's directory: its two parts, patches and stamp
    verified,    \* the process has compared the cache with its pin
    disturbed,   \* since it began or compared, another one put the cache off its pin
    vouched,     \* the directory was filled from a cache verified and undisturbed
    found,       \* a whole clone was there when the process began
    kills,
    remains,     \* what killed processes left in the cache and is still there
    proven       \* some process found the cached tarball, as it is, to be its pin

cache   == <<tarball, writers, clone>>
loop    == <<url, tries>>
history == <<verified, disturbed, vouched, found>>
past    == <<kills, remains, proven>>
fixed   == <<kind, good>>
vars    == <<fixed, cache, published, pc, pin, loop, dir, history, past>>

Populates == kind \in {"tarball", "git"}
IsGit     == kind \in {"git", "stage_git"}

AtRestPCs == {"idle", "done"}
PCs == AtRestPCs \cup
       {"remove", "remove_rest", "look", "hash", "download", "downloading", "check",
        "discard", "extract", "extract_rest", "clone", "cloning", "fetch", "checkout",
        "checking_out", "rev_parse", "copy", "copy_rest", "patch"}

(* No loop runs longer. *)
Rounds == IF Attempts > Patches THEN Attempts ELSE Patches

Urls == <<"first", "second">>

NoClone == [state |-> "absent", has |-> {}, lock |-> FALSE, head |-> None,
            a |-> None, b |-> None]
NoDir   == [a |-> None, b |-> None, patches |-> 0, stamp |-> None]

Init ==
    /\ kind \in Kinds
    /\ good \in IF IsGit THEN {{}} ELSE SUBSET (1..Len(Urls))
    /\ tarball = None
    /\ writers = {}
    /\ clone = NoClone
    /\ published \in IF IsGit THEN { {r} : r \in Revisions } ELSE {Revisions}
    /\ pc = [t \in Trees |-> "idle"]
    /\ pin = [t \in Trees |-> None]
    /\ url = [t \in Trees |-> 1]
    /\ tries = [t \in Trees |-> 0]
    /\ dir = [t \in Trees |-> NoDir]
    /\ verified = [t \in Trees |-> FALSE]
    /\ disturbed = [t \in Trees |-> FALSE]
    /\ vouched = [t \in Trees |-> FALSE]
    /\ found = [t \in Trees |-> FALSE]
    /\ kills = 0
    /\ remains = {}
    /\ proven = FALSE

-----------------------------------------------------------------------------
AtRest(t) == pc[t] \in AtRestPCs

Goto(t, l) == pc' = [pc EXCEPT ![t] = l]

(* The processes whose result still depends on the cache. *)
Depends(t) == ~AtRest(t) /\ pc[t] \notin {"extract_rest", "patch"}

(* The cached source is what tree t is pinned to. *)
HoldsPin(t) ==
    IF IsGit THEN clone.head = pin[t] /\ clone.a = pin[t] /\ clone.b = pin[t]
             ELSE tarball = pin[t]

(* Where a process is answerable for what the name of the tarball holds. *)
Filling == {"downloading", "check", "discard"}

(* Another process is in the middle of changing the cached source. *)
InFlux == \E q \in Trees : pc[q] \in Filling \cup {"cloning", "checking_out"}

Leavings == {"tarball", "clone", "lock"}

(* t has changed the cache: those that depend on it and whose pin is not   *)
(* there now are disturbed.  Read the new cache, so put it last.           *)
Disturb(t) ==
    disturbed' = [q \in Trees |->
                    disturbed[q] \/ (q # t /\ Depends(q) /\ ~HoldsPin(q)')]

Verify(t) ==
    /\ verified' = [verified EXCEPT ![t] = TRUE]
    /\ disturbed' = [disturbed EXCEPT ![t] = FALSE]
    /\ UNCHANGED <<vouched, found>>

(* t found the cached tarball to be its pin. *)
Prove(t) ==
    /\ Verify(t)
    /\ remains' = remains \ {"tarball"}
    /\ proven' = TRUE
    /\ UNCHANGED kills

(* The cached tarball is another one now, or none. *)
Unproven ==
    /\ remains' = remains \ {"tarball"}
    /\ proven' = FALSE
    /\ UNCHANGED kills

(* The subdirectory of the source exists in t's directory. *)
Present(t) == dir[t].a # None \/ dir[t].b # None

(* What the run keeps for itself is forgotten. *)
Settle(t) ==
    /\ url' = [url EXCEPT ![t] = 1]
    /\ tries' = [tries EXCEPT ![t] = 0]
    /\ verified' = [verified EXCEPT ![t] = FALSE]
    /\ disturbed' = [disturbed EXCEPT ![t] = FALSE]
    /\ found' = [found EXCEPT ![t] = FALSE]

(* A fatal error: cmake stops where it is. *)
Fatal(t) ==
    /\ Goto(t, "idle")
    /\ pin' = [pin EXCEPT ![t] = None]
    /\ Settle(t)
    /\ UNCHANGED <<fixed, cache, published, dir, vouched, past>>

(* A step that leaves everything alone but the place of the process. *)
Move(t, l) ==
    /\ Goto(t, l)
    /\ UNCHANGED <<fixed, cache, published, pin, loop, dir, history, past>>

-----------------------------------------------------------------------------
(* A configure or a build of tree t, whose recipe is at r by now.  A source *)
(* dependency whose stamp is the wanted one is used as it is.               *)
Start(t, r) ==
    /\ AtRest(t)
    /\ r \in published
    /\ pin' = [pin EXCEPT ![t] = r]
    /\ IF Populates /\ dir[t].stamp = r
       THEN Goto(t, "done") /\ UNCHANGED <<disturbed, found>>
       ELSE /\ Goto(t, "remove")
            /\ disturbed' = [disturbed EXCEPT ![t] = InFlux]
            /\ found' = [found EXCEPT ![t] = clone.state = "whole"]
    /\ UNCHANGED <<fixed, cache, published, loop, dir, verified, vouched, past>>

(* file(REMOVE_RECURSE) takes files away in the order of the directory. *)
RemoveSome(t) ==
    /\ pc[t] = "remove"
    /\ \E a \in {dir[t].a, None}, b \in {dir[t].b, None}, s \in {dir[t].stamp, None} :
           dir' = [dir EXCEPT ![t] = [@ EXCEPT !.a = a, !.b = b, !.stamp = s]]
    /\ vouched' = [vouched EXCEPT ![t] = FALSE]
    /\ Goto(t, "remove_rest")
    /\ UNCHANGED <<fixed, cache, published, pin, loop, verified, disturbed, found, past>>

RemoveRest(t) ==
    /\ pc[t] = "remove_rest"
    /\ dir' = [dir EXCEPT ![t] = NoDir]
    /\ Goto(t, "look")
    /\ UNCHANGED <<fixed, cache, published, pin, loop, history, past>>

(* Is the source in the cache?  A cached tarball of a source dependency is *)
(* taken as it is, the others are compared with the pin.                   *)
Look(t) ==
    /\ pc[t] = "look"
    /\ Move(t, CASE IsGit /\ clone.state = "absent"   -> "clone"
                 [] kind = "git" /\ clone.state # "absent"       -> "checkout"
                 [] kind = "stage_git" /\ clone.state # "absent" -> "fetch"
                 [] ~IsGit /\ tarball = None          -> "download"
                 [] kind = "tarball" /\ tarball # None -> "extract"
                 [] OTHER                             -> "hash")

(* Faulty variant: any recorded tarball of that name will do. *)
MatchesByName(t) == tarball \in Revisions

Matches(t) == tarball = pin[t]

Hash(t) ==
    /\ pc[t] = "hash"
    /\ tarball # None
    /\ Matches(t)
    /\ Prove(t)
    /\ Goto(t, "extract")
    /\ UNCHANGED <<fixed, cache, published, pin, loop, dir>>

HashDiffers(t) ==
    /\ pc[t] = "hash"
    /\ tarball # None
    /\ ~Matches(t)
    /\ Fatal(t)

(* Hashing or extracting a name that is gone is a fatal error. *)
Vanished(t) ==
    /\ pc[t] \in {"hash", "check", "extract"}
    /\ tarball = None
    /\ Fatal(t)

-----------------------------------------------------------------------------
(* _bd_fetch: each URL in turn, the mirror before upstream or (in the      *)
(* crashpad script) after it, a number of attempts each.                   *)

(* Faulty variant: the attempts count from 0 to Attempts. *)
AttemptLeftFromZero(t) == tries[t] <= Attempts

AttemptLeft(t) == tries[t] < Attempts

OpenForDownload(t) ==
    /\ pc[t] = "download"
    /\ AttemptLeft(t)
    /\ tarball' = Partial
    /\ writers' = writers \cup {t}
    /\ tries' = [tries EXCEPT ![t] = @ + 1]
    /\ Unproven
    /\ Goto(t, "downloading")
    /\ UNCHANGED <<fixed, clone, published, pin, url, dir, verified, vouched, found>>
    /\ Disturb(t)

(* What a URL sends with status 0: a mirror's label and a basename may     *)
(* stand for another tarball.                                              *)
Sends(u, r) == IF u \in good THEN {r} ELSE Revisions \cup {Foreign}

(* A file whose name was removed meanwhile is written in vain; two writers *)
(* of one file may leave anything.                                         *)
Downloaded(t) ==
    /\ pc[t] = "downloading"
    /\ IF t \in writers
       THEN /\ tarball' \in Sends(url[t], pin[t]) \cup
                             (IF writers = {t} THEN {} ELSE {Foreign})
            /\ proven' = FALSE
       ELSE UNCHANGED <<tarball, proven>>
    /\ writers' = writers \ {t}
    /\ Goto(t, "check")
    /\ UNCHANGED <<fixed, clone, published, pin, loop, dir, verified, vouched, found,
                   kills, remains>>
    /\ Disturb(t)

(* Faulty variant: what a failed download left stays in the cache. *)
DownloadFailsKeepsFile(t) ==
    /\ pc[t] = "downloading"
    /\ url[t] \in good => tries[t] < Attempts
    /\ writers' = writers \ {t}
    /\ Goto(t, "download")
    /\ UNCHANGED <<fixed, tarball, clone, published, pin, loop, dir, history, past>>

(* A status other than 0.  A URL that serves the pin fails for a while but *)
(* not in every attempt.                                                   *)
DownloadFails(t) ==
    /\ pc[t] = "downloading"
    /\ url[t] \in good => tries[t] < Attempts
    /\ writers' = writers \ {t}
    /\ Goto(t, "discard")
    /\ UNCHANGED <<fixed, tarball, clone, published, pin, loop, dir, history, past>>

Check(t) ==
    /\ pc[t] = "check"
    /\ tarball # None
    /\ Matches(t)
    /\ Prove(t)
    /\ Goto(t, "extract")
    /\ UNCHANGED <<fixed, cache, published, pin, loop, dir>>

(* Faulty variant: a tarball that differs is not removed. *)
CheckDiffersKeepsFile(t) ==
    /\ pc[t] = "check"
    /\ tarball # None
    /\ ~Matches(t)
    /\ Move(t, "download")

CheckDiffers(t) ==
    /\ pc[t] = "check"
    /\ tarball # None
    /\ ~Matches(t)
    /\ Move(t, "discard")

Discard(t) ==
    /\ pc[t] = "discard"
    /\ tarball' = None
    /\ writers' = {}
    /\ Unproven
    /\ Goto(t, "download")
    /\ UNCHANGED <<fixed, clone, published, pin, loop, dir, verified, vouched, found>>
    /\ Disturb(t)

NextUrl(t) ==
    /\ pc[t] = "download"
    /\ ~AttemptLeft(t)
    /\ url[t] < Len(Urls)
    /\ url' = [url EXCEPT ![t] = @ + 1]
    /\ tries' = [tries EXCEPT ![t] = 0]
    /\ UNCHANGED <<fixed, cache, published, pc, pin, dir, history, past>>

(* Faulty variant: the first URL that does not deliver ends the fetch. *)
FirstUrlFails(t) ==
    /\ pc[t] = "download"
    /\ ~AttemptLeft(t)
    /\ Fatal(t)

AllUrlsFail(t) ==
    /\ pc[t] = "download"
    /\ ~AttemptLeft(t)
    /\ url[t] = Len(Urls)
    /\ Fatal(t)

(* Extract aside and rename: the source arrives as a whole or not at all.  *)
(* A source that is there already is left as it is.                        *)
Extract(t) ==
    /\ pc[t] = "extract"
    /\ kind # "stage_source"
    /\ tarball \notin {None, Partial}
    /\ dir' = IF Present(t) THEN dir
              ELSE [dir EXCEPT ![t] = [@ EXCEPT !.a = tarball, !.b = tarball]]
    /\ vouched' = [vouched EXCEPT ![t] = verified[t] /\ ~disturbed[t]]
    /\ Settle(t)
    /\ Goto(t, "patch")
    /\ UNCHANGED <<fixed, cache, published, pin, past>>

(* The crashpad script extracts aside and copies, file by file. *)
ExtractAndCopy(t) ==
    /\ pc[t] = "extract"
    /\ kind = "stage_source"
    /\ tarball \notin {None, Partial}
    /\ dir' = [dir EXCEPT ![t].a = tarball]
    /\ vouched' = [vouched EXCEPT ![t] = verified[t] /\ ~disturbed[t]]
    /\ Settle(t)
    /\ Goto(t, "extract_rest")
    /\ UNCHANGED <<fixed, cache, published, pin, past>>

ExtractRest(t) ==
    /\ pc[t] = "extract_rest"
    /\ dir' = [dir EXCEPT ![t].b = dir[t].a]
    /\ Goto(t, "patch")
    /\ UNCHANGED <<fixed, cache, published, pin, loop, history, past>>

ExtractFails(t) ==
    /\ pc[t] = "extract"
    /\ tarball \in {Partial, Foreign}
    /\ Fatal(t)

-----------------------------------------------------------------------------
(* The cached clone. *)

(* git clone wants a directory that is not there yet. *)
CloneBegins(t) ==
    /\ pc[t] = "clone"
    /\ clone.state = "absent"
    /\ clone' = [NoClone EXCEPT !.state = "begun"]
    /\ Goto(t, "cloning")
    /\ UNCHANGED <<fixed, tarball, writers, published, pin, loop, dir, verified,
                   vouched, found, past>>
    /\ Disturb(t)

CloneCollides(t) ==
    /\ pc[t] = "clone"
    /\ clone.state # "absent"
    /\ Fatal(t)

(* Everything published by now, and the files of the default branch. *)
CloneEnds(t) ==
    /\ pc[t] = "cloning"
    /\ clone' = [NoClone EXCEPT !.state = "whole", !.has = published, !.head = Foreign,
                                !.a = Foreign, !.b = Foreign]
    /\ Goto(t, IF kind = "git" THEN "checkout" ELSE "fetch")
    /\ UNCHANGED <<fixed, tarball, writers, published, pin, loop, dir, history, past>>

(* git takes its directory away when it fails. *)
CloneFails(t) ==
    /\ pc[t] = "cloning"
    /\ clone' = NoClone
    /\ Goto(t, "idle")
    /\ pin' = [pin EXCEPT ![t] = None]
    /\ Settle(t)
    /\ UNCHANGED <<fixed, tarball, writers, published, dir, vouched, past>>

(* The crashpad script fetches its commit; a source dependency does not. *)
Fetch(t) ==
    /\ pc[t] = "fetch"
    /\ clone.state = "whole"
    /\ clone' = [clone EXCEPT !.has = @ \cup {pin[t]}]
    /\ Goto(t, "checkout")
    /\ UNCHANGED <<fixed, tarball, writers, published, pin, loop, dir, history, past>>

(* No network, or no repository in that directory. *)
GitFails(t) ==
    /\ \/ pc[t] = "fetch"
       \/ pc[t] = "checkout" /\ clone.state # "whole"
    /\ Fatal(t)

Checkout(t) ==
    /\ pc[t] = "checkout"
    /\ clone.state = "whole" /\ ~clone.lock /\ pin[t] \in clone.has
    /\ clone' = [clone EXCEPT !.lock = TRUE, !.a = pin[t]]
    /\ Goto(t, "checking_out")
    /\ UNCHANGED <<fixed, tarball, writers, published, pin, loop, dir, verified,
                   vouched, found, past>>
    /\ Disturb(t)

CheckoutEnds(t) ==
    /\ pc[t] = "checking_out"
    /\ clone' = [clone EXCEPT !.lock = FALSE, !.b = pin[t], !.head = pin[t]]
    /\ Goto(t, "rev_parse")
    /\ UNCHANGED <<fixed, tarball, writers, published, pin, loop, dir, verified,
                   vouched, found, past>>
    /\ Disturb(t)

(* index.lock is there: of another process, or of one that was killed. *)
CheckoutLocked(t) ==
    /\ pc[t] = "checkout"
    /\ clone.state = "whole" /\ clone.lock
    /\ Fatal(t)

CheckoutUnknown(t) ==
    /\ pc[t] = "checkout"
    /\ clone.state = "whole" /\ ~clone.lock /\ pin[t] \notin clone.has
    /\ Fatal(t)

(* rev-parse sees HEAD, not the files: another checkout may be under way. *)
RevParse(t) ==
    /\ pc[t] = "rev_parse"
    /\ clone.head = pin[t]
    /\ verified' = [verified EXCEPT ![t] = TRUE]
    /\ disturbed' = [disturbed EXCEPT ![t] = ~HoldsPin(t)]
    /\ Goto(t, "copy")
    /\ UNCHANGED <<fixed, cache, published, pin, loop, dir, vouched, found, past>>

HeadDiffers(t) ==
    /\ pc[t] = "rev_parse"
    /\ clone.head # pin[t]
    /\ Fatal(t)

(* A directory that is there already is left as it is. *)
Copy(t) ==
    /\ pc[t] = "copy"
    /\ IF Present(t)
       THEN Goto(t, "patch") /\ UNCHANGED dir
       ELSE /\ dir' = [dir EXCEPT ![t].a = clone.a]
            /\ Goto(t, "copy_rest")
    /\ UNCHANGED <<fixed, cache, published, pin, loop, history, past>>

CopyRest(t) ==
    /\ pc[t] = "copy_rest"
    /\ dir' = [dir EXCEPT ![t].b = clone.b]
    /\ vouched' = [vouched EXCEPT ![t] = verified[t] /\ ~disturbed[t]]
    /\ Settle(t)
    /\ Goto(t, "patch")
    /\ UNCHANGED <<fixed, cache, published, pin, past>>

-----------------------------------------------------------------------------
(* Patches, one by one, then the stamp. *)

(* The crashpad script patches what it stages from a tarball (on Windows), *)
(* and nothing that it stages from git.                                    *)
PatchCount == IF kind = "stage_git" THEN 0 ELSE Patches

Whole(t) == dir[t].a = pin[t] /\ dir[t].b = pin[t]

(* A patch that is in already does not apply; to other files than those it *)
(* was made for, it may or may not.                                        *)
ApplyPatch(t) ==
    /\ pc[t] = "patch"
    /\ tries[t] < PatchCount
    /\ dir[t].patches = tries[t]
    /\ tries' = [tries EXCEPT ![t] = @ + 1]
    /\ dir' = [dir EXCEPT ![t].patches = @ + 1]
    /\ UNCHANGED <<fixed, cache, published, pc, pin, url, history, past>>

PatchFails(t) ==
    /\ pc[t] = "patch"
    /\ tries[t] < PatchCount
    /\ ~Whole(t) \/ dir[t].patches # tries[t]
    /\ Fatal(t)

(* Faulty variant: the stamp does not wait for the patches. *)
FinishEarly(t) ==
    /\ pc[t] = "patch"
    /\ dir' = [dir EXCEPT ![t].stamp = IF Populates THEN pin[t] ELSE @]
    /\ Goto(t, IF tries[t] = PatchCount THEN "done" ELSE pc[t])
    /\ UNCHANGED <<fixed, cache, published, pin, loop, history, past>>

Finish(t) ==
    /\ pc[t] = "patch"
    /\ tries[t] = PatchCount
    /\ dir' = [dir EXCEPT ![t].stamp = IF Populates THEN pin[t] ELSE @]
    /\ Goto(t, "done")
    /\ Settle(t)
    /\ UNCHANGED <<fixed, cache, published, pin, vouched, past>>

-----------------------------------------------------------------------------
(* What t's process leaves in the cache if it ends here: a tarball that it *)
(* would still have checked or removed, a begun clone, a lock.             *)
LeftBy(t) ==
    {x \in Leavings :
        \/ x = "tarball" /\ pc[t] \in Filling /\ tarball # None /\ ~proven
        \/ x = "clone" /\ pc[t] = "cloning"
        \/ x = "lock" /\ pc[t] = "checking_out"}

(* The process is killed and cleans nothing up. *)
Kill(t) ==
    /\ ~AtRest(t)
    /\ kills < MaxKills
    /\ kills' = kills + 1
    /\ remains' = remains \cup LeftBy(t)
    /\ writers' = writers \ {t}
    /\ Goto(t, "idle")
    /\ pin' = [pin EXCEPT ![t] = None]
    /\ Settle(t)
    /\ UNCHANGED <<fixed, tarball, clone, published, dir, vouched, proven>>

(* Upstream gains a commit and a tarball. *)
Publish(r) ==
    /\ r \notin published
    /\ published' = published \cup {r}
    /\ UNCHANGED <<fixed, cache, pc, pin, loop, dir, history, past>>

Step(t) ==
    \/ RemoveSome(t) \/ RemoveRest(t) \/ Look(t)
    \/ Hash(t) \/ HashDiffers(t) \/ Vanished(t)
    \/ OpenForDownload(t) \/ Downloaded(t) \/ DownloadFails(t)
    \/ Check(t) \/ CheckDiffers(t) \/ Discard(t) \/ NextUrl(t) \/ AllUrlsFail(t)
    \/ Extract(t) \/ ExtractAndCopy(t) \/ ExtractRest(t) \/ ExtractFails(t)
    \/ CloneBegins(t) \/ CloneCollides(t) \/ CloneEnds(t) \/ CloneFails(t)
    \/ Fetch(t) \/ GitFails(t)
    \/ Checkout(t) \/ CheckoutEnds(t) \/ CheckoutLocked(t) \/ CheckoutUnknown(t)
    \/ RevParse(t) \/ HeadDiffers(t) \/ Copy(t) \/ CopyRest(t)
    \/ ApplyPatch(t) \/ PatchFails(t) \/ Finish(t)

Next ==
    \/ \E t \in Trees :
           \/ \E r \in Revisions : Start(t, r)
           \/ Step(t)
           \/ Kill(t)
    \/ \E r \in Revisions : Publish(r)

Spec == Init /\ [][Next]_vars

-----------------------------------------------------------------------------
Files  == Revisions \cup {None, Foreign}
Clones == [state : {"absent", "begun", "whole"}, has : SUBSET Revisions,
           lock : BOOLEAN, head : Files, a : Files, b : Files]
Dirs   == [a : Files, b : Files, patches : 0..Patches, stamp : Revisions \cup {None}]

TypeOK ==
    /\ kind \in Kinds
    /\ good \in SUBSET (1..Len(Urls))
    /\ tarball \in Files \cup {Partial}
    /\ writers \subseteq Trees
    /\ clone \in Clones
    /\ published \subseteq Revisions
    /\ pc \in [Trees -> PCs]
    /\ pin \in [Trees -> Revisions \cup {None}]
    /\ url \in [Trees -> 1..Len(Urls)]
    /\ tries \in [Trees -> 0..Rounds]
    /\ dir \in [Trees -> Dirs]
    /\ verified \in [Trees -> BOOLEAN]
    /\ disturbed \in [Trees -> BOOLEAN]
    /\ vouched \in [Trees -> BOOLEAN]
    /\ found \in [Trees -> BOOLEAN]
    /\ kills \in 0..MaxKills
    /\ remains \subseteq Leavings
    /\ proven \in BOOLEAN

(* What a tree is given, afresh or on the word of its stamp, is the source *)
(* its recipe pins with every patch in it once, if the cache was compared  *)
(* with the pin and stayed as it was until the source was taken out, and   *)
(* no removal of the directory has begun since; whatever kills, mirrors,   *)
(* pin bumps and other trees did before.                                   *)
DeliveredIsPinned ==
    \A t \in Trees : pc[t] = "done" /\ vouched[t] =>
        Whole(t) /\ dir[t].patches = PatchCount

(* A fatal error that is not the network's has its cause outside the run,  *)
(* one for each error: what a killed process left in the cache and nobody  *)
(* has replaced since; another process that changed the cache meanwhile; a *)
(* cached tarball another revision was found to be; a commit younger than  *)
(* the clone that was there, which a source dependency does not update; or *)
(* a source that was not verified.  No download, clone or fetch that       *)
(* fails, and no revision that came before, is one.                        *)
FatalHasCause ==
    [][\A t \in Trees :
        /\ HashDiffers(t) => disturbed[t] \/ "tarball" \in remains \/ proven
        /\ ExtractFails(t) => disturbed[t] \/ "tarball" \in remains
        /\ Vanished(t) \/ HeadDiffers(t) \/ CloneCollides(t) => disturbed[t]
        /\ GitFails(t) /\ clone.state # "whole" => disturbed[t] \/ "clone" \in remains
        /\ CheckoutLocked(t) => \/ "lock" \in remains
                                \/ \E q \in Trees : pc[q] = "checking_out"
        /\ CheckoutUnknown(t) => kind = "git" /\ found[t]
        /\ PatchFails(t) => ~vouched[t]]_vars

(* In whichever order the URLs are tried, a fetch nobody disturbs fails    *)
(* only if none of them serves the pinned tarball: wrong tarballs of the   *)
(* other URL and passing failures do not stop it.                          *)
FetchFindsThePin == [][\A t \in Trees : AllUrlsFail(t) => disturbed[t] \/ good = {}]_vars

(* Whenever nobody is at work, the cached tarball is one that some tree    *)
(* verified, or what a killed process left: that much a source dependency, *)
(* which does not compare, can rely on.                                    *)
RestingTarballWasVerified ==
    (\A t \in Trees : AtRest(t)) /\ tarball # None => proven \/ "tarball" \in remains

-----------------------------------------------------------------------------
(* The strengthening that makes the properties inductive.                  *)

Fetching      == {"download", "downloading", "check", "discard"}
TarballPlaces == {"hash", "extract"} \cup Fetching
ClonePlaces   == {"clone", "cloning", "fetch", "checkout", "checking_out",
                  "rev_parse", "copy", "copy_rest"}
Cleared       == {"look"} \cup TarballPlaces \cup (ClonePlaces \ {"copy_rest"})
Unverified    == {"remove", "remove_rest", "look", "hash", "extract"} \cup Fetching
Cloning       == {"remove", "remove_rest", "look", "clone", "cloning", "fetch", "checkout"}

(* What a tree knows of itself: its directory is empty from the removal to *)
(* the delivery, the patches in it are those of this run, and its counters *)
(* start afresh.                                                           *)
Local(t) ==
    /\ pc[t] # "idle" => pin[t] \in Revisions /\ pin[t] \in published
    /\ pc[t] \in TarballPlaces => ~IsGit
    /\ pc[t] \in ClonePlaces => IsGit
    /\ pc[t] = "fetch" => kind = "stage_git"
    /\ pc[t] \in Cleared => dir[t] = NoDir
    /\ pc[t] = "extract_rest" => kind = "stage_source"
    /\ pc[t] \in {"copy_rest", "extract_rest"} =>
           dir[t].b = None /\ dir[t].patches = 0 /\ dir[t].stamp = None
    /\ pc[t] = "patch" =>
           dir[t].patches = tries[t] /\ tries[t] <= PatchCount /\ dir[t].stamp = None
    /\ pc[t] \in Fetching => tries[t] <= Attempts
    /\ pc[t] \notin Fetching \cup {"extract", "patch"} => url[t] = 1 /\ tries[t] = 0
    /\ verified[t] => pc[t] \in {"extract", "copy", "copy_rest"}

(* What a vouched directory holds, and what its stamp then says. *)
Vouched(t) ==
    vouched[t] =>
        /\ pc[t] = "extract_rest" => dir[t].a = pin[t]
        /\ pc[t] \in {"patch", "done"} => Whole(t)
        /\ pc[t] = "done" => dir[t].patches = PatchCount
        /\ dir[t].stamp # None => /\ dir[t].a = dir[t].stamp
                                  /\ dir[t].b = dir[t].stamp
                                  /\ dir[t].patches = PatchCount

(* What an undisturbed tree knows of the cache. *)
Known(t) ==
    /\ verified[t] /\ ~disturbed[t] => HoldsPin(t)
    /\ pc[t] = "copy_rest" /\ verified[t] /\ ~disturbed[t] => dir[t].a = pin[t]
    /\ pc[t] \in {"hash", "downloading", "check", "extract"} /\ ~disturbed[t] =>
           tarball # None
    /\ pc[t] = "rev_parse" /\ ~disturbed[t] => clone.head = pin[t]
    /\ pc[t] \in {"checking_out", "rev_parse", "copy", "copy_rest"} => clone.state = "whole"
    /\ pc[t] = "checkout" /\ kind = "stage_git" =>
           clone.state = "whole" /\ pin[t] \in clone.has

(* What a tree knows of the clone before it checks its commit out: it is   *)
(* not there, or whole, or what a killed process left, unless others have  *)
(* disturbed; and a clone made since the tree began has its commit.        *)
KnownClone(t) ==
    /\ pc[t] = "clone" /\ ~disturbed[t] => clone.state = "absent"
    /\ pc[t] \in {"fetch", "checkout"} /\ ~disturbed[t] /\ clone.state # "whole" =>
           "clone" \in remains
    /\ IsGit /\ pc[t] \in Cloning /\ ~found[t] /\ clone.state = "whole" =>
           pin[t] \in clone.has

(* One process clones; a begun clone is its or that of a kill, and so is a *)
(* lock that of a checkout or of a kill.                                   *)
CloneInv ==
    /\ clone.state # "whole" => clone.head = None /\ ~clone.lock
    /\ \A t \in Trees : pc[t] = "cloning" => clone.state = "begun"
    /\ \A t, q \in Trees : pc[t] = "cloning" /\ pc[q] = "cloning" => t = q
    /\ clone.state = "begun" => "clone" \in remains \/ \E q \in Trees : pc[q] = "cloning"
    /\ clone.lock => "lock" \in remains \/ \E q \in Trees : pc[q] = "checking_out"

(* The writers of the cached tarball are downloading, and who downloads    *)
(* undisturbed is one of them.                                             *)
WritersAtWork ==
    /\ \A t \in writers : pc[t] = "downloading"
    /\ \A t \in Trees : ~disturbed[t] /\ pc[t] = "downloading" => t \in writers

(* Somebody is still going to look at a tarball that nobody has verified,  *)
(* unless it was killed; and what is verified is a revision.               *)
RemainsAttended ==
    /\ proven => tarball \in Revisions
    /\ tarball # None /\ ~proven /\ "tarball" \notin remains =>
           \E q \in Trees : pc[q] \in Filling

(* Nobody else fills the cache while a tree that has not verified yet is   *)
(* undisturbed.                                                            *)
AloneInCache ==
    \A t, q \in Trees :
        ~disturbed[t] /\ pc[t] \in Unverified /\ ~verified[t] /\ ~IsGit /\ q # t =>
            pc[q] \notin Filling

(* Nobody else clones while a tree on its way to the clone is undisturbed. *)
AloneAtClone ==
    \A t, q \in Trees :
        ~disturbed[t] /\ pc[t] \in Cloning /\ q # t => pc[q] # "cloning"

(* An undisturbed fetch has not passed a URL that serves the pin, and has  *)
(* attempts left at one that does.                                         *)
FetchInv ==
    \A t \in Trees : ~disturbed[t] =>
        /\ pc[t] \in Fetching => \A u \in good : u >= url[t]
        /\ pc[t] = "check" /\ url[t] \in good => tarball = pin[t]
        /\ pc[t] \in {"download", "discard"} /\ url[t] \in good => tries[t] < Attempts

IInv ==
    /\ TypeOK
    /\ \A t \in Trees : Local(t) /\ Vouched(t) /\ Known(t) /\ KnownClone(t)
    /\ CloneInv
    /\ WritersAtWork
    /\ RemainsAttended
    /\ AloneInCache
    /\ AloneAtClone
    /\ FetchInv

-----------------------------------------------------------------------------
(* README.md:257-260: "Every cached source is re-verified before use, and  *)
(* a SHA mismatch is fatal": what a tree is given is what its recipe pins. *)
EveryDeliveryIsPinned == \A t \in Trees : pc[t] = "done" => Whole(t)
=============================================================================
