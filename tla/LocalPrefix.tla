---------------------------- MODULE LocalPrefix ----------------------------
(***************************************************************************)
(* The local install prefix <LOCAL_ROOT_PATH>/<name> of ONE library or     *)
(* tool, over the whole life of a consumer's build tree: every configure   *)
(* runs extdeps_resolve on it in some mode and configuration, between two  *)
(* configures the submodule may be checked out anywhere else, and any      *)
(* configure may stop halfway (FATAL_ERROR, Ctrl-C, a full disk).          *)
(*                                                                         *)
(* Two stamp files in the prefix decide what a later configure skips:      *)
(*   .prebuilt     the archive name extracted last; the name carries the   *)
(*                 recipe signature, so the model keeps the recipe;        *)
(*   .build_stamp  recipe signature and configuration built last.          *)
(* A recipe stands for the content of <name>/<version>/recipe on this      *)
(* platform, and its SHA-256 signature for the recipe itself.  How the     *)
(* verified archive or the patched sources are obtained is the business of *)
(* the download caches; here they are available or not.                    *)
(***************************************************************************)
EXTENDS Naturals, FiniteSets

CONSTANTS
    Recipes,     \* contents of the recipe directory over time
    Releases,    \* published releases that carry an archive of this dep
    RecipeOf,    \* the recipe each release's archive was built from
    Modes,       \* the modes the manifest and the overrides ask for
    Configs,     \* values of EXTDEPS_BUILD_CONFIG
    MaxFaults,   \* bound: how many configures may be interrupted
    None         \* an absent file, an unmatched lock line

Rel == "RelWithDebInfo"

(* The files in a prefix come from a release's archive or from a build.    *)
Archive(l)  == [by |-> "archive", recipe |-> RecipeOf[l], tag |-> l]
Build(r, c) == [by |-> "build", recipe |-> r, tag |-> c]

Archives == { Archive(l) : l \in Releases }
Builds   == { Build(r, c) : r \in Recipes, c \in Configs }
Origins  == Archives \cup Builds

BuildSigs == [recipe : Recipes, config : Configs]

ASSUME ReleaseAssumption == RecipeOf \in [Releases -> Recipes]
ASSUME ModeAssumption    == Modes \subseteq {"prebuilt", "rebuild", "system"}
ASSUME ConfigAssumption  == Rel \in Configs
ASSUME BoundAssumption   == MaxFaults \in Nat
ASSUME NoneAssumption    == None \notin Recipes \cup Releases \cup Origins \cup BuildSigs

VARIABLES
    kind,           \* DEP_KIND of the dep: "library" or "tool"
    recipe,         \* the recipe directory of the current checkout
    lock,           \* release of the one well-formed lock line that matches, or None
    files,          \* whose files lie in the prefix
    whole,          \* whose installation is complete and not overwritten, or None
    prebuiltStamp,  \* content of .prebuilt
    buildStamp,     \* content of .build_stamp
    pc,             \* where the running configure is
    config,         \* the configuration it builds
    via,            \* how it believes the dep was satisfied
    unfinished,     \* the prefix operation that began and has not reached its stamp
    faults          \* interrupted configures so far

disk == <<files, whole, prebuiltStamp, buildStamp, unfinished>>
env  == <<kind, recipe, lock>>
vars == <<kind, recipe, lock, files, whole, prebuiltStamp, buildStamp,
          pc, config, via, unfinished, faults>>

PCs == {"idle", "system", "fetch", "clear", "extract", "stampPrebuilt",
        "buildCheck", "install", "stampBuild", "bind", "resolved"}

TypeOK ==
    /\ kind \in {"library", "tool"}
    /\ recipe \in Recipes
    /\ lock \in Releases \cup {None}
    /\ files \in SUBSET Origins
    /\ whole \in Origins \cup {None}
    /\ prebuiltStamp \in Recipes \cup {None}
    /\ buildStamp \in BuildSigs \cup {None}
    /\ pc \in PCs
    /\ config \in Configs
    /\ via \in {"none", "prebuilt", "built", "uptodate", "system"}
    /\ unfinished \in {"none", "removal", "extract", "install"}
    /\ faults \in 0..MaxFaults

(* A fresh build tree: no prefix, no stamps, any checkout. *)
Init ==
    /\ kind \in {"library", "tool"}
    /\ recipe \in Recipes
    /\ lock \in Releases \cup {None}
    /\ files = {}
    /\ whole = None
    /\ prebuiltStamp = None
    /\ buildStamp = None
    /\ pc = "idle"
    /\ config = Rel
    /\ via = "none"
    /\ unfinished = "none"
    /\ faults = 0

-----------------------------------------------------------------------------
(* extdeps_resolve: which branch a configure takes.                        *)

AtRest == pc \in {"idle", "resolved"}

(* A library is prebuilt only in release configuration; a tool ignores the *)
(* configuration of the app.                                               *)
UsePrebuilt(m, c) == m # "rebuild" /\ (kind = "library" => c = Rel)

Configure(m, c) ==
    /\ AtRest
    /\ config' = IF kind = "tool" THEN Rel ELSE c
    /\ via' = "none"
    /\ pc' = CASE m = "system"      -> "system"
               [] UsePrebuilt(m, c) -> "fetch"
               [] OTHER             -> "buildCheck"
    /\ UNCHANGED <<env, disk, faults>>

(* SYSTEM mode binds host headers, libraries or tools: no prefix involved. *)
ResolveSystem ==
    /\ pc = "system"
    /\ pc' = "resolved"
    /\ via' = "system"
    /\ UNCHANGED <<env, disk, config, faults>>

-----------------------------------------------------------------------------
(* _extdeps_fetch_prebuilt *)

(* Faulty variant: the archive name is not compared with the signature. *)
LineUsableAnyRecipe == lock # None

(* Exactly one lock line, and its archive name carries the signature of    *)
(* the recipe that is checked out now.                                     *)
LineUsable == lock # None /\ RecipeOf[lock] = recipe

NoUsablePrebuilt ==
    /\ pc = "fetch"
    /\ ~LineUsable
    /\ pc' = "buildCheck"
    /\ UNCHANGED <<env, disk, config, via, faults>>

(* .prebuilt already names this archive: the prefix is taken as it is. *)
AlreadyInstalled ==
    /\ pc = "fetch"
    /\ LineUsable
    /\ prebuiltStamp = recipe
    /\ pc' = "bind"
    /\ via' = "prebuilt"
    /\ UNCHANGED <<env, disk, config, faults>>

(* A verified archive is in the cache, or three downloads failed. *)
FetchArchive ==
    /\ pc = "fetch"
    /\ LineUsable
    /\ prebuiltStamp # recipe
    /\ pc' \in {"clear", "buildCheck"}
    /\ UNCHANGED <<env, disk, config, via, faults>>

(* Faulty variant: extract over the old contents, removing the stamps only. *)
ClearPrefixStampsOnly ==
    /\ pc = "clear"
    /\ whole' = None
    /\ prebuiltStamp' = None
    /\ buildStamp' = None
    /\ unfinished' = "extract"
    /\ pc' = "extract"
    /\ UNCHANGED <<env, files, config, via, faults>>

(* Faulty variant: .build_stamp survives the removal. *)
ClearPrefixKeepsBuildStamp ==
    /\ pc = "clear"
    /\ files' = {}
    /\ whole' = None
    /\ prebuiltStamp' = None
    /\ unfinished' = "extract"
    /\ pc' = "extract"
    /\ UNCHANGED <<env, buildStamp, config, via, faults>>

(* file(REMOVE_RECURSE) and file(MAKE_DIRECTORY): stamps go as well. *)
ClearPrefix ==
    /\ pc = "clear"
    /\ files' = {}
    /\ whole' = None
    /\ prebuiltStamp' = None
    /\ buildStamp' = None
    /\ unfinished' = "extract"
    /\ pc' = "extract"
    /\ UNCHANGED <<env, config, via, faults>>

ExtractArchive ==
    /\ pc = "extract"
    /\ files' = files \cup {Archive(lock)}
    /\ whole' = Archive(lock)
    /\ pc' = "stampPrebuilt"
    /\ UNCHANGED <<env, prebuiltStamp, buildStamp, unfinished, config, via, faults>>

(* Faulty variant: the stamp holds the release, not the archive name. *)
StampPrebuiltRelease ==
    /\ pc = "stampPrebuilt"
    /\ prebuiltStamp' = lock
    /\ unfinished' = "none"
    /\ via' = "prebuilt"
    /\ pc' = "bind"
    /\ UNCHANGED <<env, files, whole, buildStamp, config, faults>>

StampPrebuilt ==
    /\ pc = "stampPrebuilt"
    /\ prebuiltStamp' = RecipeOf[lock]
    /\ unfinished' = "none"
    /\ via' = "prebuilt"
    /\ pc' = "bind"
    /\ UNCHANGED <<env, files, whole, buildStamp, config, faults>>

-----------------------------------------------------------------------------
(* build_dep *)

BuildSig == [recipe |-> recipe, config |-> config]

(* Faulty variant: the configuration is left out of the comparison. *)
SkipBuildAnyConfig ==
    /\ pc = "buildCheck"
    /\ buildStamp # None
    /\ buildStamp.recipe = recipe
    /\ via' = "uptodate"
    /\ pc' = "bind"
    /\ UNCHANGED <<env, disk, config, faults>>

(* "up-to-date (recipe unchanged), skipping build" *)
SkipBuild ==
    /\ pc = "buildCheck"
    /\ buildStamp = BuildSig
    /\ via' = "uptodate"
    /\ pc' = "bind"
    /\ UNCHANGED <<env, disk, config, faults>>

(* Fetch, extract and patch the sources in <prefix>/work. *)
PrepareSource ==
    /\ pc = "buildCheck"
    /\ buildStamp # BuildSig
    /\ pc' = "install"
    /\ UNCHANGED <<env, disk, config, via, faults>>

(* Configure, build and install over whatever the prefix holds; both       *)
(* stamps of earlier deliveries stay where they are.                       *)
Install ==
    /\ pc = "install"
    /\ files' = files \cup {Build(recipe, config)}
    /\ whole' = Build(recipe, config)
    /\ unfinished' = "install"
    /\ pc' = "stampBuild"
    /\ UNCHANGED <<env, prebuiltStamp, buildStamp, config, via, faults>>

StampBuild ==
    /\ pc = "stampBuild"
    /\ buildStamp' = BuildSig
    /\ unfinished' = "none"
    /\ via' = "built"
    /\ pc' = "bind"
    /\ UNCHANGED <<env, files, whole, prebuiltStamp, config, faults>>

-----------------------------------------------------------------------------
(* _extdeps_resolve_installed: every link library must exist.  A complete  *)
(* installation has them; a damaged one has them or not.  A tool is bound  *)
(* by its bin/ directory, unchecked.                                       *)

Bind ==
    /\ pc = "bind"
    /\ pc' = "resolved"
    /\ UNCHANGED <<env, disk, config, via, faults>>

ResolvedLibMissing ==
    /\ pc = "bind"
    /\ kind = "library"
    /\ whole = None
    /\ pc' = "idle"
    /\ via' = "none"
    /\ UNCHANGED <<env, disk, config, faults>>

-----------------------------------------------------------------------------
(* A configure that stops halfway: a FATAL_ERROR of the step, or the       *)
(* process is killed in it.                                                *)

Interrupted ==
    /\ faults < MaxFaults
    /\ faults' = faults + 1
    /\ pc' = "idle"
    /\ via' = "none"
    /\ UNCHANGED <<env, config>>

(* Nothing of the prefix is being written: host package missing, no        *)
(* source, a patch that does not apply, the configure killed.              *)
GiveUp ==
    /\ pc \in {"system", "fetch", "buildCheck", "bind"}
    /\ Interrupted
    /\ UNCHANGED disk

(* Removal deletes entries in directory order: any of them may be left,    *)
(* the stamps included.                                                    *)
ClearInterrupted ==
    /\ pc = "clear"
    /\ Interrupted
    /\ files' \in SUBSET files
    /\ whole' = None
    /\ prebuiltStamp' \in {prebuiltStamp, None}
    /\ buildStamp' \in {buildStamp, None}
    /\ unfinished' = "removal"

ExtractInterrupted ==
    /\ pc = "extract"
    /\ Interrupted
    /\ files' \in {files, files \cup {Archive(lock)}}
    /\ UNCHANGED <<whole, prebuiltStamp, buildStamp, unfinished>>

(* The build stopped before it installed, or in the middle of it. *)
InstallInterrupted ==
    /\ pc = "install"
    /\ Interrupted
    /\ \/ UNCHANGED disk
       \/ /\ files' = files \cup {Build(recipe, config)}
          /\ whole' = None
          /\ unfinished' = "install"
          /\ UNCHANGED <<prebuiltStamp, buildStamp>>

(* Licenses, library fix-ups or the stamp itself fail after the files are  *)
(* in place; a stamp cut short matches nothing.                            *)
StampInterrupted ==
    /\ pc \in {"stampPrebuilt", "stampBuild"}
    /\ Interrupted
    /\ buildStamp' \in {buildStamp, None}
    /\ UNCHANGED <<files, whole, prebuiltStamp, unfinished>>

-----------------------------------------------------------------------------
(* The submodule moves to another commit, or a developer edits the recipe  *)
(* or the lock.                                                            *)
Checkout(r, l) ==
    /\ AtRest
    /\ <<r, l>> # <<recipe, lock>>
    /\ recipe' = r
    /\ lock' = l
    /\ pc' = "idle"
    /\ via' = "none"
    /\ UNCHANGED <<kind, disk, config, faults>>

Step ==
    \/ ResolveSystem
    \/ NoUsablePrebuilt \/ AlreadyInstalled \/ FetchArchive
    \/ ClearPrefix \/ ExtractArchive \/ StampPrebuilt
    \/ SkipBuild \/ PrepareSource \/ Install \/ StampBuild
    \/ Bind \/ ResolvedLibMissing

Fault ==
    \/ GiveUp \/ ClearInterrupted \/ ExtractInterrupted
    \/ InstallInterrupted \/ StampInterrupted

Next ==
    \/ \E m \in Modes, c \in Configs : Configure(m, c)
    \/ \E r \in Recipes, l \in Releases \cup {None} : Checkout(r, l)
    \/ Step
    \/ Fault

Spec == Init /\ [][Next]_vars

(* A started configure runs on, and the developer does not stop            *)
(* configuring in the manifest's default mode.                             *)
Fairness ==
    /\ WF_vars(Step)
    /\ SF_vars(\E c \in Configs : Configure("prebuilt", c))

FairSpec == Spec /\ Fairness

-----------------------------------------------------------------------------
(* What a prefix that a configure binds may be relied on for.              *)

Delivered   == pc \in {"bind", "resolved"}
BuiltHere   == \E o \in files : o.by = "build"

(* An archive is bound only if it was produced from the recipe that is     *)
(* checked out: "a stale lock cannot satisfy a changed recipe"             *)
(* (README.md:211), over any history of checkouts and interruptions.       *)
ServedArchiveIsCurrent ==
    Delivered /\ via = "prebuilt" =>
        \A o \in files : o.by = "archive" => o.recipe = recipe

(* A prefix that only ever received archives, and whose removal was never  *)
(* cut short, is bound as prebuilt only when exactly one archive lies in   *)
(* it, completely: no leftovers of another release, no half extraction.    *)
PrebuiltServedWhole ==
    Delivered /\ via = "prebuilt" /\ ~BuiltHere /\ unfinished # "removal" =>
        \E l \in Releases : /\ RecipeOf[l] = recipe
                            /\ files = {Archive(l)}
                            /\ whole = Archive(l)

(* The remains of an interrupted extraction are never bound: the stamps    *)
(* went with the old contents, so every later configure extracts or builds *)
(* again, whatever mode it runs in.                                        *)
HalfExtractedNeverServed ==
    Delivered /\ via # "system" => unfinished # "extract"

(* When no installation was cut short, "up-to-date, skipping build" speaks *)
(* of what lies in the prefix: the current recipe in the asked             *)
(* configuration, not overwritten by an archive or another build since.    *)
SkippedBuildIsCurrent ==
    Delivered /\ via \in {"built", "uptodate"} /\ unfinished = "none" =>
        whole = Build(recipe, config)

(* A finished installation of the recipe that is checked out is bound.     *)
RepairedAndBound ==
    /\ Delivered /\ via # "system"
    /\ unfinished = "none"
    /\ whole # None /\ whole.recipe = recipe

(* A half-extracted prefix is repaired by the configures that follow it,   *)
(* even if no archive can be downloaded any more and the repair itself is  *)
(* cut short in its removal, its extraction, its build or before its stamp: *)
(* in the end a complete installation of the current recipe is bound.      *)
HalfExtractedHeals == unfinished = "extract" ~> RepairedAndBound

-----------------------------------------------------------------------------
(* The strengthening that makes the four invariants inductive.             *)

(* Between the removal and the stamp the line is fixed and the contents    *)
(* are known; a build in progress likewise.                                *)
StepsInProgress ==
    /\ pc \in {"clear", "extract", "stampPrebuilt"} => lock # None /\ RecipeOf[lock] = recipe
    /\ pc \in {"extract", "stampPrebuilt"} => unfinished = "extract"
    /\ pc = "extract" => files = {}
    /\ pc = "stampPrebuilt" => files = {Archive(lock)} /\ whole = Archive(lock)
    /\ pc = "stampBuild" => unfinished = "install" /\ whole = Build(recipe, config)
    /\ pc \in {"bind", "resolved"} => via # "none"

(* No stamp survives the removal that an extraction starts with. *)
ExtractionLeavesNoStamp ==
    unfinished = "extract" => prebuiltStamp = None /\ buildStamp = None

(* Who delivered last decides which stamp a binding rests on. *)
StampOfDelivery ==
    Delivered =>
        /\ via = "prebuilt" => prebuiltStamp = recipe
        /\ via \in {"built", "uptodate"} => buildStamp = [recipe |-> recipe, config |-> config]

(* .prebuilt names the recipe of every archive file in the prefix, and     *)
(* without builds and damage exactly one archive.                          *)
PrebuiltStampTrue ==
    prebuiltStamp # None =>
        /\ \A o \in files : o.by = "archive" => o.recipe = prebuiltStamp
        /\ ~BuiltHere /\ unfinished # "removal" =>
               \E l \in Releases : /\ RecipeOf[l] = prebuiltStamp
                                   /\ files = {Archive(l)}
                                   /\ whole = Archive(l)

(* .build_stamp tells the truth unless an operation was cut short. *)
BuildStampTrue ==
    buildStamp # None /\ unfinished = "none" =>
        whole = Build(buildStamp.recipe, buildStamp.config)

IInv ==
    /\ TypeOK
    /\ StepsInProgress
    /\ ExtractionLeavesNoStamp
    /\ StampOfDelivery
    /\ PrebuiltStampTrue
    /\ BuildStampTrue

-----------------------------------------------------------------------------
(* What the documentation says and the code does not keep.                 *)

(* README.md:44: in the default mode a prebuilt is extracted "into the     *)
(* local prefix"; then nothing built there is bound as prebuilt.  build_dep *)
(* installs over the extracted archive and leaves .prebuilt in place.      *)
PrebuiltIsPrebuilt == Delivered /\ via = "prebuilt" => ~BuiltHere

(* build_dependency.cmake:241 reports "up-to-date (recipe unchanged)": the *)
(* prefix then holds the finished build of the current recipe.  The stamp  *)
(* of the last complete build stays while another one installs over it.    *)
UpToDateIsBuilt ==
    Delivered /\ via = "uptodate" => whole = Build(recipe, config)
=============================================================================
