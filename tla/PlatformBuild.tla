--------------------------- MODULE PlatformBuild ---------------------------
(***************************************************************************)
(* build_platform.cmake: the producer of one os/arch set.  It collects the *)
(* buildable recipes of the tree, builds the tools, builds the libraries   *)
(* in passes until none is left, packages every prefix and writes the lock *)
(* fragment of the platform.                                               *)
(*                                                                         *)
(* A recipe is the record of its spec.cmake and of <name>.cmake as far as  *)
(* the script looks at them.  An archive of the out directory, and the     *)
(* lock line with its SHA-256, carry the run that produced them: the bytes *)
(* of two runs differ though their names do not.                           *)
(***************************************************************************)
EXTENDS Integers, Sequences, FiniteSets, Functions

CONSTANTS
    Names,       \* dependency names
    Versions,    \* names of version directories
    SpecLists,   \* what list(SORT) of the spec.cmake files can be
    Leftovers,   \* what earlier local runs may have left in out/
    None         \* nothing staged, no version collected

Kinds == {"library", "tool", "source"}

Specs == [name : Names, version : Versions, kind : Kinds,
          source : BOOLEAN,    \* DEP_SOURCE_URL is defined
          here : BOOLEAN,      \* no DEP_PLATFORMS, or it lists this platform
          deps : SUBSET Names] \* DEP_DEPENDS

Lines == [name : Names, version : Versions, run : {"earlier", "now"}]

(* A run that was killed while it removed out/ may have left a fragment    *)
(* without its archives, one that failed later archives without a fragment. *)
OutDirs == [fragment : Seq(Lines), out : SUBSET Lines]

ASSUME SpecListsAssumption == SpecLists \subseteq Seq(Specs)
ASSUME LeftoversAssumption == Leftovers \subseteq OutDirs
ASSUME NoneIsNoVersion     == None \notin Versions

VARIABLES
    specs,      \* _specs, sorted
    ver,        \* _VER_<name>
    deps,       \* _DEPS_<name>
    all,        \* ALL: the libraries, in order
    tools,      \* TOOLS
    done,       \* DONE: the libraries built, in order
    stage,      \* the version installed in STAGE/<name>
    pos,        \* position of the running foreach
    progress,   \* _progress
    out,        \* archives in OUT_DIR
    lock,       \* _lock, the lines collected so far
    fragment,   \* content of the lock fragment in OUT_DIR
    pc          \* where the script is, or how it ended

collected == <<ver, deps, all, tools>>
outDir    == <<out, lock, fragment>>
vars == <<specs, ver, deps, all, tools, done, stage, pos, progress,
          out, lock, fragment, pc>>

Ended == {"finished", "toolFailed", "buildFailed", "stuck", "clearKilled", "packageFailed"}
PCs   == {"collect", "tools", "while", "pass", "clear", "package"} \cup Ended

(* STAGE is removed first; OUT_DIR keeps what an earlier run left. *)
Init ==
    /\ specs \in SpecLists
    /\ ver = [n \in Names |-> None]
    /\ deps = [n \in Names |-> {}]
    /\ all = <<>>
    /\ tools = <<>>
    /\ done = <<>>
    /\ stage = [n \in Names |-> None]
    /\ pos = 1
    /\ progress = FALSE
    /\ \E left \in Leftovers : fragment = left.fragment /\ out = left.out
    /\ lock = <<>>
    /\ pc = "collect"

-----------------------------------------------------------------------------
(* Collect the buildable recipes.                                          *)

Buildable(s) == s.source /\ s.here /\ s.kind # "source"

SkipSpec ==
    /\ pc = "collect"
    /\ pos <= Len(specs)
    /\ ~Buildable(specs[pos])
    /\ pos' = pos + 1
    /\ UNCHANGED <<specs, collected, done, stage, progress, outDir, pc>>

(* Faulty variant: the version is not recorded. *)
RecordDepsOnly(s) ==
    /\ deps' = [deps EXCEPT ![s.name] = s.deps]
    /\ UNCHANGED ver

(* A later version of a name overwrites what an earlier one recorded. *)
Record(s) ==
    /\ ver' = [ver EXCEPT ![s.name] = s.version]
    /\ deps' = [deps EXCEPT ![s.name] = s.deps]

CollectTool ==
    /\ pc = "collect"
    /\ pos <= Len(specs)
    /\ Buildable(specs[pos])
    /\ specs[pos].kind = "tool"
    /\ Record(specs[pos])
    /\ tools' = Append(tools, specs[pos].name)
    /\ pos' = pos + 1
    /\ UNCHANGED <<specs, all, done, stage, progress, outDir, pc>>

(* Faulty variant: without list(REMOVE_DUPLICATES ALL). *)
AddLibraryAgain(n) == all' = Append(all, n)

(* list(REMOVE_DUPLICATES ALL) keeps the first of equal names. *)
AddLibrary(n) == all' = IF n \in Range(all) THEN all ELSE Append(all, n)

CollectLibrary ==
    /\ pc = "collect"
    /\ pos <= Len(specs)
    /\ Buildable(specs[pos])
    /\ specs[pos].kind = "library"
    /\ Record(specs[pos])
    /\ AddLibrary(specs[pos].name)
    /\ pos' = pos + 1
    /\ UNCHANGED <<specs, tools, done, stage, progress, outDir, pc>>

Collected ==
    /\ pc = "collect"
    /\ pos > Len(specs)
    /\ pc' = "tools"
    /\ pos' = 1
    /\ UNCHANGED <<specs, collected, done, stage, progress, outDir>>

-----------------------------------------------------------------------------
(* Build the tools, in order, without prefixes of other deps; their bin/   *)
(* is on PATH from then on.  build_dep of a name that is staged already    *)
(* finds its stamp and leaves the prefix alone.                            *)

BuildTool ==
    /\ pc = "tools"
    /\ pos <= Len(tools)
    /\ stage' = [stage EXCEPT ![tools[pos]] = ver[tools[pos]]]
    /\ pos' = pos + 1
    /\ UNCHANGED <<specs, collected, done, progress, outDir, pc>>

ToolFails ==
    /\ pc = "tools"
    /\ pos <= Len(tools)
    /\ pc' = "toolFailed"
    /\ UNCHANGED <<specs, collected, done, stage, pos, progress, outDir>>

ToolsBuilt ==
    /\ pc = "tools"
    /\ pos > Len(tools)
    /\ pc' = "while"
    /\ UNCHANGED <<specs, collected, done, stage, pos, progress, outDir>>

-----------------------------------------------------------------------------
(* Build the libraries: passes over ALL until none remains.                *)

(* Faulty variant: off by one. *)
RemainingLessOne == Len(all) - Len(done) - 1

Remaining == Len(all) - Len(done)

(* Faulty variant: _progress is set once, before the loop. *)
BeginPassKeepsProgress ==
    /\ pc = "while"
    /\ Remaining > 0
    /\ pos' = 1
    /\ pc' = "pass"
    /\ UNCHANGED <<specs, collected, done, stage, progress, outDir>>

BeginPass ==
    /\ pc = "while"
    /\ Remaining > 0
    /\ progress' = FALSE
    /\ pos' = 1
    /\ pc' = "pass"
    /\ UNCHANGED <<specs, collected, done, stage, outDir>>

(* Faulty variant: one satisfied dependency is enough. *)
ReadyOnOne(n) == deps[n] # {} => deps[n] \cap Range(done) # {}

(* Only libraries are ever DONE: a tool in DEP_DEPENDS counts as missing. *)
Ready(n) == deps[n] \subseteq Range(done)

PassOver ==
    /\ pc = "pass"
    /\ pos <= Len(all)
    /\ all[pos] \in Range(done) \/ ~Ready(all[pos])
    /\ pos' = pos + 1
    /\ UNCHANGED <<specs, collected, done, stage, progress, outDir, pc>>

BuildLibrary ==
    /\ pc = "pass"
    /\ pos <= Len(all)
    /\ all[pos] \notin Range(done)
    /\ Ready(all[pos])
    /\ stage' = [stage EXCEPT ![all[pos]] = ver[all[pos]]]
    /\ done' = Append(done, all[pos])
    /\ progress' = TRUE
    /\ pos' = pos + 1
    /\ UNCHANGED <<specs, collected, outDir, pc>>

LibraryFails ==
    /\ pc = "pass"
    /\ pos <= Len(all)
    /\ all[pos] \notin Range(done)
    /\ Ready(all[pos])
    /\ pc' = "buildFailed"
    /\ UNCHANGED <<specs, collected, done, stage, pos, progress, outDir>>

(* FATAL_ERROR "dependency cycle / missing dep" *)
NoProgress ==
    /\ pc = "pass"
    /\ pos > Len(all)
    /\ ~progress
    /\ pc' = "stuck"
    /\ UNCHANGED <<specs, collected, done, stage, pos, progress, outDir>>

EndPass ==
    /\ pc = "pass"
    /\ pos > Len(all)
    /\ progress
    /\ pc' = "while"
    /\ UNCHANGED <<specs, collected, done, stage, pos, progress, outDir>>

-----------------------------------------------------------------------------
(* Package every prefix and record it in the lock fragment.                *)

(* file(REMOVE_RECURSE OUT_DIR) takes files away in the order of the       *)
(* directory: halfway, any of what earlier runs left may be there.         *)
ClearSome ==
    /\ pc = "while"
    /\ Remaining <= 0
    /\ out' \in SUBSET out
    /\ fragment' \in {fragment, <<>>}
    /\ pc' = "clear"
    /\ UNCHANGED <<specs, collected, done, stage, pos, progress, lock>>

(* Killed halfway; nothing undoes what is gone. *)
ClearKilled ==
    /\ pc = "clear"
    /\ pc' = "clearKilled"
    /\ UNCHANGED <<specs, collected, done, stage, pos, progress, outDir>>

(* Faulty variant: the archives go, the fragment of the last run stays. *)
ClearArchives ==
    /\ pc = "clear"
    /\ out' = {}
    /\ lock' = <<>>
    /\ pos' = 1
    /\ pc' = "package"
    /\ UNCHANGED <<specs, collected, done, stage, progress, fragment>>

ClearOut ==
    /\ pc = "clear"
    /\ out' = {}
    /\ fragment' = <<>>
    /\ lock' = <<>>
    /\ pos' = 1
    /\ pc' = "package"
    /\ UNCHANGED <<specs, collected, done, stage, progress>>

(* Faulty variant: the tools are not packaged. *)
PackagesLibraries == all

Packages == all \o tools

PackageOne ==
    /\ pc = "package"
    /\ pos <= Len(Packages)
    /\ LET n    == Packages[pos]
           line == [name |-> n, version |-> ver[n], run |-> "now"]
       IN  /\ out' = out \cup {line}
           /\ lock' = Append(lock, line)
    /\ pos' = pos + 1
    /\ UNCHANGED <<specs, collected, done, stage, progress, fragment, pc>>

(* 7z fails, or CMake cannot extract what it wrote, or the run is killed. *)
PackageFails ==
    /\ pc = "package"
    /\ pc' = "packageFailed"
    /\ UNCHANGED <<specs, collected, done, stage, pos, progress, outDir>>

WriteFragment ==
    /\ pc = "package"
    /\ pos > Len(Packages)
    /\ fragment' = lock
    /\ pc' = "finished"
    /\ UNCHANGED <<specs, collected, done, stage, pos, progress, out, lock>>

(* Killed in the write: the first lines are there; one that is cut short   *)
(* names no archive.                                                       *)
WriteKilled ==
    /\ pc = "package"
    /\ pos > Len(Packages)
    /\ \E n \in 0..Len(lock) : fragment' = SubSeq(lock, 1, n)
    /\ pc' = "packageFailed"
    /\ UNCHANGED <<specs, collected, done, stage, pos, progress, out, lock>>

Next ==
    \/ SkipSpec \/ CollectTool \/ CollectLibrary \/ Collected
    \/ BuildTool \/ ToolFails \/ ToolsBuilt
    \/ BeginPass \/ PassOver \/ BuildLibrary \/ LibraryFails
    \/ NoProgress \/ EndPass
    \/ ClearSome \/ ClearKilled \/ ClearOut
    \/ PackageOne \/ PackageFails \/ WriteFragment \/ WriteKilled

Spec == Init /\ [][Next]_vars

(* One sequential script: as long as it can run on, it does. *)
FairSpec == Spec /\ WF_vars(Next)

-----------------------------------------------------------------------------
(* The abstract dependency-ordered build that the passes implement.        *)

Planned == pc \notin {"collect", "tools", "toolFailed"}

OutcomeOf == [collect |-> "planning", tools |-> "planning", toolFailed |-> "broken",
              while |-> "building", pass |-> "building",
              buildFailed |-> "broken", stuck |-> "stuck",
              clear |-> "built", clearKilled |-> "built",
              package |-> "built", packageFailed |-> "built", finished |-> "built"]

Order == INSTANCE DependencyOrder
         WITH graph   <- [n \in IF Planned THEN Range(all) ELSE {} |-> deps[n]],
              done    <- Range(done),
              outcome <- OutcomeOf[pc]

(* The passes over ALL build in dependency order, end complete, and are    *)
(* declared stuck only when nothing that is left can be built.             *)
ImplementsOrder == Order!Spec

-----------------------------------------------------------------------------
TypeOK ==
    /\ specs \in Seq(Specs)
    /\ ver \in [Names -> Versions \cup {None}]
    /\ deps \in [Names -> SUBSET Names]
    /\ all \in Seq(Names)
    /\ tools \in Seq(Names)
    /\ done \in Seq(Names)
    /\ stage \in [Names -> Versions \cup {None}]
    /\ pos \in Nat \ {0}
    /\ progress \in BOOLEAN
    /\ out \subseteq Lines
    /\ lock \in Seq(Lines)
    /\ fragment \in Seq(Lines)
    /\ pc \in PCs

(* Every library was built with all its DEP_DEPENDS in STAGE before it.    *)
DependenciesFirst ==
    \A i \in DOMAIN done : \A d \in deps[done[i]] : \E j \in 1..(i - 1) : done[j] = d

(* "dependency cycle / missing dep" is said only when it is true: each     *)
(* library left over waits for another one left over, or for a name that   *)
(* is no library of this platform.  A set in which everyone waits for      *)
(* someone in it holds a cycle.                                            *)
FatalMeansStuck ==
    pc = "stuck" =>
        LET rest == Range(all) \ Range(done)
        IN  /\ rest # {}
            /\ \A n \in rest : \E d \in deps[n] : d \in rest \/ d \notin Range(all)

(* The count of what remains is right: the old archives are given up and   *)
(* packaging starts when every library is built, none of them twice.       *)
NothingLeftBehind ==
    pc \in {"clear", "clearKilled", "package", "packageFailed", "finished"} =>
        /\ Range(done) = Range(all)
        /\ Len(done) = Cardinality(Range(done))

(* What this run has packaged.                                             *)
Packaged == {l \in out : l.run = "now"}

(* Once the removal of OUT_DIR is through, every line of the fragment in it *)
(* has its archive, both of this run: whatever earlier runs left there, a   *)
(* fragment without its archives included, wherever the packaging fails and *)
(* whenever the write of the fragment is cut short.  It does not hold of a  *)
(* run that is killed in the removal, which may leave just that.            *)
FragmentBacked ==
    pc \in {"package", "packageFailed", "finished"} => Range(fragment) \subseteq Packaged

(* The finished fragment lists exactly what was staged, in the version     *)
(* that was staged.                                                        *)
StagedIsPackaged ==
    pc = "finished" =>
        /\ \A n \in Names : stage[n] # None =>
               \E i \in DOMAIN fragment : /\ fragment[i].name = n
                                          /\ fragment[i].version = stage[n]
        /\ \A i \in DOMAIN fragment : stage[fragment[i].name] = fragment[i].version

(* How far the run is from its end: the phases to come, the libraries that *)
(* are left, a pass that has built one being owed another, and the entries *)
(* its loop has not reached.                                               *)
PhasesLeft ==
    CASE pc = "collect"           -> 5
      [] pc = "tools"             -> 4
      [] pc \in {"while", "pass"} -> 3
      [] pc = "clear"             -> 2
      [] pc = "package"           -> 1
      [] pc \in Ended             -> 0

LibrariesLeft ==
    CASE pc = "while" -> Remaining
      [] pc = "pass"  -> IF progress THEN Remaining + 1 ELSE Remaining
      [] OTHER        -> 0

EntriesLeft ==
    CASE pc = "collect" -> Len(specs) + 1 - pos
      [] pc = "tools"   -> Len(tools) + 1 - pos
      [] pc = "while"   -> Len(all) + 1
      [] pc = "pass"    -> Len(all) + 1 - pos
      [] pc = "package" -> Len(Packages) + 1 - pos
      [] OTHER          -> 0

(* Whatever the script does brings it nearer to its end: no graph makes it *)
(* pass over the libraries again unless it has built one of them, and none *)
(* of the three counts can fall for ever.                                  *)
EveryStepNearsTheEnd ==
    [][/\ LibrariesLeft' \in Nat /\ EntriesLeft' \in Nat
       /\ \/ PhasesLeft' < PhasesLeft
          \/ /\ PhasesLeft' = PhasesLeft
             /\ \/ LibrariesLeft' < LibrariesLeft
                \/ LibrariesLeft' = LibrariesLeft /\ EntriesLeft' < EntriesLeft]_vars

(* The passes end, with or without a result, on every dependency graph.    *)
BuildEnds == <>(pc \in Ended)

-----------------------------------------------------------------------------
(* The strengthening that makes the invariants inductive.                  *)

Distinct(s) == \A i, j \in DOMAIN s : s[i] = s[j] => i = j

(* ALL and DONE are lists without duplicates, DONE a part of ALL. *)
ListsAreSets ==
    /\ Distinct(all)
    /\ Distinct(done)
    /\ Range(done) \subseteq Range(all)
    /\ pc \in {"collect", "tools", "toolFailed"} => done = <<>>

VersionsKnown == \A n \in Range(all) \cup Range(tools) : ver[n] \in Versions

(* A pass without progress has seen nothing that could be built, and DONE  *)
(* did not change in it: what was not ready then is not ready now.         *)
PassSoFar ==
    pc = "pass" /\ ~progress =>
        /\ Len(done) < Len(all)
        /\ \A j \in DOMAIN all :
               j < pos => all[j] \in Range(done) \/ ~Ready(all[j])

StuckForGood ==
    pc = "stuck" =>
        /\ Len(done) < Len(all)
        /\ \A n \in Range(all) : n \in Range(done) \/ ~Ready(n)

CountedOut ==
    pc \in {"clear", "clearKilled", "package", "packageFailed", "finished"} =>
        Len(all) <= Len(done)

LinesBacked == pc = "package" => Range(lock) \subseteq Packaged

IInv ==
    /\ TypeOK
    /\ ListsAreSets
    /\ VersionsKnown
    /\ DependenciesFirst
    /\ PassSoFar
    /\ StuckForGood
    /\ CountedOut
    /\ LinesBacked
    /\ FragmentBacked

-----------------------------------------------------------------------------
(* build_platform.cmake:1 "build every buildable recipe" and README.md:305 *)
(* "finds every recipe with DEP_SOURCE_URL ... packages each prefix": a    *)
(* consumer finds exactly one line for each.  Two version directories of   *)
(* one name share _VER_<name>, and TOOLS is not de-duplicated.             *)
EveryRecipePackaged ==
    pc = "finished" =>
        \A s \in Range(specs) : Buildable(s) =>
            Cardinality({i \in DOMAIN fragment : /\ fragment[i].name = s.name
                                                 /\ fragment[i].version = s.version}) = 1
=============================================================================
