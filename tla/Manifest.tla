------------------------------ MODULE Manifest ------------------------------
(***************************************************************************)
(* The configures of one build tree.  A configure runs the application's   *)
(* manifest call by call; its targets, global properties and PATH end with *)
(* it.  Prefixes, binary tools and the find results in CMakeCache.txt stay *)
(* for the next one, before which the developer may change the manifest,   *)
(* the overrides and the checkout, and the host its packages.              *)
(*                                                                         *)
(* What an interruption, another configuration or a tool's build does      *)
(* inside a prefix is LocalPrefix's matter, how sources arrive             *)
(* SourceDelivery's.  Here a prefix is replaced in one step, in the        *)
(* configuration of the releases, and a configure may be abandoned between *)
(* the steps.                                                              *)
(***************************************************************************)
EXTENDS Naturals, Sequences

CONSTANTS
    Libraries, Sources, Tools,    \* names: require_dep, require_source_dep, require_tool
    SystemOnly,    \* libraries whose resolve_override accepts no other mode
    WithSystem,    \* sources with DEP_SOURCE_SYSTEM
    DependsOf,     \* DEP_DEPENDS of each library's recipe
    Recipes,
    Applications,  \* of each application, the manifests and overrides it may have
    Checkouts,     \* the recipes a checkout may have
    Locks,         \* the libraries that prebuilt.lock may have current lines for
    Hosts,         \* what the host may have installed
    Attempts,      \* downloads tried: 3 in the code
    None

ASSUME AttemptsAssumption == Attempts \in Nat \ {0}
ASSUME CheckoutsAssumption == Checkouts \subseteq [Libraries \cup Tools -> Recipes] /\ Hosts \subseteq SUBSET (Libraries \cup Tools)
(* What may lie in a library's prefix: an archive, or a build and what it  *)
(* found of its dependencies.                                              *)
Contents(n) ==
    [recipe : Recipes, against : [DependsOf[n] -> Recipes \cup {"host"}] \cup {<<>>}]

ASSUME DependsAssumption  == DependsOf \in [Libraries -> SUBSET Libraries]
ASSUME NamesAssumption    ==
    /\ Locks \subseteq SUBSET (Libraries \ SystemOnly)
    /\ SystemOnly \subseteq Libraries /\ WithSystem \subseteq Sources
    /\ Libraries \cap Sources = {} /\ Tools \cap (Libraries \cup Sources) = {}
ASSUME SetupsAssumption   ==
    \A a \in Applications :
        a \subseteq [manifest : Seq([name : Libraries \cup Sources \cup Tools, arg : STRING \cup {None}]),
                    override : [Libraries \cup Sources \cup Tools \cup {"all"} -> STRING \cup {None}]]
ASSUME NoneAssumption     ==
    /\ None \notin Recipes \cup {"host", "prefix"}
    /\ \A n \in Libraries : None \notin Contents(n)
ASSUME RecipesAssumption  == {"partial", "foreign"} \cap Recipes = {}

VARIABLES
    application,
    manifest,     \* the calls: names and arguments
    override,     \* EXTDEPS_OVERRIDE_<NAME> and EXTDEPS_OVERRIDE_ALL, or None
    recipe,       \* the checked-out recipe of each name
    locked,       \* libraries whose recipe has a line in prebuilt.lock
    online,       \* the archives of the lock can be had
    host,         \* packages and programs the host has
    found,        \* names with a find result in CMakeCache.txt
    prefix,       \* of each library: its files and the two stamps
    tool,         \* of each binary tool: the file in bin/
    at,           \* the call that runs; 0 after an abandoned configure
    step, tries,  \* where the fetch of a binary tool is
    target,       \* what each imported target links, in this configure
    libraries,    \* and <name>_LIBRARIES, <name>_INSTALL_LIBRARIES
    path,         \* the tools' own bin/ directories on PATH
    changed,      \* something has changed since the last whole configure
    cut           \* tools whose fetch was cut off after the download

choice == <<application, manifest, override, recipe, locked, online, host>>
disk   == <<found, prefix, tool>>
memory == <<target, libraries, path>>
fetch  == <<step, tries>>
vars   == <<choice, disk, at, memory, fetch, changed, cut>>

Names == Libraries \cup Sources \cup Tools
Modes == {"prebuilt", "rebuild", "system"}

Call     == manifest[at]
Running  == at \in DOMAIN manifest
Finished == at = Len(manifest) + 1

-----------------------------------------------------------------------------
(* The mode of a call. *)

(* require_tool reads no argument but the name.                            *)
Accepted(c) ==
    \/ c.name \in Tools
    \/ c.arg \in IF c.name \in Libraries THEN {None, "REBUILD", "SYSTEM"}
                 ELSE {None, "SYSTEM"}

ManifestMode(c) ==
    IF c.name \in Tools THEN "prebuilt"
    ELSE IF c.arg = "SYSTEM" THEN "system"
    ELSE IF c.arg = "REBUILD" \/ c.name \in Sources THEN "rebuild" ELSE "prebuilt"

(* An override of the name that is set to nothing hides the global one. *)
Override(c) ==
    IF override[c.name] # None THEN override[c.name]
    ELSE IF override.all # None /\ ManifestMode(c) # "system" THEN override.all
    ELSE "none"

(* A source is asked of the system only where that is declared, or where   *)
(* the call itself says so.                                                *)
ModeOf(c) ==
    LET mode == IF Override(c) = "none" THEN ManifestMode(c) ELSE Override(c)
    IN  IF c.name \in Sources \ WithSystem /\ mode = "system" /\ c.arg # "SYSTEM"
        THEN "rebuild" ELSE mode

(* The argument, the value of an override or a resolve_override says no. *)
Refused(c) ==
    \/ ~Accepted(c)
    \/ Override(c) \notin Modes \cup {"none"}
    \/ c.name \in SystemOnly /\ ModeOf(c) # "system"

Resolving(names, modes) ==
    /\ Running
    /\ step = "resolve"
    /\ ~Refused(Call)
    /\ Call.name \in names
    /\ ModeOf(Call) \in modes

-----------------------------------------------------------------------------

NoPrefix == [files |-> None, prebuilt |-> None, built |-> None]
NoTool   == [file |-> None, executable |-> FALSE]

Init ==
    /\ application \in Applications
    /\ \E s \in application : manifest = s.manifest /\ override = s.override
    /\ recipe \in Checkouts
    /\ locked \in Locks
    /\ online \in BOOLEAN
    /\ host \in Hosts
    /\ found = {}
    /\ prefix = [n \in Libraries |-> NoPrefix]
    /\ tool = [t \in Tools |-> NoTool]
    /\ at = 0
    /\ step = "resolve" /\ tries = 0
    /\ target = [n \in Libraries |-> None]
    /\ libraries = [n \in Libraries |-> None]
    /\ path = {}
    /\ changed = TRUE
    /\ cut = {}

(* Faulty variant: imported targets live as long as the tree. *)
ForgetProperties ==
    /\ libraries' = [n \in Libraries |-> None]
    /\ path' = {}
    /\ UNCHANGED target

Forget ==
    /\ target' = [n \in Libraries |-> None]
    /\ libraries' = [n \in Libraries |-> None]
    /\ path' = {}

Changing ==
    /\ ~Running
    /\ Forget
    /\ at' = 0
    /\ changed' = TRUE
    /\ UNCHANGED <<application, disk, fetch, cut>>

(* Another manifest, or other overrides on the command line. *)
ChangeSetup ==
    /\ Changing
    /\ \E s \in application : manifest' = s.manifest /\ override' = s.override
    /\ UNCHANGED <<recipe, locked, online, host>>

(* The checkout brings its own lock. *)
Checkout ==
    /\ Changing
    /\ recipe' \in Checkouts /\ locked' \in Locks
    /\ UNCHANGED <<manifest, override, online, host>>

ChangeHost ==
    /\ Changing
    /\ online' \in BOOLEAN /\ host' \in Hosts
    /\ UNCHANGED <<manifest, override, recipe, locked>>

Configure ==
    /\ ~Running
    /\ at' = 1
    /\ Forget
    /\ UNCHANGED <<choice, disk, fetch, changed, cut>>

(* The call is over, and with the last one the configure, which then holds *)
(* for what it was run for.                                                *)
NextCall ==
    /\ at' = at + 1
    /\ changed' = (changed /\ at < Len(manifest))
    /\ step' = "resolve" /\ tries' = 0
    /\ UNCHANGED <<choice, cut>>

(* A fatal error -- the only way on where no step is left -- or a kill. *)
Abandon ==
    /\ Running
    /\ at' = 0
    /\ step' = "resolve" /\ tries' = 0
    /\ cut' = IF step \in {"check", "chmod"} THEN cut \cup {Call.name} ELSE cut
    /\ UNCHANGED <<choice, disk, memory, changed>>

-----------------------------------------------------------------------------
(* Libraries. *)

(* A target that exists is left alone; the properties are set again. *)
Bind(n, from) ==
    /\ target' = [target EXCEPT ![n] = IF @ = None THEN from ELSE @]
    /\ libraries' = [libraries EXCEPT ![n] = from]
    /\ UNCHANGED path

(* find_library does not search again for what it has found. *)
BindSystem ==
    /\ Resolving(Libraries, {"system"})
    /\ Call.name \in found \cup host
    /\ found' = found \cup {Call.name}
    /\ Bind(Call.name, "host")
    /\ NextCall
    /\ UNCHANGED <<prefix, tool>>

Stamped(n) == n \in locked /\ prefix[n].prebuilt = recipe[n]

UsePrebuilt ==
    /\ Resolving(Libraries, {"prebuilt"})
    /\ Stamped(Call.name)
    /\ Bind(Call.name, "prefix")
    /\ NextCall
    /\ UNCHANGED disk

Fetchable(n) == n \in locked /\ ~Stamped(n) /\ online

(* Faulty variant: the stamps of what was there before stay. *)
ExtractKeepsStamps ==
    /\ Resolving(Libraries, {"prebuilt"})
    /\ Fetchable(Call.name)
    /\ prefix' = [prefix EXCEPT ![Call.name].files =
                      [recipe |-> recipe[Call.name], against |-> <<>>]]
    /\ Bind(Call.name, "prefix")
    /\ NextCall
    /\ UNCHANGED <<found, tool>>

Extract ==
    /\ Resolving(Libraries, {"prebuilt"})
    /\ Fetchable(Call.name)
    /\ prefix' = [prefix EXCEPT ![Call.name] =
                      [files    |-> [recipe |-> recipe[Call.name], against |-> <<>>],
                       prebuilt |-> recipe[Call.name],
                       built    |-> None]]
    /\ Bind(Call.name, "prefix")
    /\ NextCall
    /\ UNCHANGED <<found, tool>>

FromSource ==
    /\ Resolving(Libraries, {"prebuilt", "rebuild"})
    /\ ModeOf(Call) = "rebuild" \/ ~(Stamped(Call.name) \/ Fetchable(Call.name))

SkipBuild ==
    /\ FromSource
    /\ prefix[Call.name].built = recipe[Call.name]
    /\ Bind(Call.name, "prefix")
    /\ NextCall
    /\ UNCHANGED disk

(* The prefix of each dependency is passed on, whatever is in it; without  *)
(* files there, the build finds those of the host or none.                 *)
Supply(d) == IF prefix[d].files # None THEN prefix[d].files.recipe
             ELSE IF d \in host THEN "host" ELSE None

Build ==
    /\ FromSource
    /\ prefix[Call.name].built # recipe[Call.name]
    /\ \A d \in DependsOf[Call.name] : Supply(d) # None
    /\ prefix' = [prefix EXCEPT
          ![Call.name].files = [recipe  |-> recipe[Call.name],
                                against |-> [d \in DependsOf[Call.name] |-> Supply(d)]],
          ![Call.name].built = recipe[Call.name]]
    /\ Bind(Call.name, "prefix")
    /\ NextCall
    /\ UNCHANGED <<found, tool>>

-----------------------------------------------------------------------------
(* Sources, which leave nothing here but their call. *)
Deliver ==
    /\ Resolving(Sources, Modes)
    /\ NextCall
    /\ UNCHANGED <<disk, memory>>

-----------------------------------------------------------------------------
(* Binary tools. *)

(* find_program; the host's directory goes on PATH. *)
FindTool ==
    /\ Resolving(Tools, {"system"})
    /\ Call.name \in found \cup host
    /\ found' = found \cup {Call.name}
    /\ NextCall
    /\ UNCHANGED <<prefix, tool, memory>>

OnPath ==
    /\ path' = path \cup {Call.name}
    /\ NextCall
    /\ UNCHANGED <<found, prefix, target, libraries>>

(* Faulty variant: a file that is there is the tool. *)
PinnedByName == tool[Call.name].file # None

Pinned == tool[Call.name].file = recipe[Call.name]

UseTool ==
    /\ Resolving(Tools, {"prebuilt", "rebuild"})
    /\ Pinned
    /\ OnPath
    /\ UNCHANGED tool

FetchStep(from, to) ==
    /\ Running
    /\ step = from
    /\ step' = to
    /\ UNCHANGED <<choice, at, found, prefix, memory, changed, cut>>

FetchTool ==
    /\ Resolving(Tools, {"prebuilt", "rebuild"})
    /\ ~Pinned
    /\ FetchStep("resolve", "download")
    /\ UNCHANGED <<tool, tries>>

(* Faulty variant: one attempt too many. *)
AttemptLeftFromZero == tries <= Attempts

AttemptLeft == tries < Attempts

(* The file is opened first: one that was there keeps its permissions. *)
OpenForDownload ==
    /\ FetchStep("download", "downloading")
    /\ AttemptLeft
    /\ tries' = tries + 1
    /\ tool' = [tool EXCEPT ![Call.name].file = "partial"]

(* Whatever the server has under that name. *)
Downloaded ==
    /\ FetchStep("downloading", "check")
    /\ \E f \in {recipe[Call.name], "foreign"} : tool' = [tool EXCEPT ![Call.name].file = f]
    /\ UNCHANGED tries

DownloadFails ==
    /\ FetchStep("downloading", "discard")
    /\ UNCHANGED <<tool, tries>>

Check ==
    /\ FetchStep("check", IF Pinned THEN "chmod" ELSE "discard")
    /\ UNCHANGED <<tool, tries>>

Discard ==
    /\ FetchStep("discard", "download")
    /\ tool' = [tool EXCEPT ![Call.name] = NoTool]
    /\ UNCHANGED tries

(* Faulty variant: the permissions are left as the download made them. *)
ChmodForgotten ==
    /\ Running
    /\ step = "chmod"
    /\ UNCHANGED tool
    /\ OnPath

Chmod ==
    /\ Running
    /\ step = "chmod"
    /\ tool' = [tool EXCEPT ![Call.name].executable = TRUE]
    /\ OnPath

Step ==
    \/ BindSystem \/ UsePrebuilt \/ Extract \/ SkipBuild \/ Build
    \/ Deliver
    \/ FindTool \/ UseTool \/ FetchTool \/ OpenForDownload \/ Downloaded \/ DownloadFails
    \/ Check \/ Discard \/ Chmod

Next == ChangeSetup \/ Checkout \/ ChangeHost \/ Configure \/ Step \/ Abandon

Spec == Init /\ [][Next]_vars

-----------------------------------------------------------------------------
(* Properties. *)

Prefixes(n) == [files    : Contents(n) \cup {None},
                prebuilt : Recipes \cup {None},
                built    : Recipes \cup {None}]

(* What a configure finds, keeps and leaves has its type; only binary      *)
(* tools are ever fetched in steps, and never more than Attempts times.    *)
TypeOK ==
    /\ application \in Applications
    /\ [manifest |-> manifest, override |-> override] \in application
    /\ recipe \in Checkouts /\ host \in Hosts
    /\ locked \in Locks /\ online \in BOOLEAN
    /\ found \subseteq Libraries \cup Tools
    /\ prefix \in [Libraries -> UNION {Prefixes(n) : n \in Libraries}]
    /\ \A n \in Libraries : prefix[n] \in Prefixes(n)
    /\ tool \in [Tools -> [file : Recipes \cup {None, "partial", "foreign"},
                           executable : BOOLEAN]]
    /\ at \in 0 .. Len(manifest) + 1
    /\ step = "resolve" \/ (Running /\ Call.name \in Tools)
    /\ tries \in 0 .. Attempts
    /\ {target, libraries} \subseteq [Libraries -> {None, "host", "prefix"}]
    /\ path \subseteq Tools /\ cut \subseteq Tools
    /\ changed \in BOOLEAN

(* The calls for a name that run before the present one. *)
Earlier(n) == {i \in 1 .. at - 1 : manifest[i].name = n}

(* README.md:38-40: the manifest lists what a recipe needs first, and then *)
(* a library is built against the checked-out recipe of each dependency    *)
(* that is not taken from the host, in a tree with any history but one: a  *)
(* build over an archive, whose .prebuilt stamp still speaks of it.        *)
BuiltAgainstCheckedOut ==
    [][Build => \A d \in DependsOf[Call.name] :
           (\E i \in Earlier(d) : ModeOf(manifest[i]) # "system") =>
               \/ prefix'[Call.name].files.against[d] = recipe[d]
               \/ prefix[d].prebuilt # None /\ prefix[d].built # None]_vars

TwoModes(n) ==
    \E i, j \in DOMAIN manifest :
        /\ manifest[i].name = n /\ manifest[j].name = n
        /\ ModeOf(manifest[i]) # ModeOf(manifest[j])

(* To configure again where nothing has changed changes nothing: no prefix *)
(* is extracted or built anew and no tool fetched, in whatever order and   *)
(* modes the manifest has them, unless it asks for one name in two modes.  *)
ReconfigureChangesNothing ==
    [][~changed /\ (\A n \in Libraries : ~TwoModes(n)) =>
           UNCHANGED disk /\ ~(Extract \/ Build \/ FetchTool)]_vars

(* A tool's own bin/ is on PATH only with the pinned binary in it, and the *)
(* binary can be run, but for one gap: a configure that ended after the    *)
(* download and before the chmod leaves a file that no later one repairs.  *)
ToolRuns(t) == tool[t].file = recipe[t] /\ (tool[t].executable \/ t \in cut)

(* What the application links is what is shipped with it and of the        *)
(* checked-out recipe, though the target is of the first call for the name *)
(* and the properties of the last; but for a name in two modes, and for a  *)
(* build over an archive that is taken for the archive.                    *)
LinkedIsShipped(n) ==
    \/ TwoModes(n)
    \/ /\ libraries[n] = target[n]
       /\ target[n] = "prefix" =>
              \/ prefix[n].files.recipe = recipe[n]
              \/ prefix[n].prebuilt # None /\ prefix[n].built # None

(* What a configure hands over is what the checkout pins: the libraries    *)
(* that are linked and shipped when it is whole, and at any time the tools *)
(* on PATH, which later builds may run; over any history of checkouts,     *)
(* modes, overrides, fetches and abandoned configures in the same tree.    *)
PinnedIsHandedOver ==
    /\ \A t \in path : ToolRuns(t)
    /\ Finished => \A n \in Libraries : LinkedIsShipped(n)

-----------------------------------------------------------------------------
(* The strengthening that makes the properties inductive.                  *)

Behind == 1 .. at - 1

(* A stamp names the recipe of the files beside it, or there are two.      *)
StampsTrue ==
    \A n \in Libraries :
        /\ prefix[n].files = None => prefix[n].prebuilt = None /\ prefix[n].built = None
        /\ prefix[n].prebuilt # None /\ prefix[n].built = None =>
               prefix[n].files.recipe = prefix[n].prebuilt
        /\ prefix[n].built # None /\ prefix[n].prebuilt = None =>
               prefix[n].files.recipe = prefix[n].built

(* What an earlier call has put into a prefix is of the checked-out recipe *)
(* or carries both stamps.                                                 *)
Served(n) ==
    /\ prefix[n].files # None
    /\ \/ prefix[n].files.recipe = recipe[n]
       \/ prefix[n].prebuilt # None /\ prefix[n].built # None

EarlierServed ==
    \A i \in Behind :
        manifest[i].name \in Libraries /\ ModeOf(manifest[i]) # "system" =>
            Served(manifest[i].name)

(* Targets and properties are those of earlier calls. *)
From(c) == IF ModeOf(c) = "system" THEN "host" ELSE "prefix"

BoundBy(n, from) ==
    at # 0 /\ from # None => \E i \in Behind : manifest[i].name = n /\ from = From(manifest[i])

MemoryTrue ==
    \A n \in Libraries :
        /\ target[n] = None <=> libraries[n] = None
        /\ BoundBy(n, target[n]) /\ BoundBy(n, libraries[n])

(* Only a cut-off fetch leaves a pinned tool that cannot be run, and no    *)
(* tool is fetched that an earlier call has found or fetched.              *)
ToolsTrue ==
    /\ \A t \in Tools : tool[t].file \in Recipes /\ ~tool[t].executable =>
           t \in cut \/ (step \in {"check", "chmod"} /\ Call.name = t)
    /\ step = "check" => tool[Call.name].file \in {recipe[Call.name], "foreign"}
    /\ step = "chmod" => Pinned
    /\ step # "resolve" =>
           /\ ModeOf(Call) # "system" /\ Call.name \notin path
           /\ \A i \in Behind :
                  manifest[i].name = Call.name => ModeOf(manifest[i]) = "system"
    /\ \A t \in path : tool[t].file = recipe[t]
    /\ \A i \in Behind :
           manifest[i].name \in Tools /\ ModeOf(manifest[i]) # "system" =>
               tool[manifest[i].name].file = recipe[manifest[i].name]

(* What a call that was run asks for is there. *)
Settled(c) ==
    \/ c.name \in Sources
    \/ ModeOf(c) = "system" /\ c.name \in found
    \/ ModeOf(c) # "system" /\ c.name \in Tools /\ tool[c.name].file = recipe[c.name]
    \/ ModeOf(c) = "prebuilt" /\ c.name \in Libraries /\ Stamped(c.name)
    \/ /\ ModeOf(c) \in {"prebuilt", "rebuild"} /\ c.name \in Libraries
       /\ prefix[c.name].built = recipe[c.name]
       /\ ModeOf(c) = "prebuilt" => ~Stamped(c.name) /\ ~Fetchable(c.name)

OneMode == \A n \in Libraries : ~TwoModes(n)

CallsSettled ==
    OneMode =>
        /\ \A i \in Behind : Settled(manifest[i])
        /\ ~changed => step = "resolve" /\ \A i \in DOMAIN manifest : Settled(manifest[i])

IInv ==
    /\ TypeOK
    /\ StampsTrue
    /\ EarlierServed
    /\ MemoryTrue
    /\ ToolsTrue
    /\ CallsSettled
=============================================================================
