-------------------------- MODULE Manifest_proofs --------------------------
(***************************************************************************)
(* The configures of one build tree for any applications, libraries,       *)
(* sources, tools, recipes, locks, hosts and attempts.                     *)
(***************************************************************************)
EXTENDS Manifest, TLAPS

(* A step from outside the configure. *)
Outside == ChangeSetup \/ Checkout \/ ChangeHost

(* The steps of a tool's fetch that leave the tool, or take it away. *)
Fetches == FetchTool \/ OpenForDownload \/ Downloaded \/ DownloadFails \/ Check \/ Discard

(* An element of a list. *)
LEMMA ElementOf == ASSUME NEW S, NEW s \in Seq(S), NEW i \in 1 .. Len(s) PROVE s[i] \in S
OBVIOUS

(* The manifest is a list of calls of known names. *)
LEMMA ManifestKnown ==
    ASSUME TypeOK
    PROVE  /\ Len(manifest) \in Nat /\ DOMAIN manifest = 1 .. Len(manifest)
           /\ \A i \in DOMAIN manifest : manifest[i].name \in Names
           /\ at \in Nat
<1>1. manifest \in Seq([name : Libraries \cup Sources \cup Tools, arg : STRING \cup {None}])
  <2>1. [manifest |-> manifest, override |-> override] \in
            [manifest : Seq([name : Libraries \cup Sources \cup Tools, arg : STRING \cup {None}]),
             override : [Libraries \cup Sources \cup Tools \cup {"all"} -> STRING \cup {None}]]
    BY SetupsAssumption DEF TypeOK
  <2> QED BY <2>1
<1>2. ASSUME NEW i \in DOMAIN manifest PROVE manifest[i].name \in Names
  <2>1. manifest[i] \in [name : Libraries \cup Sources \cup Tools, arg : STRING \cup {None}]
    <3>1. i \in 1 .. Len(manifest)
      BY <1>1
    <3> QED BY <1>1, <3>1, ElementOf
  <2> QED BY <2>1 DEF Names
<1>3. at \in Nat
  BY <1>1 DEF TypeOK
<1> QED BY <1>1, <1>2, <1>3

(* The call that runs is one of the manifest, and it is not the last or it *)
(* is, in which case the configure is finished after it.                   *)
LEMMA CallKnown ==
    ASSUME TypeOK, Running
    PROVE  /\ at \in 1 .. Len(manifest) /\ at \in Nat /\ Len(manifest) \in Nat
           /\ at + 1 \in 0 .. Len(manifest) + 1
           /\ Call.name \in Names
BY ManifestKnown DEF Running, Call

(* A prefix is replaced in one step; the others stay. *)
LEMMA Replaced ==
    ASSUME TypeOK, NEW n \in Libraries, NEW v \in Prefixes(n), NEW e,
           e = [prefix EXCEPT ![n] = v]
    PROVE  /\ e \in [Libraries -> UNION {Prefixes(m) : m \in Libraries}]
           /\ e[n] = v /\ \A m \in Libraries : m # n => e[m] = prefix[m]
           /\ \A m \in Libraries : e[m] \in Prefixes(m)
BY DEF TypeOK

(* Two fields of a record are replaced. *)
LEMMA Rewritten ==
    ASSUME NEW F, NEW P, NEW B, NEW p \in [files : F, prebuilt : P, built : B],
           NEW f \in F, NEW b \in B, NEW q, q = [p EXCEPT !.files = f, !.built = b]
    PROVE  /\ q \in [files : F, prebuilt : P, built : B]
           /\ q.files = f /\ q.built = b /\ q.prebuilt = p.prebuilt
OBVIOUS

(* What a build leaves in a prefix. *)
LEMMA Installed ==
    ASSUME TypeOK, NEW n \in Libraries, NEW f \in Contents(n), NEW r \in Recipes, NEW e,
           e = [prefix EXCEPT ![n].files = f, ![n].built = r]
    PROVE  /\ e \in [Libraries -> UNION {Prefixes(m) : m \in Libraries}]
           /\ e[n].files = f /\ e[n].built = r /\ e[n].prebuilt = prefix[n].prebuilt
           /\ \A m \in Libraries : m # n => e[m] = prefix[m]
           /\ \A m \in Libraries : e[m] \in Prefixes(m)
<1> DEFINE v == [prefix[n] EXCEPT !.files = f, !.built = r]
<1>1. /\ prefix \in [Libraries -> UNION {Prefixes(m) : m \in Libraries}]
      /\ prefix[n] \in [files    : Contents(n) \cup {None},
                        prebuilt : Recipes \cup {None},
                        built    : Recipes \cup {None}]
  BY DEF TypeOK, Prefixes
<1>2. v \in Prefixes(n) /\ v.files = f /\ v.built = r /\ v.prebuilt = prefix[n].prebuilt
  <2> DEFINE F == Contents(n) \cup {None}
             P == Recipes \cup {None}
  <2>1. prefix[n] \in [files : F, prebuilt : P, built : P] /\ f \in F /\ r \in P
    BY <1>1
  <2>2. v \in [files : F, prebuilt : P, built : P]
        /\ v.files = f /\ v.built = r /\ v.prebuilt = prefix[n].prebuilt
    <3> HIDE DEF F, P
    <3> QED BY <2>1, Rewritten
  <2> QED BY <2>2 DEF Prefixes
<1>3. e = [prefix EXCEPT ![n] = v]
  BY <1>1
<1> HIDE DEF v
<1>4. /\ e \in [Libraries -> UNION {Prefixes(m) : m \in Libraries}]
      /\ e[n] = v /\ \A m \in Libraries : m # n => e[m] = prefix[m]
      /\ \A m \in Libraries : e[m] \in Prefixes(m)
  BY <1>2, <1>3, Replaced
<1> QED BY <1>2, <1>4

(* What a build is given of its dependencies is known. *)
LEMMA Supplied ==
    ASSUME TypeOK, NEW n \in Libraries, \A d \in DependsOf[n] : Supply(d) # None
    PROVE  [recipe |-> recipe[n], against |-> [d \in DependsOf[n] |-> Supply(d)]] \in Contents(n)
<1>1. recipe[n] \in Recipes
  BY CheckoutsAssumption DEF TypeOK
<1>2. ASSUME NEW d \in DependsOf[n] PROVE Supply(d) \in Recipes \cup {"host"}
  <2>1. d \in Libraries
    BY DependsAssumption
  <2>2. prefix[d].files # None => prefix[d].files.recipe \in Recipes
    BY <2>1 DEF TypeOK, Prefixes, Contents
  <2>3. Supply(d) # None
    OBVIOUS
  <2> QED BY <2>2, <2>3 DEF Supply
<1> QED BY <1>1, <1>2 DEF Contents

(* An archive is a prefix's content. *)
LEMMA Archived ==
    ASSUME TypeOK, NEW n \in Libraries
    PROVE  [files    |-> [recipe |-> recipe[n], against |-> <<>>],
            prebuilt |-> recipe[n],
            built    |-> None] \in Prefixes(n)
BY CheckoutsAssumption DEF TypeOK, Prefixes, Contents

-----------------------------------------------------------------------------
(* Types.                                                                  *)

(* Nothing is there at first, and nothing has run. *)
LEMMA Initially == Init => IInv
<1> SUFFICES ASSUME Init PROVE IInv
  OBVIOUS
<1>1. TypeOK
  <2>1. [manifest |-> manifest, override |-> override] \in application
    <3>1. application \in Applications
      BY DEF Init
    <3>2. PICK s \in application : manifest = s.manifest /\ override = s.override
      BY DEF Init
    <3>3. s = [manifest |-> s.manifest, override |-> s.override]
      BY <3>1, <3>2, SetupsAssumption
    <3> QED BY <3>2, <3>3
  <2>2. Len(manifest) \in Nat
    <3>1. manifest \in Seq([name : Libraries \cup Sources \cup Tools, arg : STRING \cup {None}])
      BY SetupsAssumption DEF Init
    <3> QED BY <3>1
  <2>3. \A n \in Libraries : NoPrefix \in Prefixes(n)
    BY DEF NoPrefix, Prefixes
  <2>4. prefix \in [Libraries -> UNION {Prefixes(n) : n \in Libraries}]
    BY <2>3 DEF Init
  <2>5. at \in 0 .. Len(manifest) + 1 /\ tries \in 0 .. Attempts
    BY <2>2, AttemptsAssumption DEF Init
  <2> QED BY <2>1, <2>3, <2>4, <2>5 DEF Init, TypeOK, NoTool
<1>2. at = 0 /\ Behind = {}
  BY DEF Init, Behind
<1>3. StampsTrue
  BY DEF Init, StampsTrue, NoPrefix
<1>4. EarlierServed /\ MemoryTrue
  BY <1>2 DEF Init, EarlierServed, MemoryTrue, BoundBy
<1>5. ToolsTrue
  BY <1>2, NoneAssumption DEF Init, ToolsTrue, NoTool
<1>6. CallsSettled
  BY <1>2 DEF Init, CallsSettled
<1> QED BY <1>1, <1>3, <1>4, <1>5, <1>6 DEF IInv

(* What a call binds keeps its type. *)
LEMMA Bound ==
    ASSUME TypeOK, NEW n \in Libraries, NEW from \in {"host", "prefix"}, Bind(n, from)
    PROVE  {target', libraries'} \subseteq [Libraries -> {None, "host", "prefix"}] /\ path' = path
BY DEF TypeOK, Bind

(* The checkout has a recipe for each library and tool. *)
LEMMA RecipeKnown ==
    ASSUME TypeOK, NEW n \in Libraries \cup Tools
    PROVE  recipe[n] \in Recipes /\ recipe[n] # None
BY CheckoutsAssumption, NoneAssumption DEF TypeOK

(* What an extraction and a build make of the prefix of the call. *)
LEMMA Extracted ==
    ASSUME TypeOK, Extract, NEW n, n = Call.name
    PROVE  /\ n \in Libraries
           /\ prefix' \in [Libraries -> UNION {Prefixes(m) : m \in Libraries}]
           /\ \A m \in Libraries : prefix'[m] \in Prefixes(m)
           /\ \A m \in Libraries : m # n => prefix'[m] = prefix[m]
           /\ prefix'[n].files # None /\ prefix'[n].files.recipe = recipe[n]
           /\ prefix'[n].prebuilt = recipe[n] /\ prefix'[n].built = None
<1> DEFINE f == [recipe |-> recipe[n], against |-> <<>>]
           v == [files |-> f, prebuilt |-> recipe[n], built |-> None]
<1>1. n \in Libraries /\ prefix' = [prefix EXCEPT ![n] = v]
  BY DEF Extract, Resolving
<1>2. v \in Prefixes(n) /\ f \in Contents(n)
  BY <1>1, Archived, CheckoutsAssumption DEF TypeOK, Contents
<1>3. f # None
  BY <1>1, <1>2, NoneAssumption
<1>4. v.files = f /\ v.prebuilt = recipe[n] /\ v.built = None /\ f.recipe = recipe[n]
  OBVIOUS
<1> HIDE DEF f, v
<1>5. /\ prefix' \in [Libraries -> UNION {Prefixes(m) : m \in Libraries}]
      /\ prefix'[n] = v /\ \A m \in Libraries : m # n => prefix'[m] = prefix[m]
      /\ \A m \in Libraries : prefix'[m] \in Prefixes(m)
  BY <1>1, <1>2 DEF TypeOK
<1> QED BY <1>1, <1>3, <1>4, <1>5

(* A build keeps the stamp of the archive it installs over.                *)
LEMMA Compiled ==
    ASSUME TypeOK, Build, NEW n, n = Call.name
    PROVE  /\ n \in Libraries
           /\ prefix' \in [Libraries -> UNION {Prefixes(m) : m \in Libraries}]
           /\ \A m \in Libraries : prefix'[m] \in Prefixes(m)
           /\ \A m \in Libraries : m # n => prefix'[m] = prefix[m]
           /\ prefix'[n].files # None /\ prefix'[n].files.recipe = recipe[n]
           /\ \A d \in DependsOf[n] : prefix'[n].files.against[d] = Supply(d)
           /\ prefix'[n].prebuilt = prefix[n].prebuilt /\ prefix'[n].built = recipe[n]
<1> DEFINE f == [recipe |-> recipe[n], against |-> [d \in DependsOf[n] |-> Supply(d)]]
<1>1. n \in Libraries /\ prefix' = [prefix EXCEPT ![n].files = f, ![n].built = recipe[n]]
  BY DEF Build, FromSource, Resolving
<1>2. f \in Contents(n) /\ recipe[n] \in Recipes
  BY <1>1, Supplied, CheckoutsAssumption DEF TypeOK, Build
<1>3. f # None
  BY <1>1, <1>2, NoneAssumption
<1>4. f.recipe = recipe[n] /\ \A d \in DependsOf[n] : f.against[d] = Supply(d)
  OBVIOUS
<1> HIDE DEF f
<1>5. /\ prefix' \in [Libraries -> UNION {Prefixes(m) : m \in Libraries}]
      /\ prefix'[n].files = f /\ prefix'[n].built = recipe[n]
      /\ prefix'[n].prebuilt = prefix[n].prebuilt
      /\ \A m \in Libraries : m # n => prefix'[m] = prefix[m]
      /\ \A m \in Libraries : prefix'[m] \in Prefixes(m)
  BY <1>1, <1>2, Installed
<1> QED BY <1>1, <1>3, <1>4, <1>5

(* Every step keeps the types. *)
LEMMA TypesKept == TypeOK /\ [Next]_vars => TypeOK'
<1> SUFFICES ASSUME TypeOK, [Next]_vars PROVE TypeOK'
  OBVIOUS
<1>a. Forget => /\ {target', libraries'} \subseteq [Libraries -> {None, "host", "prefix"}]
                /\ path' = {}
  BY DEF Forget
<1>b. ~Running => step = "resolve"
  BY DEF TypeOK
<1>c. ASSUME Running, NextCall
      PROVE  /\ UNCHANGED <<choice, cut>> /\ at' \in 0 .. Len(manifest') + 1
             /\ step' = "resolve" /\ tries' \in 0 .. Attempts /\ changed' \in BOOLEAN
  <2>1. at' = at + 1 /\ at + 1 \in 0 .. Len(manifest) + 1
    BY <1>c, CallKnown DEF NextCall
  <2>2. tries' = 0 /\ 0 \in 0 .. Attempts
    BY <1>c, AttemptsAssumption DEF NextCall
  <2>3. changed' \in BOOLEAN
    BY <1>c DEF NextCall, TypeOK
  <2> QED BY <1>c, <2>1, <2>2, <2>3 DEF NextCall, choice
<1>d. ASSUME Running, NEW n \in Tools, Call.name = n, OnPath
      PROVE  path' \subseteq Tools
  BY <1>d DEF OnPath, TypeOK
<1>e. ASSUME NEW r, NEW q, Running, FetchStep(r, q), Call.name \in Tools
      PROVE  /\ UNCHANGED <<choice, at, found, prefix, memory, changed, cut>>
             /\ Running' /\ Call'.name \in Tools
  BY <1>e DEF FetchStep, Running, Call, choice
<1>1. CASE UNCHANGED vars
  BY <1>1 DEF vars, choice, disk, memory, fetch, TypeOK, Running, Call
<1>2. CASE Outside
  <2>1. Changing
    BY <1>2 DEF Outside, ChangeSetup, Checkout, ChangeHost
  <2>2. at' = 0 /\ Len(manifest') \in Nat /\ application' = application
        /\ [manifest |-> manifest', override |-> override'] \in application
    <3>1. CASE ChangeSetup
      <4>1. PICK s \in application : manifest' = s.manifest /\ override' = s.override
        BY <3>1 DEF ChangeSetup
      <4>2. s = [manifest |-> s.manifest, override |-> s.override]
            /\ s.manifest \in Seq([name : Libraries \cup Sources \cup Tools, arg : STRING \cup {None}])
        BY SetupsAssumption DEF TypeOK
      <4> QED BY <4>1, <4>2, <2>1 DEF Changing
    <3>2. CASE Checkout \/ ChangeHost
      BY <3>2, <2>1, ManifestKnown DEF Checkout, ChangeHost, Changing, TypeOK
    <3> QED BY <1>2, <3>1, <3>2 DEF Outside
  <2>3. recipe' \in Checkouts /\ host' \in Hosts /\ locked' \in Locks /\ online' \in BOOLEAN
    BY <1>2 DEF Outside, ChangeSetup, Checkout, ChangeHost, TypeOK
  <2>4. UNCHANGED <<disk, fetch, cut>> /\ changed' = TRUE /\ step = "resolve" /\ Forget
    BY <2>1, <1>b DEF Changing
  <2> QED BY <2>2, <2>3, <2>4, <1>a DEF TypeOK, disk, fetch
<1>3. CASE Configure
  <2>1. UNCHANGED <<choice, disk, fetch, changed, cut>> /\ step = "resolve" /\ Forget
    BY <1>3, <1>b DEF Configure
  <2>2. at' \in 0 .. Len(manifest) + 1
    BY <1>3, ManifestKnown DEF Configure
  <2> QED BY <2>1, <2>2, <1>a DEF TypeOK, choice, disk, fetch
<1>4. CASE Abandon
  <2>1. at' \in 0 .. Len(manifest) + 1 /\ tries' \in 0 .. Attempts
    BY <1>4, ManifestKnown, AttemptsAssumption DEF Abandon
  <2>2. cut' \subseteq Tools
    BY <1>4 DEF Abandon, TypeOK
  <2> QED BY <1>4, <2>1, <2>2 DEF Abandon, TypeOK, choice, disk, memory
<1>5. CASE BindSystem
  <2>1. Call.name \in Libraries /\ Running /\ NextCall
    BY <1>5 DEF BindSystem, Resolving
  <2>2. {target', libraries'} \subseteq [Libraries -> {None, "host", "prefix"}] /\ path' = path
    BY <1>5, <2>1, Bound DEF BindSystem
  <2> QED BY <1>5, <2>1, <2>2, <1>c DEF BindSystem, TypeOK, choice
<1>6. CASE UsePrebuilt \/ SkipBuild
  <2>1. Call.name \in Libraries /\ Running /\ NextCall /\ Bind(Call.name, "prefix") /\ UNCHANGED disk
    BY <1>6 DEF UsePrebuilt, SkipBuild, FromSource, Resolving
  <2>2. {target', libraries'} \subseteq [Libraries -> {None, "host", "prefix"}] /\ path' = path
    BY <2>1, Bound
  <2> QED BY <2>1, <2>2, <1>c DEF disk, TypeOK, choice
<1>7. CASE Extract \/ Build
  <2>1. /\ Call.name \in Libraries /\ Running /\ NextCall
        /\ Bind(Call.name, "prefix") /\ UNCHANGED <<found, tool>>
    BY <1>7 DEF Extract, Build, FromSource, Resolving
  <2>2. {target', libraries'} \subseteq [Libraries -> {None, "host", "prefix"}] /\ path' = path
    BY <2>1, Bound
  <2>3. /\ prefix' \in [Libraries -> UNION {Prefixes(m) : m \in Libraries}]
        /\ \A m \in Libraries : prefix'[m] \in Prefixes(m)
    <3>1. CASE Extract
      BY <3>1, Extracted
    <3>2. CASE Build
      BY <3>2, Compiled
    <3> QED BY <1>7, <3>1, <3>2
  <2> QED BY <2>1, <2>2, <2>3, <1>c DEF TypeOK, choice
<1>8. CASE Deliver
  BY <1>8, <1>c DEF Deliver, Resolving, disk, memory, TypeOK, choice
<1>9. CASE FindTool
  BY <1>9, <1>c DEF FindTool, Resolving, memory, TypeOK, choice
<1>10. CASE UseTool
  BY <1>10, <1>c, <1>d DEF UseTool, Resolving, OnPath, TypeOK, choice
<1>11. CASE Chmod
  <2>1. Running /\ Call.name \in Tools /\ OnPath /\ NextCall
    BY <1>11 DEF Chmod, TypeOK, OnPath
  <2>2. tool' \in [Tools -> [file : Recipes \cup {None, "partial", "foreign"}, executable : BOOLEAN]]
    BY <1>11, <2>1 DEF Chmod, TypeOK
  <2> QED BY <2>1, <2>2, <1>c, <1>d DEF OnPath, TypeOK, choice
<1>12. CASE Fetches
  <2>1. PICK r, q : FetchStep(r, q)
    BY <1>12 DEF Fetches, FetchTool, OpenForDownload, Downloaded, DownloadFails, Check, Discard
  <2>2. Running /\ Call.name \in Tools
    BY <1>12 DEF Fetches, FetchTool, Resolving, OpenForDownload, Downloaded, DownloadFails, Check,
                Discard, FetchStep, TypeOK
  <2>3. /\ UNCHANGED <<choice, at, found, prefix, memory, changed, cut>>
        /\ Running' /\ Call'.name \in Tools
    BY <2>1, <2>2, <1>e
  <2>4. tool' \in [Tools -> [file : Recipes \cup {None, "partial", "foreign"}, executable : BOOLEAN]]
    <3>1. CASE OpenForDownload
      BY <3>1, <2>2 DEF OpenForDownload, TypeOK
    <3>2. CASE Downloaded
      <4>1. recipe[Call.name] \in Recipes
        BY <2>2, CheckoutsAssumption DEF TypeOK
      <4> QED BY <3>2, <2>2, <4>1 DEF Downloaded, TypeOK
    <3>3. CASE Discard
      BY <3>3, <2>2 DEF Discard, NoTool, TypeOK
    <3> QED BY <1>12, <3>1, <3>2, <3>3 DEF Fetches, FetchTool, DownloadFails, Check, TypeOK
  <2>5. tries' \in 0 .. Attempts
    BY <1>12, AttemptsAssumption DEF Fetches, FetchTool, OpenForDownload, AttemptLeft, Downloaded,
          DownloadFails, Check, Discard, TypeOK
  <2> QED BY <2>3, <2>4, <2>5 DEF TypeOK, choice, memory
<1> QED
  BY <1>1, <1>2, <1>3, <1>4, <1>5, <1>6, <1>7, <1>8, <1>9, <1>10, <1>11, <1>12
     DEF Next, Step, Outside, Fetches

-----------------------------------------------------------------------------
(* Where a step leaves the configure.                                      *)

(* The calls that end. *)
LibraryEnds == BindSystem \/ UsePrebuilt \/ Extract \/ SkipBuild \/ Build
ToolEnds    == FindTool \/ UseTool \/ Chmod

(* A call that ends is behind, and its mode stays what it was. *)
LEMMA Ended ==
    ASSUME TypeOK, Running, NextCall
    PROVE  /\ UNCHANGED <<manifest, override, recipe, locked, online, host, cut>>
           /\ at' = at + 1 /\ at \in Nat /\ Behind' = Behind \cup {at} /\ at' # 0
           /\ at \in DOMAIN manifest /\ Behind \subseteq DOMAIN manifest
           /\ at \notin Behind /\ manifest[at] = Call /\ step' = "resolve"
           /\ \A i \in DOMAIN manifest : ModeOf(manifest[i])' = ModeOf(manifest[i])
<1>1. UNCHANGED <<manifest, override, recipe, locked, online, host, cut>> /\ at' = at + 1
      /\ step' = "resolve"
  BY DEF NextCall, choice
<1>2. at \in 1 .. Len(manifest) /\ at \in Nat /\ Len(manifest) \in Nat
      /\ DOMAIN manifest = 1 .. Len(manifest)
  BY CallKnown, ManifestKnown
<1>3. Behind' = Behind \cup {at} /\ at \notin Behind /\ Behind \subseteq DOMAIN manifest
  BY <1>1, <1>2 DEF Behind
<1>4. \A i \in DOMAIN manifest : ModeOf(manifest[i])' = ModeOf(manifest[i])
  BY <1>1 DEF ModeOf, Override, ManifestMode
<1> QED BY <1>1, <1>2, <1>3, <1>4 DEF Call

(* A tool's fetch stays at its call and touches no other tool. *)
LEMMA Fetched ==
    ASSUME TypeOK, Fetches
    PROVE  /\ Running /\ Call.name \in Tools
           /\ UNCHANGED <<manifest, override, recipe, locked, online, host, at, found, prefix,
                          target, libraries, path, changed, cut>>
           /\ Behind' = Behind /\ Call' = Call
           /\ Behind \subseteq DOMAIN manifest
           /\ \A i \in DOMAIN manifest : ModeOf(manifest[i])' = ModeOf(manifest[i])
           /\ \A t \in Tools : t # Call.name => tool'[t] = tool[t]
<1>1. PICK r, q : FetchStep(r, q)
  BY DEF Fetches, FetchTool, OpenForDownload, Downloaded, DownloadFails, Check, Discard
<1>2. Running /\ Call.name \in Tools
  BY DEF Fetches, FetchTool, Resolving, OpenForDownload, Downloaded, DownloadFails, Check,
         Discard, FetchStep, TypeOK
<1>3. UNCHANGED <<manifest, override, recipe, locked, online, host, at, found, prefix,
                  target, libraries, path, changed, cut>>
  BY <1>1 DEF FetchStep, choice, memory
<1>4. Behind' = Behind /\ Call' = Call
  BY <1>3 DEF Behind, Call
<1>5. Behind \subseteq DOMAIN manifest
  <2>1. at \in 1 .. Len(manifest) /\ at \in Nat /\ Len(manifest) \in Nat
        /\ DOMAIN manifest = 1 .. Len(manifest)
    BY <1>2, CallKnown, ManifestKnown
  <2> QED BY <2>1 DEF Behind
<1>6. \A i \in DOMAIN manifest : ModeOf(manifest[i])' = ModeOf(manifest[i])
  BY <1>3 DEF ModeOf, Override, ManifestMode
<1>7. \A t \in Tools : t # Call.name => tool'[t] = tool[t]
  BY DEF Fetches, FetchTool, OpenForDownload, Downloaded, DownloadFails, Check, Discard, TypeOK
<1> QED BY <1>2, <1>3, <1>4, <1>5, <1>6, <1>7

(* Between configures, and when one begins or ends early, nothing is       *)
(* behind, and what lies on disk stays.                                    *)
LEMMA Between ==
    ASSUME TypeOK, Outside \/ Configure \/ Abandon
    PROVE  /\ Behind' = {} /\ at' \in {0, 1} /\ UNCHANGED <<found, prefix, tool>>
           /\ step' = "resolve"
<1>1. at' \in {0, 1} /\ UNCHANGED <<found, prefix, tool>>
  BY DEF Outside, ChangeSetup, Checkout, ChangeHost, Changing, Configure, Abandon, disk
<1>2. step' = "resolve"
  BY DEF Outside, ChangeSetup, Checkout, ChangeHost, Changing, Configure, Abandon, fetch, TypeOK
<1>3. 1 .. 0 - 1 = {} /\ 1 .. 1 - 1 = {}
  OBVIOUS
<1> QED BY <1>1, <1>2, <1>3 DEF Behind

(* Outside and Configure forget targets, properties and PATH. *)
LEMMA Forgotten ==
    ASSUME Outside \/ Configure
    PROVE  /\ path' = {} /\ cut' = cut
           /\ \A n \in Libraries : target'[n] = None /\ libraries'[n] = None
BY DEF Outside, ChangeSetup, Checkout, ChangeHost, Changing, Configure, Forget

(* Each step is of one of these kinds. *)
LEMMA Kinds ==
    ASSUME [Next]_vars
    PROVE  \/ UNCHANGED vars \/ Outside \/ Configure \/ Abandon
           \/ LibraryEnds \/ Deliver \/ ToolEnds \/ Fetches
BY DEF Next, Step, Outside, LibraryEnds, ToolEnds, Fetches

(* A library's call that ends leaves the tools, any other the libraries. *)
LEMMA EndsFacts ==
    ASSUME TypeOK
    PROVE  /\ LibraryEnds => Running /\ NextCall /\ Call.name \in Libraries /\ tool' = tool
                                /\ step = "resolve" /\ path' = path
           /\ Deliver => /\ Running /\ NextCall /\ Call.name \in Sources /\ step = "resolve"
                         /\ UNCHANGED <<found, prefix, tool, target, libraries, path>>
           /\ ToolEnds => /\ Running /\ NextCall /\ Call.name \in Tools
                          /\ UNCHANGED <<prefix, target, libraries>>
<1>1. LibraryEnds => Running /\ NextCall /\ Call.name \in Libraries /\ tool' = tool
                       /\ step = "resolve" /\ path' = path
  BY DEF LibraryEnds, BindSystem, UsePrebuilt, Extract, SkipBuild, Build, FromSource, Resolving,
         Bind, disk
<1>2. Deliver => /\ Running /\ NextCall /\ Call.name \in Sources /\ step = "resolve"
                 /\ UNCHANGED <<found, prefix, tool, target, libraries, path>>
  BY DEF Deliver, Resolving, disk, memory
<1>3. ToolEnds => /\ Running /\ NextCall /\ Call.name \in Tools
                  /\ UNCHANGED <<prefix, target, libraries>>
  BY DEF ToolEnds, FindTool, UseTool, Chmod, OnPath, Resolving, memory, TypeOK
<1> QED BY <1>1, <1>2, <1>3

-----------------------------------------------------------------------------
(* Prefixes, targets and properties.                                       *)

(* Only extractions and builds change a prefix, and each leaves its stamp. *)
LEMMA PrefixKept ==
    ASSUME TypeOK, [Next]_vars
    PROVE  prefix' = prefix \/ Extract \/ Build
<1>1. CASE UNCHANGED vars
  BY <1>1 DEF vars, disk
<1>2. CASE Outside \/ Configure \/ Abandon
  BY <1>2, Between
<1>3. CASE LibraryEnds
  BY <1>3 DEF LibraryEnds, BindSystem, UsePrebuilt, SkipBuild, disk
<1>4. CASE Deliver \/ ToolEnds
  BY <1>4, EndsFacts
<1>5. CASE Fetches
  BY <1>5, Fetched
<1> QED BY <1>1, <1>2, <1>3, <1>4, <1>5, Kinds

(* Every step leaves stamps that name the files beside them.               *)
LEMMA StampsKept == IInv /\ [Next]_vars => StampsTrue'
<1> SUFFICES ASSUME IInv, [Next]_vars, NEW n \in Libraries
             PROVE  /\ prefix'[n].files = None => prefix'[n].prebuilt = None /\ prefix'[n].built = None
                    /\ prefix'[n].prebuilt # None /\ prefix'[n].built = None =>
                           prefix'[n].files.recipe = prefix'[n].prebuilt
                    /\ prefix'[n].built # None /\ prefix'[n].prebuilt = None =>
                           prefix'[n].files.recipe = prefix'[n].built
  BY DEF StampsTrue
<1> USE DEF IInv
<1>1. CASE prefix' = prefix
  BY <1>1 DEF StampsTrue
<1>2. CASE Extract
  BY <1>2, Extracted DEF StampsTrue
<1>3. CASE Build
  <2>1. recipe[n] # None
    BY RecipeKnown
  <2>2. CASE n = Call.name
    BY <1>3, <2>1, <2>2, Compiled DEF StampsTrue
  <2>3. CASE n # Call.name
    BY <1>3, <2>3, Compiled DEF StampsTrue
  <2> QED BY <2>2, <2>3
<1> QED BY <1>1, <1>2, <1>3, PrefixKept

(* What was served stays served. *)
LEMMA ServedStays ==
    ASSUME IInv, [Next]_vars, recipe' = recipe, NEW n \in Libraries, Served(n)
    PROVE  Served(n)'
<1> USE DEF IInv
<1>1. CASE prefix' = prefix
  BY <1>1 DEF Served
<1>2. CASE Extract
  BY <1>2, Extracted DEF Served
<1>3. CASE Build
  BY <1>3, Compiled DEF Served
<1> QED BY <1>1, <1>2, <1>3, PrefixKept

(* A library's call serves its own, unless the host does. *)
LEMMA CallServes ==
    ASSUME IInv, LibraryEnds, ModeOf(Call) # "system", NEW n, n = Call.name
    PROVE  Served(n)'
<1> USE DEF IInv
<1>1. n \in Libraries /\ recipe' = recipe /\ recipe[n] # None
  <2>1. n \in Libraries /\ recipe' = recipe
    BY EndsFacts, Ended
  <2> QED BY <2>1, RecipeKnown
<1>2. CASE Extract
  BY <1>1, <1>2, Extracted DEF Served
<1>3. CASE Build
  BY <1>1, <1>3, Compiled DEF Served
<1>4. CASE UsePrebuilt
  <2>1. prefix' = prefix /\ prefix[n].prebuilt = recipe[n]
    BY <1>4 DEF UsePrebuilt, Stamped, disk
  <2> QED BY <1>1, <2>1 DEF Served, StampsTrue
<1>5. CASE SkipBuild
  <2>1. prefix' = prefix /\ prefix[n].built = recipe[n]
    BY <1>5 DEF SkipBuild, disk
  <2> QED BY <1>1, <2>1 DEF Served, StampsTrue
<1>6. ~BindSystem
  BY DEF BindSystem, Resolving
<1> QED BY <1>2, <1>3, <1>4, <1>5, <1>6 DEF LibraryEnds

(* Every step keeps what earlier calls served, and a call that ends adds to it. *)
LEMMA ServedKept == IInv /\ [Next]_vars => EarlierServed'
<1> SUFFICES ASSUME IInv, [Next]_vars PROVE EarlierServed'
  OBVIOUS
<1> USE DEF IInv
<1>1. CASE UNCHANGED vars
  BY <1>1 DEF vars, choice, disk, EarlierServed, Behind, ModeOf, Override, ManifestMode, Served
<1>2. CASE Outside \/ Configure \/ Abandon
  BY <1>2, Between DEF EarlierServed
<1>3. CASE LibraryEnds \/ Deliver \/ ToolEnds
  <2>1. Running /\ NextCall
    BY <1>3, EndsFacts
  <2> SUFFICES ASSUME NEW i \in Behind', NEW n \in Libraries, n = manifest'[i].name,
                      ModeOf(manifest[i])' # "system"
               PROVE  Served(n)'
    BY DEF EarlierServed
  <2>2. /\ n = manifest[i].name /\ recipe' = recipe /\ i \in Behind \cup {at}
        /\ ModeOf(manifest[i]) # "system"
    BY <2>1, Ended
  <2>3. CASE i \in Behind
    <3>1. Served(n)
      BY <2>2, <2>3 DEF EarlierServed
    <3> QED BY <3>1, <2>2, ServedStays
  <2>4. CASE i = at
    <3>1. n = Call.name /\ ModeOf(Call) # "system"
      BY <2>1, <2>2, <2>4, Ended
    <3>2. LibraryEnds
      BY <1>3, <3>1, EndsFacts, NamesAssumption
    <3> QED BY <3>1, <3>2, CallServes
  <2> QED BY <2>2, <2>3, <2>4
<1>4. CASE Fetches
  BY <1>4, Fetched DEF EarlierServed, Served
<1> QED BY <1>1, <1>2, <1>3, <1>4, Kinds

(* A library's call binds what its mode says. *)
LEMMA Binds ==
    ASSUME TypeOK, LibraryEnds
    PROVE  /\ From(Call) # None
           /\ \A n \in Libraries : n # Call.name =>
                  target'[n] = target[n] /\ libraries'[n] = libraries[n]
           /\ target'[Call.name] = IF target[Call.name] = None THEN From(Call) ELSE target[Call.name]
           /\ libraries'[Call.name] = From(Call)
<1>1. Bind(Call.name, From(Call))
  BY DEF LibraryEnds, BindSystem, UsePrebuilt, Extract, SkipBuild, Build, FromSource, Resolving,
         From
<1>2. Call.name \in Libraries
  BY EndsFacts
<1>3. From(Call) # None
  BY NoneAssumption DEF From
<1> QED BY <1>1, <1>2, <1>3 DEF Bind, TypeOK

(* What earlier calls bound stays bound by them. *)
LEMMA StaysBound ==
    ASSUME TypeOK, Running, NextCall, NEW n, NEW from, BoundBy(n, from), at # 0, from # None
    PROVE  \E i \in Behind' : manifest'[i].name = n /\ from = From(manifest[i])'
<1>1. PICK i \in Behind : manifest[i].name = n /\ from = From(manifest[i])
  BY DEF BoundBy
<1>2. i \in Behind' /\ manifest'[i].name = n /\ ModeOf(manifest[i])' = ModeOf(manifest[i])
  BY <1>1, Ended
<1> QED BY <1>1, <1>2 DEF From

(* Every step keeps targets and properties those of earlier calls. *)
LEMMA MemoryKept == IInv /\ [Next]_vars => MemoryTrue'
<1> SUFFICES ASSUME IInv, [Next]_vars PROVE MemoryTrue'
  OBVIOUS
<1> USE DEF IInv
<1>1. CASE UNCHANGED vars
  BY <1>1 DEF vars, choice, memory, MemoryTrue, BoundBy, From, Behind, ModeOf, Override,
              ManifestMode
<1>2. CASE Outside \/ Configure
  BY <1>2, Forgotten DEF MemoryTrue, BoundBy
<1>3. CASE Abandon
  BY <1>3 DEF Abandon, memory, MemoryTrue, BoundBy
<1>4. CASE Fetches
  BY <1>4, Fetched DEF MemoryTrue, BoundBy, From
<1>5. CASE Deliver \/ ToolEnds \/ LibraryEnds
  <2>1. Running /\ NextCall /\ at # 0
    BY <1>5, EndsFacts, CallKnown
  <2>2. ASSUME NEW n \in Libraries, target'[n] = target[n], libraries'[n] = libraries[n]
        PROVE  /\ target'[n] = None <=> libraries'[n] = None
               /\ BoundBy(n, target[n])' /\ BoundBy(n, libraries[n])'
    <3>1. /\ target[n] = None <=> libraries[n] = None
          /\ BoundBy(n, target[n]) /\ BoundBy(n, libraries[n])
      BY DEF MemoryTrue
    <3>2. target[n] # None =>
              \E i \in Behind' : manifest'[i].name = n /\ target[n] = From(manifest[i])'
      BY <2>1, <3>1, StaysBound
    <3>3. libraries[n] # None =>
              \E i \in Behind' : manifest'[i].name = n /\ libraries[n] = From(manifest[i])'
      BY <2>1, <3>1, StaysBound
    <3> QED BY <2>2, <3>1, <3>2, <3>3 DEF BoundBy
  <2>3. CASE Deliver \/ ToolEnds
    BY <2>2, <2>3, EndsFacts DEF MemoryTrue
  <2>4. CASE LibraryEnds
    <3>1. ASSUME NEW n \in Libraries, n = Call.name
          PROVE  /\ target'[n] = None <=> libraries'[n] = None
                 /\ BoundBy(n, target[n])' /\ BoundBy(n, libraries[n])'
      <4>1. BoundBy(n, target[n]) /\ libraries'[n] # None /\ target'[n] # None
        BY <2>4, <3>1, Binds DEF MemoryTrue
      <4>2. PICK k \in Behind' : manifest'[k].name = n /\ ModeOf(manifest[k])' = ModeOf(Call)
        BY <2>1, <3>1, Ended
      <4>3. BoundBy(n, libraries[n])'
        BY <2>4, <3>1, <4>2, Binds DEF BoundBy, From
      <4>4. BoundBy(n, target[n])'
        <5>1. CASE target[n] = None
          BY <2>4, <3>1, <4>2, <5>1, Binds DEF BoundBy, From
        <5>2. CASE target[n] # None
          <6>1. \E i \in Behind' : manifest'[i].name = n /\ target[n] = From(manifest[i])'
            BY <2>1, <4>1, <5>2, StaysBound
          <6>2. target'[n] = target[n]
            BY <2>4, <3>1, <5>2, Binds
          <6> QED BY <6>1, <6>2 DEF BoundBy
        <5> QED BY <5>1, <5>2
      <4> QED BY <4>1, <4>3, <4>4
    <3> QED BY <2>2, <2>4, <3>1, Binds DEF MemoryTrue
  <2> QED BY <1>5, <2>3, <2>4
<1> QED BY <1>1, <1>2, <1>3, <1>4, <1>5, Kinds

-----------------------------------------------------------------------------
(* Binary tools.                                                           *)

(* Every step keeps what is known of the tools: the one that is fetched is *)
(* not on PATH, and only an end after its download leaves it unrunnable.   *)
LEMMA ToolsKept == IInv /\ [Next]_vars => ToolsTrue'
<1> SUFFICES ASSUME IInv, [Next]_vars PROVE ToolsTrue'
  OBVIOUS
<1> USE DEF IInv
<1>1. CASE UNCHANGED vars
  BY <1>1 DEF vars, choice, disk, memory, fetch, ToolsTrue, Call, Pinned, Behind, ModeOf, Override,
              ManifestMode
<1>2. CASE Outside \/ Configure
  <2>1. ASSUME NEW t \in Tools PROVE tool[t].file \in Recipes /\ ~tool[t].executable => t \in cut
    <3>1. step = "resolve"
      BY <1>2 DEF Outside, ChangeSetup, Checkout, ChangeHost, Changing, Configure, TypeOK
    <3> QED BY <3>1 DEF ToolsTrue
  <2> QED BY <1>2, <2>1, Between, Forgotten DEF ToolsTrue
<1>3. CASE Abandon
  <2>1. /\ UNCHANGED <<tool, recipe, path>> /\ step' = "resolve" /\ Behind' = {}
    BY <1>3, Between DEF Abandon, choice, disk, memory
  <2>2. \A t \in Tools : tool[t].file \in Recipes /\ ~tool[t].executable => t \in cut'
    BY <1>3 DEF Abandon, ToolsTrue
  <2> QED BY <2>1, <2>2 DEF ToolsTrue
<1>4. CASE Deliver \/ LibraryEnds
  <2>1. Running /\ NextCall /\ Call.name \notin Tools /\ step = "resolve"
        /\ tool' = tool /\ path' = path
    BY <1>4, EndsFacts, NamesAssumption
  <2>2. ASSUME NEW i \in Behind', NEW t \in Tools, t = manifest'[i].name,
               ModeOf(manifest[i])' # "system"
        PROVE  tool'[t].file = recipe'[t]
    <3>1. i \in Behind /\ t = manifest[i].name /\ ModeOf(manifest[i]) # "system" /\ recipe' = recipe
      BY <2>1, <2>2, Ended
    <3> QED BY <2>1, <3>1 DEF ToolsTrue
  <2>3. recipe' = recipe /\ cut' = cut /\ step' = "resolve"
    BY <2>1, Ended
  <2> QED BY <2>1, <2>2, <2>3 DEF ToolsTrue
<1>5. CASE ToolEnds
  <2> DEFINE n == Call.name
  <2>1. Running /\ NextCall /\ n \in Tools
    BY <1>5, EndsFacts
  <2>2. recipe' = recipe /\ cut' = cut /\ step' = "resolve"
    BY <2>1, Ended
  <2>3. \A t \in Tools : tool'[t].file = tool[t].file /\ (tool[t].executable => tool'[t].executable)
    BY <1>5, <2>1 DEF ToolEnds, FindTool, UseTool, Chmod, TypeOK
  <2>4. n \in path' => tool[n].file = recipe[n]
    BY <1>5 DEF ToolEnds, FindTool, UseTool, Chmod, OnPath, ToolsTrue, Pinned, memory
  <2>5. ModeOf(Call) # "system" => tool[n].file = recipe[n]
    BY <1>5 DEF ToolEnds, FindTool, UseTool, Chmod, Resolving, ToolsTrue, Pinned
  <2>6. path' \subseteq path \cup {n} /\ path' \subseteq Tools
    BY <1>5, <2>1 DEF ToolEnds, FindTool, UseTool, Chmod, OnPath, memory, TypeOK
  <2>7. ASSUME NEW t \in Tools, tool'[t].file \in Recipes, ~tool'[t].executable PROVE t \in cut'
    <3>1. step \in {"check", "chmod"} => step = "chmod" /\ tool'[n].executable
      BY <1>5, <2>1 DEF ToolEnds, FindTool, UseTool, Chmod, Resolving, TypeOK
    <3> QED BY <2>2, <2>3, <2>7, <3>1 DEF ToolsTrue
  <2>8. ASSUME NEW i \in Behind', NEW t \in Tools, t = manifest'[i].name,
               ModeOf(manifest[i])' # "system"
        PROVE  tool'[t].file = recipe'[t]
    <3>1. /\ i \in Behind \cup {at} /\ t = manifest[i].name /\ ModeOf(manifest[i]) # "system"
          /\ manifest[at] = Call
      BY <2>1, <2>8, Ended
    <3>2. tool[t].file = recipe[t]
      BY <3>1, <2>5 DEF ToolsTrue
    <3> QED BY <2>2, <2>3, <3>2
  <2>9. \A t \in path' : tool'[t].file = recipe'[t]
    BY <2>2, <2>3, <2>4, <2>6 DEF ToolsTrue
  <2> QED BY <2>2, <2>7, <2>8, <2>9 DEF ToolsTrue
<1>6. CASE Fetches
  <2> DEFINE n == Call.name
  <2>1. /\ Running /\ n \in Tools /\ Call' = Call /\ Behind' = Behind
        /\ UNCHANGED <<manifest, recipe, path, cut>>
        /\ \A t \in Tools : t # n => tool'[t] = tool[t]
        /\ \A i \in Behind : ModeOf(manifest[i])' = ModeOf(manifest[i])
        /\ ModeOf(Call)' = ModeOf(Call)
    BY <1>6, Fetched DEF Call, Running
  <2>2. recipe[n] \in Recipes /\ recipe[n] \notin {"partial", "foreign"} /\ None \notin Recipes
        /\ {"partial", "foreign"} \cap Recipes = {}
    BY <2>1, RecipeKnown, RecipesAssumption, NoneAssumption
  <2>3. /\ n \notin path /\ ModeOf(Call) # "system"
        /\ \A i \in Behind : manifest[i].name = n => ModeOf(manifest[i]) = "system"
    <3>1. CASE FetchTool
      BY <3>1, <2>1 DEF FetchTool, Resolving, Pinned, ToolsTrue
    <3>2. CASE step # "resolve"
      BY <3>2 DEF ToolsTrue
    <3> QED BY <1>6, <3>1, <3>2 DEF Fetches, OpenForDownload, Downloaded, DownloadFails, Check,
                                    Discard, FetchStep
  <2>4. /\ tool'[n].file \in Recipes /\ ~tool'[n].executable => n \in cut \/ step' \in {"check", "chmod"}
        /\ step' = "check" => tool'[n].file \in {recipe[n], "foreign"}
        /\ step' = "chmod" => tool'[n].file = recipe[n]
    <3>1. CASE FetchTool
      BY <3>1 DEF FetchTool, Resolving, FetchStep, ToolsTrue
    <3>2. CASE OpenForDownload
      BY <3>2, <2>1, <2>2 DEF OpenForDownload, FetchStep, TypeOK
    <3>3. CASE Downloaded
      BY <3>3, <2>1 DEF Downloaded, FetchStep, TypeOK
    <3>4. CASE DownloadFails
      BY <3>4, <2>1 DEF DownloadFails, FetchStep, ToolsTrue
    <3>5. CASE Check
      BY <3>5, <2>2 DEF Check, FetchStep, ToolsTrue, Pinned
    <3>6. CASE Discard
      BY <3>6, <2>1, <2>2 DEF Discard, FetchStep, NoTool, TypeOK
    <3> QED BY <1>6, <3>1, <3>2, <3>3, <3>4, <3>5, <3>6 DEF Fetches
  <2>5. \A t \in Tools \ {n} : tool[t].file \in Recipes /\ ~tool[t].executable => t \in cut
    BY DEF ToolsTrue
  <2>6. \A t \in path : t \in Tools /\ tool'[t].file = recipe[t]
    BY <2>1, <2>3 DEF ToolsTrue, TypeOK
  <2>7. ASSUME NEW i \in Behind, manifest[i].name \in Tools, ModeOf(manifest[i]) # "system"
        PROVE  tool'[manifest[i].name].file = recipe[manifest[i].name]
    BY <2>1, <2>3, <2>7 DEF ToolsTrue
  <2> QED BY <2>1, <2>3, <2>4, <2>5, <2>6, <2>7 DEF ToolsTrue, Pinned
<1> QED BY <1>1, <1>2, <1>3, <1>4, <1>5, <1>6, Kinds

-----------------------------------------------------------------------------
(* Calls that have nothing left to do.                                     *)

(* What is settled is neither extracted, built nor fetched again.          *)
LEMMA SettledIsQuiet ==
    ASSUME IInv, Running, Settled(Call)
    PROVE  /\ ~Extract /\ ~Build /\ ~FetchTool
           /\ BindSystem \/ FindTool => found' = found
<1> USE NamesAssumption DEF IInv
<1>1. ~Extract
  BY DEF Extract, Resolving, Settled, Fetchable
<1>2. ~Build
  BY DEF Build, FromSource, Resolving, Settled
<1>3. ~FetchTool
  BY DEF FetchTool, Resolving, Settled, Pinned
<1>4. BindSystem \/ FindTool => found' = found
  <2>1. ASSUME BindSystem \/ FindTool PROVE found' = found
    <3>1. Call.name \in found /\ found' = found \cup {Call.name}
      BY <2>1 DEF BindSystem, FindTool, Resolving, Settled
    <3> QED BY <3>1
  <2> QED BY <2>1
<1> QED BY <1>1, <1>2, <1>3, <1>4

(* Two calls for a library that has one mode ask for the same.             *)
LEMMA SameMode ==
    ASSUME OneMode, NEW i \in DOMAIN manifest, NEW j \in DOMAIN manifest,
           manifest[i].name = manifest[j].name, manifest[i].name \in Libraries
    PROVE  ModeOf(manifest[i]) = ModeOf(manifest[j])
BY DEF OneMode, TwoModes

(* A call that ends leaves settled what was settled.                       *)
LEMMA SettledStays ==
    ASSUME IInv, OneMode, LibraryEnds \/ Deliver \/ ToolEnds,
           NEW i \in DOMAIN manifest, Settled(manifest[i])
    PROVE  Settled(manifest[i])'
<1> USE NamesAssumption DEF IInv
<1> DEFINE c == manifest[i]
           n == c.name
<1>1. Running /\ NextCall
  BY EndsFacts
<1>2. /\ UNCHANGED <<manifest, override, recipe, locked, online>>
      /\ ModeOf(c)' = ModeOf(c) /\ at \in DOMAIN manifest /\ manifest[at] = Call
  BY <1>1, Ended
<1>3. found \subseteq found'
  BY DEF LibraryEnds, BindSystem, UsePrebuilt, Extract, SkipBuild, Build, Deliver, ToolEnds,
         FindTool, UseTool, Chmod, OnPath, disk
<1>4. n \in Tools => tool'[n].file = tool[n].file
  BY <1>1, EndsFacts DEF ToolEnds, FindTool, UseTool, Chmod, TypeOK
<1>5. n \in Libraries => prefix'[n] = prefix[n]
  <2>1. CASE prefix' = prefix
    BY <2>1
  <2>2. CASE (Extract \/ Build) /\ n # Call.name
    BY <2>2, Extracted, Compiled
  <2>3. CASE (Extract \/ Build) /\ n = Call.name
    <3>1. n \in Libraries
      BY <2>3, Extracted, Compiled
    <3>2. ModeOf(c) = ModeOf(Call)
      BY <1>2, <2>3, <3>1, SameMode
    <3>3. Settled(Call)
      BY <2>3, <3>2 DEF Settled
    <3> QED BY <2>3, <1>1, <3>3, SettledIsQuiet
  <2> QED
    BY <2>1, <2>2, <2>3, EndsFacts DEF LibraryEnds, BindSystem, UsePrebuilt, SkipBuild, disk
<1> QED BY <1>2, <1>3, <1>4, <1>5 DEF Settled, Stamped, Fetchable

(* A call that ends has settled what it asks for.                          *)
LEMMA CallSettles ==
    ASSUME IInv, LibraryEnds \/ Deliver \/ ToolEnds, NEW i, i = at
    PROVE  Settled(manifest[i])'
<1> USE DEF IInv
<1>1. Running /\ NextCall
  BY EndsFacts
<1> DEFINE n == Call.name
<1>2. /\ UNCHANGED <<manifest, override, recipe, locked, online>> /\ manifest[i] = Call
      /\ ModeOf(manifest[i])' = ModeOf(Call) /\ manifest'[i].name = n
  BY <1>1, Ended
<1>3. CASE BindSystem \/ FindTool
  BY <1>2, <1>3 DEF BindSystem, FindTool, Resolving, Settled
<1>4. CASE UsePrebuilt
  BY <1>2, <1>4 DEF UsePrebuilt, Resolving, Settled, Stamped, disk
<1>5. CASE Extract
  <2>1. ModeOf(Call) = "prebuilt" /\ n \in Libraries /\ n \in locked /\ prefix'[n].prebuilt = recipe[n]
    BY <1>5, Extracted DEF Extract, Resolving, Fetchable
  <2> QED BY <1>2, <2>1 DEF Settled, Stamped
<1>6. CASE SkipBuild \/ Build
  <2>1. /\ ModeOf(Call) \in {"prebuilt", "rebuild"} /\ n \in Libraries
        /\ ModeOf(Call) = "prebuilt" => ~Stamped(n) /\ ~Fetchable(n)
    BY <1>6 DEF SkipBuild, Build, FromSource, Resolving
  <2>2. prefix'[n].built = recipe[n] /\ prefix'[n].prebuilt = prefix[n].prebuilt
    BY <1>6, Compiled DEF SkipBuild, disk
  <2> QED BY <1>2, <2>1, <2>2 DEF Settled, Stamped, Fetchable
<1>7. CASE Deliver
  BY <1>2, <1>7, EndsFacts DEF Settled
<1>8. CASE UseTool \/ Chmod
  <2>1. ModeOf(Call) # "system" /\ n \in Tools /\ tool[n].file = recipe[n]
    BY <1>8, EndsFacts DEF ToolEnds, UseTool, Chmod, Resolving, ToolsTrue, Pinned
  <2>2. tool'[n].file = tool[n].file
    BY <1>8, <2>1 DEF UseTool, Chmod, TypeOK
  <2> QED BY <1>2, <2>1, <2>2 DEF Settled
<1> QED BY <1>3, <1>4, <1>5, <1>6, <1>7, <1>8 DEF LibraryEnds, ToolEnds

(* Every step keeps earlier calls settled, and in a tree where nothing has *)
(* changed all of them.                                                    *)
LEMMA SettledKept == IInv /\ [Next]_vars => CallsSettled'
<1> SUFFICES ASSUME IInv, [Next]_vars PROVE CallsSettled'
  OBVIOUS
<1> USE DEF IInv
<1>a. ASSUME UNCHANGED <<manifest, override>> PROVE OneMode' = OneMode
  BY <1>a DEF OneMode, TwoModes, ModeOf, Override, ManifestMode
<1>b. ASSUME UNCHANGED <<choice, disk>>, NEW i
      PROVE  Settled(manifest[i])' <=> Settled(manifest[i])
  BY <1>b DEF choice, disk, Settled, Stamped, Fetchable, ModeOf, Override, ManifestMode
<1>1. CASE UNCHANGED vars
  <2>1. UNCHANGED <<choice, disk, manifest, override, at, step, changed>>
    BY <1>1 DEF vars, choice, fetch
  <2> QED BY <2>1, <1>a, <1>b DEF CallsSettled, Behind
<1>2. CASE Outside
  BY <1>2, Between DEF Outside, ChangeSetup, Checkout, ChangeHost, Changing, CallsSettled
<1>3. CASE Configure \/ Abandon
  <2>1. UNCHANGED <<choice, disk, manifest, override, changed>> /\ Behind' = {} /\ step' = "resolve"
    BY <1>3, Between DEF Configure, Abandon, choice
  <2> QED BY <2>1, <1>a, <1>b DEF CallsSettled
<1>4. CASE LibraryEnds \/ Deliver \/ ToolEnds
  <2> SUFFICES ASSUME OneMode'
               PROVE  /\ \A i \in Behind' : Settled(manifest[i])'
                      /\ ~changed' => /\ step' = "resolve"
                                      /\ \A i \in DOMAIN manifest' : Settled(manifest[i])'
    BY DEF CallsSettled
  <2>1. Running /\ NextCall
    BY <1>4, EndsFacts
  <2>2. /\ UNCHANGED <<manifest, override>> /\ step' = "resolve"
        /\ Behind' = Behind \cup {at} /\ Behind \subseteq DOMAIN manifest /\ at \in DOMAIN manifest
    BY <2>1, Ended
  <2>3. OneMode
    BY <2>2, <1>a
  <2>4. ASSUME NEW i \in Behind' PROVE Settled(manifest[i])'
    <3>1. CASE i = at
      BY <3>1, <1>4, CallSettles
    <3>2. CASE i \in Behind
      <4>1. i \in DOMAIN manifest /\ Settled(manifest[i])
        BY <2>2, <2>3, <3>2 DEF CallsSettled
      <4> QED BY <4>1, <1>4, <2>3, SettledStays
    <3> QED BY <2>2, <3>1, <3>2
  <2>5. ASSUME ~changed', NEW i \in DOMAIN manifest PROVE Settled(manifest[i])'
    <3>1. CASE ~changed
      <4>1. Settled(manifest[i])
        BY <2>3, <3>1 DEF CallsSettled
      <4> QED BY <4>1, <1>4, <2>3, SettledStays
    <3>2. CASE ~(at < Len(manifest))
      <4>1. i \in Behind'
        BY <2>1, <2>2, <3>2, CallKnown, ManifestKnown DEF Behind
      <4> QED BY <4>1, <2>4
    <3> QED BY <2>1, <2>5, <3>1, <3>2 DEF NextCall
  <2> QED BY <2>2, <2>4, <2>5
<1>5. CASE Fetches
  <2> SUFFICES ASSUME OneMode'
               PROVE  changed' /\ \A i \in Behind' : Settled(manifest[i])'
    BY DEF CallsSettled
  <2>1. /\ Running /\ Call.name \in Tools
        /\ UNCHANGED <<manifest, override, recipe, locked, online, found, prefix, changed>>
        /\ Behind' = Behind /\ Behind \subseteq DOMAIN manifest
        /\ \A i \in DOMAIN manifest : ModeOf(manifest[i])' = ModeOf(manifest[i])
        /\ \A t \in Tools : t # Call.name => tool'[t] = tool[t]
    BY <1>5, Fetched
  <2>2. OneMode
    BY <2>1, <1>a
  <2>3. changed
    <3>1. ASSUME ~changed PROVE FALSE
      <4>1. step = "resolve" /\ Settled(Call)
        BY <2>1, <2>2, <3>1 DEF CallsSettled, Call, Running
      <4>2. FetchTool
        BY <1>5, <4>1 DEF Fetches, OpenForDownload, Downloaded, DownloadFails, Check, Discard,
                          FetchStep
      <4> QED BY <2>1, <4>1, <4>2, SettledIsQuiet
    <3> QED BY <3>1
  <2>4. ASSUME NEW i \in Behind PROVE Settled(manifest[i])'
    <3>1. Settled(manifest[i]) /\ i \in DOMAIN manifest
      BY <2>1, <2>2 DEF CallsSettled
    <3>2. manifest[i].name = Call.name => ModeOf(manifest[i]) = "system" /\ Call.name \in found
      <4>1. CASE step # "resolve"
        BY <2>1, <3>1, <4>1, NamesAssumption DEF ToolsTrue, Settled
      <4>2. CASE FetchTool
        BY <2>1, <3>1, <4>2, NamesAssumption DEF FetchTool, Pinned, Settled
      <4> QED BY <1>5, <4>1, <4>2 DEF Fetches, OpenForDownload, Downloaded, DownloadFails, Check,
                                      Discard, FetchStep
    <3> QED BY <2>1, <3>1, <3>2, NamesAssumption DEF Settled, Stamped, Fetchable
  <2> QED BY <2>1, <2>3, <2>4
<1> QED BY <1>1, <1>2, <1>3, <1>4, <1>5, Kinds

-----------------------------------------------------------------------------
(* The theorems.                                                           *)

(* The inductive invariant: what lies in prefixes and tools, and what      *)
(* earlier calls of the configure have made of it.                         *)
THEOREM Invariance == Spec => []IInv
<1>1. IInv /\ [Next]_vars => IInv'
  BY TypesKept, StampsKept, ServedKept, MemoryKept, ToolsKept, SettledKept DEF IInv
<1> QED BY Initially, <1>1, PTL DEF Spec

(* What a configure finds, keeps and leaves has its type.                  *)
THEOREM TypeCorrect == Spec => []TypeOK
<1>1. IInv => TypeOK
  BY DEF IInv
<1> QED BY Invariance, <1>1, PTL

(* What is linked is what is shipped, of the checked-out recipe, and the   *)
(* tools on PATH are the pinned ones and run, with the exceptions that the *)
(* property names.                                                         *)
THEOREM HandedOverCorrect == Spec => []PinnedIsHandedOver
<1>1. IInv => PinnedIsHandedOver
  <2> SUFFICES ASSUME IInv PROVE PinnedIsHandedOver
    OBVIOUS
  <2> USE DEF IInv
  <2>1. ASSUME NEW t \in path PROVE ToolRuns(t)
    <3>1. t \in Tools /\ tool[t].file = recipe[t]
      BY DEF TypeOK, ToolsTrue
    <3>2. ~(step \in {"check", "chmod"} /\ Call.name = t)
      BY DEF ToolsTrue
    <3>3. tool[t].executable \/ t \in cut
      BY <3>1, <3>2, RecipeKnown DEF ToolsTrue
    <3> QED BY <3>1, <3>3 DEF ToolRuns
  <2>2. ASSUME Finished, NEW n \in Libraries, ~TwoModes(n) PROVE LinkedIsShipped(n)
    <3>1. at # 0 /\ Behind \subseteq DOMAIN manifest
      BY <2>2, ManifestKnown DEF Finished, Behind
    <3>2. CASE target[n] = None
      BY <2>2, <3>2, NoneAssumption DEF MemoryTrue, LinkedIsShipped
    <3>3. CASE target[n] # None
      <4>1. PICK i \in Behind : manifest[i].name = n /\ target[n] = From(manifest[i])
        BY <3>1, <3>3 DEF MemoryTrue, BoundBy
      <4>2. PICK j \in Behind : manifest[j].name = n /\ libraries[n] = From(manifest[j])
        BY <3>1, <3>3 DEF MemoryTrue, BoundBy
      <4>3. ModeOf(manifest[i]) = ModeOf(manifest[j])
        BY <2>2, <3>1, <4>1, <4>2 DEF TwoModes
      <4>4. libraries[n] = target[n]
        BY <4>1, <4>2, <4>3 DEF From
      <4>5. target[n] = "prefix" => Served(n)
        BY <4>1 DEF From, EarlierServed
      <4> QED BY <4>4, <4>5 DEF LinkedIsShipped, Served
    <3> QED BY <3>2, <3>3
  <2> QED BY <2>1, <2>2 DEF PinnedIsHandedOver, LinkedIsShipped
<1> QED BY Invariance, <1>1, PTL

(* A build gets the checked-out recipe of every dependency that an earlier *)
(* call did not take from the host.                                        *)
THEOREM BuiltAgainstCorrect == Spec => BuiltAgainstCheckedOut
<1>1. IInv /\ [Next]_vars =>
          [Build => \A d \in DependsOf[Call.name] :
             (\E i \in Earlier(d) : ModeOf(manifest[i]) # "system") =>
                 \/ prefix'[Call.name].files.against[d] = recipe[d]
                 \/ prefix[d].prebuilt # None /\ prefix[d].built # None]_vars
  <2> SUFFICES ASSUME IInv, Build, NEW d \in DependsOf[Call.name],
                      NEW i \in Earlier(d), ModeOf(manifest[i]) # "system"
               PROVE  \/ prefix'[Call.name].files.against[d] = recipe[d]
                      \/ prefix[d].prebuilt # None /\ prefix[d].built # None
    OBVIOUS
  <2>1. Call.name \in Libraries /\ prefix'[Call.name].files.against[d] = Supply(d)
    BY Compiled DEF IInv
  <2>2. d \in Libraries
    BY <2>1, DependsAssumption
  <2>3. Served(d)
    BY <2>2 DEF Earlier, IInv, EarlierServed, Behind
  <2> QED BY <2>1, <2>3 DEF Served, Supply
<1> QED BY Invariance, <1>1, PTL DEF Spec, BuiltAgainstCheckedOut

(* To configure again where nothing has changed touches nothing on disk.   *)
THEOREM ReconfigureCorrect == Spec => ReconfigureChangesNothing
<1>1. IInv /\ [Next]_vars =>
          [~changed /\ (\A n \in Libraries : ~TwoModes(n)) =>
               UNCHANGED disk /\ ~(Extract \/ Build \/ FetchTool)]_vars
  <2> SUFFICES ASSUME IInv, [Next]_vars, ~changed, OneMode
               PROVE  UNCHANGED disk /\ ~(Extract \/ Build \/ FetchTool)
    BY DEF OneMode
  <2> USE DEF IInv
  <2>1. step = "resolve" /\ (Running => Settled(Call))
    BY DEF CallsSettled, Running, Call
  <2>2. ~Extract /\ ~Build /\ ~FetchTool
    BY <2>1, SettledIsQuiet DEF Extract, Build, FromSource, FetchTool, Resolving
  <2>3. ~Fetches /\ ~Chmod
    BY <2>1, <2>2 DEF Fetches, OpenForDownload, Downloaded, DownloadFails, Check, Discard,
                      FetchStep, Chmod
  <2>4. found' = found /\ prefix' = prefix /\ tool' = tool
    <3>1. CASE UNCHANGED vars
      BY <3>1 DEF vars, disk
    <3>2. CASE Outside \/ Configure \/ Abandon
      BY <3>2, Between
    <3>3. CASE LibraryEnds
      <4>1. found' = found
        BY <2>1, <2>2, <3>3, EndsFacts, SettledIsQuiet
           DEF LibraryEnds, UsePrebuilt, SkipBuild, disk
      <4>2. prefix' = prefix
        BY <2>2, PrefixKept
      <4> QED BY <3>3, <4>1, <4>2, EndsFacts
    <3>4. CASE Deliver
      BY <3>4, EndsFacts
    <3>5. CASE ToolEnds
      <4>1. Running /\ prefix' = prefix
        BY <3>5, EndsFacts
      <4>2. CASE FindTool
        BY <2>1, <4>1, <4>2, SettledIsQuiet DEF FindTool
      <4>3. CASE UseTool
        BY <4>1, <4>3 DEF UseTool, OnPath
      <4> QED BY <2>3, <3>5, <4>2, <4>3 DEF ToolEnds
    <3> QED BY <2>3, <3>1, <3>2, <3>3, <3>4, <3>5, Kinds
  <2> QED BY <2>2, <2>4 DEF disk
<1> QED BY Invariance, <1>1, PTL DEF Spec, ReconfigureChangesNothing
=============================================================================
