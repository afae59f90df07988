----------------------- MODULE PlatformBuild_proofs -----------------------
(***************************************************************************)
(* The passes of build_platform.cmake on every dependency graph: nothing   *)
(* is built before what it depends on, nothing is forgotten, and a build   *)
(* is called stuck only when it is.                                        *)
(***************************************************************************)
EXTENDS PlatformBuild, FiniteSetTheorems, FunctionTheorems, TLAPS

(* Appending adds one element to what a list holds. *)
LEMMA RangeAppend ==
    ASSUME NEW S, NEW s \in Seq(S), NEW e \in S
    PROVE  /\ Range(Append(s, e)) = Range(s) \cup {e}
           /\ Append(s, e) \in Seq(S)
           /\ Len(Append(s, e)) = Len(s) + 1
<1>1. DOMAIN Append(s, e) = 1..(Len(s) + 1)
  OBVIOUS
<1>2. \A i \in 1..Len(s) : Append(s, e)[i] = s[i]
  OBVIOUS
<1>3. Append(s, e)[Len(s) + 1] = e
  OBVIOUS
<1> QED BY <1>1, <1>2, <1>3 DEF Range

(* A list holds its entries, and nothing but elements of its type.          *)
LEMMA RangeOfSequence ==
    ASSUME NEW S, NEW s \in Seq(S)
    PROVE  /\ Range(s) \subseteq S
           /\ \A i \in 1..Len(s) : s[i] \in Range(s)
BY DEF Range

(* The empty list holds nothing. *)
LEMMA RangeEmpty == Range(<<>>) = {}
BY DEF Range

(* The first entries of a list are entries of it. *)
LEMMA FirstLines ==
    ASSUME NEW S, NEW s \in Seq(S), NEW n \in 0..Len(s)
    PROVE  /\ SubSeq(s, 1, n) \in Seq(S)
           /\ Range(SubSeq(s, 1, n)) \subseteq Range(s)
<1>1. /\ SubSeq(s, 1, n) \in Seq(S)
      /\ DOMAIN SubSeq(s, 1, n) = 1..n
      /\ \A i \in 1..n : SubSeq(s, 1, n)[i] = s[i] /\ i \in DOMAIN s
  OBVIOUS
<1> QED BY <1>1 DEF Range

(* A list stays without duplicates when a new element is appended. *)
LEMMA DistinctAppend ==
    ASSUME NEW S, NEW s \in Seq(S), NEW e \in S, Distinct(s), e \notin Range(s)
    PROVE  Distinct(Append(s, e))
<1> SUFFICES ASSUME NEW i \in DOMAIN Append(s, e), NEW j \in DOMAIN Append(s, e),
                    Append(s, e)[i] = Append(s, e)[j]
             PROVE  i = j
  BY DEF Distinct
<1>1. \A k \in DOMAIN Append(s, e) :
         \/ k \in DOMAIN s /\ Append(s, e)[k] = s[k] /\ s[k] \in Range(s)
         \/ k = Len(s) + 1 /\ Append(s, e)[k] = e
  BY DEF Range
<1> QED BY <1>1 DEF Distinct

(* The length of a list without duplicates counts its elements. *)
LEMMA CountDistinct ==
    ASSUME NEW S, NEW s \in Seq(S), Distinct(s)
    PROVE  IsFiniteSet(Range(s)) /\ Cardinality(Range(s)) = Len(s)
<1>1. s \in [1..Len(s) -> Range(s)]
  BY DEF Range
<1>2. s \in Bijection(1..Len(s), Range(s))
  BY <1>1, Fun_IsBij DEF Distinct, Range
<1>3. IsFiniteSet(1..Len(s)) /\ Cardinality(1..Len(s)) = Len(s)
  <2>1. Len(s) \in Nat
    OBVIOUS
  <2> QED BY <2>1, FS_Interval
<1> QED BY <1>2, <1>3, FS_Bijection DEF ExistsBijection

(* Two lists without duplicates, one part of the other: the counts tell    *)
(* whether anything is missing.                                            *)
LEMMA CountsDecide ==
    ASSUME NEW S, NEW s \in Seq(S), NEW t \in Seq(S), Distinct(s), Distinct(t),
           Range(s) \subseteq Range(t)
    PROVE  Len(t) <= Len(s) <=> Range(s) = Range(t)
<1>1. /\ IsFiniteSet(Range(s)) /\ Cardinality(Range(s)) = Len(s)
      /\ IsFiniteSet(Range(t)) /\ Cardinality(Range(t)) = Len(t)
  BY CountDistinct
<1>2. /\ Cardinality(Range(s)) <= Cardinality(Range(t))
      /\ Cardinality(Range(t)) = Cardinality(Range(s)) => Range(t) = Range(s)
  BY <1>1, FS_Subset
<1> QED BY <1>1, <1>2

-----------------------------------------------------------------------------
(* The run starts with nothing collected and in out/ what earlier runs     *)
(* have left.                                                              *)
LEMMA Initially == Init => IInv
<1> SUFFICES ASSUME Init PROVE IInv
  OBVIOUS
<1>1. specs \in Seq(Specs) /\ fragment \in Seq(Lines) /\ out \subseteq Lines
  BY SpecListsAssumption, LeftoversAssumption DEF Init, OutDirs
<1>2. TypeOK
  <2>1. /\ all \in Seq(Names) /\ tools \in Seq(Names) /\ done \in Seq(Names)
        /\ lock \in Seq(Lines)
    BY DEF Init
  <2>2. progress \in BOOLEAN
    BY DEF Init
  <2> QED BY <1>1, <2>1, <2>2 DEF Init, TypeOK, PCs, Ended
<1>3. ListsAreSets /\ VersionsKnown /\ DependenciesFirst
  BY RangeEmpty DEF Init, ListsAreSets, Distinct, VersionsKnown, DependenciesFirst
<1>4. PassSoFar /\ StuckForGood /\ CountedOut /\ LinesBacked /\ FragmentBacked
  BY DEF Init, PassSoFar, StuckForGood, CountedOut, LinesBacked, FragmentBacked
<1> QED BY <1>2, <1>3, <1>4 DEF IInv

(* Recording a recipe makes its version known and keeps what was known;    *)
(* nothing is done yet, so the changed dependencies disturb nothing.       *)
LEMMA CollectStep == IInv /\ (SkipSpec \/ CollectTool \/ CollectLibrary \/ Collected) => IInv'
<1> SUFFICES ASSUME IInv, SkipSpec \/ CollectTool \/ CollectLibrary \/ Collected
             PROVE  IInv'
  OBVIOUS
<1> USE DEF IInv, collected, outDir
<1>0. pc = "collect" /\ pc' \in {"collect", "tools"} /\ done = <<>> /\ done' = <<>>
  BY DEF SkipSpec, CollectTool, CollectLibrary, Collected, ListsAreSets
<1>1. /\ DependenciesFirst' /\ PassSoFar' /\ StuckForGood' /\ CountedOut'
      /\ LinesBacked' /\ Distinct(done)' /\ Range(done') = {}
  BY <1>0, RangeEmpty DEF DependenciesFirst, PassSoFar, StuckForGood, CountedOut,
                          LinesBacked, Distinct
<1>2. FragmentBacked'
  BY <1>0 DEF FragmentBacked
<1>3. CASE SkipSpec
  <2>1. TypeOK' /\ ListsAreSets' /\ VersionsKnown'
    BY <1>3 DEF SkipSpec, TypeOK, PCs, Ended, ListsAreSets, VersionsKnown
  <2> QED BY <1>1, <1>2, <2>1
<1>4. CASE Collected
  <2>1. TypeOK' /\ ListsAreSets' /\ VersionsKnown'
    BY <1>4 DEF Collected, TypeOK, PCs, Ended, ListsAreSets, VersionsKnown
  <2> QED BY <1>1, <1>2, <2>1
<1>5. CASE CollectTool \/ CollectLibrary
  <2> DEFINE s == specs[pos]
  <2>1. s \in Specs /\ s.name \in Names /\ s.version \in Versions /\ s.deps \in SUBSET Names
    <3>1. specs \in Seq(Specs) /\ pos \in 1..Len(specs)
      BY <1>5 DEF CollectTool, CollectLibrary, TypeOK
    <3>2. specs[pos] \in Specs
      BY <3>1
    <3> QED BY <3>2 DEF Specs
  <2>2. /\ ver' \in [Names -> Versions \cup {None}]
        /\ deps' \in [Names -> SUBSET Names]
        /\ ver'[s.name] \in Versions
        /\ \A n \in Names : ver[n] \in Versions => ver'[n] \in Versions
    BY <1>5, <2>1 DEF CollectTool, CollectLibrary, Record, TypeOK
  <2>3. CASE CollectTool
    <3>1. /\ tools' \in Seq(Names)
          /\ Range(tools') = Range(tools) \cup {s.name}
      BY <2>1, <2>3, RangeAppend DEF CollectTool, TypeOK
    <3>2. TypeOK'
      BY <2>2, <2>3, <3>1 DEF CollectTool, TypeOK, PCs, Ended
    <3>3. ListsAreSets'
      BY <1>0, <1>1, <2>3 DEF CollectTool, ListsAreSets, Distinct
    <3>4. VersionsKnown'
      BY <2>2, <2>3, <3>1, RangeOfSequence DEF CollectTool, VersionsKnown, TypeOK
    <3> QED BY <1>1, <1>2, <3>2, <3>3, <3>4
  <2>4. CASE CollectLibrary
    <3>1. /\ all' \in Seq(Names)
          /\ Range(all') = Range(all) \cup {s.name}
          /\ Distinct(all')
      <4>1. CASE s.name \in Range(all)
        BY <2>4, <4>1 DEF CollectLibrary, AddLibrary, TypeOK, ListsAreSets
      <4>2. CASE s.name \notin Range(all)
        BY <2>1, <2>4, <4>2, RangeAppend, DistinctAppend
           DEF CollectLibrary, AddLibrary, TypeOK, ListsAreSets
      <4> QED BY <4>1, <4>2
    <3>2. TypeOK'
      BY <2>2, <2>4, <3>1 DEF CollectLibrary, TypeOK, PCs, Ended
    <3>3. ListsAreSets'
      BY <1>0, <1>1, <2>4, <3>1 DEF CollectLibrary, ListsAreSets, Distinct
    <3>4. VersionsKnown'
      BY <2>2, <2>4, <3>1, RangeOfSequence DEF CollectLibrary, VersionsKnown, TypeOK
    <3> QED BY <1>1, <1>2, <3>2, <3>3, <3>4
  <2> QED BY <1>5, <2>3, <2>4
<1> QED BY <1>3, <1>4, <1>5

(* Tools change nothing but the stage. *)
LEMMA ToolStep == IInv /\ (BuildTool \/ ToolFails \/ ToolsBuilt) => IInv'
<1> SUFFICES ASSUME IInv, BuildTool \/ ToolFails \/ ToolsBuilt PROVE IInv'
  OBVIOUS
<1> USE DEF IInv, collected, outDir
<1>1. /\ pc = "tools" /\ pc' \in {"tools", "toolFailed", "while"}
      /\ UNCHANGED <<specs, ver, deps, all, tools, done, progress, out, lock, fragment>>
  BY DEF BuildTool, ToolFails, ToolsBuilt
<1>2. stage' \in [Names -> Versions \cup {None}] /\ pos' \in Nat \ {0}
  <2>1. CASE BuildTool
    <3>1. tools[pos] \in Range(tools) /\ tools[pos] \in Names
      BY <2>1, RangeOfSequence DEF BuildTool, TypeOK
    <3>2. ver[tools[pos]] \in Versions
      BY <3>1 DEF VersionsKnown
    <3> QED BY <2>1, <3>2 DEF BuildTool, TypeOK
  <2>2. CASE ToolFails \/ ToolsBuilt
    BY <2>2 DEF ToolFails, ToolsBuilt, TypeOK
  <2> QED BY <2>1, <2>2
<1>3. TypeOK'
  BY <1>1, <1>2 DEF TypeOK, PCs, Ended
<1>4. ListsAreSets' /\ VersionsKnown' /\ DependenciesFirst' /\ FragmentBacked'
  BY <1>1 DEF ListsAreSets, VersionsKnown, DependenciesFirst, FragmentBacked, Distinct
<1>5. PassSoFar' /\ StuckForGood' /\ CountedOut' /\ LinesBacked'
  BY <1>1 DEF PassSoFar, StuckForGood, CountedOut, LinesBacked
<1> QED BY <1>3, <1>4, <1>5

(* A pass: a built library joins DONE after everything it depends on, and  *)
(* a pass that built nothing has found every library done or not ready.    *)
LEMMA PassStep ==
    IInv /\ (BeginPass \/ PassOver \/ BuildLibrary \/ LibraryFails \/ NoProgress \/ EndPass)
    => IInv'
<1> SUFFICES ASSUME IInv,
                    \/ BeginPass \/ PassOver \/ BuildLibrary
                    \/ LibraryFails \/ NoProgress \/ EndPass
             PROVE  IInv'
  OBVIOUS
<1> USE DEF IInv, collected, outDir
<1>0. /\ UNCHANGED <<specs, ver, deps, all, tools, out, lock, fragment>>
      /\ VersionsKnown' /\ FragmentBacked'
  BY DEF BeginPass, PassOver, BuildLibrary, LibraryFails, NoProgress, EndPass,
         VersionsKnown, FragmentBacked, Packaged
<1>1. CASE BeginPass
  <2>1. TypeOK' /\ ListsAreSets' /\ DependenciesFirst'
    <3>1. TypeOK'
      <4>1. progress' \in BOOLEAN
        BY <1>1 DEF BeginPass
      <4> QED BY <1>0, <1>1, <4>1 DEF BeginPass, TypeOK, PCs, Ended
    <3>2. ListsAreSets' /\ DependenciesFirst'
      BY <1>0, <1>1 DEF BeginPass, ListsAreSets, DependenciesFirst, Distinct
    <3> QED BY <3>1, <3>2
  <2>2. PassSoFar'
    <3>1. Len(done) < Len(all)
      BY <1>1 DEF BeginPass, Remaining, TypeOK
    <3> QED BY <1>1, <3>1 DEF BeginPass, PassSoFar
  <2>3. StuckForGood' /\ CountedOut' /\ LinesBacked'
    BY <1>1 DEF BeginPass, StuckForGood, CountedOut, LinesBacked
  <2> QED BY <1>0, <2>1, <2>2, <2>3
<1>2. CASE PassOver
  <2>1. TypeOK' /\ ListsAreSets' /\ DependenciesFirst'
    <3>1. TypeOK'
      BY <1>0, <1>2 DEF PassOver, TypeOK, PCs, Ended
    <3>2. ListsAreSets' /\ DependenciesFirst'
      BY <1>0, <1>2 DEF PassOver, ListsAreSets, DependenciesFirst, Distinct
    <3> QED BY <3>1, <3>2
  <2>2. PassSoFar'
    <3> SUFFICES ASSUME ~progress
                 PROVE  /\ Len(done) < Len(all)
                        /\ \A j \in DOMAIN all :
                               j < pos + 1 => all[j] \in Range(done) \/ ~Ready(all[j])
      BY <1>2 DEF PassOver, PassSoFar, Ready
    <3> QED BY <1>2 DEF PassOver, PassSoFar, TypeOK
  <2>3. StuckForGood' /\ CountedOut' /\ LinesBacked'
    BY <1>2 DEF PassOver, StuckForGood, CountedOut, LinesBacked
  <2> QED BY <1>0, <2>1, <2>2, <2>3
<1>3. CASE BuildLibrary
  <2> DEFINE n == all[pos]
  <2>1. n \in Names /\ n \in Range(all) /\ n \notin Range(done) /\ ver[n] \in Versions
    BY <1>3, RangeOfSequence DEF BuildLibrary, TypeOK, VersionsKnown
  <2>2. /\ done' = Append(done, n) /\ done' \in Seq(Names)
        /\ Range(done') = Range(done) \cup {n}
        /\ Distinct(done')
    BY <1>3, <2>1, RangeAppend, DistinctAppend DEF BuildLibrary, TypeOK, ListsAreSets
  <2>3. TypeOK'
    BY <1>3, <2>1, <2>2 DEF BuildLibrary, TypeOK, PCs, Ended
  <2>4. ListsAreSets'
    BY <1>3, <2>1, <2>2 DEF BuildLibrary, ListsAreSets, Distinct
  <2>5. DependenciesFirst'
    <3> SUFFICES ASSUME NEW i \in DOMAIN done', NEW d \in deps[done'[i]]
                 PROVE  \E j \in 1..(i - 1) : done'[j] = d
      BY <1>0 DEF DependenciesFirst
    <3>1. done \in Seq(Names) /\ DOMAIN done' = 1..(Len(done) + 1)
      BY <2>1, <2>2 DEF TypeOK
    <3>2. \A k \in 1..Len(done) : done'[k] = done[k]
      BY <2>1, <2>2, <3>1
    <3>3. CASE i \in 1..Len(done)
      <4>1. PICK j \in 1..(i - 1) : done[j] = d
        BY <3>2, <3>3, <3>1 DEF DependenciesFirst
      <4> QED BY <3>1, <3>2, <3>3, <4>1
    <3>4. CASE i = Len(done) + 1
      <4>1. done'[i] = n
        BY <2>1, <2>2, <3>1, <3>4
      <4>2. d \in Range(done)
        BY <1>3, <4>1 DEF BuildLibrary, Ready
      <4>3. PICK j \in 1..Len(done) : done[j] = d
        BY <4>2, <3>1 DEF Range
      <4> QED BY <3>1, <3>2, <3>4, <4>3
    <3> QED BY <3>1, <3>3, <3>4
  <2>6. PassSoFar' /\ StuckForGood' /\ CountedOut' /\ LinesBacked'
    BY <1>3 DEF BuildLibrary, PassSoFar, StuckForGood, CountedOut, LinesBacked
  <2> QED BY <1>0, <2>3, <2>4, <2>5, <2>6
<1>4. CASE LibraryFails \/ EndPass
  <2>1. TypeOK' /\ ListsAreSets' /\ DependenciesFirst'
    <3>1. TypeOK'
      BY <1>0, <1>4 DEF LibraryFails, EndPass, TypeOK, PCs, Ended
    <3>2. ListsAreSets' /\ DependenciesFirst'
      BY <1>0, <1>4 DEF LibraryFails, EndPass, ListsAreSets, DependenciesFirst, Distinct
    <3> QED BY <3>1, <3>2
  <2>2. PassSoFar' /\ StuckForGood' /\ CountedOut' /\ LinesBacked'
    BY <1>4 DEF LibraryFails, EndPass, PassSoFar, StuckForGood, CountedOut, LinesBacked
  <2> QED BY <1>0, <2>1, <2>2
<1>5. CASE NoProgress
  <2>1. TypeOK' /\ ListsAreSets' /\ DependenciesFirst'
    <3>1. TypeOK'
      BY <1>0, <1>5 DEF NoProgress, TypeOK, PCs, Ended
    <3>2. ListsAreSets' /\ DependenciesFirst'
      BY <1>0, <1>5 DEF NoProgress, ListsAreSets, DependenciesFirst, Distinct
    <3> QED BY <3>1, <3>2
  <2>2. StuckForGood'
    <3>1. Len(done) < Len(all)
      BY <1>5 DEF NoProgress, PassSoFar
    <3>2. ASSUME NEW m \in Range(all) PROVE m \in Range(done) \/ ~Ready(m)
      <4>1. PICK j \in DOMAIN all : all[j] = m
        BY DEF Range
      <4>2. j < pos
        BY <1>5, <4>1 DEF NoProgress, TypeOK
      <4> QED BY <1>5, <4>1, <4>2 DEF NoProgress, PassSoFar
    <3> QED BY <1>5, <3>1, <3>2 DEF NoProgress, StuckForGood, Ready
  <2>3. PassSoFar' /\ CountedOut' /\ LinesBacked'
    BY <1>5 DEF NoProgress, PassSoFar, CountedOut, LinesBacked
  <2> QED BY <1>0, <2>1, <2>2, <2>3
<1> QED BY <1>1, <1>2, <1>3, <1>4, <1>5

(* What follows the passes: the removal of out/ and the packaging.         *)
Clears   == ClearSome \/ ClearKilled \/ ClearOut
Packs    == PackageOne \/ PackageFails \/ WriteFragment \/ WriteKilled

(* Packaging writes lines and archives together; the fragment is empty     *)
(* until the last line is there.                                           *)
LEMMA PackageStep == IInv /\ (Clears \/ Packs) => IInv'
<1> SUFFICES ASSUME IInv, Clears \/ Packs
             PROVE  IInv'
  OBVIOUS
<1> USE DEF IInv, collected, outDir, Clears, Packs
<1>0. /\ UNCHANGED <<specs, ver, deps, all, tools, done, stage, progress>>
      /\ pc' \in {"clear", "clearKilled", "package", "packageFailed", "finished"}
  BY DEF ClearSome, ClearKilled, ClearOut, PackageOne, PackageFails, WriteFragment, WriteKilled
<1>1. ListsAreSets' /\ VersionsKnown' /\ DependenciesFirst'
  BY <1>0 DEF ListsAreSets, VersionsKnown, DependenciesFirst, Distinct
<1>2. PassSoFar' /\ StuckForGood'
  BY <1>0 DEF PassSoFar, StuckForGood
<1>3. CountedOut'
  <2>1. Len(all) <= Len(done)
    <3>1. Len(all) \in Nat /\ Len(done) \in Nat
      BY DEF TypeOK
    <3>2. CASE ClearSome
      BY <3>1, <3>2 DEF ClearSome, Remaining
    <3>3. CASE ClearKilled \/ ClearOut \/ Packs
      BY <3>3 DEF ClearKilled, ClearOut, PackageOne, PackageFails, WriteFragment, WriteKilled,
         CountedOut
    <3> QED BY <3>2, <3>3
  <2> QED BY <1>0, <2>1 DEF CountedOut
<1>4. CASE Clears
  <2>1. TypeOK'
    <3>1. out' \subseteq Lines /\ fragment' \in Seq(Lines) /\ lock' \in Seq(Lines)
      <4>1. <<>> \in Seq(Lines)
        OBVIOUS
      <4>2. /\ out' \in SUBSET out
            /\ fragment' = fragment \/ fragment' = <<>>
            /\ lock' = lock \/ lock' = <<>>
        BY <1>4 DEF ClearSome, ClearKilled, ClearOut
      <4> QED BY <4>1, <4>2 DEF TypeOK
    <3>2. pos' \in Nat \ {0} /\ pc' \in PCs
      BY <1>0, <1>4 DEF ClearSome, ClearKilled, ClearOut, TypeOK, PCs, Ended
    <3> QED BY <1>0, <3>1, <3>2 DEF TypeOK
  <2>2. LinesBacked' /\ FragmentBacked'
    BY <1>4, RangeEmpty DEF ClearSome, ClearKilled, ClearOut, LinesBacked, FragmentBacked
  <2> QED BY <1>1, <1>2, <1>3, <2>1, <2>2
<1>5. CASE PackageOne
  <2> DEFINE n    == Packages[pos]
             line == [name |-> n, version |-> ver[n], run |-> "now"]
  <2>1. n \in Range(all) \cup Range(tools)
    <3>1. Packages \in Seq(Names) /\ pos \in 1..Len(Packages)
      BY <1>5 DEF PackageOne, Packages, TypeOK
    <3>2. CASE pos <= Len(all)
      BY <3>1, <3>2, RangeOfSequence DEF Packages, TypeOK
    <3>3. CASE pos > Len(all)
      <4>1. pos - Len(all) \in 1..Len(tools) /\ n = tools[pos - Len(all)]
        BY <3>1, <3>3 DEF Packages, TypeOK
      <4> QED BY <4>1, RangeOfSequence DEF TypeOK
    <3> QED BY <3>2, <3>3 DEF TypeOK
  <2>2. line \in Lines
    <3>1. n \in Names
      BY <2>1, RangeOfSequence DEF TypeOK
    <3>2. ver[n] \in Versions
      BY <2>1 DEF VersionsKnown
    <3> QED BY <3>1, <3>2 DEF Lines
  <2>3. /\ out' = out \cup {line} /\ line.run = "now"
        /\ lock' = Append(lock, line) /\ lock' \in Seq(Lines)
        /\ Range(lock') = Range(lock) \cup {line}
        /\ fragment' = fragment /\ pos' = pos + 1 /\ pc = "package" /\ pc' = "package"
    BY <1>5, <2>2, RangeAppend DEF PackageOne, TypeOK
  <2>4. TypeOK'
    BY <1>0, <2>2, <2>3 DEF TypeOK
  <2>5. LinesBacked' /\ FragmentBacked'
    BY <2>3 DEF LinesBacked, FragmentBacked, Packaged
  <2> QED BY <1>1, <1>2, <1>3, <2>4, <2>5
<1>6. CASE PackageFails \/ WriteFragment
  <2>1. TypeOK'
    BY <1>0, <1>6 DEF PackageFails, WriteFragment, TypeOK, PCs, Ended
  <2>2. LinesBacked' /\ FragmentBacked'
    BY <1>6 DEF PackageFails, WriteFragment, LinesBacked, FragmentBacked, Packaged
  <2> QED BY <1>1, <1>2, <1>3, <2>1, <2>2
<1>7. CASE WriteKilled
  <2>1. PICK n \in 0..Len(lock) : fragment' = SubSeq(lock, 1, n)
    BY <1>7 DEF WriteKilled
  <2>2. fragment' \in Seq(Lines) /\ Range(fragment') \subseteq Range(lock)
    BY <2>1, FirstLines DEF TypeOK
  <2>3. TypeOK'
    BY <1>0, <1>7, <2>2 DEF WriteKilled, TypeOK, PCs, Ended
  <2>4. LinesBacked' /\ FragmentBacked'
    BY <1>7, <2>2 DEF WriteKilled, LinesBacked, FragmentBacked, Packaged
  <2> QED BY <1>1, <1>2, <1>3, <2>3, <2>4
<1> QED BY <1>4, <1>5, <1>6, <1>7

(* A step that changes no variable. *)
LEMMA StutterStep == IInv /\ UNCHANGED vars => IInv'
<1> SUFFICES ASSUME IInv, UNCHANGED vars PROVE IInv'
  OBVIOUS
<1> USE DEF IInv, vars
<1>1. TypeOK' /\ VersionsKnown' /\ DependenciesFirst' /\ FragmentBacked'
  BY DEF TypeOK, VersionsKnown, DependenciesFirst, FragmentBacked, Packaged
<1>2. ListsAreSets' /\ PassSoFar' /\ StuckForGood' /\ CountedOut' /\ LinesBacked'
  BY DEF ListsAreSets, Distinct, PassSoFar, Ready, StuckForGood, CountedOut, LinesBacked,
         Packaged
<1> QED BY <1>1, <1>2

(* The strengthened invariant holds in every reachable state. *)
THEOREM Invariance == Spec => []IInv
<1>1. IInv /\ [Next]_vars => IInv'
  BY CollectStep, ToolStep, PassStep, PackageStep, StutterStep
  DEF Next, Clears, Packs
<1> QED BY Initially, <1>1, PTL DEF Spec

(* The script's variables keep their shape: in particular every line that  *)
(* is written names a version that was collected.                          *)
THEOREM TypeCorrect == Spec => []TypeOK
<1>1. IInv => TypeOK  BY DEF IInv
<1> QED BY <1>1, Invariance, PTL

(* The lengths of ALL and DONE tell whether anything is left to build. *)
LEMMA ListCounts ==
    IInv => (Len(all) <= Len(done) <=> Range(all) = Range(done))
<1> SUFFICES ASSUME IInv
             PROVE  Len(all) <= Len(done) <=> Range(all) = Range(done)
  OBVIOUS
<1>1. /\ all \in Seq(Names) /\ done \in Seq(Names)
      /\ Distinct(all) /\ Distinct(done)
      /\ Range(done) \subseteq Range(all)
  BY DEF IInv, TypeOK, ListsAreSets
<1> QED BY <1>1, CountsDecide

(* On every dependency graph, no library is built before its DEP_DEPENDS.  *)
THEOREM OrderCorrect == Spec => []DependenciesFirst
<1>1. IInv => DependenciesFirst  BY DEF IInv
<1> QED BY <1>1, Invariance, PTL

(* The fatal "dependency cycle / missing dep" is raised only for a         *)
(* non-empty set of libraries that wait for each other or for no library.  *)
THEOREM FatalCorrect == Spec => []FatalMeansStuck
<1>1. IInv => FatalMeansStuck
  <2> SUFFICES ASSUME IInv, pc = "stuck"
               PROVE  LET rest == Range(all) \ Range(done)
                      IN  /\ rest # {}
                          /\ \A n \in rest : \E d \in deps[n] : d \in rest \/ d \notin Range(all)
    BY DEF FatalMeansStuck
  <2>1. Range(all) # Range(done)
    <3>1. Len(done) < Len(all) /\ Len(done) \in Nat /\ Len(all) \in Nat
      BY DEF IInv, StuckForGood, TypeOK
    <3> QED BY <3>1, ListCounts
  <2>2. Range(all) \ Range(done) # {}
    BY <2>1 DEF IInv, ListsAreSets
  <2>3. ASSUME NEW n \in Range(all) \ Range(done)
        PROVE  \E d \in deps[n] : d \in Range(all) \ Range(done) \/ d \notin Range(all)
    BY DEF IInv, StuckForGood, Ready
  <2> QED BY <2>2, <2>3
<1> QED BY <1>1, Invariance, PTL

(* out/ is cleared and filled only when every library is built, each once. *)
THEOREM CountCorrect == Spec => []NothingLeftBehind
<1>1. IInv => NothingLeftBehind
  <2> SUFFICES ASSUME IInv, 
                    pc \in {"clear", "clearKilled", "package", "packageFailed", "finished"}
               PROVE  Range(done) = Range(all) /\ Len(done) = Cardinality(Range(done))
    BY DEF NothingLeftBehind
  <2>1. Range(done) = Range(all)
    BY ListCounts DEF IInv, CountedOut
  <2>2. Len(done) = Cardinality(Range(done))
    BY CountDistinct DEF IInv, TypeOK, ListsAreSets
  <2> QED BY <2>1, <2>2
<1> QED BY <1>1, Invariance, PTL

(* Whatever out/ held, from the end of its removal on the lock fragment    *)
(* names only archives this run has put there, also when the packaging or  *)
(* the write of the fragment is cut short.                                 *)
THEOREM FragmentCorrect == Spec => []FragmentBacked
<1>1. IInv => FragmentBacked  BY DEF IInv
<1> QED BY <1>1, Invariance, PTL

-----------------------------------------------------------------------------
(* From the stage to the fragment. *)

AtOrAfterPasses == pc \notin {"collect", "tools", "toolFailed"}

(* A prefix is staged only under a collected name, in the version that was *)
(* collected last for it, which no longer changes then.                    *)
StageKnown ==
    /\ pc = "collect" => \A n \in Names : stage[n] = None
    /\ \A n \in Names :
           stage[n] # None => /\ n \in Range(all) \cup Range(tools)
                              /\ stage[n] = ver[n]

(* Every tool the loop has passed and every library of DONE is staged. *)
BuiltIsStaged ==
    /\ pc = "tools" => \A j \in DOMAIN tools : j < pos => stage[tools[j]] # None
    /\ AtOrAfterPasses => \A j \in DOMAIN tools : stage[tools[j]] # None
    /\ \A n \in Range(done) : stage[n] # None

(* s lists the first k packages, each in the version collected for it. *)
Lists(s, k) ==
    /\ Len(s) = k
    /\ k <= Len(Packages)
    /\ \A i \in 1..k : /\ s[i].name = Packages[i]
                       /\ s[i].version = ver[Packages[i]]

LinesInOrder ==
    /\ pc = "package" => Lists(lock, pos - 1)
    /\ pc = "finished" => Lists(fragment, Len(Packages))

StagingInv == StageKnown /\ BuiltIsStaged /\ LinesInOrder

(* What ALL and TOOLS list has a version, so installing it stages it. *)
LEMMA VersionIsSome ==
    ASSUME IInv, NEW n \in Range(all) \cup Range(tools)
    PROVE  n \in Names /\ ver[n] \in Versions /\ ver[n] # None
BY RangeOfSequence, NoneIsNoVersion DEF IInv, TypeOK, VersionsKnown

(* Nothing is staged while recipes are collected. *)
LEMMA StagingCollect ==
    ASSUME IInv, StagingInv, SkipSpec \/ CollectTool \/ CollectLibrary \/ Collected
    PROVE  StagingInv'
<1> USE DEF collected, outDir
<1>1. /\ pc = "collect" /\ pc' \in {"collect", "tools"} /\ stage' = stage
      /\ done = <<>> /\ done' = <<>> /\ (pc' = "tools" => pos' = 1)
  BY DEF SkipSpec, CollectTool, CollectLibrary, Collected, IInv, ListsAreSets
<1>2. \A n \in Names : stage'[n] = None
  BY <1>1 DEF StagingInv, StageKnown
<1>3. StageKnown' /\ LinesInOrder'
  BY <1>1, <1>2 DEF StageKnown, LinesInOrder
<1>4. BuiltIsStaged'
  <2>1. Range(done') = {}
    BY <1>1, RangeEmpty
  <2>2. tools' = tools \/ pc' = "collect"
    BY DEF SkipSpec, CollectTool, CollectLibrary, Collected
  <2>3. DOMAIN tools = 1..Len(tools)
    BY DEF IInv, TypeOK
  <2> QED BY <1>1, <2>1, <2>2, <2>3 DEF BuiltIsStaged, AtOrAfterPasses
<1> QED BY <1>3, <1>4 DEF StagingInv

(* The loop over TOOLS stages them one by one. *)
LEMMA StagingTools ==
    ASSUME IInv, StagingInv, BuildTool \/ ToolFails \/ ToolsBuilt
    PROVE  StagingInv'
<1> USE DEF collected, outDir, StagingInv
<1>1. /\ pc = "tools" /\ pc' \in {"tools", "toolFailed", "while"}
      /\ UNCHANGED <<ver, all, tools, done>>
      /\ tools \in Seq(Names) /\ stage \in [Names -> Versions \cup {None}]
      /\ pos \in Nat \ {0}
  BY DEF BuildTool, ToolFails, ToolsBuilt, IInv, TypeOK
<1>2. LinesInOrder'
  BY <1>1 DEF LinesInOrder
<1>3. CASE BuildTool
  <2> DEFINE t == tools[pos]
  <2>1. t \in Range(tools) /\ t \in Names /\ ver[t] # None
    BY <1>1, <1>3, RangeOfSequence, VersionIsSome DEF BuildTool
  <2>2. \A n \in Names : stage'[n] = IF n = t THEN ver[t] ELSE stage[n]
    BY <1>1, <1>3 DEF BuildTool
  <2>3. \A n \in Names : stage[n] # None => stage'[n] # None
    BY <2>1, <2>2
  <2>4. StageKnown'
    BY <1>1, <1>3, <2>1, <2>2 DEF BuildTool, StageKnown
  <2>5. \A j \in DOMAIN tools : j < pos + 1 => stage'[tools[j]] # None
    <3> SUFFICES ASSUME NEW j \in DOMAIN tools, j < pos + 1
                 PROVE  stage'[tools[j]] # None
      OBVIOUS
    <3>1. CASE j = pos
      BY <2>1, <2>2, <3>1
    <3>2. CASE j < pos
      <4>1. stage[tools[j]] # None /\ tools[j] \in Names
        BY <1>1, <3>2 DEF BuiltIsStaged
      <4> QED BY <2>3, <4>1
    <3> QED BY <1>1, <3>1, <3>2
  <2>6. \A n \in Range(done) : stage'[n] # None
    <3>1. Range(done) \subseteq Names
      BY RangeOfSequence DEF IInv, TypeOK
    <3> QED BY <2>3, <3>1 DEF BuiltIsStaged
  <2>7. BuiltIsStaged'
    BY <1>1, <1>3, <2>5, <2>6 DEF BuildTool, BuiltIsStaged, AtOrAfterPasses
  <2> QED BY <1>2, <2>4, <2>7
<1>4. CASE ToolFails \/ ToolsBuilt
  <2>1. stage' = stage /\ (pc' = "while" => pos > Len(tools))
    BY <1>4 DEF ToolFails, ToolsBuilt
  <2>2. StageKnown'
    BY <1>1, <2>1 DEF StageKnown
  <2>3. pc' = "while" => \A j \in DOMAIN tools : stage[tools[j]] # None
    BY <1>1, <2>1 DEF BuiltIsStaged
  <2>4. BuiltIsStaged'
    BY <1>1, <1>4, <2>1, <2>3 DEF ToolFails, ToolsBuilt, BuiltIsStaged, AtOrAfterPasses
  <2> QED BY <1>2, <2>2, <2>4
<1> QED BY <1>3, <1>4

(* A pass stages what it adds to DONE. *)
LEMMA StagingPass ==
    ASSUME IInv, StagingInv,
           \/ BeginPass \/ PassOver \/ BuildLibrary
           \/ LibraryFails \/ NoProgress \/ EndPass
    PROVE  StagingInv'
<1> USE DEF collected, outDir, StagingInv
<1>1. /\ pc \in {"while", "pass"} /\ pc' \in {"pass", "while", "buildFailed", "stuck"}
      /\ UNCHANGED <<ver, all, tools>>
  BY DEF BeginPass, PassOver, BuildLibrary, LibraryFails, NoProgress, EndPass
<1>2. LinesInOrder'
  BY <1>1 DEF LinesInOrder
<1>3. CASE BuildLibrary
  <2> DEFINE l == all[pos]
  <2>1. /\ l \in Range(all) /\ l \in Names /\ ver[l] # None
        /\ Range(done') = Range(done) \cup {l}
    <3>1. l \in Range(all) /\ l \in Names
      BY <1>3, RangeOfSequence DEF BuildLibrary, IInv, TypeOK
    <3> QED BY <1>3, <3>1, VersionIsSome, RangeAppend DEF BuildLibrary, IInv, TypeOK
  <2>2. \A n \in Names : stage'[n] = IF n = l THEN ver[l] ELSE stage[n]
    BY <1>3 DEF BuildLibrary, IInv, TypeOK
  <2>3. \A n \in Names : stage[n] # None => stage'[n] # None
    BY <2>1, <2>2
  <2>4. StageKnown'
    BY <1>1, <2>1, <2>2 DEF StageKnown
  <2>5. \A j \in DOMAIN tools : stage'[tools[j]] # None
    <3>1. \A j \in DOMAIN tools : tools[j] \in Names
      BY DEF IInv, TypeOK
    <3> QED BY <1>1, <2>3, <3>1 DEF BuiltIsStaged, AtOrAfterPasses
  <2>6. \A n \in Range(done') : stage'[n] # None
    <3>1. Range(done) \subseteq Names
      BY RangeOfSequence DEF IInv, TypeOK
    <3> QED BY <2>1, <2>2, <2>3, <3>1 DEF BuiltIsStaged
  <2>7. BuiltIsStaged'
    BY <1>1, <2>5, <2>6 DEF BuiltIsStaged
  <2> QED BY <1>2, <2>4, <2>7
<1>4. CASE BeginPass \/ PassOver \/ LibraryFails \/ NoProgress \/ EndPass
  <2>1. stage' = stage /\ done' = done
    BY <1>4 DEF BeginPass, PassOver, LibraryFails, NoProgress, EndPass
  <2>2. StageKnown'
    BY <1>1, <2>1 DEF StageKnown
  <2>3. BuiltIsStaged'
    BY <1>1, <2>1 DEF BuiltIsStaged, AtOrAfterPasses
  <2> QED BY <1>2, <2>2, <2>3
<1> QED BY <1>3, <1>4

(* Packaging adds one line for each package, in order. *)
LEMMA StagingPackage ==
    ASSUME IInv, StagingInv, Clears \/ Packs
    PROVE  StagingInv'
<1> USE DEF collected, outDir, StagingInv, Clears, Packs
<1>1. /\ pc \in {"while", "clear", "package"}
      /\ pc' \in {"clear", "clearKilled", "package", "packageFailed", "finished"}
      /\ UNCHANGED <<ver, all, tools, done, stage>>
  BY DEF ClearSome, ClearKilled, ClearOut, PackageOne, PackageFails, WriteFragment, WriteKilled
<1>2. StageKnown'
  BY <1>1 DEF StageKnown
<1>3. BuiltIsStaged'
  BY <1>1 DEF BuiltIsStaged, AtOrAfterPasses
<1>4. /\ Packages' = Packages /\ Packages \in Seq(Names) /\ Len(Packages) \in Nat
      /\ lock \in Seq(Lines) /\ pos \in Nat \ {0}
  BY <1>1 DEF Packages, IInv, TypeOK
<1>5. LinesInOrder'
  <2>1. CASE ClearOut
    <3>1. pc' = "package" /\ lock' = <<>> /\ pos' = 1
      BY <2>1 DEF ClearOut
    <3> QED BY <1>4, <3>1 DEF LinesInOrder, Lists
  <2>2. CASE PackageOne
    <3> DEFINE line == [name |-> Packages[pos], version |-> ver[Packages[pos]], run |-> "now"]
    <3>1. /\ pc = "package" /\ pc' = "package" /\ pos' = pos + 1
          /\ pos <= Len(Packages) /\ lock' = Append(lock, line)
      BY <2>2 DEF PackageOne
    <3>2. Len(lock) = pos - 1 /\ Len(lock') = pos
      BY <1>4, <3>1 DEF LinesInOrder, Lists
    <3>3. \A i \in 1..pos : lock'[i] = IF i = pos THEN line ELSE lock[i]
      BY <1>4, <3>1, <3>2
    <3>4. line.name = Packages[pos] /\ line.version = ver[Packages[pos]]
      OBVIOUS
    <3>5. \A i \in 1..pos : /\ lock'[i].name = Packages[i]
                           /\ lock'[i].version = ver[Packages[i]]
      <4> SUFFICES ASSUME NEW i \in 1..pos
                   PROVE  lock'[i].name = Packages[i] /\ lock'[i].version = ver[Packages[i]]
        OBVIOUS
      <4>1. CASE i = pos
        BY <3>3, <3>4, <4>1
      <4>2. CASE i # pos
        <5>1. i \in 1..(pos - 1) /\ lock'[i] = lock[i]
          BY <1>4, <3>3, <4>2
        <5> QED BY <3>1, <5>1 DEF LinesInOrder, Lists
      <4> QED BY <4>1, <4>2
    <3>6. pos' - 1 = pos
      BY <1>4, <3>1
    <3> QED BY <1>1, <1>4, <3>1, <3>2, <3>5, <3>6 DEF LinesInOrder, Lists
  <2>3. CASE ClearSome \/ ClearKilled \/ PackageFails \/ WriteKilled
    <3>1. pc' \in {"clear", "clearKilled", "packageFailed"}
      BY <2>3 DEF ClearSome, ClearKilled, PackageFails, WriteKilled
    <3> QED BY <3>1 DEF LinesInOrder
  <2>4. CASE WriteFragment
    <3>1. /\ pc = "package" /\ pc' = "finished" /\ fragment' = lock
          /\ pos > Len(Packages)
      BY <2>4 DEF WriteFragment
    <3>2. Lists(lock, pos - 1) /\ pos - 1 = Len(Packages)
      BY <1>4, <3>1 DEF LinesInOrder, Lists
    <3> QED BY <1>1, <1>4, <3>1, <3>2 DEF LinesInOrder, Lists
  <2> QED BY <2>1, <2>2, <2>3, <2>4
<1> QED BY <1>2, <1>3, <1>5

(* A step that changes no variable. *)
LEMMA StagingStutter == StagingInv /\ UNCHANGED vars => StagingInv'
<1> SUFFICES ASSUME StagingInv, UNCHANGED vars PROVE StagingInv'
  OBVIOUS
<1> USE DEF StagingInv, vars
<1>1. StageKnown' /\ BuiltIsStaged'
  BY DEF StageKnown, BuiltIsStaged, AtOrAfterPasses
<1>2. LinesInOrder'
  BY DEF LinesInOrder, Lists, Packages
<1> QED BY <1>1, <1>2

(* A finished run has packaged what it staged, and staged what it packaged. *)
LEMMA FinishedListsStage == IInv /\ StagingInv => StagedIsPackaged
<1> SUFFICES ASSUME IInv, StagingInv, pc = "finished"
             PROVE  /\ \A n \in Names : stage[n] # None =>
                           \E i \in DOMAIN fragment : /\ fragment[i].name = n
                                                      /\ fragment[i].version = stage[n]
                    /\ \A i \in DOMAIN fragment : stage[fragment[i].name] = fragment[i].version
  BY DEF StagedIsPackaged
<1>1. /\ fragment \in Seq(Lines) /\ all \in Seq(Names) /\ tools \in Seq(Names)
  BY DEF IInv, TypeOK
<1>2. /\ DOMAIN fragment = 1..Len(Packages)
      /\ \A i \in 1..Len(Packages) : /\ fragment[i].name = Packages[i]
                                     /\ fragment[i].version = ver[Packages[i]]
  BY <1>1 DEF StagingInv, LinesInOrder, Lists
<1>3. /\ Len(Packages) = Len(all) + Len(tools)
      /\ \A i \in 1..Len(all) : Packages[i] = all[i]
      /\ \A i \in 1..Len(tools) : Packages[Len(all) + i] = tools[i]
  BY <1>1 DEF Packages
<1>4. Range(done) = Range(all)
  BY ListCounts DEF IInv, CountedOut
<1>5. ASSUME NEW n \in Range(all) \cup Range(tools)
      PROVE  \E i \in 1..Len(Packages) : Packages[i] = n
  <2>1. CASE n \in Range(all)
    <3>1. PICK i \in 1..Len(all) : all[i] = n
      BY <1>1, <2>1 DEF Range
    <3> QED BY <1>1, <1>3, <3>1
  <2>2. CASE n \in Range(tools)
    <3>1. PICK i \in 1..Len(tools) : tools[i] = n
      BY <1>1, <2>2 DEF Range
    <3>2. Len(all) + i \in 1..Len(Packages) /\ Packages[Len(all) + i] = n
      BY <1>1, <1>3, <3>1
    <3> QED BY <3>2
  <2> QED BY <1>5, <2>1, <2>2
<1>6. ASSUME NEW i \in 1..Len(Packages)
      PROVE  /\ Packages[i] \in Range(all) \cup Range(tools)
             /\ stage[Packages[i]] # None
  <2>1. CASE i <= Len(all)
    <3>1. Packages[i] = all[i] /\ all[i] \in Range(all)
      BY <1>1, <1>3, <2>1, RangeOfSequence
    <3> QED BY <1>4, <3>1 DEF StagingInv, BuiltIsStaged
  <2>2. CASE i > Len(all)
    <3>1. /\ i - Len(all) \in 1..Len(tools) /\ Len(all) + (i - Len(all)) = i
      BY <1>1, <1>3, <2>2
    <3>2. Packages[i] = tools[i - Len(all)]
      BY <1>3, <3>1
    <3>3. stage[tools[i - Len(all)]] # None
      BY <1>1, <3>1 DEF StagingInv, BuiltIsStaged, AtOrAfterPasses
    <3> QED BY <1>1, <3>1, <3>2, <3>3, RangeOfSequence
  <2> QED BY <1>1, <2>1, <2>2
<1>7. ASSUME NEW n \in Names, stage[n] # None
      PROVE  \E i \in DOMAIN fragment : fragment[i].name = n /\ fragment[i].version = stage[n]
  <2>1. n \in Range(all) \cup Range(tools) /\ stage[n] = ver[n]
    BY <1>7 DEF StagingInv, StageKnown
  <2>2. PICK i \in 1..Len(Packages) : Packages[i] = n
    BY <1>5, <2>1
  <2> QED BY <1>2, <2>1, <2>2
<1>8. ASSUME NEW i \in DOMAIN fragment
      PROVE  stage[fragment[i].name] = fragment[i].version
  <2>1. i \in 1..Len(Packages)
    BY <1>2
  <2>2. Packages[i] \in Names /\ stage[Packages[i]] # None
    BY <1>6, <2>1, VersionIsSome
  <2>3. stage[Packages[i]] = ver[Packages[i]]
    BY <2>2 DEF StagingInv, StageKnown
  <2> QED BY <1>2, <2>1, <2>3
<1> QED BY <1>7, <1>8

(* The lock fragment of a finished run lists the staged prefixes, all of   *)
(* them and no others, in the versions that were staged.                   *)
THEOREM StagedCorrect == Spec => []StagedIsPackaged
<1>1. Init => StagingInv
  <2> SUFFICES ASSUME Init PROVE StagingInv
    OBVIOUS
  <2>1. pc = "collect" /\ Range(done) = {} /\ \A n \in Names : stage[n] = None
    BY RangeEmpty DEF Init
  <2> QED BY <2>1 DEF StagingInv, StageKnown, BuiltIsStaged, LinesInOrder, AtOrAfterPasses
<1>2. IInv /\ StagingInv /\ [Next]_vars => StagingInv'
  BY StagingCollect, StagingTools, StagingPass, StagingPackage, StagingStutter
  DEF Next, Clears, Packs
<1>3. Spec => []StagingInv
  BY <1>1, <1>2, Invariance, PTL DEF Spec
<1> QED BY <1>3, Invariance, FinishedListsStage, PTL

-----------------------------------------------------------------------------
(* The counts that fall. *)

(* DONE is part of ALL and neither has duplicates. *)
LEMMA DoneIsShorter == IInv => Len(done) <= Len(all) /\ Remaining \in Nat
<1> SUFFICES ASSUME IInv PROVE Len(done) <= Len(all) /\ Remaining \in Nat
  OBVIOUS
<1>1. /\ IsFiniteSet(Range(done)) /\ Cardinality(Range(done)) = Len(done)
      /\ IsFiniteSet(Range(all)) /\ Cardinality(Range(all)) = Len(all)
  BY CountDistinct DEF IInv, TypeOK, ListsAreSets
<1>2. Cardinality(Range(done)) <= Cardinality(Range(all))
  BY <1>1, FS_Subset DEF IInv, ListsAreSets
<1>3. Len(done) \in Nat /\ Len(all) \in Nat
  BY DEF IInv, TypeOK
<1> QED BY <1>1, <1>2, <1>3 DEF Remaining

(* The step towards the end, without its place in time. *)
Nears ==
    /\ LibrariesLeft' \in Nat /\ EntriesLeft' \in Nat
    /\ \/ PhasesLeft' < PhasesLeft
       \/ /\ PhasesLeft' = PhasesLeft
          /\ \/ LibrariesLeft' < LibrariesLeft
             \/ LibrariesLeft' = LibrariesLeft /\ EntriesLeft' < EntriesLeft

(* The three counts, place by place. *)
LEMMA CountsAt ==
    /\ pc = "collect" => /\ PhasesLeft = 5 /\ LibrariesLeft = 0
                         /\ EntriesLeft = Len(specs) + 1 - pos
    /\ pc = "tools" => /\ PhasesLeft = 4 /\ LibrariesLeft = 0
                       /\ EntriesLeft = Len(tools) + 1 - pos
    /\ pc = "while" => /\ PhasesLeft = 3 /\ LibrariesLeft = Remaining
                       /\ EntriesLeft = Len(all) + 1
    /\ pc = "clear" => /\ PhasesLeft = 2 /\ LibrariesLeft = 0 /\ EntriesLeft = 0
    /\ pc = "pass" => /\ PhasesLeft = 3
                      /\ LibrariesLeft = IF progress THEN Remaining + 1 ELSE Remaining
                      /\ EntriesLeft = Len(all) + 1 - pos
    /\ pc = "package" => /\ PhasesLeft = 1 /\ LibrariesLeft = 0
                         /\ EntriesLeft = Len(Packages) + 1 - pos
    /\ pc \in Ended => PhasesLeft = 0 /\ LibrariesLeft = 0 /\ EntriesLeft = 0
BY DEF PhasesLeft, LibrariesLeft, EntriesLeft, Ended

LEMMA CountsNext ==
    /\ pc' = "collect" => /\ PhasesLeft' = 5 /\ LibrariesLeft' = 0
                          /\ EntriesLeft' = Len(specs') + 1 - pos'
    /\ pc' = "tools" => /\ PhasesLeft' = 4 /\ LibrariesLeft' = 0
                        /\ EntriesLeft' = Len(tools') + 1 - pos'
    /\ pc' = "while" => /\ PhasesLeft' = 3 /\ LibrariesLeft' = Remaining'
                        /\ EntriesLeft' = Len(all') + 1
    /\ pc' = "clear" => /\ PhasesLeft' = 2 /\ LibrariesLeft' = 0 /\ EntriesLeft' = 0
    /\ pc' = "pass" => /\ PhasesLeft' = 3
                       /\ LibrariesLeft' = IF progress' THEN Remaining' + 1 ELSE Remaining'
                       /\ EntriesLeft' = Len(all') + 1 - pos'
    /\ pc' = "package" => /\ PhasesLeft' = 1 /\ LibrariesLeft' = 0
                          /\ EntriesLeft' = Len(Packages') + 1 - pos'
    /\ pc' \in Ended => PhasesLeft' = 0 /\ LibrariesLeft' = 0 /\ EntriesLeft' = 0
BY DEF PhasesLeft, LibrariesLeft, EntriesLeft, Ended

(* Every action of the script lowers one of the counts. *)
LEMMA NearsTheEnd == IInv /\ IInv' /\ EntriesLeft \in Nat /\ Next => Nears
<1> SUFFICES ASSUME IInv, IInv', EntriesLeft \in Nat, Next PROVE Nears
  OBVIOUS
<1> USE DEF collected, outDir
<1>1. /\ Len(specs) \in Nat /\ Len(tools) \in Nat /\ Len(all) \in Nat /\ pos \in Nat
      /\ Len(Packages) \in Nat
  BY DEF IInv, TypeOK, Packages
<1>2. Remaining \in Nat /\ Remaining' \in Nat
  <2>1. IInv' => (Remaining \in Nat)'
    BY DoneIsShorter, PTL
  <2> QED BY <2>1, DoneIsShorter
<1>3. CASE SkipSpec \/ CollectTool \/ CollectLibrary \/ Collected
  <2>1. /\ pc = "collect" /\ specs' = specs
        /\ \/ pc' = "collect" /\ pos <= Len(specs) /\ pos' = pos + 1
           \/ pc' = "tools" /\ pos' = 1 /\ tools' = tools
    BY <1>3 DEF SkipSpec, CollectTool, CollectLibrary, Collected
  <2>2. PhasesLeft = 5 /\ LibrariesLeft = 0 /\ EntriesLeft = Len(specs) + 1 - pos
    BY <2>1, CountsAt
  <2>3. CASE pc' = "collect" /\ pos <= Len(specs) /\ pos' = pos + 1
    <3>1. PhasesLeft' = 5 /\ LibrariesLeft' = 0 /\ EntriesLeft' = Len(specs) + 1 - pos'
      BY <2>1, <2>3, CountsNext
    <3> QED BY <1>1, <2>2, <2>3, <3>1 DEF Nears
  <2>4. CASE pc' = "tools" /\ pos' = 1 /\ tools' = tools
    <3>1. PhasesLeft' = 4 /\ LibrariesLeft' = 0 /\ EntriesLeft' = Len(tools) + 1 - 1
      BY <2>4, CountsNext
    <3> QED BY <1>1, <2>2, <3>1 DEF Nears
  <2> QED BY <2>1, <2>3, <2>4
<1>4. CASE BuildTool \/ ToolFails \/ ToolsBuilt
  <2>1. /\ pc = "tools" /\ tools' = tools /\ all' = all
        /\ \/ pc' = "tools" /\ pos <= Len(tools) /\ pos' = pos + 1
           \/ pc' = "while"
           \/ pc' = "toolFailed"
    BY <1>4 DEF BuildTool, ToolFails, ToolsBuilt
  <2>2. PhasesLeft = 4 /\ LibrariesLeft = 0 /\ EntriesLeft = Len(tools) + 1 - pos
    BY <2>1, CountsAt
  <2>3. CASE pc' = "tools" /\ pos <= Len(tools) /\ pos' = pos + 1
    <3>1. PhasesLeft' = 4 /\ LibrariesLeft' = 0 /\ EntriesLeft' = Len(tools) + 1 - pos'
      BY <2>1, <2>3, CountsNext
    <3> QED BY <1>1, <2>2, <2>3, <3>1 DEF Nears
  <2>4. CASE pc' = "while"
    <3>1. PhasesLeft' = 3 /\ LibrariesLeft' = Remaining' /\ EntriesLeft' = Len(all) + 1
      BY <2>1, <2>4, CountsNext
    <3> QED BY <1>1, <1>2, <2>2, <3>1 DEF Nears
  <2>5. CASE pc' = "toolFailed"
    <3>1. PhasesLeft' = 0 /\ LibrariesLeft' = 0 /\ EntriesLeft' = 0
      BY <2>5, CountsNext DEF Ended
    <3> QED BY <2>2, <3>1 DEF Nears
  <2> QED BY <2>1, <2>3, <2>4, <2>5
<1>5. CASE BeginPass
  <2>1. /\ pc = "while" /\ pc' = "pass" /\ progress' = FALSE /\ pos' = 1
        /\ all' = all /\ Remaining' = Remaining
    BY <1>5 DEF BeginPass, Remaining
  <2>2. PhasesLeft = 3 /\ LibrariesLeft = Remaining /\ EntriesLeft = Len(all) + 1
    BY <2>1, CountsAt
  <2>3. PhasesLeft' = 3 /\ LibrariesLeft' = Remaining /\ EntriesLeft' = Len(all) + 1 - 1
    BY <2>1, CountsNext
  <2> QED BY <1>1, <1>2, <2>2, <2>3 DEF Nears
<1>6. CASE PassOver
  <2>1. /\ pc = "pass" /\ pc' = "pass" /\ progress' = progress /\ pos' = pos + 1
        /\ pos <= Len(all) /\ all' = all /\ Remaining' = Remaining
    BY <1>6 DEF PassOver, Remaining
  <2>2. /\ PhasesLeft = 3 /\ EntriesLeft = Len(all) + 1 - pos
        /\ LibrariesLeft = IF progress THEN Remaining + 1 ELSE Remaining
    BY <2>1, CountsAt
  <2>3. /\ PhasesLeft' = 3 /\ EntriesLeft' = Len(all) + 1 - (pos + 1)
        /\ LibrariesLeft' = IF progress THEN Remaining + 1 ELSE Remaining
    BY <2>1, CountsNext
  <2> QED BY <1>1, <1>2, <2>1, <2>2, <2>3 DEF Nears
<1>7. CASE BuildLibrary
  <2>1. /\ pc = "pass" /\ pc' = "pass" /\ progress' = TRUE /\ pos' = pos + 1
        /\ pos <= Len(all) /\ all' = all /\ Remaining' = Remaining - 1
    <3>1. all[pos] \in Names /\ done \in Seq(Names)
      BY <1>7 DEF BuildLibrary, IInv, TypeOK
    <3>2. Len(done') = Len(done) + 1
      BY <1>7, <3>1, RangeAppend DEF BuildLibrary
    <3> QED BY <1>7, <1>1, <3>1, <3>2 DEF BuildLibrary, Remaining
  <2>2. progress \in BOOLEAN
    BY DEF IInv, TypeOK
  <2>3. /\ PhasesLeft = 3 /\ EntriesLeft = Len(all) + 1 - pos
        /\ LibrariesLeft = IF progress THEN Remaining + 1 ELSE Remaining
    BY <2>1, CountsAt
  <2>4. /\ PhasesLeft' = 3 /\ EntriesLeft' = Len(all) + 1 - (pos + 1)
        /\ LibrariesLeft' = Remaining
    BY <1>2, <2>1, CountsNext
  <2> QED BY <1>1, <1>2, <2>1, <2>2, <2>3, <2>4 DEF Nears
<1>8. CASE LibraryFails \/ NoProgress
  <2>1. pc = "pass" /\ pc' \in {"buildFailed", "stuck"}
    BY <1>8 DEF LibraryFails, NoProgress
  <2>2. PhasesLeft = 3
    BY <2>1, CountsAt
  <2>3. PhasesLeft' = 0 /\ LibrariesLeft' = 0 /\ EntriesLeft' = 0
    BY <2>1, CountsNext DEF Ended
  <2> QED BY <2>2, <2>3 DEF Nears
<1>9. CASE EndPass
  <2>1. /\ pc = "pass" /\ pc' = "while" /\ progress = TRUE
        /\ all' = all /\ Remaining' = Remaining
    BY <1>9 DEF EndPass, Remaining, IInv, TypeOK
  <2>2. PhasesLeft = 3 /\ LibrariesLeft = Remaining + 1
    BY <2>1, CountsAt
  <2>3. PhasesLeft' = 3 /\ LibrariesLeft' = Remaining /\ EntriesLeft' = Len(all) + 1
    BY <2>1, CountsNext
  <2> QED BY <1>1, <1>2, <2>2, <2>3 DEF Nears
<1>10. CASE Clears
  <2>1. \/ pc = "while" /\ pc' = "clear"
        \/ pc = "clear" /\ pc' = "clearKilled"
        \/ pc = "clear" /\ pc' = "package" /\ pos' = 1 /\ Packages' = Packages
    BY <1>10 DEF Clears, ClearSome, ClearKilled, ClearOut, Packages
  <2>2. CASE pc = "while" /\ pc' = "clear"
    <3>1. PhasesLeft = 3 /\ PhasesLeft' = 2 /\ LibrariesLeft' = 0 /\ EntriesLeft' = 0
      BY <2>2, CountsAt, CountsNext
    <3> QED BY <3>1 DEF Nears
  <2>3. CASE pc = "clear" /\ pc' = "clearKilled"
    <3>1. PhasesLeft = 2 /\ PhasesLeft' = 0 /\ LibrariesLeft' = 0 /\ EntriesLeft' = 0
      BY <2>3, CountsAt, CountsNext DEF Ended
    <3> QED BY <3>1 DEF Nears
  <2>4. CASE pc = "clear" /\ pc' = "package" /\ pos' = 1 /\ Packages' = Packages
    <3>1. PhasesLeft = 2
      BY <2>4, CountsAt
    <3>2. PhasesLeft' = 1 /\ LibrariesLeft' = 0 /\ EntriesLeft' = Len(Packages) + 1 - 1
      BY <2>4, CountsNext
    <3> QED BY <1>1, <3>1, <3>2 DEF Nears
  <2> QED BY <2>1, <2>2, <2>3, <2>4
<1>11. CASE PackageOne
  <2>1. /\ pc = "package" /\ pc' = "package" /\ pos <= Len(Packages) /\ pos' = pos + 1
        /\ Packages' = Packages
    BY <1>11 DEF PackageOne, Packages
  <2>2. PhasesLeft = 1 /\ LibrariesLeft = 0 /\ EntriesLeft = Len(Packages) + 1 - pos
    BY <2>1, CountsAt
  <2>3. PhasesLeft' = 1 /\ LibrariesLeft' = 0 /\ EntriesLeft' = Len(Packages) + 1 - (pos + 1)
    BY <2>1, CountsNext
  <2> QED BY <1>1, <2>1, <2>2, <2>3 DEF Nears
<1>12. CASE PackageFails \/ WriteFragment \/ WriteKilled
  <2>1. pc = "package" /\ pc' \in {"packageFailed", "finished"}
    BY <1>12 DEF PackageFails, WriteFragment, WriteKilled
  <2>2. PhasesLeft = 1
    BY <2>1, CountsAt
  <2>3. PhasesLeft' = 0 /\ LibrariesLeft' = 0 /\ EntriesLeft' = 0
    BY <2>1, CountsNext DEF Ended
  <2> QED BY <2>2, <2>3 DEF Nears
<1> QED BY <1>3, <1>4, <1>5, <1>6, <1>7, <1>8, <1>9, <1>10, <1>11, <1>12
  DEF Next, Clears

(* The while loop of build_platform.cmake:104 ends on every graph: each    *)
(* step lowers a lexicographic order of three natural numbers, a second    *)
(* pass being paid for by a library that the first has built.              *)
THEOREM NearsCorrect == Spec => EveryStepNearsTheEnd
<1>1. Init => EntriesLeft \in Nat
  <2> SUFFICES ASSUME Init PROVE EntriesLeft \in Nat
    OBVIOUS
  <2>1. pc = "collect" /\ pos = 1 /\ Len(specs) \in Nat
    BY SpecListsAssumption DEF Init
  <2> QED BY <2>1, CountsAt
<1>2. IInv /\ IInv' /\ EntriesLeft \in Nat /\ [Next]_vars => (EntriesLeft \in Nat)'
  <2>1. UNCHANGED vars => EntriesLeft' = EntriesLeft
    BY DEF vars, EntriesLeft, Packages
  <2> QED BY <2>1, NearsTheEnd DEF Nears
<1>3. IInv /\ IInv' /\ EntriesLeft \in Nat /\ [Next]_vars => [Nears]_vars
  BY NearsTheEnd
<1>4. Spec => [][Nears]_vars
  BY <1>1, <1>2, <1>3, Invariance, PTL DEF Spec
<1> QED BY <1>4 DEF EveryStepNearsTheEnd, Nears

-----------------------------------------------------------------------------
(* The refinement.  Until the plan is made the abstract graph is empty.    *)

(* No library is planned or built before the passes begin. *)
LEMMA OrderInitially == Init => Order!Init
<1> SUFFICES ASSUME Init PROVE Order!Init
  OBVIOUS
<1>1. pc = "collect" /\ Range(done) = {}
  BY RangeEmpty DEF Init
<1>2. ~Planned
  BY <1>1 DEF Planned
<1>3. OutcomeOf[pc] = "planning"
  BY <1>1 DEF OutcomeOf
<1> QED BY <1>1, <1>2, <1>3 DEF Order!Init, Order!NoPlan

(* Each step of the script is a step of the abstract build or none. *)
LEMMA OrderStep == IInv /\ IInv' /\ [Next]_vars => [Order!Next]_(Order!vars)
<1> SUFFICES ASSUME IInv, [Next]_vars PROVE [Order!Next]_(Order!vars)
  OBVIOUS
<1> USE DEF collected, outDir
<1>1. CASE SkipSpec \/ CollectTool \/ CollectLibrary \/ Collected
  <2>1. ~Planned /\ ~Planned' /\ done' = done
    BY <1>1 DEF Planned, SkipSpec, CollectTool, CollectLibrary, Collected
  <2>2. OutcomeOf[pc] = "planning" /\ OutcomeOf[pc'] = "planning"
    BY <1>1 DEF OutcomeOf, SkipSpec, CollectTool, CollectLibrary, Collected
  <2> QED BY <2>1, <2>2 DEF Order!vars
<1>2. CASE BuildTool
  <2>1. ~Planned /\ ~Planned' /\ done' = done /\ pc' = pc
    BY <1>2 DEF Planned, BuildTool
  <2> QED BY <2>1 DEF Order!vars
<1>3. CASE ToolsBuilt
  <2>1. ~Planned /\ Planned' /\ done' = done /\ deps' = deps /\ all' = all
    BY <1>3 DEF Planned, ToolsBuilt
  <2>2. OutcomeOf[pc] = "planning" /\ OutcomeOf[pc'] = "building"
    BY <1>3 DEF OutcomeOf, ToolsBuilt
  <2>3. Range(all) \in SUBSET Names /\ \A n \in Range(all) : deps[n] \in SUBSET Names
    BY RangeOfSequence DEF IInv, TypeOK
  <2>4. [n \in Range(all) |-> deps[n]] \in [Range(all) -> SUBSET Names]
    BY <2>3
  <2>5. Order!Plan
    BY <2>1, <2>2, <2>3, <2>4 DEF Order!Plan
  <2> QED BY <2>5 DEF Order!Next
<1>4. CASE ToolFails
  <2>1. ~Planned /\ ~Planned' /\ done' = done
    BY <1>4 DEF Planned, ToolFails
  <2>2. OutcomeOf[pc] = "planning" /\ OutcomeOf[pc'] = "broken"
    BY <1>4 DEF OutcomeOf, ToolFails
  <2>3. Order!Break
    BY <2>1, <2>2 DEF Order!Break
  <2> QED BY <2>3 DEF Order!Next
<1>5. CASE BeginPass \/ PassOver \/ EndPass
  <2>1. Planned /\ Planned' /\ done' = done /\ deps' = deps /\ all' = all
    BY <1>5 DEF Planned, BeginPass, PassOver, EndPass
  <2>2. OutcomeOf[pc] = "building" /\ OutcomeOf[pc'] = "building"
    BY <1>5 DEF OutcomeOf, BeginPass, PassOver, EndPass
  <2> QED BY <2>1, <2>2 DEF Order!vars
<1>6. CASE BuildLibrary
  <2>1. Planned /\ Planned' /\ deps' = deps /\ all' = all
    BY <1>6 DEF Planned, BuildLibrary
  <2>2. OutcomeOf[pc] = "building" /\ OutcomeOf[pc'] = "building"
    BY <1>6 DEF OutcomeOf, BuildLibrary
  <2>3. /\ all[pos] \in Names /\ all[pos] \in Range(all)
        /\ Range(done') = Range(done) \cup {all[pos]}
    BY <1>6, RangeOfSequence, RangeAppend DEF BuildLibrary, IInv, TypeOK
  <2>4. Order!Buildable(all[pos])
    BY <1>6, <2>1, <2>3 DEF BuildLibrary, Ready, Order!Buildable
  <2>5. Order!BuildNext
    BY <2>1, <2>2, <2>3, <2>4 DEF Order!BuildNext
  <2> QED BY <2>5 DEF Order!Next
<1>7. CASE LibraryFails
  <2>1. Planned /\ Planned' /\ deps' = deps /\ all' = all /\ done' = done
    BY <1>7 DEF Planned, LibraryFails
  <2>2. OutcomeOf[pc] = "building" /\ OutcomeOf[pc'] = "broken"
    BY <1>7 DEF OutcomeOf, LibraryFails
  <2>3. Order!Break
    BY <2>1, <2>2 DEF Order!Break
  <2> QED BY <2>3 DEF Order!Next
<1>8. CASE NoProgress
  <2>1. Planned /\ Planned' /\ deps' = deps /\ all' = all /\ done' = done
    BY <1>8 DEF Planned, NoProgress
  <2>2. OutcomeOf[pc] = "building" /\ OutcomeOf[pc'] = "stuck"
    BY <1>8 DEF OutcomeOf, NoProgress
  <2>3. Len(done) < Len(all) /\ Len(done) \in Nat /\ Len(all) \in Nat
    BY <1>8 DEF NoProgress, IInv, PassSoFar, TypeOK
  <2>4. Range(all) # Range(done)
    <3>1. Len(all) <= Len(done) <=> Range(done) = Range(all)
      BY ListCounts
    <3> QED BY <2>3, <3>1
  <2>5. ASSUME NEW p \in Range(all) PROVE p \in Range(done) \/ ~Ready(p)
    <3>1. PICK j \in DOMAIN all : all[j] = p
      BY DEF Range
    <3>2. j < pos
      BY <1>8, <3>1 DEF NoProgress, IInv, TypeOK
    <3> QED BY <1>8, <3>1, <3>2 DEF NoProgress, IInv, PassSoFar
  <2>6. \A p \in Names : ~Order!Buildable(p)
    BY <2>1, <2>5 DEF Order!Buildable, Ready
  <2>7. Order!Stuck
    BY <2>1, <2>2, <2>4, <2>6 DEF Order!Stuck
  <2> QED BY <2>7 DEF Order!Next
<1>9. CASE ClearSome
  <2>1. Planned /\ Planned' /\ deps' = deps /\ all' = all /\ done' = done
    BY <1>9 DEF Planned, ClearSome
  <2>2. OutcomeOf[pc] = "building" /\ OutcomeOf[pc'] = "built"
    BY <1>9 DEF OutcomeOf, ClearSome
  <2>3. Len(all) <= Len(done)
    BY <1>9 DEF ClearSome, Remaining, IInv, TypeOK
  <2>4. Range(all) = Range(done)
    BY <2>3, ListCounts
  <2>5. Order!Complete
    BY <2>1, <2>2, <2>4 DEF Order!Complete
  <2> QED BY <2>5 DEF Order!Next
<1>10. CASE ClearKilled \/ ClearOut \/ Packs
  <2>1. Planned /\ Planned' /\ done' = done /\ deps' = deps /\ all' = all
    BY <1>10 DEF Planned, Packs, ClearKilled, ClearOut, PackageOne, PackageFails,
       WriteFragment, WriteKilled
  <2>2. OutcomeOf[pc] = "built" /\ OutcomeOf[pc'] = "built"
    BY <1>10 DEF OutcomeOf, Packs, ClearKilled, ClearOut, PackageOne, PackageFails,
       WriteFragment, WriteKilled
  <2> QED BY <2>1, <2>2 DEF Order!vars
<1>11. CASE UNCHANGED vars
  BY <1>11 DEF vars, Order!vars, Planned
<1> QED BY <1>1, <1>2, <1>3, <1>4, <1>5, <1>6, <1>7, <1>8, <1>9, <1>10, <1>11
  DEF Next, Packs

(* On every dependency graph the passes over ALL are a dependency-ordered  *)
(* build: each step of the script is one of the abstract build or changes  *)
(* nothing of it.                                                          *)
THEOREM OrderImplemented == Spec => ImplementsOrder
<1>1. Init => Order!Init
  BY OrderInitially
<1>2. IInv /\ IInv' /\ [Next]_vars => [Order!Next]_(Order!vars)
  BY OrderStep
<1> QED BY <1>1, <1>2, Invariance, PTL DEF Spec, ImplementsOrder, Order!Spec
=============================================================================
