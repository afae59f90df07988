------------------------ MODULE LocalPrefix_proofs ------------------------
(***************************************************************************)
(* The safety of the local prefix for any recipes, releases, modes,        *)
(* configurations and any number of interruptions.                         *)
(***************************************************************************)
EXTENDS LocalPrefix, TLAPS

(* What an extracted archive leaves in the prefix. *)
LEMMA ArchiveOrigin ==
    ASSUME NEW l \in Releases
    PROVE  /\ Archive(l) \in Origins
           /\ Archive(l).by = "archive"
           /\ Archive(l).recipe = RecipeOf[l]
           /\ RecipeOf[l] \in Recipes
BY ReleaseAssumption DEF Origins, Archives, Archive

(* What a build leaves in it, and the signature it is stamped with. *)
LEMMA BuildOrigin ==
    ASSUME NEW r \in Recipes, NEW c \in Configs
    PROVE  /\ Build(r, c) \in Origins
           /\ Build(r, c).by = "build"
           /\ [recipe |-> r, config |-> c] \in BuildSigs
BY DEF Origins, Builds, Build, BuildSigs

(* An absent file or lock line is no recipe, release or signature. *)
LEMMA NoneIsOther ==
    None \notin Recipes /\ None \notin Releases /\ None \notin BuildSigs
BY NoneAssumption

(* A build tree starts without a prefix. *)
LEMMA Initially == Init => IInv
BY ConfigAssumption, BoundAssumption
   DEF Init, IInv, TypeOK, PCs, StepsInProgress, ExtractionLeavesNoStamp,
       StampOfDelivery, Delivered, PrebuiltStampTrue, BuildStampTrue

(* Every step of a configure, every interruption and every checkout keeps  *)
(* the strengthened invariant.                                             *)
LEMMA Inductive == IInv /\ [Next]_vars => IInv'
<1> SUFFICES ASSUME IInv, [Next]_vars PROVE IInv'
  OBVIOUS
<1> USE DEF IInv, TypeOK, PCs, StepsInProgress, ExtractionLeavesNoStamp,
            StampOfDelivery, Delivered, PrebuiltStampTrue, BuiltHere,
            BuildStampTrue, env, disk
<1>1. CASE UNCHANGED vars
  BY <1>1 DEF vars
<1>2. ASSUME NEW m \in Modes, NEW c \in Configs, Configure(m, c)
      PROVE  IInv'
  BY <1>2, ConfigAssumption DEF Configure, Rel
<1>3. ASSUME NEW r \in Recipes, NEW l \in Releases \cup {None}, Checkout(r, l)
      PROVE  IInv'
  BY <1>3 DEF Checkout
<1>4. CASE Step
  <2>1. CASE ResolveSystem
    BY <2>1, ArchiveOrigin, BuildOrigin, NoneIsOther DEF ResolveSystem
  <2>2. CASE NoUsablePrebuilt
    BY <2>2, ArchiveOrigin, BuildOrigin, NoneIsOther
       DEF NoUsablePrebuilt, LineUsable
  <2>3. CASE AlreadyInstalled
    BY <2>3, ArchiveOrigin, BuildOrigin, NoneIsOther
       DEF AlreadyInstalled, LineUsable
  <2>4. CASE FetchArchive
    BY <2>4, ArchiveOrigin, BuildOrigin, NoneIsOther
       DEF FetchArchive, LineUsable
  <2>5. CASE ClearPrefix
    BY <2>5, ArchiveOrigin, BuildOrigin, NoneIsOther DEF ClearPrefix
  <2>6. CASE ExtractArchive
    BY <2>6, ArchiveOrigin, BuildOrigin, NoneIsOther DEF ExtractArchive
  <2>7. CASE StampPrebuilt
    BY <2>7, ArchiveOrigin, BuildOrigin, NoneIsOther DEF StampPrebuilt
  <2>8. CASE SkipBuild
    BY <2>8, ArchiveOrigin, BuildOrigin, NoneIsOther DEF SkipBuild, BuildSig
  <2>9. CASE PrepareSource
    BY <2>9, ArchiveOrigin, BuildOrigin, NoneIsOther
       DEF PrepareSource, BuildSig
  <2>10. CASE Install
    BY <2>10, ArchiveOrigin, BuildOrigin, NoneIsOther DEF Install
  <2>11. CASE StampBuild
    BY <2>11, ArchiveOrigin, BuildOrigin, NoneIsOther DEF StampBuild, BuildSig
  <2>12. CASE Bind
    BY <2>12, ArchiveOrigin, BuildOrigin, NoneIsOther DEF Bind
  <2>13. CASE ResolvedLibMissing
    BY <2>13, ArchiveOrigin, BuildOrigin, NoneIsOther DEF ResolvedLibMissing
  <2> QED BY <1>4, <2>1, <2>2, <2>3, <2>4, <2>5, <2>6, <2>7, <2>8, <2>9, <2>10, <2>11, <2>12, <2>13
     DEF Step
<1>5. CASE Fault
  <2>1. CASE GiveUp
    BY <2>1, ArchiveOrigin, BuildOrigin, NoneIsOther, BoundAssumption
       DEF GiveUp, Interrupted
  <2>2. CASE ClearInterrupted
    BY <2>2, ArchiveOrigin, BuildOrigin, NoneIsOther, BoundAssumption
       DEF ClearInterrupted, Interrupted
  <2>3. CASE ExtractInterrupted
    <3>1. lock \in Releases /\ Archive(lock) \in Origins
      BY <2>3, ArchiveOrigin DEF ExtractInterrupted
    <3>2. files' \in SUBSET Origins
      BY <2>3, <3>1 DEF ExtractInterrupted
    <3>3. TypeOK'
      BY <2>3, <3>2, BoundAssumption DEF ExtractInterrupted, Interrupted
    <3> QED BY <2>3, <3>3, NoneIsOther DEF ExtractInterrupted, Interrupted
  <2>4. CASE InstallInterrupted
    <3>1. CASE UNCHANGED disk
      BY <2>4, <3>1, BoundAssumption DEF InstallInterrupted, Interrupted
    <3>2. CASE /\ files' = files \cup {Build(recipe, config)}
               /\ whole' = None
               /\ unfinished' = "install"
               /\ UNCHANGED <<prebuiltStamp, buildStamp>>
      <4>1. Build(recipe, config) \in Origins
        BY BuildOrigin
      <4>2. files' \in SUBSET Origins
        BY <3>2, <4>1
      <4>3. TypeOK'
        BY <2>4, <3>2, <4>2, BoundAssumption DEF InstallInterrupted, Interrupted
      <4>4. PrebuiltStampTrue'
        BY <3>2, BuildOrigin
      <4> QED
        BY <2>4, <3>2, <4>3, <4>4 DEF InstallInterrupted, Interrupted
    <3> QED BY <2>4, <3>1, <3>2 DEF InstallInterrupted
  <2>5. CASE StampInterrupted
    BY <2>5, ArchiveOrigin, BuildOrigin, NoneIsOther, BoundAssumption
       DEF StampInterrupted, Interrupted
  <2> QED BY <1>5, <2>1, <2>2, <2>3, <2>4, <2>5 DEF Fault
<1> QED BY <1>1, <1>2, <1>3, <1>4, <1>5 DEF Next

(* The strengthened invariant holds in every reachable state. *)
THEOREM Invariance == Spec => []IInv
BY Initially, Inductive, PTL DEF Spec

(* extdeps_resolve keeps the shape of the state: the stamps hold recipes   *)
(* and build signatures of this dep, never anything else.                  *)
THEOREM TypeCorrect == Spec => []TypeOK
<1>1. IInv => TypeOK  BY DEF IInv
<1> QED BY <1>1, Invariance, PTL

(* _extdeps_fetch_prebuilt binds only archives of the checked-out recipe.  *)
THEOREM ServedArchiveCorrect == Spec => []ServedArchiveIsCurrent
<1>1. IInv => ServedArchiveIsCurrent
  BY NoneIsOther
     DEF IInv, TypeOK, StampOfDelivery, PrebuiltStampTrue, ServedArchiveIsCurrent
<1> QED BY <1>1, Invariance, PTL

(* An untouched prefix bound as prebuilt holds one archive, completely.    *)
THEOREM PrebuiltServedCorrect == Spec => []PrebuiltServedWhole
<1>1. IInv => PrebuiltServedWhole
  BY NoneIsOther
     DEF IInv, TypeOK, StampOfDelivery, PrebuiltStampTrue, PrebuiltServedWhole
<1> QED BY <1>1, Invariance, PTL

(* What an interrupted extraction leaves is never bound.                   *)
THEOREM HalfExtractedCorrect == Spec => []HalfExtractedNeverServed
<1>1. IInv => HalfExtractedNeverServed
  <2> SUFFICES ASSUME IInv, Delivered, via # "system", unfinished = "extract"
               PROVE  FALSE
    BY DEF HalfExtractedNeverServed
  <2>1. via \in {"prebuilt", "built", "uptodate"}
    BY DEF IInv, TypeOK, StepsInProgress, Delivered
  <2>2. prebuiltStamp # None \/ buildStamp # None
    <3>1. CASE via = "prebuilt"
      BY <3>1, NoneIsOther DEF IInv, TypeOK, StampOfDelivery
    <3>2. CASE via \in {"built", "uptodate"}
      BY <3>2, BuildOrigin, NoneIsOther DEF IInv, TypeOK, StampOfDelivery
    <3> QED BY <2>1, <3>1, <3>2
  <2> QED BY <2>2 DEF IInv, ExtractionLeavesNoStamp
<1> QED BY <1>1, Invariance, PTL

(* A skipped build is the current one when no installation was cut short.  *)
THEOREM SkippedBuildCorrect == Spec => []SkippedBuildIsCurrent
<1>1. IInv => SkippedBuildIsCurrent
  BY BuildOrigin, NoneIsOther
     DEF IInv, TypeOK, StampOfDelivery, BuildStampTrue, SkippedBuildIsCurrent
<1> QED BY <1>1, Invariance, PTL
=============================================================================
