----------------------- MODULE SourceDelivery_proofs -----------------------
(***************************************************************************)
(* The delivery of a pinned source for any number of trees, revisions,     *)
(* attempts, patches and killed processes, and for every kind.             *)
(***************************************************************************)
EXTENDS SourceDelivery, TLAPS

(* The steps that end a run with a fatal error. *)
Stops(t) ==
    \/ HashDiffers(t) \/ Vanished(t) \/ AllUrlsFail(t) \/ ExtractFails(t)
    \/ CloneCollides(t) \/ GitFails(t) \/ CheckoutLocked(t) \/ CheckoutUnknown(t)
    \/ HeadDiffers(t) \/ PatchFails(t)

(* A fatal error does nothing but end the run, and never in the middle of  *)
(* a download or a checkout.                                               *)
LEMMA StopsAreFatal ==
    ASSUME NEW t \in Trees, Stops(t)
    PROVE  /\ Fatal(t) /\ ~AtRest(t)
           /\ pc[t] \notin {"cloning", "checking_out", "downloading", "discard"}
           /\ pc[t] = "check" => tarball = None
BY DEF Stops, HashDiffers, Vanished, AllUrlsFail, ExtractFails, CloneCollides, GitFails,
       CheckoutLocked, CheckoutUnknown, HeadDiffers, PatchFails, AtRest, AtRestPCs

(* There are two URLs. *)
LEMMA UrlCount == Len(Urls) = 2
BY DEF Urls

(* Rounds bounds both loops. *)
LEMMA RoundsBound == Rounds \in Nat /\ Attempts <= Rounds /\ Patches <= Rounds
BY AttemptsAssumption, PatchesAssumption DEF Rounds

(* Removing some of a directory leaves a directory, and every other alone. *)
LEMMA RemovedSome ==
    ASSUME TypeOK, NEW t \in Trees, NEW x \in Files, NEW y \in Files,
           NEW r \in Revisions \cup {None}, NEW e,
           e = [dir EXCEPT ![t] = [@ EXCEPT !.a = x, !.b = y, !.stamp = r]]
    PROVE  /\ e \in [Trees -> Dirs]
           /\ \A q \in Trees : q # t => e[q] = dir[q]
           /\ e[t].stamp = r
BY DEF TypeOK, Dirs

(* Extracting puts both parts of a source in place. *)
LEMMA FilledWhole ==
    ASSUME TypeOK, NEW t \in Trees, NEW x \in Files, NEW e,
           e = [dir EXCEPT ![t] = [@ EXCEPT !.a = x, !.b = x]]
    PROVE  /\ e \in [Trees -> Dirs]
           /\ \A q \in Trees : q # t => e[q] = dir[q]
           /\ e[t].a = x /\ e[t].b = x
           /\ e[t].patches = dir[t].patches /\ e[t].stamp = dir[t].stamp
BY DEF TypeOK, Dirs

(* Copying begins with the first part. *)
LEMMA FilledFirst ==
    ASSUME TypeOK, NEW t \in Trees, NEW x \in Files, NEW e, e = [dir EXCEPT ![t].a = x]
    PROVE  /\ e \in [Trees -> Dirs]
           /\ \A q \in Trees : q # t => e[q] = dir[q]
           /\ e[t].a = x /\ e[t].b = dir[t].b
           /\ e[t].patches = dir[t].patches /\ e[t].stamp = dir[t].stamp
BY DEF TypeOK, Dirs

(* Copying ends with the second part. *)
LEMMA FilledSecond ==
    ASSUME TypeOK, NEW t \in Trees, NEW x \in Files, NEW e, e = [dir EXCEPT ![t].b = x]
    PROVE  /\ e \in [Trees -> Dirs]
           /\ \A q \in Trees : q # t => e[q] = dir[q]
           /\ e[t].a = dir[t].a /\ e[t].b = x
           /\ e[t].patches = dir[t].patches /\ e[t].stamp = dir[t].stamp
BY DEF TypeOK, Dirs

(* One more patch is in. *)
LEMMA Patched ==
    ASSUME TypeOK, NEW t \in Trees, dir[t].patches < Patches, NEW e,
           e = [dir EXCEPT ![t].patches = @ + 1]
    PROVE  /\ e \in [Trees -> Dirs]
           /\ \A q \in Trees : q # t => e[q] = dir[q]
           /\ e[t].a = dir[t].a /\ e[t].b = dir[t].b
           /\ e[t].patches = dir[t].patches + 1 /\ e[t].stamp = dir[t].stamp
<1>1. dir[t].patches + 1 \in 0..Patches
  BY PatchesAssumption DEF TypeOK, Dirs
<1> QED BY <1>1 DEF TypeOK, Dirs

(* The stamp is written. *)
LEMMA Stamped ==
    ASSUME TypeOK, NEW t \in Trees, NEW r \in Revisions \cup {None}, NEW e,
           e = [dir EXCEPT ![t].stamp = r]
    PROVE  /\ e \in [Trees -> Dirs]
           /\ \A q \in Trees : q # t => e[q] = dir[q]
           /\ e[t].a = dir[t].a /\ e[t].b = dir[t].b
           /\ e[t].patches = dir[t].patches /\ e[t].stamp = r
BY DEF TypeOK, Dirs

(* A clone that has begun has nothing checked out. *)
LEMMA CloneStarted ==
    ASSUME NEW e, e = [NoClone EXCEPT !.state = "begun"]
    PROVE  /\ e \in Clones /\ e.state = "begun" /\ e.has = {} /\ e.lock = FALSE
           /\ e.head = None /\ e.a = None /\ e.b = None
BY DEF NoClone, Clones, Files

(* A whole clone has what is published, and none of it checked out. *)
LEMMA CloneFilled ==
    ASSUME TypeOK, NEW e,
           e = [NoClone EXCEPT !.state = "whole", !.has = published, !.head = Foreign,
                               !.a = Foreign, !.b = Foreign]
    PROVE  /\ e \in Clones /\ e.state = "whole" /\ e.has = published /\ e.lock = FALSE
           /\ e.head = Foreign /\ e.a = Foreign /\ e.b = Foreign
BY DEF NoClone, Clones, Files, TypeOK

(* Fetching adds a commit. *)
LEMMA CloneFetched ==
    ASSUME TypeOK, NEW r \in Revisions, NEW e, e = [clone EXCEPT !.has = @ \cup {r}]
    PROVE  /\ e \in Clones /\ e.state = clone.state /\ e.has = clone.has \cup {r}
           /\ e.lock = clone.lock /\ e.head = clone.head /\ e.a = clone.a /\ e.b = clone.b
BY DEF Clones, TypeOK

(* A checkout takes the lock and changes the first part. *)
LEMMA CheckoutStarted ==
    ASSUME TypeOK, NEW r \in Revisions, NEW e, e = [clone EXCEPT !.lock = TRUE, !.a = r]
    PROVE  /\ e \in Clones /\ e.state = clone.state /\ e.has = clone.has
           /\ e.lock = TRUE /\ e.head = clone.head /\ e.a = r /\ e.b = clone.b
BY DEF Clones, Files, TypeOK

(* A checkout that ends changes the rest and gives the lock back. *)
LEMMA CheckoutEnded ==
    ASSUME TypeOK, NEW r \in Revisions, NEW e,
           e = [clone EXCEPT !.lock = FALSE, !.b = r, !.head = r]
    PROVE  /\ e \in Clones /\ e.state = clone.state /\ e.has = clone.has
           /\ e.lock = FALSE /\ e.head = r /\ e.a = clone.a /\ e.b = r
BY DEF Clones, Files, TypeOK

(* Nothing there is a directory and a clone. *)
LEMMA NothingThere == NoDir \in Dirs /\ NoClone \in Clones
BY PatchesAssumption DEF NoDir, NoClone, Dirs, Clones, Files

-----------------------------------------------------------------------------
(* Nothing is there at first, and every tree is at rest. *)
LEMMA Initially == Init => IInv
<1> SUFFICES ASSUME Init PROVE IInv
  OBVIOUS
<1> USE ContentsAssumption, UrlCount
<1>1. TypeOK
  <2>1. good \in SUBSET (1..Len(Urls)) /\ published \subseteq Revisions
    BY DEF Init
  <2>2. tries \in [Trees -> 0..Rounds]
    BY RoundsBound DEF Init
  <2>3. url \in [Trees -> 1..Len(Urls)]
    BY DEF Init
  <2>4. dir \in [Trees -> Dirs] /\ clone \in Clones
    BY NothingThere DEF Init
  <2>5. kills \in 0..MaxKills /\ remains \subseteq Leavings
    BY KillsAssumption DEF Init
  <2>6. proven \in BOOLEAN
    BY DEF Init
  <2>7. /\ pc \in [Trees -> PCs] /\ kind \in Kinds /\ tarball \in Files \cup {Partial}
        /\ writers \subseteq Trees /\ pin \in [Trees -> Revisions \cup {None}]
        /\ verified \in [Trees -> BOOLEAN] /\ disturbed \in [Trees -> BOOLEAN]
        /\ vouched \in [Trees -> BOOLEAN] /\ found \in [Trees -> BOOLEAN]
    BY DEF Init, PCs, AtRestPCs, Files
  <2> QED BY <2>1, <2>2, <2>3, <2>4, <2>5, <2>6, <2>7 DEF TypeOK
<1>2. ASSUME NEW t \in Trees PROVE Local(t) /\ Vouched(t) /\ Known(t) /\ KnownClone(t)
  <2>1. /\ pc[t] = "idle" /\ url[t] = 1 /\ tries[t] = 0
        /\ verified[t] = FALSE /\ vouched[t] = FALSE
    BY DEF Init
  <2>2. Local(t)
    BY <2>1 DEF Local, Fetching, TarballPlaces, ClonePlaces, Cleared
  <2> QED BY <2>1, <2>2 DEF Vouched, Known, KnownClone, Cloning
<1>3. /\ CloneInv /\ WritersAtWork /\ RemainsAttended /\ AloneInCache /\ AloneAtClone
      /\ FetchInv
  <2>1. \A t \in Trees : pc[t] = "idle"
    BY DEF Init
  <2>2. /\ clone.head = None /\ clone.lock = FALSE /\ tarball = None /\ writers = {}
        /\ clone.state = "absent" /\ proven = FALSE
    BY DEF Init, NoClone
  <2>3. CloneInv
    BY <2>1, <2>2 DEF CloneInv
  <2>4. WritersAtWork /\ RemainsAttended /\ AloneInCache
    BY <2>1, <2>2 DEF WritersAtWork, RemainsAttended, AloneInCache, Unverified, Fetching
  <2>5. FetchInv
    BY <2>1 DEF FetchInv, Fetching
  <2>6. AloneAtClone
    BY <2>1 DEF AloneAtClone, Cloning
  <2> QED BY <2>3, <2>4, <2>5, <2>6
<1> QED BY <1>1, <1>2, <1>3 DEF IInv

(* A tree that is at work has a pin, and at most Attempts or Patches       *)
(* rounds behind it.                                                       *)
LEMMA Working ==
    ASSUME IInv, NEW t \in Trees
    PROVE  /\ pc[t] # "idle" => pin[t] \in Revisions
           /\ pin[t] # None => pin[t] \in Revisions /\ pin[t] \notin {Partial, Foreign}
BY ContentsAssumption DEF IInv, TypeOK, Local

(* Every step keeps the types. *)
LEMMA TypesKept == IInv /\ [Next]_vars => TypeOK'
<1> SUFFICES ASSUME IInv, [Next]_vars PROVE TypeOK'
  OBVIOUS
<1> USE DEF IInv, TypeOK, PCs, AtRestPCs, fixed, cache, loop, history, past
<1>1. CASE UNCHANGED vars
  BY <1>1 DEF vars
<1>2. ASSUME NEW r \in Revisions, Publish(r) PROVE TypeOK'
  BY <1>2 DEF Publish
<1>3. ASSUME NEW t \in Trees, NEW r \in Revisions, Start(t, r) PROVE TypeOK'
  <2>1. disturbed' \in [Trees -> BOOLEAN] /\ found' \in [Trees -> BOOLEAN]
    BY <1>3 DEF Start, InFlux
  <2> QED BY <1>3, <2>1 DEF Start, Goto
<1>4. ASSUME NEW t \in Trees, Kill(t) PROVE TypeOK'
  BY <1>4, UrlCount, RoundsBound, KillsAssumption DEF Kill, LeftBy, Settle, Goto
<1>5. ASSUME NEW t \in Trees, Stops(t) PROVE TypeOK'
  <2>1. Fatal(t)
    BY <1>5, StopsAreFatal
  <2> QED BY <2>1, UrlCount, RoundsBound DEF Fatal, Settle, Goto
<1>6. ASSUME NEW t \in Trees, RemoveSome(t) PROVE TypeOK'
  <2>1. PICK x \in {dir[t].a, None}, y \in {dir[t].b, None}, r \in {dir[t].stamp, None} :
             dir' = [dir EXCEPT ![t] = [@ EXCEPT !.a = x, !.b = y, !.stamp = r]]
    BY <1>6 DEF RemoveSome
  <2>2. x \in Files /\ y \in Files /\ r \in Revisions \cup {None}
    BY DEF IInv, TypeOK, Dirs, Files
  <2>3. dir' \in [Trees -> Dirs]
    BY <2>1, <2>2, RemovedSome DEF IInv
  <2> QED BY <1>6, <2>3 DEF RemoveSome, Goto
<1>7. ASSUME NEW t \in Trees, RemoveRest(t) PROVE TypeOK'
  BY <1>7, NothingThere DEF RemoveRest, Goto
<1>8. ASSUME NEW t \in Trees, Look(t) PROVE TypeOK'
  BY <1>8 DEF Look, Move, Goto
<1>9. ASSUME NEW t \in Trees, Hash(t) PROVE TypeOK'
  BY <1>9 DEF Hash, Prove, Verify, Goto
<1>10. ASSUME NEW t \in Trees, OpenForDownload(t) PROVE TypeOK'
  <2>1. tries' \in [Trees -> 0..Rounds]
    BY <1>10, RoundsBound, AttemptsAssumption DEF OpenForDownload, AttemptLeft
  <2> QED BY <1>10, <2>1 DEF OpenForDownload, Unproven, Disturb, Goto
<1>11. ASSUME NEW t \in Trees, Downloaded(t) PROVE TypeOK'
  <2>1. tarball' \in Files \cup {Partial}
    <3>1. Sends(url[t], pin[t]) \subseteq Files
      BY <1>11, Working DEF Downloaded, Sends, Files
    <3> QED BY <1>11, <3>1 DEF Downloaded, Files
  <2> QED BY <1>11, <2>1 DEF Downloaded, Disturb, Goto
<1>12. ASSUME NEW t \in Trees, DownloadFails(t) PROVE TypeOK'
  BY <1>12 DEF DownloadFails, Goto
<1>13. ASSUME NEW t \in Trees, Check(t) PROVE TypeOK'
  BY <1>13 DEF Check, Prove, Verify, Goto
<1>14. ASSUME NEW t \in Trees, CheckDiffers(t) PROVE TypeOK'
  BY <1>14 DEF CheckDiffers, Move, Goto
<1>15. ASSUME NEW t \in Trees, Discard(t) PROVE TypeOK'
  BY <1>15 DEF Discard, Unproven, Disturb, Goto, Files
<1>16. ASSUME NEW t \in Trees, NextUrl(t) PROVE TypeOK'
  BY <1>16, UrlCount, RoundsBound DEF NextUrl
<1>17. ASSUME NEW t \in Trees, Extract(t) PROVE TypeOK'
  <2>1. tarball \in Files
    BY <1>17 DEF Extract
  <2>2. dir' \in [Trees -> Dirs]
    BY <1>17, <2>1, FilledWhole DEF Extract, IInv
  <2> QED BY <1>17, <2>2, UrlCount, RoundsBound DEF Extract, Settle, Goto
<1>18. ASSUME NEW t \in Trees, CloneBegins(t) PROVE TypeOK'
  BY <1>18, CloneStarted DEF CloneBegins, Disturb, Goto
<1>19. ASSUME NEW t \in Trees, CloneEnds(t) PROVE TypeOK'
  <2>1. clone' \in Clones
    BY <1>19, CloneFilled DEF CloneEnds, IInv
  <2> QED BY <1>19, <2>1 DEF CloneEnds, Goto
<1>20. ASSUME NEW t \in Trees, CloneFails(t) PROVE TypeOK'
  BY <1>20, NothingThere, UrlCount, RoundsBound DEF CloneFails, Settle, Goto
<1>21. ASSUME NEW t \in Trees, Fetch(t) PROVE TypeOK'
  <2>1. clone' \in Clones
    BY <1>21, Working, CloneFetched DEF Fetch, IInv
  <2> QED BY <1>21, <2>1 DEF Fetch, Goto
<1>22. ASSUME NEW t \in Trees, Checkout(t) PROVE TypeOK'
  <2>1. clone' \in Clones
    BY <1>22, Working, CheckoutStarted DEF Checkout, IInv
  <2> QED BY <1>22, <2>1 DEF Checkout, Disturb, Goto
<1>23. ASSUME NEW t \in Trees, CheckoutEnds(t) PROVE TypeOK'
  <2>1. clone' \in Clones
    BY <1>23, Working, CheckoutEnded DEF CheckoutEnds, IInv
  <2> QED BY <1>23, <2>1 DEF CheckoutEnds, Disturb, Goto
<1>24. ASSUME NEW t \in Trees, RevParse(t) PROVE TypeOK'
  <2>1. disturbed' \in [Trees -> BOOLEAN]
    BY <1>24 DEF RevParse, HoldsPin
  <2> QED BY <1>24, <2>1 DEF RevParse, Goto
<1>25. ASSUME NEW t \in Trees, Copy(t) PROVE TypeOK'
  <2>1. clone.a \in Files
    BY DEF Clones
  <2>2. dir' \in [Trees -> Dirs]
    <3>1. CASE Present(t)
      BY <1>25, <3>1 DEF Copy
    <3>2. CASE ~Present(t)
      <4>1. dir' = [dir EXCEPT ![t].a = clone.a]
        BY <1>25, <3>2 DEF Copy
      <4> QED BY <2>1, <4>1, FilledFirst
    <3> QED BY <3>1, <3>2
  <2> QED BY <1>25, <2>2 DEF Copy, Goto
<1>26. ASSUME NEW t \in Trees, CopyRest(t) PROVE TypeOK'
  <2>1. clone.b \in Files
    BY DEF Clones
  <2>2. dir' \in [Trees -> Dirs]
    BY <1>26, <2>1, FilledSecond DEF CopyRest, IInv
  <2> QED BY <1>26, <2>2, UrlCount, RoundsBound DEF CopyRest, Settle, Goto
<1>27. ASSUME NEW t \in Trees, ApplyPatch(t) PROVE TypeOK'
  <2>1. tries[t] < Patches /\ dir[t].patches < Patches
    BY <1>27, PatchesAssumption DEF ApplyPatch, PatchCount
  <2>2. dir' \in [Trees -> Dirs]
    BY <1>27, <2>1, Patched DEF ApplyPatch, IInv
  <2>3. tries' \in [Trees -> 0..Rounds]
    BY <1>27, <2>1, RoundsBound, PatchesAssumption DEF ApplyPatch
  <2> QED BY <1>27, <2>2, <2>3 DEF ApplyPatch
<1>28. ASSUME NEW t \in Trees, Finish(t) PROVE TypeOK'
  <2>1. (IF Populates THEN pin[t] ELSE dir[t].stamp) \in Revisions \cup {None}
    BY DEF Dirs
  <2>2. dir' \in [Trees -> Dirs]
    BY <1>28, <2>1, Stamped DEF Finish, IInv
  <2> QED BY <1>28, <2>2, UrlCount, RoundsBound DEF Finish, Settle, Goto
<1>29. ASSUME NEW t \in Trees, ExtractAndCopy(t) PROVE TypeOK'
  <2>1. tarball \in Files
    BY <1>29 DEF ExtractAndCopy
  <2>2. dir' \in [Trees -> Dirs]
    BY <1>29, <2>1, FilledFirst DEF ExtractAndCopy, IInv
  <2> QED BY <1>29, <2>2, UrlCount, RoundsBound DEF ExtractAndCopy, Settle, Goto
<1>30. ASSUME NEW t \in Trees, ExtractRest(t) PROVE TypeOK'
  <2>1. dir[t].a \in Files
    BY DEF Dirs
  <2>2. dir' \in [Trees -> Dirs]
    BY <1>30, <2>1, FilledSecond DEF ExtractRest, IInv
  <2> QED BY <1>30, <2>2 DEF ExtractRest, Goto
<1> QED
  BY <1>1, <1>2, <1>3, <1>4, <1>5, <1>6, <1>7, <1>8, <1>9, <1>10, <1>11, <1>12, <1>13, <1>14,
     <1>15, <1>16, <1>17, <1>18, <1>19, <1>20, <1>21, <1>22, <1>23, <1>24, <1>25, <1>26,
     <1>27, <1>28, <1>29, <1>30 DEF Next, Step, Stops

-----------------------------------------------------------------------------
(* What a step of one tree leaves alone.                                   *)

StepOf(t) == (\E r \in Revisions : Start(t, r)) \/ Step(t) \/ Kill(t)

(* A step of t changes nothing that is another tree's own; it can only     *)
(* disturb it.                                                             *)
LEMMA OthersLeftAlone ==
    ASSUME IInv, NEW t \in Trees, NEW q \in Trees, q # t, StepOf(t)
    PROVE  /\ pc'[q] = pc[q] /\ pin'[q] = pin[q]
           /\ url'[q] = url[q] /\ tries'[q] = tries[q]
           /\ dir'[q] = dir[q]
           /\ verified'[q] = verified[q] /\ vouched'[q] = vouched[q]
           /\ disturbed[q] => disturbed'[q]
           /\ found'[q] = found[q]
           /\ kind' = kind /\ good' = good /\ published' = published
<1> USE DEF IInv, TypeOK, fixed, cache, loop, history, past
<1>1. ASSUME NEW r \in Revisions, Start(t, r)
      PROVE  /\ pc'[q] = pc[q] /\ pin'[q] = pin[q]
             /\ url'[q] = url[q] /\ tries'[q] = tries[q]
             /\ dir'[q] = dir[q]
             /\ verified'[q] = verified[q] /\ vouched'[q] = vouched[q]
             /\ disturbed[q] => disturbed'[q]
             /\ found'[q] = found[q]
             /\ kind' = kind /\ good' = good /\ published' = published
  BY <1>1 DEF Start, Goto
<1>2. CASE Kill(t)
  BY <1>2 DEF Kill, Goto, Settle
<1>3. CASE Stops(t)
  <2>1. Fatal(t)
    BY <1>3, StopsAreFatal
  <2> QED BY <2>1 DEF Fatal, Goto, Settle
<1>4. CASE RemoveSome(t)
  BY <1>4 DEF RemoveSome, Goto
<1>5. CASE RemoveRest(t)
  BY <1>5 DEF RemoveRest, Goto
<1>6. CASE Look(t)
  BY <1>6 DEF Look, Goto, Move
<1>7. CASE Hash(t)
  BY <1>7 DEF Hash, Goto, Prove, Verify
<1>8. CASE OpenForDownload(t)
  BY <1>8 DEF OpenForDownload, Goto, Disturb
<1>9. CASE Downloaded(t)
  BY <1>9 DEF Downloaded, Goto, Disturb
<1>10. CASE DownloadFails(t)
  BY <1>10 DEF DownloadFails, Goto
<1>11. CASE Check(t)
  BY <1>11 DEF Check, Goto, Prove, Verify
<1>12. CASE CheckDiffers(t)
  BY <1>12 DEF CheckDiffers, Goto, Move
<1>13. CASE Discard(t)
  BY <1>13 DEF Discard, Goto, Disturb
<1>14. CASE NextUrl(t)
  BY <1>14 DEF NextUrl
<1>15. CASE Extract(t)
  BY <1>15 DEF Extract, Goto, Settle
<1>16. CASE CloneBegins(t)
  BY <1>16 DEF CloneBegins, Goto, Disturb
<1>17. CASE CloneEnds(t)
  BY <1>17 DEF CloneEnds, Goto
<1>18. CASE CloneFails(t)
  BY <1>18 DEF CloneFails, Goto, Settle
<1>19. CASE Fetch(t)
  BY <1>19 DEF Fetch, Goto
<1>20. CASE Checkout(t)
  BY <1>20 DEF Checkout, Goto, Disturb
<1>21. CASE CheckoutEnds(t)
  BY <1>21 DEF CheckoutEnds, Goto, Disturb
<1>22. CASE RevParse(t)
  BY <1>22 DEF RevParse, Goto
<1>23. CASE Copy(t)
  BY <1>23 DEF Copy, Goto
<1>24. CASE CopyRest(t)
  BY <1>24 DEF CopyRest, Goto, Settle
<1>25. CASE ApplyPatch(t)
  BY <1>25 DEF ApplyPatch
<1>26. CASE Finish(t)
  BY <1>26 DEF Finish, Goto, Settle
<1>27. CASE ExtractAndCopy(t)
  BY <1>27 DEF ExtractAndCopy, Goto, Settle
<1>28. CASE ExtractRest(t)
  BY <1>28 DEF ExtractRest, Goto
<1> QED
  BY <1>1, <1>2, <1>3, <1>4, <1>5, <1>6, <1>7, <1>8, <1>9, <1>10, <1>11, <1>12, <1>13, <1>14,
     <1>15, <1>16, <1>17, <1>18, <1>19, <1>20, <1>21, <1>22, <1>23, <1>24, <1>25, <1>26,
     <1>27, <1>28 DEF StepOf, Step, Stops

(* An extracted source fills a directory that was empty. *)
LEMMA ExtractFills ==
    ASSUME IInv, NEW t \in Trees, Extract(t)
    PROVE  /\ dir'[t].a = tarball /\ dir'[t].b = tarball
           /\ dir'[t].patches = 0 /\ dir'[t].stamp = None
<1>1. TypeOK /\ tarball \in Files
  BY DEF Extract, IInv, TypeOK
<1>2. dir[t] = NoDir
  BY DEF Extract, IInv, Local, Cleared, TarballPlaces
<1>3. dir' = [dir EXCEPT ![t] = [@ EXCEPT !.a = tarball, !.b = tarball]]
  BY <1>2 DEF Extract, Present, NoDir
<1>4. /\ dir'[t].a = tarball /\ dir'[t].b = tarball
      /\ dir'[t].patches = dir[t].patches /\ dir'[t].stamp = dir[t].stamp
  BY <1>1, <1>3 DEF TypeOK, Dirs
<1> QED BY <1>2, <1>4 DEF NoDir

(* A copied source fills a directory that was empty, part by part. *)
LEMMA CopyFills ==
    ASSUME IInv, NEW t \in Trees
    PROVE  /\ Copy(t) => /\ dir'[t].a = clone.a /\ pc'[t] = "copy_rest"
                         /\ dir'[t].stamp = None
           /\ CopyRest(t) => /\ dir'[t].a = dir[t].a /\ dir'[t].b = clone.b
                             /\ dir'[t].patches = 0 /\ dir'[t].stamp = None
           /\ ExtractAndCopy(t) => /\ dir'[t].a = tarball /\ dir'[t].b = None
                                   /\ dir'[t].patches = 0 /\ dir'[t].stamp = None
           /\ ExtractRest(t) => /\ dir'[t].a = dir[t].a /\ dir'[t].b = dir[t].a
                                /\ dir'[t].patches = 0 /\ dir'[t].stamp = None
<1>1. TypeOK /\ clone.a \in Files /\ clone.b \in Files
  BY DEF IInv, TypeOK, Clones
<1>2. ASSUME Copy(t)
      PROVE  dir'[t].a = clone.a /\ pc'[t] = "copy_rest" /\ dir'[t].stamp = None
  <2>1. dir[t] = NoDir
    BY <1>2 DEF Copy, IInv, Local, Cleared, ClonePlaces
  <2>2. dir' = [dir EXCEPT ![t].a = clone.a] /\ Goto(t, "copy_rest")
    BY <1>2, <2>1 DEF Copy, Present, NoDir
  <2>3. dir'[t].a = clone.a /\ dir'[t].stamp = dir[t].stamp
    BY <1>1, <2>2, FilledFirst
  <2> QED BY <1>1, <2>1, <2>2, <2>3 DEF NoDir, Goto, TypeOK
<1>3. ASSUME CopyRest(t)
      PROVE  /\ dir'[t].a = dir[t].a /\ dir'[t].b = clone.b
             /\ dir'[t].patches = 0 /\ dir'[t].stamp = None
  <2>1. dir[t].patches = 0 /\ dir[t].stamp = None
    BY <1>3 DEF CopyRest, IInv, Local
  <2>2. dir' = [dir EXCEPT ![t].b = clone.b]
    BY <1>3 DEF CopyRest
  <2>3. /\ dir'[t].a = dir[t].a /\ dir'[t].b = clone.b
        /\ dir'[t].patches = dir[t].patches /\ dir'[t].stamp = dir[t].stamp
    BY <1>1, <2>2, FilledSecond
  <2> QED BY <2>1, <2>3
<1>4. ASSUME ExtractAndCopy(t)
      PROVE  /\ dir'[t].a = tarball /\ dir'[t].b = None
             /\ dir'[t].patches = 0 /\ dir'[t].stamp = None
  <2>1. dir[t] = NoDir /\ tarball \in Files
    BY <1>1, <1>4 DEF ExtractAndCopy, IInv, Local, Cleared, TarballPlaces, TypeOK
  <2>2. dir' = [dir EXCEPT ![t].a = tarball]
    BY <1>4 DEF ExtractAndCopy
  <2>3. /\ dir'[t].a = tarball /\ dir'[t].b = dir[t].b
        /\ dir'[t].patches = dir[t].patches /\ dir'[t].stamp = dir[t].stamp
    BY <1>1, <2>1, <2>2, FilledFirst
  <2> QED BY <2>1, <2>3 DEF NoDir
<1>5. ASSUME ExtractRest(t)
      PROVE  /\ dir'[t].a = dir[t].a /\ dir'[t].b = dir[t].a
             /\ dir'[t].patches = 0 /\ dir'[t].stamp = None
  <2>1. dir[t].patches = 0 /\ dir[t].stamp = None /\ dir[t].a \in Files
    BY <1>1, <1>5 DEF ExtractRest, IInv, Local, TypeOK, Dirs
  <2>2. dir' = [dir EXCEPT ![t].b = dir[t].a]
    BY <1>5 DEF ExtractRest
  <2>3. /\ dir'[t].a = dir[t].a /\ dir'[t].b = dir[t].a
        /\ dir'[t].patches = dir[t].patches /\ dir'[t].stamp = dir[t].stamp
    BY <1>1, <2>1, <2>2, FilledSecond
  <2> QED BY <2>1, <2>3
<1> QED BY <1>2, <1>3, <1>4, <1>5

(* What a tree knows of itself stays true while it works. *)
LEMMA LocalKept ==
    ASSUME IInv, TypeOK', NEW t \in Trees, StepOf(t)
    PROVE  Local(t)'
<1> USE DEF IInv, TypeOK, Local, Fetching, TarballPlaces, ClonePlaces, Cleared, IsGit,
        fixed, cache, loop, history, past
<1>1. ASSUME NEW r \in Revisions, Start(t, r) PROVE Local(t)'
  <2>1. /\ pc[t] \in AtRestPCs /\ pin'[t] = r /\ dir' = dir /\ tries' = tries /\ url' = url
        /\ kind' = kind /\ verified' = verified /\ pc'[t] \in {"done", "remove"}
        /\ r \in published /\ published' = published
    BY <1>1 DEF Start, Goto, AtRest
  <2> QED BY <2>1 DEF AtRestPCs
<1>2. CASE Kill(t)
  BY <1>2 DEF Kill, Goto, Settle
<1>3. CASE Stops(t)
  <2>1. Fatal(t) /\ ~AtRest(t)
    BY <1>3, StopsAreFatal
  <2> QED BY <2>1, ContentsAssumption DEF Fatal, Goto, Settle, AtRest, AtRestPCs
<1>4. CASE RemoveSome(t)
  BY <1>4 DEF RemoveSome, Goto
<1>5. CASE RemoveRest(t)
  BY <1>5 DEF RemoveRest, Goto
<1>6. CASE Look(t)
  <2>1. /\ pc[t] = "look" /\ kind' = kind /\ pin' = pin /\ dir' = dir /\ tries' = tries
        /\ url' = url /\ verified' = verified /\ kind \in AllKinds
        /\ published' = published
    BY <1>6, KindsAssumption DEF Look, Move
  <2>2. /\ pc'[t] \in {"clone", "fetch", "checkout", "download", "extract", "hash"}
        /\ pc'[t] \in {"clone", "fetch", "checkout"} <=> IsGit
        /\ pc'[t] = "fetch" => kind = "stage_git"
    BY <1>6, <2>1 DEF Look, Move, Goto, AllKinds
  <2> QED BY <2>1, <2>2, AttemptsAssumption
<1>7. CASE Hash(t)
  BY <1>7 DEF Hash, Goto, Prove, Verify
<1>8. CASE OpenForDownload(t)
  <2>1. /\ pc[t] = "download" /\ pc'[t] = "downloading" /\ kind' = kind /\ pin' = pin
        /\ dir' = dir /\ verified' = verified /\ tries'[t] = tries[t] + 1
        /\ tries[t] < Attempts /\ published' = published
    BY <1>8 DEF OpenForDownload, Goto, AttemptLeft
  <2>2. tries'[t] <= Attempts
    BY <2>1, RoundsBound, AttemptsAssumption
  <2> QED BY <2>1, <2>2
<1>9. CASE Downloaded(t)
  BY <1>9 DEF Downloaded, Goto
<1>10. CASE DownloadFails(t)
  BY <1>10 DEF DownloadFails, Goto
<1>11. CASE Check(t)
  BY <1>11 DEF Check, Goto, Prove, Verify
<1>12. CASE CheckDiffers(t)
  BY <1>12 DEF CheckDiffers, Goto, Move
<1>13. CASE Discard(t)
  BY <1>13 DEF Discard, Goto
<1>14. CASE NextUrl(t)
  <2>1. tries'[t] <= Attempts
    BY <1>14, AttemptsAssumption DEF NextUrl
  <2> QED BY <1>14, <2>1 DEF NextUrl
<1>15. CASE Extract(t)
  <2>1. dir'[t].patches = 0 /\ dir'[t].stamp = None
    BY <1>15, ExtractFills
  <2>2. 0 <= PatchCount
    BY PatchesAssumption DEF PatchCount
  <2>3. /\ pc[t] = "extract" /\ pc'[t] = "patch" /\ kind' = kind /\ pin' = pin
        /\ tries'[t] = 0 /\ ~verified'[t] /\ published' = published
    BY <1>15 DEF Extract, Goto, Settle
  <2> QED BY <2>1, <2>2, <2>3 DEF PatchCount
<1>16. CASE CloneBegins(t)
  BY <1>16 DEF CloneBegins, Goto
<1>17. CASE CloneEnds(t)
  BY <1>17 DEF CloneEnds, Goto
<1>18. CASE CloneFails(t)
  BY <1>18 DEF CloneFails, Goto, Settle
<1>19. CASE Fetch(t)
  BY <1>19 DEF Fetch, Goto
<1>20. CASE Checkout(t)
  BY <1>20 DEF Checkout, Goto
<1>21. CASE CheckoutEnds(t)
  BY <1>21 DEF CheckoutEnds, Goto
<1>22. CASE RevParse(t)
  BY <1>22 DEF RevParse, Goto
<1>23. CASE Copy(t)
  <2>1. dir[t] = NoDir /\ ~Present(t) /\ clone.a \in Files
    BY <1>23 DEF Copy, NoDir, Present, Clones
  <2>2. dir' = [dir EXCEPT ![t].a = clone.a] /\ pc'[t] = "copy_rest"
    BY <1>23, <2>1 DEF Copy, Goto
  <2>3. dir'[t].b = None /\ dir'[t].patches = 0 /\ dir'[t].stamp = None
    BY <2>1, <2>2, FilledFirst DEF NoDir
  <2> QED BY <1>23, <2>2, <2>3 DEF Copy
<1>24. CASE CopyRest(t)
  <2>1. dir' = [dir EXCEPT ![t].b = clone.b] /\ clone.b \in Files
    BY <1>24 DEF CopyRest, Clones
  <2>2. dir'[t].patches = 0 /\ dir'[t].stamp = None
    BY <1>24, <2>1, FilledSecond DEF CopyRest
  <2>3. 0 <= PatchCount
    BY PatchesAssumption DEF PatchCount
  <2>4. /\ pc[t] = "copy_rest" /\ pc'[t] = "patch" /\ kind' = kind /\ pin' = pin
        /\ tries'[t] = 0 /\ ~verified'[t] /\ published' = published
    BY <1>24 DEF CopyRest, Goto, Settle
  <2> QED BY <2>2, <2>3, <2>4 DEF PatchCount
<1>25. CASE ApplyPatch(t)
  <2>1. tries[t] < PatchCount /\ PatchCount \in 0..Patches /\ tries[t] \in Nat
    BY <1>25, RoundsBound, PatchesAssumption DEF ApplyPatch, PatchCount
  <2>2. dir' = [dir EXCEPT ![t].patches = @ + 1] /\ dir[t].patches < Patches
    BY <1>25, <2>1, PatchesAssumption DEF ApplyPatch
  <2>3. dir'[t].patches = dir[t].patches + 1 /\ dir'[t].stamp = dir[t].stamp
    BY <2>2, Patched
  <2>4. /\ pc[t] = "patch" /\ pc' = pc /\ kind' = kind /\ pin' = pin
        /\ tries'[t] = tries[t] + 1 /\ verified' = verified /\ published' = published
    BY <1>25 DEF ApplyPatch
  <2>5. tries'[t] <= PatchCount'
    BY <2>1, <2>4, PatchesAssumption DEF PatchCount
  <2> QED BY <2>3, <2>4, <2>5
<1>26. CASE Finish(t)
  BY <1>26 DEF Finish, Goto, Settle
<1>27. CASE ExtractAndCopy(t)
  <2>1. dir'[t].b = None /\ dir'[t].patches = 0 /\ dir'[t].stamp = None
    BY <1>27, CopyFills
  <2>2. /\ pc[t] = "extract" /\ pc'[t] = "extract_rest" /\ kind' = kind /\ pin' = pin
        /\ url'[t] = 1 /\ tries'[t] = 0 /\ ~verified'[t] /\ published' = published
        /\ kind = "stage_source"
    BY <1>27 DEF ExtractAndCopy, Goto, Settle
  <2> QED BY <2>1, <2>2
<1>28. CASE ExtractRest(t)
  <2>1. dir'[t].patches = 0 /\ dir'[t].stamp = None
    BY <1>28, CopyFills
  <2>2. 0 <= PatchCount
    BY PatchesAssumption DEF PatchCount
  <2>3. /\ pc[t] = "extract_rest" /\ pc'[t] = "patch" /\ kind' = kind /\ pin' = pin
        /\ tries'[t] = 0 /\ ~verified'[t] /\ published' = published
    BY <1>28 DEF ExtractRest, Goto
  <2> QED BY <2>1, <2>2, <2>3 DEF PatchCount
<1> QED
  BY <1>1, <1>2, <1>3, <1>4, <1>5, <1>6, <1>7, <1>8, <1>9, <1>10, <1>11, <1>12, <1>13, <1>14,
     <1>15, <1>16, <1>17, <1>18, <1>19, <1>20, <1>21, <1>22, <1>23, <1>24, <1>25, <1>26,
     <1>27, <1>28 DEF StepOf, Step, Stops

(* What a vouched directory holds is what its recipe pins. *)
LEMMA VouchedKept ==
    ASSUME IInv, TypeOK', NEW t \in Trees, StepOf(t)
    PROVE  Vouched(t)'
<1> USE DEF IInv, TypeOK, Local, Vouched, Whole, PatchCount, Populates, IsGit,
        fixed, cache, loop, history, past
<1>1. ASSUME NEW r \in Revisions, Start(t, r) PROVE Vouched(t)'
  <2>1. /\ dir' = dir /\ vouched' = vouched /\ pin'[t] = r /\ kind' = kind
        /\ pc'[t] \in {"done", "remove"} /\ (pc'[t] = "done" => dir[t].stamp = r)
    BY <1>1 DEF Start, Goto
  <2> QED BY <2>1, ContentsAssumption
<1>2. CASE Kill(t)
  BY <1>2 DEF Kill, Goto, Settle
<1>3. CASE Stops(t)
  <2>1. Fatal(t) /\ ~AtRest(t)
    BY <1>3, StopsAreFatal
  <2> QED BY <2>1 DEF Fatal, Goto, Settle, AtRest, AtRestPCs
<1>4. CASE RemoveSome(t)
  <2>1. ~vouched'[t]
    BY <1>4 DEF RemoveSome
  <2> QED BY <2>1
<1>5. CASE RemoveRest(t)
  BY <1>5 DEF RemoveRest, Goto, NoDir
<1>6. CASE Look(t)
  BY <1>6 DEF Look, Goto, Move
<1>7. CASE Hash(t)
  BY <1>7 DEF Hash, Goto, Prove, Verify
<1>8. CASE OpenForDownload(t)
  BY <1>8 DEF OpenForDownload, Goto
<1>9. CASE Downloaded(t)
  BY <1>9 DEF Downloaded, Goto
<1>10. CASE DownloadFails(t)
  BY <1>10 DEF DownloadFails, Goto
<1>11. CASE Check(t)
  BY <1>11 DEF Check, Goto, Prove, Verify
<1>12. CASE CheckDiffers(t)
  BY <1>12 DEF CheckDiffers, Goto, Move
<1>13. CASE Discard(t)
  BY <1>13 DEF Discard, Goto
<1>14. CASE NextUrl(t)
  BY <1>14 DEF NextUrl
<1>15. CASE Extract(t)
  <2>1. vouched'[t] => tarball = pin[t]
    BY <1>15 DEF Extract, Known, HoldsPin, TarballPlaces
  <2>2. /\ dir'[t].a = tarball /\ dir'[t].b = tarball
        /\ dir'[t].patches = 0 /\ dir'[t].stamp = None /\ pc'[t] = "patch" /\ pin' = pin
    BY <1>15, ExtractFills DEF Extract, Goto
  <2> QED BY <2>1, <2>2
<1>16. CASE CloneBegins(t)
  BY <1>16 DEF CloneBegins, Goto
<1>17. CASE CloneEnds(t)
  BY <1>17 DEF CloneEnds, Goto
<1>18. CASE CloneFails(t)
  BY <1>18 DEF CloneFails, Goto, Settle
<1>19. CASE Fetch(t)
  BY <1>19 DEF Fetch, Goto
<1>20. CASE Checkout(t)
  BY <1>20 DEF Checkout, Goto
<1>21. CASE CheckoutEnds(t)
  BY <1>21 DEF CheckoutEnds, Goto
<1>22. CASE RevParse(t)
  BY <1>22 DEF RevParse, Goto
<1>23. CASE Copy(t)
  <2>1. dir'[t].stamp = None /\ pc'[t] = "copy_rest"
    BY <1>23, CopyFills
  <2> QED BY <2>1
<1>24. CASE CopyRest(t)
  <2>1. vouched'[t] => dir[t].a = pin[t] /\ clone.b = pin[t]
    BY <1>24 DEF CopyRest, Known, HoldsPin, ClonePlaces
  <2>2. /\ dir'[t].a = dir[t].a /\ dir'[t].b = clone.b
        /\ dir'[t].patches = 0 /\ dir'[t].stamp = None /\ pc'[t] = "patch" /\ pin' = pin
    BY <1>24, CopyFills DEF CopyRest, Goto
  <2> QED BY <2>1, <2>2
<1>25. CASE ApplyPatch(t)
  <2>1. tries[t] < PatchCount /\ PatchCount \in 0..Patches /\ tries[t] \in Nat
    BY <1>25, RoundsBound, PatchesAssumption DEF ApplyPatch
  <2>2. dir' = [dir EXCEPT ![t].patches = @ + 1] /\ dir[t].patches < Patches
    BY <1>25, <2>1, PatchesAssumption DEF ApplyPatch
  <2>3. dir'[t].a = dir[t].a /\ dir'[t].b = dir[t].b /\ dir'[t].stamp = dir[t].stamp
    BY <2>2, Patched
  <2>4. /\ pc[t] = "patch" /\ pc'[t] = "patch" /\ pin' = pin /\ vouched' = vouched
        /\ dir[t].stamp = None
    BY <1>25 DEF ApplyPatch
  <2> QED BY <2>3, <2>4
<1>26. CASE Finish(t)
  <2> DEFINE r == IF Populates THEN pin[t] ELSE dir[t].stamp
  <2>1. /\ pc[t] = "patch" /\ pc'[t] = "done" /\ pin' = pin /\ vouched' = vouched
        /\ kind' = kind /\ dir[t].stamp = None /\ dir[t].patches = PatchCount
    BY <1>26 DEF Finish, Goto
  <2>2. dir' = [dir EXCEPT ![t].stamp = r] /\ r \in Revisions \cup {None}
    <3>1. dir[t].stamp \in Revisions \cup {None}
      BY DEF Dirs
    <3> QED BY <1>26, <3>1 DEF Finish
  <2>3. /\ dir'[t].a = dir[t].a /\ dir'[t].b = dir[t].b
        /\ dir'[t].patches = dir[t].patches /\ dir'[t].stamp = r
    BY <2>2, Stamped
  <2>4. r = pin[t] \/ r = None
    BY <2>1
  <2> HIDE DEF r
  <2> QED BY <2>1, <2>3, <2>4
<1>27. CASE ExtractAndCopy(t)
  <2>1. vouched'[t] => tarball = pin[t]
    BY <1>27 DEF ExtractAndCopy, Known, HoldsPin, TarballPlaces
  <2>2. /\ dir'[t].a = tarball /\ dir'[t].stamp = None
        /\ pc'[t] = "extract_rest" /\ pin' = pin
    BY <1>27, CopyFills DEF ExtractAndCopy, Goto
  <2> QED BY <2>1, <2>2
<1>28. CASE ExtractRest(t)
  <2>1. /\ dir'[t].a = dir[t].a /\ dir'[t].b = dir[t].a
        /\ dir'[t].patches = 0 /\ dir'[t].stamp = None /\ pc[t] = "extract_rest"
        /\ pc'[t] = "patch" /\ pin' = pin /\ vouched' = vouched
    BY <1>28, CopyFills DEF ExtractRest, Goto
  <2> QED BY <2>1
<1> QED
  BY <1>1, <1>2, <1>3, <1>4, <1>5, <1>6, <1>7, <1>8, <1>9, <1>10, <1>11, <1>12, <1>13, <1>14,
     <1>15, <1>16, <1>17, <1>18, <1>19, <1>20, <1>21, <1>22, <1>23, <1>24, <1>25, <1>26,
     <1>27, <1>28 DEF StepOf, Step, Stops

(* A change of the cache leaves a tree that depends on it undisturbed only *)
(* if it finds its pin there.                                              *)
LEMMA DisturbedUnless ==
    ASSUME NEW t \in Trees, NEW q \in Trees, q # t, Disturb(t)
    PROVE  Depends(q) /\ ~disturbed'[q] => HoldsPin(q)'
BY DEF Disturb

(* What an undisturbed tree knows of the cache, other trees let stand. *)
LEMMA KnownToOthersKept ==
    ASSUME IInv, TypeOK', NEW t \in Trees, NEW q \in Trees, q # t, StepOf(t)
    PROVE  Known(q)'
<1> USE DEF Known, HoldsPin, IsGit, fixed, cache, loop, history, past
<1>0. /\ pc'[q] = pc[q] /\ pin'[q] = pin[q] /\ dir'[q] = dir[q] /\ url'[q] = url[q]
      /\ tries'[q] = tries[q] /\ verified'[q] = verified[q]
      /\ disturbed[q] => disturbed'[q]
      /\ kind' = kind /\ good' = good
  BY OthersLeftAlone
<1>a. Known(q)
  BY DEF IInv
<1>1. ASSUME NEW r \in Revisions, Start(t, r) PROVE Known(q)'
  BY <1>1, <1>0, <1>a DEF Start, Goto
<1>2. CASE Kill(t)
  BY <1>2, <1>0, <1>a DEF Kill, Goto, Settle
<1>3. CASE Stops(t)
  <2>1. Fatal(t) /\ ~AtRest(t)
    BY <1>3, StopsAreFatal
  <2> QED BY <2>1, <1>0, <1>a DEF Fatal, Goto, Settle
<1>4. CASE RemoveSome(t)
  BY <1>4, <1>0, <1>a DEF RemoveSome, Goto
<1>5. CASE RemoveRest(t)
  BY <1>5, <1>0, <1>a DEF RemoveRest, Goto
<1>6. CASE Look(t)
  BY <1>6, <1>0, <1>a DEF Look, Goto, Move
<1>7. CASE Hash(t)
  BY <1>7, <1>0, <1>a DEF Hash, Goto, Prove, Verify
<1>8. CASE OpenForDownload(t)
  <2>1. ~IsGit /\ clone' = clone
    BY <1>8 DEF OpenForDownload, IInv, Local, TarballPlaces, Fetching
  <2>2. ~disturbed'[q] /\ pc[q] \in {"hash", "downloading", "check", "extract"} => tarball' = pin[q]
    <3>1. pc[q] \in {"hash", "downloading", "check", "extract"} => Depends(q)
      BY DEF Depends, AtRest, AtRestPCs
    <3>2. Disturb(t)
      BY <1>8 DEF OpenForDownload
    <3> QED BY <1>0, <2>1, <3>1, <3>2, DisturbedUnless
  <2>3. pc[q] \in {"hash", "downloading", "check", "extract"} => pin[q] # None
    BY ContentsAssumption DEF IInv, Local
  <2>4. verified[q] => pc[q] \in {"extract", "copy", "copy_rest"}
    BY DEF IInv, Local
  <2>5. pc[q] \notin ClonePlaces
    BY <2>1 DEF IInv, Local
  <2> QED BY <1>0, <2>1, <2>2, <2>3, <2>4, <2>5 DEF ClonePlaces
<1>9. CASE Downloaded(t)
  <2>1. ~IsGit /\ clone' = clone
    BY <1>9 DEF Downloaded, IInv, Local, TarballPlaces, Fetching
  <2>2. ~disturbed'[q] /\ pc[q] \in {"hash", "downloading", "check", "extract"} => tarball' = pin[q]
    <3>1. pc[q] \in {"hash", "downloading", "check", "extract"} => Depends(q)
      BY DEF Depends, AtRest, AtRestPCs
    <3>2. Disturb(t)
      BY <1>9 DEF Downloaded
    <3> QED BY <1>0, <2>1, <3>1, <3>2, DisturbedUnless
  <2>3. pc[q] \in {"hash", "downloading", "check", "extract"} => pin[q] # None
    BY ContentsAssumption DEF IInv, Local
  <2>4. verified[q] => pc[q] \in {"extract", "copy", "copy_rest"}
    BY DEF IInv, Local
  <2>5. pc[q] \notin ClonePlaces
    BY <2>1 DEF IInv, Local
  <2> QED BY <1>0, <2>1, <2>2, <2>3, <2>4, <2>5 DEF ClonePlaces
<1>10. CASE DownloadFails(t)
  BY <1>10, <1>0, <1>a DEF DownloadFails, Goto
<1>11. CASE Check(t)
  BY <1>11, <1>0, <1>a DEF Check, Goto, Prove, Verify
<1>12. CASE CheckDiffers(t)
  BY <1>12, <1>0, <1>a DEF CheckDiffers, Goto, Move
<1>13. CASE Discard(t)
  <2>1. ~IsGit /\ clone' = clone
    BY <1>13 DEF Discard, IInv, Local, TarballPlaces, Fetching
  <2>2. ~disturbed'[q] /\ pc[q] \in {"hash", "downloading", "check", "extract"} => tarball' = pin[q]
    <3>1. pc[q] \in {"hash", "downloading", "check", "extract"} => Depends(q)
      BY DEF Depends, AtRest, AtRestPCs
    <3>2. Disturb(t)
      BY <1>13 DEF Discard
    <3> QED BY <1>0, <2>1, <3>1, <3>2, DisturbedUnless
  <2>3. pc[q] \in {"hash", "downloading", "check", "extract"} => pin[q] # None
    BY ContentsAssumption DEF IInv, Local
  <2>4. verified[q] => pc[q] \in {"extract", "copy", "copy_rest"}
    BY DEF IInv, Local
  <2>5. pc[q] \notin ClonePlaces
    BY <2>1 DEF IInv, Local
  <2> QED BY <1>0, <2>1, <2>2, <2>3, <2>4, <2>5 DEF ClonePlaces
<1>14. CASE NextUrl(t)
  BY <1>14, <1>0, <1>a DEF NextUrl
<1>15. CASE Extract(t)
  BY <1>15, <1>0, <1>a DEF Extract, Goto, Settle
<1>16. CASE CloneBegins(t)
  <2>1. IsGit /\ tarball' = tarball
    BY <1>16 DEF CloneBegins, IInv, Local, ClonePlaces
  <2>2. clone.state = "absent"
    BY <1>16 DEF CloneBegins
  <2>3. Disturb(t)
    BY <1>16 DEF CloneBegins
  <2>4. ~disturbed'[q] /\ pc[q] \in {"rev_parse", "copy", "copy_rest"} => HoldsPin(q)'
    <3>1. pc[q] \in {"rev_parse", "copy", "copy_rest"} => Depends(q)
      BY DEF Depends, AtRest, AtRestPCs
    <3> QED BY <2>3, <3>1, DisturbedUnless
  <2>5. verified[q] => pc[q] \in {"extract", "copy", "copy_rest"}
    BY DEF IInv, Local
  <2>6. pc[q] \notin TarballPlaces
    BY <2>1 DEF IInv, Local
  <2>7. Known(q)
    BY DEF IInv
  <2> QED BY <1>0, <2>1, <2>2, <2>4, <2>5, <2>6, <2>7 DEF TarballPlaces, Fetching
<1>17. CASE CloneEnds(t)
  <2>1. IsGit /\ tarball' = tarball /\ clone.state = "begun" /\ clone.head = None
    BY <1>17 DEF CloneEnds, IInv, CloneInv, Local, ClonePlaces
  <2>2. Known(q) /\ (pc[q] # "idle" => pin[q] # None)
    BY ContentsAssumption DEF IInv, Local
  <2>3. pc[q] \notin TarballPlaces
    BY <2>1 DEF IInv, Local
  <2>4. verified[q] => pc[q] \in {"extract", "copy", "copy_rest"}
    BY DEF IInv, Local
  <2> QED BY <1>0, <2>1, <2>2, <2>3, <2>4 DEF TarballPlaces, Fetching
<1>18. CASE CloneFails(t)
  <2>1. IsGit /\ tarball' = tarball /\ clone.state = "begun" /\ clone.head = None
    BY <1>18 DEF CloneFails, IInv, CloneInv, Local, ClonePlaces
  <2>2. Known(q) /\ (pc[q] # "idle" => pin[q] # None)
    BY ContentsAssumption DEF IInv, Local
  <2>3. pc[q] \notin TarballPlaces
    BY <2>1 DEF IInv, Local
  <2>4. verified[q] => pc[q] \in {"extract", "copy", "copy_rest"}
    BY DEF IInv, Local
  <2> QED BY <1>0, <2>1, <2>2, <2>3, <2>4 DEF TarballPlaces, Fetching
<1>19. CASE Fetch(t)
  <2>1. tarball' = tarball /\ disturbed' = disturbed
    BY <1>19 DEF Fetch
  <2>2. /\ clone'.state = clone.state /\ clone'.head = clone.head
        /\ clone'.a = clone.a /\ clone'.b = clone.b /\ clone.has \subseteq clone'.has
    BY <1>19, Working, CloneFetched DEF Fetch, IInv
  <2>3. Known(q)
    BY DEF IInv
  <2> QED BY <1>0, <2>1, <2>2, <2>3
<1>20. CASE Checkout(t)
  <2>1. IsGit /\ tarball' = tarball
    BY <1>20 DEF Checkout, IInv, Local, ClonePlaces
  <2>2. clone'.state = clone.state /\ clone'.has = clone.has
    <3>1. TypeOK /\ pin[t] \in Revisions /\ clone' = [clone EXCEPT !.lock = TRUE, !.a = pin[t]]
      BY <1>20, Working DEF Checkout, IInv
    <3> QED BY <3>1, CheckoutStarted
  <2>3. Disturb(t)
    BY <1>20 DEF Checkout
  <2>4. ~disturbed'[q] /\ pc[q] \in {"rev_parse", "copy", "copy_rest"} => HoldsPin(q)'
    <3>1. pc[q] \in {"rev_parse", "copy", "copy_rest"} => Depends(q)
      BY DEF Depends, AtRest, AtRestPCs
    <3> QED BY <2>3, <3>1, DisturbedUnless
  <2>5. verified[q] => pc[q] \in {"extract", "copy", "copy_rest"}
    BY DEF IInv, Local
  <2>6. pc[q] \notin TarballPlaces
    BY <2>1 DEF IInv, Local
  <2>7. Known(q)
    BY DEF IInv
  <2> QED BY <1>0, <2>1, <2>2, <2>4, <2>5, <2>6, <2>7 DEF TarballPlaces, Fetching
<1>21. CASE CheckoutEnds(t)
  <2>1. IsGit /\ tarball' = tarball
    BY <1>21 DEF CheckoutEnds, IInv, Local, ClonePlaces
  <2>2. clone'.state = clone.state /\ clone'.has = clone.has
    BY <1>21, Working, CheckoutEnded DEF CheckoutEnds, IInv
  <2>3. Disturb(t)
    BY <1>21 DEF CheckoutEnds
  <2>4. ~disturbed'[q] /\ pc[q] \in {"rev_parse", "copy", "copy_rest"} => HoldsPin(q)'
    <3>1. pc[q] \in {"rev_parse", "copy", "copy_rest"} => Depends(q)
      BY DEF Depends, AtRest, AtRestPCs
    <3> QED BY <2>3, <3>1, DisturbedUnless
  <2>5. verified[q] => pc[q] \in {"extract", "copy", "copy_rest"}
    BY DEF IInv, Local
  <2>6. pc[q] \notin TarballPlaces
    BY <2>1 DEF IInv, Local
  <2>7. Known(q)
    BY DEF IInv
  <2> QED BY <1>0, <2>1, <2>2, <2>4, <2>5, <2>6, <2>7 DEF TarballPlaces, Fetching
<1>22. CASE RevParse(t)
  BY <1>22, <1>0, <1>a DEF RevParse, Goto
<1>23. CASE Copy(t)
  BY <1>23, <1>0, <1>a DEF Copy, Goto
<1>24. CASE CopyRest(t)
  BY <1>24, <1>0, <1>a DEF CopyRest, Goto, Settle
<1>25. CASE ApplyPatch(t)
  BY <1>25, <1>0, <1>a DEF ApplyPatch
<1>26. CASE Finish(t)
  BY <1>26, <1>0, <1>a DEF Finish, Goto, Settle
<1>27. CASE ExtractAndCopy(t)
  BY <1>27, <1>0, <1>a DEF ExtractAndCopy, Goto, Settle
<1>28. CASE ExtractRest(t)
  BY <1>28, <1>0, <1>a DEF ExtractRest, Goto
<1> QED
  BY <1>1, <1>2, <1>3, <1>4, <1>5, <1>6, <1>7, <1>8, <1>9, <1>10, <1>11, <1>12, <1>13, <1>14,
     <1>15, <1>16, <1>17, <1>18, <1>19, <1>20, <1>21, <1>22, <1>23, <1>24, <1>25, <1>26,
     <1>27, <1>28 DEF StepOf, Step, Stops

(* What an undisturbed tree knows of the cache, its own steps let stand. *)
LEMMA KnownKept ==
    ASSUME IInv, TypeOK', NEW t \in Trees, StepOf(t)
    PROVE  Known(t)'
<1> USE DEF Known, HoldsPin, IsGit, fixed, cache, loop, history, past
<1>a. /\ Known(t) /\ Local(t)
      /\ pc[t] # "idle" => pin[t] # None
      /\ verified[t] => pc[t] \in {"extract", "copy", "copy_rest"}
      /\ pc[t] \in TarballPlaces => ~IsGit
      /\ pc[t] \in ClonePlaces => IsGit
      /\ pc \in [Trees -> PCs] /\ verified \in [Trees -> BOOLEAN]
      /\ disturbed \in [Trees -> BOOLEAN] /\ dir \in [Trees -> Dirs]
  BY ContentsAssumption DEF IInv, Local, TypeOK
<1>1. ASSUME NEW r \in Revisions, Start(t, r) PROVE Known(t)'
  BY <1>1, <1>a, ContentsAssumption DEF Start, Goto, AtRest, AtRestPCs
<1>2. CASE Kill(t)
  BY <1>2, <1>a, ContentsAssumption DEF Kill, Goto, Settle
<1>3. CASE Stops(t)
  <2>1. Fatal(t) /\ ~AtRest(t)
    BY <1>3, StopsAreFatal
  <2> QED BY <2>1, <1>a DEF Fatal, Goto, Settle
<1>4. CASE RemoveSome(t)
  BY <1>4, <1>a, ContentsAssumption DEF RemoveSome, Goto, TarballPlaces, Fetching, ClonePlaces
<1>5. CASE RemoveRest(t)
  BY <1>5, <1>a, ContentsAssumption DEF RemoveRest, Goto, TarballPlaces, Fetching, ClonePlaces
<1>6. CASE Look(t)
  BY <1>6, <1>a, ContentsAssumption DEF Look, Goto, Move, TarballPlaces, Fetching, ClonePlaces
<1>7. CASE Hash(t)
  BY <1>7, <1>a, ContentsAssumption DEF Hash, Goto, Prove, Verify, Matches, TarballPlaces, Fetching,
     ClonePlaces
<1>8. CASE OpenForDownload(t)
  BY <1>8, <1>a, ContentsAssumption DEF OpenForDownload, Goto, Disturb, TarballPlaces,
     Fetching, ClonePlaces
<1>9. CASE Downloaded(t)
  <2>1. /\ pc[t] = "downloading" /\ pc'[t] = "check" /\ disturbed'[t] = disturbed[t]
        /\ ~IsGit /\ kind' = kind /\ ~verified[t] /\ verified' = verified
    BY <1>9, <1>a DEF Downloaded, Goto, Disturb, TarballPlaces, Fetching
  <2>2. ~disturbed[t] => tarball' # None
    <3>1. ~disturbed[t] => t \in writers
      BY <2>1 DEF IInv, WritersAtWork
    <3>2. None \notin Sends(url[t], pin[t]) \cup {Foreign}
      BY <2>1, <1>a, ContentsAssumption DEF Sends
    <3> QED BY <1>9, <3>1, <3>2 DEF Downloaded
  <2> QED BY <2>1, <2>2
<1>10. CASE DownloadFails(t)
  BY <1>10, <1>a, ContentsAssumption DEF DownloadFails, Goto, TarballPlaces, Fetching,
     ClonePlaces
<1>11. CASE Check(t)
  BY <1>11, <1>a, ContentsAssumption DEF Check, Goto, Prove, Verify, Matches, TarballPlaces,
     Fetching, ClonePlaces
<1>12. CASE CheckDiffers(t)
  BY <1>12, <1>a, ContentsAssumption DEF CheckDiffers, Goto, Move, Matches, TarballPlaces,
     Fetching, ClonePlaces
<1>13. CASE Discard(t)
  BY <1>13, <1>a, ContentsAssumption DEF Discard, Goto, Disturb, TarballPlaces, Fetching,
     ClonePlaces
<1>14. CASE NextUrl(t)
  BY <1>14, <1>a, ContentsAssumption DEF NextUrl, TarballPlaces, Fetching, ClonePlaces
<1>15. CASE Extract(t)
  BY <1>15, <1>a, ContentsAssumption DEF Extract, Goto, Settle, TarballPlaces, Fetching,
     ClonePlaces
<1>16. CASE CloneBegins(t)
  BY <1>16, <1>a, ContentsAssumption DEF CloneBegins, Goto, Disturb, TarballPlaces, Fetching,
     ClonePlaces
<1>17. CASE CloneEnds(t)
  <2>1. /\ IsGit /\ ~verified[t] /\ verified' = verified /\ kind' = kind
        /\ pc'[t] = IF kind = "git" THEN "checkout" ELSE "fetch"
    BY <1>17, <1>a DEF CloneEnds, Goto, ClonePlaces
  <2> QED BY <2>1
<1>18. CASE CloneFails(t)
  BY <1>18, <1>a, ContentsAssumption DEF CloneFails, Goto, Settle, TarballPlaces, Fetching,
     ClonePlaces
<1>19. CASE Fetch(t)
  <2>1. /\ pc'[t] = "checkout" /\ ~verified[t] /\ verified' = verified /\ clone.state = "whole"
        /\ clone' = [clone EXCEPT !.has = @ \cup {pin[t]}] /\ pin' = pin
        /\ TypeOK /\ pin[t] \in Revisions
    BY <1>19, <1>a, Working DEF Fetch, Goto, IInv
  <2>2. clone'.state = clone.state /\ clone'.has = clone.has \cup {pin[t]}
    BY <2>1, CloneFetched
  <2> QED BY <2>1, <2>2
<1>20. CASE Checkout(t)
  <2>1. /\ pc'[t] = "checking_out" /\ ~verified[t] /\ verified' = verified /\ clone.state = "whole"
        /\ clone' = [clone EXCEPT !.lock = TRUE, !.a = pin[t]]
        /\ TypeOK /\ pin[t] \in Revisions
    BY <1>20, <1>a, Working DEF Checkout, Goto, IInv
  <2>2. clone'.state = "whole"
    BY <2>1, CheckoutStarted
  <2> QED BY <2>1, <2>2
<1>21. CASE CheckoutEnds(t)
  <2>1. /\ pc'[t] = "rev_parse" /\ ~verified[t] /\ verified' = verified /\ pin' = pin
        /\ clone.state = "whole"
        /\ clone' = [clone EXCEPT !.lock = FALSE, !.b = pin[t], !.head = pin[t]]
        /\ TypeOK /\ pin[t] \in Revisions
    BY <1>21, <1>a, Working DEF CheckoutEnds, Goto, IInv
  <2>2. clone'.state = "whole" /\ clone'.head = pin[t]
    BY <2>1, CheckoutEnded
  <2> QED BY <2>1, <2>2
<1>22. CASE RevParse(t)
  <2>1. /\ pc[t] = "rev_parse" /\ pc'[t] = "copy" /\ IsGit /\ clone.state = "whole"
        /\ disturbed'[t] = ~HoldsPin(t)
    BY <1>22, <1>a DEF RevParse, Goto, ClonePlaces
  <2>2. clone' = clone /\ tarball' = tarball /\ pin' = pin /\ kind' = kind
    BY <1>22 DEF RevParse
  <2> QED BY <2>1, <2>2
<1>23. CASE Copy(t)
  <2>1. /\ pc[t] = "copy" /\ pc'[t] = "copy_rest" /\ dir'[t].a = clone.a /\ IsGit
    BY <1>23, <1>a, CopyFills DEF Copy, ClonePlaces
  <2>2. /\ clone' = clone /\ tarball' = tarball /\ pin' = pin /\ verified' = verified
        /\ disturbed' = disturbed /\ kind' = kind
    BY <1>23 DEF Copy
  <2> QED BY <2>1, <2>2, <1>a
<1>24. CASE CopyRest(t)
  BY <1>24, <1>a, ContentsAssumption DEF CopyRest, Goto, Settle, TarballPlaces, Fetching,
     ClonePlaces
<1>25. CASE ApplyPatch(t)
  BY <1>25, <1>a, ContentsAssumption DEF ApplyPatch, TarballPlaces, Fetching, ClonePlaces
<1>26. CASE Finish(t)
  BY <1>26, <1>a, ContentsAssumption DEF Finish, Goto, Settle, TarballPlaces, Fetching,
     ClonePlaces
<1>27. CASE ExtractAndCopy(t)
  BY <1>27, <1>a, ContentsAssumption DEF ExtractAndCopy, Goto, Settle, TarballPlaces, Fetching,
     ClonePlaces
<1>28. CASE ExtractRest(t)
  BY <1>28, <1>a, ContentsAssumption DEF ExtractRest, Goto, TarballPlaces, Fetching,
     ClonePlaces
<1> QED
  BY <1>1, <1>2, <1>3, <1>4, <1>5, <1>6, <1>7, <1>8, <1>9, <1>10, <1>11, <1>12, <1>13, <1>14,
     <1>15, <1>16, <1>17, <1>18, <1>19, <1>20, <1>21, <1>22, <1>23, <1>24, <1>25, <1>26,
     <1>27, <1>28 DEF StepOf, Step, Stops

(* One process clones, and what is begun or locked is its or that of a     *)
(* kill.                                                                   *)
LEMMA CloneKept ==
    ASSUME IInv, TypeOK', NEW t \in Trees, StepOf(t)
    PROVE  CloneInv'
<1> USE DEF CloneInv, fixed, cache, loop, history, past
<1>a. CloneInv /\ pc \in [Trees -> PCs] /\ clone \in Clones
  BY DEF IInv, TypeOK
<1>1. ASSUME NEW r \in Revisions, Start(t, r) PROVE CloneInv'
  BY <1>1, <1>a DEF Start, Goto, AtRest, AtRestPCs
<1>2. CASE Kill(t)
  <2>1. /\ clone' = clone /\ pc' = [pc EXCEPT ![t] = "idle"]
        /\ remains \subseteq remains'
        /\ pc[t] = "cloning" => "clone" \in remains'
        /\ pc[t] = "checking_out" => "lock" \in remains'
    BY <1>2 DEF Kill, Goto, LeftBy, Leavings
  <2> QED BY <2>1, <1>a
<1>3. CASE Stops(t)
  <2>1. Fatal(t) /\ ~AtRest(t)
    BY <1>3, StopsAreFatal
  <2>2. pc[t] # "checking_out" /\ pc[t] # "cloning"
    BY <1>3, StopsAreFatal
  <2> QED BY <2>1, <2>2, <1>a DEF Fatal, Goto, Settle
<1>4. CASE RemoveSome(t)
  BY <1>4, <1>a DEF RemoveSome, Goto
<1>5. CASE RemoveRest(t)
  BY <1>5, <1>a DEF RemoveRest, Goto
<1>6. CASE Look(t)
  BY <1>6, <1>a DEF Look, Goto, Move
<1>7. CASE Hash(t)
  BY <1>7, <1>a DEF Hash, Goto, Prove, Verify
<1>8. CASE OpenForDownload(t)
  BY <1>8, <1>a DEF OpenForDownload, Unproven, Goto
<1>9. CASE Downloaded(t)
  BY <1>9, <1>a DEF Downloaded, Goto
<1>10. CASE DownloadFails(t)
  BY <1>10, <1>a DEF DownloadFails, Goto
<1>11. CASE Check(t)
  BY <1>11, <1>a DEF Check, Goto, Prove, Verify
<1>12. CASE CheckDiffers(t)
  BY <1>12, <1>a DEF CheckDiffers, Goto, Move
<1>13. CASE Discard(t)
  BY <1>13, <1>a DEF Discard, Unproven, Goto
<1>14. CASE NextUrl(t)
  BY <1>14, <1>a DEF NextUrl
<1>15. CASE Extract(t)
  BY <1>15, <1>a DEF Extract, Goto, Settle
<1>16. CASE CloneBegins(t)
  <2>1. /\ clone.state = "absent" /\ clone'.state = "begun"
        /\ clone'.head = None /\ clone'.lock = FALSE
    BY <1>16, CloneStarted DEF CloneBegins
  <2>2. \A q \in Trees : pc[q] # "cloning"
    BY <1>a, <2>1
  <2>3. pc' = [pc EXCEPT ![t] = "cloning"]
    BY <1>16 DEF CloneBegins, Goto
  <2> QED BY <1>a, <2>1, <2>2, <2>3
<1>17. CASE CloneEnds(t)
  <2>1. clone'.state = "whole" /\ clone'.lock = FALSE
    BY <1>17, CloneFilled DEF CloneEnds, IInv
  <2>2. \A q \in Trees : pc'[q] # "cloning"
    BY <1>17, <1>a DEF CloneEnds, Goto
  <2> QED BY <2>1, <2>2
<1>18. CASE CloneFails(t)
  <2>1. clone'.head = None /\ clone'.lock = FALSE /\ clone'.state = "absent"
    BY <1>18 DEF CloneFails, NoClone
  <2>2. \A q \in Trees : pc'[q] # "cloning"
    BY <1>18, <1>a DEF CloneFails, Goto
  <2> QED BY <2>1, <2>2
<1>19. CASE Fetch(t)
  <2>1. TypeOK /\ pin[t] \in Revisions /\ clone' = [clone EXCEPT !.has = @ \cup {pin[t]}]
    BY <1>19, Working DEF Fetch, IInv
  <2>2. /\ clone'.state = clone.state /\ clone'.head = clone.head /\ clone'.lock = clone.lock
    BY <2>1, CloneFetched
  <2> QED BY <1>19, <1>a, <2>2 DEF Fetch, Goto
<1>20. CASE Checkout(t)
  <2>1. /\ TypeOK /\ pin[t] \in Revisions /\ clone.state = "whole"
        /\ clone' = [clone EXCEPT !.lock = TRUE, !.a = pin[t]]
    BY <1>20, Working DEF Checkout, IInv
  <2>2. clone'.state = "whole"
    BY <2>1, CheckoutStarted
  <2>3. pc'[t] = "checking_out"
    BY <1>20, <1>a DEF Checkout, Goto
  <2>4. \A q \in Trees : pc'[q] # "cloning"
    BY <1>20, <1>a, <2>1 DEF Checkout, Goto
  <2> QED BY <2>2, <2>3, <2>4
<1>21. CASE CheckoutEnds(t)
  <2>1. /\ TypeOK /\ pin[t] \in Revisions /\ clone.state = "whole"
        /\ clone' = [clone EXCEPT !.lock = FALSE, !.b = pin[t], !.head = pin[t]]
    BY <1>21, Working DEF CheckoutEnds, IInv, Known
  <2>2. clone'.state = "whole" /\ clone'.lock = FALSE
    BY <2>1, CheckoutEnded
  <2>3. \A q \in Trees : pc'[q] # "cloning"
    BY <1>21, <1>a, <2>1 DEF CheckoutEnds, Goto
  <2> QED BY <2>2, <2>3
<1>22. CASE RevParse(t)
  BY <1>22, <1>a DEF RevParse, Goto
<1>23. CASE Copy(t)
  BY <1>23, <1>a DEF Copy, Goto
<1>24. CASE CopyRest(t)
  BY <1>24, <1>a DEF CopyRest, Goto, Settle
<1>25. CASE ApplyPatch(t)
  BY <1>25, <1>a DEF ApplyPatch
<1>26. CASE Finish(t)
  BY <1>26, <1>a DEF Finish, Goto, Settle
<1>27. CASE ExtractAndCopy(t)
  BY <1>27, <1>a DEF ExtractAndCopy, Goto, Settle
<1>28. CASE ExtractRest(t)
  BY <1>28, <1>a DEF ExtractRest, Goto
<1> QED
  BY <1>1, <1>2, <1>3, <1>4, <1>5, <1>6, <1>7, <1>8, <1>9, <1>10, <1>11, <1>12, <1>13, <1>14,
     <1>15, <1>16, <1>17, <1>18, <1>19, <1>20, <1>21, <1>22, <1>23, <1>24, <1>25, <1>26,
     <1>27, <1>28 DEF StepOf, Step, Stops

(* The writers of the cached tarball are downloading. *)
LEMMA WritersKept ==
    ASSUME IInv, TypeOK', NEW t \in Trees, StepOf(t)
    PROVE  WritersAtWork'
<1> USE DEF fixed, cache, loop, history, past
<1>a. /\ WritersAtWork /\ pc \in [Trees -> PCs] /\ disturbed \in [Trees -> BOOLEAN]
      /\ writers \subseteq Trees
      /\ \A q \in Trees : pc[q] # "idle" => pin[q] \in Revisions
  BY Working DEF IInv, TypeOK
<1>b. \A q \in Trees : q # t => pc'[q] = pc[q] /\ (disturbed[q] => disturbed'[q])
  BY OthersLeftAlone
<1>1. ASSUME NEW r \in Revisions, Start(t, r) PROVE WritersAtWork'
  BY <1>1, <1>a, <1>b DEF WritersAtWork, Start, Goto, AtRest, AtRestPCs
<1>2. CASE Kill(t)
  BY <1>2, <1>a, <1>b DEF WritersAtWork, Kill, Goto, Settle
<1>3. CASE Stops(t)
  <2>1. Fatal(t) /\ ~AtRest(t)
    BY <1>3, StopsAreFatal
  <2>2. pc[t] # "downloading" /\ pc' = [pc EXCEPT ![t] = "idle"]
        /\ writers' = writers /\ disturbed' = [disturbed EXCEPT ![t] = FALSE]
    BY <2>1, <1>3, StopsAreFatal DEF Fatal, Goto, Settle
  <2> QED BY <2>2, <1>a DEF WritersAtWork
<1>4. CASE RemoveSome(t)
  BY <1>4, <1>a, <1>b DEF RemoveSome, WritersAtWork, Goto
<1>5. CASE RemoveRest(t)
  BY <1>5, <1>a, <1>b DEF RemoveRest, WritersAtWork, Goto
<1>6. CASE Look(t)
  BY <1>6, <1>a, <1>b DEF Look, WritersAtWork, Goto, Move
<1>7. CASE Hash(t)
  BY <1>7, <1>a, <1>b DEF Hash, WritersAtWork, Goto, Prove, Verify
<1>8. CASE OpenForDownload(t)
  BY <1>8, <1>a, <1>b DEF OpenForDownload, WritersAtWork, Goto
<1>9. CASE Downloaded(t)
  BY <1>9, <1>a, <1>b DEF Downloaded, WritersAtWork, Goto
<1>10. CASE DownloadFails(t)
  BY <1>10, <1>a, <1>b DEF DownloadFails, WritersAtWork, Goto
<1>11. CASE Check(t)
  BY <1>11, <1>a, <1>b DEF Check, WritersAtWork, Goto, Prove, Verify
<1>12. CASE CheckDiffers(t)
  BY <1>12, <1>a, <1>b DEF CheckDiffers, WritersAtWork, Goto, Move
<1>13. CASE Discard(t)
  <2>1. \A q \in Trees : q # t /\ pc[q] = "downloading" => disturbed'[q]
    <3> SUFFICES ASSUME NEW q \in Trees, q # t, pc[q] = "downloading" PROVE disturbed'[q]
      OBVIOUS
    <3>1. Depends(q) /\ pin[q] \in Revisions /\ ~IsGit
      BY <1>a DEF Depends, AtRest, AtRestPCs, IInv, Local, TarballPlaces, Fetching
    <3>2. ~HoldsPin(q)'
      <4>1. kind' = kind /\ pin'[q] = pin[q] /\ tarball' \in {None, Partial}
        BY <1>13 DEF Discard
      <4> QED BY <3>1, <4>1, ContentsAssumption DEF HoldsPin, IsGit
    <3> QED BY <1>13, <3>1, <3>2, DisturbedUnless, TypeOK' DEF Discard, TypeOK
  <2>2. writers' = {} /\ pc'[t] = "download"
    BY <1>13, <1>a DEF Discard, Goto
  <2> QED BY <2>1, <2>2, <1>a, <1>b DEF WritersAtWork
<1>14. CASE NextUrl(t)
  BY <1>14, <1>a, <1>b DEF NextUrl, WritersAtWork
<1>15. CASE Extract(t)
  BY <1>15, <1>a, <1>b DEF Extract, WritersAtWork, Goto, Settle
<1>16. CASE CloneBegins(t)
  BY <1>16, <1>a, <1>b DEF CloneBegins, WritersAtWork, Goto
<1>17. CASE CloneEnds(t)
  BY <1>17, <1>a, <1>b DEF CloneEnds, WritersAtWork, Goto
<1>18. CASE CloneFails(t)
  BY <1>18, <1>a, <1>b DEF CloneFails, WritersAtWork, Goto, Settle
<1>19. CASE Fetch(t)
  BY <1>19, <1>a, <1>b DEF Fetch, WritersAtWork, Goto
<1>20. CASE Checkout(t)
  BY <1>20, <1>a, <1>b DEF Checkout, WritersAtWork, Goto
<1>21. CASE CheckoutEnds(t)
  BY <1>21, <1>a, <1>b DEF CheckoutEnds, WritersAtWork, Goto
<1>22. CASE RevParse(t)
  BY <1>22, <1>a, <1>b DEF RevParse, WritersAtWork, Goto
<1>23. CASE Copy(t)
  BY <1>23, <1>a, <1>b DEF Copy, WritersAtWork, Goto
<1>24. CASE CopyRest(t)
  BY <1>24, <1>a, <1>b DEF CopyRest, WritersAtWork, Goto, Settle
<1>25. CASE ApplyPatch(t)
  BY <1>25, <1>a, <1>b DEF ApplyPatch, WritersAtWork
<1>26. CASE Finish(t)
  BY <1>26, <1>a, <1>b DEF Finish, WritersAtWork, Goto, Settle
<1>27. CASE ExtractAndCopy(t)
  BY <1>27, <1>a, <1>b DEF ExtractAndCopy, WritersAtWork, Goto, Settle
<1>28. CASE ExtractRest(t)
  BY <1>28, <1>a, <1>b DEF ExtractRest, WritersAtWork, Goto
<1> QED
  BY <1>1, <1>2, <1>3, <1>4, <1>5, <1>6, <1>7, <1>8, <1>9, <1>10, <1>11, <1>12, <1>13, <1>14,
     <1>15, <1>16, <1>17, <1>18, <1>19, <1>20, <1>21, <1>22, <1>23, <1>24, <1>25, <1>26,
     <1>27, <1>28 DEF StepOf, Step, Stops

(* Somebody is still going to look at what is left in the cache. *)
LEMMA AttendedKept ==
    ASSUME IInv, TypeOK', NEW t \in Trees, StepOf(t)
    PROVE  RemainsAttended'
<1> USE DEF fixed, cache, loop, history, past
<1>a. /\ RemainsAttended /\ pc \in [Trees -> PCs] /\ proven \in BOOLEAN
  BY DEF IInv, TypeOK
<1>1. ASSUME NEW r \in Revisions, Start(t, r) PROVE RemainsAttended'
  BY <1>1, <1>a DEF RemainsAttended, Filling, Start, Goto, AtRest, AtRestPCs
<1>2. CASE Kill(t)
  <2>1. /\ tarball' = tarball /\ proven' = proven /\ pc' = [pc EXCEPT ![t] = "idle"]
        /\ remains \subseteq remains'
        /\ pc[t] \in Filling /\ tarball # None /\ ~proven => "tarball" \in remains'
    BY <1>2 DEF Kill, Goto, LeftBy, Leavings
  <2> QED BY <2>1, <1>a DEF RemainsAttended
<1>3. CASE Stops(t)
  <2>1. Fatal(t) /\ ~AtRest(t)
    BY <1>3, StopsAreFatal
  <2>2. /\ pc[t] \notin {"downloading", "discard"} /\ (pc[t] = "check" => tarball = None)
        /\ pc' = [pc EXCEPT ![t] = "idle"] /\ tarball' = tarball
        /\ proven' = proven /\ remains' = remains
    BY <2>1, <1>3, StopsAreFatal DEF Fatal, Goto
  <2> QED BY <2>2, <1>a, ContentsAssumption DEF RemainsAttended, Filling
<1>4. CASE RemoveSome(t)
  BY <1>4, <1>a DEF RemoveSome, RemainsAttended, Filling, Goto
<1>5. CASE RemoveRest(t)
  BY <1>5, <1>a DEF RemoveRest, RemainsAttended, Filling, Goto
<1>6. CASE Look(t)
  BY <1>6, <1>a DEF Look, RemainsAttended, Filling, Goto, Move
<1>7. CASE Hash(t)
  <2>1. tarball' = pin[t] /\ pin[t] \in Revisions /\ proven'
    BY <1>7, Working DEF Hash, Matches, Prove
  <2> QED BY <2>1 DEF RemainsAttended
<1>8. CASE OpenForDownload(t)
  <2>1. pc'[t] = "downloading" /\ ~proven'
    BY <1>8, <1>a DEF OpenForDownload, Unproven, Goto
  <2> QED BY <2>1 DEF RemainsAttended, Filling
<1>9. CASE Downloaded(t)
  <2>1. pc'[t] = "check"
    BY <1>9, <1>a DEF Downloaded, Goto
  <2>2. ~proven' \/ (proven' = proven /\ tarball' = tarball)
    BY <1>9 DEF Downloaded
  <2> QED BY <2>1, <2>2, <1>a DEF RemainsAttended, Filling
<1>10. CASE DownloadFails(t)
  BY <1>10, <1>a DEF DownloadFails, RemainsAttended, Filling, Goto
<1>11. CASE Check(t)
  <2>1. tarball' = pin[t] /\ pin[t] \in Revisions /\ proven'
    BY <1>11, Working DEF Check, Matches, Prove
  <2> QED BY <2>1 DEF RemainsAttended
<1>12. CASE CheckDiffers(t)
  BY <1>12, <1>a DEF CheckDiffers, RemainsAttended, Filling, Goto, Move
<1>13. CASE Discard(t)
  <2>1. tarball' = None /\ ~proven'
    BY <1>13 DEF Discard, Unproven
  <2> QED BY <2>1 DEF RemainsAttended
<1>14. CASE NextUrl(t)
  BY <1>14, <1>a DEF NextUrl, RemainsAttended, Filling
<1>15. CASE Extract(t)
  BY <1>15, <1>a DEF Extract, RemainsAttended, Filling, Goto, Settle
<1>16. CASE CloneBegins(t)
  BY <1>16, <1>a DEF CloneBegins, RemainsAttended, Filling, Goto
<1>17. CASE CloneEnds(t)
  BY <1>17, <1>a DEF CloneEnds, RemainsAttended, Filling, Goto
<1>18. CASE CloneFails(t)
  BY <1>18, <1>a DEF CloneFails, RemainsAttended, Filling, Goto, Settle
<1>19. CASE Fetch(t)
  BY <1>19, <1>a DEF Fetch, RemainsAttended, Filling, Goto
<1>20. CASE Checkout(t)
  BY <1>20, <1>a DEF Checkout, RemainsAttended, Filling, Goto
<1>21. CASE CheckoutEnds(t)
  BY <1>21, <1>a DEF CheckoutEnds, RemainsAttended, Filling, Goto
<1>22. CASE RevParse(t)
  BY <1>22, <1>a DEF RevParse, RemainsAttended, Filling, Goto
<1>23. CASE Copy(t)
  BY <1>23, <1>a DEF Copy, RemainsAttended, Filling, Goto
<1>24. CASE CopyRest(t)
  BY <1>24, <1>a DEF CopyRest, RemainsAttended, Filling, Goto, Settle
<1>25. CASE ApplyPatch(t)
  BY <1>25, <1>a DEF ApplyPatch, RemainsAttended, Filling
<1>26. CASE Finish(t)
  BY <1>26, <1>a DEF Finish, RemainsAttended, Filling, Goto, Settle
<1>27. CASE ExtractAndCopy(t)
  BY <1>27, <1>a DEF ExtractAndCopy, RemainsAttended, Filling, Goto, Settle
<1>28. CASE ExtractRest(t)
  BY <1>28, <1>a DEF ExtractRest, RemainsAttended, Filling, Goto
<1> QED
  BY <1>1, <1>2, <1>3, <1>4, <1>5, <1>6, <1>7, <1>8, <1>9, <1>10, <1>11, <1>12, <1>13, <1>14,
     <1>15, <1>16, <1>17, <1>18, <1>19, <1>20, <1>21, <1>22, <1>23, <1>24, <1>25, <1>26,
     <1>27, <1>28 DEF StepOf, Step, Stops

(* A tree that has not verified yet is alone in the cache, or disturbed. *)
LEMMA AloneKept ==
    ASSUME IInv, TypeOK', NEW t \in Trees, StepOf(t)
    PROVE  AloneInCache'
<1> USE DEF fixed, cache, loop, history, past
<1>a. /\ AloneInCache /\ pc \in [Trees -> PCs] /\ disturbed \in [Trees -> BOOLEAN]
      /\ verified \in [Trees -> BOOLEAN]
      /\ \A q \in Trees : pc[q] # "idle" => pin[q] \in Revisions
  BY Working DEF IInv, TypeOK
<1>b. \A q \in Trees : q # t => /\ pc'[q] = pc[q] /\ (disturbed[q] => disturbed'[q])
                                /\ verified'[q] = verified[q]
  BY OthersLeftAlone
<1>1. ASSUME NEW r \in Revisions, Start(t, r) PROVE AloneInCache'
  <2>1. /\ pc[t] \in {"idle", "done"} /\ kind' = kind
        /\ \/ pc'[t] = "done"
           \/ pc'[t] = "remove" /\ disturbed'[t] = InFlux
        /\ \A q \in Trees : q # t => disturbed'[q] = disturbed[q]
    BY <1>1, <1>a DEF Start, Goto, AtRest, AtRestPCs
  <2>2. ~InFlux => \A q \in Trees : pc[q] \notin Filling
    BY DEF InFlux, Filling
  <2> QED BY <2>1, <2>2, <1>a, <1>b DEF AloneInCache, Filling, Unverified, Fetching, IsGit
<1>2. CASE Kill(t)
  BY <1>2, <1>a, <1>b DEF AloneInCache, Filling, Unverified, Fetching, IsGit, Kill, Goto, Settle
<1>3. CASE Stops(t)
  <2>1. Fatal(t) /\ ~AtRest(t)
    BY <1>3, StopsAreFatal
  <2>2. /\ pc' = [pc EXCEPT ![t] = "idle"] /\ kind' = kind
        /\ disturbed' = [disturbed EXCEPT ![t] = FALSE]
        /\ verified' = [verified EXCEPT ![t] = FALSE]
    BY <2>1 DEF Fatal, Goto, Settle
  <2> QED BY <2>2, <1>a DEF AloneInCache, Filling, Unverified, Fetching, IsGit
<1>4. CASE RemoveSome(t)
  BY <1>4, <1>a, <1>b DEF RemoveSome, AloneInCache, Filling, Unverified, Fetching, IsGit, Goto
<1>5. CASE RemoveRest(t)
  BY <1>5, <1>a, <1>b DEF RemoveRest, AloneInCache, Filling, Unverified, Fetching, IsGit, Goto
<1>6. CASE Look(t)
  BY <1>6, <1>a, <1>b DEF Look, AloneInCache, Filling, Unverified, Fetching, IsGit, Goto, Move
<1>7. CASE Hash(t)
  BY <1>7, <1>a, <1>b DEF Hash, AloneInCache, Filling, Unverified, Fetching, IsGit, Goto,
     Prove, Verify
<1>8. CASE OpenForDownload(t)
  <2>1. \A q \in Trees : q # t /\ pc[q] \in Unverified => IsGit \/ disturbed'[q]
    <3> SUFFICES ASSUME NEW q \in Trees, q # t, pc[q] \in Unverified, ~IsGit PROVE disturbed'[q]
      OBVIOUS
    <3>1. Depends(q) /\ pin[q] \in Revisions
      BY <1>a DEF Depends, AtRest, AtRestPCs, Unverified, Fetching
    <3>2. ~HoldsPin(q)'
      <4>1. kind' = kind /\ pin'[q] = pin[q] /\ tarball' = Partial
        BY <1>8 DEF OpenForDownload
      <4> QED BY <3>1, <4>1, ContentsAssumption DEF HoldsPin, IsGit
    <3>3. Disturb(t)
      BY <1>8 DEF OpenForDownload
    <3>4. Depends(q) /\ ~disturbed'[q] => HoldsPin(q)'
      BY <3>3, DisturbedUnless
    <3>5. disturbed'[q] \in BOOLEAN
      BY DEF TypeOK
    <3> QED BY <3>1, <3>2, <3>4, <3>5
  <2>2. /\ kind' = kind /\ pc[t] = "download" /\ pc'[t] = "downloading"
        /\ disturbed'[t] = disturbed[t] /\ verified' = verified
    BY <1>8, <1>a DEF OpenForDownload, Goto, Disturb
  <2> QED BY <2>1, <2>2, <1>a, <1>b DEF AloneInCache, Filling, Unverified, Fetching, IsGit
<1>9. CASE Downloaded(t)
  BY <1>9, <1>a, <1>b DEF Downloaded, AloneInCache, Filling, Unverified, Fetching, IsGit,
     Goto, Disturb
<1>10. CASE DownloadFails(t)
  BY <1>10, <1>a, <1>b DEF DownloadFails, AloneInCache, Filling, Unverified, Fetching, IsGit,
     Goto
<1>11. CASE Check(t)
  BY <1>11, <1>a, <1>b DEF Check, AloneInCache, Filling, Unverified, Fetching, IsGit, Goto,
     Prove, Verify
<1>12. CASE CheckDiffers(t)
  BY <1>12, <1>a, <1>b DEF CheckDiffers, AloneInCache, Filling, Unverified, Fetching, IsGit,
     Goto, Move
<1>13. CASE Discard(t)
  BY <1>13, <1>a, <1>b DEF Discard, AloneInCache, Filling, Unverified, Fetching, IsGit, Goto,
     Disturb
<1>14. CASE NextUrl(t)
  BY <1>14, <1>a, <1>b DEF NextUrl, AloneInCache, Filling, Unverified, Fetching, IsGit
<1>15. CASE Extract(t)
  BY <1>15, <1>a, <1>b DEF Extract, AloneInCache, Filling, Unverified, Fetching, IsGit, Goto,
     Settle
<1>16. CASE CloneBegins(t)
  BY <1>16, <1>a, <1>b DEF CloneBegins, AloneInCache, Filling, Unverified, Fetching, IsGit,
     Goto, Disturb
<1>17. CASE CloneEnds(t)
  BY <1>17, <1>a, <1>b DEF CloneEnds, AloneInCache, Filling, Unverified, Fetching, IsGit, Goto
<1>18. CASE CloneFails(t)
  BY <1>18, <1>a, <1>b DEF CloneFails, AloneInCache, Filling, Unverified, Fetching, IsGit,
     Goto, Settle
<1>19. CASE Fetch(t)
  BY <1>19, <1>a, <1>b DEF Fetch, AloneInCache, Filling, Unverified, Fetching, IsGit, Goto
<1>20. CASE Checkout(t)
  BY <1>20, <1>a, <1>b DEF Checkout, AloneInCache, Filling, Unverified, Fetching, IsGit, Goto,
     Disturb
<1>21. CASE CheckoutEnds(t)
  BY <1>21, <1>a, <1>b DEF CheckoutEnds, AloneInCache, Filling, Unverified, Fetching, IsGit,
     Goto, Disturb
<1>22. CASE RevParse(t)
  <2>1. IsGit /\ kind' = kind
    BY <1>22 DEF RevParse, IInv, Local, ClonePlaces
  <2> QED BY <2>1 DEF AloneInCache, IsGit
<1>23. CASE Copy(t)
  BY <1>23, <1>a, <1>b DEF Copy, AloneInCache, Filling, Unverified, Fetching, IsGit, Goto
<1>24. CASE CopyRest(t)
  BY <1>24, <1>a, <1>b DEF CopyRest, AloneInCache, Filling, Unverified, Fetching, IsGit, Goto,
     Settle
<1>25. CASE ApplyPatch(t)
  BY <1>25, <1>a, <1>b DEF ApplyPatch, AloneInCache, Filling, Unverified, Fetching, IsGit
<1>26. CASE Finish(t)
  BY <1>26, <1>a, <1>b DEF Finish, AloneInCache, Filling, Unverified, Fetching, IsGit, Goto,
     Settle
<1>27. CASE ExtractAndCopy(t)
  BY <1>27, <1>a, <1>b DEF ExtractAndCopy, AloneInCache, Filling, Unverified, Fetching, IsGit,
     Goto, Settle
<1>28. CASE ExtractRest(t)
  BY <1>28, <1>a, <1>b DEF ExtractRest, AloneInCache, Filling, Unverified, Fetching, IsGit,
     Goto
<1> QED
  BY <1>1, <1>2, <1>3, <1>4, <1>5, <1>6, <1>7, <1>8, <1>9, <1>10, <1>11, <1>12, <1>13, <1>14,
     <1>15, <1>16, <1>17, <1>18, <1>19, <1>20, <1>21, <1>22, <1>23, <1>24, <1>25, <1>26,
     <1>27, <1>28 DEF StepOf, Step, Stops

(* The steps that change the clone; a kill may leave it as it is for good. *)
ChangesClone(t) ==
    \/ CloneBegins(t) \/ CloneEnds(t) \/ CloneFails(t) \/ Fetch(t)
    \/ Checkout(t) \/ CheckoutEnds(t)

(* All other steps leave the clone alone. *)
LEMMA CloneLeftAlone ==
    ASSUME NEW t \in Trees, StepOf(t), ~ChangesClone(t)
    PROVE  clone' = clone /\ ("clone" \in remains => "clone" \in remains')
<1>1. CASE Stops(t)
  BY <1>1, StopsAreFatal DEF Fatal, cache, past
<1>2. CASE ~Stops(t)
  BY <1>2 DEF StepOf, Stops, Step, ChangesClone, Start, Kill, cache, past, Prove, Unproven,
     RemoveSome, RemoveRest, Look, Hash, OpenForDownload, Downloaded, DownloadFails, Check,
     CheckDiffers, Discard, NextUrl, Extract, ExtractAndCopy, ExtractRest, RevParse, Copy,
     CopyRest, ApplyPatch, Finish, Move
<1> QED BY <1>1, <1>2

(* A tree on its way to the clone has just begun, or was on its way before *)
(* and knows what it knew.                                                 *)
LEMMA TowardsClone ==
    ASSUME IInv, NEW t \in Trees, StepOf(t), pc'[t] \in Cloning
    PROVE  /\ pc'[t] = "cloning" => CloneBegins(t)
           /\ \/ /\ pc'[t] = "remove" /\ clone' = clone /\ disturbed'[t] = InFlux
                 /\ found'[t] = (clone.state = "whole")
              \/ /\ pc[t] \in Cloning
                 /\ disturbed'[t] = disturbed[t] /\ found'[t] = found[t] /\ pin'[t] = pin[t]
                 /\ RemoveSome(t) \/ RemoveRest(t) \/ Look(t) \/ CloneBegins(t)
                    \/ CloneEnds(t) \/ Fetch(t)
<1> USE DEF cache, loop, history, past, Cloning
<1>a. pc \in [Trees -> PCs] /\ disturbed \in [Trees -> BOOLEAN] /\ found \in [Trees -> BOOLEAN]
  BY DEF IInv, TypeOK
<1>1. ASSUME NEW r \in Revisions, Start(t, r)
      PROVE  /\ pc'[t] = "remove" /\ clone' = clone /\ disturbed'[t] = InFlux
             /\ found'[t] = (clone.state = "whole")
  BY <1>1, <1>a DEF Start, Goto
<1>2. CASE RemoveSome(t) \/ RemoveRest(t) \/ Look(t)
  BY <1>2, <1>a DEF RemoveSome, RemoveRest, Look, Move, Goto
<1>3. CASE CloneBegins(t) \/ CloneEnds(t) \/ Fetch(t)
  BY <1>3, <1>a DEF CloneBegins, CloneEnds, Fetch, Disturb, Goto
<1>4. ~(Kill(t) \/ CloneFails(t))
  BY <1>a DEF Kill, CloneFails, Goto
<1>5. ~Stops(t)
  <2> SUFFICES ASSUME Stops(t) PROVE FALSE
    OBVIOUS
  <2>1. Fatal(t)
    BY StopsAreFatal
  <2> QED BY <2>1, <1>a DEF Fatal, Goto
<1>6. ~(Hash(t) \/ Check(t) \/ OpenForDownload(t) \/ Downloaded(t) \/ DownloadFails(t))
  BY <1>a DEF Hash, Check, OpenForDownload, Downloaded, DownloadFails, Goto
<1>7. ~(CheckDiffers(t) \/ Discard(t) \/ NextUrl(t))
  BY <1>a DEF CheckDiffers, Discard, NextUrl, Move, Goto
<1>8. ~(Extract(t) \/ ExtractAndCopy(t) \/ ExtractRest(t))
  BY <1>a DEF Extract, ExtractAndCopy, ExtractRest, Goto
<1>9. ~(Checkout(t) \/ CheckoutEnds(t) \/ RevParse(t))
  BY <1>a DEF Checkout, CheckoutEnds, RevParse, Goto
<1>10. ~(Copy(t) \/ CopyRest(t) \/ ApplyPatch(t) \/ Finish(t))
  BY <1>a DEF Copy, CopyRest, ApplyPatch, Finish, Goto
<1> QED
  BY <1>1, <1>2, <1>3, <1>4, <1>5, <1>6, <1>7, <1>8, <1>9, <1>10 DEF StepOf, Step, Stops

(* Who begins to clone disturbs all that are on their way to the clone. *)
LEMMA CloningDisturbs ==
    ASSUME IInv, TypeOK', NEW t \in Trees, CloneBegins(t),
           NEW q \in Trees, q # t, pc[q] \in Cloning
    PROVE  disturbed'[q]
<1>1. Depends(q) /\ pin[q] \in Revisions
  BY Working DEF Depends, AtRest, AtRestPCs, Cloning
<1>2. clone'.head = None /\ kind' = kind /\ pin' = pin /\ IsGit
  BY CloneStarted DEF CloneBegins, fixed, IInv, Local, ClonePlaces
<1>3. ~HoldsPin(q)'
  BY <1>1, <1>2, ContentsAssumption DEF HoldsPin, IsGit
<1>4. disturbed'[q] \in BOOLEAN
  BY DEF TypeOK
<1>5. Disturb(t)
  BY DEF CloneBegins
<1> QED BY <1>1, <1>3, <1>4, <1>5, DisturbedUnless

(* Nobody else clones while a tree on its way to the clone is undisturbed. *)
LEMMA AloneAtCloneKept ==
    ASSUME IInv, TypeOK', NEW t \in Trees, StepOf(t)
    PROVE  AloneAtClone'
<1> SUFFICES ASSUME NEW x \in Trees, NEW q \in Trees,
                    ~disturbed'[x], pc'[x] \in Cloning, q # x
             PROVE  pc'[q] # "cloning"
  BY DEF AloneAtClone
<1>a. \A y \in Trees : y # t => pc'[y] = pc[y] /\ (disturbed[y] => disturbed'[y])
  BY OthersLeftAlone
<1>1. CASE x # t /\ q # t
  BY <1>1, <1>a DEF IInv, AloneAtClone
<1>2. CASE x = t
  <2>1. pc'[q] = pc[q]
    BY <1>2, <1>a
  <2>2. CASE disturbed'[t] = InFlux
    BY <1>2, <2>1, <2>2 DEF InFlux
  <2>3. CASE pc[t] \in Cloning /\ disturbed'[t] = disturbed[t]
    BY <1>2, <2>1, <2>3 DEF IInv, AloneAtClone
  <2> QED BY <1>2, <2>2, <2>3, TowardsClone
<1>3. CASE q = t /\ x # t
  <2>1. pc[x] \in Cloning
    BY <1>3, <1>a
  <2>2. CloneBegins(t) => disturbed'[x]
    BY <1>3, <2>1, CloningDisturbs
  <2>3. pc'[t] = "cloning" => CloneBegins(t)
    BY TowardsClone DEF Cloning
  <2> QED BY <1>3, <2>2, <2>3
<1> QED BY <1>1, <1>2, <1>3

(* What a tree knows of the clone before its checkout, its own steps keep. *)
LEMMA KnownCloneKept ==
    ASSUME IInv, TypeOK', NEW t \in Trees, StepOf(t)
    PROVE  KnownClone(t)'
<1> SUFFICES ASSUME pc'[t] \in Cloning PROVE KnownClone(t)'
  BY DEF KnownClone, Cloning
<1>a. /\ pc[t] # "idle" => pin[t] \in published /\ pin[t] \in Revisions
      /\ KnownClone(t)
      /\ pc \in [Trees -> PCs] /\ TypeOK
  BY Working DEF IInv, Local, TypeOK
<1>1. CASE /\ pc'[t] = "remove" /\ clone' = clone
           /\ found'[t] = (clone.state = "whole")
  BY <1>1 DEF KnownClone
<1> SUFFICES ASSUME pc[t] \in Cloning,
                    disturbed'[t] = disturbed[t], found'[t] = found[t], pin'[t] = pin[t],
                    RemoveSome(t) \/ RemoveRest(t) \/ Look(t) \/ CloneBegins(t)
                    \/ CloneEnds(t) \/ Fetch(t)
             PROVE  KnownClone(t)'
  BY <1>1, TowardsClone
<1>2. pin[t] \in published /\ pin[t] \in Revisions
  BY <1>a DEF Cloning
<1>3. CASE RemoveSome(t) \/ RemoveRest(t)
  <2>1. /\ pc'[t] \in {"remove_rest", "look"} /\ clone' = clone /\ kind' = kind
    BY <1>3, <1>a DEF RemoveSome, RemoveRest, Goto, cache, fixed
  <2> QED BY <2>1, <1>a DEF KnownClone, IsGit
<1>4. CASE Look(t)
  <2>1. /\ pc[t] = "look" /\ clone' = clone /\ kind' = kind /\ remains' = remains
        /\ pc'[t] = "clone" => clone.state = "absent"
        /\ pc'[t] \in {"fetch", "checkout"} => clone.state # "absent"
    BY <1>4, <1>a DEF Look, Move, Goto, cache, fixed, past
  <2>2. ~disturbed[t] /\ clone.state \notin {"absent", "whole"} => "clone" \in remains
    <3>1. clone.state \in {"absent", "begun", "whole"}
      BY <1>a DEF TypeOK, Clones
    <3> QED BY <2>1, <3>1 DEF IInv, CloneInv, AloneAtClone, Cloning
  <2> QED BY <2>1, <2>2, <1>a DEF KnownClone, IsGit
<1>5. CASE CloneBegins(t)
  <2>1. pc'[t] = "cloning" /\ clone'.state = "begun"
    BY <1>5, <1>a, CloneStarted DEF CloneBegins, Goto
  <2> QED BY <2>1 DEF KnownClone
<1>6. CASE CloneEnds(t)
  <2>1. pc'[t] \in {"fetch", "checkout"} /\ clone'.state = "whole" /\ clone'.has = published
    BY <1>6, <1>a, CloneFilled DEF CloneEnds, Goto
  <2> QED BY <2>1, <1>2 DEF KnownClone
<1>7. CASE Fetch(t)
  <2>1. /\ pc'[t] = "checkout" /\ clone.state = "whole"
        /\ clone' = [clone EXCEPT !.has = @ \cup {pin[t]}]
    BY <1>7, <1>a DEF Fetch, Goto
  <2>2. clone'.state = clone.state /\ clone'.has = clone.has \cup {pin[t]}
    BY <2>1, <1>a, <1>2, CloneFetched
  <2> QED BY <2>1, <2>2 DEF KnownClone
<1> QED BY <1>3, <1>4, <1>5, <1>6, <1>7

(* The steps of others keep it too, or disturb. *)
LEMMA KnownCloneToOthersKept ==
    ASSUME IInv, TypeOK', NEW t \in Trees, NEW q \in Trees, q # t, StepOf(t)
    PROVE  KnownClone(q)'
<1> SUFFICES ASSUME pc'[q] \in Cloning PROVE KnownClone(q)'
  BY DEF KnownClone, Cloning
<1>0. /\ pc'[q] = pc[q] /\ pin'[q] = pin[q] /\ found'[q] = found[q]
      /\ disturbed[q] => disturbed'[q]
      /\ kind' = kind
  BY OthersLeftAlone
<1>a. KnownClone(q) /\ pin[q] \in published /\ TypeOK
  BY <1>0 DEF IInv, Local, Cloning
<1>1. CASE ~ChangesClone(t)
  <2>1. clone' = clone /\ ("clone" \in remains => "clone" \in remains')
    BY <1>1, CloneLeftAlone
  <2> QED BY <2>1, <1>0, <1>a DEF KnownClone, IsGit
<1>2. CASE CloneBegins(t)
  <2>1. disturbed'[q]
    BY <1>0, <1>2, CloningDisturbs
  <2>2. clone'.state = "begun"
    BY <1>2, CloneStarted DEF CloneBegins
  <2> QED BY <2>1, <2>2 DEF KnownClone
<1>3. CASE CloneEnds(t) \/ CloneFails(t)
  <2>1. disturbed[q]
    BY <1>0, <1>3 DEF CloneEnds, CloneFails, IInv, AloneAtClone
  <2>2. clone'.state = "whole" => clone'.has = published
    <3>1. CASE CloneEnds(t)
      BY <3>1, <1>a, CloneFilled DEF CloneEnds
    <3>2. CASE CloneFails(t)
      BY <3>2 DEF CloneFails, NoClone
    <3> QED BY <1>3, <3>1, <3>2
  <2>3. TypeOK' => disturbed'[q]
    BY <2>1, <1>0
  <2> QED BY <2>2, <2>3, <1>0, <1>a DEF KnownClone
<1>4. CASE Fetch(t) \/ Checkout(t) \/ CheckoutEnds(t)
  <2>0. pin[t] \in Revisions /\ remains' = remains
    BY <1>4, Working DEF Fetch, Checkout, CheckoutEnds, past
  <2>1. clone'.state = clone.state /\ clone.has \subseteq clone'.has
    <3>1. CASE Fetch(t)
      BY <3>1, <2>0, <1>a, CloneFetched DEF Fetch
    <3>2. CASE Checkout(t)
      <4>1. clone' = [clone EXCEPT !.lock = TRUE, !.a = pin[t]]
        BY <3>2 DEF Checkout
      <4> QED BY <4>1, <2>0, <1>a, CheckoutStarted
    <3>3. CASE CheckoutEnds(t)
      <4>1. clone' = [clone EXCEPT !.lock = FALSE, !.b = pin[t], !.head = pin[t]]
        BY <3>3 DEF CheckoutEnds
      <4> QED BY <4>1, <2>0, <1>a, CheckoutEnded
    <3> QED BY <1>4, <3>1, <3>2, <3>3
  <2> QED BY <2>0, <2>1, <1>0, <1>a DEF KnownClone, IsGit
<1> QED BY <1>1, <1>2, <1>3, <1>4 DEF ChangesClone

(* What FetchInv says of one tree. *)
FetchFacts(t) ==
    ~disturbed[t] =>
        /\ pc[t] \in Fetching => \A u \in good : u >= url[t]
        /\ pc[t] = "check" /\ url[t] \in good => tarball = pin[t]
        /\ pc[t] \in {"download", "discard"} /\ url[t] \in good => tries[t] < Attempts

(* Another tree's step keeps what an undisturbed fetch knows: it leaves    *)
(* the tarball alone, or the pin in its place, or it disturbs.             *)
LEMMA FetchKeptByOthers ==
    ASSUME IInv, TypeOK', NEW t \in Trees, NEW q \in Trees, q # t, StepOf(t)
    PROVE  FetchFacts(q)'
<1>1. /\ pc'[q] = pc[q] /\ pin'[q] = pin[q] /\ url'[q] = url[q] /\ tries'[q] = tries[q]
      /\ (disturbed[q] => disturbed'[q]) /\ kind' = kind /\ good' = good
  BY OthersLeftAlone
<1>2. FetchFacts(q)
  BY DEF IInv, FetchInv, FetchFacts
<1>3. ASSUME pc[q] = "check", ~disturbed'[q] PROVE tarball' = tarball \/ tarball' = pin[q]
  <2>1. Depends(q) /\ ~IsGit
    BY <1>3 DEF Depends, AtRest, AtRestPCs, IInv, Local, TarballPlaces, Fetching
  <2>2. CASE OpenForDownload(t) \/ Downloaded(t) \/ Discard(t)
    <3>1. Disturb(t)
      BY <2>2 DEF OpenForDownload, Downloaded, Discard
    <3> QED BY <1>1, <1>3, <2>1, <3>1, DisturbedUnless DEF HoldsPin, IsGit
  <2>3. CASE Stops(t)
    BY <2>3, StopsAreFatal DEF Fatal, cache
  <2>4. ASSUME ~(OpenForDownload(t) \/ Downloaded(t) \/ Discard(t)), ~Stops(t)
        PROVE  tarball' = tarball
    BY <2>4 DEF StepOf, Stops, Step, Start, Kill, cache, Prove,
         RemoveSome, RemoveRest, Look, Hash, DownloadFails, Check, CheckDiffers,
         NextUrl, Extract, ExtractAndCopy, ExtractRest, CloneBegins, CloneEnds, CloneFails, Fetch, Checkout,
         CheckoutEnds, RevParse, Copy, CopyRest, ApplyPatch, Finish, Move
  <2> QED BY <2>2, <2>3, <2>4
<1> QED BY <1>1, <1>2, <1>3 DEF FetchFacts

(* An undisturbed fetch passes no URL that serves the pin. *)
LEMMA FetchKept ==
    ASSUME IInv, TypeOK', NEW t \in Trees, StepOf(t)
    PROVE  FetchFacts(t)'
<1> USE DEF fixed, cache, loop, history, past
<1>a. /\ FetchFacts(t) /\ pc \in [Trees -> PCs] /\ disturbed \in [Trees -> BOOLEAN]
      /\ url \in [Trees -> 1..2] /\ tries \in [Trees -> Nat] /\ good \in SUBSET (1..2)
      /\ Attempts \in Nat /\ Attempts > 0
  BY UrlCount, RoundsBound, AttemptsAssumption DEF IInv, TypeOK, FetchInv, FetchFacts
<1>1. ASSUME NEW r \in Revisions, Start(t, r) PROVE FetchFacts(t)'
  BY <1>1, <1>a DEF FetchFacts, Fetching, Start, Goto, AtRest, AtRestPCs
<1>2. CASE Kill(t)
  BY <1>2, <1>a DEF FetchFacts, Fetching, Kill, Goto, Settle
<1>3. CASE Stops(t)
  <2>1. Fatal(t) /\ ~AtRest(t)
    BY <1>3, StopsAreFatal
  <2>2. pc'[t] = "idle"
    BY <2>1, <1>a DEF Fatal, Goto
  <2> QED BY <2>2 DEF FetchFacts, Fetching
<1>4. CASE RemoveSome(t)
  BY <1>4, <1>a DEF RemoveSome, FetchFacts, Fetching, Goto
<1>5. CASE RemoveRest(t)
  BY <1>5, <1>a DEF RemoveRest, FetchFacts, Fetching, Goto
<1>6. CASE Look(t)
  <2>1. url[t] = 1 /\ tries[t] = 0 /\ pc'[t] # "check"
    BY <1>6, <1>a DEF Look, Move, Goto, IInv, Local, Fetching
  <2>2. url'[t] = 1 /\ tries'[t] = 0 /\ good' = good
    BY <1>6, <2>1 DEF Look, Move
  <2>3. \A u \in good' : u >= 1
    BY <1>a, <2>2
  <2> QED BY <1>a, <2>1, <2>2, <2>3 DEF FetchFacts
<1>7. CASE Hash(t)
  BY <1>7, <1>a DEF Hash, FetchFacts, Fetching, Matches, Goto, Prove, Verify
<1>8. CASE OpenForDownload(t)
  BY <1>8, <1>a DEF OpenForDownload, FetchFacts, Fetching, Goto, Disturb
<1>9. CASE Downloaded(t)
  <2>1. /\ pc[t] = "downloading" /\ pc'[t] = "check" /\ url' = url /\ tries' = tries
        /\ good' = good /\ pin' = pin /\ disturbed'[t] = disturbed[t]
    BY <1>9, <1>a DEF Downloaded, Goto, Disturb
  <2>2. ASSUME ~disturbed[t], url[t] \in good PROVE tarball' = pin[t]
    <3>1. t \in writers
      BY <2>1, <2>2 DEF IInv, WritersAtWork
    <3>2. ~IsGit
      BY <2>1 DEF IInv, Local, TarballPlaces, Fetching
    <3>3. \A q \in Trees : q # t => pc[q] # "downloading"
      <4>1. ~verified[t]
        BY <2>1 DEF IInv, Local
      <4> QED BY <2>1, <2>2, <3>2, <4>1 DEF IInv, AloneInCache, Unverified, Fetching, Filling
    <3>4. writers = {t}
      BY <3>1, <3>3 DEF IInv, WritersAtWork, TypeOK
    <3> QED BY <1>9, <2>2, <3>1, <3>4 DEF Downloaded, Sends
  <2> QED BY <1>a, <2>1, <2>2 DEF FetchFacts, Fetching
<1>10. CASE DownloadFails(t)
  BY <1>10, <1>a DEF DownloadFails, FetchFacts, Fetching, Goto
<1>11. CASE Check(t)
  BY <1>11, <1>a DEF Check, FetchFacts, Fetching, Matches, Goto, Prove, Verify
<1>12. CASE CheckDiffers(t)
  BY <1>12, <1>a DEF CheckDiffers, FetchFacts, Fetching, Matches, Goto, Move
<1>13. CASE Discard(t)
  BY <1>13, <1>a DEF Discard, FetchFacts, Fetching, Goto, Disturb
<1>14. CASE NextUrl(t)
  <2>1. /\ pc[t] = "download" /\ pc' = pc /\ url'[t] = url[t] + 1 /\ tries'[t] = 0
        /\ good' = good /\ disturbed' = disturbed
    BY <1>14, <1>a DEF NextUrl
  <2>2. ~disturbed[t] => url[t] \notin good
    BY <1>14, <1>a DEF NextUrl, AttemptLeft, FetchFacts
  <2>3. ~disturbed[t] => \A u \in good : u >= url[t] + 1
    BY <1>a, <2>1, <2>2 DEF FetchFacts, Fetching
  <2> QED BY <1>a, <2>1, <2>3 DEF FetchFacts
<1>15. CASE Extract(t)
  BY <1>15, <1>a DEF Extract, FetchFacts, Fetching, Goto, Settle
<1>16. CASE CloneBegins(t)
  BY <1>16, <1>a DEF CloneBegins, FetchFacts, Fetching, Goto, Disturb
<1>17. CASE CloneEnds(t)
  BY <1>17, <1>a DEF CloneEnds, FetchFacts, Fetching, Goto
<1>18. CASE CloneFails(t)
  BY <1>18, <1>a DEF CloneFails, FetchFacts, Fetching, Goto, Settle
<1>19. CASE Fetch(t)
  BY <1>19, <1>a DEF Fetch, FetchFacts, Fetching, Goto
<1>20. CASE Checkout(t)
  BY <1>20, <1>a DEF Checkout, FetchFacts, Fetching, Goto, Disturb
<1>21. CASE CheckoutEnds(t)
  BY <1>21, <1>a DEF CheckoutEnds, FetchFacts, Fetching, Goto, Disturb
<1>22. CASE RevParse(t)
  BY <1>22, <1>a DEF RevParse, FetchFacts, Fetching, Goto
<1>23. CASE Copy(t)
  BY <1>23, <1>a DEF Copy, FetchFacts, Fetching, Goto
<1>24. CASE CopyRest(t)
  BY <1>24, <1>a DEF CopyRest, FetchFacts, Fetching, Goto, Settle
<1>25. CASE ApplyPatch(t)
  BY <1>25, <1>a DEF ApplyPatch, FetchFacts, Fetching
<1>26. CASE Finish(t)
  BY <1>26, <1>a DEF Finish, FetchFacts, Fetching, Goto, Settle
<1>27. CASE ExtractAndCopy(t)
  BY <1>27, <1>a DEF ExtractAndCopy, FetchFacts, Fetching, Goto, Settle
<1>28. CASE ExtractRest(t)
  BY <1>28, <1>a DEF ExtractRest, FetchFacts, Fetching, Goto
<1> QED
  BY <1>1, <1>2, <1>3, <1>4, <1>5, <1>6, <1>7, <1>8, <1>9, <1>10, <1>11, <1>12, <1>13, <1>14,
     <1>15, <1>16, <1>17, <1>18, <1>19, <1>20, <1>21, <1>22, <1>23, <1>24, <1>25, <1>26,
     <1>27, <1>28 DEF StepOf, Step, Stops

-----------------------------------------------------------------------------
(* A step of a tree keeps the whole invariant. *)
LEMMA TreeStep == ASSUME IInv, TypeOK', NEW t \in Trees, StepOf(t) PROVE IInv'
<1>1. ASSUME NEW q \in Trees
      PROVE  /\ Local(q)' /\ Vouched(q)' /\ Known(q)' /\ KnownClone(q)'
             /\ FetchFacts(q)'
  <2>1. CASE q = t
    BY <2>1, LocalKept, VouchedKept, KnownKept, KnownCloneKept, FetchKept
  <2>2. CASE q # t
    <3>1. /\ pc'[q] = pc[q] /\ pin'[q] = pin[q] /\ url'[q] = url[q] /\ tries'[q] = tries[q]
          /\ dir'[q] = dir[q] /\ verified'[q] = verified[q] /\ vouched'[q] = vouched[q]
          /\ kind' = kind /\ published' = published
      BY <2>2, OthersLeftAlone
    <3>2. Local(q)' /\ Vouched(q)'
      <4>1. Local(q) /\ Vouched(q)
        BY DEF IInv
      <4>2. Local(q)'
        BY <3>1, <4>1 DEF Local, IsGit, PatchCount
      <4>3. Vouched(q)'
        BY <3>1, <4>1 DEF Vouched, Whole, PatchCount
      <4> QED BY <4>2, <4>3
    <3> QED BY <2>2, <3>2, KnownToOthersKept, KnownCloneToOthersKept, FetchKeptByOthers
  <2> QED BY <2>1, <2>2
<1>2. FetchInv'
  BY <1>1 DEF FetchInv, FetchFacts
<1>3. CloneInv' /\ WritersAtWork' /\ RemainsAttended' /\ AloneInCache' /\ AloneAtClone'
  BY CloneKept, WritersKept, AttendedKept, AloneKept, AloneAtCloneKept
<1> QED BY <1>1, <1>2, <1>3 DEF IInv

(* What is published, and a step that changes nothing, are no matter of    *)
(* the invariant.                                                          *)
LEMMA OtherStep ==
    IInv /\ TypeOK' /\ ((\E r \in Revisions : Publish(r)) \/ UNCHANGED vars) => IInv'
<1> SUFFICES ASSUME IInv, TypeOK', (\E r \in Revisions : Publish(r)) \/ UNCHANGED vars
             PROVE  IInv'
  OBVIOUS
<1>1. UNCHANGED <<kind, good, tarball, writers, clone, pc, pin, url, tries, dir,
                  verified, disturbed, vouched, found, kills, remains, proven>>
  BY DEF Publish, vars, fixed, cache, loop, history, past
<1>2. published \subseteq published'
  BY DEF Publish, vars
<1>3. ASSUME NEW q \in Trees PROVE Local(q)' /\ Vouched(q)' /\ Known(q)' /\ KnownClone(q)'
  <2>1. Local(q) /\ Vouched(q) /\ Known(q) /\ KnownClone(q)
    BY DEF IInv
  <2>2. Local(q)'
    BY <1>1, <1>2, <2>1 DEF Local, IsGit, PatchCount
  <2>3. Vouched(q)'
    BY <1>1, <2>1 DEF Vouched, Whole, PatchCount
  <2>4. Known(q)' /\ KnownClone(q)'
    BY <1>1, <2>1 DEF Known, KnownClone, HoldsPin, IsGit
  <2> QED BY <2>2, <2>3, <2>4
<1>4. CloneInv' /\ WritersAtWork' /\ RemainsAttended' /\ FetchInv'
  BY <1>1 DEF IInv, CloneInv, WritersAtWork, RemainsAttended, FetchInv
<1>5. AloneInCache' /\ AloneAtClone'
  BY <1>1 DEF IInv, AloneInCache, AloneAtClone, IsGit
<1> QED BY <1>3, <1>4, <1>5 DEF IInv

(* The strengthened invariant holds in every reachable state. *)
THEOREM Invariance == Spec => []IInv
<1>1. IInv /\ [Next]_vars => IInv'
  <2> SUFFICES ASSUME IInv, [Next]_vars PROVE IInv'
    OBVIOUS
  <2>1. TypeOK'
    BY TypesKept
  <2>2. \/ \E t \in Trees : StepOf(t)
        \/ (\E r \in Revisions : Publish(r)) \/ UNCHANGED vars
    BY DEF Next, StepOf
  <2> QED BY <2>1, <2>2, TreeStep, OtherStep
<1> QED BY Initially, <1>1, PTL DEF Spec

(* Caches, directories and processes keep their types, and no loop makes   *)
(* more rounds than there are attempts or patches.                         *)
THEOREM TypeCorrect == Spec => []TypeOK
<1>1. IInv => TypeOK  BY DEF IInv
<1> QED BY <1>1, Invariance, PTL

(* For every kind of delivery: a directory filled from a cache that was    *)
(* verified and not disturbed holds the pinned source and all its patches, *)
(* also when a later run takes it on the word of its stamp.                *)
THEOREM DeliveredCorrect == Spec => []DeliveredIsPinned
<1>1. IInv => DeliveredIsPinned
  BY DEF IInv, Vouched, DeliveredIsPinned
<1> QED BY <1>1, Invariance, PTL

(* The cache is left with a tarball some tree has verified, or with what a *)
(* killed process left.                                                    *)
THEOREM RestingCorrect == Spec => []RestingTarballWasVerified
<1>1. IInv => RestingTarballWasVerified
  BY DEF IInv, RemainsAttended, Filling, AtRest, AtRestPCs, RestingTarballWasVerified
<1> QED BY <1>1, Invariance, PTL

(* A mismatch, a tarball that does not extract, a repository that is not   *)
(* whole, a lock: each is of a kill, of another process or of another      *)
(* revision, and never of an earlier step that failed.                     *)
THEOREM FatalExplained == Spec => FatalHasCause
<1>1. ASSUME IInv, NEW t \in Trees
      PROVE  /\ HashDiffers(t) => disturbed[t] \/ "tarball" \in remains \/ proven
             /\ ExtractFails(t) => disturbed[t] \/ "tarball" \in remains
             /\ Vanished(t) \/ HeadDiffers(t) \/ CloneCollides(t) => disturbed[t]
             /\ GitFails(t) /\ clone.state # "whole" => disturbed[t] \/ "clone" \in remains
             /\ CheckoutLocked(t) => \/ "lock" \in remains
                                     \/ \E q \in Trees : pc[q] = "checking_out"
             /\ CheckoutUnknown(t) => kind = "git" /\ found[t]
             /\ PatchFails(t) => ~vouched[t]
  <2>1. /\ kind \in AllKinds /\ Known(t) /\ KnownClone(t) /\ Local(t) /\ Vouched(t)
        /\ RemainsAttended /\ CloneInv
    BY <1>1, KindsAssumption DEF IInv, TypeOK
  <2>2. ASSUME pc[t] \in {"hash", "extract"}, ~disturbed[t], ~verified[t]
        PROVE  tarball = None \/ proven \/ "tarball" \in remains
    <3>1. pc[t] \in Unverified /\ ~IsGit /\ pc[t] \notin Filling
      BY <2>1, <2>2 DEF Local, TarballPlaces, Unverified, Filling
    <3>2. \A q \in Trees : pc[q] \notin Filling
      BY <1>1, <2>2, <3>1 DEF IInv, AloneInCache
    <3> QED BY <2>1, <3>2 DEF RemainsAttended
  <2>3. HashDiffers(t) => disturbed[t] \/ "tarball" \in remains \/ proven
    BY <2>1, <2>2 DEF HashDiffers, Local
  <2>4. ExtractFails(t) => disturbed[t] \/ "tarball" \in remains
    <3> SUFFICES ASSUME ExtractFails(t), ~disturbed[t] PROVE "tarball" \in remains
      OBVIOUS
    <3>1. pc[t] = "extract" /\ tarball \in {Partial, Foreign} /\ ~IsGit
      BY <2>1 DEF ExtractFails, Local, TarballPlaces
    <3>2. tarball \notin Revisions /\ tarball # None
      BY <3>1, ContentsAssumption
    <3>3. ~verified[t]
      BY <1>1, <2>1, <3>1, <3>2, Working DEF Known, HoldsPin
    <3>4. ~proven
      BY <2>1, <3>2 DEF RemainsAttended
    <3> QED BY <2>2, <3>1, <3>2, <3>3, <3>4
  <2>5. Vanished(t) \/ HeadDiffers(t) \/ CloneCollides(t) => disturbed[t]
    BY <2>1 DEF Vanished, HeadDiffers, CloneCollides, Known, KnownClone
  <2>6. GitFails(t) /\ clone.state # "whole" => disturbed[t] \/ "clone" \in remains
    BY <2>1 DEF GitFails, KnownClone
  <2>7. CheckoutLocked(t) => "lock" \in remains \/ \E q \in Trees : pc[q] = "checking_out"
    BY <2>1 DEF CheckoutLocked, CloneInv
  <2>8. CheckoutUnknown(t) => kind = "git" /\ found[t]
    BY <2>1 DEF CheckoutUnknown, Known, KnownClone, Local, ClonePlaces, Cloning, IsGit
  <2>9. PatchFails(t) => ~vouched[t]
    BY <2>1 DEF PatchFails, Vouched, Local
  <2> QED BY <2>3, <2>4, <2>5, <2>6, <2>7, <2>8, <2>9
<1>2. IInv =>
        \A t \in Trees :
          /\ HashDiffers(t) => disturbed[t] \/ "tarball" \in remains \/ proven
          /\ ExtractFails(t) => disturbed[t] \/ "tarball" \in remains
          /\ Vanished(t) \/ HeadDiffers(t) \/ CloneCollides(t) => disturbed[t]
          /\ GitFails(t) /\ clone.state # "whole" => disturbed[t] \/ "clone" \in remains
          /\ CheckoutLocked(t) => \/ "lock" \in remains
                                  \/ \E q \in Trees : pc[q] = "checking_out"
          /\ CheckoutUnknown(t) => kind = "git" /\ found[t]
          /\ PatchFails(t) => ~vouched[t]
  BY <1>1
<1> QED BY <1>2, Invariance, PTL DEF FatalHasCause

(* A fetch nobody disturbs fails only if no URL serves the pinned tarball. *)
THEOREM FetchCorrect == Spec => FetchFindsThePin
<1>1. ASSUME IInv, NEW t \in Trees, AllUrlsFail(t), ~disturbed[t] PROVE good = {}
  <2>1. /\ pc[t] = "download" /\ tries[t] >= Attempts /\ url[t] = 2
        /\ good \subseteq 1..2
    BY <1>1, UrlCount, RoundsBound, AttemptsAssumption DEF AllUrlsFail, AttemptLeft, IInv,
       TypeOK
  <2>2. /\ \A u \in good : u >= 2
        /\ 2 \in good => tries[t] < Attempts
    BY <1>1, <2>1 DEF IInv, FetchInv, Fetching
  <2>3. 2 \notin good
    BY <1>1, <2>1, <2>2, RoundsBound, AttemptsAssumption DEF IInv, TypeOK
  <2> QED BY <2>1, <2>2, <2>3
<1>2. IInv => \A t \in Trees : AllUrlsFail(t) => disturbed[t] \/ good = {}
  BY <1>1
<1> QED BY <1>2, Invariance, PTL DEF FetchFindsThePin
=============================================================================
