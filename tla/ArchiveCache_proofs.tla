------------------------ MODULE ArchiveCache_proofs ------------------------
(***************************************************************************)
(* The archive cache for any number of configures, releases, attempts and  *)
(* killed processes.                                                       *)
(***************************************************************************)
EXTENDS ArchiveCache, TLAPS

(* A process has a file open exactly while it writes or reads it. *)
OpenWhileUsed ==
    \A p \in Procs :
        handle[p] # None <=> pc[p] \in {"first", "second", "read"}

(* What p sees before it verifies, when nobody interferes: the name is     *)
(* there from the moment it has found it or made it.                       *)
NameStays ==
    \A p \in Procs :
        ~touched[p] /\ pc[p] \in {"hash", "first", "second", "check"} => path # None

(* What p sees after it has verified, when nobody interferes. *)
StaysVerified ==
    \A p \in Procs :
        ~touched[p] =>
            /\ pc[p] = "extract" => path # None /\ data[path] = Complete(pin[p])
            /\ pc[p] = "read" => /\ data[handle[p]] = Complete(pin[p])
                                 /\ from[p] = pin[p]

IInv ==
    /\ TypeOK
    /\ OpenWhileUsed
    /\ NameStays
    /\ StaysVerified
    /\ UndisturbedDeliversPin
    /\ FailsOnlyByInterference

(* The contents of files and the places of the program. *)
LEMMA ContentTypes ==
    /\ Empty \in Contents
    /\ \A r \in Releases : Complete(r) \in Contents /\ Complete(r) # Empty
BY NoneAssumption DEF Empty, Contents, Complete

(* Writing a part of a file gives a file. *)
LEMMA PartWritten ==
    ASSUME NEW c \in Contents, NEW b \in Releases \cup {None}
    PROVE  /\ [c EXCEPT !.first = b] \in Contents
           /\ [c EXCEPT !.second = b] \in Contents
           /\ c.first \in Releases \cup {None}
BY DEF Contents

(* The cache starts without the archive. *)
LEMMA Initially == Init => IInv
BY ContentTypes, AttemptsAssumption, KillsAssumption
   DEF Init, IInv, TypeOK, PCs, AtRestPCs, OpenWhileUsed, NameStays, StaysVerified,
       UndisturbedDeliversPin, FailsOnlyByInterference

(* Every step of every configure keeps the types. *)
LEMMA TypesKept == IInv /\ [Next]_vars => TypeOK'
<1> SUFFICES ASSUME IInv, [Next]_vars PROVE TypeOK'
  OBVIOUS
<1> USE DEF IInv, TypeOK, PCs, AtRestPCs
<1>1. CASE UNCHANGED vars
  BY <1>1 DEF vars, local
<1>2. ASSUME NEW p \in Procs, NEW r \in Releases, Start(p, r) PROVE TypeOK'
  BY <1>2 DEF Start, Goto
<1>3. ASSUME NEW p \in Procs, Kill(p) PROVE TypeOK'
  BY <1>3, ContentTypes, AttemptsAssumption, KillsAssumption DEF Kill, Goto, Close, Keep, LeaveLoop
<1>4. ASSUME NEW p \in Procs, Step(p) PROVE TypeOK'
  <2>1. CASE Look(p)
    BY <2>1, ContentTypes, AttemptsAssumption DEF Look, Goto, local
  <2>2. CASE ArchiveVanished(p)
    BY <2>2, ContentTypes, AttemptsAssumption DEF ArchiveVanished, Goto, LeaveLoop
  <2>3. CASE Hash(p)
    BY <2>3, ContentTypes, AttemptsAssumption DEF Hash, Goto, Verified, local
  <2>4. CASE OpenForDownload(p)
    BY <2>4, ContentTypes, AttemptsAssumption DEF OpenForDownload, Goto, Touch, Unused, AttemptsLeft
  <2>5. CASE WriteFirst(p)
    <3>1. handle[p] \in Files
      BY <2>5 DEF WriteFirst, OpenWhileUsed
    <3>2. [data[handle[p]] EXCEPT !.first = from[p]] \in Contents
      BY <3>1, PartWritten
    <3>3. data' \in [Files -> Contents]
      BY <2>5, <3>1, <3>2 DEF WriteFirst
    <3> QED BY <2>5, <3>3 DEF WriteFirst, Goto, Touch, local
  <2>6. CASE WriteSecond(p)
    <3>1. handle[p] \in Files
      BY <2>6 DEF WriteSecond, OpenWhileUsed
    <3>2. [data[handle[p]] EXCEPT !.second = from[p]] \in Contents
      BY <3>1, PartWritten
    <3>3. [data EXCEPT ![handle[p]].second = from[p]] \in [Files -> Contents]
      BY <3>1, <3>2
    <3>4. data' \in [Files -> Contents]
      BY <2>6, <3>3, ContentTypes DEF WriteSecond, Keep
    <3> QED BY <2>6, <3>4 DEF WriteSecond, Goto, Touch, Close
  <2>7. CASE DownloadFails(p)
    BY <2>7, ContentTypes, AttemptsAssumption DEF DownloadFails, Goto, Close, Keep
  <2>8. CASE Check(p)
    <3>1. path' = path /\ data' = data /\ pin' = pin /\ handle' = handle
          /\ from' = from /\ got' = got /\ kills' = kills
      BY <2>8 DEF Check
    <3>2. pc' \in [Procs -> PCs]
      BY <2>8 DEF Check, Goto
    <3>3. tries' \in [Procs -> 0..Attempts]
      BY <2>8, AttemptsAssumption DEF Check, LeaveLoop
    <3>4. touched' \in [Procs -> BOOLEAN]
      BY <2>8 DEF Check
    <3> QED BY <3>1, <3>2, <3>3, <3>4
  <2>9. CASE Remove(p)
    BY <2>9, ContentTypes, AttemptsAssumption DEF Remove, Goto, Touch, Keep, local
  <2>10. CASE GiveUp(p)
    BY <2>10, ContentTypes, AttemptsAssumption DEF GiveUp, Goto, LeaveLoop
  <2>11. CASE OpenArchive(p)
    <3>1. path \in Files
      BY <2>11 DEF OpenArchive
    <3>2. data[path].first \in Releases \cup {None}
      BY <3>1, PartWritten
    <3> QED BY <2>11, <3>1, <3>2 DEF OpenArchive, Goto
  <2>12. CASE Extracted(p)
    BY <2>12, ContentTypes, AttemptsAssumption DEF Extracted, Goto, Close, Keep, Extracts
  <2>13. CASE ExtractionFails(p)
    BY <2>13, ContentTypes, AttemptsAssumption DEF ExtractionFails, Goto, Close, Keep, Extracts
  <2> QED BY <1>4, <2>1, <2>2, <2>3, <2>4, <2>5, <2>6, <2>7, <2>8, <2>9, <2>10, <2>11, <2>12, <2>13 DEF Step
<1> QED BY <1>1, <1>2, <1>3, <1>4 DEF Next

(* Every step keeps what the processes know of the cache. *)
LEMMA KnowledgeKept ==
    IInv /\ TypeOK' /\ [Next]_vars =>
        /\ OpenWhileUsed'
        /\ NameStays'
        /\ StaysVerified'
        /\ UndisturbedDeliversPin'
        /\ FailsOnlyByInterference'
<1> SUFFICES ASSUME IInv, TypeOK', [Next]_vars
             PROVE  (OpenWhileUsed /\ NameStays /\ StaysVerified
                     /\ UndisturbedDeliversPin /\ FailsOnlyByInterference)'
  OBVIOUS
<1> USE NoneAssumption DEF IInv, TypeOK, AtRest, AtRestPCs, PCs, OpenWhileUsed, NameStays, StaysVerified,
            UndisturbedDeliversPin, FailsOnlyByInterference
<1>1. CASE UNCHANGED vars
  BY <1>1 DEF vars, local
<1>2. ASSUME NEW p \in Procs, NEW r \in Releases, Start(p, r)
      PROVE  (OpenWhileUsed /\ NameStays /\ StaysVerified
              /\ UndisturbedDeliversPin /\ FailsOnlyByInterference)'
  BY <1>2 DEF Start, Goto
<1>3. ASSUME NEW p \in Procs, Kill(p)
      PROVE  (OpenWhileUsed /\ NameStays /\ StaysVerified
              /\ UndisturbedDeliversPin /\ FailsOnlyByInterference)'
  BY <1>3 DEF Kill, Goto, Close, Keep, LeaveLoop
<1>4. ASSUME NEW p \in Procs, Step(p)
      PROVE  (OpenWhileUsed /\ NameStays /\ StaysVerified
              /\ UndisturbedDeliversPin /\ FailsOnlyByInterference)'
  <2>1. CASE Look(p)
    BY <2>1 DEF Look, Goto, local
  <2>2. CASE ArchiveVanished(p)
    BY <2>2 DEF ArchiveVanished, Goto, LeaveLoop
  <2>3. CASE Hash(p)
    BY <2>3 DEF Hash, Goto, Verified, local
  <2>4. CASE OpenForDownload(p)
    <3>1. OpenWhileUsed'
      BY <2>4 DEF OpenForDownload, Goto, Touch, Unused, AttemptsLeft
    <3>2. NameStays'
      BY <2>4 DEF OpenForDownload, Goto, Touch, Unused, AttemptsLeft
    <3>3. StaysVerified'
      BY <2>4 DEF OpenForDownload, Goto, Touch, Unused, AttemptsLeft
    <3>4. UndisturbedDeliversPin'
      BY <2>4 DEF OpenForDownload, Goto, Touch, Unused, AttemptsLeft
    <3>5. FailsOnlyByInterference'
      BY <2>4 DEF OpenForDownload, Goto, Touch, Unused, AttemptsLeft
    <3> QED BY <3>1, <3>2, <3>3, <3>4, <3>5
  <2>5. CASE WriteFirst(p)
    BY <2>5 DEF WriteFirst, Goto, Touch, local
  <2>6. CASE WriteSecond(p)
    <3>1. OpenWhileUsed'
      BY <2>6 DEF WriteSecond, Goto, Touch, Close, Keep
    <3>2. NameStays'
      BY <2>6 DEF WriteSecond, Goto, Touch, Close, Keep
    <3>3. StaysVerified'
      <4>1. ASSUME NEW q \in Procs, ~touched'[q]
            PROVE  pc'[q] \notin {"extract", "read"}
        BY <2>6, <4>1 DEF WriteSecond, Goto, Touch
      <4> QED BY <4>1
    <3>4. UndisturbedDeliversPin'
      BY <2>6 DEF WriteSecond, Goto, Touch, Close, Keep
    <3>5. FailsOnlyByInterference'
      BY <2>6 DEF WriteSecond, Goto, Touch, Close, Keep
    <3> QED BY <3>1, <3>2, <3>3, <3>4, <3>5
  <2>7. CASE DownloadFails(p)
    BY <2>7 DEF DownloadFails, Goto, Close, Keep
  <2>8. CASE Check(p)
    BY <2>8 DEF Check, Goto, Verified, LeaveLoop
  <2>9. CASE Remove(p)
    BY <2>9 DEF Remove, Goto, Touch, Keep, local
  <2>10. CASE GiveUp(p)
    BY <2>10 DEF GiveUp, Goto, LeaveLoop
  <2>11. CASE OpenArchive(p)
    BY <2>11 DEF OpenArchive, Goto, Complete
  <2>12. CASE Extracted(p)
    BY <2>12 DEF Extracted, Goto, Close, Keep, Extracts
  <2>13. CASE ExtractionFails(p)
    <3>1. touched[p]
      <4>1. pc[p] = "read" /\ ~Extracts(p)
        BY <2>13 DEF ExtractionFails
      <4>2. pin[p] \in Releases /\ Complete(pin[p]).second = pin[p]
        BY DEF Complete
      <4>3. ~touched[p] => Extracts(p)
        BY <4>1, <4>2 DEF Extracts
      <4> QED BY <4>1, <4>3
    <3> QED BY <2>13, <3>1 DEF ExtractionFails, Goto, Close, Keep
  <2> QED BY <1>4, <2>1, <2>2, <2>3, <2>4, <2>5, <2>6, <2>7, <2>8, <2>9, <2>10, <2>11, <2>12, <2>13 DEF Step
<1> QED BY <1>1, <1>2, <1>3, <1>4 DEF Next

(* The strengthened invariant holds in every reachable state. *)
THEOREM Invariance == Spec => []IInv
<1>1. IInv /\ [Next]_vars => IInv'
  BY TypesKept, KnowledgeKept DEF IInv
<1> QED BY Initially, <1>1, PTL DEF Spec

(* The state of the cache and of the configures that use it keeps its      *)
(* shape: at most Attempts downloads in a row, only known files and bytes. *)
THEOREM TypeCorrect == Spec => []TypeOK
<1>1. IInv => TypeOK  BY DEF IInv
<1> QED BY <1>1, Invariance, PTL

(* _extdeps_fetch_prebuilt extracts the pinned archive when no other       *)
(* configure disturbs it, whatever lay in the cache before.                *)
THEOREM UndisturbedCorrect == Spec => []UndisturbedDeliversPin
<1>1. IInv => UndisturbedDeliversPin  BY DEF IInv
<1> QED BY <1>1, Invariance, PTL

(* A cache that nobody else is changing cannot make _extdeps_fetch_prebuilt *)
(* stop the configure.                                                      *)
THEOREM FailureNeedsInterference == Spec => []FailsOnlyByInterference
<1>1. IInv => FailsOnlyByInterference  BY DEF IInv
<1> QED BY <1>1, Invariance, PTL
(* While no configure was killed, somebody is still going to look at a     *)
(* file that holds less than a complete archive: its writer, or one that   *)
(* is about to check or to remove it.                                      *)
RemainsAttended ==
    kills = 0 /\ path # None /\ (\A r \in Releases : data[path] # Complete(r)) =>
        \E p \in Procs : pc[p] \in {"first", "second", "check", "remove"}

(* Closing a file leaves the contents of the named one alone. *)
LEMMA NamedKept ==
    ASSUME TypeOK, path \in Files, path' = path, Keep(data)
    PROVE  data'[path'] = data[path]
BY DEF Keep, TypeOK

(* Every step of every configure leaves remains attended. *)
LEMMA AttendedKept == IInv /\ RemainsAttended /\ [Next]_vars => RemainsAttended'
<1> SUFFICES ASSUME IInv, RemainsAttended, [Next]_vars,
                    kills' = 0, path' # None,
                    \A r \in Releases : data'[path'] # Complete(r)
             PROVE  \E p \in Procs : pc'[p] \in {"first", "second", "check", "remove"}
  BY DEF RemainsAttended
<1> USE DEF IInv, TypeOK
<1>1. CASE UNCHANGED vars
  BY <1>1 DEF vars, RemainsAttended
<1>2. ASSUME NEW p \in Procs, NEW r \in Releases, Start(p, r)
      PROVE  \E q \in Procs : pc'[q] \in {"first", "second", "check", "remove"}
  BY <1>2 DEF Start, Goto, AtRest, AtRestPCs, RemainsAttended
<1>3. ASSUME NEW p \in Procs, Kill(p) PROVE FALSE
  BY <1>3, KillsAssumption DEF Kill
<1>4. ASSUME NEW p \in Procs, Step(p)
      PROVE  \E q \in Procs : pc'[q] \in {"first", "second", "check", "remove"}
  <2>1. CASE Look(p)
    BY <2>1 DEF Look, Goto, RemainsAttended
  <2>2. CASE ArchiveVanished(p)
    BY <2>2 DEF ArchiveVanished
  <2>3. CASE Hash(p)
    BY <2>3 DEF Hash, Goto, RemainsAttended
  <2>4. CASE OpenForDownload(p)
    BY <2>4 DEF OpenForDownload, Goto
  <2>5. CASE WriteFirst(p)
    BY <2>5 DEF WriteFirst, Goto
  <2>6. CASE WriteSecond(p)
    BY <2>6 DEF WriteSecond, Goto
  <2>7. CASE DownloadFails(p)
    BY <2>7 DEF DownloadFails, Goto
  <2>8. CASE Check(p)
    BY <2>8 DEF Check, Goto, Verified, RemainsAttended
  <2>9. CASE Remove(p)
    BY <2>9 DEF Remove
  <2>10. CASE GiveUp(p)
    BY <2>10 DEF GiveUp, Goto, RemainsAttended
  <2>11. CASE OpenArchive(p)
    BY <2>11 DEF OpenArchive, Goto, RemainsAttended
  <2>12. CASE Extracted(p)
    BY <2>12, NamedKept DEF Extracted, Goto, RemainsAttended
  <2>13. CASE ExtractionFails(p)
    BY <2>13, NamedKept DEF ExtractionFails, Goto, RemainsAttended
  <2> QED BY <1>4, <2>1, <2>2, <2>3, <2>4, <2>5, <2>6, <2>7, <2>8, <2>9, <2>10, <2>11, <2>12, <2>13 DEF Step
<1> QED BY <1>1, <1>2, <1>3, <1>4 DEF Next

(* However the configures interfere, the cache is left with a complete     *)
(* archive or none when all of them have ended and none was killed.        *)
THEOREM CacheLeftClean == Spec => []LeftClean
<1>1. Init => RemainsAttended
  BY DEF Init, RemainsAttended
<1>2. IInv /\ RemainsAttended => LeftClean
  BY DEF RemainsAttended, LeftClean, AtRest, AtRestPCs
<1>3. IInv /\ RemainsAttended /\ [Next]_vars => RemainsAttended'
  BY AttendedKept
<1>4. Spec => []RemainsAttended
  BY <1>1, <1>3, Invariance, PTL DEF Spec
<1> QED BY <1>2, <1>4, Invariance, PTL

-----------------------------------------------------------------------------
(* The steps that are left. *)

(* p goes forward, stays where it is, or was at rest. *)
Advances(p) ==
    /\ StepsLeft(p)' \in Nat
    /\ \/ AtRest(p)
       \/ StepsLeft(p)' < StepsLeft(p)
       \/ pc'[p] = pc[p] /\ tries'[p] = tries[p]

(* A step of another configure changes neither place nor attempts. *)
LEMMA OthersStay ==
    ASSUME TypeOK, TypeOK', NEW p \in Procs,
           pc'[p] = pc[p], tries'[p] = tries[p]
    PROVE  Advances(p)
<1>1. tries'[p] \in 0..Attempts
  BY DEF TypeOK
<1>2. 5 * (Attempts - tries'[p]) \in Nat
  BY <1>1, AttemptsAssumption
<1>3. StepsLeft(p)' \in Nat
  BY <1>2 DEF StepsLeft
<1> QED BY <1>3 DEF Advances

(* Between two places where p tries to get the archive its count falls, a  *)
(* download that begins taking the place of five steps.                    *)
LEMMA OwnStep == ASSUME IInv, TypeOK', NEW p \in Procs, Step(p) PROVE Advances(p)
<1> DEFINE n == tries[p]
           k == tries'[p]
<1>1. /\ n \in 0..Attempts /\ k \in 0..Attempts /\ Attempts \in Nat
      /\ pc \in [Procs -> PCs] /\ tries \in [Procs -> 0..Attempts]
  BY AttemptsAssumption DEF IInv, TypeOK
<1>2. /\ 5 * (Attempts - n) \in Nat /\ 5 * (Attempts - k) \in Nat
      /\ k = n + 1 => 5 * (Attempts - n) = 5 * (Attempts - k) + 5
      /\ k = n => 5 * (Attempts - n) = 5 * (Attempts - k)
  BY <1>1
<1>3. \/ /\ k = n
         /\ <<pc[p], pc'[p]>> \in
                {<<"look", "download">>, <<"look", "hash">>, <<"hash", "extract">>,
                 <<"hash", "download">>, <<"first", "second">>, <<"second", "check">>,
                 <<"first", "remove">>, <<"second", "remove">>, <<"check", "remove">>,
                 <<"remove", "download">>, <<"extract", "read">>, <<"read", "prebuilt">>,
                 <<"read", "failed">>}
      \/ k = n + 1 /\ pc[p] = "download" /\ pc'[p] = "first"
      \/ pc[p] \in {"hash", "check", "extract"} /\ pc'[p] = "failed"
      \/ pc[p] = "check" /\ pc'[p] = "extract"
      \/ pc[p] = "download" /\ pc'[p] = "source"
  <2>1. CASE Look(p) \/ Hash(p)
    BY <1>1, <2>1 DEF Look, Hash, Goto, local
  <2>2. CASE ArchiveVanished(p) \/ GiveUp(p)
    BY <1>1, <2>2 DEF ArchiveVanished, GiveUp, Goto
  <2>3. CASE OpenForDownload(p)
    BY <1>1, <2>3 DEF OpenForDownload, Goto
  <2>4. CASE WriteFirst(p) \/ WriteSecond(p) \/ DownloadFails(p)
    BY <1>1, <2>4 DEF WriteFirst, WriteSecond, DownloadFails, Goto, local
  <2>5. CASE Check(p)
    BY <1>1, <2>5 DEF Check, Goto
  <2>6. CASE Remove(p)
    BY <1>1, <2>6 DEF Remove, Goto, local
  <2>7. CASE OpenArchive(p) \/ Extracted(p) \/ ExtractionFails(p)
    BY <1>1, <2>7 DEF OpenArchive, Extracted, ExtractionFails, Goto
  <2> QED BY <2>1, <2>2, <2>3, <2>4, <2>5, <2>6, <2>7 DEF Step
<1> DEFINE a == 5 * (Attempts - n)
           b == 5 * (Attempts - k)
<1>4. StepsLeft(p) = CASE pc[p] = "look"     -> a + 5
                       [] pc[p] = "hash"     -> a + 4
                       [] pc[p] = "download" -> a + 3
                       [] pc[p] = "first"    -> a + 7
                       [] pc[p] = "second"   -> a + 6
                       [] pc[p] = "check"    -> a + 5
                       [] pc[p] = "remove"   -> a + 4
                       [] pc[p] = "extract"  -> 2
                       [] pc[p] = "read"     -> 1
                       [] OTHER              -> 0
  BY DEF StepsLeft
<1>5. StepsLeft(p)' = CASE pc'[p] = "look"     -> b + 5
                        [] pc'[p] = "hash"     -> b + 4
                        [] pc'[p] = "download" -> b + 3
                        [] pc'[p] = "first"    -> b + 7
                        [] pc'[p] = "second"   -> b + 6
                        [] pc'[p] = "check"    -> b + 5
                        [] pc'[p] = "remove"   -> b + 4
                        [] pc'[p] = "extract"  -> 2
                        [] pc'[p] = "read"     -> 1
                        [] OTHER               -> 0
  BY DEF StepsLeft
<1>6. a \in Nat /\ b \in Nat /\ (k = n + 1 => a = b + 5) /\ (k = n => a = b)
  BY <1>2
<1> HIDE DEF a, b, n, k
<1> QED BY <1>3, <1>4, <1>5, <1>6 DEF Advances

(* However many configures share the cache and whatever they take from     *)
(* each other, each ends after a bounded number of its own steps: no step  *)
(* of another one brings it back (foreach _attempt, resolve.cmake:257).    *)
THEOREM BoundedCorrect == Spec => NobodyIsSetBack
<1> DEFINE A == \A p \in Procs : Advances(p)
<1>1. IInv /\ IInv' /\ [Next]_vars => [A]_vars
  <2> SUFFICES ASSUME IInv, IInv', Next, NEW q \in Procs PROVE Advances(q)
    OBVIOUS
  <2> USE DEF IInv
  <2>1. ASSUME NEW p \in Procs, NEW r \in Releases, Start(p, r) PROVE Advances(q)
    <3>1. AtRest(p) /\ tries' = tries /\ pc' = [pc EXCEPT ![p] = "look"]
      BY <2>1 DEF Start, Goto
    <3>2. CASE q = p
      <4>1. tries'[q] \in 0..Attempts
        BY DEF TypeOK
      <4>2. 5 * (Attempts - tries'[q]) \in Nat
        BY <4>1, AttemptsAssumption
      <4>3. StepsLeft(q)' \in Nat
        BY <4>2 DEF StepsLeft
      <4> QED BY <3>1, <3>2, <4>3 DEF Advances
    <3>3. CASE q # p
      BY <3>1, <3>3, OthersStay DEF TypeOK
    <3> QED BY <3>2, <3>3
  <2>2. ASSUME NEW p \in Procs, Kill(p) PROVE Advances(q)
    <3>1. /\ ~AtRest(p) /\ tries' = [tries EXCEPT ![p] = 0] /\ pc' = [pc EXCEPT ![p] = "idle"]
      BY <2>2 DEF Kill, Goto, LeaveLoop
    <3>2. CASE q = p
      <4>1. tries[q] \in 0..Attempts /\ pc[q] \in PCs \ AtRestPCs
        BY <3>1, <3>2 DEF TypeOK, AtRest
      <4>2. 5 * (Attempts - tries[q]) \in Nat
        BY <4>1, AttemptsAssumption
      <4>3. StepsLeft(q)' = 0
        BY <3>1, <3>2 DEF StepsLeft, TypeOK
      <4>4. StepsLeft(q) > 0
        BY <4>1, <4>2 DEF StepsLeft, PCs, AtRestPCs
      <4> QED BY <4>3, <4>4 DEF Advances
    <3>3. CASE q # p
      BY <3>1, <3>3, OthersStay DEF TypeOK
    <3> QED BY <3>2, <3>3
  <2>3. ASSUME NEW p \in Procs, Step(p) PROVE Advances(q)
    <3>1. CASE q = p
      BY <2>3, <3>1, OwnStep
    <3>2. CASE q # p
      <4>1. pc'[q] = pc[q] /\ tries'[q] = tries[q]
        BY <2>3, <3>2 DEF Step, Look, ArchiveVanished, Hash, OpenForDownload, WriteFirst,
           WriteSecond, DownloadFails, Check, Remove, GiveUp, OpenArchive, Extracted,
           ExtractionFails, Goto, LeaveLoop, local, TypeOK
      <4> QED BY <4>1, OthersStay
    <3> QED BY <3>1, <3>2
  <2> QED BY <2>1, <2>2, <2>3 DEF Next
<1>2. Spec => [][A]_vars
  BY <1>1, Invariance, PTL DEF Spec
<1> QED BY <1>2 DEF NobodyIsSetBack, Advances
=============================================================================
