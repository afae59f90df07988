---------------------------- MODULE ArchiveCache ----------------------------
(***************************************************************************)
(* One file of the prebuilt cache, <EXTDEPS_CACHE>/prebuilt/<archive>, and *)
(* the configures of several build trees that use it at the same time.     *)
(* The cache belongs to the user, nothing locks it, and a download writes  *)
(* to the final name.  The archive name carries the recipe, not the bytes: *)
(* each release of the same recipe has an archive of that name and a       *)
(* SHA-256 of its own, and build trees may be pinned to different ones.    *)
(*                                                                         *)
(* Files behave as on POSIX: a process that has a file open keeps it when  *)
(* the name is removed, opening for a download truncates, and readers see  *)
(* what writers do.  A file has two parts, enough to be empty, cut short,  *)
(* torn, mixed or whole.  Hashing a file is one step.                      *)
(***************************************************************************)
EXTENDS Naturals, FiniteSets

CONSTANTS
    Procs,       \* configures, each of a build tree of its own
    Releases,    \* releases that publish an archive of this name
    Files,       \* identities of files
    Attempts,    \* downloads that are tried: 3 in the code
    MaxKills,    \* bound: how many configures are killed
    None         \* no file, no data

ASSUME AttemptsAssumption == Attempts \in Nat \ {0}
ASSUME KillsAssumption    == MaxKills \in Nat
ASSUME NoneAssumption     == None \notin Files \cup Releases

VARIABLES
    path,      \* the file that has the archive's name, or None
    data,      \* what each file holds, part by part
    pc,        \* where each configure is, or how its fetch ended
    pin,       \* the release in the configure's lock line, with its SHA-256
    tries,     \* downloads begun in the running loop
    handle,    \* the file the configure has open
    from,      \* the release whose bytes are being written or read
    got,       \* the release whose archive was extracted
    touched,   \* another process changed the cache since p began or verified
    kills      \* configures killed so far

local == <<pin, tries, handle, from, got>>
vars  == <<path, data, local, pc, touched, kills>>

AtRestPCs == {"idle", "prebuilt", "source", "failed"}
PCs == AtRestPCs \cup {"look", "hash", "download", "first", "second",
                       "check", "remove", "extract", "read"}

Empty    == [first |-> None, second |-> None]
Contents == [first : Releases \cup {None}, second : Releases \cup {None}]

Complete(r) == [first |-> r, second |-> r]

Init ==
    /\ path = None
    /\ data = [f \in Files |-> Empty]
    /\ pc = [p \in Procs |-> "idle"]
    /\ pin \in [Procs -> Releases]
    /\ tries = [p \in Procs |-> 0]
    /\ handle = [p \in Procs |-> None]
    /\ from = [p \in Procs |-> None]
    /\ got = [p \in Procs |-> None]
    /\ touched = [p \in Procs |-> FALSE]
    /\ kills = 0

-----------------------------------------------------------------------------
AtRest(p) == pc[p] \in AtRestPCs

Goto(p, l) == pc' = [pc EXCEPT ![p] = l]

Close(p) ==
    /\ handle' = [handle EXCEPT ![p] = None]
    /\ from' = [from EXCEPT ![p] = None]

(* The contents d, without the files that have lost their name and that    *)
(* nobody has open any more.                                               *)
Keep(d) ==
    data' = [f \in Files |->
                IF f = path' \/ \E q \in Procs : handle'[q] = f THEN d[f] ELSE Empty]

LeaveLoop(p) == tries' = [tries EXCEPT ![p] = 0]

(* p writes, truncates or removes: everyone else who is at work may notice. *)
Touch(p) == touched' = [q \in Procs |-> touched[q] \/ (q # p /\ ~AtRest(q))]

(* A configure of this tree, with whatever the lock pins by now, finds     *)
(* that the prefix does not hold the archive yet.                          *)
Start(p, r) ==
    /\ AtRest(p)
    /\ Goto(p, "look")
    /\ pin' = [pin EXCEPT ![p] = r]
    /\ got' = [got EXCEPT ![p] = None]
    /\ touched' = [touched EXCEPT ![p] = FALSE]
    /\ UNCHANGED <<path, data, tries, handle, from, kills>>

-----------------------------------------------------------------------------
(* Check if the prebuilt is already cached.                                *)

Look(p) ==
    /\ pc[p] = "look"
    /\ Goto(p, IF path = None THEN "download" ELSE "hash")
    /\ UNCHANGED <<path, data, local, touched, kills>>

(* file(SHA256) of a name that is gone is a fatal error. *)
ArchiveVanished(p) ==
    /\ pc[p] \in {"hash", "check", "extract"}
    /\ path = None
    /\ Goto(p, "failed")
    /\ LeaveLoop(p)
    /\ UNCHANGED <<path, data, pin, handle, from, got, touched, kills>>

(* Faulty variant: any complete archive of that name will do. *)
VerifiedByName(p) == \E r \in Releases : data[path] = Complete(r)

Verified(p) == data[path] = Complete(pin[p])

(* Faulty variant: a file in the cache is taken as it is. *)
HashTrusting(p) ==
    /\ pc[p] = "hash"
    /\ path # None
    /\ Goto(p, "extract")
    /\ touched' = [touched EXCEPT ![p] = FALSE]
    /\ UNCHANGED <<path, data, local, kills>>

Hash(p) ==
    /\ pc[p] = "hash"
    /\ path # None
    /\ IF Verified(p)
       THEN Goto(p, "extract") /\ touched' = [touched EXCEPT ![p] = FALSE]
       ELSE Goto(p, "download") /\ UNCHANGED touched
    /\ UNCHANGED <<path, data, local, kills>>

-----------------------------------------------------------------------------
(* Download the prebuilt archive if not cached or checksum mismatch.       *)

Unused == { f \in Files : f # path /\ \A q \in Procs : handle[q] # f }

(* Faulty variant: the loop counts from 0 to Attempts. *)
AttemptsLeftFromZero(p) == tries[p] <= Attempts

AttemptsLeft(p) == tries[p] < Attempts

(* The server sends the bytes of any release under this name: a mirror may *)
(* have been filled from another one.                                      *)
OpenForDownload(p) ==
    /\ pc[p] = "download"
    /\ AttemptsLeft(p)
    /\ \E f \in IF path = None THEN Unused ELSE {path} :
           /\ path' = f
           /\ data' = [data EXCEPT ![f] = Empty]
           /\ handle' = [handle EXCEPT ![p] = f]
    /\ \E r \in Releases : from' = [from EXCEPT ![p] = r]
    /\ tries' = [tries EXCEPT ![p] = @ + 1]
    /\ Goto(p, "first")
    /\ Touch(p)
    /\ UNCHANGED <<pin, got, kills>>

WriteFirst(p) ==
    /\ pc[p] = "first"
    /\ data' = [data EXCEPT ![handle[p]].first = from[p]]
    /\ Goto(p, "second")
    /\ Touch(p)
    /\ UNCHANGED <<path, local, kills>>

WriteSecond(p) ==
    /\ pc[p] = "second"
    /\ Close(p)
    /\ Goto(p, "check")
    /\ Touch(p)
    /\ UNCHANGED <<path, pin, tries, got, kills>>
    /\ Keep([data EXCEPT ![handle[p]].second = from[p]])

(* Faulty variant: what a failed download left stays in the cache. *)
DownloadFailsKeepsFile(p) ==
    /\ pc[p] \in {"first", "second"}
    /\ Close(p)
    /\ Goto(p, "download")
    /\ UNCHANGED <<path, pin, tries, got, touched, kills>>
    /\ Keep(data)

(* A status code other than 0, after any part of the file. *)
DownloadFails(p) ==
    /\ pc[p] \in {"first", "second"}
    /\ Close(p)
    /\ Goto(p, "remove")
    /\ UNCHANGED <<path, pin, tries, got, touched, kills>>
    /\ Keep(data)

Check(p) ==
    /\ pc[p] = "check"
    /\ path # None
    /\ IF Verified(p)
       THEN /\ Goto(p, "extract")
            /\ LeaveLoop(p)
            /\ touched' = [touched EXCEPT ![p] = FALSE]
       ELSE Goto(p, "remove") /\ UNCHANGED <<tries, touched>>
    /\ UNCHANGED <<path, data, pin, handle, from, got, kills>>

(* Faulty variant: a failed attempt does not count. *)
RemoveUncounted(p) ==
    /\ pc[p] = "remove"
    /\ path' = None
    /\ tries' = [tries EXCEPT ![p] = @ - 1]
    /\ Goto(p, "download")
    /\ Touch(p)
    /\ UNCHANGED <<pin, handle, from, got, kills>>
    /\ Keep(data)

(* file(REMOVE) of the name, whichever file has it by now. *)
Remove(p) ==
    /\ pc[p] = "remove"
    /\ path' = None
    /\ Goto(p, "download")
    /\ Touch(p)
    /\ UNCHANGED <<local, kills>>
    /\ Keep(data)

(* "Oh well, rebuild then" *)
GiveUp(p) ==
    /\ pc[p] = "download"
    /\ ~AttemptsLeft(p)
    /\ Goto(p, "source")
    /\ LeaveLoop(p)
    /\ UNCHANGED <<path, data, pin, handle, from, got, touched, kills>>

-----------------------------------------------------------------------------
(* Extract into the prefix.  An archive that is cut short, torn or mixed   *)
(* does not extract.                                                       *)

OpenArchive(p) ==
    /\ pc[p] = "extract"
    /\ path # None
    /\ handle' = [handle EXCEPT ![p] = path]
    /\ from' = [from EXCEPT ![p] = data[path].first]
    /\ Goto(p, "read")
    /\ UNCHANGED <<path, data, pin, tries, got, touched, kills>>

Extracts(p) == from[p] # None /\ data[handle[p]].second = from[p]

Extracted(p) ==
    /\ pc[p] = "read"
    /\ Extracts(p)
    /\ got' = [got EXCEPT ![p] = from[p]]
    /\ Close(p)
    /\ Goto(p, "prebuilt")
    /\ UNCHANGED <<path, pin, tries, touched, kills>>
    /\ Keep(data)

ExtractionFails(p) ==
    /\ pc[p] = "read"
    /\ ~Extracts(p)
    /\ Close(p)
    /\ Goto(p, "failed")
    /\ UNCHANGED <<path, pin, tries, got, touched, kills>>
    /\ Keep(data)

-----------------------------------------------------------------------------
(* The process is killed; files stay as they are. *)
Kill(p) ==
    /\ ~AtRest(p)
    /\ kills < MaxKills
    /\ kills' = kills + 1
    /\ Close(p)
    /\ LeaveLoop(p)
    /\ touched' = [touched EXCEPT ![p] = FALSE]
    /\ Goto(p, "idle")
    /\ UNCHANGED <<path, pin, got>>
    /\ Keep(data)

Step(p) ==
    \/ Look(p) \/ ArchiveVanished(p) \/ Hash(p)
    \/ OpenForDownload(p) \/ WriteFirst(p) \/ WriteSecond(p) \/ DownloadFails(p)
    \/ Check(p) \/ Remove(p) \/ GiveUp(p)
    \/ OpenArchive(p) \/ Extracted(p) \/ ExtractionFails(p)

Next ==
    \E p \in Procs :
        \/ \E r \in Releases : Start(p, r)
        \/ Step(p)
        \/ Kill(p)

Spec == Init /\ [][Next]_vars

(* A running configure is scheduled; no download has to succeed. *)
FairSpec == Spec /\ \A p \in Procs : WF_vars(Step(p))

-----------------------------------------------------------------------------
TypeOK ==
    /\ path \in Files \cup {None}
    /\ data \in [Files -> Contents]
    /\ pc \in [Procs -> PCs]
    /\ pin \in [Procs -> Releases]
    /\ tries \in [Procs -> 0..Attempts]
    /\ handle \in [Procs -> Files \cup {None}]
    /\ from \in [Procs -> Releases \cup {None}]
    /\ got \in [Procs -> Releases \cup {None}]
    /\ touched \in [Procs -> BOOLEAN]
    /\ kills \in 0..MaxKills

(* The archive that a configure extracts is the one its lock pins, if no   *)
(* other process changed the cache after the configure verified it, what-  *)
(* ever killed configures and wrong mirrors have left there before.        *)
UndisturbedDeliversPin ==
    \A p \in Procs : pc[p] = "prebuilt" /\ ~touched[p] => got[p] = pin[p]

(* What lies in the cache never stops a configure that has it for itself:  *)
(* a damaged or foreign file is downloaded again or leads to a local       *)
(* build, and the fetch fails only when another process interfered.        *)
FailsOnlyByInterference ==
    \A p \in Procs : pc[p] = "failed" => touched[p]

(* However the processes interfere, once all are done and none was killed, *)
(* the cache holds no remains: a complete archive or nothing.              *)
LeftClean ==
    kills = 0 /\ (\A p \in Procs : AtRest(p)) =>
        path = None \/ \E r \in Releases : data[path] = Complete(r)

(* The most steps that a configure can still make: five for each download  *)
(* that is left, on top of those on the way in and out.                    *)
StepsLeft(p) ==
    LET downloads == 5 * (Attempts - tries[p])
    IN  CASE pc[p] = "look"     -> downloads + 5
          [] pc[p] = "hash"     -> downloads + 4
          [] pc[p] = "download" -> downloads + 3
          [] pc[p] = "first"    -> downloads + 7
          [] pc[p] = "second"   -> downloads + 6
          [] pc[p] = "check"    -> downloads + 5
          [] pc[p] = "remove"   -> downloads + 4
          [] pc[p] = "extract"  -> 2
          [] pc[p] = "read"     -> 1
          [] OTHER              -> 0

(* What the others do to the cache never sets a configure back: each step  *)
(* of its own brings it nearer to its end, none of theirs makes it longer. *)
NobodyIsSetBack ==
    [][\A p \in Procs :
           /\ StepsLeft(p)' \in Nat
           /\ \/ AtRest(p)
              \/ StepsLeft(p)' < StepsLeft(p)
              \/ pc'[p] = pc[p] /\ tries'[p] = tries[p]]_vars

(* Processes that take each other's files away do not keep each other busy *)
(* forever.                                                                *)
EveryFetchEnds == \A p \in Procs : ~AtRest(p) ~> AtRest(p)
=============================================================================
