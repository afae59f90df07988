--------------------------- MODULE MCArchiveCache ---------------------------
(***************************************************************************)
(* Two build trees and two releases of one recipe, pinned in any way.  A   *)
(* file for each process: one that opens a new file has none open, so one  *)
(* is free even when all the others hold removed ones.  Two attempts: the  *)
(* first may fail and the second succeed, or both fail.                    *)
(***************************************************************************)
EXTENDS ArchiveCache

CONSTANTS p1, p2, l1, l2, f1, f2

MCProcs    == {p1, p2}
MCReleases == {l1, l2}
MCFiles    == {f1, f2}
=============================================================================
