----------------------------- MODULE MCFileLock -----------------------------
(* The lock file with a few callers; callers and inodes are interchangeable. *)
EXTENDS FileLock, TLC

CONSTANTS p1, p2, p3

LockSymmetry == Permutations(Inodes)
=============================================================================
