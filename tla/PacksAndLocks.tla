--------------------------- MODULE PacksAndLocks ---------------------------
(***************************************************************************)
(* A pack in use: composed for one of its profiles (Composition), and      *)
(* locked, verified and compared (Lockfile). The two share no state: what  *)
(* a lock is made from is a composition that succeeded.                    *)
(***************************************************************************)
EXTENDS Composition

CONSTANTS Starts, Packs, Profiles, LockedContents, Slots, PathBytes(_), MaxLockBytes, MaxMoves

VARIABLES locked, files, locks, truth, moves, opened, did

lockVars == <<locked, files, locks, truth, moves, opened, did>>

Locks == INSTANCE Lockfile WITH pack <- locked, Contents <- LockedContents

ASSUME PackAssumption == CompositionAssumption
ASSUME LockAssumption == Locks!LockfileAssumption

\* What a lock says can be relied on (the lock and verify commands).
LocksAreTrue == Locks!LocksAreTrue

\* Locks are compared alike, and whole (the verify and diff commands).
ComparesExactly == Locks!ComparesExactly
=============================================================================
