----------------------------- MODULE Semaphore -----------------------------
(***************************************************************************)
(* POSIX counting semaphores as the programs of this repository use them:  *)
(* sem_wait blocks while the count is 0.  The library is not part of the   *)
(* repository.                                                             *)
(***************************************************************************)
LOCAL INSTANCE Naturals

SemWait(count) == count > 0 /\ count' = count - 1
SemPost(count) == count' = count + 1
=============================================================================
