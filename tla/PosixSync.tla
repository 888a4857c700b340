----------------------------- MODULE PosixSync -----------------------------
(***************************************************************************)
(* A condition variable together with the mutex its waits give up, for the *)
(* programs in which what happens while the mutex is held matters step by  *)
(* step.  Like CondVar it is the library's contract.                       *)
(***************************************************************************)
EXTENDS CondVar

CONSTANT NoThread   \* the owner of a free mutex

VARIABLE mutex

SyncInit == mutex = NoThread /\ waiters = {}

\* pthread_mutex_lock, pthread_mutex_unlock.
Lock(t) == mutex = NoThread /\ mutex' = t
Unlock  == mutex' = NoThread

\* pthread_cond_wait: gives the mutex up and blocks, in one atomic step.
Block(t) == Unlock /\ Sleeps(t)

\* The second half of the wait: a thread that was woken takes the mutex back.
Relock(t) == t \notin waiters /\ Lock(t)
=============================================================================
