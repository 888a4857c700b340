------------------------------ MODULE CondVar ------------------------------
(***************************************************************************)
(* A condition variable, as pthread_cond_t and std::condition_variable     *)
(* provide it to the programs of this repository.  The library is not part *)
(* of the repository: this is the contract its callers rely on.            *)
(*                                                                         *)
(* A thread blocked in a wait is in "waiters".  Once it is signalled it    *)
(* leaves the set and contends for the mutex like any other thread.        *)
(***************************************************************************)
CONSTANT
  SpuriousWakeups   \* whether a wait may return although nobody signalled

ASSUME SpuriousAssumption == SpuriousWakeups \in BOOLEAN

VARIABLE waiters

\* pthread_cond_signal wakes one blocked thread, and nobody if none is blocked.
Signal ==
  \/ waiters = {} /\ UNCHANGED waiters
  \/ \E t \in waiters : waiters' = waiters \ {t}

\* pthread_cond_broadcast.
Broadcast == waiters' = {}

\* The first half of a wait: the thread blocks as it gives the mutex up.
Sleeps(t) == waiters' = waiters \union {t}

\* POSIX and C++ both let a wait return without a signal.
SpuriousWakeup(t) == SpuriousWakeups /\ t \in waiters /\ waiters' = waiters \ {t}
=============================================================================
