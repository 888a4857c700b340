--------------------------- MODULE HttpThreadPool ---------------------------
(***************************************************************************)
(* The worker pool of HttpServer/threadpool.h.  The epoll thread of        *)
(* HttpServer/main.cpp appends requests; a counting semaphore, not the     *)
(* lock, decides which worker may take one.                                *)
(*                                                                         *)
(* The list is only touched between lock() and unlock(), so these critical *)
(* sections are one step each; post() and wait() are steps of their own.   *)
(* m_stop stays false: only the destructor sets it, when main() is over.   *)
(***************************************************************************)
EXTENDS Semaphore, Naturals, Sequences, FiniteSets

CONSTANTS
  Workers,
  MaxRequests,   \* m_max_requests: 10000 in the code
  MaxCalls       \* bound on the calls of append

PoolAssumption ==
  /\ Workers # {} /\ IsFiniteSet(Workers)
  /\ MaxRequests \in Nat \ {0}
  /\ MaxCalls \in Nat

VARIABLES
  workqueue,   \* m_workqueue; the n-th call of append carries request n
  queuestat,   \* m_queuestat, the semaphore's count
  pc,          \* where each worker is
  request,     \* the request a worker holds, 0 for none
  posting,     \* append has unlocked the list and not posted yet
  calls,       \* calls of append so far
  refused,     \* requests append returned false for
  processed    \* requests whose process() has returned

vars == <<workqueue, queuestat, pc, request, posting, calls, refused, processed>>

Init ==
  /\ workqueue = <<>> /\ queuestat = 0
  /\ pc = [w \in Workers |-> "wait"]
  /\ request = [w \in Workers |-> 0]
  /\ posting = FALSE
  /\ calls = 0 /\ refused = {} /\ processed = {}
-----------------------------------------------------------------------------
(* append, called by the epoll thread *)

CanAppend == ~posting /\ calls < MaxCalls

Accept ==
  /\ CanAppend
  /\ Len(workqueue) <= MaxRequests
  /\ calls' = calls + 1
  /\ workqueue' = Append(workqueue, calls + 1)
  /\ posting' = TRUE
  /\ UNCHANGED <<queuestat, pc, request, refused, processed>>

\* The semaphore is posted whether or not the request was put in the list.
Refuse_Posts ==
  /\ CanAppend
  /\ Len(workqueue) > MaxRequests
  /\ calls' = calls + 1
  /\ refused' = refused \union {calls + 1}
  /\ SemPost(queuestat)
  /\ UNCHANGED <<workqueue, pc, request, posting, processed>>

Refuse ==
  /\ CanAppend
  /\ Len(workqueue) > MaxRequests
  /\ calls' = calls + 1
  /\ refused' = refused \union {calls + 1}
  /\ UNCHANGED <<workqueue, queuestat, pc, request, posting, processed>>

\* append returns true without posting.
Post_Forgotten ==
  /\ posting
  /\ posting' = FALSE
  /\ UNCHANGED <<workqueue, queuestat, pc, request, calls, refused, processed>>

Post ==
  /\ posting
  /\ SemPost(queuestat)
  /\ posting' = FALSE
  /\ UNCHANGED <<workqueue, pc, request, calls, refused, processed>>
-----------------------------------------------------------------------------
(* run *)

Wait(w) ==
  /\ pc[w] = "wait"
  /\ SemWait(queuestat)
  /\ pc' = [pc EXCEPT ![w] = "ticket"]
  /\ UNCHANGED <<workqueue, request, posting, calls, refused, processed>>

\* The request is read and stays in the list.
Fetch_NoPop(w) ==
  /\ pc[w] = "ticket"
  /\ IF workqueue = <<>>
       THEN /\ pc' = [pc EXCEPT ![w] = "wait"]
            /\ UNCHANGED request
       ELSE /\ request' = [request EXCEPT ![w] = Head(workqueue)]
            /\ pc' = [pc EXCEPT ![w] = "process"]
  /\ UNCHANGED <<workqueue, queuestat, posting, calls, refused, processed>>

\* A worker that finds the list empty goes back to wait for the semaphore.
Fetch(w) ==
  /\ pc[w] = "ticket"
  /\ IF workqueue = <<>>
       THEN /\ pc' = [pc EXCEPT ![w] = "wait"]
            /\ UNCHANGED <<workqueue, request>>
       ELSE /\ request' = [request EXCEPT ![w] = Head(workqueue)]
            /\ workqueue' = Tail(workqueue)
            /\ pc' = [pc EXCEPT ![w] = "process"]
  /\ UNCHANGED <<queuestat, posting, calls, refused, processed>>

Process(w) ==
  /\ pc[w] = "process"
  /\ processed' = processed \union {request[w]}
  /\ request' = [request EXCEPT ![w] = 0]
  /\ pc' = [pc EXCEPT ![w] = "wait"]
  /\ UNCHANGED <<workqueue, queuestat, posting, calls, refused>>
-----------------------------------------------------------------------------
Run(w) == Wait(w) \/ Fetch(w) \/ Process(w)

Next ==
  \/ Accept \/ Refuse \/ Post
  \/ \E w \in Workers : Run(w)

Spec == Init /\ [][Next]_vars

\* Threads are scheduled and process() returns.  Workers compete for the
\* semaphore; requests need only one of them to get it, so the fairness is that
\* of the pool as a whole for wait() and of each worker for what comes after.
Fairness ==
  /\ WF_vars(Post)
  /\ WF_vars(\E w \in Workers : Wait(w))
  /\ \A w \in Workers : WF_vars(Fetch(w) \/ Process(w))

FairSpec == Spec /\ Fairness
-----------------------------------------------------------------------------
\* The list holds requests of append, each worker at most one, and no count is negative.
TypeOK ==
  /\ workqueue \in Seq(1..MaxCalls)
  /\ queuestat \in Nat
  /\ pc \in [Workers -> {"wait", "ticket", "process"}]
  /\ request \in [Workers -> 0..MaxCalls]
  /\ posting \in BOOLEAN
  /\ calls \in 0..MaxCalls
  /\ refused \subseteq 1..MaxCalls
  /\ processed \subseteq 1..MaxCalls

\* Workers that have taken a count and no request yet.
Ticketed == {w \in Workers : pc[w] = "ticket"}

\* Every request in the list is backed by a count of the semaphore, by a worker
\* that has taken one, or by the post that append is about to make: neither
\* requests nor counts are ever lost between the two.
TicketsBackRequests ==
  Len(workqueue) = queuestat + Cardinality(Ticketed) + (IF posting THEN 1 ELSE 0)

\* A worker that got past wait() finds a request: the branch of lines 86 to 89
\* is never taken.
NeverEmptyHanded ==
  \A w \in Workers : pc[w] = "ticket" => workqueue # <<>>

\* The list is full at one more than m_max_requests: the test of line 64 is ">".
QueueLimit == Len(workqueue) <= MaxRequests + 1

\* List, semaphore and workers agree although append changes the list under the
\* lock and the semaphore outside it, and run takes them the other way round
\* (threadpool.h 62-73, 83-93).
TicketsInv == TypeOK /\ TicketsBackRequests /\ NeverEmptyHanded /\ QueueLimit

\* The abstract pool: tasks queued, running and done.
Pool == INSTANCE TaskPool WITH
  Tasks   <- 1..MaxCalls,
  queue   <- workqueue,
  running <- {request[w] : w \in Workers} \ {0},
  done    <- processed,
  phase   <- "open"

\* The pool implements the abstract pool, which is never closed: accepted
\* requests are started in order, each by one worker, refused ones by none.
ImplementsPool == Pool!Spec

\* Every request append accepted is processed, also when the queue was full and
\* when all workers were busy.
EveryRequestProcessed == Pool!EveryTaskFinishes
=============================================================================
