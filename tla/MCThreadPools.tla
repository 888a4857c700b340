---------------------------- MODULE MCThreadPools ----------------------------
(* The two pools that are C++ templates: the one of ThreadPoolCpp, with three   *)
(* workers, so that some may sleep, run or enqueue while another goes through   *)
(* its loop, and the one of HttpServer, with a list that is full with three     *)
(* requests, so that append refuses while workers hold tickets.  Which of them  *)
(* it is is settled at the start.                                               *)
EXTENDS ThreadPoolCpp

CONSTANTS Servers, MaxRequests, MaxCalls

VARIABLES
  pool, workqueue, queuestat, pcHttp, request, posting, callsHttp, refusedHttp, processed

Http == INSTANCE HttpThreadPool WITH
  Workers <- Servers, pc <- pcHttp, calls <- callsHttp, refused <- refusedHttp

ASSUME HttpAssumption == Http!PoolAssumption

httpVars == <<workqueue, queuestat, pcHttp, request, posting, callsHttp, refusedHttp, processed>>
everything == <<vars, httpVars, pool>>

MCInit == Init /\ Http!Init /\ pool \in {"ThreadPoolCpp", "HttpServer"}

CppStep  == pool = "ThreadPoolCpp" /\ UNCHANGED <<httpVars, pool>>
HttpStep == pool = "HttpServer" /\ UNCHANGED <<vars, pool>>

MCNext == (CppStep /\ Next) \/ (HttpStep /\ Http!Next)

\* The fairness of the pool that is there.
MCSpec ==
  /\ MCInit /\ [][MCNext]_everything
  /\ \A w \in Workers : WF_everything(CppStep /\ WorkerLoop(w))
  /\ \A t \in Threads : WF_everything(CppStep /\ NotifyOne(t))
  /\ WF_everything(CppStep /\ NotifyAll) /\ WF_everything(CppStep /\ Join)
  /\ WF_everything(HttpStep /\ Http!Post)
  /\ WF_everything(HttpStep /\ \E s \in Servers : Http!Wait(s))
  /\ \A s \in Servers : WF_everything(HttpStep /\ (Http!Fetch(s) \/ Http!Process(s)))

\* List and semaphore of the server's pool agree (threadpool.h 62-73, 83-93).
TicketsInv == Http!TicketsInv

\* The server's pool starts the requests append accepts in their order, each by
\* one worker (threadpool.h 60-96).
HttpImplementsPool == Http!ImplementsPool

\* Every request append accepts is processed (threadpool.h 60-96).
EveryRequestProcessed == Http!EveryRequestProcessed
===============================================================================
