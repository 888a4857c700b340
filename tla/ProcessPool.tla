---------------------------- MODULE ProcessPool ----------------------------
(***************************************************************************)
(* ProcessPool/processpool.h: a parent that watches the listening socket   *)
(* and tells its children in turn to accept, and children that accept and  *)
(* serve.  Parent and children turn signals into bytes on a socket pair of *)
(* their own and watch it with epoll, edge-triggered.                      *)
(*                                                                         *)
(* A process is its m_idx: -1 in the parent, the index in m_sub_process in *)
(* a child.  What the children do with a connection is left out.           *)
(***************************************************************************)
EXTENDS Integers, FiniteSets

CONSTANTS
  N,            \* m_process_number: 3 in the code
  MaxConns,     \* bound on the connections made to the server
  MaxCrashes    \* bound on the children that die by themselves

ASSUME PoolAssumption ==
  /\ N \in 1..16     \* the assertion at line 127
  /\ MaxConns \in Nat /\ MaxCrashes \in Nat

Parent   == -1
Children == 0 .. N - 1
Procs    == Children \union {Parent}

VARIABLES
  pc,            \* "setup", "loop", "zombie", "gone"
  m_stop,
  ready, batch,  \* per process: events the kernel has, events being handled
  pending,       \* signals sent to a process and not delivered
  sigpipe,       \* signals in its socket pair
  known,         \* m_sub_process[i].m_pid # -1
  sub_process_counter,
  notes,         \* notifications in the pipe to each child
  sent,          \* notifications sent to each child so far
  backlog,       \* connections waiting to be accepted
  conns, crashes,   \* what the outside has done
  interrupted       \* how SIGINT has come: "no", "terminal" or "kill"

procVars  == <<pc, m_stop>>
eventVars == <<ready, batch>>
sigVars   == <<pending, sigpipe>>
poolVars  == <<known, sub_process_counter, notes, sent>>
envVars   == <<backlog, conns, crashes, interrupted>>
vars      == <<procVars, eventVars, sigVars, poolVars, envVars>>

Alive(x) == pc[x] \in {"setup", "loop"}

\* The constructor has forked every child.
Init ==
  /\ pc = [x \in Procs |-> "setup"] /\ m_stop = [x \in Procs |-> FALSE]
  /\ ready = [x \in Procs |-> {}] /\ batch = [x \in Procs |-> {}]
  /\ pending = [x \in Procs |-> {}] /\ sigpipe = [x \in Procs |-> {}]
  /\ known = [i \in Children |-> TRUE] /\ sub_process_counter = 0
  /\ notes = [i \in Children |-> 0] /\ sent = [i \in Children |-> 0]
  /\ backlog = 0 /\ conns = 0 /\ crashes = 0 /\ interrupted = "no"
-----------------------------------------------------------------------------
(* The outside *)

Connect ==
  /\ conns < MaxConns
  /\ conns' = conns + 1 /\ backlog' = backlog + 1
  /\ ready' = IF pc[Parent] = "loop" THEN [ready EXCEPT ![Parent] = @ \union {"listen"}] ELSE ready
  /\ UNCHANGED <<procVars, batch, sigVars, poolVars, crashes, interrupted>>

\* A process ends; a child is announced to the parent.
Ends(x, others) ==
  /\ pc' = [pc EXCEPT ![x] = IF x = Parent THEN "gone" ELSE "zombie"]
  /\ pending' = IF x = Parent THEN others ELSE [others EXCEPT ![Parent] = @ \union {"CHLD"}]

Crash(i) ==
  /\ Alive(i) /\ crashes < MaxCrashes
  /\ crashes' = crashes + 1
  /\ Ends(i, pending)
  /\ UNCHANGED <<m_stop, eventVars, sigpipe, poolVars, backlog, conns, interrupted>>

\* The terminal sends SIGINT to the whole process group, kill to one process.
Interrupt(how, targets) ==
  /\ interrupted = "no"
  /\ interrupted' = how
  /\ pending' = [x \in Procs |-> IF x \in targets /\ Alive(x) THEN pending[x] \union {"INT"} ELSE pending[x]]
  /\ UNCHANGED <<procVars, eventVars, sigpipe, poolVars, backlog, conns, crashes>>
-----------------------------------------------------------------------------
(* Signals, and what both kinds of process do *)

\* Until setup_sig_pipe the default action is taken: SIGCHLD is ignored and the
\* others end the process.  Afterwards sig_handler puts a byte on the pipe.
Deliver(x, sig) ==
  /\ Alive(x) /\ sig \in pending[x]
  /\ LET others == [pending EXCEPT ![x] = @ \ {sig}] IN
       IF pc[x] = "loop"
         THEN /\ sigpipe' = [sigpipe EXCEPT ![x] = @ \union {sig}]
              /\ ready' = [ready EXCEPT ![x] = @ \union {"sig"}]
              /\ pending' = others
              /\ UNCHANGED pc
         ELSE /\ IF sig = "CHLD" THEN pending' = others /\ UNCHANGED pc ELSE Ends(x, others)
              /\ UNCHANGED <<sigpipe, ready>>
  /\ UNCHANGED <<m_stop, batch, poolVars, envVars>>

\* setup_sig_pipe, and the descriptor the process watches besides.  What is there
\* already is reported.  A signal that is pending would have been delivered first.
SetupSigPipe(x) ==
  /\ pc[x] = "setup" /\ pending[x] \subseteq {"CHLD"}
  /\ pc' = [pc EXCEPT ![x] = "loop"]
  /\ ready' = [ready EXCEPT ![x] =
       IF x = Parent THEN IF backlog > 0 THEN {"listen"} ELSE {}
                     ELSE IF notes[x] > 0 THEN {"pipe"} ELSE {}]
  /\ UNCHANGED <<m_stop, batch, sigVars, poolVars, envVars>>

EpollWait(x) ==
  /\ pc[x] = "loop" /\ ~m_stop[x]
  /\ batch[x] = {} /\ ready[x] # {}
  /\ batch' = [batch EXCEPT ![x] = ready[x]]
  /\ ready' = [ready EXCEPT ![x] = {}]
  /\ UNCHANGED <<procVars, sigVars, poolVars, envVars>>

Exit(x) ==
  /\ pc[x] = "loop" /\ m_stop[x] /\ batch[x] = {}
  /\ Ends(x, pending)
  /\ UNCHANGED <<m_stop, eventVars, sigpipe, poolVars, envVars>>

Handling(x, event) == pc[x] = "loop" /\ event \in batch[x]
HandledBy(x, event) == batch' = [batch EXCEPT ![x] = @ \ {event}]

\* One byte of those recv has returned; the event is over when none is left.
TakesSignal(x, sig) ==
  /\ Handling(x, "sig") /\ sig \in sigpipe[x]
  /\ sigpipe' = [sigpipe EXCEPT ![x] = @ \ {sig}]
  /\ IF sigpipe'[x] = {} THEN HandledBy(x, "sig") ELSE UNCHANGED batch

\* Bytes read together with those of an earlier event.
NoSignal(x) ==
  /\ Handling(x, "sig") /\ sigpipe[x] = {}
  /\ HandledBy(x, "sig")
  /\ UNCHANGED <<procVars, ready, sigVars, poolVars, envVars>>
-----------------------------------------------------------------------------
(* run_parent *)

\* The search ends at the first child not known to be gone, starting with the
\* one after the child chosen last.
NextChild ==
  LET after(k) == (sub_process_counter + k) % N
      k == CHOOSE k \in Children :
             /\ known[after(k)]
             /\ \A j \in 0 .. k - 1 : ~known[after(j)]
  IN  after(k)

\* The counter stays at the child that was chosen.
Dispatch_SameChild ==
  /\ Handling(Parent, "listen")
  /\ \E i \in Children : known[i]
  /\ sub_process_counter' = NextChild
  /\ sent' = [sent EXCEPT ![NextChild] = @ + 1]
  /\ IF Alive(NextChild)
       THEN /\ notes' = [notes EXCEPT ![NextChild] = @ + 1]
            /\ ready' = IF pc[NextChild] = "loop"
                          THEN [ready EXCEPT ![NextChild] = @ \union {"pipe"}] ELSE ready
       ELSE UNCHANGED <<notes, ready>>
  /\ HandledBy(Parent, "listen")
  /\ UNCHANGED <<procVars, sigVars, known, envVars>>

\* One notification for one event.  Sent to a child that has died and has not
\* been waited for it is lost (SIGPIPE is ignored).
Dispatch ==
  /\ Handling(Parent, "listen")
  /\ \E i \in Children : known[i]
  /\ sub_process_counter' = (NextChild + 1) % N
  /\ sent' = [sent EXCEPT ![NextChild] = @ + 1]
  /\ IF Alive(NextChild)
       THEN /\ notes' = [notes EXCEPT ![NextChild] = @ + 1]
            /\ ready' = IF pc[NextChild] = "loop"
                          THEN [ready EXCEPT ![NextChild] = @ \union {"pipe"}] ELSE ready
       ELSE UNCHANGED <<notes, ready>>
  /\ HandledBy(Parent, "listen")
  /\ UNCHANGED <<procVars, sigVars, known, envVars>>

\* "break": the rest of the batch is dropped.
NobodyLeft ==
  /\ Handling(Parent, "listen")
  /\ \A i \in Children : ~known[i]
  /\ m_stop' = [m_stop EXCEPT ![Parent] = TRUE]
  /\ batch' = [batch EXCEPT ![Parent] = {}]
  /\ UNCHANGED <<pc, ready, sigVars, poolVars, envVars>>

\* m_stop is set when any child has gone.
Reap_StopAtFirst ==
  /\ TakesSignal(Parent, "CHLD")
  /\ known' = [i \in Children |-> known[i] /\ pc[i] # "zombie"]
  /\ pc' = [x \in Procs |-> IF pc[x] = "zombie" THEN "gone" ELSE pc[x]]
  /\ m_stop' = [m_stop EXCEPT ![Parent] = \E i \in Children : ~known'[i]]
  /\ UNCHANGED <<ready, pending, sub_process_counter, notes, sent, envVars>>

\* The waitpid loop, and whether all children have gone.
Reap ==
  /\ TakesSignal(Parent, "CHLD")
  /\ known' = [i \in Children |-> known[i] /\ pc[i] # "zombie"]
  /\ pc' = [x \in Procs |-> IF pc[x] = "zombie" THEN "gone" ELSE pc[x]]
  /\ m_stop' = [m_stop EXCEPT ![Parent] = \A i \in Children : ~known'[i]]
  /\ UNCHANGED <<ready, pending, sub_process_counter, notes, sent, envVars>>

\* SIGINT: SIGTERM for every child.  The parent itself goes on.
KillChildren ==
  /\ TakesSignal(Parent, "INT")
  /\ pending' = [x \in Procs |->
       IF x \in Children /\ known[x] /\ Alive(x) THEN pending[x] \union {"TERM"} ELSE pending[x]]
  /\ UNCHANGED <<procVars, ready, poolVars, envVars>>
-----------------------------------------------------------------------------
(* run_child *)

\* recv of one notification and accept of one connection, which may have been
\* accepted by another child already.
AcceptOne(i) ==
  /\ Handling(i, "pipe")
  /\ notes' = [notes EXCEPT ![i] = IF @ > 0 THEN @ - 1 ELSE 0]
  /\ backlog' = IF backlog > 0 THEN backlog - 1 ELSE 0
  /\ HandledBy(i, "pipe")
  /\ UNCHANGED <<procVars, ready, sigVars, known, sub_process_counter, sent, conns, crashes, interrupted>>

\* The child takes no notice of SIGINT either.
StopOnInt_Ignored(i) ==
  /\ TakesSignal(i, "INT")
  /\ UNCHANGED <<procVars, ready, pending, poolVars, envVars>>

StopOnInt(i) ==
  /\ TakesSignal(i, "INT")
  /\ m_stop' = [m_stop EXCEPT ![i] = TRUE]
  /\ UNCHANGED <<pc, ready, pending, poolVars, envVars>>

\* Line 254: SIGTERM is reported and that is all.
ReportTerm(i) ==
  /\ TakesSignal(i, "TERM")
  /\ UNCHANGED <<procVars, ready, pending, poolVars, envVars>>
-----------------------------------------------------------------------------
Runs(x) == SetupSigPipe(x) \/ EpollWait(x) \/ NoSignal(x) \/ Exit(x)

ParentStep == Runs(Parent) \/ Dispatch \/ NobodyLeft \/ Reap \/ KillChildren

ChildStep(i) == Runs(i) \/ AcceptOne(i) \/ StopOnInt(i) \/ ReportTerm(i)

Signals(x) == \E sig \in {"CHLD", "INT", "TERM"} : Deliver(x, sig)

Next ==
  \/ Connect
  \/ \E i \in Children : Crash(i) \/ ChildStep(i)
  \/ Interrupt("terminal", Procs)
  \/ Interrupt("kill", {Parent})
  \/ ParentStep
  \/ \E x \in Procs : Signals(x)

Spec == Init /\ [][Next]_vars

\* The processes are scheduled and signals are delivered.
Fairness ==
  /\ WF_vars(ParentStep)
  /\ \A i \in Children : WF_vars(ChildStep(i))
  /\ \A x \in Procs : WF_vars(Signals(x))
-----------------------------------------------------------------------------
\* Every variable keeps its type; the index of the next child stays in the pool.
TypeOK ==
  /\ pc \in [Procs -> {"setup", "loop", "zombie", "gone"}]
  /\ m_stop \in [Procs -> BOOLEAN]
  /\ ready \in [Procs -> SUBSET {"listen", "pipe", "sig"}]
  /\ batch \in [Procs -> SUBSET {"listen", "pipe", "sig"}]
  /\ pending \in [Procs -> SUBSET {"CHLD", "INT", "TERM"}]
  /\ sigpipe \in [Procs -> SUBSET {"CHLD", "INT", "TERM"}]
  /\ known \in [Children -> BOOLEAN] /\ sub_process_counter \in Children
  /\ notes \in [Children -> Nat] /\ sent \in [Children -> Nat]
  /\ backlog \in 0..MaxConns /\ conns \in 0..MaxConns /\ crashes \in 0..MaxCrashes
  /\ interrupted \in {"no", "terminal", "kill"}

\* The comment at line 354: the parent leaves its loop only when every child has
\* gone, whatever order their exits, signals and new connections come in.
ParentStopsLast ==
  m_stop[Parent] => \A i \in Children : ~Alive(i) /\ ~known[i]

\* The bookkeeping of the parent is sound and it stays until its children have
\* gone, whatever order exits, crashes and signals come in (lines 340-363).
ParentInv == TypeOK /\ ParentStopsLast

\* Line 312: new connections are handed to the children in turn, and the turn goes
\* on through those that are left: of the children the parent knows none has been
\* told of two connections more than another, whichever have been lost and when.
RoundRobin == \A i, j \in Children : known[i] /\ known[j] => sent[i] <= sent[j] + 1

\* Every child has died before the parent has a handler: SIGCHLD was ignored (line
\* 167), no other will come, and no SIGCHLD means no waitpid and no m_stop (344-363).
DiedUnheard ==
  /\ pc[Parent] = "setup" /\ pending[Parent] = {}
  /\ \A i \in Children : pc[i] = "zombie"

\* Control-C at the terminal ends every process of the pool, whenever it comes and
\* whatever children crash before or after, except for a parent left alone by the
\* time it sets its handlers up, which stays.
CtrlCEndsPool == (interrupted = "terminal" ~> \A x \in Procs : ~Alive(x)) \/ <>DiedUnheard
=============================================================================
