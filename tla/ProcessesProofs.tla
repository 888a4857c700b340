------------------------- MODULE ProcessesProofs ---------------------------
(***************************************************************************)
(* Proofs about the two servers that fork their children: ProcessPool, for *)
(* every number of children the assertion of the constructor allows and    *)
(* any number of connections and crashes, and MPServer, for any finite set *)
(* of process numbers, any USER_LIMIT and any number of connections,       *)
(* messages and signals.                                                   *)
(***************************************************************************)
EXTENDS MCProcesses, Sequences, FiniteSetTheorems, WellFoundedInduction, TLAPS

-----------------------------------------------------------------------------
(* The search for the next child. *)

After(k) == (sub_process_counter + k) % N

\* k steps after the counter is one of the children, counted past the last one
\* from the first.
LEMMA AfterIs ==
  ASSUME sub_process_counter \in Children, NEW k \in Children
  PROVE  After(k) = IF sub_process_counter + k < N THEN sub_process_counter + k
                    ELSE sub_process_counter + k - N
  <1> DEFINE x == sub_process_counter + k
             q == x \div N
             r == x % N
  <1>1. N \in Nat \ {0} /\ sub_process_counter \in 0 .. N - 1 /\ k \in 0 .. N - 1
    BY PoolAssumption DEF Children
  <1>2. x \in Nat /\ x < 2 * N
    BY <1>1
  <1> HIDE DEF x
  <1>3. x = q * N + r /\ r \in 0 .. N - 1 /\ q \in Nat
    BY <1>1, <1>2
  <1> HIDE DEF q, r
  <1>4. q = 0 \/ q = 1
    <2>1. SUFFICES ASSUME q >= 2 PROVE FALSE
      BY <1>3
    <2>2. q - 2 \in Nat /\ (q - 2) * N \in Nat
      BY <1>1, <1>3, <2>1
    <2>3. q * N = 2 * N + (q - 2) * N
      BY <1>1, <1>3
    <2> QED BY <1>1, <1>2, <1>3, <2>2, <2>3
  <1>5. r = IF x < N THEN x ELSE x - N
    BY <1>1, <1>2, <1>3, <1>4
  <1>6. After(k) = r /\ x = sub_process_counter + k
    BY DEF After, r, x
  <1> QED BY <1>1, <1>2, <1>5, <1>6

\* A child is found as long as one is known: the first known one from the counter on,
\* or else, counted from 0, the first known one of all.
LEMMA NextChildIsKnown ==
  ASSUME sub_process_counter \in Children, \E i \in Children : known[i]
  PROVE  /\ NextChild \in Children /\ known[NextChild]
         /\ \A i \in Children : known[i] =>
              IF NextChild >= sub_process_counter
                THEN i < sub_process_counter \/ NextChild <= i
                ELSE NextChild <= i /\ i < sub_process_counter
  <1> DEFINE Hits == {k \in Children : known[After(k)]}
  <1>1. N \in Nat \ {0} /\ Children = 0 .. N - 1
    BY PoolAssumption DEF Children
  <1>2. Hits # {}
    <2>1. PICK i \in Children : known[i]
      OBVIOUS
    <2> DEFINE k == IF i >= sub_process_counter THEN i - sub_process_counter
                    ELSE i - sub_process_counter + N
    <2>2. k \in Children
      BY <1>1
    <2>3. After(k) = i
      BY <1>1, <2>2, AfterIs
    <2> QED BY <2>1, <2>2, <2>3
  <1>3. PICK k \in Hits : \A j \in Hits : ~ (j < k)
    <2>1. IsWellFoundedOn(OpToRel(<, Nat), Nat)
      BY NatLessThanWellFounded
    <2>2. Hits \subseteq Nat
      BY <1>1
    <2>3. PICK k \in Hits : \A j \in Hits : ~ (<<j, k>> \in OpToRel(<, Nat))
      BY <1>2, <2>1, <2>2, WFMin
    <2> QED BY <2>2, <2>3 DEF OpToRel
  <1> DEFINE First(m) == known[After(m)] /\ \A j \in 0 .. m - 1 : ~known[After(j)]
  <1>4. First(k)
    <2>1. \A j \in 0 .. k - 1 : j \in Children /\ j < k
      BY <1>1
    <2> QED BY <1>3, <2>1
  <1> DEFINE chosen == CHOOSE m \in Children : First(m)
  <1>5. chosen \in Children /\ First(chosen)
    BY <1>4
  <1>6. NextChild = After(chosen)
    BY DEF NextChild, After
  <1> HIDE DEF chosen
  <1>7. After(chosen) \in Children
    BY <1>1, <1>5, AfterIs
  <1>8. ASSUME NEW i \in Children, known[i]
        PROVE  IF NextChild >= sub_process_counter
                 THEN i < sub_process_counter \/ NextChild <= i
                 ELSE NextChild <= i /\ i < sub_process_counter
    <2> DEFINE d == IF i >= sub_process_counter THEN i - sub_process_counter
                    ELSE i - sub_process_counter + N
    <2>1. d \in Children
      BY <1>1
    <2>2. After(d) = i
      BY <1>1, <2>1, AfterIs
    <2>3. ~ (d \in 0 .. chosen - 1)
      BY <1>5, <1>8, <2>2
    <2>4. chosen <= d
      BY <1>1, <1>5, <2>1, <2>3
    <2>5. NextChild = IF sub_process_counter + chosen < N THEN sub_process_counter + chosen
                      ELSE sub_process_counter + chosen - N
      BY <1>5, <1>6, AfterIs
    <2> QED BY <1>1, <1>5, <2>4, <2>5
  <1> QED BY <1>5, <1>6, <1>7, <1>8

-----------------------------------------------------------------------------
(* The inductive invariant. *)

\* TypeOK, in two parts: what each process has, and what the outside has done.
ProcTypes ==
  /\ pc \in [Procs -> {"setup", "loop", "zombie", "gone"}]
  /\ m_stop \in [Procs -> BOOLEAN]
  /\ ready \in [Procs -> SUBSET {"listen", "pipe", "sig"}]
  /\ batch \in [Procs -> SUBSET {"listen", "pipe", "sig"}]
  /\ pending \in [Procs -> SUBSET {"CHLD", "INT", "TERM"}]
  /\ sigpipe \in [Procs -> SUBSET {"CHLD", "INT", "TERM"}]

PoolTypes ==
  /\ known \in [Children -> BOOLEAN] /\ sub_process_counter \in Children
  /\ notes \in [Children -> Nat] /\ sent \in [Children -> Nat]

\* Connections that wait have been made.
EnvTypes ==
  /\ backlog \in 0..MaxConns /\ conns \in 0..MaxConns /\ backlog <= conns
  /\ crashes \in 0..MaxCrashes /\ interrupted \in {"no", "terminal", "kill"}

\* A child the parent has waited for is gone for good.
ForgottenAreGone == \A i \in Children : ~known[i] => pc[i] = "gone"

\* The parent is told to stop by the loss of its last child only.
StopsWithoutChildren == m_stop[Parent] => \A i \in Children : ~known[i]

\* Where the turn is: of the children left, those before the one that comes next
\* have been asked once more than the others.
Turn == \E m \in Nat : \A i \in Children :
          known[i] => sent[i] = IF i < sub_process_counter THEN m + 1 ELSE m

IInv == ProcTypes /\ PoolTypes /\ EnvTypes /\ ForgottenAreGone /\ StopsWithoutChildren /\ Turn

\* Who the processes are.
LEMMA Processes ==
  /\ N \in Nat \ {0} /\ Children = 0 .. N - 1 /\ 0 \in Children
  /\ Procs = Children \union {Parent} /\ Parent \in Procs /\ Parent \notin Children
  BY PoolAssumption DEF Children, Procs, Parent

\* As the constructor leaves it.
LEMMA InitIInv == Init => IInv
  <1> SUFFICES ASSUME Init PROVE IInv
    OBVIOUS
  <1> USE Processes, PoolAssumption DEF Init
  <1>1. ProcTypes
    BY DEF ProcTypes
  <1>2. PoolTypes
    BY DEF PoolTypes
  <1>3. EnvTypes
    BY DEF EnvTypes
  <1>4. ForgottenAreGone /\ StopsWithoutChildren
    BY DEF ForgottenAreGone, StopsWithoutChildren
  <1>5. Turn
    <2>1. \A i \in Children : sent[i] = IF i < sub_process_counter THEN 0 + 1 ELSE 0
      OBVIOUS
    <2> QED BY <2>1 DEF Turn
  <1> QED BY <1>1, <1>2, <1>3, <1>4, <1>5 DEF IInv

-----------------------------------------------------------------------------
(* Types. *)

\* The end of a process.
LEMMA EndsTypes ==
  ASSUME ProcTypes, NEW x \in Procs,
         NEW others \in [Procs -> SUBSET {"CHLD", "INT", "TERM"}], Ends(x, others)
  PROVE  /\ pc' \in [Procs -> {"setup", "loop", "zombie", "gone"}]
         /\ pending' \in [Procs -> SUBSET {"CHLD", "INT", "TERM"}]
  BY Processes DEF ProcTypes, Ends

\* A signal that is delivered.
LEMMA DeliverTypes ==
  ASSUME ProcTypes, NEW x \in Procs, NEW sig \in {"CHLD", "INT", "TERM"}, Deliver(x, sig)
  PROVE  ProcTypes'
  <1> DEFINE others == [pending EXCEPT ![x] = @ \ {sig}]
  <1>1. others \in [Procs -> SUBSET {"CHLD", "INT", "TERM"}]
    BY DEF ProcTypes
  <1>2. UNCHANGED <<m_stop, batch>>
    BY DEF Deliver
  <1>3. CASE pc[x] = "loop"
    BY <1>1, <1>2, <1>3 DEF Deliver, ProcTypes
  <1>4. CASE pc[x] # "loop" /\ sig = "CHLD"
    BY <1>1, <1>2, <1>4 DEF Deliver, ProcTypes
  <1>5. CASE pc[x] # "loop" /\ sig # "CHLD"
    <2>1. Ends(x, others) /\ UNCHANGED <<sigpipe, ready>>
      BY <1>5 DEF Deliver
    <2> HIDE DEF others
    <2> QED BY <1>1, <1>2, <2>1, EndsTypes DEF ProcTypes
  <1> QED BY <1>3, <1>4, <1>5

\* One byte of the socket pair is taken.
LEMMA TakesSignalTypes ==
  ASSUME ProcTypes, NEW x \in Procs, NEW sig, TakesSignal(x, sig)
  PROVE  /\ sigpipe' \in [Procs -> SUBSET {"CHLD", "INT", "TERM"}]
         /\ batch' \in [Procs -> SUBSET {"listen", "pipe", "sig"}]
  BY DEF ProcTypes, TakesSignal, HandledBy

\* The types of what each process has are kept.
LEMMA ProcTypesKept == ASSUME IInv, [Next]_vars PROVE ProcTypes'
  <1> USE Processes DEF procVars, eventVars, sigVars
  <1>0. ProcTypes
    BY DEF IInv
  <1>1. CASE Connect
    BY <1>0, <1>1 DEF Connect, ProcTypes
  <1>2. ASSUME NEW i \in Children, Crash(i) PROVE ProcTypes'
    <2>1. Ends(i, pending) /\ UNCHANGED <<m_stop, ready, batch, sigpipe>>
      BY <1>2 DEF Crash
    <2> QED BY <1>0, <2>1, EndsTypes DEF ProcTypes
  <1>3. ASSUME NEW how, NEW targets, Interrupt(how, targets) PROVE ProcTypes'
    BY <1>0, <1>3 DEF Interrupt, ProcTypes
  <1>4. ASSUME NEW x \in Procs, Signals(x) PROVE ProcTypes'
    BY <1>0, <1>4, DeliverTypes DEF Signals
  <1>5. ASSUME NEW x \in Procs, SetupSigPipe(x) PROVE ProcTypes'
    BY <1>0, <1>5 DEF SetupSigPipe, ProcTypes
  <1>6. ASSUME NEW x \in Procs, EpollWait(x) PROVE ProcTypes'
    BY <1>0, <1>6 DEF EpollWait, ProcTypes
  <1>7. ASSUME NEW x \in Procs, NoSignal(x) PROVE ProcTypes'
    BY <1>0, <1>7 DEF NoSignal, HandledBy, ProcTypes
  <1>8. ASSUME NEW x \in Procs, Exit(x) PROVE ProcTypes'
    <2>1. Ends(x, pending) /\ UNCHANGED <<m_stop, ready, batch, sigpipe>>
      BY <1>8 DEF Exit
    <2> QED BY <1>0, <2>1, EndsTypes DEF ProcTypes
  <1>9. CASE Dispatch
    <2>1. ready' \in [Procs -> SUBSET {"listen", "pipe", "sig"}]
      <3>1. NextChild \in Procs
        BY <1>9, NextChildIsKnown DEF Dispatch, IInv, PoolTypes
      <3>2. ready' = ready \/ ready' = [ready EXCEPT ![NextChild] = @ \union {"pipe"}]
        BY <1>9 DEF Dispatch
      <3> QED BY <1>0, <3>1, <3>2 DEF ProcTypes
    <2> QED BY <1>0, <1>9, <2>1 DEF Dispatch, HandledBy, ProcTypes
  <1>10. CASE NobodyLeft
    <2>1. m_stop' \in [Procs -> BOOLEAN]
      BY <1>0, <1>10, Zenon DEF NobodyLeft, ProcTypes
    <2> QED BY <1>0, <1>10, <2>1 DEF NobodyLeft, ProcTypes
  <1>11. CASE Reap
    <2>1. m_stop' \in [Procs -> BOOLEAN]
      <3>1. m_stop' = [m_stop EXCEPT ![Parent] = \A i \in Children : ~known'[i]]
        BY <1>11 DEF Reap
      <3> QED BY <1>0, <3>1 DEF ProcTypes
    <2>2. pc' \in [Procs -> {"setup", "loop", "zombie", "gone"}]
      BY <1>0, <1>11 DEF Reap, ProcTypes
    <2>3. TakesSignal(Parent, "CHLD") /\ UNCHANGED <<ready, pending>>
      BY <1>11 DEF Reap
    <2> QED BY <1>0, <2>1, <2>2, <2>3, TakesSignalTypes DEF ProcTypes
  <1>12. CASE KillChildren
    <2>1. pending' \in [Procs -> SUBSET {"CHLD", "INT", "TERM"}]
      BY <1>0, <1>12 DEF KillChildren, ProcTypes
    <2>2. TakesSignal(Parent, "INT") /\ UNCHANGED <<pc, m_stop, ready>>
      BY <1>12 DEF KillChildren
    <2> QED BY <1>0, <2>1, <2>2, TakesSignalTypes DEF ProcTypes
  <1>13. ASSUME NEW i \in Children, AcceptOne(i) PROVE ProcTypes'
    BY <1>0, <1>13 DEF AcceptOne, HandledBy, ProcTypes
  <1>14. ASSUME NEW i \in Children, StopOnInt(i) \/ ReportTerm(i) PROVE ProcTypes'
    <2>1. m_stop' = m_stop \/ m_stop' = [m_stop EXCEPT ![i] = TRUE]
      BY <1>14 DEF StopOnInt, ReportTerm
    <2>2. m_stop' \in [Procs -> BOOLEAN]
      BY <1>0, <2>1, Processes, Zenon DEF ProcTypes
    <2>3. UNCHANGED <<pc, ready, pending>> /\ \E sig : TakesSignal(i, sig)
      BY <1>14 DEF StopOnInt, ReportTerm
    <2> QED BY <1>0, <2>2, <2>3, TakesSignalTypes DEF ProcTypes
  <1>15. CASE UNCHANGED vars
    BY <1>0, <1>15 DEF vars, ProcTypes
  <1> QED BY <1>1, <1>2, <1>3, <1>4, <1>5, <1>6, <1>7, <1>8, <1>9, <1>10, <1>11, <1>12,
             <1>13, <1>14, <1>15
    DEF Next, ChildStep, ParentStep, Runs

\* So are those of the pool: the counter stays one of the children.
LEMMA PoolTypesKept == ASSUME IInv, [Next]_vars PROVE PoolTypes'
  <1> USE Processes DEF poolVars
  <1>0. PoolTypes
    BY DEF IInv
  <1>1. CASE UNCHANGED poolVars
    BY <1>0, <1>1 DEF PoolTypes
  <1>2. CASE Dispatch
    <2>1. NextChild \in Children
      BY <1>0, <1>2, NextChildIsKnown DEF Dispatch, PoolTypes
    <2>2. (NextChild + 1) % N \in Children
      BY <2>1
    <2>3. /\ sent' = [sent EXCEPT ![NextChild] = @ + 1]
          /\ notes' = notes \/ notes' = [notes EXCEPT ![NextChild] = @ + 1]
          /\ sub_process_counter' = (NextChild + 1) % N /\ UNCHANGED known
      BY <1>2 DEF Dispatch
    <2>4. sent' \in [Children -> Nat]
      BY <1>0, <2>1, <2>3 DEF PoolTypes
    <2>5. notes' \in [Children -> Nat]
      <3>1. CASE notes' = notes
        BY <1>0, <3>1 DEF PoolTypes
      <3>2. CASE notes' = [notes EXCEPT ![NextChild] = @ + 1]
        BY <1>0, <2>1, <3>2 DEF PoolTypes
      <3> QED BY <2>3, <3>1, <3>2
    <2> QED BY <1>0, <2>2, <2>3, <2>4, <2>5 DEF PoolTypes
  <1>3. CASE Reap
    <2>1. known' \in [Children -> BOOLEAN]
      <3>1. known' = [i \in Children |-> known[i] /\ pc[i] # "zombie"]
        BY <1>3 DEF Reap
      <3> QED BY <3>1
    <2> QED BY <1>0, <1>3, <2>1 DEF Reap, PoolTypes
  <1>4. ASSUME NEW i \in Children, AcceptOne(i) PROVE PoolTypes'
    BY <1>0, <1>4 DEF AcceptOne, PoolTypes
  <1>5. \/ UNCHANGED poolVars \/ Dispatch \/ Reap
        \/ \E i \in Children : AcceptOne(i)
    BY DEF Next, ChildStep, ParentStep, Runs, Connect, Crash, Interrupt, Signals, Deliver,
           SetupSigPipe, EpollWait, NoSignal, Exit, NobodyLeft, KillChildren,
           StopOnInt, ReportTerm, vars
  <1> QED BY <1>1, <1>2, <1>3, <1>4, <1>5

\* And the counters of what the outside has done.
LEMMA EnvTypesKept == ASSUME IInv, [Next]_vars PROVE EnvTypes'
  <1> USE PoolAssumption DEF envVars
  <1>0. EnvTypes
    BY DEF IInv
  <1>1. CASE UNCHANGED envVars
    BY <1>0, <1>1 DEF EnvTypes
  <1>2. CASE Connect
    BY <1>0, <1>2 DEF Connect, EnvTypes
  <1>3. ASSUME NEW i \in Children, Crash(i) PROVE EnvTypes'
    BY <1>0, <1>3 DEF Crash, EnvTypes
  <1>4. CASE Interrupt("terminal", Procs) \/ Interrupt("kill", {Parent})
    BY <1>0, <1>4 DEF Interrupt, EnvTypes
  <1>5. ASSUME NEW i \in Children, AcceptOne(i) PROVE EnvTypes'
    BY <1>0, <1>5 DEF AcceptOne, EnvTypes
  <1>6. \/ UNCHANGED envVars \/ Connect \/ Interrupt("terminal", Procs) \/ Interrupt("kill", {Parent})
        \/ \E i \in Children : Crash(i) \/ AcceptOne(i)
    BY DEF Next, ChildStep, ParentStep, Runs, Signals, Deliver, SetupSigPipe, EpollWait, NoSignal,
           Exit, Dispatch, NobodyLeft, Reap, KillChildren, StopOnInt, ReportTerm, vars
  <1> QED BY <1>1, <1>2, <1>3, <1>4, <1>5, <1>6

-----------------------------------------------------------------------------
(* Who is gone, who stops, and whose turn it is. *)

\* Only waitpid makes the parent forget a child, and a process that has gone stays
\* away.
LEMMA GoneStaysGone ==
  ASSUME IInv, [Next]_vars
  PROVE  /\ \A i \in Children : pc[i] = "gone" => pc'[i] = "gone"
         /\ \A i \in Children : ~known'[i] => ~known[i] \/ (Reap /\ pc'[i] = "gone")
  <1> USE Processes DEF IInv, ProcTypes, procVars, poolVars, Alive
  <1>1. ASSUME UNCHANGED known,
               \/ UNCHANGED pc
               \/ \E x \in Procs, to \in {"setup", "loop", "zombie", "gone"} :
                    pc[x] \in {"setup", "loop"} /\ pc' = [pc EXCEPT ![x] = to]
        PROVE  /\ \A i \in Children : pc[i] = "gone" => pc'[i] = "gone"
               /\ \A i \in Children : ~known'[i] => ~known[i] \/ (Reap /\ pc'[i] = "gone")
    BY <1>1
  <1>2. CASE Reap
    BY <1>2 DEF Reap
  <1>3. ASSUME NEW x \in Procs, NEW others, Ends(x, others), pc[x] \in {"setup", "loop"}
        PROVE  \E to \in {"setup", "loop", "zombie", "gone"} : pc' = [pc EXCEPT ![x] = to]
    BY <1>3 DEF Ends
  <1>4. ASSUME NEW i \in Children, Crash(i)
        PROVE  UNCHANGED known /\ pc[i] \in {"setup", "loop"} /\ Ends(i, pending)
    BY <1>4 DEF Crash
  <1>5. ASSUME NEW x \in Procs, Exit(x)
        PROVE  UNCHANGED known /\ pc[x] \in {"setup", "loop"} /\ Ends(x, pending)
    BY <1>5 DEF Exit
  <1>6. ASSUME NEW x \in Procs, NEW sig, Deliver(x, sig)
        PROVE  /\ UNCHANGED known
               /\ \/ UNCHANGED pc
                  \/ pc[x] \in {"setup", "loop"} /\ \E others : Ends(x, others)
    <2> DEFINE others == [pending EXCEPT ![x] = @ \ {sig}]
    <2>1. UNCHANGED pc \/ Ends(x, others)
      BY <1>6 DEF Deliver
    <2>2. UNCHANGED known /\ pc[x] \in {"setup", "loop"}
      BY <1>6 DEF Deliver
    <2> HIDE DEF others
    <2> QED BY <2>1, <2>2
  <1>7. ASSUME NEW x \in Procs, SetupSigPipe(x)
        PROVE  UNCHANGED known /\ pc[x] \in {"setup", "loop"} /\ pc' = [pc EXCEPT ![x] = "loop"]
    BY <1>7 DEF SetupSigPipe
  <1>8. \/ Reap \/ UNCHANGED <<pc, known>>
        \/ \E i \in Children : Crash(i)
        \/ \E x \in Procs : Exit(x) \/ SetupSigPipe(x) \/ \E sig : Deliver(x, sig)
    BY DEF Next, ChildStep, ParentStep, Runs, Connect, Interrupt, Signals, EpollWait, NoSignal,
           Dispatch, NobodyLeft, KillChildren, AcceptOne, StopOnInt, ReportTerm, vars
  <1>9. CASE Reap
    BY <1>2, <1>9
  <1>10. CASE UNCHANGED <<pc, known>>
    BY <1>1, <1>10
  <1>11. ASSUME NEW i \in Children, Crash(i)
         PROVE  /\ \A j \in Children : pc[j] = "gone" => pc'[j] = "gone"
                /\ \A j \in Children : ~known'[j] => ~known[j] \/ (Reap /\ pc'[j] = "gone")
    BY <1>1, <1>3, <1>4, <1>11
  <1>12. ASSUME NEW x \in Procs, Exit(x) \/ SetupSigPipe(x) \/ \E sig : Deliver(x, sig)
         PROVE  /\ \A j \in Children : pc[j] = "gone" => pc'[j] = "gone"
                /\ \A j \in Children : ~known'[j] => ~known[j] \/ (Reap /\ pc'[j] = "gone")
    <2>1. CASE Exit(x)
      BY <1>1, <1>3, <1>5, <2>1
    <2>2. CASE SetupSigPipe(x)
      BY <1>1, <1>7, <2>2
    <2>3. ASSUME NEW sig, Deliver(x, sig)
          PROVE  /\ \A j \in Children : pc[j] = "gone" => pc'[j] = "gone"
                 /\ \A j \in Children : ~known'[j] => ~known[j] \/ (Reap /\ pc'[j] = "gone")
      <3>1. UNCHANGED known /\ (UNCHANGED pc \/ (pc[x] \in {"setup", "loop"} /\ \E others : Ends(x, others)))
        BY <1>6, <2>3
      <3>2. CASE UNCHANGED pc
        BY <1>1, <3>1, <3>2
      <3>3. CASE pc[x] \in {"setup", "loop"} /\ \E others : Ends(x, others)
        BY <1>1, <1>3, <3>1, <3>3
      <3> QED BY <3>1, <3>2, <3>3
    <2> QED BY <1>12, <2>1, <2>2, <2>3
  <1> QED BY <1>8, <1>9, <1>10, <1>11, <1>12

\* A child the parent has waited for stays gone.
LEMMA ForgottenAreGoneKept == ASSUME IInv, [Next]_vars PROVE ForgottenAreGone'
  BY GoneStaysGone DEF IInv, ForgottenAreGone

\* The parent's m_stop is set where no child is known, in NobodyLeft and in Reap.
LEMMA StopsKept == ASSUME IInv, [Next]_vars PROVE StopsWithoutChildren'
  <1> USE Processes DEF IInv, ProcTypes, PoolTypes, StopsWithoutChildren
  <1>1. CASE Reap
    BY <1>1 DEF Reap
  <1>2. CASE NobodyLeft
    BY <1>2 DEF NobodyLeft, poolVars
  <1>3. ASSUME m_stop'[Parent] = m_stop[Parent], UNCHANGED known PROVE StopsWithoutChildren'
    BY <1>3
  <1>4. \/ Reap \/ NobodyLeft \/ (m_stop'[Parent] = m_stop[Parent] /\ UNCHANGED known)
    BY DEF Next, ChildStep, ParentStep, Runs, Connect, Crash, Interrupt, Signals, Deliver,
           SetupSigPipe, EpollWait, NoSignal, Exit, Dispatch, KillChildren, AcceptOne,
           StopOnInt, ReportTerm, vars, procVars, poolVars
  <1> QED BY <1>1, <1>2, <1>3, <1>4

\* The child after the last one is the first.
LEMMA CounterAfter ==
  ASSUME NEW i \in Children
  PROVE  (i + 1) % N = IF i + 1 < N THEN i + 1 ELSE 0
  <1>1. N \in Nat \ {0} /\ i \in 0 .. N - 1
    BY Processes
  <1>2. CASE i + 1 = N
    <2>1. N % N = 0
      BY <1>1
    <2> QED BY <1>1, <1>2, <2>1
  <1>3. CASE i + 1 < N
    <2>1. (i + 1) \div N = 0
      BY <1>1, <1>3
    <2> QED BY <1>1, <1>3, <2>1
  <1> QED BY <1>1, <1>2, <1>3

\* Only a dispatch moves the turn on.
LEMMA TurnKept == ASSUME IInv, [Next]_vars PROVE Turn'
  <1> USE Processes DEF IInv, PoolTypes
  <1>1. CASE Dispatch
    <2> DEFINE c == sub_process_counter
               n == NextChild
    <2>1. PICK m \in Nat : \A i \in Children : known[i] => sent[i] = IF i < c THEN m + 1 ELSE m
      BY DEF Turn
    <2>2. /\ n \in Children /\ known[n]
          /\ \A i \in Children : known[i] =>
               IF n >= c THEN i < c \/ n <= i ELSE n <= i /\ i < c
      BY <1>1, NextChildIsKnown DEF Dispatch
    <2>3. /\ c' = (n + 1) % N /\ known' = known
          /\ sent' = [sent EXCEPT ![n] = @ + 1]
      BY <1>1 DEF Dispatch
    <2> HIDE DEF n
    <2>4. c' = IF n + 1 < N THEN n + 1 ELSE 0
      BY <2>2, <2>3, CounterAfter
    <2>5. \A i \in Children : sent'[i] = IF i = n THEN sent[i] + 1 ELSE sent[i]
      BY <2>2, <2>3
    \* Past the last child known the next round begins, at once or at n.
    <2> DEFINE base == (IF n >= c THEN m ELSE m + 1) + (IF n + 1 < N THEN 0 ELSE 1)
    <2>6. base \in Nat
      OBVIOUS
    <2>7. ASSUME NEW i \in Children, known[i] PROVE sent'[i] = IF i < c' THEN base + 1 ELSE base
      <3>1. /\ sent[i] = IF i < c THEN m + 1 ELSE m
            /\ IF n >= c THEN i < c \/ n <= i ELSE n <= i /\ i < c
        BY <2>1, <2>2, <2>7
      <3>2. c \in Nat /\ n \in Nat /\ i \in Nat /\ i < N /\ n < N /\ N \in Nat
        BY <2>2
      <3>3. sent'[i] = IF i = n THEN sent[i] + 1 ELSE sent[i]
        BY <2>5
      <3>4. CASE n >= c
        BY <2>4, <3>1, <3>2, <3>3, <3>4
      <3>5. CASE n < c
        BY <2>2, <2>4, <3>1, <3>2, <3>3, <3>5
      <3> QED BY <3>2, <3>4, <3>5
    <2> QED BY <2>3, <2>6, <2>7 DEF Turn
  <1>2. CASE Reap
    \* It forgets children and finds none again.
    <2>1. UNCHANGED <<sent, sub_process_counter>> /\ \A i \in Children : known'[i] => known[i]
      BY <1>2 DEF Reap
    <2> QED BY <2>1 DEF Turn
  <1>3. CASE UNCHANGED <<known, sent, sub_process_counter>>
    BY <1>3 DEF Turn
  <1>4. Dispatch \/ Reap \/ UNCHANGED <<known, sent, sub_process_counter>>
    BY DEF Next, ChildStep, ParentStep, Runs, Connect, Crash, Interrupt, Signals, Deliver,
           SetupSigPipe, EpollWait, NoSignal, Exit, NobodyLeft, KillChildren, AcceptOne,
           StopOnInt, ReportTerm, vars, poolVars
  <1> QED BY <1>1, <1>2, <1>3, <1>4

\* The invariant is inductive.
LEMMA NextIInv == IInv /\ [Next]_vars => IInv'
  BY ProcTypesKept, PoolTypesKept, EnvTypesKept, ForgottenAreGoneKept, StopsKept, TurnKept
  DEF IInv

\* The inductive invariant holds in every state of the pool.
THEOREM Invariance == Spec => []IInv
  BY InitIInv, NextIInv, PTL DEF Spec

\* The parent leaves its loop only when every child has gone, whatever signals,
\* crashes and connections come, for every number of children.
THEOREM ParentInvariant == Spec => []ParentInv
  <1>1. IInv => TypeOK
    BY DEF IInv, ProcTypes, PoolTypes, EnvTypes, TypeOK
  <1>2. IInv => ParentStopsLast
    BY DEF IInv, ForgottenAreGone, StopsWithoutChildren, ParentStopsLast, Alive
  <1>3. IInv => ParentInv
    BY <1>1, <1>2 DEF ParentInv
  <1> QED BY <1>3, Invariance, PTL

\* Connections are announced in turn to the children that are left, whatever their
\* number and whichever are lost: none is asked twice more often than another.
THEOREM RoundRobinInvariant == Spec => []RoundRobin
  <1>1. IInv => RoundRobin
    <2> SUFFICES ASSUME IInv, NEW i \in Children, NEW j \in Children, known[i], known[j]
                 PROVE  sent[i] <= sent[j] + 1
      BY DEF RoundRobin
    <2>1. PICK m \in Nat : \A k \in Children :
            known[k] => sent[k] = IF k < sub_process_counter THEN m + 1 ELSE m
      BY DEF IInv, Turn
    <2>2. /\ sent[i] = m \/ sent[i] = m + 1
          /\ sent[j] = m \/ sent[j] = m + 1
      BY <2>1
    <2> QED BY <2>2
  <1> QED BY <1>1, Invariance, PTL
-----------------------------------------------------------------------------
(* The table of the chat server. *)

\* TypeOK in parts: the table of users, what moves events, and all the rest.
TableTypes ==
  /\ users \in [0..USER_LIMIT -> Pids \union {NoPid}]
  /\ sub_process \in [Pids -> -1 .. USER_LIMIT]
  /\ user_counter \in 0..USER_LIMIT
  /\ holders \in [Pids -> SUBSET Pids]
  /\ child \in [Pids -> Chat!ChildStates]

EventTypes ==
  /\ terminate \in BOOLEAN /\ stop_server \in BOOLEAN
  /\ chatReady \subseteq {"listen", "sig"} /\ chatBatch \subseteq {"listen", "sig"}
  /\ chatSigpipe \in Seq({"CHLD", "TERM"}) /\ signals \in Seq({"CHLD", "TERM"})
  /\ parent \in {"loop", "exited"}

OtherTypes ==
  /\ chatBacklog \in Nat /\ chatConns \in 0..MaxChatConns /\ sends \in 0..MaxSends /\ terms \in 0..MaxTerms
  /\ stop_child \in [Pids -> BOOLEAN] /\ term \in [Pids -> BOOLEAN]
  /\ conn \in [Pids -> [data : BOOLEAN, closed : BOOLEAN, edge : BOOLEAN]]

\* The parts are the whole.
LEMMA TypesAreTypeOK == Chat!TypeOK <=> TableTypes /\ EventTypes /\ OtherTypes
  BY DEF Chat!TypeOK, TableTypes, EventTypes, OtherTypes

\* Table and map are each other's inverse.  TableConsistent has one direction and
\* the number; the last entry, which Reap moves, needs the other.
EntriesAreChildren ==
  /\ \A p \in Chat!Unreaped : sub_process[p] \in 0 .. user_counter - 1 /\ users[sub_process[p]] = p
  /\ \A i \in 0 .. user_counter - 1 : users[i] \in Chat!Unreaped /\ sub_process[users[i]] = i

ServerIInv ==
  /\ Chat!ServerAssumption
  /\ Chat!TypeOK
  /\ EntriesAreChildren /\ Cardinality(Chat!Unreaped) = user_counter

\* The operators on sets of the instance are those of this module.
LEMMA SameSets ==
  ASSUME NEW S
  PROVE  Chat!Cardinality(S) = Cardinality(S) /\ (Chat!IsFiniteSet(S) <=> IsFiniteSet(S))
  <1>1. Chat!Cardinality(S) = Cardinality(S)
    BY DEF Chat!Cardinality, Cardinality
  <1>2. Chat!IsFiniteSet(S) <=> IsFiniteSet(S)
    BY DEF Chat!IsFiniteSet, IsFiniteSet
  <1> QED BY <1>1, <1>2

\* The children not waited for are finitely many, and one more or one less when
\* one is forked or waited for.
LEMMA Counting ==
  ASSUME Chat!ServerAssumption
  PROVE
  /\ IsFiniteSet(Chat!Unreaped) /\ Cardinality(Chat!Unreaped) \in Nat
  /\ \A p \in Pids \ Chat!Unreaped : Cardinality(Chat!Unreaped \union {p}) = Cardinality(Chat!Unreaped) + 1
  /\ \A p \in Chat!Unreaped : Cardinality(Chat!Unreaped \ {p}) = Cardinality(Chat!Unreaped) - 1
  <1>1. IsFiniteSet(Chat!Unreaped)
    BY SameSets, FS_Subset DEF Chat!ServerAssumption, Chat!Unreaped
  <1>2. ASSUME NEW p \in Pids \ Chat!Unreaped
        PROVE  Cardinality(Chat!Unreaped \union {p}) = Cardinality(Chat!Unreaped) + 1
    BY <1>1, FS_AddElement
  <1>3. ASSUME NEW p \in Chat!Unreaped
        PROVE  Cardinality(Chat!Unreaped \ {p}) = Cardinality(Chat!Unreaped) - 1
    BY <1>1, FS_RemoveElement
  <1> QED BY <1>1, <1>2, <1>3, FS_CardinalityType

\* Before the first connection the table is empty.
LEMMA InitServerIInv == Chat!ServerAssumption /\ Chat!Init => ServerIInv
  <1> SUFFICES ASSUME Chat!ServerAssumption, Chat!Init PROVE ServerIInv
    OBVIOUS
  <1> USE DEF Chat!ServerAssumption, Chat!Init
  <1>1. TableTypes
    BY DEF TableTypes, Chat!ChildStates
  <1>2. EventTypes
    <2>1. terminate \in BOOLEAN /\ stop_server \in BOOLEAN
      BY Zenon
    <2>2. chatReady \subseteq {"listen", "sig"} /\ chatBatch \subseteq {"listen", "sig"}
      OBVIOUS
    <2>3. chatSigpipe \in Seq({"CHLD", "TERM"}) /\ signals \in Seq({"CHLD", "TERM"})
      OBVIOUS
    <2> QED BY <2>1, <2>2, <2>3 DEF EventTypes
  <1>3. OtherTypes
    BY DEF OtherTypes
  <1>4. Chat!Unreaped = {}
    BY DEF Chat!Unreaped
  <1>5. EntriesAreChildren
    BY <1>4 DEF EntriesAreChildren
  <1> QED BY <1>1, <1>2, <1>3, <1>4, <1>5, TypesAreTypeOK, FS_EmptySet DEF ServerIInv

-----------------------------------------------------------------------------
(* Types. *)

\* A byte on the pipe.
LEMMA SignalByteTypes ==
  ASSUME EventTypes, NEW sig \in {"CHLD", "TERM"}, Chat!SignalByte(sig)
  PROVE  chatReady' \subseteq {"listen", "sig"} /\ chatSigpipe' \in Seq({"CHLD", "TERM"})
  BY DEF EventTypes, Chat!SignalByte

\* The kernel's and the parent's events keep their types.
LEMMA EventTypesKept == ASSUME EventTypes, [Chat!Next]_(Chat!vars) PROVE EventTypes'
  <1> USE DEF EventTypes
  <1>1. CASE Chat!Connect
    BY <1>1 DEF Chat!Connect
  <1>2. CASE Chat!TerminateServer
    <2>1. UNCHANGED <<terminate, stop_server, chatBatch, signals, parent>> /\ Chat!SignalByte("TERM")
      BY <1>2 DEF Chat!TerminateServer
    <2> QED BY <2>1, SignalByteTypes
  <1>3. CASE Chat!EpollWait \/ Chat!NoNewUser \/ Chat!ParentExits
    BY <1>3 DEF Chat!EpollWait, Chat!NoNewUser, Chat!ParentExits
  <1>4. ASSUME NEW p \in Pids, Chat!NewUser(p) PROVE EventTypes'
    BY <1>4 DEF Chat!NewUser
  <1>5. CASE Chat!ReadSignals
    BY <1>5 DEF Chat!ReadSignals
  <1>6. CASE Chat!Reaped
    BY <1>6 DEF Chat!Reaped, Chat!Busy
  <1>7. CASE Chat!KillChildren
    <2>1. signals' = Tail(signals) /\ signals # <<>>
      BY <1>7 DEF Chat!KillChildren, Chat!Busy
    <2>2. signals' \in Seq({"CHLD", "TERM"})
      BY <2>1
    <2>3. terminate' \in BOOLEAN /\ stop_server' \in BOOLEAN
      BY <1>7, Zenon DEF Chat!KillChildren
    <2>4. UNCHANGED <<chatReady, chatBatch, chatSigpipe, parent>>
      BY <1>7 DEF Chat!KillChildren
    <2> QED BY <2>2, <2>3, <2>4
  <1>8. ASSUME NEW p \in Pids,
               \/ Chat!Reap(p) \/ Chat!CloseInherited(p) \/ Chat!AddSig(p) \/ Chat!TestStop(p) \/ Chat!Enter(p)
               \/ Chat!RecvConn(p) \/ Chat!PipeClosed(p) \/ Chat!ClientSends(p) \/ Chat!ClientCloses(p)
        PROVE  EventTypes'
    BY <1>8 DEF Chat!Reap, Chat!CloseInherited, Chat!AddSig, Chat!TestStop, Chat!Enter, Chat!RecvConn, Chat!PipeClosed,
                Chat!ClientSends, Chat!ClientCloses, Chat!loopVars
  <1>9. ASSUME NEW p \in Pids, Chat!ChildExits(p) \/ Chat!DeliverTerm(p) PROVE EventTypes'
    <2>1. UNCHANGED <<terminate, stop_server, chatBatch, signals, parent>>
      BY <1>9 DEF Chat!ChildExits, Chat!DeliverTerm
    <2>2. Chat!SignalByte("CHLD") \/ Chat!SignalByte("TERM") \/ UNCHANGED <<chatSigpipe, chatReady>>
      BY <1>9 DEF Chat!ChildExits, Chat!DeliverTerm
    <2> QED BY <2>1, <2>2, SignalByteTypes
  <1>10. CASE UNCHANGED Chat!vars
    BY <1>10 DEF Chat!vars, Chat!loopVars
  <1> QED BY <1>1, <1>2, <1>3, <1>4, <1>5, <1>6, <1>7, <1>8, <1>9, <1>10
    DEF Chat!Next, Chat!Parent, Chat!Child

\* So do the counters and what belongs to each child.
LEMMA OtherTypesKept == ASSUME Chat!ServerAssumption, OtherTypes, [Chat!Next]_(Chat!vars) PROVE OtherTypes'
  <1> USE DEF Chat!ServerAssumption, OtherTypes
  <1>1. CASE Chat!Connect \/ Chat!TerminateServer
    BY <1>1 DEF Chat!Connect, Chat!TerminateServer, Chat!childVars
  <1>2. CASE Chat!NoNewUser
    BY <1>2 DEF Chat!NoNewUser, Chat!childVars
  <1>3. ASSUME NEW p \in Pids, Chat!NewUser(p) PROVE OtherTypes'
    BY <1>3 DEF Chat!NewUser
  <1>4. CASE Chat!EpollWait \/ Chat!ReadSignals \/ Chat!Reaped \/ Chat!ParentExits
    BY <1>4 DEF Chat!EpollWait, Chat!ReadSignals, Chat!Reaped, Chat!ParentExits, Chat!childVars, Chat!envVars
  <1>5. CASE Chat!KillChildren
    <2>1. UNCHANGED <<Chat!envVars, stop_child, conn>>
      BY <1>5 DEF Chat!KillChildren
    <2>2. \/ UNCHANGED term
          \/ term' = [p \in Pids |->
                       term[p] \/ (child[p] # "zombie" /\ \E i \in 0 .. user_counter - 1 : users[i] = p)]
      BY <1>5 DEF Chat!KillChildren
    <2>3. term' \in [Pids -> BOOLEAN]
      BY <2>2
    <2> QED BY <2>1, <2>3 DEF Chat!envVars
  <1>6. ASSUME NEW p \in Pids,
               \/ Chat!Reap(p) \/ Chat!CloseInherited(p) \/ Chat!AddSig(p) \/ Chat!TestStop(p) \/ Chat!Enter(p)
               \/ Chat!ChildExits(p)
        PROVE  OtherTypes'
    BY <1>6 DEF Chat!Reap, Chat!CloseInherited, Chat!AddSig, Chat!TestStop, Chat!Enter, Chat!ChildExits, Chat!envVars
  <1>7. ASSUME NEW p \in Pids, Chat!ClientSends(p) \/ Chat!ClientCloses(p) PROVE OtherTypes'
    <2>1. conn' \in [Pids -> [data : BOOLEAN, closed : BOOLEAN, edge : BOOLEAN]]
      <3>1. conn[p] \in [data : BOOLEAN, closed : BOOLEAN, edge : BOOLEAN]
        OBVIOUS
      <3>2. \A r \in [data : BOOLEAN, closed : BOOLEAN, edge : BOOLEAN] :
              /\ [r EXCEPT !.data = TRUE, !.edge = TRUE] \in [data : BOOLEAN, closed : BOOLEAN, edge : BOOLEAN]
              /\ [r EXCEPT !.closed = TRUE, !.edge = TRUE] \in [data : BOOLEAN, closed : BOOLEAN, edge : BOOLEAN]
        OBVIOUS
      <3> DEFINE opened == [conn[p] EXCEPT !.data = TRUE, !.edge = TRUE]
                 ended  == [conn[p] EXCEPT !.closed = TRUE, !.edge = TRUE]
      <3>3. /\ opened \in [data : BOOLEAN, closed : BOOLEAN, edge : BOOLEAN]
            /\ ended \in [data : BOOLEAN, closed : BOOLEAN, edge : BOOLEAN]
        BY <3>1, <3>2
      <3>4. conn' = [conn EXCEPT ![p] = opened] \/ conn' = [conn EXCEPT ![p] = ended]
        BY <1>7 DEF Chat!ClientSends, Chat!ClientCloses
      <3> HIDE DEF opened, ended
      <3> QED BY <3>3, <3>4
    <2>2. UNCHANGED <<stop_child, term, chatBacklog, chatConns, terms>> /\ sends' \in 0..MaxSends
      BY <1>7 DEF Chat!ClientSends, Chat!ClientCloses, Chat!envVars
    <2> QED BY <2>1, <2>2
  <1>8. ASSUME NEW p \in Pids, Chat!RecvConn(p) PROVE OtherTypes'
    <2>1. conn' \in [Pids -> [data : BOOLEAN, closed : BOOLEAN, edge : BOOLEAN]]
      BY <1>8 DEF Chat!RecvConn
    <2>2. stop_child' \in [Pids -> BOOLEAN]
      BY <1>8, Zenon DEF Chat!RecvConn
    <2> QED BY <1>8, <2>1, <2>2 DEF Chat!RecvConn, Chat!envVars
  <1>9. ASSUME NEW p \in Pids, Chat!PipeClosed(p) PROVE OtherTypes'
    BY <1>9 DEF Chat!PipeClosed, Chat!envVars
  <1>10. ASSUME NEW p \in Pids, Chat!DeliverTerm(p) PROVE OtherTypes'
    <2>1. term' \in [Pids -> BOOLEAN]
      BY <1>10 DEF Chat!DeliverTerm
    <2>2. stop_child' \in [Pids -> BOOLEAN]
      BY <1>10, Zenon DEF Chat!DeliverTerm
    <2> QED BY <1>10, <2>1, <2>2 DEF Chat!DeliverTerm, Chat!envVars
  <1>11. CASE UNCHANGED Chat!vars
    BY <1>11 DEF Chat!vars, Chat!childVars, Chat!envVars
  <1> QED BY <1>1, <1>2, <1>3, <1>4, <1>5, <1>6, <1>7, <1>8, <1>9, <1>10, <1>11
    DEF Chat!Next, Chat!Parent, Chat!Child

-----------------------------------------------------------------------------
(* The table.  Only a fork and a waitpid change it. *)

\* What the table's properties depend on.
table == <<users, sub_process, user_counter, Chat!Unreaped>>

\* Where the table stays as it is, so do its properties.
LEMMA TableUnchanged ==
  ASSUME ServerIInv, UNCHANGED table
  PROVE  EntriesAreChildren' /\ Cardinality(Chat!Unreaped') = user_counter'
  BY DEF ServerIInv, EntriesAreChildren, table

\* Every step but those two leaves the table alone; a child that goes from one
\* place to another, or becomes a zombie, is still to be waited for.
LEMMA OthersLeaveTable ==
  ASSUME TableTypes, [Chat!Next]_(Chat!vars)
  PROVE  \/ \E p \in Pids : Chat!NewUser(p) \/ Chat!Reap(p)
         \/ UNCHANGED table /\ TableTypes'
  <1> USE DEF TableTypes, Chat!tableVars
  <1>1. ASSUME UNCHANGED <<Chat!tableVars, child>> PROVE UNCHANGED table /\ TableTypes'
    BY <1>1 DEF table, Chat!Unreaped
  <1>2. CASE Chat!Connect \/ Chat!TerminateServer \/ Chat!EpollWait \/ Chat!NoNewUser \/ Chat!ReadSignals \/ Chat!Reaped
             \/ Chat!KillChildren \/ Chat!ParentExits \/ UNCHANGED Chat!vars
    BY <1>1, <1>2 DEF Chat!Connect, Chat!TerminateServer, Chat!EpollWait, Chat!NoNewUser, Chat!ReadSignals, Chat!Reaped,
                      Chat!KillChildren, Chat!ParentExits, Chat!vars, Chat!childVars
  <1>3. ASSUME NEW p \in Pids, Chat!ClientSends(p) \/ Chat!ClientCloses(p)
        PROVE  UNCHANGED table /\ TableTypes'
    BY <1>1, <1>3 DEF Chat!ClientSends, Chat!ClientCloses
  <1>4. ASSUME NEW p \in Pids, Chat!Child(p) \/ Chat!DeliverTerm(p)
        PROVE  UNCHANGED table /\ TableTypes'
    <2>1. /\ UNCHANGED Chat!tableVars
          /\ \/ UNCHANGED child
             \/ \E from, to \in Chat!ChildStates \ {"none"} :
                  child[p] = from /\ child' = [child EXCEPT ![p] = to]
      <3>1. CASE Chat!DeliverTerm(p)
        <4>1. child[p] \in Chat!ChildStates \ {"none"} /\ child' = [child EXCEPT ![p] = IF @ = "blocked" THEN "test" ELSE @]
          BY <3>1 DEF Chat!DeliverTerm
        <4>2. (IF child[p] = "blocked" THEN "test" ELSE child[p]) \in Chat!ChildStates \ {"none"}
          BY <4>1 DEF Chat!ChildStates
        <4> QED BY <3>1, <4>1, <4>2 DEF Chat!DeliverTerm
      <3>2. CASE Chat!Child(p)
        BY <3>2 DEF Chat!Child, Chat!CloseInherited, Chat!AddSig, Chat!TestStop, Chat!Enter, Chat!RecvConn, Chat!PipeClosed,
                    Chat!ChildExits, Chat!ChildGoes, Chat!ChildStates
      <3> QED BY <1>4, <3>1, <3>2
    <2>2. CASE UNCHANGED child
      BY <1>1, <2>1, <2>2
    <2>3. ASSUME NEW from \in Chat!ChildStates \ {"none"}, NEW to \in Chat!ChildStates \ {"none"},
                 child[p] = from, child' = [child EXCEPT ![p] = to]
          PROVE  UNCHANGED table /\ TableTypes'
      <3>1. \A q \in Pids : child'[q] # "none" <=> child[q] # "none"
        BY <2>3
      <3>2. child' \in [Pids -> Chat!ChildStates]
        BY <2>3
      <3>3. UNCHANGED Chat!Unreaped
        BY <3>1 DEF Chat!Unreaped
      <3> QED BY <2>1, <3>2, <3>3 DEF table
    <2> QED BY <2>1, <2>2, <2>3
  <1> QED BY <1>2, <1>3, <1>4 DEF Chat!Next, Chat!Parent

\* A fork appends a child to the table.
LEMMA NewUserKeeps ==
  ASSUME ServerIInv, NEW p \in Pids, Chat!NewUser(p)
  PROVE  TableTypes' /\ EntriesAreChildren' /\ Cardinality(Chat!Unreaped') = user_counter'
  <1> DEFINE n == user_counter
  <1>1. TableTypes
    BY TypesAreTypeOK DEF ServerIInv
  <1>2. /\ p \notin Chat!Unreaped /\ n \in Nat /\ n < USER_LIMIT /\ USER_LIMIT \in Nat
        /\ users' = [users EXCEPT ![n] = p]
        /\ sub_process' = [sub_process EXCEPT ![p] = n]
        /\ user_counter' = n + 1
        /\ child' = [child EXCEPT ![p] = "forked"]
    BY <1>1 DEF ServerIInv, Chat!ServerAssumption, Chat!NewUser, TableTypes, Chat!Unreaped
  <1>3. Chat!Unreaped' = Chat!Unreaped \union {p}
    BY <1>1, <1>2 DEF Chat!Unreaped, TableTypes
  <1>4. Cardinality(Chat!Unreaped') = n + 1
    BY <1>2, <1>3, Counting DEF ServerIInv
  <1>5. TableTypes'
    <2>1. holders' \in [Pids -> SUBSET Pids]
      BY <1>1 DEF Chat!NewUser, Chat!Inherit, TableTypes
    <2>2. child' \in [Pids -> Chat!ChildStates]
      BY <1>1, <1>2 DEF TableTypes, Chat!ChildStates
    <2> QED BY <1>1, <1>2, <2>1, <2>2 DEF TableTypes
  <1>6. ASSUME NEW q \in Chat!Unreaped'
        PROVE  sub_process'[q] \in 0 .. n /\ users'[sub_process'[q]] = q
    <2>1. CASE q = p
      BY <1>1, <1>2, <2>1 DEF TableTypes
    <2>2. CASE q # p
      <3>1. q \in Chat!Unreaped /\ q \in Pids /\ sub_process'[q] = sub_process[q]
        BY <1>1, <1>2, <1>3, <2>2 DEF TableTypes, Chat!Unreaped
      <3>2. sub_process[q] \in 0 .. n - 1 /\ users[sub_process[q]] = q
        BY <3>1 DEF ServerIInv, EntriesAreChildren
      <3> QED BY <1>1, <1>2, <3>1, <3>2 DEF TableTypes
    <2> QED BY <2>1, <2>2
  <1>7. ASSUME NEW i \in 0 .. n
        PROVE  users'[i] \in Chat!Unreaped' /\ sub_process'[users'[i]] = i
    <2>1. CASE i = n
      BY <1>1, <1>2, <1>3, <2>1 DEF TableTypes
    <2>2. CASE i # n
      <3>1. i \in 0 .. n - 1 /\ i \in 0 .. USER_LIMIT
        BY <1>2, <2>2
      <3>2. users[i] \in Chat!Unreaped /\ sub_process[users[i]] = i
        BY <3>1 DEF ServerIInv, EntriesAreChildren
      <3>3. users'[i] = users[i] /\ users[i] # p /\ users[i] \in Pids
        BY <1>1, <1>2, <2>2, <3>1, <3>2 DEF TableTypes, Chat!Unreaped
      <3> QED BY <1>1, <1>2, <1>3, <3>2, <3>3 DEF TableTypes
    <2> QED BY <2>1, <2>2
  <1>8. 0 .. user_counter' - 1 = 0 .. n
    BY <1>2
  <1>9. EntriesAreChildren'
    BY <1>6, <1>7, <1>8 DEF EntriesAreChildren
  <1> QED BY <1>2, <1>4, <1>5, <1>9

\* A waitpid takes a child out: the last one moves into its place.
LEMMA ReapKeeps ==
  ASSUME ServerIInv, NEW p \in Pids, Chat!Reap(p)
  PROVE  TableTypes' /\ EntriesAreChildren' /\ Cardinality(Chat!Unreaped') = user_counter'
  <1> DEFINE n    == user_counter
             d    == sub_process[p]
             last == users[n - 1]
  <1>1. TableTypes
    BY TypesAreTypeOK DEF ServerIInv
  <1>2. p \in Chat!Unreaped
    BY DEF Chat!Reap, Chat!Unreaped
  <1>3. d \in 0 .. n - 1 /\ users[d] = p /\ n \in 0 .. USER_LIMIT /\ n \in Nat \ {0} /\ USER_LIMIT \in Nat
    BY <1>1, <1>2 DEF Chat!ServerAssumption, ServerIInv, EntriesAreChildren, TableTypes
  <1>4. last \in Chat!Unreaped /\ last \in Pids /\ sub_process[last] = n - 1
    BY <1>3 DEF ServerIInv, EntriesAreChildren, Chat!Unreaped
  <1>5. /\ user_counter' = n - 1
        /\ users' = [users EXCEPT ![d] = last]
        /\ sub_process' = [[sub_process EXCEPT ![p] = -1] EXCEPT ![last] = d]
        /\ child' = [child EXCEPT ![p] = "none"]
    <2>1. ~(d < 0 \/ d > USER_LIMIT) /\ d \in 0 .. USER_LIMIT
      BY <1>3
    <2>2. /\ user_counter' = n - 1 /\ users' = [users EXCEPT ![d] = users[user_counter']]
          /\ sub_process' = [[sub_process EXCEPT ![p] = -1] EXCEPT ![users'[d]] = d]
          /\ child' = [child EXCEPT ![p] = "none"]
      BY <2>1 DEF Chat!Reap
    <2>3. users'[d] = last
      BY <1>1, <2>1, <2>2 DEF TableTypes
    <2> QED BY <2>2, <2>3
  <1>6. Chat!Unreaped' = Chat!Unreaped \ {p}
    BY <1>1, <1>5 DEF Chat!Unreaped, TableTypes
  <1>7. Cardinality(Chat!Unreaped') = n - 1
    BY <1>2, <1>6, Counting DEF ServerIInv
  <1>8. TableTypes'
    <2>1. holders' \in [Pids -> SUBSET Pids]
      BY <1>1 DEF Chat!Reap, TableTypes
    <2>2. child' \in [Pids -> Chat!ChildStates]
      BY <1>1, <1>5 DEF TableTypes, Chat!ChildStates
    <2>3. sub_process' \in [Pids -> -1 .. USER_LIMIT]
      <3> DEFINE cleared == [sub_process EXCEPT ![p] = -1]
      <3>1. -1 \in -1 .. USER_LIMIT /\ d \in -1 .. USER_LIMIT
        BY <1>3
      <3>2. cleared \in [Pids -> -1 .. USER_LIMIT]
        BY <1>1, <3>1 DEF TableTypes
      <3>3. sub_process' = [cleared EXCEPT ![last] = d]
        BY <1>5
      <3> HIDE DEF cleared, d, last
      <3> QED BY <3>1, <3>2, <3>3
    <2>4. users' \in [0 .. USER_LIMIT -> Pids \union {NoPid}] /\ user_counter' \in 0 .. USER_LIMIT
      BY <1>1, <1>3, <1>4, <1>5 DEF TableTypes
    <2> QED BY <2>1, <2>2, <2>3, <2>4 DEF TableTypes
  <1>9. ASSUME NEW q \in Chat!Unreaped'
        PROVE  sub_process'[q] \in 0 .. n - 2 /\ users'[sub_process'[q]] = q
    <2>1. q \in Chat!Unreaped /\ q \in Pids /\ q # p
      BY <1>6 DEF Chat!Unreaped
    <2>2. sub_process[q] \in 0 .. n - 1 /\ users[sub_process[q]] = q
      BY <2>1 DEF ServerIInv, EntriesAreChildren
    <2>3. CASE q = last
      \* Two children have two places, so the one of p is not the last.
      <3>1. d # n - 1
        BY <1>3, <2>1, <2>3
      <3>2. sub_process'[q] = d /\ users'[d] = last
        BY <1>1, <1>3, <1>4, <1>5, <2>3 DEF TableTypes
      <3> QED BY <1>3, <2>3, <3>1, <3>2
    <2>4. CASE q # last
      <3>1. sub_process'[q] = sub_process[q]
        BY <1>1, <1>5, <2>1, <2>4 DEF TableTypes
      <3>2. sub_process[q] # n - 1 /\ sub_process[q] # d
        BY <1>3, <2>1, <2>2, <2>4
      <3>3. users'[sub_process[q]] = users[sub_process[q]]
        BY <1>1, <1>3, <1>5, <2>2, <3>2 DEF TableTypes
      <3> QED BY <1>3, <2>2, <3>1, <3>2, <3>3
    <2> QED BY <2>3, <2>4
  <1>10. ASSUME NEW i \in 0 .. n - 2
         PROVE  users'[i] \in Chat!Unreaped' /\ sub_process'[users'[i]] = i
    <2>1. CASE i = d
      <3>1. users'[i] = last
        BY <1>1, <1>3, <1>5, <2>1 DEF TableTypes
      <3>2. last # p
        BY <1>3, <1>4, <2>1
      <3> QED BY <1>1, <1>4, <1>5, <1>6, <2>1, <3>1, <3>2 DEF TableTypes
    <2>2. CASE i # d
      <3>1. i \in 0 .. n - 1 /\ i # n - 1
        BY <1>3
      <3>2. users[i] \in Chat!Unreaped /\ sub_process[users[i]] = i
        BY <3>1 DEF ServerIInv, EntriesAreChildren
      <3>3. users[i] # p /\ users[i] # last /\ users[i] \in Pids
        BY <1>4, <2>2, <3>1, <3>2 DEF Chat!Unreaped
      <3>4. users'[i] = users[i]
        BY <1>1, <1>3, <1>5, <2>2, <3>1 DEF TableTypes
      <3> QED BY <1>1, <1>5, <1>6, <3>2, <3>3, <3>4 DEF TableTypes
    <2> QED BY <2>1, <2>2
  <1>11. 0 .. user_counter' - 1 = 0 .. n - 2
    BY <1>3, <1>5
  <1>12. EntriesAreChildren'
    BY <1>9, <1>10, <1>11 DEF EntriesAreChildren
  <1> QED BY <1>5, <1>7, <1>8, <1>12

\* The invariant is inductive.
LEMMA NextServerIInv == ServerIInv /\ [Chat!Next]_(Chat!vars) => ServerIInv'
  <1> SUFFICES ASSUME ServerIInv, [Chat!Next]_(Chat!vars) PROVE ServerIInv'
    OBVIOUS
  <1>1. EventTypes' /\ OtherTypes' /\ TableTypes
    BY EventTypesKept, OtherTypesKept, TypesAreTypeOK DEF ServerIInv
  <1>2. TableTypes' /\ EntriesAreChildren' /\ Cardinality(Chat!Unreaped') = user_counter'
    BY <1>1, OthersLeaveTable, TableUnchanged, NewUserKeeps, ReapKeeps
  <1>3. Chat!TypeOK'
    BY <1>1, <1>2 DEF Chat!TypeOK, TableTypes, EventTypes, OtherTypes
  <1> QED BY <1>2, <1>3 DEF ServerIInv

\* The inductive invariant holds in every state of the server.
THEOREM ServerInvariance == ChatSpec => []ServerIInv
  <1>1. MCInit => ServerIInv
    BY InitServerIInv, ServerAssumption DEF MCInit
  <1>2. ServerIInv /\ [ChatNext]_<<vars, chatVars>> => ServerIInv'
    <2> SUFFICES ASSUME ServerIInv, [ChatNext]_<<vars, chatVars>> PROVE ServerIInv'
      OBVIOUS
    <2>1. [Chat!Next]_(Chat!vars)
      BY DEF ChatNext, chatVars, Chat!vars, Chat!tableVars, Chat!loopVars, Chat!childVars, Chat!envVars
    <2> QED BY <2>1, NextServerIInv
  <1> QED BY <1>1, <1>2, PTL DEF ChatSpec

\* The table of users, the map from process numbers to its entries and the counter
\* agree after any forks and any exits, for any USER_LIMIT: the counter never
\* passes the limit, and waitpid frees the entry of the child that has exited.
THEOREM TableInvariant == ChatSpec => []TableInv
  <1>1. ServerIInv => TableInv
    BY SameSets DEF TableInv, ServerIInv, EntriesAreChildren, Chat!TableInv, Chat!TableConsistent
  <1> QED BY <1>1, ServerInvariance, PTL
=============================================================================
