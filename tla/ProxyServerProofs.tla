------------------------- MODULE ProxyServerProofs -------------------------
(***************************************************************************)
(* The safety invariants of ProxyServer, for any number of threads,        *)
(* descriptors, connections and priorities and any bound on the queue.     *)
(***************************************************************************)
EXTENDS ProxyServer, FiniteSetTheorems, SequenceTheorems, WellFoundedInduction, TLAPS

(***************************************************************************)
(* What the operators of SafeQueue compute, for queues of any length.      *)
(***************************************************************************)
(* A non-empty set of naturals has a least element ... *)
LEMMA LeastNatural ==
  ASSUME NEW T \in SUBSET Nat, T # {}
  PROVE  \E m \in T : \A n \in T : m <= n
<1>1. PICK m \in T : \A n \in T : ~(<<n, m>> \in OpToRel(<, Nat))
  BY NatLessThanWellFounded, WFMin
<1>2. \A n \in T : n < m => <<n, m>> \in OpToRel(<, Nat)
  BY DEF OpToRel
<1>3. \A n \in T : ~(n < m)
  BY <1>1, <1>2
<1>4. m \in Nat /\ \A n \in T : n \in Nat
  OBVIOUS
<1>5. QED
  BY <1>3, <1>4

(* ... and, when it is bounded, a greatest. *)
LEMMA GreatestNatural ==
  ASSUME NEW M \in Nat, NEW T \in SUBSET (0 .. M), T # {}
  PROVE  \E m \in T : \A n \in T : n <= m
<1> DEFINE U == {M - n : n \in T}
<1>1. U \in SUBSET Nat
  <2>1. \A n \in T : M - n \in Nat
    OBVIOUS
  <2>2. QED
    BY <2>1
<1>2. U # {}
  OBVIOUS
<1>3. PICK u \in U : \A v \in U : u <= v
  BY <1>1, <1>2, LeastNatural
<1>4. PICK m \in T : u = M - m
  BY <1>3
<1>5. \A n \in T : u <= M - n
  BY <1>3
<1>6. QED
  BY <1>4, <1>5

(* The requests a queue of ProxyServer holds have a bounded priority. *)
Prioritised(S, M) == \A job \in S : job.priority \in 0 .. M

(* get_work's scan of a non-empty queue ends at an index of the queue: the *)
(* first of the requests with the greatest priority.                       *)
LEMMA HighestIndexExists ==
  ASSUME NEW S, NEW M \in Nat, Prioritised(S, M), NEW q \in Seq(S), q # << >>
  PROVE  /\ HighestIndex(q) \in 1 .. Len(q)
         /\ IsHighest(q, HighestIndex(q))
<1> DEFINE P == {q[i].priority : i \in 1 .. Len(q)}
<1>1. /\ Len(q) \in Nat \ {0}
      /\ DOMAIN q = 1 .. Len(q)
      /\ \A i \in 1 .. Len(q) : q[i] \in S
  BY EmptySeq, LenProperties, ElementOfSeq
<1>2. P \in SUBSET (0 .. M) /\ P # {}
  BY <1>1 DEF Prioritised
<1>3. PICK m \in P : \A n \in P : n <= m
  BY <1>2, GreatestNatural
<1> DEFINE I == {i \in 1 .. Len(q) : q[i].priority = m}
<1>4. I \in SUBSET Nat /\ I # {}
  BY <1>3
<1>5. PICK i \in I : \A j \in I : i <= j
  BY <1>4, LeastNatural
<1>6. i \in 1 .. Len(q) /\ q[i].priority = m
  BY <1>5
<1>7. \A j \in 1 .. Len(q) : q[j].priority <= q[i].priority
  BY <1>3, <1>6
<1>8. \A j \in 1 .. (i - 1) : q[j].priority < q[i].priority
  <2> SUFFICES ASSUME NEW j \in 1 .. (i - 1)
               PROVE  q[j].priority < q[i].priority
    OBVIOUS
  <2>1. j \in 1 .. Len(q) /\ j < i
    BY <1>1, <1>6
  <2>2. q[j].priority # m
    BY <1>5, <1>6, <2>1
  <2>3. q[j].priority \in 0 .. M /\ q[i].priority \in 0 .. M
    BY <1>1, <1>6, <2>1 DEF Prioritised
  <2>4. QED
    BY <1>6, <1>7, <2>1, <2>2, <2>3
<1>9. IsHighest(q, i)
  BY <1>1, <1>6, <1>7, <1>8 DEF IsHighest
<1>10. QED
  BY <1>1, <1>6, <1>9 DEF HighestIndex

(* add_work puts the request behind the others. *)
LEMMA AddWorkProperties ==
  ASSUME NEW S, NEW q \in Seq(S), NEW job \in S
  PROVE  /\ add_work(q, job) \in Seq(S)
         /\ Len(add_work(q, job)) = Len(q) + 1
         /\ \A i \in 1 .. Len(q) : add_work(q, job)[i] = q[i]
         /\ add_work(q, job)[Len(q) + 1] = job
BY DEF add_work

(* The shift loop keeps every other request, in order. *)
LEMMA WithoutProperties ==
  ASSUME NEW S, NEW q \in Seq(S), NEW i \in 1 .. Len(q)
  PROVE  /\ Without(q, i) \in Seq(S)
         /\ Len(Without(q, i)) = Len(q) - 1
         /\ \A j \in 1 .. (Len(q) - 1) :
              Without(q, i)[j] = IF j < i THEN q[j] ELSE q[j + 1]
<1>1. /\ Len(q) \in Nat /\ Len(q) - 1 \in Nat
      /\ \A j \in 1 .. Len(q) : q[j] \in S
  BY LenProperties, ElementOfSeq
<1>2. \A j \in 1 .. (Len(q) - 1) : (IF j < i THEN q[j] ELSE q[j + 1]) \in S
  BY <1>1
<1>3. QED
  BY <1>1, <1>2 DEF Without

-----------------------------------------------------------------------------
(***************************************************************************)
(* What an inductive argument needs to know besides the properties: in     *)
(* which control states a thread has a request in its hands, and that a    *)
(* worker reaches close() only at an end of serve_request.                 *)
(***************************************************************************)
HoldStates == {"parse", "getjob", "getjob_cs", "add", "add_cs", "delay",
               "connect", "relay", "close"} \cup ReplyStates

HoldingOK == \A t \in Threads : pc[t] \in HoldStates <=> Holds(t)

ClosingOK ==
  \A w \in Workers : pc[w] = "close" => resp[cur[w].conn] # "none"

USE ProxyAssumption DEF ProxyAssumption

(* Priorities are what sscanf can store. *)
LEMMA JobsPrioritised == MaxPriority \in Nat /\ Prioritised(Job, MaxPriority)
BY DEF Prioritised, Job

(* Taking the request with the highest priority out of the queue. *)
LEMMA TakeProperties ==
  ASSUME TypeOK, queue # << >>
  PROVE  /\ HighestIndex(queue) \in 1 .. Len(queue)
         /\ queue[HighestIndex(queue)] \in Job
         /\ Without(queue, HighestIndex(queue)) \in Seq(Job)
         /\ Len(Without(queue, HighestIndex(queue))) = Len(queue) - 1
<1>1. queue \in Seq(Job)
  BY DEF TypeOK
<1>2. HighestIndex(queue) \in 1 .. Len(queue)
  BY <1>1, JobsPrioritised, HighestIndexExists
<1>3. QED
  BY <1>1, <1>2, ElementOfSeq, WithoutProperties

(* Init, before any thread has run. *)
LEMMA InitTypes == Init => TypeOK /\ HoldingOK
<1> SUFFICES ASSUME Init PROVE TypeOK /\ HoldingOK
  OBVIOUS
<1>1. queue \in Seq(Job) /\ Len(queue) = 0
  BY EmptySeq DEF Init, create_queue
<1>2. TypeOK
  BY <1>1 DEF Init, TypeOK, Threads, ListenerStates, WorkerStates, Conns,
              Responses
<1>3. HoldingOK
  BY DEF Init, HoldingOK, HoldStates, ReplyStates, Holds, Threads
<1>4. QED
  BY <1>2, <1>3

(* A thread in a state that has a request has one of type Job. *)
LEMMA HeldIsJob ==
  ASSUME TypeOK, HoldingOK, NEW t \in Threads, pc[t] \in HoldStates
  PROVE  cur[t] \in Job
BY DEF TypeOK, HoldingOK, Holds

(* close() leaves the table of descriptors well formed. *)
LEMMA CloseType ==
  ASSUME TypeOK, NEW f
  PROVE  [conn EXCEPT ![f] = 0] \in [Fds -> 0 .. MaxConns]
<1>1. 0 \in 0 .. MaxConns /\ conn \in [Fds -> 0 .. MaxConns]
  BY DEF TypeOK
<1>2. QED
  BY <1>1

LEMMA ControlStates ==
  /\ ListenerStates = {"accept", "parse", "getjob", "getjob_cs", "add",
                       "add_cs", "peek", "print", "reply400", "reply598",
                       "reply200", "reply599"}
  /\ WorkerStates = {"get", "get_cs", "wait", "delay", "connect", "relay",
                     "close"}
  /\ HoldStates = {"parse", "getjob", "getjob_cs", "add", "add_cs", "delay",
                   "connect", "relay", "close", "reply400", "reply598",
                   "reply200", "reply599"}
BY DEF ListenerStates, WorkerStates, HoldStates, ReplyStates

(* Every step keeps the types and the link between control and request. *)
LEMMA NextTypes ==
  ASSUME TypeOK, HoldingOK, [Next]_vars
  PROVE  TypeOK' /\ HoldingOK'
<1> USE DEF TypeOK, HoldingOK, Holds, Threads, Goto
<1>1. ASSUME NEW l \in Listeners, Accept(l)
      PROVE  TypeOK' /\ HoldingOK'
  <2>1. PICK f \in Fds :
          /\ conn' = [conn EXCEPT ![f] = nconn + 1]
          /\ cur' = [cur EXCEPT ![l] = [fd |-> f, conn |-> nconn + 1, priority |-> 0, delay |-> 0]]
    BY <1>1 DEF Accept
  <2>2. /\ nconn + 1 \in 0 .. MaxConns /\ nconn' = nconn + 1 /\ nconn + 1 \in Conns
        /\ pc[l] = "accept" /\ pc' = [pc EXCEPT ![l] = "parse"]
        /\ UNCHANGED <<mutex, queue, resp, stolen, spurious>>
    BY <1>1, ProxyAssumption DEF Accept, Conns, ProxyAssumption
  <2>3. [fd |-> f, conn |-> nconn + 1, priority |-> 0, delay |-> 0] \in Job
    BY <2>2 DEF Job
  <2>4. TypeOK'
    BY <2>1, <2>2, <2>3, ControlStates
  <2>5. HoldingOK'
    BY <2>1, <2>2, <2>3, ControlStates, ProxyAssumption DEF ProxyAssumption
  <2>6. QED
    BY <2>4, <2>5
<1>2. ASSUME NEW l \in Listeners, NEW r \in Requests, Parse(l, r)
      PROVE  TypeOK' /\ HoldingOK'
  <2>1. cur[l] \in Job /\ cur[l] # None
    BY <1>2, ControlStates, HeldIsJob DEF Parse
  <2>2. [cur[l] EXCEPT !.priority = r.priority, !.delay = r.delay] \in Job
    BY <2>1 DEF Job
  <2>3. cur' = [cur EXCEPT ![l] = [cur[l] EXCEPT !.priority = r.priority,
                                                 !.delay = r.delay]]
    BY <1>2, <2>1 DEF Parse
  <2>4. pc'[l] \in {"add", "getjob", "reply400"}
    BY <1>2 DEF Parse
  <2>5. pc' = [pc EXCEPT ![l] = pc'[l]] /\ pc[l] = "parse"
    BY <1>2 DEF Parse
  <2>6. TypeOK'
    BY <1>2, <2>2, <2>3, <2>4, <2>5, ControlStates DEF Parse
  <2>7. HoldingOK'
    BY <2>2, <2>3, <2>4, <2>5, ControlStates
  <2>8. QED
    BY <2>6, <2>7
<1>3. ASSUME NEW t \in Threads, NEW from, NEW to, Lock(t, from, to),
             \/ t \in Listeners /\ <<from, to>> = <<"getjob", "getjob_cs">>
             \/ t \in Listeners /\ <<from, to>> = <<"add", "add_cs">>
             \/ t \in Workers /\ <<from, to>> = <<"get", "get_cs">>
      PROVE  TypeOK' /\ HoldingOK'
  BY <1>3, ControlStates DEF Lock
<1>4. ASSUME NEW l \in Listeners, GetJobEmpty(l)
      PROVE  TypeOK' /\ HoldingOK'
  BY <1>4, ControlStates DEF GetJobEmpty
<1>5. ASSUME NEW l \in Listeners, GetJobTake(l)
      PROVE  TypeOK' /\ HoldingOK'
  <2>1. /\ queue' \in Seq(Job)
        /\ Len(queue') <= MaxQueueSize
    BY <1>5, TakeProperties DEF GetJobTake
  <2>2. stolen' \subseteq Conns
    BY <1>5, TakeProperties DEF GetJobTake, Job
  <2>3. QED
    BY <1>5, <2>1, <2>2, ControlStates DEF GetJobTake
<1>6. ASSUME NEW l \in Listeners, AddFull(l)
      PROVE  TypeOK' /\ HoldingOK'
  BY <1>6, ControlStates DEF AddFull
<1>7. ASSUME NEW l \in Listeners, AddWork(l)
      PROVE  TypeOK' /\ HoldingOK'
  <2>1. cur[l] \in Job
    BY <1>7, ControlStates, HeldIsJob DEF AddWork
  <2>2. /\ queue' \in Seq(Job)
        /\ Len(queue') <= MaxQueueSize
    BY <1>7, <2>1, AddWorkProperties, LenProperties DEF AddWork, IsFull
  <2>3. cur' = [cur EXCEPT ![l] = None] /\ pc[l] = "add_cs" /\ l \notin Workers
    BY <1>7 DEF AddWork
  <2>4. \/ pc' = [pc EXCEPT ![l] = "peek"]
        \/ \E w \in Workers : /\ pc[w] = "wait"
                              /\ pc' = [pc EXCEPT ![l] = "peek", ![w] = "get"]
    BY <1>7 DEF AddWork, Waiting
  <2>5. HoldingOK'
    BY <2>3, <2>4, ControlStates
  <2>6. TypeOK'
    BY <1>7, <2>2, <2>3, <2>4, ControlStates DEF AddWork
  <2>7. QED
    BY <2>5, <2>6
<1>8. ASSUME NEW l \in Listeners, NEW from, NEW to, Report(l, from, to),
             <<from, to>> \in {<<"peek", "print">>, <<"print", "accept">>}
      PROVE  TypeOK' /\ HoldingOK'
  BY <1>8, ControlStates DEF Report
<1>9. ASSUME NEW l \in Listeners, Reply(l)
      PROVE  TypeOK' /\ HoldingOK'
  <2>1. resp' \in [Conns -> Responses]
    BY <1>9 DEF Reply, Responses
  <2>2. conn' \in [Fds -> 0 .. MaxConns]
    BY <1>9, CloseType DEF Reply
  <2>3. QED
    BY <1>9, <2>1, <2>2, ControlStates DEF Reply, ReplyStates
<1>10. ASSUME NEW w \in Workers, GetWait(w)
       PROVE  TypeOK' /\ HoldingOK'
  BY <1>10, ControlStates DEF GetWait
<1>11. ASSUME NEW w \in Workers, GetTake(w)
       PROVE  TypeOK' /\ HoldingOK'
  <2>1. /\ queue' \in Seq(Job)
        /\ Len(queue') <= MaxQueueSize
        /\ queue[HighestIndex(queue)] \in Job
    BY <1>11, TakeProperties DEF GetTake
  <2>2. cur' = [cur EXCEPT ![w] = queue[HighestIndex(queue)]]
    BY <1>11 DEF GetTake
  <2>3. \/ pc' = [pc EXCEPT ![w] = "delay"]
        \/ pc' = [pc EXCEPT ![w] = "connect"]
    BY <1>11 DEF GetTake
  <2>4. HoldingOK'
    BY <2>1, <2>2, <2>3, ControlStates
  <2>5. TypeOK'
    BY <1>11, <2>1, <2>2, <2>3, ControlStates DEF GetTake
  <2>6. QED
    BY <2>4, <2>5
<1>12. ASSUME NEW w \in Workers, SpuriousWakeup(w)
       PROVE  TypeOK' /\ HoldingOK'
  BY <1>12, ControlStates DEF SpuriousWakeup
<1>13. ASSUME NEW w \in Workers, NEW from, NEW to, Advance(w, from, to),
              <<from, to>> \in {<<"delay", "connect">>, <<"connect", "relay">>}
       PROVE  TypeOK' /\ HoldingOK'
  BY <1>13, ControlStates DEF Advance
<1>14. ASSUME NEW w \in Workers, NEW from \in {"connect", "relay"},
              NEW status \in Outcomes,
              Serve(w, from, status)
       PROVE  TypeOK' /\ HoldingOK'
  <2>1. resp' \in [Conns -> Responses]
    BY <1>14 DEF Serve, Responses, Outcomes
  <2>2. QED
    BY <1>14, <2>1, ControlStates DEF Serve
<1>15. ASSUME NEW w \in Workers, Close(w)
       PROVE  TypeOK' /\ HoldingOK'
  <2>1. conn' \in [Fds -> 0 .. MaxConns]
    BY <1>15, CloseType DEF Close
  <2>2. QED
    BY <1>15, <2>1, ControlStates DEF Close
<1>16. ASSUME UNCHANGED vars
       PROVE  TypeOK' /\ HoldingOK'
  BY <1>16 DEF vars
<1>17. QED
  BY <1>1, <1>2, <1>3, <1>4, <1>5, <1>6, <1>7, <1>8, <1>9, <1>10, <1>11, <1>12,
     <1>13, <1>14, <1>15, <1>16 DEF Next, Listen, Work, Outcomes

(***************************************************************************)
(* Descriptors.                                                            *)
(***************************************************************************)

(* Steps that leave the queue, the requests in hand and the descriptors.   *)
LEMMA NoCrossTalkQuiet ==
  ASSUME NoCrossTalk, UNCHANGED <<queue, cur, conn>>
  PROVE  NoCrossTalk'
BY DEF NoCrossTalk, QueuedOpen, HeldOpen, QueuedOnce, HeldOnce,
       QueuedOrHeld, Holds

(* A request in hand or in the queue has a descriptor that is open. *)
LEMMA OpenFds ==
  ASSUME TypeOK, HoldingOK, NoCrossTalk
  PROVE  /\ \A i \in DOMAIN queue : queue[i] \in Job /\ conn[queue[i].fd] # 0
         /\ \A t \in Threads : Holds(t) =>
              cur[t] \in Job /\ conn[cur[t].fd] # 0
<1>1. \A job \in Job : job.conn # 0
  BY DEF Job, Conns
<1>2. \A i \in DOMAIN queue : queue[i] \in Job
  BY ElementOfSeq, LenProperties DEF TypeOK
<1>3. \A t \in Threads : Holds(t) => cur[t] \in Job
  BY DEF TypeOK, Holds
<1>4. QED
  BY <1>1, <1>2, <1>3 DEF NoCrossTalk, QueuedOpen, HeldOpen, QueuedOnce, HeldOnce,
       QueuedOrHeld

(* accept(): the new descriptor was closed, so nobody else has it. *)
LEMMA AcceptFds ==
  ASSUME TypeOK, HoldingOK, NoCrossTalk, NEW l \in Listeners, Accept(l)
  PROVE  NoCrossTalk'
<1>1. PICK f \in Fds :
        /\ conn[f] = 0
        /\ conn' = [conn EXCEPT ![f] = nconn + 1]
        /\ cur' = [cur EXCEPT ![l] = [fd |-> f, conn |-> nconn + 1,
                                      priority |-> 0, delay |-> 0]]
  BY DEF Accept
<1>2. queue' = queue /\ ~Holds(l)
  BY ControlStates DEF Accept, Goto, HoldingOK, Threads
<1>3. /\ \A i \in DOMAIN queue : queue[i].fd # f /\ queue[i].fd \in Fds
      /\ \A t \in Threads : Holds(t) => cur[t].fd # f /\ cur[t].fd \in Fds
  BY <1>1, OpenFds DEF Job
<1>4. l \in Threads /\ cur \in [Threads -> Job \cup {None}]
      /\ conn \in [Fds -> 0 .. MaxConns]
  BY DEF Threads, TypeOK
<1>5. QED
  BY <1>1, <1>2, <1>3, <1>4 DEF NoCrossTalk, QueuedOpen, HeldOpen, QueuedOnce, HeldOnce,
       QueuedOrHeld, Holds

(* A parsed request keeps its descriptor. *)
LEMMA ParseFds ==
  ASSUME TypeOK, HoldingOK, NoCrossTalk, NEW l \in Listeners,
         NEW r \in Requests, Parse(l, r)
  PROVE  NoCrossTalk'
<1>1. cur[l] \in Job /\ cur[l] # None /\ l \in Threads
  BY ControlStates, HeldIsJob DEF Parse, Goto, Threads, HoldingOK, Holds
<1>2. /\ cur'[l].fd = cur[l].fd /\ cur'[l].conn = cur[l].conn
      /\ \A t \in Threads \ {l} : cur'[t] = cur[t]
  BY <1>1 DEF Parse, TypeOK, Job
<1>3. queue' = queue /\ conn' = conn
  BY DEF Parse
<1>4. QED
  BY <1>1, <1>2, <1>3 DEF NoCrossTalk, QueuedOpen, HeldOpen, QueuedOnce, HeldOnce,
       QueuedOrHeld, Holds

(***************************************************************************)
(* Without(q, n) is q with the place n left out: From(n, j) is the place   *)
(* in q of the request at its place j.                                     *)
(***************************************************************************)
From(n, j) == IF j < n THEN j ELSE j + 1

LEMMA WithoutFrom ==
  ASSUME TypeOK, queue # << >>, queue' = Without(queue, HighestIndex(queue))
  PROVE  /\ HighestIndex(queue) \in DOMAIN queue
         /\ \A j \in DOMAIN queue' :
              /\ From(HighestIndex(queue), j)
                   \in DOMAIN queue \ {HighestIndex(queue)}
              /\ queue'[j] = queue[From(HighestIndex(queue), j)]
         /\ \A i, j \in DOMAIN queue' :
              From(HighestIndex(queue), i) = From(HighestIndex(queue), j)
                => i = j
         /\ \A i \in DOMAIN queue \ {HighestIndex(queue)} :
              \E j \in DOMAIN queue' : i = From(HighestIndex(queue), j)
<1> DEFINE n == HighestIndex(queue)
<1>1. /\ queue \in Seq(Job) /\ n \in 1 .. Len(queue)
      /\ Without(queue, n) \in Seq(Job)
      /\ Len(Without(queue, n)) = Len(queue) - 1
  BY TakeProperties DEF TypeOK
<1>2. /\ Len(queue) \in Nat /\ DOMAIN queue = 1 .. Len(queue)
      /\ DOMAIN queue' = 1 .. (Len(queue) - 1)
  BY <1>1, LenProperties
<1>3. \A j \in 1 .. (Len(queue) - 1) : queue'[j] = queue[From(n, j)]
  BY <1>1, WithoutProperties DEF From
<1>4. \A j \in 1 .. (Len(queue) - 1) : From(n, j) \in (1 .. Len(queue)) \ {n}
  BY <1>1, <1>2 DEF From
<1>5. \A i, j \in 1 .. (Len(queue) - 1) : From(n, i) = From(n, j) => i = j
  BY <1>1, <1>2 DEF From
<1>6. \A i \in (1 .. Len(queue)) \ {n} :
        \E j \in 1 .. (Len(queue) - 1) : i = From(n, j)
  <2> SUFFICES ASSUME NEW i \in (1 .. Len(queue)) \ {n}
               PROVE  \E j \in 1 .. (Len(queue) - 1) : i = From(n, j)
    OBVIOUS
  <2>1. CASE i < n
    <3>1. i \in 1 .. (Len(queue) - 1) /\ i = From(n, i)
      BY <1>1, <1>2, <2>1 DEF From
    <3>2. QED
      BY <3>1
  <2>2. CASE i > n
    <3>1. i - 1 \in 1 .. (Len(queue) - 1) /\ i = From(n, i - 1)
      BY <1>1, <1>2, <2>2 DEF From
    <3>2. QED
      BY <3>1
  <2>3. QED
    BY <1>1, <1>2, <2>1, <2>2
<1>7. QED
  BY <1>1, <1>2, <1>3, <1>4, <1>5, <1>6

(* get_work_nonblocking: the queue keeps a part of its requests. *)
LEMMA GetJobFds ==
  ASSUME TypeOK, NoCrossTalk, NEW l \in Listeners, GetJobTake(l)
  PROVE  NoCrossTalk'
<1>1. cur' = cur /\ conn' = conn
  BY DEF GetJobTake
<1>2. \A j \in DOMAIN queue' :
        /\ From(HighestIndex(queue), j) \in DOMAIN queue
        /\ queue'[j] = queue[From(HighestIndex(queue), j)]
  BY WithoutFrom DEF GetJobTake
<1>3. \A i, j \in DOMAIN queue' :
        From(HighestIndex(queue), i) = From(HighestIndex(queue), j) => i = j
  BY WithoutFrom DEF GetJobTake
<1>4. HeldOpen' /\ HeldOnce'
  BY <1>1 DEF NoCrossTalk, HeldOpen, HeldOnce, Holds
<1>5. QueuedOpen' /\ QueuedOrHeld'
  BY <1>1, <1>2 DEF NoCrossTalk, QueuedOpen, QueuedOrHeld, Holds
<1>6. QueuedOnce'
  BY <1>2, <1>3 DEF NoCrossTalk, QueuedOnce
<1>7. QED
  BY <1>4, <1>5, <1>6 DEF NoCrossTalk

(* add_work: the listener's request moves to the end of the queue. *)
LEMMA AddWorkFds ==
  ASSUME TypeOK, HoldingOK, NoCrossTalk, NEW l \in Listeners, AddWork(l)
  PROVE  NoCrossTalk'
<1>1. cur[l] \in Job /\ Holds(l) /\ l \in Threads
  BY ControlStates, HeldIsJob DEF AddWork, Threads, HoldingOK
<1>2. /\ queue \in Seq(Job) /\ Len(queue) \in Nat
      /\ DOMAIN queue = 1 .. Len(queue)
      /\ queue' = add_work(queue, cur[l])
  BY LenProperties DEF TypeOK, AddWork
<1>3. /\ queue' \in Seq(Job)
      /\ Len(queue') = Len(queue) + 1
      /\ \A i \in 1 .. Len(queue) : queue'[i] = queue[i]
      /\ queue'[Len(queue) + 1] = cur[l]
  <2>1. /\ add_work(queue, cur[l]) \in Seq(Job)
        /\ Len(add_work(queue, cur[l])) = Len(queue) + 1
        /\ \A i \in 1 .. Len(queue) : add_work(queue, cur[l])[i] = queue[i]
        /\ add_work(queue, cur[l])[Len(queue) + 1] = cur[l]
    <3> HIDE ProxyAssumption DEF ProxyAssumption
    <3>1. cur[l] \in Job /\ queue \in Seq(Job)
      BY <1>1, <1>2
    <3>2. QED
      BY <3>1, AddWorkProperties
  <2>2. QED
    BY <1>2, <2>1
<1>4. \A i \in DOMAIN queue' :
        \/ i \in DOMAIN queue /\ queue'[i] = queue[i]
        \/ i = Len(queue) + 1 /\ queue'[i] = cur[l]
  BY <1>2, <1>3, LenProperties
<1>5. /\ conn' = conn
      /\ cur'[l] = None
      /\ \A t \in Threads \ {l} : cur'[t] = cur[t]
  BY <1>1 DEF AddWork, TypeOK
<1>6. HeldOpen' /\ HeldOnce'
  BY <1>5 DEF NoCrossTalk, HeldOpen, HeldOnce, Holds
<1>7. QueuedOpen'
  BY <1>1, <1>4, <1>5 DEF NoCrossTalk, QueuedOpen, HeldOpen
<1>8. QueuedOnce'
  BY <1>1, <1>4 DEF NoCrossTalk, QueuedOnce, QueuedOrHeld
<1>9. QueuedOrHeld'
  BY <1>1, <1>4, <1>5 DEF NoCrossTalk, QueuedOrHeld, HeldOnce, Holds
<1>10. QED
  BY <1>6, <1>7, <1>8, <1>9 DEF NoCrossTalk

(* get_work: the request with the highest priority moves to the worker. *)
LEMMA GetTakeFds ==
  ASSUME TypeOK, HoldingOK, NoCrossTalk, NEW w \in Workers, GetTake(w)
  PROVE  NoCrossTalk'
<1> DEFINE n == HighestIndex(queue)
<1>1. /\ w \in Threads /\ conn' = conn
      /\ cur'[w] = queue[n]
      /\ \A t \in Threads \ {w} : cur'[t] = cur[t]
  BY DEF GetTake, TypeOK, Threads
<1>2. /\ n \in DOMAIN queue
      /\ \A j \in DOMAIN queue' : /\ From(n, j) \in DOMAIN queue \ {n}
                                  /\ queue'[j] = queue[From(n, j)]
      /\ \A i, j \in DOMAIN queue' : From(n, i) = From(n, j) => i = j
  BY WithoutFrom DEF GetTake
<1> HIDE DEF n
<1>3. HeldOpen' /\ HeldOnce'
  BY <1>1, <1>2 DEF NoCrossTalk, QueuedOpen, QueuedOrHeld, HeldOpen, HeldOnce,
                    Holds
<1>4. QueuedOpen'
  BY <1>1, <1>2 DEF NoCrossTalk, QueuedOpen
<1>5. QueuedOnce'
  BY <1>2 DEF NoCrossTalk, QueuedOnce
<1>6. QueuedOrHeld'
  BY <1>1, <1>2 DEF NoCrossTalk, QueuedOnce, QueuedOrHeld, Holds
<1>7. QED
  BY <1>3, <1>4, <1>5, <1>6 DEF NoCrossTalk

(* close(): nobody else has the descriptor. *)
LEMMA CloseFds ==
  ASSUME TypeOK, HoldingOK, NoCrossTalk, NEW t \in Threads, Holds(t),
         cur' = [cur EXCEPT ![t] = None],
         conn' = [conn EXCEPT ![cur[t].fd] = 0],
         queue' = queue
  PROVE  NoCrossTalk'
<1>1. /\ \A i \in DOMAIN queue : queue[i].fd # cur[t].fd
      /\ \A u \in Threads \ {t} : Holds(u) => cur[u].fd # cur[t].fd
  BY DEF NoCrossTalk, QueuedOpen, HeldOpen, QueuedOnce, HeldOnce,
       QueuedOrHeld
<1>2. /\ \A i \in DOMAIN queue : queue[i].fd \in Fds
      /\ \A u \in Threads : Holds(u) => cur[u].fd \in Fds
  BY OpenFds DEF Job
<1>3. /\ \A f \in Fds \ {cur[t].fd} : conn'[f] = conn[f]
      /\ cur'[t] = None
      /\ \A u \in Threads \ {t} : cur'[u] = cur[u]
  BY DEF TypeOK
<1>4. QED
  BY <1>1, <1>2, <1>3 DEF NoCrossTalk, QueuedOpen, HeldOpen, QueuedOnce, HeldOnce,
       QueuedOrHeld, Holds

(* Every step keeps the descriptors apart. *)
LEMMA NextFds ==
  ASSUME TypeOK, HoldingOK, NoCrossTalk, [Next]_vars
  PROVE  NoCrossTalk'
<1>1. ASSUME NEW l \in Listeners, Reply(l)
      PROVE  NoCrossTalk'
  <2>1. l \in Threads /\ Holds(l)
    BY <1>1, ControlStates DEF Reply, ReplyStates, Threads, HoldingOK
  <2>2. QED
    BY <1>1, <2>1, CloseFds DEF Reply
<1>2. ASSUME NEW w \in Workers, Close(w)
      PROVE  NoCrossTalk'
  <2>1. w \in Threads /\ Holds(w)
    BY <1>2, ControlStates DEF Close, Goto, Threads, HoldingOK
  <2>2. QED
    BY <1>2, <2>1, CloseFds DEF Close
<1>3. QED
  BY <1>1, <1>2, AcceptFds, ParseFds, GetJobFds, AddWorkFds, GetTakeFds,
     NoCrossTalkQuiet
  DEF Next, Listen, Work, Lock, GetJobEmpty, AddFull, Report, GetWait,
      SpuriousWakeup, Advance, Serve, vars

(***************************************************************************)
(* Descriptors that are never closed.                                      *)
(***************************************************************************)

(* A step that moves no request and closes nothing loses no descriptor. *)
LEMMA LeaksQuiet ==
  ASSUME OnlyGetJobLeaks, UNCHANGED <<queue, cur, conn, stolen>>
  PROVE  OnlyGetJobLeaks'
BY DEF OnlyGetJobLeaks, Holds

(* Every step that touches a request keeps hold of each open descriptor. *)
LEMMA NextLeaks ==
  ASSUME TypeOK, HoldingOK, NoCrossTalk, OnlyGetJobLeaks, [Next]_vars
  PROVE  OnlyGetJobLeaks'
<1>1. ASSUME NEW l \in Listeners, Accept(l)
      PROVE  OnlyGetJobLeaks'
  <2>1. PICK f \in Fds :
          /\ conn' = [conn EXCEPT ![f] = nconn + 1]
          /\ cur' = [cur EXCEPT ![l] = [fd |-> f, conn |-> nconn + 1,
                                        priority |-> 0, delay |-> 0]]
    BY <1>1 DEF Accept
  <2>2. /\ l \in Threads /\ ~Holds(l) /\ queue' = queue /\ stolen' = stolen
        /\ nconn + 1 \in Conns
    <3>1. l \in Threads /\ pc[l] = "accept" /\ UNCHANGED <<queue, stolen>>
      BY <1>1 DEF Accept, Goto, Threads
    <3>2. nconn + 1 \in Conns
      BY <1>1 DEF Accept, TypeOK, Conns
    <3>3. QED
      BY <3>1, <3>2, ControlStates DEF HoldingOK
  <2>3. /\ cur'[l].fd = f /\ cur'[l] # None
        /\ \A t \in Threads \ {l} : cur'[t] = cur[t]
        /\ \A g \in Fds \ {f} : conn'[g] = conn[g]
    <3>1. [fd |-> f, conn |-> nconn + 1, priority |-> 0, delay |-> 0] \in Job
      BY <2>2 DEF Job
    <3>2. QED
      BY <2>1, <2>2, <3>1 DEF TypeOK
  <2>4. QED
    BY <2>2, <2>3 DEF OnlyGetJobLeaks, Holds
<1>2. ASSUME NEW l \in Listeners, NEW r \in Requests, Parse(l, r)
      PROVE  OnlyGetJobLeaks'
  <2>1. cur[l] \in Job /\ l \in Threads
    BY <1>2, ControlStates, HeldIsJob DEF Parse, Goto, Threads
  <2>2. /\ cur'[l].fd = cur[l].fd /\ cur'[l] \in Job
        /\ \A t \in Threads \ {l} : cur'[t] = cur[t]
    BY <1>2, <2>1 DEF Parse, TypeOK, Job
  <2>3. UNCHANGED <<queue, conn, stolen>>
    BY <1>2 DEF Parse
  <2>4. QED
    BY <2>1, <2>2, <2>3 DEF OnlyGetJobLeaks, Holds
<1>3. ASSUME NEW l \in Listeners, GetJobTake(l)
      PROVE  OnlyGetJobLeaks'
  <2> DEFINE n == HighestIndex(queue)
  <2>1. /\ UNCHANGED <<conn, cur>>
        /\ stolen' = stolen \cup {queue[n].conn}
    BY <1>3 DEF GetJobTake
  <2>2. /\ n \in DOMAIN queue
        /\ \A i \in DOMAIN queue \ {n} :
             \E j \in DOMAIN queue' : queue'[j] = queue[i]
    BY <1>3, WithoutFrom DEF GetJobTake
  <2> HIDE DEF n
  <2>3. QED
    BY <2>1, <2>2 DEF OnlyGetJobLeaks, NoCrossTalk, QueuedOpen, Holds
<1>4. ASSUME NEW l \in Listeners, AddWork(l)
      PROVE  OnlyGetJobLeaks'
  <2>1. /\ UNCHANGED <<conn, stolen>> /\ l \in Threads
        /\ \A t \in Threads \ {l} : cur'[t] = cur[t]
        /\ cur[l] \in Job
    BY <1>4, ControlStates, HeldIsJob DEF AddWork, TypeOK, Threads
  <2>2. /\ queue \in Seq(Job) /\ Len(queue) \in Nat
        /\ DOMAIN queue = 1 .. Len(queue)
        /\ queue' = Append(queue, cur[l])
    BY <1>4, LenProperties DEF TypeOK, AddWork, add_work
  <2>3. /\ \A i \in DOMAIN queue : i \in DOMAIN queue' /\ queue'[i] = queue[i]
        /\ \E i \in DOMAIN queue' : queue'[i] = cur[l]
    <3>1. /\ DOMAIN queue' = 1 .. (Len(queue) + 1)
          /\ \A i \in 1 .. Len(queue) : queue'[i] = queue[i]
          /\ queue'[Len(queue) + 1] = cur[l]
      BY <2>1, <2>2
    <3>2. Len(queue) + 1 \in DOMAIN queue'
      BY <2>2, <3>1
    <3>3. QED
      BY <2>2, <3>1, <3>2
  <2>4. QED
    BY <2>1, <2>3 DEF OnlyGetJobLeaks, Holds
<1>5. ASSUME NEW w \in Workers, GetTake(w)
      PROVE  OnlyGetJobLeaks'
  <2> DEFINE n == HighestIndex(queue)
  <2>1. /\ w \in Threads /\ UNCHANGED <<conn, stolen>>
        /\ ~Holds(w)
        /\ cur'[w] = queue[n]
        /\ \A t \in Threads \ {w} : cur'[t] = cur[t]
    BY <1>5, ControlStates DEF GetTake, Goto, HoldingOK, TypeOK, Threads
  <2>2. /\ n \in DOMAIN queue
        /\ \A i \in DOMAIN queue \ {n} :
             \E j \in DOMAIN queue' : queue'[j] = queue[i]
    BY <1>5, WithoutFrom DEF GetTake
  <2>3. queue[n] # None
    BY <1>5, TakeProperties DEF GetTake
  <2> HIDE DEF n
  <2>4. QED
    BY <2>1, <2>2, <2>3 DEF OnlyGetJobLeaks, Holds
<1>6. ASSUME NEW t \in Threads, Holds(t), UNCHANGED <<queue, stolen>>,
             conn' = [conn EXCEPT ![cur[t].fd] = 0],
             cur' = [cur EXCEPT ![t] = None]
      PROVE  OnlyGetJobLeaks'
  <2>1. /\ \A f \in Fds : conn'[f] # 0 => conn[f] = conn'[f] /\ f # cur[t].fd
        /\ \A u \in Threads \ {t} : cur'[u] = cur[u]
    BY <1>6 DEF TypeOK
  <2>2. QED
    BY <1>6, <2>1 DEF OnlyGetJobLeaks, Holds
<1>7. ASSUME NEW l \in Listeners, Reply(l)
      PROVE  OnlyGetJobLeaks'
  <2>1. l \in Threads /\ Holds(l)
    BY <1>7, ControlStates DEF Reply, ReplyStates, Threads, HoldingOK
  <2>2. QED
    BY <1>6, <1>7, <2>1 DEF Reply
<1>8. ASSUME NEW w \in Workers, Close(w)
      PROVE  OnlyGetJobLeaks'
  <2>1. w \in Threads /\ Holds(w)
    BY <1>8, ControlStates DEF Close, Goto, Threads, HoldingOK
  <2>2. QED
    BY <1>6, <1>8, <2>1 DEF Close
<1>9. QED
  BY <1>1, <1>2, <1>3, <1>4, <1>5, <1>7, <1>8, LeaksQuiet
  DEF Next, Listen, Work, Lock, GetJobEmpty, AddFull, Report, GetWait,
      SpuriousWakeup, Advance, Serve, vars

(***************************************************************************)
(* Sleeping workers.                                                       *)
(***************************************************************************)

(* The workers about to take a request are finitely many. *)
LEMMA ReadyFinite == IsFiniteSet(Ready) /\ Cardinality(Ready) \in Nat
<1>1. Ready \subseteq Workers
  BY DEF Ready
<1>2. QED
  BY <1>1, FS_Subset, FS_CardinalityType

(* No worker falls asleep, none is lost and no request arrives. *)
LEMMA ConservingQuiet ==
  ASSUME WorkConserving, TypeOK, TypeOK',
         Waiting' \subseteq Waiting, Ready \subseteq Ready',
         Len(queue') <= Len(queue)
  PROVE  WorkConserving'
<1>1. Cardinality(Ready) <= Cardinality(Ready')
  <2>1. IsFiniteSet(Ready')
    <3>1. Ready' \subseteq Workers
      BY DEF Ready
    <3>2. QED
      BY <3>1, FS_Subset
  <2>2. QED
    BY <2>1, FS_Subset
<1>2. /\ Cardinality(Ready) \in Nat /\ Cardinality(Ready') \in Nat
      /\ Len(queue) \in Nat /\ Len(queue') \in Nat
  <2>1. Ready' \subseteq Workers
    BY DEF Ready
  <2>2. Cardinality(Ready') \in Nat
    BY <2>1, FS_Subset, FS_CardinalityType
  <2>3. QED
    BY <2>2, ReadyFinite, LenProperties DEF TypeOK
<1>3. QED
  BY <1>1, <1>2 DEF WorkConserving

(* The workers in each state, when only one thread changes its own. *)
LEMMA StatesAfter ==
  ASSUME TypeOK, NEW t \in Threads, NEW s, pc' = [pc EXCEPT ![t] = s]
  PROVE  /\ Waiting' = IF t \in Workers /\ s = "wait" THEN Waiting \cup {t}
                                                     ELSE Waiting \ {t}
         /\ Ready' = IF t \in Workers /\ s \in {"get", "get_cs"}
                     THEN Ready \cup {t} ELSE Ready \ {t}
BY DEF TypeOK, Waiting, Ready, Threads

LEMMA NextConserving ==
  ASSUME TypeOK, TypeOK', WorkConserving, [Next]_vars
  PROVE  WorkConserving'
<1>1. Len(queue) \in Nat /\ Len(queue') \in Nat
  BY LenProperties DEF TypeOK
<1>2. ASSUME NEW l \in Listeners, AddWork(l)
      PROVE  WorkConserving'
  <2>1. /\ l \in Threads /\ l \notin Workers /\ pc[l] = "add_cs"
        /\ Len(queue') = Len(queue) + 1
    BY <1>2, LenProperties DEF AddWork, add_work, Threads, TypeOK
  <2>2. CASE Waiting = {}
    <3>1. pc' = [pc EXCEPT ![l] = "peek"]
      BY <1>2, <2>2 DEF AddWork
    <3>2. Waiting' = {}
      BY <2>1, <2>2, <3>1, StatesAfter
    <3>3. QED
      BY <3>2 DEF WorkConserving
  <2>3. CASE Waiting # {}
    <3>1. PICK w \in Waiting : pc' = [pc EXCEPT ![l] = "peek", ![w] = "get"]
      BY <1>2, <2>3 DEF AddWork
    <3>2. w \notin Ready /\ Ready' = Ready \cup {w}
      BY <2>1, <3>1 DEF Waiting, Ready, TypeOK, Threads
    <3>3. Cardinality(Ready') = Cardinality(Ready) + 1
      BY <3>2, ReadyFinite, FS_AddElement
    <3>4. Len(queue) <= Cardinality(Ready)
      BY <2>3 DEF WorkConserving
    <3>5. QED
      BY <1>1, <2>1, <3>3, <3>4, ReadyFinite DEF WorkConserving
  <2>4. QED
    BY <2>2, <2>3
<1>3. ASSUME NEW w \in Workers, GetWait(w)
      PROVE  WorkConserving'
  <2>1. Len(queue') = 0
    BY <1>3, EmptySeq DEF GetWait
  <2>2. Cardinality(Ready') \in Nat
    <3>1. Ready' \subseteq Workers
      BY DEF Ready
    <3>2. QED
      BY <3>1, FS_Subset, FS_CardinalityType
  <2>3. QED
    BY <2>1, <2>2 DEF WorkConserving
<1>4. ASSUME NEW w \in Workers, GetTake(w)
      PROVE  WorkConserving'
  <2>1. /\ w \in Threads
        /\ Len(queue') = Len(queue) - 1
    BY <1>4, TakeProperties DEF GetTake, Threads
  <2>2. /\ pc[w] = "get_cs"
        /\ \E s \in {"delay", "connect"} : pc' = [pc EXCEPT ![w] = s]
    BY <1>4 DEF GetTake, Goto
  <2>3. w \in Ready /\ Ready' = Ready \ {w} /\ Waiting' = Waiting
    BY <2>1, <2>2, StatesAfter DEF Ready, Waiting
  <2>4. Cardinality(Ready') = Cardinality(Ready) - 1
    BY <2>3, ReadyFinite, FS_RemoveElement
  <2>5. QED
    BY <1>1, <2>1, <2>3, <2>4, ReadyFinite DEF WorkConserving
<1>5. ASSUME NEW l \in Listeners, GetJobTake(l)
      PROVE  WorkConserving'
  <2>1. l \in Threads /\ l \notin Workers /\ Len(queue') = Len(queue) - 1
    BY <1>5, TakeProperties DEF GetJobTake, Threads
  <2>2. Ready' = Ready /\ Waiting' = Waiting
    BY <1>5, <2>1, StatesAfter DEF GetJobTake, Goto, Ready, Waiting
  <2>3. QED
    BY <1>1, <2>1, <2>2, ConservingQuiet
<1>6. ASSUME NEW t \in Threads, queue' = queue, NEW s,
             pc' = [pc EXCEPT ![t] = s],
             s # "wait",
             t \in Workers /\ pc[t] \in {"get", "get_cs"}
               => s \in {"get", "get_cs"}
      PROVE  WorkConserving'
  <2>1. Ready \subseteq Ready' /\ Waiting' \subseteq Waiting
    BY <1>6, StatesAfter DEF Ready
  <2>2. QED
    BY <1>1, <1>6, <2>1, ConservingQuiet
<1>7. ASSUME NEW l \in Listeners, Listen(l), ~AddWork(l), ~GetJobTake(l)
      PROVE  WorkConserving'
  <2>1. l \in Threads /\ l \notin Workers /\ queue' = queue
    BY <1>7 DEF Listen, Accept, Parse, Lock, GetJobEmpty, AddFull, Report,
                Reply, Threads
  <2>2. \E s \in ListenerStates : pc' = [pc EXCEPT ![l] = s]
    BY <1>7, ControlStates
    DEF Listen, Accept, Parse, Lock, GetJobEmpty, AddFull, Report, Reply, Goto
  <2>3. QED
    BY <1>6, <2>1, <2>2, ControlStates
<1>8. ASSUME NEW w \in Workers, Work(w) \/ SpuriousWakeup(w),
             ~GetWait(w), ~GetTake(w)
      PROVE  WorkConserving'
  <2>1. w \in Threads /\ queue' = queue
    BY <1>8 DEF Work, Lock, Advance, Serve, Close, SpuriousWakeup, Threads
  <2>2. \E s \in WorkerStates :
          /\ pc' = [pc EXCEPT ![w] = s]
          /\ s # "wait"
          /\ pc[w] \in {"get", "get_cs"} => s \in {"get", "get_cs"}
    BY <1>8, ControlStates
    DEF Work, Lock, Advance, Serve, Close, SpuriousWakeup, Goto
  <2>3. QED
    BY <1>6, <2>1, <2>2
<1>9. ASSUME UNCHANGED vars
      PROVE  WorkConserving'
  BY <1>9 DEF vars, WorkConserving, Waiting, Ready
<1>10. QED
  BY <1>2, <1>3, <1>4, <1>5, <1>7, <1>8, <1>9 DEF Next

(***************************************************************************)
(* Answers.                                                                *)
(***************************************************************************)

(* An answer, once sent, stays sent. *)
LEMMA AnswersStay ==
  ASSUME TypeOK, HoldingOK, [Next]_vars
  PROVE  \A c \in Conns : resp[c] # "none" => resp'[c] # "none"
<1>1. ASSUME NEW l \in Listeners, Reply(l)
      PROVE  \A c \in Conns : resp[c] # "none" => resp'[c] # "none"
  BY <1>1 DEF Reply, ReplyStates, TypeOK
<1>2. ASSUME NEW w \in Workers, NEW from \in {"connect", "relay"},
             NEW status \in Outcomes,
             Serve(w, from, status)
      PROVE  \A c \in Conns : resp[c] # "none" => resp'[c] # "none"
  BY <1>2 DEF Serve, TypeOK, Outcomes
<1>3. QED
  BY <1>1, <1>2
  DEF Next, Listen, Work, Accept, Parse, Lock, GetJobEmpty, GetJobTake, AddFull,
      AddWork, Report, GetWait, GetTake, SpuriousWakeup, Advance, Close, vars,
      Outcomes

(* Whoever closes a client's descriptor is at an end of serve_request. *)
LEMMA NextClosing ==
  ASSUME TypeOK, HoldingOK, ClosingOK, [Next]_vars
  PROVE  ClosingOK'
<1> SUFFICES ASSUME NEW w \in Workers, pc'[w] = "close"
             PROVE  resp'[cur'[w].conn] # "none"
  BY DEF ClosingOK
<1>1. CASE pc[w] = "close" /\ cur'[w] = cur[w]
  <2>1. cur[w].conn \in Conns
    BY <1>1, ControlStates, HeldIsJob DEF Threads, Job
  <2>2. QED
    BY <1>1, <2>1, AnswersStay DEF ClosingOK
<1>2. ASSUME NEW from \in {"connect", "relay"},
             NEW status \in Outcomes,
             Serve(w, from, status)
      PROVE  resp'[cur'[w].conn] # "none"
  <2>1. cur[w].conn \in Conns
    BY <1>2, ControlStates, HeldIsJob DEF Serve, Goto, Threads, Job
  <2>2. QED
    BY <1>2, <2>1 DEF Serve, TypeOK, Outcomes
<1>3. ASSUME NEW t \in Threads, pc'[t] # "close",
             \A u \in Threads \ {t} :
               pc'[u] = "close" => pc[u] = "close" /\ cur'[u] = cur[u]
      PROVE  resp'[cur'[w].conn] # "none"
  BY <1>1, <1>3 DEF Threads
<1>4. ASSUME NEW l \in Listeners, Listen(l)
      PROVE  resp'[cur'[w].conn] # "none"
  <2>1. l \in Threads /\ w # l
    BY DEF Threads
  <2>2. CASE AddWork(l)
    <3>1. pc[w] = "close" /\ cur'[w] = cur[w]
      BY <2>1, <2>2 DEF AddWork, Waiting, TypeOK, Threads
    <3>2. QED
      BY <1>1, <3>1
  <2>3. CASE ~AddWork(l)
    <3>1. \E s : pc' = [pc EXCEPT ![l] = s]
      BY <1>4, <2>3 DEF Listen, Accept, Parse, Lock, GetJobEmpty, GetJobTake,
                        AddFull, Report, Reply, Goto
    <3>2. cur'[w] = cur[w]
      BY <1>4, <2>1, <2>3
      DEF Listen, Accept, Parse, Lock, GetJobEmpty, GetJobTake, AddFull,
          Report, Reply, TypeOK, Threads
    <3>3. pc[w] = "close"
      BY <2>1, <3>1 DEF TypeOK, Threads
    <3>4. QED
      BY <1>1, <3>2, <3>3
  <2>4. QED
    BY <2>2, <2>3
<1>5. ASSUME NEW v \in Workers, Work(v) \/ SpuriousWakeup(v),
             \A from \in {"connect", "relay"},
                status \in Outcomes :
               ~Serve(v, from, status)
      PROVE  resp'[cur'[w].conn] # "none"
  <2>1. \E s \in WorkerStates \ {"close"} : pc' = [pc EXCEPT ![v] = s]
    BY <1>5, ControlStates
    DEF Work, Lock, GetWait, GetTake, Advance, Close, SpuriousWakeup, Goto,
        Outcomes
  <2>2. v # w /\ pc[w] = "close"
    BY <2>1 DEF TypeOK, Threads
  <2>3. cur'[w] = cur[w]
    BY <1>5, <2>2
    DEF Work, Lock, GetWait, GetTake, Advance, Close, SpuriousWakeup, TypeOK,
        Threads, Outcomes
  <2>4. QED
    BY <1>1, <2>2, <2>3
<1>6. ASSUME NEW v \in Workers, NEW from \in {"connect", "relay"},
             NEW status \in Outcomes,
             Serve(v, from, status), v # w
      PROVE  resp'[cur'[w].conn] # "none"
  BY <1>1, <1>6 DEF Serve, Goto, TypeOK, Threads
<1>7. CASE UNCHANGED vars
  BY <1>1, <1>7 DEF vars
<1>8. QED
  BY <1>2, <1>4, <1>5, <1>6, <1>7 DEF Next

(* Closed connections are accounted for: a descriptor is closed by Reply,  *)
(* which answers first, or by Close, which Serve precedes.                 *)
LEMMA NextAnswered ==
  ASSUME TypeOK, HoldingOK, NoCrossTalk, ClosingOK, ClosedIsAccounted,
         [Next]_vars
  PROVE  ClosedIsAccounted'
<1>1. ASSUME NEW l \in Listeners, Accept(l)
      PROVE  ClosedIsAccounted'
  <2>1. PICK f \in Fds :
          conn[f] = 0 /\ conn' = [conn EXCEPT ![f] = nconn + 1]
    BY <1>1 DEF Accept
  <2>2. nconn' = nconn + 1 /\ resp' = resp /\ nconn \in Nat
    BY <1>1 DEF Accept, TypeOK
  <2>3. ASSUME NEW c \in 1 .. (nconn + 1), \A g \in Fds : conn'[g] # c
        PROVE  resp[c] # "none"
    <3>1. c # nconn + 1
      BY <2>1, <2>3 DEF TypeOK
    <3>2. c \in 1 .. nconn
      BY <2>2, <3>1
    <3>3. \A g \in Fds : conn[g] # c
      BY <2>1, <2>3, <3>2 DEF TypeOK
    <3>4. QED
      BY <3>2, <3>3 DEF ClosedIsAccounted
  <2>4. QED
    BY <2>2, <2>3 DEF ClosedIsAccounted
<1>2. ASSUME NEW t \in Threads, Holds(t), nconn' = nconn,
             conn' = [conn EXCEPT ![cur[t].fd] = 0],
             resp'[cur[t].conn] # "none"
      PROVE  ClosedIsAccounted'
  <2>1. conn[cur[t].fd] = cur[t].conn
    BY <1>2 DEF NoCrossTalk, HeldOpen
  <2>2. ASSUME NEW c \in 1 .. nconn, \A f \in Fds : conn'[f] # c
        PROVE  resp'[c] # "none"
    <3>1. CASE c = cur[t].conn
      BY <1>2, <3>1
    <3>2. CASE c # cur[t].conn
      <4>1. \A f \in Fds : conn[f] # c
        BY <1>2, <2>1, <2>2, <3>2 DEF TypeOK
      <4>2. c \in Conns
        BY DEF TypeOK, Conns
      <4>3. QED
        BY <4>1, <4>2, AnswersStay DEF ClosedIsAccounted
    <3>3. QED
      BY <3>1, <3>2
  <2>3. QED
    BY <1>2, <2>2 DEF ClosedIsAccounted
<1>3. ASSUME NEW l \in Listeners, Reply(l)
      PROVE  ClosedIsAccounted'
  <2>1. l \in Threads /\ Holds(l)
    BY <1>3, ControlStates DEF Reply, ReplyStates, Threads, HoldingOK
  <2>2. cur[l].conn \in Conns
    BY <2>1 DEF TypeOK, Holds, Job
  <2>3. resp'[cur[l].conn] # "none"
    BY <1>3, <2>2 DEF Reply, ReplyStates, TypeOK
  <2>4. QED
    BY <1>2, <1>3, <2>1, <2>3 DEF Reply
<1>4. ASSUME NEW w \in Workers, Close(w)
      PROVE  ClosedIsAccounted'
  <2>1. w \in Threads /\ Holds(w)
    BY <1>4, ControlStates DEF Close, Goto, Threads, HoldingOK
  <2>2. resp'[cur[w].conn] # "none"
    BY <1>4 DEF Close, Goto, ClosingOK
  <2>3. QED
    BY <1>2, <1>4, <2>1, <2>2 DEF Close
<1>5. ASSUME UNCHANGED <<conn, nconn>>
      PROVE  ClosedIsAccounted'
  <2>1. \A c \in 1 .. nconn : c \in Conns
    BY DEF TypeOK, Conns
  <2>2. QED
    BY <1>5, <2>1, AnswersStay DEF ClosedIsAccounted
<1>6. QED
  BY <1>1, <1>3, <1>4, <1>5
  DEF Next, Listen, Work, Parse, Lock, GetJobEmpty, GetJobTake, AddFull,
      AddWork, Report, GetWait, GetTake, SpuriousWakeup, Advance, Serve, vars

(***************************************************************************)
(* The inductive invariant and the theorems.                               *)
(***************************************************************************)
IInv == /\ TypeOK
        /\ HoldingOK
        /\ ClosingOK
        /\ NoCrossTalk
        /\ OnlyGetJobLeaks
        /\ WorkConserving
        /\ ClosedIsAccounted

(* IInv is an invariant: it holds before any thread has run, and every     *)
(* step of a thread keeps it.                                              *)
THEOREM Inductive == Spec => []IInv
<1>1. Init => IInv
  <2> SUFFICES ASSUME Init PROVE IInv
    OBVIOUS
  <2>1. TypeOK /\ HoldingOK
    BY InitTypes
  <2>2. ClosingOK /\ WorkConserving
    BY DEF Init, ClosingOK, WorkConserving, Waiting, Threads
  <2>3. queue = << >> /\ (\A t \in Threads : ~Holds(t))
    BY DEF Init, create_queue, Holds
  <2>4. NoCrossTalk
    BY <2>3 DEF NoCrossTalk, QueuedOpen, HeldOpen, QueuedOnce, HeldOnce,
                QueuedOrHeld
  <2>5. OnlyGetJobLeaks /\ ClosedIsAccounted
    BY DEF Init, OnlyGetJobLeaks, ClosedIsAccounted
  <2>6. QED
    BY <2>1, <2>2, <2>4, <2>5 DEF IInv
<1>2. IInv /\ [Next]_vars => IInv'
  <2> SUFFICES ASSUME IInv, [Next]_vars PROVE IInv'
    OBVIOUS
  <2>1. TypeOK' /\ HoldingOK'
    BY NextTypes DEF IInv
  <2>2. ClosingOK'
    BY NextClosing DEF IInv
  <2>3. NoCrossTalk'
    BY NextFds DEF IInv
  <2>4. OnlyGetJobLeaks'
    BY NextLeaks DEF IInv
  <2>5. WorkConserving'
    BY <2>1, NextConserving DEF IInv
  <2>6. ClosedIsAccounted'
    BY NextAnswered DEF IInv
  <2>7. QED
    BY <2>1, <2>2, <2>3, <2>4, <2>5, <2>6 DEF IInv
<1>3. QED
  BY <1>1, <1>2, PTL DEF Spec

(* The queue never exceeds max_size, whatever max_size the array has the   *)
(* entries for (add_work), and every thread is in a state of               *)
(* request_listen or request_work with a request it may work on.           *)
THEOREM TypeCorrect == Spec => []TypeOK
<1>1. IInv => TypeOK
  BY DEF IInv
<1>2. QED
  BY <1>1, Inductive, PTL

(* No response reaches a client other than the one that sent the request:  *)
(* a queued or held descriptor is not closed and reused under its owner.   *)
THEOREM DescriptorsApart == Spec => []NoCrossTalk
<1>1. IInv => NoCrossTalk
  BY DEF IInv
<1>2. QED
  BY <1>1, Inductive, PTL

(* request_listen and request_work close every descriptor they are done    *)
(* with, except that of a request which GetJob took out of the queue.      *)
THEOREM LeaksBounded == Spec => []OnlyGetJobLeaks
<1>1. IInv => OnlyGetJobLeaks
  BY DEF IInv
<1>2. QED
  BY <1>1, Inductive, PTL

(* The signal of add_work and the loop of get_work lose no wakeup: no      *)
(* worker sleeps while more requests wait than workers are on their way.   *)
THEOREM NoLostWakeup == Spec => []WorkConserving
<1>1. IInv => WorkConserving
  BY DEF IInv
<1>2. QED
  BY <1>1, Inductive, PTL

(* No path of the code closes a client's descriptor before the client has  *)
(* been answered, or the file server has hung up without a byte.           *)
THEOREM NoneClosedUnaccounted == Spec => []ClosedIsAccounted
<1>1. IInv => ClosedIsAccounted
  BY DEF IInv
<1>2. QED
  BY <1>1, Inductive, PTL

-----------------------------------------------------------------------------
(* ProxyServer implements RequestService: each step of a thread is a step  *)
(* of the service or changes nothing of it.                                *)

(***************************************************************************)
(* The invariant on which the refinement rests, beyond IInv: connections   *)
(* have descriptors of their own, and a request in the queue or in hand    *)
(* has not been answered before its worker is about to close it.           *)
(***************************************************************************)
ConnsOnce ==
  \A f, g \in Fds : conn[f] # 0 /\ conn[f] = conn[g] => f = g

ConnsAccepted ==
  /\ \A f \in Fds : conn[f] <= nconn
  /\ \A c \in Conns : c > nconn => resp[c] = "none"

Unanswered ==
  /\ \A i \in DOMAIN queue : resp[queue[i].conn] = "none"
  /\ \A t \in Threads : Holds(t) /\ pc[t] # "close" => resp[cur[t].conn] = "none"

SInv == IInv /\ ConnsOnce /\ ConnsAccepted /\ Unanswered


(* Requests in the queue and in hand are about different connections. *)
LEMMA ConnsApart ==
  ASSUME IInv, ConnsOnce
  PROVE  /\ \A t, u \in Threads :
              Holds(t) /\ Holds(u) /\ cur[t].conn = cur[u].conn => t = u
         /\ \A t \in Threads, i \in DOMAIN queue :
              Holds(t) => cur[t].conn # queue[i].conn
         /\ \A i, j \in DOMAIN queue : queue[i].conn = queue[j].conn => i = j
<1>1. /\ \A i \in DOMAIN queue : /\ queue[i].fd \in Fds
                                /\ conn[queue[i].fd] # 0
                                /\ conn[queue[i].fd] = queue[i].conn
      /\ \A t \in Threads : Holds(t) => /\ cur[t].fd \in Fds
                                        /\ conn[cur[t].fd] # 0
                                        /\ conn[cur[t].fd] = cur[t].conn
  BY OpenFds DEF IInv, NoCrossTalk, QueuedOpen, HeldOpen, Job
<1>2. \A t, u \in Threads :
        Holds(t) /\ Holds(u) /\ cur[t].conn = cur[u].conn => t = u
  BY <1>1 DEF ConnsOnce, IInv, NoCrossTalk, HeldOnce
<1>3. \A t \in Threads, i \in DOMAIN queue :
        Holds(t) => cur[t].conn # queue[i].conn
  BY <1>1 DEF ConnsOnce, IInv, NoCrossTalk, QueuedOrHeld
<1>4. \A i, j \in DOMAIN queue : queue[i].conn = queue[j].conn => i = j
  BY <1>1 DEF ConnsOnce, IInv, NoCrossTalk, QueuedOnce
<1>5. QED
  BY <1>2, <1>3, <1>4

(* The connection of a request is one that was accepted. *)
LEMMA HeldConn ==
  ASSUME IInv, NEW t \in Threads, Holds(t)
  PROVE  cur[t].conn \in Conns
BY DEF IInv, TypeOK, Holds, Job

LEMMA QueuedConn ==
  ASSUME IInv, NEW i \in DOMAIN queue
  PROVE  queue[i].conn \in Conns
<1>1. queue[i] \in Job
  BY ElementOfSeq, LenProperties DEF IInv, TypeOK
<1>2. QED
  BY <1>1 DEF Job

(***************************************************************************)
(* Every step keeps SInv.                                                  *)
(***************************************************************************)
LEMMA NextConns ==
  ASSUME IInv, ConnsOnce, ConnsAccepted, [Next]_vars
  PROVE  ConnsOnce' /\ ConnsAccepted'
<1> USE DEF IInv, ConnsOnce, ConnsAccepted
<1>1. ASSUME NEW l \in Listeners, Accept(l)
      PROVE  ConnsOnce' /\ ConnsAccepted'
  <2>1. PICK f \in Fds :
          conn[f] = 0 /\ conn' = [conn EXCEPT ![f] = nconn + 1]
    BY <1>1 DEF Accept
  <2>2. nconn' = nconn + 1 /\ resp' = resp /\ nconn \in Nat
    BY <1>1 DEF Accept, TypeOK
  <2>3. /\ conn'[f] = nconn + 1
        /\ \A g \in Fds \ {f} : conn'[g] = conn[g] /\ conn[g] \in 0 .. nconn
    BY <2>1 DEF TypeOK
  <2>4. ConnsOnce'
    BY <2>2, <2>3
  <2>5. ConnsAccepted'
    BY <2>2, <2>3 DEF Conns
  <2>6. QED
    BY <2>4, <2>5
<1>2. ASSUME NEW f, conn' = [conn EXCEPT ![f] = 0], nconn' = nconn,
             \A c \in Conns : c > nconn => resp'[c] = resp[c]
      PROVE  ConnsOnce' /\ ConnsAccepted'
  <2>1. \A g \in Fds : conn'[g] = 0 \/ conn'[g] = conn[g]
    BY <1>2 DEF TypeOK
  <2>2. nconn \in Nat
    BY DEF TypeOK
  <2>3. ConnsOnce'
    BY <2>1
  <2>4. ConnsAccepted'
    BY <1>2, <2>1, <2>2
  <2>5. QED
    BY <2>3, <2>4
<1>3. ASSUME NEW l \in Listeners, Reply(l)
      PROVE  ConnsOnce' /\ ConnsAccepted'
  <2>1. l \in Threads /\ Holds(l)
    BY <1>3, ControlStates DEF Reply, ReplyStates, Threads, HoldingOK
  <2>2. cur[l].fd \in Fds /\ conn[cur[l].fd] = cur[l].conn
    BY <2>1, OpenFds DEF NoCrossTalk, HeldOpen, Job
  <2>3. cur[l].conn <= nconn
    BY <2>2
  <2>4. \A c \in Conns : c > nconn => resp'[c] = resp[c]
    BY <1>3, <2>3 DEF Reply, TypeOK, Conns
  <2>5. QED
    BY <1>2, <1>3, <2>4 DEF Reply
<1>4. ASSUME NEW w \in Workers, Close(w)
      PROVE  ConnsOnce' /\ ConnsAccepted'
  BY <1>2, <1>4 DEF Close
<1>5. ASSUME NEW w \in Workers, NEW from \in {"connect", "relay"}, NEW status,
             Serve(w, from, status)
      PROVE  ConnsOnce' /\ ConnsAccepted'
  <2>1. w \in Threads /\ Holds(w)
    BY <1>5, ControlStates DEF Serve, Goto, Threads, HoldingOK
  <2>2. cur[w].fd \in Fds /\ conn[cur[w].fd] = cur[w].conn
    BY <2>1, OpenFds DEF NoCrossTalk, HeldOpen, Job
  <2>3. cur[w].conn <= nconn
    BY <2>2
  <2>4. \A c \in Conns : c > nconn => resp'[c] = resp[c]
    BY <1>5, <2>3 DEF Serve, TypeOK, Conns
  <2>5. QED
    BY <1>5, <2>4 DEF Serve
<1>6. ASSUME UNCHANGED <<conn, nconn, resp>>
      PROVE  ConnsOnce' /\ ConnsAccepted'
  BY <1>6
<1>7. QED
  BY <1>1, <1>3, <1>4, <1>5, <1>6
  DEF Next, Listen, Work, Parse, Lock, GetJobEmpty, GetJobTake, AddFull,
      AddWork, Report, GetWait, GetTake, SpuriousWakeup, Advance, vars

LEMMA NextUnanswered ==
  ASSUME SInv, [Next]_vars
  PROVE  Unanswered'
<1> USE DEF SInv, Unanswered
<1>0. IInv /\ TypeOK /\ HoldingOK /\ NoCrossTalk
  BY DEF IInv
<1>1. ASSUME NEW l \in Listeners, Accept(l)
      PROVE  Unanswered'
  <2>1. PICK f \in Fds :
          cur' = [cur EXCEPT ![l] = [fd |-> f, conn |-> nconn + 1,
                                    priority |-> 0, delay |-> 0]]
    BY <1>1 DEF Accept
  <2>2. UNCHANGED <<queue, resp>> /\ l \in Threads
    BY <1>1 DEF Accept, Threads
  <2>3. nconn + 1 \in Conns /\ nconn + 1 > nconn
    BY <1>0, <1>1 DEF Accept, TypeOK, Conns
  <2>4. resp[nconn + 1] = "none"
    BY <2>3 DEF ConnsAccepted
  <2>5. /\ cur'[l].conn = nconn + 1
        /\ \A t \in Threads \ {l} : cur'[t] = cur[t] /\ pc'[t] = pc[t]
    BY <1>0, <1>1, <2>1, <2>2 DEF Accept, Goto, TypeOK
  <2>6. QED
    BY <2>2, <2>4, <2>5 DEF Holds
<1>2. ASSUME NEW l \in Listeners, NEW r \in Requests, Parse(l, r)
      PROVE  Unanswered'
  <2>1. cur[l] \in Job /\ l \in Threads /\ pc[l] = "parse"
    BY <1>0, <1>2, ControlStates, HeldIsJob DEF Parse, Goto, Threads
  <2>2. /\ cur'[l].conn = cur[l].conn
        /\ \A t \in Threads \ {l} : cur'[t] = cur[t] /\ pc'[t] = pc[t]
        /\ UNCHANGED <<queue, resp>>
    BY <1>0, <1>2, <2>1 DEF Parse, Goto, TypeOK, Job
  <2>3. cur[l] # None
    BY <2>1
  <2>4. QED
    BY <2>1, <2>2, <2>3 DEF Holds
<1>3. ASSUME NEW l \in Listeners, GetJobTake(l)
      PROVE  Unanswered'
  <2>1. \A j \in DOMAIN queue' : \E i \in DOMAIN queue : queue'[j] = queue[i]
    BY <1>0, <1>3, WithoutFrom DEF GetJobTake
  <2>2. /\ UNCHANGED <<cur, resp>> /\ l \in Threads
        /\ \A t \in Threads : pc'[t] # "close" => pc[t] # "close"
    BY <1>0, <1>3 DEF GetJobTake, Goto, TypeOK, Threads
  <2>3. QED
    BY <2>1, <2>2 DEF Holds
<1>4. ASSUME NEW l \in Listeners, AddWork(l)
      PROVE  Unanswered'
  <2>1. /\ l \in Threads /\ cur[l] \in Job /\ Holds(l) /\ pc[l] = "add_cs"
    BY <1>0, <1>4, ControlStates, HeldIsJob DEF AddWork, Threads, HoldingOK
  <2>2. /\ UNCHANGED resp /\ cur'[l] = None
        /\ \A t \in Threads \ {l} : cur'[t] = cur[t]
        /\ queue' = Append(queue, cur[l])
    BY <1>0, <1>4, <2>1 DEF AddWork, add_work, TypeOK
  <2>3. \A t \in Threads : pc'[t] # "close" => pc[t] # "close"
    BY <1>0, <1>4, <2>1 DEF AddWork, Waiting, TypeOK
  <2>4. \A i \in DOMAIN queue' :
          \/ i \in DOMAIN queue /\ queue'[i] = queue[i]
          \/ queue'[i] = cur[l]
    <3>1. queue \in Seq(Job) /\ Len(queue) \in Nat
          /\ DOMAIN queue = 1 .. Len(queue)
      BY <1>0, LenProperties DEF TypeOK
    <3>2. QED
      BY <2>1, <2>2, <3>1
  <2>5. QED
    BY <2>1, <2>2, <2>3, <2>4 DEF Holds
<1>5. ASSUME NEW w \in Workers, GetTake(w)
      PROVE  Unanswered'
  <2> DEFINE n == HighestIndex(queue)
  <2>1. /\ n \in DOMAIN queue
        /\ \A j \in DOMAIN queue' : \E i \in DOMAIN queue : queue'[j] = queue[i]
    BY <1>0, <1>5, WithoutFrom DEF GetTake
  <2>2. /\ UNCHANGED resp /\ w \in Threads
        /\ cur'[w] = queue[n]
        /\ \A t \in Threads \ {w} : cur'[t] = cur[t] /\ pc'[t] = pc[t]
    BY <1>0, <1>5 DEF GetTake, Goto, TypeOK, Threads
  <2> HIDE DEF n
  <2>3. QED
    BY <2>1, <2>2 DEF Holds
<1>6. ASSUME NEW t \in Threads, Holds(t), NEW status, UNCHANGED queue,
             resp' = [resp EXCEPT ![cur[t].conn] = status],
             \A u \in Threads \ {t} : cur'[u] = cur[u] /\ pc'[u] = pc[u],
             cur'[t] = None \/ pc'[t] = "close"
      PROVE  Unanswered'
  <2>1. /\ \A i \in DOMAIN queue : queue[i].conn # cur[t].conn
        /\ \A u \in Threads \ {t} : Holds(u) => cur[u].conn # cur[t].conn
    BY <1>0, <1>6, ConnsApart
  <2>2. /\ \A i \in DOMAIN queue : queue[i].conn \in Conns
        /\ \A u \in Threads : Holds(u) => cur[u].conn \in Conns
    BY <1>0, HeldConn, QueuedConn
  <2>3. \A c \in Conns : c # cur[t].conn => resp'[c] = resp[c]
    BY <1>0, <1>6 DEF TypeOK
  <2>4. \A i \in DOMAIN queue' : resp'[queue'[i].conn] = "none"
    BY <1>6, <2>1, <2>2, <2>3
  <2>5. ASSUME NEW u \in Threads, Holds(u)', pc'[u] # "close"
        PROVE  resp'[cur'[u].conn] = "none"
    BY <1>6, <2>1, <2>2, <2>3, <2>5 DEF Holds
  <2>6. QED
    BY <2>4, <2>5
<1>7. ASSUME NEW l \in Listeners, Reply(l)
      PROVE  Unanswered'
  <2>1. l \in Threads /\ Holds(l)
    BY <1>0, <1>7, ControlStates DEF Reply, ReplyStates, Threads, HoldingOK
  <2>2. /\ cur'[l] = None
        /\ \A u \in Threads \ {l} : cur'[u] = cur[u] /\ pc'[u] = pc[u]
    BY <1>0, <1>7, <2>1 DEF Reply, TypeOK
  <2>3. QED
    BY <1>6, <1>7, <2>1, <2>2 DEF Reply
<1>8. ASSUME NEW w \in Workers, NEW from \in {"connect", "relay"}, NEW status,
             Serve(w, from, status)
      PROVE  Unanswered'
  <2>1. w \in Threads /\ Holds(w)
    BY <1>0, <1>8, ControlStates DEF Serve, Goto, Threads, HoldingOK
  <2>2. /\ pc'[w] = "close"
        /\ \A u \in Threads \ {w} : cur'[u] = cur[u] /\ pc'[u] = pc[u]
    BY <1>0, <1>8, <2>1 DEF Serve, Goto, TypeOK
  <2>3. QED
    BY <1>6, <1>8, <2>1, <2>2 DEF Serve
<1>9. ASSUME NEW w \in Workers, Close(w)
      PROVE  Unanswered'
  <2>1. /\ w \in Threads /\ UNCHANGED <<queue, resp>>
        /\ cur'[w] = None
        /\ \A t \in Threads \ {w} : cur'[t] = cur[t] /\ pc'[t] = pc[t]
    BY <1>0, <1>9 DEF Close, Goto, TypeOK, Threads
  <2>2. QED
    BY <2>1 DEF Holds
<1>10. ASSUME UNCHANGED <<queue, cur, resp>>,
              NEW t \in Threads, pc[t] # "close",
              \A u \in Threads \ {t} : pc'[u] = pc[u]
       PROVE  Unanswered'
  BY <1>10 DEF Holds
<1>11. ASSUME NEW t \in Threads, NEW from, NEW to, Goto(t, from, to),
              from # "close", UNCHANGED <<queue, cur, resp>>
       PROVE  Unanswered'
  <2>1. pc[t] # "close" /\ \A u \in Threads \ {t} : pc'[u] = pc[u]
    BY <1>0, <1>11 DEF Goto, TypeOK
  <2>2. QED
    BY <1>10, <1>11, <2>1
<1>12. ASSUME NEW t \in Threads, NEW from, NEW to, from # "close",
              \/ Lock(t, from, to)
              \/ Report(t, from, to)
              \/ Advance(t, from, to)
       PROVE  Unanswered'
  BY <1>11, <1>12 DEF Lock, Report, Advance
<1>13. ASSUME NEW t \in Threads,
              \/ GetJobEmpty(t)
              \/ AddFull(t)
              \/ GetWait(t)
              \/ SpuriousWakeup(t)
       PROVE  Unanswered'
  BY <1>11, <1>13 DEF GetJobEmpty, AddFull, GetWait, SpuriousWakeup
<1>14. ASSUME UNCHANGED vars
       PROVE  Unanswered'
  BY <1>14 DEF vars, Holds
<1>15. QED
  BY <1>1, <1>2, <1>3, <1>4, <1>5, <1>7, <1>8, <1>9, <1>12, <1>13, <1>14
  DEF Next, Listen, Work, Threads

(* SInv is an invariant. *)
LEMMA ServiceInvariant == Spec => []SInv
<1>1. Init => ConnsOnce /\ ConnsAccepted /\ Unanswered
  <2> SUFFICES ASSUME Init PROVE ConnsOnce /\ ConnsAccepted /\ Unanswered
    OBVIOUS
  <2>1. queue = << >> /\ (\A t \in Threads : ~Holds(t))
    BY DEF Init, create_queue, Holds
  <2>2. QED
    BY <2>1 DEF Init, ConnsOnce, ConnsAccepted, Unanswered
<1>2. ConnsOnce /\ ConnsAccepted /\ Unanswered /\ IInv /\ [Next]_vars
        => (ConnsOnce /\ ConnsAccepted /\ Unanswered)'
  <2>1. ASSUME ConnsOnce, ConnsAccepted, Unanswered, IInv, [Next]_vars
        PROVE  (ConnsOnce /\ ConnsAccepted /\ Unanswered)'
    BY <2>1, NextConns, NextUnanswered DEF SInv
  <2>2. QED
    BY <2>1
<1>3. IInv /\ ConnsOnce /\ ConnsAccepted /\ Unanswered => SInv
  BY DEF SInv
<1>4. QED
  BY <1>1, <1>2, <1>3, Inductive, PTL DEF Spec

(***************************************************************************)
(* The refinement: Serving is what ProxyServer substitutes for `serving'.  *)
(***************************************************************************)
ServeStates == {"delay", "connect", "relay"}

Serving == {cur[w].conn : w \in {v \in Workers :
                                    pc[v] \in {"delay", "connect", "relay"}}}

(* Steps that leave the workers with a request where they are. *)
LEMMA ServingSame ==
  ASSUME \A w \in Workers : /\ pc'[w] \in ServeStates <=> pc[w] \in ServeStates
                            /\ pc[w] \in ServeStates => cur'[w] = cur[w]
  PROVE  Serving' = Serving
BY DEF Serving, ServeStates

(* A worker that serves a connection has the request in hand. *)
LEMMA ServesHeld ==
  ASSUME IInv
  PROVE  \A w \in Workers : pc[w] \in ServeStates =>
           w \in Threads /\ Holds(w) /\ pc[w] # "close"
BY ControlStates DEF ServeStates, IInv, HoldingOK, Threads

(* A listener has a connection that is neither queued nor being served. *)
LEMMA ListenersApart ==
  ASSUME SInv, NEW l \in Listeners, Holds(l)
  PROVE  /\ cur[l].conn \in Conns
         /\ cur[l].conn \notin Service!PendingConns
         /\ cur[l].conn \notin Serving
<1> USE DEF SInv
<1>1. l \in Threads /\ l \notin Workers
  BY DEF Threads
<1>2. cur[l].conn \notin Service!PendingConns
  BY <1>1, ConnsApart DEF Service!PendingConns
<1>3. cur[l].conn \notin Serving
  BY <1>1, ConnsApart, ServesHeld DEF Serving, ServeStates
<1>4. QED
  BY <1>1, <1>2, <1>3, HeldConn

(* Taking a request from the queue is what the service calls Without. *)
LEMMA TakenHighest ==
  ASSUME IInv, queue # << >>
  PROVE  /\ HighestIndex(queue) \in DOMAIN queue
         /\ Service!IsHighest(queue, HighestIndex(queue))
         /\ Without(queue, HighestIndex(queue))
              = Service!Without(queue, HighestIndex(queue))
<1>1. queue \in Seq(Job)
  BY DEF IInv, TypeOK
<1>2. IsHighest(queue, HighestIndex(queue))
  BY <1>1, JobsPrioritised, HighestIndexExists
<1>3. QED
  BY <1>2 DEF IsHighest, Service!IsHighest, Without, Service!Without

(* Every step of a thread is a step of the service or a stutter. *)
LEMMA StepImplements ==
  ASSUME SInv, [Next]_vars
  PROVE  [Service!Next]_(Service!vars)
<1>0. IInv /\ TypeOK /\ HoldingOK /\ Unanswered
  BY DEF SInv, IInv
<1>1. ASSUME UNCHANGED <<queue, resp>>, Serving' = Serving
      PROVE  [Service!Next]_(Service!vars)
  BY <1>1 DEF Service!vars, Serving
<1>2. ASSUME NEW t \in Threads, NEW from, NEW to, Goto(t, from, to),
             t \in Workers => (from \in ServeStates <=> to \in ServeStates),
             UNCHANGED <<queue, resp>>,
             \A w \in Workers : pc[w] \in ServeStates => cur'[w] = cur[w]
      PROVE  [Service!Next]_(Service!vars)
  <2>1. \A w \in Workers : pc'[w] \in ServeStates <=> pc[w] \in ServeStates
    BY <1>0, <1>2 DEF Goto, TypeOK
  <2>2. Serving' = Serving
    BY <1>2, <2>1, ServingSame
  <2>3. QED
    BY <1>1, <1>2, <2>2
<1>3. ASSUME NEW l \in Listeners, AddWork(l)
      PROVE  [Service!Next]_(Service!vars)
  <2>1. l \in Threads /\ l \notin Workers /\ cur[l] \in Job /\ Holds(l)
        /\ pc[l] = "add_cs"
    BY <1>0, <1>3, ControlStates, HeldIsJob DEF AddWork, Threads, HoldingOK
  <2>2. /\ queue \in Seq(Job) /\ Len(queue) \in Nat
        /\ Len(queue) < MaxQueueSize
    BY <1>0, <1>3, LenProperties DEF TypeOK, AddWork, IsFull
  <2>3. /\ Len(queue') = Len(queue) + 1
        /\ \A i \in DOMAIN queue : queue'[i] = queue[i]
        /\ queue'[Len(queue) + 1] = cur[l]
    <3>1. queue' = Append(queue, cur[l])
      BY <1>3 DEF AddWork, add_work
    <3>2. QED
      BY <2>1, <2>2, <3>1 DEF add_work
  <2>4. Serving' = Serving
    <3>1. \A w \in Workers : cur'[w] = cur[w]
      BY <1>0, <1>3, <2>1 DEF AddWork, TypeOK
    <3>2. \A w \in Workers :
            pc'[w] = pc[w] \/ (pc[w] = "wait" /\ pc'[w] = "get")
      <4>1. \/ pc' = [pc EXCEPT ![l] = "peek"]
            \/ \E w \in Workers : /\ pc[w] = "wait"
                                  /\ pc' = [pc EXCEPT ![l] = "peek", ![w] = "get"]
        BY <1>3 DEF AddWork, Waiting
      <4>2. pc \in [Threads -> ListenerStates \cup WorkerStates]
            /\ Workers \subseteq Threads
        BY <1>0 DEF TypeOK, Threads
      <4>3. QED
        BY <2>1, <4>1, <4>2
    <3>3. QED
      BY <3>1, <3>2, ServingSame DEF ServeStates
  <2>5. /\ cur[l].conn \in Conns \ (Service!PendingConns \cup Serving)
        /\ resp[cur[l].conn] = "none"
    BY <1>0, <2>1, ListenersApart DEF Unanswered
  <2>6. resp' = resp
    BY <1>3 DEF AddWork
  <2>7. /\ queue'[Len(queue) + 1].conn
               \in Conns \ (Service!PendingConns \cup Serving)
        /\ resp[queue'[Len(queue) + 1].conn] = "none"
    BY <2>3, <2>5
  <2>8. UNCHANGED <<Serving, resp>>
    BY <2>4, <2>6
  <2>9. Service!Admit
    BY <2>2, <2>3, <2>7, <2>8, Zenon DEF Service!Admit, Serving
  <2>10. QED
    BY <2>9 DEF Service!Next
<1>4. ASSUME NEW l \in Listeners, Reply(l)
      PROVE  [Service!Next]_(Service!vars)
  <2>1. /\ l \in Threads /\ l \notin Workers /\ Holds(l)
        /\ pc[l] \in ReplyStates /\ pc[l] # "close"
    BY <1>0, <1>4, ControlStates DEF Reply, ReplyStates, Threads, HoldingOK
  <2>2. \A w \in Workers : pc'[w] = pc[w] /\ cur'[w] = cur[w]
    BY <1>0, <1>4, <2>1 DEF Reply, TypeOK
  <2>3. Serving' = Serving
    BY <2>2, ServingSame
  <2>4. resp[cur[l].conn] = "none"
    BY <1>0, <2>1 DEF Unanswered
  <2>5. Service!Refuse(cur[l].conn, pc[l])
    BY <1>4, <2>1, <2>3, <2>4, ListenersApart
    DEF Reply, Service!Refuse, Serving
  <2>6. QED
    BY <2>1, <2>5, ListenersApart DEF Service!Next
<1>5. ASSUME NEW l \in Listeners, GetJobTake(l)
      PROVE  [Service!Next]_(Service!vars)
  <2>1. /\ HighestIndex(queue) \in DOMAIN queue
        /\ Service!IsHighest(queue, HighestIndex(queue))
        /\ queue' = Service!Without(queue, HighestIndex(queue))
    BY <1>0, <1>5, TakenHighest DEF GetJobTake
  <2>2. \A w \in Workers : pc'[w] = pc[w] /\ cur'[w] = cur[w]
    BY <1>0, <1>5 DEF GetJobTake, Goto, TypeOK, Threads
  <2>3. Serving' = Serving
    BY <2>2, ServingSame
  <2>4. resp' = resp
    BY <1>5 DEF GetJobTake
  <2>5. Service!HandOut(HighestIndex(queue))
    BY <2>1, <2>3, <2>4 DEF Service!HandOut, Serving
  <2>6. QED
    BY <2>1, <2>5 DEF Service!Next
<1>6. ASSUME NEW w \in Workers, GetTake(w)
      PROVE  [Service!Next]_(Service!vars)
  <2>1. PICK n : n = HighestIndex(queue)
    OBVIOUS
  <2>2. /\ n \in DOMAIN queue
        /\ Service!IsHighest(queue, n)
        /\ queue' = Service!Without(queue, n)
    BY <1>0, <1>6, <2>1, TakenHighest DEF GetTake
  <2>3. /\ w \in Threads /\ pc[w] \notin ServeStates /\ pc'[w] \in ServeStates
        /\ cur'[w] = queue[n]
        /\ \A v \in Workers \ {w} : cur'[v] = cur[v] /\ pc'[v] = pc[v]
    BY <1>0, <1>6, <2>1 DEF GetTake, Goto, TypeOK, Threads, ServeStates
  <2>4. Serving' = Serving \cup {queue[n].conn}
    BY <2>3 DEF Serving, ServeStates
  <2>5. resp' = resp
    BY <1>6 DEF GetTake
  <2>6. Service!Start(n)
    BY <2>2, <2>4, <2>5 DEF Service!Start, Serving
  <2>7. QED
    BY <2>2, <2>6 DEF Service!Next
<1>7. ASSUME NEW w \in Workers, NEW from \in {"connect", "relay"},
             NEW status \in Outcomes,
             Serve(w, from, status)
      PROVE  [Service!Next]_(Service!vars)
  <2>1. /\ w \in Threads /\ pc[w] \in ServeStates /\ pc[w] # "close"
        /\ pc'[w] \notin ServeStates
        /\ \A v \in Workers : cur'[v] = cur[v]
        /\ \A v \in Workers \ {w} : pc'[v] = pc[v]
    BY <1>0, <1>7 DEF Serve, Goto, TypeOK, Threads, ServeStates
  <2>2. Holds(w) /\ resp[cur[w].conn] = "none" /\ cur[w].conn \in Conns
    BY <1>0, <2>1, ServesHeld, HeldConn DEF Unanswered
  <2>3. \A v \in Workers \ {w} :
          pc[v] \in ServeStates => cur[v].conn # cur[w].conn
    BY <1>0, <2>1, <2>2, ServesHeld, ConnsApart DEF SInv
  <2>4. Serving' = Serving \ {cur[w].conn} /\ cur[w].conn \in Serving
    BY <2>1, <2>3 DEF Serving, ServeStates
  <2>5. queue' = queue /\ resp' = [resp EXCEPT ![cur[w].conn] = status]
    BY <1>7 DEF Serve
  <2>6. Service!Finish(cur[w].conn, status)
    BY <2>2, <2>4, <2>5 DEF Service!Finish, Serving
  <2>7. QED
    BY <2>2, <2>6 DEF Service!Next
<1>8. ASSUME NEW l \in Listeners,
             \/ Accept(l)
             \/ \E r \in Requests : Parse(l, r)
             \/ Lock(l, "getjob", "getjob_cs")
             \/ GetJobEmpty(l)
             \/ Lock(l, "add", "add_cs")
             \/ AddFull(l)
             \/ Report(l, "peek", "print")
             \/ Report(l, "print", "accept")
      PROVE  [Service!Next]_(Service!vars)
  <2>1. UNCHANGED <<queue, resp>> /\ l \in Threads /\ l \notin Workers
    BY <1>8 DEF Accept, Parse, Lock, GetJobEmpty, AddFull, Report, Threads
  <2>2. \E from, to : Goto(l, from, to)
    BY <1>8 DEF Accept, Parse, Lock, GetJobEmpty, AddFull, Report
  <2>3. \A w \in Workers : cur'[w] = cur[w]
    BY <1>0, <1>8, <2>1
    DEF Accept, Parse, Lock, GetJobEmpty, AddFull, Report, TypeOK, Threads
  <2>4. QED
    BY <1>2, <2>1, <2>2, <2>3
<1>9. ASSUME NEW w \in Workers,
             \/ Lock(w, "get", "get_cs")
             \/ GetWait(w)
             \/ Advance(w, "delay", "connect")
             \/ Advance(w, "connect", "relay")
             \/ SpuriousWakeup(w)
      PROVE  [Service!Next]_(Service!vars)
  BY <1>2, <1>9
  DEF Lock, GetWait, Advance, SpuriousWakeup, Threads, ServeStates
<1>10. ASSUME NEW w \in Workers, Close(w)
       PROVE  [Service!Next]_(Service!vars)
  <2>1. \A v \in Workers : pc[v] \in ServeStates => cur'[v] = cur[v]
    BY <1>0, <1>10 DEF Close, Goto, TypeOK, Threads, ServeStates
  <2>2. QED
    BY <1>2, <1>10, <2>1 DEF Close, Threads, ServeStates
<1>11. ASSUME UNCHANGED vars
       PROVE  [Service!Next]_(Service!vars)
  BY <1>1, <1>11 DEF vars, Serving
<1>12. QED
  BY <1>3, <1>4, <1>5, <1>6, <1>7, <1>8, <1>9, <1>10, <1>11
  DEF Next, Listen, Work, Outcomes

(* Under any interleaving of its threads the proxy serves its queue by     *)
(* priority and, among equals, by arrival (add_work, get_work), keeps it   *)
(* within max_size, and answers no connection twice.                       *)
THEOREM ImplementsRequestService == Spec => ImplementsService
<1>1. Init => Service!Init
  <2> SUFFICES ASSUME Init PROVE Service!Init
    OBVIOUS
  <2>1. \A w \in Workers : pc[w] = "get"
    BY DEF Init, Threads
  <2>2. QED
    BY <2>1 DEF Init, Service!Init, create_queue
<1>2. SInv /\ [Next]_vars => [Service!Next]_(Service!vars)
  BY StepImplements
<1>3. QED
  BY <1>1, <1>2, ServiceInvariant, PTL DEF Spec, ImplementsService, Service!Spec

=============================================================================
