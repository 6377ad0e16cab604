---------------------------- MODULE ProxyServer ----------------------------
(***************************************************************************)
(* The concurrent proxy server: listener threads accept connections, parse *)
(* the request and queue it (request_listen); worker threads take the      *)
(* request with the highest priority, sleep for its delay, relay it to the *)
(* file server and close the connection (request_work, serve_request).     *)
(* They share one mutex, one condition variable and one bounded queue      *)
(* (safequeue.c).                                                          *)
(*                                                                         *)
(* A thread acquires the mutex in one step and runs its critical section,  *)
(* unlock included, in the next.  Client connections are numbered in the   *)
(* order of accept(); a descriptor is reused once it has been closed.      *)
(***************************************************************************)
EXTENDS SafeQueue, FiniteSets

CONSTANTS
  Listeners,      \* listener threads
  Workers,        \* worker threads
  Fds,            \* descriptors the process may give to client connections
  MaxQueueSize,   \* max_queue_size, the -q option
  Requests,       \* well-formed requests a client may send
  MaxPriority,    \* the greatest priority sscanf("/%d/") can store
  MaxConns,       \* bound: connections accepted in a behaviour
  MaxSpurious,    \* bound: spurious returns of pthread_cond_wait
  None            \* no thread, no job

Threads == Listeners \cup Workers
Conns == 1 .. MaxConns

\* A queue_request; the field conn is a history of who sent it.
Job == [fd : Fds, conn : Conns, priority : 0 .. MaxPriority, delay : Nat]

(* main() takes any -q; one that the array has no entries for (or a        *)
(* negative one, which curr_size never equals) is outside this module.     *)
ASSUME ProxyAssumption ==
  /\ Listeners \cap Workers = {}
  /\ IsFiniteSet(Workers)
  /\ MaxQueueSize \in Nat
  /\ MaxQueueSize <= MAX_QUEUE_SIZE
  /\ MaxConns \in Nat
  /\ MaxSpurious \in Nat
  /\ MaxPriority \in Nat
  /\ None \notin Threads
  /\ None \notin Job
  /\ Requests \subseteq [kind : {"work", "getjob", "unknown"},
                         priority : 0 .. MaxPriority, delay : Nat]

VARIABLES
  mutex,     \* queue->mutex: its owner, or None
  queue,     \* queue->requests[0 .. curr_size - 1]
  pc,        \* control state of every thread
  cur,       \* the request a thread is working on
  conn,      \* conn[fd]: the connection open on fd, 0 when fd is closed
  nconn,     \* connections accepted so far
  resp,      \* resp[c]: what connection c has been sent; "hung_up" is nothing
  stolen,    \* history: queued connections a GetJob removed
  spurious   \* spurious wakeups so far

vars == <<mutex, queue, pc, cur, conn, nconn, resp, stolen, spurious>>

\* The reply a listener sends itself, by the control state it sends it from.
ReplyStates == {"reply400", "reply598", "reply200", "reply599"}
\* The ways serve_request ends: see Serve.
Outcomes == {"bad_gateway", "relayed", "hung_up"}
Responses == {"none"} \cup Outcomes \cup ReplyStates

ListenerStates == {"accept", "parse", "getjob", "getjob_cs", "add", "add_cs",
                   "peek", "print"} \cup ReplyStates
WorkerStates == {"get", "get_cs", "wait", "delay", "connect", "relay", "close"}

Waiting == {w \in Workers : pc[w] = "wait"}

Init ==
  /\ mutex = None
  /\ queue = create_queue
  /\ pc = [t \in Threads |-> IF t \in Listeners THEN "accept" ELSE "get"]
  /\ cur = [t \in Threads |-> None]
  /\ conn = [f \in Fds |-> 0]
  /\ nconn = 0
  /\ resp = [c \in Conns |-> "none"]
  /\ stolen = {}
  /\ spurious = 0

Goto(t, from, to) ==
  /\ pc[t] = from
  /\ pc' = [pc EXCEPT ![t] = to]

(* pthread_mutex_lock: t blocks until the mutex is free. *)
Lock(t, from, to) ==
  /\ Goto(t, from, to)
  /\ mutex = None
  /\ mutex' = t
  /\ UNCHANGED <<queue, cur, conn, nconn, resp, stolen, spurious>>

(***************************************************************************)
(* Listener threads.                                                       *)
(***************************************************************************)

(* accept() binds a new connection to any free descriptor. *)
Accept(l) ==
  /\ Goto(l, "accept", "parse")
  /\ nconn < MaxConns
  /\ nconn' = nconn + 1
  /\ \E f \in Fds :
       /\ conn[f] = 0
       /\ conn' = [conn EXCEPT ![f] = nconn + 1]
       /\ cur' = [cur EXCEPT ![l] = [fd |-> f, conn |-> nconn + 1,
                                     priority |-> 0, delay |-> 0]]
  /\ UNCHANGED <<mutex, queue, resp, stolen, spurious>>

(* http_request_parse (a peek at the socket) and the dispatch on the path. *)
Parse(l, r) ==
  /\ Goto(l, "parse", CASE r.kind = "work"    -> "add"
                        [] r.kind = "getjob"  -> "getjob"
                        [] r.kind = "unknown" -> "reply400")
  /\ cur' = [cur EXCEPT ![l].priority = r.priority, ![l].delay = r.delay]
  /\ UNCHANGED <<mutex, queue, conn, nconn, resp, stolen, spurious>>

(* get_work_nonblocking: the removed request's own descriptor is not closed. *)
GetJobEmpty(l) ==
  /\ Goto(l, "getjob_cs", "reply598")
  /\ queue = << >>
  /\ mutex' = None
  /\ UNCHANGED <<queue, cur, conn, nconn, resp, stolen, spurious>>

GetJobTake(l) ==
  /\ Goto(l, "getjob_cs", "reply200")
  /\ queue # << >>
  /\ stolen' = stolen \cup {queue[HighestIndex(queue)].conn}
  /\ queue' = Without(queue, HighestIndex(queue))
  /\ mutex' = None
  /\ UNCHANGED <<cur, conn, nconn, resp, spurious>>

(* add_work on a full queue. *)
AddFull(l) ==
  /\ Goto(l, "add_cs", "reply599")
  /\ IsFull(queue, MaxQueueSize)
  /\ mutex' = None
  /\ UNCHANGED <<queue, cur, conn, nconn, resp, stolen, spurious>>

(* Slips of add_work: no signal, and a signal only for an empty queue. *)
AddWorkUnsignalled(l) ==
  /\ Goto(l, "add_cs", "peek")
  /\ ~IsFull(queue, MaxQueueSize)
  /\ queue' = add_work(queue, cur[l])
  /\ cur' = [cur EXCEPT ![l] = None]
  /\ mutex' = None
  /\ UNCHANGED <<conn, nconn, resp, stolen, spurious>>

AddWorkSignalOnEmpty(l) ==
  /\ pc[l] = "add_cs"
  /\ ~IsFull(queue, MaxQueueSize)
  /\ queue' = add_work(queue, cur[l])
  /\ IF Waiting = {} \/ queue # << >>
       THEN pc' = [pc EXCEPT ![l] = "peek"]
       ELSE \E w \in Waiting : pc' = [pc EXCEPT ![l] = "peek", ![w] = "get"]
  /\ cur' = [cur EXCEPT ![l] = None]
  /\ mutex' = None
  /\ UNCHANGED <<conn, nconn, resp, stolen, spurious>>

(* pthread_cond_signal moves one waiter, if there is one, to the mutex. *)
AddWork(l) ==
  /\ pc[l] = "add_cs"
  /\ ~IsFull(queue, MaxQueueSize)
  /\ queue' = add_work(queue, cur[l])
  /\ IF Waiting = {}
       THEN pc' = [pc EXCEPT ![l] = "peek"]
       ELSE \E w \in Waiting : pc' = [pc EXCEPT ![l] = "peek", ![w] = "get"]
  /\ cur' = [cur EXCEPT ![l] = None]
  /\ mutex' = None
  /\ UNCHANGED <<conn, nconn, resp, stolen, spurious>>

(* peek and print_queue only read, each under the mutex. *)
Report(l, from, to) ==
  /\ Goto(l, from, to)
  /\ mutex = None
  /\ UNCHANGED <<mutex, queue, cur, conn, nconn, resp, stolen, spurious>>

(* send_error_response, shutdown and close of the listener's own client. *)
Reply(l) ==
  /\ pc[l] \in ReplyStates
  /\ resp' = [resp EXCEPT ![cur[l].conn] = pc[l]]
  /\ conn' = [conn EXCEPT ![cur[l].fd] = 0]
  /\ cur' = [cur EXCEPT ![l] = None]
  /\ pc' = [pc EXCEPT ![l] = "accept"]
  /\ UNCHANGED <<mutex, queue, nconn, stolen, spurious>>

Listen(l) ==
  \/ Accept(l)
  \/ \E r \in Requests : Parse(l, r)
  \/ Lock(l, "getjob", "getjob_cs")
  \/ GetJobEmpty(l)
  \/ GetJobTake(l)
  \/ Lock(l, "add", "add_cs")
  \/ AddFull(l)
  \/ AddWork(l)
  \/ Report(l, "peek", "print")
  \/ Report(l, "print", "accept")
  \/ Reply(l)

(***************************************************************************)
(* Worker threads.                                                         *)
(***************************************************************************)

(* The while loop of get_work: pthread_cond_wait releases the mutex. *)
GetWait(w) ==
  /\ Goto(w, "get_cs", "wait")
  /\ queue = << >>
  /\ mutex' = None
  /\ UNCHANGED <<queue, cur, conn, nconn, resp, stolen, spurious>>

GetTake(w) ==
  LET job == queue[HighestIndex(queue)] IN
  /\ queue # << >>
  /\ Goto(w, "get_cs", IF job.delay > 0 THEN "delay" ELSE "connect")
  /\ cur' = [cur EXCEPT ![w] = job]
  /\ queue' = Without(queue, HighestIndex(queue))
  /\ mutex' = None
  /\ UNCHANGED <<conn, nconn, resp, stolen, spurious>>

(* POSIX lets pthread_cond_wait return without a signal. *)
SpuriousWakeup(w) ==
  /\ Goto(w, "wait", "get")
  /\ spurious < MaxSpurious
  /\ spurious' = spurious + 1
  /\ UNCHANGED <<mutex, queue, cur, conn, nconn, resp, stolen>>

(* sleep(request.delay), and connect() reaching the file server. *)
Advance(w, from, to) ==
  /\ Goto(w, from, to)
  /\ UNCHANGED <<mutex, queue, cur, conn, nconn, resp, stolen, spurious>>

(* A slip of serve_request: it returns from a failed connect() at once. *)
ServeSilent(w, from, status) ==
  /\ Goto(w, from, "close")
  /\ resp' = IF from = "connect" THEN resp
             ELSE [resp EXCEPT ![cur[w].conn] = status]
  /\ UNCHANGED <<mutex, queue, cur, conn, nconn, stolen, spurious>>

(* The ways serve_request ends: connect or send fails (Bad Gateway), what  *)
(* the file server sends is relayed until it closes or the client goes     *)
(* away, or the first recv() returns no byte ("hung_up"): then the client  *)
(* has been sent nothing when request_work closes it.                      *)
Serve(w, from, status) ==
  /\ Goto(w, from, "close")
  /\ resp' = [resp EXCEPT ![cur[w].conn] = status]
  /\ UNCHANGED <<mutex, queue, cur, conn, nconn, stolen, spurious>>

(* A slip of request_work: shutdown() without close(). *)
CloseForgotten(w) ==
  /\ Goto(w, "close", "get")
  /\ cur' = [cur EXCEPT ![w] = None]
  /\ UNCHANGED <<mutex, queue, conn, nconn, resp, stolen, spurious>>

Close(w) ==
  /\ Goto(w, "close", "get")
  /\ conn' = [conn EXCEPT ![cur[w].fd] = 0]
  /\ cur' = [cur EXCEPT ![w] = None]
  /\ UNCHANGED <<mutex, queue, nconn, resp, stolen, spurious>>

Work(w) ==
  \/ Lock(w, "get", "get_cs")
  \/ GetWait(w)
  \/ GetTake(w)
  \/ Advance(w, "delay", "connect")
  \/ Advance(w, "connect", "relay")
  \/ Serve(w, "connect", "bad_gateway")
  \/ \E s \in Outcomes : Serve(w, "relay", s)
  \/ Close(w)

Next ==
  \/ \E l \in Listeners : Listen(l)
  \/ \E w \in Workers : Work(w) \/ SpuriousWakeup(w)

Spec == Init /\ [][Next]_vars

(***************************************************************************)
(* Every thread keeps running: the kernel schedules all pthreads, and the  *)
(* file server and sleep() return.  Clients owe nothing, so accept() and   *)
(* http_request_parse, which wait for them, get no fairness.  A mutex that *)
(* is released again and again is eventually granted; the number of its    *)
(* users is bounded here, so weak fairness says that.                      *)
(***************************************************************************)
OwnStep(l) ==
  \/ Lock(l, "getjob", "getjob_cs")
  \/ GetJobEmpty(l)
  \/ GetJobTake(l)
  \/ Lock(l, "add", "add_cs")
  \/ AddFull(l)
  \/ AddWork(l)
  \/ Report(l, "peek", "print")
  \/ Report(l, "print", "accept")
  \/ Reply(l)

Fairness ==
  /\ \A l \in Listeners : WF_vars(OwnStep(l))
  /\ \A w \in Workers : WF_vars(Work(w))

FairSpec == Spec /\ Fairness

(***************************************************************************)
(* Properties.                                                             *)
(***************************************************************************)

TypeOK ==
  /\ mutex \in Threads \cup {None}
  /\ queue \in Seq(Job)
  /\ Len(queue) <= MaxQueueSize
  /\ pc \in [Threads -> ListenerStates \cup WorkerStates]
  /\ \A l \in Listeners : pc[l] \in ListenerStates
  /\ \A w \in Workers : pc[w] \in WorkerStates
  /\ cur \in [Threads -> Job \cup {None}]
  /\ conn \in [Fds -> 0 .. MaxConns]
  /\ nconn \in 0 .. MaxConns
  /\ resp \in [Conns -> Responses]
  /\ stolen \subseteq Conns
  /\ spurious \in 0 .. MaxSpurious

Holds(t) == cur[t] # None

\* A queued request's descriptor is still the connection that sent it ...
QueuedOpen == \A i \in DOMAIN queue : conn[queue[i].fd] = queue[i].conn
\* ... and so is that of a request a thread works on.
HeldOpen == \A t \in Threads : Holds(t) => conn[cur[t].fd] = cur[t].conn
\* No two of these requests have the same descriptor.
QueuedOnce == \A i, j \in DOMAIN queue : queue[i].fd = queue[j].fd => i = j
HeldOnce ==
  \A t, u \in Threads :
    Holds(t) /\ Holds(u) /\ cur[t].fd = cur[u].fd => t = u
QueuedOrHeld ==
  \A t \in Threads, i \in DOMAIN queue : Holds(t) => cur[t].fd # queue[i].fd

(* Every descriptor that a queued request or a thread will still write to  *)
(* or close belongs to that request alone, and is still the connection     *)
(* that sent it: no response reaches another client through a descriptor   *)
(* that was closed and reused (close() in request_listen, request_work).   *)
NoCrossTalk ==
  QueuedOpen /\ HeldOpen /\ QueuedOnce /\ HeldOnce /\ QueuedOrHeld

(* An open connection is in the hands of a thread or in the queue, unless  *)
(* a GetJob request removed it: that is the only way request_listen and    *)
(* request_work lose a descriptor.                                         *)
OnlyGetJobLeaks ==
  \A f \in Fds : conn[f] # 0 =>
    \/ \E t \in Threads : Holds(t) /\ cur[t].fd = f
    \/ \E i \in DOMAIN queue : queue[i].fd = f
    \/ conn[f] \in stolen

\* Workers on their way to test the queue: before, at or after the mutex.
Ready == {w \in Workers : pc[w] \in {"get", "get_cs"}}

(* add_work signals the condition once per request and get_work waits only *)
(* on an empty queue, so no worker sleeps in pthread_cond_wait while there *)
(* are more queued requests than workers about to take one.                *)
WorkConserving == Waiting # {} => Len(queue) <= Cardinality(Ready)

(* A connection that was accepted and is closed again has been answered    *)
(* (or its client went away), unless the file server hung up on it without *)
(* a byte, when serve_request sends nothing: no other path, a failed       *)
(* connect() included, closes a client without a response.                 *)
ClosedIsAccounted ==
  \A c \in 1 .. nconn :
    (\A f \in Fds : conn[f] # c) => resp[c] # "none"

(* The threads, the mutex and the descriptors together implement the       *)
(* service contract: priority order, arrival order among equals, the bound *)
(* on the queue and at most one answer per connection.                     *)
Service == INSTANCE RequestService WITH
  Refusals <- ReplyStates,
  Outcomes <- Outcomes,
  pending  <- queue,
  serving  <- {cur[w].conn : w \in {v \in Workers :
                               pc[v] \in {"delay", "connect", "relay"}}},
  answered <- resp

ImplementsService == Service!Spec

\* Connection c is in the queue.
IsQueued(c) == \E i \in DOMAIN queue : queue[i].conn = c

(* A queued request does not stay in the queue for ever behind sleeping    *)
(* workers: a worker serves it to one of the ends of serve_request, or a   *)
(* GetJob request takes it.                                                *)
QueuedIsServed ==
  \A c \in Conns : IsQueued(c) ~> (resp[c] # "none" \/ c \in stolen)
=============================================================================
