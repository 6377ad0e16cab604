----------------------------- MODULE SafeQueue -----------------------------
(***************************************************************************)
(* The data of the proxy server's priority queue (safequeue.c): a bounded  *)
(* array of requests in arrival order.  The array requests[0..curr_size-1] *)
(* is a sequence; slots past curr_size are never read as requests, so they *)
(* are left out.  Locking is the business of ProxyServer, which calls      *)
(* these operators inside its critical sections.                           *)
(***************************************************************************)
EXTENDS Naturals, Sequences

(* The entries of the array, whatever max_size a queue is created with.    *)
MAX_QUEUE_SIZE == 1000

(* create_queue: no request is queued. *)
create_queue == << >>

(* A slip: the test runs one store too late. *)
IsFullLate(q, max) == Len(q) = max + 1

(* add_work's test: the array already holds max_size requests. *)
IsFull(q, max) == Len(q) = max

(* add_work's stores at slot curr_size, followed by curr_size++.  They are  *)
(* stores of the array while curr_size < MAX_QUEUE_SIZE.                   *)
add_work(q, job) == Append(q, job)

(***************************************************************************)
(* The scan shared by peek, get_work and get_work_nonblocking: `index'     *)
(* moves only on a strictly greater priority, so it ends at the first of   *)
(* the requests with the greatest priority.                                *)
(***************************************************************************)
IsHighest(q, i) ==
  /\ i \in DOMAIN q
  /\ \A j \in DOMAIN q : q[j].priority <= q[i].priority
  /\ \A j \in 1 .. (i - 1) : q[j].priority < q[i].priority

(* A slip: `<=' in the scan's comparison ends at the last of the equals. *)
LastHighestIndex(q) ==
  CHOOSE i \in DOMAIN q :
    /\ \A j \in DOMAIN q : q[j].priority <= q[i].priority
    /\ \A j \in (i + 1) .. Len(q) : q[j].priority < q[i].priority

HighestIndex(q) == CHOOSE i \in DOMAIN q : IsHighest(q, i)

(* A slip: curr_size-- without the shift loop. *)
WithoutShift(q, i) == SubSeq(q, 1, Len(q) - 1)

(* The shift loop that closes the gap at `index', then curr_size--. *)
Without(q, i) ==
  [j \in 1 .. (Len(q) - 1) |-> IF j < i THEN q[j] ELSE q[j + 1]]
=============================================================================
