------------------------------- MODULE Bcache -------------------------------
(***************************************************************************)
(* The buffer cache of xv6 (bio.c), the sleep locks of its buffers         *)
(* (sleeplock.c) and the disk driver behind it (ide.c), used by processes  *)
(* that have one buffer or several at once, as write_log, install_trans    *)
(* and bmap do.  Each critical section of bcache.lock, of a sleep lock's   *)
(* spin lock and of idelock is one step.                                   *)
(***************************************************************************)
EXTENDS Integers, Sequences, FiniteSets

CONSTANTS
  Processes, \* each the set of its hands, one for each buffer it may have at once
  Blocks,   \* blocks of the disk
  NBUF,     \* buffers of the cache
  Data,     \* contents of a block
  MaxDirty, \* buffers that a transaction may keep dirty (LOGSIZE, which is NBUF)
  None

Hands == UNION Processes

ASSUME BcacheAssumption ==
  /\ NBUF \in Nat \ {0} /\ MaxDirty \in Nat /\ IsFiniteSet(Hands)
  /\ None \notin Blocks \cup Hands \cup Data \cup 1 .. NBUF

VARIABLES
  list,      \* the buffers, most recently released first
  blockno, refcnt, valid, dirty, data, holder, \* struct buf; holder: lock.pid, or None
  idequeue,  \* buffers with a request, the active one first
  active,    \* the command the drive is working on, or None
  disk,      \* what is on the drive
  pc,        \* per hand: its place in the code below
  want,      \* per hand: the block it asked for
  buf,       \* per hand: the buffer it has a reference to
  asleep,    \* hands whose process is in sleep()
  panicked,  \* the panics that were reached
  latest     \* history: what was last stored into each block

bufs == <<list, blockno, refcnt, valid, dirty, data, holder>>
drive == <<idequeue, active, disk>>
procs == <<pc, want, buf>>
vars == <<bufs, drive, procs, asleep, panicked, latest>>

Buf == 1 .. NBUF

(* binit: every buffer goes to the front of the list in turn. *)
Init ==
  /\ list = [i \in Buf |-> NBUF + 1 - i]
  /\ blockno = [b \in Buf |-> None]
  /\ refcnt = [b \in Buf |-> 0]
  /\ valid = {} /\ dirty = {}
  /\ data = [b \in Buf |-> None]
  /\ holder = [b \in Buf |-> None]
  /\ idequeue = <<>> /\ active = None
  /\ disk \in [Blocks -> Data] /\ latest = disk
  /\ pc = [p \in Hands |-> "idle"]
  /\ want = [p \in Hands |-> None]
  /\ buf = [p \in Hands |-> None]
  /\ asleep = {}
  /\ panicked = {}

(* wakeup(chan): a process sleeps on its buffer's lock at "lock" and on the *)
(* buffer at "io".                                                          *)
Wake(b, at) == asleep' = asleep \ {p \in Hands : pc[p] = at /\ buf[p] = b}

(***************************************************************************)
(* bread: bget finds or recycles a buffer, then takes its lock.            *)
(***************************************************************************)
Cached(blk) == {b \in Buf : blockno[b] = blk}
\* Slip: a free lock is taken for a buffer nobody has.
UnusedUnlocked == {b \in Buf : holder[b] = None /\ b \notin dirty}

\* Slip: bget without its look at B_DIRTY.
UnusedDirty == {b \in Buf : refcnt[b] = 0}

Unused == {b \in Buf : refcnt[b] = 0 /\ b \notin dirty}

(* The scan from head.prev stops at the unused buffer furthest back. *)
Victim(b) == \E i \in Buf :
  list[i] = b /\ b \in Unused /\ \A j \in i + 1 .. NBUF : list[j] \notin Unused

Take(p, b, blk) ==
  /\ buf' = [buf EXCEPT ![p] = b]
  /\ want' = [want EXCEPT ![p] = blk]
  /\ pc' = [pc EXCEPT ![p] = "lock"]

bget_hit(p, blk) == \E b \in Cached(blk) :
  /\ pc[p] = "idle"
  /\ refcnt' = [refcnt EXCEPT ![b] = @ + 1]
  /\ Take(p, b, blk)
  /\ UNCHANGED <<list, blockno, valid, dirty, data, holder, drive, asleep, panicked, latest>>

bget_miss(p, blk) ==
  /\ pc[p] = "idle" /\ Cached(blk) = {}
  /\ IF Unused = {}
     THEN /\ panicked' = panicked \cup {"bget: no buffers"}
          /\ UNCHANGED <<blockno, refcnt, valid, dirty, procs>>
     ELSE \E b \in Buf :
          /\ Victim(b)
          /\ blockno' = [blockno EXCEPT ![b] = blk]
          /\ valid' = valid \ {b} /\ dirty' = dirty \ {b}
          /\ refcnt' = [refcnt EXCEPT ![b] = 1]
          /\ Take(p, b, blk)
          /\ UNCHANGED panicked
  /\ UNCHANGED <<list, data, holder, drive, asleep, latest>>

\* Slip: the lock is taken whether it is free or not.
acquiresleepOnce(p) ==
  LET b == buf[p] IN
  /\ pc[p] = "lock" /\ p \notin asleep
  /\ \/ /\ holder[b] # None
        /\ asleep' = asleep \cup {p}
        /\ UNCHANGED <<holder, pc>>
     \/ /\ TRUE
        /\ holder' = [holder EXCEPT ![b] = p]
        /\ pc' = [pc EXCEPT ![p] = IF b \in valid THEN "use" ELSE "rw"]
        /\ UNCHANGED asleep
  /\ UNCHANGED <<list, blockno, refcnt, valid, dirty, data, drive, want, buf, panicked, latest>>

(* One round of acquiresleep; with the lock comes bread's look at B_VALID. *)
acquiresleep(p) ==
  LET b == buf[p] IN
  /\ pc[p] = "lock" /\ p \notin asleep
  /\ \/ /\ holder[b] # None
        /\ asleep' = asleep \cup {p}
        /\ UNCHANGED <<holder, pc>>
     \/ /\ holder[b] = None
        /\ holder' = [holder EXCEPT ![b] = p]
        /\ pc' = [pc EXCEPT ![p] = IF b \in valid THEN "use" ELSE "rw"]
        /\ UNCHANGED asleep
  /\ UNCHANGED <<list, blockno, refcnt, valid, dirty, data, drive, want, buf, panicked, latest>>

(***************************************************************************)
(* iderw, and the interrupt that ends a request.                           *)
(***************************************************************************)
Done(b) == b \in valid /\ b \notin dirty

(* A write command takes the data along, a read command does not. *)
idestart(b) == active' = [block |-> blockno[b],
                          out |-> IF b \in dirty THEN data[b] ELSE None]

iderw(p) ==
  LET b == buf[p] IN
  /\ pc[p] = "rw"
  /\ IF holder[b] # p THEN panicked' = panicked \cup {"iderw: buf not locked"}
     ELSE IF Done(b) THEN panicked' = panicked \cup {"iderw: nothing to do"}
     ELSE UNCHANGED panicked
  /\ idequeue' = Append(idequeue, b)
  /\ IF idequeue = <<>> THEN idestart(b) ELSE UNCHANGED active
  /\ pc' = [pc EXCEPT ![p] = "io"]
  /\ asleep' = asleep \cup {p}
  /\ UNCHANGED <<bufs, disk, want, buf, latest>>

(* After a wakeup, by ideintr or by kill, the loop looks at the flags again. *)
iderw_resume(p) ==
  /\ pc[p] = "io" /\ p \notin asleep
  /\ \/ Done(buf[p]) /\ pc' = [pc EXCEPT ![p] = "use"] /\ UNCHANGED asleep
     \/ ~Done(buf[p]) /\ asleep' = asleep \cup {p} /\ UNCHANGED pc
  /\ UNCHANGED <<bufs, drive, want, buf, panicked, latest>>

\* Slip: no wakeup.
ideintrSilent ==
  LET b == Head(idequeue) IN
  /\ active # None /\ idequeue # <<>>
  /\ disk' = IF active.out = None THEN disk ELSE [disk EXCEPT ![active.block] = active.out]
  /\ data' = IF b \in dirty THEN data ELSE [data EXCEPT ![b] = disk[active.block]]
  /\ valid' = valid \cup {b} /\ dirty' = dirty \ {b}
  /\ UNCHANGED asleep
  /\ idequeue' = Tail(idequeue)
  /\ IF idequeue' # <<>> THEN idestart(Head(idequeue')) ELSE active' = None
  /\ UNCHANGED <<list, blockno, refcnt, holder, procs, panicked, latest>>

ideintr ==
  LET b == Head(idequeue) IN
  /\ active # None /\ idequeue # <<>>
  /\ disk' = IF active.out = None THEN disk ELSE [disk EXCEPT ![active.block] = active.out]
  /\ data' = IF b \in dirty THEN data ELSE [data EXCEPT ![b] = disk[active.block]]
  /\ valid' = valid \cup {b} /\ dirty' = dirty \ {b}
  /\ Wake(b, "io")
  /\ idequeue' = Tail(idequeue)
  /\ IF idequeue' # <<>> THEN idestart(Head(idequeue')) ELSE active' = None
  /\ UNCHANGED <<list, blockno, refcnt, holder, procs, panicked, latest>>

(***************************************************************************)
(* What a process does with a buffer it holds.                             *)
(***************************************************************************)
Store(b, d) ==
  /\ data' = [data EXCEPT ![b] = d]
  /\ latest' = [latest EXCEPT ![blockno[b]] = d]
  /\ dirty' = dirty \cup {b}

(* log_write: the buffer stays dirty in the cache. *)
log_write(p, d) ==
  /\ pc[p] = "use"
  /\ Cardinality(dirty \cup {buf[p]}) <= MaxDirty
  /\ Store(buf[p], d)
  /\ UNCHANGED <<list, blockno, refcnt, valid, holder, drive, procs, asleep, panicked>>

bwrite(p, d) ==
  /\ pc[p] = "use"
  /\ panicked' = IF holder[buf[p]] = p THEN panicked ELSE panicked \cup {"bwrite"}
  /\ Store(buf[p], d)
  /\ pc' = [pc EXCEPT ![p] = "rw"]
  /\ UNCHANGED <<list, blockno, refcnt, valid, holder, drive, want, buf, asleep>>

releasesleep(b) ==
  /\ holder' = [holder EXCEPT ![b] = None]
  /\ Wake(b, "lock")

(* brelse, in two critical sections: first the lock is given back ... *)
brelse(p) ==
  LET b == buf[p] IN
  /\ pc[p] = "use"
  /\ panicked' = IF holder[b] = p THEN panicked ELSE panicked \cup {"brelse"}
  /\ releasesleep(b)
  /\ pc' = [pc EXCEPT ![p] = "put"]
  /\ UNCHANGED <<list, blockno, refcnt, valid, dirty, data, drive, want, buf, latest>>

(* b is unlinked and linked again behind head: what was before it moves back. *)
ToFront(b) ==
  LET k == CHOOSE i \in Buf : list[i] = b IN
  [i \in Buf |-> IF i = 1 THEN b ELSE IF i <= k THEN list[i - 1] ELSE list[i]]

(* ... and then the reference, and the buffer's place in the list. *)
brelse_put(p) ==
  LET b == buf[p] IN
  /\ pc[p] = "put"
  /\ refcnt' = [refcnt EXCEPT ![b] = @ - 1]
  /\ list' = IF refcnt[b] = 1 THEN ToFront(b) ELSE list
  /\ pc' = [pc EXCEPT ![p] = "idle"]
  /\ want' = [want EXCEPT ![p] = None]
  /\ buf' = [buf EXCEPT ![p] = None]
  /\ UNCHANGED <<blockno, valid, dirty, data, holder, drive, asleep, panicked, latest>>

(* kill makes a sleeper runnable whatever it sleeps on. *)
kill(p) ==
  /\ p \in asleep
  /\ asleep' = asleep \ {p}
  /\ UNCHANGED <<bufs, drive, procs, panicked, latest>>

(* A process does one thing at a time, and asks for no block that it has. *)
Others(p) == UNION {P \in Processes : p \in P} \ {p}
Turn(p) == \A q \in Others(p) : pc[q] \in {"idle", "use"}

bget(p) == \E blk \in Blocks \ {want[q] : q \in Others(p)} :
  bget_hit(p, blk) \/ bget_miss(p, blk)

Use(p) ==
  \/ bget(p) \/ acquiresleep(p) \/ iderw(p) \/ iderw_resume(p)
  \/ brelse(p) \/ brelse_put(p)
  \/ \E d \in Data : log_write(p, d) \/ bwrite(p, d)

(* panic() stops the machine. *)
Halt == panicked # {} /\ UNCHANGED vars

Next ==
  \/ panicked = {} /\ (ideintr \/ \E p \in Hands : kill(p) \/ (Turn(p) /\ Use(p)))
  \/ Halt

Spec == Init /\ [][Next]_vars

-----------------------------------------------------------------------------
TypeOK ==
  /\ Len(list) = NBUF /\ {list[i] : i \in 1 .. Len(list)} = Buf
  /\ \A b \in Buf : refcnt[b] = Cardinality({p \in Hands : buf[p] = b})
  /\ valid \subseteq Buf /\ dirty \subseteq Buf
  /\ \A b \in Buf : holder[b] \in Hands \cup {None} /\ data[b] \in Data \cup {None}
  /\ \A p \in Hands : pc[p] = "idle" <=> buf[p] = None

(* A block is in at most one buffer, and the buffer a process has waited   *)
(* for is still the one of its block: bget recycles none that is waited for*)
OneBufferPerBlock ==
  /\ \A b, c \in Buf : blockno[b] = blockno[c] /\ b # c => blockno[b] = None
  /\ \A p \in Hands : pc[p] # "idle" => blockno[buf[p]] = want[p]

(* Between acquiresleep and releasesleep one hand has the buffer alone.    *)
LockHolds ==
  \A b \in Buf :
    {p \in Hands : buf[p] = b /\ pc[p] \in {"rw", "io", "use"}} = {holder[b]} \ {None}

(* A buffer that may be read has what was last stored into its block, also *)
(* when the block was evicted and read again in between; and a block that  *)
(* is not in a dirty buffer is on the drive as it was last stored.         *)
Coherent ==
  /\ \A b \in valid : data[b] = latest[blockno[b]]
  /\ \A blk \in Blocks : disk[blk] = latest[blk] \/ Cached(blk) \cap dirty # {}

(* The driver's queue: no buffer twice, each one held by a process that    *)
(* waits for it, and the drive works on the first.                         *)
QueueSound ==
  /\ \A i, j \in DOMAIN idequeue : idequeue[i] = idequeue[j] => i = j
  /\ {idequeue[i] : i \in DOMAIN idequeue} = {buf[p] : p \in {q \in Hands : pc[q] = "io" /\ ~Done(buf[q])}}
  /\ IF idequeue = <<>> THEN active = None
     ELSE LET b == Head(idequeue) IN
          active = [block |-> blockno[b], out |-> IF b \in dirty THEN data[b] ELSE None]

(* Nobody sleeps on a lock that is free or on a request that has ended.    *)
SleepersWait ==
  \A p \in asleep : IF pc[p] = "lock" THEN holder[buf[p]] # None ELSE ~Done(buf[p])

(* No buffer is lost: bget runs out of them only when each one is in some  *)
(* hand or kept dirty for the log, hand for hand and block for block, and  *)
(* the other panics, of bwrite, brelse and iderw, are not reached.         *)
Busy == {p \in Hands : buf[p] # None}
Kept == dirty \ {buf[p] : p \in Hands}

NoBufferIsLost ==
  /\ panicked \subseteq {"bget: no buffers"}
  /\ Unused = {} => Cardinality(Busy) + Cardinality(Kept) >= NBUF

(* The cache loses no store and no buffer: reference counts are exact, what *)
(* is cached or on the drive is what was last stored, and bget panics only *)
(* for buffers that are all in use.                                        *)
CacheSound == TypeOK /\ NoBufferIsLost /\ Coherent

(* The driver and its clients agree on the requests under way, and each of *)
(* their ends wakes whoever waits for it.                                  *)
DriverSound == QueueSound /\ SleepersWait

=============================================================================
