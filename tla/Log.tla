-------------------------------- MODULE Log --------------------------------
(***************************************************************************)
(* The xv6 write-ahead log (log.c): file-system calls bracket their block  *)
(* writes with begin_op and end_op; the last call to end commits the whole *)
(* group to the on-disk log, installs it in place and clears the log;      *)
(* initlog replays a committed log after a crash.                          *)
(*                                                                         *)
(* A block's contents are the number of the call that wrote it last (0 for *)
(* what mkfs left).  One disk write of one block is one step.              *)
(***************************************************************************)
EXTENDS Naturals, Sequences, FiniteSets

CONSTANTS
  Procs,         \* processes making file-system calls
  Blocks,        \* home blocks: everything behind the log region
  MAXOPBLOCKS,   \* blocks that begin_op reserves for a call
  LOGSIZE,       \* entries of logheader.block[]
  NLog,          \* log.size: blocks of the on-disk log, header included
  OpBlocks,      \* distinct blocks that one call writes at most
  MaxOps,        \* bound: calls begun in a behaviour
  MaxCrashes     \* bound: crashes in a behaviour

ASSUME LogAssumption ==
  /\ IsFiniteSet(Procs)
  /\ MAXOPBLOCKS \in Nat \ {0}
  /\ LOGSIZE \in Nat
  /\ NLog \in Nat
  /\ OpBlocks \in Nat
  /\ MaxOps \in Nat
  /\ MaxCrashes \in Nat

(* param.h and the callers of log_write: a call writes fewer blocks than   *)
(* are reserved for it, since mkfs.c counts the header in the log's size   *)
(* and so LOGSIZE entries do not fit behind it.                            *)
ASSUME LogRoom ==
  /\ OpBlocks < MAXOPBLOCKS
  /\ OpBlocks + 2 <= LOGSIZE
  /\ LOGSIZE <= NLog

VARIABLES
  \* in memory
  up,            \* FALSE while initlog is recovering
  outstanding,   \* log.outstanding
  committing,    \* log.committing
  lh,            \* log.lh: block[0 .. n - 1]
  cache,         \* the buffer cache's view of every home block
  dirty,         \* blocks whose buffer has B_DIRTY set
  pc,            \* control state of every process
  op,            \* op[p]: the number of the call p is making
  written,       \* written[p]: blocks that call has modified
  buf,           \* buf[p]: blocks whose buffer p holds locked (at most one)
  tail,          \* the loop index of write_log and install_trans
  \* on disk
  home,          \* home blocks
  dlog,          \* log blocks after the header
  dhead,         \* the header block
  \* bounds
  nops, crashes

memory == <<up, outstanding, committing, lh, cache, dirty, pc, op, written,
            buf, tail>>
disk == <<home, dlog, dhead>>
vars == <<memory, disk, nops, crashes>>

Values == 0 .. MaxOps
CommitStates == {"write_log", "write_head", "install", "clear", "done"}
PcStates == {"idle", "begin", "sleep", "op", "record", "panic"}
              \cup CommitStates

\* Processes between begin_op and end_op; one that panics in log_write stays there.
InOp == {p \in Procs : pc[p] \in {"op", "record", "panic"}}
Entries(s) == {s[i] : i \in DOMAIN s}

(* mkfs leaves an empty log, and initlog finds it empty. *)
Init ==
  /\ up = TRUE
  /\ outstanding = 0
  /\ committing = FALSE
  /\ lh = << >>
  /\ home = [b \in Blocks |-> 0]
  /\ cache = home
  /\ dirty = {}
  /\ pc = [p \in Procs |-> "idle"]
  /\ op = [p \in Procs |-> 0]
  /\ written = [p \in Procs |-> {}]
  /\ buf = [p \in Procs |-> {}]
  /\ tail = 1
  /\ dlog = [i \in 1 .. LOGSIZE |-> 0]
  /\ dhead = << >>
  /\ nops = 0
  /\ crashes = 0

(* wakeup(&log) makes every sleeper test again. *)
Wakeup(f) == [p \in Procs |-> IF f[p] = "sleep" THEN "begin" ELSE f[p]]

(***************************************************************************)
(* begin_op: one turn of its loop, under log.lock.                         *)
(***************************************************************************)
Enter(p) ==
  /\ pc[p] = "idle"
  /\ nops < MaxOps
  /\ nops' = nops + 1
  /\ op' = [op EXCEPT ![p] = nops + 1]
  /\ pc' = [pc EXCEPT ![p] = "begin"]
  /\ UNCHANGED <<up, outstanding, committing, lh, cache, dirty, written, buf,
                 tail, disk, crashes>>

(* A slip of begin_op: the reservations of the calls under way are left out. *)
HasRoomForOne == Len(lh) + MAXOPBLOCKS <= LOGSIZE

HasRoom == Len(lh) + (outstanding + 1) * MAXOPBLOCKS <= LOGSIZE

BeginSleep(p) ==
  /\ pc[p] = "begin"
  /\ committing \/ ~HasRoom
  /\ pc' = [pc EXCEPT ![p] = "sleep"]
  /\ UNCHANGED <<up, outstanding, committing, lh, cache, dirty, op, written,
                 buf, tail, disk, nops, crashes>>

(* A slip of begin_op: it does not wait for a commit to end. *)
BeginOpAnyTime(p) ==
  /\ pc[p] = "begin"
  /\ HasRoom
  /\ outstanding' = outstanding + 1
  /\ written' = [written EXCEPT ![p] = {}]
  /\ pc' = [pc EXCEPT ![p] = "op"]
  /\ UNCHANGED <<up, committing, lh, cache, dirty, op, buf, tail, disk, nops,
                 crashes>>

BeginOp(p) ==
  /\ pc[p] = "begin"
  /\ ~committing
  /\ HasRoom
  /\ outstanding' = outstanding + 1
  /\ written' = [written EXCEPT ![p] = {}]
  /\ pc' = [pc EXCEPT ![p] = "op"]
  /\ UNCHANGED <<up, committing, lh, cache, dirty, op, buf, tail, disk, nops,
                 crashes>>

(***************************************************************************)
(* A call locks the buffer of b, changes it and calls log_write, whose two *)
(* panics are tested before log.lock is taken; log_write then enters b in  *)
(* the header, unless it is there, and pins the buffer; brelse follows.    *)
(***************************************************************************)
TooBig == Len(lh) >= LOGSIZE \/ Len(lh) >= NLog - 1

Modify(p, b) ==
  /\ pc[p] = "op"
  /\ b \in written[p] \/ Cardinality(written[p]) < OpBlocks
  /\ \A q \in Procs : b \notin buf[q]
  /\ buf' = [buf EXCEPT ![p] = {b}]
  /\ cache' = [cache EXCEPT ![b] = op[p]]
  /\ written' = [written EXCEPT ![p] = @ \cup {b}]
  /\ pc' = [pc EXCEPT ![p] = IF TooBig \/ outstanding < 1 THEN "panic"
                             ELSE "record"]
  /\ UNCHANGED <<up, outstanding, committing, lh, dirty, op, tail, disk, nops,
                 crashes>>

(* A slip of log_write: the buffer is not pinned with B_DIRTY. *)
LogWriteUnpinned(p) ==
  /\ pc[p] = "record"
  /\ \E b \in buf[p] :
       lh' = IF b \in Entries(lh) THEN lh ELSE Append(lh, b)
  /\ buf' = [buf EXCEPT ![p] = {}]
  /\ pc' = [pc EXCEPT ![p] = "op"]
  /\ UNCHANGED <<up, outstanding, committing, cache, dirty, op, written, tail,
                 disk, nops, crashes>>

LogWrite(p) ==
  /\ pc[p] = "record"
  /\ \E b \in buf[p] :
       /\ lh' = IF b \in Entries(lh) THEN lh ELSE Append(lh, b)
       /\ dirty' = dirty \cup {b}
  /\ buf' = [buf EXCEPT ![p] = {}]
  /\ pc' = [pc EXCEPT ![p] = "op"]
  /\ UNCHANGED <<up, outstanding, committing, cache, op, written, tail, disk,
                 nops, crashes>>

(* bget recycles a buffer nobody holds, and may read the block again. *)
Evict(b) ==
  /\ up
  /\ b \notin dirty
  /\ \A p \in Procs : b \notin buf[p]
  /\ cache' = [cache EXCEPT ![b] = home[b]]
  /\ UNCHANGED <<up, outstanding, committing, lh, dirty, pc, op, written, buf,
                 tail, disk, nops, crashes>>

(***************************************************************************)
(* end_op and commit.                                                      *)
(***************************************************************************)
EndOp(p) ==
  /\ pc[p] = "op"
  /\ outstanding' = outstanding - 1
  /\ committing' = (committing \/ outstanding' = 0)
  /\ tail' = 1
  /\ pc' = IF committing THEN [pc EXCEPT ![p] = "panic"]
           ELSE IF outstanding' = 0
             THEN [pc EXCEPT ![p] = IF lh = << >> THEN "done" ELSE "write_log"]
             ELSE Wakeup([pc EXCEPT ![p] = "idle"])
  /\ UNCHANGED <<up, lh, cache, dirty, op, written, buf, disk, nops, crashes>>

(* write_log: the cached block to its log block, one disk write each. *)
WriteLog(p) ==
  /\ pc[p] = "write_log"
  /\ dlog' = [dlog EXCEPT ![tail] = cache[lh[tail]]]
  /\ IF tail = Len(lh)
       THEN pc' = [pc EXCEPT ![p] = "write_head"] /\ tail' = 1
       ELSE tail' = tail + 1 /\ UNCHANGED pc
  /\ UNCHANGED <<up, outstanding, committing, lh, cache, dirty, op, written,
                 buf, home, dhead, nops, crashes>>

(* write_head: the point at which the transaction commits. *)
WriteHead(p) ==
  /\ pc[p] = "write_head"
  /\ dhead' = lh
  /\ pc' = [pc EXCEPT ![p] = "install"]
  /\ UNCHANGED <<up, outstanding, committing, lh, cache, dirty, op, written,
                 buf, tail, home, dlog, nops, crashes>>

(* install_trans: the log block to its home; bwrite clears B_DIRTY. *)
InstallBlock ==
  /\ home' = [home EXCEPT ![lh[tail]] = dlog[tail]]
  /\ cache' = [cache EXCEPT ![lh[tail]] = dlog[tail]]
  /\ dirty' = dirty \ {lh[tail]}
  /\ tail' = IF tail = Len(lh) THEN 1 ELSE tail + 1

InstallTrans(p) ==
  /\ pc[p] = "install"
  /\ InstallBlock
  /\ pc' = IF tail = Len(lh) THEN [pc EXCEPT ![p] = "clear"] ELSE pc
  /\ UNCHANGED <<up, outstanding, committing, lh, op, written, buf, dlog,
                 dhead, nops, crashes>>

(* log.lh.n = 0 and the second write_head. *)
ClearHead(p) ==
  /\ pc[p] = "clear"
  /\ lh' = << >>
  /\ dhead' = << >>
  /\ pc' = [pc EXCEPT ![p] = "done"]
  /\ UNCHANGED <<up, outstanding, committing, cache, dirty, op, written, buf,
                 tail, home, dlog, nops, crashes>>

(* A slip of end_op: nobody is woken after the commit. *)
EndCommitQuietly(p) ==
  /\ pc[p] = "done"
  /\ committing' = FALSE
  /\ pc' = [pc EXCEPT ![p] = "idle"]
  /\ UNCHANGED <<up, outstanding, lh, cache, dirty, op, written, buf, tail,
                 disk, nops, crashes>>

EndCommit(p) ==
  /\ pc[p] = "done"
  /\ committing' = FALSE
  /\ pc' = Wakeup([pc EXCEPT ![p] = "idle"])
  /\ UNCHANGED <<up, outstanding, lh, cache, dirty, op, written, buf, tail,
                 disk, nops, crashes>>

(***************************************************************************)
(* A crash loses the memory.  The next boot runs initlog: read_head first, *)
(* which changes memory only, then install_trans and the cleared header.   *)
(***************************************************************************)
Crash ==
  /\ crashes < MaxCrashes
  /\ crashes' = crashes + 1
  /\ up' = FALSE
  /\ outstanding' = 0
  /\ committing' = FALSE
  /\ lh' = dhead
  /\ cache' = home
  /\ dirty' = {}
  /\ pc' = [p \in Procs |-> "idle"]
  /\ op' = [p \in Procs |-> 0]
  /\ written' = [p \in Procs |-> {}]
  /\ buf' = [p \in Procs |-> {}]
  /\ tail' = 1
  /\ UNCHANGED <<disk, nops>>

RecoverInstall ==
  /\ ~up
  /\ lh # << >>
  /\ InstallBlock
  /\ lh' = IF tail = Len(lh) THEN << >> ELSE lh
  /\ UNCHANGED <<up, outstanding, committing, pc, op, written, buf, dlog,
                 dhead, nops, crashes>>

RecoverClear ==
  /\ ~up
  /\ lh = << >>
  /\ dhead' = << >>
  /\ up' = TRUE
  /\ UNCHANGED <<outstanding, committing, lh, cache, dirty, pc, op, written,
                 buf, tail, home, dlog, nops, crashes>>

Commit(p) ==
  \/ WriteLog(p)
  \/ WriteHead(p)
  \/ InstallTrans(p)
  \/ ClearHead(p)
  \/ EndCommit(p)

Call(p) ==
  \/ Enter(p)
  \/ BeginSleep(p)
  \/ BeginOp(p)
  \/ \E b \in Blocks : Modify(p, b)
  \/ LogWrite(p)
  \/ EndOp(p)

\* A panic stops every CPU.
Panicked == \E p \in Procs : pc[p] = "panic"

Next ==
  \/ /\ up /\ ~Panicked
     /\ \/ \E p \in Procs : Call(p) \/ Commit(p)
        \/ \E b \in Blocks : Evict(b)
  \/ RecoverInstall
  \/ RecoverClear
  \/ Crash

Spec == Init /\ [][Next]_vars

(***************************************************************************)
(* Properties.                                                             *)
(***************************************************************************)

TypeOK ==
  /\ up \in BOOLEAN
  /\ outstanding \in Nat
  /\ committing \in BOOLEAN
  /\ lh \in Seq(Blocks)
  /\ dhead \in Seq(Blocks)
  /\ cache \in [Blocks -> Values]
  /\ home \in [Blocks -> Values]
  /\ dlog \in [1 .. LOGSIZE -> Values]
  /\ dirty \subseteq Blocks
  /\ pc \in [Procs -> PcStates]
  /\ op \in [Procs -> Values]
  /\ written \in [Procs -> SUBSET Blocks]
  /\ buf \in [Procs -> SUBSET Blocks]
  /\ tail \in Nat \ {0}
  /\ nops \in 0 .. MaxOps
  /\ crashes \in 0 .. MaxCrashes

(* log.outstanding counts the calls between begin_op and end_op, and the   *)
(* one process that commits does so while there is none: log.c's claim     *)
(* that no commit ever sees half of a system call.                         *)
QuiescentCommit ==
  /\ outstanding = Cardinality(InOp)
  /\ committing => InOp = {}
  /\ \A p, q \in Procs :
       pc[p] \in CommitStates =>
         committing /\ (pc[q] \in CommitStates => p = q)

(* What begin_op reserves is enough: log_write never finds the log full,   *)
(* and no call ends while a commit is running.                             *)
NoPanic == ~Panicked

\* The disk that recover_from_log would produce if the system crashed now.
LastEntry(s, b) ==
  CHOOSE i \in DOMAIN s : s[i] = b /\ \A j \in (i + 1) .. Len(s) : s[j] # b

Recovered ==
  [b \in Blocks |-> IF b \in Entries(dhead) THEN dlog[LastEntry(dhead, b)]
                    ELSE home[b]]

(* Whatever the interleaving of calls and wherever the crashes (in the     *)
(* middle of a commit or of a recovery too), the recoverable disk changes  *)
(* only by whole groups of finished calls, and the calls that run after a  *)
(* recovery see exactly that disk.                                         *)
Atomic == INSTANCE AtomicDisk WITH
  durable <- Recovered,
  current <- IF up THEN cache ELSE Recovered,
  active  <- InOp

ImplementsAtomicDisk == Atomic!Spec

(* A process sleeps in begin_op only while it could not go on: the wakeups *)
(* of end_op, after the decrement for space and after the commit, leave    *)
(* nobody asleep who has nothing to wait for.                              *)
SleepersAreBlocked ==
  \A p \in Procs : pc[p] = "sleep" => committing \/ ~HasRoom

(* The log stays within what begin_op reserved for it: every state has the *)
(* shape of a log, and neither log_write nor end_op comes to its panic.    *)
WithinBounds == TypeOK /\ NoPanic

=============================================================================
