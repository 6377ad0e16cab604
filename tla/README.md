# Verification of the course operating-systems projects

This directory holds TLA+ specifications of the programs in `src/`, the TLC
configurations that check them and proofs for the TLA+ proof system. The
repository is seven independent programs:

| Part | Code | State | Hard behaviour |
|---|---|---|---|
| p1 utilities (`wman`, `wapropos`, `wgroff`) | `p1-unix-utilities/` | none between runs | none: sequential text filters |
| p2 xv6 with `getlastcat` | `p2-xv6-system-call/xv6-public/` | xv6's, and one remembered file name | as xv6 |
| p3 shell | `p3-custom-shell/wsh.c` | job table, process groups, foreground process | signal handlers and children that end at any moment |
| p4 xv6 with a multi-level feedback scheduler | `p4-xv6-custom-scheduler/xv6-public/` | process table, tick count, disk log, buffer cache, inodes, pipes | interrupts, sleep and wakeup, starvation, crashes |
| p5 xv6 with `mmap` | `p5-xv6-memory-management/xv6-public/` | xv6's, and a table of mappings for each process | page faults, fork and exit with shared mappings |
| p6 proxy server | `p6-concurrent-proxy-server/` | priority queue, mutex, condition variable, descriptors | threads, lost wakeups, descriptor reuse, partial failure |
| p7 log-structured file system | `p7-fuse-log-fs/` | one disk image, a log of entries | a full disk, stale log entries, compaction |

The three xv6 trees share almost all their code (`bio.c`, `ide.c`, `fs.c`,
`log.c`, `pipe.c`, `file.c` and `sleeplock.c` are the same to the byte). Each shared
file is modelled once: pipes, buffers and sleep locks with the p2 tree, whose
`wakeup` is the plain one, the log, the inodes and the scheduler with p4, the
mappings with p5. In p4 a process that was killed in `sleep()` may miss one
wakeup (`Mlfq_wakeup.cfg` below); the other modules take a wakeup as the plain one.

## Inventory

What each component must get right, and what models it.

| Component | Operations | Interacts with | Correct when | Module |
|---|---|---|---|---|
| proxy queue (`safequeue.c`) | `create_queue`, `add_work`, `get_work`, `get_work_nonblocking`, `peek` | all threads, under one mutex and one condition variable | priority order, arrival order among equals, bounded, no lost wakeup | `SafeQueue`, `ProxyServer` |
| proxy threads (`proxyserver.c`) | `request_listen`, `request_work`, `serve_request` | queue, client sockets, file server | each client answered at most once, on its own descriptor, descriptors closed | `ProxyServer`, `RequestService` |
| xv6 log (`log.c`) | `begin_op`, `log_write`, `end_op`, `commit`, `recover_from_log` | buffer cache, disk, every file-system call | a crash leaves all or nothing of a group of calls; nobody oversleeps; the log does not overflow | `Log`, `AtomicDisk` |
| xv6 scheduler and processes (`proc.c`, `trap.c`, `sysproc.c`) | `scheduler`, `yield`, `sleep`, `wakeup`, `fork`, `exit`, `wait`, `kill`, `nice`, `sys_sleep` | clock, disk interrupt | one process on the CPU, exact sleeps, no lost wakeup, no starvation by one process, killed processes end | `Mlfq` |
| WFS (`mount.wfs.c`, `fsck.wfs.c`, `mkfs.wfs.c`) | `mknod`, `mkdir`, `read`, `write`, `readdir`, `unlink`, `getattr`, compaction | the kernel's path walk | a path shows the tree that the calls made; a failed call changes nothing | `Wfs`, `FileTree` |
| xv6 mmap (p5 `sysproc.c`, `vm.c`, `trap.c`, `proc.c`) | `mmap`, `munmap`, page fault, `fork`, `exec`, `exit` | page tables, free list, TLB | mappings and guard pages disjoint, no page freed twice, lost or shared by accident, a child has its parent's data | `Mmap` |
| shell jobs (`wsh.c`) | lines, `fg`, `bg`, `jobs`, `exit`, signal handlers | child processes, process groups, terminal | the two tables agree, no child reaped twice or forgotten, the prompt comes back with the terminal | `Shell` |
| pipes (`pipe.c`, `file.c`) | `pipealloc`, `piperead`, `pipewrite`, `pipeclose` | processes, `fork`, `kill` | bytes in order, nobody oversleeps, the page freed once and last | `Pipe`, `Channel` |
| buffer cache, sleep locks, disk driver (`bio.c`, `sleeplock.c`, `ide.c`) | `bget`, `bread`, `bwrite`, `brelse`, `acquiresleep`, `iderw`, `ideintr` | log, inodes, interrupt | one buffer per block, one process in it, an evicted block read back as stored | `Bcache` |
| inodes, directories, path names (`fs.c`, `sysfile.c`) | `iget`, `ilock`, `iput`, `ialloc`, `namex`, `open`, `create`, `mkdir`, `link`, `unlink`, `chdir`, `close` | log, cache, processes | reference and link counts exact, nothing freed in use, everything freed in the end | `Inode` |
| memory (`kalloc.c`, `vm.c`) | `kalloc`, `kfree` | processes | a page has one owner | the free list in `Mmap` |
| console input (`console.c`) | `consoleintr`, `consoleread` | keyboard interrupt | typed lines in order | not modelled |
| `getlastcat` (p2 `sysfile.c`) | `sys_open`, `sys_read`, `sys_getlastcat` | one global buffer | the last name | not modelled |

Left aside: boot code, interrupt controllers, device registers, `exec` and the
system-call table (sequential, or hardware), user programs and tests, the
p1 utilities (text formatting).

## Plan

Done, in this order, the most important behaviour first:

1. `SafeQueue`, `ProxyServer`, `RequestService`: threads, refinement, liveness.
2. `Log`, `AtomicDisk`: crashes, refinement.
3. `Wfs`, `FileTree`: full disk, compaction, refinement.
4. `Mlfq`: scheduling, sleep and wakeup, liveness.
5. `ProxyServerProofs`: the operators of the queue, every safety invariant of the
   proxy, and that it implements `RequestService`.
6. `Mmap`: page tables, free list and TLB under fork, exec and the unlocked scan.
7. `Shell`: process groups, terminal and signals, liveness of the prompt.
8. `Pipe`, `Channel`: sleep and wakeup on a ring, refinement.
9. `Bcache`, `BcacheProofs`: buffers, sleep locks and the driver's queue, and proofs
   of all four invariants.
10. `Inode`: reference and link counts, lock order.
11. `LogProofs`: the invariants of the log, and that it implements `AtomicDisk`.
12. `PipeProofs`: the invariants of the pipe, and that the ring implements `Channel`.
13. `MlfqProofs`: who has the CPU, exact sleeps, no sleeper without a waker.
14. `ShellProofs`: the two tables, the waits and the prompt.
15. `InodeProofs`: reference counts, what is freed out of nobody's hand, deadlocks.
16. `MmapProofs`: all four invariants of the mappings and their pages.
17. The second half of `LogProofs`: the invariants of WFS, and that it implements
    `FileTree`.

Next, in this order: the order in which processes take two buffers (`Bcache`); the input
ring of the console; the block bitmap and `bmap` under `Inode`.

## Modules

A module `MCx` only gives constants of `x` small values. Operators whose comment
begins with "A slip" or "Slip" are mistakes somebody could make in the code; they are not
used by the specifications and serve to show that a property would notice.

### `SafeQueue`, `ProxyServer` (p6)

The array of `safequeue.c` is a sequence, `HighestIndex` the scan, `Without` the
shift loop. `pc[t]` is the place of a thread in `request_listen` or
`request_work`; acquiring the mutex is a step, the critical section with its
unlock the next, so that anything may happen in between. `cur[t]` is the request
a thread works on, `conn[f]` the connection open on descriptor `f`: `accept()`
may take any closed descriptor, as the kernel may after other threads closed
theirs. `pthread_cond_signal` wakes any one waiter, which must get the mutex
again; a waiter may also wake without a signal. `Serve` ends as `serve_request` does
(`Outcomes`): Bad Gateway, a reply that is relayed, or a file server that hangs up
before its first byte, after which the client is closed with nothing sent. `resp` and
`stolen` record what clients were sent and which requests a GetJob took. `main` takes any
`-q`, but the array has `MAX_QUEUE_SIZE` entries: the module is about those that fit.

`RequestService` is the service without threads: admitted requests pend in
order, whoever takes one takes the oldest of the most urgent, nobody is answered
twice. `ProxyServer` is checked to implement it (`ImplementsService`), with the
queue as `pending` and the workers between `get_work` and the end of
`serve_request` as `serving`.

### `Log`, `AtomicDisk` (p4)

`pc[p]` follows a process through `begin_op`, its changes of buffers, `log_write`
and `end_op`, and the committing one through the loops of `commit`, one disk write
a step. `cache` is the buffer cache, `dirty` the buffers pinned by `B_DIRTY`;
`Evict` recycles any other. The two panics of `log_write` are tested where the
code tests them, before the lock. `Crash` may come at any step and clears the
memory; `RecoverInstall` and `RecoverClear` are `initlog`, and may crash again.
A block's contents are the number of the call that wrote it last.

`AtomicDisk` has one disk that changes only as a whole and only while no call is
active. The refinement maps its `durable` to what a recovery would produce now.

### `Wfs`, `FileTree` (p7)

`log` is the list of entries up to `sb->head`, with sizes in words as `wfs.h`
lays them out, so that `Fits` is the code's test for space; `mkfs.wfs` makes no such
test, and `WfsAssumption` asks for the 13 words it writes. `Match`, `Scan` and
`find_log_entry_by_path` are the path scan with its offset, old versions of
directories included; `Without` is the loop over the dentries in `wfs_unlink`. Calls run one at a time, as `mount.wfs -s` does, and after
the kernel's own walk along the path. A call that fails after it has appended or
marked something keeps what it did. `Fsck` is the compaction loop. `inst` is the disk
and the bounds of a behaviour; `cut` marks one in which a call failed half done,
after which a listed name may lack its inode (`ListedNamesExist` says so).

`FileTree` is a tree of directories and files in which a call changes the path it
names and no other. `tree` records what `getattr` and `read` show of every path
after each call.

### `Mlfq` (p4)

One CPU, as the Makefile runs it (`CPUS := 1`). Critical sections under
`ptable.lock` are single steps because interrupts are off; a tick or a disk
interrupt may fall between any two others: between trap's first test of `killed` and the
call (`Trap`, then one of the calls at `pc = "call"`), and between the line in `sys_sleep`
that marks the process SLEEPING and its loop. A process that is killed just before that
line keeps the mark on its way to `exit` (`Marked`). A negative length of sleep is one too: `n`
is compared as unsigned, so it never ends (`Unslept`). `pass`, `hp` and `cursor` are the
scheduler's two loops, `sleepTicks`, `cpu`, `nice`, `priority` the fields of
`struct proc`, `want` and `elapsed` the local `n` and `ticks - ticks0` of
`sys_sleep`. Disk requests stand for every call that sleeps until an interrupt.
A process may be killed anywhere; `initproc` is not, as that panics. `inst` is the
instance a behaviour is of: slots, period, calls and bounds; it never changes.

### `Mmap` (p5)

The window from 0x60000000 to KERNBASE is `NWINDOW` pages of each process, `pte` its
translations, `tables` says who has page-table pages for it. `mapEntries` is the
table of `proc.h` up to `currentMappingIndex`; entries are never removed, only made
invalid. `freelist` is `kmem.freelist` in order and `content` what a physical page
holds: one datum, junk, or nothing new. A call is one step, since it works on the
process's own tables, except `munmap` and `exit`: they call `clearpte`, which drops
a translation and then looks through all page tables without a lock, one process a
step (`ScanNext`), before it frees the page (`ScanFree`). It may read the page table of
a slot that `allocproc` has just taken (`ScanEmbryo`): one that `wait` freed, or none.
`fork` is `Fork` (a slot in state `EMBRYO`), `ForkCopy` (`ptable.lock` is taken and the
child is runnable), a `CopyEntry` for each entry of the parent and a `CopyPage` for each
page of a private one, and `ForkEnd`; what does not need `ptable.lock` runs in between. `tlb` is what the CPU has
kept of the window's translations since `switchuvm`: `Write`, `Through` and `Kept` are
the processor's part. The history variables mark what known mistakes of the code
have touched: `lost` pages of failed calls and of searches that an `EMBRYO` slot misled, `torn` pages that exec freed under other
processes or that two `clearpte`s freed together, `bent` processes whose table and
page table have parted. The invariants say that nothing else goes wrong.

### `Shell` (p3)

`st[p]` follows a child from `fork` through `setpgid`, `tcsetpgrp` and `execvp` to its
end and `waitpid`; `grp`, `stopped`, `news` and `pending` are what the kernel keeps of
it. `pc` is the shell's place: the look at the background jobs, the prompt, the loop
that forks a pipeline, the waits of a foreground line and of `fg`. `Jobs` and `jobIDs`
are the two tables. Ctrl-C and Ctrl-Z strike the terminal's foreground group at any
moment; a child that has not called `execvp` yet has the shell's handlers, with
their effects (`Handlers`, `Struck`). A command reads from the child before it in the
line, may read the terminal (`Sigttin`) and ends when it likes. `strayed` marks
children that `exec`ed before the parent's `setpgid` came, which then fails, and
`early` a key that hit a line during its start.

### `Pipe`, `Channel` (p2)

`data`, `nread`, `nwrite`, `open` are `struct pipe`, `ref` the counts of its two
`struct file`s. A critical section of the pipe's lock is a step: a writer copies
what fits and then sleeps, returns or gives up; a sleeper starts its loop again.
`Channel` is a bounded queue of bytes with two ends, and `Contents` maps the ring
with its wrapping counters to it. `quiet` marks the one return that wakes nobody: a
writer that is killed, or has lost its reader, with bytes just put in the pipe.

### `Bcache` (p2)

`list` is the ring of buffers from the most to the least recently released,
`holder` the sleep lock of a buffer, `idequeue` the driver's queue and `active` the
command the drive works on, with the data it was given. `pc[p]` is `lock` between
`bget`'s release of `bcache.lock` and `acquiresleep`, `rw` before `iderw`, `io` in its
loop, `use` with the lock, and `put` between the two halves of `brelse`. A kill
wakes any sleeper, and the loops look again. `log_write` leaves at most `MaxDirty`
buffers dirty, as the log's reservation does. `latest` is what was last stored.
`Processes` is a set of sets: a process has a hand for each buffer it may have at once,
as `write_log` and `install_trans` have two, does one thing at a time (`Turn`) and asks for
no block that it has. `param.h` makes NBUF no more than LOGSIZE, so bget does run out of
buffers, and panics: `NoBufferIsLost` says that it does so only when each is in a hand or
dirty. That two processes with two buffers each can wait for each other is not excluded
by the cache and not checked here; the log and the inode locks above it order them.

### `Inode` (p4)

`type`, `nlink` and `dir` are the disk, `ref`, `lock` and `valid` the inode cache, which is
write-through. What a process does under one lock is a step; where `create`, `unlink`
and `dirlink` keep a lock and wait for another, the lock stays held between two
steps. `iput` is three steps: `iput_lock` looks at the counts under the inode's lock,
`iput_free` frees (the disk is waited for in between, with that lock only, and `iget` may hand the
inode out), and `iput_unref` gives the reference back. `create` is three steps after its
lookup: `create_alloc` (ialloc marks an inode on the disk), `create_iget` and, when it has
the new inode's lock, `create_fill`. `puts` are the
inodes a call has still to put, in order, `freeing` the processes between `iput_lock` and
`iput_free`, `chosen` the inode between ialloc's mark and its iget. `buried` marks inodes that were entered
into a directory already removed (neither `create` nor `link` looks at `dp->nlink`),
`crossed` those at which two iputs looked before either had given back, and `astray`
processes whose walk took the `".."` of a removed directory to an inode without links:
one that is free, that is being freed, or that `create` is just making.
The disk a behaviour begins with is any that mkfs and finished calls leave
(`InodeAssumption`): the directories are a tree (`NoCycles`), names lead to inodes in
use and `".."` to the parent (`Shaped`), and the link counts are exact (`Complete`).

## Runs

| Run | Instance | Shows |
|---|---|---|
| `proxy_serve` | 1 listener, 2 workers, 3 descriptors, queue of 2, 3 connections, a spurious wakeup | `TypeOK`, `NoCrossTalk`, `OnlyGetJobLeaks`, `WorkConserving`, `ClosedIsAccounted`, `ImplementsService`, `QueuedIsServed` |
| `log_crash` | 3 processes, 5 blocks, log of 6 with header, 2 crashes | `WithinBounds`, `QuiescentCommit`, `SleepersAreBlocked`, `ImplementsAtomicDisk` |
| `wfs_calls` | 6 paths three deep; 5 calls and a compaction with room enough, or 7 calls on a disk of 120 words | `TypeOK`, `LookupFollowsTree`, `NoAliases`, `ListedNamesExist`, `ImplementsTree` |
| `mlfq_calls` | 3 processes, all calls but nice | `Consistent`, `SleepIsExact`, `SleepersHaveWakers` |
| `mlfq_live` | 2 CPU-bound processes, nice 0 and 1, a period of 4 ticks; 3 processes that fork, wait and kill; 2 that use the disk and kill | `NoStarvation`, `KilledExits` |
| `mmap_calls` | 3 processes, a window of 4 pages, 3 physical pages, 5 calls | `PagesAccounted`, `OnlyTornAreFreeAndMapped`, `OnlySharedArePlural`, `MappingsSound` |
| `mmap_fork` (violated) | 2 processes, 4 pages of each kind, private mappings | finding 1 |
| `shell_jobs` | 3 process numbers, lines of up to 3 commands, 2 entries of the job table | `TablesSound`, `NeverWaitsInVain`, `PromptSound`, `ShellReturns` |
| `pipe_ring` | 3 processes, a ring of 2 bytes, counters modulo 4, writes of 3 bytes, reads of 1 and 3, a kill | `EndsSound`, `SleepersWait`, `ImplementsChannel` |
| `bcache_cache` | 2 processes, one with two hands, 4 blocks, 3 buffers, 2 contents, 3 dirty buffers | `CacheSound`, `OneBufferPerBlock`, `LockHolds`, `DriverSound` |
| `inode_calls` | 2 processes in `/a/b`, on one disk removed with its parent, 5 inodes, 3 calls on 5 paths | `RefsSound`, `LinksSound`, `FreedUnused`, `StopsExcused` |
| `inode_leak` (violated) | the same | finding 2 |

Some of these properties are conjunctions of parts with names of their own; a
comment in the module states each part, and TLC reports the whole:

| Property | Parts |
|---|---|
| `WithinBounds` (`Log`) | `TypeOK`, `NoPanic` |
| `Consistent` (`Mlfq`) | `TypeOK`, `CpuOwnerRuns` |
| `PagesAccounted`, `MappingsSound` (`Mmap`) | `TypeOK`, `NothingLeaks`; `MappingsApart`, `GuardsHold` |
| `TablesSound`, `PromptSound` (`Shell`) | `TypeOK`, `TablesAgree`; `NobodyForgotten`, `TerminalAtPrompt` |
| `EndsSound` (`Pipe`) | `TypeOK`, `NoUseAfterFree` |
| `CacheSound`, `DriverSound` (`Bcache`) | `TypeOK`, `NoBufferIsLost`, `Coherent`; `QueueSound`, `SleepersWait` |
| `RefsSound`, `LinksSound`, `StopsExcused` (`Inode`) | `TypeOK`, `RefsExact`; `LinksExact`, `NamesLead`, `Reclaimed`; `PanicsExcused`, `StuckInIput` |

Seven further configurations stand beside the runs. Each checks one promise of the
code or its documents that the program does not keep; TLC ends them with a
counterexample, described under "Findings":

| Configuration | Module | Violated |
|---|---|---|
| `Wfs_alias.cfg` | `MCWfs` | `NoAliases` |
| `Wfs_shared.cfg` | `MCWfs` | `LookupFollowsTree` |
| `Mlfq_sleep0.cfg` | `MCMlfq` | `TickPreempts` |
| `Mlfq_wakeup.cfg` | `MCMlfq` | `WakeupWakes` |
| `Shell_group.cfg` | `Shell` | `OneGroup` |
| `Inode_itrunc.cfg`, `Inode_deadlock.cfg` | `MCInode` | `ItruncUnlinked`, `NoDeadlock` |

### Why the bounds are enough

* Proxy: two workers race for the queue and with the listener, whose GetJob takes
  from it as well; with a queue of two it is empty, partly filled and full, and a
  descriptor is closed and reused while others are in the queue. The proofs remove
  the bounds for the invariants, several listeners included.
* Log: two calls of two blocks fit next to each other and the third waits for
  space or for the commit; five blocks are what a commit can hold; the second
  crash falls into the recovery from the first. A call writes one block less than
  MAXOPBLOCKS, because the log holds one block less than `param.h` says of
  LOGSIZE (`mkfs.c:25` counts the header in): with MAXOPBLOCKS blocks each, a log
  full of calls makes `log_write` panic. `LogRoom` names this; the proofs take it
  from there to every size.
* WFS: paths three deep exercise the scan's restart at an inner offset, and a
  disk of 120 words fills between the two appends of a create. Names are distinct
  in the passing run because of finding 3, and the disk that fills up is not
  compacted because of finding 4. The proofs take it from there to any paths and disks
  within those two limits.
* Mlfq: three processes are initproc, a parent and a child, which is enough for
  orphans. All instances but one recalculate at every tick with cpu counts
  of at most 1: priorities matter in the one with nice values, which counts to 8.
  `NoStarvation` excuses a process that is `Outranked`: by two processes with better
  nice values, or by one that stays ahead however much it is charged, by more than half
  the period. Both do starve it for ever, in the code too: with the period of 100
  ticks and nice up to 20, three processes at nice 0 that share the CPU settle at a
  priority near 17, and one at nice 20 never catches up. The run has nice values 0 and 1
  and a period of 4, so that nobody in it is outranked by one process alone.
* Mmap: with three physical pages memory runs out in every call that allocates; the
  window of four pages has room for two mappings with a guard page between; three
  processes let two `clearpte`s overlap while a third has the page. Five calls reach
  fork, exec and exit after two mappings.
* Shell: three commands make a line with a first, a middle and a last one; two job
  entries are enough for `fg` to choose between two jobs. A third line would only
  add entries, since the tables forget nothing but in the end of a job.
* Pipe: the counters go round twice the ring and wrap; a write is longer than the
  ring, so it blocks half done; two readers or two writers share an end.
* Bcache: four blocks do not fit into three buffers, so that every block is evicted;
  three hands or three dirty blocks take all buffers, as in the code, and bget panics.
* Inode: three calls overlap in pairs and in chains (unlink, unlink, open is what a
  freed `".."` takes). The paths reach every directory of the tree, from the root and
  from the working directory, with `".."`.

### Fairness

* Proxy: every thread that can go on does, and the file server answers; clients
  owe nothing. There are finitely many contenders for the mutex, which is why
  weak fairness of a thread suffices.
* Shell: the shell takes its steps when it can, and a child that has started goes on
  and ends, unless it is stopped; users owe no key.
* Mlfq: the scheduler runs, the clock ticks, the disk answers and a process in
  the kernel goes on. Processes owe nothing in user mode: they may loop for ever.
  The liveness run excludes a tick in the few microseconds between two passes of
  a busy scheduler (`GapTicks`), since all ticks could otherwise fall there.

## Findings

Checked by the violated runs:

1. `fork` of p5 copies private pages through a temporary address and clears its
   entry without flushing the TLB. The second private mapping gets the same address,
   the copy goes to the first page, and the child's second page holds junk.
2. `iput` decides on a count it read before it gives its own reference back. Two
   processes that put the last two references of an unlinked file both read 2: the
   file stays allocated without a name, its blocks with it, until the next mkfs.

Kept as counterexamples beside the runs:

3. `Wfs_shared.cfg`: `find_log_entry_by_path` scans the whole log, so a name used in
   two directories may resolve to the wrong one (README of p7 describes a walk).
4. `Wfs_alias.cfg`: a create that fails for lack of space leaves its name in the
   parent; the next create, after a compaction, gives the same inode number away.
5. `Mlfq_sleep0.cfg`: after `sleep(0)` a process runs in user mode in state SLEEPING
   and keeps the CPU over every tick.
6. `Mlfq_wakeup.cfg`: a process killed in `sleep()` keeps its tick count, and the next
   wakeup, from the disk, does not wake it; if that is the one in `exit`, it never
   ends.
7. `Shell_group.cfg`: only the parent moves the second and later commands of a line
   into the group. One that has called `execvp` by then stays in the shell's group,
   where neither Ctrl-C nor the table reaches it.
8. `Inode_itrunc.cfg`: a directory may be removed while a removed child directory,
   in which a process still is, has it as `".."`. Its inode is freed although an entry
   refers to it (`fs.c:403` says otherwise), and `open("..")` panics. If the inode is
   allocated again meanwhile, the process's iput frees what `create` is making, and the
   panic comes in `create`, which never followed the `".."`.
9. `Inode_deadlock.cfg`: `create` puts the parent while the new inode is locked, and
   `unlink` waits for an inode with the parent locked. `unlink` itself puts the parent
   with the inode locked, and `link(f, ".")` waits for itself in `dirlink`.
   `StuckInIput` shows that an iput under a lock is in every deadlock.

Seen on the way: `kill(0)` marks an unused slot, whose next child is born killed;
`getpschedinfo` packs used slots together although `psched.h` speaks of slots;
`get_work` cannot choose a request of negative priority and then reads
`requests[-1]`; `serve_request` leaks a descriptor when `connect` fails, and closes a client without an
answer when the file server hangs up before its first byte; a `-q` above 1000 is not refused
and overruns the array of requests; a process killed between trap's test and `sys_sleep`
goes through `exit` in state SLEEPING; `bget` may panic for a log that is full, as NBUF is
LOGSIZE; a pipe writer
that gives up wakes no reader although it has filled the pipe; `mmap` loses its pages
on the error returns after the allocation, writes behind `mapEntries` in its 101st
call, and reads files, as `fork` copies pages, through buffers larger than the kernel
stack; `munmap` of more pages than were mapped panics in `kfree`; a mapping that grows
without memory maps what lies behind the memory; `exec` frees shared pages under
other processes and keeps the table of mappings; a disk read that fails leaves a
valid buffer of junk; the 257th job of a shell is written behind its table.

## Proofs

`ProxyServerProofs` first proves what the queue's operators do for queues of any length:
the scan of a non-empty queue ends at the oldest of the most urgent
(`HighestIndexExists`, by the least element of a set of naturals, since induction
over sequences is not needed), and the shift loop drops one and keeps order
(`WithoutProperties`).

It then proves every safety invariant of `proxy_serve`, for any
finite set of workers, any listeners, descriptors, connections, priorities and any
`max_queue_size` up to `MAX_QUEUE_SIZE` (`ProxyAssumption`). The inductive invariant `IInv` is
the conjunction of `TypeOK`, `NoCrossTalk`, `OnlyGetJobLeaks`, `WorkConserving`,
`ClosedIsAccounted` and two facts about control: `HoldingOK` (a thread has a
request exactly in the states between accept or take and close), without which
two owners of a descriptor could not be excluded, and `ClosingOK` (a worker about
to close has come to one of the ends of `serve_request`), without which `Close` would
not preserve `ClosedIsAccounted`. There is one lemma per invariant, with one step per action
that can disturb it; `WorkConserving` counts workers with the cardinality
theorems. The mutex is not needed: each critical section is one step.

It proves as well that the proxy implements `RequestService`
(`ImplementsRequestService`), from the same assumption. Its invariant `SInv` adds
three facts to `IInv`: no two descriptors carry the same connection, connections
not accepted yet have no answer, and a request that is queued or in hand is
unanswered until its worker is about to close it. With them `StepImplements` maps
each step: `AddWork` admits, `Reply` refuses, `GetTake` starts and `GetJobTake`
hands out the oldest of the most urgent, `Serve` finishes, and every other step
changes nothing the service sees.

`BcacheProofs` proves, for any finite set of processes, each with any number of hands, and any number of blocks and
buffers (`BcacheAssumption`), that a block is in one buffer and a buffer that is
waited for keeps its block (`BlocksApart`), and that a sleep lock has one process in
its buffer (`OneHolder`). `OneBufferPerBlock` is not inductive: `bget` recycles a buffer
because its `refcnt` is 0, so the invariant has to say that `refcnt` counts the
processes with a reference (`Counted`), by the cardinality theorems, and that a lock
is held by one of those (`Locked`). One lemma per action that touches these parts;
`KeepIInv` serves the three that only move a process on.

`NoStoreIsLost` and `DriverServes` are about data and the driver's queue. Their
invariant says which flags a buffer has at each place of the process that holds it,
that a buffer is dirty only if it is valid, that the queue holds the buffers of the
processes that wait in `iderw` and no other, once each, and that the drive's command is
its head, so that the interrupt finds the request it has served (`TransferDone`).
`NoBufferIsLost` counts: a buffer that cannot be recycled is in some hand, at most one each,
or pinned by the log, so when there is none left the hands and the pinned ones are NBUF.

`LogProofs` proves the invariants of `log_crash` for any finite set of processes, any
blocks and any sizes that satisfy `LogAssumption` and `LogRoom`: a call writes fewer
blocks than are reserved for it, one call leaves two entries of the log free, and
LOGSIZE is no more than the log's blocks. Its invariant `IInv` adds to the checked
properties where the loops of `commit` are (`LoopOK`), that nobody calls before
`initlog` is done (`DownOK`), that what a call has modified is in the header or in
the buffer it holds (`CallOK`), and `Room`. `HasRoom` is a test at one moment, but
`log_write` comes later and others write in between; so `Room` counts the entries
the calls under way may still take. `Slots` is a set of pairs of a call and a number
up to `OpBlocks`, of which a call loses one with each block that is new to the
header. `begin_op` adds no more pairs than it reserved (`ProductBound`), `log_write`
takes one away for the entry it adds, and two entries always stay free, which is
what the test against `NLog - 1` needs.

`LogIsAtomic` says that `Log` implements `AtomicDisk`, from the same
assumptions: crash atomicity for any number of calls and crashes. `AInv` adds
to `IInv` that no block is twice in a header and the header on disk is `lh` exactly
between the two `write_head`s (`HeadOK`), how far the loops have copied (`CopiesOK`),
that a change which is not at home yet is in the header or a locked buffer and its
buffer pinned (`PinsOK`, without which an eviction would lose it), and how far a
recovery has come (`ReplayOK`). `Replay` is the disk a header, a log and home
blocks stand for; `ReplayIs` and `ReplaySame` say when it does not change, and
`StepAtomic` maps each step: `WriteHead` is the commit, every other disk write a
stutter.

The second half of `LogProofs` proves the four invariants of `wfs_calls` and that WFS
implements `FileTree`, for any paths, offsets and data, and disks of any size from 13
words (`WfsAssumption`). `WholeLog`, that the log is made of whole entries and ends on
the disk, needs nothing else. The others have two hypotheses, which are the borders of
findings 4 and 3: `NoFsckAfterCut`, that nobody compacts a disk on which a call was cut
short, and `NamesApart`, that no name is used twice in the tree; the run keeps to both.

Every scan of `mount.wfs.c` is a loop over the log, and induction over sequences is out
of the prover's reach. `LoopRuns` and `LoopOnce` say instead that a loop of a number of
rounds has one course: the first round that would go wrong, the least element of a set of
numbers, does not exist. From them come `LogHeadAppend` (an entry moves the head by its
size), `SizeOfSome` (keeping some entries takes no more room), `CompactedIs` (what the
loop of `fsck.wfs` leaves), `WithoutIs` (what that of `wfs_unlink` leaves) and
`LookupRuns` (the places the path scan comes to).

The invariant has two layers. `Steady` is about numbers: the entries of an inode are all
of one kind, all deleted or none, and directories are never deleted, so that the last
entry of an inode is its latest. `Placed` is about paths: some function gives each inode
that is found a path of its own, every dentry in every version of a directory, old ones
too, that names an inode found names it as that path does, and the latest version of its
parent lists it once. Old versions must be in it because the scan reads them:
`LookupStep` shows that the first match, wherever it stands, is the inode of the path,
and `WalkStep` the same for a walk from the root, so both end in one place
(`LookupWalks`). `PlacedVersion`, `PlacedNew`, `PlacedDelete` and `PlacedCompacted` say
how a new version, a new inode, the marks of unlink and the compaction keep it.
`TreeInv` adds what is between the two parts of a call: unless one was cut short, every
number listed is found (`AllFound`), and a number not given yet is listed only when no
entry fits any more (`Ahead`, `Full`), because otherwise the next create would give it
to another name. That is why a cut create does no harm until a compaction makes room.
`MakeMaps`, `WriteMaps`, `UnlinkMaps` and `FsckMaps` map the steps: a create that is cut
short and a compaction are stutters, an unlink is one in either case.

`PipeProofs` proves every safety property of `pipe_ring` for any finite set of
processes, any ring, any strings and sizes, and any `WRAP` that is greater than
PIPESIZE and a multiple of it (`PipeAssumption`; 2^32 and 512 are such). The
multiple is needed: `nread` and `nwrite` wrap, and only then does a turn of the
counter keep the place `% PIPESIZE` (`ModTurn`); the ring being smaller than `WRAP`
keeps the places of the bytes in it apart (`PlacesApart`). `RingWrite` and `RingRead`
say what the copy loops do to the string the ring stands for: they append, or take
away, a piece. `PInv` is inductive: besides the types it says that no more than
PIPESIZE bytes are in the ring (`InBounds`), that an end is open exactly while
somebody holds it (`RefsCount`), that whoever is in a call holds its end
(`CallsHold`, from which `EndsSound` follows: nobody is in a pipe that is freed), and
`SleepersWait`. `PipeIsChannel` maps a copy to one `Send` or `Receive`, the close of the
last descriptor to the closing of the end, and every other step to a stutter.

`MlfqProofs` proves the invariants of `mlfq_calls` for a table of any size, any nice
values, passes and lengths of sleep (`MlfqAssumption`), with one hypothesis,
`SleepsAreLong`: nobody calls `sleep(0)`, after which a process in user mode is
SLEEPING (finding 5). `MInv` adds to the three properties what they rest on: a
process in the window of `sys_sleep` has the CPU and its whole count
(`SleepEntered`), since a tick may come before `sleep()`; a slot without a process is
in no call and has no parent (`VacantSlots`); an embryo belongs to one fork
(`ForksApart`); nobody is its own parent, and initproc lives and is never killed
(`Family`), so that an orphan has somebody to wake; the channel is the one of the
call (`ChansMatch`), without which a wakeup could count down the wrong sleep; and no
count is left behind but by the kill of a sleeper (`NoTicksLeft`), which is finding 6 and why
`SleepersHaveWakers` excludes the killed. One lemma per action, one step per
conjunct; the tick and `exit` take most of the work, as they change several slots.

`ShellProofs` proves the invariants of `shell_jobs` for any number of children, jobs
and commands. `TablesAgree` is not inductive: `fork` may reuse the number of a child
that was reaped, and a job would then speak of a stranger. `JobsApart` and `Leaders` keep
two jobs from one process and tie a job to the group of its first child, and
`GroupsPresent` says that the number of a group somebody is in is not free. That
`storeJobInfo` finds an ID is a pigeonhole argument over the IDs in use (`AnIdIsFree`).
For `NeverWaitsInVain` and `PromptSound`, `LineProcs` says that the children of the line
being started are in its group or strayed, and `Accounted` that each child not yet
reaped is in a job of the table, in the line the shell is busy with, or strayed.

`InodeProofs` is for any finite set of processes, any names and inodes, any paths and any disk
that satisfies `InodeAssumption`. `InodeInv` has what each place of a call holds (`InPlace`), that
an inode is locked exactly between the steps that keep it (`Locked`), that `ref` is
the cardinality of the set of pointers to an inode (`Counted`; the count is taken per
process, `CountMoves` moves one pointer), that what was learnt under a lock stays true
(`Learnt`), and that of an inode that an iput is freeing nobody has more than a reference it
has not locked (`Cleared`). `Marked` is about the inode between ialloc's mark and its iget.
`RefsSound` follows (`ReferencesExact`). So does the first part of `FreedUnused`
(`NothingFreedInHand`): when `iput_lock` reads `ref` 1 it is the only process with a pointer, and
whoever gets one by iget before `iput_free` cannot lock the inode, which is locked.
For deadlocks, `unlink` and `create` are the calls that wait for an inode with another one
locked and without an iput, always from a directory to what it names or is about to name.
`HasRank` gives the inodes numbers that grow along names; it is kept by moving an inode
that gets a name above all others, a new one or a file. In a circle of waiting processes,
of any length, the one with the highest rank would wait for a higher one (`HighestRank`),
so some process in it is in an iput with another inode locked (`DeadlocksAreOfIput`).

`MmapProofs` proves the four invariants of `mmap_calls` for any number of processes and
pages, any window, lengths, flags and TLB (`MmapAssumption`). `MmapInv` has four parts
beyond types and slots. `PageInv` is about pages: the free list has a page once and no
page that is mapped or searched for, unless `torn`; and of the search of `ispamapped` it says
(`SearchOK`) that a page is searched for by one process, and that whoever maps it is, or
has a partner that is, at a slot the search has still to pass. This is why the scan
needs no lock: `fork` copies a translation to a slot the search may have passed, but only
one that the parent still has, so that the search meets the parent or a partner of it.
When a partner drops the page meanwhile (exec, or another clearpte), the search may free a
page in use, or two searches free it twice; those pages are `torn`. `Maps` is about one process:
`Filled` says that the pages of an entry are there, but for those munmap has cleared,
without which `canallocatva`, which looks at pages and guard pages and never at entries,
would not keep mappings apart; `Unmaps` where the loop of munmap is; `Kinds` that what fork
will share was allocated to be shared. `Forks` gives each fork a slot of its own and lets
one copy at a time, which is all that `ptable.lock` does here. `Copying` says that the child of a fork has pages only where its entries are and that these are
earlier entries of the parent, so that the next finds its addresses free. `bent` excuses
from the second part of `Maps` those processes whose table and page table exec, an overlong munmap
or a fork that ran out of memory have parted. A lemma says what each kind of step does
to pages (`TakesPages`, `LosesPages`, `ClearsPage`, `FreesPage`, `FreesAll`, `SharesPages` ...) and
to mappings (`AddsEntry`, `FillsMaps`, `MapsKept`); there is one lemma per action.

Model-checked only: the liveness properties (the prover has no fairness reasoning).
Of `Inode`, `LinksSound`, `PanicsExcused` and the part of `FreedUnused` that has a condition
are only model-checked. Every other invariant and every refinement of the passing runs is
proved. `ForkCopies` is not among what is proved of `Mmap`, since it does not hold.

## Not modelled

* Text (HTTP, command lines, the characters of names), times and owners of files,
  the contents of inodes.
* The block bitmap, `bmap`, `readi` and
  `writei`, the 50 slots of the inode cache, and `exec`.
* The address space outside the mmap window (`allocuvm`, `copyuvm`, `loaduvm`): private
  to a process and sequential.
* In `Mmap`, failures of `kalloc` for page tables and in `copyuvm`, and the write-back of
  `munmap` to files.
* More than one CPU in `Mlfq`; the descriptors of the file server; a crash of
  `mount.wfs` or `fsck.wfs` in the middle of a memcpy; a drive that reports errors.
* Boot code, interrupt controllers, console, serial line, `getlastcat`, spin locks
  below their critical sections, and every user program.

Much of `src/` is out of reach by its nature. The three copies of xv6 hold the same
kernel, of which each file is modelled once; more than half of every copy is user
programs, tests, boot code, device registers and tables. The modules cover the
concurrent and persistent core, and a second mapping of the same file in another
tree would show nothing new.
