-------------------------------- MODULE Mlfq --------------------------------
(***************************************************************************)
(* The xv6 scheduler of p4 (proc.c, trap.c, sysproc.c) on one CPU, as the  *)
(* Makefile runs it: the multi-level feedback scheduler with nice values,  *)
(* clock ticks, sleep with a tick count per process, and the calls that    *)
(* create, end, block and wake processes.                                  *)
(*                                                                         *)
(* Interrupts are off while ptable.lock is held, so a critical section is  *)
(* one step; a tick or a disk interrupt falls between steps.  Processes    *)
(* are known by their slot in ptable.proc; slot 1 is initproc.             *)
(***************************************************************************)
EXTENDS Integers, FiniteSets

CONSTANTS
  NPROC,      \* slots of the largest process table
  GapTicks,   \* may a tick fall between two passes of the busy scheduler?
  Instances   \* the systems that are checked, each a record of
              \*   slots : slots of its process table
              \*   period : ticks between two runs of updatepriorities (100)
              \*   nices : arguments of nice within its bounds (0 .. 20)
              \*   sleeps : arguments of sleep
              \*   calls : which of the calls below processes make
              \*   maxcpu : bound, cpu counts no further than this

ASSUME MlfqAssumption ==
  /\ NPROC \in Nat \ {0}
  /\ GapTicks \in BOOLEAN
  /\ \A i \in Instances :
       /\ i.slots \in 1 .. NPROC
       /\ i.period \in Nat \ {0} /\ i.maxcpu \in Nat
       /\ i.nices \subseteq Nat /\ i.sleeps \subseteq Int
       /\ i.calls \subseteq {"fork", "nice", "sleep", "io", "exit", "wait", "kill"}

Slots == 1 .. NPROC
initproc == 1

VARIABLES
  inst,      \* the system of this behaviour: one of Instances
  state, priority, nice, cpu, sleepTicks, chan, killed, parent, \* struct proc
  proc,      \* c->proc: the slot on the CPU, 0 in the scheduler
  pass,      \* TRUE in the scheduler's second loop (ptable.lock held)
  hp,        \* highestPriority of this pass
  cursor,    \* the last slot the second loop has looked at
  tick,      \* ticks % PERIOD
  pc,        \* where each process is in its code
  want,      \* want[p]: the argument n of p's sys_sleep
  elapsed,   \* elapsed[p]: ticks - ticks0 in p's sys_sleep, at most want[p]
  io,        \* io[p]: p's disk request is outstanding
  child      \* child[p]: the slot fork has allocated for p

Table == 1 .. inst.slots
PERIOD == inst.period
NiceValues == inst.nices
SleepLens == inst.sleeps
Calls == inst.calls
MaxCpu == inst.maxcpu

procs == <<inst, state, priority, nice, cpu, sleepTicks, chan, killed, parent>>
sched == <<proc, pass, hp, cursor>>
calls == <<want, elapsed, io, child>>
vars == <<procs, sched, tick, pc, calls>>

States == {"UNUSED", "EMBRYO", "SLEEPING", "RUNNABLE", "RUNNING", "ZOMBIE"}
Pcs == {"user", "call", "fork", "sleep", "ticks", "io", "wait", "exit", "exit_io"}

NoChan == <<"none", 0>>
TicksChan == <<"ticks", 0>>
Chans == {NoChan, TicksChan} \cup ({"io", "wait"} \X Slots)

InUse == {p \in Slots : state[p] # "UNUSED"}

(* userinit: initproc is runnable, the other slots are zeros. *)
Init ==
  /\ inst \in Instances
  /\ state = [p \in Slots |-> IF p = initproc THEN "RUNNABLE" ELSE "UNUSED"]
  /\ priority = [p \in Slots |-> 0]
  /\ nice = [p \in Slots |-> 0]
  /\ cpu = [p \in Slots |-> 0]
  /\ sleepTicks = [p \in Slots |-> 0]
  /\ chan = [p \in Slots |-> NoChan]
  /\ killed = [p \in Slots |-> FALSE]
  /\ parent = [p \in Slots |-> 0]
  /\ proc = 0
  /\ pass = FALSE
  /\ hp = 0
  /\ cursor = 0
  /\ tick = 0
  /\ pc = [p \in Slots |-> "user"]
  /\ want = [p \in Slots |-> 0]
  /\ elapsed = [p \in Slots |-> 0]
  /\ io = [p \in Slots |-> FALSE]
  /\ child = [p \in Slots |-> 0]

(***************************************************************************)
(* scheduler: the first loop finds the highest priority (lowest number) of *)
(* a runnable process; the second switches to every runnable process that  *)
(* has that number when the loop comes to it.                              *)
(***************************************************************************)
Runnable == {p \in Slots : state[p] = "RUNNABLE"}

StartPass ==
  /\ proc = 0 /\ ~pass
  /\ Runnable # {}
  /\ pass' = TRUE
  /\ cursor' = 0
  /\ \E p \in Runnable :
       /\ \A q \in Runnable : priority[p] <= priority[q]
       /\ hp' = priority[p]
  /\ UNCHANGED <<procs, proc, tick, pc, calls>>

Candidates == {p \in Runnable : p > cursor /\ priority[p] = hp}

Dispatch(p) ==
  /\ proc = 0 /\ pass
  /\ p \in Candidates
  /\ \A q \in Candidates : p <= q
  /\ state' = [state EXCEPT ![p] = "RUNNING"]
  /\ proc' = p
  /\ cursor' = p
  /\ UNCHANGED <<inst, priority, nice, cpu, sleepTicks, chan, killed, parent, pass,
                 hp, tick, pc, calls>>

EndPass ==
  /\ proc = 0 /\ pass
  /\ Candidates = {}
  /\ pass' = FALSE
  /\ UNCHANGED <<procs, proc, hp, cursor, tick, pc, calls>>

(* swtch back to scheduler, which charges the process that just ran. *)
Charged(n) == IF n < MaxCpu THEN n + 1 ELSE n

Swtch(p) ==
  /\ proc' = 0
  /\ cpu' = [cpu EXCEPT ![p] = Charged(@)]
  /\ UNCHANGED <<inst, pass, hp, cursor>>

(* wakeup1(c), applied to the states and sleep counts of the moment. *)
Asleep(st, c) == {p \in Slots : st[p] = "SLEEPING" /\ chan[p] = c}

CountDown(st, c) ==
  [p \in Slots |-> IF p \in Asleep(st, c) /\ sleepTicks[p] > 0
                   THEN sleepTicks[p] - 1 ELSE sleepTicks[p]]

\* A slip: the wakeup1 of plain xv6, which knows no sleepTicks.
WokenAtOnce(st, c) ==
  [p \in Slots |-> IF p \in Asleep(st, c) THEN "RUNNABLE" ELSE st[p]]

Woken(st, c) ==
  [p \in Slots |-> IF p \in Asleep(st, c) /\ CountDown(st, c)[p] <= 0
                   THEN "RUNNABLE" ELSE st[p]]

(***************************************************************************)
(* Interrupts: a clock tick, and the end of a disk request (ideintr).      *)
(***************************************************************************)
InterruptsOn == proc # 0 \/ ~pass

\* A slip: the priority is the nice value alone.
RecalculatedFromNice(p) == nice[p]

\* calculatepriority halves cpu first.
Recalculated(p) == (cpu[p] \div 2) \div 2 + nice[p]

InSleep(p) == pc[p] = "ticks" /\ state[p] # "UNUSED"

(* The timer case of trap; yield when the process on the CPU is RUNNING. *)
Tick ==
  LET last == (tick + 1) % PERIOD = 0
      halved == [p \in Slots |-> IF last /\ p \in InUse THEN cpu[p] \div 2
                                 ELSE cpu[p]]
      woken == Woken(state, TicksChan)
      dies == proc # 0 /\ pc[proc] = "user" /\ killed[proc]
      yields == proc # 0 /\ ~dies /\ state[proc] = "RUNNING"
  IN
  /\ InterruptsOn
  /\ proc = 0 /\ Runnable # {} => GapTicks
  /\ tick' = (tick + 1) % PERIOD
  /\ priority' = [p \in Slots |-> IF last /\ p \in InUse THEN Recalculated(p)
                                  ELSE priority[p]]
  /\ sleepTicks' = CountDown(state, TicksChan)
  /\ elapsed' = [p \in Slots |-> IF InSleep(p) /\ elapsed[p] < want[p]
                                 THEN elapsed[p] + 1 ELSE elapsed[p]]
  /\ pc' = IF dies THEN [pc EXCEPT ![proc] = "exit"] ELSE pc
  /\ IF yields
       THEN /\ state' = [woken EXCEPT ![proc] = "RUNNABLE"]
            /\ cpu' = [halved EXCEPT ![proc] = Charged(@)]
            /\ proc' = 0
       ELSE /\ state' = woken
            /\ cpu' = halved
            /\ UNCHANGED proc
  /\ UNCHANGED <<inst, nice, chan, killed, parent, pass, hp, cursor, want, io, child>>

DiskInterrupt(p) ==
  /\ InterruptsOn
  /\ io[p]
  /\ io' = [io EXCEPT ![p] = FALSE]
  /\ state' = Woken(state, <<"io", p>>)
  /\ sleepTicks' = CountDown(state, <<"io", p>>)
  /\ UNCHANGED <<inst, priority, nice, cpu, chan, killed, parent, sched, tick, pc,
                 want, elapsed, child>>

(***************************************************************************)
(* System calls of the process on the CPU.  trap turns a killed process to *)
(* exit before and after every call; interrupts are on in between, so a    *)
(* process may be preempted and killed after the first test.               *)
(***************************************************************************)
Goto(p, at) == pc' = [pc EXCEPT ![p] = at]

\* The first test of trap: p goes on to syscall().
Trap(p) ==
  /\ proc = p
  /\ pc[p] = "user"
  /\ ~killed[p]
  /\ Goto(p, "call")
  /\ UNCHANGED <<procs, sched, tick, calls>>

Call(p, name) ==
  /\ name \in Calls
  /\ proc = p
  /\ pc[p] = "call"

\* A call that changes nothing here: it fails, or is none of those below.
OtherCall(p) ==
  /\ proc = p
  /\ pc[p] = "call"
  /\ Goto(p, "user")
  /\ UNCHANGED <<procs, sched, tick, calls>>

\* A slip: sleep() leaves the state to its caller.
BlockAwake(p, c) ==
  /\ chan' = [chan EXCEPT ![p] = c]
  /\ UNCHANGED state
  /\ Swtch(p)

\* sleep(c, lk): p leaves the CPU.
Block(p, c) ==
  /\ chan' = [chan EXCEPT ![p] = c]
  /\ state' = [state EXCEPT ![p] = "SLEEPING"]
  /\ Swtch(p)

\* p is on the CPU again after sleep(), which clears chan.
Resumed(p, at) == proc = p /\ pc[p] = at

Nice(p, n) ==
  /\ Call(p, "nice")
  /\ nice' = [nice EXCEPT ![p] = n]
  /\ Goto(p, "user")
  /\ UNCHANGED <<inst, state, priority, cpu, sleepTicks, chan, killed, parent, sched,
                 tick, calls>>

(* sys_sleep marks itself SLEEPING before it takes any lock or looks at    *)
(* killed ...                                                              *)
SysSleep(p, n) ==
  /\ Call(p, "sleep")
  /\ sleepTicks' = [sleepTicks EXCEPT ![p] = n]
  /\ state' = [state EXCEPT ![p] = "SLEEPING"]
  /\ want' = [want EXCEPT ![p] = n]
  /\ elapsed' = [elapsed EXCEPT ![p] = 0]
  /\ Goto(p, "sleep")
  /\ UNCHANGED <<inst, priority, nice, cpu, chan, killed, parent, sched, tick, io,
                 child>>

(* ... then loops under tickslock until n ticks have passed: ticks is      *)
(* unsigned, so a negative n stands for nearly 2^32 of them, for ever.     *)
Unslept(p) == want[p] < 0 \/ elapsed[p] < want[p]

SleepAgain(p) ==
  /\ Resumed(p, "sleep") \/ Resumed(p, "ticks")
  /\ Unslept(p)
  /\ ~killed[p]
  /\ Block(p, TicksChan)
  /\ Goto(p, "ticks")
  /\ UNCHANGED <<inst, priority, nice, sleepTicks, killed, parent, tick, calls>>

\* A killed process that is still at its mark returns SLEEPING.
SleepReturn(p) ==
  /\ Resumed(p, "sleep") \/ Resumed(p, "ticks")
  /\ ~Unslept(p) \/ killed[p]
  /\ chan' = [chan EXCEPT ![p] = NoChan]
  /\ want' = [want EXCEPT ![p] = 0]
  /\ elapsed' = [elapsed EXCEPT ![p] = 0]
  /\ Goto(p, "user")
  /\ UNCHANGED <<inst, state, priority, nice, cpu, sleepTicks, killed, parent, sched,
                 tick, io, child>>

(* A call that waits for the disk: iderw sleeps until its block is there,  *)
(* killed or not.                                                          *)
StartIo(p, to) ==
  /\ io' = [io EXCEPT ![p] = TRUE]
  /\ Block(p, <<"io", p>>)
  /\ Goto(p, to)
  /\ UNCHANGED <<inst, priority, nice, sleepTicks, killed, parent, tick, want,
                 elapsed, child>>

Io(p) == Call(p, "io") /\ StartIo(p, "io")

IoAgain(p) ==
  /\ Resumed(p, "io") \/ Resumed(p, "exit_io")
  /\ io[p]
  /\ Block(p, <<"io", p>>)
  /\ UNCHANGED <<inst, priority, nice, sleepTicks, killed, parent, tick, pc, calls>>

IoReturn(p) ==
  /\ Resumed(p, "io")
  /\ ~io[p]
  /\ chan' = [chan EXCEPT ![p] = NoChan]
  /\ Goto(p, "user")
  /\ UNCHANGED <<inst, state, priority, nice, cpu, sleepTicks, killed, parent, sched,
                 tick, calls>>

(* fork: allocproc takes the first free slot, the rest follows later. *)
Fork(p) ==
  /\ Call(p, "fork")
  /\ \E c \in Table \ InUse :
       /\ \A q \in Table \ InUse : c <= q
       /\ state' = [state EXCEPT ![c] = "EMBRYO"]
       /\ child' = [child EXCEPT ![p] = c]
  /\ Goto(p, "fork")
  /\ UNCHANGED <<inst, priority, nice, cpu, sleepTicks, chan, killed, parent, sched,
                 tick, want, elapsed, io>>

ForkReturn(p) ==
  LET c == child[p] IN
  /\ Resumed(p, "fork")
  /\ parent' = [parent EXCEPT ![c] = p]
  /\ state' = [state EXCEPT ![c] = "RUNNABLE"]
  /\ nice' = [nice EXCEPT ![c] = 0]
  /\ priority' = [priority EXCEPT ![c] = 0]
  /\ sleepTicks' = [sleepTicks EXCEPT ![c] = 0]
  /\ cpu' = [cpu EXCEPT ![c] = 0]
  /\ pc' = [pc EXCEPT ![p] = "user", ![c] = "user"]
  /\ child' = [child EXCEPT ![p] = 0]
  /\ UNCHANGED <<inst, chan, killed, sched, tick, want, elapsed, io>>

(* exit: files and the directory are closed first, which may need the      *)
(* disk; then the process is a zombie and its children are initproc's.     *)
Exit(p) ==
  /\ \/ proc = p /\ pc[p] = "user" /\ killed[p]
     \/ Call(p, "exit") /\ p # initproc
  /\ Goto(p, "exit")
  /\ UNCHANGED <<procs, sched, tick, calls>>

ExitIo(p) == Resumed(p, "exit") /\ "io" \in Calls /\ StartIo(p, "exit_io")

\* A slip: exit does not wake the parent that waits for it.
ZombieUntold(p) ==
  /\ Resumed(p, "exit") \/ (Resumed(p, "exit_io") /\ ~io[p])
  /\ state' = [state EXCEPT ![p] = "ZOMBIE"]
  /\ parent' = [q \in Slots |-> IF parent[q] = p THEN initproc ELSE parent[q]]
  /\ chan' = [chan EXCEPT ![p] = NoChan]
  /\ Swtch(p)
  /\ Goto(p, "exit")
  /\ UNCHANGED <<inst, priority, nice, sleepTicks, killed, tick, calls>>

Zombie(p) ==
  LET toParent == <<"wait", parent[p]>>
      orphans == {q \in Slots : parent[q] = p}
      woken == Woken(state, toParent)
      alsoInit == IF \E q \in orphans : state[q] = "ZOMBIE"
                  THEN Woken(woken, <<"wait", initproc>>) ELSE woken
  IN
  /\ Resumed(p, "exit") \/ (Resumed(p, "exit_io") /\ ~io[p])
  /\ state' = [alsoInit EXCEPT ![p] = "ZOMBIE"]
  /\ sleepTicks' = CountDown(state, toParent)  \* initproc's is 0 in wait()
  /\ parent' = [q \in Slots |-> IF q \in orphans THEN initproc ELSE parent[q]]
  /\ chan' = [chan EXCEPT ![p] = NoChan]
  /\ Swtch(p)
  /\ Goto(p, "exit")
  /\ UNCHANGED <<inst, priority, nice, killed, tick, calls>>

(* wait: free the first zombie child, give up, or sleep. *)
InWait(p) == Call(p, "wait") \/ Resumed(p, "wait")
Children(p) == {q \in Slots : parent[q] = p}
Zombies(p) == {q \in Children(p) : state[q] = "ZOMBIE"}

Reap(p) ==
  /\ InWait(p)
  /\ \E c \in Zombies(p) :
       /\ \A q \in Zombies(p) : c <= q
       /\ state' = [state EXCEPT ![c] = "UNUSED"]
       /\ parent' = [parent EXCEPT ![c] = 0]
       /\ killed' = [killed EXCEPT ![c] = FALSE]
  /\ chan' = [chan EXCEPT ![p] = NoChan]
  /\ Goto(p, "user")
  /\ UNCHANGED <<inst, priority, nice, cpu, sleepTicks, sched, tick, calls>>

WaitReturn(p) ==
  /\ InWait(p)
  /\ Zombies(p) = {}
  /\ Children(p) = {} \/ killed[p]
  /\ chan' = [chan EXCEPT ![p] = NoChan]
  /\ Goto(p, "user")
  /\ UNCHANGED <<inst, state, priority, nice, cpu, sleepTicks, killed, parent, sched,
                 tick, calls>>

WaitSleep(p) ==
  /\ InWait(p)
  /\ Zombies(p) = {}
  /\ Children(p) # {} /\ ~killed[p]
  /\ Block(p, <<"wait", p>>)
  /\ Goto(p, "wait")
  /\ UNCHANGED <<inst, priority, nice, sleepTicks, killed, parent, tick, calls>>

(* Whom kill(pid) finds: a process, or with pid 0 the first unused slot.   *)
(* Killing initproc, which panics, is left out.                            *)
Found(q) ==
  \/ q \in InUse \ {initproc}
  \/ q \in Table \ InUse /\ \A r \in Table \ InUse : q <= r

\* A slip: kill only leaves its mark.
KillQuietly(p, q) ==
  /\ Call(p, "kill")
  /\ Found(q)
  /\ killed' = [killed EXCEPT ![q] = TRUE]
  /\ Goto(p, "user")
  /\ UNCHANGED <<inst, state, priority, nice, cpu, sleepTicks, chan, parent, sched,
                 tick, calls>>

(* kill: a sleeper becomes runnable, its sleepTicks stay. *)
Kill(p, q) ==
  /\ Call(p, "kill")
  /\ Found(q)
  /\ killed' = [killed EXCEPT ![q] = TRUE]
  /\ state' = [state EXCEPT ![q] = IF @ = "SLEEPING" THEN "RUNNABLE" ELSE @]
  /\ Goto(p, "user")
  /\ UNCHANGED <<inst, priority, nice, cpu, sleepTicks, chan, parent, sched, tick,
                 calls>>

Kernel(p) ==
  \/ OtherCall(p)
  \/ \E n \in NiceValues : Nice(p, n)
  \/ \E n \in SleepLens : SysSleep(p, n)
  \/ SleepAgain(p) \/ SleepReturn(p)
  \/ Io(p) \/ IoAgain(p) \/ IoReturn(p)
  \/ Fork(p) \/ ForkReturn(p)
  \/ Exit(p) \/ ExitIo(p) \/ Zombie(p)
  \/ Reap(p) \/ WaitReturn(p) \/ WaitSleep(p)
  \/ \E q \in Slots : Kill(p, q)

Scheduler == StartPass \/ EndPass \/ \E p \in Slots : Dispatch(p)

Next ==
  \/ Scheduler
  \/ Tick
  \/ \E p \in Slots : DiskInterrupt(p) \/ Trap(p) \/ Kernel(p)

Spec == Init /\ [][Next]_vars

(***************************************************************************)
(* Fairness: the scheduler and the kernel keep running, the clock keeps    *)
(* ticking and the disk answers; an interrupt that is pending is delivered *)
(* once interrupts are on, again and again, hence strong fairness.         *)
(* Processes owe nothing in user mode.  A turn of the idle scheduler takes *)
(* microseconds and a tick comes every 10 ms, so the liveness runs set     *)
(* GapTicks to FALSE: otherwise every tick could fall into the gap and     *)
(* nobody would ever be charged.  For the same reason a process that is    *)
(* dispatched again and again gets on with its call before some tick.      *)
(***************************************************************************)
Fairness ==
  /\ WF_vars(Scheduler)
  /\ SF_vars(Tick)
  /\ \A p \in Slots : SF_vars(DiskInterrupt(p)) /\ SF_vars(Kernel(p))

FairSpec == Spec /\ Fairness

(***************************************************************************)
(* Properties.                                                             *)
(***************************************************************************)

TypeOK ==
  /\ state \in [Slots -> States]
  /\ priority \in [Slots -> Nat]
  /\ nice \in [Slots -> Nat]
  /\ cpu \in [Slots -> 0 .. MaxCpu]
  /\ sleepTicks \in [Slots -> Int]
  /\ chan \in [Slots -> Chans]
  /\ killed \in [Slots -> BOOLEAN]
  /\ parent \in [Slots -> 0 .. NPROC]
  /\ proc \in 0 .. NPROC
  /\ pass \in BOOLEAN
  /\ hp \in Nat
  /\ cursor \in 0 .. NPROC
  /\ tick \in 0 .. (PERIOD - 1)
  /\ pc \in [Slots -> Pcs]
  /\ want \in [Slots -> Int]
  /\ elapsed \in [Slots -> Nat]
  /\ io \in [Slots -> BOOLEAN]
  /\ child \in [Slots -> 0 .. NPROC]

(* sys_sleep has marked p SLEEPING before sleep() does; a p that was killed *)
(* before it got there keeps the mark on its way to exit and the disk.     *)
Marked(p) ==
  /\ state[p] = "SLEEPING"
  /\ pc[p] = "sleep" \/ (killed[p] /\ pc[p] \in {"user", "exit"})

(* The process on the CPU is the only RUNNING one, and it is RUNNING       *)
(* except where sys_sleep has marked it SLEEPING too early: no wakeup, no  *)
(* kill and no other call makes the CPU run a process that the table holds *)
(* for blocked, or that the scheduler may pick again.                      *)
CpuOwnerRuns ==
  /\ \A p \in Slots : state[p] = "RUNNING" => proc = p
  /\ proc # 0 => state[proc] = "RUNNING" \/ Marked(proc)

(* A process in sleep(n), n not negative, becomes runnable on the n-th     *)
(* tick, neither before nor after: sleepTicks, counted down by wakeup1,    *)
(* and ticks - ticks0, read by the loop of sys_sleep, never disagree,      *)
(* unless it is killed.                                                    *)
SleepIsExact ==
  \A p \in Slots : InSleep(p) /\ ~killed[p] /\ want[p] >= 0 =>
    /\ sleepTicks[p] = want[p] - elapsed[p]
    /\ state[p] = "SLEEPING" <=> elapsed[p] < want[p]

(* The calls that block leave nobody behind: a process asleep on the disk  *)
(* has a request under way, and one asleep in wait() has a child that is   *)
(* alive (exit wakes the parent, and initproc for the orphans it gets).    *)
SleepersHaveWakers ==
  \A p \in Slots : state[p] = "SLEEPING" /\ ~killed[p] =>
    /\ pc[p] \in {"io", "exit_io"} => io[p]
    /\ pc[p] = "wait" => Children(p) # {} /\ Zombies(p) = {}

(* Whom nice values may keep from the CPU for ever: two processes that are *)
(* nicer to themselves, or one that stays ahead even when it is charged    *)
(* for every tick, which takes its priority to nice + (PERIOD - 1) / 2.    *)
Nicer(p) == {q \in InUse : nice[q] < nice[p]}

Outranked(p) ==
  \/ Cardinality(Nicer(p)) > 1
  \/ \E q \in Nicer(p) : nice[q] + (PERIOD - 1) \div 2 < nice[p]

(* A runnable process that is not outranked runs in the end: those with no *)
(* better nice value share the CPU with it, and a single one with a better *)
(* one is charged for the CPU it keeps until updatepriorities puts it      *)
(* behind.                                                                 *)
NoStarvation ==
  \A p \in Slots :
    state[p] = "RUNNABLE" ~> state[p] = "RUNNING" \/ Outranked(p)

(* A killed process ends, wherever it was blocked when kill hit it.        *)
KilledExits ==
  \A p \in Slots : killed[p] ~> state[p] \in {"ZOMBIE", "UNUSED"}

(* trap.c: a process that runs user code gives up the CPU on a clock tick. *)
TickPreempts ==
  [][\A p \in Slots :
       proc = p /\ pc[p] = "user" /\ ~killed[p] /\ tick' # tick => proc' # p]_vars

(* proc.c: wakeup wakes all processes sleeping on the channel.             *)
WakeupWakes ==
  [][\A p \in Slots :
       io[p] /\ ~io'[p] /\ state[p] = "SLEEPING" /\ chan[p] = <<"io", p>>
         => state'[p] = "RUNNABLE"]_vars

(* The process table and the CPU agree: every slot holds what its calls may *)
(* leave in it, and the process that has the CPU is the one marked RUNNING, *)
(* or is Marked by sys_sleep.                                               *)
Consistent == TypeOK /\ CpuOwnerRuns

=============================================================================
