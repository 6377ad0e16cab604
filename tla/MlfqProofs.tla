----------------------------- MODULE MlfqProofs -----------------------------
(* Proofs about Mlfq for a process table of any size, any nice values and   *)
(* any lengths of sleep but 0: who has the CPU, that sleep(n) takes n       *)
(* ticks, and that whoever blocks is going to be woken.                     *)
EXTENDS Mlfq, TLAPS

(* sleep(0) returns SLEEPING, which is a flaw of its own: see the README. *)
SleepsAreLong == \A i \in Instances : 0 \notin i.sleeps

Live == {"RUNNABLE", "RUNNING", "SLEEPING"}

-----------------------------------------------------------------------------
(* The inductive invariant. *)
Types == TypeOK /\ inst \in Instances

(* sys_sleep has marked the process that still has the CPU. *)
SleepEntered ==
  \A p \in Slots : pc[p] = "sleep" =>
    /\ proc = p /\ state[p] = "SLEEPING"
    /\ elapsed[p] = 0 /\ want[p] # 0 /\ sleepTicks[p] = want[p]

(* What a slot without a process is left with. *)
VacantSlots ==
  \A p \in Slots :
    /\ state[p] \notin Live => pc[p] \in {"user", "exit"}
    /\ state[p] \in {"UNUSED", "EMBRYO"} => parent[p] = 0

(* Every slot that fork has taken has one process that will fill it. *)
ForksApart ==
  \A p \in Slots :
    /\ child[p] # 0 <=> pc[p] = "fork"
    /\ child[p] # 0 => state[child[p]] = "EMBRYO"
    /\ \A q \in Slots : child[p] # 0 /\ child[q] = child[p] => q = p

(* initproc is there for the orphans. *)
Family ==
  /\ \A p \in Slots : parent[p] # p
  /\ state[initproc] \in Live /\ ~killed[initproc] /\ parent[initproc] = 0
  /\ pc[initproc] \notin {"exit", "exit_io"}

(* The channel is the one of the call in progress. *)
ChansMatch ==
  \A p \in Slots :
    /\ pc[p] \in {"user", "call", "exit", "fork", "sleep"} => chan[p] = NoChan
    /\ pc[p] = "ticks" => chan[p] = TicksChan
    /\ pc[p] \in {"io", "exit_io"} => chan[p] = <<"io", p>>
    /\ pc[p] = "wait" => chan[p] = <<"wait", p>>

(* Only sleep() leaves a count, and the kill of a sleeper. *)
NoTicksLeft ==
  \A p \in Slots :
    /\ state[p] \in Live /\ ~killed[p] /\ pc[p] \notin {"sleep", "ticks"} => sleepTicks[p] = 0
    /\ pc[p] = "ticks" /\ want[p] >= 0 => elapsed[p] <= want[p]

MInv ==
  /\ Types /\ CpuOwnerRuns /\ SleepEntered /\ VacantSlots /\ ForksApart /\ Family
  /\ ChansMatch /\ NoTicksLeft /\ SleepIsExact /\ SleepersHaveWakers

-----------------------------------------------------------------------------
LEMMA SlotsAre == initproc \in Slots /\ 0 \notin Slots /\ Slots \subseteq 1 .. NPROC /\ NPROC \in Nat
  BY MlfqAssumption DEF Slots, initproc

LEMMA InstIs ==
  ASSUME Types
  PROVE  /\ Table \subseteq Slots /\ MaxCpu \in Nat /\ PERIOD \in Nat \ {0}
         /\ NiceValues \subseteq Nat /\ SleepLens \subseteq Int
<1>1. inst \in Instances
  BY DEF Types
<1>2. inst.slots \in 1 .. NPROC /\ inst.period \in Nat \ {0} /\ inst.maxcpu \in Nat
      /\ inst.nices \subseteq Nat /\ inst.sleeps \subseteq Int /\ NPROC \in Nat
  BY <1>1, MlfqAssumption
<1> QED
  BY <1>2 DEF Table, Slots, MaxCpu, PERIOD, NiceValues, SleepLens

LEMMA StartPassInv ==
  ASSUME MInv, StartPass
  PROVE  MInv'
<1>0. Types /\ CpuOwnerRuns /\ SleepEntered /\ VacantSlots /\ ForksApart
      /\ Family /\ ChansMatch /\ NoTicksLeft /\ SleepIsExact /\ SleepersHaveWakers
  BY DEF MInv
<1>1. /\ UNCHANGED <<inst, state, priority, nice, cpu, sleepTicks, chan, killed, parent, proc, tick, pc, want, elapsed, io, child>>
      /\ hp' \in Nat /\ pass' = TRUE /\ cursor' = 0
  BY DEF StartPass, procs, calls, Runnable, MInv, Types, TypeOK
<1>2. Types'
  BY <1>0, <1>1, SlotsAre DEF Types, TypeOK, States, Pcs, Chans, MaxCpu, PERIOD
<1>3. CpuOwnerRuns'
  BY <1>0, <1>1, SlotsAre DEF Types, TypeOK, States, Pcs, Chans, CpuOwnerRuns, Marked
<1>4. SleepEntered'
  BY <1>0, <1>1, SlotsAre DEF Types, TypeOK, States, Pcs, Chans, SleepEntered
<1>5. VacantSlots'
  BY <1>0, <1>1, SlotsAre DEF Types, TypeOK, States, Pcs, Chans, VacantSlots, Live
<1>6. ForksApart'
  BY <1>0, <1>1, SlotsAre DEF Types, TypeOK, States, Pcs, Chans, ForksApart, Live
<1>7. Family'
  BY <1>0, <1>1, SlotsAre DEF Types, TypeOK, States, Pcs, Chans, Family, Live
<1>8. ChansMatch'
  BY <1>0, <1>1, SlotsAre DEF Types, TypeOK, States, Pcs, Chans, ChansMatch
<1>9. NoTicksLeft'
  BY <1>0, <1>1, SlotsAre DEF Types, TypeOK, States, Pcs, Chans, NoTicksLeft, Live
<1>10. SleepIsExact'
  BY <1>0, <1>1, SlotsAre DEF Types, TypeOK, States, Pcs, Chans, SleepIsExact, InSleep
<1>11. SleepersHaveWakers'
  BY <1>0, <1>1, SlotsAre DEF Types, TypeOK, States, Pcs, Chans, SleepersHaveWakers, Children, Zombies
<1> QED
  BY <1>2, <1>3, <1>4, <1>5, <1>6, <1>7, <1>8, <1>9, <1>10, <1>11 DEF MInv

LEMMA EndPassInv ==
  ASSUME MInv, EndPass
  PROVE  MInv'
<1>0. Types /\ CpuOwnerRuns /\ SleepEntered /\ VacantSlots /\ ForksApart
      /\ Family /\ ChansMatch /\ NoTicksLeft /\ SleepIsExact /\ SleepersHaveWakers
  BY DEF MInv
<1>1. /\ UNCHANGED <<inst, state, priority, nice, cpu, sleepTicks, chan, killed, parent, proc, hp, cursor, tick, pc, want, elapsed, io, child>>
      /\ pass' = FALSE
  BY DEF EndPass, procs, calls
<1>2. Types'
  BY <1>0, <1>1, SlotsAre DEF Types, TypeOK, States, Pcs, Chans, MaxCpu, PERIOD
<1>3. CpuOwnerRuns'
  BY <1>0, <1>1, SlotsAre DEF Types, TypeOK, States, Pcs, Chans, CpuOwnerRuns, Marked
<1>4. SleepEntered'
  BY <1>0, <1>1, SlotsAre DEF Types, TypeOK, States, Pcs, Chans, SleepEntered
<1>5. VacantSlots'
  BY <1>0, <1>1, SlotsAre DEF Types, TypeOK, States, Pcs, Chans, VacantSlots, Live
<1>6. ForksApart'
  BY <1>0, <1>1, SlotsAre DEF Types, TypeOK, States, Pcs, Chans, ForksApart, Live
<1>7. Family'
  BY <1>0, <1>1, SlotsAre DEF Types, TypeOK, States, Pcs, Chans, Family, Live
<1>8. ChansMatch'
  BY <1>0, <1>1, SlotsAre DEF Types, TypeOK, States, Pcs, Chans, ChansMatch
<1>9. NoTicksLeft'
  BY <1>0, <1>1, SlotsAre DEF Types, TypeOK, States, Pcs, Chans, NoTicksLeft, Live
<1>10. SleepIsExact'
  BY <1>0, <1>1, SlotsAre DEF Types, TypeOK, States, Pcs, Chans, SleepIsExact, InSleep
<1>11. SleepersHaveWakers'
  BY <1>0, <1>1, SlotsAre DEF Types, TypeOK, States, Pcs, Chans, SleepersHaveWakers, Children, Zombies
<1> QED
  BY <1>2, <1>3, <1>4, <1>5, <1>6, <1>7, <1>8, <1>9, <1>10, <1>11 DEF MInv

LEMMA DispatchInv ==
  ASSUME MInv, NEW p \in Slots, Dispatch(p)
  PROVE  MInv'
<1>0. Types /\ CpuOwnerRuns /\ SleepEntered /\ VacantSlots /\ ForksApart
      /\ Family /\ ChansMatch /\ NoTicksLeft /\ SleepIsExact /\ SleepersHaveWakers
  BY DEF MInv
<1>1. /\ UNCHANGED <<inst, priority, nice, cpu, sleepTicks, chan, killed, parent, pass, hp, tick, pc, want, elapsed, io, child>>
      /\ proc = 0 /\ proc' = p /\ cursor' = p
      /\ state[p] = "RUNNABLE"
      /\ state' = [state EXCEPT ![p] = "RUNNING"]
  BY DEF Dispatch, procs, calls, Candidates, Runnable
<1>2. Types'
  BY <1>0, <1>1, SlotsAre DEF Types, TypeOK, States, Pcs, Chans, MaxCpu, PERIOD
<1>3. CpuOwnerRuns'
  BY <1>0, <1>1, SlotsAre DEF Types, TypeOK, States, Pcs, Chans, CpuOwnerRuns, Marked
<1>4. SleepEntered'
  BY <1>0, <1>1, SlotsAre DEF Types, TypeOK, States, Pcs, Chans, SleepEntered
<1>5. VacantSlots'
  BY <1>0, <1>1, SlotsAre DEF Types, TypeOK, States, Pcs, Chans, VacantSlots, Live
<1>6. ForksApart'
  BY <1>0, <1>1, SlotsAre DEF Types, TypeOK, States, Pcs, Chans, ForksApart, Live
<1>7. Family'
  BY <1>0, <1>1, SlotsAre DEF Types, TypeOK, States, Pcs, Chans, Family, Live
<1>8. ChansMatch'
  BY <1>0, <1>1, SlotsAre DEF Types, TypeOK, States, Pcs, Chans, ChansMatch
<1>9. NoTicksLeft'
  BY <1>0, <1>1, SlotsAre DEF Types, TypeOK, States, Pcs, Chans, NoTicksLeft, Live
<1>10. SleepIsExact'
  BY <1>0, <1>1, SlotsAre DEF Types, TypeOK, States, Pcs, Chans, SleepIsExact, InSleep
<1>11. SleepersHaveWakers'
  BY <1>0, <1>1, SlotsAre DEF Types, TypeOK, States, Pcs, Chans, SleepersHaveWakers, Children, Zombies
<1> QED
  BY <1>2, <1>3, <1>4, <1>5, <1>6, <1>7, <1>8, <1>9, <1>10, <1>11 DEF MInv

LEMMA TrapInv ==
  ASSUME MInv, NEW p \in Slots, Trap(p)
  PROVE  MInv'
<1>0. Types /\ CpuOwnerRuns /\ SleepEntered /\ VacantSlots /\ ForksApart
      /\ Family /\ ChansMatch /\ NoTicksLeft /\ SleepIsExact /\ SleepersHaveWakers
  BY DEF MInv
<1>1. /\ UNCHANGED <<inst, state, priority, nice, cpu, sleepTicks, chan, killed, parent, proc, pass, hp, cursor, tick, want, elapsed, io, child>>
      /\ proc = p /\ pc[p] = "user" /\ ~killed[p] /\ pc' = [pc EXCEPT ![p] = "call"]
  BY DEF Trap, Goto, procs, sched, calls
<1>2. Types'
  BY <1>0, <1>1, SlotsAre DEF Types, TypeOK, States, Pcs, Chans, MaxCpu, PERIOD
<1>3. CpuOwnerRuns'
  BY <1>0, <1>1, SlotsAre DEF Types, TypeOK, States, Pcs, Chans, CpuOwnerRuns, Marked
<1>4. SleepEntered'
  BY <1>0, <1>1, SlotsAre DEF Types, TypeOK, States, Pcs, Chans, SleepEntered
<1>5. VacantSlots'
  BY <1>0, <1>1, SlotsAre DEF Types, TypeOK, States, Pcs, Chans, VacantSlots, Live, CpuOwnerRuns, Marked
<1>6. ForksApart'
  BY <1>0, <1>1, SlotsAre DEF Types, TypeOK, States, Pcs, Chans, ForksApart, Live
<1>7. Family'
  BY <1>0, <1>1, SlotsAre DEF Types, TypeOK, States, Pcs, Chans, Family, Live
<1>8. ChansMatch'
  BY <1>0, <1>1, SlotsAre DEF Types, TypeOK, States, Pcs, Chans, ChansMatch
<1>9. NoTicksLeft'
  BY <1>0, <1>1, SlotsAre DEF Types, TypeOK, States, Pcs, Chans, NoTicksLeft, Live
<1>10. SleepIsExact'
  BY <1>0, <1>1, SlotsAre DEF Types, TypeOK, States, Pcs, Chans, SleepIsExact, InSleep
<1>11. SleepersHaveWakers'
  BY <1>0, <1>1, SlotsAre DEF Types, TypeOK, States, Pcs, Chans, SleepersHaveWakers, Children, Zombies
<1> QED
  BY <1>2, <1>3, <1>4, <1>5, <1>6, <1>7, <1>8, <1>9, <1>10, <1>11 DEF MInv

LEMMA OtherCallInv ==
  ASSUME MInv, NEW p \in Slots, OtherCall(p)
  PROVE  MInv'
<1>0. Types /\ CpuOwnerRuns /\ SleepEntered /\ VacantSlots /\ ForksApart
      /\ Family /\ ChansMatch /\ NoTicksLeft /\ SleepIsExact /\ SleepersHaveWakers
  BY DEF MInv
<1>1. /\ UNCHANGED <<inst, state, priority, nice, cpu, sleepTicks, chan, killed, parent, proc, pass, hp, cursor, tick, want, elapsed, io, child>>
      /\ proc = p /\ pc[p] = "call" /\ pc' = [pc EXCEPT ![p] = "user"]
  BY DEF OtherCall, Goto, procs, sched, calls
<1>2. Types'
  BY <1>0, <1>1, SlotsAre DEF Types, TypeOK, States, Pcs, Chans, MaxCpu, PERIOD
<1>3. CpuOwnerRuns'
  BY <1>0, <1>1, SlotsAre DEF Types, TypeOK, States, Pcs, Chans, CpuOwnerRuns, Marked
<1>4. SleepEntered'
  BY <1>0, <1>1, SlotsAre DEF Types, TypeOK, States, Pcs, Chans, SleepEntered
<1>5. VacantSlots'
  BY <1>0, <1>1, SlotsAre DEF Types, TypeOK, States, Pcs, Chans, VacantSlots, Live
<1>6. ForksApart'
  BY <1>0, <1>1, SlotsAre DEF Types, TypeOK, States, Pcs, Chans, ForksApart, Live
<1>7. Family'
  BY <1>0, <1>1, SlotsAre DEF Types, TypeOK, States, Pcs, Chans, Family, Live
<1>8. ChansMatch'
  BY <1>0, <1>1, SlotsAre DEF Types, TypeOK, States, Pcs, Chans, ChansMatch
<1>9. NoTicksLeft'
  BY <1>0, <1>1, SlotsAre DEF Types, TypeOK, States, Pcs, Chans, NoTicksLeft, Live
<1>10. SleepIsExact'
  BY <1>0, <1>1, SlotsAre DEF Types, TypeOK, States, Pcs, Chans, SleepIsExact, InSleep
<1>11. SleepersHaveWakers'
  BY <1>0, <1>1, SlotsAre DEF Types, TypeOK, States, Pcs, Chans, SleepersHaveWakers, Children, Zombies
<1> QED
  BY <1>2, <1>3, <1>4, <1>5, <1>6, <1>7, <1>8, <1>9, <1>10, <1>11 DEF MInv

LEMMA NiceInv ==
  ASSUME MInv, NEW p \in Slots, NEW n \in NiceValues, Nice(p, n)
  PROVE  MInv'
<1>0. Types /\ CpuOwnerRuns /\ SleepEntered /\ VacantSlots /\ ForksApart
      /\ Family /\ ChansMatch /\ NoTicksLeft /\ SleepIsExact /\ SleepersHaveWakers
  BY DEF MInv
<1>1. /\ UNCHANGED <<inst, state, priority, cpu, sleepTicks, chan, killed, parent, proc, pass, hp, cursor, tick, want, elapsed, io, child>>
      /\ n \in Nat
      /\ proc = p /\ pc[p] = "call" /\ pc' = [pc EXCEPT ![p] = "user"]
      /\ nice' = [nice EXCEPT ![p] = n]
  BY MlfqAssumption DEF Nice, Call, Goto, procs, sched, calls, NiceValues, MInv, Types
<1>2. Types'
  BY <1>0, <1>1, SlotsAre DEF Types, TypeOK, States, Pcs, Chans, MaxCpu, PERIOD
<1>3. CpuOwnerRuns'
  BY <1>0, <1>1, SlotsAre DEF Types, TypeOK, States, Pcs, Chans, CpuOwnerRuns, Marked
<1>4. SleepEntered'
  BY <1>0, <1>1, SlotsAre DEF Types, TypeOK, States, Pcs, Chans, SleepEntered
<1>5. VacantSlots'
  BY <1>0, <1>1, SlotsAre DEF Types, TypeOK, States, Pcs, Chans, VacantSlots, Live
<1>6. ForksApart'
  BY <1>0, <1>1, SlotsAre DEF Types, TypeOK, States, Pcs, Chans, ForksApart, Live
<1>7. Family'
  BY <1>0, <1>1, SlotsAre DEF Types, TypeOK, States, Pcs, Chans, Family, Live
<1>8. ChansMatch'
  BY <1>0, <1>1, SlotsAre DEF Types, TypeOK, States, Pcs, Chans, ChansMatch
<1>9. NoTicksLeft'
  BY <1>0, <1>1, SlotsAre DEF Types, TypeOK, States, Pcs, Chans, NoTicksLeft, Live
<1>10. SleepIsExact'
  BY <1>0, <1>1, SlotsAre DEF Types, TypeOK, States, Pcs, Chans, SleepIsExact, InSleep
<1>11. SleepersHaveWakers'
  BY <1>0, <1>1, SlotsAre DEF Types, TypeOK, States, Pcs, Chans, SleepersHaveWakers, Children, Zombies
<1> QED
  BY <1>2, <1>3, <1>4, <1>5, <1>6, <1>7, <1>8, <1>9, <1>10, <1>11 DEF MInv

LEMMA SysSleepInv ==
  ASSUME MInv, SleepsAreLong, NEW p \in Slots, NEW n \in SleepLens, SysSleep(p, n)
  PROVE  MInv'
<1>0. Types /\ CpuOwnerRuns /\ SleepEntered /\ VacantSlots /\ ForksApart
      /\ Family /\ ChansMatch /\ NoTicksLeft /\ SleepIsExact /\ SleepersHaveWakers
  BY DEF MInv
<1>1. /\ UNCHANGED <<inst, priority, nice, cpu, chan, killed, parent, proc, pass, hp, cursor, tick, io, child>>
      /\ n \in Int /\ n # 0
      /\ proc = p /\ pc[p] = "call"
      /\ sleepTicks' = [sleepTicks EXCEPT ![p] = n]
      /\ state' = [state EXCEPT ![p] = "SLEEPING"]
      /\ want' = [want EXCEPT ![p] = n]
      /\ elapsed' = [elapsed EXCEPT ![p] = 0]
      /\ pc' = [pc EXCEPT ![p] = "sleep"]
  BY MlfqAssumption DEF SysSleep, Call, Goto, sched, SleepLens, SleepsAreLong, MInv, Types
<1>2. state[p] = "RUNNING"
  BY <1>0, <1>1, SlotsAre DEF CpuOwnerRuns, Marked
<1>3. Types'
  BY <1>0, <1>1, <1>2, SlotsAre DEF Types, TypeOK, States, Pcs, Chans, MaxCpu, PERIOD
<1>4. CpuOwnerRuns'
  BY <1>0, <1>1, <1>2, SlotsAre DEF Types, TypeOK, States, Pcs, Chans, CpuOwnerRuns, Marked
<1>5. SleepEntered'
  BY <1>0, <1>1, <1>2, SlotsAre DEF Types, TypeOK, States, Pcs, Chans, SleepEntered
<1>6. VacantSlots'
  BY <1>0, <1>1, <1>2, SlotsAre DEF Types, TypeOK, States, Pcs, Chans, VacantSlots, Live
<1>7. ForksApart'
  BY <1>0, <1>1, <1>2, SlotsAre DEF Types, TypeOK, States, Pcs, Chans, ForksApart, Live
<1>8. Family'
  BY <1>0, <1>1, <1>2, SlotsAre DEF Types, TypeOK, States, Pcs, Chans, Family, Live
<1>9. ChansMatch'
  BY <1>0, <1>1, <1>2, SlotsAre DEF Types, TypeOK, States, Pcs, Chans, ChansMatch
<1>10. NoTicksLeft'
  BY <1>0, <1>1, <1>2, SlotsAre DEF Types, TypeOK, States, Pcs, Chans, NoTicksLeft, Live
<1>11. SleepIsExact'
  BY <1>0, <1>1, <1>2, SlotsAre DEF Types, TypeOK, States, Pcs, Chans, SleepIsExact, InSleep
<1>12. SleepersHaveWakers'
  BY <1>0, <1>1, <1>2, SlotsAre DEF Types, TypeOK, States, Pcs, Chans, SleepersHaveWakers, Children, Zombies
<1> QED
  BY <1>3, <1>4, <1>5, <1>6, <1>7, <1>8, <1>9, <1>10, <1>11, <1>12 DEF MInv

LEMMA SleepReturnInv ==
  ASSUME MInv, NEW p \in Slots, SleepReturn(p)
  PROVE  MInv'
<1>0. Types /\ CpuOwnerRuns /\ SleepEntered /\ VacantSlots /\ ForksApart
      /\ Family /\ ChansMatch /\ NoTicksLeft /\ SleepIsExact /\ SleepersHaveWakers
  BY DEF MInv
<1>1. /\ UNCHANGED <<inst, state, priority, nice, cpu, sleepTicks, killed, parent, proc, pass, hp, cursor, tick, io, child>>
      /\ proc = p /\ pc[p] \in {"sleep", "ticks"}
      /\ ((want[p] >= 0 /\ elapsed[p] >= want[p]) \/ killed[p])
      /\ chan' = [chan EXCEPT ![p] = NoChan]
      /\ want' = [want EXCEPT ![p] = 0]
      /\ elapsed' = [elapsed EXCEPT ![p] = 0]
      /\ pc' = [pc EXCEPT ![p] = "user"]
  <2>1. want[p] \in Int /\ elapsed[p] \in Nat
    BY <1>0 DEF Types, TypeOK
  <2> QED
    BY <2>1 DEF SleepReturn, Resumed, Goto, sched, Unslept
<1>2. /\ state[p] = "RUNNING" \/ (state[p] = "SLEEPING" /\ killed[p])
      /\ ~killed[p] => pc[p] = "ticks" /\ sleepTicks[p] = 0
  <2>1. CASE pc[p] = "sleep"
    BY <1>0, <1>1, <2>1 DEF Types, TypeOK, SleepEntered
  <2>2. CASE pc[p] = "ticks"
    <3>1. state[p] = "RUNNING"
      BY <1>0, <1>1, <2>2, SlotsAre DEF CpuOwnerRuns, Marked
    <3>2. ASSUME ~killed[p] PROVE sleepTicks[p] = 0
      <4>1. elapsed[p] = want[p]
        BY <1>0, <1>1, <2>2, <3>2 DEF Types, TypeOK, NoTicksLeft
      <4>2. sleepTicks[p] = want[p] - elapsed[p]
        BY <1>0, <1>1, <2>2, <3>1, <3>2 DEF SleepIsExact, InSleep
      <4> QED
        BY <1>0, <4>1, <4>2 DEF Types, TypeOK
    <3> QED
      BY <2>2, <3>1, <3>2
  <2> QED
    BY <1>1, <2>1, <2>2
<1>3. Types'
  BY <1>0, <1>1, <1>2, SlotsAre DEF Types, TypeOK, States, Pcs, Chans, MaxCpu, PERIOD
<1>4. CpuOwnerRuns'
  BY <1>0, <1>1, <1>2, SlotsAre DEF Types, TypeOK, States, Pcs, Chans, CpuOwnerRuns, Marked
<1>5. SleepEntered'
  BY <1>0, <1>1, <1>2, SlotsAre DEF Types, TypeOK, States, Pcs, Chans, SleepEntered
<1>6. VacantSlots'
  BY <1>0, <1>1, <1>2, SlotsAre DEF Types, TypeOK, States, Pcs, Chans, VacantSlots, Live
<1>7. ForksApart'
  BY <1>0, <1>1, <1>2, SlotsAre DEF Types, TypeOK, States, Pcs, Chans, ForksApart, Live
<1>8. Family'
  BY <1>0, <1>1, <1>2, SlotsAre DEF Types, TypeOK, States, Pcs, Chans, Family, Live
<1>9. ChansMatch'
  BY <1>0, <1>1, <1>2, SlotsAre DEF Types, TypeOK, States, Pcs, Chans, ChansMatch
<1>10. NoTicksLeft'
  BY <1>0, <1>1, <1>2, SlotsAre DEF Types, TypeOK, States, Pcs, Chans, NoTicksLeft, Live
<1>11. SleepIsExact'
  BY <1>0, <1>1, <1>2, SlotsAre DEF Types, TypeOK, States, Pcs, Chans, SleepIsExact, InSleep
<1>12. SleepersHaveWakers'
  BY <1>0, <1>1, <1>2, SlotsAre DEF Types, TypeOK, States, Pcs, Chans, SleepersHaveWakers, Children, Zombies
<1> QED
  BY <1>3, <1>4, <1>5, <1>6, <1>7, <1>8, <1>9, <1>10, <1>11, <1>12 DEF MInv

LEMMA IoReturnInv ==
  ASSUME MInv, NEW p \in Slots, IoReturn(p)
  PROVE  MInv'
<1>0. Types /\ CpuOwnerRuns /\ SleepEntered /\ VacantSlots /\ ForksApart
      /\ Family /\ ChansMatch /\ NoTicksLeft /\ SleepIsExact /\ SleepersHaveWakers
  BY DEF MInv
<1>1. /\ UNCHANGED <<inst, state, priority, nice, cpu, sleepTicks, killed, parent, proc, pass, hp, cursor, tick, want, elapsed, io, child>>
      /\ proc = p /\ pc[p] = "io"
      /\ chan' = [chan EXCEPT ![p] = NoChan]
      /\ pc' = [pc EXCEPT ![p] = "user"]
  BY DEF IoReturn, Resumed, Goto, sched, calls
<1>2. Types'
  BY <1>0, <1>1, SlotsAre DEF Types, TypeOK, States, Pcs, Chans, MaxCpu, PERIOD
<1>3. CpuOwnerRuns'
  BY <1>0, <1>1, SlotsAre DEF Types, TypeOK, States, Pcs, Chans, CpuOwnerRuns, Marked
<1>4. SleepEntered'
  BY <1>0, <1>1, SlotsAre DEF Types, TypeOK, States, Pcs, Chans, SleepEntered
<1>5. VacantSlots'
  BY <1>0, <1>1, SlotsAre DEF Types, TypeOK, States, Pcs, Chans, VacantSlots, Live
<1>6. ForksApart'
  BY <1>0, <1>1, SlotsAre DEF Types, TypeOK, States, Pcs, Chans, ForksApart, Live
<1>7. Family'
  BY <1>0, <1>1, SlotsAre DEF Types, TypeOK, States, Pcs, Chans, Family, Live
<1>8. ChansMatch'
  BY <1>0, <1>1, SlotsAre DEF Types, TypeOK, States, Pcs, Chans, ChansMatch
<1>9. NoTicksLeft'
  BY <1>0, <1>1, SlotsAre DEF Types, TypeOK, States, Pcs, Chans, NoTicksLeft, Live
<1>10. SleepIsExact'
  BY <1>0, <1>1, SlotsAre DEF Types, TypeOK, States, Pcs, Chans, SleepIsExact, InSleep
<1>11. SleepersHaveWakers'
  BY <1>0, <1>1, SlotsAre DEF Types, TypeOK, States, Pcs, Chans, SleepersHaveWakers, Children, Zombies
<1> QED
  BY <1>2, <1>3, <1>4, <1>5, <1>6, <1>7, <1>8, <1>9, <1>10, <1>11 DEF MInv

LEMMA ExitInv ==
  ASSUME MInv, NEW p \in Slots, Exit(p)
  PROVE  MInv'
<1>0. Types /\ CpuOwnerRuns /\ SleepEntered /\ VacantSlots /\ ForksApart
      /\ Family /\ ChansMatch /\ NoTicksLeft /\ SleepIsExact /\ SleepersHaveWakers
  BY DEF MInv
<1>1. /\ UNCHANGED <<inst, state, priority, nice, cpu, sleepTicks, chan, killed, parent, proc, pass, hp, cursor, tick, want, elapsed, io, child>>
      /\ proc = p /\ pc[p] \in {"user", "call"} /\ (killed[p] \/ p # initproc)
      /\ pc[p] = "user" => killed[p]
      /\ pc' = [pc EXCEPT ![p] = "exit"]
  BY DEF Exit, Call, Goto, procs, sched, calls
<1>2. Types'
  BY <1>0, <1>1, SlotsAre DEF Types, TypeOK, States, Pcs, Chans, MaxCpu, PERIOD
<1>3. CpuOwnerRuns'
  BY <1>0, <1>1, SlotsAre DEF Types, TypeOK, States, Pcs, Chans, CpuOwnerRuns, Marked
<1>4. SleepEntered'
  BY <1>0, <1>1, SlotsAre DEF Types, TypeOK, States, Pcs, Chans, SleepEntered
<1>5. VacantSlots'
  BY <1>0, <1>1, SlotsAre DEF Types, TypeOK, States, Pcs, Chans, VacantSlots, Live
<1>6. ForksApart'
  BY <1>0, <1>1, SlotsAre DEF Types, TypeOK, States, Pcs, Chans, ForksApart, Live
<1>7. Family'
  BY <1>0, <1>1, SlotsAre DEF Types, TypeOK, States, Pcs, Chans, Family, Live
<1>8. ChansMatch'
  BY <1>0, <1>1, SlotsAre DEF Types, TypeOK, States, Pcs, Chans, ChansMatch
<1>9. NoTicksLeft'
  BY <1>0, <1>1, SlotsAre DEF Types, TypeOK, States, Pcs, Chans, NoTicksLeft, Live
<1>10. SleepIsExact'
  BY <1>0, <1>1, SlotsAre DEF Types, TypeOK, States, Pcs, Chans, SleepIsExact, InSleep
<1>11. SleepersHaveWakers'
  BY <1>0, <1>1, SlotsAre DEF Types, TypeOK, States, Pcs, Chans, SleepersHaveWakers, Children, Zombies
<1> QED
  BY <1>2, <1>3, <1>4, <1>5, <1>6, <1>7, <1>8, <1>9, <1>10, <1>11 DEF MInv

LEMMA SleepAgainInv ==
  ASSUME MInv, NEW p \in Slots, SleepAgain(p)
  PROVE  MInv'
<1>0. Types /\ CpuOwnerRuns /\ SleepEntered /\ VacantSlots /\ ForksApart
      /\ Family /\ ChansMatch /\ NoTicksLeft /\ SleepIsExact /\ SleepersHaveWakers
  BY DEF MInv
<1>1. /\ UNCHANGED <<inst, priority, nice, sleepTicks, killed, parent, pass, hp, cursor, tick, want, elapsed, io, child>>
      /\ proc = p /\ pc[p] \in {"sleep", "ticks"} /\ (want[p] < 0 \/ elapsed[p] < want[p]) /\ ~killed[p]
      /\ proc' = 0
      /\ cpu' = [cpu EXCEPT ![p] = Charged(@)]
      /\ state' = [state EXCEPT ![p] = "SLEEPING"]
      /\ chan' = [chan EXCEPT ![p] = TicksChan]
      /\ pc' = [pc EXCEPT ![p] = "ticks"]
  BY DEF SleepAgain, Resumed, Goto, Block, Swtch, calls, Unslept
<1>2. (pc[p] = "sleep" /\ state[p] = "SLEEPING") \/ (pc[p] = "ticks" /\ want[p] < 0 /\ state[p] = "RUNNING")
  <2>1. CASE pc[p] = "sleep"
    BY <1>0, <2>1 DEF SleepEntered
  <2>2. CASE pc[p] = "ticks"
    <3>1. state[p] = "RUNNING"
      BY <1>0, <1>1, <2>2, SlotsAre DEF CpuOwnerRuns, Marked
    <3>2. want[p] \in Int /\ elapsed[p] \in Nat
      BY <1>0 DEF Types, TypeOK
    <3> QED
      BY <1>0, <1>1, <2>2, <3>1, <3>2 DEF SleepIsExact, InSleep
  <2> QED
    BY <1>1, <2>1, <2>2
<1>3. Types'
  <2>1. cpu' \in [Slots -> 0 .. MaxCpu']
    <3>1. MaxCpu' = MaxCpu /\ MaxCpu \in Nat /\ cpu \in [Slots -> 0 .. MaxCpu]
      BY <1>0, <1>1, InstIs DEF Types, TypeOK, MaxCpu
    <3>2. Charged(cpu[p]) \in 0 .. MaxCpu
      BY <3>1 DEF Charged
    <3> QED
      BY <1>1, <3>1, <3>2
  <2>2. state' \in [Slots -> States]
    BY <1>0, <1>1 DEF Types, TypeOK, States
  <2>3. chan' \in [Slots -> Chans]
    <3>1. TicksChan \in Chans
      BY DEF Chans
    <3> QED
      BY <1>0, <1>1, <3>1 DEF Types, TypeOK
  <2>4. pc' \in [Slots -> Pcs] /\ io' \in [Slots -> BOOLEAN] /\ proc' \in 0 .. NPROC
    BY <1>0, <1>1, SlotsAre DEF Types, TypeOK, Pcs
  <2> QED
    BY <1>0, <1>1, <2>1, <2>2, <2>3, <2>4 DEF Types, TypeOK, PERIOD
<1>4. CpuOwnerRuns'
  BY <1>0, <1>1, <1>2, SlotsAre DEF Types, TypeOK, States, Pcs, Chans, CpuOwnerRuns, Marked
<1>5. SleepEntered'
  BY <1>0, <1>1, <1>2, SlotsAre DEF Types, TypeOK, States, Pcs, Chans, SleepEntered
<1>6. VacantSlots'
  BY <1>0, <1>1, <1>2, SlotsAre DEF Types, TypeOK, States, Pcs, Chans, VacantSlots, Live
<1>7. ForksApart'
  BY <1>0, <1>1, <1>2, SlotsAre DEF Types, TypeOK, States, Pcs, Chans, ForksApart, Live
<1>8. Family'
  BY <1>0, <1>1, <1>2, SlotsAre DEF Types, TypeOK, States, Pcs, Chans, Family, Live
<1>9. ChansMatch'
  BY <1>0, <1>1, <1>2, SlotsAre DEF Types, TypeOK, States, Pcs, Chans, ChansMatch
<1>10. NoTicksLeft'
  BY <1>0, <1>1, <1>2, SlotsAre DEF Types, TypeOK, States, Pcs, Chans, NoTicksLeft, Live, SleepEntered
<1>11. SleepIsExact'
  BY <1>0, <1>1, <1>2, SlotsAre DEF Types, TypeOK, States, Pcs, Chans, SleepIsExact, InSleep, SleepEntered
<1>12. SleepersHaveWakers'
  BY <1>0, <1>1, <1>2, SlotsAre DEF Types, TypeOK, States, Pcs, Chans, SleepersHaveWakers, Children, Zombies
<1> QED
  BY <1>3, <1>4, <1>5, <1>6, <1>7, <1>8, <1>9, <1>10, <1>11, <1>12 DEF MInv

LEMMA IoInv ==
  ASSUME MInv, NEW p \in Slots, Io(p)
  PROVE  MInv'
<1>0. Types /\ CpuOwnerRuns /\ SleepEntered /\ VacantSlots /\ ForksApart
      /\ Family /\ ChansMatch /\ NoTicksLeft /\ SleepIsExact /\ SleepersHaveWakers
  BY DEF MInv
<1>1. /\ UNCHANGED <<inst, priority, nice, sleepTicks, killed, parent, pass, hp, cursor, tick, want, elapsed, child>>
      /\ proc = p /\ pc[p] = "call"
      /\ io' = [io EXCEPT ![p] = TRUE]
      /\ proc' = 0
      /\ cpu' = [cpu EXCEPT ![p] = Charged(@)]
      /\ state' = [state EXCEPT ![p] = "SLEEPING"]
      /\ chan' = [chan EXCEPT ![p] = <<"io", p>>]
      /\ pc' = [pc EXCEPT ![p] = "io"]
  BY DEF Io, Call, StartIo, Goto, Block, Swtch
<1>2. state[p] = "RUNNING"
  BY <1>0, <1>1, SlotsAre DEF CpuOwnerRuns, Marked
<1>3. Types'
  <2>1. cpu' \in [Slots -> 0 .. MaxCpu']
    <3>1. MaxCpu' = MaxCpu /\ MaxCpu \in Nat /\ cpu \in [Slots -> 0 .. MaxCpu]
      BY <1>0, <1>1, InstIs DEF Types, TypeOK, MaxCpu
    <3>2. Charged(cpu[p]) \in 0 .. MaxCpu
      BY <3>1 DEF Charged
    <3> QED
      BY <1>1, <3>1, <3>2
  <2>2. state' \in [Slots -> States]
    BY <1>0, <1>1 DEF Types, TypeOK, States
  <2>3. chan' \in [Slots -> Chans]
    <3>1. <<"io", p>> \in Chans
      BY DEF Chans
    <3> QED
      BY <1>0, <1>1, <3>1 DEF Types, TypeOK
  <2>4. pc' \in [Slots -> Pcs] /\ io' \in [Slots -> BOOLEAN] /\ proc' \in 0 .. NPROC
    BY <1>0, <1>1, SlotsAre DEF Types, TypeOK, Pcs
  <2> QED
    BY <1>0, <1>1, <2>1, <2>2, <2>3, <2>4 DEF Types, TypeOK, PERIOD
<1>4. CpuOwnerRuns'
  BY <1>0, <1>1, <1>2, SlotsAre DEF Types, TypeOK, States, Pcs, Chans, CpuOwnerRuns, Marked
<1>5. SleepEntered'
  BY <1>0, <1>1, <1>2, SlotsAre DEF Types, TypeOK, States, Pcs, Chans, SleepEntered
<1>6. VacantSlots'
  BY <1>0, <1>1, <1>2, SlotsAre DEF Types, TypeOK, States, Pcs, Chans, VacantSlots, Live
<1>7. ForksApart'
  BY <1>0, <1>1, <1>2, SlotsAre DEF Types, TypeOK, States, Pcs, Chans, ForksApart, Live
<1>8. Family'
  BY <1>0, <1>1, <1>2, SlotsAre DEF Types, TypeOK, States, Pcs, Chans, Family, Live
<1>9. ChansMatch'
  BY <1>0, <1>1, <1>2, SlotsAre DEF Types, TypeOK, States, Pcs, Chans, ChansMatch
<1>10. NoTicksLeft'
  BY <1>0, <1>1, <1>2, SlotsAre DEF Types, TypeOK, States, Pcs, Chans, NoTicksLeft, Live
<1>11. SleepIsExact'
  BY <1>0, <1>1, <1>2, SlotsAre DEF Types, TypeOK, States, Pcs, Chans, SleepIsExact, InSleep
<1>12. SleepersHaveWakers'
  BY <1>0, <1>1, <1>2, SlotsAre DEF Types, TypeOK, States, Pcs, Chans, SleepersHaveWakers, Children, Zombies
<1> QED
  BY <1>3, <1>4, <1>5, <1>6, <1>7, <1>8, <1>9, <1>10, <1>11, <1>12 DEF MInv

LEMMA ExitIoInv ==
  ASSUME MInv, NEW p \in Slots, ExitIo(p)
  PROVE  MInv'
<1>0. Types /\ CpuOwnerRuns /\ SleepEntered /\ VacantSlots /\ ForksApart
      /\ Family /\ ChansMatch /\ NoTicksLeft /\ SleepIsExact /\ SleepersHaveWakers
  BY DEF MInv
<1>1. /\ UNCHANGED <<inst, priority, nice, sleepTicks, killed, parent, pass, hp, cursor, tick, want, elapsed, child>>
      /\ proc = p /\ pc[p] = "exit"
      /\ io' = [io EXCEPT ![p] = TRUE]
      /\ proc' = 0
      /\ cpu' = [cpu EXCEPT ![p] = Charged(@)]
      /\ state' = [state EXCEPT ![p] = "SLEEPING"]
      /\ chan' = [chan EXCEPT ![p] = <<"io", p>>]
      /\ pc' = [pc EXCEPT ![p] = "exit_io"]
  BY DEF ExitIo, Resumed, StartIo, Goto, Block, Swtch
<1>2. state[p] \in {"RUNNING", "SLEEPING"}
  BY <1>0, <1>1, SlotsAre DEF CpuOwnerRuns, Marked
<1>3. Types'
  <2>1. cpu' \in [Slots -> 0 .. MaxCpu']
    <3>1. MaxCpu' = MaxCpu /\ MaxCpu \in Nat /\ cpu \in [Slots -> 0 .. MaxCpu]
      BY <1>0, <1>1, InstIs DEF Types, TypeOK, MaxCpu
    <3>2. Charged(cpu[p]) \in 0 .. MaxCpu
      BY <3>1 DEF Charged
    <3> QED
      BY <1>1, <3>1, <3>2
  <2>2. state' \in [Slots -> States]
    BY <1>0, <1>1 DEF Types, TypeOK, States
  <2>3. chan' \in [Slots -> Chans]
    <3>1. <<"io", p>> \in Chans
      BY DEF Chans
    <3> QED
      BY <1>0, <1>1, <3>1 DEF Types, TypeOK
  <2>4. pc' \in [Slots -> Pcs] /\ io' \in [Slots -> BOOLEAN] /\ proc' \in 0 .. NPROC
    BY <1>0, <1>1, SlotsAre DEF Types, TypeOK, Pcs
  <2> QED
    BY <1>0, <1>1, <2>1, <2>2, <2>3, <2>4 DEF Types, TypeOK, PERIOD
<1>4. CpuOwnerRuns'
  BY <1>0, <1>1, <1>2, SlotsAre DEF Types, TypeOK, States, Pcs, Chans, CpuOwnerRuns, Marked
<1>5. SleepEntered'
  BY <1>0, <1>1, <1>2, SlotsAre DEF Types, TypeOK, States, Pcs, Chans, SleepEntered
<1>6. VacantSlots'
  BY <1>0, <1>1, <1>2, SlotsAre DEF Types, TypeOK, States, Pcs, Chans, VacantSlots, Live
<1>7. ForksApart'
  BY <1>0, <1>1, <1>2, SlotsAre DEF Types, TypeOK, States, Pcs, Chans, ForksApart, Live
<1>8. Family'
  BY <1>0, <1>1, <1>2, SlotsAre DEF Types, TypeOK, States, Pcs, Chans, Family, Live
<1>9. ChansMatch'
  BY <1>0, <1>1, <1>2, SlotsAre DEF Types, TypeOK, States, Pcs, Chans, ChansMatch
<1>10. NoTicksLeft'
  BY <1>0, <1>1, <1>2, SlotsAre DEF Types, TypeOK, States, Pcs, Chans, NoTicksLeft, Live
<1>11. SleepIsExact'
  BY <1>0, <1>1, <1>2, SlotsAre DEF Types, TypeOK, States, Pcs, Chans, SleepIsExact, InSleep
<1>12. SleepersHaveWakers'
  BY <1>0, <1>1, <1>2, SlotsAre DEF Types, TypeOK, States, Pcs, Chans, SleepersHaveWakers, Children, Zombies
<1> QED
  BY <1>3, <1>4, <1>5, <1>6, <1>7, <1>8, <1>9, <1>10, <1>11, <1>12 DEF MInv

LEMMA IoAgainInv ==
  ASSUME MInv, NEW p \in Slots, IoAgain(p)
  PROVE  MInv'
<1>0. Types /\ CpuOwnerRuns /\ SleepEntered /\ VacantSlots /\ ForksApart
      /\ Family /\ ChansMatch /\ NoTicksLeft /\ SleepIsExact /\ SleepersHaveWakers
  BY DEF MInv
<1>1. /\ UNCHANGED <<inst, priority, nice, sleepTicks, killed, parent, pass, hp, cursor, tick, pc, want, elapsed, io, child>>
      /\ proc = p /\ pc[p] \in {"io", "exit_io"} /\ io[p]
      /\ proc' = 0
      /\ cpu' = [cpu EXCEPT ![p] = Charged(@)]
      /\ state' = [state EXCEPT ![p] = "SLEEPING"]
      /\ chan' = [chan EXCEPT ![p] = <<"io", p>>]
  BY DEF IoAgain, Resumed, Block, Swtch, calls
<1>2. state[p] = "RUNNING"
  BY <1>0, <1>1, SlotsAre DEF CpuOwnerRuns, Marked
<1>3. Types'
  <2>1. cpu' \in [Slots -> 0 .. MaxCpu']
    <3>1. MaxCpu' = MaxCpu /\ MaxCpu \in Nat /\ cpu \in [Slots -> 0 .. MaxCpu]
      BY <1>0, <1>1, InstIs DEF Types, TypeOK, MaxCpu
    <3>2. Charged(cpu[p]) \in 0 .. MaxCpu
      BY <3>1 DEF Charged
    <3> QED
      BY <1>1, <3>1, <3>2
  <2>2. state' \in [Slots -> States]
    BY <1>0, <1>1 DEF Types, TypeOK, States
  <2>3. chan' \in [Slots -> Chans]
    <3>1. <<"io", p>> \in Chans
      BY DEF Chans
    <3> QED
      BY <1>0, <1>1, <3>1 DEF Types, TypeOK
  <2>4. pc' \in [Slots -> Pcs] /\ io' \in [Slots -> BOOLEAN] /\ proc' \in 0 .. NPROC
    BY <1>0, <1>1, SlotsAre DEF Types, TypeOK, Pcs
  <2> QED
    BY <1>0, <1>1, <2>1, <2>2, <2>3, <2>4 DEF Types, TypeOK, PERIOD
<1>4. CpuOwnerRuns'
  BY <1>0, <1>1, <1>2, SlotsAre DEF Types, TypeOK, States, Pcs, Chans, CpuOwnerRuns, Marked
<1>5. SleepEntered'
  BY <1>0, <1>1, <1>2, SlotsAre DEF Types, TypeOK, States, Pcs, Chans, SleepEntered
<1>6. VacantSlots'
  BY <1>0, <1>1, <1>2, SlotsAre DEF Types, TypeOK, States, Pcs, Chans, VacantSlots, Live
<1>7. ForksApart'
  BY <1>0, <1>1, <1>2, SlotsAre DEF Types, TypeOK, States, Pcs, Chans, ForksApart, Live
<1>8. Family'
  BY <1>0, <1>1, <1>2, SlotsAre DEF Types, TypeOK, States, Pcs, Chans, Family, Live
<1>9. ChansMatch'
  BY <1>0, <1>1, <1>2, SlotsAre DEF Types, TypeOK, States, Pcs, Chans, ChansMatch
<1>10. NoTicksLeft'
  BY <1>0, <1>1, <1>2, SlotsAre DEF Types, TypeOK, States, Pcs, Chans, NoTicksLeft, Live
<1>11. SleepIsExact'
  BY <1>0, <1>1, <1>2, SlotsAre DEF Types, TypeOK, States, Pcs, Chans, SleepIsExact, InSleep
<1>12. SleepersHaveWakers'
  BY <1>0, <1>1, <1>2, SlotsAre DEF Types, TypeOK, States, Pcs, Chans, SleepersHaveWakers, Children, Zombies
<1> QED
  BY <1>3, <1>4, <1>5, <1>6, <1>7, <1>8, <1>9, <1>10, <1>11, <1>12 DEF MInv

LEMMA WaitReturnInv ==
  ASSUME MInv, NEW p \in Slots, WaitReturn(p)
  PROVE  MInv'
<1>0. Types /\ CpuOwnerRuns /\ SleepEntered /\ VacantSlots /\ ForksApart
      /\ Family /\ ChansMatch /\ NoTicksLeft /\ SleepIsExact /\ SleepersHaveWakers
  BY DEF MInv
<1>1. /\ UNCHANGED <<inst, state, priority, nice, cpu, sleepTicks, killed, parent, proc, pass, hp, cursor, tick, want, elapsed, io, child>>
      /\ proc = p /\ pc[p] \in {"call", "wait"}
      /\ chan' = [chan EXCEPT ![p] = NoChan]
      /\ pc' = [pc EXCEPT ![p] = "user"]
  BY DEF WaitReturn, InWait, Call, Resumed, Goto, sched, calls
<1>2. state[p] = "RUNNING"
  BY <1>0, <1>1, SlotsAre DEF CpuOwnerRuns, Marked
<1>3. Types'
  BY <1>0, <1>1, <1>2, SlotsAre DEF Types, TypeOK, States, Pcs, Chans, MaxCpu, PERIOD
<1>4. CpuOwnerRuns'
  BY <1>0, <1>1, <1>2, SlotsAre DEF Types, TypeOK, States, Pcs, Chans, CpuOwnerRuns, Marked
<1>5. SleepEntered'
  BY <1>0, <1>1, <1>2, SlotsAre DEF Types, TypeOK, States, Pcs, Chans, SleepEntered
<1>6. VacantSlots'
  BY <1>0, <1>1, <1>2, SlotsAre DEF Types, TypeOK, States, Pcs, Chans, VacantSlots, Live
<1>7. ForksApart'
  BY <1>0, <1>1, <1>2, SlotsAre DEF Types, TypeOK, States, Pcs, Chans, ForksApart, Live
<1>8. Family'
  BY <1>0, <1>1, <1>2, SlotsAre DEF Types, TypeOK, States, Pcs, Chans, Family, Live
<1>9. ChansMatch'
  BY <1>0, <1>1, <1>2, SlotsAre DEF Types, TypeOK, States, Pcs, Chans, ChansMatch
<1>10. NoTicksLeft'
  BY <1>0, <1>1, <1>2, SlotsAre DEF Types, TypeOK, States, Pcs, Chans, NoTicksLeft, Live
<1>11. SleepIsExact'
  BY <1>0, <1>1, <1>2, SlotsAre DEF Types, TypeOK, States, Pcs, Chans, SleepIsExact, InSleep
<1>12. SleepersHaveWakers'
  BY <1>0, <1>1, <1>2, SlotsAre DEF Types, TypeOK, States, Pcs, Chans, SleepersHaveWakers, Children, Zombies
<1> QED
  BY <1>3, <1>4, <1>5, <1>6, <1>7, <1>8, <1>9, <1>10, <1>11, <1>12 DEF MInv

LEMMA WaitSleepInv ==
  ASSUME MInv, NEW p \in Slots, WaitSleep(p)
  PROVE  MInv'
<1>0. Types /\ CpuOwnerRuns /\ SleepEntered /\ VacantSlots /\ ForksApart
      /\ Family /\ ChansMatch /\ NoTicksLeft /\ SleepIsExact /\ SleepersHaveWakers
  BY DEF MInv
<1>1. /\ UNCHANGED <<inst, priority, nice, sleepTicks, killed, parent, pass, hp, cursor, tick, want, elapsed, io, child>>
      /\ proc = p /\ pc[p] \in {"call", "wait"} /\ Zombies(p) = {} /\ Children(p) # {}
      /\ proc' = 0
      /\ cpu' = [cpu EXCEPT ![p] = Charged(@)]
      /\ state' = [state EXCEPT ![p] = "SLEEPING"]
      /\ chan' = [chan EXCEPT ![p] = <<"wait", p>>]
      /\ pc' = [pc EXCEPT ![p] = "wait"]
  BY DEF WaitSleep, InWait, Call, Resumed, Goto, Block, Swtch, calls
<1>2. state[p] = "RUNNING"
  BY <1>0, <1>1, SlotsAre DEF CpuOwnerRuns, Marked
<1>3. Types'
  <2>1. cpu' \in [Slots -> 0 .. MaxCpu']
    <3>1. MaxCpu' = MaxCpu /\ MaxCpu \in Nat /\ cpu \in [Slots -> 0 .. MaxCpu]
      BY <1>0, <1>1, InstIs DEF Types, TypeOK, MaxCpu
    <3>2. Charged(cpu[p]) \in 0 .. MaxCpu
      BY <3>1 DEF Charged
    <3> QED
      BY <1>1, <3>1, <3>2
  <2>2. state' \in [Slots -> States]
    BY <1>0, <1>1 DEF Types, TypeOK, States
  <2>3. chan' \in [Slots -> Chans]
    <3>1. <<"wait", p>> \in Chans
      BY DEF Chans
    <3> QED
      BY <1>0, <1>1, <3>1 DEF Types, TypeOK
  <2>4. pc' \in [Slots -> Pcs] /\ io' \in [Slots -> BOOLEAN] /\ proc' \in 0 .. NPROC
    BY <1>0, <1>1, SlotsAre DEF Types, TypeOK, Pcs
  <2> QED
    BY <1>0, <1>1, <2>1, <2>2, <2>3, <2>4 DEF Types, TypeOK, PERIOD
<1>4. CpuOwnerRuns'
  BY <1>0, <1>1, <1>2, SlotsAre DEF Types, TypeOK, States, Pcs, Chans, CpuOwnerRuns, Marked
<1>5. SleepEntered'
  BY <1>0, <1>1, <1>2, SlotsAre DEF Types, TypeOK, States, Pcs, Chans, SleepEntered
<1>6. VacantSlots'
  BY <1>0, <1>1, <1>2, SlotsAre DEF Types, TypeOK, States, Pcs, Chans, VacantSlots, Live
<1>7. ForksApart'
  BY <1>0, <1>1, <1>2, SlotsAre DEF Types, TypeOK, States, Pcs, Chans, ForksApart, Live
<1>8. Family'
  BY <1>0, <1>1, <1>2, SlotsAre DEF Types, TypeOK, States, Pcs, Chans, Family, Live
<1>9. ChansMatch'
  BY <1>0, <1>1, <1>2, SlotsAre DEF Types, TypeOK, States, Pcs, Chans, ChansMatch
<1>10. NoTicksLeft'
  BY <1>0, <1>1, <1>2, SlotsAre DEF Types, TypeOK, States, Pcs, Chans, NoTicksLeft, Live
<1>11. SleepIsExact'
  BY <1>0, <1>1, <1>2, SlotsAre DEF Types, TypeOK, States, Pcs, Chans, SleepIsExact, InSleep
<1>12. SleepersHaveWakers'
  BY <1>0, <1>1, <1>2, SlotsAre DEF Types, TypeOK, States, Pcs, Chans, SleepersHaveWakers, Children, Zombies
<1> QED
  BY <1>3, <1>4, <1>5, <1>6, <1>7, <1>8, <1>9, <1>10, <1>11, <1>12 DEF MInv

LEMMA KillInv ==
  ASSUME MInv, NEW p \in Slots, NEW q \in Slots, Kill(p, q)
  PROVE  MInv'
<1>0. Types /\ CpuOwnerRuns /\ SleepEntered /\ VacantSlots /\ ForksApart
      /\ Family /\ ChansMatch /\ NoTicksLeft /\ SleepIsExact /\ SleepersHaveWakers
  BY DEF MInv
<1>1. /\ UNCHANGED <<inst, priority, nice, cpu, sleepTicks, chan, parent, proc, pass, hp, cursor, tick, want, elapsed, io, child>>
      /\ proc = p /\ pc[p] = "call" /\ q # initproc
      /\ pc' = [pc EXCEPT ![p] = "user"]
      /\ killed' = [killed EXCEPT ![q] = TRUE]
      /\ state' = [state EXCEPT ![q] = IF @ = "SLEEPING" THEN "RUNNABLE" ELSE @]
  BY <1>0, SlotsAre DEF Kill, Call, Goto, sched, calls, Found, InUse, Family, Live
<1>2. state[p] = "RUNNING" /\ (state[q] = "SLEEPING" => q # p /\ pc[q] # "sleep")
  BY <1>0, <1>1, SlotsAre DEF CpuOwnerRuns, Marked, SleepEntered
<1>3. Types'
  BY <1>0, <1>1, <1>2, SlotsAre DEF Types, TypeOK, States, Pcs, Chans, MaxCpu, PERIOD
<1>4. CpuOwnerRuns'
  BY <1>0, <1>1, <1>2, SlotsAre DEF Types, TypeOK, States, Pcs, Chans, CpuOwnerRuns, Marked
<1>5. SleepEntered'
  BY <1>0, <1>1, <1>2, SlotsAre DEF Types, TypeOK, States, Pcs, Chans, SleepEntered
<1>6. VacantSlots'
  BY <1>0, <1>1, <1>2, SlotsAre DEF Types, TypeOK, States, Pcs, Chans, VacantSlots, Live
<1>7. ForksApart'
  BY <1>0, <1>1, <1>2, SlotsAre DEF Types, TypeOK, States, Pcs, Chans, ForksApart, Live
<1>8. Family'
  BY <1>0, <1>1, <1>2, SlotsAre DEF Types, TypeOK, States, Pcs, Chans, Family, Live
<1>9. ChansMatch'
  BY <1>0, <1>1, <1>2, SlotsAre DEF Types, TypeOK, States, Pcs, Chans, ChansMatch
<1>10. NoTicksLeft'
  BY <1>0, <1>1, <1>2, SlotsAre DEF Types, TypeOK, States, Pcs, Chans, NoTicksLeft, Live
<1>11. SleepIsExact'
  BY <1>0, <1>1, <1>2, SlotsAre DEF Types, TypeOK, States, Pcs, Chans, SleepIsExact, InSleep
<1>12. SleepersHaveWakers'
  BY <1>0, <1>1, <1>2, SlotsAre DEF Types, TypeOK, States, Pcs, Chans, SleepersHaveWakers, Children, Zombies
<1> QED
  BY <1>3, <1>4, <1>5, <1>6, <1>7, <1>8, <1>9, <1>10, <1>11, <1>12 DEF MInv

LEMMA ForkInv ==
  ASSUME MInv, NEW p \in Slots, Fork(p)
  PROVE  MInv'
<1>0. Types /\ CpuOwnerRuns /\ SleepEntered /\ VacantSlots /\ ForksApart
      /\ Family /\ ChansMatch /\ NoTicksLeft /\ SleepIsExact /\ SleepersHaveWakers
  BY DEF MInv
<1>1. /\ UNCHANGED <<inst, priority, nice, cpu, sleepTicks, chan, killed, parent, proc, pass, hp, cursor, tick, want, elapsed, io>>
      /\ proc = p /\ pc[p] = "call"
      /\ \E c \in Slots : /\ state[c] = "UNUSED"
                         /\ state' = [state EXCEPT ![c] = "EMBRYO"]
                         /\ child' = [child EXCEPT ![p] = c]
      /\ pc' = [pc EXCEPT ![p] = "fork"]
  BY <1>0, InstIs DEF Fork, Call, Goto, sched, InUse
<1>2. state[p] = "RUNNING"
  BY <1>0, <1>1, SlotsAre DEF CpuOwnerRuns, Marked
<1>3. Types'
  BY <1>0, <1>1, <1>2, SlotsAre DEF Types, TypeOK, States, Pcs, Chans, MaxCpu, PERIOD
<1>4. CpuOwnerRuns'
  BY <1>0, <1>1, <1>2, SlotsAre DEF Types, TypeOK, States, Pcs, Chans, CpuOwnerRuns, Marked
<1>5. SleepEntered'
  BY <1>0, <1>1, <1>2, SlotsAre DEF Types, TypeOK, States, Pcs, Chans, SleepEntered
<1>6. VacantSlots'
  BY <1>0, <1>1, <1>2, SlotsAre DEF Types, TypeOK, States, Pcs, Chans, VacantSlots, Live
<1>7. ForksApart'
  BY <1>0, <1>1, <1>2, SlotsAre DEF Types, TypeOK, States, Pcs, Chans, ForksApart, Live
<1>8. Family'
  BY <1>0, <1>1, <1>2, SlotsAre DEF Types, TypeOK, States, Pcs, Chans, Family, Live
<1>9. ChansMatch'
  BY <1>0, <1>1, <1>2, SlotsAre DEF Types, TypeOK, States, Pcs, Chans, ChansMatch
<1>10. NoTicksLeft'
  BY <1>0, <1>1, <1>2, SlotsAre DEF Types, TypeOK, States, Pcs, Chans, NoTicksLeft, Live
<1>11. SleepIsExact'
  BY <1>0, <1>1, <1>2, SlotsAre DEF Types, TypeOK, States, Pcs, Chans, SleepIsExact, InSleep, VacantSlots, Live
<1>12. SleepersHaveWakers'
  BY <1>0, <1>1, <1>2, SlotsAre DEF Types, TypeOK, States, Pcs, Chans, SleepersHaveWakers, Children, Zombies
<1> QED
  BY <1>3, <1>4, <1>5, <1>6, <1>7, <1>8, <1>9, <1>10, <1>11, <1>12 DEF MInv

LEMMA ForkReturnInv ==
  ASSUME MInv, NEW p \in Slots, ForkReturn(p)
  PROVE  MInv'
<1>0. Types /\ CpuOwnerRuns /\ SleepEntered /\ VacantSlots /\ ForksApart
      /\ Family /\ ChansMatch /\ NoTicksLeft /\ SleepIsExact /\ SleepersHaveWakers
  BY DEF MInv
<1>1. /\ UNCHANGED <<inst, chan, killed, proc, pass, hp, cursor, tick, want, elapsed, io>>
      /\ proc = p /\ pc[p] = "fork"
      /\ parent' = [parent EXCEPT ![child[p]] = p]
      /\ state' = [state EXCEPT ![child[p]] = "RUNNABLE"]
      /\ nice' = [nice EXCEPT ![child[p]] = 0]
      /\ priority' = [priority EXCEPT ![child[p]] = 0]
      /\ sleepTicks' = [sleepTicks EXCEPT ![child[p]] = 0]
      /\ cpu' = [cpu EXCEPT ![child[p]] = 0]
      /\ pc' = [pc EXCEPT ![p] = "user", ![child[p]] = "user"]
      /\ child' = [child EXCEPT ![p] = 0]
  BY DEF ForkReturn, Resumed, sched
<1>2. state[p] = "RUNNING" /\ child[p] # 0
  BY <1>0, <1>1, SlotsAre DEF CpuOwnerRuns, Marked, ForksApart
<1>3. child[p] \in Slots
  <2>1. child[p] \in 0 .. NPROC
    BY <1>0, SlotsAre DEF Types, TypeOK
  <2>2. QED
    BY <1>2, <2>1, SlotsAre DEF Slots
<1>4. state[child[p]] = "EMBRYO" /\ child[p] # p /\ pc[child[p]] \in {"user", "exit"} /\ parent[child[p]] = 0
  BY <1>0, <1>1, <1>2, <1>3 DEF ForksApart, VacantSlots, Live
<1>5. Types'
  <2>1. MaxCpu' = MaxCpu /\ MaxCpu \in Nat
    BY <1>0, <1>1, InstIs DEF MaxCpu
  <2>2. cpu' \in [Slots -> 0 .. MaxCpu'] /\ parent' \in [Slots -> 0 .. NPROC] /\ child' \in [Slots -> 0 .. NPROC]
    BY <1>0, <1>1, <1>3, <2>1, SlotsAre DEF Types, TypeOK
  <2>3. /\ state' \in [Slots -> States] /\ pc' \in [Slots -> Pcs]
        /\ nice' \in [Slots -> Nat] /\ priority' \in [Slots -> Nat] /\ sleepTicks' \in [Slots -> Int]
    BY <1>0, <1>1, <1>3 DEF Types, TypeOK, States, Pcs
  <2> QED
    BY <1>0, <1>1, <2>2, <2>3 DEF Types, TypeOK, PERIOD
<1>6. CpuOwnerRuns'
  BY <1>0, <1>1, <1>2, <1>3, <1>4, SlotsAre DEF Types, TypeOK, States, Pcs, Chans, CpuOwnerRuns, Marked
<1>7. SleepEntered'
  BY <1>0, <1>1, <1>2, <1>3, <1>4, SlotsAre DEF Types, TypeOK, States, Pcs, Chans, SleepEntered
<1>8. VacantSlots'
  BY <1>0, <1>1, <1>2, <1>3, <1>4, SlotsAre DEF Types, TypeOK, States, Pcs, Chans, VacantSlots, Live
<1>9. ForksApart'
  BY <1>0, <1>1, <1>2, <1>3, <1>4, SlotsAre DEF Types, TypeOK, States, Pcs, Chans, ForksApart, VacantSlots, Live
<1>10. Family'
  BY <1>0, <1>1, <1>2, <1>3, <1>4, SlotsAre DEF Types, TypeOK, States, Pcs, Chans, Family, Live, VacantSlots
<1>11. ChansMatch'
  BY <1>0, <1>1, <1>2, <1>3, <1>4, SlotsAre DEF Types, TypeOK, States, Pcs, Chans, ChansMatch, VacantSlots, Live
<1>12. NoTicksLeft'
  BY <1>0, <1>1, <1>2, <1>3, <1>4, SlotsAre DEF Types, TypeOK, States, Pcs, Chans, NoTicksLeft, Live
<1>13. SleepIsExact'
  BY <1>0, <1>1, <1>2, <1>3, <1>4, SlotsAre DEF Types, TypeOK, States, Pcs, Chans, SleepIsExact, InSleep
<1>14. SleepersHaveWakers'
  BY <1>0, <1>1, <1>2, <1>3, <1>4, SlotsAre DEF Types, TypeOK, States, Pcs, Chans, SleepersHaveWakers, Children, Zombies, VacantSlots
<1> QED
  BY <1>5, <1>6, <1>7, <1>8, <1>9, <1>10, <1>11, <1>12, <1>13, <1>14 DEF MInv

(* Who sleeps on a channel sleeps in the call that the channel belongs to. *)
LEMMA ChansApart ==
  ASSUME Types, ChansMatch, NEW q \in Slots
  PROVE  /\ chan[q] = TicksChan <=> pc[q] = "ticks"
         /\ \A x : chan[q] = <<"io", x>> <=> x = q /\ pc[q] \in {"io", "exit_io"}
         /\ \A x : chan[q] = <<"wait", x>> <=> x = q /\ pc[q] = "wait"
<1>1. pc[q] \in Pcs
  BY DEF Types, TypeOK
<1>2. /\ TicksChan # NoChan
      /\ \A x : <<"io", x>> # NoChan /\ <<"io", x>> # TicksChan
      /\ \A x : <<"wait", x>> # NoChan /\ <<"wait", x>> # TicksChan
      /\ \A x, y : <<"io", x>> # <<"wait", y>>
      /\ \A x, y : <<"io", x>> = <<"io", y>> => x = y
      /\ \A x, y : <<"wait", x>> = <<"wait", y>> => x = y
  BY DEF NoChan, TicksChan
<1> QED
  BY <1>1, <1>2 DEF ChansMatch, Pcs

(* wakeup1 counts down the sleepers of its channel and wakes those at 0. *)
LEMMA WokenIs ==
  ASSUME Types, NEW st \in [Slots -> States], NEW c
  PROVE  /\ Woken(st, c) \in [Slots -> States] /\ CountDown(st, c) \in [Slots -> Int]
         /\ \A q \in Slots : st[q] = "SLEEPING" /\ chan[q] = c =>
              /\ CountDown(st, c)[q] = IF sleepTicks[q] > 0 THEN sleepTicks[q] - 1 ELSE sleepTicks[q]
              /\ Woken(st, c)[q] = IF sleepTicks[q] <= 1 THEN "RUNNABLE" ELSE "SLEEPING"
         /\ \A q \in Slots : ~(st[q] = "SLEEPING" /\ chan[q] = c) =>
              CountDown(st, c)[q] = sleepTicks[q] /\ Woken(st, c)[q] = st[q]
<1>0. sleepTicks \in [Slots -> Int]
  BY DEF Types, TypeOK
<1>1. /\ CountDown(st, c) \in [Slots -> Int]
      /\ \A q \in Slots : CountDown(st, c)[q] = IF st[q] = "SLEEPING" /\ chan[q] = c /\ sleepTicks[q] > 0
                                                THEN sleepTicks[q] - 1 ELSE sleepTicks[q]
  BY <1>0 DEF CountDown, Asleep
<1>2. /\ Woken(st, c) \in [Slots -> States]
      /\ \A q \in Slots : Woken(st, c)[q] = IF st[q] = "SLEEPING" /\ chan[q] = c /\ CountDown(st, c)[q] <= 0
                                            THEN "RUNNABLE" ELSE st[q]
  BY DEF Woken, Asleep, States
<1> QED
  BY <1>0, <1>1, <1>2

LEMMA DiskInterruptInv ==
  ASSUME MInv, NEW p \in Slots, DiskInterrupt(p)
  PROVE  MInv'
<1>0. Types /\ CpuOwnerRuns /\ SleepEntered /\ VacantSlots /\ ForksApart
      /\ Family /\ ChansMatch /\ NoTicksLeft /\ SleepIsExact /\ SleepersHaveWakers
  BY DEF MInv
<1>1. /\ UNCHANGED <<inst, priority, nice, cpu, chan, killed, parent, proc, pass, hp, cursor, tick, pc, want, elapsed, child>>
      /\ io[p] /\ io' = [io EXCEPT ![p] = FALSE]
      /\ state' = Woken(state, <<"io", p>>)
      /\ sleepTicks' = CountDown(state, <<"io", p>>)
  BY DEF DiskInterrupt, sched
<1>2. state' \in [Slots -> States] /\ sleepTicks' \in [Slots -> Int]
  BY <1>0, <1>1, WokenIs DEF Types, TypeOK
<1>3. \A q \in Slots : IF state[q] = "SLEEPING" /\ q = p /\ pc[p] \in {"io", "exit_io"}
                       THEN /\ sleepTicks'[q] = IF sleepTicks[q] > 0 THEN sleepTicks[q] - 1 ELSE sleepTicks[q]
                            /\ state'[q] = IF sleepTicks[q] <= 1 THEN "RUNNABLE" ELSE "SLEEPING"
                       ELSE sleepTicks'[q] = sleepTicks[q] /\ state'[q] = state[q]
  <2> SUFFICES ASSUME NEW q \in Slots
               PROVE  IF state[q] = "SLEEPING" /\ q = p /\ pc[p] \in {"io", "exit_io"}
                      THEN /\ sleepTicks'[q] = IF sleepTicks[q] > 0 THEN sleepTicks[q] - 1 ELSE sleepTicks[q]
                           /\ state'[q] = IF sleepTicks[q] <= 1 THEN "RUNNABLE" ELSE "SLEEPING"
                      ELSE sleepTicks'[q] = sleepTicks[q] /\ state'[q] = state[q]
    OBVIOUS
  <2>1. chan[q] = <<"io", p>> <=> q = p /\ pc[p] \in {"io", "exit_io"}
    BY <1>0, ChansApart
  <2>2. state \in [Slots -> States]
    BY <1>0 DEF Types, TypeOK
  <2> DEFINE c == <<"io", p>>
  <2>3. state' = Woken(state, c) /\ sleepTicks' = CountDown(state, c)
    BY <1>1
  <2>4. chan[q] = c <=> q = p /\ pc[p] \in {"io", "exit_io"}
    BY <2>1
  <2> HIDE DEF c
  <2> QED
    BY <1>0, <2>2, <2>3, <2>4, WokenIs
<1>4. \A q \in Slots : state'[q] = state[q] \/ (state[q] = "SLEEPING" /\ state'[q] = "RUNNABLE" /\ pc[q] # "sleep")
  BY <1>3
<1>5. /\ UNCHANGED <<chan, killed, parent, proc, pc, want, elapsed, child>>
      /\ \A q \in Slots : io'[q] = (io[q] /\ q # p)
  BY <1>0, <1>1 DEF Types, TypeOK
<1>6. Types'
  BY <1>0, <1>1, <1>2, SlotsAre DEF Types, TypeOK, States, Pcs, Chans, MaxCpu, PERIOD
<1>7. CpuOwnerRuns'
  <2>1. \A q \in Slots : state[q] = "RUNNING" => state'[q] = "RUNNING"
    BY <1>4
  <2>2. \A q \in Slots : state'[q] = "RUNNING" => state[q] = "RUNNING"
    BY <1>4
  <2>3. proc # 0 => proc \in Slots
    BY <1>0 DEF Types, TypeOK, Slots
  <2>4. proc # 0 /\ Marked(proc) => Marked(proc)'
    <3> SUFFICES ASSUME proc # 0, Marked(proc) PROVE Marked(proc)'
      OBVIOUS
    <3>1. pc[proc] \notin {"io", "exit_io"} /\ state[proc] = "SLEEPING"
      BY DEF Marked
    <3>2. state'[proc] = state[proc]
      BY <1>3, <2>3, <3>1
    <3> QED
      BY <1>5, <3>1, <3>2 DEF Marked
  <2> QED
    BY <1>0, <1>5, <2>1, <2>2, <2>3, <2>4 DEF CpuOwnerRuns
<1>8. SleepEntered'
  BY <1>0, <1>1, <1>2, <1>3, <1>4, <1>5, SlotsAre DEF Types, TypeOK, States, Pcs, Chans, SleepEntered
<1>9. VacantSlots'
  BY <1>0, <1>1, <1>2, <1>3, <1>4, <1>5, SlotsAre DEF Types, TypeOK, States, Pcs, Chans, VacantSlots, Live
<1>10. ForksApart'
  <2>1. \A q \in Slots : state[q] = "EMBRYO" => state'[q] = "EMBRYO"
    BY <1>4
  <2>2. \A q \in Slots : child[q] # 0 => child[q] \in Slots
    BY <1>0 DEF Types, TypeOK, Slots
  <2> QED
    BY <1>0, <1>5, <2>1, <2>2 DEF ForksApart
<1>11. Family'
  BY <1>0, <1>1, <1>2, <1>3, <1>4, <1>5, SlotsAre DEF Types, TypeOK, States, Pcs, Chans, Family, Live
<1>12. ChansMatch'
  BY <1>0, <1>1, <1>2, <1>3, <1>4, <1>5, SlotsAre DEF Types, TypeOK, States, Pcs, Chans, ChansMatch
<1>13. NoTicksLeft'
  BY <1>0, <1>1, <1>2, <1>3, <1>4, <1>5, SlotsAre DEF Types, TypeOK, States, Pcs, Chans, NoTicksLeft, Live
<1>14. SleepIsExact'
  BY <1>0, <1>1, <1>2, <1>3, <1>4, <1>5, SlotsAre DEF Types, TypeOK, States, Pcs, Chans, SleepIsExact, InSleep
<1>15. SleepersHaveWakers'
  <2>1. ASSUME NEW q \in Slots, state'[q] = "SLEEPING", ~killed'[q]
        PROVE  /\ pc'[q] \in {"io", "exit_io"} => io'[q]
               /\ pc'[q] = "wait" => Children(q)' # {} /\ Zombies(q)' = {}
    <3>1. state[q] = "SLEEPING" /\ ~killed[q] /\ pc'[q] = pc[q]
      BY <1>4, <1>5, <2>1
    <3>2. pc[q] \in {"io", "exit_io"} => io'[q]
      <4>1. CASE q = p
        <5>1. pc[q] \in {"io", "exit_io"} => sleepTicks[q] = 0
          BY <1>0, <3>1 DEF NoTicksLeft, Live
        <5> QED
          BY <1>3, <2>1, <3>1, <4>1, <5>1
      <4>2. CASE q # p
        BY <1>0, <1>5, <3>1, <4>2 DEF SleepersHaveWakers
      <4> QED
        BY <4>1, <4>2
    <3>3. Children(q)' = Children(q)
      BY <1>5 DEF Children
    <3>4. \A c \in Slots : state'[c] = "ZOMBIE" <=> state[c] = "ZOMBIE"
      BY <1>4
    <3>5. Zombies(q)' = Zombies(q)
      BY <3>3, <3>4 DEF Zombies, Children
    <3> QED
      BY <1>0, <3>1, <3>2, <3>3, <3>5 DEF SleepersHaveWakers
  <2> QED
    BY <2>1 DEF SleepersHaveWakers
<1> QED
  BY <1>6, <1>7, <1>8, <1>9, <1>10, <1>11, <1>12, <1>13, <1>14, <1>15 DEF MInv

LEMMA ReapInv ==
  ASSUME MInv, NEW p \in Slots, Reap(p)
  PROVE  MInv'
<1>0. Types /\ CpuOwnerRuns /\ SleepEntered /\ VacantSlots /\ ForksApart
      /\ Family /\ ChansMatch /\ NoTicksLeft /\ SleepIsExact /\ SleepersHaveWakers
  BY DEF MInv
<1>1. /\ UNCHANGED <<inst, priority, nice, cpu, sleepTicks, proc, pass, hp, cursor, tick, want, elapsed, io, child>>
      /\ proc = p /\ pc[p] \in {"call", "wait"}
      /\ chan' = [chan EXCEPT ![p] = NoChan]
      /\ pc' = [pc EXCEPT ![p] = "user"]
      /\ \E c \in Slots : /\ parent[c] = p /\ state[c] = "ZOMBIE"
                         /\ state' = [state EXCEPT ![c] = "UNUSED"]
                         /\ parent' = [parent EXCEPT ![c] = 0]
                         /\ killed' = [killed EXCEPT ![c] = FALSE]
  BY DEF Reap, InWait, Call, Resumed, Goto, sched, calls, Zombies, Children
<1>2. state[p] = "RUNNING"
  BY <1>0, <1>1, SlotsAre DEF CpuOwnerRuns, Marked
<1>3. Types'
  BY <1>0, <1>1, <1>2, SlotsAre DEF Types, TypeOK, States, Pcs, Chans, MaxCpu, PERIOD
<1>4. CpuOwnerRuns'
  BY <1>0, <1>1, <1>2, SlotsAre DEF Types, TypeOK, States, Pcs, Chans, CpuOwnerRuns, Marked
<1>5. SleepEntered'
  BY <1>0, <1>1, <1>2, SlotsAre DEF Types, TypeOK, States, Pcs, Chans, SleepEntered, VacantSlots, Live
<1>6. VacantSlots'
  BY <1>0, <1>1, <1>2, SlotsAre DEF Types, TypeOK, States, Pcs, Chans, VacantSlots, Live
<1>7. ForksApart'
  BY <1>0, <1>1, <1>2, SlotsAre DEF Types, TypeOK, States, Pcs, Chans, ForksApart, Live
<1>8. Family'
  BY <1>0, <1>1, <1>2, SlotsAre DEF Types, TypeOK, States, Pcs, Chans, Family, Live
<1>9. ChansMatch'
  BY <1>0, <1>1, <1>2, SlotsAre DEF Types, TypeOK, States, Pcs, Chans, ChansMatch
<1>10. NoTicksLeft'
  BY <1>0, <1>1, <1>2, SlotsAre DEF Types, TypeOK, States, Pcs, Chans, NoTicksLeft, Live
<1>11. SleepIsExact'
  BY <1>0, <1>1, <1>2, SlotsAre DEF Types, TypeOK, States, Pcs, Chans, SleepIsExact, InSleep, VacantSlots, Live
<1>12. SleepersHaveWakers'
  BY <1>0, <1>1, <1>2, SlotsAre DEF Types, TypeOK, States, Pcs, Chans, SleepersHaveWakers, Children, Zombies
<1> QED
  BY <1>3, <1>4, <1>5, <1>6, <1>7, <1>8, <1>9, <1>10, <1>11, <1>12 DEF MInv

LEMMA ZombieInv ==
  ASSUME MInv, NEW p \in Slots, Zombie(p)
  PROVE  MInv'
<1>0. Types /\ CpuOwnerRuns /\ SleepEntered /\ VacantSlots /\ ForksApart
      /\ Family /\ ChansMatch /\ NoTicksLeft /\ SleepIsExact /\ SleepersHaveWakers
  BY DEF MInv
<1>1. /\ UNCHANGED <<inst, priority, nice, killed, pass, hp, cursor, tick, want, elapsed, io, child>>
      /\ proc = p /\ pc[p] \in {"exit", "exit_io"}
      /\ LET toParent == <<"wait", parent[p]>>
             woken == Woken(state, toParent)
             alsoInit == IF \E q \in Slots : parent[q] = p /\ state[q] = "ZOMBIE"
                         THEN Woken(woken, <<"wait", initproc>>) ELSE woken
         IN  state' = [alsoInit EXCEPT ![p] = "ZOMBIE"] /\ sleepTicks' = CountDown(state, toParent)
      /\ parent' = [q \in Slots |-> IF parent[q] = p THEN initproc ELSE parent[q]]
      /\ chan' = [chan EXCEPT ![p] = NoChan]
      /\ proc' = 0
      /\ cpu' = [cpu EXCEPT ![p] = Charged(@)]
      /\ pc' = [pc EXCEPT ![p] = "exit"]
  BY DEF Zombie, Resumed, Goto, Swtch, calls
<1>2. state[p] \in {"RUNNING", "SLEEPING"} /\ p # initproc
  BY <1>0, <1>1, SlotsAre DEF CpuOwnerRuns, Marked, Family
<1>3. /\ UNCHANGED <<inst, priority, nice, killed, pass, hp, cursor, tick, want, elapsed, io, child>>
      /\ proc = p /\ pc[p] \in {"exit", "exit_io"}
      /\ parent' = [q \in Slots |-> IF parent[q] = p THEN initproc ELSE parent[q]]
      /\ chan' = [chan EXCEPT ![p] = NoChan]
      /\ proc' = 0
      /\ cpu' = [cpu EXCEPT ![p] = Charged(@)]
      /\ pc' = [pc EXCEPT ![p] = "exit"]
  BY <1>1
<1>4. /\ state' \in [Slots -> States] /\ sleepTicks' \in [Slots -> Int] /\ state'[p] = "ZOMBIE"
      /\ \A q \in Slots : q # p =>
           /\ state'[q] = state[q] \/ (state[q] = "SLEEPING" /\ state'[q] = "RUNNABLE" /\ pc[q] = "wait")
           /\ q = parent[p] /\ pc[q] = "wait" /\ sleepTicks[q] = 0 => state'[q] # "SLEEPING"
           /\ q = initproc /\ pc[q] = "wait" /\ sleepTicks[q] = 0
                /\ (\E o \in Slots : parent[o] = p /\ state[o] = "ZOMBIE") => state'[q] # "SLEEPING"
      /\ \A q \in Slots :
           sleepTicks'[q] = sleepTicks[q] \/ (pc[q] = "wait" /\ (sleepTicks[q] = 0 => sleepTicks'[q] = 0))
  <2> DEFINE c == <<"wait", parent[p]>>
             d == <<"wait", initproc>>
             st == Woken(state, c)
             su == Woken(st, d)
  <2>0. state \in [Slots -> States] /\ sleepTicks \in [Slots -> Int] /\ Types
    BY <1>0 DEF Types, TypeOK
  <2>1. /\ \A q \in Slots : chan[q] = c <=> parent[p] = q /\ pc[q] = "wait"
        /\ \A q \in Slots : chan[q] = d <=> initproc = q /\ pc[q] = "wait"
    BY <1>0, ChansApart
  <2>2. /\ sleepTicks' = CountDown(state, c)
        /\ \/ (\E o \in Slots : parent[o] = p /\ state[o] = "ZOMBIE") /\ state' = [su EXCEPT ![p] = "ZOMBIE"]
           \/ ~(\E o \in Slots : parent[o] = p /\ state[o] = "ZOMBIE") /\ state' = [st EXCEPT ![p] = "ZOMBIE"]
    BY <1>1
  <2> HIDE DEF c, d
  <2>3. /\ st \in [Slots -> States] /\ CountDown(state, c) \in [Slots -> Int]
        /\ \A q \in Slots : state[q] = "SLEEPING" /\ chan[q] = c =>
             /\ CountDown(state, c)[q] = IF sleepTicks[q] > 0 THEN sleepTicks[q] - 1 ELSE sleepTicks[q]
             /\ st[q] = IF sleepTicks[q] <= 1 THEN "RUNNABLE" ELSE "SLEEPING"
        /\ \A q \in Slots : ~(state[q] = "SLEEPING" /\ chan[q] = c) =>
             CountDown(state, c)[q] = sleepTicks[q] /\ st[q] = state[q]
    BY <2>0, WokenIs
  <2> HIDE DEF st
  <2>4. /\ su \in [Slots -> States]
        /\ \A q \in Slots : st[q] = "SLEEPING" /\ chan[q] = d =>
             su[q] = IF sleepTicks[q] <= 1 THEN "RUNNABLE" ELSE "SLEEPING"
        /\ \A q \in Slots : ~(st[q] = "SLEEPING" /\ chan[q] = d) => su[q] = st[q]
    BY <2>0, <2>3, WokenIs
  <2> HIDE DEF su
  <2>5. state' \in [Slots -> States] /\ sleepTicks' \in [Slots -> Int]
    BY <2>2, <2>3, <2>4 DEF States
  <2>6. state'[p] = "ZOMBIE"
    BY <2>2, <2>3, <2>4
  <2>7. ASSUME NEW q \in Slots, q # p
        PROVE  /\ state'[q] = state[q] \/ (state[q] = "SLEEPING" /\ state'[q] = "RUNNABLE" /\ pc[q] = "wait")
               /\ q = parent[p] /\ pc[q] = "wait" /\ sleepTicks[q] = 0 => state'[q] # "SLEEPING"
               /\ q = initproc /\ pc[q] = "wait" /\ sleepTicks[q] = 0
                    /\ (\E o \in Slots : parent[o] = p /\ state[o] = "ZOMBIE") => state'[q] # "SLEEPING"
    <3>1. state'[q] = IF \E o \in Slots : parent[o] = p /\ state[o] = "ZOMBIE" THEN su[q] ELSE st[q]
      BY <2>2, <2>3, <2>4, <2>7
    <3>2. st[q] = IF state[q] = "SLEEPING" /\ parent[p] = q /\ pc[q] = "wait" /\ sleepTicks[q] <= 1
                  THEN "RUNNABLE" ELSE state[q]
      BY <2>1, <2>3
    <3>3. su[q] = IF st[q] = "SLEEPING" /\ initproc = q /\ pc[q] = "wait" /\ sleepTicks[q] <= 1
                  THEN "RUNNABLE" ELSE st[q]
      BY <2>1, <2>4
    <3> QED
      BY <3>1, <3>2, <3>3
  <2>8. ASSUME NEW q \in Slots
        PROVE  sleepTicks'[q] = sleepTicks[q] \/ (pc[q] = "wait" /\ (sleepTicks[q] = 0 => sleepTicks'[q] = 0))
    BY <2>1, <2>2, <2>3
  <2> QED
    BY <2>5, <2>6, <2>7, <2>8
<1>5. Types'
  <2>1. cpu' \in [Slots -> 0 .. MaxCpu']
    <3>1. MaxCpu' = MaxCpu /\ MaxCpu \in Nat /\ cpu \in [Slots -> 0 .. MaxCpu]
      BY <1>0, <1>3, InstIs DEF Types, TypeOK, MaxCpu
    <3>2. Charged(cpu[p]) \in 0 .. MaxCpu
      BY <3>1 DEF Charged
    <3> QED
      BY <1>3, <3>1, <3>2
  <2>2. parent' \in [Slots -> 0 .. NPROC] /\ chan' \in [Slots -> Chans] /\ pc' \in [Slots -> Pcs] /\ proc' \in 0 .. NPROC
    BY <1>0, <1>3, SlotsAre DEF Types, TypeOK, Chans, Pcs
  <2> QED
    BY <1>0, <1>3, <1>4, <2>1, <2>2 DEF Types, TypeOK, PERIOD
<1>6. CpuOwnerRuns'
  BY <1>0, <1>2, <1>3, <1>4, SlotsAre DEF Types, TypeOK, States, Pcs, Chans, CpuOwnerRuns, Marked
<1>7. SleepEntered'
  BY <1>0, <1>2, <1>3, <1>4, SlotsAre DEF Types, TypeOK, States, Pcs, Chans, SleepEntered
<1>8. VacantSlots'
  BY <1>0, <1>2, <1>3, <1>4, SlotsAre DEF Types, TypeOK, States, Pcs, Chans, VacantSlots, Live
<1>9. ForksApart'
  <2>1. \A q \in Slots : state[q] = "EMBRYO" => state'[q] = "EMBRYO"
    BY <1>2, <1>4
  <2>2. \A q \in Slots : child[q] # 0 => child[q] \in Slots
    BY <1>0 DEF Types, TypeOK, Slots
  <2> QED
    BY <1>0, <1>3, <2>1, <2>2 DEF ForksApart
<1>10. Family'
  BY <1>0, <1>2, <1>3, <1>4, SlotsAre DEF Types, TypeOK, States, Pcs, Chans, Family, Live
<1>11. ChansMatch'
  BY <1>0, <1>2, <1>3, <1>4, SlotsAre DEF Types, TypeOK, States, Pcs, Chans, ChansMatch
<1>12. NoTicksLeft'
  BY <1>0, <1>2, <1>3, <1>4, SlotsAre DEF Types, TypeOK, States, Pcs, Chans, NoTicksLeft, Live
<1>13. SleepIsExact'
  BY <1>0, <1>2, <1>3, <1>4, SlotsAre DEF Types, TypeOK, States, Pcs, Chans, SleepIsExact, InSleep
<1>14. SleepersHaveWakers'
  <2>1. ASSUME NEW q \in Slots, state'[q] = "SLEEPING", ~killed'[q]
        PROVE  /\ pc'[q] \in {"io", "exit_io"} => io'[q]
               /\ pc'[q] = "wait" => Children(q)' # {} /\ Zombies(q)' = {}
    <3>1. q # p /\ state[q] = "SLEEPING" /\ ~killed[q] /\ pc'[q] = pc[q]
      BY <1>0, <1>3, <1>4, <2>1 DEF Types, TypeOK
    <3>2. pc[q] \in {"io", "exit_io"} => io'[q]
      BY <1>0, <1>3, <3>1 DEF SleepersHaveWakers
    <3>3. ASSUME pc[q] = "wait" PROVE Children(q)' # {} /\ Zombies(q)' = {}
      <4>1. \E c \in Slots : parent[c] = q
        BY <1>0, <3>1, <3>3 DEF SleepersHaveWakers, Children
      <4>2. \A c \in Slots : parent[c] = q => state[c] # "ZOMBIE"
        BY <1>0, <3>1, <3>3 DEF SleepersHaveWakers, Children, Zombies
      <4>3. sleepTicks[q] = 0
        BY <1>0, <3>1, <3>3 DEF NoTicksLeft, Live
      <4>4. q # parent[p] /\ (q = initproc => ~(\E o \in Slots : parent[o] = p /\ state[o] = "ZOMBIE"))
        BY <1>4, <2>1, <3>1, <3>3, <4>3
      <4>5. \E c \in Slots : parent'[c] = q
        BY <1>3, <3>1, <4>1
      <4>6. ASSUME NEW c \in Slots, parent'[c] = q, state'[c] = "ZOMBIE" PROVE FALSE
        <5>1. CASE c = p
          BY <1>0, <1>3, <3>1, <4>4, <4>6, <5>1 DEF Family
        <5>2. CASE c # p
          <6>1. state[c] = "ZOMBIE"
            BY <1>4, <4>6, <5>2
          <6> QED
            BY <1>3, <4>2, <4>4, <4>6, <6>1
        <5> QED
          BY <5>1, <5>2
      <4> QED
        BY <4>5, <4>6 DEF Children, Zombies
    <3> QED
      BY <3>1, <3>2, <3>3
  <2> QED
    BY <2>1 DEF SleepersHaveWakers
<1> QED
  BY <1>5, <1>6, <1>7, <1>8, <1>9, <1>10, <1>11, <1>12, <1>13, <1>14 DEF MInv

LEMMA TickInv ==
  ASSUME MInv, Tick
  PROVE  MInv'
<1>0. Types /\ CpuOwnerRuns /\ SleepEntered /\ VacantSlots /\ ForksApart
      /\ Family /\ ChansMatch /\ NoTicksLeft /\ SleepIsExact /\ SleepersHaveWakers
  BY DEF MInv
<1>1. /\ UNCHANGED <<inst, nice, chan, killed, parent, pass, hp, cursor, want, io, child>>
      /\ LET last == (tick + 1) % PERIOD = 0
             halved == [p \in Slots |-> IF last /\ p \in InUse THEN cpu[p] \div 2 ELSE cpu[p]]
             woken == Woken(state, TicksChan)
         IN  /\ tick' = (tick + 1) % PERIOD
             /\ priority' = [p \in Slots |-> IF last /\ p \in InUse THEN Recalculated(p) ELSE priority[p]]
             /\ \/ /\ proc # 0 /\ state[proc] = "RUNNING" /\ proc' = 0
                   /\ state' = [woken EXCEPT ![proc] = "RUNNABLE"]
                   /\ cpu' = [halved EXCEPT ![proc] = Charged(@)]
                \/ state' = woken /\ cpu' = halved /\ UNCHANGED proc
      /\ sleepTicks' = CountDown(state, TicksChan)
      /\ elapsed' = [p \in Slots |-> IF InSleep(p) /\ elapsed[p] < want[p] THEN elapsed[p] + 1 ELSE elapsed[p]]
      /\ \/ UNCHANGED pc
         \/ /\ proc # 0 /\ pc[proc] = "user" /\ killed[proc]
            /\ pc' = [pc EXCEPT ![proc] = "exit"]
  BY DEF Tick, Runnable
<1>2. /\ UNCHANGED <<inst, nice, chan, killed, parent, pass, hp, cursor, want, io, child>>
      /\ pc' \in [Slots -> Pcs]
      /\ \A q \in Slots : pc'[q] = pc[q] \/ (pc[q] = "user" /\ pc'[q] = "exit" /\ killed[q])
      /\ elapsed' \in [Slots -> Nat]
      /\ \A q \in Slots : elapsed'[q] = IF InSleep(q) /\ elapsed[q] < want[q]
                                        THEN elapsed[q] + 1 ELSE elapsed[q]
  <2>1. UNCHANGED <<inst, nice, chan, killed, parent, pass, hp, cursor, want, io, child>>
    BY <1>1
  <2>2. /\ pc' \in [Slots -> Pcs]
        /\ \A q \in Slots : pc'[q] = pc[q] \/ (pc[q] = "user" /\ pc'[q] = "exit" /\ killed[q])
    BY <1>0, <1>1 DEF Types, TypeOK, Pcs
  <2>3. /\ elapsed' \in [Slots -> Nat]
        /\ \A q \in Slots : elapsed'[q] = IF InSleep(q) /\ elapsed[q] < want[q]
                                          THEN elapsed[q] + 1 ELSE elapsed[q]
    <3>1. elapsed \in [Slots -> Nat] /\ want \in [Slots -> Int]
      BY <1>0 DEF Types, TypeOK
    <3>2. elapsed' = [q \in Slots |-> IF InSleep(q) /\ elapsed[q] < want[q] THEN elapsed[q] + 1 ELSE elapsed[q]]
      BY <1>1
    <3> QED
      BY <3>1, <3>2
  <2> QED
    BY <2>1, <2>2, <2>3
<1>3. /\ state' \in [Slots -> States] /\ sleepTicks' \in [Slots -> Int]
      /\ \A q \in Slots :
           IF state[q] = "SLEEPING" /\ pc[q] = "ticks"
           THEN /\ sleepTicks'[q] = IF sleepTicks[q] > 0 THEN sleepTicks[q] - 1 ELSE sleepTicks[q]
                /\ state'[q] = IF sleepTicks[q] <= 1 THEN "RUNNABLE" ELSE "SLEEPING"
           ELSE /\ sleepTicks'[q] = sleepTicks[q]
                /\ state'[q] = state[q] \/ (q = proc /\ state[q] = "RUNNING" /\ state'[q] = "RUNNABLE" /\ proc' = 0)
      /\ proc' = proc \/ (proc # 0 /\ state[proc] = "RUNNING" /\ proc' = 0 /\ state'[proc] = "RUNNABLE")
  <2> DEFINE c == TicksChan
             st == Woken(state, c)
  <2>0. state \in [Slots -> States] /\ sleepTicks \in [Slots -> Int] /\ Types
    BY <1>0 DEF Types, TypeOK
  <2>1. \A q \in Slots : chan[q] = c <=> pc[q] = "ticks"
    BY <1>0, ChansApart
  <2>2. /\ sleepTicks' = CountDown(state, c)
        /\ \/ /\ proc # 0 /\ state[proc] = "RUNNING" /\ proc' = 0
              /\ state' = [st EXCEPT ![proc] = "RUNNABLE"]
           \/ state' = st /\ proc' = proc
    BY <1>1
  <2> HIDE DEF c
  <2>3. /\ st \in [Slots -> States] /\ CountDown(state, c) \in [Slots -> Int]
        /\ \A q \in Slots : state[q] = "SLEEPING" /\ chan[q] = c =>
             /\ CountDown(state, c)[q] = IF sleepTicks[q] > 0 THEN sleepTicks[q] - 1 ELSE sleepTicks[q]
             /\ st[q] = IF sleepTicks[q] <= 1 THEN "RUNNABLE" ELSE "SLEEPING"
        /\ \A q \in Slots : ~(state[q] = "SLEEPING" /\ chan[q] = c) =>
             CountDown(state, c)[q] = sleepTicks[q] /\ st[q] = state[q]
    BY <2>0, WokenIs
  <2> HIDE DEF st
  <2>4. proc # 0 => proc \in Slots
    BY <1>0 DEF Types, TypeOK, Slots
  <2>5. CASE proc # 0 /\ state[proc] = "RUNNING" /\ proc' = 0 /\ state' = [st EXCEPT ![proc] = "RUNNABLE"]
    <3>1. state' \in [Slots -> States] /\ state'[proc] = "RUNNABLE"
      BY <2>3, <2>4, <2>5 DEF States
    <3>2. \A q \in Slots : q # proc => state'[q] = st[q]
      BY <2>3, <2>5
    <3> QED
      BY <2>1, <2>2, <2>3, <2>4, <2>5, <3>1, <3>2
  <2>6. CASE state' = st /\ proc' = proc
    BY <2>1, <2>2, <2>3, <2>6
  <2> QED
    BY <2>2, <2>5, <2>6
<1>4. priority' \in [Slots -> Nat] /\ cpu' \in [Slots -> 0 .. MaxCpu'] /\ tick' \in 0 .. PERIOD' - 1
  <2>1. /\ MaxCpu' = MaxCpu /\ MaxCpu \in Nat /\ PERIOD' = PERIOD /\ PERIOD \in Nat \ {0}
        /\ cpu \in [Slots -> 0 .. MaxCpu] /\ nice \in [Slots -> Nat] /\ priority \in [Slots -> Nat]
        /\ tick \in 0 .. PERIOD - 1
    BY <1>0, <1>1, InstIs DEF Types, TypeOK, MaxCpu, PERIOD
  <2>2. \A n \in 0 .. MaxCpu : n \div 2 \in 0 .. MaxCpu /\ (n \div 2) \div 2 \in Nat
    BY <2>1
  <2>3. \A p \in Slots : Recalculated(p) \in Nat
    BY <2>1, <2>2 DEF Recalculated
  <2>4. priority' \in [Slots -> Nat]
    BY <1>1, <2>1, <2>3
  <2> DEFINE halved == [p \in Slots |-> IF (tick + 1) % PERIOD = 0 /\ p \in InUse THEN cpu[p] \div 2 ELSE cpu[p]]
  <2>5. halved \in [Slots -> 0 .. MaxCpu]
    BY <2>1, <2>2
  <2>6. (proc # 0 /\ cpu' = [halved EXCEPT ![proc] = Charged(@)]) \/ cpu' = halved
    BY <1>1
  <2> HIDE DEF halved
  <2>7. \A n \in 0 .. MaxCpu : Charged(n) \in 0 .. MaxCpu
    BY <2>1 DEF Charged
  <2>8. proc # 0 => proc \in Slots
    BY <1>0 DEF Types, TypeOK, Slots
  <2>9. cpu' \in [Slots -> 0 .. MaxCpu]
    BY <2>5, <2>6, <2>7, <2>8
  <2>10. tick' \in 0 .. PERIOD - 1
    BY <1>1, <2>1
  <2> QED
    BY <2>1, <2>4, <2>9, <2>10
<1>5. Types'
  <2>1. proc' \in 0 .. NPROC
    BY <1>0, <1>3, SlotsAre DEF Types, TypeOK
  <2> QED
    BY <1>0, <1>2, <1>3, <1>4, <2>1 DEF Types, TypeOK
<1>6. CpuOwnerRuns'
  <2>1. ASSUME NEW q \in Slots, state'[q] = "RUNNING" PROVE proc' = q
    <3>1. state[q] = "RUNNING"
      BY <1>3, <2>1
    <3>2. proc = q
      BY <1>0, <3>1 DEF CpuOwnerRuns
    <3> QED
      BY <1>3, <2>1, <3>2
  <2>2. ASSUME proc' # 0 PROVE state'[proc'] = "RUNNING" \/ Marked(proc)'
    <3>1. proc' = proc /\ proc \in Slots
      BY <1>0, <1>3, <2>2 DEF Types, TypeOK, Slots
    <3>2. CASE state[proc] = "RUNNING"
      BY <1>3, <2>2, <3>1, <3>2
    <3>3. CASE Marked(proc)
      <4>1. pc[proc] # "ticks" /\ state'[proc] = "SLEEPING"
        BY <1>3, <3>1, <3>3 DEF Marked
      <4> QED
        BY <1>2, <3>1, <3>3, <4>1 DEF Marked
    <3> QED
      BY <1>0, <2>2, <3>1, <3>2, <3>3 DEF CpuOwnerRuns
  <2> QED
    BY <2>1, <2>2 DEF CpuOwnerRuns
<1>7. SleepEntered'
  BY <1>0, <1>2, <1>3, SlotsAre DEF Types, TypeOK, States, Pcs, Chans, SleepEntered, CpuOwnerRuns, Marked, InSleep
<1>8. VacantSlots'
  BY <1>0, <1>2, <1>3, SlotsAre DEF Types, TypeOK, States, Pcs, Chans, VacantSlots, Live
<1>9. ForksApart'
  <2>1. \A q \in Slots : state[q] = "EMBRYO" => state'[q] = "EMBRYO"
    BY <1>3
  <2>2. \A q \in Slots : child[q] # 0 => child[q] \in Slots
    BY <1>0 DEF Types, TypeOK, Slots
  <2>3. \A q \in Slots : pc'[q] = "fork" <=> pc[q] = "fork"
    BY <1>2
  <2> QED
    BY <1>0, <1>2, <2>1, <2>2, <2>3 DEF ForksApart
<1>10. Family'
  BY <1>0, <1>2, <1>3, SlotsAre DEF Types, TypeOK, States, Pcs, Chans, Family, Live
<1>11. ChansMatch'
  BY <1>0, <1>2, <1>3, SlotsAre DEF Types, TypeOK, States, Pcs, Chans, ChansMatch
<1>12. NoTicksLeft'
  BY <1>0, <1>2, <1>3, SlotsAre DEF Types, TypeOK, States, Pcs, Chans, NoTicksLeft, Live
<1>13. SleepIsExact'
  BY <1>0, <1>2, <1>3, SlotsAre DEF Types, TypeOK, States, Pcs, Chans, SleepIsExact, InSleep
<1>14. SleepersHaveWakers'
  <2>1. ASSUME NEW q \in Slots, state'[q] = "SLEEPING", ~killed'[q]
        PROVE  /\ pc'[q] \in {"io", "exit_io"} => io'[q]
               /\ pc'[q] = "wait" => Children(q)' # {} /\ Zombies(q)' = {}
    <3>1. state[q] = "SLEEPING" /\ ~killed[q] /\ pc'[q] = pc[q]
      BY <1>2, <1>3, <2>1
    <3>2. Children(q)' = Children(q)
      BY <1>2 DEF Children
    <3>3. \A c \in Slots : state'[c] = "ZOMBIE" <=> state[c] = "ZOMBIE"
      BY <1>3
    <3>4. Zombies(q)' = Zombies(q)
      BY <3>2, <3>3 DEF Zombies, Children
    <3> QED
      BY <1>0, <1>2, <3>1, <3>2, <3>4 DEF SleepersHaveWakers
  <2> QED
    BY <2>1 DEF SleepersHaveWakers
<1> QED
  BY <1>5, <1>6, <1>7, <1>8, <1>9, <1>10, <1>11, <1>12, <1>13, <1>14 DEF MInv

LEMMA InitInv == Init => MInv
<1> SUFFICES ASSUME Init PROVE MInv
  OBVIOUS
<1>1. Types
  <2>1. inst \in Instances /\ MaxCpu \in Nat /\ PERIOD \in Nat \ {0}
    <3>1. inst \in Instances
      BY DEF Init
    <3>2. inst.period \in Nat \ {0} /\ inst.maxcpu \in Nat
      BY <3>1, MlfqAssumption
    <3> QED
      BY <3>1, <3>2 DEF MaxCpu, PERIOD
  <2>2. state \in [Slots -> States] /\ pc \in [Slots -> Pcs] /\ chan \in [Slots -> Chans]
    BY DEF Init, States, Pcs, Chans
  <2>3. tick \in 0 .. (PERIOD - 1) /\ cpu \in [Slots -> 0 .. MaxCpu]
    BY <2>1 DEF Init
  <2>4. /\ priority \in [Slots -> Nat] /\ nice \in [Slots -> Nat] /\ sleepTicks \in [Slots -> Int]
        /\ want \in [Slots -> Int] /\ elapsed \in [Slots -> Nat]
        /\ killed \in [Slots -> BOOLEAN] /\ io \in [Slots -> BOOLEAN]
    BY DEF Init
  <2>5. /\ parent \in [Slots -> 0 .. NPROC] /\ child \in [Slots -> 0 .. NPROC]
        /\ proc \in 0 .. NPROC /\ cursor \in 0 .. NPROC /\ pass \in BOOLEAN /\ hp \in Nat
    <3>1. 0 \in 0 .. NPROC
      BY SlotsAre
    <3> QED
      BY <3>1 DEF Init
  <2> QED
    BY <2>1, <2>2, <2>3, <2>4, <2>5 DEF Types, TypeOK
<1>2. CpuOwnerRuns /\ SleepEntered /\ VacantSlots /\ ForksApart /\ ChansMatch /\ NoTicksLeft
  BY SlotsAre DEF Init, CpuOwnerRuns, Marked, SleepEntered, VacantSlots, ForksApart, ChansMatch, NoTicksLeft, Live
<1>3. Family
  BY SlotsAre DEF Init, Family, Live
<1>4. SleepIsExact /\ SleepersHaveWakers
  BY DEF Init, SleepIsExact, SleepersHaveWakers, InSleep
<1> QED
  BY <1>1, <1>2, <1>3, <1>4 DEF MInv

LEMMA Stutter == MInv /\ UNCHANGED vars => MInv'
  BY DEF MInv, vars, procs, sched, calls, Types, TypeOK, CpuOwnerRuns, Marked, SleepEntered, VacantSlots,
     ForksApart, Family, ChansMatch, NoTicksLeft, SleepIsExact, SleepersHaveWakers, InSleep,
     Children, Zombies, MaxCpu, PERIOD

LEMMA KernelInv == ASSUME MInv, SleepsAreLong, NEW p \in Slots, Kernel(p) PROVE MInv'
  BY OtherCallInv, NiceInv, SysSleepInv, SleepAgainInv, SleepReturnInv, IoInv, IoAgainInv, IoReturnInv,
     ForkInv, ForkReturnInv, ExitInv, ExitIoInv, ZombieInv, ReapInv, WaitReturnInv, WaitSleepInv, KillInv
  DEF Kernel

(* MInv holds in every state, when nobody sleeps for 0 ticks. *)
THEOREM Inductive == ASSUME SleepsAreLong PROVE Spec => []MInv
<1>1. MInv /\ [Next]_vars => MInv'
  <2> SUFFICES ASSUME MInv, [Next]_vars PROVE MInv'
    OBVIOUS
  <2>1. CASE UNCHANGED vars
    BY <2>1, Stutter
  <2>2. CASE Scheduler
    BY <2>2, StartPassInv, EndPassInv, DispatchInv DEF Scheduler
  <2>3. CASE Tick
    BY <2>3, TickInv
  <2>4. CASE \E p \in Slots : DiskInterrupt(p) \/ Trap(p) \/ Kernel(p)
    BY <2>4, DiskInterruptInv, TrapInv, KernelInv
  <2> QED
    BY <2>1, <2>2, <2>3, <2>4 DEF Next
<1> QED
  BY <1>1, InitInv, PTL DEF Spec

(* scheduler, sleep and trap: the process on the CPU is the one RUNNING, or  *)
(* one that sys_sleep has marked SLEEPING too early: before it sleeps, or,   *)
(* when it was killed on the way in, until exit next gives up the CPU.       *)
THEOREM TableIsConsistent == ASSUME SleepsAreLong PROVE Spec => []Consistent
<1>1. MInv => Consistent
  BY DEF MInv, Types, Consistent
<1> QED
  BY <1>1, Inductive, PTL

(* sys_sleep and wakeup1: the count of the process and that of its loop      *)
(* agree at every tick, whatever ran in between.                             *)
THEOREM SleepTakesItsTicks == ASSUME SleepsAreLong PROVE Spec => []SleepIsExact
<1>1. MInv => SleepIsExact
  BY DEF MInv
<1> QED
  BY <1>1, Inductive, PTL

(* sleep, wakeup1, exit and wait: no process that blocks is left behind.     *)
THEOREM NobodyIsLeft == ASSUME SleepsAreLong PROVE Spec => []SleepersHaveWakers
<1>1. MInv => SleepersHaveWakers
  BY DEF MInv
<1> QED
  BY <1>1, Inductive, PTL
=============================================================================
