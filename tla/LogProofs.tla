----------------------------- MODULE LogProofs -----------------------------
(***************************************************************************)
(* Proofs about the two logs on disk.                                      *)
(*                                                                         *)
(* First Log, for any number of processes and blocks: what log.c's         *)
(* comments claim of commits, sleepers and the reservation of begin_op.    *)
(* Then Wfs, for any paths, disks and data: what the scans of mount.wfs.c  *)
(* find in a log of any length, and that calls and fsck.wfs keep the tree. *)
(***************************************************************************)
EXTENDS Log, Wfs, FiniteSetTheorems, SequenceTheorems, WellFoundedInduction, TLAPS

(* Where the loops of commit and of the recovery are.  A commit has begun  *)
(* when the last call ended, and between groups the log is empty.          *)
LoopOK ==
  /\ \A p \in Procs :
       /\ pc[p] \in {"write_log", "install"} => tail \in 1 .. Len(lh)
       /\ pc[p] = "write_head" => lh # << >> /\ tail = 1
       /\ pc[p] = "done" => lh = << >>
  /\ ~up => lh = << >> \/ tail \in 1 .. Len(lh)
  /\ up /\ ~committing /\ outstanding = 0 => lh = << >>

(* Until initlog is done, nobody makes a call. *)
DownOK ==
  ~up => /\ \A p \in Procs : pc[p] = "idle"
         /\ outstanding = 0 /\ ~committing

(* What a call has modified is in the header, but for the buffer it holds. *)
CallOK ==
  /\ \A p \in InOp : /\ IsFiniteSet(written[p])
                     /\ Cardinality(written[p]) <= OpBlocks
                     /\ \A b \in written[p] : b \in Entries(lh) \/ b \in buf[p]
  /\ \A p \in Procs : IF pc[p] = "record" THEN \E b \in written[p] : buf[p] = {b}
                      ELSE buf[p] = {}

(* The entries that the calls under way may still add: one for each block  *)
(* they may modify and that is not in the header yet.  Behind them there   *)
(* are two entries that no call ever takes.                                *)
Absorbed(p) == written[p] \cap Entries(lh)
Slots == {s \in InOp \X (1 .. OpBlocks) : s[2] > Cardinality(Absorbed(s[1]))}

Room ==
  /\ Len(lh) + Cardinality(Slots) + 2 <= LOGSIZE
  /\ Len(dhead) + 2 <= LOGSIZE

IInv ==
  /\ TypeOK /\ QuiescentCommit /\ NoPanic /\ SleepersAreBlocked
  /\ LoopOK /\ DownOK /\ CallOK /\ Room

-----------------------------------------------------------------------------
(* M reserved places for each of n calls are n * M places. *)
LEMMA ProductBound ==
  ASSUME NEW S, IsFiniteSet(S), NEW M \in Nat
  PROVE  /\ IsFiniteSet(S \X (1 .. M))
         /\ Cardinality(S \X (1 .. M)) <= Cardinality(S) * M
<1> DEFINE n == Cardinality(S)
           T == S \X (1 .. M)
<1>1. n \in Nat /\ ExistsBijection(1 .. n, S)
  BY FS_CardinalityType
<1>2. PICK g \in Bijection(1 .. n, S) : TRUE
  BY <1>1 DEF ExistsBijection
<1> DEFINE number(x) == CHOOSE i \in 1 .. n : g[i] = x
           spot(i, k) == (i - 1) * M + k
           place == [s \in T |-> spot(number(s[1]), s[2])]
<1>3. \A x \in S : number(x) \in 1 .. n /\ g[number(x)] = x
  BY <1>2 DEF Bijection, Surjection
<1> HIDE DEF number
<1>4. n * M \in Nat
  BY <1>1
<1>5. \A i \in 1 .. n, k \in 1 .. M : spot(i, k) \in 1 .. n * M
  <2> SUFFICES ASSUME NEW i \in 1 .. n, NEW k \in 1 .. M
               PROVE  spot(i, k) \in 1 .. n * M
    OBVIOUS
  <2>1. (i - 1) * M \in Nat /\ (i - 1) * M + M <= n * M
    BY <1>1
  <2> QED
    BY <2>1, <1>4
<1>6. ASSUME NEW i \in 1 .. n, NEW j \in 1 .. n, NEW k \in 1 .. M, NEW l \in 1 .. M,
             spot(i, k) = spot(j, l)
      PROVE  i = j /\ k = l
  <2>1. ASSUME NEW a \in 1 .. n, NEW b \in 1 .. n, a < b PROVE (a - 1) * M + M <= (b - 1) * M
    BY <1>1, <2>1
  <2>2. (i - 1) * M \in Int /\ (j - 1) * M \in Int
    BY <1>1
  <2>3. ~(i < j)
    BY <1>6, <2>1, <2>2
  <2>4. ~(j < i)
    BY <1>6, <2>1, <2>2
  <2>5. i = j
    BY <1>1, <2>3, <2>4
  <2> QED
    BY <1>6, <2>2, <2>5
<1> HIDE DEF spot
<1>7. place \in Injection(T, 1 .. n * M)
  <2>1. place \in [T -> 1 .. n * M]
    BY <1>3, <1>5
  <2>2. ASSUME NEW s \in T, NEW t \in T, place[s] = place[t] PROVE s = t
    <3>1. number(s[1]) \in 1 .. n /\ number(t[1]) \in 1 .. n /\ s[2] \in 1 .. M /\ t[2] \in 1 .. M
      BY <1>3
    <3>2. spot(number(s[1]), s[2]) = spot(number(t[1]), t[2])
      BY <2>2
    <3>3. number(s[1]) = number(t[1]) /\ s[2] = t[2]
      BY <1>6, <3>1, <3>2
    <3>4. s[1] = t[1]
      BY <1>3, <3>3
    <3> QED
      BY <3>3, <3>4
  <2> HIDE DEF place, T
  <2> QED
    BY <2>1, <2>2 DEF Injection, IsInjective
<1>8. IsFiniteSet(1 .. n * M) /\ Cardinality(1 .. n * M) = n * M
  BY <1>4, FS_Interval
<1> QED
  BY <1>7, <1>8, FS_Injection

LEMMA InOpFinite == IsFiniteSet(InOp) /\ Cardinality(InOp) \in Nat
  BY FS_Subset, FS_CardinalityType, LogAssumption DEF InOp

LEMMA SlotsFinite == IsFiniteSet(Slots) /\ Cardinality(Slots) \in Nat
<1>1. IsFiniteSet(InOp \X (1 .. OpBlocks))
  BY InOpFinite, ProductBound, LogAssumption
<1>2. IsFiniteSet(Slots)
  BY <1>1, FS_Subset DEF Slots
<1> QED
  BY <1>2, FS_CardinalityType

LEMMA EntriesAppend ==
  ASSUME NEW s \in Seq(Blocks), NEW b \in Blocks
  PROVE  Entries(Append(s, b)) = Entries(s) \cup {b}
<1>1. \A x \in Entries(Append(s, b)) : x \in Entries(s) \cup {b}
  BY DEF Entries
<1>2. \A x \in Entries(s) : x \in Entries(Append(s, b))
  BY DEF Entries
<1>3. Append(s, b)[Len(s) + 1] = b /\ Len(s) + 1 \in DOMAIN Append(s, b)
  OBVIOUS
<1>4. b \in Entries(Append(s, b))
  BY <1>3 DEF Entries
<1> QED
  BY <1>1, <1>2, <1>4

-----------------------------------------------------------------------------
LEMMA InitIInv == Init => IInv
<1> SUFFICES ASSUME Init PROVE IInv
  OBVIOUS
<1>0. 0 \in Values /\ << >> \in Seq(Blocks) /\ "idle" \in PcStates
  BY LogAssumption DEF Values, PcStates
<1>1. TypeOK
  <2>1. /\ home \in [Blocks -> Values] /\ cache \in [Blocks -> Values]
        /\ dlog \in [1 .. LOGSIZE -> Values] /\ op \in [Procs -> Values]
        /\ pc \in [Procs -> PcStates]
    BY <1>0 DEF Init
  <2>2. up \in BOOLEAN /\ outstanding \in Nat /\ committing \in BOOLEAN
    BY DEF Init
  <2>3. lh \in Seq(Blocks) /\ dhead \in Seq(Blocks) /\ dirty \subseteq Blocks /\ tail \in Nat \ {0}
    BY <1>0 DEF Init
  <2>4. written \in [Procs -> SUBSET Blocks] /\ buf \in [Procs -> SUBSET Blocks]
    BY DEF Init
  <2>5. nops \in 0 .. MaxOps /\ crashes \in 0 .. MaxCrashes
    BY LogAssumption DEF Init
  <2> QED
    BY <2>1, <2>2, <2>3, <2>4, <2>5 DEF TypeOK
<1>2. InOp = {} /\ Slots = {}
  BY DEF Init, InOp, Slots
<1>3. Cardinality(InOp) = 0 /\ Cardinality(Slots) = 0
  BY <1>2, FS_EmptySet
<1>4. QuiescentCommit /\ NoPanic /\ SleepersAreBlocked
  BY <1>2, <1>3 DEF Init, QuiescentCommit, NoPanic, Panicked, SleepersAreBlocked, CommitStates
<1>5. LoopOK /\ DownOK /\ CallOK
  BY <1>2 DEF Init, LoopOK, DownOK, CallOK
<1>6. Room
  BY <1>3, LogRoom, LogAssumption DEF Init, Room
<1> QED
  BY <1>1, <1>4, <1>5, <1>6 DEF IInv

(* The index of a loop is an entry of the header, and one of the log.      *)
LEMMA AtTail ==
  ASSUME IInv, tail \in 1 .. Len(lh)
  PROVE  lh[tail] \in Blocks /\ tail \in 1 .. LOGSIZE /\ dlog[tail] \in Values
<1>1. Len(lh) <= LOGSIZE
  BY SlotsFinite, LogAssumption DEF IInv, TypeOK, Room
<1> QED
  BY <1>1, LogAssumption DEF IInv, TypeOK

LEMMA InstallType ==
  ASSUME IInv, tail \in 1 .. Len(lh), InstallBlock
  PROVE  /\ home' \in [Blocks -> Values] /\ cache' \in [Blocks -> Values]
         /\ dirty' \subseteq Blocks /\ tail' \in Nat \ {0}
  BY AtTail DEF IInv, TypeOK, InstallBlock

LEMMA StepType ==
  ASSUME IInv, Next
  PROVE  TypeOK'
<1> USE DEF IInv
<1>1. ASSUME NEW p \in Procs, Enter(p) \/ BeginSleep(p) \/ BeginOp(p) PROVE TypeOK'
  <2>1. CASE Enter(p)
    <3>1. nops' \in 0 .. MaxOps /\ nops + 1 \in Values
      BY <2>1, LogAssumption DEF Enter, TypeOK, Values
    <3> QED
      BY <2>1, <3>1 DEF Enter, TypeOK, PcStates, disk
  <2>2. CASE BeginSleep(p)
    BY <2>2 DEF BeginSleep, TypeOK, PcStates, disk
  <2>3. CASE BeginOp(p)
    BY <2>3 DEF BeginOp, TypeOK, PcStates, disk
  <2> QED
    BY <1>1, <2>1, <2>2, <2>3
<1>2. ASSUME NEW p \in Procs, NEW b \in Blocks, Modify(p, b) PROVE TypeOK'
  BY <1>2 DEF Modify, TypeOK, PcStates, disk
<1>3. ASSUME NEW p \in Procs, LogWrite(p) PROVE TypeOK'
  BY <1>3 DEF LogWrite, TypeOK, PcStates, disk
<1>4. ASSUME NEW p \in Procs, EndOp(p) PROVE TypeOK'
  <2>1. p \in InOp /\ outstanding # 0
    BY <1>4, InOpFinite, FS_EmptySet DEF EndOp, InOp, QuiescentCommit
  <2>2. outstanding' \in Nat
    BY <1>4, <2>1 DEF EndOp, TypeOK
  <2>3. pc' \in [Procs -> PcStates]
    BY <1>4 DEF EndOp, Wakeup, TypeOK, PcStates, CommitStates
  <2>4. committing' \in BOOLEAN
    BY <1>4, Zenon DEF EndOp
  <2>5. tail' = 1 /\ UNCHANGED <<up, lh, cache, dirty, op, written, buf, disk, nops, crashes>>
    BY <1>4 DEF EndOp
  <2> QED
    BY <2>2, <2>3, <2>4, <2>5 DEF TypeOK, disk
<1>5. ASSUME NEW p \in Procs, WriteLog(p) PROVE TypeOK'
  <2>1. tail \in 1 .. Len(lh)
    BY <1>5 DEF WriteLog, LoopOK
  <2>2. dlog' \in [1 .. LOGSIZE -> Values]
    BY <1>5, <2>1, AtTail DEF WriteLog, TypeOK
  <2>3. tail' \in Nat \ {0}
    BY <1>5 DEF WriteLog, TypeOK
  <2>4. pc' \in [Procs -> PcStates]
    BY <1>5 DEF WriteLog, TypeOK, PcStates, CommitStates
  <2> QED
    BY <1>5, <2>2, <2>3, <2>4 DEF WriteLog, TypeOK
<1>6. ASSUME NEW p \in Procs, WriteHead(p) PROVE TypeOK'
  BY <1>6 DEF WriteHead, TypeOK, PcStates, CommitStates
<1>7. ASSUME NEW p \in Procs, InstallTrans(p) PROVE TypeOK'
  <2>1. tail \in 1 .. Len(lh)
    BY <1>7 DEF InstallTrans, LoopOK
  <2> QED
    BY <1>7, <2>1, InstallType DEF InstallTrans, TypeOK, PcStates, CommitStates
<1>8. ASSUME NEW p \in Procs, ClearHead(p) \/ EndCommit(p) PROVE TypeOK'
  <2>1. CASE ClearHead(p)
    BY <2>1 DEF ClearHead, TypeOK, PcStates, CommitStates
  <2>2. CASE EndCommit(p)
    <3>1. pc' \in [Procs -> PcStates]
      BY <2>2 DEF EndCommit, Wakeup, TypeOK, PcStates, CommitStates
    <3> QED
      BY <2>2, <3>1 DEF EndCommit, TypeOK, disk
  <2> QED
    BY <1>8, <2>1, <2>2
<1>9. ASSUME NEW b \in Blocks, Evict(b) PROVE TypeOK'
  BY <1>9 DEF Evict, TypeOK, disk
<1>10. CASE RecoverInstall
  <2>1. tail \in 1 .. Len(lh)
    BY <1>10 DEF RecoverInstall, LoopOK
  <2> QED
    BY <1>10, <2>1, InstallType DEF RecoverInstall, TypeOK
<1>11. CASE RecoverClear
  BY <1>11 DEF RecoverClear, TypeOK
<1>12. CASE Crash
  <2>1. /\ op' \in [Procs -> Values] /\ pc' \in [Procs -> PcStates]
        /\ written' \in [Procs -> SUBSET Blocks] /\ buf' \in [Procs -> SUBSET Blocks]
    BY <1>12, LogAssumption DEF Crash, PcStates, Values
  <2>2. crashes' \in 0 .. MaxCrashes
    BY <1>12, LogAssumption DEF Crash, TypeOK
  <2>3. up' \in BOOLEAN /\ outstanding' \in Nat /\ committing' \in BOOLEAN
    BY <1>12 DEF Crash
  <2>4. /\ lh' \in Seq(Blocks) /\ dhead' \in Seq(Blocks) /\ dirty' \subseteq Blocks
        /\ cache' \in [Blocks -> Values] /\ home' \in [Blocks -> Values]
        /\ dlog' \in [1 .. LOGSIZE -> Values]
    BY <1>12 DEF Crash, TypeOK, disk
  <2> QED
    BY <1>12, <2>1, <2>2, <2>3, <2>4 DEF Crash, TypeOK
<1> QED
  BY <1>1, <1>2, <1>3, <1>4, <1>5, <1>6, <1>7, <1>8, <1>9, <1>10, <1>11, <1>12 DEF Next, Call, Commit

LEMMA InOpBegins ==
  ASSUME IInv, NEW p \in Procs, BeginOp(p)
  PROVE  /\ InOp' = InOp \cup {p} /\ p \notin InOp
         /\ Cardinality(InOp') = outstanding + 1
<1>1. InOp' = InOp \cup {p} /\ p \notin InOp
  BY DEF IInv, TypeOK, InOp, BeginOp
<1> QED
  BY <1>1, InOpFinite, FS_AddElement DEF IInv, QuiescentCommit

(* The last call to end finds no other call, and no commit. *)
LEMMA InOpEnds ==
  ASSUME IInv, NEW p \in Procs, EndOp(p)
  PROVE  /\ InOp' = InOp \ {p} /\ p \in InOp /\ ~committing
         /\ Cardinality(InOp') = outstanding'
         /\ outstanding' = 0 => InOp' = {}
<1>1. p \in InOp
  BY DEF InOp, EndOp
<1>2. ~committing
  BY <1>1 DEF IInv, QuiescentCommit
<1>3. InOp' = InOp \ {p}
  BY <1>2 DEF IInv, TypeOK, InOp, EndOp, Wakeup
<1>4. Cardinality(InOp \ {p}) = outstanding - 1 /\ IsFiniteSet(InOp \ {p})
  BY <1>1, InOpFinite, FS_RemoveElement DEF IInv, QuiescentCommit
<1>5. outstanding' = outstanding - 1
  BY DEF EndOp
<1> QED
  BY <1>1, <1>2, <1>3, <1>4, <1>5, FS_EmptySet

LEMMA StepQuiet ==
  ASSUME IInv, Next
  PROVE  QuiescentCommit'
<1> USE DEF IInv, TypeOK, QuiescentCommit, CommitStates
<1>1. ASSUME NEW p \in Procs, Enter(p) \/ BeginSleep(p) PROVE QuiescentCommit'
  <2>1. InOp' = InOp
    BY <1>1 DEF InOp, Enter, BeginSleep
  <2> QED
    BY <1>1, <2>1 DEF Enter, BeginSleep
<1>2. ASSUME NEW p \in Procs, BeginOp(p) PROVE QuiescentCommit'
  <2>1. Cardinality(InOp') = outstanding'
    BY <1>2, InOpBegins DEF BeginOp
  <2> QED
    BY <1>2, <2>1 DEF BeginOp
<1>3. ASSUME NEW p \in Procs, NEW b \in Blocks, Modify(p, b) PROVE QuiescentCommit'
  <2>1. InOp' = InOp
    BY <1>3 DEF Modify, InOp
  <2> QED
    BY <1>3, <2>1 DEF Modify
<1>4. ASSUME NEW p \in Procs, LogWrite(p) PROVE QuiescentCommit'
  <2>1. InOp' = InOp
    BY <1>4 DEF LogWrite, InOp
  <2> QED
    BY <1>4, <2>1 DEF LogWrite
<1>5. ASSUME NEW p \in Procs, EndOp(p) PROVE QuiescentCommit'
  <2>1. /\ ~committing /\ Cardinality(InOp') = outstanding'
        /\ outstanding' = 0 => InOp' = {}
    BY <1>5, InOpEnds
  <2>2. committing' <=> outstanding' = 0
    BY <1>5, <2>1, Zenon DEF EndOp
  <2>3. \A q \in Procs : pc[q] \notin CommitStates
    BY <2>1
  <2>4. \A q \in Procs : pc'[q] \in CommitStates => q = p /\ outstanding' = 0
    BY <1>5, <2>1, <2>3 DEF EndOp, Wakeup
  <2> QED
    BY <2>1, <2>2, <2>4
<1>6. ASSUME NEW p \in Procs, Commit(p) PROVE QuiescentCommit'
  <2>1. InOp' = InOp
    BY <1>6 DEF InOp, Commit, WriteLog, WriteHead, InstallTrans, ClearHead, EndCommit, Wakeup
  <2>2. UNCHANGED outstanding
    BY <1>6 DEF Commit, WriteLog, WriteHead, InstallTrans, ClearHead, EndCommit
  <2>3. CASE EndCommit(p)
    BY <2>1, <2>2, <2>3 DEF EndCommit, Wakeup
  <2>4. CASE ~EndCommit(p)
    <3>1. UNCHANGED committing /\ pc[p] \in CommitStates
      BY <1>6, <2>4 DEF Commit, WriteLog, WriteHead, InstallTrans, ClearHead
    <3>2. \A q \in Procs \ {p} : pc'[q] = pc[q]
      BY <1>6, <2>4 DEF Commit, WriteLog, WriteHead, InstallTrans, ClearHead
    <3> QED
      BY <2>1, <2>2, <3>1, <3>2
  <2> QED
    BY <2>3, <2>4
<1>7. ASSUME NEW b \in Blocks, Evict(b) PROVE QuiescentCommit'
  <2>1. InOp' = InOp
    BY <1>7 DEF Evict, InOp
  <2> QED
    BY <1>7, <2>1 DEF Evict
<1>8. CASE RecoverInstall \/ RecoverClear
  <2>1. InOp' = InOp
    BY <1>8 DEF RecoverInstall, RecoverClear, InOp
  <2> QED
    BY <1>8, <2>1 DEF RecoverInstall, RecoverClear
<1>9. CASE Crash
  <2>1. InOp' = {}
    BY <1>9 DEF Crash, InOp
  <2> QED
    BY <1>9, <2>1, FS_EmptySet DEF Crash
<1> QED
  BY <1>1, <1>2, <1>3, <1>4, <1>5, <1>6, <1>7, <1>8, <1>9 DEF Next, Call

(* Two entries are free in every state, so log_write's tests never fail;   *)
(* and no call ends while a commit runs.                                   *)
LEMMA StepNoPanic ==
  ASSUME IInv, Next
  PROVE  NoPanic'
<1> USE DEF IInv, TypeOK, NoPanic, Panicked
<1>1. ASSUME NEW p \in Procs, NEW b \in Blocks, Modify(p, b) PROVE NoPanic'
  <2>1. outstanding # 0
    <3>1. p \in InOp
      BY <1>1 DEF Modify, InOp
    <3> QED
      BY <3>1, InOpFinite, FS_EmptySet DEF QuiescentCommit
  <2>2. ~TooBig
    BY SlotsFinite, LogAssumption, LogRoom DEF Room, TooBig
  <2> QED
    BY <1>1, <2>1, <2>2 DEF Modify
<1>2. ASSUME NEW p \in Procs, EndOp(p) PROVE NoPanic'
  BY <1>2, InOpEnds DEF EndOp, Wakeup
<1>3. ASSUME NEW p \in Procs, Commit(p) PROVE NoPanic'
  BY <1>3 DEF Commit, WriteLog, WriteHead, InstallTrans, ClearHead, EndCommit, Wakeup
<1>4. ASSUME NEW p \in Procs, Enter(p) \/ BeginSleep(p) \/ BeginOp(p) \/ LogWrite(p) PROVE NoPanic'
  BY <1>4 DEF Enter, BeginSleep, BeginOp, LogWrite
<1>5. ASSUME NEW b \in Blocks, Evict(b) PROVE NoPanic'
  BY <1>5 DEF Evict
<1>6. CASE RecoverInstall \/ RecoverClear \/ Crash
  BY <1>6 DEF RecoverInstall, RecoverClear, Crash
<1> QED
  BY <1>1, <1>2, <1>3, <1>4, <1>5, <1>6 DEF Next, Call

(* More calls or more entries leave no more room. *)
LEMMA RoomShrinks ==
  ASSUME NEW m \in Nat, NEW n \in Nat, NEW k \in Nat, NEW l \in Nat, m <= n, k <= l,
         l + (n + 1) * MAXOPBLOCKS <= LOGSIZE
  PROVE  k + (m + 1) * MAXOPBLOCKS <= LOGSIZE
<1>1. (m + 1) * MAXOPBLOCKS <= (n + 1) * MAXOPBLOCKS
  BY LogAssumption
<1>2. (m + 1) * MAXOPBLOCKS \in Nat /\ (n + 1) * MAXOPBLOCKS \in Nat
  BY LogAssumption
<1> QED
  BY <1>1, <1>2, LogAssumption

LEMMA StepSleepers ==
  ASSUME IInv, Next
  PROVE  SleepersAreBlocked'
<1> USE DEF IInv, TypeOK, SleepersAreBlocked
<1>1. ASSUME NEW p \in Procs, Enter(p) \/ BeginSleep(p) PROVE SleepersAreBlocked'
  BY <1>1 DEF Enter, BeginSleep, HasRoom
<1>2. ASSUME NEW p \in Procs, BeginOp(p) PROVE SleepersAreBlocked'
  <2>1. HasRoom' => HasRoom
    BY <1>2, RoomShrinks DEF BeginOp, HasRoom
  <2> QED
    BY <1>2, <2>1 DEF BeginOp
<1>3. ASSUME NEW p \in Procs, NEW b \in Blocks, Modify(p, b) PROVE SleepersAreBlocked'
  BY <1>3 DEF Modify, HasRoom
<1>4. ASSUME NEW p \in Procs, LogWrite(p) PROVE SleepersAreBlocked'
  <2>1. Len(lh) <= Len(lh') /\ Len(lh') \in Nat
    BY <1>4 DEF LogWrite
  <2>2. ASSUME HasRoom' PROVE HasRoom
    <3> DEFINE reserved == (outstanding + 1) * MAXOPBLOCKS
    <3>1. outstanding' = outstanding
      BY <1>4 DEF LogWrite
    <3>2. reserved \in Nat /\ Len(lh') + reserved <= LOGSIZE
      BY <2>2, <3>1, LogAssumption DEF HasRoom
    <3>3. HasRoom <=> Len(lh) + reserved <= LOGSIZE
      BY DEF HasRoom
    <3> HIDE DEF reserved
    <3> QED
      BY <2>1, <3>2, <3>3, LogAssumption
  <2> QED
    BY <1>4, <2>2 DEF LogWrite
<1>5. ASSUME NEW p \in Procs, EndOp(p) PROVE SleepersAreBlocked'
  <2>1. ~committing
    BY <1>5, InOpEnds
  <2>2. CASE outstanding' = 0
    BY <1>5, <2>2, Zenon DEF EndOp
  <2>3. CASE outstanding' # 0
    BY <1>5, <2>1, <2>3 DEF EndOp, Wakeup
  <2> QED
    BY <2>2, <2>3
<1>6. ASSUME NEW p \in Procs, Commit(p) PROVE SleepersAreBlocked'
  <2>1. CASE EndCommit(p)
    BY <2>1 DEF EndCommit, Wakeup
  <2>2. CASE ~EndCommit(p)
    BY <1>6, <2>2 DEF Commit, WriteLog, WriteHead, InstallTrans, ClearHead, QuiescentCommit, CommitStates
  <2> QED
    BY <2>1, <2>2
<1>7. ASSUME NEW b \in Blocks, Evict(b) PROVE SleepersAreBlocked'
  BY <1>7 DEF Evict, HasRoom
<1>8. CASE RecoverInstall \/ RecoverClear \/ Crash
  BY <1>8 DEF RecoverInstall, RecoverClear, Crash, DownOK
<1> QED
  BY <1>1, <1>2, <1>3, <1>4, <1>5, <1>6, <1>7, <1>8 DEF Next, Call

LEMMA StepDown ==
  ASSUME IInv, Next
  PROVE  DownOK'
<1>1. CASE up /\ ~Crash
  BY <1>1 DEF Next, Call, Commit, Enter, BeginSleep, BeginOp, Modify, LogWrite, EndOp, WriteLog, WriteHead,
              InstallTrans, ClearHead, EndCommit, Evict, RecoverInstall, RecoverClear, DownOK
<1>2. CASE ~up /\ ~Crash
  BY <1>2 DEF IInv, Next, RecoverInstall, RecoverClear, DownOK
<1>3. CASE Crash
  BY <1>3 DEF Crash, DownOK
<1> QED
  BY <1>1, <1>2, <1>3

LEMMA StepLoop ==
  ASSUME IInv, Next
  PROVE  LoopOK'
<1> USE DEF IInv, TypeOK, LoopOK
<1>1. ASSUME NEW p \in Procs, Enter(p) \/ BeginSleep(p) \/ BeginOp(p) PROVE LoopOK'
  BY <1>1 DEF Enter, BeginSleep, BeginOp
<1>2. ASSUME NEW p \in Procs, NEW b \in Blocks, Modify(p, b) PROVE LoopOK'
  BY <1>2 DEF Modify
<1>3. ASSUME NEW p \in Procs, up, LogWrite(p) PROVE LoopOK'
  <2>1. p \in InOp
    BY <1>3 DEF InOp, LogWrite
  <2>2. outstanding # 0
    BY <2>1, InOpFinite, FS_EmptySet DEF QuiescentCommit
  <2>3. \A q \in Procs : pc[q] \notin CommitStates
    BY <2>1 DEF QuiescentCommit
  <2> QED
    BY <1>3, <2>2, <2>3 DEF LogWrite, CommitStates
<1>4. ASSUME NEW p \in Procs, up, EndOp(p) PROVE LoopOK'
  <2>1. ~committing
    BY <1>4, InOpEnds
  <2>2. \A q \in Procs : pc[q] \notin CommitStates
    BY <2>1 DEF QuiescentCommit
  <2>3. \A q \in Procs : /\ pc'[q] \in {"write_log", "install"} => pc'[q] = "write_log" /\ lh # << >>
                         /\ pc'[q] # "write_head"
                         /\ pc'[q] = "done" => lh = << >>
    BY <1>4, <2>1, <2>2 DEF EndOp, Wakeup, CommitStates
  <2>4. lh # << >> => 1 \in 1 .. Len(lh)
    OBVIOUS
  <2>5. lh' = lh /\ tail' = 1 /\ up'
    BY <1>4 DEF EndOp
  <2>6. committing' \/ outstanding' # 0
    BY <1>4, Zenon DEF EndOp
  <2> QED
    BY <2>3, <2>4, <2>5, <2>6
<1>5. ASSUME NEW p \in Procs, up, Commit(p) PROVE LoopOK'
  <2>1. committing /\ \A q \in Procs \ {p} : pc[q] \notin CommitStates
    BY <1>5 DEF QuiescentCommit, Commit, WriteLog, WriteHead, InstallTrans, ClearHead, EndCommit, CommitStates
  <2>2. CASE WriteLog(p)
    BY <1>5, <2>1, <2>2 DEF WriteLog, CommitStates
  <2>3. CASE WriteHead(p)
    BY <1>5, <2>1, <2>3 DEF WriteHead, CommitStates
  <2>4. CASE InstallTrans(p)
    BY <1>5, <2>1, <2>4 DEF InstallTrans, InstallBlock, CommitStates
  <2>5. CASE ClearHead(p)
    BY <1>5, <2>1, <2>5 DEF ClearHead, CommitStates
  <2>6. CASE EndCommit(p)
    BY <1>5, <2>1, <2>6 DEF EndCommit, Wakeup, CommitStates
  <2> QED
    BY <1>5, <2>2, <2>3, <2>4, <2>5, <2>6 DEF Commit
<1>6. ASSUME NEW b \in Blocks, Evict(b) PROVE LoopOK'
  BY <1>6 DEF Evict
<1>7. CASE RecoverInstall
  BY <1>7 DEF RecoverInstall, InstallBlock, DownOK
<1>8. CASE RecoverClear
  BY <1>8 DEF RecoverClear, DownOK
<1>9. CASE Crash
  BY <1>9 DEF Crash, disk
<1> QED
  BY <1>1, <1>2, <1>3, <1>4, <1>5, <1>6, <1>7, <1>8, <1>9 DEF Next, Call

LEMMA StepCall ==
  ASSUME IInv, Next
  PROVE  CallOK'
<1> USE DEF IInv, TypeOK, CallOK
<1>1. ASSUME NEW p \in Procs, Enter(p) \/ BeginSleep(p) PROVE CallOK'
  <2>1. InOp' = InOp
    BY <1>1 DEF InOp, Enter, BeginSleep
  <2> QED
    BY <1>1, <2>1 DEF Enter, BeginSleep
<1>2. ASSUME NEW p \in Procs, BeginOp(p) PROVE CallOK'
  <2>1. InOp' = InOp \cup {p}
    BY <1>2, InOpBegins
  <2>2. written'[p] = {} /\ IsFiniteSet({}) /\ Cardinality({}) <= OpBlocks
    BY <1>2, FS_EmptySet, LogAssumption DEF BeginOp
  <2> QED
    BY <1>2, <2>1, <2>2 DEF BeginOp, InOp
<1>3. ASSUME NEW p \in Procs, NEW b \in Blocks, Modify(p, b) PROVE CallOK'
  <2>1. InOp' = InOp /\ p \in InOp
    BY <1>3 DEF Modify, InOp
  <2>2. pc'[p] = "record"
    <3>1. pc'[p] # "panic"
      BY StepNoPanic DEF NoPanic, Panicked
    <3> QED
      BY <1>3, <3>1 DEF Modify
  <2>3. /\ IsFiniteSet(written[p] \cup {b})
        /\ Cardinality(written[p] \cup {b}) <= OpBlocks
    <3>1. IsFiniteSet(written[p]) /\ Cardinality(written[p]) \in Nat /\ Cardinality(written[p]) <= OpBlocks
      BY <2>1, FS_CardinalityType
    <3>2. b \in written[p] \/ Cardinality(written[p]) < OpBlocks
      BY <1>3 DEF Modify
    <3>3. IsFiniteSet(written[p] \cup {b})
      BY <3>1, FS_AddElement
    <3>4. Cardinality(written[p] \cup {b}) = IF b \in written[p] THEN Cardinality(written[p])
                                            ELSE Cardinality(written[p]) + 1
      BY <3>1, FS_AddElement
    <3> QED
      BY <3>1, <3>2, <3>3, <3>4, LogAssumption
  <2>4. \A c \in written'[p] : c \in Entries(lh') \/ c \in buf'[p]
    <3>1. pc[p] = "op" /\ lh' = lh /\ buf'[p] = {b} /\ written'[p] = written[p] \cup {b}
      BY <1>3 DEF Modify
    <3>2. \A c \in written[p] : c \in Entries(lh)
      BY <2>1, <3>1
    <3> QED
      BY <3>1, <3>2
  <2>5. \A q \in Procs \ {p} : written'[q] = written[q] /\ buf'[q] = buf[q] /\ pc'[q] = pc[q]
    BY <1>3 DEF Modify
  <2>6. /\ lh' = lh /\ b \in written'[p] /\ buf'[p] = {b}
        /\ written'[p] = written[p] \cup {b}
    BY <1>3 DEF Modify
  <2>7. \A q \in InOp' : /\ IsFiniteSet(written'[q])
                         /\ Cardinality(written'[q]) <= OpBlocks
                         /\ \A c \in written'[q] : c \in Entries(lh') \/ c \in buf'[q]
    BY <2>1, <2>3, <2>4, <2>5, <2>6 DEF InOp
  <2>8. \A q \in Procs : IF pc'[q] = "record" THEN \E c \in written'[q] : buf'[q] = {c}
                         ELSE buf'[q] = {}
    BY <2>2, <2>5, <2>6
  <2> QED
    BY <2>7, <2>8
<1>4. ASSUME NEW p \in Procs, LogWrite(p) PROVE CallOK'
  <2>1. InOp' = InOp
    BY <1>4 DEF LogWrite, InOp
  <2>2. PICK b \in buf[p] : lh' = IF b \in Entries(lh) THEN lh ELSE Append(lh, b)
    BY <1>4 DEF LogWrite
  <2>3. buf[p] = {b}
    BY <1>4, <2>2 DEF LogWrite
  <2>4. Entries(lh') = Entries(lh) \cup {b}
    BY <2>2, EntriesAppend
  <2>5. UNCHANGED written
    BY <1>4 DEF LogWrite
  <2>6. \A q \in InOp : \A c \in written[q] : c \in Entries(lh') \/ c \in buf'[q]
    BY <1>4, <2>3, <2>4 DEF LogWrite
  <2> QED
    BY <1>4, <2>1, <2>5, <2>6 DEF LogWrite
<1>5. ASSUME NEW p \in Procs, EndOp(p) PROVE CallOK'
  <2>1. InOp' \subseteq InOp /\ ~committing
    BY <1>5, InOpEnds
  <2>2. \A q \in Procs : (pc'[q] = "record") = (pc[q] = "record")
    BY <1>5, <2>1 DEF EndOp, Wakeup
  <2>3. UNCHANGED <<lh, written, buf>>
    BY <1>5 DEF EndOp
  <2> QED
    BY <2>1, <2>2, <2>3
<1>6. ASSUME NEW p \in Procs, Commit(p) PROVE CallOK'
  <2>1. InOp = {} /\ InOp' = InOp
    BY <1>6 DEF InOp, Commit, WriteLog, WriteHead, InstallTrans, ClearHead, EndCommit, Wakeup,
                QuiescentCommit, CommitStates
  <2>2. \A q \in Procs : (pc'[q] = "record") = (pc[q] = "record")
    BY <1>6 DEF Commit, WriteLog, WriteHead, InstallTrans, ClearHead, EndCommit, Wakeup
  <2>3. UNCHANGED <<written, buf>>
    BY <1>6 DEF Commit, WriteLog, WriteHead, InstallTrans, ClearHead, EndCommit
  <2> QED
    BY <2>1, <2>2, <2>3
<1>7. ASSUME NEW b \in Blocks, Evict(b) PROVE CallOK'
  <2>1. InOp' = InOp
    BY <1>7 DEF InOp, Evict
  <2> QED
    BY <1>7, <2>1 DEF Evict
<1>8. CASE RecoverInstall \/ RecoverClear
  <2>1. InOp = {} /\ InOp' = InOp
    BY <1>8 DEF InOp, RecoverInstall, RecoverClear, DownOK
  <2> QED
    BY <1>8, <2>1 DEF RecoverInstall, RecoverClear
<1>9. CASE Crash
  BY <1>9 DEF Crash, InOp
<1> QED
  BY <1>1, <1>2, <1>3, <1>4, <1>5, <1>6, <1>7, <1>8, <1>9 DEF Next, Call

(* A step that starts no call and takes nothing back frees no entry. *)
LEMMA SlotsShrink ==
  ASSUME CallOK', InOp' \subseteq InOp, \A p \in InOp' : Absorbed(p) \subseteq Absorbed(p)'
  PROVE  Slots' \subseteq Slots /\ Cardinality(Slots') <= Cardinality(Slots)
<1>1. ASSUME NEW p \in InOp'
      PROVE  Cardinality(Absorbed(p)) \in Nat /\ Cardinality(Absorbed(p)') \in Nat
             /\ Cardinality(Absorbed(p)) <= Cardinality(Absorbed(p)')
  <2>1. IsFiniteSet(written'[p])
    BY DEF CallOK
  <2>2. Absorbed(p)' \subseteq written'[p]
    BY DEF Absorbed
  <2>3. IsFiniteSet(Absorbed(p)')
    BY <2>1, <2>2, FS_Subset
  <2>4. Absorbed(p) \subseteq Absorbed(p)'
    OBVIOUS
  <2> QED
    BY <2>3, <2>4, FS_Subset, FS_CardinalityType
<1>2. ASSUME NEW s \in Slots' PROVE s \in Slots
  <2>1. s \in InOp' \X (1 .. OpBlocks) /\ s[2] > Cardinality(Absorbed(s[1])')
    BY DEF Slots
  <2>2. s[1] \in InOp' /\ s[2] \in 1 .. OpBlocks
    BY <2>1
  <2>3. s[2] > Cardinality(Absorbed(s[1]))
    BY <2>1, <2>2, <1>1, LogAssumption
  <2> QED
    BY <2>1, <2>3 DEF Slots
<1>3. Slots' \subseteq Slots
  BY <1>2
<1> QED
  BY <1>3, SlotsFinite, FS_Subset

(* begin_op reserves more than the call will use, so that two entries stay *)
(* free: one for each of two calls, or the whole log for the first.        *)
LEMMA RoomBegins ==
  ASSUME IInv, up, NEW p \in Procs, BeginOp(p)
  PROVE  Room'
<1> DEFINE n == outstanding
           l == Len(lh)
           c == Cardinality(Slots')
<1>1. n \in Nat /\ l \in Nat /\ Len(lh') = l /\ dhead' = dhead
  BY DEF IInv, TypeOK, BeginOp, disk
<1>2. InOp' \subseteq Procs /\ IsFiniteSet(InOp') /\ Cardinality(InOp') = n + 1
  <2>1. InOp' \subseteq Procs
    BY DEF InOp
  <2> QED
    BY <2>1, InOpBegins, FS_Subset, LogAssumption
<1>3. c \in Nat /\ c <= (n + 1) * OpBlocks
  <2>1. /\ IsFiniteSet(InOp' \X (1 .. OpBlocks))
        /\ Cardinality(InOp' \X (1 .. OpBlocks)) <= (n + 1) * OpBlocks
    BY <1>2, ProductBound, LogAssumption
  <2>2. Slots' \subseteq InOp' \X (1 .. OpBlocks)
    BY DEF Slots
  <2>3. c \in Nat /\ c <= Cardinality(InOp' \X (1 .. OpBlocks))
    BY <2>1, <2>2, FS_Subset, FS_CardinalityType
  <2>4. Cardinality(InOp' \X (1 .. OpBlocks)) \in Nat /\ (n + 1) * OpBlocks \in Nat
    BY <1>1, <2>1, FS_CardinalityType, LogAssumption
  <2> QED
    BY <2>1, <2>3, <2>4
<1>4. l + c + 2 <= LOGSIZE
  <2>1. CASE n = 0
    <3>1. l = 0
      BY <2>1 DEF IInv, LoopOK, BeginOp
    <3>2. c <= OpBlocks
      BY <1>3, <2>1, LogAssumption
    <3> HIDE DEF c, l, n
    <3> QED
      BY <3>1, <3>2, <1>3, LogRoom, LogAssumption
  <2>2. CASE n # 0
    <3> DEFINE a == (n + 1) * OpBlocks
               m == (n + 1) * MAXOPBLOCKS
    <3>1. l + m <= LOGSIZE
      BY DEF BeginOp, HasRoom
    <3>2. (n + 1) * (OpBlocks + 1) <= m
      BY <1>1, LogRoom, LogAssumption
    <3>3. (n + 1) * (OpBlocks + 1) = a + n + 1
      BY <1>1, LogAssumption
    <3>4. a \in Nat /\ m \in Nat /\ c <= a
      BY <1>1, <1>3, LogAssumption
    <3>5. a + n + 1 <= m
      BY <3>2, <3>3
    <3> HIDE DEF a, m, c, l, n
    <3> QED
      BY <1>1, <1>3, <2>2, <3>1, <3>4, <3>5, LogAssumption
  <2> QED
    BY <2>1, <2>2
<1> QED
  BY <1>1, <1>4 DEF IInv, Room

(* A block that log_write adds to the header takes one of the call's own   *)
(* entries; one that is there already takes none.                          *)
LEMMA RoomWrites ==
  ASSUME IInv, CallOK', NEW p \in Procs, LogWrite(p)
  PROVE  Room'
<1>1. InOp' = InOp /\ p \in InOp
  BY DEF IInv, TypeOK, LogWrite, InOp
<1>2. UNCHANGED <<written, dhead>>
  BY DEF LogWrite, disk
<1>3. PICK b \in buf[p] : lh' = IF b \in Entries(lh) THEN lh ELSE Append(lh, b)
  BY DEF LogWrite
<1>4. b \in written[p] /\ b \in Blocks
  BY <1>3 DEF IInv, TypeOK, CallOK, LogWrite
<1>5. Len(lh) \in Nat /\ Entries(lh') = Entries(lh) \cup {b}
  BY <1>3, <1>4, EntriesAppend DEF IInv, TypeOK
<1>6. \A q \in InOp' : Absorbed(q) \subseteq Absorbed(q)'
  BY <1>2, <1>5 DEF Absorbed
<1>7. Slots' \subseteq Slots /\ Cardinality(Slots') <= Cardinality(Slots)
  BY <1>1, <1>6, SlotsShrink
<1>8. Cardinality(Slots') \in Nat
  BY <1>7, SlotsFinite, FS_Subset, FS_CardinalityType
<1>9. CASE b \in Entries(lh)
  BY <1>2, <1>3, <1>5, <1>7, <1>8, <1>9, SlotsFinite, LogAssumption DEF IInv, Room
<1>10. CASE b \notin Entries(lh)
  <2> DEFINE k == Cardinality(Absorbed(p))
             slot == <<p, k + 1>>
  <2>1. Absorbed(p)' = Absorbed(p) \cup {b} /\ b \notin Absorbed(p)
    BY <1>2, <1>4, <1>5, <1>10 DEF Absorbed
  <2>2. IsFiniteSet(written[p]) /\ Cardinality(written[p]) <= OpBlocks
    BY <1>1 DEF IInv, CallOK
  <2>3. Absorbed(p) \subseteq written[p] /\ Absorbed(p)' \subseteq written[p]
    BY <1>2 DEF Absorbed
  <2>4. IsFiniteSet(Absorbed(p)) /\ k \in Nat
    BY <2>2, <2>3, FS_Subset, FS_CardinalityType
  <2>5. Cardinality(Absorbed(p)') = k + 1
    BY <2>1, <2>4, FS_AddElement
  <2>6. k + 1 <= OpBlocks
    <3>1. Cardinality(Absorbed(p)') <= Cardinality(written[p])
      BY <2>2, <2>3, FS_Subset
    <3>2. Cardinality(written[p]) \in Nat
      BY <2>2, FS_CardinalityType
    <3> QED
      BY <2>2, <2>4, <2>5, <3>1, <3>2, LogAssumption
  <2>7. slot \in Slots
    <3>1. slot \in InOp \X (1 .. OpBlocks)
      BY <1>1, <2>4, <2>6, LogAssumption
    <3>2. slot[1] = p /\ slot[2] > Cardinality(Absorbed(p))
      BY <2>4
    <3> QED
      BY <3>1, <3>2 DEF Slots
  <2>8. slot \notin Slots'
    <3>1. ~(slot[2] > Cardinality(Absorbed(slot[1])'))
      BY <2>4, <2>5
    <3> QED
      BY <3>1 DEF Slots
  <2>9. Cardinality(Slots') <= Cardinality(Slots \ {slot})
    <3>1. Slots' \subseteq Slots \ {slot} /\ IsFiniteSet(Slots \ {slot})
      BY <1>7, <2>8, SlotsFinite, FS_RemoveElement
    <3> QED
      BY <3>1, FS_Subset
  <2>10. Cardinality(Slots \ {slot}) = Cardinality(Slots) - 1
    BY <2>7, SlotsFinite, FS_RemoveElement
  <2>11. Len(lh') = Len(lh) + 1
    BY <1>3, <1>4, <1>10 DEF IInv, TypeOK
  <2> QED
    BY <1>2, <1>5, <1>8, <2>9, <2>10, <2>11, SlotsFinite, LogAssumption DEF IInv, Room
<1> QED
  BY <1>9, <1>10

LEMMA StepRoom ==
  ASSUME IInv, Next
  PROVE  Room'
<1> USE DEF IInv, TypeOK
<1>1. CallOK'
  BY StepCall
<1>2. ASSUME UNCHANGED <<lh, dhead>>, InOp' \subseteq InOp,
             \A p \in InOp' : written[p] \subseteq written'[p]
      PROVE  Room'
  <2>1. \A p \in InOp' : Absorbed(p) \subseteq Absorbed(p)'
    BY <1>2 DEF Absorbed
  <2>2. Slots' \subseteq Slots /\ Cardinality(Slots') <= Cardinality(Slots)
    BY <1>1, <1>2, <2>1, SlotsShrink
  <2>3. Cardinality(Slots') \in Nat
    BY <2>2, SlotsFinite, FS_Subset, FS_CardinalityType
  <2> QED
    BY <1>2, <2>2, <2>3, SlotsFinite, LogAssumption DEF Room
<1>3. ASSUME InOp' = {}, lh' \in {lh, dhead, << >>}, dhead' \in {lh, dhead, << >>} PROVE Room'
  <2>1. Cardinality(Slots') = 0
    BY <1>3, FS_EmptySet DEF Slots
  <2>2. Len(lh) + 2 <= LOGSIZE /\ 0 + 2 <= LOGSIZE
    BY SlotsFinite, LogAssumption DEF Room
  <2> QED
    BY <1>3, <2>1, <2>2 DEF Room
<1>4. ASSUME NEW p \in Procs, Enter(p) \/ BeginSleep(p) PROVE Room'
  <2>1. UNCHANGED <<lh, dhead, written>> /\ InOp' = InOp
    BY <1>4 DEF InOp, Enter, BeginSleep, disk
  <2> QED
    BY <1>2, <2>1
<1>5. ASSUME NEW p \in Procs, NEW b \in Blocks, Modify(p, b) PROVE Room'
  <2>1. UNCHANGED <<lh, dhead>> /\ InOp' = InOp
    BY <1>5 DEF InOp, Modify, disk
  <2>2. \A q \in InOp' : written[q] \subseteq written'[q]
    BY <1>5 DEF InOp, Modify
  <2> QED
    BY <1>2, <2>1, <2>2
<1>6. ASSUME NEW p \in Procs, EndOp(p) PROVE Room'
  <2>1. UNCHANGED <<lh, dhead, written>>
    BY <1>6 DEF EndOp, disk
  <2> QED
    BY <1>2, <1>6, <2>1, InOpEnds
<1>7. ASSUME NEW b \in Blocks, Evict(b) PROVE Room'
  <2>1. UNCHANGED <<lh, dhead, written>> /\ InOp' = InOp
    BY <1>7 DEF InOp, Evict, disk
  <2> QED
    BY <1>2, <2>1
<1>8. ASSUME NEW p \in Procs, Commit(p) PROVE Room'
  <2>1. InOp' = {}
    BY <1>8 DEF InOp, Commit, WriteLog, WriteHead, InstallTrans, ClearHead, EndCommit, Wakeup,
                QuiescentCommit, CommitStates
  <2>2. lh' \in {lh, << >>} /\ dhead' \in {lh, dhead, << >>}
    BY <1>8 DEF Commit, WriteLog, WriteHead, InstallTrans, ClearHead, EndCommit, disk
  <2> QED
    BY <1>3, <2>1, <2>2
<1>9. CASE RecoverInstall \/ RecoverClear
  <2>1. InOp' = {}
    BY <1>9 DEF InOp, RecoverInstall, RecoverClear, DownOK
  <2> QED
    BY <1>3, <1>9, <2>1 DEF RecoverInstall, RecoverClear
<1>10. CASE Crash
  <2>1. InOp' = {}
    BY <1>10 DEF InOp, Crash
  <2> QED
    BY <1>3, <1>10, <2>1 DEF Crash, disk
<1> QED
  BY <1>1, <1>4, <1>5, <1>6, <1>7, <1>8, <1>9, <1>10, RoomBegins, RoomWrites DEF Next, Call

LEMMA StutterIInv ==
  ASSUME IInv, UNCHANGED vars
  PROVE  IInv'
<1>1. /\ UNCHANGED <<up, outstanding, committing, lh, cache, dirty, pc, op, written, buf, tail,
                      home, dlog, dhead, nops, crashes>>
  BY DEF vars, memory, disk
<1>2. InOp' = InOp
  BY <1>1 DEF InOp
<1>3. Slots' = Slots
  BY <1>1, <1>2 DEF Slots, Absorbed
<1>4. TypeOK' /\ QuiescentCommit' /\ NoPanic' /\ SleepersAreBlocked'
  BY <1>1, <1>2 DEF IInv, TypeOK, QuiescentCommit, NoPanic, Panicked, SleepersAreBlocked, HasRoom
<1>5. LoopOK' /\ DownOK' /\ CallOK' /\ Room'
  BY <1>1, <1>2, <1>3 DEF IInv, LoopOK, DownOK, CallOK, Room
<1> QED
  BY <1>4, <1>5 DEF IInv

(* IInv is inductive: whatever the calls, the commits and the crashes, the *)
(* control state of log.c, the header and the reservation agree.           *)
THEOREM Inductive == Spec => []IInv
<1>1. IInv /\ [Next]_vars => IInv'
  <2> SUFFICES ASSUME IInv, [Next]_vars PROVE IInv'
    OBVIOUS
  <2>1. CASE Next
    BY <2>1, StepType, StepQuiet, StepNoPanic, StepSleepers, StepLoop, StepDown, StepCall, StepRoom DEF IInv
  <2>2. CASE UNCHANGED vars
    BY <2>2, StutterIInv
  <2> QED
    BY <2>1, <2>2
<1> QED
  BY InitIInv, <1>1, PTL DEF Spec

(* What begin_op reserves is enough: log_write never comes to its panics   *)
(* "too big a transaction" and "log_write outside of trans", nor end_op to *)
(* "log.committing", for any number of processes and any size of the log.  *)
THEOREM ReservationHolds == Spec => []WithinBounds
<1>1. IInv => WithinBounds
  BY DEF IInv, WithinBounds
<1> QED
  BY <1>1, Inductive, PTL

(* A commit runs alone: log.outstanding counts the calls under way, there  *)
(* is none while log.committing is set, and one process at most is in      *)
(* commit().                                                               *)
THEOREM CommitsAlone == Spec => []QuiescentCommit
<1>1. IInv => QuiescentCommit
  BY DEF IInv
<1> QED
  BY <1>1, Inductive, PTL

(* No wakeup of end_op is lost: who sleeps in begin_op still has something *)
(* to wait for.                                                            *)
THEOREM NobodyOversleeps == Spec => []SleepersAreBlocked
<1>1. IInv => SleepersAreBlocked
  BY DEF IInv
<1> QED
  BY <1>1, Inductive, PTL

-----------------------------------------------------------------------------
(* Log implements AtomicDisk: wherever the machine stops, in a call, a     *)
(* commit or a recovery, log.c leaves all of a group or nothing.           *)

(* No block is twice in a header: log_write absorbs. *)
Distinct(s) == \A i, j \in DOMAIN s : s[i] = s[j] => i = j

(* The header on disk is that of a commit between its two write_heads, or  *)
(* of one that a crash interrupted there, and empty otherwise.             *)
Installing == \E p \in Procs : pc[p] \in {"install", "clear"}

HeadOK ==
  /\ Distinct(lh) /\ Distinct(dhead)
  /\ up => dhead = IF Installing THEN lh ELSE << >>
  /\ ~up => lh \in {dhead, << >>}

(* How far the loops of commit have come, in the log and at home. *)
CopiesOK ==
  \A p \in Procs :
    /\ pc[p] = "write_log" => \A i \in 1 .. tail - 1 : dlog[i] = cache[lh[i]]
    /\ pc[p] \in {"write_head", "install", "clear"} =>
         \A i \in DOMAIN lh : dlog[i] = cache[lh[i]]
    /\ pc[p] = "install" => \A i \in 1 .. tail - 1 : home[lh[i]] = cache[lh[i]]
    /\ pc[p] = "clear" => \A i \in DOMAIN lh : home[lh[i]] = cache[lh[i]]

(* What is not at home yet is in the header or in a locked buffer, and the *)
(* buffer of an entry stays pinned until the entry is installed.           *)
PinsOK ==
  up => /\ \A b \in Blocks : cache[b] # home[b] => b \in Entries(lh) \/ \E p \in Procs : b \in buf[p]
        /\ \A b \in Entries(lh) : b \in dirty \/ (Installing /\ home[b] = cache[b])

(* The recovery has copied the entries before the loop index, or all. *)
ReplayOK ==
  ~up => /\ cache = home
         /\ lh = << >> => \A i \in DOMAIN dhead : home[dhead[i]] = dlog[i]
         /\ lh # << >> => \A i \in 1 .. tail - 1 : home[lh[i]] = dlog[i]

AInv == IInv /\ HeadOK /\ CopiesOK /\ PinsOK /\ ReplayOK

-----------------------------------------------------------------------------
(* The disk that a header h, a log d and the home blocks m stand for. *)
Replay(h, d, m) == [b \in Blocks |-> IF b \in Entries(h) THEN d[LastEntry(h, b)] ELSE m[b]]

LEMMA RecoveredIsReplay ==
  /\ Recovered = Replay(dhead, dlog, home)
  /\ Recovered' = Replay(dhead', dlog', home')
  BY DEF Recovered, Replay

LEMMA ReplayEmpty ==
  ASSUME NEW V, NEW d, NEW m \in [Blocks -> V]
  PROVE  Replay(<< >>, d, m) = m
  BY DEF Replay, Entries

(* An entry of a header without repetitions decides for its block. *)
LEMMA ReplayAt ==
  ASSUME NEW h \in Seq(Blocks), Distinct(h), NEW d, NEW m, NEW i \in DOMAIN h
  PROVE  Replay(h, d, m)[h[i]] = d[i]
<1>1. h[i] \in Blocks /\ h[i] \in Entries(h)
  BY DEF Entries
<1>2. \A j \in (i + 1) .. Len(h) : h[j] # h[i]
  BY DEF Distinct
<1>3. \A j \in DOMAIN h : h[j] = h[i] => j = i
  BY DEF Distinct
<1>4. LastEntry(h, h[i]) = i
  BY <1>2, <1>3 DEF LastEntry
<1> QED
  BY <1>1, <1>4 DEF Replay

(* The entries have in d, and the other blocks at home, what c says. *)
Agree(h, d, m, c) ==
  /\ \A i \in DOMAIN h : d[i] = c[h[i]]
  /\ \A b \in Blocks : b \notin Entries(h) => m[b] = c[b]

LEMMA ReplayIs ==
  ASSUME NEW h \in Seq(Blocks), Distinct(h), NEW d, NEW m, NEW c \in [Blocks -> Values],
         Agree(h, d, m, c)
  PROVE  Replay(h, d, m) = c
<1> USE DEF Agree
<1>1. ASSUME NEW b \in Blocks PROVE Replay(h, d, m)[b] = c[b]
  <2>1. CASE b \in Entries(h)
    <3>1. PICK i \in DOMAIN h : h[i] = b
      BY <2>1 DEF Entries
    <3> QED
      BY <3>1, ReplayAt
  <2>2. CASE b \notin Entries(h)
    BY <2>2 DEF Replay
  <2> QED
    BY <2>1, <2>2
<1>2. DOMAIN Replay(h, d, m) = Blocks /\ Replay(h, d, m) = [b \in Blocks |-> Replay(h, d, m)[b]]
  BY DEF Replay
<1>3. c = [b \in Blocks |-> c[b]]
  OBVIOUS
<1> QED
  BY <1>1, <1>2, <1>3

(* Home blocks that have an entry do not matter. *)
LEMMA ReplaySame ==
  ASSUME NEW h, NEW d, NEW m, NEW k,
         \A b \in Blocks : b \notin Entries(h) => m[b] = k[b]
  PROVE  Replay(h, d, m) = Replay(h, d, k)
  BY DEF Replay

-----------------------------------------------------------------------------
LEMMA CommitterAlone ==
  ASSUME IInv, NEW p \in Procs, pc[p] \in CommitStates
  PROVE  /\ committing /\ InOp = {}
         /\ \A q \in Procs \ {p} : pc[q] \notin CommitStates
         /\ \A q \in Procs : buf[q] = {}
<1>1. committing /\ InOp = {} /\ \A q \in Procs \ {p} : pc[q] \notin CommitStates
  BY DEF IInv, QuiescentCommit
<1>2. \A q \in Procs : pc[q] # "record"
  BY <1>1 DEF InOp
<1> QED
  BY <1>1, <1>2 DEF IInv, CallOK

LEMMA CallerAlone ==
  ASSUME IInv, NEW p \in Procs, p \in InOp
  PROVE  ~committing /\ \A q \in Procs : pc[q] \notin CommitStates
  BY DEF IInv, QuiescentCommit

LEMMA NotInstalling ==
  ASSUME \A q \in Procs : pc[q] \notin CommitStates
  PROVE  ~Installing
  BY DEF Installing, CommitStates

(* A buffer that bget recycles holds what is at home. *)
LEMMA EvictSame ==
  ASSUME AInv, NEW b \in Blocks, Evict(b)
  PROVE  cache' = cache
<1>1. cache[b] = home[b]
  BY DEF AInv, PinsOK, Evict
<1> QED
  BY <1>1 DEF AInv, IInv, TypeOK, Evict

(* install_trans writes to the home of a block what its buffer holds. *)
LEMMA InstallSame ==
  ASSUME AInv, tail \in 1 .. Len(lh), InstallBlock, cache[lh[tail]] = dlog[tail]
  PROVE  /\ cache' = cache
         /\ home'[lh[tail]] = cache[lh[tail]]
         /\ \A b \in Blocks \ {lh[tail]} : home'[b] = home[b]
  BY AtTail DEF AInv, IInv, TypeOK, InstallBlock

-----------------------------------------------------------------------------
LEMMA StepHead ==
  ASSUME AInv, Next
  PROVE  HeadOK'
<1> USE DEF AInv, HeadOK
<1>0. IInv /\ lh \in Seq(Blocks) /\ dhead \in Seq(Blocks) /\ pc \in [Procs -> PcStates]
  BY DEF IInv, TypeOK
<1>1. ASSUME NEW p \in Procs, Enter(p) \/ BeginSleep(p) \/ BeginOp(p) PROVE HeadOK'
  <2>1. UNCHANGED <<up, lh, dhead>>
    BY <1>1 DEF Enter, BeginSleep, BeginOp, disk
  <2>2. Installing' = Installing
    BY <1>0, <1>1 DEF Enter, BeginSleep, BeginOp, Installing
  <2> QED
    BY <2>1, <2>2
<1>2. ASSUME NEW p \in Procs, NEW b \in Blocks, Modify(p, b) PROVE HeadOK'
  <2>1. UNCHANGED <<up, lh, dhead>>
    BY <1>2 DEF Modify, disk
  <2>2. Installing' = Installing
    BY <1>0, <1>2 DEF Modify, Installing
  <2> QED
    BY <2>1, <2>2
<1>3. ASSUME NEW p \in Procs, up, LogWrite(p) PROVE HeadOK'
  <2>1. p \in InOp
    BY <1>3 DEF LogWrite, InOp
  <2>2. ~Installing /\ \A q \in Procs : pc[q] \notin CommitStates
    BY <1>0, <2>1, CallerAlone, NotInstalling
  <2>3. ~Installing'
    BY <1>3, <2>2 DEF LogWrite, Installing, CommitStates
  <2>4. PICK b \in Blocks : lh' = IF b \in Entries(lh) THEN lh ELSE Append(lh, b)
    BY <1>3 DEF LogWrite, IInv, TypeOK
  <2>5. Distinct(lh')
    <3>1. ASSUME b \notin Entries(lh), NEW i \in DOMAIN lh', NEW j \in DOMAIN lh', lh'[i] = lh'[j] PROVE i = j
      <4>1. lh' = Append(lh, b) /\ DOMAIN lh' = 1 .. Len(lh) + 1
        BY <1>0, <2>4, <3>1
      <4>2. \A k \in 1 .. Len(lh) : lh'[k] = lh[k] /\ lh[k] # b
        BY <1>0, <3>1, <4>1 DEF Entries
      <4>3. lh'[Len(lh) + 1] = b
        BY <1>0, <4>1
      <4> QED
        BY <1>0, <3>1, <4>1, <4>2, <4>3 DEF Distinct
    <3> QED
      BY <2>4, <3>1 DEF Distinct
  <2>6. UNCHANGED <<up, dhead>>
    BY <1>3 DEF LogWrite, disk
  <2> QED
    BY <1>3, <2>2, <2>3, <2>5, <2>6
<1>4. ASSUME NEW p \in Procs, up, EndOp(p) PROVE HeadOK'
  <2>1. p \in InOp /\ ~committing
    BY <1>0, <1>4, InOpEnds
  <2>2. ~Installing /\ \A q \in Procs : pc[q] \notin CommitStates
    BY <1>0, <2>1, CallerAlone, NotInstalling
  <2>3. ~Installing'
    BY <1>0, <1>4, <2>1, <2>2 DEF EndOp, Wakeup, Installing, CommitStates
  <2>4. UNCHANGED <<up, lh, dhead>>
    BY <1>4 DEF EndOp, disk
  <2> QED
    BY <2>2, <2>3, <2>4
<1>5. ASSUME NEW p \in Procs, up, Commit(p) PROVE HeadOK'
  <2>1. pc[p] \in CommitStates
    BY <1>5 DEF Commit, WriteLog, WriteHead, InstallTrans, ClearHead, EndCommit, CommitStates
  <2>2. \A q \in Procs \ {p} : pc[q] \notin CommitStates
    BY <1>0, <2>1, CommitterAlone
  <2>3. Installing <=> pc[p] \in {"install", "clear"}
    BY <2>2 DEF Installing, CommitStates
  <2>4. \A q \in Procs \ {p} : pc'[q] \notin CommitStates
    BY <1>0, <1>5, <2>2 DEF Commit, WriteLog, WriteHead, InstallTrans, ClearHead, EndCommit, Wakeup, CommitStates
  <2>5. Installing' <=> pc'[p] \in {"install", "clear"}
    BY <2>4 DEF Installing, CommitStates
  <2>6. up' = up
    BY <1>5 DEF Commit, WriteLog, WriteHead, InstallTrans, ClearHead, EndCommit
  <2>7. CASE WriteLog(p)
    BY <1>0, <1>5, <2>3, <2>5, <2>6, <2>7 DEF WriteLog
  <2>8. CASE WriteHead(p)
    BY <1>0, <1>5, <2>3, <2>5, <2>6, <2>8 DEF WriteHead
  <2>9. CASE InstallTrans(p)
    BY <1>0, <1>5, <2>3, <2>5, <2>6, <2>9 DEF InstallTrans
  <2>10. CASE ClearHead(p)
    BY <1>0, <1>5, <2>3, <2>5, <2>6, <2>10 DEF ClearHead, Distinct
  <2>11. CASE EndCommit(p)
    BY <1>0, <1>5, <2>3, <2>5, <2>6, <2>11 DEF EndCommit, Wakeup, disk
  <2> QED
    BY <1>5, <2>7, <2>8, <2>9, <2>10, <2>11 DEF Commit
<1>6. ASSUME NEW b \in Blocks, Evict(b) PROVE HeadOK'
  <2>1. UNCHANGED <<up, lh, dhead, pc>>
    BY <1>6 DEF Evict, disk
  <2> QED
    BY <2>1 DEF Installing
<1>7. CASE RecoverInstall
  BY <1>7 DEF RecoverInstall, Distinct
<1>8. CASE RecoverClear
  <2>1. \A q \in Procs : pc'[q] = "idle"
    BY <1>8 DEF RecoverClear, IInv, DownOK
  <2> QED
    BY <1>8, <2>1 DEF RecoverClear, Installing, Distinct
<1>9. CASE Crash
  BY <1>9 DEF Crash, disk
<1> QED
  BY <1>1, <1>2, <1>3, <1>4, <1>5, <1>6, <1>7, <1>8, <1>9 DEF Next, Call

LEMMA StepCopies ==
  ASSUME AInv, Next
  PROVE  CopiesOK'
<1> USE DEF AInv, CopiesOK
<1>0. /\ IInv /\ lh \in Seq(Blocks) /\ pc \in [Procs -> PcStates] /\ tail \in Nat \ {0}
      /\ dlog \in [1 .. LOGSIZE -> Values] /\ home \in [Blocks -> Values]
  BY DEF IInv, TypeOK
<1>1. ASSUME NEW p \in Procs, Enter(p) \/ BeginSleep(p) \/ BeginOp(p) PROVE CopiesOK'
  <2>1. UNCHANGED <<lh, dlog, home, cache, tail>>
    BY <1>1 DEF Enter, BeginSleep, BeginOp, disk
  <2>2. \A q \in Procs : pc'[q] \in CommitStates => pc'[q] = pc[q]
    BY <1>0, <1>1 DEF Enter, BeginSleep, BeginOp, CommitStates
  <2> QED
    BY <2>1, <2>2 DEF CommitStates
<1>2. ASSUME NEW p \in InOp, NEW b \in Blocks, Modify(p, b) \/ LogWrite(p) PROVE CopiesOK'
  <2>1. \A q \in Procs : pc[q] \notin CommitStates
    BY <1>0, <1>2, CallerAlone DEF InOp
  <2>2. \A q \in Procs : pc'[q] \notin CommitStates
    BY <1>0, <1>2, <2>1 DEF Modify, LogWrite, CommitStates
  <2> QED
    BY <2>2 DEF CommitStates
<1>3. ASSUME NEW p \in Procs, EndOp(p) PROVE CopiesOK'
  <2>1. ~committing /\ p \in InOp
    BY <1>0, <1>3, InOpEnds
  <2>2. \A q \in Procs : pc[q] \notin CommitStates
    BY <1>0, <2>1, CallerAlone
  <2>3. \A q \in Procs : pc'[q] \in CommitStates => pc'[q] \in {"write_log", "done"}
    BY <1>0, <1>3, <2>1, <2>2 DEF EndOp, Wakeup, CommitStates
  <2>4. tail' = 1
    BY <1>3 DEF EndOp
  <2> QED
    BY <2>3, <2>4 DEF CommitStates
<1>4. ASSUME NEW p \in Procs, Commit(p) PROVE CopiesOK'
  <2>1. pc[p] \in CommitStates
    BY <1>4 DEF Commit, WriteLog, WriteHead, InstallTrans, ClearHead, EndCommit, CommitStates
  <2>2. \A q \in Procs \ {p} : pc[q] \notin CommitStates
    BY <1>0, <2>1, CommitterAlone
  <2>3. \A q \in Procs \ {p} : pc'[q] \notin CommitStates
    BY <1>0, <1>4, <2>2 DEF Commit, WriteLog, WriteHead, InstallTrans, ClearHead, EndCommit, Wakeup, CommitStates
  <2>4. DOMAIN lh = 1 .. Len(lh)
    BY <1>0
  <2>5. CASE WriteLog(p)
    <3>1. /\ tail \in 1 .. Len(lh) /\ tail \in 1 .. LOGSIZE
          /\ UNCHANGED <<lh, cache, home>>
      BY <1>0, <2>5, AtTail DEF WriteLog, IInv, LoopOK
    <3>2. \A i \in 1 .. tail : dlog'[i] = cache[lh[i]]
      BY <1>0, <2>5, <3>1 DEF WriteLog
    <3> QED
      BY <1>0, <2>3, <2>4, <2>5, <3>1, <3>2 DEF WriteLog, CommitStates
  <2>6. CASE WriteHead(p)
    <3>1. tail = 1
      BY <2>6 DEF WriteHead, IInv, LoopOK
    <3>2. pc'[p] = "install" /\ UNCHANGED <<lh, cache, home, dlog, tail>>
      BY <1>0, <2>6 DEF WriteHead
    <3>3. \A i \in DOMAIN lh : dlog[i] = cache[lh[i]]
      BY <2>6 DEF WriteHead
    <3> QED
      BY <2>3, <3>1, <3>2, <3>3 DEF CommitStates
  <2>7. CASE InstallTrans(p)
    <3>1. tail \in 1 .. Len(lh)
      BY <2>7 DEF InstallTrans, IInv, LoopOK
    <3>2. \A i \in DOMAIN lh : dlog[i] = cache[lh[i]]
      BY <2>7 DEF InstallTrans
    <3>3. /\ cache' = cache /\ home'[lh[tail]] = cache[lh[tail]]
          /\ \A b \in Blocks \ {lh[tail]} : home'[b] = home[b]
      BY <2>4, <2>7, <3>1, <3>2, InstallSame DEF InstallTrans
    <3>4. \A i \in 1 .. tail - 1 : home[lh[i]] = cache[lh[i]] /\ lh[i] \in Blocks
      BY <1>0, <2>7, <3>1 DEF InstallTrans
    <3>5. \A i \in 1 .. tail : home'[lh[i]] = cache[lh[i]]
      BY <1>0, <3>1, <3>3, <3>4
    <3>6. UNCHANGED <<lh, dlog>> /\ pc'[p] \in {"install", "clear"}
      BY <1>0, <2>7 DEF InstallTrans
    <3>7. (pc'[p] = "clear" => tail = Len(lh)) /\ (pc'[p] = "install" => tail' = tail + 1)
      BY <1>0, <2>7 DEF InstallTrans, InstallBlock
    <3>8. \A i \in DOMAIN lh' : dlog'[i] = cache'[lh'[i]]
      BY <3>2, <3>3, <3>6
    <3>9. pc'[p] = "install" => \A i \in 1 .. tail' - 1 : home'[lh'[i]] = cache'[lh'[i]]
      <4>1. CASE pc'[p] = "install"
        <5>1. tail' - 1 = tail
          BY <1>0, <3>7, <4>1
        <5> QED
          BY <3>3, <3>5, <3>6, <5>1
      <4> QED
        BY <4>1
    <3>10. pc'[p] = "clear" => \A i \in DOMAIN lh' : home'[lh'[i]] = cache'[lh'[i]]
      BY <2>4, <3>3, <3>5, <3>6, <3>7
    <3>11. \A q \in Procs : q = p \/ pc'[q] \notin CommitStates
      BY <2>3
    <3> QED
      BY <3>6, <3>8, <3>9, <3>10, <3>11 DEF CommitStates
  <2>8. CASE ClearHead(p) \/ EndCommit(p)
    <3>1. pc'[p] \in {"done", "idle"}
      BY <1>0, <2>8 DEF ClearHead, EndCommit, Wakeup
    <3> QED
      BY <2>3, <3>1 DEF CommitStates
  <2> QED
    BY <1>4, <2>5, <2>6, <2>7, <2>8 DEF Commit
<1>5. ASSUME NEW b \in Blocks, Evict(b) PROVE CopiesOK'
  <2>1. UNCHANGED <<lh, dlog, home, tail, pc, cache>>
    BY <1>5, EvictSame DEF Evict, disk
  <2> QED
    BY <2>1
<1>6. CASE RecoverInstall \/ RecoverClear \/ Crash
  <2>1. \A q \in Procs : pc'[q] = "idle"
    BY <1>6 DEF RecoverInstall, RecoverClear, Crash, IInv, DownOK
  <2> QED
    BY <2>1
<1>7. \A p \in Procs, b \in Blocks : Modify(p, b) \/ LogWrite(p) => p \in InOp
  BY DEF Modify, LogWrite, InOp
<1>8. \A p \in Procs : LogWrite(p) => \E b \in Blocks : TRUE
  BY DEF LogWrite, IInv, TypeOK
<1> QED
  BY <1>1, <1>2, <1>3, <1>4, <1>5, <1>6, <1>7, <1>8 DEF Next, Call

LEMMA StepPins ==
  ASSUME AInv, Next
  PROVE  PinsOK'
<1> USE DEF AInv, PinsOK
<1>0. /\ IInv /\ lh \in Seq(Blocks) /\ pc \in [Procs -> PcStates] /\ tail \in Nat \ {0}
      /\ cache \in [Blocks -> Values] /\ home \in [Blocks -> Values]
      /\ buf \in [Procs -> SUBSET Blocks] /\ dirty \subseteq Blocks
  BY DEF IInv, TypeOK
<1>1. ASSUME NEW p \in Procs, up, Enter(p) \/ BeginSleep(p) \/ BeginOp(p) PROVE PinsOK'
  <2>1. UNCHANGED <<lh, home, cache, dirty, buf>>
    BY <1>1 DEF Enter, BeginSleep, BeginOp, disk
  <2>2. Installing' = Installing
    BY <1>0, <1>1 DEF Enter, BeginSleep, BeginOp, Installing
  <2> QED
    BY <1>1, <2>1, <2>2
<1>2. ASSUME NEW p \in Procs, NEW b \in Blocks, up, Modify(p, b) PROVE PinsOK'
  <2>1. p \in InOp /\ buf[p] = {}
    BY <1>2 DEF Modify, InOp, IInv, CallOK
  <2>2. ~Installing
    BY <1>0, <2>1, CallerAlone, NotInstalling
  <2>3. UNCHANGED <<lh, home, dirty>> /\ b \in buf'[p]
    BY <1>0, <1>2 DEF Modify, disk
  <2>4. \A c \in Blocks \ {b} : cache'[c] = cache[c]
    BY <1>0, <1>2 DEF Modify
  <2>5. \A q \in Procs : buf[q] \subseteq buf'[q]
    BY <1>0, <1>2, <2>1 DEF Modify
  <2> QED
    BY <1>2, <2>2, <2>3, <2>4, <2>5
<1>3. ASSUME NEW p \in Procs, up, LogWrite(p) PROVE PinsOK'
  <2>1. p \in InOp
    BY <1>3 DEF LogWrite, InOp
  <2>2. ~Installing
    BY <1>0, <2>1, CallerAlone, NotInstalling
  <2>3. PICK b \in buf[p] : /\ lh' = IF b \in Entries(lh) THEN lh ELSE Append(lh, b)
                            /\ dirty' = dirty \cup {b}
    BY <1>3 DEF LogWrite
  <2>4. Entries(lh') = Entries(lh) \cup {b} /\ b \in Blocks
    BY <1>0, <2>3, EntriesAppend
  <2>5. buf[p] = {b}
    BY <1>3, <2>3 DEF LogWrite, IInv, CallOK
  <2>6. \A q \in Procs \ {p} : buf'[q] = buf[q]
    BY <1>0, <1>3 DEF LogWrite
  <2>7. UNCHANGED <<home, cache>>
    BY <1>3 DEF LogWrite, disk
  <2> QED
    BY <1>3, <2>2, <2>3, <2>4, <2>5, <2>6, <2>7
<1>4. ASSUME NEW p \in Procs, up, EndOp(p) PROVE PinsOK'
  <2>1. p \in InOp
    BY <1>0, <1>4, InOpEnds
  <2>2. ~Installing
    BY <1>0, <2>1, CallerAlone, NotInstalling
  <2>3. UNCHANGED <<lh, home, cache, dirty, buf>>
    BY <1>4 DEF EndOp, disk
  <2> QED
    BY <1>4, <2>2, <2>3
<1>5. ASSUME NEW p \in Procs, up, Commit(p) PROVE PinsOK'
  <2>1. pc[p] \in CommitStates
    BY <1>5 DEF Commit, WriteLog, WriteHead, InstallTrans, ClearHead, EndCommit, CommitStates
  <2>2. \A q \in Procs : buf[q] = {} /\ (q # p => pc[q] \notin CommitStates)
    BY <1>0, <2>1, CommitterAlone
  <2>3. Installing => pc[p] \in {"install", "clear"}
    BY <2>2 DEF Installing, CommitStates
  <2>4. CASE WriteLog(p) \/ WriteHead(p) \/ EndCommit(p)
    <3>1. ~Installing
      BY <2>3, <2>4 DEF WriteLog, WriteHead, EndCommit
    <3>2. UNCHANGED <<lh, home, cache, dirty, buf>>
      BY <2>4 DEF WriteLog, WriteHead, EndCommit, disk
    <3> QED
      BY <1>5, <3>1, <3>2
  <2>5. CASE InstallTrans(p)
    <3>1. tail \in 1 .. Len(lh)
      BY <2>5 DEF InstallTrans, IInv, LoopOK
    <3>2. cache[lh[tail]] = dlog[tail] /\ lh[tail] \in Blocks
      BY <1>0, <2>5, <3>1, AtTail DEF InstallTrans, CopiesOK
    <3>3. /\ cache' = cache /\ home'[lh[tail]] = cache[lh[tail]]
          /\ \A b \in Blocks \ {lh[tail]} : home'[b] = home[b]
      BY <2>5, <3>1, <3>2, InstallSame DEF InstallTrans
    <3>4. dirty' = dirty \ {lh[tail]} /\ UNCHANGED <<lh, buf>>
      BY <2>5 DEF InstallTrans, InstallBlock
    <3>5. Installing'
      BY <1>0, <2>5 DEF InstallTrans, Installing
    <3>6. \A b \in Blocks : cache'[b] # home'[b] => cache[b] # home[b]
      BY <3>3
    <3>7. \A b \in Entries(lh) : b \in Blocks
      BY <1>0 DEF Entries
    <3>8. \A b \in Entries(lh) : b \in dirty' \/ home'[b] = cache'[b]
      BY <1>5, <3>3, <3>4, <3>7
    <3> QED
      BY <1>5, <3>4, <3>5, <3>6, <3>8
  <2>6. CASE ClearHead(p)
    <3>1. \A b \in Entries(lh) : home[b] = cache[b]
      BY <2>6 DEF ClearHead, CopiesOK, Entries
    <3>2. \A b \in Blocks : home[b] = cache[b]
      BY <1>5, <2>2, <3>1
    <3>3. Entries(lh') = {} /\ UNCHANGED <<home, cache>>
      BY <2>6 DEF ClearHead, Entries
    <3> QED
      BY <3>2, <3>3
  <2> QED
    BY <1>5, <2>4, <2>5, <2>6 DEF Commit
<1>6. ASSUME NEW b \in Blocks, up, Evict(b) PROVE PinsOK'
  <2>1. UNCHANGED <<lh, home, pc, cache, dirty, buf>>
    BY <1>6, EvictSame DEF Evict, disk
  <2>2. Installing' = Installing
    BY <2>1 DEF Installing
  <2> QED
    BY <1>6, <2>1, <2>2
<1>7. CASE RecoverClear
  <2>1. cache' = home' /\ Entries(lh') = {}
    BY <1>7 DEF RecoverClear, ReplayOK, Entries
  <2> QED
    BY <2>1
<1>8. CASE RecoverInstall \/ Crash
  BY <1>8 DEF RecoverInstall, Crash
<1> QED
  BY <1>1, <1>2, <1>3, <1>4, <1>5, <1>6, <1>7, <1>8 DEF Next, Call

LEMMA StepReplay ==
  ASSUME AInv, Next
  PROVE  ReplayOK'
<1> USE DEF AInv, ReplayOK
<1>0. /\ IInv /\ lh \in Seq(Blocks) /\ dhead \in Seq(Blocks) /\ tail \in Nat \ {0}
      /\ cache \in [Blocks -> Values] /\ home \in [Blocks -> Values]
  BY DEF IInv, TypeOK
<1>1. CASE RecoverInstall
  <2>1. tail \in 1 .. Len(lh) /\ ~up /\ lh # << >> /\ lh = dhead /\ InstallBlock
    BY <1>1 DEF RecoverInstall, IInv, LoopOK, HeadOK
  <2>2. lh[tail] \in Blocks
    BY <1>0, <2>1, AtTail
  <2>3. cache' = home'
    BY <2>1 DEF InstallBlock
  <2>4. \A i \in 1 .. tail - 1 : lh[i] # lh[tail] /\ lh[i] \in Blocks
    BY <1>0, <2>1 DEF HeadOK, Distinct
  <2>5. \A i \in 1 .. tail : home'[lh[i]] = dlog[i]
    BY <1>0, <2>1, <2>2, <2>4 DEF InstallBlock
  <2>6. UNCHANGED <<dlog, dhead, up>> /\ lh' = IF tail = Len(lh) THEN << >> ELSE lh
    BY <1>1 DEF RecoverInstall
  <2>7. tail # Len(lh) => tail' = tail + 1
    BY <2>1 DEF InstallBlock
  <2> QED
    BY <1>0, <2>1, <2>3, <2>5, <2>6, <2>7
<1>2. CASE Crash
  <2>1. cache' = home' /\ lh' = dhead /\ tail' = 1 /\ UNCHANGED <<dlog, dhead, home>>
    BY <1>2 DEF Crash, disk
  <2> QED
    BY <2>1
<1>3. CASE ~RecoverInstall /\ ~Crash
  <2>1. up'
    BY <1>3 DEF Next, Call, Commit, Enter, BeginSleep, BeginOp, Modify, LogWrite, EndOp, WriteLog, WriteHead,
                InstallTrans, ClearHead, EndCommit, Evict, RecoverClear
  <2> QED
    BY <2>1
<1> QED
  BY <1>1, <1>2, <1>3

LEMMA InitAInv == Init => AInv
<1> SUFFICES ASSUME Init PROVE AInv
  OBVIOUS
<1>1. IInv
  BY InitIInv
<1>2. ~Installing
  BY DEF Init, Installing
<1>3. HeadOK
  BY <1>2 DEF Init, HeadOK, Distinct
<1>4. CopiesOK /\ PinsOK /\ ReplayOK
  BY DEF Init, CopiesOK, PinsOK, ReplayOK, Entries
<1> QED
  BY <1>1, <1>3, <1>4 DEF AInv

LEMMA StutterAInv ==
  ASSUME AInv, UNCHANGED vars
  PROVE  AInv'
<1>1. IInv'
  BY StutterIInv DEF AInv
<1>2. UNCHANGED <<up, lh, cache, dirty, pc, buf, tail, home, dlog, dhead>>
  BY DEF vars, memory, disk
<1>3. Installing' = Installing
  BY <1>2 DEF Installing
<1>4. HeadOK' /\ CopiesOK'
  BY <1>2, <1>3 DEF AInv, HeadOK, CopiesOK
<1>5. PinsOK' /\ ReplayOK'
  BY <1>2, <1>3 DEF AInv, PinsOK, ReplayOK
<1> QED
  BY <1>1, <1>4, <1>5 DEF AInv

LEMMA AInvInductive == Spec => []AInv
<1>1. AInv /\ [Next]_vars => AInv'
  <2> SUFFICES ASSUME AInv, [Next]_vars PROVE AInv'
    OBVIOUS
  <2>1. CASE Next
    <3>1. IInv'
      BY <2>1, StepType, StepQuiet, StepNoPanic, StepSleepers, StepLoop, StepDown, StepCall, StepRoom DEF AInv, IInv
    <3> QED
      BY <2>1, <3>1, StepHead, StepCopies, StepPins, StepReplay DEF AInv
  <2>2. CASE UNCHANGED vars
    BY <2>2, StutterAInv
  <2> QED
    BY <2>1, <2>2
<1> QED
  BY InitAInv, <1>1, PTL DEF Spec

-----------------------------------------------------------------------------
(* The disk that a crash would leave: that of the last commit, which is    *)
(* what the calls see from the first write_head of a commit on.            *)
LEMMA RecoveredIs ==
  ASSUME AInv, up
  PROVE  Recovered = IF Installing THEN cache ELSE home
<1> USE DEF AInv
<1>1. /\ IInv /\ lh \in Seq(Blocks) /\ Distinct(lh)
      /\ cache \in [Blocks -> Values] /\ home \in [Blocks -> Values]
  BY DEF IInv, TypeOK, HeadOK
<1>2. CASE ~Installing
  <2>1. dhead = << >>
    BY <1>2 DEF HeadOK
  <2> QED
    BY <1>1, <1>2, <2>1, ReplayEmpty, RecoveredIsReplay
<1>3. CASE Installing
  <2>1. PICK p \in Procs : pc[p] \in {"install", "clear"}
    BY <1>3 DEF Installing
  <2>2. \A q \in Procs : buf[q] = {}
    BY <1>1, <2>1, CommitterAlone DEF CommitStates
  <2>3. \A b \in Blocks : b \notin Entries(lh) => home[b] = cache[b]
    BY <2>2 DEF PinsOK
  <2>4. \A i \in DOMAIN lh : dlog[i] = cache[lh[i]]
    BY <2>1 DEF CopiesOK
  <2>5. Replay(lh, dlog, home) = cache
    BY <1>1, <2>3, <2>4, ReplayIs DEF Agree
  <2>6. dhead = lh
    BY <1>3 DEF HeadOK
  <2> QED
    BY <1>3, <2>5, <2>6, RecoveredIsReplay
<1> QED
  BY <1>2, <1>3

(* What AtomicDisk sees of a step. *)
Seen == IF up THEN cache ELSE Recovered

LEMMA SameSeen ==
  ASSUME UNCHANGED <<up, cache>>, Recovered' = Recovered
  PROVE  Seen' = Seen
  BY DEF Seen

LEMMA StepAtomic ==
  ASSUME AInv, Next
  PROVE  [Atomic!Next]_(Atomic!vars)
<1> USE DEF AInv
<1>0. /\ IInv /\ lh \in Seq(Blocks) /\ Distinct(lh) /\ pc \in [Procs -> PcStates]
      /\ cache \in [Blocks -> Values] /\ home \in [Blocks -> Values] /\ op \in [Procs -> Values]
      /\ buf \in [Procs -> SUBSET Blocks] /\ dlog \in [1 .. LOGSIZE -> Values]
  BY DEF IInv, TypeOK, HeadOK
<1>1. ASSUME Recovered' = Recovered, Seen' = Seen, InOp' = InOp
      PROVE  UNCHANGED Atomic!vars
  BY <1>1 DEF Atomic!vars, Seen
<1>2. ASSUME UNCHANGED disk PROVE Recovered' = Recovered
  BY <1>2, RecoveredIsReplay DEF disk
<1>3. ASSUME NEW p \in Procs, Enter(p) \/ BeginSleep(p) PROVE UNCHANGED Atomic!vars
  <2>1. InOp' = InOp
    BY <1>0, <1>3 DEF InOp, Enter, BeginSleep
  <2>2. UNCHANGED <<up, cache>> /\ UNCHANGED disk
    BY <1>3 DEF Enter, BeginSleep
  <2> QED
    BY <1>1, <1>2, <2>1, <2>2, SameSeen
<1>4. ASSUME NEW p \in Procs, BeginOp(p) PROVE Atomic!Begin(p)
  <2>1. InOp' = InOp \cup {p} /\ p \notin InOp
    BY <1>0, <1>4, InOpBegins
  <2>2. UNCHANGED <<up, cache>> /\ UNCHANGED disk
    BY <1>4 DEF BeginOp
  <2>3. Recovered' = Recovered /\ Seen' = Seen
    BY <1>2, <2>2, SameSeen
  <2> QED
    BY <2>1, <2>3 DEF Atomic!Begin, Seen
<1>5. ASSUME NEW p \in Procs, NEW b \in Blocks, up, Modify(p, b) PROVE Atomic!Write(p, b, op[p])
  <2>1. InOp' = InOp /\ p \in InOp
    BY <1>0, <1>5 DEF Modify, InOp
  <2>2. UNCHANGED disk /\ up' /\ cache' = [cache EXCEPT ![b] = op[p]]
    BY <1>5 DEF Modify
  <2>3. Recovered' = Recovered
    BY <1>2, <2>2
  <2> QED
    BY <1>5, <2>1, <2>2, <2>3 DEF Atomic!Write
<1>6. ASSUME NEW p \in Procs, LogWrite(p) PROVE UNCHANGED Atomic!vars
  <2>1. InOp' = InOp
    BY <1>0, <1>6 DEF InOp, LogWrite
  <2>2. UNCHANGED <<up, cache>> /\ UNCHANGED disk
    BY <1>6 DEF LogWrite
  <2> QED
    BY <1>1, <1>2, <2>1, <2>2, SameSeen
<1>7. ASSUME NEW p \in Procs, EndOp(p) PROVE Atomic!End(p)
  <2>1. InOp' = InOp \ {p} /\ p \in InOp
    BY <1>0, <1>7, InOpEnds
  <2>2. UNCHANGED <<up, cache>> /\ UNCHANGED disk
    BY <1>7 DEF EndOp
  <2>3. Recovered' = Recovered /\ Seen' = Seen
    BY <1>2, <2>2, SameSeen
  <2> QED
    BY <2>1, <2>3 DEF Atomic!End, Seen
<1>8. ASSUME NEW b \in Blocks, Evict(b) PROVE UNCHANGED Atomic!vars
  <2>1. UNCHANGED <<up, cache, pc>> /\ UNCHANGED disk
    BY <1>8, EvictSame DEF Evict
  <2>2. InOp' = InOp
    BY <2>1 DEF InOp
  <2> QED
    BY <1>1, <1>2, <2>1, <2>2, SameSeen
<1>9. ASSUME NEW p \in Procs, up, Commit(p) PROVE UNCHANGED Atomic!vars \/ Atomic!Commit
  <2>1. pc[p] \in CommitStates
    BY <1>9 DEF Commit, WriteLog, WriteHead, InstallTrans, ClearHead, EndCommit, CommitStates
  <2>2. InOp = {} /\ \A q \in Procs : buf[q] = {} /\ (q # p => pc[q] \notin CommitStates)
    BY <1>0, <2>1, CommitterAlone
  <2>3. InOp' = InOp
    BY <1>0, <1>9, <2>2 DEF InOp, Commit, WriteLog, WriteHead, InstallTrans, ClearHead, EndCommit, Wakeup
  <2>4. Installing <=> pc[p] \in {"install", "clear"}
    BY <2>2 DEF Installing, CommitStates
  <2>5. up' = up
    BY <1>9 DEF Commit, WriteLog, WriteHead, InstallTrans, ClearHead, EndCommit
  <2>6. \A b \in Blocks : b \notin Entries(lh) => home[b] = cache[b]
    BY <1>9, <2>2 DEF PinsOK
  <2>7. CASE WriteLog(p)
    <3>1. dhead = << >> /\ Recovered = home
      BY <1>9, <2>4, <2>7, RecoveredIs DEF WriteLog, HeadOK
    <3>2. UNCHANGED <<dhead, home, up, cache>>
      BY <2>7 DEF WriteLog
    <3>3. Recovered' = home
      BY <1>0, <3>1, <3>2, RecoveredIsReplay, ReplayEmpty
    <3> QED
      BY <1>1, <2>3, <3>1, <3>2, <3>3, SameSeen
  <2>8. CASE WriteHead(p)
    <3>1. \A i \in DOMAIN lh : dlog[i] = cache[lh[i]]
      BY <2>8 DEF WriteHead, CopiesOK
    <3>2. dhead' = lh /\ UNCHANGED <<dlog, home, up, cache>>
      BY <2>8 DEF WriteHead
    <3>3. Replay(lh, dlog, home) = cache
      <4>1. Agree(lh, dlog, home, cache)
        BY <2>6, <3>1 DEF Agree
      <4> QED
        BY <1>0, <4>1, ReplayIs
    <3>4. Recovered' = cache
      BY <3>2, <3>3, RecoveredIsReplay
    <3> QED
      BY <1>9, <2>2, <2>3, <3>2, <3>4 DEF Atomic!Commit
  <2>9. CASE InstallTrans(p)
    <3>1. Recovered = cache /\ dhead = lh
      BY <1>9, <2>4, <2>9, RecoveredIs DEF InstallTrans, HeadOK
    <3>2. tail \in 1 .. Len(lh) /\ InstallBlock
      BY <2>9 DEF InstallTrans, IInv, LoopOK
    <3>3. \A i \in DOMAIN lh : dlog[i] = cache[lh[i]]
      BY <2>9 DEF InstallTrans, CopiesOK
    <3>4. tail \in DOMAIN lh /\ lh[tail] \in Entries(lh)
      BY <1>0, <3>2 DEF Entries
    <3>5. cache' = cache /\ \A b \in Blocks \ {lh[tail]} : home'[b] = home[b]
      BY <3>2, <3>3, <3>4, InstallSame
    <3>6. UNCHANGED <<dhead, dlog>>
      BY <2>9 DEF InstallTrans
    <3>7. \A b \in Blocks : b \notin Entries(lh) => home'[b] = cache[b]
      BY <2>6, <3>4, <3>5
    <3>8. Replay(lh, dlog, home') = cache
      <4>1. Agree(lh, dlog, home', cache)
        BY <3>3, <3>7 DEF Agree
      <4> QED
        BY <1>0, <4>1, ReplayIs
    <3>9. Recovered' = Recovered
      BY <3>1, <3>6, <3>8, RecoveredIsReplay
    <3> QED
      BY <1>1, <2>3, <2>5, <3>5, <3>9, SameSeen
  <2>10. CASE ClearHead(p)
    <3>1. Recovered = cache
      BY <1>9, <2>4, <2>10, RecoveredIs DEF ClearHead
    <3>2. \A b \in Entries(lh) : home[b] = cache[b]
      BY <2>10 DEF ClearHead, CopiesOK, Entries
    <3>3. home = cache
      <4>1. \A b \in Blocks : home[b] = cache[b]
        BY <2>6, <3>2
      <4>2. home = [b \in Blocks |-> home[b]] /\ cache = [b \in Blocks |-> cache[b]]
        BY <1>0
      <4> QED
        BY <4>1, <4>2
    <3>4. dhead' = << >> /\ UNCHANGED <<home, cache>>
      BY <2>10 DEF ClearHead
    <3>5. Recovered' = Recovered
      BY <1>0, <3>1, <3>3, <3>4, RecoveredIsReplay, ReplayEmpty
    <3> QED
      BY <1>1, <2>3, <2>5, <3>4, <3>5, SameSeen
  <2>11. CASE EndCommit(p)
    <3>1. UNCHANGED <<up, cache>> /\ UNCHANGED disk
      BY <2>11 DEF EndCommit
    <3> QED
      BY <1>1, <1>2, <2>3, <3>1, SameSeen
  <2> QED
    BY <1>9, <2>7, <2>8, <2>9, <2>10, <2>11 DEF Commit
<1>10. CASE RecoverInstall
  <2>1. InOp' = InOp /\ ~up /\ ~up' /\ UNCHANGED <<dhead, dlog>>
    BY <1>10 DEF RecoverInstall, InOp
  <2>2. tail \in 1 .. Len(lh) /\ InstallBlock /\ lh = dhead
    BY <1>10 DEF RecoverInstall, IInv, LoopOK, HeadOK
  <2>3. lh[tail] \in Entries(dhead)
    BY <1>0, <2>2 DEF Entries
  <2>4. \A b \in Blocks : b \notin Entries(dhead) => home'[b] = home[b]
    BY <1>0, <2>2, <2>3 DEF InstallBlock
  <2>5. Recovered' = Recovered
    BY <2>1, <2>4, ReplaySame, RecoveredIsReplay
  <2>6. Seen' = Seen
    BY <2>1, <2>5 DEF Seen
  <2> QED
    BY <1>1, <2>1, <2>5, <2>6
<1>11. CASE RecoverClear
  <2>1. InOp' = InOp /\ ~up /\ up' /\ dhead' = << >> /\ UNCHANGED <<home, cache>>
    BY <1>11 DEF RecoverClear, InOp
  <2>2. cache = home /\ \A i \in DOMAIN dhead : dlog[i] = home[dhead[i]]
    BY <1>11 DEF RecoverClear, ReplayOK
  <2>3. Replay(dhead, dlog, home) = home
    <3>1. Agree(dhead, dlog, home, home)
      BY <2>2 DEF Agree
    <3>2. dhead \in Seq(Blocks) /\ Distinct(dhead)
      BY DEF HeadOK, IInv, TypeOK
    <3> QED
      BY <1>0, <3>1, <3>2, ReplayIs
  <2>4. Recovered = home /\ Recovered' = home
    BY <1>0, <2>1, <2>3, RecoveredIsReplay, ReplayEmpty
  <2>5. Seen' = Seen
    BY <2>1, <2>2, <2>4 DEF Seen
  <2> QED
    BY <1>1, <2>1, <2>4, <2>5
<1>12. CASE Crash
  <2>1. InOp' = {} /\ ~up'
    BY <1>12 DEF Crash, InOp
  <2>2. Recovered' = Recovered
    BY <1>2, <1>12 DEF Crash
  <2>3. Seen' = Recovered
    BY <2>1, <2>2 DEF Seen
  <2>4. Atomic!Crash
    BY <2>1, <2>2, <2>3 DEF Atomic!Crash, Seen
  <2> QED
    BY <2>4 DEF Atomic!Next
<1>13. \A p \in Procs : op[p] \in Values
  BY <1>0
<1>14. CASE \E p \in Procs : up /\ Call(p)
  <2>1. PICK p \in Procs : up /\ Call(p)
    BY <1>14
  <2>2. CASE \E b \in Blocks : Modify(p, b)
    BY <1>5, <1>13, <2>1, <2>2 DEF Atomic!Next
  <2>3. CASE ~\E b \in Blocks : Modify(p, b)
    BY <1>3, <1>4, <1>6, <1>7, <2>1, <2>3 DEF Call, Atomic!Next
  <2> QED
    BY <2>2, <2>3
<1>15. CASE \E p \in Procs : up /\ Commit(p)
  BY <1>9, <1>15 DEF Atomic!Next
<1>16. CASE \E b \in Blocks : Evict(b)
  BY <1>8, <1>16
<1> QED
  BY <1>10, <1>11, <1>12, <1>14, <1>15, <1>16 DEF Next, Atomic!Next

(* The promise of log.c's header comment, for any number of processes and  *)
(* blocks, any interleaving of calls and crashes anywhere: the disk that a *)
(* restart finds changes only as a whole, while no call is under way, to   *)
(* what the calls wrote.                                                   *)
THEOREM LogIsAtomic == Spec => ImplementsAtomicDisk
<1>1. Init => Atomic!Init
  <2> SUFFICES ASSUME Init PROVE Atomic!Init
    OBVIOUS
  <2>1. AInv /\ up /\ ~Installing /\ InOp = {} /\ cache = home
    BY InitAInv DEF Init, Installing, InOp
  <2>2. Recovered = home /\ home \in [Blocks -> Values]
    BY <2>1, RecoveredIs DEF AInv, IInv, TypeOK
  <2> QED
    BY <2>1, <2>2 DEF Atomic!Init
<1>2. AInv /\ [Next]_vars => [Atomic!Next]_(Atomic!vars)
  <2> SUFFICES ASSUME AInv, [Next]_vars PROVE [Atomic!Next]_(Atomic!vars)
    OBVIOUS
  <2>1. CASE Next
    BY <2>1, StepAtomic
  <2>2. CASE UNCHANGED vars
    <3>1. UNCHANGED <<up, cache, pc, dhead, dlog, home>>
      BY <2>2 DEF vars, memory, disk
    <3>2. Recovered' = Recovered
      BY <3>1, RecoveredIsReplay
    <3>3. InOp' = InOp
      BY <3>1 DEF InOp
    <3>4. UNCHANGED Atomic!vars
      BY <3>1, <3>2, <3>3 DEF Atomic!vars
    <3> QED
      BY <3>4
  <2> QED
    BY <2>1, <2>2
<1> QED
  BY <1>1, <1>2, AInvInductive, PTL DEF Spec, ImplementsAtomicDisk, Atomic!Spec

-----------------------------------------------------------------------------
(***************************************************************************)
(* Wfs: loops.  The recursive functions over a log are loops of a number   *)
(* of rounds, and sets of numbers have a least and a greatest one.         *)
(***************************************************************************)

LEMMA LeastNumber ==
  ASSUME NEW T \in SUBSET Nat, T # {}
  PROVE  \E m \in T : \A n \in T : m <= n
<1>1. PICK m \in T : \A n \in T : ~(<<n, m>> \in OpToRel(<, Nat))
  BY NatLessThanWellFounded, WFMin
<1>2. \A n \in T : n < m => <<n, m>> \in OpToRel(<, Nat)
  BY DEF OpToRel
<1>3. \A n \in T : ~(n < m)
  BY <1>1, <1>2
<1>4. m \in Nat /\ \A n \in T : n \in Nat
  OBVIOUS
<1>5. QED
  BY <1>3, <1>4

LEMMA GreatestNumber ==
  ASSUME NEW M \in Nat, NEW T \in SUBSET (0 .. M), T # {}
  PROVE  \E m \in T : \A n \in T : n <= m
<1> DEFINE U == {M - n : n \in T}
<1>1. U \in SUBSET Nat
  <2>1. \A n \in T : M - n \in Nat
    OBVIOUS
  <2>2. QED
    BY <2>1
<1>2. U # {}
  OBVIOUS
<1>3. PICK u \in U : \A n \in U : u <= n
  BY <1>1, <1>2, LeastNumber
<1>4. PICK m \in T : u = M - m
  BY <1>3
<1>5. \A n \in T : u <= M - n
  BY <1>3
<1>6. QED
  BY <1>4, <1>5

(* A loop of N rounds over a value of S: f[n] is the value after n rounds. *)
Rounds(N, S, a, step, f) ==
  /\ f \in [0 .. N -> S]
  /\ f[0] = a
  /\ \A n \in 1 .. N : f[n] = step[n][f[n - 1]]

LEMMA LoopRuns ==
  ASSUME NEW N \in Nat, NEW S, NEW a \in S, NEW step \in [1 .. N -> [S -> S]]
  PROVE  \E f : Rounds(N, S, a, step, f)
<1> DEFINE Bad == {n \in 0 .. N : ~\E f : Rounds(n, S, a, step, f)}
<1>1. SUFFICES ASSUME Bad # {} PROVE FALSE
  OBVIOUS
<1>2. PICK m \in Bad : \A n \in Bad : m <= n
  <2>1. Bad \in SUBSET Nat
    OBVIOUS
  <2>2. QED
    BY <1>1, <2>1, LeastNumber
<1>3. m # 0
  <2>1. Rounds(0, S, a, step, [n \in 0 .. 0 |-> a])
    BY DEF Rounds
  <2>2. QED
    BY <1>2, <2>1
<1>4. m \in 1 .. N /\ m - 1 \in 0 .. N /\ m - 1 \notin Bad
  BY <1>2, <1>3
<1>5. PICK f : Rounds(m - 1, S, a, step, f)
  BY <1>4
<1>6. f \in [0 .. m - 1 -> S] /\ f[0] = a
      /\ \A n \in 1 .. m - 1 : f[n] = step[n][f[n - 1]]
  BY <1>5 DEF Rounds
<1> DEFINE g == [n \in 0 .. m |-> IF n = m THEN step[m][f[m - 1]] ELSE f[n]]
<1>7. step[m] \in [S -> S] /\ f[m - 1] \in S
  BY <1>4, <1>6
<1>8. g \in [0 .. m -> S]
  <2>1. \A n \in 0 .. m : (IF n = m THEN step[m][f[m - 1]] ELSE f[n]) \in S
    BY <1>4, <1>6, <1>7
  <2>2. QED
    BY <2>1
<1>9. g[0] = a
  BY <1>3, <1>4, <1>6
<1>10. \A n \in 1 .. m : g[n] = step[n][g[n - 1]]
  BY <1>4, <1>6
<1>11. Rounds(m, S, a, step, g)
  BY <1>8, <1>9, <1>10 DEF Rounds
<1>12. QED
  BY <1>2, <1>11

(* What goes round the loop from the same start is the same. *)
LEMMA LoopOnce ==
  ASSUME NEW N \in Nat, NEW S, NEW a, NEW step, NEW f, Rounds(N, S, a, step, f),
         NEW g, g[0] = a,
         \A n \in 1 .. N : g[n - 1] \in S => g[n] = step[n][g[n - 1]]
  PROVE  \A n \in 0 .. N : g[n] = f[n]
<1> DEFINE Bad == {n \in 0 .. N : g[n] # f[n]}
<1>1. SUFFICES ASSUME Bad # {} PROVE FALSE
  OBVIOUS
<1>2. PICK m \in Bad : \A n \in Bad : m <= n
  <2>1. Bad \in SUBSET Nat
    OBVIOUS
  <2>2. QED
    BY <1>1, <2>1, LeastNumber
<1>3. m # 0
  BY <1>2 DEF Rounds
<1>4. m \in 1 .. N /\ m - 1 \in 0 .. N /\ m - 1 \notin Bad
  BY <1>2, <1>3
<1>5. g[m - 1] = f[m - 1] /\ f[m - 1] \in S
  BY <1>4 DEF Rounds
<1>6. g[m] = f[m]
  BY <1>4, <1>5 DEF Rounds
<1>7. QED
  BY <1>2, <1>6

-----------------------------------------------------------------------------
(***************************************************************************)
(* Wfs: entries, maxima, and the scans for a number.                       *)
(***************************************************************************)

LEMMA EntryIs ==
  ASSUME NEW e \in LogEntries
  PROVE  /\ e.ino \in Nat /\ e.deleted \in BOOLEAN /\ e.dir \in BOOLEAN
         /\ e.dir => e.data \in Seq(Dentries)
         /\ ~e.dir => e.data \in Seq(Bytes \cup {0})
         /\ e = [ino |-> e.ino, deleted |-> e.deleted, dir |-> e.dir, data |-> e.data]
         /\ Len(e.data) \in Nat
<1>1. CASE e \in DirEntries
  <2>1. e.data \in Seq(Dentries)
    BY <1>1 DEF DirEntries
  <2>2. Len(e.data) \in Nat
    BY <2>1
  <2>3. QED
    BY <1>1, <2>1, <2>2 DEF DirEntries
<1>2. CASE e \in FileEntries
  <2>1. e.data \in Seq(Bytes \cup {0})
    BY <1>2 DEF FileEntries
  <2>2. Len(e.data) \in Nat
    BY <2>1
  <2>3. QED
    BY <1>2, <2>1, <2>2 DEF FileEntries
<1>3. QED
  BY <1>1, <1>2 DEF LogEntries

LEMMA DirEntryIs ==
  ASSUME NEW k \in Nat, NEW d \in BOOLEAN, NEW s \in Seq(Dentries)
  PROVE  [ino |-> k, deleted |-> d, dir |-> TRUE, data |-> s] \in LogEntries
  BY DEF LogEntries, DirEntries

LEMMA FileEntryIs ==
  ASSUME NEW k \in Nat, NEW d \in BOOLEAN, NEW s \in Seq(Bytes \cup {0})
  PROVE  [ino |-> k, deleted |-> d, dir |-> FALSE, data |-> s] \in LogEntries
  BY DEF LogEntries, FileEntries

LEMMA SizeIs ==
  ASSUME NEW e \in LogEntries
  PROVE  /\ EntrySize(e) \in Nat /\ EntrySize(e) >= ENTRY
         /\ e.dir => EntrySize(e) = 11 + 10 * Len(e.data)
         /\ ~e.dir => EntrySize(e) = 11 + Len(e.data)
<1>1. Len(e.data) \in Nat /\ e.dir \in BOOLEAN
  BY EntryIs
<1>2. CASE e.dir
  BY <1>1, <1>2 DEF EntrySize, ENTRY, DENTRY
<1>3. CASE ~e.dir
  BY <1>1, <1>3 DEF EntrySize, ENTRY, DENTRY
<1>4. QED
  BY <1>1, <1>2, <1>3

LEMMA LogIs ==
  ASSUME NEW l \in Seq(LogEntries)
  PROVE  Len(l) \in Nat /\ DOMAIN l = 1 .. Len(l) /\ \A i \in DOMAIN l : l[i] \in LogEntries
  OBVIOUS

-----------------------------------------------------------------------------
(* Maxima and minima. *)

LEMMA MaxOfIs ==
  ASSUME NEW M \in Nat, NEW T \in SUBSET (0 .. M), T # {}
  PROVE  MaxOf(T) \in T /\ \A n \in T : n <= MaxOf(T)
  BY GreatestNumber, Zenon DEF MaxOf

LEMMA MinOfIs ==
  ASSUME NEW T \in SUBSET Nat, T # {}
  PROVE  MinOf(T) \in T /\ \A n \in T : MinOf(T) <= n
  BY LeastNumber, Zenon DEF MinOf

(* The numbers in a log are bounded. *)
BoundedTo(l, n) == \E M \in Nat : \A i \in 1 .. n : l[i].ino <= M

LEMMA BoundedNext ==
  ASSUME NEW l, NEW m \in Nat \ {0}, \A i \in 1 .. m : l[i].ino \in Nat, BoundedTo(l, m - 1)
  PROVE  BoundedTo(l, m)
<1>1. PICK M \in Nat : \A i \in 1 .. m - 1 : l[i].ino <= M
  BY DEF BoundedTo
<1>2. l[m].ino \in Nat
  OBVIOUS
<1>3. PICK K \in Nat : K >= M /\ K >= l[m].ino
  <2>1. CASE M <= l[m].ino
    BY <1>2, <2>1
  <2>2. CASE ~(M <= l[m].ino)
    BY <1>2, <2>2
  <2>3. QED
    BY <2>1, <2>2
<1>4. ASSUME NEW i \in 1 .. m PROVE l[i].ino <= K
  <2>0. l[i].ino \in Nat
    OBVIOUS
  <2>1. CASE i = m
    BY <2>1, <1>3
  <2>2. CASE i # m
    <3>1. i \in 1 .. m - 1
      BY <2>2
    <3>2. l[i].ino <= M
      BY <3>1, <1>1
    <3>3. QED
      BY <2>0, <3>2, <1>3
  <2>3. QED
    BY <2>1, <2>2
<1>5. QED
  BY <1>4 DEF BoundedTo

LEMMA NumbersBounded ==
  ASSUME NEW l \in Seq(LogEntries)
  PROVE  \E M \in Nat : \A i \in DOMAIN l : l[i].ino <= M
<1>0. Len(l) \in Nat /\ DOMAIN l = 1 .. Len(l) /\ \A i \in 1 .. Len(l) : l[i].ino \in Nat
  BY LogIs, EntryIs
<1> DEFINE N == Len(l)
           Bad == {n \in 0 .. N : ~BoundedTo(l, n)}
<1> HIDE DEF N
<1>a. N \in Nat /\ \A i \in 1 .. N : l[i].ino \in Nat
  BY <1>0 DEF N
<1>1. SUFFICES ASSUME Bad # {} PROVE FALSE
  <2>1. CASE Bad = {}
    <3>1. BoundedTo(l, N)
      BY <1>a, <2>1
    <3>2. QED
      BY <1>0, <3>1 DEF BoundedTo, N
  <2>2. QED
    BY <2>1
<1>2. PICK m \in Bad : \A n \in Bad : m <= n
  <2>1. Bad \in SUBSET Nat
    BY <1>a
  <2>2. QED
    BY <1>1, <2>1, LeastNumber
<1>3. m # 0
  <2>1. \A i \in 1 .. 0 : l[i].ino <= 0
    OBVIOUS
  <2>2. BoundedTo(l, 0)
    BY <2>1 DEF BoundedTo
  <2>3. QED
    BY <1>2, <2>2
<1>4. m \in 1 .. N /\ m - 1 \in 0 .. N /\ m - 1 \notin Bad
  BY <1>a, <1>2, <1>3
<1>5. BoundedTo(l, m - 1)
  BY <1>4
<1>6. m \in Nat \ {0} /\ \A i \in 1 .. m : l[i].ino \in Nat
  BY <1>a, <1>4
<1>7. BoundedTo(l, m)
  BY <1>5, <1>6, BoundedNext
<1>8. QED
  BY <1>2, <1>7

LEMMA MaxInodeIs ==
  ASSUME NEW l \in Seq(LogEntries), l # << >>
  PROVE  /\ find_max_inode_number(l) \in Nat
         /\ \E i \in DOMAIN l : l[i].ino = find_max_inode_number(l)
         /\ \A i \in DOMAIN l : l[i].ino <= find_max_inode_number(l)
<1>0. Len(l) \in Nat /\ DOMAIN l = 1 .. Len(l) /\ \A i \in DOMAIN l : l[i].ino \in Nat
  BY LogIs, EntryIs
<1>1. PICK M \in Nat : \A i \in DOMAIN l : l[i].ino <= M
  BY NumbersBounded
<1> DEFINE T == {l[i].ino : i \in DOMAIN l}
<1>2. T \in SUBSET (0 .. M)
  BY <1>0, <1>1
<1>3. l[1].ino \in T
  <2>1. 1 \in DOMAIN l
    BY <1>0, EmptySeq
  <2>2. QED
    BY <2>1
<1>4. MaxOf(T) \in T /\ \A n \in T : n <= MaxOf(T)
  <2>1. T # {}
    BY <1>3, Zenon
  <2> HIDE DEF T
  <2>2. QED
    BY <1>1, <1>2, <2>1, MaxOfIs
<1>5. find_max_inode_number(l) = MaxOf(T)
  BY DEF find_max_inode_number
<1> DEFINE m == MaxOf(T)
<1> HIDE DEF m
<1>6. m \in T /\ \A n \in T : n <= m
  BY <1>4 DEF m
<1>7. find_max_inode_number(l) = m
  BY <1>5 DEF m
<1>8. QED
  BY <1>0, <1>6, <1>7

(* The indices of the live entries of an inode. *)
LiveEntries(l, k) == {i \in DOMAIN l : l[i].ino = k /\ ~l[i].deleted}

LEMMA LatestIs ==
  ASSUME NEW l \in Seq(LogEntries), NEW k
  PROVE  /\ find_latest_log_entry(l, k) \in 0 .. Len(l)
         /\ find_latest_log_entry(l, k) # 0 => find_latest_log_entry(l, k) \in LiveEntries(l, k)
         /\ \A i \in LiveEntries(l, k) : i <= find_latest_log_entry(l, k)
<1>0. Len(l) \in Nat /\ DOMAIN l = 1 .. Len(l)
  BY LogIs
<1> DEFINE T == {0} \cup LiveEntries(l, k)
<1>1. T \in SUBSET (0 .. Len(l)) /\ T # {}
  BY <1>0 DEF LiveEntries
<1>2. find_latest_log_entry(l, k) = MaxOf(T)
  BY DEF find_latest_log_entry, LiveEntries
<1>3. MaxOf(T) \in T /\ \A n \in T : n <= MaxOf(T)
  <2> HIDE DEF T
  <2>1. QED
    BY <1>0, <1>1, MaxOfIs
<1>4. QED
  BY <1>1, <1>2, <1>3

(* The latest entry of an inode is the one that has no live one after it. *)
LEMMA LatestUnique ==
  ASSUME NEW l \in Seq(LogEntries), NEW k, NEW m \in LiveEntries(l, k),
         \A i \in LiveEntries(l, k) : i <= m
  PROVE  find_latest_log_entry(l, k) = m
<1>0. Len(l) \in Nat /\ DOMAIN l = 1 .. Len(l)
  BY LogIs
<1>1. m \in 1 .. Len(l)
  BY <1>0 DEF LiveEntries
<1>2. find_latest_log_entry(l, k) \in 0 .. Len(l) /\ m <= find_latest_log_entry(l, k)
  BY LatestIs
<1>3. find_latest_log_entry(l, k) \in LiveEntries(l, k)
  BY <1>0, <1>1, <1>2, LatestIs
<1>4. QED
  BY <1>0, <1>1, <1>2, <1>3

LEMMA LatestNone ==
  ASSUME NEW l \in Seq(LogEntries), NEW k, LiveEntries(l, k) = {}
  PROVE  find_latest_log_entry(l, k) = 0
  BY LatestIs

-----------------------------------------------------------------------------
(***************************************************************************)
(* Wfs: the offsets of the entries, and sb->head.                          *)
(***************************************************************************)

(* head[n] is the end of the first n entries, those of T only counted. *)
Heads(l, T, head) ==
  /\ head \in [0 .. Len(l) -> Nat]
  /\ head[0] = SB
  /\ \A n \in 1 .. Len(l) :
       head[n] = head[n - 1] + (IF n \in T THEN EntrySize(l[n]) ELSE 0)

LEMMA HeadsExist ==
  ASSUME NEW l \in Seq(LogEntries), NEW T
  PROVE  \E head : Heads(l, T, head)
<1>0. Len(l) \in Nat /\ \A n \in 1 .. Len(l) : EntrySize(l[n]) \in Nat
  BY LogIs, SizeIs
<1> DEFINE add(n) == IF n \in T THEN EntrySize(l[n]) ELSE 0
           step == [n \in 1 .. Len(l) |-> [x \in Nat |-> x + add(n)]]
<1>1. \A n \in 1 .. Len(l) : add(n) \in Nat
  BY <1>0
<1> HIDE DEF add
<1>2. step \in [1 .. Len(l) -> [Nat -> Nat]]
  BY <1>1
<1>3. SB \in Nat
  BY DEF SB
<1>4. PICK f : Rounds(Len(l), Nat, SB, step, f)
  <2> HIDE DEF step
  <2>1. QED
    BY <1>0, <1>2, <1>3, LoopRuns
<1>5. f \in [0 .. Len(l) -> Nat] /\ f[0] = SB
      /\ \A n \in 1 .. Len(l) : f[n] = step[n][f[n - 1]]
  <2> HIDE DEF step
  <2>1. QED
    BY <1>4 DEF Rounds
<1>6. \A n \in 1 .. Len(l) : f[n] = f[n - 1] + add(n)
  <2> TAKE n \in 1 .. Len(l)
  <2>1. n - 1 \in 0 .. Len(l)
    BY <1>0
  <2>2. f[n - 1] \in Nat
    BY <2>1, <1>5
  <2>3. QED
    BY <2>2, <1>5
<1>7. QED
  BY <1>5, <1>6 DEF Heads, add

LEMMA HeadsUnique ==
  ASSUME NEW l \in Seq(LogEntries), NEW T, NEW f, Heads(l, T, f), NEW g, Heads(l, T, g)
  PROVE  f[Len(l)] = g[Len(l)]
<1>0. Len(l) \in Nat
  BY LogIs
<1> DEFINE step == [n \in 1 .. Len(l) |-> [x \in Nat |-> x + (IF n \in T THEN EntrySize(l[n]) ELSE 0)]]
<1>1. Rounds(Len(l), Nat, SB, step, f)
  <2>1. \A n \in 1 .. Len(l) : f[n] = step[n][f[n - 1]]
    <3> TAKE n \in 1 .. Len(l)
    <3>1. n - 1 \in 0 .. Len(l)
      BY <1>0
    <3>2. f[n - 1] \in Nat
      BY <3>1 DEF Heads
    <3>3. QED
      BY <3>2 DEF Heads
  <2>2. QED
    BY <2>1 DEF Rounds, Heads
<1>2. \A n \in 1 .. Len(l) : g[n - 1] \in Nat => g[n] = step[n][g[n - 1]]
  BY DEF Heads
<1>3. g[0] = SB
  BY DEF Heads
<1> HIDE DEF step
<1>4. \A n \in 0 .. Len(l) : g[n] = f[n]
  BY <1>0, <1>1, <1>2, <1>3, LoopOnce
<1>5. QED
  BY <1>0, <1>4

(* LogHead counts every entry. *)
LEMMA LogHeadIs ==
  ASSUME NEW l \in Seq(LogEntries), NEW head, Heads(l, DOMAIN l, head)
  PROVE  LogHead(l) = head[Len(l)]
<1>0. Len(l) \in Nat /\ DOMAIN l = 1 .. Len(l)
  BY LogIs
<1> DEFINE h == CHOOSE offset : offset = [n \in 0 .. Len(l) |->
                  IF n = 0 THEN SB ELSE offset[n - 1] + EntrySize(l[n])]
<1>1. LogHead(l) = h[Len(l)]
  BY DEF LogHead
<1>2. head = [n \in 0 .. Len(l) |-> IF n = 0 THEN SB ELSE head[n - 1] + EntrySize(l[n])]
  <2>1. head \in [0 .. Len(l) -> Nat]
    BY DEF Heads
  <2>2. \A n \in 0 .. Len(l) :
          head[n] = IF n = 0 THEN SB ELSE head[n - 1] + EntrySize(l[n])
    BY <1>0 DEF Heads
  <2>3. QED
    BY <2>1, <2>2
<1>3. h = [n \in 0 .. Len(l) |-> IF n = 0 THEN SB ELSE h[n - 1] + EntrySize(l[n])]
  BY <1>2, Zenon
<1> HIDE DEF h
<1> DEFINE step == [n \in 1 .. Len(l) |-> [x \in Nat |-> x + EntrySize(l[n])]]
<1>4. Rounds(Len(l), Nat, SB, step, head)
  <2>1. \A n \in 1 .. Len(l) : head[n] = step[n][head[n - 1]]
    <3> TAKE n \in 1 .. Len(l)
    <3>1. n - 1 \in 0 .. Len(l)
      BY <1>0
    <3>2. head[n - 1] \in Nat
      BY <3>1 DEF Heads
    <3>3. QED
      BY <3>2, <1>0 DEF Heads
  <2>2. QED
    BY <2>1 DEF Rounds, Heads
<1>5. h[0] = SB /\ \A n \in 1 .. Len(l) : h[n - 1] \in Nat => h[n] = step[n][h[n - 1]]
  <2>1. \A n \in 0 .. Len(l) : h[n] = IF n = 0 THEN SB ELSE h[n - 1] + EntrySize(l[n])
    BY <1>3
  <2>2. QED
    BY <1>0, <2>1
<1> HIDE DEF step
<1>6. \A n \in 0 .. Len(l) : h[n] = head[n]
  BY <1>0, <1>4, <1>5, LoopOnce
<1>7. QED
  BY <1>0, <1>1, <1>6

LEMMA LogHeadNat ==
  ASSUME NEW l \in Seq(LogEntries)
  PROVE  LogHead(l) \in Nat
<1>1. PICK head : Heads(l, DOMAIN l, head)
  BY HeadsExist
<1>2. Len(l) \in 0 .. Len(l)
  BY LogIs
<1>3. LogHead(l) = head[Len(l)]
  BY <1>1, LogHeadIs
<1>4. QED
  BY <1>1, <1>2, <1>3 DEF Heads

LEMMA LogHeadEmpty == LogHead(<< >>) = SB
<1>1. << >> \in Seq(LogEntries) /\ Len(<< >>) = 0
  OBVIOUS
<1>2. PICK head : Heads(<< >>, DOMAIN << >>, head)
  BY <1>1, HeadsExist
<1>3. LogHead(<< >>) = head[0]
  BY <1>1, <1>2, LogHeadIs
<1>4. QED
  BY <1>2, <1>3 DEF Heads

LEMMA LogHeadAppend ==
  ASSUME NEW l \in Seq(LogEntries), NEW e \in LogEntries
  PROVE  LogHead(Append(l, e)) = LogHead(l) + EntrySize(e)
<1> DEFINE m == Append(l, e)
<1>0. Len(l) \in Nat /\ DOMAIN l = 1 .. Len(l)
  BY LogIs
<1>1. /\ m \in Seq(LogEntries) /\ Len(m) = Len(l) + 1 /\ DOMAIN m = 1 .. Len(l) + 1
      /\ m[Len(l) + 1] = e
      /\ \A i \in 1 .. Len(l) : m[i] = l[i]
  BY <1>0
<1> HIDE DEF m
<1>2. PICK f : Heads(l, DOMAIN l, f)
  BY HeadsExist
<1>3. PICK g : Heads(m, DOMAIN m, g)
  BY <1>1, HeadsExist
<1>4. g[Len(l) + 1] = g[Len(l)] + EntrySize(e)
  BY <1>0, <1>1, <1>3 DEF Heads
<1> DEFINE r == [n \in 0 .. Len(l) |-> g[n]]
<1>5. Heads(l, DOMAIN l, r)
  <2>1. r \in [0 .. Len(l) -> Nat]
    BY <1>0, <1>1, <1>3 DEF Heads
  <2>2. r[0] = SB
    BY <1>0, <1>3 DEF Heads
  <2>3. \A n \in 1 .. Len(l) : r[n] = r[n - 1] + EntrySize(l[n])
    <3> TAKE n \in 1 .. Len(l)
    <3>1. n \in 1 .. Len(m) /\ n \in DOMAIN m /\ n - 1 \in 0 .. Len(l) /\ n \in 0 .. Len(l)
      BY <1>0, <1>1
    <3>2. g[n] = g[n - 1] + EntrySize(m[n])
      BY <3>1, <1>3 DEF Heads
    <3>3. QED
      BY <3>1, <3>2, <1>1
  <2>4. QED
    BY <2>1, <2>2, <2>3, <1>0 DEF Heads
<1>6. LogHead(l) = r[Len(l)]
  <2> HIDE DEF r
  <2>1. QED
    BY <1>5, LogHeadIs
<1>7. LogHead(m) = g[Len(m)]
  BY <1>1, <1>3, LogHeadIs
<1>8. r[Len(l)] = g[Len(l)]
  BY <1>0
<1>9. QED
  BY <1>1, <1>4, <1>6, <1>7, <1>8 DEF m

(* LogEntries of the same sizes end at the same place. *)
LEMMA LogHeadSame ==
  ASSUME NEW l \in Seq(LogEntries), NEW m \in Seq(LogEntries), Len(m) = Len(l),
         \A i \in DOMAIN l : EntrySize(m[i]) = EntrySize(l[i])
  PROVE  LogHead(m) = LogHead(l)
<1>0. Len(l) \in Nat /\ DOMAIN l = 1 .. Len(l) /\ DOMAIN m = DOMAIN l
  BY LogIs
<1>1. PICK f : Heads(l, DOMAIN l, f)
  BY HeadsExist
<1>2. Heads(m, DOMAIN m, f)
  BY <1>0, <1>1 DEF Heads
<1>3. QED
  BY <1>1, <1>2, LogHeadIs

-----------------------------------------------------------------------------
(* The size of a log that holds some of the entries of l. *)
SizeOf(l, T) == (CHOOSE head : Heads(l, T, head))[Len(l)]

LEMMA SizeOfIs ==
  ASSUME NEW l \in Seq(LogEntries), NEW T, NEW head, Heads(l, T, head)
  PROVE  SizeOf(l, T) = head[Len(l)]
<1> DEFINE h == CHOOSE f : Heads(l, T, f)
<1>1. Heads(l, T, h)
  BY HeadsExist, Zenon
<1>2. SizeOf(l, T) = h[Len(l)]
  BY DEF SizeOf
<1> HIDE DEF h
<1>3. QED
  BY <1>1, <1>2, HeadsUnique

LEMMA SizeOfNone ==
  ASSUME NEW l \in Seq(LogEntries)
  PROVE  SizeOf(l, {}) = SB
<1>0. Len(l) \in Nat
  BY LogIs
<1> DEFINE z == [n \in 0 .. Len(l) |-> SB]
<1>1. Heads(l, {}, z)
  BY <1>0 DEF Heads, SB
<1>2. z[Len(l)] = SB
  BY <1>0
<1> HIDE DEF z
<1>3. QED
  BY <1>1, <1>2, SizeOfIs

LEMMA SizeOfMore ==
  ASSUME NEW l \in Seq(LogEntries), NEW T, NEW i \in DOMAIN l, i \notin T
  PROVE  SizeOf(l, T \cup {i}) = SizeOf(l, T) + EntrySize(l[i])
<1>0. Len(l) \in Nat /\ DOMAIN l = 1 .. Len(l) /\ i \in 1 .. Len(l) /\ EntrySize(l[i]) \in Nat
  BY LogIs, SizeIs
<1>1. PICK f : Heads(l, T, f)
  BY HeadsExist
<1> DEFINE g == [n \in 0 .. Len(l) |-> f[n] + (IF i <= n THEN EntrySize(l[i]) ELSE 0)]
<1>2. Heads(l, T \cup {i}, g)
  <2>1. g \in [0 .. Len(l) -> Nat]
    BY <1>0, <1>1 DEF Heads
  <2>2. g[0] = SB
    BY <1>0, <1>1 DEF Heads, SB
  <2>3. ASSUME NEW n \in 1 .. Len(l)
        PROVE  g[n] = g[n - 1] + (IF n \in T \cup {i} THEN EntrySize(l[n]) ELSE 0)
    <3>0. n \in 0 .. Len(l) /\ n - 1 \in 0 .. Len(l) /\ EntrySize(l[n]) \in Nat
      BY <1>0, SizeIs, LogIs
    <3>1. f[n] \in Nat /\ f[n - 1] \in Nat
          /\ f[n] = f[n - 1] + (IF n \in T THEN EntrySize(l[n]) ELSE 0)
      BY <3>0, <1>1 DEF Heads
    <3>2. g[n] = f[n] + (IF i <= n THEN EntrySize(l[i]) ELSE 0)
          /\ g[n - 1] = f[n - 1] + (IF i <= n - 1 THEN EntrySize(l[i]) ELSE 0)
      BY <3>0
    <3> HIDE DEF g
    <3>3. CASE n = i
      BY <3>0, <3>1, <3>2, <3>3, <1>0
    <3>4. CASE n # i
      <4>1. i <= n <=> i <= n - 1
        BY <3>4, <1>0
      <4>2. n \in T \cup {i} <=> n \in T
        BY <3>4
      <4>3. QED
        BY <3>0, <3>1, <3>2, <4>1, <4>2, <1>0
    <3>5. QED
      BY <3>3, <3>4
  <2>4. QED
    BY <2>1, <2>2, <2>3 DEF Heads
<1>3. g[Len(l)] = f[Len(l)] + EntrySize(l[i])
  BY <1>0
<1> HIDE DEF g
<1>4. SizeOf(l, T \cup {i}) = g[Len(l)]
  BY <1>2, SizeOfIs
<1>5. SizeOf(l, T) = f[Len(l)]
  BY <1>1, SizeOfIs
<1>6. QED
  BY <1>3, <1>4, <1>5

LEMMA SizeOfSome ==
  ASSUME NEW l \in Seq(LogEntries), NEW T
  PROVE  SizeOf(l, T) <= LogHead(l)
<1>0. Len(l) \in Nat /\ DOMAIN l = 1 .. Len(l) /\ \A n \in 1 .. Len(l) : EntrySize(l[n]) \in Nat
  BY LogIs, SizeIs
<1>1. PICK f : Heads(l, T, f)
  BY HeadsExist
<1>2. PICK g : Heads(l, DOMAIN l, g)
  BY HeadsExist
<1> DEFINE N == Len(l)
           Bad == {n \in 0 .. N : ~(f[n] <= g[n])}
<1>a. /\ \A n \in 0 .. N : f[n] \in Nat /\ g[n] \in Nat
      /\ f[0] = g[0]
      /\ \A n \in 1 .. N : /\ g[n] = g[n - 1] + EntrySize(l[n])
                           /\ f[n] = f[n - 1] + (IF n \in T THEN EntrySize(l[n]) ELSE 0)
  BY <1>0, <1>1, <1>2 DEF Heads
<1>3. Bad = {}
  <2>1. SUFFICES ASSUME Bad # {} PROVE FALSE
    OBVIOUS
  <2>2. PICK m \in Bad : \A n \in Bad : m <= n
    <3>1. Bad \in SUBSET Nat
      BY <1>0
    <3>2. QED
      BY <2>1, <3>1, LeastNumber
  <2>3. m # 0
    BY <2>2, <1>a
  <2>4. m \in 1 .. N /\ m - 1 \in 0 .. N /\ m - 1 \notin Bad
    BY <1>0, <2>2, <2>3
  <2>5. f[m - 1] <= g[m - 1] /\ f[m - 1] \in Nat /\ g[m - 1] \in Nat /\ EntrySize(l[m]) \in Nat
    BY <2>4, <1>a, <1>0
  <2>6. g[m] = g[m - 1] + EntrySize(l[m])
        /\ f[m] = f[m - 1] + (IF m \in T THEN EntrySize(l[m]) ELSE 0)
    BY <2>4, <1>a
  <2>7. f[m] <= g[m]
    BY <2>5, <2>6
  <2>8. QED
    BY <2>2, <2>7
<1>4. f[Len(l)] <= g[Len(l)]
  BY <1>0, <1>3
<1>5. SizeOf(l, T) = f[Len(l)] /\ LogHead(l) = g[Len(l)]
  BY <1>1, <1>2, SizeOfIs, LogHeadIs
<1>6. QED
  BY <1>4, <1>5

-----------------------------------------------------------------------------
(***************************************************************************)
(* Wfs: the path scan.                                                     *)
(***************************************************************************)

PathIs == \A p \in Paths : p \in Seq(Names) /\ Len(p) \in Nat /\ DOMAIN p = 1 .. Len(p)

LEMMA PathsAre == PathIs
<1>1. Paths \subseteq Seq(Names)
  BY WfsAssumption, Zenon
<1>2. ASSUME NEW p \in Paths PROVE p \in Seq(Names) /\ Len(p) \in Nat /\ DOMAIN p = 1 .. Len(p)
  <2>1. p \in Seq(Names)
    BY <1>1
  <2>2. QED
    BY <2>1
<1>3. QED
  BY <1>2, Zenon DEF PathIs

(* An entry that is the latest of its inode. *)
IsLatest(l, i) == i \in DOMAIN l /\ i = find_latest_log_entry(l, l[i].ino)

LEMMA LatestIsLatest ==
  ASSUME NEW l \in Seq(LogEntries), NEW k, find_latest_log_entry(l, k) # 0
  PROVE  /\ IsLatest(l, find_latest_log_entry(l, k))
         /\ l[find_latest_log_entry(l, k)].ino = k
         /\ ~l[find_latest_log_entry(l, k)].deleted
  BY LatestIs DEF IsLatest, LiveEntries

LEMMA MatchIs ==
  ASSUME NEW l \in Seq(LogEntries), NEW i \in DOMAIN l, NEW name, Match(l, i, name) # 0
  PROVE  /\ l[i].dir
         /\ \E j \in DOMAIN l[i].data :
              /\ l[i].data[j].name = name
              /\ find_latest_log_entry(l, l[i].data[j].ino) # 0
              /\ Match(l, i, name) = find_latest_log_entry(l, l[i].data[j].ino)
<1> DEFINE hits == {j \in DOMAIN l[i].data :
                 /\ l[i].data[j].name = name
                 /\ find_latest_log_entry(l, l[i].data[j].ino) # 0}
<1>1. l[i].dir /\ hits # {}
      /\ Match(l, i, name) = find_latest_log_entry(l, l[i].data[MinOf(hits)].ino)
  BY DEF Match
<1>2. l[i].data \in Seq(Dentries)
  BY <1>1, LogIs, EntryIs
<1>3. hits \in SUBSET Nat
  BY <1>2
<1>4. MinOf(hits) \in hits
  <2> HIDE DEF hits
  <2>1. QED
    BY <1>1, <1>3, MinOfIs
<1>5. QED
  BY <1>1, <1>4

LEMMA MatchType ==
  ASSUME NEW l \in Seq(LogEntries), NEW i \in DOMAIN l, NEW name
  PROVE  /\ Match(l, i, name) \in 0 .. Len(l)
         /\ Match(l, i, name) # 0 => IsLatest(l, Match(l, i, name))
<1>1. CASE Match(l, i, name) = 0
  BY <1>1, LogIs
<1>2. CASE Match(l, i, name) # 0
  <2>1. PICK k : Match(l, i, name) = find_latest_log_entry(l, k)
    BY <1>2, MatchIs
  <2>2. find_latest_log_entry(l, k) \in 0 .. Len(l)
    BY LatestIs
  <2>3. IsLatest(l, find_latest_log_entry(l, k))
    BY <1>2, <2>1, LatestIsLatest
  <2>4. QED
    BY <2>1, <2>2, <2>3
<1>3. QED
  BY <1>1, <1>2

(* A dentry with the name, of an inode that has an entry, is a match. *)
LEMMA MatchSome ==
  ASSUME NEW l \in Seq(LogEntries), NEW i \in DOMAIN l, l[i].dir, NEW j \in DOMAIN l[i].data,
         find_latest_log_entry(l, l[i].data[j].ino) # 0
  PROVE  Match(l, i, l[i].data[j].name) # 0
<1> DEFINE name == l[i].data[j].name
           hits == {m \in DOMAIN l[i].data :
                 /\ l[i].data[m].name = name
                 /\ find_latest_log_entry(l, l[i].data[m].ino) # 0}
<1>1. j \in hits
  OBVIOUS
<1>2. l[i].data \in Seq(Dentries)
  BY LogIs, EntryIs
<1>3. hits \in SUBSET Nat
  BY <1>2
<1>4. MinOf(hits) \in hits
  <2>1. hits # {}
    BY <1>1, Zenon
  <2> HIDE DEF hits
  <2>2. QED
    BY <2>1, <1>3, MinOfIs
<1>5. Match(l, i, name) = find_latest_log_entry(l, l[i].data[MinOf(hits)].ino)
  BY <1>1 DEF Match
<1>6. QED
  BY <1>4, <1>5

LEMMA ScanIs ==
  ASSUME NEW l \in Seq(LogEntries), NEW i \in 1 .. Len(l), NEW name
  PROVE  /\ Scan(l, i, name) # 0 =>
              \E j \in i .. Len(l) : Match(l, j, name) # 0 /\ Scan(l, i, name) = Match(l, j, name)
         /\ Scan(l, i, name) = 0 => \A j \in i .. Len(l) : Match(l, j, name) = 0
<1>0. Len(l) \in Nat /\ DOMAIN l = 1 .. Len(l)
  BY LogIs
<1> DEFINE found == {j \in i .. Len(l) : Match(l, j, name) # 0}
<1>1. CASE found = {}
  <2>1. Scan(l, i, name) = 0
    BY <1>1 DEF Scan
  <2>2. QED
    BY <1>1, <2>1
<1>2. CASE found # {}
  <2>1. found \in SUBSET Nat
    BY <1>0
  <2>2. MinOf(found) \in found
    <3> HIDE DEF found
    <3>1. QED
      BY <1>2, <2>1, MinOfIs
  <2>3. Scan(l, i, name) = Match(l, MinOf(found), name)
    BY <1>2 DEF Scan
  <2>4. QED
    BY <2>2, <2>3
<1>3. QED
  BY <1>1, <1>2

LEMMA ScanType ==
  ASSUME NEW l \in Seq(LogEntries), NEW i \in 1 .. Len(l), NEW name
  PROVE  /\ Scan(l, i, name) \in 0 .. Len(l)
         /\ Scan(l, i, name) # 0 => IsLatest(l, Scan(l, i, name))
<1>0. Len(l) \in Nat /\ DOMAIN l = 1 .. Len(l)
  BY LogIs
<1>1. CASE Scan(l, i, name) = 0
  BY <1>0, <1>1
<1>2. CASE Scan(l, i, name) # 0
  <2>1. PICK j \in i .. Len(l) : Scan(l, i, name) = Match(l, j, name)
    BY <1>2, ScanIs
  <2>2. j \in DOMAIN l
    BY <1>0
  <2>3. Match(l, j, name) \in 0 .. Len(l) /\ (Match(l, j, name) # 0 => IsLatest(l, Match(l, j, name)))
    BY <2>2, MatchType
  <2>4. QED
    BY <2>1, <2>3
<1>3. QED
  BY <1>1, <1>2

(* at[k]: where the lookup of the first k names of the path has come to. *)
LookupAt(l, path, at) ==
  /\ at \in [0 .. Len(path) -> 0 .. Len(l)]
  /\ at[0] = 1
  /\ \A k \in 1 .. Len(path) :
       at[k] = IF at[k - 1] = 0 THEN 0 ELSE Scan(l, at[k - 1], path[k])

LEMMA LookupRuns ==
  ASSUME NEW l \in Seq(LogEntries), l # << >>, NEW path \in Paths
  PROVE  \E at : /\ LookupAt(l, path, at)
                 /\ path # << >> => find_log_entry_by_path(l, path) = at[Len(path)]
<1>0. Len(l) \in Nat /\ Len(path) \in Nat /\ 1 \in 0 .. Len(l)
  <2>1. Len(l) # 0
    BY EmptySeq
  <2>2. QED
    BY <2>1, LogIs, PathsAre DEF PathIs
<1> DEFINE N == Len(path)
           S == 0 .. Len(l)
           G(k, x) == IF x = 0 THEN 0 ELSE Scan(l, x, path[k])
           step == [k \in 1 .. N |-> [x \in S |-> G(k, x)]]
           h == CHOOSE at : at = [k \in 0 .. N |->
                   IF k = 0 THEN 1
                   ELSE IF at[k - 1] = 0 THEN 0 ELSE Scan(l, at[k - 1], path[k])]
<1>1. path # << >> => find_log_entry_by_path(l, path) = h[N]
  BY DEF find_log_entry_by_path
<1>2. ASSUME NEW k \in 1 .. N, NEW x \in S PROVE G(k, x) \in S
  <2>1. CASE x = 0
    BY <2>1, <1>0
  <2>2. CASE x # 0
    <3>1. x \in 1 .. Len(l)
      BY <2>2, <1>0
    <3>2. Scan(l, x, path[k]) \in 0 .. Len(l)
      BY <3>1, ScanType
    <3>3. QED
      BY <2>2, <3>2
  <2>3. QED
    BY <2>1, <2>2
<1>a. \A k \in 1 .. N : k - 1 \in 0 .. N /\ k \in 0 .. N /\ k # 0
  BY <1>0
<1> HIDE DEF G, N, S
<1>3. step \in [1 .. N -> [S -> S]]
  BY <1>2
<1>4. PICK f : Rounds(N, S, 1, step, f)
  <2> HIDE DEF step
  <2>1. N \in Nat /\ 1 \in S
    BY <1>0 DEF N, S
  <2>2. QED
    BY <1>3, <2>1, LoopRuns
<1>5. f \in [0 .. N -> S] /\ f[0] = 1 /\ \A k \in 1 .. N : f[k] = G(k, f[k - 1])
  <2>1. f \in [0 .. N -> S] /\ f[0] = 1 /\ \A k \in 1 .. N : f[k] = step[k][f[k - 1]]
    <3> HIDE DEF step
    <3>1. QED
      BY <1>4 DEF Rounds
  <2>2. \A k \in 1 .. N : f[k - 1] \in S
    BY <1>a, <2>1
  <2>3. QED
    BY <2>1, <2>2
<1>6. f = [k \in 0 .. N |->
             IF k = 0 THEN 1
             ELSE IF f[k - 1] = 0 THEN 0 ELSE Scan(l, f[k - 1], path[k])]
  <2>1. N \in Nat
    BY <1>0 DEF N
  <2>2. \A k \in 0 .. N : k # 0 => k \in 1 .. N
    BY <2>1
  <2>3. \A k \in 0 .. N : f[k] = IF k = 0 THEN 1
             ELSE IF f[k - 1] = 0 THEN 0 ELSE Scan(l, f[k - 1], path[k])
    BY <1>5, <2>2 DEF G
  <2>4. QED
    BY <1>5, <2>3
<1>7. h = [k \in 0 .. N |->
             IF k = 0 THEN 1
             ELSE IF h[k - 1] = 0 THEN 0 ELSE Scan(l, h[k - 1], path[k])]
  BY <1>6, Zenon
<1> HIDE DEF h
<1>8. h[0] = 1 /\ \A k \in 1 .. N : h[k] = G(k, h[k - 1])
  <2>1. N \in Nat
    BY <1>0 DEF N
  <2>2. QED
    BY <1>7, <1>a, <2>1 DEF G
<1>9. \A k \in 0 .. N : h[k] = f[k]
  <2>1. \A k \in 1 .. N : h[k - 1] \in S => h[k] = step[k][h[k - 1]]
    BY <1>8
  <2>2. N \in Nat
    BY <1>0 DEF N
  <2> HIDE DEF step
  <2>3. QED
    BY <1>4, <1>8, <2>1, <2>2, LoopOnce
<1>10. LookupAt(l, path, f)
  BY <1>5 DEF LookupAt, N, S, G
<1>11. N \in 0 .. N
  BY <1>0 DEF N
<1>12. QED
  BY <1>1, <1>9, <1>10, <1>11 DEF N

(* What a lookup finds is the latest entry of an inode. *)
LEMMA LookupType ==
  ASSUME NEW l \in Seq(LogEntries), l # << >>, NEW path \in Paths
  PROVE  /\ find_log_entry_by_path(l, path) \in 0 .. Len(l)
         /\ Exists(l, path) => IsLatest(l, find_log_entry_by_path(l, path))
<1>0. Len(l) \in Nat /\ Len(path) \in Nat /\ path \in Seq(Names)
  BY LogIs, PathsAre DEF PathIs
<1>1. CASE path = << >>
  <2>1. find_log_entry_by_path(l, path) = find_latest_log_entry(l, l[1].ino)
    BY <1>1 DEF find_log_entry_by_path
  <2>2. QED
    BY <2>1, LatestIs, LatestIsLatest DEF Exists
<1>2. CASE path # << >>
  <2>1. PICK at : LookupAt(l, path, at) /\ find_log_entry_by_path(l, path) = at[Len(path)]
    BY <1>2, LookupRuns
  <2>2. Len(path) \in 1 .. Len(path) /\ Len(path) \in 0 .. Len(path) /\ Len(path) - 1 \in 0 .. Len(path)
    BY <1>0, <1>2, EmptySeq
  <2> DEFINE x == at[Len(path) - 1]
  <2>3. /\ x \in 0 .. Len(l) /\ at[Len(path)] \in 0 .. Len(l)
        /\ at[Len(path)] = IF x = 0 THEN 0 ELSE Scan(l, x, path[Len(path)])
    BY <2>1, <2>2 DEF LookupAt
  <2> HIDE DEF x
  <2>4. ASSUME at[Len(path)] # 0 PROVE IsLatest(l, at[Len(path)])
    <3>1. x \in 1 .. Len(l) /\ at[Len(path)] = Scan(l, x, path[Len(path)])
      BY <2>3, <2>4, <1>0
    <3>2. QED
      BY <3>1, <2>4, ScanType
  <2>5. QED
    BY <2>1, <2>3, <2>4 DEF Exists
<1>3. QED
  BY <1>1, <1>2

-----------------------------------------------------------------------------
(***************************************************************************)
(* Wfs: the loops of wfs_unlink and of fsck.wfs.                           *)
(***************************************************************************)

(* The loop of wfs_unlink: kept[i] is what it has copied of i dentries. *)
LEMMA WithoutRuns ==
  ASSUME NEW s \in Seq(Dentries), NEW ino
  PROVE  \E kept : /\ kept \in [0 .. Len(s) -> Seq(Dentries)]
                   /\ kept[0] = << >>
                   /\ \A i \in 1 .. Len(s) :
                        kept[i] = IF s[i].ino = ino THEN kept[i - 1]
                                  ELSE Append(kept[i - 1], s[i])
                   /\ Without(s, ino) = kept[Len(s)]
<1> DEFINE N == Len(s)
           S == Seq(Dentries)
           G(i, x) == IF s[i].ino = ino THEN x ELSE Append(x, s[i])
           step == [i \in 1 .. N |-> [x \in S |-> G(i, x)]]
           h == CHOOSE kept : kept = [i \in 0 .. N |->
                   IF i = 0 THEN << >>
                   ELSE IF s[i].ino = ino THEN kept[i - 1]
                   ELSE Append(kept[i - 1], s[i])]
<1>0. N \in Nat /\ << >> \in S /\ \A i \in 1 .. N : s[i] \in Dentries
  OBVIOUS
<1>1. Without(s, ino) = h[N]
  BY DEF Without
<1>2. ASSUME NEW i \in 1 .. N, NEW x \in S PROVE G(i, x) \in S
  <2>1. s[i] \in Dentries
    BY <1>0
  <2>2. Append(x, s[i]) \in S
    BY <2>1
  <2>3. QED
    BY <2>2
<1>a. \A k \in 1 .. N : k - 1 \in 0 .. N /\ k \in 0 .. N /\ k # 0
  BY <1>0
<1> HIDE DEF G, N, S
<1>3. step \in [1 .. N -> [S -> S]]
  BY <1>2
<1>4. PICK f : Rounds(N, S, << >>, step, f)
  <2> HIDE DEF step
  <2>1. QED
    BY <1>0, <1>3, LoopRuns
<1>5. f \in [0 .. N -> S] /\ f[0] = << >> /\ \A k \in 1 .. N : f[k] = G(k, f[k - 1])
  <2>1. f \in [0 .. N -> S] /\ f[0] = << >> /\ \A k \in 1 .. N : f[k] = step[k][f[k - 1]]
    <3> HIDE DEF step
    <3>1. QED
      BY <1>4 DEF Rounds
  <2>2. \A k \in 1 .. N : f[k - 1] \in S
    BY <1>a, <2>1
  <2>3. QED
    BY <2>1, <2>2
<1>6. f = [i \in 0 .. N |->
             IF i = 0 THEN << >>
             ELSE IF s[i].ino = ino THEN f[i - 1]
             ELSE Append(f[i - 1], s[i])]
  <2>1. \A k \in 0 .. N : k # 0 => k \in 1 .. N
    BY <1>0
  <2>2. \A i \in 0 .. N : f[i] = IF i = 0 THEN << >>
             ELSE IF s[i].ino = ino THEN f[i - 1]
             ELSE Append(f[i - 1], s[i])
    BY <1>5, <2>1 DEF G
  <2>3. QED
    BY <1>5, <2>2
<1>7. h = [i \in 0 .. N |->
             IF i = 0 THEN << >>
             ELSE IF s[i].ino = ino THEN h[i - 1]
             ELSE Append(h[i - 1], s[i])]
  BY <1>6, Zenon
<1> HIDE DEF h
<1>8. h[0] = << >> /\ \A k \in 1 .. N : h[k] = G(k, h[k - 1])
  <2>1. \A k \in 0 .. N : h[k] = IF k = 0 THEN << >>
             ELSE IF s[k].ino = ino THEN h[k - 1]
             ELSE Append(h[k - 1], s[k])
    BY <1>7, Zenon
  <2>2. h[0] = << >>
    BY <1>0, <2>1
  <2>3. \A k \in 1 .. N : h[k] = IF s[k].ino = ino THEN h[k - 1]
                                 ELSE Append(h[k - 1], s[k])
    BY <1>a, <2>1
  <2>4. QED
    BY <2>2, <2>3, Zenon DEF G
<1>9. \A k \in 0 .. N : h[k] = f[k]
  <2>1. \A k \in 1 .. N : h[k - 1] \in S => h[k] = step[k][h[k - 1]]
    BY <1>8
  <2> HIDE DEF step
  <2>2. QED
    BY <1>0, <1>4, <1>8, <2>1, LoopOnce
<1>10. Without(s, ino) = f[N]
  <2>1. N \in 0 .. N
    BY <1>0
  <2>2. QED
    BY <1>1, <1>9, <2>1
<1>11. QED
  BY <1>5, <1>10 DEF N, S, G

LEMMA WithoutType ==
  ASSUME NEW s \in Seq(Dentries), NEW ino
  PROVE  Without(s, ino) \in Seq(Dentries)
<1>1. PICK kept : /\ kept \in [0 .. Len(s) -> Seq(Dentries)]
                  /\ Without(s, ino) = kept[Len(s)]
  BY WithoutRuns
<1>2. Len(s) \in 0 .. Len(s)
  <2>1. Len(s) \in Nat
    OBVIOUS
  <2>2. QED
    BY <2>1
<1>3. QED
  BY <1>1, <1>2

-----------------------------------------------------------------------------
(* What fsck.wfs has written when it has looked at the numbers below n. *)
LatestOf(l, n) ==
  {find_latest_log_entry(l, k) : k \in {m \in 0 .. n - 1 : find_latest_log_entry(l, m) # 0}}

Compact(l, n, c) ==
  /\ c \in Seq(LogEntries)
  /\ \A i \in DOMAIN c :
       /\ c[i].ino < n
       /\ find_latest_log_entry(l, c[i].ino) # 0
       /\ c[i] = l[find_latest_log_entry(l, c[i].ino)]
  /\ \A k \in 0 .. n - 1 :
       find_latest_log_entry(l, k) # 0 => \E i \in DOMAIN c : c[i].ino = k
  /\ \A i, j \in DOMAIN c : c[i].ino = c[j].ino => i = j
  /\ n # 0 /\ find_latest_log_entry(l, 0) # 0 => 1 \in DOMAIN c /\ c[1].ino = 0
  /\ LogHead(c) = SizeOf(l, LatestOf(l, n))

LEMMA CompactNone ==
  ASSUME NEW l \in Seq(LogEntries)
  PROVE  Compact(l, 0, << >>)
<1>1. LatestOf(l, 0) = {}
  BY DEF LatestOf
<1>2. LogHead(<< >>) = SizeOf(l, LatestOf(l, 0))
  BY <1>1, LogHeadEmpty, SizeOfNone
<1>3. << >> \in Seq(LogEntries) /\ DOMAIN << >> = {}
  OBVIOUS
<1>4. \A k \in 0 .. 0 - 1 : FALSE
  OBVIOUS
<1>5. QED
  BY <1>2, <1>3, <1>4 DEF Compact

LEMMA CompactSkip ==
  ASSUME NEW l \in Seq(LogEntries), NEW n \in Nat, NEW c, Compact(l, n, c),
         find_latest_log_entry(l, n) = 0
  PROVE  Compact(l, n + 1, c)
<1>1. \A m : (m \in 0 .. n /\ find_latest_log_entry(l, m) # 0)
             <=> (m \in 0 .. n - 1 /\ find_latest_log_entry(l, m) # 0)
  OBVIOUS
<1>2. LatestOf(l, n + 1) = LatestOf(l, n)
  <2>1. n + 1 - 1 = n
    OBVIOUS
  <2>2. QED
    BY <1>1, <2>1 DEF LatestOf
<1>3. ASSUME NEW i \in DOMAIN c PROVE c[i].ino < n + 1
  <2>1. c[i].ino < n /\ c[i].ino \in Nat
    BY EntryIs DEF Compact
  <2>2. QED
    BY <2>1
<1>4. \A k \in 0 .. n + 1 - 1 :
       find_latest_log_entry(l, k) # 0 => \E i \in DOMAIN c : c[i].ino = k
  <2> TAKE k \in 0 .. n + 1 - 1
  <2> HAVE find_latest_log_entry(l, k) # 0
  <2>1. k \in 0 .. n - 1
    OBVIOUS
  <2>2. QED
    BY <2>1 DEF Compact
<1>5. find_latest_log_entry(l, 0) # 0 => n # 0 /\ 1 \in DOMAIN c /\ c[1].ino = 0
  BY DEF Compact
<1>6. QED
  BY <1>2, <1>3, <1>4, <1>5 DEF Compact

LEMMA CompactKeep ==
  ASSUME NEW l \in Seq(LogEntries), NEW n \in Nat, NEW c, Compact(l, n, c),
         find_latest_log_entry(l, n) # 0
  PROVE  Compact(l, n + 1, Append(c, l[find_latest_log_entry(l, n)]))
<1> DEFINE f == find_latest_log_entry(l, n)
           e == l[f]
           d == Append(c, e)
<1>1. f \in DOMAIN l /\ e.ino = n /\ e \in LogEntries
  BY LatestIsLatest, LogIs DEF IsLatest
<1>2. /\ c \in Seq(LogEntries) /\ Len(c) \in Nat /\ DOMAIN c = 1 .. Len(c)
      /\ \A i \in DOMAIN c : /\ c[i].ino \in Nat /\ c[i].ino < n
                             /\ find_latest_log_entry(l, c[i].ino) # 0
                             /\ c[i] = l[find_latest_log_entry(l, c[i].ino)]
      /\ \A i, j \in DOMAIN c : c[i].ino = c[j].ino => i = j
      /\ \A k \in 0 .. n - 1 :
           find_latest_log_entry(l, k) # 0 => \E i \in DOMAIN c : c[i].ino = k
      /\ LogHead(c) = SizeOf(l, LatestOf(l, n))
  BY LogIs, EntryIs DEF Compact
<1> HIDE DEF e
<1>3. /\ d \in Seq(LogEntries) /\ Len(d) = Len(c) + 1 /\ DOMAIN d = 1 .. Len(c) + 1
      /\ d[Len(c) + 1] = e
      /\ \A i \in DOMAIN c : d[i] = c[i]
  BY <1>1, <1>2
<1> HIDE DEF d
<1>4. \A i \in DOMAIN d : i \in DOMAIN c \/ i = Len(c) + 1
  BY <1>2, <1>3
<1>5. ASSUME NEW i \in DOMAIN d
      PROVE  /\ d[i].ino < n + 1
             /\ find_latest_log_entry(l, d[i].ino) # 0
             /\ d[i] = l[find_latest_log_entry(l, d[i].ino)]
  <2>1. CASE i \in DOMAIN c
    BY <2>1, <1>2, <1>3
  <2>2. CASE i = Len(c) + 1
    BY <2>2, <1>1, <1>3 DEF e
  <2>3. QED
    BY <2>1, <2>2, <1>4
<1>6. ASSUME NEW k \in 0 .. n + 1 - 1, find_latest_log_entry(l, k) # 0
      PROVE  \E i \in DOMAIN d : d[i].ino = k
  <2>1. CASE k = n
    BY <2>1, <1>1, <1>2, <1>3
  <2>2. CASE k # n
    <3>1. k \in 0 .. n - 1
      BY <2>2
    <3>2. PICK i \in DOMAIN c : c[i].ino = k
      BY <3>1, <1>2, <1>6
    <3>3. i \in DOMAIN d /\ d[i].ino = k
      BY <3>2, <1>2, <1>3
    <3>4. QED
      BY <3>3
  <2>3. QED
    BY <2>1, <2>2
<1>7. ASSUME NEW i \in DOMAIN d, NEW j \in DOMAIN d, d[i].ino = d[j].ino
      PROVE  i = j
  <2>1. CASE i \in DOMAIN c /\ j \in DOMAIN c
    BY <2>1, <1>2, <1>3, <1>7
  <2>2. CASE i \in DOMAIN c /\ j = Len(c) + 1
    <3>1. d[i].ino < n /\ d[i].ino \in Nat /\ d[j].ino = n
      BY <2>2, <1>1, <1>2, <1>3
    <3>2. QED
      BY <3>1, <1>7
  <2>3. CASE j \in DOMAIN c /\ i = Len(c) + 1
    <3>1. d[j].ino < n /\ d[j].ino \in Nat /\ d[i].ino = n
      BY <2>3, <1>1, <1>2, <1>3
    <3>2. QED
      BY <3>1, <1>7
  <2>4. QED
    BY <2>1, <2>2, <2>3, <1>4
<1>8. LatestOf(l, n + 1) = LatestOf(l, n) \cup {f}
  <2>1. ASSUME NEW x \in LatestOf(l, n + 1) PROVE x \in LatestOf(l, n) \cup {f}
    <3>1. PICK k \in 0 .. n + 1 - 1 : find_latest_log_entry(l, k) # 0 /\ x = find_latest_log_entry(l, k)
      BY <2>1 DEF LatestOf
    <3>2. CASE k = n
      BY <3>1, <3>2
    <3>3. CASE k # n
      <4>1. k \in 0 .. n - 1
        BY <3>3
      <4>2. QED
        BY <3>1, <4>1 DEF LatestOf
    <3>4. QED
      BY <3>2, <3>3
  <2>2. ASSUME NEW x \in LatestOf(l, n) \cup {f} PROVE x \in LatestOf(l, n + 1)
    <3>1. CASE x = f
      <4>1. n \in 0 .. n + 1 - 1 /\ f # 0
        OBVIOUS
      <4>2. QED
        BY <3>1, <4>1 DEF LatestOf
    <3>2. CASE x \in LatestOf(l, n)
      <4>1. PICK k \in 0 .. n - 1 : find_latest_log_entry(l, k) # 0 /\ x = find_latest_log_entry(l, k)
        BY <3>2 DEF LatestOf
      <4>2. k \in 0 .. n + 1 - 1
        OBVIOUS
      <4>3. QED
        BY <4>1, <4>2 DEF LatestOf
    <3>3. QED
      BY <3>1, <3>2
  <2>3. QED
    BY <2>1, <2>2, Zenon
<1>9. f \notin LatestOf(l, n)
  <2> SUFFICES ASSUME f \in LatestOf(l, n) PROVE FALSE
    OBVIOUS
  <2>1. PICK k \in 0 .. n - 1 : find_latest_log_entry(l, k) # 0 /\ f = find_latest_log_entry(l, k)
    BY DEF LatestOf
  <2>2. l[f].ino = k
    BY <2>1, LatestIsLatest
  <2>3. QED
    BY <2>2, <1>1 DEF e
<1>10. LogHead(d) = SizeOf(l, LatestOf(l, n + 1))
  <2>1. LogHead(d) = LogHead(c) + EntrySize(e)
    BY <1>1, <1>2, LogHeadAppend DEF d
  <2>2. SizeOf(l, LatestOf(l, n) \cup {f}) = SizeOf(l, LatestOf(l, n)) + EntrySize(l[f])
    <3> HIDE DEF f
    <3>1. QED
      BY <1>1, <1>9, SizeOfMore
  <2>3. QED
    BY <2>1, <2>2, <1>2, <1>8 DEF e
<1>b. find_latest_log_entry(l, 0) # 0 => 1 \in DOMAIN d /\ d[1].ino = 0
  <2> HAVE find_latest_log_entry(l, 0) # 0
  <2>1. CASE n = 0
    <3>1. DOMAIN c = {}
      BY <2>1, <1>2
    <3>2. Len(c) = 0
      BY <3>1, <1>2
    <3>3. QED
      BY <2>1, <3>2, <1>1, <1>3
  <2>2. CASE n # 0
    <3>1. 1 \in DOMAIN c /\ c[1].ino = 0
      BY <2>2 DEF Compact
    <3>2. QED
      BY <3>1, <1>2, <1>3
  <2>3. QED
    BY <2>1, <2>2
<1>11. Compact(l, n + 1, d)
  BY <1>3, <1>5, <1>6, <1>7, <1>10, <1>b DEF Compact
<1>12. QED
  BY <1>11 DEF d, e

LEMMA CompactedIs ==
  ASSUME NEW l \in Seq(LogEntries), l # << >>
  PROVE  Compact(l, find_max_inode_number(l) + 1, Compacted(l))
<1> DEFINE N == find_max_inode_number(l)
           S == Seq(LogEntries)
           live == {ino \in 0 .. N : find_latest_log_entry(l, ino) # 0}
           G(n, x) == IF n \in live THEN Append(x, l[find_latest_log_entry(l, n)]) ELSE x
           a == G(0, << >>)
           step == [n \in 1 .. N |-> [x \in S |-> G(n, x)]]
           h == CHOOSE list : list = [n \in 0 .. N |->
                  IF n \in live
                  THEN Append(IF n = 0 THEN << >> ELSE list[n - 1], l[find_latest_log_entry(l, n)])
                  ELSE IF n = 0 THEN << >> ELSE list[n - 1]]
<1>0. N \in Nat
  BY MaxInodeIs
<1>1. Compacted(l) = h[N]
  BY DEF Compacted
<1>2. ASSUME NEW n \in 0 .. N, NEW x \in S PROVE G(n, x) \in S
  <2>1. CASE n \in live
    <3>1. l[find_latest_log_entry(l, n)] \in LogEntries
      BY <2>1, LatestIsLatest, LogIs DEF IsLatest
    <3>2. Append(x, l[find_latest_log_entry(l, n)]) \in S
      BY <3>1
    <3>3. QED
      BY <2>1, <3>2
  <2>2. CASE n \notin live
    BY <2>2
  <2>3. QED
    BY <2>1, <2>2
<1>3. ASSUME NEW n \in 0 .. N, NEW x, Compact(l, n, x) PROVE Compact(l, n + 1, G(n, x))
  <2>0. n \in Nat
    BY <1>0
  <2>1. CASE n \in live
    BY <2>0, <2>1, <1>3, CompactKeep
  <2>2. CASE n \notin live
    BY <2>0, <2>2, <1>3, CompactSkip
  <2>3. QED
    BY <2>1, <2>2
<1>4. << >> \in S
  OBVIOUS
<1>a. \A k \in 1 .. N : k - 1 \in 0 .. N /\ k \in 0 .. N /\ k # 0
  BY <1>0
<1>b. \A n \in 0 .. N, x \in S :
        G(n, x) = IF n \in live THEN Append(x, l[find_latest_log_entry(l, n)]) ELSE x
  OBVIOUS
<1> HIDE DEF N, S, live, G
<1>5. a \in S /\ step \in [1 .. N -> [S -> S]]
  <2>1. 0 \in 0 .. N
    BY <1>0
  <2>2. QED
    BY <2>1, <1>2, <1>4, <1>a
<1> HIDE DEF a
<1>6. PICK f : Rounds(N, S, a, step, f)
  <2> HIDE DEF step
  <2>1. QED
    BY <1>0, <1>5, LoopRuns
<1>7. f \in [0 .. N -> S] /\ f[0] = a /\ \A k \in 1 .. N : f[k] = G(k, f[k - 1])
  <2>1. f \in [0 .. N -> S] /\ f[0] = a /\ \A k \in 1 .. N : f[k] = step[k][f[k - 1]]
    <3> HIDE DEF step
    <3>1. QED
      BY <1>6 DEF Rounds
  <2>2. \A k \in 1 .. N : f[k - 1] \in S
    BY <1>a, <2>1
  <2>3. QED
    BY <2>1, <2>2
<1>8. f = [n \in 0 .. N |->
             IF n \in live
             THEN Append(IF n = 0 THEN << >> ELSE f[n - 1], l[find_latest_log_entry(l, n)])
             ELSE IF n = 0 THEN << >> ELSE f[n - 1]]
  <2>1. \A k \in 0 .. N : k # 0 => k \in 1 .. N
    BY <1>0
  <2>2. \A n \in 0 .. N : f[n] = IF n \in live
             THEN Append(IF n = 0 THEN << >> ELSE f[n - 1], l[find_latest_log_entry(l, n)])
             ELSE IF n = 0 THEN << >> ELSE f[n - 1]
    BY <1>7, <2>1 DEF G, a
  <2>3. QED
    BY <1>7, <2>2
<1>9. h = [n \in 0 .. N |->
             IF n \in live
             THEN Append(IF n = 0 THEN << >> ELSE h[n - 1], l[find_latest_log_entry(l, n)])
             ELSE IF n = 0 THEN << >> ELSE h[n - 1]]
  BY <1>8, Zenon
<1> HIDE DEF h
<1>10. h[0] = a /\ \A k \in 1 .. N : h[k] = G(k, h[k - 1])
  <2>1. \A n \in 0 .. N : h[n] = G(n, IF n = 0 THEN << >> ELSE h[n - 1])
    BY <1>9, Zenon DEF G
  <2>2. h[0] = a
    <3>1. 0 \in 0 .. N
      BY <1>0
    <3>2. h[0] = G(0, IF 0 = 0 THEN << >> ELSE h[0 - 1])
      BY <2>1, <3>1, Zenon
    <3>3. (IF 0 = 0 THEN << >> ELSE h[0 - 1]) = << >>
      BY Zenon
    <3>4. QED
      BY <3>2, <3>3, Zenon DEF a
  <2>3. QED
    BY <1>a, <2>1, <2>2
<1>11. \A k \in 0 .. N : h[k] = f[k]
  <2>1. \A k \in 1 .. N : h[k - 1] \in S => h[k] = step[k][h[k - 1]]
    BY <1>10
  <2> HIDE DEF step
  <2>2. QED
    BY <1>0, <1>6, <1>10, <2>1, LoopOnce
<1> DEFINE Bad == {n \in 0 .. N : ~Compact(l, n + 1, f[n])}
<1>12. Bad = {}
  <2>1. SUFFICES ASSUME Bad # {} PROVE FALSE
    OBVIOUS
  <2>2. PICK m \in Bad : \A n \in Bad : m <= n
    <3>1. Bad \in SUBSET Nat
      BY <1>0
    <3>2. QED
      BY <2>1, <3>1, LeastNumber
  <2>3. m # 0
    <3>1. 0 \in 0 .. N /\ Compact(l, 0, << >>)
      BY <1>0, CompactNone
    <3>2. Compact(l, 0 + 1, G(0, << >>))
      BY <3>1, <1>3
    <3>3. QED
      BY <3>2, <2>2, <1>7 DEF a
  <2>4. m \in 1 .. N /\ m - 1 \in 0 .. N /\ m - 1 \notin Bad
    BY <1>0, <2>2, <2>3
  <2>5. Compact(l, m, f[m - 1])
    <3>1. Compact(l, m - 1 + 1, f[m - 1])
      BY <2>4
    <3>2. m - 1 + 1 = m
      BY <2>4
    <3>3. QED
      BY <3>1, <3>2
  <2>6. Compact(l, m + 1, G(m, f[m - 1]))
    BY <2>4, <2>5, <1>3, <1>a
  <2>7. QED
    BY <2>2, <2>4, <2>6, <1>7
<1>13. N \in 0 .. N
  BY <1>0
<1>14. Compact(l, N + 1, Compacted(l))
  BY <1>1, <1>11, <1>12, <1>13
<1>15. QED
  BY <1>14 DEF N

-----------------------------------------------------------------------------
(***************************************************************************)
(* Wfs: steady logs.                                                       *)
(***************************************************************************)

(* The entries of an inode are all of one kind, and all deleted or none;   *)
(* directories are never deleted, and the log begins with inode 0, one.    *)
Steady(l) ==
  /\ l \in Seq(LogEntries)
  /\ 1 \in DOMAIN l /\ l[1].ino = 0 /\ l[1].dir
  /\ \A i, j \in DOMAIN l :
       l[i].ino = l[j].ino => l[i].dir = l[j].dir /\ l[i].deleted = l[j].deleted
  /\ \A i \in DOMAIN l : l[i].dir => ~l[i].deleted

LEMMA SteadyIs ==
  ASSUME NEW l, Steady(l)
  PROVE  l \in Seq(LogEntries) /\ l # << >> /\ Len(l) \in Nat /\ DOMAIN l = 1 .. Len(l)
         /\ \A i \in DOMAIN l : l[i] \in LogEntries
<1>1. l \in Seq(LogEntries)
  BY DEF Steady
<1>2. DOMAIN l # {}
  BY DEF Steady
<1>3. Len(l) \in Nat /\ DOMAIN l = 1 .. Len(l) /\ \A i \in DOMAIN l : l[i] \in LogEntries
  BY <1>1, LogIs
<1>4. Len(l) # 0
  BY <1>2, <1>3
<1>5. l # << >>
  BY <1>1, <1>4
<1>6. QED
  BY <1>1, <1>3, <1>5

(* In a steady log the latest entry of an inode is its last one. *)
LEMMA LatestEntry ==
  ASSUME NEW l, Steady(l), NEW i, IsLatest(l, i)
  PROVE  /\ i \in DOMAIN l /\ l[i] \in LogEntries /\ ~l[i].deleted
         /\ find_latest_log_entry(l, l[i].ino) = i
<1>0. l \in Seq(LogEntries) /\ DOMAIN l = 1 .. Len(l) /\ Len(l) \in Nat
      /\ \A j \in DOMAIN l : l[j] \in LogEntries
  BY SteadyIs
<1>1. i \in DOMAIN l /\ i = find_latest_log_entry(l, l[i].ino) /\ i # 0
  BY <1>0 DEF IsLatest
<1>2. ~l[i].deleted
  BY <1>0, <1>1, LatestIs DEF LiveEntries
<1>3. QED
  BY <1>0, <1>1, <1>2

(* Every entry that is not deleted belongs to an inode that is found. *)
LEMMA LiveFound ==
  ASSUME NEW l, l \in Seq(LogEntries), NEW i \in DOMAIN l, ~l[i].deleted
  PROVE  find_latest_log_entry(l, l[i].ino) # 0
<1>1. i \in LiveEntries(l, l[i].ino)
  BY DEF LiveEntries
<1>2. i <= find_latest_log_entry(l, l[i].ino) /\ i \in 1 .. Len(l)
      /\ find_latest_log_entry(l, l[i].ino) \in 0 .. Len(l) /\ Len(l) \in Nat
  BY <1>1, LatestIs, LogIs
<1>3. QED
  BY <1>2

-----------------------------------------------------------------------------
(* Appending an entry. *)

LEMMA AppendIs ==
  ASSUME NEW l \in Seq(LogEntries), NEW e \in LogEntries
  PROVE  /\ Append(l, e) \in Seq(LogEntries)
         /\ Len(l) \in Nat /\ DOMAIN l = 1 .. Len(l)
         /\ DOMAIN Append(l, e) = 1 .. Len(l) + 1 /\ Len(Append(l, e)) = Len(l) + 1
         /\ Append(l, e)[Len(l) + 1] = e
         /\ \A i \in DOMAIN l : Append(l, e)[i] = l[i]
         /\ \A i \in DOMAIN Append(l, e) : i \in DOMAIN l \/ i = Len(l) + 1
         /\ \A i \in DOMAIN l : i \in DOMAIN Append(l, e) /\ i # Len(l) + 1
  OBVIOUS

LEMMA AppendLatest ==
  ASSUME NEW l \in Seq(LogEntries), NEW e \in LogEntries, ~e.deleted, NEW k
  PROVE  find_latest_log_entry(Append(l, e), k) =
           IF k = e.ino THEN Len(l) + 1 ELSE find_latest_log_entry(l, k)
<1> DEFINE m == Append(l, e)
<1>0. /\ m \in Seq(LogEntries) /\ Len(l) \in Nat /\ DOMAIN l = 1 .. Len(l)
      /\ DOMAIN m = 1 .. Len(l) + 1 /\ m[Len(l) + 1] = e
      /\ \A i \in DOMAIN l : m[i] = l[i]
      /\ \A i \in DOMAIN m : i \in DOMAIN l \/ i = Len(l) + 1
  BY AppendIs
<1> HIDE DEF m
<1>1. CASE k = e.ino
  <2>1. Len(l) + 1 \in LiveEntries(m, k)
    BY <1>0, <1>1 DEF LiveEntries
  <2>2. \A i \in LiveEntries(m, k) : i <= Len(l) + 1
    BY <1>0 DEF LiveEntries
  <2>3. QED
    BY <1>0, <1>1, <2>1, <2>2, LatestUnique DEF m
<1>2. CASE k # e.ino
  <2>1. \A i : i \in LiveEntries(m, k) <=> i \in LiveEntries(l, k)
    BY <1>0, <1>2 DEF LiveEntries
  <2>2. CASE find_latest_log_entry(l, k) = 0
    <3>1. LiveEntries(l, k) = {}
      BY <2>2, <1>0, LatestIs DEF LiveEntries
    <3>2. LiveEntries(m, k) = {}
      BY <3>1, <2>1, Zenon
    <3>3. QED
      BY <1>0, <1>2, <2>2, <3>2, LatestNone DEF m
  <2>3. CASE find_latest_log_entry(l, k) # 0
    <3>1. find_latest_log_entry(l, k) \in LiveEntries(l, k)
          /\ \A i \in LiveEntries(l, k) : i <= find_latest_log_entry(l, k)
      BY <2>3, LatestIs
    <3>2. find_latest_log_entry(l, k) \in LiveEntries(m, k)
          /\ \A i \in LiveEntries(m, k) : i <= find_latest_log_entry(l, k)
      BY <3>1, <2>1
    <3>3. find_latest_log_entry(m, k) = find_latest_log_entry(l, k)
      BY <3>2, <1>0, LatestUnique
    <3>4. QED
      BY <1>2, <3>3 DEF m
  <2>4. QED
    BY <2>2, <2>3
<1>3. QED
  BY <1>1, <1>2

LEMMA AppendVersion ==
  ASSUME NEW l, Steady(l), NEW i, IsLatest(l, i),
         NEW e \in LogEntries, ~e.deleted, e.ino = l[i].ino, e.dir = l[i].dir
  PROVE  Steady(Append(l, e))
<1> DEFINE m == Append(l, e)
<1>0. l \in Seq(LogEntries)
  BY SteadyIs
<1>1. /\ m \in Seq(LogEntries) /\ m[Len(l) + 1] = e
      /\ \A j \in DOMAIN l : m[j] = l[j] /\ j \in DOMAIN m
      /\ \A j \in DOMAIN m : j \in DOMAIN l \/ j = Len(l) + 1
  BY <1>0, AppendIs
<1> HIDE DEF m
<1>2. i \in DOMAIN l /\ ~l[i].deleted /\ l[i].deleted \in BOOLEAN /\ e.deleted \in BOOLEAN
      /\ l[i].dir \in BOOLEAN /\ e.dir \in BOOLEAN
  BY LatestEntry, EntryIs
<1>3. 1 \in DOMAIN m /\ m[1].ino = 0 /\ m[1].dir
  BY <1>1 DEF Steady
<1>4. ASSUME NEW a \in DOMAIN m, NEW b \in DOMAIN m, m[a].ino = m[b].ino
      PROVE  m[a].dir = m[b].dir /\ m[a].deleted = m[b].deleted
  <2>1. ASSUME NEW x \in DOMAIN l, l[x].ino = e.ino
        PROVE  l[x].dir = e.dir /\ l[x].deleted = e.deleted
    <3>1. l[x].dir = l[i].dir /\ l[x].deleted = l[i].deleted
      BY <2>1, <1>2 DEF Steady
    <3>2. QED
      BY <3>1, <1>2
  <2>2. CASE a \in DOMAIN l /\ b \in DOMAIN l
    BY <2>2, <1>1, <1>4 DEF Steady
  <2>3. CASE a \in DOMAIN l /\ b = Len(l) + 1
    BY <2>1, <2>3, <1>1, <1>4
  <2>4. CASE b \in DOMAIN l /\ a = Len(l) + 1
    BY <2>1, <2>4, <1>1, <1>4
  <2>5. QED
    BY <2>2, <2>3, <2>4, <1>1
<1>5. \A j \in DOMAIN m : m[j].dir => ~m[j].deleted
  BY <1>1 DEF Steady
<1>6. Steady(m)
  BY <1>1, <1>3, <1>4, <1>5 DEF Steady
<1>7. QED
  BY <1>6 DEF m

LEMMA AppendNew ==
  ASSUME NEW l, Steady(l), NEW e \in LogEntries, ~e.deleted,
         \A i \in DOMAIN l : l[i].ino # e.ino
  PROVE  Steady(Append(l, e))
<1> DEFINE m == Append(l, e)
<1>0. l \in Seq(LogEntries)
  BY SteadyIs
<1>1. /\ m \in Seq(LogEntries) /\ m[Len(l) + 1] = e
      /\ \A j \in DOMAIN l : m[j] = l[j] /\ j \in DOMAIN m
      /\ \A j \in DOMAIN m : j \in DOMAIN l \/ j = Len(l) + 1
  BY <1>0, AppendIs
<1> HIDE DEF m
<1>3. 1 \in DOMAIN m /\ m[1].ino = 0 /\ m[1].dir
  BY <1>1 DEF Steady
<1>4. ASSUME NEW a \in DOMAIN m, NEW b \in DOMAIN m, m[a].ino = m[b].ino
      PROVE  m[a].dir = m[b].dir /\ m[a].deleted = m[b].deleted
  <2>2. CASE a \in DOMAIN l /\ b \in DOMAIN l
    BY <2>2, <1>1, <1>4 DEF Steady
  <2>3. CASE a \in DOMAIN l /\ b = Len(l) + 1
    BY <2>3, <1>1, <1>4
  <2>4. CASE b \in DOMAIN l /\ a = Len(l) + 1
    BY <2>4, <1>1, <1>4
  <2>5. QED
    BY <2>2, <2>3, <2>4, <1>1
<1>5. \A j \in DOMAIN m : m[j].dir => ~m[j].deleted
  BY <1>1 DEF Steady
<1>6. Steady(m)
  BY <1>1, <1>3, <1>4, <1>5 DEF Steady
<1>7. QED
  BY <1>6 DEF m

-----------------------------------------------------------------------------
(* Deleting a file. *)

LEMMA DeleteIs ==
  ASSUME NEW l \in Seq(LogEntries), NEW ino
  PROVE  /\ delete_log_entries(l, ino) \in Seq(LogEntries)
         /\ Len(delete_log_entries(l, ino)) = Len(l)
         /\ DOMAIN delete_log_entries(l, ino) = DOMAIN l
         /\ \A i \in DOMAIN l :
              /\ l[i].ino # ino => delete_log_entries(l, ino)[i] = l[i]
              /\ l[i].ino = ino => delete_log_entries(l, ino)[i] =
                   [ino |-> ino, deleted |-> TRUE, dir |-> l[i].dir, data |-> l[i].data]
<1> DEFINE m == delete_log_entries(l, ino)
<1>0. Len(l) \in Nat /\ DOMAIN l = 1 .. Len(l) /\ \A i \in DOMAIN l : l[i] \in LogEntries
  BY LogIs
<1>1. m = [i \in DOMAIN l |-> IF l[i].ino = ino THEN [l[i] EXCEPT !.deleted = TRUE] ELSE l[i]]
  BY DEF delete_log_entries
<1> HIDE DEF m
<1>2. DOMAIN m = DOMAIN l
  BY <1>1
<1>3. ASSUME NEW i \in DOMAIN l
      PROVE  /\ l[i].ino # ino => m[i] = l[i]
             /\ l[i].ino = ino => m[i] =
                   [ino |-> ino, deleted |-> TRUE, dir |-> l[i].dir, data |-> l[i].data]
             /\ m[i] \in LogEntries
  <2>1. CASE l[i].ino # ino
    BY <2>1, <1>0, <1>1
  <2>2. CASE l[i].ino = ino
    <3>1. l[i] = [ino |-> l[i].ino, deleted |-> l[i].deleted, dir |-> l[i].dir, data |-> l[i].data]
          /\ l[i].ino \in Nat
          /\ l[i].dir \in BOOLEAN
          /\ (l[i].dir => l[i].data \in Seq(Dentries))
          /\ (~l[i].dir => l[i].data \in Seq(Bytes \cup {0}))
      BY <1>0, EntryIs
    <3>2. m[i] = [l[i] EXCEPT !.deleted = TRUE]
      BY <2>2, <1>1
    <3> DEFINE k == l[i].ino
               x == l[i].deleted
               d == l[i].dir
               s == l[i].data
    <3>3. m[i] = [[ino |-> k, deleted |-> x, dir |-> d, data |-> s] EXCEPT !.deleted = TRUE]
      BY <3>1, <3>2
    <3>4. ino = k
      BY <2>2
    <3>a. k \in Nat /\ d \in BOOLEAN /\ (d => s \in Seq(Dentries)) /\ (~d => s \in Seq(Bytes \cup {0}))
      BY <3>1
    <3> HIDE DEF k, x, d, s
    <3>5. m[i] = [ino |-> k, deleted |-> TRUE, dir |-> d, data |-> s]
      BY <3>3
    <3>6. m[i] \in LogEntries
      <4>1. CASE d
        <5>1. d = TRUE
          BY <4>1, <3>a
        <5>2. QED
          BY <5>1, <3>a, <3>5, DirEntryIs
      <4>2. CASE ~d
        <5>1. d = FALSE
          BY <4>2, <3>a
        <5>2. QED
          BY <4>2, <5>1, <3>a, <3>5, FileEntryIs
      <4>3. QED
        BY <4>1, <4>2
    <3>7. QED
      BY <3>4, <3>5, <3>6, <2>2 DEF d, s
  <2>3. QED
    BY <2>1, <2>2
<1>4. m \in Seq(LogEntries) /\ Len(m) = Len(l)
  <2>1. DOMAIN m = 1 .. Len(l) /\ \A i \in 1 .. Len(l) : m[i] \in LogEntries
    BY <1>0, <1>2, <1>3
  <2>2. m = [i \in 1 .. Len(l) |-> m[i]]
    BY <1>0, <1>1
  <2>3. QED
    BY <1>0, <2>1, <2>2, IsASeq
<1>5. QED
  BY <1>2, <1>3, <1>4 DEF m

MarkedAt(m, l, i) ==
  m[i].ino = l[i].ino /\ m[i].deleted /\ m[i].dir = l[i].dir /\ m[i].data = l[i].data

LEMMA DeleteMarks ==
  ASSUME NEW l \in Seq(LogEntries), NEW ino
  PROVE  \A i \in DOMAIN l : l[i].ino = ino => MarkedAt(delete_log_entries(l, ino), l, i)
<1> DEFINE m == delete_log_entries(l, ino)
<1> SUFFICES ASSUME NEW i \in DOMAIN l, l[i].ino = ino PROVE MarkedAt(m, l, i)
  OBVIOUS
<1>1. m[i] = [ino |-> ino, deleted |-> TRUE, dir |-> l[i].dir, data |-> l[i].data]
  BY DeleteIs
<1> HIDE DEF m
<1>2. m[i].ino = ino /\ m[i].deleted /\ m[i].dir = l[i].dir /\ m[i].data = l[i].data
  BY <1>1
<1>3. QED
  BY <1>2 DEF MarkedAt

LEMMA DeleteHead ==
  ASSUME NEW l \in Seq(LogEntries), NEW ino
  PROVE  LogHead(delete_log_entries(l, ino)) = LogHead(l)
<1>1. ASSUME NEW i \in DOMAIN l
      PROVE  EntrySize(delete_log_entries(l, ino)[i]) = EntrySize(l[i])
  <2>1. CASE l[i].ino # ino
    BY <2>1, DeleteIs
  <2>2. CASE l[i].ino = ino
    <3>1. MarkedAt(delete_log_entries(l, ino), l, i)
      BY <2>2, DeleteMarks, Zenon
    <3>2. QED
      BY <3>1, Zenon DEF EntrySize, MarkedAt
  <2>3. QED
    BY <2>1, <2>2
<1>2. delete_log_entries(l, ino) \in Seq(LogEntries) /\ Len(delete_log_entries(l, ino)) = Len(l)
  BY DeleteIs
<1>3. QED
  BY <1>1, <1>2, LogHeadSame

LEMMA DeleteLatest ==
  ASSUME NEW l \in Seq(LogEntries), NEW ino, NEW k
  PROVE  find_latest_log_entry(delete_log_entries(l, ino), k) =
           IF k = ino THEN 0 ELSE find_latest_log_entry(l, k)
<1> DEFINE m == delete_log_entries(l, ino)
<1>0. /\ m \in Seq(LogEntries) /\ DOMAIN m = DOMAIN l
      /\ \A i \in DOMAIN l : l[i].ino # ino => m[i] = l[i]
  BY DeleteIs
<1>a. \A i \in DOMAIN l : l[i].ino = ino => MarkedAt(m, l, i)
  BY DeleteMarks
<1> HIDE DEF m
<1>1. /\ m \in Seq(LogEntries) /\ DOMAIN m = DOMAIN l
      /\ \A i \in DOMAIN l :
              /\ l[i].ino # ino => m[i] = l[i]
              /\ l[i].ino = ino => m[i].ino = ino /\ m[i].deleted
  BY <1>0, <1>a DEF MarkedAt
<1>2. CASE k = ino
  <2>1. LiveEntries(m, k) = {}
    BY <1>1, <1>2 DEF LiveEntries
  <2>2. QED
    BY <1>1, <1>2, <2>1, LatestNone DEF m
<1>3. CASE k # ino
  <2>1. \A i : i \in LiveEntries(m, k) <=> i \in LiveEntries(l, k)
    BY <1>1, <1>3 DEF LiveEntries
  <2>2. CASE find_latest_log_entry(l, k) = 0
    <3>1. LiveEntries(l, k) = {}
      <4>1. ASSUME NEW i \in LiveEntries(l, k) PROVE FALSE
        <5>1. i <= 0
          BY <2>2, LatestIs
        <5>2. i \in 1 .. Len(l) /\ Len(l) \in Nat
          BY LogIs DEF LiveEntries
        <5>3. QED
          BY <5>1, <5>2
      <4>2. QED
        BY <4>1
    <3>2. LiveEntries(m, k) = {}
      BY <3>1, <2>1, Zenon
    <3>3. QED
      BY <1>1, <1>3, <2>2, <3>2, LatestNone DEF m
  <2>3. CASE find_latest_log_entry(l, k) # 0
    <3>1. find_latest_log_entry(l, k) \in LiveEntries(l, k)
          /\ \A i \in LiveEntries(l, k) : i <= find_latest_log_entry(l, k)
      BY <2>3, LatestIs
    <3>2. find_latest_log_entry(l, k) \in LiveEntries(m, k)
          /\ \A i \in LiveEntries(m, k) : i <= find_latest_log_entry(l, k)
      BY <3>1, <2>1
    <3>3. find_latest_log_entry(m, k) = find_latest_log_entry(l, k)
      BY <3>2, <1>1, LatestUnique
    <3>4. QED
      BY <1>3, <3>3 DEF m
  <2>4. QED
    BY <2>2, <2>3
<1>4. QED
  BY <1>2, <1>3

LEMMA DeleteSteady ==
  ASSUME NEW l, Steady(l), NEW i \in DOMAIN l, ~l[i].dir
  PROVE  Steady(delete_log_entries(l, l[i].ino))
<1> DEFINE ino == l[i].ino
           m == delete_log_entries(l, ino)
<1>0. l \in Seq(LogEntries) /\ \A j \in DOMAIN l : l[j] \in LogEntries
  BY SteadyIs
<1>a. /\ m \in Seq(LogEntries) /\ DOMAIN m = DOMAIN l
      /\ \A j \in DOMAIN l : l[j].ino # ino => m[j] = l[j]
  BY <1>0, DeleteIs
<1>b. \A j \in DOMAIN l : l[j].ino = ino => MarkedAt(m, l, j)
  BY <1>0, DeleteMarks
<1>c. \A j \in DOMAIN l : m[j].deleted \in BOOLEAN
  BY <1>a, EntryIs, LogIs
<1>3. \A j \in DOMAIN l : l[j].ino = ino => ~l[j].dir
  BY DEF Steady
<1> HIDE DEF m, ino
<1>1. /\ m \in Seq(LogEntries) /\ DOMAIN m = DOMAIN l
      /\ \A j \in DOMAIN l :
              /\ l[j].ino # ino => m[j] = l[j]
              /\ l[j].ino = ino => m[j].ino = ino /\ m[j].deleted = TRUE /\ m[j].dir = l[j].dir
  BY <1>a, <1>b, <1>c DEF MarkedAt
<1>2. \A j \in DOMAIN l : m[j].ino = l[j].ino /\ m[j].dir = l[j].dir
  BY <1>1
<1>4. 1 \in DOMAIN m /\ m[1].ino = 0 /\ m[1].dir
  BY <1>1, <1>2 DEF Steady
<1>5. ASSUME NEW a \in DOMAIN m, NEW b \in DOMAIN m, m[a].ino = m[b].ino
      PROVE  m[a].dir = m[b].dir /\ m[a].deleted = m[b].deleted
  <2>1. l[a].ino = l[b].ino /\ l[a].dir = l[b].dir /\ l[a].deleted = l[b].deleted
    BY <1>1, <1>2, <1>5 DEF Steady
  <2>2. CASE l[a].ino = ino
    BY <2>1, <2>2, <1>1
  <2>3. CASE l[a].ino # ino
    BY <2>1, <2>3, <1>1
  <2>4. QED
    BY <2>2, <2>3
<1>6. \A j \in DOMAIN m : m[j].dir => ~m[j].deleted
  BY <1>1, <1>2, <1>3 DEF Steady
<1>7. Steady(m)
  BY <1>1, <1>4, <1>5, <1>6 DEF Steady
<1>8. QED
  BY <1>7 DEF m, ino

-----------------------------------------------------------------------------
(* Compaction. *)
LEMMA CompactedSteady ==
  ASSUME NEW l, Steady(l)
  PROVE  Steady(Compacted(l)) /\ LogHead(Compacted(l)) <= LogHead(l)
<1> DEFINE c == Compacted(l)
           N == find_max_inode_number(l)
           L(k) == find_latest_log_entry(l, k)
<1>0. l \in Seq(LogEntries) /\ l # << >> /\ \A i \in DOMAIN l : l[i] \in LogEntries
  BY SteadyIs
<1>1. Compact(l, N + 1, c)
  BY <1>0, CompactedIs
<1>2. N \in Nat /\ \A i \in DOMAIN l : l[i].ino <= N
  BY <1>0, MaxInodeIs
<1> HIDE DEF c, N
<1>3. /\ c \in Seq(LogEntries)
      /\ \A i \in DOMAIN c : L(c[i].ino) # 0 /\ c[i] = l[L(c[i].ino)]
      /\ \A k \in 0 .. N : L(k) # 0 => \E i \in DOMAIN c : c[i].ino = k
      /\ \A i, j \in DOMAIN c : c[i].ino = c[j].ino => i = j
      /\ LogHead(c) = SizeOf(l, LatestOf(l, N + 1))
  BY <1>1, <1>2 DEF Compact
<1>4. \A i \in DOMAIN c : L(c[i].ino) \in DOMAIN l /\ ~c[i].deleted
  BY <1>0, <1>3, LatestIsLatest DEF IsLatest
<1>5. 1 \in DOMAIN c /\ c[1].ino = 0 /\ c[1].dir
  <2>1. 1 \in DOMAIN l /\ l[1].ino = 0 /\ l[1].dir /\ ~l[1].deleted
    BY DEF Steady
  <2>2. L(0) # 0
    BY <1>0, <2>1, LiveFound
  <2>3. 1 \in DOMAIN c /\ c[1].ino = 0
    BY <1>1, <1>2, <2>2 DEF Compact
  <2>4. c[1] = l[L(0)] /\ L(0) \in DOMAIN l /\ l[L(0)].ino = 0
    BY <2>3, <1>3, <1>4
  <2>5. l[L(0)].dir = l[1].dir
    BY <2>1, <2>4 DEF Steady
  <2>6. QED
    BY <2>1, <2>3, <2>4, <2>5
<1>6. Steady(c)
  BY <1>3, <1>4, <1>5 DEF Steady
<1>7. LogHead(c) <= LogHead(l)
  BY <1>0, <1>3, SizeOfSome
<1>8. QED
  BY <1>6, <1>7 DEF c

-----------------------------------------------------------------------------
(***************************************************************************)
(* Wfs: the calls, and that the log is whole.                              *)
(***************************************************************************)

WInv == WfsTypeOK /\ inst \in Instances /\ Steady(log)

LEMMA InstanceIs ==
  ASSUME inst \in Instances
  PROVE  /\ DiskSize \in Nat /\ DiskSize >= 13
         /\ inst.calls \in Nat /\ inst.fscks \in Nat
<1>1. Instances \subseteq [size : Nat, calls : Nat, fscks : Nat]
      /\ \A i \in Instances : i.size >= 13
  BY WfsAssumption, Zenon
<1>2. QED
  BY <1>1 DEF DiskSize

LEMMA ParentIn ==
  ASSUME NEW p \in Paths, p # << >>
  PROVE  /\ Parent(p) \in Paths /\ Filename(p) \in Names
         /\ Len(p) \in Nat /\ Len(p) >= 1
<1>1. \A q \in Paths : q # << >> => SubSeq(q, 1, Len(q) - 1) \in Paths
  BY WfsAssumption, Zenon
<1>2. Parent(p) \in Paths
  BY <1>1 DEF Parent
<1>3. p \in Seq(Names) /\ Len(p) \in Nat
  BY PathsAre DEF PathIs
<1>4. Len(p) # 0
  BY <1>3
<1>5. Len(p) \in 1 .. Len(p)
  BY <1>3, <1>4
<1>6. p[Len(p)] \in Names
  BY <1>3, <1>5
<1>7. QED
  BY <1>2, <1>3, <1>4, <1>6 DEF Filename

(* The directory that a call finds for the parent of its path. *)
Dad(p) == find_log_entry_by_path(log, Parent(p))

LEMMA DadIs ==
  ASSUME WInv, NEW p \in Paths, KernelWalks(p)
  PROVE  /\ p # << >> /\ Parent(p) \in Paths /\ Filename(p) \in Names
         /\ IsDir(log, Parent(p))
         /\ Dad(p) \in DOMAIN log /\ IsLatest(log, Dad(p)) /\ log[Dad(p)] \in DirEntries
         /\ ~log[Dad(p)].deleted
<1>1. p # << >>
  BY DEF KernelWalks
<1>2. Parent(p) \in Paths /\ Filename(p) \in Names /\ Len(p) \in Nat /\ Len(p) >= 1
  BY <1>1, ParentIn
<1>3. Len(p) - 1 \in 0 .. Len(p) - 1
  BY <1>2
<1>4. IsDir(log, Parent(p))
  BY <1>3 DEF KernelWalks, Parent
<1>5. Steady(log)
  BY DEF WInv
<1>6. log \in Seq(LogEntries) /\ log # << >>
  BY <1>5, SteadyIs
<1>7. IsLatest(log, Dad(p)) /\ log[Dad(p)].dir
  BY <1>2, <1>4, <1>6, LookupType DEF IsDir, Dad
<1>8. Dad(p) \in DOMAIN log /\ log[Dad(p)] \in LogEntries /\ ~log[Dad(p)].deleted
  BY <1>5, <1>7, LatestEntry
<1>9. log[Dad(p)] \in DirEntries
  BY <1>7, <1>8 DEF LogEntries, FileEntries
<1>10. QED
  BY <1>1, <1>2, <1>4, <1>7, <1>8, <1>9

Listing(d, list) == [ino |-> d, deleted |-> FALSE, dir |-> TRUE, data |-> list]

LEMMA ListingIs ==
  ASSUME NEW d \in Nat, NEW list \in Seq(Dentries)
  PROVE  /\ Listing(d, list) \in LogEntries
         /\ Listing(d, list).ino = d /\ Listing(d, list).deleted = FALSE
         /\ Listing(d, list).dir = TRUE /\ Listing(d, list).data = list
         /\ EntrySize(Listing(d, list)) = ENTRY + DENTRY * Len(list)
<1>1. Listing(d, list) \in LogEntries
  BY DirEntryIs DEF Listing
<1>2. /\ Listing(d, list).ino = d /\ Listing(d, list).deleted = FALSE
      /\ Listing(d, list).dir = TRUE /\ Listing(d, list).data = list
  BY DEF Listing
<1>3. QED
  BY <1>1, <1>2 DEF EntrySize

NewNumber == find_max_inode_number(log) + 1
NewDentry(p) == [name |-> Filename(p), ino |-> NewNumber]

LEMMA NewNumberIs ==
  ASSUME WInv
  PROVE  /\ NewNumber \in Nat \ {0}
         /\ \A i \in DOMAIN log : log[i].ino \in Nat /\ log[i].ino < NewNumber
<1>1. log \in Seq(LogEntries) /\ log # << >>
  BY SteadyIs DEF WInv
<1>2. /\ find_max_inode_number(log) \in Nat
      /\ \A i \in DOMAIN log : log[i].ino <= find_max_inode_number(log)
  BY <1>1, MaxInodeIs
<1>3. \A i \in DOMAIN log : log[i].ino \in Nat
  BY <1>1, LogIs, EntryIs
<1>4. QED
  BY <1>2, <1>3 DEF NewNumber

LEMMA NewParentIs ==
  ASSUME WInv, NEW p \in Paths, KernelWalks(p)
  PROVE  /\ NewParent(p) = Listing(log[Dad(p)].ino, Append(log[Dad(p)].data, NewDentry(p)))
         /\ log[Dad(p)].ino \in Nat /\ log[Dad(p)].data \in Seq(Dentries)
         /\ NewDentry(p) \in Dentries
         /\ Append(log[Dad(p)].data, NewDentry(p)) \in Seq(Dentries)
<1>1. log[Dad(p)] \in DirEntries /\ ~log[Dad(p)].deleted /\ Filename(p) \in Names
  BY DadIs
<1> DEFINE e == log[Dad(p)]
           k == e.ino
           s == e.data
<1>2. e = [ino |-> k, deleted |-> FALSE, dir |-> TRUE, data |-> s] /\ k \in Nat /\ s \in Seq(Dentries)
  BY <1>1 DEF DirEntries
<1>3. NewParent(p) = [e EXCEPT !.data = Append(s, NewDentry(p))]
  BY DEF NewParent, NewDentry, NewNumber, Dad
<1>4. NewDentry(p) \in Dentries
  BY <1>1, NewNumberIs DEF NewDentry, Dentries
<1> HIDE DEF k, s
<1>5. NewParent(p) = [[ino |-> k, deleted |-> FALSE, dir |-> TRUE, data |-> s]
                        EXCEPT !.data = Append(s, NewDentry(p))]
  BY <1>2, <1>3
<1>6. NewParent(p) = [ino |-> k, deleted |-> FALSE, dir |-> TRUE, data |-> Append(s, NewDentry(p))]
  BY <1>5
<1>7. Append(s, NewDentry(p)) \in Seq(Dentries)
  BY <1>2, <1>4
<1>8. QED
  BY <1>2, <1>4, <1>6, <1>7 DEF Listing, k, s

LEMMA NewParentFields ==
  ASSUME WInv, NEW p \in Paths, KernelWalks(p)
  PROVE  /\ NewParent(p) \in LogEntries /\ NewParent(p).ino = log[Dad(p)].ino
         /\ NewParent(p).dir = TRUE /\ NewParent(p).deleted = FALSE
         /\ NewParent(p).data = Append(log[Dad(p)].data, NewDentry(p))
<1> DEFINE d == log[Dad(p)].ino
           list == Append(log[Dad(p)].data, NewDentry(p))
<1>1. NewParent(p) = Listing(d, list) /\ d \in Nat /\ list \in Seq(Dentries)
  BY NewParentIs
<1> HIDE DEF d, list
<1>2. /\ Listing(d, list) \in LogEntries
      /\ Listing(d, list).ino = d /\ Listing(d, list).deleted = FALSE
      /\ Listing(d, list).dir = TRUE /\ Listing(d, list).data = list
  BY <1>1, ListingIs
<1>3. QED
  BY <1>1, <1>2 DEF d, list

Newborn(k, dir) == [ino |-> k, deleted |-> FALSE, dir |-> dir, data |-> << >>]

LEMMA NewbornIs ==
  ASSUME NEW k \in Nat, NEW dir \in BOOLEAN
  PROVE  /\ Newborn(k, dir) \in LogEntries
         /\ Newborn(k, dir).ino = k /\ Newborn(k, dir).deleted = FALSE
         /\ Newborn(k, dir).dir = dir /\ Newborn(k, dir).data = << >>
         /\ EntrySize(Newborn(k, dir)) = ENTRY
<1>1. << >> \in Seq(Dentries) /\ << >> \in Seq(Bytes \cup {0}) /\ Len(<< >>) = 0
  OBVIOUS
<1>2. Newborn(k, dir) \in LogEntries
  <2>1. CASE dir = TRUE
    BY <1>1, <2>1, DirEntryIs DEF Newborn
  <2>2. CASE dir = FALSE
    BY <1>1, <2>2, FileEntryIs DEF Newborn
  <2>3. QED
    BY <2>1, <2>2
<1>3. /\ Newborn(k, dir).ino = k /\ Newborn(k, dir).deleted = FALSE
      /\ Newborn(k, dir).dir = dir /\ Newborn(k, dir).data = << >>
  BY DEF Newborn
<1>4. EntrySize(Newborn(k, dir)) = ENTRY
  BY <1>1, <1>3 DEF EntrySize, ENTRY, DENTRY
<1>5. QED
  BY <1>2, <1>3, <1>4

LEMMA AppendTwo ==
  ASSUME NEW l \in Seq(LogEntries), NEW a \in LogEntries, NEW b \in LogEntries
  PROVE  l \o <<a, b>> = Append(Append(l, a), b)
  OBVIOUS

(* A create appends one version of the parent, and the new entry if both fit. *)
MakeFits(p) == LogHead(log) + EntrySize(NewParent(p)) + ENTRY <= DiskSize

LEMMA MakeDoes ==
  ASSUME WInv, NEW p \in Paths, NEW dir \in BOOLEAN, Make(p, dir)
  PROVE  /\ KernelWalks(p) /\ ~Exists(log, p)
         /\ NewParent(p) \in LogEntries
         /\ Append(log, NewParent(p)) \in Seq(LogEntries)
         /\ LogHead(log) + EntrySize(NewParent(p)) <= DiskSize
         /\ LogHead(Append(log, NewParent(p))) = LogHead(log) + EntrySize(NewParent(p))
         /\ LogHead(log') <= DiskSize
         /\ log' = IF MakeFits(p) THEN Append(Append(log, NewParent(p)), Newborn(NewNumber, dir))
                   ELSE Append(log, NewParent(p))
         /\ cut' = (cut \/ ~MakeFits(p))
         /\ tree' = Visible(log')
         /\ calls' = calls + 1 /\ calls < inst.calls
         /\ UNCHANGED <<inst, fscks>>
<1> DEFINE e == NewParent(p)
           c == Newborn(NewNumber, dir)
<1>1. /\ KernelWalks(p) /\ ~Exists(log, p)
      /\ calls < inst.calls /\ calls' = calls + 1 /\ tree' = Visible(log')
      /\ UNCHANGED <<inst, fscks>>
      /\ LogHead(log) + EntrySize(e) <= DiskSize
      /\ log' = IF LogHead(log) + (EntrySize(e) + ENTRY) <= DiskSize THEN log \o <<e, c>>
                ELSE Append(log, e)
      /\ cut' = (cut \/ ~(LogHead(log) + (EntrySize(e) + ENTRY) <= DiskSize))
  BY DEF Make, Called, Fits, Newborn, NewNumber, Entry
<1>2. e \in LogEntries
  BY <1>1, NewParentIs, ListingIs
<1>3. c \in LogEntries /\ EntrySize(c) = ENTRY
  <2>1. NewNumber \in Nat
    BY NewNumberIs
  <2>2. QED
    BY <2>1, NewbornIs
<1>4. log \in Seq(LogEntries)
  BY DEF WInv, WfsTypeOK
<1>5. LogHead(log) \in Nat /\ EntrySize(e) \in Nat /\ ENTRY \in Nat /\ DiskSize \in Nat
  BY <1>2, <1>4, LogHeadNat, SizeIs, InstanceIs DEF ENTRY, WInv
<1> HIDE DEF e, c
<1>6. LogHead(log) + (EntrySize(e) + ENTRY) <= DiskSize <=> MakeFits(p)
  BY <1>5 DEF MakeFits, e
<1>7. log \o <<e, c>> = Append(Append(log, e), c)
  BY <1>2, <1>3, <1>4, AppendTwo
<1>8. Append(log, e) \in Seq(LogEntries) /\ LogHead(Append(log, e)) = LogHead(log) + EntrySize(e)
  BY <1>2, <1>4, AppendIs, LogHeadAppend
<1>9. LogHead(Append(Append(log, e), c)) = LogHead(log) + EntrySize(e) + ENTRY
  BY <1>3, <1>8, LogHeadAppend
<1>10. LogHead(log') <= DiskSize
  <2>1. CASE MakeFits(p)
    BY <2>1, <1>1, <1>6, <1>7, <1>9 DEF MakeFits, e
  <2>2. CASE ~MakeFits(p)
    BY <2>2, <1>1, <1>6, <1>8
  <2>3. QED
    BY <2>1, <2>2
<1>11. /\ log' = IF MakeFits(p) THEN Append(Append(log, e), c) ELSE Append(log, e)
       /\ cut' = (cut \/ ~MakeFits(p))
  BY <1>1, <1>6, <1>7
<1>12. QED
  BY <1>1, <1>2, <1>8, <1>10, <1>11 DEF e, c

LEMMA MakeParentSteady ==
  ASSUME WInv, NEW p \in Paths, KernelWalks(p)
  PROVE  Steady(Append(log, NewParent(p)))
<1>1. Steady(log)
  BY DEF WInv
<1>2. /\ NewParent(p) \in LogEntries /\ NewParent(p).ino = log[Dad(p)].ino
      /\ NewParent(p).dir = TRUE /\ NewParent(p).deleted = FALSE
  BY NewParentFields
<1>3. IsLatest(log, Dad(p)) /\ log[Dad(p)].dir = TRUE
  BY DadIs DEF DirEntries
<1>4. QED
  BY <1>1, <1>2, <1>3, AppendVersion

LEMMA MakeSteady ==
  ASSUME WInv, NEW p \in Paths, NEW dir \in BOOLEAN, Make(p, dir)
  PROVE  Steady(log')
<1>1. KernelWalks(p)
  BY MakeDoes
<1>2. Steady(Append(log, NewParent(p)))
  BY <1>1, MakeParentSteady
<1>3. log' = IF MakeFits(p) THEN Append(Append(log, NewParent(p)), Newborn(NewNumber, dir))
             ELSE Append(log, NewParent(p))
  BY MakeDoes
<1>4. Steady(Append(Append(log, NewParent(p)), Newborn(NewNumber, dir)))
  <2>1. NewNumber \in Nat /\ \A i \in DOMAIN log : log[i].ino # NewNumber
    BY NewNumberIs
  <2>2. Newborn(NewNumber, dir) \in LogEntries /\ ~Newborn(NewNumber, dir).deleted
        /\ Newborn(NewNumber, dir).ino = NewNumber
    BY <2>1, NewbornIs
  <2>3. log \in Seq(LogEntries) /\ NewParent(p) \in LogEntries /\ NewParent(p).ino = log[Dad(p)].ino
        /\ Dad(p) \in DOMAIN log
    BY <1>1, SteadyIs, NewParentFields, DadIs DEF WInv
  <2>4. \A i \in DOMAIN Append(log, NewParent(p)) : Append(log, NewParent(p))[i].ino # NewNumber
    <3>1. /\ Append(log, NewParent(p))[Len(log) + 1] = NewParent(p)
          /\ \A i \in DOMAIN log : Append(log, NewParent(p))[i] = log[i]
          /\ \A i \in DOMAIN Append(log, NewParent(p)) : i \in DOMAIN log \/ i = Len(log) + 1
      BY <2>3, AppendIs
    <3>2. QED
      BY <3>1, <2>1, <2>3
  <2>5. QED
    BY <1>2, <2>2, <2>4, AppendNew
<1>5. QED
  BY <1>2, <1>3, <1>4

(* The entry that a call finds for its path. *)
Own(p) == find_log_entry_by_path(log, p)

LEMMA OwnFileIs ==
  ASSUME WInv, NEW p \in Paths, IsFile(log, p)
  PROVE  /\ Own(p) \in DOMAIN log /\ IsLatest(log, Own(p)) /\ log[Own(p)] \in FileEntries
         /\ ~log[Own(p)].deleted /\ log[Own(p)].dir = FALSE
         /\ log[Own(p)].ino \in Nat /\ log[Own(p)].data \in Seq(Bytes \cup {0})
<1>1. Steady(log)
  BY DEF WInv
<1>2. log \in Seq(LogEntries) /\ log # << >>
  BY <1>1, SteadyIs
<1>3. IsLatest(log, Own(p)) /\ ~log[Own(p)].dir
  BY <1>2, LookupType DEF IsFile, Own
<1>4. Own(p) \in DOMAIN log /\ log[Own(p)] \in LogEntries /\ ~log[Own(p)].deleted
  BY <1>1, <1>3, LatestEntry
<1>5. log[Own(p)] \in FileEntries
  BY <1>3, <1>4 DEF LogEntries, DirEntries
<1>6. QED
  BY <1>3, <1>4, <1>5 DEF FileEntries

Contents(k, s) == [ino |-> k, deleted |-> FALSE, dir |-> FALSE, data |-> s]

LEMMA ContentsIs ==
  ASSUME NEW k \in Nat, NEW s \in Seq(Bytes \cup {0})
  PROVE  /\ Contents(k, s) \in LogEntries
         /\ Contents(k, s).ino = k /\ Contents(k, s).deleted = FALSE
         /\ Contents(k, s).dir = FALSE /\ Contents(k, s).data = s
<1>1. Contents(k, s) \in LogEntries
  BY FileEntryIs DEF Contents
<1>2. QED
  BY <1>1 DEF Contents

LEMMA NewDataIs ==
  ASSUME NEW s \in Seq(Bytes \cup {0}), NEW o \in Offsets, NEW v \in Bytes
  PROVE  NewData(s, o, v) \in Seq(Bytes \cup {0})
<1>1. o \in Nat /\ Len(s) \in Nat
  BY WfsAssumption
<1> DEFINE n == IF o + 1 > Len(s) THEN o + 1 ELSE Len(s)
           x(i) == IF i = o + 1 THEN v ELSE IF i <= Len(s) THEN s[i] ELSE 0
<1>2. n \in Nat
  BY <1>1
<1>3. \A i \in 1 .. n : x(i) \in Bytes \cup {0}
  <2> TAKE i \in 1 .. n
  <2>1. CASE i = o + 1
    BY <2>1
  <2>2. CASE i # o + 1 /\ i <= Len(s)
    <3>1. i \in 1 .. Len(s)
      BY <2>2, <1>1, <1>2
    <3>2. s[i] \in Bytes \cup {0}
      BY <3>1
    <3>3. QED
      BY <2>2, <3>2
  <2>3. CASE i # o + 1 /\ ~(i <= Len(s))
    BY <2>3
  <2>4. QED
    BY <2>1, <2>2, <2>3
<1>4. NewData(s, o, v) = [i \in 1 .. n |-> x(i)]
  BY DEF NewData
<1> HIDE DEF n, x
<1>5. [i \in 1 .. n |-> x(i)] \in Seq(Bytes \cup {0})
  BY <1>2, <1>3, IsASeq
<1>6. QED
  BY <1>4, <1>5

NewContents(p, o, v) == Contents(log[Own(p)].ino, NewData(log[Own(p)].data, o, v))

LEMMA WriteDoes ==
  ASSUME WInv, NEW p \in Paths, NEW o \in Offsets, NEW v \in Bytes, Write(p, o, v)
  PROVE  /\ KernelWalks(p) /\ IsFile(log, p)
         /\ NewContents(p, o, v) \in LogEntries
         /\ NewContents(p, o, v).ino = log[Own(p)].ino
         /\ NewContents(p, o, v).dir = FALSE /\ NewContents(p, o, v).deleted = FALSE
         /\ NewContents(p, o, v).data = NewData(log[Own(p)].data, o, v)
         /\ log' = Append(log, NewContents(p, o, v))
         /\ LogHead(log') = LogHead(log) + EntrySize(NewContents(p, o, v))
         /\ LogHead(log') <= DiskSize
         /\ tree' = Visible(log')
         /\ calls' = calls + 1 /\ calls < inst.calls
         /\ UNCHANGED <<inst, fscks, cut>>
<1> DEFINE e == NewContents(p, o, v)
<1>1. /\ KernelWalks(p) /\ IsFile(log, p)
      /\ calls < inst.calls /\ calls' = calls + 1 /\ tree' = Visible(log')
      /\ UNCHANGED <<inst, fscks, cut>>
      /\ LogHead(log) + EntrySize(e) <= DiskSize
      /\ log' = Append(log, e)
  BY DEF Write, Called, Fits, Entry, NewContents, Contents, Own
<1>2. log[Own(p)].ino \in Nat /\ log[Own(p)].data \in Seq(Bytes \cup {0})
  BY <1>1, OwnFileIs
<1>3. NewData(log[Own(p)].data, o, v) \in Seq(Bytes \cup {0})
  BY <1>2, NewDataIs
<1>4. /\ e \in LogEntries /\ e.ino = log[Own(p)].ino /\ e.dir = FALSE /\ e.deleted = FALSE
      /\ e.data = NewData(log[Own(p)].data, o, v)
  BY <1>2, <1>3, ContentsIs DEF NewContents
<1> HIDE DEF e
<1>5. log \in Seq(LogEntries)
  BY DEF WInv, WfsTypeOK
<1>6. LogHead(log') = LogHead(log) + EntrySize(e)
  BY <1>1, <1>4, <1>5, LogHeadAppend
<1>7. QED
  BY <1>1, <1>4, <1>6 DEF e

LEMMA WriteSteady ==
  ASSUME WInv, NEW p \in Paths, NEW o \in Offsets, NEW v \in Bytes, Write(p, o, v)
  PROVE  Steady(log')
<1>1. /\ NewContents(p, o, v) \in LogEntries /\ ~NewContents(p, o, v).deleted
      /\ NewContents(p, o, v).ino = log[Own(p)].ino
      /\ NewContents(p, o, v).dir = log[Own(p)].dir
      /\ IsLatest(log, Own(p))
      /\ log' = Append(log, NewContents(p, o, v))
  BY WriteDoes, OwnFileIs
<1>2. Steady(log)
  BY DEF WInv
<1>3. QED
  BY <1>1, <1>2, AppendVersion

-----------------------------------------------------------------------------
(* The listing that wfs_unlink writes. *)
Left(p) ==
  LET data == log[Dad(p)].data
      kept == Without(data, log[Own(p)].ino)
  IN  [i \in 1 .. (Len(data) - 1) |->
         IF i <= Len(kept) THEN kept[i] ELSE [name |-> "", ino |-> 0]]

LEMMA LeftIs ==
  ASSUME WInv, NEW p \in Paths, KernelWalks(p), IsFile(log, p)
  PROVE  Left(p) \in Seq(Dentries)
<1> DEFINE data == log[Dad(p)].data
           kept == Without(data, log[Own(p)].ino)
           n == IF Len(data) = 0 THEN 0 ELSE Len(data) - 1
           x(i) == IF i <= Len(kept) THEN kept[i] ELSE [name |-> "", ino |-> 0]
<1>1. data \in Seq(Dentries)
  BY DadIs DEF DirEntries
<1>2. kept \in Seq(Dentries)
  <2> HIDE DEF data
  <2>1. QED
    BY <1>1, WithoutType
<1>3. Left(p) = [i \in 1 .. (Len(data) - 1) |-> x(i)]
  BY DEF Left
<1> HIDE DEF data, kept
<1>4. Len(data) \in Nat /\ Len(kept) \in Nat
  BY <1>1, <1>2
<1>5. n \in Nat /\ 1 .. (Len(data) - 1) = 1 .. n
  <2>1. CASE Len(data) = 0
    BY <2>1
  <2>2. CASE Len(data) # 0
    BY <2>2, <1>4
  <2>3. QED
    BY <2>1, <2>2
<1>6. \A i \in 1 .. n : x(i) \in Dentries
  <2> TAKE i \in 1 .. n
  <2>1. CASE i <= Len(kept)
    <3>1. i \in 1 .. Len(kept)
      BY <2>1, <1>4, <1>5
    <3>2. kept[i] \in Dentries
      BY <3>1, <1>2
    <3>3. QED
      BY <2>1, <3>2
  <2>2. CASE ~(i <= Len(kept))
    BY <2>2 DEF Dentries
  <2>3. QED
    BY <2>1, <2>2
<1> HIDE DEF n, x
<1>7. [i \in 1 .. n |-> x(i)] \in Seq(Dentries)
  BY <1>5, <1>6, IsASeq
<1>8. QED
  BY <1>3, <1>5, <1>7

NewListing(p) == Listing(log[Dad(p)].ino, Left(p))
Marked(p) == delete_log_entries(log, log[Own(p)].ino)
UnlinkFits(p) == LogHead(log) + EntrySize(NewListing(p)) <= DiskSize

LEMMA UnlinkDoes ==
  ASSUME WInv, NEW p \in Paths, Unlink(p)
  PROVE  /\ KernelWalks(p) /\ IsFile(log, p)
         /\ NewListing(p) \in LogEntries
         /\ NewListing(p).ino = log[Dad(p)].ino
         /\ NewListing(p).dir = TRUE /\ NewListing(p).deleted = FALSE
         /\ NewListing(p).data = Left(p)
         /\ Marked(p) \in Seq(LogEntries)
         /\ LogHead(Marked(p)) = LogHead(log)
         /\ log' = IF UnlinkFits(p) THEN Append(Marked(p), NewListing(p)) ELSE Marked(p)
         /\ LogHead(log') <= DiskSize
         /\ cut' = (cut \/ ~UnlinkFits(p))
         /\ tree' = Visible(log')
         /\ calls' = calls + 1 /\ calls < inst.calls
         /\ UNCHANGED <<inst, fscks>>
<1> DEFINE e == NewListing(p)
           m == Marked(p)
<1>1. /\ KernelWalks(p) /\ IsFile(log, p)
      /\ calls < inst.calls /\ calls' = calls + 1 /\ tree' = Visible(log')
      /\ UNCHANGED <<inst, fscks>>
      /\ log' = IF UnlinkFits(p) THEN Append(m, e) ELSE m
      /\ cut' = (cut \/ ~UnlinkFits(p))
  BY DEF Unlink, Called, Fits, Entry, NewListing, Listing, Left, Marked, UnlinkFits, Dad, Own
<1>2. log[Dad(p)].ino \in Nat /\ Left(p) \in Seq(Dentries)
  BY <1>1, DadIs, LeftIs DEF DirEntries
<1>3. /\ e \in LogEntries /\ e.ino = log[Dad(p)].ino /\ e.dir = TRUE /\ e.deleted = FALSE
      /\ e.data = Left(p)
  BY <1>2, ListingIs DEF NewListing
<1>4. log \in Seq(LogEntries) /\ LogHead(log) <= DiskSize
  BY DEF WInv, WfsTypeOK
<1>5. m \in Seq(LogEntries) /\ LogHead(m) = LogHead(log)
  BY <1>4, DeleteIs, DeleteHead DEF Marked
<1> HIDE DEF e, m
<1>6. LogHead(Append(m, e)) = LogHead(m) + EntrySize(e)
  BY <1>3, <1>5, LogHeadAppend
<1>7. LogHead(log') <= DiskSize
  <2>1. CASE UnlinkFits(p)
    BY <2>1, <1>1, <1>5, <1>6 DEF UnlinkFits, e
  <2>2. CASE ~UnlinkFits(p)
    BY <2>2, <1>1, <1>4, <1>5
  <2>3. QED
    BY <2>1, <2>2
<1>8. QED
  BY <1>1, <1>3, <1>5, <1>7 DEF e, m

(* After the marks the parent is still there. *)
LEMMA MarkedParent ==
  ASSUME WInv, NEW p \in Paths, KernelWalks(p), IsFile(log, p)
  PROVE  /\ Steady(Marked(p))
         /\ log[Dad(p)].ino # log[Own(p)].ino
         /\ Marked(p)[Dad(p)] = log[Dad(p)]
         /\ IsLatest(Marked(p), Dad(p))
<1>1. Steady(log) /\ log \in Seq(LogEntries)
  BY SteadyIs DEF WInv
<1>2. Own(p) \in DOMAIN log /\ log[Own(p)].dir = FALSE
  BY OwnFileIs
<1>3. Dad(p) \in DOMAIN log /\ log[Dad(p)].dir = TRUE /\ IsLatest(log, Dad(p))
  BY DadIs DEF DirEntries
<1>4. log[Dad(p)].ino # log[Own(p)].ino
  BY <1>1, <1>2, <1>3 DEF Steady
<1>5. Steady(Marked(p))
  BY <1>1, <1>2, DeleteSteady DEF Marked
<1>6. Marked(p)[Dad(p)] = log[Dad(p)] /\ DOMAIN Marked(p) = DOMAIN log
  BY <1>1, <1>3, <1>4, DeleteIs DEF Marked
<1>7. find_latest_log_entry(Marked(p), log[Dad(p)].ino)
        = find_latest_log_entry(log, log[Dad(p)].ino)
  BY <1>1, <1>4, DeleteLatest DEF Marked
<1>8. IsLatest(Marked(p), Dad(p))
  BY <1>3, <1>6, <1>7 DEF IsLatest
<1>9. QED
  BY <1>4, <1>5, <1>6, <1>8

LEMMA UnlinkSteady ==
  ASSUME WInv, NEW p \in Paths, Unlink(p)
  PROVE  Steady(log')
<1>1. KernelWalks(p) /\ IsFile(log, p)
  BY UnlinkDoes
<1>2. Steady(Marked(p)) /\ IsLatest(Marked(p), Dad(p)) /\ Marked(p)[Dad(p)] = log[Dad(p)]
  BY <1>1, MarkedParent
<1>3. log[Dad(p)].dir = TRUE
  BY <1>1, DadIs DEF DirEntries
<1>4. /\ NewListing(p) \in LogEntries /\ NewListing(p).ino = Marked(p)[Dad(p)].ino
      /\ NewListing(p).dir = Marked(p)[Dad(p)].dir /\ ~NewListing(p).deleted
  BY <1>2, <1>3, UnlinkDoes
<1>5. Steady(Append(Marked(p), NewListing(p)))
  BY <1>2, <1>4, AppendVersion
<1>6. log' = IF UnlinkFits(p) THEN Append(Marked(p), NewListing(p)) ELSE Marked(p)
  BY UnlinkDoes
<1>7. QED
  BY <1>2, <1>5, <1>6

-----------------------------------------------------------------------------
LEMMA MkfsSteady ==
  ASSUME Mkfs
  PROVE  /\ log = << Newborn(0, TRUE) >> /\ Newborn(0, TRUE) \in LogEntries
         /\ WInv
<1> DEFINE e == Newborn(0, TRUE)
<1>1. log = << e >> /\ inst \in Instances /\ calls = 0 /\ fscks = 0
  BY DEF Mkfs, Entry, Newborn
<1>2. /\ e \in LogEntries /\ e.ino = 0 /\ e.deleted = FALSE /\ e.dir = TRUE
      /\ EntrySize(e) = ENTRY
  BY NewbornIs
<1> HIDE DEF e
<1>3. log \in Seq(LogEntries) /\ DOMAIN log = {1} /\ log[1] = e
  BY <1>1, <1>2
<1>4. Steady(log)
  BY <1>2, <1>3 DEF Steady
<1>5. LogHead(log) = SB + ENTRY
  <2>1. << >> \in Seq(LogEntries) /\ log = Append(<< >>, e)
    BY <1>1, <1>2
  <2>2. QED
    BY <2>1, <1>2, LogHeadAppend, LogHeadEmpty
<1>6. LogHead(log) <= DiskSize /\ inst.calls \in Nat /\ inst.fscks \in Nat
  BY <1>1, <1>5, InstanceIs DEF SB, ENTRY
<1>7. WfsTypeOK
  BY <1>1, <1>3, <1>6 DEF WfsTypeOK
<1>8. QED
  BY <1>1, <1>2, <1>4, <1>7 DEF WInv, e

LEMMA WInvStep ==
  ASSUME WInv, [WfsNext]_wfsvars
  PROVE  WInv'
<1>0. /\ WfsTypeOK /\ inst \in Instances /\ Steady(log)
      /\ inst.calls \in Nat /\ inst.fscks \in Nat
      /\ calls \in 0 .. inst.calls /\ fscks \in 0 .. inst.fscks
  BY InstanceIs DEF WInv, WfsTypeOK
<1>1. ASSUME Steady(log'), LogHead(log') <= DiskSize, UNCHANGED inst,
             calls' \in 0 .. inst.calls, fscks' \in 0 .. inst.fscks
      PROVE  WInv'
  <2>1. log' \in Seq(LogEntries)
    BY <1>1 DEF Steady
  <2>2. QED
    BY <2>1, <1>0, <1>1 DEF WInv, WfsTypeOK, DiskSize
<1>2. ASSUME NEW p \in Paths, NEW dir \in BOOLEAN, Make(p, dir) PROVE WInv'
  <2>1. /\ LogHead(log') <= DiskSize /\ calls' = calls + 1 /\ calls < inst.calls
        /\ UNCHANGED <<inst, fscks>>
    BY <1>2, MakeDoes
  <2>2. Steady(log')
    BY <1>2, MakeSteady
  <2>3. calls' \in 0 .. inst.calls /\ fscks' \in 0 .. inst.fscks
    BY <1>0, <2>1
  <2>4. QED
    BY <2>1, <2>2, <2>3, <1>1
<1>3. ASSUME NEW p \in Paths, NEW o \in Offsets, NEW v \in Bytes, Write(p, o, v) PROVE WInv'
  <2>1. /\ LogHead(log') <= DiskSize /\ calls' = calls + 1 /\ calls < inst.calls
        /\ UNCHANGED <<inst, fscks>>
    BY <1>3, WriteDoes
  <2>2. Steady(log')
    BY <1>3, WriteSteady
  <2>3. calls' \in 0 .. inst.calls /\ fscks' \in 0 .. inst.fscks
    BY <1>0, <2>1
  <2>4. QED
    BY <2>1, <2>2, <2>3, <1>1
<1>4. ASSUME NEW p \in Paths, Unlink(p) PROVE WInv'
  <2>1. /\ LogHead(log') <= DiskSize /\ calls' = calls + 1 /\ calls < inst.calls
        /\ UNCHANGED <<inst, fscks>>
    BY <1>4, UnlinkDoes
  <2>2. Steady(log')
    BY <1>4, UnlinkSteady
  <2>3. calls' \in 0 .. inst.calls /\ fscks' \in 0 .. inst.fscks
    BY <1>0, <2>1
  <2>4. QED
    BY <2>1, <2>2, <2>3, <1>1
<1>5. ASSUME Fsck PROVE WInv'
  <2>1. /\ log' = Compacted(log) /\ fscks' = fscks + 1 /\ fscks < inst.fscks
        /\ UNCHANGED <<inst, calls>>
    BY <1>5 DEF Fsck
  <2>2. Steady(log') /\ LogHead(log') <= LogHead(log)
    BY <1>0, <2>1, CompactedSteady
  <2>3. calls' \in 0 .. inst.calls /\ fscks' \in 0 .. inst.fscks
    BY <1>0, <2>1
  <2>4. LogHead(log') <= DiskSize
    <3>1. LogHead(log') \in Nat /\ LogHead(log) \in Nat /\ DiskSize \in Nat
      <4>1. log' \in Seq(LogEntries) /\ log \in Seq(LogEntries)
        BY <1>0, <2>2 DEF Steady
      <4>2. QED
        BY <4>1, <1>0, LogHeadNat, InstanceIs
    <3>2. QED
      BY <3>1, <2>2, <1>0 DEF WfsTypeOK
  <2>5. QED
    BY <2>1, <2>2, <2>3, <2>4, <1>1
<1>6. CASE UNCHANGED wfsvars
  BY <1>6 DEF wfsvars, WInv, WfsTypeOK, DiskSize
<1>7. QED
  BY <1>2, <1>3, <1>4, <1>5, <1>6 DEF WfsNext

(* The log is made of whole entries and sb->head never passes the end of   *)
(* the disk: wfs_mknod, wfs_mkdir, wfs_write and wfs_unlink test for space *)
(* before each entry that they append, and fsck.wfs writes no more than    *)
(* was there.                                                              *)
THEOREM WholeLog == WfsSpec => []WfsTypeOK
<1>1. Mkfs => WInv
  BY MkfsSteady
<1>2. WInv /\ [WfsNext]_wfsvars => WInv'
  BY WInvStep
<1>3. WInv => WfsTypeOK
  BY DEF WInv
<1>4. QED
  BY <1>1, <1>2, <1>3, PTL DEF WfsSpec

-----------------------------------------------------------------------------
(***************************************************************************)
(* Wfs: one path for each inode.                                           *)
(***************************************************************************)

(* No name is used twice in the tree: the scan of find_log_entry_by_path   *)
(* does not stay in the directory it has come to.                          *)
NamesApart ==
  \A p, q \in Paths \ {<< >>} : Filename(p) = Filename(q) => p = q

Found(l, k) == find_latest_log_entry(l, k) # 0
Cur(l, k) == l[find_latest_log_entry(l, k)]

LEMMA CurIs ==
  ASSUME NEW l, Steady(l), NEW k, Found(l, k)
  PROVE  /\ find_latest_log_entry(l, k) \in DOMAIN l
         /\ Cur(l, k) \in LogEntries /\ Cur(l, k).ino = k /\ ~Cur(l, k).deleted
         /\ k \in Nat
         /\ Cur(l, k).dir => Cur(l, k).data \in Seq(Dentries)
<1>1. l \in Seq(LogEntries) /\ \A i \in DOMAIN l : l[i] \in LogEntries
  BY SteadyIs
<1>2. /\ find_latest_log_entry(l, k) \in DOMAIN l
      /\ Cur(l, k).ino = k /\ ~Cur(l, k).deleted
  BY <1>1, LatestIsLatest DEF Found, Cur, IsLatest
<1>3. Cur(l, k) \in LogEntries
  BY <1>1, <1>2 DEF Cur
<1>4. QED
  BY <1>2, <1>3, EntryIs

(* Entry i holds the dentry [name |-> n, ino |-> k]. *)
Holds(l, i, n, k) ==
  \E j \in DOMAIN l[i].data : l[i].data[j].name = n /\ l[i].data[j].ino = k

(* The latest version of directory d lists inode k. *)
Lists(l, d, k) ==
  /\ Found(l, d) /\ Cur(l, d).dir
  /\ \E j \in DOMAIN Cur(l, d).data : Cur(l, d).data[j].ino = k

(* P[k] is the path of inode k, for the inodes that are found. *)
PathsApart(l, P) ==
  \A j, k \in Nat : Found(l, j) /\ Found(l, k) /\ P[j] = P[k] => j = k

NamedRight(l, P, d, dentry) ==
  /\ dentry.ino # 0
  /\ Found(l, dentry.ino) =>
       /\ P[dentry.ino] # << >>
       /\ Filename(P[dentry.ino]) = dentry.name
       /\ Parent(P[dentry.ino]) = P[d]

Named(l, P) ==
  \A i \in DOMAIN l : l[i].dir =>
    \A j \in DOMAIN l[i].data : NamedRight(l, P, l[i].ino, l[i].data[j])

Listed(l) ==
  \A k \in Nat \ {0} : Found(l, k) => \E d \in Nat : Lists(l, d, k)

ListedOnce(l) ==
  \A d \in Nat : Found(l, d) /\ Cur(l, d).dir =>
    \A i, j \in DOMAIN Cur(l, d).data :
      Cur(l, d).data[i].ino = Cur(l, d).data[j].ino => i = j

Placed(l, P) ==
  /\ P \in [Nat -> Paths] /\ P[0] = << >>
  /\ PathsApart(l, P)
  /\ Named(l, P)
  /\ Listed(l)
  /\ ListedOnce(l)

(* A directory lists an inode that is found as the child it is. *)
LEMMA ListsIs ==
  ASSUME NEW l, Steady(l), NEW P, Placed(l, P), NEW d \in Nat, NEW k \in Nat, Found(l, k), Lists(l, d, k)
  PROVE  /\ P[k] \in Paths \ {<< >>} /\ Parent(P[k]) = P[d]
         /\ Holds(l, find_latest_log_entry(l, d), Filename(P[k]), k)
<1>1. PICK j \in DOMAIN Cur(l, d).data : Cur(l, d).data[j].ino = k
  BY DEF Lists
<1>2. Found(l, d) /\ Cur(l, d).dir
  BY DEF Lists
<1>3. find_latest_log_entry(l, d) \in DOMAIN l /\ Cur(l, d).ino = d
  BY <1>2, CurIs
<1>4. NamedRight(l, P, d, Cur(l, d).data[j])
  BY <1>1, <1>2, <1>3 DEF Placed, Named, Cur
<1>5. /\ P[k] # << >> /\ Filename(P[k]) = Cur(l, d).data[j].name /\ Parent(P[k]) = P[d]
  BY <1>1, <1>4 DEF NamedRight
<1>6. P[k] \in Paths
  BY DEF Placed
<1>7. QED
  BY <1>1, <1>5, <1>6 DEF Holds, Cur

LEMMA MatchPlaced ==
  ASSUME NEW l, Steady(l), NEW P, Placed(l, P), NEW i \in DOMAIN l, NEW name, Match(l, i, name) # 0
  PROVE  \E k \in Nat : /\ Found(l, k) /\ P[k] \in Paths \ {<< >>} /\ Filename(P[k]) = name
                        /\ Parent(P[k]) = P[l[i].ino]
                        /\ Match(l, i, name) = find_latest_log_entry(l, k)
<1>1. l \in Seq(LogEntries)
  BY SteadyIs
<1>2. l[i].dir
      /\ \E j \in DOMAIN l[i].data :
              /\ l[i].data[j].name = name
              /\ find_latest_log_entry(l, l[i].data[j].ino) # 0
              /\ Match(l, i, name) = find_latest_log_entry(l, l[i].data[j].ino)
  BY <1>1, MatchIs
<1>3. PICK j \in DOMAIN l[i].data :
              /\ l[i].data[j].name = name
              /\ Found(l, l[i].data[j].ino)
              /\ Match(l, i, name) = find_latest_log_entry(l, l[i].data[j].ino)
  BY <1>2 DEF Found
<1> DEFINE k == l[i].data[j].ino
<1>4. NamedRight(l, P, l[i].ino, l[i].data[j])
  BY <1>2 DEF Placed, Named
<1>5. P[k] # << >> /\ Filename(P[k]) = name /\ Parent(P[k]) = P[l[i].ino]
  BY <1>3, <1>4 DEF NamedRight
<1>6. k \in Nat
  BY <1>3, CurIs
<1>7. P[k] \in Paths
  BY <1>6 DEF Placed
<1>8. QED
  BY <1>3, <1>5, <1>6, <1>7

(* A lookup in a directory finds the inodes it lists. *)
LEMMA MatchListed ==
  ASSUME NamesApart, NEW l, Steady(l), NEW P, Placed(l, P),
         NEW d \in Nat, NEW k \in Nat, Found(l, k), Lists(l, d, k)
  PROVE  Match(l, find_latest_log_entry(l, d), Filename(P[k])) # 0
<1>1. l \in Seq(LogEntries)
  BY SteadyIs
<1>2. Holds(l, find_latest_log_entry(l, d), Filename(P[k]), k)
  BY ListsIs
<1>3. find_latest_log_entry(l, d) \in DOMAIN l /\ l[find_latest_log_entry(l, d)].dir
  BY CurIs DEF Lists, Cur
<1>4. PICK j \in DOMAIN l[find_latest_log_entry(l, d)].data :
         /\ l[find_latest_log_entry(l, d)].data[j].name = Filename(P[k])
         /\ l[find_latest_log_entry(l, d)].data[j].ino = k
  BY <1>2 DEF Holds
<1> DEFINE i == find_latest_log_entry(l, d)
<1> HIDE DEF i
<1>5. i \in DOMAIN l /\ l[i].dir /\ j \in DOMAIN l[i].data
      /\ l[i].data[j].name = Filename(P[k]) /\ l[i].data[j].ino = k
  BY <1>3, <1>4 DEF i
<1>6. find_latest_log_entry(l, l[i].data[j].ino) # 0
  BY <1>5 DEF Found
<1>7. Match(l, i, l[i].data[j].name) # 0
  BY <1>1, <1>5, <1>6, MatchSome
<1>8. QED
  BY <1>5, <1>7 DEF i

-----------------------------------------------------------------------------
(* x is where path q leads: the latest entry of its inode, or NULL. *)
Live(l, P, q, k) == k \in Nat /\ Found(l, k) /\ P[k] = q

LeadsTo(l, P, q, x) ==
  \/ x = 0 /\ ~\E k : Live(l, P, q, k)
  \/ \E k : Live(l, P, q, k) /\ x = find_latest_log_entry(l, k)

(* A path that leads somewhere has a parent that lists it. *)
LEMMA LiveParent ==
  ASSUME NEW l, Steady(l), NEW P, Placed(l, P), NEW q, q # << >>, NEW k, Live(l, P, q, k)
  PROVE  \E d \in Nat : Lists(l, d, k) /\ Live(l, P, Parent(q), d)
<1>1. k \in Nat \ {0} /\ Found(l, k) /\ P[k] = q
  BY DEF Live, Placed
<1>2. PICK d \in Nat : Lists(l, d, k)
  BY <1>1 DEF Placed, Listed
<1>3. Parent(P[k]) = P[d] /\ Found(l, d)
  BY <1>1, <1>2, ListsIs DEF Lists
<1>4. QED
  BY <1>1, <1>2, <1>3 DEF Live

LEMMA LiveOnce ==
  ASSUME NEW l, NEW P, Placed(l, P), NEW q, NEW j, NEW k, Live(l, P, q, j), Live(l, P, q, k)
  PROVE  j = k
  BY DEF Live, Placed, PathsApart

(* Any match of a path's last name is the path's inode. *)
LEMMA MatchLeads ==
  ASSUME NamesApart, NEW l, Steady(l), NEW P, Placed(l, P), NEW q \in Paths \ {<< >>},
         NEW i \in DOMAIN l, Match(l, i, Filename(q)) # 0
  PROVE  LeadsTo(l, P, q, Match(l, i, Filename(q)))
<1>1. PICK k \in Nat : /\ Found(l, k) /\ P[k] \in Paths \ {<< >>}
                       /\ Filename(P[k]) = Filename(q)
                       /\ Match(l, i, Filename(q)) = find_latest_log_entry(l, k)
  BY MatchPlaced
<1>2. P[k] = q
  BY <1>1 DEF NamesApart
<1>3. QED
  BY <1>1, <1>2 DEF LeadsTo, Live

(* One step of WalkFromRoot, and one of find_log_entry_by_path. *)
LEMMA WalkStep ==
  ASSUME NamesApart, NEW l, Steady(l), NEW P, Placed(l, P), NEW q \in Paths \ {<< >>},
         NEW x, LeadsTo(l, P, Parent(q), x)
  PROVE  LeadsTo(l, P, q, IF x = 0 THEN 0 ELSE Match(l, x, Filename(q)))
<1>0. DOMAIN l = 1 .. Len(l) /\ Len(l) \in Nat
  BY SteadyIs
<1>1. CASE x = 0
  <2>1. ~\E d : Live(l, P, Parent(q), d)
    <3> SUFFICES ASSUME NEW d, Live(l, P, Parent(q), d) PROVE FALSE
      OBVIOUS
    <3>1. PICK e : Live(l, P, Parent(q), e) /\ x = find_latest_log_entry(l, e)
      BY DEF LeadsTo
    <3>2. QED
      BY <1>1, <3>1 DEF Live, Found
  <2>2. ~\E k : Live(l, P, q, k)
    BY <2>1, LiveParent
  <2>3. QED
    BY <1>1, <2>2 DEF LeadsTo
<1>2. CASE x # 0
  <2>1. PICK d : Live(l, P, Parent(q), d) /\ x = find_latest_log_entry(l, d)
    BY <1>2 DEF LeadsTo
  <2>2. x \in DOMAIN l
    BY <2>1, CurIs DEF Live
  <2>3. CASE Match(l, x, Filename(q)) # 0
    BY <1>2, <2>2, <2>3, MatchLeads
  <2>4. CASE Match(l, x, Filename(q)) = 0
    <3>1. ~\E k : Live(l, P, q, k)
      <4> SUFFICES ASSUME NEW k, Live(l, P, q, k) PROVE FALSE
        OBVIOUS
      <4>1. PICK e \in Nat : Lists(l, e, k) /\ Live(l, P, Parent(q), e)
        BY LiveParent
      <4>2. e = d
        BY <2>1, <4>1, LiveOnce
      <4>3. k \in Nat /\ Found(l, k) /\ P[k] = q
        BY DEF Live
      <4>4. Match(l, find_latest_log_entry(l, e), Filename(P[k])) # 0
        BY <4>1, <4>3, MatchListed
      <4>5. QED
        BY <2>1, <2>4, <4>2, <4>3, <4>4
    <3>2. QED
      BY <1>2, <2>4, <3>1 DEF LeadsTo
  <2>5. QED
    BY <2>3, <2>4
<1>3. QED
  BY <1>1, <1>2

LEMMA LookupStep ==
  ASSUME NamesApart, NEW l, Steady(l), NEW P, Placed(l, P), NEW q \in Paths \ {<< >>},
         NEW x, LeadsTo(l, P, Parent(q), x) \/ (Parent(q) = << >> /\ x = 1)
  PROVE  LeadsTo(l, P, q, IF x = 0 THEN 0 ELSE Scan(l, x, Filename(q)))
<1>0. DOMAIN l = 1 .. Len(l) /\ Len(l) \in Nat /\ 1 \in DOMAIN l /\ l \in Seq(LogEntries)
  BY SteadyIs DEF Steady
<1>1. CASE x = 0
  BY <1>1, WalkStep
<1>2. CASE x # 0
  <2>1. x \in 1 .. Len(l)
    <3>1. CASE x = 1
      BY <3>1, <1>0
    <3>2. CASE x # 1
      <4>1. PICK d : Live(l, P, Parent(q), d) /\ x = find_latest_log_entry(l, d)
        BY <1>2, <3>2 DEF LeadsTo
      <4>2. QED
        BY <4>1, <1>0, CurIs DEF Live
    <3>3. QED
      BY <3>1, <3>2
  <2>2. CASE Scan(l, x, Filename(q)) # 0
    <3>1. PICK j \in x .. Len(l) : /\ Match(l, j, Filename(q)) # 0
                                   /\ Scan(l, x, Filename(q)) = Match(l, j, Filename(q))
      BY <1>0, <2>1, <2>2, ScanIs
    <3>2. j \in DOMAIN l
      BY <1>0, <2>1
    <3>3. LeadsTo(l, P, q, Match(l, j, Filename(q)))
      BY <3>1, <3>2, MatchLeads
    <3>4. QED
      BY <1>2, <3>1, <3>3
  <2>3. CASE Scan(l, x, Filename(q)) = 0
    <3>1. \A j \in x .. Len(l) : Match(l, j, Filename(q)) = 0
      BY <1>0, <2>1, <2>3, ScanIs
    <3>2. ~\E k : Live(l, P, q, k)
      <4> SUFFICES ASSUME NEW k, Live(l, P, q, k) PROVE FALSE
        OBVIOUS
      <4>1. PICK e \in Nat : Lists(l, e, k) /\ Live(l, P, Parent(q), e)
        BY LiveParent
      <4>2. k \in Nat /\ Found(l, k) /\ P[k] = q
        BY DEF Live
      <4>3. Match(l, find_latest_log_entry(l, e), Filename(q)) # 0
        BY <4>1, <4>2, MatchListed
      <4>4. find_latest_log_entry(l, e) \in 1 .. Len(l)
        BY <1>0, <4>1, CurIs DEF Live
      <4>5. x <= find_latest_log_entry(l, e)
        <5>1. CASE x = 1
          BY <5>1, <4>4
        <5>2. CASE x # 1
          <6>1. PICK d : Live(l, P, Parent(q), d) /\ x = find_latest_log_entry(l, d)
            BY <1>2, <5>2 DEF LeadsTo
          <6>2. d = e
            BY <4>1, <6>1, LiveOnce
          <6>3. QED
            BY <6>1, <6>2, <4>4
        <5>3. QED
          BY <5>1, <5>2
      <4>6. find_latest_log_entry(l, e) \in x .. Len(l)
        BY <4>4, <4>5, <2>1
      <4>7. QED
        BY <3>1, <4>3, <4>6
    <3>3. QED
      BY <1>2, <2>3, <3>2 DEF LeadsTo
  <2>4. QED
    BY <2>2, <2>3
<1>3. QED
  BY <1>1, <1>2

-----------------------------------------------------------------------------
(* The prefixes of a path. *)
Prefix(p, n) == SubSeq(p, 1, n)

LEMMA PrefixIs ==
  ASSUME NEW p \in Paths, NEW n \in 1 .. Len(p)
  PROVE  /\ Prefix(p, n) # << >> /\ Filename(Prefix(p, n)) = p[n]
         /\ Parent(Prefix(p, n)) = Prefix(p, n - 1)
<1>1. p \in Seq(Names) /\ Len(p) \in Nat
  BY PathsAre DEF PathIs
<1>2. /\ Prefix(p, n) \in Seq(Names) /\ Len(Prefix(p, n)) = n
      /\ \A i \in 1 .. n : Prefix(p, n)[i] = p[i]
  BY <1>1 DEF Prefix
<1>3. Prefix(p, n) # << >> /\ Filename(Prefix(p, n)) = p[n]
  BY <1>2 DEF Filename
<1> DEFINE a == Prefix(p, n)
           b == Prefix(p, n - 1)
<1>4. b \in Seq(Names) /\ Len(b) = n - 1 /\ \A i \in 1 .. n - 1 : b[i] = p[i]
  BY <1>1 DEF Prefix
<1>5. Parent(a) = SubSeq(a, 1, n - 1)
  BY <1>2 DEF Parent
<1> HIDE DEF a, b
<1>6. a \in Seq(Names) /\ Len(a) = n /\ \A i \in 1 .. n : a[i] = p[i]
  BY <1>2 DEF a
<1>7. /\ SubSeq(a, 1, n - 1) \in Seq(Names) /\ Len(SubSeq(a, 1, n - 1)) = n - 1
      /\ \A i \in 1 .. n - 1 : SubSeq(a, 1, n - 1)[i] = a[i]
  BY <1>6
<1>8. SubSeq(a, 1, n - 1) = b
  <2>1. \A i \in 1 .. n - 1 : SubSeq(a, 1, n - 1)[i] = b[i]
    BY <1>4, <1>6, <1>7
  <2>2. QED
    BY <2>1, <1>4, <1>7, SeqEqual
<1>9. QED
  BY <1>3, <1>5, <1>8 DEF a, b

LEMMA PrefixEnds ==
  ASSUME NEW p \in Paths
  PROVE  Prefix(p, Len(p)) = p /\ Prefix(p, 0) = << >>
<1>1. p \in Seq(Names) /\ Len(p) \in Nat
  BY PathsAre DEF PathIs
<1>2. QED
  BY <1>1 DEF Prefix

(* Prefixes of a path are paths: a last one that is not has a longer one   *)
(* that is and has it for its parent.                                      *)
LEMMA PrefixIn ==
  ASSUME NEW p \in Paths, NEW n \in 0 .. Len(p)
  PROVE  Prefix(p, n) \in Paths
<1>0. Len(p) \in Nat
  BY PathsAre DEF PathIs
<1> DEFINE N == Len(p)
           Bad == {m \in 0 .. N : Prefix(p, m) \notin Paths}
<1>1. SUFFICES ASSUME Bad # {} PROVE FALSE
  OBVIOUS
<1>2. PICK m \in Bad : \A k \in Bad : k <= m
  <2> HIDE DEF N
  <2>1. Bad \in SUBSET (0 .. N) /\ N \in Nat
    BY <1>0 DEF N
  <2> HIDE DEF Bad
  <2>2. QED
    BY <1>1, <2>1, GreatestNumber
<1>3. m # N
  BY <1>2, PrefixEnds
<1>4. m + 1 \in 1 .. N /\ m + 1 \in 0 .. N /\ m + 1 \notin Bad
  BY <1>0, <1>2, <1>3
<1>5. Prefix(p, m + 1) \in Paths /\ Prefix(p, m + 1) # << >>
      /\ Parent(Prefix(p, m + 1)) = Prefix(p, m + 1 - 1)
  BY <1>4, PrefixIs
<1>6. Parent(Prefix(p, m + 1)) \in Paths
  BY <1>5, ParentIn
<1>7. m + 1 - 1 = m
  BY <1>0, <1>2
<1>8. QED
  BY <1>2, <1>5, <1>6, <1>7

LEMMA RootLive ==
  ASSUME NEW l, Steady(l), NEW P, Placed(l, P)
  PROVE  Live(l, P, << >>, 0) /\ l[1].ino = 0
<1>1. 1 \in DOMAIN l /\ l[1].ino = 0 /\ ~l[1].deleted
  BY DEF Steady
<1>2. Found(l, 0)
  BY <1>1, SteadyIs, LiveFound DEF Found
<1>3. QED
  BY <1>1, <1>2 DEF Live, Placed

LEMMA LookupLeads ==
  ASSUME NamesApart, NEW l, Steady(l), NEW P, Placed(l, P), NEW p \in Paths
  PROVE  LeadsTo(l, P, p, find_log_entry_by_path(l, p))
<1>0. l \in Seq(LogEntries) /\ l # << >> /\ Len(p) \in Nat
  BY SteadyIs, PathsAre DEF PathIs
<1>1. CASE p = << >>
  <2>1. find_log_entry_by_path(l, p) = find_latest_log_entry(l, 0)
    BY <1>1, RootLive DEF find_log_entry_by_path
  <2>2. QED
    BY <1>1, <2>1, RootLive DEF LeadsTo
<1>2. CASE p # << >>
  <2>1. PICK at : LookupAt(l, p, at) /\ find_log_entry_by_path(l, p) = at[Len(p)]
    BY <1>0, <1>2, LookupRuns
  <2> DEFINE N == Len(p)
             Bad == {n \in 1 .. N : ~LeadsTo(l, P, Prefix(p, n), at[n])}
  <2>2. Bad = {}
    <3>1. SUFFICES ASSUME Bad # {} PROVE FALSE
      OBVIOUS
    <3>2. PICK m \in Bad : \A n \in Bad : m <= n
      <4>1. Bad \in SUBSET Nat
        BY <1>0
      <4> HIDE DEF Bad
      <4>2. QED
        BY <3>1, <4>1, LeastNumber
    <3>3. m \in 1 .. N /\ m \in 0 .. N /\ m - 1 \in 0 .. N
      BY <1>0, <3>2
    <3>4. at[m] = IF at[m - 1] = 0 THEN 0 ELSE Scan(l, at[m - 1], p[m])
      BY <2>1, <3>3 DEF LookupAt
    <3>5. /\ Prefix(p, m) \in Paths \ {<< >>} /\ Filename(Prefix(p, m)) = p[m]
          /\ Parent(Prefix(p, m)) = Prefix(p, m - 1)
      BY <3>3, PrefixIs, PrefixIn
    <3>6. \/ LeadsTo(l, P, Parent(Prefix(p, m)), at[m - 1])
          \/ Parent(Prefix(p, m)) = << >> /\ at[m - 1] = 1
      <4>1. CASE m = 1
        <5>1. at[m - 1] = 1
          BY <2>1, <4>1 DEF LookupAt
        <5>2. Prefix(p, m - 1) = << >>
          BY <4>1, PrefixEnds
        <5>3. QED
          BY <5>1, <5>2, <3>5
      <4>2. CASE m # 1
        <5>1. m - 1 \in 1 .. N /\ m - 1 \notin Bad
          BY <1>0, <3>2, <4>2
        <5>2. QED
          BY <5>1, <3>5
      <4>3. QED
        BY <4>1, <4>2
    <3>7. LeadsTo(l, P, Prefix(p, m),
             IF at[m - 1] = 0 THEN 0 ELSE Scan(l, at[m - 1], Filename(Prefix(p, m))))
      <4> DEFINE q == Prefix(p, m)
                 x == at[m - 1]
      <4>1. q \in Paths \ {<< >>} /\ (LeadsTo(l, P, Parent(q), x) \/ (Parent(q) = << >> /\ x = 1))
        BY <3>5, <3>6
      <4> HIDE DEF q, x
      <4>2. LeadsTo(l, P, q, IF x = 0 THEN 0 ELSE Scan(l, x, Filename(q)))
        BY <4>1, LookupStep
      <4>3. QED
        BY <4>2 DEF q, x
    <3>8. LeadsTo(l, P, Prefix(p, m), at[m])
      BY <3>4, <3>5, <3>7
    <3>9. QED
      BY <3>2, <3>8
  <2>3. N \in 1 .. N
    <3>1. N # 0
      BY <1>2, PathsAre DEF PathIs
    <3>2. QED
      BY <1>0, <3>1
  <2>4. LeadsTo(l, P, Prefix(p, N), at[N])
    BY <2>2, <2>3
  <2>5. QED
    BY <2>1, <2>4, PrefixEnds
<1>3. QED
  BY <1>1, <1>2

-----------------------------------------------------------------------------
(* at[k]: where the walk through the first k names of the path has come to. *)
WalkAt(l, path, at) ==
  /\ at[0] = find_latest_log_entry(l, 0)
  /\ \A k \in 1 .. Len(path) :
       at[k] = IF at[k - 1] = 0 THEN 0 ELSE Match(l, at[k - 1], path[k])

LEMMA WalkRuns ==
  ASSUME log \in Seq(LogEntries), NEW path \in Paths
  PROVE  \E at : WalkAt(log, path, at) /\ WalkFromRoot(path) = at[Len(path)]
<1>0. Len(log) \in Nat /\ DOMAIN log = 1 .. Len(log) /\ Len(path) \in Nat
      /\ find_latest_log_entry(log, 0) \in 0 .. Len(log)
  BY LogIs, LatestIs, PathsAre DEF PathIs
<1> DEFINE N == Len(path)
           S == 0 .. Len(log)
           a == find_latest_log_entry(log, 0)
           G(k, x) == IF x = 0 THEN 0 ELSE Match(log, x, path[k])
           step == [k \in 1 .. N |-> [x \in S |-> G(k, x)]]
           h == CHOOSE at : at = [k \in 0 .. N |->
                   IF k = 0 THEN find_latest_log_entry(log, 0)
                   ELSE IF at[k - 1] = 0 THEN 0 ELSE Match(log, at[k - 1], path[k])]
<1>1. WalkFromRoot(path) = h[N]
  BY DEF WalkFromRoot
<1>2. ASSUME NEW k \in 1 .. N, NEW x \in S PROVE G(k, x) \in S
  <2>1. CASE x = 0
    BY <2>1, <1>0
  <2>2. CASE x # 0
    <3>1. x \in DOMAIN log
      BY <2>2, <1>0
    <3>2. Match(log, x, path[k]) \in 0 .. Len(log)
      BY <3>1, MatchType
    <3>3. QED
      BY <2>2, <3>2
  <2>3. QED
    BY <2>1, <2>2
<1>a. \A k \in 1 .. N : k - 1 \in 0 .. N /\ k \in 0 .. N /\ k # 0
  BY <1>0
<1>b. N \in Nat /\ a \in S
  BY <1>0
<1> HIDE DEF G, N, S
<1>3. step \in [1 .. N -> [S -> S]]
  BY <1>2
<1>4. PICK f : Rounds(N, S, a, step, f)
  <2> HIDE DEF step, a
  <2>1. QED
    BY <1>b, <1>3, LoopRuns
<1>5. f \in [0 .. N -> S] /\ f[0] = a /\ \A k \in 1 .. N : f[k] = G(k, f[k - 1])
  <2>1. f \in [0 .. N -> S] /\ f[0] = a /\ \A k \in 1 .. N : f[k] = step[k][f[k - 1]]
    <3> HIDE DEF step, a
    <3>1. QED
      BY <1>4 DEF Rounds
  <2>2. \A k \in 1 .. N : f[k - 1] \in S
    BY <1>a, <2>1
  <2>3. QED
    BY <2>1, <2>2
<1>6. f = [k \in 0 .. N |->
             IF k = 0 THEN find_latest_log_entry(log, 0)
             ELSE IF f[k - 1] = 0 THEN 0 ELSE Match(log, f[k - 1], path[k])]
  <2>2. \A k \in 0 .. N : k # 0 => k \in 1 .. N
    BY <1>b
  <2>3. \A k \in 0 .. N : f[k] = IF k = 0 THEN find_latest_log_entry(log, 0)
             ELSE IF f[k - 1] = 0 THEN 0 ELSE Match(log, f[k - 1], path[k])
    BY <1>5, <2>2 DEF G
  <2>4. QED
    BY <1>5, <2>3
<1>7. h = [k \in 0 .. N |->
             IF k = 0 THEN find_latest_log_entry(log, 0)
             ELSE IF h[k - 1] = 0 THEN 0 ELSE Match(log, h[k - 1], path[k])]
  BY <1>6, Zenon
<1> HIDE DEF h
<1>8. h[0] = a /\ \A k \in 1 .. N : h[k] = G(k, h[k - 1])
  BY <1>7, <1>a, <1>b DEF G
<1>9. WalkAt(log, path, h)
  <2>1. \A k \in 1 .. N : h[k] = IF h[k - 1] = 0 THEN 0 ELSE Match(log, h[k - 1], path[k])
    BY <1>8 DEF G
  <2>2. QED
    BY <1>8, <2>1 DEF WalkAt, N
<1>10. QED
  BY <1>1, <1>9 DEF N

LEMMA WalkLeads ==
  ASSUME NamesApart, Steady(log), NEW P, Placed(log, P), NEW p \in Paths
  PROVE  LeadsTo(log, P, p, WalkFromRoot(p))
<1>0. log \in Seq(LogEntries) /\ Len(p) \in Nat
  BY SteadyIs, PathsAre DEF PathIs
<1>1. PICK at : WalkAt(log, p, at) /\ WalkFromRoot(p) = at[Len(p)]
  BY <1>0, WalkRuns
<1> DEFINE N == Len(p)
           Bad == {n \in 0 .. N : ~LeadsTo(log, P, Prefix(p, n), at[n])}
<1>2. Bad = {}
  <2>1. SUFFICES ASSUME Bad # {} PROVE FALSE
    OBVIOUS
  <2>2. PICK m \in Bad : \A n \in Bad : m <= n
    <3>1. Bad \in SUBSET Nat
      BY <1>0
    <3> HIDE DEF Bad
    <3>2. QED
      BY <2>1, <3>1, LeastNumber
  <2>3. m # 0
    <3>1. at[0] = find_latest_log_entry(log, 0) /\ Prefix(p, 0) = << >>
      BY <1>1, PrefixEnds DEF WalkAt
    <3>2. LeadsTo(log, P, << >>, find_latest_log_entry(log, 0))
      BY RootLive DEF LeadsTo
    <3>3. QED
      BY <3>1, <3>2, <2>2
  <2>4. m \in 1 .. N /\ m - 1 \in 0 .. N /\ m - 1 \notin Bad
    BY <1>0, <2>2, <2>3
  <2>5. at[m] = IF at[m - 1] = 0 THEN 0 ELSE Match(log, at[m - 1], p[m])
    BY <1>1, <2>4 DEF WalkAt
  <2>6. /\ Prefix(p, m) \in Paths \ {<< >>} /\ Filename(Prefix(p, m)) = p[m]
        /\ Parent(Prefix(p, m)) = Prefix(p, m - 1)
    <3>1. m \in 0 .. N
      BY <2>2
    <3>2. QED
      BY <2>4, <3>1, PrefixIs, PrefixIn
  <2>7. LeadsTo(log, P, Parent(Prefix(p, m)), at[m - 1])
    BY <2>4, <2>6
  <2>8. LeadsTo(log, P, Prefix(p, m),
           IF at[m - 1] = 0 THEN 0 ELSE Match(log, at[m - 1], Filename(Prefix(p, m))))
    <3> DEFINE q == Prefix(p, m)
               x == at[m - 1]
    <3>1. q \in Paths \ {<< >>} /\ LeadsTo(log, P, Parent(q), x)
      BY <2>6, <2>7
    <3> HIDE DEF q, x
    <3>2. LeadsTo(log, P, q, IF x = 0 THEN 0 ELSE Match(log, x, Filename(q)))
      BY <3>1, WalkStep
    <3>3. QED
      BY <3>2 DEF q, x
  <2>9. LeadsTo(log, P, Prefix(p, m), at[m])
    BY <2>5, <2>6, <2>8
  <2>10. QED
    BY <2>2, <2>9
<1>3. N \in 0 .. N
  BY <1>0
<1>4. LeadsTo(log, P, Prefix(p, N), at[N])
  BY <1>2, <1>3
<1>5. QED
  BY <1>1, <1>4, PrefixEnds

-----------------------------------------------------------------------------
(* Where a path leads, it leads to one place. *)
LEMMA LeadsToOne ==
  ASSUME NEW l, NEW P, Placed(l, P), NEW q, NEW x, LeadsTo(l, P, q, x), NEW y, LeadsTo(l, P, q, y)
  PROVE  x = y
<1>1. CASE \E k : Live(l, P, q, k)
  <2>1. PICK j : Live(l, P, q, j) /\ x = find_latest_log_entry(l, j)
    BY <1>1 DEF LeadsTo
  <2>2. PICK k : Live(l, P, q, k) /\ y = find_latest_log_entry(l, k)
    BY <1>1 DEF LeadsTo
  <2>3. j = k
    BY <2>1, <2>2, LiveOnce
  <2>4. QED
    BY <2>1, <2>2, <2>3
<1>2. CASE ~\E k : Live(l, P, q, k)
  BY <1>2 DEF LeadsTo
<1>3. QED
  BY <1>1, <1>2

LEMMA LookupWalks ==
  ASSUME NamesApart, Steady(log), NEW P, Placed(log, P)
  PROVE  LookupFollowsTree
<1>1. ASSUME NEW p \in Paths PROVE find_log_entry_by_path(log, p) = WalkFromRoot(p)
  BY LookupLeads, WalkLeads, LeadsToOne
<1>2. QED
  BY <1>1 DEF LookupFollowsTree

(* A path exists when it is the path of an inode. *)
LEMMA ExistsIs ==
  ASSUME NamesApart, NEW l, Steady(l), NEW P, Placed(l, P), NEW p \in Paths
  PROVE  /\ Exists(l, p) =>
              \E k : Live(l, P, p, k) /\ find_log_entry_by_path(l, p) = find_latest_log_entry(l, k)
         /\ \A k : Live(l, P, p, k) =>
              Exists(l, p) /\ find_log_entry_by_path(l, p) = find_latest_log_entry(l, k)
<1>1. LeadsTo(l, P, p, find_log_entry_by_path(l, p))
  BY LookupLeads
<1>2. ASSUME NEW k, Live(l, P, p, k)
      PROVE  Exists(l, p) /\ find_log_entry_by_path(l, p) = find_latest_log_entry(l, k)
  <2>1. LeadsTo(l, P, p, find_latest_log_entry(l, k))
    BY <1>2 DEF LeadsTo
  <2>2. find_log_entry_by_path(l, p) = find_latest_log_entry(l, k)
    BY <1>1, <2>1, LeadsToOne
  <2>3. QED
    BY <1>2, <2>2 DEF Exists, Live, Found
<1>3. QED
  BY <1>1, <1>2 DEF LeadsTo, Exists

LEMMA PlacedApart ==
  ASSUME NamesApart, Steady(log), NEW P, Placed(log, P)
  PROVE  NoAliases
<1> SUFFICES ASSUME NEW p \in Paths, NEW q \in Paths, Exists(log, p), Exists(log, q),
                    log[find_log_entry_by_path(log, p)].ino
                      = log[find_log_entry_by_path(log, q)].ino
             PROVE  p = q
  BY DEF NoAliases
<1>1. PICK j : Live(log, P, p, j) /\ find_log_entry_by_path(log, p) = find_latest_log_entry(log, j)
  BY ExistsIs
<1>2. PICK k : Live(log, P, q, k) /\ find_log_entry_by_path(log, q) = find_latest_log_entry(log, k)
  BY ExistsIs
<1>3. Cur(log, j).ino = j /\ Cur(log, k).ino = k
  BY <1>1, <1>2, CurIs DEF Live
<1>4. j = k
  BY <1>1, <1>2, <1>3 DEF Cur
<1>5. QED
  BY <1>1, <1>2, <1>4 DEF Live

-----------------------------------------------------------------------------
(***************************************************************************)
(* Wfs: how appending, deleting and compacting keep the paths.             *)
(***************************************************************************)

(* m is l with another latest entry e of its inode. *)
LEMMA AppendFound ==
  ASSUME NEW l, Steady(l), NEW e \in LogEntries, ~e.deleted, NEW k
  PROVE  /\ Found(Append(l, e), k) <=> (k = e.ino \/ Found(l, k))
         /\ k = e.ino => Cur(Append(l, e), k) = e
         /\ k # e.ino /\ Found(l, k) => Cur(Append(l, e), k) = Cur(l, k)
<1>0. l \in Seq(LogEntries) /\ Len(l) \in Nat
  BY SteadyIs
<1>1. find_latest_log_entry(Append(l, e), k) =
           IF k = e.ino THEN Len(l) + 1 ELSE find_latest_log_entry(l, k)
  BY <1>0, AppendLatest
<1>2. /\ Append(l, e)[Len(l) + 1] = e
      /\ \A i \in DOMAIN l : Append(l, e)[i] = l[i]
  BY <1>0, AppendIs
<1>3. CASE k = e.ino
  <2>1. find_latest_log_entry(Append(l, e), k) = Len(l) + 1 /\ Len(l) + 1 # 0
    BY <1>0, <1>1, <1>3
  <2>2. QED
    BY <1>2, <1>3, <2>1 DEF Found, Cur
<1>4. CASE k # e.ino
  <2>1. find_latest_log_entry(Append(l, e), k) = find_latest_log_entry(l, k)
    BY <1>1, <1>4
  <2>2. ASSUME Found(l, k) PROVE Cur(Append(l, e), k) = Cur(l, k)
    <3>1. find_latest_log_entry(l, k) \in DOMAIN l
      BY <2>2, CurIs
    <3>2. QED
      BY <1>2, <2>1, <3>1 DEF Cur
  <2>3. QED
    BY <1>4, <2>1, <2>2 DEF Found
<1>5. QED
  BY <1>3, <1>4

(* What a new version e of a directory must hold. *)
GoodVersion(l, P, e) ==
  e.dir =>
    /\ \A j \in DOMAIN e.data : NamedRight(l, P, e.ino, e.data[j])
    /\ \A i, j \in DOMAIN e.data : e.data[i].ino = e.data[j].ino => i = j
    /\ \A k : Lists(l, e.ino, k) /\ Found(l, k) => \E j \in DOMAIN e.data : e.data[j].ino = k

LEMMA PlacedVersion ==
  ASSUME NEW l, Steady(l), NEW P, Placed(l, P), NEW i, IsLatest(l, i),
         NEW e \in LogEntries, ~e.deleted, e.ino = l[i].ino, e.dir = l[i].dir,
         GoodVersion(l, P, e)
  PROVE  Placed(Append(l, e), P)
<1> DEFINE m == Append(l, e)
<1>0. l \in Seq(LogEntries)
  BY SteadyIs
<1>1. Found(l, e.ino) /\ Cur(l, e.ino) = l[i] /\ e.ino \in Nat
  <2>1. i \in DOMAIN l /\ find_latest_log_entry(l, l[i].ino) = i
    BY LatestEntry
  <2>2. i # 0
    BY <2>1, SteadyIs
  <2>3. QED
    BY <2>1, <2>2, EntryIs DEF Found, Cur
<1>2. ASSUME NEW k PROVE Found(m, k) <=> Found(l, k)
  BY <1>1, AppendFound
<1>3. ASSUME NEW k, Found(l, k), k # e.ino PROVE Cur(m, k) = Cur(l, k)
  BY <1>3, AppendFound
<1>4. Cur(m, e.ino) = e
  BY AppendFound
<1>5. /\ m[Len(l) + 1] = e
      /\ \A j \in DOMAIN l : m[j] = l[j]
      /\ \A j \in DOMAIN m : j \in DOMAIN l \/ j = Len(l) + 1
  BY <1>0, AppendIs
<1> HIDE DEF m
<1>6. P \in [Nat -> Paths] /\ P[0] = << >>
  BY DEF Placed
<1>7. PathsApart(m, P)
  BY <1>2 DEF Placed, PathsApart
<1>8. ASSUME NEW d, NEW x PROVE NamedRight(m, P, d, x) <=> NamedRight(l, P, d, x)
  BY <1>2 DEF NamedRight
<1>9. Named(m, P)
  <2> SUFFICES ASSUME NEW a \in DOMAIN m, m[a].dir, NEW j \in DOMAIN m[a].data
               PROVE  NamedRight(l, P, m[a].ino, m[a].data[j])
    BY <1>8 DEF Named
  <2>1. CASE a \in DOMAIN l
    BY <2>1, <1>5 DEF Placed, Named
  <2>2. CASE a = Len(l) + 1
    BY <2>2, <1>5 DEF GoodVersion
  <2>3. QED
    BY <2>1, <2>2, <1>5
<1>10. ASSUME NEW d, NEW k, Lists(l, d, k), Found(l, k) PROVE Lists(m, d, k)
  <2>0. Found(l, d) /\ Cur(l, d).dir /\ \E j \in DOMAIN Cur(l, d).data : Cur(l, d).data[j].ino = k
    BY <1>10 DEF Lists
  <2>1. CASE d = e.ino
    <3>1. e.dir
      BY <2>0, <2>1, <1>1
    <3>2. \E j \in DOMAIN e.data : e.data[j].ino = k
      BY <3>1, <2>1, <1>10 DEF GoodVersion
    <3>3. QED
      BY <3>1, <3>2, <2>0, <2>1, <1>2, <1>4 DEF Lists
  <2>2. CASE d # e.ino
    <3>1. Cur(m, d) = Cur(l, d) /\ Found(m, d)
      BY <2>0, <2>2, <1>2, <1>3
    <3>2. QED
      BY <3>1, <2>0 DEF Lists
  <2>3. QED
    BY <2>1, <2>2
<1>11. Listed(m)
  <2> SUFFICES ASSUME NEW k \in Nat \ {0}, Found(m, k) PROVE \E d \in Nat : Lists(m, d, k)
    BY DEF Listed
  <2>1. Found(l, k)
    BY <1>2
  <2>2. PICK d \in Nat : Lists(l, d, k)
    BY <2>1 DEF Placed, Listed
  <2>3. QED
    BY <2>1, <2>2, <1>10
<1>12. ListedOnce(m)
  <2> SUFFICES ASSUME NEW d \in Nat, Found(m, d), Cur(m, d).dir,
                      NEW a \in DOMAIN Cur(m, d).data, NEW b \in DOMAIN Cur(m, d).data,
                      Cur(m, d).data[a].ino = Cur(m, d).data[b].ino
               PROVE  a = b
    BY DEF ListedOnce
  <2>1. CASE d = e.ino
    BY <2>1, <1>4 DEF GoodVersion
  <2>2. CASE d # e.ino
    <3>1. Cur(m, d) = Cur(l, d) /\ Found(l, d)
      BY <2>2, <1>2, <1>3
    <3>2. QED
      BY <3>1 DEF Placed, ListedOnce
  <2>3. QED
    BY <2>1, <2>2
<1>13. Placed(m, P)
  BY <1>6, <1>7, <1>9, <1>11, <1>12 DEF Placed
<1>14. QED
  BY <1>13 DEF m

(* The entry of a new inode K at path p, whose parent lists it already. *)
LEMMA PlacedNew ==
  ASSUME NEW l, Steady(l), NEW P, Placed(l, P), NEW p \in Paths,
         NEW e \in LogEntries, ~e.deleted, e.data = << >>, e.ino \in Nat \ {0},
         \A i \in DOMAIN l : l[i].ino # e.ino,
         ~\E k : Live(l, P, p, k), p # << >>,
         NEW f \in Nat, Lists(l, f, e.ino),
         \A i \in DOMAIN l : l[i].dir =>
           \A j \in DOMAIN l[i].data : l[i].data[j].ino = e.ino =>
             l[i].data[j].name = Filename(p) /\ P[l[i].ino] = Parent(p)
  PROVE  Placed(Append(l, e), [P EXCEPT ![e.ino] = p])
<1> DEFINE m == Append(l, e)
           K == e.ino
           Q == [P EXCEPT ![K] = p]
<1>0. l \in Seq(LogEntries) /\ \A i \in DOMAIN l : l[i] \in LogEntries
  BY SteadyIs
<1>1. P \in [Nat -> Paths] /\ P[0] = << >>
  BY DEF Placed
<1>2. Q \in [Nat -> Paths] /\ Q[0] = << >> /\ Q[K] = p /\ \A k \in Nat : k # K => Q[k] = P[k]
  BY <1>1
<1>3. ~Found(l, K)
  <2> SUFFICES ASSUME Found(l, K) PROVE FALSE
    OBVIOUS
  <2>1. find_latest_log_entry(l, K) \in DOMAIN l /\ l[find_latest_log_entry(l, K)].ino = K
    BY CurIs DEF Cur
  <2>2. QED
    BY <2>1
<1>4. ASSUME NEW k PROVE Found(m, k) <=> (k = K \/ Found(l, k))
  BY AppendFound
<1>5. ASSUME NEW k, Found(l, k) PROVE k # K /\ k \in Nat /\ Cur(m, k) = Cur(l, k)
  <2>1. k # K
    BY <1>3, <1>5
  <2>2. QED
    BY <1>5, <2>1, AppendFound, CurIs
<1>6. Cur(m, K) = e
  BY AppendFound
<1>7. /\ m[Len(l) + 1] = e
      /\ \A j \in DOMAIN l : m[j] = l[j]
      /\ \A j \in DOMAIN m : j \in DOMAIN l \/ j = Len(l) + 1
  BY <1>0, AppendIs
<1>8. DOMAIN e.data = {}
  OBVIOUS
<1>K. K \in Nat \ {0}
  OBVIOUS
<1> HIDE DEF m, Q
<1>9. PathsApart(m, Q)
  <2> SUFFICES ASSUME NEW j \in Nat, NEW k \in Nat, Found(m, j), Found(m, k), Q[j] = Q[k]
               PROVE  j = k
    BY DEF PathsApart
  <2>1. CASE j = K /\ k = K
    BY <2>1
  <2>2. CASE j = K /\ k # K
    <3>1. Found(l, k) /\ P[k] = p
      BY <2>2, <1>2, <1>4
    <3>2. QED
      BY <3>1 DEF Live
  <2>3. CASE j # K /\ k = K
    <3>1. Found(l, j) /\ P[j] = p
      BY <2>3, <1>2, <1>4
    <3>2. QED
      BY <3>1 DEF Live
  <2>4. CASE j # K /\ k # K
    <3>1. Found(l, j) /\ Found(l, k) /\ P[j] = P[k]
      BY <2>4, <1>2, <1>4
    <3>2. QED
      BY <3>1 DEF Placed, PathsApart
  <2>5. QED
    BY <2>1, <2>2, <2>3, <2>4
<1>10. Named(m, Q)
  <2> SUFFICES ASSUME NEW a \in DOMAIN m, m[a].dir, NEW j \in DOMAIN m[a].data
               PROVE  NamedRight(m, Q, m[a].ino, m[a].data[j])
    BY DEF Named
  <2>1. a \in DOMAIN l /\ m[a] = l[a]
    BY <1>7, <1>8
  <2>2. NamedRight(l, P, l[a].ino, l[a].data[j]) /\ l[a].ino \in Nat /\ l[a].ino # K
    BY <2>1, <1>0, EntryIs DEF Placed, Named
  <2> DEFINE d == l[a].ino
             x == l[a].data[j]
  <2>3. Q[d] = P[d]
    BY <2>2, <1>2
  <2>4. CASE x.ino = K
    <3>1. x.name = Filename(p) /\ P[d] = Parent(p)
      BY <2>1, <2>4
    <3> HIDE DEF d, x
    <3>2. NamedRight(m, Q, d, x)
      BY <3>1, <2>3, <2>4, <1>2, <1>K DEF NamedRight
    <3>3. QED
      BY <3>2, <2>1 DEF d, x
  <2>5. CASE x.ino # K
    <3>1. NamedRight(l, P, d, x)
      BY <2>2
    <3> HIDE DEF d, x
    <3>2. Found(m, x.ino) => Found(l, x.ino) /\ x.ino \in Nat
      BY <2>5, <1>4, <1>5
    <3>3. Found(m, x.ino) => Q[x.ino] = P[x.ino]
      BY <3>2, <2>5, <1>2
    <3>4. NamedRight(m, Q, d, x)
      BY <3>1, <3>2, <3>3, <2>3 DEF NamedRight
    <3>5. QED
      BY <3>4, <2>1 DEF d, x
  <2>6. QED
    BY <2>4, <2>5
<1>11. ASSUME NEW d, NEW k, Lists(l, d, k) PROVE Lists(m, d, k)
  <2>1. Found(l, d) /\ Cur(l, d).dir /\ \E j \in DOMAIN Cur(l, d).data : Cur(l, d).data[j].ino = k
    BY <1>11 DEF Lists
  <2>2. Found(m, d) /\ Cur(m, d) = Cur(l, d)
    BY <2>1, <1>4, <1>5
  <2>3. QED
    BY <2>1, <2>2 DEF Lists
<1>12. Listed(m)
  <2> SUFFICES ASSUME NEW k \in Nat \ {0}, Found(m, k) PROVE \E d \in Nat : Lists(m, d, k)
    BY DEF Listed
  <2>1. CASE k = K
    BY <2>1, <1>11
  <2>2. CASE k # K
    <3>1. Found(l, k)
      BY <2>2, <1>4
    <3>2. PICK d \in Nat : Lists(l, d, k)
      BY <3>1 DEF Placed, Listed
    <3>3. QED
      BY <3>2, <1>11
  <2>3. QED
    BY <2>1, <2>2
<1>13. ListedOnce(m)
  <2> SUFFICES ASSUME NEW d \in Nat, Found(m, d), Cur(m, d).dir,
                      NEW a \in DOMAIN Cur(m, d).data, NEW b \in DOMAIN Cur(m, d).data,
                      Cur(m, d).data[a].ino = Cur(m, d).data[b].ino
               PROVE  a = b
    BY DEF ListedOnce
  <2>1. CASE d = K
    BY <2>1, <1>6, <1>8
  <2>2. CASE d # K
    <3>1. Cur(m, d) = Cur(l, d) /\ Found(l, d)
      BY <2>2, <1>4, <1>5
    <3>2. QED
      BY <3>1 DEF Placed, ListedOnce
  <2>3. QED
    BY <2>1, <2>2
<1>14. Placed(m, Q)
  BY <1>2, <1>9, <1>10, <1>12, <1>13 DEF Placed
<1>15. QED
  BY <1>14 DEF m, Q

LEMMA DeleteFound ==
  ASSUME NEW l, Steady(l), NEW ino, NEW k
  PROVE  /\ Found(delete_log_entries(l, ino), k) <=> (k # ino /\ Found(l, k))
         /\ k # ino /\ Found(l, k) => Cur(delete_log_entries(l, ino), k) = Cur(l, k)
<1>0. l \in Seq(LogEntries)
  BY SteadyIs
<1>1. find_latest_log_entry(delete_log_entries(l, ino), k) =
           IF k = ino THEN 0 ELSE find_latest_log_entry(l, k)
  BY <1>0, DeleteLatest
<1>2. ASSUME k # ino, Found(l, k) PROVE Cur(delete_log_entries(l, ino), k) = Cur(l, k)
  <2>1. find_latest_log_entry(l, k) \in DOMAIN l /\ l[find_latest_log_entry(l, k)].ino = k
    BY <1>2, CurIs DEF Cur
  <2>2. delete_log_entries(l, ino)[find_latest_log_entry(l, k)] = l[find_latest_log_entry(l, k)]
    BY <1>0, <1>2, <2>1, DeleteIs
  <2>3. QED
    BY <1>1, <1>2, <2>2 DEF Cur
<1>3. QED
  BY <1>1, <1>2 DEF Found

LEMMA PlacedDelete ==
  ASSUME NEW l, Steady(l), NEW P, Placed(l, P), NEW i \in DOMAIN l, l[i].dir = FALSE
  PROVE  Placed(delete_log_entries(l, l[i].ino), P)
<1> DEFINE ino == l[i].ino
           m == delete_log_entries(l, ino)
<1>0. l \in Seq(LogEntries)
  BY SteadyIs
<1>1. ASSUME NEW k, Found(m, k) PROVE k # ino /\ Found(l, k) /\ Cur(m, k) = Cur(l, k)
  BY <1>1, DeleteFound
<1>2. ASSUME NEW k, Found(l, k), k # ino PROVE Found(m, k) /\ Cur(m, k) = Cur(l, k)
  BY <1>2, DeleteFound
<1>3. ASSUME NEW d, Found(l, d), Cur(l, d).dir PROVE d # ino
  <2>1. find_latest_log_entry(l, d) \in DOMAIN l /\ l[find_latest_log_entry(l, d)].ino = d
    BY <1>3, CurIs DEF Cur
  <2>2. QED
    BY <1>3, <2>1 DEF Steady, Cur
<1>4. /\ DOMAIN m = DOMAIN l
      /\ \A j \in DOMAIN l : l[j].ino # ino => m[j] = l[j]
  BY <1>0, DeleteIs
<1>5. \A j \in DOMAIN l : l[j].ino = ino => MarkedAt(m, l, j)
  BY <1>0, DeleteMarks
<1> HIDE DEF m, ino
<1>6. \A j \in DOMAIN l : m[j].ino = l[j].ino /\ m[j].dir = l[j].dir /\ m[j].data = l[j].data
  BY <1>4, <1>5 DEF MarkedAt
<1>7. PathsApart(m, P)
  BY <1>1 DEF Placed, PathsApart
<1>8. Named(m, P)
  <2> SUFFICES ASSUME NEW a \in DOMAIN m, m[a].dir, NEW j \in DOMAIN m[a].data
               PROVE  NamedRight(m, P, m[a].ino, m[a].data[j])
    BY DEF Named
  <2>1. NamedRight(l, P, m[a].ino, m[a].data[j])
    BY <1>4, <1>6 DEF Placed, Named
  <2>2. QED
    BY <2>1, <1>1 DEF NamedRight
<1>9. Listed(m)
  <2> SUFFICES ASSUME NEW k \in Nat \ {0}, Found(m, k) PROVE \E d \in Nat : Lists(m, d, k)
    BY DEF Listed
  <2>1. PICK d \in Nat : Lists(l, d, k)
    BY <1>1 DEF Placed, Listed
  <2>2. Found(l, d) /\ Cur(l, d).dir
    BY <2>1 DEF Lists
  <2>3. Found(m, d) /\ Cur(m, d) = Cur(l, d)
    BY <2>2, <1>2, <1>3
  <2>4. QED
    BY <2>1, <2>3 DEF Lists
<1>10. ListedOnce(m)
  BY <1>1 DEF Placed, ListedOnce
<1>11. Placed(m, P)
  BY <1>7, <1>8, <1>9, <1>10 DEF Placed
<1>12. QED
  BY <1>11 DEF m, ino

LEMMA CompactedFound ==
  ASSUME NEW l, Steady(l), NEW k
  PROVE  /\ Found(Compacted(l), k) <=> Found(l, k)
         /\ Found(l, k) => Cur(Compacted(l), k) = Cur(l, k)
<1> DEFINE c == Compacted(l)
           N == find_max_inode_number(l)
<1>0. l \in Seq(LogEntries) /\ l # << >>
  BY SteadyIs
<1>1. Compact(l, N + 1, c) /\ Steady(c)
  BY <1>0, CompactedIs, CompactedSteady
<1>2. N \in Nat /\ \A i \in DOMAIN l : l[i].ino <= N
  BY <1>0, MaxInodeIs
<1> HIDE DEF c, N
<1>3. /\ \A i \in DOMAIN c : Found(l, c[i].ino) /\ c[i] = Cur(l, c[i].ino)
      /\ \A j \in 0 .. N : Found(l, j) => \E i \in DOMAIN c : c[i].ino = j
  BY <1>1, <1>2 DEF Compact, Found, Cur
<1>4. ASSUME Found(c, k) PROVE Found(l, k) /\ Cur(c, k) = Cur(l, k)
  <2>1. find_latest_log_entry(c, k) \in DOMAIN c /\ c[find_latest_log_entry(c, k)].ino = k
    BY <1>1, <1>4, CurIs DEF Cur
  <2>2. QED
    BY <1>3, <2>1 DEF Cur
<1>5. ASSUME Found(l, k) PROVE Found(c, k)
  <2>1. k \in Nat /\ find_latest_log_entry(l, k) \in DOMAIN l
        /\ l[find_latest_log_entry(l, k)].ino = k /\ ~Cur(l, k).deleted
    BY <1>5, CurIs DEF Cur
  <2>2. k \in 0 .. N
    BY <1>2, <2>1
  <2>3. PICK i \in DOMAIN c : c[i].ino = k
    BY <1>3, <1>5, <2>2
  <2>4. ~c[i].deleted /\ c \in Seq(LogEntries)
    BY <1>1, <1>3, <2>1, <2>3, SteadyIs
  <2>5. QED
    BY <2>3, <2>4, LiveFound DEF Found
<1>6. QED
  BY <1>4, <1>5 DEF c

LEMMA CompactedEntries ==
  ASSUME NEW l, Steady(l), NEW i \in DOMAIN Compacted(l)
  PROVE  Found(l, Compacted(l)[i].ino) /\ Compacted(l)[i] = Cur(l, Compacted(l)[i].ino)
<1>1. l \in Seq(LogEntries) /\ l # << >>
  BY SteadyIs
<1>2. Compact(l, find_max_inode_number(l) + 1, Compacted(l))
  BY <1>1, CompactedIs
<1>3. QED
  BY <1>2 DEF Compact, Found, Cur

LEMMA PlacedCompacted ==
  ASSUME NEW l, Steady(l), NEW P, Placed(l, P)
  PROVE  Placed(Compacted(l), P)
<1> DEFINE c == Compacted(l)
<1>1. ASSUME NEW k PROVE Found(c, k) <=> Found(l, k)
  BY CompactedFound
<1>2. ASSUME NEW k, Found(l, k) PROVE Cur(c, k) = Cur(l, k)
  BY <1>2, CompactedFound
<1>3. ASSUME NEW i \in DOMAIN c PROVE Found(l, c[i].ino) /\ c[i] = Cur(l, c[i].ino)
  BY CompactedEntries
<1> HIDE DEF c
<1>4. PathsApart(c, P)
  BY <1>1 DEF Placed, PathsApart
<1>5. Named(c, P)
  <2> SUFFICES ASSUME NEW a \in DOMAIN c, c[a].dir, NEW j \in DOMAIN c[a].data
               PROVE  NamedRight(c, P, c[a].ino, c[a].data[j])
    BY DEF Named
  <2>1. Found(l, c[a].ino) /\ c[a] = Cur(l, c[a].ino)
    BY <1>3
  <2>2. find_latest_log_entry(l, c[a].ino) \in DOMAIN l
    BY <2>1, CurIs
  <2>3. NamedRight(l, P, c[a].ino, c[a].data[j])
    BY <2>1, <2>2 DEF Placed, Named, Cur
  <2>4. QED
    BY <2>3, <1>1 DEF NamedRight
<1>6. ASSUME NEW d, NEW k PROVE Lists(c, d, k) <=> Lists(l, d, k)
  BY <1>1, <1>2 DEF Lists
<1>7. Listed(c)
  BY <1>1, <1>6 DEF Placed, Listed
<1>8. ListedOnce(c)
  BY <1>1, <1>2 DEF Placed, ListedOnce
<1>9. Placed(c, P)
  BY <1>4, <1>5, <1>7, <1>8 DEF Placed
<1>10. QED
  BY <1>9 DEF c

-----------------------------------------------------------------------------
(* Left: the loop of wfs_unlink when one dentry has the number.            *)
KeptAt(s, h, m, k) ==
  /\ k \in Seq(Dentries)
  /\ Len(k) = IF m < h THEN m ELSE m - 1
  /\ \A i \in 1 .. Len(k) : k[i] = IF i < h THEN s[i] ELSE s[i + 1]

LEMMA KeptNext ==
  ASSUME NEW s \in Seq(Dentries), NEW h \in 1 .. Len(s), NEW m \in 1 .. Len(s), m # h,
         NEW k, KeptAt(s, h, m - 1, k)
  PROVE  KeptAt(s, h, m, Append(k, s[m]))
<1> DEFINE a == Append(k, s[m])
<1>1. /\ k \in Seq(Dentries) /\ Len(k) \in Nat /\ s[m] \in Dentries /\ Len(s) \in Nat
      /\ Len(k) = IF m - 1 < h THEN m - 1 ELSE m - 1 - 1
      /\ \A i \in 1 .. Len(k) : k[i] = IF i < h THEN s[i] ELSE s[i + 1]
  BY DEF KeptAt
<1>2. /\ a \in Seq(Dentries) /\ Len(a) = Len(k) + 1 /\ a[Len(k) + 1] = s[m]
      /\ \A i \in 1 .. Len(k) : a[i] = k[i]
  BY <1>1
<1> HIDE DEF a
<1>3. Len(a) = IF m < h THEN m ELSE m - 1
  BY <1>1, <1>2
<1>4. ASSUME NEW i \in 1 .. Len(a) PROVE a[i] = IF i < h THEN s[i] ELSE s[i + 1]
  <2>1. CASE i \in 1 .. Len(k)
    BY <2>1, <1>1, <1>2
  <2>2. CASE i = Len(k) + 1
    <3>1. CASE m < h
      BY <2>2, <3>1, <1>1, <1>2
    <3>2. CASE ~(m < h)
      <4>1. i = m - 1 /\ ~(i < h) /\ i + 1 = m
        BY <2>2, <3>2, <1>1
      <4>2. QED
        BY <2>2, <4>1, <1>2
    <3>3. QED
      BY <3>1, <3>2
  <2>3. QED
    BY <2>1, <2>2, <1>1, <1>2
<1>5. KeptAt(s, h, m, a)
  BY <1>2, <1>3, <1>4 DEF KeptAt
<1>6. QED
  BY <1>5 DEF a

LEMMA KeptSkip ==
  ASSUME NEW s \in Seq(Dentries), NEW h \in 1 .. Len(s), NEW k, KeptAt(s, h, h - 1, k)
  PROVE  KeptAt(s, h, h, k)
  BY DEF KeptAt

LEMMA WithoutIs ==
  ASSUME NEW s \in Seq(Dentries), NEW ino, NEW h \in 1 .. Len(s), s[h].ino = ino,
         \A j \in 1 .. Len(s) : s[j].ino = ino => j = h
  PROVE  KeptAt(s, h, Len(s), Without(s, ino))
<1>0. Len(s) \in Nat
  OBVIOUS
<1>1. PICK kept : /\ kept[0] = << >>
                  /\ \A i \in 1 .. Len(s) :
                        kept[i] = IF s[i].ino = ino THEN kept[i - 1]
                                  ELSE Append(kept[i - 1], s[i])
                  /\ Without(s, ino) = kept[Len(s)]
  BY WithoutRuns
<1> DEFINE N == Len(s)
           Bad == {m \in 0 .. N : ~KeptAt(s, h, m, kept[m])}
<1>2. Bad = {}
  <2>1. SUFFICES ASSUME Bad # {} PROVE FALSE
    OBVIOUS
  <2>2. PICK m \in Bad : \A n \in Bad : m <= n
    <3>1. Bad \in SUBSET Nat
      BY <1>0
    <3> HIDE DEF Bad
    <3>2. QED
      BY <2>1, <3>1, LeastNumber
  <2>3. m # 0
    <3>1. KeptAt(s, h, 0, << >>)
      BY <1>0 DEF KeptAt
    <3>2. QED
      BY <3>1, <1>1, <2>2
  <2>4. m \in 1 .. N /\ m - 1 \in 0 .. N /\ m - 1 \notin Bad
    BY <1>0, <2>2, <2>3
  <2>5. KeptAt(s, h, m - 1, kept[m - 1])
    BY <2>4
  <2>6. kept[m] = IF s[m].ino = ino THEN kept[m - 1] ELSE Append(kept[m - 1], s[m])
    BY <1>1, <2>4
  <2>7. CASE m = h
    <3>1. kept[m] = kept[m - 1]
      BY <2>6, <2>7
    <3>2. QED
      BY <2>2, <2>5, <2>7, <3>1, KeptSkip
  <2>8. CASE m # h
    <3>1. kept[m] = Append(kept[m - 1], s[m])
      BY <2>4, <2>6, <2>8
    <3>2. KeptAt(s, h, m, Append(kept[m - 1], s[m]))
      BY <2>4, <2>5, <2>8, KeptNext
    <3>3. QED
      BY <2>2, <3>1, <3>2
  <2>9. QED
    BY <2>7, <2>8
<1>3. N \in 0 .. N
  BY <1>0
<1>4. QED
  BY <1>1, <1>2, <1>3

-----------------------------------------------------------------------------
(***************************************************************************)
(* Wfs: what the calls do to the listings.                                 *)
(***************************************************************************)

(* A path that exists is the path of the inode that a lookup finds. *)
LEMMA ExistsLive ==
  ASSUME NamesApart, NEW l, Steady(l), NEW P, Placed(l, P), NEW p \in Paths, Exists(l, p)
  PROVE  LET x == find_log_entry_by_path(l, p) IN
         /\ Live(l, P, p, l[x].ino) /\ x = find_latest_log_entry(l, l[x].ino)
         /\ Cur(l, l[x].ino) = l[x] /\ Found(l, l[x].ino) /\ P[l[x].ino] = p
<1>1. PICK k : Live(l, P, p, k) /\ find_log_entry_by_path(l, p) = find_latest_log_entry(l, k)
  BY ExistsIs
<1>2. Cur(l, k).ino = k
  BY <1>1, CurIs DEF Live
<1>3. l[find_log_entry_by_path(l, p)].ino = k
  BY <1>1, <1>2 DEF Cur
<1>4. QED
  BY <1>1, <1>3 DEF Cur, Live

(* The directory of a file that is unlinked lists it, once. *)
LEMMA DadLists ==
  ASSUME NamesApart, WInv, NEW P, Placed(log, P), NEW p \in Paths, KernelWalks(p), Exists(log, p)
  PROVE  \E h \in DOMAIN log[Dad(p)].data :
           /\ log[Dad(p)].data[h].ino = log[Own(p)].ino
           /\ \A j \in DOMAIN log[Dad(p)].data :
                log[Dad(p)].data[j].ino = log[Own(p)].ino => j = h
<1> DEFINE k == log[Own(p)].ino
           d == log[Dad(p)].ino
<1>1. Steady(log) /\ p # << >> /\ Parent(p) \in Paths /\ Exists(log, Parent(p)) /\ log[Dad(p)].dir
  BY DadIs DEF WInv, IsDir, Dad
<1>2. Live(log, P, p, k)
  BY <1>1, ExistsLive DEF Own
<1>3. Live(log, P, Parent(p), d) /\ Cur(log, d) = log[Dad(p)]
  BY <1>1, ExistsLive DEF Dad
<1> HIDE DEF k, d
<1>4. PICK f \in Nat : Lists(log, f, k) /\ Live(log, P, Parent(p), f)
  BY <1>1, <1>2, LiveParent
<1>5. f = d
  BY <1>3, <1>4, LiveOnce
<1>6. PICK h \in DOMAIN Cur(log, d).data : Cur(log, d).data[h].ino = k
  BY <1>4, <1>5 DEF Lists
<1>7. \A j \in DOMAIN Cur(log, d).data : Cur(log, d).data[j].ino = k => j = h
  BY <1>1, <1>3, <1>4, <1>5, <1>6 DEF Placed, ListedOnce, Lists, Live
<1>8. QED
  BY <1>3, <1>6, <1>7 DEF k

(* The new listing is the old one with that dentry left out. *)
LeftOut(p, h) ==
  LET data == log[Dad(p)].data IN
  /\ h \in 1 .. Len(data) /\ Len(data) \in Nat /\ DOMAIN data = 1 .. Len(data)
  /\ data[h].ino = log[Own(p)].ino
  /\ \A j \in 1 .. Len(data) : data[j].ino = log[Own(p)].ino => j = h
  /\ DOMAIN Left(p) = 1 .. (Len(data) - 1)
  /\ \A i \in 1 .. (Len(data) - 1) : Left(p)[i] = IF i < h THEN data[i] ELSE data[i + 1]

LEMMA LeftIsOut ==
  ASSUME NamesApart, WInv, NEW P, Placed(log, P), NEW p \in Paths, KernelWalks(p), IsFile(log, p)
  PROVE  \E h : LeftOut(p, h)
<1> DEFINE data == log[Dad(p)].data
           ino == log[Own(p)].ino
           kept == Without(data, ino)
<1>1. data \in Seq(Dentries)
  BY NewParentIs
<1>2. Len(data) \in Nat /\ DOMAIN data = 1 .. Len(data)
  BY <1>1
<1>3. PICK h \in DOMAIN data : data[h].ino = ino /\ \A j \in DOMAIN data : data[j].ino = ino => j = h
  BY DadLists DEF IsFile
<1>4. Left(p) = [i \in 1 .. (Len(data) - 1) |->
                  IF i <= Len(kept) THEN kept[i] ELSE [name |-> "", ino |-> 0]]
  BY DEF Left
<1>5. KeptAt(data, h, Len(data), kept)
  <2> HIDE DEF data, ino
  <2>1. QED
    BY <1>1, <1>2, <1>3, WithoutIs
<1>6. h \in 1 .. Len(data) /\ data[h].ino = ino /\ \A j \in 1 .. Len(data) : data[j].ino = ino => j = h
  BY <1>2, <1>3
<1> HIDE DEF data, ino, kept
<1>a. Len(kept) = IF Len(data) < h THEN Len(data) ELSE Len(data) - 1
  BY <1>5 DEF KeptAt
<1>7. Len(kept) = Len(data) - 1
  <2>1. h \in 1 .. Len(data)
    BY <1>6
  <2>2. ~(Len(data) < h)
    BY <1>2, <2>1
  <2>3. QED
    BY <1>a, <2>2, Zenon
<1>8. \A i \in 1 .. (Len(data) - 1) : Left(p)[i] = kept[i]
  BY <1>2, <1>4, <1>7
<1>9. \A i \in 1 .. (Len(data) - 1) : Left(p)[i] = IF i < h THEN data[i] ELSE data[i + 1]
  BY <1>5, <1>7, <1>8 DEF KeptAt
<1>10. DOMAIN Left(p) = 1 .. (Len(data) - 1)
  BY <1>4
<1>11. LeftOut(p, h)
  BY <1>2, <1>6, <1>9, <1>10 DEF LeftOut, data, ino
<1>12. QED
  BY <1>11

(* Each dentry of the new listing was in the old one, at another place for *)
(* another dentry, and all but that of the file are in it.                 *)
LEMMA LeftFrom ==
  ASSUME NEW p, NEW h, LeftOut(p, h)
  PROVE  LET data == log[Dad(p)].data IN
         /\ \A i \in DOMAIN Left(p) : \E j \in DOMAIN data :
              j # h /\ j = (IF i < h THEN i ELSE i + 1) /\ Left(p)[i] = data[j]
         /\ \A j \in DOMAIN data : j # h => \E i \in DOMAIN Left(p) : Left(p)[i] = data[j]
<1> DEFINE data == log[Dad(p)].data
           n == Len(data)
           left == Left(p)
<1>1. /\ h \in 1 .. n /\ n \in Nat /\ DOMAIN data = 1 .. n
      /\ DOMAIN left = 1 .. (n - 1)
      /\ \A i \in 1 .. (n - 1) : left[i] = IF i < h THEN data[i] ELSE data[i + 1]
  BY DEF LeftOut
<1> HIDE DEF data, n, left
<1>2. ASSUME NEW i \in DOMAIN left
      PROVE  \E j \in DOMAIN data :
               j # h /\ j = (IF i < h THEN i ELSE i + 1) /\ left[i] = data[j]
  <2>1. CASE i < h
    BY <1>1, <2>1
  <2>2. CASE ~(i < h)
    BY <1>1, <2>2
  <2>3. QED
    BY <2>1, <2>2
<1>3. ASSUME NEW j \in DOMAIN data, j # h PROVE \E i \in DOMAIN left : left[i] = data[j]
  <2>1. CASE j < h
    <3>1. j \in 1 .. (n - 1) /\ left[j] = data[j]
      BY <1>1, <2>1
    <3>2. QED
      BY <1>1, <3>1
  <2>2. CASE ~(j < h)
    <3>1. j - 1 \in 1 .. (n - 1) /\ ~(j - 1 < h) /\ (j - 1) + 1 = j
      BY <1>1, <1>3, <2>2
    <3>2. left[j - 1] = data[j]
      BY <1>1, <3>1
    <3>3. QED
      BY <1>1, <3>1, <3>2
  <2>3. QED
    BY <2>1, <2>2
<1>4. QED
  BY <1>2, <1>3 DEF data, left

(* Every inode that a directory lists is found.                            *)
AllFound(l) ==
  \A d \in Nat : Found(l, d) /\ Cur(l, d).dir =>
    \A j \in DOMAIN Cur(l, d).data : Found(l, Cur(l, d).data[j].ino)

(* A dentry names a number that is yet to be given.                        *)
Ahead(l) ==
  \E i \in DOMAIN l : l[i].dir /\
    \E j \in DOMAIN l[i].data : ~(l[i].data[j].ino <= find_max_inode_number(l))

(* No entry fits any more. *)
Full == LogHead(log) + ENTRY > DiskSize

(* The numbers of a log that grows grow. *)
LEMMA AheadStays ==
  ASSUME NEW l, Steady(l), NEW m, Steady(m),
         \A i \in DOMAIN l : \E j \in DOMAIN m : m[j].ino = l[i].ino,
         \A i \in DOMAIN m : m[i].dir =>
           \A j \in DOMAIN m[i].data :
             \E a \in DOMAIN l : l[a].dir /\
               \E b \in DOMAIN l[a].data : l[a].data[b].ino = m[i].data[j].ino,
         Ahead(m)
  PROVE  Ahead(l)
<1> DEFINE M == find_max_inode_number(m)
           N == find_max_inode_number(l)
<1>1. /\ M \in Nat /\ N \in Nat
      /\ \A j \in DOMAIN m : m[j].ino <= M
      /\ \E i \in DOMAIN l : l[i].ino = N
  BY SteadyIs, MaxInodeIs
<1>2. PICK i \in DOMAIN m : m[i].dir /\ \E j \in DOMAIN m[i].data : ~(m[i].data[j].ino <= M)
  BY DEF Ahead
<1>3. PICK j \in DOMAIN m[i].data : ~(m[i].data[j].ino <= M)
  BY <1>2
<1> HIDE DEF M
<1>4. N <= M
  BY <1>1
<1>5. PICK a \in DOMAIN l : l[a].dir /\
               \E b \in DOMAIN l[a].data : l[a].data[b].ino = m[i].data[j].ino
  BY <1>2
<1>6. PICK b \in DOMAIN l[a].data : l[a].data[b].ino = m[i].data[j].ino
  BY <1>5
<1>7. l[a].data[b].ino \in Nat
  <2>1. l[a] \in LogEntries
    BY SteadyIs
  <2>2. l[a].data \in Seq(Dentries)
    BY <1>5, <2>1, EntryIs
  <2>3. l[a].data[b] \in Dentries
    BY <2>2
  <2>4. QED
    BY <2>3 DEF Dentries
<1>8. ~(l[a].data[b].ino <= N)
  <2> DEFINE x == l[a].data[b].ino
  <2>1. x \in Nat /\ ~(x <= M)
    BY <1>3, <1>6, <1>7
  <2> HIDE DEF x, N
  <2>2. ~(x <= N)
    BY <2>1, <1>1, <1>4
  <2>3. QED
    BY <2>2 DEF x
<1>9. QED
  BY <1>5, <1>8 DEF Ahead

-----------------------------------------------------------------------------
(* A number that is yet to be given is not found, nor listed while there   *)
(* is room.                                                                *)
LEMMA NewNumberFree ==
  ASSUME WInv
  PROVE  ~Found(log, NewNumber)
<1>1. \A i \in DOMAIN log : log[i].ino \in Nat /\ log[i].ino < NewNumber
  BY NewNumberIs
<1>2. Steady(log)
  BY DEF WInv
<1>3. ASSUME Found(log, NewNumber) PROVE FALSE
  <2>1. /\ find_latest_log_entry(log, NewNumber) \in DOMAIN log
        /\ Cur(log, NewNumber).ino = NewNumber
    BY <1>2, <1>3, CurIs
  <2>2. QED
    BY <1>1, <2>1 DEF Cur
<1>4. QED
  BY <1>3

LEMMA NewNumberUnlisted ==
  ASSUME WInv, ~Ahead(log), NEW i \in DOMAIN log, log[i].dir, NEW j \in DOMAIN log[i].data
  PROVE  log[i].data[j].ino # NewNumber /\ log[i].data[j].ino <= find_max_inode_number(log)
<1>1. log[i].data[j].ino <= find_max_inode_number(log)
  BY DEF Ahead
<1>2. find_max_inode_number(log) \in Nat
  BY SteadyIs, MaxInodeIs DEF WInv
<1>3. ~(NewNumber <= find_max_inode_number(log))
  BY <1>2 DEF NewNumber
<1>4. QED
  BY <1>1, <1>3

LEMMA RoomIsNotFull ==
  ASSUME WInv, NEW e \in LogEntries, LogHead(log) + EntrySize(e) <= DiskSize
  PROVE  ~Full
<1>1. LogHead(log) \in Nat /\ EntrySize(e) \in Nat /\ EntrySize(e) >= ENTRY /\ DiskSize \in Nat
  BY LogHeadNat, SizeIs, InstanceIs, SteadyIs DEF WInv
<1>2. QED
  BY <1>1 DEF Full, ENTRY

(* The parent's new version in wfs_mknod and wfs_mkdir. *)
LEMMA NewParentGood ==
  ASSUME NamesApart, WInv, NEW P, Placed(log, P), ~Ahead(log),
         NEW p \in Paths, KernelWalks(p)
  PROVE  GoodVersion(log, P, NewParent(p))
<1> DEFINE d == log[Dad(p)].ino
           data == log[Dad(p)].data
           e == NewParent(p)
<1>0. Steady(log)
  BY DEF WInv
<1>1. /\ Parent(p) \in Paths /\ Exists(log, Parent(p))
      /\ Dad(p) \in DOMAIN log /\ log[Dad(p)].dir
  BY DadIs DEF IsDir, Dad
<1>2. Live(log, P, Parent(p), d) /\ Cur(log, d) = log[Dad(p)]
  BY <1>0, <1>1, ExistsLive DEF Dad
<1>3. e.ino = d /\ e.data = Append(data, NewDentry(p)) /\ data \in Seq(Dentries) /\ e.dir
      /\ NewDentry(p) \in Dentries
  BY NewParentFields, NewParentIs
<1>4. NewDentry(p).ino = NewNumber /\ NewNumber # 0
  BY NewNumberIs DEF NewDentry
<1>5. /\ e.data[Len(data) + 1] = NewDentry(p)
      /\ DOMAIN data = 1 .. Len(data) /\ Len(data) \in Nat
      /\ DOMAIN e.data = 1 .. Len(data) + 1
      /\ \A j \in DOMAIN data : e.data[j] = data[j]
  <2> HIDE DEF data, e
  <2>1. QED
    BY <1>3
<1>6. \A j \in DOMAIN data : data[j].ino # NewNumber
  BY <1>1, NewNumberUnlisted
<1>7. \A j \in DOMAIN data : NamedRight(log, P, d, data[j])
  BY <1>1 DEF Placed, Named
<1>8. NamedRight(log, P, d, NewDentry(p))
  BY <1>4, NewNumberFree DEF NamedRight
<1>9. \A i, j \in DOMAIN data : data[i].ino = data[j].ino => i = j
  BY <1>1, <1>2 DEF Live, Placed, ListedOnce
<1>10. \A k : Lists(log, d, k) => \E j \in DOMAIN data : data[j].ino = k
  BY <1>2 DEF Lists
<1> HIDE DEF d, data, e
<1>a. \A j \in DOMAIN e.data : j \in DOMAIN data \/ j = Len(data) + 1
  BY <1>5
<1>b. \A j \in DOMAIN data : j \in DOMAIN e.data
  BY <1>5
<1>11. \A j \in DOMAIN e.data : NamedRight(log, P, d, e.data[j])
  BY <1>5, <1>7, <1>8, <1>a
<1>12. \A i, j \in DOMAIN e.data : e.data[i].ino = e.data[j].ino => i = j
  BY <1>4, <1>5, <1>6, <1>9, <1>a
<1>13. \A k : Lists(log, d, k) => \E j \in DOMAIN e.data : e.data[j].ino = k
  BY <1>5, <1>10, <1>b
<1>14. GoodVersion(log, P, e)
  BY <1>3, <1>11, <1>12, <1>13 DEF GoodVersion
<1>15. QED
  BY <1>14 DEF e

(* The paths of the inodes after a create. *)
MadePaths(P, p) == [P EXCEPT ![NewNumber] = p]

(* The log with the parent's new version. *)
LEMMA MadeParent ==
  ASSUME NamesApart, WInv, NEW P, Placed(log, P), ~Ahead(log),
         NEW p \in Paths, KernelWalks(p)
  PROVE  LET m == Append(log, NewParent(p)) IN
         /\ Steady(m) /\ Placed(m, P)
         /\ \A k : Found(m, k) <=> Found(log, k)
         /\ \A k : Found(log, k) /\ k # log[Dad(p)].ino => Cur(m, k) = Cur(log, k)
         /\ Cur(m, log[Dad(p)].ino) = NewParent(p)
         /\ Cur(log, log[Dad(p)].ino) = log[Dad(p)]
         /\ Live(log, P, Parent(p), log[Dad(p)].ino)
         /\ \A i \in DOMAIN m : m[i].ino # NewNumber
<1> DEFINE e == NewParent(p)
           d == log[Dad(p)].ino
           m == Append(log, e)
<1>0. Steady(log) /\ log \in Seq(LogEntries)
  BY SteadyIs DEF WInv
<1>1. /\ e \in LogEntries /\ e.ino = d /\ e.dir = TRUE /\ e.deleted = FALSE
  BY NewParentFields
<1>2. /\ Parent(p) \in Paths /\ Exists(log, Parent(p))
      /\ Dad(p) \in DOMAIN log /\ log[Dad(p)].dir = TRUE /\ IsLatest(log, Dad(p))
  BY DadIs DEF IsDir, Dad
<1>3. Live(log, P, Parent(p), d) /\ Cur(log, d) = log[Dad(p)]
  BY <1>0, <1>2, ExistsLive DEF Dad
<1>4. GoodVersion(log, P, e)
  BY NewParentGood
<1>5. Steady(m)
  BY MakeParentSteady
<1>6. Placed(m, P)
  BY <1>0, <1>1, <1>2, <1>4, PlacedVersion
<1>7. \A k : Found(m, k) <=> Found(log, k)
  <2>1. Found(log, d)
    BY <1>3 DEF Live
  <2> HIDE DEF d, e
  <2> TAKE k
  <2>2. Found(m, k) <=> (k = e.ino \/ Found(log, k))
    BY <1>0, <1>1, AppendFound
  <2>3. QED
    BY <1>1, <2>1, <2>2
<1>8. /\ \A k : Found(log, k) /\ k # d => Cur(m, k) = Cur(log, k)
      /\ Cur(m, d) = e
  <2> HIDE DEF d, e
  <2>1. QED
    BY <1>0, <1>1, AppendFound
<1>9. \A i \in DOMAIN m : m[i].ino # NewNumber
  <2>1. \A i \in DOMAIN log : log[i].ino # NewNumber
    BY NewNumberIs
  <2>2. d # NewNumber
    BY <2>1, <1>2
  <2> HIDE DEF d, e
  <2>3. /\ m[Len(log) + 1] = e
        /\ \A i \in DOMAIN log : m[i] = log[i]
        /\ \A i \in DOMAIN m : i \in DOMAIN log \/ i = Len(log) + 1
    BY <1>0, <1>1, AppendIs
  <2> HIDE DEF m
  <2>4. QED
    BY <1>1, <2>1, <2>2, <2>3
<1>10. QED
  BY <1>3, <1>5, <1>6, <1>7, <1>8, <1>9

LEMMA MadeDentries ==
  ASSUME NamesApart, WInv, NEW P, Placed(log, P), ~Ahead(log),
         NEW p \in Paths, KernelWalks(p)
  PROVE  LET m == Append(log, NewParent(p)) IN
         /\ Lists(m, log[Dad(p)].ino, NewNumber)
         /\ \A i \in DOMAIN m : m[i].dir =>
              \A j \in DOMAIN m[i].data :
                /\ m[i].data[j].ino <= NewNumber
                /\ m[i].data[j].ino = NewNumber =>
                     m[i].data[j].name = Filename(p) /\ P[m[i].ino] = Parent(p)
<1> DEFINE e == NewParent(p)
           d == log[Dad(p)].ino
           data == log[Dad(p)].data
           m == Append(log, e)
<1>0. Steady(log) /\ log \in Seq(LogEntries)
  BY SteadyIs DEF WInv
<1>1. /\ e \in LogEntries /\ e.ino = d /\ e.dir = TRUE /\ e.data = Append(data, NewDentry(p))
      /\ data \in Seq(Dentries) /\ NewDentry(p) \in Dentries
  BY NewParentFields, NewParentIs
<1>2. Dad(p) \in DOMAIN log /\ log[Dad(p)].dir
  BY DadIs DEF IsDir, Dad
<1>3. /\ Found(m, d) /\ Cur(m, d) = e /\ P[d] = Parent(p)
  BY MadeParent DEF Live
<1>4. NewDentry(p).ino = NewNumber /\ NewDentry(p).name = Filename(p) /\ NewNumber \in Nat
  BY NewNumberIs DEF NewDentry
<1>5. /\ e.data[Len(data) + 1] = NewDentry(p) /\ Len(data) + 1 \in DOMAIN e.data
      /\ \A j \in DOMAIN data : e.data[j] = data[j]
      /\ \A j \in DOMAIN e.data : j \in DOMAIN data \/ j = Len(data) + 1
  <2> HIDE DEF data, e
  <2>1. QED
    BY <1>1
<1>6. Lists(m, d, NewNumber)
  BY <1>1, <1>3, <1>4, <1>5 DEF Lists
<1>7. ASSUME NEW i \in DOMAIN log, log[i].dir, NEW j \in DOMAIN log[i].data
      PROVE  log[i].data[j].ino # NewNumber /\ log[i].data[j].ino <= NewNumber
  <2> DEFINE x == log[i].data[j].ino
  <2>1. x # NewNumber /\ x <= find_max_inode_number(log)
    BY <1>7, NewNumberUnlisted
  <2>2. find_max_inode_number(log) \in Nat
    BY <1>0, SteadyIs, MaxInodeIs
  <2>3. x \in Nat
    <3>1. log[i] \in LogEntries
      BY <1>0, SteadyIs
    <3>2. log[i].data \in Seq(Dentries)
      BY <3>1, <1>7, EntryIs
    <3>3. log[i].data[j] \in Dentries
      BY <3>2
    <3>4. QED
      BY <3>3 DEF Dentries
  <2> HIDE DEF x
  <2>4. x <= NewNumber
    BY <2>1, <2>2, <2>3 DEF NewNumber
  <2>5. QED
    BY <2>1, <2>4 DEF x
<1>8. /\ m[Len(log) + 1] = e
      /\ \A i \in DOMAIN log : m[i] = log[i]
      /\ \A i \in DOMAIN m : i \in DOMAIN log \/ i = Len(log) + 1
  <2> HIDE DEF e
  <2>1. QED
    BY <1>0, <1>1, AppendIs
<1>9. ASSUME NEW j \in DOMAIN e.data
      PROVE  /\ e.data[j].ino <= NewNumber
             /\ e.data[j].ino = NewNumber => e.data[j].name = Filename(p)
  <2>1. CASE j \in DOMAIN data
    <3>1. data[j].ino # NewNumber /\ data[j].ino <= NewNumber
      BY <1>2, <1>7, <2>1
    <3> HIDE DEF e, data
    <3>2. QED
      BY <1>5, <2>1, <3>1
  <2>2. CASE j = Len(data) + 1
    <3>1. NewNumber <= NewNumber
      BY <1>4
    <3>2. e.data[j] = NewDentry(p)
      BY <1>5, <2>2
    <3> HIDE DEF e
    <3>3. QED
      BY <1>4, <3>1, <3>2
  <2>3. QED
    BY <1>5, <2>1, <2>2
<1> HIDE DEF e, d, data, m
<1>10. ASSUME NEW i \in DOMAIN m, m[i].dir, NEW j \in DOMAIN m[i].data
       PROVE  /\ m[i].data[j].ino <= NewNumber
              /\ m[i].data[j].ino = NewNumber =>
                   m[i].data[j].name = Filename(p) /\ P[m[i].ino] = Parent(p)
  <2>1. CASE i \in DOMAIN log
    BY <1>7, <1>8, <1>10, <2>1
  <2>2. CASE i = Len(log) + 1
    BY <1>1, <1>3, <1>8, <1>9, <1>10, <2>2
  <2>3. QED
    BY <1>8, <2>1, <2>2
<1>11. QED
  BY <1>6, <1>10 DEF m, e, d

LEMMA MakePlaced ==
  ASSUME NamesApart, WInv, NEW P, Placed(log, P), Ahead(log) => Full,
         NEW p \in Paths, NEW dir \in BOOLEAN, Make(p, dir)
  PROVE  /\ ~Ahead(log)
         /\ MakeFits(p) => Placed(log', MadePaths(P, p))
         /\ ~MakeFits(p) => Placed(log', P)
<1> DEFINE m == Append(log, NewParent(p))
           c == Newborn(NewNumber, dir)
<1>1. /\ KernelWalks(p) /\ ~Exists(log, p)
      /\ NewParent(p) \in LogEntries
      /\ LogHead(log) + EntrySize(NewParent(p)) <= DiskSize
      /\ log' = IF MakeFits(p) THEN Append(m, c) ELSE m
  BY MakeDoes
<1>2. ~Ahead(log)
  BY <1>1, RoomIsNotFull
<1>3. /\ Steady(m) /\ Placed(m, P)
      /\ \A k : Found(m, k) <=> Found(log, k)
      /\ \A i \in DOMAIN m : m[i].ino # NewNumber
  BY <1>1, <1>2, MadeParent
<1>4. /\ Lists(m, log[Dad(p)].ino, NewNumber)
      /\ \A i \in DOMAIN m : m[i].dir =>
           \A j \in DOMAIN m[i].data : m[i].data[j].ino = NewNumber =>
                m[i].data[j].name = Filename(p) /\ P[m[i].ino] = Parent(p)
  BY <1>1, <1>2, MadeDentries
<1>5. NewNumber \in Nat \ {0} /\ log[Dad(p)].ino \in Nat
  BY <1>1, NewNumberIs, NewParentIs
<1>6. /\ c \in LogEntries /\ c.ino = NewNumber /\ ~c.deleted /\ c.data = << >>
  BY <1>5, NewbornIs
<1>7. ~\E k : Live(m, P, p, k)
  <2>1. Steady(log)
    BY DEF WInv
  <2>2. ~\E k : Live(log, P, p, k)
    BY <1>1, <2>1, ExistsIs
  <2>3. QED
    BY <1>3, <2>2 DEF Live
<1>8. p # << >>
  BY <1>1, DadIs
<1> HIDE DEF m, c
<1>9. Placed(Append(m, c), [P EXCEPT ![c.ino] = p])
  BY <1>3, <1>4, <1>5, <1>6, <1>7, <1>8, PlacedNew
<1>10. QED
  BY <1>1, <1>2, <1>3, <1>6, <1>9 DEF MadePaths

(* What holds of the tree in every state. *)
TreeInv ==
  /\ WInv
  /\ tree = Visible(log)
  /\ cut \in BOOLEAN
  /\ ~cut => AllFound(log)
  /\ Ahead(log) => Full
  /\ \E P : Placed(log, P)

LEMMA MakeAhead ==
  ASSUME NamesApart, WInv, NEW P, Placed(log, P), Ahead(log) => Full,
         NEW p \in Paths, NEW dir \in BOOLEAN, Make(p, dir)
  PROVE  /\ MakeFits(p) => ~Ahead(log')
         /\ ~MakeFits(p) => Full'
<1> DEFINE m == Append(log, NewParent(p))
           c == Newborn(NewNumber, dir)
           n == Append(m, c)
<1>1. /\ KernelWalks(p) /\ NewParent(p) \in LogEntries
      /\ m \in Seq(LogEntries)
      /\ LogHead(m) = LogHead(log) + EntrySize(NewParent(p))
      /\ log' = IF MakeFits(p) THEN n ELSE m
      /\ UNCHANGED inst
  BY MakeDoes
<1>2. ~Ahead(log)
  BY MakePlaced
<1>3. \A i \in DOMAIN m : m[i].dir =>
           \A j \in DOMAIN m[i].data : m[i].data[j].ino <= NewNumber
  BY <1>1, <1>2, MadeDentries
<1>4. NewNumber \in Nat
  BY NewNumberIs
<1>5. /\ c \in LogEntries /\ c.ino = NewNumber /\ c.data = << >>
  BY <1>4, NewbornIs
<1>6. ASSUME MakeFits(p) PROVE ~Ahead(log')
  <2> HIDE DEF m, c
  <2>1. /\ n \in Seq(LogEntries) /\ n[Len(m) + 1] = c /\ Len(m) + 1 \in DOMAIN n
        /\ \A i \in DOMAIN m : n[i] = m[i]
        /\ \A i \in DOMAIN n : i \in DOMAIN m \/ i = Len(m) + 1
    <3>1. Len(m) + 1 \in 1 .. Len(m) + 1
      BY <1>1
    <3>2. QED
      BY <1>1, <1>5, <3>1, AppendIs
  <2> HIDE DEF n
  <2>2. n # << >>
    BY <2>1
  <2>3. /\ find_max_inode_number(n) \in Nat
        /\ NewNumber <= find_max_inode_number(n)
    BY <1>5, <2>1, <2>2, MaxInodeIs
  <2>4. ASSUME NEW i \in DOMAIN n, n[i].dir, NEW j \in DOMAIN n[i].data
        PROVE  n[i].data[j].ino <= find_max_inode_number(n)
    <3>1. i # Len(m) + 1
      BY <1>5, <2>1, <2>4
    <3>2. i \in DOMAIN m /\ n[i] = m[i]
      BY <2>1, <3>1
    <3> DEFINE x == m[i].data[j].ino
               N == find_max_inode_number(n)
    <3>3. x <= NewNumber
      BY <1>3, <2>4, <3>2
    <3>4. x \in Nat
      <4>1. m[i] \in LogEntries
        BY <1>1, <3>2
      <4>2. m[i].data \in Seq(Dentries)
        BY <2>4, <3>2, <4>1, EntryIs
      <4>3. m[i].data[j] \in Dentries
        BY <2>4, <3>2, <4>2
      <4>4. QED
        BY <4>3 DEF Dentries
    <3>5. N \in Nat /\ NewNumber <= N
      BY <2>3
    <3> HIDE DEF x, N
    <3>6. x <= N
      BY <1>4, <3>3, <3>4, <3>5
    <3>7. QED
      BY <3>2, <3>6 DEF x, N
  <2>5. ~Ahead(n)
    BY <2>4 DEF Ahead
  <2>6. QED
    BY <1>1, <1>6, <2>5
<1>7. ASSUME ~MakeFits(p) PROVE Full'
  <2>1. log' = m /\ LogHead(log') = LogHead(log) + EntrySize(NewParent(p))
    BY <1>1, <1>7
  <2>2. DiskSize' = DiskSize
    BY <1>1 DEF DiskSize
  <2>3. ~(LogHead(log) + EntrySize(NewParent(p)) + ENTRY <= DiskSize)
    BY <1>7 DEF MakeFits
  <2>4. /\ LogHead(log) \in Nat /\ EntrySize(NewParent(p)) \in Nat /\ DiskSize \in Nat
    BY <1>1, LogHeadNat, SizeIs, InstanceIs, SteadyIs DEF WInv
  <2>5. LogHead(log') + ENTRY > DiskSize'
    BY <2>1, <2>2, <2>3, <2>4 DEF ENTRY
  <2>6. QED
    BY <2>5 DEF Full
<1>8. QED
  BY <1>6, <1>7

LEMMA MakeFound ==
  ASSUME NamesApart, WInv, NEW P, Placed(log, P), Ahead(log) => Full, AllFound(log),
         NEW p \in Paths, NEW dir \in BOOLEAN, Make(p, dir), MakeFits(p)
  PROVE  AllFound(log')
<1> DEFINE e == NewParent(p)
           m == Append(log, e)
           c == Newborn(NewNumber, dir)
           n == Append(m, c)
           d == log[Dad(p)].ino
           data == log[Dad(p)].data
<1>1. KernelWalks(p) /\ log' = n
  BY MakeDoes
<1>2. ~Ahead(log)
  BY MakePlaced
<1>3. /\ Steady(m)
      /\ \A k : Found(m, k) <=> Found(log, k)
      /\ \A k : Found(log, k) /\ k # d => Cur(m, k) = Cur(log, k)
      /\ Cur(m, d) = e /\ Cur(log, d) = log[Dad(p)]
      /\ Live(log, P, Parent(p), d)
  BY <1>1, <1>2, MadeParent
<1>4. NewNumber \in Nat
  BY NewNumberIs
<1>5. /\ c \in LogEntries /\ c.ino = NewNumber /\ ~c.deleted /\ c.data = << >>
  BY <1>4, NewbornIs
<1>6. /\ e.data = Append(data, NewDentry(p)) /\ data \in Seq(Dentries)
      /\ NewDentry(p) \in Dentries /\ NewDentry(p).ino = NewNumber
  BY <1>1, NewParentFields, NewParentIs DEF NewDentry
<1>7. /\ e.data[Len(data) + 1] = NewDentry(p)
      /\ \A j \in DOMAIN data : e.data[j] = data[j]
      /\ \A j \in DOMAIN e.data : j \in DOMAIN data \/ j = Len(data) + 1
  <2> HIDE DEF data, e
  <2>1. QED
    BY <1>6
<1>a. Found(log, d) /\ d \in Nat /\ log[Dad(p)].dir
  BY <1>1, <1>3, DadIs DEF Live, IsDir, Dad
<1>8. \A j \in DOMAIN data : Found(log, data[j].ino)
  <2>1. Cur(log, d).dir
    BY <1>3, <1>a
  <2>2. \A j \in DOMAIN Cur(log, d).data : Found(log, Cur(log, d).data[j].ino)
    BY <1>a, <2>1 DEF AllFound
  <2>3. QED
    BY <1>3, <2>2
<1> HIDE DEF e, m, c, d, data
<1>9. \A k : /\ Found(n, k) <=> (k = NewNumber \/ Found(log, k))
             /\ k = NewNumber => Cur(n, k) = c
             /\ k # NewNumber /\ Found(log, k) => Cur(n, k) = Cur(m, k)
  BY <1>3, <1>5, AppendFound
<1> HIDE DEF n
<1>10. ASSUME NEW k \in Nat, Found(n, k), Cur(n, k).dir, NEW j \in DOMAIN Cur(n, k).data
       PROVE  Found(n, Cur(n, k).data[j].ino)
  <2>1. k # NewNumber
    BY <1>5, <1>9, <1>10
  <2>2. Found(log, k) /\ Cur(n, k) = Cur(m, k)
    BY <1>9, <1>10, <2>1
  <2>3. CASE k # d
    <3>1. Cur(n, k) = Cur(log, k)
      BY <1>3, <2>2, <2>3
    <3>2. Found(log, Cur(log, k).data[j].ino)
      BY <1>10, <2>2, <3>1 DEF AllFound
    <3>3. QED
      BY <1>9, <3>1, <3>2
  <2>4. CASE k = d
    <3>1. Cur(n, k) = e
      BY <1>3, <2>2, <2>4
    <3>2. CASE j \in DOMAIN data
      BY <1>7, <1>8, <1>9, <3>1, <3>2
    <3>3. CASE j = Len(data) + 1
      BY <1>6, <1>7, <1>9, <3>1, <3>3
    <3>4. QED
      BY <1>7, <1>10, <3>1, <3>2, <3>3
  <2>5. QED
    BY <2>3, <2>4
<1>11. AllFound(n)
  BY <1>10 DEF AllFound
<1>12. QED
  BY <1>1, <1>11

LEMMA WriteTree ==
  ASSUME WInv, NEW P, Placed(log, P),
         NEW p \in Paths, NEW o \in Offsets, NEW v \in Bytes, Write(p, o, v)
  PROVE  /\ Placed(log', P)
         /\ AllFound(log) => AllFound(log')
         /\ Ahead(log') => Ahead(log)
         /\ Full => Full'
<1> DEFINE e == NewContents(p, o, v)
           m == Append(log, e)
           k == log[Own(p)].ino
<1>0. Steady(log) /\ log \in Seq(LogEntries)
  BY SteadyIs DEF WInv
<1>1. /\ IsFile(log, p)
      /\ e \in LogEntries /\ e.ino = k /\ e.dir = FALSE /\ e.deleted = FALSE
      /\ log' = m
      /\ LogHead(log') = LogHead(log) + EntrySize(e)
      /\ UNCHANGED inst
  BY WriteDoes
<1>2. Own(p) \in DOMAIN log /\ IsLatest(log, Own(p)) /\ log[Own(p)].dir = FALSE
  BY <1>1, OwnFileIs
<1>3. GoodVersion(log, P, e)
  BY <1>1 DEF GoodVersion
<1>4. Placed(m, P)
  <2> HIDE DEF e
  <2>1. QED
    BY <1>0, <1>1, <1>2, <1>3, PlacedVersion
<1>5. Steady(m)
  BY <1>1, WriteSteady
<1>6. Found(log, k)
  <2>1. Own(p) = find_latest_log_entry(log, log[Own(p)].ino)
    BY <1>2 DEF IsLatest
  <2>2. Own(p) # 0
    BY <1>0, <1>2, SteadyIs
  <2>3. QED
    BY <2>1, <2>2 DEF Found
<1> HIDE DEF e, k
<1>7. ASSUME AllFound(log) PROVE AllFound(m)
  <2>1. \A q : /\ Found(m, q) <=> (q = k \/ Found(log, q))
               /\ q = k => Cur(m, q) = e
               /\ q # k /\ Found(log, q) => Cur(m, q) = Cur(log, q)
    BY <1>0, <1>1, AppendFound
  <2> HIDE DEF m
  <2>2. ASSUME NEW q \in Nat, Found(m, q), Cur(m, q).dir, NEW j \in DOMAIN Cur(m, q).data
        PROVE  Found(m, Cur(m, q).data[j].ino)
    <3>1. q # k
      BY <1>1, <2>1, <2>2
    <3>2. Found(log, q) /\ Cur(m, q) = Cur(log, q)
      BY <2>1, <2>2, <3>1
    <3>3. Found(log, Cur(log, q).data[j].ino)
      BY <1>7, <2>2, <3>2 DEF AllFound
    <3>4. QED
      BY <2>1, <3>2, <3>3
  <2>3. QED
    BY <2>2 DEF AllFound
<1>8. ASSUME Ahead(m) PROVE Ahead(log)
  <2>1. /\ m[Len(log) + 1] = e
        /\ \A i \in DOMAIN log : m[i] = log[i] /\ i \in DOMAIN m
        /\ \A i \in DOMAIN m : i \in DOMAIN log \/ i = Len(log) + 1
    BY <1>0, <1>1, AppendIs
  <2> HIDE DEF m
  <2>2. \A i \in DOMAIN log : \E j \in DOMAIN m : m[j].ino = log[i].ino
    BY <2>1
  <2>3. \A i \in DOMAIN m : m[i].dir =>
           \A j \in DOMAIN m[i].data :
             \E a \in DOMAIN log : log[a].dir /\
               \E b \in DOMAIN log[a].data : log[a].data[b].ino = m[i].data[j].ino
    BY <1>1, <2>1
  <2>4. QED
    BY <1>0, <1>5, <1>8, <2>2, <2>3, AheadStays
<1>9. Full => Full'
  <2>1. LogHead(log) \in Nat /\ EntrySize(e) \in Nat /\ DiskSize \in Nat
    BY <1>0, <1>1, LogHeadNat, SizeIs, InstanceIs DEF WInv
  <2>2. DiskSize' = DiskSize
    BY <1>1 DEF DiskSize
  <2>3. ASSUME LogHead(log) + ENTRY > DiskSize PROVE LogHead(log') + ENTRY > DiskSize'
    BY <1>1, <2>1, <2>2, <2>3 DEF ENTRY
  <2>4. QED
    BY <2>3 DEF Full
<1>10. QED
  BY <1>1, <1>4, <1>7, <1>8, <1>9

-----------------------------------------------------------------------------
LEMMA FsckTree ==
  ASSUME WInv, NEW P, Placed(log, P), AllFound(log), Fsck
  PROVE  /\ Placed(log', P)
         /\ AllFound(log')
         /\ ~Ahead(log')
<1> DEFINE c == Compacted(log)
<1>0. Steady(log) /\ log' = c
  BY DEF WInv, Fsck
<1>1. Steady(c) /\ Placed(c, P)
  BY <1>0, CompactedSteady, PlacedCompacted
<1>2. \A k : /\ Found(c, k) <=> Found(log, k)
             /\ Found(log, k) => Cur(c, k) = Cur(log, k)
  BY <1>0, CompactedFound
<1>3. \A i \in DOMAIN c : Found(log, c[i].ino) /\ c[i] = Cur(log, c[i].ino)
  BY <1>0, CompactedEntries
<1> HIDE DEF c
<1>4. AllFound(c)
  BY <1>2 DEF AllFound
<1>5. ASSUME NEW i \in DOMAIN c, c[i].dir, NEW j \in DOMAIN c[i].data
      PROVE  c[i].data[j].ino <= find_max_inode_number(c)
  <2> DEFINE k == c[i].data[j].ino
  <2>1. c[i].ino \in Nat
    BY <1>1, SteadyIs, EntryIs
  <2>2. Found(log, k)
    BY <1>3, <1>5, <2>1 DEF AllFound
  <2>3. Found(c, k)
    BY <1>2, <2>2
  <2> HIDE DEF k
  <2>4. find_latest_log_entry(c, k) \in DOMAIN c /\ Cur(c, k).ino = k
    BY <1>1, <2>3, CurIs
  <2>5. c[find_latest_log_entry(c, k)].ino <= find_max_inode_number(c)
    BY <1>1, <2>4, SteadyIs, MaxInodeIs
  <2>6. k <= find_max_inode_number(c)
    BY <2>4, <2>5 DEF Cur
  <2>7. QED
    BY <2>6 DEF k
<1>6. ~Ahead(c)
  BY <1>5 DEF Ahead
<1>7. QED
  BY <1>0, <1>1, <1>4, <1>6

(* The log with the file's versions marked. *)
LEMMA MarkedTree ==
  ASSUME NamesApart, WInv, NEW P, Placed(log, P), NEW p \in Paths, KernelWalks(p), IsFile(log, p)
  PROVE  LET m == Marked(p)
             k == log[Own(p)].ino
             d == log[Dad(p)].ino IN
         /\ Steady(m) /\ Placed(m, P) /\ IsLatest(m, Dad(p)) /\ m[Dad(p)] = log[Dad(p)]
         /\ \A q : Found(m, q) <=> q # k /\ Found(log, q)
         /\ \A q : q # k /\ Found(log, q) => Cur(m, q) = Cur(log, q)
         /\ k # d /\ Live(log, P, p, k) /\ Live(log, P, Parent(p), d)
         /\ Cur(log, d) = log[Dad(p)] /\ Cur(log, k) = log[Own(p)]
<1>0. Steady(log)
  BY DEF WInv
<1>1. Own(p) \in DOMAIN log /\ log[Own(p)].dir = FALSE
  BY OwnFileIs
<1>2. Steady(Marked(p)) /\ IsLatest(Marked(p), Dad(p)) /\ Marked(p)[Dad(p)] = log[Dad(p)]
      /\ log[Dad(p)].ino # log[Own(p)].ino
  BY MarkedParent
<1>3. Placed(Marked(p), P)
  BY <1>0, <1>1, PlacedDelete DEF Marked
<1>4. \A q : /\ Found(Marked(p), q) <=> q # log[Own(p)].ino /\ Found(log, q)
             /\ q # log[Own(p)].ino /\ Found(log, q) => Cur(Marked(p), q) = Cur(log, q)
  BY <1>0, DeleteFound DEF Marked
<1>5. Exists(log, p) /\ Exists(log, Parent(p)) /\ Parent(p) \in Paths
  BY DadIs DEF IsFile, IsDir
<1>6. /\ Live(log, P, p, log[Own(p)].ino) /\ Cur(log, log[Own(p)].ino) = log[Own(p)]
      /\ Live(log, P, Parent(p), log[Dad(p)].ino) /\ Cur(log, log[Dad(p)].ino) = log[Dad(p)]
  BY <1>0, <1>5, ExistsLive DEF Own, Dad
<1>7. QED
  BY <1>2, <1>3, <1>4, <1>6

LEMMA NewListingGood ==
  ASSUME NamesApart, WInv, NEW P, Placed(log, P), NEW p \in Paths, KernelWalks(p), IsFile(log, p)
  PROVE  GoodVersion(Marked(p), P, NewListing(p))
<1> DEFINE m == Marked(p)
           k == log[Own(p)].ino
           d == log[Dad(p)].ino
           data == log[Dad(p)].data
           left == Left(p)
           e == NewListing(p)
<1>1. PICK h : LeftOut(p, h)
  BY LeftIsOut
<1>2. /\ \A i \in DOMAIN left : \E j \in DOMAIN data :
              j # h /\ j = (IF i < h THEN i ELSE i + 1) /\ left[i] = data[j]
      /\ \A j \in DOMAIN data : j # h => \E i \in DOMAIN left : left[i] = data[j]
  BY <1>1, LeftFrom
<1>3. /\ data[h].ino = k
      /\ DOMAIN data = 1 .. Len(data) /\ DOMAIN left = 1 .. (Len(data) - 1)
      /\ h \in 1 .. Len(data) /\ Len(data) \in Nat
  BY <1>1 DEF LeftOut
<1>4. e.ino = d /\ e.data = left /\ e.dir = TRUE
  <2>1. d \in Nat /\ left \in Seq(Dentries)
    BY LeftIs, NewParentIs
  <2> HIDE DEF d, left
  <2>2. e = Listing(d, left)
    BY DEF NewListing, d, left
  <2> HIDE DEF e
  <2>3. QED
    BY <2>1, <2>2, ListingIs
<1>5. /\ \A q : Found(m, q) <=> q # k /\ Found(log, q)
      /\ \A q : q # k /\ Found(log, q) => Cur(m, q) = Cur(log, q)
      /\ k # d /\ Cur(log, d) = log[Dad(p)] /\ Found(log, d) /\ d \in Nat
  BY MarkedTree DEF Live
<1>6. Dad(p) \in DOMAIN log /\ log[Dad(p)].dir = TRUE
  BY DadIs DEF IsDir, Dad
<1>7. \A j \in DOMAIN data : NamedRight(log, P, d, data[j])
  BY <1>6 DEF Placed, Named
<1>8. \A i, j \in DOMAIN data : data[i].ino = data[j].ino => i = j
  BY <1>5, <1>6 DEF Placed, ListedOnce
<1>9. ASSUME NEW q, Lists(m, d, q) PROVE \E j \in DOMAIN data : data[j].ino = q
  BY <1>5, <1>9 DEF Lists
<1> HIDE DEF m, k, d, data, left, e
<1>10. \A j \in DOMAIN left : NamedRight(m, P, d, left[j])
  <2> TAKE j \in DOMAIN left
  <2>1. PICK i \in DOMAIN data : left[j] = data[i]
    BY <1>2
  <2>2. NamedRight(log, P, d, left[j])
    BY <1>7, <2>1
  <2>3. QED
    BY <1>5, <2>2 DEF NamedRight
<1>11. ASSUME NEW a \in DOMAIN left, NEW b \in DOMAIN left, left[a].ino = left[b].ino
       PROVE  a = b
  <2>1. PICK i \in DOMAIN data : i = (IF a < h THEN a ELSE a + 1) /\ left[a] = data[i]
    BY <1>2
  <2>2. PICK j \in DOMAIN data : j = (IF b < h THEN b ELSE b + 1) /\ left[b] = data[j]
    BY <1>2
  <2>3. i = j
    BY <1>8, <1>11, <2>1, <2>2
  <2>4. a \in Nat /\ b \in Nat /\ h \in Nat
    BY <1>3
  <2>5. (IF a < h THEN a ELSE a + 1) = (IF b < h THEN b ELSE b + 1)
    BY <2>1, <2>2, <2>3
  <2>6. QED
    BY <2>4, <2>5
<1>12. ASSUME NEW q, Lists(m, d, q), Found(m, q)
       PROVE  \E j \in DOMAIN left : left[j].ino = q
  <2>1. q # k
    BY <1>5, <1>12
  <2>2. PICK j \in DOMAIN data : data[j].ino = q
    BY <1>9, <1>12
  <2>3. j # h
    BY <1>3, <2>1, <2>2
  <2>4. QED
    BY <1>2, <2>2, <2>3
<1>13. GoodVersion(m, P, e)
  BY <1>4, <1>10, <1>11, <1>12 DEF GoodVersion
<1>14. QED
  BY <1>13 DEF m, e

LEMMA UnlinkPlaced ==
  ASSUME NamesApart, WInv, NEW P, Placed(log, P), NEW p \in Paths, Unlink(p)
  PROVE  Placed(log', P)
<1> DEFINE m == Marked(p)
           e == NewListing(p)
<1>1. /\ KernelWalks(p) /\ IsFile(log, p)
      /\ e \in LogEntries /\ e.ino = log[Dad(p)].ino /\ e.dir = TRUE /\ e.deleted = FALSE
      /\ log' = IF UnlinkFits(p) THEN Append(m, e) ELSE m
  BY UnlinkDoes
<1>2. Steady(m) /\ Placed(m, P) /\ IsLatest(m, Dad(p)) /\ m[Dad(p)] = log[Dad(p)]
  BY <1>1, MarkedTree
<1>3. GoodVersion(m, P, e)
  BY <1>1, NewListingGood
<1>4. log[Dad(p)].dir = TRUE
  BY <1>1, DadIs DEF IsDir, Dad
<1> HIDE DEF m, e
<1>5. Placed(Append(m, e), P)
  BY <1>1, <1>2, <1>3, <1>4, PlacedVersion
<1>6. QED
  BY <1>1, <1>2, <1>5

(* The other directories do not list the file. *)
LEMMA ListedByDad ==
  ASSUME NEW l, Steady(l), NEW P, Placed(l, P), NEW p, NEW k, Live(l, P, p, k),
         NEW d, Live(l, P, Parent(p), d), NEW f \in Nat, Lists(l, f, k)
  PROVE  f = d
<1>1. k \in Nat /\ Found(l, k) /\ P[k] = p /\ d \in Nat /\ Found(l, d) /\ P[d] = Parent(p)
  BY DEF Live
<1>2. Parent(P[k]) = P[f]
  BY <1>1, ListsIs
<1>3. Found(l, f)
  BY DEF Lists
<1>4. QED
  BY <1>1, <1>2, <1>3 DEF Placed, PathsApart

LEMMA UnlinkFound ==
  ASSUME NamesApart, WInv, NEW P, Placed(log, P), AllFound(log),
         NEW p \in Paths, Unlink(p), UnlinkFits(p)
  PROVE  AllFound(log')
<1> DEFINE m == Marked(p)
           e == NewListing(p)
           n == Append(m, e)
           k == log[Own(p)].ino
           d == log[Dad(p)].ino
           data == log[Dad(p)].data
           left == Left(p)
<1>1. /\ KernelWalks(p) /\ IsFile(log, p)
      /\ e \in LogEntries /\ e.ino = d /\ e.data = left /\ e.deleted = FALSE
      /\ log' = n
  BY UnlinkDoes
<1>2. /\ Steady(m)
      /\ \A q : Found(m, q) <=> q # k /\ Found(log, q)
      /\ \A q : q # k /\ Found(log, q) => Cur(m, q) = Cur(log, q)
      /\ k # d /\ Cur(log, d) = log[Dad(p)]
      /\ Live(log, P, p, k) /\ Live(log, P, Parent(p), d)
  BY <1>1, MarkedTree
<1>3. PICK h : LeftOut(p, h)
  BY <1>1, LeftIsOut
<1>4. \A i \in DOMAIN left : \E j \in DOMAIN data : j # h /\ left[i] = data[j]
  BY <1>3, LeftFrom
<1>5. \A j \in DOMAIN data : data[j].ino = k => j = h
  BY <1>3 DEF LeftOut
<1>6. Steady(log) /\ log[Dad(p)].dir
  BY <1>1, DadIs DEF IsDir, Dad, WInv
<1>7. \A j \in DOMAIN data : Found(log, data[j].ino)
  BY <1>2, <1>6 DEF AllFound, Live
<1> HIDE DEF m, e, k, d, data, left
<1>8. \A q : /\ Found(n, q) <=> (q = d \/ Found(m, q))
             /\ q = d => Cur(n, q) = e
             /\ q # d /\ Found(m, q) => Cur(n, q) = Cur(m, q)
  BY <1>1, <1>2, AppendFound
<1> HIDE DEF n
<1>9. ASSUME NEW q \in Nat, Found(n, q), Cur(n, q).dir, NEW j \in DOMAIN Cur(n, q).data
      PROVE  Found(n, Cur(n, q).data[j].ino)
  <2>1. CASE q = d
    <3>1. Cur(n, q) = e
      BY <1>8, <2>1
    <3>2. j \in DOMAIN left
      BY <1>1, <1>9, <3>1
    <3>3. PICK i \in DOMAIN data : i # h /\ left[j] = data[i]
      BY <1>4, <3>2
    <3>4. Found(log, left[j].ino) /\ left[j].ino # k
      BY <1>5, <1>7, <3>3
    <3>5. QED
      BY <1>1, <1>2, <1>8, <3>1, <3>4
  <2>2. CASE q # d
    <3>1. Found(log, q) /\ q # k /\ Cur(n, q) = Cur(log, q)
      BY <1>2, <1>8, <1>9, <2>2
    <3> DEFINE x == Cur(log, q).data[j].ino
    <3>2. Found(log, x)
      BY <1>9, <3>1 DEF AllFound
    <3>3. Lists(log, q, x)
      BY <1>9, <3>1 DEF Lists
    <3>4. x # k
      BY <1>2, <1>6, <2>2, <3>3, ListedByDad
    <3> HIDE DEF x
    <3>5. Found(n, x)
      BY <1>2, <1>8, <3>2, <3>4
    <3>6. QED
      BY <3>1, <3>5 DEF x
  <2>3. QED
    BY <2>1, <2>2
<1>10. AllFound(n)
  BY <1>9 DEF AllFound
<1>11. QED
  BY <1>1, <1>10

LEMMA UnlinkAhead ==
  ASSUME NamesApart, WInv, NEW P, Placed(log, P), NEW p \in Paths, Unlink(p)
  PROVE  /\ Ahead(log') => Ahead(log)
         /\ Full => Full'
<1> DEFINE m == Marked(p)
           e == NewListing(p)
           k == log[Own(p)].ino
           d == log[Dad(p)].ino
           data == log[Dad(p)].data
           left == Left(p)
<1>0. Steady(log) /\ log \in Seq(LogEntries) /\ Steady(log')
  BY SteadyIs, UnlinkSteady DEF WInv
<1>1. /\ KernelWalks(p) /\ IsFile(log, p)
      /\ e \in LogEntries /\ e.ino = d /\ e.data = left
      /\ m \in Seq(LogEntries) /\ LogHead(m) = LogHead(log)
      /\ log' = IF UnlinkFits(p) THEN Append(m, e) ELSE m
      /\ UNCHANGED inst
  BY UnlinkDoes
<1>2. PICK h : LeftOut(p, h)
  BY <1>1, LeftIsOut
<1>3. \A i \in DOMAIN left : \E j \in DOMAIN data : left[i] = data[j]
  BY <1>2, LeftFrom
<1>4. Dad(p) \in DOMAIN log /\ log[Dad(p)].dir
  BY <1>1, DadIs DEF IsDir, Dad
<1>5. /\ DOMAIN m = DOMAIN log
      /\ \A i \in DOMAIN log : m[i].ino = log[i].ino /\ m[i].dir = log[i].dir
                               /\ m[i].data = log[i].data
  <2>1. /\ DOMAIN m = DOMAIN log
        /\ \A i \in DOMAIN log : log[i].ino # k => m[i] = log[i]
    BY <1>0, DeleteIs DEF Marked
  <2>2. \A i \in DOMAIN log : log[i].ino = k => MarkedAt(m, log, i)
    BY <1>0, DeleteMarks DEF Marked
  <2> HIDE DEF m, k
  <2>3. QED
    BY <2>1, <2>2 DEF MarkedAt
<1>6. \A j \in DOMAIN data :
        \E a \in DOMAIN log : log[a].dir /\
          \E b \in DOMAIN log[a].data : log[a].data[b].ino = data[j].ino
  BY <1>4
<1> HIDE DEF m, e, k, d, data, left
<1>7. /\ \A i \in DOMAIN log : i \in DOMAIN log' /\ log'[i] = m[i]
      /\ \A i \in DOMAIN log' : i \in DOMAIN log \/ log'[i] = e
  <2>1. CASE UnlinkFits(p)
    <3>1. log' = Append(m, e)
      BY <1>1, <2>1
    <3>2. /\ Append(m, e)[Len(m) + 1] = e
          /\ \A i \in DOMAIN m : Append(m, e)[i] = m[i] /\ i \in DOMAIN Append(m, e)
          /\ \A i \in DOMAIN Append(m, e) : i \in DOMAIN m \/ i = Len(m) + 1
      BY <1>1, AppendIs
    <3>3. QED
      BY <1>5, <3>1, <3>2
  <2>2. CASE ~UnlinkFits(p)
    BY <1>1, <1>5, <2>2
  <2>3. QED
    BY <2>1, <2>2
<1>8. ASSUME Ahead(log') PROVE Ahead(log)
  <2>1. \A i \in DOMAIN log : \E j \in DOMAIN log' : log'[j].ino = log[i].ino
    BY <1>5, <1>7
  <2>2. ASSUME NEW i \in DOMAIN log', log'[i].dir, NEW j \in DOMAIN log'[i].data
        PROVE  \E a \in DOMAIN log : log[a].dir /\
                 \E b \in DOMAIN log[a].data : log[a].data[b].ino = log'[i].data[j].ino
    <3>1. CASE i \in DOMAIN log
      BY <1>5, <1>7, <2>2, <3>1
    <3>2. CASE log'[i] = e
      <4>1. j \in DOMAIN left /\ log'[i].data[j] = left[j]
        BY <1>1, <2>2, <3>2
      <4>2. PICK b \in DOMAIN data : left[j] = data[b]
        BY <1>3, <4>1
      <4>3. QED
        BY <1>6, <4>1, <4>2
    <3>3. QED
      BY <1>7, <3>1, <3>2
  <2>3. QED
    BY <1>0, <1>8, <2>1, <2>2, AheadStays
<1>9. Full => Full'
  <2>1. LogHead(log) \in Nat /\ DiskSize \in Nat /\ EntrySize(e) \in Nat
    BY <1>0, <1>1, LogHeadNat, SizeIs, InstanceIs DEF WInv
  <2>2. DiskSize' = DiskSize
    BY <1>1 DEF DiskSize
  <2>3. LogHead(Append(m, e)) = LogHead(m) + EntrySize(e)
    BY <1>1, LogHeadAppend
  <2>4. LogHead(log') = LogHead(log) \/ LogHead(log') = LogHead(log) + EntrySize(e)
    BY <1>1, <2>3
  <2>5. ASSUME LogHead(log) + ENTRY > DiskSize PROVE LogHead(log') + ENTRY > DiskSize'
    BY <2>1, <2>2, <2>4, <2>5 DEF ENTRY
  <2>6. QED
    BY <2>5 DEF Full
<1>10. QED
  BY <1>8, <1>9

-----------------------------------------------------------------------------
LEMMA MkfsTree ==
  ASSUME Mkfs
  PROVE  TreeInv
<1> DEFINE e == Newborn(0, TRUE)
           P == [k \in Nat |-> << >>]
<1>1. log = << e >> /\ e \in LogEntries /\ WInv
  BY MkfsSteady
<1>2. e.ino = 0 /\ e.data = << >>
  BY NewbornIs
<1>3. tree = Visible(log) /\ cut = FALSE
  BY DEF Mkfs
<1> HIDE DEF e
<1>4. DOMAIN log = {1} /\ log[1] = e /\ log \in Seq(LogEntries) /\ Steady(log)
  BY <1>1, SteadyIs DEF WInv
<1>5. ASSUME NEW k, Found(log, k) PROVE k = 0 /\ Cur(log, k) = e
  <2>1. find_latest_log_entry(log, k) \in DOMAIN log /\ Cur(log, k).ino = k
    BY <1>4, <1>5, CurIs
  <2>2. find_latest_log_entry(log, k) = 1
    BY <1>4, <2>1
  <2>3. QED
    BY <1>2, <1>4, <2>1, <2>2 DEF Cur
<1>6. DOMAIN e.data = {}
  BY <1>2
<1>7. AllFound(log)
  BY <1>5, <1>6 DEF AllFound
<1>8. ~Ahead(log)
  BY <1>4, <1>6 DEF Ahead
<1>9. Placed(log, P)
  <2>1. P \in [Nat -> Paths] /\ P[0] = << >>
    BY WfsAssumption
  <2> HIDE DEF P
  <2>2. PathsApart(log, P)
    BY <1>5 DEF PathsApart
  <2>3. Named(log, P)
    BY <1>4, <1>6 DEF Named
  <2>4. Listed(log)
    BY <1>5 DEF Listed
  <2>5. ListedOnce(log)
    BY <1>5, <1>6 DEF ListedOnce
  <2>6. QED
    BY <2>1, <2>2, <2>3, <2>4, <2>5 DEF Placed
<1> HIDE DEF P
<1>10. QED
  BY <1>1, <1>3, <1>7, <1>8, <1>9 DEF TreeInv

LEMMA TreeInvStep ==
  ASSUME NamesApart, TreeInv, [WfsNext]_wfsvars, [cut => UNCHANGED fscks]_wfsvars
  PROVE  TreeInv'
<1>0. WInv /\ tree = Visible(log) /\ cut \in BOOLEAN /\ (~cut => AllFound(log))
      /\ (Ahead(log) => Full)
  BY DEF TreeInv
<1>1. PICK P : Placed(log, P)
  BY DEF TreeInv
<1>2. WInv'
  BY <1>0, WInvStep
<1>3. ASSUME tree' = Visible(log'), cut' \in BOOLEAN, ~cut' => AllFound(log'),
             Ahead(log') => Full', NEW Q, Placed(log', Q)
      PROVE  TreeInv'
  BY <1>2, <1>3 DEF TreeInv
<1>4. ASSUME NEW p \in Paths, NEW dir \in BOOLEAN, Make(p, dir) PROVE TreeInv'
  <2>1. tree' = Visible(log') /\ cut' = (cut \/ ~MakeFits(p))
    BY <1>0, <1>4, MakeDoes
  <2>2. /\ MakeFits(p) => Placed(log', MadePaths(P, p)) /\ ~Ahead(log')
        /\ ~MakeFits(p) => Placed(log', P) /\ Full'
    BY <1>0, <1>1, <1>4, MakePlaced, MakeAhead
  <2>3. ~cut' => AllFound(log')
    BY <1>0, <1>1, <1>4, <2>1, MakeFound
  <2>4. cut' \in BOOLEAN
    BY <2>1
  <2>5. QED
    BY <1>3, <2>1, <2>2, <2>3, <2>4
<1>5. ASSUME NEW p \in Paths, NEW o \in Offsets, NEW v \in Bytes, Write(p, o, v) PROVE TreeInv'
  <2>1. tree' = Visible(log') /\ cut' = cut
    BY <1>0, <1>5, WriteDoes
  <2>2. /\ Placed(log', P)
        /\ AllFound(log) => AllFound(log')
        /\ Ahead(log') => Ahead(log)
        /\ Full => Full'
    BY <1>0, <1>1, <1>5, WriteTree
  <2>3. QED
    BY <1>0, <1>3, <2>1, <2>2
<1>6. ASSUME NEW p \in Paths, Unlink(p) PROVE TreeInv'
  <2>1. tree' = Visible(log') /\ cut' = (cut \/ ~UnlinkFits(p))
    BY <1>0, <1>6, UnlinkDoes
  <2>2. /\ Placed(log', P)
        /\ Ahead(log') => Ahead(log)
        /\ Full => Full'
    BY <1>0, <1>1, <1>6, UnlinkPlaced, UnlinkAhead
  <2>3. ~cut' => AllFound(log')
    BY <1>0, <1>1, <1>6, <2>1, UnlinkFound
  <2>4. cut' \in BOOLEAN
    BY <2>1
  <2>5. QED
    BY <1>0, <1>3, <2>1, <2>2, <2>3, <2>4
<1>7. ASSUME Fsck PROVE TreeInv'
  <2>1. tree' = Visible(log') /\ cut' = cut /\ fscks' = fscks + 1
    BY <1>7 DEF Fsck
  <2>2. ~cut
    <3>1. fscks \in Nat
      BY <1>0, InstanceIs DEF WInv, WfsTypeOK
    <3>2. fscks' # fscks
      BY <2>1, <3>1
    <3>3. QED
      BY <3>2 DEF wfsvars
  <2>3. Placed(log', P) /\ AllFound(log') /\ ~Ahead(log')
    BY <1>0, <1>1, <1>7, <2>2, FsckTree
  <2>4. QED
    BY <1>0, <1>3, <2>1, <2>3
<1>8. CASE UNCHANGED wfsvars
  <2>1. log' = log /\ tree' = tree /\ cut' = cut /\ inst' = inst
    BY <1>8 DEF wfsvars
  <2>2. Full' = Full
    BY <2>1 DEF Full, DiskSize
  <2>3. QED
    BY <1>0, <1>1, <1>3, <2>1, <2>2
<1>9. QED
  BY <1>4, <1>5, <1>6, <1>7, <1>8 DEF WfsNext

(* fsck.wfs is run only on a disk where no call has been cut short.  After *)
(* one that has, a name may be left without its inode, and compaction      *)
(* makes the next create give that inode's number away.                    *)
NoFsckAfterCut == [][cut => UNCHANGED fscks]_wfsvars

LEMMA PathEnds ==
  ASSUME NEW p \in Paths, p # << >>
  PROVE  Append(Parent(p), Filename(p)) = p
<1>1. p \in Seq(Names) /\ Len(p) \in Nat
  BY PathsAre DEF PathIs
<1>2. Len(p) # 0
  BY <1>1
<1>3. QED
  BY <1>1, <1>2 DEF Parent, Filename

LEMMA TreeInvLists ==
  ASSUME NamesApart, TreeInv
  PROVE  ListedNamesExist
<1>0. Steady(log) /\ (~cut => AllFound(log))
  BY DEF TreeInv, WInv
<1>1. PICK P : Placed(log, P)
  BY DEF TreeInv
<1>2. SUFFICES ASSUME NEW p \in Paths, IsDir(log, p), ~cut
      PROVE  LET list == log[find_log_entry_by_path(log, p)].data IN
             /\ \A i \in DOMAIN list : Exists(log, Append(p, list[i].name))
             /\ \A i, j \in DOMAIN list : list[i].name = list[j].name => i = j
             /\ \A q \in Paths : q # << >> /\ Parent(q) = p /\ Exists(log, q) =>
                  \E i \in DOMAIN list : list[i].name = Filename(q)
  BY DEF ListedNamesExist
<1> DEFINE x == log[find_log_entry_by_path(log, p)]
           d == x.ino
           list == x.data
<1>3. /\ Live(log, P, p, d) /\ Cur(log, d) = x /\ x.dir
  BY <1>0, <1>1, <1>2, ExistsLive DEF IsDir
<1>4. d \in Nat /\ Found(log, d) /\ P[d] = p
  BY <1>3 DEF Live
<1>5. x \in LogEntries /\ list \in Seq(Dentries)
  BY <1>0, <1>3, <1>4, CurIs
<1>6. \A j \in DOMAIN list : list[j].ino \in Nat
  <2> HIDE DEF list
  <2> TAKE j \in DOMAIN list
  <2>1. list[j] \in Dentries
    BY <1>5
  <2>2. QED
    BY <2>1 DEF Dentries
<1>7. \A j \in DOMAIN list : Found(log, list[j].ino) /\ Lists(log, d, list[j].ino)
  BY <1>0, <1>2, <1>3, <1>4 DEF AllFound, Lists
<1>8. \A i, j \in DOMAIN list : list[i].ino = list[j].ino => i = j
  BY <1>1, <1>3, <1>4 DEF Placed, ListedOnce
<1>9. \A j \in DOMAIN list : NamedRight(log, P, d, list[j])
  <2>1. find_latest_log_entry(log, d) \in DOMAIN log
    BY <1>0, <1>4, CurIs
  <2>2. x = log[find_latest_log_entry(log, d)]
    BY <1>3 DEF Cur
  <2>3. QED
    BY <1>1, <1>3, <2>1, <2>2 DEF Placed, Named
<1> HIDE DEF x, d, list
<1>10. ASSUME NEW j \in DOMAIN list
       PROVE  /\ P[list[j].ino] = Append(p, list[j].name)
              /\ Append(p, list[j].name) \in Paths
              /\ Live(log, P, Append(p, list[j].name), list[j].ino)
  <2> DEFINE k == list[j].ino
             q == P[k]
  <2>1. q # << >> /\ Filename(q) = list[j].name /\ Parent(q) = p
    BY <1>4, <1>7, <1>9 DEF NamedRight
  <2>2. q \in Paths
    BY <1>1, <1>6 DEF Placed
  <2> HIDE DEF q
  <2>3. q = Append(p, list[j].name)
    BY <2>1, <2>2, PathEnds
  <2>4. QED
    BY <1>6, <1>7, <2>2, <2>3 DEF Live, q
<1>11. \A j \in DOMAIN list : Exists(log, Append(p, list[j].name))
  BY <1>0, <1>1, <1>10, ExistsIs
<1>12. ASSUME NEW i \in DOMAIN list, NEW j \in DOMAIN list, list[i].name = list[j].name
       PROVE  i = j
  <2>1. P[list[i].ino] = P[list[j].ino]
    BY <1>10, <1>12
  <2>2. list[i].ino = list[j].ino
    BY <1>1, <1>6, <1>7, <2>1 DEF Placed, PathsApart
  <2>3. QED
    BY <1>8, <2>2
<1>13. ASSUME NEW q \in Paths, q # << >>, Parent(q) = p, Exists(log, q)
       PROVE  \E i \in DOMAIN list : list[i].name = Filename(q)
  <2>1. PICK k : Live(log, P, q, k)
    BY <1>0, <1>1, <1>13, ExistsIs
  <2>2. PICK f \in Nat : Lists(log, f, k) /\ Live(log, P, Parent(q), f)
    BY <1>0, <1>1, <1>13, <2>1, LiveParent
  <2>3. f = d
    BY <1>1, <1>3, <1>13, <2>2, LiveOnce
  <2>4. PICK i \in DOMAIN list : list[i].ino = k
    BY <1>3, <2>2, <2>3 DEF Lists, list
  <2>5. Filename(q) = list[i].name
    BY <1>9, <2>1, <2>4 DEF NamedRight, Live
  <2>6. QED
    BY <2>5
<1>14. QED
  BY <1>11, <1>12, <1>13 DEF list, x

-----------------------------------------------------------------------------
(* The tree that the latest versions of the directories make stays a tree  *)
(* through every call, and through fsck.wfs.                               *)
THEOREM TreeInductive ==
  ASSUME NamesApart
  PROVE  WfsSpec /\ NoFsckAfterCut => []TreeInv
<1>1. Mkfs => TreeInv
  BY MkfsTree
<1>2. TreeInv /\ [WfsNext]_wfsvars /\ [cut => UNCHANGED fscks]_wfsvars => TreeInv'
  BY TreeInvStep
<1>3. QED
  BY <1>1, <1>2, PTL DEF WfsSpec, NoFsckAfterCut

(* The scan of find_log_entry_by_path through the whole log, old versions  *)
(* of directories included, ends where a walk from the root would.         *)
THEOREM LookupsWalk ==
  ASSUME NamesApart
  PROVE  WfsSpec /\ NoFsckAfterCut => []LookupFollowsTree
<1>1. TreeInv => LookupFollowsTree
  BY LookupWalks DEF TreeInv, WInv
<1>2. QED
  BY <1>1, TreeInductive, PTL

(* No two paths share an inode: find_max_inode_number plus one has never   *)
(* been given to a file that still has a name.                             *)
THEOREM InodesHaveOnePath ==
  ASSUME NamesApart
  PROVE  WfsSpec /\ NoFsckAfterCut => []NoAliases
<1>1. TreeInv => NoAliases
  BY PlacedApart DEF TreeInv, WInv
<1>2. QED
  BY <1>1, TreeInductive, PTL

(* wfs_readdir lists the names that exist, once each, as long as no call   *)
(* has run out of space half done.                                         *)
THEOREM NamesListed ==
  ASSUME NamesApart
  PROVE  WfsSpec /\ NoFsckAfterCut => []ListedNamesExist
<1>1. TreeInv => ListedNamesExist
  BY TreeInvLists
<1>2. QED
  BY <1>1, TreeInductive, PTL

-----------------------------------------------------------------------------
(***************************************************************************)
(* Wfs: the refinement of FileTree.                                        *)
(***************************************************************************)

(* What getattr and read show of an entry. *)
View(e) ==
  IF e.dir THEN [kind |-> "dir", data |-> << >>] ELSE [kind |-> "file", data |-> e.data]

LEMMA NodeIs ==
  ASSUME NamesApart, NEW l, Steady(l), NEW P, Placed(l, P), NEW q \in Paths
  PROVE  /\ \A k : Live(l, P, q, k) => Node(l, q) = View(Cur(l, k))
         /\ (~\E k : Live(l, P, q, k)) => Node(l, q) = [kind |-> "absent", data |-> << >>]
<1>1. ASSUME NEW k, Live(l, P, q, k) PROVE Node(l, q) = View(Cur(l, k))
  <2>1. Exists(l, q) /\ find_log_entry_by_path(l, q) = find_latest_log_entry(l, k)
    BY <1>1, ExistsIs
  <2>2. l[find_log_entry_by_path(l, q)] = Cur(l, k)
    BY <2>1 DEF Cur
  <2>3. QED
    BY <2>1, <2>2 DEF Node, View, IsDir
<1>2. ASSUME ~\E k : Live(l, P, q, k)
      PROVE  Node(l, q) = [kind |-> "absent", data |-> << >>]
  <2>1. ~Exists(l, q)
    BY <1>2, ExistsIs
  <2>2. QED
    BY <2>1 DEF Node
<1>3. QED
  BY <1>1, <1>2

(* A path that leads to the same inode, with the same view, looks the same. *)
LEMMA NodeSame ==
  ASSUME NamesApart, NEW l, Steady(l), NEW P, Placed(l, P),
         NEW m, Steady(m), NEW Q, Placed(m, Q), NEW q \in Paths,
         \A k : Live(m, Q, q, k) <=> Live(l, P, q, k),
         \A k : Live(l, P, q, k) => View(Cur(m, k)) = View(Cur(l, k))
  PROVE  Node(m, q) = Node(l, q)
<1>1. CASE \E k : Live(l, P, q, k)
  <2>1. PICK k : Live(l, P, q, k)
    BY <1>1
  <2>2. Node(l, q) = View(Cur(l, k)) /\ Node(m, q) = View(Cur(m, k))
    BY <2>1, NodeIs
  <2>3. QED
    BY <2>1, <2>2
<1>2. CASE ~\E k : Live(l, P, q, k)
  BY <1>2, NodeIs
<1>3. QED
  BY <1>1, <1>2

LEMMA VisibleIs ==
  ASSUME NEW l
  PROVE  DOMAIN Visible(l) = Paths /\ \A q \in Paths : Visible(l)[q] = Node(l, q)
  BY DEF Visible

LEMMA VisibleSame ==
  ASSUME NEW l, NEW m, \A q \in Paths : Node(m, q) = Node(l, q)
  PROVE  Visible(m) = Visible(l)
  BY DEF Visible

LEMMA VisibleBut ==
  ASSUME NEW l, NEW m, NEW p \in Paths, NEW x, Node(m, p) = x,
         \A q \in Paths : q # p => Node(m, q) = Node(l, q)
  PROVE  Visible(m) = [Visible(l) EXCEPT ![p] = x]
  BY DEF Visible

-----------------------------------------------------------------------------
(* The steps of the tree. *)
LEMMA TreeCreate ==
  ASSUME NEW p \in Paths \ {<< >>}, NEW dir \in BOOLEAN,
         tree[p] = [kind |-> "absent", data |-> << >>],
         tree[Parent(p)] = [kind |-> "dir", data |-> << >>],
         tree' = [tree EXCEPT ![p] = View(Newborn(NewNumber, dir))]
  PROVE  Tree!Next
<1>1. View(Newborn(NewNumber, dir)) = IF dir THEN Tree!Dir ELSE Tree!File(<< >>)
  BY DEF View, Newborn, Tree!Dir, Tree!File
<1>2. tree[p] = Tree!Absent /\ tree[Tree!Parent(p)] = Tree!Dir
  BY DEF Tree!Absent, Tree!Dir, Tree!Parent, Parent
<1>3. Tree!Create(p, Tree!Dir) \/ Tree!Create(p, Tree!File(<< >>))
  BY <1>1, <1>2 DEF Tree!Create
<1>4. QED
  BY <1>3 DEF Tree!Next, Tree!Root

LEMMA TreeUnlink ==
  ASSUME NEW p \in Paths \ {<< >>}, tree[p].kind = "file",
         tree' = [tree EXCEPT ![p] = [kind |-> "absent", data |-> << >>]]
  PROVE  Tree!Next
<1>1. Tree!Unlink(p)
  BY DEF Tree!Unlink, Tree!Absent
<1>2. QED
  BY <1>1 DEF Tree!Next, Tree!Root

LEMMA WriteAtIs ==
  ASSUME NEW s \in Seq(Bytes \cup {0}), NEW o \in Offsets, NEW v
  PROVE  Tree!WriteAt(s, o, v) = NewData(s, o, v)
<1>1. o \in Nat /\ Len(s) \in Nat
  BY WfsAssumption
<1>2. (IF Len(s) > o THEN Len(s) ELSE o + 1) = (IF o + 1 > Len(s) THEN o + 1 ELSE Len(s))
  BY <1>1
<1>3. QED
  BY <1>2, Zenon DEF Tree!WriteAt, NewData

Rewritten(t, p, y) == [t EXCEPT ![p].data = y]

LEMMA ExceptData ==
  ASSUME NEW t, NEW p \in DOMAIN t, NEW s, NEW y, t[p] = [kind |-> "file", data |-> s]
  PROVE  [t EXCEPT ![p] = [kind |-> "file", data |-> y]] = Rewritten(t, p, y)
<1>1. [t[p] EXCEPT !.data = y] = [kind |-> "file", data |-> y]
  OBVIOUS
<1>2. [t EXCEPT ![p].data = y] = [t EXCEPT ![p] = [t[p] EXCEPT !.data = y]]
  OBVIOUS
<1>3. QED
  BY <1>1, <1>2 DEF Rewritten

LEMMA TreeWrite ==
  ASSUME NEW p \in Paths \ {<< >>}, NEW o \in Offsets, NEW v \in Bytes,
         NEW s \in Seq(Bytes \cup {0}), p \in DOMAIN tree,
         tree[p] = [kind |-> "file", data |-> s],
         tree' = [tree EXCEPT ![p] = [kind |-> "file", data |-> NewData(s, o, v)]]
  PROVE  Tree!Next
<1>1. tree[p].data = s /\ tree[p].kind = "file"
  OBVIOUS
<1>2. Tree!WriteAt(s, o, v) = NewData(s, o, v)
  BY WriteAtIs
<1> DEFINE y == Tree!WriteAt(s, o, v)
<1>3. tree' = [tree EXCEPT ![p] = [kind |-> "file", data |-> y]]
  BY <1>2
<1> HIDE DEF y
<1>4. tree' = Rewritten(tree, p, y)
  BY <1>3, ExceptData
<1>5. Tree!Write(p, o, v)
  BY <1>1, <1>4 DEF Tree!Write, Rewritten, y
<1>6. QED
  BY <1>5 DEF Tree!Next, Tree!Root

LEMMA MkfsMaps ==
  ASSUME NamesApart, Mkfs
  PROVE  Tree!Init
<1> DEFINE e == Newborn(0, TRUE)
<1>1. log = << e >> /\ e \in LogEntries /\ e.ino = 0 /\ e.dir = TRUE /\ Steady(log)
  BY MkfsSteady, NewbornIs DEF WInv
<1>2. PICK P : Placed(log, P)
  BY MkfsTree DEF TreeInv
<1> HIDE DEF e
<1>3. DOMAIN log = {1} /\ log[1] = e
  BY <1>1
<1>4. ASSUME NEW k, Found(log, k) PROVE k = 0 /\ Cur(log, k) = e
  <2>1. find_latest_log_entry(log, k) \in DOMAIN log /\ Cur(log, k).ino = k
    BY <1>1, <1>4, CurIs
  <2>2. find_latest_log_entry(log, k) = 1
    BY <1>3, <2>1
  <2>3. QED
    BY <1>1, <1>3, <2>1, <2>2 DEF Cur
<1>5. Live(log, P, << >>, 0)
  BY <1>1, <1>2, RootLive
<1>6. Node(log, << >>) = Tree!Dir
  <2>1. Node(log, << >>) = View(Cur(log, 0))
    BY <1>1, <1>2, <1>5, NodeIs, WfsAssumption
  <2>2. Cur(log, 0) = e
    BY <1>4, <1>5 DEF Live
  <2>3. QED
    BY <1>1, <2>1, <2>2 DEF View, Tree!Dir
<1>7. ASSUME NEW q \in Paths, q # << >> PROVE Node(log, q) = Tree!Absent
  <2>1. ASSUME NEW k, Live(log, P, q, k) PROVE FALSE
    <3>1. k = 0 /\ P[0] = q /\ P[0] = << >>
      BY <1>2, <1>4, <2>1 DEF Live, Placed
    <3>2. QED
      BY <1>7, <3>1
  <2>2. Node(log, q) = [kind |-> "absent", data |-> << >>]
    BY <1>1, <1>2, <2>1, NodeIs
  <2>3. QED
    BY <2>2 DEF Tree!Absent
<1>8. tree = Visible(log)
  BY DEF Mkfs
<1>9. QED
  BY <1>6, <1>7, <1>8 DEF Tree!Init, Tree!Root, Visible

(* What a call knows of the path it names and of its parent. *)
LEMMA ParentIsDir ==
  ASSUME WInv, NEW p \in Paths, KernelWalks(p)
  PROVE  p # << >> /\ Parent(p) \in Paths /\ Node(log, Parent(p)) = [kind |-> "dir", data |-> << >>]
<1>1. p # << >> /\ Parent(p) \in Paths /\ IsDir(log, Parent(p))
  BY DadIs
<1>2. QED
  BY <1>1 DEF Node, IsDir

-----------------------------------------------------------------------------
LEMMA MakeMaps ==
  ASSUME NamesApart, TreeInv, NEW p \in Paths, NEW dir \in BOOLEAN, Make(p, dir)
  PROVE  Tree!Next \/ UNCHANGED tree
<1> DEFINE m == Append(log, NewParent(p))
           c == Newborn(NewNumber, dir)
           n == Append(m, c)
           d == log[Dad(p)].ino
<1>0. WInv /\ Steady(log) /\ tree = Visible(log) /\ (Ahead(log) => Full)
  BY DEF TreeInv, WInv
<1>1. PICK P : Placed(log, P)
  BY DEF TreeInv
<1>2. /\ KernelWalks(p) /\ ~Exists(log, p)
      /\ log' = IF MakeFits(p) THEN n ELSE m
      /\ tree' = Visible(log')
  BY <1>0, MakeDoes
<1>3. /\ ~Ahead(log)
      /\ MakeFits(p) => Placed(log', MadePaths(P, p))
      /\ ~MakeFits(p) => Placed(log', P)
  BY <1>0, <1>1, MakePlaced
<1>4. /\ Steady(m) /\ Placed(m, P)
      /\ \A k : Found(m, k) <=> Found(log, k)
      /\ \A k : Found(log, k) /\ k # d => Cur(m, k) = Cur(log, k)
      /\ Cur(m, d) = NewParent(p) /\ Cur(log, d) = log[Dad(p)]
  BY <1>0, <1>1, <1>2, <1>3, MadeParent
<1>5. NewParent(p).dir = TRUE /\ log[Dad(p)].dir = TRUE
  BY <1>0, <1>2, NewParentFields, DadIs DEF IsDir, Dad
<1>6. View(NewParent(p)) = View(log[Dad(p)])
  BY <1>5 DEF View
<1>7. NewNumber \in Nat /\ ~Found(log, NewNumber)
  BY <1>0, NewNumberIs, NewNumberFree
<1>8. /\ c \in LogEntries /\ c.ino = NewNumber /\ ~c.deleted
  BY <1>7, NewbornIs
<1> HIDE DEF m, d, c
<1>9. \A k : Live(log, P, p, k) => Live(m, P, p, k)
  BY <1>4 DEF Live
<1>10. \A k : Found(log, k) => View(Cur(m, k)) = View(Cur(log, k))
  BY <1>4, <1>6
<1>11. CASE ~MakeFits(p)
  <2>1. ASSUME NEW q \in Paths PROVE Node(m, q) = Node(log, q)
    <3>1. \A k : Live(m, P, q, k) <=> Live(log, P, q, k)
      BY <1>4 DEF Live
    <3>2. \A k : Live(log, P, q, k) => View(Cur(m, k)) = View(Cur(log, k))
      BY <1>10 DEF Live
    <3>3. QED
      BY <1>0, <1>1, <1>4, <3>1, <3>2, NodeSame
  <2>2. Visible(m) = Visible(log)
    BY <2>1, VisibleSame
  <2>3. QED
    BY <1>0, <1>2, <1>11, <2>2
<1>12. CASE MakeFits(p)
  <2> DEFINE Q == MadePaths(P, p)
  <2>1. log' = n /\ Placed(n, Q)
    BY <1>2, <1>3, <1>12
  <2>2. Steady(n)
    BY <1>0, <2>1, MakeSteady
  <2>3. Q \in [Nat -> Paths] /\ Q[NewNumber] = p /\ \A k \in Nat : k # NewNumber => Q[k] = P[k]
    BY <1>1, <1>7 DEF Placed, MadePaths
  <2>4. \A k : /\ Found(n, k) <=> (k = NewNumber \/ Found(m, k))
               /\ k = NewNumber => Cur(n, k) = c
               /\ k # NewNumber /\ Found(m, k) => Cur(n, k) = Cur(m, k)
    BY <1>4, <1>8, AppendFound
  <2> HIDE DEF n, Q
  <2>5. ASSUME NEW q \in Paths, q # p PROVE Node(n, q) = Node(log, q)
    <3>1. \A k : Live(n, Q, q, k) <=> Live(log, P, q, k)
      <4> TAKE k
      <4>1. CASE k = NewNumber
        BY <1>7, <2>3, <2>5, <4>1 DEF Live
      <4>2. CASE k # NewNumber
        BY <1>4, <2>3, <2>4, <4>2 DEF Live
      <4>3. QED
        BY <4>1, <4>2
    <3>2. ASSUME NEW k, Live(log, P, q, k) PROVE View(Cur(n, k)) = View(Cur(log, k))
      <4>1. Found(log, k) /\ k # NewNumber
        BY <1>7, <3>2 DEF Live
      <4>2. Cur(n, k) = Cur(m, k)
        BY <1>4, <2>4, <4>1
      <4>3. QED
        BY <1>10, <4>1, <4>2
    <3>3. QED
      BY <1>0, <1>1, <2>1, <2>2, <3>1, <3>2, NodeSame
  <2>6. Node(n, p) = View(c)
    <3>1. Live(n, Q, p, NewNumber) /\ Cur(n, NewNumber) = c
      BY <1>7, <2>3, <2>4 DEF Live
    <3>2. QED
      BY <2>1, <2>2, <3>1, NodeIs
  <2>7. Visible(n) = [Visible(log) EXCEPT ![p] = View(c)]
    BY <2>5, <2>6, VisibleBut
  <2>8. tree' = [tree EXCEPT ![p] = View(c)]
    BY <1>0, <1>2, <2>1, <2>7
  <2>9. /\ p # << >> /\ Parent(p) \in Paths
        /\ Node(log, Parent(p)) = [kind |-> "dir", data |-> << >>]
        /\ Node(log, p) = [kind |-> "absent", data |-> << >>]
    BY <1>0, <1>2, ParentIsDir DEF Node
  <2>10. /\ tree[p] = [kind |-> "absent", data |-> << >>]
         /\ tree[Parent(p)] = [kind |-> "dir", data |-> << >>]
    BY <1>0, <2>9, VisibleIs
  <2>11. Tree!Next
    BY <2>8, <2>9, <2>10, TreeCreate DEF c
  <2>12. QED
    BY <2>11
<1>13. QED
  BY <1>11, <1>12

LEMMA WriteMaps ==
  ASSUME NamesApart, TreeInv, NEW p \in Paths, NEW o \in Offsets, NEW v \in Bytes, Write(p, o, v)
  PROVE  Tree!Next
<1> DEFINE e == NewContents(p, o, v)
           m == Append(log, e)
           k == log[Own(p)].ino
           s == log[Own(p)].data
<1>0. WInv /\ Steady(log) /\ tree = Visible(log)
  BY DEF TreeInv, WInv
<1>1. PICK P : Placed(log, P)
  BY DEF TreeInv
<1>2. /\ KernelWalks(p) /\ IsFile(log, p)
      /\ e \in LogEntries /\ e.ino = k /\ e.dir = FALSE /\ e.deleted = FALSE
      /\ e.data = NewData(s, o, v)
      /\ log' = m /\ tree' = Visible(log')
  BY <1>0, WriteDoes
<1>3. Placed(m, P) /\ Steady(m)
  BY <1>0, <1>1, <1>2, WriteTree, WriteSteady
<1>4. s \in Seq(Bytes \cup {0}) /\ log[Own(p)].dir = FALSE
  BY <1>0, <1>2, OwnFileIs
<1>5. Live(log, P, p, k) /\ Cur(log, k) = log[Own(p)]
  BY <1>0, <1>1, <1>2, ExistsLive DEF Own, IsFile
<1> HIDE DEF e, k
<1>6. \A q : /\ Found(m, q) <=> (q = k \/ Found(log, q))
             /\ q = k => Cur(m, q) = e
             /\ q # k /\ Found(log, q) => Cur(m, q) = Cur(log, q)
  BY <1>0, <1>2, AppendFound
<1> HIDE DEF m
<1>7. \A q, j : Live(m, P, q, j) <=> Live(log, P, q, j)
  BY <1>5, <1>6 DEF Live
<1>8. ASSUME NEW q \in Paths, q # p PROVE Node(m, q) = Node(log, q)
  <2>1. ASSUME NEW j, Live(log, P, q, j) PROVE View(Cur(m, j)) = View(Cur(log, j))
    BY <1>5, <1>6, <1>8, <2>1 DEF Live
  <2>2. QED
    BY <1>0, <1>1, <1>3, <1>7, <2>1, NodeSame
<1>9. Node(m, p) = [kind |-> "file", data |-> NewData(s, o, v)]
  <2>1. Live(m, P, p, k) /\ Cur(m, k) = e
    BY <1>5, <1>6, <1>7
  <2>2. Node(m, p) = View(e)
    BY <1>3, <2>1, NodeIs
  <2>3. QED
    BY <1>2, <2>2 DEF View
<1>10. Node(log, p) = [kind |-> "file", data |-> s]
  BY <1>0, <1>1, <1>4, <1>5, NodeIs DEF View
<1>11. Visible(m) = [Visible(log) EXCEPT ![p] = [kind |-> "file", data |-> NewData(s, o, v)]]
  BY <1>8, <1>9, VisibleBut
<1>12. /\ tree' = [tree EXCEPT ![p] = [kind |-> "file", data |-> NewData(s, o, v)]]
       /\ tree[p] = [kind |-> "file", data |-> s] /\ p \in DOMAIN tree
  BY <1>0, <1>2, <1>10, <1>11, VisibleIs
<1>13. p # << >>
  BY <1>0, <1>2, DadIs
<1> HIDE DEF s
<1>14. QED
  BY <1>4, <1>12, <1>13, TreeWrite

LEMMA UnlinkMaps ==
  ASSUME NamesApart, TreeInv, NEW p \in Paths, Unlink(p)
  PROVE  Tree!Next
<1> DEFINE m == Marked(p)
           e == NewListing(p)
           k == log[Own(p)].ino
           d == log[Dad(p)].ino
<1>0. WInv /\ Steady(log) /\ tree = Visible(log)
  BY DEF TreeInv, WInv
<1>1. PICK P : Placed(log, P)
  BY DEF TreeInv
<1>2. /\ KernelWalks(p) /\ IsFile(log, p)
      /\ e \in LogEntries /\ e.ino = d /\ e.dir = TRUE /\ e.deleted = FALSE
      /\ log' = IF UnlinkFits(p) THEN Append(m, e) ELSE m
      /\ tree' = Visible(log')
  BY <1>0, UnlinkDoes
<1>3. Placed(log', P) /\ Steady(log')
  BY <1>0, <1>1, UnlinkPlaced, UnlinkSteady
<1>4. /\ Steady(m)
      /\ \A q : Found(m, q) <=> q # k /\ Found(log, q)
      /\ \A q : q # k /\ Found(log, q) => Cur(m, q) = Cur(log, q)
      /\ k # d /\ Live(log, P, p, k) /\ Found(log, d)
      /\ Cur(log, d) = log[Dad(p)] /\ Cur(log, k) = log[Own(p)]
  BY <1>0, <1>1, <1>2, MarkedTree DEF Live
<1>5. log[Dad(p)].dir = TRUE /\ log[Own(p)].dir = FALSE /\ p # << >>
  BY <1>0, <1>2, DadIs, OwnFileIs DEF IsDir, Dad
<1>6. View(e) = View(Cur(log, d))
  BY <1>2, <1>4, <1>5 DEF View
<1> HIDE DEF m, e, k, d
<1>7. \A q : /\ Found(log', q) <=> q # k /\ Found(log, q)
             /\ q # k /\ Found(log, q) => View(Cur(log', q)) = View(Cur(log, q))
  <2>1. CASE UnlinkFits(p)
    <3>1. log' = Append(m, e)
      BY <1>2, <2>1
    <3>2. \A q : /\ Found(Append(m, e), q) <=> (q = d \/ Found(m, q))
                 /\ q = d => Cur(Append(m, e), q) = e
                 /\ q # d /\ Found(m, q) => Cur(Append(m, e), q) = Cur(m, q)
      BY <1>2, <1>4, AppendFound
    <3>3. QED
      BY <1>4, <1>6, <3>1, <3>2
  <2>2. CASE ~UnlinkFits(p)
    <3>1. log' = m
      BY <1>2, <2>2
    <3>2. QED
      BY <1>4, <3>1
  <2>3. QED
    BY <2>1, <2>2
<1>8. \A q, j : Live(log', P, q, j) <=> j # k /\ Live(log, P, q, j)
  BY <1>7 DEF Live
<1>9. ASSUME NEW q \in Paths, q # p PROVE Node(log', q) = Node(log, q)
  <2>1. \A j : Live(log, P, q, j) => j # k
    BY <1>4, <1>9 DEF Live
  <2>2. \A j : Live(log', P, q, j) <=> Live(log, P, q, j)
    BY <1>8, <2>1
  <2>3. ASSUME NEW j, Live(log, P, q, j) PROVE View(Cur(log', j)) = View(Cur(log, j))
    BY <1>7, <2>1, <2>3 DEF Live
  <2>4. QED
    BY <1>0, <1>1, <1>3, <2>2, <2>3, NodeSame
<1>10. Node(log', p) = [kind |-> "absent", data |-> << >>]
  <2>1. ~\E j : Live(log', P, p, j)
    BY <1>1, <1>4, <1>8, LiveOnce
  <2>2. QED
    BY <1>3, <2>1, NodeIs
<1>11. Node(log, p).kind = "file"
  BY <1>0, <1>1, <1>4, <1>5, NodeIs DEF View
<1>12. Visible(log') = [Visible(log) EXCEPT ![p] = [kind |-> "absent", data |-> << >>]]
  BY <1>9, <1>10, VisibleBut
<1>13. /\ tree' = [tree EXCEPT ![p] = [kind |-> "absent", data |-> << >>]]
       /\ tree[p].kind = "file"
  BY <1>0, <1>2, <1>11, <1>12, VisibleIs
<1>14. QED
  BY <1>5, <1>13, TreeUnlink

LEMMA FsckMaps ==
  ASSUME NamesApart, TreeInv, Fsck
  PROVE  UNCHANGED tree
<1> DEFINE c == Compacted(log)
<1>0. Steady(log) /\ tree = Visible(log) /\ log' = c /\ tree' = Visible(log')
  BY DEF TreeInv, WInv, Fsck
<1>1. PICK P : Placed(log, P)
  BY DEF TreeInv
<1>2. Steady(c) /\ Placed(c, P)
  BY <1>0, <1>1, CompactedSteady, PlacedCompacted
<1>3. \A k : /\ Found(c, k) <=> Found(log, k)
             /\ Found(log, k) => Cur(c, k) = Cur(log, k)
  BY <1>0, CompactedFound
<1> HIDE DEF c
<1>4. ASSUME NEW q \in Paths PROVE Node(c, q) = Node(log, q)
  <2>1. \A k : Live(c, P, q, k) <=> Live(log, P, q, k)
    BY <1>3 DEF Live
  <2>2. \A k : Live(log, P, q, k) => View(Cur(c, k)) = View(Cur(log, k))
    BY <1>3 DEF Live
  <2>3. QED
    BY <1>0, <1>1, <1>2, <2>1, <2>2, NodeSame
<1>5. Visible(c) = Visible(log)
  BY <1>4, VisibleSame
<1>6. QED
  BY <1>0, <1>5

LEMMA StepMaps ==
  ASSUME NamesApart, TreeInv, [WfsNext]_wfsvars
  PROVE  [Tree!Next]_tree
<1>1. ASSUME UNCHANGED wfsvars PROVE UNCHANGED tree
  BY <1>1 DEF wfsvars
<1>2. QED
  BY <1>1, MakeMaps, WriteMaps, UnlinkMaps, FsckMaps DEF WfsNext

(* Through getattr and read, mount.wfs and fsck.wfs implement FileTree: a  *)
(* create, a write or an unlink changes the path it names and no other, a  *)
(* create cut short by the end of the disk and a compaction change nothing.*)
THEOREM WfsImplementsTree ==
  ASSUME NamesApart
  PROVE  WfsSpec /\ NoFsckAfterCut => ImplementsTree
<1>1. Mkfs => Tree!Init
  BY MkfsMaps
<1>2. TreeInv /\ [WfsNext]_wfsvars => [Tree!Next]_tree
  BY StepMaps
<1>3. QED
  BY <1>1, <1>2, TreeInductive, PTL DEF WfsSpec, ImplementsTree, Tree!Spec
=============================================================================
