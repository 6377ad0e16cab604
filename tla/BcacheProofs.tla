---------------------------- MODULE BcacheProofs ----------------------------
(* Proofs about Bcache for any number of processes, blocks and buffers: the *)
(* cache keeps a block in one buffer and a lock keeps one process in it.    *)
EXTENDS Bcache, FiniteSetTheorems, SequenceTheorems, TLAPS

Users(b) == {p \in Hands : buf[p] = b}
Holding == {"rw", "io", "use"}

(* The parts of the state that the argument is about. *)
Types ==
  /\ blockno \in [Buf -> Blocks \cup {None}]
  /\ refcnt \in [Buf -> Nat]
  /\ holder \in [Buf -> Hands \cup {None}]
  /\ pc \in [Hands -> {"idle", "lock", "put"} \cup Holding]
  /\ want \in [Hands -> Blocks \cup {None}]
  /\ buf \in [Hands -> Buf \cup {None}]

(* A process has a buffer from bget to brelse, and the count is of those. *)
Counted ==
  /\ \A p \in Hands : pc[p] = "idle" <=> buf[p] = None
  /\ \A b \in Buf : refcnt[b] = Cardinality(Users(b))

(* LockHolds, read in both directions. *)
Locked ==
  /\ \A p \in Hands : pc[p] \in Holding => holder[buf[p]] = p
  /\ \A b \in Buf : holder[b] # None =>
       buf[holder[b]] = b /\ pc[holder[b]] \in Holding

IInv == Types /\ Counted /\ OneBufferPerBlock /\ Locked

LEMMA UsersFinite == \A b : IsFiniteSet(Users(b))
  BY FS_Subset, BcacheAssumption DEF Users

(* A buffer whose count is zero is nobody's: what bget relies on when it *)
(* gives the buffer to another block.                                    *)
LEMMA ZeroIsUnused ==
  ASSUME Types, Counted, NEW b \in Buf, refcnt[b] = 0
  PROVE  \A p \in Hands : buf[p] # b
<1>1. Cardinality(Users(b)) = 0
  BY DEF Counted
<1>2. Users(b) = {}
  BY <1>1, UsersFinite, FS_EmptySet
<1> QED
  BY <1>2 DEF Users

(* bget counts the process it gives the buffer to. *)
LEMMA TakeCounted ==
  ASSUME Types, Counted, NEW p \in Hands, NEW b \in Buf, pc[p] = "idle",
         buf' = [buf EXCEPT ![p] = b], pc' = [pc EXCEPT ![p] = "lock"],
         refcnt' = [refcnt EXCEPT ![b] = refcnt[b] + 1]
  PROVE  Counted'
<1>1. buf[p] = None /\ b # None
  BY BcacheAssumption DEF Counted, Buf
<1>2. \A q \in Hands : pc'[q] = "idle" <=> buf'[q] = None
  BY <1>1 DEF Types, Counted
<1>3. \A c \in Buf : refcnt'[c] = Cardinality(Users(c)')
  <2> SUFFICES ASSUME NEW c \in Buf PROVE refcnt'[c] = Cardinality(Users(c)')
    OBVIOUS
  <2>1. CASE c = b
    <3>1. Users(b)' = Users(b) \cup {p} /\ p \notin Users(b)
      BY <1>1 DEF Types, Users
    <3>2. Cardinality(Users(b) \cup {p}) = Cardinality(Users(b)) + 1
      BY <3>1, UsersFinite, FS_AddElement
    <3> QED
      BY <2>1, <3>1, <3>2 DEF Types, Counted
  <2>2. CASE c # b
    <3>1. Users(c)' = Users(c)
      BY <1>1, <2>2, BcacheAssumption DEF Types, Users, Buf
    <3> QED
      BY <2>2, <3>1 DEF Types, Counted
  <2> QED
    BY <2>1, <2>2
<1> QED
  BY <1>2, <1>3 DEF Counted

(* brelse uncounts the process that held the buffer. *)
LEMMA PutCounted ==
  ASSUME Types, Counted, NEW p \in Hands, NEW b \in Buf, buf[p] = b,
         buf' = [buf EXCEPT ![p] = None], pc' = [pc EXCEPT ![p] = "idle"],
         refcnt' = [refcnt EXCEPT ![b] = refcnt[b] - 1]
  PROVE  Counted' /\ refcnt' \in [Buf -> Nat]
<1>1. \A q \in Hands : pc'[q] = "idle" <=> buf'[q] = None
  BY DEF Types, Counted
<1>2. Users(b)' = Users(b) \ {p} /\ p \in Users(b)
  BY BcacheAssumption DEF Types, Users, Buf
<1>3. Cardinality(Users(b) \ {p}) = Cardinality(Users(b)) - 1
  BY <1>2, UsersFinite, FS_RemoveElement
<1>4. Cardinality(Users(b) \ {p}) \in Nat
  BY UsersFinite, FS_RemoveElement, FS_CardinalityType
<1>5. \A c \in Buf \ {b} : Users(c)' = Users(c)
  BY BcacheAssumption DEF Types, Users, Buf
<1>6. refcnt[b] = Cardinality(Users(b))
  BY DEF Counted
<1>7. refcnt'[b] = Cardinality(Users(b)') /\ refcnt'[b] \in Nat
  BY <1>2, <1>3, <1>4, <1>6 DEF Types
<1>8. \A c \in Buf \ {b} : refcnt'[c] = Cardinality(Users(c)')
  BY <1>5 DEF Types, Counted
<1>9. refcnt' \in [Buf -> Nat]
  BY <1>7 DEF Types
<1>10. \A c \in Buf : refcnt'[c] = Cardinality(Users(c)')
  BY <1>7, <1>8 DEF Users
<1> QED
  BY <1>1, <1>9, <1>10 DEF Counted

LEMMA InitIInv == Init => IInv
<1> SUFFICES ASSUME Init PROVE IInv
  OBVIOUS
<1>1. Types
  BY DEF Init, Types, Holding
<1>2. Counted
  <2>1. \A b \in Buf : Users(b) = {}
    BY BcacheAssumption DEF Init, Users, Buf
  <2> QED
    BY <2>1, FS_EmptySet DEF Init, Counted
<1>3. OneBufferPerBlock /\ Locked
  BY DEF Init, OneBufferPerBlock, Locked, Holding
<1> QED
  BY <1>1, <1>2, <1>3 DEF IInv

(* A process that gets a reference to a buffer that holds its block. *)
LEMMA HitIInv ==
  ASSUME IInv, NEW p \in Hands, NEW blk \in Blocks, bget_hit(p, blk)
  PROVE  IInv'
<1> USE DEF IInv
<1>1. PICK b \in Buf :
        /\ blockno[b] = blk /\ pc[p] = "idle"
        /\ refcnt' = [refcnt EXCEPT ![b] = refcnt[b] + 1]
        /\ Take(p, b, blk)
        /\ UNCHANGED <<blockno, holder>>
  BY DEF bget_hit, Cached
<1>2. buf[p] = None /\ b # None
  BY <1>1, BcacheAssumption DEF Counted, Buf
<1>3. Types'
  BY <1>1 DEF Types, Take
<1>4. Counted'
  BY <1>1, TakeCounted DEF Take
<1>5. OneBufferPerBlock'
  BY <1>1 DEF OneBufferPerBlock, Types, Take
<1>6. Locked'
  BY <1>1, <1>2 DEF Locked, Types, Take, Holding
<1> QED
  BY <1>3, <1>4, <1>5, <1>6

(* A buffer that nobody has is given to another block. *)
LEMMA MissIInv ==
  ASSUME IInv, NEW p \in Hands, NEW blk \in Blocks, bget_miss(p, blk)
  PROVE  IInv'
<1> USE DEF IInv
<1>1. CASE Unused = {}
  <2>1. UNCHANGED <<blockno, refcnt, holder, pc, want, buf>>
    BY <1>1 DEF bget_miss, procs
  <2> QED
    BY <2>1 DEF Types, Counted, Users, OneBufferPerBlock, Locked
<1>2. CASE Unused # {}
  <2>1. PICK b \in Buf :
          /\ Victim(b) /\ pc[p] = "idle" /\ Cached(blk) = {}
          /\ blockno' = [blockno EXCEPT ![b] = blk]
          /\ refcnt' = [refcnt EXCEPT ![b] = 1]
          /\ Take(p, b, blk)
          /\ holder' = holder
    BY <1>2 DEF bget_miss
  <2>2. refcnt[b] = 0 /\ \A c \in Buf : blockno[c] # blk
    BY <2>1 DEF Victim, Unused, Cached
  <2>3. \A q \in Hands : buf[q] # b
    BY <2>2, ZeroIsUnused
  <2>4. buf[p] = None /\ b # None /\ blk # None
    BY <2>1, BcacheAssumption DEF Counted, Buf
  <2>5. Types'
    BY <2>1 DEF Types, Take
  <2>6. Counted'
    <3>1. refcnt' = [refcnt EXCEPT ![b] = refcnt[b] + 1]
      BY <2>1, <2>2
    <3> QED
      BY <2>1, <3>1, TakeCounted DEF Take
  <2>7. OneBufferPerBlock'
    <3>1. \A c, d \in Buf : blockno'[c] = blockno'[d] /\ c # d => blockno'[c] = None
      BY <2>1, <2>2 DEF OneBufferPerBlock, Types
    <3>2. \A q \in Hands : pc'[q] # "idle" => blockno'[buf'[q]] = want'[q]
      BY <2>1, <2>3 DEF OneBufferPerBlock, Types, Take, Counted
    <3> QED
      BY <3>1, <3>2 DEF OneBufferPerBlock
  <2>8. Locked'
    BY <2>1, <2>4 DEF Locked, Types, Take, Holding
  <2> QED
    BY <2>5, <2>6, <2>7, <2>8
<1> QED
  BY <1>1, <1>2

(* The lock of a buffer is taken when it is free. *)
LEMMA AcquireIInv ==
  ASSUME IInv, NEW p \in Hands, acquiresleep(p)
  PROVE  IInv'
<1> USE DEF IInv
<1>1. UNCHANGED <<blockno, refcnt, want, buf>> /\ pc[p] = "lock"
  BY DEF acquiresleep
<1>2. CASE UNCHANGED <<holder, pc>>
  BY <1>1, <1>2 DEF Types, Counted, Users, OneBufferPerBlock, Locked
<1>3. ASSUME holder[buf[p]] = None, NEW k \in {"use", "rw"},
             holder' = [holder EXCEPT ![buf[p]] = p], pc' = [pc EXCEPT ![p] = k]
      PROVE  IInv'
  <2>1. buf[p] \in Buf /\ p # None
    BY <1>1, BcacheAssumption DEF Counted, Types
  <2>2. Types'
    BY <1>1, <1>3, <2>1 DEF Types, Holding
  <2>3. Counted'
    BY <1>1, <1>3 DEF Types, Counted, Users
  <2>4. OneBufferPerBlock'
    BY <1>1, <1>3 DEF Types, OneBufferPerBlock
  <2>5. PICK b \in Buf : buf[p] = b
    BY <2>1
  <2>6. holder'[b] = p /\ \A c \in Buf \ {b} : holder'[c] = holder[c]
    BY <1>3, <2>5 DEF Types
  <2>7. \A q \in Hands : pc'[q] \in Holding => holder'[buf'[q]] = q
    <3> SUFFICES ASSUME NEW q \in Hands, pc'[q] \in Holding
                 PROVE  holder'[buf'[q]] = q
      OBVIOUS
    <3>1. CASE q = p
      BY <1>1, <2>5, <2>6, <3>1
    <3>2. CASE q # p
      <4>1. pc[q] \in Holding /\ holder[buf[q]] = q
        BY <1>3, <3>2 DEF Types, Locked
      <4>2. buf[q] \in Buf /\ q # None
        BY <4>1, BcacheAssumption DEF Types, Counted, Holding
      <4>3. buf[q] # b
        BY <1>3, <2>5, <4>1, <4>2
      <4> QED
        BY <1>1, <2>6, <4>1, <4>2, <4>3
    <3> QED
      BY <3>1, <3>2
  <2>8. \A c \in Buf : holder'[c] # None =>
          buf'[holder'[c]] = c /\ pc'[holder'[c]] \in Holding
    BY <1>1, <1>3, <2>5, <2>6 DEF Types, Locked, Holding
  <2> QED
    BY <2>2, <2>3, <2>4, <2>7, <2>8 DEF Locked
<1> QED
  BY <1>2, <1>3 DEF acquiresleep

(* A step of a process with the lock that keeps the lock. *)
LEMMA KeepIInv ==
  ASSUME IInv, NEW p \in Hands, pc[p] \in Holding, NEW k \in Holding,
         pc' = [pc EXCEPT ![p] = k],
         UNCHANGED <<blockno, refcnt, holder, want, buf>>
  PROVE  IInv'
<1> USE DEF IInv
<1>1. Types'
  BY DEF Types
<1>2. Counted'
  BY DEF Types, Counted, Users, Holding
<1>3. OneBufferPerBlock'
  BY DEF Types, OneBufferPerBlock, Holding
<1>4. Locked'
  BY DEF Types, Locked
<1> QED
  BY <1>1, <1>2, <1>3, <1>4

(* brelse gives the lock back. *)
LEMMA ReleaseIInv ==
  ASSUME IInv, NEW p \in Hands, brelse(p)
  PROVE  IInv'
<1> USE DEF IInv
<1>1. /\ pc[p] = "use" /\ pc' = [pc EXCEPT ![p] = "put"]
      /\ holder' = [holder EXCEPT ![buf[p]] = None]
      /\ UNCHANGED <<blockno, refcnt, want, buf>>
  BY DEF brelse, releasesleep
<1>2. buf[p] \in Buf /\ holder[buf[p]] = p
  BY <1>1 DEF Counted, Types, Locked, Holding
<1>3. Types'
  BY <1>1 DEF Types
<1>4. Counted'
  BY <1>1 DEF Types, Counted, Users
<1>5. OneBufferPerBlock'
  BY <1>1 DEF Types, OneBufferPerBlock
<1>6. \A q \in Hands : pc'[q] \in Holding => holder'[buf'[q]] = q
  BY <1>1, <1>2 DEF Types, Locked, Holding
<1>7. \A b \in Buf : holder'[b] # None => buf'[holder'[b]] = b /\ pc'[holder'[b]] \in Holding
  BY <1>1, <1>2 DEF Types, Locked, Holding
<1> QED
  BY <1>3, <1>4, <1>5, <1>6, <1>7 DEF Locked

(* brelse gives the reference back. *)
LEMMA PutIInv ==
  ASSUME IInv, NEW p \in Hands, brelse_put(p)
  PROVE  IInv'
<1> USE DEF IInv
<1>1. /\ pc[p] = "put" /\ pc' = [pc EXCEPT ![p] = "idle"]
      /\ want' = [want EXCEPT ![p] = None] /\ buf' = [buf EXCEPT ![p] = None]
      /\ refcnt' = [refcnt EXCEPT ![buf[p]] = refcnt[buf[p]] - 1]
      /\ UNCHANGED <<blockno, holder>>
  BY DEF brelse_put
<1>2. PICK b \in Buf : buf[p] = b
  BY <1>1 DEF Counted, Types
<1>3. Counted' /\ refcnt' \in [Buf -> Nat]
  BY <1>1, <1>2, PutCounted
<1>4. Types'
  BY <1>1, <1>3 DEF Types
<1>5. OneBufferPerBlock'
  BY <1>1 DEF Types, OneBufferPerBlock
<1>6. Locked'
  BY <1>1, <1>2 DEF Types, Locked, Holding
<1> QED
  BY <1>3, <1>4, <1>5, <1>6

LEMMA NextIInv == IInv /\ [Next]_vars => IInv'
<1> SUFFICES ASSUME IInv, [Next]_vars PROVE IInv'
  OBVIOUS
<1>1. ASSUME UNCHANGED <<blockno, refcnt, holder, pc, want, buf>> PROVE IInv'
  BY <1>1 DEF IInv, Types, Counted, Users, OneBufferPerBlock, Locked
<1>2. CASE UNCHANGED vars
  BY <1>1, <1>2 DEF vars, bufs, procs
<1>3. CASE ideintr
  BY <1>1, <1>3 DEF ideintr, procs
<1>4. ASSUME NEW p \in Hands, bget(p) PROVE IInv'
  BY <1>4, HitIInv, MissIInv DEF bget
<1>5. ASSUME NEW p \in Hands, acquiresleep(p) PROVE IInv'
  BY <1>5, AcquireIInv
<1>6. ASSUME NEW p \in Hands, iderw(p) PROVE IInv'
  BY <1>6, KeepIInv DEF iderw, bufs, Holding
<1>7. ASSUME NEW p \in Hands, iderw_resume(p) PROVE IInv'
  <2>1. CASE UNCHANGED pc
    BY <1>1, <1>7, <2>1 DEF iderw_resume, bufs
  <2>2. CASE pc' = [pc EXCEPT ![p] = "use"]
    BY <1>7, <2>2, KeepIInv DEF iderw_resume, bufs, Holding
  <2> QED
    BY <1>7, <2>1, <2>2 DEF iderw_resume
<1>8. ASSUME NEW p \in Hands, brelse(p) PROVE IInv'
  BY <1>8, ReleaseIInv
<1>9. ASSUME NEW p \in Hands, brelse_put(p) PROVE IInv'
  BY <1>9, PutIInv
<1>10. ASSUME NEW p \in Hands, kill(p) PROVE IInv'
  BY <1>1, <1>10 DEF kill, bufs, procs
<1>11. ASSUME NEW p \in Hands, NEW d \in Data, log_write(p, d) PROVE IInv'
  BY <1>1, <1>11 DEF log_write, procs
<1>12. ASSUME NEW p \in Hands, NEW d \in Data, bwrite(p, d) PROVE IInv'
  BY <1>12, KeepIInv DEF bwrite, Holding
<1> QED
  BY <1>2, <1>3, <1>4, <1>5, <1>6, <1>7, <1>8, <1>9, <1>10, <1>11, <1>12 DEF Next, Halt, Use

(* The inductive invariant holds in every reachable state of bio.c. *)
THEOREM Inductive == Spec => []IInv
<1> QED
  BY InitIInv, NextIInv, PTL DEF Spec

(* bget never gives away a buffer that a process has or waits for, and     *)
(* never reads a block into a second buffer: bio.c:60-93, for any number   *)
(* of processes and buffers.                                               *)
THEOREM BlocksApart == Spec => []OneBufferPerBlock
<1>1. IInv => OneBufferPerBlock
  BY DEF IInv
<1> QED
  BY <1>1, Inductive, PTL

(* Between acquiresleep and releasesleep nobody else is in the buffer:     *)
(* sleeplock.c:22-42 under bread, bwrite and brelse.                       *)
THEOREM OneHolder == Spec => []LockHolds
<1>1. IInv => LockHolds
  <2> SUFFICES ASSUME IInv, NEW b \in Buf
               PROVE  {p \in Hands : buf[p] = b /\ pc[p] \in {"rw", "io", "use"}}
                        = {holder[b]} \ {None}
    BY DEF LockHolds
  <2>1. \A p \in Hands : buf[p] = b /\ pc[p] \in Holding => holder[b] = p /\ p # None
    BY BcacheAssumption DEF IInv, Locked
  <2>2. holder[b] # None =>
          holder[b] \in Hands /\ buf[holder[b]] = b /\ pc[holder[b]] \in Holding
    BY DEF IInv, Locked, Types
  <2> QED
    BY <2>1, <2>2 DEF Holding
<1> QED
  BY <1>1, Inductive, PTL
-----------------------------------------------------------------------------
(* What the cache stores: the rest of the invariant.                       *)
DataTypes ==
  /\ list \in [Buf -> Buf] /\ \A b \in Buf : \E i \in Buf : list[i] = b
  /\ valid \subseteq Buf /\ dirty \subseteq valid
  /\ data \in [Buf -> Data \cup {None}]
  /\ disk \in [Blocks -> Data] /\ latest \in [Blocks -> Data]
  /\ idequeue \in Seq(Buf) /\ asleep \subseteq Hands
  /\ \A p \in Hands : pc[p] # "idle" => want[p] \in Blocks

(* What bread, bwrite and iderw know of their buffer's flags. *)
FlagsKnown ==
  /\ \A p \in Hands : pc[p] = "use" => buf[p] \in valid
  /\ \A p \in Hands : pc[p] = "rw" => ~Done(buf[p])
  /\ \A p \in asleep : pc[p] \in {"lock", "io"}

(* bget may run out of buffers, nothing else goes wrong. *)
NoOtherPanic == panicked \subseteq {"bget: no buffers"}

(* QueueSound by way of the lock holders, who are the ones that wait. *)
Waiting(b) == holder[b] # None /\ pc[holder[b]] = "io" /\ ~Done(b)
Command(b) == [block |-> blockno[b], out |-> IF b \in dirty THEN data[b] ELSE None]
QueueKnown ==
  /\ \A i, j \in 1 .. Len(idequeue) : idequeue[i] = idequeue[j] => i = j
  /\ \A i \in 1 .. Len(idequeue) : Waiting(idequeue[i])
  /\ \A b \in Buf : Waiting(b) => \E i \in 1 .. Len(idequeue) : idequeue[i] = b
  /\ IF idequeue = <<>> THEN active = None ELSE active = Command(idequeue[1])

BInv ==
  /\ IInv /\ DataTypes /\ FlagsKnown
  /\ Coherent /\ QueueKnown /\ SleepersWait /\ NoOtherPanic

(* A process that has the lock has the buffer and its block for itself. *)
LEMMA HoldersAlone ==
  ASSUME IInv, DataTypes, NEW p \in Hands, pc[p] \in Holding
  PROVE  /\ buf[p] \in Buf /\ holder[buf[p]] = p /\ p # None
         /\ \A q \in Hands : pc[q] \in Holding /\ buf[q] = buf[p] => q = p
         /\ blockno[buf[p]] = want[p] /\ want[p] \in Blocks
         /\ \A c \in Buf : blockno[c] = blockno[buf[p]] => c = buf[p]
<1>1. p # None /\ want[p] \in Blocks /\ want[p] # None /\ pc[p] # "idle"
  BY BcacheAssumption DEF DataTypes, Holding
<1>2. buf[p] \in Buf /\ holder[buf[p]] = p /\ blockno[buf[p]] = want[p]
  BY <1>1 DEF IInv, Types, Counted, Locked, OneBufferPerBlock
<1>3. \A q \in Hands : pc[q] \in Holding /\ buf[q] = buf[p] => q = p
  BY <1>2 DEF IInv, Locked
<1>4. \A c \in Buf : blockno[c] = blockno[buf[p]] => c = buf[p]
  BY <1>1, <1>2 DEF IInv, OneBufferPerBlock
<1> QED
  BY <1>1, <1>2, <1>3, <1>4

(* The requests in the queue stay what they are when their buffers do. *)
LEMMA QueueKept ==
  ASSUME QueueKnown, DataTypes, UNCHANGED <<idequeue, active>>,
         \A b \in Buf : Waiting(b)' <=> Waiting(b),
         \A b \in Buf : Waiting(b) =>
            blockno'[b] = blockno[b] /\ data'[b] = data[b] /\ (b \in dirty' <=> b \in dirty)
  PROVE  QueueKnown'
<1>1. \A i \in 1 .. Len(idequeue) : idequeue[i] \in Buf
  BY ElementOfSeq DEF DataTypes
<1>2. \A i \in 1 .. Len(idequeue) : Waiting(idequeue[i])' /\ Waiting(idequeue[i])
  BY <1>1 DEF QueueKnown
<1>3. idequeue # <<>> => 1 \in 1 .. Len(idequeue)
  BY EmptySeq, LenProperties DEF DataTypes
<1>4. IF idequeue = <<>> THEN active' = None ELSE active' = Command(idequeue[1])'
  BY <1>1, <1>2, <1>3 DEF QueueKnown, Command
<1> QED
  BY <1>1, <1>2, <1>4 DEF QueueKnown

(* A process without the lock moves: nobody's request is touched. *)
LEMMA WaitingKept ==
  ASSUME IInv, NEW p \in Hands, pc[p] # "io", NEW k, k # "io",
         pc' = [pc EXCEPT ![p] = k], UNCHANGED <<holder, valid>>, dirty \subseteq dirty',
         \A b \in dirty' \ dirty : pc[holder[b]] # "io"
  PROVE  \A b \in Buf : Waiting(b)' <=> Waiting(b)
<1>1. \A b \in Buf : holder[b] # None => pc[holder[b]] = "io" <=> pc'[holder[b]] = "io"
  BY DEF IInv, Types
<1> QED
  BY <1>1 DEF Waiting, Done

-----------------------------------------------------------------------------
LEMMA InitBInv == Init => BInv
<1> SUFFICES ASSUME Init PROVE BInv
  OBVIOUS
<1>1. IInv
  BY InitIInv
<1>2. DataTypes
  <2>1. list \in [Buf -> Buf] /\ \A b \in Buf : NBUF + 1 - b \in Buf /\ list[NBUF + 1 - b] = b
    BY BcacheAssumption DEF Init, Buf
  <2> QED
    BY <2>1, EmptySeq DEF Init, DataTypes
<1>3. FlagsKnown /\ SleepersWait
  BY DEF Init, FlagsKnown, SleepersWait
<1>5. Coherent /\ NoOtherPanic
  BY DEF Init, Coherent, NoOtherPanic
<1>6. QueueKnown
  BY EmptySeq DEF Init, QueueKnown, Waiting
<1> QED
  BY <1>1, <1>2, <1>3, <1>5, <1>6 DEF BInv

LEMMA HitBInv ==
  ASSUME BInv, NEW p \in Hands, NEW blk \in Blocks, bget_hit(p, blk)
  PROVE  BInv'
<1> USE DEF BInv
<1>1. IInv'
  BY HitIInv
<1>2. PICK b \in Buf :
        /\ pc[p] = "idle" /\ pc' = [pc EXCEPT ![p] = "lock"]
        /\ buf' = [buf EXCEPT ![p] = b] /\ want' = [want EXCEPT ![p] = blk]
        /\ UNCHANGED <<list, blockno, valid, dirty, data, holder, drive, asleep, panicked, latest>>
  BY DEF bget_hit, Cached, Take
<1>3. UNCHANGED <<idequeue, active, disk>> /\ pc \in [Hands -> {"idle", "lock", "put"} \cup Holding]
      /\ buf \in [Hands -> Buf \cup {None}] /\ want \in [Hands -> Blocks \cup {None}]
  BY <1>2 DEF drive, IInv, Types
<1>4. DataTypes'
  BY <1>2, <1>3 DEF DataTypes
<1>5. FlagsKnown'
  BY <1>2, <1>3 DEF FlagsKnown, Done
<1>7. Coherent' /\ NoOtherPanic'
  BY <1>2, <1>3 DEF Coherent, NoOtherPanic, Cached
<1>8. QueueKnown'
  BY <1>2, <1>3, WaitingKept, QueueKept
<1>9. SleepersWait'
  BY <1>2, <1>3 DEF SleepersWait, FlagsKnown, Done
<1> QED
  BY <1>1, <1>4, <1>5, <1>7, <1>8, <1>9

(* The scan from the back of the list meets every buffer: one that it does  *)
(* not take is in a hand or kept dirty.                                     *)
LEMMA SomeUnused ==
  ASSUME IInv, dirty \subseteq Buf, Unused = {}
  PROVE  Cardinality(Busy) + Cardinality(Kept) >= NBUF
<1> DEFINE held == {buf[q] : q \in Busy}
<1>1. Buf \subseteq held \cup Kept
  <2> SUFFICES ASSUME NEW b \in Buf, b \notin Kept PROVE b \in held
    OBVIOUS
  <2>1. refcnt[b] # 0 \/ b \in dirty
    BY DEF Unused
  <2>2. CASE refcnt[b] # 0
    <3>1. Users(b) # {}
      BY <2>2, FS_EmptySet DEF IInv, Counted
    <3>2. PICK q \in Hands : buf[q] = b
      BY <3>1 DEF Users
    <3> QED
      BY <3>2, BcacheAssumption DEF Busy, Buf
  <2>3. CASE b \in dirty
    <3>1. PICK q \in Hands : buf[q] = b
      BY <2>3 DEF Kept
    <3> QED
      BY <3>1, BcacheAssumption DEF Busy, Buf
  <2> QED
    BY <2>1, <2>2, <2>3
<1>2. IsFiniteSet(Busy)
  BY FS_Subset, BcacheAssumption DEF Busy
<1>3. IsFiniteSet(held) /\ Cardinality(held) <= Cardinality(Busy)
  <2>1. buf \in [Hands -> Buf \cup {None}]
    BY DEF IInv, Types
  <2> DEFINE f == [q \in Busy |-> buf[q]]
  <2>2. f \in Surjection(Busy, held)
    BY DEF Surjection
  <2> QED
    BY <1>2, <2>2, FS_Surjection
<1>4. IsFiniteSet(Kept)
  <2>1. IsFiniteSet(Buf)
    BY FS_Interval, BcacheAssumption DEF Buf
  <2> QED
    BY <2>1, FS_Subset DEF Kept
<1> HIDE DEF held
<1>5. IsFiniteSet(held \cup Kept)
      /\ Cardinality(held \cup Kept) = Cardinality(held) + Cardinality(Kept) - Cardinality(held \cap Kept)
  BY <1>3, <1>4, FS_Union
<1>6. IsFiniteSet(held \cap Kept)
  BY <1>3, FS_Intersection
<1>7. Cardinality(Buf) <= Cardinality(held \cup Kept)
  BY <1>1, <1>5, FS_Subset
<1>8. Cardinality(Buf) = NBUF
  BY FS_Interval, BcacheAssumption DEF Buf
<1>9. /\ Cardinality(held) \in Nat /\ Cardinality(Kept) \in Nat /\ Cardinality(held \cap Kept) \in Nat
      /\ Cardinality(Busy) \in Nat /\ NBUF \in Nat
  BY <1>2, <1>3, <1>4, <1>6, FS_CardinalityType, BcacheAssumption
<1> QED
  BY <1>3, <1>5, <1>7, <1>8, <1>9

LEMMA MissBInv ==
  ASSUME BInv, NEW p \in Hands, NEW blk \in Blocks, bget_miss(p, blk)
  PROVE  BInv'
<1> USE DEF BInv
<1>1. IInv'
  BY MissIInv
<1>2. CASE Unused = {}
  <2>1. UNCHANGED <<list, data, holder, idequeue, active, disk, asleep, latest,
                    blockno, refcnt, valid, dirty, pc, want, buf>>
    BY <1>2 DEF bget_miss, procs, drive
  <2>2. DataTypes' /\ FlagsKnown' /\ Coherent' /\ SleepersWait'
    BY <2>1 DEF DataTypes, FlagsKnown, Coherent, SleepersWait, Done, Cached
  <2>4. QueueKnown'
    BY <2>1 DEF QueueKnown, Waiting, Command, Done
  <2>5. NoOtherPanic'
    BY <1>2 DEF NoOtherPanic, bget_miss
  <2> QED
    BY <1>1, <2>2, <2>4, <2>5
<1>3. CASE Unused # {}
  <2>1. PICK b \in Buf :
          /\ Victim(b) /\ pc[p] = "idle" /\ Cached(blk) = {}
          /\ blockno' = [blockno EXCEPT ![b] = blk]
          /\ valid' = valid \ {b} /\ dirty' = dirty \ {b}
          /\ pc' = [pc EXCEPT ![p] = "lock"]
          /\ buf' = [buf EXCEPT ![p] = b] /\ want' = [want EXCEPT ![p] = blk]
          /\ UNCHANGED <<list, data, holder, drive, asleep, latest, panicked>>
    BY <1>3 DEF bget_miss, Take
  <2>2. refcnt[b] = 0 /\ b \notin dirty /\ \A c \in Buf : blockno[c] # blk
    BY <2>1 DEF Victim, Unused, Cached
  <2>3. \A q \in Hands : buf[q] # b
    BY <2>2, ZeroIsUnused DEF IInv
  <2>4. UNCHANGED <<idequeue, active, disk, dirty>> /\ pc \in [Hands -> {"idle", "lock", "put"} \cup Holding]
        /\ buf \in [Hands -> Buf \cup {None}] /\ want \in [Hands -> Blocks \cup {None}]
        /\ blockno \in [Buf -> Blocks \cup {None}]
    BY <2>1, <2>2 DEF drive, IInv, Types
  <2>5. DataTypes'
    BY <2>1, <2>2, <2>4 DEF DataTypes
  <2>6. FlagsKnown'
    BY <2>1, <2>3, <2>4 DEF FlagsKnown, Done
  <2>8. Coherent'
    <3>1. \A c \in valid' : data'[c] = latest'[blockno'[c]]
      BY <2>1, <2>4 DEF Coherent, DataTypes
    <3>2. \A bl \in Blocks : disk'[bl] = latest'[bl] \/ Cached(bl)' \cap dirty' # {}
      <4> SUFFICES ASSUME NEW bl \in Blocks, disk[bl] # latest[bl]
                   PROVE  Cached(bl)' \cap dirty' # {}
        BY <2>1, <2>4
      <4>1. PICK c \in Buf : blockno[c] = bl /\ c \in dirty
        BY DEF Coherent, Cached
      <4>2. c # b /\ blockno'[c] = bl
        BY <2>1, <2>2, <2>4, <4>1
      <4> QED
        BY <2>4, <4>1, <4>2 DEF Cached
    <3> QED
      BY <3>1, <3>2 DEF Coherent
  <2>9. QueueKnown'
    <3>1. holder[b] = None
      BY <2>3 DEF IInv, Locked, Types
    <3>2. \A c \in Buf : Waiting(c)' <=> Waiting(c)
      BY <2>1, <2>4, <3>1 DEF Waiting, Done, IInv, Types
    <3>3. \A c \in Buf : Waiting(c) => blockno'[c] = blockno[c]
      BY <2>1, <2>4, <3>1 DEF Waiting
    <3> QED
      BY <2>1, <2>4, <3>2, <3>3, QueueKept
  <2>10. SleepersWait'
    BY <2>1, <2>3, <2>4 DEF SleepersWait, FlagsKnown, Done
  <2>11. NoOtherPanic'
    BY <2>1 DEF NoOtherPanic
  <2> QED
    BY <1>1, <2>5, <2>6, <2>8, <2>9, <2>10, <2>11
<1> QED
  BY <1>2, <1>3

LEMMA AcquireBInv ==
  ASSUME BInv, NEW p \in Hands, acquiresleep(p)
  PROVE  BInv'
<1> USE DEF BInv
<1>1. IInv'
  BY AcquireIInv
<1>2. /\ UNCHANGED <<list, blockno, refcnt, valid, dirty, data, idequeue, active, disk, want, buf, panicked, latest>>
      /\ pc[p] = "lock" /\ p \notin asleep /\ buf[p] \in Buf
      /\ pc \in [Hands -> {"idle", "lock", "put"} \cup Holding]
      /\ holder \in [Buf -> Hands \cup {None}] /\ buf \in [Hands -> Buf \cup {None}]
  BY DEF acquiresleep, drive, IInv, Counted, Types
<1>3. Coherent' /\ NoOtherPanic'
  BY <1>2 DEF Coherent, NoOtherPanic, Cached
<1>4. CASE holder[buf[p]] # None /\ asleep' = asleep \cup {p} /\ UNCHANGED <<holder, pc>>
  <2>1. DataTypes' /\ FlagsKnown' /\ SleepersWait'
    BY <1>2, <1>4 DEF DataTypes, FlagsKnown, SleepersWait, Done
  <2>3. QueueKnown'
    BY <1>2, <1>4 DEF QueueKnown, Waiting, Command, Done
  <2> QED
    BY <1>1, <1>3, <2>1, <2>3
<1>5. CASE /\ holder[buf[p]] = None /\ holder' = [holder EXCEPT ![buf[p]] = p]
           /\ pc' = [pc EXCEPT ![p] = IF buf[p] \in valid THEN "use" ELSE "rw"] /\ UNCHANGED asleep
  <2>1. DataTypes'
    BY <1>2, <1>5 DEF DataTypes
  <2>2. FlagsKnown'
    BY <1>2, <1>5 DEF FlagsKnown, Done
  <2>3. SleepersWait'
    <3> SUFFICES ASSUME NEW q \in asleep
                 PROVE  IF pc'[q] = "lock" THEN holder'[buf[q]] # None ELSE ~Done(buf[q])
      BY <1>2, <1>5 DEF SleepersWait, Done
    <3>1. q # p /\ q \in Hands /\ pc'[q] = pc[q]
      BY <1>2, <1>5 DEF DataTypes
    <3>2. pc[q] = "lock" => holder[buf[q]] # None /\ buf[q] \in Buf
      BY <3>1 DEF SleepersWait, IInv, Counted, Types
    <3>3. p # None
      BY BcacheAssumption
    <3> QED
      BY <1>2, <1>5, <3>1, <3>2, <3>3 DEF SleepersWait
  <2>5. QueueKnown'
    <3>1. \A b \in Buf : Waiting(b)' <=> Waiting(b)
      <4> SUFFICES ASSUME NEW b \in Buf PROVE Waiting(b)' <=> Waiting(b)
        OBVIOUS
      <4>1. CASE b = buf[p]
        <5>1. holder'[b] = p /\ pc'[p] # "io" /\ holder[b] = None
          BY <1>2, <1>5, <4>1
        <5> QED
          BY <5>1 DEF Waiting
      <4>2. CASE b # buf[p]
        <5>1. holder'[b] = holder[b] /\ holder[b] # p
          BY <1>2, <1>5, <4>2, BcacheAssumption DEF IInv, Locked
        <5>2. holder[b] # None => pc'[holder[b]] = pc[holder[b]]
          BY <1>2, <1>5, <5>1
        <5> QED
          BY <1>2, <5>1, <5>2 DEF Waiting, Done
      <4> QED
        BY <4>1, <4>2
    <3> QED
      BY <1>2, <3>1, QueueKept
  <2> QED
    BY <1>1, <1>3, <2>1, <2>2, <2>3, <2>5
<1> QED
  BY <1>4, <1>5 DEF acquiresleep

(* iderw: the request of a buffer is put behind the others. *)
LEMMA IderwBInv ==
  ASSUME BInv, NEW p \in Hands, iderw(p)
  PROVE  BInv'
<1> USE DEF BInv
<1>1. /\ pc[p] = "rw" /\ pc' = [pc EXCEPT ![p] = "io"] /\ asleep' = asleep \cup {p}
      /\ idequeue' = Append(idequeue, buf[p])
      /\ IF idequeue = <<>> THEN idestart(buf[p]) ELSE UNCHANGED active
      /\ UNCHANGED <<list, blockno, refcnt, valid, dirty, data, holder, disk, want, buf, latest>>
  BY DEF iderw, bufs
<1>2. IInv'
  BY <1>1, KeepIInv DEF Holding
<1>3. /\ buf[p] \in Buf /\ holder[buf[p]] = p /\ p # None /\ ~Done(buf[p])
      /\ \A q \in Hands : pc[q] \in Holding /\ buf[q] = buf[p] => q = p
  BY <1>1, HoldersAlone DEF Holding, FlagsKnown
<1>4. /\ pc \in [Hands -> {"idle", "lock", "put"} \cup Holding]
      /\ buf \in [Hands -> Buf \cup {None}] /\ holder \in [Buf -> Hands \cup {None}]
      /\ idequeue \in Seq(Buf)
  BY DEF IInv, Types, DataTypes
<1>5. DataTypes'
  <2>1. idequeue' \in Seq(Buf)
    BY <1>1, <1>3, <1>4, AppendProperties
  <2> QED
    BY <1>1, <1>4, <2>1 DEF DataTypes
<1>6. FlagsKnown'
  BY <1>1, <1>4 DEF FlagsKnown, Done
<1>8. Coherent'
  BY <1>1 DEF Coherent, Cached
<1>9. NoOtherPanic'
  BY <1>3 DEF NoOtherPanic, iderw
<1>10. SleepersWait'
  BY <1>1, <1>3, <1>4 DEF SleepersWait, FlagsKnown, DataTypes, Done
<1>11. QueueKnown'
  <2> DEFINE n == Len(idequeue)
             b == buf[p]
  <2>1. /\ n \in Nat /\ Len(idequeue') = n + 1 /\ idequeue'[n + 1] = b
        /\ \A i \in 1 .. n : idequeue'[i] = idequeue[i] /\ idequeue[i] \in Buf
    BY <1>1, <1>3, <1>4, AppendProperties, LenProperties, ElementOfSeq
  <2>2. \A c \in Buf : Waiting(c)' <=> Waiting(c) \/ c = b
    <3> SUFFICES ASSUME NEW c \in Buf PROVE Waiting(c)' <=> Waiting(c) \/ c = b
      OBVIOUS
    <3>1. CASE c = b
      <4>1. holder'[c] = p /\ pc'[p] = "io" /\ ~Done(c)'
        BY <1>1, <1>3, <1>4, <3>1 DEF Done
      <4> QED
        BY <1>3, <3>1, <4>1 DEF Waiting
    <3>2. CASE c # b
      <4>1. holder[c] # p
        BY <1>3, <3>2 DEF IInv, Locked
      <4> QED
        BY <1>1, <1>4, <3>2, <4>1 DEF Waiting, Done
    <3> QED
      BY <3>1, <3>2
  <2>3. ~Waiting(b)
    BY <1>1, <1>3 DEF Waiting
  <2>4. \A i \in 1 .. n : idequeue[i] # b
    BY <2>3 DEF QueueKnown
  <2> HIDE DEF n, b
  <2>5. \A i \in 1 .. n : Waiting(idequeue[i])
    BY DEF QueueKnown, n
  <2>6. \A i, j \in 1 .. Len(idequeue') : idequeue'[i] = idequeue'[j] => i = j
    <3>1. \A i, j \in 1 .. n : idequeue[i] = idequeue[j] => i = j
      BY DEF QueueKnown, n
    <3>2. \A i \in 1 .. n + 1 : i = n + 1 \/ i \in 1 .. n
      BY <2>1
    <3> QED
      BY <2>1, <2>4, <3>1, <3>2
  <2>7. \A i \in 1 .. Len(idequeue') : Waiting(idequeue[i])'
    <3>1. \A i \in 1 .. n + 1 : i = n + 1 \/ i \in 1 .. n
      BY <2>1
    <3>2. b \in Buf
      BY <1>3 DEF b
    <3> QED
      BY <2>1, <2>2, <2>5, <3>1, <3>2
  <2>8. \A c \in Buf : Waiting(c)' => \E i \in 1 .. Len(idequeue') : idequeue'[i] = c
    <3> SUFFICES ASSUME NEW c \in Buf, Waiting(c)' PROVE \E i \in 1 .. n + 1 : idequeue'[i] = c
      BY <2>1
    <3>1. CASE c = b
      BY <2>1, <3>1
    <3>2. CASE c # b
      <4>1. PICK i \in 1 .. n : idequeue[i] = c
        BY <2>2, <3>2 DEF QueueKnown, n
      <4> QED
        BY <2>1, <4>1
    <3> QED
      BY <3>1, <3>2
  <2>9. idequeue' # <<>>
    BY <2>1, EmptySeq
  <2>10. active' = Command(idequeue[1])'
    <3>1. CASE idequeue = <<>>
      <4>1. n = 0
        BY <3>1, EmptySeq DEF n
      <4>2. idequeue'[1] = b
        BY <2>1, <4>1
      <4> QED
        BY <1>1, <3>1, <4>2 DEF idestart, Command, b
    <3>2. CASE idequeue # <<>>
      <4>1. 1 \in 1 .. n
        BY <3>2, <1>4, EmptySeq, LenProperties, <2>1 DEF n
      <4> QED
        BY <1>1, <2>1, <3>2, <4>1 DEF QueueKnown, Command
    <3> QED
      BY <3>1, <3>2
  <2> QED
    BY <2>6, <2>7, <2>8, <2>9, <2>10 DEF QueueKnown
<1> QED
  BY <1>2, <1>5, <1>6, <1>8, <1>9, <1>10, <1>11

LEMMA ResumeBInv ==
  ASSUME BInv, NEW p \in Hands, iderw_resume(p)
  PROVE  BInv'
<1> USE DEF BInv
<1>1. /\ pc[p] = "io" /\ p \notin asleep
      /\ UNCHANGED <<list, blockno, refcnt, valid, dirty, data, holder, idequeue, active, disk,
                     want, buf, panicked, latest>>
      /\ \/ Done(buf[p]) /\ pc' = [pc EXCEPT ![p] = "use"] /\ UNCHANGED asleep
         \/ ~Done(buf[p]) /\ asleep' = asleep \cup {p} /\ UNCHANGED pc
  BY DEF iderw_resume, bufs, drive
<1>2. Coherent' /\ NoOtherPanic'
  BY <1>1 DEF Coherent, NoOtherPanic, Cached
<1>3. CASE ~Done(buf[p]) /\ asleep' = asleep \cup {p} /\ UNCHANGED pc
  <2>1. IInv'
    BY <1>1, <1>3 DEF IInv, Types, Counted, Users, OneBufferPerBlock, Locked
  <2>2. DataTypes' /\ FlagsKnown' /\ SleepersWait'
    BY <1>1, <1>3 DEF DataTypes, FlagsKnown, SleepersWait, Done
  <2>4. QueueKnown'
    BY <1>1, <1>3 DEF QueueKnown, Waiting, Command, Done
  <2> QED
    BY <1>2, <2>1, <2>2, <2>4
<1>4. CASE Done(buf[p]) /\ pc' = [pc EXCEPT ![p] = "use"] /\ UNCHANGED asleep
  <2>1. IInv'
    BY <1>1, <1>4, KeepIInv DEF Holding
  <2>2. /\ buf[p] \in Buf /\ holder[buf[p]] = p
        /\ pc \in [Hands -> {"idle", "lock", "put"} \cup Holding]
    BY <1>1, HoldersAlone DEF Holding, IInv, Types
  <2>3. DataTypes' /\ FlagsKnown' /\ SleepersWait'
    BY <1>1, <1>4, <2>2 DEF DataTypes, FlagsKnown, SleepersWait, Done
  <2>5. QueueKnown'
    <3>1. \A b \in Buf : Waiting(b)' <=> Waiting(b)
      <4> SUFFICES ASSUME NEW b \in Buf PROVE Waiting(b)' <=> Waiting(b)
        OBVIOUS
      <4>1. CASE b = buf[p]
        BY <1>1, <1>4, <4>1 DEF Waiting, Done
      <4>2. CASE b # buf[p]
        <5>1. holder[b] # p
          BY <1>1, <4>2, BcacheAssumption DEF IInv, Locked
        <5> QED
          BY <1>1, <1>4, <5>1, <2>2 DEF Waiting, Done
      <4> QED
        BY <4>1, <4>2
    <3> QED
      BY <1>1, <3>1, QueueKept
  <2> QED
    BY <1>2, <2>1, <2>3, <2>5
<1> QED
  BY <1>1, <1>3, <1>4

(* ideintr: the buffer and the block it is of now have what was last stored. *)
LEMMA TransferDone ==
  ASSUME BInv, ideintr
  PROVE  \E b \in Buf, blk \in Blocks :
           /\ b = idequeue[1] /\ idequeue # <<>> /\ blockno[b] = blk
           /\ Waiting(b) /\ holder[b] \in Hands /\ buf[holder[b]] = b
           /\ \A q \in Hands : pc[q] \in Holding /\ buf[q] = b => q = holder[b]
           /\ \A c \in Buf : blockno[c] = blk => c = b
           /\ disk' \in [Blocks -> Data] /\ data' \in [Buf -> Data \cup {None}]
           /\ disk'[blk] = latest[blk] /\ data'[b] = latest[blk]
           /\ \A bl \in Blocks \ {blk} : disk'[bl] = disk[bl]
           /\ \A c \in Buf \ {b} : data'[c] = data[c]
<1> USE DEF BInv
<1> DEFINE b == idequeue[1]
           h == holder[b]
           blk == blockno[b]
<1>1. /\ idequeue # <<>> /\ active # None /\ b = Head(idequeue)
      /\ disk' = IF active.out = None THEN disk ELSE [disk EXCEPT ![active.block] = active.out]
      /\ data' = IF b \in dirty THEN data ELSE [data EXCEPT ![b] = disk[active.block]]
  BY HeadTailProperties DEF ideintr, DataTypes
<1>2. 1 \in 1 .. Len(idequeue)
  BY <1>1, EmptySeq, LenProperties DEF DataTypes
<1>3. b \in Buf /\ Waiting(b) /\ active = Command(b)
  BY <1>1, <1>2, ElementOfSeq DEF QueueKnown, DataTypes
<1> HIDE DEF b
<1>4. h \in Hands /\ buf[h] = b /\ pc[h] = "io" /\ h # None
  BY <1>3 DEF Waiting, IInv, Types, Locked
<1>5. /\ blk \in Blocks
      /\ \A q \in Hands : pc[q] \in Holding /\ buf[q] = b => q = h
      /\ \A c \in Buf : blockno[c] = blk => c = b
  BY <1>4, HoldersAlone DEF Holding
<1>6. active.block = blk /\ active.out = IF b \in dirty THEN data[b] ELSE None
  BY <1>3 DEF Command
<1>7. disk \in [Blocks -> Data] /\ latest \in [Blocks -> Data] /\ data \in [Buf -> Data \cup {None}] /\ None \notin Data
  BY BcacheAssumption DEF DataTypes
<1> HIDE DEF blk
<1> DEFINE Moved ==
  /\ disk' \in [Blocks -> Data] /\ data' \in [Buf -> Data \cup {None}]
  /\ disk'[blk] = latest[blk] /\ data'[b] = latest[blk]
  /\ \A bl \in Blocks \ {blk} : disk'[bl] = disk[bl]
  /\ \A c \in Buf \ {b} : data'[c] = data[c]
<1>8. ASSUME b \in dirty PROVE Moved
  <2>1. data[b] = latest[blk]
    BY <1>8 DEF DataTypes, Coherent, blk
  <2>2. data[b] \in Data /\ active.out = data[b] /\ active.out # None
    BY <1>5, <1>6, <1>7, <1>8, <2>1
  <2>3. disk' = [disk EXCEPT ![blk] = data[b]] /\ data' = data
    BY <1>1, <1>6, <1>8, <2>2
  <2>4. /\ disk' \in [Blocks -> Data] /\ data' \in [Buf -> Data \cup {None}]
        /\ disk'[blk] = latest[blk] /\ data'[b] = latest[blk]
        /\ \A bl \in Blocks \ {blk} : disk'[bl] = disk[bl]
        /\ \A c \in Buf \ {b} : data'[c] = data[c]
    BY <1>3, <1>5, <1>7, <2>1, <2>2, <2>3
  <2> QED
    BY <2>4
<1>9. ASSUME b \notin dirty PROVE Moved
  <2>1. disk[blk] = latest[blk]
    <3>1. Cached(blk) \cap dirty = {}
      BY <1>5, <1>9 DEF Cached
    <3> QED
      BY <1>5, <3>1 DEF Coherent
  <2>2. disk' = disk /\ data' = [data EXCEPT ![b] = disk[blk]]
    BY <1>1, <1>6, <1>9
  <2>3. /\ disk' \in [Blocks -> Data] /\ data' \in [Buf -> Data \cup {None}]
        /\ disk'[blk] = latest[blk] /\ data'[b] = latest[blk]
        /\ \A bl \in Blocks \ {blk} : disk'[bl] = disk[bl]
        /\ \A c \in Buf \ {b} : data'[c] = data[c]
    BY <1>3, <1>5, <1>7, <2>1, <2>2
  <2> QED
    BY <2>3
<1>10. Moved
  BY <1>8, <1>9
<1>11. b = idequeue[1] /\ blockno[b] = blk /\ holder[b] = h
  BY DEF b, blk
<1> HIDE DEF h
<1> QED
  BY <1>1, <1>3, <1>4, <1>5, <1>10, <1>11

LEMMA InterruptBInv == ASSUME BInv, ideintr PROVE BInv'
<1> USE DEF BInv
<1>1. PICK b \in Buf, blk \in Blocks :
        /\ b = idequeue[1] /\ idequeue # <<>> /\ blockno[b] = blk
        /\ Waiting(b) /\ holder[b] \in Hands /\ buf[holder[b]] = b
        /\ \A q \in Hands : pc[q] \in Holding /\ buf[q] = b => q = holder[b]
        /\ \A c \in Buf : blockno[c] = blk => c = b
        /\ disk' \in [Blocks -> Data] /\ data' \in [Buf -> Data \cup {None}]
        /\ disk'[blk] = latest[blk] /\ data'[b] = latest[blk]
        /\ \A bl \in Blocks \ {blk} : disk'[bl] = disk[bl]
        /\ \A c \in Buf \ {b} : data'[c] = data[c]
  BY TransferDone
<1>2. idequeue \in Seq(Buf) /\ idequeue[1] = Head(idequeue) /\ pc[holder[b]] = "io" /\ ~Done(b)
  BY <1>1, HeadTailProperties DEF DataTypes, Waiting
<1>3. /\ valid' = valid \cup {b} /\ dirty' = dirty \ {b}
      /\ asleep' = asleep \ {p \in Hands : pc[p] = "io" /\ buf[p] = b}
      /\ idequeue' = Tail(idequeue)
      /\ IF idequeue' # <<>> THEN idestart(Head(idequeue')) ELSE active' = None
      /\ UNCHANGED <<list, blockno, refcnt, holder, pc, want, buf, panicked, latest>>
  BY <1>1, <1>2 DEF ideintr, Wake, procs
<1>4. IInv'
  BY <1>3 DEF IInv, Types, Counted, Users, OneBufferPerBlock, Locked
<1>5. DataTypes'
  <2>1. idequeue' \in Seq(Buf)
    BY <1>1, <1>2, <1>3, HeadTailProperties
  <2> QED
    BY <1>1, <1>3, <2>1 DEF DataTypes
<1>6. FlagsKnown'
  <2>1. \A p \in Hands : pc[p] = "rw" => buf[p] # b
    BY <1>1, <1>2 DEF Holding
  <2> QED
    BY <1>3, <2>1 DEF FlagsKnown, Done
<1>8. Coherent'
  <2>1. \A c \in valid' : data'[c] = latest'[blockno'[c]]
    <3> SUFFICES ASSUME NEW c \in valid' PROVE data'[c] = latest[blockno[c]]
      BY <1>3
    <3>1. CASE c = b
      BY <1>1, <3>1
    <3>2. CASE c # b
      BY <1>1, <1>3, <3>2 DEF Coherent, DataTypes
    <3> QED
      BY <3>1, <3>2
  <2>2. \A bl \in Blocks : disk'[bl] = latest'[bl] \/ Cached(bl)' \cap dirty' # {}
    <3> SUFFICES ASSUME NEW bl \in Blocks, disk'[bl] # latest[bl]
                 PROVE  Cached(bl)' \cap dirty' # {}
      BY <1>3
    <3>1. bl # blk /\ disk[bl] # latest[bl]
      BY <1>1
    <3>2. PICK c \in Buf : blockno[c] = bl /\ c \in dirty
      BY <3>1 DEF Coherent, Cached
    <3>3. c # b
      BY <1>1, <3>1, <3>2
    <3> QED
      BY <1>3, <3>2, <3>3 DEF Cached
  <2> QED
    BY <2>1, <2>2 DEF Coherent
<1>9. SleepersWait'
  <2>1. \A q \in asleep : pc[q] = "lock" => buf[q] \in Buf
    BY DEF DataTypes, IInv, Counted, Types
  <2> QED
    BY <1>3, <2>1 DEF SleepersWait, FlagsKnown, DataTypes, Done
<1>10. NoOtherPanic'
  BY <1>3 DEF NoOtherPanic
<1>11. QueueKnown'
  <2> DEFINE n == Len(idequeue)
  <2>1. /\ n \in Nat \ {0} /\ Len(idequeue') = n - 1
        /\ \A i \in 1 .. n - 1 : idequeue'[i] = idequeue[i + 1]
        /\ \A i \in 1 .. n : idequeue[i] \in Buf
    BY <1>1, <1>2, <1>3, HeadTailProperties, LenProperties, ElementOfSeq, EmptySeq
  <2>2. \A i, j \in 1 .. n : idequeue[i] = idequeue[j] => i = j
    BY DEF QueueKnown
  <2>3. \A i \in 1 .. n : Waiting(idequeue[i])
    BY DEF QueueKnown
  <2>4. \A c \in Buf : Waiting(c) => \E i \in 1 .. n : idequeue[i] = c
    BY DEF QueueKnown
  <2>5. \A i \in 1 .. n - 1 : idequeue[i + 1] # b
    BY <1>1, <2>1, <2>2
  <2> HIDE DEF n
  <2>6. \A c \in Buf : Waiting(c)' <=> Waiting(c) /\ c # b
    BY <1>3 DEF Waiting, Done
  <2>7. \A i, j \in 1 .. Len(idequeue') : idequeue'[i] = idequeue'[j] => i = j
    BY <2>1, <2>2
  <2>8. \A i \in 1 .. Len(idequeue') : Waiting(idequeue[i])'
    BY <2>1, <2>3, <2>5, <2>6
  <2>9. \A c \in Buf : Waiting(c)' => \E i \in 1 .. Len(idequeue') : idequeue'[i] = c
    <3> SUFFICES ASSUME NEW c \in Buf, Waiting(c)' PROVE \E i \in 1 .. n - 1 : idequeue'[i] = c
      BY <2>1
    <3>1. PICK i \in 1 .. n : idequeue[i] = c
      BY <2>4, <2>6
    <3>2. i # 1
      BY <1>1, <2>6, <3>1
    <3>3. i - 1 \in 1 .. n - 1 /\ (i - 1) + 1 = i
      BY <2>1, <3>2
    <3> QED
      BY <2>1, <3>1, <3>3
  <2>10. IF idequeue' = <<>> THEN active' = None ELSE active' = Command(idequeue[1])'
    <3>1. ASSUME idequeue' # <<>> PROVE active' = Command(idequeue[1])'
      <4>1. idequeue' \in Seq(Buf)
        BY <1>5 DEF DataTypes
      <4>2. Head(idequeue') = idequeue'[1] /\ 1 \in 1 .. n - 1
        BY <3>1, <4>1, <2>1, EmptySeq, HeadTailProperties
      <4>3. idequeue'[1] = idequeue[2] /\ idequeue[2] # b /\ idequeue[2] \in Buf
        BY <2>1, <2>5, <4>2
      <4>4. active' = [block |-> blockno'[idequeue'[1]],
                       out |-> IF idequeue'[1] \in dirty THEN data[idequeue'[1]] ELSE None]
        BY <1>3, <3>1, <4>2 DEF idestart
      <4> QED
        BY <1>1, <1>3, <4>3, <4>4 DEF Command
    <3> QED
      BY <1>3, <3>1
  <2> QED
    BY <2>7, <2>8, <2>9, <2>10 DEF QueueKnown
<1> QED
  BY <1>4, <1>5, <1>6, <1>8, <1>9, <1>10, <1>11

(* log_write and bwrite: whoever has the lock stores into the buffer. *)
LEMMA StoreKeeps ==
  ASSUME BInv, NEW p \in Hands, NEW d \in Data, pc[p] = "use", Store(buf[p], d),
         NEW k \in {"use", "rw"}, pc' = [pc EXCEPT ![p] = k],
         UNCHANGED <<list, blockno, refcnt, valid, holder, idequeue, active, disk, want, buf, asleep, panicked>>
  PROVE  IInv' /\ DataTypes' /\ FlagsKnown' /\ Coherent' /\ QueueKnown' /\ SleepersWait' /\ NoOtherPanic'
<1> USE DEF BInv
<1>1. PICK b \in Buf : b = buf[p]
  BY HoldersAlone DEF Holding
<1>2. PICK blk \in Blocks : blk = blockno[b]
  BY <1>1, HoldersAlone DEF Holding
<1>3. /\ holder[b] = p /\ p # None /\ b \in valid
      /\ \A q \in Hands : pc[q] \in Holding /\ buf[q] = b => q = p
      /\ \A c \in Buf : blockno[c] = blk => c = b
  BY <1>1, <1>2, HoldersAlone DEF Holding, FlagsKnown
<1>4. /\ data' = [data EXCEPT ![b] = d] /\ latest' = [latest EXCEPT ![blk] = d]
      /\ dirty' = dirty \cup {b}
  BY <1>1, <1>2 DEF Store
<1>5. /\ pc \in [Hands -> {"idle", "lock", "put"} \cup Holding]
      /\ data \in [Buf -> Data \cup {None}] /\ latest \in [Blocks -> Data]
  BY DEF IInv, Types, DataTypes
<1>6. IInv'
  BY KeepIInv DEF Holding
<1>7. DataTypes'
  BY <1>3, <1>4, <1>5 DEF DataTypes
<1>8. FlagsKnown'
  BY <1>1, <1>3, <1>4, <1>5 DEF FlagsKnown, Done
<1>9. Coherent'
  <2>1. \A c \in valid' : data'[c] = latest'[blockno'[c]]
    <3> SUFFICES ASSUME NEW c \in valid PROVE data'[c] = latest'[blockno[c]]
      OBVIOUS
    <3>1. c \in Buf
      BY DEF DataTypes
    <3>2. CASE c = b
      BY <1>2, <1>4, <1>5, <3>1, <3>2
    <3>3. CASE c # b
      <4>1. blockno[c] # blk
        BY <1>3, <3>1, <3>3
      <4>2. latest'[blockno[c]] = latest[blockno[c]]
        BY <1>4, <4>1, <1>5
      <4> QED
        BY <1>4, <1>5, <3>1, <3>3, <4>2 DEF Coherent
    <3> QED
      BY <3>2, <3>3
  <2>2. \A bl \in Blocks : disk'[bl] = latest'[bl] \/ Cached(bl)' \cap dirty' # {}
    BY <1>2, <1>4, <1>5 DEF Coherent, Cached
  <2> QED
    BY <2>1, <2>2 DEF Coherent
<1>10. QueueKnown'
  <2>1. pc[holder[b]] # "io"
    BY <1>3
  <2>2. \A c \in Buf : Waiting(c)' <=> Waiting(c)
    BY <1>4, <2>1, WaitingKept
  <2>3. \A c \in Buf : Waiting(c) => c # b
    BY <2>1 DEF Waiting
  <2> QED
    BY <1>4, <1>5, <2>2, <2>3, QueueKept
<1>11. SleepersWait'
  <2>1. p \notin asleep
    BY DEF FlagsKnown
  <2>2. \A q \in asleep : q \in Hands /\ pc'[q] = pc[q]
    BY <1>5, <2>1 DEF DataTypes
  <2> QED
    BY <1>4, <2>2 DEF SleepersWait, Done
<1>12. NoOtherPanic'
  BY DEF NoOtherPanic
<1> QED
  BY <1>6, <1>7, <1>8, <1>9, <1>10, <1>11, <1>12

LEMMA LogWriteBInv ==
  ASSUME BInv, NEW p \in Hands, NEW d \in Data, log_write(p, d)
  PROVE  BInv'
<1> USE DEF BInv
<1>1. /\ pc[p] = "use" /\ Store(buf[p], d) /\ Cardinality(dirty \cup {buf[p]}) <= MaxDirty
      /\ UNCHANGED <<list, blockno, refcnt, valid, holder, idequeue, active, disk, pc, want, buf, asleep, panicked>>
  BY DEF log_write, drive, procs
<1>2. pc' = [pc EXCEPT ![p] = "use"]
  BY <1>1 DEF IInv, Types
<1> QED
  BY <1>1, <1>2, StoreKeeps

LEMMA BwriteBInv ==
  ASSUME BInv, NEW p \in Hands, NEW d \in Data, bwrite(p, d)
  PROVE  BInv'
<1> USE DEF BInv
<1>1. /\ pc[p] = "use" /\ pc' = [pc EXCEPT ![p] = "rw"] /\ Store(buf[p], d)
      /\ UNCHANGED <<list, blockno, refcnt, valid, holder, idequeue, active, disk, want, buf, asleep, panicked>>
  BY HoldersAlone DEF bwrite, drive, Holding
<1> QED
  BY <1>1, StoreKeeps

LEMMA ReleaseBInv ==
  ASSUME BInv, NEW p \in Hands, brelse(p)
  PROVE  BInv'
<1> USE DEF BInv
<1>1. /\ pc[p] = "use" /\ pc' = [pc EXCEPT ![p] = "put"]
      /\ holder' = [holder EXCEPT ![buf[p]] = None]
      /\ asleep' = asleep \ {q \in Hands : pc[q] = "lock" /\ buf[q] = buf[p]}
      /\ UNCHANGED <<list, blockno, refcnt, valid, dirty, data, idequeue, active, disk, want, buf, latest>>
  BY DEF brelse, releasesleep, Wake, drive
<1>2. IInv'
  BY ReleaseIInv
<1>3. buf[p] \in Buf /\ holder[buf[p]] = p /\ p # None
  BY <1>1, HoldersAlone DEF Holding
<1>4. /\ pc \in [Hands -> {"idle", "lock", "put"} \cup Holding]
      /\ holder \in [Buf -> Hands \cup {None}]
  BY DEF IInv, Types
<1>5. DataTypes' /\ FlagsKnown' /\ Coherent'
  BY <1>1, <1>4 DEF DataTypes, FlagsKnown, Coherent, Cached, Done
<1>7. QueueKnown'
  <2>1. \A b \in Buf : Waiting(b)' <=> Waiting(b)
    <3> SUFFICES ASSUME NEW b \in Buf PROVE Waiting(b)' <=> Waiting(b)
      OBVIOUS
    <3>1. CASE b = buf[p]
      BY <1>1, <1>3, <1>4, <3>1 DEF Waiting
    <3>2. CASE b # buf[p]
      <4>1. holder[b] # p
        BY <1>3, <3>2 DEF IInv, Locked
      <4> QED
        BY <1>1, <1>4, <3>2, <4>1 DEF Waiting, Done
    <3> QED
      BY <3>1, <3>2
  <2> QED
    BY <1>1, <2>1, QueueKept
<1>8. SleepersWait'
  <2> SUFFICES ASSUME NEW q \in asleep'
               PROVE  IF pc'[q] = "lock" THEN holder'[buf[q]] # None ELSE ~Done(buf[q])
    BY <1>1 DEF SleepersWait, Done
  <2>1. q \in Hands /\ q \in asleep /\ q # p /\ pc'[q] = pc[q]
    BY <1>1, <1>4 DEF DataTypes, FlagsKnown
  <2>2. pc[q] = "lock" => buf[q] # buf[p] /\ buf[q] \in Buf
    BY <1>1, <2>1 DEF IInv, Counted, Types
  <2> QED
    BY <1>1, <1>4, <2>1, <2>2 DEF SleepersWait
<1>9. NoOtherPanic'
  BY <1>3 DEF NoOtherPanic, brelse
<1> QED
  BY <1>2, <1>5, <1>7, <1>8, <1>9

(* The list keeps every buffer when one of them goes to its front. *)
LEMMA ToFrontType ==
  ASSUME NEW b \in Buf, list \in [Buf -> Buf], \A c \in Buf : \E i \in Buf : list[i] = c
  PROVE  ToFront(b) \in [Buf -> Buf] /\ \A c \in Buf : \E i \in Buf : ToFront(b)[i] = c
<1> DEFINE k == CHOOSE i \in Buf : list[i] = b
<1>1. k \in Buf /\ list[k] = b
  OBVIOUS
<1> HIDE DEF k
<1>2. ToFront(b) = [i \in Buf |-> IF i = 1 THEN b ELSE IF i <= k THEN list[i - 1] ELSE list[i]]
  BY DEF ToFront, k
<1>3. \A i \in Buf : i # 1 => i - 1 \in Buf
  BY BcacheAssumption DEF Buf
<1>4. ToFront(b) \in [Buf -> Buf]
  BY <1>2, <1>3
<1>5. ASSUME NEW c \in Buf PROVE \E i \in Buf : ToFront(b)[i] = c
  <2>1. PICK i \in Buf : list[i] = c
    OBVIOUS
  <2>2. CASE i = k
    <3>1. 1 \in Buf /\ ToFront(b)[1] = c
      BY <1>1, <1>2, <2>1, <2>2, BcacheAssumption DEF Buf
    <3> QED
      BY <3>1
  <2>3. CASE i < k
    <3>1. i + 1 \in Buf /\ i + 1 # 1 /\ i + 1 <= k /\ (i + 1) - 1 = i
      BY <1>1, <2>3, BcacheAssumption DEF Buf
    <3>2. ToFront(b)[i + 1] = list[(i + 1) - 1]
      BY <1>2, <3>1
    <3> QED
      BY <2>1, <3>1, <3>2
  <2>4. CASE i > k
    <3>1. i # 1 /\ ~(i <= k)
      BY <1>1, <2>4 DEF Buf
    <3> QED
      BY <1>2, <2>1, <3>1
  <2> QED
    BY <1>1, <2>2, <2>3, <2>4 DEF Buf
<1> QED
  BY <1>4, <1>5

LEMMA PutBInv ==
  ASSUME BInv, NEW p \in Hands, brelse_put(p)
  PROVE  BInv'
<1> USE DEF BInv
<1>1. /\ pc[p] = "put" /\ pc' = [pc EXCEPT ![p] = "idle"]
      /\ want' = [want EXCEPT ![p] = None] /\ buf' = [buf EXCEPT ![p] = None]
      /\ list' = IF refcnt[buf[p]] = 1 THEN ToFront(buf[p]) ELSE list
      /\ UNCHANGED <<blockno, valid, dirty, data, holder, idequeue, active, disk, asleep, panicked, latest>>
  BY DEF brelse_put, drive
<1>2. IInv'
  BY PutIInv
<1>3. /\ pc \in [Hands -> {"idle", "lock", "put"} \cup Holding] /\ buf[p] \in Buf
      /\ want \in [Hands -> Blocks \cup {None}] /\ buf \in [Hands -> Buf \cup {None}]
  BY <1>1 DEF IInv, Types, Counted
<1>4. DataTypes'
  BY <1>1, <1>3, ToFrontType DEF DataTypes
<1>5. FlagsKnown' /\ Coherent' /\ NoOtherPanic'
  <2>1. FlagsKnown'
    BY <1>1, <1>3 DEF FlagsKnown, Done
  <2>2. Coherent' /\ NoOtherPanic'
    BY <1>1 DEF Coherent, NoOtherPanic, Cached
  <2> QED
    BY <2>1, <2>2
<1>7. QueueKnown'
  BY <1>1, WaitingKept, QueueKept
<1>8. SleepersWait'
  BY <1>1, <1>3 DEF SleepersWait, FlagsKnown, DataTypes, Done
<1> QED
  BY <1>2, <1>4, <1>5, <1>7, <1>8

LEMMA CalmBInv ==
  ASSUME BInv, asleep' \subseteq asleep,
         UNCHANGED <<list, blockno, refcnt, valid, dirty, data, holder, idequeue, active, disk,
                     pc, want, buf, panicked, latest>>
  PROVE  BInv'
<1> USE DEF BInv
<1>1. IInv'
  BY DEF IInv, Types, Counted, Users, OneBufferPerBlock, Locked
<1>2. DataTypes' /\ FlagsKnown' /\ SleepersWait'
  BY DEF DataTypes, FlagsKnown, SleepersWait, Done
<1>3. Coherent' /\ NoOtherPanic'
  BY DEF Coherent, Cached, NoOtherPanic
<1>4. QueueKnown'
  BY DEF QueueKnown, Waiting, Command, Done
<1> QED
  BY <1>1, <1>2, <1>3, <1>4

LEMMA NextBInv == BInv /\ [Next]_vars => BInv'
<1> SUFFICES ASSUME BInv, [Next]_vars PROVE BInv'
  OBVIOUS
<1>1. CASE UNCHANGED vars
  BY <1>1, CalmBInv DEF vars, bufs, drive, procs
<1>2. ASSUME NEW p \in Hands, kill(p) PROVE BInv'
  BY <1>2, CalmBInv DEF kill, bufs, drive, procs
<1>3. ASSUME NEW p \in Hands, bget(p) PROVE BInv'
  BY <1>3, HitBInv, MissBInv DEF bget
<1> QED
  BY <1>1, <1>2, <1>3, InterruptBInv, AcquireBInv, IderwBInv, ResumeBInv, ReleaseBInv, PutBInv,
     LogWriteBInv, BwriteBInv DEF Next, Halt, Use

(* What the flags, the data and the driver's queue have to do with each    *)
(* other, in bio.c and ide.c, holds in every reachable state.              *)
THEOREM StoresInductive == Spec => []BInv
<1> QED
  BY InitBInv, NextBInv, PTL DEF Spec

(* bio.c loses no store: what a process reads from a block is what was last *)
(* stored into it, evicted or not; nor does it lose a buffer: bget panics  *)
(* only when all of them are in use, and nothing else in bio.c or iderw.   *)
THEOREM NoStoreIsLost == Spec => []CacheSound
<1>1. BInv => TypeOK
  <2> SUFFICES ASSUME BInv PROVE TypeOK
    OBVIOUS
  <2>1. Len(list) = NBUF /\ {list[i] : i \in 1 .. Len(list)} = Buf
    <3>1. list \in [1 .. NBUF -> Buf] /\ NBUF \in Nat
      BY BcacheAssumption DEF BInv, DataTypes, Buf
    <3>2. list \in Seq(Buf) /\ Len(list) = NBUF
      BY <3>1, SeqDef, LenProperties
    <3> QED
      BY <3>2 DEF BInv, DataTypes, Buf
  <2> QED
    BY <2>1 DEF BInv, IInv, Types, Counted, Users, DataTypes, TypeOK
<1>2. BInv => NoBufferIsLost
  BY SomeUnused DEF BInv, DataTypes, NoOtherPanic, NoBufferIsLost
<1>3. BInv => CacheSound
  BY <1>1, <1>2 DEF BInv, CacheSound
<1> QED
  BY <1>3, StoresInductive, PTL

(* ide.c: every request in the queue has a process that waits for it, every *)
(* waiting process a request, the drive works on the first, and nobody     *)
(* sleeps on a lock that is free or on a request that has ended.           *)
THEOREM DriverServes == Spec => []DriverSound
<1>1. BInv => QueueSound
  <2> SUFFICES ASSUME BInv PROVE QueueSound
    OBVIOUS
  <2> USE DEF BInv
  <2>1. /\ idequeue \in Seq(Buf) /\ DOMAIN idequeue = 1 .. Len(idequeue)
        /\ \A i \in 1 .. Len(idequeue) : idequeue[i] \in Buf
    BY LenProperties, ElementOfSeq DEF DataTypes
  <2>2. {idequeue[i] : i \in 1 .. Len(idequeue)} \subseteq {buf[p] : p \in {q \in Hands : pc[q] = "io" /\ ~Done(buf[q])}}
    <3> SUFFICES ASSUME NEW i \in 1 .. Len(idequeue)
                 PROVE  \E p \in Hands : pc[p] = "io" /\ ~Done(buf[p]) /\ buf[p] = idequeue[i]
      OBVIOUS
    <3>1. Waiting(idequeue[i]) /\ idequeue[i] \in Buf
      BY <2>1 DEF QueueKnown
    <3>2. holder[idequeue[i]] \in Hands /\ buf[holder[idequeue[i]]] = idequeue[i]
      BY <3>1 DEF Waiting, IInv, Types, Locked
    <3> QED
      BY <3>1, <3>2 DEF Waiting
  <2>3. {buf[p] : p \in {q \in Hands : pc[q] = "io" /\ ~Done(buf[q])}} \subseteq {idequeue[i] : i \in 1 .. Len(idequeue)}
    <3> SUFFICES ASSUME NEW p \in Hands, pc[p] = "io", ~Done(buf[p])
                 PROVE  \E i \in 1 .. Len(idequeue) : idequeue[i] = buf[p]
      OBVIOUS
    <3>1. buf[p] \in Buf /\ Waiting(buf[p])
      BY HoldersAlone DEF Holding, Waiting
    <3> QED
      BY <3>1 DEF QueueKnown
  <2>4. idequeue # <<>> => active = Command(Head(idequeue))
    BY <2>1, HeadTailProperties DEF QueueKnown
  <2> QED
    BY <2>1, <2>2, <2>3, <2>4 DEF QueueSound, QueueKnown, Command
<1>2. BInv => DriverSound
  BY <1>1 DEF BInv, DriverSound
<1> QED
  BY <1>2, StoresInductive, PTL
=============================================================================
