---------------------------- MODULE InodeProofs ----------------------------
(* Proofs about Inode for any number of processes, inodes and calls: the    *)
(* references are exact, nothing is freed out of the hands of a process,    *)
(* and every deadlock has an iput under another inode's lock in it.         *)
EXTENDS Inode, FiniteSetTheorems, SequenceTheorems, WellFoundedInduction, TLAPS

Calls == {"none", "open", "create", "mkdir", "link", "link2", "unlink", "chdir"}
Places == {"idle", "walk", "found", "got", "made", "unl", "unl_bad", "unl_count",
           "link_unlock", "link_bad", "alloc", "new"}

-----------------------------------------------------------------------------
(* The inductive invariant.                                                *)
OnDisk ==
  /\ type \in [Inum -> Types] /\ nlink \in [Inum -> Int]
  /\ dir \in [Inum -> [Names \cup Dots -> 0 .. NINODES]]

InMemory ==
  /\ ref \in [Inum -> Int] /\ lock \in [Inum -> Procs \cup {0}]
  /\ cwd \in [Procs -> Inum] /\ fd \in [Procs -> 0 .. NINODES]
  /\ unref \in [Procs -> 0 .. NINODES]

InCalls ==
  /\ call \in [Procs -> Calls] /\ pc \in [Procs -> Places]
  /\ names \in [Procs -> Seq(Names \cup Dots)]
  /\ at \in [Procs -> 0 .. NINODES] /\ obj \in [Procs -> 0 .. NINODES]
  /\ puts \in [Procs -> Seq(Inum)] /\ \A p \in Procs : Len(puts[p]) <= 2

Typed == OnDisk /\ InMemory /\ InCalls

(* Only directories have names. *)
OnlyDirs(types, dirs) == \A d \in Inum : types[d] # "dir" => \A n \in Names : dirs[d][n] = 0

(* Where a call is, it has the inodes and the names it works on. *)
Placed(c, l, a, o, s) ==
  /\ a # 0 <=> l \in {"walk", "found", "got", "made", "unl", "unl_bad", "link_unlock", "alloc", "new"}
  /\ o # 0 <=> l \in {"unl", "unl_count", "new"} \/ c = "link2"
  /\ l = "idle" => c = "none"
  /\ l \in {"got", "made", "alloc", "new"} => c \in {"create", "mkdir"}
  /\ l \in {"unl", "unl_bad", "unl_count"} => c = "unlink"
  /\ l \in {"link_unlock", "link_bad"} => c = "link2"
  /\ l = "walk" \/ (l \in {"found", "unl", "alloc", "new"} /\ c \in {"create", "mkdir", "unlink", "link2"}) => s # <<>>

(* The inode a process has locked between two of its steps, but the one    *)
(* that its iput frees.                                                    *)
Keeps(l, a, o) ==
  IF l \in {"made", "unl", "unl_bad", "link_unlock", "alloc", "new"} THEN a
  ELSE IF l = "unl_count" THEN o ELSE 0
Frees(p, i) == p \in freeing /\ Head(puts[p]) = i

InPlace ==
  /\ \A p \in Procs : Placed(call[p], pc[p], at[p], obj[p], names[p])
  /\ \A p \in freeing :
       puts[p] # <<>> /\ unref[p] = 0 /\ Keeps(pc[p], at[p], obj[p]) # Head(puts[p])

Locked == \A p \in Procs, i \in Inum : lock[i] = p <=> Keeps(pc[p], at[p], obj[p]) = i \/ Frees(p, i)

Counted == \A i \in Inum : IsFiniteSet(Pointers(i)) /\ ref[i] = Cardinality(Pointers(i))

(* What a call has learnt of its inodes under their locks stays true after. *)
LearntBy(p) ==
  /\ pc[p] \in {"found", "unl", "alloc", "new"} /\ nameiparent(p) => type[at[p]] = "dir"
  /\ pc[p] = "unl" => Head(names[p]) \in Names /\ dir[at[p]][Head(names[p])] = obj[p]
  /\ call[p] = "link2" => type[obj[p]] = "file"

Learnt == \A p \in Procs : LearntBy(p)

(* Of an inode that an iput frees, no process has more than a reference.   *)
Cleared == \A p \in freeing, q \in Procs : Clear(q, Head(puts[p]))

(* The inode that ialloc has marked for a call, and the inodes in memory.  *)
Marked ==
  /\ valid \subseteq Inum
  /\ chosen \in [Procs -> 0 .. NINODES] /\ \A p \in Procs : pc[p] = "alloc" <=> chosen[p] # 0

InodeInv ==
  freeing \subseteq Procs /\ Typed /\ InPlace /\ Locked /\ Counted /\ Learnt /\ Cleared /\ OnlyDirs(type, dir)

-----------------------------------------------------------------------------
(* Counting the pointers: what one process has, and what the others have.  *)
On(s, k, i) == IF k \in DOMAIN s /\ s[k] = i THEN 1 ELSE 0
Row(s, i) == (On(s, 1, i) + On(s, 2, i) + On(s, 3, i) + On(s, 4, i) + On(s, 5, i))
             + (On(s, 6, i) + On(s, 7, i))
PointersOf(H, i) == UNION {{<<p, k>> : k \in {k \in DOMAIN H[p] : H[p][k] = i}} : p \in Procs}

LEMMA OneMore ==
  ASSUME NEW S, IsFiniteSet(S), NEW p, NEW k, NEW s, NEW i, <<p, k>> \notin S,
         NEW T, T = S \cup {x \in {<<p, k>>} : k \in DOMAIN s /\ s[k] = i}
  PROVE  IsFiniteSet(T) /\ Cardinality(T) = Cardinality(S) + On(s, k, i)
<1>0. Cardinality(S) \in Nat
  BY FS_CardinalityType
<1>1. CASE k \in DOMAIN s /\ s[k] = i
  <2>1. T = S \cup {<<p, k>>}
    BY <1>1
  <2>2. IsFiniteSet(T) /\ Cardinality(T) = Cardinality(S) + 1
    BY <2>1, FS_AddElement, Zenon
  <2>3. QED
    BY <1>1, <2>2 DEF On
<1>2. CASE ~(k \in DOMAIN s /\ s[k] = i)
  <2>1. T = S
    BY <1>2
  <2>2. IsFiniteSet(T) /\ Cardinality(T) = Cardinality(S)
    BY <2>1, Zenon
  <2>3. QED
    BY <1>0, <1>2, <2>2 DEF On
<1>3. QED
  BY <1>1, <1>2

LEMMA RowCounted ==
  ASSUME NEW H, NEW p \in Procs, NEW i, DOMAIN H[p] \subseteq 1 .. 7,
         NEW O, O = UNION {{<<q, k>> : k \in {k \in DOMAIN H[q] : H[q][k] = i}} : q \in Procs \ {p}},
         IsFiniteSet(O)
  PROVE  /\ IsFiniteSet(PointersOf(H, i))
         /\ Cardinality(PointersOf(H, i)) = Cardinality(O) + Row(H[p], i)
<1> DEFINE D(k) == {x \in {<<p, k>>} : k \in DOMAIN H[p] /\ H[p][k] = i}
           U(S, k) == S \cup D(k)
           S1 == U(O, 1)
           S2 == U(S1, 2)
           S3 == U(S2, 3)
           S4 == U(S3, 4)
           S5 == U(S4, 5)
           S6 == U(S5, 6)
           S7 == U(S6, 7)
<1>1. \A k \in 1 .. 7 : <<p, k>> \notin O
  OBVIOUS
<1>2. PointersOf(H, i) = S7
  <2>1. ASSUME NEW x \in PointersOf(H, i) PROVE x \in S7
    <3>1. PICK q \in Procs : \E k \in DOMAIN H[q] : H[q][k] = i /\ x = <<q, k>>
      BY <2>1 DEF PointersOf
    <3>a. PICK k \in DOMAIN H[q] : H[q][k] = i /\ x = <<q, k>>
      BY <3>1
    <3>2. CASE q # p
      BY <3>a, <3>2
    <3>3. CASE q = p
      <4>1. k \in 1 .. 7
        BY <3>a, <3>3
      <4>2. k = 1 \/ k = 2 \/ k = 3 \/ k = 4 \/ k = 5 \/ k = 6 \/ k = 7
        BY <4>1
      <4>3. x \in D(k)
        BY <3>a, <3>3
      <4> HIDE DEF D
      <4>4. QED
        BY <4>2, <4>3
    <3>4. QED
      BY <3>2, <3>3
  <2>2. ASSUME NEW x \in S7 PROVE x \in PointersOf(H, i)
    <3>1. CASE x \in O
      BY <3>1 DEF PointersOf
    <3>2. ASSUME NEW k, x \in D(k) PROVE x \in PointersOf(H, i)
      BY <3>2 DEF PointersOf
    <3> HIDE DEF D
    <3>3. QED
      BY <2>2, <3>1, <3>2
  <2>3. QED
    BY <2>1, <2>2
<1>s1. S1 = U(O, 1) /\ <<p, 1>> \notin O
  BY <1>1
<1>s2. S2 = U(S1, 2) /\ <<p, 2>> \notin S1
  BY <1>1
<1>s3. S3 = U(S2, 3) /\ <<p, 3>> \notin S2
  BY <1>1
<1>s4. S4 = U(S3, 4) /\ <<p, 4>> \notin S3
  BY <1>1
<1>s5. S5 = U(S4, 5) /\ <<p, 5>> \notin S4
  BY <1>1
<1>s6. S6 = U(S5, 6) /\ <<p, 6>> \notin S5
  BY <1>1
<1>s7. S7 = U(S6, 7) /\ <<p, 7>> \notin S6
  BY <1>1
<1>a. ASSUME NEW S, NEW T, NEW k, IsFiniteSet(S), <<p, k>> \notin S, T = U(S, k)
      PROVE  IsFiniteSet(T) /\ Cardinality(T) = Cardinality(S) + On(H[p], k, i)
  BY <1>a, OneMore
<1> HIDE DEF D, U, S1, S2, S3, S4, S5, S6, S7
<1>5. IsFiniteSet(S1) /\ Cardinality(S1) = Cardinality(O) + On(H[p], 1, i)
  BY <1>s1, <1>a
<1>6. IsFiniteSet(S2) /\ Cardinality(S2) = Cardinality(S1) + On(H[p], 2, i)
  BY <1>5, <1>s2, <1>a
<1>7. IsFiniteSet(S3) /\ Cardinality(S3) = Cardinality(S2) + On(H[p], 3, i)
  BY <1>6, <1>s3, <1>a
<1>8. IsFiniteSet(S4) /\ Cardinality(S4) = Cardinality(S3) + On(H[p], 4, i)
  BY <1>7, <1>s4, <1>a
<1>9. IsFiniteSet(S5) /\ Cardinality(S5) = Cardinality(S4) + On(H[p], 5, i)
  BY <1>8, <1>s5, <1>a
<1>10. IsFiniteSet(S6) /\ Cardinality(S6) = Cardinality(S5) + On(H[p], 6, i)
  BY <1>9, <1>s6, <1>a
<1>11. IsFiniteSet(S7) /\ Cardinality(S7) = Cardinality(S6) + On(H[p], 7, i)
  BY <1>10, <1>s7, <1>a
<1>12. Cardinality(O) \in Nat /\ \A k \in 1 .. 7 : On(H[p], k, i) \in {0, 1}
  BY FS_CardinalityType DEF On
<1>13. QED
  BY <1>2, <1>5, <1>6, <1>7, <1>8, <1>9, <1>10, <1>11, <1>12 DEF Row

(* What one process takes and gives back changes the count by as much. *)
LEMMA CountMoves ==
  ASSUME NEW H, NEW G, NEW p \in Procs, NEW i, DOMAIN H[p] \subseteq 1 .. 7, DOMAIN G[p] \subseteq 1 .. 7,
         \A q \in Procs \ {p} : G[q] = H[q], IsFiniteSet(PointersOf(H, i))
  PROVE  /\ IsFiniteSet(PointersOf(G, i))
         /\ Cardinality(PointersOf(G, i)) = Cardinality(PointersOf(H, i)) - Row(H[p], i) + Row(G[p], i)
<1> DEFINE O == UNION {{<<q, k>> : k \in {k \in DOMAIN H[q] : H[q][k] = i}} : q \in Procs \ {p}}
<1>1. O = UNION {{<<q, k>> : k \in {k \in DOMAIN G[q] : G[q][k] = i}} : q \in Procs \ {p}}
  OBVIOUS
<1>2. IsFiniteSet(O)
  <2>1. O \subseteq PointersOf(H, i)
    BY DEF PointersOf
  <2>2. QED
    BY <2>1, FS_Subset
<1>3. Cardinality(PointersOf(H, i)) = Cardinality(O) + Row(H[p], i)
  BY <1>2, RowCounted
<1>4. IsFiniteSet(PointersOf(G, i)) /\ Cardinality(PointersOf(G, i)) = Cardinality(O) + Row(G[p], i)
  BY <1>1, <1>2, RowCounted
<1>5. Cardinality(O) \in Nat /\ Row(H[p], i) \in Int /\ Row(G[p], i) \in Int
  BY <1>2, FS_CardinalityType DEF Row, On
<1> HIDE DEF O
<1>6. QED
  BY <1>3, <1>4, <1>5

Is(x, i) == IF x = i THEN 1 ELSE 0
Queued(s, i) == On(s, 1, i) + On(s, 2, i)
Mine(p, i) == (Is(cwd[p], i) + Is(fd[p], i) + Is(at[p], i) + Is(obj[p], i) + Is(unref[p], i))
              + Queued(puts[p], i)

LEMMA QueuedIs ==
  ASSUME NEW a, NEW b, NEW i
  PROVE  /\ Queued(<<>>, i) = 0 /\ Queued(<<a>>, i) = Is(a, i)
         /\ Queued(<<a, b>>, i) = Is(a, i) + Is(b, i)
BY DEF Queued, On, Is

LEMMA QueuedTail ==
  ASSUME NEW s \in Seq(Inum), Len(s) <= 2, s # <<>>, NEW i
  PROVE  /\ Queued(s, i) = Is(Head(s), i) + Queued(Tail(s), i)
         /\ Head(s) \in Inum /\ Tail(s) \in Seq(Inum) /\ Len(Tail(s)) <= 1
<1>1. /\ Len(s) = 1 \/ Len(s) = 2
      /\ Head(s) = s[1] /\ Tail(s) \in Seq(Inum) /\ Len(Tail(s)) = Len(s) - 1
      /\ Head(s) \in Inum
  <2>1. Len(s) \in Nat /\ Len(s) # 0
    BY EmptySeq
  <2>2. Head(s) \in Inum /\ Tail(s) \in Seq(Inum)
    BY HeadTailProperties
  <2>3. Head(s) = s[1] /\ Len(Tail(s)) = Len(s) - 1 /\ \A k \in 1 .. Len(s) - 1 : Tail(s)[k] = s[k + 1]
    BY HeadTailProperties
  <2>4. QED
    BY <2>1, <2>2, <2>3
<1>a. \A k \in 1 .. Len(s) - 1 : Tail(s)[k] = s[k + 1]
  BY HeadTailProperties
<1>2. CASE Len(s) = 1
  <2>1. DOMAIN s = {1} /\ DOMAIN Tail(s) = {}
    BY <1>1, <1>2
  <2>2. QED
    BY <1>1, <2>1 DEF Queued, On, Is
<1>3. CASE Len(s) = 2
  <2>b. DOMAIN s = 1 .. 2 /\ DOMAIN Tail(s) = 1 .. 1
    <3>1. DOMAIN s = 1 .. Len(s) /\ DOMAIN Tail(s) = 1 .. Len(Tail(s)) /\ Len(Tail(s)) = 1
      BY <1>1, <1>3, LenProperties
    <3>2. QED
      BY <1>3, <3>1
  <2>1. DOMAIN s = {1, 2} /\ DOMAIN Tail(s) = {1}
    BY <2>b
  <2>a. Tail(s)[1] = s[2]
    <3>1. 1 \in 1 .. Len(s) - 1
      BY <1>3
    <3>2. Tail(s)[1] = s[1 + 1] /\ 1 + 1 = 2
      BY <1>a, <3>1
    <3>3. QED
      BY <3>2
  <2>2. QED
    BY <1>1, <2>1, <2>a DEF Queued, On, Is
<1>4. QED
  BY <1>1, <1>2, <1>3

Joined(t, s, h, n) ==
  /\ n \in 0 .. 2 /\ DOMAIN h = 1 .. 5 + n /\ DOMAIN s = 1 .. n
  /\ \A k \in 1 .. 5 : h[k] = t[k]
  /\ \A k \in 1 .. n : h[5 + k] = s[k]

LEMMA RowOfBoth ==
  ASSUME NEW t, NEW s, NEW h, NEW n, Joined(t, s, h, n)
  PROVE  /\ DOMAIN h \subseteq 1 .. 7
         /\ \A i : Row(h, i) = (Is(t[1], i) + Is(t[2], i) + Is(t[3], i) + Is(t[4], i) + Is(t[5], i))
                               + Queued(s, i)
<1> USE DEF Joined
<1>1. /\ 1 \in DOMAIN h /\ 2 \in DOMAIN h /\ 3 \in DOMAIN h /\ 4 \in DOMAIN h /\ 5 \in DOMAIN h
      /\ 6 \in DOMAIN h <=> 1 \in DOMAIN s
      /\ 7 \in DOMAIN h <=> 2 \in DOMAIN s
      /\ h[1] = t[1] /\ h[2] = t[2] /\ h[3] = t[3] /\ h[4] = t[4] /\ h[5] = t[5]
  OBVIOUS
<1>2. 1 \in DOMAIN s => h[6] = s[1]
  <2>1. ASSUME 1 \in 1 .. n PROVE h[5 + 1] = s[1]
    BY <2>1
  <2>2. QED
    BY <2>1
<1>3. 2 \in DOMAIN s => h[7] = s[2]
  <2>1. ASSUME 2 \in 1 .. n PROVE h[5 + 2] = s[2]
    BY <2>1
  <2>2. QED
    BY <2>1
<1>4. ASSUME NEW i
      PROVE  Row(h, i) = (Is(t[1], i) + Is(t[2], i) + Is(t[3], i) + Is(t[4], i) + Is(t[5], i)) + Queued(s, i)
  <2>1. /\ On(h, 1, i) = Is(t[1], i) /\ On(h, 2, i) = Is(t[2], i) /\ On(h, 3, i) = Is(t[3], i)
        /\ On(h, 4, i) = Is(t[4], i) /\ On(h, 5, i) = Is(t[5], i)
    BY <1>1 DEF On, Is
  <2>2. On(h, 6, i) = On(s, 1, i) /\ On(h, 7, i) = On(s, 2, i)
    BY <1>1, <1>2, <1>3 DEF On
  <2>3. QED
    BY <2>1, <2>2 DEF Row, Queued
<1>5. DOMAIN h \subseteq 1 .. 7
  OBVIOUS
<1>6. QED
  BY <1>4, <1>5, Zenon

(* The reference counts stay exact when one process moves its pointers and *)
(* ref goes up and down by as much.                                        *)
Calling(p) ==
  \A q \in Procs \ {p} :
    /\ call'[q] = call[q] /\ pc'[q] = pc[q] /\ names'[q] = names[q]
    /\ at'[q] = at[q] /\ obj'[q] = obj[q] /\ puts'[q] = puts[q]
Using(p) == \A q \in Procs \ {p} : cwd'[q] = cwd[q] /\ fd'[q] = fd[q] /\ unref'[q] = unref[q]
Alone(p) == Calling(p) /\ Using(p) /\ UNCHANGED freeing
Stays(p) == \A i \in Inum : lock[i] \notin {0, p} /\ Clear(p, i) => Clear(p, i)'

LEMMA InodesAreNumbers ==
  ASSUME NEW s \in Seq(Inum)
  PROVE  s \in Seq(Nat)
<1>1. PICK n \in Nat : s \in [1 .. n -> Inum]
  <2>1. Len(s) \in Nat /\ s \in [1 .. Len(s) -> Inum]
    BY LenProperties
  <2>2. QED
    BY <2>1
<1>2. Inum \subseteq Nat
  BY InodeAssumption DEF InodeAssumption, Inum
<1>3. s \in [1 .. n -> Nat]
  BY <1>1, <1>2
<1>4. QED
  BY <1>3

HeldAre == \A p \in Procs : DOMAIN Held(p) \subseteq 1 .. 7 /\ \A i : Row(Held(p), i) = Mine(p, i)

LEMMA HeldOf == Typed => HeldAre
<1> SUFFICES ASSUME Typed, NEW p \in Procs
    PROVE  DOMAIN Held(p) \subseteq 1 .. 7 /\ \A i : Row(Held(p), i) = Mine(p, i)
  BY Zenon DEF HeldAre
<1> DEFINE t == <<cwd[p], fd[p], at[p], obj[p], unref[p]>>
           s == puts[p]
           h == t \o s
<1>1. cwd[p] \in Nat /\ fd[p] \in Nat /\ at[p] \in Nat /\ obj[p] \in Nat /\ unref[p] \in Nat
  BY InodeAssumption DEF InodeAssumption, Inum, Typed, InMemory, InCalls
<1>2. /\ t \in Seq(Nat) /\ Len(t) = 5
      /\ t[1] = cwd[p] /\ t[2] = fd[p] /\ t[3] = at[p] /\ t[4] = obj[p] /\ t[5] = unref[p]
  BY <1>1
<1>3. s \in Seq(Nat) /\ Len(s) <= 2
  BY InodesAreNumbers DEF Typed, InCalls
<1>4. Held(p) = h
  BY DEF Held
<1>a. \A i : Mine(p, i) = (Is(t[1], i) + Is(t[2], i) + Is(t[3], i) + Is(t[4], i) + Is(t[5], i)) + Queued(s, i)
  BY <1>2, Zenon DEF Mine
<1> HIDE DEF t, s
<1>5. /\ h \in Seq(Nat) /\ Len(h) = Len(t) + Len(s)
      /\ \A k \in 1 .. Len(t) + Len(s) : h[k] = IF k <= Len(t) THEN t[k] ELSE s[k - Len(t)]
  BY <1>2, <1>3, ConcatProperties, Zenon
<1> HIDE DEF h
<1>6. PICK n \in 0 .. 2 : n = Len(s) /\ DOMAIN s = 1 .. n
  <2>1. Len(s) \in 0 .. 2 /\ DOMAIN s = 1 .. Len(s)
    <3>1. Len(s) \in Nat /\ DOMAIN s = 1 .. Len(s)
      BY <1>3, LenProperties
    <3>2. QED
      BY <1>3, <3>1
  <2>2. QED
    BY <2>1, Zenon
<1>7. DOMAIN h = 1 .. 5 + n
  BY <1>2, <1>5, <1>6
<1>8. \A k \in 1 .. 5 : h[k] = t[k]
  BY <1>2, <1>5, <1>6
<1>9. ASSUME NEW k \in 1 .. n PROVE h[5 + k] = s[k]
  <2>1. 5 + k \in 1 .. 5 + n /\ ~(5 + k <= 5) /\ (5 + k) - 5 = k
    OBVIOUS
  <2>2. QED
    BY <1>2, <1>5, <1>6, <2>1
<1>10. /\ DOMAIN h \subseteq 1 .. 7
       /\ \A i : Row(h, i) = (Is(t[1], i) + Is(t[2], i) + Is(t[3], i) + Is(t[4], i) + Is(t[5], i)) + Queued(s, i)
  <2>1. \A k \in 1 .. n : h[5 + k] = s[k]
    BY <1>9
  <2>2. QED
    <3>1. Joined(t, s, h, n)
      BY <1>6, <1>7, <1>8, <2>1 DEF Joined
    <3>2. QED
      BY <3>1, RowOfBoth, Zenon
<1>11. QED
  BY <1>4, <1>10, <1>a, Zenon

LEMMA HeldOfNext == Typed' => HeldAre'
<1>1. Typed => HeldAre
  BY HeldOf
<1>2. QED
  BY <1>1, PTL

LEMMA CountsKeep ==
  ASSUME Typed, Typed', Counted, NEW p \in Procs, Calling(p), Using(p),
         \A i \in Inum : ref'[i] = ref[i] - Mine(p, i) + Mine(p, i)'
  PROVE  Counted'
<1> DEFINE H == [q \in Procs |-> Held(q)]
           G == [q \in Procs |-> Held(q)']
<1>1. /\ DOMAIN H[p] \subseteq 1 .. 7 /\ \A i : Row(H[p], i) = Mine(p, i)
      /\ DOMAIN G[p] \subseteq 1 .. 7 /\ \A i : Row(G[p], i) = Mine(p, i)'
  <2>1. H[p] = Held(p) /\ G[p] = Held(p)'
    OBVIOUS
  <2>2. DOMAIN H[p] \subseteq 1 .. 7 /\ \A i : Row(H[p], i) = Mine(p, i)
    BY <2>1, HeldOf, Zenon DEF HeldAre
  <2>3. HeldAre'
    BY HeldOfNext
  <2>4. DOMAIN Held(p)' \subseteq 1 .. 7 /\ \A i : Row(Held(p)', i) = Mine(p, i)'
    BY <2>3, Zenon DEF HeldAre, Row, On
  <2>5. QED
    BY <2>1, <2>2, <2>4, Zenon
<1>a. DOMAIN H[p] \subseteq 1 .. 7 /\ DOMAIN G[p] \subseteq 1 .. 7
  BY <1>1
<1>2. \A q \in Procs \ {p} : G[q] = H[q]
  BY DEF Held, Calling, Using
<1>3. /\ \A i : Pointers(i) = PointersOf(H, i)
      /\ \A i : Pointers(i)' = PointersOf(G, i)
  BY DEF Pointers, PointersOf
<1> HIDE DEF H, G
<1>4. ASSUME NEW i \in Inum
      PROVE  IsFiniteSet(Pointers(i))' /\ ref'[i] = Cardinality(Pointers(i))'
  <2>1. IsFiniteSet(PointersOf(H, i)) /\ ref[i] = Cardinality(PointersOf(H, i))
    BY <1>3 DEF Counted
  <2>2. /\ IsFiniteSet(PointersOf(G, i))
        /\ Cardinality(PointersOf(G, i)) = Cardinality(PointersOf(H, i)) - Row(H[p], i) + Row(G[p], i)
    BY <1>a, <1>2, <2>1, CountMoves
  <2>3. ref'[i] = Cardinality(PointersOf(G, i))
    BY <1>1, <2>1, <2>2
  <2>4. QED
    BY <1>3, <2>2, <2>3
<1>5. QED
  BY <1>4 DEF Counted

-----------------------------------------------------------------------------
(* What a step of one process has to respect for the invariant to go on.   *)
LEMMA LocalStep ==
  ASSUME InodeInv, NEW p \in Procs, Alone(p), p \notin freeing, Typed',
         Placed(call'[p], pc'[p], at'[p], obj'[p], names'[p]),
         \A i \in Inum : lock'[i] = lock[i] \/ (lock[i] \in {0, p} /\ lock'[i] \in {0, p}),
         \A i \in Inum : lock'[i] = p <=> Keeps(pc'[p], at'[p], obj'[p]) = i,
         \A i \in Inum : ref'[i] = ref[i] - Mine(p, i)
           + ((Is(cwd'[p], i) + Is(fd'[p], i) + Is(at'[p], i) + Is(obj'[p], i) + Is(unref'[p], i))
              + Queued(puts'[p], i)),
         \A q \in Procs : LearntBy(q)', Stays(p),
         OnlyDirs(type, dir)'
  PROVE  InodeInv'
<1>1. Typed /\ Counted /\ InPlace /\ Locked
  BY DEF InodeInv
<1>2a. freeing \subseteq Procs
  BY DEF InodeInv
<1>2. InPlace'
  <2>1. SUFFICES ASSUME NEW q \in Procs
                 PROVE  Placed(call'[q], pc'[q], at'[q], obj'[q], names'[q])
    <3>1. \A r \in freeing' : r # p /\ r \in freeing /\ r \in Procs
      BY <1>2a DEF Alone
    <3>2. \A r \in freeing' : puts'[r] # <<>> /\ unref'[r] = 0 /\ Keeps(pc'[r], at'[r], obj'[r]) # Head(puts'[r])
      BY <1>1, <3>1 DEF Alone, Calling, Using, InPlace
    <3>3. QED
      BY <3>2 DEF InPlace, Placed, Keeps
  <2>2. CASE q = p
    BY <2>2
  <2>3. CASE q # p
    <3>1. call'[q] = call[q] /\ pc'[q] = pc[q] /\ names'[q] = names[q] /\ at'[q] = at[q] /\ obj'[q] = obj[q]
      BY <2>3 DEF Alone, Calling
    <3>2. Placed(call[q], pc[q], at[q], obj[q], names[q])
      BY <1>1 DEF InPlace
    <3>3. QED
      BY <3>1, <3>2, Zenon
  <2>4. QED
    BY <2>2, <2>3
<1>3. Locked'
  <2>1. SUFFICES ASSUME NEW q \in Procs, NEW i \in Inum
                 PROVE  lock'[i] = q <=> Keeps(pc'[q], at'[q], obj'[q]) = i \/ Frees(q, i)'
    BY DEF Locked, Keeps, Frees
  <2>2. CASE q = p
    BY <2>2 DEF Frees, Alone
  <2>3. CASE q # p
    <3>1. /\ pc'[q] = pc[q] /\ at'[q] = at[q] /\ obj'[q] = obj[q]
          /\ Frees(q, i)' = Frees(q, i)
      BY <2>3 DEF Alone, Calling, Frees
    <3>2. lock[i] = q <=> Keeps(pc[q], at[q], obj[q]) = i \/ Frees(q, i)
      BY <1>1 DEF Locked
    <3>3. lock'[i] = q <=> lock[i] = q
      BY <2>3, InodeAssumption DEF InodeAssumption
    <3>4. QED
      BY <3>1, <3>2, <3>3
  <2>4. QED
    BY <2>2, <2>3
<1>4. Counted'
  <2>1. ASSUME NEW i \in Inum PROVE ref'[i] = ref[i] - Mine(p, i) + Mine(p, i)'
    BY Zenon DEF Mine, Is, Queued, On
  <2>2. QED
    BY <1>1, <2>1, CountsKeep DEF Alone
<1>5. Learnt'
  BY DEF Learnt
<1>6. Cleared'
  <2>1. SUFFICES ASSUME NEW r \in freeing, NEW q \in Procs PROVE Clear(q, Head(puts[r]))'
    <3>1. freeing' = freeing /\ \A r \in freeing : puts'[r] = puts[r]
      BY <1>2a DEF Alone, Calling
    <3>2. QED
      BY <3>1 DEF Cleared, Clear, nameiparent
  <2>2. r \in Procs /\ r # p /\ Clear(q, Head(puts[r])) /\ puts[r] # <<>> /\ puts'[r] = puts[r]
    BY <1>1, <1>2a DEF InodeInv, Cleared, InPlace, Alone, Calling
  <2>3. PICK i \in Inum : i = Head(puts[r])
    BY <1>1, <2>2, QueuedTail DEF Typed, InCalls
  <2>4. lock[i] = r
    BY <1>1, <2>2, <2>3 DEF Locked, Frees
  <2>5. Clear(q, i)'
    <3>1. CASE q = p
      <4>1. r # 0 /\ lock[i] \notin {0, p}
        BY <2>2, <2>4, InodeAssumption DEF InodeAssumption
      <4>2. QED
        BY <2>2, <2>3, <3>1, <4>1 DEF Stays
    <3>2. CASE q # p
      BY <2>2, <2>3, <3>2 DEF Clear, nameiparent, Alone, Calling, Using
    <3>3. QED
      BY <3>1, <3>2
  <2>6. QED
    BY <2>2, <2>3, <2>5 DEF Clear, nameiparent
<1>7. QED
  BY <1>2a, <1>2, <1>3, <1>4, <1>5, <1>6 DEF InodeInv, Alone

LEMMA OthersKnow ==
  ASSUME InodeInv, NEW p \in Procs, Alone(p), UNCHANGED <<type, dir>>
  PROVE  \A q \in Procs \ {p} : LearntBy(q)'
<1> SUFFICES ASSUME NEW q \in Procs \ {p} PROVE LearntBy(q)'
  OBVIOUS
<1>1. LearntBy(q)
  BY DEF InodeInv, Learnt
<1>2. call'[q] = call[q] /\ pc'[q] = pc[q] /\ names'[q] = names[q] /\ at'[q] = at[q] /\ obj'[q] = obj[q]
  BY DEF Alone, Calling
<1>3. QED
  BY <1>1, <1>2 DEF LearntBy, nameiparent

LEMMA Igot ==
  ASSUME Typed, NEW j \in Inum, iget(j)
  PROVE  ref' \in [Inum -> Int] /\ \A i \in Inum : ref'[i] = ref[i] + Is(j, i)
BY DEF iget, Typed, InMemory, Is

(* The steps that leave the disk and the locks alone. *)
LEMMA PlainStep ==
  ASSUME InodeInv, NEW p \in Procs, Alone(p), p \notin freeing, Typed', UNCHANGED <<type, dir>>, UNCHANGED lock,
         Placed(call'[p], pc'[p], at'[p], obj'[p], names'[p]),
         Keeps(pc'[p], at'[p], obj'[p]) = Keeps(pc[p], at[p], obj[p]),
         \A i \in Inum : ref'[i] = ref[i] - Mine(p, i)
           + ((Is(cwd'[p], i) + Is(fd'[p], i) + Is(at'[p], i) + Is(obj'[p], i) + Is(unref'[p], i))
              + Queued(puts'[p], i)),
         LearntBy(p)', Stays(p)
  PROVE  InodeInv'
<1>1. \A q \in Procs : LearntBy(q)'
  BY OthersKnow
<1>2. OnlyDirs(type, dir)'
  BY DEF InodeInv, OnlyDirs
<1>3. \A i \in Inum : lock'[i] = p <=> Keeps(pc'[p], at'[p], obj'[p]) = i
  BY DEF InodeInv, Locked, Frees
<1>4. QED
  BY <1>1, <1>2, <1>3, LocalStep

-----------------------------------------------------------------------------
(* The end of a call.                                                      *)
LEMMA Returned ==
  ASSUME Typed, NEW p \in Procs, NEW s \in Seq(Inum), Len(s) <= 2, Return(p, s)
  PROVE  /\ InCalls' /\ Calling(p)
         /\ call'[p] = "none" /\ pc'[p] = "idle" /\ names'[p] = <<>>
         /\ at'[p] = 0 /\ obj'[p] = 0 /\ puts'[p] = s
<1> USE DEF Typed, InCalls, Return, Goto, Put
<1>1. /\ call'[p] = "none" /\ pc'[p] = "idle" /\ names'[p] = <<>>
      /\ at'[p] = 0 /\ obj'[p] = 0 /\ puts'[p] = s
  OBVIOUS
<1>2. Calling(p)
  BY DEF Calling
<1>3. call' \in [Procs -> Calls] /\ pc' \in [Procs -> Places] /\ names' \in [Procs -> Seq(Names \cup Dots)]
  <2>1. <<>> \in Seq(Names \cup Dots)
    OBVIOUS
  <2>2. QED
    BY <2>1 DEF Calls, Places
<1>4. at' \in [Procs -> 0 .. NINODES] /\ obj' \in [Procs -> 0 .. NINODES]
  BY InodeAssumption DEF InodeAssumption
<1>5. puts' \in [Procs -> Seq(Inum)] /\ \A q \in Procs : Len(puts'[q]) <= 2
  OBVIOUS
<1>6. QED
  BY <1>1, <1>2, <1>3, <1>4, <1>5

LEMMA OneInode ==
  ASSUME NEW i \in Inum
  PROVE  /\ <<i>> \in Seq(Inum) /\ Len(<<i>>) = 1
         /\ \A j \in Inum : Queued(<<i>>, j) = Is(i, j) /\ Queued(<<>>, j) = 0 /\ Is(0, j) = 0
<1>1. <<i>> \in Seq(Inum) /\ Len(<<i>>) = 1 /\ 0 \notin Inum
  BY InodeAssumption DEF InodeAssumption, Inum
<1>2. QED
  BY <1>1, QueuedIs DEF Is

LEMMA ReturnStep ==
  ASSUME InodeInv, NEW p \in Procs, NEW s \in Seq(Inum), Len(s) <= 2, Return(p, s),
         p \notin freeing, UNCHANGED freeing,
         \A i \in Inum : lock[i] \notin {0, p} /\ Clear(p, i) => i \notin {cwd'[p], fd'[p]},
         OnDisk', InMemory', Using(p), UNCHANGED <<type, dir>>, UNCHANGED ref,
         \A i \in Inum : lock'[i] = IF lock[i] = p THEN 0 ELSE lock[i],
         \A i \in Inum : Mine(p, i) = (Is(cwd'[p], i) + Is(fd'[p], i) + Is(unref'[p], i)) + Queued(s, i)
  PROVE  InodeInv'
<1>1. /\ InCalls' /\ Calling(p)
      /\ call'[p] = "none" /\ pc'[p] = "idle" /\ names'[p] = <<>>
      /\ at'[p] = 0 /\ obj'[p] = 0 /\ puts'[p] = s
  BY Returned DEF InodeInv
<1>2. Typed' /\ Alone(p)
  BY <1>1 DEF Typed, Alone
<1>3. Placed(call'[p], pc'[p], at'[p], obj'[p], names'[p])
  BY <1>1 DEF Placed
<1>4. LearntBy(p)' /\ \A q \in Procs \ {p} : LearntBy(q)'
  BY <1>1, <1>2, OthersKnow DEF LearntBy
<1>5. OnlyDirs(type, dir)'
  BY DEF InodeInv, OnlyDirs
<1>6. Keeps(pc'[p], at'[p], obj'[p]) = 0 /\ 0 \notin Inum /\ p # 0
  BY <1>1, InodeAssumption DEF Keeps, InodeAssumption, Inum
<1>7. /\ \A i \in Inum : lock'[i] = lock[i] \/ (lock[i] \in {0, p} /\ lock'[i] \in {0, p})
      /\ \A i \in Inum : lock'[i] = p <=> Keeps(pc'[p], at'[p], obj'[p]) = i
  BY <1>6
<1>8. ASSUME NEW i \in Inum
      PROVE  ref'[i] = ref[i] - Mine(p, i)
               + ((Is(cwd'[p], i) + Is(fd'[p], i) + Is(at'[p], i) + Is(obj'[p], i) + Is(unref'[p], i))
                  + Queued(puts'[p], i))
  <2>1. Is(0, i) = 0
    BY <1>6 DEF Is
  <2>2. \A x : Is(x, i) \in {0, 1} /\ Queued(x, i) \in {0, 1, 2}
    BY DEF Is, Queued, On
  <2>3. ref[i] \in Int
    BY DEF InodeInv, Typed, InMemory
  <2>4. ref'[i] = ref[i] - Mine(p, i) + Mine(p, i)
    BY <2>2, <2>3 DEF Mine
  <2>5. QED
    BY <1>1, <2>1, <2>2, <2>4
<1>9. Stays(p)
  BY <1>1, <1>6 DEF Stays, Clear
<1>10. QED
  BY <1>2, <1>3, <1>4, <1>5, <1>7, <1>8, <1>9, LocalStep

-----------------------------------------------------------------------------
(* The steps that end a call.                                              *)
LEMMA Opened ==
  ASSUME InodeInv, NEW p \in Procs, at[p] # 0, unref[p] = 0, p \notin freeing, puts[p] = <<>>, obj[p] = 0,
         Open(p, at[p]), lock[at[p]] \in {0, p}, UNCHANGED <<disk, ref, cwd, iputs>>, lock' \in [Inum -> Procs \cup {0}],
         \A i \in Inum : lock'[i] = IF lock[i] = p THEN 0 ELSE lock[i]
  PROVE  InodeInv'
<1>1. at[p] \in Inum /\ Typed
  BY DEF InodeInv, Typed, InCalls, Inum
<1>2. OnDisk' /\ InMemory' /\ Using(p)
  <2>1. UNCHANGED fd \/ fd' = [fd EXCEPT ![p] = at[p]]
    BY DEF Open
  <2>2. at[p] \in 0 .. NINODES
    BY <1>1 DEF Inum
  <2>3. fd' \in [Procs -> 0 .. NINODES] /\ \A q \in Procs \ {p} : fd'[q] = fd[q]
    BY <1>1, <2>1, <2>2 DEF Typed, InMemory
  <2>4. OnDisk'
    BY <1>1 DEF Typed, OnDisk, disk
  <2>5. QED
    BY <1>1, <2>3, <2>4 DEF Typed, InMemory, Using, iputs
<1>3. /\ <<>> \in Seq(Inum) /\ Len(<<>>) <= 2
      /\ <<at[p]>> \in Seq(Inum) /\ Len(<<at[p]>>) <= 2
      /\ \A i \in Inum : Queued(<<at[p]>>, i) = Is(at[p], i) /\ Queued(<<>>, i) = 0 /\ Is(0, i) = 0
  BY <1>1, OneInode
<1>4. ASSUME NEW i \in Inum PROVE Mine(p, i) = (Is(cwd[p], i) + Is(fd[p], i)) + Is(at[p], i)
  BY <1>3 DEF Mine, Is
<1>a. \A i \in Inum : lock[i] \notin {0, p} /\ Clear(p, i) => i \notin {cwd'[p], fd'[p]}
  BY <1>1 DEF Open, Typed, InMemory, Clear
<1>5. CASE fd[p] = 0
  <2>1. Return(p, <<>>) /\ fd'[p] = at[p]
    BY <1>1, <1>5 DEF Open, Typed, InMemory
  <2>2. \A i \in Inum : Mine(p, i) = (Is(cwd'[p], i) + Is(fd'[p], i) + Is(unref'[p], i)) + Queued(<<>>, i)
    BY <1>3, <1>4, <1>5, <2>1 DEF Is, iputs
  <2>3. QED
    BY <1>2, <1>3, <2>1, <2>2, <1>a, ReturnStep DEF disk, iputs
<1>6. CASE fd[p] # 0
  <2>1. Return(p, <<at[p]>>) /\ UNCHANGED fd
    BY <1>6 DEF Open
  <2>2. \A i \in Inum : Mine(p, i) = (Is(cwd'[p], i) + Is(fd'[p], i) + Is(unref'[p], i)) + Queued(<<at[p]>>, i)
    BY <1>3, <1>4, <2>1 DEF Is, iputs
  <2>3. QED
    BY <1>2, <1>3, <2>1, <2>2, <1>a, ReturnStep DEF disk, iputs
<1>7. QED
  BY <1>5, <1>6

LEMMA ReturnAt ==
  ASSUME InodeInv, NEW p \in Procs, at[p] # 0, unref[p] = 0, p \notin freeing, puts[p] = <<>>, obj[p] = 0,
         Return(p, <<at[p]>>), UNCHANGED fd, UNCHANGED <<disk, ref, cwd, iputs>>,
         lock' \in [Inum -> Procs \cup {0}],
         \A i \in Inum : lock'[i] = IF lock[i] = p THEN 0 ELSE lock[i]
  PROVE  InodeInv'
<1>1. at[p] \in Inum /\ Typed
  BY DEF InodeInv, Typed, InCalls, Inum
<1>2. OnDisk' /\ InMemory' /\ Using(p)
  BY <1>1 DEF Typed, InMemory, Using, iputs, OnDisk, disk
<1>3. /\ <<at[p]>> \in Seq(Inum) /\ Len(<<at[p]>>) <= 2
      /\ \A i \in Inum : Queued(<<at[p]>>, i) = Is(at[p], i) /\ Queued(<<>>, i) = 0 /\ Is(0, i) = 0
  BY <1>1, OneInode
<1>4. \A i \in Inum : Mine(p, i) = (Is(cwd'[p], i) + Is(fd'[p], i) + Is(unref'[p], i)) + Queued(<<at[p]>>, i)
  BY <1>3 DEF Mine, Is, iputs
<1>a. \A i \in Inum : lock[i] \notin {0, p} /\ Clear(p, i) => i \notin {cwd'[p], fd'[p]}
  BY DEF Clear
<1>5. QED
  BY <1>2, <1>3, <1>4, <1>a, ReturnStep DEF disk, iputs

LEMMA Facts ==
  ASSUME InodeInv, NEW p \in Procs, NEW l, At(p, l)
  PROVE  /\ Typed /\ pc[p] = l /\ puts[p] = <<>> /\ p \notin freeing /\ unref[p] = 0
         /\ Placed(call[p], l, at[p], obj[p], names[p])
         /\ at[p] # 0 => at[p] \in Inum
         /\ obj[p] # 0 => obj[p] \in Inum
         /\ \A i \in Inum : lock[i] = p <=> Keeps(l, at[p], obj[p]) = i
         /\ LearntBy(p)
<1>1. /\ Typed /\ pc[p] = l /\ puts[p] = <<>> /\ unref[p] = 0
      /\ Placed(call[p], l, at[p], obj[p], names[p]) /\ LearntBy(p)
  BY DEF InodeInv, InPlace, Learnt, At
<1>2. p \notin freeing
  BY <1>1 DEF InodeInv, InPlace
<1>3. \A i \in Inum : lock[i] = p <=> Keeps(l, at[p], obj[p]) = i
  BY <1>1, <1>2 DEF InodeInv, Locked, Frees
<1>4. (at[p] # 0 => at[p] \in Inum) /\ (obj[p] # 0 => obj[p] \in Inum)
  BY <1>1 DEF Typed, InCalls, Inum
<1>5. QED
  BY <1>1, <1>2, <1>3, <1>4

LEMMA NoLockKept ==
  ASSUME InodeInv, NEW p \in Procs, p \notin freeing, pc[p] \notin {"made", "unl", "unl_bad", "link_unlock", "unl_count", "alloc", "new"}
  PROVE  \A i \in Inum : lock[i] # p /\ lock[i] = IF lock[i] = p THEN 0 ELSE lock[i]
<1>1. Keeps(pc[p], at[p], obj[p]) = 0 /\ 0 \notin Inum
  BY InodeAssumption DEF Keeps, InodeAssumption, Inum
<1>2. QED
  BY <1>1 DEF InodeInv, Locked, Frees

LEMMA sys_openKeeps == ASSUME InodeInv, NEW p \in Procs, sys_open(p) PROVE InodeInv'
<1>1. /\ At(p, "found") /\ call[p] = "open" /\ UNCHANGED <<disk, ref, lock, cwd, iputs>>
      /\ Open(p, at[p]) \/ (UNCHANGED fd /\ Return(p, <<at[p]>>))
  BY DEF sys_open
<1>2. at[p] # 0 /\ obj[p] = 0 /\ puts[p] = <<>> /\ p \notin freeing /\ unref[p] = 0 /\ pc[p] = "found"
  BY <1>1, Facts DEF Placed
<1>3. \A i \in Inum : lock'[i] = IF lock[i] = p THEN 0 ELSE lock[i]
  BY <1>1, <1>2, NoLockKept DEF cache
<1>4. lock' \in [Inum -> Procs \cup {0}] /\ UNCHANGED <<disk, ref, cwd, iputs>>
  BY <1>1 DEF InodeInv, Typed, InMemory, cache
<1>b. lock[at[p]] \in {0, p}
  BY DEF sys_open, ilock, Unlocked
<1>5. CASE Open(p, at[p])
  BY <1>1, <1>2, <1>3, <1>4, <1>5, <1>b, Opened
<1>6. CASE UNCHANGED fd /\ Return(p, <<at[p]>>)
  BY <1>1, <1>2, <1>3, <1>4, <1>6, ReturnAt
<1>7. QED
  BY <1>1, <1>5, <1>6

LEMMA create_gotKeeps == ASSUME InodeInv, NEW p \in Procs, create_got(p) PROVE InodeInv'
<1>1. At(p, "got") /\ UNCHANGED <<disk, ref, lock, cwd, iputs>>
  BY DEF create_got
<1>2. at[p] # 0 /\ obj[p] = 0 /\ puts[p] = <<>> /\ p \notin freeing /\ unref[p] = 0 /\ pc[p] = "got" /\ at[p] \in Inum
  BY <1>1, Facts DEF Placed
<1>3. \A i \in Inum : lock'[i] = IF lock[i] = p THEN 0 ELSE lock[i]
  BY <1>1, <1>2, NoLockKept DEF cache
<1>4. lock' \in [Inum -> Procs \cup {0}] /\ UNCHANGED <<disk, ref, cwd, iputs>>
  BY <1>1 DEF InodeInv, Typed, InMemory, cache
<1>b. lock[at[p]] \in {0, p}
  BY DEF create_got, ilock, Unlocked
<1>5. CASE Open(p, at[p])
  BY <1>1, <1>2, <1>3, <1>4, <1>5, <1>b, Opened
<1>6. CASE UNCHANGED fd /\ Return(p, <<at[p]>>)
  BY <1>2, <1>3, <1>4, <1>6, ReturnAt
<1>7. QED
  BY <1>5, <1>6 DEF create_got

LEMMA create_madeKeeps == ASSUME InodeInv, NEW p \in Procs, create_made(p) PROVE InodeInv'
<1>1. At(p, "made") /\ UNCHANGED <<disk, ref, cwd, iputs>> /\ lock' = [lock EXCEPT ![at[p]] = 0]
  BY DEF create_made
<1>2. at[p] # 0 /\ obj[p] = 0 /\ puts[p] = <<>> /\ p \notin freeing /\ unref[p] = 0 /\ pc[p] = "made" /\ at[p] \in Inum
  BY <1>1, Facts DEF Placed
<1>3. lock' \in [Inum -> Procs \cup {0}] /\ \A i \in Inum : lock'[i] = IF lock[i] = p THEN 0 ELSE lock[i]
  BY <1>1, <1>2 DEF InodeInv, Typed, InMemory, Locked, Keeps, Frees
<1>b. lock[at[p]] \in {0, p}
  BY <1>2 DEF InodeInv, Locked, Keeps, Frees
<1>5. CASE Open(p, at[p])
  BY <1>1, <1>2, <1>3, <1>5, <1>b, Opened
<1>6. CASE UNCHANGED fd /\ Return(p, <<at[p]>>)
  BY <1>1, <1>2, <1>3, <1>6, ReturnAt
<1>7. QED
  BY <1>5, <1>6 DEF create_made

LEMMA sys_chdirKeeps == ASSUME InodeInv, NEW p \in Procs, sys_chdir(p) PROVE InodeInv'
<1>1. At(p, "found") /\ call[p] = "chdir" /\ UNCHANGED <<disk, ref, lock, fd, iputs>>
  BY DEF sys_chdir
<1>2. /\ at[p] # 0 /\ obj[p] = 0 /\ puts[p] = <<>> /\ p \notin freeing /\ unref[p] = 0 /\ pc[p] = "found"
      /\ at[p] \in Inum /\ Typed /\ cwd[p] \in Inum
  BY <1>1, Facts DEF Placed, Typed, InMemory
<1>3. \A i \in Inum : lock'[i] = IF lock[i] = p THEN 0 ELSE lock[i]
  BY <1>1, <1>2, NoLockKept DEF cache
<1>4. lock' \in [Inum -> Procs \cup {0}] /\ UNCHANGED <<disk, ref, fd, iputs>>
  BY <1>1 DEF InodeInv, Typed, InMemory, cache
<1>5. CASE UNCHANGED cwd /\ Return(p, <<at[p]>>)
  BY <1>2, <1>3, <1>4, <1>5, ReturnAt
<1>6. CASE cwd' = [cwd EXCEPT ![p] = at[p]] /\ Return(p, <<cwd[p]>>)
  <2>1. cwd' \in [Procs -> Inum] /\ cwd'[p] = at[p] /\ \A q \in Procs \ {p} : cwd'[q] = cwd[q]
    BY <1>2, <1>6 DEF Typed, InMemory
  <2>2. OnDisk' /\ InMemory' /\ Using(p)
    BY <1>2, <1>4, <2>1 DEF Typed, InMemory, Using, iputs, OnDisk, disk
  <2>3. /\ <<cwd[p]>> \in Seq(Inum) /\ Len(<<cwd[p]>>) <= 2
        /\ \A i \in Inum : Queued(<<cwd[p]>>, i) = Is(cwd[p], i) /\ Queued(<<>>, i) = 0 /\ Is(0, i) = 0
    BY <1>2, OneInode
  <2>4. \A i \in Inum : Mine(p, i) = (Is(cwd'[p], i) + Is(fd'[p], i) + Is(unref'[p], i)) + Queued(<<cwd[p]>>, i)
    BY <1>2, <1>4, <2>1, <2>3 DEF Mine, Is, iputs
  <2>5. \A i \in Inum : lock[i] \notin {0, p} /\ Clear(p, i) => i \notin {cwd'[p], fd'[p]}
    BY <1>4, <2>1 DEF sys_chdir, ilock, Unlocked, Clear
  <2>6. QED
    BY <1>2, <1>3, <1>4, <1>6, <2>2, <2>3, <2>4, <2>5, ReturnStep DEF disk, iputs
<1>7. QED
  BY <1>5, <1>6 DEF sys_chdir

LEMMA sys_closeKeeps == ASSUME InodeInv, NEW p \in Procs, sys_close(p) PROVE InodeInv'
<1>1. At(p, "idle") /\ UNCHANGED <<disk, cache, cwd, steps, iputs>> /\ fd[p] # 0
  BY DEF sys_close
<1>2. /\ at[p] = 0 /\ obj[p] = 0 /\ puts[p] = <<>> /\ p \notin freeing /\ unref[p] = 0 /\ pc[p] = "idle" /\ call[p] = "none"
      /\ Typed /\ fd[p] \in Inum
  <2>1. /\ Placed(call[p], "idle", at[p], obj[p], names[p]) /\ Typed
        /\ puts[p] = <<>> /\ p \notin freeing /\ unref[p] = 0 /\ pc[p] = "idle"
    BY <1>1, Facts
  <2>2. fd[p] \in Inum
    BY <1>1, <2>1 DEF Typed, InMemory, Inum
  <2>3. QED
    BY <2>1, <2>2 DEF Placed
<1>3. /\ <<fd[p]>> \in Seq(Inum) /\ Len(<<fd[p]>>) <= 2
      /\ \A i \in Inum : Queued(<<fd[p]>>, i) = Is(fd[p], i) /\ Queued(<<>>, i) = 0 /\ Is(0, i) = 0
  BY <1>2, OneInode
<1>4. puts' = [puts EXCEPT ![p] = <<fd[p]>>] /\ fd' = [fd EXCEPT ![p] = 0]
  BY DEF sys_close, Put
<1>5. puts'[p] = <<fd[p]>> /\ puts' \in [Procs -> Seq(Inum)] /\ \A q \in Procs : Len(puts'[q]) <= 2
  BY <1>2, <1>3, <1>4 DEF Typed, InCalls
<1>6. fd'[p] = 0 /\ fd' \in [Procs -> 0 .. NINODES]
  BY <1>2, <1>4, InodeAssumption DEF Typed, InMemory, InodeAssumption
<1>7. Typed' /\ Alone(p)
  BY <1>1, <1>2, <1>4, <1>5, <1>6
     DEF Typed, OnDisk, InMemory, InCalls, Alone, Calling, Using, iputs, disk, cache, steps
<1>8. UNCHANGED <<type, dir>> /\ UNCHANGED lock /\ LearntBy(p)'
  BY <1>1, <1>2 DEF disk, cache, steps, LearntBy
<1>9. /\ Placed(call'[p], pc'[p], at'[p], obj'[p], names'[p])
      /\ Keeps(pc'[p], at'[p], obj'[p]) = Keeps(pc[p], at[p], obj[p])
  BY <1>1, <1>2 DEF Placed, Keeps, steps
<1>10. \A i \in Inum : ref'[i] = ref[i] - Mine(p, i)
         + ((Is(cwd'[p], i) + Is(fd'[p], i) + Is(at'[p], i) + Is(obj'[p], i) + Is(unref'[p], i))
            + Queued(puts'[p], i))
  <2>1. SUFFICES ASSUME NEW i \in Inum
                 PROVE  ref'[i] = ref[i] - Mine(p, i)
         + ((Is(cwd'[p], i) + Is(fd'[p], i) + Is(at'[p], i) + Is(obj'[p], i) + Is(unref'[p], i))
            + Queued(puts'[p], i))
    OBVIOUS
  <2>2. /\ ref'[i] = ref[i] /\ cwd'[p] = cwd[p] /\ fd'[p] = 0 /\ at'[p] = 0 /\ obj'[p] = 0 /\ unref'[p] = 0
        /\ puts'[p] = <<fd[p]>>
    BY <1>1, <1>2, <1>5, <1>6 DEF cache, steps, iputs
  <2>3. /\ Is(0, i) = 0 /\ Queued(<<fd[p]>>, i) = Is(fd[p], i) /\ Queued(<<>>, i) = 0
        /\ Is(fd[p], i) \in {0, 1} /\ Is(cwd[p], i) \in {0, 1}
    BY <1>3 DEF Is
  <2>4. Mine(p, i) = Is(cwd[p], i) + Is(fd[p], i)
    BY <1>2, <2>3 DEF Mine
  <2>5. ref[i] \in Int
    BY <1>2 DEF Typed, InMemory
  <2>6. QED
    BY <2>2, <2>3, <2>4, <2>5
<1>11. Stays(p)
  BY <1>1, <1>2, <1>6 DEF Stays, Clear, nameiparent, steps
<1>12. QED
  BY <1>2, <1>7, <1>8, <1>9, <1>10, <1>11, PlainStep

LEMMA unlink_noneKeeps == ASSUME InodeInv, NEW p \in Procs, unlink_none(p) PROVE InodeInv'
<1>1. At(p, "found") /\ call[p] = "unlink" /\ UNCHANGED <<disk, ref, lock, user, iputs>> /\ Return(p, <<at[p]>>)
  BY DEF unlink_none
<1>2. at[p] # 0 /\ obj[p] = 0 /\ puts[p] = <<>> /\ p \notin freeing /\ unref[p] = 0 /\ pc[p] = "found"
  BY <1>1, Facts DEF Placed
<1>3. \A i \in Inum : lock'[i] = IF lock[i] = p THEN 0 ELSE lock[i]
  BY <1>1, <1>2, NoLockKept DEF cache
<1>4. lock' \in [Inum -> Procs \cup {0}] /\ UNCHANGED fd /\ UNCHANGED <<disk, ref, cwd, iputs>>
  BY <1>1 DEF InodeInv, Typed, InMemory, cache, user
<1>5. QED
  BY <1>1, <1>2, <1>3, <1>4, ReturnAt

LEMMA unlink_badKeeps == ASSUME InodeInv, NEW p \in Procs, unlink_bad(p) PROVE InodeInv'
<1>1. /\ At(p, "unl_bad") /\ UNCHANGED <<disk, ref, user, iputs>> /\ Return(p, <<at[p]>>)
      /\ lock' = [lock EXCEPT ![at[p]] = 0]
  BY DEF unlink_bad
<1>2. at[p] # 0 /\ obj[p] = 0 /\ puts[p] = <<>> /\ p \notin freeing /\ unref[p] = 0 /\ pc[p] = "unl_bad" /\ at[p] \in Inum
  BY <1>1, Facts DEF Placed
<1>3. lock' \in [Inum -> Procs \cup {0}] /\ \A i \in Inum : lock'[i] = IF lock[i] = p THEN 0 ELSE lock[i]
  BY <1>1, <1>2 DEF InodeInv, Typed, InMemory, Locked, Keeps, Frees
<1>4. UNCHANGED fd /\ UNCHANGED <<disk, ref, cwd, iputs>>
  BY <1>1 DEF user, iputs
<1>5. QED
  BY <1>1, <1>2, <1>3, <1>4, ReturnAt

(* The steps that give back the object of the call at its end. *)
LEMMA ReturnObj ==
  ASSUME InodeInv, NEW p \in Procs, at[p] = 0, unref[p] = 0, p \notin freeing, puts[p] = <<>>, obj[p] # 0,
         Return(p, <<obj[p]>>), UNCHANGED user, UNCHANGED <<type, dir, ref, iputs>>,
         OnDisk', lock' \in [Inum -> Procs \cup {0}],
         \A i \in Inum : lock'[i] = IF lock[i] = p THEN 0 ELSE lock[i]
  PROVE  InodeInv'
<1>1. obj[p] \in Inum /\ Typed
  BY DEF InodeInv, Typed, InCalls, Inum
<1>2. InMemory' /\ Using(p)
  BY <1>1 DEF Typed, InMemory, Using, iputs, user
<1>3. /\ <<obj[p]>> \in Seq(Inum) /\ Len(<<obj[p]>>) <= 2
      /\ \A i \in Inum : Queued(<<obj[p]>>, i) = Is(obj[p], i) /\ Queued(<<>>, i) = 0 /\ Is(0, i) = 0
  BY <1>1, OneInode
<1>4. \A i \in Inum : Mine(p, i) = (Is(cwd'[p], i) + Is(fd'[p], i) + Is(unref'[p], i)) + Queued(<<obj[p]>>, i)
  BY <1>3 DEF Mine, Is, user, iputs
<1>5. \A i \in Inum : lock[i] \notin {0, p} /\ Clear(p, i) => i \notin {cwd'[p], fd'[p]}
  BY DEF Clear, user
<1>6. QED
  BY <1>2, <1>3, <1>4, <1>5, ReturnStep DEF iputs

LEMMA LessLinks ==
  ASSUME OnDisk, NEW i \in Inum
  PROVE  [nlink EXCEPT ![i] = @ - 1] \in [Inum -> Int]
<1>1. nlink \in [Inum -> Int] /\ nlink[i] - 1 \in Int
  BY DEF OnDisk
<1>2. QED
  BY <1>1

LEMMA MoreLinks ==
  ASSUME OnDisk, NEW i \in Inum
  PROVE  [nlink EXCEPT ![i] = @ + 1] \in [Inum -> Int]
<1>1. nlink \in [Inum -> Int] /\ nlink[i] + 1 \in Int
  BY DEF OnDisk
<1>2. QED
  BY <1>1

LEMMA unlink_countKeeps == ASSUME InodeInv, NEW p \in Procs, unlink_count(p) PROVE InodeInv'
<1>1. /\ At(p, "unl_count") /\ UNCHANGED <<type, dir, ref, user, iputs>> /\ Return(p, <<obj[p]>>)
      /\ lock' = [lock EXCEPT ![obj[p]] = 0] /\ nlink' = [nlink EXCEPT ![obj[p]] = @ - 1]
  BY DEF unlink_count
<1>2. at[p] = 0 /\ obj[p] # 0 /\ puts[p] = <<>> /\ p \notin freeing /\ unref[p] = 0 /\ pc[p] = "unl_count" /\ obj[p] \in Inum
  BY <1>1, Facts DEF Placed
<1>3. lock' \in [Inum -> Procs \cup {0}] /\ \A i \in Inum : lock'[i] = IF lock[i] = p THEN 0 ELSE lock[i]
  BY <1>1, <1>2 DEF InodeInv, Typed, InMemory, Locked, Keeps, Frees
<1>4. OnDisk'
  <2>1. OnDisk
    BY DEF InodeInv, Typed
  <2>2. nlink' \in [Inum -> Int]
    BY <1>1, <1>2, <2>1, LessLinks
  <2>3. QED
    BY <1>1, <2>1, <2>2 DEF OnDisk
<1>5. QED
  BY <1>1, <1>2, <1>3, <1>4, ReturnObj

LEMMA link_badKeeps == ASSUME InodeInv, NEW p \in Procs, link_bad(p) PROVE InodeInv'
<1>1. /\ At(p, "link_bad") /\ UNCHANGED <<type, dir, ref, lock, user, iputs>> /\ Return(p, <<obj[p]>>)
      /\ nlink' = [nlink EXCEPT ![obj[p]] = @ - 1]
  BY DEF link_bad
<1>2. at[p] = 0 /\ obj[p] # 0 /\ puts[p] = <<>> /\ p \notin freeing /\ unref[p] = 0 /\ pc[p] = "link_bad" /\ obj[p] \in Inum
  BY <1>1, Facts DEF Placed
<1>3. \A i \in Inum : lock'[i] = IF lock[i] = p THEN 0 ELSE lock[i]
  BY <1>1, <1>2, NoLockKept DEF cache
<1>4. OnDisk' /\ lock' \in [Inum -> Procs \cup {0}] /\ UNCHANGED ref
  <2>1. OnDisk /\ InMemory
    BY DEF InodeInv, Typed
  <2>2. nlink' \in [Inum -> Int]
    BY <1>1, <1>2, <2>1, LessLinks
  <2>3. QED
    BY <1>1, <2>1, <2>2 DEF OnDisk, InMemory, cache
<1>5. QED
  BY <1>1, <1>2, <1>3, <1>4, ReturnObj

(* A stopped kernel, and stuttering. *)
LEMMA SameCount ==
  ASSUME Counted, UNCHANGED <<ref, user, at, obj, puts, unref>>
  PROVE  Counted'
<1>1. \A p \in Procs : Held(p)' = Held(p)
  BY DEF Held, user
<1>2. \A i \in Inum : Pointers(i)' = Pointers(i)
  <2>1. \A i : Pointers(i) = PointersOf([q \in Procs |-> Held(q)], i)
    BY DEF Pointers, PointersOf
  <2>2. \A i : Pointers(i)' = PointersOf([q \in Procs |-> Held(q)'], i)
    BY DEF Pointers, PointersOf
  <2>3. [q \in Procs |-> Held(q)'] = [q \in Procs |-> Held(q)]
    BY <1>1
  <2>4. QED
    BY <2>1, <2>2, <2>3
<1>3. QED
  BY <1>2, Zenon DEF Counted

LEMMA InertStep ==
  ASSUME InodeInv, UNCHANGED <<disk, ref, lock, user, steps, puts, iputs>>
  PROVE  InodeInv'
<1> USE DEF disk, user, steps, iputs
<1>1. Typed'
  BY DEF InodeInv, Typed, OnDisk, InMemory, InCalls
<1>2. InPlace' /\ Locked'
  BY DEF InodeInv, InPlace, Locked, Placed, Keeps, Frees
<1>3. Counted'
  BY SameCount DEF InodeInv, user
<1>4. Learnt'
  BY DEF InodeInv, Learnt, LearntBy, nameiparent
<1>5. OnlyDirs(type, dir)'
  BY DEF InodeInv, OnlyDirs
<1>6. Cleared'
  BY DEF InodeInv, Cleared, Clear, nameiparent
<1>7. QED
  BY <1>1, <1>2, <1>3, <1>4, <1>5, <1>6 DEF InodeInv

LEMMA create_panicKeeps == ASSUME InodeInv, NEW p \in Procs, create_panic(p) PROVE InodeInv'
BY InertStep DEF create_panic, cache

LEMMA ilock_panicKeeps == ASSUME InodeInv, NEW p \in Procs, ilock_panic(p) PROVE InodeInv'
BY InertStep DEF ilock_panic, cache

LEMMA Igave ==
  ASSUME InMemory, NEW j \in Inum, ref' = [ref EXCEPT ![j] = @ - 1]
  PROVE  ref' \in [Inum -> Int] /\ \A i \in Inum : ref'[i] = ref[i] - Is(j, i)
BY DEF InMemory, Is

LEMMA iput_unrefKeeps == ASSUME InodeInv, NEW p \in Procs, iput_unref(p) PROVE InodeInv'
<1>1. /\ UNCHANGED <<disk, lock, user, steps, puts, freeing>> /\ unref[p] # 0
      /\ ref' = [ref EXCEPT ![unref[p]] = @ - 1] /\ unref' = [unref EXCEPT ![p] = 0]
  BY DEF iput_unref
<1>2. Typed /\ unref[p] \in Inum /\ p \notin freeing
  BY <1>1 DEF InodeInv, InPlace, Typed, InMemory, Inum
<1>3. unref'[p] = 0 /\ unref' \in [Procs -> 0 .. NINODES] /\ \A q \in Procs \ {p} : unref'[q] = unref[q]
  BY <1>1, <1>2, InodeAssumption DEF Typed, InMemory, InodeAssumption
<1>4. ref' \in [Inum -> Int] /\ \A i \in Inum : ref'[i] = ref[i] - Is(unref[p], i)
  BY <1>1, <1>2, Igave DEF Typed
<1>5. Typed' /\ Alone(p)
  BY <1>1, <1>2, <1>3, <1>4 DEF Typed, OnDisk, InMemory, InCalls, Alone, Calling, Using, iputs, disk, user, steps
<1>6. UNCHANGED <<type, dir>> /\ UNCHANGED lock /\ LearntBy(p)'
  BY <1>1 DEF InodeInv, Learnt, LearntBy, nameiparent, disk, steps
<1>7. /\ Placed(call'[p], pc'[p], at'[p], obj'[p], names'[p])
      /\ Keeps(pc'[p], at'[p], obj'[p]) = Keeps(pc[p], at[p], obj[p])
  BY <1>1 DEF InodeInv, InPlace, steps
<1>8. ASSUME NEW i \in Inum
      PROVE  ref'[i] = ref[i] - Mine(p, i)
               + ((Is(cwd'[p], i) + Is(fd'[p], i) + Is(at'[p], i) + Is(obj'[p], i) + Is(unref'[p], i))
                  + Queued(puts'[p], i))
  <2>1. /\ ref'[i] = ref[i] - Is(unref[p], i) /\ cwd'[p] = cwd[p] /\ fd'[p] = fd[p]
        /\ at'[p] = at[p] /\ obj'[p] = obj[p] /\ unref'[p] = 0 /\ puts'[p] = puts[p]
    BY <1>1, <1>3, <1>4 DEF user, steps
  <2>2. Is(0, i) = 0 /\ (\A x : Is(x, i) \in {0, 1} /\ Queued(x, i) \in {0, 1, 2}) /\ ref[i] \in Int
    BY <1>2, InodeAssumption DEF Is, Queued, On, InodeAssumption, Inum, Typed, InMemory
  <2>3. QED
    BY <2>1, <2>2 DEF Mine
<1>9. Stays(p)
  BY <1>1 DEF Stays, Clear, nameiparent, user, steps
<1>10. QED
  BY <1>2, <1>5, <1>6, <1>7, <1>8, <1>9, PlainStep

-----------------------------------------------------------------------------
(* The walk along a path.                                                  *)
LEMMA Starts ==
  ASSUME Typed, NEW p \in Procs, NEW path \in Paths
  PROVE  /\ Start(p, path) \in Inum /\ Start(p, path) # 0
         /\ path.names \in Seq(Names \cup Dots) /\ path.names # <<>>
BY InodeAssumption DEF Start, InodeAssumption, Typed, InMemory, Inum

LEMMA CallKeeps ==
  ASSUME InodeInv, NEW p \in Procs, NEW c \in {"open", "create", "mkdir", "link", "unlink", "chdir"},
         NEW path \in Paths, Call(p, c, path)
  PROVE  InodeInv'
<1>1. /\ At(p, "idle") /\ UNCHANGED <<disk, lock, user, obj, puts, iputs>> /\ iget(Start(p, path))
      /\ call' = [call EXCEPT ![p] = c] /\ names' = [names EXCEPT ![p] = path.names]
      /\ at' = [at EXCEPT ![p] = Start(p, path)] /\ pc' = [pc EXCEPT ![p] = "walk"]
  BY DEF Call, Goto
<1>2. /\ at[p] = 0 /\ obj[p] = 0 /\ puts[p] = <<>> /\ p \notin freeing /\ unref[p] = 0 /\ pc[p] = "idle"
      /\ call[p] = "none" /\ Typed
  BY <1>1, Facts DEF Placed
<1>3. PICK s \in Inum : s = Start(p, path) /\ s # 0
  BY <1>2, Starts
<1>a. path.names \in Seq(Names \cup Dots) /\ path.names # <<>>
  BY <1>2, Starts
<1>4. /\ call'[p] = c /\ pc'[p] = "walk" /\ names'[p] = path.names /\ at'[p] = s /\ obj'[p] = 0
      /\ puts'[p] = <<>> /\ cwd'[p] = cwd[p] /\ fd'[p] = fd[p] /\ unref'[p] = 0
  BY <1>1, <1>2, <1>3 DEF Typed, InCalls, user, iputs
<1>5. ref' \in [Inum -> Int] /\ \A i \in Inum : ref'[i] = ref[i] + Is(s, i)
  BY <1>1, <1>2, <1>3, Igot
<1>6. Alone(p)
  BY <1>1, <1>2 DEF Alone, Calling, Using, iputs, user, Typed, InCalls
<1>7. Typed'
  <2>1. call' \in [Procs -> Calls] /\ pc' \in [Procs -> Places]
    BY <1>1, <1>2 DEF Typed, InCalls, Calls, Places
  <2>2. names' \in [Procs -> Seq(Names \cup Dots)]
    BY <1>1, <1>2, <1>a DEF Typed, InCalls
  <2>3. at' \in [Procs -> 0 .. NINODES]
    BY <1>1, <1>2, <1>3 DEF Typed, InCalls, Inum
  <2>4. QED
    BY <1>1, <1>2, <1>5, <2>1, <2>2, <2>3 DEF Typed, OnDisk, InMemory, InCalls, disk, user, iputs
<1>8. UNCHANGED <<type, dir>> /\ UNCHANGED lock /\ LearntBy(p)'
  BY <1>1, <1>4 DEF LearntBy, disk
<1>9. /\ Placed(call'[p], pc'[p], at'[p], obj'[p], names'[p])
      /\ Keeps(pc'[p], at'[p], obj'[p]) = Keeps(pc[p], at[p], obj[p])
  BY <1>2, <1>3, <1>4, <1>a DEF Placed, Keeps
<1>10. ASSUME NEW i \in Inum
       PROVE  ref'[i] = ref[i] - Mine(p, i)
                + ((Is(cwd'[p], i) + Is(fd'[p], i) + Is(at'[p], i) + Is(obj'[p], i) + Is(unref'[p], i))
                   + Queued(puts'[p], i))
  <2>1. ref'[i] = ref[i] + Is(s, i)
    BY <1>5
  <2>2. /\ Is(0, i) = 0 /\ Is(s, i) \in Int /\ Is(cwd[p], i) \in Int /\ Is(fd[p], i) \in Int
        /\ Queued(<<>>, i) \in Int /\ ref[i] \in Int
    <3>1. i # 0
      BY InodeAssumption DEF Inum, InodeAssumption
    <3>2. ref[i] \in Int
      BY <1>2 DEF Typed, InMemory
    <3>3. Queued(<<>>, i) = 0
      BY QueuedIs
    <3>4. QED
      BY <3>1, <3>2, <3>3 DEF Is
  <2>3. Mine(p, i) = (Is(cwd[p], i) + Is(fd[p], i) + Is(0, i) + Is(0, i) + Is(0, i)) + Queued(<<>>, i)
    BY <1>2 DEF Mine
  <2>4. (Is(cwd'[p], i) + Is(fd'[p], i) + Is(at'[p], i) + Is(obj'[p], i) + Is(unref'[p], i))
              + Queued(puts'[p], i)
        = (Is(cwd[p], i) + Is(fd[p], i) + Is(s, i) + Is(0, i) + Is(0, i)) + Queued(<<>>, i)
    BY <1>4
  <2>5. QED
    BY <2>1, <2>2, <2>3, <2>4
<1>11. Stays(p)
  BY <1>2, <1>4 DEF Stays, Clear, nameiparent
<1>12. QED
  BY <1>2, <1>6, <1>7, <1>8, <1>9, <1>10, <1>11, PlainStep

LEMMA HeadOf ==
  ASSUME Typed, NEW p \in Procs, names[p] # <<>>
  PROVE  /\ Head(names[p]) \in Names \cup Dots /\ Tail(names[p]) \in Seq(Names \cup Dots)
         /\ Len(names[p]) # 1 => Tail(names[p]) # <<>>
         /\ \A i \in Inum : dir[i][Head(names[p])] \in 0 .. NINODES
         /\ \A i \in Inum : dir[i][Head(names[p])] # 0 => dir[i][Head(names[p])] \in Inum
<1>1. names[p] \in Seq(Names \cup Dots)
  BY DEF Typed, InCalls
<1>2. Head(names[p]) \in Names \cup Dots /\ Tail(names[p]) \in Seq(Names \cup Dots)
  BY <1>1, HeadTailProperties
<1>3. Len(names[p]) # 1 => Tail(names[p]) # <<>>
  <2>1. Len(Tail(names[p])) = Len(names[p]) - 1 /\ Len(names[p]) \in Nat
    BY <1>1, HeadTailProperties, LenProperties
  <2>2. Tail(names[p]) = <<>> <=> Len(Tail(names[p])) = 0
    BY <1>2, EmptySeq
  <2>3. QED
    BY <2>1, <2>2
<1>4. \A i \in Inum : dir[i][Head(names[p])] \in 0 .. NINODES
  BY <1>2 DEF Typed, OnDisk
<1>5. QED
  BY <1>2, <1>3, <1>4 DEF Inum

LEMMA NotFoundKeeps ==
  ASSUME InodeInv, NEW p \in Procs, At(p, "walk"), NotFound(p), UNCHANGED <<disk, ref, lock, user, iputs>>
  PROVE  InodeInv'
<1>1. /\ at[p] # 0 /\ puts[p] = <<>> /\ p \notin freeing /\ unref[p] = 0 /\ pc[p] = "walk" /\ at[p] \in Inum /\ Typed
      /\ obj[p] # 0 <=> call[p] = "link2"
  BY Facts DEF Placed
<1>2. CASE call[p] # "link2"
  <2>1. \A i \in Inum : lock'[i] = IF lock[i] = p THEN 0 ELSE lock[i]
    BY <1>1, NoLockKept
  <2>2. Return(p, <<at[p]>>)
    BY <1>2 DEF NotFound
  <2>3. lock' \in [Inum -> Procs \cup {0}] /\ UNCHANGED fd /\ UNCHANGED <<disk, ref, cwd, iputs>>
    BY <1>1 DEF Typed, InMemory, user
  <2>4. QED
    BY <1>1, <1>2, <2>1, <2>2, <2>3, ReturnAt
<1>3. CASE call[p] = "link2"
  <2>1. /\ pc' = [pc EXCEPT ![p] = "link_bad"] /\ puts' = [puts EXCEPT ![p] = <<at[p]>>]
        /\ at' = [at EXCEPT ![p] = 0] /\ UNCHANGED <<call, names, obj>>
    BY <1>3 DEF NotFound, Goto, Put
  <2>2. <<at[p]>> \in Seq(Inum) /\ Len(<<at[p]>>) <= 2
    BY <1>1, OneInode
  <2>3. pc'[p] = "link_bad" /\ puts'[p] = <<at[p]>> /\ at'[p] = 0 /\ call'[p] = "link2" /\ obj'[p] = obj[p]
    BY <1>1, <1>3, <2>1 DEF Typed, InCalls
  <2>4. Alone(p)
    BY <2>1 DEF Alone, Calling, Using, iputs, user
  <2>5. Typed'
    <3>1. pc' \in [Procs -> Places] /\ at' \in [Procs -> 0 .. NINODES]
      BY <1>1, <2>1, InodeAssumption DEF Typed, InCalls, Places, InodeAssumption
    <3>2. puts' \in [Procs -> Seq(Inum)] /\ \A q \in Procs : Len(puts'[q]) <= 2
      BY <1>1, <2>1, <2>2 DEF Typed, InCalls
    <3>3. QED
      BY <1>1, <2>1, <3>1, <3>2 DEF Typed, OnDisk, InMemory, InCalls, disk, user, iputs
  <2>6. /\ Placed(call'[p], pc'[p], at'[p], obj'[p], names'[p])
        /\ Keeps(pc'[p], at'[p], obj'[p]) = Keeps(pc[p], at[p], obj[p])
    BY <1>1, <1>3, <2>3 DEF Placed, Keeps
  <2>7. UNCHANGED <<type, dir>> /\ UNCHANGED lock /\ LearntBy(p)'
    BY <1>3, <2>3 DEF InodeInv, Learnt, LearntBy, disk
  <2>8. ASSUME NEW i \in Inum
        PROVE  ref'[i] = ref[i] - Mine(p, i)
                 + ((Is(cwd'[p], i) + Is(fd'[p], i) + Is(at'[p], i) + Is(obj'[p], i) + Is(unref'[p], i))
                    + Queued(puts'[p], i))
    <3>1. ref'[i] = ref[i] /\ cwd'[p] = cwd[p] /\ fd'[p] = fd[p] /\ unref'[p] = unref[p]
      BY DEF user, iputs
    <3>2. /\ Is(0, i) = 0 /\ (\A x : Is(x, i) \in {0, 1}) /\ ref[i] \in Int
          /\ Queued(<<at[p]>>, i) = Is(at[p], i) /\ Queued(<<>>, i) = 0
      BY <1>1, OneInode DEF Is, Typed, InMemory
    <3>3. QED
      BY <1>1, <2>3, <3>1, <3>2 DEF Mine
  <2>9. Stays(p)
    BY <1>1, <2>3 DEF Stays, Clear, nameiparent, user, Inum
  <2>10. QED
    BY <1>1, <2>4, <2>5, <2>6, <2>7, <2>8, <2>9, PlainStep
<1>4. QED
  BY <1>2, <1>3

LEMMA FoundKeeps ==
  ASSUME InodeInv, NEW p \in Procs, At(p, "walk"), lock[at[p]] = 0, type[at[p]] = "dir", names[p] # <<>>,
         pc' = [pc EXCEPT ![p] = "found"], UNCHANGED <<disk, ref, lock, user, iputs, call, names, at, obj, puts>>
  PROVE  InodeInv'
<1>1. Typed /\ p \notin freeing /\ pc[p] = "walk" /\ Placed(call[p], pc[p], at[p], obj[p], names[p])
  BY Facts
<1>2. Alone(p) /\ pc'[p] = "found"
  BY <1>1 DEF Alone, Calling, Using, iputs, user, Typed, InCalls
<1>3. Typed'
  <2>1. pc' \in [Procs -> Places]
    BY <1>1 DEF Typed, InCalls, Places
  <2>2. QED
    BY <1>1, <2>1 DEF Typed, OnDisk, InMemory, InCalls, disk, cache, user, iputs
<1>4. /\ Placed(call'[p], pc'[p], at'[p], obj'[p], names'[p])
      /\ Keeps(pc'[p], at'[p], obj'[p]) = Keeps(pc[p], at[p], obj[p])
  BY <1>1, <1>2 DEF Placed, Keeps
<1>5. UNCHANGED <<type, dir>> /\ UNCHANGED lock /\ LearntBy(p)'
  BY <1>1, <1>2 DEF InodeInv, Learnt, LearntBy, disk, cache
<1>6. ASSUME NEW i \in Inum
      PROVE  ref'[i] = ref[i] - Mine(p, i)
               + ((Is(cwd'[p], i) + Is(fd'[p], i) + Is(at'[p], i) + Is(obj'[p], i) + Is(unref'[p], i))
                  + Queued(puts'[p], i))
  <2>1. /\ ref'[i] = ref[i] /\ cwd'[p] = cwd[p] /\ fd'[p] = fd[p] /\ unref'[p] = unref[p]
        /\ at'[p] = at[p] /\ obj'[p] = obj[p] /\ puts'[p] = puts[p]
    BY DEF user, iputs
  <2>2. (\A x : Is(x, i) \in {0, 1} /\ Queued(x, i) \in {0, 1, 2}) /\ ref[i] \in Int
    BY <1>1 DEF Is, Queued, On, Typed, InMemory
  <2>3. QED
    BY <2>1, <2>2 DEF Mine
<1>7. Stays(p)
  BY <1>1, <1>2 DEF Stays, Clear, nameiparent, user, Inum
<1>8. QED
  BY <1>1, <1>2, <1>3, <1>4, <1>5, <1>6, <1>7, PlainStep

LEMMA DownKeeps ==
  ASSUME InodeInv, NEW p \in Procs, At(p, "walk"), ~(nameiparent(p) /\ Len(names[p]) = 1),
         NEW next, next = dir[at[p]][Head(names[p])], next # 0, iget(next),
         at' = [at EXCEPT ![p] = next], names' = [names EXCEPT ![p] = Tail(@)],
         puts' = [puts EXCEPT ![p] = <<at[p]>>],
         pc' = [pc EXCEPT ![p] = IF Len(names[p]) = 1 THEN "found" ELSE "walk"],
         UNCHANGED <<disk, lock, user, iputs, call, obj>>
  PROVE  InodeInv'
<1>1. /\ Typed /\ pc[p] = "walk" /\ Placed(call[p], pc[p], at[p], obj[p], names[p])
      /\ at[p] \in Inum /\ at[p] # 0 /\ names[p] # <<>> /\ puts[p] = <<>> /\ p \notin freeing /\ unref[p] = 0
  BY Facts DEF Placed
<1>2. /\ next \in Inum /\ Tail(names[p]) \in Seq(Names \cup Dots)
      /\ Len(names[p]) # 1 => Tail(names[p]) # <<>>
  BY <1>1, HeadOf
<1>3. /\ pc'[p] = (IF Len(names[p]) = 1 THEN "found" ELSE "walk") /\ names'[p] = Tail(names[p])
      /\ at'[p] = next /\ puts'[p] = <<at[p]>> /\ Alone(p)
  BY <1>1 DEF Alone, Calling, Using, iputs, user, Typed, InCalls
<1>4. <<at[p]>> \in Seq(Inum) /\ Len(<<at[p]>>) <= 2
  BY <1>1, OneInode
<1>5. ref' \in [Inum -> Int] /\ \A i \in Inum : ref'[i] = ref[i] + Is(next, i)
  BY <1>1, <1>2, Igot
<1>6. Typed'
  <2>1. pc' \in [Procs -> Places]
    BY <1>1 DEF Typed, InCalls, Places
  <2>2. names' \in [Procs -> Seq(Names \cup Dots)] /\ at' \in [Procs -> 0 .. NINODES]
    BY <1>1, <1>2 DEF Typed, InCalls, Inum
  <2>3. puts' \in [Procs -> Seq(Inum)] /\ \A q \in Procs : Len(puts'[q]) <= 2
    BY <1>1, <1>4 DEF Typed, InCalls
  <2>4. QED
    BY <1>1, <1>5, <2>1, <2>2, <2>3 DEF Typed, OnDisk, InMemory, InCalls, disk, user, iputs
<1>7. /\ Placed(call'[p], pc'[p], at'[p], obj'[p], names'[p])
      /\ Keeps(pc'[p], at'[p], obj'[p]) = Keeps(pc[p], at[p], obj[p])
  BY <1>1, <1>2, <1>3, InodeAssumption DEF Placed, Keeps, nameiparent, InodeAssumption, Inum
<1>8. UNCHANGED <<type, dir>> /\ UNCHANGED lock /\ LearntBy(p)'
  BY <1>1, <1>3 DEF InodeInv, Learnt, LearntBy, nameiparent, disk
<1>9. ASSUME NEW i \in Inum
      PROVE  ref'[i] = ref[i] - Mine(p, i)
               + ((Is(cwd'[p], i) + Is(fd'[p], i) + Is(at'[p], i) + Is(obj'[p], i) + Is(unref'[p], i))
                  + Queued(puts'[p], i))
  <2>1. /\ ref'[i] = ref[i] + Is(next, i) /\ cwd'[p] = cwd[p] /\ fd'[p] = fd[p] /\ unref'[p] = unref[p]
        /\ obj'[p] = obj[p]
    BY <1>5 DEF user, iputs
  <2>2. /\ (\A x : Is(x, i) \in {0, 1}) /\ ref[i] \in Int
        /\ Queued(<<at[p]>>, i) = Is(at[p], i) /\ Queued(<<>>, i) = 0
    BY <1>1, OneInode DEF Is, Typed, InMemory
  <2>3. at'[p] = next /\ puts'[p] = <<at[p]>> /\ puts[p] = <<>>
    BY <1>1, <1>3
  <2>4. Mine(p, i) = Is(cwd[p], i) + Is(fd[p], i) + Is(at[p], i) + Is(obj[p], i) + Is(unref[p], i)
    BY <2>2, <2>3 DEF Mine
  <2>5. /\ Is(cwd[p], i) \in {0, 1} /\ Is(fd[p], i) \in {0, 1} /\ Is(at[p], i) \in {0, 1}
        /\ Is(obj[p], i) \in {0, 1} /\ Is(unref[p], i) \in {0, 1} /\ Is(next, i) \in {0, 1}
    BY <2>2
  <2>6. QED
    BY <2>1, <2>2, <2>3, <2>4, <2>5
<1>10. Stays(p)
  BY <1>1, <1>2, <1>3 DEF Stays, Clear, nameiparent, user, Inum
<1>11. QED
  BY <1>1, <1>3, <1>6, <1>7, <1>8, <1>9, <1>10, PlainStep

LEMMA namexKeeps == ASSUME InodeInv, NEW p \in Procs, namex(p) PROVE InodeInv'
<1>1. At(p, "walk") /\ lock[at[p]] = 0 /\ UNCHANGED <<disk, lock, user, iputs>> /\ names[p] # <<>>
  BY Facts DEF namex, Placed, ilock, Unlocked
<1>2. \/ NotFound(p) /\ UNCHANGED ref
      \/ type[at[p]] = "dir" /\ Goto(p, "found") /\ UNCHANGED <<ref, call, names, at, obj, puts>>
      \/ /\ ~(nameiparent(p) /\ Len(names[p]) = 1) /\ dir[at[p]][Head(names[p])] # 0
         /\ iget(dir[at[p]][Head(names[p])]) /\ at' = [at EXCEPT ![p] = dir[at[p]][Head(names[p])]]
         /\ names' = [names EXCEPT ![p] = Tail(@)] /\ Put(p, <<at[p]>>)
         /\ Goto(p, IF Len(names[p]) = 1 THEN "found" ELSE "walk") /\ UNCHANGED <<call, obj>>
  BY Zenon DEF namex
<1>3. CASE NotFound(p) /\ UNCHANGED ref
  BY <1>1, <1>3, NotFoundKeeps
<1>4. CASE type[at[p]] = "dir" /\ Goto(p, "found") /\ UNCHANGED <<ref, call, names, at, obj, puts>>
  BY <1>1, <1>4, FoundKeeps DEF Goto
<1>5. CASE /\ ~(nameiparent(p) /\ Len(names[p]) = 1) /\ dir[at[p]][Head(names[p])] # 0
           /\ iget(dir[at[p]][Head(names[p])]) /\ at' = [at EXCEPT ![p] = dir[at[p]][Head(names[p])]]
           /\ names' = [names EXCEPT ![p] = Tail(@)] /\ Put(p, <<at[p]>>)
           /\ Goto(p, IF Len(names[p]) = 1 THEN "found" ELSE "walk") /\ UNCHANGED <<call, obj>>
  BY <1>1, <1>5, DownKeeps DEF Goto, Put
<1>6. QED
  BY <1>2, <1>3, <1>4, <1>5

-----------------------------------------------------------------------------
(* The steps of create, unlink and link that leave the disk alone.         *)
LEMMA LockStep ==
  ASSUME InodeInv, NEW p \in Procs, Alone(p), p \notin freeing, Typed', UNCHANGED <<type, dir>>,
         Placed(call'[p], pc'[p], at'[p], obj'[p], names'[p]),
         \A i \in Inum : lock'[i] = lock[i] \/ (lock[i] \in {0, p} /\ lock'[i] \in {0, p}),
         \A i \in Inum : lock'[i] = p <=> Keeps(pc'[p], at'[p], obj'[p]) = i,
         \A i \in Inum : ref'[i] = ref[i] - Mine(p, i)
           + ((Is(cwd'[p], i) + Is(fd'[p], i) + Is(at'[p], i) + Is(obj'[p], i) + Is(unref'[p], i))
              + Queued(puts'[p], i)),
         LearntBy(p)', Stays(p)
  PROVE  InodeInv'
<1>1. \A q \in Procs : LearntBy(q)'
  BY OthersKnow
<1>2. OnlyDirs(type, dir)'
  BY DEF InodeInv, OnlyDirs
<1>3. QED
  BY <1>1, <1>2, LocalStep

LEMMA Bits ==
  ASSUME NEW i \in Inum
  PROVE  /\ Is(0, i) = 0 /\ Queued(<<>>, i) = 0
         /\ \A x : Is(x, i) \in {0, 1} /\ Queued(x, i) \in {0, 1, 2}
BY InodeAssumption DEF Is, Queued, On, InodeAssumption, Inum

LEMMA create_existsKeeps == ASSUME InodeInv, NEW p \in Procs, create_exists(p) PROVE InodeInv'
<1> DEFINE ip == dir[at[p]][Head(names[p])]
<1>1. /\ At(p, "found") /\ call[p] \in {"create", "mkdir"} /\ ip # 0 /\ iget(ip)
      /\ at' = [at EXCEPT ![p] = ip] /\ puts' = [puts EXCEPT ![p] = <<at[p]>>]
      /\ pc' = [pc EXCEPT ![p] = "got"] /\ UNCHANGED <<disk, lock, user, call, names, obj, iputs>>
  BY DEF create_exists, Put, Goto
<1>2. /\ Typed /\ pc[p] = "found" /\ Placed(call[p], pc[p], at[p], obj[p], names[p])
      /\ at[p] \in Inum /\ at[p] # 0 /\ names[p] # <<>> /\ puts[p] = <<>> /\ p \notin freeing /\ unref[p] = 0
  BY <1>1, Facts DEF Placed
<1>3. ip \in Inum
  BY <1>1, <1>2, HeadOf
<1> HIDE DEF ip
<1>4. /\ pc'[p] = "got" /\ at'[p] = ip /\ puts'[p] = <<at[p]>> /\ Alone(p)
  BY <1>1, <1>2 DEF Alone, Calling, Using, iputs, user, Typed, InCalls
<1>5. <<at[p]>> \in Seq(Inum) /\ Len(<<at[p]>>) <= 2
  BY <1>2, OneInode
<1>6. ref' \in [Inum -> Int] /\ \A i \in Inum : ref'[i] = ref[i] + Is(ip, i)
  BY <1>1, <1>2, <1>3, Igot
<1>7. Typed'
  <2>1. pc' \in [Procs -> Places] /\ at' \in [Procs -> 0 .. NINODES]
    BY <1>1, <1>2, <1>3 DEF Typed, InCalls, Places, Inum
  <2>2. puts' \in [Procs -> Seq(Inum)] /\ \A q \in Procs : Len(puts'[q]) <= 2
    BY <1>1, <1>2, <1>5 DEF Typed, InCalls
  <2>3. QED
    BY <1>1, <1>2, <1>6, <2>1, <2>2 DEF Typed, OnDisk, InMemory, InCalls, disk, user, iputs
<1>8. /\ Placed(call'[p], pc'[p], at'[p], obj'[p], names'[p])
      /\ Keeps(pc'[p], at'[p], obj'[p]) = Keeps(pc[p], at[p], obj[p])
  BY <1>1, <1>2, <1>3, <1>4 DEF Placed, Keeps
<1>9. UNCHANGED <<type, dir>> /\ UNCHANGED lock /\ LearntBy(p)'
  BY <1>1, <1>2, <1>4 DEF LearntBy, disk
<1>10. ASSUME NEW i \in Inum
       PROVE  ref'[i] = ref[i] - Mine(p, i)
                + ((Is(cwd'[p], i) + Is(fd'[p], i) + Is(at'[p], i) + Is(obj'[p], i) + Is(unref'[p], i))
                   + Queued(puts'[p], i))
  <2>1. /\ ref'[i] = ref[i] + Is(ip, i) /\ cwd'[p] = cwd[p] /\ fd'[p] = fd[p] /\ unref'[p] = unref[p]
        /\ obj'[p] = obj[p] /\ at'[p] = ip /\ puts'[p] = <<at[p]>> /\ puts[p] = <<>>
    BY <1>1, <1>2, <1>4, <1>6 DEF user, iputs
  <2>2. /\ (\A x : Is(x, i) \in {0, 1}) /\ ref[i] \in Int
        /\ Queued(<<at[p]>>, i) = Is(at[p], i) /\ Queued(<<>>, i) = 0
    BY <1>2, Bits, OneInode DEF Typed, InMemory
  <2>3. Mine(p, i) = Is(cwd[p], i) + Is(fd[p], i) + Is(at[p], i) + Is(obj[p], i) + Is(unref[p], i)
    BY <2>1, <2>2 DEF Mine
  <2>4. QED
    BY <2>1, <2>2, <2>3
<1>11. Stays(p)
  BY <1>1, <1>2, <1>4 DEF Stays, Clear, nameiparent, user, Inum
<1>12. QED
  BY <1>2, <1>4, <1>7, <1>8, <1>9, <1>10, <1>11, PlainStep

LEMMA unlink_lookupKeeps == ASSUME InodeInv, NEW p \in Procs, unlink_lookup(p) PROVE InodeInv'
<1> DEFINE ip == dir[at[p]][Head(names[p])]
<1>1. /\ At(p, "found") /\ call[p] = "unlink" /\ ip # 0 /\ iget(ip) /\ lock[at[p]] = 0
      /\ Head(names[p]) \notin Dots /\ lock' = [lock EXCEPT ![at[p]] = p]
      /\ obj' = [obj EXCEPT ![p] = ip] /\ pc' = [pc EXCEPT ![p] = "unl"]
      /\ UNCHANGED <<disk, user, call, names, at, puts, iputs>>
  BY DEF unlink_lookup, Goto, ilock, Unlocked
<1>2. /\ Typed /\ pc[p] = "found" /\ Placed(call[p], pc[p], at[p], obj[p], names[p])
      /\ at[p] \in Inum /\ at[p] # 0 /\ names[p] # <<>> /\ puts[p] = <<>> /\ p \notin freeing /\ unref[p] = 0 /\ obj[p] = 0
  BY <1>1, Facts DEF Placed
<1>3. ip \in Inum /\ Head(names[p]) \in Names
  BY <1>1, <1>2, HeadOf
<1>a. ip = dir[at[p]][Head(names[p])] /\ type[at[p]] = "dir"
  BY <1>1, <1>2 DEF InodeInv, Learnt, LearntBy, nameiparent
<1> HIDE DEF ip
<1>4. pc'[p] = "unl" /\ obj'[p] = ip /\ Alone(p)
  BY <1>1, <1>2 DEF Alone, Calling, Using, iputs, user, Typed, InCalls
<1>5. ref' \in [Inum -> Int] /\ \A i \in Inum : ref'[i] = ref[i] + Is(ip, i)
  BY <1>1, <1>2, <1>3, Igot
<1>6. Typed'
  <2>1. pc' \in [Procs -> Places] /\ obj' \in [Procs -> 0 .. NINODES]
    BY <1>1, <1>2, <1>3 DEF Typed, InCalls, Places, Inum
  <2>2. lock' \in [Inum -> Procs \cup {0}]
    BY <1>1, <1>2 DEF Typed, InMemory
  <2>3. QED
    BY <1>1, <1>2, <1>5, <2>1, <2>2 DEF Typed, OnDisk, InMemory, InCalls, disk, user, iputs
<1>7. /\ Placed(call'[p], pc'[p], at'[p], obj'[p], names'[p])
      /\ Keeps(pc[p], at[p], obj[p]) = 0 /\ Keeps(pc'[p], at'[p], obj'[p]) = at[p]
  BY <1>1, <1>2, <1>3, <1>4, InodeAssumption DEF Placed, Keeps, InodeAssumption, Inum
<1>8. /\ \A i \in Inum : lock'[i] = lock[i] \/ (lock[i] \in {0, p} /\ lock'[i] \in {0, p})
      /\ \A i \in Inum : lock'[i] = p <=> Keeps(pc'[p], at'[p], obj'[p]) = i
  <2>1. \A i \in Inum : lock[i] # p /\ lock'[i] = IF i = at[p] THEN p ELSE lock[i]
    BY <1>1, <1>2, <1>7, InodeAssumption DEF InodeInv, Locked, Frees, Typed, InMemory, InodeAssumption, Inum
  <2>2. QED
    BY <1>1, <1>7, <2>1
<1>9. UNCHANGED <<type, dir>> /\ LearntBy(p)'
  BY <1>1, <1>3, <1>4, <1>a DEF LearntBy, disk
<1>10. ASSUME NEW i \in Inum
       PROVE  ref'[i] = ref[i] - Mine(p, i)
                + ((Is(cwd'[p], i) + Is(fd'[p], i) + Is(at'[p], i) + Is(obj'[p], i) + Is(unref'[p], i))
                   + Queued(puts'[p], i))
  <2>1. /\ ref'[i] = ref[i] + Is(ip, i) /\ cwd'[p] = cwd[p] /\ fd'[p] = fd[p] /\ unref'[p] = unref[p]
        /\ obj'[p] = ip /\ at'[p] = at[p] /\ puts'[p] = <<>> /\ puts[p] = <<>> /\ obj[p] = 0
    BY <1>1, <1>2, <1>4, <1>5 DEF user, iputs
  <2>2. /\ (\A x : Is(x, i) \in {0, 1}) /\ ref[i] \in Int
        /\ Is(0, i) = 0 /\ Queued(<<>>, i) = 0
    BY <1>2, Bits DEF Typed, InMemory
  <2>3. Mine(p, i) = Is(cwd[p], i) + Is(fd[p], i) + Is(at[p], i) + Is(unref[p], i)
    BY <2>1, <2>2 DEF Mine
  <2>4. QED
    BY <2>1, <2>2, <2>3
<1>11. Stays(p)
  BY <1>1, <1>2, <1>4 DEF Stays, Clear, nameiparent, user, Inum
<1>12. QED
  BY <1>2, <1>4, <1>6, <1>7, <1>8, <1>9, <1>10, <1>11, LockStep

LEMMA unlink_fullKeeps == ASSUME InodeInv, NEW p \in Procs, unlink_full(p) PROVE InodeInv'
<1>1. /\ At(p, "unl") /\ puts' = [puts EXCEPT ![p] = <<obj[p]>>] /\ obj' = [obj EXCEPT ![p] = 0]
      /\ pc' = [pc EXCEPT ![p] = "unl_bad"] /\ UNCHANGED <<disk, ref, lock, user, call, names, at, iputs>>
  BY DEF unlink_full, Goto, Put
<1>2. /\ Typed /\ pc[p] = "unl" /\ Placed(call[p], pc[p], at[p], obj[p], names[p])
      /\ obj[p] \in Inum /\ obj[p] # 0 /\ puts[p] = <<>> /\ p \notin freeing /\ unref[p] = 0
  BY <1>1, Facts DEF Placed
<1>3. <<obj[p]>> \in Seq(Inum) /\ Len(<<obj[p]>>) <= 2
  BY <1>2, OneInode
<1>4. pc'[p] = "unl_bad" /\ obj'[p] = 0 /\ puts'[p] = <<obj[p]>> /\ Alone(p)
  BY <1>1, <1>2 DEF Alone, Calling, Using, iputs, user, Typed, InCalls
<1>5. Typed'
  <2>1. pc' \in [Procs -> Places] /\ obj' \in [Procs -> 0 .. NINODES]
    BY <1>1, <1>2, InodeAssumption DEF Typed, InCalls, Places, InodeAssumption
  <2>2. puts' \in [Procs -> Seq(Inum)] /\ \A q \in Procs : Len(puts'[q]) <= 2
    BY <1>1, <1>2, <1>3 DEF Typed, InCalls
  <2>3. QED
    BY <1>1, <1>2, <2>1, <2>2 DEF Typed, OnDisk, InMemory, InCalls, disk, user, cache, iputs
<1>6. /\ Placed(call'[p], pc'[p], at'[p], obj'[p], names'[p])
      /\ Keeps(pc'[p], at'[p], obj'[p]) = Keeps(pc[p], at[p], obj[p])
  BY <1>1, <1>2, <1>4 DEF Placed, Keeps
<1>7. UNCHANGED <<type, dir>> /\ UNCHANGED lock /\ LearntBy(p)'
  BY <1>1, <1>2, <1>4 DEF LearntBy, disk, cache, Placed
<1>8. ASSUME NEW i \in Inum
      PROVE  ref'[i] = ref[i] - Mine(p, i)
               + ((Is(cwd'[p], i) + Is(fd'[p], i) + Is(at'[p], i) + Is(obj'[p], i) + Is(unref'[p], i))
                  + Queued(puts'[p], i))
  <2>1. /\ ref'[i] = ref[i] /\ cwd'[p] = cwd[p] /\ fd'[p] = fd[p] /\ unref'[p] = unref[p]
        /\ obj'[p] = 0 /\ at'[p] = at[p] /\ puts'[p] = <<obj[p]>> /\ puts[p] = <<>>
    BY <1>1, <1>2, <1>4 DEF user, cache, iputs
  <2>2. /\ (\A x : Is(x, i) \in {0, 1}) /\ ref[i] \in Int
        /\ Is(0, i) = 0 /\ Queued(<<>>, i) = 0 /\ Queued(<<obj[p]>>, i) = Is(obj[p], i)
    BY <1>2, Bits, OneInode DEF Typed, InMemory
  <2>3. Mine(p, i) = Is(cwd[p], i) + Is(fd[p], i) + Is(at[p], i) + Is(obj[p], i) + Is(unref[p], i)
    BY <2>1, <2>2 DEF Mine
  <2>4. QED
    BY <2>1, <2>2, <2>3
<1>9. Stays(p)
  BY <1>1, <1>2, <1>4 DEF Stays, Clear, nameiparent, user, Inum
<1>10. QED
  BY <1>2, <1>4, <1>5, <1>6, <1>7, <1>8, <1>9, PlainStep

LEMMA link_takenKeeps == ASSUME InodeInv, NEW p \in Procs, link_taken(p) PROVE InodeInv'
<1> DEFINE ip == dir[at[p]][Head(names[p])]
<1>1. /\ At(p, "found") /\ call[p] = "link2" /\ ip # 0 /\ iget(ip) /\ lock[at[p]] = 0
      /\ lock' = [lock EXCEPT ![at[p]] = p] /\ puts' = [puts EXCEPT ![p] = <<ip>>]
      /\ pc' = [pc EXCEPT ![p] = "link_unlock"]
      /\ UNCHANGED <<disk, user, call, names, at, obj, iputs>>
  BY DEF link_taken, Goto, Put, ilock, Unlocked
<1>2. /\ Typed /\ pc[p] = "found" /\ Placed(call[p], pc[p], at[p], obj[p], names[p])
      /\ at[p] \in Inum /\ at[p] # 0 /\ names[p] # <<>> /\ puts[p] = <<>> /\ p \notin freeing /\ unref[p] = 0
  BY <1>1, Facts DEF Placed
<1>3. ip \in Inum
  BY <1>1, <1>2, HeadOf
<1> HIDE DEF ip
<1>4. pc'[p] = "link_unlock" /\ puts'[p] = <<ip>> /\ Alone(p)
  BY <1>1, <1>2 DEF Alone, Calling, Using, iputs, user, Typed, InCalls
<1>5. ref' \in [Inum -> Int] /\ \A i \in Inum : ref'[i] = ref[i] + Is(ip, i)
  BY <1>1, <1>2, <1>3, Igot
<1>a. <<ip>> \in Seq(Inum) /\ Len(<<ip>>) <= 2
  BY <1>3, OneInode
<1>6. Typed'
  <2>1. pc' \in [Procs -> Places]
    BY <1>1, <1>2 DEF Typed, InCalls, Places
  <2>2. lock' \in [Inum -> Procs \cup {0}]
    BY <1>1, <1>2 DEF Typed, InMemory
  <2>3. puts' \in [Procs -> Seq(Inum)] /\ \A q \in Procs : Len(puts'[q]) <= 2
    BY <1>1, <1>2, <1>a DEF Typed, InCalls
  <2>4. QED
    BY <1>1, <1>2, <1>5, <2>1, <2>2, <2>3 DEF Typed, OnDisk, InMemory, InCalls, disk, user, iputs
<1>7. /\ Placed(call'[p], pc'[p], at'[p], obj'[p], names'[p])
      /\ Keeps(pc[p], at[p], obj[p]) = 0 /\ Keeps(pc'[p], at'[p], obj'[p]) = at[p]
  BY <1>1, <1>2, <1>4 DEF Placed, Keeps
<1>8. /\ \A i \in Inum : lock'[i] = lock[i] \/ (lock[i] \in {0, p} /\ lock'[i] \in {0, p})
      /\ \A i \in Inum : lock'[i] = p <=> Keeps(pc'[p], at'[p], obj'[p]) = i
  <2>1. \A i \in Inum : lock[i] # p /\ lock'[i] = IF i = at[p] THEN p ELSE lock[i]
    <3>1. \A i \in Inum : i # 0 /\ ~ Frees(p, i) /\ (lock[i] = p <=> Keeps(pc[p], at[p], obj[p]) = i \/ Frees(p, i))
      BY <1>2, InodeAssumption DEF InodeInv, Locked, Frees, InodeAssumption, Inum
    <3>2. \A i \in Inum : lock[i] # p
      BY <3>1, <1>7
    <3>3. lock \in [Inum -> Procs \cup {0}] /\ lock' = [lock EXCEPT ![at[p]] = p]
      BY <1>1, <1>2 DEF Typed, InMemory
    <3>4. \A i \in Inum : lock'[i] = IF i = at[p] THEN p ELSE lock[i]
      BY <3>3
    <3>5. QED
      BY <3>2, <3>4
  <2>2. QED
    BY <1>1, <1>7, <2>1
<1>9. UNCHANGED <<type, dir>> /\ LearntBy(p)'
  BY <1>1, <1>4 DEF InodeInv, Learnt, LearntBy, disk
<1>10. ASSUME NEW i \in Inum
       PROVE  ref'[i] = ref[i] - Mine(p, i)
                + ((Is(cwd'[p], i) + Is(fd'[p], i) + Is(at'[p], i) + Is(obj'[p], i) + Is(unref'[p], i))
                   + Queued(puts'[p], i))
  <2>1. /\ ref'[i] = ref[i] + Is(ip, i) /\ cwd'[p] = cwd[p] /\ fd'[p] = fd[p] /\ unref'[p] = unref[p]
        /\ obj'[p] = obj[p] /\ at'[p] = at[p] /\ puts'[p] = <<ip>> /\ puts[p] = <<>>
    BY <1>1, <1>2, <1>4, <1>5 DEF user, iputs
  <2>2. /\ (\A x : Is(x, i) \in {0, 1}) /\ ref[i] \in Int
        /\ Queued(<<ip>>, i) = Is(ip, i) /\ Queued(<<>>, i) = 0
    BY <1>2, <1>3, Bits, OneInode DEF Typed, InMemory
  <2>3. Mine(p, i) = Is(cwd[p], i) + Is(fd[p], i) + Is(at[p], i) + Is(obj[p], i) + Is(unref[p], i)
    BY <2>1, <2>2 DEF Mine
  <2>4. QED
    BY <2>1, <2>2, <2>3
<1>11. Stays(p)
  BY <1>1, <1>2, <1>4 DEF Stays, Clear, nameiparent, user, Inum
<1>12. QED
  BY <1>2, <1>4, <1>6, <1>7, <1>8, <1>9, <1>10, <1>11, LockStep

LEMMA link_unlockKeeps == ASSUME InodeInv, NEW p \in Procs, link_unlock(p) PROVE InodeInv'
<1>1. /\ At(p, "link_unlock") /\ lock' = [lock EXCEPT ![at[p]] = 0]
      /\ puts' = [puts EXCEPT ![p] = <<at[p]>>] /\ at' = [at EXCEPT ![p] = 0]
      /\ pc' = [pc EXCEPT ![p] = "link_bad"] /\ UNCHANGED <<disk, ref, user, call, names, obj, iputs>>
  BY DEF link_unlock, Goto, Put
<1>2. /\ Typed /\ pc[p] = "link_unlock" /\ Placed(call[p], pc[p], at[p], obj[p], names[p])
      /\ at[p] \in Inum /\ at[p] # 0 /\ puts[p] = <<>> /\ p \notin freeing /\ unref[p] = 0
  BY <1>1, Facts DEF Placed
<1>3. <<at[p]>> \in Seq(Inum) /\ Len(<<at[p]>>) <= 2
  BY <1>2, OneInode
<1>4. pc'[p] = "link_bad" /\ at'[p] = 0 /\ puts'[p] = <<at[p]>> /\ Alone(p)
  BY <1>1, <1>2 DEF Alone, Calling, Using, iputs, user, Typed, InCalls
<1>5. Typed'
  <2>1. pc' \in [Procs -> Places] /\ at' \in [Procs -> 0 .. NINODES]
    BY <1>1, <1>2, InodeAssumption DEF Typed, InCalls, Places, InodeAssumption
  <2>2. puts' \in [Procs -> Seq(Inum)] /\ \A q \in Procs : Len(puts'[q]) <= 2
    BY <1>1, <1>2, <1>3 DEF Typed, InCalls
  <2>3. lock' \in [Inum -> Procs \cup {0}]
    BY <1>1, <1>2 DEF Typed, InMemory
  <2>4. QED
    BY <1>1, <1>2, <2>1, <2>2, <2>3 DEF Typed, OnDisk, InMemory, InCalls, disk, user, iputs
<1>6. /\ Placed(call'[p], pc'[p], at'[p], obj'[p], names'[p])
      /\ Keeps(pc[p], at[p], obj[p]) = at[p] /\ Keeps(pc'[p], at'[p], obj'[p]) = 0
  BY <1>1, <1>2, <1>4 DEF Placed, Keeps
<1>7. /\ \A i \in Inum : lock'[i] = lock[i] \/ (lock[i] \in {0, p} /\ lock'[i] \in {0, p})
      /\ \A i \in Inum : lock'[i] = p <=> Keeps(pc'[p], at'[p], obj'[p]) = i
  <2>1. 0 \notin Inum /\ p # 0
    BY InodeAssumption DEF InodeAssumption, Inum
  <2>2. \A i \in Inum : lock[i] = p <=> at[p] = i
    BY <1>2, <1>6 DEF InodeInv, Locked, Frees
  <2>3. \A i \in Inum : lock'[i] = IF i = at[p] THEN 0 ELSE lock[i]
    BY <1>1, <1>2 DEF Typed, InMemory
  <2>4. QED
    BY <1>6, <2>1, <2>2, <2>3
<1>8. UNCHANGED <<type, dir>> /\ LearntBy(p)'
  BY <1>1, <1>4 DEF InodeInv, Learnt, LearntBy, disk
<1>9. ASSUME NEW i \in Inum
      PROVE  ref'[i] = ref[i] - Mine(p, i)
               + ((Is(cwd'[p], i) + Is(fd'[p], i) + Is(at'[p], i) + Is(obj'[p], i) + Is(unref'[p], i))
                  + Queued(puts'[p], i))
  <2>1. /\ ref'[i] = ref[i] /\ cwd'[p] = cwd[p] /\ fd'[p] = fd[p] /\ unref'[p] = unref[p]
        /\ obj'[p] = obj[p] /\ at'[p] = 0 /\ puts'[p] = <<at[p]>> /\ puts[p] = <<>>
    BY <1>1, <1>2, <1>4 DEF user, iputs
  <2>2. /\ (\A x : Is(x, i) \in {0, 1}) /\ ref[i] \in Int
        /\ Is(0, i) = 0 /\ Queued(<<>>, i) = 0 /\ Queued(<<at[p]>>, i) = Is(at[p], i)
    BY <1>2, Bits, OneInode DEF Typed, InMemory
  <2>3. Mine(p, i) = Is(cwd[p], i) + Is(fd[p], i) + Is(at[p], i) + Is(obj[p], i) + Is(unref[p], i)
    BY <2>1, <2>2 DEF Mine
  <2>4. QED
    BY <2>1, <2>2, <2>3
<1>10. Stays(p)
  BY <1>1, <1>2, <1>4 DEF Stays, Clear, nameiparent, user, Inum
<1>11. QED
  BY <1>2, <1>4, <1>5, <1>6, <1>7, <1>8, <1>9, <1>10, LockStep

LEMMA link_oldKeeps ==
  ASSUME InodeInv, NEW p \in Procs, NEW new \in Paths, link_old(p, new)
  PROVE  InodeInv'
<1>1. /\ At(p, "found") /\ call[p] = "link" /\ lock[at[p]] = 0 /\ type[at[p]] # "free"
      /\ UNCHANGED <<type, dir, lock, user, iputs>>
  BY DEF link_old, ilock, Unlocked
<1>2. /\ Typed /\ pc[p] = "found" /\ Placed(call[p], pc[p], at[p], obj[p], names[p])
      /\ at[p] \in Inum /\ at[p] # 0 /\ puts[p] = <<>> /\ p \notin freeing /\ unref[p] = 0 /\ obj[p] = 0
  BY <1>1, Facts DEF Placed
<1>3. CASE type[at[p]] = "dir"
  <2>1. Return(p, <<at[p]>>) /\ UNCHANGED <<nlink, ref>>
    BY <1>3 DEF link_old
  <2>2. \A i \in Inum : lock'[i] = IF lock[i] = p THEN 0 ELSE lock[i]
    BY <1>1, <1>2, NoLockKept
  <2>3. lock' \in [Inum -> Procs \cup {0}] /\ UNCHANGED fd /\ UNCHANGED <<disk, ref, cwd, iputs>>
    BY <1>1, <1>2, <2>1 DEF Typed, InMemory, user, disk
  <2>4. QED
    BY <1>2, <2>1, <2>2, <2>3, ReturnAt
<1>4. CASE type[at[p]] # "dir"
  <2>1. /\ nlink' = [nlink EXCEPT ![at[p]] = @ + 1] /\ obj' = [obj EXCEPT ![p] = at[p]]
        /\ call' = [call EXCEPT ![p] = "link2"] /\ names' = [names EXCEPT ![p] = new.names]
        /\ at' = [at EXCEPT ![p] = Start(p, new)] /\ iget(Start(p, new))
        /\ pc' = [pc EXCEPT ![p] = "walk"] /\ UNCHANGED puts
    BY <1>4 DEF link_old, Goto
  <2>2. PICK s \in Inum : s = Start(p, new) /\ s # 0
    BY <1>2, Starts
  <2>3. new.names \in Seq(Names \cup Dots) /\ new.names # <<>>
    BY <1>2, Starts
  <2>4. /\ call'[p] = "link2" /\ pc'[p] = "walk" /\ names'[p] = new.names /\ at'[p] = s
        /\ obj'[p] = at[p] /\ puts'[p] = <<>> /\ Alone(p)
    BY <1>1, <1>2, <2>1, <2>2 DEF Alone, Calling, Using, iputs, user, Typed, InCalls
  <2>5. ref' \in [Inum -> Int] /\ \A i \in Inum : ref'[i] = ref[i] + Is(s, i)
    BY <1>2, <2>1, <2>2, Igot
  <2>6. Typed'
    <3>1. call' \in [Procs -> Calls] /\ pc' \in [Procs -> Places]
      BY <1>2, <2>1 DEF Typed, InCalls, Calls, Places
    <3>2. names' \in [Procs -> Seq(Names \cup Dots)]
      BY <1>2, <2>1, <2>3 DEF Typed, InCalls
    <3>3. at' \in [Procs -> 0 .. NINODES] /\ obj' \in [Procs -> 0 .. NINODES]
      BY <1>2, <2>1, <2>2 DEF Typed, InCalls, Inum
    <3>4. nlink' \in [Inum -> Int]
      BY <1>2, <2>1, MoreLinks DEF Typed
    <3>5. QED
      BY <1>1, <1>2, <2>1, <2>5, <3>1, <3>2, <3>3, <3>4 DEF Typed, OnDisk, InMemory, InCalls, user, iputs
  <2>7. /\ Placed(call'[p], pc'[p], at'[p], obj'[p], names'[p])
        /\ Keeps(pc'[p], at'[p], obj'[p]) = Keeps(pc[p], at[p], obj[p])
    BY <1>1, <1>2, <2>2, <2>3, <2>4 DEF Placed, Keeps
  <2>8. UNCHANGED <<type, dir>> /\ UNCHANGED lock /\ LearntBy(p)'
    <3>1. type[at[p]] = "file"
      BY <1>1, <1>2, <1>4 DEF Typed, OnDisk, Types
    <3>2. QED
      BY <1>1, <2>4, <3>1 DEF LearntBy
  <2>9. ASSUME NEW i \in Inum
        PROVE  ref'[i] = ref[i] - Mine(p, i)
                 + ((Is(cwd'[p], i) + Is(fd'[p], i) + Is(at'[p], i) + Is(obj'[p], i) + Is(unref'[p], i))
                    + Queued(puts'[p], i))
    <3>1. /\ ref'[i] = ref[i] + Is(s, i) /\ cwd'[p] = cwd[p] /\ fd'[p] = fd[p] /\ unref'[p] = unref[p]
          /\ obj'[p] = at[p] /\ at'[p] = s /\ puts'[p] = <<>> /\ puts[p] = <<>> /\ obj[p] = 0
      BY <1>1, <1>2, <2>4, <2>5 DEF user, iputs
    <3>2. (\A x : Is(x, i) \in {0, 1}) /\ ref[i] \in Int /\ Is(0, i) = 0 /\ Queued(<<>>, i) = 0
      BY <1>2, Bits DEF Typed, InMemory
    <3>3. Mine(p, i) = Is(cwd[p], i) + Is(fd[p], i) + Is(at[p], i) + Is(unref[p], i)
      BY <3>1, <3>2 DEF Mine
    <3>4. QED
      BY <3>1, <3>2, <3>3
  <2>10. Stays(p)
    BY <1>1, <1>2, <2>4 DEF Stays, Clear, nameiparent, user, Inum
  <2>11. QED
    BY <1>2, <2>4, <2>6, <2>7, <2>8, <2>9, <2>10, PlainStep
<1>5. QED
  BY <1>3, <1>4

-----------------------------------------------------------------------------
(* An inode with one reference has one pointer to it.                      *)
LEMMA HeldAt ==
  ASSUME Typed, NEW p \in Procs
  PROVE  /\ {1, 2, 3, 4, 5} \subseteq DOMAIN Held(p)
         /\ Held(p)[1] = cwd[p] /\ Held(p)[2] = fd[p] /\ Held(p)[3] = at[p]
         /\ Held(p)[4] = obj[p] /\ Held(p)[5] = unref[p]
         /\ puts[p] # <<>> => 6 \in DOMAIN Held(p) /\ Held(p)[6] = Head(puts[p])
<1> DEFINE t == <<cwd[p], fd[p], at[p], obj[p], unref[p]>>
           s == puts[p]
           h == t \o s
<1>1. cwd[p] \in Nat /\ fd[p] \in Nat /\ at[p] \in Nat /\ obj[p] \in Nat /\ unref[p] \in Nat
  BY InodeAssumption DEF InodeAssumption, Inum, Typed, InMemory, InCalls
<1>2. /\ t \in Seq(Nat) /\ Len(t) = 5
      /\ t[1] = cwd[p] /\ t[2] = fd[p] /\ t[3] = at[p] /\ t[4] = obj[p] /\ t[5] = unref[p]
  BY <1>1
<1>3. s \in Seq(Nat) /\ Len(s) \in Nat
  BY InodesAreNumbers, LenProperties DEF Typed, InCalls
<1>4. Held(p) = h
  BY DEF Held
<1> HIDE DEF t, s
<1>5. /\ h \in Seq(Nat) /\ Len(h) = Len(t) + Len(s)
      /\ \A k \in 1 .. Len(t) + Len(s) : h[k] = IF k <= Len(t) THEN t[k] ELSE s[k - Len(t)]
  BY <1>2, <1>3, ConcatProperties, Zenon
<1> HIDE DEF h
<1>6. DOMAIN h = 1 .. 5 + Len(s)
  BY <1>2, <1>5
<1>7. \A k \in 1 .. 5 : k \in DOMAIN h /\ h[k] = t[k]
  BY <1>2, <1>3, <1>5, <1>6
<1>8. ASSUME s # <<>> PROVE 6 \in DOMAIN h /\ h[6] = Head(s)
  <2>1. Len(s) >= 1
    <3>1. s = <<>> <=> Len(s) = 0
      BY <1>3, EmptySeq
    <3>2. QED
      BY <1>3, <1>8, <3>1
  <2>2. 6 \in 1 .. 5 + Len(s)
    BY <1>3, <2>1
  <2>3. h[6] = s[6 - 5]
    BY <1>2, <1>5, <2>2
  <2>4. Head(s) = s[1]
    BY <1>3, <1>8, HeadTailProperties
  <2>5. QED
    BY <1>6, <2>2, <2>3, <2>4
<1>9. /\ {1, 2, 3, 4, 5} \subseteq DOMAIN h
      /\ h[1] = cwd[p] /\ h[2] = fd[p] /\ h[3] = at[p] /\ h[4] = obj[p] /\ h[5] = unref[p]
  BY <1>2, <1>7
<1>10. QED
  BY <1>4, <1>8, <1>9 DEF s

LEMMA OnlyPointer ==
  ASSUME InodeInv, NEW i \in Inum, ref[i] = 1, NEW p \in Procs, puts[p] # <<>>, Head(puts[p]) = i
  PROVE  \A q \in Procs : i \notin {cwd[q], fd[q], at[q], obj[q], unref[q]}
<1>1. Typed /\ IsFiniteSet(Pointers(i)) /\ Cardinality(Pointers(i)) = 1
  BY DEF InodeInv, Counted
<1>2. PICK x : Pointers(i) = {x}
  BY <1>1, FS_Singleton
<1>3. ASSUME NEW q \in Procs, NEW k, k \in DOMAIN Held(q), Held(q)[k] = i
      PROVE  <<q, k>> = x
  <2>1. <<q, k>> \in Pointers(i)
    BY <1>3 DEF Pointers
  <2>2. QED
    BY <1>2, <2>1
<1>4. <<p, 6>> = x
  <2>1. 6 \in DOMAIN Held(p) /\ Held(p)[6] = i
    BY <1>1, HeldAt
  <2>2. QED
    BY <1>3, <2>1
<1>5. ASSUME NEW q \in Procs, NEW k \in {1, 2, 3, 4, 5} PROVE Held(q)[k] # i
  <2>1. k \in DOMAIN Held(q)
    BY <1>1, HeldAt
  <2>2. <<q, k>> # x
    BY <1>4
  <2>3. QED
    BY <1>3, <2>1, <2>2
<1>6. QED
  BY <1>1, <1>5, HeldAt

-----------------------------------------------------------------------------
(* The steps that change the disk.                                         *)
LEMMA StillKnow ==
  ASSUME InodeInv, NEW q \in Procs,
         call'[q] = call[q], pc'[q] = pc[q], names'[q] = names[q], at'[q] = at[q], obj'[q] = obj[q],
         \A i \in Inum : i \in {at[q], obj[q]} /\ type[i] # "free" => type'[i] = type[i],
         pc[q] = "unl" => dir'[at[q]][Head(names[q])] = dir[at[q]][Head(names[q])]
  PROVE  LearntBy(q)'
<1>1. /\ LearntBy(q) /\ Placed(call[q], pc[q], at[q], obj[q], names[q])
      /\ at[q] # 0 => at[q] \in Inum
      /\ obj[q] # 0 => obj[q] \in Inum
  BY DEF InodeInv, Learnt, InPlace, Typed, InCalls, Inum
<1>2. pc[q] \in {"found", "unl", "alloc", "new"} => at[q] \in Inum
  BY <1>1 DEF Placed
<1>3. call[q] = "link2" => obj[q] \in Inum
  BY <1>1 DEF Placed
<1>4. QED
  BY <1>1, <1>2, <1>3 DEF LearntBy, nameiparent

LEMMA iput_lockKeeps == ASSUME InodeInv, NEW p \in Procs, iput_lock(p) PROVE InodeInv'
<1>1. PICK i : i = Head(puts[p])
  OBVIOUS
<1>2. /\ puts[p] # <<>> /\ unref[p] = 0 /\ Typed /\ p \notin freeing /\ lock[i] = 0
      /\ UNCHANGED <<disk, ref, user, steps>>
      /\ \/ ref[i] = 1 /\ lock' = [lock EXCEPT ![i] = p] /\ freeing' = freeing \cup {p} /\ UNCHANGED <<puts, unref>>
         \/ /\ unref' = [unref EXCEPT ![p] = i] /\ puts' = [puts EXCEPT ![p] = Tail(puts[p])]
            /\ UNCHANGED <<lock, freeing>>
  BY <1>1 DEF iput_lock, iput_if, Put, InodeInv, Unlocked
<1>3. i \in Inum /\ Tail(puts[p]) \in Seq(Inum) /\ Len(Tail(puts[p])) <= 1
  BY <1>1, <1>2, QueuedTail DEF Typed, InCalls
<1>4. CASE ref[i] = 1 /\ lock' = [lock EXCEPT ![i] = p] /\ freeing' = freeing \cup {p} /\ UNCHANGED <<puts, unref>>
  <2>1. UNCHANGED <<type, nlink, dir, ref, cwd, fd, call, pc, names, at, obj, puts, unref>>
    BY <1>2, <1>4 DEF disk, user, steps
  <2>2. p # 0 /\ \A j \in Inum : lock'[j] = IF j = i THEN p ELSE lock[j]
    BY <1>2, <1>3, <1>4, InodeAssumption DEF Typed, InMemory, InodeAssumption
  <2>3. Typed'
    <3>1. lock' \in [Inum -> Procs \cup {0}]
      BY <1>2, <1>4 DEF Typed, InMemory
    <3>2. QED
      BY <1>2, <2>1, <3>1 DEF Typed, OnDisk, InMemory, InCalls
  <2>4. Keeps(pc[p], at[p], obj[p]) # i
    BY <1>2, <1>3, <2>2 DEF InodeInv, Locked, Frees
  <2>5. InPlace'
    BY <1>1, <1>2, <1>4, <2>1, <2>4 DEF InodeInv, InPlace
  <2>6. Locked'
    <3>1. SUFFICES ASSUME NEW q \in Procs, NEW j \in Inum
                   PROVE  lock'[j] = q <=> Keeps(pc[q], at[q], obj[q]) = j \/ Frees(q, j)'
      BY <2>1 DEF Locked, Keeps, Frees
    <3>2. lock[j] = q <=> Keeps(pc[q], at[q], obj[q]) = j \/ Frees(q, j)
      BY DEF InodeInv, Locked, Frees
    <3>3. Frees(q, j)' <=> Frees(q, j) \/ (q = p /\ j = i)
      BY <1>1, <1>2, <1>4, <2>1 DEF Frees
    <3>4. lock'[j] = q <=> lock[j] = q \/ (q = p /\ j = i)
      BY <1>2, <2>2, InodeAssumption DEF InodeAssumption
    <3>5. QED
      BY <3>2, <3>3, <3>4
  <2>7. Counted'
    BY <2>1, SameCount DEF InodeInv, user
  <2>8. Learnt' /\ OnlyDirs(type, dir)'
    BY <2>1 DEF InodeInv, Learnt, LearntBy, nameiparent, OnlyDirs
  <2>9. Cleared'
    <3>1. ASSUME NEW q \in Procs PROVE Clear(q, i)
      BY <1>1, <1>2, <1>3, <1>4, OnlyPointer DEF Clear
    <3>2. QED
      BY <1>1, <1>4, <2>1, <3>1 DEF InodeInv, Cleared, Clear, nameiparent
  <2>10. freeing' \subseteq Procs
    BY <1>4 DEF InodeInv
  <2>11. QED
    BY <2>3, <2>5, <2>6, <2>7, <2>8, <2>9, <2>10 DEF InodeInv
<1>5. CASE /\ unref' = [unref EXCEPT ![p] = i] /\ puts' = [puts EXCEPT ![p] = Tail(puts[p])]
           /\ UNCHANGED <<lock, freeing>>
  <2>1. unref'[p] = i /\ puts'[p] = Tail(puts[p]) /\ Alone(p)
    BY <1>2, <1>5 DEF Alone, Calling, Using, steps, user, Typed, InCalls, InMemory
  <2>2. Typed'
    <3>1. unref' \in [Procs -> 0 .. NINODES]
      BY <1>2, <1>3, <1>5 DEF Typed, InMemory, Inum
    <3>2. puts' \in [Procs -> Seq(Inum)] /\ \A q \in Procs : Len(puts'[q]) <= 2
      BY <1>2, <1>3, <1>5 DEF Typed, InCalls
    <3>3. QED
      BY <1>2, <1>5, <3>1, <3>2 DEF Typed, OnDisk, InMemory, InCalls, disk, user, steps
  <2>3. /\ Placed(call'[p], pc'[p], at'[p], obj'[p], names'[p])
        /\ Keeps(pc'[p], at'[p], obj'[p]) = Keeps(pc[p], at[p], obj[p])
    BY <1>2 DEF InodeInv, InPlace, steps
  <2>4. ASSUME NEW j \in Inum
        PROVE  ref'[j] = ref[j] - Mine(p, j)
                 + ((Is(cwd'[p], j) + Is(fd'[p], j) + Is(at'[p], j) + Is(obj'[p], j) + Is(unref'[p], j))
                    + Queued(puts'[p], j))
    <3>1. /\ ref'[j] = ref[j] /\ cwd'[p] = cwd[p] /\ fd'[p] = fd[p] /\ unref'[p] = i
          /\ obj'[p] = obj[p] /\ at'[p] = at[p] /\ puts'[p] = Tail(puts[p])
      BY <1>2, <2>1 DEF user, steps
    <3>2. /\ (\A x : Is(x, j) \in {0, 1} /\ Queued(x, j) \in {0, 1, 2}) /\ ref[j] \in Int
          /\ Is(0, j) = 0
      BY <1>2, Bits DEF Typed, InMemory
    <3>3. Queued(puts[p], j) = Is(i, j) + Queued(Tail(puts[p]), j)
      BY <1>1, <1>2, QueuedTail DEF Typed, InCalls
    <3>4. Mine(p, j) = (Is(cwd[p], j) + Is(fd[p], j) + Is(at[p], j) + Is(obj[p], j) + Is(i, j))
                       + Queued(Tail(puts[p]), j)
      BY <1>2, <3>2, <3>3 DEF Mine
    <3>5. QED
      BY <3>1, <3>2, <3>4
  <2>5. LearntBy(p)' /\ UNCHANGED <<type, dir>> /\ UNCHANGED lock
    BY <1>2, <1>5 DEF InodeInv, Learnt, LearntBy, nameiparent, disk, steps
  <2>6. Stays(p)
    BY <1>2 DEF Stays, Clear, nameiparent, user, steps
  <2>7. QED
    BY <1>2, <2>1, <2>2, <2>3, <2>4, <2>5, <2>6, PlainStep
<1>6. QED
  BY <1>2, <1>4, <1>5

LEMMA iput_freeKeeps == ASSUME InodeInv, NEW p \in Procs, iput_free(p) PROVE InodeInv'
<1>1. PICK i : i = Head(puts[p])
  OBVIOUS
<1>2. /\ p \in freeing /\ Typed /\ type' = [type EXCEPT ![i] = "free"] /\ dir' = [dir EXCEPT ![i] = Empty]
      /\ lock' = [lock EXCEPT ![i] = 0] /\ freeing' = freeing \ {p}
      /\ unref' = [unref EXCEPT ![p] = i] /\ puts' = [puts EXCEPT ![p] = Tail(puts[p])]
      /\ UNCHANGED <<nlink, ref, user, steps>>
  BY <1>1 DEF iput_free, Put, InodeInv
<1>3. puts[p] # <<>> /\ unref[p] = 0 /\ Keeps(pc[p], at[p], obj[p]) # i
  BY <1>1, <1>2 DEF InodeInv, InPlace
<1>4. i \in Inum /\ Tail(puts[p]) \in Seq(Inum) /\ Len(Tail(puts[p])) <= 1
  BY <1>1, <1>2, <1>3, QueuedTail DEF Typed, InCalls
<1>5. lock[i] = p /\ p # 0
  BY <1>1, <1>2, <1>4, InodeAssumption DEF InodeInv, Locked, Frees, InodeAssumption
<1>6. unref'[p] = i /\ puts'[p] = Tail(puts[p]) /\ Calling(p) /\ Using(p)
  BY <1>2 DEF Calling, Using, steps, user, Typed, InCalls, InMemory
<1>7. Typed'
  <2>1. unref' \in [Procs -> 0 .. NINODES]
    BY <1>2, <1>4 DEF Typed, InMemory, Inum
  <2>2. puts' \in [Procs -> Seq(Inum)] /\ \A q \in Procs : Len(puts'[q]) <= 2
    BY <1>2, <1>4 DEF Typed, InCalls
  <2>3. type' \in [Inum -> Types] /\ lock' \in [Inum -> Procs \cup {0}]
    BY <1>2, <1>4 DEF Typed, OnDisk, InMemory, Types
  <2>4. dir' \in [Inum -> [Names \cup Dots -> 0 .. NINODES]]
    <3>1. Empty \in [Names \cup Dots -> 0 .. NINODES]
      BY InodeAssumption DEF Empty, InodeAssumption
    <3>2. QED
      BY <1>2, <1>4, <3>1 DEF Typed, OnDisk
  <2>5. QED
    BY <1>2, <2>1, <2>2, <2>3, <2>4 DEF Typed, OnDisk, InMemory, InCalls, user, steps
<1>8. UNCHANGED <<call, pc, names, at, obj, cwd, fd>>
  BY <1>2 DEF steps, user
<1>9. InPlace'
  <2>1. \A r \in freeing' : r \in freeing /\ r # p /\ r \in Procs
    BY <1>2 DEF InodeInv
  <2>2. \A r \in freeing' : puts'[r] = puts[r] /\ unref'[r] = unref[r]
    BY <1>6, <2>1 DEF Calling, Using
  <2>3. QED
    BY <1>8, <2>1, <2>2 DEF InodeInv, InPlace
<1>10. Locked'
  <2>1. SUFFICES ASSUME NEW q \in Procs, NEW j \in Inum
                 PROVE  lock'[j] = q <=> Keeps(pc[q], at[q], obj[q]) = j \/ Frees(q, j)'
    BY <1>8 DEF Locked, Keeps, Frees
  <2>2. lock[j] = q <=> Keeps(pc[q], at[q], obj[q]) = j \/ Frees(q, j)
    BY DEF InodeInv, Locked, Frees
  <2>3. Frees(q, j)' <=> Frees(q, j) /\ q # p
    BY <1>2, <1>6 DEF Frees, Calling
  <2>4. Frees(p, j) <=> j = i
    BY <1>1, <1>2 DEF Frees
  <2>5. lock'[j] = IF j = i THEN 0 ELSE lock[j]
    BY <1>2, <1>4 DEF Typed, InMemory
  <2>6. q # 0
    BY InodeAssumption DEF InodeAssumption
  <2>7. CASE j = i
    BY <1>3, <1>5, <2>2, <2>3, <2>4, <2>5, <2>6, <2>7
  <2>8. CASE j # i
    BY <2>2, <2>3, <2>4, <2>5, <2>8
  <2>9. QED
    BY <2>7, <2>8
<1>11. Counted'
  <2>1. ASSUME NEW j \in Inum PROVE ref'[j] = ref[j] - Mine(p, j) + Mine(p, j)'
    <3>1. /\ ref'[j] = ref[j] /\ cwd'[p] = cwd[p] /\ fd'[p] = fd[p] /\ unref'[p] = i
          /\ obj'[p] = obj[p] /\ at'[p] = at[p] /\ puts'[p] = Tail(puts[p])
      BY <1>2, <1>6, <1>8
    <3>2. /\ (\A x : Is(x, j) \in {0, 1} /\ Queued(x, j) \in {0, 1, 2}) /\ ref[j] \in Int
          /\ Is(0, j) = 0
      BY <1>2, Bits DEF Typed, InMemory
    <3>3. Queued(puts[p], j) = Is(i, j) + Queued(Tail(puts[p]), j)
      BY <1>1, <1>2, <1>3, QueuedTail DEF Typed, InCalls
    <3>4. Mine(p, j) = (Is(cwd[p], j) + Is(fd[p], j) + Is(at[p], j) + Is(obj[p], j) + Is(i, j))
                       + Queued(Tail(puts[p]), j)
      BY <1>3, <3>2, <3>3 DEF Mine
    <3>5. Mine(p, j)' = (Is(cwd'[p], j) + Is(fd'[p], j) + Is(at'[p], j) + Is(obj'[p], j) + Is(unref'[p], j))
                        + Queued(puts'[p], j)
      BY Zenon DEF Mine, Is, Queued, On
    <3>6. Mine(p, j)' = Mine(p, j)
      BY <3>1, <3>4, <3>5
    <3>7. Mine(p, j) \in Int
      BY <3>2 DEF Mine
    <3>8. QED
      BY <3>1, <3>2, <3>6, <3>7
  <2>2. QED
    BY <1>2, <1>6, <1>7, <2>1, CountsKeep DEF InodeInv
<1>12. \A j \in Inum : j # i => type'[j] = type[j] /\ dir'[j] = dir[j]
  BY <1>2, <1>4 DEF Typed, OnDisk
<1>13. Learnt'
  <2>1. SUFFICES ASSUME NEW q \in Procs PROVE LearntBy(q)'
    BY DEF Learnt
  <2>2. Clear(q, i) /\ LearntBy(q) /\ Placed(call[q], pc[q], at[q], obj[q], names[q])
    BY <1>1, <1>2 DEF InodeInv, Cleared, Learnt, InPlace
  <2>3. /\ at[q] # 0 => at[q] \in Inum
        /\ obj[q] # 0 => obj[q] \in Inum
    BY <1>2 DEF Typed, InCalls, Inum
  <2>4. at[q] = i => ~(pc[q] \in {"found", "unl", "alloc", "new"} /\ nameiparent(q)) /\ pc[q] # "unl"
    BY <2>2 DEF Clear
  <2>5. obj[q] = i => call[q] # "link2"
    BY <2>2 DEF Clear, Placed
  <2>6. pc[q] \in {"found", "unl", "alloc", "new"} => at[q] \in Inum
    BY <2>2, <2>3 DEF Placed
  <2>7. call[q] = "link2" => obj[q] \in Inum
    BY <2>2, <2>3 DEF Placed
  <2>8. QED
    BY <1>8, <1>12, <2>2, <2>4, <2>5, <2>6, <2>7 DEF LearntBy, nameiparent
<1>14. Cleared'
  BY <1>2, <1>6, <1>8 DEF InodeInv, Cleared, Clear, nameiparent, Calling
<1>15. OnlyDirs(type, dir)'
  <2>1. \A n \in Names : dir'[i][n] = 0
    BY <1>2, <1>4 DEF Typed, OnDisk, Empty
  <2>2. QED
    BY <1>12, <2>1 DEF InodeInv, OnlyDirs
<1>16. QED
  BY <1>2, <1>7, <1>9, <1>10, <1>11, <1>13, <1>14, <1>15 DEF InodeInv

LEMMA unlink_entryKeeps == ASSUME InodeInv, NEW p \in Procs, unlink_entry(p) PROVE InodeInv'
<1> DEFINE n == Head(names[p])
<1>1. /\ At(p, "unl") /\ lock[obj[p]] = 0
      /\ dir' = [dir EXCEPT ![at[p]][n] = 0]
      /\ nlink' = [nlink EXCEPT ![at[p]] = IF type[obj[p]] = "dir" THEN @ - 1 ELSE @]
      /\ lock' = [lock EXCEPT ![at[p]] = 0, ![obj[p]] = p]
      /\ puts' = [puts EXCEPT ![p] = <<at[p]>>] /\ at' = [at EXCEPT ![p] = 0]
      /\ pc' = [pc EXCEPT ![p] = "unl_count"]
      /\ UNCHANGED <<type, ref, user, call, names, obj, iputs>>
  BY DEF unlink_entry, Goto, Put, ilock, Unlocked
<1>2. /\ Typed /\ pc[p] = "unl" /\ Placed(call[p], pc[p], at[p], obj[p], names[p])
      /\ at[p] \in Inum /\ at[p] # 0 /\ puts[p] = <<>> /\ p \notin freeing /\ unref[p] = 0
      /\ obj[p] \in Inum /\ obj[p] # 0 /\ n \in Names
      /\ call[p] = "unlink"
  BY <1>1, Facts DEF Placed, LearntBy
<1> HIDE DEF n
<1>3. <<at[p]>> \in Seq(Inum) /\ Len(<<at[p]>>) <= 2
  BY <1>2, OneInode
<1>4. pc'[p] = "unl_count" /\ at'[p] = 0 /\ obj'[p] = obj[p] /\ puts'[p] = <<at[p]>> /\ Alone(p)
  BY <1>1, <1>2 DEF Alone, Calling, Using, iputs, user, Typed, InCalls
<1>5. /\ dir' \in [Inum -> [Names \cup Dots -> 0 .. NINODES]]
      /\ \A i \in Inum, m \in Names \cup Dots : dir'[i][m] = IF i = at[p] /\ m = n THEN 0 ELSE dir[i][m]
      /\ \A i \in Inum : i # at[p] => dir'[i] = dir[i]
  <2>1. 0 \in 0 .. NINODES /\ n \in Names \cup Dots /\ dir \in [Inum -> [Names \cup Dots -> 0 .. NINODES]]
    <3>1. 0 \in 0 .. NINODES
      BY InodeAssumption DEF InodeAssumption
    <3>2. n \in Names \cup Dots
      BY <1>2
    <3>3. QED
      BY <1>2, <3>1, <3>2 DEF Typed, OnDisk
  <2>2. dir' = [dir EXCEPT ![at[p]][n] = 0] /\ at[p] \in Inum
    BY <1>1, <1>2
  <2>3. dir' \in [Inum -> [Names \cup Dots -> 0 .. NINODES]]
    BY <2>1, <2>2
  <2>4. /\ \A i \in Inum : i # at[p] => dir'[i] = dir[i]
        /\ \A m \in Names \cup Dots : dir'[at[p]][m] = IF m = n THEN 0 ELSE dir[at[p]][m]
    BY <2>1, <2>2
  <2>5. QED
    BY <2>3, <2>4
<1>6. Typed'
  <2>1. pc' \in [Procs -> Places] /\ at' \in [Procs -> 0 .. NINODES]
    BY <1>1, <1>2, InodeAssumption DEF Typed, InCalls, Places, InodeAssumption
  <2>2. puts' \in [Procs -> Seq(Inum)] /\ \A q \in Procs : Len(puts'[q]) <= 2
    BY <1>1, <1>2, <1>3 DEF Typed, InCalls
  <2>3. lock' \in [Inum -> Procs \cup {0}]
    BY <1>1, <1>2 DEF Typed, InMemory
  <2>4. nlink' \in [Inum -> Int]
    <3>1. nlink' = [nlink EXCEPT ![at[p]] = @ - 1] \/ nlink' = nlink
      BY <1>1, <1>2 DEF Typed, OnDisk
    <3>2. QED
      BY <1>2, <3>1, LessLinks DEF Typed, OnDisk
  <2>5. QED
    BY <1>1, <1>2, <1>5, <2>1, <2>2, <2>3, <2>4 DEF Typed, OnDisk, InMemory, InCalls, user, iputs
<1>7. /\ Placed(call'[p], pc'[p], at'[p], obj'[p], names'[p])
      /\ Keeps(pc[p], at[p], obj[p]) = at[p] /\ Keeps(pc'[p], at'[p], obj'[p]) = obj[p]
  BY <1>1, <1>2, <1>4 DEF Placed, Keeps
<1>8. /\ \A i \in Inum : lock'[i] = lock[i] \/ (lock[i] \in {0, p} /\ lock'[i] \in {0, p})
      /\ \A i \in Inum : lock'[i] = p <=> Keeps(pc'[p], at'[p], obj'[p]) = i
  <2>1. p # 0
    BY InodeAssumption DEF InodeAssumption
  <2>2. \A i \in Inum : lock[i] = p <=> at[p] = i
    BY <1>2, <1>7 DEF InodeInv, Locked, Frees
  <2>3. \A i \in Inum : lock'[i] = IF i = obj[p] THEN p ELSE IF i = at[p] THEN 0 ELSE lock[i]
    BY <1>1, <1>2 DEF Typed, InMemory
  <2>4. at[p] # obj[p] /\ lock[obj[p]] = 0 /\ lock[at[p]] = p /\ obj[p] \in Inum
    BY <1>1, <1>2, <2>1, <2>2
  <2>5. Keeps(pc'[p], at'[p], obj'[p]) = obj[p]
    BY <1>7
  <2>6. ASSUME NEW i \in Inum
        PROVE  /\ lock'[i] = lock[i] \/ (lock[i] \in {0, p} /\ lock'[i] \in {0, p})
               /\ lock'[i] = p <=> obj[p] = i
    BY <2>1, <2>2, <2>3, <2>4
  <2>7. QED
    BY <2>5, <2>6
<1>9. ASSUME NEW q \in Procs PROVE LearntBy(q)'
  <2>1. CASE q = p
    BY <1>1, <1>2, <1>4, <2>1 DEF LearntBy
  <2>2. CASE q # p
    <3>1. /\ call'[q] = call[q] /\ pc'[q] = pc[q] /\ names'[q] = names[q]
          /\ at'[q] = at[q] /\ obj'[q] = obj[q]
      BY <1>4, <2>2 DEF Alone, Calling
    <3>2. pc[q] = "unl" => at[q] \in Inum /\ at[q] # at[p]
      <4>1. pc[q] = "unl" => at[q] \in Inum /\ lock[at[q]] = q
        BY DEF InodeInv, InPlace, Placed, Locked, Keeps, Typed, InCalls, Inum
      <4>2. lock[at[p]] = p
        BY <1>2, <1>7 DEF InodeInv, Locked, Frees
      <4>3. QED
        BY <2>2, <4>1, <4>2
    <3>3. QED
      BY <1>1, <1>5, <3>1, <3>2, StillKnow
  <2>3. QED
    BY <2>1, <2>2
<1>10. OnlyDirs(type, dir)'
  BY <1>1, <1>5 DEF InodeInv, OnlyDirs, Inum
<1>11. ASSUME NEW i \in Inum
       PROVE  ref'[i] = ref[i] - Mine(p, i)
                + ((Is(cwd'[p], i) + Is(fd'[p], i) + Is(at'[p], i) + Is(obj'[p], i) + Is(unref'[p], i))
                   + Queued(puts'[p], i))
  <2>1. /\ ref'[i] = ref[i] /\ cwd'[p] = cwd[p] /\ fd'[p] = fd[p] /\ unref'[p] = unref[p]
        /\ obj'[p] = obj[p] /\ at'[p] = 0 /\ puts'[p] = <<at[p]>> /\ puts[p] = <<>>
    BY <1>1, <1>2, <1>4 DEF user, iputs
  <2>2. /\ (\A x : Is(x, i) \in {0, 1}) /\ ref[i] \in Int
        /\ Is(0, i) = 0 /\ Queued(<<>>, i) = 0 /\ Queued(<<at[p]>>, i) = Is(at[p], i)
    BY <1>2, Bits, OneInode DEF Typed, InMemory
  <2>3. Mine(p, i) = Is(cwd[p], i) + Is(fd[p], i) + Is(at[p], i) + Is(obj[p], i) + Is(unref[p], i)
    BY <2>1, <2>2 DEF Mine
  <2>4. QED
    BY <2>1, <2>2, <2>3
<1>12. Stays(p)
  BY <1>1, <1>2, <1>4 DEF Stays, Clear, nameiparent, user, Inum
<1>13. QED
  BY <1>2, <1>4, <1>6, <1>7, <1>8, <1>9, <1>10, <1>11, <1>12, LocalStep

(* A name is entered into an unlocked directory for an inode without names *)
(* in it.                                                                  *)
Enters(types, dirs, types2, dirs2, d, e, m) ==
  /\ d \in Inum /\ e \in Inum /\ d # e
  /\ types2[d] = "dir" /\ \A x \in Names : dirs[e][x] = 0
  /\ \A i \in Inum : types2[i] # "dir" => types[i] # "dir" \/ i = e
  /\ \A i \in Inum, x \in Names : dirs2[i][x] = IF i = d /\ x = m THEN e ELSE dirs[i][x]

LEMMA NoNewCycles ==
  ASSUME NEW types, NEW dirs, NEW types2, NEW dirs2, NEW d, NEW e, NEW m,
         OnlyDirs(types, dirs), Enters(types, dirs, types2, dirs2, d, e, m)
  PROVE  OnlyDirs(types2, dirs2)
<1> USE DEF Enters
<1>2. ASSUME NEW i \in Inum, types2[i] # "dir", NEW x \in Names PROVE dirs2[i][x] = 0
  BY <1>2 DEF OnlyDirs
<1>3. QED
  BY <1>2 DEF OnlyDirs

LEMMA link_newKeeps == ASSUME InodeInv, NEW p \in Procs, link_new(p) PROVE InodeInv'
<1> DEFINE n == Head(names[p])
           s == <<at[p], obj[p]>>
<1>1. /\ At(p, "found") /\ call[p] = "link2" /\ lock[at[p]] = 0
      /\ dir' = [dir EXCEPT ![at[p]][n] = obj[p]] /\ Return(p, s)
      /\ UNCHANGED <<type, nlink, ref, lock, user, iputs>>
  BY DEF link_new, ilock, Unlocked
<1>2. /\ Typed /\ pc[p] = "found" /\ Placed(call[p], pc[p], at[p], obj[p], names[p])
      /\ at[p] \in Inum /\ at[p] # 0 /\ puts[p] = <<>> /\ p \notin freeing /\ unref[p] = 0 /\ names[p] # <<>>
      /\ obj[p] \in Inum /\ obj[p] # 0 /\ type[at[p]] = "dir" /\ type[obj[p]] = "file"
  BY <1>1, Facts DEF Placed, LearntBy, nameiparent
<1>a. n \in Names \cup Dots
  BY <1>2, HeadOf
<1> HIDE DEF n
<1>3. s \in Seq(Inum) /\ Len(s) = 2 /\ \A i \in Inum : Queued(s, i) = Is(at[p], i) + Is(obj[p], i)
  <2>1. s \in Seq(Inum) /\ Len(s) = 2
    BY <1>2
  <2>2. QED
    <3>1. ASSUME NEW a \in Inum, NEW b \in Inum, NEW i \in Inum
          PROVE  Queued(<<a, b>>, i) = Is(a, i) + Is(b, i)
      BY DEF Queued, On, Is
    <3>2. QED
      BY <2>1, <3>1
<1> HIDE DEF s
<1>4. /\ InCalls' /\ Calling(p)
      /\ call'[p] = "none" /\ pc'[p] = "idle" /\ names'[p] = <<>>
      /\ at'[p] = 0 /\ obj'[p] = 0 /\ puts'[p] = s
  <2>1. Typed /\ Return(p, s) /\ s \in Seq(Inum) /\ Len(s) <= 2
    BY <1>1, <1>2, <1>3
  <2>2. QED
    BY <2>1, Returned
<1>5. /\ dir' \in [Inum -> [Names \cup Dots -> 0 .. NINODES]]
      /\ \A i \in Inum, m \in Names : dir'[i][m] = IF i = at[p] /\ m = n THEN obj[p] ELSE dir[i][m]
      /\ \A i \in Inum : i # at[p] => dir'[i] = dir[i]
  <2>1. obj[p] \in 0 .. NINODES
    BY <1>2 DEF Inum
  <2>2. QED
    BY <1>1, <1>2, <1>a, <2>1 DEF Typed, OnDisk
<1>6. Typed' /\ Alone(p)
  BY <1>1, <1>2, <1>4, <1>5 DEF Typed, OnDisk, InMemory, Alone, Using, iputs, user, cache
<1>7. /\ Placed(call'[p], pc'[p], at'[p], obj'[p], names'[p])
      /\ Keeps(pc'[p], at'[p], obj'[p]) = Keeps(pc[p], at[p], obj[p])
  BY <1>2, <1>4 DEF Placed, Keeps
<1>8. /\ \A i \in Inum : lock'[i] = lock[i] \/ (lock[i] \in {0, p} /\ lock'[i] \in {0, p})
      /\ \A i \in Inum : lock'[i] = p <=> Keeps(pc'[p], at'[p], obj'[p]) = i
  BY <1>1, <1>2, <1>7 DEF InodeInv, Locked, Frees
<1>9. ASSUME NEW q \in Procs PROVE LearntBy(q)'
  <2>1. CASE q = p
    BY <1>4, <2>1 DEF LearntBy
  <2>2. CASE q # p
    <3>1. /\ call'[q] = call[q] /\ pc'[q] = pc[q] /\ names'[q] = names[q]
          /\ at'[q] = at[q] /\ obj'[q] = obj[q]
      BY <1>4, <2>2 DEF Calling
    <3>2. pc[q] = "unl" => at[q] \in Inum /\ at[q] # at[p]
      <4>1. pc[q] = "unl" => at[q] \in Inum /\ lock[at[q]] = q
        BY DEF InodeInv, InPlace, Placed, Locked, Keeps, Typed, InCalls, Inum
      <4>2. QED
        BY <1>1, <4>1, InodeAssumption DEF InodeAssumption
    <3>3. QED
      BY <1>1, <1>5, <3>1, <3>2, StillKnow
  <2>3. QED
    BY <2>1, <2>2
<1>10. OnlyDirs(type, dir)'
  <2>1. OnlyDirs(type, dir) /\ \A x \in Names : dir[obj[p]][x] = 0
    BY <1>2 DEF InodeInv, OnlyDirs
  <2>2. at[p] # obj[p] /\ UNCHANGED type
    BY <1>1, <1>2
  <2>3. Enters(type, dir, type', dir', at[p], obj[p], n)
    BY <1>2, <1>5, <2>1, <2>2 DEF Enters
  <2>a. OnlyDirs(type', dir')
    BY <2>1, <2>3, NoNewCycles, Zenon
  <2>4. QED
    BY <2>a DEF OnlyDirs
<1>11. ASSUME NEW i \in Inum
       PROVE  ref'[i] = ref[i] - Mine(p, i)
                + ((Is(cwd'[p], i) + Is(fd'[p], i) + Is(at'[p], i) + Is(obj'[p], i) + Is(unref'[p], i))
                   + Queued(puts'[p], i))
  <2>1. /\ ref'[i] = ref[i] /\ cwd'[p] = cwd[p] /\ fd'[p] = fd[p] /\ unref'[p] = unref[p]
        /\ obj'[p] = 0 /\ at'[p] = 0 /\ puts'[p] = s /\ puts[p] = <<>>
    BY <1>1, <1>2, <1>4 DEF user, cache, iputs
  <2>2. /\ (\A x : Is(x, i) \in {0, 1}) /\ ref[i] \in Int
        /\ Is(0, i) = 0 /\ Queued(<<>>, i) = 0 /\ Queued(s, i) = Is(at[p], i) + Is(obj[p], i)
    BY <1>2, <1>3, Bits DEF Typed, InMemory
  <2>3. Mine(p, i) = Is(cwd[p], i) + Is(fd[p], i) + Is(at[p], i) + Is(obj[p], i) + Is(unref[p], i)
    BY <2>1, <2>2 DEF Mine
  <2>4. QED
    BY <2>1, <2>2, <2>3
<1>12. Stays(p)
  BY <1>1, <1>2, <1>4 DEF Stays, Clear, nameiparent, user, Inum
<1>13. QED
  BY <1>2, <1>6, <1>7, <1>8, <1>9, <1>10, <1>11, <1>12, LocalStep

LEMMA LeastNatural ==
  ASSUME NEW T \in SUBSET Nat, T # {}
  PROVE  \E m \in T : \A k \in T : m <= k
<1>1. PICK m \in T : \A k \in T : ~(<<k, m>> \in OpToRel(<, Nat))
  BY NatLessThanWellFounded, WFMin
<1>2. m \in Nat /\ \A k \in T : k \in Nat
  OBVIOUS
<1>3. \A k \in T : ~(k < m)
  BY <1>1, <1>2 DEF OpToRel
<1>4. QED
  BY <1>2, <1>3

(* create: the inode that ialloc marks, its reference, and its content.    *)
LEMMA create_allocKeeps == ASSUME InodeInv, NEW p \in Procs, create_alloc(p) PROVE InodeInv'
<1>1. PICK ip \in Inum :
        /\ type[ip] = "free" /\ type' = [type EXCEPT ![ip] = kind(p)]
        /\ nlink' = [nlink EXCEPT ![ip] = 0] /\ dir' = [dir EXCEPT ![ip] = Empty]
  BY DEF create_alloc, Free
<1>2. /\ At(p, "found") /\ call[p] \in {"create", "mkdir"} /\ type[at[p]] # "free" /\ lock[at[p]] = 0
      /\ lock' = [lock EXCEPT ![at[p]] = p] /\ pc' = [pc EXCEPT ![p] = "alloc"]
      /\ UNCHANGED <<ref, user, call, names, at, obj, puts, iputs>>
  BY DEF create_alloc, Goto, ilock, Unlocked
<1>3. /\ Typed /\ pc[p] = "found" /\ Placed(call[p], pc[p], at[p], obj[p], names[p])
      /\ at[p] \in Inum /\ at[p] # 0 /\ puts[p] = <<>> /\ p \notin freeing /\ unref[p] = 0 /\ names[p] # <<>>
      /\ obj[p] = 0 /\ type[at[p]] = "dir" /\ at[p] # ip
  BY <1>1, <1>2, Facts DEF Placed, LearntBy, nameiparent
<1>4. pc'[p] = "alloc" /\ Alone(p)
  BY <1>2, <1>3 DEF Alone, Calling, Using, iputs, user, Typed, InCalls
<1>5. /\ type' \in [Inum -> Types] /\ nlink' \in [Inum -> Int]
      /\ dir' \in [Inum -> [Names \cup Dots -> 0 .. NINODES]]
      /\ \A i \in Inum : i # ip => type'[i] = type[i] /\ dir'[i] = dir[i]
      /\ \A x \in Names : dir'[ip][x] = 0
  <2>1. Empty \in [Names \cup Dots -> 0 .. NINODES] /\ \A x \in Names : Empty[x] = 0
    BY InodeAssumption DEF Empty, InodeAssumption
  <2>2. kind(p) \in Types
    BY DEF kind, Types
  <2>3. QED
    BY <1>1, <1>3, <2>1, <2>2 DEF Typed, OnDisk
<1>6. Typed'
  <2>1. pc' \in [Procs -> Places] /\ lock' \in [Inum -> Procs \cup {0}]
    BY <1>2, <1>3 DEF Typed, InCalls, InMemory, Places
  <2>2. QED
    BY <1>2, <1>3, <1>5, <2>1 DEF Typed, OnDisk, InMemory, InCalls, user, iputs
<1>7. /\ Placed(call'[p], pc'[p], at'[p], obj'[p], names'[p])
      /\ Keeps(pc[p], at[p], obj[p]) = 0 /\ Keeps(pc'[p], at'[p], obj'[p]) = at[p]
  BY <1>2, <1>3, <1>4 DEF Placed, Keeps
<1>8. /\ \A i \in Inum : lock'[i] = lock[i] \/ (lock[i] \in {0, p} /\ lock'[i] \in {0, p})
      /\ \A i \in Inum : lock'[i] = p <=> Keeps(pc'[p], at'[p], obj'[p]) = i
  <2>1. \A i \in Inum : lock[i] # p
    BY <1>3, NoLockKept
  <2>2. \A i \in Inum : lock'[i] = IF i = at[p] THEN p ELSE lock[i]
    BY <1>2, <1>3 DEF Typed, InMemory
  <2>3. QED
    BY <1>2, <1>7, <2>1, <2>2
<1>9. ASSUME NEW q \in Procs PROVE LearntBy(q)'
  <2>1. CASE q = p
    BY <1>2, <1>3, <1>4, <1>5, <2>1 DEF LearntBy
  <2>2. CASE q # p
    <3>1. /\ call'[q] = call[q] /\ pc'[q] = pc[q] /\ names'[q] = names[q]
          /\ at'[q] = at[q] /\ obj'[q] = obj[q]
      BY <1>4, <2>2 DEF Alone, Calling
    <3>2. pc[q] = "unl" => at[q] \in Inum /\ at[q] # ip
      BY <1>1 DEF InodeInv, InPlace, Placed, Learnt, LearntBy, nameiparent, Typed, InCalls, Inum
    <3>3. \A i \in Inum : type[i] # "free" => type'[i] = type[i]
      BY <1>1, <1>5
    <3>4. QED
      BY <1>5, <3>1, <3>2, <3>3, StillKnow
  <2>3. QED
    BY <2>1, <2>2
<1>10. OnlyDirs(type, dir)'
  BY <1>5 DEF InodeInv, OnlyDirs
<1>11. ASSUME NEW i \in Inum
       PROVE  ref'[i] = ref[i] - Mine(p, i)
                + ((Is(cwd'[p], i) + Is(fd'[p], i) + Is(at'[p], i) + Is(obj'[p], i) + Is(unref'[p], i))
                   + Queued(puts'[p], i))
  <2>1. /\ ref'[i] = ref[i] /\ cwd'[p] = cwd[p] /\ fd'[p] = fd[p] /\ unref'[p] = unref[p]
        /\ at'[p] = at[p] /\ obj'[p] = obj[p] /\ puts'[p] = puts[p]
    BY <1>2 DEF user, iputs
  <2>2. (\A x : Is(x, i) \in {0, 1} /\ Queued(x, i) \in {0, 1, 2}) /\ ref[i] \in Int
    BY <1>3, Bits DEF Typed, InMemory
  <2>3. QED
    BY <2>1, <2>2 DEF Mine
<1>12. Stays(p)
  BY <1>2, <1>3, <1>4 DEF Stays, Clear, nameiparent, user, Inum
<1>13. QED
  BY <1>3, <1>4, <1>6, <1>7, <1>8, <1>9, <1>10, <1>11, <1>12, LocalStep

LEMMA create_igetKeeps ==
  ASSUME InodeInv, NEW p \in Procs, create_iget(p), chosen[p] \in Inum
  PROVE  InodeInv'
<1>1. /\ At(p, "alloc") /\ iget(chosen[p]) /\ obj' = [obj EXCEPT ![p] = chosen[p]]
      /\ pc' = [pc EXCEPT ![p] = "new"] /\ UNCHANGED <<disk, lock, user, call, names, at, puts, iputs>>
  BY DEF create_iget, Goto
<1>2. /\ Typed /\ pc[p] = "alloc" /\ Placed(call[p], pc[p], at[p], obj[p], names[p]) /\ LearntBy(p)
      /\ at[p] \in Inum /\ at[p] # 0 /\ puts[p] = <<>> /\ p \notin freeing /\ unref[p] = 0 /\ names[p] # <<>>
      /\ obj[p] = 0 /\ call[p] \in {"create", "mkdir"} /\ lock[at[p]] = p
  BY <1>1, Facts DEF Placed, Keeps
<1>3. PICK ip \in Inum : ip = chosen[p] /\ ip # 0
  BY InodeAssumption DEF Inum, InodeAssumption
<1>4. pc'[p] = "new" /\ obj'[p] = ip /\ Alone(p)
  BY <1>1, <1>2, <1>3 DEF Alone, Calling, Using, iputs, user, Typed, InCalls
<1>5. ref' \in [Inum -> Int] /\ \A i \in Inum : ref'[i] = ref[i] + Is(ip, i)
  BY <1>1, <1>2, <1>3, Igot
<1>6. Typed'
  <2>1. pc' \in [Procs -> Places] /\ obj' \in [Procs -> 0 .. NINODES]
    BY <1>1, <1>2, <1>3 DEF Typed, InCalls, Places, Inum
  <2>2. QED
    BY <1>1, <1>2, <1>5, <2>1 DEF Typed, OnDisk, InMemory, InCalls, disk, user, iputs
<1>7. /\ Placed(call'[p], pc'[p], at'[p], obj'[p], names'[p])
      /\ Keeps(pc'[p], at'[p], obj'[p]) = Keeps(pc[p], at[p], obj[p])
  BY <1>1, <1>2, <1>3, <1>4 DEF Placed, Keeps
<1>8. UNCHANGED <<type, dir>> /\ UNCHANGED lock /\ LearntBy(p)'
  BY <1>1, <1>2, <1>4 DEF LearntBy, nameiparent, disk
<1>9. ASSUME NEW i \in Inum
      PROVE  ref'[i] = ref[i] - Mine(p, i)
               + ((Is(cwd'[p], i) + Is(fd'[p], i) + Is(at'[p], i) + Is(obj'[p], i) + Is(unref'[p], i))
                  + Queued(puts'[p], i))
  <2>1. /\ ref'[i] = ref[i] + Is(ip, i) /\ cwd'[p] = cwd[p] /\ fd'[p] = fd[p] /\ unref'[p] = unref[p]
        /\ obj'[p] = ip /\ at'[p] = at[p] /\ puts'[p] = <<>> /\ puts[p] = <<>> /\ obj[p] = 0
    BY <1>1, <1>2, <1>4, <1>5 DEF user, iputs
  <2>2. /\ (\A x : Is(x, i) \in {0, 1}) /\ ref[i] \in Int
        /\ Is(0, i) = 0 /\ Queued(<<>>, i) = 0
    BY <1>2, Bits DEF Typed, InMemory
  <2>3. Mine(p, i) = Is(cwd[p], i) + Is(fd[p], i) + Is(at[p], i) + Is(unref[p], i)
    BY <2>1, <2>2 DEF Mine
  <2>4. QED
    BY <2>1, <2>2, <2>3
<1>10. Stays(p)
  BY <1>1, <1>2, <1>4 DEF Stays, Clear, nameiparent, user, Inum
<1>11. QED
  BY <1>2, <1>4, <1>6, <1>7, <1>8, <1>9, <1>10, PlainStep

LEMMA create_fillKeeps == ASSUME InodeInv, NEW p \in Procs, create_fill(p) PROVE InodeInv'
<1> DEFINE n == Head(names[p])
<1>1. PICK dp, ip : dp = at[p] /\ ip = obj[p]
  OBVIOUS
<1> DEFINE made == [dir[ip] EXCEPT !["."] = ip, ![".."] = dp]
           full == IF kind(p) = "dir" THEN made ELSE dir[ip]
<1>2. /\ At(p, "new") /\ lock[ip] = 0
      /\ nlink' = [nlink EXCEPT ![ip] = 1, ![dp] = IF kind(p) = "dir" THEN @ + 1 ELSE @]
      /\ dir' = [dir EXCEPT ![ip] = IF kind(p) = "dir" THEN made ELSE @, ![dp][n] = ip]
      /\ lock' = [lock EXCEPT ![dp] = 0, ![ip] = p]
      /\ at' = [at EXCEPT ![p] = ip] /\ obj' = [obj EXCEPT ![p] = 0] /\ puts' = [puts EXCEPT ![p] = <<dp>>]
      /\ pc' = [pc EXCEPT ![p] = "made"] /\ UNCHANGED <<type, ref, user, call, names, iputs>>
  BY <1>1 DEF create_fill, Goto, Put, ilock, Unlocked
<1>3. /\ Typed /\ pc[p] = "new" /\ Placed(call[p], pc[p], dp, ip, names[p])
      /\ dp \in Inum /\ dp # 0 /\ ip \in Inum /\ ip # 0 /\ names[p] # <<>>
      /\ puts[p] = <<>> /\ p \notin freeing /\ unref[p] = 0
      /\ type[dp] = "dir" /\ call[p] \in {"create", "mkdir"} /\ lock[dp] = p /\ dp # ip
  <2>1. p # 0
    BY InodeAssumption DEF InodeAssumption
  <2>2. QED
    BY <1>1, <1>2, <2>1, Facts DEF Placed, LearntBy, nameiparent, Keeps
<1>4. n \in Names \cup Dots
  BY <1>3, HeadOf
<1>5. /\ full \in [Names \cup Dots -> 0 .. NINODES]
      /\ \A x \in Names : full[x] = dir[ip][x]
  <2>0. dir \in [Inum -> [Names \cup Dots -> 0 .. NINODES]] /\ ip \in Inum /\ dp \in Inum
    BY <1>3 DEF Typed, OnDisk
  <2>a. dir[ip] \in [Names \cup Dots -> 0 .. NINODES]
    BY <2>0, Zenon
  <2>1. dir[ip] \in [Names \cup Dots -> 0 .. NINODES] /\ ip \in 0 .. NINODES /\ dp \in 0 .. NINODES
    BY <2>0, <2>a DEF Inum
  <2>2. "." \notin Names /\ ".." \notin Names
    BY InodeAssumption DEF InodeAssumption, Dots
  <2>3. QED
    BY <2>1, <2>2
<1>a. dir' = [[dir EXCEPT ![ip] = full] EXCEPT ![dp][n] = ip]
  <2>1. dir[ip] = [dir EXCEPT ![ip] = dir[ip]][ip] \/ TRUE
    OBVIOUS
  <2>2. QED
    BY <1>2, <1>3 DEF Typed, OnDisk
<1> HIDE DEF n, made, full
<1>6. /\ dir' \in [Inum -> [Names \cup Dots -> 0 .. NINODES]]
      /\ \A i \in Inum, m \in Names : dir'[i][m] = IF i = dp /\ m = n THEN ip ELSE dir[i][m]
      /\ \A i \in Inum : i # dp /\ i # ip => dir'[i] = dir[i]
  <2>1. ip \in 0 .. NINODES
    BY <1>3 DEF Inum
  <2> DEFINE D == [dir EXCEPT ![ip] = full]
  <2>3. D \in [Inum -> [Names \cup Dots -> 0 .. NINODES]] /\ D[ip] = full /\ \A i \in Inum : i # ip => D[i] = dir[i]
    BY <1>3, <1>5 DEF Typed, OnDisk
  <2>4. dir' = [D EXCEPT ![dp][n] = ip]
    BY <1>a
  <2> HIDE DEF D
  <2>5. /\ dir' \in [Inum -> [Names \cup Dots -> 0 .. NINODES]]
        /\ \A i \in Inum : i # dp => dir'[i] = D[i]
        /\ \A m \in Names \cup Dots : dir'[dp][m] = IF m = n THEN ip ELSE D[dp][m]
    BY <1>3, <1>4, <2>1, <2>3, <2>4
  <2>6. \A i \in Inum, m \in Names : D[i][m] = dir[i][m]
    BY <1>5, <2>3
  <2>7. ASSUME NEW i \in Inum, NEW m \in Names PROVE dir'[i][m] = IF i = dp /\ m = n THEN ip ELSE dir[i][m]
    BY <2>5, <2>6
  <2>8. QED
    BY <2>3, <2>5, <2>7
<1>7. pc'[p] = "made" /\ at'[p] = ip /\ obj'[p] = 0 /\ puts'[p] = <<dp>> /\ Alone(p)
  BY <1>2, <1>3 DEF Alone, Calling, Using, iputs, user, Typed, InCalls
<1>8. <<dp>> \in Seq(Inum) /\ Len(<<dp>>) <= 2
  BY <1>3, OneInode
<1>9. Typed'
  <2>1. pc' \in [Procs -> Places] /\ at' \in [Procs -> 0 .. NINODES] /\ obj' \in [Procs -> 0 .. NINODES]
    BY <1>2, <1>3, InodeAssumption DEF Typed, InCalls, Places, Inum, InodeAssumption
  <2>2. puts' \in [Procs -> Seq(Inum)] /\ \A q \in Procs : Len(puts'[q]) <= 2
    BY <1>2, <1>3, <1>8 DEF Typed, InCalls
  <2>3. lock' \in [Inum -> Procs \cup {0}]
    BY <1>2, <1>3 DEF Typed, InMemory
  <2>4. nlink' \in [Inum -> Int]
    <3>1. nlink \in [Inum -> Int] /\ nlink[dp] \in Int /\ nlink[dp] + 1 \in Int
      BY <1>3 DEF Typed, OnDisk
    <3>2. QED
      BY <1>2, <1>3, <3>1
  <2>5. QED
    BY <1>2, <1>3, <1>6, <2>1, <2>2, <2>3, <2>4 DEF Typed, OnDisk, InMemory, InCalls, user, iputs
<1>10. /\ Placed(call'[p], pc'[p], at'[p], obj'[p], names'[p])
       /\ Keeps(pc[p], at[p], obj[p]) = dp /\ Keeps(pc'[p], at'[p], obj'[p]) = ip
  BY <1>1, <1>2, <1>3, <1>7 DEF Placed, Keeps
<1>11. /\ \A i \in Inum : lock'[i] = lock[i] \/ (lock[i] \in {0, p} /\ lock'[i] \in {0, p})
       /\ \A i \in Inum : lock'[i] = p <=> Keeps(pc'[p], at'[p], obj'[p]) = i
  <2>1. p # 0
    BY InodeAssumption DEF InodeAssumption
  <2>2. \A i \in Inum : lock[i] = p <=> dp = i
    BY <1>3, <1>10 DEF InodeInv, Locked, Frees
  <2>3. \A i \in Inum : lock'[i] = IF i = ip THEN p ELSE IF i = dp THEN 0 ELSE lock[i]
    BY <1>2, <1>3 DEF Typed, InMemory
  <2>4. QED
    BY <1>2, <1>3, <1>10, <2>1, <2>2, <2>3
<1>12. ASSUME NEW q \in Procs PROVE LearntBy(q)'
  <2>1. CASE q = p
    BY <1>2, <1>3, <1>7, <2>1 DEF LearntBy
  <2>2. CASE q # p
    <3>1. /\ call'[q] = call[q] /\ pc'[q] = pc[q] /\ names'[q] = names[q]
          /\ at'[q] = at[q] /\ obj'[q] = obj[q]
      BY <1>7, <2>2 DEF Alone, Calling
    <3>2. pc[q] = "unl" => at[q] \in Inum /\ at[q] # dp /\ at[q] # ip
      <4>1. pc[q] = "unl" => at[q] \in Inum /\ lock[at[q]] = q
        BY DEF InodeInv, InPlace, Placed, Locked, Keeps, Typed, InCalls, Inum
      <4>2. QED
        BY <1>2, <1>3, <2>2, <4>1, InodeAssumption DEF InodeAssumption
    <3>3. QED
      BY <1>2, <1>6, <3>1, <3>2, StillKnow
  <2>3. QED
    BY <2>1, <2>2
<1>13. OnlyDirs(type, dir)'
  BY <1>2, <1>3, <1>6 DEF InodeInv, OnlyDirs
<1>14. ASSUME NEW i \in Inum
       PROVE  ref'[i] = ref[i] - Mine(p, i)
                + ((Is(cwd'[p], i) + Is(fd'[p], i) + Is(at'[p], i) + Is(obj'[p], i) + Is(unref'[p], i))
                   + Queued(puts'[p], i))
  <2>1. /\ ref'[i] = ref[i] /\ cwd'[p] = cwd[p] /\ fd'[p] = fd[p] /\ unref'[p] = unref[p]
        /\ obj'[p] = 0 /\ at'[p] = ip /\ puts'[p] = <<dp>> /\ puts[p] = <<>>
    BY <1>2, <1>3, <1>7 DEF user, iputs
  <2>2. /\ (\A x : Is(x, i) \in {0, 1}) /\ ref[i] \in Int
        /\ Is(0, i) = 0 /\ Queued(<<>>, i) = 0 /\ Queued(<<dp>>, i) = Is(dp, i)
    BY <1>3, Bits, OneInode DEF Typed, InMemory
  <2>3. Mine(p, i) = Is(cwd[p], i) + Is(fd[p], i) + Is(dp, i) + Is(ip, i) + Is(unref[p], i)
    BY <1>1, <2>1, <2>2 DEF Mine
  <2>4. QED
    BY <2>1, <2>2, <2>3
<1>15. Stays(p)
  BY <1>1, <1>2, <1>3, <1>7 DEF Stays, Clear, nameiparent, user, Inum
<1>16. QED
  BY <1>3, <1>7, <1>9, <1>10, <1>11, <1>12, <1>13, <1>14, <1>15, LocalStep

-----------------------------------------------------------------------------
(* As many pointers as there are processes that have one in place k. *)
LEMMA Tagged ==
  ASSUME NEW S, IsFiniteSet(S), NEW k
  PROVE  /\ IsFiniteSet({<<p, k>> : p \in S})
         /\ Cardinality({<<p, k>> : p \in S}) = Cardinality(S)
<1> DEFINE T == {<<p, k>> : p \in S}
           f == [p \in S |-> <<p, k>>]
<1>1. f \in [S -> T] /\ (\A a, b \in S : f[a] = f[b] => a = b) /\ \A x \in T : \E a \in S : f[a] = x
  OBVIOUS
<1> HIDE DEF T, f
<1>2. f \in Bijection(S, T)
  BY <1>1 DEF Bijection, Injection, Surjection, IsInjective
<1>3. ExistsBijection(S, T)
  BY <1>2 DEF ExistsBijection
<1>4. IsFiniteSet(T) /\ Cardinality(T) = Cardinality(S)
  BY <1>3, FS_Bijection
<1>5. QED
  BY <1>4 DEF T

(* In the beginning the only pointers are the current directories.         *)
LEMMA CountedInit == ASSUME Init PROVE Counted
<1> SUFFICES ASSUME NEW i \in Inum
    PROVE  IsFiniteSet(Pointers(i)) /\ ref[i] = Cardinality(Pointers(i))
  BY DEF Counted
<1> DEFINE S == {p \in Procs : cwd[p] = i}
<1>1. IsFiniteSet(S) /\ ref[i] = Cardinality(S)
  <2>1. IsFiniteSet(S)
    BY InodeAssumption, FS_Subset DEF InodeAssumption
  <2>2. QED
    BY <2>1 DEF Init
<1>2. Pointers(i) = {<<p, 1>> : p \in S}
  <2>1. \A p \in Procs : DOMAIN Held(p) = 1 .. 5 /\ \A k \in 1 .. 5 : Held(p)[k] = i <=> k = 1 /\ cwd[p] = i
    <3>1. SUFFICES ASSUME NEW p \in Procs
                   PROVE  DOMAIN Held(p) = 1 .. 5 /\ \A k \in 1 .. 5 : Held(p)[k] = i <=> k = 1 /\ cwd[p] = i
      OBVIOUS
    <3>2. Held(p) = <<cwd[p], 0, 0, 0, 0>> \o <<>>
      BY DEF Init, Held
    <3>a. cwd \in [Procs -> Inum]
      <4>1. cwd \in [Procs -> Homes] /\ Homes \subseteq Inum
        BY InodeAssumption DEF Init, InodeAssumption
      <4>2. QED
        BY <4>1
    <3>3. cwd[p] \in Nat
      BY <3>a, InodeAssumption DEF InodeAssumption, Inum
    <3>4. <<cwd[p], 0, 0, 0, 0>> \in Seq(Nat)
      BY <3>3
    <3>5. Held(p) = <<cwd[p], 0, 0, 0, 0>>
      BY <3>2, <3>4, ConcatEmptySeq
    <3>6. i # 0
      BY InodeAssumption DEF Inum, InodeAssumption
    <3>7. QED
      BY <3>5, <3>6
  <2>2. \A x : x \in Pointers(i) <=> \E p \in S : x = <<p, 1>>
    BY <2>1 DEF Pointers
  <2>3. QED
    BY <2>2
<1> HIDE DEF S
<1>3. IsFiniteSet({<<p, 1>> : p \in S}) /\ Cardinality({<<p, 1>> : p \in S}) = Cardinality(S)
  BY <1>1, Tagged, Zenon
<1>4. QED
  BY <1>1, <1>2, <1>3, Zenon

LEMMA InitInv == Init => InodeInv
<1> SUFFICES ASSUME Init PROVE InodeInv
  OBVIOUS
<1>1. Homes \subseteq Inum /\ 0 \in 0 .. NINODES /\ 0 \notin Inum /\ 0 \notin Procs
  BY InodeAssumption DEF InodeAssumption, Inum
<1>2. OnDisk
  <2>0. PICK Tree \in Trees : type = Tree.type /\ nlink = Tree.nlink /\ dir = Tree.dir
    BY DEF Init
  <2>1. /\ Tree.type \in [Inum -> Types] /\ Tree.nlink \in [Inum -> Nat]
        /\ Tree.dir \in [Inum -> [Names \cup Dots -> 0 .. NINODES]]
    BY InodeAssumption DEF InodeAssumption
  <2>2. Tree.nlink \in [Inum -> Int]
    BY <2>1
  <2>4. QED
    BY <2>0, <2>1, <2>2, Zenon DEF OnDisk
<1>3. InMemory
  <2>1. cwd \in [Procs -> Inum] /\ fd \in [Procs -> 0 .. NINODES] /\ unref \in [Procs -> 0 .. NINODES]
    BY <1>1 DEF Init
  <2>2. lock \in [Inum -> Procs \cup {0}]
    BY DEF Init
  <2>3. ref \in [Inum -> Int]
    <3>1. \A i \in Inum : Cardinality({p \in Procs : cwd[p] = i}) \in Int
      BY InodeAssumption, FS_Subset, FS_CardinalityType DEF InodeAssumption
    <3>2. QED
      BY <3>1 DEF Init
  <2>4. QED
    BY <2>1, <2>2, <2>3 DEF InMemory
<1>4. InCalls
  <2>1. <<>> \in Seq(Names \cup Dots) /\ <<>> \in Seq(Inum) /\ Len(<<>>) = 0
    BY EmptySeq
  <2>2. QED
    BY <1>1, <2>1 DEF Init, InCalls, Calls, Places
<1>5. InPlace
  BY DEF Init, InPlace, Placed
<1>6. Locked
  BY <1>1 DEF Init, Locked, Keeps, Frees
<1>7. Learnt
  BY DEF Init, Learnt, LearntBy
<1>8. OnlyDirs(type, dir)
  BY InodeAssumption DEF Init, InodeAssumption, NoCycles, OnlyDirs
<1>9. freeing \subseteq Procs /\ Cleared
  BY DEF Init, Cleared
<1>10. QED
  BY <1>9, <1>2, <1>3, <1>4, <1>5, <1>6, <1>7, <1>8, CountedInit DEF InodeInv, Typed

LEMMA MarkedInit == Init => Marked
<1>1. 0 \in 0 .. NINODES
  BY InodeAssumption DEF InodeAssumption
<1>2. QED
  BY <1>1 DEF Init, Marked

LEMMA MarkStep ==
  ASSUME InodeInv, Marked, NEW p \in Procs, UNCHANGED chosen,
         \A i \in valid' \ valid : i \in Inum,
         UNCHANGED pc \/ (pc[p] # "alloc" /\ \E l : l # "alloc" /\ pc' = [pc EXCEPT ![p] = l])
  PROVE  Marked'
BY DEF InodeInv, Typed, InCalls, Marked

LEMMA MarkedNext == InodeInv /\ Marked /\ [Next]_vars => Marked'
<1> SUFFICES ASSUME InodeInv, Marked, [Next]_vars PROVE Marked'
  OBVIOUS
<1>1. Typed
  BY DEF InodeInv
<1>2. CASE UNCHANGED vars
  BY <1>2 DEF vars, cache, steps, Marked
<1>3. ASSUME NEW p \in Procs, create_alloc(p) PROVE Marked'
  <2>1. PICK ip \in Inum : chosen' = [chosen EXCEPT ![p] = ip]
    BY <1>3 DEF create_alloc, Free
  <2>2. At(p, "found") /\ pc' = [pc EXCEPT ![p] = "alloc"] /\ valid' = valid \cup {at[p]}
    BY <1>3 DEF create_alloc, Goto, ilock
  <2>3. at[p] \in Inum /\ ip # 0 /\ ip \in 0 .. NINODES
    BY <2>2, Facts, InodeAssumption DEF Placed, Inum, InodeAssumption
  <2>4. QED
    BY <1>1, <2>1, <2>2, <2>3 DEF Typed, InCalls, Marked
<1>4. ASSUME NEW p \in Procs, create_iget(p) PROVE Marked'
  <2>1. /\ chosen' = [chosen EXCEPT ![p] = 0] /\ pc' = [pc EXCEPT ![p] = "new"] /\ UNCHANGED valid
    BY <1>4 DEF create_iget, Goto
  <2>2. QED
    BY <1>1, <2>1, InodeAssumption DEF Typed, InCalls, Marked, InodeAssumption
<1>5. ASSUME NEW p \in Procs,
             \/ ilock_panic(p) \/ iput_lock(p) \/ iput_free(p) \/ iput_unref(p) \/ sys_close(p)
             \/ create_panic(p)
      PROVE  Marked'
  <2>1. UNCHANGED <<chosen, pc>> /\ valid' \subseteq valid
    BY <1>5 DEF ilock_panic, iput_lock, iput_if, iput_free, iput_unref, sys_close, create_panic, steps, cache
  <2>2. QED
    BY <2>1, MarkStep
<1>6. ASSUME NEW p \in Procs,
             \/ \E c \in {"open", "create", "mkdir", "link", "unlink", "chdir"}, path \in Paths : Call(p, c, path)
             \/ create_made(p) \/ unlink_bad(p) \/ unlink_count(p) \/ link_unlock(p)
      PROVE  Marked'
  <2>1. UNCHANGED <<chosen, valid>>
    BY <1>6 DEF Call, create_made, unlink_bad, unlink_count, link_unlock, Open, Return
  <2>2. pc[p] # "alloc" /\ \E l : l # "alloc" /\ pc' = [pc EXCEPT ![p] = l]
    BY <1>6 DEF Call, create_made, unlink_bad, unlink_count, link_unlock, Open, Return, Goto, At
  <2>3. QED
    BY <2>1, <2>2, MarkStep
<1>7. ASSUME NEW p \in Procs, At(p, "walk") \/ At(p, "found") \/ At(p, "got"), UNCHANGED chosen, ilock(at[p]),
             \E l : l # "alloc" /\ pc' = [pc EXCEPT ![p] = l]
      PROVE  Marked'
  <2>1. at[p] \in Inum /\ pc[p] # "alloc"
    BY <1>7, Facts DEF Placed
  <2>2. QED
    BY <1>7, <2>1, MarkStep DEF ilock
<1>8. ASSUME NEW p \in Procs, namex(p) PROVE Marked'
  <2>1. At(p, "walk") /\ ilock(at[p])
    BY <1>8 DEF namex
  <2>2. UNCHANGED chosen /\ \E l : l # "alloc" /\ pc' = [pc EXCEPT ![p] = l]
    BY <1>8 DEF namex, NotFound, Goto, Return
  <2>3. QED
    BY <1>7, <2>1, <2>2
<1>9. ASSUME NEW p \in Procs,
             \/ sys_open(p) \/ sys_chdir(p) \/ create_exists(p) \/ create_got(p)
             \/ unlink_none(p) \/ unlink_lookup(p) \/ link_new(p) \/ link_taken(p)
      PROVE  Marked'
  <2>1. (At(p, "found") \/ At(p, "got")) /\ ilock(at[p])
    BY <1>9 DEF sys_open, sys_chdir, create_exists, create_got, unlink_none, unlink_lookup, link_new, link_taken
  <2>2. UNCHANGED chosen
    BY <1>9 DEF sys_open, sys_chdir, create_exists, create_got, unlink_none, unlink_lookup,
                link_new, link_taken, Open, Return
  <2>3. \E l : l # "alloc" /\ pc' = [pc EXCEPT ![p] = l]
    BY <1>9 DEF sys_open, sys_chdir, create_exists, create_got, unlink_none, unlink_lookup,
                link_new, link_taken, Open, Return, Goto
  <2>4. QED
    BY <1>7, <2>1, <2>2, <2>3
<1>10. ASSUME NEW p \in Procs, NEW new \in Paths, link_old(p, new) PROVE Marked'
  <2>1. At(p, "found") /\ ilock(at[p])
    BY <1>10 DEF link_old
  <2>2. UNCHANGED chosen /\ \E l : l # "alloc" /\ pc' = [pc EXCEPT ![p] = l]
    BY <1>10 DEF link_old, Return, Goto
  <2>3. QED
    BY <1>7, <2>1, <2>2
<1>11. ASSUME NEW p \in Procs, create_fill(p) \/ unlink_full(p) \/ unlink_entry(p) \/ link_bad(p)
       PROVE  Marked'
  <2>1. (At(p, "new") \/ At(p, "unl") \/ At(p, "link_bad")) /\ ilock(obj[p])
    BY <1>11 DEF create_fill, unlink_full, unlink_entry, link_bad
  <2>2. UNCHANGED chosen /\ \E l : l # "alloc" /\ pc' = [pc EXCEPT ![p] = l]
    BY <1>11 DEF create_fill, unlink_full, unlink_entry, link_bad, Return, Goto
  <2>3. obj[p] \in Inum /\ pc[p] # "alloc"
    BY <2>1, Facts DEF Placed
  <2>4. QED
    BY <2>1, <2>2, <2>3, MarkStep DEF ilock
<1>12. CASE Next
  BY <1>3, <1>4, <1>5, <1>6, <1>8, <1>9, <1>10, <1>11, <1>12, Zenon DEF Next
<1>13. QED
  BY <1>2, <1>12


LEMMA NextInv == InodeInv /\ Marked /\ [Next]_vars => InodeInv'
<1> SUFFICES ASSUME InodeInv, Marked, [Next]_vars PROVE InodeInv'
  OBVIOUS
<1>1. CASE UNCHANGED vars
  BY <1>1, InertStep DEF vars, cache
<1>2. CASE Next
  <2>1. PICK p \in Procs :
          \/ \E c \in {"open", "create", "mkdir", "link", "unlink", "chdir"}, path \in Paths :
               Call(p, c, path)
          \/ ilock_panic(p) \/ iput_lock(p) \/ iput_free(p) \/ iput_unref(p) \/ namex(p)
          \/ sys_open(p) \/ sys_chdir(p) \/ sys_close(p)
          \/ create_exists(p) \/ create_got(p) \/ create_alloc(p) \/ create_iget(p) \/ create_fill(p)
          \/ create_made(p) \/ create_panic(p)
          \/ unlink_none(p) \/ unlink_lookup(p) \/ unlink_full(p) \/ unlink_bad(p)
          \/ unlink_entry(p) \/ unlink_count(p)
          \/ \E new \in Paths : link_old(p, new)
          \/ link_new(p) \/ link_taken(p) \/ link_unlock(p) \/ link_bad(p)
    BY <1>2, Zenon DEF Next
  <2>2. CASE \E c \in {"open", "create", "mkdir", "link", "unlink", "chdir"}, path \in Paths : Call(p, c, path)
    BY <2>2, CallKeeps
  <2>3. CASE \E new \in Paths : link_old(p, new)
    BY <2>3, link_oldKeeps
  <2>4. CASE create_iget(p)
    <3>1. chosen[p] \in Inum
      BY <2>4 DEF Marked, create_iget, At, Inum
    <3>2. QED
      BY <2>4, <3>1, create_igetKeeps
  <2>5. QED
    BY <2>1, <2>2, <2>3, <2>4, ilock_panicKeeps, iput_lockKeeps, iput_freeKeeps, iput_unrefKeeps, namexKeeps,
       sys_openKeeps, sys_chdirKeeps, sys_closeKeeps, create_existsKeeps, create_gotKeeps,
       create_allocKeeps, create_fillKeeps, create_madeKeeps, create_panicKeeps, unlink_noneKeeps, unlink_lookupKeeps,
       unlink_fullKeeps, unlink_badKeeps, unlink_entryKeeps, unlink_countKeeps, link_newKeeps,
       link_takenKeeps, link_unlockKeeps, link_badKeeps, Zenon
<1>3. QED
  BY <1>1, <1>2

(* The invariant holds in every state, for any number of processes, inodes *)
(* and calls.                                                              *)
THEOREM InodeInductive == Spec => [](InodeInv /\ Marked)
BY InitInv, NextInv, MarkedInit, MarkedNext, PTL DEF Spec

(* Of FreedUnused: iput frees an inode in a later step than it reads the      *)
(* reference count in, and meanwhile iget may hand the inode out; but no   *)
(* process has it as its directory or its file, or has locked it before.   *)
THEOREM NothingFreedInHand ==
  Spec => [][\A i \in Inum : Freed(i) => \A p \in Procs : Clear(p, i)']_vars
<1>1. ASSUME InodeInv, [Next]_vars, NEW i \in Inum, Freed(i), NEW q \in Procs
      PROVE  Clear(q, i)'
  <2>1. PICK p \in Procs : iput_free(p)
    <3>1. Typed /\ type[i] # "free" /\ type'[i] = "free"
      BY <1>1 DEF InodeInv, Freed
    <3>2. ASSUME NEW p \in Procs, create_alloc(p) PROVE FALSE
      <4>1. PICK j : type' = [type EXCEPT ![j] = kind(p)]
        BY <3>2 DEF create_alloc
      <4>2. kind(p) # "free"
        BY DEF kind
      <4>3. QED
        BY <3>1, <4>1, <4>2 DEF Typed, OnDisk
    <3>3. ASSUME NEW p \in Procs,
                 \/ \E c \in {"open", "create", "mkdir", "link", "unlink", "chdir"}, path \in Paths :
                      Call(p, c, path)
                 \/ ilock_panic(p) \/ iput_lock(p) \/ iput_unref(p) \/ namex(p)
                 \/ sys_open(p) \/ sys_chdir(p) \/ sys_close(p)
                 \/ create_exists(p) \/ create_got(p) \/ create_iget(p) \/ create_fill(p)
                 \/ create_made(p) \/ create_panic(p)
                 \/ unlink_none(p) \/ unlink_lookup(p) \/ unlink_full(p) \/ unlink_bad(p)
                 \/ unlink_entry(p) \/ unlink_count(p)
                 \/ \E new \in Paths : link_old(p, new)
                 \/ link_new(p) \/ link_taken(p) \/ link_unlock(p) \/ link_bad(p)
          PROVE  UNCHANGED type
      BY <3>3 DEF disk, Call, ilock_panic, iput_lock, iput_if, iput_unref, namex, sys_open, sys_chdir,
         sys_close, create_exists, create_got, create_iget, create_fill, create_made, create_panic,
         unlink_none, unlink_lookup, unlink_full, unlink_bad, unlink_entry, unlink_count, link_old,
         link_new, link_taken, link_unlock, link_bad
    <3>4. CASE UNCHANGED vars
      BY <3>1, <3>4 DEF vars, disk
    <3>5. CASE Next
      BY <3>1, <3>2, <3>3, <3>5, Zenon DEF Next
    <3>6. QED
      BY <1>1, <3>4, <3>5
  <2>2. type' = [type EXCEPT ![Head(puts[p])] = "free"] /\ p \in freeing
    BY <2>1 DEF iput_free
  <2>3. Head(puts[p]) = i
    BY <1>1, <2>2 DEF InodeInv, Typed, OnDisk, Freed
  <2>4. Clear(q, i)
    BY <1>1, <2>2, <2>3 DEF InodeInv, Cleared
  <2>5. UNCHANGED <<cwd, fd, at, obj, pc, call>>
    BY <2>1 DEF iput_free, user, steps
  <2>6. QED
    BY <2>4, <2>5 DEF Clear, nameiparent
<1>2. InodeInv /\ [Next]_vars => [\A i \in Inum : Freed(i) => \A p \in Procs : Clear(p, i)']_vars
  BY <1>1
<1>3. QED
  BY <1>2, InodeInductive, PTL DEF Spec

(* RefsSound: every path through the system calls, and every order of the  *)
(* steps of several, leaves in each inode's reference count the number of  *)
(* pointers to it, and no inode locked by a process that has returned.     *)
THEOREM ReferencesExact == Spec => []RefsSound
<1>1. InodeInv /\ Marked => RefsSound
  <2> SUFFICES ASSUME InodeInv, Marked PROVE RefsSound
    OBVIOUS
  <2>1. TypeOK
    <3>1. OnDisk /\ InMemory /\ InCalls /\ freeing \subseteq Procs
      BY DEF InodeInv, Typed
    <3>2. \A p \in Procs : chosen[p] \in Inum \cup {0}
      BY DEF Marked, Inum
    <3>3. QED
      BY <3>1, <3>2 DEF OnDisk, InMemory, InCalls, TypeOK, Marked
  <2>2. \A i \in Inum : ref[i] = Cardinality(Pointers(i))
    BY DEF InodeInv, Counted
  <2>3. ASSUME NEW i \in Inum, lock[i] # 0 PROVE pc[lock[i]] # "idle" \/ lock[i] \in freeing
    <3>1. lock[i] \in Procs /\ i # 0
      <4>1. lock \in [Inum -> Procs \cup {0}]
        BY DEF InodeInv, Typed, InMemory
      <4>2. QED
        BY <2>3, <4>1 DEF Inum
    <3>2. Keeps(pc[lock[i]], at[lock[i]], obj[lock[i]]) = i \/ lock[i] \in freeing
      BY <3>1 DEF InodeInv, Locked, Frees
    <3>3. QED
      BY <3>1, <3>2 DEF Keeps
  <2>4. QED
    BY <2>1, <2>2, <2>3 DEF RefsSound, RefsExact
<1>2. QED
  BY <1>1, InodeInductive, PTL

-----------------------------------------------------------------------------
(* The names, and the inodes that create is about to name, lead away from  *)
(* the root: some rank of the inodes grows along each of them.             *)
Ranked(r) ==
  /\ \A d \in Inum, n \in Names : dir[d][n] # 0 => r[d] < r[dir[d][n]]
  /\ \A p \in Procs : pc[p] = "alloc" => r[at[p]] < r[chosen[p]]
  /\ \A p \in Procs : pc[p] = "new" => r[at[p]] < r[obj[p]]

HasRank == \E B \in Nat : \E r \in [Inum -> 0 .. B] : Ranked(r)

(* A step of p that enters no name but that of an inode create has made.   *)
Harmless(p) ==
  /\ \A d \in Inum, n \in Names :
       dir'[d][n] \in {0, dir[d][n]} \/ (pc[p] = "new" /\ d = at[p] /\ dir'[d][n] = obj[p])
  /\ \A q \in Procs \ {p} : pc'[q] = pc[q] /\ at'[q] = at[q] /\ obj'[q] = obj[q] /\ chosen'[q] = chosen[q]
  /\ \/ pc'[p] \notin {"alloc", "new"}
     \/ pc'[p] = "new" /\ pc[p] = "alloc" /\ at'[p] = at[p] /\ obj'[p] = chosen[p]
     \/ pc'[p] = pc[p] /\ at'[p] = at[p] /\ obj'[p] = obj[p] /\ chosen'[p] = chosen[p]

LEMMA HarmlessStep ==
  ASSUME HasRank, NEW p \in Procs, Harmless(p)
  PROVE  HasRank'
<1>1. PICK B \in Nat : \E r \in [Inum -> 0 .. B] : Ranked(r)
  BY DEF HasRank
<1>2. PICK r \in [Inum -> 0 .. B] : Ranked(r)
  BY <1>1
<1>3. ASSUME NEW d \in Inum, NEW n \in Names, dir'[d][n] # 0 PROVE r[d] < r[dir'[d][n]]
  BY <1>2, <1>3 DEF Ranked, Harmless
<1>4. ASSUME NEW q \in Procs
      PROVE  /\ pc'[q] = "alloc" => r[at'[q]] < r[chosen'[q]]
             /\ pc'[q] = "new" => r[at'[q]] < r[obj'[q]]
  BY <1>2 DEF Ranked, Harmless
<1>5. QED
  BY <1>3, <1>4 DEF HasRank, Ranked

LEMMA HigherRank ==
  ASSUME NEW B \in Nat, NEW r \in [Inum -> 0 .. B], NEW j \in Inum
  PROVE  /\ B + 1 \in Nat /\ [r EXCEPT ![j] = B + 1] \in [Inum -> 0 .. B + 1]
         /\ \A i \in Inum : i # j => [r EXCEPT ![j] = B + 1][i] = r[i]
         /\ \A i \in Inum : i # j => [r EXCEPT ![j] = B + 1][i] < [r EXCEPT ![j] = B + 1][j]
OBVIOUS

LEMMA EntryIsInode ==
  ASSUME Typed, NEW d \in Inum, NEW n \in Names, dir[d][n] # 0
  PROVE  dir[d][n] \in Inum
<1>1. dir \in [Inum -> [Names \cup Dots -> 0 .. NINODES]] /\ NINODES \in Nat
  BY InodeAssumption DEF Typed, OnDisk, InodeAssumption
<1>2. dir[d] \in [Names \cup Dots -> 0 .. NINODES]
  BY <1>1
<1>3. dir[d][n] \in 0 .. NINODES
  BY <1>2
<1>4. QED
  BY <1>1, <1>3 DEF Inum

(* What a process that creates works on is a directory, and in use.        *)
LEMMA CreatesInDir ==
  ASSUME InodeInv, NEW q \in Procs, pc[q] \in {"alloc", "new"}
  PROVE  at[q] \in Inum /\ type[at[q]] = "dir"
<1>1. /\ Typed /\ Placed(call[q], pc[q], at[q], obj[q], names[q]) /\ LearntBy(q)
      /\ NINODES \in Nat
  BY InodeAssumption DEF InodeInv, InPlace, Learnt, InodeAssumption
<1>2. call[q] \in {"create", "mkdir"} /\ at[q] # 0
  BY <1>1 DEF Placed
<1>3. type[at[q]] = "dir"
  BY <1>1, <1>2 DEF LearntBy, nameiparent
<1>4. at[q] \in 0 .. NINODES
  BY <1>1 DEF Typed, InCalls
<1>5. QED
  BY <1>1, <1>2, <1>3, <1>4 DEF Inum

LEMMA allocRank == ASSUME InodeInv, Marked, HasRank, NEW p \in Procs, create_alloc(p) PROVE HasRank'
<1>1. PICK B \in Nat : \E r \in [Inum -> 0 .. B] : Ranked(r)
  BY DEF HasRank
<1>2. PICK r \in [Inum -> 0 .. B] : Ranked(r)
  BY <1>1
<1>3. PICK ip \in Inum : /\ type[ip] = "free" /\ dir' = [dir EXCEPT ![ip] = Empty]
                         /\ chosen' = [chosen EXCEPT ![p] = ip]
  BY DEF create_alloc, Free
<1>4. At(p, "found") /\ call[p] \in {"create", "mkdir"} /\ pc' = [pc EXCEPT ![p] = "alloc"] /\ UNCHANGED <<at, obj>>
  BY DEF create_alloc, Goto
<1>5. PICK s \in [Inum -> 0 .. B + 1] : s = [r EXCEPT ![ip] = B + 1]
  BY HigherRank
<1>6. /\ \A i \in Inum : i # ip => s[i] = r[i]
      /\ \A i \in Inum : i # ip => s[i] < s[ip]
  BY <1>5, HigherRank
<1>7. Typed /\ OnlyDirs(type, dir) /\ at[p] \in Inum /\ type[at[p]] = "dir"
  BY <1>4, Facts DEF InodeInv, Placed, LearntBy, nameiparent
<1>8. ASSUME NEW d \in Inum, NEW n \in Names, dir'[d][n] # 0 PROVE s[d] < s[dir'[d][n]]
  <2>1. d # ip /\ dir'[d][n] = dir[d][n]
    BY <1>3, <1>7, <1>8 DEF Typed, OnDisk, Empty
  <2>2. dir[d][n] \in Inum
    BY <1>7, <1>8, <2>1, EntryIsInode
  <2>3. r[d] < r[dir[d][n]]
    BY <1>2, <1>8, <2>1 DEF Ranked
  <2>4. QED
    BY <1>6, <2>1, <2>2, <2>3
<1>9. ASSUME NEW q \in Procs, pc[q] \in {"alloc", "new"}
      PROVE  at[q] \in Inum /\ at[q] # ip
  BY <1>3, <1>9, CreatesInDir
<1>10. ASSUME NEW q \in Procs, pc'[q] = "alloc" PROVE s[at'[q]] < s[chosen'[q]]
  <2>1. CASE q = p
    BY <1>3, <1>4, <1>6, <1>7, <2>1 DEF Marked
  <2>2. CASE q # p
    <3>1. pc[q] = "alloc" /\ at'[q] = at[q] /\ chosen'[q] = chosen[q]
      BY <1>3, <1>4, <1>7, <1>10, <2>2 DEF Typed, InCalls, Marked
    <3>2. chosen[q] \in Inum /\ at[q] \in Inum /\ at[q] # ip /\ r[at[q]] < r[chosen[q]]
      BY <1>2, <1>9, <3>1 DEF Marked, Ranked, Inum
    <3>3. QED
      BY <1>6, <3>1, <3>2
  <2>3. QED
    BY <2>1, <2>2
<1>11. ASSUME NEW q \in Procs, pc'[q] = "new" PROVE s[at'[q]] < s[obj'[q]]
  <2>1. pc[q] = "new" /\ at'[q] = at[q] /\ obj'[q] = obj[q]
    BY <1>4, <1>7, <1>11 DEF Typed, InCalls
  <2>2. obj[q] \in Inum /\ at[q] \in Inum /\ at[q] # ip /\ r[at[q]] < r[obj[q]]
    BY <1>2, <1>7, <1>9, <2>1 DEF Ranked, InodeInv, InPlace, Placed, Typed, InCalls, Inum
  <2>3. QED
    BY <1>6, <2>1, <2>2
<1>12. B + 1 \in Nat /\ Ranked(s)'
  BY <1>8, <1>10, <1>11 DEF Ranked
<1>13. QED
  BY <1>12 DEF HasRank

LEMMA linkRank == ASSUME InodeInv, Marked, HasRank, NEW p \in Procs, link_new(p) PROVE HasRank'
<1>1. PICK B \in Nat : \E r \in [Inum -> 0 .. B] : Ranked(r)
  BY DEF HasRank
<1>2. PICK r \in [Inum -> 0 .. B] : Ranked(r)
  BY <1>1
<1>3. /\ At(p, "found") /\ call[p] = "link2" /\ dir' = [dir EXCEPT ![at[p]][Head(names[p])] = obj[p]]
      /\ pc' = [pc EXCEPT ![p] = "idle"] /\ at' = [at EXCEPT ![p] = 0] /\ obj' = [obj EXCEPT ![p] = 0]
      /\ UNCHANGED chosen
  BY DEF link_new, Return, Goto
<1>4. /\ Typed /\ OnlyDirs(type, dir) /\ at[p] \in Inum /\ type[at[p]] = "dir"
      /\ obj[p] \in Inum /\ type[obj[p]] = "file"
  BY <1>3, Facts DEF InodeInv, Placed, LearntBy, nameiparent
<1>5. PICK ip \in Inum : ip = obj[p]
  BY <1>4
<1>6. PICK s \in [Inum -> 0 .. B + 1] : s = [r EXCEPT ![ip] = B + 1]
  BY HigherRank
<1>7. /\ \A i \in Inum : i # ip => s[i] = r[i]
      /\ \A i \in Inum : i # ip => s[i] < s[ip]
  BY <1>6, HigherRank
<1>8. ASSUME NEW d \in Inum, NEW n \in Names, dir'[d][n] # 0 PROVE s[d] < s[dir'[d][n]]
  <2>1. dir'[d][n] \in {ip, dir[d][n]} /\ (d # at[p] => dir'[d][n] = dir[d][n])
    BY <1>3, <1>4, <1>5 DEF Typed, OnDisk
  <2>2. d # ip
    BY <1>4, <1>5, <1>8, <2>1 DEF OnlyDirs
  <2>3. CASE dir'[d][n] = ip
    BY <1>7, <2>2, <2>3
  <2>4. CASE dir'[d][n] = dir[d][n] /\ dir[d][n] # ip
    <3>1. dir[d][n] \in Inum
      BY <1>4, <1>8, <2>4, EntryIsInode
    <3>2. r[d] < r[dir[d][n]]
      BY <1>2, <1>8, <2>4 DEF Ranked
    <3>3. QED
      BY <1>7, <2>2, <2>4, <3>1, <3>2
  <2>5. QED
    BY <2>1, <2>3, <2>4
<1>9. ASSUME NEW q \in Procs, pc'[q] \in {"alloc", "new"}
      PROVE  /\ pc'[q] = pc[q] /\ at'[q] = at[q] /\ obj'[q] = obj[q] /\ chosen'[q] = chosen[q]
             /\ at[q] \in Inum /\ at[q] # ip
  <2>1. q # p /\ pc'[q] = pc[q] /\ at'[q] = at[q] /\ obj'[q] = obj[q] /\ chosen'[q] = chosen[q]
    BY <1>3, <1>4, <1>9 DEF Typed, InCalls
  <2>2. at[q] \in Inum /\ at[q] # ip
    BY <1>4, <1>5, <1>9, <2>1, CreatesInDir
  <2>3. QED
    BY <2>1, <2>2
<1>10. ASSUME NEW q \in Procs, pc'[q] = "alloc" PROVE s[at'[q]] < s[chosen'[q]]
  <2>1. chosen[q] \in Inum /\ r[at[q]] < r[chosen[q]]
    BY <1>2, <1>9, <1>10 DEF Marked, Ranked, Inum
  <2>2. QED
    BY <1>7, <1>9, <1>10, <2>1
<1>11. ASSUME NEW q \in Procs, pc'[q] = "new" PROVE s[at'[q]] < s[obj'[q]]
  <2>1. obj[q] \in Inum /\ r[at[q]] < r[obj[q]]
    BY <1>2, <1>4, <1>9, <1>11 DEF Ranked, InodeInv, InPlace, Placed, Typed, InCalls, Inum
  <2>2. QED
    BY <1>7, <1>9, <1>11, <2>1
<1>12. B + 1 \in Nat /\ Ranked(s)'
  BY <1>8, <1>10, <1>11 DEF Ranked
<1>13. QED
  BY <1>12 DEF HasRank

LEMMA RankInit == Init => HasRank
<1> SUFFICES ASSUME Init PROVE HasRank
  OBVIOUS
<1>1. PICK t \in Trees : type = t.type /\ dir = t.dir
  BY DEF Init
<1>2. NINODES \in Nat /\ NoCycles(t.type, t.dir)
  BY InodeAssumption DEF InodeAssumption
<1>3. PICK r \in [Inum -> 0 .. NINODES] : \A d \in Inum, n \in Names : dir[d][n] # 0 => r[d] < r[dir[d][n]]
  BY <1>1, <1>2 DEF NoCycles
<1>4. Ranked(r)
  BY <1>3 DEF Init, Ranked
<1>5. QED
  BY <1>2, <1>4 DEF HasRank

LEMMA RankNext == InodeInv /\ Marked /\ HasRank /\ [Next]_vars => HasRank'
<1> SUFFICES ASSUME InodeInv, Marked, HasRank, [Next]_vars PROVE HasRank'
  OBVIOUS
<1>1. Typed /\ chosen \in [Procs -> 0 .. NINODES]
  BY DEF InodeInv, Marked
<1>2. CASE UNCHANGED vars
  BY <1>2 DEF vars, disk, steps, HasRank, Ranked
<1>3. ASSUME NEW p \in Procs, UNCHANGED chosen,
             UNCHANGED dir, UNCHANGED at \/ (\E i : at' = [at EXCEPT ![p] = i]),
             UNCHANGED obj \/ (\E i : obj' = [obj EXCEPT ![p] = i]),
             \E l : l \notin {"alloc", "new"} /\ pc' = [pc EXCEPT ![p] = l]
      PROVE  HasRank'
  <2>1. Harmless(p)
    BY <1>1, <1>3 DEF Harmless, Typed, OnDisk, InCalls
  <2>2. QED
    BY <2>1, HarmlessStep
<1>4. ASSUME NEW p \in Procs,
             ilock_panic(p) \/ iput_lock(p) \/ iput_unref(p) \/ sys_close(p) \/ create_panic(p)
      PROVE  HasRank'
  <2>1. UNCHANGED <<dir, pc, at, obj, chosen>>
    BY <1>4 DEF ilock_panic, iput_lock, iput_if, iput_unref, sys_close, create_panic, steps, disk
  <2>2. Harmless(p)
    BY <2>1 DEF Harmless
  <2>3. QED
    BY <2>2, HarmlessStep
<1>5. ASSUME NEW p \in Procs, iput_free(p) PROVE HasRank'
  <2>1. PICK i : i = Head(puts[p])
    OBVIOUS
  <2>2. UNCHANGED <<pc, at, obj, chosen>> /\ dir' = [dir EXCEPT ![i] = Empty]
    BY <1>5, <2>1 DEF iput_free, steps
  <2>3. \A d \in Inum, n \in Names : dir'[d][n] \in {0, dir[d][n]}
    BY <1>1, <2>2 DEF Typed, OnDisk, Empty
  <2>4. Harmless(p)
    BY <2>2, <2>3 DEF Harmless
  <2>5. QED
    BY <2>4, HarmlessStep
<1>6. ASSUME NEW p \in Procs, create_iget(p) PROVE HasRank'
  <2>1. /\ At(p, "alloc") /\ UNCHANGED <<dir, at>> /\ obj' = [obj EXCEPT ![p] = chosen[p]]
        /\ chosen' = [chosen EXCEPT ![p] = 0] /\ pc' = [pc EXCEPT ![p] = "new"]
    BY <1>6 DEF create_iget, Goto, disk
  <2>2. Harmless(p)
    BY <1>1, <2>1 DEF Harmless, Typed, InCalls, At
  <2>3. QED
    BY <2>2, HarmlessStep
<1>7. ASSUME NEW p \in Procs, create_fill(p) PROVE HasRank'
  <2>1. PICK dp, ip, n : dp = at[p] /\ ip = obj[p] /\ n = Head(names[p])
    OBVIOUS
  <2>2. PICK f : f = [dir[ip] EXCEPT !["."] = ip, ![".."] = dp]
    OBVIOUS
  <2>3. /\ At(p, "new") /\ at' = [at EXCEPT ![p] = ip] /\ obj' = [obj EXCEPT ![p] = 0] /\ UNCHANGED chosen
        /\ pc' = [pc EXCEPT ![p] = "made"]
        /\ dir' = [dir EXCEPT ![ip] = IF kind(p) = "dir" THEN f ELSE @, ![dp][n] = ip]
    BY <1>7, <2>1, <2>2 DEF create_fill, Goto
  <2>4. dp \in Inum /\ ip \in Inum
    BY <2>1, <2>3, Facts DEF Placed
  <2>5. "." \notin Names /\ ".." \notin Names
    BY InodeAssumption DEF InodeAssumption, Dots
  <2>6. dir[ip] \in [Names \cup Dots -> 0 .. NINODES] /\ \A x \in Names : f[x] = dir[ip][x]
    BY <1>1, <2>2, <2>4, <2>5 DEF Typed, OnDisk
  <2>7. PICK g : g = IF kind(p) = "dir" THEN f ELSE dir[ip]
    OBVIOUS
  <2>8. DOMAIN g = Names \cup Dots /\ \A x \in Names : g[x] = dir[ip][x]
    BY <2>2, <2>6, <2>7
  <2>9. dir' = [[dir EXCEPT ![ip] = g] EXCEPT ![dp][n] = ip]
    BY <1>1, <2>3, <2>4, <2>7 DEF Typed, OnDisk
  <2>10. PICK D : D = [dir EXCEPT ![ip] = g]
    OBVIOUS
  <2>11. DOMAIN D = Inum /\ \A d \in Inum : DOMAIN D[d] = Names \cup Dots
    BY <1>1, <2>4, <2>8, <2>10 DEF Typed, OnDisk
  <2>12. \A d \in Inum, x \in Names : D[d][x] = dir[d][x]
    BY <1>1, <2>4, <2>8, <2>10 DEF Typed, OnDisk
  <2>13. \A d \in Inum, x \in Names : dir'[d][x] = IF d = dp /\ x = n THEN ip ELSE D[d][x]
    BY <2>4, <2>9, <2>10, <2>11
  <2>14. Harmless(p)
    <3>1. \A d \in Inum, x \in Names :
            dir'[d][x] \in {0, dir[d][x]} \/ (pc[p] = "new" /\ d = at[p] /\ dir'[d][x] = obj[p])
      <4>1. ASSUME NEW d \in Inum, NEW x \in Names
            PROVE  dir'[d][x] \in {0, dir[d][x]} \/ (pc[p] = "new" /\ d = at[p] /\ dir'[d][x] = obj[p])
        <5>1. D[d][x] = dir[d][x] /\ dir'[d][x] = IF d = dp /\ x = n THEN ip ELSE D[d][x]
          BY <2>12, <2>13
        <5>2. pc[p] = "new"
          BY <2>3 DEF At
        <5>3. CASE d = dp /\ x = n
          BY <2>1, <5>1, <5>2, <5>3
        <5>4. CASE ~(d = dp /\ x = n)
          BY <5>1, <5>4
        <5>5. QED
          BY <5>3, <5>4
      <4>2. QED
        BY <4>1, Zenon
    <3>2. \A q \in Procs \ {p} : pc'[q] = pc[q] /\ at'[q] = at[q] /\ obj'[q] = obj[q] /\ chosen'[q] = chosen[q]
      BY <1>1, <2>3 DEF Typed, InCalls
    <3>3. pc'[p] = "made"
      BY <1>1, <2>3 DEF Typed, InCalls
    <3>4. QED
      BY <3>1, <3>2, <3>3 DEF Harmless
  <2>15. QED
    BY <2>14, HarmlessStep
<1>8. ASSUME NEW p \in Procs, unlink_entry(p) PROVE HasRank'
  <2>1. /\ dir' = [dir EXCEPT ![at[p]][Head(names[p])] = 0] /\ at' = [at EXCEPT ![p] = 0]
        /\ pc' = [pc EXCEPT ![p] = "unl_count"] /\ UNCHANGED <<obj, chosen>>
    BY <1>8 DEF unlink_entry, Goto
  <2>2. \A d \in Inum, n \in Names : dir'[d][n] \in {0, dir[d][n]}
    BY <1>1, <2>1 DEF Typed, OnDisk
  <2>3. Harmless(p)
    BY <1>1, <2>1, <2>2 DEF Harmless, Typed, InCalls
  <2>4. QED
    BY <2>3, HarmlessStep
<1>9. ASSUME NEW p \in Procs,
             \/ \E c \in {"open", "create", "mkdir", "link", "unlink", "chdir"}, path \in Paths : Call(p, c, path)
             \/ \E new \in Paths : link_old(p, new)
             \/ namex(p) \/ sys_open(p) \/ sys_chdir(p) \/ create_exists(p) \/ create_got(p) \/ create_made(p)
      PROVE  HasRank'
  <2>1. UNCHANGED <<dir, chosen>>
    BY <1>9 DEF Call, link_old, namex, NotFound, sys_open, sys_chdir, create_exists, create_got, create_made,
                Open, Return, disk
  <2>2. /\ UNCHANGED at \/ \E i : at' = [at EXCEPT ![p] = i]
        /\ UNCHANGED obj \/ \E i : obj' = [obj EXCEPT ![p] = i]
    BY <1>9 DEF Call, link_old, namex, NotFound, sys_open, sys_chdir, create_exists, create_got, create_made,
                Open, Return
  <2>3. \E l : l \notin {"alloc", "new"} /\ pc' = [pc EXCEPT ![p] = l]
    BY <1>9 DEF Call, link_old, namex, NotFound, sys_open, sys_chdir, create_exists, create_got, create_made,
                Open, Return, Goto
  <2>4. QED
    BY <1>3, <2>1, <2>2, <2>3
<1>10. ASSUME NEW p \in Procs,
             \/ unlink_none(p) \/ unlink_lookup(p) \/ unlink_full(p) \/ unlink_bad(p) \/ unlink_count(p)
             \/ link_taken(p) \/ link_unlock(p) \/ link_bad(p)
      PROVE  HasRank'
  <2>1. UNCHANGED <<dir, chosen>>
    BY <1>10 DEF unlink_none, unlink_lookup, unlink_full, unlink_bad, unlink_count, link_taken, link_unlock,
                 link_bad, Return, disk
  <2>2. /\ UNCHANGED at \/ \E i : at' = [at EXCEPT ![p] = i]
        /\ UNCHANGED obj \/ \E i : obj' = [obj EXCEPT ![p] = i]
    BY <1>10 DEF unlink_none, unlink_lookup, unlink_full, unlink_bad, unlink_count, link_taken, link_unlock,
                 link_bad, Return
  <2>3. \E l : l \notin {"alloc", "new"} /\ pc' = [pc EXCEPT ![p] = l]
    BY <1>10 DEF unlink_none, unlink_lookup, unlink_full, unlink_bad, unlink_count, link_taken, link_unlock,
                 link_bad, Return, Goto
  <2>4. QED
    BY <1>3, <2>1, <2>2, <2>3
<1>11. CASE Next
  BY <1>4, <1>5, <1>6, <1>7, <1>8, <1>9, <1>10, <1>11, allocRank, linkRank, Zenon DEF Next
<1>12. QED
  BY <1>2, <1>11

(* Among finitely many ranks there is a highest one.                       *)
LEMMA HighestRank ==
  ASSUME NEW B \in Nat, NEW T \in SUBSET (0 .. B), T # {}
  PROVE  \E m \in T : \A k \in T : k <= m
<1> DEFINE U == {B - k : k \in T}
<1>1. U \in SUBSET Nat /\ U # {}
  <2>1. \A k \in T : k \in 0 .. B
    OBVIOUS
  <2>2. \A k \in T : B - k \in Nat
    BY <2>1
  <2>3. PICK k \in T : TRUE
    OBVIOUS
  <2>4. B - k \in U
    BY <2>3
  <2>5. QED
    BY <2>2, <2>4
<1>2. PICK u \in U : \A k \in U : u <= k
  BY <1>1, LeastNatural
<1>3. PICK m \in T : u = B - m
  OBVIOUS
<1>4. \A k \in T : B - m <= B - k /\ k \in 0 .. B /\ m \in 0 .. B
  BY <1>2, <1>3
<1>5. QED
  BY <1>4

(* StuckInIput: of processes that wait for each other's locks, however     *)
(* many they are, one has called iput with another inode locked.           *)
THEOREM DeadlocksAreOfIput == Spec => []StuckInIput
<1>1. InodeInv /\ Marked /\ HasRank => StuckInIput
  <2> SUFFICES ASSUME InodeInv, HasRank, NEW D \in SUBSET Procs, Stuck(D),
                      \A p \in D : puts[p] # <<>> => \A i \in Inum : lock[i] # p
               PROVE  FALSE
    BY DEF StuckInIput
  <2>1. PICK B \in Nat : \E r \in [Inum -> 0 .. B] : Ranked(r)
    BY DEF HasRank
  <2>2. PICK r \in [Inum -> 0 .. B] : Ranked(r)
    BY <2>1
  <2>3. Typed /\ 0 \notin Procs /\ 0 \notin Inum
    BY InodeAssumption DEF InodeInv, InodeAssumption, Inum
  <2>4. ASSUME NEW p \in D PROVE Needs(p) \in Inum
    <3>1. Needs(p) # 0 /\ NINODES \in Nat
      BY InodeAssumption DEF Stuck, InodeAssumption
    <3>2. puts[p] \in Seq(Inum) /\ at[p] \in 0 .. NINODES /\ obj[p] \in 0 .. NINODES
      BY <2>3 DEF Typed, InCalls
    <3>3. CASE puts[p] # <<>>
      <4>1. Head(puts[p]) \in Inum
        BY <3>2, <3>3
      <4>2. QED
        BY <3>1, <3>3, <4>1 DEF Needs
    <3>4. CASE puts[p] = <<>>
      BY <3>1, <3>2, <3>4 DEF Needs, Inum
    <3>5. QED
      BY <3>3, <3>4
  <2> DEFINE Holders == {p \in D : \E i \in Inum : lock[i] = p}
  <2>5. ASSUME NEW p \in Holders
        PROVE  /\ at[p] \in Inum /\ Needs(p) \in Inum /\ lock[Needs(p)] \in Holders
               /\ lock[at[p]] = p /\ r[at[p]] < r[Needs(p)]
               /\ \A i \in Inum : lock[i] = p => i = at[p]
    <3>1. puts[p] = <<>> /\ p \in Procs /\ p \notin freeing /\ Needs(p) # 0
      BY <2>5 DEF Stuck, Needs
    <3>2. PICK i \in Inum : lock[i] = p
      OBVIOUS
    <3>3. Keeps(pc[p], at[p], obj[p]) = i
      BY <3>1, <3>2 DEF InodeInv, Locked, Frees
    <3>4. pc[p] \in {"unl", "new"} /\ Needs(p) = obj[p] /\ i = at[p]
      BY <2>3, <3>1, <3>2, <3>3 DEF Needs, Keeps
    <3>5. Needs(p) \in Inum /\ lock[Needs(p)] \in D
      BY <2>4 DEF Stuck
    <3>6. r[at[p]] < r[obj[p]]
      <4>1. CASE pc[p] = "new"
        BY <2>2, <3>1, <4>1 DEF Ranked
      <4>2. CASE pc[p] = "unl"
        <5>1. Head(names[p]) \in Names /\ dir[at[p]][Head(names[p])] = obj[p] /\ obj[p] # 0
          BY <3>1, <3>4, <4>2 DEF InodeInv, Learnt, LearntBy
        <5>2. QED
          BY <2>2, <3>4, <5>1 DEF Ranked
      <4>3. QED
        BY <3>4, <4>1, <4>2
    <3>7. \A j \in Inum : lock[j] = p => j = at[p]
      BY <3>1, <3>3, <3>4 DEF InodeInv, Locked, Frees
    <3>8. QED
      BY <3>2, <3>4, <3>5, <3>6, <3>7
  <2> DEFINE T == {r[at[p]] : p \in Holders}
  <2>6. T \in SUBSET (0 .. B) /\ T # {}
    <3>1. PICK p \in D : lock[Needs(p)] \in D /\ Needs(p) \in Inum
      BY <2>4 DEF Stuck
    <3>2. lock[Needs(p)] \in Holders
      BY <3>1
    <3>3. QED
      BY <2>5, <3>2
  <2>7. PICK m \in T : \A k \in T : k <= m
    BY <2>6, HighestRank
  <2>8. PICK p \in Holders : m = r[at[p]]
    OBVIOUS
  <2>9. PICK q : q = lock[Needs(p)]
    OBVIOUS
  <2>10. q \in Holders /\ Needs(p) = at[q] /\ r[at[p]] < r[at[q]]
    BY <2>5, <2>8, <2>9
  <2>11. r[at[q]] <= m /\ r[at[q]] \in Int /\ m \in Int
    BY <2>6, <2>7, <2>10
  <2>12. QED
    BY <2>8, <2>10, <2>11
<1>2. Init => HasRank
  BY RankInit
<1>3. QED
  BY <1>1, <1>2, RankNext, InodeInductive, PTL DEF Spec

=============================================================================
