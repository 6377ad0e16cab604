----------------------------- MODULE MmapProofs -----------------------------
(* Proofs about Mmap for any number of processes and pages, any window and *)
(* any bound of calls: which pages may be free and mapped, shared or lost, *)
(* and that mappings and guard pages stay apart.                           *)
EXTENDS Mmap, FiniteSetTheorems, FunctionTheorems, SequenceTheorems, WellFoundedInduction, TLAPS

Frames == {None, NoRam, PageZero} \cup Pages
Flags == {"SHARED", "ANONYMOUS", "FIXED", "GROWSUP"}
Entry == [flags : SUBSET Flags, numPages : Nat, start : Nat, guard : Nat, isValid : BOOLEAN]
Task == [entry : Nat, va : Nat, left : Nat, temp : Nat, child : 0 .. NPROC]
Scan == [page : Frames, at : 0 .. NPROC + 1]

-----------------------------------------------------------------------------
(* The inductive invariant. *)
Types ==
  /\ state \in [Procs -> States] /\ mapEntries \in [Procs -> Seq(Entry)]
  /\ pte \in [Procs -> [Window -> Frames]] /\ tables \subseteq Procs
  /\ task \in [Procs -> Task] /\ scan \in [Procs -> Scan]
  /\ freelist \in Seq(Pages) /\ content \in [Pages -> {Junk} \cup Data]
  /\ tlb \in [Procs -> [Window -> Frames]] /\ calls \in 0 .. MaxCalls
  /\ halted \in {"no", "panic", "corrupt"} /\ bent \subseteq Procs
  /\ kind \in [Pages -> {"none", "private", "shared"}]

(* What a slot that is not in use still has, and who is in a call. *)
SlotOK(p) ==
  /\ state[p] \in {"UNUSED", "EMBRYO", "ZOMBIE"} \/ p \notin tables =>
       \A va \in Window : pte[p][va] = None
  /\ state[p] \in {"UNUSED", "EMBRYO"} => mapEntries[p] = <<>> /\ p \notin bent
  /\ state[p] \in {"munmap", "exit"} \/ scan[p] = NoScan
  /\ Len(mapEntries[p]) <= calls

Slots == \A p \in Procs : SlotOK(p)

(* Each fork has a slot of its own, and one at a time copies. *)
Forking(p) == state[p] \in {"fork", "copy"}

Forks ==
  /\ \A p \in Procs : Forking(p) =>
       /\ task[p].child \in Procs
       /\ state[task[p].child] = IF state[p] = "fork" THEN "EMBRYO" ELSE "new"
  /\ \A p, q \in Procs : Forking(p) /\ Forking(q) /\ p # q => task[p].child # task[q].child
  /\ \A p, q \in Procs : state[p] = "copy" /\ state[q] = "copy" => p = q
  /\ \A p \in Procs : state[p] = "fork" => task[p].entry = 0 /\ task[p].left = 0

(* Every page is accounted for. *)
NoLeak ==
  \A g \in Pages \ lost :
    \/ \E i \in 1 .. Len(freelist) : freelist[i] = g
    \/ \E p \in Procs, v \in Window : pte[p][v] = g
    \/ \E p \in Procs : scan[p].page = g

(* The free list holds a page once, and no page that somebody has. *)
FreeOnce ==
  \A i, j \in 1 .. Len(freelist) : freelist[i] = freelist[j] /\ freelist[i] \notin torn => i = j

FreeUnmapped ==
  \A i \in 1 .. Len(freelist), p \in Procs, v \in Window :
    freelist[i] \notin torn => pte[p][v] # freelist[i]

FreeUnscanned ==
  \A i \in 1 .. Len(freelist), p \in Procs : freelist[i] \notin torn => scan[p].page # freelist[i]

(* A page is searched once, and no slot that the search has passed has it *)
(* unless a later one has it too.                                         *)
SearchOK(p) ==
  scan[p].page \in Pages \ torn =>
    /\ \A q \in Procs : scan[q].page = scan[p].page => q = p
    /\ \A q \in Procs, v \in Window : pte[q][v] = scan[p].page =>
         \E r \in Procs, w \in Window : r >= scan[p].at /\ pte[r][w] = scan[p].page

Searching == \A p \in Procs : SearchOK(p)

(* A page is mapped at one address only, however many processes share it. *)
SameAddress ==
  \A p, q \in Procs, v, w \in Window :
    pte[p][v] = pte[q][w] /\ pte[p][v] \in Pages \ torn => v = w

SharedKind ==
  \A p, q \in Procs \ bent, v \in Window :
    pte[p][v] = pte[q][v] /\ p # q /\ pte[p][v] \in Pages \ torn => kind[pte[p][v]] = "shared"

PageInv ==
  /\ NoLeak /\ FreeOnce /\ FreeUnmapped /\ FreeUnscanned /\ Searching
  /\ SameAddress /\ SharedKind

(* A mapping lies in the window with its guard page behind it. *)
InPlace(e) ==
  /\ e.start >= 1 /\ e.numPages >= 1 /\ e.start + e.numPages <= NWINDOW + 1
  /\ "GROWSUP" \in e.flags => e.guard # 0
  /\ e.guard # 0 => e.guard = e.start + e.numPages /\ e.guard \in Window

Placed(p) == \A i \in Valid(p) : InPlace(mapEntries[p][i])

Apart(p) ==
  \A i, j \in Valid(p) :
    i # j => Territory(mapEntries[p][i]) \cap Territory(mapEntries[p][j]) = {}

GuardsFree(p) ==
  \A i \in Valid(p) : mapEntries[p][i].guard # 0 => pte[p][mapEntries[p][i].guard] = None

(* The pages of a mapping are there, but for those munmap has cleared. *)
Filled(p) ==
  state[p] \notin {"exit", "ZOMBIE"} =>
    \A i \in Valid(p) : \A v \in Extent(mapEntries[p][i]) :
      pte[p][v] # None \/ (state[p] = "munmap" /\ i = task[p].entry /\ v < task[p].va)

(* What fork will share was allocated for a shared mapping. *)
Kinds(p) ==
  \A i \in Valid(p) : "SHARED" \in mapEntries[p][i].flags =>
    \A v \in Extent(mapEntries[p][i]) :
      pte[p][v] \in Pages \ torn => kind[pte[p][v]] = "shared"

Unmaps(p) ==
  state[p] = "munmap" =>
    /\ task[p].entry \in Valid(p) /\ task[p].va >= mapEntries[p][task[p].entry].start
    /\ p \notin bent => task[p].va + task[p].left <=
         mapEntries[p][task[p].entry].start + mapEntries[p][task[p].entry].numPages

MapsOK(p) ==
  /\ Placed(p) /\ Unmaps(p)
  /\ p \notin bent => Apart(p) /\ GuardsFree(p) /\ Filled(p) /\ Kinds(p)

Maps == \A p \in Procs : MapsOK(p)

(* What the child of a fork has so far. *)
CopyOf(p, c) ==
  /\ p \in bent => c \in bent
  /\ Len(mapEntries[c]) <= task[p].entry /\ task[p].entry <= Len(mapEntries[p])
  /\ \A i \in 1 .. Len(mapEntries[c]) :
       /\ mapEntries[c][i].isValid
       /\ \E j \in Valid(p) : j <= task[p].entry /\ mapEntries[p][j] = mapEntries[c][i]
  /\ \A v \in Window : pte[c][v] # None =>
       \E i \in 1 .. Len(mapEntries[c]) : v \in Extent(mapEntries[c][i])
  /\ task[p].left > 0 =>
       /\ task[p].va >= 1 /\ task[p].va + task[p].left <= NWINDOW + 1
       /\ task[p].temp >= 1 /\ task[p].temp + task[p].left <= NWINDOW + 1

Copying == \A p, c \in Procs : state[p] = "copy" /\ task[p].child = c => CopyOf(p, c)

MmapInv == Types /\ Slots /\ Forks /\ PageInv /\ Maps /\ Copying

-----------------------------------------------------------------------------
(* The free list: what kalloc takes and what is left. *)
LEMMA Frame == None \notin Pages /\ NoRam \notin Pages /\ PageZero \notin Pages
BY MmapAssumption DEF MmapAssumption, Pages, None, NoRam, PageZero

LEMMA Sizes == NPROC \in Nat /\ NWINDOW \in Nat /\ NPAGES \in Nat /\ MaxCalls \in Nat /\ Excess \in Nat
BY MmapAssumption DEF MmapAssumption

LEMMA Dropped ==
  ASSUME freelist \in Seq(Pages), NEW n \in Nat, n <= Len(freelist)
  PROVE  /\ Drop(freelist, n) \in Seq(Pages)
         /\ Len(Drop(freelist, n)) = Len(freelist) - n
         /\ \A i \in 1 .. Len(freelist) - n : Drop(freelist, n)[i] = freelist[i + n]
BY DEF Drop

LEMMA TakenIs ==
  ASSUME freelist \in Seq(Pages), NEW n \in Nat, n <= Len(freelist)
  PROVE  \A g : g \in Taken(n) <=> \E i \in 1 .. n : freelist[i] = g
<1>1. DOMAIN freelist = 1 .. Len(freelist) /\ Len(freelist) \in Nat
  OBVIOUS
<1>2. \A i : i \in (1 .. n) \cap DOMAIN freelist <=> i \in 1 .. n
  BY <1>1
<1>3. QED
  BY <1>2, Zenon DEF Taken

-----------------------------------------------------------------------------
(* What the steps do to pages.                                             *)

(* The first n free pages are mapped at va. *)
Takes(q, va, n, k) ==
  /\ n \in Nat /\ n <= Len(freelist) /\ va \in Window /\ va + n <= NWINDOW + 1
  /\ \A w \in va .. va + n - 1 : pte[q][w] = None
  /\ \A p \in Procs, w \in Window :
       pte'[p][w] = IF p = q /\ w \in va .. va + n - 1 THEN freelist[w - va + 1] ELSE pte[p][w]
  /\ freelist' = Drop(freelist, n)
  /\ kind' = [g \in Pages |-> IF g \in Taken(n) THEN k ELSE kind[g]]
  /\ UNCHANGED <<scan, torn, lost, bent>>

LEMMA TakesPages ==
  ASSUME Types, PageInv, NEW q \in Procs, NEW va, NEW n, NEW k, Takes(q, va, n, k)
  PROVE  PageInv'
<1>0. /\ freelist \in Seq(Pages) /\ Len(freelist) \in Nat /\ n \in Nat /\ n <= Len(freelist)
      /\ va \in Nat /\ va >= 1 /\ va + n <= NWINDOW + 1 /\ NWINDOW \in Nat
      /\ \A i \in 1 .. Len(freelist) : freelist[i] \in Pages
  BY Sizes DEF Types, Takes, Window
<1>1. /\ Len(freelist') = Len(freelist) - n
      /\ \A i \in 1 .. Len(freelist') : freelist'[i] = freelist[i + n] /\ i + n \in 1 .. Len(freelist)
  <2>1. freelist' = Drop(freelist, n)
    BY DEF Takes
  <2>2. /\ Len(freelist') = Len(freelist) - n
        /\ \A i \in 1 .. Len(freelist) - n : freelist'[i] = freelist[i + n]
    BY <1>0, <2>1, Dropped, Zenon
  <2>3. QED
    BY <1>0, <2>2
<1>2. ASSUME NEW w \in Window, w \in va .. va + n - 1
      PROVE  pte'[q][w] = freelist[w - va + 1] /\ w - va + 1 \in 1 .. n /\ w - va + 1 \in 1 .. Len(freelist)
  BY <1>0, <1>2 DEF Takes, Window
<1>3. \A p \in Procs, w \in Window : ~(p = q /\ w \in va .. va + n - 1) => pte'[p][w] = pte[p][w]
  BY Zenon DEF Takes
<1>4. \A i \in 1 .. n : va + i - 1 \in Window /\ va + i - 1 \in va .. va + n - 1
        /\ pte'[q][va + i - 1] = freelist[i]
  <2>1. ASSUME NEW i \in 1 .. n PROVE va + i - 1 \in Window /\ va + i - 1 \in va .. va + n - 1
    BY <1>0 DEF Window
  <2>2. ASSUME NEW i \in 1 .. n PROVE (va + i - 1) - va + 1 = i
    BY <1>0
  <2>3. QED
    BY <2>1, <2>2, <1>2
<1>5. NoLeak'
  <2> SUFFICES ASSUME NEW g \in Pages, g \notin lost,
                      ~\E i \in 1 .. Len(freelist') : freelist'[i] = g,
                      ~\E p \in Procs : scan[p].page = g
               PROVE  \E p \in Procs, v \in Window : pte'[p][v] = g
    BY DEF NoLeak, Takes
  <2>1. CASE \E i \in 1 .. Len(freelist) : freelist[i] = g
    <3>1. PICK i \in 1 .. Len(freelist) : freelist[i] = g
      BY <2>1
    <3>2. CASE i <= n
      <4>1. i \in 1 .. n
        BY <3>2, <1>0
      <4>2. QED
        BY <4>1, <3>1, <1>4
    <3>3. CASE i > n
      <4>1. i - n \in 1 .. Len(freelist') /\ (i - n) + n = i
        BY <3>3, <1>0, <1>1
      <4>2. QED
        BY <4>1, <3>1, <1>1
    <3>4. QED
      BY <3>2, <3>3, <1>0
  <2>2. CASE \E p \in Procs, v \in Window : pte[p][v] = g
    <3>1. PICK p \in Procs, v \in Window : pte[p][v] = g
      BY <2>2
    <3>2. ~(p = q /\ v \in va .. va + n - 1)
      BY <3>1, Frame DEF Takes
    <3>3. QED
      BY <3>1, <3>2, <1>3
  <2>3. QED
    BY <2>1, <2>2 DEF PageInv, NoLeak
<1>6. FreeOnce'
  BY <1>0, <1>1 DEF PageInv, FreeOnce, Takes
<1>7. FreeUnmapped'
  <2> SUFFICES ASSUME NEW i \in 1 .. Len(freelist'), NEW p \in Procs, NEW v \in Window,
                      freelist'[i] \notin torn, pte'[p][v] = freelist'[i]
               PROVE  FALSE
    BY DEF FreeUnmapped, Takes
  <2>1. freelist'[i] = freelist[i + n] /\ i + n \in 1 .. Len(freelist)
    BY <1>1
  <2>2. CASE p = q /\ v \in va .. va + n - 1
    <3>1. freelist[v - va + 1] = freelist[i + n] /\ v - va + 1 \in 1 .. n /\ v - va + 1 \in 1 .. Len(freelist)
      BY <2>1, <2>2, <1>2
    <3>2. v - va + 1 = i + n
      BY <3>1, <2>1 DEF PageInv, FreeOnce
    <3>3. QED
      BY <3>1, <3>2, <1>0
  <2>3. CASE ~(p = q /\ v \in va .. va + n - 1)
    BY <2>1, <2>3, <1>3 DEF PageInv, FreeUnmapped
  <2>4. QED
    BY <2>2, <2>3
<1>8. FreeUnscanned'
  BY <1>0, <1>1 DEF PageInv, FreeUnscanned, Takes
<1>9. Searching'
  <2> SUFFICES ASSUME NEW p \in Procs, scan[p].page \in Pages \ torn
               PROVE  /\ \A r \in Procs : scan[r].page = scan[p].page => r = p
                      /\ \A r \in Procs, v \in Window : pte'[r][v] = scan[p].page =>
                           \E s \in Procs, w \in Window : s >= scan[p].at /\ pte'[s][w] = scan[p].page
    BY DEF Searching, SearchOK, Takes
  <2>1. SearchOK(p)
    BY DEF PageInv, Searching
  <2>2. \A r \in Procs, v \in Window : pte[r][v] = scan[p].page => pte'[r][v] = pte[r][v]
    BY <1>3, Frame DEF Takes
  <2>3. ASSUME NEW r \in Procs, NEW v \in Window, pte'[r][v] = scan[p].page
        PROVE  pte[r][v] = scan[p].page
    <3>1. CASE r = q /\ v \in va .. va + n - 1
      BY <3>1, <2>3, <1>2 DEF PageInv, FreeUnscanned
    <3>2. QED
      BY <3>1, <2>3, <1>3
  <2>4. QED
    BY <2>1, <2>2, <2>3 DEF SearchOK
<1>10. ASSUME NEW p \in Procs, NEW v \in Window, NEW r \in Procs, NEW w \in Window,
              pte'[p][v] = pte'[r][w], pte'[p][v] \in Pages \ torn,
              p = q, v \in va .. va + n - 1
       PROVE  r = q /\ w = v
  <2>1. pte'[p][v] = freelist[v - va + 1] /\ v - va + 1 \in 1 .. Len(freelist)
    BY <1>2, <1>10
  <2>2. CASE r = q /\ w \in va .. va + n - 1
    <3>1. pte'[r][w] = freelist[w - va + 1] /\ w - va + 1 \in 1 .. Len(freelist)
      BY <1>2, <2>2
    <3>2. v - va + 1 = w - va + 1
      BY <3>1, <2>1, <1>10 DEF PageInv, FreeOnce
    <3>3. QED
      BY <3>2, <2>2, <1>0 DEF Window
  <2>3. CASE ~(r = q /\ w \in va .. va + n - 1)
    <3>1. pte'[r][w] = pte[r][w] /\ freelist[v - va + 1] \notin torn
      BY <2>1, <2>3, <1>3, <1>10, Zenon
    <3>2. pte[r][w] # freelist[v - va + 1]
      BY <3>1, <2>1, Zenon DEF PageInv, FreeUnmapped
    <3>3. QED
      BY <3>1, <3>2, <2>1, <1>10, Zenon
  <2>4. QED
    BY <2>2, <2>3
<1>11. SameAddress'
  <2> SUFFICES ASSUME NEW p \in Procs, NEW v \in Window, NEW r \in Procs, NEW w \in Window,
                      pte'[p][v] = pte'[r][w], pte'[p][v] \in Pages \ torn
               PROVE  v = w
    BY DEF SameAddress, Takes
  <2>1. CASE ~(p = q /\ v \in va .. va + n - 1) /\ ~(r = q /\ w \in va .. va + n - 1)
    <3>1. pte'[p][v] = pte[p][v] /\ pte'[r][w] = pte[r][w]
      BY <2>1, <1>3
    <3>2. QED
      BY <3>1 DEF PageInv, SameAddress
  <2>2. QED
    BY <2>1, <1>10
<1>12. SharedKind'
  <2> SUFFICES ASSUME NEW p \in Procs \ bent, NEW r \in Procs \ bent, NEW v \in Window,
                      pte'[p][v] = pte'[r][v], p # r, pte'[p][v] \in Pages \ torn
               PROVE  kind'[pte'[p][v]] = "shared"
    BY DEF SharedKind, Takes
  <2>1. ~(p = q /\ v \in va .. va + n - 1) /\ ~(r = q /\ v \in va .. va + n - 1)
    BY <1>10
  <2>2. pte'[p][v] = pte[p][v] /\ pte'[r][v] = pte[r][v]
    BY <2>1, <1>3
  <2>3. pte[p][v] \notin Taken(n)
    <3>1. \A i \in 1 .. n : freelist[i] # pte[p][v]
      BY <1>0, <2>2 DEF PageInv, FreeUnmapped
    <3>2. QED
      BY <3>1, <1>0, TakenIs
  <2>4. kind[pte[p][v]] = "shared"
    BY <2>2 DEF PageInv, SharedKind
  <2>5. QED
    BY <2>2, <2>3, <2>4 DEF Takes
<1>13. QED
  BY <1>5, <1>6, <1>7, <1>8, <1>9, <1>11, <1>12 DEF PageInv

(* The first n free pages are forgotten. *)
LEMMA LosesPages ==
  ASSUME Types, PageInv, NEW n \in Nat, n <= Len(freelist), Lose(n),
         UNCHANGED <<pte, scan, torn, kind>>, bent \subseteq bent'
  PROVE  PageInv'
<1>0. /\ freelist \in Seq(Pages) /\ Len(freelist) \in Nat
      /\ \A i \in 1 .. Len(freelist) : freelist[i] \in Pages
  BY DEF Types
<1>1. /\ Len(freelist') = Len(freelist) - n
      /\ \A i \in 1 .. Len(freelist') : freelist'[i] = freelist[i + n] /\ i + n \in 1 .. Len(freelist)
  <2>1. freelist' = Drop(freelist, n)
    BY DEF Lose
  <2>2. /\ Len(freelist') = Len(freelist) - n
        /\ \A i \in 1 .. Len(freelist) - n : freelist'[i] = freelist[i + n]
    BY <1>0, <2>1, Dropped, Zenon
  <2>3. QED
    BY <1>0, <2>2
<1>2. NoLeak'
  <2> SUFFICES ASSUME NEW g \in Pages, g \notin lost',
                      ~\E i \in 1 .. Len(freelist') : freelist'[i] = g
               PROVE  (\E p \in Procs, v \in Window : pte[p][v] = g)
                      \/ (\E p \in Procs : scan[p].page = g)
    BY DEF NoLeak
  <2>1. ASSUME NEW i \in 1 .. Len(freelist), freelist[i] = g PROVE FALSE
    <3>1. CASE i <= n
      <4>1. i \in 1 .. n
        BY <3>1
      <4>2. g \in Taken(n)
        BY <4>1, <2>1, <1>0, TakenIs
      <4>3. QED
        BY <4>2 DEF Lose
    <3>2. CASE i > n
      <4>1. i - n \in 1 .. Len(freelist') /\ (i - n) + n = i
        BY <3>2, <1>0, <1>1
      <4>2. QED
        BY <4>1, <2>1, <1>1
    <3>3. QED
      BY <3>1, <3>2, <1>0
  <2>2. QED
    BY <2>1 DEF PageInv, NoLeak, Lose
<1>3. FreeOnce'
  BY <1>0, <1>1 DEF PageInv, FreeOnce
<1>4. FreeUnmapped'
  BY <1>0, <1>1 DEF PageInv, FreeUnmapped
<1>5. FreeUnscanned'
  BY <1>0, <1>1 DEF PageInv, FreeUnscanned
<1>6. Searching' /\ SameAddress' /\ SharedKind'
  BY DEF PageInv, Searching, SearchOK, SameAddress, SharedKind
<1>7. QED
  BY <1>2, <1>3, <1>4, <1>5, <1>6 DEF PageInv

(* A step that leaves the pages alone: no process becomes sound again that *)
(* has pages.                                                              *)
KeepsPages ==
  /\ UNCHANGED <<pte, freelist, scan, torn, lost, kind>>
  /\ \A p \in Procs : p \in bent /\ p \notin bent' => \A v \in Window : pte[p][v] = None

LEMMA KeptPages ==
  ASSUME Types, PageInv, KeepsPages
  PROVE  PageInv'
<1>1. NoLeak' /\ FreeOnce' /\ FreeUnmapped' /\ FreeUnscanned' /\ SameAddress'
  BY DEF PageInv, KeepsPages, NoLeak, FreeOnce, FreeUnmapped, FreeUnscanned, SameAddress
<1>2. Searching'
  BY DEF PageInv, KeepsPages, Searching, SearchOK
<1>3. SharedKind'
  BY Frame DEF PageInv, KeepsPages, SharedKind
<1>4. QED
  BY <1>1, <1>2, <1>3 DEF PageInv

(* clearpte drops a translation, and its page is searched for. *)
LEMMA ClearsPage ==
  ASSUME Types, PageInv, NEW p \in Procs, NEW va \in Window, NEW t, ClearPte(p, va, t),
         scan[p] = NoScan
  PROVE  PageInv'
<1> DEFINE g == pte[p][va]
<1>1. \A q \in Procs, v \in Window : pte'[q][v] = IF q = p /\ v = va THEN None ELSE pte[q][v]
  BY DEF Types, ClearPte
<1>2. \A q \in Procs : /\ scan'[q].page = IF q = p THEN g ELSE scan[q].page
                       /\ scan'[q].at = IF q = p THEN 1 ELSE scan[q].at
  BY DEF Types, ClearPte
<1>3. scan[p].page = None /\ None \notin Pages
  BY Frame DEF NoScan
<1>4. torn \subseteq torn' /\ (g \notin torn' => \A q \in Procs : scan[q].page # g)
  BY DEF ClearPte, Scanners
<1>5. UNCHANGED <<freelist, lost, kind, bent>>
  BY DEF ClearPte, memory
<1> HIDE DEF g
<1>a. g = pte[p][va]
  BY DEF g
<1>6. NoLeak'
  <2> SUFFICES ASSUME NEW h \in Pages, h \notin lost,
                      ~\E i \in 1 .. Len(freelist) : freelist[i] = h,
                      ~\E q \in Procs : scan'[q].page = h
               PROVE  \E q \in Procs, v \in Window : pte'[q][v] = h
    BY <1>5 DEF NoLeak
  <2>1. h # g
    BY <1>2
  <2>2. ~\E q \in Procs : scan[q].page = h
    BY <1>2, <1>3
  <2>3. PICK q \in Procs, v \in Window : pte[q][v] = h
    BY <2>2 DEF PageInv, NoLeak
  <2>4. pte'[q][v] = h
    BY <2>1, <2>3, <1>1, <1>a
  <2>5. QED
    BY <2>4
<1>7. FreeOnce'
  BY <1>4, <1>5 DEF PageInv, FreeOnce
<1>8. FreeUnmapped'
  <2> SUFFICES ASSUME NEW i \in 1 .. Len(freelist), NEW q \in Procs, NEW v \in Window,
                      freelist[i] \notin torn', pte'[q][v] = freelist[i]
               PROVE  FALSE
    BY <1>5 DEF FreeUnmapped
  <2>1. freelist[i] \in Pages
    BY DEF Types
  <2>2. pte[q][v] = freelist[i]
    BY <2>1, <1>1, <1>3
  <2>3. QED
    BY <2>2, <1>4 DEF PageInv, FreeUnmapped
<1>9. FreeUnscanned'
  <2> SUFFICES ASSUME NEW i \in 1 .. Len(freelist), NEW q \in Procs,
                      freelist[i] \notin torn', scan'[q].page = freelist[i]
               PROVE  FALSE
    BY <1>5 DEF FreeUnscanned
  <2>1. CASE q = p
    BY <2>1, <1>2, <1>4, <1>a DEF PageInv, FreeUnmapped
  <2>2. CASE q # p
    BY <2>2, <1>2, <1>4 DEF PageInv, FreeUnscanned
  <2>3. QED
    BY <2>1, <2>2
<1>10. Searching'
  <2> SUFFICES ASSUME NEW q \in Procs, scan'[q].page \in Pages \ torn'
               PROVE  SearchOK(q)'
    <3>1. (\A q \in Procs : SearchOK(q)') => Searching'
      BY Zenon DEF Searching
    <3>2. ASSUME NEW q \in Procs, scan'[q].page \notin Pages \ torn' PROVE SearchOK(q)'
      BY <3>2 DEF SearchOK
    <3>3. QED
      BY <3>1, <3>2, Zenon
  <2>1. CASE q = p
    <3>1. \A r \in Procs : scan'[r].page = g => r = p
      BY <2>1, <1>2, <1>4
    <3>2. \A r \in Procs : r >= 1
      BY DEF Procs
    <3>3. QED
      BY <2>1, <3>1, <3>2, <1>2 DEF SearchOK
  <2>2. CASE q # p
    <3>1. scan'[q].page = scan[q].page /\ scan'[q].at = scan[q].at
      BY <2>2, <1>2
    <3>2. scan[q].page # g
      BY <3>1, <1>4
    <3>3. \A r \in Procs : scan'[r].page = scan[q].page => scan[r].page = scan[q].page
      BY <3>2, <1>2
    <3>4. \A r \in Procs, v \in Window : pte'[r][v] = scan[q].page <=> pte[r][v] = scan[q].page
      BY <3>2, <3>1, <1>1, <1>3, <1>a
    <3>5. SearchOK(q) /\ scan[q].page \in Pages \ torn
      BY <3>1, <1>4 DEF PageInv, Searching
    <3>6. QED
      BY <3>1, <3>3, <3>4, <3>5 DEF SearchOK
  <2>3. QED
    BY <2>1, <2>2
<1>11. SameAddress'
  BY <1>1, <1>3, <1>4 DEF PageInv, SameAddress
<1>12. SharedKind'
  BY <1>1, <1>3, <1>4, <1>5 DEF PageInv, SharedKind
<1>13. QED
  BY <1>6, <1>7, <1>8, <1>9, <1>10, <1>11, <1>12 DEF PageInv

(* A search ends where somebody has the page, or goes on. *)
ScanEnds(p) ==
  /\ scan' = [scan EXCEPT ![p] = NoScan]
  /\ UNCHANGED <<pte, freelist, torn, kind, bent>>
  /\ lost \subseteq lost'
  /\ \/ \E q \in Procs, v \in Window : pte[q][v] = scan[p].page
     \/ scan[p].page \in lost'
     \/ \E q \in Procs : q # p /\ scan[q].page = scan[p].page

LEMMA EndsScan ==
  ASSUME Types, PageInv, NEW p \in Procs, ScanEnds(p)
  PROVE  PageInv'
<1>1. \A q \in Procs : scan'[q].page = (IF q = p THEN None ELSE scan[q].page)
                       /\ scan'[q].at = IF q = p THEN 0 ELSE scan[q].at
  BY DEF Types, ScanEnds, NoScan
<1>2. UNCHANGED <<pte, freelist, torn, kind, bent>>
  BY DEF ScanEnds
<1>3. NoLeak'
  <2> SUFFICES ASSUME NEW g \in Pages, g \notin lost',
                      ~\E i \in 1 .. Len(freelist) : freelist[i] = g,
                      ~\E q \in Procs : scan'[q].page = g
               PROVE  \E q \in Procs, v \in Window : pte[q][v] = g
    BY <1>2 DEF NoLeak
  <2>1. (\E q \in Procs, v \in Window : pte[q][v] = g) \/ \E q \in Procs : scan[q].page = g
    BY DEF PageInv, NoLeak, ScanEnds
  <2>2. ASSUME NEW q \in Procs, scan[q].page = g PROVE \E r \in Procs, v \in Window : pte[r][v] = g
    <3>1. q = p
      BY <2>2, <1>1
    <3>2. \A r \in Procs : r # p => scan[r].page # g
      BY <1>1
    <3>3. QED
      BY <2>2, <3>1, <3>2 DEF ScanEnds
  <2>3. QED
    BY <2>1, <2>2
<1>4. FreeOnce' /\ FreeUnmapped' /\ SameAddress' /\ SharedKind'
  BY <1>2 DEF PageInv, FreeOnce, FreeUnmapped, SameAddress, SharedKind
<1>5. FreeUnscanned'
  <2>1. \A i \in 1 .. Len(freelist) : freelist[i] # None
    BY Frame DEF Types
  <2>2. QED
    BY <1>1, <1>2, <2>1 DEF PageInv, FreeUnscanned
<1>6. Searching'
  <2>1. \A q \in Procs : SearchOK(q)
    BY DEF PageInv, Searching
  <2>2. ASSUME NEW q \in Procs PROVE SearchOK(q)'
    BY <2>1, <1>1, <1>2, Frame DEF SearchOK
  <2>3. QED
    BY <2>2, Zenon DEF Searching
<1>7. QED
  BY <1>3, <1>4, <1>5, <1>6 DEF PageInv

LEMMA GoesOn ==
  ASSUME Types, PageInv, NEW p \in Procs, scan[p].at \in Procs,
         \A q \in Procs : scan'[q].page = scan[q].page
                         /\ scan'[q].at = IF q = p THEN scan[p].at + 1 ELSE scan[q].at,
         scan[p].page \in Pages => \A v \in Window : pte[scan[p].at][v] # scan[p].page,
         UNCHANGED <<pte, freelist, torn, lost, kind, bent>>
  PROVE  PageInv'
<1>1. \A q \in Procs : scan'[q].page = scan[q].page
                       /\ scan'[q].at = IF q = p THEN scan[p].at + 1 ELSE scan[q].at
  OBVIOUS
<1>2. NoLeak' /\ FreeOnce' /\ FreeUnmapped' /\ FreeUnscanned' /\ SameAddress' /\ SharedKind'
  BY <1>1 DEF PageInv, NoLeak, FreeOnce, FreeUnmapped, FreeUnscanned, SameAddress, SharedKind
<1>3. ASSUME NEW q \in Procs PROVE SearchOK(q)'
  <2>1. SearchOK(q)
    BY DEF PageInv, Searching
  <2>2. CASE q # p
    BY <2>1, <2>2, <1>1 DEF SearchOK
  <2>3. CASE q = p
    <3>1. \A r \in Procs : r >= scan[p].at /\ r # scan[p].at => r >= scan[p].at + 1
      BY DEF Procs
    <3>2. QED
      BY <2>1, <2>3, <3>1, <1>1 DEF SearchOK
  <2>4. QED
    BY <2>2, <2>3
<1>4. QED
  BY <1>2, <1>3, Zenon DEF PageInv, Searching

(* kfree puts the page that was searched in vain in front of the others. *)
LEMMA FreesPage ==
  ASSUME Types, PageInv, NEW p \in Procs, scan[p].at > NPROC, scan[p].page \in Pages,
         \A i \in 1 .. Len(freelist) : freelist[i] # scan[p].page,
         freelist' = <<scan[p].page>> \o freelist,
         scan' = [scan EXCEPT ![p] = NoScan],
         UNCHANGED <<pte, torn, lost, kind, bent>>
  PROVE  PageInv'
<1> DEFINE g == scan[p].page
<1>1. \A q \in Procs : scan'[q].page = (IF q = p THEN None ELSE scan[q].page)
                       /\ scan'[q].at = IF q = p THEN 0 ELSE scan[q].at
  BY DEF Types, NoScan
<1>2. /\ Len(freelist) \in Nat /\ Len(freelist') = Len(freelist) + 1 /\ freelist'[1] = g
      /\ \A i \in 2 .. Len(freelist') : freelist'[i] = freelist[i - 1] /\ i - 1 \in 1 .. Len(freelist)
      /\ \A i \in 1 .. Len(freelist) : freelist[i] \in Pages
  BY DEF Types
<1>3. g \notin torn => \A q \in Procs, v \in Window : pte[q][v] # g
  <2>1. SearchOK(p)
    BY DEF PageInv, Searching
  <2>2. \A r \in Procs : ~(r >= scan[p].at)
    BY Sizes DEF Procs, Types, Scan
  <2>3. QED
    BY <2>1, <2>2 DEF SearchOK
<1>4. g \notin torn => \A q \in Procs : scan'[q].page # g
  <2>1. SearchOK(p)
    BY DEF PageInv, Searching
  <2>2. QED
    BY <2>1, <1>1, Frame DEF SearchOK
<1> HIDE DEF g
<1>5. NoLeak'
  <2> SUFFICES ASSUME NEW h \in Pages, h \notin lost,
                      ~\E i \in 1 .. Len(freelist') : freelist'[i] = h
               PROVE  (\E q \in Procs, v \in Window : pte[q][v] = h)
                      \/ \E q \in Procs : scan'[q].page = h
    BY DEF NoLeak
  <2>1. h # g
    BY <1>2
  <2>2. ASSUME NEW i \in 1 .. Len(freelist) PROVE freelist[i] # h
    <3>1. i + 1 \in 2 .. Len(freelist') /\ i + 1 \in 1 .. Len(freelist') /\ (i + 1) - 1 = i
      BY <1>2
    <3>2. QED
      BY <3>1, <1>2
  <2>3. QED
    BY <2>1, <2>2, <1>1 DEF PageInv, NoLeak, g
<1>6. FreeOnce'
  <2>1. \A i \in 2 .. Len(freelist') : freelist'[i] # g
    BY <1>2 DEF g
  <2>2. ASSUME NEW i \in 1 .. Len(freelist'), NEW j \in 1 .. Len(freelist'),
               freelist'[i] = freelist'[j], freelist'[i] \notin torn
        PROVE  i = j
    <3>1. CASE i = 1 \/ j = 1
      BY <3>1, <2>1, <2>2, <1>2
    <3>2. CASE i \in 2 .. Len(freelist') /\ j \in 2 .. Len(freelist')
      <4>1. i - 1 = j - 1
        BY <3>2, <2>2, <1>2 DEF PageInv, FreeOnce
      <4>2. QED
        BY <4>1
    <3>3. QED
      BY <3>1, <3>2, <1>2
  <2>3. QED
    BY <2>2 DEF FreeOnce
<1>7. FreeUnmapped'
  BY <1>2, <1>3 DEF PageInv, FreeUnmapped
<1>8. FreeUnscanned'
  BY <1>1, <1>2, <1>4, Frame DEF PageInv, FreeUnscanned
<1>9. SameAddress' /\ SharedKind'
  BY DEF PageInv, SameAddress, SharedKind
<1>10. Searching'
  <2>1. \A q \in Procs : SearchOK(q)
    BY DEF PageInv, Searching
  <2>2. ASSUME NEW q \in Procs PROVE SearchOK(q)'
    BY <2>1, <1>1, Frame DEF SearchOK
  <2>3. QED
    BY <2>2, Zenon DEF Searching
<1>11. QED
  BY <1>5, <1>6, <1>7, <1>8, <1>9, <1>10 DEF PageInv

(* kalloc gives a page that is not in the memory. *)
LEMMA TakesNothing ==
  ASSUME Types, PageInv, NEW p \in Procs, NEW va \in Window, pte[p][va] = None,
         pte' = [pte EXCEPT ![p][va] = NoRam], freelist = <<>>, freelist' = <<>>,
         kind' = kind, UNCHANGED <<scan, torn, lost, bent>>
  PROVE  PageInv'
<1>1. \A q \in Procs, v \in Window, g \in Pages : pte'[q][v] = g <=> pte[q][v] = g
  BY Frame DEF Types
<1>2. NoLeak' /\ FreeOnce' /\ FreeUnmapped' /\ FreeUnscanned'
  BY <1>1 DEF PageInv, NoLeak, FreeOnce, FreeUnmapped, FreeUnscanned
<1>3. SameAddress' /\ SharedKind'
  BY <1>1 DEF PageInv, SameAddress, SharedKind
<1>4. ASSUME NEW q \in Procs PROVE SearchOK(q)'
  BY <1>1 DEF PageInv, Searching, SearchOK
<1>5. QED
  BY <1>2, <1>3, <1>4, Zenon DEF PageInv, Searching

(* kalloc has run out of pages, and all are given back. *)
LEMMA GivesBack ==
  ASSUME Types, PageInv, freelist' = Reverse(freelist),
         UNCHANGED <<pte, scan, torn, kind, lost>>, bent \subseteq bent'
  PROVE  PageInv'
<1>1. /\ Len(freelist) \in Nat /\ Len(freelist') = Len(freelist)
      /\ \A i \in 1 .. Len(freelist) : freelist'[i] = freelist[Len(freelist) - i + 1]
                                       /\ Len(freelist) - i + 1 \in 1 .. Len(freelist)
  BY DEF Types, Reverse
<1>2. ASSUME NEW i \in 1 .. Len(freelist)
      PROVE  \E j \in 1 .. Len(freelist') : freelist'[j] = freelist[i]
  <2>1. Len(freelist) - i + 1 \in 1 .. Len(freelist)
        /\ Len(freelist) - (Len(freelist) - i + 1) + 1 = i
    BY <1>1
  <2>2. QED
    BY <2>1, <1>1
<1>3. NoLeak'
  <2> SUFFICES ASSUME NEW g \in Pages, g \notin lost,
                      ~\E i \in 1 .. Len(freelist') : freelist'[i] = g
               PROVE  (\E p \in Procs, v \in Window : pte[p][v] = g)
                      \/ (\E p \in Procs : scan[p].page = g)
    BY DEF NoLeak
  <2>1. QED
    BY <1>2 DEF PageInv, NoLeak
<1>4. FreeOnce' /\ FreeUnmapped' /\ FreeUnscanned'
  <2>1. ASSUME NEW i \in 1 .. Len(freelist'), NEW j \in 1 .. Len(freelist'),
               freelist'[i] = freelist'[j], freelist'[i] \notin torn
        PROVE  i = j
    <3>1. Len(freelist) - i + 1 = Len(freelist) - j + 1
      BY <2>1, <1>1 DEF PageInv, FreeOnce
    <3>2. QED
      BY <3>1, <1>1
  <2>2. FreeOnce'
    BY <2>1 DEF FreeOnce
  <2>3. FreeUnmapped'
    BY <1>1 DEF PageInv, FreeUnmapped
  <2>4. FreeUnscanned'
    BY <1>1 DEF PageInv, FreeUnscanned
  <2>5. QED
    BY <2>2, <2>3, <2>4
<1>5. Searching' /\ SameAddress' /\ SharedKind'
  BY DEF PageInv, Searching, SearchOK, SameAddress, SharedKind
<1>6. QED
  BY <1>3, <1>4, <1>5 DEF PageInv

(* exec frees each page of its window, and each once. *)
LEMMA DownwardsAll ==
  ASSUME Types, NEW p \in Procs, NEW vas \in Downwards(p)
  PROVE  \E n \in Nat :
           /\ DOMAIN vas = 1 .. n
           /\ \A i \in 1 .. n : vas[i] \in Window /\ pte[p][vas[i]] # None
           /\ \A i, j \in 1 .. n : vas[i] = vas[j] => i = j
           /\ \A va \in Window : pte[p][va] # None => \E i \in 1 .. n : vas[i] = va
<1> DEFINE used == {va \in Window : pte[p][va] # None}
           n == Cardinality(used)
<1>1. IsFiniteSet(used) /\ n \in Nat
  <2>1. IsFiniteSet(Window)
    BY FS_Interval, Sizes DEF Window
  <2>2. IsFiniteSet(used)
    BY <2>1, FS_Subset
  <2>3. QED
    BY <2>2, FS_CardinalityType
<1>2. vas \in [1 .. n -> used] /\ \A i, j \in 1 .. n : i < j => vas[i] > vas[j]
  BY DEF Downwards
<1>3. \A i \in 1 .. n : vas[i] \in used
  BY <1>2
<1>4. \A i, j \in 1 .. n : vas[i] = vas[j] => i = j
  <2>1. \A i \in 1 .. n : vas[i] \in Nat
    BY <1>3 DEF Window
  <2>2. QED
    BY <2>1, <1>1, <1>2
<1> HIDE DEF used, n
<1>5. vas \in Injection(1 .. n, used)
  BY <1>2, <1>4 DEF Injection, IsInjective
<1>6. Cardinality(1 .. n) = n
  BY <1>1, FS_Interval
<1>7. vas \in Surjection(1 .. n, used)
  BY <1>1, <1>5, <1>6, FS_Injection DEF n
<1>8. \A va \in used : \E i \in 1 .. n : vas[i] = va
  BY <1>7 DEF Surjection
<1>9. QED
  BY <1>1, <1>2, <1>3, <1>4, <1>8 DEF used

LEMMA Joined ==
  ASSUME NEW S, NEW s \in Seq(S), NEW t \in Seq(S)
  PROVE  /\ Len(s \o t) = Len(s) + Len(t)
         /\ \A i \in 1 .. Len(s) + Len(t) : (s \o t)[i] = IF i <= Len(s) THEN s[i] ELSE t[i - Len(s)]
OBVIOUS

Frees(p) ==
  /\ \A q \in Procs, v \in Window : pte'[q][v] = IF q = p THEN None ELSE pte[q][v]
  /\ \E vas \in Downwards(p) : freelist' = [i \in DOMAIN vas |-> pte[p][vas[i]]] \o freelist
  /\ \A v \in Window : pte[p][v] \in Pages \cup {None}
  /\ \A v \in Window, i \in 1 .. Len(freelist) : freelist[i] # pte[p][v]
  /\ \A g : g \in torn' <=> g \in torn \/ \E v \in Window :
       /\ pte[p][v] = g /\ g # None
       /\ \/ \E q \in Procs, w \in Window : q # p /\ pte[q][w] = g
          \/ \E q \in Procs : scan[q].page = g
  /\ UNCHANGED <<scan, lost, kind>> /\ bent \subseteq bent'

LEMMA FreesAll ==
  ASSUME Types, PageInv, NEW p \in Procs, Frees(p)
  PROVE  PageInv' /\ freelist' \in Seq(Pages)
<1>1. PICK vas \in Downwards(p) : freelist' = [i \in DOMAIN vas |-> pte[p][vas[i]]] \o freelist
  BY DEF Frees
<1>2. PICK n \in Nat :
        /\ DOMAIN vas = 1 .. n
        /\ \A i \in 1 .. n : vas[i] \in Window /\ pte[p][vas[i]] # None
        /\ \A i, j \in 1 .. n : vas[i] = vas[j] => i = j
        /\ \A va \in Window : pte[p][va] # None => \E i \in 1 .. n : vas[i] = va
  BY DownwardsAll
<1> DEFINE pages == [i \in 1 .. n |-> pte[p][vas[i]]]
<1>3. /\ pages \in Seq(Pages) /\ Len(pages) = n /\ freelist' = pages \o freelist
      /\ \A i \in 1 .. n : pages[i] = pte[p][vas[i]]
  <2>1. \A i \in 1 .. n : pte[p][vas[i]] \in Pages
    BY <1>2 DEF Frees
  <2>2. pages \in [1 .. n -> Pages]
    BY <2>1
  <2>3. freelist' = pages \o freelist
    BY <1>1, <1>2
  <2>4. QED
    BY <2>2, <2>3, <1>2
<1> HIDE DEF pages
<1>4. /\ freelist \in Seq(Pages) /\ Len(freelist) \in Nat /\ Len(freelist') = n + Len(freelist)
      /\ \A i \in 1 .. n : freelist'[i] = pte[p][vas[i]]
      /\ \A i \in n + 1 .. Len(freelist') : freelist'[i] = freelist[i - n] /\ i - n \in 1 .. Len(freelist)
      /\ \A i \in 1 .. Len(freelist) : freelist[i] \in Pages
  <2>1. freelist \in Seq(Pages)
    BY DEF Types
  <2>2. n \in Nat
    BY <1>2
  <2>3. /\ Len(freelist') = n + Len(freelist)
        /\ \A i \in 1 .. n + Len(freelist) :
             freelist'[i] = IF i <= n THEN pages[i] ELSE freelist[i - n]
    BY <1>3, <2>1, <2>2, Joined
  <2>4. QED
    BY <1>3, <2>1, <2>2, <2>3
<1>5. \A i \in 1 .. Len(freelist') : i \in 1 .. n \/ i \in n + 1 .. Len(freelist')
  BY <1>2, <1>4
<1>6. \A q \in Procs, v \in Window : pte'[q][v] = IF q = p THEN None ELSE pte[q][v]
  BY Zenon DEF Frees
<1>7. UNCHANGED <<scan, lost, kind>> /\ bent \subseteq bent' /\ torn \subseteq torn'
  BY DEF Frees
<1>8. NoLeak'
  <2> SUFFICES ASSUME NEW g \in Pages, g \notin lost,
                      ~\E i \in 1 .. Len(freelist') : freelist'[i] = g,
                      ~\E q \in Procs : scan[q].page = g
               PROVE  \E q \in Procs, v \in Window : pte'[q][v] = g
    BY <1>7 DEF NoLeak
  <2>1. ASSUME NEW i \in 1 .. Len(freelist) PROVE freelist[i] # g
    <3>1. i + n \in n + 1 .. Len(freelist') /\ i + n \in 1 .. Len(freelist') /\ (i + n) - n = i
      BY <1>2, <1>4
    <3>2. QED
      BY <3>1, <1>4
  <2>2. PICK q \in Procs, v \in Window : pte[q][v] = g
    BY <2>1 DEF PageInv, NoLeak
  <2>3. q # p
    <3>1. SUFFICES ASSUME q = p PROVE FALSE
      OBVIOUS
    <3>2. PICK i \in 1 .. n : vas[i] = v
      BY <3>1, <2>2, <1>2, Frame
    <3>3. i \in 1 .. Len(freelist') /\ freelist'[i] = g
      BY <3>1, <3>2, <2>2, <1>2, <1>4
    <3>4. QED
      BY <3>3
  <2>4. QED
    BY <2>2, <2>3, <1>6
<1>9. \A i \in 1 .. n : freelist'[i] \notin torn' =>
        /\ \A q \in Procs, v \in Window : q # p => pte[q][v] # freelist'[i]
        /\ \A q \in Procs : scan[q].page # freelist'[i]
  <2> SUFFICES ASSUME NEW i \in 1 .. n, freelist'[i] \notin torn'
               PROVE  /\ \A q \in Procs, v \in Window : q # p => pte[q][v] # freelist'[i]
                      /\ \A q \in Procs : scan[q].page # freelist'[i]
    OBVIOUS
  <2>1. freelist'[i] = pte[p][vas[i]] /\ vas[i] \in Window /\ pte[p][vas[i]] # None
    BY <1>2, <1>4
  <2>2. \A g, v : v \in Window /\ pte[p][v] = g /\ g # None /\ g \notin torn' =>
          /\ \A q \in Procs, w \in Window : q # p => pte[q][w] # g
          /\ \A q \in Procs : scan[q].page # g
    <3>1. \A g : g \notin torn' => ~ \E v \in Window :
            /\ pte[p][v] = g /\ g # None
            /\ \/ \E q \in Procs, w \in Window : q # p /\ pte[q][w] = g
               \/ \E q \in Procs : scan[q].page = g
      BY DEF Frees
    <3>2. QED
      BY <3>1
  <2>3. QED
    BY <2>1, <2>2
<1>10. FreeOnce'
  <2> SUFFICES ASSUME NEW i \in 1 .. Len(freelist'), NEW j \in 1 .. Len(freelist'),
                      freelist'[i] = freelist'[j], freelist'[i] \notin torn'
               PROVE  i = j
    BY DEF FreeOnce
  <2>1. CASE i \in 1 .. n /\ j \in 1 .. n
    <3>1. vas[i] = vas[j]
      <4>1. pte[p][vas[i]] = pte[p][vas[j]] /\ pte[p][vas[i]] \in Pages \ torn
            /\ vas[i] \in Window /\ vas[j] \in Window
        BY <2>1, <1>2, <1>4, <1>7 DEF Frees
      <4>2. QED
        BY <4>1 DEF PageInv, SameAddress
    <3>2. QED
      BY <3>1, <2>1, <1>2
  <2>2. CASE i \in n + 1 .. Len(freelist') /\ j \in n + 1 .. Len(freelist')
    <3>1. i - n = j - n
      BY <2>2, <1>4, <1>7 DEF PageInv, FreeOnce
    <3>2. QED
      BY <3>1, <1>2
  <2>3. ASSUME NEW k \in 1 .. n, NEW m \in n + 1 .. Len(freelist') PROVE freelist'[k] # freelist'[m]
    <3>1. freelist'[k] = pte[p][vas[k]] /\ vas[k] \in Window
      BY <1>2, <1>4
    <3>2. freelist'[m] = freelist[m - n] /\ m - n \in 1 .. Len(freelist)
      BY <1>4
    <3>3. freelist[m - n] # pte[p][vas[k]]
      BY <3>1, <3>2, Zenon DEF Frees
    <3>4. QED
      BY <3>1, <3>2, <3>3
  <2>4. QED
    BY <2>1, <2>2, <2>3, <1>5
<1>11. FreeUnmapped'
  <2> SUFFICES ASSUME NEW i \in 1 .. Len(freelist'), NEW q \in Procs, NEW v \in Window,
                      freelist'[i] \notin torn', pte'[q][v] = freelist'[i]
               PROVE  FALSE
    BY DEF FreeUnmapped
  <2>0. freelist'[i] \in Pages
    <3>1. CASE i \in 1 .. n
      <4>1. freelist'[i] = pte[p][vas[i]] /\ vas[i] \in Window /\ pte[p][vas[i]] # None
        BY <3>1, <1>2, <1>4
      <4>2. pte[p][vas[i]] \in Pages \cup {None}
        BY <4>1, Zenon DEF Frees
      <4>3. QED
        BY <4>1, <4>2
    <3>2. CASE i \in n + 1 .. Len(freelist')
      BY <3>2, <1>4
    <3>3. QED
      BY <3>1, <3>2, <1>5
  <2>1. q # p /\ pte[q][v] = freelist'[i]
    BY <2>0, <1>6, Frame
  <2>2. CASE i \in 1 .. n
    BY <2>1, <2>2, <1>9
  <2>3. CASE i \in n + 1 .. Len(freelist')
    BY <2>1, <2>3, <1>4, <1>7 DEF PageInv, FreeUnmapped
  <2>4. QED
    BY <2>2, <2>3, <1>5
<1>12. FreeUnscanned'
  <2> SUFFICES ASSUME NEW i \in 1 .. Len(freelist'), NEW q \in Procs,
                      freelist'[i] \notin torn', scan[q].page = freelist'[i]
               PROVE  FALSE
    BY <1>7 DEF FreeUnscanned
  <2>2. CASE i \in 1 .. n
    BY <2>2, <1>9
  <2>3. CASE i \in n + 1 .. Len(freelist')
    BY <2>3, <1>4, <1>7 DEF PageInv, FreeUnscanned
  <2>4. QED
    BY <2>2, <2>3, <1>5
<1>13. ASSUME NEW q \in Procs PROVE SearchOK(q)'
  <2> SUFFICES ASSUME scan[q].page \in Pages \ torn'
               PROVE  SearchOK(q)'
    BY <1>7 DEF SearchOK
  <2>1. SearchOK(q) /\ scan[q].page \notin torn
    BY <1>7 DEF PageInv, Searching
  <2>2. \A v \in Window : pte[p][v] # scan[q].page
    BY Frame DEF Frees
  <2>3. \A r \in Procs, v \in Window : pte'[r][v] = scan[q].page <=> pte[r][v] = scan[q].page
    BY <2>2, <1>6, Frame
  <2>4. QED
    BY <2>1, <2>3, <1>7 DEF SearchOK
<1>14. SameAddress'
  BY <1>6, <1>7, Frame DEF PageInv, SameAddress
<1>15. SharedKind'
  BY <1>6, <1>7, Frame DEF PageInv, SharedKind
<1>16. Searching'
  BY <1>13, Zenon DEF Searching
<1>17. freelist' \in Seq(Pages)
  BY <1>3, <1>4
<1>18. QED
  BY <1>8, <1>10, <1>11, <1>12, <1>14, <1>15, <1>16, <1>17 DEF PageInv

(* fork lets the child have pages of the parent, at the same addresses. *)
Shares(p, c) ==
  /\ \A q \in Procs, v \in Window : pte'[q][v] # pte[q][v] =>
       /\ q = c /\ pte[c][v] = None
       /\ \/ pte'[q][v] = PageZero
          \/ /\ pte'[q][v] = pte[p][v]
             /\ pte[p][v] \in Pages \ torn /\ c \notin bent => p \notin bent /\ kind[pte[p][v]] = "shared"
  /\ UNCHANGED <<freelist, scan, torn, lost, kind, bent>>

LEMMA SharesPages ==
  ASSUME Types, PageInv, NEW p \in Procs, NEW c \in Procs, Shares(p, c)
  PROVE  PageInv'
<1>1. UNCHANGED <<freelist, scan, torn, lost, kind, bent>>
  BY DEF Shares
<1>2. ASSUME NEW q \in Procs, NEW v \in Window, pte[q][v] \in Pages
      PROVE  pte'[q][v] = pte[q][v]
  BY <1>2, Frame DEF Shares
<1>3. ASSUME NEW q \in Procs, NEW v \in Window, pte'[q][v] \in Pages, pte'[q][v] # pte[q][v]
      PROVE  /\ q = c /\ pte'[q][v] = pte[p][v]
             /\ pte[p][v] \notin torn /\ c \notin bent => p \notin bent /\ kind[pte[p][v]] = "shared"
  BY <1>3, Frame DEF Shares
<1>4. NoLeak'
  BY <1>1, <1>2 DEF PageInv, NoLeak
<1>5. FreeOnce' /\ FreeUnscanned'
  BY <1>1 DEF PageInv, FreeOnce, FreeUnscanned
<1>6. \A i \in 1 .. Len(freelist) : freelist[i] \in Pages
  BY DEF Types
<1>7. FreeUnmapped'
  <2>1. ASSUME NEW i \in 1 .. Len(freelist), NEW q \in Procs, NEW v \in Window,
               freelist[i] \notin torn, pte'[q][v] = freelist[i]
        PROVE  FALSE
    <3>1. CASE pte'[q][v] = pte[q][v]
      BY <3>1, <2>1 DEF PageInv, FreeUnmapped
    <3>2. CASE pte'[q][v] # pte[q][v]
      BY <3>2, <2>1, <1>3, <1>6 DEF PageInv, FreeUnmapped
    <3>3. QED
      BY <3>1, <3>2
  <2>2. QED
    BY <2>1, <1>1 DEF FreeUnmapped
<1>8. ASSUME NEW q \in Procs PROVE SearchOK(q)'
  <2> SUFFICES ASSUME scan[q].page \in Pages \ torn
               PROVE  SearchOK(q)'
    BY <1>1 DEF SearchOK
  <2>1. SearchOK(q)
    BY DEF PageInv, Searching
  <2>2. ASSUME NEW r \in Procs, NEW v \in Window, pte'[r][v] = scan[q].page
        PROVE  \E s \in Procs, w \in Window : pte[s][w] = scan[q].page
    BY <2>2, <1>3
  <2>3. \A r \in Procs, v \in Window : pte[r][v] = scan[q].page => pte'[r][v] = scan[q].page
    BY <1>2
  <2>4. QED
    BY <2>1, <2>2, <2>3, <1>1 DEF SearchOK
<1>9. Searching'
  BY <1>8, Zenon DEF Searching
<1>10. ASSUME NEW q \in Procs, NEW v \in Window, pte'[q][v] \in Pages
       PROVE  \E r \in Procs : pte[r][v] = pte'[q][v]
  BY <1>10, <1>3
<1>11. SameAddress'
  <2> SUFFICES ASSUME NEW q \in Procs, NEW v \in Window, NEW r \in Procs, NEW w \in Window,
                      pte'[q][v] = pte'[r][w], pte'[q][v] \in Pages \ torn
               PROVE  v = w
    BY <1>1 DEF SameAddress
  <2>1. PICK x \in Procs : pte[x][v] = pte'[q][v]
    BY <1>10
  <2>2. PICK y \in Procs : pte[y][w] = pte'[r][w]
    BY <1>10
  <2>3. QED
    BY <2>1, <2>2 DEF PageInv, SameAddress
<1>12. SharedKind'
  <2> SUFFICES ASSUME NEW q \in Procs \ bent, NEW r \in Procs \ bent, NEW v \in Window,
                      pte'[q][v] = pte'[r][v], q # r, pte'[q][v] \in Pages \ torn
               PROVE  kind[pte'[q][v]] = "shared"
    BY <1>1 DEF SharedKind
  <2>1. CASE pte'[q][v] # pte[q][v]
    BY <2>1, <1>3
  <2>2. CASE pte'[r][v] # pte[r][v]
    BY <2>2, <1>3
  <2>3. CASE pte'[q][v] = pte[q][v] /\ pte'[r][v] = pte[r][v]
    BY <2>3 DEF PageInv, SharedKind
  <2>4. QED
    BY <2>1, <2>2, <2>3
<1>13. QED
  BY <1>4, <1>5, <1>7, <1>9, <1>11, <1>12 DEF PageInv

-----------------------------------------------------------------------------
(* What a step leaves alone stays sound. *)
LEMMA EntryHas ==
  ASSUME Types, NEW q \in Procs, NEW i \in DOMAIN mapEntries[q]
  PROVE  /\ mapEntries[q][i] \in Entry /\ i \in Nat /\ i >= 1 /\ i <= Len(mapEntries[q])
         /\ mapEntries[q] \in Seq(Entry)
BY DEF Types

LEMMA Extends ==
  ASSUME NEW e \in Entry, InPlace(e)
  PROVE  Extent(e) \subseteq Window /\ Territory(e) \subseteq Window
BY Sizes DEF Entry, InPlace, Extent, Territory, Window

LEMMA MapsKept ==
  ASSUME Types, NEW q \in Procs, MapsOK(q), mapEntries'[q] = mapEntries[q], pte'[q] = pte[q],
         \/ state'[q] = state[q] /\ task'[q] = task[q]
         \/ /\ state[q] \notin {"munmap", "exit", "ZOMBIE"} \/ state'[q] \in {"exit", "ZOMBIE"}
            /\ state'[q] # "munmap",
         q \in bent => q \in bent', torn \subseteq torn',
         \A v \in Window : pte[q][v] \in Pages \ torn' => kind'[pte[q][v]] = kind[pte[q][v]]
  PROVE  MapsOK(q)'
<1>1. Valid(q)' = Valid(q)
  BY DEF Valid
<1>2. Placed(q)'
  BY <1>1 DEF MapsOK, Placed
<1>3. Unmaps(q)'
  BY <1>1 DEF MapsOK, Unmaps
<1>4. ASSUME q \notin bent'
      PROVE  Apart(q)' /\ GuardsFree(q)' /\ Filled(q)' /\ Kinds(q)'
  <2>1. Apart(q) /\ GuardsFree(q) /\ Filled(q) /\ Kinds(q)
    BY <1>4 DEF MapsOK
  <2>2. Apart(q)'
    BY <2>1, <1>1 DEF Apart
  <2>3. GuardsFree(q)'
    BY <2>1, <1>1 DEF GuardsFree
  <2>4. Filled(q)'
    BY <2>1, <1>1 DEF Filled
  <2>5. Kinds(q)'
    <3>1. ASSUME NEW i \in Valid(q) PROVE Extent(mapEntries[q][i]) \subseteq Window
      <4>1. mapEntries[q][i] \in Entry
        BY EntryHas DEF Valid
      <4>2. QED
        BY <4>1, Extends DEF MapsOK, Placed
    <3>2. QED
      BY <2>1, <3>1, <1>1 DEF Kinds
  <2>6. QED
    BY <2>2, <2>3, <2>4, <2>5
<1>5. QED
  BY <1>2, <1>3, <1>4, Zenon DEF MapsOK

LEMMA CopyKept ==
  ASSUME NEW p \in Procs, NEW c \in Procs, CopyOf(p, c), task'[p] = task[p],
         mapEntries'[p] = mapEntries[p], mapEntries'[c] = mapEntries[c], pte'[c] = pte[c],
         p \in bent' => p \in bent, c \in bent => c \in bent'
  PROVE  CopyOf(p, c)'
<1>1. Valid(p)' = Valid(p)
  BY DEF Valid
<1>2. QED
  BY <1>1 DEF CopyOf

(* A page that somebody has is of the kind it was, when others are allocated. *)
LEMMA KindKept ==
  ASSUME Types, PageInv, NEW n \in Nat, n <= Len(freelist), NEW k,
         kind' = [g \in Pages |-> IF g \in Taken(n) THEN k ELSE kind[g]]
  PROVE  \A q \in Procs, v \in Window :
           pte[q][v] \in Pages \ torn => kind'[pte[q][v]] = kind[pte[q][v]]
<1> SUFFICES ASSUME NEW q \in Procs, NEW v \in Window, pte[q][v] \in Pages \ torn
             PROVE  kind'[pte[q][v]] = kind[pte[q][v]]
  OBVIOUS
<1>1. pte[q][v] \notin Taken(n)
  <2>1. freelist \in Seq(Pages) /\ Len(freelist) \in Nat
    BY DEF Types
  <2>2. \A i \in 1 .. n : freelist[i] # pte[q][v]
    BY <2>1 DEF PageInv, FreeUnmapped
  <2>3. QED
    BY <2>1, <2>2, TakenIs
<1>2. QED
  BY <1>1

(* The mappings of everybody are left alone. *)
Quiet ==
  /\ UNCHANGED <<state, mapEntries, pte, tables, task, bent>>
  /\ torn \subseteq torn' /\ calls' >= calls
  /\ \A q \in Procs : scan'[q] = NoScan \/ scan[q] # NoScan
  /\ \A q \in Procs, v \in Window :
       pte[q][v] \in Pages \ torn' => kind'[pte[q][v]] = kind[pte[q][v]]

LEMMA QuietStep ==
  ASSUME Types, calls' \in Nat, Slots, Forks, Maps, Copying, Quiet
  PROVE  Slots' /\ Forks' /\ Maps' /\ Copying'
<1>1. Slots'
  <2>1. ASSUME NEW q \in Procs PROVE SlotOK(q)'
    <3>1. SlotOK(q)
      BY DEF Slots
    <3>2. Len(mapEntries[q]) \in Nat /\ calls \in Nat
      BY Sizes DEF Types
    <3>3. QED
      BY <3>1, <3>2 DEF SlotOK, Quiet
  <2>2. QED
    BY <2>1, Zenon DEF Slots
<1>2. Forks'
  BY DEF Forks, Quiet, Forking
<1>3. Maps'
  <2>1. ASSUME NEW q \in Procs PROVE MapsOK(q)'
    BY MapsKept DEF Maps, Quiet
  <2>2. QED
    BY <2>1, Zenon DEF Maps
<1>4. Copying'
  <2>1. ASSUME NEW p \in Procs, NEW c \in Procs, state'[p] = "copy", task'[p].child = c
        PROVE  CopyOf(p, c)'
    <3>1. CopyOf(p, c)
      BY <2>1 DEF Quiet, Copying
    <3>2. QED
      BY <3>1, CopyKept DEF Quiet
  <2>2. QED
    BY <2>1, Zenon DEF Copying
<1>5. QED
  BY <1>1, <1>2, <1>3, <1>4

(* A process that no fork is about works on what is its own. *)
Free == {"UNUSED", "user", "munmap", "exit", "ZOMBIE"}

Own(x) ==
  /\ state[x] \in Free /\ state'[x] \in Free
  /\ \A q \in Procs \ {x} :
       /\ state'[q] = state[q] /\ mapEntries'[q] = mapEntries[q] /\ pte'[q] = pte[q]
       /\ task'[q] = task[q] /\ scan'[q] = scan[q]
       /\ (q \in tables' <=> q \in tables) /\ (q \in bent' <=> q \in bent)
       /\ \A v \in Window : pte[q][v] \in Pages \ torn' => kind'[pte[q][v]] = kind[pte[q][v]]
  /\ torn \subseteq torn' /\ calls' >= calls

LEMMA OwnStep ==
  ASSUME Types, calls' \in Nat, Slots, Forks, Maps, Copying, NEW x \in Procs, Own(x),
         SlotOK(x)', MapsOK(x)'
  PROVE  Slots' /\ Forks' /\ Maps' /\ Copying'
<1>1. Slots'
  <2>1. ASSUME NEW q \in Procs \ {x} PROVE SlotOK(q)'
    <3>1. SlotOK(q)
      BY DEF Slots
    <3>2. Len(mapEntries[q]) \in Nat /\ calls \in Nat
      BY Sizes DEF Types
    <3>3. QED
      BY <3>1, <3>2 DEF SlotOK, Own
  <2>2. QED
    BY <2>1, Zenon DEF Slots
<1>2. \A q \in Procs : Forking(q)' => q # x /\ Forking(q)
  BY DEF Own, Forking, Free
<1>3. \A q \in Procs : Forking(q) => q # x /\ task[q].child # x
  BY DEF Own, Forking, Free, Forks
<1>4. Forks'
  <2>1. \A p \in Procs : Forking(p)' => task'[p] = task[p] /\ state'[p] = state[p]
                          /\ (task[p].child \in Procs => state'[task[p].child] = state[task[p].child])
    BY <1>2, <1>3 DEF Own
  <2>2. \A p \in Procs : state'[p] = "copy" => Forking(p)' /\ state[p] = "copy"
    BY <1>2 DEF Own, Forking, Free
  <2>3. \A p \in Procs : state'[p] = "fork" => Forking(p)' /\ state[p] = "fork"
    BY <1>2 DEF Own, Forking, Free
  <2>4. \A p \in Procs : Forking(p)' =>
          /\ task'[p].child \in Procs
          /\ state'[task'[p].child] = IF state'[p] = "fork" THEN "EMBRYO" ELSE "new"
    BY <1>2, <2>1 DEF Forks
  <2>5. \A p, q \in Procs : Forking(p)' /\ Forking(q)' /\ p # q => task'[p].child # task'[q].child
    BY <1>2, <2>1 DEF Forks
  <2>6. \A p, q \in Procs : state'[p] = "copy" /\ state'[q] = "copy" => p = q
    BY <2>2 DEF Forks
  <2>7. \A p \in Procs : state'[p] = "fork" => task'[p].entry = 0 /\ task'[p].left = 0
    BY <2>3, <2>1 DEF Forks
  <2>8. QED
    BY <2>4, <2>5, <2>6, <2>7 DEF Forks
<1>5. Maps'
  <2>1. ASSUME NEW q \in Procs \ {x} PROVE MapsOK(q)'
    BY MapsKept DEF Maps, Own
  <2>2. QED
    BY <2>1, Zenon DEF Maps
<1>6. Copying'
  <2>1. ASSUME NEW p \in Procs, NEW c \in Procs, state'[p] = "copy", task'[p].child = c
        PROVE  CopyOf(p, c)'
    <3>1. Forking(p)' /\ p # x /\ state[p] = "copy" /\ task'[p] = task[p]
      BY <2>1, <1>2 DEF Own, Forking, Free
    <3>2. c # x /\ CopyOf(p, c)
      BY <2>1, <3>1, <1>2, <1>3 DEF Copying
    <3>3. QED
      BY <3>1, <3>2, CopyKept DEF Own
  <2>2. QED
    BY <2>1, Zenon DEF Copying
<1>7. QED
  BY <1>1, <1>4, <1>5, <1>6

-----------------------------------------------------------------------------
(* Steps that leave all mappings alone.                                    *)
Counted == calls' \in 0 .. MaxCalls /\ calls' >= calls

LEMMA CallCounts ==
  ASSUME Types, NEW p, Call(p) \/ UNCHANGED calls
  PROVE  Counted
BY Sizes DEF Types, Call, Counted

LEMMA HaltInv ==
  ASSUME MmapInv, Counted, NEW why \in {"panic", "corrupt"}, Halt(why)
  PROVE  MmapInv'
<1>1. UNCHANGED <<state, mapEntries, pte, tables, task, scan, freelist, content, tlb, bent, torn, lost, kind>>
  BY DEF Halt, table, memory, history
<1>2. Types'
  BY <1>1 DEF MmapInv, Types, Halt, Counted
<1>3. PageInv'
  BY <1>1, KeptPages DEF MmapInv, KeepsPages
<1>4. Quiet /\ calls' \in Nat
  BY <1>1, Sizes DEF Quiet, Counted
<1>5. QED
  BY <1>2, <1>3, <1>4, QuietStep DEF MmapInv

LEMMA SwitchInv ==
  ASSUME MmapInv, Counted, NEW p \in Procs, Switch(p)
  PROVE  MmapInv'
<1>1. UNCHANGED <<state, mapEntries, pte, tables, task, scan, freelist, content, halted, bent, torn, lost, kind>>
  BY DEF Switch, table, memory, history
<1>2. tlb' \in [Procs -> [Window -> Frames]]
  BY DEF MmapInv, Types, Switch, Empty, Frames
<1>3. Types'
  BY <1>1, <1>2 DEF MmapInv, Types, Counted
<1>4. PageInv'
  BY <1>1, KeptPages DEF MmapInv, KeepsPages
<1>5. Quiet /\ calls' \in Nat
  BY <1>1, Sizes DEF Quiet, Counted
<1>6. QED
  BY <1>3, <1>4, <1>5, QuietStep DEF MmapInv

LEMMA WriteInv ==
  ASSUME MmapInv, Counted, NEW p \in Procs, NEW va \in Window, NEW d \in Data, Write(p, va, d)
  PROVE  MmapInv'
<1>1. UNCHANGED <<state, mapEntries, pte, tables, task, scan, freelist, halted, bent, torn, lost, kind>>
  BY DEF Write, table, history
<1> DEFINE g == Through(tlb[p], pte[p], va)
<1>2. g \in Pages /\ content' = [content EXCEPT ![g] = d]
  BY DEF Write
<1>3. tlb' = [tlb EXCEPT ![p] = Kept(@, va, g)]
  BY DEF Write
<1> HIDE DEF g
<1>4. content' \in [Pages -> {Junk} \cup Data] /\ tlb' \in [Procs -> [Window -> Frames]]
  BY <1>2, <1>3 DEF MmapInv, Types, Kept, Frames
<1>5. Types'
  BY <1>1, <1>4 DEF MmapInv, Types, Counted
<1>6. PageInv'
  BY <1>1, KeptPages DEF MmapInv, KeepsPages
<1>7. Quiet /\ calls' \in Nat
  BY <1>1, Sizes DEF Quiet, Counted
<1>8. QED
  BY <1>5, <1>6, <1>7, QuietStep DEF MmapInv

LEMMA MmapFailsInv ==
  ASSUME MmapInv, Counted, NEW p \in Procs, NEW n \in Nat, NEW flags, NEW va,
         n <= Len(freelist), MmapFails(p, n, flags, va)
  PROVE  MmapInv'
<1>1. UNCHANGED <<state, mapEntries, pte, tables, task, scan, content, tlb, halted, bent, torn, kind>>
  BY DEF MmapFails, table
<1>2. freelist' \in Seq(Pages)
  BY Dropped DEF MmapInv, Types, MmapFails, Lose
<1>3. Types'
  BY <1>1, <1>2 DEF MmapInv, Types, Counted
<1>4. PageInv'
  BY <1>1, LosesPages DEF MmapInv, MmapFails
<1>5. Quiet /\ calls' \in Nat
  BY <1>1, Sizes DEF Quiet, Counted
<1>6. QED
  BY <1>3, <1>4, <1>5, QuietStep DEF MmapInv

LEMMA ScanNextInv ==
  ASSUME MmapInv, Counted, NEW p \in Procs, ScanNext(p)
  PROVE  MmapInv'
<1>1. UNCHANGED <<state, mapEntries, pte, tables, task, freelist, content, tlb, halted, bent, torn, lost, kind>>
  BY DEF ScanNext, table, memory, history
<1> DEFINE q == scan[p].at
<1>2. q \in Procs /\ scan[p] \in Scan /\ q \in 1 .. NPROC /\ scan[p] # NoScan
  BY DEF ScanNext, MmapInv, Types, Procs, NoScan
<1>3. \/ state[q] # "UNUSED" /\ scan[p].page \in Mapped(q) /\ scan' = [scan EXCEPT ![p] = NoScan]
      \/ /\ ~(state[q] # "UNUSED" /\ scan[p].page \in Mapped(q))
         /\ scan' = [scan EXCEPT ![p].at = @ + 1]
  BY DEF ScanNext
<1>4. scan' \in [Procs -> Scan] /\ PageInv' /\ \A r \in Procs : scan'[r] = NoScan \/ scan[r] # NoScan
  <2>1. CASE state[q] # "UNUSED" /\ scan[p].page \in Mapped(q) /\ scan' = [scan EXCEPT ![p] = NoScan]
    <3>1. scan' \in [Procs -> Scan] /\ \A r \in Procs : scan'[r] = NoScan \/ scan[r] # NoScan
      BY <2>1, Sizes DEF MmapInv, Types, Scan, NoScan, Frames
    <3>2. ScanEnds(p)
      BY <1>1, <1>2, <2>1 DEF ScanEnds, Mapped
    <3>3. QED
      BY <3>1, <3>2, EndsScan DEF MmapInv
  <2>2. CASE /\ ~(state[q] # "UNUSED" /\ scan[p].page \in Mapped(q))
             /\ scan' = [scan EXCEPT ![p].at = @ + 1]
    <3>0. scan \in [Procs -> Scan] /\ scan[p].at + 1 \in 0 .. NPROC + 1
      BY <1>2, Sizes DEF MmapInv, Types
    <3>1. scan' \in [Procs -> Scan] /\ \A r \in Procs : scan'[r] = NoScan \/ scan[r] # NoScan
      BY <1>2, <2>2, <3>0 DEF Scan
    <3>5. \A r \in Procs : scan'[r].page = scan[r].page
                         /\ scan'[r].at = IF r = p THEN scan[p].at + 1 ELSE scan[r].at
      BY <2>2, <3>0 DEF Scan
    <3>2. ASSUME scan[p].page \in Pages, NEW v \in Window PROVE pte[q][v] # scan[p].page
      <4>1. CASE state[q] = "UNUSED"
        BY <1>2, <3>2, <4>1, Frame DEF MmapInv, Slots, SlotOK
      <4>2. CASE scan[p].page \notin Mapped(q)
        BY <3>2, <4>2, Frame DEF Mapped
      <4>3. QED
        BY <2>2, <4>1, <4>2
    <3>3. PageInv'
      BY <1>1, <1>2, <3>2, <3>5, GoesOn DEF MmapInv
    <3>4. QED
      BY <3>1, <3>3
  <2>3. QED
    BY <1>3, <2>1, <2>2
<1>5. Types'
  BY <1>1, <1>4 DEF MmapInv, Types, Counted
<1>6. Quiet /\ calls' \in Nat
  BY <1>1, <1>4, Sizes DEF Quiet, Counted
<1>7. QED
  BY <1>4, <1>5, <1>6, QuietStep DEF MmapInv

LEMMA ScanEmbryoInv ==
  ASSUME MmapInv, Counted, NEW p \in Procs, ScanEmbryo(p)
  PROVE  MmapInv'
<1>1. CASE Halt("panic")
  BY <1>1, HaltInv
<1>2. CASE ~Halt("panic")
  <2>1. UNCHANGED <<state, mapEntries, pte, tables, task, freelist, content, tlb, halted, bent, torn, kind>>
    BY <1>2 DEF ScanEmbryo, table, memory
  <2>2. /\ scan' = [scan EXCEPT ![p] = NoScan]
        /\ lost' = lost \cup {g \in {scan[p].page} : Sharers(g) = {} /\ Scanners(g) = {p}}
    BY <1>2 DEF ScanEmbryo
  <2>3. scan' \in [Procs -> Scan] /\ \A r \in Procs : scan'[r] = NoScan \/ scan[r] # NoScan
    BY <2>2, Sizes DEF MmapInv, Types, Scan, NoScan, Frames
  <2>4. Types'
    BY <2>1, <2>3 DEF MmapInv, Types, Counted
  <2>5. \/ \E q \in Procs, v \in Window : pte[q][v] = scan[p].page
        \/ scan[p].page \in lost'
        \/ \E q \in Procs : q # p /\ scan[q].page = scan[p].page
    <3>1. CASE Sharers(scan[p].page) # {}
      BY <3>1 DEF Sharers, Mapped
    <3>2. CASE Scanners(scan[p].page) # {p}
      BY <3>2 DEF Scanners
    <3>3. QED
      BY <2>2, <3>1, <3>2
  <2>6. PageInv'
    BY <2>1, <2>2, <2>5, EndsScan DEF MmapInv, ScanEnds
  <2>7. Quiet /\ calls' \in Nat
    BY <2>1, <2>3, Sizes DEF Quiet, Counted
  <2>8. QED
    BY <2>4, <2>6, <2>7, QuietStep DEF MmapInv
<1>3. QED
  BY <1>1, <1>2

LEMMA ScanFreeInv ==
  ASSUME MmapInv, Counted, NEW p \in Procs, ScanFree(p)
  PROVE  MmapInv'
<1>1. CASE scan[p].page \notin Pages \/ scan[p].page \in ToSet(freelist)
  BY <1>1, HaltInv DEF ScanFree
<1>2. CASE scan[p].page \in Pages /\ scan[p].page \notin ToSet(freelist)
  <2>1. /\ UNCHANGED <<state, mapEntries, pte, tables, task, tlb, halted, bent, torn, lost, kind>>
        /\ scan[p].at > NPROC /\ freelist' = <<scan[p].page>> \o freelist
        /\ content' = [content EXCEPT ![scan[p].page] = Junk]
        /\ scan' = [scan EXCEPT ![p] = NoScan]
    BY <1>2 DEF ScanFree, table, history
  <2>2. scan' \in [Procs -> Scan] /\ \A r \in Procs : scan'[r] = NoScan \/ scan[r] # NoScan
    BY <2>1, Sizes DEF MmapInv, Types, Scan, NoScan, Frames
  <2>3. freelist' \in Seq(Pages) /\ content' \in [Pages -> {Junk} \cup Data]
    BY <1>2, <2>1 DEF MmapInv, Types
  <2>4. Types'
    BY <2>1, <2>2, <2>3 DEF MmapInv, Types, Counted
  <2>5. \A i \in 1 .. Len(freelist) : freelist[i] # scan[p].page
    BY <1>2 DEF ToSet, MmapInv, Types
  <2>6. PageInv'
    BY <1>2, <2>1, <2>5, FreesPage DEF MmapInv
  <2>7. Quiet /\ calls' \in Nat
    BY <2>1, <2>2, Sizes DEF Quiet, Counted
  <2>8. QED
    BY <2>4, <2>6, <2>7, QuietStep DEF MmapInv
<1>3. QED
  BY <1>1, <1>2

-----------------------------------------------------------------------------
(* A mapping more, with its pages. *)
Adds(q, e) ==
  /\ e \in Entry /\ e.isValid /\ InPlace(e)
  /\ mapEntries'[q] = Append(mapEntries[q], e)
  /\ state'[q] \notin {"munmap", "exit", "ZOMBIE"} /\ state[q] \notin {"munmap", "exit", "ZOMBIE"}
  /\ torn \subseteq torn'
  /\ q \notin bent' =>
       /\ q \notin bent
       /\ \A i \in Valid(q) : Territory(mapEntries[q][i]) \cap Territory(e) = {}
       /\ e.guard # 0 => pte[q][e.guard] = None
       /\ \A v \in Window : v \notin Extent(e) => pte'[q][v] = pte[q][v]
       /\ \A v \in Extent(e) : pte'[q][v] # None
       /\ "SHARED" \in e.flags =>
            \A v \in Extent(e) : pte'[q][v] \in Pages \ torn => kind'[pte'[q][v]] = "shared"
       /\ \A v \in Window : pte[q][v] \in Pages \ torn => kind'[pte[q][v]] = kind[pte[q][v]]

LEMMA AddsEntry ==
  ASSUME Types, NEW q \in Procs, NEW e, MapsOK(q), Adds(q, e)
  PROVE  MapsOK(q)'
<1> DEFINE E == mapEntries[q]
           k == Len(E) + 1
<1>1. E \in Seq(Entry) /\ k \in Nat /\ k >= 1 /\ DOMAIN E = 1 .. k - 1
  BY DEF Types
<1>2. /\ mapEntries'[q][k] = e /\ DOMAIN mapEntries'[q] = 1 .. k
      /\ \A i \in DOMAIN E : mapEntries'[q][i] = E[i]
  BY <1>1 DEF Adds
<1> HIDE DEF E
<1>3. Valid(q)' = Valid(q) \cup {k} /\ k \notin Valid(q)
  <2>1. \A i : i \in Valid(q)' <=> i \in 1 .. k /\ mapEntries'[q][i].isValid
    BY <1>2 DEF Valid
  <2>2. \A i : i \in Valid(q) <=> i \in 1 .. k - 1 /\ E[i].isValid
    BY <1>1 DEF Valid, E
  <2>3. \A i : i \in 1 .. k <=> i \in 1 .. k - 1 \/ i = k
    BY <1>1
  <2>4. k \notin 1 .. k - 1
    BY <1>1
  <2>5. e.isValid
    BY DEF Adds
  <2>6. QED
    BY <2>1, <2>2, <2>3, <2>4, <2>5, <1>1, <1>2
<1>4. \A i \in Valid(q) : mapEntries'[q][i] = mapEntries[q][i] /\ i # k
  BY <1>2, <1>3 DEF Valid, E
<1>5. Placed(q)'
  BY <1>2, <1>3, <1>4 DEF Placed, MapsOK, Adds
<1>6. Unmaps(q)'
  BY DEF Unmaps, Adds
<1>7. ASSUME q \notin bent'
      PROVE  Apart(q)' /\ GuardsFree(q)' /\ Filled(q)' /\ Kinds(q)'
  <2>1. Apart(q) /\ GuardsFree(q) /\ Filled(q) /\ Kinds(q)
    BY <1>7 DEF MapsOK, Adds
  <2>2. ASSUME NEW i \in Valid(q)
        PROVE  /\ mapEntries[q][i] \in Entry /\ Extent(mapEntries[q][i]) \subseteq Window
               /\ \A v \in Extent(mapEntries[q][i]) : v \notin Extent(e) /\ pte'[q][v] = pte[q][v]
               /\ mapEntries[q][i].guard # 0 =>
                    pte'[q][mapEntries[q][i].guard] = pte[q][mapEntries[q][i].guard]
    <3>1. mapEntries[q][i] \in Entry
      BY EntryHas DEF Valid
    <3>2. Extent(mapEntries[q][i]) \subseteq Window /\ Territory(mapEntries[q][i]) \subseteq Window
      BY <3>1, Extends DEF MapsOK, Placed
    <3>3. Territory(mapEntries[q][i]) \cap Territory(e) = {}
      BY <1>7 DEF Adds
    <3>4. \A v \in Territory(mapEntries[q][i]) : v \in Window /\ v \notin Extent(e)
      BY <3>2, <3>3 DEF Territory
    <3>5. \A v \in Territory(mapEntries[q][i]) : pte'[q][v] = pte[q][v]
      BY <3>4, <1>7 DEF Adds
    <3>6. QED
      BY <3>1, <3>2, <3>4, <3>5 DEF Territory
  <2>3. Apart(q)'
    <3>1. \A i \in Valid(q) : Territory(mapEntries'[q][i]) \cap Territory(mapEntries'[q][k]) = {}
      BY <1>2, <1>4, <1>7 DEF Adds
    <3>2. \A i, j \in Valid(q) : i # j =>
            Territory(mapEntries'[q][i]) \cap Territory(mapEntries'[q][j]) = {}
      BY <2>1, <1>4 DEF Apart
    <3>3. \A i, j \in Valid(q) \cup {k} : i # j =>
            Territory(mapEntries'[q][i]) \cap Territory(mapEntries'[q][j]) = {}
      BY <3>1, <3>2
    <3>4. QED
      BY <3>3, <1>3 DEF Apart, Territory, Extent
  <2>4. GuardsFree(q)'
    <3>1. \A i \in Valid(q) : mapEntries'[q][i].guard # 0 => pte'[q][mapEntries'[q][i].guard] = None
      BY <2>1, <2>2, <1>4 DEF GuardsFree
    <3>2. e.guard # 0 => pte'[q][e.guard] = None
      <4>1. e.guard # 0 => e.guard \in Window /\ e.guard \notin Extent(e)
        BY Sizes DEF Adds, InPlace, Extent, Entry, Window
      <4>2. QED
        BY <4>1, <1>7 DEF Adds
    <3>3. QED
      BY <3>1, <3>2, <1>2, <1>3 DEF GuardsFree
  <2>5. Filled(q)'
    <3>1. \A i \in Valid(q) : \A v \in Extent(mapEntries'[q][i]) : pte'[q][v] # None
      <4>1. \A i \in Valid(q) : \A v \in Extent(mapEntries[q][i]) : pte[q][v] # None
        BY <2>1 DEF Filled, Adds
      <4>2. QED
        BY <4>1, <2>2, <1>4
    <3>2. \A v \in Extent(mapEntries'[q][k]) : pte'[q][v] # None
      BY <1>2, <1>7 DEF Adds
    <3>3. QED
      BY <3>1, <3>2, <1>3 DEF Filled, Extent
  <2>6. Kinds(q)'
    <3>1. ASSUME NEW i \in Valid(q), "SHARED" \in mapEntries'[q][i].flags,
                 NEW v \in Extent(mapEntries'[q][i]), pte'[q][v] \in Pages \ torn'
          PROVE  kind'[pte'[q][v]] = "shared"
      <4>1. pte'[q][v] = pte[q][v] /\ v \in Window /\ pte[q][v] \in Pages \ torn
        BY <3>1, <2>2, <1>4 DEF Adds
      <4>2. kind[pte[q][v]] = "shared"
        BY <3>1, <4>1, <2>1, <1>4 DEF Kinds
      <4>3. QED
        BY <4>1, <4>2, <1>7 DEF Adds
    <3>2. ASSUME "SHARED" \in mapEntries'[q][k].flags,
                 NEW v \in Extent(mapEntries'[q][k]), pte'[q][v] \in Pages \ torn'
          PROVE  kind'[pte'[q][v]] = "shared"
      BY <3>2, <1>2, <1>7 DEF Adds
    <3>3. QED
      BY <3>1, <3>2, <1>3 DEF Kinds, Extent
  <2>7. QED
    BY <2>3, <2>4, <2>5, <2>6
<1>8. QED
  BY <1>5, <1>6, <1>7, Zenon DEF MapsOK

(* Pages more, without a mapping. *)
Fills(q) ==
  /\ mapEntries'[q] = mapEntries[q] /\ state[q] = "user" /\ state'[q] = "user"
  /\ (q \in bent' <=> q \in bent) /\ torn \subseteq torn'
  /\ \A v \in Window : pte[q][v] # None => pte'[q][v] = pte[q][v]
  /\ \A v \in Window : pte'[q][v] # pte[q][v] => ~isguardpage(q, v)
  /\ \A v \in Window : pte[q][v] \in Pages \ torn => kind'[pte[q][v]] = kind[pte[q][v]]

LEMMA FillsMaps ==
  ASSUME Types, NEW q \in Procs, MapsOK(q), Fills(q)
  PROVE  MapsOK(q)'
<1>1. Valid(q)' = Valid(q)
  BY DEF Valid, Fills
<1>2. Placed(q)' /\ Unmaps(q)'
  BY <1>1 DEF MapsOK, Placed, Unmaps, Fills
<1>3. \A i \in Valid(q) : /\ Territory(mapEntries[q][i]) \subseteq Window
                          /\ Extent(mapEntries[q][i]) \subseteq Window
  BY EntryHas, Extends DEF MapsOK, Placed, Valid
<1>4. ASSUME q \notin bent'
      PROVE  Apart(q)' /\ GuardsFree(q)' /\ Filled(q)' /\ Kinds(q)'
  <2>1. Apart(q) /\ GuardsFree(q) /\ Filled(q) /\ Kinds(q)
    BY <1>4 DEF MapsOK, Fills
  <2>2. Apart(q)'
    BY <2>1, <1>1 DEF Apart, Fills
  <2>3. GuardsFree(q)'
    <3>1. \A i \in Valid(q) : mapEntries[q][i].guard # 0 =>
            mapEntries[q][i].guard \in Window /\ isguardpage(q, mapEntries[q][i].guard)
      BY <1>3 DEF Territory, isguardpage
    <3>2. QED
      BY <3>1, <2>1, <1>1 DEF GuardsFree, Fills
  <2>4. \A i \in Valid(q) : \A v \in Extent(mapEntries[q][i]) :
          v \in Window /\ pte[q][v] # None /\ pte'[q][v] = pte[q][v]
    BY <2>1, <1>3 DEF Filled, Fills
  <2>5. Filled(q)'
    BY <2>4, <1>1 DEF Filled, Fills
  <2>6. Kinds(q)'
    BY <2>1, <2>4, <1>1 DEF Kinds, Fills
  <2>7. QED
    BY <2>2, <2>3, <2>5, <2>6
<1>5. QED
  BY <1>2, <1>4, Zenon DEF MapsOK

-----------------------------------------------------------------------------
(* mmap *)
LEMMA CanAllocate ==
  ASSUME Types, NEW p \in Procs, NEW n \in Nat \ {0}, NEW va \in Nat, canallocatva(p, va, n)
  PROVE  /\ va \in Window /\ va + n <= NWINDOW + 1
         /\ \A w \in va .. va + n - 1 : w \in Window /\ pte[p][w] = None /\ ~isguardpage(p, w)
<1>1. \A w \in va .. va + n - 1 : w \in Window /\ pte[p][w] = None /\ ~isguardpage(p, w)
  BY DEF canallocatva
<1>2. va \in va .. va + n - 1 /\ va + n - 1 \in va .. va + n - 1
  OBVIOUS
<1>3. va \in Window /\ va + n - 1 \in Window
  BY <1>1, <1>2
<1>4. QED
  BY <1>1, <1>3, Sizes DEF Window

LEMMA MmapMapsInv ==
  ASSUME MmapInv, NEW p \in Procs, Call(p), NEW n \in Nat \ {0}, NEW flags \in SUBSET Flags,
         NEW va \in Nat, n <= Len(freelist), MmapMaps(p, n, flags, va)
  PROVE  MmapInv'
<1> DEFINE e == [flags |-> flags, numPages |-> n, start |-> va, isValid |-> TRUE,
                 guard |-> IF "GROWSUP" \in flags THEN va + n ELSE 0]
           k == Kind(flags)
<1>0. /\ Types /\ PageInv /\ SlotOK(p) /\ MapsOK(p) /\ Len(freelist) \in Nat
      /\ pte \in [Procs -> [Window -> Frames]] /\ freelist \in Seq(Pages)
  BY DEF MmapInv, Slots, Maps, Types
<1>1. /\ UNCHANGED <<state, task, scan, content, tlb, halted, bent, torn, lost>>
      /\ tables' = tables \cup {p} /\ freelist' = Drop(freelist, n)
      /\ kind' = [g \in Pages |-> IF g \in Taken(n) THEN k ELSE kind[g]]
      /\ state[p] = "user" /\ calls < MaxCalls /\ calls' = calls + 1
  BY DEF MmapMaps, Call
<1>2. /\ va \in Window /\ va + n <= NWINDOW + 1
      /\ \A w \in va .. va + n - 1 : w \in Window /\ pte[p][w] = None /\ ~isguardpage(p, w)
  BY <1>0, CanAllocate DEF MmapMaps
<1>3. "GROWSUP" \in flags =>
        va + n \in Window /\ pte[p][va + n] = None /\ ~isguardpage(p, va + n)
  BY <1>0, CanAllocate DEF MmapMaps
<1>4. /\ mapEntries' = [mapEntries EXCEPT ![p] = Append(@, e)] \/ UNCHANGED mapEntries
      /\ pte' = [pte EXCEPT ![p] =
           [w \in Window |-> IF w \in va .. va + n - 1 THEN freelist[w - va + 1] ELSE @[w]]]
  BY DEF MmapMaps
<1>5. k \in {"private", "shared"} /\ ("SHARED" \in flags => k = "shared")
  BY DEF Kind
<1>6. e \in Entry /\ e.isValid /\ InPlace(e)
  BY <1>1, <1>2, <1>3, Sizes DEF Entry, InPlace, Window, Flags
<1>7. \A w \in va .. va + n - 1 : w - va + 1 \in 1 .. n /\ w - va + 1 \in 1 .. Len(freelist)
  BY <1>0
<1>8. \A w \in va .. va + n - 1 : freelist[w - va + 1] \in Pages
  BY <1>7, <1>0
<1> HIDE DEF k
<1>9. /\ \A q \in Procs, w \in Window :
           pte'[q][w] = IF q = p /\ w \in va .. va + n - 1 THEN freelist[w - va + 1] ELSE pte[q][w]
      /\ \A q \in Procs : q # p => pte'[q] = pte[q]
  BY <1>0, <1>4
<1>10. PageInv'
  <2>1. Takes(p, va, n, k)
    BY <1>0, <1>1, <1>2, <1>9 DEF Takes
  <2>2. QED
    BY <2>1, <1>0, TakesPages
<1>11. \A q \in Procs, v \in Window :
         pte[q][v] \in Pages \ torn => kind'[pte[q][v]] = kind[pte[q][v]]
  BY <1>0, <1>1, KindKept
<1>12. Types'
  <2>1. freelist' \in Seq(Pages)
    BY <1>0, <1>1, Dropped
  <2>2. \A g \in Pages : kind'[g] \in {"none", "private", "shared"}
    BY <1>0, <1>1, <1>5 DEF Types
  <2>3. kind' \in [Pages -> {"none", "private", "shared"}]
    BY <1>1, <2>2
  <2>4. mapEntries' \in [Procs -> Seq(Entry)]
    <3>1. CASE UNCHANGED mapEntries
      BY <3>1, <1>0 DEF Types
    <3>2. CASE mapEntries' = [mapEntries EXCEPT ![p] = Append(@, e)]
      <4> HIDE DEF e
      <4>1. Append(mapEntries[p], e) \in Seq(Entry)
        BY <1>0, <1>6 DEF Types
      <4>2. QED
        BY <4>1, <3>2, <1>0 DEF Types
    <3>3. QED
      BY <3>1, <3>2, <1>4
  <2>5. pte' \in [Procs -> [Window -> Frames]]
    <3>1. [w \in Window |-> IF w \in va .. va + n - 1 THEN freelist[w - va + 1] ELSE pte[p][w]]
            \in [Window -> Frames]
      BY <1>0, <1>8 DEF Frames
    <3>2. QED
      BY <3>1, <1>0, <1>4
  <2>6. tables' \subseteq Procs /\ calls' \in 0 .. MaxCalls
    BY <1>0, <1>1, Sizes DEF Types
  <2>7. QED
    BY <1>0, <1>1, <2>1, <2>3, <2>4, <2>5, <2>6 DEF Types
<1> HIDE DEF e
<1>13. \A q \in Procs : q # p => mapEntries'[q] = mapEntries[q]
  BY <1>0, <1>4 DEF Types
<1>14. Own(p)
  <2>1. state[p] \in Free /\ state'[p] \in Free /\ calls' >= calls
    BY <1>0, <1>1, Sizes DEF Types, Free
  <2>2. QED
    BY <2>1, <1>1, <1>9, <1>11, <1>13 DEF Own
<1>15. mapEntries'[p] = mapEntries[p] \/ mapEntries'[p] = Append(mapEntries[p], e)
  BY <1>0, <1>4 DEF Types
<1>16. SlotOK(p)'
  <2>1. Len(mapEntries'[p]) <= calls'
    <3>1. mapEntries[p] \in Seq(Entry) /\ calls \in Nat /\ Len(mapEntries[p]) <= calls
      BY <1>0 DEF Types, SlotOK
    <3>2. QED
      BY <3>1, <1>1, <1>15
  <2>2. scan[p] = NoScan
    BY <1>0, <1>1 DEF SlotOK
  <2>3. QED
    BY <2>1, <2>2, <1>1 DEF SlotOK
<1>17. MapsOK(p)'
  <2>1. CASE mapEntries'[p] = mapEntries[p]
    <3>1. \A w \in Window : w \in va .. va + n - 1 \/ pte'[p][w] = pte[p][w]
      BY <1>9
    <3>2. Fills(p)
      BY <2>1, <3>1, <1>1, <1>2, <1>11 DEF Fills
    <3>3. QED
      BY <3>2, <1>0, FillsMaps
  <2>2. CASE mapEntries'[p] = Append(mapEntries[p], e)
    <3>1. e.start = va /\ e.numPages = n /\ e.flags = flags
          /\ e.guard = IF "GROWSUP" \in flags THEN va + n ELSE 0
      BY DEF e
    <3>2. Extent(e) = va .. va + n - 1
      BY <3>1 DEF Extent
    <3>3. \A w \in Territory(e) : w \in Window /\ pte[p][w] = None /\ ~isguardpage(p, w)
      BY <3>1, <3>2, <1>2, <1>3 DEF Territory
    <3>4. ASSUME p \notin bent, NEW i \in Valid(p)
          PROVE  Territory(mapEntries[p][i]) \cap Territory(e) = {}
      <4>1. \A w \in Extent(mapEntries[p][i]) : pte[p][w] # None
        BY <3>4, <1>0, <1>1 DEF MapsOK, Filled
      <4>2. \A w \in Territory(mapEntries[p][i]) : pte[p][w] # None \/ isguardpage(p, w)
        BY <4>1 DEF Territory, isguardpage
      <4>3. QED
        BY <4>2, <3>3
    <3>5. e.guard # 0 => pte[p][e.guard] = None
      BY <3>1, <1>3
    <3>6. \A v \in Window : v \notin Extent(e) => pte'[p][v] = pte[p][v]
      BY <3>2, <1>9
    <3>7. \A v \in Extent(e) : pte'[p][v] = freelist[v - va + 1] /\ pte'[p][v] \in Pages
      BY <3>2, <1>2, <1>8, <1>9
    <3>8. ASSUME "SHARED" \in flags, NEW v \in Extent(e) PROVE kind'[pte'[p][v]] = "shared"
      <4>1. freelist[v - va + 1] \in Taken(n)
        BY <3>2, <1>0, <1>7, TakenIs
      <4>2. kind'[freelist[v - va + 1]] = k
        BY <4>1, <3>7, <1>1
      <4>3. QED
        BY <4>2, <3>7, <3>8, <1>5
    <3>9. Adds(p, e)
      <4>1. state'[p] \notin {"munmap", "exit", "ZOMBIE"} /\ state[p] \notin {"munmap", "exit", "ZOMBIE"}
        BY <1>1
      <4>2. QED
        BY <4>1, <2>2, <3>1, <3>4, <3>5, <3>6, <3>7, <3>8, <1>1, <1>6, <1>11, Frame DEF Adds
    <3>10. QED
      BY <3>9, <1>0, AddsEntry
  <2>3. QED
    BY <2>1, <2>2, <1>15
<1>18. QED
  BY <1>1, <1>10, <1>12, <1>14, <1>16, <1>17, OwnStep DEF MmapInv, Types

-----------------------------------------------------------------------------
(* munmap and exit *)
LEMMA Unmapped ==
  ASSUME NEW i \in Nat, NEW va \in Nat, NEW n \in Nat
  PROVE  /\ Unmapping(i, va, n) \in Task /\ Unmapping(i, va, n).entry = i
         /\ Unmapping(i, va, n).va = va /\ Unmapping(i, va, n).left = n
BY Sizes DEF Unmapping, Task

LEMMA MunmapInv ==
  ASSUME MmapInv, NEW p \in Procs, Call(p), NEW va \in Window, NEW n \in Nat, Munmap(p, va, n)
  PROVE  MmapInv'
<1>0. Types /\ PageInv /\ SlotOK(p) /\ MapsOK(p) /\ Counted
  BY CallCounts DEF MmapInv, Slots, Maps
<1>1. CASE Halt("panic")
  BY <1>1, <1>0, HaltInv
<1>2. CASE ~Halt("panic")
  <2>1. PICK i \in findmappingmetadata(p, va) :
          /\ state' = [state EXCEPT ![p] = "munmap"]
          /\ task' = [task EXCEPT ![p] = Unmapping(i, va, n)]
          /\ bent' = IF n > mapEntries[p][i].numPages THEN bent \cup {p} ELSE bent
          /\ UNCHANGED <<table, scan, memory, tlb, halted, torn, lost, kind>>
    BY <1>2 DEF Munmap
  <2>2. UNCHANGED <<mapEntries, pte, tables, scan, freelist, content, tlb, halted, torn, lost, kind>>
    BY <2>1 DEF table, memory
  <2>3. i \in Valid(p) /\ mapEntries[p][i].start = va
    BY DEF findmappingmetadata
  <2>4. i \in Nat /\ mapEntries[p][i] \in Entry
    BY <1>0, <2>3, EntryHas DEF Valid
  <2> DEFINE t == Unmapping(i, va, n)
  <2>5. t \in Task /\ t.entry = i /\ t.va = va /\ t.left = n
    BY <2>4, Unmapped DEF Window
  <2>6. task' = [task EXCEPT ![p] = t]
    BY <2>1
  <2> HIDE DEF t
  <2>7. Types'
    BY <1>0, <2>1, <2>2, <2>5, <2>6 DEF Types, Counted, States
  <2>8. state[p] = "user" /\ state'[p] = "munmap" /\ task'[p] = t
    BY <1>0, <2>1, <2>6 DEF Types, Call
  <2>9. PageInv'
    BY <1>0, <2>1, <2>2, KeptPages DEF KeepsPages
  <2>10. Own(p)
    BY <1>0, <2>1, <2>2, <2>6, <2>8 DEF Own, Free, Types, Counted
  <2>11. SlotOK(p)'
    <3>1. Len(mapEntries[p]) <= calls'
      <4>1. Len(mapEntries[p]) \in Nat /\ calls \in Nat /\ calls' \in Nat
        BY <1>0, Sizes DEF Types, Counted
      <4>2. QED
        BY <4>1, <1>0 DEF SlotOK, Counted
    <3>2. QED
      BY <3>1, <1>0, <2>2, <2>8 DEF SlotOK
  <2>12. MapsOK(p)'
    <3>1. Valid(p)' = Valid(p)
      BY <2>2 DEF Valid
    <3>2. Placed(p)'
      BY <3>1, <1>0, <2>2 DEF MapsOK, Placed
    <3>3. p \notin bent' => n <= mapEntries[p][i].numPages
      BY <2>1, <2>4 DEF Entry
    <3>4. va \in Nat
      BY DEF Window
    <3>5. Unmaps(p)'
      BY <3>1, <3>3, <3>4, <2>2, <2>3, <2>4, <2>5, <2>8 DEF Unmaps, Entry
    <3>6. p \notin bent' => Apart(p)' /\ GuardsFree(p)' /\ Filled(p)' /\ Kinds(p)'
      <4>1. SUFFICES ASSUME p \notin bent' PROVE Apart(p)' /\ GuardsFree(p)' /\ Filled(p)' /\ Kinds(p)'
        OBVIOUS
      <4>2. Apart(p) /\ GuardsFree(p) /\ Filled(p) /\ Kinds(p)
        BY <4>1, <1>0, <2>1 DEF MapsOK
      <4>3. Apart(p)' /\ GuardsFree(p)' /\ Kinds(p)'
        BY <4>2, <3>1, <2>2 DEF Apart, GuardsFree, Kinds
      <4>4. Filled(p)'
        BY <4>2, <3>1, <2>2, <2>8 DEF Filled
      <4>5. QED
        BY <4>3, <4>4
    <3>7. QED
      BY <3>2, <3>5, <3>6, Zenon DEF MapsOK
  <2>13. QED
    BY <1>0, <2>7, <2>9, <2>10, <2>11, <2>12, OwnStep DEF MmapInv, Counted
<1>3. QED
  BY <1>1, <1>2

(* clearpte takes a page of a process that is ending or unmaps it. *)
LEMMA ClearsMaps ==
  ASSUME MmapInv, Counted, NEW p \in Procs, NEW va \in Window, NEW t \in Task, ClearPte(p, va, t),
         state[p] \in {"munmap", "exit"}, scan[p] = NoScan, Unmaps(p)',
         p \notin bent => Filled(p)'
  PROVE  MmapInv'
<1>0. Types /\ PageInv /\ SlotOK(p) /\ MapsOK(p)
  BY DEF MmapInv, Slots, Maps
<1>1. /\ UNCHANGED <<state, mapEntries, tables, freelist, content, tlb, halted, bent, lost, kind>>
      /\ pte' = [pte EXCEPT ![p][va] = None]
      /\ scan' = [scan EXCEPT ![p] = [page |-> pte[p][va], at |-> 1]]
      /\ task' = [task EXCEPT ![p] = t]
      /\ torn \subseteq torn'
  BY DEF ClearPte, memory
<1>2. /\ \A q \in Procs, v \in Window : pte'[q][v] = IF q = p /\ v = va THEN None ELSE pte[q][v]
      /\ \A q \in Procs : q # p => pte'[q] = pte[q] /\ scan'[q] = scan[q] /\ task'[q] = task[q]
  BY <1>0, <1>1 DEF Types
<1>3. PageInv'
  BY <1>0, ClearsPage
<1>4. Types'
  <2>1. pte' \in [Procs -> [Window -> Frames]]
    BY <1>0, <1>1 DEF Types, Frames
  <2>2. [page |-> pte[p][va], at |-> 1] \in Scan
    BY <1>0, Sizes DEF Types, Scan
  <2>3. scan' \in [Procs -> Scan] /\ task' \in [Procs -> Task]
    BY <2>2, <1>0, <1>1 DEF Types
  <2>4. QED
    BY <2>1, <2>3, <1>0, <1>1 DEF Types, Counted
<1>5. Own(p)
  BY <1>0, <1>1, <1>2 DEF Own, Free, Counted, Types
<1>6. SlotOK(p)'
  <2>1. Len(mapEntries[p]) <= calls'
    <3>1. Len(mapEntries[p]) \in Nat /\ calls \in Nat /\ calls' \in Nat
      BY <1>0, Sizes DEF Types, Counted
    <3>2. QED
      BY <3>1, <1>0 DEF SlotOK, Counted
  <2>2. QED
    BY <2>1, <1>0, <1>1, <1>2 DEF SlotOK
<1>7. MapsOK(p)'
  <2>1. Valid(p)' = Valid(p)
    BY <1>1 DEF Valid
  <2>2. Placed(p)'
    BY <2>1, <1>0, <1>1 DEF MapsOK, Placed
  <2>3. \A i \in Valid(p) : /\ Territory(mapEntries[p][i]) \subseteq Window
                            /\ Extent(mapEntries[p][i]) \subseteq Window
    BY <1>0, EntryHas, Extends DEF MapsOK, Placed, Valid
  <2>4. ASSUME p \notin bent PROVE Apart(p)' /\ GuardsFree(p)' /\ Kinds(p)'
    <3>1. Apart(p) /\ GuardsFree(p) /\ Kinds(p)
      BY <2>4, <1>0 DEF MapsOK
    <3>2. Apart(p)'
      BY <3>1, <2>1, <1>1 DEF Apart
    <3>3. GuardsFree(p)'
      <4>1. \A i \in Valid(p) : mapEntries[p][i].guard # 0 => mapEntries[p][i].guard \in Window
        BY <2>3 DEF Territory
      <4>2. QED
        BY <4>1, <3>1, <2>1, <1>1, <1>2 DEF GuardsFree
    <3>4. Kinds(p)'
      <4>1. ASSUME NEW i \in Valid(p), "SHARED" \in mapEntries[p][i].flags,
                   NEW v \in Extent(mapEntries[p][i]), pte'[p][v] \in Pages \ torn'
            PROVE  kind[pte'[p][v]] = "shared"
        <5>1. v \in Window
          BY <2>3
        <5>2. pte'[p][v] = pte[p][v] /\ pte[p][v] \in Pages \ torn
          BY <4>1, <5>1, <1>1, <1>2, Frame
        <5>3. QED
          BY <4>1, <5>2, <3>1 DEF Kinds
      <4>2. QED
        BY <4>1, <2>1, <1>1 DEF Kinds
    <3>5. QED
      BY <3>2, <3>3, <3>4
  <2>5. QED
    BY <2>2, <2>4, <1>1, Zenon DEF MapsOK
<1>8. QED
  BY <1>0, <1>3, <1>4, <1>5, <1>6, <1>7, OwnStep DEF MmapInv, Counted

LEMMA MunmapPageInv ==
  ASSUME MmapInv, Counted, NEW p \in Procs, MunmapPage(p)
  PROVE  MmapInv'
<1>0. /\ Types /\ PageInv /\ SlotOK(p) /\ MapsOK(p) /\ task[p] \in Task
      /\ state[p] = "munmap" /\ scan[p] = NoScan /\ task[p].left > 0
  BY DEF MmapInv, Slots, Maps, MunmapPage, Types
<1> DEFINE i == task[p].entry
           e == mapEntries[p][i]
<1>1. i \in Valid(p) /\ task[p].va >= e.start /\ e \in Entry /\ InPlace(e)
  <2>1. i \in Valid(p) /\ task[p].va >= e.start
    BY <1>0 DEF MapsOK, Unmaps
  <2>2. QED
    BY <2>1, <1>0, EntryHas DEF MapsOK, Placed, Valid
<1>2. p \notin bent => task[p].va + task[p].left <= e.start + e.numPages
  BY <1>0 DEF MapsOK, Unmaps
<1>3. task[p].va \in Nat /\ task[p].left \in Nat \ {0}
  BY <1>0 DEF Task
<1>4. p \notin bent =>
        task[p].va \in Extent(e) /\ task[p].va \in Window /\ pte[p][task[p].va] # None
  <2>1. SUFFICES ASSUME p \notin bent
                 PROVE  task[p].va \in Extent(e) /\ task[p].va \in Window /\ pte[p][task[p].va] # None
    OBVIOUS
  <2>2. task[p].va \in Extent(e)
    BY <2>1, <1>1, <1>2, <1>3 DEF Extent, Entry
  <2>3. Filled(p)
    BY <2>1, <1>0 DEF MapsOK
  <2>4. ~(task[p].va < task[p].va)
    BY <1>3
  <2>5. QED
    BY <2>2, <2>3, <2>4, <1>0, <1>1, Extends DEF Filled
<1>5. CASE p \notin tables
  <2>1. /\ state' = [state EXCEPT ![p] = "user"] /\ task' = [task EXCEPT ![p] = NoTask]
        /\ UNCHANGED <<mapEntries, pte, tables, scan, freelist, content, tlb, halted, bent, torn, lost, kind>>
    BY <1>5 DEF MunmapPage, Return, table, memory, history
  <2>2. p \in bent
    BY <1>0, <1>4, <1>5 DEF SlotOK
  <2>3. NoTask \in Task
    BY Sizes DEF NoTask, Task
  <2>4. Types'
    BY <1>0, <2>1, <2>3 DEF Types, States, Counted
  <2>5. PageInv'
    BY <1>0, <2>1, KeptPages DEF KeepsPages
  <2>6. state'[p] = "user" /\ Own(p)
    BY <1>0, <2>1 DEF Own, Free, Counted, Types
  <2>7. SlotOK(p)'
    <3>1. Len(mapEntries[p]) <= calls'
      <4>1. Len(mapEntries[p]) \in Nat /\ calls \in Nat /\ calls' \in Nat
        BY <1>0, Sizes DEF Types, Counted
      <4>2. QED
        BY <4>1, <1>0 DEF SlotOK, Counted
    <3>2. QED
      BY <3>1, <1>0, <2>1, <2>6 DEF SlotOK
  <2>8. MapsOK(p)'
    <3>1. Placed(p)'
      BY <1>0, <2>1 DEF MapsOK, Placed, Valid
    <3>2. Unmaps(p)'
      BY <2>6 DEF Unmaps
    <3>3. p \in bent'
      BY <2>1, <2>2
    <3>4. QED
      BY <3>1, <3>2, <3>3, Zenon DEF MapsOK
  <2>9. QED
    BY <1>0, <2>4, <2>5, <2>6, <2>7, <2>8, OwnStep DEF MmapInv, Counted
<1>6. CASE p \in tables /\ Halt("panic")
  BY <1>6, HaltInv
<1>7. CASE p \in tables /\ ~Halt("panic")
  <2> DEFINE t == task[p]
             u == Unmapping(t.entry, t.va + 1, t.left - 1)
  <2>1. t.va \in Window /\ ClearPte(p, t.va, u)
    BY <1>7 DEF MunmapPage
  <2>2. u \in Task /\ u.entry = t.entry /\ u.va = t.va + 1 /\ u.left = t.left - 1
    <3>1. t.entry \in Nat /\ t.va + 1 \in Nat /\ t.left - 1 \in Nat
      BY <1>0, <1>3 DEF Task
    <3>2. QED
      BY <3>1, Unmapped DEF Unmapping
  <2> HIDE DEF u
  <2>3. /\ UNCHANGED <<state, mapEntries, bent>> /\ task'[p] = u
        /\ \A v \in Window : pte'[p][v] = IF v = t.va THEN None ELSE pte[p][v]
    BY <1>0, <2>1 DEF ClearPte, Types
  <2>4. Valid(p)' = Valid(p)
    BY <2>3 DEF Valid
  <2>5. Unmaps(p)'
    <3>1. p \notin bent => u.va + u.left <= e.start + e.numPages
      BY <1>2, <1>3, <2>2, <1>1 DEF Entry
    <3>2. u.va >= e.start
      BY <1>1, <1>3, <2>2 DEF Entry
    <3>3. QED
      BY <3>1, <3>2, <1>1, <2>2, <2>3, <2>4 DEF Unmaps
  <2>6. ASSUME p \notin bent PROVE Filled(p)'
    <3>1. ASSUME NEW j \in Valid(p), NEW v \in Extent(mapEntries[p][j])
          PROVE  pte'[p][v] # None \/ (j = u.entry /\ v < u.va)
      <4>1. mapEntries[p][j] \in Entry /\ InPlace(mapEntries[p][j])
        BY <1>0, EntryHas DEF MapsOK, Placed, Valid
      <4>2. v \in Window /\ v \in Nat
        BY <4>1, Extends DEF Window
      <4>3. pte[p][v] # None \/ (j = t.entry /\ v < t.va)
        BY <2>6, <1>0 DEF MapsOK, Filled
      <4>4. CASE v = t.va
        <5>1. t.va \in Extent(e)
          BY <2>6, <1>4
        <5>2. j = i
          <6>1. t.va \in Territory(mapEntries[p][j]) \cap Territory(mapEntries[p][i])
            BY <4>4, <5>1 DEF Territory
          <6>2. QED
            BY <6>1, <2>6, <1>0, <1>1 DEF MapsOK, Apart
        <5>3. QED
          BY <4>4, <5>2, <2>2, <1>3
      <4>5. CASE v # t.va
        <5>1. v < t.va => v < u.va
          BY <4>2, <2>2, <1>3
        <5>2. QED
          BY <4>2, <4>3, <4>5, <5>1, <2>2, <2>3
      <4>6. QED
        BY <4>4, <4>5
    <3>2. QED
      BY <3>1, <1>0, <2>3, <2>4 DEF Filled
  <2>7. state[p] \in {"munmap", "exit"}
    BY <1>0
  <2>8. QED
    BY <1>0, <2>1, <2>2, <2>5, <2>6, <2>7, ClearsMaps
<1>8. QED
  BY <1>5, <1>6, <1>7

LEMMA MunmapEndInv ==
  ASSUME MmapInv, Counted, NEW p \in Procs, MunmapEnd(p)
  PROVE  MmapInv'
<1>0. /\ Types /\ PageInv /\ SlotOK(p) /\ MapsOK(p) /\ mapEntries[p] \in Seq(Entry)
      /\ state[p] = "munmap" /\ scan[p] = NoScan
  BY DEF MmapInv, Slots, Maps, MunmapEnd, Types
<1> DEFINE i == task[p].entry
<1>1. i \in Valid(p) /\ i \in 1 .. Len(mapEntries[p])
  BY <1>0 DEF MapsOK, Unmaps, Valid
<1>2. /\ state' = [state EXCEPT ![p] = "user"] /\ task' = [task EXCEPT ![p] = NoTask]
      /\ mapEntries' = [mapEntries EXCEPT ![p][i] = NoEntry]
      /\ UNCHANGED <<pte, tables, scan, freelist, content, tlb, halted, bent, torn, lost, kind>>
  BY DEF MunmapEnd, Return, memory, history
<1>3. NoTask \in Task /\ NoEntry \in Entry /\ ~NoEntry.isValid
  BY Sizes DEF NoTask, Task, NoEntry, Entry, Flags
<1> HIDE DEF i
<1>4. mapEntries'[p] = [mapEntries[p] EXCEPT ![i] = NoEntry]
      /\ \A q \in Procs : q # p => mapEntries'[q] = mapEntries[q]
  BY <1>0, <1>2 DEF Types
<1>5. mapEntries'[p] \in Seq(Entry) /\ Len(mapEntries'[p]) = Len(mapEntries[p])
  BY <1>0, <1>1, <1>3, <1>4
<1>6. Types'
  <2>1. mapEntries' \in [Procs -> Seq(Entry)]
    BY <1>0, <1>2, <1>4, <1>5 DEF Types
  <2>2. QED
    BY <2>1, <1>0, <1>2, <1>3 DEF Types, States, Counted
<1>7. PageInv'
  BY <1>0, <1>2, KeptPages DEF KeepsPages
<1>8. state'[p] = "user" /\ Own(p)
  BY <1>0, <1>2, <1>4 DEF Own, Free, Counted, Types
<1>9. SlotOK(p)'
  <2>1. Len(mapEntries'[p]) <= calls'
    <3>1. Len(mapEntries[p]) \in Nat /\ calls \in Nat /\ calls' \in Nat
      BY <1>0, Sizes DEF Types, Counted
    <3>2. QED
      BY <3>1, <1>0, <1>5 DEF SlotOK, Counted
  <2>2. QED
    BY <2>1, <1>0, <1>2, <1>8 DEF SlotOK
<1>10. MapsOK(p)'
  <2>1. Valid(p)' = Valid(p) \ {i} /\ \A j \in Valid(p) \ {i} : mapEntries'[p][j] = mapEntries[p][j]
    <3>1. DOMAIN mapEntries'[p] = DOMAIN mapEntries[p]
      BY <1>0, <1>4
    <3>2. \A j \in DOMAIN mapEntries[p] : mapEntries'[p][j] = IF j = i THEN NoEntry ELSE mapEntries[p][j]
      BY <1>0, <1>1, <1>4
    <3>3. QED
      BY <3>1, <3>2, <1>3 DEF Valid
  <2>2. Placed(p)'
    BY <2>1, <1>0 DEF MapsOK, Placed
  <2>3. Unmaps(p)'
    BY <1>8 DEF Unmaps
  <2>4. ASSUME p \notin bent' PROVE Apart(p)' /\ GuardsFree(p)' /\ Filled(p)' /\ Kinds(p)'
    <3>1. Apart(p) /\ GuardsFree(p) /\ Filled(p) /\ Kinds(p)
      BY <2>4, <1>0, <1>2 DEF MapsOK
    <3>2. Apart(p)'
      <4>1. \A j, k \in Valid(p) \ {i} : j # k =>
              Territory(mapEntries'[p][j]) \cap Territory(mapEntries'[p][k]) = {}
        BY <3>1, <2>1 DEF Apart
      <4>2. QED
        BY <4>1, <2>1 DEF Apart, Territory, Extent
    <3>3. GuardsFree(p)'
      BY <3>1, <2>1, <1>2 DEF GuardsFree
    <3>4. Filled(p)'
      <4>1. \A j \in Valid(p) \ {i} : \A v \in Extent(mapEntries'[p][j]) : pte'[p][v] # None
        BY <3>1, <2>1, <1>0, <1>2 DEF Filled, i
      <4>2. QED
        BY <4>1, <2>1 DEF Filled, Extent
    <3>5. Kinds(p)'
      <4>1. \A j \in Valid(p) \ {i} : "SHARED" \in mapEntries'[p][j].flags =>
              \A v \in Extent(mapEntries'[p][j]) :
                pte'[p][v] \in Pages \ torn' => kind'[pte'[p][v]] = "shared"
        BY <3>1, <2>1, <1>2 DEF Kinds
      <4>2. QED
        BY <4>1, <2>1 DEF Kinds, Extent
    <3>6. QED
      BY <3>2, <3>3, <3>4, <3>5
  <2>5. QED
    BY <2>2, <2>3, <2>4, Zenon DEF MapsOK
<1>11. QED
  BY <1>0, <1>6, <1>7, <1>8, <1>9, <1>10, OwnStep DEF MmapInv, Counted

LEMMA ExitInv ==
  ASSUME MmapInv, Counted, NEW p \in Procs, state[p] = "user", Exit(p)
  PROVE  MmapInv'
<1>0. Types /\ PageInv /\ SlotOK(p) /\ MapsOK(p)
  BY DEF MmapInv, Slots, Maps
<1>1. /\ state' = [state EXCEPT ![p] = "exit"]
      /\ UNCHANGED <<mapEntries, pte, tables, task, scan, freelist, content, tlb, halted, bent, torn, lost, kind>>
  BY DEF Exit, table, memory, history
<1>2. state'[p] = "exit"
  BY <1>0, <1>1 DEF Types
<1>3. Types'
  BY <1>0, <1>1 DEF Types, States, Counted
<1>4. PageInv'
  BY <1>0, <1>1, KeptPages DEF KeepsPages
<1>5. Own(p)
  BY <1>0, <1>1, <1>2 DEF Own, Free, Counted, Types
<1>6. SlotOK(p)'
  <2>1. Len(mapEntries[p]) \in Nat /\ calls \in Nat /\ calls' \in Nat
    BY <1>0, Sizes DEF Types, Counted
  <2>2. QED
    BY <2>1, <1>0, <1>1, <1>2 DEF SlotOK, Counted
<1>7. MapsOK(p)'
  BY <1>0, <1>1, <1>2, MapsKept
<1>8. QED
  BY <1>0, <1>3, <1>4, <1>5, <1>6, <1>7, OwnStep DEF MmapInv, Counted

LEMMA ExitPageInv ==
  ASSUME MmapInv, Counted, NEW p \in Procs, ExitPage(p)
  PROVE  MmapInv'
<1>1. PICK va \in Window : ClearPte(p, va, NoTask)
  BY DEF ExitPage
<1>2. state[p] = "exit" /\ scan[p] = NoScan /\ state'[p] = "exit"
  BY <1>1 DEF ExitPage, ClearPte
<1>3. NoTask \in Task
  BY Sizes DEF NoTask, Task
<1>4. Unmaps(p)' /\ Filled(p)'
  BY <1>2 DEF Unmaps, Filled
<1>5. state[p] \in {"munmap", "exit"}
  BY <1>2
<1>6. QED
  BY <1>1, <1>2, <1>3, <1>4, <1>5, ClearsMaps

LEMMA ExitEndInv ==
  ASSUME MmapInv, Counted, NEW p \in Procs, ExitEnd(p)
  PROVE  MmapInv'
<1>0. Types /\ PageInv /\ SlotOK(p) /\ MapsOK(p)
  BY DEF MmapInv, Slots, Maps
<1>1. /\ state' = [state EXCEPT ![p] = "ZOMBIE"]
      /\ UNCHANGED <<mapEntries, pte, tables, task, scan, freelist, content, tlb, halted, bent, torn, lost, kind>>
      /\ state[p] = "exit" /\ scan[p] = NoScan /\ Mapped(p) = {}
  BY DEF ExitEnd, table, memory, history
<1>2. state'[p] = "ZOMBIE" /\ \A va \in Window : pte[p][va] = None
  BY <1>0, <1>1 DEF Types, Mapped
<1>3. Types'
  BY <1>0, <1>1 DEF Types, States, Counted
<1>4. PageInv'
  BY <1>0, <1>1, KeptPages DEF KeepsPages
<1>5. Own(p)
  BY <1>0, <1>1, <1>2 DEF Own, Free, Counted, Types
<1>6. SlotOK(p)'
  <2>1. Len(mapEntries[p]) \in Nat /\ calls \in Nat /\ calls' \in Nat
    BY <1>0, Sizes DEF Types, Counted
  <2>2. QED
    BY <2>1, <1>0, <1>1, <1>2 DEF SlotOK, Counted
<1>7. MapsOK(p)'
  BY <1>0, <1>1, <1>2, MapsKept
<1>8. QED
  BY <1>0, <1>3, <1>4, <1>5, <1>6, <1>7, OwnStep DEF MmapInv, Counted


LEMMA WaitInv ==
  ASSUME MmapInv, Counted, NEW p \in Procs, Wait(p)
  PROVE  MmapInv'
<1>0. Types /\ PageInv /\ SlotOK(p) /\ MapsOK(p)
  BY DEF MmapInv, Slots, Maps
<1>1. /\ state' = [state EXCEPT ![p] = "UNUSED"] /\ mapEntries' = [mapEntries EXCEPT ![p] = <<>>]
      /\ tables' = tables \ {p} /\ tlb' = [tlb EXCEPT ![p] = Empty] /\ bent' = bent \ {p}
      /\ UNCHANGED <<pte, task, scan, freelist, content, halted, torn, lost, kind>>
      /\ state[p] = "ZOMBIE"
  BY DEF Wait, memory
<1>2. state'[p] = "UNUSED" /\ mapEntries'[p] = <<>> /\ \A va \in Window : pte[p][va] = None
  BY <1>0, <1>1 DEF Types, SlotOK
<1>3. Types'
  <2>1. tlb' \in [Procs -> [Window -> Frames]]
    BY <1>0, <1>1 DEF Types, Empty, Frames
  <2>2. mapEntries' \in [Procs -> Seq(Entry)]
    BY <1>0, <1>1 DEF Types
  <2>3. QED
    BY <2>1, <2>2, <1>0, <1>1 DEF Types, States, Counted
<1>4. PageInv'
  BY <1>0, <1>1, <1>2, KeptPages DEF KeepsPages
<1>5. Own(p)
  BY <1>0, <1>1, <1>2 DEF Own, Free, Counted, Types
<1>6. SlotOK(p)'
  <2>1. calls \in Nat /\ calls' \in Nat /\ scan[p] = NoScan /\ p \notin bent'
    BY <1>0, <1>1, Sizes DEF Types, Counted, SlotOK
  <2>2. QED
    BY <2>1, <1>1, <1>2 DEF SlotOK
<1>7. MapsOK(p)'
  <2>1. Valid(p)' = {}
    BY <1>2 DEF Valid
  <2>2. Placed(p)' /\ Unmaps(p)' /\ Apart(p)' /\ GuardsFree(p)' /\ Filled(p)' /\ Kinds(p)'
    BY <2>1, <1>2 DEF Placed, Unmaps, Apart, GuardsFree, Filled, Kinds
  <2>3. QED
    BY <2>2 DEF MapsOK
<1>8. QED
  BY <1>0, <1>3, <1>4, <1>5, <1>6, <1>7, OwnStep DEF MmapInv, Counted

LEMMA ExecInv ==
  ASSUME MmapInv, Counted, NEW p \in Procs, state[p] = "user", Exec(p)
  PROVE  MmapInv'
<1>0. Types /\ PageInv /\ SlotOK(p) /\ MapsOK(p)
  BY DEF MmapInv, Slots, Maps
<1>1. CASE Halt("panic") \/ Halt("corrupt")
  BY <1>1, HaltInv
<1>2. CASE ~(Halt("panic") \/ Halt("corrupt"))
  <2>1. Mapped(p) \subseteq Pages /\ Mapped(p) \cap ToSet(freelist) = {}
    BY <1>2 DEF Exec
  <2>2. /\ \E vas \in Downwards(p) : freelist' = [i \in DOMAIN vas |-> pte[p][vas[i]]] \o freelist
        /\ content' = [g \in Pages |-> IF g \in Mapped(p) THEN Junk ELSE content[g]]
        /\ pte' = [pte EXCEPT ![p] = Empty] /\ tables' = tables \ {p}
        /\ tlb' = [tlb EXCEPT ![p] = Empty]
        /\ torn' = torn \cup {g \in Mapped(p) : Sharers(g) # {p} \/ Scanners(g) # {}}
        /\ bent' = IF Valid(p) = {} THEN bent ELSE bent \cup {p}
        /\ UNCHANGED <<state, mapEntries, task, scan, halted, lost, kind>>
    BY <1>2, <2>1 DEF Exec
  <2>3. /\ \A q \in Procs, v \in Window : pte'[q][v] = IF q = p THEN None ELSE pte[q][v]
        /\ \A q \in Procs : q # p => pte'[q] = pte[q]
    BY <1>0, <2>2 DEF Types, Empty
  <2>4. \A g : g \in torn' <=> g \in torn \/ \E v \in Window :
          /\ pte[p][v] = g /\ g # None
          /\ \/ \E q \in Procs, w \in Window : q # p /\ pte[q][w] = g
             \/ \E q \in Procs : scan[q].page = g
    <3>1. \A g : g \in Mapped(p) <=> \E v \in Window : pte[p][v] = g /\ g # None
      BY DEF Mapped
    <3>2. ASSUME NEW g, g \in Mapped(p)
          PROVE  Sharers(g) # {p} <=> \E q \in Procs, w \in Window : q # p /\ pte[q][w] = g
      <4>1. g # None
        BY <3>1, <3>2
      <4>2. \A q : q \in Sharers(g) <=> q \in Procs /\ \E w \in Window : pte[q][w] = g
        BY <4>1 DEF Sharers, Mapped
      <4>3. p \in Sharers(g)
        BY <3>2 DEF Sharers
      <4>4. QED
        BY <4>2, <4>3
    <3>3. \A g : Scanners(g) # {} <=> \E q \in Procs : scan[q].page = g
      BY DEF Scanners
    <3>4. \A g : g \in torn' <=> g \in torn \/ (g \in Mapped(p) /\ (Sharers(g) # {p} \/ Scanners(g) # {}))
      BY <2>2
    <3>5. QED
      BY <3>1, <3>2, <3>3, <3>4
  <2>5. Frees(p)
    <3>1. \A v \in Window : pte[p][v] \in Pages \cup {None}
      BY <2>1 DEF Mapped
    <3>2. \A v \in Window, i \in 1 .. Len(freelist) : freelist[i] # pte[p][v]
      <4>1. \A i \in 1 .. Len(freelist) : freelist[i] \in Pages /\ freelist[i] \in ToSet(freelist)
        BY <1>0 DEF Types, ToSet
      <4>2. \A v \in Window : pte[p][v] = None \/ pte[p][v] \in Mapped(p)
        BY DEF Mapped
      <4>3. QED
        BY <4>1, <4>2, <2>1, Frame
    <3>3. UNCHANGED <<scan, lost, kind>> /\ bent \subseteq bent'
      BY <2>2
    <3>4. \E vas \in Downwards(p) : freelist' = [i \in DOMAIN vas |-> pte[p][vas[i]]] \o freelist
      BY <2>2
    <3>5. QED
      BY <2>3, <2>4, <3>1, <3>2, <3>3, <3>4, Zenon DEF Frees
  <2>6. PageInv' /\ freelist' \in Seq(Pages)
    BY <1>0, <2>5, FreesAll
  <2>7. Types'
    <3>1. tlb' \in [Procs -> [Window -> Frames]] /\ pte' \in [Procs -> [Window -> Frames]]
      BY <1>0, <2>2 DEF Types, Empty, Frames
    <3>2. content' \in [Pages -> {Junk} \cup Data]
      BY <1>0, <2>2 DEF Types
    <3>3. QED
      BY <3>1, <3>2, <2>2, <2>6, <1>0 DEF Types, Counted
  <2>8. state'[p] = "user" /\ torn \subseteq torn'
    BY <2>2
  <2>9. Own(p)
    BY <2>2, <2>3, <2>8 DEF Own, Free, Counted
  <2>10. SlotOK(p)'
    <3>1. Len(mapEntries[p]) \in Nat /\ calls \in Nat /\ calls' \in Nat
      BY <1>0, Sizes DEF Types, Counted
    <3>2. scan[p] = NoScan
      BY <1>0 DEF SlotOK
    <3>3. QED
      BY <3>1, <3>2, <1>0, <2>2, <2>3, <2>8 DEF SlotOK, Counted
  <2>11. MapsOK(p)'
    <3>1. Valid(p)' = Valid(p)
      BY <2>2 DEF Valid
    <3>2. Placed(p)' /\ Unmaps(p)'
      BY <3>1, <2>2, <2>8, <1>0 DEF MapsOK, Placed, Unmaps
    <3>3. p \notin bent' => Valid(p) = {}
      BY <2>2
    <3>4. p \notin bent' => Apart(p)' /\ GuardsFree(p)' /\ Filled(p)' /\ Kinds(p)'
      BY <3>1, <3>3 DEF Apart, GuardsFree, Filled, Kinds
    <3>5. QED
      BY <3>2, <3>4, Zenon DEF MapsOK
  <2>12. QED
    BY <1>0, <2>6, <2>7, <2>9, <2>10, <2>11, OwnStep DEF MmapInv, Counted
<1>3. QED
  BY <1>1, <1>2

-----------------------------------------------------------------------------
(* A mapping grows into its guard page. *)
LEMMA GrownIs ==
  ASSUME NEW e \in Entry, InPlace(e), "GROWSUP" \in e.flags, e.start + e.numPages + 1 \in Window
  PROVE  /\ Grown(e) \in Entry /\ InPlace(Grown(e)) /\ Grown(e).isValid = e.isValid
         /\ Grown(e).flags = e.flags /\ e.guard = e.start + e.numPages /\ e.guard # 0
         /\ Grown(e).guard = e.guard + 1 /\ Grown(e).guard # 0
         /\ Extent(Grown(e)) = Extent(e) \cup {e.guard}
         /\ Territory(Grown(e)) = Territory(e) \cup {e.guard + 1}
<1> DEFINE f == Grown(e)
<1>1. e.guard = e.start + e.numPages /\ e.guard # 0 /\ e.guard \in Nat
  BY DEF InPlace, Entry
<1>2. /\ f.flags = e.flags /\ f.isValid = e.isValid /\ f.numPages = e.numPages + 1
      /\ f.start = e.start /\ f.guard = e.guard + 1
  BY DEF Grown
<1>3. f \in Entry
  BY <1>1 DEF Grown, Entry
<1> HIDE DEF f
<1>4. InPlace(f)
  BY <1>1, <1>2, Sizes DEF InPlace, Entry, Window
<1>5. Extent(f) = Extent(e) \cup {e.guard}
  BY <1>1, <1>2 DEF Extent, InPlace, Entry
<1>6. Territory(e) = Extent(e) \cup {e.guard} /\ Territory(f) = Extent(f) \cup {e.guard + 1}
  BY <1>1, <1>2 DEF Territory
<1>7. Territory(f) = Territory(e) \cup {e.guard + 1}
  BY <1>5, <1>6
<1>8. QED
  BY <1>1, <1>2, <1>3, <1>4, <1>5, <1>7 DEF f

(* The new page, or what kalloc returns in its place. *)
Grows(p, va, g, k) ==
  /\ g \in Pages \cup {NoRam}
  /\ pte' = [pte EXCEPT ![p][va] = g]
  /\ freelist' \in Seq(Pages) /\ kind' \in [Pages -> {"none", "private", "shared"}]
  /\ \A q \in Procs, v \in Window : pte[q][v] \in Pages \ torn => kind'[pte[q][v]] = kind[pte[q][v]]
  /\ g \in Pages => kind'[g] = k

LEMMA GrowsPages ==
  ASSUME Types, PageInv, NEW p \in Procs, NEW va \in Window, pte[p][va] = None,
         NEW k \in {"private", "shared"},
         pte' = [pte EXCEPT ![p][va] = IF freelist = <<>> THEN NoRam ELSE Head(freelist)],
         freelist' = Drop(freelist, 1),
         kind' = [g \in Pages |-> IF g \in Taken(1) THEN k ELSE kind[g]],
         UNCHANGED <<scan, torn, lost, bent>>
  PROVE  PageInv' /\ \E g : Grows(p, va, g, k)
<1>0. /\ freelist \in Seq(Pages) /\ Len(freelist) \in Nat
      /\ kind \in [Pages -> {"none", "private", "shared"}]
      /\ pte \in [Procs -> [Window -> Frames]]
  BY DEF Types
<1>1. CASE freelist = <<>>
  <2>1. Taken(1) = {}
    BY <1>1 DEF Taken
  <2>2. freelist' = <<>>
    BY <1>1 DEF Drop
  <2>3. kind' = kind
    BY <2>1, <1>0
  <2>4. pte' = [pte EXCEPT ![p][va] = NoRam]
    BY <1>1
  <2>5. PageInv'
    BY <1>1, <2>2, <2>3, <2>4, TakesNothing
  <2>6. Grows(p, va, NoRam, k)
    <3>1. freelist' \in Seq(Pages) /\ kind' \in [Pages -> {"none", "private", "shared"}]
      BY <1>0, <1>1, <2>2, <2>3
    <3>2. QED
      BY <3>1, <2>3, <2>4, Frame DEF Grows
  <2>7. QED
    BY <2>5, <2>6
<1>2. CASE freelist # <<>>
  <2>1. 1 \in Nat /\ 1 <= Len(freelist) /\ Head(freelist) = freelist[1] /\ freelist[1] \in Pages
    BY <1>0, <1>2
  <2>2. pte' = [pte EXCEPT ![p][va] = freelist[1]]
    BY <1>2, <2>1
  <2>3. /\ va \in Nat /\ va + 1 <= NWINDOW + 1 /\ va - va + 1 = 1
        /\ \A w \in Window : w \in va .. va + 1 - 1 <=> w = va
        /\ \A w \in va .. va + 1 - 1 : w = va
    BY Sizes DEF Window
  <2>4. \A q \in Procs, w \in Window :
          pte'[q][w] = IF q = p /\ w \in va .. va + 1 - 1 THEN freelist[w - va + 1] ELSE pte[q][w]
    <3>1. \A q \in Procs, w \in Window : pte'[q][w] = IF q = p /\ w = va THEN freelist[1] ELSE pte[q][w]
      BY <2>2, <1>0
    <3>2. QED
      BY <3>1, <2>3
  <2>5. Takes(p, va, 1, k)
    BY <2>1, <2>3, <2>4 DEF Takes
  <2>6. PageInv'
    BY <2>5, TakesPages
  <2>7. freelist' \in Seq(Pages)
    BY <1>0, <2>1, Dropped
  <2>8. \A q \in Procs, v \in Window : pte[q][v] \in Pages \ torn => kind'[pte[q][v]] = kind[pte[q][v]]
    BY <2>1, KindKept
  <2>9. freelist[1] \in Taken(1)
    BY <1>0, <2>1, TakenIs
  <2>10. Grows(p, va, freelist[1], k)
    BY <1>0, <2>1, <2>2, <2>7, <2>8, <2>9 DEF Grows
  <2>11. QED
    BY <2>6, <2>10
<1>3. QED
  BY <1>1, <1>2

LEMMA PageFaultInv ==
  ASSUME MmapInv, NEW p \in Procs, Call(p), NEW va \in Window, PageFault(p, va)
  PROVE  MmapInv'
<1>0. /\ Types /\ PageInv /\ SlotOK(p) /\ MapsOK(p) /\ Counted
      /\ mapEntries[p] \in Seq(Entry) /\ va \in Nat /\ state[p] = "user"
  BY CallCounts DEF MmapInv, Slots, Maps, Types, Window, Call
<1>1. PICK i \in cangrowup(p, va) :
        /\ pte' = [pte EXCEPT ![p][va] = IF freelist = <<>> THEN NoRam ELSE Head(freelist)]
        /\ tables' = tables \cup {p} /\ freelist' = Drop(freelist, 1)
        /\ kind' = [g \in Pages |-> IF g \in Taken(1) THEN Kind(mapEntries[p][i].flags) ELSE kind[g]]
        /\ mapEntries' = [mapEntries EXCEPT ![p][i] = Grown(@)]
  BY DEF PageFault
<1> DEFINE e == mapEntries[p][i]
           k == Kind(e.flags)
<1>2. /\ UNCHANGED <<state, task, scan, content, tlb, halted, bent, torn, lost>>
      /\ pte[p][va] = None
  BY DEF PageFault
<1>3. /\ i \in Valid(p) /\ "GROWSUP" \in e.flags /\ va = e.start + e.numPages
      /\ canallocatva(p, va + 1, 1)
  BY DEF cangrowup
<1>4. i \in 1 .. Len(mapEntries[p]) /\ e \in Entry /\ InPlace(e)
  BY <1>0, <1>3, EntryHas DEF MapsOK, Placed, Valid
<1>5. va + 1 \in Window /\ pte[p][va + 1] = None /\ ~isguardpage(p, va + 1)
  BY <1>0, <1>3, CanAllocate
<1>6. /\ Grown(e) \in Entry /\ InPlace(Grown(e)) /\ Grown(e).isValid = e.isValid
      /\ Grown(e).flags = e.flags /\ e.guard = va /\ e.guard # 0
      /\ Grown(e).guard = va + 1 /\ Grown(e).guard # 0
      /\ Extent(Grown(e)) = Extent(e) \cup {va}
      /\ Territory(Grown(e)) = Territory(e) \cup {va + 1}
  BY <1>3, <1>4, <1>5, GrownIs
<1>7. k \in {"private", "shared"} /\ ("SHARED" \in e.flags => k = "shared")
  BY DEF Kind
<1>8. kind' = [g \in Pages |-> IF g \in Taken(1) THEN k ELSE kind[g]]
  BY <1>1
<1> HIDE DEF k
<1>9. PageInv' /\ \E g : Grows(p, va, g, k)
  BY <1>0, <1>1, <1>2, <1>7, <1>8, GrowsPages
<1>10. PICK g : Grows(p, va, g, k)
  BY <1>9
<1>11. mapEntries' = [mapEntries EXCEPT ![p][i] = Grown(e)]
  BY <1>0, <1>1, <1>4 DEF Types
<1> DEFINE f == Grown(e)
<1> HIDE DEF f
<1>12. /\ mapEntries'[p] = [mapEntries[p] EXCEPT ![i] = f]
       /\ \A q \in Procs : q # p => mapEntries'[q] = mapEntries[q]
  BY <1>0, <1>11 DEF Types, f
<1>13. f \in Entry
  BY <1>6 DEF f
<1>14. /\ mapEntries'[p] \in Seq(Entry) /\ Len(mapEntries'[p]) = Len(mapEntries[p])
       /\ DOMAIN mapEntries'[p] = DOMAIN mapEntries[p]
       /\ \A j \in DOMAIN mapEntries[p] : mapEntries'[p][j] = IF j = i THEN f ELSE mapEntries[p][j]
  BY <1>0, <1>4, <1>12, <1>13
<1>15. /\ \A q \in Procs, v \in Window : pte'[q][v] = IF q = p /\ v = va THEN g ELSE pte[q][v]
       /\ \A q \in Procs : q # p => pte'[q] = pte[q]
       /\ g # None /\ g \in Frames
  <2>1. pte \in [Procs -> [Window -> Frames]]
    BY <1>0 DEF Types
  <2>2. pte' = [pte EXCEPT ![p][va] = g] /\ g \in Pages \cup {NoRam}
    BY <1>10 DEF Grows
  <2>3. None # NoRam
    BY Sizes DEF None, NoRam
  <2>4. g # None /\ g \in Frames
    BY <2>2, <2>3, Frame DEF Frames
  <2>5. QED
    BY <2>1, <2>2, <2>4
<1>16. Types'
  <2>1. mapEntries' \in [Procs -> Seq(Entry)]
    BY <1>0, <1>11, <1>12, <1>14 DEF Types
  <2>2. pte' \in [Procs -> [Window -> Frames]]
    BY <1>0, <1>10, <1>15 DEF Grows, Types
  <2>3. tables' \subseteq Procs /\ freelist' \in Seq(Pages)
        /\ kind' \in [Pages -> {"none", "private", "shared"}]
    BY <1>0, <1>1, <1>10 DEF Grows, Types
  <2>4. QED
    BY <2>1, <2>2, <2>3, <1>0, <1>2 DEF Types, Counted
<1>17. \A q \in Procs, v \in Window : pte[q][v] \in Pages \ torn => kind'[pte[q][v]] = kind[pte[q][v]]
  BY <1>10 DEF Grows
<1>18. Own(p)
  BY <1>0, <1>1, <1>2, <1>12, <1>15, <1>17 DEF Own, Free, Counted
<1>19. SlotOK(p)'
  <2>1. Len(mapEntries[p]) \in Nat /\ calls \in Nat /\ calls' \in Nat
    BY <1>0, Sizes DEF Types, Counted
  <2>2. scan[p] = NoScan
    BY <1>0 DEF SlotOK
  <2>3. QED
    BY <2>1, <2>2, <1>0, <1>1, <1>2, <1>14 DEF SlotOK, Counted
<1>20. MapsOK(p)'
  <2>1. /\ Valid(p)' = Valid(p)
        /\ \A j \in Valid(p) : mapEntries'[p][j] = IF j = i THEN f ELSE mapEntries[p][j]
    BY <1>3, <1>6, <1>14 DEF Valid, f
  <2>2. Placed(p)'
    BY <2>1, <1>0, <1>6 DEF MapsOK, Placed, f
  <2>3. Unmaps(p)'
    BY <1>0, <1>2 DEF Unmaps
  <2>4. ASSUME p \notin bent' PROVE Apart(p)' /\ GuardsFree(p)' /\ Filled(p)' /\ Kinds(p)'
    <3>1. Apart(p) /\ GuardsFree(p) /\ Filled(p) /\ Kinds(p)
      BY <2>4, <1>0, <1>2 DEF MapsOK
    <3>2. ASSUME NEW j \in Valid(p)
          PROVE  /\ Territory(mapEntries[p][j]) \subseteq Window
                 /\ Extent(mapEntries[p][j]) \subseteq Window
                 /\ mapEntries[p][j].guard # 0 => mapEntries[p][j].guard \in Window
      <4>1. Territory(mapEntries[p][j]) \subseteq Window /\ Extent(mapEntries[p][j]) \subseteq Window
        BY <1>0, EntryHas, Extends DEF MapsOK, Placed, Valid
      <4>2. QED
        BY <4>1 DEF Territory
    <3>3. ASSUME NEW j \in Valid(p), j # i
          PROVE  va \notin Territory(mapEntries[p][j]) /\ va + 1 \notin Territory(mapEntries[p][j])
      <4>1. va \in Territory(e)
        BY <1>6 DEF Territory
      <4>2. va \notin Territory(mapEntries[p][j])
        BY <4>1, <3>1, <3>3, <1>3 DEF Apart
      <4>3. va + 1 \notin Extent(mapEntries[p][j])
        BY <3>1, <1>0, <1>5 DEF Filled
      <4>4. mapEntries[p][j].guard # va + 1
        BY <1>5 DEF isguardpage
      <4>5. QED
        BY <4>2, <4>3, <4>4 DEF Territory
    <3>4. Apart(p)'
      <4>1. ASSUME NEW j \in Valid(p), j # i
            PROVE  Territory(mapEntries[p][j]) \cap Territory(f) = {}
        <5>1. Territory(mapEntries[p][j]) \cap Territory(e) = {}
          BY <4>1, <3>1, <1>3 DEF Apart
        <5>2. QED
          BY <4>1, <5>1, <3>3, <1>6 DEF f
      <4>2. \A j, l \in Valid(p) : j # l =>
              Territory(mapEntries'[p][j]) \cap Territory(mapEntries'[p][l]) = {}
        <5>1. ASSUME NEW j \in Valid(p), NEW l \in Valid(p), j # l
              PROVE  Territory(mapEntries'[p][j]) \cap Territory(mapEntries'[p][l]) = {}
          <6>1. CASE j = i
            BY <6>1, <5>1, <4>1, <2>1
          <6>2. CASE l = i
            BY <6>2, <5>1, <4>1, <2>1
          <6>3. CASE j # i /\ l # i
            BY <6>3, <5>1, <3>1, <2>1 DEF Apart
          <6>4. QED
            BY <6>1, <6>2, <6>3
        <5>2. QED
          BY <5>1
      <4>3. QED
        BY <4>2, <2>1 DEF Apart, Territory, Extent
    <3>5. GuardsFree(p)'
      <4>1. ASSUME NEW j \in Valid(p), mapEntries'[p][j].guard # 0
            PROVE  pte'[p][mapEntries'[p][j].guard] = None
        <5>1. CASE j = i
          <6>1. mapEntries'[p][j].guard = va + 1 /\ va + 1 # va
            BY <5>1, <2>1, <1>0, <1>6 DEF f
          <6>2. QED
            BY <6>1, <1>5, <1>15
        <5>2. CASE j # i
          <6>1. mapEntries'[p][j] = mapEntries[p][j] /\ mapEntries[p][j].guard # 0
            BY <5>2, <4>1, <2>1
          <6>2. mapEntries[p][j].guard \in Territory(mapEntries[p][j])
            BY <6>1 DEF Territory
          <6>3. mapEntries[p][j].guard # va /\ mapEntries[p][j].guard \in Window
            BY <5>2, <6>1, <6>2, <3>2, <3>3
          <6>4. QED
            BY <6>1, <6>3, <3>1, <1>15 DEF GuardsFree
        <5>3. QED
          BY <5>1, <5>2
      <4>2. QED
        BY <4>1, <2>1 DEF GuardsFree
    <3>6. \A j \in Valid(p) : \A v \in Extent(mapEntries'[p][j]) :
            (v = va /\ j = i) \/ (v \in Extent(mapEntries[p][j]) /\ v \in Window /\ v # va)
      <4>1. ASSUME NEW j \in Valid(p), NEW v \in Extent(mapEntries'[p][j])
            PROVE  (v = va /\ j = i) \/ (v \in Extent(mapEntries[p][j]) /\ v \in Window /\ v # va)
        <5>1. CASE j = i
          <6>1. v \in Extent(e) \cup {va}
            BY <5>1, <4>1, <2>1, <1>6 DEF f
          <6>2. Extent(e) \subseteq Window
            BY <1>3, <3>2
          <6>3. CASE v = va
            BY <6>3, <5>1
          <6>4. CASE v # va
            BY <6>1, <6>2, <6>4, <5>1
          <6>5. QED
            BY <6>3, <6>4
        <5>2. CASE j # i
          BY <5>2, <4>1, <2>1, <3>2, <3>3 DEF Territory
        <5>3. QED
          BY <5>1, <5>2
      <4>2. QED
        BY <4>1
    <3>7. Filled(p)'
      <4>1. \A j \in Valid(p) : \A v \in Extent(mapEntries[p][j]) : pte[p][v] # None
        BY <3>1, <1>0 DEF Filled
      <4>2. \A j \in Valid(p) : \A v \in Extent(mapEntries'[p][j]) : pte'[p][v] # None
        BY <4>1, <3>6, <1>15
      <4>3. QED
        BY <4>2, <2>1 DEF Filled, Extent
    <3>8. Kinds(p)'
      <4>1. ASSUME NEW j \in Valid(p), "SHARED" \in mapEntries'[p][j].flags,
                   NEW v \in Extent(mapEntries'[p][j]), pte'[p][v] \in Pages \ torn'
            PROVE  kind'[pte'[p][v]] = "shared"
        <5>1. "SHARED" \in mapEntries[p][j].flags
          BY <4>1, <2>1, <1>6 DEF f
        <5>2. CASE v = va /\ j = i
          BY <5>1, <5>2, <4>1, <1>7, <1>10, <1>15 DEF Grows
        <5>3. CASE v \in Extent(mapEntries[p][j]) /\ v \in Window /\ v # va
          <6>1. pte'[p][v] = pte[p][v] /\ pte[p][v] \in Pages \ torn
            BY <5>3, <4>1, <1>2, <1>15
          <6>2. kind[pte[p][v]] = "shared"
            BY <6>1, <5>1, <5>3, <3>1 DEF Kinds
          <6>3. QED
            BY <6>1, <6>2, <5>3, <1>17
        <5>4. QED
          BY <5>2, <5>3, <4>1, <3>6
      <4>2. QED
        BY <4>1, <2>1 DEF Kinds, Extent
    <3>9. QED
      BY <3>4, <3>5, <3>7, <3>8
  <2>5. QED
    BY <2>2, <2>3, <2>4, Zenon DEF MapsOK
<1>21. QED
  BY <1>0, <1>9, <1>16, <1>18, <1>19, <1>20, OwnStep DEF MmapInv, Counted

-----------------------------------------------------------------------------
(* fork *)
LEMMA SlotKept ==
  ASSUME Types, Counted, NEW q \in Procs, SlotOK(q), mapEntries'[q] = mapEntries[q],
         pte'[q] = pte[q], state'[q] = state[q], scan'[q] = scan[q],
         q \in tables' <=> q \in tables, q \in bent' => q \in bent
  PROVE  SlotOK(q)'
<1>1. Len(mapEntries[q]) \in Nat /\ calls \in Nat /\ calls' \in Nat
  BY Sizes DEF Types, Counted
<1>2. Len(mapEntries'[q]) <= calls'
  BY <1>1 DEF SlotOK, Counted
<1>3. QED
  BY <1>2 DEF SlotOK

LEMMA ForkInv ==
  ASSUME MmapInv, NEW p \in Procs, Call(p), NEW c \in Procs, Fork(p, c)
  PROVE  MmapInv'
<1>0. Types /\ PageInv /\ Slots /\ Forks /\ Maps /\ Copying /\ Counted
  BY CallCounts DEF MmapInv
<1>1. /\ state' = [state EXCEPT ![p] = "fork", ![c] = "EMBRYO"]
      /\ task' = [task EXCEPT ![p] = [NoTask EXCEPT !.child = c]]
      /\ UNCHANGED <<mapEntries, pte, tables, scan, freelist, content, tlb, halted, bent, torn, lost, kind>>
      /\ state[p] = "user" /\ state[c] = "UNUSED" /\ PtableFree
  BY DEF Fork, Call, table, memory, history
<1> DEFINE t == [NoTask EXCEPT !.child = c]
<1>2. t \in Task /\ t.child = c /\ t.entry = 0 /\ t.left = 0
  BY DEF NoTask, Task, Procs
<1> HIDE DEF t
<1>3. /\ p # c /\ state'[p] = "fork" /\ state'[c] = "EMBRYO"
      /\ \A q \in Procs : q # p /\ q # c => state'[q] = state[q]
      /\ task'[p] = t /\ \A q \in Procs : q # p => task'[q] = task[q]
  BY <1>0, <1>1 DEF Types, t
<1>4. Types'
  <2>1. task' \in [Procs -> Task] /\ state' \in [Procs -> States]
    BY <1>0, <1>1, <1>2 DEF Types, States, t
  <2>2. QED
    BY <2>1, <1>0, <1>1 DEF Types, Counted
<1>5. PageInv'
  BY <1>0, <1>1, KeptPages DEF KeepsPages
<1>6. Slots'
  <2>1. ASSUME NEW q \in Procs PROVE SlotOK(q)'
    <3>1. Len(mapEntries[q]) \in Nat /\ calls \in Nat /\ calls' \in Nat
      BY <1>0, Sizes DEF Types, Counted
    <3>2. SlotOK(q)
      BY <1>0 DEF Slots
    <3>3. CASE q # p /\ q # c
      BY <3>2, <3>3, <1>0, <1>1, <1>3, SlotKept
    <3>4. CASE q = p
      BY <3>1, <3>2, <3>4, <1>0, <1>1, <1>3 DEF SlotOK, Counted
    <3>5. CASE q = c
      BY <3>1, <3>2, <3>5, <1>0, <1>1, <1>3 DEF SlotOK, Counted
    <3>6. QED
      BY <3>3, <3>4, <3>5
  <2>2. QED
    BY <2>1, Zenon DEF Slots
<1>7. Forks'
  <2>1. \A q \in Procs : Forking(q) => q # p /\ q # c /\ task[q].child # p /\ task[q].child # c
    BY <1>0, <1>1 DEF Forks, Forking
  <2>2. \A q \in Procs : Forking(q)' => q = p \/ (Forking(q) /\ q # p /\ q # c)
    BY <1>3 DEF Forking
  <2>3. \A q \in Procs : state'[q] # "copy"
    BY <1>1, <1>3 DEF PtableFree
  <2>4. \A q \in Procs : Forking(q)' =>
          /\ task'[q].child \in Procs
          /\ state'[task'[q].child] = IF state'[q] = "fork" THEN "EMBRYO" ELSE "new"
    <3>1. ASSUME NEW q \in Procs, Forking(q), q # p, q # c
          PROVE  /\ task'[q].child \in Procs
                 /\ state'[task'[q].child] = IF state'[q] = "fork" THEN "EMBRYO" ELSE "new"
      <4>1. task'[q] = task[q] /\ state'[q] = state[q] /\ task[q].child \in Procs
            /\ state[task[q].child] = IF state[q] = "fork" THEN "EMBRYO" ELSE "new"
        BY <3>1, <1>0, <1>3 DEF Forks
      <4>2. state'[task[q].child] = state[task[q].child]
        BY <3>1, <4>1, <2>1, <1>3
      <4>3. QED
        BY <4>1, <4>2
    <3>2. QED
      BY <3>1, <2>2, <1>2, <1>3
  <2>5. \A q, r \in Procs : Forking(q)' /\ Forking(r)' /\ q # r => task'[q].child # task'[r].child
    <3>1. \A q \in Procs : Forking(q) => task'[q].child = task[q].child /\ task[q].child # c
      BY <2>1, <1>3
    <3>2. task'[p].child = c
      BY <1>2, <1>3
    <3>3. \A q, r \in Procs : Forking(q) /\ Forking(r) /\ q # r => task[q].child # task[r].child
      BY <1>0 DEF Forks
    <3>4. QED
      BY <3>1, <3>2, <3>3, <2>2
  <2>6. \A q \in Procs : state'[q] = "fork" => task'[q].entry = 0 /\ task'[q].left = 0
    BY <1>0, <1>2, <1>3 DEF Forks
  <2>7. QED
    BY <2>3, <2>4, <2>5, <2>6 DEF Forks
<1>8. Maps'
  <2>1. ASSUME NEW q \in Procs PROVE MapsOK(q)'
    <3>1. \/ state'[q] = state[q] /\ task'[q] = task[q]
          \/ /\ state[q] \notin {"munmap", "exit", "ZOMBIE"} \/ state'[q] \in {"exit", "ZOMBIE"}
             /\ state'[q] # "munmap"
      BY <1>1, <1>3
    <3>2. QED
      BY <3>1, <1>0, <1>1, MapsKept DEF Maps
  <2>2. QED
    BY <2>1, Zenon DEF Maps
<1>9. Copying'
  <2>1. \A q \in Procs : state'[q] # "copy"
    BY <1>1, <1>3 DEF PtableFree
  <2>2. QED
    BY <2>1, Zenon DEF Copying
<1>10. QED
  BY <1>4, <1>5, <1>6, <1>7, <1>8, <1>9 DEF MmapInv

LEMMA ForkCopyInv ==
  ASSUME MmapInv, Counted, NEW p \in Procs, ForkCopy(p)
  PROVE  MmapInv'
<1>0. Types /\ PageInv /\ Slots /\ Forks /\ Maps /\ Copying
  BY DEF MmapInv
<1>a. PICK c \in Procs : c = task[p].child
  BY <1>0 DEF ForkCopy, Forks, Forking
<1>1. /\ state' = [state EXCEPT ![p] = "copy", ![c] = "new"]
      /\ bent' = IF p \in bent THEN bent \cup {c} ELSE bent
      /\ UNCHANGED <<mapEntries, pte, tables, task, scan, freelist, content, tlb, halted, torn, lost, kind>>
      /\ state[p] = "fork" /\ PtableFree
  BY <1>a DEF ForkCopy, table, memory
<1>2. /\ c \in Procs /\ state[c] = "EMBRYO" /\ p # c /\ Forking(p)
      /\ task[p].entry = 0 /\ task[p].left = 0
  BY <1>0, <1>1, <1>a DEF Forks, Forking
<1>3. /\ state'[p] = "copy" /\ state'[c] = "new"
      /\ \A q \in Procs : q # p /\ q # c => state'[q] = state[q] /\ state'[q] # "copy"
  BY <1>0, <1>1, <1>2 DEF Types, PtableFree
<1>4. Types'
  BY <1>0, <1>1, <1>2 DEF Types, States, Counted
<1>5. PageInv'
  BY <1>0, <1>1, KeptPages DEF KeepsPages
<1>6. mapEntries[c] = <<>> /\ \A va \in Window : pte[c][va] = None
  BY <1>0, <1>2 DEF Slots, SlotOK
<1>7. Slots'
  <2>1. ASSUME NEW q \in Procs PROVE SlotOK(q)'
    <3>1. Len(mapEntries[q]) \in Nat /\ calls \in Nat /\ calls' \in Nat
      BY <1>0, Sizes DEF Types, Counted
    <3>2. SlotOK(q)
      BY <1>0 DEF Slots
    <3>3. CASE q # p /\ q # c
      <4>1. q \in bent' => q \in bent
        BY <3>3, <1>1
      <4>2. QED
        BY <3>2, <3>3, <4>1, <1>0, <1>1, <1>3, SlotKept
    <3>4. CASE q = p
      BY <3>1, <3>2, <3>4, <1>0, <1>1, <1>3 DEF SlotOK, Counted
    <3>5. CASE q = c
      <4>1. scan[c] = NoScan
        BY <3>2, <3>5, <1>2 DEF SlotOK
      <4>2. QED
        BY <3>1, <3>2, <3>5, <4>1, <1>0, <1>1, <1>3, <1>6 DEF SlotOK, Counted
    <3>6. QED
      BY <3>3, <3>4, <3>5
  <2>2. QED
    BY <2>1, Zenon DEF Slots
<1>8. Forks'
  <2>1. \A q \in Procs : Forking(q)' => Forking(q) /\ q # c
    BY <1>1, <1>2, <1>3 DEF Forking
  <2>2. \A q \in Procs : Forking(q) /\ q # p =>
          task[q].child # c /\ task[q].child # p /\ task[q].child \in Procs
    BY <1>0, <1>1, <1>2, <1>a DEF Forks, Forking
  <2>3. \A q \in Procs : Forking(q)' =>
          /\ task[q].child \in Procs
          /\ state'[task[q].child] = IF state'[q] = "fork" THEN "EMBRYO" ELSE "new"
    <3>1. ASSUME NEW q \in Procs, Forking(q), q # p, q # c
          PROVE  /\ task[q].child \in Procs
                 /\ state'[task[q].child] = IF state'[q] = "fork" THEN "EMBRYO" ELSE "new"
      <4>1. state[task[q].child] = IF state[q] = "fork" THEN "EMBRYO" ELSE "new"
        BY <3>1, <1>0 DEF Forks
      <4>2. state'[q] = state[q] /\ state'[task[q].child] = state[task[q].child]
        BY <3>1, <2>2, <1>3
      <4>3. QED
        BY <3>1, <4>1, <4>2, <2>2
    <3>2. QED
      BY <3>1, <2>1, <1>2, <1>3, <1>a
  <2>4. \A q, r \in Procs : Forking(q)' /\ Forking(r)' /\ q # r => task[q].child # task[r].child
    BY <1>0, <2>1 DEF Forks
  <2>5. \A q, r \in Procs : state'[q] = "copy" /\ state'[r] = "copy" => q = r
    BY <1>3
  <2>6. \A q \in Procs : state'[q] = "fork" => task[q].entry = 0 /\ task[q].left = 0
    BY <1>0, <1>3 DEF Forks
  <2>7. QED
    BY <2>3, <2>4, <2>5, <2>6, <1>1 DEF Forks
<1>9. Maps'
  <2>1. ASSUME NEW q \in Procs PROVE MapsOK(q)'
    <3>1. \/ state'[q] = state[q] /\ task'[q] = task[q]
          \/ /\ state[q] \notin {"munmap", "exit", "ZOMBIE"} \/ state'[q] \in {"exit", "ZOMBIE"}
             /\ state'[q] # "munmap"
      BY <1>1, <1>2, <1>3
    <3>2. QED
      BY <3>1, <1>0, <1>1, MapsKept DEF Maps
  <2>2. QED
    BY <2>1, Zenon DEF Maps
<1>10. Copying'
  <2>1. CopyOf(p, c)'
    <3>1. Len(mapEntries[c]) = 0 /\ Len(mapEntries[p]) \in Nat
      BY <1>0, <1>6 DEF Types
    <3>2. p \in bent' => c \in bent'
      BY <1>1, <1>2
    <3>3. \A i \in 1 .. Len(mapEntries[c]) : FALSE
      BY <3>1
    <3>4. QED
      BY <3>1, <3>2, <3>3, <1>1, <1>2, <1>6 DEF CopyOf
  <2>2. ASSUME NEW q \in Procs, NEW d \in Procs, state'[q] = "copy", task'[q].child = d
        PROVE  CopyOf(q, d)'
    <3>1. q = p /\ d = c
      BY <2>2, <1>1, <1>3, <1>a
    <3>2. QED
      BY <3>1, <2>1
  <2>3. QED
    BY <2>2, Zenon DEF Copying
<1>11. QED
  BY <1>4, <1>5, <1>7, <1>8, <1>9, <1>10 DEF MmapInv

LEMMA ForkEndInv ==
  ASSUME MmapInv, Counted, NEW p \in Procs, ForkEnd(p)
  PROVE  MmapInv'
<1>0. Types /\ PageInv /\ Slots /\ Forks /\ Maps /\ Copying
  BY DEF MmapInv
<1>1. PICK c \in Procs : c = task[p].child
  BY <1>0 DEF ForkEnd, Copies, Forks, Forking
<1>2. /\ state' = [state EXCEPT ![p] = "user", ![c] = "user"]
      /\ task' = [task EXCEPT ![p] = NoTask]
      /\ UNCHANGED <<mapEntries, pte, tables, scan, freelist, content, tlb, halted, bent, torn, lost, kind>>
      /\ state[p] = "copy"
  BY <1>1 DEF ForkEnd, Copies, table, memory, history
<1>3. state[c] = "new" /\ p # c /\ NoTask \in Task
  BY <1>0, <1>1, <1>2, Sizes DEF Forks, Forking, NoTask, Task
<1>4. /\ state'[p] = "user" /\ state'[c] = "user"
      /\ \A q \in Procs : q # p /\ q # c =>
           state'[q] = state[q] /\ task'[q] = task[q] /\ state[q] # "copy"
      /\ task'[c] = task[c]
  BY <1>0, <1>2, <1>3 DEF Types, Forks
<1>5. Types'
  BY <1>0, <1>2, <1>3 DEF Types, States, Counted
<1>6. PageInv'
  BY <1>0, <1>2, KeptPages DEF KeepsPages
<1>7. Slots'
  <2>1. ASSUME NEW q \in Procs PROVE SlotOK(q)'
    <3>1. SlotOK(q)
      BY <1>0 DEF Slots
    <3>2. CASE q # p /\ q # c
      BY <3>1, <3>2, <1>0, <1>2, <1>4, SlotKept
    <3>3. CASE q = p \/ q = c
      <4>1. Len(mapEntries[q]) \in Nat /\ calls \in Nat /\ calls' \in Nat
        BY <1>0, Sizes DEF Types, Counted
      <4>2. state[q] \in {"copy", "new"} /\ state'[q] = "user"
        BY <3>3, <1>2, <1>3, <1>4
      <4>3. QED
        BY <3>1, <4>1, <4>2, <1>2 DEF SlotOK, Counted
    <3>4. QED
      BY <3>2, <3>3
  <2>2. QED
    BY <2>1, Zenon DEF Slots
<1>8. Forks'
  <2>1. \A q \in Procs : Forking(q)' => Forking(q) /\ q # p /\ q # c /\ state[q] = "fork"
    BY <1>4 DEF Forking
  <2>2. \A q \in Procs : Forking(q) /\ q # p => task[q].child # c
    BY <1>0, <1>1, <1>2 DEF Forks, Forking
  <2>3. ASSUME NEW q \in Procs, Forking(q)'
        PROVE  /\ task'[q] = task[q] /\ task[q].child \in Procs
               /\ state'[task[q].child] = "EMBRYO" /\ state'[q] = "fork"
    <3>1. /\ task'[q] = task[q] /\ state'[q] = "fork" /\ task[q].child \in Procs
          /\ state[task[q].child] = "EMBRYO"
      BY <2>1, <2>3, <1>0, <1>4 DEF Forks
    <3>2. task[q].child # c /\ task[q].child # p
      BY <3>1, <1>2, <1>3
    <3>3. QED
      BY <3>1, <3>2, <1>4
  <2>4. \A q, r \in Procs : Forking(q)' /\ Forking(r)' /\ q # r => task'[q].child # task'[r].child
    BY <1>0, <2>1, <2>3 DEF Forks
  <2>5. \A q \in Procs : state'[q] # "copy"
    BY <1>4
  <2>6. \A q \in Procs : state'[q] = "fork" => task'[q].entry = 0 /\ task'[q].left = 0
    BY <1>0, <1>4 DEF Forks
  <2>7. QED
    BY <2>3, <2>4, <2>5, <2>6 DEF Forks
<1>9. Maps'
  <2>1. ASSUME NEW q \in Procs PROVE MapsOK(q)'
    <3>1. \/ state'[q] = state[q] /\ task'[q] = task[q]
          \/ /\ state[q] \notin {"munmap", "exit", "ZOMBIE"} \/ state'[q] \in {"exit", "ZOMBIE"}
             /\ state'[q] # "munmap"
      BY <1>2, <1>3, <1>4
    <3>2. QED
      BY <3>1, <1>0, <1>2, MapsKept DEF Maps
  <2>2. QED
    BY <2>1, Zenon DEF Maps
<1>10. Copying'
  <2>1. \A q \in Procs : state'[q] # "copy"
    BY <1>4
  <2>2. QED
    BY <2>1, Zenon DEF Copying
<1>11. QED
  BY <1>5, <1>6, <1>7, <1>8, <1>9, <1>10 DEF MmapInv

(* The process that copies moves on by a page or an entry. *)
LEMMA ForksKept ==
  ASSUME Types, Forks, NEW p \in Procs, state' = state, state[p] = "copy",
         task'[p].child = task[p].child, \A q \in Procs : q # p => task'[q] = task[q]
  PROVE  Forks'
<1>1. \A q \in Procs : task'[q].child = task[q].child /\ (Forking(q)' <=> Forking(q))
  BY DEF Forking
<1>2. \A q \in Procs : Forking(q)' =>
        /\ task'[q].child \in Procs
        /\ state'[task'[q].child] = IF state'[q] = "fork" THEN "EMBRYO" ELSE "new"
  BY <1>1 DEF Forks
<1>3. \A q, r \in Procs : Forking(q)' /\ Forking(r)' /\ q # r => task'[q].child # task'[r].child
  BY <1>1 DEF Forks
<1>4. \A q \in Procs : state'[q] = "fork" => task'[q].entry = 0 /\ task'[q].left = 0
  BY DEF Forks
<1>5. \A q, r \in Procs : state'[q] = "copy" /\ state'[r] = "copy" => q = r
  BY DEF Forks
<1>6. QED
  BY <1>2, <1>3, <1>4, <1>5 DEF Forks

LEMMA CopyPageInv ==
  ASSUME MmapInv, Counted, NEW p \in Procs, CopyPage(p)
  PROVE  MmapInv'
<1>0. Types /\ PageInv /\ Slots /\ Forks /\ Maps /\ Copying /\ state[p] = "copy"
  BY DEF MmapInv, CopyPage
<1>1. CASE Halt("panic")
  BY <1>1, HaltInv
<1>2. CASE ~Halt("panic")
  <2> DEFINE t == task[p]
             source == Through(tlb[p], pte[p], t.va)
             target == IF tlb[p][t.temp] # None THEN tlb[p][t.temp] ELSE pte[t.child][t.va]
             datum == IF source \in Pages THEN content[source] ELSE Junk
             u == [entry |-> t.entry, va |-> t.va + 1, left |-> t.left - 1,
                   temp |-> t.temp + 1, child |-> t.child]
  <2>1. PICK c \in Procs : c = t.child
    BY <1>0 DEF Forks, Forking
  <2>2. CopyOf(p, c) /\ t \in Task /\ t.left > 0
    BY <1>0, <2>1 DEF Copying, Types, CopyPage
  <2>3. t.va \in Window /\ t.temp \in Window
    BY <2>2, Sizes DEF CopyOf, Window, Task
  <2>4. /\ content' = IF target \in Pages THEN [content EXCEPT ![target] = datum] ELSE content
        /\ tlb' = [tlb EXCEPT ![p] = Kept(Kept(@, t.va, source), t.temp, target)]
        /\ task' = [task EXCEPT ![p] = u]
        /\ UNCHANGED <<state, mapEntries, pte, tables, scan, freelist, halted, bent, torn, lost, kind>>
    BY <1>2 DEF CopyPage, table, history
  <2>5. source \in Frames
    BY <1>0, <2>3 DEF Types, Through
  <2>6. target \in Frames
    BY <1>0, <2>1, <2>3 DEF Types
  <2>7. datum \in {Junk} \cup Data
    BY <1>0 DEF Types
  <2>8. /\ u \in Task /\ u.child = c /\ u.entry = t.entry
        /\ u.va = t.va + 1 /\ u.left = t.left - 1 /\ u.temp = t.temp + 1
    BY <2>1, <2>2 DEF Task
  <2> HIDE DEF source, target, datum, u
  <2>9. content' \in [Pages -> {Junk} \cup Data]
    BY <1>0, <2>4, <2>7 DEF Types
  <2>10. tlb' \in [Procs -> [Window -> Frames]]
    <3>1. Kept(tlb[p], t.va, source) \in [Window -> Frames]
      BY <1>0, <2>5 DEF Types, Kept
    <3>2. Kept(Kept(tlb[p], t.va, source), t.temp, target) \in [Window -> Frames]
      BY <3>1, <2>6 DEF Kept
    <3>3. QED
      BY <3>2, <2>4, <1>0 DEF Types
  <2>11. /\ task'[p] = u /\ task' \in [Procs -> Task]
         /\ \A q \in Procs : q # p => task'[q] = task[q]
    BY <1>0, <2>4, <2>8 DEF Types
  <2>12. Types'
    BY <1>0, <2>4, <2>9, <2>10, <2>11 DEF Types, Counted
  <2>13. PageInv'
    BY <1>0, <2>4, KeptPages DEF KeepsPages
  <2>14. Slots'
    <3>1. ASSUME NEW q \in Procs PROVE SlotOK(q)'
      BY <1>0, <2>4, SlotKept DEF Slots
    <3>2. QED
      BY <3>1, Zenon DEF Slots
  <2>15. Forks'
    <3>1. task'[p].child = task[p].child
      BY <2>1, <2>8, <2>11
    <3>2. QED
      BY <3>1, <2>4, <2>11, <1>0, ForksKept
  <2>16. Maps'
    <3>1. ASSUME NEW q \in Procs PROVE MapsOK(q)'
      <4>1. \/ state'[q] = state[q] /\ task'[q] = task[q]
            \/ /\ state[q] \notin {"munmap", "exit", "ZOMBIE"} \/ state'[q] \in {"exit", "ZOMBIE"}
               /\ state'[q] # "munmap"
        BY <1>0, <2>4, <2>11
      <4>2. QED
        BY <4>1, <1>0, <2>4, MapsKept DEF Maps
    <3>2. QED
      BY <3>1, Zenon DEF Maps
  <2>17. Copying'
    <3>1. CopyOf(p, c)'
      <4>1. Valid(p)' = Valid(p)
        BY <2>4 DEF Valid
      <4>2. task'[p].left > 0 =>
              /\ task'[p].va >= 1 /\ task'[p].va + task'[p].left <= NWINDOW + 1
              /\ task'[p].temp >= 1 /\ task'[p].temp + task'[p].left <= NWINDOW + 1
        <5>1. /\ t.va >= 1 /\ t.va + t.left <= NWINDOW + 1
              /\ t.temp >= 1 /\ t.temp + t.left <= NWINDOW + 1
          BY <2>2 DEF CopyOf
        <5>2. t.va \in Nat /\ t.left \in Nat /\ t.temp \in Nat
          BY <2>2 DEF Task
        <5>3. task'[p].va = t.va + 1 /\ task'[p].left = t.left - 1 /\ task'[p].temp = t.temp + 1
          BY <2>8, <2>11
        <5>4. QED
          BY <5>1, <5>2, <5>3, Sizes
      <4>3. task'[p].entry = task[p].entry
        BY <2>8, <2>11
      <4>4. QED
        BY <4>1, <4>2, <4>3, <2>2, <2>4 DEF CopyOf
    <3>2. ASSUME NEW q \in Procs, NEW d \in Procs, state'[q] = "copy", task'[q].child = d
          PROVE  CopyOf(q, d)'
      <4>1. q = p
        BY <3>2, <1>0, <2>4 DEF Forks
      <4>2. d = c
        BY <4>1, <3>2, <2>8, <2>11
      <4>3. QED
        BY <4>1, <4>2, <3>1
    <3>3. QED
      BY <3>2, Zenon DEF Copying
  <2>18. QED
    BY <2>12, <2>13, <2>14, <2>15, <2>16, <2>17 DEF MmapInv
<1>3. QED
  BY <1>1, <1>2

LEMMA LeastNatural ==
  ASSUME NEW T \in SUBSET Nat, T # {}
  PROVE  \E m \in T : \A k \in T : m <= k
<1>1. PICK m \in T : \A k \in T : ~(<<k, m>> \in OpToRel(<, Nat))
  BY NatLessThanWellFounded, WFMin
<1>2. m \in Nat /\ \A k \in T : k \in Nat
  OBVIOUS
<1>3. \A k \in T : ~(k < m)
  BY <1>1, <1>2 DEF OpToRel
<1>4. QED
  BY <1>2, <1>3

LEMMA FirstFreeFits ==
  ASSUME Types, NEW p \in Procs, NEW n \in Nat \ {0}, FirstFree(p, n) # 0
  PROVE  /\ FirstFree(p, n) \in Window /\ FirstFree(p, n) + n <= NWINDOW + 1
         /\ canallocatva(p, FirstFree(p, n), n)
<1> DEFINE found == {va \in Window : canallocatva(p, va, n)}
           least == CHOOSE va \in found : \A w \in found : va <= w
<1>1. found # {} /\ FirstFree(p, n) = least
  BY DEF FirstFree
<1>2. found \in SUBSET Nat
  BY DEF Window
<1>3. \E va \in found : \A w \in found : va <= w
  BY <1>1, <1>2, LeastNatural
<1>4. least \in found
  BY <1>3
<1>5. least \in Window /\ canallocatva(p, least, n) /\ least \in Nat
  BY <1>2, <1>4
<1>6. least + n <= NWINDOW + 1
  BY <1>5, CanAllocate
<1>7. QED
  BY <1>1, <1>5, <1>6

(* An entry is copied: what is left to show is that the child's mappings *)
(* are sound with it.                                                    *)
Entered(p, c, e) ==
  /\ mapEntries' = [mapEntries EXCEPT ![c] = Append(@, e)]
  /\ UNCHANGED <<state, scan>> /\ torn \subseteq torn'
  /\ \A q \in Procs : q # c => pte'[q] = pte[q]
  /\ \A q \in Procs : q # p => task'[q] = task[q]
  /\ task'[p].child = c
  /\ bent \subseteq bent' /\ \A q \in Procs : q # c /\ q \in bent' => q \in bent
  /\ tables \subseteq tables' /\ \A q \in Procs : q # c /\ q \in tables' => q \in tables
  /\ pte'[c] = pte[c] \/ c \in tables'
  /\ \A q \in Procs, v \in Window : pte[q][v] \in Pages \ torn' => kind'[pte[q][v]] = kind[pte[q][v]]
  /\ \A v \in Window : pte'[c][v] # None => pte[c][v] # None \/ v \in Extent(e)
  /\ task'[p].left > 0 =>
       /\ task'[p].va >= 1 /\ task'[p].va + task'[p].left <= NWINDOW + 1
       /\ task'[p].temp >= 1 /\ task'[p].temp + task'[p].left <= NWINDOW + 1

LEMMA EnteredInv ==
  ASSUME MmapInv, Counted, NEW p \in Procs, state[p] = "copy", NEW i \in NextEntry(p),
         NEW c \in Procs, c = task[p].child, Entered(p, c, mapEntries[p][i]),
         task'[p].entry >= i, task'[p].entry <= Len(mapEntries[p]), task'[p].entry \in Nat,
         MapsOK(c)'
  PROVE  Slots' /\ Forks' /\ Maps' /\ Copying'
<1>0. Types /\ Slots /\ Forks /\ Maps /\ CopyOf(p, c) /\ task[p].entry \in Nat
  BY DEF MmapInv, Copying, Types, Task
<1> DEFINE e == mapEntries[p][i]
<1>1. state[c] = "new" /\ c # p /\ task'[p].child = task[p].child
  BY <1>0 DEF Forks, Forking, Entered
<1>2. i \in Valid(p) /\ i \in 1 .. Len(mapEntries[p]) /\ i > task[p].entry
  BY <1>0 DEF NextEntry, Valid, Types
<1>3. e \in Entry /\ e.isValid
  BY <1>0, <1>2, EntryHas DEF Valid
<1> HIDE DEF e
<1>4. /\ mapEntries'[c] = Append(mapEntries[c], e)
      /\ \A q \in Procs : q # c => mapEntries'[q] = mapEntries[q]
  BY <1>0 DEF Entered, Types, e
<1>5. mapEntries[c] \in Seq(Entry) /\ mapEntries[p] \in Seq(Entry)
  BY <1>0 DEF Types
<1>6. Len(mapEntries[c]) + 1 <= i
  BY <1>0, <1>2, <1>5 DEF CopyOf
<1>7. /\ Len(mapEntries'[c]) = Len(mapEntries[c]) + 1 /\ Len(mapEntries[c]) \in Nat
      /\ mapEntries'[c][Len(mapEntries[c]) + 1] = e
      /\ \A j \in 1 .. Len(mapEntries[c]) : mapEntries'[c][j] = mapEntries[c][j]
      /\ \A j \in 1 .. Len(mapEntries'[c]) : j \in 1 .. Len(mapEntries[c]) \/ j = Len(mapEntries[c]) + 1
  BY <1>3, <1>4, <1>5
<1>8. Slots'
  <2>1. ASSUME NEW q \in Procs, q # c PROVE SlotOK(q)'
    BY <2>1, <1>0, <1>4, SlotKept DEF Slots, Entered
  <2>2. SlotOK(c)'
    <3>1. Len(mapEntries'[c]) <= calls'
      <4>1. Len(mapEntries[p]) <= calls
        BY <1>0 DEF Slots, SlotOK
      <4>2. Len(mapEntries[p]) \in Nat /\ calls \in Nat /\ calls' \in Nat /\ calls' >= calls
        BY <1>0, <1>5, Sizes DEF Types, Counted
      <4>3. QED
        BY <4>1, <4>2, <1>2, <1>6, <1>7
    <3>2. state'[c] = "new" /\ scan'[c] = NoScan
      BY <1>0, <1>1 DEF Slots, SlotOK, Entered
    <3>3. c \notin tables' => \A v \in Window : pte'[c][v] = None
      BY <1>0 DEF Slots, SlotOK, Entered
    <3>4. QED
      BY <3>1, <3>2, <3>3 DEF SlotOK
  <2>3. QED
    BY <2>1, <2>2, Zenon DEF Slots
<1>9. Forks'
  BY <1>0, <1>1, ForksKept DEF Entered
<1>10. Maps'
  <2>1. ASSUME NEW q \in Procs, q # c PROVE MapsOK(q)'
    <3>1. \/ state'[q] = state[q] /\ task'[q] = task[q]
          \/ /\ state[q] \notin {"munmap", "exit", "ZOMBIE"} \/ state'[q] \in {"exit", "ZOMBIE"}
             /\ state'[q] # "munmap"
      BY DEF Entered
    <3>2. QED
      BY <3>1, <2>1, <1>0, <1>4, MapsKept DEF Maps, Entered
  <2>2. QED
    BY <2>1, Zenon DEF Maps
<1>11. Copying'
  <2>1. CopyOf(p, c)'
    <3>1. Valid(p)' = Valid(p) /\ mapEntries'[p] = mapEntries[p]
      BY <1>1, <1>4 DEF Valid
    <3>2. p \in bent' => c \in bent'
      BY <1>0, <1>1 DEF CopyOf, Entered
    <3>3. Len(mapEntries'[c]) <= task'[p].entry
      BY <1>2, <1>6, <1>7
    <3>4. ASSUME NEW j \in 1 .. Len(mapEntries'[c])
          PROVE  /\ mapEntries'[c][j].isValid
                 /\ \E k \in Valid(p) : k <= task'[p].entry /\ mapEntries[p][k] = mapEntries'[c][j]
      <4>1. CASE j \in 1 .. Len(mapEntries[c])
        <5>1. mapEntries'[c][j] = mapEntries[c][j] /\ mapEntries[c][j].isValid
          BY <4>1, <1>0, <1>7 DEF CopyOf
        <5>2. PICK k \in Valid(p) : k <= task[p].entry /\ mapEntries[p][k] = mapEntries[c][j]
          BY <4>1, <1>0 DEF CopyOf
        <5>3. k <= task'[p].entry
          <6>1. k \in Nat
            BY <1>5 DEF Valid
          <6>2. QED
            BY <6>1, <5>2, <1>0, <1>2
        <5>4. QED
          BY <5>1, <5>2, <5>3
      <4>2. CASE j = Len(mapEntries[c]) + 1
        <5>1. mapEntries'[c][j] = e
          BY <4>2, <1>7
        <5>2. QED
          BY <5>1, <1>2, <1>3 DEF e
      <4>3. QED
        BY <4>1, <4>2, <1>7
    <3>5. ASSUME NEW v \in Window, pte'[c][v] # None
          PROVE  \E j \in 1 .. Len(mapEntries'[c]) : v \in Extent(mapEntries'[c][j])
      <4>1. CASE pte[c][v] # None
        <5>1. PICK j \in 1 .. Len(mapEntries[c]) : v \in Extent(mapEntries[c][j])
          BY <4>1, <1>0 DEF CopyOf
        <5>2. j \in 1 .. Len(mapEntries'[c]) /\ mapEntries'[c][j] = mapEntries[c][j]
          BY <1>7
        <5>3. QED
          BY <5>1, <5>2
      <4>2. CASE v \in Extent(e)
        <5>1. Len(mapEntries[c]) + 1 \in 1 .. Len(mapEntries'[c])
          BY <1>7
        <5>2. QED
          BY <5>1, <4>2, <1>7
      <4>3. QED
        BY <3>5, <4>1, <4>2 DEF Entered, e
    <3>6. task'[p].left > 0 =>
            /\ task'[p].va >= 1 /\ task'[p].va + task'[p].left <= NWINDOW + 1
            /\ task'[p].temp >= 1 /\ task'[p].temp + task'[p].left <= NWINDOW + 1
      BY DEF Entered
    <3>7. \A v \in Window : pte'[c][v] # None =>
            \E j \in 1 .. Len(mapEntries'[c]) : v \in Extent(mapEntries[c][j])'
      BY <3>5 DEF Extent
    <3>8. QED
      BY <3>1, <3>2, <3>3, <3>4, <3>6, <3>7 DEF CopyOf
  <2>2. ASSUME NEW q \in Procs, NEW d \in Procs, state'[q] = "copy", task'[q].child = d
        PROVE  CopyOf(q, d)'
    <3>1. q = p
      BY <2>2, <1>0 DEF Forks, Entered
    <3>2. d = c
      BY <3>1, <2>2, <1>1
    <3>3. QED
      BY <3>1, <3>2, <2>1
  <2>3. QED
    BY <2>2, Zenon DEF Copying
<1>12. QED
  BY <1>8, <1>9, <1>10, <1>11

(* The entry that fork comes to, and the child it copies it to. *)
LEMMA ChildIs ==
  ASSUME MmapInv, NEW p \in Procs, state[p] = "copy"
  PROVE  task[p].child \in Procs
BY DEF MmapInv, Forks, Forking

CopyFits(p, c, i, e) ==
  /\ c # p /\ state[c] = "new" /\ MapsOK(c) /\ (c \notin bent => p \notin bent)
  /\ i \in Valid(p) /\ i \in Nat /\ i <= Len(mapEntries[p])
  /\ e \in Entry /\ e.isValid /\ InPlace(e) /\ Extent(e) \subseteq Window
  /\ c \notin bent =>
       /\ \A j \in Valid(c) : Territory(mapEntries[c][j]) \cap Territory(e) = {}
       /\ e.guard # 0 => pte[c][e.guard] = None

LEMMA NextIs ==
  ASSUME MmapInv, NEW p \in Procs, state[p] = "copy", NEW i \in NextEntry(p),
         NEW c \in Procs, c = task[p].child
  PROVE  CopyFits(p, c, i, mapEntries[p][i])
<1>0. Types /\ Forks /\ MapsOK(c) /\ MapsOK(p) /\ CopyOf(p, c)
  BY DEF MmapInv, Maps, Copying
<1> DEFINE e == mapEntries[p][i]
<1>1. state[c] = "new" /\ c # p
  BY <1>0 DEF Forks, Forking
<1>2. i \in Valid(p) /\ i > task[p].entry /\ task[p].entry \in Nat
  BY <1>0 DEF NextEntry, Types, Task
<1>3. e \in Entry /\ e.isValid /\ i \in Nat /\ i <= Len(mapEntries[p])
  BY <1>0, <1>2, EntryHas DEF Valid
<1>4. InPlace(e)
  BY <1>0, <1>2 DEF MapsOK, Placed
<1> HIDE DEF e
<1>5. Extent(e) \subseteq Window
  BY <1>3, <1>4, Extends
<1>6. c \notin bent => p \notin bent
  BY <1>0 DEF CopyOf
<1>7. ASSUME c \notin bent, NEW j \in Valid(c)
      PROVE  Territory(mapEntries[c][j]) \cap Territory(e) = {}
  <2>1. j \in 1 .. Len(mapEntries[c])
    BY <1>0 DEF Valid, Types
  <2>2. PICK k \in Valid(p) : k <= task[p].entry /\ mapEntries[p][k] = mapEntries[c][j]
    BY <2>1, <1>0 DEF CopyOf
  <2>3. k # i
    <3>1. k \in Nat
      BY <1>0 DEF Valid, Types
    <3>2. QED
      BY <3>1, <2>2, <1>2, <1>3
  <2>4. Apart(p)
    BY <1>0, <1>6, <1>7 DEF MapsOK
  <2>5. QED
    BY <2>2, <2>3, <2>4, <1>2 DEF Apart, e
<1>8. ASSUME c \notin bent, e.guard # 0 PROVE pte[c][e.guard] = None
  <2>1. e.guard \in Window /\ e.guard \in Territory(e)
    BY <1>4, <1>8 DEF InPlace, Territory
  <2>2. ASSUME pte[c][e.guard] # None PROVE FALSE
    <3>1. PICK j \in 1 .. Len(mapEntries[c]) : e.guard \in Extent(mapEntries[c][j])
      BY <2>1, <2>2, <1>0 DEF CopyOf
    <3>2. j \in Valid(c)
      BY <1>0 DEF Valid, Types, CopyOf
    <3>3. e.guard \in Territory(mapEntries[c][j])
      BY <3>1 DEF Territory
    <3>4. QED
      BY <3>2, <3>3, <2>1, <1>7, <1>8
  <2>3. QED
    BY <2>2
<1>9. QED
  BY <1>0, <1>1, <1>2, <1>3, <1>4, <1>5, <1>6, <1>7, <1>8 DEF e, CopyFits

(* The child's table has the entry, and everything else in it is as it was. *)
LEMMA EntersCopy ==
  ASSUME Types, NEW p \in Procs, NEW i \in Valid(p), NEW c \in Procs, c = task[p].child,
         EnterCopy(p, i)
  PROVE  /\ mapEntries' \in [Procs -> Seq(Entry)]
         /\ mapEntries' = [mapEntries EXCEPT ![c] = Append(@, mapEntries[p][i])]
         /\ mapEntries'[c] = Append(mapEntries[c], mapEntries[p][i])
<1> DEFINE e == mapEntries[p][i]
<1>1. e \in Entry
  BY EntryHas DEF Valid
<1>2. mapEntries' = [mapEntries EXCEPT ![c] = Append(@, e)] /\ mapEntries \in [Procs -> Seq(Entry)]
  BY DEF EnterCopy, Types
<1> HIDE DEF e
<1>3. Append(mapEntries[c], e) \in Seq(Entry)
  BY <1>1, <1>2
<1>4. mapEntries' \in [Procs -> Seq(Entry)] /\ mapEntries'[c] = Append(mapEntries[c], e)
  BY <1>2, <1>3
<1>5. QED
  BY <1>2, <1>4 DEF e

(* fork has done with the entries up to n. *)
LEMMA Reaches ==
  ASSUME Types, NEW p \in Procs, NEW n \in Nat, task' = [task EXCEPT ![p].entry = n]
  PROVE  /\ task' \in [Procs -> Task] /\ \A q \in Procs : q # p => task'[q] = task[q]
         /\ task'[p].entry = n /\ task'[p].child = task[p].child /\ task'[p].left = task[p].left
<1>1. task \in [Procs -> Task] /\ task[p] \in Task
  BY DEF Types
<1>2. task' = [task EXCEPT ![p] = [task[p] EXCEPT !.entry = n]]
  OBVIOUS
<1> DEFINE t == [task[p] EXCEPT !.entry = n]
<1>3. t \in Task /\ t.entry = n /\ t.child = task[p].child /\ t.left = task[p].left
  BY <1>1 DEF Task
<1> HIDE DEF t
<1>4. task' = [task EXCEPT ![p] = t]
  BY <1>2 DEF t
<1>5. QED
  BY <1>1, <1>3, <1>4

LEMMA CopySharedInv ==
  ASSUME MmapInv, Counted, NEW p \in Procs, Copies(p), NEW i \in NextEntry(p),
         "SHARED" \in mapEntries[p][i].flags, CopyShared(p, i)
  PROVE  MmapInv'
<1>0. /\ Types /\ PageInv /\ state[p] = "copy" /\ task[p].left = 0
      /\ pte \in [Procs -> [Window -> Frames]]
  BY DEF MmapInv, Copies, Types
<1>1. PICK c \in Procs : c = task[p].child
  BY <1>0, ChildIs
<1> DEFINE e == mapEntries[p][i]
<1>f. CopyFits(p, c, i, e)
  BY <1>0, <1>1, NextIs
<1>2. /\ c # p /\ state[c] = "new" /\ MapsOK(c) /\ (c \notin bent => p \notin bent)
      /\ i \in Valid(p) /\ i \in Nat /\ i <= Len(mapEntries[p])
      /\ e \in Entry /\ e.isValid /\ InPlace(e) /\ Extent(e) \subseteq Window
      /\ c \notin bent =>
           /\ \A j \in Valid(c) : Territory(mapEntries[c][j]) \cap Territory(e) = {}
           /\ e.guard # 0 => pte[c][e.guard] = None
  BY <1>f, Zenon DEF CopyFits
<1>3. CASE \E why \in {"panic", "corrupt"} : Halt(why)
  BY <1>3, HaltInv
<1>4. CASE /\ p \in tables /\ ~Remaps(c, e) /\ EnterCopy(p, i)
           /\ pte' = [pte EXCEPT ![c] =
                [va \in Window |-> IF va \notin Extent(e) THEN @[va]
                                   ELSE IF pte[p][va] = None THEN PageZero ELSE pte[p][va]]]
           /\ tables' = tables \cup {c} /\ task' = [task EXCEPT ![p].entry = i]
           /\ UNCHANGED <<state, scan, memory, tlb, halted, history>>
  <2>1. UNCHANGED <<state, scan, freelist, content, tlb, halted, bent, torn, lost, kind>>
    BY <1>4 DEF memory, history
  <2>2. /\ mapEntries' \in [Procs -> Seq(Entry)]
        /\ mapEntries' = [mapEntries EXCEPT ![c] = Append(@, e)]
        /\ mapEntries'[c] = Append(mapEntries[c], e)
    BY <1>0, <1>1, <1>2, <1>4, EntersCopy
  <2>3. /\ task' \in [Procs -> Task] /\ \A q \in Procs : q # p => task'[q] = task[q]
        /\ task'[p].entry = i /\ task'[p].child = c /\ task'[p].left = 0
    BY <1>0, <1>1, <1>2, <1>4, Reaches
  <2> HIDE DEF e
  <2>4. /\ \A v \in Window : pte'[c][v] = IF v \notin Extent(e) THEN pte[c][v]
                                          ELSE IF pte[p][v] = None THEN PageZero ELSE pte[p][v]
        /\ \A q \in Procs : q # c => pte'[q] = pte[q]
        /\ pte' \in [Procs -> [Window -> Frames]]
    <3>1. [va \in Window |-> IF va \notin Extent(e) THEN pte[c][va]
             ELSE IF pte[p][va] = None THEN PageZero ELSE pte[p][va]] \in [Window -> Frames]
      BY <1>0 DEF Frames
    <3>2. QED
      BY <3>1, <1>0, <1>4
  <2>5. \A v \in Extent(e) : v \in Window /\ pte[c][v] = None
    BY <1>2, <1>4 DEF Remaps
  <2>6. ASSUME c \notin bent, NEW v \in Extent(e), pte[p][v] \in Pages \ torn
        PROVE  kind[pte[p][v]] = "shared"
    <3>1. Kinds(p)
      BY <2>6, <1>2 DEF MmapInv, Maps, MapsOK
    <3>2. QED
      BY <3>1, <2>6, <1>2 DEF Kinds, e
  <2>7. PageInv'
    <3>1. Shares(p, c)
      <4>1. ASSUME NEW q \in Procs, NEW v \in Window, pte'[q][v] # pte[q][v]
            PROVE  q = c /\ v \in Extent(e) /\ pte[c][v] = None
                   /\ (pte'[q][v] = PageZero \/ pte'[q][v] = pte[p][v])
        BY <4>1, <2>4, <2>5
      <4>2. QED
        BY <4>1, <2>1, <2>6, <1>2 DEF Shares
    <3>2. QED
      BY <3>1, <1>0, SharesPages
  <2>8. Types'
    <3>1. tables' \subseteq Procs
      BY <1>0, <1>4 DEF Types
    <3>2. QED
      BY <3>1, <1>0, <2>1, <2>2, <2>3, <2>4 DEF Types, Counted
  <2>9. MapsOK(c)'
    <3>1. Adds(c, e)
      <4>1. \A v \in Extent(e) : pte'[c][v] # None
        <5>1. PageZero # None
          BY Sizes DEF PageZero, None
        <5>2. QED
          BY <5>1, <2>4, <2>5
      <4>2. ASSUME c \notin bent', NEW v \in Extent(e), pte'[c][v] \in Pages \ torn
            PROVE  kind'[pte'[c][v]] = "shared"
        <5>1. pte'[c][v] = pte[p][v]
          BY <4>2, <2>4, <2>5, Frame
        <5>2. QED
          BY <5>1, <4>2, <2>1, <2>6
      <4>3. \A v \in Window : v \notin Extent(e) => pte'[c][v] = pte[c][v]
        BY <2>4
      <4>4. QED
        BY <4>1, <4>2, <4>3, <1>2, <2>1, <2>2 DEF Adds, e
    <3>2. QED
      BY <3>1, <1>0, <1>2, AddsEntry
  <2>10. Entered(p, c, e)
    <3>1. bent' = bent /\ torn' = torn /\ kind' = kind /\ c \in tables'
          /\ tables \subseteq tables' /\ \A q \in Procs : q # c /\ q \in tables' => q \in tables
      BY <2>1, <1>4
    <3>2. \A v \in Window : pte'[c][v] # None => pte[c][v] # None \/ v \in Extent(e)
      BY <2>4
    <3>3. ~(task'[p].left > 0)
      BY <2>3
    <3>4. QED
      BY <3>1, <3>2, <3>3, <2>1, <2>2, <2>3, <2>4 DEF Entered
  <2>11. Slots' /\ Forks' /\ Maps' /\ Copying'
    BY <1>0, <1>1, <1>2, <2>3, <2>9, <2>10, EnteredInv DEF e
  <2>12. QED
    BY <2>7, <2>8, <2>11 DEF MmapInv
<1>5. QED
  BY <1>1, <1>3, <1>4 DEF CopyShared

(* fork gives up: the child runs with what it has. *)
LEMMA GivesUp ==
  ASSUME MmapInv, Counted, NEW p \in Procs, Copies(p), NEW i \in NextEntry(p), GiveUp(p, i),
         NoMemory(p, i) \/ NoAddress(p, i)
  PROVE  MmapInv'
<1>0. Types /\ PageInv /\ state[p] = "copy" /\ task[p].left = 0
  BY DEF MmapInv, Copies
<1>1. PICK c \in Procs : c = task[p].child
  BY <1>0, ChildIs
<1> DEFINE e == mapEntries[p][i]
<1>f. CopyFits(p, c, i, e)
  BY <1>0, <1>1, NextIs
<1>2. /\ c # p /\ state[c] = "new" /\ MapsOK(c) /\ i \in Valid(p) /\ i \in Nat
      /\ i <= Len(mapEntries[p]) /\ e \in Entry /\ e.isValid /\ InPlace(e)
  BY <1>f, Zenon DEF CopyFits
<1>3. /\ EnterCopy(p, i) /\ task' = [task EXCEPT ![p].entry = Len(mapEntries[p])]
      /\ bent' = bent \cup {c} /\ UNCHANGED <<state, pte, tables, scan, tlb, halted, torn, kind>>
  BY <1>1 DEF GiveUp
<1>4. /\ mapEntries' \in [Procs -> Seq(Entry)]
      /\ mapEntries' = [mapEntries EXCEPT ![c] = Append(@, e)]
      /\ mapEntries'[c] = Append(mapEntries[c], e)
  BY <1>0, <1>1, <1>2, <1>3, EntersCopy
<1>5. mapEntries[p] \in Seq(Entry) /\ Len(mapEntries[p]) \in Nat
  BY <1>0 DEF Types
<1>6. /\ task' \in [Procs -> Task] /\ \A q \in Procs : q # p => task'[q] = task[q]
      /\ task'[p].entry = Len(mapEntries[p]) /\ task'[p].child = c /\ task'[p].left = 0
  BY <1>0, <1>1, <1>3, <1>5, Reaches
<1> HIDE DEF e
<1>7. PageInv' /\ freelist' \in Seq(Pages) /\ content' \in [Pages -> {Junk} \cup Data]
  <2>1. bent \subseteq bent'
    BY <1>3
  <2>2. freelist \in Seq(Pages) /\ content \in [Pages -> {Junk} \cup Data]
    BY <1>0 DEF Types
  <2>3. CASE NoMemory(p, i)
    <3>1. /\ freelist' = Reverse(freelist) /\ lost' = lost
          /\ content' = [g \in Pages |-> IF g \in ToSet(freelist) THEN Junk ELSE content[g]]
      BY <2>3 DEF NoMemory
    <3>2. PageInv'
      BY <3>1, <2>1, <1>0, <1>3, GivesBack
    <3>3. freelist' \in Seq(Pages)
      BY <3>1, <2>2 DEF Reverse
    <3>4. content' \in [Pages -> {Junk} \cup Data]
      BY <3>1, <2>2
    <3>5. QED
      BY <3>2, <3>3, <3>4
  <2>4. CASE NoAddress(p, i)
    <3>1. e.numPages \in Nat /\ e.numPages <= Len(freelist) /\ Lose(e.numPages) /\ content' = content
      BY <2>4, <1>2 DEF NoAddress, Entry, e
    <3>2. PageInv'
      BY <3>1, <2>1, <1>0, <1>3, LosesPages
    <3>3. freelist' = Drop(freelist, e.numPages)
      BY <3>1 DEF Lose
    <3>4. freelist' \in Seq(Pages)
      BY <3>1, <3>3, <2>2, Dropped
    <3>5. QED
      BY <3>1, <3>2, <3>4, <2>2
  <2>5. QED
    BY <2>3, <2>4
<1>8. Types'
  <2>1. bent' \subseteq Procs
    BY <1>0, <1>3 DEF Types
  <2>2. QED
    BY <2>1, <1>0, <1>3, <1>4, <1>6, <1>7 DEF Types, Counted
<1>9. MapsOK(c)'
  <2>1. Adds(c, e)
    BY <1>2, <1>3, <1>4 DEF Adds, e
  <2>2. QED
    BY <2>1, <1>0, <1>2, AddsEntry
<1>10. Entered(p, c, e)
  <2>1. ~(task'[p].left > 0)
    BY <1>6
  <2>2. QED
    BY <2>1, <1>3, <1>4, <1>6 DEF Entered
<1>11. Slots' /\ Forks' /\ Maps' /\ Copying'
  BY <1>0, <1>1, <1>2, <1>5, <1>6, <1>9, <1>10, EnteredInv DEF e
<1>12. QED
  BY <1>7, <1>8, <1>11 DEF MmapInv

LEMMA CopyPrivateInv ==
  ASSUME MmapInv, Counted, NEW p \in Procs, Copies(p), NEW i \in NextEntry(p),
         "SHARED" \notin mapEntries[p][i].flags, CopyPrivate(p, i)
  PROVE  MmapInv'
<1>0. /\ Types /\ PageInv /\ state[p] = "copy" /\ task[p].left = 0 /\ task \in [Procs -> Task]
      /\ pte \in [Procs -> [Window -> Frames]] /\ freelist \in Seq(Pages) /\ Len(freelist) \in Nat
  BY DEF MmapInv, Copies, Types
<1>1. PICK c \in Procs : c = task[p].child
  BY <1>0, ChildIs
<1> DEFINE e == mapEntries[p][i]
<1>f. CopyFits(p, c, i, e)
  BY <1>0, <1>1, NextIs
<1>2. /\ c # p /\ state[c] = "new" /\ MapsOK(c) /\ (c \notin bent => p \notin bent)
      /\ i \in Valid(p) /\ i \in Nat /\ i <= Len(mapEntries[p])
      /\ e \in Entry /\ e.isValid /\ InPlace(e) /\ Extent(e) \subseteq Window
      /\ c \notin bent =>
           /\ \A j \in Valid(c) : Territory(mapEntries[c][j]) \cap Territory(e) = {}
           /\ e.guard # 0 => pte[c][e.guard] = None
  BY <1>f, Zenon DEF CopyFits
<1> DEFINE n == e.numPages
           at == FirstFree(p, n)
<1>3. n \in Nat \ {0} /\ e.start \in Window /\ e.start + n <= NWINDOW + 1
      /\ Extent(e) = e.start .. e.start + n - 1
  BY <1>2, Sizes DEF Entry, InPlace, Window, Extent
<1>4. n <= Len(freelist) /\ at # 0
  BY DEF CopyPrivate
<1>5. at \in Window /\ at + n <= NWINDOW + 1
  BY <1>0, <1>3, <1>4, FirstFreeFits
<1>6. CASE Halt("panic")
  BY <1>6, HaltInv
<1>7. CASE /\ ~Remaps(c, e) /\ EnterCopy(p, i)
           /\ pte' = [pte EXCEPT ![c] =
                [va \in Window |-> IF va \in Extent(e) THEN freelist[va - e.start + 1] ELSE @[va]]]
           /\ tables' = tables \cup {c} /\ freelist' = Drop(freelist, n)
           /\ kind' = [g \in Pages |-> IF g \in Taken(n) THEN "private" ELSE kind[g]]
           /\ task' = [task EXCEPT ![p] = [entry |-> i, va |-> e.start, left |-> n,
                                           temp |-> at, child |-> c]]
           /\ UNCHANGED <<state, scan, content, tlb, halted, bent, torn, lost>>
  <2>1. UNCHANGED <<state, scan, content, tlb, halted, bent, torn, lost>>
    BY <1>7
  <2>2. /\ mapEntries' \in [Procs -> Seq(Entry)]
        /\ mapEntries' = [mapEntries EXCEPT ![c] = Append(@, e)]
        /\ mapEntries'[c] = Append(mapEntries[c], e)
    BY <1>0, <1>1, <1>2, <1>7, EntersCopy
  <2> HIDE DEF e, n, at
  <2>3. /\ task' \in [Procs -> Task] /\ \A q \in Procs : q # p => task'[q] = task[q]
        /\ task'[p].entry = i /\ task'[p].child = c /\ task'[p].left = n
        /\ task'[p].va = e.start /\ task'[p].temp = at
    <3>1. [entry |-> i, va |-> e.start, left |-> n, temp |-> at, child |-> c] \in Task
      BY <1>2, <1>3, <1>5, Sizes DEF Task, Window, Procs
    <3>2. QED
      BY <3>1, <1>0, <1>7
  <2>4. \A v \in Extent(e) : /\ v \in Window /\ pte[c][v] = None
                             /\ v - e.start + 1 \in 1 .. n /\ v - e.start + 1 \in 1 .. Len(freelist)
    <3>1. \A v \in Extent(e) : v \in Window /\ pte[c][v] = None
      BY <1>2, <1>7 DEF Remaps
    <3>2. \A v \in Extent(e) : v - e.start + 1 \in 1 .. n /\ v - e.start + 1 \in 1 .. Len(freelist)
      BY <1>0, <1>3, <1>4 DEF Window
    <3>3. QED
      BY <3>1, <3>2
  <2>5. \A v \in Extent(e) : freelist[v - e.start + 1] \in Pages
    BY <1>0, <2>4
  <2>6. /\ \A v \in Window : pte'[c][v] = IF v \in Extent(e) THEN freelist[v - e.start + 1] ELSE pte[c][v]
        /\ \A q \in Procs : q # c => pte'[q] = pte[q]
        /\ pte' \in [Procs -> [Window -> Frames]]
    <3>1. [va \in Window |-> IF va \in Extent(e) THEN freelist[va - e.start + 1] ELSE pte[c][va]]
            \in [Window -> Frames]
      BY <1>0, <2>5 DEF Frames
    <3>2. QED
      BY <3>1, <1>0, <1>7
  <2>7. PageInv'
    <3>1. Takes(c, e.start, n, "private")
      <4>1. \A w \in e.start .. e.start + n - 1 : pte[c][w] = None
        BY <1>3, <2>4
      <4>2. \A q \in Procs, w \in Window :
              pte'[q][w] = IF q = c /\ w \in e.start .. e.start + n - 1
                           THEN freelist[w - e.start + 1] ELSE pte[q][w]
        BY <1>3, <2>6
      <4>3. QED
        BY <4>1, <4>2, <1>3, <1>4, <1>7 DEF Takes
    <3>2. QED
      BY <3>1, <1>0, TakesPages
  <2>8. \A q \in Procs, v \in Window :
          pte[q][v] \in Pages \ torn => kind'[pte[q][v]] = kind[pte[q][v]]
    BY <1>0, <1>3, <1>4, <1>7, KindKept
  <2>9. Types'
    <3>1. tables' \subseteq Procs
      BY <1>0, <1>7 DEF Types
    <3>2. freelist' \in Seq(Pages)
      BY <1>0, <1>3, <1>4, <1>7, Dropped
    <3>3. kind' \in [Pages -> {"none", "private", "shared"}]
      BY <1>0, <1>7 DEF Types
    <3>4. QED
      BY <3>1, <3>2, <3>3, <1>0, <2>1, <2>2, <2>3, <2>6 DEF Types, Counted
  <2>10. MapsOK(c)'
    <3>1. Adds(c, e)
      <4>1. \A v \in Extent(e) : pte'[c][v] # None
        BY <2>4, <2>5, <2>6, Frame
      <4>2. \A v \in Window : v \notin Extent(e) => pte'[c][v] = pte[c][v]
        BY <2>6
      <4>3. "SHARED" \notin e.flags
        BY DEF e
      <4>4. QED
        BY <4>1, <4>2, <4>3, <1>2, <2>1, <2>2, <2>8 DEF Adds
    <3>2. QED
      BY <3>1, <1>0, <1>2, AddsEntry
  <2>11. Entered(p, c, e)
    <3>1. /\ bent' = bent /\ torn' = torn /\ c \in tables' /\ tables \subseteq tables'
          /\ \A q \in Procs : q # c /\ q \in tables' => q \in tables
      BY <2>1, <1>7
    <3>2. \A v \in Window : pte'[c][v] # None => pte[c][v] # None \/ v \in Extent(e)
      BY <2>6
    <3>3. e.start >= 1 /\ at >= 1
      BY <1>3, <1>5 DEF Window
    <3>4. QED
      BY <3>1, <3>2, <3>3, <1>3, <1>5, <2>1, <2>2, <2>3, <2>6, <2>8 DEF Entered
  <2>12. Slots' /\ Forks' /\ Maps' /\ Copying'
    <3>1. task'[p].entry = i /\ i <= i /\ i <= Len(mapEntries[p])
      BY <1>2, <2>3
    <3>2. QED
      BY <3>1, <1>0, <1>1, <1>2, <2>10, <2>11, EnteredInv DEF e
  <2>13. QED
    BY <2>7, <2>9, <2>12 DEF MmapInv
<1>8. QED
  BY <1>1, <1>6, <1>7 DEF CopyPrivate

LEMMA CopyEntryInv ==
  ASSUME MmapInv, Counted, NEW p \in Procs, CopyEntry(p)
  PROVE  MmapInv'
<1>1. PICK i \in NextEntry(p) :
        IF "SHARED" \in mapEntries[p][i].flags THEN CopyShared(p, i)
        ELSE NoMemory(p, i) \/ NoAddress(p, i) \/ CopyPrivate(p, i)
  BY DEF CopyEntry
<1>2. Copies(p)
  BY DEF CopyEntry
<1>3. CASE "SHARED" \in mapEntries[p][i].flags
  BY <1>1, <1>2, <1>3, CopySharedInv
<1>4. CASE NoMemory(p, i) \/ NoAddress(p, i)
  <2>1. GiveUp(p, i)
    BY <1>4 DEF NoMemory, NoAddress
  <2>2. QED
    BY <2>1, <1>2, <1>4, GivesUp
<1>5. CASE "SHARED" \notin mapEntries[p][i].flags /\ CopyPrivate(p, i)
  BY <1>2, <1>5, CopyPrivateInv
<1>6. QED
  BY <1>1, <1>3, <1>4, <1>5

-----------------------------------------------------------------------------
(* From the first state on. *)
LEMMA InitInv == Init => MmapInv
<1> SUFFICES ASSUME Init PROVE MmapInv
  OBVIOUS
<1>1. /\ \A p \in Procs : /\ state[p] \in {"user", "UNUSED"} /\ mapEntries[p] = <<>>
                          /\ pte[p] = Empty /\ scan[p] = NoScan
      /\ tables = {} /\ freelist = [i \in Pages |-> i] /\ bent = {} /\ torn = {} /\ lost = {}
  BY DEF Init
<1>2. Len(freelist) = NPAGES /\ freelist \in Seq(Pages) /\ Len(freelist) \in Nat
      /\ \A i \in 1 .. Len(freelist) : freelist[i] = i /\ i \in Pages
  BY <1>1, Sizes DEF Pages
<1>3. \A p \in Procs, v \in Window : pte[p][v] = None
  BY <1>1 DEF Empty
<1>4. \A p \in Procs : Valid(p) = {}
  BY <1>1 DEF Valid
<1>5. Types
  <2>1. state \in [Procs -> States]
    BY DEF Init, States
  <2>2. mapEntries \in [Procs -> Seq(Entry)]
    BY DEF Init
  <2>3. pte \in [Procs -> [Window -> Frames]] /\ tlb \in [Procs -> [Window -> Frames]]
    BY DEF Init, Empty, Frames
  <2>4. task \in [Procs -> Task] /\ scan \in [Procs -> Scan]
    BY Sizes DEF Init, NoTask, NoScan, Task, Scan, Frames
  <2>5. content \in [Pages -> {Junk} \cup Data] /\ kind \in [Pages -> {"none", "private", "shared"}]
    BY DEF Init
  <2>6. calls \in 0 .. MaxCalls /\ halted \in {"no", "panic", "corrupt"} /\ tables \subseteq Procs
        /\ bent \subseteq Procs
    BY Sizes DEF Init
  <2>7. QED
    BY <1>2, <2>1, <2>2, <2>3, <2>4, <2>5, <2>6 DEF Types
<1>6. Slots
  <2>1. ASSUME NEW p \in Procs PROVE SlotOK(p)
    <3>1. Len(mapEntries[p]) = 0 /\ calls = 0
      BY <1>1 DEF Init
    <3>2. QED
      BY <3>1, <1>1, <1>3 DEF SlotOK
  <2>2. QED
    BY <2>1 DEF Slots
<1>7. Forks
  BY <1>1 DEF Forks, Forking
<1>8. PageInv
  <2>1. \A p \in Procs : scan[p].page = None
    BY <1>1 DEF NoScan
  <2>2. NoLeak
    <3>1. \A g \in Pages : g \in 1 .. Len(freelist) /\ freelist[g] = g
      BY <1>2 DEF Pages
    <3>2. QED
      BY <3>1 DEF NoLeak
  <2>3. FreeOnce /\ FreeUnmapped /\ FreeUnscanned
    BY <1>2, <1>3, <2>1, Frame DEF FreeOnce, FreeUnmapped, FreeUnscanned
  <2>4. Searching /\ SameAddress /\ SharedKind
    BY <1>3, <2>1, Frame DEF Searching, SearchOK, SameAddress, SharedKind
  <2>5. QED
    BY <2>2, <2>3, <2>4 DEF PageInv
<1>9. Maps
  <2>1. ASSUME NEW p \in Procs PROVE MapsOK(p)
    <3>1. state[p] # "munmap"
      BY <1>1
    <3>2. QED
      BY <3>1, <1>4 DEF MapsOK, Placed, Unmaps, Apart, GuardsFree, Filled, Kinds
  <2>2. QED
    BY <2>1 DEF Maps
<1>10. Copying
  BY <1>1 DEF Copying
<1>11. QED
  BY <1>5, <1>6, <1>7, <1>8, <1>9, <1>10 DEF MmapInv

LEMMA CallInv ==
  ASSUME MmapInv, NEW p \in Procs, Call(p),
         \/ \E n \in Lens, flags \in FlagSets, va \in 0 .. NWINDOW + 1 : Mmap(p, n, flags, va)
         \/ \E va \in Window, n \in 1 .. NWINDOW + Excess : Munmap(p, va, n)
         \/ \E va \in Window : PageFault(p, va)
         \/ \E va \in Window, d \in Data : Write(p, va, d)
         \/ \E c \in Procs : Fork(p, c)
         \/ Exec(p) \/ Exit(p)
  PROVE  MmapInv'
<1>1. Counted /\ state[p] = "user"
  <2>1. Types
    BY DEF MmapInv
  <2>2. QED
    BY <2>1, CallCounts DEF Call
<1>2. ASSUME NEW n \in Lens, NEW flags \in FlagSets, NEW va \in 0 .. NWINDOW + 1,
             Mmap(p, n, flags, va)
      PROVE  MmapInv'
  <2>1. n \in Nat \ {0} /\ flags \in SUBSET Flags /\ va \in Nat
    BY MmapAssumption DEF MmapAssumption, Flags
  <2>2. n <= Len(freelist)
    BY <1>2 DEF Mmap
  <2>3. CASE MmapFails(p, n, flags, va)
    BY <2>1, <2>2, <2>3, <1>1, MmapFailsInv
  <2>4. CASE MmapMaps(p, n, flags, va)
    BY <2>1, <2>2, <2>4, <1>1, MmapMapsInv
  <2>5. QED
    BY <2>3, <2>4, <1>2 DEF Mmap
<1>3. ASSUME NEW va \in Window, NEW n \in 1 .. NWINDOW + Excess, Munmap(p, va, n) PROVE MmapInv'
  <2>1. n \in Nat
    OBVIOUS
  <2>2. QED
    BY <2>1, <1>3, MunmapInv
<1>4. ASSUME NEW va \in Window, PageFault(p, va) PROVE MmapInv'
  BY <1>4, PageFaultInv
<1>5. ASSUME NEW va \in Window, NEW d \in Data, Write(p, va, d) PROVE MmapInv'
  BY <1>5, <1>1, WriteInv
<1>6. ASSUME NEW c \in Procs, Fork(p, c) PROVE MmapInv'
  BY <1>6, ForkInv
<1>7. CASE Exec(p)
  BY <1>7, <1>1, ExecInv
<1>8. CASE Exit(p)
  BY <1>8, <1>1, ExitInv
<1>9. QED
  BY <1>2, <1>3, <1>4, <1>5, <1>6, <1>7, <1>8

LEMMA KernelInv ==
  ASSUME MmapInv, NEW p \in Procs, UNCHANGED calls,
         \/ MunmapPage(p) \/ MunmapEnd(p) \/ ScanNext(p) \/ ScanEmbryo(p) \/ ScanFree(p)
         \/ ForkCopy(p) \/ CopyEntry(p) \/ CopyPage(p) \/ ForkEnd(p)
         \/ ExitPage(p) \/ ExitEnd(p) \/ Wait(p) \/ Switch(p)
  PROVE  MmapInv'
<1>1. Counted
  <2>1. Types
    BY DEF MmapInv
  <2>2. QED
    BY <2>1, CallCounts
<1>2. CASE MunmapPage(p) \/ MunmapEnd(p)
  BY <1>1, <1>2, MunmapPageInv, MunmapEndInv
<1>3. CASE ScanNext(p) \/ ScanEmbryo(p) \/ ScanFree(p)
  BY <1>1, <1>3, ScanNextInv, ScanEmbryoInv, ScanFreeInv
<1>4. CASE ForkCopy(p) \/ CopyEntry(p) \/ CopyPage(p) \/ ForkEnd(p)
  BY <1>1, <1>4, ForkCopyInv, CopyEntryInv, CopyPageInv, ForkEndInv
<1>5. CASE ExitPage(p) \/ ExitEnd(p) \/ Wait(p) \/ Switch(p)
  BY <1>1, <1>5, ExitPageInv, ExitEndInv, WaitInv, SwitchInv
<1>6. QED
  BY <1>2, <1>3, <1>4, <1>5

LEMMA StutterInv ==
  ASSUME MmapInv, UNCHANGED vars
  PROVE  MmapInv'
<1>0. /\ state' = state /\ mapEntries' = mapEntries /\ pte' = pte /\ tables' = tables
      /\ task' = task /\ scan' = scan /\ freelist' = freelist /\ content' = content
      /\ tlb' = tlb /\ calls' = calls /\ halted' = halted /\ bent' = bent /\ torn' = torn
      /\ lost' = lost /\ kind' = kind
  BY DEF vars, table, memory, machine, history
<1>1. Types'
  BY <1>0 DEF MmapInv, Types
<1>2. Slots' /\ Forks' /\ Maps' /\ Copying'
  <2>1. Types /\ Slots /\ Forks /\ Maps /\ Copying
    BY DEF MmapInv
  <2>2. calls' \in Nat /\ calls' >= calls
    BY <1>0, Sizes DEF MmapInv, Types
  <2>3. Quiet
    BY <1>0, <2>2 DEF Quiet
  <2>4. QED
    BY <2>1, <2>2, <2>3, QuietStep
<1>3. PageInv'
  BY <1>0, KeptPages DEF MmapInv, KeepsPages
<1>4. QED
  BY <1>1, <1>2, <1>3 DEF MmapInv

(* The invariant is inductive: whatever calls, faults, forks and searches  *)
(* of clearpte come in whatever order, the free list, the page tables, the *)
(* tables of mappings and the searches fit together.                       *)
THEOREM MmapInductive == Spec => []MmapInv
<1>1. Init => MmapInv
  BY InitInv
<1>2. MmapInv /\ [Next]_vars => MmapInv'
  <2> SUFFICES ASSUME MmapInv, [Next]_vars PROVE MmapInv'
    OBVIOUS
  <2>1. CASE UNCHANGED vars
    BY <2>1, StutterInv
  <2>2. CASE Next
    <3>1. PICK p \in Procs :
            \/ /\ Call(p)
               /\ \/ \E n \in Lens, flags \in FlagSets, va \in 0 .. NWINDOW + 1 : Mmap(p, n, flags, va)
                  \/ \E va \in Window, n \in 1 .. NWINDOW + Excess : Munmap(p, va, n)
                  \/ \E va \in Window : PageFault(p, va)
                  \/ \E va \in Window, d \in Data : Write(p, va, d)
                  \/ \E c \in Procs : Fork(p, c)
                  \/ Exec(p) \/ Exit(p)
            \/ /\ UNCHANGED calls
               /\ \/ MunmapPage(p) \/ MunmapEnd(p) \/ ScanNext(p) \/ ScanEmbryo(p) \/ ScanFree(p)
                  \/ ForkCopy(p) \/ CopyEntry(p) \/ CopyPage(p) \/ ForkEnd(p)
                  \/ ExitPage(p) \/ ExitEnd(p) \/ Wait(p) \/ Switch(p)
      BY <2>2, Zenon DEF Next
    <3>2. QED
      BY <3>1, CallInv, KernelInv
  <2>3. QED
    BY <2>1, <2>2
<1>3. QED
  BY <1>1, <1>2, PTL DEF Spec

-----------------------------------------------------------------------------
(* What the runs check, for any number of processes and pages. *)
LEMMA SharersAre ==
  ASSUME NEW g \in Pages
  PROVE  \A p : p \in Sharers(g) <=> p \in Procs /\ \E v \in Window : pte[p][v] = g
<1>1. g # None
  BY Frame
<1>2. ASSUME NEW p PROVE g \in Mapped(p) <=> \E v \in Window : pte[p][v] = g
  BY <1>1 DEF Mapped
<1>3. QED
  BY <1>2 DEF Sharers

LEMMA FreeAre ==
  ASSUME Types
  PROVE  \A g : g \in ToSet(freelist) <=> \E i \in 1 .. Len(freelist) : freelist[i] = g
<1>1. DOMAIN freelist = 1 .. Len(freelist)
  BY DEF Types
<1>2. QED
  BY <1>1, Zenon DEF ToSet

LEMMA Accounted == MmapInv => PagesAccounted
<1> SUFFICES ASSUME MmapInv PROVE PagesAccounted
  OBVIOUS
<1>0. Types /\ Slots /\ PageInv
  BY DEF MmapInv
<1>1. TypeOK
  <2>1. ASSUME NEW p \in Procs
        PROVE  /\ Len(mapEntries[p]) <= MaxCalls
               /\ scan[p].page \in {None, NoRam, PageZero} \cup Pages
               /\ scan[p].at \in 0 .. NPROC + 1
    <3>1. mapEntries[p] \in Seq(Entry) /\ scan[p] \in Scan /\ calls \in 0 .. MaxCalls
      BY <1>0 DEF Types
    <3>2. Len(mapEntries[p]) \in Nat /\ calls \in Nat /\ calls <= MaxCalls
      BY <3>1, Sizes
    <3>3. Len(mapEntries[p]) <= calls
      BY <1>0 DEF Slots, SlotOK
    <3>4. QED
      BY <3>1, <3>2, <3>3, Sizes DEF Scan, Frames
  <2>2. QED
    BY <2>1, <1>0 DEF TypeOK, Types, Frames
<1>2. NothingLeaks
  <2> SUFFICES ASSUME NEW g \in Pages \ lost
               PROVE  g \in ToSet(freelist) \/ Sharers(g) # {} \/ Scanners(g) # {}
    BY DEF NothingLeaks
  <2>1. CASE \E i \in 1 .. Len(freelist) : freelist[i] = g
    BY <2>1, <1>0, FreeAre
  <2>2. CASE \E p \in Procs, v \in Window : pte[p][v] = g
    BY <2>2, SharersAre
  <2>3. CASE \E p \in Procs : scan[p].page = g
    BY <2>3 DEF Scanners
  <2>4. QED
    BY <2>1, <2>2, <2>3, <1>0 DEF PageInv, NoLeak
<1>3. QED
  BY <1>1, <1>2 DEF PagesAccounted

LEMMA FreeAlone == MmapInv => OnlyTornAreFreeAndMapped
<1> SUFFICES ASSUME MmapInv, NEW g \in ToSet(freelist) \ torn, NEW p \in Sharers(g) PROVE FALSE
  BY DEF OnlyTornAreFreeAndMapped
<1>0. Types /\ FreeUnmapped
  BY DEF MmapInv, PageInv
<1>1. PICK i \in 1 .. Len(freelist) : freelist[i] = g
  BY <1>0, FreeAre
<1>2. g \in Pages
  BY <1>0, <1>1 DEF Types
<1>3. PICK v \in Window : p \in Procs /\ pte[p][v] = g
  BY <1>2, SharersAre
<1>4. QED
  BY <1>0, <1>1, <1>3 DEF FreeUnmapped

LEMMA PluralShared == MmapInv => OnlySharedArePlural
<1> SUFFICES ASSUME MmapInv, NEW p \in Procs \ bent, NEW q \in Procs \ bent,
                    NEW v \in Window, NEW w \in Window, pte[p][v] = pte[q][w],
                    <<p, v>> # <<q, w>>, pte[p][v] \in Pages \ torn
             PROVE  p # q /\ v = w /\ kind[pte[p][v]] = "shared"
  BY DEF OnlySharedArePlural
<1>1. v = w
  BY DEF MmapInv, PageInv, SameAddress
<1>2. p # q
  BY <1>1
<1>3. QED
  BY <1>1, <1>2 DEF MmapInv, PageInv, SharedKind

LEMMA SoundMappings == MmapInv => MappingsSound
<1> SUFFICES ASSUME MmapInv PROVE MappingsSound
  OBVIOUS
<1>1. \A p \in Procs : MapsOK(p)
  BY DEF MmapInv, Maps
<1>2. MappingsApart
  BY <1>1 DEF MapsOK, Apart, MappingsApart
<1>3. GuardsHold
  BY <1>1 DEF MapsOK, Placed, InPlace, GuardsFree, GuardsHold
<1>4. QED
  BY <1>2, <1>3 DEF MappingsSound

(* Every physical page is free, mapped, about to be freed by a clearpte or *)
(* lost by a call that failed, and the tables have the right shape, however *)
(* mmap, munmap, fork, exec, exit and page faults interleave.              *)
THEOREM PagesAccountedHolds == Spec => []PagesAccounted
<1>1. QED
  BY MmapInductive, Accounted, PTL

(* kfree gets no page that a process still maps, however the searches of   *)
(* ispamapped overlap, but for the pages exec tears from their sharers and *)
(* those that two clearptes searched for at once.                          *)
THEOREM OnlyTornHolds == Spec => []OnlyTornAreFreeAndMapped
<1>1. QED
  BY MmapInductive, FreeAlone, PTL

(* Where two translations lead to one page, copymemorymappings has         *)
(* inherited a shared mapping, at the same address.                        *)
THEOREM OnlySharedHolds == Spec => []OnlySharedArePlural
<1>1. QED
  BY MmapInductive, PluralShared, PTL

(* The mappings of a process and their guard pages never overlap, and no   *)
(* guard page is mapped, through canallocatva, cangrowup and fork.         *)
THEOREM MappingsSoundHolds == Spec => []MappingsSound
<1>1. QED
  BY MmapInductive, SoundMappings, PTL

=============================================================================
