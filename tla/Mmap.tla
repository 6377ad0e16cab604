-------------------------------- MODULE Mmap --------------------------------
(***************************************************************************)
(* mmap and munmap of p5: the window 0x60000000 .. KERNBASE of every       *)
(* process, its table of mappings, the pages behind them, and what fork,   *)
(* exec, exit and a page fault do to both.                                 *)
(*                                                                         *)
(* A call works on its own page table alone, so it is one step, with two   *)
(* exceptions.  clearpte drops a translation and then reads the page       *)
(* tables of all processes, one after the other and without a lock, while  *)
(* other calls run on the other CPU.  fork copies the mappings one after   *)
(* the other under ptable.lock, which only fork, exit, wait and the        *)
(* scheduler take: everything else may come in between.                    *)
(***************************************************************************)
EXTENDS Integers, Sequences, FiniteSets, SequencesExt

CONSTANTS
  NPROC,     \* slots of the process table
  NWINDOW,      \* virtual pages of the window: 1 .. NWINDOW
  NPAGES,    \* physical pages
  Lens,      \* lengths of mmap, in pages
  FlagSets,  \* sets of flags passed to mmap, MAP_PRIVATE being no MAP_SHARED
  MaxCalls,  \* bound: calls of programs, at most the 100 entries of a table
  Excess,    \* munmap may be asked for so many pages more than were mapped
  Data,      \* what programs write into their pages
  Cached     \* virtual pages whose translation the TLB keeps

ASSUME MmapAssumption ==
  /\ NPROC \in Nat \ {0} /\ NWINDOW \in Nat \ {0} /\ NPAGES \in Nat
  /\ Lens \subseteq Nat \ {0} /\ MaxCalls \in 0 .. 100 /\ Excess \in Nat
  /\ FlagSets \subseteq SUBSET {"SHARED", "ANONYMOUS", "FIXED", "GROWSUP"}
  /\ Cached \subseteq 1 .. NWINDOW

Procs == 1 .. NPROC
Window == 1 .. NWINDOW
Pages == 1 .. NPAGES
None == 0          \* a translation that is not present
NoRam == NPAGES + 1    \* the address V2P(0), behind the memory
PageZero == NPAGES + 2 \* physical page 0; kfree refuses it as it does NoRam

VARIABLES
  state,      \* UNUSED, EMBRYO, ZOMBIE, user, or the call it is in: munmap, exit,
              \* fork, copy (fork with ptable.lock); new: the child of that one
  mapEntries, \* per process: the entries up to currentMappingIndex
  pte,        \* per process: the translations of the window
  tables,     \* the processes that have a page table for the window
  task,       \* per process: the entry and the pages munmap or fork works on
  scan,       \* per process: the page ispamapped looks for, and the next slot
  freelist,   \* kmem.freelist
  content,    \* what each physical page holds
  tlb,        \* per process: translations the CPU has kept since it switched
  calls,      \* calls made so far
  halted,     \* "no", "panic", or "corrupt" once memory is freed twice
  bent,       \* history: processes whose table and page table have parted
  torn,       \* history: pages freed by exec or by clearptes that overlapped
  lost,       \* history: pages of failed calls or searches that nobody will free
  kind        \* history: was the page allocated for a shared mapping?

table == <<mapEntries, pte, tables>>
memory == <<freelist, content>>
machine == <<tlb, calls, halted>>
history == <<bent, torn, lost, kind>>
vars == <<state, table, task, scan, memory, machine, history>>

NoEntry == [flags |-> {}, numPages |-> 0, start |-> 0, guard |-> 0, isValid |-> FALSE]
NoTask == [entry |-> 0, va |-> 0, left |-> 0, temp |-> 0, child |-> 0]
NoScan == [page |-> None, at |-> 0]
Junk == "junk"
Empty == [va \in Window |-> None]

Init ==
  /\ state = [p \in Procs |-> IF p = 1 THEN "user" ELSE "UNUSED"]
  /\ mapEntries = [p \in Procs |-> <<>>]
  /\ pte = [p \in Procs |-> Empty]
  /\ tables = {}
  /\ task = [p \in Procs |-> NoTask]
  /\ scan = [p \in Procs |-> NoScan]
  /\ freelist = [i \in Pages |-> i]
  /\ content = [g \in Pages |-> Junk]
  /\ tlb = [p \in Procs |-> Empty]
  /\ calls = 0
  /\ halted = "no"
  /\ bent = {} /\ torn = {} /\ lost = {}
  /\ kind = [g \in Pages |-> "none"]

Valid(p) == {i \in DOMAIN mapEntries[p] : mapEntries[p][i].isValid}
Extent(e) == e.start .. e.start + e.numPages - 1
Taken(n) == {freelist[i] : i \in (1 .. n) \cap DOMAIN freelist}
Drop(s, n) == SubSeq(s, n + 1, Len(s))

(* Nobody has ptable.lock, which fork keeps while it copies. *)
PtableFree == \A q \in Procs : state[q] # "copy"

isguardpage(p, va) == \E i \in Valid(p) : mapEntries[p][i].guard = va

(* A process in user mode makes a call, takes a fault or is killed. *)
Call(p) ==
  /\ state[p] = "user"
  /\ calls < MaxCalls
  /\ calls' = calls + 1

Kind(flags) == IF "SHARED" \in flags THEN "shared" ELSE "private"

(* The kernel's half, from KERNBASE on, is always mapped. *)
\* Slip: an address in a guard page is taken.
canallocatvaGuardless(p, va, n) == \A w \in va .. va + n - 1 : w \in Window /\ pte[p][w] = None

canallocatva(p, va, n) ==
  \A w \in va .. va + n - 1 :
    w \in Window /\ pte[p][w] = None /\ ~isguardpage(p, w)

FirstFree(p, n) ==
  LET found == {va \in Window : canallocatva(p, va, n)} IN
  IF found = {} THEN 0 ELSE CHOOSE va \in found : \A w \in found : va <= w

(***************************************************************************)
(* mmap: the pages are allocated before the address is looked for, and no  *)
(* return after that gives them back.                                      *)
(***************************************************************************)
Lose(n) ==
  /\ lost' = lost \cup Taken(n)
  /\ freelist' = Drop(freelist, n)

MmapFails(p, n, flags, va) ==
  /\ ~canallocatva(p, va, n) \/ ("GROWSUP" \in flags /\ ~canallocatva(p, va + n, 1))
  /\ Lose(n)
  /\ UNCHANGED <<state, table, task, scan, content, tlb, halted, bent, torn, kind>>

(* Without MAP_ANONYMOUS the file is read into the pages, which may fail: *)
(* the pages stay mapped, without an entry.                               *)
MmapMaps(p, n, flags, va) ==
  /\ canallocatva(p, va, n)
  /\ "GROWSUP" \in flags => canallocatva(p, va + n, 1)
  /\ pte' = [pte EXCEPT ![p] =
       [w \in Window |-> IF w \in va .. va + n - 1 THEN freelist[w - va + 1] ELSE @[w]]]
  /\ tables' = tables \cup {p}
  /\ kind' = [g \in Pages |-> IF g \in Taken(n) THEN Kind(flags) ELSE kind[g]]
  /\ freelist' = Drop(freelist, n)
  /\ \/ mapEntries' = [mapEntries EXCEPT ![p] = Append(@,
          [flags |-> flags, numPages |-> n, start |-> va, isValid |-> TRUE,
           guard |-> IF "GROWSUP" \in flags THEN va + n ELSE 0])]
     \/ "ANONYMOUS" \notin flags /\ UNCHANGED mapEntries
  /\ UNCHANGED <<state, task, scan, content, tlb, halted, bent, torn, lost>>

Mmap(p, n, flags, va) ==
  /\ n <= Len(freelist)
  /\ IF "FIXED" \in flags THEN va \in 1 .. NWINDOW + 1 ELSE va = FirstFree(p, n)
  /\ MmapFails(p, n, flags, va) \/ MmapMaps(p, n, flags, va)

(***************************************************************************)
(* clearpte, ispamapped and kfree.                                         *)
(***************************************************************************)
Halt(why) ==
  /\ halted' = why
  /\ UNCHANGED <<state, table, task, scan, memory, tlb, history>>

Mapped(p) == {pte[p][va] : va \in Window} \ {None}
Sharers(g) == {p \in Procs : g \in Mapped(p)}
Scanners(g) == {p \in Procs : scan[p].page = g}

(* clearpte up to the search. *)
ClearPte(p, va, t) ==
  /\ pte' = [pte EXCEPT ![p][va] = None]
  /\ scan' = [scan EXCEPT ![p] = [page |-> pte[p][va], at |-> 1]]
  /\ task' = [task EXCEPT ![p] = t]
  /\ torn' = IF Scanners(pte[p][va]) = {} THEN torn ELSE torn \cup {pte[p][va]}
  /\ UNCHANGED <<state, mapEntries, tables, memory, tlb, halted, bent, lost, kind>>

\* Slip: processes that are in a call are not looked at.
ScanNextUserOnly(p) ==
  /\ scan[p].at \in Procs
  /\ LET q == scan[p].at IN
     scan' = IF state[q] = "user" /\ scan[p].page \in Mapped(q)
             THEN [scan EXCEPT ![p] = NoScan] ELSE [scan EXCEPT ![p].at = @ + 1]
  /\ UNCHANGED <<state, table, task, memory, tlb, halted, history>>

ScanNext(p) ==
  /\ scan[p].at \in Procs
  /\ LET q == scan[p].at IN
     scan' = IF state[q] # "UNUSED" /\ scan[p].page \in Mapped(q)
             THEN [scan EXCEPT ![p] = NoScan] ELSE [scan EXCEPT ![p].at = @ + 1]
  /\ UNCHANGED <<state, table, task, memory, tlb, halted, history>>

(* The page table of an EMBRYO slot is one that wait has freed, or none: *)
(* what is read there may look like the page, or lead out of the memory. *)
ScanEmbryo(p) ==
  /\ scan[p].at \in Procs
  /\ state[scan[p].at] = "EMBRYO"
  /\ \/ Halt("panic")
     \/ /\ scan' = [scan EXCEPT ![p] = NoScan]
        /\ lost' = lost \cup {g \in {scan[p].page} : Sharers(g) = {} /\ Scanners(g) = {p}}
        /\ UNCHANGED <<state, table, task, memory, tlb, halted, bent, torn, kind>>

ScanFree(p) ==
  /\ scan[p].at > NPROC
  /\ LET g == scan[p].page IN
     IF g \notin Pages THEN Halt("panic")
     ELSE IF g \in ToSet(freelist) THEN Halt("corrupt")
     ELSE /\ freelist' = <<g>> \o freelist
          /\ content' = [content EXCEPT ![g] = Junk]
          /\ scan' = [scan EXCEPT ![p] = NoScan]
          /\ UNCHANGED <<state, table, task, tlb, halted, history>>

(***************************************************************************)
(* munmap: findmappingmetadata takes the first entry that starts at the    *)
(* address.  A shared file mapping is written back first: that may fail,   *)
(* and it is a fault in the kernel where a page of the entry is missing.   *)
(***************************************************************************)
findmappingmetadata(p, va) ==
  LET found == {i \in Valid(p) : mapEntries[p][i].start = va} IN
  {i \in found : \A j \in found : i <= j}

(* What munmap has still to do. *)
Unmapping(i, va, n) == [entry |-> i, va |-> va, left |-> n, temp |-> 0, child |-> 0]

Holes(p, e) == {va \in Extent(e) : va \notin Window \/ pte[p][va] = None}

Munmap(p, va, n) ==
  /\ \E i \in findmappingmetadata(p, va) :
       LET e == mapEntries[p][i] IN
       /\ n <= e.numPages + Excess
       /\ IF "SHARED" \in e.flags /\ "ANONYMOUS" \notin e.flags /\ Holes(p, e) # {}
          THEN Halt("panic")
          ELSE /\ state' = [state EXCEPT ![p] = "munmap"]
               /\ task' = [task EXCEPT ![p] = Unmapping(i, va, n)]
               /\ bent' = IF n > e.numPages THEN bent \cup {p} ELSE bent
               /\ UNCHANGED <<table, scan, memory, tlb, halted, torn, lost, kind>>

Return(p) ==
  /\ state' = [state EXCEPT ![p] = "user"]
  /\ task' = [task EXCEPT ![p] = NoTask]

(* A page that is not there has address 0, and kfree panics for it. *)
MunmapPage(p) ==
  LET t == task[p] IN
  /\ state[p] = "munmap" /\ scan[p] = NoScan
  /\ t.left > 0
  /\ IF p \notin tables
     THEN Return(p) /\ UNCHANGED <<table, scan, memory, tlb, halted, history>>
     ELSE IF t.va \notin Window \/ pte[p][t.va] = None THEN Halt("panic")
     ELSE ClearPte(p, t.va, Unmapping(t.entry, t.va + 1, t.left - 1))

MunmapEnd(p) ==
  /\ state[p] = "munmap" /\ scan[p] = NoScan
  /\ task[p].left = 0
  /\ mapEntries' = [mapEntries EXCEPT ![p][task[p].entry] = NoEntry]
  /\ Return(p)
  /\ UNCHANGED <<pte, tables, scan, memory, tlb, halted, history>>

(***************************************************************************)
(* exit clears every translation of the window, from the bottom; nothing   *)
(* is written back.  wait frees the page table, now empty.                 *)
(***************************************************************************)
Exit(p) ==
  /\ state' = [state EXCEPT ![p] = "exit"]
  /\ UNCHANGED <<table, task, scan, memory, tlb, halted, history>>

ExitPage(p) ==
  /\ state[p] = "exit" /\ scan[p] = NoScan
  /\ \E va \in Window :
       /\ pte[p][va] # None
       /\ \A w \in 1 .. va - 1 : pte[p][w] = None
       /\ ClearPte(p, va, NoTask)

ExitEnd(p) ==
  /\ state[p] = "exit" /\ scan[p] = NoScan
  /\ Mapped(p) = {} /\ PtableFree
  /\ state' = [state EXCEPT ![p] = "ZOMBIE"]
  /\ UNCHANGED <<table, task, scan, memory, tlb, halted, history>>

Wait(p) ==
  /\ state[p] = "ZOMBIE" /\ PtableFree
  /\ state' = [state EXCEPT ![p] = "UNUSED"]
  /\ mapEntries' = [mapEntries EXCEPT ![p] = <<>>]
  /\ tables' = tables \ {p}
  /\ tlb' = [tlb EXCEPT ![p] = Empty]
  /\ bent' = bent \ {p}
  /\ UNCHANGED <<pte, task, scan, memory, halted, torn, lost, kind>>

(* exec's freevm frees whatever the old page table maps, upwards, and the *)
(* table of mappings stays.  Loading %cr3 empties the TLB.                *)
Downwards(p) ==
  LET used == {va \in Window : pte[p][va] # None} IN
  {vas \in [1 .. Cardinality(used) -> used] :
     \A i, j \in DOMAIN vas : i < j => vas[i] > vas[j]}

Exec(p) ==
  /\ IF ~(Mapped(p) \subseteq Pages) THEN Halt("panic")
     ELSE IF Mapped(p) \cap ToSet(freelist) # {} THEN Halt("corrupt")
     ELSE /\ \E vas \in Downwards(p) :
               freelist' = [i \in DOMAIN vas |-> pte[p][vas[i]]] \o freelist
          /\ content' = [g \in Pages |-> IF g \in Mapped(p) THEN Junk ELSE content[g]]
          /\ pte' = [pte EXCEPT ![p] = Empty]
          /\ tables' = tables \ {p}
          /\ tlb' = [tlb EXCEPT ![p] = Empty]
          /\ torn' = torn \cup {g \in Mapped(p) : Sharers(g) # {p} \/ Scanners(g) # {}}
          /\ bent' = IF Valid(p) = {} THEN bent ELSE bent \cup {p}
          /\ UNCHANGED <<state, mapEntries, task, scan, halted, lost, kind>>

(***************************************************************************)
(* A page fault: cangrowup maps the guard page of the first mapping that   *)
(* may grow into it, with whatever kalloc returns.  Any other fault kills  *)
(* the process, which is Exit.                                             *)
(***************************************************************************)
cangrowup(p, va) ==
  LET found == {i \in Valid(p) : /\ "GROWSUP" \in mapEntries[p][i].flags
                                 /\ va = mapEntries[p][i].start + mapEntries[p][i].numPages
                                 /\ canallocatva(p, va + 1, 1)} IN
  {i \in found : \A j \in found : i <= j}

Grown(e) ==
  [flags |-> e.flags, numPages |-> e.numPages + 1, start |-> e.start,
   guard |-> e.guard + 1, isValid |-> e.isValid]

PageFault(p, va) ==
  /\ pte[p][va] = None /\ tlb[p][va] = None
  /\ \E i \in cangrowup(p, va) :
       /\ pte' = [pte EXCEPT ![p][va] = IF freelist = <<>> THEN NoRam ELSE Head(freelist)]
       /\ tables' = tables \cup {p}
       /\ freelist' = Drop(freelist, 1)
       /\ kind' = [g \in Pages |-> IF g \in Taken(1) THEN Kind(mapEntries[p][i].flags) ELSE kind[g]]
       /\ mapEntries' = [mapEntries EXCEPT ![p][i] = Grown(@)]
  /\ UNCHANGED <<state, task, scan, content, tlb, halted, bent, torn, lost>>

(***************************************************************************)
(* An access in user mode goes where the TLB says, if it has kept a        *)
(* translation of the page, and else where the page table says.            *)
(***************************************************************************)
Through(kept, mapped, va) == IF kept[va] # None THEN kept[va] ELSE mapped[va]
Kept(kept, va, g) == IF va \in Cached THEN [kept EXCEPT ![va] = g] ELSE kept

Write(p, va, d) ==
  LET g == Through(tlb[p], pte[p], va) IN
  /\ state[p] = "user"
  /\ g \in Pages
  /\ content' = [content EXCEPT ![g] = d]
  /\ tlb' = [tlb EXCEPT ![p] = Kept(@, va, g)]
  /\ UNCHANGED <<state, table, task, scan, freelist, halted, history>>

(* switchuvm loads %cr3 when the process is scheduled again. *)
Switch(p) ==
  /\ tlb[p] # Empty /\ PtableFree
  /\ tlb' = [tlb EXCEPT ![p] = Empty]
  /\ UNCHANGED <<state, table, task, scan, memory, halted, history>>

(***************************************************************************)
(* fork: allocproc takes a slot, and copyuvm gives it a page table without *)
(* the window before copymemorymappings, under ptable.lock, copies what    *)
(* the valid entries of the parent map.                                    *)
(***************************************************************************)
Fork(p, c) ==
  /\ PtableFree
  /\ state[c] = "UNUSED" /\ \A q \in 1 .. c - 1 : state[q] # "UNUSED"
  /\ state' = [state EXCEPT ![p] = "fork", ![c] = "EMBRYO"]
  /\ task' = [task EXCEPT ![p] = [NoTask EXCEPT !.child = c]]
  /\ UNCHANGED <<table, scan, memory, tlb, halted, history>>

ForkCopy(p) ==
  LET c == task[p].child IN
  /\ state[p] = "fork" /\ PtableFree
  /\ state' = [state EXCEPT ![p] = "copy", ![c] = "new"]
  /\ bent' = IF p \in bent THEN bent \cup {c} ELSE bent
  /\ UNCHANGED <<table, task, scan, memory, tlb, halted, torn, lost, kind>>

(* The entry the loop comes to, if there is one. *)
NextEntry(p) ==
  LET left == {i \in Valid(p) : i > task[p].entry} IN
  {i \in left : \A j \in left : i <= j}

EnterCopy(p, i) ==
  mapEntries' = [mapEntries EXCEPT ![task[p].child] = Append(@, mapEntries[p][i])]

(* fork ignores an error, and the child runs with what was copied. *)
GiveUp(p, i) ==
  /\ EnterCopy(p, i)
  /\ task' = [task EXCEPT ![p].entry = Len(mapEntries[p])]
  /\ bent' = bent \cup {task[p].child}
  /\ UNCHANGED <<state, pte, tables, scan, tlb, halted, torn, kind>>

\* Slip: the pages allocated before kalloc fails are not given back.
NoMemoryKeeping(p, i) ==
  /\ mapEntries[p][i].numPages > Len(freelist)
  /\ freelist' = <<>>
  /\ GiveUp(p, i)
  /\ UNCHANGED <<content, lost>>

(* kalloc fails for the last page, and the others are freed as they came. *)
NoMemory(p, i) ==
  /\ mapEntries[p][i].numPages > Len(freelist)
  /\ freelist' = Reverse(freelist)
  /\ content' = [g \in Pages |-> IF g \in ToSet(freelist) THEN Junk ELSE content[g]]
  /\ GiveUp(p, i)
  /\ UNCHANGED lost

NoAddress(p, i) ==
  LET n == mapEntries[p][i].numPages IN
  /\ n <= Len(freelist) /\ FirstFree(p, n) = 0
  /\ Lose(n)
  /\ GiveUp(p, i)
  /\ UNCHANGED content

Remaps(c, e) == \E va \in Extent(e) : pte[c][va] # None

(* A private mapping gets new pages.  Nobody else knows of them yet, so   *)
(* all of them are entered in the child before the copying of the first.  *)
CopyPrivate(p, i) ==
  LET e == mapEntries[p][i]
      c == task[p].child IN
  /\ e.numPages <= Len(freelist) /\ FirstFree(p, e.numPages) # 0
  /\ IF Remaps(c, e) THEN Halt("panic")
     ELSE /\ EnterCopy(p, i)
          /\ pte' = [pte EXCEPT ![c] =
               [va \in Window |-> IF va \in Extent(e) THEN freelist[va - e.start + 1] ELSE @[va]]]
          /\ tables' = tables \cup {c}
          /\ freelist' = Drop(freelist, e.numPages)
          /\ kind' = [g \in Pages |-> IF g \in Taken(e.numPages) THEN "private" ELSE kind[g]]
          /\ task' = [task EXCEPT ![p] = [entry |-> i, va |-> e.start, left |-> e.numPages,
                                          temp |-> FirstFree(p, e.numPages), child |-> c]]
          /\ UNCHANGED <<state, scan, content, tlb, halted, bent, torn, lost>>

(* Each new page is mapped at a free address of the parent, written there *)
(* and unmapped, while the TLB may keep the translation.                  *)
CopyPage(p) ==
  LET t == task[p]
      source == Through(tlb[p], pte[p], t.va)
      target == IF tlb[p][t.temp] # None THEN tlb[p][t.temp] ELSE pte[t.child][t.va]
      datum == IF source \in Pages THEN content[source] ELSE Junk IN
  /\ state[p] = "copy" /\ t.left > 0
  /\ IF source = None THEN Halt("panic")
     ELSE /\ content' = IF target \in Pages THEN [content EXCEPT ![target] = datum] ELSE content
          /\ tlb' = [tlb EXCEPT ![p] = Kept(Kept(@, t.va, source), t.temp, target)]
          /\ task' = [task EXCEPT ![p] = [entry |-> t.entry, va |-> t.va + 1, left |-> t.left - 1,
                                          temp |-> t.temp + 1, child |-> t.child]]
          /\ UNCHANGED <<state, table, scan, freelist, halted, history>>

(* Without a page table the address of the translation is 0, and what the *)
(* child gets is read from the program's first page.                      *)
CopyShared(p, i) ==
  LET e == mapEntries[p][i]
      c == task[p].child IN
  IF p \notin tables THEN Halt("corrupt")
  ELSE IF Remaps(c, e) THEN Halt("panic")
  ELSE /\ EnterCopy(p, i)
       /\ pte' = [pte EXCEPT ![c] =
            [va \in Window |-> IF va \notin Extent(e) THEN @[va]
                               ELSE IF pte[p][va] = None THEN PageZero ELSE pte[p][va]]]
       /\ tables' = tables \cup {c}
       /\ task' = [task EXCEPT ![p].entry = i]
       /\ UNCHANGED <<state, scan, memory, tlb, halted, history>>

Copies(p) == state[p] = "copy" /\ task[p].left = 0

\* Slip: every mapping is copied as a shared one.
CopyEntryShared(p) == Copies(p) /\ \E i \in NextEntry(p) : CopyShared(p, i)

CopyEntry(p) ==
  /\ Copies(p)
  /\ \E i \in NextEntry(p) :
       IF "SHARED" \in mapEntries[p][i].flags THEN CopyShared(p, i)
       ELSE NoMemory(p, i) \/ NoAddress(p, i) \/ CopyPrivate(p, i)

ForkEnd(p) ==
  /\ Copies(p) /\ NextEntry(p) = {}
  /\ state' = [state EXCEPT ![p] = "user", ![task[p].child] = "user"]
  /\ task' = [task EXCEPT ![p] = NoTask]
  /\ UNCHANGED <<table, scan, memory, tlb, halted, history>>

Next ==
  /\ halted = "no"
  /\ \E p \in Procs :
       \/ /\ Call(p)
          /\ \/ \E n \in Lens, flags \in FlagSets, va \in 0 .. NWINDOW + 1 : Mmap(p, n, flags, va)
             \/ \E va \in Window, n \in 1 .. NWINDOW + Excess : Munmap(p, va, n)
             \/ \E va \in Window : PageFault(p, va)
             \/ \E va \in Window, d \in Data : Write(p, va, d)
             \/ \E c \in Procs : Fork(p, c)
             \/ Exec(p) \/ Exit(p)
       \/ /\ UNCHANGED calls
          /\ \/ MunmapPage(p) \/ MunmapEnd(p) \/ ScanNext(p) \/ ScanEmbryo(p) \/ ScanFree(p)
             \/ ForkCopy(p) \/ CopyEntry(p) \/ CopyPage(p) \/ ForkEnd(p)
             \/ ExitPage(p) \/ ExitEnd(p) \/ Wait(p) \/ Switch(p)

Spec == Init /\ [][Next]_vars

-----------------------------------------------------------------------------
States == {"UNUSED", "EMBRYO", "new", "user", "munmap", "fork", "copy", "exit", "ZOMBIE"}

TypeOK ==
  /\ state \in [Procs -> States]
  /\ pte \in [Procs -> [Window -> {None, NoRam, PageZero} \cup Pages]]
  /\ tlb \in [Procs -> [Window -> {None, NoRam, PageZero} \cup Pages]]
  /\ freelist \in Seq(Pages)
  /\ content \in [Pages -> {Junk} \cup Data]
  /\ halted \in {"no", "panic", "corrupt"}
  /\ \A p \in Procs : /\ Len(mapEntries[p]) <= MaxCalls
                      /\ scan[p].page \in {None, NoRam, PageZero} \cup Pages
                      /\ scan[p].at \in 0 .. NPROC + 1

(* However the searches of ispamapped overlap, the last to drop a page     *)
(* frees it: a page is free, mapped, about to be freed, or was taken by a  *)
(* call that failed (the returns of sys_mmap after kalloc), or the search  *)
(* believed to have seen it in the page table of an EMBRYO slot.           *)
NothingLeaks ==
  \A g \in Pages \ lost : g \in ToSet(freelist) \/ Sharers(g) # {} \/ Scanners(g) # {}

(* A free page is mapped by nobody, unless exec freed it from under its    *)
(* sharers or two clearptes of that page overlapped.                       *)
OnlyTornAreFreeAndMapped ==
  \A g \in ToSet(freelist) \ torn : Sharers(g) = {}

(* Two translations lead to one page only where a shared mapping was       *)
(* inherited, at the same address in two processes (copymemorymappings).   *)
OnlySharedArePlural ==
  \A p, q \in Procs \ bent : \A v, w \in Window :
    (pte[p][v] = pte[q][w] /\ <<p, v>> # <<q, w>> /\ pte[p][v] \in Pages \ torn)
      => p # q /\ v = w /\ kind[pte[p][v]] = "shared"

(* The mappings of a process and their guard pages lie apart, through      *)
(* growth, fixed addresses and fork.                                       *)
Territory(e) == Extent(e) \cup IF e.guard = 0 THEN {} ELSE {e.guard}

MappingsApart ==
  \A p \in Procs \ bent : \A i, j \in Valid(p) :
    i # j => Territory(mapEntries[p][i]) \cap Territory(mapEntries[p][j]) = {}

(* Below a guard page its mapping ends, and nothing is mapped in it: the   *)
(* process faults before it runs into the next mapping (cangrowup).        *)
GuardsHold ==
  \A p \in Procs \ bent : \A i \in Valid(p) :
    LET e == mapEntries[p][i] IN
    e.guard # 0 => /\ e.guard = e.start + e.numPages
                   /\ e.guard \in Window /\ pte[p][e.guard] = None

(* The comment in copymemorymappings: a forked child finds in its private  *)
(* pages what its parent has in them.                                      *)
Copied(c) ==
  \E p \in Procs \ {c} : \A i \in Valid(c) :
    LET e == mapEntries[c][i] IN
    "SHARED" \in e.flags \/ \A va \in Extent(e) :
      /\ pte[c][va] \in Pages /\ pte[p][va] \in Pages
      /\ content[pte[c][va]] = content[pte[p][va]]

ForkCopies ==
  [][\A c \in Procs : state[c] = "new" /\ state'[c] = "user" /\ c \notin bent'
       => Copied(c)']_vars

(* Every page of the memory is accounted for, in tables of the right shape, *)
(* whatever mmap, fork, munmap, exit and a failing kalloc did.             *)
PagesAccounted == TypeOK /\ NothingLeaks

(* The mappings of a process never run into each other, and below each guard *)
(* page the process faults first (canallocatva, cangrowup).                *)
MappingsSound == MappingsApart /\ GuardsHold

=============================================================================
