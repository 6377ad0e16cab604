-------------------------------- MODULE Wfs --------------------------------
(***************************************************************************)
(* The log-structured file system of p7: mkfs.wfs writes the first log     *)
(* entry, mount.wfs serves FUSE calls one at a time (the -s option) by     *)
(* appending entries, fsck.wfs compacts the log of an unmounted disk.      *)
(*                                                                         *)
(* The log is a sequence of entries.  Sizes are in words of four bytes, as *)
(* wfs.h lays the structures out; the offset of an entry is the sum of the *)
(* sizes before it, so the scans go from index to index.  A file's data is *)
(* a sequence of words.                                                    *)
(***************************************************************************)
EXTENDS Naturals, Sequences

CONSTANTS
  Paths,      \* paths the kernel may name, as sequences of names
  Offsets,    \* offsets of the one-word writes
  Bytes,      \* words written
  Instances   \* [size : disk_size in words, and the bounds calls : successful
              \* calls in a behaviour, fscks : runs of fsck.wfs]

Names == UNION {{p[i] : i \in DOMAIN p} : p \in Paths}

ASSUME WfsAssumption ==
  /\ Paths \subseteq Seq(Names)
  /\ << >> \in Paths
  /\ \A p \in Paths : p # << >> => SubSeq(p, 1, Len(p) - 1) \in Paths
  /\ Offsets \subseteq Nat
  /\ Bytes \subseteq Nat
  /\ Instances \subseteq [size : Nat, calls : Nat, fscks : Nat]
  \* mkfs.wfs writes the superblock and the root's entry without a test
  /\ \A i \in Instances : i.size >= 13

VARIABLES
  inst,    \* the disk of this behaviour: one of Instances
  log,     \* the log entries up to sb->head
  tree,    \* history: what getattr and read show of every path
  calls, fscks,
  cut      \* history: has a call run out of space between its two parts?

wfsvars == <<inst, log, tree, calls, fscks, cut>>

DiskSize == inst.size

SB == 2       \* sizeof(struct wfs_sb)
ENTRY == 11   \* sizeof(struct wfs_log_entry)
DENTRY == 10  \* sizeof(struct wfs_dentry)

Parent(p) == SubSeq(p, 1, Len(p) - 1)
Filename(p) == p[Len(p)]

Entry(ino, dir, data) ==
  [ino |-> ino, deleted |-> FALSE, dir |-> dir, data |-> data]

EntrySize(e) == ENTRY + (IF e.dir THEN DENTRY ELSE 1) * Len(e.data)

(* sb->head after the first n entries. *)
LogHead(l) ==
  LET offset[n \in 0 .. Len(l)] ==
        IF n = 0 THEN SB ELSE offset[n - 1] + EntrySize(l[n])
  IN  offset[Len(l)]

MaxOf(S) == CHOOSE m \in S : \A n \in S : n <= m
MinOf(S) == CHOOSE m \in S : \A n \in S : m <= n

(* A slip: the scan skips deleted entries. *)
MaxLiveInode(l) == MaxOf({0} \cup {l[i].ino : i \in {j \in DOMAIN l : ~l[j].deleted}})

(* find_max_inode_number: deleted entries count. *)
find_max_inode_number(l) == MaxOf({l[i].ino : i \in DOMAIN l})

(* A slip: the last entry, deleted or not. *)
LastEntryOf(l, ino) == MaxOf({0} \cup {i \in DOMAIN l : l[i].ino = ino})

(* find_latest_log_entry: the index of the last live entry, or 0 for NULL. *)
find_latest_log_entry(l, ino) ==
  MaxOf({0} \cup {i \in DOMAIN l : l[i].ino = ino /\ ~l[i].deleted})

(***************************************************************************)
(* find_log_entry_by_path.  Match(l, i, name) is what the scan finds at    *)
(* entry i: the latest entry of the first dentry with that name that has   *)
(* one.  Scan looks for a token from entry i to the end of the log, in     *)
(* every entry that is a directory, old versions included, and goes on     *)
(* from what it has found.                                                 *)
(***************************************************************************)
Match(l, i, name) ==
  LET hits == {j \in DOMAIN l[i].data :
                 /\ l[i].data[j].name = name
                 /\ find_latest_log_entry(l, l[i].data[j].ino) # 0}
  IN  IF ~l[i].dir \/ hits = {} THEN 0
      ELSE find_latest_log_entry(l, l[i].data[MinOf(hits)].ino)

Scan(l, i, name) ==
  LET found == {j \in i .. Len(l) : Match(l, j, name) # 0}
  IN  IF found = {} THEN 0 ELSE Match(l, MinOf(found), name)

find_log_entry_by_path(l, path) ==
  LET at[k \in 0 .. Len(path)] ==
        IF k = 0 THEN 1
        ELSE IF at[k - 1] = 0 THEN 0 ELSE Scan(l, at[k - 1], path[k])
  IN  IF path = << >> THEN find_latest_log_entry(l, l[1].ino)
      ELSE at[Len(path)]

Exists(l, p) == find_log_entry_by_path(l, p) # 0
IsDir(l, p) == Exists(l, p) /\ l[find_log_entry_by_path(l, p)].dir
IsFile(l, p) == Exists(l, p) /\ ~l[find_log_entry_by_path(l, p)].dir

(* wfs_getattr and wfs_read of a whole file. *)
Node(l, p) ==
  IF ~Exists(l, p) THEN [kind |-> "absent", data |-> << >>]
  ELSE IF IsDir(l, p) THEN [kind |-> "dir", data |-> << >>]
  ELSE [kind |-> "file", data |-> l[find_log_entry_by_path(l, p)].data]

Visible(l) == [p \in Paths |-> Node(l, p)]

(* mkfs.wfs *)
Mkfs ==
  /\ inst \in Instances
  /\ log = << Entry(0, TRUE, << >>) >>
  /\ tree = Visible(log)
  /\ calls = 0
  /\ fscks = 0
  /\ cut = FALSE

(***************************************************************************)
(* The kernel asks getattr for every prefix of a path before it calls, so  *)
(* a call's parent is a directory and its last name exists or does not, as *)
(* the call needs it.                                                      *)
(***************************************************************************)
KernelWalks(p) ==
  /\ p # << >>
  /\ \A n \in 0 .. (Len(p) - 1) : IsDir(log, SubSeq(p, 1, n))

(* A slip: the test looks at what is used, not at what is to be added. *)
FitsAlready(size) == LogHead(log) <= DiskSize

Fits(size) == LogHead(log) + size <= DiskSize

Called ==
  /\ tree' = Visible(log')
  /\ calls' = calls + 1

(***************************************************************************)
(* wfs_mknod (dir = FALSE) and wfs_mkdir (dir = TRUE): a new version of    *)
(* the parent, then the entry of the new inode.  When only the first fits  *)
(* the call fails with ENOSPC and the new version stays.                   *)
(***************************************************************************)
NewParent(p) ==
  LET parent == log[find_log_entry_by_path(log, Parent(p))]
  IN  [parent EXCEPT !.data =
         Append(@, [name |-> Filename(p), ino |-> find_max_inode_number(log) + 1])]

Make(p, dir) ==
  LET parent == NewParent(p)
      child == Entry(find_max_inode_number(log) + 1, dir, << >>)
  IN
  /\ calls < inst.calls
  /\ KernelWalks(p)
  /\ ~Exists(log, p)
  /\ Fits(EntrySize(parent))
  /\ log' = IF Fits(EntrySize(parent) + ENTRY) THEN log \o <<parent, child>>
            ELSE Append(log, parent)
  /\ Called
  /\ cut' = (cut \/ ~Fits(EntrySize(parent) + ENTRY))
  /\ UNCHANGED <<inst, fscks>>

(* wfs_write *)
NewData(d, o, v) ==
  [i \in 1 .. (IF o + 1 > Len(d) THEN o + 1 ELSE Len(d)) |->
     IF i = o + 1 THEN v ELSE IF i <= Len(d) THEN d[i] ELSE 0]

Write(p, o, v) ==
  LET old == log[find_log_entry_by_path(log, p)]
      new == Entry(old.ino, FALSE, NewData(old.data, o, v))
  IN
  /\ calls < inst.calls
  /\ KernelWalks(p)
  /\ IsFile(log, p)
  /\ Fits(EntrySize(new))
  /\ log' = Append(log, new)
  /\ Called
  /\ UNCHANGED <<inst, fscks, cut>>

(* delete_log_entries marks every version, in place. *)
delete_log_entries(l, ino) ==
  [i \in DOMAIN l |-> IF l[i].ino = ino THEN [l[i] EXCEPT !.deleted = TRUE]
                      ELSE l[i]]

(* The loop of wfs_unlink over the old dentries. *)
Without(dentries, ino) ==
  LET kept[i \in 0 .. Len(dentries)] ==
        IF i = 0 THEN << >>
        ELSE IF dentries[i].ino = ino THEN kept[i - 1]
        ELSE Append(kept[i - 1], dentries[i])
  IN  kept[Len(dentries)]

(* A slip of the loop in wfs_unlink: the name is not left out. *)
UnlinkLast(p) ==
  LET file == log[find_log_entry_by_path(log, p)]
      parent == log[find_log_entry_by_path(log, Parent(p))]
      marked == delete_log_entries(log, file.ino)
      new == Entry(parent.ino, TRUE, SubSeq(parent.data, 1, Len(parent.data) - 1))
  IN
  /\ calls < inst.calls
  /\ KernelWalks(p)
  /\ IsFile(log, p)
  /\ log' = IF Fits(EntrySize(new)) THEN Append(marked, new) ELSE marked
  /\ Called
  /\ cut' = (cut \/ ~Fits(EntrySize(new)))
  /\ UNCHANGED <<inst, fscks>>

(***************************************************************************)
(* wfs_unlink: the marks come before the test for space, so a call that    *)
(* fails with ENOSPC has deleted the file and kept its name.  The new      *)
(* version of the parent has one dentry less, whatever the loop copied;    *)
(* one it did not fill is what the disk held there, zeros.                 *)
(***************************************************************************)
Unlink(p) ==
  LET file == log[find_log_entry_by_path(log, p)]
      parent == log[find_log_entry_by_path(log, Parent(p))]
      kept == Without(parent.data, file.ino)
      left == [i \in 1 .. (Len(parent.data) - 1) |->
                 IF i <= Len(kept) THEN kept[i] ELSE [name |-> "", ino |-> 0]]
      marked == delete_log_entries(log, file.ino)
      new == Entry(parent.ino, TRUE, left)
  IN
  /\ calls < inst.calls
  /\ KernelWalks(p)
  /\ IsFile(log, p)
  /\ log' = IF Fits(EntrySize(new)) THEN Append(marked, new) ELSE marked
  /\ Called
  /\ cut' = (cut \/ ~Fits(EntrySize(new)))
  /\ UNCHANGED <<inst, fscks>>

(* A slip of fsck.wfs: its loop ends before the highest number. *)
CompactedShort(l) ==
  LET list[n \in 0 .. find_max_inode_number(l)] ==
        IF n = 0 THEN << l[find_latest_log_entry(l, 0)] >>
        ELSE IF n = find_max_inode_number(l) \/ find_latest_log_entry(l, n) = 0
          THEN list[n - 1]
          ELSE Append(list[n - 1], l[find_latest_log_entry(l, n)])
  IN  list[find_max_inode_number(l)]

(* fsck.wfs: the latest entry of every live inode, by inode number. *)
Compacted(l) ==
  LET live == {ino \in 0 .. find_max_inode_number(l) :
                 find_latest_log_entry(l, ino) # 0}
      list[n \in 0 .. find_max_inode_number(l)] ==
        LET before == IF n = 0 THEN << >> ELSE list[n - 1]
        IN  IF n \in live THEN Append(before, l[find_latest_log_entry(l, n)])
            ELSE before
  IN  list[find_max_inode_number(l)]

Fsck ==
  /\ fscks < inst.fscks
  /\ log' = Compacted(log)
  /\ tree' = Visible(log')
  /\ fscks' = fscks + 1
  /\ UNCHANGED <<inst, calls, cut>>

WfsNext ==
  \/ \E p \in Paths, dir \in BOOLEAN : Make(p, dir)
  \/ \E p \in Paths, o \in Offsets, v \in Bytes : Write(p, o, v)
  \/ \E p \in Paths : Unlink(p)
  \/ Fsck

WfsSpec == Mkfs /\ [][WfsNext]_wfsvars

(***************************************************************************)
(* Properties.                                                             *)
(***************************************************************************)

Dentries == [name : Names \cup {""}, ino : Nat]
DirEntries == [ino : Nat, deleted : BOOLEAN, dir : {TRUE}, data : Seq(Dentries)]
FileEntries ==
  [ino : Nat, deleted : BOOLEAN, dir : {FALSE}, data : Seq(Bytes \cup {0})]
LogEntries == DirEntries \cup FileEntries

(* The log is made of whole entries and ends within the disk. *)
WfsTypeOK ==
  /\ log \in Seq(LogEntries)
  /\ LogHead(log) <= DiskSize
  /\ calls \in 0 .. inst.calls
  /\ fscks \in 0 .. inst.fscks

(* What a path names is what a walk from the latest version of the root,   *)
(* through the latest version of each directory on the way, would find     *)
(* (the scan of find_log_entry_by_path goes through the whole log).        *)
WalkFromRoot(path) ==
  LET at[k \in 0 .. Len(path)] ==
        IF k = 0 THEN find_latest_log_entry(log, 0)
        ELSE IF at[k - 1] = 0 THEN 0 ELSE Match(log, at[k - 1], path[k])
  IN  at[Len(path)]

LookupFollowsTree ==
  \A p \in Paths : find_log_entry_by_path(log, p) = WalkFromRoot(p)

(* Two paths never name the same inode: wfs_mknod and wfs_mkdir give every *)
(* file a number of its own and there is no link call.                     *)
NoAliases ==
  \A p, q \in Paths :
    /\ Exists(log, p) /\ Exists(log, q)
    /\ log[find_log_entry_by_path(log, p)].ino
         = log[find_log_entry_by_path(log, q)].ino
    => p = q

(* readdir lists a name exactly when the path with that name exists, and   *)
(* lists it once, until a call has run out of space between its two parts. *)
ListedNamesExist ==
  \A p \in Paths : IsDir(log, p) /\ ~cut =>
    LET list == log[find_log_entry_by_path(log, p)].data IN
    /\ \A i \in DOMAIN list : Exists(log, Append(p, list[i].name))
    /\ \A i, j \in DOMAIN list : list[i].name = list[j].name => i = j
    /\ \A q \in Paths : q # << >> /\ Parent(q) = p /\ Exists(log, q) =>
         \E i \in DOMAIN list : list[i].name = Filename(q)

(* Seen through getattr and read, every call changes the path it names and *)
(* no other, a call that fails for lack of space changes nothing but       *)
(* (unlink) that path, and fsck changes nothing.                           *)
Tree == INSTANCE FileTree

ImplementsTree == Tree!Spec
=============================================================================
