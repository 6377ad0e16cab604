------------------------------- MODULE Inode --------------------------------
(***************************************************************************)
(* Inodes, directories and path names of xv6 (fs.c) under the system calls *)
(* that change them (sysfile.c), for processes that call concurrently.     *)
(* What a process does under one inode's lock, and takes no other lock     *)
(* meanwhile, is one step; where the code keeps a lock while it waits for  *)
(* a second one, the lock stays held between two steps.  The cache of      *)
(* inodes is write-through and needs no copy of the fields.                *)
(***************************************************************************)
EXTENDS Integers, Sequences, FiniteSets

CONSTANTS
  Procs,    \* processes
  NINODES,  \* inodes of the disk; 1 is the root directory
  Names,    \* file names other than "." and ".."
  Paths,    \* [abs : BOOLEAN, names : Seq(Names and the dots)]: arguments
  Trees,    \* what mkfs and the calls made before may leave: [type, nlink, dir]
  Homes,    \* directories the processes may start in
  MaxCalls  \* bound: system calls that are started

Inum == 1 .. NINODES
Dots == {".", ".."}
Types == {"free", "file", "dir"}

EntriesOf(dirs, i) == {e \in Inum \X Names : dirs[e[1]][e[2]] = i}
SubdirsOf(types, dirs, i) ==
  {c \in Inum \ {1} : types[c] = "dir" /\ dirs[c][".."] = i /\ EntriesOf(dirs, c) # {}}

(* Only directories have names, and the names lead away from the root. *)
NoCycles(types, dirs) ==
  /\ \A d \in Inum : types[d] # "dir" => \A n \in Names : dirs[d][n] = 0
  /\ \E depth \in [Inum -> 0 .. NINODES] : \A d \in Inum, n \in Names :
       dirs[d][n] # 0 => depth[d] < depth[dirs[d][n]]

(* Names lead to inodes in use; a directory has one name, in its parent. *)
Shaped(types, dirs) ==
  /\ types[1] = "dir" /\ dirs[1][".."] = 1
  /\ \A d \in Inum : types[d] = "dir" => dirs[d]["."] = d /\ dirs[d][".."] # 0
  /\ \A d \in Inum, n \in Names : \A c \in Inum : dirs[d][n] = c =>
       /\ c # 1 /\ types[c] # "free"
       /\ types[c] = "dir" => dirs[c][".."] = d /\ EntriesOf(dirs, c) = {<<d, n>>}

(* What mkfs and completed calls leave: all is counted. *)
Complete(types, links, dirs) ==
  \A i \in Inum :
    links[i] = IF types[i] = "free" THEN 0
               ELSE Cardinality(EntriesOf(dirs, i)) + Cardinality(SubdirsOf(types, dirs, i))
                    + (IF i = 1 THEN 1 ELSE 0)

ASSUME InodeAssumption ==
  /\ IsFiniteSet(Procs) /\ 0 \notin Procs
  /\ NINODES \in Nat \ {0}
  /\ IsFiniteSet(Names) /\ Names \cap Dots = {}
  /\ Paths \subseteq [abs : BOOLEAN, names : Seq(Names \cup Dots) \ {<<>>}]
  /\ \A t \in Trees :
       /\ t.type \in [Inum -> Types] /\ t.nlink \in [Inum -> Nat]
       /\ t.dir \in [Inum -> [Names \cup Dots -> 0 .. NINODES]]
       /\ NoCycles(t.type, t.dir) /\ Shaped(t.type, t.dir) /\ Complete(t.type, t.nlink, t.dir)
  /\ Homes \subseteq Inum

VARIABLES
  type,   \* dinode.type: "free", "file" or "dir"
  nlink,  \* dinode.nlink
  dir,    \* the content of a directory: an inode, or 0, by name
  ref,    \* icache: references to the inode in memory
  lock,   \* icache: the process that holds the inode's lock, or 0
  valid,  \* icache: the inodes that have been read from the disk
  cwd,    \* per process: its current directory
  fd,     \* per process: its open file, or 0
  call, pc, names, \* per process: the system call, where it is, what is left of the path
  at, obj,         \* per process: two inodes the call has references to, or 0
  chosen, \* per process: the inode ialloc has marked and not yet got by iget, or 0
  puts,   \* per process: inodes to iput before it goes on
  freeing, \* processes whose iput frees the first inode of puts
  unref,  \* per process: the inode whose iput has its reference still to give back, or 0
  panicked,
  buried, \* history: inodes entered into a directory that was already removed
  crossed, \* history: inodes two iputs looked at before either gave its reference back
  astray,  \* history: processes that followed the ".." of a removed directory to an unlinked inode
  calls

disk == <<type, nlink, dir>>
cache == <<ref, lock, valid>>
user == <<cwd, fd>>
steps == <<call, pc, names, at, obj, chosen>>
iputs == <<freeing, unref>>
rest == <<panicked, buried, crossed, astray, calls>>
vars == <<disk, cache, user, steps, puts, iputs, rest>>

Empty == [n \in Names \cup Dots |-> 0]

(* Some process is in each directory that was removed. *)
Init ==
  /\ \E t \in Trees : type = t.type /\ nlink = t.nlink /\ dir = t.dir
  /\ cwd \in [Procs -> Homes]
  /\ \A p \in Procs : type[cwd[p]] = "dir"
  /\ \A i \in Inum : type[i] = "free" \/ nlink[i] > 0 \/ \E p \in Procs : cwd[p] = i
  /\ ref = [i \in Inum |-> Cardinality({p \in Procs : cwd[p] = i})]
  /\ lock = [i \in Inum |-> 0]
  /\ valid = {i \in Inum : ref[i] > 0}
  /\ fd = [p \in Procs |-> 0]
  /\ call = [p \in Procs |-> "none"]
  /\ pc = [p \in Procs |-> "idle"]
  /\ names = [p \in Procs |-> <<>>]
  /\ at = [p \in Procs |-> 0] /\ obj = [p \in Procs |-> 0] /\ chosen = [p \in Procs |-> 0]
  /\ puts = [p \in Procs |-> <<>>]
  /\ freeing = {} /\ unref = [p \in Procs |-> 0]
  /\ panicked = {} /\ buried = {} /\ crossed = {} /\ astray = {}
  /\ calls = 0

(* p runs at label l: no iput is left, and the kernel has not stopped. *)
At(p, l) == pc[p] = l /\ puts[p] = <<>> /\ unref[p] = 0 /\ panicked = {}

iget(i) == ref' = [ref EXCEPT ![i] = @ + 1]
Goto(p, l) == pc' = [pc EXCEPT ![p] = l]
Put(p, s) == puts' = [puts EXCEPT ![p] = s]

(* The call returns once the inodes of s are put. *)
Return(p, s) ==
  /\ UNCHANGED chosen
  /\ Goto(p, "idle")
  /\ call' = [call EXCEPT ![p] = "none"]
  /\ names' = [names EXCEPT ![p] = <<>>]
  /\ at' = [at EXCEPT ![p] = 0] /\ obj' = [obj EXCEPT ![p] = 0]
  /\ Put(p, s)

(* ilock can go on, and finds an inode with a type; it is in memory now. *)
Unlocked(i) == lock[i] = 0
ilock(i) == Unlocked(i) /\ type[i] # "free" /\ valid' = valid \cup {i}

ilock_panic(p) ==
  /\ \E l \in {"walk", "found", "got", "unl", "new"} : At(p, l)
  /\ LET i == IF pc[p] \in {"unl", "new"} THEN obj[p] ELSE at[p] IN
       Unlocked(i) /\ type[i] = "free"
  /\ panicked' = {"ilock: no type"}
  /\ UNCHANGED <<disk, cache, user, steps, puts, iputs, buried, crossed, astray, calls>>

(***************************************************************************)
(* iput: ref is read under the inode's lock, the inode is freed under that *)
(* lock alone, and the reference is given back when the lock is free.      *)
(***************************************************************************)
Crossing(p, i) ==
  crossed' = crossed \cup {j \in {i} : nlink[i] = 0 /\ \E q \in Procs \ {p} : unref[q] = i}

iput_if(p, last) ==
  LET i == Head(puts[p]) IN
  /\ panicked = {} /\ p \notin freeing /\ unref[p] = 0 /\ puts[p] # <<>> /\ Unlocked(i)
  /\ IF i \in valid /\ nlink[i] = 0 /\ last
     THEN /\ lock' = [lock EXCEPT ![i] = p]
          /\ freeing' = freeing \cup {p}
          /\ UNCHANGED <<puts, unref, crossed>>
     ELSE /\ Put(p, Tail(puts[p]))
          /\ unref' = [unref EXCEPT ![p] = i]
          /\ Crossing(p, i)
          /\ UNCHANGED <<lock, freeing>>
  /\ UNCHANGED <<disk, ref, valid, user, steps, panicked, buried, astray, calls>>

\* Slip: ref is not looked at.
iput_lockShared(p) == iput_if(p, TRUE)

\* Slip: a removed directory is not freed.
iput_lockFiles(p) == iput_if(p, ref[Head(puts[p])] = 1 /\ type[Head(puts[p])] = "file")

iput_lock(p) == iput_if(p, ref[Head(puts[p])] = 1)

iput_free(p) ==
  LET i == Head(puts[p]) IN
  /\ panicked = {} /\ p \in freeing
  /\ type' = [type EXCEPT ![i] = "free"]
  /\ dir' = [dir EXCEPT ![i] = Empty]
  /\ valid' = valid \ {i}
  /\ lock' = [lock EXCEPT ![i] = 0]
  /\ freeing' = freeing \ {p}
  /\ Put(p, Tail(puts[p]))
  /\ unref' = [unref EXCEPT ![p] = i]
  /\ crossed' = crossed \ {i}
  /\ UNCHANGED <<nlink, ref, user, steps, panicked, buried, astray, calls>>

(* The entry of an inode without references is recycled. *)
iput_unref(p) ==
  LET i == unref[p] IN
  /\ panicked = {} /\ i # 0
  /\ ref' = [ref EXCEPT ![i] = @ - 1]
  /\ valid' = valid \ {j \in {i} : ref[i] = 1}
  /\ unref' = [unref EXCEPT ![p] = 0]
  /\ UNCHANGED <<disk, lock, user, steps, puts, freeing, rest>>

(***************************************************************************)
(* namex: one directory after the other, never two locks at a time.        *)
(***************************************************************************)
Start(p, path) == IF path.abs THEN 1 ELSE cwd[p]

Call(p, c, path) ==
  /\ At(p, "idle") /\ calls < MaxCalls
  /\ calls' = calls + 1
  /\ call' = [call EXCEPT ![p] = c]
  /\ names' = [names EXCEPT ![p] = path.names]
  /\ at' = [at EXCEPT ![p] = Start(p, path)]
  /\ iget(Start(p, path))
  /\ Goto(p, "walk")
  /\ UNCHANGED <<disk, lock, valid, user, obj, chosen, puts, iputs, panicked, buried, crossed, astray>>

nameiparent(p) == call[p] \in {"create", "mkdir", "unlink", "link2"}

Entries(i) == EntriesOf(dir, i)
Removed(d) == d # 1 /\ Entries(d) = {}
Follows(p, next) ==
  astray' = astray \cup
    {q \in {p} : Head(names[p]) = ".." /\ Removed(at[p]) /\ nlink[next] = 0}

(* The path leads nowhere: link still has to take its count back. *)
NotFound(p) ==
  IF call[p] = "link2"
  THEN /\ Goto(p, "link_bad") /\ Put(p, <<at[p]>>)
       /\ at' = [at EXCEPT ![p] = 0]
       /\ UNCHANGED <<call, names, obj, chosen>>
  ELSE Return(p, <<at[p]>>)

namex(p) ==
  LET ip == at[p]
      next == dir[ip][Head(names[p])] IN
  /\ At(p, "walk") /\ ilock(ip)
  /\ IF type[ip] # "dir" THEN NotFound(p) /\ UNCHANGED <<ref, astray>>
     ELSE IF nameiparent(p) /\ Len(names[p]) = 1
     THEN Goto(p, "found") /\ UNCHANGED <<ref, astray, call, names, at, obj, chosen, puts>>
     ELSE IF next = 0 THEN NotFound(p) /\ UNCHANGED <<ref, astray>>
     ELSE /\ iget(next)
          /\ at' = [at EXCEPT ![p] = next]
          /\ names' = [names EXCEPT ![p] = Tail(@)]
          /\ Put(p, <<ip>>)
          /\ Goto(p, IF Len(names[p]) = 1 THEN "found" ELSE "walk")
          /\ Follows(p, next)
          /\ UNCHANGED <<call, obj, chosen>>
  /\ UNCHANGED <<disk, lock, user, iputs, panicked, buried, crossed, calls>>

(***************************************************************************)
(* open without O_CREATE, chdir, close.                                    *)
(***************************************************************************)
\* Slip: no iput when there is no descriptor.
OpenLeaking(p, ip) ==
  IF fd[p] = 0
  THEN fd' = [fd EXCEPT ![p] = ip] /\ Return(p, <<>>)
  ELSE UNCHANGED fd /\ Return(p, <<>>)

(* filealloc and fdalloc, for an inode this process has locked. *)
Open(p, ip) ==
  IF fd[p] = 0
  THEN fd' = [fd EXCEPT ![p] = ip] /\ Return(p, <<>>)
  ELSE UNCHANGED fd /\ Return(p, <<ip>>)

sys_open(p) ==
  /\ At(p, "found") /\ call[p] = "open" /\ ilock(at[p])
  /\ \/ Open(p, at[p])
     \/ type[at[p]] = "dir" /\ UNCHANGED fd /\ Return(p, <<at[p]>>)  \* omode is not O_RDONLY
  /\ UNCHANGED <<disk, ref, lock, cwd, iputs, rest>>

sys_chdir(p) ==
  /\ At(p, "found") /\ call[p] = "chdir" /\ ilock(at[p])
  /\ IF type[at[p]] = "dir"
     THEN cwd' = [cwd EXCEPT ![p] = at[p]] /\ Return(p, <<cwd[p]>>)
     ELSE UNCHANGED cwd /\ Return(p, <<at[p]>>)
  /\ UNCHANGED <<disk, ref, lock, fd, iputs, rest>>

sys_close(p) ==
  /\ At(p, "idle") /\ fd[p] # 0
  /\ Put(p, <<fd[p]>>)
  /\ fd' = [fd EXCEPT ![p] = 0]
  /\ UNCHANGED <<disk, cache, cwd, steps, iputs, rest>>

(***************************************************************************)
(* create, for open with O_CREATE and for mkdir.  The new inode stays      *)
(* locked while the parent is put.                                         *)
(***************************************************************************)
Free == {i \in Inum : type[i] = "free"}
kind(p) == IF call[p] = "mkdir" THEN "dir" ELSE "file"

\* Slip: the directory stays locked while the inode is locked.
create_existsLocked(p) ==
  LET dp == at[p]
      ip == dir[dp][Head(names[p])] IN
  /\ At(p, "found") /\ call[p] \in {"create", "mkdir"} /\ ilock(dp)
  /\ ip # 0
  /\ iget(ip)
  /\ at' = [at EXCEPT ![p] = ip]
  /\ lock' = [lock EXCEPT ![dp] = p]
  /\ Goto(p, "got")
  /\ UNCHANGED <<disk, user, call, names, obj, chosen, puts, iputs, rest>>

create_exists(p) ==
  LET dp == at[p]
      ip == dir[dp][Head(names[p])] IN
  /\ At(p, "found") /\ call[p] \in {"create", "mkdir"} /\ ilock(dp)
  /\ ip # 0
  /\ iget(ip)
  /\ at' = [at EXCEPT ![p] = ip]
  /\ Put(p, <<dp>>)
  /\ Goto(p, "got")
  /\ Follows(p, ip)
  /\ UNCHANGED <<disk, lock, user, call, names, obj, chosen, iputs, panicked, buried, crossed, calls>>

create_got(p) ==
  /\ At(p, "got") /\ ilock(at[p])
  /\ IF call[p] = "create" /\ type[at[p]] = "file"
     THEN Open(p, at[p])
     ELSE UNCHANGED fd /\ Return(p, <<at[p]>>)
  /\ UNCHANGED <<disk, ref, lock, cwd, iputs, rest>>

(* ialloc marks an inode on the disk; iget and ilock come later. *)
create_alloc(p) ==
  LET dp == at[p] IN
  /\ At(p, "found") /\ call[p] \in {"create", "mkdir"} /\ ilock(dp)
  /\ dir[dp][Head(names[p])] = 0
  /\ \E ip \in Free :
       /\ type' = [type EXCEPT ![ip] = kind(p)]
       /\ nlink' = [nlink EXCEPT ![ip] = 0]
       /\ dir' = [dir EXCEPT ![ip] = Empty]
       /\ chosen' = [chosen EXCEPT ![p] = ip]
       /\ buried' = buried \ {ip} /\ crossed' = crossed \ {ip}
  /\ lock' = [lock EXCEPT ![dp] = p]
  /\ Goto(p, "alloc")
  /\ UNCHANGED <<ref, user, call, names, at, obj, puts, iputs, panicked, astray, calls>>

create_iget(p) ==
  /\ At(p, "alloc")
  /\ iget(chosen[p])
  /\ obj' = [obj EXCEPT ![p] = chosen[p]]
  /\ chosen' = [chosen EXCEPT ![p] = 0]
  /\ Goto(p, "new")
  /\ UNCHANGED <<disk, lock, valid, user, call, names, at, puts, iputs, rest>>

(* What dirlink needs to enter "." and "..". *)
NoDots(i) == type[i] = "dir" /\ \A n \in Dots : dir[i][n] = 0

create_fill(p) ==
  LET dp == at[p]
      ip == obj[p]
      made == [dir[ip] EXCEPT !["."] = ip, ![".."] = dp]
      isdir == kind(p) = "dir" IN
  /\ At(p, "new") /\ ilock(ip)
  /\ isdir => NoDots(ip)
  /\ nlink' = [nlink EXCEPT ![ip] = 1, ![dp] = IF isdir THEN @ + 1 ELSE @]
  /\ dir' = [dir EXCEPT ![ip] = IF isdir THEN made ELSE @, ![dp][Head(names[p])] = ip]
  /\ lock' = [lock EXCEPT ![dp] = 0, ![ip] = p]
  /\ at' = [at EXCEPT ![p] = ip]
  /\ obj' = [obj EXCEPT ![p] = 0]
  /\ Put(p, <<dp>>)
  /\ Goto(p, "made")
  /\ buried' = buried \cup {i \in {ip} : Removed(dp)}
  /\ UNCHANGED <<type, ref, user, call, names, chosen, iputs, panicked, crossed, astray, calls>>

create_panic(p) ==
  /\ \/ /\ At(p, "found") /\ call[p] \in {"create", "mkdir"}
        /\ Unlocked(at[p]) /\ type[at[p]] # "free"
        /\ dir[at[p]][Head(names[p])] = 0 /\ Free = {}
        /\ panicked' = {"ialloc: no inodes"}
     \/ /\ At(p, "new") /\ kind(p) = "dir"
        /\ Unlocked(obj[p]) /\ type[obj[p]] # "free" /\ ~NoDots(obj[p])
        /\ panicked' = {"create dots"}
  /\ UNCHANGED <<disk, cache, user, steps, puts, iputs, buried, crossed, astray, calls>>

create_made(p) ==
  /\ At(p, "made")
  /\ lock' = [lock EXCEPT ![at[p]] = 0]
  /\ IF call[p] = "create" THEN Open(p, at[p]) ELSE UNCHANGED fd /\ Return(p, <<at[p]>>)
  /\ UNCHANGED <<disk, ref, valid, cwd, iputs, rest>>

(***************************************************************************)
(* unlink: the parent's lock is held while the inode's is taken, and the   *)
(* inode's lock is held while the parent is put.                           *)
(***************************************************************************)
unlink_none(p) ==
  LET dp == at[p] n == Head(names[p]) IN
  /\ At(p, "found") /\ call[p] = "unlink" /\ ilock(dp)
  /\ n \in Dots \/ dir[dp][n] = 0
  /\ Return(p, <<dp>>)
  /\ UNCHANGED <<disk, ref, lock, user, iputs, rest>>

unlink_lookup(p) ==
  LET dp == at[p] n == Head(names[p]) IN
  /\ At(p, "found") /\ call[p] = "unlink" /\ ilock(dp)
  /\ n \notin Dots /\ dir[dp][n] # 0
  /\ iget(dir[dp][n])
  /\ lock' = [lock EXCEPT ![dp] = p]
  /\ obj' = [obj EXCEPT ![p] = dir[dp][n]]
  /\ Goto(p, "unl")
  /\ UNCHANGED <<disk, user, call, names, at, chosen, puts, iputs, rest>>

isdirempty(i) == \A n \in Names : dir[i][n] = 0

unlink_full(p) ==
  /\ At(p, "unl") /\ ilock(obj[p])
  /\ type[obj[p]] = "dir" /\ ~isdirempty(obj[p])
  /\ Put(p, <<obj[p]>>)
  /\ obj' = [obj EXCEPT ![p] = 0]
  /\ Goto(p, "unl_bad")
  /\ UNCHANGED <<disk, ref, lock, user, call, names, at, chosen, iputs, rest>>

unlink_bad(p) ==
  /\ At(p, "unl_bad")
  /\ lock' = [lock EXCEPT ![at[p]] = 0]
  /\ Return(p, <<at[p]>>)
  /\ UNCHANGED <<disk, ref, valid, user, iputs, rest>>

unlink_entry(p) ==
  LET dp == at[p] ip == obj[p] IN
  /\ At(p, "unl") /\ ilock(ip)
  /\ type[ip] = "dir" => isdirempty(ip)
  /\ panicked' = IF nlink[ip] < 1 THEN {"unlink: nlink < 1"} ELSE {}
  /\ dir' = [dir EXCEPT ![dp][Head(names[p])] = 0]
  /\ nlink' = [nlink EXCEPT ![dp] = IF type[ip] = "dir" THEN @ - 1 ELSE @]
  /\ lock' = [lock EXCEPT ![dp] = 0, ![ip] = p]
  /\ Put(p, <<dp>>)
  /\ at' = [at EXCEPT ![p] = 0]
  /\ Goto(p, "unl_count")
  /\ UNCHANGED <<type, ref, user, call, names, obj, chosen, iputs, buried, crossed, astray, calls>>

unlink_count(p) ==
  LET ip == obj[p] IN
  /\ At(p, "unl_count")
  /\ nlink' = [nlink EXCEPT ![ip] = @ - 1]
  /\ lock' = [lock EXCEPT ![ip] = 0]
  /\ Return(p, <<ip>>)
  /\ UNCHANGED <<type, dir, ref, valid, user, iputs, rest>>

(***************************************************************************)
(* link: the count goes up first, and down again when the new name cannot  *)
(* be entered.                                                             *)
(***************************************************************************)
link_old(p, new) ==
  LET ip == at[p] IN
  /\ At(p, "found") /\ call[p] = "link" /\ ilock(ip)
  /\ IF type[ip] = "dir"
     THEN Return(p, <<ip>>) /\ UNCHANGED <<nlink, ref>>
     ELSE /\ nlink' = [nlink EXCEPT ![ip] = @ + 1]
          /\ obj' = [obj EXCEPT ![p] = ip]
          /\ call' = [call EXCEPT ![p] = "link2"]
          /\ names' = [names EXCEPT ![p] = new.names]
          /\ at' = [at EXCEPT ![p] = Start(p, new)]
          /\ iget(Start(p, new))
          /\ Goto(p, "walk")
          /\ UNCHANGED <<chosen, puts>>
  /\ UNCHANGED <<type, dir, lock, user, iputs, rest>>

link_new(p) ==
  LET dp == at[p] n == Head(names[p]) IN
  /\ At(p, "found") /\ call[p] = "link2" /\ ilock(dp)
  /\ dir[dp][n] = 0
  /\ dir' = [dir EXCEPT ![dp][n] = obj[p]]
  /\ buried' = buried \cup {i \in {obj[p]} : Removed(dp)}
  /\ Return(p, <<dp, obj[p]>>)
  /\ UNCHANGED <<type, nlink, ref, lock, user, iputs, panicked, crossed, astray, calls>>

(* The name is taken: dirlink puts the inode it found under dp's lock. *)
link_taken(p) ==
  LET dp == at[p] n == Head(names[p]) IN
  /\ At(p, "found") /\ call[p] = "link2" /\ ilock(dp)
  /\ dir[dp][n] # 0
  /\ iget(dir[dp][n])
  /\ lock' = [lock EXCEPT ![dp] = p]
  /\ Put(p, <<dir[dp][n]>>)
  /\ Goto(p, "link_unlock")
  /\ UNCHANGED <<disk, user, call, names, at, obj, chosen, iputs, rest>>

link_unlock(p) ==
  /\ At(p, "link_unlock")
  /\ lock' = [lock EXCEPT ![at[p]] = 0]
  /\ Put(p, <<at[p]>>)
  /\ at' = [at EXCEPT ![p] = 0]
  /\ Goto(p, "link_bad")
  /\ UNCHANGED <<disk, ref, valid, user, call, names, obj, chosen, iputs, rest>>

link_bad(p) ==
  /\ At(p, "link_bad") /\ ilock(obj[p])
  /\ nlink' = [nlink EXCEPT ![obj[p]] = @ - 1]
  /\ Return(p, <<obj[p]>>)
  /\ UNCHANGED <<type, dir, ref, lock, user, iputs, rest>>

Next ==
  \E p \in Procs :
    \/ \E c \in {"open", "create", "mkdir", "link", "unlink", "chdir"}, path \in Paths :
         Call(p, c, path)
    \/ ilock_panic(p) \/ iput_lock(p) \/ iput_free(p) \/ iput_unref(p) \/ namex(p)
    \/ sys_open(p) \/ sys_chdir(p) \/ sys_close(p)
    \/ create_exists(p) \/ create_got(p) \/ create_alloc(p) \/ create_iget(p) \/ create_fill(p)
    \/ create_made(p) \/ create_panic(p)
    \/ unlink_none(p) \/ unlink_lookup(p) \/ unlink_full(p) \/ unlink_bad(p)
    \/ unlink_entry(p) \/ unlink_count(p)
    \/ \E new \in Paths : link_old(p, new)
    \/ link_new(p) \/ link_taken(p) \/ link_unlock(p) \/ link_bad(p)

Spec == Init /\ [][Next]_vars

-----------------------------------------------------------------------------
(* The references a process has: its directory, its file, and what the     *)
(* call it is in has taken and not given back.                             *)
Held(p) == <<cwd[p], fd[p], at[p], obj[p], unref[p]>> \o puts[p]
Pointers(i) == UNION {{<<p, k>> : k \in {k \in DOMAIN Held(p) : Held(p)[k] = i}} : p \in Procs}

(* The lock a process needs for its next step, or 0. *)
Needs(p) ==
  IF unref[p] # 0 \/ p \in freeing THEN 0
  ELSE IF puts[p] # <<>> THEN Head(puts[p])
  ELSE IF pc[p] \in {"walk", "found", "got"} THEN at[p]
  ELSE IF pc[p] \in {"unl", "new", "link_bad"} THEN obj[p] ELSE 0

TypeOK ==
  /\ \A i \in Inum : type[i] \in Types /\ nlink[i] \in Int
  /\ dir \in [Inum -> [Names \cup Dots -> 0 .. NINODES]]
  /\ \A i \in Inum : lock[i] \in Procs \cup {0}
  /\ valid \subseteq Inum /\ freeing \subseteq Procs
  /\ \A p \in Procs : puts[p] \in Seq(Inum) /\ chosen[p] \in Inum \cup {0}

(* The reference count of an inode is the number of pointers to it: every  *)
(* path through the system calls puts what it got, once; and a call that   *)
(* has returned leaves no inode locked but the one its iput frees.         *)
RefsExact ==
  /\ \A i \in Inum : ref[i] = Cardinality(Pointers(i))
  /\ \A i \in Inum : lock[i] # 0 => pc[lock[i]] # "idle" \/ lock[i] \in freeing

Subdirs(i) == SubdirsOf(type, dir, i)

(* create works on an inode that is marked on the disk and has no link yet. *)
Making(i) == \E p \in Procs : chosen[p] = i \/ (pc[p] = "new" /\ obj[p] = i)

(* The link count is the number of names, of subdirectories and of calls   *)
(* between their two steps.  Only what was entered into a directory that   *)
(* had been removed is lost: create and link do not look at dp->nlink.     *)
LinksExact ==
  \A i \in Inum : nlink[i] >= 0 /\ (type[i] = "free" \/ i \in buried \/ nlink[i] =
    Cardinality(Entries(i)) + Cardinality(Subdirs(i)) + (IF i = 1 THEN 1 ELSE 0)
    + Cardinality({p \in Procs : obj[p] = i /\ (pc[p] = "unl_count" \/ call[p] = "link2")}))

(* A name leads to an inode that is allocated; the ".." of a directory that*)
(* has a name leads to a directory.                                        *)
NamesLead ==
  \A d \in Inum : type[d] = "dir" =>
    /\ \A n \in Names : dir[d][n] # 0 => type[dir[d][n]] # "free"
    /\ Entries(d) # {} => type[dir[d][".."]] = "dir"

(* Of the inode, p has at most a reference that it got by iget, and it has *)
(* not locked it since.                                                    *)
Clear(p, i) ==
  /\ cwd[p] # i /\ fd[p] # i
  /\ at[p] = i => pc[p] \in {"walk", "got"} \/ (pc[p] = "found" /\ ~nameiparent(p))
  /\ obj[p] = i => pc[p] \in {"unl", "new"}

Freed(i) == type[i] # "free" /\ type'[i] = "free"

(* An inode is freed some time after iput has read its count, and iget may *)
(* have handed it out in between.  No process loses its directory, its open*)
(* file or an inode it has locked before; and as long as nobody follows the*)
(* ".." of a removed directory, none has the inode at all.                 *)
FreedUnused ==
  [][\A i \in Inum : Freed(i) => \A p \in Procs :
       /\ Clear(p, i)'
       /\ astray' = {} => i \notin {at'[p], obj'[p], chosen'[p]}]_vars

(* The kernel stops only when the disk has no inode left, unless a process *)
(* has followed the ".." of a directory that was removed under it.  Such a *)
(* process may find a free inode there, or one that create is just making: *)
(* its iput frees that, and ilock stops in create or in whoever is next.   *)
PanicsExcused == panicked \subseteq {"ialloc: no inodes"} \/ astray # {}

(* A file without a name goes with the last reference to it.  The code     *)
(* keeps to this unless two iputs cross: both find the other's reference,  *)
(* neither frees the inode, and then both references are gone.             *)
Reclaimed ==
  \A i \in Inum : type[i] # "free" /\ nlink[i] = 0 /\ ref[i] = 0 => i \in crossed \/ Making(i)

(* fs.c of iput: "If that was the last reference and the inode has no      *)
(* links to it, free the inode (and its content) on disk."                 *)
LastPutFrees ==
  [][\A i \in Inum : ref[i] > 0 /\ ref'[i] = 0 => type[i] = "free" \/ nlink[i] > 0]_vars

(* fs.c of itrunc: "Only called when the inode has no links to it (no      *)
(* directory entries referring to it)".                                    *)
ItruncUnlinked ==
  [][\A i \in Inum : Freed(i) =>
       \A d \in Inum \ {i}, n \in Names \cup Dots : type[d] = "dir" => dir[d][n] # i]_vars

(* Each process of D waits for a lock that one of D holds. *)
Stuck(D) == D # {} /\ \A p \in D : Needs(p) # 0 /\ lock[Needs(p)] \in D

(* Locks are taken from the parent to the child.  The only step against    *)
(* that order is an iput that is called with another inode locked, by      *)
(* create, by unlink and by dirlink; a deadlock, of any number of          *)
(* processes, always has one in it.                                        *)
StuckInIput ==
  \A D \in SUBSET Procs : Stuck(D) =>
    \E p \in D : puts[p] # <<>> /\ \E i \in Inum : lock[i] = p

(* usertests.c runs link, unlink and create at once "to look for           *)
(* deadlocks".                                                             *)
NoDeadlock == \A D \in SUBSET Procs : ~ Stuck(D)

(* Along every path through the system calls the references in memory are  *)
(* exact, in a file system of the right shape.                             *)
RefsSound == TypeOK /\ RefsExact

(* As long as nobody follows the ".." of a removed directory, the link     *)
(* counts on the disk are exact, no name leads to a free inode, and an     *)
(* inode without names and references is free, crossed iputs apart.        *)
LinksSound == astray = {} => LinksExact /\ NamesLead /\ Reclaimed

(* The calls get stuck or stop the kernel in the known ways only: no inode *)
(* left, the ".." of a removed directory, an iput under another inode's lock. *)
StopsExcused == PanicsExcused /\ StuckInIput

=============================================================================
