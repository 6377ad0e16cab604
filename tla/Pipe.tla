-------------------------------- MODULE Pipe --------------------------------
(***************************************************************************)
(* The xv6 pipe (pipe.c) with the two open files that lead to it (file.c), *)
(* shared by processes that fork, close, exit and are killed.  A critical  *)
(* section of the pipe's lock is one step: it ends when the lock is given  *)
(* back or the process goes to sleep, and a sleeper starts over when it is *)
(* woken.                                                                  *)
(***************************************************************************)
EXTENDS Integers, Sequences, FiniteSets

CONSTANTS
  Procs,    \* processes
  First,    \* the process that called pipe()
  PIPESIZE, \* bytes of the ring
  WRAP,     \* nread and nwrite count modulo this (2^32)
  Byte,     \* the bytes that are written
  Strings,  \* arguments of write
  Sizes,    \* arguments of read
  MaxKilled \* bound: processes that are killed and not yet replaced

ASSUME PipeAssumption ==
  /\ IsFiniteSet(Procs) /\ First \in Procs
  /\ PIPESIZE \in Nat \ {0} /\ WRAP \in Nat /\ WRAP > PIPESIZE
  /\ WRAP % PIPESIZE = 0
  /\ Byte # {} /\ Strings \subseteq Seq(Byte) \ {<<>>}
  /\ Sizes \subseteq Nat \ {0}

VARIABLES
  data, nread, nwrite, \* struct pipe
  open,    \* its readopen and writeopen: a subset of {"r", "w"}
  freed,   \* has pipeclose given the page back?
  ref,     \* ref of the two open files, by end
  fds,     \* the ends each process has a descriptor for
  call,    \* per process: "none", "read" or "write" in the pipe's code
  todo,    \* per process: bytes that pipewrite has still to write
  chan,    \* per process: "none", or the counter it sleeps on
  killed,
  result,  \* what the last read returned
  quiet    \* has a writer given up with bytes in the pipe and woken nobody since?

pipe == <<data, nread, nwrite, open, freed>>
files == <<ref, fds>>
vars == <<pipe, files, call, todo, chan, killed, result, quiet>>

Ends == {"r", "w"}

(* pipealloc, and the descriptors of sys_pipe. *)
Init ==
  /\ data = [i \in 0 .. PIPESIZE - 1 |-> CHOOSE b \in Byte : TRUE]
  /\ nread = 0 /\ nwrite = 0
  /\ open = Ends
  /\ freed = FALSE
  /\ ref = [e \in Ends |-> 1]
  /\ fds = [p \in Procs |-> IF p = First THEN Ends ELSE {}]
  /\ call = [p \in Procs |-> "none"]
  /\ todo = [p \in Procs |-> <<>>]
  /\ chan = [p \in Procs |-> "none"]
  /\ killed = {}
  /\ result = <<>>
  /\ quiet = FALSE

Used == (nwrite - nread) % WRAP
Room == PIPESIZE - Used
Woken(counter) == [p \in Procs |-> IF chan[p] = counter THEN "none" ELSE chan[p]]

(***************************************************************************)
(* piperead and pipewrite.                                                 *)
(***************************************************************************)
ReadCall(p) ==
  /\ call[p] = "none" /\ "r" \in fds[p] /\ p \notin killed
  /\ call' = [call EXCEPT ![p] = "read"]
  /\ UNCHANGED <<pipe, files, todo, chan, killed, result, quiet>>

ReadSleep(p) ==
  /\ call[p] = "read" /\ chan[p] = "none"
  /\ nread = nwrite /\ "w" \in open
  /\ IF p \in killed
     THEN call' = [call EXCEPT ![p] = "none"] /\ UNCHANGED chan
     ELSE chan' = [chan EXCEPT ![p] = "nread"] /\ UNCHANGED call
  /\ UNCHANGED <<pipe, files, todo, killed, result, quiet>>

\* Slip: an empty pipe with a writer reads as the end of the file.
ReadCopyAtOnce(p, n) ==
  LET k == IF Used < n THEN Used ELSE n IN
  /\ call[p] = "read" /\ chan[p] = "none"
  /\ result' = [i \in 1 .. k |-> data[(nread + i - 1) % PIPESIZE]]
  /\ nread' = (nread + k) % WRAP
  /\ chan' = Woken("nwrite")
  /\ call' = [call EXCEPT ![p] = "none"]
  /\ UNCHANGED <<data, nwrite, open, freed, files, todo, killed, quiet>>

ReadCopy(p, n) ==
  LET k == IF Used < n THEN Used ELSE n IN
  /\ call[p] = "read" /\ chan[p] = "none"
  /\ nread # nwrite \/ "w" \notin open
  /\ result' = [i \in 1 .. k |-> data[(nread + i - 1) % PIPESIZE]]
  /\ nread' = (nread + k) % WRAP
  /\ chan' = Woken("nwrite")
  /\ call' = [call EXCEPT ![p] = "none"]
  /\ UNCHANGED <<data, nwrite, open, freed, files, todo, killed, quiet>>

WriteCall(p, s) ==
  /\ call[p] = "none" /\ "w" \in fds[p] /\ p \notin killed
  /\ call' = [call EXCEPT ![p] = "write"]
  /\ todo' = [todo EXCEPT ![p] = s]
  /\ UNCHANGED <<pipe, files, chan, killed, result, quiet>>

(* The bytes s, as many as there is room for, from nwrite on. *)
Copied(s, k) ==
  /\ data' = [j \in DOMAIN data |->
       IF \E i \in 1 .. k : j = (nwrite + i - 1) % PIPESIZE
       THEN s[CHOOSE i \in 1 .. k : j = (nwrite + i - 1) % PIPESIZE] ELSE data[j]]
  /\ nwrite' = (nwrite + k) % WRAP

WriteAll(p) ==
  /\ call[p] = "write" /\ chan[p] = "none"
  /\ Len(todo[p]) <= Room
  /\ Copied(todo[p], Len(todo[p]))
  /\ todo' = [todo EXCEPT ![p] = <<>>]
  /\ call' = [call EXCEPT ![p] = "none"]
  /\ chan' = Woken("nread")
  /\ quiet' = FALSE
  /\ UNCHANGED <<nread, open, freed, files, killed, result>>

\* Slip: no wakeup before the writer sleeps.
WriteSomeSilently(p) ==
  /\ call[p] = "write" /\ chan[p] = "none"
  /\ Len(todo[p]) > Room
  /\ Copied(todo[p], Room)
  /\ \/ /\ "r" \notin open \/ p \in killed
        /\ call' = [call EXCEPT ![p] = "none"]
        /\ todo' = [todo EXCEPT ![p] = <<>>]
        /\ quiet' = (quiet \/ Room > 0)
        /\ UNCHANGED chan
     \/ /\ "r" \in open /\ p \notin killed
        /\ todo' = [todo EXCEPT ![p] = SubSeq(@, Room + 1, Len(@))]
        /\ chan' = [chan EXCEPT ![p] = "nwrite"]
        /\ quiet' = FALSE
        /\ UNCHANGED call
  /\ UNCHANGED <<nread, open, freed, files, killed, result>>

(* The pipe fills up first.  A writer that gives up then has woken nobody. *)
WriteSome(p) ==
  /\ call[p] = "write" /\ chan[p] = "none"
  /\ Len(todo[p]) > Room
  /\ Copied(todo[p], Room)
  /\ \/ /\ "r" \notin open \/ p \in killed
        /\ call' = [call EXCEPT ![p] = "none"]
        /\ todo' = [todo EXCEPT ![p] = <<>>]
        /\ quiet' = (quiet \/ Room > 0)
        /\ UNCHANGED chan
     \/ /\ "r" \in open /\ p \notin killed
        /\ todo' = [todo EXCEPT ![p] = SubSeq(@, Room + 1, Len(@))]
        /\ chan' = [Woken("nread") EXCEPT ![p] = "nwrite"]
        /\ quiet' = FALSE
        /\ UNCHANGED call
  /\ UNCHANGED <<nread, open, freed, files, killed, result>>

(***************************************************************************)
(* filedup in fork, fileclose with pipeclose, kill and exit.               *)
(***************************************************************************)
Fork(p, c) ==
  /\ call[p] = "none" /\ fds[p] # {} /\ fds[c] = {} /\ call[c] = "none"
  /\ fds' = [fds EXCEPT ![c] = fds[p]]
  /\ ref' = [e \in Ends |-> IF e \in fds[p] THEN ref[e] + 1 ELSE ref[e]]
  /\ killed' = killed \ {c}
  /\ UNCHANGED <<pipe, call, todo, chan, result, quiet>>

\* Slip: the page goes with the first end.
pipecloseEager(e) ==
  /\ open' = open \ {e}
  /\ chan' = Woken(IF e = "w" THEN "nread" ELSE "nwrite")
  /\ freed' = TRUE
  /\ UNCHANGED <<data, nread, nwrite>>

pipeclose(e) ==
  /\ open' = open \ {e}
  /\ chan' = Woken(IF e = "w" THEN "nread" ELSE "nwrite")
  /\ freed' = (open' = {})
  /\ UNCHANGED <<data, nread, nwrite>>

Close(p, e) ==
  /\ call[p] = "none" /\ e \in fds[p]
  /\ fds' = [fds EXCEPT ![p] = @ \ {e}]
  /\ ref' = [ref EXCEPT ![e] = @ - 1]
  /\ IF ref[e] = 1 THEN pipeclose(e) ELSE UNCHANGED <<pipe, chan>>
  /\ UNCHANGED <<call, todo, killed, result, quiet>>

Kill(p) ==
  /\ fds[p] # {} /\ p \notin killed /\ Cardinality(killed) < MaxKilled
  /\ killed' = killed \cup {p}
  /\ chan' = [chan EXCEPT ![p] = "none"]
  /\ UNCHANGED <<pipe, files, call, todo, result, quiet>>

Next ==
  \E p \in Procs :
    \/ ReadCall(p) \/ ReadSleep(p) \/ WriteAll(p) \/ WriteSome(p) \/ Kill(p)
    \/ \E n \in Sizes : ReadCopy(p, n)
    \/ \E s \in Strings : WriteCall(p, s)
    \/ \E c \in Procs : Fork(p, c)
    \/ \E e \in Ends : Close(p, e)

Spec == Init /\ [][Next]_vars

-----------------------------------------------------------------------------
TypeOK ==
  /\ data \in [0 .. PIPESIZE - 1 -> Byte]
  /\ nread \in 0 .. WRAP - 1 /\ nwrite \in 0 .. WRAP - 1
  /\ Used <= PIPESIZE
  /\ open \subseteq Ends /\ freed \in BOOLEAN
  /\ \A e \in Ends : ref[e] = Cardinality({p \in Procs : e \in fds[p]})
  /\ \A p \in Procs : call[p] = "none" => chan[p] = "none" /\ todo[p] = <<>>

(* No process is in the code of a pipe whose page was given back.  *)
NoUseAfterFree ==
  freed => \A p \in Procs : call[p] = "none" /\ fds[p] = {}

(* Whoever sleeps has something to wait for: a reader an empty pipe with a *)
(* writer, a writer a full pipe with a reader, and nobody after a kill.    *)
(* The exception is the code's own: pipewrite's error return wakes nobody. *)
SleepersWait ==
  \A p \in Procs :
    /\ chan[p] = "nread" => (nread = nwrite \/ quiet) /\ "w" \in open
    /\ chan[p] = "nwrite" => Room = 0 /\ "r" \in open
    /\ chan[p] # "none" => p \notin killed

(* The ring with its wrapping counters is a queue of bytes. *)
Contents == [i \in 1 .. Used |-> data[(nread + i - 1) % PIPESIZE]]
Bytes == INSTANCE Channel WITH
  Capacity <- PIPESIZE, queue <- Contents, ends <- open, got <- result
ImplementsChannel == Bytes!Spec

(* The references of the two files are the descriptors that share them, and *)
(* the page goes with the last one, when nobody is left in the pipe's code. *)
EndsSound == TypeOK /\ NoUseAfterFree

=============================================================================
