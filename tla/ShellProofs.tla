---------------------------- MODULE ShellProofs ----------------------------
(* Proofs about Shell for any number of processes, commands in a line and   *)
(* jobs: its tables agree, no wait is in vain, and at a prompt the terminal *)
(* is the shell's and every child within the user's reach.                  *)
EXTENDS Shell, FiniteSetTheorems, SequenceTheorems, WellFoundedInduction, TLAPS

LineStates == {"fork", "setpgid", "forked", "wait"}

Job == [pid : {0} \cup Pids, group : BOOLEAN, jobID : {0} \cup IDs, isValid : BOOLEAN,
        isBackground : BOOLEAN, isStopped : BOOLEAN]

Line == [processIDs : Seq(Pids), left : Nat, waited : Nat, background : BOOLEAN, isStopped : BOOLEAN]

(* The jobs the shell may wait for: those in the background, and the one   *)
(* that fg has taken out of it.                                            *)
Tracked == Background \cup IF pc \in {"fg", "fgwait"} THEN {current.index} ELSE {}

-----------------------------------------------------------------------------
(* The inductive invariant.                                                *)
Types ==
  /\ TypeOK
  /\ role \in [Pids -> {"fg", "bg", "other"}]
  /\ stopped \in [Pids -> BOOLEAN]
  /\ news \in [Pids -> BOOLEAN]
  /\ pending \in [Pids -> BOOLEAN]
  /\ line \in Line
  /\ Jobs \in Seq(Job)
  /\ strayed \subseteq Pids

(* waitpid leaves nothing of a process, and a signal waits in programs only. *)
Vacant ==
  \A p \in Pids :
    /\ st[p] = "none" => grp[p] = shellProcessGroup /\ ~news[p]
    /\ pending[p] => stopped[p] /\ st[p] = "run"

(* The first process of a line is in its own group once it has called      *)
(* setpgid, and before in the shell's or, by its parent, in its own.       *)
Leaders ==
  \A p \in Pids : role[p] # "other" /\ st[p] # "none" =>
    grp[p] = p \/ (st[p] = "start" /\ grp[p] = shellProcessGroup)

(* The job in the foreground has its ID to get back, which is not in use.  *)
FgKnown ==
  pc \in {"fg", "fgwait"} =>
    /\ current.id \in IDs /\ jobIDs[current.id] = 0
    /\ current.index \in DOMAIN Jobs
    /\ Jobs[current.index].isValid /\ ~Jobs[current.index].isBackground
    /\ Jobs[current.index].jobID = current.id

(* Two jobs never speak of the same process or group. *)
JobsApart ==
  /\ \A i \in Tracked : Jobs[i].pid \in Pids /\ Jobs[i].jobID \in IDs
  /\ \A i, k \in Tracked : Jobs[i].pid = Jobs[k].pid => i = k

(* The process of a single command has not been waited for. *)
SinglesPresent ==
  \A i \in Tracked : ~Jobs[i].group =>
    st[Jobs[i].pid] # "none" /\ role[Jobs[i].pid] # "other"

(* Only between a command and the next prompt may a group be empty, so     *)
(* that its number is not given to a new process.                          *)
GroupsPresent ==
  pc # "update" => \A i \in Background : Jobs[i].group => Group(Jobs[i].pid) # {}

(* How far a line has come, and that its job will find an entry. *)
LineShape ==
  pc \in LineStates =>
    /\ Len(Jobs) < MaxJobs
    /\ line.waited <= Len(line.processIDs)
    /\ pc # "wait" => line.waited = 0
    /\ line.waited = 0 => ~line.isStopped
    /\ pc = "fork" => line.left > 0
    /\ pc = "setpgid" => line.processIDs # <<>> /\ line.left + Len(line.processIDs) > 1
    /\ pc \in {"forked", "wait"} => line.processIDs # <<>> /\ line.left = 0
    /\ pc = "wait" => ~line.background

Pipeline == line.left + Len(line.processIDs) > 1

(* The processes of a line belong to no job yet; those waited for are gone *)
(* unless one has stopped; and each but the one just forked is in the      *)
(* group of the first, or setpgid came too late for it.                    *)
LineProcs ==
  LET pids == line.processIDs IN
  pc \in LineStates =>
    /\ \A k, n \in DOMAIN pids : pids[k] = pids[n] => k = n
    /\ \A k \in DOMAIN pids :
         /\ \A i \in Background : Jobs[i].pid # pids[k]
         /\ grp[pids[k]] \in {shellProcessGroup, pids[1]}
         /\ role[pids[k]] = "other" <=> k # 1
         /\ k > line.waited => st[pids[k]] # "none"
         /\ k <= line.waited /\ ~line.isStopped => st[pids[k]] = "none"
         /\ Len(pids) = 1 /\ line.isStopped => st[pids[k]] # "none"
         /\ Pipeline /\ ~(pc = "setpgid" /\ k = Len(pids)) =>
              grp[pids[k]] = pids[1] \/ pids[k] \in strayed \/ st[pids[k]] = "none"

(* Only the first process of the line at work may still take the terminal. *)
FgStarted ==
  \A p \in Pids : role[p] = "fg" /\ st[p] \in {"start", "grouped"} =>
    /\ pc \in LineStates /\ ~line.background
    /\ line.processIDs # <<>> /\ p = line.processIDs[1] /\ line.waited = 0
    /\ ~news[p]

Terminal ==
  /\ pc \in {"update", "prompt"} => tty = shellProcessGroup
  /\ pc \in LineStates /\ line.background => tty = shellProcessGroup

(* Every child is in a job or in the line, or setpgid came too late. *)
InLine(p) == pc \in LineStates /\ \E k \in DOMAIN line.processIDs : line.processIDs[k] = p
InJob(p) == \E i \in Tracked : p \in Members(Jobs[i])
Accounted == \A p \in Pids : st[p] # "none" => p \in strayed \/ InJob(p) \/ InLine(p)

SInv ==
  /\ Types /\ Vacant /\ Leaders /\ TablesAgree /\ FgKnown /\ JobsApart /\ SinglesPresent
  /\ GroupsPresent /\ LineShape /\ LineProcs /\ FgStarted /\ Terminal /\ Accounted
  /\ NeverWaitsInVain

-----------------------------------------------------------------------------
(* What jobs and groups are when nobody comes, goes or moves to a group.   *)
Present == {p \in Pids : st[p] # "none"}

LEMMA SameMembers ==
  ASSUME Present' = Present, grp' = grp
  PROVE  /\ \A g \in Pids \cup {0} : Group(g)' = Group(g)
         /\ \A j \in Job : Members(j)' = Members(j)
<1>1. \A p \in Pids : st'[p] # "none" <=> st[p] # "none"
  BY DEF Present
<1>2. \A g \in Pids \cup {0} : Group(g)' = Group(g)
  BY <1>1 DEF Group
<1>3. ASSUME NEW j \in Job PROVE Members(j)' = Members(j)
  <2>1. j.pid \in Pids \cup {0}
    BY DEF Job
  <2>2. QED
    BY <1>1, <1>2, <2>1 DEF Members
<1>4. QED
  BY <1>2, <1>3

LEMMA JobsInBounds ==
  ASSUME Types
  PROVE  \A i \in DOMAIN Jobs : Jobs[i] \in Job /\ Jobs[i].pid \in Pids \cup {0}
<1>1. \A i \in DOMAIN Jobs : Jobs[i] \in Job
  BY DEF Types
<1>2. \A j \in Job : j.pid \in Pids \cup {0}
  BY DEF Job
<1>3. QED
  BY <1>1, <1>2

(* A child does something that takes no process away and adds none. *)
Calm ==
  /\ Present' = Present /\ grp' = grp
  /\ UNCHANGED <<role, pc, line, table, current, strayed>>

LEMMA CalmKeeps ==
  ASSUME SInv, Calm
  PROVE  /\ TablesAgree' /\ FgKnown' /\ JobsApart' /\ SinglesPresent' /\ GroupsPresent'
         /\ LineShape' /\ LineProcs' /\ Accounted' /\ NeverWaitsInVain'
<1> USE DEF SInv, Calm, table
<1>1. \A p \in Pids : st'[p] # "none" <=> st[p] # "none"
  BY DEF Present
<1>2. Background' = Background /\ Tracked' = Tracked
  BY DEF Background, Tracked
<1>3. TablesAgree' /\ FgKnown' /\ NeverWaitsInVain' /\ LineShape'
  BY <1>2 DEF TablesAgree, FgKnown, NeverWaitsInVain, LineShape
<1>4. JobsApart' /\ SinglesPresent'
  BY <1>1, <1>2 DEF JobsApart, SinglesPresent
<1>5. GroupsPresent'
  BY <1>2, JobsInBounds, SameMembers DEF GroupsPresent, Background
<1>6. LineProcs'
  <2>1. \A k \in DOMAIN line.processIDs : line.processIDs[k] \in Pids
    BY DEF Types, Line
  <2>2. QED
    BY <1>1, <1>2, <2>1 DEF LineProcs, Pipeline
<1>7. \A i \in Tracked : Jobs[i] \in Job
  BY JobsInBounds DEF Tracked, Background, FgKnown
<1>8. Accounted'
  BY <1>1, <1>2, <1>7, SameMembers DEF Accounted, InJob, InLine
<1>9. QED
  BY <1>3, <1>4, <1>5, <1>6, <1>8

(* What a stop or a kill does not touch. *)
LEMMA CalmStarts ==
  ASSUME SInv, Calm, tty' = tty \/ tty' = shellProcessGroup,
         \A p \in Pids : st'[p] \in {"start", "grouped"} => st[p] = st'[p],
         \A p \in Pids : role[p] = "fg" /\ st'[p] \in {"start", "grouped"} => news'[p] = news[p]
  PROVE  FgStarted' /\ Terminal' 
<1>1. FgStarted'
  BY DEF SInv, Calm, FgStarted
<1>2. Terminal'
  BY DEF SInv, Calm, Terminal
<1>3. QED
  BY <1>1, <1>2

LEMMA FinishKeeps ==
  ASSUME SInv, NEW p \in Pids, Finish(p)
  PROVE  SInv'
<1> USE DEF SInv, Finish, Become
<1>1. st \in [Pids -> {"none", "start", "grouped", "owner", "run", "zombie", "killed"}]
  BY DEF Types, TypeOK
<1>2. Calm
  BY <1>1 DEF Calm, Present, history
<1>3. Types'
  BY <1>1 DEF Types, TypeOK, Alive, Ended, table, history, Vacant
<1>4. Vacant' /\ Leaders'
  BY <1>1 DEF Vacant, Leaders
<1>5. FgStarted' /\ Terminal'
  BY <1>1, <1>2, CalmStarts
<1>6. QED
  BY <1>2, <1>3, <1>4, <1>5, CalmKeeps

LEMMA ExecvpKeeps ==
  ASSUME SInv, NEW p \in Pids, Execvp(p)
  PROVE  SInv'
<1> USE DEF SInv, Execvp, Become
<1>1. st \in [Pids -> {"none", "start", "grouped", "owner", "run", "zombie", "killed"}]
  BY DEF Types, TypeOK
<1>2. /\ st[p] = CASE role[p] = "fg" -> "owner" [] role[p] = "bg" -> "grouped" [] OTHER -> "start"
      /\ st[p] \in {"start", "grouped", "owner"}
      /\ st' = [st EXCEPT ![p] = "run"]
  BY DEF Types
<1>3. Calm
  BY <1>1, <1>2 DEF Calm, Present, history
<1>4. Types'
  BY <1>1, <1>2 DEF Types, TypeOK, Alive, Ended, table, history
<1>5. Vacant' /\ Leaders'
  BY <1>1, <1>2 DEF Vacant, Leaders, Types
<1>6. FgStarted' /\ Terminal'
  BY <1>1, <1>2, <1>3, CalmStarts
<1>7. QED
  BY <1>3, <1>4, <1>5, <1>6, CalmKeeps

LEMMA TcsetpgrpKeeps ==
  ASSUME SInv, NEW p \in Pids, Tcsetpgrp(p)
  PROVE  SInv'
<1> USE DEF SInv, Tcsetpgrp, Become
<1>1. st \in [Pids -> {"none", "start", "grouped", "owner", "run", "zombie", "killed"}]
  BY DEF Types, TypeOK
<1>2. Calm
  BY <1>1 DEF Calm, Present, history
<1>3. Types'
  BY <1>1 DEF Types, TypeOK, Alive, Ended, table, history
<1>4. Vacant' /\ Leaders'
  BY <1>1 DEF Vacant, Leaders
<1>5. pc \in LineStates /\ ~line.background
  BY DEF FgStarted
<1>6. FgStarted' /\ Terminal'
  BY <1>1, <1>5 DEF FgStarted, Terminal, LineStates
<1>7. QED
  BY <1>2, <1>3, <1>4, <1>6, CalmKeeps

(* setpgid, in the first process of a line: nobody else's group changes.   *)
LEMMA SetpgidKeeps ==
  ASSUME SInv, NEW p \in Pids, Setpgid(p)
  PROVE  SInv'
<1> USE DEF SInv, Setpgid, Become
<1>1. /\ st \in [Pids -> {"none", "start", "grouped", "owner", "run", "zombie", "killed"}]
      /\ grp \in [Pids -> {0} \cup Pids]
      /\ st[p] = "start" /\ role[p] # "other"
      /\ st' = [st EXCEPT ![p] = "grouped"] /\ grp' = [grp EXCEPT ![p] = p]
      /\ UNCHANGED <<role, stopped, news, pending, pc, line, Jobs, jobIDs, current, strayed>>
  BY DEF Types, TypeOK, shellProcessGroup, table, history
<1>2. grp[p] \in {0, p} /\ p # 0
  BY <1>1 DEF Leaders, shellProcessGroup, Pids
<1>3. \A q \in Pids : st'[q] # "none" <=> st[q] # "none"
  BY <1>1
<1>4. Background' = Background /\ Tracked' = Tracked
  BY <1>1 DEF Background, Tracked
<1>5. ASSUME NEW i \in Tracked
      PROVE  /\ Jobs[i].group /\ Jobs[i].pid \in Pids => Group(Jobs[i].pid) \subseteq Group(Jobs[i].pid)'
             /\ Members(Jobs[i]) \subseteq Members(Jobs[i])'
  <2>1. Jobs[i].pid \in Pids /\ Jobs[i].pid # 0 /\ Jobs' = Jobs
    BY <1>1 DEF JobsApart, Pids
  <2>2. \A q \in Pids : grp[q] = Jobs[i].pid => grp'[q] = Jobs[i].pid
    BY <1>1, <1>2, <2>1
  <2>3. Group(Jobs[i].pid) \subseteq Group(Jobs[i].pid)'
    BY <1>3, <2>1, <2>2 DEF Group
  <2>4. QED
    BY <1>3, <2>1, <2>3 DEF Members
<1>6. Types'
  BY <1>1 DEF Types, TypeOK, Alive, Ended, table, history, shellProcessGroup
<1>7. Vacant' /\ Leaders'
  BY <1>1 DEF Vacant, Leaders
<1>8. TablesAgree' /\ FgKnown' /\ NeverWaitsInVain' /\ LineShape'
  BY <1>1, <1>4 DEF TablesAgree, FgKnown, NeverWaitsInVain, LineShape
<1>9. JobsApart' /\ SinglesPresent'
  BY <1>1, <1>3, <1>4 DEF JobsApart, SinglesPresent
<1>10. GroupsPresent'
  BY <1>1, <1>4, <1>5 DEF GroupsPresent, JobsApart, Tracked
<1>11. LineProcs'
  <2>1. \A k \in DOMAIN line.processIDs : line.processIDs[k] \in Pids
    BY DEF Types, Line
  <2>2. QED
    BY <1>1, <1>2, <1>3, <1>4, <2>1 DEF LineProcs, Pipeline, shellProcessGroup
<1>12. FgStarted' /\ Terminal'
  BY <1>1 DEF FgStarted, Terminal
<1>13. Accounted'
  BY <1>1, <1>3, <1>4, <1>5 DEF Accounted, InJob, InLine
<1>14. QED
  BY <1>6, <1>7, <1>8, <1>9, <1>10, <1>11, <1>12, <1>13

LEMMA CtrlCKeeps ==
  ASSUME SInv, CtrlC
  PROVE  SInv'
<1> USE DEF SInv, CtrlC, TerminalSignal
<1>1. st \in [Pids -> {"none", "start", "grouped", "owner", "run", "zombie", "killed"}]
  BY DEF Types, TypeOK
<1>2. Struck \subseteq {p \in Pids : st[p] = "run"}
  BY DEF Struck, InExec, Group
<1>3. Calm
  BY <1>1, <1>2 DEF Calm, Present
<1>4. Types'
  <2>1. st' \in [Pids -> {"none", "start", "grouped", "owner", "run", "zombie", "killed"}]
        /\ pending' \in [Pids -> BOOLEAN]
        /\ feeder' \in [Pids -> {0} \cup Pids]
    BY <1>1, <1>2 DEF Types, TypeOK
  <2>2. \A p \in Pids : ~Alive(p)' => ~stopped'[p] /\ ~pending'[p]
    BY <1>1, <1>2, <2>1 DEF Types, TypeOK, Alive, Ended, Vacant
  <2>3. QED
    BY <2>1, <2>2 DEF Types, TypeOK, table
<1>5. Vacant' /\ Leaders'
  BY <1>1, <1>2 DEF Vacant, Leaders, Types
<1>6. FgStarted' /\ Terminal'
  BY <1>1, <1>2, <1>3, CalmStarts
<1>7. QED
  BY <1>3, <1>4, <1>5, <1>6, CalmKeeps

(* Who a stop reaches: programs, and by Sigttin the group of one of them,  *)
(* in which no process is left that could still take the terminal.         *)
LEMMA StopKeeps ==
  ASSUME SInv, NEW S \in SUBSET Pids, Stop(S), \A p \in S : Alive(p),
         \A p \in S : st[p] = "run" \/ role[p] # "fg",
         grp' = grp, UNCHANGED <<role, pc, line, table, current, strayed>>,
         tty' \in {tty, shellProcessGroup}
  PROVE  SInv'
<1> USE DEF SInv, Stop
<1>1. Calm
  BY DEF Calm, Present
<1>2. Types'
  BY DEF Types, TypeOK, Alive, Ended, table
<1>3. Vacant' /\ Leaders'
  BY DEF Vacant, Leaders, Alive, Types
<1>4. FgStarted' /\ Terminal'
  BY <1>1, CalmStarts DEF Types
<1>5. QED
  BY <1>1, <1>2, <1>3, <1>4, CalmKeeps

LEMMA CtrlZKeeps ==
  ASSUME SInv, CtrlZ
  PROVE  SInv'
<1>1. Struck \subseteq {p \in Pids : st[p] = "run"}
  BY DEF Struck, InExec, Group
<1>2. \A p \in Struck : Alive(p)
  BY <1>1 DEF Alive, Ended
<1>3. QED
  BY <1>1, <1>2, StopKeeps DEF CtrlZ, TerminalSignal

LEMMA SigttinKeeps ==
  ASSUME SInv, NEW p \in Pids, Sigttin(p)
  PROVE  SInv'
<1>1. grp[p] = p /\ p # 0
  BY DEF SInv, Leaders, Sigttin, InExec, Pids
<1>2. ASSUME NEW q \in Group(p), role[q] = "fg" PROVE q = p
  BY <1>1, <1>2 DEF SInv, Leaders, Group, shellProcessGroup
<1>3. QED
  BY <1>1, <1>2, StopKeeps DEF Sigttin, Group, Alive, InExec, history

-----------------------------------------------------------------------------
(* The shell between two commands. *)
LEMMA IdleKeeps ==
  ASSUME SInv, pc = "prompt", pc' \in {"update", "exited"},
         UNCHANGED <<children, tty, line, table, current, history>>
  PROVE  SInv'
<1> USE DEF SInv, children, table, history
<1>1. Background' = Background /\ Tracked' = Tracked
  BY DEF Background, Tracked
<1>2. /\ \A g \in Pids \cup {0} : Group(g)' = Group(g)
      /\ \A j \in Job : Members(j)' = Members(j)
  BY SameMembers DEF Present
<1>3. Types' /\ Vacant' /\ Leaders'
  BY DEF Types, TypeOK, Vacant, Leaders, Alive, Ended
<1>4. TablesAgree' /\ FgKnown' /\ LineShape' /\ LineProcs' /\ NeverWaitsInVain'
  BY <1>1 DEF TablesAgree, FgKnown, LineShape, LineProcs, LineStates, NeverWaitsInVain
<1>5. JobsApart' /\ SinglesPresent'
  BY <1>1 DEF JobsApart, SinglesPresent
<1>6. GroupsPresent'
  BY <1>1, <1>2, JobsInBounds DEF GroupsPresent, Background
<1>7. FgStarted' /\ Terminal'
  BY DEF FgStarted, Terminal, LineStates
<1>8. \A i \in Tracked : Jobs[i] \in Job
  BY JobsInBounds DEF Tracked, Background, FgKnown
<1>9. Accounted'
  BY <1>1, <1>2, <1>8 DEF Accounted, InJob, InLine, LineStates
<1>10. QED
  BY <1>3, <1>4, <1>5, <1>6, <1>7, <1>9

LEMMA StartedLine ==
  ASSUME NEW n \in Nat, NEW b \in BOOLEAN, NEW l,
         l = [processIDs |-> <<>>, left |-> n, waited |-> 0, background |-> b, isStopped |-> FALSE]
  PROVE  /\ l \in Line /\ l.processIDs = <<>> /\ l.left = n /\ l.waited = 0
         /\ ~l.isStopped /\ l.background = b
BY DEF Line

LEMMA StartLineKeeps ==
  ASSUME SInv, NEW n \in Lengths, NEW background \in BOOLEAN, StartLine(n, background)
  PROVE  SInv'
<1> USE DEF SInv, children, table, history
<1>a. /\ pc = "prompt" /\ pc' = "fork" /\ Len(Jobs) < MaxJobs
      /\ UNCHANGED <<children, tty, table, current, history>>
  BY DEF StartLine
<1>1. Background' = Background /\ Tracked' = Tracked
  BY <1>a DEF Background, Tracked
<1>2. /\ \A g \in Pids \cup {0} : Group(g)' = Group(g)
      /\ \A j \in Job : Members(j)' = Members(j)
  BY <1>a, SameMembers DEF Present
<1>3. /\ n \in Nat \ {0}
      /\ line' = [processIDs |-> <<>>, left |-> n, waited |-> 0, background |-> background,
                  isStopped |-> FALSE]
  <2>1. n \in Nat \ {0}
    BY ShellAssumption DEF ShellAssumption
  <2>2. QED
    BY <2>1 DEF NoLine, StartLine
<1>4. line' \in Line
  BY <1>3, StartedLine
<1>5. Types' /\ Vacant' /\ Leaders'
  BY <1>a, <1>4 DEF Types, TypeOK, Vacant, Leaders, Alive, Ended
<1>6. TablesAgree' /\ FgKnown' /\ NeverWaitsInVain'
  BY <1>a, <1>1 DEF TablesAgree, FgKnown, NeverWaitsInVain
<1>7. LineShape' /\ LineProcs'
  <2>1. line'.processIDs = <<>> /\ line'.left = n /\ line'.waited = 0 /\ ~line'.isStopped
    BY <1>3
  <2>2. Len(line'.processIDs) = 0 /\ DOMAIN line'.processIDs = {}
    BY <2>1
  <2>3. pc' = "fork" /\ Len(Jobs') < MaxJobs
    BY <1>a
  <2>4. QED
    BY <1>3, <2>1, <2>2, <2>3 DEF LineShape, LineProcs
<1>8. JobsApart' /\ SinglesPresent'
  BY <1>a, <1>1 DEF JobsApart, SinglesPresent
<1>9. GroupsPresent'
  BY <1>a, <1>1, <1>2, JobsInBounds DEF GroupsPresent, Background
<1>10. FgStarted' /\ Terminal'
  BY <1>a, <1>3 DEF FgStarted, Terminal, LineStates
<1>11. \A i \in Tracked : Jobs[i] \in Job
  BY <1>a, JobsInBounds DEF Tracked, Background, FgKnown
<1>12. Accounted'
  BY <1>a, <1>1, <1>2, <1>11 DEF Accounted, InJob, InLine, LineStates
<1>13. QED
  BY <1>5, <1>6, <1>7, <1>8, <1>9, <1>10, <1>12

LEMMA ForkLine ==
  ASSUME line \in Line, line.left > 0, NEW p \in Pids, Fork(p)
  PROVE  /\ line' \in Line
         /\ line'.processIDs = Append(line.processIDs, p) /\ line'.left = line.left - 1
         /\ line'.waited = line.waited /\ line'.isStopped = line.isStopped
         /\ line'.background = line.background
<1> DEFINE s == Append(line.processIDs, p)
           n == line.left - 1
<1>1. line' = [line EXCEPT !.processIDs = s, !.left = n]
  BY DEF Fork
<1>2. s \in Seq(Pids) /\ n \in Nat
  BY DEF Line
<1> HIDE DEF s, n
<1>3. /\ line' \in Line /\ line'.processIDs = s /\ line'.left = n
      /\ line'.waited = line.waited /\ line'.isStopped = line.isStopped
      /\ line'.background = line.background
  BY <1>1, <1>2 DEF Line
<1>4. QED
  BY <1>3 DEF s, n

(* fork: the number is that of no job, and the new process is the last of  *)
(* the line.                                                               *)
LEMMA ForkKeeps ==
  ASSUME SInv, NEW p \in Pids, Fork(p)
  PROVE  SInv'
<1> USE DEF SInv
<1>a. line.processIDs \in Seq(Pids) /\ line.left \in Nat /\ line \in Line
  BY DEF Types, Line
<1> DEFINE pids == line.processIDs
<1>1. /\ pc = "fork" /\ line.left > 0 /\ line.waited = 0 /\ ~line.isStopped
      /\ Len(pids) \in Nat /\ DOMAIN pids = 1 .. Len(pids)
      /\ st[p] = "none" /\ Group(p) = {} /\ grp[p] = shellProcessGroup /\ ~news[p]
      /\ st' = [st EXCEPT ![p] = "start"]
      /\ UNCHANGED <<grp, stopped, news, pending, tty, Jobs, jobIDs, current, strayed>>
  BY <1>a DEF Fork, Free, LineShape, LineStates, Vacant, table, history
<1>2. /\ line'.processIDs = Append(pids, p) /\ line'.left = line.left - 1
      /\ line'.waited = 0 /\ ~line'.isStopped /\ line'.background = line.background
      /\ line' \in Line
  BY <1>a, <1>1, ForkLine
<1>3. /\ Len(line'.processIDs) = Len(pids) + 1
      /\ DOMAIN line'.processIDs = 1 .. Len(pids) + 1
      /\ \A k \in 1 .. Len(pids) : line'.processIDs[k] = pids[k]
      /\ line'.processIDs[Len(pids) + 1] = p
  BY <1>a, <1>1, <1>2
<1>4. /\ pids = <<>> <=> Len(pids) = 0
      /\ role' = [role EXCEPT ![p] = IF pids # <<>> THEN "other" ELSE IF line.background THEN "bg" ELSE "fg"]
      /\ pc' = IF line.left = 1 /\ pids = <<>> THEN "forked" ELSE "setpgid"
  BY <1>a DEF Fork
<1>5. Background' = Background /\ Tracked' = Tracked /\ Tracked = Background
  BY <1>1, <1>4 DEF Background, Tracked
<1>6. \A i \in Background : Jobs[i].pid \in Pids /\ Jobs[i].pid # p
  BY <1>1, <1>5 DEF JobsApart, SinglesPresent, GroupsPresent
<1>7. \A i \in Background : Group(Jobs[i].pid)' = Group(Jobs[i].pid)
  BY <1>1, <1>6 DEF Group, shellProcessGroup, Pids, Types, TypeOK
<1>8. Types'
  BY <1>1, <1>2, <1>4, <1>a DEF Types, TypeOK, Fork, Alive, Ended, children, table, history
<1>9. Vacant' /\ Leaders'
  BY <1>1, <1>4 DEF Vacant, Leaders, Types, TypeOK
<1>10. TablesAgree' /\ FgKnown' /\ NeverWaitsInVain'
  BY <1>1, <1>4, <1>5 DEF TablesAgree, FgKnown, NeverWaitsInVain
<1>11. JobsApart' /\ SinglesPresent'
  BY <1>1, <1>4, <1>5, <1>6 DEF JobsApart, SinglesPresent, Types, TypeOK
<1>12. GroupsPresent'
  BY <1>1, <1>5, <1>7 DEF GroupsPresent
<1>13. LineShape'
  BY <1>1, <1>2, <1>3, <1>4, <1>a DEF LineShape, LineStates
<1>14. LineProcs'
  <2> SUFFICES /\ \A k, n \in 1 .. Len(pids) + 1 : line'.processIDs[k] = line'.processIDs[n] => k = n
               /\ \A k \in 1 .. Len(pids) + 1 : LET q == line'.processIDs[k] IN
                    /\ \A i \in Background : Jobs[i].pid # q
                    /\ grp[q] \in {shellProcessGroup, line'.processIDs[1]}
                    /\ role'[q] = "other" <=> k # 1
                    /\ st'[q] # "none"
                    /\ k # Len(pids) + 1 => grp[q] = line'.processIDs[1] \/ q \in strayed
    BY <1>1, <1>2, <1>3, <1>4, <1>5, <1>a DEF LineProcs, Pipeline
  <2>1. \A k \in 1 .. Len(pids) :
          /\ pids[k] \in Pids /\ pids[k] # p /\ st[pids[k]] # "none"
          /\ \A i \in Background : Jobs[i].pid # pids[k]
          /\ grp[pids[k]] \in {shellProcessGroup, pids[1]}
          /\ role[pids[k]] = "other" <=> k # 1
          /\ grp[pids[k]] = pids[1] \/ pids[k] \in strayed
    BY <1>1, <1>a DEF LineProcs, Pipeline, LineStates
  <2>2. \A k, n \in 1 .. Len(pids) : pids[k] = pids[n] => k = n
    BY <1>1 DEF LineProcs, LineStates
  <2>3. \A k \in 1 .. Len(pids) : 1 \in 1 .. Len(pids)
    BY <1>1
  <2>4. \A k \in 1 .. Len(pids) + 1 :
          \/ k \in 1 .. Len(pids) /\ line'.processIDs[k] = pids[k]
             /\ line'.processIDs[1] = pids[1] /\ k # Len(pids) + 1
          \/ k = Len(pids) + 1 /\ line'.processIDs[k] = p /\ (k = 1 <=> pids = <<>>)
    BY <1>1, <1>3, <1>4, <2>3
  <2>5. \A k, n \in 1 .. Len(pids) + 1 : line'.processIDs[k] = line'.processIDs[n] => k = n
    BY <2>1, <2>2, <2>4
  <2>6. role'[p] = "other" <=> pids # <<>>
    BY <1>4 DEF Types
  <2>7. st'[p] # "none" /\ \A q \in Pids \ {p} : st'[q] = st[q] /\ role'[q] = role[q]
    BY <1>1, <1>4 DEF Types, TypeOK
  <2>8. QED
    BY <1>1, <1>6, <2>1, <2>4, <2>5, <2>6, <2>7
<1>15. FgStarted' /\ Terminal'
  <2>1. pc' \in LineStates /\ pc \in LineStates
    BY <1>1, <1>4 DEF LineStates
  <2>2. Terminal'
    BY <1>1, <1>2, <2>1 DEF Terminal, LineStates
  <2>3. line'.processIDs # <<>> /\ (pids = <<>> => line'.processIDs[1] = p)
        /\ (pids # <<>> => line'.processIDs[1] = pids[1])
    BY <1>1, <1>3, <1>4
  <2>4. ASSUME NEW q \in Pids, role'[q] = "fg", st'[q] \in {"start", "grouped"}
        PROVE  ~line'.background /\ q = line'.processIDs[1] /\ ~news'[q]
    <3>1. CASE q = p
      BY <1>1, <1>2, <1>4, <2>3, <2>4, <3>1 DEF Types, Line
    <3>2. CASE q # p
      BY <1>1, <1>2, <1>4, <2>3, <2>4, <3>2 DEF Types, TypeOK, FgStarted
    <3>3. QED
      BY <3>1, <3>2
  <2>5. QED
    BY <1>2, <2>1, <2>2, <2>3, <2>4 DEF FgStarted
<1>16. Accounted'
  <2>1. \A i \in Background : Members(Jobs[i]) \subseteq Members(Jobs[i])'
    BY <1>1, <1>7 DEF Members, Types, TypeOK
  <2>2. pc' \in LineStates /\ pc \in LineStates
    BY <1>1, <1>4 DEF LineStates
  <2>3. InLine(p)'
    BY <1>1, <1>3, <2>2 DEF InLine
  <2>4. \A q \in Pids : InLine(q) => InLine(q)'
    BY <1>1, <1>3, <2>2 DEF InLine
  <2>5. \A q \in Pids : InJob(q) => InJob(q)'
    BY <1>1, <1>5, <2>1 DEF InJob
  <2>6. QED
    BY <1>1, <2>3, <2>4, <2>5 DEF Accounted, Types, TypeOK
<1>17. QED
  BY <1>8, <1>9, <1>10, <1>11, <1>12, <1>13, <1>14, <1>15, <1>16

(* setpgid of the parent moves the last process to the group of the first, *)
(* or notes that it has gone astray.                                       *)
LEMMA ParentSetpgidKeeps ==
  ASSUME SInv, ParentSetpgid
  PROVE  SInv'
<1> USE DEF SInv
<1> DEFINE pids == line.processIDs
           p == pids[Len(pids)]
<1>1. /\ pc = "setpgid" /\ pids \in Seq(Pids) /\ pids # <<>> /\ Len(pids) \in Nat /\ Len(pids) > 0
      /\ DOMAIN pids = 1 .. Len(pids) /\ line.left \in Nat /\ Pipeline
      /\ \A k \in 1 .. Len(pids) : pids[k] \in Pids
      /\ line.waited = 0 /\ ~line.isStopped
  BY DEF ParentSetpgid, Types, Line, LineShape, LineStates, Pipeline
<1>2. /\ p \in Pids /\ p # 0 /\ pids[1] \in Pids /\ pids[1] # 0 /\ st[p] # "none"
      /\ grp[p] \in {0, pids[1]}
      /\ role[p] = "other" <=> p # pids[1]
      /\ \A i \in Background : Jobs[i].pid # pids[1]
  BY <1>1 DEF LineProcs, LineStates, Pids, shellProcessGroup
<1>3. /\ UNCHANGED <<st, role, stopped, news, pending, feeder, tty, line, Jobs, jobIDs, current, early>>
      /\ pc' = IF line.left = 0 THEN "forked" ELSE "fork"
      /\ grp' = [grp EXCEPT ![p] = pids[1]] \/ grp' = grp
      /\ strayed \subseteq strayed' /\ strayed' \subseteq strayed \cup {p}
      /\ grp'[p] = pids[1] \/ p \in strayed'
  BY <1>1, <1>2 DEF ParentSetpgid, table, Types, TypeOK
<1>4. grp \in [Pids -> {0} \cup Pids] /\ \A q \in Pids : q # p => grp'[q] = grp[q]
  BY <1>2, <1>3 DEF Types, TypeOK, shellProcessGroup
<1>5. grp'[p] \in {0, pids[1]} /\ (grp[p] = pids[1] => grp'[p] = pids[1])
  BY <1>2, <1>3, <1>4
<1>6. Background' = Background /\ Tracked' = Tracked /\ Tracked = Background
  BY <1>1, <1>3 DEF Background, Tracked
<1>7. \A i \in Background : Jobs[i].pid \in Pids /\ Jobs[i].pid # 0 /\ Jobs[i].pid # pids[1]
  BY <1>2, <1>6 DEF JobsApart, Pids
<1>8. \A i \in Background : Group(Jobs[i].pid)' = Group(Jobs[i].pid)
  BY <1>2, <1>3, <1>4, <1>5, <1>7 DEF Group
<1>9. Types'
  <2>1. grp' \in [Pids -> {0} \cup Pids]
    BY <1>2, <1>3, <1>4
  <2>2. strayed' \subseteq Pids
    BY <1>2, <1>3 DEF Types
  <2>3. QED
    BY <1>3, <2>1, <2>2 DEF Types, TypeOK, Alive, Ended, shellProcessGroup
<1>10. Vacant' /\ Leaders'
  <2>1. Vacant'
    BY <1>2, <1>3, <1>4 DEF Vacant
  <2>2. Leaders'
    BY <1>2, <1>3, <1>4, <1>5 DEF Leaders, shellProcessGroup
  <2>3. QED
    BY <2>1, <2>2
<1>11. TablesAgree' /\ FgKnown' /\ NeverWaitsInVain'
  BY <1>3, <1>6 DEF TablesAgree, FgKnown, NeverWaitsInVain
<1>12. JobsApart' /\ SinglesPresent'
  BY <1>3, <1>6 DEF JobsApart, SinglesPresent
<1>13. GroupsPresent'
  BY <1>1, <1>3, <1>6, <1>8 DEF GroupsPresent
<1>14. LineShape'
  BY <1>1, <1>3 DEF LineShape, LineStates
<1>15. LineProcs'
  <2>1. pc \in LineStates /\ pc' \in LineStates /\ pc' # "setpgid"
    BY <1>1, <1>3 DEF LineStates
  <2>2. \A k, n \in 1 .. Len(pids) : pids[k] = pids[n] => k = n
    BY <1>1, <2>1 DEF LineProcs
  <2>3. ASSUME NEW k \in 1 .. Len(pids)
        PROVE  /\ grp'[pids[k]] \in {0, pids[1]}
               /\ grp'[pids[k]] = pids[1] \/ pids[k] \in strayed' \/ st[pids[k]] = "none"
    <3>1. CASE k = Len(pids)
      BY <1>3, <1>5, <3>1
    <3>2. CASE k # Len(pids)
      <4>1. pids[k] # p
        BY <1>1, <2>2, <3>2
      <4>2. /\ grp[pids[k]] \in {0, pids[1]}
            /\ grp[pids[k]] = pids[1] \/ pids[k] \in strayed \/ st[pids[k]] = "none"
        BY <1>1, <2>1, <3>2 DEF LineProcs, shellProcessGroup
      <4>3. QED
        BY <1>1, <1>3, <1>4, <4>1, <4>2
    <3>3. QED
      BY <3>1, <3>2
  <2>4. QED
    BY <1>1, <1>3, <1>6, <2>1, <2>3 DEF LineProcs, Pipeline, shellProcessGroup
<1>16. FgStarted' /\ Terminal'
  BY <1>1, <1>3 DEF FgStarted, Terminal, LineStates
<1>17. Accounted'
  <2>1. \A q \in Pids : InLine(q) => InLine(q)'
    BY <1>1, <1>3 DEF InLine, LineStates
  <2>2. \A i \in Background : Members(Jobs[i])' = Members(Jobs[i])
    BY <1>3, <1>8 DEF Members
  <2>3. \A q \in Pids : InJob(q) => InJob(q)'
    BY <1>3, <1>6, <2>2 DEF InJob
  <2>4. QED
    BY <1>3, <2>1, <2>3 DEF Accounted
<1>18. QED
  BY <1>9, <1>10, <1>11, <1>12, <1>13, <1>14, <1>15, <1>16, <1>17

-----------------------------------------------------------------------------
(* storeJobInfo: while an entry is free so is an ID, since two IDs never   *)
(* lead to one entry.                                                      *)
LEMMA LeastNatural ==
  ASSUME NEW T \in SUBSET Nat, T # {}
  PROVE  \E m \in T : \A n \in T : m <= n
<1>1. PICK m \in T : \A n \in T : ~(<<n, m>> \in OpToRel(<, Nat))
  BY NatLessThanWellFounded, WFMin
<1>2. m \in Nat /\ \A n \in T : n \in Nat
  OBVIOUS
<1>3. \A n \in T : ~(n < m)
  BY <1>1, <1>2 DEF OpToRel
<1>4. QED
  BY <1>2, <1>3

LEMMA AnIdIsFree ==
  ASSUME Types, TablesAgree, Len(Jobs) < MaxJobs
  PROVE  /\ findSmallestAvailableJobID \in IDs
         /\ jobIDs[findSmallestAvailableJobID] = 0
<1>1. MaxJobs \in Nat /\ Len(Jobs) \in Nat /\ DOMAIN Jobs = 1 .. Len(Jobs)
  BY ShellAssumption DEF ShellAssumption, Types
<1>2. \E n \in IDs : jobIDs[n] = 0
  <2> SUFFICES ASSUME \A n \in IDs : jobIDs[n] # 0 PROVE FALSE
    OBVIOUS
  <2>1. \A n \in IDs : jobIDs[n] \in 1 .. Len(Jobs) /\ Jobs[jobIDs[n]].jobID = n
    BY <1>1 DEF TablesAgree, Background
  <2>2. jobIDs \in [IDs -> 1 .. Len(Jobs)]
    BY <2>1 DEF Types, TypeOK
  <2>3. /\ IsFiniteSet(IDs) /\ Cardinality(IDs) = MaxJobs
        /\ IsFiniteSet(1 .. Len(Jobs)) /\ Cardinality(1 .. Len(Jobs)) = Len(Jobs)
    <3>1. \A k \in Nat : IsFiniteSet(1 .. k) /\ Cardinality(1 .. k) = k
      <4> SUFFICES ASSUME NEW k \in Nat PROVE IsFiniteSet(1 .. k) /\ Cardinality(1 .. k) = k
        OBVIOUS
      <4>1. IsFiniteSet(1 .. k) /\ Cardinality(1 .. k) = IF 1 > k THEN 0 ELSE k - 1 + 1
        BY FS_Interval
      <4>2. QED
        BY <4>1
    <3>2. QED
      BY <1>1, <3>1 DEF IDs
  <2>4. PICK m, n \in IDs : m # n /\ jobIDs[m] = jobIDs[n]
    BY <2>2, <2>3, FS_PigeonHole
  <2>5. QED
    BY <2>1, <2>4
<1>3. \E n \in IDs : jobIDs[n] = 0 /\ \A m \in 1 .. n - 1 : jobIDs[m] # 0
  <2> DEFINE T == {n \in IDs : jobIDs[n] = 0}
  <2>1. T \in SUBSET Nat /\ T # {}
    BY <1>2 DEF IDs
  <2> HIDE DEF T
  <2>2. PICK n \in T : \A m \in T : n <= m
    BY <2>1, LeastNatural
  <2> USE DEF T
  <2>3. n \in IDs /\ \A m \in 1 .. n - 1 : m \in IDs /\ ~(n <= m)
    BY <1>1, <2>2 DEF IDs
  <2>4. QED
    BY <2>2, <2>3
<1>4. QED
  BY <1>3 DEF findSmallestAvailableJobID

LEMMA StoreJob ==
  ASSUME Types, TablesAgree, Len(Jobs) < MaxJobs,
         NEW pid \in Pids, NEW group \in BOOLEAN, NEW isStopped \in BOOLEAN,
         storeJobInfo(pid, group, isStopped)
  PROVE  LET new == Len(Jobs) + 1 IN
         /\ Jobs' \in Seq(Job) /\ Len(Jobs') = new
         /\ jobIDs' \in [IDs -> 0 .. MaxJobs]
         /\ Background' = Background \cup {new} /\ new \notin Background
         /\ Background \subseteq DOMAIN Jobs
         /\ \A i \in DOMAIN Jobs : Jobs'[i] = Jobs[i]
         /\ Jobs'[new].pid = pid /\ (Jobs'[new].group <=> group) /\ Jobs'[new].jobID \in IDs
         /\ TablesAgree'
<1> DEFINE n == findSmallestAvailableJobID
           new == Len(Jobs) + 1
           job == [pid |-> pid, group |-> group, jobID |-> n, isValid |-> TRUE,
                   isBackground |-> TRUE, isStopped |-> isStopped]
<1>1. n \in IDs /\ jobIDs[n] = 0
  BY AnIdIsFree
<1>2. job \in Job
  BY <1>1 DEF Job
<1>3. /\ Jobs' = Append(Jobs, job) /\ jobIDs' = [jobIDs EXCEPT ![n] = new]
      /\ job.pid = pid /\ (job.group <=> group) /\ job.jobID = n /\ job.isValid /\ job.isBackground
  BY DEF storeJobInfo
<1> HIDE DEF n, job
<1>4. /\ Jobs \in Seq(Job) /\ Len(Jobs) \in Nat /\ DOMAIN Jobs = 1 .. Len(Jobs)
      /\ jobIDs \in [IDs -> 0 .. MaxJobs] /\ MaxJobs \in Nat
  BY ShellAssumption DEF Types, TypeOK, ShellAssumption
<1>5. /\ Jobs' \in Seq(Job) /\ Len(Jobs') = new /\ DOMAIN Jobs' = 1 .. new
      /\ \A i \in DOMAIN Jobs : Jobs'[i] = Jobs[i]
      /\ Jobs'[new] = job
  BY <1>2, <1>3, <1>4
<1>6. jobIDs' \in [IDs -> 0 .. MaxJobs]
  BY <1>1, <1>3, <1>4
<1>7. Background' = Background \cup {new} /\ new \notin Background /\ Background \subseteq DOMAIN Jobs
  BY <1>3, <1>4, <1>5 DEF Background
<1>8. TablesAgree'
  <2>1. ASSUME NEW m \in IDs, jobIDs'[m] # 0
        PROVE  jobIDs'[m] \in Background' /\ Jobs'[jobIDs'[m]].jobID = m
    BY <1>1, <1>3, <1>4, <1>5, <1>7, <2>1 DEF TablesAgree
  <2>2. ASSUME NEW i \in Background'
        PROVE  jobIDs'[Jobs'[i].jobID] = i
    <3>1. CASE i = new
      BY <1>1, <1>3, <1>4, <1>5, <3>1
    <3>2. CASE i # new
      BY <1>1, <1>3, <1>4, <1>5, <1>7, <3>2 DEF TablesAgree, Background
    <3>3. QED
      BY <3>1, <3>2
  <2>3. QED
    BY <2>1, <2>2 DEF TablesAgree
<1>9. QED
  BY <1>1, <1>3, <1>5, <1>6, <1>7, <1>8

LEMMA LineToStore ==
  ASSUME SInv, pc \in {"forked", "wait"}
  PROVE  /\ Len(Jobs) \in Nat /\ Len(Jobs) < MaxJobs /\ MaxJobs \in Nat
         /\ ~(Len(line.processIDs) > 1) => Len(line.processIDs) = 1
<1>1. /\ Len(Jobs) \in Nat /\ Len(Jobs) < MaxJobs
      /\ line.processIDs \in Seq(Pids) /\ line.processIDs # <<>>
  BY DEF SInv, Types, Line, LineShape, LineStates
<1>2. Len(line.processIDs) \in Nat /\ Len(line.processIDs) # 0
  BY <1>1
<1>3. MaxJobs \in Nat
  BY ShellAssumption DEF ShellAssumption
<1>4. \A n \in Nat : n # 0 => n = 1 \/ n > 1
  OBVIOUS
<1>5. ~(Len(line.processIDs) > 1) => Len(line.processIDs) = 1
  BY <1>2, <1>4, Zenon
<1>6. QED
  BY <1>1, <1>3, <1>5

(* Forked and LineDone: the line becomes a job. *)
LEMMA LineBecomesJob ==
  ASSUME SInv, pc \in {"forked", "wait"}, line.background \/ line.waited > 0,
         line.waited = 0 \/ line.isStopped,
         NEW s \in BOOLEAN,
         storeJobInfo(line.processIDs[1], Len(line.processIDs) > 1, s),
         pc' = "update", line' = NoLine, tty' = shellProcessGroup,
         UNCHANGED <<children, current, history>>
  PROVE  SInv'
<1> USE DEF SInv
<1> DEFINE pids == line.processIDs
<1>0. Len(Jobs) \in Nat /\ Len(Jobs) < MaxJobs /\ MaxJobs \in Nat
      /\ (~(Len(pids) > 1) => Len(pids) = 1)
  BY LineToStore
<1>a. PICK new \in Nat : new = Len(Jobs) + 1 /\ new <= MaxJobs
  BY <1>0
<1>1. /\ pc \in LineStates /\ pids \in Seq(Pids) /\ Len(pids) \in Nat /\ Len(pids) > 0
      /\ DOMAIN pids = 1 .. Len(pids) /\ line.left = 0
      /\ \A k \in 1 .. Len(pids) : pids[k] \in Pids
      /\ Len(Jobs) < MaxJobs /\ DOMAIN Jobs = 1 .. Len(Jobs) /\ Len(Jobs) \in Nat
      /\ line.waited \in Nat
  BY DEF Types, Line, LineShape, LineStates
<1>2. /\ Jobs' \in Seq(Job) /\ Len(Jobs') = new
      /\ jobIDs' \in [IDs -> 0 .. MaxJobs]
      /\ Background' = Background \cup {new} /\ new \notin Background
      /\ Background \subseteq DOMAIN Jobs
      /\ \A i \in DOMAIN Jobs : Jobs'[i] = Jobs[i]
      /\ Jobs'[new].pid = pids[1] /\ (Jobs'[new].group <=> Len(pids) > 1) /\ Jobs'[new].jobID \in IDs
      /\ TablesAgree'
  <2>1. pids[1] \in Pids /\ (Len(pids) > 1) \in BOOLEAN
    BY <1>1
  <2>2. QED
    BY <1>1, <1>a, <2>1, StoreJob
<1>3. /\ UNCHANGED <<st, grp, role, stopped, news, pending, feeder, strayed, early>>
      /\ Tracked = Background /\ Tracked' = Background \cup {new}
      /\ pc' \notin LineStates
  BY <1>1, <1>2 DEF children, history, Tracked, LineStates
<1>4. Types'
  <2>1. line' \in Line
    BY StartedLine DEF NoLine
  <2>2. Len(Jobs') <= MaxJobs /\ jobIDs' \in [IDs -> 0 .. MaxJobs] /\ Jobs' \in Seq(Job)
    BY <1>2, <1>a
  <2>3. QED
    BY <1>3, <2>1, <2>2 DEF Types, TypeOK, Alive, Ended
<1>5. Vacant' /\ Leaders' /\ FgKnown' /\ NeverWaitsInVain' /\ Terminal' /\ LineShape' /\ LineProcs'
      /\ GroupsPresent'
  BY <1>3 DEF Vacant, Leaders, FgKnown, NeverWaitsInVain, Terminal, LineShape, LineProcs, GroupsPresent,
              LineStates
<1>6. JobsApart' /\ SinglesPresent'
  <2>1. /\ \A i \in Background : Jobs[i].pid # pids[1]
        /\ role[pids[1]] # "other"
        /\ Len(pids) = 1 => st[pids[1]] # "none"
    BY <1>1 DEF LineProcs
  <2>2. JobsApart'
    BY <1>1, <1>2, <1>3, <2>1 DEF JobsApart
  <2>3. ~Jobs'[new].group => Len(pids) = 1
    BY <1>0, <1>2
  <2>4. \A i \in Background : Jobs'[i] = Jobs[i]
    BY <1>2
  <2>5. SinglesPresent'
    BY <1>2, <1>3, <2>1, <2>3, <2>4 DEF SinglesPresent
  <2>6. QED
    BY <2>2, <2>5
<1>7. FgStarted'
  BY <1>3 DEF FgStarted
<1>8. Accounted'
  <2>1. \A i \in Background : Members(Jobs[i])' = Members(Jobs[i])
    BY <1>2, <1>3 DEF Members, Group
  <2>2. ASSUME NEW k \in 1 .. Len(pids), st[pids[k]] # "none", pids[k] \notin strayed
        PROVE  pids[k] \in Members(Jobs[new])'
    <3>1. CASE Len(pids) = 1
      BY <1>1, <1>2, <1>3, <2>2, <3>1 DEF Members
    <3>2. CASE Len(pids) > 1
      <4>1. grp[pids[k]] = pids[1]
        BY <1>1, <2>2, <3>2 DEF LineProcs, Pipeline
      <4>2. QED
        BY <1>1, <1>2, <1>3, <2>2, <3>2, <4>1 DEF Members, Group
    <3>3. QED
      BY <1>0, <3>1, <3>2
  <2>3. ASSUME NEW q \in Pids, st[q] # "none", q \notin strayed
        PROVE  InJob(q)'
    <3>1. CASE InJob(q)
      BY <1>2, <1>3, <2>1, <3>1 DEF InJob
    <3>2. CASE InLine(q)
      BY <1>1, <1>3, <2>2, <2>3, <3>2 DEF InJob, InLine
    <3>3. QED
      BY <2>3, <3>1, <3>2 DEF Accounted
  <2>4. QED
    BY <1>3, <2>3 DEF Accounted
<1>9. QED
  BY <1>2, <1>4, <1>5, <1>6, <1>7, <1>8

LEMMA ForkedKeeps ==
  ASSUME SInv, Forked
  PROVE  SInv'
<1>1. CASE line.background
  BY <1>1, LineBecomesJob DEF Forked, SInv, Terminal, LineShape, LineStates
<1>2. CASE ~line.background
  <2> USE DEF SInv
  <2>1. /\ pc = "forked" /\ pc' = "wait"
        /\ UNCHANGED <<st, grp, role, stopped, news, pending, feeder, tty, line, Jobs, jobIDs, current, strayed, early>>
    BY <1>2 DEF Forked, children, table, history
  <2>3. Background' = Background /\ Tracked' = Tracked /\ Tracked = Background
    BY <2>1 DEF Background, Tracked
  <2>4. Types' /\ Vacant' /\ Leaders'
    BY <2>1 DEF Types, TypeOK, Vacant, Leaders, Alive, Ended
  <2>5. TablesAgree' /\ FgKnown' /\ NeverWaitsInVain' /\ JobsApart' /\ SinglesPresent'
    BY <2>1, <2>3 DEF TablesAgree, FgKnown, NeverWaitsInVain, JobsApart, SinglesPresent
  <2>6. GroupsPresent'
    BY <2>1, <2>3 DEF GroupsPresent, Group
  <2>7. LineShape' /\ LineProcs'
    BY <1>2, <2>1, <2>3 DEF LineShape, LineProcs, LineStates, Pipeline
  <2>8. FgStarted' /\ Terminal'
    BY <2>1 DEF FgStarted, Terminal, LineStates
  <2>9. Accounted'
    <3>1. \A i \in Background : Members(Jobs[i])' = Members(Jobs[i])
      BY <2>1 DEF Members, Group
    <3>2. QED
      BY <2>1, <2>3, <3>1 DEF Accounted, InJob, InLine, LineStates
  <2>10. QED
    BY <2>4, <2>5, <2>6, <2>7, <2>8, <2>9
<1>3. QED
  BY <1>1, <1>2

LEMMA LineDoneKeeps ==
  ASSUME SInv, LineDone
  PROVE  SInv'
<1> USE DEF SInv
<1>1. /\ pc = "wait" /\ line.waited = Len(line.processIDs) /\ line.waited > 0 /\ line.waited \in Nat
      /\ DOMAIN line.processIDs = 1 .. line.waited
  BY DEF LineDone, LineShape, LineStates, Types, Line
<1>2. CASE line.isStopped
  BY <1>1, <1>2, LineBecomesJob DEF LineDone
<1>3. CASE ~line.isStopped
  <2>1. /\ UNCHANGED <<st, grp, role, stopped, news, pending, feeder, Jobs, jobIDs, current, strayed, early>>
        /\ pc' = "update" /\ tty' = shellProcessGroup /\ line' = NoLine /\ pc' \notin LineStates
    BY <1>1, <1>3 DEF LineDone, children, table, history, LineStates
  <2>2. Background' = Background /\ Tracked' = Tracked
    BY <1>1, <2>1 DEF Background, Tracked
  <2>3. Types'
    <3>1. line' \in Line
      BY <2>1, StartedLine DEF NoLine
    <3>2. QED
      BY <2>1, <3>1 DEF Types, TypeOK, Alive, Ended
  <2>4. Vacant' /\ Leaders' /\ TablesAgree' /\ FgKnown' /\ NeverWaitsInVain' /\ JobsApart' /\ SinglesPresent'
        /\ LineShape' /\ LineProcs' /\ GroupsPresent' /\ Terminal'
    BY <2>1, <2>2 DEF Vacant, Leaders, TablesAgree, FgKnown, NeverWaitsInVain, JobsApart, SinglesPresent,
                      LineShape, LineProcs, GroupsPresent, Terminal
  <2>5. FgStarted'
    BY <1>1, <2>1 DEF FgStarted
  <2>6. Accounted'
    <3>1. \A i \in Tracked : Members(Jobs[i])' = Members(Jobs[i])
      BY <2>1 DEF Members, Group
    <3>2. \A q \in Pids : st[q] # "none" => ~InLine(q)
      BY <1>1, <1>3 DEF InLine, LineProcs, LineStates
    <3>3. QED
      BY <2>1, <2>2, <3>1, <3>2 DEF Accounted, InJob
  <2>7. QED
    BY <2>3, <2>4, <2>5, <2>6
<1>4. QED
  BY <1>2, <1>3

-----------------------------------------------------------------------------
(* What waitpid does to the children, whoever calls it. *)
LEMMA ReapEffect ==
  ASSUME SInv, NEW R \in SUBSET Pids, Reap(R)
  PROVE  /\ st' \in [Pids -> {"none", "start", "grouped", "owner", "run", "zombie", "killed"}]
         /\ grp' \in [Pids -> {shellProcessGroup} \cup Pids]
         /\ news' \in [Pids -> BOOLEAN]
         /\ strayed' \subseteq Pids
         /\ UNCHANGED <<role, stopped, pending, feeder>>
         /\ \A p \in Pids : p \in R /\ Ended(p) => st'[p] = "none"
         /\ \A p \in Pids : p \notin R \/ ~Ended(p) =>
              /\ st'[p] = st[p] /\ grp'[p] = grp[p] /\ (p \in strayed' <=> p \in strayed)
         /\ \A p \in Pids : grp'[p] \in {grp[p], 0}
         /\ \A p \in Pids : news'[p] => news[p]
         /\ \A p \in Pids : st'[p] # "none" => st'[p] = st[p] /\ grp'[p] = grp[p]
         /\ \A p \in Pids : ~Alive(p)' => ~stopped'[p] /\ ~pending'[p]
         /\ Vacant' /\ Leaders'
<1> USE DEF SInv, Reap
<1>1. /\ st \in [Pids -> {"none", "start", "grouped", "owner", "run", "zombie", "killed"}]
      /\ grp \in [Pids -> {shellProcessGroup} \cup Pids]
      /\ news \in [Pids -> BOOLEAN] /\ strayed \subseteq Pids
      /\ \A p \in Pids : ~Alive(p) => ~stopped[p] /\ ~pending[p]
      /\ UNCHANGED <<role, stopped, pending, feeder>>
  BY DEF Types, TypeOK
<1>2. /\ st' \in [Pids -> {"none", "start", "grouped", "owner", "run", "zombie", "killed"}]
      /\ grp' \in [Pids -> {shellProcessGroup} \cup Pids]
      /\ news' \in [Pids -> BOOLEAN]
      /\ strayed' \subseteq Pids
  BY <1>1
<1>3. /\ \A p \in Pids : p \in R /\ Ended(p) => st'[p] = "none" /\ grp'[p] = shellProcessGroup
      /\ \A p \in Pids : p \notin R \/ ~Ended(p) =>
              /\ st'[p] = st[p] /\ grp'[p] = grp[p] /\ (p \in strayed' <=> p \in strayed)
      /\ \A p \in Pids : news'[p] <=> news[p] /\ p \notin R
  BY <1>1
<1>4. \A p \in Pids : ~Alive(p)' => ~stopped'[p] /\ ~pending'[p]
  BY <1>1, <1>3 DEF Alive, Ended
<1>5. Vacant'
  BY <1>1, <1>3 DEF Vacant, Types, Ended
<1>6. Leaders'
  BY <1>1, <1>3 DEF Leaders
<1>7. QED
  BY <1>1, <1>2, <1>3, <1>4, <1>5, <1>6 DEF shellProcessGroup, Ended

(* A process of the line is waited for once, and is in no job. *)
LEMMA WaitLineKeeps ==
  ASSUME SInv, WaitLine
  PROVE  SInv'
<1> DEFINE pids == line.processIDs
           k == line.waited + 1
           p == pids[k]
<1>1. /\ pc = "wait" /\ pc \in LineStates /\ pids \in Seq(Pids) /\ Len(pids) \in Nat
      /\ DOMAIN pids = 1 .. Len(pids) /\ line.left = 0 /\ line.waited \in Nat /\ line \in Line
      /\ k \in 1 .. Len(pids) /\ k > line.waited /\ ~line.background
      /\ \A n \in 1 .. Len(pids) : pids[n] \in Pids
  BY DEF WaitLine, SInv, Types, Line, LineShape, LineStates
<1>2. /\ st[p] # "none" /\ p \in Pids
      /\ \A i \in Background : Jobs[i].pid # p /\ Jobs[i].pid # pids[1]
      /\ grp[p] \in {0, pids[1]}
      /\ \A n \in 1 .. Len(pids) : n # k => pids[n] # p
  BY <1>1 DEF SInv, LineProcs, shellProcessGroup
<1>3. /\ Reap({p})
      /\ line' = [line EXCEPT !.waited = line.waited + 1, !.isStopped = line.isStopped \/ ~Ended(p)]
      /\ UNCHANGED <<tty, pc, Jobs, jobIDs, current, early>>
  BY <1>2 DEF WaitLine, table
<1>4. /\ line' \in Line /\ line'.processIDs = pids /\ line'.left = 0 /\ line'.waited = k
      /\ (line'.isStopped <=> line.isStopped \/ ~Ended(p)) /\ line'.background = line.background
  <2> DEFINE s == line.isStopped \/ ~Ended(p)
             w == line.waited + 1
  <2>1. s \in BOOLEAN /\ w \in Nat /\ line' = [line EXCEPT !.waited = w, !.isStopped = s]
    BY <1>1, <1>3
  <2>2. line \in Line
    BY <1>1
  <2> HIDE DEF s, w
  <2>3. /\ line' \in Line /\ line'.processIDs = line.processIDs /\ line'.left = line.left
        /\ line'.waited = w /\ line'.isStopped = s /\ line'.background = line.background
    BY <2>1, <2>2 DEF Line
  <2>4. QED
    BY <1>1, <2>3 DEF s, w
<1>5. /\ grp' \in [Pids -> {shellProcessGroup} \cup Pids]
      /\ st' \in [Pids -> {"none", "start", "grouped", "owner", "run", "zombie", "killed"}]
      /\ news' \in [Pids -> BOOLEAN] /\ strayed' \subseteq Pids
      /\ UNCHANGED <<role, stopped, pending, feeder>>
      /\ Ended(p) => st'[p] = "none"
      /\ \A q \in Pids : q # p \/ ~Ended(p) =>
           st'[q] = st[q] /\ grp'[q] = grp[q] /\ (q \in strayed' <=> q \in strayed)
      /\ \A q \in Pids : grp'[q] \in {grp[q], 0}
      /\ \A q \in Pids : st'[q] # "none" => st'[q] = st[q] /\ grp'[q] = grp[q]
      /\ \A q \in Pids : ~Alive(q)' => ~stopped'[q] /\ ~pending'[q]
      /\ \A q \in Pids : news'[q] => news[q]
      /\ Vacant' /\ Leaders'
  BY <1>2, <1>3, ReapEffect
<1>6. Background' = Background /\ Tracked' = Tracked /\ Tracked = Background
  BY <1>1, <1>3 DEF Background, Tracked
<1>7. \A i \in Background : /\ Jobs[i].pid \in Pids /\ Jobs[i].pid # 0
                            /\ Jobs[i].pid # p /\ Jobs[i].pid # pids[1]
  BY <1>2, <1>6 DEF SInv, JobsApart, Pids
<1>8. \A i \in Background : Group(Jobs[i].pid)' = Group(Jobs[i].pid)
  <2> SUFFICES ASSUME NEW i \in Background, NEW q \in Pids
               PROVE  st'[q] # "none" /\ grp'[q] = Jobs[i].pid <=> st[q] # "none" /\ grp[q] = Jobs[i].pid
    BY <1>3 DEF Group
  <2>1. CASE q = p
    BY <1>2, <1>5, <1>7, <2>1
  <2>2. CASE q # p
    BY <1>5, <2>2
  <2>3. QED
    BY <2>1, <2>2
<1>9. \A i \in Background : Members(Jobs[i])' = Members(Jobs[i])
  BY <1>3, <1>5, <1>7, <1>8 DEF Members
<1>10. Types'
  BY <1>3, <1>4, <1>5 DEF SInv, Types, TypeOK
<1>11. TablesAgree' /\ FgKnown' /\ NeverWaitsInVain' /\ JobsApart' /\ Terminal'
  BY <1>1, <1>3, <1>4, <1>6 DEF SInv, TablesAgree, FgKnown, NeverWaitsInVain, JobsApart, Terminal
<1>12. SinglesPresent' /\ GroupsPresent'
  <2>1. SinglesPresent'
    BY <1>3, <1>5, <1>6, <1>7 DEF SInv, SinglesPresent
  <2>2. GroupsPresent'
    BY <1>1, <1>3, <1>6, <1>8 DEF SInv, GroupsPresent
  <2>3. QED
    BY <2>1, <2>2
<1>13. LineShape'
  BY <1>1, <1>3, <1>4 DEF SInv, LineShape, LineStates
<1>14. LineProcs'
  <2>1. ASSUME NEW n \in 1 .. Len(pids)
        PROVE  /\ grp'[pids[n]] \in {0, pids[1]}
               /\ role[pids[n]] = "other" <=> n # 1
               /\ \A i \in Background : Jobs[i].pid # pids[n]
               /\ n > k => st'[pids[n]] # "none"
               /\ n <= k /\ ~line'.isStopped => st'[pids[n]] = "none"
               /\ Len(pids) = 1 /\ line'.isStopped => st'[pids[n]] # "none"
               /\ Len(pids) > 1 => grp'[pids[n]] = pids[1] \/ pids[n] \in strayed' \/ st'[pids[n]] = "none"
    <3>1. /\ pids[n] \in Pids
          /\ grp[pids[n]] \in {0, pids[1]}
          /\ role[pids[n]] = "other" <=> n # 1
          /\ \A i \in Background : Jobs[i].pid # pids[n]
          /\ n > line.waited => st[pids[n]] # "none"
          /\ n <= line.waited /\ ~line.isStopped => st[pids[n]] = "none"
          /\ Len(pids) = 1 /\ line.isStopped => st[pids[n]] # "none"
          /\ line.waited = 0 => ~line.isStopped
          /\ Len(pids) > 1 => grp[pids[n]] = pids[1] \/ pids[n] \in strayed \/ st[pids[n]] = "none"
      BY <1>1 DEF SInv, LineProcs, LineShape, Pipeline, shellProcessGroup
    <3>2. CASE n = k
      <4>1. Len(pids) = 1 => ~line.isStopped
        BY <1>1, <3>1
      <4>2. QED
        BY <1>1, <1>2, <1>4, <1>5, <3>1, <3>2, <4>1
    <3>3. CASE n # k
      <4>1. pids[n] # p /\ Len(pids) # 1
        BY <1>1, <1>2, <3>3
      <4>2. QED
        BY <1>1, <1>4, <1>5, <3>1, <3>3, <4>1
    <3>4. QED
      BY <3>2, <3>3
  <2>2. \A m, n \in 1 .. Len(pids) : pids[m] = pids[n] => m = n
    BY <1>1 DEF SInv, LineProcs
  <2>3. Pipeline' => Len(pids) > 1
    BY <1>1, <1>4 DEF Pipeline
  <2>4. line'.processIDs = pids /\ DOMAIN pids = 1 .. Len(pids) /\ line'.waited = k
        /\ role' = role /\ Background' = Background /\ Jobs' = Jobs
    BY <1>1, <1>3, <1>4, <1>5, <1>6
  <2>5. \A n \in DOMAIN pids :
          /\ \A i \in Background : Jobs'[i].pid # pids[n]
          /\ grp'[pids[n]] \in {shellProcessGroup, pids[1]}
          /\ role'[pids[n]] = "other" <=> n # 1
          /\ n > line'.waited => st'[pids[n]] # "none"
          /\ n <= line'.waited /\ ~line'.isStopped => st'[pids[n]] = "none"
          /\ Len(pids) = 1 /\ line'.isStopped => st'[pids[n]] # "none"
          /\ Pipeline' => grp'[pids[n]] = pids[1] \/ pids[n] \in strayed' \/ st'[pids[n]] = "none"
    BY <2>1, <2>3, <2>4 DEF shellProcessGroup
  <2>6. QED
    BY <2>2, <2>4, <2>5 DEF LineProcs
<1>15. FgStarted'
  <2> SUFFICES ASSUME NEW q \in Pids, role[q] = "fg", st'[q] \in {"start", "grouped"} PROVE FALSE
    BY <1>5 DEF FgStarted
  <2>1. st[q] = st'[q] /\ q = pids[1] /\ line.waited = 0 /\ ~news[q]
    BY <1>5 DEF SInv, FgStarted
  <2>2. Reportable(p) /\ p = q
    BY <1>1, <1>2, <2>1 DEF WaitLine
  <2>3. QED
    BY <2>1, <2>2 DEF Reportable, Ended
<1>16. Accounted'
  <2>1. \A q \in Pids : st'[q] # "none" => st[q] # "none" /\ (q \in strayed => q \in strayed')
    BY <1>5
  <2>2. \A q \in Pids : (InLine(q) => InLine(q)') /\ (InJob(q) => InJob(q)')
    BY <1>3, <1>4, <1>6, <1>9 DEF InLine, InJob
  <2>3. QED
    BY <2>1, <2>2 DEF SInv, Accounted
<1>17. QED
  BY <1>5, <1>10, <1>11, <1>12, <1>13, <1>14, <1>15, <1>16 DEF SInv

(* updateBackgroundJobStatus: a job is dropped when all its processes have *)
(* ended, and they are gone from then on.                                  *)
LEMMA UpdateJobsKeeps ==
  ASSUME SInv, UpdateJobs
  PROVE  SInv'
<1> DEFINE gone == {i \in Background : Over(i)}
           R == {p \in UNION {Members(Jobs[i]) : i \in Background} : Ended(p)}
<1>1. /\ pc = "update" /\ Tracked = Background /\ Background \subseteq DOMAIN Jobs
      /\ Jobs \in Seq(Job) /\ Len(Jobs) \in Nat /\ DOMAIN Jobs = 1 .. Len(Jobs)
  BY DEF UpdateJobs, SInv, Types, Tracked, Background
<1>2. \A i \in Background : Jobs[i].pid \in Pids /\ Members(Jobs[i]) \subseteq Pids
  BY <1>1 DEF SInv, JobsApart, Members, Group
<1>3. ~ \E i \in Background : ~Jobs[i].group /\ Members(Jobs[i]) = {}
  BY <1>1, <1>2 DEF SInv, SinglesPresent, Members
<1>4. /\ pc' = "prompt"
      /\ Jobs' = [i \in DOMAIN Jobs |-> IF i \in gone THEN NoJob ELSE Jobs[i]]
      /\ jobIDs' = [n \in IDs |-> IF \E i \in gone : Jobs[i].jobID = n THEN 0 ELSE jobIDs[n]]
      /\ Reap(R)
      /\ UNCHANGED <<tty, line, current, early>>
  BY <1>3 DEF UpdateJobs
<1>5. R \in SUBSET Pids
  BY <1>2
<1>6. \A p \in R : Ended(p)
  OBVIOUS
<1>7. \A i \in Background : \A p \in Members(Jobs[i]) : Ended(p) => p \in R
  OBVIOUS
<1> HIDE DEF R
<1>8. /\ st' \in [Pids -> {"none", "start", "grouped", "owner", "run", "zombie", "killed"}]
      /\ grp' \in [Pids -> {shellProcessGroup} \cup Pids]
      /\ news' \in [Pids -> BOOLEAN]
      /\ strayed' \subseteq Pids
      /\ UNCHANGED <<role, stopped, pending, feeder>>
      /\ \A p \in R : st'[p] = "none"
      /\ \A p \in Pids \ R : st'[p] = st[p] /\ grp'[p] = grp[p] /\ (p \in strayed' <=> p \in strayed)
      /\ \A p \in Pids : st'[p] # "none" => st'[p] = st[p] /\ grp'[p] = grp[p]
      /\ \A p \in Pids : ~Alive(p)' => ~stopped'[p] /\ ~pending'[p]
      /\ \A p \in Pids : news'[p] => news[p]
      /\ Vacant' /\ Leaders'
  BY <1>4, <1>5, <1>6, ReapEffect
<1>9. gone \subseteq Background /\ \A i \in Background \ gone : \E p \in Members(Jobs[i]) : ~Ended(p)
  BY DEF Over
<1>10. \A i \in gone : \A p \in Members(Jobs[i]) : Ended(p)
  BY DEF Over
<1> HIDE DEF gone
<1>11. /\ NoJob \in Job /\ ~NoJob.isValid
       /\ Jobs' \in Seq(Job) /\ DOMAIN Jobs' = DOMAIN Jobs /\ Len(Jobs') = Len(Jobs)
       /\ \A i \in DOMAIN Jobs : Jobs'[i] = IF i \in gone THEN NoJob ELSE Jobs[i]
  <2>1. NoJob \in Job /\ ~NoJob.isValid
    BY DEF NoJob, Job
  <2>2. \A i \in DOMAIN Jobs : Jobs'[i] = IF i \in gone THEN NoJob ELSE Jobs[i]
    BY <1>4
  <2>3. DOMAIN Jobs' = 1 .. Len(Jobs) /\ Jobs' \in [1 .. Len(Jobs) -> Job]
    BY <1>1, <1>4, <2>1
  <2>4. Jobs' \in Seq(Job) /\ Len(Jobs') = Len(Jobs)
    BY <1>1, <2>3
  <2>5. QED
    BY <1>1, <2>1, <2>2, <2>3, <2>4
<1>12. /\ Background' = Background \ gone /\ Tracked' = Background \ gone
       /\ \A i \in Background \ gone : Jobs'[i] = Jobs[i]
  <2>1. Background' = Background \ gone
    BY <1>1, <1>11 DEF Background
  <2>2. QED
    BY <1>1, <1>4, <1>11, <2>1 DEF Tracked
<1>13. Types'
  <2>1. jobIDs' \in [IDs -> 0 .. MaxJobs]
    BY <1>4, ShellAssumption DEF SInv, Types, TypeOK, ShellAssumption
  <2>2. QED
    BY <1>4, <1>8, <1>11, <2>1 DEF SInv, Types, TypeOK
<1>14. TablesAgree'
  <2>1. ASSUME NEW n \in IDs, jobIDs'[n] # 0
        PROVE  jobIDs'[n] \in Background' /\ Jobs'[jobIDs'[n]].jobID = n
    BY <1>4, <1>12, <2>1 DEF SInv, TablesAgree
  <2>2. ASSUME NEW i \in Background' PROVE jobIDs'[Jobs'[i].jobID] = i
    <3>1. i \in Background \ gone /\ Jobs'[i] = Jobs[i] /\ Jobs[i].jobID \in IDs
      BY <1>1, <1>12 DEF SInv, JobsApart
    <3>2. \A g \in gone : Jobs[g].jobID # Jobs[i].jobID
      BY <1>9, <3>1 DEF SInv, TablesAgree
    <3>3. QED
      BY <1>4, <3>1, <3>2 DEF SInv, TablesAgree
  <2>3. QED
    BY <2>1, <2>2 DEF TablesAgree
<1>15. JobsApart'
  BY <1>1, <1>12 DEF SInv, JobsApart
<1>16. SinglesPresent'
  <2>1. ASSUME NEW i \in Background \ gone, ~Jobs[i].group PROVE st'[Jobs[i].pid] # "none" /\ role[Jobs[i].pid] # "other"
    <3>1. Members(Jobs[i]) \subseteq {Jobs[i].pid}
      BY <2>1 DEF Members
    <3>2. Jobs[i].pid \in Pids \ R
      BY <1>2, <1>6, <1>9, <3>1
    <3>3. QED
      BY <1>1, <1>8, <2>1, <3>2 DEF SInv, SinglesPresent
  <2>2. QED
    BY <1>8, <1>12, <2>1 DEF SinglesPresent
<1>17. \A i \in Background \ gone : \A p \in Members(Jobs[i]) \ R : p \in Members(Jobs[i])'
  BY <1>2, <1>8, <1>12 DEF Members, Group
<1>18. GroupsPresent'
  <2>1. ASSUME NEW i \in Background \ gone, Jobs[i].group PROVE Group(Jobs[i].pid)' # {}
    <3>1. PICK p \in Members(Jobs[i]) \ R : TRUE
      BY <1>6, <1>9
    <3>2. QED
      BY <1>12, <1>17, <2>1, <3>1 DEF Members
  <2>2. QED
    BY <1>12, <2>1 DEF GroupsPresent
<1>19. FgKnown' /\ NeverWaitsInVain' /\ Terminal' /\ LineShape' /\ LineProcs'
  BY <1>1, <1>4 DEF SInv, FgKnown, NeverWaitsInVain, Terminal, LineShape, LineProcs, LineStates
<1>20. FgStarted'
  BY <1>1, <1>8 DEF SInv, FgStarted, LineStates
<1>21. Accounted'
  <2> SUFFICES ASSUME NEW p \in Pids, st'[p] # "none", p \notin strayed' PROVE InJob(p)'
    BY DEF Accounted
  <2>1. p \notin R /\ st[p] # "none" /\ p \notin strayed
    BY <1>8
  <2>2. PICK i \in Background : p \in Members(Jobs[i])
    BY <1>1, <2>1 DEF SInv, Accounted, InJob, InLine, LineStates
  <2>3. i \notin gone
    BY <1>7, <1>10, <2>1, <2>2
  <2>4. QED
    BY <1>12, <1>17, <2>1, <2>2, <2>3 DEF InJob
<1>22. QED
  BY <1>8, <1>13, <1>14, <1>15, <1>16, <1>18, <1>19, <1>20, <1>21 DEF SInv

-----------------------------------------------------------------------------
(* fg and bg. *)
LEMMA TrackedJobs ==
  ASSUME SInv
  PROVE  /\ Jobs \in Seq(Job) /\ Len(Jobs) \in Nat /\ DOMAIN Jobs = 1 .. Len(Jobs)
         /\ Background \subseteq DOMAIN Jobs /\ Tracked \subseteq DOMAIN Jobs
         /\ \A i \in Tracked : /\ Jobs[i].pid \in Pids /\ Jobs[i].pid # 0
                               /\ Members(Jobs[i]) \subseteq {p \in Pids : st[p] # "none"}
<1>1. Jobs \in Seq(Job)
  BY DEF SInv, Types
<1>2. Background \subseteq DOMAIN Jobs /\ Tracked \subseteq DOMAIN Jobs
  BY DEF SInv, Background, Tracked, FgKnown
<1>3. \A i \in Tracked : Jobs[i].pid \in Pids /\ Jobs[i].pid # 0
  BY DEF SInv, JobsApart, Pids
<1>4. \A i \in Tracked : Members(Jobs[i]) \subseteq {p \in Pids : st[p] # "none"}
  BY DEF Members, Group
<1>5. QED
  BY <1>1, <1>2, <1>3, <1>4

LEMMA MembersApart ==
  ASSUME SInv, NEW i \in Tracked, NEW k \in Tracked, i # k, NEW p \in Members(Jobs[i])
  PROVE  p \notin Members(Jobs[k])
<1> SUFFICES ASSUME p \in Members(Jobs[k]) PROVE FALSE
  OBVIOUS
<1>1. Jobs[i].pid # Jobs[k].pid /\ p \in Pids /\ st[p] # "none"
  BY TrackedJobs DEF SInv, JobsApart
<1>2. CASE Jobs[i].group /\ Jobs[k].group
  BY <1>1, <1>2 DEF Members, Group
<1>3. CASE ~Jobs[i].group /\ ~Jobs[k].group
  BY <1>1, <1>3 DEF Members
<1>4. CASE ~Jobs[i].group /\ Jobs[k].group
  <2>1. p = Jobs[i].pid /\ grp[p] = Jobs[k].pid /\ role[p] # "other" /\ Jobs[k].pid # 0
    BY <1>4, TrackedJobs DEF Members, Group, SInv, SinglesPresent
  <2>2. QED
    BY <1>1, <2>1 DEF SInv, Leaders, shellProcessGroup
<1>5. CASE Jobs[i].group /\ ~Jobs[k].group
  <2>1. p = Jobs[k].pid /\ grp[p] = Jobs[i].pid /\ role[p] # "other" /\ Jobs[i].pid # 0
    BY <1>5, TrackedJobs DEF Members, Group, SInv, SinglesPresent
  <2>2. QED
    BY <1>1, <2>1 DEF SInv, Leaders, shellProcessGroup
<1>6. QED
  BY <1>2, <1>3, <1>4, <1>5

(* The table after a change of one entry. *)
LEMMA JobReplaced ==
  ASSUME NEW js \in Seq(Job), NEW i \in DOMAIN js, NEW l \in Job,
         NEW ks, ks = [js EXCEPT ![i] = l]
  PROVE  /\ ks \in Seq(Job) /\ Len(ks) = Len(js) /\ DOMAIN ks = DOMAIN js
         /\ \A k \in DOMAIN js : k # i => ks[k] = js[k]
         /\ ks[i] = l
<1>1. PICK n \in Nat : n = Len(js)
  OBVIOUS
<1>2. js \in [1 .. n -> Job] /\ i \in 1 .. n
  BY <1>1
<1> HIDE <1>1
<1>3. ks \in [1 .. n -> Job] /\ ks[i] = l /\ \A k \in 1 .. n : k # i => ks[k] = js[k]
  BY <1>2
<1>4. ks \in Seq(Job) /\ Len(ks) = n /\ DOMAIN ks = 1 .. n
  BY <1>3
<1>5. QED
  BY <1>1, <1>2, <1>3, <1>4

(* fg and bg leave the process and the ID of a job. *)
Moved(j, b, s) == [j EXCEPT !.isBackground = b, !.isStopped = s]
Stopped(j) == [j EXCEPT !.isStopped = TRUE, !.isBackground = TRUE]

LEMMA MovedJob ==
  ASSUME NEW j \in Job, NEW b \in BOOLEAN, NEW s \in BOOLEAN, NEW l, l = Moved(j, b, s)
  PROVE  /\ l \in Job /\ l.pid = j.pid /\ l.group = j.group /\ l.jobID = j.jobID
         /\ l.isValid <=> j.isValid
         /\ l.isBackground <=> b
<1> DEFINE k == [j EXCEPT !.isBackground = b]
<1>1. /\ k \in Job /\ k.pid = j.pid /\ k.group = j.group /\ k.jobID = j.jobID
      /\ k.isValid = j.isValid /\ k.isBackground = b
  BY DEF Job
<1>2. l = [k EXCEPT !.isStopped = s]
  BY DEF Moved
<1> HIDE DEF k
<1>3. /\ l \in Job /\ l.pid = k.pid /\ l.group = k.group /\ l.jobID = k.jobID
      /\ l.isValid = k.isValid /\ l.isBackground = k.isBackground
  BY <1>1, <1>2 DEF Job
<1>4. QED
  BY <1>1, <1>3

LEMMA StoppedJob ==
  ASSUME NEW j \in Job, NEW l, l = Stopped(j)
  PROVE  /\ l \in Job /\ l.pid = j.pid /\ l.group = j.group /\ l.jobID = j.jobID
         /\ l.isValid <=> j.isValid
         /\ l.isBackground
<1> DEFINE k == [j EXCEPT !.isStopped = TRUE]
<1>1. /\ k \in Job /\ k.pid = j.pid /\ k.group = j.group /\ k.jobID = j.jobID
      /\ k.isValid = j.isValid
  BY DEF Job
<1>2. l = [k EXCEPT !.isBackground = TRUE]
  BY DEF Stopped
<1> HIDE DEF k
<1>3. /\ l \in Job /\ l.pid = k.pid /\ l.group = k.group /\ l.jobID = k.jobID
      /\ l.isValid = k.isValid /\ l.isBackground
  BY <1>1, <1>2 DEF Job
<1>4. QED
  BY <1>1, <1>3

LEMMA JobMoves ==
  ASSUME NEW js \in Seq(Job), NEW i \in DOMAIN js, NEW b \in BOOLEAN, NEW s \in BOOLEAN,
         NEW ks, ks = [js EXCEPT ![i] = Moved(js[i], b, s)]
  PROVE  /\ ks \in Seq(Job) /\ Len(ks) = Len(js) /\ DOMAIN ks = DOMAIN js
         /\ \A k \in DOMAIN js : k # i => ks[k] = js[k]
         /\ ks[i].pid = js[i].pid /\ ks[i].group = js[i].group /\ ks[i].jobID = js[i].jobID
         /\ ks[i].isValid <=> js[i].isValid
         /\ ks[i].isBackground <=> b
<1> DEFINE l == Moved(js[i], b, s)
<1>1. js[i] \in Job
  OBVIOUS
<1>2. /\ l \in Job /\ l.pid = js[i].pid /\ l.group = js[i].group /\ l.jobID = js[i].jobID
      /\ l.isValid <=> js[i].isValid
      /\ l.isBackground <=> b
  BY <1>1, MovedJob
<1> HIDE DEF l
<1>3. ks = [js EXCEPT ![i] = l]
  BY DEF l
<1>4. QED
  BY <1>2, <1>3, JobReplaced

LEMMA ResumeEffect ==
  ASSUME SInv, NEW i \in Tracked, Resume(Jobs[i])
  PROVE  /\ st' \in [Pids -> {"none", "start", "grouped", "owner", "run", "zombie", "killed"}]
         /\ stopped' \in [Pids -> BOOLEAN] /\ news' \in [Pids -> BOOLEAN]
         /\ pending' \in [Pids -> BOOLEAN] /\ feeder' \in [Pids -> {0} \cup Pids]
         /\ UNCHANGED <<grp, role>>
         /\ \A p \in Pids : st'[p] # "none" <=> st[p] # "none"
         /\ \A p \in Pids : st'[p] \in {"start", "grouped"} => st[p] = st'[p]
         /\ \A p \in Pids : ~Alive(p)' => ~stopped'[p] /\ ~pending'[p]
         /\ Vacant' /\ Leaders'
<1>1. /\ st \in [Pids -> {"none", "start", "grouped", "owner", "run", "zombie", "killed"}]
      /\ stopped \in [Pids -> BOOLEAN] /\ news \in [Pids -> BOOLEAN]
      /\ pending \in [Pids -> BOOLEAN] /\ feeder \in [Pids -> {0} \cup Pids]
      /\ \A p \in Pids : ~Alive(p) => ~stopped[p] /\ ~pending[p]
  BY DEF SInv, Types, TypeOK
<1>2. CASE UNCHANGED children
  <2>1. UNCHANGED <<st, grp, role, stopped, news, pending, feeder>>
    BY <1>2 DEF children
  <2>2. QED
    BY <1>1, <2>1 DEF SInv, Vacant, Leaders, Alive, Ended
<1>3. CASE Continue({p \in Members(Jobs[i]) : ~Ended(p)})
  <2> DEFINE S == {p \in Members(Jobs[i]) : ~Ended(p)}
  <2>1. S \subseteq {p \in Pids : st[p] # "none"} /\ \A p \in S : Alive(p)
    BY TrackedJobs DEF Alive
  <2> HIDE DEF S
  <2>2. Continue(S)
    BY <1>3 DEF S
  <2>3. /\ st' = [p \in Pids |-> IF p \in S /\ pending[p] THEN "killed" ELSE st[p]]
        /\ stopped' = [p \in Pids |-> stopped[p] /\ p \notin S]
        /\ news' = [p \in Pids |-> news[p] /\ p \notin S]
        /\ pending' = [p \in Pids |-> pending[p] /\ p \notin S]
        /\ feeder' = [p \in Pids |-> IF feeder[p] \in S /\ pending[feeder[p]] THEN 0 ELSE feeder[p]]
        /\ UNCHANGED <<grp, role>>
    BY <2>2 DEF Continue
  <2>4. /\ st' \in [Pids -> {"none", "start", "grouped", "owner", "run", "zombie", "killed"}]
        /\ stopped' \in [Pids -> BOOLEAN] /\ news' \in [Pids -> BOOLEAN]
        /\ pending' \in [Pids -> BOOLEAN] /\ feeder' \in [Pids -> {0} \cup Pids]
    BY <1>1, <2>3
  <2>5. /\ \A p \in Pids : st'[p] # "none" <=> st[p] # "none"
        /\ \A p \in Pids : st'[p] \in {"start", "grouped"} => st[p] = st'[p]
    BY <1>1, <2>1, <2>3
  <2>6. \A p \in Pids : ~Alive(p)' => ~stopped'[p] /\ ~pending'[p]
    BY <1>1, <2>1, <2>3 DEF Alive, Ended
  <2>7. Vacant'
    BY <1>1, <2>1, <2>3 DEF SInv, Vacant
  <2>8. \A p \in Pids : pending[p] => st[p] = "run"
    BY DEF SInv, Vacant
  <2>9. Leaders'
    BY <2>3, <2>5, <2>8 DEF SInv, Leaders
  <2>10. QED
    BY <2>3, <2>4, <2>5, <2>6, <2>7, <2>9
<1>4. QED
  BY <1>2, <1>3 DEF Resume

LEMMA FgKeeps ==
  ASSUME SInv, NEW n \in IDs, Fg(n)
  PROVE  SInv'
<1>a. PICK i : i = jobIDs[n]
  OBVIOUS
<1>1. /\ pc = "prompt" /\ Tracked = Background /\ i \in Background /\ Jobs[i].jobID = n
      /\ i \in DOMAIN Jobs /\ Jobs[i].isValid
      /\ i \in 1 .. Len(Jobs) /\ jobIDs \in [IDs -> 0 .. MaxJobs]
  BY <1>a, TrackedJobs DEF Fg, SInv, Types, TypeOK, Tracked, TablesAgree, Background
<1>2. /\ Resume(Jobs[i])
      /\ jobIDs' = [jobIDs EXCEPT ![n] = 0]
      /\ current'.id = n /\ current'.index = i
      /\ pc' = "fg"
      /\ UNCHANGED <<tty, line, strayed, early>>
  BY <1>a DEF Fg, history
<1>3. /\ Jobs' \in Seq(Job) /\ Len(Jobs') = Len(Jobs) /\ DOMAIN Jobs' = DOMAIN Jobs
      /\ \A k \in DOMAIN Jobs : k # i => Jobs'[k] = Jobs[k]
      /\ Jobs'[i].pid = Jobs[i].pid /\ Jobs'[i].group = Jobs[i].group /\ Jobs'[i].jobID = Jobs[i].jobID
      /\ Jobs'[i].isValid /\ ~Jobs'[i].isBackground
  <2> DEFINE b == FALSE
             s == FALSE
  <2>1. Jobs' = [Jobs EXCEPT ![i] = Moved(Jobs[i], b, s)]
    BY <1>a DEF Fg, Moved
  <2>2. Jobs \in Seq(Job) /\ i \in DOMAIN Jobs /\ b \in BOOLEAN /\ s \in BOOLEAN
    BY <1>1, TrackedJobs
  <2> HIDE DEF b, s
  <2>3. /\ Jobs' \in Seq(Job) /\ Len(Jobs') = Len(Jobs) /\ DOMAIN Jobs' = DOMAIN Jobs
        /\ \A k \in DOMAIN Jobs : k # i => Jobs'[k] = Jobs[k]
        /\ Jobs'[i].pid = Jobs[i].pid /\ Jobs'[i].group = Jobs[i].group
        /\ Jobs'[i].jobID = Jobs[i].jobID
        /\ Jobs'[i].isValid <=> Jobs[i].isValid
        /\ Jobs'[i].isBackground <=> b
    BY <2>1, <2>2, JobMoves
  <2>4. QED
    BY <1>1, <2>3 DEF b
<1>4. /\ st' \in [Pids -> {"none", "start", "grouped", "owner", "run", "zombie", "killed"}]
      /\ stopped' \in [Pids -> BOOLEAN] /\ news' \in [Pids -> BOOLEAN]
      /\ pending' \in [Pids -> BOOLEAN] /\ feeder' \in [Pids -> {0} \cup Pids]
      /\ UNCHANGED <<grp, role>>
      /\ \A p \in Pids : st'[p] # "none" <=> st[p] # "none"
      /\ \A p \in Pids : st'[p] \in {"start", "grouped"} => st[p] = st'[p]
      /\ \A p \in Pids : ~Alive(p)' => ~stopped'[p] /\ ~pending'[p]
      /\ Vacant' /\ Leaders'
  BY <1>1, <1>2, ResumeEffect
<1>5. /\ Background' = Background \ {i} /\ Tracked' = Background
      /\ \A k \in Background : Jobs'[k].pid = Jobs[k].pid /\ Jobs'[k].group = Jobs[k].group
                               /\ Jobs'[k].jobID = Jobs[k].jobID
  <2>1. Background' = Background \ {i}
    BY <1>1, <1>3 DEF Background
  <2>2. Background \subseteq DOMAIN Jobs
    BY DEF Background
  <2>3. QED
    BY <1>1, <1>2, <1>3, <2>1, <2>2 DEF Tracked
<1>6. \A k \in Background : /\ Group(Jobs[k].pid)' = Group(Jobs[k].pid)
                            /\ Members(Jobs[k])' = Members(Jobs[k])
  BY <1>4, <1>5 DEF Members, Group
<1>7. Types'
  <2>1. jobIDs' \in [IDs -> 0 .. MaxJobs]
    <3>1. MaxJobs \in Nat
      BY ShellAssumption DEF ShellAssumption
    <3>2. QED
      BY <1>1, <1>2, <3>1
  <2>2. current'.id \in {0} \cup IDs
    BY <1>2
  <2>3. QED
    BY <1>2, <1>3, <1>4, <2>1, <2>2 DEF SInv, Types, TypeOK
<1>8. TablesAgree'
  <2>1. ASSUME NEW m \in IDs, jobIDs'[m] # 0
        PROVE  jobIDs'[m] \in Background' /\ Jobs'[jobIDs'[m]].jobID = m
    <3>1. m # n /\ jobIDs'[m] = jobIDs[m]
      BY <1>1, <1>2, <2>1
    <3>2. jobIDs[m] \in Background /\ Jobs[jobIDs[m]].jobID = m
      BY <2>1, <3>1 DEF SInv, TablesAgree
    <3>3. QED
      BY <1>1, <1>5, <3>1, <3>2
  <2>2. ASSUME NEW k \in Background' PROVE jobIDs'[Jobs'[k].jobID] = k
    <3>1. k \in Background /\ k # i /\ Jobs[k].jobID \in IDs /\ jobIDs[Jobs[k].jobID] = k
      BY <1>1, <1>5 DEF SInv, TablesAgree, JobsApart
    <3>2. QED
      BY <1>1, <1>2, <1>5, <1>a, <3>1
  <2>3. QED
    BY <2>1, <2>2 DEF TablesAgree
<1>9. FgKnown'
  BY <1>1, <1>2, <1>3 DEF FgKnown
<1>10. JobsApart' /\ SinglesPresent'
  BY <1>1, <1>4, <1>5 DEF SInv, JobsApart, SinglesPresent
<1>11. GroupsPresent'
  BY <1>1, <1>5, <1>6 DEF SInv, GroupsPresent
<1>12. LineShape' /\ LineProcs' /\ Terminal' /\ NeverWaitsInVain'
  BY <1>2 DEF LineShape, LineProcs, Terminal, NeverWaitsInVain, LineStates
<1>13. FgStarted'
  BY <1>1, <1>4 DEF SInv, FgStarted, LineStates
<1>14. Accounted'
  BY <1>1, <1>2, <1>4, <1>5, <1>6 DEF SInv, Accounted, InJob, InLine, LineStates
<1>15. QED
  BY <1>4, <1>7, <1>8, <1>9, <1>10, <1>11, <1>12, <1>13, <1>14 DEF SInv

LEMMA BgKeeps ==
  ASSUME SInv, NEW n \in IDs, Bg(n)
  PROVE  SInv'
<1>a. PICK i : i = jobIDs[n]
  OBVIOUS
<1>1. /\ pc = "prompt" /\ Tracked = Background /\ i \in Background
      /\ i \in DOMAIN Jobs /\ Jobs[i].isValid /\ i \in 1 .. Len(Jobs)
  BY <1>a, TrackedJobs DEF Bg, SInv, Tracked, TablesAgree, Background
<1>2. /\ Resume(Jobs[i])
      /\ pc' = "update"
      /\ UNCHANGED <<tty, line, jobIDs, current, strayed, early>>
  BY <1>a DEF Bg, history
<1>3. /\ Jobs' \in Seq(Job) /\ Len(Jobs') = Len(Jobs) /\ DOMAIN Jobs' = DOMAIN Jobs
      /\ \A k \in DOMAIN Jobs : k # i => Jobs'[k] = Jobs[k]
      /\ Jobs'[i].pid = Jobs[i].pid /\ Jobs'[i].group = Jobs[i].group /\ Jobs'[i].jobID = Jobs[i].jobID
      /\ Jobs'[i].isValid /\ Jobs'[i].isBackground
  <2> DEFINE b == TRUE
             s == FALSE
  <2>1. Jobs' = [Jobs EXCEPT ![i] = Moved(Jobs[i], b, s)]
    BY <1>a DEF Bg, Moved
  <2>2. Jobs \in Seq(Job) /\ i \in DOMAIN Jobs /\ b \in BOOLEAN /\ s \in BOOLEAN
    BY <1>1, TrackedJobs
  <2> HIDE DEF b, s
  <2>3. /\ Jobs' \in Seq(Job) /\ Len(Jobs') = Len(Jobs) /\ DOMAIN Jobs' = DOMAIN Jobs
        /\ \A k \in DOMAIN Jobs : k # i => Jobs'[k] = Jobs[k]
        /\ Jobs'[i].pid = Jobs[i].pid /\ Jobs'[i].group = Jobs[i].group
        /\ Jobs'[i].jobID = Jobs[i].jobID
        /\ Jobs'[i].isValid <=> Jobs[i].isValid
        /\ Jobs'[i].isBackground <=> b
    BY <2>1, <2>2, JobMoves
  <2>4. QED
    BY <1>1, <2>3 DEF b
<1>4. /\ st' \in [Pids -> {"none", "start", "grouped", "owner", "run", "zombie", "killed"}]
      /\ stopped' \in [Pids -> BOOLEAN] /\ news' \in [Pids -> BOOLEAN]
      /\ pending' \in [Pids -> BOOLEAN] /\ feeder' \in [Pids -> {0} \cup Pids]
      /\ UNCHANGED <<grp, role>>
      /\ \A p \in Pids : st'[p] # "none" <=> st[p] # "none"
      /\ \A p \in Pids : st'[p] \in {"start", "grouped"} => st[p] = st'[p]
      /\ \A p \in Pids : ~Alive(p)' => ~stopped'[p] /\ ~pending'[p]
      /\ Vacant' /\ Leaders'
  BY <1>1, <1>2, ResumeEffect
<1>5. /\ Background' = Background /\ Tracked' = Background
      /\ \A k \in Background : Jobs'[k].pid = Jobs[k].pid /\ Jobs'[k].group = Jobs[k].group
                               /\ Jobs'[k].jobID = Jobs[k].jobID
  <2>1. Background' = Background
    BY <1>1, <1>3 DEF Background
  <2>2. Background \subseteq DOMAIN Jobs
    BY DEF Background
  <2>3. QED
    BY <1>1, <1>2, <1>3, <2>1, <2>2 DEF Tracked
<1>6. \A k \in Background : Members(Jobs[k])' = Members(Jobs[k])
  BY <1>4, <1>5 DEF Members, Group
<1>7. Types'
  BY <1>2, <1>3, <1>4 DEF SInv, Types, TypeOK
<1>8. TablesAgree' /\ JobsApart' /\ SinglesPresent'
  <2>1. TablesAgree'
    BY <1>2, <1>5 DEF SInv, TablesAgree
  <2>2. JobsApart' /\ SinglesPresent'
    BY <1>1, <1>4, <1>5 DEF SInv, JobsApart, SinglesPresent
  <2>3. QED
    BY <2>1, <2>2
<1>9. FgKnown' /\ GroupsPresent' /\ LineShape' /\ LineProcs' /\ NeverWaitsInVain'
  BY <1>2 DEF FgKnown, GroupsPresent, LineShape, LineProcs, NeverWaitsInVain, LineStates
<1>10. Terminal'
  BY <1>1, <1>2 DEF SInv, Terminal, LineStates
<1>11. FgStarted'
  BY <1>1, <1>4 DEF SInv, FgStarted, LineStates
<1>12. Accounted'
  BY <1>1, <1>2, <1>4, <1>5, <1>6 DEF SInv, Accounted, InJob, InLine, LineStates
<1>13. QED
  BY <1>4, <1>7, <1>8, <1>9, <1>10, <1>11, <1>12 DEF SInv

LEMMA FgTerminalKeeps ==
  ASSUME SInv, FgTerminal
  PROVE  SInv'
<1>1. /\ pc = "fg" /\ pc' = "fgwait" /\ Tracked' = Tracked /\ Background' = Background
      /\ UNCHANGED <<st, grp, role, stopped, news, pending, feeder, line, Jobs, jobIDs, current, strayed, early>>
  BY DEF FgTerminal, children, table, history, Tracked, Background
<1>2. \A i \in Tracked : /\ Group(Jobs[i].pid)' = Group(Jobs[i].pid)
                         /\ Members(Jobs[i])' = Members(Jobs[i])
  BY <1>1 DEF Members, Group
<1>3. tty' \in {shellProcessGroup} \cup Pids
  BY <1>1, TrackedJobs DEF FgTerminal, Tracked, SInv, Types, TypeOK
<1>4. Types' /\ Vacant' /\ Leaders'
  BY <1>1, <1>3 DEF SInv, Types, TypeOK, Alive, Ended, Vacant, Leaders
<1>5. TablesAgree' /\ FgKnown' /\ JobsApart' /\ SinglesPresent' /\ NeverWaitsInVain'
  BY <1>1 DEF SInv, TablesAgree, FgKnown, JobsApart, SinglesPresent, NeverWaitsInVain
<1>6. GroupsPresent'
  BY <1>1, <1>2 DEF SInv, GroupsPresent, Tracked
<1>7. LineShape' /\ LineProcs' /\ Terminal'
  BY <1>1 DEF LineShape, LineProcs, Terminal, LineStates
<1>8. FgStarted'
  BY <1>1 DEF SInv, FgStarted, LineStates
<1>9. Accounted'
  BY <1>1, <1>2 DEF SInv, Accounted, InJob, InLine, LineStates
<1>10. QED
  BY <1>4, <1>5, <1>6, <1>7, <1>8, <1>9 DEF SInv

(* The job in the foreground has stopped: it goes back into the background. *)
LEMMA FgStopKeeps ==
  ASSUME SInv, pc = "fgwait", NEW p \in Members(Jobs[current.index]), ~Ended(p), Reap({p}),
         FgStopped(current.index), FgReturn, UNCHANGED <<line, early>>
  PROVE  SInv'
<1>a. PICK i : i = current.index
  OBVIOUS
<1>b. PICK n : n = current.id
  OBVIOUS
<1>1. /\ i \in Tracked /\ i \in DOMAIN Jobs /\ Jobs[i].isValid /\ Jobs[i].jobID = n /\ n \in IDs
      /\ i \notin Background /\ Tracked = Background \cup {i} /\ jobIDs[n] = 0
      /\ p \in Pids /\ Jobs \in Seq(Job) /\ i \in 1 .. Len(Jobs) /\ Len(Jobs) <= MaxJobs
      /\ jobIDs \in [IDs -> 0 .. MaxJobs]
  BY <1>a, <1>b, TrackedJobs DEF SInv, Types, TypeOK, Tracked, FgKnown, Background
<1>2. /\ jobIDs' = [jobIDs EXCEPT ![n] = i]
      /\ pc' = "update" /\ tty' = shellProcessGroup /\ current' = NoCurrent
  BY <1>a, <1>b DEF FgStopped, FgReturn
<1>3. /\ Jobs' \in Seq(Job) /\ Len(Jobs') = Len(Jobs) /\ DOMAIN Jobs' = DOMAIN Jobs
      /\ \A k \in DOMAIN Jobs : k # i => Jobs'[k] = Jobs[k]
      /\ Jobs'[i].pid = Jobs[i].pid /\ Jobs'[i].group = Jobs[i].group /\ Jobs'[i].jobID = Jobs[i].jobID
      /\ Jobs'[i].isValid /\ Jobs'[i].isBackground
  <2> DEFINE l == Stopped(Jobs[i])
  <2>1. Jobs[i] \in Job
    BY <1>1
  <2>2. /\ l \in Job /\ l.pid = Jobs[i].pid /\ l.group = Jobs[i].group /\ l.jobID = Jobs[i].jobID
        /\ l.isValid <=> Jobs[i].isValid
        /\ l.isBackground
    BY <2>1, StoppedJob
  <2>3. Jobs' = [Jobs EXCEPT ![i] = l]
    BY <1>a DEF FgStopped, Stopped
  <2> HIDE DEF l
  <2>4. QED
    BY <1>1, <2>2, <2>3, JobReplaced
<1>4. /\ st' \in [Pids -> {"none", "start", "grouped", "owner", "run", "zombie", "killed"}]
      /\ grp' \in [Pids -> {shellProcessGroup} \cup Pids]
      /\ news' \in [Pids -> BOOLEAN] /\ strayed' \subseteq Pids
      /\ UNCHANGED <<role, stopped, pending, feeder>>
      /\ \A q \in Pids : st'[q] = st[q] /\ grp'[q] = grp[q] /\ (q \in strayed' <=> q \in strayed)
      /\ \A q \in Pids : ~Alive(q)' => ~stopped'[q] /\ ~pending'[q]
      /\ Vacant' /\ Leaders'
  BY <1>1, ReapEffect
<1>5. /\ Background' = Tracked /\ Tracked' = Tracked
      /\ \A k \in Tracked : Jobs'[k].pid = Jobs[k].pid /\ Jobs'[k].group = Jobs[k].group
                            /\ Jobs'[k].jobID = Jobs[k].jobID
  <2>1. Background' = Background \cup {i}
    BY <1>1, <1>3 DEF Background
  <2>2. Background \subseteq DOMAIN Jobs
    BY DEF Background
  <2>3. QED
    BY <1>1, <1>2, <1>3, <2>1, <2>2 DEF Tracked
<1>6. \A k \in Tracked : Members(Jobs[k])' = Members(Jobs[k])
  <2>1. \A q \in Pids : /\ st'[q] # "none" <=> st[q] # "none"
                        /\ grp'[q] = grp[q]
    BY <1>4
  <2>2. \A g : Group(g)' = Group(g)
    BY <2>1 DEF Group
  <2>3. {q \in Pids : st[q] # "none"}' = {q \in Pids : st[q] # "none"}
    BY <2>1
  <2>4. QED
    BY <1>5, <2>2, <2>3 DEF Members
<1>7. Types'
  <2>1. jobIDs' \in [IDs -> 0 .. MaxJobs]
    <3>1. MaxJobs \in Nat
      BY ShellAssumption DEF ShellAssumption
    <3>2. i \in 0 .. MaxJobs
      BY <1>1, <3>1
    <3>3. QED
      BY <1>1, <1>2, <3>2
  <2>2. current'.id \in {0} \cup IDs
    BY <1>2 DEF NoCurrent
  <2>3. QED
    BY <1>2, <1>3, <1>4, <2>1, <2>2 DEF SInv, Types, TypeOK
<1>8. TablesAgree'
  <2>1. ASSUME NEW m \in IDs, jobIDs'[m] # 0
        PROVE  jobIDs'[m] \in Background' /\ Jobs'[jobIDs'[m]].jobID = m
    <3>1. CASE m = n
      BY <1>1, <1>2, <1>3, <1>5, <3>1
    <3>2. CASE m # n
      BY <1>1, <1>2, <1>5, <2>1, <3>2 DEF SInv, TablesAgree
    <3>3. QED
      BY <3>1, <3>2
  <2>2. ASSUME NEW k \in Background' PROVE jobIDs'[Jobs'[k].jobID] = k
    <3>1. CASE k = i
      BY <1>1, <1>2, <1>3, <3>1
    <3>2. CASE k # i
      <4>1. k \in Background /\ Jobs[k].jobID \in IDs /\ jobIDs[Jobs[k].jobID] = k /\ k # 0
        BY <1>1, <1>5, <3>2, TrackedJobs DEF SInv, TablesAgree, JobsApart
      <4>2. QED
        BY <1>1, <1>2, <1>5, <4>1
    <3>3. QED
      BY <3>1, <3>2
  <2>3. QED
    BY <2>1, <2>2 DEF TablesAgree
<1>9. FgKnown' /\ GroupsPresent' /\ LineShape' /\ LineProcs' /\ Terminal' /\ NeverWaitsInVain'
  BY <1>2 DEF FgKnown, GroupsPresent, LineShape, LineProcs, Terminal, NeverWaitsInVain, LineStates
<1>10. JobsApart' /\ SinglesPresent'
  <2>1. JobsApart'
    BY <1>5 DEF SInv, JobsApart
  <2>2. SinglesPresent'
    BY <1>4, <1>5 DEF SInv, SinglesPresent, JobsApart
  <2>3. QED
    BY <2>1, <2>2
<1>11. FgStarted'
  BY <1>4 DEF SInv, FgStarted, LineStates
<1>12. Accounted'
  BY <1>4, <1>5, <1>6 DEF SInv, Accounted, InJob, InLine, LineStates
<1>13. QED
  BY <1>4, <1>7, <1>8, <1>9, <1>10, <1>11, <1>12 DEF SInv


(* What waitpid reaps of one job leaves the other jobs their processes. *)
LEMMA ReapOfJob ==
  ASSUME SInv, NEW i \in Tracked, NEW R \in SUBSET Members(Jobs[i]), Reap(R),
         NEW k \in Tracked, k # i, NEW q \in Members(Jobs[k])
  PROVE  q \in Pids /\ st[q] # "none" /\ st'[q] = st[q] /\ grp'[q] = grp[q]
<1>1. q \notin R
  BY MembersApart
<1>2. q \in Pids /\ st[q] # "none" /\ R \in SUBSET Pids
  BY TrackedJobs
<1>3. QED
  BY <1>1, <1>2, ReapEffect

(* The job in the foreground is over: nobody is left of it. *)
LEMMA FgEnds ==
  ASSUME SInv, pc = "fgwait", NEW R, R = Members(Jobs[current.index]),
         \A p \in R : Ended(p), Reap(R),
         Jobs' = Jobs \/ Jobs' = [Jobs EXCEPT ![current.index] = NoJob],
         FgReturn, UNCHANGED <<jobIDs, line, early>>
  PROVE  SInv'
<1>a. PICK i : i = current.index
  OBVIOUS
<1>1. /\ i \in Tracked /\ i \in DOMAIN Jobs /\ i \notin Background /\ Tracked = Background \cup {i}
      /\ Jobs \in Seq(Job) /\ Background \subseteq DOMAIN Jobs /\ R \in SUBSET Pids
      /\ R = Members(Jobs[i])
  BY <1>a, TrackedJobs DEF SInv, Tracked, FgKnown, Background
<1>2. /\ pc' = "update" /\ tty' = shellProcessGroup /\ current' = NoCurrent
      /\ UNCHANGED <<jobIDs, line, early>>
  BY DEF FgReturn
<1>3. /\ Jobs' \in Seq(Job) /\ Len(Jobs') = Len(Jobs) /\ DOMAIN Jobs' = DOMAIN Jobs
      /\ \A k \in DOMAIN Jobs : k # i => Jobs'[k] = Jobs[k]
      /\ ~(Jobs'[i].isValid /\ Jobs'[i].isBackground)
  <2>1. CASE Jobs' = Jobs
    BY <1>1, <2>1 DEF Background
  <2>2. CASE Jobs' = [Jobs EXCEPT ![i] = NoJob]
    <3>1. NoJob \in Job /\ ~NoJob.isValid
      BY DEF NoJob, Job
    <3>2. QED
      BY <1>1, <2>2, <3>1, JobReplaced
  <2>3. QED
    BY <1>a, <2>1, <2>2
<1>4. /\ st' \in [Pids -> {"none", "start", "grouped", "owner", "run", "zombie", "killed"}]
      /\ grp' \in [Pids -> {shellProcessGroup} \cup Pids]
      /\ news' \in [Pids -> BOOLEAN] /\ strayed' \subseteq Pids
      /\ UNCHANGED <<role, stopped, pending, feeder>>
      /\ \A q \in R : st'[q] = "none"
      /\ \A q \in Pids : q \notin R => q \in strayed' <=> q \in strayed
      /\ \A q \in Pids : news'[q] => news[q]
      /\ \A q \in Pids : st'[q] # "none" => st'[q] = st[q] /\ grp'[q] = grp[q]
      /\ \A q \in Pids : ~Alive(q)' => ~stopped'[q] /\ ~pending'[q]
      /\ Vacant' /\ Leaders'
  BY <1>1, ReapEffect
<1>5. /\ Background' = Background /\ Tracked' = Background
      /\ \A k \in Background : Jobs'[k] = Jobs[k]
  <2>1. Background' = Background
    BY <1>1, <1>3 DEF Background
  <2>2. QED
    BY <1>1, <1>2, <1>3, <2>1 DEF Tracked
<1>6. \A k \in Background : \A q \in Members(Jobs[k]) :
        q \in Pids /\ st[q] # "none" /\ st'[q] = st[q] /\ grp'[q] = grp[q]
  BY <1>1, ReapOfJob
<1>7. Types'
  <2>1. current'.id \in {0} \cup IDs
    BY <1>2 DEF NoCurrent
  <2>2. QED
    BY <1>2, <1>3, <1>4, <2>1 DEF SInv, Types, TypeOK
<1>8. TablesAgree' /\ JobsApart'
  BY <1>1, <1>2, <1>5 DEF SInv, TablesAgree, JobsApart
<1>9. FgKnown' /\ GroupsPresent' /\ LineShape' /\ LineProcs' /\ Terminal' /\ NeverWaitsInVain'
  BY <1>2 DEF FgKnown, GroupsPresent, LineShape, LineProcs, Terminal, NeverWaitsInVain, LineStates
<1>10. SinglesPresent'
  <2>1. SUFFICES ASSUME NEW k \in Background, ~Jobs[k].group
                 PROVE  st'[Jobs[k].pid] # "none" /\ role[Jobs[k].pid] # "other"
    BY <1>4, <1>5 DEF SinglesPresent
  <2>2. st[Jobs[k].pid] # "none" /\ role[Jobs[k].pid] # "other" /\ Jobs[k].pid \in Pids
    BY <1>1, <2>1 DEF SInv, SinglesPresent, JobsApart
  <2>3. Jobs[k].pid \in Members(Jobs[k])
    BY <2>1, <2>2 DEF Members
  <2>4. QED
    BY <1>6, <2>2, <2>3
<1>11. FgStarted'
  BY <1>4 DEF SInv, FgStarted, LineStates
<1>12. Accounted'
  <2>1. SUFFICES ASSUME NEW q \in Pids, st'[q] # "none", q \notin strayed'
                 PROVE  InJob(q)'
    BY DEF Accounted
  <2>2. q \notin R /\ st'[q] = st[q] /\ q \notin strayed
    BY <1>4, <2>1
  <2>3. PICK k \in Tracked : q \in Members(Jobs[k])
    BY <2>1, <2>2 DEF SInv, Accounted, InJob, InLine, LineStates
  <2>4. k \in Background
    BY <1>1, <2>2, <2>3
  <2>5. q \in Members(Jobs[k])'
    BY <1>5, <1>6, <2>3, <2>4 DEF Members, Group
  <2>6. QED
    BY <1>5, <2>4, <2>5 DEF InJob
<1>13. QED
  BY <1>4, <1>7, <1>8, <1>9, <1>10, <1>11, <1>12 DEF SInv

(* One process of the pipeline in the foreground has ended. *)
LEMMA FgGoesOn ==
  ASSUME SInv, pc = "fgwait", Jobs[current.index].group, NEW p \in Members(Jobs[current.index]),
         Ended(p), Reap({p}), UNCHANGED <<Jobs, jobIDs, tty, pc, current, line, early>>
  PROVE  SInv'
<1>a. PICK i : i = current.index
  OBVIOUS
<1>1. /\ i \in Tracked /\ i \notin Background /\ Jobs[i].group /\ p \in Pids /\ p \in Members(Jobs[i])
      /\ Tracked' = Tracked /\ Background' = Background /\ Background \subseteq Tracked
  BY <1>a, TrackedJobs DEF SInv, Tracked, FgKnown, Background
<1>2. /\ st' \in [Pids -> {"none", "start", "grouped", "owner", "run", "zombie", "killed"}]
      /\ grp' \in [Pids -> {shellProcessGroup} \cup Pids]
      /\ news' \in [Pids -> BOOLEAN] /\ strayed' \subseteq Pids
      /\ UNCHANGED <<role, stopped, pending, feeder>>
      /\ \A q \in Pids : q # p => q \in strayed' <=> q \in strayed
      /\ st'[p] = "none"
      /\ \A q \in Pids : news'[q] => news[q]
      /\ \A q \in Pids : st'[q] # "none" => st'[q] = st[q] /\ grp'[q] = grp[q]
      /\ \A q \in Pids : ~Alive(q)' => ~stopped'[q] /\ ~pending'[q]
      /\ Vacant' /\ Leaders'
  BY <1>1, ReapEffect
<1>3. \A k \in Tracked : k # i => \A q \in Members(Jobs[k]) :
        q \in Pids /\ st[q] # "none" /\ st'[q] = st[q] /\ grp'[q] = grp[q]
  BY <1>1, ReapOfJob
<1>4. Types'
  BY <1>2 DEF SInv, Types, TypeOK
<1>5. TablesAgree' /\ FgKnown' /\ JobsApart' /\ NeverWaitsInVain'
  BY <1>1 DEF SInv, TablesAgree, FgKnown, JobsApart, NeverWaitsInVain
<1>6. SinglesPresent'
  <2>1. SUFFICES ASSUME NEW k \in Tracked, ~Jobs[k].group
                 PROVE  st'[Jobs[k].pid] # "none" /\ role[Jobs[k].pid] # "other"
    BY <1>1, <1>2 DEF SinglesPresent
  <2>2. st[Jobs[k].pid] # "none" /\ role[Jobs[k].pid] # "other" /\ Jobs[k].pid \in Pids /\ k # i
    BY <1>1, <2>1 DEF SInv, SinglesPresent, JobsApart
  <2>3. Jobs[k].pid \in Members(Jobs[k])
    BY <2>1, <2>2 DEF Members
  <2>4. QED
    BY <1>3, <2>2, <2>3
<1>7. GroupsPresent'
  <2>1. SUFFICES ASSUME NEW k \in Background, Jobs[k].group PROVE Group(Jobs[k].pid)' # {}
    BY <1>1 DEF GroupsPresent
  <2>2. PICK q : q \in Group(Jobs[k].pid)
    BY <2>1 DEF SInv, GroupsPresent
  <2>3. q \in Members(Jobs[k])
    BY <2>1, <2>2 DEF Members
  <2>4. st'[q] = st[q] /\ grp'[q] = grp[q]
    BY <1>1, <1>3, <2>3
  <2>5. q \in Group(Jobs[k].pid)'
    BY <2>2, <2>4 DEF Group
  <2>6. QED
    BY <2>5
<1>8. LineShape' /\ LineProcs' /\ Terminal'
  BY DEF LineShape, LineProcs, Terminal, LineStates
<1>9. FgStarted'
  BY <1>2 DEF SInv, FgStarted, LineStates
<1>10. Accounted'
  <2>1. SUFFICES ASSUME NEW q \in Pids, st'[q] # "none", q \notin strayed'
                 PROVE  InJob(q)'
    BY DEF Accounted
  <2>2. q # p /\ st'[q] = st[q] /\ grp'[q] = grp[q] /\ q \notin strayed
    BY <1>2, <2>1
  <2>3. PICK k \in Tracked : q \in Members(Jobs[k])
    BY <2>1, <2>2 DEF SInv, Accounted, InJob, InLine, LineStates
  <2>4. q \in Members(Jobs[k])'
    BY <2>1, <2>2, <2>3 DEF Members, Group
  <2>5. QED
    BY <1>1, <2>3, <2>4 DEF InJob
<1>11. QED
  BY <1>2, <1>4, <1>5, <1>6, <1>7, <1>8, <1>9, <1>10 DEF SInv

LEMMA FgWaitSingleKeeps ==
  ASSUME SInv, FgWaitSingle
  PROVE  SInv'
<1> DEFINE i == current.index
           p == Jobs[i].pid
<1>1. pc = "fgwait" /\ ~Jobs[i].group /\ i \in Tracked
  BY DEF FgWaitSingle, Tracked
<1>2. p \in Pids /\ st[p] # "none"
  BY <1>1 DEF SInv, JobsApart, SinglesPresent
<1>3. Members(Jobs[i]) = {p}
  BY <1>1, <1>2 DEF Members
<1>4. /\ Reap({p})
      /\ \/ ~Ended(p) /\ FgStopped(i)
         \/ st[p] = "killed" /\ UNCHANGED table
         \/ st[p] = "zombie" /\ Jobs' = [Jobs EXCEPT ![i] = NoJob] /\ UNCHANGED jobIDs
      /\ FgReturn
      /\ UNCHANGED <<line, early>>
  BY <1>2 DEF FgWaitSingle
<1>5. CASE ~Ended(p) /\ FgStopped(i)
  <2> HIDE DEF p
  <2>1. p \in Members(Jobs[i])
    BY <1>3
  <2>2. QED
    BY <1>1, <1>4, <1>5, <2>1, FgStopKeeps
<1>6. CASE ~(~Ended(p) /\ FgStopped(i))
  <2>1. /\ Ended(p)
        /\ Jobs' = Jobs \/ Jobs' = [Jobs EXCEPT ![i] = NoJob]
        /\ UNCHANGED jobIDs
    BY <1>4, <1>6 DEF Ended, table
  <2> HIDE DEF p
  <2>2. \A q \in {p} : Ended(q)
    BY <2>1
  <2>3. QED
    BY <1>1, <1>3, <1>4, <2>1, <2>2, FgEnds
<1>7. QED
  BY <1>5, <1>6

LEMMA FgWaitGroupKeeps ==
  ASSUME SInv, FgWaitGroup
  PROVE  SInv'
<1> DEFINE i == current.index
           M == Members(Jobs[i])
<1>1. /\ pc = "fgwait" /\ Jobs[i].group
      /\ UNCHANGED <<line, early>>
      /\ \/ /\ M = {}
            /\ Jobs' = [Jobs EXCEPT ![i] = NoJob]
            /\ FgReturn
            /\ UNCHANGED <<children, strayed, jobIDs>>
         \/ \E p \in M :
              /\ Reap({p})
              /\ IF Ended(p) THEN UNCHANGED <<table, tty, pc, current>>
                             ELSE FgStopped(i) /\ FgReturn
  BY DEF FgWaitGroup
<1>2. CASE /\ M = {}
           /\ Jobs' = [Jobs EXCEPT ![i] = NoJob]
           /\ FgReturn
           /\ UNCHANGED <<children, strayed, jobIDs>>
  <2>1. /\ st \in [Pids -> {"none", "start", "grouped", "owner", "run", "zombie", "killed"}]
        /\ grp \in [Pids -> {shellProcessGroup} \cup Pids]
        /\ news \in [Pids -> BOOLEAN]
        /\ UNCHANGED <<st, grp, role, stopped, news, pending, feeder, strayed>>
    BY <1>2 DEF SInv, Types, TypeOK, children
  <2>2. Reap({})
    BY <2>1 DEF Reap
  <2>3. \A q \in {} : Ended(q)
    OBVIOUS
  <2>4. QED
    BY <1>1, <1>2, <2>2, <2>3, FgEnds
<1>3. ASSUME NEW p \in M, Reap({p}), Ended(p), UNCHANGED <<table, tty, pc, current>>
      PROVE  SInv'
  <2>1. UNCHANGED <<Jobs, jobIDs, tty, pc, current, line, early>>
    BY <1>1, <1>3 DEF table
  <2>2. QED
    BY <1>1, <1>3, <2>1, FgGoesOn
<1>4. ASSUME NEW p \in M, Reap({p}), ~Ended(p), FgStopped(i), FgReturn
      PROVE  SInv'
  BY <1>1, <1>4, FgStopKeeps
<1>5. QED
  BY <1>1, <1>2, <1>3, <1>4

-----------------------------------------------------------------------------
LEMMA StartsSound == Init => SInv
<1> SUFFICES ASSUME Init PROVE SInv
  OBVIOUS
<1>1. /\ st = [p \in Pids |-> "none"]
      /\ grp = [p \in Pids |-> shellProcessGroup]
      /\ stopped = [p \in Pids |-> FALSE]
      /\ news = [p \in Pids |-> FALSE]
      /\ pending = [p \in Pids |-> FALSE]
      /\ role = [p \in Pids |-> "other"]
      /\ feeder = [p \in Pids |-> 0]
      /\ tty = shellProcessGroup /\ pc = "update"
      /\ line = NoLine /\ Jobs = <<>> /\ jobIDs = [n \in IDs |-> 0]
      /\ current = NoCurrent /\ strayed = {}
  BY DEF Init
<1>2. Background = {} /\ Tracked = {}
  BY <1>1 DEF Background, Tracked
<1>3. line \in Line
  BY <1>1 DEF NoLine, Line
<1>4. Jobs \in Seq(Job) /\ Len(Jobs) = 0 /\ MaxJobs \in Nat
  BY <1>1, ShellAssumption DEF ShellAssumption
<1>5. current.id = 0
  BY <1>1 DEF NoCurrent
<1>6. Types
  BY <1>1, <1>3, <1>4, <1>5 DEF Types, TypeOK, Alive, Ended
<1>7. Vacant /\ Leaders
  BY <1>1 DEF Vacant, Leaders
<1>8. TablesAgree /\ JobsApart /\ SinglesPresent
  BY <1>1, <1>2 DEF TablesAgree, JobsApart, SinglesPresent
<1>9. FgKnown /\ GroupsPresent /\ LineShape /\ LineProcs /\ Terminal /\ NeverWaitsInVain
  BY <1>1 DEF FgKnown, GroupsPresent, LineShape, LineProcs, Terminal, NeverWaitsInVain, LineStates
<1>10. FgStarted /\ Accounted
  BY <1>1 DEF FgStarted, Accounted
<1>11. QED
  BY <1>6, <1>7, <1>8, <1>9, <1>10 DEF SInv

LEMMA StutterKeeps ==
  ASSUME SInv, UNCHANGED vars
  PROVE  SInv'
BY DEF vars, children, table, history, SInv, Types, TypeOK, Alive, Ended, Vacant, Leaders, TablesAgree,
       Background, FgKnown, JobsApart, Tracked, SinglesPresent, GroupsPresent, Group, LineShape,
       LineProcs, LineStates, Pipeline, FgStarted, Terminal, Accounted, InJob, InLine, Members,
       NeverWaitsInVain

LEMMA StepsKeep == SInv /\ [Next]_vars => SInv'
<1> SUFFICES ASSUME SInv, [Next]_vars PROVE SInv'
  OBVIOUS
<1>1. CASE ShellStep
  <2>1. CASE UpdateJobs
    BY <2>1, UpdateJobsKeeps
  <2>2. CASE ParentSetpgid
    BY <2>2, ParentSetpgidKeeps
  <2>3. CASE Forked
    BY <2>3, ForkedKeeps
  <2>4. CASE WaitLine
    BY <2>4, WaitLineKeeps
  <2>5. CASE LineDone
    BY <2>5, LineDoneKeeps
  <2>6. CASE FgTerminal
    BY <2>6, FgTerminalKeeps
  <2>7. CASE FgWaitSingle
    BY <2>7, FgWaitSingleKeeps
  <2>8. CASE FgWaitGroup
    BY <2>8, FgWaitGroupKeeps
  <2>9. ASSUME NEW p \in Pids, Fork(p) PROVE SInv'
    BY <2>9, ForkKeeps
  <2>10. QED
    BY <1>1, <2>1, <2>2, <2>3, <2>4, <2>5, <2>6, <2>7, <2>8, <2>9 DEF ShellStep
<1>2. CASE User
  <2>1. CASE Builtin
    BY <2>1, IdleKeeps DEF Builtin
  <2>2. CASE Exit
    BY <2>2, IdleKeeps DEF Exit
  <2>3. CASE CtrlC
    BY <2>3, CtrlCKeeps
  <2>4. CASE CtrlZ
    BY <2>4, CtrlZKeeps
  <2>5. ASSUME NEW n \in Lengths, NEW background \in BOOLEAN, StartLine(n, background)
        PROVE  SInv'
    BY <2>5, StartLineKeeps
  <2>6. ASSUME NEW n \in IDs, Fg(n) PROVE SInv'
    BY <2>6, FgKeeps
  <2>7. ASSUME NEW n \in IDs, Bg(n) PROVE SInv'
    BY <2>7, BgKeeps
  <2>8. QED
    BY <1>2, <2>1, <2>2, <2>3, <2>4, <2>5, <2>6, <2>7 DEF User
<1>3. ASSUME NEW p \in Pids, Child(p) PROVE SInv'
  BY <1>3, SetpgidKeeps, TcsetpgrpKeeps, ExecvpKeeps, FinishKeeps DEF Child
<1>4. ASSUME NEW p \in Pids, Sigttin(p) PROVE SInv'
  BY <1>4, SigttinKeeps
<1>5. CASE UNCHANGED vars
  BY <1>5, StutterKeeps
<1>6. QED
  BY <1>1, <1>2, <1>3, <1>4, <1>5 DEF Next

-----------------------------------------------------------------------------
(* What every step of the shell, of its children and of the user's signals *)
(* leaves true of processes, groups, terminal and tables.                  *)
THEOREM ShellInductive == Spec => []SInv
<1>1. Init => SInv
  BY StartsSound
<1>2. SInv /\ [Next]_vars => SInv'
  BY StepsKeep
<1>3. QED
  BY <1>1, <1>2, PTL DEF Spec

(* A job ID leads to a background job with that ID and every background    *)
(* job has one, whatever storeJobInfo, fg, bg and the updates do.          *)
THEOREM TablesAlwaysAgree == Spec => []TablesSound
<1>1. SInv => TablesSound
  BY DEF SInv, Types, TablesSound
<1>2. QED
  BY <1>1, ShellInductive, PTL

(* No process is waited for twice: the exits behind perror("waitpid") of   *)
(* updateBackgroundJobStatus, fg and the waits for a line are never taken. *)
THEOREM NoWaitIsInVain == Spec => []NeverWaitsInVain
<1>1. SInv => NeverWaitsInVain
  BY DEF SInv
<1>2. QED
  BY <1>1, ShellInductive, PTL

(* At the prompt the terminal is the shell's, and every child is in the    *)
(* process or the group of a job in the table, or the parent's setpgid     *)
(* came too late for it.                                                   *)
THEOREM PromptAlwaysSound == Spec => []PromptSound
<1>1. ASSUME SInv, pc = "prompt" PROVE tty = shellProcessGroup
  BY <1>1 DEF SInv, Terminal
<1>2. ASSUME SInv, pc = "prompt", NEW p \in Pids, st[p] # "none"
      PROVE  p \in strayed \/ \E i \in Background : p \in Members(Jobs[i])
  <2>1. Tracked = Background
    BY <1>2 DEF Tracked
  <2>2. QED
    BY <1>2, <2>1 DEF SInv, Accounted, InJob, InLine, LineStates
<1>3. SInv => PromptSound
  BY <1>1, <1>2 DEF PromptSound, NobodyForgotten, TerminalAtPrompt
<1>4. QED
  BY <1>3, ShellInductive, PTL
=============================================================================
