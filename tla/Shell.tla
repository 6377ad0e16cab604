------------------------------- MODULE Shell -------------------------------
(***************************************************************************)
(* Job control of the p3 shell (wsh.c): the processes it forks, their      *)
(* process groups, the terminal's foreground group, the table of jobs, and *)
(* the user's Ctrl-C and Ctrl-Z at any moment.                             *)
(*                                                                         *)
(* The shell's own group is 0.  A command is one process; its number is    *)
(* free again once it has been waited for and no process is in its group.  *)
(* The shell has no SIGCHLD handler: it looks for ended jobs at a prompt.  *)
(***************************************************************************)
EXTENDS Integers, Sequences, FiniteSets

CONSTANTS
  NPIDS,   \* process numbers: 1 .. NPIDS
  Lengths, \* commands in a line
  MaxJobs  \* bound: entries of Jobs ever used (numJobs never goes down)

ASSUME ShellAssumption ==
  /\ NPIDS \in Nat \ {0}
  /\ Lengths \subseteq 1 .. NPIDS
  /\ MaxJobs \in 0 .. 255

Pids == 1 .. NPIDS
shellProcessGroup == 0

VARIABLES
  st,       \* none, start, grouped (setpgid done), owner (tcsetpgrp done),
            \* run (execvp done), zombie (exited), killed (by a signal)
  grp,      \* process group of each child
  stopped,  \* is the child stopped?
  news,     \* is there a stop that waitpid has not reported?
  pending,  \* has a stopped child a SIGINT to come?
  role,     \* first of a line in the foreground (fg), in the background (bg), or other
  feeder,   \* the child whose output a child reads, 0 for none
  tty,      \* the foreground process group of the terminal
  pc,       \* where the shell is
  line,     \* the line it runs: processIDs, commands left to fork, waited for, background?, isStopped?
  Jobs,     \* the first numJobs entries
  jobIDs,   \* the index of each job ID, 0 for -1
  current,  \* the job ID fg works on, and its index
  strayed,  \* history: children that their parent's setpgid did not move
  early     \* history: has a Ctrl-C or Ctrl-Z come while a line was being started?

children == <<st, grp, role, stopped, news, pending, feeder>>
table == <<Jobs, jobIDs>>
history == <<strayed, early>>
vars == <<children, tty, pc, line, table, current, history>>

NoLine == [processIDs |-> <<>>, left |-> 0, waited |-> 0, background |-> FALSE, isStopped |-> FALSE]
NoJob == [pid |-> 0, group |-> FALSE, jobID |-> 0, isValid |-> FALSE,
          isBackground |-> FALSE, isStopped |-> FALSE]
NoCurrent == [id |-> 0, index |-> 0]
IDs == 1 .. MaxJobs

Init ==
  /\ st = [p \in Pids |-> "none"]
  /\ grp = [p \in Pids |-> shellProcessGroup]
  /\ stopped = [p \in Pids |-> FALSE]
  /\ news = [p \in Pids |-> FALSE]
  /\ pending = [p \in Pids |-> FALSE]
  /\ role = [p \in Pids |-> "other"]
  /\ feeder = [p \in Pids |-> 0]
  /\ tty = shellProcessGroup
  /\ pc = "update"
  /\ line = NoLine
  /\ Jobs = <<>>
  /\ jobIDs = [i \in IDs |-> 0]
  /\ current = NoCurrent
  /\ strayed = {} /\ early = FALSE

Ended(p) == st[p] \in {"zombie", "killed"}
Alive(p) == st[p] # "none" /\ ~Ended(p)
Group(g) == {p \in Pids : st[p] # "none" /\ grp[p] = g}
InExec(p) == st[p] = "run"

(* waitpid with WUNTRACED has something to tell about p. *)
Reportable(p) == Ended(p) \/ news[p]

(* What waitpid leaves of the children it reports. *)
Reap(R) ==
  /\ st' = [p \in Pids |-> IF p \in R /\ Ended(p) THEN "none" ELSE st[p]]
  /\ grp' = [p \in Pids |-> IF p \in R /\ Ended(p) THEN shellProcessGroup ELSE grp[p]]
  /\ news' = [p \in Pids |-> news[p] /\ p \notin R]
  /\ strayed' = {p \in strayed : p \notin R \/ ~Ended(p)}
  /\ UNCHANGED <<role, stopped, pending, feeder>>

(***************************************************************************)
(* The table of jobs.                                                      *)
(***************************************************************************)
findSmallestAvailableJobID ==
  CHOOSE i \in IDs : jobIDs[i] = 0 /\ \A j \in 1 .. i - 1 : jobIDs[j] # 0

storeJobInfo(pid, group, isStopped) ==
  /\ Jobs' = Append(Jobs, [pid |-> pid, group |-> group, jobID |-> findSmallestAvailableJobID,
                           isValid |-> TRUE, isBackground |-> TRUE, isStopped |-> isStopped])
  /\ jobIDs' = [jobIDs EXCEPT ![findSmallestAvailableJobID] = Len(Jobs) + 1]

(* The processes waitpid(Jobs[i].pid, ...) speaks of. *)
Members(j) == IF j.group THEN Group(j.pid) ELSE {j.pid} \cap {p \in Pids : st[p] # "none"}

(* updateBackgroundJobStatus: a job is over when waitpid has no process   *)
(* left for it; for a single command that has gone it is an error.        *)
Background == {i \in DOMAIN Jobs : Jobs[i].isValid /\ Jobs[i].isBackground}
Over(i) == \A p \in Members(Jobs[i]) : Ended(p)

\* Slip: a completed job loses its ID and keeps its entry.
UpdateJobsKeeping ==
  LET gone == {i \in Background : Over(i)} IN
  /\ pc = "update"
  /\ IF \E i \in Background : ~Jobs[i].group /\ Members(Jobs[i]) = {}
     THEN pc' = "failed" /\ UNCHANGED <<children, table, strayed>>
     ELSE /\ pc' = "prompt"
          /\ jobIDs' = [n \in IDs |-> IF \E i \in gone : Jobs[i].jobID = n THEN 0 ELSE jobIDs[n]]
          /\ Reap({p \in UNION {Members(Jobs[i]) : i \in Background} : Ended(p)})
          /\ UNCHANGED Jobs
  /\ UNCHANGED <<tty, line, current, early>>

UpdateJobs ==
  LET gone == {i \in Background : Over(i)} IN
  /\ pc = "update"
  /\ IF \E i \in Background : ~Jobs[i].group /\ Members(Jobs[i]) = {}
     THEN pc' = "failed" /\ UNCHANGED <<children, table, strayed>>
     ELSE /\ pc' = "prompt"
          /\ Jobs' = [i \in DOMAIN Jobs |-> IF i \in gone THEN NoJob ELSE Jobs[i]]
          /\ jobIDs' = [n \in IDs |-> IF \E i \in gone : Jobs[i].jobID = n THEN 0 ELSE jobIDs[n]]
          /\ Reap({p \in UNION {Members(Jobs[i]) : i \in Background} : Ended(p)})
  /\ UNCHANGED <<tty, line, current, early>>

(* A built-in without effect on jobs, or jobs itself, which updates first. *)
Builtin ==
  /\ pc = "prompt"
  /\ pc' = "update"
  /\ UNCHANGED <<children, tty, line, table, current, history>>

(* exit, the end of the input, or a built-in used wrongly. *)
Exit ==
  /\ pc = "prompt"
  /\ pc' = "exited"
  /\ UNCHANGED <<children, tty, line, table, current, history>>

(***************************************************************************)
(* execExternalCommand and execExternalJob: fork the children one by one;  *)
(* the parent of a pipeline moves each into the group of the first, which  *)
(* the kernel refuses once the child has called execvp.                    *)
(***************************************************************************)
StartLine(n, background) ==
  /\ pc = "prompt"
  /\ Len(Jobs) < MaxJobs
  /\ pc' = "fork"
  /\ line' = [NoLine EXCEPT !.left = n, !.background = background]
  /\ UNCHANGED <<children, tty, table, current, history>>

Free(p) == st[p] = "none" /\ Group(p) = {} /\ tty # p

Fork(p) ==
  /\ pc = "fork" /\ line.left > 0
  /\ Free(p) /\ \A q \in 1 .. p - 1 : ~Free(q)
  /\ st' = [st EXCEPT ![p] = "start"]
  /\ feeder' = [feeder EXCEPT ![p] =
                  IF line.processIDs = <<>> THEN 0
                  ELSE LET q == line.processIDs[Len(line.processIDs)] IN
                       IF Ended(q) THEN 0 ELSE q]
  /\ role' = [role EXCEPT ![p] = IF line.processIDs # <<>> THEN "other"
                                 ELSE IF line.background THEN "bg" ELSE "fg"]
  /\ line' = [line EXCEPT !.processIDs = Append(@, p), !.left = @ - 1]
  /\ pc' = IF line.left = 1 /\ line.processIDs = <<>> THEN "forked" ELSE "setpgid"
  /\ UNCHANGED <<grp, stopped, news, pending, tty, table, current, history>>

ParentSetpgid ==
  LET p == line.processIDs[Len(line.processIDs)]
      first == line.processIDs[1]
  IN
  /\ pc = "setpgid"
  /\ IF st[p] \in {"start", "grouped", "owner"}
     THEN grp' = [grp EXCEPT ![p] = first] /\ UNCHANGED strayed
     ELSE /\ strayed' = IF grp[p] = first THEN strayed ELSE strayed \cup {p}
          /\ UNCHANGED grp
  /\ pc' = IF line.left = 0 THEN "forked" ELSE "fork"
  /\ UNCHANGED <<st, role, stopped, news, pending, feeder, tty, line, table, current, early>>

\* Slip: a pipeline in the background is stored with the number of its first process.
ForkedAsSingle ==
  /\ pc = "forked"
  /\ IF line.background
     THEN storeJobInfo(line.processIDs[1], FALSE, FALSE) /\ line' = NoLine /\ pc' = "update"
     ELSE pc' = "wait" /\ UNCHANGED <<line, table>>
  /\ UNCHANGED <<children, tty, current, history>>

Forked ==
  /\ pc = "forked"
  /\ IF line.background
     THEN /\ storeJobInfo(line.processIDs[1], Len(line.processIDs) > 1, FALSE)
          /\ line' = NoLine
          /\ pc' = "update"
     ELSE pc' = "wait" /\ UNCHANGED <<line, table>>
  /\ UNCHANGED <<children, tty, current, history>>

(* The commands of a line in the foreground are waited for in their order. *)
WaitLine ==
  /\ pc = "wait" /\ line.waited < Len(line.processIDs)
  /\ LET p == line.processIDs[line.waited + 1] IN
     IF st[p] = "none"
     THEN pc' = "failed" /\ UNCHANGED <<children, line, strayed>>
     ELSE /\ Reportable(p)
          /\ Reap({p})
          /\ line' = [line EXCEPT !.waited = @ + 1, !.isStopped = @ \/ ~Ended(p)]
          /\ UNCHANGED pc
  /\ UNCHANGED <<tty, table, current, early>>

LineDone ==
  /\ pc = "wait" /\ line.waited = Len(line.processIDs)
  /\ IF line.isStopped
     THEN storeJobInfo(line.processIDs[1], Len(line.processIDs) > 1, TRUE)
     ELSE UNCHANGED table
  /\ tty' = shellProcessGroup
  /\ line' = NoLine
  /\ pc' = "update"
  /\ UNCHANGED <<children, current, history>>

(***************************************************************************)
(* fg and bg of a job that has an ID.  A stopped job is continued first,   *)
(* and a SIGINT that came while it was stopped ends it then.               *)
(***************************************************************************)
Continue(S) ==
  /\ st' = [p \in Pids |-> IF p \in S /\ pending[p] THEN "killed" ELSE st[p]]
  /\ stopped' = [p \in Pids |-> stopped[p] /\ p \notin S]
  /\ news' = [p \in Pids |-> news[p] /\ p \notin S]
  /\ pending' = [p \in Pids |-> pending[p] /\ p \notin S]
  /\ feeder' = [p \in Pids |-> IF feeder[p] \in S /\ pending[feeder[p]] THEN 0 ELSE feeder[p]]
  /\ UNCHANGED <<grp, role>>

\* Slip: a stopped job is not continued.
ResumeNever(j) == UNCHANGED children

Resume(j) == IF j.isStopped THEN Continue({p \in Members(j) : ~Ended(p)}) ELSE UNCHANGED children

Fg(n) ==
  /\ pc = "prompt" /\ jobIDs[n] # 0
  /\ Resume(Jobs[jobIDs[n]])
  /\ Jobs' = [Jobs EXCEPT ![jobIDs[n]].isBackground = FALSE, ![jobIDs[n]].isStopped = FALSE]
  /\ jobIDs' = [jobIDs EXCEPT ![n] = 0]
  /\ current' = [id |-> n, index |-> jobIDs[n]]
  /\ pc' = "fg"
  /\ UNCHANGED <<tty, line, history>>

(* tcsetpgrp fails for a group without processes. *)
FgTerminal ==
  /\ pc = "fg"
  /\ tty' = IF Group(Jobs[current.index].pid) = {} THEN tty ELSE Jobs[current.index].pid
  /\ pc' = "fgwait"
  /\ UNCHANGED <<children, line, table, current, history>>

\* Slip: a job that stopped in the foreground is not put back into the background.
FgStoppedForeground(i) ==
  /\ Jobs' = [Jobs EXCEPT ![i].isStopped = TRUE]
  /\ jobIDs' = [jobIDs EXCEPT ![current.id] = i]

FgStopped(i) ==
  /\ Jobs' = [Jobs EXCEPT ![i].isStopped = TRUE, ![i].isBackground = TRUE]
  /\ jobIDs' = [jobIDs EXCEPT ![current.id] = i]

FgReturn ==
  /\ pc' = "update"
  /\ tty' = shellProcessGroup
  /\ current' = NoCurrent

(* A single command ended by a signal keeps its entry, out of reach. *)
FgWaitSingle ==
  LET i == current.index
      p == Jobs[i].pid IN
  /\ pc = "fgwait" /\ ~Jobs[i].group
  /\ IF st[p] = "none"
     THEN pc' = "failed" /\ UNCHANGED <<children, strayed, tty, table, current>>
     ELSE /\ Reportable(p)
          /\ Reap({p})
          /\ \/ ~Ended(p) /\ FgStopped(i)
             \/ st[p] = "killed" /\ UNCHANGED table
             \/ st[p] = "zombie" /\ Jobs' = [Jobs EXCEPT ![i] = NoJob] /\ UNCHANGED jobIDs
          /\ FgReturn
  /\ UNCHANGED <<line, early>>

FgWaitGroup ==
  LET i == current.index
      M == Members(Jobs[i]) IN
  /\ pc = "fgwait" /\ Jobs[i].group
  /\ \/ /\ M = {}
        /\ Jobs' = [Jobs EXCEPT ![i] = NoJob]
        /\ FgReturn
        /\ UNCHANGED <<children, strayed, jobIDs>>
     \/ \E p \in M :
          /\ Reportable(p)
          /\ Reap({p})
          /\ IF Ended(p) THEN UNCHANGED <<table, tty, pc, current>> ELSE FgStopped(i) /\ FgReturn
  /\ UNCHANGED <<line, early>>

Bg(n) ==
  /\ pc = "prompt" /\ jobIDs[n] # 0
  /\ Resume(Jobs[jobIDs[n]])
  /\ Jobs' = [Jobs EXCEPT ![jobIDs[n]].isBackground = TRUE, ![jobIDs[n]].isStopped = FALSE]
  /\ pc' = "update"
  /\ UNCHANGED <<tty, line, jobIDs, current, history>>

(***************************************************************************)
(* A child on its way to its program.  Only the first of a line calls      *)
(* setpgid itself, and in the foreground takes the terminal.               *)
(***************************************************************************)
Become(p, from, to) ==
  /\ st[p] = from /\ ~stopped[p]
  /\ st' = [st EXCEPT ![p] = to]
  /\ UNCHANGED <<role, stopped, news, pending, pc, line, table, current, history>>

Setpgid(p) ==
  /\ role[p] # "other"
  /\ Become(p, "start", "grouped")
  /\ grp' = [grp EXCEPT ![p] = p]
  /\ UNCHANGED <<feeder, tty>>

Tcsetpgrp(p) ==
  /\ role[p] = "fg"
  /\ Become(p, "grouped", "owner")
  /\ tty' = p
  /\ UNCHANGED <<grp, feeder>>

Execvp(p) ==
  /\ Become(p, CASE role[p] = "fg" -> "owner" [] role[p] = "bg" -> "grouped" [] OTHER -> "start", "run")
  /\ UNCHANGED <<grp, feeder, tty>>

(* A program ends by itself once it has read its input to the end. *)
Finish(p) ==
  /\ feeder[p] = 0
  /\ Become(p, "run", "zombie")
  /\ feeder' = [q \in Pids |-> IF feeder[q] = p THEN 0 ELSE feeder[q]]
  /\ UNCHANGED <<grp, tty>>

(***************************************************************************)
(* Signals from the terminal go to its foreground group.  A child that has *)
(* not called execvp yet runs the shell's handlers: they pass the signal   *)
(* on to the shell's group, where only a program can be hurt, and give the *)
(* terminal to the shell.                                                  *)
(***************************************************************************)
Handlers == {p \in Group(tty) : Alive(p) /\ ~InExec(p) /\ ~stopped[p] /\ grp[p] # shellProcessGroup}
Struck == {p \in Group(tty) \cup IF Handlers = {} THEN {} ELSE Group(shellProcessGroup) : InExec(p)}

TerminalSignal ==
  /\ pc \notin {"exited", "failed"}
  /\ tty' = IF Handlers = {} THEN tty ELSE shellProcessGroup
  /\ early' = (early \/ pc \in {"fork", "setpgid"} \/ \E p \in Pids : Alive(p) /\ ~InExec(p))
  /\ UNCHANGED <<grp, role, pc, line, table, current, strayed>>

CtrlC ==
  LET K == {p \in Struck : ~stopped[p]} IN
  /\ TerminalSignal
  /\ st' = [p \in Pids |-> IF p \in K THEN "killed" ELSE st[p]]
  /\ feeder' = [p \in Pids |-> IF feeder[p] \in K THEN 0 ELSE feeder[p]]
  /\ pending' = [p \in Pids |-> pending[p] \/ (p \in Struck /\ stopped[p])]
  /\ UNCHANGED <<stopped, news>>

Stop(S) ==
  /\ stopped' = [p \in Pids |-> stopped[p] \/ p \in S]
  /\ news' = [p \in Pids |-> news[p] \/ (p \in S /\ ~stopped[p])]
  /\ UNCHANGED <<st, feeder, pending>>

CtrlZ == TerminalSignal /\ Stop(Struck)

(* A program that reads the terminal while another group owns it. *)
Sigttin(p) ==
  /\ InExec(p) /\ ~stopped[p] /\ role[p] # "other"
  /\ grp[p] # tty
  /\ Stop({q \in Group(grp[p]) : Alive(q)})
  /\ UNCHANGED <<grp, role, tty, pc, line, table, current, history>>

ShellStep ==
  \/ UpdateJobs \/ ParentSetpgid \/ Forked \/ WaitLine \/ LineDone
  \/ FgTerminal \/ FgWaitSingle \/ FgWaitGroup
  \/ \E p \in Pids : Fork(p)

User ==
  \/ Builtin \/ Exit \/ CtrlC \/ CtrlZ
  \/ \E n \in Lengths, background \in BOOLEAN : StartLine(n, background)
  \/ \E n \in IDs : Fg(n) \/ Bg(n)

Child(p) == Setpgid(p) \/ Tcsetpgrp(p) \/ Execvp(p) \/ Finish(p)

Next == ShellStep \/ User \/ \E p \in Pids : Child(p) \/ Sigttin(p)

(* The shell and the children run on; nobody has to type. *)
Spec == Init /\ [][Next]_vars /\ WF_vars(ShellStep) /\ \A p \in Pids : WF_vars(Child(p))

-----------------------------------------------------------------------------
TypeOK ==
  /\ st \in [Pids -> {"none", "start", "grouped", "owner", "run", "zombie", "killed"}]
  /\ grp \in [Pids -> {shellProcessGroup} \cup Pids]
  /\ feeder \in [Pids -> {0} \cup Pids]
  /\ tty \in {shellProcessGroup} \cup Pids
  /\ pc \in {"update", "prompt", "fork", "setpgid", "forked", "wait", "fg", "fgwait", "exited", "failed"}
  /\ Len(Jobs) <= MaxJobs
  /\ jobIDs \in [IDs -> 0 .. MaxJobs]
  /\ current.id \in {0} \cup IDs
  /\ \A p \in Pids : ~Alive(p) => ~stopped[p] /\ ~pending[p]

(* The two tables tell the same story: a job ID leads to a background job  *)
(* with that ID, and every background job has one (storeJobInfo, fg, bg).  *)
TablesAgree ==
  /\ \A n \in IDs : jobIDs[n] # 0 =>
       jobIDs[n] \in Background /\ Jobs[jobIDs[n]].jobID = n
  /\ \A i \in Background : jobIDs[Jobs[i].jobID] = i

(* Nobody waits for a child twice: the exits behind perror("waitpid") are  *)
(* never taken, whichever of the waits reaps a child.                      *)
NeverWaitsInVain == pc # "failed"

(* At the prompt the user can reach every child: it is in the process (or  *)
(* the group) of a job in the table, or setpgid came too late for it.      *)
NobodyForgotten ==
  pc = "prompt" =>
    \A p \in Pids : st[p] # "none" => p \in strayed \/ \E i \in Background : p \in Members(Jobs[i])

(* At the prompt the terminal is the shell's. *)
TerminalAtPrompt == pc = "prompt" => tty = shellProcessGroup

(* The comment in execExternalJob: "Set Process Group ID to Process ID of  *)
(* first child process for all processes of the pipeline".                 *)
OneGroup == strayed = {}

(* A line in the foreground, or fg, comes back to the prompt when its      *)
(* commands end or stop, unless a signal or a setpgid came at the wrong    *)
(* moment of a child's start.                                              *)
ShellReturns ==
  pc \in {"wait", "fgwait"} ~> (pc \notin {"wait", "fgwait"} \/ strayed # {} \/ early)

(* Whatever fork, fg, bg, jobs and the signals do, the job table and the   *)
(* table of job IDs are the two halves of one table.                       *)
TablesSound == TypeOK /\ TablesAgree

(* When the shell prompts, the terminal is its own and no child is out of the *)
(* user's reach.                                                           *)
PromptSound == NobodyForgotten /\ TerminalAtPrompt

=============================================================================
