------------------------------- MODULE MCMlfq -------------------------------
(* Small instances of Mlfq. *)
EXTENDS Mlfq

(* Two processes that change their nice values, over several periods. *)
Charging == [slots |-> 2, period |-> 4, nices |-> {1, 2}, sleeps |-> {},
             calls |-> {"fork", "nice"}, maxcpu |-> 8]

(* Three processes of two nice values, which a lone nicer one outranks. *)
Sharing == [slots |-> 3, period |-> 2, nices |-> {1}, sleeps |-> {},
            calls |-> {"fork", "nice"}, maxcpu |-> 4]

(* Three processes that wait for each other, and two that wait for the     *)
(* disk, and are killed.                                                   *)
Blocking == [slots |-> 3, period |-> 1, nices |-> {}, sleeps |-> {},
             calls |-> {"fork", "wait", "kill"}, maxcpu |-> 1]

Reading == [slots |-> 2, period |-> 1, nices |-> {}, sleeps |-> {},
            calls |-> {"fork", "io", "kill"}, maxcpu |-> 1]

LiveInstances == {Charging, Sharing, Blocking, Reading}

(* Every call but the priorities. *)
AllCalls == {[slots |-> 3, period |-> 1, nices |-> {1}, sleeps |-> {-1, 2}, maxcpu |-> 1,
              calls |-> {"fork", "sleep", "io", "exit", "wait", "kill"}]}

(* One process that sleeps for no time, next to another. *)
SleepZero == {[slots |-> 2, period |-> 2, nices |-> {}, sleeps |-> {0},
               calls |-> {"fork", "sleep"}, maxcpu |-> 4]}

(* A sleeper that is killed, and processes that wait for the disk. *)
Sleepers == {[slots |-> 2, period |-> 2, nices |-> {}, sleeps |-> {2},
              calls |-> {"fork", "sleep", "kill", "io"}, maxcpu |-> 4]}
=============================================================================
