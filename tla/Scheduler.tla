------------------------------ MODULE Scheduler ------------------------------
(***************************************************************************)
(* The process table as the kernel's scheduling code sees it               *)
(* (src/code/Modules/scheduler.spl, Interrupt/timer.spl), and the three    *)
(* things every kernel module does to it: sleep on a resource, wake the    *)
(* sleepers of a resource, give up the processor.                          *)
(*                                                                         *)
(* The kernel runs with interrupts off (xsm/machine.c delivers them only   *)
(* after a USER-mode instruction), so another process runs only where the  *)
(* current one calls the scheduler.  A module that extends this one splits *)
(* its handlers at exactly those calls.                                    *)
(***************************************************************************)
EXTENDS Integers

CONSTANT NumProcs      \* MAX_PROC_NUM: entries of the process table

ASSUME NumProcsAssumption == NumProcs \in Nat /\ NumProcs >= 2

VARIABLES status,      \* [PROCESS_TABLE + 16*p + 4]
          waitingOn,   \* [PROCESS_TABLE + 16*p + 5]: what p sleeps on
          current      \* [SYSTEM_STATUS_TABLE + 1]

schedVars == <<status, waitingOn, current>>

Pid  == 0 .. NumProcs - 1
Idle == 0              \* runs when nothing else can; never sleeps, never exits
Root == 1              \* init, created by the boot module
None == -1             \* "no process" in every owner field of the kernel

Sleeping == {"WAIT_DISK", "WAIT_FILE", "WAIT_BUFFER", "WAIT_TERMINAL",
             "WAIT_PROCESS", "WAIT_SEMAPHORE", "WAIT_MEM"}
State    == {"READY", "RUNNING", "CREATED", "TERMINATED", "ALLOCATED"} \cup Sleeping

Runnable(s) == s \in {"READY", "CREATED"}

(***************************************************************************)
(* The search of the scheduler visits cur+1, cur+2, ... modulo the size of *)
(* the table and cur itself last; Turn is the place of p in that order.    *)
(***************************************************************************)
(* Mutant: the search starts at process 0 instead of after the current one. *)
TurnFromFirst(cur, p) == p

Turn(cur, p) == IF p > cur THEN p - cur ELSE p - cur + NumProcs

NextInTurn(st, cur, p) ==
    /\ Runnable(st[p])
    /\ \A q \in Pid : Runnable(st[q]) => Turn(cur, p) <= Turn(cur, q)

(* The current process calls the scheduler when the table reads st. *)
SwitchFrom(st) ==
    \E p \in Pid :
        /\ NextInTurn(st, current, p)
        /\ current' = p
        /\ status' = [st EXCEPT ![p] = "RUNNING"]

(* "while (busy) { state = why; wait id = id; call SCHEDULER }", one turn. *)
SleepOn(why, id) ==
    /\ waitingOn' = [waitingOn EXCEPT ![current] = id]
    /\ SwitchFrom([status EXCEPT ![current] = why])

(* The same where the code leaves the wait id alone (disk, terminal, memory). *)
Sleep(why) ==
    /\ SwitchFrom([status EXCEPT ![current] = why])
    /\ UNCHANGED waitingOn

(* The timer interrupt of the process that runs in user mode. *)
Preempt ==
    /\ SwitchFrom([status EXCEPT ![current] = "READY"])
    /\ UNCHANGED waitingOn

(***************************************************************************)
(* Every release wakes all the sleepers of the resource, the scheduler     *)
(* runs them one by one and each tests the resource again.  The loops      *)
(* start at process 1.                                                     *)
(***************************************************************************)
(* Mutant: the wait id is compared with the caller, as in resource_manager.spl 125. *)
WakeCaller(st, why, id) ==
    [p \in Pid |-> IF p >= 1 /\ st[p] = why /\ waitingOn[p] = current
                   THEN "READY" ELSE st[p]]

Wake(st, why, id) ==
    [p \in Pid |-> IF p >= 1 /\ st[p] = why /\ waitingOn[p] = id
                   THEN "READY" ELSE st[p]]

WakeAll(st, why) ==
    [p \in Pid |-> IF p >= 1 /\ st[p] = why THEN "READY" ELSE st[p]]

(* What boot.spl and os_startup.spl leave behind: the idle process runs,   *)
(* init is ready to be started and every other entry is free.              *)
BootProcessTable ==
    /\ status = [p \in Pid |-> IF p = Idle THEN "RUNNING"
                               ELSE IF p = Root THEN "CREATED" ELSE "TERMINATED"]
    /\ waitingOn = [p \in Pid |-> 0]
    /\ current = Idle

SchedTypeOK ==
    /\ status \in [Pid -> State]
    /\ waitingOn \in [Pid -> Int]
    /\ current \in Pid

(***************************************************************************)
(* Exactly the current process is marked RUNNING, and the idle process is  *)
(* always there to be picked, without which the scheduler's search would   *)
(* never end.                                                              *)
(***************************************************************************)
OneRunning ==
    /\ \A p \in Pid : status[p] = "RUNNING" <=> p = current
    /\ status[Idle] \in {"READY", "RUNNING"}
=============================================================================
