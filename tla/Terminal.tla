------------------------------- MODULE Terminal -------------------------------
(***************************************************************************)
(* The terminal: the read and write system calls on it                     *)
(* (device_manager.spl 51-94 from int_6.spl, int_7.spl and exhandler.spl), *)
(* its lock (resource_manager.spl 140-172), the console of the machine     *)
(* (machine_schedule_in and machine_post_execute of xsm/machine.c) and the *)
(* console interrupt (console.spl).                                        *)
(*                                                                         *)
(* The words typed are numbered 1, 2, ... in the order they are typed.     *)
(***************************************************************************)
EXTENDS Scheduler

CONSTANT MaxWords      \* bound: how many words are typed

ASSUME TerminalAssumption == MaxWords \in Nat

VARIABLES busy, termPid,   \* [TERMINAL_STATUS_TABLE], + 1
          console,         \* the console of the machine: an IN is under way
          typed,           \* how many words the user has typed
          input,           \* [PROCESS_TABLE + 16*p + 8]
          got,             \* the word the last read of p returned
          asked,           \* how many words were typed when p executed IN
          pc

termVars == <<busy, termPid, console, typed, input, got, asked>>
vars     == <<schedVars, termVars, pc>>

Places == {"user", "read", "reading", "write", "message"}
Word   == 0 .. MaxWords    \* 0: none yet

At(c)   == pc[current] = c
Goto(c) == pc' = [pc EXCEPT ![current] = c]

Init ==
    /\ BootProcessTable
    /\ busy = FALSE /\ termPid = None
    /\ console = FALSE
    /\ typed = 0
    /\ input = [p \in Pid |-> 0]
    /\ got = [p \in Pid |-> 0]
    /\ asked = [p \in Pid |-> 0]
    /\ pc = [p \in Pid |-> "user"]

-----------------------------------------------------------------------------
(* User mode.  An exception writes a message and then ends the process.    *)

Begin(c) ==
    /\ At("user") /\ current # Idle
    /\ Goto(c)
    /\ UNCHANGED <<schedVars, termVars>>

Fork(c) ==
    /\ At("user") /\ current # Idle
    /\ c >= 1 /\ status[c] = "TERMINATED"
    /\ \A d \in 1 .. c - 1 : status[d] # "TERMINATED"
    /\ status' = [status EXCEPT ![c] = "CREATED"]
    /\ UNCHANGED <<waitingOn, current, termVars, pc>>

Timer ==
    /\ At("user")
    /\ Preempt
    /\ UNCHANGED <<termVars, pc>>

-----------------------------------------------------------------------------
(* The lock of the terminal *)

WaitTerminal ==
    /\ busy
    /\ Sleep("WAIT_TERMINAL")
    /\ UNCHANGED <<termVars, pc>>

(* Mutant: nobody is woken. *)
ReleaseSilently(st) == st

(* Release wakes every process that waits for the terminal, or for a word. *)
ReleaseTerminal(st) == WakeAll(st, "WAIT_TERMINAL")

(* Mutant: the word is printed without asking for the terminal. *)
WriteUnasked ==
    /\ At("write")
    /\ termPid' = current
    /\ busy' = FALSE
    /\ status' = ReleaseTerminal(status)
    /\ Goto("user")
    /\ UNCHANGED <<waitingOn, current, console, typed, input, got, asked>>

(***************************************************************************)
(* A write, and the message of an exception: the terminal is taken, the    *)
(* word printed and the terminal given back at one go.                     *)
(***************************************************************************)
Write ==
    /\ At("write")
    /\ \/ WaitTerminal
       \/ /\ ~busy
          /\ termPid' = current
          /\ status' = ReleaseTerminal(status)
          /\ Goto("user")
          /\ UNCHANGED <<waitingOn, current, busy, console, typed, input, got, asked>>

Message ==
    /\ At("message")
    /\ \/ WaitTerminal
       \/ /\ ~busy
          /\ termPid' = current
          /\ SwitchFrom([p \in Pid |-> IF p = current THEN "TERMINATED"
                                       ELSE ReleaseTerminal(status)[p]])
          /\ Goto("user")
          /\ UNCHANGED <<waitingOn, busy, console, typed, input, got, asked>>

(* A read takes the terminal, starts the console, which ignores the        *)
(* request while it works on another, and sleeps until the interrupt.      *)
StartConsole(p) ==
    /\ console' = TRUE
    /\ asked' = [asked EXCEPT ![p] = typed]

Read ==
    /\ At("read")
    /\ \/ WaitTerminal
       \/ /\ ~busy
          /\ busy' = TRUE
          /\ termPid' = current
          /\ StartConsole(current)
          /\ Sleep("WAIT_TERMINAL")
          /\ Goto("reading")
          /\ UNCHANGED <<typed, input, got>>

(* Mutant: the word is taken from the port of the machine, not from the table. *)
ReadPort ==
    /\ At("reading")
    /\ got' = [got EXCEPT ![current] = typed]
    /\ Goto("user")
    /\ UNCHANGED <<schedVars, busy, termPid, console, typed, input, asked>>

ReadDone ==
    /\ At("reading")
    /\ got' = [got EXCEPT ![current] = input[current]]
    /\ Goto("user")
    /\ UNCHANGED <<schedVars, busy, termPid, console, typed, input, asked>>

(* Mutant: the terminal stays busy. *)
ConsoleInterruptBusy ==
    /\ At("user")
    /\ console
    /\ typed < MaxWords
    /\ typed' = typed + 1
    /\ input' = [input EXCEPT ![termPid] = typed']
    /\ console' = FALSE
    /\ status' = ReleaseTerminal(status)
    /\ UNCHANGED <<waitingOn, current, busy, termPid, got, asked, pc>>

(***************************************************************************)
(* The user types a word: the handler leaves it in the process table entry *)
(* of the process that has the terminal and releases the terminal for it.  *)
(***************************************************************************)
ConsoleInterrupt ==
    /\ At("user")
    /\ console
    /\ typed < MaxWords
    /\ typed' = typed + 1
    /\ input' = [input EXCEPT ![termPid] = typed']
    /\ console' = FALSE
    /\ busy' = FALSE
    /\ status' = ReleaseTerminal(status)
    /\ UNCHANGED <<waitingOn, current, termPid, got, asked, pc>>

Kernel == Write \/ Message \/ Read \/ ReadDone

Next ==
    \/ Kernel \/ Timer \/ ConsoleInterrupt
    \/ \E c \in {"read", "write", "message"} : Begin(c)
    \/ \E c \in Pid : Fork(c)

Spec == Init /\ [][Next]_vars

(***************************************************************************)
(* As for the disk: the machine counts the console down on the USER-mode   *)
(* instructions, and fgets waits for the user, who types as long as he is  *)
(* asked to.                                                               *)
(***************************************************************************)
FairSpec == Spec /\ WF_vars(Kernel) /\ SF_vars(Timer) /\ SF_vars(ConsoleInterrupt)

-----------------------------------------------------------------------------
(* Properties *)

TypeOK ==
    /\ SchedTypeOK
    /\ busy \in BOOLEAN /\ termPid \in Pid \cup {None}
    /\ console \in BOOLEAN
    /\ typed \in Word
    /\ input \in [Pid -> Word] /\ got \in [Pid -> Word] /\ asked \in [Pid -> Word]
    /\ pc \in [Pid -> Places]

(***************************************************************************)
(* A read returns the first word typed after it asked for one: it is not   *)
(* woken early by the release of a writer, and no other reader's word      *)
(* overwrites its own before it runs again.                                *)
(***************************************************************************)
ReadAnswered ==
    \A p \in Pid : pc[p] = "reading" /\ status[p] # "WAIT_TERMINAL" =>
        input[p] = asked[p] + 1

(* No word is returned to two processes. *)
WordReadOnce ==
    \A p, q \in Pid : got[p] = got[q] /\ got[p] # 0 => p = q

(***************************************************************************)
(* The terminal is busy exactly while the console works, for the process   *)
(* that sleeps in its read: so no IN is ever ignored, and whoever sleeps   *)
(* on the terminal is woken by the next word.                              *)
(***************************************************************************)
BusyInSync ==
    /\ busy <=> console
    /\ console => /\ termPid \in Pid
                  /\ pc[termPid] = "reading" /\ status[termPid] = "WAIT_TERMINAL"
    /\ \A p \in Pid : status[p] = "WAIT_TERMINAL" => console

(***************************************************************************)
(* The invariant that carries these from step to step: besides them, where *)
(* a process can be while it sleeps, which word the console owes to its    *)
(* reader, and that each word typed was left to one process only.          *)
(***************************************************************************)
SleepPlaces ==
    /\ pc[Idle] = "user"
    /\ \A p \in Pid :
        /\ status[p] \in {"READY", "RUNNING", "CREATED", "TERMINATED", "WAIT_TERMINAL"}
        /\ status[p] \in {"CREATED", "TERMINATED"} => pc[p] = "user"
        /\ status[p] = "WAIT_TERMINAL" => pc[p] # "user"
        /\ status[p] = "WAIT_TERMINAL" /\ pc[p] = "reading" =>
              p = termPid /\ asked[p] = typed

WordsApart ==
    /\ \A p \in Pid : input[p] <= typed /\ got[p] <= typed
    /\ \A p, q \in Pid : p # q =>
        /\ input[p] # 0 => input[p] # input[q]
        /\ got[p] # 0 => got[p] # got[q] /\ got[p] # input[q]

TerminalInv ==
    TypeOK /\ OneRunning /\ SleepPlaces /\ BusyInSync /\ ReadAnswered /\ WordsApart

(***************************************************************************)
(* Nobody waits for the terminal for ever while the user types.            *)
(***************************************************************************)
TerminalWakes ==
    \A p \in Pid : status[p] = "WAIT_TERMINAL" ~>
                       status[p] # "WAIT_TERMINAL" \/ typed = MaxWords

(***************************************************************************)
(* A process that has been given the terminal returns from its read: the   *)
(* word comes, the process is woken and the scheduler gets to it.          *)
(***************************************************************************)
ReadReturns ==
    \A p \in Pid : pc[p] = "reading" ~> pc[p] = "user" \/ typed = MaxWords

(***************************************************************************)
(* While the user types, nobody sleeps in the terminal's calls for ever    *)
(* (resource_manager.spl:141-171, device_manager.spl:71-94).               *)
(***************************************************************************)
NobodyStuck == TerminalWakes /\ ReadReturns
=============================================================================
