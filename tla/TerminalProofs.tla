---------------------------- MODULE TerminalProofs ----------------------------
(***************************************************************************)
(* Safety of the terminal for every number of processes.                   *)
(***************************************************************************)
EXTENDS Terminal, TLAPS

(* What a call of the scheduler does to the process table. *)
LEMMA SwitchEffect ==
    ASSUME NEW st \in [Pid -> State], SwitchFrom(st)
    PROVE  /\ current' \in Pid /\ Runnable(st[current'])
           /\ status' = [st EXCEPT ![current'] = "RUNNING"]
           /\ status' \in [Pid -> State]
BY DEF SwitchFrom, NextInTurn, State

(* Waking leaves every process ready or as it was. *)
LEMMA WakeEffect ==
    ASSUME NEW st \in [Pid -> State], NEW why \in Sleeping, NEW id
    PROVE  /\ Wake(st, why, id) \in [Pid -> State]
           /\ WakeAll(st, why) \in [Pid -> State]
BY DEF Wake, WakeAll, State

(* A process that goes to sleep hands the processor to another one. *)
LEMMA SleepEffect ==
    ASSUME SchedTypeOK, NEW why \in Sleeping,
           SwitchFrom([status EXCEPT ![current] = why])
    PROVE  /\ status' \in [Pid -> State]
           /\ current' \in Pid /\ current' # current
           /\ Runnable(status[current'])
           /\ status'[current] = why /\ status'[current'] = "RUNNING"
           /\ \A p \in Pid : p # current /\ p # current' => status'[p] = status[p]
<1> DEFINE st == [status EXCEPT ![current] = why]
<1>1. st \in [Pid -> State] /\ ~Runnable(st[current])
  BY DEF SchedTypeOK, State, Sleeping, Runnable
<1>2. /\ current' \in Pid /\ Runnable(st[current'])
      /\ status' = [st EXCEPT ![current'] = "RUNNING"]
      /\ status' \in [Pid -> State]
  BY <1>1, SwitchEffect
<1>3. current' # current
  BY <1>1, <1>2
<1> QED BY <1>1, <1>2, <1>3 DEF SchedTypeOK

(* The table that boot leaves has one running process. *)
LEMMA BootEffect ==
    ASSUME BootProcessTable
    PROVE  SchedTypeOK /\ OneRunning
BY NumProcsAssumption
   DEF SchedTypeOK, OneRunning, BootProcessTable, State, Sleeping, Pid, Idle, Root

LEMMA InitTerminal == Init => TerminalInv
<1> SUFFICES ASSUME Init PROVE TerminalInv
  OBVIOUS
<1>1. SchedTypeOK /\ OneRunning
  BY BootEffect DEF Init
<1>2. /\ \A p \in Pid : /\ status[p] \in {"RUNNING", "CREATED", "TERMINATED"}
                        /\ input[p] = 0 /\ got[p] = 0 /\ pc[p] = "user"
      /\ Idle \in Pid
  BY NumProcsAssumption DEF Init, BootProcessTable, Idle, Pid
<1>3. TypeOK
  <2>1. 0 \in Word
    BY TerminalAssumption DEF Word
  <2>2. pc \in [Pid -> Places]
    BY DEF Init, Places
  <2>3. /\ input \in [Pid -> Word] /\ got \in [Pid -> Word] /\ asked \in [Pid -> Word]
        /\ typed \in Word /\ busy \in BOOLEAN /\ console \in BOOLEAN /\ termPid = None
    BY <2>1 DEF Init
  <2> QED BY <1>1, <2>2, <2>3 DEF TypeOK
<1>4. SleepPlaces /\ ReadAnswered
  BY <1>2 DEF SleepPlaces, ReadAnswered
<1>5. BusyInSync
  BY <1>2 DEF BusyInSync, Init
<1>6. WordsApart
  BY <1>2 DEF WordsApart, Init
<1> QED BY <1>1, <1>3, <1>4, <1>5, <1>6 DEF TerminalInv

(* The types hold in every step. *)
LEMMA NextTypeOK ==
    ASSUME TypeOK, Next
    PROVE  TypeOK'
<1> USE DEF TypeOK, SchedTypeOK, Goto, termVars, Places
<1>1. ASSUME NEW c \in {"read", "write", "message"}, Begin(c) PROVE TypeOK'
  BY <1>1 DEF Begin, schedVars
<1>2. ASSUME NEW c \in Pid, Fork(c) PROVE TypeOK'
  BY <1>2 DEF Fork, State
<1>3. CASE Timer
  <2>1. [status EXCEPT ![current] = "READY"] \in [Pid -> State]
    BY DEF State
  <2> QED BY <1>3, <2>1, SwitchEffect DEF Timer, Preempt
<1>4. [status EXCEPT ![current] = "WAIT_TERMINAL"] \in [Pid -> State]
  BY DEF State, Sleeping
<1>5. ReleaseTerminal(status) \in [Pid -> State]
  BY WakeEffect DEF ReleaseTerminal, Sleeping
<1>6. CASE WaitTerminal
  BY <1>4, <1>6, SwitchEffect DEF WaitTerminal, Sleep
<1>7. CASE Write /\ ~WaitTerminal
  BY <1>5, <1>7 DEF Write
<1>8. CASE Message /\ ~WaitTerminal
  <2> DEFINE st == [p \in Pid |-> IF p = current THEN "TERMINATED"
                                  ELSE ReleaseTerminal(status)[p]]
  <2>1. st \in [Pid -> State]
    BY <1>5 DEF State
  <2>2. SwitchFrom(st)
    BY <1>8 DEF Message
  <2>3. status' \in [Pid -> State] /\ current' \in Pid
    BY <2>1, <2>2, SwitchEffect
  <2>4. /\ termPid' = current /\ pc' = [pc EXCEPT ![current] = "user"]
        /\ UNCHANGED <<waitingOn, busy, console, typed, input, got, asked>>
    BY <1>8 DEF Message
  <2> HIDE DEF st
  <2> QED BY <2>3, <2>4
<1>9. CASE Read /\ ~WaitTerminal
  <2>1. /\ SwitchFrom([status EXCEPT ![current] = "WAIT_TERMINAL"]) /\ UNCHANGED waitingOn
        /\ busy' = TRUE /\ termPid' = current /\ console' = TRUE
        /\ asked' = [asked EXCEPT ![current] = typed]
        /\ pc' = [pc EXCEPT ![current] = "reading"]
        /\ UNCHANGED <<typed, input, got>>
    BY <1>9 DEF Read, Sleep, StartConsole
  <2>2. status' \in [Pid -> State] /\ current' \in Pid
    BY <1>4, <2>1, SwitchEffect
  <2> QED BY <2>1, <2>2
<1>10. CASE ReadDone
  BY <1>10 DEF ReadDone, schedVars
<1>11. CASE ConsoleInterrupt
  <2>1. typed' \in Word
    BY <1>11, TerminalAssumption DEF ConsoleInterrupt, Word
  <2> QED BY <1>5, <1>11, <2>1 DEF ConsoleInterrupt
<1> QED BY <1>1, <1>2, <1>3, <1>6, <1>7, <1>8, <1>9, <1>10, <1>11 DEF Next, Kernel, Write, Message, Read

(* No step but the interrupt and the end of a read touches the words. *)
LEMMA SameWords ==
    ASSUME WordsApart, UNCHANGED <<typed, input, got>>
    PROVE  WordsApart'
BY DEF WordsApart

(***************************************************************************)
(* The steps that move the processor, or a process between user mode and   *)
(* the wait for the terminal, leave the terminal itself alone.             *)
(***************************************************************************)
LEMMA MoveTerminal ==
    ASSUME TerminalInv, TypeOK',
           \/ Timer
           \/ WaitTerminal /\ pc[current] \in {"read", "write", "message"}
           \/ \E c \in {"read", "write", "message"} : Begin(c)
           \/ \E c \in Pid : Fork(c)
    PROVE  TerminalInv'
<1> USE DEF TerminalInv
<1>1. UNCHANGED <<busy, termPid, console, typed, input, got, asked>>
  BY DEF Timer, WaitTerminal, Begin, Fork, termVars
<1>2. WordsApart'
  BY <1>1, SameWords
<1>3. current \in Pid /\ Idle \in Pid
  BY NumProcsAssumption DEF TypeOK, SchedTypeOK, Idle, Pid
<1>4. CASE Timer
  <2> DEFINE st == [status EXCEPT ![current] = "READY"]
  <2>1. st \in [Pid -> State]
    BY DEF TypeOK, SchedTypeOK, State
  <2>2. /\ current' \in Pid /\ Runnable(st[current'])
        /\ status' = [st EXCEPT ![current'] = "RUNNING"]
    BY <1>4, <2>1, SwitchEffect DEF Timer, Preempt
  <2>3. pc' = pc /\ pc[current] = "user"
    BY <1>4 DEF Timer, At
  <2>8. /\ status \in [Pid -> State] /\ status[current] = "RUNNING"
        /\ st[current] = "READY" /\ \A p \in Pid : p # current => st[p] = status[p]
    BY <1>3 DEF OneRunning, TypeOK, SchedTypeOK
  <2> HIDE DEF st
  <2>4. \A p \in Pid : \/ status'[p] = status[p] /\ p # current /\ p # current'
                       \/ p = current /\ p # current' /\ status'[p] = "READY"
                       \/ p = current' /\ status'[p] = "RUNNING"
                            /\ status[p] \in {"READY", "CREATED", "RUNNING"}
    BY <1>3, <2>1, <2>2, <2>8 DEF Runnable
  <2>5. OneRunning'
    <3>1. Idle = current \/ Idle # current
      OBVIOUS
    <3> QED BY <1>3, <2>2, <2>4 DEF OneRunning
  <2>6. SleepPlaces'
    BY <1>1, <2>3, <2>4 DEF SleepPlaces
  <2>7. BusyInSync' /\ ReadAnswered'
    BY <1>1, <2>3, <2>4 DEF BusyInSync, ReadAnswered, SleepPlaces, TypeOK
  <2> QED BY <1>2, <2>5, <2>6, <2>7
<1>5. CASE WaitTerminal /\ pc[current] \in {"read", "write", "message"}
  <2>1. /\ current' \in Pid /\ current' # current
        /\ Runnable(status[current'])
        /\ status'[current] = "WAIT_TERMINAL" /\ status'[current'] = "RUNNING"
        /\ \A p \in Pid : p # current /\ p # current' => status'[p] = status[p]
    BY <1>5, SleepEffect DEF WaitTerminal, Sleep, TypeOK, Sleeping
  <2>2. pc' = pc /\ busy
    BY <1>5 DEF WaitTerminal
  <2>3. OneRunning'
    BY <1>3, <1>5, <2>1 DEF OneRunning, SleepPlaces, Runnable
  <2>4. SleepPlaces'
    BY <1>1, <1>5, <2>1, <2>2 DEF SleepPlaces, Runnable
  <2>5. BusyInSync'
    BY <1>1, <1>3, <1>5, <2>1, <2>2 DEF BusyInSync, OneRunning, Runnable, TypeOK
  <2>6. ReadAnswered'
    BY <1>1, <1>5, <2>1, <2>2 DEF ReadAnswered, Runnable
  <2> QED BY <1>2, <2>3, <2>4, <2>5, <2>6
<1>6. ASSUME NEW c \in {"read", "write", "message"}, Begin(c) PROVE TerminalInv'
  <2>1. /\ UNCHANGED <<status, waitingOn, current>> /\ current # Idle
        /\ pc' = [pc EXCEPT ![current] = c] /\ pc \in [Pid -> Places]
        /\ status[current] = "RUNNING" /\ pc[current] = "user"
    BY <1>3, <1>6 DEF Begin, At, Goto, schedVars, OneRunning, TypeOK
  <2>2. OneRunning' /\ SleepPlaces'
    BY <1>1, <1>3, <2>1 DEF OneRunning, SleepPlaces
  <2>3. BusyInSync' /\ ReadAnswered'
    BY <1>1, <1>3, <2>1 DEF BusyInSync, ReadAnswered
  <2> QED BY <1>2, <2>2, <2>3
<1>7. ASSUME NEW c \in Pid, Fork(c) PROVE TerminalInv'
  <2>1. /\ status' = [status EXCEPT ![c] = "CREATED"] /\ status[c] = "TERMINATED" /\ c >= 1
        /\ status \in [Pid -> State]
        /\ UNCHANGED <<current, pc>>
    BY <1>7 DEF Fork, TypeOK, SchedTypeOK
  <2>2. OneRunning' /\ SleepPlaces'
    BY <1>1, <1>3, <2>1 DEF OneRunning, SleepPlaces, Idle
  <2>3. BusyInSync' /\ ReadAnswered'
    BY <1>1, <1>3, <2>1 DEF BusyInSync, ReadAnswered, SleepPlaces
  <2> QED BY <1>2, <2>2, <2>3
<1> QED BY <1>4, <1>5, <1>6, <1>7

(* With the terminal free nobody sleeps on it, and its release changes nothing. *)
LEMMA FreeTerminal ==
    ASSUME TerminalInv, ~busy
    PROVE  /\ \A p \in Pid : status[p] # "WAIT_TERMINAL"
           /\ ReleaseTerminal(status) = status
<1>1. \A p \in Pid : status[p] # "WAIT_TERMINAL"
  BY DEF TerminalInv, BusyInSync
<1>2. status \in [Pid -> State]
  BY DEF TerminalInv, TypeOK, SchedTypeOK
<1> QED BY <1>1, <1>2 DEF ReleaseTerminal, WakeAll

(* A write finds the terminal free and leaves it free. *)
LEMMA WriteTerminal ==
    ASSUME TerminalInv, TypeOK', Write, ~WaitTerminal
    PROVE  TerminalInv'
<1> USE DEF TerminalInv
<1>1. /\ ~busy /\ pc[current] = "write" /\ pc' = [pc EXCEPT ![current] = "user"]
      /\ status' = ReleaseTerminal(status)
      /\ UNCHANGED <<waitingOn, current, busy, console, typed, input, got, asked>>
  BY DEF Write, At, Goto
<1>2. status' = status /\ \A p \in Pid : status[p] # "WAIT_TERMINAL"
  BY <1>1, FreeTerminal
<1>3. /\ current \in Pid /\ Idle \in Pid /\ pc \in [Pid -> Places]
      /\ status[current] = "RUNNING"
  BY NumProcsAssumption DEF TypeOK, SchedTypeOK, Idle, Pid, OneRunning
<1>4. OneRunning' /\ SleepPlaces'
  BY <1>1, <1>2, <1>3 DEF OneRunning, SleepPlaces
<1>5. BusyInSync' /\ ReadAnswered'
  BY <1>1, <1>2, <1>3 DEF BusyInSync, ReadAnswered
<1>6. WordsApart'
  BY <1>1, SameWords
<1> QED BY <1>4, <1>5, <1>6

(* So does the message of an exception, whose process then ends. *)
LEMMA MessageTerminal ==
    ASSUME TerminalInv, TypeOK', Message, ~WaitTerminal
    PROVE  TerminalInv'
<1> USE DEF TerminalInv
<1> DEFINE st == [p \in Pid |-> IF p = current THEN "TERMINATED"
                                ELSE ReleaseTerminal(status)[p]]
<1>1. /\ ~busy /\ pc[current] = "message" /\ pc' = [pc EXCEPT ![current] = "user"]
      /\ SwitchFrom(st)
      /\ UNCHANGED <<waitingOn, busy, console, typed, input, got, asked>>
  BY DEF Message, At, Goto
<1>2. /\ current \in Pid /\ Idle \in Pid /\ pc \in [Pid -> Places]
      /\ status \in [Pid -> State]
  BY NumProcsAssumption DEF TypeOK, SchedTypeOK, Idle, Pid
<1>3. /\ ReleaseTerminal(status) = status
      /\ \A p \in Pid : status[p] # "WAIT_TERMINAL"
  BY <1>1, FreeTerminal
<1>4. /\ st \in [Pid -> State] /\ st[current] = "TERMINATED"
      /\ \A p \in Pid : p # current => st[p] = status[p]
  BY <1>2, <1>3 DEF State
<1> HIDE DEF st
<1>5. /\ current' \in Pid /\ Runnable(st[current'])
      /\ status' = [st EXCEPT ![current'] = "RUNNING"]
  BY <1>1, <1>4, SwitchEffect
<1>6. /\ current' # current /\ current # Idle
      /\ status'[current] = "TERMINATED" /\ status'[current'] = "RUNNING"
      /\ Runnable(status[current'])
      /\ \A p \in Pid : p # current /\ p # current' => status'[p] = status[p]
  BY <1>1, <1>2, <1>4, <1>5 DEF SleepPlaces, Runnable
<1>7. OneRunning'
  BY <1>2, <1>5, <1>6 DEF OneRunning
<1>8. SleepPlaces'
  BY <1>1, <1>2, <1>3, <1>5, <1>6 DEF SleepPlaces, Runnable
<1>9. BusyInSync' /\ ReadAnswered'
  BY <1>1, <1>2, <1>3, <1>5, <1>6 DEF BusyInSync, ReadAnswered
<1>10. WordsApart'
  BY <1>1, SameWords
<1> QED BY <1>7, <1>8, <1>9, <1>10

(* A read takes the free terminal and is the only process that sleeps on it. *)
LEMMA ReadTerminal ==
    ASSUME TerminalInv, TypeOK', Read, ~WaitTerminal
    PROVE  TerminalInv'
<1> USE DEF TerminalInv
<1>1. /\ ~busy /\ pc[current] = "read" /\ pc' = [pc EXCEPT ![current] = "reading"]
      /\ busy' = TRUE /\ termPid' = current /\ console' = TRUE
      /\ asked' = [asked EXCEPT ![current] = typed]
      /\ SwitchFrom([status EXCEPT ![current] = "WAIT_TERMINAL"])
      /\ UNCHANGED <<waitingOn, typed, input, got>>
  BY DEF Read, At, Goto, Sleep, StartConsole
<1>2. /\ current \in Pid /\ Idle \in Pid /\ pc \in [Pid -> Places]
      /\ asked \in [Pid -> Word]
      /\ \A p \in Pid : status[p] # "WAIT_TERMINAL"
  BY <1>1, FreeTerminal, NumProcsAssumption DEF TypeOK, SchedTypeOK, Idle, Pid
<1>3. /\ current' \in Pid /\ current' # current /\ Runnable(status[current'])
      /\ status'[current] = "WAIT_TERMINAL" /\ status'[current'] = "RUNNING"
      /\ \A p \in Pid : p # current /\ p # current' => status'[p] = status[p]
  BY <1>1, SleepEffect DEF TypeOK, Sleeping
<1>4. current # Idle
  BY <1>1 DEF SleepPlaces
<1>5. OneRunning'
  BY <1>2, <1>3, <1>4 DEF OneRunning
<1>6. SleepPlaces'
  BY <1>1, <1>2, <1>3, <1>4 DEF SleepPlaces, Runnable
<1>7. BusyInSync' /\ ReadAnswered'
  BY <1>1, <1>2, <1>3 DEF BusyInSync, ReadAnswered
<1>8. WordsApart'
  BY <1>1, SameWords
<1> QED BY <1>5, <1>6, <1>7, <1>8

(* The word that a read returns has gone to no one else. *)
LEMMA ReadDoneTerminal ==
    ASSUME TerminalInv, TypeOK', ReadDone
    PROVE  TerminalInv'
<1> USE DEF TerminalInv
<1>1. /\ pc[current] = "reading" /\ pc' = [pc EXCEPT ![current] = "user"]
      /\ got' = [got EXCEPT ![current] = input[current]]
      /\ UNCHANGED <<status, waitingOn, current, busy, termPid, console, typed, input, asked>>
  BY DEF ReadDone, At, Goto, schedVars
<1>2. /\ current \in Pid /\ Idle \in Pid /\ pc \in [Pid -> Places]
      /\ got \in [Pid -> Word] /\ status[current] = "RUNNING"
  BY NumProcsAssumption DEF TypeOK, SchedTypeOK, Idle, Pid, OneRunning
<1>3. OneRunning' /\ SleepPlaces'
  BY <1>1, <1>2 DEF OneRunning, SleepPlaces
<1>4. BusyInSync' /\ ReadAnswered'
  BY <1>1, <1>2 DEF BusyInSync, ReadAnswered
<1>5. WordsApart'
  BY <1>1, <1>2 DEF WordsApart
<1> QED BY <1>3, <1>4, <1>5

(* The word typed is new, and goes to the one process the console works for. *)
LEMMA InterruptTerminal ==
    ASSUME TerminalInv, TypeOK', ConsoleInterrupt
    PROVE  TerminalInv'
<1> USE DEF TerminalInv
<1>1. /\ console /\ typed' = typed + 1 /\ input' = [input EXCEPT ![termPid] = typed + 1]
      /\ ~console' /\ ~busy' /\ status' = ReleaseTerminal(status)
      /\ UNCHANGED <<waitingOn, current, termPid, got, asked, pc>>
  BY DEF ConsoleInterrupt
<1>2. /\ termPid \in Pid /\ Idle \in Pid
      /\ pc[termPid] = "reading" /\ status[termPid] = "WAIT_TERMINAL"
      /\ input \in [Pid -> Word] /\ typed \in Nat
      /\ \A p \in Pid : got[p] \in Nat /\ input[p] \in Nat
  BY <1>1, NumProcsAssumption, TerminalAssumption
     DEF BusyInSync, TypeOK, Idle, Pid, Word
<1>3. asked[termPid] = typed
  BY <1>2 DEF SleepPlaces
<1>4. \A p \in Pid : /\ status[p] = "WAIT_TERMINAL" => status'[p] = "READY"
                     /\ status[p] # "WAIT_TERMINAL" => status'[p] = status[p]
  <2>1. status[0] # "WAIT_TERMINAL"
    BY <1>2 DEF SleepPlaces, Idle
  <2>2. \A p \in Pid : p = 0 \/ p >= 1
    BY NumProcsAssumption DEF Pid
  <2> QED BY <1>1, <2>1, <2>2 DEF ReleaseTerminal, WakeAll
<1>5. OneRunning'
  BY <1>1, <1>2, <1>4 DEF OneRunning
<1>6. SleepPlaces'
  BY <1>1, <1>2, <1>4 DEF SleepPlaces
<1>7. BusyInSync'
  BY <1>1, <1>4 DEF BusyInSync
<1>8. ReadAnswered'
  BY <1>1, <1>2, <1>3, <1>4 DEF ReadAnswered, SleepPlaces
<1>9. WordsApart'
  BY <1>1, <1>2 DEF WordsApart
<1> QED BY <1>5, <1>6, <1>7, <1>8, <1>9

LEMMA NextTerminal ==
    ASSUME TerminalInv, Next
    PROVE  TerminalInv'
<1>1. TypeOK'
  BY NextTypeOK DEF TerminalInv
<1>2. CASE WaitTerminal /\ (Write \/ Message \/ Read)
  BY <1>1, <1>2, MoveTerminal DEF Write, Message, Read, At
<1>3. CASE ~WaitTerminal /\ (Write \/ Message \/ Read)
  BY <1>1, <1>3, WriteTerminal, MessageTerminal, ReadTerminal
<1>4. CASE ReadDone \/ ConsoleInterrupt
  BY <1>1, <1>4, ReadDoneTerminal, InterruptTerminal
<1>5. CASE \/ Timer \/ \E c \in {"read", "write", "message"} : Begin(c)
           \/ \E c \in Pid : Fork(c)
  BY <1>1, <1>5, MoveTerminal
<1> QED BY <1>2, <1>3, <1>4, <1>5 DEF Next, Kernel

(***************************************************************************)
(* Whatever the processes do, the terminal is busy exactly while the       *)
(* console works for the one process that sleeps in its read: no IN        *)
(* instruction is ignored and no sleeper is left without an interrupt that *)
(* will wake it (device_manager.spl, console.spl).                         *)
(***************************************************************************)
THEOREM TerminalSafety == Spec => []TerminalInv
<1>1. TerminalInv /\ UNCHANGED vars => TerminalInv'
  BY DEF TerminalInv, TypeOK, SchedTypeOK, OneRunning, SleepPlaces, BusyInSync,
         ReadAnswered, WordsApart, vars, schedVars, termVars
<1> QED BY <1>1, InitTerminal, NextTerminal, PTL DEF Spec

(***************************************************************************)
(* A read is answered with the first word typed after it asked for one.    *)
(***************************************************************************)
THEOREM ReadsAnswered == Spec => []ReadAnswered
<1>1. TerminalInv => ReadAnswered
  BY DEF TerminalInv
<1> QED BY <1>1, TerminalSafety, PTL

(***************************************************************************)
(* No word that was typed is returned to two processes.                    *)
(***************************************************************************)
THEOREM WordsReadOnce == Spec => []WordReadOnce
<1>1. TerminalInv => WordReadOnce
  BY DEF TerminalInv, WordsApart, WordReadOnce
<1> QED BY <1>1, TerminalSafety, PTL
===============================================================================
