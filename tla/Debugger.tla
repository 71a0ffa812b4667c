------------------------------ MODULE Debugger ------------------------------
(* The debugger of the XSM simulator (src/xsm/debug.c) and the machine as it
   sees it: the address of the last write, _thecpu.mem_left, and the BRKP
   instruction.  Before each instruction the machine calls debug_next_step; at
   the prompt the user steps, continues, and sets watch points.  Commands that
   only display something come back to the prompt and change nothing here. *)
EXTENDS Integers, Sequences, SequencesExt

CONSTANTS Addresses,     \* physical addresses the program writes
          Watchable,     \* addresses the user may watch
          MaxWatch,      \* DEBUG_MAX_WP
          MaxCount,      \* bound: the largest N of step N and continue N
          WatchLimit,    \* bound: no more watch commands with this many points set
          DoubleWrites,  \* may an instruction write two words?
          KernelFaults   \* may the kernel run into an exception?

ASSUME DebuggerAssumption == /\ Addresses \subseteq Nat /\ Watchable \subseteq Nat
                             /\ MaxWatch \in Nat \ {0} /\ MaxCount \in Nat \ {0}
                             /\ WatchLimit \in Nat
                             /\ DoubleWrites \in BOOLEAN /\ KernelFaults \in BOOLEAN

VARIABLES phase,     \* "run", "check" (debug_next_step), "prompt", "fault", "stopped"
          db,        \* _db_status [state, skip, command, wp]
          memLeft,   \* _thecpu.mem_left
          written,   \* ghost: the addresses the last instruction wrote
          watched,   \* ghost: the addresses the user was told are watched
          hit,       \* ghost: was a watch point reported before this instruction?
          asked,     \* ghost: the last resume [command, count]
          steps,     \* ghost: instructions since then
          brkps      \* ghost: BRKPs since then

vars == <<phase, db, memLeft, written, watched, hit, asked, steps, brkps>>

Init == /\ phase = "run"
        /\ db = [state |-> FALSE, skip |-> 0, command |-> "continue", wp |-> <<>>]
        /\ memLeft = -1
        /\ written = {} /\ watched = {} /\ hit = FALSE
        /\ asked = [command |-> "continue", count |-> 1]
        /\ steps = 0 /\ brkps = 0

Counted(n) == IF n > MaxCount THEN n ELSE n + 1   \* bound on the ghost counters

\* An instruction.  memLeft keeps only the last write.
Execute(writes, brkp) ==
  /\ phase = "run"
  /\ phase' = "check"
  /\ memLeft' = IF writes = <<>> THEN memLeft ELSE Last(writes)
  /\ written' = ToSet(writes)
  /\ db' = IF brkp THEN [db EXCEPT !.state = TRUE] ELSE db
  /\ steps' = Counted(steps)
  /\ brkps' = IF brkp THEN Counted(brkps) ELSE brkps
  /\ UNCHANGED <<watched, hit, asked>>

Plain == Execute(<<>>, FALSE)
Brkp  == Execute(<<>>, TRUE)
Write == \E a \in Addresses : Execute(<<a>>, FALSE)

\* BACKUP, or a PUSH whose step ends in the dispatch of an interrupt.
DoubleWrite == DoubleWrites /\ \E a, b \in Addresses : Execute(<<a, b>>, FALSE)

\* _thecpu.mem_right is never set and stays 0.
WatchTest == \E i \in DOMAIN db.wp : db.wp[i] \in {memLeft, 0}

\* Mutant: BRKPs passed over leave the debugger on.
ShownStaysOn(s) == IF s.skip > 0 THEN [s EXCEPT !.skip = @ - 1] ELSE s

\* debug_show_interface: a pending skip is used up instead of a prompt.
Shown(s) ==
  IF s.skip > 0
  THEN [s EXCEPT !.skip = @ - 1, !.state = @ /\ s.command # "continue"]
  ELSE s

\* Mutant: the last write is not forgotten.
NextStepKeeps ==
  /\ phase = "check"
  /\ LET found == memLeft > 0 /\ WatchTest
         on    == [db EXCEPT !.state = @ \/ found]
     IN  /\ hit' = found
         /\ db' = IF on.state THEN Shown(on) ELSE on
         /\ phase' = IF on.state /\ on.skip = 0 THEN "prompt" ELSE "run"
  /\ written' = {}
  /\ UNCHANGED <<memLeft, watched, asked, steps, brkps>>

NextStep ==
  /\ phase = "check"
  /\ LET found == memLeft > 0 /\ WatchTest
         on    == [db EXCEPT !.state = @ \/ found]
     IN  /\ hit' = found
         /\ db' = IF on.state THEN Shown(on) ELSE on
         /\ phase' = IF on.state /\ on.skip = 0 THEN "prompt" ELSE "run"
  /\ memLeft' = -1
  /\ written' = {}
  /\ UNCHANGED <<watched, asked, steps, brkps>>

\* An exception in kernel mode: the machine shows the interface and then stops.
KernelFault ==
  /\ KernelFaults /\ phase = "run"
  /\ db' = Shown(db)
  /\ phase' = IF db.skip = 0 THEN "fault" ELSE "stopped"
  /\ UNCHANGED <<memLeft, written, watched, hit, asked, steps, brkps>>

Prompt == phase \in {"prompt", "fault"}
Resume == phase' = IF phase = "prompt" THEN "run" ELSE "stopped"

\* Mutant: n instructions are skipped, not n - 1.
SkipNAll(s, n, command) ==
  IF n > 1 THEN [s EXCEPT !.skip = n, !.command = command] ELSE s

SkipN(s, n, command) ==
  IF n - 1 > 0 THEN [s EXCEPT !.skip = n - 1, !.command = command] ELSE s

Step(n) ==
  /\ Prompt /\ Resume
  /\ db' = SkipN(db, n, "step")
  /\ asked' = [command |-> "step", count |-> n]
  /\ steps' = 0 /\ brkps' = 0
  /\ UNCHANGED <<memLeft, written, watched, hit>>

Continue(n) ==
  /\ Prompt /\ Resume
  /\ db' = [SkipN(db, n, "continue") EXCEPT !.state = FALSE]
  /\ asked' = [command |-> "continue", count |-> n]
  /\ steps' = 0 /\ brkps' = 0
  /\ UNCHANGED <<memLeft, written, watched, hit>>

\* debug_watch_add may refuse; "Watch point added" is printed all the same.
Watch(a) ==
  /\ Prompt
  /\ Len(db.wp) < WatchLimit
  /\ db' = [db EXCEPT !.wp = IF Len(@) >= MaxWatch THEN @ ELSE Append(@, a)]
  /\ watched' = watched \cup {a}
  /\ UNCHANGED <<phase, memLeft, written, hit, asked, steps, brkps>>

WatchClear ==
  /\ Prompt
  /\ db' = [db EXCEPT !.wp = <<>>]
  /\ watched' = {}
  /\ UNCHANGED <<phase, memLeft, written, hit, asked, steps, brkps>>

Exit == /\ Prompt
        /\ phase' = "stopped"
        /\ db' = [db EXCEPT !.state = FALSE]
        /\ UNCHANGED <<memLeft, written, watched, hit, asked, steps, brkps>>

Next == \/ Plain \/ Brkp \/ Write \/ DoubleWrite \/ NextStep \/ KernelFault
        \/ \E n \in 1 .. MaxCount : Step(n) \/ Continue(n)
        \/ \E a \in Watchable : Watch(a)
        \/ WatchClear \/ Exit

Spec == Init /\ [][Next]_vars
-----------------------------------------------------------------------------
(* A prompt after step N comes after exactly N instructions, whatever
   breakpoints and watch points lie between (debug.c:1194). *)
StepExact == phase = "prompt" /\ asked.command = "step" => steps = asked.count

(* Where no watch points are set, a prompt after continue N comes at the N'th
   BRKP (debug.c:1196); with one, a hit is counted like a BRKP. *)
ContinueExact ==
  [][phase = "check" /\ phase' = "prompt" /\ asked.command = "continue" /\ db.wp = <<>>
       => brkps = asked.count]_vars

(* A write to a watched address is reported before the next instruction, and
   nothing else is (debug.c:1223).  Of two words written by one instruction only
   the last is looked at. *)
WritesReported ==
  [][phase = "check" => /\ hit' => written \cap watched # {}
                        /\ written # {} /\ written \subseteq watched => hit']_vars

(* A watch point the debugger says it has added is watched (debug.c:344). *)
AddedIsWatched == watched \subseteq ToSet(db.wp)

(* The machine does not stop at a kernel exception before it has entered debug
   mode, as it says it does (machine.c:300). *)
FaultPrompts == [][phase = "run" => phase' # "stopped"]_vars
=============================================================================
