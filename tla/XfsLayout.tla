------------------------------ MODULE XfsLayout ------------------------------
(* Where system code lives: xfs-interface writes each part of the system to its
   blocks of the disk, with labels resolved for the pages it will run in; the
   machine's ROM, the OS startup code and the boot module load blocks into
   pages; the machine and the kernel enter pages.  The numbers of the four are
   kept in agreement by hand. *)
EXTENDS Integers, Sequences, FiniteSets

CONSTANTS ModuleNumbers,   \* the modules the user asks for
          MaxLoads         \* bound on load commands before the machine is started

VARIABLES disk,     \* [block |-> the command that wrote it, which part of its file it
                    \*   is, the page its labels were resolved for, is it the last part]
          mem,      \* [page |-> the same]
          job,      \* the load command at work and the parts it has written
          loads,    \* how many commands there were
          pc        \* 0 before the machine is started, then startup loads done + 1

vars == <<disk, mem, job, loads, pc>>

\* fileSystem.h: the first block and the blocks of each region.
Block  == [os |-> 0, init |-> 7, shell |-> 9, idle |-> 11, library |-> 13,
           exhandler |-> 15, timer |-> 17, disk |-> 19, console |-> 21,
           int |-> 17, module |-> 53]
Size   == [k \in DOMAIN Block |-> IF k = "os" THEN 1 ELSE 2]
Tables == 2 .. 5
DataStart  == 69
NO_OF_MODULES == 11
NO_OF_INTERRUPTS == 18

\* memOrg.h: the page labels are resolved for; -1 for code without labels.
Page   == [os |-> 1, exhandler |-> 2, timer |-> 4, disk |-> 6, console |-> 8,
           int |-> 4, module |-> 40, init |-> -1, shell |-> -1, idle |-> -1, library |-> -1]

\* A load command is <<region, number>>.
Numbered == {"int", "module"}
Commands == {<<k, 0>> : k \in DOMAIN Block \ Numbered}
            \cup {<<"int", n>> : n \in 3 .. NO_OF_INTERRUPTS + 1}
            \cup {<<"module", n>> : n \in ModuleNumbers}

Accepted(c) == CASE c[1] = "int"    -> c[2] \in 4 .. NO_OF_INTERRUPTS
                 [] c[1] = "module" -> c[2] \in 0 .. NO_OF_MODULES
                 [] OTHER           -> TRUE

Step(c) == IF c[1] = "int" THEN 2 * (c[2] - 1) ELSE 2 * c[2]
FirstBlock(c)  == Block[c[1]] + Step(c)
\* Mutant: interrupts numbered from 0.
ResolvedForDiskStep(c) == IF Page[c[1]] = -1 THEN -1 ELSE Page[c[1]] + 2 * c[2]
ResolvedFor(c) == IF Page[c[1]] = -1 THEN -1 ELSE Page[c[1]] + Step(c)

\* loadi(page, block), in order: the ROM, os_startup.spl, boot.spl.
Rom     == << <<1, 0>>, <<2, 1>> >>
StartUp == << <<54, 67>>, <<55, 68>>, <<69, 11>>, <<70, 12>> >>
BootModule ==
  << <<61, 2>>, <<59, 3>>, <<60, 4>>, <<62, 5>>, <<63, 13>>, <<64, 14>>,
     <<2, 15>>, <<3, 16>>, <<4, 17>>, <<5, 18>>, <<6, 19>>, <<7, 20>>,
     <<8, 21>>, <<9, 22>>, <<10, 23>>, <<11, 24>>, <<12, 25>>, <<13, 26>>,
     <<14, 27>>, <<15, 28>>, <<16, 29>>, <<17, 30>>, <<18, 31>>, <<19, 32>>,
     <<20, 33>>, <<21, 34>>, <<22, 35>>, <<23, 36>>, <<24, 37>>, <<25, 38>>,
     <<28, 41>>, <<29, 42>>, <<30, 43>>, <<31, 44>>, <<32, 45>>, <<33, 46>>,
     <<40, 53>>, <<41, 54>>, <<42, 55>>, <<43, 56>>, <<44, 57>>, <<45, 58>>,
     <<46, 59>>, <<47, 60>>, <<48, 61>>, <<49, 62>>, <<50, 63>>, <<51, 64>>,
     <<65, 7>>, <<66, 8>> >>
Startup == Rom \o StartUp \o BootModule

NoJob == [cmd |-> <<"none", 0>>, part |-> 0]
Blank == [cmd |-> <<"none", 0>>, part |-> 0, base |-> -1, last |-> TRUE]
Table == [Blank EXCEPT !.cmd = <<"table", 0>>]
File  == [Blank EXCEPT !.cmd = <<"file", 0>>]

Init == /\ disk = [b \in 0 .. 80 |-> IF b \in Tables THEN Table
                                     ELSE IF b >= DataStart THEN File ELSE Blank]
        /\ mem = [p \in 0 .. 127 |-> Blank]
        /\ job = NoJob /\ loads = 0 /\ pc = 0

\* A number out of range is refused.
LoadCommand ==
  /\ pc = 0 /\ job = NoJob /\ loads < MaxLoads
  /\ loads' = loads + 1
  /\ \E c \in Commands :
       job' = IF Accepted(c) THEN [cmd |-> c, part |-> 0] ELSE NoJob
  /\ UNCHANGED <<disk, mem, pc>>

Region(c) == {FirstBlock(c) + i : i \in 0 .. Size[c[1]] - 1}

\* One block of the file; the loop ends with the block in which the file ends.
WriteBlock ==
  /\ job # NoJob /\ job.part < Size[job.cmd[1]]
  /\ \E last \in BOOLEAN :
       /\ disk' = [disk EXCEPT ![FirstBlock(job.cmd) + job.part] =
                     [cmd |-> job.cmd, part |-> job.part, base |-> ResolvedFor(job.cmd),
                      last |-> last]]
       /\ job' = IF last THEN NoJob ELSE [job EXCEPT !.part = @ + 1]
  /\ UNCHANGED <<mem, loads, pc>>

\* Code that exceeds its region is taken off the disk again.
ClearRegion ==
  /\ job # NoJob /\ job.part = Size[job.cmd[1]]
  /\ disk' = [b \in DOMAIN disk |-> IF b \in Region(job.cmd) THEN Blank ELSE disk[b]]
  /\ job' = NoJob
  /\ UNCHANGED <<mem, loads, pc>>

Start == /\ pc = 0 /\ job = NoJob
         /\ pc' = 1
         /\ UNCHANGED <<disk, mem, job, loads>>

LoadPage ==
  /\ pc \in DOMAIN Startup
  /\ mem' = [mem EXCEPT ![Startup[pc][1]] = disk[Startup[pc][2]]]
  /\ pc' = pc + 1
  /\ UNCHANGED <<disk, job, loads>>

Next == LoadCommand \/ WriteBlock \/ ClearRegion \/ Start \/ LoadPage

Spec == Init /\ [][Next]_vars
-----------------------------------------------------------------------------
Running == pc = Len(Startup) + 1

\* The page where the code of a command is entered: machine_interrupt_address,
\* the MODULE constants of splconstants.cfg, the page tables of init and idle.
EntryPage(c) ==
  CASE c[1] = "os" -> 1
    [] c[1] = "exhandler" -> 2 * 0 + 2
    [] c[1] = "timer"     -> 2 * 1 + 2
    [] c[1] = "disk"      -> 2 * 2 + 2
    [] c[1] = "console"   -> 2 * 3 + 2
    [] c[1] = "int"       -> 2 * c[2] + 2
    [] c[1] = "module"    -> (20480 \div 512) + 2 * c[2]
    [] c[1] = "library"   -> 63
    [] c[1] = "init"      -> 65
    [] c[1] = "idle"      -> 69
    [] OTHER -> -1

\* The parts of the file that is in a region: up to the one that ends it.  The
\* blocks after that keep what an earlier, longer file left there.
Parts(c) == {i \in 0 .. Size[c[1]] - 1 : \A j \in 0 .. i - 1 : ~disk[FirstBlock(c) + j].last}

Whole(c) == \A i \in Parts(c) :
              disk[FirstBlock(c) + i].cmd = c /\ disk[FirstBlock(c) + i].part = i

IsLoaded(c) == Accepted(c) /\ disk[FirstBlock(c)].cmd = c
Booted(c)   == \E l \in DOMAIN Startup : Startup[l][2] = FirstBlock(c)

(* What was loaded for one part of the system stays whole when another is
   loaded or taken off again, and so do the tables of the disk (diskUtility.c
   regions, fileSystem.h). *)
RegionsKept == /\ job = NoJob => \A c \in Commands : IsLoaded(c) => Whole(c)
               /\ \A b \in Tables : disk[b] = Table

(* The blocks of files and of the tables are never written by the load of code;
   modules are numbered 0 to 7 (fileSystem.h:43-50, interface.c:84). *)
DataUntouched == \A b \in DOMAIN disk : b >= DataStart => disk[b] = File

(* After startup the code loaded for an interrupt, a module, init, idle or the
   library is, whole, in the pages where it is entered, and its labels were
   resolved for those pages. *)
RunsWhereResolved ==
  Running => \A c \in Commands : IsLoaded(c) /\ Booted(c) =>
    \A i \in Parts(c) :
      LET m == mem[EntryPage(c) + i]
      IN  /\ m.cmd = c /\ m.part = i
          /\ m.base \in {-1, EntryPage(c)}
=============================================================================
