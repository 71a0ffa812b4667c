------------------------------ MODULE Processes ------------------------------
(***************************************************************************)
(* Processes and their memory: fork, exec, exit, wait and signal (int_8 to *)
(* int_11), page faults (exhandler.spl), the page tables and counts of     *)
(* the process and memory managers.                                        *)
(*                                                                         *)
(* frame[p][l] is the page that logical page l of p is mapped to, if it is *)
(* valid.  Two more entries stand for the user area page of the process    *)
(* table and for the page that a load from the disk is going to.  Page has *)
(* init's pages and the 45 that boot.spl leaves free: those of the kernel, *)
(* the library and the idle process are never freed.  A handler is split   *)
(* where it can sleep, for memory or for the disk.                         *)
(***************************************************************************)
EXTENDS Scheduler, FiniteSets

CONSTANTS NumPages,     \* pages of processes: 52
          HeapSize, CodeSize, StackSize,   \* logical pages of each: 2, 4, 2
          Programs,     \* executable files: the block of each code page, or None
          Word          \* what programs write

Page      == 0 .. NumPages - 1
Loading   == 0          \* the page a load goes to
Area      == 1          \* the user area page, with the kernel stack
Heap      == 2 .. 1 + HeapSize
Code      == 2 + HeapSize .. 1 + HeapSize + CodeSize
Stack     == 2 + HeapSize + CodeSize .. 1 + HeapSize + CodeSize + StackSize
FirstCode == 2 + HeapSize
Logical   == {Loading, Area} \cup Heap \cup Code \cup Stack

VARIABLES users,     \* MEMORY_FREE_LIST
          free,      \* [SYSTEM_STATUS_TABLE + 2]
          page,      \* what each page holds: a word, or a block of code; None is
                     \* what somebody left there who has given the page back
          frame,     \* page tables and user area pages
          diskMap,   \* DISK_MAP_TABLE
          ppid,      \* [PROCESS_TABLE + 16*p + 2]
          stage,     \* where each process is
          call       \* the call it is in

counts  == <<users, free>>
memory  == <<counts, page, frame, diskMap>>
calls   == <<stage, call>>
vars    == <<schedVars, memory, ppid, calls>>

First(S, x) == x \in S /\ \A y \in S : x <= y

NoPages == [l \in Logical |-> None]
NoMap   == [k \in Code |-> None]
NoCall  == [op |-> "none"]

(* Init's code is in blocks 7 and 8; its disk map names 65 and 66, which are
   the pages it is in.  It never needs the map. *)
InitPart(k, first) == IF k < FirstCode + 2 THEN first + (k - FirstCode) ELSE None

Init ==
  /\ BootProcessTable
  /\ frame = [p \in Pid |-> [l \in Logical |->
                IF p = Root /\ l # Loading /\ l \notin FirstCode + 2 .. FirstCode + CodeSize - 1
                THEN l - 1 ELSE None]]
  /\ users = [g \in Page |-> IF \E l \in Logical : frame[Root][l] = g THEN 1 ELSE 0]
  /\ free = Cardinality({g \in Page : users[g] = 0})
  /\ page = [g \in Page |-> IF g + 1 \in Code THEN InitPart(g + 1, 7) ELSE None]
  /\ diskMap = [p \in Pid |-> IF p = Root THEN [k \in Code |-> InitPart(k, 65)] ELSE NoMap]
  /\ ppid = [p \in Pid |-> None]
  /\ stage = [p \in Pid |-> "user"] /\ call = [p \in Pid |-> NoCall]
-----------------------------------------------------------------------------
User == stage[current] = "user" /\ current # Idle
At(s) == stage[current] = s
Op    == call[current].op

Goto(s)   == stage' = [stage EXCEPT ![current] = s]
Return    == Goto("user") /\ call' = [call EXCEPT ![current] = NoCall]
Enter(s, c) == Goto(s) /\ call' = [call EXCEPT ![current] = c]

(* memory_manager: get free page.  The sleepers are woken together and each
   tests the count again. *)
NeedsPage == stage[current] \in {"heap", "area", "stack", "page"}

WaitForPage ==
  /\ NeedsPage /\ free = 0
  /\ Sleep("WAIT_MEM")
  /\ UNCHANGED <<memory, ppid, calls>>

TakePage(g) == /\ free # 0
               /\ First({h \in Page : users[h] = 0}, g)
               /\ free' = free - 1

\* ... for logical page l of p.
GetPage(p, l) ==
  \E g \in Page : /\ TakePage(g)
                  /\ users' = [users EXCEPT ![g] = 1]
                  /\ frame' = [frame EXCEPT ![p][l] = g]

\* Mutant: a page is free when its first user has given it back.
ReleaseShared(S) ==
  /\ users' = [g \in Page |-> IF g \in S THEN users[g] - 1 ELSE users[g]]
  /\ free' = free + Cardinality(S)
  /\ page' = [g \in Page |-> IF g \in S THEN None ELSE page[g]]

(* memory_manager: release page, for a set of pages that one process has. *)
Release(S) ==
  /\ users' = [g \in Page |-> IF g \in S THEN users[g] - 1 ELSE users[g]]
  /\ free' = free + Cardinality({g \in S : users[g] = 1})
  /\ page' = [g \in Page |-> IF g \in S /\ users[g] = 1 THEN None ELSE page[g]]
Woken(st, S) == IF \E g \in S : users[g] = 1 THEN WakeAll(st, "WAIT_MEM") ELSE st
-----------------------------------------------------------------------------
(* process_manager: exit process, with the page table and the user area page. *)
Pages(p) == {frame[p][l] : l \in Logical} \ {None}

Orphan(p) == ppid' = [q \in Pid |-> IF ppid[q] = p THEN None ELSE ppid[q]]

\* exit; also an exception, and a fault outside heap and code.
Exit ==
  /\ User
  /\ Release(Pages(current))
  /\ frame' = [frame EXCEPT ![current] = NoPages]
  /\ diskMap' = [diskMap EXCEPT ![current] = NoMap]
  /\ Orphan(current)
  /\ \E st \in {Wake(Woken(status, Pages(current)), "WAIT_PROCESS", current)} :
       SwitchFrom([st EXCEPT ![current] = "TERMINATED"])
  /\ UNCHANGED <<waitingOn, calls>>

(* exec gives everything back, waiters and children excepted, and takes its user
   area page again before anybody else can. *)
Exec(prog) ==
  /\ User
  /\ Release(Pages(current) \ {frame[current][Area]})
  /\ frame' = [frame EXCEPT ![current] = [NoPages EXCEPT ![Area] = frame[current][Area]]]
  /\ diskMap' = [diskMap EXCEPT ![current] = NoMap]
  /\ status' = Woken(status, Pages(current))
  /\ Enter("stack", [op |-> "exec", prog |-> prog, child |-> current,
                     block |-> prog[FirstCode], part |-> FirstCode])
  /\ UNCHANGED <<waitingOn, current, ppid>>
-----------------------------------------------------------------------------
(* fork: a free entry of the process table, the heap if there is none yet, the
   user area page of the child, and its stack. *)
Missing(p, part) == {l \in part : frame[p][l] = None}

Fork ==
  /\ User
  /\ \E c \in Pid :
       /\ First({d \in Pid : d >= 1 /\ status[d] = "TERMINATED"}, c)
       /\ status' = [status EXCEPT ![c] = "ALLOCATED"]
       /\ Enter(IF Missing(current, Heap) # {} THEN "heap" ELSE "area",
                [op |-> "fork", child |-> c])
  /\ UNCHANGED <<waitingOn, current, memory, ppid>>

\* Logical page l is being filled; the last of its part leads on to a stage.
FillHeap ==
  /\ At("heap")
  /\ \E l \in Heap :
       /\ First(Missing(current, Heap), l)
       /\ GetPage(current, l)
       /\ IF Missing(current, Heap) # {l} THEN UNCHANGED calls
          ELSE IF Op = "fork" THEN Goto("area") /\ UNCHANGED call
          ELSE Return
  /\ UNCHANGED <<schedVars, page, diskMap, ppid>>

\* The child inherits heap, code and disk map; every page has a user more.
Inherited == {frame[current][l] : l \in Heap \cup Code} \ {None}

TakeArea ==
  /\ At("area")
  /\ LET c == call[current].child
     IN  /\ \E g \in Page :
              /\ TakePage(g)
              /\ users' = [h \in Page |-> IF h = g THEN 1
                                          ELSE IF h \in Inherited THEN users[h] + 1 ELSE users[h]]
              /\ frame' = [frame EXCEPT ![c] = [l \in Logical |->
                             IF l = Area THEN g
                             ELSE IF l \in Heap \cup Code THEN frame[current][l] ELSE None]]
         /\ diskMap' = [diskMap EXCEPT ![c] = diskMap[current]]
         /\ ppid' = [ppid EXCEPT ![c] = current]
  /\ Goto("stack")
  /\ UNCHANGED <<schedVars, page, call>>

FillStack ==
  /\ At("stack")
  /\ \E l \in Stack :
       /\ First(Missing(call[current].child, Stack), l)
       /\ GetPage(call[current].child, l)
       /\ IF Missing(call[current].child, Stack) # {l} THEN UNCHANGED stage
          ELSE Goto(IF Op = "fork" THEN "copy" ELSE "code")
  /\ UNCHANGED <<schedVars, page, diskMap, ppid, call>>

\* The stack is copied; only now the child may be scheduled.
CopyStack ==
  /\ At("copy")
  /\ LET c == call[current].child
     IN  /\ page' = [g \in Page |->
                       IF \E l \in Stack : frame[c][l] = g
                       THEN page[frame[current][CHOOSE l \in Stack : frame[c][l] = g]]
                       ELSE page[g]]
         /\ status' = [status EXCEPT ![c] = "CREATED"]
  /\ Return
  /\ UNCHANGED <<waitingOn, current, counts, frame, diskMap, ppid>>
-----------------------------------------------------------------------------
(* exhandler: a page of the heap or of code that is not there.  What the kernel
   does for stack pages and for code that the program has not is Exit. *)
HeapFault ==
  /\ User /\ Missing(current, Heap) # {}
  /\ Enter("heap", [op |-> "heap"])
  /\ UNCHANGED <<schedVars, memory, ppid>>

CodeFault(k) ==
  /\ User /\ frame[current][k] = None /\ diskMap[current][k] # None
  /\ Enter("code", [op |-> "code", block |-> diskMap[current][k], part |-> k])
  /\ UNCHANGED <<schedVars, memory, ppid>>

(* memory_manager: get code page.  A process that has the block in memory shares
   its page; otherwise it is loaded, while others may begin to load it too. *)
Has(p, b) == \E k \in Code : diskMap[p][k] = b /\ frame[p][k] # None
Holder(b, q) == First({p \in Pid : Has(p, b)}, q)

\* The page g is mapped; exec is finished with that.
Install(g) ==
  /\ frame' = [frame EXCEPT ![current][call[current].part] = g, ![current][Loading] = None]
  /\ diskMap' = IF Op = "exec" THEN [diskMap EXCEPT ![current] = call[current].prog] ELSE diskMap
  /\ Return

\* Mutant: the first page of the holder's code is shared, as [ptbr + 8] would.
ShareCodeFirst ==
  /\ At("code")
  /\ \E q \in Pid :
       /\ Holder(call[current].block, q)
       /\ users' = [users EXCEPT ![frame[q][FirstCode]] = @ + 1]
       /\ Install(frame[q][FirstCode])
  /\ UNCHANGED <<schedVars, free, page, ppid>>

ShareCode ==
  /\ At("code")
  /\ \E q \in Pid, k \in Code :
       /\ Holder(call[current].block, q)
       /\ diskMap[q][k] = call[current].block /\ frame[q][k] # None
       /\ users' = [users EXCEPT ![frame[q][k]] = @ + 1]
       /\ Install(frame[q][k])
  /\ UNCHANGED <<schedVars, free, page, ppid>>

LoadCode ==
  /\ At("code")
  /\ \A q \in Pid : ~Has(q, call[current].block)
  /\ Goto("page")
  /\ UNCHANGED <<schedVars, memory, ppid, call>>

StartLoad ==
  /\ At("page")
  /\ GetPage(current, Loading)
  /\ Goto("loaded")
  /\ Sleep("WAIT_DISK")
  /\ UNCHANGED <<page, diskMap, ppid, call>>

\* The disk is done with one of the loads it was asked for.
DiskInterrupt ==
  /\ stage[current] = "user"
  /\ \E p \in Pid :
       /\ status[p] = "WAIT_DISK"
       /\ page' = [page EXCEPT ![frame[p][Loading]] = call[p].block]
       /\ status' = [status EXCEPT ![p] = "READY"]
  /\ UNCHANGED <<waitingOn, current, counts, frame, diskMap, ppid, calls>>

CodeLoaded ==
  /\ At("loaded")
  /\ Install(frame[current][Loading])
  /\ UNCHANGED <<schedVars, counts, page, ppid>>
-----------------------------------------------------------------------------
(* int_11: wait and signal. *)
WaitFor(q) ==
  /\ User /\ q # current /\ status[q] # "TERMINATED"
  /\ SleepOn("WAIT_PROCESS", q)
  /\ UNCHANGED <<memory, ppid, calls>>

Signal ==
  /\ User
  /\ status' = Wake(status, "WAIT_PROCESS", current)
  /\ UNCHANGED <<waitingOn, current, memory, ppid, calls>>

\* A program writes one of its words.
Write(l, w) ==
  /\ User /\ frame[current][l] # None
  /\ page' = [page EXCEPT ![frame[current][l]] = w]
  /\ UNCHANGED <<schedVars, counts, frame, diskMap, ppid, calls>>

Timer == stage[current] = "user" /\ Preempt /\ UNCHANGED <<memory, ppid, calls>>

Next ==
  \/ Exit \/ Fork \/ HeapFault \/ Signal \/ Timer
  \/ \E prog \in Programs : Exec(prog)
  \/ \E k \in Code : CodeFault(k)
  \/ \E q \in Pid : WaitFor(q)
  \/ \E l \in Heap \cup Stack, w \in Word : Write(l, w)
  \/ WaitForPage \/ FillHeap \/ TakeArea \/ FillStack \/ CopyStack
  \/ ShareCode \/ LoadCode \/ StartLoad \/ CodeLoaded \/ DiskInterrupt

Spec == Init /\ [][Next]_vars
-----------------------------------------------------------------------------
TypeOK ==
  /\ SchedTypeOK
  /\ users \in [Page -> Nat] /\ free \in Nat
  /\ frame \in [Pid -> [Logical -> Page \cup {None}]]
  /\ ppid \in [Pid -> Pid \cup {None}]
  /\ stage \in [Pid -> {"user", "heap", "area", "stack", "copy", "code", "page", "loaded"}]

Owners(g) == {pl \in Pid \X Logical : frame[pl[1]][pl[2]] = g}

\* The count of a page is the number of processes that have it.
UsersCounted ==
  /\ \A g \in Page : users[g] = Cardinality(Owners(g))
  /\ \A p \in Pid, l, m \in Logical : frame[p][l] = frame[p][m] => l = m \/ frame[p][l] = None

\* The number of free pages is right: the search for one, which has no bound of
\* its own within the free list, is begun only when there is one.
FreeCounted == free = Cardinality({g \in Page : users[g] = 0})

\* No process sleeps for memory while there is some.
NoIdleMemory == \A p \in Pid : status[p] = "WAIT_MEM" => free = 0

\* Who waits for a process waits for one that lives; a parent is alive.
WaitedForLives ==
  \A p \in Pid : /\ status[p] = "WAIT_PROCESS" => status[waitingOn[p]] # "TERMINATED"
                 /\ ppid[p] # None => status[ppid[p]] # "TERMINATED"

(* Memory is counted exactly through every fork, exec, exit and page fault, with
   sleeps between their pages, and nobody waits for what is there or for what
   has ended (memory_manager.spl, process_manager.spl, int_8 to int_11). *)
ProcessInv == /\ TypeOK /\ OneRunning
              /\ UsersCounted /\ FreeCounted /\ NoIdleMemory /\ WaitedForLives

\* What a process has of memory once fork or exec have made it.
Made(p) == status[p] \notin {"TERMINATED", "ALLOCATED"} /\ call[p].op # "exec" /\ p # Idle
SpaceOf(p) ==
  [code  |-> [k \in Code |-> IF frame[p][k] = None THEN diskMap[p][k] ELSE page[frame[p][k]]],
   stack |-> [l \in Stack |-> page[frame[p][l]]],
   heap  |-> IF Missing(p, Heap) # {} THEN [id |-> -1]
             ELSE [id |-> frame[p][2], words |-> [l \in Heap |-> page[frame[p][l]]]]]

SpaceTable == [p \in Pid |-> IF Made(p) THEN SpaceOf(p) ELSE [live |-> FALSE]]

Spaces == INSTANCE AddressSpaces WITH
            Proc <- Pid, Init1 <- Root, Texts <- Programs,
            HeapPart <- Heap, StackPart <- Stack, Data <- Word, space <- SpaceTable

(* Programs have their own memory: their code is that of their file whatever is
   in memory, pages of it are shared or loaded, their stack is theirs, their heap
   is shared with those they have forked only (int_8.spl, int_9.spl,
   exhandler.spl, memory_manager.spl). *)
ImplementsSpaces == Spaces!Spec
=============================================================================
