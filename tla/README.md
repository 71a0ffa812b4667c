# eXpOS and its tool chain: a TLA+ verification project

The repository holds a small multitasking operating system written in SPL (eXpOS), the XSM
machine simulator it runs on, the compilers of its two languages (SPL for the kernel, ExpL for
programs) and `xfs-interface`, the tool that prepares the disk. This directory holds TLA+
models of all of these but the ExpL compiler, the TLC configurations that check them and
proofs of what matters most in them.

Paths below are relative to the root of the repository (`src/...` in `PROJECT.json`): kernel
modules are in `code/Modules/*.spl`, system calls and interrupt handlers in
`code/Interrupt/*.spl`. `PROJECT.json` has the exact lines every definition stands for.

## 1. Inventory

### 1.1 The machine (`xsm/`)

* **Processor** (`machine.c`). State: registers, mode, the counters of the timer, the disk and
  the console, the pending request of each device. `machine_run` fetches and executes; after
  every instruction in USER mode `machine_post_execute` counts down and delivers at most one
  interrupt: the timer, else the disk, else the console. In KERNEL mode nothing is counted and
  nothing is delivered, so **the kernel is never interrupted**. A LOAD, STORE or IN only
  records a request; it is ignored while the device works on another one, and its data moves
  when the countdown ends. Exceptions of user code go to `exhandler`, those of kernel code stop
  the machine. Correct when a program runs as if it were alone and no event is lost.
* **Storage** (`memory.c`, `disk.c`, `registers.c`, `word.c`). 128 pages, 512 blocks, words
  that hold a number or a string. Correct when translation stays in the page table.
* **Debugger** (`debug.c`). State: on or off, a count of stops to pass over, the table of watch
  points. Correct when it stops where it was told to and shows tables as the kernel has them.
  `tokenize.c` and `simulator.c` parse.

### 1.2 The kernel (`code/`)

| component | source | state | operations | made hard by |
|---|---|---|---|---|
| Scheduler | `scheduler.spl`, `timer.spl` | process table (state, wait id), current pid | pick the next process | liveness; one switch in the middle of every blocking call |
| Resource manager | `resource_manager.spl` | owners in the buffer, file status, disk, terminal and semaphore tables | acquire (sleep in a loop), release (wake all) | two waiters woken at once, lost wakeups, circles of waiters |
| Device manager | `device_manager.spl`, `disk.spl`, `console.spl` | disk and terminal status tables | disk store and load, terminal read and write, two interrupts | a request is asynchronous and may be ignored; owners and waiters sleep in the same state |
| File manager | `file_manager.spl` | buffer table and pages, open file table, file status table | buffered read and write, open, close | dirty buffers evicted across two sleeps; names looked up before a sleep |
| File system calls | `int_4` .. `int_7` | inode table, root file, disk free list | create, delete, open, close, seek, read, write | locks on every path, sizes, allocation, names |
| Process manager | `process_manager.spl` | process and page tables | get free entry, exit, free page table, kill all | victims that sleep anywhere |
| Memory manager | `memory_manager.spl` | memory free list, count of free pages, disk free list | get and release pages and blocks, get code page | shared pages, waiting for memory |
| Process calls | `int_8` .. `int_11` | the same | fork, exec, exit, wait, signal | sleeps with tables half filled |
| Semaphores | `int_13`, `int_14` | semaphore table, resource tables | semget, semrelease, semlock, semunlock | counts across fork and exit |
| Exception handler | `exhandler.spl` | page tables | page fault, message and exit | races for disk and terminal |
| Shutdown | `int_15.spl` | all tables | lock all inodes, kill all, flush, store, halt | durability, deadlock |
| Boot | `boot.spl`, `os_startup.spl` | all tables | initialise | page and block numbers repeated by hand |

Components interact by calls (a system call calls modules, modules call each other), through
the shared tables, and by sleeping and waking. **The scheduler call is the only point where
another process can run in the middle of kernel code**; all between two of them is atomic.

### 1.3 The tools

* **`xfs-interface`**: copies of the inode table, root file and free list in memory, committed
  block by block; `fdisk`, `load`, `rm`, `export`, `cat` and others. Correct when a killed
  program never costs a file, loaded files are whole, and code is where the machine expects it.
* **SPL compiler** (`spl/`): a list of aliases, a stack of labels, four registers. Correct when
  the code does what the program means.
* **ExpL compiler** (`expl/`), its **run-time library** (`library.lib`), the **programs** of the
  system: not modelled (section 6).

`PROJECT.json` lists the components with their status and the 40 hazards that matter most, each
at the line where it bites; section 7 has those whose answer is that the code is wrong.

## 2. The modules and the code

```
Scheduler ---+-- BufferCache --- MCBufferCache            BlockStore     (abstract)
             +-- Resources ----- MCResources                 |  implemented by BufferCache
             +-- Processes ----- MCProcesses              AddressSpaces  (abstract)
             +-- Terminal                                    |  implemented by Processes
FileSystem --------------------- MCFileSystem             FileStore      (abstract)
XsmMachine --------------------- MCXsmMachine                |  implemented by FileSystem
Debugger, DebugTables, SplScope - MCTools -- MCToolchain  UserProgram    (abstract)
XfsDisk, XfsLoad, XfsLayout, XfsLabels -- MCXfs              |  implemented by XsmMachine
SplCode -- MCSplCode (programs) ------------- MCToolchain
BufferCacheProofs, TerminalProofs, ResourcesProofs, ProcessesProofs, FileSystemProofs,
XsmMachineProofs, ToolsProofs, XfsProofs
```

**How kernel code becomes actions.** As the kernel runs with interrupts off, a handler is cut
exactly at its calls of the scheduler. `pc[p]` (in `Processes`, `stage[p]`) stands for the
kernel context the scheduler saves: the place where `p` sleeps or is about to test a resource.
A `while (busy) { state = ...; call SCHEDULER }` loop is one action with two branches, or two
actions: sleep and stay at the place, or pass. Pieces are cut once more where a loop runs over
a table: since only the current process moves and it is in the kernel, no step can come
between. Steps in user mode are the beginning of a system call, an exception or an interrupt.

### Scheduler
`status`, `waitingOn` and `current` are words 4 and 5 of a process table entry and word 1 of
the system status table. `SwitchFrom(st)` is the scheduler called when the table reads `st`:
the first READY or CREATED process after the current one, in the circular order `Turn`.
`Sleep`, `SleepOn`, `Preempt`, `Wake`, `WakeAll` are what every module does to the table.

### BufferCache, BlockStore
A read or write from the inode lock to the return: `AcquireInode`, `AcquireBuffer`, then
`StoreOld`/`OldStored` (evict a dirty buffer), `LoadNew`/`NewLoaded`, and
`ReadWord`/`WriteWord`, which release buffer and inode and wake their sleepers. `DiskRequest`
is acquire disk, the LOAD or STORE and the sleep; `device` is the machine's request, whose
words are moved by `DiskInterrupt`. `PageFault` adds processes that compete for the disk alone;
`BeginShutdown` .. `Halt` are `int_15.spl`: lock every inode, kill all, and for each dirty buffer
read its block number (`NextBuffer`), wait for the disk and store its page (`FlushBuffer`), then the
tables. Kill-all passes over the entry `SwapperPid`, which may be that of any process; `spared`
records that one was alive. It runs on while shutdown stores, and may put another block into a
page whose store is waiting. `BlockStore` is words of blocks, read and written atomically; the
mapping is `Content(b)`: the buffer page while it is dirty, else the disk block. What shutdown does
under a spared process is its step `Overwrite`: a block gets the words of another.

### Resources
Resource tables, the semaphore table, the open file table and the count in the file status
table, under semget, semlock, semunlock, semrelease, open, close, fork and the descriptor loop
of exit. Error returns change nothing and are no steps. Fork copies the table word by word and
counts an inherited semaphore when it has copied its kind, with an index it takes from the child's
page, where it has not been copied yet (`int_8.spl:71`). `Left` says what that word may hold: 0 in
a page nobody has used, -1 as exit leaves it, for which the last open file's count is raised;
`Credit` counts the entries that raise a count, and the history variable `miscounted` collects the
semaphores whose raise was not what the child inherits. Semrelease does not test the kind of
descriptor it is given: `Releasable` says which kinds programs give it; with `"NONE"` it acts
on word -1 of the semaphore table (`ReleaseStray`).

### Processes, AddressSpaces
Page tables (`frame`), the counts of `MEMORY_FREE_LIST` (`users`), the free count, disk maps,
parents and what pages hold, under fork, exec, exit, wait, signal, page faults, the timer and
writes of programs. `stage` is where a handler waits for memory or the disk: fork is cut into
`Fork`, `FillHeap`, `TakeArea` (child's user area, resource and page tables, with the counts of
what it inherits), `FillStack`, `CopyStack`; get code page into `ShareCode`, or `LoadCode`,
`StartLoad` and `CodeLoaded`. A page that has been given back holds nothing a property may
depend on, so it is recorded as `None`. Loads from the disk end in any order (`BufferCache` has
the disk's own rules). `AddressSpaces` promises code, stack and heap: the code of the file, a
stack nobody else writes, a heap shared by those forked from each other. The mapping leaves out
processes fork or exec have not finished; a code page not yet loaded counts as its block.

### Terminal
`busy` and `termPid` are the terminal status table, `console` the machine's pending IN, `input`
word 8 of the process table. `Read` takes the terminal, starts the console and sleeps;
`ConsoleInterrupt` leaves the word with the owner and releases the terminal; `ReadDone` is the
rest of the call. `Write`, and `Message` of a dying process, take and give it back in one piece.

### FileSystem, FileStore
The calls of `int_4` to `int_7` with the functions of the file, memory and resource managers
they use: inode table, root file copy, disk free list, open file table and positions, resource
tables, inode and buffer locks, buffers and disk blocks word by word. A call waits at `pc`
`"inode"`, `"buffer"`, `"store"`, `"load"`; which sleeper goes on next is left open
(`BufferCache` checks wakeups). `FileStore` is files as sequences of words and open files with
positions; the point where a call counts as done is where its word or its entry is changed.
`Close` frees an entry when its count runs out, whoever else has it. As fork does not count
(finding 7), that would break every promise, so programs are assumed to leave a file that parent
and child share open: `ClosesOwn`, which stands in `User` with what programs do, not in `Close`.

### XsmMachine, UserProgram
One instruction per step for a user program and one step for the kernel between entry and
return (`Kernel`): fetch, translation, exceptions with EIP, EPN, EC and EMA, call, return,
stack, jumps, traps, device requests, and `PostExecute` with its order timer, disk, console.
Instructions that only touch registers are one kind, `"ALU"`. `UserProgram` runs the same
program without any of that.

### Debugger, DebugTables
`debug_next_step` before each instruction, prompts, `step`, `continue`, `watch`; ghosts count
what the user asked for. `DebugTables` walks each display of a kernel table word by word and
compares its label with the layout the kernel uses.

### XfsDisk, XfsLoad, XfsLayout, XfsLabels
`XfsDisk`: tables in memory and on disk, each write of fdisk, load and rm a step, and
`Restart`, the program killed between any two. `XfsLoad`: the contents of one file through
`writeFileToDisk`, with the sizes computed beforehand; `pos` and `part` are what `fgets` has read,
a line of code or up to 15 characters of data at a time. `XfsLayout`: which block and page each
part of the system gets, from load commands to the last page loaded at boot, with the page its
labels were resolved for; the loop over a region ends with the block in which the file ends, and
code that goes on is cleared from the disk (`ClearRegion`). `XfsLabels`: the two phases of label resolution.

### SplCode, SplScope
`SplCode` translates trees as `codegen` does, with its register count and label stack, runs the
result on the machine's instructions (`Move`, `Compute`, `Jump`, `Push`, `Pop`, devices) and
compares it with an evaluator of the tree. `SplScope` reads any short program of aliases,
blocks, uses, labels and jumps through `push_alias`, `pop_alias` and `lookup_alias`.

### What the models leave out of the modelled code
The user's name and the permissions in the root file's entries; `ls`, `df`, `copy`, `dump`;
register save and restore of the kernel; `call`, inline assembly and strings in SPL programs;
getpid and getppid; the count of processes that wait for memory, which nobody reads; the pages
of the library, which gain users at fork and never lose them; the word before the memory free
list, which fork changes for invalid entries and nobody reads. Words and names are small sets.
Module 3 of the resource manager (disk) is used inside `BufferCache` only.

## 3. The runs

| run | instance (distinct states) | what it shows |
|---|---|---|
| `cache_locks` | idle + 2 processes, 1 buffer, 2 blocks, 2 inodes, one word (13 600) | locks have the owner the code thinks, every sleeper has a waker, no circular wait, kill-all leaves nobody in a buffer; a ready process runs, a disk sleeper wakes, calls keep completing |
| `cache_data` | idle + 3 processes, number 2 of them spared by kill-all, 1 buffer, 2 blocks of 2 words of 2 values, 2 inodes (2.9 million) | clean buffers equal the disk, transfers are over when the requester runs, shutdown loses nothing if nobody was spared, the cache implements `BlockStore` with or without a process that goes on during shutdown |
| `resources` | idle + 2 processes; 2 semaphores, 2 open files, a file besides the directory, 2 descriptors (3.1 million) | share counts are exact and locks given up by their owner for every semaphore no fork has miscounted; nobody locks, or waits for, a semaphore he does not have, whatever was miscounted; the count of a file's open entries, which delete asks, is exact |
| `memory` | idle + 2 processes; 8 pages, one each for heap and stack and two for code, two programs, one of a single block (40 000) | pages are counted exactly through fork, exec, exit and faults with sleeps in between, nobody sleeps for memory that is there or for a process that has ended, and each program has memory of its own |
| `terminal` | idle + 3 processes, 4 words (74 000) | the lock agrees with the console and the sleepers, reads get their word and no word is read twice (all parts of `TerminalInv`); while the user types every started read returns |
| `xsm_programs` | 8 programs, pages of 8 words, options timer 4, disk 2, console 2, demand paging (90 000) | programs run as if alone, requests are kept, carried out once and answered, the timer outlives every program that does not fill its stack |
| `tools` | 2 addresses, 2 watch points, counts up to 3; all 16 tables; any 7 tokens of block structure in an SPL program; SPL programs with all operators, one and two deep, on registers, numbers and memory, chains that use up the registers, and all statements (254 000) | stops are where they were asked for, watched writes are reported, displays show what the kernel keeps, names resolve to the innermost block; compiled code does what the program means and ends, registers and labels are given back |
| `xfs` | 2 names, 2 blocks, an inode table of 2 entries and one entry's worth of user table; files up to 7 lines; 2 load commands of any kind; code of up to 5 lines (204 000) | blocks have one owner and files are whole after any crash, with the inode table full or not; loaded files are whole; code runs where its labels were resolved |
| `file_system` | 2 processes, 1 buffer, 2 blocks of two words; two files of one word (wide), one file of up to two blocks (deep), one process at a time up to the size limit and a full disk (full), or the root file open several times and a full table of open files (many) (282 000) | inodes, root file, free list, open files and buffers agree whenever a process sleeps; every call acts at once on files that are sequences of words |
| `resources_wakeup`, `resources_sharers`, `fs_reopened` | small | three of the disagreements of section 7 |

Some runs explore two or more models that share no variable, one from each initial state
(`MCTools`, `MCToolchain`, `MCXfs`); a reader of one of them may take the other for frozen;
`MCFileSystem` explores one model in four directions, each by its own constraint on the step.

**Bounds and why they are enough.** One buffer with two blocks makes every second access an
eviction; buffers do not interact otherwise, except in shutdown's order, which the proofs cover
for any number. Two inodes give shutdown something to hold while it waits. Init and one
more process contend for every lock with each other and with shutdown; three or more are the
proofs' part, but for `cache_data`, where kill-all has one to kill and one to spare. Two words in two values tell a lost write, a torn block
and a stale read apart. Two descriptors let a process hold a semaphore twice, or with a file.
Eight pages are too few for init and a child that has its own program, so both wait for memory;
a word not yet written differs from one that is, which shows aliasing. Pages are renamed by the
`VIEW`: of two free pages the code takes the first, but nothing can tell them apart. The one
case that needs a third user process, a fork that goes on after its sleep for memory, takes the
same actions as the other sleepers. The number kill-all
spares is 15, the last of the table: `SwapperPid = 15` in `cache_locks` is a system where nobody
has it, `SwapperPid = 2` in `cache_data` one where some process has it or, having ended, has not.
`ThreeWriteFour` keeps `cache_data` small: with two user processes both blocks are written, with
three one of them is there to be read and evicted for. `MaxWords` bounds typing; the liveness
properties exempt that end. `CountsBounded` stops where a share count has left `-MaxStrays ..
MaxShares`: forks and stray releases drive the counts away from zero without end; with bounds 1
and 2 a count falls below zero, is 0 with the semaphore in use, and is above the number of sharers. `MCView`, in both, leaves out
words that nobody will read. Eight words to a page let every
instruction meet a page's end; disk and console are due together in every order with 4, 2, 3.
`MaxCount` bounds the debugger's ghosts above every count it is given. Files of seven lines
cross every block boundary of two blocks of 6 words with every kind of line. An inode table of
two entries has the root's and one that is full and reused, and the next file goes to the user
table. `Deltas` seeks back by one; forward
positions are made by reading and writing.

**Deadlock** is checked in the runs of the kernel's scheduling. It is off where the system may
stop: the user leaves the tools alone, a machine halts, a program ends, and in `file_system`,
where the two processes may both end with a file open and the disk full.

**Fairness.** Kernel: `WF(Kernel)`, as kernel code is not interrupted and runs on.
`SF(Timer)`, `SF(DiskInterrupt)`, `SF(ConsoleInterrupt)`: the counters go down with each
user-mode instruction and every kernel path ends in user mode, if only of the idle process; so
an interrupt that is due again and again fires, although the timer may come first each time.
`SF(ConsoleInterrupt)` also says the user types as long as he is asked to. No fairness is put
on system calls. `XsmMachine`: `WF(Next)`, the machine runs on. `SplCode`: `WF` of its next
step, the same. *Not* claimed is progress of a single process at a lock: release wakes all
waiters and each tests again, so one can be overtaken for ever; `NoLivelock` states what the
code does guarantee.

## 4. The proofs

| theorem | says, for all values of the constants |
|---|---|
| `BufferCacheProofs!LockSafety` with `TypeSafety`, `LocksAreOwned`, `SleepersHaveWakers` | `LockInv` is an invariant of `BufferCache`, and its consequences |
| `!DeadlockFreedom` | `NoCircularWait` |
| `BufferCacheProofs!CacheSafety` with `ShutdownKillsAll`, `DataSafety`, `ShutdownIsDurable` | the invariant of the data, `KillAllKills`, `DataInv`, `ShutdownDurable` |
| `!CacheImplementsStore` | the refinement of `BlockStore` |
| `TerminalProofs!TerminalSafety` with `ReadsAnswered`, `WordsReadOnce` | `TerminalInv` and its consequences |
| `ResourcesProofs!OnlyUsersLock`, `CountsAreShared`, `OwnersUnlock`, `OpensAreCounted` | `UsersOnly`, `SharingCounts`, `OnlyOwnerUnlocks`, `FileOpenCounts` |
| `ProcessesProofs!MemorySafety` | `ProcessInv` |
| `!SpacesImplemented` | the refinement of `AddressSpaces` |
| `XsmMachineProofs!RequestsKept`, `NoRequestLost`, `RequestsServedOnce` | a device at work keeps its request, is released only after the transfer, and makes it once (`ServedOnceInStack`) |
| `XsmMachineProofs!RunsImplemented` | the refinement of `UserProgram` |
| `ToolsProofs!CountSafety` with `StepsAreExact`, `ContinuesAreExact`, `WritesAreReported` | the debugger's counts and reports |
| `ToolsProofs!TablesAreShown` | `TablesShown` |
| `ToolsProofs!AliasesResolve` | `NamesResolve` |
| `FileSystemProofs!FilesSafe`, `FilesImplemented` | `TablesAgree`, the refinement of `FileStore` |
| `XfsProofs!DiskSound`, `FilesAreWhole`, `OthersStay` | `DiskInv`, `FilesWhole`, `OthersUntouched` |
| `XfsProofs!LoadsAreWhole`, `CodeIsInPlace`, `JumpsGoToLabels` | `LoadedWhole`, `CodeInPlace`, `JumpsResolved` |

Assumptions: the named ones of the modules (`NumProcsAssumption`, `CacheAssumption`, ...: the
constants have their types). Further ones are in the theorems themselves: the counts of
semaphores for programs that do not give semrelease the descriptor of a file; open counts for
programs that do not release unused descriptors, or files whose inode number is no process's;
reports of watch points for a watch table that never overflows; the counts of pages for programs
that have their first block and no block twice, and a memory that can hold init (`Parameters`);
what pages hold for programs in blocks other than 65 and 66, the pages init's disk map names
instead of its blocks (`BlocksKnown`; blocks of files begin at 69). What the machine does for
programs is proved for those the compilers make (`Allowed`: code in whole pages from the first
on, no negative address, no write of PTLR); that they run as if alone, for programs that keep to
their own stack and fault where the kernel finds its table entry (`Tame`; findings 12 to 14 are
what happens otherwise). All programs of the run have both. A program may fill its stack and die
of it.

*Lock safety.* `LockOwners` and `NoLostWakeup` are not inductive: that a release wakes the
right sleepers needs to know *where* a sleeper sleeps (`SleepPlaces`), that it has a call at all
(`CallOK`), that the running process is no sleeper (`OneRunning`), and that the disk's owner is
the sleeper with a request (`DiskInSync`). Kill-all keeps the invariant because only init shuts
down (`RootEnds`): whoever has a buffer has an inode, and init holds all inodes. That also holds of
the process it spares, if there is one, which is at an inode or in user mode then.

*Deadlock freedom* follows from `LockInv` by an order: who waits for a buffer waits for one that
has passed both locks; who waits for an inode waits for one further on, or for shutdown, which
waits only for readers.

*Data.* `CacheInv` is `LockInv` with: a block is in one buffer (`Alone`, as `BufferOf` is a
function of it), each process in the middle of an eviction finds its buffer as it left it
(`ProcsOK`), clean buffers equal the disk (`BuffersOK`), the machine's request is that of the
process that sleeps on it (`DeviceOwned`), and what shutdown has passed is stored (`Flushed`), unless a process was spared, who may dirty it
again. Then a store of shutdown may find its page taken (`FlushOK`), which is `Overwrite`.
With it each step maps to one of `BlockStore`: only `WriteWord` changes `Content`; an eviction
or a load moves the same words.

*Terminal.* The reader sleeps in the same state as those that only wait for the lock. The
terminal is busy exactly while the console works for `termPid`, which sleeps (`BusyInSync`), so
a writer can release it only when no reader waits for a word, and the word owed is the next one
typed; `WordsApart` says that words left and words returned are all different.

*Resources.* `UseInv`: owners and waiters have the semaphore in their table, which semrelease
keeps because it gives up the lock with the entry. `ShareInv` and `CountedOpens` are equations
between counts and cardinalities of sets of entries; each action adds or removes one entry, or,
in fork, one per entry of the parent that names the semaphore; for one that is not `miscounted` that
is what fork credits it with. The equation of a semaphore rests on its own count only, so that
miscounted ones leave the others alone, and `UseInv` rests on no count.

*Memory.* `MemoryOK` says that the count of a page is the cardinality of the set of table entries
that name it (`Owners`), each way of taking, sharing and giving back a page being a lemma that
adds or removes one pair; and that two entries with one page are the same place of the heap or
the code of one block (`PagesApart`), so that no process has a page twice and exit gives each
back once. `ProcsOK` says what a process in the middle of a call finds when it runs again
(`Working`): its child is still ALLOCATED and belongs to no other fork (`ChildrenApart`), the
code page it loads is still unmapped and its disk map unchanged. Without that, a fork that has
slept for memory could fill the tables of somebody else.

*What pages hold.* `SpacesInv` is added to it: every mapped page of code holds the block the disk
map names (`CodeHeld`), who has one page of another's heap has all of it (`HeapsShared`), and each
process in the middle of fork, exec or a fault has as much of its memory as it has come to
(`PlaceOK`): the child of a fork has its parent's heap and code before its stack is copied, a
load that has been woken finds its block in its page. Most steps change nothing that
`AddressSpaces` shows; the last page of a heap, the copy of the stack, the first page of code
after exec, a write and an exit are its steps. Write needs `HeapsShared`, so that all sharers see
the word, and `PagesApart`, so that nobody else does.

*Debugger.* `CountInv` ties `skip` and the flag to what was asked: steps left plus steps done
are the steps asked for; `ReportInv` says that the last write is forgotten once it was looked
at. *Machine: devices.* `DeviceInv`: `due` is 1 from a request to its transfer.

*Machine: programs.* `MachineInv` says that the registers are, at any time, those of a program at
an instruction (`Runs`), of one stopped at an exception (`Faulted`), of one whose instruction
pointer lies on top of its stack (`Waits`), or those of boot; and that the table maps each page to
its own frame, the stack's always. `Shows(u, st)` is what the program sees in each of the three.
An instruction ends with an effect on registers and memory (`Pushing`, `Popping`, `Calling`,
`Interrupting`) that `RetireWell`, `RetirePage` and `RetireFatal` take through the clocks and the
exception handler: it is seen done, or as if it had not begun, or the program is dead. Then one
lemma per instruction finds the step of `UserProgram` (`PlainStep`, `StoreStep`, ...), and one per
step of the kernel that it is not seen. That the words above the stack's top are nobody's is what
lets an interrupt, a page fault and the kernel push there (`Above`). `Good` carries along what the
step did to the devices, so that the same lemmas show that no dispatch faults while SP stays in
the stack, and `due` is 1 exactly while a device is busy (`ServedOnceInStack`).

*Disk utility.* `IInv` says, for each stage of load, rm and fdisk, which of the tables on the
disk already are those in memory and what the blocks at work hold (`LoadOK`, `RmOK`, `FdiskOK`,
`Synced`). Two facts carry the rest: the blocks of a file that is loaded are not free on the
disk before its entry is, and those of a removed one are free only after it has gone, so that
`Apart` holds of the disk after every single write; and in the inode table memory differs from
the disk in the one entry at work, so that a block of entries can be written at any time. A file
in the user table is whole always (`FilesKept`), as nothing finds it to remove it.

*File system.* `FilesInv` says what a call knows after a sleep. At the lock of its inode (`Asked`):
its open file still is of that inode and still in its table, while the file it wants to delete or
open may have gone. Past the lock (`AtWork`): it alone has the inode, the position of its open
file is the one it started from, and the block of that position is there, although others
create, delete, allocate and evict meanwhile. So calls past the lock have different files and
different open files (`WorkApart`), and a step of one leaves what the others rest on (`Left`).
`Ends` gives the block beyond the end of a file to the one call that is adding a word to it; it
is what makes the size limit and the removal of blocks agree with the free list.
The refinement needs three facts more (`WordsInv`): a buffer only holds blocks that belong in it;
a clean buffer holds what the disk does, for blocks with words of a file in them; and a call that
waits for its block has a clean buffer. So a store or a load leaves what the files contain alone
(`Content` of every block with words), though a buffer may be stored for a file that has been
deleted, and a block that was just allocated, with stale words on the disk, is seen only once a
word is written to it. Steps are then calls of `FileStore` or not seen (`...Seen`, `...Unseen`).

*Tables of the debugger.* `TablesAgree` compares each of the sixteen layouts with the kernel's;
`WalkInv` says that a display has shown the fields before the one it is at, `ptr` being base, entries
times stride and the fields' offset; `ExtentsApart`, that no table begins inside another, gives the
end. *Names of SPL programs.* `Lists` relates the list of aliases to the blocks that are open: depths
never grow along it (`Nested`), a block has one alias for a name and one for a register (`OneEach`),
and so the aliases of the innermost block are its front, which is all that `pop_alias` takes;
`ListResolves` reads off what `lookup_alias` finds.

*Loaded files.* `Filling` says that every word read so far is at its place in the blocks written or
in the one being filled (`InPlace`), and that what comes after the last is empty. The sizes are
computed by other code than the one that writes, so the rest is arithmetic: an instruction never
straddles two blocks, because a header is two words and a block an even number (`LineFits`); the
number of lines, which code is measured by, is tied to the number of words and blank lines
(`CodeWords`), and so the blocks allocated are enough and at most one too many for each reason
(`RoomForAll`). `Terminations = {TRUE}` says that every line ends in a newline, as the compilers
write them; finding 18 is what happens to others. *System code.* `LayoutInv`: a block is of the
command that wrote it last, and no two regions share a block (`RegionsApart`); after the start,
page by page, the pages hold what the load list says (`PagesLoaded`), each block once
(`LoadedOnce`), and code that was resolved for a page is loaded to that page (`CodeIsLoaded`).
*Labels.* `CodeInv`: phase one counts the instructions before each label, phase two writes one word
for each instruction it reads; both are cardinalities of sets of lines. `LongLines = FALSE` is the
code without lines longer than phase one reads at a time, again finding 18.

Facts about all files and all lists are proved by induction on a number, stated of a set of numbers
(`Induct`), since the least element of a set that is not empty is a first-order fact.

*Only model-checked:* all liveness, since it rests on fairness and ENABLED, and `CompiledRight`: the
compiler and the meaning of a program are recursive operators on trees.

## 5. How the pieces fit

The kernel models share the scheduler and cut handlers at the same places, so what one assumes
another shows: `FileSystem` lets any sleeper go on, because `BufferCache` shows that sleepers
are woken and in which order blocks move; `Processes` lets disk loads end, because `BufferCache`
has their races; all take interrupts at user-mode instructions only, which `XsmMachine` is
written from. `XsmMachine` in turn takes of the kernel that a handler ends and maps the missing
page, which `Processes` shows. `XfsLayout` ends where the Init of the kernel models begins.

## 6. Not modelled, and why

The **ExpL compiler** walks typed trees; its registers and labels are used as in the SPL
compiler, over many more kinds of nodes, and nothing in it runs concurrently. The **run-time
library** is the heap of a single program. **Programs and commands** are inputs: the models let
a process make any legal call. The **`.xsm` files** are compiled from the sources modelled.
Tokens, options, command lines, lexers and grammars have no state a property here is about.
Of the machine's kernel instructions only those the compiler model uses have their own meaning.
In `Resources` and `Processes` there is no kill-all: nothing runs after it but shutdown.

## 7. Disagreements found

Findings 1, 4 and 6 have runs that are expected to fail. The others can be seen by giving the
named property to TLC with the constants said here, or with those of the component's run; each is
the code against its own words.

Kernel.
1. `resources_wakeup`: releasing a locked semaphore wakes processes whose wait id is the
   *process number* of the releaser (`resource_manager.spl:125`), while semlock stores the
   *semaphore index* (`int_14.spl:44`). Its waiters sleep on a free semaphore.
2. Create compares names with 0 instead of its argument (`int_4.spl:26`), so a name is given twice
   (`FileSystem!NamesUnique`).
3. Write returns at the size limit or with the disk full (`int_7.spl:87`, `:102`) with
   the inode locked (`FileSystem!LocksReturned`). The next process to want it waits for ever.
4. `fs_reopened`: open looks the name up, then waits for the inode, which may be deleted and created again
   meanwhile with another name (`file_manager.spl:112`); it gives that file.
5. Create gives exclusive files the owner 0 while the current user is 1 (`int_4.spl:52`,
   `boot.spl:125`), so that nobody may write them; `Permissions = {0, 1}`.
6. `resources_sharers`: fork raises the count of the semaphore that a word of the child's page
   names before the copy has come to it (`int_8.spl:71`). The semaphore that is inherited is not
   counted, so when parent or child releases it semget gives it away under the other, whose lock
   it undoes; the one the word names stays taken when all have released it. For -1 the last open file is counted.
7. Fork counts shared open files under `R6 % 2 == 2` (`int_8.spl:74`), which never holds
   (`Resources!OpenInstanceCounts`). The first close frees the entry under the other.
8. Kill-all spares entry 15 (`process_manager.spl:173`) for a swapper this system does
   not have; get free PCB entry gives the number to any process
   (`BufferCache!KillsEveryProcess`, `SwapperPid = 2`). It goes on while shutdown stores,
   so what it writes may not be stored, and a page may be stored under the number of the
   block that was in it before shutdown waited for the disk (`int_15.spl:36`).
9. Semrelease does not test that the descriptor is a semaphore (`int_13.spl:65`); with `"FILE"`
   in `Releasable` `SharingCounts` fails, and with `"NONE"` and a file whose inode number is a
   process number `FileOpenCounts`.
10. `MAX_MEM_PAGE` is 512 while the free list has 128 entries: the search of get free page would
   run on. That the count is exact (`ProcessInv`) is what keeps it inside.
11. Init's disk map names 65 and 66, the pages its code is in, not its blocks 7 and 8
    (`boot.spl:224`); it is never used for a load.

Machine and debugger.
12. A timer interrupt dispatched on a full stack leaves the timer at -1 for good
    (`machine.c:343`; `TimerGoesOn` for all programs), a device's leaves it busy after its
    transfer (`machine.c:353`; why `ServedOnceInStack` needs `InStack`).
13. A user program may write PTLR and others (`registers.c:145`; `KernelRegistersKept`,
    `Programs <- Meddler`).
14. The handler pushes EIP through the wrong page table entry when the stack is more than half
    full (`exhandler.spl:76`; `SameEntry`, `Programs <- HalfFull`).
15. The console waits while the disk is busy (`machine.c:364`; `DevicesServed`, options 4, 3, 3).
16. A fetch of an empty word leaves a physical address in EIP (`machine.c:166`; `EipLogical`).
17. Debugger: a watched write during `continue N` is counted as a breakpoint and switches it off
    (`debug.c:133`), the 17th watch point is reported as set (`debug.c:344`;
    `AddedIsWatched`, `WatchLimit > MaxWatch`), of two words written by one instruction one is
    looked at (`machine.c:937`), and a kernel exception with a skip pending stops the machine
    without the prompt it announces (`machine.c:301`; `FaultPrompts`).

Tools.
18. `xfs-interface`: modules 8 and up are accepted and written over data blocks
    (`interface.c:209`; `DataUntouched`); a full inode table runs into the user table
    (`inode.c:36`; `UsersKept`), and the name of a file put there can be given again, as
    `getInodeEntry` does not look there (`inode.c:58`; `NamesUnique` is about inode entries); executables and system code that exactly fill their blocks are
    refused (`diskUtility.c:734`, `:507`; `FitsIsLoaded`, `FitsRegionIsLoaded`); a last line
    without newline is lost (`:363`; `LoadedWhole` with `Terminations = {FALSE}`); export and
    cat may read past the four blocks of a file (`:154`; `ShowsFile`); a line of code longer
    than an instruction shifts the labels after it (`labels.c:133`; `LongLines = TRUE`).
19. SPL compiler: the negation of a disjunction both of whose sides hold is -1, which is true
    (`spl.c:562`; `CompiledRight`, once programs may contain `NotOfOr` of `MCSplCode`); a goto to an undeclared label prints an error
    and is compiled to nothing (`spl.c:1420`; `JumpsDeclared`).

## 8. What is left

A shutdown that kills a process in the middle of fork, whose child has its parent's resource
table but not yet its user area page (`int_8.spl:105`), needs `Processes` and the kill-all of
`BufferCache` in one model. Progress of every process at a lock would need a change of the code.
The encodings of system call arguments (`int_6.spl:15`, the same expression as 14 above) are
outside every model.
