----------------------------- MODULE BufferCache -----------------------------
(***************************************************************************)
(* Buffered file access: what a read or a write system call does from the  *)
(* moment it asks for the inode lock to its return                         *)
(* (file_manager.spl 6-105), over the locks of resource_manager.spl, the   *)
(* disk requests of device_manager.spl, the disk interrupt, page loads     *)
(* that compete for the disk, and the shutdown that flushes the buffers.   *)
(*                                                                         *)
(* pc[p] is the place of p's kernel context: "user" in user mode,          *)
(* otherwise the loop or the call it is in.  Only the current process      *)
(* moves; an interrupt is taken only when it is in user mode.              *)
(***************************************************************************)
EXTENDS Scheduler

CONSTANTS Block,        \* disk blocks that hold file data
          Offset,       \* words of a block
          Word,
          DiskImage,    \* the disk at boot
          EmptyPage,    \* what a buffer page holds before its first load
          NumBuffers,   \* MAX_BUFFER
          NumInodes,    \* MAX_FILE_NUM
          FileOf,       \* the inode each block belongs to
          NumTables,    \* tables stored by shutdown (inode, user, root file, free list)
          SwapperPid    \* SWAPPER_DAEMON, which kill-all spares

Buffer == 0 .. NumBuffers - 1
Inode  == 0 .. NumInodes - 1

ASSUME CacheAssumption ==
    /\ Block \subseteq Nat
    /\ NumBuffers \in Nat \ {0} /\ NumInodes \in Nat /\ NumTables \in Nat
    /\ FileOf \in [Block -> Inode]
    /\ DiskImage \in [Block -> [Offset -> Word]]
    /\ EmptyPage \in [Offset -> Word]
    /\ SwapperPid \in Int

VARIABLES pc, call,                    \* kernel context and system call of each process
          inodeLock,                   \* [FILE_STATUS_TABLE + 4*i]
          bufLock, bufBlock, bufDirty, \* the buffer table: owner, block number, dirty bit
          page,                        \* the memory page of each buffer
          disk,                        \* the blocks on the disk
          diskBusy, diskPid,           \* [DISK_STATUS_TABLE + 0] and + 4
          device,                      \* the request the machine works on
          sweep,                       \* the loop counter of shutdown
          flushBlock,                  \* the block number shutdown has read for its store
          spared,                      \* history: kill-all left a process alive
          halted,
          delivered                    \* block, offset and word of a read, until the next call

lockVars == <<inodeLock, bufLock>>
dataVars == <<bufBlock, bufDirty, page, disk, delivered>>
diskVars == <<diskBusy, diskPid, device>>
keptVars == <<flushBlock, spared, halted>>
endVars  == <<sweep, keptVars>>
vars     == <<schedVars, pc, call, lockVars, dataVars, diskVars, endVars>>

BufferOf(b) == b % NumBuffers          \* "buffer_no = arg1%4"

Call    == [op : {"read"}, block : Block, off : Offset]
           \cup [op : {"write"}, block : Block, off : Offset, word : Word]
NoCall  == [op |-> "none"]
Places  == {"user", "inode", "buffer", "store", "storing", "load", "loading", "access",
            "page", "paging", "lockAll", "buffers", "flush", "flushing", "tables", "tabling"}
Request == [kind : {"load"}, buffer : Buffer, block : Block]
           \cup [kind : {"store"}, buffer : Buffer, block : Block \cup {None}]
           \cup [kind : {"load", "store"}, buffer : {None}, block : {None}]
NoRequest == [kind |-> "idle"]

At(c)    == ~halted /\ pc[current] = c
Goto(c)  == pc' = [pc EXCEPT ![current] = c]
MyBlock  == call[current].block
MyBuffer == BufferOf(MyBlock)
MyFile   == FileOf[MyBlock]

Init ==
    /\ BootProcessTable
    /\ pc = [p \in Pid |-> "user"]
    /\ call = [p \in Pid |-> NoCall]
    /\ inodeLock = [i \in Inode |-> None]
    /\ bufLock = [f \in Buffer |-> None]
    /\ bufBlock = [f \in Buffer |-> None]
    /\ bufDirty = [f \in Buffer |-> FALSE]
    /\ page = [f \in Buffer |-> EmptyPage]
    /\ disk = DiskImage
    /\ diskBusy = FALSE /\ diskPid = None /\ device = NoRequest
    /\ sweep = 0 /\ flushBlock = None /\ spared = FALSE /\ halted = FALSE
    /\ delivered = <<>>

-----------------------------------------------------------------------------
(* User mode: system calls, page faults and interrupts *)

(* A process in user mode reads or writes a word of an open file. *)
FileCall(c) ==
    /\ At("user") /\ current # Idle
    /\ call' = [call EXCEPT ![current] = c]
    /\ Goto("inode")
    /\ delivered' = <<>>
    /\ UNCHANGED <<schedVars, lockVars, bufBlock, bufDirty, page, disk, diskVars, endVars>>

(* A page fault on a code page that no process has in memory: the new page *)
(* is loaded under no lock but the disk's.                                 *)
PageFault ==
    /\ At("user") /\ current # Idle
    /\ Goto("page")
    /\ UNCHANGED <<schedVars, call, lockVars, dataVars, diskVars, endVars>>

(* fork, as far as the process table goes: the lowest free entry. *)
Fork(c) ==
    /\ At("user") /\ current # Idle
    /\ c >= 1 /\ status[c] = "TERMINATED"
    /\ \A d \in 1 .. c - 1 : status[d] # "TERMINATED"
    /\ status' = [status EXCEPT ![c] = "CREATED"]
    /\ UNCHANGED <<waitingOn, current, pc, call, lockVars, dataVars, diskVars, endVars>>

Exit ==
    /\ At("user") /\ current # Idle
    /\ SwitchFrom([status EXCEPT ![current] = "TERMINATED"])
    /\ UNCHANGED <<waitingOn, pc, call, lockVars, dataVars, diskVars, endVars>>

Timer ==
    /\ At("user")
    /\ Preempt
    /\ UNCHANGED <<pc, call, lockVars, dataVars, diskVars, endVars>>

(* Mutant: only the process whose request is over is woken. *)
DiskInterruptWakesOwner ==
    /\ At("user")
    /\ device # NoRequest
    /\ disk' = IF device.kind = "store" /\ device.buffer # None
               THEN [disk EXCEPT ![device.block] = page[device.buffer]] ELSE disk
    /\ page' = IF device.kind = "load" /\ device.buffer # None
               THEN [page EXCEPT ![device.buffer] = disk[device.block]] ELSE page
    /\ device' = NoRequest
    /\ diskBusy' = FALSE
    /\ status' = [status EXCEPT ![diskPid] = "READY"]
    /\ UNCHANGED <<waitingOn, current, pc, call, lockVars, bufBlock, bufDirty, delivered,
                   diskPid, endVars>>

(* The machine transfers the words only now, then raises the interrupt;    *)
(* the handler frees the disk and wakes every process that waits for it.   *)
DiskInterrupt ==
    /\ At("user")
    /\ device # NoRequest
    /\ disk' = IF device.kind = "store" /\ device.buffer # None
               THEN [disk EXCEPT ![device.block] = page[device.buffer]] ELSE disk
    /\ page' = IF device.kind = "load" /\ device.buffer # None
               THEN [page EXCEPT ![device.buffer] = disk[device.block]] ELSE page
    /\ device' = NoRequest
    /\ diskBusy' = FALSE
    /\ status' = WakeAll(status, "WAIT_DISK")
    /\ UNCHANGED <<waitingOn, current, pc, call, lockVars, bufBlock, bufDirty, delivered,
                   diskPid, endVars>>

-----------------------------------------------------------------------------
(* The locks of the resource manager *)

(* Mutant: the wait id is the process, not the inode. *)
WaitInodeOfCaller(i) ==
    /\ inodeLock[i] # None
    /\ SleepOn("WAIT_FILE", current)
    /\ UNCHANGED <<pc, call, lockVars, dataVars, diskVars, endVars>>

WaitInode(i) ==
    /\ inodeLock[i] # None
    /\ SleepOn("WAIT_FILE", i)
    /\ UNCHANGED <<pc, call, lockVars, dataVars, diskVars, endVars>>

AcquireInode ==
    /\ At("inode")
    /\ \/ WaitInode(MyFile)
       \/ /\ inodeLock[MyFile] = None
          /\ inodeLock' = [inodeLock EXCEPT ![MyFile] = current]
          /\ Goto("buffer")
          /\ UNCHANGED <<schedVars, call, bufLock, dataVars, diskVars, endVars>>

(* Mutant: a dirty buffer is overwritten without being stored. *)
AfterLockNoStore(f) == IF bufBlock[f] = MyBlock THEN "access" ELSE "load"

(* With the buffer in hand, the file manager asks what it holds. *)
AfterLock(f) == IF bufBlock[f] = MyBlock THEN "access"
                ELSE IF bufDirty[f] THEN "store" ELSE "load"

AcquireBuffer ==
    /\ At("buffer")
    /\ \/ /\ bufLock[MyBuffer] # None
          /\ SleepOn("WAIT_BUFFER", MyBuffer)
          /\ UNCHANGED <<pc, call, lockVars, dataVars, diskVars, endVars>>
       \/ /\ bufLock[MyBuffer] = None
          /\ bufLock' = [bufLock EXCEPT ![MyBuffer] = current]
          /\ Goto(AfterLock(MyBuffer))
          /\ UNCHANGED <<schedVars, call, inodeLock, dataVars, diskVars, endVars>>

-----------------------------------------------------------------------------
(* Disk requests of the device manager *)

(***************************************************************************)
(* Acquire the disk, hand the request to the machine and sleep until the   *)
(* interrupt.  The machine ignores a request while it works on another.    *)
(***************************************************************************)
DiskRequest(req, next) ==
    \/ /\ diskBusy
       /\ Sleep("WAIT_DISK")
       /\ UNCHANGED <<pc, call, lockVars, dataVars, diskVars, endVars>>
    \/ /\ ~diskBusy
       /\ diskBusy' = TRUE
       /\ diskPid' = current
       /\ device' = IF device = NoRequest THEN req ELSE device
       /\ Sleep("WAIT_DISK")
       /\ Goto(next)
       /\ UNCHANGED <<call, lockVars, dataVars, endVars>>

StoreOld ==
    /\ At("store")
    /\ DiskRequest([kind |-> "store", buffer |-> MyBuffer, block |-> bufBlock[MyBuffer]],
                   "storing")

OldStored ==
    /\ At("storing")
    /\ bufDirty' = [bufDirty EXCEPT ![MyBuffer] = FALSE]
    /\ Goto("load")
    /\ UNCHANGED <<schedVars, call, lockVars, bufBlock, page, disk, delivered,
                   diskVars, endVars>>

LoadNew ==
    /\ At("load")
    /\ DiskRequest([kind |-> "load", buffer |-> MyBuffer, block |-> MyBlock], "loading")

NewLoaded ==
    /\ At("loading")
    /\ bufBlock' = [bufBlock EXCEPT ![MyBuffer] = MyBlock]
    /\ Goto("access")
    /\ UNCHANGED <<schedVars, call, lockVars, bufDirty, page, disk, delivered,
                   diskVars, endVars>>

LoadPage ==
    /\ At("page")
    /\ DiskRequest([kind |-> "load", buffer |-> None, block |-> None], "paging")

PageLoaded ==
    /\ At("paging")
    /\ Goto("user")
    /\ UNCHANGED <<schedVars, call, lockVars, dataVars, diskVars, endVars>>

(***************************************************************************)
(* The word is read or written, then the buffer and the inode are released *)
(* and the sleepers of both are woken, with no call of the scheduler.      *)
(***************************************************************************)
Release ==
    /\ bufLock' = [bufLock EXCEPT ![MyBuffer] = None]
    /\ inodeLock' = [inodeLock EXCEPT ![MyFile] = None]
    /\ status' = Wake(Wake(status, "WAIT_BUFFER", MyBuffer), "WAIT_FILE", MyFile)
    /\ call' = [call EXCEPT ![current] = NoCall]
    /\ Goto("user")
    /\ UNCHANGED <<waitingOn, current, diskVars, endVars, bufBlock, disk>>

ReadWord ==
    /\ At("access") /\ call[current].op = "read"
    /\ delivered' = <<MyBlock, call[current].off, page[MyBuffer][call[current].off]>>
    /\ Release
    /\ UNCHANGED <<bufDirty, page>>

(* Mutant: the dirty bit is not set. *)
WriteWordClean ==
    /\ At("access") /\ call[current].op = "write"
    /\ page' = [page EXCEPT ![MyBuffer][call[current].off] = call[current].word]
    /\ Release
    /\ UNCHANGED <<bufDirty, delivered>>

WriteWord ==
    /\ At("access") /\ call[current].op = "write"
    /\ page' = [page EXCEPT ![MyBuffer][call[current].off] = call[current].word]
    /\ bufDirty' = [bufDirty EXCEPT ![MyBuffer] = TRUE]
    /\ Release
    /\ UNCHANGED delivered

-----------------------------------------------------------------------------
(* Shutdown: lock every inode, kill, flush the buffers, store the tables *)

(* Mutants: any process may shut down; shutdown kills without the inode locks. *)
BeginShutdownByAny ==
    /\ At("user") /\ current # Idle
    /\ Goto("lockAll")
    /\ sweep' = 0
    /\ UNCHANGED <<schedVars, call, lockVars, dataVars, diskVars, keptVars>>

BeginShutdownAtOnce ==
    /\ At("user") /\ current = Root
    /\ Goto("lockAll")
    /\ sweep' = NumInodes
    /\ UNCHANGED <<schedVars, call, lockVars, dataVars, diskVars, keptVars>>

BeginShutdown ==
    /\ At("user") /\ current = Root
    /\ Goto("lockAll")
    /\ sweep' = 0
    /\ UNCHANGED <<schedVars, call, lockVars, dataVars, diskVars, keptVars>>

LockNextInode ==
    /\ At("lockAll") /\ sweep < NumInodes
    /\ \/ WaitInode(sweep)
       \/ /\ inodeLock[sweep] = None
          /\ inodeLock' = [inodeLock EXCEPT ![sweep] = current]
          /\ sweep' = sweep + 1
          /\ UNCHANGED <<schedVars, pc, call, bufLock, dataVars, diskVars, keptVars>>

Victim(p) == p >= 2 /\ p # SwapperPid /\ p # current

(* A killed process never runs again: its kernel context is gone.  The     *)
(* number that is spared is one that fork gives to any process.            *)
KillAll ==
    /\ At("lockAll") /\ sweep = NumInodes
    /\ status' = [p \in Pid |-> IF Victim(p) THEN "TERMINATED"
                                ELSE IF p >= 1 /\ status[p] = "WAIT_FILE" THEN "READY"
                                ELSE status[p]]
    /\ pc' = [p \in Pid |-> IF Victim(p) THEN "user" ELSE IF p = current THEN "buffers" ELSE pc[p]]
    /\ call' = [p \in Pid |-> IF Victim(p) THEN NoCall ELSE call[p]]
    /\ inodeLock' = [i \in Inode |-> None]
    /\ sweep' = 0
    /\ spared' = \E p \in Pid : p >= 2 /\ ~Victim(p) /\ status[p] # "TERMINATED"
    /\ UNCHANGED <<waitingOn, current, bufLock, dataVars, diskVars, flushBlock, halted>>

(* Mutant: the loop stops one buffer short. *)
NextButLast ==
    /\ At("buffers")
    /\ \/ /\ sweep < NumBuffers - 1 /\ bufDirty[sweep]
          /\ flushBlock' = bufBlock[sweep]
          /\ Goto("flush")
          /\ UNCHANGED sweep
       \/ /\ sweep < NumBuffers - 1 /\ ~bufDirty[sweep]
          /\ sweep' = sweep + 1
          /\ UNCHANGED <<pc, flushBlock>>
       \/ /\ sweep = NumBuffers - 1
          /\ sweep' = 0
          /\ Goto("tables")
          /\ UNCHANGED flushBlock
    /\ UNCHANGED <<schedVars, call, lockVars, dataVars, diskVars, spared, halted>>

(* The number of the block is read here, before the wait for the disk.     *)
NextBuffer ==
    /\ At("buffers")
    /\ \/ /\ sweep < NumBuffers /\ bufDirty[sweep]
          /\ flushBlock' = bufBlock[sweep]
          /\ Goto("flush")
          /\ UNCHANGED sweep
       \/ /\ sweep < NumBuffers /\ ~bufDirty[sweep]
          /\ sweep' = sweep + 1
          /\ UNCHANGED <<pc, flushBlock>>
       \/ /\ sweep = NumBuffers
          /\ sweep' = 0
          /\ Goto("tables")
          /\ UNCHANGED flushBlock
    /\ UNCHANGED <<schedVars, call, lockVars, dataVars, diskVars, spared, halted>>

FlushBuffer ==
    /\ At("flush")
    /\ DiskRequest([kind |-> "store", buffer |-> sweep, block |-> flushBlock], "flushing")

(* The store is over: on to the next buffer, or to the next table. *)
NextStore ==
    /\ \/ At("flushing") /\ Goto("buffers")
       \/ At("tabling") /\ Goto("tables")
    /\ sweep' = sweep + 1
    /\ UNCHANGED <<schedVars, call, lockVars, dataVars, diskVars, keptVars>>

StoreTable ==
    /\ At("tables") /\ sweep < NumTables
    /\ DiskRequest([kind |-> "store", buffer |-> None, block |-> None], "tabling")

Halt ==
    /\ At("tables") /\ sweep = NumTables
    /\ halted' = TRUE
    /\ UNCHANGED <<schedVars, pc, call, lockVars, dataVars, diskVars, sweep, flushBlock, spared>>

(* After HALT the machine stops and nothing moves. *)
Halted == halted /\ UNCHANGED vars

-----------------------------------------------------------------------------
Kernel ==
    \/ AcquireInode \/ AcquireBuffer
    \/ StoreOld \/ OldStored \/ LoadNew \/ NewLoaded \/ LoadPage \/ PageLoaded
    \/ ReadWord \/ WriteWord
    \/ LockNextInode \/ KillAll \/ NextBuffer \/ FlushBuffer \/ NextStore \/ StoreTable \/ Halt

SystemCall ==
    \/ \E c \in Call : FileCall(c)
    \/ PageFault \/ Exit \/ BeginShutdown
    \/ \E c \in Pid : Fork(c)

Next == Kernel \/ SystemCall \/ Timer \/ DiskInterrupt \/ Halted

Spec == Init /\ [][Next]_vars

(***************************************************************************)
(* Kernel code always runs on.  The machine counts the timer and the disk  *)
(* down on every USER-mode instruction, and every kernel path ends in user *)
(* mode, if only of the idle process: each fires again and again as long   *)
(* as it is due again and again, though other processes may get in between.*)
(***************************************************************************)
FairSpec == Spec /\ WF_vars(Kernel) /\ SF_vars(Timer) /\ SF_vars(DiskInterrupt)

-----------------------------------------------------------------------------
(* Properties *)

TypeOK ==
    /\ SchedTypeOK
    /\ pc \in [Pid -> Places]
    /\ call \in [Pid -> Call \cup {NoCall}]
    /\ inodeLock \in [Inode -> Pid \cup {None}]
    /\ bufLock \in [Buffer -> Pid \cup {None}]
    /\ bufBlock \in [Buffer -> Block \cup {None}]
    /\ bufDirty \in [Buffer -> BOOLEAN]
    /\ page \in [Buffer -> [Offset -> Word]]
    /\ disk \in [Block -> [Offset -> Word]]
    /\ diskBusy \in BOOLEAN
    /\ diskPid \in Pid \cup {None}
    /\ device \in Request \cup {NoRequest}
    /\ sweep \in Nat
    /\ flushBlock \in Block \cup {None}
    /\ spared \in BOOLEAN /\ halted \in BOOLEAN
    /\ delivered \in (Block \X Offset \X Word) \cup {<<>>}

InBuffer == {"store", "storing", "load", "loading", "access"}
InFile   == InBuffer \cup {"inode", "buffer"}
Waiting  == {"storing", "loading", "paging", "flushing", "tabling"}
Ending   == {"lockAll", "buffers", "flush", "flushing", "tables", "tabling"}

UsesBuffer(p, f) == pc[p] \in InBuffer /\ BufferOf(call[p].block) = f
UsesInode(p, i)  ==
    \/ pc[p] \in InBuffer \cup {"buffer"} /\ FileOf[call[p].block] = i
    \/ pc[p] = "lockAll" /\ i < sweep

(***************************************************************************)
(* A buffer or an inode is locked by exactly the process that works on it, *)
(* so two processes never do, across every sleep inside the disk driver.   *)
(***************************************************************************)
LockOwners ==
    /\ \A f \in Buffer, p \in Pid : bufLock[f] = p <=> UsesBuffer(p, f)
    /\ \A i \in Inode, p \in Pid : inodeLock[i] = p <=> UsesInode(p, i)

(***************************************************************************)
(* Whoever sleeps has somebody to wake it: a process that waits for a      *)
(* buffer or an inode waits for one that is still locked, a process that   *)
(* waits for the disk waits for a request the machine is working on.       *)
(***************************************************************************)
NoLostWakeup ==
    \A p \in Pid :
        /\ status[p] = "WAIT_BUFFER" => /\ waitingOn[p] \in Buffer
                                        /\ bufLock[waitingOn[p]] # None
        /\ status[p] = "WAIT_FILE" => /\ waitingOn[p] \in Inode
                                      /\ inodeLock[waitingOn[p]] # None
        /\ status[p] = "WAIT_DISK" => device # NoRequest

(***************************************************************************)
(* The kernel's idea of the disk is the machine's: free means idle, so no  *)
(* request is ever dropped by a busy machine, and a process that sleeps on *)
(* a request it has issued is the one the disk belongs to.                 *)
(***************************************************************************)
DiskInSync ==
    /\ diskBusy <=> device # NoRequest
    /\ \A p \in Pid : pc[p] \in Waiting /\ status[p] = "WAIT_DISK" => diskPid = p

(***************************************************************************)
(* The invariant that carries the lock properties from step to step: it    *)
(* says, besides them, where in the kernel a process can be while it       *)
(* sleeps, that only Root shuts down and that the idle process never       *)
(* leaves user mode.                                                       *)
(***************************************************************************)
CallOK == \A p \in Pid : pc[p] \in InFile => call[p] \in Call

SleepPlaces ==
    \A p \in Pid :
        /\ status[p] \in {"READY", "RUNNING", "CREATED", "TERMINATED",
                          "WAIT_DISK", "WAIT_FILE", "WAIT_BUFFER"}
        /\ status[p] \in {"CREATED", "TERMINATED"} => pc[p] = "user"
        /\ status[p] = "WAIT_BUFFER" =>
              pc[p] = "buffer" /\ waitingOn[p] = BufferOf(call[p].block)
        /\ status[p] = "WAIT_FILE" =>
              \/ pc[p] = "inode" /\ waitingOn[p] = FileOf[call[p].block]
              \/ pc[p] = "lockAll" /\ waitingOn[p] = sweep /\ sweep < NumInodes
        /\ status[p] = "WAIT_DISK" =>
              pc[p] \in {"store", "load", "page", "flush", "tables"} \cup Waiting

RootEnds ==
    /\ pc[Idle] = "user"
    /\ \A p \in Pid : pc[p] \in Ending => p = Root
    /\ \A p \in Pid : pc[p] = "lockAll" => sweep <= NumInodes
    /\ \A p \in Pid : pc[p] = "flush" => sweep \in Buffer

LockInv ==
    /\ TypeOK /\ OneRunning /\ CallOK /\ SleepPlaces /\ RootEnds
    /\ LockOwners /\ NoLostWakeup /\ DiskInSync

(***************************************************************************)
(* A process that wakes from its own request finds it done: a store has    *)
(* written the page, a load has filled it.                                 *)
(***************************************************************************)
TransferDone ==
    \A p \in Pid : status[p] # "WAIT_DISK" =>
        LET f == BufferOf(call[p].block) IN
        /\ pc[p] = "storing" => page[f] = disk[bufBlock[f]]
        /\ pc[p] = "loading" => page[f] = disk[call[p].block]

(***************************************************************************)
(* A clean buffer that nobody is filling holds what the disk holds.        *)
(***************************************************************************)
CleanMatchesDisk ==
    \A f \in Buffer :
        \/ bufBlock[f] = None \/ bufDirty[f]
        \/ page[f] = disk[bufBlock[f]]
        \/ \E p \in Pid : pc[p] = "loading" /\ UsesBuffer(p, f)

(***************************************************************************)
(* Buffers and disk agree wherever the code relies on it: after a transfer *)
(* and in every clean buffer (file_manager.spl:17-44, 69-94).              *)
(***************************************************************************)
DataInv == TransferDone /\ CleanMatchesDisk

(***************************************************************************)
(* The processes that wait for each other's locks never form a circle,     *)
(* though shutdown holds every inode it has reached while it waits for the *)
(* next one, and a reader holds its inode while it waits for a buffer.     *)
(***************************************************************************)
WaitsFor(p, q) ==
    \/ status[p] = "WAIT_BUFFER" /\ bufLock[waitingOn[p]] = q
    \/ status[p] = "WAIT_FILE" /\ inodeLock[waitingOn[p]] = q

NoCircularWait ==
    \A S \in SUBSET Pid : S # {} => \E p \in S : \A q \in S : ~WaitsFor(p, q)

(* The content of a block: in its buffer while that is dirty, else on disk. *)
Content(b) == LET f == BufferOf(b) IN
              IF bufDirty[f] /\ bufBlock[f] = b THEN page[f] ELSE disk[b]

(***************************************************************************)
(* When the machine halts after a shutdown that killed every process,      *)
(* nothing that was written is missing from the disk.                      *)
(***************************************************************************)
ShutdownDurable == halted /\ ~spared => \A b \in Block : disk[b] = Content(b)

(***************************************************************************)
(* Once shutdown has begun to flush, no buffer is in use and every process *)
(* but it and the idle one is dead, unless the number that kill-all spares *)
(* was that of a process.                                                  *)
(***************************************************************************)
KillAllKills ==
    pc[Root] \in Ending \ {"lockAll"} /\ ~spared =>
        /\ \A p \in Pid : p >= 2 => status[p] = "TERMINATED"
        /\ \A f \in Buffer : bufLock[f] = None

(***************************************************************************)
(* "kill all user processes" (int_15.spl 22), "exit each process"          *)
(* (process_manager.spl 170), before the buffers are stored.               *)
(***************************************************************************)
KillsEveryProcess ==
    pc[Root] \in Ending \ {"lockAll"} => \A p \in Pid : p >= 2 => status[p] = "TERMINATED"

(***************************************************************************)
(* Reads and writes through the four buffers are reads and writes of the   *)
(* blocks: each takes effect at one moment, and a read returns the word    *)
(* last written, whatever was evicted and loaded in between.  Only if a    *)
(* process runs on during shutdown may a block get the words of another.   *)
(***************************************************************************)
Store == INSTANCE BlockStore WITH store <- [b \in Block |-> Content(b)]
ImplementsStore == Store!Spec

(***************************************************************************)
(* Round robin starves nobody: a process that can run is run, or killed.   *)
(***************************************************************************)
ReadyRuns ==
    \A p \in Pid : Runnable(status[p]) ~> current = p \/ status[p] = "TERMINATED" \/ halted

(***************************************************************************)
(* Nobody sleeps on the disk for ever.                                     *)
(***************************************************************************)
DiskWakes ==
    \A p \in Pid : status[p] = "WAIT_DISK" ~> status[p] # "WAIT_DISK"

(***************************************************************************)
(* The wake-all locks do not livelock: as long as processes are in system  *)
(* calls, calls keep completing.                                           *)
(***************************************************************************)
NoLivelock ==
    \/ []<><<ReadWord \/ WriteWord \/ PageLoaded>>_vars
    \/ <>[](halted \/ \A p \in Pid : pc[p] = "user" \/ status[p] = "TERMINATED")
=============================================================================
