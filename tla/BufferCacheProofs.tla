-------------------------- MODULE BufferCacheProofs --------------------------
(***************************************************************************)
(* Buffered file access, for every number of processes, buffers, inodes    *)
(* and blocks.  First the locks: who holds them, and that nobody waits in  *)
(* a circle.  Then what the buffers hold: transfers are over when the code *)
(* says so, shutdown leaves nothing in memory, and buffered access         *)
(* implements the block store.                                             *)
(***************************************************************************)
EXTENDS BufferCache, TLAPS

(* What a call of the scheduler does to the process table. *)
LEMMA SwitchEffect ==
    ASSUME NEW st \in [Pid -> State], SwitchFrom(st)
    PROVE  /\ current' \in Pid /\ Runnable(st[current'])
           /\ status' = [st EXCEPT ![current'] = "RUNNING"]
           /\ status' \in [Pid -> State]
BY DEF SwitchFrom, NextInTurn, State

(* Waking leaves every process ready or as it was. *)
LEMMA WakeEffect ==
    ASSUME NEW st \in [Pid -> State], NEW why \in Sleeping, NEW id
    PROVE  /\ Wake(st, why, id) \in [Pid -> State]
           /\ WakeAll(st, why) \in [Pid -> State]
BY DEF Wake, WakeAll, State

(* A process that goes to sleep hands the processor to another one. *)
LEMMA SleepEffect ==
    ASSUME SchedTypeOK, NEW why \in Sleeping,
           SwitchFrom([status EXCEPT ![current] = why])
    PROVE  /\ status' \in [Pid -> State]
           /\ current' \in Pid /\ current' # current
           /\ Runnable(status[current'])
           /\ status'[current] = why /\ status'[current'] = "RUNNING"
           /\ \A p \in Pid : p # current /\ p # current' => status'[p] = status[p]
<1> DEFINE st == [status EXCEPT ![current] = why]
<1>1. st \in [Pid -> State] /\ ~Runnable(st[current])
  BY DEF SchedTypeOK, State, Sleeping, Runnable
<1>2. /\ current' \in Pid /\ Runnable(st[current'])
      /\ status' = [st EXCEPT ![current'] = "RUNNING"]
      /\ status' \in [Pid -> State]
  BY <1>1, SwitchEffect
<1>3. current' # current
  BY <1>1, <1>2
<1> QED BY <1>1, <1>2, <1>3 DEF SchedTypeOK

(* A block's buffer exists, whatever the block. *)
LEMMA BufferOfType == \A b \in Block : BufferOf(b) \in Buffer
BY CacheAssumption DEF BufferOf, Buffer

LEMMA InitTypeOK == Init => TypeOK
<1> SUFFICES ASSUME Init PROVE TypeOK
  OBVIOUS
<1>1. SchedTypeOK
  BY NumProcsAssumption
     DEF Init, SchedTypeOK, BootProcessTable, State, Sleeping, Pid, Idle, Root
<1>2. /\ pc \in [Pid -> Places] /\ call \in [Pid -> Call \cup {NoCall}]
      /\ inodeLock \in [Inode -> Pid \cup {None}]
      /\ bufLock \in [Buffer -> Pid \cup {None}]
      /\ bufBlock \in [Buffer -> Block \cup {None}]
      /\ bufDirty \in [Buffer -> BOOLEAN]
  BY DEF Init, Places
<1>3. /\ page \in [Buffer -> [Offset -> Word]]
      /\ disk \in [Block -> [Offset -> Word]]
  BY CacheAssumption DEF Init
<1>4. /\ diskBusy \in BOOLEAN /\ diskPid \in Pid \cup {None}
      /\ device \in Request \cup {NoRequest}
      /\ sweep \in Nat /\ flushBlock \in Block \cup {None}
      /\ spared \in BOOLEAN /\ halted \in BOOLEAN
      /\ delivered \in (Block \X Offset \X Word) \cup {<<>>}
  BY DEF Init
<1> QED BY <1>1, <1>2, <1>3, <1>4 DEF TypeOK

(* The types hold in every step of user mode and of the interrupts. *)
LEMMA UserTypeOK ==
    ASSUME TypeOK, SystemCall \/ Timer \/ DiskInterrupt
    PROVE  TypeOK'
<1> USE DEF TypeOK, SchedTypeOK, Goto
<1>1. ASSUME NEW c \in Call, FileCall(c) PROVE TypeOK'
  BY <1>1 DEF FileCall, schedVars, lockVars, diskVars, endVars, keptVars, Places
<1>2. CASE PageFault
  BY <1>2 DEF PageFault, schedVars, lockVars, dataVars, diskVars, endVars, keptVars, Places
<1>3. CASE Exit
  <2>1. [status EXCEPT ![current] = "TERMINATED"] \in [Pid -> State]
    BY DEF State
  <2>2. status' \in [Pid -> State] /\ current' \in Pid
    BY <1>3, <2>1, SwitchEffect DEF Exit
  <2> QED BY <1>3, <2>2 DEF Exit, lockVars, dataVars, diskVars, endVars, keptVars
<1>4. CASE BeginShutdown
  BY <1>4 DEF BeginShutdown, schedVars, lockVars, dataVars, diskVars, keptVars, Places
<1>5. ASSUME NEW c \in Pid, Fork(c) PROVE TypeOK'
  BY <1>5 DEF Fork, lockVars, dataVars, diskVars, endVars, keptVars, State
<1>6. CASE Timer
  <2>1. [status EXCEPT ![current] = "READY"] \in [Pid -> State]
    BY DEF State
  <2>2. status' \in [Pid -> State] /\ current' \in Pid
    BY <1>6, <2>1, SwitchEffect DEF Timer, Preempt
  <2> QED BY <1>6, <2>2 DEF Timer, Preempt, lockVars, dataVars, diskVars, endVars, keptVars
<1>7. CASE DiskInterrupt
  <2>1. status' \in [Pid -> State]
    BY <1>7, WakeEffect DEF DiskInterrupt, Sleeping
  <2>2. page' \in [Buffer -> [Offset -> Word]]
    <3>1. CASE device.kind = "load" /\ device.buffer # None
      <4>1. device.buffer \in Buffer /\ device.block \in Block
        BY <1>7, <3>1 DEF DiskInterrupt, Request, NoRequest
      <4> QED BY <1>7, <3>1, <4>1 DEF DiskInterrupt
    <3>2. CASE ~(device.kind = "load" /\ device.buffer # None)
      BY <1>7, <3>2 DEF DiskInterrupt
    <3> QED BY <3>1, <3>2
  <2>3. disk' \in [Block -> [Offset -> Word]]
    <3>1. CASE device.kind = "store" /\ device.buffer # None
      <4>1. device.buffer \in Buffer
        BY <1>7, <3>1 DEF DiskInterrupt, Request, NoRequest
      <4> QED BY <1>7, <3>1, <4>1 DEF DiskInterrupt
    <3>2. CASE ~(device.kind = "store" /\ device.buffer # None)
      BY <1>7, <3>2 DEF DiskInterrupt
    <3> QED BY <3>1, <3>2
  <2> QED BY <1>7, <2>1, <2>2, <2>3 DEF DiskInterrupt, lockVars, endVars, keptVars
<1> QED BY <1>1, <1>2, <1>3, <1>4, <1>5, <1>6, <1>7 DEF SystemCall

(* A disk request keeps the types. *)
LEMMA RequestTypeOK ==
    ASSUME TypeOK, NEW req \in Request, NEW next \in Places, DiskRequest(req, next)
    PROVE  TypeOK'
<1>1. /\ status' \in [Pid -> State] /\ current' \in Pid /\ waitingOn' = waitingOn
  BY SleepEffect DEF DiskRequest, Sleep, TypeOK, Sleeping
<1>2. CASE diskBusy
  BY <1>1, <1>2 DEF DiskRequest, TypeOK, SchedTypeOK, lockVars, dataVars, diskVars, endVars, keptVars
<1>3. CASE ~diskBusy
  BY <1>1, <1>3
     DEF DiskRequest, Goto, TypeOK, SchedTypeOK, lockVars, dataVars, endVars, keptVars
<1> QED BY <1>2, <1>3

(* Where a sleeping reader or writer works, its block, buffer and file exist. *)
LEMMA MyBlockType ==
    ASSUME TypeOK, CallOK, pc[current] \in InFile
    PROVE  /\ call[current] \in Call
           /\ MyBlock \in Block /\ MyBuffer \in Buffer /\ MyFile \in Inode
           /\ call[current].off \in Offset
<1>1. call[current] \in Call
  BY DEF TypeOK, SchedTypeOK, CallOK
<1>2. MyBlock \in Block /\ call[current].off \in Offset
  BY <1>1 DEF Call, MyBlock
<1> QED BY <1>1, <1>2, BufferOfType, CacheAssumption DEF MyBuffer, MyFile

(* The types hold in every step of the kernel. *)
LEMMA KernelTypeOK ==
    ASSUME TypeOK, CallOK, RootEnds, Kernel
    PROVE  TypeOK'
<1>1. CASE AcquireInode
  <2>1. MyFile \in Inode /\ MyFile \in Int
    BY <1>1, MyBlockType, CacheAssumption DEF AcquireInode, At, InFile, Inode
  <2>2. CASE WaitInode(MyFile)
    <3>1. status' \in [Pid -> State] /\ current' \in Pid
      BY <2>2, SleepEffect DEF WaitInode, SleepOn, Sleeping, TypeOK
    <3> QED
      BY <2>1, <2>2, <3>1
         DEF WaitInode, SleepOn, TypeOK, SchedTypeOK, lockVars, dataVars, diskVars, endVars, keptVars
  <2>3. CASE ~WaitInode(MyFile)
    BY <1>1, <2>1, <2>3
       DEF AcquireInode, Goto, Places, TypeOK, SchedTypeOK, schedVars, dataVars, diskVars, endVars, keptVars
  <2> QED BY <2>2, <2>3
<1>2. CASE AcquireBuffer
  <2>1. MyBuffer \in Buffer /\ MyBuffer \in Int
    BY <1>2, MyBlockType DEF AcquireBuffer, At, InFile, Buffer
  <2>2. CASE bufLock[MyBuffer] # None
    <3>1. status' \in [Pid -> State] /\ current' \in Pid
      BY <1>2, <2>2, SleepEffect DEF AcquireBuffer, SleepOn, Sleeping, TypeOK
    <3> QED
      BY <1>2, <2>1, <2>2, <3>1
         DEF AcquireBuffer, SleepOn, TypeOK, SchedTypeOK, lockVars, dataVars, diskVars, endVars, keptVars
  <2>3. CASE bufLock[MyBuffer] = None
    <3>1. AfterLock(MyBuffer) \in Places
      BY DEF AfterLock, Places
    <3> QED
      BY <1>2, <2>1, <2>3, <3>1, ZenonT(40)
         DEF AcquireBuffer, Goto, TypeOK, SchedTypeOK, schedVars, dataVars, diskVars, endVars, keptVars
  <2> QED BY <2>2, <2>3
<1>3. CASE StoreOld
  <2>1. [kind |-> "store", buffer |-> MyBuffer, block |-> bufBlock[MyBuffer]] \in Request
    BY <1>3, MyBlockType DEF StoreOld, At, InFile, InBuffer, Request, TypeOK
  <2> QED BY <1>3, <2>1, RequestTypeOK DEF StoreOld, Places
<1>4. CASE LoadNew
  <2>1. [kind |-> "load", buffer |-> MyBuffer, block |-> MyBlock] \in Request
    BY <1>4, MyBlockType DEF LoadNew, At, InFile, InBuffer, Request
  <2> QED BY <1>4, <2>1, RequestTypeOK DEF LoadNew, Places
<1>5. CASE LoadPage
  <2>1. [kind |-> "load", buffer |-> None, block |-> None] \in Request
    BY DEF Request
  <2> QED BY <1>5, <2>1, RequestTypeOK DEF LoadPage, Places
<1>6. CASE OldStored
  BY <1>6 DEF OldStored, Goto, Places, TypeOK, SchedTypeOK, schedVars, lockVars, diskVars, endVars, keptVars
<1>7. CASE NewLoaded
  <2>1. MyBlock \in Block /\ MyBuffer \in Buffer
    BY <1>7, MyBlockType DEF NewLoaded, At, InFile, InBuffer
  <2> QED
    BY <1>7, <2>1
       DEF NewLoaded, Goto, Places, TypeOK, SchedTypeOK, schedVars, lockVars, diskVars, endVars, keptVars
<1>8. CASE PageLoaded
  BY <1>8 DEF PageLoaded, Goto, Places, TypeOK, SchedTypeOK, schedVars, lockVars, dataVars,
              diskVars, endVars, keptVars
<1>9. CASE ReadWord \/ WriteWord
  <2>1. /\ MyBlock \in Block /\ MyBuffer \in Buffer /\ MyFile \in Inode
        /\ call[current] \in Call /\ call[current].off \in Offset
    BY <1>9, MyBlockType DEF ReadWord, WriteWord, At, InFile, InBuffer
  <2>2. Release
    BY <1>9 DEF ReadWord, WriteWord
  <2>3. status' \in [Pid -> State]
    <3>1. Wake(status, "WAIT_BUFFER", MyBuffer) \in [Pid -> State]
      BY WakeEffect DEF Sleeping, TypeOK, SchedTypeOK
    <3> QED BY <2>2, <3>1, WakeEffect DEF Release, Sleeping
  <2>4. page' \in [Buffer -> [Offset -> Word]]
    <3>1. CASE ReadWord
      BY <3>1 DEF ReadWord, TypeOK
    <3>2. CASE WriteWord
      <4>1. call[current].word \in Word
        BY <2>1, <3>2 DEF WriteWord, Call
      <4> QED BY <2>1, <3>2, <4>1 DEF WriteWord, TypeOK
    <3> QED BY <1>9, <3>1, <3>2
  <2>5. delivered' \in (Block \X Offset \X Word) \cup {<<>>}
    <3>1. page[MyBuffer][call[current].off] \in Word
      BY <2>1 DEF TypeOK
    <3>2. delivered' = delivered \/
          delivered' = <<MyBlock, call[current].off, page[MyBuffer][call[current].off]>>
      BY <1>9 DEF ReadWord, WriteWord
    <3> QED BY <2>1, <3>1, <3>2 DEF TypeOK
  <2>6. bufDirty' \in [Buffer -> BOOLEAN]
    BY <1>9 DEF ReadWord, WriteWord, TypeOK
  <2> QED
    BY <2>2, <2>3, <2>4, <2>5, <2>6
       DEF Release, Goto, Places, TypeOK, SchedTypeOK, diskVars, endVars, keptVars
<1>10. CASE LockNextInode
  <2>1. sweep \in Inode /\ sweep \in Int
    BY <1>10, CacheAssumption DEF LockNextInode, Inode, TypeOK
  <2>2. CASE WaitInode(sweep)
    <3>1. status' \in [Pid -> State] /\ current' \in Pid
      BY <2>2, SleepEffect DEF WaitInode, SleepOn, Sleeping, TypeOK
    <3> QED
      BY <2>1, <2>2, <3>1
         DEF WaitInode, SleepOn, TypeOK, SchedTypeOK, lockVars, dataVars, diskVars, endVars, keptVars
  <2>3. CASE ~WaitInode(sweep)
    BY <1>10, <2>1, <2>3
       DEF LockNextInode, TypeOK, SchedTypeOK, schedVars, dataVars, diskVars, keptVars
  <2> QED BY <2>2, <2>3
<1>11. CASE KillAll
  <2>1. status' \in [Pid -> State]
    BY <1>11 DEF KillAll, State, TypeOK, SchedTypeOK
  <2>2. pc' \in [Pid -> Places] /\ call' \in [Pid -> Call \cup {NoCall}]
    BY <1>11 DEF KillAll, Places, TypeOK
  <2> QED BY <1>11, <2>1, <2>2 DEF KillAll, TypeOK, SchedTypeOK, dataVars, diskVars
<1>12. CASE FlushBuffer
  <2>1. sweep \in Buffer
    BY <1>12 DEF FlushBuffer, At, RootEnds, TypeOK, SchedTypeOK
  <2>2. [kind |-> "store", buffer |-> sweep, block |-> flushBlock] \in Request
    BY <2>1 DEF Request, TypeOK
  <2> QED BY <1>12, <2>2, RequestTypeOK DEF FlushBuffer, Places
<1>13. CASE NextStore
  <2>1. /\ \E c \in {"buffers", "tables"} : pc' = [pc EXCEPT ![current] = c]
        /\ sweep' = sweep + 1
        /\ UNCHANGED <<schedVars, call, lockVars, dataVars, diskVars, keptVars>>
    BY <1>13 DEF NextStore, Goto
  <2> QED
    BY <2>1 DEF Places, TypeOK, SchedTypeOK, schedVars, lockVars, dataVars, diskVars, keptVars
<1>14. CASE StoreTable
  <2>1. [kind |-> "store", buffer |-> None, block |-> None] \in Request
    BY DEF Request
  <2> QED BY <1>14, <2>1, RequestTypeOK DEF StoreTable, Places
<1>15. CASE Halt
  BY <1>15 DEF Halt, TypeOK, SchedTypeOK, schedVars, lockVars, dataVars, diskVars
<1>16. CASE NextBuffer
  <2>1. /\ \/ pc' = pc \/ \E c \in {"flush", "tables"} : pc' = [pc EXCEPT ![current] = c]
        /\ sweep' \in {sweep, sweep + 1, 0}
        /\ \/ flushBlock' = flushBlock
           \/ sweep < NumBuffers /\ flushBlock' = bufBlock[sweep]
        /\ UNCHANGED <<schedVars, call, lockVars, dataVars, diskVars, spared, halted>>
    BY <1>16 DEF NextBuffer, Goto
  <2>2. flushBlock' \in Block \cup {None}
    BY <2>1, CacheAssumption DEF Buffer, TypeOK
  <2> QED
    BY <2>1, <2>2 DEF Places, TypeOK, SchedTypeOK, schedVars, lockVars, dataVars, diskVars
<1> QED
  BY <1>1, <1>2, <1>3, <1>4, <1>5, <1>6, <1>7, <1>8, <1>9, <1>10, <1>11, <1>12, <1>13,
     <1>14, <1>15, <1>16 DEF Kernel

(* The locks are free at boot and nobody sleeps. *)
LEMMA InitLockInv == Init => LockInv
<1> SUFFICES ASSUME Init PROVE LockInv
  OBVIOUS
<1>1. TypeOK
  BY InitTypeOK
<1>2. OneRunning
  BY NumProcsAssumption DEF Init, BootProcessTable, OneRunning, Pid, Idle, Root
<1>3. CallOK /\ SleepPlaces /\ RootEnds
  BY NumProcsAssumption
     DEF Init, BootProcessTable, CallOK, SleepPlaces, RootEnds, InFile, InBuffer, Ending,
         Pid, Idle, Root
<1>4. LockOwners
  BY DEF Init, LockOwners, UsesBuffer, UsesInode, InBuffer, Pid, None
<1>5. NoLostWakeup /\ DiskInSync
  BY NumProcsAssumption
     DEF Init, BootProcessTable, NoLostWakeup, DiskInSync, Waiting, Pid, Idle, Root
<1> QED BY <1>1, <1>2, <1>3, <1>4, <1>5 DEF LockInv

(***************************************************************************)
(* The current process gives up the processor in state s and nothing else  *)
(* changes: it must be in a place where it may sleep in that state, on     *)
(* something that is not free.                                             *)
(***************************************************************************)
LEMMA GiveUp ==
    ASSUME LockInv, TypeOK',
           NEW s \in {"READY", "TERMINATED", "WAIT_DISK", "WAIT_FILE", "WAIT_BUFFER"},
           NEW w,
           SwitchFrom([status EXCEPT ![current] = s]),
           waitingOn' = [waitingOn EXCEPT ![current] = w],
           UNCHANGED <<pc, call, inodeLock, bufLock, sweep, diskBusy, diskPid, device>>,
           s = "READY" \/ current # Idle,
           s = "TERMINATED" => pc[current] = "user",
           s = "WAIT_BUFFER" => /\ pc[current] = "buffer" /\ w = MyBuffer
                                /\ w \in Buffer /\ bufLock[w] # None,
           s = "WAIT_FILE" => /\ \/ pc[current] = "inode" /\ w = MyFile
                                 \/ pc[current] = "lockAll" /\ w = sweep /\ sweep < NumInodes
                              /\ w \in Inode /\ inodeLock[w] # None,
           s = "WAIT_DISK" => /\ pc[current] \in {"store", "load", "page", "flush", "tables"}
                              /\ device # NoRequest
    PROVE  LockInv'
<1> DEFINE st == [status EXCEPT ![current] = s]
<1>1. status \in [Pid -> State] /\ current \in Pid /\ waitingOn \in [Pid -> Int] /\ s \in State
  BY DEF LockInv, TypeOK, SchedTypeOK, State, Sleeping
<1>2. /\ st \in [Pid -> State]
      /\ current' \in Pid /\ Runnable(st[current'])
      /\ status' = [st EXCEPT ![current'] = "RUNNING"]
  BY <1>1, SwitchEffect
<1>3. /\ \A p \in Pid : p = current' => status'[p] = "RUNNING"
      /\ \A p \in Pid : p # current' /\ p = current => status'[p] = s
      /\ \A p \in Pid : p # current' /\ p # current => status'[p] = status[p]
  BY <1>1, <1>2
<1>4. OneRunning'
  <2>1. \A p \in Pid : status'[p] = "RUNNING" <=> p = current'
    BY <1>1, <1>2, <1>3 DEF LockInv, OneRunning
  <2>2. Idle \in Pid
    BY NumProcsAssumption DEF Idle, Pid
  <2>3. status'[Idle] \in {"READY", "RUNNING"}
    BY <1>1, <1>3, <2>2 DEF LockInv, OneRunning
  <2> QED BY <2>1, <2>3 DEF OneRunning
<1>5. SleepPlaces'
  <2> SUFFICES ASSUME NEW p \in Pid PROVE SleepPlaces!(p)'
    BY DEF SleepPlaces
  <2>1. CASE p = current'
    <3>1. Runnable(st[p]) /\ st[p] \in {s, status[p]}
      BY <1>1, <1>2, <2>1
    <3> QED BY <1>3, <2>1
  <2>2. CASE p # current' /\ p = current
    BY <1>1, <1>3, <2>2 DEF MyBuffer, MyFile, MyBlock, Waiting
  <2>3. CASE p # current' /\ p # current
    BY <1>1, <1>3, <2>3 DEF LockInv, SleepPlaces
  <2> QED BY <2>1, <2>2, <2>3
<1>6. NoLostWakeup'
  <2> SUFFICES ASSUME NEW p \in Pid PROVE NoLostWakeup!(p)'
    BY DEF NoLostWakeup
  <2>1. CASE p = current'
    BY <1>3, <2>1
  <2>2. CASE p # current' /\ p = current
    BY <1>1, <1>3, <2>2
  <2>3. CASE p # current' /\ p # current
    BY <1>1, <1>3, <2>3 DEF LockInv, NoLostWakeup
  <2> QED BY <2>1, <2>2, <2>3
<1>7. DiskInSync'
  <2> SUFFICES ASSUME NEW p \in Pid, pc[p] \in Waiting, status'[p] = "WAIT_DISK"
               PROVE  diskPid = p
    BY DEF LockInv, DiskInSync
  <2>1. p # current' /\ p # current
    BY <1>1, <1>3 DEF Waiting
  <2> QED BY <1>3, <2>1 DEF LockInv, DiskInSync
<1>8. CallOK' /\ RootEnds' /\ LockOwners'
  BY DEF LockInv, CallOK, RootEnds, LockOwners, UsesBuffer, UsesInode
<1> QED BY <1>4, <1>5, <1>6, <1>7, <1>8 DEF LockInv

(***************************************************************************)
(* The current process runs on in the kernel, or enters it or leaves it,   *)
(* without touching the process table or the disk, and frees no lock.      *)
(***************************************************************************)
LEMMA RunOn ==
    ASSUME LockInv, TypeOK', NEW c \in Places,
           pc' = [pc EXCEPT ![current] = c],
           \A p \in Pid : p # current => call'[p] = call[p],
           UNCHANGED <<schedVars, diskVars>>,
           \A f \in Buffer : bufLock[f] # None => bufLock'[f] = bufLock[f],
           \A i \in Inode : inodeLock[i] # None => inodeLock'[i] = inodeLock[i],
           sweep' = sweep \/ current = Root
    PROVE  /\ OneRunning' /\ SleepPlaces' /\ NoLostWakeup' /\ DiskInSync'
           /\ \A p \in Pid : p # current => pc'[p] = pc[p]
           /\ pc'[current] = c
<1>1. /\ current \in Pid /\ status[current] = "RUNNING"
      /\ pc' \in [Pid -> Places] /\ pc'[current] = c
      /\ \A p \in Pid : p # current => pc'[p] = pc[p]
  BY DEF LockInv, TypeOK, SchedTypeOK, OneRunning
<1>2. OneRunning'
  BY DEF LockInv, OneRunning, schedVars
<1>3. SleepPlaces'
  <2> SUFFICES ASSUME NEW p \in Pid PROVE SleepPlaces!(p)'
    BY DEF SleepPlaces
  <2>1. CASE p = current
    BY <1>1, <2>1 DEF schedVars
  <2>2. CASE p # current
    <3>1. pc[p] = "lockAll" => sweep' = sweep
      BY <2>2 DEF LockInv, RootEnds, Ending
    <3> QED BY <1>1, <2>2, <3>1 DEF LockInv, SleepPlaces, schedVars
  <2> QED BY <2>1, <2>2
<1>4. NoLostWakeup'
  BY DEF LockInv, NoLostWakeup, schedVars, diskVars
<1>5. DiskInSync'
  BY <1>1 DEF LockInv, DiskInSync, schedVars, diskVars
<1> QED BY <1>1, <1>2, <1>3, <1>4, <1>5

(***************************************************************************)
(* Moving between places that use the same buffer and inode, with the same *)
(* call, keeps the owners of the locks right.                              *)
(***************************************************************************)
LEMMA SameLocks ==
    ASSUME LockInv, TypeOK', NEW c \in Places,
           pc' = [pc EXCEPT ![current] = c],
           UNCHANGED <<call, lockVars>>,
           pc[current] # "lockAll" /\ c # "lockAll",
           pc[current] \in InBuffer <=> c \in InBuffer,
           pc[current] = "buffer" <=> c = "buffer",
           c \in InFile => pc[current] \in InFile,
           c \in Ending => pc[current] \in Ending,
           c = "user" \/ current # Idle,
           c = "flush" => sweep' \in Buffer,
           sweep' = sweep \/ current = Root
    PROVE  CallOK' /\ RootEnds' /\ LockOwners'
<1>1. current \in Pid /\ pc \in [Pid -> Places]
  BY DEF LockInv, TypeOK, SchedTypeOK
<1>2. /\ pc'[current] = c
      /\ \A p \in Pid : p # current => pc'[p] = pc[p]
  BY <1>1
<1>3. \A p \in Pid : /\ pc'[p] = "lockAll" => pc[p] = "lockAll" /\ sweep' = sweep
                     /\ pc[p] = "flush" /\ p # current => sweep' = sweep
  BY <1>1, <1>2 DEF LockInv, RootEnds, Ending
<1>4. CallOK'
  BY <1>1, <1>2 DEF LockInv, CallOK
<1>5. RootEnds'
  BY <1>1, <1>2, <1>3, NumProcsAssumption DEF LockInv, RootEnds, Idle, Pid
<1>6. LockOwners'
  <2>1. \A p \in Pid, f \in Buffer : UsesBuffer(p, f)' <=> UsesBuffer(p, f)
    BY <1>1, <1>2 DEF UsesBuffer
  <2>2. \A p \in Pid, i \in Inode : UsesInode(p, i)' <=> UsesInode(p, i)
    <3> SUFFICES ASSUME NEW p \in Pid, NEW i \in Inode
                 PROVE  UsesInode(p, i)' <=> UsesInode(p, i)
      OBVIOUS
    <3>1. CASE p = current
      BY <1>2, <3>1 DEF UsesInode
    <3>2. CASE p # current
      BY <1>2, <1>3, <3>2 DEF UsesInode
    <3> QED BY <3>1, <3>2
  <2> QED BY <2>1, <2>2 DEF LockInv, LockOwners, lockVars
<1> QED BY <1>4, <1>5, <1>6

(* The lock invariant holds in every step of user mode. *)
LEMMA UserLockInv ==
    ASSUME LockInv, SystemCall \/ Timer
    PROVE  LockInv'
<1> USE UserTypeOK DEF LockInv
<1>1. ASSUME NEW c \in Call, FileCall(c) PROVE LockInv'
  <2>1. current \in Pid /\ call'[current] = c
    BY <1>1 DEF FileCall, TypeOK, SchedTypeOK
  <2>2. /\ pc' = [pc EXCEPT ![current] = "inode"] /\ "inode" \in Places
        /\ pc[current] = "user" /\ current # Idle
        /\ call' = [call EXCEPT ![current] = c]
        /\ UNCHANGED <<schedVars, lockVars, diskVars, endVars>>
    BY <1>1 DEF FileCall, At, Goto, Places
  <2>3. TypeOK'
    BY <1>1 DEF SystemCall
  <2>4. /\ OneRunning' /\ SleepPlaces' /\ NoLostWakeup' /\ DiskInSync'
        /\ \A p \in Pid : p # current => pc'[p] = pc[p]
        /\ pc'[current] = "inode"
    BY <2>1, <2>2, <2>3, RunOn DEF lockVars, endVars, keptVars, TypeOK
  <2>5. CallOK' /\ RootEnds'
    BY <2>1, <2>2, <2>4, NumProcsAssumption
       DEF CallOK, RootEnds, Ending, endVars, keptVars, Idle, Pid, TypeOK
  <2>6. LockOwners'
    <3>1. \A p \in Pid : p # current => call'[p] = call[p]
      BY <2>1, <2>2 DEF TypeOK
    <3>2. \A p \in Pid, i \in Inode : UsesInode(p, i)' <=> UsesInode(p, i)
      BY <2>2, <2>4, <3>1 DEF UsesInode, InBuffer, endVars, keptVars
    <3>3. \A p \in Pid, f \in Buffer : UsesBuffer(p, f)' <=> UsesBuffer(p, f)
      BY <2>2, <2>4, <3>1 DEF UsesBuffer, InBuffer
    <3> QED BY <2>2, <3>2, <3>3 DEF LockOwners, lockVars
  <2> QED BY <2>3, <2>4, <2>5, <2>6
<1>2. CASE PageFault
  <2>1. /\ pc' = [pc EXCEPT ![current] = "page"] /\ "page" \in Places
        /\ pc[current] = "user" /\ current # Idle
        /\ UNCHANGED <<schedVars, call, lockVars, diskVars, endVars>>
    BY <1>2 DEF PageFault, At, Goto, Places
  <2>2. TypeOK'
    BY <1>2 DEF SystemCall
  <2>3. OneRunning' /\ SleepPlaces' /\ NoLostWakeup' /\ DiskInSync'
    BY <2>1, <2>2, RunOn DEF lockVars, endVars, keptVars
  <2>4. CallOK' /\ RootEnds' /\ LockOwners'
    BY <2>1, <2>2, SameLocks DEF endVars, keptVars, InBuffer, InFile, Ending
  <2> QED BY <2>2, <2>3, <2>4
<1>3. CASE Exit
  <2>1. TypeOK'
    BY <1>3 DEF SystemCall
  <2>2. waitingOn' = [waitingOn EXCEPT ![current] = waitingOn[current]]
    BY <1>3 DEF Exit, TypeOK, SchedTypeOK
  <2>3. /\ SwitchFrom([status EXCEPT ![current] = "TERMINATED"])
        /\ pc[current] = "user" /\ current # Idle
        /\ UNCHANGED <<pc, call, inodeLock, bufLock, sweep, diskBusy, diskPid, device>>
    BY <1>3 DEF Exit, At, lockVars, diskVars, endVars, keptVars
  <2> QED BY <2>1, <2>2, <2>3, GiveUp
<1>4. CASE BeginShutdown
  <2>1. /\ pc' = [pc EXCEPT ![current] = "lockAll"] /\ "lockAll" \in Places
        /\ pc[current] = "user" /\ current = Root /\ sweep' = 0
        /\ UNCHANGED <<schedVars, call, lockVars, diskVars>>
    BY <1>4 DEF BeginShutdown, At, Goto, Places
  <2>2. TypeOK'
    BY <1>4 DEF SystemCall
  <2>3. /\ OneRunning' /\ SleepPlaces' /\ NoLostWakeup' /\ DiskInSync'
        /\ \A p \in Pid : p # current => pc'[p] = pc[p]
        /\ pc'[current] = "lockAll" /\ current \in Pid
    BY <2>1, <2>2, RunOn DEF lockVars, TypeOK, SchedTypeOK
  <2>4. CallOK' /\ RootEnds'
    BY <2>1, <2>3, NumProcsAssumption, CacheAssumption
       DEF CallOK, RootEnds, Ending, Idle, Root, Pid, InFile, InBuffer
  <2>5. LockOwners'
    <3>1. \A p \in Pid : pc'[p] = "lockAll" => p = Root
      BY <2>4 DEF RootEnds, Ending
    <3>2. \A p \in Pid : pc[p] # "lockAll"
      BY <2>1 DEF RootEnds, Ending
    <3>3. \A p \in Pid, i \in Inode : UsesInode(p, i)' <=> UsesInode(p, i)
      BY <2>1, <2>3, <3>1, <3>2 DEF UsesInode, InBuffer, Inode
    <3>4. \A p \in Pid, f \in Buffer : UsesBuffer(p, f)' <=> UsesBuffer(p, f)
      BY <2>1, <2>3 DEF UsesBuffer, InBuffer
    <3> QED BY <2>1, <3>3, <3>4 DEF LockOwners, lockVars
  <2> QED BY <2>2, <2>3, <2>4, <2>5
<1>5. ASSUME NEW c \in Pid, Fork(c) PROVE LockInv'
  <2>1. /\ status' = [status EXCEPT ![c] = "CREATED"] /\ status[c] = "TERMINATED" /\ c >= 1
        /\ UNCHANGED <<waitingOn, current, pc, call, lockVars, diskVars, endVars>>
    BY <1>5 DEF Fork
  <2>2. TypeOK'
    BY <1>5 DEF SystemCall
  <2>3. /\ status'[c] = "CREATED"
        /\ \A p \in Pid : p # c => status'[p] = status[p]
    BY <2>1 DEF TypeOK, SchedTypeOK
  <2>4. OneRunning'
    BY <2>1, <2>3, NumProcsAssumption DEF OneRunning, Idle, Pid
  <2>5. SleepPlaces' /\ NoLostWakeup' /\ DiskInSync'
    BY <2>1, <2>3
       DEF SleepPlaces, NoLostWakeup, DiskInSync, lockVars, diskVars, endVars, keptVars
  <2>6. CallOK' /\ RootEnds' /\ LockOwners'
    BY <2>1 DEF CallOK, RootEnds, LockOwners, UsesBuffer, UsesInode, lockVars, endVars, keptVars
  <2> QED BY <2>2, <2>4, <2>5, <2>6
<1>6. CASE Timer
  <2>1. TypeOK'
    BY <1>6
  <2>2. waitingOn' = [waitingOn EXCEPT ![current] = waitingOn[current]]
    BY <1>6 DEF Timer, Preempt, TypeOK, SchedTypeOK
  <2> QED BY <1>6, <2>1, <2>2, GiveUp DEF Timer, Preempt, At, lockVars, diskVars, endVars, keptVars
<1> QED BY <1>1, <1>2, <1>3, <1>4, <1>5, <1>6 DEF SystemCall

(* The disk interrupt wakes all that wait for the disk, and frees it. *)
LEMMA DiskInterruptLockInv ==
    ASSUME LockInv, DiskInterrupt
    PROVE  LockInv'
<1>1. TypeOK'
  BY UserTypeOK DEF LockInv
<1>2. \A p \in Pid : \/ status'[p] = status[p] /\ (p >= 1 => status[p] # "WAIT_DISK")
                     \/ status'[p] = "READY" /\ status[p] = "WAIT_DISK"
  BY DEF DiskInterrupt, WakeAll
<1>3. UNCHANGED <<waitingOn, current, pc, call, inodeLock, bufLock, diskPid, sweep>>
  BY DEF DiskInterrupt, lockVars, endVars, keptVars
<1>4. \A p \in Pid : status'[p] # "WAIT_DISK"
  BY <1>2, NumProcsAssumption DEF LockInv, OneRunning, Idle, Pid
<1>5. OneRunning'
  BY <1>2, <1>3, NumProcsAssumption DEF LockInv, OneRunning, Idle, Pid
<1>6. SleepPlaces'
  BY <1>2, <1>3 DEF LockInv, SleepPlaces
<1>7. NoLostWakeup'
  BY <1>2, <1>3, <1>4 DEF LockInv, NoLostWakeup
<1>8. DiskInSync'
  BY <1>4 DEF DiskInterrupt, DiskInSync
<1>9. CallOK' /\ RootEnds' /\ LockOwners'
  BY <1>3 DEF LockInv, CallOK, RootEnds, LockOwners, UsesBuffer, UsesInode
<1> QED BY <1>1, <1>5, <1>6, <1>7, <1>8, <1>9 DEF LockInv

(* A disk request sleeps until the disk is free, or until it is done. *)
LEMMA RequestLockInv ==
    ASSUME LockInv, TypeOK', NEW req \in Request, NEW next \in Waiting,
           DiskRequest(req, next),
           \/ pc[current] = "store" /\ next = "storing"
           \/ pc[current] = "load" /\ next = "loading"
           \/ pc[current] = "page" /\ next = "paging"
           \/ pc[current] = "flush" /\ next = "flushing"
           \/ pc[current] = "tables" /\ next = "tabling"
    PROVE  LockInv'
<1>1. /\ current \in Pid /\ current # Idle
      /\ waitingOn' = [waitingOn EXCEPT ![current] = waitingOn[current]]
      /\ Sleep("WAIT_DISK") /\ SwitchFrom([status EXCEPT ![current] = "WAIT_DISK"])
  BY DEF LockInv, RootEnds, TypeOK, SchedTypeOK, DiskRequest, Sleep
<1>2. CASE diskBusy
  <2>1. UNCHANGED <<pc, call, inodeLock, bufLock, sweep, diskBusy, diskPid, device>>
    BY <1>2 DEF DiskRequest, lockVars, diskVars, endVars, keptVars
  <2>2. device # NoRequest
    BY <1>2 DEF LockInv, DiskInSync
  <2> QED BY <1>1, <2>1, <2>2, GiveUp
<1>3. CASE ~diskBusy
  <2>1. /\ status' \in [Pid -> State] /\ current' \in Pid /\ current' # current
        /\ Runnable(status[current'])
        /\ status'[current] = "WAIT_DISK" /\ status'[current'] = "RUNNING"
        /\ \A p \in Pid : p # current /\ p # current' => status'[p] = status[p]
    BY <1>1, SleepEffect DEF LockInv, TypeOK, Sleeping
  <2>2. /\ diskBusy' /\ diskPid' = current /\ device' = req /\ device' # NoRequest
        /\ pc' = [pc EXCEPT ![current] = next] /\ waitingOn' = waitingOn
        /\ UNCHANGED <<call, lockVars, sweep>>
    BY <1>1, <1>3
       DEF DiskRequest, Sleep, LockInv, DiskInSync, Goto, Request, NoRequest, endVars, keptVars
  <2>3. /\ pc'[current] = next /\ next \in Places
        /\ \A p \in Pid : p # current => pc'[p] = pc[p]
    BY <2>2, <1>1 DEF LockInv, TypeOK, Waiting, Places
  <2>4. \A p \in Pid : status[p] # "WAIT_DISK"
    BY <1>3 DEF LockInv, NoLostWakeup, DiskInSync
  <2>5. OneRunning'
    <3>1. \A p \in Pid : status'[p] = "RUNNING" <=> p = current'
      BY <2>1 DEF LockInv, OneRunning
    <3>2. status'[Idle] \in {"READY", "RUNNING"}
      BY <1>1, <2>1, NumProcsAssumption DEF LockInv, OneRunning, Idle, Pid
    <3> QED BY <3>1, <3>2 DEF OneRunning
  <2>6. SleepPlaces'
    <3> SUFFICES ASSUME NEW p \in Pid PROVE SleepPlaces!(p)'
      BY DEF SleepPlaces
    <3>1. CASE p = current
      BY <2>1, <2>3, <3>1
    <3>2. CASE p = current'
      BY <2>1, <3>2
    <3>3. CASE p # current /\ p # current'
      BY <2>1, <2>2, <2>3, <3>3 DEF LockInv, SleepPlaces
    <3> QED BY <3>1, <3>2, <3>3
  <2>7. NoLostWakeup'
    <3> SUFFICES ASSUME NEW p \in Pid PROVE NoLostWakeup!(p)'
      BY DEF NoLostWakeup
    <3>1. CASE p = current \/ p = current'
      BY <2>1, <2>2, <3>1
    <3>2. CASE p # current /\ p # current'
      BY <2>1, <2>2, <3>2 DEF LockInv, NoLostWakeup, lockVars
    <3> QED BY <3>1, <3>2
  <2>8. DiskInSync'
    BY <2>1, <2>2, <2>4 DEF DiskInSync
  <2>9. CallOK' /\ RootEnds' /\ LockOwners'
    BY <1>1, <2>2, <2>3, SameLocks DEF InBuffer, InFile, Ending
  <2> QED BY <2>5, <2>6, <2>7, <2>8, <2>9 DEF LockInv
<1> QED BY <1>2, <1>3

(* Waiting for a locked inode. *)
LEMMA WaitInodeLockInv ==
    ASSUME LockInv, TypeOK', NEW i \in Inode, WaitInode(i),
           \/ pc[current] = "inode" /\ i = MyFile
           \/ pc[current] = "lockAll" /\ i = sweep
    PROVE  LockInv'
<1>1. /\ SwitchFrom([status EXCEPT ![current] = "WAIT_FILE"])
      /\ waitingOn' = [waitingOn EXCEPT ![current] = i]
      /\ inodeLock[i] # None
      /\ UNCHANGED <<pc, call, inodeLock, bufLock, sweep, diskBusy, diskPid, device>>
  BY DEF WaitInode, SleepOn, lockVars, diskVars, endVars, keptVars
<1>2. current # Idle
  BY DEF LockInv, RootEnds
<1>3. i = sweep => sweep < NumInodes
  BY CacheAssumption DEF Inode
<1> QED BY <1>1, <1>2, <1>3, GiveUp

(* Taking the locks, or waiting for them. *)
LEMMA AcquireLockInv ==
    ASSUME LockInv, TypeOK', AcquireInode \/ AcquireBuffer
    PROVE  LockInv'
<1> USE DEF LockInv
<1>1. CASE AcquireInode
  <2>1. pc[current] = "inode" /\ MyFile \in Inode /\ current \in Pid
    BY <1>1, MyBlockType DEF AcquireInode, At, InFile, TypeOK, SchedTypeOK
  <2>2. CASE WaitInode(MyFile)
    BY <2>1, <2>2, WaitInodeLockInv
  <2>3. CASE ~WaitInode(MyFile)
    <3>1. /\ inodeLock[MyFile] = None
          /\ inodeLock' = [inodeLock EXCEPT ![MyFile] = current]
          /\ pc' = [pc EXCEPT ![current] = "buffer"] /\ "buffer" \in Places
          /\ UNCHANGED <<schedVars, call, bufLock, diskVars, sweep>>
      BY <1>1, <2>3 DEF AcquireInode, Goto, Places, endVars, keptVars
    <3>2. /\ OneRunning' /\ SleepPlaces' /\ NoLostWakeup' /\ DiskInSync'
          /\ \A p \in Pid : p # current => pc'[p] = pc[p]
          /\ pc'[current] = "buffer"
      BY <2>1, <3>1, RunOn DEF TypeOK
    <3>3. CallOK' /\ RootEnds'
      BY <2>1, <3>1, <3>2 DEF CallOK, RootEnds, InFile, InBuffer, Ending
    <3>4. LockOwners'
      <4>1. \A p \in Pid, f \in Buffer : UsesBuffer(p, f)' <=> UsesBuffer(p, f)
        BY <2>1, <3>1, <3>2 DEF UsesBuffer, InBuffer
      <4>2. \A p \in Pid : inodeLock[MyFile] # p
        BY <3>1 DEF None, Pid
      <4>3. ASSUME NEW p \in Pid, NEW i \in Inode
            PROVE  inodeLock'[i] = p <=> UsesInode(p, i)'
        <5>1. CASE i = MyFile /\ p = current
          BY <2>1, <3>1, <3>2, <5>1 DEF UsesInode, MyFile, MyBlock, TypeOK
        <5>2. CASE i = MyFile /\ p # current
          <6>1. inodeLock'[i] = current
            BY <2>1, <3>1, <5>2 DEF TypeOK
          <6>2. ~UsesInode(p, i)
            BY <4>2, <5>2 DEF LockOwners
          <6> QED BY <3>1, <3>2, <5>2, <6>1, <6>2 DEF UsesInode
        <5>3. CASE i # MyFile
          <6>1. inodeLock'[i] = inodeLock[i]
            BY <2>1, <3>1, <5>3 DEF TypeOK
          <6>2. UsesInode(p, i)' <=> UsesInode(p, i)
            BY <2>1, <3>1, <3>2, <5>3 DEF UsesInode, InBuffer, MyFile, MyBlock
          <6> QED BY <6>1, <6>2 DEF LockOwners
        <5> QED BY <5>1, <5>2, <5>3
      <4> QED BY <3>1, <4>1, <4>3 DEF LockOwners
    <3> QED BY <3>2, <3>3, <3>4
  <2> QED BY <2>2, <2>3
<1>2. CASE AcquireBuffer
  <2>1. pc[current] = "buffer" /\ MyBuffer \in Buffer /\ current \in Pid
    BY <1>2, MyBlockType DEF AcquireBuffer, At, InFile, TypeOK, SchedTypeOK
  <2>2. CASE bufLock[MyBuffer] # None
    <3>1. /\ SwitchFrom([status EXCEPT ![current] = "WAIT_BUFFER"])
          /\ waitingOn' = [waitingOn EXCEPT ![current] = MyBuffer]
          /\ UNCHANGED <<pc, call, inodeLock, bufLock, sweep, diskBusy, diskPid, device>>
      BY <1>2, <2>2 DEF AcquireBuffer, SleepOn, lockVars, diskVars, endVars, keptVars
    <3>2. current # Idle
      BY <2>1 DEF RootEnds
    <3> QED BY <2>1, <2>2, <3>1, <3>2, GiveUp
  <2>3. CASE bufLock[MyBuffer] = None
    <3> DEFINE c == AfterLock(MyBuffer)
    <3>1. /\ bufLock' = [bufLock EXCEPT ![MyBuffer] = current]
          /\ pc' = [pc EXCEPT ![current] = c]
          /\ UNCHANGED <<schedVars, call, inodeLock, diskVars, sweep>>
      BY <1>2, <2>3 DEF AcquireBuffer, Goto, endVars, keptVars
    <3>2. c \in {"access", "store", "load"}
      BY DEF AfterLock
    <3> HIDE DEF c
    <3>3. /\ OneRunning' /\ SleepPlaces' /\ NoLostWakeup' /\ DiskInSync'
          /\ \A p \in Pid : p # current => pc'[p] = pc[p]
          /\ pc'[current] = c
      BY <2>1, <2>3, <3>1, <3>2, RunOn DEF TypeOK, Places
    <3>4. CallOK' /\ RootEnds'
      BY <2>1, <3>1, <3>2, <3>3 DEF CallOK, RootEnds, InFile, InBuffer, Ending
    <3>5. LockOwners'
      <4>1. \A p \in Pid, i \in Inode : UsesInode(p, i)' <=> UsesInode(p, i)
        BY <2>1, <3>1, <3>2, <3>3 DEF UsesInode, InBuffer
      <4>2. \A p \in Pid : bufLock[MyBuffer] # p
        BY <2>3 DEF None, Pid
      <4>3. ASSUME NEW p \in Pid, NEW f \in Buffer
            PROVE  bufLock'[f] = p <=> UsesBuffer(p, f)'
        <5>1. CASE f = MyBuffer /\ p = current
          BY <2>1, <3>1, <3>2, <3>3, <5>1 DEF UsesBuffer, InBuffer, MyBuffer, MyBlock, TypeOK
        <5>2. CASE f = MyBuffer /\ p # current
          <6>1. bufLock'[f] = current
            BY <2>1, <3>1, <5>2 DEF TypeOK
          <6>2. ~UsesBuffer(p, f)
            BY <4>2, <5>2 DEF LockOwners
          <6> QED BY <3>1, <3>3, <5>2, <6>1, <6>2 DEF UsesBuffer
        <5>3. CASE f # MyBuffer
          <6>1. bufLock'[f] = bufLock[f]
            BY <2>1, <3>1, <5>3 DEF TypeOK
          <6>2. UsesBuffer(p, f)' <=> UsesBuffer(p, f)
            BY <2>1, <3>1, <3>2, <3>3, <5>3 DEF UsesBuffer, InBuffer, MyBuffer, MyBlock
          <6> QED BY <6>1, <6>2 DEF LockOwners
        <5> QED BY <5>1, <5>2, <5>3
      <4> QED BY <3>1, <4>1, <4>3 DEF LockOwners
    <3> QED BY <3>3, <3>4, <3>5
  <2> QED BY <2>2, <2>3
<1> QED BY <1>1, <1>2

(* The steps that only move on inside the kernel. *)
LEMMA MoveLockInv ==
    ASSUME LockInv, TypeOK',
           OldStored \/ NewLoaded \/ PageLoaded \/ NextBuffer \/ NextStore \/ Halt
    PROVE  LockInv'
<1>1. PICK c \in {"load", "access", "user", "buffers", "flush", "tables"} :
         /\ pc' = [pc EXCEPT ![current] = c]
         /\ \/ pc[current] = "storing" /\ c = "load"
            \/ pc[current] = "loading" /\ c = "access"
            \/ pc[current] = "paging" /\ c = "user"
            \/ pc[current] \in {"buffers", "flushing", "tables", "tabling"}
                  /\ c \in {"buffers", "flush", "tables"}
         /\ c = "flush" => sweep' \in Buffer
         /\ UNCHANGED <<schedVars, call, lockVars, diskVars>>
         /\ sweep' = sweep \/ pc[current] \in Ending
  <2>1. CASE OldStored \/ NewLoaded \/ PageLoaded
    BY <2>1 DEF OldStored, NewLoaded, PageLoaded, At, Goto, endVars, keptVars
  <2>2. CASE NextStore
    BY <2>2 DEF NextStore, At, Goto, Ending
  <2>3. CASE Halt
    <3>1. pc' = [pc EXCEPT ![current] = "tables"]
      BY <2>3 DEF Halt, At, LockInv, TypeOK, SchedTypeOK
    <3> QED BY <2>3, <3>1 DEF Halt, At
  <2>4. CASE NextBuffer /\ sweep = NumBuffers
    BY <2>4, CacheAssumption DEF NextBuffer, At, Goto, Ending
  <2>5. CASE NextBuffer /\ sweep # NumBuffers /\ bufDirty[sweep]
    BY <2>5, CacheAssumption DEF NextBuffer, At, Goto, Ending, Buffer, LockInv, TypeOK
  <2>6. CASE NextBuffer /\ sweep # NumBuffers /\ ~bufDirty[sweep]
    <3>1. pc' = pc /\ pc[current] = "buffers"
          /\ UNCHANGED <<schedVars, call, lockVars, diskVars>>
      BY <2>6 DEF NextBuffer, At
    <3>2. pc' = [pc EXCEPT ![current] = "buffers"]
      BY <3>1 DEF LockInv, TypeOK, SchedTypeOK
    <3> QED BY <3>1, <3>2 DEF Ending
  <2> QED BY <2>1, <2>2, <2>3, <2>4, <2>5, <2>6
<1>2. c \in Places /\ current # Idle /\ (sweep' = sweep \/ current = Root)
  BY <1>1 DEF Places, LockInv, RootEnds, TypeOK, SchedTypeOK
<1>3. OneRunning' /\ SleepPlaces' /\ NoLostWakeup' /\ DiskInSync'
  BY <1>1, <1>2, RunOn DEF lockVars
<1>4. CallOK' /\ RootEnds' /\ LockOwners'
  BY <1>1, <1>2, SameLocks DEF InBuffer, InFile, Ending
<1> QED BY <1>3, <1>4 DEF LockInv

(* Releasing wakes every process that waits for what is released. *)
LEMMA ReleaseLockInv ==
    ASSUME LockInv, TypeOK', Release, pc[current] = "access"
    PROVE  LockInv'
<1> USE DEF LockInv
<1>1. /\ MyBuffer \in Buffer /\ MyFile \in Inode /\ current \in Pid /\ current # Idle
  BY MyBlockType DEF InFile, InBuffer, TypeOK, SchedTypeOK, RootEnds
<1>2. /\ bufLock' = [bufLock EXCEPT ![MyBuffer] = None]
      /\ inodeLock' = [inodeLock EXCEPT ![MyFile] = None]
      /\ status' = Wake(Wake(status, "WAIT_BUFFER", MyBuffer), "WAIT_FILE", MyFile)
      /\ UNCHANGED <<waitingOn, current, diskVars, sweep>>
  BY DEF Release, endVars, keptVars
<1>3. /\ pc'[current] = "user"
      /\ \A p \in Pid : p # current => pc'[p] = pc[p] /\ call'[p] = call[p]
  BY <1>1 DEF Release, Goto, TypeOK
<1>4. \A p \in Pid :
         \/ status'[p] = status[p]
         \/ status'[p] = "READY" /\ status[p] \in {"WAIT_BUFFER", "WAIT_FILE"}
  BY <1>2 DEF Wake
<1>5. \A p \in Pid :
         /\ ~(status'[p] = "WAIT_BUFFER" /\ waitingOn[p] = MyBuffer)
         /\ ~(status'[p] = "WAIT_FILE" /\ waitingOn[p] = MyFile)
  <2> SUFFICES ASSUME NEW p \in Pid
               PROVE  /\ ~(status'[p] = "WAIT_BUFFER" /\ waitingOn[p] = MyBuffer)
                      /\ ~(status'[p] = "WAIT_FILE" /\ waitingOn[p] = MyFile)
    OBVIOUS
  <2>1. CASE p = Idle
    BY <1>4, <2>1 DEF OneRunning
  <2>2. CASE p >= 1
    BY <1>2, <2>2 DEF Wake
  <2> QED BY <2>1, <2>2 DEF Idle, Pid
<1>6. OneRunning'
  BY <1>2, <1>4, NumProcsAssumption DEF OneRunning, Idle, Pid
<1>7. SleepPlaces'
  <2> SUFFICES ASSUME NEW p \in Pid PROVE SleepPlaces!(p)'
    BY DEF SleepPlaces
  <2>1. CASE p = current
    BY <1>2, <1>4, <2>1 DEF OneRunning
  <2>2. CASE p # current
    BY <1>2, <1>3, <1>4, <2>2 DEF SleepPlaces
  <2> QED BY <2>1, <2>2
<1>8. NoLostWakeup'
  BY <1>1, <1>2, <1>4, <1>5, ZenonT(40) DEF NoLostWakeup, diskVars, TypeOK
<1>9. DiskInSync'
  BY <1>2, <1>3, <1>4 DEF DiskInSync, diskVars, Waiting
<1>10. CallOK' /\ RootEnds'
  BY <1>1, <1>2, <1>3, NumProcsAssumption
     DEF CallOK, RootEnds, InFile, InBuffer, Ending, Idle, Pid
<1>11. LockOwners'
  <2>1. UsesBuffer(current, MyBuffer) /\ UsesInode(current, MyFile)
    BY DEF UsesBuffer, UsesInode, InBuffer, MyBuffer, MyFile, MyBlock
  <2>2. bufLock[MyBuffer] = current /\ inodeLock[MyFile] = current
    BY <1>1, <2>1 DEF LockOwners
  <2>3. ASSUME NEW p \in Pid, NEW f \in Buffer
        PROVE  bufLock'[f] = p <=> UsesBuffer(p, f)'
    <3>1. CASE p = current
      <4>1. ~UsesBuffer(p, f)'
        BY <1>3, <3>1 DEF UsesBuffer, InBuffer
      <4>2. f # MyBuffer => bufLock[f] # current
        BY <1>1 DEF LockOwners, UsesBuffer, MyBuffer, MyBlock
      <4>3. bufLock'[f] # p
        BY <1>1, <1>2, <3>1, <4>2 DEF TypeOK, None, Pid
      <4> QED BY <4>1, <4>3
    <3>2. CASE p # current
      <4>1. UsesBuffer(p, f)' <=> UsesBuffer(p, f)
        BY <1>3, <3>2 DEF UsesBuffer
      <4>2. bufLock'[f] = p <=> bufLock[f] = p
        BY <1>1, <1>2, <2>2, <3>2 DEF TypeOK, None, Pid
      <4> QED BY <4>1, <4>2 DEF LockOwners
    <3> QED BY <3>1, <3>2
  <2>4. ASSUME NEW p \in Pid, NEW i \in Inode
        PROVE  inodeLock'[i] = p <=> UsesInode(p, i)'
    <3>1. CASE p = current
      <4>1. ~UsesInode(p, i)'
        BY <1>3, <3>1 DEF UsesInode, InBuffer
      <4>2. i # MyFile => inodeLock[i] # current
        BY <1>1 DEF LockOwners, UsesInode, MyFile, MyBlock
      <4>3. inodeLock'[i] # p
        BY <1>1, <1>2, <3>1, <4>2 DEF TypeOK, None, Pid
      <4> QED BY <4>1, <4>3
    <3>2. CASE p # current
      <4>1. UsesInode(p, i)' <=> UsesInode(p, i)
        BY <1>2, <1>3, <3>2 DEF UsesInode
      <4>2. inodeLock'[i] = p <=> inodeLock[i] = p
        BY <1>1, <1>2, <2>2, <3>2 DEF TypeOK, None, Pid
      <4> QED BY <4>1, <4>2 DEF LockOwners
    <3> QED BY <3>1, <3>2
  <2> QED BY <2>3, <2>4 DEF LockOwners
<1> QED BY <1>6, <1>7, <1>8, <1>9, <1>10, <1>11

(* Shutdown locks the inodes one after the other. *)
LEMMA LockNextLockInv ==
    ASSUME LockInv, TypeOK', LockNextInode
    PROVE  LockInv'
<1> USE DEF LockInv
<1>1. /\ pc[current] = "lockAll" /\ current = Root /\ current \in Pid /\ current # Idle
      /\ sweep \in Inode /\ sweep \in Nat /\ sweep < NumInodes
  BY CacheAssumption
     DEF LockNextInode, At, RootEnds, Ending, Inode, TypeOK, SchedTypeOK, Root, Idle
<1>2. CASE WaitInode(sweep)
  BY <1>1, <1>2, WaitInodeLockInv
<1>3. CASE ~WaitInode(sweep)
  <2>1. /\ inodeLock[sweep] = None
        /\ inodeLock' = [inodeLock EXCEPT ![sweep] = current]
        /\ sweep' = sweep + 1
        /\ UNCHANGED <<schedVars, pc, call, bufLock, diskVars>>
    BY <1>3 DEF LockNextInode
  <2>2. pc' = [pc EXCEPT ![current] = "lockAll"] /\ "lockAll" \in Places
    BY <1>1, <2>1 DEF TypeOK, Places
  <2>3. OneRunning' /\ SleepPlaces' /\ NoLostWakeup' /\ DiskInSync'
    BY <1>1, <2>1, <2>2, RunOn DEF TypeOK
  <2>4. CallOK' /\ RootEnds'
    BY <1>1, <2>1, CacheAssumption DEF CallOK, RootEnds, Ending
  <2>5. LockOwners'
    <3>1. \A p \in Pid : pc[p] = "lockAll" <=> p = current
      BY <1>1 DEF RootEnds, Ending
    <3>2. ASSUME NEW p \in Pid, NEW i \in Inode
          PROVE  inodeLock'[i] = p <=> UsesInode(p, i)'
      <4>1. CASE i = sweep
        <5>1. inodeLock'[i] = current
          BY <1>1, <2>1, <4>1 DEF TypeOK
        <5>2. ~(pc[p] \in InBuffer \cup {"buffer"} /\ FileOf[call[p].block] = i)
          BY <2>1, <4>1 DEF LockOwners, UsesInode, None, Pid
        <5> QED BY <1>1, <2>1, <3>1, <4>1, <5>1, <5>2 DEF UsesInode
      <4>2. CASE i # sweep
        <5>1. inodeLock'[i] = inodeLock[i]
          BY <1>1, <2>1, <4>2 DEF TypeOK
        <5>2. UsesInode(p, i)' <=> UsesInode(p, i)
          BY <1>1, <2>1, <4>2 DEF UsesInode, Inode
        <5> QED BY <5>1, <5>2 DEF LockOwners
      <4> QED BY <4>1, <4>2
    <3> QED BY <2>1, <3>2 DEF LockOwners, UsesBuffer
  <2> QED BY <2>3, <2>4, <2>5
<1> QED BY <1>2, <1>3

(***************************************************************************)
(* Shutdown kills only when it holds every inode: then nobody is between   *)
(* the locks of a read or a write, so no buffer stays locked for ever.     *)
(***************************************************************************)
LEMMA KillAllLockInv ==
    ASSUME LockInv, TypeOK', KillAll
    PROVE  LockInv'
<1> USE DEF LockInv
<1>1. /\ pc[current] = "lockAll" /\ current = Root /\ current \in Pid /\ sweep = NumInodes
      /\ status[current] = "RUNNING" /\ current >= 1
      /\ UNCHANGED <<waitingOn, current, bufLock, diskVars>>
      /\ inodeLock' = [i \in Inode |-> None] /\ sweep' = 0
  BY DEF KillAll, At, RootEnds, Ending, TypeOK, SchedTypeOK, OneRunning, Root
<1>2. \A p \in Pid :
         /\ Victim(p) => status'[p] = "TERMINATED" /\ pc'[p] = "user"
         /\ ~Victim(p) => /\ call'[p] = call[p]
                          /\ pc'[p] = IF p = current THEN "buffers" ELSE pc[p]
                          /\ \/ status'[p] = status[p]
                             \/ status'[p] = "READY" /\ status[p] = "WAIT_FILE"
                          /\ p >= 1 => status'[p] # "WAIT_FILE"
  <2> SUFFICES ASSUME NEW p \in Pid
               PROVE  /\ Victim(p) => status'[p] = "TERMINATED" /\ pc'[p] = "user"
                      /\ ~Victim(p) => /\ call'[p] = call[p]
                                       /\ pc'[p] = IF p = current THEN "buffers" ELSE pc[p]
                                       /\ \/ status'[p] = status[p]
                                          \/ status'[p] = "READY" /\ status[p] = "WAIT_FILE"
                                       /\ p >= 1 => status'[p] # "WAIT_FILE"
    OBVIOUS
  <2>1. status'[p] = IF Victim(p) THEN "TERMINATED"
                     ELSE IF p >= 1 /\ status[p] = "WAIT_FILE" THEN "READY" ELSE status[p]
    BY DEF KillAll
  <2>2. pc'[p] = IF Victim(p) THEN "user" ELSE IF p = current THEN "buffers" ELSE pc[p]
    BY DEF KillAll
  <2>3. ~Victim(p) => call'[p] = call[p]
    BY DEF KillAll
  <2> HIDE DEF LockInv
  <2> QED BY <2>1, <2>2, <2>3
<1>3. ~Victim(current) /\ ~Victim(Idle)
  BY DEF Victim, Idle
<1>4. \A p \in Pid : status'[p] # "WAIT_FILE"
  BY <1>2, <1>3 DEF OneRunning, Idle, Pid
<1>5. \A p \in Pid : pc[p] = "lockAll" => p = current
  BY <1>1 DEF RootEnds, Ending
<1>6. \A p \in Pid : pc[p] \notin InBuffer \cup {"buffer"}
  <2> SUFFICES ASSUME NEW p \in Pid, pc[p] \in InBuffer \cup {"buffer"}
               PROVE  FALSE
    OBVIOUS
  <2>1. p # current
    BY <1>1 DEF InBuffer
  <2>2. FileOf[call[p].block] \in Inode /\ FileOf[call[p].block] < sweep
    <3>1. call[p] \in Call
      BY DEF CallOK, InFile
    <3>2. call[p].block \in Block
      BY <3>1 DEF Call
    <3>3. FileOf[call[p].block] \in Inode
      BY <3>2, CacheAssumption
    <3> HIDE DEF LockInv
    <3> QED BY <1>1, <3>3, CacheAssumption DEF Inode
  <2>3. UsesInode(p, FileOf[call[p].block]) /\ UsesInode(current, FileOf[call[p].block])
    BY <1>1, <2>2 DEF UsesInode
  <2> QED BY <1>1, <2>1, <2>2, <2>3 DEF LockOwners
<1>7. OneRunning'
  BY <1>1, <1>2, <1>3, NumProcsAssumption DEF OneRunning, Idle, Pid
<1>8. CallOK'
  BY <1>2 DEF CallOK, InFile, InBuffer
<1>9. SleepPlaces'
  <2> SUFFICES ASSUME NEW p \in Pid PROVE SleepPlaces!(p)'
    BY DEF SleepPlaces
  <2>1. CASE Victim(p)
    BY <1>2, <2>1
  <2>2. CASE p = current
    BY <1>1, <1>2, <1>3, <2>2
  <2>3. CASE ~Victim(p) /\ p # current
    BY <1>1, <1>2, <1>4, <2>3 DEF SleepPlaces
  <2> QED BY <2>1, <2>2, <2>3
<1>10. RootEnds'
  BY <1>1, <1>2, <1>3, <1>5, NumProcsAssumption DEF RootEnds, Ending, Idle, Pid, Root
<1>11. NoLostWakeup'
  BY <1>1, <1>2, <1>4 DEF NoLostWakeup, diskVars
<1>12. DiskInSync'
  BY <1>1, <1>2, <1>3 DEF DiskInSync, diskVars, Waiting
<1>13. LockOwners'
  <2>1. \A p \in Pid : pc'[p] \notin InBuffer \cup {"buffer", "lockAll"}
    BY <1>1, <1>2, <1>5, <1>6 DEF InBuffer
  <2>2. \A p \in Pid, f \in Buffer : ~UsesBuffer(p, f) /\ ~UsesBuffer(p, f)'
    BY <1>6, <2>1 DEF UsesBuffer
  <2>3. \A p \in Pid, i \in Inode : ~UsesInode(p, i)' /\ inodeLock'[i] # p
    BY <1>1, <2>1 DEF UsesInode, None, Pid
  <2> QED BY <1>1, <2>2, <2>3 DEF LockOwners
<1> QED BY <1>7, <1>8, <1>9, <1>10, <1>11, <1>12, <1>13

(* The lock invariant holds in every step of the kernel. *)
LEMMA KernelLockInv ==
    ASSUME LockInv, Kernel
    PROVE  LockInv'
<1>1. TypeOK'
  BY KernelTypeOK DEF LockInv
<1>2. CASE AcquireInode \/ AcquireBuffer
  BY <1>1, <1>2, AcquireLockInv
<1>3. CASE StoreOld \/ LoadNew
  <2>1. pc[current] \in InBuffer /\ MyBuffer \in Buffer /\ MyBlock \in Block
    BY <1>3, MyBlockType DEF StoreOld, LoadNew, At, InFile, InBuffer, LockInv
  <2>2. /\ [kind |-> "store", buffer |-> MyBuffer, block |-> bufBlock[MyBuffer]] \in Request
        /\ [kind |-> "load", buffer |-> MyBuffer, block |-> MyBlock] \in Request
    BY <2>1 DEF Request, LockInv, TypeOK
  <2> QED BY <1>1, <1>3, <2>2, RequestLockInv DEF StoreOld, LoadNew, At, Waiting
<1>4. CASE LoadPage \/ StoreTable
  <2>1. /\ [kind |-> "load", buffer |-> None, block |-> None] \in Request
        /\ [kind |-> "store", buffer |-> None, block |-> None] \in Request
    BY DEF Request
  <2> QED BY <1>1, <1>4, <2>1, RequestLockInv DEF LoadPage, StoreTable, At, Waiting
<1>5. CASE OldStored \/ NewLoaded \/ PageLoaded \/ NextBuffer \/ NextStore \/ Halt
  BY <1>1, <1>5, MoveLockInv
<1>6. CASE FlushBuffer
  <2>1. pc[current] = "flush" /\ sweep \in Buffer
    BY <1>6 DEF FlushBuffer, At, LockInv, RootEnds, TypeOK, SchedTypeOK
  <2>2. [kind |-> "store", buffer |-> sweep, block |-> flushBlock] \in Request
    BY <2>1 DEF Request, LockInv, TypeOK
  <2> QED BY <1>1, <1>6, <2>1, <2>2, RequestLockInv DEF FlushBuffer, Waiting
<1>7. CASE ReadWord \/ WriteWord
  BY <1>1, <1>7, ReleaseLockInv DEF ReadWord, WriteWord, At
<1>8. CASE LockNextInode
  BY <1>1, <1>8, LockNextLockInv
<1>9. CASE KillAll
  BY <1>1, <1>9, KillAllLockInv
<1> QED BY <1>2, <1>3, <1>4, <1>5, <1>6, <1>7, <1>8, <1>9 DEF Kernel

(***************************************************************************)
(* The lock invariant holds in every reachable state: the types, the one   *)
(* running process, the owners of the locks, the waker of every sleeper    *)
(* and the agreement of the kernel with the disk.                          *)
(***************************************************************************)
THEOREM LockSafety == Spec => []LockInv
<1>1. Init => LockInv
  BY InitLockInv
<1>2. LockInv /\ [Next]_vars => LockInv'
  <2> SUFFICES ASSUME LockInv, [Next]_vars PROVE LockInv'
    OBVIOUS
  <2>1. CASE Kernel
    BY <2>1, KernelLockInv
  <2>2. CASE SystemCall \/ Timer
    BY <2>2, UserLockInv
  <2>3. CASE DiskInterrupt
    BY <2>3, DiskInterruptLockInv
  <2>4. CASE UNCHANGED vars
    BY <2>4 DEF vars, schedVars, lockVars, dataVars, diskVars, endVars, keptVars, LockInv, TypeOK,
                SchedTypeOK, OneRunning, CallOK, SleepPlaces, RootEnds, LockOwners, UsesBuffer,
                UsesInode, NoLostWakeup, DiskInSync
  <2> QED BY <2>1, <2>2, <2>3, <2>4 DEF Next, Halted
<1> QED BY <1>1, <1>2, PTL DEF Spec

(* The types of every variable. *)
THEOREM TypeSafety == Spec => []TypeOK
<1>1. LockInv => TypeOK
  BY DEF LockInv
<1> QED BY <1>1, LockSafety, PTL

(* A locked buffer or inode is in use by its owner, and by nobody else. *)
THEOREM LocksAreOwned == Spec => []LockOwners
<1>1. LockInv => LockOwners
  BY DEF LockInv
<1> QED BY <1>1, LockSafety, PTL

(* Whoever sleeps on a lock or on the disk will be woken by its owner. *)
THEOREM SleepersHaveWakers == Spec => []NoLostWakeup
<1>1. LockInv => NoLostWakeup
  BY DEF LockInv
<1> QED BY <1>1, LockSafety, PTL

(***************************************************************************)
(* Nobody is ever in a circle of processes that wait for each other: the   *)
(* owner of a buffer waits for no lock, the owner of an inode waits at     *)
(* most for a buffer, and shutdown waits only for an inode it has not yet  *)
(* reached, whose owner is then an ordinary reader or writer.              *)
(***************************************************************************)
LEMMA LocksAreOrdered ==
    ASSUME LockInv
    PROVE  NoCircularWait
<1> USE DEF LockInv
<1>1. \A p, q, r \in Pid : status[p] = "WAIT_BUFFER" /\ WaitsFor(p, q) => ~WaitsFor(q, r)
  <2> SUFFICES ASSUME NEW p \in Pid, NEW q \in Pid,
                      status[p] = "WAIT_BUFFER", WaitsFor(p, q)
               PROVE  status[q] # "WAIT_BUFFER" /\ status[q] # "WAIT_FILE"
    BY DEF WaitsFor
  <2>1. UsesBuffer(q, waitingOn[p])
    BY DEF WaitsFor, NoLostWakeup, LockOwners
  <2> QED BY <2>1 DEF UsesBuffer, InBuffer, SleepPlaces
<1>2. \A p, q \in Pid :
          status[p] = "WAIT_FILE" /\ WaitsFor(p, q) /\ status[q] = "WAIT_FILE" =>
              pc[q] = "lockAll" /\ waitingOn[p] < sweep
  <2> SUFFICES ASSUME NEW p \in Pid, NEW q \in Pid,
                      status[p] = "WAIT_FILE", WaitsFor(p, q), status[q] = "WAIT_FILE"
               PROVE  pc[q] = "lockAll" /\ waitingOn[p] < sweep
    OBVIOUS
  <2>1. UsesInode(q, waitingOn[p])
    BY DEF WaitsFor, NoLostWakeup, LockOwners
  <2> QED BY <2>1 DEF UsesInode, InBuffer, SleepPlaces
<1>3. \A q \in Pid : status[q] = "WAIT_FILE" /\ pc[q] = "lockAll" =>
          waitingOn[q] = sweep /\ sweep \in Nat
  BY DEF SleepPlaces, TypeOK
<1> SUFFICES ASSUME NEW S \in SUBSET Pid, S # {},
                    \A p \in S : \E q \in S : WaitsFor(p, q)
             PROVE  FALSE
  BY DEF NoCircularWait
<1>4. \A p \in S : status[p] = "WAIT_FILE"
  BY <1>1 DEF WaitsFor
<1>5. PICK p \in S, q \in S, r \in S : WaitsFor(p, q) /\ WaitsFor(q, r)
  OBVIOUS
<1>6. pc[q] = "lockAll" /\ waitingOn[q] < sweep
  BY <1>2, <1>4, <1>5
<1> QED BY <1>3, <1>4, <1>6

(* The locks of the cache never deadlock, whatever the number of processes. *)
THEOREM DeadlockFreedom == Spec => []NoCircularWait
<1>1. LockInv => NoCircularWait
  BY LocksAreOrdered
<1> QED BY <1>1, LockSafety, PTL
-----------------------------------------------------------------------------
(* What the buffers hold. *)

Late    == {"buffers", "flush", "flushing", "tables", "tabling"}   \* after kill-all
Buf(p)  == BufferOf(call[p].block)
Asleep(p) == status[p] = "WAIT_DISK"

\* Unless kill-all has spared a process, only Root and the idle one outlive it.
Dead  == \A p \in Pid : p >= 2 => status[p] = "TERMINATED"
Alone == /\ spared => pc[Root] \in Late
         /\ ~spared /\ pc[Root] \in Late => Dead

\* The machine works on the request of the process that sleeps on its own request.
OwnRequest(p) ==
    /\ pc[p] = "storing" =>
          device = [kind |-> "store", buffer |-> Buf(p), block |-> bufBlock[Buf(p)]]
    /\ pc[p] = "loading" =>
          device = [kind |-> "load", buffer |-> Buf(p), block |-> call[p].block]
    /\ pc[p] = "flushing" =>
          device = [kind |-> "store", buffer |-> sweep, block |-> flushBlock]

\* What shutdown knows of the buffer it stores: a spared process may have taken it.
FlushOK ==
    /\ sweep \in Buffer /\ flushBlock \in Block /\ BufferOf(flushBlock) = sweep
    /\ bufBlock[sweep] # None
    /\ spared \/ (bufDirty[sweep] /\ bufBlock[sweep] = flushBlock)

\* What the file manager knows of its buffer at each place.
StageOK(p) ==
    /\ pc[p] = "access" => bufBlock[Buf(p)] = call[p].block
    /\ pc[p] \in {"store", "storing"} => bufDirty[Buf(p)]
    /\ pc[p] \in {"load", "loading"} => ~bufDirty[Buf(p)]
    /\ pc[p] \in {"flush", "flushing"} => FlushOK

\* Awake after its own request, a process finds it done.
Done(p) ==
    /\ pc[p] = "storing" => page[Buf(p)] = disk[bufBlock[Buf(p)]]
    /\ pc[p] = "loading" => page[Buf(p)] = disk[call[p].block]
    /\ pc[p] = "flushing" => spared \/ page[sweep] = disk[flushBlock]

ProcOK(p) == StageOK(p) /\ IF Asleep(p) THEN OwnRequest(p) ELSE Done(p)

\* A block lives in one buffer only; clean buffers hold what the disk holds.
BufOK(f) ==
    /\ bufBlock[f] # None => BufferOf(bufBlock[f]) = f
    /\ bufDirty[f] => bufBlock[f] # None
    /\ \/ bufBlock[f] = None \/ bufDirty[f]
       \/ page[f] = disk[bufBlock[f]]
       \/ \E p \in Pid : pc[p] = "loading" /\ Buf(p) = f

\* A request for a buffer belongs to a process that still sleeps on it.
DeviceOwned ==
    device # NoRequest /\ device.buffer # None =>
        diskPid \in Pid /\ Asleep(diskPid) /\ pc[diskPid] \in {"storing", "loading", "flushing"}

\* Shutdown has stored the buffers it has passed, if nobody else has used them since.
Stored(f) == bufDirty[f] => page[f] = disk[bufBlock[f]]
Flushed ==
    /\ ~spared /\ pc[Root] \in {"buffers", "flush", "flushing"} =>
           \A f \in Buffer : f < sweep => Stored(f)
    /\ ~spared /\ pc[Root] \in {"tables", "tabling"} => \A f \in Buffer : Stored(f)
    /\ halted => pc[Root] = "tables"

ProcsOK   == \A p \in Pid : ProcOK(p)
BuffersOK == \A f \in Buffer : BufOK(f)
CacheInv  == LockInv /\ Alone /\ ProcsOK /\ BuffersOK /\ DeviceOwned /\ Flushed

LEMMA Facts ==
    ASSUME LockInv
    PROVE  /\ current \in Pid /\ status[current] = "RUNNING" /\ ~Asleep(current)
           /\ Root \in Pid /\ Idle \in Pid /\ status \in [Pid -> State]
           /\ pc \in [Pid -> Places] /\ call \in [Pid -> Call \cup {NoCall}]
           /\ bufBlock \in [Buffer -> Block \cup {None}] /\ bufDirty \in [Buffer -> BOOLEAN]
           /\ page \in [Buffer -> [Offset -> Word]] /\ disk \in [Block -> [Offset -> Word]]
           /\ None \notin Block /\ None \notin Buffer /\ None \notin Pid
BY NumProcsAssumption, CacheAssumption
   DEF LockInv, TypeOK, SchedTypeOK, OneRunning, Asleep, Root, Idle, Pid, None, Buffer

LEMMA BufType ==
    ASSUME LockInv, NEW p \in Pid, pc[p] \in InFile
    PROVE  call[p] \in Call /\ call[p].block \in Block /\ Buf(p) \in Buffer
<1>1. call[p] \in Call
  BY DEF LockInv, CallOK
<1>2. call[p].block \in Block
  BY <1>1 DEF Call
<1> QED BY <1>1, <1>2, BufferOfType DEF Buf

LEMMA Exclusive ==
    ASSUME LockInv, NEW p \in Pid, NEW q \in Pid,
           pc[p] \in InBuffer, pc[q] \in InBuffer, Buf(p) = Buf(q)
    PROVE  p = q
<1>1. Buf(p) \in Buffer
  BY BufType DEF InFile
<1>2. UsesBuffer(p, Buf(p)) /\ UsesBuffer(q, Buf(p))
  BY DEF UsesBuffer, Buf
<1> QED BY <1>1, <1>2 DEF LockInv, LockOwners

\* After kill-all only Root and the idle process run, and only Root is in the kernel,
\* if it has spared nobody.
LEMMA LateFacts ==
    ASSUME LockInv, Alone, pc[Root] \in Late, ~spared
    PROVE  /\ current \in {Root, Idle}
           /\ \A p \in Pid : p # Root => pc[p] = "user"
<1>1. \A p \in Pid : p = Root \/ p = Idle \/ p >= 2
  BY DEF Pid, Root, Idle
<1>2. \A p \in Pid : p >= 2 => status[p] = "TERMINATED"
  BY DEF Alone, Dead
<1> QED BY <1>1, <1>2, Facts DEF LockInv, SleepPlaces, RootEnds

LEMMA SwitchAsleep ==
    ASSUME LockInv, NEW s \in State, SwitchFrom([status EXCEPT ![current] = s])
    PROVE  /\ status' \in [Pid -> State] /\ status'[current] \in {s, "RUNNING"}
           /\ s = "WAIT_DISK" => status'[current] = s
           /\ \A p \in Pid : p # current =>
                 /\ Asleep(p)' <=> Asleep(p)
                 /\ status[p] = "TERMINATED" => status'[p] = "TERMINATED"
<1> DEFINE st == [status EXCEPT ![current] = s]
<1>1. st \in [Pid -> State]
  BY Facts
<1>2. /\ current' \in Pid /\ Runnable(st[current'])
      /\ status' = [st EXCEPT ![current'] = "RUNNING"] /\ status' \in [Pid -> State]
  BY <1>1, SwitchEffect
<1> QED BY <1>1, <1>2, Facts DEF Runnable, Asleep

(***************************************************************************)
(* Steps that change only who runs and who sleeps: the requests that are   *)
(* under way stay under way.                                               *)
(***************************************************************************)
LEMMA OnlyStatus ==
    ASSUME CacheInv,
           UNCHANGED <<pc, call, bufBlock, bufDirty, page, disk, device, diskPid, sweep, flushBlock, spared, halted>>,
           \A p \in Pid : p # current => (Asleep(p)' <=> Asleep(p)),
           pc[current] \in Waiting => status'[current] # "WAIT_DISK",
           ~spared /\ pc[Root] \in Late => Dead'
    PROVE  Alone' /\ ProcsOK' /\ BuffersOK' /\ DeviceOwned' /\ Flushed'
<1> USE DEF CacheInv
<1>1. Alone'
  BY DEF Alone
<1>2. BuffersOK'
  BY DEF BuffersOK, BufOK, Buf
<1>3. DeviceOwned'
  BY Facts DEF DeviceOwned, Asleep
<1>4. Flushed'
  BY DEF Flushed, Stored
<1>5. ASSUME NEW p \in Pid PROVE ProcOK(p)'
  <2>1. ProcOK(p)
    BY DEF ProcsOK
  <2>2. StageOK(p)'
    BY <2>1 DEF ProcOK, StageOK, FlushOK, Buf
  <2>3. CASE p # current
    <3>1. (OwnRequest(p)' <=> OwnRequest(p)) /\ (Done(p)' <=> Done(p))
      BY DEF OwnRequest, Done, Buf
    <3> QED BY <2>1, <2>2, <2>3, <3>1 DEF ProcOK
  <2>4. CASE p = current
    <3>1. Done(p)
      BY <2>1, <2>4, Facts DEF ProcOK
    <3>2. Done(p)'
      BY <3>1 DEF Done, Buf
    <3>3. pc[p] \notin Waiting => OwnRequest(p)'
      BY DEF OwnRequest, Waiting
    <3> QED BY <2>2, <2>4, <3>2, <3>3 DEF ProcOK, Asleep
  <2> QED BY <2>3, <2>4
<1> QED BY <1>1, <1>2, <1>3, <1>4, <1>5 DEF ProcsOK

(* The processor changes hands: the current process sleeps, exits or is preempted. *)
LEMMA SwitchOnly ==
    ASSUME CacheInv, NEW s \in State,
           SwitchFrom([status EXCEPT ![current] = s]),
           UNCHANGED <<pc, call, bufBlock, bufDirty, page, disk, device, diskPid, sweep, flushBlock, spared, halted>>,
           s = "WAIT_DISK" => pc[current] \notin Waiting
    PROVE  Alone' /\ ProcsOK' /\ BuffersOK' /\ DeviceOwned' /\ Flushed'
<1>1. LockInv /\ Alone
  BY DEF CacheInv
<1>2. /\ \A p \in Pid : p # current =>
            /\ Asleep(p)' <=> Asleep(p)
            /\ status[p] = "TERMINATED" => status'[p] = "TERMINATED"
      /\ status'[current] \in {s, "RUNNING"}
  BY <1>1, SwitchAsleep
<1>3. ~spared /\ pc[Root] \in Late => Dead'
  <2> SUFFICES ASSUME ~spared, pc[Root] \in Late, NEW p \in Pid, p >= 2
               PROVE  status'[p] = "TERMINATED"
    BY DEF Dead
  <2>1. current \in {Root, Idle}
    BY <1>1, LateFacts
  <2> QED BY <1>1, <1>2, <2>1 DEF Alone, Dead, Root, Idle
<1>4. pc[current] \in Waiting => status'[current] # "WAIT_DISK"
  BY <1>2
<1> QED BY <1>2, <1>3, <1>4, OnlyStatus

(***************************************************************************)
(* The current process goes to another place of the kernel, in or out, and *)
(* touches neither buffers nor disk.                                       *)
(***************************************************************************)
LEMMA Move ==
    ASSUME CacheInv, NEW c \in Places \ Waiting,
           pc' = [pc EXCEPT ![current] = c],
           call' \in [Pid -> Call \cup {NoCall}],
           \A p \in Pid : p # current => call'[p] = call[p],
           UNCHANGED <<status, bufBlock, bufDirty, page, disk, device, diskPid, spared>>,
           pc[current] # "loading",
           UNCHANGED <<sweep, flushBlock>> \/ current = Root,
           c \in Late <=> pc[current] \in Late,
           c = "flush" => FlushOK',
           c = "access" => bufBlock[BufferOf(call'[current].block)] = call'[current].block,
           c = "store" => bufDirty[BufferOf(call'[current].block)],
           c = "load" => ~bufDirty[BufferOf(call'[current].block)]
    PROVE  Alone' /\ ProcsOK' /\ BuffersOK' /\ DeviceOwned'
<1>1. LockInv /\ Alone /\ current \in Pid /\ Root \in Pid /\ ~Asleep(current)
  BY Facts DEF CacheInv
<1>2. /\ pc'[current] = c /\ \A p \in Pid : p # current => pc'[p] = pc[p]
      /\ \A p \in Pid : Asleep(p)' <=> Asleep(p)
  BY <1>1, Facts DEF Asleep
<1>3. Alone'
  <2>1. pc'[Root] \in Late <=> pc[Root] \in Late
    BY <1>1, <1>2
  <2> QED BY <1>1, <2>1 DEF Alone, Dead
<1>4. ASSUME NEW p \in Pid PROVE ProcOK(p)'
  <2>1. ProcOK(p)
    BY DEF CacheInv, ProcsOK
  <2>2. CASE p # current
    <3>1. pc'[p] = pc[p] /\ call'[p] = call[p]
      BY <1>2, <2>2
    <3>2. Buf(p)' = Buf(p)
      BY <3>1 DEF Buf
    <3>3. pc[p] \in {"flush", "flushing"} => sweep' = sweep /\ flushBlock' = flushBlock
      BY <1>1, <2>2 DEF LockInv, RootEnds, Ending
    <3>4. StageOK(p)'
      BY <2>1, <3>1, <3>2, <3>3 DEF ProcOK, StageOK, FlushOK
    <3>5. (OwnRequest(p)' <=> OwnRequest(p)) /\ (Done(p)' <=> Done(p))
      BY <3>1, <3>2, <3>3 DEF OwnRequest, Done
    <3> QED BY <1>2, <2>1, <3>4, <3>5 DEF ProcOK
  <2>3. CASE p = current
    <3>1. pc'[p] = c
      BY <1>2, <2>3
    <3>2. StageOK(p)'
      BY <2>3, <3>1 DEF StageOK, Waiting, Buf
    <3>3. Done(p)'
      BY <3>1 DEF Done, Waiting
    <3> QED BY <1>1, <1>2, <2>3, <3>2, <3>3 DEF ProcOK
  <2> QED BY <2>2, <2>3
<1>5. ASSUME NEW f \in Buffer PROVE BufOK(f)'
  <2>1. BufOK(f)
    BY DEF CacheInv, BuffersOK
  <2>2. \A p \in Pid : pc[p] = "loading" => pc'[p] = "loading" /\ Buf(p)' = Buf(p)
    BY <1>2 DEF Buf
  <2> QED BY <2>1, <2>2 DEF BufOK
<1>6. DeviceOwned'
  <2> SUFFICES ASSUME device # NoRequest, device.buffer # None
               PROVE  /\ diskPid \in Pid /\ Asleep(diskPid)'
                      /\ pc'[diskPid] \in {"storing", "loading", "flushing"}
    BY DEF DeviceOwned
  <2>1. /\ diskPid \in Pid /\ Asleep(diskPid)
        /\ pc[diskPid] \in {"storing", "loading", "flushing"}
    BY DEF CacheInv, DeviceOwned
  <2> QED BY <1>1, <1>2, <2>1 DEF Asleep
<1> QED BY <1>3, <1>4, <1>5, <1>6 DEF ProcsOK, BuffersOK

(***************************************************************************)
(* The current process hands a request to the machine and sleeps: nobody   *)
(* else sleeps on the disk then.                                           *)
(***************************************************************************)
LEMMA Issue ==
    ASSUME CacheInv, NEW req \in Request, NEW next \in Waiting,
           ~halted, ~diskBusy, DiskRequest(req, next),
           pc[current] \in {"store", "load", "page", "flush", "tables"},
           next = "storing" =>
               req = [kind |-> "store", buffer |-> MyBuffer, block |-> bufBlock[MyBuffer]]
               /\ bufDirty[MyBuffer],
           next = "loading" =>
               req = [kind |-> "load", buffer |-> MyBuffer, block |-> MyBlock]
               /\ ~bufDirty[MyBuffer],
           next = "flushing" =>
               req = [kind |-> "store", buffer |-> sweep, block |-> flushBlock] /\ FlushOK,
           next \in {"paging", "tabling"} => req.buffer = None,
           next = "flushing" <=> pc[current] = "flush",
           next = "tabling" <=> pc[current] = "tables"
    PROVE  Alone' /\ ProcsOK' /\ BuffersOK' /\ DeviceOwned' /\ Flushed'
<1>1. /\ LockInv /\ Alone /\ current \in Pid /\ Root \in Pid /\ pc \in [Pid -> Places]
      /\ status \in [Pid -> State]
  BY Facts DEF CacheInv
<1>2. device = NoRequest /\ \A p \in Pid : ~Asleep(p)
  BY <1>1 DEF LockInv, DiskInSync, NoLostWakeup, TypeOK, Asleep
<1>3. /\ device' = req /\ diskPid' = current /\ pc' = [pc EXCEPT ![current] = next]
      /\ UNCHANGED <<call, bufBlock, bufDirty, page, disk, sweep, flushBlock, spared, halted>>
  BY <1>2 DEF DiskRequest, Goto, lockVars, dataVars, endVars, keptVars
<1>4. SwitchFrom([status EXCEPT ![current] = "WAIT_DISK"])
  BY DEF DiskRequest, Sleep
<1>5. /\ status'[current] = "WAIT_DISK"
      /\ \A p \in Pid : p # current =>
            /\ Asleep(p)' <=> Asleep(p)
            /\ status[p] = "TERMINATED" => status'[p] = "TERMINATED"
  <2>1. "WAIT_DISK" \in State
    BY DEF State, Sleeping
  <2> QED BY <1>1, <1>4, <2>1, SwitchAsleep
<1>6. pc'[current] = next /\ \A p \in Pid : p # current => pc'[p] = pc[p]
  BY <1>1, <1>3
<1>7. Alone'
  <2>1. pc'[Root] \in Late <=> pc[Root] \in Late
    BY <1>1, <1>6 DEF Late, Waiting
  <2>2. ASSUME ~spared, pc[Root] \in Late, NEW p \in Pid, p >= 2
        PROVE  status'[p] = "TERMINATED"
    <3>1. current \in {Root, Idle}
      BY <1>1, <2>2, LateFacts
    <3> QED BY <1>1, <1>5, <2>2, <3>1 DEF Alone, Dead, Root, Idle
  <2> QED BY <1>1, <1>3, <2>1, <2>2 DEF Alone, Dead
<1>8. ASSUME NEW p \in Pid PROVE ProcOK(p)'
  <2>1. StageOK(p) /\ Done(p)
    BY <1>2 DEF CacheInv, ProcsOK, ProcOK
  <2>2. Buf(p)' = Buf(p)
    BY <1>3 DEF Buf
  <2>3. CASE p # current
    <3>1. StageOK(p)' /\ Done(p)'
      BY <1>3, <1>6, <2>1, <2>2, <2>3 DEF StageOK, FlushOK, Done
    <3> QED BY <1>2, <1>5, <2>3, <3>1 DEF ProcOK
  <2>4. CASE p = current
    <3>1. Buf(p) = MyBuffer
      BY <2>4 DEF Buf, MyBuffer, MyBlock
    <3>2. StageOK(p)'
      BY <1>3, <1>6, <2>2, <2>4, <3>1 DEF StageOK, FlushOK, Waiting
    <3>3. OwnRequest(p)'
      BY <1>3, <1>6, <2>2, <2>4, <3>1 DEF OwnRequest, MyBlock
    <3> QED BY <1>5, <2>4, <3>2, <3>3 DEF ProcOK, Asleep
  <2> QED BY <2>3, <2>4
<1>9. ASSUME NEW f \in Buffer PROVE BufOK(f)'
  <2>1. BufOK(f)
    BY DEF CacheInv, BuffersOK
  <2>2. \A p \in Pid : pc[p] = "loading" => pc'[p] = "loading" /\ Buf(p)' = Buf(p)
    BY <1>3, <1>6 DEF Buf
  <2> QED BY <1>3, <2>1, <2>2 DEF BufOK
<1>10. DeviceOwned'
  <2>1. next \notin {"paging", "tabling"} => next \in {"storing", "loading", "flushing"}
    BY DEF Waiting
  <2> QED BY <1>1, <1>3, <1>5, <1>6, <2>1 DEF DeviceOwned, Asleep
<1>11. Flushed'
  <2>1. /\ pc'[Root] \in {"buffers", "flush", "flushing"} =>
               pc[Root] \in {"buffers", "flush", "flushing"}
        /\ pc'[Root] \in {"tables", "tabling"} => pc[Root] \in {"tables", "tabling"}
    BY <1>1, <1>6 DEF Waiting
  <2> QED BY <1>3, <2>1 DEF CacheInv, Flushed, Stored
<1> QED BY <1>7, <1>8, <1>9, <1>10, <1>11 DEF ProcsOK, BuffersOK

(***************************************************************************)
(* What the holder of a buffer does to it concerns no other process: the   *)
(* other holders have other buffers, and shutdown is not flushing yet, or  *)
(* has spared the holder.                                                  *)
(***************************************************************************)
LEMMA HolderAlone ==
    ASSUME LockInv, Alone, NEW q \in Pid, pc[q] \in InBuffer
    PROVE  /\ spared \/ pc[Root] \notin Late
           /\ \A p \in Pid : p # q /\ pc[p] \in InBuffer => Buf(p) # Buf(q)
           /\ \A p \in Pid : pc[p] \in {"flushing", "flush"} => p = Root /\ spared
<1>1. spared \/ pc[Root] \notin Late
  BY LateFacts DEF InBuffer, Late
<1>2. \A p \in Pid : p # q /\ pc[p] \in InBuffer => Buf(p) # Buf(q)
  BY Exclusive
<1>3. \A p \in Pid : pc[p] \in {"flushing", "flush"} => p = Root
  BY DEF LockInv, RootEnds, Ending
<1> QED BY <1>1, <1>2, <1>3 DEF Late

(***************************************************************************)
(* A step of the holder of a buffer changes only that buffer, and leaves   *)
(* the other processes and the disk alone.                                 *)
(***************************************************************************)
LEMMA HolderStep ==
    ASSUME CacheInv, pc[current] \in InBuffer, NEW c \in {"user", "load", "access"},
           pc' = [pc EXCEPT ![current] = c],
           \A p \in Pid : p # current => call'[p] = call[p],
           UNCHANGED <<disk, device, diskPid, sweep, flushBlock, spared, halted>>,
           \A p \in Pid : /\ status'[p] = "WAIT_DISK" <=> status[p] = "WAIT_DISK"
                          /\ status[p] = "TERMINATED" => status'[p] = "TERMINATED",
           \A f \in Buffer : f # MyBuffer =>
               bufBlock'[f] = bufBlock[f] /\ bufDirty'[f] = bufDirty[f] /\ page'[f] = page[f],
           c # "user" => call'[current] = call[current],
           c = "access" => bufBlock'[MyBuffer] = MyBlock,
           c = "load" => ~bufDirty'[MyBuffer],
           bufBlock'[MyBuffer] # None => BufferOf(bufBlock'[MyBuffer]) = MyBuffer,
           bufBlock[MyBuffer] # None => bufBlock'[MyBuffer] # None,
           bufDirty'[MyBuffer] => bufBlock'[MyBuffer] # None,
           \/ bufBlock'[MyBuffer] = None \/ bufDirty'[MyBuffer]
           \/ page'[MyBuffer] = disk[bufBlock'[MyBuffer]]
    PROVE  Alone' /\ ProcsOK' /\ BuffersOK' /\ DeviceOwned' /\ Flushed'
<1>1. /\ LockInv /\ Alone /\ current \in Pid /\ Root \in Pid /\ ~Asleep(current)
      /\ Buf(current) = MyBuffer /\ MyBuffer \in Buffer /\ pc \in [Pid -> Places]
  BY Facts, BufType DEF CacheInv, Buf, MyBuffer, MyBlock, InFile
<1>2. /\ pc'[current] = c /\ \A p \in Pid : p # current => pc'[p] = pc[p]
      /\ \A p \in Pid : Asleep(p)' <=> Asleep(p)
  <2>1. pc'[current] = c /\ \A p \in Pid : p # current => pc'[p] = pc[p]
    BY <1>1
  <2>2. ASSUME NEW p \in Pid PROVE Asleep(p)' <=> Asleep(p)
    BY DEF Asleep
  <2> QED BY <2>1, <2>2
<1>3. /\ spared \/ pc[Root] \notin Late
      /\ \A p \in Pid : p # current /\ pc[p] \in InBuffer => Buf(p) # MyBuffer
      /\ \A p \in Pid : pc[p] \in {"flushing", "flush"} => p = Root /\ spared
  BY <1>1, HolderAlone
<1>4. /\ current # Root => pc'[Root] = pc[Root]
      /\ current = Root => pc[Root] \notin Late /\ pc'[Root] \notin Late
  BY <1>1, <1>2 DEF Late, InBuffer
<1>5. Alone'
  BY <1>1, <1>3, <1>4 DEF Alone
<1>6. Flushed'
  BY <1>1, <1>3, <1>4 DEF CacheInv, Flushed, Late
<1>7. ASSUME NEW p \in Pid PROVE ProcOK(p)'
  <2>1. ProcOK(p)
    BY DEF CacheInv, ProcsOK
  <2>2. CASE p # current
    <3>1. pc'[p] = pc[p] /\ call'[p] = call[p] /\ Buf(p)' = Buf(p)
      BY <1>2, <1>3, <2>2 DEF Buf
    <3>2. CASE pc[p] \in InBuffer
      <4>1. Buf(p) # MyBuffer /\ Buf(p) \in Buffer
        BY <1>1, <1>3, <2>2, <3>2, BufType DEF InFile
      <4>2. /\ bufBlock'[Buf(p)] = bufBlock[Buf(p)] /\ bufDirty'[Buf(p)] = bufDirty[Buf(p)]
            /\ page'[Buf(p)] = page[Buf(p)]
        BY <4>1
      <4>3. StageOK(p)' /\ (OwnRequest(p)' <=> OwnRequest(p)) /\ (Done(p)' <=> Done(p))
        BY <2>1, <3>1, <3>2, <4>2 DEF ProcOK, StageOK, OwnRequest, Done, InBuffer
      <4> QED BY <1>2, <2>1, <4>3 DEF ProcOK
    <3>3. CASE pc[p] \in {"flush", "flushing"}
      <4>1. spared /\ FlushOK
        BY <1>3, <2>1, <3>3 DEF ProcOK, StageOK
      <4>2. bufBlock'[sweep] # None
        BY <1>1, <4>1 DEF FlushOK
      <4>3. FlushOK'
        BY <4>1, <4>2 DEF FlushOK
      <4>4. StageOK(p)' /\ Done(p)' /\ (OwnRequest(p)' <=> OwnRequest(p))
        BY <3>1, <3>3, <4>1, <4>3 DEF StageOK, OwnRequest, Done
      <4> QED BY <1>2, <2>1, <4>4 DEF ProcOK
    <3>4. CASE pc[p] \notin InBuffer \cup {"flush", "flushing"}
      BY <3>1, <3>4 DEF ProcOK, StageOK, OwnRequest, Done, InBuffer
    <3> QED BY <3>2, <3>3, <3>4
  <2>3. CASE p = current
    <3>1. c # "user" => Buf(p)' = MyBuffer
      BY <1>1, <2>3 DEF Buf, MyBuffer, MyBlock
    <3>2. StageOK(p)'
      BY <1>2, <2>3, <3>1 DEF StageOK, MyBlock
    <3>3. Done(p)' /\ OwnRequest(p)'
      BY <1>2, <2>3 DEF Done, OwnRequest
    <3> QED BY <3>2, <3>3 DEF ProcOK
  <2> QED BY <2>2, <2>3
<1>8. ASSUME NEW f \in Buffer PROVE BufOK(f)'
  <2>1. BufOK(f)
    BY DEF CacheInv, BuffersOK
  <2>2. CASE f = MyBuffer
    BY <2>2 DEF BufOK
  <2>3. CASE f # MyBuffer
    <3>1. \A p \in Pid : pc[p] = "loading" /\ Buf(p) = f => pc'[p] = "loading" /\ Buf(p)' = f
      BY <1>1, <1>2, <2>3 DEF Buf
    <3> QED BY <2>1, <2>3, <3>1 DEF BufOK
  <2> QED BY <2>2, <2>3
<1>9. DeviceOwned'
  BY <1>1, <1>2 DEF CacheInv, DeviceOwned, Asleep
<1> QED BY <1>5, <1>6, <1>7, <1>8, <1>9 DEF ProcsOK, BuffersOK

LEMMA HolderSteps ==
    ASSUME CacheInv, OldStored \/ NewLoaded \/ ReadWord \/ WriteWord
    PROVE  Alone' /\ ProcsOK' /\ BuffersOK' /\ DeviceOwned' /\ Flushed'
<1>1. /\ LockInv /\ Alone /\ current \in Pid /\ ~Asleep(current)
      /\ pc \in [Pid -> Places] /\ status \in [Pid -> State]
      /\ bufBlock \in [Buffer -> Block \cup {None}] /\ bufDirty \in [Buffer -> BOOLEAN]
      /\ page \in [Buffer -> [Offset -> Word]] /\ call \in [Pid -> Call \cup {NoCall}]
      /\ None \notin Block
  BY Facts DEF CacheInv
<1>2. pc[current] \in InBuffer
  BY DEF OldStored, NewLoaded, ReadWord, WriteWord, At, InBuffer
<1>3. Buf(current) = MyBuffer /\ MyBuffer \in Buffer /\ MyBlock \in Block
  BY <1>1, <1>2, BufType DEF Buf, MyBuffer, MyBlock, InFile
<1>4. ProcOK(current) /\ BufOK(MyBuffer)
  BY <1>1, <1>3 DEF CacheInv, ProcsOK, BuffersOK
<1>5. CASE OldStored
  <2>1. page[MyBuffer] = disk[bufBlock[MyBuffer]]
    BY <1>1, <1>3, <1>4, <1>5 DEF ProcOK, Done, OldStored, At
  <2>2. BufOK(MyBuffer)!1
    BY <1>4 DEF BufOK
  <2>3. /\ pc' = [pc EXCEPT ![current] = "load"] /\ bufDirty' = [bufDirty EXCEPT ![MyBuffer] = FALSE]
        /\ UNCHANGED <<status, call, bufBlock, page, disk, device, diskPid, sweep, flushBlock, spared, halted>>
    BY <1>5 DEF OldStored, Goto, schedVars, diskVars, endVars, keptVars
  <2> QED BY <1>1, <1>2, <1>3, <2>1, <2>2, <2>3, HolderStep
<1>6. CASE NewLoaded
  <2>1. page[MyBuffer] = disk[MyBlock] /\ ~bufDirty[MyBuffer]
    BY <1>1, <1>3, <1>4, <1>6 DEF ProcOK, StageOK, Done, NewLoaded, At, MyBlock
  <2>2. /\ pc' = [pc EXCEPT ![current] = "access"]
        /\ bufBlock' = [bufBlock EXCEPT ![MyBuffer] = MyBlock]
        /\ UNCHANGED <<status, call, bufDirty, page, disk, device, diskPid, sweep, flushBlock, spared, halted>>
    BY <1>6 DEF NewLoaded, Goto, schedVars, diskVars, endVars, keptVars
  <2>3. bufBlock'[MyBuffer] = MyBlock /\ BufferOf(MyBlock) = MyBuffer
    BY <1>1, <1>3, <2>2 DEF MyBuffer
  <2> QED BY <1>1, <1>2, <1>3, <2>1, <2>2, <2>3, HolderStep
<1>7. CASE ReadWord \/ WriteWord
  <2>1. Release /\ pc[current] = "access"
    BY <1>7 DEF ReadWord, WriteWord, At
  <2>2. bufBlock[MyBuffer] = MyBlock
    BY <1>3, <1>4, <2>1 DEF ProcOK, StageOK, MyBlock
  <2>3. /\ pc' = [pc EXCEPT ![current] = "user"] /\ call' = [call EXCEPT ![current] = NoCall]
        /\ UNCHANGED <<bufBlock, disk, device, diskPid, sweep, flushBlock, spared, halted>>
        /\ status' = Wake(Wake(status, "WAIT_BUFFER", MyBuffer), "WAIT_FILE", MyFile)
    BY <2>1 DEF Release, Goto, diskVars, endVars, keptVars
  <2>4. \A p \in Pid : /\ status'[p] = "WAIT_DISK" <=> status[p] = "WAIT_DISK"
                       /\ status[p] = "TERMINATED" => status'[p] = "TERMINATED"
    BY <1>1, <2>3 DEF Wake
  <2>5. /\ \A f \in Buffer : f # MyBuffer => bufDirty'[f] = bufDirty[f] /\ page'[f] = page[f]
        /\ bufDirty'[MyBuffer] \/ (bufDirty' = bufDirty /\ page' = page)
    BY <1>1, <1>3, <1>7 DEF ReadWord, WriteWord
  <2>6. \/ bufDirty[MyBuffer] \/ page[MyBuffer] = disk[bufBlock[MyBuffer]]
    <3>1. \A p \in Pid : pc[p] = "loading" => Buf(p) # MyBuffer
      BY <1>1, <1>2, <1>3, <2>1, HolderAlone DEF InBuffer
    <3> QED BY <1>1, <1>3, <1>4, <2>2, <3>1 DEF BufOK
  <2>7. BufferOf(bufBlock'[MyBuffer]) = MyBuffer /\ bufBlock'[MyBuffer] # None
    BY <1>1, <1>3, <2>2, <2>3 DEF MyBuffer
  <2>8. \A p \in Pid : p # current => call'[p] = call[p]
    BY <1>1, <2>3
  <2> QED BY <1>1, <1>2, <1>3, <2>3, <2>4, <2>5, <2>6, <2>7, <2>8, HolderStep
<1> QED BY <1>5, <1>6, <1>7

(***************************************************************************)
(* What the machine does at the end of a request: nothing to the buffers   *)
(* and their blocks, or it moves a block of the buffer of the one process  *)
(* that sleeps on the request: to the disk, or from it to a clean buffer.  *)
(***************************************************************************)
Moving == {"storing", "loading", "flushing"}

Stores(q, f, b) ==
    /\ \/ pc[q] = "storing" /\ f = Buf(q) /\ b = bufBlock[f] /\ bufDirty[f]
       \/ pc[q] = "flushing" /\ f = sweep /\ b = flushBlock
    /\ disk' = [disk EXCEPT ![b] = page[f]] /\ page' = page

Loads(q, f, b) ==
    /\ pc[q] = "loading" /\ f = Buf(q) /\ b = call[q].block /\ ~bufDirty[f]
    /\ page' = [page EXCEPT ![f] = disk[b]] /\ disk' = disk

Transfers(q, f, b) == BufferOf(b) = f /\ (Stores(q, f, b) \/ Loads(q, f, b))

LEMMA InterruptEffect ==
    ASSUME CacheInv, DiskInterrupt
    PROVE  \/ /\ UNCHANGED <<page, disk>>
              /\ \A p \in Pid : Asleep(p) => pc[p] \notin Moving
           \/ \E q \in Pid, f \in Buffer, b \in Block :
                 /\ Transfers(q, f, b)
                 /\ \A p \in Pid : Asleep(p) /\ pc[p] \in Moving => p = q
<1>1. LockInv /\ ProcsOK /\ BuffersOK /\ DeviceOwned /\ device # NoRequest
  BY DEF CacheInv, DiskInterrupt
<1>2. \A p \in Pid : Asleep(p) /\ pc[p] \in Moving => p = diskPid
  BY <1>1 DEF LockInv, DiskInSync, Asleep, Moving, Waiting
<1>3. CASE device.buffer = None
  <2>1. UNCHANGED <<page, disk>>
    BY <1>3 DEF DiskInterrupt
  <2>2. ASSUME NEW p \in Pid, Asleep(p), pc[p] \in Moving PROVE FALSE
    <3>1. OwnRequest(p) /\ StageOK(p)
      BY <1>1, <2>2 DEF ProcsOK, ProcOK
    <3>2. pc[p] \in InFile \/ pc[p] = "flushing"
      BY <2>2 DEF Moving, InFile, InBuffer
    <3>3. device.buffer \in Buffer
      BY <1>1, <2>2, <3>1, <3>2, BufType
         DEF OwnRequest, StageOK, FlushOK, Moving, InFile, InBuffer
    <3> QED BY <1>1, <1>3, <3>3, Facts
  <2> QED BY <2>1, <2>2
<1>4. CASE device.buffer # None
  <2> DEFINE q == diskPid
  <2>1. q \in Pid /\ Asleep(q) /\ pc[q] \in Moving
    BY <1>1, <1>4 DEF DeviceOwned, Moving
  <2>2. OwnRequest(q) /\ StageOK(q)
    BY <1>1, <2>1 DEF ProcsOK, ProcOK
  <2> HIDE DEF q
  <2>3. CASE pc[q] = "loading"
    <3>1. Buf(q) \in Buffer /\ call[q].block \in Block /\ BufferOf(call[q].block) = Buf(q)
      BY <1>1, <2>1, <2>3, BufType DEF InFile, InBuffer, Buf
    <3>2. device = [kind |-> "load", buffer |-> Buf(q), block |-> call[q].block]
      BY <2>2, <2>3 DEF OwnRequest
    <3>3. /\ device.kind = "load" /\ device.buffer = Buf(q) /\ device.block = call[q].block
      BY <3>2
    <3>4. page' = [page EXCEPT ![Buf(q)] = disk[call[q].block]] /\ disk' = disk
      BY <1>4, <3>3 DEF DiskInterrupt
    <3>5. Transfers(q, Buf(q), call[q].block)
      BY <2>2, <2>3, <3>1, <3>4 DEF StageOK, Transfers, Loads
    <3> QED BY <1>2, <2>1, <3>1, <3>5 DEF q
  <2>4. CASE pc[q] \in {"storing", "flushing"}
    <3>1. PICK f \in Buffer, b \in Block :
             /\ \/ pc[q] = "storing" /\ f = Buf(q) /\ b = bufBlock[f] /\ bufDirty[f]
                \/ pc[q] = "flushing" /\ f = sweep /\ b = flushBlock
             /\ BufferOf(b) = f
             /\ device = [kind |-> "store", buffer |-> f, block |-> b]
      <4>1. CASE pc[q] = "storing"
        <5>1. Buf(q) \in Buffer /\ bufDirty[Buf(q)]
          BY <1>1, <2>1, <2>2, <4>1, BufType DEF StageOK, InFile, InBuffer
        <5>2. bufBlock[Buf(q)] \in Block /\ BufferOf(bufBlock[Buf(q)]) = Buf(q)
          BY <1>1, <5>1, Facts DEF BuffersOK, BufOK
        <5> QED BY <2>2, <4>1, <5>1, <5>2 DEF OwnRequest
      <4>2. CASE pc[q] = "flushing"
        BY <2>2, <4>2 DEF OwnRequest, StageOK, FlushOK
      <4> QED BY <2>4, <4>1, <4>2
    <3>2. Transfers(q, f, b)
      BY <1>4, <3>1 DEF DiskInterrupt, Transfers, Stores
    <3> QED BY <1>2, <2>1, <3>2 DEF q
  <2> QED BY <2>1, <2>3, <2>4 DEF Moving
<1> QED BY <1>3, <1>4

LEMMA InterruptStep ==
    ASSUME CacheInv, DiskInterrupt
    PROVE  Alone' /\ ProcsOK' /\ BuffersOK' /\ DeviceOwned' /\ Flushed'
<1>1. /\ LockInv /\ Alone /\ Idle \in Pid /\ status \in [Pid -> State]
      /\ disk \in [Block -> [Offset -> Word]] /\ page \in [Buffer -> [Offset -> Word]]
      /\ bufBlock \in [Buffer -> Block \cup {None}] /\ None \notin Block
  BY Facts DEF CacheInv
<1>2. /\ device' = NoRequest /\ status' = WakeAll(status, "WAIT_DISK")
      /\ UNCHANGED <<pc, call, bufBlock, bufDirty, sweep, flushBlock, spared, halted>>
  BY DEF DiskInterrupt, endVars, keptVars
<1>3. \A p \in Pid : /\ status'[p] # "WAIT_DISK"
                     /\ p >= 2 /\ status[p] = "TERMINATED" => status'[p] = "TERMINATED"
  BY <1>1, <1>2 DEF WakeAll, LockInv, OneRunning, Pid, Idle
<1>4. Alone'
  BY <1>1, <1>2, <1>3 DEF Alone, Dead
<1>5. DeviceOwned'
  BY <1>2 DEF DeviceOwned
<1>6. ASSUME NEW p \in Pid PROVE StageOK(p)' /\ Buf(p)' = Buf(p)
  <2>1. StageOK(p)
    BY DEF CacheInv, ProcsOK, ProcOK
  <2> QED BY <1>2, <2>1 DEF StageOK, FlushOK, Buf
<1>7. CASE /\ UNCHANGED <<page, disk>>
           /\ \A p \in Pid : Asleep(p) => pc[p] \notin Moving
  <2>1. ASSUME NEW p \in Pid PROVE ProcOK(p)'
    <3>1. Asleep(p) \/ Done(p)
      BY DEF CacheInv, ProcsOK, ProcOK
    <3>2. Done(p)'
      BY <1>2, <1>6, <1>7, <3>1 DEF Done, Moving
    <3> QED BY <1>3, <1>6, <3>2 DEF ProcOK, Asleep
  <2>2. ASSUME NEW f \in Buffer PROVE BufOK(f)'
    <3>1. BufOK(f)
      BY DEF CacheInv, BuffersOK
    <3> QED BY <1>2, <1>6, <1>7, <3>1 DEF BufOK
  <2>3. Flushed'
    BY <1>2, <1>7 DEF CacheInv, Flushed, Stored
  <2> QED BY <1>4, <1>5, <2>1, <2>2, <2>3 DEF ProcsOK, BuffersOK
<1>8. ASSUME NEW q \in Pid, NEW f \in Buffer, NEW b \in Block, Transfers(q, f, b),
             \A p \in Pid : Asleep(p) /\ pc[p] \in Moving => p = q
      PROVE  ProcsOK' /\ BuffersOK' /\ Flushed'
  <2>1. \A g \in Buffer : /\ bufDirty[g] => bufBlock[g] \in Block
                          /\ bufBlock[g] \in Block => BufferOf(bufBlock[g]) = g
    BY <1>1 DEF CacheInv, BuffersOK, BufOK
  <2>2. page'[f] = disk'[b]
    BY <1>1, <1>8 DEF Transfers, Stores, Loads
  \* A buffer that agrees with a block of its own still does, unless it is loaded.
  <2>3. ASSUME NEW g \in Buffer, NEW c \in Block, BufferOf(c) = g, page[g] = disk[c],
               g # f \/ Stores(q, f, b)
        PROVE  page'[g] = disk'[c]
    <3>1. CASE c = b
      BY <1>8, <2>2, <2>3, <3>1 DEF Transfers
    <3>2. CASE c # b
      <4>1. disk'[c] = disk[c] /\ page'[g] = page[g]
        BY <1>1, <1>8, <2>3, <3>2 DEF Transfers, Stores, Loads
      <4> QED BY <2>3, <4>1
    <3> QED BY <3>1, <3>2
  <2>4. ASSUME NEW p \in Pid, pc[p] \in InBuffer, p # q PROVE Buf(p) # f \/ Stores(q, f, b)
    <3>1. CASE Loads(q, f, b)
      <4>1. pc[q] \in InBuffer /\ f = Buf(q)
        BY <3>1 DEF Loads, InBuffer
      <4> QED BY <1>1, <2>4, <4>1, Exclusive
    <3> QED BY <1>8, <3>1 DEF Transfers
  <2>5. ASSUME NEW p \in Pid, pc[p] \in Moving PROVE Done(p)'
    <3>1. CASE p = q
      BY <1>2, <1>6, <1>8, <2>2, <3>1 DEF Transfers, Stores, Loads, Done
    <3>2. CASE p # q
      <4>1. Done(p) /\ StageOK(p)
        BY <1>8, <2>5, <3>2 DEF CacheInv, ProcsOK, ProcOK
      <4>2. CASE pc[p] = "storing"
        <5>1. Buf(p) \in Buffer /\ pc[p] \in InBuffer
          BY <1>1, <4>2, BufType DEF InFile, InBuffer
        <5>2. bufBlock[Buf(p)] \in Block /\ BufferOf(bufBlock[Buf(p)]) = Buf(p)
          BY <2>1, <4>1, <4>2, <5>1 DEF StageOK
        <5>3. page'[Buf(p)] = disk'[bufBlock[Buf(p)]]
          BY <2>3, <2>4, <3>2, <4>1, <4>2, <5>1, <5>2 DEF Done
        <5> QED BY <1>2, <1>6, <4>2, <5>3 DEF Done
      <4>3. CASE pc[p] = "loading"
        <5>1. /\ Buf(p) \in Buffer /\ call[p].block \in Block /\ pc[p] \in InBuffer
              /\ BufferOf(call[p].block) = Buf(p)
          BY <1>1, <4>3, BufType DEF InFile, InBuffer, Buf
        <5>2. page'[Buf(p)] = disk'[call[p].block]
          BY <2>3, <2>4, <3>2, <4>1, <4>3, <5>1 DEF Done
        <5> QED BY <1>2, <1>6, <4>3, <5>2 DEF Done
      <4>4. CASE pc[p] = "flushing"
        <5>1. CASE spared
          BY <1>2, <4>4, <5>1 DEF Done
        <5>2. CASE ~spared
          <6>1. p = Root /\ pc[q] = "user"
            BY <1>1, <3>2, <4>4, <5>2, LateFacts DEF LockInv, RootEnds, Ending, Late
          <6> QED BY <1>8, <6>1 DEF Transfers, Stores, Loads
        <5> QED BY <5>1, <5>2
      <4> QED BY <2>5, <4>2, <4>3, <4>4 DEF Moving
    <3> QED BY <3>1, <3>2
  <2>6. ProcsOK'
    <3> SUFFICES ASSUME NEW p \in Pid PROVE ProcOK(p)'
      BY DEF ProcsOK
    <3>1. Done(p)'
      BY <1>2, <2>5 DEF Done, Moving
    <3> QED BY <1>3, <1>6, <3>1 DEF ProcOK, Asleep
  <2>7. ASSUME NEW g \in Buffer PROVE BufOK(g)'
    <3>1. BufOK(g)
      BY DEF CacheInv, BuffersOK
    <3>2. CASE g # f \/ Stores(q, f, b)
      <4>1. bufBlock[g] # None /\ page[g] = disk[bufBlock[g]] =>
               page'[g] = disk'[bufBlock[g]]
        BY <1>1, <2>1, <2>3, <3>2
      <4> QED BY <1>2, <1>6, <3>1, <4>1 DEF BufOK
    <3>3. CASE g = f /\ Loads(q, f, b)
      <4>1. pc[q] = "loading" /\ Buf(q) = f
        BY <3>3 DEF Loads
      <4> QED BY <1>2, <1>6, <3>1, <3>3, <4>1 DEF BufOK
    <3> QED BY <1>8, <3>2, <3>3 DEF Transfers
  <2>8. \A g \in Buffer : Stored(g) => Stored(g)'
    <3> SUFFICES ASSUME NEW g \in Buffer, Stored(g), bufDirty[g]
                 PROVE  page'[g] = disk'[bufBlock[g]]
      BY <1>2 DEF Stored
    <3>1. g # f \/ Stores(q, f, b)
      BY <1>8 DEF Transfers, Loads
    <3> QED BY <2>1, <2>3, <3>1 DEF Stored
  <2>9. Flushed'
    BY <1>2, <2>8 DEF CacheInv, Flushed
  <2> QED BY <2>6, <2>7, <2>9 DEF BuffersOK
<1> QED BY <1>4, <1>5, <1>7, <1>8, InterruptEffect

LEMMA KillAllStep ==
    ASSUME CacheInv, KillAll
    PROVE  Alone' /\ ProcsOK' /\ BuffersOK' /\ DeviceOwned' /\ Flushed'
<1>1. /\ LockInv /\ Root \in Pid /\ Idle \in Pid /\ pc \in [Pid -> Places]
      /\ status \in [Pid -> State] /\ current \in Pid
  BY Facts DEF CacheInv
<1>2. current = Root /\ pc[Root] = "lockAll" /\ sweep = NumInodes /\ ~halted
  BY <1>1 DEF KillAll, At, LockInv, RootEnds, Ending
<1>3. /\ pc' = [p \in Pid |-> IF Victim(p) THEN "user" ELSE IF p = current THEN "buffers" ELSE pc[p]]
      /\ \A p \in Pid : /\ Victim(p) => status'[p] = "TERMINATED"
                        /\ status[p] = "TERMINATED" => status'[p] = "TERMINATED"
      /\ sweep' = 0
      /\ spared' = \E p \in Pid : p >= 2 /\ ~Victim(p) /\ status[p] # "TERMINATED"
      /\ UNCHANGED <<bufBlock, bufDirty, page, disk, device, diskPid, halted>>
  BY DEF KillAll, dataVars, diskVars
<1>4. ASSUME NEW p \in Pid, pc[p] \in InBuffer PROVE FALSE
  <2>1. call[p].block \in Block
    BY <1>1, <1>4, BufType DEF InFile
  <2>2. FileOf[call[p].block] \in Inode
    BY <2>1, CacheAssumption
  <2>3. UsesInode(p, FileOf[call[p].block]) /\ UsesInode(Root, FileOf[call[p].block])
    BY <1>2, <1>4, <2>2, CacheAssumption DEF UsesInode, Inode
  <2> QED BY <1>1, <1>2, <1>4, <2>2, <2>3 DEF LockInv, LockOwners, InBuffer
<1>5. \A p \in Pid : pc[p] \notin InBuffer \cup {"flush", "flushing"}
  BY <1>1, <1>2, <1>4 DEF LockInv, RootEnds, Ending
<1>6. \A p \in Pid : pc'[p] \notin InBuffer \cup {"flush", "flushing"}
  BY <1>3, <1>5 DEF InBuffer
<1>7. pc'[Root] = "buffers"
  BY <1>1, <1>2, <1>3 DEF Victim
<1>8. Alone'
  BY <1>3, <1>7 DEF Alone, Dead, Late
<1>9. ProcsOK'
  BY <1>6 DEF ProcsOK, ProcOK, StageOK, OwnRequest, Done, InBuffer
<1>10. ASSUME NEW f \in Buffer PROVE BufOK(f)'
  <2>1. BufOK(f)
    BY DEF CacheInv, BuffersOK
  <2>2. \A p \in Pid : pc[p] # "loading"
    BY <1>5 DEF InBuffer
  <2> QED BY <1>3, <2>1, <2>2 DEF BufOK
<1>11. DeviceOwned'
  <2>1. \A p \in Pid : pc[p] \notin {"storing", "loading", "flushing"}
    BY <1>5 DEF InBuffer
  <2>2. device = NoRequest \/ device.buffer = None
    BY <2>1 DEF CacheInv, DeviceOwned
  <2> QED BY <1>3, <2>2 DEF DeviceOwned
<1>12. Flushed'
  <2>1. \A f \in Buffer : ~(f < 0)
    BY CacheAssumption DEF Buffer
  <2> QED BY <1>2, <1>3, <1>7, <2>1 DEF Flushed
<1> QED BY <1>8, <1>9, <1>10, <1>11, <1>12 DEF BuffersOK

(* A move outside the flushing leaves what shutdown has stored as it was. *)
LEMMA StillFlushed ==
    ASSUME CacheInv, NEW c \in Places \ Late, ~halted,
           pc' = [pc EXCEPT ![current] = c],
           UNCHANGED <<bufBlock, bufDirty, page, disk, spared, halted>>,
           UNCHANGED <<sweep, flushBlock>> \/ current = Root
    PROVE  Flushed'
<1>1. current \in Pid /\ Root \in Pid /\ pc \in [Pid -> Places]
  BY Facts DEF CacheInv
<1>2. CASE current = Root
  <2>1. pc'[Root] \notin Late
    BY <1>1, <1>2
  <2> QED BY <2>1 DEF Flushed, Late
<1>3. CASE current # Root
  <2>1. pc'[Root] = pc[Root] /\ sweep' = sweep
    BY <1>1, <1>3
  <2> QED BY <2>1 DEF CacheInv, Flushed, Stored
<1> QED BY <1>2, <1>3

(* Every system call and every preemption keeps the invariant. *)
LEMMA UserStep ==
    ASSUME CacheInv, SystemCall \/ Timer
    PROVE  Alone' /\ ProcsOK' /\ BuffersOK' /\ DeviceOwned' /\ Flushed'
<1>1. /\ LockInv /\ Alone /\ current \in Pid /\ Root \in Pid /\ pc \in [Pid -> Places]
      /\ call \in [Pid -> Call \cup {NoCall}] /\ status \in [Pid -> State]
      /\ status[current] = "RUNNING"
  BY Facts DEF CacheInv
<1>2. ASSUME NEW c \in Call, FileCall(c)
      PROVE  Alone' /\ ProcsOK' /\ BuffersOK' /\ DeviceOwned' /\ Flushed'
  <2>1. /\ pc' = [pc EXCEPT ![current] = "inode"] /\ call' = [call EXCEPT ![current] = c]
        /\ pc[current] = "user" /\ ~halted
        /\ UNCHANGED <<status, bufBlock, bufDirty, page, disk, device, diskPid, sweep, flushBlock, spared, halted>>
    BY <1>2 DEF FileCall, Goto, At, schedVars, diskVars, endVars, keptVars
  <2>2. /\ call' \in [Pid -> Call \cup {NoCall}] /\ \A p \in Pid : p # current => call'[p] = call[p]
    BY <1>1, <2>1
  <2>3. "inode" \in Places \ Waiting /\ "inode" \in Places \ Late
    BY DEF Places, Waiting, Late
  <2> QED BY <2>1, <2>2, <2>3, Move, StillFlushed DEF Late
<1>3. CASE PageFault
  <2>1. /\ pc' = [pc EXCEPT ![current] = "page"] /\ pc[current] = "user" /\ ~halted
        /\ UNCHANGED <<status, call, bufBlock, bufDirty, page, disk, device, diskPid, sweep, flushBlock, spared, halted>>
    BY <1>3 DEF PageFault, Goto, At, schedVars, dataVars, diskVars, endVars, keptVars
  <2>2. "page" \in Places \ Waiting /\ "page" \in Places \ Late
    BY DEF Places, Waiting, Late
  <2> QED BY <1>1, <2>1, <2>2, Move, StillFlushed DEF Late
<1>4. CASE BeginShutdown
  <2>1. /\ pc' = [pc EXCEPT ![current] = "lockAll"] /\ pc[current] = "user" /\ ~halted
        /\ current = Root
        /\ UNCHANGED <<status, call, bufBlock, bufDirty, page, disk, device, diskPid, spared, halted>>
    BY <1>4 DEF BeginShutdown, Goto, At, schedVars, dataVars, diskVars, keptVars
  <2>2. "lockAll" \in Places \ Waiting /\ "lockAll" \in Places \ Late
    BY DEF Places, Waiting, Late
  <2> QED BY <1>1, <2>1, <2>2, Move, StillFlushed DEF Late
<1>5. CASE Exit \/ Timer
  <2>1. \E s \in {"TERMINATED", "READY"} : SwitchFrom([status EXCEPT ![current] = s])
    BY <1>5 DEF Exit, Timer, Preempt
  <2>2. UNCHANGED <<pc, call, bufBlock, bufDirty, page, disk, device, diskPid, sweep, flushBlock, spared, halted>>
    BY <1>5 DEF Exit, Timer, dataVars, diskVars, endVars, keptVars
  <2>3. "TERMINATED" \in State /\ "READY" \in State
    BY DEF State
  <2> QED BY <2>1, <2>2, <2>3, SwitchOnly
<1>6. ASSUME NEW c \in Pid, Fork(c)
      PROVE  Alone' /\ ProcsOK' /\ BuffersOK' /\ DeviceOwned' /\ Flushed'
  <2>1. /\ status' = [status EXCEPT ![c] = "CREATED"] /\ status[c] = "TERMINATED"
        /\ pc[current] = "user" /\ current # Idle
        /\ UNCHANGED <<pc, call, bufBlock, bufDirty, page, disk, device, diskPid, sweep, flushBlock, spared, halted>>
    BY <1>6 DEF Fork, At, dataVars, diskVars, endVars, keptVars
  <2>2. spared \/ pc[Root] \notin Late
    BY <1>1, <2>1, LateFacts DEF Late
  <2>3. \A p \in Pid : Asleep(p)' <=> Asleep(p)
    BY <1>1, <2>1 DEF Asleep
  <2>4. pc[current] \notin Waiting
    BY <2>1 DEF Waiting
  <2> QED BY <2>1, <2>2, <2>3, <2>4, OnlyStatus
<1> QED BY <1>2, <1>3, <1>4, <1>5, <1>6 DEF SystemCall

(***************************************************************************)
(* A disk request: the disk is taken and the process sleeps on it, or the  *)
(* process sleeps on its own request.                                      *)
(***************************************************************************)
LEMMA RequestStep ==
    ASSUME CacheInv,
           StoreOld \/ LoadNew \/ LoadPage \/ StoreTable \/ FlushBuffer
    PROVE  Alone' /\ ProcsOK' /\ BuffersOK' /\ DeviceOwned' /\ Flushed'
<1>1. /\ LockInv /\ current \in Pid /\ ~Asleep(current) /\ "WAIT_DISK" \in State
      /\ bufBlock \in [Buffer -> Block \cup {None}] /\ None \notin Buffer
  BY Facts DEF CacheInv, State, Sleeping
<1>2. StageOK(current)
  BY <1>1 DEF CacheInv, ProcsOK, ProcOK
<1>3. Buf(current) = MyBuffer
  BY DEF Buf, MyBuffer, MyBlock
<1>4. ASSUME NEW req \in Request, NEW next \in Waiting, DiskRequest(req, next), diskBusy,
             pc[current] \notin Waiting, ~halted
      PROVE  Alone' /\ ProcsOK' /\ BuffersOK' /\ DeviceOwned' /\ Flushed'
  <2>1. /\ SwitchFrom([status EXCEPT ![current] = "WAIT_DISK"])
        /\ UNCHANGED <<pc, call, bufBlock, bufDirty, page, disk, device, diskPid, sweep, flushBlock, spared, halted>>
    BY <1>4 DEF DiskRequest, Sleep, dataVars, diskVars, endVars, keptVars
  <2> QED BY <1>1, <1>4, <2>1, SwitchOnly
<1>5. CASE StoreOld
  <2> DEFINE req == [kind |-> "store", buffer |-> MyBuffer, block |-> bufBlock[MyBuffer]]
  <2>1. pc[current] = "store" /\ ~halted /\ DiskRequest(req, "storing")
    BY <1>5 DEF StoreOld, At
  <2>2. MyBuffer \in Buffer
    BY <1>1, <1>3, <2>1, BufType DEF InFile, InBuffer
  <2>3. req \in Request /\ "storing" \in Waiting /\ "store" \notin Waiting
    BY <1>1, <2>2 DEF Request, Waiting
  <2>4. bufDirty[MyBuffer]
    BY <1>2, <1>3, <2>1 DEF StageOK
  <2> HIDE DEF req
  <2>5. CASE diskBusy
    BY <1>4, <2>1, <2>3, <2>5
  <2>6. CASE ~diskBusy
    BY <2>1, <2>3, <2>4, <2>6, Issue DEF req
  <2> QED BY <2>5, <2>6
<1>6. CASE LoadNew
  <2> DEFINE req == [kind |-> "load", buffer |-> MyBuffer, block |-> MyBlock]
  <2>1. pc[current] = "load" /\ ~halted /\ DiskRequest(req, "loading")
    BY <1>6 DEF LoadNew, At
  <2>2. MyBuffer \in Buffer /\ MyBlock \in Block
    BY <1>1, <1>3, <2>1, BufType DEF InFile, InBuffer, MyBlock
  <2>3. req \in Request /\ "loading" \in Waiting /\ "load" \notin Waiting
    BY <1>1, <2>2 DEF Request, Waiting
  <2>4. ~bufDirty[MyBuffer]
    BY <1>2, <1>3, <2>1 DEF StageOK
  <2> HIDE DEF req
  <2>5. CASE diskBusy
    BY <1>4, <2>1, <2>3, <2>5
  <2>6. CASE ~diskBusy
    BY <2>1, <2>3, <2>4, <2>6, Issue DEF req
  <2> QED BY <2>5, <2>6
<1>7. CASE LoadPage
  <2> DEFINE req == [kind |-> "load", buffer |-> None, block |-> None]
  <2>1. pc[current] = "page" /\ ~halted /\ DiskRequest(req, "paging")
    BY <1>7 DEF LoadPage, At
  <2>2. req \in Request /\ req.buffer = None /\ "paging" \in Waiting /\ "page" \notin Waiting
    BY DEF Request, Waiting
  <2> HIDE DEF req
  <2>3. CASE diskBusy
    BY <1>4, <2>1, <2>2, <2>3
  <2>4. CASE ~diskBusy
    BY <2>1, <2>2, <2>4, Issue
  <2> QED BY <2>3, <2>4
<1>8. CASE StoreTable
  <2> DEFINE req == [kind |-> "store", buffer |-> None, block |-> None]
  <2>1. pc[current] = "tables" /\ ~halted /\ DiskRequest(req, "tabling")
    BY <1>8 DEF StoreTable, At
  <2>2. req \in Request /\ req.buffer = None /\ "tabling" \in Waiting /\ "tables" \notin Waiting
    BY DEF Request, Waiting
  <2> HIDE DEF req
  <2>3. CASE diskBusy
    BY <1>4, <2>1, <2>2, <2>3
  <2>4. CASE ~diskBusy
    BY <2>1, <2>2, <2>4, Issue
  <2> QED BY <2>3, <2>4
<1>9. CASE FlushBuffer
  <2> DEFINE req == [kind |-> "store", buffer |-> sweep, block |-> flushBlock]
  <2>1. pc[current] = "flush" /\ ~halted /\ DiskRequest(req, "flushing")
    BY <1>9 DEF FlushBuffer, At
  <2>2. FlushOK
    BY <1>2, <2>1 DEF StageOK
  <2>3. req \in Request /\ "flushing" \in Waiting /\ "flush" \notin Waiting
    BY <2>2 DEF FlushOK, Request, Waiting
  <2> HIDE DEF req
  <2>4. CASE diskBusy
    BY <1>4, <2>1, <2>3, <2>4
  <2>5. CASE ~diskBusy
    BY <2>1, <2>2, <2>3, <2>5, Issue DEF req
  <2> QED BY <2>4, <2>5
<1> QED BY <1>5, <1>6, <1>7, <1>8, <1>9

(* The locks are taken or waited for. *)
LEMMA AcquireStep ==
    ASSUME CacheInv, AcquireInode \/ AcquireBuffer \/ LockNextInode \/ PageLoaded
    PROVE  Alone' /\ ProcsOK' /\ BuffersOK' /\ DeviceOwned' /\ Flushed'
<1>1. /\ LockInv /\ current \in Pid /\ Root \in Pid /\ pc \in [Pid -> Places]
      /\ call \in [Pid -> Call \cup {NoCall}] /\ ~halted
  BY Facts DEF CacheInv, AcquireInode, AcquireBuffer, LockNextInode, PageLoaded, At
<1>2. ASSUME NEW s \in {"WAIT_FILE", "WAIT_BUFFER"},
             SwitchFrom([status EXCEPT ![current] = s]),
             UNCHANGED <<pc, call, lockVars, dataVars, diskVars, endVars>>
      PROVE  Alone' /\ ProcsOK' /\ BuffersOK' /\ DeviceOwned' /\ Flushed'
  BY <1>2, SwitchOnly DEF State, Sleeping, dataVars, diskVars, endVars, keptVars
<1>3. ASSUME NEW i, WaitInode(i)
      PROVE  Alone' /\ ProcsOK' /\ BuffersOK' /\ DeviceOwned' /\ Flushed'
  BY <1>2, <1>3 DEF WaitInode, SleepOn
<1>4. ASSUME NEW c \in {"buffer", "lockAll", "user", "access", "store", "load"},
             pc' = [pc EXCEPT ![current] = c], pc[current] \in {"inode", "buffer", "lockAll", "paging"},
             UNCHANGED <<status, call, bufBlock, bufDirty, page, disk, device, diskPid, spared, halted>>,
             UNCHANGED <<sweep, flushBlock>> \/ current = Root,
             c \in {"access", "store", "load"} => c = AfterLock(MyBuffer)
      PROVE  Alone' /\ ProcsOK' /\ BuffersOK' /\ DeviceOwned' /\ Flushed'
  <2>1. c \in Places \ Waiting /\ c \in Places \ Late
    BY DEF Places, Waiting, Late
  <2>2. /\ c = "access" => bufBlock[MyBuffer] = MyBlock
        /\ c = "store" => bufDirty[MyBuffer]
        /\ c = "load" => ~bufDirty[MyBuffer]
    BY <1>4 DEF AfterLock
  <2>3. BufferOf(call'[current].block) = MyBuffer /\ call'[current].block = MyBlock
    BY <1>4 DEF MyBuffer, MyBlock
  <2>4. Alone' /\ ProcsOK' /\ BuffersOK' /\ DeviceOwned'
    BY <1>1, <1>4, <2>1, <2>2, <2>3, Move DEF Late
  <2> QED BY <1>1, <1>4, <2>1, <2>4, StillFlushed
<1>5. CASE AcquireInode /\ ~WaitInode(MyFile)
  <2>1. /\ pc' = [pc EXCEPT ![current] = "buffer"] /\ pc[current] = "inode"
        /\ UNCHANGED <<status, call, bufBlock, bufDirty, page, disk, device, diskPid, sweep, flushBlock, spared, halted>>
    BY <1>5 DEF AcquireInode, At, Goto, schedVars, dataVars, diskVars, endVars, keptVars
  <2> QED BY <2>1, <1>4
<1>6. CASE AcquireBuffer
  <2>1. CASE bufLock[MyBuffer] # None
    BY <1>2, <1>6, <2>1 DEF AcquireBuffer, SleepOn
  <2>2. CASE bufLock[MyBuffer] = None
    <3>1. /\ pc' = [pc EXCEPT ![current] = AfterLock(MyBuffer)] /\ pc[current] = "buffer"
          /\ UNCHANGED <<status, call, bufBlock, bufDirty, page, disk, device, diskPid, sweep, flushBlock, spared, halted>>
      BY <1>6, <2>2 DEF AcquireBuffer, At, Goto, schedVars, dataVars, diskVars, endVars, keptVars
    <3>2. AfterLock(MyBuffer) \in {"access", "store", "load"}
      BY DEF AfterLock
    <3> QED BY <3>1, <3>2, <1>4
  <2> QED BY <2>1, <2>2
<1>7. CASE LockNextInode /\ ~WaitInode(sweep)
  <2>1. /\ pc[current] = "lockAll" /\ pc' = pc
        /\ UNCHANGED <<status, call, bufBlock, bufDirty, page, disk, device, diskPid, spared, halted>>
    BY <1>7 DEF LockNextInode, At, schedVars, dataVars, diskVars, keptVars
  <2>2. current = Root /\ pc' = [pc EXCEPT ![current] = "lockAll"]
    BY <1>1, <2>1 DEF LockInv, RootEnds, Ending
  <2> QED BY <2>1, <2>2, <1>4
<1>8. CASE PageLoaded
  <2>1. /\ pc' = [pc EXCEPT ![current] = "user"] /\ pc[current] = "paging"
        /\ UNCHANGED <<status, call, bufBlock, bufDirty, page, disk, device, diskPid, sweep, flushBlock, spared, halted>>
    BY <1>8 DEF PageLoaded, At, Goto, schedVars, dataVars, diskVars, endVars, keptVars
  <2> QED BY <2>1, <1>4
<1> QED BY <1>3, <1>5, <1>6, <1>7, <1>8

(* Shutdown goes on to the next buffer, to the tables, and halts. *)
LEMMA ShutdownStep ==
    ASSUME CacheInv, NextBuffer \/ NextStore \/ Halt
    PROVE  Alone' /\ ProcsOK' /\ BuffersOK' /\ DeviceOwned' /\ Flushed'
<1>1. /\ LockInv /\ current \in Pid /\ Root \in Pid /\ pc \in [Pid -> Places]
      /\ call \in [Pid -> Call \cup {NoCall}] /\ ~halted /\ sweep \in Nat /\ ~Asleep(current)
      /\ status[current] = "RUNNING"
  BY Facts DEF CacheInv, NextStore, Halt, NextBuffer, At, LockInv, TypeOK
<1>2. current = Root
  BY <1>1 DEF NextStore, Halt, NextBuffer, At, LockInv, RootEnds, Ending
<1>3. UNCHANGED <<status, call, bufBlock, bufDirty, page, disk, device, diskPid, spared>>
  BY DEF NextStore, Halt, NextBuffer, schedVars, dataVars, diskVars, keptVars
<1>4. \A f \in Buffer : Stored(f)' <=> Stored(f)
  BY <1>3 DEF Stored
<1>5. \A f \in Buffer : f < sweep + 1 => f < sweep \/ f = sweep
  BY <1>1, CacheAssumption DEF Buffer
<1>6. ASSUME NEW c \in {"buffers", "flush", "tables"}, pc' = [pc EXCEPT ![current] = c],
             pc[current] \in Late, c = "flush" => FlushOK', Flushed'
      PROVE  Alone' /\ ProcsOK' /\ BuffersOK' /\ DeviceOwned' /\ Flushed'
  <2>1. c \in Places \ Waiting
    BY DEF Places, Waiting
  <2>2. pc[current] # "loading" /\ c \in Late
    BY <1>6 DEF Late
  <2> QED BY <1>1, <1>2, <1>3, <1>6, <2>1, <2>2, Move
<1>7. CASE NextStore /\ pc[current] = "flushing"
  <2>1. /\ pc' = [pc EXCEPT ![current] = "buffers"] /\ sweep' = sweep + 1 /\ halted' = halted
    BY <1>7 DEF NextStore, At, Goto, keptVars
  <2>2. Done(current) /\ StageOK(current)
    BY <1>1 DEF CacheInv, ProcsOK, ProcOK
  <2>3. spared \/ Stored(sweep)
    BY <1>7, <2>2 DEF Done, StageOK, FlushOK, Stored
  <2>4. ~spared => \A f \in Buffer : f < sweep => Stored(f)
    BY <1>2, <1>7 DEF CacheInv, Flushed
  <2>5. Flushed'
    BY <1>1, <1>2, <1>3, <1>4, <1>5, <2>1, <2>3, <2>4 DEF Flushed
  <2> QED BY <1>6, <1>7, <2>1, <2>5 DEF Late
<1>8. CASE NextStore /\ pc[current] = "tabling"
  <2>1. /\ pc' = [pc EXCEPT ![current] = "tables"] /\ halted' = halted
    BY <1>8 DEF NextStore, At, Goto, keptVars
  <2>2. Flushed'
    BY <1>1, <1>2, <1>3, <1>4, <1>8, <2>1 DEF CacheInv, Flushed
  <2> QED BY <1>6, <1>8, <2>1, <2>2 DEF Late
<1>9. CASE Halt
  <2>1. pc' = pc /\ pc[current] = "tables" /\ sweep' = sweep
    BY <1>9 DEF Halt, At
  <2>2. Flushed'
    BY <1>1, <1>2, <1>3, <1>4, <2>1 DEF CacheInv, Flushed
  <2>3. pc' = [pc EXCEPT ![current] = "tables"]
    BY <1>1, <2>1
  <2> QED BY <1>6, <2>1, <2>2, <2>3 DEF Late
<1>10. CASE NextBuffer /\ sweep < NumBuffers /\ ~bufDirty[sweep]
  <2>1. sweep # NumBuffers
    BY <1>1, <1>10, CacheAssumption
  <2>2. pc' = pc /\ pc[current] = "buffers" /\ sweep' = sweep + 1 /\ halted' = halted
    BY <1>10, <2>1 DEF NextBuffer, At
  <2>3. Stored(sweep)
    BY <1>10 DEF Stored
  <2>4. ~spared => \A f \in Buffer : f < sweep => Stored(f)
    BY <1>2, <2>2 DEF CacheInv, Flushed
  <2>5. Flushed'
    BY <1>1, <1>2, <1>3, <1>4, <1>5, <2>2, <2>3, <2>4 DEF Flushed
  <2>6. pc' = [pc EXCEPT ![current] = "buffers"]
    BY <1>1, <2>2
  <2> QED BY <1>6, <2>2, <2>5, <2>6 DEF Late
<1>11. CASE NextBuffer /\ sweep < NumBuffers /\ bufDirty[sweep]
  <2>1. sweep # NumBuffers /\ sweep \in Buffer
    BY <1>1, <1>11, CacheAssumption DEF Buffer
  <2>2. /\ pc' = [pc EXCEPT ![current] = "flush"] /\ pc[current] = "buffers"
        /\ flushBlock' = bufBlock[sweep] /\ sweep' = sweep /\ halted' = halted
    BY <1>11, <2>1 DEF NextBuffer, At, Goto
  <2>3. bufBlock[sweep] \in Block /\ BufferOf(bufBlock[sweep]) = sweep
    BY <1>1, <1>11, <2>1, Facts DEF CacheInv, BuffersOK, BufOK
  <2>4. FlushOK'
    BY <1>1, <1>3, <1>11, <2>1, <2>2, <2>3, Facts DEF FlushOK
  <2>5. Flushed'
    BY <1>1, <1>2, <1>3, <1>4, <2>2 DEF CacheInv, Flushed
  <2> QED BY <1>6, <2>2, <2>4, <2>5 DEF Late
<1>12. CASE NextBuffer /\ ~(sweep < NumBuffers)
  <2>1. pc' = [pc EXCEPT ![current] = "tables"] /\ pc[current] = "buffers" /\ sweep = NumBuffers
        /\ halted' = halted
    BY <1>12 DEF NextBuffer, At, Goto
  <2>2. \A f \in Buffer : f < sweep
    BY <2>1, CacheAssumption DEF Buffer
  <2>3. Flushed'
    BY <1>1, <1>2, <1>3, <1>4, <2>1, <2>2 DEF CacheInv, Flushed
  <2> QED BY <1>6, <2>1, <2>3 DEF Late
<1> QED BY <1>7, <1>8, <1>9, <1>10, <1>11, <1>12 DEF NextStore, At

LEMMA InitCache == Init => CacheInv
<1> SUFFICES ASSUME Init PROVE CacheInv
  OBVIOUS
<1>1. LockInv
  BY InitLockInv
<1>2. pc = [p \in Pid |-> "user"] /\ Root \in Pid
  BY <1>1, Facts DEF Init
<1>3. Alone /\ ProcsOK /\ Flushed
  BY <1>2 DEF Alone, ProcsOK, ProcOK, StageOK, OwnRequest, Done, Flushed, Late, Init
<1>4. BuffersOK /\ DeviceOwned
  BY DEF Init, BuffersOK, BufOK, DeviceOwned
<1> QED BY <1>1, <1>3, <1>4 DEF CacheInv

LEMMA StepCache ==
    ASSUME CacheInv, LockInv', [Next]_vars
    PROVE  CacheInv'
<1> SUFFICES Alone' /\ ProcsOK' /\ BuffersOK' /\ DeviceOwned' /\ Flushed'
  BY DEF CacheInv
<1>1. CASE Kernel
  BY <1>1, HolderSteps, RequestStep, AcquireStep, ShutdownStep, KillAllStep DEF Kernel
<1>2. CASE SystemCall \/ Timer
  BY <1>2, UserStep
<1>3. CASE DiskInterrupt
  BY <1>3, InterruptStep
<1>4. CASE UNCHANGED vars
  <2> USE <1>4 DEF vars, schedVars, lockVars, dataVars, diskVars, endVars, keptVars
  <2>1. Alone' /\ DeviceOwned' /\ Flushed'
    BY DEF CacheInv, Alone, Dead, DeviceOwned, Asleep, Flushed, Stored
  <2>2. ProcsOK'
    BY DEF CacheInv, ProcsOK, ProcOK, StageOK, FlushOK, OwnRequest, Done, Asleep, Buf
  <2>3. BuffersOK'
    BY DEF CacheInv, BuffersOK, BufOK, Buf
  <2> QED BY <2>1, <2>2, <2>3
<1> QED BY <1>1, <1>2, <1>3, <1>4 DEF Next, Halted

(* The invariant of the data, whether or not kill-all spares a process. *)
THEOREM CacheSafety == Spec => []CacheInv
<1>1. CacheInv /\ LockInv' /\ [Next]_vars => CacheInv'
  BY StepCache
<1> QED BY <1>1, InitCache, LockSafety, PTL DEF Spec

(***************************************************************************)
(* Once shutdown flushes, the other processes are dead and no buffer is in *)
(* use, if the spared number was free: shutdown holds every inode, and     *)
(* whoever uses a buffer holds one.                                        *)
(***************************************************************************)
THEOREM ShutdownKillsAll == Spec => []KillAllKills
<1>1. CacheInv => KillAllKills
  <2> SUFFICES ASSUME CacheInv, pc[Root] \in Late, ~spared
               PROVE  /\ \A p \in Pid : p >= 2 => status[p] = "TERMINATED"
                      /\ \A f \in Buffer : bufLock[f] = None
    BY DEF KillAllKills, Ending, Late
  <2>1. \A p \in Pid : pc[p] \notin InBuffer
    BY LateFacts DEF CacheInv, Late, InBuffer
  <2>2. \A f \in Buffer, p \in Pid : bufLock[f] # p
    BY <2>1 DEF CacheInv, LockInv, LockOwners, UsesBuffer
  <2>3. bufLock \in [Buffer -> Pid \cup {None}]
    BY DEF CacheInv, LockInv, TypeOK
  <2> QED BY <2>2, <2>3 DEF CacheInv, Alone, Dead
<1> QED BY <1>1, CacheSafety, PTL

(***************************************************************************)
(* A process that wakes from its own request finds it done, and every      *)
(* clean buffer holds what the disk holds.                                 *)
(***************************************************************************)
THEOREM DataSafety == Spec => []DataInv
<1>1. CacheInv => DataInv
  <2> SUFFICES ASSUME CacheInv PROVE TransferDone /\ CleanMatchesDisk
    BY DEF DataInv
  <2>1. TransferDone
    BY DEF CacheInv, ProcsOK, ProcOK, Done, Asleep, Buf, TransferDone
  <2>2. CleanMatchesDisk
    BY DEF CacheInv, BuffersOK, BufOK, Buf, CleanMatchesDisk, UsesBuffer, InBuffer
  <2> QED BY <2>1, <2>2
<1> QED BY <1>1, CacheSafety, PTL

(* Nothing that was written is missing from the disk when the machine halts,  *)
(* unless kill-all left a process alive.                                      *)
THEOREM ShutdownIsDurable == Spec => []ShutdownDurable
<1>1. CacheInv => ShutdownDurable
  <2> SUFFICES ASSUME CacheInv, halted, ~spared, NEW b \in Block PROVE disk[b] = Content(b)
    BY DEF ShutdownDurable
  <2>1. \A f \in Buffer : Stored(f)
    BY DEF CacheInv, Flushed
  <2> QED BY <2>1, BufferOfType DEF Content, Stored
<1> QED BY <1>1, CacheSafety, PTL

(***************************************************************************)
(* Buffered access implements the block store.  A call, a read and a write *)
(* are its steps; everything else leaves the content of every block alone: *)
(* an evicted page has reached the disk, a loaded one fills a clean buffer.*)
(* Kill-all and the stores of shutdown are steps of the block store only   *)
(* if they spare a process.                                                *)
(***************************************************************************)
Unseen == /\ \A b \in Block : Content(b)' = Content(b)
          /\ delivered' = delivered /\ spared' = spared

(***************************************************************************)
(* Shutdown stores a page under the number it has read before: that block  *)
(* gets the words of the block that is in the buffer by now, or that is    *)
(* being loaded into it.                                                   *)
(***************************************************************************)
LEMMA FlushedContent ==
    ASSUME CacheInv, NEW q \in Pid, pc[q] = "flushing",
           \A p \in Pid : Asleep(p) /\ pc[p] \in Moving => p = q
    PROVE  \E c \in Block : Content(c) = page[sweep]
<1>1. /\ LockInv /\ None \notin Block /\ bufBlock \in [Buffer -> Block \cup {None}]
      /\ FlushOK /\ BufOK(sweep)
  BY Facts DEF CacheInv, ProcsOK, ProcOK, StageOK, BuffersOK, FlushOK
<1>2. sweep \in Buffer /\ bufBlock[sweep] \in Block /\ BufferOf(bufBlock[sweep]) = sweep
  BY <1>1 DEF FlushOK, BufOK
<1>3. CASE bufDirty[sweep] \/ page[sweep] = disk[bufBlock[sweep]]
  <2>1. Content(bufBlock[sweep]) = page[sweep]
    BY <1>2, <1>3 DEF Content
  <2> QED BY <1>2, <2>1
<1>4. ASSUME NEW p \in Pid, pc[p] = "loading", Buf(p) = sweep
      PROVE  \E c \in Block : Content(c) = page[sweep]
  <2>1. call[p].block \in Block /\ BufferOf(call[p].block) = sweep
    BY <1>1, <1>4, BufType DEF InFile, InBuffer, Buf
  <2>2. ~Asleep(p)
    BY <1>4 DEF Moving
  <2>3. page[sweep] = disk[call[p].block] /\ ~bufDirty[sweep]
    BY <1>4, <2>2 DEF CacheInv, ProcsOK, ProcOK, StageOK, Done
  <2>4. Content(call[p].block) = page[sweep]
    BY <2>1, <2>3 DEF Content
  <2> QED BY <2>1, <2>4
<1> QED BY <1>1, <1>2, <1>3, <1>4 DEF BufOK

LEMMA UnseenSteps ==
    ASSUME CacheInv, [Next]_vars,
           \A c \in Call : ~FileCall(c), ~ReadWord, ~WriteWord
    PROVE  Unseen \/ Store!Next
<1>1. /\ LockInv /\ None \notin Block /\ current \in Pid /\ ~Asleep(current)
      /\ bufBlock \in [Buffer -> Block \cup {None}] /\ bufDirty \in [Buffer -> BOOLEAN]
      /\ page \in [Buffer -> [Offset -> Word]] /\ disk \in [Block -> [Offset -> Word]]
  BY Facts DEF CacheInv
<1>2. CASE UNCHANGED <<dataVars, spared>>
  BY <1>2 DEF Unseen, Content, dataVars
<1>3. CASE OldStored
  <2>1. /\ bufDirty' = [bufDirty EXCEPT ![MyBuffer] = FALSE] /\ pc[current] = "storing"
        /\ UNCHANGED <<bufBlock, page, disk, delivered, spared>>
    BY <1>3 DEF OldStored, At, endVars, keptVars
  <2>2. Buf(current) = MyBuffer /\ MyBuffer \in Buffer
    BY <1>1, <2>1, BufType DEF Buf, MyBuffer, MyBlock, InFile, InBuffer
  <2>3. page[MyBuffer] = disk[bufBlock[MyBuffer]]
    BY <1>1, <2>1, <2>2 DEF CacheInv, ProcsOK, ProcOK, Done
  <2> QED BY <1>1, <2>1, <2>2, <2>3, BufferOfType DEF Unseen, Content
<1>4. CASE NewLoaded
  <2>1. /\ bufBlock' = [bufBlock EXCEPT ![MyBuffer] = MyBlock] /\ pc[current] = "loading"
        /\ UNCHANGED <<bufDirty, page, disk, delivered, spared>>
    BY <1>4 DEF NewLoaded, At, endVars, keptVars
  <2>2. Buf(current) = MyBuffer /\ MyBuffer \in Buffer
    BY <1>1, <2>1, BufType DEF Buf, MyBuffer, MyBlock, InFile, InBuffer
  <2>3. ~bufDirty[MyBuffer]
    BY <1>1, <2>1, <2>2 DEF CacheInv, ProcsOK, ProcOK, StageOK
  <2> QED BY <1>1, <2>1, <2>2, <2>3, BufferOfType DEF Unseen, Content
<1>5. CASE DiskInterrupt
  <2>1. UNCHANGED <<bufBlock, bufDirty, delivered, spared>>
    BY <1>5 DEF DiskInterrupt, endVars, keptVars
  <2>2. CASE UNCHANGED <<page, disk>>
    BY <2>1, <2>2 DEF Unseen, Content
  <2>3. ASSUME NEW q \in Pid, NEW f \in Buffer, NEW b \in Block, Transfers(q, f, b),
               \A p \in Pid : Asleep(p) /\ pc[p] \in Moving => p = q
        PROVE  Unseen \/ Store!Next
    <3>1. CASE Loads(q, f, b)
      <4>1. page' = [page EXCEPT ![f] = disk[b]] /\ disk' = disk /\ ~bufDirty[f]
        BY <3>1 DEF Loads
      <4> QED BY <1>1, <2>1, <4>1, BufferOfType DEF Unseen, Content
    <3>2. CASE Stores(q, f, b)
      <4>1. disk' = [disk EXCEPT ![b] = page[f]] /\ page' = page /\ BufferOf(b) = f
        BY <2>3, <3>2 DEF Stores, Transfers
      <4>2. \A c \in Block : c # b => Content(c)' = Content(c)
        BY <1>1, <2>1, <4>1 DEF Content
      <4>3. CASE bufDirty[f] /\ bufBlock[f] = b
        BY <1>1, <2>1, <4>1, <4>2, <4>3 DEF Unseen, Content
      <4>4. CASE ~(bufDirty[f] /\ bufBlock[f] = b)
        <5>1. pc[q] = "flushing" /\ f = sweep /\ b = flushBlock
          BY <3>2, <4>4 DEF Stores
        <5>2. spared
          BY <4>4, <5>1 DEF CacheInv, ProcsOK, ProcOK, StageOK, FlushOK
        <5>3. PICK c \in Block : Content(c) = page[f]
          BY <2>3, <5>1, FlushedContent
        <5>4. Content(b)' = Content(c)
          BY <1>1, <2>1, <4>1, <4>4, <5>3 DEF Content
        <5>5. Store!Overwrite(b, c)
          BY <2>1, <4>2, <5>2, <5>4 DEF Store!Overwrite
        <5> QED BY <5>5 DEF Store!Next
      <4> QED BY <4>3, <4>4
    <3> QED BY <2>3, <3>1, <3>2 DEF Transfers
  <2> QED BY <1>5, <2>2, <2>3, InterruptEffect
<1>6. CASE KillAll
  <2>1. \A b \in Block : Content(b)' = Content(b)
    BY <1>6 DEF KillAll, dataVars, Content
  <2>2. delivered' = delivered /\ spared' \in BOOLEAN
    BY <1>6 DEF KillAll, dataVars
  <2>3. ~spared
    <3>1. pc[Root] = "lockAll"
      BY <1>1, <1>6 DEF KillAll, At, LockInv, RootEnds, Ending
    <3> QED BY <3>1 DEF CacheInv, Alone, Late
  <2>4. spared \in BOOLEAN
    BY <1>1 DEF LockInv, TypeOK
  <2>5. CASE spared'
    BY <2>1, <2>2, <2>5 DEF Store!Next, Store!Spare
  <2>6. CASE ~spared'
    BY <2>1, <2>2, <2>3, <2>4, <2>6 DEF Unseen
  <2> QED BY <2>5, <2>6
<1>7. CASE ~OldStored /\ ~NewLoaded /\ ~DiskInterrupt /\ ~KillAll
  <2>1. ASSUME NEW i, WaitInode(i) PROVE UNCHANGED <<dataVars, spared>>
    BY <2>1 DEF WaitInode, endVars, keptVars
  <2>2. ASSUME NEW req, NEW next, DiskRequest(req, next) PROVE UNCHANGED <<dataVars, spared>>
    BY <2>2 DEF DiskRequest, endVars, keptVars
  <2>3. CASE Kernel
    <3>1. ASSUME AcquireInode \/ AcquireBuffer \/ LockNextInode
          PROVE  UNCHANGED <<dataVars, spared>>
      BY <2>1, <3>1 DEF AcquireInode, AcquireBuffer, LockNextInode, endVars, keptVars
    <3>2. ASSUME StoreOld \/ LoadNew \/ LoadPage \/ StoreTable \/ FlushBuffer
          PROVE  UNCHANGED <<dataVars, spared>>
      BY <2>2, <3>2 DEF StoreOld, LoadNew, LoadPage, StoreTable, FlushBuffer
    <3>3. ASSUME PageLoaded \/ NextBuffer \/ NextStore \/ Halt
          PROVE  UNCHANGED <<dataVars, spared>>
      BY <3>3 DEF PageLoaded, NextBuffer, NextStore, Halt, endVars, keptVars
    <3> QED BY <1>7, <2>3, <3>1, <3>2, <3>3, <1>2 DEF Kernel
  <2>4. CASE SystemCall \/ Timer
    BY <1>2, <2>4
       DEF SystemCall, PageFault, Exit, BeginShutdown, Fork, Timer, endVars, keptVars
  <2>5. CASE UNCHANGED vars
    BY <1>2, <2>5 DEF vars, endVars, keptVars
  <2> QED BY <1>7, <2>3, <2>4, <2>5 DEF Next, Halted
<1> QED BY <1>3, <1>4, <1>5, <1>6, <1>7

LEMMA AccessSteps ==
    ASSUME CacheInv, ReadWord \/ WriteWord
    PROVE  Store!Next
<1>1. /\ LockInv /\ Alone /\ None \notin Block /\ current \in Pid /\ ~Asleep(current)
      /\ bufBlock \in [Buffer -> Block \cup {None}] /\ bufDirty \in [Buffer -> BOOLEAN]
      /\ page \in [Buffer -> [Offset -> Word]] /\ disk \in [Block -> [Offset -> Word]]
      /\ pc[current] = "access"
  BY Facts DEF CacheInv, ReadWord, WriteWord, At
<1> DEFINE o == call[current].off
<1>2. /\ Buf(current) = MyBuffer /\ MyBuffer \in Buffer /\ MyBlock \in Block
      /\ call[current] \in Call /\ o \in Offset
  BY <1>1, BufType DEF Buf, MyBuffer, MyBlock, InFile, InBuffer, Call
<1>3. bufBlock[MyBuffer] = MyBlock /\ BufferOf(MyBlock) = MyBuffer
  BY <1>1, <1>2 DEF CacheInv, ProcsOK, ProcOK, StageOK, MyBlock, MyBuffer
<1>4. Content(MyBlock) = page[MyBuffer]
  <2>1. BufOK(MyBuffer)
    BY <1>2 DEF CacheInv, BuffersOK
  <2>2. \A p \in Pid : pc[p] = "loading" => Buf(p) # MyBuffer
    BY <1>1, <1>2, HolderAlone DEF InBuffer
  <2>3. bufDirty[MyBuffer] \/ page[MyBuffer] = disk[bufBlock[MyBuffer]]
    BY <1>1, <1>2, <1>3, <2>1, <2>2 DEF BufOK
  <2> QED BY <1>2, <1>3, <2>3 DEF Content
<1> HIDE DEF o
<1>5. CASE ReadWord
  <2>1. /\ delivered' = <<MyBlock, o, page[MyBuffer][o]>>
        /\ UNCHANGED <<bufBlock, bufDirty, page, disk, spared>>
    BY <1>5 DEF ReadWord, Release, endVars, keptVars, o
  <2>2. \A b \in Block : Content(b)' = Content(b)
    BY <2>1 DEF Content
  <2>3. Store!Read(MyBlock, o)
    BY <1>2, <1>4, <2>1, <2>2 DEF Store!Read
  <2> QED BY <1>2, <2>3 DEF Store!Next
<1>6. CASE WriteWord
  <2> DEFINE w == call[current].word
  <2>1. w \in Word
    BY <1>2, <1>6 DEF WriteWord, Call
  <2>2. /\ page' = [page EXCEPT ![MyBuffer][o] = w]
        /\ bufDirty' = [bufDirty EXCEPT ![MyBuffer] = TRUE]
        /\ UNCHANGED <<bufBlock, disk, delivered, spared>>
    BY <1>6 DEF WriteWord, Release, endVars, keptVars, o
  <2> HIDE DEF w
  <2>3. page'[MyBuffer] = [page[MyBuffer] EXCEPT ![o] = w] /\ bufDirty'[MyBuffer]
    BY <1>1, <1>2, <2>2
  <2>4. ASSUME NEW b \in Block, b = MyBlock PROVE Content(b)' = [Content(b) EXCEPT ![o] = w]
    <3>1. BufferOf(b) = MyBuffer /\ bufBlock'[MyBuffer] = b
      BY <1>3, <2>2, <2>4
    <3>2. Content(b)' = page'[MyBuffer]
      BY <2>3, <3>1 DEF Content
    <3>3. Content(b) = page[MyBuffer]
      BY <1>4, <2>4
    <3> QED BY <2>3, <3>2, <3>3
  <2>5. ASSUME NEW b \in Block, b # MyBlock PROVE Content(b)' = Content(b)
    <3>1. CASE BufferOf(b) = MyBuffer
      BY <1>3, <2>2, <2>5, <3>1 DEF Content
    <3>2. CASE BufferOf(b) # MyBuffer
      <4>1. page'[BufferOf(b)] = page[BufferOf(b)] /\ bufDirty'[BufferOf(b)] = bufDirty[BufferOf(b)]
        BY <1>1, <2>2, <3>2, BufferOfType
      <4> QED BY <2>2, <4>1 DEF Content
    <3> QED BY <3>1, <3>2
  <2>6. Store!Write(MyBlock, o, w)
    BY <1>2, <2>2, <2>4, <2>5 DEF Store!Write
  <2> QED BY <1>2, <2>1, <2>6 DEF Store!Next
<1> QED BY <1>5, <1>6

(***************************************************************************)
(* Reads and writes through the buffers implement the block store, for     *)
(* every number of processes, blocks and buffers, up to the halt, and      *)
(* also when kill-all spares a process.                                    *)
(***************************************************************************)
THEOREM CacheImplementsStore == Spec => ImplementsStore
<1>1. Init => Store!Init
  <2> SUFFICES ASSUME Init PROVE Store!Init
    OBVIOUS
  <2>1. \A b \in Block : Content(b) = DiskImage[b]
    BY BufferOfType DEF Init, Content
  <2>2. \A b \in Block : DiskImage[b] \in [Offset -> Word]
    BY CacheAssumption
  <2> QED BY <2>1, <2>2 DEF Store!Init, Init
<1>2. CacheInv /\ [Next]_vars => [Store!Next]_(Store!vars)
  <2> SUFFICES ASSUME CacheInv, [Next]_vars PROVE [Store!Next]_(Store!vars)
    OBVIOUS
  <2>1. CASE Unseen
    BY <2>1 DEF Unseen, Store!vars
  <2>2. ASSUME NEW c \in Call, FileCall(c) PROVE Store!Next
    <3>1. UNCHANGED <<bufBlock, bufDirty, page, disk, spared>> /\ delivered' = <<>>
      BY <2>2 DEF FileCall, endVars, keptVars
    <3>2. \A b \in Block : Content(b)' = Content(b)
      BY <3>1 DEF Content
    <3> QED BY <3>1, <3>2 DEF Store!Next, Store!Begin
  <2> QED BY <2>1, <2>2, UnseenSteps, AccessSteps
<1> QED BY <1>1, <1>2, CacheSafety, PTL DEF Spec, ImplementsStore, Store!Spec
================================================================================
