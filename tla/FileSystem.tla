----------------------------- MODULE FileSystem -----------------------------
(* The file system calls of the kernel: create and delete (int_4), open, close
   and seek (int_5), read (int_6), write (int_7), with the parts of the file,
   memory and resource managers they call.  The kernel is not interrupted, so a
   call runs up to the next place where it may sleep: the lock of its inode, the
   lock of a buffer, a transfer.  Which sleeper goes on is left open; that
   sleepers are woken and transfers done is BufferCache's concern.  Calls that
   are refused before they change anything are no steps. *)
EXTENDS Integers, Sequences, FiniteSets

CONSTANTS Pid,
          NumInodes,     \* MAX_FILE_NUM; inode 0 is the root file's
          Names,         \* names of files
          Permissions,   \* {0}: exclusive, {1}: open access, or both
          FirstBlock, NumBlocks,  \* DISK_FREE_AREA, up to DISK_SWAP_AREA
          BlockSize,     \* words of a block, 512
          MaxBlocks,     \* blocks of a file, 4
          NumBuffers,    \* MAX_BUFFER
          NumOpenFiles,  \* MAX_OPENFILE_NUM
          NumSlots,      \* entries of a resource table, 8
          RootSize,      \* words of the root file, 480
          Words,         \* what programs write
          Deltas         \* by how much they seek

ASSUME FileSystemAssumption ==
  /\ -1 \notin Pid
  /\ NumInodes \in Nat \ {0} /\ FirstBlock \in Nat \ {0} /\ NumBlocks \in Nat
  /\ BlockSize \in Nat \ {0} /\ MaxBlocks \in Nat \ {0} /\ NumBuffers \in Nat \ {0}
  /\ NumOpenFiles \in Nat /\ NumSlots \in Nat /\ RootSize \in Nat
  /\ Words \subseteq Int /\ Deltas \subseteq Int

None      == -1
Inode     == 0 .. NumInodes - 1
Root      == 0
Block     == FirstBlock .. FirstBlock + NumBlocks - 1
Buffer    == 0 .. NumBuffers - 1
Part      == 0 .. MaxBlocks - 1
Word      == 0 .. BlockSize - 1
OpenFile  == 0 .. NumOpenFiles - 1
Slot      == 0 .. NumSlots - 1
MaxSize   == MaxBlocks * BlockSize
NoName    == "-1"
RootName  == "root"
BufferOf(b) == b % NumBuffers

VARIABLES inode,    \* INODE_TABLE: [name, size, perm, blocks]
          root,     \* ROOT_FILE: [name, size]
          used,     \* DISK_FREE_LIST
          lock,     \* FILE_STATUS_TABLE + 0
          opens,    \* FILE_STATUS_TABLE + 1
          oft,      \* OPEN_FILE_TABLE: [inode, lseek]
          res,      \* resource tables
          buf,      \* BUFFER_TABLE and the buffers: [block, dirty, owner, page]
          disk,     \* the data blocks
          pc,       \* where each process is
          call,     \* the call it is in
          running,  \* the process in the kernel that is not asleep, or None
          heard     \* ghost: the word last read from a file

tables == <<inode, root, used, lock, opens, oft, res>>
cache  == <<buf, disk>>
vars   == <<tables, cache, pc, call, running, heard>>

Unlinked == [name |-> NoName, size |-> None, perm |-> None, blocks |-> [m \in Part |-> None]]
NoEntry  == [name |-> NoName, size |-> None]
Closed   == [inode |-> None, lseek |-> None]
NoCall   == [op |-> "none"]
ZeroPage == [o \in Word |-> 0]

\* The user of every process is word 3 of its entry, which nothing sets; the
\* one logged in is set by the boot module.  So an exclusive file is nobody's.
UserOf(p)   == 0
CurrentUser == 1

Init ==
  /\ inode = [i \in Inode |-> IF i = Root
                 THEN [Unlinked EXCEPT !.name = RootName, !.size = RootSize, !.perm = 0]
                 ELSE Unlinked]
  /\ root = [i \in Inode |-> IF i = Root THEN [name |-> RootName, size |-> RootSize] ELSE NoEntry]
  /\ used = [b \in Block |-> 0]
  /\ lock = [i \in Inode |-> None] /\ opens = [i \in Inode |-> None]
  /\ oft = [k \in OpenFile |-> Closed]
  /\ res = [p \in Pid |-> [s \in Slot |-> None]]
  /\ buf = [f \in Buffer |-> [block |-> None, dirty |-> 0, owner |-> None, page |-> ZeroPage]]
  /\ disk = [b \in Block |-> ZeroPage]
  /\ pc = [p \in Pid |-> "user"] /\ call = [p \in Pid |-> NoCall]
  /\ running = None /\ heard = 0
-----------------------------------------------------------------------------
(* The kernel. *)
At(p, place) == pc[p] = place /\ running \in {p, None}

\* p goes on without sleeping, sleeps, or returns to user mode.
Goto(p, place)  == pc' = [pc EXCEPT ![p] = place] /\ running' = p
Sleep(p, place) == pc' = [pc EXCEPT ![p] = place] /\ running' = None
Return(p) == Sleep(p, "user") /\ call' = [call EXCEPT ![p] = NoCall]

First(S, x) == x \in S /\ \A y \in S : x <= y
Find(name) == {i \in Inode : inode[i].name = name}
Exists(i)  == inode[i].name # NoName
Denied(p, i) == inode[i].perm = 0 /\ UserOf(p) # CurrentUser

IsFile(p, s) == res[p][s] # None
FileOf(p, s) == oft[res[p][s]].inode
FreeSlots(p) == {s \in Slot : res[p][s] = None}
-----------------------------------------------------------------------------
(* int_4: create.  The scan for the name compares with 0, which no file is
   called, so that a name may be created again. *)
Create(p, name, perm) ==
  /\ At(p, "user")
  /\ \E i \in Inode :
       /\ First(Find(NoName), i)
       /\ inode' = [inode EXCEPT ![i] = [name |-> name, size |-> 0, perm |-> perm,
                                         blocks |-> [m \in Part |-> None]]]
       /\ root' = [root EXCEPT ![i] = [name |-> name, size |-> 0]]
  /\ UNCHANGED <<used, lock, opens, oft, res, cache, pc, call, running, heard>>

(* The calls a process may make that lock an inode, up to the lock. *)
Deletes(p) ==
  {c \in [op : {"delete"}, inode : Inode, name : Names] :
     First(Find(c.name), c.inode) /\ ~Denied(p, c.inode)}
Opens(p) ==
  {c \in [op : {"open"}, inode : Inode, name : Names \cup {RootName}, slot : Slot] :
     First(Find(c.name), c.inode) /\ First(FreeSlots(p), c.slot)}
OnFile(p, op, s, arg) ==
  [op |-> op, inode |-> FileOf(p, s), file |-> res[p][s], arg |-> arg, pos |-> 0]
MyFiles(p) == {s \in Slot : IsFile(p, s)}
Writable(p) == {s \in MyFiles(p) : FileOf(p, s) # Root /\ ~Denied(p, FileOf(p, s))}

NewCalls(p) == Deletes(p) \cup Opens(p)
               \cup {OnFile(p, "seek", s, d) : s \in MyFiles(p), d \in Deltas}
               \cup {OnFile(p, "read", s, 0) : s \in MyFiles(p)}
               \cup {OnFile(p, "write", s, w) : s \in Writable(p), w \in Words}

\* Calls at the lock of their inode: one made now, or one that slept there.
AtInode(p) == IF At(p, "user") THEN NewCalls(p)
              ELSE IF At(p, "inode") THEN {call[p]} ELSE {}

(* resource_manager: acquire inode.  It is locked, or its file has been deleted
   by now, or it is the caller's. *)
WaitInode(p, c) == /\ pc[p] = "user" /\ lock[c.inode] # None
                   /\ Sleep(p, "inode")
                   /\ call' = [call EXCEPT ![p] = c]
                   /\ UNCHANGED <<tables, cache, heard>>
Vanished(p, c)  == /\ lock[c.inode] = None /\ ~Exists(c.inode)
                   /\ Return(p)
                   /\ UNCHANGED <<tables, cache, heard>>
Granted(c, op)  == c.op = op /\ lock[c.inode] = None /\ Exists(c.inode)
-----------------------------------------------------------------------------
(* int_4: delete, unless the file is open or is another one by now. *)
ReleaseBlocks(i) ==
  LET mine == {inode[i].blocks[m] : m \in Part} \ {None}
  IN  /\ used' = [b \in Block |-> IF b \in mine THEN used[b] - 1 ELSE used[b]]
      /\ buf' = [f \in Buffer |-> IF buf[f].block \in mine THEN [buf[f] EXCEPT !.dirty = 0]
                                  ELSE buf[f]]

Delete(p, c) ==
  /\ Granted(c, "delete")
  /\ IF opens[c.inode] # None \/ inode[c.inode].name # c.name
     THEN UNCHANGED <<inode, root, used, buf>>
     ELSE /\ ReleaseBlocks(c.inode)
          /\ inode' = [inode EXCEPT ![c.inode] = Unlinked]
          /\ root' = [root EXCEPT ![c.inode] = NoEntry]
  /\ Return(p)
  /\ UNCHANGED <<lock, opens, oft, res, disk, heard>>

(* file_manager: open, unless the open file table is full.  Whether the inode
   still has the name is not tested again. *)
Open(p, c) ==
  /\ Granted(c, "open")
  /\ LET free == {k \in OpenFile : oft[k].inode = None}
     IN  \/ free = {} /\ UNCHANGED <<opens, oft, res>>
         \/ \E k \in OpenFile :
              /\ First(free, k)
              /\ oft' = [oft EXCEPT ![k] = [inode |-> c.inode, lseek |-> 0]]
              /\ opens' = IF c.name = RootName THEN opens
                          ELSE [opens EXCEPT ![c.inode] = IF @ = None THEN 1 ELSE @ + 1]
              /\ res' = [res EXCEPT ![p][c.slot] = k]
  /\ Return(p)
  /\ UNCHANGED <<inode, root, used, lock, cache, heard>>

\* file_manager: the count of a file that nobody has open is -1.
OpenLess(n) == IF n = 1 THEN None ELSE n - 1

(* file_manager: close.  The entry's own count is 1 while it is open: open sets
   it, and fork raises none but by way of semaphores (Resources).  So the first
   close of an entry frees it, whoever else has it; a close of an entry that is
   free already makes its count -2 and changes nothing else. *)
Close(p, s) ==
  /\ At(p, "user") /\ IsFile(p, s)
  /\ LET k == res[p][s]
     IN  /\ oft' = [oft EXCEPT ![k] = Closed]
         /\ opens' = IF oft[k].inode \in {None, Root} THEN opens
                     ELSE [opens EXCEPT ![oft[k].inode] = OpenLess(@)]
  /\ res' = [res EXCEPT ![p][s] = None]
  /\ UNCHANGED <<inode, root, used, lock, cache, pc, call, running, heard>>

\* int_8: a child inherits the open files of its parent, positions included.
Fork(p, q) ==
  /\ At(p, "user") /\ At(q, "user")
  /\ MyFiles(p) # {} /\ MyFiles(q) = {}
  /\ res' = [res EXCEPT ![q] = res[p]]
  /\ UNCHANGED <<inode, root, used, lock, opens, oft, cache, pc, call, running, heard>>

SizeOf(i) == IF i = Root THEN RootSize ELSE inode[i].size

(* int_5: seek. *)
Seek(p, c) ==
  /\ Granted(c, "seek")
  /\ LET to == oft[c.file].lseek + c.arg
     IN  oft' = IF to < 0 THEN oft
                ELSE [oft EXCEPT ![c.file].lseek = IF to > SizeOf(c.inode) THEN SizeOf(c.inode) ELSE to]
  /\ Return(p)
  /\ UNCHANGED <<inode, root, used, lock, opens, res, cache, heard>>
-----------------------------------------------------------------------------
\* The call goes on, holding the inode, at the file's position.
Proceed(p, c) == /\ lock' = [lock EXCEPT ![c.inode] = p]
                 /\ call' = [call EXCEPT ![p] = [c EXCEPT !.pos = oft[c.file].lseek]]
                 /\ Goto(p, "buffer")

(* int_6: read, up to the buffer.  The root file is in memory. *)
StartRead(p, c) ==
  /\ Granted(c, "read")
  /\ LET pos == oft[c.file].lseek
     IN  \/ /\ pos = SizeOf(c.inode)
            /\ Return(p) /\ UNCHANGED <<oft, lock>>
         \/ /\ c.inode = Root /\ pos # RootSize
            /\ oft' = [oft EXCEPT ![c.file].lseek = pos + 1]
            /\ Return(p) /\ UNCHANGED lock
         \/ /\ c.inode # Root /\ pos # inode[c.inode].size
            /\ Proceed(p, c) /\ UNCHANGED oft
  /\ UNCHANGED <<inode, root, used, opens, res, cache, heard>>

\* Mutant: the block is not marked.
AllocateUnmarked(i, m, b) ==
  /\ inode' = [inode EXCEPT ![i].blocks[m] = b]
  /\ UNCHANGED used

\* int_7, memory_manager: a block for the first word that is written in it.
Allocate(i, m, b) ==
  /\ inode' = [inode EXCEPT ![i].blocks[m] = b]
  /\ used' = [used EXCEPT ![b] = 1]

(* int_7: write, up to the buffer.  At the largest size, and when the disk is
   full, the call returns and leaves the inode locked. *)
StartWrite(p, c) ==
  /\ Granted(c, "write")
  /\ LET pos  == oft[c.file].lseek
         new  == pos % BlockSize = 0 /\ pos = inode[c.inode].size
         free == {b \in Block : used[b] = 0}
     IN  \/ /\ pos >= MaxSize \/ (new /\ free = {})
            /\ lock' = [lock EXCEPT ![c.inode] = p]
            /\ Return(p) /\ UNCHANGED <<inode, used>>
         \/ /\ pos < MaxSize /\ new
            /\ \E b \in Block : First(free, b) /\ Allocate(c.inode, pos \div BlockSize, b)
            /\ Proceed(p, c)
         \/ /\ pos < MaxSize /\ ~new
            /\ Proceed(p, c) /\ UNCHANGED <<inode, used>>
  /\ UNCHANGED <<root, opens, oft, res, cache, heard>>
-----------------------------------------------------------------------------
(* file_manager: buffered read and write, for the inode, open file and position
   of the call p is in. *)
I(p) == call[p].inode
K(p) == call[p].file
Pos(p) == call[p].pos
Blk(p) == inode[I(p)].blocks[Pos(p) \div BlockSize]
F(p) == BufferOf(Blk(p))

TakeBuffer(p) ==
  /\ At(p, "buffer")
  /\ LET b == buf[F(p)]
     IN  \/ /\ b.owner # None /\ running = p
            /\ Sleep(p, "buffer") /\ UNCHANGED buf
         \/ /\ b.owner = None
            /\ buf' = [buf EXCEPT ![F(p)].owner = p]
            /\ \/ b.block = Blk(p) /\ Goto(p, "word")
               \/ b.block # Blk(p) /\ b.dirty = 1 /\ Sleep(p, "store")
               \/ b.block # Blk(p) /\ b.dirty = 0 /\ Sleep(p, "load")
  /\ UNCHANGED <<tables, disk, call, heard>>

Stored(p) ==
  /\ At(p, "store") /\ running = None
  /\ disk' = [disk EXCEPT ![buf[F(p)].block] = buf[F(p)].page]
  /\ buf' = [buf EXCEPT ![F(p)].dirty = 0]
  /\ Sleep(p, "load")
  /\ UNCHANGED <<tables, call, heard>>

Loaded(p) ==
  /\ At(p, "load") /\ running = None
  /\ buf' = [buf EXCEPT ![F(p)].block = Blk(p), ![F(p)].page = disk[Blk(p)]]
  /\ Goto(p, "word")
  /\ UNCHANGED <<tables, disk, call, heard>>

\* The position is advanced and the inode released.
Finish(p) == /\ oft' = [oft EXCEPT ![K(p)].lseek = Pos(p) + 1]
             /\ lock' = [lock EXCEPT ![I(p)] = None]
             /\ Return(p)

ReadWord(p) ==
  /\ At(p, "word") /\ call[p].op = "read"
  /\ heard' = buf[F(p)].page[Pos(p) % BlockSize]
  /\ buf' = [buf EXCEPT ![F(p)].owner = None]
  /\ Finish(p)
  /\ UNCHANGED <<inode, root, used, opens, res, disk>>

\* Mutant: the buffer is not marked.
PutWordClean(p) ==
  buf' = [buf EXCEPT ![F(p)].page[Pos(p) % BlockSize] = call[p].arg, ![F(p)].owner = None]

PutWord(p) ==
  buf' = [buf EXCEPT ![F(p)].page[Pos(p) % BlockSize] = call[p].arg,
                     ![F(p)].dirty = 1, ![F(p)].owner = None]

WriteWord(p) ==
  /\ At(p, "word") /\ call[p].op = "write"
  /\ PutWord(p)
  /\ IF Pos(p) = inode[I(p)].size
     THEN /\ inode' = [inode EXCEPT ![I(p)].size = @ + 1]
          /\ root' = [root EXCEPT ![I(p)].size = @ + 1]
     ELSE UNCHANGED <<inode, root>>
  /\ Finish(p)
  /\ UNCHANGED <<used, opens, res, disk, heard>>
-----------------------------------------------------------------------------
(* What is assumed of programs: a file that parent and child share is left open,
   for the close of one would take it from the other, who may be at work on it. *)
Shared(p, k)    == \E q \in Pid, s \in Slot : q # p /\ res[q][s] = k
ClosesOwn(p, s) == ~Shared(p, res[p][s])

User(p) == \/ \E name \in Names, perm \in Permissions : Create(p, name, perm)
           \/ \E s \in Slot : ClosesOwn(p, s) /\ Close(p, s)
           \/ \E q \in Pid : Fork(p, q)

Lock(p) == \E c \in AtInode(p) : \/ WaitInode(p, c) \/ Vanished(p, c)
                                 \/ Delete(p, c) \/ Open(p, c) \/ Seek(p, c)
                                 \/ StartRead(p, c) \/ StartWrite(p, c)

Work(p) == TakeBuffer(p) \/ Stored(p) \/ Loaded(p) \/ ReadWord(p) \/ WriteWord(p)

Next == \E p \in Pid : User(p) \/ Lock(p) \/ Work(p)

Spec == Init /\ [][Next]_vars
-----------------------------------------------------------------------------
TypeOK ==
  /\ inode \in [Inode -> [name : Names \cup {RootName, NoName}, size : Int,
                          perm : Permissions \cup {0, None}, blocks : [Part -> Block \cup {None}]]]
  /\ used \in [Block -> 0 .. 1]
  /\ lock \in [Inode -> Pid \cup {None}]
  /\ oft \in [OpenFile -> [inode : Inode \cup {None}, lseek : Int]]
  /\ res \in [Pid -> [Slot -> OpenFile \cup {None}]]
  /\ running \in Pid \cup {None}
  /\ heard \in Words \cup {0}

\* A block belongs to one part of one file, and is marked used exactly then.
BlocksOwned ==
  /\ \A i, j \in Inode, m, n \in Part :
        inode[i].blocks[m] # None /\ inode[i].blocks[m] = inode[j].blocks[n] => i = j /\ m = n
  /\ \A b \in Block : used[b] = 1 <=> \E i \in Inode, m \in Part : inode[i].blocks[m] = b

\* A file has the blocks its words are in; a write in progress one more at most.
Growing(i) == \E p \in Pid : pc[p] # "inode" /\ call[p].op = "write" /\ I(p) = i
SizesFit ==
  \A i \in Inode \ {Root}, m \in Part :
    /\ m * BlockSize < inode[i].size => inode[i].blocks[m] # None
    /\ m * BlockSize >= inode[i].size /\ inode[i].blocks[m] # None =>
         m * BlockSize = inode[i].size /\ Growing(i)

\* The copy of the directory that programs see names the files there are.
RootAgrees == \A i \in Inode : root[i] = [name |-> inode[i].name, size |-> inode[i].size]

\* The count that delete asks is the number of open files.
OpenCounts ==
  \A i \in Inode \ {Root} :
    LET n == Cardinality({k \in OpenFile : oft[k].inode = i})
    IN  opens[i] = IF n = 0 THEN None ELSE n

\* A call past the lock has it, and the buffer it works on.
Held == \A p \in Pid :
  /\ pc[p] \in {"buffer", "store", "load", "word"} =>
       lock[I(p)] = p /\ Pos(p) = oft[K(p)].lseek /\ Blk(p) # None
  /\ pc[p] \in {"store", "load", "word"} => buf[F(p)].owner = p
  /\ pc[p] = "word" => buf[F(p)].block = Blk(p)

(* The tables of the file system agree with each other at every moment another
   process may look at them, and with what is open and at work (int_4 to int_7,
   file_manager.spl:109-212). *)
TablesAgree == TypeOK /\ BlocksOwned /\ SizesFit /\ RootAgrees /\ OpenCounts /\ Held

\* The word at offset o of block b: in a buffer, or on the disk.
Content(b, o) == LET f == BufferOf(b)
                 IN  IF buf[f].block = b THEN buf[f].page[o] ELSE disk[b][o]

Data(i) == [n \in 1 .. inode[i].size |->
              Content(inode[i].blocks[(n - 1) \div BlockSize], (n - 1) % BlockSize)]

\* What programs see of the files and of the open files.
FilesSeen == [i \in Inode |-> IF i = Root THEN [name |-> RootName, data |-> <<>>]
                              ELSE IF Exists(i) THEN [name |-> inode[i].name, data |-> Data(i)]
                              ELSE [name |-> "none"]]
HandlesSeen == [k \in OpenFile |-> IF oft[k].inode = None THEN [file |-> None]
                                   ELSE [file |-> oft[k].inode, pos |-> oft[k].lseek]]
Abstract == <<FilesSeen, HandlesSeen, heard>>

Files == INSTANCE FileStore WITH
           FileNo <- Inode, Directory <- Root, DirectorySize <- RootSize,
           Handle <- OpenFile, FileName <- Names, FileWord <- Words \cup {0}, Offset <- Deltas,
           files <- FilesSeen, handles <- HandlesSeen

(* Whatever calls are at work, and whatever is evicted, deleted and allocated
   again in between, every call acts on the files at once: words read are the
   words last written at that place of that file, no open file is deleted, and
   positions shared by fork are advanced once per call. *)
ImplementsFileStore == Files!Spec

(* "file already created" (int_4.spl:27): no two files have one name. *)
NamesUnique == \A i, j \in Inode : Exists(i) /\ inode[i].name = inode[j].name => i = j

(* "release inode" (int_7.spl:132): a process in user mode holds no inode. *)
LocksReturned == \A i \in Inode : lock[i] # None => pc[lock[i]] # "user"

(* "file got deleted by the time lock was acquired" (resource_manager.spl:67): open
   does not take a file that was deleted while it slept for the lock, though the
   inode be another file's by now. *)
OpensNamed ==
  [][\A p \in Pid : pc[p] = "inode" /\ res'[p] # res[p] =>
        inode[I(p)].name = call[p].name]_vars
=============================================================================
