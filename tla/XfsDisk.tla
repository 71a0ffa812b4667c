------------------------------- MODULE XfsDisk -------------------------------
(* The files of an XFS disk as xfs-interface keeps them: fdisk, load --exec and
   load --data, rm.  The tables (the disk free list, the inode table with the
   user table behind it, the root file) have a copy in memory, read when the
   program starts; commands change the copy and commit it, block by block, in
   orders of their own.  The program may be killed between any two writes; a user who killed
   an fdisk gives it again before any other command. *)
EXTENDS Integers, Sequences, FiniteSets, SequencesExt

CONSTANTS Names,       \* names of files
          Blocks,      \* the blocks the free list starts with, 69 .. 511
          MaxBlocks,   \* INODE_MAX_BLOCK_NUM
          FileSlots,   \* INODE_MAX_FILE_NUM
          UserSlots,   \* entries' worth of user table behind the inodes, 4
          SlotsPerBlock   \* inode entries in a block, 32

ASSUME DiskAssumption ==
  /\ Blocks \subseteq Nat /\ MaxBlocks \in Nat \ {0}
  /\ FileSlots \in Nat \ {0} /\ UserSlots \in Nat /\ SlotsPerBlock \in Nat \ {0}
  /\ {"-1", "root"} \cap Names = {}   \* the names of files end in an extension

VARIABLES mem,        \* the tables in memory [free, inode, root, users]
          dsk,        \* the tables on the disk, and data: the data blocks
          op,         \* the command at work
          torn,       \* ghost: was a load or rm cut short since the last fdisk?
          unsettled,  \* ghost: has an fdisk begun that has not ended?
          erased      \* ghost: files whose removal has begun

vars == <<mem, dsk, op, torn, unsettled, erased>>

NoName == "-1"
Root   == "root"
Slots      == 0 .. FileSlots + UserSlots - 1
IsUser(k)  == k >= FileSlots
InodeBlock(k)  == k \div SlotsPerBlock
LastInodeBlock == InodeBlock(FileSlots + UserSlots - 1)

Entry(name, blocks) == [name |-> name, blocks |-> blocks]
EmptyEntry == Entry(NoName, <<>>)

\* setDefaultValues, and formatDisk's entry of the root file and user table.
Fresh == [free  |-> Blocks,
          inode |-> [k \in Slots |-> IF k = 0 THEN Entry(Root, <<>>) ELSE EmptyEntry],
          root  |-> [k \in Slots |-> IF k = 0 THEN Root ELSE NoName],
          users |-> TRUE]

Tables(d) == [free |-> d.free, inode |-> d.inode, root |-> d.root, users |-> d.users]

Blank == <<NoName, 0>>
Idle  == [cmd |-> "idle"]

Init == /\ mem = Fresh
        /\ dsk = [free |-> Fresh.free, inode |-> Fresh.inode, root |-> Fresh.root,
                  users |-> TRUE, data |-> [b \in Blocks |-> Blank]]
        /\ op = Idle
        /\ torn = FALSE /\ unsettled = FALSE /\ erased = {}
-----------------------------------------------------------------------------
(* Committing the copy in memory, one block at a time. *)
CommitFree  == dsk' = [dsk EXCEPT !.free = mem.free]
CommitRoot  == dsk' = [dsk EXCEPT !.root = mem.root]
CommitInode(j) ==
  dsk' = [dsk EXCEPT !.inode = [k \in Slots |-> IF InodeBlock(k) = j
                                                THEN mem.inode[k] ELSE @[k]],
                     !.users = IF j = LastInodeBlock THEN mem.users ELSE @]

\* The next stage of the command at work, or its end.
Goto(stage)  == op' = [op EXCEPT !.stage = stage, !.i = 0]
NextOf       == op' = [op EXCEPT !.i = @ + 1]
EndOp        == op' = Idle
AtStage(s)   == op # Idle /\ op.stage = s
-----------------------------------------------------------------------------
(* The tables in memory. *)
(* FindFreeBlock, called n times: the n lowest free blocks, in order, or all
   there are. *)
FindFreeBlocks(blocks, n, free) ==
  /\ \A i, j \in DOMAIN blocks : i < j => blocks[i] < blocks[j]
  /\ \A i \in DOMAIN blocks, b \in free \ ToSet(blocks) : blocks[i] < b
  /\ Len(blocks) = n \/ ToSet(blocks) = free

First(k, entries) == k \in entries /\ \A l \in entries : k <= l

\* Entries whose name is -1.  The search goes on into the user table, whose
\* unused words are -1.
EmptyInodeEntries == {k \in Slots : mem.inode[k].name = NoName}

\* The entries of a name, looked for in inode entries only.
InodeEntries(name) == {k \in Slots : ~IsUser(k) /\ mem.inode[k].name = name}

AddEntryToMemInode(k, name, blocks) ==
  mem' = [mem EXCEPT !.inode[k] = Entry(name, blocks), !.root[k] = name,
                     !.users = @ /\ ~IsUser(k)]

\* Mutant: the entry after it.
RemoveInodeEntryAfter(k) ==
  mem' = [mem EXCEPT !.inode[k + 1] = EmptyEntry, !.root[k] = NoName]
RemoveInodeEntry(k) ==
  mem' = [mem EXCEPT !.inode[k] = EmptyEntry, !.root[k] = NoName]
-----------------------------------------------------------------------------
(* load --data, load --exec, of a file that takes n blocks. *)
Ghosts == UNCHANGED <<torn, unsettled, erased>>

Load(name, n) ==
  /\ op = Idle /\ ~unsettled
  /\ n <= MaxBlocks
  /\ \E m \in 0 .. n : \E blocks \in [1 .. m -> mem.free] :
       /\ FindFreeBlocks(blocks, n, mem.free)
       /\ \/ /\ m = n /\ InodeEntries(name) = {}
             /\ \E slot \in Slots :
                  /\ First(slot, EmptyInodeEntries)
                  /\ op' = [cmd |-> "load", name |-> name, blocks |-> blocks, slot |-> slot,
                            stage |-> "free", i |-> 0]
             /\ mem' = [mem EXCEPT !.free = @ \ ToSet(blocks)]
             /\ dsk' = dsk
          \/ \* freeUnusedBlock: the blocks are free again, and erased.
             /\ m < n \/ InodeEntries(name) # {} \/ EmptyInodeEntries = {}
             /\ dsk' = [dsk EXCEPT !.data = [b \in Blocks |->
                                     IF b \in ToSet(blocks) THEN Blank ELSE @[b]]]
             /\ UNCHANGED <<mem, op>>
  /\ Ghosts

LoadFree == /\ AtStage("free") /\ op.cmd = "load"
            /\ CommitFree /\ Goto("data")
            /\ UNCHANGED mem /\ Ghosts

\* Mutant: the parts are counted from 0.
LoadDataFromZero ==
  /\ AtStage("data") /\ op.i < Len(op.blocks)
  /\ dsk' = [dsk EXCEPT !.data[op.blocks[op.i + 1]] = <<op.name, op.i>>]
  /\ NextOf
  /\ UNCHANGED mem /\ Ghosts

LoadData == /\ AtStage("data") /\ op.i < Len(op.blocks)
            /\ dsk' = [dsk EXCEPT !.data[op.blocks[op.i + 1]] = <<op.name, op.i + 1>>]
            /\ NextOf
            /\ UNCHANGED mem /\ Ghosts

LoadEntry == /\ AtStage("data") /\ op.i = Len(op.blocks)
             /\ AddEntryToMemInode(op.slot, op.name, op.blocks)
             /\ Goto("inode")
             /\ erased' = erased \ {op.name}
             /\ UNCHANGED <<dsk, torn, unsettled>>

\* commitMemCopyToDisk(INODE) commits the root file as well.
WriteInode == /\ AtStage("inode")
              /\ CommitInode(op.i)
              /\ IF op.i < LastInodeBlock THEN NextOf ELSE Goto("root")
              /\ UNCHANGED mem /\ Ghosts

WriteRoot == /\ AtStage("root")
             /\ CommitRoot
             /\ IF op.cmd = "rm" THEN Goto("free") ELSE EndOp
             /\ unsettled' = (unsettled /\ op.cmd # "fdisk")
             /\ UNCHANGED <<mem, torn, erased>>

(* rm *)
Rm(name) ==
  /\ op = Idle /\ ~unsettled
  /\ \E k \in Slots :
       /\ First(k, InodeEntries(name))
       /\ op' = [cmd |-> "rm", name |-> name, blocks |-> mem.inode[k].blocks, slot |-> k,
                 stage |-> "erase", i |-> 0]
  /\ erased' = erased \cup {name}
  /\ UNCHANGED <<mem, dsk, torn, unsettled>>

\* Mutant: the free list is committed before the inode table.
RmEraseCommits ==
  /\ AtStage("erase") /\ op.i < Len(op.blocks)
  /\ LET b == op.blocks[op.i + 1]
     IN  /\ mem' = [mem EXCEPT !.free = @ \cup {b}]
         /\ dsk' = [dsk EXCEPT !.data[b] = Blank, !.free = @ \cup {b}]
  /\ NextOf
  /\ Ghosts

RmErase ==
  /\ AtStage("erase") /\ op.i < Len(op.blocks)
  /\ LET b == op.blocks[op.i + 1]
     IN  /\ mem' = [mem EXCEPT !.free = @ \cup {b}]
         /\ dsk' = [dsk EXCEPT !.data[b] = Blank]
  /\ NextOf
  /\ Ghosts

RmEntry == /\ AtStage("erase") /\ op.i = Len(op.blocks)
           /\ RemoveInodeEntry(op.slot)
           /\ Goto("inode")
           /\ UNCHANGED dsk /\ Ghosts

RmFree == /\ AtStage("free") /\ op.cmd = "rm"
          /\ CommitFree /\ EndOp
          /\ UNCHANGED mem /\ Ghosts

(* fdisk: the data blocks are left as they are. *)
Fdisk == /\ op = Idle
         /\ mem' = Fresh
         /\ dsk' = [dsk EXCEPT !.free = Fresh.free]
         /\ op' = [cmd |-> "fdisk", name |-> Root, blocks |-> <<>>, slot |-> 0,
                   stage |-> "inode", i |-> 0]
         /\ unsettled' = TRUE
         /\ torn' = FALSE /\ erased' = {}

\* The program ends, or is killed, and is started again.
Restart == /\ mem' = Tables(dsk)
           /\ op' = Idle
           /\ torn' = (torn \/ op # Idle)
           /\ UNCHANGED <<dsk, unsettled, erased>>

Next == \/ \E name \in Names, n \in 0 .. MaxBlocks + 1 : Load(name, n)
        \/ LoadFree \/ LoadData \/ LoadEntry \/ WriteInode \/ WriteRoot
        \/ \E name \in Names : Rm(name)
        \/ RmErase \/ RmEntry \/ RmFree
        \/ Fdisk \/ Restart

Spec == Init /\ [][Next]_vars
-----------------------------------------------------------------------------
Files(t)    == {k \in Slots \ {0} : t.inode[k].name # NoName}
Owned(t, k) == ToSet(t.inode[k].blocks)

TypeOK == /\ mem.free \subseteq Blocks /\ dsk.free \subseteq Blocks
          /\ mem.inode \in [Slots -> [name : Names \cup {NoName, Root}, blocks : Seq(Blocks)]]
          /\ \A k \in Slots : Len(mem.inode[k].blocks) <= MaxBlocks

(* Whenever the program is killed, no block of a file on the disk is free there,
   and no two files have a block in common: the free list is committed before
   the inode of a new file and after that of a removed one
   (diskUtility.c:677-687, 877-883). *)
BlocksOwned ==
  ~unsettled => \A t \in {mem, Tables(dsk)} : \A k \in Files(t) :
    /\ Owned(t, k) \cap dsk.free = {}
    /\ \A l \in Files(t) \ {k} : Owned(t, k) \cap Owned(t, l) = {}

(* The file a committed inode names has all its contents, in order, unless its
   removal was begun. *)
FilesWhole ==
  ~unsettled => \A k \in Files(dsk) :
    LET f == dsk.inode[k]
    IN  f.name \notin erased =>
          \A i \in DOMAIN f.blocks : dsk.data[f.blocks[i]] = <<f.name, i>>

(* Between commands that were all completed, memory and disk agree, the root
   file names what the inode table does, and every block is free or some
   file's: nothing leaks when a load is refused. *)
NothingLeaks ==
  op = Idle /\ ~torn /\ ~unsettled =>
    /\ mem = Tables(dsk)
    /\ \A k \in Slots : mem.root[k] = mem.inode[k].name
    /\ mem.free \cup UNION {Owned(mem, k) : k \in Files(mem)} = Blocks

(* A killed program costs blocks at most, never a file: a file whose removal or
   load was not at work is there afterwards as it was. *)
OthersUntouched ==
  [][~unsettled' => \A k \in Files(dsk) :
       (op # Idle /\ op.name = dsk.inode[k].name) \/ dsk'.inode[k] = dsk.inode[k]]_vars

(* Two entries of the inode table never have one name (diskUtility.c:660-666).
   An entry made in the user table is not looked at, and its name can be given
   again. *)
NamesUnique ==
  \A k, l \in Files(mem) :
    ~IsUser(k) /\ ~IsUser(l) /\ mem.inode[k].name = mem.inode[l].name => k = l

(* The tables are sound whenever the program is killed, and exact when it is not:
   blocks have one owner and none leaks, names are unique. *)
DiskInv == TypeOK /\ BlocksOwned /\ NothingLeaks /\ NamesUnique

(* The user table survives the loading of files; a load with no inode left is
   refused (diskUtility.c:673, inode.c:36). *)
UsersKept == mem.users /\ dsk.users
=============================================================================
