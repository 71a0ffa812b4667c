------------------------------ MODULE XfsProofs ------------------------------
(* The disk utility, for disks, files and code of any size.  Whenever the program
   is killed the tables on the disk are sound, files are whole, and only the file
   at work can be lost; a file is loaded whole; system code is in its own blocks
   and runs in the pages its labels were resolved for; and every jump goes to
   its label. *)
EXTENDS MCXfs, FiniteSetTheorems, SequenceTheorems, WellFoundedInduction, TLAPS

InodeEntry == [name : Names \cup {NoName, Root}, blocks : Seq(Blocks)]

\* Tables of the right shape, in memory and on the disk.
TablesOK(t) ==
  /\ t.free \subseteq Blocks
  /\ t.inode \in [Slots -> InodeEntry] /\ t.inode[0] = Entry(Root, <<>>)
  /\ \A k \in Slots : /\ Len(t.inode[k].blocks) <= MaxBlocks
                      /\ k # 0 => t.inode[k].name # Root
  /\ t.root \in [Slots -> Names \cup {NoName, Root}]
  /\ t.users \in BOOLEAN

Commands == [cmd : {"load", "rm", "fdisk"}, name : Names \cup {Root}, blocks : Seq(Blocks),
             slot : Slots, stage : {"free", "data", "inode", "root", "erase"}, i : Nat]

Shape ==
  /\ mem = Tables(mem) /\ TablesOK(mem)
  /\ dsk = [free |-> dsk.free, inode |-> dsk.inode, root |-> dsk.root, users |-> dsk.users,
            data |-> dsk.data]
  /\ TablesOK(dsk)
  /\ dsk.data \in [Blocks -> (Names \cup {NoName}) \X Nat]
  /\ op \in Commands \cup {Idle}
  /\ torn \in BOOLEAN /\ unsettled \in BOOLEAN /\ erased \subseteq Names

Loading  == op # Idle /\ op.cmd = "load"
Removing == op # Idle /\ op.cmd = "rm"
Fdisking == op # Idle /\ op.cmd = "fdisk"

\* The first i blocks of a file.
FirstOf(bs, i) == {bs[j] : j \in 1 .. i}

Blk(t, k) == ToSet(t.inode[k].blocks)

Named(t, name) == {k \in Slots : ~IsUser(k) /\ t.inode[k].name = name}

\* What is known of each command at work.
LoadOK == Loading =>
  /\ op.stage \in {"free", "data", "inode", "root"} /\ ~unsettled
  /\ op.name \in Names /\ op.slot # 0 /\ Len(op.blocks) <= MaxBlocks
  /\ \A i, j \in DOMAIN op.blocks : i # j => op.blocks[i] # op.blocks[j]
  /\ op.stage = "free" => /\ mem.free = dsk.free \ ToSet(op.blocks)
                          /\ ToSet(op.blocks) \subseteq dsk.free
  /\ op.stage # "free" => mem.free = dsk.free
  /\ op.stage \in {"free", "data"} => /\ mem.inode[op.slot].name = NoName
                                      /\ Named(mem, op.name) = {}
  /\ op.stage = "data" =>
       /\ op.i <= Len(op.blocks)
       /\ ToSet(op.blocks) \cap dsk.free = {}
       /\ \A k \in Files(mem) : ToSet(op.blocks) \cap Blk(mem, k) = {}
       /\ \A j \in DOMAIN op.blocks : j <= op.i => dsk.data[op.blocks[j]] = <<op.name, j>>
  /\ op.stage = "inode" =>
       /\ mem.inode[op.slot] = Entry(op.name, op.blocks)
       /\ dsk.inode[op.slot].name = NoName \/ dsk.inode[op.slot] = mem.inode[op.slot]
       /\ \A j \in DOMAIN op.blocks : dsk.data[op.blocks[j]] = <<op.name, j>>
       /\ op.name \notin erased

RmOK == Removing =>
  /\ op.stage \in {"erase", "inode", "root", "free"} /\ ~unsettled
  /\ op.name \in Names /\ op.slot # 0 /\ ~IsUser(op.slot) /\ Len(op.blocks) <= MaxBlocks
  /\ op.name \in erased
  /\ op.stage = "erase" =>
       /\ op.i <= Len(op.blocks)
       /\ mem.free = dsk.free \cup FirstOf(op.blocks, op.i)
       /\ mem.inode[op.slot] = Entry(op.name, op.blocks)
  /\ op.stage # "erase" =>
       /\ mem.free = dsk.free \cup ToSet(op.blocks)
       /\ \A k \in Files(mem) : ToSet(op.blocks) \cap Blk(mem, k) = {}
  /\ op.stage = "inode" => /\ mem.inode[op.slot] = EmptyEntry
                           /\ dsk.inode[op.slot] \in {Entry(op.name, op.blocks), EmptyEntry}

FdiskOK == Fdisking =>
  /\ op.stage \in {"inode", "root"} /\ unsettled
  /\ mem = Fresh /\ dsk.free = Blocks /\ ~torn /\ erased = {}

\* Where memory and disk agree.
Synced ==
  /\ op = Idle => mem = Tables(dsk)
  /\ op # Idle =>
       /\ op.stage # "inode" => mem.inode = dsk.inode /\ mem.users = dsk.users
       /\ op.stage \in {"data", "erase"} => mem.root = dsk.root
       /\ op.stage = "free" => mem.root = dsk.root
       /\ op.stage = "inode" =>
            /\ op.i <= LastInodeBlock
            /\ \A k \in Slots : InodeBlock(k) < op.i => dsk.inode[k] = mem.inode[k]
            /\ op.cmd # "fdisk" =>
                 \A k \in Slots : k # op.slot => dsk.inode[k] = mem.inode[k]

\* No block of a file is free or another file's.
Apart(t, free) ==
  \A k \in Files(t) : /\ Blk(t, k) \cap free = {}
                      /\ \A l \in Files(t) : l # k => Blk(t, k) \cap Blk(t, l) = {}

Unique(t) ==
  \A k, l \in Files(t) :
    ~IsUser(k) /\ ~IsUser(l) /\ t.inode[k].name = t.inode[l].name => k = l

Whole(k) == \A i \in DOMAIN dsk.inode[k].blocks :
              dsk.data[dsk.inode[k].blocks[i]] = <<dsk.inode[k].name, i>>

Held == UNION {Blk(mem, k) : k \in Files(mem)}

BlocksApart == ~unsettled => Apart(mem, dsk.free) /\ Apart(dsk, dsk.free)

UniqueNames == Unique(mem) /\ Unique(dsk)

\* A file that is not being removed has its contents, one in the user table has
\* them always: getInodeEntry does not find it.
FilesKept ==
  ~unsettled => \A k \in Files(dsk) :
                  dsk.inode[k].name \notin erased \/ IsUser(k) => Whole(k)

NoneLeaks ==
  ~torn /\ ~unsettled =>
    /\ \A k \in Slots : mem.root[k] = mem.inode[k].name
    /\ Loading /\ op.stage \in {"free", "data"}
         => mem.free \cup ToSet(op.blocks) \cup Held = Blocks
    /\ ~(Loading /\ op.stage \in {"free", "data"})
         => mem.free \cup Held = Blocks

Sound == BlocksApart /\ UniqueNames /\ FilesKept /\ NoneLeaks

IInv == Shape /\ LoadOK /\ RmOK /\ FdiskOK /\ Synced /\ Sound

\* A command at work is not Idle.
LEMMA OpTypes ==
  ASSUME Shape
  PROVE  /\ op # Idle => op \in Commands
         /\ op \in Commands => op # Idle
         /\ Idle.cmd = "idle"
  BY DEF Shape, Commands, Idle

\* Inode blocks are numbered from 0, and every slot is in one of them.
LEMMA SlotBlocks ==
  /\ 0 \in Slots /\ LastInodeBlock \in Nat
  /\ \A k \in Slots : InodeBlock(k) \in 0 .. LastInodeBlock
  <1>1. 0 \in Slots /\ FileSlots + UserSlots - 1 \in Slots
    BY DiskAssumption DEF Slots
  <1>2. \A k \in Slots : k \in Nat /\ k <= FileSlots + UserSlots - 1
    BY DiskAssumption DEF Slots
  <1>3. ASSUME NEW k \in Nat
        PROVE  /\ k \div SlotsPerBlock \in Nat
               /\ SlotsPerBlock * (k \div SlotsPerBlock) <= k
               /\ k < SlotsPerBlock * ((k \div SlotsPerBlock) + 1)
    BY DiskAssumption, SMT
  <1>4. ASSUME NEW a \in Nat, NEW b \in Nat, NEW c \in Nat \ {0}, a > b
        PROVE  c * (b + 1) <= c * a
    <2>1. PICK d \in Nat : a = (b + 1) + d
      BY <1>4
    <2>2. c * ((b + 1) + d) = c * (b + 1) + c * d /\ c * d \in Nat /\ c * (b + 1) \in Nat
      BY SMT
    <2> QED BY <2>1, <2>2
  <1>5. ASSUME NEW k \in Slots
        PROVE  InodeBlock(k) \in 0 .. LastInodeBlock
    <2>1. k \in Nat /\ FileSlots + UserSlots - 1 \in Nat /\ k <= FileSlots + UserSlots - 1
      BY <1>1, <1>2
    <2>2. PICK n \in Nat : n = FileSlots + UserSlots - 1
      BY <2>1
    <2>3. PICK x \in Nat, y \in Nat : x = k \div SlotsPerBlock /\ y = n \div SlotsPerBlock
      BY <2>1, <2>2, <1>3
    <2>4. SlotsPerBlock * x <= k /\ n < SlotsPerBlock * (y + 1)
      BY <2>1, <2>2, <2>3, <1>3
    <2>5. x > y => SlotsPerBlock * (y + 1) <= SlotsPerBlock * x
      BY <1>4, DiskAssumption
    <2>6. SlotsPerBlock * x \in Nat /\ SlotsPerBlock * (y + 1) \in Nat
      BY DiskAssumption
    <2>7. ~(x > y)
      BY <2>1, <2>2, <2>4, <2>5, <2>6
    <2> QED
      BY <2>2, <2>3, <2>7 DEF InodeBlock, LastInodeBlock
  <1>6. LastInodeBlock \in Nat
    BY <1>1, <1>2, <1>3 DEF LastInodeBlock, InodeBlock
  <1> QED BY <1>1, <1>5, <1>6

\* Fewer entries, and less free, keep blocks apart and names unique.
LEMMA FewerEntries ==
  ASSUME NEW t, NEW u, Files(u) \subseteq Files(t),
         \A k \in Files(u) : u.inode[k] = t.inode[k]
  PROVE  /\ \A free, less : Apart(t, free) /\ less \subseteq free => Apart(u, less)
         /\ Unique(t) => Unique(u)
  BY DEF Apart, Blk, Unique

LEMMA SameEntries ==
  ASSUME NEW t, NEW u, u.inode = t.inode
  PROVE  /\ \A free, less : Apart(t, free) /\ less \subseteq free => Apart(u, less)
         /\ Unique(t) => Unique(u)
         /\ Files(u) = Files(t) /\ \A k : Blk(u, k) = Blk(t, k)
  BY DEF Apart, Blk, Unique, Files

LEMMA LoadFreeKeeps ==
  ASSUME IInv, LoadFree
  PROVE  IInv'
  <1>0. op \in Commands /\ Loading /\ op.stage = "free" /\ ~Removing /\ ~Fdisking
    BY OpTypes DEF IInv, LoadFree, AtStage, Loading, Removing, Fdisking
  <1>1. /\ op' \in Commands /\ op' # Idle
        /\ op'.cmd = "load" /\ op'.stage = "data" /\ op'.i = 0
        /\ op'.name = op.name /\ op'.blocks = op.blocks /\ op'.slot = op.slot
    BY <1>0 DEF LoadFree, Goto, Commands, Idle, Loading
  <1>2. /\ mem' = mem
        /\ dsk'.free = mem.free /\ dsk'.inode = dsk.inode /\ dsk'.root = dsk.root
        /\ dsk'.users = dsk.users /\ dsk'.data = dsk.data
        /\ torn' = torn /\ unsettled' = unsettled /\ erased' = erased
    BY DEF IInv, Shape, LoadFree, CommitFree, Ghosts
  <1>3. Shape'
    BY <1>1, <1>2 DEF IInv, Shape, LoadFree, CommitFree, TablesOK, Tables
  <1>4. LoadOK'
    BY <1>0, <1>1, <1>2 DEF IInv, LoadOK, Loading, Named, Shape, Sound, BlocksApart, Apart, Files, Blk, Commands
  <1>5. RmOK' /\ FdiskOK'
    BY <1>1 DEF RmOK, FdiskOK, Removing, Fdisking
  <1>6. Synced'
    BY <1>0, <1>1, <1>2 DEF IInv, Synced, LoadOK, Loading
  <1>7. BlocksApart'
    <2>1. dsk'.free \subseteq dsk.free
      BY <1>0, <1>2 DEF IInv, LoadOK
    <2> QED
      BY <2>1, <1>2, SameEntries DEF IInv, Sound, BlocksApart
  <1>8. UniqueNames' /\ FilesKept'
    BY <1>2 DEF IInv, Sound, UniqueNames, FilesKept, Unique, Whole, Files
  <1>9. NoneLeaks'
    BY <1>0, <1>1, <1>2 DEF IInv, Sound, NoneLeaks, Held, Files, Blk, Loading
  <1> QED BY <1>3, <1>4, <1>5, <1>6, <1>7, <1>8, <1>9 DEF IInv, Sound

LEMMA LoadDataKeeps ==
  ASSUME IInv, LoadData
  PROVE  IInv'
  <1>0. op \in Commands /\ Loading /\ op.stage = "data" /\ ~Removing /\ ~Fdisking
    BY OpTypes DEF IInv, LoadData, AtStage, Loading, Removing, Fdisking, LoadOK, RmOK, FdiskOK,
                   Shape, Commands
  <1>1. /\ op' \in Commands /\ op' # Idle
        /\ op'.cmd = "load" /\ op'.stage = "data" /\ op'.i = op.i + 1
        /\ op'.name = op.name /\ op'.blocks = op.blocks /\ op'.slot = op.slot
    BY <1>0 DEF LoadData, NextOf, Commands, Idle, Loading
  <1>2. PICK b \in Blocks : b = op.blocks[op.i + 1]
    BY <1>0 DEF LoadData, Commands
  <1>3. /\ mem' = mem
        /\ dsk'.free = dsk.free /\ dsk'.inode = dsk.inode /\ dsk'.root = dsk.root
        /\ dsk'.users = dsk.users
        /\ dsk'.data = [dsk.data EXCEPT ![b] = <<op.name, op.i + 1>>]
        /\ torn' = torn /\ unsettled' = unsettled /\ erased' = erased
    BY <1>2 DEF IInv, Shape, LoadData, Ghosts
  <1>4. Shape'
    <2>1. <<op.name, op.i + 1>> \in (Names \cup {NoName}) \X Nat
      BY <1>0 DEF IInv, LoadOK, Commands
    <2>2. dsk'.data \in [Blocks -> (Names \cup {NoName}) \X Nat]
      BY <2>1, <1>2, <1>3 DEF IInv, Shape
    <2>3. dsk' = [free |-> dsk'.free, inode |-> dsk'.inode, root |-> dsk'.root,
                  users |-> dsk'.users, data |-> dsk'.data]
      BY DEF IInv, Shape, LoadData
    <2>4. TablesOK(dsk')
      BY <1>3 DEF IInv, Shape, TablesOK
    <2> QED BY <2>2, <2>3, <2>4, <1>1, <1>3 DEF IInv, Shape
  <1>5. op.i + 1 \in DOMAIN op.blocks /\ b \in ToSet(op.blocks)
    BY <1>0, <1>2 DEF LoadData, Commands, ToSet
  <1>6. LoadOK'
    <2>1. ASSUME NEW j \in DOMAIN op.blocks, j <= op.i + 1
          PROVE  dsk'.data[op.blocks[j]] = <<op.name, j>>
      <3>1. j \in Nat /\ op.blocks[j] \in Blocks
        BY <1>0 DEF Commands
      <3>2. CASE j = op.i + 1
        BY <3>1, <3>2, <1>2, <1>3 DEF IInv, Shape
      <3>3. CASE j # op.i + 1
        <4>1. j <= op.i
          BY <3>1, <3>3, <2>1, <1>0 DEF Commands
        <4>2. op.blocks[j] # b
          BY <1>0, <1>2, <1>5, <3>3 DEF IInv, LoadOK
        <4> QED BY <4>1, <4>2, <1>0, <1>3, <3>1 DEF IInv, Shape, LoadOK
      <3> QED BY <3>2, <3>3
    <2>2. op'.i <= Len(op.blocks)
      BY <1>0, <1>1 DEF LoadData, Commands
    <2>4. /\ mem'.free = dsk'.free /\ mem'.inode[op'.slot].name = NoName
          /\ ToSet(op'.blocks) \cap dsk'.free = {}
          /\ \A k \in Files(mem') : ToSet(op'.blocks) \cap Blk(mem', k) = {}
      BY <1>0, <1>1, <1>3 DEF IInv, LoadOK
    <2>5. Named(mem', op'.name) = {}
      BY <1>0, <1>1, <1>3 DEF IInv, LoadOK
    <2>6. /\ ~unsettled' /\ op'.name \in Names /\ op'.slot # 0 /\ Len(op'.blocks) <= MaxBlocks
          /\ \A i, j \in DOMAIN op'.blocks : i # j => op'.blocks[i] # op'.blocks[j]
      BY <1>0, <1>1, <1>3 DEF IInv, LoadOK
    <2> QED
      BY <2>1, <2>2, <2>4, <2>5, <2>6, <1>1, <1>3 DEF LoadOK
  <1>7. RmOK' /\ FdiskOK'
    BY <1>1 DEF RmOK, FdiskOK, Removing, Fdisking
  <1>8. Synced'
    BY <1>0, <1>1, <1>3 DEF IInv, Synced, Loading
  <1>9. BlocksApart' /\ UniqueNames'
    BY <1>3, SameEntries DEF IInv, Sound, BlocksApart, UniqueNames
  <1>10. FilesKept'
    <2>1. ASSUME NEW k \in Files(dsk), Whole(k)
          PROVE  Whole(k)'
      <3>1. ToSet(op.blocks) \cap Blk(dsk, k) = {}
        BY <1>0, SameEntries DEF IInv, LoadOK, Synced, Loading
      <3>2. \A i \in DOMAIN dsk.inode[k].blocks : dsk.inode[k].blocks[i] # b
        BY <3>1, <1>5 DEF Blk, ToSet
      <3>3. \A i \in DOMAIN dsk.inode[k].blocks : dsk.inode[k].blocks[i] \in Blocks
        BY DEF IInv, Shape, TablesOK, InodeEntry, Files
      <3> QED BY <2>1, <3>2, <3>3, <1>3 DEF Whole, IInv, Shape
    <2> QED BY <2>1, <1>3 DEF IInv, Sound, FilesKept, Files
  <1>11. NoneLeaks'
    BY <1>0, <1>1, <1>3 DEF IInv, Sound, NoneLeaks, Held, Loading
  <1> QED BY <1>4, <1>6, <1>7, <1>8, <1>9, <1>10, <1>11 DEF IInv, Sound

LEMMA LoadEntryKeeps ==
  ASSUME IInv, LoadEntry
  PROVE  IInv'
  <1>0. op \in Commands /\ Loading /\ op.stage = "data" /\ ~Removing /\ ~Fdisking /\ ~unsettled
    BY OpTypes DEF IInv, LoadEntry, AtStage, Loading, Removing, Fdisking, LoadOK, RmOK, FdiskOK,
                   Shape, Commands
  <1>1. /\ op' \in Commands /\ op' # Idle
        /\ op'.cmd = "load" /\ op'.stage = "inode" /\ op'.i = 0
        /\ op'.name = op.name /\ op'.blocks = op.blocks /\ op'.slot = op.slot
    BY <1>0 DEF LoadEntry, Goto, Commands, Idle, Loading
  <1>2. PICK s \in Slots \ {0} : s = op.slot
    BY <1>0 DEF IInv, LoadOK, Commands
  <1>3. /\ mem'.free = mem.free
        /\ mem'.inode = [mem.inode EXCEPT ![s] = Entry(op.name, op.blocks)]
        /\ mem'.root = [mem.root EXCEPT ![s] = op.name]
        /\ mem'.users \in BOOLEAN
        /\ mem' = Tables(mem')
        /\ dsk' = dsk
        /\ torn' = torn /\ unsettled' = unsettled /\ erased' = erased \ {op.name}
    BY <1>2 DEF IInv, Shape, TablesOK, Tables, LoadEntry, AddEntryToMemInode
  <1>4. /\ op.name \in Names /\ op.name # NoName /\ op.name # Root
        /\ op.blocks \in Seq(Blocks) /\ Len(op.blocks) <= MaxBlocks
        /\ Len(op.blocks) = op.i
        /\ mem.inode = dsk.inode /\ mem.inode[s].name = NoName
        /\ mem.inode \in [Slots -> InodeEntry]
    BY <1>0, <1>2, DiskAssumption
       DEF IInv, LoadOK, Synced, Loading, Commands, NoName, Root, LoadEntry, Shape, TablesOK
  <1>5. Entry(op.name, op.blocks) \in InodeEntry
    BY <1>4 DEF Entry, InodeEntry
  <1>6. TablesOK(mem')
    BY <1>2, <1>3, <1>4, <1>5 DEF IInv, Shape, TablesOK, Entry
  <1>7. Shape'
    BY <1>1, <1>3, <1>6 DEF IInv, Shape
  <1>8. mem'.inode[s] = Entry(op.name, op.blocks) /\ \A k \in Slots : k # s => mem'.inode[k] = mem.inode[k]
    BY <1>3, <1>4
  <1>9. LoadOK'
    <2>1. \A j \in DOMAIN op.blocks : dsk.data[op.blocks[j]] = <<op.name, j>>
      BY <1>0, <1>4 DEF IInv, LoadOK, Commands
    <2> QED
      BY <2>1, <1>0, <1>1, <1>2, <1>3, <1>4, <1>8 DEF IInv, LoadOK, Loading
  <1>10. RmOK' /\ FdiskOK'
    BY <1>1 DEF RmOK, FdiskOK, Removing, Fdisking
  <1>11. Synced'
    BY <1>1, <1>2, <1>3, <1>4, <1>8, SlotBlocks DEF Synced
  <1>12. Files(mem') = Files(mem) \cup {s} /\ s \notin Files(mem)
    BY <1>2, <1>4, <1>8 DEF Files, Entry
  <1>13. /\ Blk(mem', s) = ToSet(op.blocks)
         /\ \A k \in Files(mem) : Blk(mem', k) = Blk(mem, k)
    BY <1>8, <1>12 DEF Blk, Entry, Files
  <1>14. BlocksApart'
    <2>1. Apart(mem, dsk.free) /\ Apart(dsk, dsk.free)
      BY <1>0 DEF IInv, Sound, BlocksApart
    <2>2. /\ ToSet(op.blocks) \cap dsk.free = {}
          /\ \A k \in Files(mem) : ToSet(op.blocks) \cap Blk(mem, k) = {}
      BY <1>0 DEF IInv, LoadOK
    <2>3. Apart(mem', dsk.free)
      BY <2>1, <2>2, <1>12, <1>13 DEF Apart
    <2> QED BY <2>1, <2>3, <1>3 DEF BlocksApart
  <1>15. UniqueNames'
    <2>1. \A k \in Files(mem) : ~IsUser(k) => mem.inode[k].name # op.name
      BY <1>0 DEF IInv, LoadOK, Named, Files
    <2>2. Unique(mem')
      BY <2>1, <1>8, <1>12 DEF IInv, Sound, UniqueNames, Unique, Files, Entry
    <2> QED BY <2>2, <1>3 DEF IInv, Sound, UniqueNames
  <1>16. FilesKept'
    <2>1. \A k \in Files(dsk) : ~IsUser(k) => dsk.inode[k].name # op.name
      BY <1>0, <1>4 DEF IInv, LoadOK, Named, Files
    <2> SUFFICES ASSUME ~unsettled', NEW k \in Files(dsk)', (dsk.inode[k].name \notin erased \/ IsUser(k))'
                 PROVE  Whole(k)'
      BY DEF FilesKept
    <2>2. ~unsettled /\ k \in Files(dsk) /\ (dsk.inode[k].name \notin erased \/ IsUser(k))
      BY <2>1, <1>3 DEF Files
    <2>3. Whole(k)
      BY <2>2 DEF IInv, Sound, FilesKept
    <2> QED BY <2>3, <1>3 DEF Whole
  <1>17. NoneLeaks'
    <2>1. Held' = Held \cup ToSet(op.blocks)
      BY <1>12, <1>13 DEF Held
    <2>2. (\A k \in Slots : mem.root[k] = mem.inode[k].name)
            => \A k \in Slots : mem'.root[k] = mem'.inode[k].name
      BY <1>2, <1>3, <1>8 DEF Entry, IInv, Shape, TablesOK
    <2> QED BY <2>1, <2>2, <1>0, <1>1, <1>3 DEF IInv, Sound, NoneLeaks, Loading
  <1> QED BY <1>7, <1>9, <1>10, <1>11, <1>14, <1>15, <1>16, <1>17 DEF IInv, Sound

LEMMA WriteInodeKeeps ==
  ASSUME IInv, WriteInode
  PROVE  IInv'
  <1>0. op \in Commands /\ op # Idle /\ op.stage = "inode"
    BY OpTypes DEF IInv, WriteInode, AtStage, Shape
  <1>1. /\ op' \in Commands /\ op' # Idle
        /\ op'.cmd = op.cmd
        /\ op'.name = op.name /\ op'.blocks = op.blocks /\ op'.slot = op.slot
        /\ \/ op.i < LastInodeBlock /\ op'.stage = "inode" /\ op'.i = op.i + 1
           \/ op.i = LastInodeBlock /\ op'.stage = "root" /\ op'.i = 0
    <2>1. op.i \in Nat /\ op.i <= LastInodeBlock
      BY <1>0 DEF IInv, Synced, Commands
    <2>2. CASE op.i < LastInodeBlock
      <3>1. op' = [op EXCEPT !.i = op.i + 1]
        BY <2>2 DEF WriteInode, NextOf
      <3> QED BY <3>1, <2>1, <2>2, <1>0 DEF Commands, Idle
    <2>3. CASE op.i = LastInodeBlock
      <3>1. op' = [op EXCEPT !.stage = "root", !.i = 0]
        BY <2>3, SlotBlocks DEF WriteInode, Goto
      <3> QED BY <3>1, <2>3, <1>0 DEF Commands, Idle
    <2> QED BY <2>1, <2>2, <2>3, SlotBlocks
  <1>2. PICK written : written = {k \in Slots : InodeBlock(k) = op.i}
    OBVIOUS
  <1>3. /\ mem' = mem
        /\ dsk'.free = dsk.free /\ dsk'.root = dsk.root /\ dsk'.data = dsk.data
        /\ dsk'.inode = [k \in Slots |-> IF InodeBlock(k) = op.i THEN mem.inode[k]
                                         ELSE dsk.inode[k]]
        /\ dsk'.users = IF op.i = LastInodeBlock THEN mem.users ELSE dsk.users
        /\ dsk' = [free |-> dsk'.free, inode |-> dsk'.inode, root |-> dsk'.root,
                   users |-> dsk'.users, data |-> dsk'.data]
        /\ torn' = torn /\ unsettled' = unsettled /\ erased' = erased
    BY DEF IInv, Shape, WriteInode, CommitInode, Ghosts
  <1>4. \A k \in Slots : dsk'.inode[k] \in {mem.inode[k], dsk.inode[k]}
    BY <1>3
  <1>5. Shape'
    <2>1. TablesOK(dsk')
      BY <1>3, <1>4, SlotBlocks DEF IInv, Shape, TablesOK
    <2> QED BY <2>1, <1>1, <1>3 DEF IInv, Shape
  <1>6. LoadOK'
    BY <1>0, <1>1, <1>3, <1>4 DEF IInv, LoadOK, Loading, Commands
  <1>7. RmOK'
    BY <1>0, <1>1, <1>3, <1>4 DEF IInv, RmOK, Removing, Commands
  <1>8. FdiskOK'
    BY <1>0, <1>1, <1>3 DEF IInv, FdiskOK, Fdisking
  <1>9. Synced'
    <2>1. \A k \in Slots : InodeBlock(k) <= op.i => dsk'.inode[k] = mem.inode[k]
      BY <1>0, <1>3, SlotBlocks DEF IInv, Synced, Commands
    <2>2. op.i = LastInodeBlock => dsk'.inode = mem.inode
      BY <2>1, <1>3, SlotBlocks DEF IInv, Shape, TablesOK
    <2>3. op.cmd # "fdisk" => \A k \in Slots : k # op.slot => dsk'.inode[k] = mem.inode[k]
      BY <1>0, <1>4 DEF IInv, Synced
    <2>4. CASE op'.stage = "root"
      BY <2>2, <2>4, <1>1, <1>3 DEF Synced
    <2>5. CASE op'.stage = "inode"
      BY <2>1, <2>3, <2>5, <1>0, <1>1, <1>3, SlotBlocks DEF Synced, Commands
    <2> QED BY <2>4, <2>5, <1>1
  <1>10. \/ Files(dsk') \subseteq Files(mem) /\ \A k \in Files(dsk') : dsk'.inode[k] = mem.inode[k]
         \/ Files(dsk') \subseteq Files(dsk) /\ \A k \in Files(dsk') : dsk'.inode[k] = dsk.inode[k]
    <2>1. CASE Loading
      <3>1. \A k \in Files(dsk') : dsk'.inode[k] = mem.inode[k]
        BY <2>1, <1>0, <1>4 DEF IInv, LoadOK, Loading, Synced, Files
      <3> QED BY <3>1 DEF Files
    <2>2. CASE Removing
      <3>1. \A k \in Files(dsk') : dsk'.inode[k] = dsk.inode[k]
        BY <2>2, <1>0, <1>4 DEF IInv, RmOK, Removing, Synced, Files, EmptyEntry, Entry
      <3> QED BY <3>1 DEF Files
    <2>3. CASE Fdisking
      <3>1. \A k \in Files(dsk') : dsk'.inode[k] = dsk.inode[k]
        BY <2>3, <1>0, <1>4 DEF IInv, FdiskOK, Fdisking, Files, Fresh, EmptyEntry, Entry
      <3> QED BY <3>1 DEF Files
    <2> QED BY <2>1, <2>2, <2>3, <1>0 DEF Loading, Removing, Fdisking, Commands
  <1>11. BlocksApart' /\ UniqueNames'
    BY <1>3, <1>10, FewerEntries DEF IInv, Sound, BlocksApart, UniqueNames
  <1>12. FilesKept'
    <2> SUFFICES ASSUME ~unsettled', NEW k \in Files(dsk'),
                        dsk'.inode[k].name \notin erased' \/ IsUser(k)
                 PROVE  Whole(k)'
      BY DEF FilesKept
    <2>1. CASE dsk'.inode[k] = dsk.inode[k]
      <3>1. ~unsettled /\ k \in Files(dsk) /\ (dsk.inode[k].name \notin erased \/ IsUser(k))
        BY <2>1, <1>3 DEF Files
      <3>2. Whole(k)
        BY <3>1 DEF IInv, Sound, FilesKept
      <3> QED BY <2>1, <3>2, <1>3 DEF Whole
    <2>2. CASE dsk'.inode[k] # dsk.inode[k]
      <3>1. k = op.slot /\ ~Fdisking
        BY <2>2, <1>0, <1>3, <1>4 DEF Files, IInv, Synced, FdiskOK, Fdisking
      <3>2. Loading
        BY <3>1, <2>2, <1>0, <1>4
           DEF IInv, RmOK, Loading, Removing, Fdisking, Commands, Files, EmptyEntry, Entry
      <3>3. dsk'.inode[k] = Entry(op.name, op.blocks)
        BY <3>1, <3>2, <2>2, <1>0, <1>4 DEF IInv, LoadOK, Files
      <3>4. \A j \in DOMAIN op.blocks : dsk.data[op.blocks[j]] = <<op.name, j>>
        BY <3>2, <1>0 DEF IInv, LoadOK
      <3> QED BY <3>3, <3>4, <1>3 DEF Whole, Entry
    <2> QED BY <2>1, <2>2
  <1>13. NoneLeaks'
    BY <1>0, <1>1, <1>3 DEF IInv, Sound, NoneLeaks, Held, Loading
  <1> QED BY <1>5, <1>6, <1>7, <1>8, <1>9, <1>11, <1>12, <1>13 DEF IInv, Sound

LEMMA WriteRootKeeps ==
  ASSUME IInv, WriteRoot
  PROVE  IInv'
  <1>0. op \in Commands /\ op # Idle /\ op.stage = "root"
    BY OpTypes DEF IInv, WriteRoot, AtStage, Shape
  <1>1. /\ mem' = mem
        /\ dsk'.free = dsk.free /\ dsk'.root = mem.root /\ dsk'.data = dsk.data
        /\ dsk'.inode = dsk.inode /\ dsk'.users = dsk.users
        /\ dsk' = [free |-> dsk'.free, inode |-> dsk'.inode, root |-> dsk'.root,
                   users |-> dsk'.users, data |-> dsk'.data]
        /\ torn' = torn /\ erased' = erased
        /\ unsettled' = (unsettled /\ op.cmd # "fdisk")
    BY DEF IInv, Shape, WriteRoot, CommitRoot
  <1>2. mem.inode = dsk.inode /\ mem.users = dsk.users
    BY <1>0 DEF IInv, Synced
  <1>3. TablesOK(dsk')
    BY <1>1 DEF IInv, Shape, TablesOK
  <1>4. CASE op.cmd = "rm"
    <2>1. /\ op' \in Commands /\ op' # Idle /\ op'.cmd = "rm" /\ op'.stage = "free"
          /\ op'.name = op.name /\ op'.blocks = op.blocks /\ op'.slot = op.slot
      <3>1. op' = [op EXCEPT !.stage = "free", !.i = 0]
        BY <1>4 DEF WriteRoot, Goto
      <3> QED BY <3>1, <1>0, <1>4 DEF Commands, Idle
    <2>2. Removing /\ unsettled' = unsettled
      BY <1>0, <1>1, <1>4 DEF Removing, IInv, Shape
    <2>3. Shape'
      BY <2>1, <1>1, <1>3 DEF IInv, Shape
    <2>4. LoadOK' /\ FdiskOK'
      BY <2>1 DEF LoadOK, FdiskOK, Loading, Fdisking
    <2>5. RmOK'
      BY <2>1, <2>2, <1>0, <1>1 DEF IInv, RmOK
    <2>6. Synced'
      BY <2>1, <1>1, <1>2 DEF Synced
    <2>7. BlocksApart' /\ UniqueNames'
      BY <2>2, <1>1, SameEntries DEF IInv, Sound, BlocksApart, UniqueNames
    <2>8. FilesKept'
      <3> SUFFICES ASSUME ~unsettled', NEW k \in Files(dsk)', (dsk.inode[k].name \notin erased \/ IsUser(k))'
                   PROVE  Whole(k)'
        BY DEF FilesKept
      <3>1. ~unsettled /\ k \in Files(dsk) /\ (dsk.inode[k].name \notin erased \/ IsUser(k))
        BY <2>2, <1>1 DEF Files
      <3>2. Whole(k)
        BY <3>1 DEF IInv, Sound, FilesKept
      <3> QED BY <3>2, <1>1 DEF Whole
    <2>9. NoneLeaks'
      BY <2>1, <2>2, <1>1, <1>4 DEF IInv, Sound, NoneLeaks, Held, Loading
    <2> QED BY <2>3, <2>4, <2>5, <2>6, <2>7, <2>8, <2>9 DEF IInv, Sound
  <1>5. CASE op.cmd # "rm"
    <2>1. op' = Idle
      BY <1>5 DEF WriteRoot, EndOp
    <2>2. Shape'
      BY <2>1, <1>1, <1>3 DEF IInv, Shape
    <2>3. LoadOK' /\ RmOK' /\ FdiskOK'
      BY <2>1 DEF LoadOK, RmOK, FdiskOK, Loading, Removing, Fdisking
    <2>4. mem.free = dsk.free
      BY <1>0, <1>5 DEF IInv, LoadOK, FdiskOK, Loading, Fdisking, Commands, Fresh
    <2>5. Synced'
      <3>1. mem = [free |-> mem.free, inode |-> mem.inode, root |-> mem.root, users |-> mem.users]
        BY DEF IInv, Shape, Tables
      <3>2. mem' = Tables(dsk')
        BY <3>1, <2>4, <1>1, <1>2 DEF Tables
      <3> QED BY <3>2, <2>1 DEF Synced
    <2>6. UniqueNames'
      BY <1>1, SameEntries DEF IInv, Sound, UniqueNames
    <2>7. CASE Loading
      <3>1. ~unsettled /\ ~unsettled'
        BY <2>7, <1>1 DEF IInv, LoadOK
      <3>2. BlocksApart'
        BY <3>1, <1>1, SameEntries DEF IInv, Sound, BlocksApart
      <3>3. FilesKept'
        BY <3>1, <1>1 DEF IInv, Sound, FilesKept, Files, Whole
      <3>4. NoneLeaks'
        BY <3>1, <2>1, <1>0, <1>1 DEF IInv, Sound, NoneLeaks, Held, Loading
      <3> QED BY <3>2, <3>3, <3>4, <2>2, <2>3, <2>5, <2>6 DEF IInv, Sound
    <2>8. CASE Fdisking
      <3>1. mem = Fresh /\ ~unsettled'
        BY <2>8, <1>1 DEF IInv, FdiskOK, Fdisking
      <3>2. Files(mem') = {} /\ Files(dsk') = {}
        BY <3>1, <1>1, <1>2 DEF Files, Fresh, EmptyEntry, Entry
      <3>3. BlocksApart' /\ FilesKept'
        BY <3>2 DEF BlocksApart, Apart, FilesKept
      <3>4. Held' = {}
        BY <3>2 DEF Held
      <3>5. mem'.free \cup Held' = Blocks
        BY <3>1, <3>4, <1>1 DEF Fresh
      <3>6. \A k \in Slots : mem'.root[k] = mem'.inode[k].name
        BY <3>1, <1>1 DEF Fresh, EmptyEntry, Entry
      <3>7. NoneLeaks'
        BY <3>5, <3>6, <2>1 DEF NoneLeaks, Loading
      <3> QED BY <3>3, <3>7, <2>2, <2>3, <2>5, <2>6 DEF IInv, Sound
    <2> QED BY <2>7, <2>8, <1>0, <1>5 DEF Loading, Fdisking, Commands
  <1> QED BY <1>4, <1>5

LEMMA RmEraseKeeps ==
  ASSUME IInv, RmErase
  PROVE  IInv'
  <1>0. op \in Commands /\ Removing /\ op.stage = "erase" /\ ~Loading /\ ~Fdisking /\ ~unsettled
    BY OpTypes DEF IInv, RmErase, AtStage, Loading, Removing, Fdisking, LoadOK, RmOK, FdiskOK,
                   Shape, Commands
  <1>1. /\ op' \in Commands /\ op' # Idle
        /\ op'.cmd = "rm" /\ op'.stage = "erase" /\ op'.i = op.i + 1
        /\ op'.name = op.name /\ op'.blocks = op.blocks /\ op'.slot = op.slot
    BY <1>0 DEF RmErase, NextOf, Commands, Idle, Removing
  <1>2. PICK b \in Blocks : b = op.blocks[op.i + 1]
    BY <1>0 DEF RmErase, Commands
  <1>3. /\ mem'.free = mem.free \cup {b}
        /\ mem'.inode = mem.inode /\ mem'.root = mem.root /\ mem'.users = mem.users
        /\ mem' = Tables(mem')
        /\ dsk'.free = dsk.free /\ dsk'.inode = dsk.inode /\ dsk'.root = dsk.root
        /\ dsk'.users = dsk.users
        /\ dsk'.data = [dsk.data EXCEPT ![b] = Blank]
        /\ torn' = torn /\ unsettled' = unsettled /\ erased' = erased
        /\ dsk' = [free |-> dsk'.free, inode |-> dsk'.inode, root |-> dsk'.root,
                   users |-> dsk'.users, data |-> dsk'.data]
    BY <1>2 DEF IInv, Shape, RmErase, Ghosts, Tables
  <1>4. Shape'
    <2>1. Blank \in (Names \cup {NoName}) \X Nat
      BY DEF Blank
    <2>2. dsk'.data \in [Blocks -> (Names \cup {NoName}) \X Nat]
      BY <2>1, <1>2, <1>3 DEF IInv, Shape
    <2>3. TablesOK(dsk') /\ TablesOK(mem')
      BY <1>2, <1>3 DEF IInv, Shape, TablesOK
    <2> QED BY <2>2, <2>3, <1>1, <1>3 DEF IInv, Shape
  <1>5. /\ op.i + 1 \in DOMAIN op.blocks /\ b \in ToSet(op.blocks) /\ op.i + 1 <= Len(op.blocks)
        /\ op.i \in Nat
    BY <1>0, <1>2 DEF RmErase, Commands, ToSet
  <1>6. LoadOK' /\ FdiskOK'
    BY <1>1 DEF LoadOK, FdiskOK, Loading, Fdisking
  <1>7. RmOK'
    <2>1. FirstOf(op.blocks, op.i + 1) = FirstOf(op.blocks, op.i) \cup {b}
      <3>1. PICK I, J : I = 1 .. op.i /\ J = 1 .. (op.i + 1)
        OBVIOUS
      <3>2. J = I \cup {op.i + 1}
        BY <3>1, <1>5
      <3>3. {op.blocks[j] : j \in J} = {op.blocks[j] : j \in I} \cup {b}
        BY <3>2, <1>2
      <3> QED BY <3>1, <3>3 DEF FirstOf
    <2> QED BY <2>1, <1>0, <1>1, <1>3, <1>5 DEF IInv, RmOK
  <1>8. Synced'
    BY <1>0, <1>1, <1>3 DEF IInv, Synced, Removing
  <1>9. BlocksApart' /\ UniqueNames'
    BY <1>3, SameEntries DEF IInv, Sound, BlocksApart, UniqueNames
  <1>10. FilesKept'
    <2>1. /\ op.slot \in Files(mem) /\ mem.inode = dsk.inode /\ op.name \in erased
          /\ ~IsUser(op.slot) /\ mem.inode[op.slot] = Entry(op.name, op.blocks)
      BY <1>0, DiskAssumption
         DEF IInv, RmOK, Synced, Removing, Files, Commands, Entry, NoName
    <2>2. ASSUME NEW k \in Files(dsk), Whole(k), k # op.slot
          PROVE  Whole(k)'
      <3>1. ToSet(op.blocks) \cap Blk(dsk, k) = {}
        <4>1. Apart(mem, dsk.free) /\ Blk(mem, op.slot) = ToSet(op.blocks)
          BY <2>1, <1>0 DEF IInv, Sound, BlocksApart, Blk, Entry
        <4>2. k \in Files(mem) /\ Blk(mem, k) = Blk(dsk, k)
          BY <2>1 DEF Files, Blk
        <4> QED BY <4>1, <4>2, <2>1, <2>2 DEF Apart
      <3>2. \A i \in DOMAIN dsk.inode[k].blocks : dsk.inode[k].blocks[i] # b
        BY <3>1, <1>5 DEF Blk, ToSet
      <3>3. \A i \in DOMAIN dsk.inode[k].blocks : dsk.inode[k].blocks[i] \in Blocks
        BY DEF IInv, Shape, TablesOK, InodeEntry, Files
      <3> QED BY <2>2, <3>2, <3>3, <1>3 DEF Whole, IInv, Shape
    <2> QED BY <2>1, <2>2, <1>3 DEF IInv, Sound, FilesKept, Files, Entry
  <1>11. NoneLeaks'
    <2>1. Held' = Held
      BY <1>3, SameEntries DEF Held
    <2> QED BY <2>1, <1>0, <1>1, <1>2, <1>3 DEF IInv, Sound, NoneLeaks, Loading
  <1> QED BY <1>4, <1>6, <1>7, <1>8, <1>9, <1>10, <1>11 DEF IInv, Sound

LEMMA RmEntryKeeps ==
  ASSUME IInv, RmEntry
  PROVE  IInv'
  <1>0. op \in Commands /\ Removing /\ op.stage = "erase" /\ ~Loading /\ ~Fdisking /\ ~unsettled
    BY OpTypes DEF IInv, RmEntry, AtStage, Loading, Removing, Fdisking, LoadOK, RmOK, FdiskOK,
                   Shape, Commands
  <1>1. /\ op' \in Commands /\ op' # Idle
        /\ op'.cmd = "rm" /\ op'.stage = "inode" /\ op'.i = 0
        /\ op'.name = op.name /\ op'.blocks = op.blocks /\ op'.slot = op.slot
    BY <1>0 DEF RmEntry, Goto, Commands, Idle, Removing
  <1>2. PICK s \in Slots \ {0} : s = op.slot
    BY <1>0 DEF IInv, RmOK, Commands
  <1>3. /\ mem'.free = mem.free
        /\ mem'.inode = [mem.inode EXCEPT ![s] = EmptyEntry]
        /\ mem'.root = [mem.root EXCEPT ![s] = NoName]
        /\ mem'.users = mem.users
        /\ mem' = Tables(mem')
        /\ dsk' = dsk
        /\ torn' = torn /\ unsettled' = unsettled /\ erased' = erased
    BY <1>2 DEF IInv, Shape, TablesOK, Tables, RmEntry, RemoveInodeEntry, Ghosts
  <1>4. /\ op.blocks \in Seq(Blocks) /\ Len(op.blocks) = op.i
        /\ mem.inode = dsk.inode /\ mem.inode[s] = Entry(op.name, op.blocks)
        /\ mem.inode \in [Slots -> InodeEntry] /\ mem.root \in [Slots -> Names \cup {NoName, Root}]
        /\ op.name # NoName
    BY <1>0, <1>2, DiskAssumption
       DEF IInv, RmOK, Synced, Removing, Commands, NoName, RmEntry, Shape, TablesOK
  <1>5. EmptyEntry \in InodeEntry /\ EmptyEntry.name = NoName /\ Len(EmptyEntry.blocks) = 0
        /\ NoName # Root
    BY DEF Entry, EmptyEntry, InodeEntry, NoName, Root
  <1>6. TablesOK(mem')
    BY <1>2, <1>3, <1>4, <1>5, DiskAssumption DEF IInv, Shape, TablesOK
  <1>7. Shape'
    BY <1>1, <1>3, <1>6 DEF IInv, Shape
  <1>8. mem'.inode[s] = EmptyEntry /\ \A k \in Slots : k # s => mem'.inode[k] = mem.inode[k]
    BY <1>3, <1>4
  <1>9. LoadOK' /\ FdiskOK'
    BY <1>1 DEF LoadOK, FdiskOK, Loading, Fdisking
  <1>10. /\ Files(mem') = Files(mem) \ {s} /\ s \in Files(mem)
         /\ \A k \in Files(mem') : mem'.inode[k] = mem.inode[k] /\ Blk(mem', k) = Blk(mem, k)
    BY <1>2, <1>4, <1>5, <1>8 DEF Files, Entry, Blk
  <1>11. Blk(mem, s) = ToSet(op.blocks)
    BY <1>4 DEF Blk, Entry
  <1>12. mem.free = dsk.free \cup ToSet(op.blocks)
    <2>1. ToSet(op.blocks) = FirstOf(op.blocks, op.i)
      BY <1>4 DEF ToSet, FirstOf
    <2> QED BY <2>1, <1>0 DEF IInv, RmOK
  <1>13. RmOK'
    <2>1. \A k \in Files(mem') : ToSet(op.blocks) \cap Blk(mem', k) = {}
      BY <1>0, <1>10, <1>11 DEF IInv, Sound, BlocksApart, Apart
    <2> QED BY <2>1, <1>0, <1>1, <1>2, <1>3, <1>4, <1>8, <1>12 DEF IInv, RmOK
  <1>14. Synced'
    BY <1>1, <1>2, <1>3, <1>4, <1>8, SlotBlocks DEF Synced
  <1>15. BlocksApart' /\ UniqueNames'
    <2>1. Files(mem') \subseteq Files(mem)
      BY <1>10
    <2> QED BY <2>1, <1>3, <1>10, FewerEntries, ZenonT(60) DEF IInv, Sound, BlocksApart, UniqueNames
  <1>16. FilesKept'
    BY <1>3 DEF IInv, Sound, FilesKept, Whole
  <1>17. NoneLeaks'
    <2>1. Held \subseteq Held' \cup ToSet(op.blocks) /\ Held' \subseteq Held
      BY <1>10, <1>11 DEF Held
    <2>2. (\A k \in Slots : mem.root[k] = mem.inode[k].name)
            => \A k \in Slots : mem'.root[k] = mem'.inode[k].name
      BY <1>2, <1>3, <1>4, <1>5, <1>8
    <2> QED BY <2>1, <2>2, <1>0, <1>1, <1>3, <1>12 DEF IInv, Sound, NoneLeaks, Loading
  <1> QED BY <1>7, <1>9, <1>13, <1>14, <1>15, <1>16, <1>17 DEF IInv, Sound

LEMMA RmFreeKeeps ==
  ASSUME IInv, RmFree
  PROVE  IInv'
  <1>0. op \in Commands /\ Removing /\ op.stage = "free" /\ ~Loading /\ ~Fdisking /\ ~unsettled
    BY OpTypes DEF IInv, RmFree, AtStage, Loading, Removing, Fdisking, RmOK, Shape
  <1>1. /\ op' = Idle /\ mem' = mem
        /\ dsk'.free = mem.free /\ dsk'.inode = dsk.inode /\ dsk'.root = dsk.root
        /\ dsk'.users = dsk.users /\ dsk'.data = dsk.data
        /\ torn' = torn /\ unsettled' = unsettled /\ erased' = erased
        /\ dsk' = [free |-> dsk'.free, inode |-> dsk'.inode, root |-> dsk'.root,
                   users |-> dsk'.users, data |-> dsk'.data]
    BY DEF IInv, Shape, RmFree, CommitFree, EndOp, Ghosts
  <1>2. /\ mem.inode = dsk.inode /\ mem.users = dsk.users /\ mem.root = dsk.root
        /\ mem.free = dsk.free \cup ToSet(op.blocks)
        /\ \A k \in Files(mem) : ToSet(op.blocks) \cap Blk(mem, k) = {}
    BY <1>0 DEF IInv, Synced, RmOK, Removing
  <1>3. Shape'
    <2>1. TablesOK(dsk')
      BY <1>1 DEF IInv, Shape, TablesOK
    <2> QED BY <2>1, <1>1 DEF IInv, Shape
  <1>4. LoadOK' /\ RmOK' /\ FdiskOK'
    BY <1>1 DEF LoadOK, RmOK, FdiskOK, Loading, Removing, Fdisking
  <1>5. Synced'
    <2>1. mem = [free |-> mem.free, inode |-> mem.inode, root |-> mem.root, users |-> mem.users]
      BY DEF IInv, Shape, Tables
    <2>2. mem' = Tables(dsk')
      BY <2>1, <1>1, <1>2 DEF Tables
    <2> QED BY <2>2, <1>1 DEF Synced
  <1>6. BlocksApart'
    <2>1. Apart(mem, mem.free)
      BY <1>0, <1>2 DEF IInv, Sound, BlocksApart, Apart
    <2> QED BY <2>1, <1>1, <1>2, SameEntries DEF BlocksApart
  <1>7. UniqueNames' /\ FilesKept'
    BY <1>1, SameEntries DEF IInv, Sound, UniqueNames, FilesKept, Files, Whole
  <1>8. NoneLeaks'
    BY <1>0, <1>1 DEF IInv, Sound, NoneLeaks, Held, Loading
  <1> QED BY <1>3, <1>4, <1>5, <1>6, <1>7, <1>8 DEF IInv, Sound

\* The tables fdisk makes.
LEMMA FreshTables ==
  /\ Fresh = Tables(Fresh) /\ TablesOK(Fresh) /\ Files(Fresh) = {} /\ Unique(Fresh)
  /\ Fresh.free = Blocks /\ \A k \in Slots : Fresh.root[k] = Fresh.inode[k].name
  <1>1. /\ Entry(Root, <<>>) \in InodeEntry /\ EmptyEntry \in InodeEntry
        /\ Entry(Root, <<>>).blocks = <<>> /\ EmptyEntry.blocks = <<>>
        /\ EmptyEntry.name = NoName /\ Entry(Root, <<>>).name = Root /\ NoName # Root
    BY DEF Entry, EmptyEntry, InodeEntry, NoName, Root
  <1>2. TablesOK(Fresh)
    BY <1>1, SlotBlocks, DiskAssumption DEF Fresh, TablesOK
  <1>3. Files(Fresh) = {}
    BY <1>1 DEF Files, Fresh
  <1>4. Fresh = Tables(Fresh) /\ Fresh.free = Blocks
    BY DEF Fresh, Tables
  <1>5. \A k \in Slots : Fresh.root[k] = Fresh.inode[k].name
    BY <1>1 DEF Fresh
  <1> QED BY <1>2, <1>3, <1>4, <1>5 DEF Unique

LEMMA FdiskKeeps ==
  ASSUME IInv, Fdisk
  PROVE  IInv'
  <1>1. /\ op' \in Commands /\ op' # Idle
        /\ op'.cmd = "fdisk" /\ op'.stage = "inode" /\ op'.i = 0
    <2>1. op' \in Commands /\ op'.cmd = "fdisk" /\ op'.stage = "inode" /\ op'.i = 0
      BY SlotBlocks DEF Fdisk, Commands
    <2> QED BY <2>1 DEF Idle
  <1>2. /\ mem' = Fresh
        /\ dsk'.free = Blocks /\ dsk'.inode = dsk.inode /\ dsk'.root = dsk.root
        /\ dsk'.users = dsk.users /\ dsk'.data = dsk.data
        /\ torn' = FALSE /\ unsettled' = TRUE /\ erased' = {}
        /\ dsk' = [free |-> dsk'.free, inode |-> dsk'.inode, root |-> dsk'.root,
                   users |-> dsk'.users, data |-> dsk'.data]
    BY FreshTables DEF IInv, Shape, Fdisk
  <1>3. Shape'
    <2>1. TablesOK(dsk')
      BY <1>2 DEF IInv, Shape, TablesOK
    <2> QED BY <2>1, <1>1, <1>2, FreshTables DEF IInv, Shape
  <1>4. LoadOK' /\ RmOK' /\ FdiskOK'
    BY <1>1, <1>2 DEF LoadOK, RmOK, FdiskOK, Loading, Removing, Fdisking
  <1>5. Synced'
    BY <1>1, SlotBlocks DEF Synced
  <1>6. UniqueNames'
    BY <1>2, FreshTables, SameEntries DEF IInv, Sound, UniqueNames
  <1> QED BY <1>2, <1>3, <1>4, <1>5, <1>6 DEF IInv, Sound, BlocksApart, FilesKept, NoneLeaks

LEMMA RestartKeeps ==
  ASSUME IInv, Restart
  PROVE  IInv'
  <1>1. /\ op' = Idle /\ mem' = Tables(dsk) /\ dsk' = dsk
        /\ torn' = (torn \/ op # Idle) /\ unsettled' = unsettled /\ erased' = erased
    BY DEF Restart
  <1>2. /\ mem'.free = dsk.free /\ mem'.inode = dsk.inode /\ mem'.root = dsk.root
        /\ mem'.users = dsk.users
    BY <1>1 DEF Tables
  <1>3. Shape'
    <2>1. TablesOK(mem') /\ mem' = Tables(mem')
      BY <1>1, <1>2 DEF IInv, Shape, TablesOK, Tables
    <2> QED BY <2>1, <1>1 DEF IInv, Shape
  <1>4. LoadOK' /\ RmOK' /\ FdiskOK' /\ Synced'
    BY <1>1 DEF LoadOK, RmOK, FdiskOK, Loading, Removing, Fdisking, Synced
  <1>5. BlocksApart' /\ UniqueNames'
    BY <1>1, <1>2, SameEntries DEF IInv, Sound, BlocksApart, UniqueNames
  <1>6. FilesKept'
    BY <1>1 DEF IInv, Sound, FilesKept, Whole
  <1>7. NoneLeaks'
    <2>1. CASE op = Idle
      <3>1. mem' = mem /\ ~Loading
        BY <2>1, <1>1 DEF IInv, Synced, Loading
      <3> QED BY <3>1, <2>1, <1>1 DEF IInv, Sound, NoneLeaks, Held, Loading
    <2>2. CASE op # Idle
      BY <2>2, <1>1 DEF NoneLeaks
    <2> QED BY <2>1, <2>2
  <1> QED BY <1>3, <1>4, <1>5, <1>6, <1>7 DEF IInv, Sound

LEMMA LoadKeeps ==
  ASSUME IInv, NEW name \in Names, NEW n \in 0 .. MaxBlocks + 1, Load(name, n)
  PROVE  IInv'
  <1>0. /\ op = Idle /\ ~unsettled /\ n <= MaxBlocks /\ mem = Tables(dsk)
        /\ ~Loading /\ ~Removing /\ ~Fdisking
        /\ torn' = torn /\ unsettled' = unsettled /\ erased' = erased
    BY DEF Load, Ghosts, IInv, Synced, Loading, Removing, Fdisking
  <1>1. /\ mem.free = dsk.free /\ mem.inode = dsk.inode /\ mem.root = dsk.root
        /\ mem.users = dsk.users
    BY <1>0 DEF Tables
  <1>2. Apart(mem, dsk.free) /\ Apart(dsk, dsk.free)
    BY <1>0 DEF IInv, Sound, BlocksApart
  <1> DEFINE Takes(m, bs) ==
               /\ m = n /\ InodeEntries(name) = {}
               /\ \E slot \in Slots :
                    /\ First(slot, EmptyInodeEntries)
                    /\ op' = [cmd |-> "load", name |-> name, blocks |-> bs,
                              slot |-> slot, stage |-> "free", i |-> 0]
               /\ mem' = [mem EXCEPT !.free = @ \ ToSet(bs)]
               /\ dsk' = dsk
             Refuses(bs) ==
               /\ dsk' = [dsk EXCEPT !.data = [b \in Blocks |->
                                        IF b \in ToSet(bs) THEN Blank ELSE @[b]]]
               /\ UNCHANGED <<mem, op>>
  <1>3. PICK m \in 0 .. n : \E bs \in [1 .. m -> mem.free] :
          FindFreeBlocks(bs, n, mem.free) /\ (Takes(m, bs) \/ Refuses(bs))
    BY DEF Load
  <1>31. PICK bs \in [1 .. m -> mem.free] :
          FindFreeBlocks(bs, n, mem.free) /\ (Takes(m, bs) \/ Refuses(bs))
    BY <1>3
  <1>32. FindFreeBlocks(bs, n, mem.free)
    BY <1>31
  <1> HIDE DEF Takes, Refuses
  <1>4. /\ m \in Nat /\ m <= MaxBlocks /\ mem.free \subseteq Blocks
        /\ bs \in Seq(Blocks) /\ Len(bs) = m /\ ToSet(bs) \subseteq mem.free
    <2>1. m \in Nat /\ m <= MaxBlocks /\ mem.free \subseteq Blocks
      BY <1>0, DiskAssumption DEF IInv, Shape, TablesOK
    <2>2. bs \in Seq(mem.free) /\ bs \in Seq(Blocks) /\ Len(bs) = m
      BY <2>1
    <2> QED BY <2>1, <2>2 DEF ToSet
  <1>5. \A i, j \in DOMAIN bs : i # j => bs[i] # bs[j]
    <2>1. \A i \in DOMAIN bs : i \in Nat /\ bs[i] \in Nat
      <3>1. DOMAIN bs = 1 .. m /\ \A i \in 1 .. m : bs[i] \in mem.free
        OBVIOUS
      <3>2. mem.free \subseteq Nat
        BY <1>4, DiskAssumption
      <3>3. ASSUME NEW i \in DOMAIN bs PROVE i \in Nat /\ bs[i] \in Nat
        BY <3>1, <3>2, <1>4
      <3> QED BY <3>3
    <2>2. \A i, j \in DOMAIN bs : i < j => bs[i] < bs[j]
      BY <1>32 DEF FindFreeBlocks
    <2> SUFFICES ASSUME NEW i \in DOMAIN bs, NEW j \in DOMAIN bs, i # j
                 PROVE  bs[i] # bs[j]
      OBVIOUS
    <2>3. i < j \/ j < i
      BY <2>1
    <2> QED BY <2>1, <2>2, <2>3
  <1>6. CASE Takes(m, bs)
    <2>1. PICK slot \in Slots :
            /\ First(slot, EmptyInodeEntries)
            /\ op' = [cmd |-> "load", name |-> name, blocks |-> bs,
                      slot |-> slot, stage |-> "free", i |-> 0]
      BY <1>6 DEF Takes
    <2>2. /\ op' \in Commands /\ op' # Idle
          /\ op'.cmd = "load" /\ op'.stage = "free" /\ op'.name = name
          /\ op'.blocks = bs /\ op'.slot = slot
      <3>1. op' \in Commands
        BY <2>1, <1>4 DEF Commands
      <3> QED BY <3>1, <2>1 DEF Commands, Idle
    <2>3. /\ mem'.free = mem.free \ ToSet(bs)
          /\ mem'.inode = mem.inode /\ mem'.root = mem.root /\ mem'.users = mem.users
          /\ mem' = Tables(mem') /\ dsk' = dsk /\ InodeEntries(name) = {}
      BY <1>6 DEF Takes, IInv, Shape, Tables
    <2>4. Shape'
      <3>1. TablesOK(mem')
        BY <2>3 DEF IInv, Shape, TablesOK
      <3> QED BY <3>1, <2>2, <2>3, <1>0 DEF IInv, Shape
    <2>5. LoadOK'
      <3>1. mem.inode[slot].name = NoName /\ slot # 0
        BY <2>1 DEF First, EmptyInodeEntries, IInv, Shape, TablesOK, Entry, NoName, Root
      <3>2. Named(mem', name) = {}
        BY <2>3 DEF Named, InodeEntries
      <3> QED BY <3>1, <3>2, <2>2, <2>3, <1>0, <1>1, <1>4, <1>5 DEF LoadOK
    <2>6. RmOK' /\ FdiskOK'
      BY <2>2 DEF RmOK, FdiskOK, Removing, Fdisking
    <2>7. Synced'
      BY <2>2, <2>3, <1>1 DEF Synced
    <2>8. BlocksApart' /\ UniqueNames'
      <3>1. Apart(mem', dsk.free) /\ Unique(mem')
        BY <2>3, <1>2, SameEntries DEF IInv, Sound, UniqueNames
      <3> QED BY <3>1, <2>3, <1>2 DEF IInv, Sound, BlocksApart, UniqueNames
    <2>9. FilesKept'
      BY <1>0, <2>3 DEF IInv, Sound, FilesKept, Whole
    <2>10. NoneLeaks'
      <3>1. Held' = Held
        BY <2>3, SameEntries DEF Held
      <3> QED BY <3>1, <2>2, <2>3, <1>0, <1>4 DEF IInv, Sound, NoneLeaks, Loading
    <2> QED BY <2>4, <2>5, <2>6, <2>7, <2>8, <2>9, <2>10 DEF IInv, Sound
  <1>7. CASE Refuses(bs)
    <2>1. /\ dsk'.free = dsk.free /\ dsk'.inode = dsk.inode /\ dsk'.root = dsk.root
          /\ dsk'.users = dsk.users
          /\ dsk'.data = [b \in Blocks |-> IF b \in ToSet(bs) THEN Blank ELSE dsk.data[b]]
          /\ dsk' = [free |-> dsk'.free, inode |-> dsk'.inode, root |-> dsk'.root,
                     users |-> dsk'.users, data |-> dsk'.data]
          /\ mem' = mem /\ op' = op
      BY <1>7 DEF Refuses, IInv, Shape
    <2>2. Shape'
      <3>1. Blank \in (Names \cup {NoName}) \X Nat
        BY DEF Blank
      <3>2. TablesOK(dsk')
        BY <2>1 DEF IInv, Shape, TablesOK
      <3>3. dsk'.data \in [Blocks -> (Names \cup {NoName}) \X Nat]
        BY <3>1, <2>1 DEF IInv, Shape
      <3> QED BY <3>2, <3>3, <2>1, <1>0 DEF IInv, Shape
    <2>3. LoadOK' /\ RmOK' /\ FdiskOK'
      BY <2>1, <1>0 DEF LoadOK, RmOK, FdiskOK, Loading, Removing, Fdisking
    <2>4. Synced'
      BY <2>1, <1>0 DEF Synced, Tables
    <2>5. BlocksApart' /\ UniqueNames'
      BY <2>1, <1>0, SameEntries DEF IInv, Sound, BlocksApart, UniqueNames
    <2>6. FilesKept'
      <3>1. ASSUME NEW k \in Files(dsk), Whole(k)
            PROVE  Whole(k)'
        <4>1. Blk(dsk, k) \cap dsk.free = {}
          BY <1>2 DEF Apart
        <4>2. \A i \in DOMAIN dsk.inode[k].blocks : dsk.inode[k].blocks[i] \notin ToSet(bs)
          BY <4>1, <1>1, <1>4 DEF Blk, ToSet
        <4>3. \A i \in DOMAIN dsk.inode[k].blocks : dsk.inode[k].blocks[i] \in Blocks
          BY DEF IInv, Shape, TablesOK, InodeEntry, Files
        <4> QED BY <3>1, <4>2, <4>3, <2>1 DEF Whole
      <3> QED BY <3>1, <2>1, <1>0 DEF IInv, Sound, FilesKept, Files
    <2>7. NoneLeaks'
      BY <2>1, <1>0 DEF IInv, Sound, NoneLeaks, Held, Loading
    <2> QED BY <2>2, <2>3, <2>4, <2>5, <2>6, <2>7 DEF IInv, Sound
  <1> QED BY <1>31, <1>6, <1>7

LEMMA RmKeeps ==
  ASSUME IInv, NEW name \in Names, Rm(name)
  PROVE  IInv'
  <1>1. PICK k \in Slots :
          /\ First(k, InodeEntries(name))
          /\ op' = [cmd |-> "rm", name |-> name, blocks |-> mem.inode[k].blocks, slot |-> k,
                    stage |-> "erase", i |-> 0]
    BY DEF Rm
  <1>2. /\ op = Idle /\ ~unsettled /\ mem = Tables(dsk) /\ ~Loading
        /\ mem' = mem /\ dsk' = dsk /\ torn' = torn /\ unsettled' = unsettled
        /\ erased' = erased \cup {name}
    BY DEF Rm, IInv, Synced, Loading
  <1>3. /\ mem.free = dsk.free /\ mem.inode = dsk.inode /\ mem.root = dsk.root
        /\ mem.users = dsk.users
    BY <1>2 DEF Tables
  <1>4. mem.inode[k] \in InodeEntry /\ Len(mem.inode[k].blocks) <= MaxBlocks
    BY DEF IInv, Shape, TablesOK
  <1>5. mem.inode[k].name = name /\ ~IsUser(k) /\ k # 0
    BY <1>1, DiskAssumption DEF First, InodeEntries, IInv, Shape, TablesOK, Entry, Root
  <1>6. mem.inode[k] = Entry(name, mem.inode[k].blocks)
    BY <1>4, <1>5 DEF InodeEntry, Entry
  <1>7. /\ op' \in Commands /\ op' # Idle
        /\ op'.cmd = "rm" /\ op'.stage = "erase" /\ op'.name = name /\ op'.slot = k
        /\ op'.blocks = mem.inode[k].blocks /\ op'.i = 0
    <2>1. op' \in Commands
      BY <1>1, <1>4 DEF Commands, InodeEntry
    <2> QED BY <2>1, <1>1 DEF Commands, Idle
  <1>8. Shape'
    BY <1>2, <1>7 DEF IInv, Shape
  <1>9. LoadOK' /\ FdiskOK'
    BY <1>7 DEF LoadOK, FdiskOK, Loading, Fdisking
  <1>10. RmOK'
    <2>1. FirstOf(op'.blocks, 0) = {}
      BY DEF FirstOf
    <2>2. 0 <= Len(op'.blocks)
      BY <1>7 DEF Commands
    <2> QED BY <2>1, <2>2, <1>2, <1>3, <1>4, <1>5, <1>6, <1>7 DEF RmOK
  <1>11. Synced'
    BY <1>2, <1>3, <1>7 DEF Synced
  <1>12. BlocksApart' /\ UniqueNames' /\ FilesKept'
    BY <1>2 DEF IInv, Sound, BlocksApart, UniqueNames, FilesKept, Whole
  <1>13. NoneLeaks'
    BY <1>2, <1>7 DEF IInv, Sound, NoneLeaks, Held, Loading
  <1> QED BY <1>8, <1>9, <1>10, <1>11, <1>12, <1>13 DEF IInv, Sound

LEMMA InitSound == Init => IInv
  <1> SUFFICES ASSUME Init PROVE IInv
    OBVIOUS
  <1>1. /\ mem = Fresh /\ op = Idle /\ torn = FALSE /\ unsettled = FALSE /\ erased = {}
        /\ dsk.free = Fresh.free /\ dsk.inode = Fresh.inode /\ dsk.root = Fresh.root
        /\ dsk.users = Fresh.users /\ dsk.data = [b \in Blocks |-> Blank]
        /\ dsk = [free |-> dsk.free, inode |-> dsk.inode, root |-> dsk.root,
                  users |-> dsk.users, data |-> dsk.data]
    BY DEF Init, Fresh
  <1>2. Shape
    <2>1. Blank \in (Names \cup {NoName}) \X Nat
      BY DEF Blank
    <2>2. TablesOK(dsk)
      BY <1>1, FreshTables DEF TablesOK
    <2> QED BY <2>1, <2>2, <1>1, FreshTables DEF Shape
  <1>3. LoadOK /\ RmOK /\ FdiskOK
    BY <1>1 DEF LoadOK, RmOK, FdiskOK, Loading, Removing, Fdisking
  <1>4. Synced
    <2>1. mem = Tables(dsk)
      BY <1>1, FreshTables DEF Tables
    <2> QED BY <2>1, <1>1 DEF Synced
  <1>5. Files(mem) = {} /\ Files(dsk) = {} /\ UniqueNames
    BY <1>1, FreshTables, SameEntries DEF UniqueNames
  <1>6. BlocksApart /\ FilesKept
    BY <1>5 DEF BlocksApart, Apart, FilesKept
  <1>7. NoneLeaks
    <2>1. Held = {}
      BY <1>5 DEF Held
    <2> QED BY <2>1, <1>1, FreshTables DEF NoneLeaks, Loading
  <1> QED BY <1>2, <1>3, <1>4, <1>5, <1>6, <1>7 DEF IInv, Sound

LEMMA NextKeeps == IInv /\ [Next]_vars => IInv'
  <1> SUFFICES ASSUME IInv, [Next]_vars PROVE IInv'
    OBVIOUS
  <1>1. ASSUME NEW name \in Names, NEW n \in 0 .. MaxBlocks + 1, Load(name, n) PROVE IInv'
    BY <1>1, LoadKeeps
  <1>2. ASSUME NEW name \in Names, Rm(name) PROVE IInv'
    BY <1>2, RmKeeps
  <1>3. CASE UNCHANGED vars
    <2>1. /\ mem' = mem /\ dsk' = dsk /\ op' = op /\ torn' = torn /\ unsettled' = unsettled
          /\ erased' = erased
      BY <1>3 DEF vars
    <2>2. Shape' /\ Synced'
      BY <2>1 DEF IInv, Shape, Synced
    <2>3. LoadOK' /\ RmOK' /\ FdiskOK'
      BY <2>1 DEF IInv, LoadOK, RmOK, FdiskOK, Loading, Removing, Fdisking
    <2>4. BlocksApart' /\ UniqueNames'
      BY <2>1 DEF IInv, Sound, BlocksApart, UniqueNames
    <2>5. FilesKept'
      BY <2>1 DEF IInv, Sound, FilesKept, Whole
    <2>6. NoneLeaks'
      BY <2>1 DEF IInv, Sound, NoneLeaks, Loading, Held
    <2> QED BY <2>2, <2>3, <2>4, <2>5, <2>6 DEF IInv, Sound
  <1> QED
    BY <1>1, <1>2, <1>3, LoadFreeKeeps, LoadDataKeeps, LoadEntryKeeps, WriteInodeKeeps,
       WriteRootKeeps, RmEraseKeeps, RmEntryKeeps, RmFreeKeeps, FdiskKeeps, RestartKeeps
       DEF Next

LEMMA InvHolds == Spec => []IInv
  BY InitSound, NextKeeps, PTL DEF Spec

(* Whenever the program is killed the tables are sound: no block of a file is
   free or another file's, nothing leaks unless a command was cut short, names
   of inode entries are unique (diskUtility.c:635-739, 850-887). *)
THEOREM DiskSound == Spec => []DiskInv
  <1>1. IInv => DiskInv
    <2> SUFFICES ASSUME IInv PROVE DiskInv
      OBVIOUS
    <2>1. TypeOK
      <3>1. \A k \in Slots : Len(mem.inode[k].blocks) <= MaxBlocks
        BY DEF IInv, Shape, TablesOK
      <3> QED BY <3>1 DEF IInv, Shape, TablesOK, TypeOK, InodeEntry
    <2>2. BlocksOwned
      <3>1. Files(Tables(dsk)) = Files(dsk) /\ \A k : Owned(Tables(dsk), k) = Blk(dsk, k)
        BY DEF Files, Tables, Owned, Blk
      <3>2. \A k : Owned(mem, k) = Blk(mem, k)
        BY DEF Owned, Blk
      <3> QED BY <3>1, <3>2 DEF IInv, Sound, BlocksApart, Apart, BlocksOwned
    <2>3. NothingLeaks
      <3>1. UNION {Owned(mem, k) : k \in Files(mem)} = Held
        BY DEF Held, Owned, Blk
      <3> QED BY <3>1 DEF IInv, Sound, NoneLeaks, NothingLeaks, Synced, Loading
    <2>4. NamesUnique
      BY DEF IInv, Sound, UniqueNames, Unique, NamesUnique
    <2> QED BY <2>1, <2>2, <2>3, <2>4 DEF DiskInv
  <1> QED BY <1>1, InvHolds, PTL

(* A file the inode table names on the disk has all its contents, in order,
   unless its removal was begun (diskUtility.c:677-687, virtualDisk.c:29-39). *)
THEOREM FilesAreWhole == Spec => []FilesWhole
  <1>1. IInv => FilesWhole
    BY DEF IInv, Sound, FilesKept, FilesWhole, Whole
  <1> QED BY <1>1, InvHolds, PTL

(* No command and no kill changes the entry of a file that is not the command's:
   inode blocks are written whole, from a copy that differs in one entry
   (virtualDisk.c:119-139). *)
THEOREM OthersStay == Spec => OthersUntouched
  <1>1. ASSUME IInv, Next, ~unsettled', NEW k \in Files(dsk)
        PROVE  (op # Idle /\ op.name = dsk.inode[k].name) \/ dsk'.inode[k] = dsk.inode[k]
    <2>1. CASE WriteInode
      <3>0. op \in Commands /\ op # Idle /\ op.stage = "inode" /\ ~unsettled
        BY <1>1, <2>1, OpTypes DEF IInv, WriteInode, AtStage, Shape, Ghosts
      <3>1. dsk'.inode[k] \in {mem.inode[k], dsk.inode[k]}
        BY <2>1, <1>1 DEF WriteInode, CommitInode, IInv, Shape, Files
      <3>2. op.cmd # "fdisk"
        BY <3>0, <1>1 DEF IInv, FdiskOK, Fdisking
      <3>3. CASE k # op.slot
        BY <3>0, <3>1, <3>2, <3>3, <1>1 DEF IInv, Synced, Files
      <3>4. CASE k = op.slot /\ Loading
        BY <3>0, <3>1, <3>4, <1>1 DEF IInv, LoadOK, Files
      <3>5. CASE k = op.slot /\ Removing
        BY <3>0, <3>5, <1>1 DEF IInv, RmOK, Files, EmptyEntry, Entry
      <3> QED BY <3>0, <3>2, <3>3, <3>4, <3>5 DEF Loading, Removing, Commands
    <2>2. CASE ~WriteInode
      <3>1. dsk'.inode = dsk.inode
        BY <2>2, <1>1 DEF Next, Load, LoadFree, CommitFree, LoadData, LoadEntry, WriteRoot,
             CommitRoot, Rm, RmErase, RmEntry, RmFree, Fdisk, Restart, IInv, Shape
      <3> QED BY <3>1
    <2> QED BY <2>1, <2>2
  <1>2. IInv /\ [Next]_vars =>
          [~unsettled' => \A k \in Files(dsk) :
             (op # Idle /\ op.name = dsk.inode[k].name) \/ dsk'.inode[k] = dsk.inode[k]]_vars
    BY <1>1
  <1> QED BY <1>2, InvHolds, PTL DEF Spec, OthersUntouched

-----------------------------------------------------------------------------
(* The contents of a file that is loaded. *)

LEMMA MaxIsNat == MaxBlocks \in Nat
BY DiskAssumption

LEMMA Induct ==
  ASSUME NEW S, 0 \in S, \A n \in Nat : n \in S => n + 1 \in S
  PROVE  \A n \in Nat : n \in S
<1> DEFINE R == OpToRel(<, Nat)
<1>1. IsWellFoundedOn(R, Nat)
  BY NatLessThanWellFounded
<1> SUFFICES ASSUME Nat \ S # {}
             PROVE  FALSE
  OBVIOUS
<1>2. PICK m \in Nat \ S : \A k \in Nat \ S : <<k, m>> \notin R
  BY <1>1, WFMin
<1>3. m # 0 /\ m - 1 \in Nat /\ m - 1 < m /\ (m - 1) + 1 = m
  OBVIOUS
<1>4. <<m - 1, m>> \in R
  BY <1>3 DEF OpToRel
<1>5. m - 1 \in S
  BY <1>2, <1>3, <1>4
<1> QED BY <1>3, <1>5

\* A file as the disk utility finds it: data has no blank lines, code may start
\* with a header of two numbers; the last line ends in a newline.
Header(f, h) == /\ h \in {0, 2} /\ h <= Len(f.lines)
                /\ \A n \in 1 .. h : f.lines[n] = "number"
                /\ \A n \in h + 1 .. Len(f.lines) : f.lines[n] \in {"instr", "blank"}
FileOK(f) ==
  /\ f.kind \in {"data", "exec", "region"} /\ Len(f.lines) \in Nat
  /\ DOMAIN f.lines = 1 .. Len(f.lines) /\ f.terminated = TRUE
  /\ f.kind = "data" => \A n \in 1 .. Len(f.lines) : f.lines[n] \in {"word", "long"}
  /\ f.kind # "data" => \E h : Header(f, h)

LEMMA BoundedSeqs ==
  ASSUME NEW S, NEW n, NEW s \in Contents!BoundedSeq(S, n)
  PROVE  s \in Seq(S)
<1>1. PICK m \in 0 .. n : s \in [1 .. m -> S]
  BY DEF Contents!BoundedSeq, Contents!SeqOf
<1>2. m \in Nat
  BY <1>1
<1> QED BY <1>1, <1>2

LEMMA InitFiles ==
  ASSUME NEW f \in Contents!Files, Terminations = {TRUE}
  PROVE  FileOK(f)
<1>1. CASE f \in [kind : {"data"}, lines : Contents!DataTexts, terminated : Terminations]
  <2>1. /\ f.lines \in Contents!BoundedSeq(Contents!DataLines, MaxFileLines)
        /\ f.kind = "data" /\ f.terminated \in Terminations
    BY <1>1 DEF Contents!DataTexts
  <2>2. f.lines \in Seq(Contents!DataLines)
    BY <2>1, BoundedSeqs
  <2>3. f.lines \in Seq({"word", "long"})
    BY <2>2 DEF Contents!DataLines
  <2>4. /\ Len(f.lines) \in Nat /\ DOMAIN f.lines = 1 .. Len(f.lines)
        /\ \A n \in 1 .. Len(f.lines) : f.lines[n] \in {"word", "long"}
    BY <2>3
  <2>5. f.terminated = TRUE
    BY <2>1
  <2>6. f.kind = "data"
    BY <2>1
  <2> QED BY <2>4, <2>5, <2>6 DEF FileOK
<1>2. CASE f \in [kind : {"exec", "region"}, lines : Contents!CodeTexts, terminated : Terminations]
  <2>1. f.kind \in {"exec", "region"} /\ f.terminated \in Terminations /\ f.lines \in Contents!CodeTexts
    BY <1>2
  <2>2. PICK h \in Contents!Header :
             \E l \in Contents!BoundedSeq(Contents!CodeLines, MaxFileLines - 2) : f.lines = h \o l
    BY <2>1 DEF Contents!CodeTexts
  <2>3. PICK l \in Contents!BoundedSeq(Contents!CodeLines, MaxFileLines - 2) : f.lines = h \o l
    BY <2>2
  <2>4. l \in Seq(Contents!CodeLines)
    BY BoundedSeqs
  <2>5. /\ h \in Seq({"number"}) /\ Len(h) \in {0, 2}
        /\ \A n \in 1 .. Len(h) : h[n] = "number"
    <3>1. CASE h = <<>>
      BY <3>1
    <3>2. CASE h = <<"number", "number">>
      BY <3>2
    <3> QED BY <3>1, <3>2 DEF Contents!Header
  <2>6. l \in Seq({"instr", "blank"})
    BY <2>4 DEF Contents!CodeLines
  <2>7. Header(f, Len(h)) /\ Len(f.lines) \in Nat /\ DOMAIN f.lines = 1 .. Len(f.lines)
    <3>1. /\ Len(f.lines) = Len(h) + Len(l) /\ DOMAIN f.lines = 1 .. Len(h) + Len(l)
          /\ \A n \in 1 .. Len(h) : f.lines[n] = h[n]
          /\ \A n \in Len(h) + 1 .. Len(h) + Len(l) : f.lines[n] = l[n - Len(h)]
      BY <2>3, <2>5, <2>6
    <3>2. \A n \in Len(h) + 1 .. Len(h) + Len(l) : l[n - Len(h)] \in {"instr", "blank"}
      BY <2>5, <2>6
    <3>3. Len(l) \in Nat
      BY <2>6
    <3>4. /\ Len(h) <= Len(f.lines) /\ Len(f.lines) \in Nat /\ Len(h) \in {0, 2}
          /\ DOMAIN f.lines = 1 .. Len(f.lines)
      BY <2>5, <3>1, <3>3
    <3>5. \A n \in 1 .. Len(h) : f.lines[n] = "number"
      BY <2>5, <3>1
    <3>6. \A n \in Len(h) + 1 .. Len(f.lines) : f.lines[n] \in {"instr", "blank"}
      BY <3>1, <3>2
    <3> QED BY <3>4, <3>5, <3>6 DEF Header
  <2>8. f.terminated = TRUE /\ f.kind \in {"exec", "region"}
    BY <2>1
  <2> QED BY <2>7, <2>8 DEF FileOK
<1> QED BY <1>1, <1>2 DEF Contents!Files

WordsTo(f, n) == Contents!WordsOf(f, n)
PartsAt(f, n) == Contents!Parts(f.lines[n])

\* A line more is as many words more as it has parts.
LEMMA WordsGrow ==
  ASSUME NEW f, NEW n \in Nat
  PROVE  /\ WordsTo(f, 0) = 0 /\ WordsTo(f, n) \in Nat /\ PartsAt(f, n) \in 0 .. 2
         /\ WordsTo(f, n + 1) = WordsTo(f, n) + PartsAt(f, n + 1)
<1> DEFINE In(m) == {w \in (1 .. m) \X (1 .. 2) : w[2] <= Contents!Parts(f.lines[w[1]])}
<1>1. ASSUME NEW m \in Nat PROVE IsFiniteSet(In(m))
  <2>1. IsFiniteSet(1 .. m)
    BY FS_Interval
  <2>2. IsFiniteSet(1 .. 2)
    <3>1. PICK k \in Int : k = 2
      OBVIOUS
    <3>2. IsFiniteSet(1 .. k)
      BY FS_Interval
    <3> QED BY <3>1, <3>2
  <2>3. IsFiniteSet((1 .. m) \X (1 .. 2))
    BY <2>1, <2>2, FS_Product
  <2> QED BY <2>3, FS_Subset
<1>2. ASSUME NEW m PROVE WordsTo(f, m) = Cardinality(In(m))
  BY DEF WordsTo, Contents!WordsOf, Cardinality, Contents!Cardinality
<1>3. In(0) = {}
  OBVIOUS
<1>4. ASSUME NEW m PROVE PartsAt(f, m) \in 0 .. 2
  BY DEF PartsAt, Contents!Parts
<1> DEFINE p == PartsAt(f, n + 1)
           A == IF p >= 1 THEN In(n) \cup {<<n + 1, 1>>} ELSE In(n)
           B == IF p >= 2 THEN A \cup {<<n + 1, 2>>} ELSE A
<1>5. In(n + 1) = B
  <2>1. ASSUME NEW i \in 1 .. n + 1, NEW j \in 1 .. 2
        PROVE  <<i, j>> \in In(n + 1) <=> <<i, j>> \in B
    <3>1. CASE i \in 1 .. n
      BY <3>1
    <3>2. CASE i = n + 1
      BY <1>4, <3>2 DEF PartsAt
    <3> QED BY <3>1, <3>2
  <2>2. In(n + 1) \subseteq (1 .. n + 1) \X (1 .. 2) /\ B \subseteq (1 .. n + 1) \X (1 .. 2)
    OBVIOUS
  <2> HIDE DEF In, A, B
  <2>3. ASSUME NEW w \in (1 .. n + 1) \X (1 .. 2)
        PROVE  w \in In(n + 1) <=> w \in B
    <3>1. PICK i \in 1 .. n + 1 : \E j \in 1 .. 2 : w = <<i, j>>
      OBVIOUS
    <3>2. PICK j \in 1 .. 2 : w = <<i, j>>
      BY <3>1
    <3> QED BY <2>1, <3>2
  <2> QED BY <2>2, <2>3
<1>6. <<n + 1, 1>> \notin In(n) /\ <<n + 1, 2>> \notin A
  OBVIOUS
<1>7. n + 1 \in Nat
  OBVIOUS
<1> HIDE DEF In
<1>8. Cardinality(In(n)) \in Nat /\ IsFiniteSet(In(n)) /\ Cardinality(In(0)) = 0
  BY <1>1, <1>3, FS_CardinalityType, FS_EmptySet
<1>9. IsFiniteSet(A) /\ Cardinality(A) = Cardinality(In(n)) + (IF p >= 1 THEN 1 ELSE 0)
  BY <1>6, <1>8, FS_AddElement
<1> HIDE DEF A
<1>10. Cardinality(B) = Cardinality(A) + (IF p >= 2 THEN 1 ELSE 0)
  <2>1. CASE p >= 2
    BY <1>6, <1>9, <2>1, FS_AddElement
  <2>2. CASE ~(p >= 2)
    <3>1. Cardinality(A) \in Nat
      BY <1>9, FS_CardinalityType
    <3> QED BY <2>2, <3>1
  <2> QED BY <2>1, <2>2
<1> HIDE DEF B
<1>11. p \in 0 .. 2
  BY <1>4
<1> HIDE DEF p
<1>12. WordsTo(f, n + 1) = Cardinality(B) /\ WordsTo(f, n) = Cardinality(In(n)) /\ WordsTo(f, 0) = Cardinality(In(0))
  BY <1>2, <1>5
<1>13. Cardinality(B) = Cardinality(In(n)) + p
  BY <1>8, <1>9, <1>10, <1>11
<1> QED BY <1>4, <1>8, <1>12, <1>13 DEF p

LEMMA WordsOrdered ==
  ASSUME NEW f, NEW m \in Nat, NEW n \in Nat, m <= n
  PROVE  WordsTo(f, m) <= WordsTo(f, n)
<1> DEFINE S == {k \in Nat : WordsTo(f, m) <= WordsTo(f, m + k)}
<1>1. WordsTo(f, m) \in Nat
  BY WordsGrow
<1>2. 0 \in S
  BY <1>1
<1>3. ASSUME NEW k \in S PROVE k + 1 \in S
  <2>1. WordsTo(f, m + k + 1) = WordsTo(f, m + k) + PartsAt(f, m + k + 1) /\ WordsTo(f, m + k) \in Nat
    <3>1. m + k \in Nat
      OBVIOUS
    <3> QED BY <3>1, WordsGrow
  <2>2. PartsAt(f, m + k + 1) \in 0 .. 2
    <3>1. m + k + 1 \in Nat
      OBVIOUS
    <3> QED BY <3>1, WordsGrow
  <2>3. WordsTo(f, m) <= WordsTo(f, m + k) /\ m + (k + 1) = m + k + 1
    OBVIOUS
  <2> QED BY <1>1, <2>1, <2>2, <2>3
<1>4. \A k \in Nat : k \in S
  <2> HIDE DEF S
  <2>1. \A k \in Nat : k \in S => k + 1 \in S
    BY <1>3
  <2> QED BY <1>2, <2>1, Induct
<1>5. n - m \in Nat /\ m + (n - m) = n
  OBVIOUS
<1> QED BY <1>4, <1>5

BlankLines(f, n) == Cardinality({m \in 1 .. n : f.lines[m] = "blank"})

LEMMA BlanksGrow ==
  ASSUME NEW f, NEW n \in Nat
  PROVE  /\ BlankLines(f, 0) = 0 /\ BlankLines(f, n) \in Nat
         /\ BlankLines(f, n + 1) = IF f.lines[n + 1] = "blank" THEN BlankLines(f, n) + 1 ELSE BlankLines(f, n)
<1> DEFINE In(k) == {m \in 1 .. k : f.lines[m] = "blank"}
<1>1. IsFiniteSet(In(n))
  <2>1. IsFiniteSet(1 .. n)
    BY FS_Interval
  <2> QED BY <2>1, FS_Subset
<1>2. In(0) = {} /\ n + 1 \notin In(n)
  OBVIOUS
<1>3. In(n + 1) = IF f.lines[n + 1] = "blank" THEN In(n) \cup {n + 1} ELSE In(n)
  <2>1. 1 .. n + 1 = 1 .. n \cup {n + 1}
    OBVIOUS
  <2> QED BY <2>1
<1>4. BlankLines(f, n + 1) = Cardinality(In(n + 1)) /\ BlankLines(f, n) = Cardinality(In(n))
      /\ BlankLines(f, 0) = Cardinality(In(0))
  BY DEF BlankLines
<1> HIDE DEF In
<1>5. Cardinality(In(n)) \in Nat /\ Cardinality(In(0)) = 0
  BY <1>1, <1>2, FS_CardinalityType, FS_EmptySet
<1>6. Cardinality(In(n) \cup {n + 1}) = Cardinality(In(n)) + 1
  BY <1>1, <1>2, FS_AddElement
<1> QED BY <1>3, <1>4, <1>5, <1>6

\* Past its header, code has two words for each line that is not blank.
LEMMA CodeWords ==
  ASSUME NEW f, NEW h, Header(f, h), Len(f.lines) \in Nat, NEW n \in h .. Len(f.lines)
  PROVE  WordsTo(f, n) + 2 * BlankLines(f, n) + h = 2 * n
<1> DEFINE S == {k \in Nat : h + k <= Len(f.lines) => WordsTo(f, h + k) + 2 * BlankLines(f, h + k) + h = 2 * (h + k)}
<1>1. WordsTo(f, h) + 2 * BlankLines(f, h) + h = 2 * h
  <2>1. CASE h = 0
    <3>1. WordsTo(f, 0) = 0 /\ BlankLines(f, 0) = 0
      BY WordsGrow, BlanksGrow
    <3> QED BY <2>1, <3>1
  <2>2. CASE h = 2
    <3>1. f.lines[1] = "number" /\ f.lines[2] = "number"
      BY <2>2 DEF Header
    <3>2. PartsAt(f, 1) = 1 /\ PartsAt(f, 2) = 1
      BY <3>1 DEF PartsAt, Contents!Parts
    <3>3. WordsTo(f, 0) = 0 /\ WordsTo(f, 0 + 1) = WordsTo(f, 0) + PartsAt(f, 0 + 1) /\ WordsTo(f, 1 + 1) = WordsTo(f, 1) + PartsAt(f, 1 + 1)
      BY WordsGrow
    <3>4. /\ BlankLines(f, 0) = 0
          /\ BlankLines(f, 0 + 1) = IF f.lines[0 + 1] = "blank" THEN BlankLines(f, 0) + 1 ELSE BlankLines(f, 0)
          /\ BlankLines(f, 1 + 1) = IF f.lines[1 + 1] = "blank" THEN BlankLines(f, 1) + 1 ELSE BlankLines(f, 1)
      BY BlanksGrow
    <3>5. WordsTo(f, 2) = 2 /\ BlankLines(f, 2) = 0
      BY <3>1, <3>2, <3>3, <3>4
    <3> QED BY <2>2, <3>5
  <2> QED BY <2>1, <2>2 DEF Header
<1>2. h \in Nat
  BY DEF Header
<1>3. 0 \in S
  BY <1>1, <1>2
<1>4. ASSUME NEW k \in Nat, k \in S PROVE k + 1 \in S
  <2> SUFFICES ASSUME h + (k + 1) <= Len(f.lines)
               PROVE  WordsTo(f, h + (k + 1)) + 2 * BlankLines(f, h + (k + 1)) + h = 2 * (h + (k + 1))
    OBVIOUS
  <2> DEFINE m == h + k
  <2>1. m \in Nat /\ m + 1 = h + (k + 1) /\ m + 1 \in h + 1 .. Len(f.lines) /\ m <= Len(f.lines)
    BY <1>2
  <2>2. WordsTo(f, m) + 2 * BlankLines(f, m) + h = 2 * m
    BY <1>4, <2>1
  <2> HIDE DEF m
  <2>3. f.lines[m + 1] \in {"instr", "blank"}
    BY <2>1 DEF Header
  <2>4. /\ WordsTo(f, m) \in Nat /\ WordsTo(f, m + 1) = WordsTo(f, m) + PartsAt(f, m + 1) /\ BlankLines(f, m) \in Nat
        /\ BlankLines(f, m + 1) = IF f.lines[m + 1] = "blank" THEN BlankLines(f, m) + 1 ELSE BlankLines(f, m)
    BY <2>1, WordsGrow, BlanksGrow
  <2>5. PartsAt(f, m + 1) = IF f.lines[m + 1] = "blank" THEN 0 ELSE 2
    BY <2>3 DEF PartsAt, Contents!Parts
  <2>6. WordsTo(f, m + 1) + 2 * BlankLines(f, m + 1) + h = 2 * (m + 1)
    <3> DEFINE w == WordsTo(f, m)
               v == BlankLines(f, m)
    <3>1. w \in Nat /\ v \in Nat /\ w + 2 * v + h = 2 * m
      BY <2>2, <2>4
    <3>2. \/ WordsTo(f, m + 1) = w /\ BlankLines(f, m + 1) = v + 1
          \/ WordsTo(f, m + 1) = w + 2 /\ BlankLines(f, m + 1) = v
      BY <2>4, <2>5
    <3>3. m \in Nat
      BY <2>1
    <3> HIDE DEF w, v
    <3>4. CASE WordsTo(f, m + 1) = w /\ BlankLines(f, m + 1) = v + 1
      <4>1. w + 2 * (v + 1) + h = 2 * (m + 1)
        BY <1>2, <3>1, <3>3
      <4> QED BY <3>4, <4>1
    <3>5. CASE WordsTo(f, m + 1) = w + 2 /\ BlankLines(f, m + 1) = v
      <4>1. w + 2 + 2 * v + h = 2 * (m + 1)
        BY <1>2, <3>1, <3>3
      <4> QED BY <3>5, <4>1
    <3> QED BY <3>2, <3>4, <3>5
  <2> QED BY <2>1, <2>6
<1>5. \A k \in Nat : k \in S
  <2> HIDE DEF S
  <2> QED BY <1>3, <1>4, Induct
<1>6. n - h \in Nat /\ h + (n - h) = n /\ n <= Len(f.lines)
  BY <1>2
<1> QED BY <1>5, <1>6

LEMMA BlockSize == BlockWords \in Nat /\ BlockWords >= 6
BY BlockAssumption

LEMMA BlocksGrow ==
  ASSUME NEW n \in Nat
  PROVE  n * BlockWords \in Nat /\ (n + 1) * BlockWords = n * BlockWords + BlockWords
BY BlockSize

\* Word k of the blocks and the block that is filled is w.
InPlace(blks, blk, k, w) ==
  \/ \E b \in DOMAIN blks : \E i \in DOMAIN blks[b] :
       k = (b - 1) * BlockWords + i /\ blks[b][i] = w
  \/ \E i \in DOMAIN blk : k = Len(blks) * BlockWords + i /\ blk[i] = w

\* What was read of the file is in the blocks, in order; once the end was met,
\* they may hold more, which is empty.
Filling(f, n, p, blk, blks) ==
  /\ n \in 0 .. Len(f.lines)
  /\ \/ p = 0
     \/ f.kind = "data" /\ n < Len(f.lines) /\ p \in 1 .. PartsAt(f, n + 1) - 1
  /\ blk \in Seq(Nat \X Nat) /\ Len(blk) <= BlockWords
  /\ blks \in Seq(Seq(Nat \X Nat)) /\ \A b \in DOMAIN blks : Len(blks[b]) = BlockWords
  /\ \/ Len(blks) * BlockWords + Len(blk) = WordsTo(f, n) + p
     \/ n = Len(f.lines) /\ blk = <<>> /\ Len(blks) * BlockWords >= WordsTo(f, n)
  /\ \A m \in 1 .. Len(f.lines) : \A q \in 1 .. PartsAt(f, m) :
       WordsTo(f, m - 1) + q <= WordsTo(f, n) + p => InPlace(blks, blk, WordsTo(f, m - 1) + q, <<m, q>>)
  /\ \A b \in DOMAIN blks : \A i \in 1 .. BlockWords :
       (b - 1) * BlockWords + i > WordsTo(f, Len(f.lines)) => blks[b][i] = <<0, 0>>

LEMMA FillingStarts ==
  ASSUME NEW f, FileOK(f)
  PROVE  Filling(f, 0, 0, <<>>, <<>>)
<1>1. WordsTo(f, 0) = 0
  BY WordsGrow
<1>2. ASSUME NEW m \in 1 .. Len(f.lines) PROVE WordsTo(f, m - 1) \in Nat
  <2>1. m - 1 \in Nat
    BY DEF FileOK
  <2> QED BY <2>1, WordsGrow
<1>3. 0 * BlockWords = 0
  BY BlockSize
<1> QED BY <1>1, <1>2, <1>3, BlockSize DEF Filling, FileOK

LEMMA WordsLeft ==
  ASSUME NEW f, FileOK(f), NEW n \in 0 .. Len(f.lines), NEW p,
         p = 0 \/ (n < Len(f.lines) /\ p \in 1 .. PartsAt(f, n + 1) - 1)
  PROVE  /\ WordsTo(f, n) + p \in Nat /\ WordsTo(f, Len(f.lines)) \in Nat
         /\ WordsTo(f, n) + p <= WordsTo(f, Len(f.lines))
<1>1. n \in Nat /\ Len(f.lines) \in Nat /\ n <= Len(f.lines)
  BY DEF FileOK
<1>2. WordsTo(f, n) \in Nat /\ WordsTo(f, Len(f.lines)) \in Nat /\ WordsTo(f, n + 1) = WordsTo(f, n) + PartsAt(f, n + 1)
  BY <1>1, WordsGrow
<1>3. PartsAt(f, n + 1) \in 0 .. 2
  BY <1>1, WordsGrow
<1>4. CASE p = 0
  BY <1>1, <1>2, <1>4, WordsOrdered
<1>5. CASE n < Len(f.lines) /\ p \in 1 .. PartsAt(f, n + 1) - 1
  <2>1. WordsTo(f, n + 1) <= WordsTo(f, Len(f.lines))
    BY <1>1, <1>5, WordsOrdered
  <2> QED BY <1>2, <1>3, <1>5, <2>1
<1> QED BY <1>4, <1>5

LEMMA PaddedIs ==
  ASSUME NEW blk \in Seq(Nat \X Nat), Len(blk) <= BlockWords
  PROVE  /\ Contents!Padded(blk) \in Seq(Nat \X Nat) /\ Len(Contents!Padded(blk)) = BlockWords
         /\ DOMAIN Contents!Padded(blk) = 1 .. BlockWords
         /\ \A i \in 1 .. Len(blk) : Contents!Padded(blk)[i] = blk[i]
         /\ \A i \in Len(blk) + 1 .. BlockWords : Contents!Padded(blk)[i] = <<0, 0>>
<1> DEFINE e == [i \in 1 .. BlockWords - Len(blk) |-> <<0, 0>>]
<1>1. BlockWords - Len(blk) \in Nat
  BY BlockSize
<1>2. e \in Seq(Nat \X Nat) /\ Len(e) = BlockWords - Len(blk)
  BY <1>1
<1>3. \A i \in 1 .. BlockWords - Len(blk) : e[i] = <<0, 0>>
  OBVIOUS
<1>4. Contents!Padded(blk) = blk \o e
  BY DEF Contents!Padded, Contents!Empty
<1> HIDE DEF e
<1> QED BY <1>1, <1>2, <1>3, <1>4, BlockSize

LEMMA AppendIs ==
  ASSUME NEW S, NEW s \in Seq(S), NEW e \in S
  PROVE  /\ Append(s, e) \in Seq(S) /\ Len(Append(s, e)) = Len(s) + 1
         /\ Append(s, e)[Len(s) + 1] = e /\ Len(s) \in Nat
         /\ DOMAIN Append(s, e) = 1 .. Len(s) + 1 /\ DOMAIN s = 1 .. Len(s)
         /\ \A i \in 1 .. Len(s) : Append(s, e)[i] = s[i]
OBVIOUS

\* A block that is full, or the last of the file, is written.
LEMMA FlushKeeps ==
  ASSUME NEW f, FileOK(f), NEW n, NEW p, NEW blk, NEW blks, Filling(f, n, p, blk, blks),
         Len(blk) = BlockWords \/ n = Len(f.lines)
  PROVE  Filling(f, n, p, <<>>, Append(blks, Contents!Padded(blk)))
<1> DEFINE x == Contents!Padded(blk)
           y == Append(blks, x)
           L == Len(blks)
<1>1. /\ n \in 0 .. Len(f.lines)
      /\ \/ p = 0
         \/ f.kind = "data" /\ n < Len(f.lines) /\ p \in 1 .. PartsAt(f, n + 1) - 1
      /\ blk \in Seq(Nat \X Nat) /\ Len(blk) <= BlockWords
      /\ blks \in Seq(Seq(Nat \X Nat)) /\ \A b \in DOMAIN blks : Len(blks[b]) = BlockWords
      /\ \/ L * BlockWords + Len(blk) = WordsTo(f, n) + p
         \/ n = Len(f.lines) /\ blk = <<>> /\ L * BlockWords >= WordsTo(f, n)
  BY DEF Filling
<1>2. /\ WordsTo(f, n) + p \in Nat /\ WordsTo(f, Len(f.lines)) \in Nat /\ WordsTo(f, n) + p <= WordsTo(f, Len(f.lines))
  <2>1. p = 0 \/ (n < Len(f.lines) /\ p \in 1 .. PartsAt(f, n + 1) - 1)
    BY <1>1
  <2> QED BY <1>1, <2>1, WordsLeft
<1>3. /\ x \in Seq(Nat \X Nat) /\ Len(x) = BlockWords /\ DOMAIN x = 1 .. BlockWords
      /\ \A i \in 1 .. Len(blk) : x[i] = blk[i]
      /\ \A i \in Len(blk) + 1 .. BlockWords : x[i] = <<0, 0>>
  BY <1>1, PaddedIs
<1> HIDE DEF x
<1>4. /\ y \in Seq(Seq(Nat \X Nat)) /\ Len(y) = L + 1 /\ y[L + 1] = x
      /\ DOMAIN y = 1 .. L + 1 /\ DOMAIN blks = 1 .. L /\ L \in Nat
      /\ \A b \in 1 .. L : y[b] = blks[b]
  <2>1. x \in Seq(Nat \X Nat) /\ blks \in Seq(Seq(Nat \X Nat))
    BY <1>1, <1>3
  <2> QED BY <2>1, AppendIs
<1>5. L * BlockWords \in Nat /\ (L + 1) * BlockWords = L * BlockWords + BlockWords
      /\ (L + 1) - 1 = L
  BY <1>4, BlocksGrow
<1> HIDE DEF y, L
<1>6. ASSUME NEW b \in DOMAIN y
      PROVE  Len(y[b]) = BlockWords
  <2>1. CASE b \in 1 .. L
    BY <1>1, <1>4, <2>1
  <2>2. CASE b = L + 1
    BY <1>3, <1>4, <2>2
  <2> QED BY <1>4, <2>1, <2>2
<1>7. \/ Len(y) * BlockWords + Len(<<>>) = WordsTo(f, n) + p
      \/ n = Len(f.lines) /\ Len(y) * BlockWords >= WordsTo(f, n)
  <2>1. CASE Len(blk) = BlockWords
    <3>1. L * BlockWords + Len(blk) = WordsTo(f, n) + p
      BY <1>1, <2>1, BlockSize
    <3>2. (L + 1) * BlockWords = WordsTo(f, n) + p
      BY <1>5, <2>1, <3>1
    <3> QED BY <1>2, <1>4, <3>2
  <2>2. CASE n = Len(f.lines)
    <3>1. p = 0
      BY <1>1, <2>2
    <3>2. L * BlockWords + Len(blk) >= WordsTo(f, n) /\ Len(blk) \in Nat
      <4>1. Len(blk) \in Nat
        BY <1>1
      <4>2. WordsTo(f, n) \in Nat
        BY <1>1, WordsGrow
      <4> QED BY <1>1, <1>5, <3>1, <4>1, <4>2
    <3>3. (L + 1) * BlockWords >= WordsTo(f, n)
      BY <1>1, <1>2, <1>5, <3>1, <3>2, BlockSize, SMTT(30)
    <3> QED BY <1>4, <2>2, <3>3
  <2> QED BY <2>1, <2>2
<1>8. ASSUME NEW k, NEW w, InPlace(blks, blk, k, w)
      PROVE  InPlace(y, <<>>, k, w)
  <2>1. CASE \E b \in DOMAIN blks : \E i \in DOMAIN blks[b] :
               k = (b - 1) * BlockWords + i /\ blks[b][i] = w
    <3>1. PICK b \in DOMAIN blks : \E i \in DOMAIN blks[b] :
               k = (b - 1) * BlockWords + i /\ blks[b][i] = w
      BY <2>1
    <3>2. b \in DOMAIN y /\ y[b] = blks[b]
      BY <1>4
    <3> QED BY <3>1, <3>2 DEF InPlace
  <2>2. CASE \E i \in DOMAIN blk : k = L * BlockWords + i /\ blk[i] = w
    <3>1. PICK i \in DOMAIN blk : k = L * BlockWords + i /\ blk[i] = w
      BY <2>2
    <3>2. i \in 1 .. Len(blk) /\ i \in DOMAIN x
      <4>1. DOMAIN blk = 1 .. Len(blk) /\ Len(blk) \in Nat
        BY <1>1
      <4>2. i \in 1 .. Len(blk) /\ Len(blk) <= BlockWords
        BY <1>1, <4>1
      <4>3. i \in 1 .. BlockWords
        <5> DEFINE l == Len(blk)
        <5>1. l \in Nat /\ i \in 1 .. l /\ l <= BlockWords
          BY <4>1, <4>2
        <5> HIDE DEF l
        <5> QED BY <5>1, BlockSize
      <4> QED BY <1>3, <4>2, <4>3
    <3>3. x[i] = w
      BY <1>3, <3>1, <3>2
    <3>4. L + 1 \in DOMAIN y /\ i \in DOMAIN y[L + 1] /\ y[L + 1][i] = w
          /\ k = ((L + 1) - 1) * BlockWords + i
      BY <1>4, <1>5, <3>1, <3>2, <3>3
    <3> QED BY <3>4 DEF InPlace
  <2> QED BY <1>8, <2>1, <2>2 DEF InPlace, L
<1>9. \A m \in 1 .. Len(f.lines) : \A q \in 1 .. PartsAt(f, m) :
        WordsTo(f, m - 1) + q <= WordsTo(f, n) + p => InPlace(y, <<>>, WordsTo(f, m - 1) + q, <<m, q>>)
  BY <1>8 DEF Filling
<1>10. ASSUME NEW b \in DOMAIN y, NEW i \in 1 .. BlockWords,
              (b - 1) * BlockWords + i > WordsTo(f, Len(f.lines))
       PROVE  y[b][i] = <<0, 0>>
  <2>1. CASE b \in 1 .. L
    <3>1. b \in DOMAIN blks /\ y[b] = blks[b]
      BY <1>4, <2>1
    <3> QED BY <1>10, <3>1 DEF Filling
  <2>2. CASE b = L + 1
    <3>1. L * BlockWords + i > WordsTo(f, Len(f.lines))
      BY <1>5, <1>10, <2>2
    <3>2. i > Len(blk)
      BY <1>1, <1>2, <1>5, <3>1, BlockSize, SMTT(60)
    <3>3. i \in Len(blk) + 1 .. BlockWords
      BY <1>1, <3>2, BlockSize
    <3> QED BY <1>3, <1>4, <2>2, <3>3
  <2> QED BY <1>4, <2>1, <2>2
<1>11. <<>> \in Seq(Nat \X Nat) /\ Len(<<>>) <= BlockWords
  BY BlockSize
<1>12. Filling(f, n, p, <<>>, y)
  BY <1>1, <1>4, <1>6, <1>7, <1>9, <1>10, <1>11 DEF Filling
<1> QED BY <1>12 DEF y, x

\* k words more of the line that is read.
LEMMA ReadKeeps ==
  ASSUME NEW f, FileOK(f), NEW n, NEW p, NEW blk, NEW blks, Filling(f, n, p, blk, blks),
         n # Len(f.lines), NEW k \in 0 .. 2, p + k <= PartsAt(f, n + 1), Len(blk) + k <= BlockWords,
         NEW n2 \in 0 .. Len(f.lines), NEW p2,
         p2 = 0 \/ (f.kind = "data" /\ n2 < Len(f.lines) /\ p2 \in 1 .. PartsAt(f, n2 + 1) - 1),
         WordsTo(f, n2) + p2 = WordsTo(f, n) + p + k
  PROVE  Filling(f, n2, p2, blk \o [i \in 1 .. k |-> <<n + 1, p + i>>], blks)
<1> DEFINE r == [i \in 1 .. k |-> <<n + 1, p + i>>]
           y == blk \o r
           l == Len(blk)
           Lb == Len(blks) * BlockWords
           T == WordsTo(f, n) + p
<1>1. /\ n \in 0 .. Len(f.lines)
      /\ p = 0 \/ (f.kind = "data" /\ n < Len(f.lines) /\ p \in 1 .. PartsAt(f, n + 1) - 1)
      /\ blk \in Seq(Nat \X Nat)
      /\ blks \in Seq(Seq(Nat \X Nat)) /\ \A b \in DOMAIN blks : Len(blks[b]) = BlockWords
      /\ Lb + l = T
  BY DEF Filling
<1>2. /\ n \in Nat /\ n + 1 \in 1 .. Len(f.lines) /\ n < Len(f.lines) /\ p \in Nat
      /\ Len(f.lines) \in Nat
  BY <1>1 DEF FileOK
<1>3. r \in Seq(Nat \X Nat) /\ Len(r) = k /\ \A i \in 1 .. k : r[i] = <<n + 1, p + i>>
  BY <1>2
<1> HIDE DEF r
<1>4. /\ y \in Seq(Nat \X Nat) /\ Len(y) = l + k /\ l \in Nat /\ DOMAIN y = 1 .. l + k
      /\ DOMAIN blk = 1 .. l
      /\ \A i \in 1 .. l : y[i] = blk[i]
      /\ \A i \in l + 1 .. l + k : y[i] = r[i - l]
  BY <1>1, <1>3, SMTT(60)
<1>5. Lb \in Nat
  <2>1. Len(blks) \in Nat
    BY <1>1
  <2> QED BY <2>1, BlocksGrow
<1>6. WordsTo(f, n) \in Nat /\ WordsTo(f, n + 1) = WordsTo(f, n) + PartsAt(f, n + 1) /\ PartsAt(f, n + 1) \in 0 .. 2
  BY <1>2, WordsGrow
<1>7. T \in Nat /\ WordsTo(f, n) <= T /\ T + k <= WordsTo(f, n + 1)
  BY <1>2, <1>6, SMTT(60)
<1> HIDE DEF y, l, Lb
<1>8. ASSUME NEW a, NEW w, InPlace(blks, blk, a, w)
      PROVE  InPlace(blks, y, a, w)
  <2>1. CASE \E i \in DOMAIN blk : a = Lb + i /\ blk[i] = w
    <3>1. PICK i \in DOMAIN blk : a = Lb + i /\ blk[i] = w
      BY <2>1
    <3>2. i \in DOMAIN y /\ y[i] = w
      BY <1>4, <3>1
    <3> QED BY <3>1, <3>2 DEF InPlace, Lb
  <2> QED BY <1>8, <2>1 DEF InPlace, Lb
<1>9. ASSUME NEW m \in 1 .. Len(f.lines), NEW q \in 1 .. PartsAt(f, m),
             WordsTo(f, m - 1) + q <= T + k
      PROVE  InPlace(blks, y, WordsTo(f, m - 1) + q, <<m, q>>)
  <2>0. m - 1 \in Nat /\ m \in Nat /\ (m - 1) + 1 = m
    BY <1>2
  <2>1. /\ WordsTo(f, m - 1) \in Nat /\ WordsTo(f, m) = WordsTo(f, m - 1) + PartsAt(f, m)
    <3>1. WordsTo(f, (m - 1) + 1) = WordsTo(f, m - 1) + PartsAt(f, (m - 1) + 1) /\ WordsTo(f, m - 1) \in Nat
      BY <2>0, WordsGrow
    <3> QED BY <2>0, <3>1
  <2>2. PartsAt(f, m) \in 0 .. 2 /\ q \in Nat /\ q <= PartsAt(f, m)
    <3>1. PartsAt(f, m) \in 0 .. 2
      BY <2>0, WordsGrow
    <3> QED BY <3>1
  <2>3. CASE WordsTo(f, m - 1) + q <= T
    <3>1. InPlace(blks, blk, WordsTo(f, m - 1) + q, <<m, q>>)
      BY <2>3 DEF Filling
    <3> QED BY <1>8, <3>1
  <2>4. CASE WordsTo(f, m - 1) + q > T
    <3>1. ~(m <= n)
      <4>1. m <= n => WordsTo(f, m) <= WordsTo(f, n)
        BY <1>2, <2>0, WordsOrdered
      <4> HIDE DEF T
      <4> QED BY <1>6, <1>7, <2>1, <2>2, <2>4, <4>1
    <3>2. ~(n + 1 <= m - 1)
      <4>1. n + 1 <= m - 1 => WordsTo(f, n + 1) <= WordsTo(f, m - 1)
        BY <1>2, <2>0, WordsOrdered
      <4> HIDE DEF T
      <4> QED BY <1>6, <1>7, <1>9, <2>1, <2>2, <4>1, SMTT(60)
    <3>3. m = n + 1
      BY <1>2, <2>0, <3>1, <3>2
    <3>4. q - p \in 1 .. k /\ p + (q - p) = q
      <4>1. WordsTo(f, n) + q > WordsTo(f, n) + p /\ WordsTo(f, n) + q <= WordsTo(f, n) + p + k
        BY <1>2, <1>9, <2>4, <3>3
      <4> QED BY <1>2, <1>6, <2>2, <4>1
    <3> DEFINE i == l + (q - p)
    <3>5. i \in l + 1 .. l + k /\ i \in 1 .. l + k /\ i - l = q - p
      BY <1>2, <1>4, <2>2, <3>4
    <3>6. y[i] = <<m, q>>
      <4>1. y[i] = r[q - p]
        BY <1>4, <3>5
      <4>2. r[q - p] = <<n + 1, p + (q - p)>>
        BY <1>3, <3>4
      <4> QED BY <3>3, <3>4, <4>1, <4>2
    <3>7. WordsTo(f, m - 1) + q = Lb + i
      <4>1. WordsTo(f, m - 1) = WordsTo(f, n)
        BY <1>2, <3>3
      <4>2. Lb + l = WordsTo(f, n) + p
        BY <1>1
      <4>3. Lb \in Nat /\ l \in Nat /\ WordsTo(f, n) \in Nat /\ p \in Nat /\ q \in Nat
        BY <1>2, <1>4, <1>5, <1>6, <2>2
      <4>4. ASSUME NEW w \in Nat, NEW c \in Nat, c + l = w + p
            PROVE  w + q = c + (l + (q - p))
        BY <4>3, <4>4
      <4>5. WordsTo(f, n) + q = Lb + (l + (q - p))
        BY <4>2, <4>3, <4>4
      <4> QED BY <4>1, <4>5
    <3> HIDE DEF i
    <3> QED BY <1>4, <3>5, <3>6, <3>7 DEF InPlace, Lb
  <2> QED BY <1>7, <2>1, <2>2, <2>3, <2>4
<1>10. Lb + Len(y) = WordsTo(f, n2) + p2
  <2>1. Lb + (l + k) = T + k
    BY <1>1, <1>4, <1>5
  <2> QED BY <1>4, <2>1
<1>11. \A m \in 1 .. Len(f.lines) : \A q \in 1 .. PartsAt(f, m) :
         WordsTo(f, m - 1) + q <= WordsTo(f, n2) + p2 => InPlace(blks, y, WordsTo(f, m - 1) + q, <<m, q>>)
  BY <1>9
<1>12. \A b \in DOMAIN blks : \A i \in 1 .. BlockWords :
         (b - 1) * BlockWords + i > WordsTo(f, Len(f.lines)) => blks[b][i] = <<0, 0>>
  BY DEF Filling
<1>13. Len(y) <= BlockWords
  BY <1>4 DEF l
<1>14. Filling(f, n2, p2, y, blks)
  BY <1>1, <1>4, <1>10, <1>11, <1>12, <1>13 DEF Filling, Lb
<1> QED BY <1>14 DEF y, r

\* An instruction of two words is never cut by the end of a block.
LEMMA LineFits ==
  ASSUME NEW f, FileOK(f), f.kind # "data", NEW n, NEW blk, NEW blks,
         Filling(f, n, 0, blk, blks), n # Len(f.lines), Len(blk) < BlockWords
  PROVE  Len(blk) + PartsAt(f, n + 1) <= BlockWords
<1>1. /\ n \in Nat /\ n + 1 <= Len(f.lines) /\ Len(f.lines) \in Nat
      /\ Len(blks) * BlockWords + Len(blk) = WordsTo(f, n)
      /\ Len(blk) \in Nat /\ Len(blks) \in Nat
  <2>1. n \in 0 .. Len(f.lines) /\ Len(f.lines) \in Nat
    BY DEF Filling, FileOK
  <2>2. blk \in Seq(Nat \X Nat) /\ blks \in Seq(Seq(Nat \X Nat))
    BY DEF Filling
  <2>3. Len(blks) * BlockWords + Len(blk) = WordsTo(f, n) + 0
    BY DEF Filling
  <2>4. WordsTo(f, n) \in Nat
    BY <2>1, WordsGrow
  <2> QED BY <2>1, <2>2, <2>3, <2>4
<1>2. PICK h : Header(f, h)
  BY DEF FileOK
<1>3. PartsAt(f, n + 1) \in 0 .. 2
  BY <1>1, WordsGrow
<1>4. CASE n < h
  <2>1. f.lines[n + 1] = "number"
    BY <1>1, <1>2, <1>4 DEF Header
  <2>2. PartsAt(f, n + 1) = 1
    BY <2>1 DEF PartsAt, Contents!Parts
  <2> QED BY <1>1, <2>2, BlockSize
<1>5. CASE ~(n < h)
  <2>1. n \in h .. Len(f.lines) /\ h \in {0, 2}
    BY <1>1, <1>2, <1>5 DEF Header
  <2>2. WordsTo(f, n) + 2 * BlankLines(f, n) + h = 2 * n
    BY <1>1, <1>2, <2>1, CodeWords
  <2>3. BlankLines(f, n) \in Nat /\ WordsTo(f, n) \in Nat
    BY <1>1, WordsGrow, BlanksGrow
  <2>4. PICK K \in Nat : BlockWords = 2 * K
    BY BlockAssumption
  <2>5. PICK M \in Nat : Len(blks) * BlockWords = 2 * M
    <3>1. Len(blks) * BlockWords = 2 * (Len(blks) * K) /\ Len(blks) * K \in Nat
      BY <1>1, <2>4
    <3> QED BY <3>1
  <2>6. PICK v \in Nat : BlankLines(f, n) = v
    BY <2>3
  <2>7. 2 * M + Len(blk) + 2 * v + h = 2 * n
    BY <1>1, <2>2, <2>3, <2>5, <2>6
  <2>8. PICK l \in Nat : Len(blk) = l
    BY <1>1
  <2>9. 2 * M + l + 2 * v + h = 2 * n /\ l < 2 * K
    BY <2>4, <2>7, <2>8
  <2>10. l + 2 <= 2 * K
    BY <1>1, <2>1, <2>9
  <2> QED BY <1>3, <2>4, <2>8, <2>10
<1> QED BY <1>4, <1>5, <1>1, <1>2 DEF Header

LEMMA Quotient ==
  ASSUME NEW a \in Nat, NEW d \in Nat, d > 0
  PROVE  /\ a \div d \in Nat /\ a % d \in 0 .. d - 1
         /\ a = d * (a \div d) + (a % d)
<1>1. a % d \in 0 .. d - 1
  OBVIOUS
<1>2. a = d * (a \div d) + (a % d)
  OBVIOUS
<1>3. a \div d \in Nat
  OBVIOUS
<1> QED BY <1>1, <1>2, <1>3

LEMMA Products ==
  ASSUME NEW a \in Nat, NEW b \in Nat, NEW d \in Nat, a <= b
  PROVE  a * d <= b * d /\ a * d \in Nat /\ b * d \in Nat
<1>1. (b - a) * d \in Nat
  OBVIOUS
<1>2. b * d = a * d + (b - a) * d
  OBVIOUS
<1> QED BY <1>1, <1>2

\* A file is given room for all of it, and at most one block too many; code is
\* given one more for each line that is blank.
LEMMA RoomForAll ==
  ASSUME NEW f, FileOK(f)
  PROVE  LET s == Contents!Size(f)
             r == Contents!BlocksRequired(f)
         IN  /\ s \in Nat /\ r \in Nat /\ s = WordsTo(f, Len(f.lines))
             /\ f.kind # "region" => s <= r * BlockWords
             /\ f.kind # "region" =>
                  r <= Contents!Ceiling(s, BlockWords) + 1 + Contents!Blanks(f)
             /\ f.kind = "data" /\ r > MaxBlocks => s > MaxBlocks * BlockWords
<1> DEFINE s == Contents!Size(f)
           r == Contents!BlocksRequired(f)
           c == Contents!Ceiling(s, BlockWords)
           v == Contents!Blanks(f)
           len == Len(f.lines)
<1>1. s = WordsTo(f, len) /\ s \in Nat /\ len \in Nat
  BY WordsGrow DEF Contents!Size, WordsTo, FileOK
<1>2. v = BlankLines(f, len) /\ v \in Nat
  <2>1. v = BlankLines(f, len)
    BY DEF Contents!Blanks, BlankLines, FileOK, Cardinality, Contents!Cardinality
  <2> QED BY <1>1, <2>1, BlanksGrow
<1>3. c \in Nat /\ s <= c * BlockWords
  <2>1. c = (s + BlockWords - 1) \div BlockWords
    BY DEF Contents!Ceiling
  <2>2. s + BlockWords - 1 \in Nat
    BY <1>1, BlockSize
  <2> HIDE DEF s, c
  <2> DEFINE a == s + BlockWords - 1
             m == a % BlockWords
  <2>3. c \in Nat /\ m \in 0 .. BlockWords - 1 /\ a = BlockWords * c + m
    <3> HIDE DEF a
    <3>1. a \in Nat /\ BlockWords \in Nat /\ BlockWords > 0 /\ c = a \div BlockWords
      BY <2>1, <2>2, BlockSize DEF a
    <3> QED BY <3>1, Quotient
  <2>4. BlockWords * c = c * BlockWords /\ c * BlockWords \in Nat
    BY <2>3, BlockSize
  <2> HIDE DEF m
  <2> QED BY <1>1, <2>3, <2>4, BlockSize
<1> HIDE DEF s, c, v
<1>4. CASE f.kind = "data"
  <2> DEFINE q == s \div BlockWords
             m == s % BlockWords
  <2>1. r = q + (IF m = 0 THEN 0 ELSE 1)
    BY <1>4 DEF Contents!BlocksRequired, Contents!DataFileSize, FileOK, s
  <2>2. q \in Nat /\ m \in 0 .. BlockWords - 1 /\ s = BlockWords * q + m
    <3>1. s \in Nat /\ BlockWords \in Nat /\ BlockWords > 0
      BY <1>1, BlockSize
    <3> QED BY <3>1, Quotient
  <2> HIDE DEF q, m, r
  <2>3. BlockWords * q = q * BlockWords /\ q * BlockWords \in Nat
        /\ (q + 1) * BlockWords = q * BlockWords + BlockWords
    BY <2>2, BlocksGrow, BlockSize
  <2>4. r \in Nat /\ s <= r * BlockWords
    BY <1>1, <2>1, <2>2, <2>3, BlockSize
  <2>5. r <= c
    <3>1. SUFFICES ASSUME c <= r - 1 PROVE FALSE
      BY <1>3, <2>4
    <3>2. r - 1 \in Nat /\ c * BlockWords <= (r - 1) * BlockWords
      BY <1>3, <2>4, <3>1, BlockSize, Products
    <3>3. CASE m = 0
      <4>1. q * BlockWords <= c * BlockWords /\ r = q
        BY <1>3, <2>1, <2>2, <2>3, <3>3
      <4>2. q >= 1 /\ (q - 1) * BlockWords = q * BlockWords - BlockWords
        <5>1. q - 1 \in Nat
          BY <3>2, <4>1
        <5>2. ((q - 1) + 1) * BlockWords = (q - 1) * BlockWords + BlockWords /\ (q - 1) * BlockWords \in Nat
          BY <5>1, BlocksGrow
        <5>3. (q - 1) + 1 = q
          BY <2>2
        <5> QED BY <5>1, <5>2, <5>3, BlockSize
      <4> QED BY <1>3, <2>3, <3>2, <4>1, <4>2, BlockSize
    <3>4. CASE m # 0
      <4>1. r - 1 = q
        BY <2>1, <2>2, <3>4
      <4>2. c * BlockWords <= q * BlockWords /\ s > q * BlockWords
        BY <2>2, <2>3, <3>2, <3>4, <4>1
      <4> DEFINE x == c * BlockWords
                 y == q * BlockWords
      <4>3. s <= x /\ x <= y /\ s > y /\ y \in Nat
        BY <1>3, <2>3, <4>2
      <4>4. x \in Nat
        BY <1>3, BlockSize
      <4> HIDE DEF x, y
      <4> QED BY <1>1, <4>3, <4>4
    <3> QED BY <3>3, <3>4
  <2>6. ASSUME r > MaxBlocks PROVE s > MaxBlocks * BlockWords
    <3>1. CASE m = 0
      <4>1. r = q /\ MaxBlocks + 1 <= q /\ s = q * BlockWords
        BY <2>1, <2>2, <2>3, <2>6, <3>1, MaxIsNat
      <4>2. (MaxBlocks + 1) * BlockWords <= q * BlockWords
        BY <2>2, <4>1, MaxIsNat, BlockSize, Products
      <4>3. (MaxBlocks + 1) * BlockWords = MaxBlocks * BlockWords + BlockWords /\ MaxBlocks * BlockWords \in Nat
        BY MaxIsNat, BlocksGrow
      <4> QED BY <2>3, <4>1, <4>2, <4>3, BlockSize
    <3>2. CASE m # 0
      <4>1. MaxBlocks <= q
        BY <2>1, <2>2, <2>6, <3>2, MaxIsNat
      <4>2. MaxBlocks * BlockWords <= q * BlockWords /\ MaxBlocks * BlockWords \in Nat
        BY <2>2, <4>1, MaxIsNat, BlockSize, Products
      <4>3. s > q * BlockWords
        BY <2>2, <2>3, <3>2
      <4> QED BY <1>1, <2>3, <4>2, <4>3
    <3> QED BY <3>1, <3>2
  <2>7. r <= c + 1 + v
    BY <1>2, <1>3, <2>4, <2>5
  <2> QED BY <1>1, <1>4, <2>4, <2>6, <2>7 DEF s, r, c, v
<1>5. CASE f.kind = "exec"
  <2>1. PICK K \in Nat : BlockWords = 2 * K /\ K >= 3
    BY BlockAssumption
  <2>2. BlockWords \div 2 = K
    BY <2>1
  <2> DEFINE q == (len + 1) \div K
             m == (len + 1) % K
  <2>3. r = q + 1
    BY <1>5, <2>2 DEF Contents!BlocksRequired, Contents!NumOfLines, FileOK
  <2>4. q \in Nat /\ m \in 0 .. K - 1 /\ len + 1 = K * q + m
    <3>1. len + 1 \in Nat /\ K > 0
      BY <1>1, <2>1
    <3> QED BY <2>1, <3>1, Quotient
  <2> HIDE DEF q, m, r
  <2>5. PICK h \in {0, 2} : s + 2 * v + h = 2 * len
    <3>1. PICK h : Header(f, h)
      BY <1>5 DEF FileOK
    <3>2. h \in {0, 2} /\ len \in h .. len
      BY <1>1, <3>1 DEF Header
    <3>3. WordsTo(f, len) + 2 * BlankLines(f, len) + h = 2 * len
      BY <1>1, <3>1, <3>2, CodeWords
    <3> QED BY <1>1, <1>2, <3>2, <3>3
  <2>6. r \in Nat /\ s <= r * BlockWords
    <3>1. r * BlockWords = 2 * (K * q) + 2 * K
      BY <2>1, <2>3, <2>4
    <3>2. K * q \in Nat /\ len + 1 < K * q + K
      BY <2>1, <2>4
    <3> DEFINE t == K * q
    <3> HIDE DEF t
    <3>3. t \in Nat /\ len + 1 < t + K /\ r * BlockWords = 2 * t + 2 * K
      BY <3>1, <3>2 DEF t
    <3> HIDE DEF len
    <3> QED BY <1>1, <1>2, <2>1, <2>3, <2>4, <2>5, <3>3
  <2>7. q <= c + v
    <3>1. SUFFICES ASSUME c + v + 1 <= q PROVE FALSE
      BY <1>2, <1>3, <2>4
    <3>2. (c + v + 1) * K <= q * K
      <4>1. c + v + 1 \in Nat /\ q \in Nat /\ K \in Nat
        BY <1>2, <1>3, <2>1, <2>4
      <4> QED BY <3>1, <4>1, Products
    <3>3. (c + v + 1) * K = c * K + v * K + K
      BY <1>2, <1>3, <2>1
    <3>4. v <= v * K /\ v * K \in Nat /\ c * K \in Nat
      BY <1>2, <1>3, <2>1
    <3>5. q * K = K * q /\ q * K \in Nat /\ c * BlockWords = 2 * (c * K)
      BY <1>3, <2>1, <2>4
    <3> DEFINE x == c * K
               y == v * K
               z == q * K
    <3>6. x \in Nat /\ y \in Nat /\ z \in Nat /\ v <= y /\ x + y + K <= z /\ s <= 2 * x
      BY <1>3, <3>2, <3>3, <3>4, <3>5
    <3>7. z <= len + 1
      BY <2>4, <3>5
    <3> HIDE DEF x, y, z, len
    <3>8. 2 * len <= 2 * x + 2 * y + 2
      BY <1>1, <1>2, <2>5, <3>6
    <3> QED BY <1>1, <2>1, <3>6, <3>7, <3>8
  <2>8. r <= c + 1 + v
    BY <1>2, <1>3, <2>3, <2>4, <2>7
  <2> QED BY <1>1, <1>5, <2>6, <2>8 DEF s, r, c, v
<1>6. CASE f.kind = "region"
  <2>1. r = RegionBlocks
    BY <1>6 DEF Contents!BlocksRequired
  <2> QED BY <1>1, <1>6, <2>1, BlockAssumption DEF s
<1> QED BY <1>4, <1>5, <1>6 DEF FileOK

\* The invariant of a load: what was read is in the blocks, and the blocks that
\* were allocated are neither too few nor written twice.
LoadInv ==
  /\ FileOK(file)
  /\ stage \in {"size", "write", "done", "refused", "cleared", "shown"}
  /\ stage = "size" => pos = 0 /\ part = 0 /\ block = <<>> /\ blocks = <<>>
  /\ stage # "size" => need = Contents!BlocksRequired(file)
  /\ stage = "refused" => need > Contents!Limit(file)
  /\ stage \in {"write", "done"} => Filling(file, pos, part, block, blocks)
  /\ stage = "write" => Len(blocks) < need
  /\ stage = "done" => /\ block = <<>>
                       /\ WordsTo(file, Len(file.lines)) <= WordsTo(file, pos) + part
                       /\ file.kind # "region" => Len(blocks) = need

LEMMA LoadStarts ==
  ASSUME NEW f, FileOK(f), Contents!Starts(f)
  PROVE  LoadInv
BY DEF LoadInv, Contents!Starts

LEMMA LoadInit ==
  ASSUME Terminations = {TRUE}, Contents!Init
  PROVE  LoadInv
<1>1. PICK f \in Contents!Files : Contents!Starts(f)
  BY DEF Contents!Init
<1> QED BY <1>1, InitFiles, LoadStarts

\* A block is written, and all of it was read or none is left.
LEMMA FlushStep ==
  ASSUME LoadInv, stage = "write", NEW met \in BOOLEAN, Contents!Flush(met),
         Len(block) = BlockWords \/ pos = Len(file.lines),
         met => pos = Len(file.lines),
         file' = file, pos' = pos, part' = part, need' = need
  PROVE  LoadInv'
<1> DEFINE L == Len(blocks)
<1>1. /\ FileOK(file) /\ Filling(file, pos, part, block, blocks) /\ L < need
      /\ need = Contents!BlocksRequired(file)
  BY DEF LoadInv
<1>2. blocks' = Append(blocks, Contents!Padded(block)) /\ block' = <<>>
  BY DEF Contents!Flush
<1>3. Filling(file, pos, part, block', blocks')
  BY <1>1, <1>2, FlushKeeps
<1>4. Len(blocks') = L + 1 /\ L \in Nat
  <2>1. block \in Seq(Nat \X Nat) /\ Len(block) <= BlockWords /\ blocks \in Seq(Seq(Nat \X Nat))
    BY <1>1 DEF Filling
  <2>2. Contents!Padded(block) \in Seq(Nat \X Nat)
    BY <2>1, PaddedIs
  <2> QED BY <1>2, <2>1, <2>2, AppendIs
<1>5. /\ need \in Nat /\ WordsTo(file, Len(file.lines)) \in Nat
      /\ file.kind # "region" => WordsTo(file, Len(file.lines)) <= need * BlockWords
  BY <1>1, RoomForAll
<1>6. /\ stage' \in {"write", "done", "cleared"}
      /\ stage' = "write" => L + 1 # need \/ file.kind = "region"
      /\ stage' = "write" /\ file.kind = "region" => L + 1 # need
      /\ stage' = "done" => IF file.kind = "region" THEN met ELSE L + 1 = need
  BY DEF Contents!Flush
<1>7. ASSUME stage' = "done"
      PROVE  /\ WordsTo(file, Len(file.lines)) <= WordsTo(file, pos) + part
             /\ file.kind # "region" => Len(blocks') = need
  <2>1. CASE file.kind = "region"
    <3>1. pos = Len(file.lines)
      BY <1>6, <1>7, <2>1
    <3>2. part = 0
      BY <1>1, <3>1 DEF Filling, FileOK
    <3> QED BY <1>5, <2>1, <3>1, <3>2
  <2>2. CASE file.kind # "region"
    <3>1. Len(blocks') = need
      BY <1>4, <1>6, <1>7, <2>2
    <3>2. \/ Len(blocks') * BlockWords + Len(block') = WordsTo(file, pos) + part
          \/ pos = Len(file.lines)
      BY <1>3 DEF Filling
    <3>3. CASE pos = Len(file.lines)
      <4>1. part = 0
        BY <1>1, <3>3 DEF Filling, FileOK
      <4> QED BY <1>5, <3>1, <3>3, <4>1
    <3>4. CASE Len(blocks') * BlockWords + Len(block') = WordsTo(file, pos) + part
      <4>1. Len(block') = 0
        BY <1>2
      <4>2. need * BlockWords \in Nat
        BY <1>5, BlocksGrow
      <4>3. need * BlockWords = WordsTo(file, pos) + part
        BY <3>1, <3>4, <4>1, <4>2
      <4> QED BY <1>5, <2>2, <3>1, <4>3
    <3> QED BY <3>2, <3>3, <3>4
  <2> QED BY <2>1, <2>2
<1>8. ASSUME stage' = "write" PROVE Len(blocks') < need
  BY <1>1, <1>4, <1>5, <1>6, <1>8
<1>9. Filling(file, pos, part, block, blocks)'
  BY <1>3 DEF Filling, InPlace, WordsTo, PartsAt
<1>10. FileOK(file)' /\ (need = Contents!BlocksRequired(file))'
  BY <1>1 DEF FileOK, Header
<1>11. (WordsTo(file, Len(file.lines)) <= WordsTo(file, pos) + part)' <=> WordsTo(file, Len(file.lines)) <= WordsTo(file, pos) + part
  BY DEF WordsTo
<1> HIDE DEF L
<1> QED BY <1>2, <1>6, <1>7, <1>8, <1>9, <1>10, <1>11 DEF LoadInv

LEMMA LoadStep ==
  ASSUME LoadInv, Contents!Next
  PROVE  LoadInv'
<1>1. ASSUME Contents!Export PROVE LoadInv'
  BY <1>1 DEF LoadInv, Contents!Export, FileOK, Header
<1>2. ASSUME Contents!Measure PROVE LoadInv'
  <2>1. /\ stage = "size" /\ need' = Contents!BlocksRequired(file)
        /\ stage' = IF Contents!BlocksRequired(file) > Contents!Limit(file) THEN "refused"
                    ELSE IF Contents!BlocksRequired(file) = 0 THEN "done" ELSE "write"
        /\ file' = file /\ pos' = pos /\ part' = part /\ block' = block /\ blocks' = blocks
    BY <1>2 DEF Contents!Measure
  <2>2. FileOK(file) /\ pos = 0 /\ part = 0 /\ block = <<>> /\ blocks = <<>>
    BY <2>1 DEF LoadInv
  <2>3. Filling(file, pos, part, block, blocks)
    BY <2>2, FillingStarts
  <2> DEFINE r == Contents!BlocksRequired(file)
             s == WordsTo(file, Len(file.lines))
  <2>4. r \in Nat /\ s \in Nat /\ (file.kind # "region" => s <= r * BlockWords)
    BY <2>2, RoomForAll
  <2>5. WordsTo(file, 0) = 0 /\ Len(blocks) = 0
    BY <2>2, WordsGrow
  <2>6. ASSUME r = 0 PROVE file.kind # "region" /\ s <= WordsTo(file, pos) + part
    <3>1. file.kind # "region"
      BY <2>6, BlockAssumption DEF Contents!BlocksRequired
    <3>2. r * BlockWords = 0
      BY <2>6, BlockSize
    <3> QED BY <2>2, <2>4, <2>5, <3>1, <3>2
  <2>7. FileOK(file') /\ Filling(file', pos', part', block', blocks')
    BY <2>1, <2>2, <2>3
  <2> HIDE DEF r, s
  <2>8. CASE r > Contents!Limit(file)
    <3>1. stage' = "refused" /\ need' = r
      BY <2>1, <2>8 DEF r
    <3> QED BY <2>1, <2>2, <2>8, <3>1 DEF LoadInv, r, FileOK, Header
  <2>9. CASE ~(r > Contents!Limit(file)) /\ r = 0
    <3>1. stage' = "done" /\ need' = r
      BY <2>1, <2>9 DEF r
    <3> QED BY <2>1, <2>2, <2>5, <2>6, <2>7, <2>9, <3>1
            DEF LoadInv, r, s, FileOK, Header, Filling, InPlace, WordsTo, PartsAt
  <2>10. CASE ~(r > Contents!Limit(file)) /\ r # 0
    <3>1. stage' = "write" /\ need' = r
      BY <2>1, <2>10 DEF r
    <3>2. Len(blocks) < r
      BY <2>4, <2>5, <2>10
    <3> QED BY <2>1, <2>2, <2>7, <3>1, <3>2
            DEF LoadInv, r, FileOK, Header, Filling, InPlace, WordsTo, PartsAt
  <2> QED BY <2>8, <2>9, <2>10
<1>3. ASSUME Contents!ReadPiece PROVE LoadInv'
  <2> DEFINE k == IF file.kind = "data" THEN 1 ELSE PartsAt(file, pos + 1)
  <2>1. /\ stage = "write" /\ Len(block) < BlockWords /\ pos # Len(file.lines)
        /\ block' = block \o Contents!Read
        /\ IF Contents!EndsLine THEN pos' = pos + 1 /\ part' = 0 ELSE pos' = pos /\ part' = part + 1
        /\ file' = file /\ stage' = stage /\ blocks' = blocks /\ need' = need
    BY <1>3 DEF Contents!ReadPiece, Contents!MeetsEnd
  <2>2. /\ FileOK(file) /\ Filling(file, pos, part, block, blocks) /\ Len(blocks) < need
        /\ need = Contents!BlocksRequired(file)
    BY <2>1 DEF LoadInv
  <2>3. /\ pos \in 0 .. Len(file.lines) /\ Len(file.lines) \in Nat
        /\ \/ part = 0
           \/ file.kind = "data" /\ pos < Len(file.lines) /\ part \in 1 .. PartsAt(file, pos + 1) - 1
        /\ Len(block) \in Nat
    BY <2>2 DEF Filling, FileOK
  <2>4. /\ pos \in Nat /\ pos + 1 \in 0 .. Len(file.lines) /\ pos < Len(file.lines)
        /\ part \in Nat
    BY <2>1, <2>3
  <2>5. /\ PartsAt(file, pos + 1) \in 0 .. 2 /\ WordsTo(file, pos) \in Nat
        /\ WordsTo(file, pos + 1) = WordsTo(file, pos) + PartsAt(file, pos + 1)
    BY <2>4, WordsGrow
  <2>6. PartsAt(file, pos + 1) = Contents!Parts(Contents!Current)
    BY DEF PartsAt, Contents!Current
  <2>7. CASE file.kind = "data"
    <3>1. PartsAt(file, pos + 1) \in 1 .. 2
      <4>1. pos + 1 \in 1 .. Len(file.lines)
        BY <2>4
      <4>2. file.lines[pos + 1] \in {"word", "long"}
        BY <2>2, <2>7, <4>1 DEF FileOK
      <4> QED BY <4>2 DEF PartsAt, Contents!Parts
    <3>2. part + 1 <= PartsAt(file, pos + 1)
      BY <2>3, <2>5, <3>1
    <3>3. Contents!Read = [i \in 1 .. 1 |-> <<pos + 1, part + i>>]
      <4>1. Contents!Read = <<<<pos + 1, part + 1>>>>
        BY <2>7 DEF Contents!Read
      <4>2. <<<<pos + 1, part + 1>>>> = [i \in 1 .. 1 |-> <<pos + 1, part + i>>]
        <5> DEFINE a == <<<<pos + 1, part + 1>>>>
                   b == [i \in 1 .. 1 |-> <<pos + 1, part + i>>]
        <5>1. a \in Seq(Nat \X Nat) /\ b \in Seq(Nat \X Nat) /\ Len(a) = 1 /\ Len(b) = 1
          BY <2>4
        <5>2. a[1] = b[1]
          OBVIOUS
        <5>3. \A i \in 1 .. 1 : a[i] = b[i]
          BY <5>2
        <5> QED BY <5>1, <5>3, SeqEqual
      <4> QED BY <4>1, <4>2
    <3>4. Contents!EndsLine <=> part + 1 = PartsAt(file, pos + 1)
      BY <2>6, <2>7 DEF Contents!EndsLine
    <3>5. Len(block) + 1 <= BlockWords
      BY <2>1, <2>3, BlockSize
    <3>6. Filling(file, pos', part', block', blocks')
      <4>1. CASE part + 1 = PartsAt(file, pos + 1)
        <5>1. pos' = pos + 1 /\ part' = 0
          BY <2>1, <3>4, <4>1
        <5>2. WordsTo(file, pos + 1) + 0 = WordsTo(file, pos) + part + 1
          BY <2>4, <2>5, <4>1
        <5>3. Filling(file, pos + 1, 0, block \o [i \in 1 .. 1 |-> <<pos + 1, part + i>>], blocks)
          BY <2>1, <2>2, <2>4, <3>2, <3>5, <5>2, ReadKeeps
        <5> QED BY <2>1, <3>3, <5>1, <5>3
      <4>2. CASE part + 1 # PartsAt(file, pos + 1)
        <5>1. pos' = pos /\ part' = part + 1
          BY <2>1, <3>4, <4>2
        <5>2. WordsTo(file, pos) + (part + 1) = WordsTo(file, pos) + part + 1
          BY <2>4, <2>5
        <5>3. part + 1 \in 1 .. PartsAt(file, pos + 1) - 1
          BY <2>4, <2>5, <3>2, <4>2
        <5>4. Filling(file, pos, part + 1, block \o [i \in 1 .. 1 |-> <<pos + 1, part + i>>], blocks)
          BY <2>1, <2>2, <2>3, <2>4, <2>7, <3>2, <3>5, <5>2, <5>3, ReadKeeps
        <5> QED BY <2>1, <3>3, <5>1, <5>4
      <4> QED BY <4>1, <4>2
    <3>7. Filling(file, pos, part, block, blocks)'
      BY <2>1, <3>6, ZenonT(60) DEF Filling, InPlace, WordsTo, PartsAt
    <3>8. FileOK(file)' /\ (need = Contents!BlocksRequired(file))'
      BY <2>1, <2>2 DEF FileOK, Header
    <3> QED BY <2>1, <2>2, <3>7, <3>8 DEF LoadInv
  <2>8. CASE file.kind # "data"
    <3>1. part = 0 /\ pos' = pos + 1 /\ part' = 0
      BY <2>1, <2>3, <2>8 DEF Contents!EndsLine
    <3>2. Contents!Read = [i \in 1 .. PartsAt(file, pos + 1) |-> <<pos + 1, part + i>>]
      <4>1. Contents!Read = [i \in 1 .. PartsAt(file, pos + 1) |-> <<pos + 1, i>>]
        BY <2>6, <2>8 DEF Contents!Read
      <4>2. \A i \in 1 .. PartsAt(file, pos + 1) : part + i = i
        BY <2>5, <3>1
      <4> QED BY <4>1, <4>2
    <3>3. Len(block) + PartsAt(file, pos + 1) <= BlockWords
      BY <2>1, <2>2, <2>8, <3>1, LineFits
    <3>4. WordsTo(file, pos + 1) + 0 = WordsTo(file, pos) + part + PartsAt(file, pos + 1)
          /\ part + PartsAt(file, pos + 1) <= PartsAt(file, pos + 1)
      BY <2>5, <3>1
    <3>5. Filling(file, pos + 1, 0, block \o [i \in 1 .. PartsAt(file, pos + 1) |-> <<pos + 1, part + i>>], blocks)
      BY <2>1, <2>2, <2>4, <2>5, <3>3, <3>4, ReadKeeps
    <3>6. Filling(file, pos', part', block', blocks')
      BY <2>1, <3>1, <3>2, <3>5
    <3>7. Filling(file, pos, part, block, blocks)'
      BY <2>1, <3>6, ZenonT(60) DEF Filling, InPlace, WordsTo, PartsAt
    <3>8. FileOK(file)' /\ (need = Contents!BlocksRequired(file))'
      BY <2>1, <2>2 DEF FileOK, Header
    <3> QED BY <2>1, <2>2, <3>7, <3>8 DEF LoadInv
  <2> QED BY <2>7, <2>8
<1>4. ASSUME Contents!ReadEnd PROVE LoadInv'
  <2>1. /\ stage = "write" /\ Contents!MeetsEnd /\ Contents!Flush(TRUE)
        /\ pos' = Len(file.lines) /\ part' = 0 /\ file' = file /\ need' = need
    BY <1>4 DEF Contents!ReadEnd
  <2>2. FileOK(file) /\ Filling(file, pos, part, block, blocks)
    BY <2>1 DEF LoadInv
  <2>3. pos = Len(file.lines)
    BY <2>1, <2>2 DEF Contents!MeetsEnd, FileOK
  <2>4. part = 0
    BY <2>2, <2>3 DEF Filling, FileOK
  <2> QED BY <2>1, <2>3, <2>4, FlushStep
<1>5. ASSUME Contents!BlockFull PROVE LoadInv'
  <2>1. /\ stage = "write" /\ Len(block) = BlockWords /\ Contents!Flush(FALSE)
        /\ pos' = pos /\ part' = part /\ file' = file /\ need' = need
    BY <1>5 DEF Contents!BlockFull
  <2> QED BY <2>1, FlushStep
<1> QED BY <1>1, <1>2, <1>3, <1>4, <1>5 DEF Contents!Next

\* What the invariant says of a load that is over.
LEMMA LoadIsWhole ==
  ASSUME LoadInv
  PROVE  Contents!LoadedWhole /\ Contents!BlocksAllWritten /\ Contents!DataFitsIsLoaded
<1>1. FileOK(file)
  BY DEF LoadInv
<1> DEFINE len == Len(file.lines)
<1>2. /\ Contents!Size(file) = WordsTo(file, len) /\ WordsTo(file, len) \in Nat
      /\ len \in Nat /\ DOMAIN file.lines = 1 .. len
  BY <1>1, RoomForAll DEF FileOK
<1>3. ASSUME stage = "done" PROVE Contents!LoadedWhole
  <2>1. /\ Filling(file, pos, part, <<>>, blocks)
        /\ WordsTo(file, len) <= WordsTo(file, pos) + part
    BY <1>3 DEF LoadInv
  <2>2. WordsTo(file, pos) + part \in Nat
    <3>1. pos \in 0 .. len /\ (part = 0 \/ (pos < len /\ part \in 1 .. PartsAt(file, pos + 1) - 1))
      BY <2>1 DEF Filling
    <3> QED BY <1>1, <3>1, WordsLeft
  <2>3. ASSUME NEW n \in DOMAIN file.lines, NEW p \in 1 .. Contents!Parts(file.lines[n])
        PROVE  Contents!StoredAt(Contents!WordsOf(file, n - 1) + p, <<n, p>>)
    <3>1. n \in 1 .. len /\ n - 1 \in Nat /\ n \in Nat /\ (n - 1) + 1 = n /\ n <= len
      BY <1>2
    <3>2. p \in 1 .. PartsAt(file, n)
      BY DEF PartsAt
    <3>3. WordsTo(file, n) = WordsTo(file, n - 1) + PartsAt(file, n) /\ WordsTo(file, n - 1) \in Nat /\ PartsAt(file, n) \in 0 .. 2
      BY <3>1, WordsGrow
    <3>4. WordsTo(file, n) <= WordsTo(file, len)
      BY <1>2, <3>1, WordsOrdered
    <3>5. WordsTo(file, n - 1) + p <= WordsTo(file, pos) + part
      <4>1. WordsTo(file, n) \in Nat
        BY <3>1, WordsGrow
      <4> QED BY <1>2, <2>1, <2>2, <3>2, <3>3, <3>4, <4>1
    <3>6. InPlace(blocks, <<>>, WordsTo(file, n - 1) + p, <<n, p>>)
      BY <2>1, <3>1, <3>2, <3>5 DEF Filling
    <3> QED BY <3>6 DEF InPlace, Contents!StoredAt, WordsTo
  <2>4. ASSUME NEW b \in DOMAIN blocks
        PROVE  /\ Len(blocks[b]) = BlockWords
               /\ \A i \in 1 .. BlockWords :
                    (b - 1) * BlockWords + i > Contents!Size(file) => blocks[b][i] = <<0, 0>>
    BY <1>2, <2>1 DEF Filling
  <2> QED BY <2>3, <2>4 DEF Contents!LoadedWhole, Contents!Empty
<1>4. ASSUME stage # "done" PROVE Contents!LoadedWhole
  BY <1>4 DEF Contents!LoadedWhole
<1>5. Contents!BlocksAllWritten
  <2>1. SUFFICES ASSUME stage = "done", file.kind # "region"
                 PROVE  /\ Len(blocks) = need
                        /\ need <= Contents!Ceiling(Contents!Size(file), BlockWords) + 1
                                   + Contents!Blanks(file)
    BY DEF Contents!BlocksAllWritten
  <2>2. need = Contents!BlocksRequired(file) /\ Len(blocks) = need
    BY <2>1 DEF LoadInv
  <2> QED BY <1>1, <2>1, <2>2, RoomForAll
<1>6. Contents!DataFitsIsLoaded
  <2>1. SUFFICES ASSUME stage = "refused", file.kind = "data"
                 PROVE  Contents!Size(file) > Contents!Room(file)
    BY DEF Contents!DataFitsIsLoaded
  <2>2. Contents!BlocksRequired(file) > MaxBlocks
    BY <2>1 DEF LoadInv, Contents!Limit
  <2>3. Contents!Room(file) = MaxBlocks * BlockWords
    BY <2>1 DEF Contents!Room, Contents!Limit
  <2> QED BY <1>1, <2>1, <2>2, <2>3, RoomForAll
<1> QED BY <1>3, <1>4, <1>5, <1>6

-----------------------------------------------------------------------------
(* The blocks and the pages of system code. *)

\* The page and the block of each load after the machine is started.
LoadAt(l) ==
  IF l <= 2 THEN <<l, l - 1>>
  ELSE IF l <= 4 THEN <<l + 51, l + 64>>
  ELSE IF l <= 6 THEN <<l + 64, l + 6>>
  ELSE IF l = 7 THEN <<61, 2>>
  ELSE IF l <= 9 THEN <<l + 51, l - 5>>
  ELSE IF l = 10 THEN <<62, 5>>
  ELSE IF l <= 12 THEN <<l + 52, l + 2>>
  ELSE IF l <= 36 THEN <<l - 11, l + 2>>
  ELSE IF l <= 42 THEN <<l - 9, l + 4>>
  ELSE IF l <= 54 THEN <<l - 3, l + 10>>
  ELSE <<l + 10, l - 48>>

LEMMA Loads ==
  /\ Len(Layout!Startup) = 56 /\ DOMAIN Layout!Startup = 1 .. 56
  /\ \A l \in 1 .. 56 : Layout!Startup[l] = LoadAt(l)
<1> DEFINE R == Layout!Rom
           S == Layout!StartUp
           B == Layout!BootModule
           T == R \o S
<1>1. R \in Seq(Int \X Int) /\ Len(R) = 2 /\ \A l \in 1 .. 2 : R[l] = LoadAt(l)
  BY DEF Layout!Rom, LoadAt
<1>2. S \in Seq(Int \X Int) /\ Len(S) = 4 /\ \A l \in 1 .. 4 : S[l] = LoadAt(l + 2)
  BY DEF Layout!StartUp, LoadAt
<1>3. B \in Seq(Int \X Int) /\ Len(B) = 50
  BY DEF Layout!BootModule
<1>4. \A l \in 1 .. 50 : B[l] = LoadAt(l + 6)
  <2>1. /\ B[1] = <<61, 2>> /\ B[2] = <<59, 3>> /\ B[3] = <<60, 4>> /\ B[4] = <<62, 5>>
        /\ \A l \in 5 .. 6 : B[l] = <<l + 58, l + 8>>
    BY DEF Layout!BootModule
  <2>2. \A l \in 7 .. 18 : B[l] = <<l - 5, l + 8>>
    BY DEF Layout!BootModule
  <2>3. \A l \in 19 .. 30 : B[l] = <<l - 5, l + 8>>
    BY DEF Layout!BootModule
  <2>4. \A l \in 31 .. 36 : B[l] = <<l - 3, l + 10>>
    BY DEF Layout!BootModule
  <2>5. \A l \in 37 .. 48 : B[l] = <<l + 3, l + 16>>
    BY DEF Layout!BootModule
  <2>6. \A l \in 49 .. 50 : B[l] = <<l + 16, l - 42>>
    BY DEF Layout!BootModule
  <2> HIDE DEF B
  <2>7. \A l \in 1 .. 6 : B[l] = LoadAt(l + 6)
    <3>1. LoadAt(7) = <<61, 2>> /\ LoadAt(8) = <<59, 3>> /\ LoadAt(9) = <<60, 4>> /\ LoadAt(10) = <<62, 5>>
      BY DEF LoadAt
    <3>2. LoadAt(11) = <<63, 13>> /\ LoadAt(12) = <<64, 14>>
      BY DEF LoadAt
    <3>3. B[5] = <<63, 13>> /\ B[6] = <<64, 14>>
      BY <2>1
    <3> QED BY <2>1, <3>1, <3>2, <3>3
  <2>8. \A l \in 7 .. 30 : LoadAt(l + 6) = <<l - 5, l + 8>>
    BY DEF LoadAt
  <2>9. \A l \in 31 .. 36 : LoadAt(l + 6) = <<l - 3, l + 10>>
    BY DEF LoadAt
  <2>10. \A l \in 37 .. 48 : LoadAt(l + 6) = <<l + 3, l + 16>>
    BY DEF LoadAt
  <2>11. \A l \in 49 .. 50 : LoadAt(l + 6) = <<l + 16, l - 42>>
    BY DEF LoadAt
  <2>12. ASSUME NEW l \in 7 .. 18 PROVE B[l] = LoadAt(l + 6)
    <3>1. l \in 7 .. 30
      OBVIOUS
    <3> QED BY <2>2, <2>8, <3>1
  <2>13. ASSUME NEW l \in 19 .. 30 PROVE B[l] = LoadAt(l + 6)
    <3>1. l \in 7 .. 30
      OBVIOUS
    <3> QED BY <2>3, <2>8, <3>1
  <2>14. \A l \in 31 .. 36 : B[l] = LoadAt(l + 6)
    BY <2>4, <2>9
  <2>15. \A l \in 37 .. 48 : B[l] = LoadAt(l + 6)
    BY <2>5, <2>10
  <2>16. \A l \in 49 .. 50 : B[l] = LoadAt(l + 6)
    BY <2>6, <2>11
  <2> QED BY <2>7, <2>12, <2>13, <2>14, <2>15, <2>16
<1>5. Layout!Startup = T \o B
  BY DEF Layout!Startup
<1> HIDE DEF R, S, B
<1>6. /\ T \in Seq(Int \X Int) /\ Len(T) = Len(R) + Len(S)
      /\ \A i \in 1 .. Len(R) + Len(S) : T[i] = IF i <= Len(R) THEN R[i] ELSE S[i - Len(R)]
  <2>1. R \in Seq(Int \X Int) /\ S \in Seq(Int \X Int)
    BY <1>1, <1>2
  <2> QED BY <2>1, ConcatProperties
<1> HIDE DEF T
<1>7. Len(T) = 6 /\ \A l \in 1 .. 6 : T[l] = LoadAt(l)
  BY <1>1, <1>2, <1>6
<1> DEFINE U == T \o B
<1>8. U \in Seq(Int \X Int) /\ Len(U) = Len(T) + Len(B)
  <2>1. T \in Seq(Int \X Int) /\ B \in Seq(Int \X Int)
    BY <1>3, <1>6
  <2> QED BY <2>1, ConcatProperties
<1>9. \A i \in 1 .. Len(T) + Len(B) : U[i] = IF i <= Len(T) THEN T[i] ELSE B[i - Len(T)]
  <2>1. T \in Seq(Int \X Int) /\ B \in Seq(Int \X Int)
    BY <1>3, <1>6
  <2> QED BY <2>1, ConcatProperties
<1> HIDE DEF U
<1>10. Len(T) = 6 /\ Len(B) = 50
  BY <1>3, <1>7
<1>11. \A i \in 1 .. 6 : U[i] = T[i]
  BY <1>9, <1>10
<1>12. \A i \in 7 .. 56 : U[i] = B[i - 6]
  BY <1>9, <1>10
<1>13. ASSUME NEW l \in 1 .. 56 PROVE U[l] = LoadAt(l)
  <2>1. CASE l \in 1 .. 6
    BY <1>7, <1>11, <2>1
  <2>2. CASE l \in 7 .. 56
    <3>1. PICK k \in 1 .. 50 : k = l - 6 /\ l = k + 6
      BY <2>2
    <3>2. U[l] = B[k]
      BY <1>12, <2>2, <3>1
    <3> QED BY <1>4, <3>1, <3>2
  <2> QED BY <2>1, <2>2
<1>14. Len(U) = 56 /\ DOMAIN U = 1 .. 56
  <2>1. Len(U) = 56
    BY <1>8, <1>10
  <2>2. DOMAIN U = 1 .. Len(U)
    BY <1>8, LenProperties
  <2> QED BY <2>1, <2>2
<1> QED BY <1>5, <1>13, <1>14 DEF U

\* The parts of the system, and where each is.
Single == {"os", "init", "shell", "idle", "library", "exhandler", "timer", "disk", "console"}

LEMMA AcceptedIs ==
  ASSUME NEW c \in Layout!Commands, Layout!Accepted(c)
  PROVE  \/ \E k \in Single : c = <<k, 0>>
         \/ \E n \in 4 .. 18 : c = <<"int", n>>
         \/ \E n \in 0 .. 11 : c = <<"module", n>>
<1>1. DOMAIN Layout!Block \ Layout!Numbered = Single
  BY DEF Layout!Block, Layout!Numbered, Single
<1>2. CASE c \in {<<k, 0>> : k \in DOMAIN Layout!Block \ Layout!Numbered}
  BY <1>1, <1>2
<1>3. CASE c \in {<<"int", n>> : n \in 3 .. Layout!NO_OF_INTERRUPTS + 1}
  <2>1. PICK n \in Int : c = <<"int", n>>
    BY <1>3 DEF Layout!NO_OF_INTERRUPTS
  <2>2. n \in 4 .. 18
    BY <2>1 DEF Layout!Accepted, Layout!NO_OF_INTERRUPTS
  <2> QED BY <2>1, <2>2
<1>4. CASE c \in {<<"module", n>> : n \in ModuleNumbers}
  <2>1. PICK n \in ModuleNumbers : c = <<"module", n>>
    BY <1>4
  <2>2. n \in 0 .. 11
    BY <2>1 DEF Layout!Accepted, Layout!NO_OF_MODULES
  <2> QED BY <2>1, <2>2
<1> QED BY <1>2, <1>3, <1>4 DEF Layout!Commands

\* The first block, the number of blocks, the page the labels are resolved for
\* and the page that is entered.
PlacedAt(c, b, n, r, e) == /\ Layout!FirstBlock(c) = b /\ Layout!Size[c[1]] = n
                           /\ Layout!ResolvedFor(c) = r /\ Layout!EntryPage(c) = e

LEMMA Places ==
  /\ PlacedAt(<<"os", 0>>, 0, 1, 1, 1)
  /\ PlacedAt(<<"init", 0>>, 7, 2, -1, 65)
  /\ PlacedAt(<<"shell", 0>>, 9, 2, -1, -1)
  /\ PlacedAt(<<"idle", 0>>, 11, 2, -1, 69)
  /\ PlacedAt(<<"library", 0>>, 13, 2, -1, 63)
  /\ PlacedAt(<<"exhandler", 0>>, 15, 2, 2, 2)
  /\ PlacedAt(<<"timer", 0>>, 17, 2, 4, 4)
  /\ PlacedAt(<<"disk", 0>>, 19, 2, 6, 6)
  /\ PlacedAt(<<"console", 0>>, 21, 2, 8, 8)
  /\ \A n \in 4 .. 18 : PlacedAt(<<"int", n>>, 15 + 2 * n, 2, 2 * n + 2, 2 * n + 2)
  /\ \A n \in 0 .. 11 : PlacedAt(<<"module", n>>, 53 + 2 * n, 2, 40 + 2 * n, 40 + 2 * n)
<1> USE DEF PlacedAt, Layout!FirstBlock, Layout!Size, Layout!Block, Layout!ResolvedFor,
            Layout!Page, Layout!Step, Layout!EntryPage
<1>1. /\ PlacedAt(<<"os", 0>>, 0, 1, 1, 1)
      /\ PlacedAt(<<"init", 0>>, 7, 2, -1, 65)
      /\ PlacedAt(<<"shell", 0>>, 9, 2, -1, -1)
  OBVIOUS
<1>2. /\ PlacedAt(<<"idle", 0>>, 11, 2, -1, 69)
      /\ PlacedAt(<<"library", 0>>, 13, 2, -1, 63)
      /\ PlacedAt(<<"exhandler", 0>>, 15, 2, 2, 2)
  OBVIOUS
<1>3. /\ PlacedAt(<<"timer", 0>>, 17, 2, 4, 4)
      /\ PlacedAt(<<"disk", 0>>, 19, 2, 6, 6)
      /\ PlacedAt(<<"console", 0>>, 21, 2, 8, 8)
  OBVIOUS
<1>4. ASSUME NEW n \in 4 .. 18
      PROVE  PlacedAt(<<"int", n>>, 15 + 2 * n, 2, 2 * n + 2, 2 * n + 2)
  OBVIOUS
<1>5. ASSUME NEW n \in 0 .. 11
      PROVE  PlacedAt(<<"module", n>>, 53 + 2 * n, 2, 40 + 2 * n, 40 + 2 * n)
  OBVIOUS
<1> HIDE DEF PlacedAt
<1> QED BY <1>1, <1>2, <1>3, <1>4, <1>5

\* Every block of code belongs to one part of the system, and to no table.
LEMMA RegionsApart ==
  ASSUME NEW c \in Layout!Commands, Layout!Accepted(c), NEW i \in 0 .. Layout!Size[c[1]] - 1
  PROVE  /\ Layout!FirstBlock(c) \in Nat /\ Layout!Size[c[1]] \in {1, 2}
         /\ Layout!FirstBlock(c) + i \in 0 .. 80 \ 2 .. 5
         /\ c # Layout!NoJob.cmd
         /\ \A d \in Layout!Commands : Layout!Accepted(d) =>
              \A j \in 0 .. Layout!Size[d[1]] - 1 :
                Layout!FirstBlock(c) + i = Layout!FirstBlock(d) + j => c = d /\ i = j
<1> DEFINE Known(x) ==
      LET b == Layout!FirstBlock(x)
          n == Layout!Size[x[1]]
      IN  \/ x = <<"os", 0>> /\ b = 0 /\ n = 1
          \/ n = 2 /\ \/ x = <<"init", 0>> /\ b = 7
                      \/ x = <<"shell", 0>> /\ b = 9
                      \/ x = <<"idle", 0>> /\ b = 11
                      \/ x = <<"library", 0>> /\ b = 13
                      \/ x = <<"exhandler", 0>> /\ b = 15
                      \/ x = <<"timer", 0>> /\ b = 17
                      \/ x = <<"disk", 0>> /\ b = 19
                      \/ x = <<"console", 0>> /\ b = 21
                      \/ \E m \in 4 .. 18 : x = <<"int", m>> /\ b = 15 + 2 * m
                      \/ \E m \in 0 .. 11 : x = <<"module", m>> /\ b = 53 + 2 * m
<1>1. ASSUME NEW x \in Layout!Commands, Layout!Accepted(x)
      PROVE  Known(x)
  <2>1. ASSUME NEW k \in Single, x = <<k, 0>>
        PROVE  Known(x)
    BY <2>1, Places, SMTT(60) DEF Single, PlacedAt
  <2>2. ASSUME NEW n \in 4 .. 18, x = <<"int", n>>
        PROVE  Known(x)
    <3>1. Layout!FirstBlock(x) = 15 + 2 * n /\ Layout!Size[x[1]] = 2
      BY <2>2, Places DEF PlacedAt
    <3> QED BY <2>2, <3>1
  <2>3. ASSUME NEW n \in 0 .. 11, x = <<"module", n>>
        PROVE  Known(x)
    <3>1. Layout!FirstBlock(x) = 53 + 2 * n /\ Layout!Size[x[1]] = 2
      BY <2>3, Places DEF PlacedAt
    <3> QED BY <2>3, <3>1
  <2> HIDE DEF Known
  <2> QED BY <1>1, <2>1, <2>2, <2>3, AcceptedIs
<1>2. ASSUME NEW x, Known(x)
      PROVE  \E m \in 0 .. 75 : /\ Layout!FirstBlock(x) = m /\ (m # 0 => m \geq 7 /\ m % 2 = 1)
                                /\ Layout!Size[x[1]] = IF m = 0 THEN 1 ELSE 2
  BY <1>2
<1>3. ASSUME NEW x, NEW y, Known(x), Known(y), Layout!FirstBlock(x) = Layout!FirstBlock(y)
      PROVE  x = y
  BY <1>3
<1>4. c # Layout!NoJob.cmd
  BY AcceptedIs DEF Layout!NoJob, Single
<1> HIDE DEF Known
<1>5. PICK m \in 0 .. 75 : /\ Layout!FirstBlock(c) = m /\ (m # 0 => m \geq 7 /\ m % 2 = 1)
                           /\ Layout!Size[c[1]] = IF m = 0 THEN 1 ELSE 2
  BY <1>1, <1>2
<1>6. ASSUME NEW d \in Layout!Commands, Layout!Accepted(d),
             NEW j \in 0 .. Layout!Size[d[1]] - 1,
             Layout!FirstBlock(c) + i = Layout!FirstBlock(d) + j
      PROVE  c = d /\ i = j
  <2>1. PICK k \in 0 .. 75 : /\ Layout!FirstBlock(d) = k /\ (k # 0 => k \geq 7 /\ k % 2 = 1)
                             /\ Layout!Size[d[1]] = IF k = 0 THEN 1 ELSE 2
    BY <1>1, <1>2, <1>6
  <2>2. i \in 0 .. 1 /\ j \in 0 .. 1 /\ (m = 0 => i = 0) /\ (k = 0 => j = 0)
    BY <1>5, <2>1
  <2>3. m + i = k + j
    BY <1>5, <1>6, <2>1
  <2>4. m = k /\ i = j
    BY <1>5, <2>1, <2>2, <2>3
  <2>5. Layout!FirstBlock(c) = Layout!FirstBlock(d)
    BY <1>5, <2>1, <2>4
  <2> QED BY <1>1, <1>3, <1>6, <2>4, <2>5
<1>7. /\ Layout!FirstBlock(c) \in Nat /\ Layout!Size[c[1]] \in {1, 2}
      /\ Layout!FirstBlock(c) + i \in 0 .. 80 \ 2 .. 5
  BY <1>5
<1> QED BY <1>4, <1>6, <1>7

LEMMA FirstIsBlock ==
  ASSUME NEW c \in Layout!Commands, Layout!Accepted(c)
  PROVE  /\ Layout!Size[c[1]] \in {1, 2} /\ 0 \in 0 .. Layout!Size[c[1]] - 1
         /\ Layout!FirstBlock(c) \in 0 .. 80 /\ Layout!FirstBlock(c) + 0 = Layout!FirstBlock(c)
<1>1. Layout!Size[c[1]] \in {1, 2}
  BY AcceptedIs, Places DEF Single, PlacedAt
<1>2. 0 \in 0 .. Layout!Size[c[1]] - 1
  BY <1>1
<1>3. Layout!FirstBlock(c) \in Nat /\ Layout!FirstBlock(c) + 0 \in 0 .. 80
  BY <1>2, RegionsApart
<1> QED BY <1>1, <1>2, <1>3

\* Where a block that is loaded at startup goes, the second block of the OS
\* startup code apart: its page is the exception handler's then.
LoadedTo(b) == IF b = 0 THEN 1 ELSE IF b <= 12 THEN b + 58
               ELSE IF b <= 14 THEN b + 50 ELSE b - 13
Loaded == {0} \cup 7 .. 8 \cup 11 .. 38 \cup 41 .. 46 \cup 53 .. 64 \cup 67 .. 68

LEMMA CodeIsLoaded ==
  ASSUME NEW b \in Loaded
  PROVE  \E l \in 1 .. 56 : l # 2 /\ LoadAt(l) = <<LoadedTo(b), b>>
<1>1. CASE b = 0
  BY <1>1 DEF LoadAt, LoadedTo
<1>2. CASE b \in 7 .. 8
  <2>1. b + 48 \in 55 .. 56 /\ LoadAt(b + 48) = <<b + 58, b>>
    BY <1>2 DEF LoadAt
  <2> QED BY <1>2, <2>1 DEF LoadedTo
<1>3. CASE b \in 11 .. 12
  <2>1. b - 6 \in 5 .. 6 /\ LoadAt(b - 6) = <<b + 58, b>>
    BY <1>3 DEF LoadAt
  <2> QED BY <1>3, <2>1 DEF LoadedTo
<1>4. CASE b \in 13 .. 14
  <2>1. b - 2 \in 11 .. 12 /\ LoadAt(b - 2) = <<b + 50, b>>
    BY <1>4 DEF LoadAt
  <2> QED BY <1>4, <2>1 DEF LoadedTo
<1>5. CASE b \in 15 .. 38
  <2>1. b - 2 \in 13 .. 36 /\ LoadAt(b - 2) = <<b - 13, b>>
    BY <1>5 DEF LoadAt
  <2> QED BY <1>5, <2>1 DEF LoadedTo
<1>6. CASE b \in 41 .. 46
  <2>1. b - 4 \in 37 .. 42 /\ LoadAt(b - 4) = <<b - 13, b>>
    BY <1>6 DEF LoadAt
  <2> QED BY <1>6, <2>1 DEF LoadedTo
<1>7. CASE b \in 53 .. 64
  <2>1. b - 10 \in 43 .. 54 /\ LoadAt(b - 10) = <<b - 13, b>>
    BY <1>7 DEF LoadAt
  <2> QED BY <1>7, <2>1 DEF LoadedTo
<1>8. CASE b \in 67 .. 68
  <2>1. b - 64 \in 3 .. 4 /\ LoadAt(b - 64) = <<b - 13, b>>
    BY <1>8 DEF LoadAt
  <2> QED BY <1>8, <2>1 DEF LoadedTo
<1> QED BY <1>1, <1>2, <1>3, <1>4, <1>5, <1>6, <1>7, <1>8 DEF Loaded

\* Each page is loaded once, that page apart.
LEMMA LoadedOnce ==
  ASSUME NEW l \in 1 .. 56, NEW m \in 1 .. 56, l < m, l # 2
  PROVE  LoadAt(l)[1] # LoadAt(m)[1]
<1> DEFINE At(p) == IF p = 1 THEN 1 ELSE IF p <= 27 THEN p + 11 ELSE IF p <= 39 THEN p + 9
                    ELSE IF p <= 51 THEN p + 3 ELSE IF p <= 55 THEN p - 51
                    ELSE IF p = 59 THEN 8 ELSE IF p = 60 THEN 9 ELSE IF p = 61 THEN 7
                    ELSE IF p = 62 THEN 10 ELSE IF p <= 64 THEN p - 52
                    ELSE IF p <= 66 THEN p - 10 ELSE p - 64
<1>1. ASSUME NEW k \in 1 .. 56, k # 2
      PROVE  At(LoadAt(k)[1]) = k
  <2>1. CASE k <= 10
    BY <1>1, <2>1 DEF LoadAt
  <2>2. CASE k > 10
    BY <2>2 DEF LoadAt
  <2> QED BY <2>1, <2>2
<1>2. LoadAt(1)[1] = 1 /\ LoadAt(2)[1] = 2
  BY DEF LoadAt
<1>3. CASE m = 2
  <2>1. l = 1
    BY <1>3
  <2> QED BY <1>2, <1>3, <2>1
<1>4. CASE m # 2
  <2>1. At(LoadAt(m)[1]) = m /\ At(LoadAt(l)[1]) = l
    BY <1>1, <1>4
  <2> HIDE DEF At
  <2> QED BY <2>1
<1> QED BY <1>3, <1>4

Piece(c, i, last) ==
  [cmd |-> c, part |-> i, base |-> Layout!ResolvedFor(c), last |-> last]
Pieces(c, i) == {Piece(c, i, TRUE), Piece(c, i, FALSE)}

\* What is on the disk and in memory at any time: a part of the system that is
\* not being loaded is whole, up to the end of its file, the one at work up to
\* where the load is, and the pages loaded are what is on the disk.
JobOK ==
  \/ job = Layout!NoJob
  \/ /\ job.cmd \in Layout!Commands /\ Layout!Accepted(job.cmd)
     /\ job.part \in 0 .. Layout!Size[job.cmd[1]]
     /\ job = [cmd |-> job.cmd, part |-> job.part]
     /\ \A i \in 0 .. job.part - 1 :
          image[Layout!FirstBlock(job.cmd) + i] = Piece(job.cmd, i, FALSE)
Arrays == image = [b \in 0 .. 80 |-> image[b]] /\ ram = [p \in 0 .. 127 |-> ram[p]]
TablesKept == \A b \in 2 .. 5 : image[b] = Layout!Table
PartsWhole ==
  \A c \in Layout!Commands :
    Layout!IsLoaded(c) /\ job.cmd # c =>
      \A i \in Layout!Parts(c) : image[Layout!FirstBlock(c) + i] \in Pieces(c, i)
Started == pc \in 0 .. 57 /\ (pc # 0 => job = Layout!NoJob)
PagesLoaded == \A l \in 1 .. pc - 1 : l # 2 => ram[LoadAt(l)[1]] = image[LoadAt(l)[2]]

LayoutInv == JobOK /\ Arrays /\ TablesKept /\ PartsWhole /\ Started /\ PagesLoaded

LEMMA LayoutInit ==
  ASSUME Layout!Init
  PROVE  LayoutInv
<1>1. /\ image = [b \in 0 .. 80 |-> IF b \in Layout!Tables THEN Layout!Table
                                    ELSE IF b >= Layout!DataStart THEN Layout!File ELSE Layout!Blank]
      /\ ram = [p \in 0 .. 127 |-> Layout!Blank]
      /\ job = Layout!NoJob /\ pc = 0
  BY DEF Layout!Init
<1>2. \A b \in 2 .. 5 : image[b] = Layout!Table
  BY <1>1 DEF Layout!Tables
<1>3. ASSUME NEW c \in Layout!Commands, Layout!Accepted(c)
      PROVE  image[Layout!FirstBlock(c)].cmd # c
  <2>1. c \notin {<<"table", 0>>, <<"file", 0>>, <<"none", 0>>}
    BY <1>3, AcceptedIs DEF Single
  <2>2. Layout!FirstBlock(c) \in 0 .. 80
    BY <1>3, FirstIsBlock
  <2>3. \A b \in 0 .. 80 : image[b].cmd \in {<<"table", 0>>, <<"file", 0>>, <<"none", 0>>}
    BY <1>1 DEF Layout!Table, Layout!File, Layout!Blank
  <2> QED BY <2>1, <2>2, <2>3
<1>4. image = [b \in 0 .. 80 |-> image[b]] /\ ram = [p \in 0 .. 127 |-> ram[p]]
  BY <1>1
<1>5. JobOK /\ Arrays /\ TablesKept
  BY <1>1, <1>2, <1>4 DEF JobOK, Arrays, TablesKept
<1>6. PartsWhole
  BY <1>3 DEF PartsWhole, Layout!IsLoaded
<1>7. Started /\ PagesLoaded
  BY <1>1 DEF Started, PagesLoaded
<1> QED BY <1>5, <1>6, <1>7 DEF LayoutInv

LEMMA LoadCommandKeeps ==
  ASSUME LayoutInv, Layout!LoadCommand
  PROVE  LayoutInv'
<1>1. /\ pc = 0 /\ job = Layout!NoJob /\ image' = image /\ ram' = ram /\ pc' = pc
      /\ \E c \in Layout!Commands :
           job' = IF Layout!Accepted(c) THEN [cmd |-> c, part |-> 0] ELSE Layout!NoJob
  BY DEF Layout!LoadCommand
<1>2. \/ job' = Layout!NoJob
      \/ /\ job'.cmd \in Layout!Commands /\ Layout!Accepted(job'.cmd)
         /\ job'.part = 0 /\ job'.part \in 0 .. Layout!Size[job'.cmd[1]]
         /\ job' = [cmd |-> job'.cmd, part |-> job'.part]
  BY <1>1, FirstIsBlock
<1>3. \A c \in Layout!Commands : Layout!IsLoaded(c) =>
        \A i \in Layout!Parts(c) : image[Layout!FirstBlock(c) + i] \in Pieces(c, i)
  <2>1. \A c \in Layout!Commands : Layout!Accepted(c) => c # Layout!NoJob.cmd
    BY FirstIsBlock, RegionsApart
  <2> QED BY <1>1, <2>1 DEF LayoutInv, JobOK, Arrays, TablesKept, PartsWhole, Started, PagesLoaded, Layout!IsLoaded
<1>4. \A c \in Layout!Commands : /\ Layout!IsLoaded(c)' <=> Layout!IsLoaded(c)
                                  /\ Layout!Parts(c)' = Layout!Parts(c)
  BY <1>1 DEF Layout!IsLoaded, Layout!Parts
<1>5. JobOK'
  <2>1. CASE job' = Layout!NoJob
    BY <2>1 DEF JobOK
  <2>2. CASE job' # Layout!NoJob
    <3>1. /\ job'.cmd \in Layout!Commands /\ Layout!Accepted(job'.cmd)
          /\ job'.part = 0 /\ job'.part \in 0 .. Layout!Size[job'.cmd[1]]
          /\ job' = [cmd |-> job'.cmd, part |-> job'.part]
      BY <1>2, <2>2
    <3>2. 0 .. job'.part - 1 = {}
      BY <3>1
    <3> QED BY <3>1, <3>2 DEF JobOK
  <2> QED BY <2>1, <2>2
<1>6. Arrays' /\ TablesKept'
  BY <1>1 DEF LayoutInv, Arrays, TablesKept
<1>7. PartsWhole'
  BY <1>1, <1>3, <1>4 DEF PartsWhole
<1>8. Started' /\ PagesLoaded'
  BY <1>1 DEF LayoutInv, Started, PagesLoaded
<1> QED BY <1>5, <1>6, <1>7, <1>8 DEF LayoutInv

\* What a load writes and clears is its own region: the others keep what they have.
LEMMA OthersWhole ==
  ASSUME LayoutInv, NEW c \in Layout!Commands, Layout!Accepted(c), job.cmd = c,
         \A a \in 0 .. 80 : a \notin Layout!Region(c) => image'[a] = image[a],
         NEW d \in Layout!Commands, d # c, Layout!IsLoaded(d)', NEW i \in Layout!Parts(d)'
  PROVE  image'[Layout!FirstBlock(d) + i] \in Pieces(d, i)
<1>1. Layout!Accepted(d) /\ image'[Layout!FirstBlock(d)].cmd = d
  BY DEF Layout!IsLoaded
<1>2. ASSUME NEW j \in 0 .. Layout!Size[d[1]] - 1
      PROVE  image'[Layout!FirstBlock(d) + j] = image[Layout!FirstBlock(d) + j]
  <2>1. Layout!FirstBlock(d) + j \in 0 .. 80 /\ Layout!FirstBlock(d) + j \notin Layout!Region(c)
    BY <1>1, RegionsApart DEF Layout!Region
  <2> QED BY <2>1
<1>3. image[Layout!FirstBlock(d)].cmd = d
  BY <1>1, <1>2, FirstIsBlock
<1>4. Layout!Size[d[1]] \in {1, 2}
  BY <1>1, FirstIsBlock
<1>5. i \in 0 .. Layout!Size[d[1]] - 1 /\ i \in Layout!Parts(d)
  <2>1. /\ i \in 0 .. Layout!Size[d[1]] - 1
        /\ \A j \in 0 .. i - 1 : ~image'[Layout!FirstBlock(d) + j].last
    BY DEF Layout!Parts
  <2>2. \A j \in 0 .. i - 1 : j \in 0 .. Layout!Size[d[1]] - 1
    BY <1>4, <2>1
  <2> QED BY <1>2, <2>1, <2>2 DEF Layout!Parts
<1>6. image[Layout!FirstBlock(d) + i] \in Pieces(d, i)
  BY <1>1, <1>3, <1>5 DEF LayoutInv, PartsWhole, Layout!IsLoaded
<1> QED BY <1>2, <1>5, <1>6

LEMMA WriteBlockKeeps ==
  ASSUME LayoutInv, Layout!WriteBlock
  PROVE  LayoutInv'
<1>0. PICK c : c = job.cmd
  OBVIOUS
<1> DEFINE b == Layout!FirstBlock(c) + job.part
<1>1. PICK last \in BOOLEAN :
        /\ image' = [image EXCEPT ![b] = Piece(c, job.part, last)]
        /\ job' = IF last THEN Layout!NoJob ELSE [job EXCEPT !.part = @ + 1]
  BY <1>0 DEF Layout!WriteBlock, Piece
<1>2. /\ c \in Layout!Commands /\ Layout!Accepted(c)
      /\ job.part \in 0 .. Layout!Size[c[1]] /\ job.part < Layout!Size[c[1]]
      /\ job = [cmd |-> c, part |-> job.part]
      /\ \A i \in 0 .. job.part - 1 : image[Layout!FirstBlock(c) + i] = Piece(c, i, FALSE)
      /\ image = [a \in 0 .. 80 |-> image[a]] /\ pc = 0
      /\ ram' = ram /\ pc' = pc
  BY <1>0 DEF Layout!WriteBlock, LayoutInv, JobOK, Arrays, Started
<1>3. /\ Layout!Size[c[1]] \in {1, 2} /\ Layout!FirstBlock(c) \in 0 .. 80
      /\ c # Layout!NoJob.cmd
  BY <1>2, FirstIsBlock, RegionsApart
<1>4. job.part \in 0 .. Layout!Size[c[1]] - 1
  BY <1>2, <1>3
<1>5. b \in 0 .. 80 \ 2 .. 5 /\ b \in Layout!Region(c)
  BY <1>2, <1>4, RegionsApart DEF Layout!Region
<1>6. image'[b] = Piece(c, job.part, last) /\ \A a \in 0 .. 80 : a # b => image'[a] = image[a]
  BY <1>1, <1>2, <1>5
<1>7. Arrays'
  <2> HIDE DEF b
  <2> QED BY <1>1, <1>2 DEF LayoutInv, Arrays
<1>8. TablesKept'
  <2> SUFFICES ASSUME NEW a \in 2 .. 5
               PROVE  image'[a] = Layout!Table
    BY DEF TablesKept
  <2>1. a \in 0 .. 80 /\ a # b
    BY <1>5
  <2>2. image[a] = Layout!Table
    BY DEF LayoutInv, TablesKept
  <2> HIDE DEF b
  <2> QED BY <1>6, <2>1, <2>2
<1>9. ASSUME NEW i \in 0 .. job.part - 1
      PROVE  image'[Layout!FirstBlock(c) + i] = Piece(c, i, FALSE)
  <2>1. i \in 0 .. Layout!Size[c[1]] - 1 /\ i # job.part
    BY <1>2, <1>3
  <2>2. Layout!FirstBlock(c) + i \in 0 .. 80 /\ Layout!FirstBlock(c) + i # b
    BY <1>2, <1>3, <1>4, <2>1, RegionsApart
  <2> QED BY <1>2, <1>6, <2>2
<1>10. JobOK'
  <2>1. CASE last
    BY <1>1, <2>1 DEF JobOK
  <2>2. CASE ~last
    <3>1. job'.cmd = c /\ job'.part = job.part + 1 /\ job' = [cmd |-> job'.cmd, part |-> job'.part]
      BY <1>1, <1>2, <2>2
    <3>2. job'.part \in 0 .. Layout!Size[c[1]]
      BY <1>3, <1>4, <3>1
    <3>3. ASSUME NEW i \in 0 .. job'.part - 1
          PROVE  image'[Layout!FirstBlock(c) + i] = Piece(c, i, FALSE)
      <4>1. i = job.part \/ i \in 0 .. job.part - 1
        BY <1>4, <3>1
      <4> QED BY <1>6, <1>9, <2>2, <4>1
    <3> QED BY <1>2, <3>1, <3>2, <3>3 DEF JobOK
  <2> QED BY <2>1, <2>2
<1>11. ASSUME last, NEW i \in Layout!Parts(c)'
       PROVE  image'[Layout!FirstBlock(c) + i] \in Pieces(c, i)
  <2>1. i \in 0 .. Layout!Size[c[1]] - 1 /\ \A j \in 0 .. i - 1 : ~image'[Layout!FirstBlock(c) + j].last
    BY DEF Layout!Parts
  <2>2. image'[b].last
    BY <1>6, <1>11 DEF Piece
  <2>3. ~(job.part \in 0 .. i - 1)
    BY <2>1, <2>2
  <2>4. i = job.part \/ i \in 0 .. job.part - 1
    BY <1>3, <1>4, <2>1, <2>3
  <2> QED BY <1>6, <1>9, <1>11, <2>4 DEF Pieces
<1>12. PartsWhole'
  <2> SUFFICES ASSUME NEW d \in Layout!Commands, Layout!IsLoaded(d)', job'.cmd # d,
                      NEW i \in Layout!Parts(d)'
               PROVE  image'[Layout!FirstBlock(d) + i] \in Pieces(d, i)
    BY DEF PartsWhole
  <2>1. CASE d = c
    <3>1. last
      BY <1>0, <1>1, <1>2, <2>1
    <3> QED BY <1>11, <2>1, <3>1
  <2>2. CASE d # c
    <3>1. \A a \in 0 .. 80 : a \notin Layout!Region(c) => image'[a] = image[a]
      BY <1>5, <1>6
    <3> HIDE DEF b
    <3> QED BY <1>0, <1>2, <2>2, <3>1, OthersWhole
  <2> QED BY <2>1, <2>2
<1>13. Started' /\ PagesLoaded'
  BY <1>2 DEF Started, PagesLoaded
<1> QED BY <1>7, <1>8, <1>10, <1>12, <1>13 DEF LayoutInv

LEMMA ClearRegionKeeps ==
  ASSUME LayoutInv, Layout!ClearRegion
  PROVE  LayoutInv'
<1>0. PICK c : c = job.cmd
  OBVIOUS
<1>1. /\ job # Layout!NoJob /\ job' = Layout!NoJob /\ ram' = ram /\ pc' = pc
      /\ image' = [a \in DOMAIN image |-> IF a \in Layout!Region(c) THEN Layout!Blank ELSE image[a]]
  BY <1>0 DEF Layout!ClearRegion
<1>2. /\ c \in Layout!Commands /\ Layout!Accepted(c)
      /\ image = [a \in 0 .. 80 |-> image[a]] /\ pc = 0
  BY <1>0, <1>1 DEF LayoutInv, JobOK, Arrays, Started
<1>3. \A a \in 0 .. 80 : image'[a] = IF a \in Layout!Region(c) THEN Layout!Blank ELSE image[a]
  <2>1. DOMAIN image = 0 .. 80
    BY <1>2
  <2> QED BY <1>1, <2>1
<1>4. Arrays'
  <2>1. DOMAIN image = 0 .. 80
    BY <1>2
  <2>2. image' = [a \in 0 .. 80 |-> image'[a]]
    BY <1>1, <2>1
  <2> QED BY <1>1, <2>2 DEF LayoutInv, Arrays
<1>5. TablesKept'
  <2> SUFFICES ASSUME NEW a \in 2 .. 5
               PROVE  image'[a] = Layout!Table
    BY DEF TablesKept
  <2>1. a \in 0 .. 80 /\ a \notin Layout!Region(c)
    BY <1>2, RegionsApart DEF Layout!Region
  <2>2. image[a] = Layout!Table
    BY DEF LayoutInv, TablesKept
  <2> QED BY <1>3, <2>1, <2>2
<1>6. ~Layout!IsLoaded(c)'
  <2>1. Layout!FirstBlock(c) \in 0 .. 80 /\ Layout!FirstBlock(c) \in Layout!Region(c)
    BY <1>2, FirstIsBlock DEF Layout!Region
  <2>2. image'[Layout!FirstBlock(c)].cmd = Layout!NoJob.cmd
    BY <1>3, <2>1 DEF Layout!Blank, Layout!NoJob
  <2>3. c # Layout!NoJob.cmd
    BY <1>2, FirstIsBlock, RegionsApart
  <2> QED BY <2>2, <2>3 DEF Layout!IsLoaded
<1>7. PartsWhole'
  <2> SUFFICES ASSUME NEW d \in Layout!Commands, Layout!IsLoaded(d)', NEW i \in Layout!Parts(d)'
               PROVE  image'[Layout!FirstBlock(d) + i] \in Pieces(d, i)
    BY DEF PartsWhole
  <2>1. d # c
    BY <1>6
  <2> QED BY <1>0, <1>2, <1>3, <2>1, OthersWhole
<1>8. JobOK' /\ Started' /\ PagesLoaded'
  BY <1>1, <1>2 DEF JobOK, Started, PagesLoaded
<1> QED BY <1>4, <1>5, <1>7, <1>8 DEF LayoutInv

LEMMA LoadPageKeeps ==
  ASSUME LayoutInv, Layout!LoadPage
  PROVE  LayoutInv'
<1>1. /\ pc \in DOMAIN Layout!Startup /\ pc' = pc + 1 /\ image' = image /\ job' = job
      /\ ram' = [ram EXCEPT ![Layout!Startup[pc][1]] = image[Layout!Startup[pc][2]]]
  BY DEF Layout!LoadPage
<1>2. /\ pc \in 1 .. 56
      /\ ram' = [ram EXCEPT ![LoadAt(pc)[1]] = image[LoadAt(pc)[2]]]
  BY <1>1, Loads
<1>3. /\ ram = [p \in 0 .. 127 |-> ram[p]]
      /\ \A l \in 1 .. pc - 1 : l # 2 => ram[LoadAt(l)[1]] = image[LoadAt(l)[2]]
  BY DEF LayoutInv, JobOK, Arrays, TablesKept, PartsWhole, Started, PagesLoaded
<1>4. \A l \in 1 .. 56 : LoadAt(l)[1] \in 0 .. 127
  BY DEF LoadAt
<1>5. ASSUME NEW l \in 1 .. pc' - 1, l # 2
      PROVE  ram'[LoadAt(l)[1]] = image[LoadAt(l)[2]]
  <2>1. CASE l = pc
    BY <1>2, <1>3, <1>4, <2>1
  <2>2. CASE l # pc
    <3>1. l \in 1 .. pc - 1 /\ l \in 1 .. 56 /\ l < pc
      BY <1>1, <1>2, <2>2
    <3>2. LoadAt(l)[1] # LoadAt(pc)[1]
      BY <1>2, <1>5, <3>1, LoadedOnce
    <3> QED BY <1>2, <1>3, <1>4, <1>5, <3>1, <3>2
  <2> QED BY <2>1, <2>2
<1>6. ram' = [p \in 0 .. 127 |-> ram'[p]] /\ pc' \in 0 .. 57
  <2>1. ram' = [p \in 0 .. 127 |-> ram'[p]]
    BY <1>2, <1>3
  <2> QED BY <1>1, <1>2, <2>1
<1>7. \A c \in Layout!Commands : /\ Layout!IsLoaded(c)' <=> Layout!IsLoaded(c)
                                  /\ Layout!Parts(c)' = Layout!Parts(c)
  BY <1>1 DEF Layout!IsLoaded, Layout!Parts
<1>8. job = Layout!NoJob
  BY <1>2 DEF LayoutInv, Started
<1>9. JobOK' /\ TablesKept' /\ PartsWhole'
  BY <1>1, <1>7 DEF LayoutInv, JobOK, TablesKept, PartsWhole
<1>10. Arrays'
  BY <1>1, <1>6, ZenonT(60) DEF LayoutInv, Arrays
<1>11. Started' /\ PagesLoaded'
  BY <1>1, <1>5, <1>6, <1>8 DEF Started, PagesLoaded
<1> QED BY <1>9, <1>10, <1>11 DEF LayoutInv

LEMMA LayoutStep ==
  ASSUME LayoutInv, [Layout!Next]_(Layout!vars)
  PROVE  LayoutInv'
<1>1. CASE Layout!LoadCommand
  BY <1>1, LoadCommandKeeps
<1>2. CASE Layout!WriteBlock
  BY <1>2, WriteBlockKeeps
<1>6. CASE Layout!ClearRegion
  BY <1>6, ClearRegionKeeps
<1>3. CASE Layout!Start
  <2>1. pc = 0 /\ job = Layout!NoJob /\ pc' = 1 /\ image' = image /\ ram' = ram /\ job' = job
    BY <1>3 DEF Layout!Start
  <2>2. \A c \in Layout!Commands : /\ Layout!IsLoaded(c)' <=> Layout!IsLoaded(c)
                                    /\ Layout!Parts(c)' = Layout!Parts(c)
    BY <2>1 DEF Layout!IsLoaded, Layout!Parts
  <2> QED BY <2>1, <2>2, SMTT(60) DEF LayoutInv, JobOK, Arrays, TablesKept, PartsWhole, Started, PagesLoaded
<1>4. CASE Layout!LoadPage
  BY <1>4, LoadPageKeeps
<1>5. CASE UNCHANGED Layout!vars
  BY <1>5 DEF LayoutInv, JobOK, Arrays, TablesKept, PartsWhole, Started, PagesLoaded, Layout!vars, Layout!IsLoaded,
               Layout!Parts
<1> QED BY <1>1, <1>2, <1>3, <1>4, <1>5, <1>6 DEF Layout!Next

LEMMA LayoutIsRight ==
  ASSUME LayoutInv
  PROVE  Layout!RegionsKept /\ Layout!RunsWhereResolved
<1>1. ASSUME NEW c \in Layout!Commands, Layout!IsLoaded(c), job = Layout!NoJob
      PROVE  \A i \in Layout!Parts(c) : image[Layout!FirstBlock(c) + i] \in Pieces(c, i)
  <2>1. Layout!Accepted(c)
    BY <1>1 DEF Layout!IsLoaded
  <2>2. c # Layout!NoJob.cmd
    BY <2>1, FirstIsBlock, RegionsApart
  <2> QED BY <1>1, <2>2 DEF LayoutInv, JobOK, Arrays, TablesKept, PartsWhole, Started, PagesLoaded
<1>2. Layout!RegionsKept
  <2>1. \A b \in Layout!Tables : image[b] = Layout!Table
    BY DEF LayoutInv, TablesKept, Layout!Tables
  <2>2. ASSUME NEW c \in Layout!Commands, Layout!IsLoaded(c), job = Layout!NoJob
        PROVE  Layout!Whole(c)
    <3>1. \A i \in Layout!Parts(c) : image[Layout!FirstBlock(c) + i] \in Pieces(c, i)
      BY <1>1, <2>2
    <3>2. ASSUME NEW i \in Layout!Parts(c)
          PROVE  /\ image[Layout!FirstBlock(c) + i].cmd = c
                 /\ image[Layout!FirstBlock(c) + i].part = i
      <4>1. image[Layout!FirstBlock(c) + i] \in Pieces(c, i)
        BY <3>1
      <4>2. \A x \in Pieces(c, i) : x.cmd = c /\ x.part = i
        BY DEF Piece, Pieces
      <4> QED BY <4>1, <4>2
    <3> QED BY <3>2 DEF Layout!Whole
  <2> QED BY <2>1, <2>2 DEF Layout!RegionsKept
<1>3. ASSUME Layout!Running, NEW c \in Layout!Commands, Layout!IsLoaded(c), Layout!Booted(c),
             NEW i \in Layout!Parts(c)
      PROVE  LET m == ram[Layout!EntryPage(c) + i]
             IN  m.cmd = c /\ m.part = i /\ m.base \in {-1, Layout!EntryPage(c)}
  <2>1. Layout!Accepted(c) /\ pc = 57 /\ job = Layout!NoJob
    <3>1. pc = 57
      BY <1>3, Loads DEF Layout!Running
    <3> QED BY <1>3, <3>1 DEF Layout!IsLoaded, LayoutInv, Started
  <2>0. i \in 0 .. Layout!Size[c[1]] - 1
    BY DEF Layout!Parts
  <2>2. PICK l \in 1 .. 56 : LoadAt(l)[2] = Layout!FirstBlock(c)
    BY <1>3, Loads DEF Layout!Booted
  <2>3. LoadAt(l)[2] \in Loaded \cup 1 .. 5
    BY DEF LoadAt, Loaded
  <2> DEFINE b == Layout!FirstBlock(c)
             e == Layout!EntryPage(c)
             Right == b + i \in Loaded /\ LoadedTo(b + i) = e + i /\ Layout!ResolvedFor(c) \in {-1, e}
  <2>4. ASSUME NEW k \in Single, c = <<k, 0>>
        PROVE  Right
    <3>1. \/ PlacedAt(c, 0, 1, 1, 1) \/ PlacedAt(c, 7, 2, -1, 65) \/ PlacedAt(c, 9, 2, -1, -1)
          \/ PlacedAt(c, 11, 2, -1, 69) \/ PlacedAt(c, 13, 2, -1, 63) \/ PlacedAt(c, 15, 2, 2, 2)
          \/ PlacedAt(c, 17, 2, 4, 4) \/ PlacedAt(c, 19, 2, 6, 6) \/ PlacedAt(c, 21, 2, 8, 8)
      BY <2>4, Places, SMTT(60) DEF Single
    <3>2. b # 9
      BY <2>2, <2>3 DEF Loaded
    <3>3. i \in 0 .. 1 /\ (Layout!Size[c[1]] = 1 => i = 0)
      BY <2>0, <2>1, FirstIsBlock
    <3> QED BY <3>1, <3>2, <3>3 DEF PlacedAt, LoadedTo, Loaded
  <2>5. ASSUME NEW n \in 4 .. 18, c = <<"int", n>>
        PROVE  Right
    <3>1. PlacedAt(c, 15 + 2 * n, 2, 2 * n + 2, 2 * n + 2)
      BY <2>5, Places
    <3>2. b \in 15 .. 38 \cup 41 .. 46 /\ b = 15 + 2 * n
      BY <2>2, <2>3, <3>1 DEF Loaded, PlacedAt
    <3>3. i \in 0 .. 1
      BY <2>0, <3>1 DEF PlacedAt
    <3> QED BY <3>1, <3>2, <3>3 DEF PlacedAt, LoadedTo, Loaded
  <2>6. ASSUME NEW n \in 0 .. 11, c = <<"module", n>>
        PROVE  Right
    <3>1. PlacedAt(c, 53 + 2 * n, 2, 40 + 2 * n, 40 + 2 * n)
      BY <2>6, Places
    <3>2. b \in 53 .. 64 \cup 67 .. 68 /\ b = 53 + 2 * n
      <4>1. b = 53 + 2 * n
        BY <3>1 DEF PlacedAt
      <4>2. b \in Loaded \cup 1 .. 5
        BY <2>2, <2>3
      <4> QED BY <4>1, <4>2 DEF Loaded
    <3>3. i \in 0 .. 1
      BY <2>0, <3>1 DEF PlacedAt
    <3> QED BY <3>1, <3>2, <3>3 DEF PlacedAt, LoadedTo, Loaded
  <2>7. Right
    <3> HIDE DEF Right
    <3> QED BY <2>1, <2>4, <2>5, <2>6, AcceptedIs
  <2>8. PICK m \in 1 .. 56 : m # 2 /\ LoadAt(m) = <<e + i, b + i>>
    BY <2>7, CodeIsLoaded
  <2>9. ram[e + i] = image[b + i]
    BY <2>1, <2>8 DEF LayoutInv, PagesLoaded
  <2>10. image[b + i] \in Pieces(c, i)
    BY <1>1, <1>3, <2>1
  <2> QED BY <2>7, <2>9, <2>10 DEF Piece, Pieces
<1> QED BY <1>2, <1>3 DEF Layout!RunsWhereResolved

-----------------------------------------------------------------------------
(* The labels of system code. *)

\* The first lines of a text are finitely many.
LEMMA PrefixFinite ==
  \A k \in Nat : IsFiniteSet(1 .. k)
<1>1. ASSUME NEW k \in Nat PROVE IsFiniteSet(1 .. k)
  BY FS_Interval
<1> QED BY <1>1

\* One more line is one more instruction, unless it is a label.
LEMMA CountOne ==
  ASSUME NEW n \in Nat
  PROVE  /\ Code!Instructions(n) \in Nat
         /\ Code!Instructions(0) = 0
         /\ Code!Instructions(n + 1) = IF text[n + 1].kind = "label" THEN Code!Instructions(n)
                                       ELSE Code!Instructions(n) + 1
<1> DEFINE Upto(m) == {i \in 1 .. m : text[i].kind # "label"}
<1>1. \A m \in Nat : IsFiniteSet(Upto(m))
  <2>1. ASSUME NEW m \in Nat PROVE IsFiniteSet(Upto(m))
    <3>1. IsFiniteSet(1 .. m)
      BY PrefixFinite
    <3> QED BY <3>1, FS_Subset
  <2> QED BY <2>1
<1>2. Code!Instructions(n) = Cardinality(Upto(n)) /\ Code!Instructions(0) = Cardinality(Upto(0))
      /\ Code!Instructions(n + 1) = Cardinality(Upto(n + 1))
  BY DEF Code!Instructions, Cardinality, Code!Cardinality
<1>3. Upto(0) = {}
  OBVIOUS
<1>4. Upto(n + 1) = IF text[n + 1].kind = "label" THEN Upto(n) ELSE Upto(n) \cup {n + 1}
  <2>1. 1 .. n + 1 = 1 .. n \cup {n + 1}
    OBVIOUS
  <2> QED BY <2>1
<1>5. n + 1 \notin Upto(n)
  OBVIOUS
<1> HIDE DEF Upto
<1>6. Cardinality(Upto(n)) \in Nat /\ Cardinality(Upto(0)) = 0
  BY <1>1, <1>3, FS_CardinalityType, FS_EmptySet
<1>7. Cardinality(Upto(n) \cup {n + 1}) = Cardinality(Upto(n)) + 1
  BY <1>1, <1>5, FS_AddElement
<1> QED BY <1>2, <1>4, <1>6, <1>7

\* An instruction among the first m lines is one of as many.
LEMMA CountsGrow ==
  ASSUME NEW m \in Nat, NEW i \in 1 .. m, text[i].kind # "label"
  PROVE  Code!Instructions(i) \in 1 .. Code!Instructions(m)
<1> DEFINE Upto(k) == {j \in 1 .. k : text[j].kind # "label"}
<1>1. ASSUME NEW k \in Nat PROVE IsFiniteSet(Upto(k))
  <2>1. IsFiniteSet(1 .. k)
    BY PrefixFinite
  <2> QED BY <2>1, FS_Subset
<1>2. Upto(i) \subseteq Upto(m) /\ i \in Upto(i) /\ i \in Nat
  OBVIOUS
<1>3. Code!Instructions(i) = Cardinality(Upto(i)) /\ Code!Instructions(m) = Cardinality(Upto(m))
  BY DEF Code!Instructions, Cardinality, Code!Cardinality
<1> HIDE DEF Upto
<1>4. IsFiniteSet(Upto(i)) /\ IsFiniteSet(Upto(m))
  BY <1>1, <1>2
<1>5. Cardinality(Upto(i)) <= Cardinality(Upto(m))
  BY <1>2, <1>4, FS_Subset
<1>6. Cardinality(Upto(i)) # 0
  BY <1>2, <1>4, FS_EmptySet
<1>7. Cardinality(Upto(i)) \in Nat /\ Cardinality(Upto(m)) \in Nat
  BY <1>4, FS_CardinalityType
<1> QED BY <1>3, <1>5, <1>6, <1>7

Resolved(i) ==
  text[i].kind = "jump" =>
    \E j \in DOMAIN text :
      /\ text[j] = Code!Line("label", text[i].name)
      /\ out[Code!Instructions(i)] = Base + Code!InstructionSize * Code!Instructions(j)

\* Phase one has counted the instructions read and noted, of each label, those
\* before a line that defines it; phase two has written one word for each
\* instruction read, that of a jump resolved.
CodeShape == /\ text \in Seq(Code!Lines) /\ line \in 0 .. Len(text)
             /\ labels \in [LabelNames -> Int] /\ out \in Seq(Int)
LabelsNoted ==
  \A n \in LabelNames :
    labels[n] # Code!Unresolved =>
      \E j \in DOMAIN text : /\ text[j] = Code!Line("label", n)
                             /\ labels[n] = Code!InstructionSize * Code!Instructions(j)
AddressCounts == phase = "one" => address = Code!InstructionSize * Code!Instructions(line)
Written ==
  /\ phase = "one" => out = <<>>
  /\ phase \in {"two", "done"} => /\ Len(out) = Code!Instructions(line)
                                  /\ \A i \in 1 .. line : Resolved(i)
  /\ phase = "done" => line = Len(text)

CodeInv == CodeShape /\ LabelsNoted /\ AddressCounts /\ Written

LEMMA CodeStarts ==
  ASSUME NEW f \in Seq(Code!Lines), Code!Starts(f)
  PROVE  CodeInv
<1>1. /\ text = f /\ phase = "one" /\ line = 0 /\ address = 0 /\ out = <<>>
      /\ labels = [n \in LabelNames |-> -1]
  BY DEF Code!Starts, Code!Unresolved
<1>2. Code!Instructions(0) = 0
  BY CountOne
<1>3. CodeShape
  BY <1>1 DEF CodeShape
<1>4. LabelsNoted
  BY <1>1 DEF LabelsNoted, Code!Unresolved
<1> QED BY <1>1, <1>2, <1>3, <1>4 DEF CodeInv, AddressCounts, Written, Code!InstructionSize

LEMMA CodeInit ==
  ASSUME Code!Init
  PROVE  CodeInv
<1>1. PICK f \in Code!BoundedSeq(Code!Lines, MaxCodeLines) : Code!Starts(f)
  BY DEF Code!Init
<1>2. f \in Seq(Code!Lines)
  BY <1>1 DEF Code!BoundedSeq, Code!SeqOf
<1> QED BY <1>1, <1>2, CodeStarts

LEMMA PhaseOneKeeps ==
  ASSUME CodeInv, Code!PhaseOne, LongLines = FALSE
  PROVE  CodeInv'
<1>1. /\ phase = "one" /\ line # Len(text) /\ text' = text /\ phase' = phase /\ out' = out
      /\ line' = line + 1
  BY DEF Code!PhaseOne, Code!AtEnd
<1>2. /\ text \in Seq(Code!Lines) /\ line \in Nat /\ line + 1 \in 1 .. Len(text)
      /\ labels \in [LabelNames -> Int] /\ out = <<>>
      /\ address = 2 * Code!Instructions(line)
  BY <1>1 DEF CodeInv, CodeShape, AddressCounts, Written, Code!InstructionSize
<1> DEFINE l == text[line + 1]
<1>3. l \in Code!Lines
  BY <1>2
<1>4. IF l.kind = "label" THEN labels' = [labels EXCEPT ![l.name] = address] /\ address' = address
      ELSE labels' = labels /\ address' = address + 2
  <2>1. l.kind # "long"
    BY <1>3 DEF Code!Lines, Code!Line
  <2> QED BY <2>1 DEF Code!PhaseOne, Code!Current, Code!Pieces, Code!InstructionSize
<1>5. \A n : Code!Instructions(n)' = Code!Instructions(n)
  BY <1>1 DEF Code!Instructions
<1>6. address' = 2 * Code!Instructions(line + 1)
  <2>1. /\ Code!Instructions(line) \in Nat
        /\ Code!Instructions(line + 1) = IF l.kind = "label" THEN Code!Instructions(line)
                                         ELSE Code!Instructions(line) + 1
    BY <1>2, CountOne
  <2> HIDE DEF l
  <2> QED BY <1>2, <1>4, <2>1
<1>7. l.kind = "label" => l.name \in LabelNames /\ l = Code!Line("label", l.name)
  BY <1>3 DEF Code!Lines, Code!Line
<1>8. labels' \in [LabelNames -> Int]
  <2>1. address \in Int
    BY <1>2, CountOne
  <2> HIDE DEF l
  <2> QED BY <1>2, <1>4, <1>7, <2>1
<1>9. ASSUME NEW n \in LabelNames, labels'[n] # Code!Unresolved
      PROVE  \E j \in DOMAIN text : /\ text[j] = Code!Line("label", n)
                                    /\ labels'[n] = 2 * Code!Instructions(j)
  <2>1. CASE l.kind = "label" /\ l.name = n
    <3>1. labels'[n] = address
      BY <1>2, <1>4, <2>1
    <3>2. address = 2 * Code!Instructions(line + 1)
      BY <1>2, <2>1, CountOne
    <3>3. line + 1 \in DOMAIN text
      BY <1>2
    <3> QED BY <1>7, <2>1, <3>1, <3>2, <3>3
  <2>2. CASE ~(l.kind = "label" /\ l.name = n)
    <3>1. labels'[n] = labels[n]
      BY <1>2, <1>4, <2>2
    <3> QED BY <1>9, <3>1 DEF CodeInv, LabelsNoted, Code!InstructionSize
  <2> QED BY <2>1, <2>2
<1>10. CodeShape'
  BY <1>1, <1>2, <1>8 DEF CodeShape, Code!Lines
<1>11. LabelsNoted'
  BY <1>1, <1>5, <1>9 DEF LabelsNoted, Code!Unresolved, Code!InstructionSize, Code!Line
<1>12. AddressCounts' /\ Written'
  BY <1>1, <1>2, <1>5, <1>6 DEF AddressCounts, Written, Code!InstructionSize
<1> QED BY <1>10, <1>11, <1>12 DEF CodeInv

LEMMA PhaseTwoKeeps ==
  ASSUME CodeInv, Code!PhaseTwo
  PROVE  CodeInv'
<1>1. /\ phase = "two" /\ line # Len(text) /\ text' = text /\ address' = address
      /\ labels' = labels /\ line' = line + 1
  BY DEF Code!PhaseTwo, Code!AtEnd
<1>2. /\ text \in Seq(Code!Lines) /\ line \in Nat /\ line + 1 \in 1 .. Len(text)
      /\ labels \in [LabelNames -> Int] /\ out \in Seq(Int)
      /\ Len(out) = Code!Instructions(line) /\ \A i \in 1 .. line : Resolved(i)
  BY <1>1 DEF CodeInv, CodeShape, Written
<1> DEFINE l == text[line + 1]
<1>3. /\ l \in Code!Lines
      /\ l.kind = "jump" => l.name \in LabelNames
  <2>1. l \in Code!Lines
    BY <1>2
  <2> QED BY <2>1 DEF Code!Lines, Code!Line
<1>4. \A n : Code!Instructions(n)' = Code!Instructions(n)
  BY <1>1 DEF Code!Instructions
<1>5. LabelsNoted'
  BY <1>1, <1>4 DEF CodeInv, LabelsNoted, Code!Unresolved, Code!InstructionSize, Code!Line
<1>6. CASE l.kind = "jump" /\ labels[l.name] < 0
  <2>1. phase' = "cut" /\ out' = out
    BY <1>6 DEF Code!PhaseTwo, Code!Current
  <2>2. CodeShape'
    BY <1>1, <1>2, <2>1 DEF CodeShape, Code!Lines
  <2> QED BY <1>5, <2>1, <2>2 DEF CodeInv, AddressCounts, Written
<1>7. CASE ~(l.kind = "jump" /\ labels[l.name] < 0)
  <2> DEFINE ResolvedIn(i) ==
        text[i].kind = "jump" =>
          \E j \in DOMAIN text :
            /\ text[j] = Code!Line("label", text[i].name)
            /\ out'[Code!Instructions(i)] = Base + Code!InstructionSize * Code!Instructions(j)
  <2>1. phase' = "two"
    BY <1>1, <1>7 DEF Code!PhaseTwo, Code!Current
  <2>2. out' = CASE l.kind = "label" -> out
                 [] l.kind = "jump"  -> Append(out, labels[l.name] + Base)
                 [] OTHER            -> Append(out, -1)
    BY <1>7 DEF Code!PhaseTwo, Code!Current, Code!Unresolved
  <2>3. /\ out' \in Seq(Int)
        /\ Len(out') = Code!Instructions(line + 1)
        /\ \A i \in 1 .. Code!Instructions(line) : out'[i] = out[i]
    <3> DEFINE c == Code!Instructions(line)
    <3>0. c \in Nat /\ Code!Instructions(line + 1) = IF l.kind = "label" THEN c ELSE c + 1
      BY <1>2, CountOne
    <3> HIDE DEF c
    <3>5. Len(out) = c /\ out \in Seq(Int)
      BY <1>2 DEF c
    <3> SUFFICES /\ out' \in Seq(Int)
                 /\ Len(out') = Code!Instructions(line + 1)
                 /\ \A i \in 1 .. c : out'[i] = out[i]
      BY DEF c
    <3>1. CASE l.kind = "label"
      BY <2>2, <3>0, <3>1, <3>5
    <3>2. CASE l.kind = "jump"
      <4>1. out' = Append(out, labels[l.name] + Base)
        BY <2>2, <3>2
      <4>2. labels[l.name] + Base \in Int
        BY <1>2, <1>3, <3>2, BaseIsAddress
      <4> HIDE DEF l
      <4> QED BY <3>0, <3>2, <3>5, <4>1, <4>2
    <3>3. CASE l.kind \notin {"label", "jump"}
      <4>1. out' = Append(out, -1)
        BY <2>2, <3>3
      <4> HIDE DEF l
      <4> QED BY <3>0, <3>3, <3>5, <4>1
    <3> QED BY <3>1, <3>2, <3>3
  <2>4. ASSUME NEW i \in 1 .. line
        PROVE  ResolvedIn(i)
    <3>1. CASE text[i].kind # "jump"
      BY <3>1
    <3>2. CASE text[i].kind = "jump"
      <4>1. Code!Instructions(i) \in 1 .. Code!Instructions(line)
        BY <1>2, <3>2, CountsGrow
      <4>2. PICK j \in DOMAIN text :
              /\ text[j] = Code!Line("label", text[i].name)
              /\ out[Code!Instructions(i)] = Base + Code!InstructionSize * Code!Instructions(j)
        BY <1>2, <3>2 DEF Resolved
      <4> QED BY <1>1, <1>4, <2>3, <4>1, <4>2 DEF Resolved
    <3> QED BY <3>1, <3>2
  <2>5. ResolvedIn(line + 1)
    <3>1. CASE l.kind # "jump"
      BY <3>1
    <3>2. CASE l.kind = "jump"
      <4>1. labels[l.name] # Code!Unresolved
        BY <1>2, <1>3, <1>7, <3>2 DEF Code!Unresolved
      <4>2. PICK j \in DOMAIN text : /\ text[j] = Code!Line("label", l.name)
                                     /\ labels[l.name] = Code!InstructionSize * Code!Instructions(j)
        BY <1>3, <3>2, <4>1 DEF CodeInv, LabelsNoted
      <4>3. Code!Instructions(line + 1) = Len(out) + 1 /\ out' = Append(out, labels[l.name] + Base)
        BY <1>2, <2>2, <3>2, CountOne
      <4>4. out'[Code!Instructions(line + 1)] = labels[l.name] + Base
        BY <1>2, <4>3
      <4>5. labels[l.name] + Base = Base + labels[l.name]
        BY <1>2, <1>3, <3>2, BaseIsAddress
      <4> QED BY <1>1, <1>4, <4>2, <4>4, <4>5 DEF Resolved
    <3> QED BY <3>1, <3>2
  <2>6. CodeShape'
    BY <1>1, <1>2, <2>3 DEF CodeShape, Code!Lines
  <2>7. \A i \in 1 .. line' : Resolved(i)'
    <3>1. \A i \in 1 .. line + 1 : i \in 1 .. line \/ i = line + 1
      BY <1>2
    <3>2. \A i \in 1 .. line + 1 : ResolvedIn(i)
      <4> HIDE DEF ResolvedIn
      <4> QED BY <2>4, <2>5, <3>1
    <3> QED BY <1>1, <1>4, <3>2 DEF Resolved, Code!Line, Code!InstructionSize
  <2>8. Written'
    BY <1>1, <1>4, <2>1, <2>3, <2>7 DEF Written
  <2> QED BY <1>5, <2>1, <2>6, <2>8 DEF CodeInv, AddressCounts
<1> QED BY <1>6, <1>7

LEMMA CodeStep ==
  ASSUME CodeInv, [Code!Next]_(Code!vars), LongLines = FALSE
  PROVE  CodeInv'
<1>1. CASE Code!PhaseOne
  BY <1>1, PhaseOneKeeps
<1>2. CASE Code!Rewind
  <2>1. /\ phase = "one" /\ phase' = "two" /\ line' = 0 /\ text' = text
        /\ address' = address /\ labels' = labels /\ out' = out /\ out = <<>>
    BY <1>2 DEF Code!Rewind, CodeInv, Written
  <2>2. \A n : Code!Instructions(n)' = Code!Instructions(n)
    BY <2>1 DEF Code!Instructions
  <2>3. Len(out') = 0 /\ Code!Instructions(0)' = 0 /\ 1 .. line' = {}
    BY <2>1, <2>2, CountOne
  <2>4. CodeShape'
    BY <2>1 DEF CodeInv, CodeShape, Code!Lines
  <2>5. LabelsNoted'
    BY <2>1, <2>2 DEF CodeInv, LabelsNoted, Code!Unresolved, Code!InstructionSize, Code!Line
  <2>6. Written'
    BY <2>1, <2>3 DEF Written
  <2> QED BY <2>1, <2>4, <2>5, <2>6 DEF CodeInv, AddressCounts
<1>3. CASE Code!PhaseTwo
  BY <1>3, PhaseTwoKeeps
<1>4. CASE Code!Finish
  <2>1. /\ phase = "two" /\ phase' = "done" /\ line = Len(text) /\ line' = line /\ text' = text
        /\ address' = address /\ labels' = labels /\ out' = out
    BY <1>4 DEF Code!Finish, Code!AtEnd
  <2>2. \A n : Code!Instructions(n)' = Code!Instructions(n)
    BY <2>1 DEF Code!Instructions
  <2>3. \A i : Resolved(i)' <=> Resolved(i)
    BY <2>1, <2>2 DEF Resolved, Code!Line, Code!InstructionSize
  <2>4. CodeShape'
    BY <2>1 DEF CodeInv, CodeShape, Code!Lines
  <2>5. LabelsNoted'
    BY <2>1, <2>2 DEF CodeInv, LabelsNoted, Code!Unresolved, Code!InstructionSize, Code!Line
  <2>6. Written'
    BY <2>1, <2>2, <2>3 DEF CodeInv, Written
  <2> QED BY <2>1, <2>4, <2>5, <2>6 DEF CodeInv, AddressCounts
<1>5. CASE UNCHANGED Code!vars
  <2>1. /\ text' = text /\ phase' = phase /\ line' = line /\ address' = address
        /\ labels' = labels /\ out' = out
    BY <1>5 DEF Code!vars
  <2>2. \A n : Code!Instructions(n)' = Code!Instructions(n)
    BY <2>1 DEF Code!Instructions
  <2>3. \A i : Resolved(i)' <=> Resolved(i)
    BY <2>1, <2>2 DEF Resolved, Code!Line, Code!InstructionSize
  <2>4. CodeShape'
    BY <2>1 DEF CodeInv, CodeShape, Code!Lines
  <2>5. LabelsNoted'
    BY <2>1, <2>2 DEF CodeInv, LabelsNoted, Code!Unresolved, Code!InstructionSize, Code!Line
  <2>6. Written' /\ AddressCounts'
    BY <2>1, <2>2, <2>3 DEF CodeInv, Written, AddressCounts, Code!InstructionSize
  <2> QED BY <2>4, <2>5, <2>6 DEF CodeInv
<1> QED BY <1>1, <1>2, <1>3, <1>4, <1>5 DEF Code!Next

LEMMA JumpsAreRight ==
  ASSUME CodeInv
  PROVE  Code!JumpsResolved
BY DEF CodeInv, CodeShape, Written, Resolved, Code!JumpsResolved

-----------------------------------------------------------------------------
(* The four models at once: whichever is explored, the others keep still. *)

LEMMA EmptyFile ==
  ASSUME Terminations = {TRUE},
         Contents!Starts([kind |-> "data", lines |-> <<>>, terminated |-> TRUE])
  PROVE  LoadInv
<1> DEFINE f == [kind |-> "data", lines |-> <<>>, terminated |-> TRUE]
<1>1. FileOK(f)
  BY DEF FileOK
<1> QED BY <1>1, LoadStarts

(* A file that is loaded is on the disk whole: every word of it, in order, in
   blocks that hold nothing else, as many as were allocated and no more than it
   takes; and data that fits is not refused.  For files of any number of lines
   and blocks of any even size that holds six words or more, if every line ends
   in a newline, as the compilers write them (diskUtility.c:231-397, 635-739). *)
THEOREM LoadsAreWhole ==
  ASSUME Terminations = {TRUE}
  PROVE  MCSpec => []LoadedWhole
<1>1. MCInit => LoadInv
  BY EmptyFile, LoadInit DEF MCInit
<1>2. LoadInv /\ [MCNext]_all => LoadInv'
  <2> SUFFICES ASSUME LoadInv, [MCNext]_all
               PROVE  LoadInv'
    OBVIOUS
  <2>1. CASE Contents!Next
    BY <2>1, LoadStep
  <2>2. CASE UNCHANGED contentsVars
    <3>1. /\ file' = file /\ stage' = stage /\ pos' = pos /\ part' = part
          /\ block' = block /\ blocks' = blocks /\ need' = need
      BY <2>2 DEF contentsVars
    <3>2. FileOK(file)' <=> FileOK(file)
      BY <3>1 DEF FileOK, Header
    <3>3. (need = Contents!BlocksRequired(file))' <=> need = Contents!BlocksRequired(file)
      BY <3>1
    <3>4. (need > Contents!Limit(file))' <=> need > Contents!Limit(file)
      BY <3>1
    <3>5. Filling(file, pos, part, block, blocks)' <=> Filling(file, pos, part, block, blocks)
      BY <3>1 DEF Filling, InPlace, WordsTo, PartsAt
    <3>6. (WordsTo(file, Len(file.lines)) <= WordsTo(file, pos) + part)'
            <=> WordsTo(file, Len(file.lines)) <= WordsTo(file, pos) + part
      BY <3>1 DEF WordsTo
    <3> QED BY <3>1, <3>2, <3>3, <3>4, <3>5, <3>6 DEF LoadInv
  <2> QED BY <2>1, <2>2 DEF MCNext, all
<1>3. LoadInv => LoadedWhole
  BY LoadIsWhole DEF LoadedWhole
<1> QED BY <1>1, <1>2, <1>3, PTL DEF MCSpec

(* Whatever the user loads, in whatever order, and over what was there: no region
   of system code or table overlaps another, and each module, interrupt or
   process that was loaded runs in the pages its labels were resolved for
   (fileSystem.h, memOrg.h, os_startup.spl, boot.spl). *)
THEOREM CodeIsInPlace == MCSpec => []CodeInPlace
<1>1. MCInit => LayoutInv
  BY LayoutInit DEF MCInit
<1>2. LayoutInv /\ [MCNext]_all => LayoutInv'
  <2> SUFFICES ASSUME LayoutInv, [MCNext]_all
               PROVE  LayoutInv'
    OBVIOUS
  <2> QED BY LayoutStep DEF MCNext, all, layoutVars, Layout!vars
<1>3. LayoutInv => CodeInPlace
  BY LayoutIsRight DEF CodeInPlace
<1> QED BY <1>1, <1>2, <1>3, PTL DEF MCSpec

(* Every jump and call of system code goes to the instruction its label was put
   before, in code of any length (labels.c). *)
THEOREM JumpsGoToLabels ==
  ASSUME LongLines = FALSE
  PROVE  MCSpec => []JumpsResolved
<1>1. MCInit => CodeInv
  <2>1. <<>> \in Seq(Code!Lines)
    OBVIOUS
  <2> QED BY <2>1, CodeStarts, CodeInit DEF MCInit
<1>2. CodeInv /\ [MCNext]_all => CodeInv'
  <2> SUFFICES ASSUME CodeInv, [MCNext]_all
               PROVE  CodeInv'
    OBVIOUS
  <2> QED BY CodeStep DEF MCNext, all, codeVars, Code!vars
<1>3. CodeInv => JumpsResolved
  BY JumpsAreRight DEF JumpsResolved
<1> QED BY <1>1, <1>2, <1>3, PTL DEF MCSpec
=============================================================================
