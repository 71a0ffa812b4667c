--------------------------- MODULE FileSystemProofs ---------------------------
(***************************************************************************)
(* The tables of the file system, and files as sequences of words, for any *)
(* number of processes, files, blocks and buffers.                         *)
(***************************************************************************)
EXTENDS FileSystem, FiniteSetTheorems, SequenceTheorems, TLAPS

FileName == Names \cup {RootName}
Datum    == Words \cup {0}
FileOps  == {"seek", "read", "write"}
Working  == {"buffer", "store", "load", "word"}
Past(p)  == pc[p] \in Working

Calls == [op : {"delete"}, inode : Inode, name : FileName]
         \cup [op : {"open"}, inode : Inode, name : FileName, slot : Slot]
         \cup [op : FileOps, inode : Inode, file : OpenFile, arg : Int, pos : Int]

InodeTypes ==
    /\ inode \in [Inode -> [name : FileName \cup {NoName}, size : Int,
                            perm : Permissions \cup {0, None}, blocks : [Part -> Block \cup {None}]]]
    /\ used \in [Block -> 0 .. 1]
    /\ root = [i \in Inode |-> [name |-> inode[i].name, size |-> inode[i].size]]
OpenTypes ==
    /\ opens \in [Inode -> Int]
    /\ oft \in [OpenFile -> [inode : Inode \cup {None}, lseek : Int]]
    /\ res \in [Pid -> [Slot -> OpenFile \cup {None}]]
CacheTypes ==
    /\ buf \in [Buffer -> [block : Block \cup {None}, dirty : 0 .. 1,
                           owner : Pid \cup {None}, page : [Word -> Datum]]]
    /\ disk \in [Block -> [Word -> Datum]]
    /\ heard \in Datum
CallTypes ==
    /\ lock \in [Inode -> Pid \cup {None}]
    /\ pc \in [Pid -> {"user", "inode"} \cup Working]
    /\ call \in [Pid -> Calls \cup {NoCall}]
    /\ \A p \in Pid : pc[p] # "user" => call[p] \in Calls
    /\ running \in Pid \cup {None}

\* Inodes that are free have no blocks; that of the root file never changes.
InodesOK ==
    /\ inode[Root].name = RootName /\ inode[Root].perm = 0 /\ inode[Root].size = RootSize
    /\ \A i \in Inode :
         /\ i = Root \/ ~Exists(i) => \A m \in Part : inode[i].blocks[m] = None
         /\ i # Root => inode[i].size <= MaxSize
         /\ Exists(i) => inode[i].size >= 0

\* Open files are there, and are not read past their end; nobody has one twice.
HandlesOK ==
    /\ \A k \in OpenFile : oft[k].inode # None =>
         Exists(oft[k].inode) /\ 0 <= oft[k].lseek /\ oft[k].lseek <= SizeOf(oft[k].inode)
    /\ \A p \in Pid, s, t \in Slot : res[p][s] # None =>
         oft[res[p][s]].inode # None /\ (res[p][t] = res[p][s] => s = t)

\* What a call knows of the tables when it comes to its lock, perhaps from a sleep.
Asked(p, c) ==
    /\ c.op = "delete" => c.inode # Root
    /\ c.op = "open" => (c.name = RootName <=> c.inode = Root) /\ res[p][c.slot] = None
    /\ c.op \in FileOps => oft[c.file].inode = c.inode /\ \E s \in Slot : res[p][s] = c.file
    /\ c.op = "seek" => c.arg \in Deltas
    /\ c.op = "write" => c.inode # Root /\ c.arg \in Words

\* What a call past the lock works on.
AtWork(p) ==
    /\ call[p].op \in {"read", "write"} /\ I(p) # Root /\ lock[I(p)] = p
    /\ Pos(p) = oft[K(p)].lseek
    /\ Pos(p) < MaxSize
    /\ call[p].op = "read" => Pos(p) < inode[I(p)].size
    /\ Blk(p) # None

InBuffer(p) == /\ pc[p] \in {"store", "load", "word"} => buf[F(p)].owner = p
               /\ pc[p] = "word" => buf[F(p)].block = Blk(p)

CallOK(p) == /\ pc[p] # "user" => Asked(p, call[p])
             /\ Past(p) => AtWork(p) /\ InBuffer(p)
CallsOK == \A p \in Pid : CallOK(p)

\* The block beyond the end of a file is that of the word that is being added.
Adding(p, i) == Past(p) /\ call[p].op = "write" /\ I(p) = i /\ Pos(p) = inode[i].size
EndOK(i) ==
    \A m \in Part :
        /\ m * BlockSize < inode[i].size => inode[i].blocks[m] # None
        /\ m * BlockSize >= inode[i].size /\ inode[i].blocks[m] # None =>
             m * BlockSize = inode[i].size /\ \E p \in Pid : Adding(p, i)
Ends == \A i \in Inode \ {Root} : EndOK(i)

InodesInv  == InodeTypes /\ InodesOK /\ BlocksOwned
HandlesInv == OpenTypes /\ HandlesOK /\ OpenCounts
FilesInv   == InodesInv /\ HandlesInv /\ CacheTypes /\ CallTypes /\ CallsOK /\ Ends
-----------------------------------------------------------------------------
(***************************************************************************)
(* Places in a block.                                                      *)
(***************************************************************************)
LEMMA DivFacts ==
    ASSUME NEW B \in Nat \ {0}, NEW n \in Nat
    PROVE  /\ n \div B \in Nat /\ n % B \in 0 .. B - 1
           /\ n = ((n \div B) * B) + (n % B)
OBVIOUS

LEMMA DivLess ==
    ASSUME NEW B \in Nat \ {0}, NEW n \in Nat, NEW M \in Nat, n < M * B
    PROVE  n \div B < M
<1>1. PICK d \in Nat, r \in 0 .. B - 1 : d = n \div B /\ n = d * B + r
  BY DivFacts
<1>2. SUFFICES ASSUME d >= M PROVE FALSE
  BY <1>1
<1>3. d * B >= M * B
  BY <1>2
<1> QED BY <1>1, <1>3

LEMMA DivUnique ==
    ASSUME NEW B \in Nat \ {0}, NEW n \in Nat, NEW m \in Nat, m * B <= n, n < m * B + B
    PROVE  n \div B = m /\ n % B = n - m * B
<1>1. PICK d \in Nat, r \in 0 .. B - 1 : d = n \div B /\ n = d * B + r /\ r = n % B
  BY DivFacts
<1>2. ~(d >= m + 1)
  <2>1. SUFFICES ASSUME d >= m + 1 PROVE FALSE
    OBVIOUS
  <2>2. d * B >= (m + 1) * B /\ (m + 1) * B = m * B + B
    BY <2>1
  <2> QED BY <1>1, <2>2
<1>3. ~(m >= d + 1)
  <2>1. SUFFICES ASSUME m >= d + 1 PROVE FALSE
    OBVIOUS
  <2>2. m * B >= (d + 1) * B /\ (d + 1) * B = d * B + B
    BY <2>1
  <2> QED BY <1>1, <2>2
<1> QED BY <1>1, <1>2, <1>3

\* Where a word of a file is.
LEMMA PlaceOf ==
    ASSUME NEW n \in Nat, n < MaxSize
    PROVE  /\ n \div BlockSize \in Part /\ n % BlockSize \in Word
           /\ (n \div BlockSize) * BlockSize <= n
           /\ n % BlockSize = 0 => (n \div BlockSize) * BlockSize = n
           /\ n % BlockSize # 0 => (n \div BlockSize) * BlockSize < n
           /\ \A m \in Part : m * BlockSize = n => n \div BlockSize = m
<1>1. BlockSize \in Nat \ {0} /\ MaxBlocks \in Nat
  BY FileSystemAssumption
<1>2. PICK d \in Nat, r \in 0 .. BlockSize - 1 :
        d = n \div BlockSize /\ n = d * BlockSize + r /\ r = n % BlockSize
  BY <1>1, DivFacts
<1>3. d < MaxBlocks
  BY <1>1, <1>2, DivLess DEF MaxSize
<1>4. \A m \in Part : m * BlockSize = n => n \div BlockSize = m
  <2> SUFFICES ASSUME NEW m \in Part, m * BlockSize = n PROVE n \div BlockSize = m
    OBVIOUS
  <2>1. m \in Nat /\ m * BlockSize <= n /\ n < m * BlockSize + BlockSize
    BY <1>1 DEF Part
  <2> QED BY <1>1, <2>1, DivUnique
<1>5. d * BlockSize \in Nat
  BY <1>1
<1> QED BY <1>1, <1>2, <1>3, <1>4, <1>5 DEF Part, Word

LEMMA HomeOf == ASSUME NEW b \in Block PROVE BufferOf(b) \in Buffer
<1>1. b \in Nat /\ NumBuffers \in Nat \ {0}
  BY FileSystemAssumption DEF Block
<1> QED BY <1>1, DivFacts DEF BufferOf, Buffer
-----------------------------------------------------------------------------
(***************************************************************************)
(* Calls, at their lock and past it.                                       *)
(***************************************************************************)
LEMMA Constants ==
    /\ None \notin Pid /\ None \notin Inode /\ None \notin Block /\ None \notin OpenFile
    /\ Root \in Inode /\ None = -1 /\ Words \subseteq Int /\ Deltas \subseteq Int
    /\ RootName # NoName /\ RootSize \in Nat /\ MaxSize \in Nat /\ Inode \subseteq Nat
<1>1. MaxBlocks * BlockSize \in Nat
  BY FileSystemAssumption
<1> QED BY <1>1, FileSystemAssumption
        DEF None, Inode, Block, OpenFile, Root, RootName, NoName, MaxSize

LEMMA CallFields ==
    ASSUME NEW c \in Calls
    PROVE  /\ c.inode \in Inode /\ c.op \in {"delete", "open"} \cup FileOps
           /\ c.op = "open" => c.slot \in Slot /\ c.name \in FileName
           /\ c.op \in FileOps => /\ c.file \in OpenFile /\ c.arg \in Int /\ c.pos \in Int
                                  /\ c \in [op : FileOps, inode : Inode, file : OpenFile,
                                            arg : Int, pos : Int]
BY DEF Calls, FileOps

Due(p, c) == c \in Calls /\ Asked(p, c) /\ pc[p] \in {"user", "inode"} /\ p \in Pid

LEMMA AskedCall ==
    ASSUME FilesInv, NEW p \in Pid, NEW c \in AtInode(p)
    PROVE  Due(p, c)
<1> USE DEF FilesInv
<1>1. CASE At(p, "user")
  <2>1. c \in NewCalls(p) /\ pc[p] = "user"
    BY <1>1 DEF AtInode, At
  <2>2. CASE c \in Deletes(p)
    <3>1. c.inode \in Inode /\ c.op = "delete" /\ ~Denied(p, c.inode)
          /\ c \in [op : {"delete"}, inode : Inode, name : FileName]
      BY <2>2 DEF Deletes, FileName
    <3>2. c.inode # Root
      BY <3>1 DEF Denied, UserOf, CurrentUser, InodesInv, InodesOK
    <3> QED BY <2>1, <3>1, <3>2 DEF Due, Asked, Calls, FileOps
  <2>3. CASE c \in Opens(p)
    <3>1. /\ c.inode \in Inode /\ c.op = "open" /\ c.slot \in Slot
          /\ c \in [op : {"open"}, inode : Inode, name : FileName, slot : Slot]
          /\ First(Find(c.name), c.inode) /\ res[p][c.slot] = None
      BY <2>3 DEF Opens, FileName, First, FreeSlots
    <3>2. c.name = RootName => c.inode <= Root
      BY <3>1, Constants DEF First, Find, InodesInv, InodesOK
    <3>3. c.inode = Root => c.name = RootName
      BY <3>1 DEF First, Find, InodesInv, InodesOK
    <3>4. c.inode <= Root => c.inode = Root
      BY <3>1, Constants DEF Root
    <3> QED BY <2>1, <3>1, <3>2, <3>3, <3>4 DEF Due, Asked, Calls, FileOps
  <2>4. ASSUME NEW op \in FileOps, NEW s \in MyFiles(p), NEW arg \in Int, c = OnFile(p, op, s, arg),
               op = "write" => s \in Writable(p) /\ arg \in Words,
               op = "seek" => arg \in Deltas
        PROVE  Due(p, c)
    <3>1. s \in Slot /\ res[p][s] \in OpenFile /\ res[p][s] # None
      BY <2>4, Constants DEF MyFiles, IsFile, HandlesInv, OpenTypes
    <3>2. oft[res[p][s]].inode \in Inode
      <4>1. oft[res[p][s]].inode # None
        BY <3>1 DEF HandlesInv, HandlesOK
      <4> QED BY <3>1, <4>1 DEF HandlesInv, OpenTypes
    <3>3. /\ c.op = op /\ c.inode = oft[res[p][s]].inode /\ c.file = res[p][s] /\ c.arg = arg
          /\ c \in [op : FileOps, inode : Inode, file : OpenFile, arg : Int, pos : Int]
      BY <2>4, <3>1, <3>2 DEF OnFile, FileOf
    <3>4. op = "write" => c.inode # Root
      BY <2>4, <3>3 DEF Writable, FileOf
    <3> QED BY <2>1, <2>4, <3>1, <3>3, <3>4 DEF Due, Asked, Calls, FileOps
  <2>5. \/ c \in Deletes(p) \/ c \in Opens(p)
        \/ \E s \in MyFiles(p), d \in Deltas : c = OnFile(p, "seek", s, d)
        \/ \E s \in MyFiles(p) : c = OnFile(p, "read", s, 0)
        \/ \E s \in Writable(p), w \in Words : c = OnFile(p, "write", s, w)
    BY <2>1 DEF NewCalls
  <2>6. Writable(p) \subseteq MyFiles(p) /\ Words \subseteq Int /\ Deltas \subseteq Int
    BY Constants DEF Writable
  <2> QED BY <2>2, <2>3, <2>4, <2>5, <2>6 DEF FileOps
<1>2. CASE ~At(p, "user")
  BY <1>2 DEF AtInode, At, CallTypes, CallsOK, CallOK, Due
<1> QED BY <1>1, <1>2

LEMMA WorkFacts ==
    ASSUME FilesInv, NEW p \in Pid, Past(p)
    PROVE  /\ call[p] \in Calls /\ call[p].op \in {"read", "write"} /\ call[p].op \in FileOps
           /\ I(p) \in Inode \ {Root} /\ K(p) \in OpenFile /\ oft[K(p)].inode = I(p)
           /\ Exists(I(p)) /\ lock[I(p)] = p /\ oft[K(p)].lseek = Pos(p)
           /\ Pos(p) \in Nat /\ Pos(p) < MaxSize /\ Pos(p) <= inode[I(p)].size
           /\ call[p].op = "read" => Pos(p) < inode[I(p)].size
           /\ Pos(p) \div BlockSize \in Part /\ Pos(p) % BlockSize \in Word
           /\ Blk(p) \in Block /\ Blk(p) = inode[I(p)].blocks[Pos(p) \div BlockSize]
           /\ F(p) \in Buffer /\ pc[p] # "user"
<1>1. pc[p] # "user" /\ call[p] \in Calls /\ Asked(p, call[p]) /\ AtWork(p)
  BY DEF FilesInv, CallTypes, CallsOK, CallOK, Past, Working
<1>2. call[p].op \in {"read", "write"} /\ call[p].op \in FileOps
  BY <1>1 DEF AtWork, FileOps
<1>3. I(p) \in Inode \ {Root} /\ K(p) \in OpenFile /\ oft[K(p)].inode = I(p)
  BY <1>1, <1>2, CallFields DEF I, K, Asked, AtWork
<1>4. Exists(I(p)) /\ 0 <= oft[K(p)].lseek /\ oft[K(p)].lseek <= SizeOf(I(p))
  BY <1>3, Constants DEF FilesInv, HandlesInv, HandlesOK
<1>5. /\ Pos(p) \in Nat /\ Pos(p) < MaxSize /\ Pos(p) <= inode[I(p)].size
      /\ oft[K(p)].lseek = Pos(p)
  <2>1. oft[K(p)].lseek \in Int
    BY <1>3 DEF FilesInv, HandlesInv, OpenTypes
  <2> QED BY <1>1, <1>3, <1>4, <2>1 DEF AtWork, SizeOf
<1>6. Pos(p) \div BlockSize \in Part /\ Pos(p) % BlockSize \in Word
  BY <1>5, PlaceOf
<1>7. Blk(p) = inode[I(p)].blocks[Pos(p) \div BlockSize]
  BY DEF Blk
<1>8. Blk(p) \in Block
  <2>1. Blk(p) \in Block \cup {None}
    BY <1>3, <1>6, <1>7 DEF FilesInv, InodesInv, InodeTypes
  <2> QED BY <1>1, <2>1 DEF AtWork
<1>9. F(p) \in Buffer
  BY <1>8, HomeOf DEF F
<1> QED BY <1>1, <1>2, <1>3, <1>4, <1>5, <1>6, <1>7, <1>8, <1>9 DEF AtWork

\* Calls past the lock work on different files.
LEMMA WorkApart ==
    ASSUME FilesInv, NEW p \in Pid, Past(p)
    PROVE  /\ \A q \in Pid : Past(q) /\ q # p => I(q) # I(p) /\ K(q) # K(p)
           /\ \A i : lock[i] = None => I(p) # i
           /\ \A k : lock[oft[k].inode] = None => K(p) # k
           /\ \A k : oft[k].inode \notin Inode \ {Root} => K(p) # k
<1>1. lock[I(p)] = p /\ oft[K(p)].inode = I(p) /\ I(p) \in Inode \ {Root} /\ p # None
  BY WorkFacts, Constants
<1>2. ASSUME NEW q \in Pid, Past(q), q # p
      PROVE  I(q) # I(p) /\ K(q) # K(p)
  <2>1. lock[I(q)] = q /\ oft[K(q)].inode = I(q)
    BY <1>2, WorkFacts
  <2> QED BY <1>1, <1>2, <2>1
<1> QED BY <1>1, <1>2
-----------------------------------------------------------------------------
(***************************************************************************)
(* What a step of one process leaves alone.                                *)
(***************************************************************************)
\* What the invariant says of q's call rests on these parts of the state.
Left(q) ==
    /\ pc'[q] = pc[q] /\ call'[q] = call[q]
    /\ pc[q] # "user" => res'[q] = res[q]
    /\ pc[q] # "user" /\ call[q].op \in FileOps => oft'[K(q)].inode = oft[K(q)].inode
    /\ Past(q) => /\ inode'[I(q)] = inode[I(q)] /\ lock'[I(q)] = lock[I(q)]
                  /\ oft'[K(q)].lseek = oft[K(q)].lseek
                  /\ buf[F(q)].owner = q => buf'[F(q)].owner = q /\ buf'[F(q)].block = buf[F(q)].block

LEMMA KeepCall ==
    ASSUME FilesInv, NEW q \in Pid, Left(q)
    PROVE  CallOK(q)'
<1> USE DEF Left
<1>1. CallOK(q) /\ (pc[q] # "user" => call[q] \in Calls)
  BY DEF FilesInv, CallsOK, CallTypes
<1>2. ASSUME pc[q] # "user" PROVE Asked(q, call[q])'
  BY <1>1, <1>2 DEF CallOK, Asked, K
<1>3. ASSUME Past(q) PROVE (AtWork(q) /\ InBuffer(q))'
  <2>1. /\ I(q)' = I(q) /\ K(q)' = K(q) /\ Pos(q)' = Pos(q) /\ Blk(q)' = Blk(q) /\ F(q)' = F(q)
    BY <1>3 DEF I, K, Pos, Blk, F
  <2>2. AtWork(q) /\ InBuffer(q)
    BY <1>1, <1>3 DEF CallOK
  <2>3. AtWork(q)'
    BY <1>3, <2>1, <2>2 DEF AtWork
  <2>4. InBuffer(q)'
    BY <1>3, <2>1, <2>2 DEF InBuffer
  <2> QED BY <2>3, <2>4
<1> QED BY <1>2, <1>3 DEF CallOK, Past

LEMMA KeepEnd ==
    ASSUME FilesInv, NEW p \in Pid, \A q \in Pid \ {p} : Left(q), NEW i \in Inode \ {Root},
           inode'[i].blocks = inode[i].blocks, inode'[i].size = inode[i].size,
           Adding(p, i) => Adding(p, i)'
    PROVE  EndOK(i)'
<1>1. ASSUME NEW q \in Pid, Adding(q, i) PROVE Adding(q, i)'
  BY <1>1 DEF Adding, Left, Past, I, Pos
<1>2. EndOK(i)
  BY DEF FilesInv, Ends
<1> QED BY <1>1, <1>2 DEF EndOK

LEMMA KeepOwned ==
    ASSUME FilesInv, used' = used,
           \A i \in Inode, m \in Part : inode'[i].blocks[m] = inode[i].blocks[m]
    PROVE  BlocksOwned'
<1>1. BlocksOwned
  BY DEF FilesInv, InodesInv
<1> QED BY <1>1 DEF BlocksOwned

LEMMA KeepCallTypes ==
    ASSUME FilesInv, UNCHANGED <<lock, pc, call, running>>
    PROVE  CallTypes'
BY DEF FilesInv, CallTypes

LEMMA KeepInodes ==
    ASSUME FilesInv, UNCHANGED <<inode, root, used>>
    PROVE  InodesInv'
BY DEF FilesInv, InodesInv, InodeTypes, InodesOK, BlocksOwned, Exists

LEMMA KeepHandles ==
    ASSUME FilesInv, UNCHANGED <<inode, opens, oft, res>>
    PROVE  HandlesInv'
<1>1. OpenTypes' /\ OpenCounts'
  BY DEF FilesInv, HandlesInv, OpenTypes, OpenCounts
<1>2. HandlesOK'
  BY DEF FilesInv, HandlesInv, HandlesOK, Exists, SizeOf
<1> QED BY <1>1, <1>2 DEF HandlesInv

LEMMA KeepCache ==
    ASSUME FilesInv, UNCHANGED <<cache, heard>>
    PROVE  CacheTypes'
BY DEF FilesInv, CacheTypes, cache
-----------------------------------------------------------------------------
(***************************************************************************)
(* Calls that lock no inode.                                               *)
(***************************************************************************)
LEMMA CreateSafe ==
    ASSUME FilesInv, NEW p \in Pid, NEW name \in Names, NEW perm \in Permissions,
           Create(p, name, perm)
    PROVE  FilesInv'
<1> DEFINE new == [name |-> name, size |-> 0, perm |-> perm, blocks |-> [m \in Part |-> None]]
<1>1. PICK i \in Inode :
        /\ i \in Find(NoName) /\ inode' = [inode EXCEPT ![i] = new]
        /\ root' = [root EXCEPT ![i] = [name |-> name, size |-> 0]]
  BY DEF Create, First
<1>2. ~Exists(i) /\ i # Root
  BY <1>1, Constants DEF Find, Exists, FilesInv, InodesInv, InodesOK
<1>3. /\ UNCHANGED <<used, lock, opens, oft, res, cache, pc, call, running, heard>>
      /\ pc[p] = "user"
  BY DEF Create, At
<1>4. inode'[i] = new /\ \A j \in Inode : j # i => inode'[j] = inode[j]
  BY <1>1 DEF FilesInv, InodesInv, InodeTypes
<1>5. InodeTypes'
  <2>1. inode \in [Inode -> [name : FileName \cup {NoName}, size : Int,
                             perm : Permissions \cup {0, None}, blocks : [Part -> Block \cup {None}]]]
    BY DEF FilesInv, InodesInv, InodeTypes
  <2>2. new \in [name : FileName \cup {NoName}, size : Int,
                 perm : Permissions \cup {0, None}, blocks : [Part -> Block \cup {None}]]
    BY DEF FileName
  <2>3. inode' \in [Inode -> [name : FileName \cup {NoName}, size : Int,
                             perm : Permissions \cup {0, None}, blocks : [Part -> Block \cup {None}]]]
    BY <1>1, <2>1, <2>2
  <2>4. root = [j \in Inode |-> [name |-> inode[j].name, size |-> inode[j].size]]
    BY DEF FilesInv, InodesInv, InodeTypes
  <2>5. root' = [j \in Inode |-> [name |-> inode'[j].name, size |-> inode'[j].size]]
    BY <1>1, <1>4, <2>4
  <2>6. (used \in [Block -> 0 .. 1])'
    BY <1>3 DEF FilesInv, InodesInv, InodeTypes
  <2> QED BY <2>3, <2>5, <2>6 DEF InodeTypes
<1>6. InodesOK'
  <2>1. InodesOK
    BY DEF FilesInv, InodesInv
  <2>2. /\ \A m \in Part : inode'[i].blocks[m] = None
        /\ inode'[i].size = 0 /\ inode'[Root] = inode[Root]
    <3>1. inode'[i].blocks = [m \in Part |-> None] /\ inode'[i].size = 0
      BY <1>4
    <3>2. inode'[Root] = inode[Root]
      BY <1>2, <1>4, Constants
    <3> QED BY <3>1, <3>2
  <2>3. /\ inode'[Root].name = RootName /\ inode'[Root].perm = 0 /\ inode'[Root].size = RootSize
    BY <2>1, <2>2 DEF InodesOK
  <2>4. ASSUME NEW j \in Inode
        PROVE  /\ j = Root \/ ~Exists(j)' => \A m \in Part : inode'[j].blocks[m] = None
               /\ j # Root => inode'[j].size <= MaxSize
               /\ Exists(j)' => inode'[j].size >= 0
    <3>1. CASE j = i
      BY <2>2, <3>1, Constants
    <3>2. CASE j # i
      BY <1>4, <2>1, <3>2 DEF InodesOK, Exists
    <3> QED BY <3>1, <3>2
  <2> QED BY <2>3, <2>4 DEF InodesOK
<1>7. BlocksOwned'
  <2>1. \A m \in Part : inode[i].blocks[m] = None
    BY <1>2 DEF FilesInv, InodesInv, InodesOK
  <2>2. \A j \in Inode, m \in Part : inode'[j].blocks[m] = inode[j].blocks[m]
    BY <1>4, <2>1
  <2> QED BY <1>3, <2>2, KeepOwned
<1>8. HandlesInv'
  <2>1. OpenTypes' /\ OpenCounts'
    BY <1>3 DEF FilesInv, HandlesInv, OpenTypes, OpenCounts
  <2>2. \A k \in OpenFile : oft[k].inode # None => oft[k].inode \in Inode /\ oft[k].inode # i
    BY <1>2 DEF FilesInv, HandlesInv, HandlesOK, OpenTypes
  <2>3. HandlesOK
    BY DEF FilesInv, HandlesInv
  <2>4. HandlesOK'
    BY <1>3, <1>4, <2>2, <2>3 DEF HandlesOK, Exists, SizeOf
  <2> QED BY <2>1, <2>4 DEF HandlesInv
<1>9. \A q \in Pid : Left(q)
  <2> SUFFICES ASSUME NEW q \in Pid PROVE Left(q)
    OBVIOUS
  <2>1. Past(q) => inode'[I(q)] = inode[I(q)]
    BY <1>2, <1>4, WorkFacts
  <2> QED BY <1>3, <2>1 DEF Left, cache
<1>10. CallsOK'
  BY <1>9, KeepCall DEF CallsOK
<1>11. Ends'
  <2> SUFFICES ASSUME NEW j \in Inode \ {Root} PROVE EndOK(j)'
    BY DEF Ends
  <2>1. CASE j = i
    BY <1>4, <2>1, FileSystemAssumption DEF EndOK, Part
  <2>2. CASE j # i
    <3>1. ~Adding(p, j)
      BY <1>3 DEF Adding, Past, Working
    <3> QED BY <1>4, <1>9, <2>2, <3>1, KeepEnd
  <2> QED BY <2>1, <2>2
<1>12. CacheTypes' /\ CallTypes'
  BY <1>3, KeepCache, KeepCallTypes
<1> QED BY <1>5, <1>6, <1>7, <1>8, <1>10, <1>11, <1>12 DEF FilesInv, InodesInv

LEMMA ForkSafe ==
    ASSUME FilesInv, NEW p \in Pid, NEW q \in Pid, Fork(p, q)
    PROVE  FilesInv'
<1>1. /\ UNCHANGED <<inode, root, used, lock, opens, oft, cache, pc, call, running, heard>>
      /\ pc[p] = "user" /\ pc[q] = "user" /\ res' = [res EXCEPT ![q] = res[p]]
  BY DEF Fork, At
<1>2. \A r \in Pid : Left(r)
  BY <1>1 DEF Left, FilesInv, HandlesInv, OpenTypes, cache
<1>3. OpenTypes' /\ OpenCounts'
  BY <1>1 DEF FilesInv, HandlesInv, OpenTypes, OpenCounts
<1>4. \A r \in Pid : res'[r] = res[r] \/ res'[r] = res[p]
  BY <1>1 DEF FilesInv, HandlesInv, OpenTypes
<1>5. HandlesOK
  BY DEF FilesInv, HandlesInv
<1>6. HandlesOK'
  <2>1. \A k \in OpenFile : oft[k].inode # None =>
          Exists(oft[k].inode)' /\ 0 <= oft[k].lseek /\ oft[k].lseek <= SizeOf(oft[k].inode)'
    BY <1>1, <1>5 DEF HandlesOK, Exists, SizeOf
  <2>2. ASSUME NEW r \in Pid, NEW s \in Slot, NEW t \in Slot, res'[r][s] # None
        PROVE  oft[res'[r][s]].inode # None /\ (res'[r][t] = res'[r][s] => s = t)
    BY <1>4, <1>5, <2>2 DEF HandlesOK
  <2> QED BY <1>1, <2>1, <2>2 DEF HandlesOK
<1>7. CallsOK'
  BY <1>2, KeepCall DEF CallsOK
<1>8. Ends'
  <2>1. \A i : ~Adding(p, i)
    BY <1>1 DEF Adding, Past, Working
  <2> QED BY <1>1, <1>2, <2>1, KeepEnd DEF Ends
<1> QED BY <1>1, <1>3, <1>6, <1>7, <1>8, KeepInodes, KeepCache, KeepCallTypes DEF FilesInv, HandlesInv

LEMMA CountFacts ==
    /\ \A i : IsFiniteSet({k \in OpenFile : oft[k].inode = i})
    /\ \A i : Cardinality({k \in OpenFile : oft[k].inode = i}) \in Nat
<1>1. IsFiniteSet(OpenFile)
  BY FileSystemAssumption, FS_Interval DEF OpenFile
<1>2. \A i : IsFiniteSet({k \in OpenFile : oft[k].inode = i})
  BY <1>1, FS_Subset
<1> QED BY <1>2, FS_CardinalityType

\* How the count of a file follows its open files.
LEMMA CountLess ==
    ASSUME NEW i, NEW k \in OpenFile, oft[k].inode = i, oft'[k].inode # i,
           \A l \in OpenFile : l # k => oft'[l].inode = oft[l].inode
    PROVE  /\ Cardinality({l \in OpenFile : oft[l].inode = i}) \in Nat \ {0}
           /\ Cardinality({l \in OpenFile : oft'[l].inode = i})
                = Cardinality({l \in OpenFile : oft[l].inode = i}) - 1
<1> DEFINE S == {l \in OpenFile : oft[l].inode = i}
<1>1. IsFiniteSet(S) /\ Cardinality(S) \in Nat /\ k \in S
  BY CountFacts
<1>2. Cardinality(S) # 0
  BY <1>1, FS_EmptySet
<1>3. {l \in OpenFile : oft'[l].inode = i} = S \ {k}
  OBVIOUS
<1>4. Cardinality(S \ {k}) = Cardinality(S) - 1
  BY <1>1, FS_RemoveElement
<1> QED BY <1>1, <1>2, <1>3, <1>4

LEMMA CountMore ==
    ASSUME NEW i, NEW k \in OpenFile, oft[k].inode # i, oft'[k].inode = i,
           \A l \in OpenFile : l # k => oft'[l].inode = oft[l].inode
    PROVE  Cardinality({l \in OpenFile : oft'[l].inode = i})
             = Cardinality({l \in OpenFile : oft[l].inode = i}) + 1
<1> DEFINE S == {l \in OpenFile : oft[l].inode = i}
<1>1. IsFiniteSet(S) /\ k \notin S
  BY CountFacts
<1>2. {l \in OpenFile : oft'[l].inode = i} = S \cup {k}
  OBVIOUS
<1>3. Cardinality(S \cup {k}) = Cardinality(S) + 1
  BY <1>1, FS_AddElement
<1> QED BY <1>2, <1>3

LEMMA CloseSafe ==
    ASSUME FilesInv, NEW p \in Pid, NEW s \in Slot, ClosesOwn(p, s), Close(p, s)
    PROVE  FilesInv'
<1>1. PICK k : k = res[p][s]
  OBVIOUS
<1>2. k \in OpenFile /\ oft[k].inode \in Inode /\ oft[k].inode # None
  <2>1. k # None /\ k \in OpenFile
    BY <1>1 DEF Close, IsFile, FilesInv, HandlesInv, OpenTypes
  <2>2. oft[k].inode # None
    BY <1>1, <2>1 DEF FilesInv, HandlesInv, HandlesOK
  <2> QED BY <2>1, <2>2 DEF FilesInv, HandlesInv, OpenTypes
<1>3. /\ oft' = [oft EXCEPT ![k] = Closed]
      /\ opens' = IF oft[k].inode = Root THEN opens
                  ELSE [opens EXCEPT ![oft[k].inode] = OpenLess(@)]
      /\ res' = [res EXCEPT ![p][s] = None]
      /\ UNCHANGED <<inode, root, used, lock, cache, pc, call, running, heard>>
      /\ pc[p] = "user"
  BY <1>1, <1>2 DEF Close, At
<1>4. \A q \in Pid, t \in Slot : res[q][t] = k => q = p
  BY <1>1 DEF ClosesOwn, Shared
<1>5. oft'[k] = Closed /\ \A l \in OpenFile : l # k => oft'[l] = oft[l]
  BY <1>2, <1>3 DEF FilesInv, HandlesInv, OpenTypes
<1>6. /\ res'[p][s] = None /\ \A t \in Slot : t # s => res'[p][t] = res[p][t]
      /\ \A q \in Pid : q # p => res'[q] = res[q]
  BY <1>3 DEF FilesInv, HandlesInv, OpenTypes
<1>7. OpenTypes'
  <2>1. OpenTypes
    BY DEF FilesInv, HandlesInv
  <2>2. oft' \in [OpenFile -> [inode : Inode \cup {None}, lseek : Int]]
    <3>1. Closed \in [inode : Inode \cup {None}, lseek : Int]
      BY Constants DEF Closed
    <3> QED BY <1>2, <1>3, <2>1, <3>1 DEF OpenTypes
  <2>3. opens' \in [Inode -> Int]
    <3>1. \A n \in Int : OpenLess(n) \in Int
      BY DEF OpenLess, None
    <3>2. opens \in [Inode -> Int]
      BY <2>1 DEF OpenTypes
    <3> QED BY <1>2, <1>3, <3>1, <3>2
  <2>4. res' \in [Pid -> [Slot -> OpenFile \cup {None}]]
    BY <1>3, <2>1 DEF OpenTypes
  <2> QED BY <2>2, <2>3, <2>4 DEF OpenTypes
<1>8. HandlesOK'
  <2>1. HandlesOK
    BY DEF FilesInv, HandlesInv
  <2>2. ASSUME NEW l \in OpenFile, oft'[l].inode # None
        PROVE  oft'[l] = oft[l]
    BY <1>5, <2>2 DEF Closed
  <2>3. (\A l \in OpenFile : oft[l].inode # None =>
           Exists(oft[l].inode) /\ 0 <= oft[l].lseek /\ oft[l].lseek <= SizeOf(oft[l].inode))'
    BY <1>3, <2>1, <2>2 DEF HandlesOK, Exists, SizeOf
  <2>4. ASSUME NEW q \in Pid, NEW t \in Slot, NEW u \in Slot, res'[q][t] # None
        PROVE  oft'[res'[q][t]].inode # None /\ (res'[q][u] = res'[q][t] => t = u)
    <3>1. res'[q][t] = res[q][t] /\ res[q][t] \in OpenFile /\ (q = p => t # s)
      BY <1>6, <2>4 DEF FilesInv, HandlesInv, OpenTypes
    <3>2. res[q][t] # k
      BY <1>1, <1>4, <2>1, <2>4, <3>1 DEF HandlesOK
    <3>3. oft'[res'[q][t]].inode # None
      BY <1>5, <2>1, <2>4, <3>1, <3>2 DEF HandlesOK
    <3>4. res'[q][u] = res[q][u] \/ res'[q][u] = None
      BY <1>6
    <3> QED BY <2>1, <2>4, <3>1, <3>3, <3>4 DEF HandlesOK
  <2> QED BY <2>3, <2>4 DEF HandlesOK
<1>9. OpenCounts'
  <2> SUFFICES ASSUME NEW i \in Inode \ {Root}
               PROVE  opens'[i] = IF Cardinality({l \in OpenFile : oft'[l].inode = i}) = 0 THEN None
                                  ELSE Cardinality({l \in OpenFile : oft'[l].inode = i})
    BY DEF OpenCounts
  <2>1. opens[i] = IF Cardinality({l \in OpenFile : oft[l].inode = i}) = 0 THEN None
                   ELSE Cardinality({l \in OpenFile : oft[l].inode = i})
    BY DEF FilesInv, HandlesInv, OpenCounts
  <2>2. CASE oft[k].inode = i
    <3>1. oft'[k].inode # i /\ \A l \in OpenFile : l # k => oft'[l].inode = oft[l].inode
      BY <1>5, Constants DEF Closed
    <3>2. PICK n \in Nat \ {0} : /\ n = Cardinality({l \in OpenFile : oft[l].inode = i})
                                 /\ Cardinality({l \in OpenFile : oft'[l].inode = i}) = n - 1
      BY <1>2, <2>2, <3>1, CountLess
    <3>3. opens'[i] = OpenLess(opens[i])
      BY <1>3, <2>2 DEF FilesInv, HandlesInv, OpenTypes
    <3> QED BY <2>1, <3>2, <3>3 DEF OpenLess
  <2>3. CASE oft[k].inode # i
    <3>1. {l \in OpenFile : oft'[l].inode = i} = {l \in OpenFile : oft[l].inode = i}
      BY <1>5, <2>3, Constants DEF Closed
    <3>2. opens'[i] = opens[i]
      BY <1>3, <2>3 DEF FilesInv, HandlesInv, OpenTypes
    <3> QED BY <2>1, <3>1, <3>2
  <2> QED BY <2>2, <2>3
<1>10. \A q \in Pid : Left(q)
  <2> SUFFICES ASSUME NEW q \in Pid PROVE Left(q)
    OBVIOUS
  <2>1. ASSUME pc[q] # "user", call[q].op \in FileOps
        PROVE  K(q) \in OpenFile /\ K(q) # k
    <3>1. call[q] \in Calls /\ Asked(q, call[q])
      BY <2>1 DEF FilesInv, CallTypes, CallsOK, CallOK
    <3>2. \E t \in Slot : res[q][t] = K(q)
      BY <2>1, <3>1 DEF Asked, K
    <3> QED BY <1>3, <1>4, <2>1, <3>1, <3>2, CallFields DEF K
  <2>2. Past(q) => pc[q] # "user" /\ call[q].op \in FileOps
    BY WorkFacts
  <2> QED BY <1>3, <1>5, <1>6, <2>1, <2>2 DEF Left, cache
<1>11. CallsOK'
  BY <1>10, KeepCall DEF CallsOK
<1>12. Ends'
  <2>1. \A i : ~Adding(p, i)
    BY <1>3 DEF Adding, Past, Working
  <2> QED BY <1>3, <1>10, <2>1, KeepEnd DEF Ends
<1> QED BY <1>3, <1>7, <1>8, <1>9, <1>11, <1>12, KeepInodes, KeepCache, KeepCallTypes
        DEF FilesInv, HandlesInv
-----------------------------------------------------------------------------
(***************************************************************************)
(* Calls at the lock of their inode.                                       *)
(***************************************************************************)
MovedTo(p, place, c) ==
    pc' = [pc EXCEPT ![p] = place] /\ call' = [call EXCEPT ![p] = c] /\ running' \in Pid \cup {None}

LEMMA Moved ==
    ASSUME FilesInv, NEW p \in Pid, NEW place \in {"user", "inode"} \cup Working,
           NEW c \in Calls \cup {NoCall}, place # "user" => c \in Calls,
           MovedTo(p, place, c), lock' \in [Inode -> Pid \cup {None}]
    PROVE  /\ CallTypes' /\ pc'[p] = place /\ call'[p] = c
           /\ \A q \in Pid \ {p} : pc'[q] = pc[q] /\ call'[q] = call[q]
<1>1. CallTypes
  BY DEF FilesInv
<1>2. pc'[p] = place /\ \A q \in Pid \ {p} : pc'[q] = pc[q]
  BY <1>1 DEF CallTypes, MovedTo
<1>3. call'[p] = c /\ \A q \in Pid \ {p} : call'[q] = call[q]
  BY <1>1 DEF CallTypes, MovedTo
<1>4. pc' \in [Pid -> {"user", "inode"} \cup Working] /\ call' \in [Pid -> Calls \cup {NoCall}]
  BY <1>1 DEF CallTypes, MovedTo
<1>5. \A q \in Pid : pc'[q] # "user" => call'[q] \in Calls
  BY <1>1, <1>2, <1>3 DEF CallTypes
<1> QED BY <1>2, <1>3, <1>4, <1>5 DEF CallTypes, MovedTo

\* Back to user mode, with the inode free or left locked.
LEMMA Returned ==
    ASSUME FilesInv, NEW p \in Pid, Return(p), lock' \in [Inode -> Pid \cup {None}]
    PROVE  /\ CallTypes' /\ pc'[p] = "user" /\ CallOK(p)'
           /\ \A q \in Pid \ {p} : pc'[q] = pc[q] /\ call'[q] = call[q]
<1>1. MovedTo(p, "user", NoCall)
  BY DEF Return, Sleep, MovedTo
<1>2. /\ CallTypes' /\ pc'[p] = "user"
      /\ \A q \in Pid \ {p} : pc'[q] = pc[q] /\ call'[q] = call[q]
  BY <1>1, Moved
<1>3. CallOK(p)'
  BY <1>2 DEF CallOK, Past, Working
<1> QED BY <1>2, <1>3

LEMMA LockTypes ==
    ASSUME FilesInv
    PROVE  /\ lock \in [Inode -> Pid \cup {None}]
           /\ \A i \in Inode, x \in Pid \cup {None} :
                 /\ [lock EXCEPT ![i] = x] \in [Inode -> Pid \cup {None}]
                 /\ [lock EXCEPT ![i] = x][i] = x
                 /\ \A j \in Inode : j # i => [lock EXCEPT ![i] = x][j] = lock[j]
BY DEF FilesInv, CallTypes

LEMMA NotYet ==
    ASSUME FilesInv, NEW p, NEW c, Due(p, c)
    PROVE  /\ p \in Pid /\ c \in Calls /\ Asked(p, c) /\ c.inode \in Inode
           /\ ~Past(p) /\ \A i : ~Adding(p, i)
BY CallFields DEF Due, Adding, Past, Working

LEMMA KeepAll ==
    ASSUME FilesInv, NEW p \in Pid, UNCHANGED <<tables, cache, heard>>,
           \A i : ~Adding(p, i), CallTypes', CallOK(p)',
           \A q \in Pid \ {p} : pc'[q] = pc[q] /\ call'[q] = call[q]
    PROVE  FilesInv'
<1>1. \A q \in Pid \ {p} : Left(q)
  BY DEF Left, tables, cache
<1>2. CallsOK'
  BY <1>1, KeepCall DEF CallsOK
<1>3. Ends'
  BY <1>1, KeepEnd DEF Ends, tables
<1> QED BY <1>2, <1>3, KeepInodes, KeepHandles, KeepCache DEF FilesInv, tables

LEMMA WaitInodeSafe ==
    ASSUME FilesInv, NEW p, NEW c, Due(p, c), WaitInode(p, c)
    PROVE  FilesInv'
<1>1. MovedTo(p, "inode", c) /\ UNCHANGED <<tables, cache, heard>>
  BY DEF WaitInode, Sleep, MovedTo
<1>2. lock' = lock
  BY <1>1 DEF tables
<1>3. /\ CallTypes' /\ pc'[p] = "inode" /\ call'[p] = c
      /\ \A q \in Pid \ {p} : pc'[q] = pc[q] /\ call'[q] = call[q]
  BY <1>1, <1>2, Moved, NotYet, LockTypes
<1>4. CallOK(p)'
  <2>1. Asked(p, c)
    BY NotYet
  <2>2. Asked(p, c)'
    BY <1>1, <2>1 DEF Asked, tables
  <2> QED BY <1>3, <2>2 DEF CallOK, Past, Working
<1> QED BY <1>1, <1>3, <1>4, NotYet, KeepAll

LEMMA VanishedSafe ==
    ASSUME FilesInv, NEW p, NEW c, Due(p, c), Vanished(p, c)
    PROVE  FilesInv'
<1>1. Return(p) /\ UNCHANGED <<tables, cache, heard>> /\ lock' = lock
  BY DEF Vanished, tables
<1>2. /\ CallTypes' /\ CallOK(p)'
      /\ \A q \in Pid \ {p} : pc'[q] = pc[q] /\ call'[q] = call[q]
  BY <1>1, Returned, NotYet, LockTypes
<1> QED BY <1>1, <1>2, NotYet, KeepAll

\* A file whose count is -1 is not open.
LEMMA NotOpen ==
    ASSUME FilesInv, NEW i \in Inode \ {Root}, opens[i] = None, NEW k \in OpenFile
    PROVE  oft[k].inode # i
<1>1. Cardinality({l \in OpenFile : oft[l].inode = i}) = 0
  <2>1. PICK n : n = Cardinality({l \in OpenFile : oft[l].inode = i})
    OBVIOUS
  <2>2. n \in Nat
    BY <2>1, CountFacts
  <2>3. opens[i] = IF n = 0 THEN None ELSE n
    BY <2>1 DEF FilesInv, HandlesInv, OpenCounts
  <2>4. n = 0
    BY <2>2, <2>3 DEF None
  <2> QED BY <2>1, <2>4
<1>2. {l \in OpenFile : oft[l].inode = i} = {}
  BY <1>1, CountFacts, FS_EmptySet
<1> QED BY <1>2

LEMMA DeleteSafe ==
    ASSUME FilesInv, NEW p, NEW c, Due(p, c), Delete(p, c)
    PROVE  FilesInv'
<1>1. /\ Return(p) /\ UNCHANGED <<lock, opens, oft, res, disk, heard>>
      /\ c.op = "delete" /\ lock[c.inode] = None
  BY DEF Delete, Granted
<1>2. /\ CallTypes' /\ CallOK(p)'
      /\ \A q \in Pid \ {p} : pc'[q] = pc[q] /\ call'[q] = call[q]
  BY <1>1, Returned, NotYet, LockTypes
<1>3. CASE UNCHANGED <<inode, root, used, buf>>
  <2>1. UNCHANGED <<tables, cache, heard>>
    BY <1>1, <1>3 DEF tables, cache
  <2> QED BY <1>2, <2>1, NotYet, KeepAll
<1>4. CASE ~UNCHANGED <<inode, root, used, buf>>
  <2>1. PICK i \in Inode \ {Root} : i = c.inode
    BY <1>1, NotYet DEF Asked
  <2>2. /\ opens[i] = None /\ ReleaseBlocks(i)
        /\ inode' = [inode EXCEPT ![i] = Unlinked] /\ root' = [root EXCEPT ![i] = NoEntry]
    BY <1>4, <2>1 DEF Delete
  <2>3. inode'[i] = Unlinked /\ \A j \in Inode : j # i => inode'[j] = inode[j]
    BY <2>2 DEF FilesInv, InodesInv, InodeTypes
  <2>4. PICK mine : /\ mine = {inode[i].blocks[m] : m \in Part} \ {None}
                    /\ used' = [b \in Block |-> IF b \in mine THEN used[b] - 1 ELSE used[b]]
                    /\ buf' = [f \in Buffer |-> IF buf[f].block \in mine THEN [buf[f] EXCEPT !.dirty = 0]
                                                ELSE buf[f]]
    BY <2>2 DEF ReleaseBlocks
  <2>5. BlocksOwned /\ used \in [Block -> 0 .. 1]
        /\ \A j \in Inode, m \in Part : inode[j].blocks[m] \in Block \cup {None}
    BY DEF FilesInv, InodesInv, InodeTypes
  <2>6. \A m \in Part : inode'[i].blocks[m] = None
    BY <2>3 DEF Unlinked
  <2>7. \A b \in Block : b \in mine <=> \E m \in Part : inode[i].blocks[m] = b
    BY <2>4, Constants
  <2>8. \A b \in Block : b \in mine => used[b] = 1
    BY <2>5, <2>7 DEF BlocksOwned
  <2>9. InodeTypes'
    <3>1. inode \in [Inode -> [name : FileName \cup {NoName}, size : Int,
                               perm : Permissions \cup {0, None}, blocks : [Part -> Block \cup {None}]]]
      BY DEF FilesInv, InodesInv, InodeTypes
    <3>2. Unlinked \in [name : FileName \cup {NoName}, size : Int,
                        perm : Permissions \cup {0, None}, blocks : [Part -> Block \cup {None}]]
      BY Constants DEF Unlinked
    <3>3. inode' \in [Inode -> [name : FileName \cup {NoName}, size : Int,
                               perm : Permissions \cup {0, None}, blocks : [Part -> Block \cup {None}]]]
      BY <2>2, <3>1, <3>2
    <3>4. root = [j \in Inode |-> [name |-> inode[j].name, size |-> inode[j].size]]
      BY DEF FilesInv, InodesInv, InodeTypes
    <3>5. root' = [j \in Inode |-> [name |-> inode'[j].name, size |-> inode'[j].size]]
      BY <2>2, <2>3, <3>4, SMTT(40) DEF NoEntry, Unlinked
    <3>6. used' \in [Block -> 0 .. 1]
      BY <2>4, <2>5, <2>8
    <3> QED BY <3>3, <3>5, <3>6 DEF InodeTypes
  <2>10. InodesOK'
    <3>1. InodesOK
      BY DEF FilesInv, InodesInv
    <3>2. inode'[Root] = inode[Root] /\ ~Exists(i)' /\ inode'[i].size = -1
      BY <2>3, Constants DEF Unlinked, Exists
    <3>3. /\ inode'[Root].name = RootName /\ inode'[Root].perm = 0 /\ inode'[Root].size = RootSize
      BY <3>1, <3>2 DEF InodesOK
    <3>4. ASSUME NEW j \in Inode
          PROVE  /\ j = Root \/ ~Exists(j)' => \A m \in Part : inode'[j].blocks[m] = None
                 /\ j # Root => inode'[j].size <= MaxSize
                 /\ Exists(j)' => inode'[j].size >= 0
      <4>1. CASE j = i
        BY <2>6, <3>2, <4>1, Constants
      <4>2. CASE j # i
        BY <2>3, <3>1, <4>2 DEF InodesOK, Exists
      <4> QED BY <4>1, <4>2
    <3> QED BY <3>3, <3>4 DEF InodesOK
  <2>11. BlocksOwned'
    <3>1. \A j \in Inode, m \in Part :
            inode'[j].blocks[m] = IF j = i THEN None ELSE inode[j].blocks[m]
      BY <2>3, <2>6
    <3>2. \A j, k \in Inode, m, n \in Part :
            inode'[j].blocks[m] # None /\ inode'[j].blocks[m] = inode'[k].blocks[n] => j = k /\ m = n
      BY <2>5, <3>1 DEF BlocksOwned
    <3>3. ASSUME NEW b \in Block
          PROVE  used'[b] = 1 <=> \E j \in Inode, m \in Part : inode'[j].blocks[m] = b
      <4>1. CASE b \in mine
        <5>1. used'[b] = 0
          BY <2>4, <2>8, <4>1
        <5>2. PICK n \in Part : inode[i].blocks[n] = b
          BY <2>7, <4>1
        <5>3. \A j \in Inode, m \in Part : inode[j].blocks[m] = b => j = i
          BY <2>5, <5>2, Constants DEF BlocksOwned
        <5> QED BY <3>1, <5>1, <5>3, Constants
      <4>2. CASE b \notin mine
        <5>1. used'[b] = used[b]
          BY <2>4, <4>2
        <5>2. used[b] = 1 <=> \E j \in Inode, m \in Part : inode[j].blocks[m] = b
          BY <2>5 DEF BlocksOwned
        <5> QED BY <2>7, <3>1, <4>2, <5>1, <5>2, Constants
      <4> QED BY <4>1, <4>2
    <3> QED BY <3>2, <3>3 DEF BlocksOwned
  <2>12. HandlesInv'
    <3>1. OpenTypes' /\ OpenCounts'
      BY <1>1 DEF FilesInv, HandlesInv, OpenTypes, OpenCounts
    <3>2. \A k \in OpenFile : oft[k].inode # i /\ oft[k].inode \in Inode \cup {None}
      BY <2>2, NotOpen DEF FilesInv, HandlesInv, OpenTypes
    <3>3. HandlesOK
      BY DEF FilesInv, HandlesInv
    <3>4. HandlesOK'
      BY <1>1, <2>3, <3>2, <3>3 DEF HandlesOK, Exists, SizeOf
    <3> QED BY <3>1, <3>4 DEF HandlesInv
  <2>13. CacheTypes'
    <3>1. CacheTypes
      BY DEF FilesInv
    <3>2. buf' \in [Buffer -> [block : Block \cup {None}, dirty : 0 .. 1,
                               owner : Pid \cup {None}, page : [Word -> Datum]]]
      <4>1. \A f \in Buffer : [buf[f] EXCEPT !.dirty = 0] \in
               [block : Block \cup {None}, dirty : 0 .. 1, owner : Pid \cup {None}, page : [Word -> Datum]]
        BY <3>1 DEF CacheTypes
      <4> QED BY <2>4, <3>1, <4>1 DEF CacheTypes
    <3> QED BY <1>1, <3>1, <3>2 DEF CacheTypes
  <2>14. \A q \in Pid \ {p} : Left(q)
    <3> SUFFICES ASSUME NEW q \in Pid \ {p} PROVE Left(q)
      OBVIOUS
    <3>1. Past(q) => inode'[I(q)] = inode[I(q)]
      BY <1>1, <2>1, <2>3, WorkFacts, WorkApart
    <3>2. Past(q) => buf'[F(q)].owner = buf[F(q)].owner /\ buf'[F(q)].block = buf[F(q)].block
      BY <2>4, WorkFacts DEF FilesInv, CacheTypes
    <3> QED BY <1>1, <1>2, <3>1, <3>2 DEF Left
  <2>15. CallsOK'
    BY <1>2, <2>14, KeepCall DEF CallsOK
  <2>16. Ends'
    <3> SUFFICES ASSUME NEW j \in Inode \ {Root} PROVE EndOK(j)'
      BY DEF Ends
    <3>1. CASE j = i
      <4>1. inode'[i].size = -1
        BY <2>3, Constants DEF Unlinked
      <4> QED BY <2>6, <3>1, <4>1, FileSystemAssumption DEF EndOK, Part
    <3>2. CASE j # i
      BY <2>3, <2>14, <3>2, KeepEnd, NotYet
    <3> QED BY <3>1, <3>2
  <2> QED BY <1>2, <2>9, <2>10, <2>11, <2>12, <2>13, <2>15, <2>16 DEF FilesInv, InodesInv
<1> QED BY <1>3, <1>4

LEMMA OpenSafe ==
    ASSUME FilesInv, NEW p, NEW c, Due(p, c), Open(p, c)
    PROVE  FilesInv'
<1>1. /\ Return(p) /\ UNCHANGED <<inode, root, used, lock, cache, heard>>
      /\ c.op = "open" /\ Exists(c.inode)
  BY DEF Open, Granted
<1>2. /\ CallTypes' /\ CallOK(p)'
      /\ \A q \in Pid \ {p} : pc'[q] = pc[q] /\ call'[q] = call[q]
  BY <1>1, Returned, NotYet, LockTypes
<1>3. CASE UNCHANGED <<opens, oft, res>>
  <2>1. UNCHANGED <<tables, cache, heard>>
    BY <1>1, <1>3 DEF tables
  <2> QED BY <1>2, <2>1, NotYet, KeepAll
<1>4. CASE ~UNCHANGED <<opens, oft, res>>
  <2>1. PICK i \in Inode, s \in Slot : i = c.inode /\ s = c.slot /\ Exists(i)
    BY <1>1, NotYet, CallFields
  <2>2. PICK k \in OpenFile :
          /\ oft[k].inode = None
          /\ oft' = [oft EXCEPT ![k] = [inode |-> i, lseek |-> 0]]
          /\ opens' = IF c.name = RootName THEN opens
                      ELSE [opens EXCEPT ![i] = IF @ = None THEN 1 ELSE @ + 1]
          /\ res' = [res EXCEPT ![p][s] = k]
    BY <1>4, <2>1 DEF Open, First
  <2>3. res[p][s] = None /\ (c.name = RootName <=> i = Root)
    BY <1>1, <2>1, NotYet DEF Asked
  <2>4. oft'[k] = [inode |-> i, lseek |-> 0] /\ \A l \in OpenFile : l # k => oft'[l] = oft[l]
    BY <2>2 DEF FilesInv, HandlesInv, OpenTypes
  <2>5. /\ res'[p][s] = k /\ \A t \in Slot : t # s => res'[p][t] = res[p][t]
        /\ \A q \in Pid : q # p => res'[q] = res[q]
    BY <2>2, NotYet DEF FilesInv, HandlesInv, OpenTypes
  <2>6. OpenTypes'
    <3>1. OpenTypes
      BY DEF FilesInv, HandlesInv
    <3>2. oft' \in [OpenFile -> [inode : Inode \cup {None}, lseek : Int]]
      BY <2>2, <3>1 DEF OpenTypes
    <3>3. opens' \in [Inode -> Int]
      BY <2>2, <3>1 DEF OpenTypes
    <3>4. res' \in [Pid -> [Slot -> OpenFile \cup {None}]]
      BY <2>2, <3>1 DEF OpenTypes
    <3> QED BY <3>2, <3>3, <3>4 DEF OpenTypes
  <2>7. HandlesOK'
    <3>1. HandlesOK
      BY DEF FilesInv, HandlesInv
    <3>2. SizeOf(i) >= 0
      BY <2>1, Constants DEF SizeOf, FilesInv, InodesInv, InodesOK
    <3>3. (\A l \in OpenFile : oft[l].inode # None =>
             Exists(oft[l].inode) /\ 0 <= oft[l].lseek /\ oft[l].lseek <= SizeOf(oft[l].inode))'
      <4> SUFFICES ASSUME NEW l \in OpenFile, oft'[l].inode # None
                   PROVE  (Exists(oft[l].inode) /\ 0 <= oft[l].lseek /\ oft[l].lseek <= SizeOf(oft[l].inode))'
        OBVIOUS
      <4>1. CASE l = k
        <5>1. oft'[l].inode = i /\ oft'[l].lseek = 0
          BY <2>4, <4>1
        <5>2. Exists(i)' /\ SizeOf(i)' = SizeOf(i) /\ 0 <= SizeOf(i)
          BY <1>1, <2>1, <3>2 DEF Exists, SizeOf
        <5>3. /\ Exists(oft'[l].inode) /\ SizeOf(oft'[l].inode) >= 0
          BY <2>1, <3>2, <5>1
        <5> QED BY <1>1, <5>1, <5>3 DEF Exists, SizeOf
      <4>2. CASE l # k
        BY <1>1, <2>4, <3>1, <4>2 DEF HandlesOK, Exists, SizeOf
      <4> QED BY <4>1, <4>2
    <3>4. ASSUME NEW q \in Pid, NEW t \in Slot, NEW u \in Slot, res'[q][t] # None
          PROVE  oft'[res'[q][t]].inode # None /\ (res'[q][u] = res'[q][t] => t = u)
      <4>1. \A v \in Slot : res[q][v] # k /\ (res[q][v] # None => res[q][v] \in OpenFile)
        BY <2>2, <3>1, Constants DEF HandlesOK, FilesInv, HandlesInv, OpenTypes
      <4>2. CASE q = p /\ t = s
        BY <2>1, <2>4, <2>5, <4>1, <4>2, Constants
      <4>3. CASE ~(q = p /\ t = s)
        <5>1. res'[q][t] = res[q][t] /\ (res'[q][u] = res[q][u] \/ res'[q][u] = k)
          BY <2>5, <4>3
        <5>2. oft'[res'[q][t]].inode # None
          BY <2>4, <3>1, <3>4, <4>1, <5>1 DEF HandlesOK
        <5> QED BY <3>1, <3>4, <4>1, <5>1, <5>2 DEF HandlesOK
      <4> QED BY <4>2, <4>3
    <3> QED BY <3>3, <3>4 DEF HandlesOK
  <2>8. OpenCounts'
    <3> SUFFICES ASSUME NEW j \in Inode \ {Root}
                 PROVE  opens'[j] = IF Cardinality({l \in OpenFile : oft'[l].inode = j}) = 0 THEN None
                                    ELSE Cardinality({l \in OpenFile : oft'[l].inode = j})
      BY DEF OpenCounts
    <3>1. opens[j] = IF Cardinality({l \in OpenFile : oft[l].inode = j}) = 0 THEN None
                     ELSE Cardinality({l \in OpenFile : oft[l].inode = j})
      BY DEF FilesInv, HandlesInv, OpenCounts
    <3>2. CASE j = i
      <4>1. /\ oft'[k].inode = j /\ oft[k].inode # j
            /\ \A l \in OpenFile : l # k => oft'[l].inode = oft[l].inode
        BY <2>2, <2>4, <3>2, Constants
      <4>2. PICK n \in Nat : /\ n = Cardinality({l \in OpenFile : oft[l].inode = j})
                             /\ Cardinality({l \in OpenFile : oft'[l].inode = j}) = n + 1
        <5>1. Cardinality({l \in OpenFile : oft[l].inode = j}) \in Nat
          BY CountFacts
        <5>2. Cardinality({l \in OpenFile : oft'[l].inode = j})
                = Cardinality({l \in OpenFile : oft[l].inode = j}) + 1
          BY <4>1, CountMore
        <5> QED BY <5>1, <5>2
      <4>3. opens'[j] = IF opens[j] = None THEN 1 ELSE opens[j] + 1
        BY <2>2, <2>3, <3>2 DEF FilesInv, HandlesInv, OpenTypes
      <4> QED BY <3>1, <4>2, <4>3 DEF None
    <3>3. CASE j # i
      <4>1. {l \in OpenFile : oft'[l].inode = j} = {l \in OpenFile : oft[l].inode = j}
        BY <2>2, <2>4, <3>3, Constants
      <4>2. opens'[j] = opens[j]
        BY <2>2, <3>3 DEF FilesInv, HandlesInv, OpenTypes
      <4> QED BY <3>1, <4>1, <4>2
    <3> QED BY <3>2, <3>3
  <2>9. \A q \in Pid \ {p} : Left(q)
    <3> SUFFICES ASSUME NEW q \in Pid \ {p} PROVE Left(q)
      OBVIOUS
    <3>1. ASSUME pc[q] # "user", call[q].op \in FileOps
          PROVE  oft'[K(q)] = oft[K(q)]
      <4>1. call[q] \in Calls /\ Asked(q, call[q])
        BY <3>1 DEF FilesInv, CallTypes, CallsOK, CallOK
      <4>2. K(q) \in OpenFile /\ oft[K(q)].inode \in Inode
        BY <3>1, <4>1, CallFields DEF Asked, K
      <4> QED BY <2>2, <2>4, <4>2, Constants
    <3>2. Past(q) => pc[q] # "user" /\ call[q].op \in FileOps
      BY WorkFacts
    <3> QED BY <1>1, <1>2, <2>5, <3>1, <3>2 DEF Left, cache
  <2>10. CallsOK'
    BY <1>2, <2>9, KeepCall DEF CallsOK
  <2>11. Ends'
    BY <1>1, <2>9, NotYet, KeepEnd DEF Ends
  <2> QED BY <1>1, <1>2, <2>6, <2>7, <2>8, <2>10, <2>11, KeepInodes, KeepCache DEF FilesInv, HandlesInv
<1> QED BY <1>3, <1>4

\* The position of an open file moves, and its file may grow.
PosMoved(k, pos) == oft' = [oft EXCEPT ![k].lseek = pos]

LEMMA KeepMoved ==
    ASSUME FilesInv, NEW k \in OpenFile, NEW pos \in Nat, PosMoved(k, pos), UNCHANGED <<opens, res>>,
           \A i \in Inode : (Exists(i) => Exists(i)') /\ SizeOf(i)' >= SizeOf(i) /\ SizeOf(i)' \in Int,
           NEW j, j = oft[k].inode, j # None => pos <= SizeOf(j)'
    PROVE  /\ HandlesInv' /\ oft'[k].lseek = pos
           /\ \A l \in OpenFile : oft'[l].inode = oft[l].inode /\ (l # k => oft'[l] = oft[l])
<1>1. OpenTypes /\ HandlesOK /\ OpenCounts
  BY DEF FilesInv, HandlesInv
<1>2. /\ oft'[k].lseek = pos
      /\ \A l \in OpenFile : oft'[l].inode = oft[l].inode /\ (l # k => oft'[l] = oft[l])
  BY <1>1 DEF OpenTypes, PosMoved
<1>3. OpenTypes'
  <2>1. oft' \in [OpenFile -> [inode : Inode \cup {None}, lseek : Int]]
    BY <1>1 DEF OpenTypes, PosMoved
  <2> QED BY <1>1, <2>1 DEF OpenTypes
<1>4. OpenCounts'
  <2>1. \A i : {l \in OpenFile : oft'[l].inode = i} = {l \in OpenFile : oft[l].inode = i}
    BY <1>2
  <2> QED BY <1>1, <2>1 DEF OpenCounts
<1>5. HandlesOK'
  <2>1. ASSUME NEW l \in OpenFile, NEW i, i = oft[l].inode, i # None
        PROVE  Exists(i)' /\ 0 <= oft'[l].lseek /\ oft'[l].lseek <= SizeOf(i)'
    <3>1. i \in Inode /\ oft[l].lseek \in Int
      BY <1>1, <2>1 DEF OpenTypes
    <3>2. Exists(i)' /\ 0 <= oft[l].lseek /\ oft[l].lseek <= SizeOf(i) /\ SizeOf(i)' >= SizeOf(i)
      BY <1>1, <2>1, <3>1 DEF HandlesOK
    <3>3. CASE l = k
      BY <1>2, <2>1, <3>2, <3>3
    <3>4. CASE l # k
      <4>1. SizeOf(i) \in Int
        BY <3>1, Constants DEF SizeOf, FilesInv, InodesInv, InodeTypes
      <4> QED BY <1>2, <3>1, <3>2, <3>4, <4>1
    <3> QED BY <3>3, <3>4
  <2>2. (\A l \in OpenFile : oft[l].inode # None =>
           Exists(oft[l].inode) /\ 0 <= oft[l].lseek /\ oft[l].lseek <= SizeOf(oft[l].inode))'
    BY <1>2, <2>1 DEF Exists, SizeOf
  <2>3. \A q \in Pid, s, t \in Slot : res'[q][s] # None =>
          oft'[res'[q][s]].inode # None /\ (res'[q][t] = res'[q][s] => s = t)
    BY <1>1, <1>2 DEF HandlesOK, OpenTypes
  <2> QED BY <2>2, <2>3 DEF HandlesOK
<1> QED BY <1>2, <1>3, <1>4, <1>5 DEF HandlesInv

LEMMA SizeTypes == ASSUME FilesInv PROVE \A i \in Inode : SizeOf(i) \in Int
BY Constants DEF SizeOf, FilesInv, InodesInv, InodeTypes

LEMMA SizesSame ==
    ASSUME FilesInv, inode' = inode
    PROVE  \A i \in Inode : (Exists(i) => Exists(i)') /\ SizeOf(i)' >= SizeOf(i) /\ SizeOf(i)' \in Int
<1> SUFFICES ASSUME NEW i \in Inode
             PROVE  (Exists(i) => Exists(i)') /\ SizeOf(i)' >= SizeOf(i) /\ SizeOf(i)' \in Int
  OBVIOUS
<1>1. SizeOf(i) \in Int /\ SizeOf(i)' = SizeOf(i)
  BY Constants DEF SizeOf, FilesInv, InodesInv, InodeTypes
<1> QED BY <1>1 DEF Exists

\* A call on an open file, at its lock.
LEMMA OnFileFacts ==
    ASSUME FilesInv, NEW p, NEW c, Due(p, c), c.op \in FileOps
    PROVE  /\ c.file \in OpenFile /\ oft[c.file].inode = c.inode /\ c.inode \in Inode
           /\ Exists(c.inode)
           /\ oft[c.file].lseek \in Nat /\ oft[c.file].lseek <= SizeOf(c.inode)
<1>1. c.file \in OpenFile /\ oft[c.file].inode = c.inode /\ c.inode \in Inode /\ c.inode # None
  BY NotYet, CallFields, Constants DEF Asked
<1>2. oft[c.file].lseek \in Int
  BY <1>1 DEF FilesInv, HandlesInv, OpenTypes
<1>3. Exists(c.inode) /\ 0 <= oft[c.file].lseek /\ oft[c.file].lseek <= SizeOf(c.inode)
  BY <1>1 DEF FilesInv, HandlesInv, HandlesOK
<1> QED BY <1>1, <1>2, <1>3

\* The call moves the position and returns.
LEMMA MoveSafe ==
    ASSUME FilesInv, NEW p, NEW c, Due(p, c), c.op \in FileOps, lock[c.inode] = None,
           NEW pos \in Nat, pos <= SizeOf(c.inode), PosMoved(c.file, pos), Return(p),
           UNCHANGED <<inode, root, used, lock, opens, res, cache, heard>>
    PROVE  FilesInv'
<1>1. /\ CallTypes' /\ CallOK(p)'
      /\ \A q \in Pid \ {p} : pc'[q] = pc[q] /\ call'[q] = call[q]
  BY Returned, NotYet, LockTypes
<1>2. c.file \in OpenFile /\ oft[c.file].inode = c.inode /\ SizeOf(c.inode)' = SizeOf(c.inode)
  BY OnFileFacts DEF SizeOf
<1>3. /\ HandlesInv'
      /\ \A l \in OpenFile : oft'[l].inode = oft[l].inode /\ (l # c.file => oft'[l] = oft[l])
  BY <1>2, SizesSame, KeepMoved
<1>4. \A q \in Pid \ {p} : Left(q)
  <2> SUFFICES ASSUME NEW q \in Pid \ {p} PROVE Left(q)
    OBVIOUS
  <2>1. ASSUME pc[q] # "user", call[q].op \in FileOps PROVE K(q) \in OpenFile
    BY <2>1, CallFields DEF K, FilesInv, CallTypes
  <2>2. Past(q) => K(q) # c.file /\ K(q) \in OpenFile
    BY <1>2, WorkApart, WorkFacts
  <2> QED BY <1>1, <1>3, <2>1, <2>2 DEF Left, cache
<1>5. CallsOK'
  BY <1>1, <1>4, KeepCall DEF CallsOK
<1>6. Ends'
  BY <1>4, NotYet, KeepEnd DEF Ends
<1> QED BY <1>1, <1>3, <1>5, <1>6, KeepInodes, KeepCache DEF FilesInv

LEMMA SeekSafe ==
    ASSUME FilesInv, NEW p, NEW c, Due(p, c), Seek(p, c)
    PROVE  FilesInv'
<1>1. /\ Return(p) /\ UNCHANGED <<inode, root, used, lock, opens, res, cache, heard>>
      /\ c.op \in FileOps /\ lock[c.inode] = None
  BY DEF Seek, Granted, FileOps
<1>2. /\ c.arg \in Int /\ SizeOf(c.inode) \in Nat
      /\ c.file \in OpenFile /\ oft[c.file].lseek \in Nat /\ oft[c.file].lseek <= SizeOf(c.inode)
  <2>1. SizeOf(c.inode) \in Int
    BY OnFileFacts, <1>1, SizeTypes
  <2> QED BY <1>1, <2>1, OnFileFacts, NotYet, CallFields
<1>3. PICK to \in Int :
        /\ to = oft[c.file].lseek + c.arg
        /\ oft' = IF to < 0 THEN oft
                  ELSE [oft EXCEPT ![c.file].lseek = IF to > SizeOf(c.inode) THEN SizeOf(c.inode) ELSE to]
  BY <1>2 DEF Seek
<1>4. CASE to < 0
  <2>1. UNCHANGED <<tables, cache, heard>>
    BY <1>1, <1>3, <1>4 DEF tables
  <2>2. /\ CallTypes' /\ CallOK(p)'
        /\ \A q \in Pid \ {p} : pc'[q] = pc[q] /\ call'[q] = call[q]
    BY <1>1, Returned, NotYet, LockTypes
  <2> QED BY <2>1, <2>2, NotYet, KeepAll
<1>5. CASE to >= 0
  <2>1. PICK pos \in Nat : pos = (IF to > SizeOf(c.inode) THEN SizeOf(c.inode) ELSE to)
                           /\ pos <= SizeOf(c.inode)
    BY <1>2, <1>5
  <2>2. PosMoved(c.file, pos)
    BY <1>3, <1>5, <2>1 DEF PosMoved
  <2> QED BY <1>1, <2>1, <2>2, MoveSafe
<1> QED BY <1>4, <1>5

\* The word at a position before the end has a block, and so has the next one
\* unless it begins a block.
LEMMA HasBlock ==
    ASSUME FilesInv, NEW i \in Inode \ {Root}, NEW n \in Nat, n < MaxSize, n <= inode[i].size,
           n < inode[i].size \/ n % BlockSize # 0
    PROVE  inode[i].blocks[n \div BlockSize] # None
<1>1. PICK m \in Part : /\ m = n \div BlockSize /\ m * BlockSize <= n
                        /\ n % BlockSize # 0 => m * BlockSize < n
  BY PlaceOf
<1>2. m * BlockSize < inode[i].size
  <2>1. inode[i].size \in Int /\ m * BlockSize \in Int
    BY FileSystemAssumption DEF FilesInv, InodesInv, InodeTypes, Part
  <2> QED BY <1>1, <2>1
<1> QED BY <1>1, <1>2 DEF FilesInv, Ends, EndOK

\* The call goes past the lock, to the block its word is in.
LEMMA Proceeded ==
    ASSUME FilesInv, NEW p, NEW c, Due(p, c), c.op \in {"read", "write"}, c.inode # Root,
           lock[c.inode] = None, Proceed(p, c), UNCHANGED <<opens, oft, res, cache, heard>>,
           \A j \in Inode : j # c.inode => inode'[j] = inode[j],
           NEW n, n = oft[c.file].lseek, n < MaxSize,
           c.op = "read" => n < inode'[c.inode].size,
           inode'[c.inode].blocks[n \div BlockSize] # None
    PROVE  /\ CallTypes' /\ CallsOK' /\ \A q \in Pid \ {p} : Left(q)
           /\ Past(p)' /\ call'[p].op = c.op /\ I(p)' = c.inode /\ Pos(p)' = n
<1>1. /\ p \in Pid /\ c.inode \in Inode \ {Root} /\ c.op \in FileOps /\ c \in Calls /\ Asked(p, c)
      /\ c.file \in OpenFile /\ n \in Nat /\ oft[c.file].inode = c.inode
  BY NotYet, OnFileFacts DEF FileOps
<1>2. PICK d : d = [c EXCEPT !.pos = n]
  OBVIOUS
<1>3. c \in [op : FileOps, inode : Inode, file : OpenFile, arg : Int, pos : Int]
  BY <1>1, CallFields
<1>4. /\ d \in Calls /\ d.op = c.op /\ d.inode = c.inode /\ d.file = c.file /\ d.pos = n
      /\ d.arg = c.arg
  <2>1. d \in [op : FileOps, inode : Inode, file : OpenFile, arg : Int, pos : Int]
    BY <1>1, <1>2, <1>3
  <2>2. d.op = c.op /\ d.inode = c.inode /\ d.file = c.file /\ d.arg = c.arg /\ d.pos = n
    BY <1>2, <1>3
  <2> QED BY <2>1, <2>2 DEF Calls
<1>5. MovedTo(p, "buffer", d) /\ lock' = [lock EXCEPT ![c.inode] = p]
  BY <1>1, <1>2 DEF Proceed, Goto, MovedTo
<1>6. /\ lock' \in [Inode -> Pid \cup {None}] /\ lock'[c.inode] = p
      /\ \A j \in Inode : j # c.inode => lock'[j] = lock[j]
  BY <1>1, <1>5, LockTypes
<1>7. /\ CallTypes' /\ pc'[p] = "buffer" /\ call'[p] = d
      /\ \A q \in Pid \ {p} : pc'[q] = pc[q] /\ call'[q] = call[q]
  BY <1>1, <1>4, <1>5, <1>6, Moved DEF Working
<1>8. \A q \in Pid \ {p} : Left(q)
  <2> SUFFICES ASSUME NEW q \in Pid \ {p} PROVE Left(q)
    OBVIOUS
  <2>1. Past(q) => I(q) \in Inode /\ I(q) # c.inode
    BY WorkFacts, WorkApart
  <2> QED BY <1>6, <1>7, <2>1 DEF Left, cache
<1>9. CallOK(p)'
  <2>1. I(p)' = c.inode /\ K(p)' = c.file /\ Pos(p)' = n
    BY <1>4, <1>7 DEF I, K, Pos
  <2>2. Asked(p, d)
    BY <1>1, <1>4 DEF Asked, FileOps
  <2>3. Asked(p, call[p])'
    BY <1>7, <2>2 DEF Asked
  <2>4. AtWork(p)'
    <3>1. Blk(p)' # None
      BY <2>1 DEF Blk
    <3> QED BY <1>1, <1>4, <1>6, <1>7, <2>1, <3>1 DEF AtWork
  <2>5. InBuffer(p)'
    BY <1>7 DEF InBuffer
  <2> QED BY <2>3, <2>4, <2>5 DEF CallOK
<1>10. CallsOK'
  BY <1>8, <1>9, KeepCall DEF CallsOK
<1> QED BY <1>4, <1>7, <1>8, <1>10 DEF Past, Working, I, Pos

LEMMA StartReadSafe ==
    ASSUME FilesInv, NEW p, NEW c, Due(p, c), StartRead(p, c)
    PROVE  FilesInv'
<1>1. /\ UNCHANGED <<inode, root, used, opens, res, cache, heard>>
      /\ c.op = "read" /\ c.op \in FileOps /\ lock[c.inode] = None
  BY DEF StartRead, Granted, FileOps
<1>2. PICK n \in Nat, i \in Inode : n = oft[c.file].lseek /\ i = c.inode /\ n <= SizeOf(i)
  BY <1>1, OnFileFacts
<1>3. SizeOf(i) \in Int /\ (i = Root => SizeOf(i) = RootSize) /\ (i # Root => SizeOf(i) = inode[i].size)
  BY SizeTypes DEF SizeOf
<1>4. CASE Return(p) /\ UNCHANGED <<oft, lock>>
  <2>1. UNCHANGED <<tables, cache, heard>>
    BY <1>1, <1>4 DEF tables
  <2>2. /\ CallTypes' /\ CallOK(p)'
        /\ \A q \in Pid \ {p} : pc'[q] = pc[q] /\ call'[q] = call[q]
    BY <1>4, Returned, NotYet, LockTypes
  <2> QED BY <2>1, <2>2, NotYet, KeepAll
<1>5. CASE /\ i = Root /\ n # RootSize
           /\ oft' = [oft EXCEPT ![c.file].lseek = n + 1]
           /\ Return(p) /\ UNCHANGED lock
  <2>1. n + 1 \in Nat /\ n + 1 <= SizeOf(c.inode)
    BY <1>2, <1>3, <1>5
  <2>2. PosMoved(c.file, n + 1)
    BY <1>5 DEF PosMoved
  <2> QED BY <1>1, <1>5, <2>1, <2>2, MoveSafe
<1>6. CASE i # Root /\ n # inode[i].size /\ Proceed(p, c) /\ UNCHANGED oft
  <2>1. n < inode[i].size /\ inode[i].size <= MaxSize /\ MaxSize \in Int
    BY <1>2, <1>3, <1>6, Constants DEF FilesInv, InodesInv, InodesOK
  <2>2. n < MaxSize
    BY <1>3, <1>6, <2>1
  <2>3. inode[i].blocks[n \div BlockSize] # None
    BY <1>2, <1>3, <1>6, <2>1, <2>2, HasBlock
  <2>4. CallTypes' /\ CallsOK' /\ \A q \in Pid \ {p} : Left(q)
    BY <1>1, <1>2, <1>6, <2>1, <2>2, <2>3, Proceeded
  <2>5. Ends'
    BY <1>1, <2>4, NotYet, KeepEnd DEF Ends
  <2> QED BY <1>1, <1>6, <2>4, <2>5, KeepInodes, KeepHandles, KeepCache DEF FilesInv
<1> QED BY <1>2, <1>4, <1>5, <1>6 DEF StartRead

LEMMA AllocateSafe ==
    ASSUME FilesInv, NEW i \in Inode \ {Root}, NEW n \in Nat, n < MaxSize,
           n % BlockSize = 0, n = inode[i].size, lock[i] = None, Exists(i),
           NEW b \in Block, used[b] = 0, Allocate(i, n \div BlockSize, b)
    PROVE  /\ \A j \in Inode : j # i => inode'[j] = inode[j]
           /\ inode'[i].size = inode[i].size /\ inode'[i].name = inode[i].name
           /\ inode'[i].blocks[n \div BlockSize] = b
           /\ \A m \in Part : m # n \div BlockSize => inode'[i].blocks[m] = inode[i].blocks[m]
           /\ root' = root => InodesInv'
<1>1. PICK h \in Part : h = n \div BlockSize /\ h * BlockSize = n
  BY PlaceOf
<1>2. /\ inode' = [inode EXCEPT ![i].blocks[h] = b] /\ used' = [used EXCEPT ![b] = 1]
  BY <1>1 DEF Allocate
<1>3. inode \in [Inode -> [name : FileName \cup {NoName}, size : Int,
                           perm : Permissions \cup {0, None}, blocks : [Part -> Block \cup {None}]]]
  BY DEF FilesInv, InodesInv, InodeTypes
<1>4. /\ inode'[i].size = inode[i].size /\ inode'[i].name = inode[i].name
      /\ inode'[i].perm = inode[i].perm
      /\ inode'[i].blocks[h] = b
      /\ \A m \in Part : m # h => inode'[i].blocks[m] = inode[i].blocks[m]
      /\ \A j \in Inode : j # i => inode'[j] = inode[j]
  BY <1>2, <1>3
<1>5. inode' \in [Inode -> [name : FileName \cup {NoName}, size : Int,
                           perm : Permissions \cup {0, None}, blocks : [Part -> Block \cup {None}]]]
  BY <1>2, <1>3
<1>6. ASSUME root' = root PROVE InodeTypes'
  <2>1. root = [j \in Inode |-> [name |-> inode[j].name, size |-> inode[j].size]]
        /\ used \in [Block -> 0 .. 1]
    BY DEF FilesInv, InodesInv, InodeTypes
  <2>2. \A j \in Inode : inode'[j].name = inode[j].name /\ inode'[j].size = inode[j].size
    BY <1>4
  <2>3. root' = [j \in Inode |-> [name |-> inode'[j].name, size |-> inode'[j].size]]
    BY <1>6, <2>1, <2>2
  <2>4. used' \in [Block -> 0 .. 1]
    BY <1>2, <2>1
  <2> QED BY <1>5, <2>3, <2>4 DEF InodeTypes
<1>7. InodesOK'
  <2>1. InodesOK
    BY DEF FilesInv, InodesInv
  <2>2. \A j \in Inode : inode'[j].name = inode[j].name /\ inode'[j].size = inode[j].size
    BY <1>4
  <2>3. inode'[Root] = inode[Root]
    BY <1>4, Constants
  <2>4. ASSUME NEW j \in Inode, j = Root \/ ~Exists(j)'
        PROVE  \A m \in Part : inode'[j].blocks[m] = None
    BY <1>4, <2>1, <2>4 DEF InodesOK, Exists
  <2>5. \A j \in Inode : (j # Root => inode'[j].size <= MaxSize) /\ (Exists(j)' => inode'[j].size >= 0)
    BY <2>1, <2>2 DEF InodesOK, Exists
  <2> QED BY <2>1, <2>3, <2>4, <2>5 DEF InodesOK
<1>8. BlocksOwned'
  <2>1. BlocksOwned /\ used \in [Block -> 0 .. 1]
    BY DEF FilesInv, InodesInv, InodeTypes
  <2>2. inode[i].blocks[h] = None
    <3>1. SUFFICES ASSUME inode[i].blocks[h] # None PROVE FALSE
      OBVIOUS
    <3>2. PICK q \in Pid : Adding(q, i)
      <4>1. h * BlockSize >= inode[i].size
        BY <1>1
      <4> QED BY <3>1, <4>1 DEF FilesInv, Ends, EndOK
    <3>3. lock[i] = q
      BY <3>2, WorkFacts DEF Adding
    <3> QED BY <3>3, Constants
  <2>3. \A j \in Inode, m \in Part : inode[j].blocks[m] # b
    BY <2>1 DEF BlocksOwned
  <2>4. \A j \in Inode, m \in Part :
          inode'[j].blocks[m] = IF j = i /\ m = h THEN b ELSE inode[j].blocks[m]
    BY <1>4
  <2>5. \A j, k \in Inode, m, l \in Part :
          inode'[j].blocks[m] # None /\ inode'[j].blocks[m] = inode'[k].blocks[l] => j = k /\ m = l
    BY <2>1, <2>3, <2>4 DEF BlocksOwned
  <2>6. ASSUME NEW e \in Block
        PROVE  used'[e] = 1 <=> \E j \in Inode, m \in Part : inode'[j].blocks[m] = e
    <3>1. CASE e = b
      BY <1>2, <2>1, <2>4, <3>1
    <3>2. CASE e # b
      <4>1. used'[e] = used[e]
        BY <1>2, <2>1, <3>2
      <4>2. used[e] = 1 <=> \E j \in Inode, m \in Part : inode[j].blocks[m] = e
        BY <2>1 DEF BlocksOwned
      <4> QED BY <2>2, <2>4, <3>2, <4>1, <4>2, Constants
    <3> QED BY <3>1, <3>2
  <2> QED BY <2>5, <2>6 DEF BlocksOwned
<1> QED BY <1>1, <1>4, <1>6, <1>7, <1>8 DEF InodesInv

LEMMA StartWriteSafe ==
    ASSUME FilesInv, NEW p, NEW c, Due(p, c), StartWrite(p, c)
    PROVE  FilesInv'
<1>1. /\ UNCHANGED <<root, opens, oft, res, cache, heard>>
      /\ c.op = "write" /\ c.op \in FileOps /\ lock[c.inode] = None /\ p \in Pid
  BY NotYet DEF StartWrite, Granted, FileOps
<1>2. PICK n \in Nat, i \in Inode \ {Root} :
        /\ n = oft[c.file].lseek /\ i = c.inode /\ n <= inode[i].size /\ Exists(i)
  <2>1. c.inode \in Inode \ {Root}
    BY <1>1, NotYet DEF Asked
  <2> QED BY <1>1, <2>1, OnFileFacts DEF SizeOf
<1>3. inode[i].size \in Int /\ MaxSize \in Int
  BY Constants DEF FilesInv, InodesInv, InodeTypes
<1>4. CASE /\ lock' = [lock EXCEPT ![i] = p]
           /\ Return(p) /\ UNCHANGED <<inode, used>>
  <2>1. /\ lock' \in [Inode -> Pid \cup {None}]
        /\ \A j \in Inode : j # i => lock'[j] = lock[j]
    BY <1>1, <1>4, LockTypes
  <2>2. /\ CallTypes' /\ CallOK(p)'
        /\ \A q \in Pid \ {p} : pc'[q] = pc[q] /\ call'[q] = call[q]
    BY <1>1, <1>4, <2>1, Returned
  <2>3. \A q \in Pid \ {p} : Left(q)
    <3> SUFFICES ASSUME NEW q \in Pid \ {p} PROVE Left(q)
      OBVIOUS
    <3>1. Past(q) => I(q) \in Inode /\ I(q) # i
      BY <1>1, <1>2, WorkFacts, WorkApart
    <3> QED BY <1>1, <1>4, <2>1, <2>2, <3>1 DEF Left, cache
  <2>4. CallsOK'
    BY <2>2, <2>3, KeepCall DEF CallsOK
  <2>5. Ends'
    BY <1>4, <2>3, NotYet, KeepEnd DEF Ends
  <2> QED BY <1>1, <1>4, <2>2, <2>4, <2>5, KeepInodes, KeepHandles, KeepCache DEF FilesInv
<1>5. CASE /\ n < MaxSize /\ n % BlockSize = 0 /\ n = inode[i].size
           /\ \E b \in Block : used[b] = 0 /\ Allocate(i, n \div BlockSize, b)
           /\ Proceed(p, c)
  <2>1. PICK b \in Block : used[b] = 0 /\ Allocate(i, n \div BlockSize, b)
    BY <1>5
  <2>2. /\ \A j \in Inode : j # i => inode'[j] = inode[j]
        /\ inode'[i].size = inode[i].size /\ inode'[i].name = inode[i].name
        /\ inode'[i].blocks[n \div BlockSize] = b
        /\ \A m \in Part : m # n \div BlockSize => inode'[i].blocks[m] = inode[i].blocks[m]
        /\ InodesInv'
    BY <1>1, <1>2, <1>5, <2>1, AllocateSafe
  <2>3. /\ CallTypes' /\ CallsOK' /\ \A q \in Pid \ {p} : Left(q)
        /\ Past(p)' /\ call'[p].op = "write" /\ I(p)' = i /\ Pos(p)' = n
    <3>1. inode'[c.inode].blocks[n \div BlockSize] # None
      BY <1>2, <2>2, Constants
    <3>2. c.op # "read" /\ c.op \in {"read", "write"} /\ c.inode # Root
      BY <1>1, <1>2
    <3>3. \A j \in Inode : j # c.inode => inode'[j] = inode[j]
      BY <1>2, <2>2
    <3>4. n = oft[c.file].lseek /\ n < MaxSize /\ Proceed(p, c) /\ UNCHANGED <<opens, oft, res, cache, heard>>
      BY <1>1, <1>2, <1>5
    <3>5. /\ CallTypes' /\ CallsOK' /\ \A q \in Pid \ {p} : Left(q)
          /\ Past(p)' /\ call'[p].op = c.op /\ I(p)' = c.inode /\ Pos(p)' = n
      BY <1>1, <3>1, <3>2, <3>3, <3>4, Proceeded
    <3> QED BY <1>1, <1>2, <3>5
  <2>4. HandlesInv'
    <3>1. OpenTypes' /\ OpenCounts'
      BY <1>1 DEF FilesInv, HandlesInv, OpenTypes, OpenCounts
    <3>2. \A j \in Inode : (Exists(j)' <=> Exists(j)) /\ SizeOf(j)' = SizeOf(j)
      BY <2>2 DEF Exists, SizeOf
    <3>3. \A k \in OpenFile : oft[k].inode # None => oft[k].inode \in Inode
      BY DEF FilesInv, HandlesInv, OpenTypes
    <3>4. ASSUME NEW k \in OpenFile, NEW j \in Inode, j = oft[k].inode, j # None
          PROVE  Exists(j)' /\ 0 <= oft[k].lseek /\ oft[k].lseek <= SizeOf(j)'
      BY <3>2, <3>4 DEF FilesInv, HandlesInv, HandlesOK
    <3>5. (\A k \in OpenFile : oft[k].inode # None =>
             Exists(oft[k].inode) /\ 0 <= oft[k].lseek /\ oft[k].lseek <= SizeOf(oft[k].inode))'
      BY <1>1, <3>3, <3>4 DEF Exists, SizeOf
    <3>6. (\A q \in Pid, s, t \in Slot : res[q][s] # None =>
             oft[res[q][s]].inode # None /\ (res[q][t] = res[q][s] => s = t))'
      BY <1>1 DEF FilesInv, HandlesInv, HandlesOK
    <3> QED BY <3>1, <3>5, <3>6 DEF HandlesInv, HandlesOK
  <2>5. Ends'
    <3> SUFFICES ASSUME NEW j \in Inode \ {Root} PROVE EndOK(j)'
      BY DEF Ends
    <3>1. CASE j = i
      <4>1. Adding(p, i)'
        BY <1>5, <2>2, <2>3 DEF Adding
      <4>2. PICK h \in Part : /\ h = n \div BlockSize /\ h * BlockSize = n
                              /\ \A m \in Part : m * BlockSize = n => m = h
        BY <1>5, PlaceOf
      <4>3. EndOK(i) /\ b # None
        BY Constants DEF FilesInv, Ends
      <4>4. \A m \in Part : m # h /\ m * BlockSize >= inode[i].size => inode[i].blocks[m] = None
        BY <1>5, <4>2, <4>3 DEF EndOK
      <4>5. \A m \in Part : inode'[i].blocks[m] = IF m = h THEN b ELSE inode[i].blocks[m]
        BY <2>2, <4>2
      <4>6. \A m \in Part : m * BlockSize < inode[i].size => inode[i].blocks[m] # None
        BY <4>3 DEF EndOK
      <4> QED BY <1>1, <1>5, <2>2, <3>1, <4>1, <4>2, <4>3, <4>4, <4>5, <4>6 DEF EndOK
    <3>2. CASE j # i
      BY <1>1, <2>2, <2>3, <3>2, NotYet, KeepEnd
    <3> QED BY <3>1, <3>2
  <2> QED BY <1>1, <2>2, <2>3, <2>4, <2>5, KeepCache DEF FilesInv
<1>6. CASE /\ n < MaxSize /\ ~(n % BlockSize = 0 /\ n = inode[i].size)
           /\ Proceed(p, c) /\ UNCHANGED <<inode, used>>
  <2>1. inode[i].blocks[n \div BlockSize] # None
    BY <1>2, <1>3, <1>6, HasBlock
  <2>2. CallTypes' /\ CallsOK' /\ \A q \in Pid \ {p} : Left(q)
    BY <1>1, <1>2, <1>6, <2>1, Proceeded
  <2>3. Ends'
    BY <1>1, <1>6, <2>2, NotYet, KeepEnd DEF Ends
  <2> QED BY <1>1, <1>6, <2>2, <2>3, KeepInodes, KeepHandles, KeepCache DEF FilesInv
<1>7. \/ n >= MaxSize \/ (n % BlockSize = 0 /\ n = inode[i].size /\ {b \in Block : used[b] = 0} = {})
      \/ n < MaxSize
  BY <1>3
<1> QED BY <1>2, <1>4, <1>5, <1>6, <1>7 DEF StartWrite, First
-----------------------------------------------------------------------------
(***************************************************************************)
(* Calls past the lock.                                                    *)
(***************************************************************************)
LEMMA Reached ==
    ASSUME FilesInv, NEW p \in Pid, Past(p)
    PROVE  /\ InBuffer(p) /\ Asked(p, call[p]) /\ call = [call EXCEPT ![p] = call[p]]
           /\ call[p].op = "write" => call[p].arg \in Words
BY WorkFacts DEF FilesInv, CallsOK, CallOK, CallTypes, Asked

\* A step on the buffer of the call.
LEMMA BufferStep ==
    ASSUME FilesInv, NEW p \in Pid, Past(p), NEW place \in Working, MovedTo(p, place, call[p]),
           UNCHANGED tables, CacheTypes', buf[F(p)].owner \in {p, None},
           \A f \in Buffer : f # F(p) => buf'[f] = buf[f],
           place # "buffer" => buf'[F(p)].owner = p, place = "word" => buf'[F(p)].block = Blk(p)
    PROVE  FilesInv'
<1>1. call[p] \in Calls /\ lock' = lock
  BY WorkFacts DEF tables
<1>2. /\ CallTypes' /\ pc'[p] = place /\ call'[p] = call[p]
      /\ \A q \in Pid \ {p} : pc'[q] = pc[q] /\ call'[q] = call[q]
  BY <1>1, Moved, LockTypes
<1>3. \A q \in Pid \ {p} : Left(q)
  <2> SUFFICES ASSUME NEW q \in Pid \ {p} PROVE Left(q)
    OBVIOUS
  <2>1. Past(q) /\ buf[F(q)].owner = q => buf'[F(q)] = buf[F(q)]
    BY WorkFacts, Constants
  <2> QED BY <1>2, <2>1 DEF Left, tables
<1>4. I(p)' = I(p) /\ K(p)' = K(p) /\ Pos(p)' = Pos(p)
  BY <1>2 DEF I, K, Pos
<1>5. Blk(p)' = Blk(p) /\ F(p)' = F(p)
  BY <1>4 DEF Blk, F, tables
<1>6. CallOK(p)'
  <2>1. Asked(p, call[p]) /\ AtWork(p)
    BY WorkFacts DEF FilesInv, CallsOK, CallOK
  <2>2. Asked(p, call[p])'
    BY <1>2, <2>1 DEF Asked, tables
  <2>3. AtWork(p)'
    BY <1>2, <1>4, <1>5, <2>1 DEF AtWork, tables
  <2>4. InBuffer(p)'
    <3>1. pc'[p] \in {"store", "load", "word"} => buf'[F(p)].owner = p
      BY <1>2
    <3>2. pc'[p] = "word" => buf'[F(p)].block = Blk(p)
      BY <1>2
    <3> QED BY <1>5, <3>1, <3>2 DEF InBuffer
  <2> QED BY <2>2, <2>3, <2>4 DEF CallOK
<1>7. CallsOK'
  BY <1>3, <1>6, KeepCall DEF CallsOK
<1>8. Ends'
  <2>1. \A i : Adding(p, i) => Adding(p, i)'
    BY <1>2, <1>4 DEF Adding, Past, tables
  <2> QED BY <1>3, <2>1, KeepEnd DEF Ends, tables
<1> QED BY <1>2, <1>7, <1>8, KeepInodes, KeepHandles DEF FilesInv, tables

LEMMA TakeBufferSafe ==
    ASSUME FilesInv, NEW p \in Pid, TakeBuffer(p)
    PROVE  FilesInv'
<1>1. Past(p) /\ UNCHANGED <<tables, disk, call, heard>>
  BY DEF TakeBuffer, At, Past, Working
<1>2. F(p) \in Buffer /\ buf \in [Buffer -> [block : Block \cup {None}, dirty : 0 .. 1,
                                             owner : Pid \cup {None}, page : [Word -> Datum]]]
  BY <1>1, WorkFacts DEF FilesInv, CacheTypes
<1>3. CASE buf[F(p)].owner # None /\ running = p /\ Sleep(p, "buffer") /\ UNCHANGED buf
  <2>1. MovedTo(p, "buffer", call[p])
    BY <1>1, <1>3, Reached DEF Sleep, MovedTo
  <2>2. /\ CallTypes' /\ pc'[p] = "buffer" /\ call'[p] = call[p]
        /\ \A q \in Pid \ {p} : pc'[q] = pc[q] /\ call'[q] = call[q]
    BY <1>1, <2>1, Moved, LockTypes, WorkFacts DEF Working, tables
  <2>3. UNCHANGED <<tables, cache, heard>>
    BY <1>1, <1>3 DEF cache
  <2>4. \A q \in Pid \ {p} : Left(q)
    BY <2>2, <2>3 DEF Left, tables, cache
  <2>5. CallOK(p)'
    <3>1. I(p)' = I(p) /\ K(p)' = K(p) /\ Pos(p)' = Pos(p)
      BY <2>2 DEF I, K, Pos
    <3>2. Blk(p)' = Blk(p)
      BY <2>3, <3>1 DEF Blk, tables
    <3>3. Asked(p, call[p]) /\ AtWork(p)
      BY <1>1, WorkFacts DEF FilesInv, CallsOK, CallOK
    <3>4. Asked(p, call[p])'
      BY <2>2, <2>3, <3>3 DEF Asked, tables
    <3>5. AtWork(p)'
      BY <2>2, <2>3, <3>1, <3>2, <3>3 DEF AtWork, tables
    <3> QED BY <2>2, <3>4, <3>5 DEF CallOK, InBuffer
  <2>6. CallsOK'
    BY <2>4, <2>5, KeepCall DEF CallsOK
  <2>7. Ends'
    <3>1. \A i : Adding(p, i) => Adding(p, i)'
      BY <2>2, <2>3 DEF Adding, Past, Working, I, Pos, tables
    <3> QED BY <2>3, <2>4, <3>1, KeepEnd DEF Ends, tables
  <2> QED BY <2>2, <2>3, <2>6, <2>7, KeepInodes, KeepHandles, KeepCache DEF FilesInv, tables
<1>4. CASE /\ buf[F(p)].owner = None
           /\ buf' = [buf EXCEPT ![F(p)].owner = p]
  <2>1. PICK place \in {"word", "store", "load"} :
          /\ pc' = [pc EXCEPT ![p] = place] /\ running' \in {p, None}
          /\ place = "word" => buf[F(p)].block = Blk(p)
    BY <1>4, Constants DEF TakeBuffer, Goto, Sleep
  <2>2. MovedTo(p, place, call[p]) /\ place \in Working
    BY <1>1, <2>1, Reached DEF MovedTo, Working
  <2>3. /\ buf'[F(p)].owner = p /\ buf'[F(p)].block = buf[F(p)].block
        /\ \A f \in Buffer : f # F(p) => buf'[f] = buf[f]
        /\ buf' \in [Buffer -> [block : Block \cup {None}, dirty : 0 .. 1,
                                owner : Pid \cup {None}, page : [Word -> Datum]]]
    BY <1>2, <1>4
  <2>4. CacheTypes'
    BY <1>1, <2>3 DEF FilesInv, CacheTypes
  <2> QED BY <1>1, <1>4, <2>1, <2>2, <2>3, <2>4, BufferStep
<1> QED BY <1>3, <1>4 DEF TakeBuffer

LEMMA StoredSafe ==
    ASSUME FilesInv, NEW p \in Pid, Stored(p)
    PROVE  FilesInv'
<1>1. /\ Past(p) /\ UNCHANGED <<tables, call, heard>> /\ pc[p] = "store"
      /\ disk' = [disk EXCEPT ![buf[F(p)].block] = buf[F(p)].page]
      /\ buf' = [buf EXCEPT ![F(p)].dirty = 0]
      /\ pc' = [pc EXCEPT ![p] = "load"] /\ running' = None
  BY DEF Stored, At, Past, Working, Sleep
<1>2. F(p) \in Buffer /\ buf[F(p)].owner = p
  BY <1>1, WorkFacts, Reached DEF InBuffer
<1>3. MovedTo(p, "load", call[p]) /\ "load" \in Working
  BY <1>1, Reached DEF MovedTo, Working
<1>4. buf \in [Buffer -> [block : Block \cup {None}, dirty : 0 .. 1,
                          owner : Pid \cup {None}, page : [Word -> Datum]]]
      /\ disk \in [Block -> [Word -> Datum]]
  BY DEF FilesInv, CacheTypes
<1>5. /\ buf'[F(p)].owner = p /\ \A f \in Buffer : f # F(p) => buf'[f] = buf[f]
      /\ buf' \in [Buffer -> [block : Block \cup {None}, dirty : 0 .. 1,
                              owner : Pid \cup {None}, page : [Word -> Datum]]]
  BY <1>1, <1>2, <1>4
<1>6. disk' \in [Block -> [Word -> Datum]]
  BY <1>1, <1>2, <1>4
<1>7. CacheTypes'
  BY <1>1, <1>5, <1>6 DEF FilesInv, CacheTypes
<1> QED BY <1>1, <1>2, <1>3, <1>5, <1>7, BufferStep

LEMMA LoadedSafe ==
    ASSUME FilesInv, NEW p \in Pid, Loaded(p)
    PROVE  FilesInv'
<1>1. PICK f, b : f = F(p) /\ b = Blk(p)
  OBVIOUS
<1>2. /\ Past(p) /\ UNCHANGED <<tables, disk, call, heard>> /\ pc[p] = "load"
      /\ buf' = [buf EXCEPT ![f].block = b, ![f].page = disk[b]]
      /\ pc' = [pc EXCEPT ![p] = "word"] /\ running' = p
  BY <1>1 DEF Loaded, At, Past, Working, Goto
<1>3. f \in Buffer /\ buf[f].owner = p /\ b \in Block
  BY <1>1, <1>2, WorkFacts, Reached DEF InBuffer
<1>4. MovedTo(p, "word", call[p]) /\ "word" \in Working
  BY <1>2, Reached DEF MovedTo, Working
<1>5. buf \in [Buffer -> [block : Block \cup {None}, dirty : 0 .. 1,
                          owner : Pid \cup {None}, page : [Word -> Datum]]]
      /\ disk[b] \in [Word -> Datum]
  BY <1>3 DEF FilesInv, CacheTypes
<1>6. /\ buf'[f].owner = p /\ buf'[f].block = b /\ \A g \in Buffer : g # f => buf'[g] = buf[g]
      /\ buf' \in [Buffer -> [block : Block \cup {None}, dirty : 0 .. 1,
                              owner : Pid \cup {None}, page : [Word -> Datum]]]
  <2>1. PICK d \in [Word -> Datum] : d = disk[b]
    BY <1>5
  <2>2. buf' = [buf EXCEPT ![f].block = b, ![f].page = d]
    BY <1>2, <2>1
  <2>3. PICK r \in [block : Block \cup {None}, dirty : 0 .. 1,
                    owner : Pid \cup {None}, page : [Word -> Datum]] : r = buf[f]
    BY <1>3, <1>5
  <2>4. PICK y : y = [r EXCEPT !.block = b, !.page = d]
    OBVIOUS
  <2>5. y = [block |-> b, dirty |-> r.dirty, owner |-> r.owner, page |-> d]
    BY <2>3, <2>4
  <2>6. /\ y.owner = r.owner /\ y.block = b
        /\ y \in [block : Block \cup {None}, dirty : 0 .. 1,
                  owner : Pid \cup {None}, page : [Word -> Datum]]
    BY <1>3, <2>1, <2>3, <2>5
  <2>7. buf' = [buf EXCEPT ![f] = y]
    BY <1>3, <1>5, <2>2, <2>3, <2>4
  <2> QED BY <1>3, <1>5, <2>3, <2>6, <2>7
<1>7. CacheTypes'
  BY <1>2, <1>6 DEF FilesInv, CacheTypes
<1> QED BY <1>1, <1>2, <1>3, <1>4, <1>6, <1>7, BufferStep

\* The last step of a call: the file may have become longer.
LEMMA Finished ==
    ASSUME FilesInv, NEW p \in Pid, pc[p] = "word", Finish(p), UNCHANGED <<opens, res, disk>>,
           CacheTypes', InodesInv', NEW i \in Inode \ {Root}, i = I(p), EndOK(i)',
           \A f \in Buffer : f # F(p) => buf'[f] = buf[f],
           \A j \in Inode : j # i => inode'[j] = inode[j],
           inode'[i].name = inode[i].name, inode'[i].size >= inode[i].size,
           Pos(p) < inode'[i].size
    PROVE  FilesInv'
<1>1. /\ Past(p) /\ Return(p) /\ PosMoved(K(p), Pos(p) + 1)
      /\ lock' = [lock EXCEPT ![i] = None]
  BY DEF Past, Working, Finish, PosMoved
<1>2. /\ K(p) \in OpenFile /\ oft[K(p)].inode = i /\ Pos(p) \in Nat /\ Pos(p) + 1 \in Nat
      /\ inode'[i].size \in Int
  BY <1>1, WorkFacts DEF InodesInv, InodeTypes
<1>3. lock' \in [Inode -> Pid \cup {None}] /\ \A j \in Inode : j # i => lock'[j] = lock[j]
  BY <1>1, LockTypes
<1>4. /\ CallTypes' /\ CallOK(p)'
      /\ \A q \in Pid \ {p} : pc'[q] = pc[q] /\ call'[q] = call[q]
  BY <1>1, <1>3, Returned
<1>5. /\ HandlesInv'
      /\ \A l \in OpenFile : oft'[l].inode = oft[l].inode /\ (l # K(p) => oft'[l] = oft[l])
  <2>1. ASSUME NEW j \in Inode
        PROVE  (Exists(j) => Exists(j)') /\ SizeOf(j)' >= SizeOf(j) /\ SizeOf(j)' \in Int
    <3>1. CASE j = i
      BY <1>2, <3>1 DEF Exists, SizeOf
    <3>2. CASE j # i
      <4>1. SizeOf(j)' = SizeOf(j) /\ SizeOf(j) \in Int
        BY <3>2, SizeTypes DEF SizeOf
      <4> QED BY <3>2, <4>1 DEF Exists
    <3> QED BY <3>1, <3>2
  <2>2. Pos(p) + 1 <= SizeOf(i)'
    BY <1>2 DEF SizeOf
  <2> QED BY <1>1, <1>2, <2>1, <2>2, KeepMoved
<1>6. \A q \in Pid \ {p} : Left(q)
  <2> SUFFICES ASSUME NEW q \in Pid \ {p} PROVE Left(q)
    OBVIOUS
  <2>1. ASSUME pc[q] # "user", call[q].op \in FileOps PROVE K(q) \in OpenFile
    BY <2>1, CallFields DEF K, FilesInv, CallTypes
  <2>2. Past(q) => I(q) \in Inode /\ I(q) # i /\ K(q) # K(p) /\ K(q) \in OpenFile
    BY <1>1, WorkFacts, WorkApart
  <2>3. buf[F(p)].owner = p
    BY <1>1, Reached DEF InBuffer
  <2>4. Past(q) /\ buf[F(q)].owner = q => buf'[F(q)] = buf[F(q)]
    BY <2>3, WorkFacts
  <2> QED BY <1>3, <1>4, <1>5, <2>1, <2>2, <2>4 DEF Left
<1>7. CallsOK'
  BY <1>4, <1>6, KeepCall DEF CallsOK
<1>8. Ends'
  <2> SUFFICES ASSUME NEW j \in Inode \ {Root}, j # i PROVE EndOK(j)'
    BY DEF Ends
  <2>1. ~Adding(p, j)
    BY DEF Adding
  <2> QED BY <1>6, <2>1, KeepEnd
<1> QED BY <1>4, <1>5, <1>7, <1>8 DEF FilesInv

LEMMA ReadWordSafe ==
    ASSUME FilesInv, NEW p \in Pid, ReadWord(p)
    PROVE  FilesInv'
<1>1. PICK f : f = F(p)
  OBVIOUS
<1>2. /\ Past(p) /\ pc[p] = "word" /\ call[p].op = "read" /\ Finish(p)
      /\ UNCHANGED <<inode, root, used, opens, res, disk>>
      /\ heard' = buf[f].page[Pos(p) % BlockSize]
      /\ buf' = [buf EXCEPT ![f].owner = None]
  BY <1>1 DEF ReadWord, At, Past, Working
<1>3. PICK i \in Inode \ {Root} : i = I(p) /\ Pos(p) < inode[i].size
  BY <1>2, WorkFacts
<1>4. f \in Buffer /\ Pos(p) % BlockSize \in Word
  BY <1>1, <1>2, WorkFacts
<1>5. CacheTypes'
  <2>1. CacheTypes
    BY DEF FilesInv
  <2>2. heard' \in Datum
    BY <1>2, <1>4, <2>1 DEF CacheTypes
  <2>3. buf' \in [Buffer -> [block : Block \cup {None}, dirty : 0 .. 1,
                             owner : Pid \cup {None}, page : [Word -> Datum]]]
    BY <1>2, <1>4, <2>1 DEF CacheTypes
  <2> QED BY <1>2, <2>1, <2>2, <2>3 DEF CacheTypes
<1>6. \A g \in Buffer : g # F(p) => buf'[g] = buf[g]
  BY <1>1, <1>2, <1>4 DEF FilesInv, CacheTypes
<1>7. EndOK(i)'
  <2>1. /\ \A q \in Pid \ {p} : Adding(q, i) => FALSE
        /\ ~Adding(p, i)
    BY <1>2, <1>3, WorkFacts, WorkApart DEF Adding
  <2>2. EndOK(i)
    BY DEF FilesInv, Ends
  <2> QED BY <1>2, <2>1, <2>2 DEF EndOK
<1>8. inode[i].size \in Int
  BY DEF FilesInv, InodesInv, InodeTypes
<1>9. inode' = inode /\ UNCHANGED <<opens, res, disk>>
  BY <1>2
<1>10. InodesInv'
  BY <1>2, KeepInodes
<1>11. /\ inode'[i].name = inode[i].name /\ inode'[i].size >= inode[i].size
       /\ Pos(p) < inode'[i].size /\ \A j \in Inode : j # i => inode'[j] = inode[j]
  BY <1>3, <1>8, <1>9
<1> QED BY <1>2, <1>3, <1>5, <1>6, <1>7, <1>9, <1>10, <1>11, Finished

\* A file of which one word is added at its end.
LEMMA Longer ==
    ASSUME FilesInv, NEW i \in Inode \ {Root}, Exists(i), inode[i].size < MaxSize,
           used' = used, inode' = [inode EXCEPT ![i].size = @ + 1],
           root' = [root EXCEPT ![i].size = @ + 1]
    PROVE  /\ InodesInv' /\ inode'[i].name = inode[i].name /\ inode'[i].size = inode[i].size + 1
           /\ inode'[i].blocks = inode[i].blocks
           /\ \A j \in Inode : j # i => inode'[j] = inode[j]
<1>1. inode \in [Inode -> [name : FileName \cup {NoName}, size : Int,
                           perm : Permissions \cup {0, None}, blocks : [Part -> Block \cup {None}]]]
  BY DEF FilesInv, InodesInv, InodeTypes
<1>2. /\ inode'[i].name = inode[i].name /\ inode'[i].size = inode[i].size + 1
      /\ inode'[i].perm = inode[i].perm /\ inode'[i].blocks = inode[i].blocks
      /\ \A j \in Inode : j # i => inode'[j] = inode[j]
  BY <1>1
<1>3. InodeTypes'
  <2>1. inode' \in [Inode -> [name : FileName \cup {NoName}, size : Int,
                              perm : Permissions \cup {0, None}, blocks : [Part -> Block \cup {None}]]]
    BY <1>1
  <2>2. root = [j \in Inode |-> [name |-> inode[j].name, size |-> inode[j].size]]
        /\ used \in [Block -> 0 .. 1]
    BY DEF FilesInv, InodesInv, InodeTypes
  <2>3. root' = [j \in Inode |-> IF j = i THEN [name |-> inode[j].name, size |-> inode[j].size + 1]
                                 ELSE root[j]]
    BY <2>2
  <2>4. root' = [j \in Inode |-> [name |-> inode'[j].name, size |-> inode'[j].size]]
    BY <1>2, <2>2, <2>3, SMTT(40)
  <2> QED BY <2>1, <2>2, <2>4 DEF InodeTypes
<1>4. InodesOK'
  <2>1. InodesOK
    BY DEF FilesInv, InodesInv
  <2>2. inode[i].size \in Int /\ MaxSize \in Int
    BY <1>1, Constants
  <2>3. inode'[Root] = inode[Root]
    BY <1>2, Constants
  <2>4. ASSUME NEW j \in Inode
        PROVE  /\ j = Root \/ ~Exists(j)' => \A m \in Part : inode'[j].blocks[m] = None
               /\ j # Root => inode'[j].size <= MaxSize
               /\ Exists(j)' => inode'[j].size >= 0
    <3>1. CASE j = i
      <4>1. inode[i].size >= 0
        BY <2>1 DEF InodesOK
      <4> QED BY <1>2, <2>2, <3>1, <4>1 DEF Exists
    <3>2. CASE j # i
      BY <1>2, <2>1, <3>2 DEF InodesOK, Exists
    <3> QED BY <3>1, <3>2
  <2> QED BY <2>1, <2>3, <2>4 DEF InodesOK
<1>5. BlocksOwned'
  BY <1>2, KeepOwned
<1> QED BY <1>2, <1>3, <1>4, <1>5 DEF InodesInv

LEMMA WriteWordSafe ==
    ASSUME FilesInv, NEW p \in Pid, WriteWord(p)
    PROVE  FilesInv'
<1>1. PICK f, w, o : f = F(p) /\ w = call[p].arg /\ o = Pos(p) % BlockSize
  OBVIOUS
<1>2. /\ Past(p) /\ pc[p] = "word" /\ call[p].op = "write" /\ Finish(p)
      /\ UNCHANGED <<used, opens, res, disk, heard>>
      /\ buf' = [buf EXCEPT ![f].page[o] = w, ![f].dirty = 1, ![f].owner = None]
  BY <1>1 DEF WriteWord, PutWord, At, Past, Working
<1>3. PICK i \in Inode \ {Root} :
        i = I(p) /\ Exists(i) /\ Pos(p) \in Nat /\ Pos(p) <= inode[i].size /\ Pos(p) < MaxSize
  BY <1>2, WorkFacts
<1>4. f \in Buffer /\ o \in Word /\ w \in Words
  BY <1>1, <1>2, WorkFacts, Reached
<1>5. CacheTypes' /\ \A g \in Buffer : g # F(p) => buf'[g] = buf[g]
  <2>1. CacheTypes
    BY DEF FilesInv
  <2>2. w \in Datum
    BY <1>4 DEF Datum
  <2>3. PICK x \in [block : Block \cup {None}, dirty : 0 .. 1,
                    owner : Pid \cup {None}, page : [Word -> Datum]] : x = buf[f]
    BY <1>4, <2>1 DEF CacheTypes
  <2>4. PICK y : y = [x EXCEPT !.page[o] = w, !.dirty = 1, !.owner = None]
    OBVIOUS
  <2>5. y \in [block : Block \cup {None}, dirty : 0 .. 1,
               owner : Pid \cup {None}, page : [Word -> Datum]]
    <3>1. y.block = x.block /\ y.dirty = 1 /\ y.owner = None /\ y.page = [x.page EXCEPT ![o] = w]
      BY <2>3, <2>4
    <3>2. [x.page EXCEPT ![o] = w] \in [Word -> Datum]
      BY <1>4, <2>2, <2>3
    <3>3. y = [block |-> y.block, dirty |-> y.dirty, owner |-> y.owner, page |-> y.page]
      BY <2>3, <2>4
    <3> QED BY <2>3, <3>1, <3>2, <3>3
  <2>6. buf' = [buf EXCEPT ![f] = y]
    BY <1>2, <1>4, <2>1, <2>3, <2>4 DEF CacheTypes
  <2>7. buf' \in [Buffer -> [block : Block \cup {None}, dirty : 0 .. 1,
                             owner : Pid \cup {None}, page : [Word -> Datum]]]
    BY <2>1, <2>5, <2>6 DEF CacheTypes
  <2>8. \A g \in Buffer : g # F(p) => buf'[g] = buf[g]
    BY <1>1, <2>1, <2>6 DEF CacheTypes
  <2> QED BY <1>2, <2>1, <2>7, <2>8 DEF CacheTypes
<1>6. inode[i].size \in Int /\ MaxSize \in Int
  BY Constants DEF FilesInv, InodesInv, InodeTypes
<1>7. EndOK(i)
  BY DEF FilesInv, Ends
<1>8. CASE Pos(p) = inode[i].size
  <2>1. inode' = [inode EXCEPT ![i].size = @ + 1] /\ root' = [root EXCEPT ![i].size = @ + 1]
    BY <1>3, <1>8 DEF WriteWord
  <2>2. /\ InodesInv' /\ inode'[i].name = inode[i].name /\ inode'[i].size = inode[i].size + 1
        /\ inode'[i].blocks = inode[i].blocks
        /\ \A j \in Inode : j # i => inode'[j] = inode[j]
    BY <1>2, <1>3, <1>8, <2>1, Longer
  <2>3. EndOK(i)'
    <3> SUFFICES ASSUME NEW m \in Part
                 PROVE  /\ m * BlockSize < inode[i].size + 1 => inode[i].blocks[m] # None
                        /\ m * BlockSize >= inode[i].size + 1 => inode[i].blocks[m] = None
      BY <2>2 DEF EndOK
    <3>1. PICK x \in Int : x = m * BlockSize
      BY FileSystemAssumption DEF Part
    <3>2. x = inode[i].size => inode[i].blocks[m] # None
      <4>1. x = inode[i].size => Pos(p) \div BlockSize = m
        BY <1>3, <1>8, <3>1, PlaceOf
      <4>2. inode[i].blocks[Pos(p) \div BlockSize] # None
        BY <1>2, <1>3, WorkFacts, Constants
      <4> QED BY <4>1, <4>2
    <3>3. x < inode[i].size => inode[i].blocks[m] # None
      BY <1>7, <3>1 DEF EndOK
    <3>4. x >= inode[i].size /\ inode[i].blocks[m] # None => x = inode[i].size
      BY <1>7, <3>1 DEF EndOK
    <3> QED BY <1>6, <3>1, <3>2, <3>3, <3>4
  <2>4. inode'[i].size >= inode[i].size /\ Pos(p) < inode'[i].size
    BY <1>3, <1>6, <1>8, <2>2
  <2> QED BY <1>2, <1>3, <1>5, <2>2, <2>3, <2>4, Finished
<1>9. CASE Pos(p) # inode[i].size
  <2>1. UNCHANGED <<inode, root>>
    BY <1>3, <1>9 DEF WriteWord
  <2>2. InodesInv'
    BY <1>2, <2>1, KeepInodes
  <2>3. EndOK(i)'
    <3>1. /\ \A q \in Pid \ {p} : ~Adding(q, i)
          /\ ~Adding(p, i)
      BY <1>2, <1>3, <1>9, WorkFacts, WorkApart DEF Adding
    <3> QED BY <1>7, <2>1, <3>1 DEF EndOK
  <2>4. inode'[i].size >= inode[i].size /\ Pos(p) < inode'[i].size
    BY <1>3, <1>6, <1>9, <2>1
  <2>5. inode'[i].name = inode[i].name /\ \A j \in Inode : j # i => inode'[j] = inode[j]
    BY <2>1
  <2> QED BY <1>2, <1>3, <1>5, <2>2, <2>3, <2>4, <2>5, Finished
<1> QED BY <1>8, <1>9
-----------------------------------------------------------------------------
(***************************************************************************)
(* The theorem.                                                            *)
(***************************************************************************)
LEMMA FilesInit == Init => FilesInv
<1> SUFFICES ASSUME Init PROVE FilesInv
  OBVIOUS
<1> DEFINE first == [Unlinked EXCEPT !.name = RootName, !.size = RootSize, !.perm = 0]
<1>1. /\ Unlinked \in [name : FileName \cup {NoName}, size : Int,
                       perm : Permissions \cup {0, None}, blocks : [Part -> Block \cup {None}]]
      /\ Unlinked.name = NoName /\ Unlinked.size = -1
      /\ \A m \in Part : Unlinked.blocks[m] = None
  BY DEF Unlinked, None
<1>2. /\ first \in [name : FileName \cup {NoName}, size : Int,
                    perm : Permissions \cup {0, None}, blocks : [Part -> Block \cup {None}]]
      /\ first.name = RootName /\ first.size = RootSize /\ first.perm = 0
      /\ \A m \in Part : first.blocks[m] = None
  <2>1. first = [name |-> RootName, size |-> RootSize, perm |-> 0, blocks |-> [m \in Part |-> None]]
    <3>1. PICK bs : bs = [m \in Part |-> None]
      OBVIOUS
    <3>2. Unlinked = [name |-> NoName, size |-> None, perm |-> None, blocks |-> bs]
      BY <3>1 DEF Unlinked
    <3> HIDE DEF first
    <3>3. first = [Unlinked EXCEPT !.name = RootName, !.size = RootSize, !.perm = 0]
      BY DEF first
    <3>4. first = [name |-> RootName, size |-> RootSize, perm |-> 0, blocks |-> bs]
      BY <3>2, <3>3
    <3> QED BY <3>1, <3>4
  <2>2. PICK bs \in [Part -> Block \cup {None}] : bs = [m \in Part |-> None]
    OBVIOUS
  <2>3. RootName \in FileName /\ RootSize \in Int
    BY Constants DEF FileName
  <2>4. first = [name |-> RootName, size |-> RootSize, perm |-> 0, blocks |-> bs]
    BY <2>1, <2>2
  <2>5. \A m \in Part : bs[m] = None
    BY <2>2
  <2> HIDE DEF first
  <2> QED BY <2>3, <2>4, <2>5
<1>3. inode = [i \in Inode |-> IF i = Root THEN first ELSE Unlinked]
  BY DEF Init
<1>4. \A i \in Inode, m \in Part : inode[i].blocks[m] = None
  BY <1>1, <1>2, <1>3
<1>5. InodeTypes
  <2>1. inode \in [Inode -> [name : FileName \cup {NoName}, size : Int,
                             perm : Permissions \cup {0, None}, blocks : [Part -> Block \cup {None}]]]
    BY <1>1, <1>2, <1>3
  <2>2. root = [i \in Inode |-> IF i = Root THEN [name |-> RootName, size |-> RootSize] ELSE NoEntry]
    BY DEF Init
  <2>3. \A i \in Inode : [name |-> inode[i].name, size |-> inode[i].size]
                           = IF i = Root THEN [name |-> RootName, size |-> RootSize] ELSE NoEntry
    BY <1>1, <1>2, <1>3 DEF NoEntry, None
  <2>4. root = [i \in Inode |-> [name |-> inode[i].name, size |-> inode[i].size]]
    BY <2>2, <2>3
  <2> QED BY <2>1, <2>4 DEF InodeTypes, Init
<1>6. InodesOK
  <2>1. inode[Root] = first /\ \A i \in Inode : i # Root => inode[i].size = -1 /\ inode[i].name = NoName
    BY <1>1, <1>3, Constants
  <2>2. MaxSize \in Nat /\ inode[Root].size >= 0
    BY <1>2, <2>1, Constants
  <2>3. ASSUME NEW i \in Inode
        PROVE  (i # Root => inode[i].size <= MaxSize) /\ (Exists(i) => inode[i].size >= 0)
    <3>1. CASE i = Root
      BY <2>2, <3>1
    <3>2. CASE i # Root
      <4>1. inode[i].size = -1 /\ ~Exists(i)
        BY <2>1, <3>2 DEF Exists
      <4> QED BY <2>2, <4>1
    <3> QED BY <3>1, <3>2
  <2> QED BY <1>2, <1>4, <2>1, <2>3 DEF InodesOK
<1>7. BlocksOwned
  BY <1>4, Constants DEF BlocksOwned, Init
<1>8. \A k \in OpenFile : oft[k] = [inode |-> None, lseek |-> -1]
  BY DEF Init, Closed, None
<1>9. OpenTypes
  BY <1>8 DEF OpenTypes, Init, Closed, None
<1>10. HandlesOK
  BY <1>8 DEF HandlesOK, Init
<1>11. OpenCounts
  <2> SUFFICES ASSUME NEW i \in Inode
               PROVE  opens[i] = IF Cardinality({k \in OpenFile : oft[k].inode = i}) = 0 THEN None
                                 ELSE Cardinality({k \in OpenFile : oft[k].inode = i})
    BY DEF OpenCounts
  <2>1. {k \in OpenFile : oft[k].inode = i} = {}
    BY <1>8, Constants
  <2> QED BY <2>1, FS_EmptySet DEF Init
<1>12. CacheTypes
  <2>1. ZeroPage \in [Word -> Datum]
    BY DEF ZeroPage, Datum
  <2> QED BY <2>1 DEF CacheTypes, Init, Datum
<1>13. CallTypes /\ CallsOK
  BY DEF CallTypes, CallsOK, CallOK, Past, Working, Init
<1>14. Ends
  <2>1. \A i \in Inode \ {Root} : inode[i].size = -1
    BY <1>1, <1>3
  <2>2. \A m \in Part : ~(m * BlockSize < -1)
    BY FileSystemAssumption DEF Part
  <2> QED BY <1>4, <2>1, <2>2, FileSystemAssumption DEF Ends, EndOK, Part
<1> QED BY <1>5, <1>6, <1>7, <1>9, <1>10, <1>11, <1>12, <1>13, <1>14
        DEF FilesInv, InodesInv, HandlesInv

LEMMA FilesNext == FilesInv /\ [Next]_vars => FilesInv'
<1> SUFFICES ASSUME FilesInv, [Next]_vars PROVE FilesInv'
  OBVIOUS
<1>1. CASE UNCHANGED vars
  <2>1. UNCHANGED <<tables, cache, heard, pc, call, running, lock>>
    BY <1>1 DEF vars, tables
  <2>2. \A q \in Pid : Left(q)
    BY <2>1 DEF Left, tables, cache
  <2>3. CallsOK'
    BY <2>2, KeepCall DEF CallsOK
  <2>4. Ends'
    <3>1. \A i \in Inode : \A q \in Pid : Adding(q, i) => Adding(q, i)'
      BY <2>1 DEF Adding, Past, I, Pos, tables
    <3> QED BY <2>1, <3>1 DEF FilesInv, Ends, EndOK, tables
  <2> QED BY <2>1, <2>3, <2>4, KeepInodes, KeepHandles, KeepCache, KeepCallTypes
          DEF FilesInv, tables
<1>2. ASSUME NEW p \in Pid, User(p) PROVE FilesInv'
  BY <1>2, CreateSafe, CloseSafe, ForkSafe DEF User
<1>3. ASSUME NEW p \in Pid, Lock(p) PROVE FilesInv'
  <2>1. PICK c \in AtInode(p) : \/ WaitInode(p, c) \/ Vanished(p, c)
                                \/ Delete(p, c) \/ Open(p, c) \/ Seek(p, c)
                                \/ StartRead(p, c) \/ StartWrite(p, c)
    BY <1>3 DEF Lock
  <2>2. Due(p, c)
    BY AskedCall
  <2> QED BY <2>1, <2>2, WaitInodeSafe, VanishedSafe, DeleteSafe, OpenSafe, SeekSafe,
             StartReadSafe, StartWriteSafe
<1>4. ASSUME NEW p \in Pid, Work(p) PROVE FilesInv'
  BY <1>4, TakeBufferSafe, StoredSafe, LoadedSafe, ReadWordSafe, WriteWordSafe DEF Work
<1> QED BY <1>1, <1>2, <1>3, <1>4 DEF Next

LEMMA FilesAlways == Spec => []FilesInv
BY FilesInit, FilesNext, PTL DEF Spec

LEMMA FilesAgree == FilesInv => TablesAgree
<1> SUFFICES ASSUME FilesInv PROVE TablesAgree
  OBVIOUS
<1>1. TypeOK
  BY DEF FilesInv, InodesInv, InodeTypes, HandlesInv, OpenTypes, CacheTypes, CallTypes,
         TypeOK, FileName, Datum
<1>2. SizesFit
  <2>1. ASSUME NEW i, NEW p \in Pid, Adding(p, i) PROVE Growing(i)
    <3>1. pc[p] # "inode"
      BY <2>1 DEF Adding, Past, Working
    <3> QED BY <2>1, <3>1 DEF Adding, Growing
  <2> QED BY <2>1 DEF FilesInv, Ends, EndOK, SizesFit
<1>3. RootAgrees
  BY DEF FilesInv, InodesInv, InodeTypes, RootAgrees
<1>4. Held
  <2> SUFFICES ASSUME NEW p \in Pid
               PROVE  /\ pc[p] \in {"buffer", "store", "load", "word"} =>
                           lock[I(p)] = p /\ Pos(p) = oft[K(p)].lseek /\ Blk(p) # None
                      /\ pc[p] \in {"store", "load", "word"} => buf[F(p)].owner = p
                      /\ pc[p] = "word" => buf[F(p)].block = Blk(p)
    BY DEF Held
  <2>1. Past(p) => AtWork(p) /\ InBuffer(p)
    BY DEF FilesInv, CallsOK, CallOK
  <2> QED BY <2>1 DEF Past, Working, AtWork, InBuffer
<1> QED BY <1>1, <1>2, <1>3, <1>4 DEF FilesInv, InodesInv, HandlesInv, TablesAgree

(***************************************************************************)
(* The tables of the file system agree at every moment another process may *)
(* look at them: blocks have one owner and are marked used, sizes fit the  *)
(* blocks, the root file names the files, the counts delete asks are those *)
(* of the open files, and a call past its lock has the inode, the position *)
(* and the buffer it works on (int_4 to int_7, file_manager).              *)
(***************************************************************************)
THEOREM FilesSafe == Spec => []TablesAgree
BY FilesAlways, FilesAgree, PTL
-----------------------------------------------------------------------------
(***************************************************************************)
(* Files as sequences of words.                                            *)
(***************************************************************************)
HasWords(i, m) == m * BlockSize < inode[i].size

\* A word that is not in its block's buffer, or may be overwritten there, is on the disk.
Clean(b) == buf[BufferOf(b)].block = b /\ buf[BufferOf(b)].dirty = 0 =>
              disk[b] = buf[BufferOf(b)].page

BuffersHome  == \A f \in Buffer : buf[f].block # None => BufferOf(buf[f].block) = f
CleanBuffers == \A i \in Inode \ {Root}, m \in Part : HasWords(i, m) => Clean(inode[i].blocks[m])
Replacing    == \A p \in Pid : pc[p] = "load" => buf[F(p)].dirty = 0

WordsInv == FilesInv /\ BuffersHome /\ CleanBuffers /\ Replacing

\* Where the words of a file are.
PlaceIs(i, n, m, o) ==
    /\ m \in Part /\ o \in Word /\ m = (n - 1) \div BlockSize /\ o = (n - 1) % BlockSize
    /\ m * BlockSize <= n - 1 /\ HasWords(i, m) /\ inode[i].blocks[m] \in Block

LEMMA PlaceIn ==
    ASSUME FilesInv, NEW i \in Inode \ {Root}, NEW n \in 1 .. inode[i].size
    PROVE  \E m, o : PlaceIs(i, n, m, o)
<1>1. inode[i].size \in Int /\ inode[i].size <= MaxSize /\ MaxSize \in Int
  BY Constants DEF FilesInv, InodesInv, InodeTypes, InodesOK
<1>2. PICK k \in Nat : k = n - 1 /\ k < inode[i].size /\ k < MaxSize
  BY <1>1
<1>3. PICK m, o : m = k \div BlockSize /\ o = k % BlockSize
  OBVIOUS
<1>4. m \in Part /\ o \in Word /\ m * BlockSize <= k
  BY <1>2, <1>3, PlaceOf
<1>5. m * BlockSize \in Int
  BY <1>4, FileSystemAssumption DEF Part
<1>6. HasWords(i, m)
  BY <1>1, <1>2, <1>4, <1>5 DEF HasWords
<1>7. inode[i].blocks[m] \in Block
  BY <1>4, <1>6 DEF HasWords, FilesInv, Ends, EndOK, InodesInv, InodeTypes
<1> QED BY <1>2, <1>3, <1>4, <1>6, <1>7 DEF PlaceIs

LEMMA ContentType ==
    ASSUME FilesInv, NEW b \in Block, NEW o \in Word
    PROVE  Content(b, o) \in Datum
BY HomeOf DEF FilesInv, CacheTypes, Content

WordAt(i, n) == Content(inode[i].blocks[(n - 1) \div BlockSize], (n - 1) % BlockSize)

LEMMA DataIs ==
    ASSUME FilesInv, NEW i \in Inode \ {Root}, Exists(i)
    PROVE  /\ inode[i].size \in Nat /\ Len(Data(i)) = inode[i].size /\ Data(i) \in Seq(Datum)
           /\ \A n \in 1 .. inode[i].size : Data(i)[n] = WordAt(i, n)
<1>1. PICK N \in Nat : N = inode[i].size
  BY DEF FilesInv, InodesInv, InodesOK, InodeTypes
<1>2. Data(i) = [n \in 1 .. N |-> WordAt(i, n)]
  BY <1>1 DEF Data, WordAt
<1>3. ASSUME NEW n \in 1 .. N PROVE WordAt(i, n) \in Datum
  <2>1. PICK m, o : PlaceIs(i, n, m, o)
    BY <1>1, PlaceIn
  <2>2. WordAt(i, n) = Content(inode[i].blocks[m], o)
    BY <2>1 DEF PlaceIs, WordAt
  <2> QED BY <2>1, <2>2, ContentType DEF PlaceIs
<1>4. Data(i) \in [1 .. N -> Datum]
  BY <1>2, <1>3
<1>5. Data(i) \in Seq(Datum)
  BY <1>4, SeqDef
<1>6. Len(Data(i)) \in Nat /\ DOMAIN Data(i) = 1 .. Len(Data(i)) /\ DOMAIN Data(i) = 1 .. N
  BY <1>4, <1>5, LenProperties
<1>7. Len(Data(i)) = N
  <2>1. PICK L \in Nat : L = Len(Data(i)) /\ 1 .. L = 1 .. N
    BY <1>6
  <2>2. L \in 1 .. L \/ L = 0
    BY <2>1
  <2>3. N \in 1 .. N \/ N = 0
    OBVIOUS
  <2> QED BY <2>1, <2>2, <2>3
<1> QED BY <1>1, <1>2, <1>5, <1>7

\* A file whose words are where they were, or moved, is the same file.
LEMMA SameData ==
    ASSUME FilesInv, NEW i \in Inode \ {Root}, inode'[i].size = inode[i].size,
           \A m \in Part : HasWords(i, m) =>
              /\ inode'[i].blocks[m] = inode[i].blocks[m]
              /\ \A o \in Word, b \in Block : b = inode[i].blocks[m] => Content(b, o)' = Content(b, o)
    PROVE  Data(i)' = Data(i)
<1>1. ASSUME NEW n \in 1 .. inode[i].size PROVE WordAt(i, n)' = WordAt(i, n)
  <2>1. PICK m, o : PlaceIs(i, n, m, o)
    BY PlaceIn
  <2>2. PICK b \in Block : b = inode[i].blocks[m] /\ b = inode'[i].blocks[m]
    BY <2>1 DEF PlaceIs
  <2>3. WordAt(i, n) = Content(b, o)
    BY <2>1, <2>2 DEF PlaceIs, WordAt
  <2>4. WordAt(i, n)' = Content(b, o)'
    BY <2>1, <2>2 DEF PlaceIs, WordAt
  <2> QED BY <2>1, <2>2, <2>3, <2>4 DEF PlaceIs
<1>2. Data(i)' = [n \in 1 .. inode[i].size |-> WordAt(i, n)']
  BY DEF Data, WordAt
<1>3. Data(i) = [n \in 1 .. inode[i].size |-> WordAt(i, n)]
  BY DEF Data, WordAt
<1> QED BY <1>1, <1>2, <1>3

Seen(i) == IF i = Root THEN [name |-> RootName, data |-> <<>>]
           ELSE IF Exists(i) THEN [name |-> inode[i].name, data |-> Data(i)]
           ELSE [name |-> "none"]

LEMMA SeenIs == FilesSeen = [i \in Inode |-> Seen(i)]
BY DEF FilesSeen, Seen

LEMMA SameSeen ==
    ASSUME NEW i \in Inode, inode'[i].name = inode[i].name,
           i # Root /\ Exists(i) => Data(i)' = Data(i)
    PROVE  Seen(i)' = Seen(i)
BY DEF Seen, Exists

LEMMA SameFiles ==
    ASSUME \A i \in Inode : Seen(i)' = Seen(i)
    PROVE  FilesSeen' = FilesSeen
<1>1. FilesSeen' = [i \in Inode |-> Seen(i)']
  BY DEF FilesSeen, Seen
<1> QED BY <1>1, SeenIs

\* Words stay where they are.
Resting == inode' = inode /\ disk' = disk
           /\ \A f \in Buffer : buf'[f].block = buf[f].block /\ buf'[f].page = buf[f].page

LEMMA RestingContent ==
    ASSUME NEW b \in Block, NEW o \in Word, disk' = disk,
           \A f \in Buffer : buf'[f].block = buf[f].block /\ buf'[f].page = buf[f].page
    PROVE  Content(b, o)' = Content(b, o)
BY HomeOf DEF Content

LEMMA RestingFiles ==
    ASSUME FilesInv, Resting
    PROVE  FilesSeen' = FilesSeen
<1>1. \A i \in Inode \ {Root} : Data(i)' = Data(i)
  BY SameData, RestingContent DEF Resting
<1> QED BY <1>1, SameSeen, SameFiles DEF Resting

Handle(k) == IF oft[k].inode = None THEN [file |-> None]
             ELSE [file |-> oft[k].inode, pos |-> oft[k].lseek]

LEMMA HandleIs ==
    /\ HandlesSeen = [k \in OpenFile |-> Handle(k)]
    /\ HandlesSeen' = [k \in OpenFile |-> Handle(k)']
BY DEF HandlesSeen, Handle

LEMMA SameHandles ==
    ASSUME \A k \in OpenFile : oft'[k] = oft[k]
    PROVE  HandlesSeen' = HandlesSeen
<1>1. \A k \in OpenFile : Handle(k)' = Handle(k)
  BY DEF Handle
<1> QED BY <1>1, HandleIs

\* One open file, or one file, changes.
LEMMA OneHandle ==
    ASSUME NEW k \in OpenFile, \A l \in OpenFile : l # k => oft'[l] = oft[l],
           NEW h, h = Handle(k)'
    PROVE  HandlesSeen' = [HandlesSeen EXCEPT ![k] = h]
<1>1. \A l \in OpenFile : l # k => Handle(l)' = Handle(l)
  BY DEF Handle
<1> QED BY <1>1, HandleIs

LEMMA OneFileSeen ==
    ASSUME NEW i \in Inode, \A j \in Inode : j # i => Seen(j)' = Seen(j), NEW v, v = Seen(i)'
    PROVE  FilesSeen' = [FilesSeen EXCEPT ![i] = v]
<1>1. FilesSeen' = [j \in Inode |-> Seen(j)']
  BY DEF FilesSeen, Seen
<1> QED BY <1>1, SeenIs

LEMMA OpenHandle ==
    ASSUME FilesInv, NEW k \in OpenFile, oft[k].inode # None
    PROVE  /\ HandlesSeen[k] = [file |-> oft[k].inode, pos |-> oft[k].lseek]
           /\ oft[k].inode \in Inode /\ oft[k].lseek \in Nat /\ Exists(oft[k].inode)
           /\ oft[k].lseek <= SizeOf(oft[k].inode)
           /\ Files!IsOpen(k)
<1>1. HandlesSeen[k] = [file |-> oft[k].inode, pos |-> oft[k].lseek]
  BY HandleIs DEF Handle
<1>2. oft[k].inode \in Inode /\ oft[k].lseek \in Int
  BY DEF FilesInv, HandlesInv, OpenTypes
<1>3. Exists(oft[k].inode) /\ 0 <= oft[k].lseek /\ oft[k].lseek <= SizeOf(oft[k].inode)
  BY DEF FilesInv, HandlesInv, HandlesOK
<1>4. Files!IsOpen(k)
  <2>1. HandlesSeen[k].file # -1
    BY <1>1, Constants
  <2> QED BY <2>1 DEF Files!IsOpen, Files!NoHandle
<1> QED BY <1>1, <1>2, <1>3, <1>4

\* The size and the data that programs see.
LEMMA FileIs ==
    ASSUME FilesInv, NEW i \in Inode, Exists(i)
    PROVE  /\ Files!Size(i) = SizeOf(i) /\ FilesSeen[i] # Files!NoFile
           /\ i # Root => FilesSeen[i] = [name |-> inode[i].name, data |-> Data(i)]
<1>1. FilesSeen[i] = Seen(i)
  BY SeenIs
<1>2. i # Root => FilesSeen[i] = [name |-> inode[i].name, data |-> Data(i)]
  BY <1>1 DEF Seen
<1>3. FilesSeen[i] # Files!NoFile
  <2>1. "data" \in DOMAIN FilesSeen[i]
    BY <1>1 DEF Seen
  <2>2. "data" \notin DOMAIN Files!NoFile
    BY DEF Files!NoFile
  <2> QED BY <2>1, <2>2
<1>4. Files!Size(i) = SizeOf(i)
  <2>1. CASE i = Root
    BY <2>1 DEF Files!Size, SizeOf
  <2>2. CASE i # Root
    <3>1. FilesSeen[i].data = Data(i)
      BY <1>2, <2>2
    <3>2. Len(Data(i)) = inode[i].size
      BY <2>2, DataIs
    <3> QED BY <2>2, <3>1, <3>2 DEF Files!Size, SizeOf
  <2> QED BY <2>1, <2>2
<1> QED BY <1>2, <1>3, <1>4
-----------------------------------------------------------------------------
(***************************************************************************)
(* Steps that leave the words where they are.                              *)
(***************************************************************************)
LEMMA LoadKept ==
    ASSUME FilesInv, NEW q \in Pid, pc[q] = "load", call'[q] = call[q],
           \A i \in Inode : inode'[i].blocks = inode[i].blocks \/ lock[i] = None \/ ~Exists(i)
    PROVE  F(q)' = F(q)
<1>1. Past(q) /\ I(q) \in Inode /\ Exists(I(q)) /\ lock[I(q)] # None
  <2>1. Past(q)
    BY DEF Past, Working
  <2> QED BY <2>1, WorkFacts, Constants
<1>2. inode'[I(q)].blocks = inode[I(q)].blocks
  BY <1>1
<1> QED BY <1>2 DEF F, Blk, I, Pos

KeepsPages == \A f \in Buffer : /\ buf'[f].block = buf[f].block /\ buf'[f].page = buf[f].page
                                /\ buf'[f].dirty = buf[f].dirty \/ buf'[f].dirty = 0

LEMMA KeepWords ==
    ASSUME WordsInv, FilesInv', disk' = disk, KeepsPages,
           \A q \in Pid : pc'[q] = "load" => pc[q] = "load" /\ call'[q] = call[q],
           \A i \in Inode : inode'[i].blocks = inode[i].blocks \/ lock[i] = None \/ ~Exists(i),
           \A i \in Inode \ {Root}, m \in Part : HasWords(i, m)' =>
              /\ HasWords(i, m) /\ inode'[i].blocks[m] = inode[i].blocks[m]
              /\ \A f \in Buffer : buf[f].block = inode[i].blocks[m] => buf'[f].dirty = buf[f].dirty
    PROVE  WordsInv'
<1>1. BuffersHome'
  BY DEF WordsInv, BuffersHome, KeepsPages
<1>2. CleanBuffers'
  <2> SUFFICES ASSUME NEW i \in Inode \ {Root}, NEW m \in Part, HasWords(i, m)'
               PROVE  Clean(inode[i].blocks[m])'
    BY DEF CleanBuffers
  <2>1. PICK b : b = inode[i].blocks[m] /\ b = inode'[i].blocks[m]
    OBVIOUS
  <2>2. b \in Block
    BY <2>1 DEF WordsInv, FilesInv, Ends, EndOK, HasWords, InodesInv, InodeTypes
  <2>3. BufferOf(b) \in Buffer /\ Clean(b)
    BY <2>1, <2>2, HomeOf DEF WordsInv, CleanBuffers
  <2>4. Clean(b)'
    BY <2>1, <2>3 DEF Clean, KeepsPages
  <2> QED BY <2>1, <2>4
<1>3. Replacing'
  <2> SUFFICES ASSUME NEW q \in Pid, pc'[q] = "load" PROVE buf'[F(q)'].dirty = 0
    BY DEF Replacing
  <2>1. pc[q] = "load" /\ F(q)' = F(q)
    BY LoadKept DEF WordsInv
  <2>2. F(q) \in Buffer /\ buf[F(q)].dirty = 0
    <3>1. Past(q)
      BY <2>1 DEF Past, Working
    <3> QED BY <2>1, <3>1, WorkFacts DEF WordsInv, Replacing
  <2> QED BY <2>1, <2>2 DEF KeepsPages
<1> QED BY <1>1, <1>2, <1>3 DEF WordsInv

\* The tables of files and the words stay: only handles, locks and calls change.
LEMMA Quiet ==
    ASSUME WordsInv, FilesInv', inode' = inode, disk' = disk,
           \A f \in Buffer : /\ buf'[f].block = buf[f].block /\ buf'[f].page = buf[f].page
                             /\ buf'[f].dirty = buf[f].dirty,
           \A q \in Pid : pc'[q] = "load" => pc[q] = "load" /\ call'[q] = call[q]
    PROVE  WordsInv' /\ FilesSeen' = FilesSeen
<1>1. FilesSeen' = FilesSeen
  BY RestingFiles DEF WordsInv, Resting
<1>2. WordsInv'
  BY KeepWords DEF KeepsPages, HasWords
<1> QED BY <1>1, <1>2

LEMMA MovedLoads ==
    ASSUME FilesInv, NEW p \in Pid, NEW place, NEW c, MovedTo(p, place, c), place # "load"
    PROVE  \A q \in Pid : pc'[q] = "load" => pc[q] = "load" /\ call'[q] = call[q]
<1>1. pc \in [Pid -> {"user", "inode"} \cup Working] /\ call \in [Pid -> Calls \cup {NoCall}]
  BY DEF FilesInv, CallTypes
<1>2. pc'[p] = place /\ \A q \in Pid : q # p => pc'[q] = pc[q] /\ call'[q] = call[q]
  BY <1>1 DEF MovedTo
<1> QED BY <1>2

LEMMA ReturnLoads ==
    ASSUME FilesInv, NEW p \in Pid, Return(p)
    PROVE  \A q \in Pid : pc'[q] = "load" => pc[q] = "load" /\ call'[q] = call[q]
<1>1. MovedTo(p, "user", NoCall)
  BY DEF Return, Sleep, MovedTo
<1> QED BY <1>1, MovedLoads

Unseen == UNCHANGED <<FilesSeen, HandlesSeen, heard>>

\* Waiting, and calls that find their file gone.
LEMMA WaitUnseen ==
    ASSUME WordsInv, FilesInv', NEW p, NEW c, Due(p, c), WaitInode(p, c) \/ Vanished(p, c)
    PROVE  WordsInv' /\ Unseen
<1>1. UNCHANGED <<tables, cache, heard>> /\ p \in Pid
  BY DEF WaitInode, Vanished, Due
<1>2. \A q \in Pid : pc'[q] = "load" => pc[q] = "load" /\ call'[q] = call[q]
  <2>1. CASE WaitInode(p, c)
    <3>1. MovedTo(p, "inode", c)
      BY <2>1 DEF WaitInode, Sleep, MovedTo
    <3> QED BY <1>1, <3>1, MovedLoads DEF WordsInv
  <2>2. CASE Vanished(p, c)
    BY <1>1, <2>2, ReturnLoads DEF Vanished, WordsInv
  <2> QED BY <2>1, <2>2
<1>3. WordsInv' /\ FilesSeen' = FilesSeen
  BY <1>1, <1>2, Quiet DEF tables, cache
<1>4. HandlesSeen' = HandlesSeen
  BY <1>1, SameHandles DEF tables
<1> QED BY <1>1, <1>3, <1>4 DEF Unseen

LEMMA ForkUnseen ==
    ASSUME WordsInv, FilesInv', NEW p \in Pid, NEW q \in Pid, Fork(p, q)
    PROVE  WordsInv' /\ Unseen
<1>1. UNCHANGED <<inode, oft, cache, pc, call, heard>>
  BY DEF Fork
<1>2. WordsInv' /\ FilesSeen' = FilesSeen
  BY <1>1, Quiet DEF cache
<1> QED BY <1>1, <1>2, SameHandles DEF Unseen

LEMMA TakeBufferUnseen ==
    ASSUME WordsInv, FilesInv', NEW p \in Pid, TakeBuffer(p)
    PROVE  WordsInv' /\ Unseen
<1> USE DEF WordsInv
<1>1. Past(p) /\ UNCHANGED <<tables, disk, call, heard>> /\ pc[p] = "buffer"
  BY DEF TakeBuffer, At, Past, Working
<1>2. PICK f : f = F(p)
  OBVIOUS
<1>3. /\ f \in Buffer
      /\ buf \in [Buffer -> [block : Block \cup {None}, dirty : 0 .. 1,
                             owner : Pid \cup {None}, page : [Word -> Datum]]]
      /\ pc \in [Pid -> {"user", "inode"} \cup Working]
  BY <1>1, <1>2, WorkFacts DEF FilesInv, CacheTypes, CallTypes
<1>4. PICK place : pc' = [pc EXCEPT ![p] = place] /\ (place = "load" => buf[f].dirty = 0)
  BY <1>2 DEF TakeBuffer, Goto, Sleep
<1>5. buf' = buf \/ buf' = [buf EXCEPT ![f].owner = p]
  BY <1>2 DEF TakeBuffer
<1>6. \A g \in Buffer : /\ buf'[g].block = buf[g].block /\ buf'[g].page = buf[g].page
                        /\ buf'[g].dirty = buf[g].dirty
  BY <1>3, <1>5
<1>7. FilesSeen' = FilesSeen
  BY <1>1, <1>6, RestingFiles DEF Resting, tables
<1>8. BuffersHome'
  BY <1>6 DEF BuffersHome
<1>9. CleanBuffers'
  <2> SUFFICES ASSUME NEW i \in Inode \ {Root}, NEW m \in Part, HasWords(i, m)'
               PROVE  Clean(inode[i].blocks[m])'
    BY DEF CleanBuffers
  <2>1. PICK b : b = inode[i].blocks[m] /\ b = inode'[i].blocks[m] /\ HasWords(i, m)
    BY <1>1 DEF tables, HasWords
  <2>2. b \in Block
    BY <2>1 DEF FilesInv, Ends, EndOK, HasWords, InodesInv, InodeTypes
  <2>3. BufferOf(b) \in Buffer /\ Clean(b)
    BY <2>1, <2>2, HomeOf DEF CleanBuffers
  <2>4. Clean(b)'
    BY <1>1, <1>6, <2>3 DEF Clean
  <2> QED BY <2>1, <2>4
<1>10. Replacing'
  <2> SUFFICES ASSUME NEW q \in Pid, pc'[q] = "load" PROVE buf'[F(q)'].dirty = 0
    BY DEF Replacing
  <2>1. F(q)' = F(q)
    BY <1>1 DEF F, Blk, I, Pos, tables
  <2>2. CASE q = p
    BY <1>2, <1>3, <1>4, <1>6, <2>1, <2>2
  <2>3. CASE q # p
    <3>1. pc[q] = "load" /\ Past(q)
      BY <1>3, <1>4, <2>3 DEF Past, Working
    <3>2. F(q) \in Buffer /\ buf[F(q)].dirty = 0
      BY <3>1, WorkFacts DEF Replacing
    <3> QED BY <1>6, <2>1, <3>2
  <2> QED BY <2>2, <2>3
<1> QED BY <1>1, <1>7, <1>8, <1>9, <1>10, SameHandles DEF Unseen, tables
-----------------------------------------------------------------------------
(***************************************************************************)
(* Steps on the table of open files.                                       *)
(***************************************************************************)
LEMMA OpenSeen ==
    ASSUME WordsInv, FilesInv', NEW p, NEW c, Due(p, c), Open(p, c)
    PROVE  WordsInv' /\ (Files!Next \/ Unseen)
<1> USE DEF WordsInv
<1>1. /\ Return(p) /\ UNCHANGED <<inode, cache, heard>> /\ p \in Pid
      /\ c.op = "open" /\ Exists(c.inode) /\ c.inode \in Inode
  BY NotYet DEF Open, Granted
<1>2. WordsInv' /\ FilesSeen' = FilesSeen
  BY <1>1, ReturnLoads, Quiet DEF cache
<1>3. CASE UNCHANGED <<opens, oft, res>>
  BY <1>1, <1>2, <1>3, SameHandles DEF Unseen
<1>4. CASE ~UNCHANGED <<opens, oft, res>>
  <2>1. PICK i \in Inode : i = c.inode /\ Exists(i) /\ i # None
    BY <1>1, Constants
  <2>2. PICK k \in OpenFile :
          oft[k].inode = None /\ oft' = [oft EXCEPT ![k] = [inode |-> i, lseek |-> 0]]
    BY <1>4, <2>1 DEF Open, First
  <2>3. oft'[k] = [inode |-> i, lseek |-> 0] /\ \A l \in OpenFile : l # k => oft'[l] = oft[l]
    BY <2>2 DEF FilesInv, HandlesInv, OpenTypes
  <2>4. [file |-> i, pos |-> 0] = Handle(k)'
    BY <2>1, <2>3 DEF Handle
  <2>5. HandlesSeen' = [HandlesSeen EXCEPT ![k] = [file |-> i, pos |-> 0]]
    BY <2>3, <2>4, OneHandle
  <2>6. ~Files!IsOpen(k)
    <3>1. HandlesSeen[k] = [file |-> -1]
      BY <2>2, HandleIs, Constants DEF Handle
    <3> QED BY <3>1 DEF Files!IsOpen, Files!NoHandle
  <2>7. FilesSeen[i] # Files!NoFile
    BY <2>1, FileIs
  <2>8. Files!Open(k, i)
    BY <1>1, <1>2, <2>5, <2>6, <2>7 DEF Files!Open
  <2> QED BY <1>2, <2>8 DEF Files!Next
<1> QED BY <1>3, <1>4

LEMMA CloseSeen ==
    ASSUME WordsInv, FilesInv', NEW p \in Pid, NEW s \in Slot, ClosesOwn(p, s), Close(p, s)
    PROVE  WordsInv' /\ Files!Next
<1> USE DEF WordsInv
<1>1. /\ UNCHANGED <<inode, cache, pc, call, heard>>
      /\ IsFile(p, s)
  BY DEF Close
<1>2. PICK k \in OpenFile : k = res[p][s] /\ oft[k].inode # None
  BY <1>1 DEF IsFile, FilesInv, HandlesInv, OpenTypes, HandlesOK
<1>3. oft' = [oft EXCEPT ![k] = Closed]
  BY <1>2 DEF Close
<1>4. oft'[k] = Closed /\ \A l \in OpenFile : l # k => oft'[l] = oft[l]
  BY <1>3 DEF FilesInv, HandlesInv, OpenTypes
<1>5. WordsInv' /\ FilesSeen' = FilesSeen
  BY <1>1, Quiet DEF cache
<1>6. [file |-> None] = Handle(k)'
  BY <1>4 DEF Handle, Closed
<1>7. HandlesSeen' = [HandlesSeen EXCEPT ![k] = [file |-> None]]
  BY <1>4, <1>6, OneHandle
<1>8. Files!Close(k)
  BY <1>1, <1>2, <1>5, <1>7, OpenHandle, Constants DEF Files!Close, Files!NoHandle
<1> QED BY <1>5, <1>8 DEF Files!Next

\* A position that moves.
LEMMA HandleMoves ==
    ASSUME FilesInv, NEW k \in OpenFile, oft[k].inode # None, NEW pos, PosMoved(k, pos)
    PROVE  Files!MoveTo(k, pos)
<1>1. /\ oft'[k].inode = oft[k].inode /\ oft'[k].lseek = pos
      /\ \A l \in OpenFile : l # k => oft'[l] = oft[l]
  BY DEF PosMoved, FilesInv, HandlesInv, OpenTypes
<1>2. PICK i : i = oft[k].inode
  OBVIOUS
<1>3. [file |-> i, pos |-> pos] = Handle(k)'
  BY <1>1, <1>2 DEF Handle
<1>4. HandlesSeen' = [HandlesSeen EXCEPT ![k] = [file |-> i, pos |-> pos]]
  BY <1>1, <1>3, OneHandle
<1>5. HandlesSeen[k] = [file |-> i, pos |-> oft[k].lseek]
  BY <1>2, OpenHandle
<1>6. [HandlesSeen[k] EXCEPT !.pos = pos] = [file |-> i, pos |-> pos]
  BY <1>5
<1>7. HandlesSeen' = [HandlesSeen EXCEPT ![k].pos = pos]
  BY <1>4, <1>6
<1> QED BY <1>7 DEF Files!MoveTo

LEMMA SeekSeen ==
    ASSUME WordsInv, FilesInv', NEW p, NEW c, Due(p, c), Seek(p, c)
    PROVE  WordsInv' /\ (Files!Next \/ Unseen)
<1> USE DEF WordsInv
<1>1. /\ Return(p) /\ UNCHANGED <<inode, cache, heard>> /\ p \in Pid
      /\ c.op = "seek" /\ c.op \in FileOps /\ c.arg \in Deltas /\ c.arg \in Int
  BY NotYet, Constants DEF Seek, Granted, FileOps, Asked
<1>2. WordsInv' /\ FilesSeen' = FilesSeen
  BY <1>1, ReturnLoads, Quiet DEF cache
<1>3. PICK k \in OpenFile, i \in Inode, n \in Nat :
        k = c.file /\ i = c.inode /\ n = oft[k].lseek /\ oft[k].inode = i /\ i # None /\ Exists(i)
  BY <1>1, OnFileFacts, Constants
<1>4. oft' = IF n + c.arg < 0 THEN oft
             ELSE [oft EXCEPT ![k].lseek = IF n + c.arg > SizeOf(i) THEN SizeOf(i) ELSE n + c.arg]
  BY <1>3 DEF Seek
<1>5. CASE n + c.arg < 0
  BY <1>1, <1>2, <1>4, <1>5, SameHandles DEF Unseen
<1>6. CASE ~(n + c.arg < 0)
  <2>1. HandlesSeen[k] = [file |-> i, pos |-> n] /\ Files!IsOpen(k)
    BY <1>3, OpenHandle
  <2>2. PICK pos : pos = IF n + c.arg > SizeOf(i) THEN SizeOf(i) ELSE n + c.arg
    OBVIOUS
  <2>3. Files!MoveTo(k, pos)
    BY <1>3, <1>4, <1>6, <2>2, HandleMoves DEF PosMoved
  <2>4. Files!Size(i) = SizeOf(i)
    BY <1>3, FileIs
  <2>5. HandlesSeen[k].file = i /\ HandlesSeen[k].pos = n /\ n + c.arg >= 0
    BY <1>1, <1>6, <2>1
  <2>6. Files!Seek(k, c.arg)
    BY <1>1, <1>2, <2>1, <2>2, <2>3, <2>4, <2>5 DEF Files!Seek
  <2> QED BY <1>1, <1>2, <2>6 DEF Files!Next
<1> QED BY <1>5, <1>6

LEMMA ProceedLoads ==
    ASSUME FilesInv, NEW p \in Pid, NEW c, Proceed(p, c)
    PROVE  \A q \in Pid : pc'[q] = "load" => pc[q] = "load" /\ call'[q] = call[q]
<1>1. MovedTo(p, "buffer", [c EXCEPT !.pos = oft[c.file].lseek])
  BY DEF Proceed, Goto, MovedTo
<1> QED BY <1>1, MovedLoads

LEMMA StartReadSeen ==
    ASSUME WordsInv, FilesInv', NEW p, NEW c, Due(p, c), StartRead(p, c)
    PROVE  WordsInv' /\ (Files!Next \/ Unseen)
<1> USE DEF WordsInv
<1>1. UNCHANGED <<inode, cache, heard>> /\ p \in Pid /\ c.op = "read" /\ c.op \in FileOps
  BY NotYet DEF StartRead, Granted, FileOps
<1>2. \A q \in Pid : pc'[q] = "load" => pc[q] = "load" /\ call'[q] = call[q]
  BY <1>1, ReturnLoads, ProceedLoads DEF StartRead
<1>3. WordsInv' /\ FilesSeen' = FilesSeen
  BY <1>1, <1>2, Quiet DEF cache
<1>4. CASE oft' = oft
  BY <1>1, <1>3, <1>4, SameHandles DEF Unseen
<1>5. CASE oft' # oft
  <2>1. PICK k \in OpenFile, n \in Nat :
          /\ k = c.file /\ n = oft[k].lseek /\ oft[k].inode = c.inode /\ c.inode = Root
          /\ n # RootSize /\ n <= SizeOf(Root) /\ oft' = [oft EXCEPT ![k].lseek = n + 1]
    BY <1>1, <1>5, OnFileFacts DEF StartRead
  <2>2. HandlesSeen[k] = [file |-> Root, pos |-> n] /\ Files!IsOpen(k) /\ Exists(Root)
    BY <2>1, OpenHandle, Constants
  <2>3. Files!MoveTo(k, n + 1)
    BY <2>1, HandleMoves, Constants DEF PosMoved
  <2>4. Files!Size(Root) = RootSize /\ n < RootSize
    <3>1. SizeOf(Root) = RootSize /\ RootSize \in Nat
      BY Constants DEF SizeOf
    <3>2. Files!Size(Root) = SizeOf(Root)
      BY <2>2, FileIs, Constants
    <3> QED BY <2>1, <3>1, <3>2
  <2>5. HandlesSeen[k].file = Root /\ HandlesSeen[k].pos = n
    BY <2>2
  <2>6. Files!Read(k)
    BY <1>1, <1>3, <2>2, <2>3, <2>4, <2>5 DEF Files!Read
  <2> QED BY <1>3, <2>6 DEF Files!Next
<1> QED BY <1>4, <1>5

LEMMA StartWriteUnseen ==
    ASSUME WordsInv, FilesInv', NEW p, NEW c, Due(p, c), StartWrite(p, c)
    PROVE  WordsInv' /\ Unseen
<1> USE DEF WordsInv
<1>1. UNCHANGED <<oft, cache, heard>> /\ p \in Pid /\ c.op = "write" /\ c.op \in FileOps
      /\ lock[c.inode] = None
  BY NotYet DEF StartWrite, Granted, FileOps
<1>2. \A q \in Pid : pc'[q] = "load" => pc[q] = "load" /\ call'[q] = call[q]
  BY <1>1, ReturnLoads, ProceedLoads DEF StartWrite
<1>3. CASE inode' = inode
  <2>1. WordsInv' /\ FilesSeen' = FilesSeen
    BY <1>1, <1>2, <1>3, Quiet DEF cache
  <2> QED BY <1>1, <2>1, SameHandles DEF Unseen
<1>4. CASE inode' # inode
  <2>1. PICK i \in Inode \ {Root}, n \in Nat :
          i = c.inode /\ n = oft[c.file].lseek /\ Exists(i) /\ lock[i] = None
    <3>1. c.inode \in Inode \ {Root}
      BY <1>1, NotYet DEF Asked
    <3> QED BY <1>1, <3>1, OnFileFacts
  <2>2. PICK b \in Block : /\ n < MaxSize /\ n % BlockSize = 0 /\ n = inode[i].size
                           /\ used[b] = 0 /\ Allocate(i, n \div BlockSize, b)
    BY <1>4, <2>1 DEF StartWrite, First
  <2>3. PICK h \in Part : h = n \div BlockSize /\ h * BlockSize = n
    BY <2>2, PlaceOf
  <2>4. /\ \A j \in Inode : j # i => inode'[j] = inode[j]
        /\ inode'[i].size = inode[i].size /\ inode'[i].name = inode[i].name
        /\ \A m \in Part : m # h => inode'[i].blocks[m] = inode[i].blocks[m]
    BY <2>1, <2>2, <2>3, AllocateSafe
  <2>5. \A j \in Inode : inode'[j].size = inode[j].size /\ inode'[j].name = inode[j].name
    BY <2>4
  <2>6. ASSUME NEW j \in Inode \ {Root}, NEW m \in Part, HasWords(j, m)
        PROVE  inode'[j].blocks[m] = inode[j].blocks[m]
    <3>1. j = i => m # h
      <4>1. inode[i].size \in Int
        BY DEF FilesInv, InodesInv, InodeTypes
      <4> QED BY <2>2, <2>3, <2>6, <4>1 DEF HasWords
    <3> QED BY <2>4, <3>1
  <2>7. \A j \in Inode, m \in Part : HasWords(j, m)' <=> HasWords(j, m)
    BY <2>5 DEF HasWords
  <2>8. WordsInv'
    <3>1. KeepsPages /\ disk' = disk
      BY <1>1 DEF KeepsPages, cache
    <3>2. \A j \in Inode : inode'[j].blocks = inode[j].blocks \/ lock[j] = None \/ ~Exists(j)
      BY <2>1, <2>4
    <3> QED BY <1>1, <1>2, <2>6, <2>7, <3>1, <3>2, KeepWords DEF cache
  <2>9. FilesSeen' = FilesSeen
    <3>1. \A e \in Block, o \in Word : Content(e, o)' = Content(e, o)
      BY <1>1, RestingContent DEF cache
    <3>2. \A j \in Inode \ {Root} : Data(j)' = Data(j)
      BY <2>5, <2>6, <3>1, SameData
    <3> QED BY <2>5, <3>2, SameSeen, SameFiles
  <2> QED BY <1>1, <2>8, <2>9, SameHandles DEF Unseen
<1> QED BY <1>3, <1>4

LEMMA CreateSeen ==
    ASSUME WordsInv, FilesInv', NEW p \in Pid, NEW name \in Names, NEW perm \in Permissions,
           Create(p, name, perm)
    PROVE  WordsInv' /\ (Files!Next \/ Unseen)
<1> USE DEF WordsInv
<1>1. UNCHANGED <<oft, cache, pc, call, heard>>
  BY DEF Create
<1>2. PICK i \in Inode :
        /\ i \in Find(NoName)
        /\ inode' = [inode EXCEPT ![i] = [name |-> name, size |-> 0, perm |-> perm,
                                          blocks |-> [m \in Part |-> None]]]
  BY DEF Create, First
<1>3. ~Exists(i) /\ i # Root
  BY <1>2, Constants DEF Find, Exists, FilesInv, InodesInv, InodesOK
<1>4. /\ inode'[i].name = name /\ inode'[i].size = 0
      /\ \A j \in Inode : j # i => inode'[j] = inode[j]
  BY <1>2 DEF FilesInv, InodesInv, InodeTypes
<1>5. ASSUME NEW j \in Inode \ {Root}, NEW m \in Part, HasWords(j, m)'
      PROVE  j # i /\ HasWords(j, m) /\ inode'[j].blocks[m] = inode[j].blocks[m]
  <2>1. ~(m * BlockSize < 0)
    BY FileSystemAssumption DEF Part
  <2> QED BY <1>4, <1>5, <2>1 DEF HasWords
<1>6. WordsInv'
  <2>1. KeepsPages /\ disk' = disk
    BY <1>1 DEF KeepsPages, cache
  <2>2. \A j \in Inode : inode'[j].blocks = inode[j].blocks \/ lock[j] = None \/ ~Exists(j)
    BY <1>3, <1>4
  <2> QED BY <1>1, <1>5, <2>1, <2>2, KeepWords DEF cache
<1>7. \A j \in Inode : j # i => Seen(j)' = Seen(j)
  <2> SUFFICES ASSUME NEW j \in Inode, j # i PROVE Seen(j)' = Seen(j)
    OBVIOUS
  <2>1. \A e \in Block, o \in Word : Content(e, o)' = Content(e, o)
    BY <1>1, RestingContent DEF cache
  <2>2. j # Root => Data(j)' = Data(j)
    BY <1>4, <2>1, SameData
  <2> QED BY <1>4, <2>2, SameSeen
<1>8. Seen(i) = Files!NoFile
  BY <1>3 DEF Seen, Files!NoFile
<1>9. HandlesSeen' = HandlesSeen
  BY <1>1, SameHandles
<1>10. CASE name = NoName
  <2>1. Seen(i)' = Seen(i)
    BY <1>3, <1>4, <1>10 DEF Seen, Exists
  <2>2. FilesSeen' = FilesSeen
    BY <1>7, <2>1, SameFiles
  <2> QED BY <1>1, <1>6, <1>9, <2>2 DEF Unseen
<1>11. CASE name # NoName
  <2>1. Data(i)' = <<>>
    BY <1>4 DEF Data
  <2>2. [name |-> name, data |-> <<>>] = Seen(i)'
    BY <1>3, <1>4, <1>11, <2>1 DEF Seen, Exists
  <2>3. FilesSeen' = [FilesSeen EXCEPT ![i] = [name |-> name, data |-> <<>>]]
    BY <1>7, <2>2, OneFileSeen
  <2>4. FilesSeen[i] = Files!NoFile
    BY <1>8, SeenIs
  <2>5. Files!Create(i, name)
    BY <1>1, <1>9, <2>3, <2>4 DEF Files!Create
  <2> QED BY <1>6, <2>5 DEF Files!Next
<1> QED BY <1>10, <1>11

LEMMA DeleteSeen ==
    ASSUME WordsInv, FilesInv', NEW p, NEW c, Due(p, c), Delete(p, c)
    PROVE  WordsInv' /\ (Files!Next \/ Unseen)
<1> USE DEF WordsInv
<1>1. /\ Return(p) /\ UNCHANGED <<oft, disk, heard>> /\ p \in Pid
      /\ lock[c.inode] = None /\ Exists(c.inode) /\ c.inode \in Inode \ {Root}
  BY NotYet DEF Delete, Granted, Asked
<1>2. \A q \in Pid : pc'[q] = "load" => pc[q] = "load" /\ call'[q] = call[q]
  BY <1>1, ReturnLoads
<1>3. HandlesSeen' = HandlesSeen
  BY <1>1, SameHandles
<1>4. CASE UNCHANGED <<inode, root, used, buf>>
  <2>1. WordsInv' /\ FilesSeen' = FilesSeen
    BY <1>1, <1>2, <1>4, Quiet
  <2> QED BY <1>1, <1>3, <2>1 DEF Unseen
<1>5. CASE ~UNCHANGED <<inode, root, used, buf>>
  <2>1. PICK i \in Inode \ {Root} : i = c.inode /\ lock[i] = None /\ Exists(i)
    BY <1>1
  <2>2. opens[i] = None /\ ReleaseBlocks(i) /\ inode' = [inode EXCEPT ![i] = Unlinked]
    BY <1>5, <2>1 DEF Delete
  <2>3. inode'[i] = Unlinked /\ \A j \in Inode : j # i => inode'[j] = inode[j]
    BY <2>2 DEF FilesInv, InodesInv, InodeTypes
  <2>4. PICK mine : /\ mine = {inode[i].blocks[m] : m \in Part} \ {None}
                    /\ buf' = [f \in Buffer |-> IF buf[f].block \in mine THEN [buf[f] EXCEPT !.dirty = 0]
                                                ELSE buf[f]]
    BY <2>2 DEF ReleaseBlocks
  <2>5. KeepsPages /\ \A f \in Buffer : buf[f].block \notin mine => buf'[f] = buf[f]
    <3>1. buf \in [Buffer -> [block : Block \cup {None}, dirty : 0 .. 1,
                              owner : Pid \cup {None}, page : [Word -> Datum]]]
      BY DEF FilesInv, CacheTypes
    <3> QED BY <2>4, <3>1 DEF KeepsPages
  <2>6. ASSUME NEW j \in Inode \ {Root}, NEW m \in Part, HasWords(j, m)'
        PROVE  /\ j # i /\ HasWords(j, m) /\ inode'[j].blocks[m] = inode[j].blocks[m]
               /\ inode[j].blocks[m] \notin mine
    <3>1. j # i
      <4>1. inode'[i].size = -1
        BY <2>3 DEF Unlinked, None
      <4>2. ~(m * BlockSize < -1)
        BY FileSystemAssumption DEF Part
      <4> QED BY <2>6, <4>1, <4>2 DEF HasWords
    <3>2. inode'[j] = inode[j] /\ HasWords(j, m)
      BY <2>3, <2>6, <3>1 DEF HasWords
    <3>3. inode[j].blocks[m] # None
      BY <3>2 DEF HasWords, FilesInv, Ends, EndOK
    <3>4. \A n \in Part : inode[j].blocks[m] # inode[i].blocks[n]
      BY <3>1, <3>3 DEF FilesInv, InodesInv, BlocksOwned
    <3> QED BY <2>4, <3>1, <3>2, <3>4
  <2>7. WordsInv'
    <3>1. \A j \in Inode : inode'[j].blocks = inode[j].blocks \/ lock[j] = None \/ ~Exists(j)
      BY <2>1, <2>3
    <3>2. \A j \in Inode \ {Root}, m \in Part : HasWords(j, m)' =>
              \A f \in Buffer : buf[f].block = inode[j].blocks[m] => buf'[f].dirty = buf[f].dirty
      BY <2>5, <2>6
    <3> QED BY <1>1, <1>2, <2>5, <2>6, <3>1, <3>2, KeepWords
  <2>8. \A j \in Inode : j # i => Seen(j)' = Seen(j)
    <3> SUFFICES ASSUME NEW j \in Inode, j # i PROVE Seen(j)' = Seen(j)
      OBVIOUS
    <3>1. \A e \in Block, o \in Word : Content(e, o)' = Content(e, o)
      BY <1>1, <2>5, RestingContent DEF KeepsPages
    <3>2. j # Root => Data(j)' = Data(j)
      BY <2>3, <3>1, SameData
    <3> QED BY <2>3, <3>2, SameSeen
  <2>9. Files!NoFile = Seen(i)'
    BY <2>1, <2>3 DEF Seen, Exists, Unlinked, Files!NoFile
  <2>10. FilesSeen' = [FilesSeen EXCEPT ![i] = Files!NoFile]
    BY <2>8, <2>9, OneFileSeen
  <2>11. FilesSeen[i] # Files!NoFile
    BY <2>1, FileIs
  <2>12. \A k \in OpenFile : HandlesSeen[k].file # i
    <3> SUFFICES ASSUME NEW k \in OpenFile PROVE HandlesSeen[k].file # i
      OBVIOUS
    <3>1. oft[k].inode # i
      BY <2>2, NotOpen
    <3>2. HandlesSeen[k] = Handle(k)
      BY HandleIs
    <3>3. Handle(k).file = oft[k].inode
      BY DEF Handle
    <3> QED BY <3>1, <3>2, <3>3
  <2>13. Files!Delete(i)
    BY <1>1, <1>3, <2>10, <2>11, <2>12 DEF Files!Delete
  <2> QED BY <2>7, <2>13 DEF Files!Next
<1> QED BY <1>4, <1>5

(***************************************************************************)
(* Steps on the buffer of a call.                                          *)
(***************************************************************************)
\* Blocks with words keep what they hold.
KeepsWords ==
    \A i \in Inode \ {Root}, m \in Part : HasWords(i, m) =>
        \A b \in Block, o \in Word : b = inode[i].blocks[m] => Content(b, o)' = Content(b, o)

LEMMA TransferUnseen ==
    ASSUME WordsInv, FilesInv', NEW p \in Pid, UNCHANGED <<tables, heard>>, KeepsWords
    PROVE  Unseen
<1>1. inode' = inode /\ oft' = oft
  BY DEF tables
<1>2. \A i \in Inode \ {Root} : Data(i)' = Data(i)
  BY <1>1, SameData DEF KeepsWords, WordsInv
<1> QED BY <1>1, <1>2, SameSeen, SameFiles, SameHandles DEF Unseen

LEMMA StoredUnseen ==
    ASSUME WordsInv, FilesInv', NEW p \in Pid, Stored(p)
    PROVE  WordsInv' /\ Unseen
<1> USE DEF WordsInv
<1>1. PICK f, b : f = F(p) /\ b = buf[f].block
  OBVIOUS
<1>2. /\ Past(p) /\ UNCHANGED <<tables, call, heard>> /\ pc[p] = "store"
      /\ disk' = [disk EXCEPT ![b] = buf[f].page]
      /\ buf' = [buf EXCEPT ![f].dirty = 0]
      /\ pc' = [pc EXCEPT ![p] = "load"]
  BY <1>1 DEF Stored, At, Past, Working, Sleep
<1>3. f \in Buffer
  BY <1>1, <1>2, WorkFacts
<1>4. /\ buf \in [Buffer -> [block : Block \cup {None}, dirty : 0 .. 1,
                             owner : Pid \cup {None}, page : [Word -> Datum]]]
      /\ disk \in [Block -> [Word -> Datum]]
      /\ pc \in [Pid -> {"user", "inode"} \cup Working]
  BY DEF FilesInv, CacheTypes, CallTypes
<1>5. /\ \A g \in Buffer : buf'[g].block = buf[g].block /\ buf'[g].page = buf[g].page
      /\ buf'[f].dirty = 0 /\ \A g \in Buffer : g # f => buf'[g] = buf[g]
  BY <1>2, <1>3, <1>4
<1>6. /\ \A e \in Block : e # b => disk'[e] = disk[e]
      /\ b \in Block => disk'[b] = buf[f].page /\ BufferOf(b) = f
  <2>1. b \in Block => BufferOf(b) = f
    BY <1>1, <1>3, Constants DEF BuffersHome
  <2> QED BY <1>2, <1>3, <1>4, <2>1
<1>7. \A e \in Block, o \in Word : Content(e, o)' = Content(e, o)
  <2> SUFFICES ASSUME NEW e \in Block, NEW o \in Word PROVE Content(e, o)' = Content(e, o)
    OBVIOUS
  <2>1. BufferOf(e) \in Buffer
    BY HomeOf
  <2> QED BY <1>1, <1>5, <1>6, <2>1 DEF Content
<1>8. Unseen
  BY <1>2, <1>7, TransferUnseen DEF KeepsWords
<1>9. BuffersHome'
  BY <1>5 DEF BuffersHome
<1>10. CleanBuffers'
  <2> SUFFICES ASSUME NEW i \in Inode \ {Root}, NEW m \in Part, HasWords(i, m)'
               PROVE  Clean(inode[i].blocks[m])'
    BY DEF CleanBuffers
  <2>1. PICK e : e = inode[i].blocks[m] /\ e = inode'[i].blocks[m] /\ HasWords(i, m)
    BY <1>2 DEF tables, HasWords
  <2>2. e \in Block
    BY <2>1 DEF FilesInv, Ends, EndOK, HasWords, InodesInv, InodeTypes
  <2>3. BufferOf(e) \in Buffer /\ Clean(e)
    BY <2>1, <2>2, HomeOf DEF CleanBuffers
  <2>4. Clean(e)'
    <3>1. CASE e = b
      BY <1>1, <1>5, <1>6, <2>2, <2>3, <3>1 DEF Clean
    <3>2. CASE e # b
      <4>1. CASE BufferOf(e) = f
        BY <1>1, <1>5, <2>3, <3>2, <4>1 DEF Clean
      <4>2. CASE BufferOf(e) # f
        BY <1>5, <1>6, <2>2, <2>3, <3>2, <4>2 DEF Clean
      <4> QED BY <4>1, <4>2
    <3> QED BY <3>1, <3>2
  <2> QED BY <2>1, <2>4
<1>11. Replacing'
  <2> SUFFICES ASSUME NEW q \in Pid, pc'[q] = "load" PROVE buf'[F(q)'].dirty = 0
    BY DEF Replacing
  <2>1. F(q)' = F(q)
    BY <1>2 DEF F, Blk, I, Pos, tables
  <2>2. CASE q = p
    BY <1>1, <1>5, <2>1, <2>2
  <2>3. CASE q # p
    <3>1. pc[q] = "load" /\ Past(q)
      BY <1>2, <1>4, <2>3 DEF Past, Working
    <3>2. F(q) \in Buffer /\ buf[F(q)].dirty = 0
      BY <3>1, WorkFacts DEF Replacing
    <3> QED BY <1>5, <2>1, <3>2
  <2> QED BY <2>2, <2>3
<1> QED BY <1>8, <1>9, <1>10, <1>11

LEMMA LoadedUnseen ==
    ASSUME WordsInv, FilesInv', NEW p \in Pid, Loaded(p)
    PROVE  WordsInv' /\ Unseen
<1> USE DEF WordsInv
<1>1. PICK f, b : f = F(p) /\ b = Blk(p)
  OBVIOUS
<1>2. /\ Past(p) /\ UNCHANGED <<tables, disk, call, heard>> /\ pc[p] = "load"
      /\ buf' = [buf EXCEPT ![f].block = b, ![f].page = disk[b]]
      /\ pc' = [pc EXCEPT ![p] = "word"]
  BY <1>1 DEF Loaded, At, Past, Working, Goto
<1>3. f \in Buffer /\ b \in Block /\ BufferOf(b) = f /\ buf[f].dirty = 0
  BY <1>1, <1>2, WorkFacts DEF F, Replacing
<1>4. /\ buf \in [Buffer -> [block : Block \cup {None}, dirty : 0 .. 1,
                             owner : Pid \cup {None}, page : [Word -> Datum]]]
      /\ pc \in [Pid -> {"user", "inode"} \cup Working]
  BY DEF FilesInv, CacheTypes, CallTypes
<1>5. /\ buf'[f].block = b /\ buf'[f].page = disk[b] /\ buf'[f].dirty = buf[f].dirty
      /\ \A g \in Buffer : g # f => buf'[g] = buf[g]
  BY <1>2, <1>3, <1>4
<1>6. ASSUME NEW i \in Inode \ {Root}, NEW m \in Part, HasWords(i, m)
      PROVE  \E e \in Block : e = inode[i].blocks[m] /\ BufferOf(e) \in Buffer /\ Clean(e)
  <2>1. inode[i].blocks[m] \in Block
    BY <1>6 DEF FilesInv, Ends, EndOK, HasWords, InodesInv, InodeTypes
  <2> QED BY <1>6, <2>1, HomeOf DEF CleanBuffers
<1>7. KeepsWords
  <2> SUFFICES ASSUME NEW e \in Block, NEW o \in Word, Clean(e) PROVE Content(e, o)' = Content(e, o)
    BY <1>6 DEF KeepsWords
  <2>1. BufferOf(e) \in Buffer /\ disk' = disk
    BY <1>2, HomeOf
  <2>2. CASE BufferOf(e) = f
    <3>1. Content(e, o) = disk[e][o]
      BY <1>3, <2>2 DEF Content, Clean
    <3>2. Content(e, o)' = disk[e][o]
      BY <1>5, <2>1, <2>2 DEF Content
    <3> QED BY <3>1, <3>2
  <2>3. CASE BufferOf(e) # f
    BY <1>5, <2>1, <2>3 DEF Content
  <2> QED BY <2>2, <2>3
<1>8. Unseen
  BY <1>2, <1>7, TransferUnseen
<1>9. BuffersHome'
  BY <1>3, <1>5 DEF BuffersHome
<1>10. CleanBuffers'
  <2> SUFFICES ASSUME NEW i \in Inode \ {Root}, NEW m \in Part, HasWords(i, m)'
               PROVE  Clean(inode[i].blocks[m])'
    BY DEF CleanBuffers
  <2>1. HasWords(i, m) /\ inode'[i].blocks[m] = inode[i].blocks[m]
    BY <1>2 DEF tables, HasWords
  <2>2. PICK e \in Block : e = inode[i].blocks[m] /\ BufferOf(e) \in Buffer /\ Clean(e)
    BY <1>6, <2>1
  <2>3. Clean(e)'
    <3>1. disk' = disk
      BY <1>2
    <3>2. CASE BufferOf(e) = f
      BY <1>5, <3>1, <3>2 DEF Clean
    <3>3. CASE BufferOf(e) # f
      BY <1>5, <2>2, <3>1, <3>3 DEF Clean
    <3> QED BY <3>2, <3>3
  <2> QED BY <2>1, <2>2, <2>3
<1>11. Replacing'
  <2> SUFFICES ASSUME NEW q \in Pid, pc'[q] = "load" PROVE buf'[F(q)'].dirty = 0
    BY DEF Replacing
  <2>1. F(q)' = F(q)
    BY <1>2 DEF F, Blk, I, Pos, tables
  <2>2. pc[q] = "load" /\ Past(q)
    BY <1>2, <1>4 DEF Past, Working
  <2>3. F(q) \in Buffer /\ buf[F(q)].dirty = 0
    BY <2>2, WorkFacts DEF Replacing
  <2> QED BY <1>5, <2>1, <2>3
<1> QED BY <1>8, <1>9, <1>10, <1>11

LEMMA FinishSeen ==
    ASSUME FilesInv, NEW p \in Pid, pc[p] = "word", Finish(p)
    PROVE  /\ Files!MoveTo(K(p), Pos(p) + 1)
           /\ HandlesSeen[K(p)] = [file |-> I(p), pos |-> Pos(p)] /\ Files!IsOpen(K(p))
           /\ \A q \in Pid : pc'[q] = "load" => pc[q] = "load" /\ call'[q] = call[q]
<1>1. Past(p) /\ Return(p) /\ oft' = [oft EXCEPT ![K(p)].lseek = Pos(p) + 1]
  BY DEF Past, Working, Finish
<1>2. /\ K(p) \in OpenFile /\ oft[K(p)].inode = I(p) /\ oft[K(p)].lseek = Pos(p)
      /\ I(p) \in Inode /\ Pos(p) \in Nat
  BY <1>1, WorkFacts
<1>3. oft[K(p)].inode # None
  BY <1>2, Constants
<1>4. PosMoved(K(p), Pos(p) + 1)
  BY <1>1 DEF PosMoved
<1>5. Files!MoveTo(K(p), Pos(p) + 1)
  BY <1>2, <1>3, <1>4, HandleMoves
<1>6. HandlesSeen[K(p)] = [file |-> I(p), pos |-> Pos(p)] /\ Files!IsOpen(K(p))
  BY <1>2, <1>3, OpenHandle
<1> QED BY <1>1, <1>5, <1>6, ReturnLoads

LEMMA ReadWordSeen ==
    ASSUME WordsInv, FilesInv', NEW p \in Pid, ReadWord(p)
    PROVE  WordsInv' /\ Files!Next
<1> USE DEF WordsInv
<1>1. PICK f, b, k, i, n, o : /\ f = F(p) /\ b = Blk(p) /\ k = K(p) /\ i = I(p) /\ n = Pos(p)
                              /\ o = n % BlockSize
  OBVIOUS
<1>2. /\ Past(p) /\ pc[p] = "word" /\ call[p].op = "read" /\ Finish(p)
      /\ UNCHANGED <<inode, disk>>
      /\ heard' = buf[f].page[o]
      /\ buf' = [buf EXCEPT ![f].owner = None]
  BY <1>1 DEF ReadWord, At, Past, Working
<1>3. /\ f \in Buffer /\ b \in Block /\ k \in OpenFile /\ i \in Inode \ {Root} /\ n \in Nat
      /\ n < inode[i].size /\ Exists(i) /\ b = inode[i].blocks[n \div BlockSize]
  BY <1>1, <1>2, WorkFacts
<1>4. buf[f].block = b /\ BufferOf(b) = f
  BY <1>1, <1>2, Reached DEF InBuffer, F
<1>5. \A g \in Buffer : /\ buf'[g].block = buf[g].block /\ buf'[g].page = buf[g].page
                        /\ buf'[g].dirty = buf[g].dirty
  BY <1>2, <1>3 DEF FilesInv, CacheTypes
<1>6. /\ Files!MoveTo(k, n + 1)
      /\ HandlesSeen[k] = [file |-> i, pos |-> n] /\ Files!IsOpen(k)
      /\ \A q \in Pid : pc'[q] = "load" => pc[q] = "load" /\ call'[q] = call[q]
  BY <1>1, <1>2, FinishSeen
<1>7. WordsInv' /\ FilesSeen' = FilesSeen
  BY <1>2, <1>5, <1>6, Quiet
<1>8. heard' = Data(i)[n + 1]
  <2>1. inode[i].size \in Nat
    BY <1>3, DataIs
  <2>2. n + 1 \in 1 .. inode[i].size /\ (n + 1) - 1 = n
    BY <1>3, <2>1
  <2>3. Data(i)[n + 1] = WordAt(i, n + 1)
    BY <1>3, <2>2, DataIs
  <2>4. WordAt(i, n + 1) = Content(b, o)
    BY <1>1, <1>3, <2>2 DEF WordAt
  <2>5. Content(b, o) = buf[f].page[o]
    BY <1>4 DEF Content
  <2> QED BY <1>2, <2>3, <2>4, <2>5
<1>9. FilesSeen[i].data = Data(i) /\ Files!Size(i) = inode[i].size
  <2>1. FilesSeen[i] = [name |-> inode[i].name, data |-> Data(i)] /\ Files!Size(i) = SizeOf(i)
    BY <1>3, FileIs
  <2> QED BY <1>3, <2>1 DEF SizeOf
<1>10. HandlesSeen[k].file = i /\ HandlesSeen[k].pos = n
  BY <1>6
<1>11. Files!Read(k)
  BY <1>3, <1>6, <1>7, <1>8, <1>9, <1>10 DEF Files!Read
<1> QED BY <1>3, <1>7, <1>11 DEF Files!Next

\* A word put at a place of a sequence, or after its end.
LEMMA PutInSeq ==
    ASSUME NEW S, NEW s \in Seq(S), NEW w \in S, NEW n \in 0 .. Len(s)
    PROVE  (IF n = Len(s) THEN Append(s, w) ELSE [s EXCEPT ![n + 1] = w])
             = [x \in 1 .. (IF n = Len(s) THEN Len(s) + 1 ELSE Len(s)) |->
                  IF x = n + 1 THEN w ELSE s[x]]
<1>1. PICK L \in Nat : L = Len(s) /\ s \in [1 .. L -> S]
  BY LenProperties
<1>2. CASE n = L
  <2>1. PICK t : t = Append(s, w)
    OBVIOUS
  <2>2. t \in Seq(S) /\ Len(t) = L + 1 /\ t[L + 1] = w /\ \A x \in 1 .. L : t[x] = s[x]
    BY <1>1, <2>1, AppendProperties
  <2>3. t \in [1 .. (L + 1) -> S]
    BY <2>2, LenProperties
  <2>4. \A x \in 1 .. (L + 1) : t[x] = IF x = L + 1 THEN w ELSE s[x]
    <3> SUFFICES ASSUME NEW x \in 1 .. (L + 1), x # L + 1 PROVE t[x] = s[x]
      BY <2>2
    <3>1. x \in 1 .. L
      BY <1>1
    <3> QED BY <2>2, <3>1
  <2>5. t = [x \in 1 .. (L + 1) |-> IF x = L + 1 THEN w ELSE s[x]]
    BY <2>3, <2>4
  <2> QED BY <1>1, <1>2, <2>1, <2>5
<1>3. CASE n # L
  <2>1. [s EXCEPT ![n + 1] = w] = [x \in 1 .. L |-> IF x = n + 1 THEN w ELSE s[x]]
    BY <1>1
  <2> QED BY <1>1, <1>3, <2>1
<1> QED BY <1>2, <1>3

\* The size and the blocks of the file a word is written to.
LEMMA WriteSizes ==
    ASSUME FilesInv, NEW p \in Pid, Past(p), WriteWord(p), NEW i, i = I(p), NEW n, n = Pos(p)
    PROVE  /\ \A j \in Inode : /\ inode'[j].name = inode[j].name
                               /\ inode'[j].blocks = inode[j].blocks
                               /\ j # i => inode'[j].size = inode[j].size
           /\ inode'[i].size = IF n = inode[i].size THEN inode[i].size + 1 ELSE inode[i].size
<1>1. i \in Inode
  BY WorkFacts
<1>2. inode' = IF n = inode[i].size THEN [inode EXCEPT ![i].size = @ + 1] ELSE inode
  BY DEF WriteWord
<1>3. CASE n = inode[i].size
  BY <1>1, <1>2, <1>3 DEF FilesInv, InodesInv, InodeTypes
<1>4. CASE n # inode[i].size
  BY <1>2, <1>4
<1> QED BY <1>3, <1>4

LEMMA PutWordIs ==
    ASSUME FilesInv, NEW p \in Pid, Past(p), PutWord(p), NEW f, f = F(p),
           NEW o, o = Pos(p) % BlockSize, NEW w, w = call[p].arg
    PROVE  /\ buf'[f].block = buf[f].block /\ buf'[f].dirty = 1
           /\ \A x \in Word : buf'[f].page[x] = IF x = o THEN w ELSE buf[f].page[x]
           /\ \A g \in Buffer : g # f => buf'[g] = buf[g]
<1>1. f \in Buffer /\ o \in Word
  BY WorkFacts
<1>2. PICK r \in [block : Block \cup {None}, dirty : 0 .. 1,
                  owner : Pid \cup {None}, page : [Word -> Datum]] : r = buf[f]
  BY <1>1 DEF FilesInv, CacheTypes
<1>3. PICK y : y = [r EXCEPT !.page[o] = w, !.dirty = 1, !.owner = None]
  OBVIOUS
<1>4. y.block = r.block /\ y.dirty = 1 /\ y.page = [r.page EXCEPT ![o] = w]
  BY <1>2, <1>3
<1>5. buf' = [buf EXCEPT ![f] = y]
  BY <1>1, <1>2, <1>3 DEF PutWord, FilesInv, CacheTypes
<1>6. buf'[f] = y /\ \A g \in Buffer : g # f => buf'[g] = buf[g]
  BY <1>1, <1>5 DEF FilesInv, CacheTypes
<1>7. \A x \in Word : y.page[x] = IF x = o THEN w ELSE r.page[x]
  BY <1>1, <1>2, <1>4
<1> QED BY <1>2, <1>4, <1>6, <1>7

LEMMA WriteContent ==
    ASSUME FilesInv, NEW p \in Pid, pc[p] = "word", PutWord(p), disk' = disk, NEW e \in Block, NEW x \in Word
    PROVE  Content(e, x)' = IF e = Blk(p) /\ x = Pos(p) % BlockSize THEN call[p].arg ELSE Content(e, x)
<1>1. PICK f, b, o, w : f = F(p) /\ b = Blk(p) /\ o = Pos(p) % BlockSize /\ w = call[p].arg
  OBVIOUS
<1>2. Past(p) /\ buf[f].block = b /\ BufferOf(b) = f
  <2>1. Past(p)
    BY DEF Past, Working
  <2> QED BY <1>1, <2>1, Reached DEF InBuffer, F
<1>3. /\ buf'[f].block = b
      /\ \A y \in Word : buf'[f].page[y] = IF y = o THEN w ELSE buf[f].page[y]
      /\ \A g \in Buffer : g # f => buf'[g] = buf[g]
  BY <1>1, <1>2, PutWordIs
<1>4. BufferOf(e) \in Buffer
  BY HomeOf
<1>5. CASE e = b
  <2>1. Content(e, x) = buf[f].page[x] /\ Content(e, x)' = buf'[f].page[x]
    BY <1>2, <1>3, <1>5 DEF Content
  <2> QED BY <1>1, <1>3, <1>5, <2>1
<1>6. CASE e # b
  <2>1. CASE BufferOf(e) = f
    <3>1. Content(e, x) = disk[e][x] /\ Content(e, x)' = disk[e][x]
      BY <1>2, <1>3, <1>6, <2>1 DEF Content
    <3> QED BY <1>1, <1>6, <3>1
  <2>2. CASE BufferOf(e) # f
    <3>1. Content(e, x)' = Content(e, x)
      BY <1>3, <1>4, <2>2 DEF Content
    <3> QED BY <1>1, <1>6, <3>1
  <2> QED BY <2>1, <2>2
<1> QED BY <1>5, <1>6

LEMMA WriteKept ==
    ASSUME WordsInv, FilesInv', NEW p \in Pid, WriteWord(p)
    PROVE  WordsInv'
<1> USE DEF WordsInv
<1>1. PICK f, b, i, n : f = F(p) /\ b = Blk(p) /\ i = I(p) /\ n = Pos(p)
  OBVIOUS
<1>2. /\ Past(p) /\ pc[p] = "word" /\ call[p].op = "write" /\ Finish(p) /\ PutWord(p)
      /\ disk' = disk
  BY DEF WriteWord, At, Past, Working
<1>3. /\ f \in Buffer /\ b \in Block /\ i \in Inode \ {Root} /\ n \in Nat /\ n < MaxSize
      /\ b = inode[i].blocks[n \div BlockSize]
  BY <1>1, <1>2, WorkFacts
<1>4. buf[f].block = b /\ BufferOf(b) = f /\ buf[f].owner = p
  BY <1>1, <1>2, Reached DEF InBuffer, F
<1>5. /\ buf'[f].block = b /\ buf'[f].dirty = 1
      /\ \A g \in Buffer : g # f => buf'[g] = buf[g]
  BY <1>1, <1>2, <1>4, PutWordIs
<1>6. /\ \A j \in Inode : inode'[j].blocks = inode[j].blocks /\ (j # i => inode'[j].size = inode[j].size)
      /\ inode'[i].size = IF n = inode[i].size THEN inode[i].size + 1 ELSE inode[i].size
  BY <1>1, <1>2, WriteSizes
<1>7. BuffersHome'
  BY <1>4, <1>5 DEF BuffersHome
<1>8. ASSUME NEW j \in Inode \ {Root}, NEW m \in Part, HasWords(j, m)', inode[j].blocks[m] # b
      PROVE  HasWords(j, m)
  <2>1. CASE j = i /\ n = inode[i].size
    <3>1. PICK x \in Int : x = m * BlockSize
      BY FileSystemAssumption DEF Part
    <3>2. x # n
      <4>1. x = n => n \div BlockSize = m
        BY <1>3, <3>1, PlaceOf
      <4> QED BY <1>3, <1>8, <2>1, <4>1
    <3>3. x < inode[i].size + 1
      BY <1>6, <1>8, <2>1, <3>1 DEF HasWords
    <3>4. x < inode[i].size
      BY <1>3, <2>1, <3>2, <3>3
    <3> QED BY <2>1, <3>1, <3>4 DEF HasWords
  <2>2. CASE ~(j = i /\ n = inode[i].size)
    BY <1>6, <1>8, <2>2 DEF HasWords
  <2> QED BY <2>1, <2>2
<1>9. CleanBuffers'
  <2> SUFFICES ASSUME NEW j \in Inode \ {Root}, NEW m \in Part, HasWords(j, m)'
               PROVE  Clean(inode[j].blocks[m])'
    BY DEF CleanBuffers
  <2>1. PICK e : e = inode[j].blocks[m] /\ e = inode'[j].blocks[m]
    BY <1>6
  <2>2. CASE e = b
    BY <1>4, <1>5, <2>1, <2>2 DEF Clean
  <2>3. CASE e # b
    <3>1. HasWords(j, m)
      BY <1>8, <2>1, <2>3
    <3>2. e \in Block
      BY <2>1, <3>1 DEF FilesInv, Ends, EndOK, HasWords, InodesInv, InodeTypes
    <3>3. BufferOf(e) \in Buffer /\ Clean(e)
      BY <2>1, <3>1, <3>2, HomeOf DEF CleanBuffers
    <3>4. Clean(e)'
      <4>1. CASE BufferOf(e) = f
        BY <1>5, <2>3, <4>1 DEF Clean
      <4>2. CASE BufferOf(e) # f
        BY <1>2, <1>5, <3>3, <4>2 DEF Clean
      <4> QED BY <4>1, <4>2
    <3> QED BY <2>1, <3>4
  <2> QED BY <2>2, <2>3
<1>10. Replacing'
  <2> SUFFICES ASSUME NEW q \in Pid, pc'[q] = "load" PROVE buf'[F(q)'].dirty = 0
    BY DEF Replacing
  <2>1. pc[q] = "load" /\ call'[q] = call[q]
    BY <1>2, FinishSeen
  <2>2. Past(q) /\ q # p
    BY <1>2, <2>1 DEF Past, Working
  <2>3. F(q) \in Buffer /\ buf[F(q)].dirty = 0 /\ buf[F(q)].owner = q /\ I(q) \in Inode
    BY <2>1, <2>2, WorkFacts, Reached DEF Replacing, InBuffer
  <2>4. F(q)' = F(q)
    BY <1>6, <2>1, <2>3 DEF F, Blk, I, Pos
  <2>5. F(q) # f
    BY <1>4, <2>2, <2>3
  <2> QED BY <1>5, <2>3, <2>4, <2>5
<1> QED BY <1>7, <1>9, <1>10

LEMMA WriteWordSeen ==
    ASSUME WordsInv, FilesInv', NEW p \in Pid, WriteWord(p)
    PROVE  Files!Next
<1> USE DEF WordsInv
<1>1. PICK b, k, i, n, o, w : /\ b = Blk(p) /\ k = K(p) /\ i = I(p) /\ n = Pos(p)
                              /\ o = n % BlockSize /\ w = call[p].arg
  OBVIOUS
<1>2. /\ Past(p) /\ pc[p] = "word" /\ call[p].op = "write" /\ Finish(p) /\ PutWord(p)
      /\ disk' = disk /\ heard' = heard
  BY DEF WriteWord, At, Past, Working
<1>3. /\ b \in Block /\ k \in OpenFile /\ i \in Inode \ {Root} /\ n \in Nat /\ n < MaxSize
      /\ n <= inode[i].size /\ Exists(i) /\ n \div BlockSize \in Part
      /\ b = inode[i].blocks[n \div BlockSize]
  BY <1>1, <1>2, WorkFacts
<1>4. w \in Datum
  BY <1>1, <1>2, Reached DEF Datum
<1>5. PICK N \in Nat : N = inode[i].size /\ n <= N /\ Len(Data(i)) = N /\ Data(i) \in Seq(Datum)
                       /\ \A x \in 1 .. N : Data(i)[x] = WordAt(i, x)
  BY <1>3, DataIs
<1>6. /\ \A j \in Inode : /\ inode'[j].name = inode[j].name
                          /\ inode'[j].blocks = inode[j].blocks
                          /\ j # i => inode'[j].size = inode[j].size
      /\ inode'[i].size = IF n = N THEN N + 1 ELSE N
  BY <1>1, <1>2, <1>5, WriteSizes
<1>7. ASSUME NEW e \in Block, NEW x \in Word
      PROVE  Content(e, x)' = IF e = b /\ x = o THEN w ELSE Content(e, x)
  BY <1>1, <1>2, WriteContent
<1>8. ASSUME NEW j \in Inode, NEW m \in Part, inode[j].blocks[m] = b
      PROVE  j = i /\ m = n \div BlockSize
  BY <1>3, <1>8, Constants DEF FilesInv, InodesInv, BlocksOwned
<1>9. \A j \in Inode : j # i => Seen(j)' = Seen(j)
  <2> SUFFICES ASSUME NEW j \in Inode, j # i PROVE Seen(j)' = Seen(j)
    OBVIOUS
  <2>1. \A m \in Part : \A x \in Word, e \in Block :
           e = inode[j].blocks[m] => Content(e, x)' = Content(e, x)
    BY <1>7, <1>8
  <2>2. j # Root => Data(j)' = Data(j)
    BY <1>6, <2>1, SameData
  <2> QED BY <1>6, <2>2, SameSeen
<1>10. PICK M \in Nat : M = inode'[i].size /\ M = IF n = N THEN N + 1 ELSE N
  BY <1>6
<1>11. ASSUME NEW x \in 1 .. M PROVE WordAt(i, x)' = IF x = n + 1 THEN w ELSE Data(i)[x]
  <2>1. PICK y \in Nat : y = x - 1 /\ y <= N /\ y < MaxSize
    <3>1. MaxSize \in Nat /\ N <= MaxSize
      BY <1>3, <1>5, Constants DEF FilesInv, InodesInv, InodesOK
    <3> QED BY <1>3, <1>5, <1>10, <3>1
  <2>2. PICK d, r : /\ d = y \div BlockSize /\ r = y % BlockSize /\ d \in Part /\ r \in Word
    BY <2>1, PlaceOf
  <2>3. PICK e : e = inode[i].blocks[d] /\ WordAt(i, x)' = Content(e, r)'
    BY <1>3, <1>6, <2>1, <2>2 DEF WordAt
  <2>4. CASE y = n
    BY <1>1, <1>3, <1>7, <2>1, <2>2, <2>3, <2>4
  <2>5. CASE y # n
    <3>1. x \in 1 .. N
      BY <1>5, <1>10, <2>1, <2>5
    <3>2. e \in Block
      <4>1. PICK m, z : PlaceIs(i, x, m, z)
        BY <1>3, <1>5, <3>1, PlaceIn
      <4> QED BY <2>1, <2>2, <2>3, <4>1 DEF PlaceIs
    <3>3. ~(e = b /\ r = o)
      <4>1. e = b /\ r = o => d = n \div BlockSize /\ y % BlockSize = n % BlockSize
        BY <1>1, <1>3, <1>8, <2>2, <2>3
      <4>2. y \div BlockSize = n \div BlockSize /\ y % BlockSize = n % BlockSize => y = n
        <5>1. BlockSize \in Nat \ {0}
          BY FileSystemAssumption
        <5>2. /\ y = ((y \div BlockSize) * BlockSize) + (y % BlockSize)
              /\ n = ((n \div BlockSize) * BlockSize) + (n % BlockSize)
          BY <1>3, <5>1, DivFacts
        <5>3. PICK u1, u2, v1, v2 : /\ u1 = y \div BlockSize /\ u2 = n \div BlockSize
                                    /\ v1 = y % BlockSize /\ v2 = n % BlockSize
          OBVIOUS
        <5>4. y = (u1 * BlockSize) + v1 /\ n = (u2 * BlockSize) + v2
          BY <5>2, <5>3
        <5> QED BY <5>3, <5>4
      <4> QED BY <2>2, <2>5, <4>1, <4>2
    <3>4. Content(e, r)' = Content(e, r)
      BY <1>7, <2>2, <3>2, <3>3
    <3>5. WordAt(i, x) = Content(e, r)
      BY <2>1, <2>2, <2>3 DEF WordAt
    <3>6. x # n + 1
      BY <1>3, <2>1, <2>5
    <3> QED BY <1>5, <2>3, <3>1, <3>4, <3>5, <3>6
  <2> QED BY <2>4, <2>5
<1>12. PICK new : new = IF n = Len(Data(i)) THEN Append(Data(i), w) ELSE [Data(i) EXCEPT ![n + 1] = w]
  OBVIOUS
<1>13. Data(i)' = new
  <2>1. Data(i)' = [x \in 1 .. M |-> WordAt(i, x)']
    BY <1>10 DEF Data, WordAt
  <2>2. Data(i)' = [x \in 1 .. M |-> IF x = n + 1 THEN w ELSE Data(i)[x]]
    BY <1>11, <2>1
  <2>3. n \in 0 .. Len(Data(i))
    BY <1>3, <1>5
  <2>4. new = [x \in 1 .. (IF n = Len(Data(i)) THEN Len(Data(i)) + 1 ELSE Len(Data(i))) |->
                 IF x = n + 1 THEN w ELSE Data(i)[x]]
    BY <1>4, <1>5, <1>12, <2>3, PutInSeq
  <2> QED BY <1>5, <1>10, <2>2, <2>4
<1>14. [name |-> inode[i].name, data |-> new] = Seen(i)'
  BY <1>3, <1>6, <1>13 DEF Seen, Exists
<1>15. FilesSeen' = [FilesSeen EXCEPT ![i] = [name |-> inode[i].name, data |-> new]]
  BY <1>3, <1>9, <1>14, OneFileSeen
<1>16. FilesSeen[i] = [name |-> inode[i].name, data |-> Data(i)] /\ Files!Size(i) = N
  <2>1. Files!Size(i) = SizeOf(i)
    BY <1>3, FileIs
  <2> QED BY <1>3, <1>5, <2>1, FileIs DEF SizeOf
<1>17. FilesSeen' = [FilesSeen EXCEPT ![i].data = IF n = Len(@) THEN Append(@, w)
                                                  ELSE [@ EXCEPT ![n + 1] = w]]
  <2>1. PICK D : D = Data(i)
    OBVIOUS
  <2>2. FilesSeen[i] = [name |-> inode[i].name, data |-> D] /\ FilesSeen[i].data = D
    BY <1>16, <2>1
  <2>3. [FilesSeen[i] EXCEPT !.data = new] = [name |-> inode[i].name, data |-> new]
    BY <2>2
  <2>4. FilesSeen' = [FilesSeen EXCEPT ![i].data = new]
    BY <1>15, <2>3
  <2> QED BY <1>12, <2>1, <2>2, <2>4
<1>18. /\ Files!MoveTo(k, n + 1) /\ HandlesSeen[k].file = i /\ HandlesSeen[k].pos = n
       /\ Files!IsOpen(k)
  <2>1. /\ Files!MoveTo(k, n + 1) /\ HandlesSeen[k] = [file |-> i, pos |-> n] /\ Files!IsOpen(k)
    BY <1>1, <1>2, FinishSeen
  <2> QED BY <2>1
<1>19. Files!Write(k, w)
  BY <1>2, <1>3, <1>5, <1>16, <1>17, <1>18 DEF Files!Write
<1> QED BY <1>3, <1>4, <1>19 DEF Files!Next, Datum
-----------------------------------------------------------------------------
(***************************************************************************)
(* The refinement.                                                         *)
(***************************************************************************)
LEMMA WordsInit == Init => WordsInv
<1> SUFFICES ASSUME Init PROVE WordsInv
  OBVIOUS
<1>1. FilesInv
  BY FilesInit
<1>2. \A f \in Buffer : buf[f].block = None
  BY DEF Init
<1>3. BuffersHome
  BY <1>2 DEF BuffersHome
<1>4. CleanBuffers
  <2> SUFFICES ASSUME NEW i \in Inode \ {Root}, NEW m \in Part, HasWords(i, m)
               PROVE  Clean(inode[i].blocks[m])
    BY DEF CleanBuffers
  <2>1. inode[i].blocks[m] \in Block
    BY <1>1 DEF FilesInv, Ends, EndOK, HasWords, InodesInv, InodeTypes
  <2>2. buf[BufferOf(inode[i].blocks[m])].block # inode[i].blocks[m]
    BY <1>2, <2>1, HomeOf, Constants
  <2> QED BY <2>2 DEF Clean
<1>5. Replacing
  BY DEF Replacing, Init
<1> QED BY <1>1, <1>3, <1>4, <1>5 DEF WordsInv

LEMMA StartsEmpty == Init => Files!Init
<1> SUFFICES ASSUME Init PROVE Files!Init
  OBVIOUS
<1>1. \A i \in Inode : i # Root => ~Exists(i)
  BY DEF Init, Exists, Unlinked
<1>2. FilesSeen = [i \in Inode |-> IF i = Root THEN [name |-> RootName, data |-> <<>>]
                                   ELSE [name |-> "none"]]
  BY <1>1 DEF FilesSeen
<1>3. HandlesSeen = [k \in OpenFile |-> [file |-> -1]]
  BY DEF HandlesSeen, Init, Closed, None
<1>4. heard \in Datum
  BY DEF Init, Datum
<1> QED BY <1>2, <1>3, <1>4 DEF Files!Init, Files!NoFile, Files!NoHandle, RootName, Datum

LEMMA WordsNext == WordsInv /\ FilesInv' /\ [Next]_vars => WordsInv' /\ (Files!Next \/ Unseen)
<1> SUFFICES ASSUME WordsInv, FilesInv', [Next]_vars PROVE WordsInv' /\ (Files!Next \/ Unseen)
  OBVIOUS
<1>1. CASE UNCHANGED vars
  <2>1. UNCHANGED <<inode, oft, buf, disk, pc, call, heard>>
    BY <1>1 DEF vars, tables, cache
  <2> QED BY <2>1, Quiet, SameHandles DEF Unseen
<1>2. ASSUME NEW p \in Pid, User(p) PROVE WordsInv' /\ (Files!Next \/ Unseen)
  BY <1>2, CreateSeen, CloseSeen, ForkUnseen DEF User
<1>3. ASSUME NEW p \in Pid, Lock(p) PROVE WordsInv' /\ (Files!Next \/ Unseen)
  <2>1. PICK c \in AtInode(p) : \/ WaitInode(p, c) \/ Vanished(p, c)
                                \/ Delete(p, c) \/ Open(p, c) \/ Seek(p, c)
                                \/ StartRead(p, c) \/ StartWrite(p, c)
    BY <1>3 DEF Lock
  <2>2. Due(p, c)
    BY AskedCall DEF WordsInv
  <2> QED BY <2>1, <2>2, WaitUnseen, DeleteSeen, OpenSeen, SeekSeen, StartReadSeen, StartWriteUnseen
<1>4. ASSUME NEW p \in Pid, Work(p) PROVE WordsInv' /\ (Files!Next \/ Unseen)
  BY <1>4, TakeBufferUnseen, StoredUnseen, LoadedUnseen, ReadWordSeen, WriteKept, WriteWordSeen DEF Work
<1> QED BY <1>1, <1>2, <1>3, <1>4 DEF Next

(***************************************************************************)
(* Calls act on the files at once, whatever is evicted, stored, deleted    *)
(* and allocated again while they sleep: a word read is the word last      *)
(* written at that place of that file, a write changes that word and no    *)
(* other, positions shared by fork move once a call, and no open file is   *)
(* deleted (int_4 to int_7, file_manager.spl:109-212).                     *)
(***************************************************************************)
THEOREM FilesImplemented == Spec => ImplementsFileStore
<1>1. WordsInv /\ FilesInv' /\ [Next]_vars => WordsInv' /\ [Files!Next]_(Files!fvars)
  BY WordsNext DEF Unseen, Files!fvars
<1>2. Init => WordsInv /\ Files!Init
  BY WordsInit, StartsEmpty
<1> QED BY <1>1, <1>2, FilesAlways, PTL DEF Spec, ImplementsFileStore, Files!Spec
===============================================================================
