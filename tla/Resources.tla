------------------------------ MODULE Resources ------------------------------
(***************************************************************************)
(* What processes share through their resource tables: semaphores          *)
(* (Interrupt/int_13.spl, int_14.spl, resource_manager.spl 99-138) and     *)
(* open files (int_5.spl, file_manager.spl 109-212), which fork copies     *)
(* (int_8.spl 63-79) and exit gives back (process_manager.spl 25-103).     *)
(*                                                                         *)
(* A call that only returns an error code leaves this state as it is: it   *)
(* is a stuttering step, and the guards below are the other branch.        *)
(***************************************************************************)
EXTENDS Scheduler, FiniteSets

CONSTANTS NumSems,       \* entries of the semaphore table
          NumOpenFiles,  \* MAX_OPENFILE_NUM, entries of the open file table
          NumSlots,      \* entries of a resource table
          File,          \* inodes of the files that exist
          Releasable,    \* kinds of descriptor that programs give semrelease
          Left           \* words a free page may hold where fork puts an index

Sem      == 0 .. NumSems - 1
OpenFile == 0 .. NumOpenFiles - 1
Slot     == 0 .. NumSlots - 1
InodeRoot == 0

ASSUME ResourcesAssumption ==
    /\ NumSems \in Nat /\ NumSlots \in Nat
    /\ NumOpenFiles \in 1 .. NumSems    \* 32 of each
    /\ File \subseteq Nat
    /\ Releasable \subseteq {"SEMAPHORE", "FILE", "NONE"}
    /\ Left \subseteq Sem \cup {None} /\ Left # {}

VARIABLES owner, count,          \* [SEMAPHORE_TABLE + 4*s], + 1
          openInode, openCount,  \* [OPEN_FILE_TABLE + 4*k], + 1
          fileOpens,             \* [FILE_STATUS_TABLE + 4*f + 1], None when closed
          resource,              \* the resource table in each user area page
          pc,                    \* "user", or the system call a process is in
          slot,                  \* the loop counter of exit
          miscounted             \* history: the semaphores a fork counted wrong

semVars  == <<owner, count>>
fileVars == <<openInode, openCount, fileOpens>>
vars     == <<schedVars, semVars, fileVars, resource, pc, slot, miscounted>>

SemEntry(s)  == [kind |-> "SEMAPHORE", index |-> s]
FileEntry(k) == [kind |-> "FILE", index |-> k]
Unused       == [kind |-> "NONE", index |-> None]
Entry        == {SemEntry(s) : s \in Sem} \cup {FileEntry(k) : k \in OpenFile} \cup {Unused}

(* The places of a process: user mode, the loop of semlock, the loop of exit. *)
InUser     == [in |-> "user"]
InLock(s)  == [in |-> "semlock", sem |-> s]
InExit     == [in |-> "exit"]

User == pc[current] = InUser /\ current # Idle
Mine == resource[current]

(* The searches for a free entry stop at the first. *)
First(S, x) == x \in S /\ \A y \in S : x <= y
FreeSlot(k) == First({j \in Slot : Mine[j] = Unused}, k)

Init ==
    /\ BootProcessTable
    /\ owner = [s \in Sem |-> None] /\ count = [s \in Sem |-> 0]
    /\ openInode = [k \in OpenFile |-> None] /\ openCount = [k \in OpenFile |-> 0]
    /\ fileOpens = [f \in File |-> None]
    /\ resource = [p \in Pid |-> [k \in Slot |-> Unused]]
    /\ pc = [p \in Pid |-> InUser]
    /\ slot = 0
    /\ miscounted = {}

-----------------------------------------------------------------------------
(* Semaphores *)

Semget ==
    /\ User
    /\ \E k \in Slot, s \in Sem :
        /\ FreeSlot(k)
        /\ First({t \in Sem : count[t] = 0}, s)
        /\ owner' = [owner EXCEPT ![s] = None]
        /\ count' = [count EXCEPT ![s] = 1]
        /\ resource' = [resource EXCEPT ![current][k] = SemEntry(s)]
    /\ UNCHANGED <<schedVars, fileVars, pc, slot, miscounted>>

SemLock(k) ==
    /\ User /\ Mine[k].kind = "SEMAPHORE"
    /\ pc' = [pc EXCEPT ![current] = InLock(Mine[k].index)]
    /\ UNCHANGED <<schedVars, semVars, fileVars, resource, slot, miscounted>>

(* The loop of semlock: sleep while somebody has it locked, even oneself. *)
TakeLock ==
    /\ pc[current].in = "semlock"
    /\ LET s == pc[current].sem IN
       \/ /\ owner[s] # None
          /\ SleepOn("WAIT_SEMAPHORE", s)
          /\ UNCHANGED <<semVars, fileVars, resource, pc, slot, miscounted>>
       \/ /\ owner[s] = None
          /\ owner' = [owner EXCEPT ![s] = current]
          /\ pc' = [pc EXCEPT ![current] = InUser]
          /\ UNCHANGED <<schedVars, count, fileVars, resource, slot, miscounted>>

(* Mutant: whoever shares the semaphore may unlock it. *)
UnlockableByAll(s) == owner[s] # None

Unlockable(s) == owner[s] = current

SemUnLock(k) ==
    /\ User /\ Mine[k].kind = "SEMAPHORE"
    /\ Unlockable(Mine[k].index)
    /\ owner' = [owner EXCEPT ![Mine[k].index] = None]
    /\ status' = Wake(status, "WAIT_SEMAPHORE", Mine[k].index)
    /\ UNCHANGED <<waitingOn, current, count, fileVars, resource, pc, slot, miscounted>>

(* Mutant: the lock of the releasing process is not undone. *)
ReleaseLocked(s) ==
    /\ count' = [count EXCEPT ![s] = @ - 1]
    /\ UNCHANGED <<owner, status>>

(* Mutant: the count goes down inside the branch of the owner, line 134 above line 131. *)
ReleaseOwned(s) ==
    /\ owner' = IF owner[s] = current THEN [owner EXCEPT ![s] = None] ELSE owner
    /\ status' = IF owner[s] = current THEN Wake(status, "WAIT_SEMAPHORE", current)
                 ELSE status
    /\ count' = IF owner[s] = current THEN [count EXCEPT ![s] = @ - 1] ELSE count

(***************************************************************************)
(* Release of the semaphore s by the current process.  A lock it still     *)
(* holds is undone, but the processes that are woken are those whose wait  *)
(* id is the number of the releasing process, not that of the semaphore.   *)
(***************************************************************************)
ReleaseSemaphore(s) ==
    /\ owner' = IF owner[s] = current THEN [owner EXCEPT ![s] = None] ELSE owner
    /\ status' = IF owner[s] = current THEN Wake(status, "WAIT_SEMAPHORE", current)
                 ELSE status
    /\ count' = [count EXCEPT ![s] = @ - 1]

(* Entry -1 of the semaphore table is the last entry of the open file table. *)
ReleaseStray ==
    LET k == NumOpenFiles - 1 IN
    /\ openInode' = IF openInode[k] = current THEN [openInode EXCEPT ![k] = None]
                    ELSE openInode
    /\ status' = IF openInode[k] = current THEN Wake(status, "WAIT_SEMAPHORE", current)
                 ELSE status
    /\ openCount' = [openCount EXCEPT ![k] = @ - 1]

(* Semrelease takes the index from the resource table, whatever it is of. *)
Semrelease(k) ==
    /\ User
    /\ Mine[k].kind \in Releasable
    /\ \/ /\ Mine[k] # Unused
          /\ ReleaseSemaphore(Mine[k].index)
          /\ UNCHANGED fileVars
       \/ /\ Mine[k] = Unused
          /\ ReleaseStray
          /\ UNCHANGED <<semVars, fileOpens>>
    /\ resource' = [resource EXCEPT ![current][k] = Unused]
    /\ UNCHANGED <<waitingOn, current, pc, slot, miscounted>>

-----------------------------------------------------------------------------
(* Open files *)

(* Mutant: the first open of a file counts up from -1. *)
OpenedFromNone(n) == n + 1

Opened(n) == IF n = None THEN 1 ELSE n + 1
Closed(n) == IF n = 1 THEN None ELSE n - 1

(***************************************************************************)
(* The inode lock that open takes and gives back is free in this module,   *)
(* where nobody reads or writes a file.                                    *)
(***************************************************************************)
Open(f) ==
    /\ User
    /\ \E j \in Slot, k \in OpenFile :
        /\ FreeSlot(j)
        /\ First({m \in OpenFile : openInode[m] = None}, k)
        /\ openInode' = [openInode EXCEPT ![k] = f]
        /\ openCount' = [openCount EXCEPT ![k] = 1]
        /\ resource' = [resource EXCEPT ![current][j] = FileEntry(k)]
    /\ fileOpens' = IF f = InodeRoot THEN fileOpens
                    ELSE [fileOpens EXCEPT ![f] = Opened(@)]
    /\ UNCHANGED <<schedVars, semVars, pc, slot, miscounted>>

(***************************************************************************)
(* The last process to close the entry frees it and closes the file.  An   *)
(* entry that forks raised to 1 when it was free has no file: its close    *)
(* takes one from the word before the file status table's first, which is  *)
(* not of this module (the count of a memory page).                        *)
(***************************************************************************)
CloseFile(k) ==
    LET last == openCount[k] = 1
        f    == openInode[k] IN
    /\ openInode' = IF last THEN [openInode EXCEPT ![k] = None] ELSE openInode
    /\ openCount' = [openCount EXCEPT ![k] = IF last THEN -1 ELSE @ - 1]
    /\ fileOpens' = IF last /\ f \in File \ {InodeRoot}
                    THEN [fileOpens EXCEPT ![f] = Closed(@)] ELSE fileOpens

Close(j) ==
    /\ User /\ Mine[j].kind = "FILE"
    /\ CloseFile(Mine[j].index)
    /\ resource' = [resource EXCEPT ![current][j] = Unused]
    /\ UNCHANGED <<schedVars, semVars, pc, slot, miscounted>>

-----------------------------------------------------------------------------
(* Processes *)

(***************************************************************************)
(* The child gets a copy of the resource table, word by word.  A share     *)
(* count is raised for each semaphore in it, but when the copy is at the   *)
(* kind of an entry the index after it is still what the child's page held *)
(* before (int_8.spl 69-72): left[k] for entry k.  -1, as exit leaves it   *)
(* in a page, is the entry before the semaphore table, the last open file; *)
(* a word that is no index of a table is a place this module does not      *)
(* have.  Files are not counted: the branch that would asks for            *)
(* "R6 % 2 == 2" (int_8.spl 74) and is never taken.                        *)
(***************************************************************************)
SemSlots        == {k \in Slot : Mine[k].kind = "SEMAPHORE"}
Credit(left, x) == Cardinality({k \in SemSlots : left[k] = x})
Copies(s)       == Cardinality({k \in Slot : Mine[k] = SemEntry(s)})

Fork ==
    /\ User
    /\ \E c \in Pid, left \in [Slot -> Left] :
        /\ First({d \in Pid : d >= 1 /\ status[d] = "TERMINATED"}, c)
        /\ status' = [status EXCEPT ![c] = "CREATED"]
        /\ resource' = [resource EXCEPT ![c] = Mine]
        /\ count' = [s \in Sem |-> count[s] + Credit(left, s)]
        /\ openCount' = [openCount EXCEPT ![NumOpenFiles - 1] = @ + Credit(left, None)]
        /\ miscounted' = miscounted \cup {s \in Sem : Credit(left, s) # Copies(s)}
    /\ UNCHANGED <<waitingOn, current, owner, openInode, fileOpens, pc, slot>>

Exit ==
    /\ User
    /\ pc' = [pc EXCEPT ![current] = InExit]
    /\ slot' = 0
    /\ UNCHANGED <<schedVars, semVars, fileVars, resource, miscounted>>

(* Exit goes through the resource table, entry by entry. *)
GiveBack ==
    /\ pc[current] = InExit /\ slot < NumSlots
    /\ \/ /\ Mine[slot].kind = "SEMAPHORE"
          /\ ReleaseSemaphore(Mine[slot].index)
          /\ UNCHANGED fileVars
       \/ /\ Mine[slot].kind = "FILE"
          /\ CloseFile(Mine[slot].index)
          /\ UNCHANGED <<status, semVars>>
       \/ /\ Mine[slot] = Unused
          /\ UNCHANGED <<status, semVars, fileVars>>
    /\ resource' = [resource EXCEPT ![current][slot] = Unused]
    /\ slot' = slot + 1
    /\ UNCHANGED <<waitingOn, current, pc, miscounted>>

Terminate ==
    /\ pc[current] = InExit /\ slot = NumSlots
    /\ SwitchFrom([status EXCEPT ![current] = "TERMINATED"])
    /\ pc' = [pc EXCEPT ![current] = InUser]
    /\ slot' = 0
    /\ UNCHANGED <<waitingOn, semVars, fileVars, resource, miscounted>>

Timer ==
    /\ pc[current] = InUser
    /\ Preempt
    /\ UNCHANGED <<semVars, fileVars, resource, pc, slot, miscounted>>

SystemCall ==
    \/ Semget \/ Fork \/ Exit
    \/ \E k \in Slot : SemLock(k) \/ SemUnLock(k) \/ Semrelease(k) \/ Close(k)
    \/ \E f \in File : Open(f)

Next == SystemCall \/ TakeLock \/ GiveBack \/ Terminate \/ Timer

Spec == Init /\ [][Next]_vars

-----------------------------------------------------------------------------
(* Properties *)

TypeOK ==
    /\ SchedTypeOK
    /\ owner \in [Sem -> Pid \cup {None}]
    /\ count \in [Sem -> Int]
    /\ openInode \in [OpenFile -> File \cup {None}]
    /\ openCount \in [OpenFile -> Int]
    /\ fileOpens \in [File -> Int]
    /\ resource \in [Pid -> [Slot -> Entry]]
    /\ pc \in [Pid -> {InUser, InExit} \cup {InLock(s) : s \in Sem}]
    /\ slot \in 0 .. NumSlots
    /\ miscounted \subseteq Sem

Uses(p, e) == {k \in Slot : resource[p][k] = e}

References(e) == {pk \in Pid \X Slot : resource[pk[1]][pk[2]] = e}

(***************************************************************************)
(* The count of a semaphore that every fork has counted right is the "no:  *)
(* of sharing processes" (boot.spl 139), through every release and exit:   *)
(* semget hands it out again when nobody has it any more, and not before.  *)
(***************************************************************************)
SharingCounts ==
    \A s \in Sem \ miscounted : count[s] = Cardinality(References(SemEntry(s)))

(***************************************************************************)
(* "no: of sharing processes" (boot.spl 139) and "R7 holds semaphore table *)
(* index" (int_8.spl 71), of every semaphore.                              *)
(***************************************************************************)
SharersAreCounted == \A s \in Sem : count[s] = Cardinality(References(SemEntry(s)))

(***************************************************************************)
(* A semaphore is locked, or waited for, only by a process that has it in  *)
(* its resource table: neither exit nor release leaves a lock behind,      *)
(* whatever fork made of the counts.                                       *)
(***************************************************************************)
UsersOnly ==
    /\ \A s \in Sem : owner[s] # None => Uses(owner[s], SemEntry(s)) # {}
    /\ \A p \in Pid : pc[p].in = "semlock" => Uses(p, SemEntry(pc[p].sem)) # {}

(***************************************************************************)
(* The lock of a semaphore that every fork has counted right is given up   *)
(* by its owner and by nobody else, whoever releases the semaphore, exits  *)
(* or is handed it by semget.                                              *)
(***************************************************************************)
OnlyOwnerUnlocks ==
    [][\A s \in Sem \ miscounted :
          owner[s] # None /\ owner'[s] # owner[s] => owner[s] = current]_vars

(***************************************************************************)
(* The file status table counts the entries of the open file table that    *)
(* are open on the file: delete, which asks it, finds a file closed only   *)
(* when no entry names it.                                                 *)
(***************************************************************************)
FileOpenCounts ==
    \A f \in File \ {InodeRoot} :
        LET n == Cardinality({k \in OpenFile : openInode[k] = f}) IN
        fileOpens[f] = IF n = 0 THEN None ELSE n

(***************************************************************************)
(* The "Open instance count" (file_manager.spl 174) of an open file is the *)
(* number of resource table entries that name it.                          *)
(***************************************************************************)
OpenInstanceCounts ==
    \A k \in OpenFile : openInode[k] # None =>
        openCount[k] = Cardinality(References(FileEntry(k)))

(***************************************************************************)
(* A process sleeps on a semaphore only while it is locked: "If semaphore  *)
(* is locked by arg_2" is undone, its waiters are made ready               *)
(* (resource_manager.spl 118-130).                                         *)
(***************************************************************************)
SleepersAreBlocked ==
    \A p \in Pid : status[p] = "WAIT_SEMAPHORE" => owner[waitingOn[p]] # None
=============================================================================
