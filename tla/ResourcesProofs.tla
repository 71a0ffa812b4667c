---------------------------- MODULE ResourcesProofs ----------------------------
(***************************************************************************)
(* What holds of the resource tables for every number of processes,        *)
(* semaphores, open files and slots, and whatever descriptors programs     *)
(* give to semrelease.                                                     *)
(***************************************************************************)
EXTENDS Resources, FiniteSetTheorems, TLAPS

(* What a call of the scheduler does to the process table. *)
LEMMA SwitchEffect ==
    ASSUME NEW st \in [Pid -> State], SwitchFrom(st)
    PROVE  /\ current' \in Pid /\ Runnable(st[current'])
           /\ status' = [st EXCEPT ![current'] = "RUNNING"]
           /\ status' \in [Pid -> State]
BY DEF SwitchFrom, NextInTurn, State

(* Waking leaves every process ready or as it was. *)
LEMMA WakeEffect ==
    ASSUME NEW st \in [Pid -> State], NEW why \in Sleeping, NEW id
    PROVE  /\ Wake(st, why, id) \in [Pid -> State]
           /\ WakeAll(st, why) \in [Pid -> State]
BY DEF Wake, WakeAll, State

(* The table that boot leaves has one running process. *)
LEMMA BootEffect ==
    ASSUME BootProcessTable
    PROVE  SchedTypeOK /\ OneRunning
BY NumProcsAssumption
   DEF SchedTypeOK, OneRunning, BootProcessTable, State, Sleeping, Pid, Idle, Root

\* Exit and release run to their end before another process runs.
Exiting ==
    /\ status[current] = "RUNNING"
    /\ \A p \in Pid : pc[p] = InExit => p = current
    /\ pc[current] = InExit => \A k \in Slot : k < slot => Mine[k] = Unused

\* An entry of the process table that fork may take has nothing left in its tables.
TerminatedHoldNothing ==
    \A p \in Pid : status[p] = "TERMINATED" =>
        pc[p] = InUser /\ \A k \in Slot : resource[p][k] = Unused

Has(p, s) == \E k \in Slot : resource[p][k] = SemEntry(s)

\* UsersOnly without the sets.
HoldersHave ==
    /\ \A s \in Sem : owner[s] # None => Has(owner[s], s)
    /\ \A p \in Pid : pc[p].in = "semlock" => Has(p, pc[p].sem)

UseInv == TypeOK /\ Exiting /\ TerminatedHoldNothing /\ HoldersHave

LEMMA EntryFields ==
    ASSUME NEW e \in Entry
    PROVE  /\ e.kind \in {"SEMAPHORE", "FILE", "NONE"}
           /\ e.kind = "SEMAPHORE" => e.index \in Sem /\ e = SemEntry(e.index)
           /\ e.kind = "FILE" => e.index \in OpenFile
           /\ e.kind = "NONE" <=> e = Unused
BY DEF Entry, SemEntry, FileEntry, Unused

LEMMA EntryTypes ==
    /\ \A s \in Sem : SemEntry(s) \in Entry /\ SemEntry(s) # Unused
    /\ \A k \in OpenFile : FileEntry(k) \in Entry
    /\ Unused \in Entry
BY DEF Entry, SemEntry, FileEntry, Unused

LEMMA Places ==
    /\ InUser # InExit /\ InUser.in = "user" /\ InExit.in = "exit"
    /\ \A s \in Sem : /\ InLock(s).in = "semlock" /\ InLock(s).sem = s
                      /\ InLock(s) # InUser /\ InLock(s) # InExit
BY DEF InUser, InExit, InLock

LEMMA PlaceFields ==
    ASSUME TypeOK, NEW p \in Pid
    PROVE  /\ pc[p].in = "semlock" => pc[p].sem \in Sem /\ pc[p] = InLock(pc[p].sem)
           /\ pc[p].in = "semlock" => pc[p] # InUser /\ pc[p] # InExit
           /\ pc[p] = InUser \/ pc[p] = InExit \/ pc[p].in = "semlock"
BY Places DEF TypeOK, InUser, InExit, InLock

LEMMA SlotsFinite == \A S \in SUBSET Slot : IsFiniteSet(S) /\ Cardinality(S) \in Nat
<1>1. IsFiniteSet(Slot)
  BY FS_Interval, ResourcesAssumption DEF Slot
<1> QED BY <1>1, FS_Subset, FS_CardinalityType

LEMMA CreditNat == \A left, x : Credit(left, x) \in Nat
<1> SUFFICES ASSUME NEW left, NEW x PROVE Credit(left, x) \in Nat
  OBVIOUS
<1>1. {k \in SemSlots : left[k] = x} \subseteq Slot
  BY DEF SemSlots
<1> QED BY <1>1, SlotsFinite DEF Credit

LEMMA InitUse == Init => UseInv
<1> SUFFICES ASSUME Init PROVE UseInv
  OBVIOUS
<1>1. SchedTypeOK /\ OneRunning
  BY BootEffect DEF Init
<1>2. TypeOK
  <2>1. slot \in 0 .. NumSlots /\ None \in Pid \cup {None}
    BY ResourcesAssumption DEF Init
  <2>2. resource \in [Pid -> [Slot -> Entry]]
    BY EntryTypes DEF Init
  <2>3. pc \in [Pid -> {InUser, InExit} \cup {InLock(s) : s \in Sem}]
    BY DEF Init
  <2>4. fileOpens \in [File -> Int] /\ openCount \in [OpenFile -> Int]
    BY DEF Init, None
  <2> QED BY <1>1, <2>1, <2>2, <2>3, <2>4 DEF Init, TypeOK
<1>3. Exiting
  BY <1>1, Places DEF Init, Exiting, OneRunning, SchedTypeOK
<1>4. TerminatedHoldNothing
  BY DEF Init, TerminatedHoldNothing
<1>5. HoldersHave
  BY Places DEF Init, HoldersHave
<1> QED BY <1>2, <1>3, <1>4, <1>5 DEF UseInv

\* Facts about the current process every handler needs.
LEMMA CurrentFacts ==
    ASSUME UseInv
    PROVE  /\ current \in Pid /\ status \in [Pid -> State] /\ status[current] = "RUNNING"
           /\ resource \in [Pid -> [Slot -> Entry]]
           /\ owner \in [Sem -> Pid \cup {None}]
           /\ pc \in [Pid -> {InUser, InExit} \cup {InLock(s) : s \in Sem}]
           /\ None \notin Pid
BY DEF UseInv, TypeOK, SchedTypeOK, Exiting, None, Pid

LEMMA SemgetUse ==
    ASSUME UseInv, Semget
    PROVE  UseInv'
<1> USE DEF Mine
<1>1. PICK k \in Slot, s \in Sem :
        /\ Mine[k] = Unused
        /\ owner' = [owner EXCEPT ![s] = None]
        /\ count' = [count EXCEPT ![s] = 1]
        /\ resource' = [resource EXCEPT ![current][k] = SemEntry(s)]
  BY DEF Semget, FreeSlot, First
<1>2. /\ pc[current] = InUser
      /\ status' = status /\ waitingOn' = waitingOn /\ current' = current
      /\ openInode' = openInode /\ openCount' = openCount /\ fileOpens' = fileOpens
      /\ pc' = pc /\ slot' = slot /\ miscounted' = miscounted
  BY DEF Semget, User, schedVars, fileVars
<1>3. TypeOK'
  <2>1. owner' \in [Sem -> Pid \cup {None}] /\ count' \in [Sem -> Int]
    BY <1>1 DEF UseInv, TypeOK
  <2>2. resource' \in [Pid -> [Slot -> Entry]]
    BY <1>1, EntryTypes, CurrentFacts
  <2> QED BY <1>2, <2>1, <2>2 DEF UseInv, TypeOK, SchedTypeOK
<1>4. /\ \A p \in Pid : p # current => resource'[p] = resource[p]
      /\ \A j \in Slot : j # k => resource'[current][j] = Mine[j]
  BY <1>1, CurrentFacts
<1>5. Exiting'
  BY <1>2, Places DEF UseInv, Exiting
<1>6. TerminatedHoldNothing'
  <2>1. \A p \in Pid : status[p] = "TERMINATED" => p # current
    BY CurrentFacts
  <2> QED BY <1>2, <1>4, <2>1 DEF UseInv, TerminatedHoldNothing
<1>7. \A p \in Pid, t \in Sem : Has(p, t) => Has(p, t)'
  BY <1>1, <1>4, EntryTypes DEF Has
<1>8. HoldersHave'
  <2>1. \A t \in Sem : owner'[t] # None => owner'[t] = owner[t]
    BY <1>1, CurrentFacts
  <2> QED BY <1>2, <1>7, <2>1, CurrentFacts, PlaceFields DEF UseInv, HoldersHave
<1> QED BY <1>3, <1>5, <1>6, <1>8 DEF UseInv

(***************************************************************************)
(* What waking, switching and giving up a descriptor preserve.             *)
(***************************************************************************)
LEMMA WakeKeeps ==
    ASSUME UseInv, NEW id
    PROVE  LET w == Wake(status, "WAIT_SEMAPHORE", id)
           IN  /\ w \in [Pid -> State] /\ w[current] = "RUNNING"
               /\ \A p \in Pid : w[p] = "TERMINATED" => status[p] = "TERMINATED"
<1>1. "WAIT_SEMAPHORE" \in Sleeping
  BY DEF Sleeping
<1>2. Wake(status, "WAIT_SEMAPHORE", id) \in [Pid -> State]
  BY <1>1, CurrentFacts, WakeEffect
<1> QED BY <1>2, CurrentFacts DEF Wake

LEMMA SwitchKeeps ==
    ASSUME UseInv, NEW st \in State, SwitchFrom([status EXCEPT ![current] = st])
    PROVE  /\ current' \in Pid /\ status' \in [Pid -> State]
           /\ status'[current'] = "RUNNING"
           /\ \A p \in Pid : status'[p] = "TERMINATED" =>
                 status[p] = "TERMINATED" \/ (p = current /\ st = "TERMINATED")
<1> DEFINE t == [status EXCEPT ![current] = st]
<1>1. t \in [Pid -> State]
  BY CurrentFacts
<1>2. /\ current' \in Pid /\ status' = [t EXCEPT ![current'] = "RUNNING"]
      /\ status' \in [Pid -> State]
  BY <1>1, SwitchEffect
<1> QED BY <1>1, <1>2, CurrentFacts

\* The current process gives up the descriptor in slot k, and no lock that goes with it stays.
LEMMA GivenUp ==
    ASSUME UseInv, NEW k \in Slot,
           resource' = [resource EXCEPT ![current][k] = Unused],
           Mine[k].kind = "SEMAPHORE" => owner'[Mine[k].index] # current,
           \A t \in Sem : owner'[t] \in {owner[t], None},
           pc' = pc, pc[current] \in {InUser, InExit},
           \A p \in Pid : status'[p] = "TERMINATED" => status[p] = "TERMINATED"
    PROVE  /\ HoldersHave' /\ TerminatedHoldNothing'
           /\ resource' \in [Pid -> [Slot -> Entry]]
           /\ \A j \in Slot : resource'[current][j] = IF j = k THEN Unused ELSE Mine[j]
<1> USE DEF Mine
<1>1. /\ \A p \in Pid : p # current => resource'[p] = resource[p]
      /\ \A j \in Slot : resource'[current][j] = IF j = k THEN Unused ELSE Mine[j]
      /\ resource' \in [Pid -> [Slot -> Entry]]
  BY EntryTypes, CurrentFacts
<1>2. \A p \in Pid : pc[p].in = "semlock" => p # current
  BY Places
<1>3. ASSUME NEW t \in Sem, owner'[t] # None
      PROVE  Has(owner[t], t)'
  <2>1. owner'[t] = owner[t] /\ Has(owner[t], t) /\ owner[t] \in Pid
    BY <1>3, CurrentFacts DEF UseInv, HoldersHave
  <2>2. CASE owner[t] # current
    BY <1>1, <2>1, <2>2 DEF Has
  <2>3. CASE owner[t] = current
    <3>1. PICK j \in Slot : Mine[j] = SemEntry(t)
      BY <2>1, <2>3 DEF Has
    <3>2. j # k
      BY <2>1, <2>3, <3>1 DEF SemEntry
    <3> QED BY <1>1, <2>1, <2>3, <3>1, <3>2 DEF Has
  <2> QED BY <2>2, <2>3
<1>4. ASSUME NEW p \in Pid, pc[p].in = "semlock"
      PROVE  Has(p, pc[p].sem)'
  BY <1>1, <1>2, <1>4 DEF UseInv, HoldersHave, Has
<1>5. HoldersHave'
  BY <1>3, <1>4 DEF HoldersHave
<1>6. TerminatedHoldNothing'
  <2>1. ASSUME NEW p \in Pid, status'[p] = "TERMINATED"
        PROVE  pc'[p] = InUser /\ \A j \in Slot : resource'[p][j] = Unused
    <3>1. pc[p] = InUser /\ \A j \in Slot : resource[p][j] = Unused
      BY <2>1 DEF UseInv, TerminatedHoldNothing
    <3> QED BY <1>1, <3>1
  <2> QED BY <2>1 DEF TerminatedHoldNothing
<1> QED BY <1>1, <1>5, <1>6

\* The locks and the tables of open files after a release.
LEMMA ReleaseTypes ==
    ASSUME UseInv, NEW s \in Sem, ReleaseSemaphore(s)
    PROVE  /\ owner' \in [Sem -> Pid \cup {None}] /\ count' \in [Sem -> Int]
           /\ owner'[s] # current /\ \A t \in Sem : owner'[t] \in {owner[t], None}
           /\ status' \in [Pid -> State] /\ status'[current] = "RUNNING"
           /\ \A p \in Pid : status'[p] = "TERMINATED" => status[p] = "TERMINATED"
<1>1. owner \in [Sem -> Pid \cup {None}] /\ count \in [Sem -> Int] /\ current # None
  BY CurrentFacts DEF UseInv, TypeOK
<1>2. count' = [count EXCEPT ![s] = @ - 1]
  BY DEF ReleaseSemaphore
<1>3. owner' = IF owner[s] = current THEN [owner EXCEPT ![s] = None] ELSE owner
  BY DEF ReleaseSemaphore
<1>4. status' = Wake(status, "WAIT_SEMAPHORE", current) \/ status' = status
  BY DEF ReleaseSemaphore
<1>5. count' \in [Sem -> Int]
  BY <1>1, <1>2
<1> QED BY <1>1, <1>3, <1>4, <1>5, CurrentFacts, WakeKeeps

LEMMA CloseTypes ==
    ASSUME UseInv, NEW k \in OpenFile, CloseFile(k)
    PROVE  /\ openInode' \in [OpenFile -> File \cup {None}]
           /\ openCount' \in [OpenFile -> Int] /\ fileOpens' \in [File -> Int]
<1>1. /\ openInode \in [OpenFile -> File \cup {None}]
      /\ openCount \in [OpenFile -> Int] /\ fileOpens \in [File -> Int]
  BY DEF UseInv, TypeOK
<1>2. \A n \in Int : Closed(n) \in Int /\ n - 1 \in Int
  BY DEF Closed, None
<1> QED BY <1>1, <1>2 DEF CloseFile

(***************************************************************************)
(* One lemma for each of the remaining operations.                         *)
(***************************************************************************)
LEMMA SemLockUse ==
    ASSUME UseInv, NEW k \in Slot, SemLock(k)
    PROVE  UseInv'
<1> USE DEF Mine
<1> DEFINE s == Mine[k].index
<1>1. /\ pc[current] = InUser /\ Mine[k].kind = "SEMAPHORE"
      /\ pc' = [pc EXCEPT ![current] = InLock(s)]
      /\ UNCHANGED <<status, waitingOn, current, owner, count,
                     openInode, openCount, fileOpens, resource, slot, miscounted>>
  BY DEF SemLock, User, schedVars, semVars, fileVars
<1>2. s \in Sem /\ Mine[k] = SemEntry(s)
  BY <1>1, CurrentFacts, EntryFields
<1>3. /\ pc' \in [Pid -> {InUser, InExit} \cup {InLock(t) : t \in Sem}]
      /\ pc'[current] = InLock(s) /\ \A p \in Pid : p # current => pc'[p] = pc[p]
  BY <1>1, <1>2, CurrentFacts
<1>4. TypeOK'
  BY <1>1, <1>3 DEF UseInv, TypeOK, SchedTypeOK
<1>5. Exiting' /\ TerminatedHoldNothing'
  BY <1>1, <1>2, <1>3, Places, CurrentFacts DEF UseInv, Exiting, TerminatedHoldNothing
<1>6. HoldersHave'
  BY <1>1, <1>2, <1>3, Places, CurrentFacts DEF UseInv, HoldersHave, Has
<1> QED BY <1>4, <1>5, <1>6 DEF UseInv

LEMMA TakeLockUse ==
    ASSUME UseInv, TakeLock
    PROVE  UseInv'
<1> USE DEF Mine
<1> DEFINE s == pc[current].sem
<1>1. /\ pc[current].in = "semlock" /\ s \in Sem /\ Has(current, s)
      /\ pc[current] # InExit
      /\ \A p \in Pid : pc[p] # InExit
  BY CurrentFacts, PlaceFields DEF TakeLock, UseInv, HoldersHave, Exiting
<1>2. /\ UNCHANGED <<count, openInode, openCount, fileOpens, resource, slot, miscounted>>
      /\ waitingOn' \in [Pid -> Int] /\ current' \in Pid
      /\ status' \in [Pid -> State] /\ status'[current'] = "RUNNING"
      /\ \A p \in Pid : status'[p] = "TERMINATED" => status[p] = "TERMINATED"
  <2>1. CASE owner[s] # None
    <3>1. "WAIT_SEMAPHORE" \in State
      BY DEF State, Sleeping
    <3>2. SwitchFrom([status EXCEPT ![current] = "WAIT_SEMAPHORE"])
      BY <2>1 DEF TakeLock, SleepOn
    <3>3. waitingOn' = [waitingOn EXCEPT ![current] = s] /\ s \in Int
      BY <1>1, <2>1 DEF TakeLock, SleepOn, Sem
    <3>4. UNCHANGED <<count, openInode, openCount, fileOpens, resource, slot, miscounted>>
      BY <2>1 DEF TakeLock, semVars, fileVars
    <3> QED BY <3>1, <3>2, <3>3, <3>4, SwitchKeeps DEF UseInv, TypeOK, SchedTypeOK
  <2>2. CASE owner[s] = None
    BY <2>2, CurrentFacts DEF TakeLock, schedVars, fileVars, UseInv, TypeOK, SchedTypeOK
  <2> QED BY <2>1, <2>2
<1>3. CASE owner' = owner /\ pc' = pc
  <2>1. TypeOK'
    BY <1>2, <1>3 DEF UseInv, TypeOK, SchedTypeOK
  <2>2. Exiting' /\ TerminatedHoldNothing' /\ HoldersHave'
    BY <1>1, <1>2, <1>3 DEF UseInv, Exiting, TerminatedHoldNothing, HoldersHave, Has
  <2> QED BY <2>1, <2>2 DEF UseInv
<1>4. CASE /\ owner' = [owner EXCEPT ![s] = current]
           /\ pc' = [pc EXCEPT ![current] = InUser]
           /\ current' = current
  <2>1. /\ owner' \in [Sem -> Pid \cup {None}]
        /\ pc' \in [Pid -> {InUser, InExit} \cup {InLock(t) : t \in Sem}]
        /\ pc'[current] = InUser /\ \A p \in Pid : p # current => pc'[p] = pc[p]
        /\ owner'[s] = current /\ \A t \in Sem : t # s => owner'[t] = owner[t]
    BY <1>1, <1>4, CurrentFacts
  <2>2. TypeOK'
    BY <1>2, <2>1 DEF UseInv, TypeOK, SchedTypeOK
  <2>3. Exiting' /\ TerminatedHoldNothing'
    BY <1>1, <1>2, <1>4, <2>1, Places DEF UseInv, Exiting, TerminatedHoldNothing
  <2>4. HoldersHave'
    BY <1>1, <1>2, <2>1, Places DEF UseInv, HoldersHave, Has
  <2> QED BY <2>2, <2>3, <2>4 DEF UseInv
<1> QED BY <1>3, <1>4 DEF TakeLock, schedVars, semVars

LEMMA SemUnLockUse ==
    ASSUME UseInv, NEW k \in Slot, SemUnLock(k)
    PROVE  UseInv'
<1> USE DEF Mine
<1> DEFINE s == Mine[k].index
<1>1. /\ pc[current] = InUser /\ Mine[k].kind = "SEMAPHORE"
      /\ owner' = [owner EXCEPT ![s] = None]
      /\ status' = Wake(status, "WAIT_SEMAPHORE", s)
      /\ UNCHANGED <<waitingOn, current, count, openInode, openCount, fileOpens,
                     resource, pc, slot, miscounted>>
  BY DEF SemUnLock, User, fileVars
<1>2. s \in Sem
  BY <1>1, CurrentFacts, EntryFields
<1>3. /\ owner' \in [Sem -> Pid \cup {None}]
      /\ \A t \in Sem : owner'[t] \in {owner[t], None}
  BY <1>1, <1>2, CurrentFacts
<1>4. /\ status' \in [Pid -> State] /\ status'[current] = "RUNNING"
      /\ \A p \in Pid : status'[p] = "TERMINATED" => status[p] = "TERMINATED"
  BY <1>1, WakeKeeps
<1>5. TypeOK'
  BY <1>1, <1>3, <1>4 DEF UseInv, TypeOK, SchedTypeOK
<1>6. Exiting' /\ TerminatedHoldNothing' /\ HoldersHave'
  BY <1>1, <1>3, <1>4 DEF UseInv, Exiting, TerminatedHoldNothing, HoldersHave, Has
<1> QED BY <1>5, <1>6 DEF UseInv

LEMMA SemreleaseUse ==
    ASSUME UseInv, NEW k \in Slot, Semrelease(k)
    PROVE  UseInv'
<1> USE DEF Mine
<1>1. /\ pc[current] = InUser
      /\ resource' = [resource EXCEPT ![current][k] = Unused]
      /\ UNCHANGED <<waitingOn, current, pc, slot, fileOpens, miscounted>>
  BY DEF Semrelease, User, fileVars
<1>2. /\ owner' \in [Sem -> Pid \cup {None}] /\ count' \in [Sem -> Int]
      /\ openInode' \in [OpenFile -> File \cup {None}]
      /\ openCount' \in [OpenFile -> Int]
      /\ Mine[k].kind = "SEMAPHORE" => owner'[Mine[k].index] # current
      /\ \A t \in Sem : owner'[t] \in {owner[t], None}
      /\ status' \in [Pid -> State] /\ status'[current] = "RUNNING"
      /\ \A p \in Pid : status'[p] = "TERMINATED" => status[p] = "TERMINATED"
  <2>1. CASE Mine[k] # Unused /\ ReleaseSemaphore(Mine[k].index) /\ UNCHANGED fileVars
    <3>1. Mine[k].index \in Sem
      BY <2>1, CurrentFacts, EntryFields, ResourcesAssumption DEF Sem, OpenFile
    <3> QED BY <2>1, <3>1, ReleaseTypes DEF UseInv, TypeOK, fileVars
  <2>2. CASE Mine[k] = Unused /\ ReleaseStray /\ UNCHANGED semVars
    <3>1. NumOpenFiles - 1 \in OpenFile
      BY ResourcesAssumption DEF OpenFile
    <3>2. Mine[k].kind # "SEMAPHORE"
      BY <2>2 DEF Unused
    <3>3. /\ openInode' \in [OpenFile -> File \cup {None}]
          /\ openCount' \in [OpenFile -> Int]
      BY <2>2, <3>1 DEF ReleaseStray, UseInv, TypeOK
    <3>4. status' = status \/ status' = Wake(status, "WAIT_SEMAPHORE", current)
      BY <2>2 DEF ReleaseStray
    <3>5. owner' = owner /\ count' = count
      BY <2>2 DEF semVars
    <3> QED BY <3>2, <3>3, <3>4, <3>5, WakeKeeps, CurrentFacts DEF UseInv, TypeOK
  <2> QED BY <2>1, <2>2 DEF Semrelease
<1>3. /\ HoldersHave' /\ TerminatedHoldNothing' /\ resource' \in [Pid -> [Slot -> Entry]]
      /\ \A j \in Slot : resource'[current][j] = IF j = k THEN Unused ELSE Mine[j]
  BY <1>1, <1>2, GivenUp
<1>4. TypeOK'
  BY <1>1, <1>2, <1>3 DEF UseInv, TypeOK, SchedTypeOK
<1>5. Exiting'
  BY <1>1, <1>2, Places DEF UseInv, Exiting
<1> QED BY <1>3, <1>4, <1>5 DEF UseInv

LEMMA OpenUse ==
    ASSUME UseInv, NEW f \in File, Open(f)
    PROVE  UseInv'
<1> USE DEF Mine
<1>1. PICK j \in Slot, k \in OpenFile :
        /\ Mine[j] = Unused
        /\ openInode' = [openInode EXCEPT ![k] = f]
        /\ openCount' = [openCount EXCEPT ![k] = 1]
        /\ resource' = [resource EXCEPT ![current][j] = FileEntry(k)]
  BY DEF Open, FreeSlot, First
<1>2. /\ pc[current] = InUser
      /\ UNCHANGED <<status, waitingOn, current, owner, count, pc, slot, miscounted>>
      /\ fileOpens' = IF f = InodeRoot THEN fileOpens
                      ELSE [fileOpens EXCEPT ![f] = Opened(@)]
  BY DEF Open, User, schedVars, semVars
<1>3. TypeOK'
  <2>1. openInode' \in [OpenFile -> File \cup {None}] /\ openCount' \in [OpenFile -> Int]
    BY <1>1 DEF UseInv, TypeOK
  <2>2. fileOpens' \in [File -> Int]
    BY <1>2 DEF UseInv, TypeOK, Opened
  <2>3. resource' \in [Pid -> [Slot -> Entry]]
    BY <1>1, EntryTypes, CurrentFacts
  <2> QED BY <1>2, <2>1, <2>2, <2>3 DEF UseInv, TypeOK, SchedTypeOK
<1>4. /\ \A p \in Pid : p # current => resource'[p] = resource[p]
      /\ \A i \in Slot : i # j => resource'[current][i] = Mine[i]
  BY <1>1, CurrentFacts
<1>5. Exiting'
  BY <1>2, Places DEF UseInv, Exiting
<1>6. TerminatedHoldNothing'
  <2>1. \A p \in Pid : status[p] = "TERMINATED" => p # current
    BY CurrentFacts
  <2> QED BY <1>2, <1>4, <2>1 DEF UseInv, TerminatedHoldNothing
<1>7. \A p \in Pid, t \in Sem : Has(p, t) => Has(p, t)'
  BY <1>1, <1>4, EntryTypes DEF Has
<1>8. HoldersHave'
  BY <1>2, <1>7, CurrentFacts, PlaceFields DEF UseInv, HoldersHave
<1> QED BY <1>3, <1>5, <1>6, <1>8 DEF UseInv

LEMMA CloseUse ==
    ASSUME UseInv, NEW k \in Slot, Close(k)
    PROVE  UseInv'
<1> USE DEF Mine
<1>1. /\ pc[current] = InUser /\ Mine[k].kind = "FILE"
      /\ CloseFile(Mine[k].index)
      /\ resource' = [resource EXCEPT ![current][k] = Unused]
      /\ UNCHANGED <<status, waitingOn, current, owner, count, pc, slot, miscounted>>
  BY DEF Close, User, schedVars, semVars
<1>2. Mine[k].index \in OpenFile
  BY <1>1, CurrentFacts, EntryFields
<1>3. /\ HoldersHave' /\ TerminatedHoldNothing' /\ resource' \in [Pid -> [Slot -> Entry]]
  BY <1>1, GivenUp
<1>4. TypeOK'
  BY <1>1, <1>2, <1>3, CloseTypes DEF UseInv, TypeOK, SchedTypeOK
<1>5. Exiting'
  BY <1>1, Places DEF UseInv, Exiting
<1> QED BY <1>3, <1>4, <1>5 DEF UseInv

\* The child was terminated, so that it owned nothing its new table would not show.
LEMMA ForkUse ==
    ASSUME UseInv, Fork
    PROVE  UseInv'
<1> USE DEF Mine
<1>1. PICK c \in Pid, left \in [Slot -> Left] :
        /\ status[c] = "TERMINATED"
        /\ status' = [status EXCEPT ![c] = "CREATED"]
        /\ resource' = [resource EXCEPT ![c] = Mine]
        /\ count' = [s \in Sem |-> count[s] + Credit(left, s)]
        /\ openCount' = [openCount EXCEPT ![NumOpenFiles - 1] = @ + Credit(left, None)]
        /\ miscounted' = miscounted \cup {s \in Sem : Credit(left, s) # Copies(s)}
  BY DEF Fork, First
<1>2. /\ pc[current] = InUser
      /\ UNCHANGED <<waitingOn, current, owner, openInode, fileOpens, pc, slot>>
  BY DEF Fork, User
<1>3. c # current /\ pc[c] = InUser /\ \A k \in Slot : resource[c][k] = Unused
  BY <1>1, CurrentFacts DEF UseInv, TerminatedHoldNothing
<1>4. /\ status' \in [Pid -> State] /\ status'[current] = "RUNNING"
      /\ \A p \in Pid : status'[p] = "TERMINATED" => status[p] = "TERMINATED" /\ p # c
  BY <1>1, <1>3, CurrentFacts DEF State
<1>5. /\ resource' \in [Pid -> [Slot -> Entry]]
      /\ \A p \in Pid : p # c => resource'[p] = resource[p]
  BY <1>1, CurrentFacts
<1>6. TypeOK'
  <2>1. count' \in [Sem -> Int] /\ openCount' \in [OpenFile -> Int]
    <3>1. Credit(left, None) \in Int /\ \A s \in Sem : Credit(left, s) \in Int
      BY CreditNat
    <3>2. count \in [Sem -> Int] /\ openCount \in [OpenFile -> Int]
      BY DEF UseInv, TypeOK
    <3>3. count' \in [Sem -> Int]
      BY <1>1, <3>1, <3>2
    <3>4. openCount' \in [OpenFile -> Int]
      <4> DEFINE last == NumOpenFiles - 1
      <4>1. last \in OpenFile
        BY ResourcesAssumption DEF OpenFile
      <4>2. openCount' = [openCount EXCEPT ![last] = openCount[last] + Credit(left, None)]
        BY <1>1
      <4>3. openCount[last] + Credit(left, None) \in Int
        BY <3>1, <3>2, <4>1
      <4> HIDE DEF last
      <4> QED BY <3>2, <4>1, <4>2, <4>3
    <3> QED BY <3>3, <3>4
  <2>2. miscounted' \subseteq Sem
    BY <1>1 DEF UseInv, TypeOK
  <2> QED BY <1>2, <1>4, <1>5, <2>1, <2>2 DEF UseInv, TypeOK, SchedTypeOK
<1>7. Exiting'
  BY <1>2, <1>4, Places DEF UseInv, Exiting
<1>8. TerminatedHoldNothing'
  BY <1>2, <1>4, <1>5 DEF UseInv, TerminatedHoldNothing
<1>9. HoldersHave'
  <2>1. \A s \in Sem : ~Has(c, s)
    BY <1>3, EntryTypes DEF Has
  <2>2. \A p \in Pid, s \in Sem : Has(p, s) => Has(p, s)'
    BY <1>5, <2>1 DEF Has
  <2> QED BY <1>2, <2>2, CurrentFacts, PlaceFields DEF UseInv, HoldersHave
<1> QED BY <1>6, <1>7, <1>8, <1>9 DEF UseInv

LEMMA ExitUse ==
    ASSUME UseInv, Exit
    PROVE  UseInv'
<1> USE DEF Mine
<1>1. /\ pc[current] = InUser /\ pc' = [pc EXCEPT ![current] = InExit] /\ slot' = 0
      /\ UNCHANGED <<status, waitingOn, current, owner, count,
                     openInode, openCount, fileOpens, resource, miscounted>>
  BY DEF Exit, User, schedVars, semVars, fileVars
<1>2. /\ pc' \in [Pid -> {InUser, InExit} \cup {InLock(t) : t \in Sem}]
      /\ pc'[current] = InExit /\ \A p \in Pid : p # current => pc'[p] = pc[p]
  BY <1>1, CurrentFacts
<1>3. TypeOK'
  BY <1>1, <1>2, ResourcesAssumption DEF UseInv, TypeOK, SchedTypeOK
<1>4. Exiting'
  BY <1>1, <1>2 DEF UseInv, Exiting, Slot
<1>5. TerminatedHoldNothing' /\ HoldersHave'
  BY <1>1, <1>2, Places, CurrentFacts DEF UseInv, TerminatedHoldNothing, HoldersHave, Has
<1> QED BY <1>3, <1>4, <1>5 DEF UseInv

LEMMA GiveBackUse ==
    ASSUME UseInv, GiveBack
    PROVE  UseInv'
<1> USE DEF Mine
<1>1. /\ pc[current] = InExit /\ slot < NumSlots /\ slot \in Slot
      /\ resource' = [resource EXCEPT ![current][slot] = Unused] /\ slot' = slot + 1
      /\ UNCHANGED <<waitingOn, current, pc, miscounted>>
  BY ResourcesAssumption DEF GiveBack, UseInv, TypeOK, Slot
<1>2. /\ owner' \in [Sem -> Pid \cup {None}] /\ count' \in [Sem -> Int]
      /\ openInode' \in [OpenFile -> File \cup {None}]
      /\ openCount' \in [OpenFile -> Int] /\ fileOpens' \in [File -> Int]
      /\ Mine[slot].kind = "SEMAPHORE" => owner'[Mine[slot].index] # current
      /\ \A t \in Sem : owner'[t] \in {owner[t], None}
      /\ status' \in [Pid -> State] /\ status'[current] = "RUNNING"
      /\ \A p \in Pid : status'[p] = "TERMINATED" => status[p] = "TERMINATED"
  <2>1. CASE Mine[slot].kind = "SEMAPHORE"
    <3>1. Mine[slot].index \in Sem /\ Mine[slot] # Unused
      BY <1>1, <2>1, CurrentFacts, EntryFields
    <3>2. ReleaseSemaphore(Mine[slot].index) /\ UNCHANGED fileVars
      BY <2>1, <3>1 DEF GiveBack
    <3> QED BY <3>1, <3>2, ReleaseTypes DEF UseInv, TypeOK, fileVars
  <2>2. CASE Mine[slot].kind = "FILE"
    <3>1. Mine[slot].index \in OpenFile /\ Mine[slot] # Unused
      BY <1>1, <2>2, CurrentFacts, EntryFields
    <3>2. CloseFile(Mine[slot].index) /\ UNCHANGED <<status, semVars>>
      BY <2>2, <3>1 DEF GiveBack
    <3> QED BY <2>2, <3>1, <3>2, CloseTypes, CurrentFacts DEF UseInv, TypeOK, semVars
  <2>3. CASE Mine[slot].kind = "NONE"
    <3>1. UNCHANGED <<status, semVars, fileVars>>
      BY <2>3 DEF GiveBack
    <3> QED BY <2>3, <3>1, CurrentFacts DEF UseInv, TypeOK, semVars, fileVars
  <2> QED BY <1>1, <2>1, <2>2, <2>3, CurrentFacts, EntryFields
<1>3. /\ HoldersHave' /\ TerminatedHoldNothing' /\ resource' \in [Pid -> [Slot -> Entry]]
      /\ \A j \in Slot : resource'[current][j] = IF j = slot THEN Unused ELSE Mine[j]
  BY <1>1, <1>2, GivenUp
<1>4. TypeOK'
  <2>1. slot' \in 0 .. NumSlots
    BY <1>1, ResourcesAssumption DEF UseInv, TypeOK
  <2> QED BY <1>1, <1>2, <1>3, <2>1 DEF UseInv, TypeOK, SchedTypeOK
<1>5. Exiting'
  <2>1. \A j \in Slot : j < slot + 1 => j < slot \/ j = slot
    BY <1>1 DEF Slot
  <2> QED BY <1>1, <1>2, <1>3, <2>1 DEF UseInv, Exiting
<1> QED BY <1>3, <1>4, <1>5 DEF UseInv

\* Exit ends with an empty table, so that the terminated process owns no lock.
LEMMA TerminateUse ==
    ASSUME UseInv, Terminate
    PROVE  UseInv'
<1> USE DEF Mine
<1>1. /\ pc[current] = InExit /\ slot = NumSlots
      /\ SwitchFrom([status EXCEPT ![current] = "TERMINATED"])
      /\ pc' = [pc EXCEPT ![current] = InUser] /\ slot' = 0
      /\ UNCHANGED <<waitingOn, owner, count, openInode, openCount, fileOpens, resource,
                     miscounted>>
  BY DEF Terminate, semVars, fileVars
<1>2. \A k \in Slot : Mine[k] = Unused
  BY <1>1, ResourcesAssumption DEF UseInv, Exiting, Slot
<1>3. /\ current' \in Pid /\ status' \in [Pid -> State]
      /\ status'[current'] = "RUNNING"
      /\ \A p \in Pid : status'[p] = "TERMINATED" => status[p] = "TERMINATED" \/ p = current
  BY <1>1, SwitchKeeps DEF State
<1>4. /\ pc' \in [Pid -> {InUser, InExit} \cup {InLock(t) : t \in Sem}]
      /\ pc'[current] = InUser /\ \A p \in Pid : p # current => pc'[p] = pc[p]
      /\ \A p \in Pid : pc'[p] # InExit
  <2>1. \A p \in Pid : p # current => pc[p] # InExit
    BY DEF UseInv, Exiting
  <2> QED BY <1>1, <2>1, Places, CurrentFacts
<1>5. TypeOK'
  BY <1>1, <1>3, <1>4, ResourcesAssumption DEF UseInv, TypeOK, SchedTypeOK
<1>6. Exiting'
  BY <1>3, <1>4 DEF Exiting
<1>7. TerminatedHoldNothing'
  BY <1>1, <1>2, <1>3, <1>4 DEF UseInv, TerminatedHoldNothing
<1>8. HoldersHave'
  BY <1>1, <1>4, Places DEF UseInv, HoldersHave, Has
<1> QED BY <1>5, <1>6, <1>7, <1>8 DEF UseInv

LEMMA TimerUse ==
    ASSUME UseInv, Timer
    PROVE  UseInv'
<1>1. /\ pc[current] = InUser
      /\ SwitchFrom([status EXCEPT ![current] = "READY"])
      /\ UNCHANGED <<waitingOn, owner, count, openInode, openCount, fileOpens,
                     resource, pc, slot, miscounted>>
  BY DEF Timer, Preempt, semVars, fileVars
<1>2. /\ current' \in Pid /\ status' \in [Pid -> State]
      /\ status'[current'] = "RUNNING"
      /\ \A p \in Pid : status'[p] = "TERMINATED" => status[p] = "TERMINATED"
  BY <1>1, SwitchKeeps DEF State
<1>3. \A p \in Pid : pc[p] # InExit
  BY <1>1, Places DEF UseInv, Exiting
<1>4. TypeOK'
  BY <1>1, <1>2 DEF UseInv, TypeOK, SchedTypeOK
<1>5. Exiting' /\ TerminatedHoldNothing' /\ HoldersHave'
  BY <1>1, <1>2, <1>3 DEF UseInv, Exiting, TerminatedHoldNothing, HoldersHave, Has
<1> QED BY <1>4, <1>5 DEF UseInv

LEMMA NextUse == UseInv /\ [Next]_vars => UseInv'
<1> SUFFICES ASSUME UseInv, [Next]_vars PROVE UseInv'
  OBVIOUS
<1>1. CASE SystemCall
  BY <1>1, SemgetUse, ForkUse, ExitUse, SemLockUse, SemUnLockUse, SemreleaseUse, CloseUse,
     OpenUse DEF SystemCall
<1>2. CASE TakeLock \/ GiveBack \/ Terminate \/ Timer
  BY <1>2, TakeLockUse, GiveBackUse, TerminateUse, TimerUse
<1>3. CASE UNCHANGED vars
  BY <1>3 DEF vars, schedVars, semVars, fileVars, UseInv, TypeOK, SchedTypeOK, Exiting, Mine,
              TerminatedHoldNothing, HoldersHave, Has
<1> QED BY <1>1, <1>2, <1>3 DEF Next

(***************************************************************************)
(* A semaphore is locked, or waited for, only by a process that has it in  *)
(* its table (int_13.spl, process_manager.spl 60-103).  The invariant adds *)
(* what makes it inductive: exit has emptied the table below its loop      *)
(* counter and is not preempted, and the entry fork takes is empty.        *)
(***************************************************************************)
THEOREM OnlyUsersLock == Spec => []UsersOnly
<1>1. ASSUME HoldersHave, TypeOK PROVE UsersOnly
  <2>1. \A p \in Pid, s \in Sem : Has(p, s) => Uses(p, SemEntry(s)) # {}
    BY DEF Has, Uses
  <2> QED BY <1>1, <2>1, PlaceFields DEF HoldersHave, UsersOnly, TypeOK
<1>2. UseInv => UsersOnly
  BY <1>1 DEF UseInv
<1> QED BY <1>2, InitUse, NextUse, PTL DEF Spec

(***************************************************************************)
(* Share counts.  Programs that give semrelease no file descriptors keep   *)
(* every count equal to the number of table entries that name the          *)
(* semaphore: the sets of those entries grow and shrink with the tables.   *)
(***************************************************************************)
Refs(s) == References(SemEntry(s))

Counted == Sem \ miscounted

ShareInv == UseInv /\ SharingCounts

LEMMA RefsFinite ==
    ASSUME NEW s \in Sem
    PROVE  IsFiniteSet(Refs(s)) /\ Cardinality(Refs(s)) \in Nat
<1>1. IsFiniteSet(Pid) /\ IsFiniteSet(Slot)
  BY FS_Interval, ResourcesAssumption, NumProcsAssumption DEF Slot, Pid
<1>2. IsFiniteSet(Pid \X Slot)
  BY <1>1, FS_Product
<1>3. Refs(s) \subseteq Pid \X Slot
  BY DEF Refs, References
<1>4. IsFiniteSet(Refs(s))
  BY <1>2, <1>3, FS_Subset
<1> QED BY <1>4, FS_CardinalityType

LEMMA SameTables ==
    ASSUME UseInv, UNCHANGED <<count, resource, miscounted>>, SharingCounts
    PROVE  SharingCounts'
BY DEF SharingCounts, References

\* One entry of a table of tables becomes e: how the set of places that hold x changes.
LEMMA PlacesChange ==
    ASSUME NEW P, NEW S, NEW c \in P, NEW k \in S, NEW f, NEW g, NEW e, NEW x,
           \A p \in P, j \in S : g[p][j] = IF p = c /\ j = k THEN e ELSE f[p][j]
    PROVE  LET A == {pk \in P \X S : f[pk[1]][pk[2]] = x}
               B == {pk \in P \X S : g[pk[1]][pk[2]] = x}
           IN  /\ f[c][k] # x /\ e # x => B = A
               /\ f[c][k] # x /\ e = x => B = A \cup {<<c, k>>} /\ <<c, k>> \notin A
               /\ f[c][k] = x /\ e # x => B = A \ {<<c, k>>} /\ <<c, k>> \in A
<1> DEFINE A == {pk \in P \X S : f[pk[1]][pk[2]] = x}
           B == {pk \in P \X S : g[pk[1]][pk[2]] = x}
<1>1. \A pk \in P \X S :
        /\ pk[1] \in P /\ pk[2] \in S /\ (pk = <<c, k>> <=> pk[1] = c /\ pk[2] = k)
  OBVIOUS
<1>2. ASSUME NEW pk \in P \X S
      PROVE  g[pk[1]][pk[2]] = IF pk = <<c, k>> THEN e ELSE f[pk[1]][pk[2]]
  BY <1>1
<1>3. <<c, k>> \in P \X S /\ <<c, k>>[1] = c /\ <<c, k>>[2] = k
  OBVIOUS
<1>4. CASE f[c][k] # x /\ e # x
  BY <1>1, <1>2, <1>4
<1>5. CASE f[c][k] # x /\ e = x
  <2>1. ASSUME NEW pk \in P \X S PROVE pk \in B <=> pk \in A \/ pk = <<c, k>>
    BY <1>2, <1>5
  <2>2. <<c, k>> \notin A
    BY <1>3, <1>5
  <2> QED BY <1>3, <1>5, <2>1, <2>2
<1>6. CASE f[c][k] = x /\ e # x
  <2>1. ASSUME NEW pk \in P \X S PROVE pk \in B <=> pk \in A /\ pk # <<c, k>>
    BY <1>2, <1>6
  <2>2. <<c, k>> \in A
    BY <1>3, <1>6
  <2> QED BY <1>3, <1>6, <2>1, <2>2
<1> QED BY <1>4, <1>5, <1>6

\* An entry of the current process that becomes e: which references are new and which are gone.
LEMMA EntryChanged ==
    ASSUME UseInv, NEW k \in Slot, NEW e \in Entry,
           resource' = [resource EXCEPT ![current][k] = e], NEW s \in Sem
    PROVE  /\ Mine[k] # SemEntry(s) /\ e # SemEntry(s) => Refs(s)' = Refs(s)
           /\ Mine[k] # SemEntry(s) /\ e = SemEntry(s) =>
                Refs(s)' = Refs(s) \cup {<<current, k>>} /\ <<current, k>> \notin Refs(s)
           /\ Mine[k] = SemEntry(s) /\ e # SemEntry(s) =>
                Refs(s)' = Refs(s) \ {<<current, k>>} /\ <<current, k>> \in Refs(s)
<1>1. \A p \in Pid, j \in Slot :
        resource'[p][j] = IF p = current /\ j = k THEN e ELSE resource[p][j]
  BY CurrentFacts
<1>2. current \in Pid /\ Mine = resource[current]
  BY CurrentFacts DEF Mine
<1>3. Refs(s) = {pk \in Pid \X Slot : resource[pk[1]][pk[2]] = SemEntry(s)}
  BY DEF Refs, References
<1>4. Refs(s)' = {pk \in Pid \X Slot : resource'[pk[1]][pk[2]] = SemEntry(s)}
  BY DEF Refs, References, SemEntry
<1> QED BY <1>1, <1>2, <1>3, <1>4, PlacesChange

\* A descriptor given up: one reference less to its semaphore, and the others keep theirs.
LEMMA GivenUpCount ==
    ASSUME ShareInv, NEW k \in Slot,
           resource' = [resource EXCEPT ![current][k] = Unused],
           IF Mine[k].kind = "SEMAPHORE"
           THEN count' = [count EXCEPT ![Mine[k].index] = @ - 1] ELSE count' = count,
           miscounted' = miscounted
    PROVE  SharingCounts'
<1>1. /\ UseInv /\ count \in [Sem -> Int] /\ Counted \subseteq Sem
      /\ \A s \in Counted : count[s] = Cardinality(Refs(s))
  BY DEF ShareInv, UseInv, TypeOK, SharingCounts, Refs, Counted
<1>2. Mine[k] \in Entry
  BY <1>1, CurrentFacts DEF Mine
<1>3. ASSUME NEW s \in Counted
      PROVE  count'[s] = Cardinality(Refs(s)')
  <2>1. CASE Mine[k] = SemEntry(s)
    <3>1. Mine[k].kind = "SEMAPHORE" /\ Mine[k].index = s
      BY <2>1 DEF SemEntry
    <3>2. count'[s] = count[s] - 1
      BY <1>1, <3>1
    <3>3. Refs(s)' = Refs(s) \ {<<current, k>>} /\ <<current, k>> \in Refs(s)
      BY <1>1, <2>1, EntryTypes, EntryChanged
    <3> QED BY <1>1, <3>2, <3>3, RefsFinite, FS_RemoveElement
  <2>2. CASE Mine[k] # SemEntry(s)
    <3>1. Mine[k].kind = "SEMAPHORE" => Mine[k].index # s
      BY <1>2, <2>2, EntryFields
    <3>2. count'[s] = count[s]
      BY <1>1, <3>1
    <3>3. Refs(s)' = Refs(s)
      BY <1>1, <2>2, EntryTypes, EntryChanged
    <3> QED BY <1>1, <3>2, <3>3
  <2> QED BY <2>1, <2>2
<1> QED BY <1>3 DEF SharingCounts, Refs, Counted

LEMMA SemgetCount ==
    ASSUME ShareInv, Semget
    PROVE  SharingCounts'
<1>1. /\ UseInv /\ count \in [Sem -> Int] /\ Counted \subseteq Sem
      /\ \A s \in Counted : count[s] = Cardinality(Refs(s))
  BY DEF ShareInv, UseInv, TypeOK, SharingCounts, Refs, Counted
<1>2. PICK k \in Slot, s \in Sem :
        /\ Mine[k] = Unused /\ count[s] = 0
        /\ count' = [count EXCEPT ![s] = 1]
        /\ resource' = [resource EXCEPT ![current][k] = SemEntry(s)]
  BY DEF Semget, FreeSlot, First
<1>3. ASSUME NEW t \in Counted
      PROVE  count'[t] = Cardinality(Refs(t)')
  <2>1. CASE t = s
    <3>1. Refs(s)' = Refs(s) \cup {<<current, k>>} /\ <<current, k>> \notin Refs(s)
      BY <1>1, <1>2, EntryTypes, EntryChanged
    <3>2. Cardinality(Refs(s)') = Cardinality(Refs(s)) + 1
      BY <3>1, RefsFinite, FS_AddElement
    <3>3. Cardinality(Refs(s)) = 0 /\ count'[s] = 1
      BY <1>1, <1>2, <2>1
    <3> QED BY <2>1, <3>2, <3>3
  <2>2. CASE t # s
    <3>1. SemEntry(t) # SemEntry(s) /\ count'[t] = count[t]
      BY <1>1, <1>2, <2>2 DEF SemEntry
    <3>2. Refs(t)' = Refs(t)
      BY <1>1, <1>2, <3>1, EntryTypes, EntryChanged
    <3> QED BY <1>1, <3>1, <3>2
  <2> QED BY <2>1, <2>2
<1>4. miscounted' = miscounted
  BY DEF Semget
<1> QED BY <1>3, <1>4 DEF SharingCounts, Refs, Counted

LEMMA OpenCountKept ==
    ASSUME ShareInv, NEW f \in File, Open(f)
    PROVE  SharingCounts'
<1>1. UseInv /\ \A s \in Counted : count[s] = Cardinality(Refs(s))
  BY DEF ShareInv, SharingCounts, Refs, Counted
<1>2. PICK k \in Slot, o \in OpenFile :
        Mine[k] = Unused /\ resource' = [resource EXCEPT ![current][k] = FileEntry(o)]
  BY DEF Open, FreeSlot, First
<1>3. count' = count /\ miscounted' = miscounted
  BY DEF Open, semVars
<1>4. \A s \in Sem : SemEntry(s) # FileEntry(o)
  BY DEF SemEntry, FileEntry
<1>5. \A s \in Sem : Refs(s)' = Refs(s)
  BY <1>1, <1>2, <1>4, EntryTypes, EntryChanged
<1> QED BY <1>1, <1>3, <1>5 DEF SharingCounts, Refs, Counted

\* The child's table is a copy: as many new references as the current process has, and
\* as many counted, of a semaphore this fork does not count wrong.
LEMMA ForkCount ==
    ASSUME ShareInv, Fork
    PROVE  SharingCounts'
<1>1. UseInv /\ \A s \in Counted : count[s] = Cardinality(Refs(s))
  BY DEF ShareInv, SharingCounts, Refs, Counted
<1>2. PICK c \in Pid, left \in [Slot -> Left] :
        /\ status[c] = "TERMINATED" /\ resource' = [resource EXCEPT ![c] = Mine]
        /\ count' = [s \in Sem |-> count[s] + Credit(left, s)]
        /\ miscounted' = miscounted \cup {s \in Sem : Credit(left, s) # Copies(s)}
  BY DEF Fork, First
<1>3. \A s \in Counted' : s \in Counted /\ s \in Sem /\ count'[s] = count[s] + Copies(s)
  BY <1>2 DEF Counted
<1>4. \A j \in Slot : resource[c][j] = Unused
  BY <1>1, <1>2 DEF UseInv, TerminatedHoldNothing
<1>5. ASSUME NEW s \in Counted'
      PROVE  count'[s] = Cardinality(Refs(s)')
  <2>0. s \in Sem /\ s \in Counted
    BY <1>3
  <2> DEFINE K == {j \in Slot : Mine[j] = SemEntry(s)}
  <2>1. \A p \in Pid, j \in Slot : /\ <<p, j>> \in Refs(s) <=> resource[p][j] = SemEntry(s)
                                   /\ <<p, j>> \in Refs(s)' <=> resource'[p][j] = SemEntry(s)
    BY DEF Refs, References
  <2>2. \A p \in Pid, j \in Slot :
          <<p, j>> \in Refs(s)' <=> <<p, j>> \in Refs(s) \/ <<p, j>> \in {c} \X K
    <3>1. \A j \in Slot : <<c, j>> \notin Refs(s)
      BY <1>4, <2>0, <2>1, EntryTypes
    <3>2. resource'[c] = Mine /\ \A p \in Pid : p # c => resource'[p] = resource[p]
      BY <1>1, <1>2, CurrentFacts
    <3> QED BY <2>1, <3>1, <3>2
  <2>3. Refs(s) \subseteq Pid \X Slot /\ Refs(s)' \subseteq Pid \X Slot
    BY DEF Refs, References
  <2>4. Refs(s)' = Refs(s) \cup ({c} \X K)
    BY <2>2, <2>3
  <2>5. Refs(s) \cap ({c} \X K) = {}
    BY <1>4, <2>0, <2>1, EntryTypes
  <2>6. IsFiniteSet(K) /\ Cardinality(K) = Copies(s) /\ Copies(s) \in Nat
    BY SlotsFinite DEF Copies
  <2>7. IsFiniteSet({c}) /\ Cardinality({c}) = 1
    BY FS_Singleton
  <2>8. IsFiniteSet({c} \X K) /\ Cardinality({c} \X K) = Copies(s)
    <3>1. /\ IsFiniteSet({c} \X K)
          /\ Cardinality({c} \X K) = Cardinality({c}) * Cardinality(K)
      BY <2>6, <2>7, FS_Product
    <3> QED BY <2>6, <2>7, <3>1
  <2>9. Cardinality({}) = 0
    BY FS_EmptySet
  <2> HIDE DEF K
  <2>10. Cardinality(Refs(s) \cup ({c} \X K)) = Cardinality(Refs(s)) + Copies(s) - 0
    <3>1. Cardinality(Refs(s) \cup ({c} \X K)) =
            Cardinality(Refs(s)) + Cardinality({c} \X K) - Cardinality(Refs(s) \cap ({c} \X K))
      BY <2>0, <2>8, RefsFinite, FS_Union
    <3> QED BY <2>5, <2>8, <2>9, <3>1
  <2> QED BY <1>1, <1>3, <2>0, <2>4, <2>6, <2>10, RefsFinite
<1> QED BY <1>5 DEF SharingCounts, Refs, Counted

LEMMA InitShare == Init => ShareInv
<1> SUFFICES ASSUME Init PROVE SharingCounts
  BY InitUse DEF ShareInv
<1>1. \A s \in Sem : References(SemEntry(s)) = {}
  BY EntryTypes DEF Init, References
<1> QED BY <1>1, FS_EmptySet DEF Init, SharingCounts

LEMMA NextShare ==
    ASSUME "FILE" \notin Releasable, ShareInv, [Next]_vars
    PROVE  ShareInv'
<1>1. UseInv /\ SharingCounts
  BY DEF ShareInv
<1>2. ASSUME Semget \/ Fork PROVE SharingCounts'
  BY <1>2, SemgetCount, ForkCount
<1>9. ASSUME NEW f \in File, Open(f) PROVE SharingCounts'
  BY <1>9, OpenCountKept
<1>3. ASSUME NEW k \in Slot, Semrelease(k) PROVE SharingCounts'
  <2>1. resource' = [resource EXCEPT ![current][k] = Unused] /\ miscounted' = miscounted
    BY <1>3 DEF Semrelease
  <2>2. CASE Mine[k] # Unused /\ ReleaseSemaphore(Mine[k].index)
    <3>1. Mine[k] \in Entry
      BY <1>1, CurrentFacts DEF Mine
    <3>2. Mine[k].kind = "SEMAPHORE"
      BY <1>3, <2>2, <3>1, EntryFields DEF Semrelease
    <3> QED BY <2>1, <2>2, <3>2, GivenUpCount DEF ReleaseSemaphore
  <2>3. CASE Mine[k] = Unused /\ UNCHANGED semVars
    <3>1. Mine[k].kind # "SEMAPHORE" /\ count' = count
      BY <2>3 DEF Unused, semVars
    <3> QED BY <2>1, <3>1, GivenUpCount
  <2> QED BY <1>3, <2>2, <2>3 DEF Semrelease
<1>4. ASSUME NEW k \in Slot, Close(k) PROVE SharingCounts'
  BY <1>4, GivenUpCount DEF Close, semVars
<1>5. ASSUME GiveBack PROVE SharingCounts'
  <2>1. /\ slot \in Slot /\ resource' = [resource EXCEPT ![current][slot] = Unused]
        /\ miscounted' = miscounted
    BY <1>1, <1>5, ResourcesAssumption DEF GiveBack, UseInv, TypeOK, Slot
  <2>2. Mine[slot].kind = "SEMAPHORE" => ReleaseSemaphore(Mine[slot].index)
    BY <1>5 DEF GiveBack, Unused
  <2>3. Mine[slot].kind # "SEMAPHORE" => count' = count
    BY <1>5 DEF GiveBack, Unused, semVars
  <2>4. Mine[slot].kind = "SEMAPHORE" =>
          count' = [count EXCEPT ![Mine[slot].index] = @ - 1]
    BY <2>2 DEF ReleaseSemaphore
  <2> QED BY <2>1, <2>3, <2>4, GivenUpCount
<1>6. ASSUME NEW k \in Slot, SemLock(k) \/ SemUnLock(k) PROVE SharingCounts'
  BY <1>1, <1>6, SameTables DEF SemLock, SemUnLock, semVars
<1>7. ASSUME Exit \/ TakeLock \/ Terminate \/ Timer \/ UNCHANGED vars
      PROVE  SharingCounts'
  <2>1. UNCHANGED <<count, resource, miscounted>>
    <3>1. Exit \/ TakeLock \/ Terminate \/ Timer => UNCHANGED <<count, resource, miscounted>>
      BY DEF Exit, TakeLock, Terminate, Timer, semVars
    <3>2. UNCHANGED vars => UNCHANGED <<count, resource, miscounted>>
      BY DEF vars, semVars
    <3> QED BY <1>7, <3>1, <3>2
  <2> QED BY <1>1, <2>1, SameTables
<1>8. SharingCounts'
  <2>1. CASE SystemCall
    BY <2>1, <1>2, <1>3, <1>4, <1>6, <1>7, <1>9 DEF SystemCall
  <2> QED BY <2>1, <1>5, <1>7 DEF Next
<1> QED BY <1>1, <1>8, NextUse DEF ShareInv

(***************************************************************************)
(* The count of a semaphore that no fork has miscounted is the number of   *)
(* table entries that name it, through every release and exit (boot.spl    *)
(* 139) and whatever the pages of children hold (int_8.spl 71), as long as *)
(* no program gives semrelease the descriptor of a file.                   *)
(***************************************************************************)
THEOREM CountsAreShared ==
    ASSUME "FILE" \notin Releasable
    PROVE  Spec => []SharingCounts
<1>2. ShareInv /\ [Next]_vars => ShareInv'
  BY NextShare
<1>3. ShareInv => SharingCounts
  BY DEF ShareInv
<1> QED BY <1>2, <1>3, InitShare, PTL DEF Spec

(***************************************************************************)
(* The lock of a semaphore that no fork has miscounted is given up by its  *)
(* owner and by nobody else: semget clears the owner field of what it      *)
(* hands out, which by the counts nobody shares and so, by OnlyUsersLock,  *)
(* nobody owns (resource_manager.spl 99-138).                              *)
(***************************************************************************)
THEOREM OwnersUnlock ==
    ASSUME "FILE" \notin Releasable
    PROVE  Spec => OnlyOwnerUnlocks
<1>1. ASSUME ShareInv, Next, NEW s \in Sem \ miscounted, owner[s] # None, owner'[s] # owner[s]
      PROVE  owner[s] = current
  <2>1. UseInv /\ owner \in [Sem -> Pid \cup {None}]
    BY <1>1, CurrentFacts DEF ShareInv
  <2>2. CASE Semget
    <3>1. PICK t \in Sem : count[t] = 0 /\ owner' = [owner EXCEPT ![t] = None]
      BY <2>2 DEF Semget, First
    <3>2. t = s
      BY <1>1, <2>1, <3>1
    <3>3. Refs(s) = {}
      <4>1. Cardinality(Refs(s)) = 0
        BY <1>1, <3>1, <3>2 DEF ShareInv, SharingCounts, Refs
      <4> QED BY <4>1, RefsFinite, FS_EmptySet
    <3>4. \A p \in Pid : ~Has(p, s)
      <4> SUFFICES ASSUME NEW p \in Pid, NEW k \in Slot, resource[p][k] = SemEntry(s)
                   PROVE  FALSE
        BY DEF Has
      <4>1. <<p, k>> \in Refs(s)
        BY DEF Refs, References
      <4> QED BY <3>3, <4>1
    <3> QED BY <1>1, <2>1, <3>4 DEF UseInv, HoldersHave
  <2>3. ASSUME NEW k \in Slot, Semrelease(k) PROVE owner[s] = current
    BY <1>1, <2>1, <2>3 DEF Semrelease, ReleaseSemaphore, semVars
  <2>4. ASSUME NEW k \in Slot, SemUnLock(k) PROVE owner[s] = current
    BY <1>1, <2>1, <2>4 DEF SemUnLock, Unlockable
  <2>5. CASE TakeLock
    BY <1>1, <2>1, <2>5 DEF TakeLock, semVars
  <2>6. CASE GiveBack
    BY <1>1, <2>1, <2>6 DEF GiveBack, ReleaseSemaphore, semVars
  <2>7. ASSUME owner' = owner PROVE owner[s] = current
    BY <1>1, <2>7
  <2>8. CASE Fork \/ Exit \/ Terminate \/ Timer
    BY <2>7, <2>8 DEF Fork, Exit, Terminate, Timer, semVars
  <2>9. ASSUME NEW k \in Slot, SemLock(k) \/ Close(k) PROVE owner[s] = current
    BY <2>7, <2>9 DEF SemLock, Close, semVars
  <2>10. ASSUME NEW f \in File, Open(f) PROVE owner[s] = current
    BY <2>7, <2>10 DEF Open, semVars
  <2> QED BY <1>1, <2>2, <2>3, <2>4, <2>5, <2>6, <2>8, <2>9, <2>10 DEF Next, SystemCall
<1>2. ShareInv /\ [Next]_vars =>
        [\A s \in Sem \ miscounted :
            owner[s] # None /\ owner'[s] # owner[s] => owner[s] = current]_vars
  BY <1>1
<1>4. ShareInv /\ [Next]_vars => ShareInv'
  BY NextShare
<1> QED BY <1>2, <1>4, InitShare, PTL DEF Spec, OnlyOwnerUnlocks

-----------------------------------------------------------------------------
(* How often a file is open. *)

Opens(f) == {k \in OpenFile : openInode[k] = f}

\* What the file status table says of a file that n entries name.
Recorded(n) == IF n = 0 THEN None ELSE n

CountedOpens == \A f \in File \ {InodeRoot} : fileOpens[f] = Recorded(Cardinality(Opens(f)))

LEMMA OpensFinite ==
    ASSUME NEW f
    PROVE  IsFiniteSet(Opens(f)) /\ Cardinality(Opens(f)) \in Nat
<1>1. IsFiniteSet(OpenFile)
  BY FS_Interval, ResourcesAssumption DEF OpenFile
<1>2. IsFiniteSet(Opens(f))
  BY <1>1, FS_Subset DEF Opens
<1> QED BY <1>2, FS_CardinalityType

LEMMA SameOpens ==
    ASSUME CountedOpens, UNCHANGED <<openInode, fileOpens>>
    PROVE  CountedOpens'
BY DEF CountedOpens, Opens

LEMMA OpenCounted ==
    ASSUME UseInv, CountedOpens, NEW f \in File, Open(f)
    PROVE  CountedOpens'
<1>1. /\ openInode \in [OpenFile -> File \cup {None}] /\ fileOpens \in [File -> Int]
      /\ None \notin File
  BY ResourcesAssumption DEF UseInv, TypeOK, None
<1>2. PICK k \in OpenFile : openInode[k] = None /\ openInode' = [openInode EXCEPT ![k] = f]
  BY DEF Open, First
<1>3. fileOpens' = IF f = InodeRoot THEN fileOpens ELSE [fileOpens EXCEPT ![f] = Opened(@)]
  BY DEF Open
<1>4. ASSUME NEW g \in File \ {InodeRoot}
      PROVE  fileOpens'[g] = Recorded(Cardinality(Opens(g)'))
  <2>1. fileOpens[g] = Recorded(Cardinality(Opens(g)))
    BY DEF CountedOpens
  <2>2. CASE g # f
    <3>1. Opens(g)' = Opens(g)
      BY <1>1, <1>2, <2>2 DEF Opens
    <3>2. fileOpens'[g] = fileOpens[g]
      BY <1>1, <1>3, <2>2
    <3> QED BY <2>1, <3>1, <3>2
  <2>3. CASE g = f
    <3>1. Opens(g)' = Opens(g) \cup {k} /\ k \notin Opens(g)
      BY <1>1, <1>2, <2>3 DEF Opens
    <3>2. Cardinality(Opens(g)') = Cardinality(Opens(g)) + 1
      BY <3>1, OpensFinite, FS_AddElement
    <3>3. fileOpens'[g] = Opened(fileOpens[g])
      BY <1>1, <1>3, <2>3
    <3> QED BY <2>1, <3>2, <3>3, OpensFinite DEF Opened, Recorded, None
  <2> QED BY <2>2, <2>3
<1> QED BY <1>4 DEF CountedOpens

LEMMA CloseCounted ==
    ASSUME UseInv, CountedOpens, NEW k \in OpenFile, CloseFile(k)
    PROVE  CountedOpens'
<1>1. /\ openInode \in [OpenFile -> File \cup {None}] /\ fileOpens \in [File -> Int]
      /\ None \notin File
  BY ResourcesAssumption DEF UseInv, TypeOK, None
<1>2. CASE openCount[k] # 1
  BY <1>2, SameOpens DEF CloseFile
<1>3. CASE openCount[k] = 1
  <2>1. /\ openInode' = [openInode EXCEPT ![k] = None]
        /\ fileOpens' = IF openInode[k] \in File \ {InodeRoot}
                        THEN [fileOpens EXCEPT ![openInode[k]] = Closed(@)] ELSE fileOpens
    BY <1>3 DEF CloseFile
  <2>2. ASSUME NEW g \in File \ {InodeRoot}
        PROVE  fileOpens'[g] = Recorded(Cardinality(Opens(g)'))
    <3>1. fileOpens[g] = Recorded(Cardinality(Opens(g)))
      BY DEF CountedOpens
    <3>2. CASE openInode[k] # g
      <4>1. Opens(g)' = Opens(g)
        BY <1>1, <2>1, <3>2 DEF Opens
      <4>2. fileOpens'[g] = fileOpens[g]
        BY <1>1, <2>1, <3>2
      <4> QED BY <3>1, <4>1, <4>2
    <3>3. CASE openInode[k] = g
      <4>1. Opens(g)' = Opens(g) \ {k} /\ k \in Opens(g)
        BY <1>1, <2>1, <3>3 DEF Opens
      <4>2. Cardinality(Opens(g)') = Cardinality(Opens(g)) - 1 /\ Cardinality(Opens(g)') \in Nat
        <5>1. IsFiniteSet(Opens(g) \ {k})
          BY OpensFinite, FS_RemoveElement
        <5> QED BY <4>1, <5>1, OpensFinite, FS_RemoveElement, FS_CardinalityType
      <4>3. fileOpens'[g] = Closed(fileOpens[g])
        BY <1>1, <2>1, <3>3
      <4> QED BY <3>1, <4>2, <4>3, OpensFinite DEF Closed, Recorded, None
    <3> QED BY <3>2, <3>3
  <2> QED BY <2>2 DEF CountedOpens
<1> QED BY <1>2, <1>3

LEMMA NextCounted ==
    ASSUME "NONE" \notin Releasable \/ File \cap Pid \subseteq {InodeRoot},
           UseInv, CountedOpens, [Next]_vars
    PROVE  CountedOpens'
<1>1. ASSUME NEW k \in Slot PROVE Mine[k] \in Entry
  BY CurrentFacts DEF Mine
<1>2. ASSUME UNCHANGED fileVars PROVE CountedOpens'
  BY <1>2, SameOpens DEF fileVars
<1>3. ASSUME NEW k \in Slot, Close(k) PROVE CountedOpens'
  BY <1>1, <1>3, EntryFields, CloseCounted DEF Close
<1>4. ASSUME GiveBack PROVE CountedOpens'
  <2>1. slot \in Slot
    BY <1>4, ResourcesAssumption DEF GiveBack, UseInv, TypeOK, Slot
  <2>2. CASE Mine[slot].kind = "FILE" /\ CloseFile(Mine[slot].index)
    BY <1>1, <2>1, <2>2, EntryFields, CloseCounted
  <2> QED BY <1>2, <1>4, <2>2 DEF GiveBack
<1>5. ASSUME NEW k \in Slot, Semrelease(k) PROVE CountedOpens'
  <2>1. CASE Mine[k] = Unused /\ ReleaseStray
    <3>1. UNCHANGED fileOpens
      BY <1>5, <2>1 DEF Semrelease, fileVars
    <3>2. CASE openInode' = openInode
      BY <3>1, <3>2, SameOpens
    <3>3. CASE openInode' # openInode
      <4> DEFINE last == NumOpenFiles - 1
      <4>1. /\ openInode[last] = current /\ openInode' = [openInode EXCEPT ![last] = None]
            /\ last \in OpenFile /\ openInode \in [OpenFile -> File \cup {None}]
        BY <2>1, <3>3, ResourcesAssumption DEF ReleaseStray, OpenFile, UseInv, TypeOK
      <4>2. current \in Pid /\ current # InodeRoot /\ current # None
        BY <1>5, CurrentFacts DEF Semrelease, User, Idle, InodeRoot, Pid, None
      <4>3. current \in File /\ "NONE" \in Releasable
        BY <1>5, <2>1, <4>1, <4>2 DEF Semrelease, Unused
      <4> QED BY <4>2, <4>3
    <3> QED BY <3>2, <3>3
  <2>2. CASE UNCHANGED fileVars
    BY <1>2, <2>2
  <2> QED BY <1>5, <2>1, <2>2 DEF Semrelease
<1>6. ASSUME NEW f \in File, Open(f) PROVE CountedOpens'
  BY <1>6, OpenCounted
<1>7. ASSUME NEW k \in Slot, SemLock(k) \/ SemUnLock(k) PROVE CountedOpens'
  BY <1>2, <1>7 DEF SemLock, SemUnLock
<1>8. CASE Semget \/ Exit \/ TakeLock \/ Terminate \/ Timer
  BY <1>2, <1>8 DEF Semget, Exit, TakeLock, Terminate, Timer
<1>10. CASE Fork
  BY <1>10, SameOpens DEF Fork
<1>9. CASE UNCHANGED vars
  BY <1>2, <1>9 DEF vars
<1> QED BY <1>3, <1>4, <1>5, <1>6, <1>7, <1>8, <1>9, <1>10 DEF Next, SystemCall

(***************************************************************************)
(* The file status table counts the entries that are open on a file, so    *)
(* that delete finds it closed only when none is (file_manager.spl 109-212)*)
(* - unless a program releases the semaphore it does not have: entry -1 of *)
(* the semaphore table is the last open file, and it is taken for locked   *)
(* by the process whose number is the file's inode.                        *)
(***************************************************************************)
THEOREM OpensAreCounted ==
    ASSUME "NONE" \notin Releasable \/ File \cap Pid \subseteq {InodeRoot}
    PROVE  Spec => []FileOpenCounts
<1>1. Init => CountedOpens
  <2> SUFFICES ASSUME Init, NEW f \in File \ {InodeRoot}
               PROVE  fileOpens[f] = Recorded(Cardinality(Opens(f)))
    BY DEF CountedOpens
  <2>1. Opens(f) = {}
    BY ResourcesAssumption DEF Init, Opens, None
  <2> QED BY <2>1, FS_EmptySet DEF Init, Recorded
<1>2. UseInv /\ CountedOpens /\ [Next]_vars => UseInv' /\ CountedOpens'
  BY NextUse, NextCounted
<1>3. CountedOpens => FileOpenCounts
  BY DEF CountedOpens, Opens, Recorded, FileOpenCounts
<1> QED BY <1>1, <1>2, <1>3, InitUse, PTL DEF Spec
================================================================================
