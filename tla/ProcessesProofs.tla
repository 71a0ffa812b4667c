---------------------------- MODULE ProcessesProofs ----------------------------
(***************************************************************************)
(* The counts of pages, who sleeps for memory or for another process, and  *)
(* what pages hold, for every number of processes, pages and programs and  *)
(* every layout of the address space.                                      *)
(***************************************************************************)
EXTENDS Processes, FiniteSetTheorems, TLAPS

(* What a call of the scheduler does to the process table. *)
LEMMA SwitchEffect ==
    ASSUME NEW st \in [Pid -> State], SwitchFrom(st)
    PROVE  /\ current' \in Pid /\ Runnable(st[current'])
           /\ status' = [st EXCEPT ![current'] = "RUNNING"]
           /\ status' \in [Pid -> State]
BY DEF SwitchFrom, NextInTurn, State

(* Waking leaves every process ready or as it was. *)
LEMMA WakeEffect ==
    ASSUME NEW st \in [Pid -> State], NEW why \in Sleeping, NEW id
    PROVE  /\ Wake(st, why, id) \in [Pid -> State]
           /\ WakeAll(st, why) \in [Pid -> State]
BY DEF Wake, WakeAll, State

(* The table that boot leaves has one running process. *)
LEMMA BootEffect ==
    ASSUME BootProcessTable
    PROVE  SchedTypeOK /\ OneRunning
BY NumProcsAssumption
   DEF SchedTypeOK, OneRunning, BootProcessTable, State, Sleeping, Pid, Idle, Root

\* No two pages of one program are in the same block.
Injective(m) == \A k, j \in Code : m[k] = m[j] /\ m[k] # None => k = j

\* Init's pages are there; a program has its first page in a block of the disk.
Parameters ==
    /\ HeapSize \in Nat /\ HeapSize >= 1 /\ CodeSize \in Nat /\ CodeSize >= 2
    /\ StackSize \in Nat /\ StackSize >= 1
    /\ NumPages \in Nat /\ NumPages > HeapSize + CodeSize + StackSize
    /\ \A prog \in Programs :
          /\ prog \in [Code -> Int] /\ Injective(prog) /\ prog[FirstCode] # None

Call == {NoCall} \cup [op : {"heap"}] \cup [op : {"fork"}, child : Pid]
        \cup [op : {"code"}, block : Int, part : Code]
        \cup [op : {"exec"}, prog : Programs, child : Pid, block : Int, part : Code]

-----------------------------------------------------------------------------
(* The tables of memory. *)
MemTypes ==
    /\ users \in [Page -> Nat] /\ free \in Nat
    /\ frame \in [Pid -> [Logical -> Page \cup {None}]]
    /\ diskMap \in [Pid -> [Code -> Int]]

Counted == (\A g \in Page : users[g] = Cardinality(Owners(g))) /\ FreeCounted

\* A page is shared as heap, in the same place, or as the code of one block.
PagesApart ==
    \A p, q \in Pid, l, m \in Logical :
        frame[p][l] = frame[q][m] /\ frame[p][l] # None =>
            \/ l = m /\ (p = q \/ l \in Heap)
            \/ l \in Code /\ m \in Code /\ diskMap[p][l] = diskMap[q][m]

MapsOK == \A p \in Pid : /\ Injective(diskMap[p])
                         /\ \A k \in Code : frame[p][k] # None => diskMap[p][k] # None

MemoryOK == MemTypes /\ Counted /\ PagesApart /\ MapsOK

(* The processes. *)
ProcTypes ==
    /\ SchedTypeOK /\ OneRunning
    /\ ppid \in [Pid -> Pid \cup {None}]
    /\ stage \in [Pid -> {"user", "heap", "area", "stack", "copy", "code", "page", "loaded"}]
    /\ call \in [Pid -> Call]

\* What a process in the middle of a call finds as it left it.
Working(p) ==
    /\ stage[p] = "user" => call[p].op = "none"
    /\ stage[p] = "heap" => call[p].op \in {"fork", "heap"}
    /\ stage[p] \in {"area", "copy"} => call[p].op = "fork"
    /\ stage[p] = "stack" => call[p].op \in {"fork", "exec"}
    /\ stage[p] \in {"code", "page", "loaded"} => call[p].op \in {"code", "exec"}
    /\ call[p].op = "fork" =>
         /\ status[call[p].child] = "ALLOCATED"
         /\ stage[p] \in {"heap", "area"} => frame[call[p].child] = NoPages
    /\ call[p].op = "code" =>
         /\ frame[p][call[p].part] = None /\ call[p].block # None
         /\ diskMap[p][call[p].part] = call[p].block
    /\ call[p].op = "exec" =>
         /\ call[p].child = p /\ call[p].part = FirstCode
         /\ call[p].block = call[p].prog[FirstCode]
         /\ \A k \in Code : frame[p][k] = None

\* Entries that are free or being made run nothing, and a free one has nothing.
EntriesOK ==
    /\ stage[Idle] = "user"
    /\ \A p \in Pid : /\ status[p] \in {"TERMINATED", "ALLOCATED"} => stage[p] = "user"
                      /\ status[p] = "TERMINATED" => frame[p] = NoPages
                      /\ frame[p][Loading] # None <=> stage[p] = "loaded"

ChildrenApart ==
    \A p, q \in Pid : call[p].op = "fork" /\ call[q].op = "fork"
                        /\ call[p].child = call[q].child => p = q

\* Who waits for a process waits for one that lives, and knows its number.
Waiters ==
    /\ WaitedForLives
    /\ \A p \in Pid : status[p] = "WAIT_PROCESS" => waitingOn[p] \in Pid

ProcsOK == /\ ProcTypes /\ EntriesOK /\ ChildrenApart /\ Waiters /\ NoIdleMemory
           /\ \A p \in Pid : Working(p)

ProcessesInv == MemoryOK /\ ProcsOK
-----------------------------------------------------------------------------
LEMMA Layout ==
    ASSUME Parameters
    PROVE  /\ Logical = 0 .. 1 + HeapSize + CodeSize + StackSize
           /\ Loading \in Logical /\ Area \in Logical /\ Loading # Area
           /\ Heap \subseteq Logical /\ Code \subseteq Logical /\ Stack \subseteq Logical
           /\ Loading \notin Heap \cup Code \cup Stack /\ Area \notin Heap \cup Code \cup Stack
           /\ Heap \cap Code = {} /\ Heap \cap Stack = {} /\ Code \cap Stack = {}
           /\ FirstCode \in Code /\ FirstCode + 1 \in Code
           /\ None \notin Page /\ None \notin Pid /\ Page \subseteq Nat
           /\ Idle \in Pid /\ Root \in Pid /\ Idle # Root
BY NumProcsAssumption
   DEF Parameters, Logical, Loading, Area, Heap, Code, Stack, FirstCode, None, Page, Pid, Idle, Root

LEMMA CallTypes ==
    /\ NoCall \in Call /\ NoCall.op = "none"
    /\ [op |-> "heap"] \in Call
    /\ \A c \in Pid : [op |-> "fork", child |-> c] \in Call
    /\ \A b \in Int, k \in Code : [op |-> "code", block |-> b, part |-> k] \in Call
    /\ \A prog \in Programs, c \in Pid, b \in Int, k \in Code :
         [op |-> "exec", prog |-> prog, child |-> c, block |-> b, part |-> k] \in Call
BY DEF Call, NoCall

LEMMA CallFields ==
    ASSUME NEW c \in Call
    PROVE  /\ c.op \in {"fork", "exec"} => c.child \in Pid
           /\ c.op \in {"code", "exec"} => c.block \in Int /\ c.part \in Code
           /\ c.op = "exec" => c.prog \in Programs
BY DEF Call, NoCall

LEMMA FinitePages ==
    ASSUME Parameters
    PROVE  /\ IsFiniteSet(Page) /\ IsFiniteSet(Pid \X Logical)
           /\ \A S \in SUBSET Page : IsFiniteSet(S) /\ Cardinality(S) \in Nat
           /\ \A S \in SUBSET (Pid \X Logical) : IsFiniteSet(S) /\ Cardinality(S) \in Nat
<1>1. IsFiniteSet(Page)
  BY FS_Interval DEF Parameters, Page
<1>2. IsFiniteSet(Pid)
  BY FS_Interval, NumProcsAssumption DEF Pid
<1>3. IsFiniteSet(Logical)
  <2>1. Logical = 0 .. 1 + HeapSize + CodeSize + StackSize
    BY Layout
  <2>2. 1 + HeapSize + CodeSize + StackSize \in Int
    BY DEF Parameters
  <2> QED BY <2>1, <2>2, FS_Interval
<1>4. IsFiniteSet(Pid \X Logical)
  BY <1>2, <1>3, FS_Product
<1> QED BY <1>1, <1>4, FS_Subset, FS_CardinalityType

\* A page has users as long as it is in somebody's tables.
LEMMA OwnersCount ==
    ASSUME Parameters, MemoryOK, NEW g \in Page
    PROVE  /\ Owners(g) \in SUBSET (Pid \X Logical)
           /\ IsFiniteSet(Owners(g))
           /\ users[g] \in Nat /\ users[g] = Cardinality(Owners(g))
           /\ users[g] = 0 <=> Owners(g) = {}
           /\ \A p \in Pid, l \in Logical : frame[p][l] = g => users[g] >= 1
<1>1. Owners(g) \in SUBSET (Pid \X Logical)
  BY DEF Owners
<1>2. IsFiniteSet(Owners(g))
  BY <1>1, FinitePages
<1>3. users[g] \in Nat /\ users[g] = Cardinality(Owners(g))
  BY DEF MemoryOK, MemTypes, Counted
<1>4. users[g] = 0 <=> Owners(g) = {}
  BY <1>2, <1>3, FS_EmptySet
<1>5. ASSUME NEW p \in Pid, NEW l \in Logical, frame[p][l] = g
      PROVE  users[g] >= 1
  <2>1. <<p, l>> \in Owners(g)
    BY <1>5 DEF Owners
  <2> QED BY <1>3, <1>4, <2>1
<1> QED BY <1>1, <1>2, <1>3, <1>4, <1>5

LEMMA OncePerProcess ==
    ASSUME Parameters, MemoryOK, NEW p \in Pid, NEW l \in Logical, NEW m \in Logical,
           frame[p][l] = frame[p][m], frame[p][l] # None
    PROVE  l = m
<1>1. CASE l = m
  BY <1>1
<1>2. CASE l \in Code /\ m \in Code /\ diskMap[p][l] = diskMap[p][m]
  <2>1. Injective(diskMap[p]) /\ diskMap[p][l] # None
    BY <1>2 DEF MemoryOK, MapsOK
  <2> QED BY <1>2, <2>1 DEF Injective
<1> QED BY <1>1, <1>2 DEF MemoryOK, PagesApart
-----------------------------------------------------------------------------
(***************************************************************************)
(* The counts, for each way in which a page gets or loses a user.          *)
(***************************************************************************)
LEMMA OwnersEntries ==
    ASSUME NEW g
    PROVE  /\ \A q \in Pid, m \in Logical : <<q, m>> \in Owners(g) <=> frame[q][m] = g
           /\ \A q \in Pid, m \in Logical : <<q, m>> \in Owners(g)' <=> frame'[q][m] = g
           /\ \A x \in Owners(g) : \E q \in Pid, m \in Logical : x = <<q, m>>
           /\ \A x \in Owners(g)' : \E q \in Pid, m \in Logical : x = <<q, m>>
BY DEF Owners

LEMMA SameOwners ==
    ASSUME NEW g, \A q \in Pid, m \in Logical : frame'[q][m] = g <=> frame[q][m] = g
    PROVE  Owners(g)' = Owners(g)
BY OwnersEntries

LEMMA OneMoreOwner ==
    ASSUME Parameters, MemoryOK, NEW g \in Page, NEW p \in Pid, NEW l \in Logical,
           frame[p][l] # g,
           \A q \in Pid, m \in Logical :
               frame'[q][m] = g <=> frame[q][m] = g \/ (q = p /\ m = l)
    PROVE  Cardinality(Owners(g)') = Cardinality(Owners(g)) + 1
<1>1. Owners(g)' = Owners(g) \cup {<<p, l>>}
  BY OwnersEntries
<1>2. <<p, l>> \notin Owners(g)
  BY OwnersEntries
<1> QED BY <1>1, <1>2, OwnersCount, FS_AddElement

LEMMA OneOwnerLess ==
    ASSUME Parameters, MemoryOK, NEW g \in Page, NEW p \in Pid, NEW l \in Logical,
           frame[p][l] = g,
           \A q \in Pid, m \in Logical :
               frame'[q][m] = g <=> frame[q][m] = g /\ ~(q = p /\ m = l)
    PROVE  Cardinality(Owners(g)') = Cardinality(Owners(g)) - 1
<1>1. Owners(g)' = Owners(g) \ {<<p, l>>}
  BY OwnersEntries
<1>2. <<p, l>> \in Owners(g) /\ IsFiniteSet(Owners(g))
  BY OwnersEntries, OwnersCount
<1>3. Cardinality(Owners(g) \ {<<p, l>>}) = Cardinality(Owners(g)) - 1
  BY <1>2, FS_RemoveElement
<1> QED BY <1>1, <1>3

\* A page that is taken was nobody's, and there is one.
LEMMA TakeEffect ==
    ASSUME Parameters, MemoryOK, NEW g \in Page, TakePage(g)
    PROVE  /\ users[g] = 0 /\ free # 0 /\ free - 1 \in Nat /\ free' = free - 1
           /\ \A q \in Pid, m \in Logical : frame[q][m] # g
<1>1. users[g] = 0 /\ free # 0 /\ free' = free - 1
  BY DEF TakePage, First
<1>2. free - 1 \in Nat
  BY <1>1 DEF MemoryOK, MemTypes
<1>3. \A q \in Pid, m \in Logical : frame[q][m] # g
  BY <1>1, OwnersCount
<1> QED BY <1>1, <1>2, <1>3

\* The free list without a page.
LEMMA OneFreeLess ==
    ASSUME Parameters, MemoryOK, NEW g \in Page, TakePage(g),
           \A h \in Page : users'[h] = 0 <=> users[h] = 0 /\ h # g
    PROVE  FreeCounted'
<1> DEFINE Z == {h \in Page : users[h] = 0}
<1>1. IsFiniteSet(Z) /\ g \in Z
  BY FinitePages, TakeEffect
<1>2. {h \in Page : users'[h] = 0} = Z \ {g}
  OBVIOUS
<1>3. Cardinality(Z \ {g}) = Cardinality(Z) - 1
  BY <1>1, FS_RemoveElement
<1>4. free = Cardinality(Z)
  BY DEF MemoryOK, Counted, FreeCounted
<1> QED BY <1>2, <1>3, <1>4, TakeEffect DEF FreeCounted

LEMMA SameFree ==
    ASSUME MemoryOK, free' = free, \A h \in Page : users'[h] = 0 <=> users[h] = 0
    PROVE  FreeCounted'
<1>1. {h \in Page : users'[h] = 0} = {h \in Page : users[h] = 0}
  OBVIOUS
<1> QED BY <1>1 DEF MemoryOK, Counted, FreeCounted

LEMMA GetCounts ==
    ASSUME Parameters, MemoryOK, NEW p \in Pid, NEW l \in Logical, frame[p][l] = None,
           NEW g \in Page, TakePage(g),
           users' = [users EXCEPT ![g] = 1], frame' = [frame EXCEPT ![p][l] = g],
           diskMap' = diskMap
    PROVE  MemTypes' /\ Counted'
<1>1. MemTypes'
  BY TakeEffect DEF MemoryOK, MemTypes
<1>2. \A q \in Pid, m \in Logical :
          frame'[q][m] = IF q = p /\ m = l THEN g ELSE frame[q][m]
  BY DEF MemoryOK, MemTypes
<1>3. \A h \in Page : users'[h] = IF h = g THEN 1 ELSE users[h]
  BY DEF MemoryOK, MemTypes
<1>4. ASSUME NEW h \in Page
      PROVE  users'[h] = Cardinality(Owners(h)')
  <2>1. CASE h = g
    <3>1. /\ frame[p][l] # g
          /\ \A q \in Pid, m \in Logical :
                frame'[q][m] = g <=> frame[q][m] = g \/ (q = p /\ m = l)
      BY <1>2, TakeEffect
    <3>2. Cardinality(Owners(g)') = Cardinality(Owners(g)) + 1
      BY <3>1, OneMoreOwner
    <3>3. users[g] = 0 /\ users[g] = Cardinality(Owners(g)) /\ users'[g] = 1
      BY <1>3, TakeEffect, OwnersCount
    <3> QED BY <2>1, <3>2, <3>3
  <2>2. CASE h # g
    <3>1. \A q \in Pid, m \in Logical : frame'[q][m] = h <=> frame[q][m] = h
      BY <1>2, <2>2, Layout
    <3> QED BY <1>3, <2>2, <3>1, SameOwners, OwnersCount
  <2> QED BY <2>1, <2>2
<1>5. FreeCounted'
  BY <1>3, TakeEffect, OneFreeLess
<1> QED BY <1>1, <1>4, <1>5 DEF Counted

\* Entries L of p, with the pages S, are cleared.
Cleared(p, L, S) ==
    /\ p \in Pid /\ L \in SUBSET Logical /\ S \in SUBSET Page
    /\ \A g \in S : \E l \in L : frame[p][l] = g
    /\ \A l \in L : frame[p][l] # None => frame[p][l] \in S
    /\ frame' \in [Pid -> [Logical -> Page \cup {None}]]
    /\ \A q \in Pid, m \in Logical :
          frame'[q][m] = IF q = p /\ m \in L THEN None ELSE frame[q][m]

LEMMA ReleaseCounts ==
    ASSUME Parameters, MemoryOK, NEW p, NEW L, NEW S, Cleared(p, L, S), Release(S),
           diskMap' \in [Pid -> [Code -> Int]]
    PROVE  /\ MemTypes' /\ Counted' /\ free' >= free
           /\ free' # free => \E g \in S : users[g] = 1
<1> USE DEF Cleared
<1>1. S \in SUBSET Page
  OBVIOUS
<1>2. \A q \in Pid, m \in Logical :
          frame'[q][m] = IF q = p /\ m \in L THEN None ELSE frame[q][m]
  OBVIOUS
<1>3. \A g \in S : \E l \in L : frame[p][l] = g
  OBVIOUS
<1>4. /\ \A g \in Page : users'[g] = IF g \in S THEN users[g] - 1 ELSE users[g]
      /\ users' = [g \in Page |-> IF g \in S THEN users[g] - 1 ELSE users[g]]
      /\ free' = free + Cardinality({g \in S : users[g] = 1})
  BY DEF Release
<1>5. \A g \in S : users[g] >= 1
  BY <1>1, <1>3, OwnersCount
<1>6. users' \in [Page -> Nat]
  <2>1. \A g \in Page : users[g] \in Nat
    BY DEF MemoryOK, MemTypes
  <2>2. \A g \in Page : users'[g] \in Nat
    BY <1>4, <1>5, <2>1
  <2> QED BY <1>4, <2>2
<1>7. frame' \in [Pid -> [Logical -> Page \cup {None}]]
  OBVIOUS
<1> DEFINE T == {g \in S : users[g] = 1}
           Z == {g \in Page : users[g] = 0}
<1>8. /\ IsFiniteSet(T) /\ IsFiniteSet(Z) /\ Cardinality(T) \in Nat /\ Z \cap T = {}
      /\ free = Cardinality(Z) /\ free \in Nat
  BY <1>1, FinitePages DEF MemoryOK, MemTypes, Counted, FreeCounted
<1>9. FreeCounted'
  <2>1. {g \in Page : users'[g] = 0} = Z \cup T
    <3>1. \A g \in Page : users[g] \in Nat
      BY DEF MemoryOK, MemTypes
    <3>2. \A g \in Page : users'[g] = 0 <=> g \in Z \/ g \in T
      BY <1>4, <1>5, <3>1
    <3> QED BY <1>1, <3>2
  <2>2. Cardinality(Z \cup T) = Cardinality(Z) + Cardinality(T)
    <3>1. Cardinality(Z \cup T) = Cardinality(Z) + Cardinality(T) - Cardinality(Z \cap T)
      BY <1>8, FS_Union
    <3>2. Cardinality(Z \cap T) = 0 /\ Cardinality(Z) \in Nat
      BY <1>8, FS_EmptySet
    <3> QED BY <1>8, <3>1, <3>2
  <2> QED BY <1>4, <1>8, <2>1, <2>2 DEF FreeCounted
<1>10. ASSUME NEW g \in Page
       PROVE  users'[g] = Cardinality(Owners(g)')
  <2>1. CASE g \in S
    <3>1. PICK l \in L : frame[p][l] = g
      BY <1>3, <2>1
    <3>0. p \in Pid /\ L \subseteq Logical /\ l \in Logical /\ g # None
      BY <3>1, Layout
    <3>2. \A m \in L : frame[p][m] = g => m = l
      <4> SUFFICES ASSUME NEW m \in L, frame[p][m] = g PROVE m = l
        OBVIOUS
      <4>1. m \in Logical /\ frame[p][l] = frame[p][m] /\ frame[p][l] # None
        BY <3>0, <3>1
      <4> QED BY <3>0, <4>1, OncePerProcess
    <3>3. \A q \in Pid, m \in Logical :
             frame'[q][m] = g <=> frame[q][m] = g /\ ~(q = p /\ m = l)
      BY <1>2, <3>1, <3>2, Layout, SMTT(30)
    <3>4. Cardinality(Owners(g)') = Cardinality(Owners(g)) - 1
      BY <3>1, <3>3, OneOwnerLess
    <3> QED BY <1>4, <2>1, <3>4, OwnersCount
  <2>2. CASE g \notin S
    <3>0. g # None
      BY Layout
    <3>1. \A m \in L : frame[p][m] # g
      BY <2>2, <3>0
    <3>2. \A q \in Pid, m \in Logical : frame'[q][m] = g <=> frame[q][m] = g
      BY <1>2, <3>0, <3>1
    <3> QED BY <1>4, <2>2, <3>2, SameOwners, OwnersCount
  <2> QED BY <2>1, <2>2
<1>11. /\ free' \in Nat /\ free' >= free
       /\ free' # free => T # {}
  BY <1>4, <1>8, FS_EmptySet
<1> QED BY <1>6, <1>7, <1>9, <1>10, <1>11 DEF MemTypes, Counted
-----------------------------------------------------------------------------
(***************************************************************************)
(* Which entries have the same page, after each kind of step.              *)
(***************************************************************************)
LEMMA ApartOfLess ==
    ASSUME Parameters, MemoryOK, NEW p \in Pid,
           \A q \in Pid, m \in Logical : frame'[q][m] \in {None, frame[q][m]},
           \A k \in Code : frame'[p][k] = None,
           \A q \in Pid : q # p => diskMap'[q] = diskMap[q],
           diskMap'[p] = NoMap
    PROVE  PagesApart' /\ MapsOK'
<1>1. Code \subseteq Logical
  BY Layout
<1>2. \A q \in Pid, k \in Code :
         frame'[q][k] # None => frame[q][k] # None /\ diskMap'[q][k] = diskMap[q][k]
  BY <1>1
<1>3. PagesApart'
  BY <1>2 DEF MemoryOK, PagesApart
<1>4. Injective(diskMap'[p])
  BY DEF NoMap, Injective
<1>5. \A q \in Pid : Injective(diskMap'[q])
  BY <1>4 DEF MemoryOK, MapsOK
<1> QED BY <1>2, <1>3, <1>5 DEF MemoryOK, MapsOK, Injective

LEMMA GetMemory ==
    ASSUME Parameters, MemoryOK, NEW p \in Pid, NEW l \in Logical \ Code, frame[p][l] = None,
           GetPage(p, l), diskMap' = diskMap
    PROVE  /\ MemoryOK' /\ free # 0
           /\ \A q \in Pid, m \in Logical : q # p \/ m # l => frame'[q][m] = frame[q][m]
           /\ \A q \in Pid : q # p => frame'[q] = frame[q]
<1>1. PICK g \in Page : /\ TakePage(g) /\ users' = [users EXCEPT ![g] = 1]
                        /\ frame' = [frame EXCEPT ![p][l] = g]
  BY DEF GetPage
<1>2. MemTypes' /\ Counted'
  BY <1>1, GetCounts
<1>3. /\ \A q \in Pid, m \in Logical :
             frame'[q][m] = IF q = p /\ m = l THEN g ELSE frame[q][m]
      /\ \A q \in Pid : q # p => frame'[q] = frame[q]
  BY <1>1 DEF MemoryOK, MemTypes
<1>4. /\ free # 0 /\ \A q \in Pid, m \in Logical : frame[q][m] # g
  BY <1>1, TakeEffect
<1>5. PagesApart'
  BY <1>3, <1>4 DEF MemoryOK, PagesApart
<1>6. MapsOK'
  BY <1>3, Layout DEF MemoryOK, MapsOK, Injective
<1> QED BY <1>2, <1>3, <1>4, <1>5, <1>6 DEF MemoryOK
-----------------------------------------------------------------------------
(***************************************************************************)
(* The scheduler and the processes that are not running.                   *)
(***************************************************************************)
LEMMA CurrentFacts ==
    ASSUME Parameters, ProcessesInv
    PROVE  /\ current \in Pid /\ status \in [Pid -> State] /\ status[current] = "RUNNING"
           /\ \A p \in Pid : status[p] = "RUNNING" => p = current
           /\ stage \in [Pid -> {"user", "heap", "area", "stack", "copy", "code", "page", "loaded"}]
           /\ call \in [Pid -> Call] /\ call[current] \in Call
           /\ frame \in [Pid -> [Logical -> Page \cup {None}]]
           /\ diskMap \in [Pid -> [Code -> Int]]
           /\ ppid \in [Pid -> Pid \cup {None}]
           /\ Working(current) /\ stage[Idle] = "user"
           /\ free \in Nat
BY DEF ProcessesInv, MemoryOK, MemTypes, ProcsOK, ProcTypes, SchedTypeOK, OneRunning, EntriesOK

\* The scheduler is called when the table reads st.
LEMMA SwitchRuns ==
    ASSUME Parameters, ProcessesInv, NEW st \in [Pid -> State], SwitchFrom(st),
           st[current] # "RUNNING", current = Idle => st[current] = "READY",
           \A p \in Pid : p # current => st[p] \in {status[p], "READY"}
    PROVE  /\ status' \in [Pid -> State] /\ current' \in Pid /\ OneRunning'
           /\ \A p \in Pid : \/ status'[p] = st[p]
                             \/ status'[p] = "RUNNING" /\ Runnable(st[p])
<1>1. /\ current' \in Pid /\ Runnable(st[current'])
      /\ status' = [st EXCEPT ![current'] = "RUNNING"]
      /\ status' \in [Pid -> State]
  BY SwitchEffect
<1>2. \A p \in Pid : st[p] # "RUNNING"
  BY CurrentFacts
<1>3. status[Idle] \in {"READY", "RUNNING"} /\ Idle \in Pid
  BY Layout DEF ProcessesInv, ProcsOK, ProcTypes, OneRunning
<1>4. st[Idle] = "READY"
  BY <1>3, CurrentFacts
<1>5. OneRunning'
  BY <1>1, <1>2, <1>3, <1>4 DEF OneRunning
<1> QED BY <1>1, <1>5

MyChild(p) == Op = "fork" /\ p = call[current].child

LEMMA OthersWork ==
    ASSUME Parameters, ProcessesInv,
           \A p \in Pid : p # current => stage'[p] = stage[p] /\ call'[p] = call[p],
           \A p \in Pid : p # current /\ ~MyChild(p) =>
               /\ frame'[p] = frame[p] /\ diskMap'[p] = diskMap[p]
               /\ status[p] = "ALLOCATED" => status'[p] = "ALLOCATED"
    PROVE  \A p \in Pid : p # current => Working(p)'
<1> SUFFICES ASSUME NEW p \in Pid, p # current PROVE Working(p)'
  OBVIOUS
<1>1. Working(p) /\ stage'[p] = stage[p] /\ call'[p] = call[p] /\ call[p] \in Call
  BY DEF ProcessesInv, ProcsOK, ProcTypes
<1>2. ASSUME call[p].op = "fork"
      PROVE  /\ status'[call[p].child] = "ALLOCATED"
             /\ frame'[call[p].child] = frame[call[p].child]
  <2>1. call[p].child \in Pid /\ status[call[p].child] = "ALLOCATED"
    BY <1>1, <1>2, CallFields DEF Working
  <2>2. call[p].child # current
    BY <2>1, CurrentFacts
  <2>3. ~MyChild(call[p].child)
    BY <1>2, CurrentFacts DEF MyChild, Op, ProcessesInv, ProcsOK, ChildrenApart
  <2> QED BY <2>1, <2>2, <2>3
<1>3. ASSUME call[p].op \in {"code", "exec"}
      PROVE  frame'[p] = frame[p] /\ diskMap'[p] = diskMap[p]
  <2>1. stage[p] # "user"
    BY <1>1, <1>3 DEF Working
  <2>2. status[p] # "ALLOCATED"
    BY <2>1 DEF ProcessesInv, ProcsOK, EntriesOK
  <2>3. ~MyChild(p)
    BY <2>2, CurrentFacts DEF MyChild, Op, Working
  <2> QED BY <2>3
<1> QED BY <1>1, <1>2, <1>3 DEF Working

\* What a step owes, once memory is right: the rest holds of those who do not run.
LEMMA StepKeeps ==
    ASSUME Parameters, ProcessesInv, ProcTypes', Waiters', NoIdleMemory', ChildrenApart',
           \A p \in Pid : p = current => Working(p)', stage'[Idle] = "user",
           frame'[current][Loading] # None <=> stage'[current] = "loaded",
           status'[current] \in {"TERMINATED", "ALLOCATED"} => stage'[current] = "user",
           status'[current] = "TERMINATED" => frame'[current] = NoPages,
           \A p \in Pid : p # current =>
               /\ stage'[p] = stage[p] /\ call'[p] = call[p]
               /\ frame'[p][Loading] = frame[p][Loading]
               /\ status'[p] \in {"TERMINATED", "ALLOCATED"} =>
                     status[p] \in {"TERMINATED", "ALLOCATED"}
               /\ status'[p] = "TERMINATED" => status[p] = "TERMINATED",
           \A p \in Pid : p # current /\ ~MyChild(p) =>
               /\ frame'[p] = frame[p] /\ diskMap'[p] = diskMap[p]
               /\ status[p] = "ALLOCATED" => status'[p] = "ALLOCATED"
    PROVE  ProcsOK'
<1>1. \A p \in Pid : Working(p)'
  BY OthersWork
<1>2. ASSUME NEW p \in Pid
      PROVE  /\ status'[p] \in {"TERMINATED", "ALLOCATED"} => stage'[p] = "user"
             /\ status'[p] = "TERMINATED" => frame'[p] = NoPages
             /\ frame'[p][Loading] # None <=> stage'[p] = "loaded"
  <2>1. CASE p = current
    BY <2>1
  <2>2. CASE p # current
    <3>1. /\ status[p] \in {"TERMINATED", "ALLOCATED"} => stage[p] = "user"
          /\ status[p] = "TERMINATED" => frame[p] = NoPages
          /\ frame[p][Loading] # None <=> stage[p] = "loaded"
      BY DEF ProcessesInv, ProcsOK, EntriesOK
    <3>2. status[p] = "TERMINATED" => ~MyChild(p)
      BY CurrentFacts DEF MyChild, Op, Working
    <3> QED BY <2>2, <3>1, <3>2
  <2> QED BY <2>1, <2>2
<1>3. EntriesOK'
  BY <1>2 DEF EntriesOK
<1> QED BY <1>1, <1>3 DEF ProcsOK

Stages == {"user", "heap", "area", "stack", "copy", "code", "page", "loaded"}

\* The same for a step that leaves the process table alone.
LEMMA StillKeeps ==
    ASSUME Parameters, ProcessesInv, UNCHANGED schedVars, current # Idle,
           ppid' \in [Pid -> Pid \cup {None}], \A p \in Pid : ppid'[p] \in {ppid[p], current},
           NEW s \in Stages, stage' = [stage EXCEPT ![current] = s],
           NEW c \in Call, call' = [call EXCEPT ![current] = c],
           c.op = "fork" => call[current] = c,
           \A p \in Pid : p = current => Working(p)',
           frame'[current][Loading] # None <=> s = "loaded",
           \A p \in Pid : p # current => frame'[p][Loading] = frame[p][Loading],
           \A p \in Pid : p # current /\ ~MyChild(p) =>
               frame'[p] = frame[p] /\ diskMap'[p] = diskMap[p],
           free' = free \/ free # 0
    PROVE  ProcsOK'
<1>1. status' = status /\ waitingOn' = waitingOn /\ current' = current
  BY DEF schedVars
<1>2. /\ stage' \in [Pid -> Stages] /\ call' \in [Pid -> Call]
      /\ stage'[current] = s /\ call'[current] = c
      /\ \A p \in Pid : p # current => stage'[p] = stage[p] /\ call'[p] = call[p]
  BY CurrentFacts DEF Stages
<1>3. ProcTypes'
  BY <1>1, <1>2 DEF ProcessesInv, ProcsOK, ProcTypes, SchedTypeOK, OneRunning, Stages
<1>4. Waiters'
  BY <1>1, CurrentFacts, ZenonT(40) DEF ProcessesInv, ProcsOK, Waiters, WaitedForLives
<1>5. NoIdleMemory'
  BY <1>1 DEF ProcessesInv, ProcsOK, NoIdleMemory
<1>6. ChildrenApart'
  BY <1>2 DEF ProcessesInv, ProcsOK, ChildrenApart
<1>7. stage'[Idle] = "user"
  BY <1>2, CurrentFacts, Layout
<1>8. status'[current] \notin {"TERMINATED", "ALLOCATED"}
  BY <1>1, CurrentFacts
<1> QED BY <1>1, <1>2, <1>3, <1>4, <1>5, <1>6, <1>7, <1>8, StepKeeps

LEMMA MemorySame ==
    ASSUME MemoryOK, UNCHANGED <<counts, frame, diskMap>>
    PROVE  MemoryOK'
BY DEF MemoryOK, MemTypes, Counted, FreeCounted, Owners, PagesApart, MapsOK, Injective, counts

\* The user is the current process whenever a call is in the middle.
LEMMA Busy ==
    ASSUME Parameters, ProcessesInv, stage[current] # "user"
    PROVE  current # Idle
BY CurrentFacts
-----------------------------------------------------------------------------
(***************************************************************************)
(* One lemma for each action.                                              *)
(***************************************************************************)
LEMMA HeapFaultKeeps ==
    ASSUME Parameters, ProcessesInv, HeapFault
    PROVE  ProcessesInv'
<1>1. /\ current # Idle /\ UNCHANGED schedVars /\ UNCHANGED <<counts, frame, diskMap>>
      /\ ppid' = ppid /\ free' = free
      /\ stage' = [stage EXCEPT ![current] = "heap"]
      /\ call' = [call EXCEPT ![current] = [op |-> "heap"]]
      /\ frame' = frame /\ diskMap' = diskMap /\ stage[current] = "user"
  BY DEF HeapFault, User, Enter, Goto, memory, counts
<1>2. "heap" \in Stages /\ [op |-> "heap"] \in Call
  BY CallTypes DEF Stages
<1>3. \A p \in Pid : p = current => Working(p)'
  BY <1>1, CurrentFacts DEF Working
<1>4. frame'[current][Loading] = None
  BY <1>1, CurrentFacts DEF ProcessesInv, ProcsOK, EntriesOK
<1>5. ProcsOK'
  BY <1>1, <1>2, <1>3, <1>4, CurrentFacts, StillKeeps
<1> QED BY <1>1, <1>5, MemorySame DEF ProcessesInv

LEMMA CodeFaultKeeps ==
    ASSUME Parameters, ProcessesInv, NEW k \in Code, CodeFault(k)
    PROVE  ProcessesInv'
<1> DEFINE c == [op |-> "code", block |-> diskMap[current][k], part |-> k]
<1>1. /\ current # Idle /\ UNCHANGED schedVars /\ UNCHANGED <<counts, frame, diskMap>>
      /\ ppid' = ppid /\ free' = free
      /\ frame[current][k] = None /\ diskMap[current][k] # None
      /\ stage' = [stage EXCEPT ![current] = "code"]
      /\ call' = [call EXCEPT ![current] = c]
      /\ frame' = frame /\ diskMap' = diskMap /\ stage[current] = "user"
  BY DEF CodeFault, User, Enter, Goto, memory, counts
<1>2. "code" \in Stages /\ c \in Call
  BY CallTypes, CurrentFacts DEF Stages
<1>3. \A p \in Pid : p = current => Working(p)'
  BY <1>1, CurrentFacts DEF Working
<1>4. frame'[current][Loading] = None
  BY <1>1, CurrentFacts DEF ProcessesInv, ProcsOK, EntriesOK
<1>5. ProcsOK'
  BY <1>1, <1>2, <1>3, <1>4, CurrentFacts, StillKeeps
<1> QED BY <1>1, <1>5, MemorySame DEF ProcessesInv

LEMMA LoadCodeKeeps ==
    ASSUME Parameters, ProcessesInv, LoadCode
    PROVE  ProcessesInv'
<1>1. /\ UNCHANGED schedVars /\ UNCHANGED <<counts, frame, diskMap>>
      /\ ppid' = ppid /\ free' = free /\ call' = call
      /\ stage' = [stage EXCEPT ![current] = "page"]
      /\ frame' = frame /\ diskMap' = diskMap /\ stage[current] = "code"
  BY DEF LoadCode, At, Goto, memory, counts
<1>2. /\ "page" \in Stages /\ call[current] \in Call
      /\ call' = [call EXCEPT ![current] = call[current]] /\ current # Idle
  BY <1>1, CurrentFacts DEF Stages
<1>3. \A p \in Pid : p = current => Working(p)'
  BY <1>1, CurrentFacts DEF Working
<1>4. frame'[current][Loading] = None
  BY <1>1, CurrentFacts DEF ProcessesInv, ProcsOK, EntriesOK
<1>5. ProcsOK'
  BY <1>1, <1>2, <1>3, <1>4, CurrentFacts, StillKeeps
<1> QED BY <1>1, <1>5, MemorySame DEF ProcessesInv

LEMMA FillHeapKeeps ==
    ASSUME Parameters, ProcessesInv, FillHeap
    PROVE  ProcessesInv'
<1>1. PICK l \in Heap : /\ l \in Missing(current, Heap)
                        /\ GetPage(current, l)
                        /\ IF Missing(current, Heap) # {l} THEN UNCHANGED calls
                           ELSE IF Op = "fork" THEN Goto("area") /\ UNCHANGED call
                           ELSE Return
  BY DEF FillHeap, First
<1>2. /\ UNCHANGED schedVars /\ ppid' = ppid /\ diskMap' = diskMap /\ stage[current] = "heap"
  BY DEF FillHeap, At
<1>3. l \in Logical \ Code /\ l # Loading /\ frame[current][l] = None
  BY <1>1, Layout DEF Missing
<1>4. /\ MemoryOK' /\ free # 0
      /\ \A q \in Pid, m \in Logical : q # current \/ m # l => frame'[q][m] = frame[q][m]
      /\ \A q \in Pid : q # current => frame'[q] = frame[q]
  BY <1>1, <1>2, <1>3, CurrentFacts, GetMemory DEF ProcessesInv
<1>5. frame'[current][Loading] = None
  BY <1>2, <1>3, <1>4, Layout, CurrentFacts, ZenonT(40) DEF ProcessesInv, ProcsOK, EntriesOK
<1>6. \/ \E s \in {"heap", "area"} : /\ stage' = [stage EXCEPT ![current] = s] /\ call' = call
                                     /\ s = "area" => Op = "fork"
      \/ /\ stage' = [stage EXCEPT ![current] = "user"]
         /\ call' = [call EXCEPT ![current] = NoCall]
  BY <1>1, <1>2, CurrentFacts DEF Goto, Return, calls
<1>7. Op = "fork" => /\ status'[call[current].child] = "ALLOCATED"
                     /\ frame'[call[current].child] = NoPages
  <2>1. ASSUME Op = "fork"
        PROVE  /\ call[current].child \in Pid /\ status[call[current].child] = "ALLOCATED"
               /\ frame[call[current].child] = NoPages
    BY <1>2, <2>1, CurrentFacts, CallFields DEF Op, Working
  <2> QED BY <1>2, <1>4, <2>1, CurrentFacts DEF schedVars
<1>8. CASE \E s \in {"heap", "area"} : /\ stage' = [stage EXCEPT ![current] = s] /\ call' = call
                                       /\ s = "area" => Op = "fork"
  <2>1. PICK s \in {"heap", "area"} :
           stage' = [stage EXCEPT ![current] = s] /\ call' = call /\ (s = "area" => Op = "fork")
    BY <1>8
  <2>2. /\ s \in Stages /\ call[current] \in Call
        /\ call' = [call EXCEPT ![current] = call[current]] /\ current # Idle
    BY <1>2, <2>1, CurrentFacts DEF Stages
  <2>3. \A p \in Pid : p = current => Working(p)'
    BY <1>2, <1>7, <2>1, CurrentFacts DEF Working, Op
  <2>4. ProcsOK'
    BY <1>2, <1>4, <1>5, <2>1, <2>2, <2>3, CurrentFacts, StillKeeps
  <2> QED BY <1>4, <2>4 DEF ProcessesInv
<1>9. CASE /\ stage' = [stage EXCEPT ![current] = "user"]
           /\ call' = [call EXCEPT ![current] = NoCall]
  <2>1. "user" \in Stages /\ NoCall \in Call /\ NoCall.op = "none" /\ current # Idle
    BY <1>2, CurrentFacts, CallTypes DEF Stages
  <2>2. \A p \in Pid : p = current => Working(p)'
    BY <1>9, <2>1, CurrentFacts DEF Working
  <2>3. ProcsOK'
    BY <1>2, <1>4, <1>5, <1>9, <2>1, <2>2, CurrentFacts, StillKeeps
  <2> QED BY <1>4, <2>3 DEF ProcessesInv
<1> QED BY <1>6, <1>8, <1>9

LEMMA FillStackKeeps ==
    ASSUME Parameters, ProcessesInv, FillStack
    PROVE  ProcessesInv'
<1> DEFINE c == call[current].child
<1>1. PICK l \in Stack :
        /\ l \in Missing(c, Stack)
        /\ GetPage(c, l)
        /\ IF Missing(c, Stack) # {l} THEN UNCHANGED stage
           ELSE Goto(IF Op = "fork" THEN "copy" ELSE "code")
  BY DEF FillStack, First
<1>2. /\ UNCHANGED schedVars /\ ppid' = ppid /\ diskMap' = diskMap /\ call' = call
      /\ stage[current] = "stack"
  BY DEF FillStack, At
<1>3. /\ call[current].op \in {"fork", "exec"} /\ c \in Pid
      /\ call[current].op = "exec" => c = current
  BY <1>2, CurrentFacts, CallFields DEF Working
<1>4. l \in Logical \ Code /\ l # Loading /\ frame[c][l] = None
  BY <1>1, Layout DEF Missing
<1>5. /\ MemoryOK' /\ free # 0
      /\ \A q \in Pid, m \in Logical : q # c \/ m # l => frame'[q][m] = frame[q][m]
      /\ \A q \in Pid : q # c => frame'[q] = frame[q]
  BY <1>1, <1>2, <1>3, <1>4, GetMemory DEF ProcessesInv
<1>6. PICK s \in {"stack", "copy", "code"} :
        /\ stage' = [stage EXCEPT ![current] = s]
        /\ s = "copy" => call[current].op = "fork"
        /\ s = "code" => call[current].op = "exec"
  <2>1. CASE stage' = stage
    BY <1>2, <2>1, CurrentFacts
  <2>2. CASE Goto(IF Op = "fork" THEN "copy" ELSE "code")
    BY <1>3, <2>2 DEF Goto, Op
  <2> QED BY <1>1, <2>1, <2>2
<1>7. /\ s \in Stages /\ call[current] \in Call /\ current # Idle
      /\ call' = [call EXCEPT ![current] = call[current]]
  BY <1>2, CurrentFacts DEF Stages
<1>8. \A p \in Pid : frame'[p][Loading] = frame[p][Loading]
  BY <1>4, <1>5, Layout
<1>9. frame[current][Loading] = None
  BY <1>2, CurrentFacts DEF ProcessesInv, ProcsOK, EntriesOK
<1>10. \A p \in Pid : p = current => Working(p)'
  <2>1. \A k \in Code : call[current].op = "exec" => frame'[current][k] = None
    BY <1>3, <1>4, <1>5, CurrentFacts, Layout, ZenonT(40) DEF Working
  <2>2. status' = status /\ stage'[current] = s
    BY <1>2, <1>6, CurrentFacts DEF schedVars
  <2> QED BY <1>2, <1>3, <1>6, <2>1, <2>2, CurrentFacts DEF Working
<1>11. \A p \in Pid : p # current /\ ~MyChild(p) =>
           frame'[p] = frame[p] /\ diskMap'[p] = diskMap[p]
  BY <1>2, <1>3, <1>5 DEF MyChild, Op
<1>12. ProcsOK'
  BY <1>2, <1>5, <1>6, <1>7, <1>8, <1>9, <1>10, <1>11, CurrentFacts, StillKeeps, ZenonT(40)
<1> QED BY <1>5, <1>12 DEF ProcessesInv

\* The child's tables while its parent is filling them.
LEMMA TakeAreaMemory ==
    ASSUME Parameters, MemoryOK, current \in Pid, NEW c \in Pid, c # current,
           frame[c] = NoPages, NEW g \in Page, TakePage(g),
           users' = [h \in Page |-> IF h = g THEN 1
                                    ELSE IF h \in Inherited THEN users[h] + 1 ELSE users[h]],
           frame' = [frame EXCEPT ![c] = [l \in Logical |->
                        IF l = Area THEN g
                        ELSE IF l \in Heap \cup Code THEN frame[current][l] ELSE None]],
           diskMap' = [diskMap EXCEPT ![c] = diskMap[current]]
    PROVE  MemoryOK'
<1>1. /\ \A q \in Pid, m \in Logical :
             frame'[q][m] = IF q # c THEN frame[q][m]
                            ELSE IF m = Area THEN g
                            ELSE IF m \in Heap \cup Code THEN frame[current][m] ELSE None
      /\ \A q \in Pid : diskMap'[q] = IF q = c THEN diskMap[current] ELSE diskMap[q]
  BY DEF MemoryOK, MemTypes
<1>2. \A m \in Logical : frame[c][m] = None
  BY DEF NoPages
<1>3. /\ users[g] = 0 /\ free' = free - 1 /\ free - 1 \in Nat
      /\ \A q \in Pid, m \in Logical : frame[q][m] # g
  BY TakeEffect
<1>4. MemTypes'
  BY <1>3 DEF MemoryOK, MemTypes
<1>5. \A h \in Inherited : users[h] >= 1
  <2> SUFFICES ASSUME NEW h \in Inherited PROVE users[h] >= 1
    OBVIOUS
  <2>1. PICK l \in Heap \cup Code : frame[current][l] = h
    BY DEF Inherited
  <2>2. l \in Logical /\ h # None
    BY Layout DEF Inherited
  <2>3. h \in Page
    BY <2>1, <2>2 DEF MemoryOK, MemTypes
  <2> QED BY <2>1, <2>2, <2>3, OwnersCount
<1>6. FreeCounted'
  <2>1. \A h \in Page : users[h] \in Nat
    BY DEF MemoryOK, MemTypes
  <2>2. \A h \in Page : users'[h] = 0 <=> users[h] = 0 /\ h # g
    BY <1>5, <2>1
  <2> QED BY <2>2, OneFreeLess
<1>7. ASSUME NEW h \in Page
      PROVE  users'[h] = Cardinality(Owners(h)')
  <2>1. CASE h = g
    <3>1. /\ frame[c][Area] # g
          /\ \A q \in Pid, m \in Logical :
                frame'[q][m] = g <=> frame[q][m] = g \/ (q = c /\ m = Area)
      BY <1>1, <1>2, <1>3, Layout
    <3>2. Cardinality(Owners(g)') = Cardinality(Owners(g)) + 1
      BY <3>1, OneMoreOwner, Layout
    <3>3. users[g] = Cardinality(Owners(g)) /\ users'[g] = 1
      BY OwnersCount
    <3> QED BY <1>3, <2>1, <3>2, <3>3
  <2>2. CASE h # g /\ h \in Inherited
    <3>1. PICK l \in Heap \cup Code : frame[current][l] = h
      BY <2>2 DEF Inherited
    <3>2. l \in Logical /\ l # Area
      BY Layout
    <3>3. \A m \in Logical : frame[current][m] = h => m = l
      BY <3>1, <3>2, OncePerProcess, Layout
    <3>4. /\ frame[c][l] # h
          /\ \A q \in Pid, m \in Logical :
                frame'[q][m] = h <=> frame[q][m] = h \/ (q = c /\ m = l)
      BY <1>1, <1>2, <2>2, <3>1, <3>2, <3>3, Layout
    <3>5. Cardinality(Owners(h)') = Cardinality(Owners(h)) + 1
      BY <3>2, <3>4, OneMoreOwner
    <3> QED BY <2>2, <3>5, OwnersCount
  <2>3. CASE h # g /\ h \notin Inherited
    <3>1. \A m \in Heap \cup Code : frame[current][m] # h
      BY <2>3, Layout DEF Inherited
    <3>2. \A q \in Pid, m \in Logical : frame'[q][m] = h <=> frame[q][m] = h
      BY <1>1, <1>2, <2>3, <3>1, Layout
    <3> QED BY <2>3, <3>2, SameOwners, OwnersCount
  <2> QED BY <2>1, <2>2, <2>3
<1>8. PagesApart'
  <2> SUFFICES ASSUME NEW p \in Pid, NEW q \in Pid, NEW l \in Logical, NEW m \in Logical,
                      frame'[p][l] = frame'[q][m], frame'[p][l] # None
               PROVE  \/ l = m /\ (p = q \/ l \in Heap)
                      \/ l \in Code /\ m \in Code /\ diskMap'[p][l] = diskMap'[q][m]
    BY DEF PagesApart
  <2>1. CASE frame'[p][l] = g
    BY <1>1, <1>3, <2>1, Layout
  <2>2. CASE frame'[p][l] # g
    <3> DEFINE a == IF p = c THEN current ELSE p
               b == IF q = c THEN current ELSE q
    <3>1. frame[a][l] = frame[b][m] /\ frame[a][l] # None
      BY <1>1, <2>2
    <3>2. diskMap'[p] = diskMap[a] /\ diskMap'[q] = diskMap[b]
      BY <1>1
    <3>3. \/ l = m /\ (a = b \/ l \in Heap)
          \/ l \in Code /\ m \in Code /\ diskMap[a][l] = diskMap[b][m]
      BY <3>1 DEF MemoryOK, PagesApart
    <3>4. CASE l = m /\ a = b /\ p # q /\ l \notin Heap
      BY <1>1, <2>2, <3>2, <3>4, Layout
    <3> QED BY <3>2, <3>3, <3>4
  <2> QED BY <2>1, <2>2
<1>9. MapsOK'
  BY <1>1, Layout DEF MemoryOK, MapsOK, Injective
<1> QED BY <1>4, <1>6, <1>7, <1>8, <1>9 DEF MemoryOK, Counted

LEMMA TakeAreaKeeps ==
    ASSUME Parameters, ProcessesInv, TakeArea
    PROVE  ProcessesInv'
<1> DEFINE c == call[current].child
<1>1. /\ stage[current] = "area" /\ UNCHANGED schedVars /\ call' = call
      /\ ppid' = [ppid EXCEPT ![c] = current]
      /\ stage' = [stage EXCEPT ![current] = "stack"]
      /\ diskMap' = [diskMap EXCEPT ![c] = diskMap[current]]
  BY DEF TakeArea, At, Goto
<1>2. PICK g \in Page :
        /\ TakePage(g)
        /\ users' = [h \in Page |-> IF h = g THEN 1
                                    ELSE IF h \in Inherited THEN users[h] + 1 ELSE users[h]]
        /\ frame' = [frame EXCEPT ![c] = [l \in Logical |->
                        IF l = Area THEN g
                        ELSE IF l \in Heap \cup Code THEN frame[current][l] ELSE None]]
  BY DEF TakeArea
<1>3. /\ call[current].op = "fork" /\ c \in Pid /\ status[c] = "ALLOCATED"
      /\ frame[c] = NoPages /\ c # current
  BY <1>1, CurrentFacts, CallFields DEF Working
<1>4. MemoryOK' /\ free # 0
  BY <1>1, <1>2, <1>3, CurrentFacts, TakeAreaMemory, TakeEffect DEF ProcessesInv
<1>5. /\ "stack" \in Stages /\ call[current] \in Call /\ current # Idle
      /\ call' = [call EXCEPT ![current] = call[current]]
      /\ ppid' \in [Pid -> Pid \cup {None}] /\ \A p \in Pid : ppid'[p] \in {ppid[p], current}
  BY <1>1, <1>3, CurrentFacts DEF Stages
<1>6. /\ \A p \in Pid : p # c => frame'[p] = frame[p] /\ diskMap'[p] = diskMap[p]
      /\ \A p \in Pid : frame'[p][Loading] = frame[p][Loading]
  BY <1>1, <1>2, <1>3, CurrentFacts, Layout, ZenonT(40) DEF NoPages
<1>7. frame[current][Loading] = None
  BY <1>1, CurrentFacts DEF ProcessesInv, ProcsOK, EntriesOK
<1>8. \A p \in Pid : p = current => Working(p)'
  <2>1. /\ stage'[current] = "stack" /\ call'[current] = call[current]
        /\ status'[c] = "ALLOCATED"
    BY <1>1, <1>3, CurrentFacts DEF schedVars
  <2> QED BY <1>3, <2>1 DEF Working
<1>9. \A p \in Pid : p # current /\ ~MyChild(p) =>
          frame'[p] = frame[p] /\ diskMap'[p] = diskMap[p]
  BY <1>3, <1>6 DEF MyChild, Op
<1>10. /\ frame'[current][Loading] # None <=> "stack" = "loaded"
       /\ \A p \in Pid : p # current => frame'[p][Loading] = frame[p][Loading]
  BY <1>6, <1>7, CurrentFacts
<1>11. ProcsOK'
  BY <1>1, <1>4, <1>5, <1>8, <1>9, <1>10, StillKeeps
<1> QED BY <1>4, <1>11 DEF ProcessesInv

LEMMA CopyStackKeeps ==
    ASSUME Parameters, ProcessesInv, CopyStack
    PROVE  ProcessesInv'
<1> DEFINE c == call[current].child
<1>1. /\ stage[current] = "copy" /\ UNCHANGED <<counts, frame, diskMap>>
      /\ waitingOn' = waitingOn /\ current' = current /\ ppid' = ppid /\ free' = free
      /\ frame' = frame /\ diskMap' = diskMap
      /\ status' = [status EXCEPT ![c] = "CREATED"]
      /\ stage' = [stage EXCEPT ![current] = "user"]
      /\ call' = [call EXCEPT ![current] = NoCall]
  BY DEF CopyStack, At, Return, Goto, counts
<1>2. /\ call[current].op = "fork" /\ c \in Pid /\ status[c] = "ALLOCATED" /\ c # current
  BY <1>1, CurrentFacts, CallFields DEF Working
<1>3. /\ \A p \in Pid : status'[p] = IF p = c THEN "CREATED" ELSE status[p]
      /\ status' \in [Pid -> State]
  BY <1>1, CurrentFacts DEF State
<1>4. ProcTypes'
  <2>1. OneRunning'
    BY <1>1, <1>2, <1>3 DEF ProcessesInv, ProcsOK, ProcTypes, OneRunning
  <2>2. stage' \in [Pid -> Stages] /\ call' \in [Pid -> Call]
    BY <1>1, CurrentFacts, CallTypes DEF Stages
  <2> QED BY <1>1, <1>3, <2>1, <2>2
         DEF ProcessesInv, ProcsOK, ProcTypes, SchedTypeOK, Stages
<1>5. Waiters'
  BY <1>1, <1>3 DEF ProcessesInv, ProcsOK, ProcTypes, Waiters, WaitedForLives
<1>6. NoIdleMemory'
  BY <1>1, <1>3 DEF ProcessesInv, ProcsOK, NoIdleMemory
<1>7. /\ stage'[current] = "user" /\ call'[current] = NoCall
      /\ \A p \in Pid : p # current => stage'[p] = stage[p] /\ call'[p] = call[p]
  BY <1>1, CurrentFacts
<1>8. ChildrenApart'
  BY <1>7, CallTypes DEF ProcessesInv, ProcsOK, ChildrenApart
<1>9. \A p \in Pid : p = current => Working(p)'
  BY <1>7, CallTypes DEF Working
<1>10. stage'[Idle] = "user" /\ frame'[current][Loading] = None
  BY <1>1, <1>7, CurrentFacts, Layout DEF ProcessesInv, ProcsOK, EntriesOK
<1>11. \A p \in Pid : p # current /\ ~MyChild(p) =>
           /\ frame'[p] = frame[p] /\ diskMap'[p] = diskMap[p]
           /\ status[p] = "ALLOCATED" => status'[p] = "ALLOCATED"
  BY <1>1, <1>2, <1>3 DEF MyChild, Op
<1>12. status'[current] = "RUNNING"
  BY <1>2, <1>3, CurrentFacts
<1>13. ProcsOK'
  BY <1>1, <1>3, <1>4, <1>5, <1>6, <1>7, <1>8, <1>9, <1>10, <1>11, <1>12, StepKeeps
<1> QED BY <1>1, <1>13, MemorySame DEF ProcessesInv
-----------------------------------------------------------------------------
\* A page of code is mapped, which nobody has but as code of the same block.
LEMMA InstallKeeps ==
    ASSUME Parameters, ProcessesInv, stage[current] \in {"code", "loaded"},
           NEW g \in Page, Install(g), UNCHANGED schedVars, ppid' = ppid, free' = free,
           \A q \in Pid, m \in Logical : frame[q][m] = g =>
               \/ m \in Code /\ diskMap[q][m] = call[current].block
               \/ q = current /\ m = Loading
    PROVE  /\ PagesApart' /\ MapsOK' /\ ProcsOK'
           /\ frame' \in [Pid -> [Logical -> Page \cup {None}]]
           /\ diskMap' \in [Pid -> [Code -> Int]]
           /\ call[current].part \in Code /\ frame[current][call[current].part] = None
           /\ \A q \in Pid, m \in Logical :
                 frame'[q][m] = IF q = current /\ m = call[current].part THEN g
                                ELSE IF q = current /\ m = Loading THEN None ELSE frame[q][m]
<1> DEFINE k == call[current].part
           b == call[current].block
<1>1. /\ frame' = [frame EXCEPT ![current][k] = g, ![current][Loading] = None]
      /\ diskMap' = IF Op = "exec" THEN [diskMap EXCEPT ![current] = call[current].prog] ELSE diskMap
      /\ stage' = [stage EXCEPT ![current] = "user"]
      /\ call' = [call EXCEPT ![current] = NoCall]
  BY DEF Install, Return, Goto
<1>2. /\ Op \in {"code", "exec"} /\ k \in Code /\ k \in Logical /\ k # Loading
      /\ Op = "exec" => call[current].prog \in Programs
  BY CurrentFacts, CallFields, Layout DEF Working, Op
<1>3. /\ Op = "code" => /\ frame[current][k] = None /\ b # None /\ diskMap[current][k] = b
      /\ Op = "exec" => /\ k = FirstCode /\ b = call[current].prog[FirstCode]
                        /\ \A j \in Code : frame[current][j] = None
  BY CurrentFacts DEF Working, Op
<1>4. frame[current][k] = None
  BY <1>2, <1>3
<1>5. frame' \in [Pid -> [Logical -> Page \cup {None}]]
  BY <1>1, <1>2, CurrentFacts, Layout
<1>6. \A q \in Pid, m \in Logical :
         frame'[q][m] = IF q = current /\ m = k THEN g
                        ELSE IF q = current /\ m = Loading THEN None ELSE frame[q][m]
  BY <1>1, <1>2, CurrentFacts, Layout
<1>7. Op = "exec" => /\ call[current].prog \in [Code -> Int] /\ Injective(call[current].prog)
                     /\ call[current].prog[FirstCode] # None
  BY <1>2 DEF Parameters
<1>8. diskMap' \in [Pid -> [Code -> Int]]
  BY <1>1, <1>7, CurrentFacts
<1>9. /\ \A q \in Pid : q # current => diskMap'[q] = diskMap[q] /\ frame'[q] = frame[q]
      /\ diskMap'[current][k] = b
      /\ \A j \in Code : frame[current][j] # None => diskMap'[current][j] = diskMap[current][j]
      /\ Injective(diskMap'[current]) /\ b # None
  <2>1. \A q \in Pid : q # current => diskMap'[q] = diskMap[q] /\ frame'[q] = frame[q]
    BY <1>1, CurrentFacts
  <2>2. CASE Op = "exec"
    <3>1. diskMap'[current] = call[current].prog
      BY <1>1, <2>2, CurrentFacts
    <3> QED BY <1>3, <1>7, <2>1, <2>2, <3>1
  <2>3. CASE Op = "code"
    BY <1>1, <1>3, <2>1, <2>3, CurrentFacts DEF ProcessesInv, MemoryOK, MapsOK
  <2> QED BY <1>2, <2>2, <2>3
<1>10. PagesApart'
  <2> SUFFICES ASSUME NEW p \in Pid, NEW q \in Pid, NEW l \in Logical, NEW m \in Logical,
                      frame'[p][l] = frame'[q][m], frame'[p][l] # None
               PROVE  \/ l = m /\ (p = q \/ l \in Heap)
                      \/ l \in Code /\ m \in Code /\ diskMap'[p][l] = diskMap'[q][m]
    BY DEF PagesApart
  <2>1. ASSUME NEW r \in Pid, NEW n \in Logical, frame'[r][n] = g
        PROVE  n \in Code /\ diskMap'[r][n] = b
    <3>1. CASE r = current /\ n = k
      BY <1>2, <1>9, <3>1
    <3>2. CASE ~(r = current /\ n = k)
      <4>1. frame[r][n] = g /\ ~(r = current /\ n = Loading) /\ g # None
        BY <1>6, <2>1, <3>2, Layout
      <4>2. n \in Code /\ diskMap[r][n] = b
        BY <4>1
      <4> QED BY <1>9, <4>1, <4>2
    <3> QED BY <3>1, <3>2
  <2>2. CASE frame'[p][l] = g
    BY <2>1, <2>2
  <2>3. CASE frame'[p][l] # g
    <3>1. /\ frame'[p][l] = frame[p][l] /\ frame'[q][m] = frame[q][m]
          /\ frame[p][l] # None /\ frame[p][l] = frame[q][m]
      BY <1>6, <2>3
    <3>2. \/ l = m /\ (p = q \/ l \in Heap)
          \/ l \in Code /\ m \in Code /\ diskMap[p][l] = diskMap[q][m]
      BY <3>1 DEF ProcessesInv, MemoryOK, PagesApart
    <3>3. /\ l \in Code => diskMap'[p][l] = diskMap[p][l]
          /\ m \in Code => diskMap'[q][m] = diskMap[q][m]
      BY <1>9, <3>1
    <3> QED BY <3>2, <3>3
  <2> QED BY <2>2, <2>3
<1>11. MapsOK'
  <2>1. ASSUME NEW q \in Pid
        PROVE  /\ Injective(diskMap'[q])
               /\ \A j \in Code : frame'[q][j] # None => diskMap'[q][j] # None
    <3>1. /\ Injective(diskMap[q])
          /\ \A j \in Code : frame[q][j] # None => diskMap[q][j] # None
      BY DEF ProcessesInv, MemoryOK, MapsOK
    <3>2. CASE q # current
      BY <1>9, <3>1, <3>2
    <3>3. CASE q = current
      BY <1>6, <1>9, <3>1, <3>3, Layout
    <3> QED BY <3>2, <3>3
  <2>2. \A q \in Pid : Injective(diskMap'[q]) <=> Injective(diskMap[q])' 
    BY DEF Injective
  <2> QED BY <2>1, <2>2 DEF MapsOK, Injective
<1>12. ProcsOK'
  <2>1. /\ "user" \in Stages /\ NoCall \in Call /\ NoCall.op = "none" /\ current # Idle
        /\ ppid' \in [Pid -> Pid \cup {None}] /\ \A p \in Pid : ppid'[p] \in {ppid[p], current}
    BY CurrentFacts, CallTypes DEF Stages
  <2>2. stage'[current] = "user" /\ call'[current] = NoCall
    BY <1>1, CurrentFacts
  <2>3. \A p \in Pid : p = current => Working(p)'
    BY <2>1, <2>2 DEF Working
  <2>4. frame'[current][Loading] = None
    BY <1>2, <1>6, CurrentFacts, Layout
  <2>5. \A p \in Pid : p # current => frame'[p][Loading] = frame[p][Loading]
    BY <1>9
  <2>6. \A p \in Pid : p # current /\ ~MyChild(p) =>
            frame'[p] = frame[p] /\ diskMap'[p] = diskMap[p]
    BY <1>9
  <2>7. frame'[current][Loading] # None <=> "user" = "loaded"
    BY <2>4
  <2> QED BY <1>1, <2>1, <2>3, <2>5, <2>6, <2>7, StillKeeps
<1> QED BY <1>2, <1>4, <1>5, <1>6, <1>8, <1>10, <1>11, <1>12

LEMMA ShareCodeKeeps ==
    ASSUME Parameters, ProcessesInv, ShareCode
    PROVE  ProcessesInv'
<1>0. PICK q \in Pid, j \in Code :
        /\ diskMap[q][j] = call[current].block /\ frame[q][j] # None
        /\ users' = [users EXCEPT ![frame[q][j]] = @ + 1]
        /\ Install(frame[q][j])
  BY DEF ShareCode
<1>1. PICK g, k :
        /\ g = frame[q][j] /\ k = call[current].part
        /\ diskMap[q][j] = call[current].block /\ g # None
        /\ users' = [users EXCEPT ![g] = @ + 1]
        /\ Install(g)
  BY <1>0
<1>2. stage[current] = "code" /\ UNCHANGED schedVars /\ ppid' = ppid /\ free' = free
  BY DEF ShareCode, At
<1>3. j \in Logical /\ g \in Page /\ MemoryOK
  <2>1. j \in Logical
    BY Layout
  <2>2. frame[q][j] \in Page \cup {None}
    BY <2>1, CurrentFacts
  <2> QED BY <1>1, <2>1, <2>2 DEF ProcessesInv
<1>4. \A r \in Pid, m \in Logical : frame[r][m] = g =>
         m \in Code /\ diskMap[r][m] = call[current].block
  <2> SUFFICES ASSUME NEW r \in Pid, NEW m \in Logical, frame[r][m] = g
               PROVE  m \in Code /\ diskMap[r][m] = call[current].block
    OBVIOUS
  <2>1. \/ m = j /\ (r = q \/ m \in Heap)
        \/ m \in Code /\ diskMap[r][m] = diskMap[q][j]
    BY <1>1, <1>3 DEF MemoryOK, PagesApart
  <2>2. j \notin Heap
    BY Layout
  <2> QED BY <1>1, <2>1, <2>2
<1>5. /\ PagesApart' /\ MapsOK' /\ ProcsOK'
      /\ frame' \in [Pid -> [Logical -> Page \cup {None}]]
      /\ diskMap' \in [Pid -> [Code -> Int]]
      /\ k \in Code /\ frame[current][k] = None
      /\ \A r \in Pid, m \in Logical :
            frame'[r][m] = IF r = current /\ m = k THEN g
                           ELSE IF r = current /\ m = Loading THEN None ELSE frame[r][m]
  <2>1. /\ stage[current] \in {"code", "loaded"} /\ g \in Page /\ Install(g)
        /\ k = call[current].part
        /\ \A r \in Pid, m \in Logical : frame[r][m] = g =>
              \/ m \in Code /\ diskMap[r][m] = call[current].block
              \/ r = current /\ m = Loading
    BY <1>1, <1>2, <1>3, <1>4
  <2> QED BY <1>2, <2>1, InstallKeeps
<1>6. users[g] \in Nat /\ users[g] >= 1
  BY <1>1, <1>3, OwnersCount
<1>7. /\ users' \in [Page -> Nat]
      /\ \A h \in Page : users'[h] = IF h = g THEN users[g] + 1 ELSE users[h]
  BY <1>1, <1>3, <1>6 DEF MemoryOK, MemTypes
<1>8. MemTypes'
  BY <1>2, <1>3, <1>5, <1>7 DEF MemoryOK, MemTypes
<1>9. FreeCounted'
  <2>1. \A h \in Page : users'[h] = 0 <=> users[h] = 0
    BY <1>6, <1>7
  <2> QED BY <1>2, <1>3, <2>1, SameFree
<1>10. frame[current][Loading] = None /\ k \in Logical /\ k # Loading /\ current \in Pid
  BY <1>2, <1>5, CurrentFacts, Layout DEF ProcessesInv, ProcsOK, EntriesOK
<1>11. ASSUME NEW h \in Page
       PROVE  users'[h] = Cardinality(Owners(h)')
  <2>1. CASE h = g
    <3>1. /\ frame[current][k] # g
          /\ \A r \in Pid, m \in Logical :
                frame'[r][m] = g <=> frame[r][m] = g \/ (r = current /\ m = k)
      BY <1>3, <1>5, <1>10, Layout
    <3>2. Cardinality(Owners(g)') = Cardinality(Owners(g)) + 1
      BY <1>3, <1>10, <3>1, OneMoreOwner
    <3>3. users[g] = Cardinality(Owners(g))
      BY <1>3, OwnersCount
    <3> QED BY <1>7, <2>1, <3>2, <3>3
  <2>2. CASE h # g
    <3>1. \A r \in Pid, m \in Logical : frame'[r][m] = h <=> frame[r][m] = h
      BY <1>5, <1>10, <2>2, Layout
    <3> QED BY <1>3, <1>7, <2>2, <3>1, SameOwners, OwnersCount
  <2> QED BY <2>1, <2>2
<1> QED BY <1>5, <1>8, <1>9, <1>11 DEF ProcessesInv, MemoryOK, Counted

LEMMA CodeLoadedKeeps ==
    ASSUME Parameters, ProcessesInv, CodeLoaded
    PROVE  ProcessesInv'
<1>0. PICK g, k : g = frame[current][Loading] /\ k = call[current].part
  OBVIOUS
<1>1. /\ stage[current] = "loaded" /\ UNCHANGED schedVars /\ ppid' = ppid
      /\ free' = free /\ users' = users /\ Install(g)
  BY <1>0 DEF CodeLoaded, At, counts
<1>2. Loading \in Logical /\ g # None /\ g \in Page /\ MemoryOK /\ current \in Pid
  <2>1. Loading \in Logical /\ current \in Pid
    BY CurrentFacts, Layout
  <2>2. frame[current][Loading] \in Page \cup {None}
    BY <2>1, CurrentFacts
  <2>3. frame[current][Loading] # None
    BY <1>1, <2>1 DEF ProcessesInv, ProcsOK, EntriesOK
  <2> QED BY <1>0, <2>1, <2>2, <2>3 DEF ProcessesInv
<1>3. \A r \in Pid, m \in Logical : frame[r][m] = g => r = current /\ m = Loading
  BY <1>0, <1>2, Layout DEF MemoryOK, PagesApart
<1>4. /\ PagesApart' /\ MapsOK' /\ ProcsOK'
      /\ frame' \in [Pid -> [Logical -> Page \cup {None}]]
      /\ diskMap' \in [Pid -> [Code -> Int]]
      /\ k \in Code /\ frame[current][k] = None
      /\ \A r \in Pid, m \in Logical :
            frame'[r][m] = IF r = current /\ m = k THEN g
                           ELSE IF r = current /\ m = Loading THEN None ELSE frame[r][m]
  BY <1>0, <1>1, <1>2, <1>3, InstallKeeps
<1>5. MemTypes'
  BY <1>1, <1>2, <1>4 DEF MemoryOK, MemTypes
<1>6. FreeCounted'
  BY <1>1, <1>2, SameFree
<1>7. k \in Logical /\ k # Loading
  BY <1>4, Layout
<1>8. ASSUME NEW h \in Page
      PROVE  users'[h] = Cardinality(Owners(h)')
  <2>1. CASE h = g
    <3>1. Owners(g) = {<<current, Loading>>}
      BY <1>0, <1>2, <1>3, OwnersEntries
    <3>2. Owners(g)' = {<<current, k>>}
      BY <1>2, <1>3, <1>4, <1>7, OwnersEntries
    <3>3. \A x : Cardinality({x}) = 1
      BY FS_Singleton
    <3>4. Cardinality(Owners(g)) = 1
      BY <3>1, <3>3
    <3>5. Cardinality(Owners(g)') = 1
      BY <3>2, <3>3
    <3> QED BY <1>1, <1>2, <2>1, <3>4, <3>5, OwnersCount
  <2>2. CASE h # g
    <3>0. h # None
      BY Layout
    <3>1. \A r \in Pid, m \in Logical : frame'[r][m] = h <=> frame[r][m] = h
      <4> SUFFICES ASSUME NEW r \in Pid, NEW m \in Logical
                   PROVE  frame'[r][m] = h <=> frame[r][m] = h
        OBVIOUS
      <4>1. frame'[r][m] = IF r = current /\ m = k THEN g
                           ELSE IF r = current /\ m = Loading THEN None ELSE frame[r][m]
        BY <1>4
      <4> QED BY <1>0, <1>4, <2>2, <3>0, <4>1
    <3> QED BY <1>1, <1>2, <2>2, <3>1, SameOwners, OwnersCount
  <2> QED BY <2>1, <2>2
<1> QED BY <1>4, <1>5, <1>6, <1>8 DEF ProcessesInv, MemoryOK, Counted
-----------------------------------------------------------------------------
\* A step that touches the process table only.
LEMMA TableKeeps ==
    ASSUME Parameters, ProcessesInv, UNCHANGED <<counts, frame, diskMap, ppid, stage, call>>,
           SchedTypeOK', OneRunning', Waiters', NoIdleMemory',
           \A p \in Pid : /\ status'[p] = "TERMINATED" <=> status[p] = "TERMINATED"
                          /\ status'[p] = "ALLOCATED" <=> status[p] = "ALLOCATED"
    PROVE  ProcessesInv'
<1>1. MemoryOK'
  BY MemorySame DEF ProcessesInv
<1>2. ProcTypes' /\ EntriesOK' /\ ChildrenApart'
  BY DEF ProcessesInv, ProcsOK, ProcTypes, EntriesOK, ChildrenApart
<1>3. ASSUME NEW p \in Pid
      PROVE  Working(p)'
  <2>1. Working(p) /\ call[p] \in Call
    BY DEF ProcessesInv, ProcsOK, ProcTypes
  <2>2. call[p].op = "fork" => call[p].child \in Pid
    BY <2>1, CallFields
  <2> QED BY <2>1, <2>2 DEF Working
<1> QED BY <1>1, <1>2, <1>3 DEF ProcessesInv, ProcsOK

\* The current process goes to sleep, or to the end of the queue, with status x.
LEMMA GiveUpEffect ==
    ASSUME Parameters, ProcessesInv, NEW x \in State \ {"RUNNING", "TERMINATED", "ALLOCATED"},
           SwitchFrom([status EXCEPT ![current] = x]), current = Idle => x = "READY",
           waitingOn' \in [Pid -> Int],
           \A p \in Pid : p # current => waitingOn'[p] = waitingOn[p],
           x = "WAIT_PROCESS" => /\ waitingOn'[current] \in Pid
                                 /\ status[waitingOn'[current]] # "TERMINATED",
           ppid' = ppid
    PROVE  /\ SchedTypeOK' /\ OneRunning' /\ Waiters'
           /\ \A p \in Pid :
                /\ status'[p] = "TERMINATED" <=> status[p] = "TERMINATED"
                /\ status'[p] = "ALLOCATED" <=> status[p] = "ALLOCATED"
                /\ status'[p] = "WAIT_MEM" => status[p] = "WAIT_MEM" \/ (p = current /\ x = "WAIT_MEM")
<1> DEFINE st == [status EXCEPT ![current] = x]
<1>1. /\ st \in [Pid -> State] /\ st[current] = x
      /\ \A p \in Pid : p # current => st[p] = status[p]
  BY CurrentFacts
<1>2. /\ status' \in [Pid -> State] /\ current' \in Pid /\ OneRunning'
      /\ \A p \in Pid : \/ status'[p] = st[p]
                        \/ status'[p] = "RUNNING" /\ Runnable(st[p])
  BY <1>1, SwitchRuns
<1>3. \A p \in Pid :
        /\ status'[p] = "TERMINATED" <=> status[p] = "TERMINATED"
        /\ status'[p] = "ALLOCATED" <=> status[p] = "ALLOCATED"
        /\ status'[p] = "WAIT_MEM" => status[p] = "WAIT_MEM" \/ (p = current /\ x = "WAIT_MEM")
        /\ status'[p] = "WAIT_PROCESS" => status[p] = "WAIT_PROCESS" \/ (p = current /\ x = "WAIT_PROCESS")
        /\ p = current => (status'[p] = "WAIT_PROCESS" => x = "WAIT_PROCESS")
  BY <1>1, <1>2, CurrentFacts DEF Runnable
<1>4. Waiters'
  <2>1. WaitedForLives /\ \A p \in Pid : status[p] = "WAIT_PROCESS" => waitingOn[p] \in Pid
    BY DEF ProcessesInv, ProcsOK, Waiters
  <2>2. \A p \in Pid : status'[p] = "WAIT_PROCESS" =>
           waitingOn'[p] \in Pid /\ status[waitingOn'[p]] # "TERMINATED"
    BY <1>3, <2>1 DEF WaitedForLives
  <2>3. \A p \in Pid : ppid'[p] # None => ppid'[p] \in Pid /\ status[ppid'[p]] # "TERMINATED"
    BY <2>1, CurrentFacts DEF WaitedForLives
  <2> QED BY <1>3, <2>2, <2>3 DEF Waiters, WaitedForLives
<1> QED BY <1>2, <1>3, <1>4 DEF SchedTypeOK

LEMMA WaitForPageKeeps ==
    ASSUME Parameters, ProcessesInv, WaitForPage
    PROVE  ProcessesInv'
<1>1. /\ stage[current] # "user" /\ free = 0
      /\ SwitchFrom([status EXCEPT ![current] = "WAIT_MEM"])
      /\ waitingOn' = waitingOn /\ ppid' = ppid /\ free' = free
      /\ UNCHANGED <<counts, frame, diskMap, ppid, stage, call>>
  BY DEF WaitForPage, NeedsPage, Sleep, memory, calls, counts
<1>2. /\ current # Idle /\ waitingOn \in [Pid -> Int]
      /\ "WAIT_MEM" \in State \ {"RUNNING", "TERMINATED", "ALLOCATED"}
  BY <1>1, CurrentFacts
     DEF State, Sleeping, ProcessesInv, ProcsOK, ProcTypes, SchedTypeOK
<1>3. /\ SchedTypeOK' /\ OneRunning' /\ Waiters'
      /\ \A p \in Pid : /\ status'[p] = "TERMINATED" <=> status[p] = "TERMINATED"
                        /\ status'[p] = "ALLOCATED" <=> status[p] = "ALLOCATED"
  BY <1>1, <1>2, GiveUpEffect
<1>4. NoIdleMemory'
  BY <1>1 DEF NoIdleMemory
<1> QED BY <1>1, <1>3, <1>4, TableKeeps

LEMMA WaitForKeeps ==
    ASSUME Parameters, ProcessesInv, NEW q \in Pid, WaitFor(q)
    PROVE  ProcessesInv'
<1>1. /\ current # Idle /\ status[q] # "TERMINATED"
      /\ SwitchFrom([status EXCEPT ![current] = "WAIT_PROCESS"])
      /\ waitingOn' = [waitingOn EXCEPT ![current] = q] /\ ppid' = ppid /\ free' = free
      /\ UNCHANGED <<counts, frame, diskMap, ppid, stage, call>>
  BY DEF WaitFor, User, SleepOn, memory, calls, counts
<1>2. /\ waitingOn' \in [Pid -> Int] /\ waitingOn'[current] = q
      /\ \A p \in Pid : p # current => waitingOn'[p] = waitingOn[p]
      /\ "WAIT_PROCESS" \in State \ {"RUNNING", "TERMINATED", "ALLOCATED"}
  BY <1>1, CurrentFacts
     DEF State, Sleeping, ProcessesInv, ProcsOK, ProcTypes, SchedTypeOK, Pid
<1>3. /\ SchedTypeOK' /\ OneRunning' /\ Waiters'
      /\ \A p \in Pid : /\ status'[p] = "TERMINATED" <=> status[p] = "TERMINATED"
                        /\ status'[p] = "ALLOCATED" <=> status[p] = "ALLOCATED"
                        /\ status'[p] = "WAIT_MEM" => status[p] = "WAIT_MEM"
  BY <1>1, <1>2, GiveUpEffect
<1>4. NoIdleMemory'
  BY <1>1, <1>3 DEF ProcessesInv, ProcsOK, NoIdleMemory
<1> QED BY <1>1, <1>3, <1>4, TableKeeps

LEMMA TimerKeeps ==
    ASSUME Parameters, ProcessesInv, Timer
    PROVE  ProcessesInv'
<1>1. /\ SwitchFrom([status EXCEPT ![current] = "READY"])
      /\ waitingOn' = waitingOn /\ ppid' = ppid /\ free' = free
      /\ UNCHANGED <<counts, frame, diskMap, ppid, stage, call>>
  BY DEF Timer, Preempt, memory, calls, counts
<1>2. /\ waitingOn \in [Pid -> Int]
      /\ "READY" \in State \ {"RUNNING", "TERMINATED", "ALLOCATED"}
  BY DEF State, Sleeping, ProcessesInv, ProcsOK, ProcTypes, SchedTypeOK
<1>3. /\ SchedTypeOK' /\ OneRunning' /\ Waiters'
      /\ \A p \in Pid : /\ status'[p] = "TERMINATED" <=> status[p] = "TERMINATED"
                        /\ status'[p] = "ALLOCATED" <=> status[p] = "ALLOCATED"
                        /\ status'[p] = "WAIT_MEM" => status[p] = "WAIT_MEM"
  BY <1>1, <1>2, GiveUpEffect
<1>4. NoIdleMemory'
  BY <1>1, <1>3 DEF ProcessesInv, ProcsOK, NoIdleMemory
<1> QED BY <1>1, <1>3, <1>4, TableKeeps

\* Processes are woken by the one that runs.
LEMMA WokenKeeps ==
    ASSUME Parameters, ProcessesInv, UNCHANGED <<counts, frame, diskMap, ppid, stage, call>>,
           waitingOn' = waitingOn, current' = current, status' \in [Pid -> State],
           \A p \in Pid : \/ status'[p] = status[p]
                          \/ status[p] \in Sleeping /\ status'[p] = "READY"
    PROVE  ProcessesInv'
<1>1. \A p \in Pid : status[p] \in Sleeping =>
         status[p] \notin {"READY", "RUNNING", "TERMINATED", "ALLOCATED", "CREATED"}
  BY DEF Sleeping
<1>2. \A p \in Pid : /\ status'[p] = "TERMINATED" <=> status[p] = "TERMINATED"
                     /\ status'[p] = "ALLOCATED" <=> status[p] = "ALLOCATED"
                     /\ status'[p] = "RUNNING" <=> status[p] = "RUNNING"
                     /\ status'[p] = "WAIT_MEM" => status[p] = "WAIT_MEM"
                     /\ status'[p] = "WAIT_PROCESS" => status[p] = "WAIT_PROCESS"
  BY <1>1
<1>3. SchedTypeOK' /\ OneRunning'
  <2>1. status[Idle] \in {"READY", "RUNNING"} /\ Idle \in Pid
    BY Layout DEF ProcessesInv, ProcsOK, ProcTypes, OneRunning
  <2>2. status'[Idle] = status[Idle]
    BY <1>1, <2>1
  <2> QED BY <1>2, <2>1, <2>2
         DEF ProcessesInv, ProcsOK, ProcTypes, SchedTypeOK, OneRunning
<1>4. Waiters'
  BY <1>2, CurrentFacts DEF ProcessesInv, ProcsOK, Waiters, WaitedForLives
<1>5. NoIdleMemory'
  BY <1>2 DEF ProcessesInv, ProcsOK, NoIdleMemory, counts
<1> QED BY <1>2, <1>3, <1>4, <1>5, TableKeeps

LEMMA SignalKeeps ==
    ASSUME Parameters, ProcessesInv, Signal
    PROVE  ProcessesInv'
<1>1. /\ waitingOn' = waitingOn /\ current' = current
      /\ UNCHANGED <<counts, frame, diskMap, ppid, stage, call>>
      /\ status' = Wake(status, "WAIT_PROCESS", current)
  BY DEF Signal, memory, calls
<1>2. "WAIT_PROCESS" \in Sleeping
  BY DEF Sleeping
<1>3. status' \in [Pid -> State]
  BY <1>1, <1>2, CurrentFacts, WakeEffect
<1>4. \A p \in Pid : \/ status'[p] = status[p]
                     \/ status[p] \in Sleeping /\ status'[p] = "READY"
  BY <1>1, <1>2 DEF Wake
<1> QED BY <1>1, <1>3, <1>4, WokenKeeps

LEMMA DiskInterruptKeeps ==
    ASSUME Parameters, ProcessesInv, DiskInterrupt
    PROVE  ProcessesInv'
<1>1. PICK p \in Pid : status[p] = "WAIT_DISK" /\ status' = [status EXCEPT ![p] = "READY"]
  BY DEF DiskInterrupt
<1>2. /\ waitingOn' = waitingOn /\ current' = current
      /\ UNCHANGED <<counts, frame, diskMap, ppid, stage, call>>
  BY DEF DiskInterrupt, calls
<1>3. "WAIT_DISK" \in Sleeping /\ "READY" \in State
  BY DEF Sleeping, State
<1>4. /\ status' \in [Pid -> State]
      /\ \A q \in Pid : \/ status'[q] = status[q]
                        \/ status[q] \in Sleeping /\ status'[q] = "READY"
  BY <1>1, <1>3, CurrentFacts
<1> QED BY <1>2, <1>4, WokenKeeps

LEMMA WriteKeeps ==
    ASSUME Parameters, ProcessesInv, NEW l, NEW w, Write(l, w)
    PROVE  ProcessesInv'
<1>1. UNCHANGED <<status, waitingOn, current, counts, frame, diskMap, ppid, stage, call>>
  BY DEF Write, schedVars, calls
<1> QED BY <1>1, CurrentFacts, WokenKeeps

LEMMA StartLoadKeeps ==
    ASSUME Parameters, ProcessesInv, StartLoad
    PROVE  ProcessesInv'
<1>1. /\ stage[current] = "page" /\ GetPage(current, Loading)
      /\ SwitchFrom([status EXCEPT ![current] = "WAIT_DISK"]) /\ waitingOn' = waitingOn
      /\ diskMap' = diskMap /\ ppid' = ppid /\ call' = call
      /\ stage' = [stage EXCEPT ![current] = "loaded"]
  BY DEF StartLoad, At, Goto, Sleep
<1>2. /\ current # Idle /\ waitingOn \in [Pid -> Int]
      /\ "WAIT_DISK" \in State \ {"RUNNING", "TERMINATED", "ALLOCATED"}
  BY <1>1, CurrentFacts
     DEF State, Sleeping, ProcessesInv, ProcsOK, ProcTypes, SchedTypeOK
<1>3. /\ SchedTypeOK' /\ OneRunning' /\ Waiters'
      /\ \A p \in Pid : /\ status'[p] = "TERMINATED" <=> status[p] = "TERMINATED"
                        /\ status'[p] = "ALLOCATED" <=> status[p] = "ALLOCATED"
                        /\ status'[p] = "WAIT_MEM" => status[p] = "WAIT_MEM"
  BY <1>1, <1>2, GiveUpEffect
<1>4. /\ Loading \in Logical \ Code /\ frame[current][Loading] = None
      /\ current \in Pid /\ MemoryOK
  BY <1>1, CurrentFacts, Layout DEF ProcessesInv, ProcsOK, EntriesOK
<1>5. /\ MemoryOK' /\ free # 0
      /\ \A q \in Pid, m \in Logical : q # current \/ m # Loading => frame'[q][m] = frame[q][m]
      /\ \A q \in Pid : q # current => frame'[q] = frame[q]
  BY <1>1, <1>4, GetMemory
<1>6. frame'[current][Loading] # None
  <2>1. PICK g \in Page : frame' = [frame EXCEPT ![current][Loading] = g]
    BY <1>1 DEF GetPage
  <2>2. frame'[current][Loading] = g
    BY <1>4, <2>1, CurrentFacts
  <2> QED BY <2>2, Layout
<1>7. NoIdleMemory'
  BY <1>3, <1>5 DEF ProcessesInv, ProcsOK, NoIdleMemory
<1>8. /\ stage'[current] = "loaded"
      /\ \A p \in Pid : p # current => stage'[p] = stage[p]
      /\ stage' \in [Pid -> Stages]
  BY <1>1, CurrentFacts DEF Stages
<1>9. ProcTypes' /\ ChildrenApart'
  BY <1>1, <1>3, <1>8 DEF ProcessesInv, ProcsOK, ProcTypes, ChildrenApart, Stages
<1>10. \A p \in Pid : p = current => Working(p)'
  <2>1. /\ call[current].op \in {"code", "exec"} /\ call[current].part \in Code
        /\ call[current].part \in Logical /\ call[current].part # Loading
    BY <1>1, CurrentFacts, CallFields, Layout DEF Working
  <2>2. \A k \in Code : frame'[current][k] = frame[current][k]
    BY <1>5, CurrentFacts, Layout
  <2> QED BY <1>1, <1>8, <2>1, <2>2, CurrentFacts, ZenonT(40) DEF Working
<1>11. stage'[Idle] = "user" /\ status'[current] \notin {"TERMINATED", "ALLOCATED"}
  BY <1>2, <1>3, <1>8, CurrentFacts, Layout
<1>12. ProcsOK'
  BY <1>1, <1>3, <1>5, <1>6, <1>7, <1>8, <1>9, <1>10, <1>11, Layout, StepKeeps
<1> QED BY <1>5, <1>12 DEF ProcessesInv

LEMMA ForkKeeps ==
    ASSUME Parameters, ProcessesInv, Fork
    PROVE  ProcessesInv'
<1>1. PICK c \in Pid, s \in {"heap", "area"} :
        /\ status[c] = "TERMINATED" /\ status' = [status EXCEPT ![c] = "ALLOCATED"]
        /\ stage' = [stage EXCEPT ![current] = s]
        /\ call' = [call EXCEPT ![current] = [op |-> "fork", child |-> c]]
  <2>1. PICK c \in Pid :
          /\ First({d \in Pid : d >= 1 /\ status[d] = "TERMINATED"}, c)
          /\ status' = [status EXCEPT ![c] = "ALLOCATED"]
          /\ Enter(IF Missing(current, Heap) # {} THEN "heap" ELSE "area",
                   [op |-> "fork", child |-> c])
    BY DEF Fork
  <2>2. status[c] = "TERMINATED"
    BY <2>1 DEF First
  <2>3. CASE Missing(current, Heap) # {}
    BY <2>1, <2>2, <2>3 DEF Enter, Goto
  <2>4. CASE Missing(current, Heap) = {}
    BY <2>1, <2>2, <2>4 DEF Enter, Goto
  <2> QED BY <2>3, <2>4
<1>2. /\ stage[current] = "user" /\ current # Idle
      /\ waitingOn' = waitingOn /\ current' = current /\ ppid' = ppid /\ free' = free
      /\ UNCHANGED <<counts, frame, diskMap>> /\ frame' = frame /\ diskMap' = diskMap
  BY DEF Fork, User, memory, counts
<1>3. /\ c # current /\ frame[c] = NoPages /\ call[current].op = "none"
      /\ status' \in [Pid -> State]
      /\ \A p \in Pid : status'[p] = IF p = c THEN "ALLOCATED" ELSE status[p]
  BY <1>1, <1>2, CurrentFacts DEF State, Working, ProcessesInv, ProcsOK, EntriesOK
<1>4. /\ stage'[current] = s /\ call'[current] = [op |-> "fork", child |-> c]
      /\ \A p \in Pid : p # current => stage'[p] = stage[p] /\ call'[p] = call[p]
      /\ stage' \in [Pid -> Stages] /\ call' \in [Pid -> Call]
  BY <1>1, CurrentFacts, CallTypes DEF Stages
<1>5. ProcTypes'
  <2>1. OneRunning'
    BY <1>1, <1>2, <1>3 DEF ProcessesInv, ProcsOK, ProcTypes, OneRunning
  <2> QED BY <1>2, <1>3, <1>4, <2>1
         DEF ProcessesInv, ProcsOK, ProcTypes, SchedTypeOK, Stages
<1>6. Waiters'
  BY <1>1, <1>2, <1>3 DEF ProcessesInv, ProcsOK, ProcTypes, Waiters, WaitedForLives
<1>7. NoIdleMemory'
  BY <1>2, <1>3 DEF ProcessesInv, ProcsOK, NoIdleMemory
<1>8. ChildrenApart'
  <2>1. \A p \in Pid : p # current /\ call[p].op = "fork" => call[p].child # c
    BY <1>1 DEF ProcessesInv, ProcsOK, Working
  <2> QED BY <1>3, <1>4, <2>1 DEF ProcessesInv, ProcsOK, ChildrenApart
<1>9. \A p \in Pid : p = current => Working(p)'
  BY <1>2, <1>3, <1>4 DEF Working
<1>10. /\ stage'[Idle] = "user" /\ frame'[current][Loading] = None
       /\ status'[current] = "RUNNING"
  BY <1>2, <1>3, <1>4, CurrentFacts, Layout DEF ProcessesInv, ProcsOK, EntriesOK
<1>11. frame'[current][Loading] # None <=> stage'[current] = "loaded"
  BY <1>4, <1>10
<1>12. \A p \in Pid : p # current =>
          /\ status'[p] \in {"TERMINATED", "ALLOCATED"} =>
                status[p] \in {"TERMINATED", "ALLOCATED"}
          /\ status'[p] = "TERMINATED" => status[p] = "TERMINATED"
          /\ status[p] = "ALLOCATED" => status'[p] = "ALLOCATED"
  BY <1>1, <1>3
<1>13. ProcsOK'
  BY <1>2, <1>4, <1>5, <1>6, <1>7, <1>8, <1>9, <1>10, <1>11, <1>12, StepKeeps
<1> QED BY <1>2, <1>13, MemorySame DEF ProcessesInv

LEMMA ExecKeeps ==
    ASSUME Parameters, ProcessesInv, NEW prog \in Programs, Exec(prog)
    PROVE  ProcessesInv'
<1>0. PICK L, S : /\ L = Logical \ {Area} /\ L \in SUBSET Logical
                  /\ S = Pages(current) \ {frame[current][Area]}
  OBVIOUS
<1> DEFINE c == [op |-> "exec", prog |-> prog, child |-> current,
                 block |-> prog[FirstCode], part |-> FirstCode]
<1>1. /\ stage[current] = "user" /\ current # Idle
      /\ waitingOn' = waitingOn /\ current' = current /\ ppid' = ppid
      /\ Release(S)
      /\ frame' = [frame EXCEPT ![current] = [NoPages EXCEPT ![Area] = frame[current][Area]]]
      /\ diskMap' = [diskMap EXCEPT ![current] = NoMap]
      /\ status' = Woken(status, Pages(current))
      /\ stage' = [stage EXCEPT ![current] = "stack"]
      /\ call' = [call EXCEPT ![current] = c]
  BY <1>0 DEF Exec, User, Enter, Goto
<1>2. /\ call[current].op = "none" /\ current \in Pid
      /\ prog \in [Code -> Int] /\ c \in Call /\ FirstCode \in Code
  BY <1>1, CurrentFacts, CallTypes, Layout DEF Working, Parameters
<1>3. /\ S \in SUBSET Page /\ \A g \in S : \E l \in L : frame[current][l] = g
      /\ \A l \in L : frame[current][l] # None => frame[current][l] \in S
  <2>1. \A l \in Logical : frame[current][l] # None /\ l # Area =>
           frame[current][l] # frame[current][Area]
    BY <1>2, OncePerProcess, Layout DEF ProcessesInv
  <2>2. \A l \in Logical : frame[current][l] \in Page \cup {None}
    BY CurrentFacts
  <2> QED BY <1>0, <2>1, <2>2 DEF Pages
<1>4. /\ frame' = [frame EXCEPT ![current] =
                      [l \in Logical |-> IF l \in L THEN None ELSE frame[current][l]]]
      /\ diskMap' \in [Pid -> [Code -> Int]]
  <2>1. [NoPages EXCEPT ![Area] = frame[current][Area]]
          = [l \in Logical |-> IF l \in L THEN None ELSE frame[current][l]]
    BY <1>0 DEF NoPages
  <2>2. NoMap \in [Code -> Int]
    BY DEF NoMap, None
  <2> QED BY <1>1, <2>1, <2>2, CurrentFacts
<1>5. /\ frame' \in [Pid -> [Logical -> Page \cup {None}]]
      /\ \A q \in Pid, m \in Logical :
            frame'[q][m] = IF q = current /\ m \in L THEN None ELSE frame[q][m]
  BY <1>4, CurrentFacts
<1>6. /\ MemTypes' /\ Counted' /\ free' >= free
      /\ free' # free => \E g \in S : users[g] = 1
  <2>1. Cleared(current, L, S)
    BY <1>0, <1>2, <1>3, <1>5 DEF Cleared
  <2>2. MemoryOK /\ Release(S) /\ diskMap' \in [Pid -> [Code -> Int]]
    BY <1>1, <1>4 DEF ProcessesInv
  <2> QED BY <2>1, <2>2, ReleaseCounts
<1>7. \A q \in Pid : q # current => frame'[q] = frame[q] /\ diskMap'[q] = diskMap[q]
  BY <1>1, CurrentFacts
<1>8. /\ diskMap'[current] = NoMap /\ \A k \in Code : frame'[current][k] = None
      /\ frame'[current][Loading] = None
  BY <1>0, <1>1, <1>2, <1>5, CurrentFacts, Layout, SMTT(30)
<1>9. PagesApart' /\ MapsOK'
  BY <1>2, <1>5, <1>7, <1>8, ApartOfLess DEF ProcessesInv
<1>10. MemoryOK'
  BY <1>6, <1>9 DEF MemoryOK
<1>11. /\ status' \in [Pid -> State]
       /\ \A p \in Pid : \/ status'[p] = status[p]
                         \/ status[p] = "WAIT_MEM" /\ status'[p] = "READY"
       /\ (\E g \in Pages(current) : users[g] = 1) =>
             \A p \in Pid : p >= 1 => status'[p] # "WAIT_MEM"
  <2>1. "WAIT_MEM" \in Sleeping
    BY DEF Sleeping
  <2>2. CASE \E g \in Pages(current) : users[g] = 1
    <3>1. status' = WakeAll(status, "WAIT_MEM")
      BY <1>1, <2>2 DEF Woken
    <3>2. status' \in [Pid -> State]
      BY <2>1, <3>1, CurrentFacts, WakeEffect
    <3> QED BY <3>1, <3>2, CurrentFacts DEF WakeAll
  <2>3. CASE ~ \E g \in Pages(current) : users[g] = 1
    BY <1>1, <2>3, CurrentFacts DEF Woken
  <2> QED BY <2>2, <2>3
<1>12. /\ stage'[current] = "stack" /\ call'[current] = c
       /\ \A p \in Pid : p # current => stage'[p] = stage[p] /\ call'[p] = call[p]
       /\ stage' \in [Pid -> Stages] /\ call' \in [Pid -> Call]
  BY <1>1, <1>2, CurrentFacts DEF Stages
<1>13. status[Idle] \in {"READY", "RUNNING"} /\ Idle \in Pid /\ \A p \in Pid : p # Idle => p >= 1
  BY Layout DEF ProcessesInv, ProcsOK, ProcTypes, OneRunning, Pid, Idle
<1>14. ProcTypes'
  <2>1. OneRunning'
    BY <1>1, <1>11, <1>13, CurrentFacts DEF ProcessesInv, ProcsOK, ProcTypes, OneRunning
  <2> QED BY <1>1, <1>11, <1>12, <2>1
         DEF ProcessesInv, ProcsOK, ProcTypes, SchedTypeOK, Stages
<1>15. Waiters'
  <2>1. WaitedForLives /\ \A p \in Pid : status[p] = "WAIT_PROCESS" => waitingOn[p] \in Pid
    BY DEF ProcessesInv, ProcsOK, Waiters
  <2>2. \A p \in Pid : /\ status'[p] = "WAIT_PROCESS" => status[p] = "WAIT_PROCESS"
                       /\ status'[p] = "TERMINATED" => status[p] = "TERMINATED"
    BY <1>11
  <2> QED BY <1>1, <2>1, <2>2, CurrentFacts DEF Waiters, WaitedForLives
<1>16. NoIdleMemory'
  <2>1. CASE free' = free
    BY <1>11, <2>1 DEF ProcessesInv, ProcsOK, NoIdleMemory
  <2>2. CASE free' # free
    BY <1>0, <1>6, <1>11, <1>13, <2>2 DEF NoIdleMemory
  <2> QED BY <2>1, <2>2
<1>17. ChildrenApart'
  BY <1>12 DEF ProcessesInv, ProcsOK, ChildrenApart
<1>18. \A p \in Pid : p = current => Working(p)'
  BY <1>8, <1>12 DEF Working
<1>19. stage'[Idle] = "user" /\ status'[current] = "RUNNING"
  BY <1>1, <1>11, <1>12, CurrentFacts, Layout
<1>20. \A p \in Pid :
          /\ status'[p] \in {"TERMINATED", "ALLOCATED"} =>
                status[p] \in {"TERMINATED", "ALLOCATED"}
          /\ status'[p] = "TERMINATED" => status[p] = "TERMINATED"
          /\ status[p] = "ALLOCATED" => status'[p] = "ALLOCATED"
  BY <1>11
<1>21. frame'[current][Loading] # None <=> stage'[current] = "loaded"
  BY <1>8, <1>12
<1>22. ProcsOK'
  BY <1>7, <1>12, <1>14, <1>15, <1>16, <1>17, <1>18, <1>19, <1>20, <1>21, StepKeeps
<1> QED BY <1>10, <1>22 DEF ProcessesInv

LEMMA ExitKeeps ==
    ASSUME Parameters, ProcessesInv, Exit
    PROVE  ProcessesInv'
<1>0. PICK S : S = Pages(current)
  OBVIOUS
<1>1. PICK st :
      /\ stage[current] = "user" /\ current # Idle
      /\ waitingOn' = waitingOn /\ stage' = stage /\ call' = call
      /\ Release(S)
      /\ frame' = [frame EXCEPT ![current] = NoPages]
      /\ diskMap' = [diskMap EXCEPT ![current] = NoMap]
      /\ ppid' = [q \in Pid |-> IF ppid[q] = current THEN None ELSE ppid[q]]
      /\ st = [Wake(Woken(status, S), "WAIT_PROCESS", current)
                 EXCEPT ![current] = "TERMINATED"]
      /\ SwitchFrom(st)
  BY <1>0 DEF Exit, User, Orphan, calls
<1>2. call[current].op = "none" /\ current \in Pid
  BY <1>1, CurrentFacts DEF Working
<1>3. /\ S \in SUBSET Page /\ \A g \in S : \E l \in Logical : frame[current][l] = g
      /\ \A l \in Logical : frame[current][l] # None => frame[current][l] \in S
  <2>1. \A l \in Logical : frame[current][l] \in Page \cup {None}
    BY CurrentFacts
  <2> QED BY <1>0, <2>1 DEF Pages
<1>4. /\ frame' \in [Pid -> [Logical -> Page \cup {None}]]
      /\ diskMap' \in [Pid -> [Code -> Int]]
      /\ \A q \in Pid, m \in Logical :
            frame'[q][m] = IF q = current /\ m \in Logical THEN None ELSE frame[q][m]
  <2>1. NoMap \in [Code -> Int] /\ NoPages \in [Logical -> Page \cup {None}]
    BY DEF NoMap, NoPages, None
  <2>2. \A m \in Logical : NoPages[m] = None
    BY DEF NoPages
  <2> QED BY <1>1, <2>1, <2>2, CurrentFacts
<1>5. /\ MemTypes' /\ Counted' /\ free' >= free
      /\ free' # free => \E g \in S : users[g] = 1
  <2>1. Cleared(current, Logical, S)
    BY <1>2, <1>3, <1>4 DEF Cleared
  <2>2. MemoryOK /\ Release(S) /\ diskMap' \in [Pid -> [Code -> Int]]
    BY <1>1, <1>4 DEF ProcessesInv
  <2> QED BY <2>1, <2>2, ReleaseCounts
<1>6. \A q \in Pid : q # current => frame'[q] = frame[q] /\ diskMap'[q] = diskMap[q]
  BY <1>1, CurrentFacts
<1>7. /\ diskMap'[current] = NoMap /\ frame'[current] = NoPages
      /\ \A k \in Code : frame'[current][k] = None
      /\ frame'[current][Loading] = None
  BY <1>1, <1>2, <1>4, CurrentFacts, Layout
<1>8. PagesApart' /\ MapsOK'
  BY <1>2, <1>4, <1>6, <1>7, ApartOfLess DEF ProcessesInv
<1>9. MemoryOK'
  BY <1>5, <1>8 DEF MemoryOK
<1>10. /\ Woken(status, S) \in [Pid -> State]
       /\ \A p \in Pid : \/ Woken(status, S)[p] = status[p]
                         \/ status[p] = "WAIT_MEM" /\ Woken(status, S)[p] = "READY"
       /\ (\E g \in S : users[g] = 1) =>
             \A p \in Pid : p >= 1 => Woken(status, S)[p] # "WAIT_MEM"
  <2>1. "WAIT_MEM" \in Sleeping
    BY DEF Sleeping
  <2>2. CASE \E g \in S : users[g] = 1
    <3>1. Woken(status, S) = WakeAll(status, "WAIT_MEM")
      BY <2>2 DEF Woken
    <3>2. WakeAll(status, "WAIT_MEM") \in [Pid -> State]
      BY <2>1, CurrentFacts, WakeEffect
    <3> QED BY <3>1, <3>2, CurrentFacts DEF WakeAll
  <2>3. CASE ~ \E g \in S : users[g] = 1
    BY <2>3, CurrentFacts DEF Woken
  <2> QED BY <2>2, <2>3
<1>11. PICK w : w = Woken(status, S)
  OBVIOUS
<1>12. /\ st \in [Pid -> State] /\ st[current] = "TERMINATED"
       /\ \A p \in Pid : p # current =>
            \/ st[p] = w[p] /\ ~(p >= 1 /\ w[p] = "WAIT_PROCESS" /\ waitingOn[p] = current)
            \/ w[p] = "WAIT_PROCESS" /\ st[p] = "READY"
  <2>1. "WAIT_PROCESS" \in Sleeping /\ "TERMINATED" \in State
    BY DEF Sleeping, State
  <2>2. Wake(w, "WAIT_PROCESS", current) \in [Pid -> State]
    BY <1>10, <1>11, <2>1, WakeEffect
  <2> QED BY <1>1, <1>2, <1>11, <2>1, <2>2 DEF Wake
<1>13. \A p \in Pid : p # current =>
          \/ st[p] = status[p]
          \/ status[p] \in {"WAIT_MEM", "WAIT_PROCESS"} /\ st[p] = "READY"
  BY <1>10, <1>11, <1>12
<1>14. /\ status' \in [Pid -> State] /\ current' \in Pid /\ OneRunning'
       /\ \A p \in Pid : \/ status'[p] = st[p]
                         \/ status'[p] = "RUNNING" /\ Runnable(st[p])
  BY <1>1, <1>12, <1>13, SwitchRuns
<1>15. /\ status[Idle] \in {"READY", "RUNNING"} /\ Idle \in Pid
       /\ \A p \in Pid : p # Idle => p >= 1
  BY Layout DEF ProcessesInv, ProcsOK, ProcTypes, OneRunning, Pid, Idle
<1>16. /\ status'[current] = "TERMINATED"
       /\ \A p \in Pid : p # current =>
            /\ status'[p] = "TERMINATED" => status[p] = "TERMINATED"
            /\ status'[p] = "ALLOCATED" <=> status[p] = "ALLOCATED"
            /\ status'[p] = "WAIT_PROCESS" => status[p] = "WAIT_PROCESS"
            /\ status'[p] = "WAIT_MEM" => status[p] = "WAIT_MEM"
  BY <1>2, <1>12, <1>13, <1>14 DEF Runnable
<1>17. \A p \in Pid : status'[p] = "WAIT_PROCESS" => waitingOn[p] # current
  <2> SUFFICES ASSUME NEW p \in Pid, status'[p] = "WAIT_PROCESS"
               PROVE  waitingOn[p] # current
    OBVIOUS
  <2>1. p # current /\ status[p] = "WAIT_PROCESS" /\ st[p] = "WAIT_PROCESS"
    BY <1>14, <1>16 DEF Runnable
  <2>2. w[p] = "WAIT_PROCESS" /\ p >= 1
    BY <1>12, <1>15, <2>1
  <2> QED BY <1>12, <2>1, <2>2
<1>18. ppid' \in [Pid -> Pid \cup {None}] /\ \A q \in Pid : ppid'[q] \in {None, ppid[q]} \ {current}
  <2>1. current # None
    BY <1>2, Layout
  <2> QED BY <1>1, <2>1, CurrentFacts
<1>19. ProcTypes'
  BY <1>1, <1>14, <1>18 DEF ProcessesInv, ProcsOK, ProcTypes, SchedTypeOK
<1>20. Waiters'
  <2>1. WaitedForLives /\ \A p \in Pid : status[p] = "WAIT_PROCESS" => waitingOn[p] \in Pid
    BY DEF ProcessesInv, ProcsOK, Waiters
  <2>2. ASSUME NEW p \in Pid, status'[p] = "WAIT_PROCESS"
        PROVE  waitingOn'[p] \in Pid /\ status'[waitingOn'[p]] # "TERMINATED"
    <3>1. p # current /\ status[p] = "WAIT_PROCESS"
      BY <1>16, <2>2
    <3>2. waitingOn'[p] = waitingOn[p] /\ waitingOn[p] # current
      BY <1>1, <1>17, <2>2
    <3> QED BY <1>16, <2>1, <3>1, <3>2 DEF WaitedForLives
  <2>3. ASSUME NEW p \in Pid, ppid'[p] # None
        PROVE  status'[ppid'[p]] # "TERMINATED"
    <3>1. ppid'[p] = ppid[p] /\ ppid[p] # None /\ ppid[p] # current /\ ppid[p] \in Pid
      BY <1>18, <2>3, CurrentFacts
    <3> QED BY <1>16, <2>1, <3>1 DEF WaitedForLives
  <2> QED BY <2>2, <2>3 DEF Waiters, WaitedForLives
<1>21. NoIdleMemory'
  <2>1. CASE free' = free
    BY <1>16, <2>1 DEF ProcessesInv, ProcsOK, NoIdleMemory
  <2>2. CASE free' # free
    <3>1. \A p \in Pid : p >= 1 => w[p] # "WAIT_MEM"
      BY <1>5, <1>10, <1>11, <2>2
    <3>2. \A p \in Pid : p # current => st[p] # "WAIT_MEM"
      BY <1>12, <1>13, <1>15, <3>1
    <3>3. \A p \in Pid : status'[p] # "WAIT_MEM"
      BY <1>14, <1>16, <3>2
    <3> QED BY <3>3 DEF NoIdleMemory
  <2> QED BY <2>1, <2>2
<1>22. ChildrenApart'
  BY <1>1 DEF ProcessesInv, ProcsOK, ChildrenApart
<1>23. \A p \in Pid : p = current => Working(p)'
  BY <1>1, <1>2 DEF Working
<1>24. stage'[Idle] = "user" /\ stage'[current] = "user"
  BY <1>1, CurrentFacts
<1>25. ProcsOK'
  BY <1>1, <1>6, <1>7, <1>16, <1>19, <1>20, <1>21, <1>22, <1>23, <1>24, StepKeeps
<1> QED BY <1>9, <1>25 DEF ProcessesInv
-----------------------------------------------------------------------------
\* Init's entries that have a page, which is the one before.
Booted == Logical \ ({Loading} \cup FirstCode + 2 .. FirstCode + CodeSize - 1)

LEMMA InitKeeps ==
    ASSUME Parameters, Init
    PROVE  ProcessesInv
<1>1. /\ frame = [p \in Pid |-> [l \in Logical |->
                    IF p = Root /\ l \in Booted THEN l - 1 ELSE None]]
      /\ \A p \in Pid, l \in Logical :
            frame[p][l] = IF p = Root /\ l \in Booted THEN l - 1 ELSE None
  BY DEF Init, Booted
<1>2. Booted \subseteq Logical /\ \A l \in Booted : l \in Int /\ l - 1 \in Page /\ l - 1 # None
  BY DEF Booted, Parameters, Logical, Loading, Area, Heap, Code, Stack, FirstCode, Page, None
<1>3. frame \in [Pid -> [Logical -> Page \cup {None}]]
  BY <1>1, <1>2
<1>4. \A k \in Code : /\ k \in Booted <=> InitPart(k, 65) # None
                      /\ InitPart(k, 65) \in Int
                      /\ InitPart(k, 65) # None => InitPart(k, 65) = k + (65 - FirstCode)
  BY DEF Booted, Parameters, Logical, Loading, Code, FirstCode, InitPart, None
<1>5. /\ \A p \in Pid, k \in Code :
            diskMap[p][k] = IF p = Root THEN InitPart(k, 65) ELSE None
      /\ diskMap \in [Pid -> [Code -> Int]]
  <2>1. /\ diskMap = [p \in Pid |-> IF p = Root THEN [k \in Code |-> InitPart(k, 65)] ELSE NoMap]
        /\ NoMap = [k \in Code |-> None] /\ None \in Int
    BY DEF Init, NoMap, None
  <2> QED BY <1>4, <2>1
<1>6. MapsOK
  <2>1. \A p \in Pid : Injective(diskMap[p])
    <3>1. \A k, j \in Code : InitPart(k, 65) = InitPart(j, 65) /\ InitPart(k, 65) # None => k = j
      <4>1. FirstCode \in Int /\ \A k \in Code : k \in Int
        BY DEF Parameters, FirstCode, Code
      <4> QED BY <1>4, <4>1
    <3> QED BY <1>5, <3>1 DEF Injective
  <2>2. \A p \in Pid, k \in Code : frame[p][k] # None => diskMap[p][k] # None
    BY <1>1, <1>4, <1>5, Layout
  <2> QED BY <2>1, <2>2 DEF MapsOK
<1>7. PagesApart
  <2>1. \A p, q \in Pid, l, m \in Logical :
           frame[p][l] = frame[q][m] /\ frame[p][l] # None => p = q /\ l = m
    BY <1>1, <1>2
  <2> QED BY <2>1 DEF PagesApart
<1>8. users = [g \in Page |-> IF \E l \in Logical : frame[Root][l] = g THEN 1 ELSE 0]
  BY DEF Init
<1>9. \A g \in Page : users[g] = Cardinality(Owners(g))
  <2> SUFFICES ASSUME NEW g \in Page PROVE users[g] = Cardinality(Owners(g))
    OBVIOUS
  <2>1. g # None /\ Root \in Pid
    BY Layout
  <2>2. CASE \E l \in Logical : frame[Root][l] = g
    <3>1. PICK l \in Logical : frame[Root][l] = g
      BY <2>2
    <3>2. \A q \in Pid, m \in Logical : frame[q][m] = g <=> q = Root /\ m = l
      BY <1>1, <1>2, <2>1, <3>1
    <3>3. Owners(g) = {<<Root, l>>}
      BY <2>1, <3>1, <3>2, OwnersEntries
    <3> QED BY <1>8, <2>2, <3>3, FS_Singleton
  <2>3. CASE ~ \E l \in Logical : frame[Root][l] = g
    <3>1. \A q \in Pid, m \in Logical : frame[q][m] # g
      BY <1>1, <2>1, <2>3
    <3>2. Owners(g) = {}
      BY <3>1, OwnersEntries
    <3> QED BY <1>8, <2>3, <3>2, FS_EmptySet
  <2> QED BY <2>2, <2>3
<1>10. FreeCounted /\ free \in Nat
  <2>1. free = Cardinality({g \in Page : users[g] = 0})
    BY DEF Init
  <2> QED BY <2>1, FinitePages DEF FreeCounted
<1>11. MemoryOK
  <2>1. users \in [Page -> Nat]
    BY <1>8
  <2> QED BY <1>3, <1>5, <1>6, <1>7, <1>9, <1>10, <2>1
         DEF MemoryOK, MemTypes, Counted
<1>12. SchedTypeOK /\ OneRunning
  BY BootEffect DEF Init
<1>13. /\ ppid = [p \in Pid |-> None] /\ stage = [p \in Pid |-> "user"]
       /\ call = [p \in Pid |-> NoCall]
       /\ status = [p \in Pid |-> IF p = Idle THEN "RUNNING"
                                  ELSE IF p = Root THEN "CREATED" ELSE "TERMINATED"]
  BY DEF Init, BootProcessTable
<1>14. ProcTypes
  BY <1>12, <1>13, CallTypes DEF ProcTypes
<1>15. \A p \in Pid : stage[p] = "user" /\ call[p].op = "none" /\ ppid[p] = None
  BY <1>13, CallTypes
<1>16. \A p \in Pid : status[p] = "TERMINATED" => frame[p] = NoPages
  BY <1>1, <1>13 DEF NoPages
<1>17. \A p \in Pid : frame[p][Loading] = None
  BY <1>1, Layout DEF Booted
<1>18. EntriesOK
  BY <1>15, <1>16, <1>17, Layout DEF EntriesOK
<1>19. ChildrenApart /\ \A p \in Pid : Working(p)
  BY <1>15 DEF ChildrenApart, Working
<1>20. Waiters /\ NoIdleMemory
  <2>1. \A p \in Pid : status[p] # "WAIT_PROCESS" /\ status[p] # "WAIT_MEM"
    BY <1>13
  <2> QED BY <1>15, <2>1 DEF Waiters, WaitedForLives, NoIdleMemory
<1> QED BY <1>11, <1>14, <1>18, <1>19, <1>20 DEF ProcessesInv, ProcsOK

LEMMA NextKeeps ==
    ASSUME Parameters, ProcessesInv, [Next]_vars
    PROVE  ProcessesInv'
<1>1. CASE Exit
  BY <1>1, ExitKeeps
<1>2. CASE Fork
  BY <1>2, ForkKeeps
<1>3. CASE HeapFault
  BY <1>3, HeapFaultKeeps
<1>4. CASE Signal
  BY <1>4, SignalKeeps
<1>5. CASE Timer
  BY <1>5, TimerKeeps
<1>6. CASE \E prog \in Programs : Exec(prog)
  BY <1>6, ExecKeeps
<1>7. CASE \E k \in Code : CodeFault(k)
  BY <1>7, CodeFaultKeeps
<1>8. CASE \E q \in Pid : WaitFor(q)
  BY <1>8, WaitForKeeps
<1>9. CASE \E l \in Heap \cup Stack, w \in Word : Write(l, w)
  BY <1>9, WriteKeeps
<1>10. CASE WaitForPage
  BY <1>10, WaitForPageKeeps
<1>11. CASE FillHeap
  BY <1>11, FillHeapKeeps
<1>12. CASE TakeArea
  BY <1>12, TakeAreaKeeps
<1>13. CASE FillStack
  BY <1>13, FillStackKeeps
<1>14. CASE CopyStack
  BY <1>14, CopyStackKeeps
<1>15. CASE ShareCode
  BY <1>15, ShareCodeKeeps
<1>16. CASE LoadCode
  BY <1>16, LoadCodeKeeps
<1>17. CASE StartLoad
  BY <1>17, StartLoadKeeps
<1>18. CASE CodeLoaded
  BY <1>18, CodeLoadedKeeps
<1>19. CASE DiskInterrupt
  BY <1>19, DiskInterruptKeeps
<1>20. CASE UNCHANGED vars
  <2>1. /\ UNCHANGED <<counts, frame, diskMap, ppid, stage, call>>
        /\ waitingOn' = waitingOn /\ current' = current /\ status' = status
    BY <1>20 DEF vars, schedVars, memory, calls, counts
  <2> QED BY <2>1, CurrentFacts, WokenKeeps
<1> QED BY <1>1, <1>2, <1>3, <1>4, <1>5, <1>6, <1>7, <1>8, <1>9, <1>10, <1>11, <1>12,
           <1>13, <1>14, <1>15, <1>16, <1>17, <1>18, <1>19, <1>20 DEF Next

LEMMA InvImplies ==
    ASSUME Parameters, ProcessesInv
    PROVE  ProcessInv
<1>1. TypeOK /\ OneRunning
  BY DEF ProcessesInv, MemoryOK, MemTypes, ProcsOK, ProcTypes, TypeOK
<1>2. FreeCounted /\ NoIdleMemory /\ WaitedForLives /\ MemoryOK
  BY DEF ProcessesInv, MemoryOK, Counted, ProcsOK, Waiters
<1>3. UsersCounted
  <2>1. \A p \in Pid, l, m \in Logical : frame[p][l] = frame[p][m] => l = m \/ frame[p][l] = None
    BY <1>2, OncePerProcess
  <2>2. \A g \in Page : users[g] = Cardinality(Owners(g))
    BY <1>2 DEF MemoryOK, Counted
  <2> QED BY <2>1, <2>2 DEF UsersCounted
<1> QED BY <1>1, <1>2, <1>3 DEF ProcessInv

(* Whatever the number of processes, the size of memory and the programs, fork,
   exec, exit, page faults and their sleeps keep the count of every page and of
   the free ones, leave nobody asleep for memory that is there, and nobody
   waiting for a process that has ended, nor with such a parent
   (memory_manager.spl, process_manager.spl, int_8 to int_11). *)
THEOREM MemorySafety ==
    ASSUME Parameters
    PROVE  Spec => []ProcessInv
<1>1. Init => ProcessesInv
  BY InitKeeps
<1>2. ProcessesInv /\ [Next]_vars => ProcessesInv'
  BY NextKeeps
<1>3. ProcessesInv => ProcessInv
  BY InvImplies
<1> QED BY <1>1, <1>2, <1>3, PTL DEF Spec
-----------------------------------------------------------------------------
(***************************************************************************)
(* What pages hold: that the processes' memory is what AddressSpaces       *)
(* promises.                                                               *)
(***************************************************************************)
\* What init's disk map names: the pages it is in.  Blocks of files begin at 69.
InitBlocks  == {65, 66}
BlocksKnown == \A prog \in Programs, k \in Code : prog[k] \notin InitBlocks

\* What is in a page of code: the block, or what boot.spl has read there.
CodeOf(b) == IF b \in InitBlocks THEN b - 58 ELSE b

Full(f, part) == \A l \in part : f[l] # None
Bare(f, part) == \A l \in part : f[l] = None

\* Every page of code holds its block; that of init is never missing.
CodeHeld ==
    \A p \in Pid, k \in Code :
        /\ frame[p][k] # None => page[frame[p][k]] = CodeOf(diskMap[p][k])
        /\ diskMap[p][k] \in InitBlocks => frame[p][k] # None

\* Who has one page of another's heap has all of it, and nothing is missing.
HeapsShared ==
    \A p, q \in Pid, l \in Heap :
        p # q /\ frame[p][l] = frame[q][l] /\ frame[p][l] # None =>
            \A m \in Heap : frame[p][m] = frame[q][m] /\ frame[p][m] # None

\* The child of a fork has its parent's heap and code.
ChildOf(p, c) ==
    /\ Full(frame[p], Heap) /\ diskMap[c] = diskMap[p]
    /\ \A l \in Heap \cup Code : frame[c][l] = frame[p][l]

\* What a process has of memory, wherever it is.
PlaceOK(p) ==
    /\ Made(p) => Full(frame[p], Stack)
    /\ stage[p] = "loaded" /\ status[p] # "WAIT_DISK" =>
         page[frame[p][Loading]] = call[p].block
    /\ stage[p] # "heap" => Full(frame[p], Heap) \/ Bare(frame[p], Heap)
    /\ stage[p] = "area" => Full(frame[p], Heap)
    /\ stage[p] \in {"code", "page", "loaded"} => Full(frame[p], Stack)
    /\ stage[p] = "copy" => Full(frame[call[p].child], Stack)
    /\ call[p].op = "exec" => Bare(frame[p], Heap)
    /\ stage[p] \in {"stack", "copy"} /\ call[p].op = "fork" => ChildOf(p, call[p].child)

SpacesInv ==
    /\ page \in [Page -> Int \cup Word] /\ CodeHeld /\ HeapsShared
    /\ \A p \in Pid : PlaceOK(p)
-----------------------------------------------------------------------------
\* A process's memory, from its disk map, its page table and what pages hold.
HeapOf(f, g) == IF Full(f, Heap) THEN [id |-> f[2], words |-> [l \in Heap |-> g[f[l]]]]
                ELSE [id |-> -1]
Shape(d, f, g) == [code  |-> [k \in Code |-> CodeOf(d[k])],
                   stack |-> [l \in Stack |-> g[f[l]]],
                   heap  |-> HeapOf(f, g)]

LEMMA SpaceShape ==
    ASSUME CodeHeld, NEW p \in Pid
    PROVE  SpaceOf(p) = Shape(diskMap[p], frame[p], page)
<1>1. \A k \in Code : (IF frame[p][k] = None THEN diskMap[p][k] ELSE page[frame[p][k]])
                         = CodeOf(diskMap[p][k])
  BY DEF CodeHeld, CodeOf
<1>2. Missing(p, Heap) # {} <=> ~Full(frame[p], Heap)
  BY DEF Missing, Full
<1> QED BY <1>1, <1>2 DEF SpaceOf, Shape, HeapOf

LEMMA SpaceShapeNext ==
    ASSUME CodeHeld', NEW p \in Pid
    PROVE  SpaceOf(p)' = Shape(diskMap'[p], frame'[p], page')
<1>1. \A k \in Code : (IF frame'[p][k] = None THEN diskMap'[p][k] ELSE page'[frame'[p][k]])
                         = CodeOf(diskMap'[p][k])
  BY DEF CodeHeld, CodeOf
<1>2. Missing(p, Heap)' # {} <=> ~Full(frame'[p], Heap)
  BY DEF Missing, Full
<1> QED BY <1>1, <1>2 DEF SpaceOf, Shape, HeapOf

\* Memory is the same when it holds the same, wherever that is.
LEMMA ShapeSame ==
    ASSUME Parameters, NEW d, NEW f, NEW g, NEW e, NEW h,
           \A l \in Stack : h[e[l]] = g[f[l]],
           \A l \in Heap : e[l] = f[l],
           Full(f, Heap) => \A l \in Heap : h[f[l]] = g[f[l]]
    PROVE  Shape(d, e, h) = Shape(d, f, g)
<1>1. 2 \in Heap
  BY DEF Parameters, Heap
<1>2. Full(e, Heap) <=> Full(f, Heap)
  BY DEF Full
<1>3. HeapOf(e, h) = HeapOf(f, g)
  BY <1>1, <1>2 DEF HeapOf
<1> QED BY <1>3 DEF Shape

LEMMA ShapeParts ==
    ASSUME NEW d, NEW f, NEW g
    PROVE  /\ Shape(d, f, g) # [live |-> FALSE]
           /\ Shape(d, f, g).heap = HeapOf(f, g)
<1>1. DOMAIN Shape(d, f, g) = {"code", "stack", "heap"} /\ DOMAIN [live |-> FALSE] = {"live"}
  BY DEF Shape
<1> QED BY <1>1 DEF Shape

LEMMA HeapParts ==
    ASSUME Parameters, NEW f \in [Logical -> Page \cup {None}], NEW g
    PROVE  /\ HeapOf(f, g).id = IF Full(f, Heap) THEN f[2] ELSE -1
           /\ Full(f, Heap) => HeapOf(f, g).words = [l \in Heap |-> g[f[l]]]
           /\ HeapOf(f, g) # [id |-> -1] <=> Full(f, Heap)
<1>1. 2 \in Heap /\ 2 \in Logical
  BY Layout DEF Parameters, Heap
<1>2. Full(f, Heap) => f[2] # -1
  BY <1>1 DEF Full, None
<1> QED BY <1>1, <1>2 DEF HeapOf

\* What the table of AddressSpaces reads.
LEMMA SpaceEntries ==
    ASSUME Parameters, ProcessesInv, SpacesInv, NEW p \in Pid
    PROVE  /\ SpaceTable[p] = IF Made(p) THEN Shape(diskMap[p], frame[p], page)
                              ELSE [live |-> FALSE]
           /\ Spaces!Live(p) <=> Made(p)
           /\ Made(p) => /\ Spaces!HasHeap(p) <=> Full(frame[p], Heap)
                         /\ SpaceTable[p].heap = HeapOf(frame[p], page)
                         /\ SpaceTable[p].heap.id = IF Full(frame[p], Heap) THEN frame[p][2] ELSE -1
<1>1. SpaceOf(p) = Shape(diskMap[p], frame[p], page)
  BY SpaceShape DEF SpacesInv
<1>2. SpaceTable[p] = IF Made(p) THEN Shape(diskMap[p], frame[p], page) ELSE [live |-> FALSE]
  BY <1>1 DEF SpaceTable
<1>0. PICK s : /\ s = Shape(diskMap[p], frame[p], page)
               /\ s # [live |-> FALSE] /\ s.heap = HeapOf(frame[p], page)
  <2>1. /\ Shape(diskMap[p], frame[p], page) # [live |-> FALSE]
        /\ Shape(diskMap[p], frame[p], page).heap = HeapOf(frame[p], page)
    BY ShapeParts
  <2> QED BY <2>1
<1>3. Spaces!Live(p) <=> Made(p)
  BY <1>0, <1>2 DEF Spaces!Live, Spaces!Gone
<1>4. Made(p) => SpaceTable[p].heap = HeapOf(frame[p], page)
  BY <1>0, <1>2
<1>5. HeapOf(frame[p], page) # [id |-> -1] <=> Full(frame[p], Heap)
  BY HeapParts, CurrentFacts
<1>6. HeapOf(frame[p], page).id = IF Full(frame[p], Heap) THEN frame[p][2] ELSE -1
  BY HeapParts, CurrentFacts
<1>7. Made(p) => SpaceTable[p].heap.id = IF Full(frame[p], Heap) THEN frame[p][2] ELSE -1
  BY <1>4, <1>6
<1> QED BY <1>2, <1>3, <1>4, <1>5, <1>7 DEF Spaces!HasHeap, Spaces!NoHeap

SameSpace(p) == /\ Made(p)' <=> Made(p)
                /\ Made(p) => Shape(diskMap'[p], frame'[p], page')
                                = Shape(diskMap[p], frame[p], page)

LEMMA TableSame ==
    ASSUME CodeHeld, CodeHeld', \A p \in Pid : SameSpace(p)
    PROVE  SpaceTable' = SpaceTable
<1>1. \A p \in Pid : Made(p) => SpaceOf(p)' = SpaceOf(p)
  BY SpaceShape, SpaceShapeNext DEF SameSpace
<1> QED BY <1>1 DEF SpaceTable, SameSpace

LEMMA TableExcept ==
    ASSUME CodeHeld, CodeHeld', NEW x \in Pid, \A p \in Pid : p # x => SameSpace(p)
    PROVE  /\ SpaceTable'[x] = IF Made(x)' THEN Shape(diskMap'[x], frame'[x], page')
                               ELSE [live |-> FALSE]
           /\ SpaceTable' = [SpaceTable EXCEPT ![x] = SpaceTable'[x]]
<1>1. \A p \in Pid : p # x /\ Made(p) => SpaceOf(p)' = SpaceOf(p)
  BY SpaceShape, SpaceShapeNext DEF SameSpace
<1>2. \A p \in Pid : p # x => SpaceTable'[p] = SpaceTable[p]
  BY <1>1 DEF SpaceTable, SameSpace
<1>3. /\ SpaceTable = [p \in Pid |-> SpaceTable[p]]
      /\ SpaceTable' = [p \in Pid |-> SpaceTable'[p]]
  BY DEF SpaceTable
<1>4. SpaceTable'[x] = IF Made(x)' THEN Shape(diskMap'[x], frame'[x], page') ELSE [live |-> FALSE]
  BY SpaceShapeNext DEF SpaceTable
<1> QED BY <1>2, <1>3, <1>4
-----------------------------------------------------------------------------
\* A process that a step has left alone.
LEMMA PlaceKept ==
    ASSUME NEW p \in Pid, PlaceOK(p), Working(p),
           stage'[p] = stage[p], call'[p] = call[p],
           frame'[p] = frame[p], diskMap'[p] = diskMap[p], Made(p)' => Made(p),
           call[p].op = "fork" => /\ frame'[call[p].child] = frame[call[p].child]
                                  /\ diskMap'[call[p].child] = diskMap[call[p].child],
           stage[p] = "loaded" /\ status'[p] # "WAIT_DISK" =>
               page'[frame[p][Loading]] = call[p].block
    PROVE  PlaceOK(p)'
BY DEF PlaceOK, ChildOf, Working

\* A child that is being made is in no call.
LEMMA ChildFacts ==
    ASSUME Parameters, ProcessesInv, NEW p \in Pid, call[p].op = "fork"
    PROVE  /\ call[p].child \in Pid /\ status[call[p].child] = "ALLOCATED"
           /\ call[p].child # current /\ call[p].child # p
           /\ stage[call[p].child] = "user" /\ call[call[p].child].op = "none"
           /\ ~Made(call[p].child)
           /\ p # current => ~MyChild(call[p].child)
<1>1. Working(p) /\ call[p] \in Call
  BY DEF ProcessesInv, ProcsOK, ProcTypes
<1>2. call[p].child \in Pid /\ status[call[p].child] = "ALLOCATED"
  BY <1>1, CallFields DEF Working
<1>3. stage[call[p].child] = "user"
  BY <1>2 DEF ProcessesInv, ProcsOK, EntriesOK
<1>4. call[call[p].child].op = "none"
  BY <1>2, <1>3 DEF ProcessesInv, ProcsOK, Working
<1>5. p # current => ~MyChild(call[p].child)
  BY CurrentFacts DEF MyChild, Op, ProcessesInv, ProcsOK, ChildrenApart
<1> QED BY <1>2, <1>3, <1>4, <1>5, CurrentFacts DEF Made

LEMMA OthersPlaced ==
    ASSUME Parameters, ProcessesInv, SpacesInv,
           \A p \in Pid : p # current =>
               /\ stage'[p] = stage[p] /\ call'[p] = call[p]
               /\ stage[p] = "loaded" /\ status'[p] # "WAIT_DISK" =>
                    page'[frame[p][Loading]] = call[p].block,
           \A p \in Pid : p # current /\ ~MyChild(p) =>
               /\ frame'[p] = frame[p] /\ diskMap'[p] = diskMap[p]
               /\ Made(p)' => Made(p)
    PROVE  \A p \in Pid : p # current /\ ~MyChild(p) => PlaceOK(p)'
<1> SUFFICES ASSUME NEW p \in Pid, p # current, ~MyChild(p) PROVE PlaceOK(p)'
  OBVIOUS
<1>1. PlaceOK(p) /\ Working(p)
  BY DEF SpacesInv, ProcessesInv, ProcsOK
<1>2. call[p].op = "fork" => /\ frame'[call[p].child] = frame[call[p].child]
                             /\ diskMap'[call[p].child] = diskMap[call[p].child]
  BY ChildFacts
<1> QED BY <1>1, <1>2, PlaceKept

\* Maps and pages of code and heap, when tables and pages are as they were.
LEMMA HeldSame ==
    ASSUME Parameters, ProcessesInv, SpacesInv, frame' = frame, diskMap' = diskMap,
           \A p \in Pid, k \in Code : frame[p][k] # None => page'[frame[p][k]] = page[frame[p][k]]
    PROVE  CodeHeld' /\ HeapsShared'
BY DEF SpacesInv, CodeHeld, HeapsShared

\* What is loaded is loaded still, unless somebody touches its page.
LEMMA LoadedStays ==
    ASSUME SpacesInv, NEW p \in Pid, status[p] = "WAIT_DISK" => status'[p] = "WAIT_DISK",
           page'[frame[p][Loading]] = page[frame[p][Loading]]
    PROVE  stage[p] = "loaded" /\ status'[p] # "WAIT_DISK" =>
               page'[frame[p][Loading]] = call[p].block
BY DEF SpacesInv, PlaceOK

\* A step that leaves memory alone.
LEMMA StillSpaces ==
    ASSUME Parameters, ProcessesInv, SpacesInv, page' = page, frame' = frame, diskMap' = diskMap,
           \A p \in Pid : Made(p)' <=> Made(p),
           \A p \in Pid : p # current =>
               /\ stage'[p] = stage[p] /\ call'[p] = call[p]
               /\ status[p] = "WAIT_DISK" => status'[p] = "WAIT_DISK",
           \A p \in Pid : p = current => PlaceOK(p)'
    PROVE  SpacesInv' /\ SpaceTable' = SpaceTable
<1>1. CodeHeld' /\ HeapsShared'
  BY HeldSame
<1>2. ASSUME NEW p \in Pid
      PROVE  PlaceOK(p)'
  <2>1. CASE p = current
    BY <2>1
  <2>2. CASE p # current
    <3>1. PlaceOK(p) /\ Working(p)
      BY DEF SpacesInv, ProcessesInv, ProcsOK
    <3>2. stage[p] = "loaded" /\ status'[p] # "WAIT_DISK" =>
              page'[frame[p][Loading]] = call[p].block
      BY <2>2, LoadedStays
    <3> QED BY <2>2, <3>1, <3>2, PlaceKept
  <2> QED BY <2>1, <2>2
<1>3. page' \in [Page -> Int \cup Word]
  BY DEF SpacesInv
<1>4. \A p \in Pid : SameSpace(p)
  BY DEF SameSpace
<1>5. SpaceTable' = SpaceTable
  BY <1>1, <1>4, TableSame DEF SpacesInv
<1> QED BY <1>1, <1>2, <1>3, <1>5 DEF SpacesInv

\* A step that touches the process table only.
LEMMA TableSpaces ==
    ASSUME Parameters, ProcessesInv, SpacesInv, UNCHANGED <<page, frame, diskMap, stage, call>>,
           \A p \in Pid : /\ status'[p] = "TERMINATED" <=> status[p] = "TERMINATED"
                          /\ status'[p] = "ALLOCATED" <=> status[p] = "ALLOCATED"
                          /\ status[p] = "WAIT_DISK" => status'[p] = "WAIT_DISK"
    PROVE  SpacesInv' /\ SpaceTable' = SpaceTable
<1>1. \A p \in Pid : Made(p)' <=> Made(p)
  BY DEF Made
<1>2. ASSUME NEW p \in Pid
      PROVE  PlaceOK(p)'
  <2>1. PlaceOK(p) /\ Working(p)
    BY DEF SpacesInv, ProcessesInv, ProcsOK
  <2>2. stage[p] = "loaded" /\ status'[p] # "WAIT_DISK" =>
            page'[frame[p][Loading]] = call[p].block
    BY LoadedStays
  <2> QED BY <1>1, <2>1, <2>2, PlaceKept
<1> QED BY <1>1, <1>2, StillSpaces

LEMMA SwitchStays ==
    ASSUME Parameters, ProcessesInv, NEW x \in State \ {"RUNNING", "TERMINATED", "ALLOCATED"},
           SwitchFrom([status EXCEPT ![current] = x]), current = Idle => x = "READY"
    PROVE  /\ \A p \in Pid : /\ status'[p] = "TERMINATED" <=> status[p] = "TERMINATED"
                             /\ status'[p] = "ALLOCATED" <=> status[p] = "ALLOCATED"
                             /\ status[p] = "WAIT_DISK" => status'[p] = "WAIT_DISK"
           /\ x = "WAIT_DISK" => status'[current] = "WAIT_DISK"
<1> DEFINE st == [status EXCEPT ![current] = x]
<1>1. /\ st \in [Pid -> State] /\ st[current] = x
      /\ \A p \in Pid : p # current => st[p] = status[p]
  BY CurrentFacts
<1>2. \A p \in Pid : \/ status'[p] = st[p]
                     \/ status'[p] = "RUNNING" /\ Runnable(st[p])
  BY <1>1, SwitchRuns
<1> HIDE DEF st
<1> QED BY <1>1, <1>2, CurrentFacts DEF Runnable
-----------------------------------------------------------------------------
(***************************************************************************)
(* One lemma for each action: what pages hold stays right, and memory is   *)
(* as one step of AddressSpaces leaves it, or as it was.                   *)
(***************************************************************************)
Simulated == SpacesInv' /\ [Spaces!Next]_SpaceTable

LEMMA WaitForPageSpaces ==
    ASSUME Parameters, ProcessesInv, SpacesInv, WaitForPage
    PROVE  Simulated
<1>1. /\ stage[current] # "user" /\ SwitchFrom([status EXCEPT ![current] = "WAIT_MEM"])
      /\ UNCHANGED <<page, frame, diskMap, stage, call>>
  BY DEF WaitForPage, NeedsPage, Sleep, memory, calls
<1>2. "WAIT_MEM" \in State \ {"RUNNING", "TERMINATED", "ALLOCATED"} /\ current # Idle
  BY <1>1, CurrentFacts DEF State, Sleeping
<1>3. \A p \in Pid : /\ status'[p] = "TERMINATED" <=> status[p] = "TERMINATED"
                     /\ status'[p] = "ALLOCATED" <=> status[p] = "ALLOCATED"
                     /\ status[p] = "WAIT_DISK" => status'[p] = "WAIT_DISK"
  BY <1>1, <1>2, SwitchStays
<1> QED BY <1>1, <1>3, TableSpaces DEF Simulated

LEMMA WaitForSpaces ==
    ASSUME Parameters, ProcessesInv, SpacesInv, NEW q \in Pid, WaitFor(q)
    PROVE  Simulated
<1>1. /\ current # Idle /\ SwitchFrom([status EXCEPT ![current] = "WAIT_PROCESS"])
      /\ UNCHANGED <<page, frame, diskMap, stage, call>>
  BY DEF WaitFor, User, SleepOn, memory, calls
<1>2. "WAIT_PROCESS" \in State \ {"RUNNING", "TERMINATED", "ALLOCATED"}
  BY DEF State, Sleeping
<1>3. \A p \in Pid : /\ status'[p] = "TERMINATED" <=> status[p] = "TERMINATED"
                     /\ status'[p] = "ALLOCATED" <=> status[p] = "ALLOCATED"
                     /\ status[p] = "WAIT_DISK" => status'[p] = "WAIT_DISK"
  BY <1>1, <1>2, SwitchStays
<1> QED BY <1>1, <1>3, TableSpaces DEF Simulated

LEMMA TimerSpaces ==
    ASSUME Parameters, ProcessesInv, SpacesInv, Timer
    PROVE  Simulated
<1>1. /\ SwitchFrom([status EXCEPT ![current] = "READY"])
      /\ UNCHANGED <<page, frame, diskMap, stage, call>>
  BY DEF Timer, Preempt, memory, calls
<1>2. "READY" \in State \ {"RUNNING", "TERMINATED", "ALLOCATED"}
  BY DEF State
<1>3. \A p \in Pid : /\ status'[p] = "TERMINATED" <=> status[p] = "TERMINATED"
                     /\ status'[p] = "ALLOCATED" <=> status[p] = "ALLOCATED"
                     /\ status[p] = "WAIT_DISK" => status'[p] = "WAIT_DISK"
  BY <1>1, <1>2, SwitchStays
<1> QED BY <1>1, <1>3, TableSpaces DEF Simulated

LEMMA SignalSpaces ==
    ASSUME Parameters, ProcessesInv, SpacesInv, Signal
    PROVE  Simulated
<1>1. /\ status' = Wake(status, "WAIT_PROCESS", current)
      /\ UNCHANGED <<page, frame, diskMap, stage, call>>
  BY DEF Signal, memory, calls
<1>2. \A p \in Pid : \/ status'[p] = status[p]
                     \/ status[p] = "WAIT_PROCESS" /\ status'[p] = "READY"
  BY <1>1 DEF Wake
<1> QED BY <1>1, <1>2, TableSpaces DEF Simulated

LEMMA HeapFaultSpaces ==
    ASSUME Parameters, ProcessesInv, SpacesInv, HeapFault
    PROVE  Simulated
<1>1. /\ status' = status /\ page' = page /\ frame' = frame /\ diskMap' = diskMap
      /\ stage' = [stage EXCEPT ![current] = "heap"]
      /\ call' = [call EXCEPT ![current] = [op |-> "heap"]] /\ stage[current] = "user"
  BY DEF HeapFault, User, Enter, Goto, memory, schedVars
<1>2. call[current].op = "none" /\ PlaceOK(current)
  BY <1>1, CurrentFacts DEF Working, SpacesInv
<1>3. /\ \A p \in Pid : p # current => stage'[p] = stage[p] /\ call'[p] = call[p]
      /\ stage'[current] = "heap" /\ call'[current].op = "heap"
  BY <1>1, CurrentFacts
<1>4. \A p \in Pid : Made(p)' <=> Made(p)
  BY <1>1, <1>2, <1>3 DEF Made
<1>5. \A p \in Pid : p = current => PlaceOK(p)'
  BY <1>1, <1>2, <1>3, <1>4 DEF PlaceOK
<1> QED BY <1>1, <1>3, <1>4, <1>5, StillSpaces DEF Simulated

LEMMA CodeFaultSpaces ==
    ASSUME Parameters, ProcessesInv, SpacesInv, NEW k \in Code, CodeFault(k)
    PROVE  Simulated
<1>1. /\ status' = status /\ page' = page /\ frame' = frame /\ diskMap' = diskMap
      /\ stage' = [stage EXCEPT ![current] = "code"]
      /\ call' = [call EXCEPT ![current] =
                    [op |-> "code", block |-> diskMap[current][k], part |-> k]]
      /\ stage[current] = "user" /\ current # Idle
  BY DEF CodeFault, User, Enter, Goto, memory, schedVars
<1>2. call[current].op = "none" /\ PlaceOK(current) /\ status[current] = "RUNNING"
  BY <1>1, CurrentFacts DEF Working, SpacesInv
<1>3. /\ \A p \in Pid : p # current => stage'[p] = stage[p] /\ call'[p] = call[p]
      /\ stage'[current] = "code" /\ call'[current].op = "code"
  BY <1>1, CurrentFacts
<1>4. (\A p \in Pid : Made(p)' <=> Made(p)) /\ Made(current)
  BY <1>1, <1>2, <1>3 DEF Made
<1>5. \A p \in Pid : p = current => PlaceOK(p)'
  BY <1>1, <1>2, <1>3, <1>4 DEF PlaceOK
<1> QED BY <1>1, <1>3, <1>4, <1>5, StillSpaces DEF Simulated

LEMMA LoadCodeSpaces ==
    ASSUME Parameters, ProcessesInv, SpacesInv, LoadCode
    PROVE  Simulated
<1>1. /\ status' = status /\ page' = page /\ frame' = frame /\ diskMap' = diskMap
      /\ stage' = [stage EXCEPT ![current] = "page"] /\ call' = call /\ stage[current] = "code"
  BY DEF LoadCode, At, Goto, memory, schedVars
<1>2. PlaceOK(current)
  BY CurrentFacts DEF SpacesInv
<1>3. /\ \A p \in Pid : p # current => stage'[p] = stage[p]
      /\ stage'[current] = "page"
  BY <1>1, CurrentFacts
<1>4. \A p \in Pid : Made(p)' <=> Made(p)
  BY <1>1 DEF Made
<1>5. \A p \in Pid : p = current => PlaceOK(p)'
  BY <1>1, <1>2, <1>3, <1>4 DEF PlaceOK
<1> QED BY <1>1, <1>3, <1>4, <1>5, StillSpaces DEF Simulated

LEMMA ForkSpaces ==
    ASSUME Parameters, ProcessesInv, SpacesInv, Fork
    PROVE  Simulated
<1>1. PICK c \in Pid :
        /\ status[c] = "TERMINATED" /\ status' = [status EXCEPT ![c] = "ALLOCATED"]
        /\ call' = [call EXCEPT ![current] = [op |-> "fork", child |-> c]]
        /\ stage' = [stage EXCEPT ![current] = IF Missing(current, Heap) # {} THEN "heap" ELSE "area"]
  BY DEF Fork, First, Enter, Goto
<1>2. /\ stage[current] = "user" /\ page' = page /\ frame' = frame /\ diskMap' = diskMap
  BY DEF Fork, User, memory
<1>3. call[current].op = "none" /\ PlaceOK(current) /\ status[current] = "RUNNING"
  BY <1>2, CurrentFacts DEF Working, SpacesInv
<1>4. PICK s \in {"heap", "area"} : /\ stage' = [stage EXCEPT ![current] = s]
                                    /\ s = "area" => Full(frame[current], Heap)
  <2>1. CASE Missing(current, Heap) # {}
    BY <1>1, <2>1
  <2>2. CASE Missing(current, Heap) = {}
    BY <1>1, <2>2 DEF Missing, Full
  <2> QED BY <2>1, <2>2
<1>5. /\ \A p \in Pid : p # current => stage'[p] = stage[p] /\ call'[p] = call[p]
      /\ stage'[current] = s /\ call'[current].op = "fork"
      /\ \A p \in Pid : status'[p] = IF p = c THEN "ALLOCATED" ELSE status[p]
  BY <1>1, <1>4, CurrentFacts
<1>6. \A p \in Pid : Made(p)' <=> Made(p)
  BY <1>1, <1>3, <1>5 DEF Made
<1>7. \A p \in Pid : p = current => PlaceOK(p)'
  BY <1>2, <1>3, <1>4, <1>5, <1>6 DEF PlaceOK
<1>8. \A p \in Pid : status[p] = "WAIT_DISK" => status'[p] = "WAIT_DISK"
  BY <1>1, <1>5
<1> QED BY <1>2, <1>5, <1>6, <1>7, <1>8, StillSpaces DEF Simulated
-----------------------------------------------------------------------------
\* The process that runs, in a call or not, has its memory, unless it is in exec.
LEMMA CurrentMade ==
    ASSUME Parameters, ProcessesInv, current # Idle
    PROVE  /\ Made(current) <=> call[current].op # "exec"
           /\ stage[current] = "user" => Made(current)
BY CurrentFacts DEF Made, Working

\* A page that is taken is in nobody's memory.
LEMMA GetSpaces ==
    ASSUME Parameters, ProcessesInv, SpacesInv, NEW x \in Pid, NEW l \in Logical \ Code,
           frame[x][l] = None, GetPage(x, l), page' = page, diskMap' = diskMap
    PROVE  /\ \E g \in Page : /\ frame'[x][l] = g /\ g # None
                              /\ \A q \in Pid, m \in Logical : frame[q][m] # g
           /\ \A q \in Pid, m \in Logical : q # x \/ m # l => frame'[q][m] = frame[q][m]
           /\ \A q \in Pid : q # x => frame'[q] = frame[q]
           /\ CodeHeld' /\ HeapsShared'
<1>1. PICK g \in Page : /\ TakePage(g) /\ frame' = [frame EXCEPT ![x][l] = g]
  BY DEF GetPage
<1>2. /\ \A q \in Pid, m \in Logical : frame'[q][m] = IF q = x /\ m = l THEN g ELSE frame[q][m]
      /\ \A q \in Pid : q # x => frame'[q] = frame[q]
  BY <1>1, CurrentFacts
<1>3. g # None /\ \A q \in Pid, m \in Logical : frame[q][m] # g
  BY <1>1, TakeEffect, Layout DEF ProcessesInv
<1>4. CodeHeld'
  <2>1. \A q \in Pid, k \in Code : frame'[q][k] = frame[q][k]
    BY <1>2, Layout
  <2> QED BY <2>1 DEF SpacesInv, CodeHeld
<1>5. HeapsShared'
  <2> SUFFICES ASSUME NEW p \in Pid, NEW q \in Pid, NEW j \in Heap, p # q,
                      frame'[p][j] = frame'[q][j], frame'[p][j] # None, NEW m \in Heap
               PROVE  frame'[p][m] = frame'[q][m] /\ frame'[p][m] # None
    BY DEF HeapsShared
  <2>1. j \in Logical /\ m \in Logical
    BY Layout
  <2>2. frame[p][j] = frame[q][j] /\ frame[p][j] # None
    BY <1>2, <1>3, <2>1
  <2>3. \A i \in Heap : frame[p][i] = frame[q][i] /\ frame[p][i] # None
    BY <2>2 DEF SpacesInv, HeapsShared
  <2>4. ~(p = x /\ m = l) /\ ~(q = x /\ m = l)
    BY <2>3
  <2> QED BY <1>2, <2>1, <2>3, <2>4
<1> QED BY <1>2, <1>3, <1>4, <1>5

LEMMA StartLoadSpaces ==
    ASSUME Parameters, ProcessesInv, SpacesInv, StartLoad
    PROVE  Simulated
<1>1. /\ stage[current] = "page" /\ GetPage(current, Loading)
      /\ SwitchFrom([status EXCEPT ![current] = "WAIT_DISK"])
      /\ page' = page /\ diskMap' = diskMap /\ call' = call
      /\ stage' = [stage EXCEPT ![current] = "loaded"]
  BY DEF StartLoad, At, Goto, Sleep
<1>2. /\ Loading \in Logical \ Code /\ frame[current][Loading] = None /\ current # Idle
      /\ "WAIT_DISK" \in State \ {"RUNNING", "TERMINATED", "ALLOCATED"}
  BY <1>1, CurrentFacts, Layout DEF ProcessesInv, ProcsOK, EntriesOK, State, Sleeping
<1>3. /\ \A p \in Pid : /\ status'[p] = "TERMINATED" <=> status[p] = "TERMINATED"
                        /\ status'[p] = "ALLOCATED" <=> status[p] = "ALLOCATED"
                        /\ status[p] = "WAIT_DISK" => status'[p] = "WAIT_DISK"
      /\ status'[current] = "WAIT_DISK"
  BY <1>1, <1>2, SwitchStays
<1>4. /\ \A q \in Pid, m \in Logical : q # current \/ m # Loading => frame'[q][m] = frame[q][m]
      /\ \A q \in Pid : q # current => frame'[q] = frame[q]
      /\ CodeHeld' /\ HeapsShared'
  BY <1>1, <1>2, CurrentFacts, GetSpaces
<1>5. /\ \A m \in Heap \cup Stack : frame'[current][m] = frame[current][m]
      /\ \A p \in Pid : p # current => stage'[p] = stage[p]
      /\ stage'[current] = "loaded"
  BY <1>1, <1>4, CurrentFacts, Layout
<1>6. \A p \in Pid : Made(p)' <=> Made(p)
  BY <1>1, <1>3 DEF Made
<1>7. /\ PlaceOK(current) /\ call[current].op \in {"code", "exec"}
  BY <1>1, CurrentFacts DEF SpacesInv, Working
<1>8. \A p \in Pid : p = current => PlaceOK(p)'
  BY <1>1, <1>3, <1>5, <1>6, <1>7 DEF PlaceOK, Full, Bare
<1>9. ASSUME NEW p \in Pid, p # current
      PROVE  stage[p] = "loaded" /\ status'[p] # "WAIT_DISK" =>
                 page'[frame[p][Loading]] = call[p].block
  BY <1>1, <1>3, LoadedStays
<1>10. \A p \in Pid : ~MyChild(p)
  BY <1>7 DEF MyChild, Op
<1>11. \A p \in Pid : p # current /\ ~MyChild(p) => PlaceOK(p)'
  BY <1>1, <1>4, <1>5, <1>6, <1>9, OthersPlaced
<1>12. \A p \in Pid : SameSpace(p)
  <2> SUFFICES ASSUME NEW p \in Pid PROVE SameSpace(p)
    OBVIOUS
  <2>1. /\ \A m \in Heap : frame'[p][m] = frame[p][m]
        /\ \A m \in Stack : frame'[p][m] = frame[p][m]
    BY <1>4, <1>5
  <2>2. Shape(diskMap[p], frame'[p], page) = Shape(diskMap[p], frame[p], page)
    BY <2>1, ShapeSame
  <2> QED BY <1>1, <1>6, <2>2 DEF SameSpace
<1>13. SpaceTable' = SpaceTable
  BY <1>4, <1>12, TableSame DEF SpacesInv
<1> QED BY <1>1, <1>4, <1>8, <1>10, <1>11, <1>13 DEF SpacesInv, Simulated

LEMMA FillStackSpaces ==
    ASSUME Parameters, ProcessesInv, SpacesInv, FillStack
    PROVE  Simulated
<1> DEFINE c == call[current].child
<1>1. PICK l \in Stack :
        /\ l \in Missing(c, Stack) /\ GetPage(c, l)
        /\ IF Missing(c, Stack) # {l} THEN UNCHANGED stage
           ELSE Goto(IF Op = "fork" THEN "copy" ELSE "code")
  BY DEF FillStack, First
<1>2. /\ status' = status /\ page' = page /\ diskMap' = diskMap /\ call' = call
      /\ stage[current] = "stack"
  BY DEF FillStack, At, schedVars
<1>3. /\ call[current].op \in {"fork", "exec"} /\ c \in Pid
      /\ call[current].op = "exec" => c = current
      /\ call[current].op = "fork" => c # current /\ stage[c] = "user" /\ call[c].op = "none"
      /\ ~Made(c) /\ current # Idle /\ PlaceOK(current) /\ PlaceOK(c)
  <2>1. /\ call[current].op \in {"fork", "exec"} /\ c \in Pid
        /\ call[current].op = "exec" => c = current
    BY <1>2, CurrentFacts, CallFields DEF Working
  <2>2. current # Idle
    BY <1>2, CurrentFacts
  <2> QED BY <2>1, <2>2, CurrentFacts, ChildFacts, CurrentMade DEF SpacesInv
<1>4. l \in Logical \ Code /\ l \notin Heap /\ frame[c][l] = None
  BY <1>1, Layout DEF Missing
<1>5. /\ frame'[c][l] # None
      /\ \A q \in Pid, m \in Logical : q # c \/ m # l => frame'[q][m] = frame[q][m]
      /\ \A q \in Pid : q # c => frame'[q] = frame[q]
      /\ CodeHeld' /\ HeapsShared'
  BY <1>1, <1>2, <1>3, <1>4, GetSpaces
<1>6. PICK s \in {"stack", "copy", "code"} :
        /\ stage' = [stage EXCEPT ![current] = s]
        /\ s = "copy" => call[current].op = "fork" /\ Missing(c, Stack) = {l}
        /\ s = "code" => call[current].op = "exec" /\ Missing(c, Stack) = {l}
  <2>1. CASE stage' = stage
    BY <1>2, <2>1, CurrentFacts
  <2>2. CASE Goto(IF Op = "fork" THEN "copy" ELSE "code") /\ Missing(c, Stack) = {l}
    BY <1>3, <2>2 DEF Goto, Op
  <2> QED BY <1>1, <2>1, <2>2
<1>7. /\ stage'[current] = s /\ \A p \in Pid : p # current => stage'[p] = stage[p]
      /\ \A p \in Pid : Made(p)' <=> Made(p)
      /\ \A m \in Heap \cup Code : frame'[c][m] = frame[c][m]
  <2>1. stage'[current] = s /\ \A p \in Pid : p # current => stage'[p] = stage[p]
    BY <1>6, CurrentFacts
  <2>2. \A p \in Pid : Made(p)' <=> Made(p)
    BY <1>2 DEF Made
  <2> QED BY <1>3, <1>4, <1>5, <2>1, <2>2, Layout
<1>8. s # "stack" => Full(frame'[c], Stack)
  <2> SUFFICES ASSUME s # "stack", NEW m \in Stack PROVE frame'[c][m] # None
    BY DEF Full
  <2>1. m # l => frame[c][m] # None /\ m \in Logical
    BY <1>6, Layout DEF Missing
  <2> QED BY <1>3, <1>5, <2>1
<1>9. PICK d : d = c
  OBVIOUS
<1>10. \A p \in Pid : p = current => PlaceOK(p)'
  <2>1. CASE call[current].op = "fork"
    <3>1. ChildOf(current, d) /\ frame'[current] = frame[current]
      BY <1>2, <1>3, <1>5, <1>9, <2>1, CurrentFacts DEF PlaceOK
    <3>2. /\ Full(frame'[current], Heap) /\ diskMap'[d] = diskMap'[current]
          /\ \A m \in Heap \cup Code : frame'[d][m] = frame'[current][m]
      BY <1>2, <1>7, <1>9, <3>1 DEF ChildOf
    <3>3. Made(current) => Full(frame'[current], Stack)
      BY <1>3, <3>1 DEF PlaceOK
    <3>4. call[current].child = d /\ s # "code" /\ call'[current].child = d
      BY <1>2, <1>6, <1>9, <2>1
    <3>5. /\ stage'[current] = s /\ s \in {"stack", "copy"} /\ call'[current].op = "fork"
          /\ s = "copy" => Full(frame'[d], Stack)
      BY <1>2, <1>6, <1>7, <1>8, <1>9, <2>1
    <3> QED BY <1>7, <3>2, <3>3, <3>4, <3>5 DEF PlaceOK, ChildOf
  <2>2. CASE call[current].op = "exec"
    <3>1. d = current /\ s # "copy" /\ Bare(frame[current], Heap)
      BY <1>3, <1>6, <1>9, <2>2 DEF PlaceOK
    <3>2. Bare(frame'[current], Heap)
      BY <1>7, <1>9, <3>1 DEF Bare
    <3>3. /\ stage'[current] = s /\ s \in {"stack", "code"} /\ call'[current].op = "exec"
          /\ s = "code" => Full(frame'[current], Stack)
      BY <1>2, <1>6, <1>7, <1>8, <1>9, <2>2, <3>1
    <3>4. \A p \in Pid : p = current => ~Made(p)'
      BY <1>3, <1>7, <1>9, <3>1
    <3> QED BY <3>2, <3>3, <3>4 DEF PlaceOK
  <2> QED BY <1>3, <2>1, <2>2
<1>11. \A p \in Pid : p # current /\ MyChild(p) => PlaceOK(p)'
  <2>1. ASSUME d # current, Op = "fork"
        PROVE  PlaceOK(d)'
    <3>1. /\ stage'[d] = "user" /\ call'[d].op = "none" /\ ~Made(d)'
          /\ Full(frame[d], Heap) \/ Bare(frame[d], Heap)
      BY <1>2, <1>3, <1>7, <1>9, <2>1 DEF Op, PlaceOK
    <3>2. Full(frame'[d], Heap) \/ Bare(frame'[d], Heap)
      BY <1>7, <1>9, <3>1 DEF Full, Bare
    <3> QED BY <3>1, <3>2 DEF PlaceOK
  <2> QED BY <1>9, <2>1 DEF MyChild
<1>12. ASSUME NEW p \in Pid, p # current
       PROVE  stage[p] = "loaded" /\ status'[p] # "WAIT_DISK" =>
                  page'[frame[p][Loading]] = call[p].block
  BY <1>2, LoadedStays
<1>13. \A p \in Pid : p # current /\ ~MyChild(p) =>
          frame'[p] = frame[p] /\ diskMap'[p] = diskMap[p]
  BY <1>2, <1>3, <1>5 DEF MyChild, Op
<1>14. \A p \in Pid : p # current /\ ~MyChild(p) => PlaceOK(p)'
  BY <1>2, <1>7, <1>12, <1>13, OthersPlaced
<1>15. \A p \in Pid : SameSpace(p)
  BY <1>2, <1>3, <1>5, <1>7 DEF SameSpace
<1>16. SpaceTable' = SpaceTable
  BY <1>5, <1>15, TableSame DEF SpacesInv
<1> QED BY <1>2, <1>5, <1>10, <1>11, <1>14, <1>16 DEF SpacesInv, Simulated

\* A heap that is not whole does not show.
LEMMA ShapeBare ==
    ASSUME NEW d, NEW f, NEW g, NEW e, \A l \in Stack : e[l] = f[l],
           ~Full(f, Heap), ~Full(e, Heap)
    PROVE  Shape(d, e, g) = Shape(d, f, g)
BY DEF Shape, HeapOf

LEMMA ShapeNewHeap ==
    ASSUME NEW d, NEW f, NEW g, NEW e, \A l \in Stack : e[l] = f[l]
    PROVE  Shape(d, e, g) = [Shape(d, f, g) EXCEPT !.heap = HeapOf(e, g)]
<1>1. [l \in Stack |-> g[e[l]]] = [l \in Stack |-> g[f[l]]]
  OBVIOUS
<1>2. PICK c, s, h, i : /\ c = [k \in Code |-> CodeOf(d[k])] /\ s = [l \in Stack |-> g[f[l]]]
                        /\ h = HeapOf(f, g) /\ i = HeapOf(e, g)
  OBVIOUS
<1>3. /\ Shape(d, f, g) = [code |-> c, stack |-> s, heap |-> h]
      /\ Shape(d, e, g) = [code |-> c, stack |-> s, heap |-> i]
  BY <1>1, <1>2 DEF Shape
<1> QED BY <1>2, <1>3

LEMMA FillHeapSpaces ==
    ASSUME Parameters, ProcessesInv, SpacesInv, FillHeap
    PROVE  Simulated
<1>1. PICK l \in Heap : /\ l \in Missing(current, Heap) /\ GetPage(current, l)
                        /\ IF Missing(current, Heap) # {l} THEN UNCHANGED calls
                           ELSE IF Op = "fork" THEN Goto("area") /\ UNCHANGED call
                           ELSE Return
  BY DEF FillHeap, First
<1>2. /\ status' = status /\ page' = page /\ diskMap' = diskMap
      /\ stage[current] = "heap"
  BY DEF FillHeap, At, schedVars
<1>3. /\ l \in Logical \ Code /\ frame[current][l] = None /\ current # Idle
      /\ call[current].op \in {"fork", "heap"} /\ Made(current) /\ PlaceOK(current)
      /\ current \in Pid
  BY <1>1, <1>2, CurrentFacts, CurrentMade, Layout DEF Missing, Working, SpacesInv
<1>4. PICK g \in Page : /\ frame'[current][l] = g /\ g # None
                        /\ \A q \in Pid, m \in Logical : frame[q][m] # g
  BY <1>1, <1>2, <1>3, GetSpaces
<1>5. /\ \A q \in Pid, m \in Logical : q # current \/ m # l => frame'[q][m] = frame[q][m]
      /\ \A q \in Pid : q # current => frame'[q] = frame[q]
      /\ CodeHeld' /\ HeapsShared'
  BY <1>1, <1>2, <1>3, GetSpaces
<1>6. \/ /\ ~Full(frame'[current], Heap)
         /\ stage' = stage /\ call' = call
      \/ /\ Full(frame'[current], Heap)
         /\ \/ /\ call[current].op = "fork" /\ call' = call
               /\ stage' = [stage EXCEPT ![current] = "area"]
            \/ /\ stage' = [stage EXCEPT ![current] = "user"]
               /\ call' = [call EXCEPT ![current] = NoCall]
  <2>1. CASE Missing(current, Heap) # {l}
    <3>1. PICK m \in Heap : m # l /\ frame[current][m] = None
      BY <1>1, <2>1 DEF Missing
    <3>2. frame'[current][m] = None
      BY <1>3, <1>5, <3>1, Layout
    <3> QED BY <1>1, <2>1, <3>2 DEF calls, Full
  <2>2. CASE Missing(current, Heap) = {l}
    <3>1. \A m \in Heap : m # l => frame[current][m] # None /\ m \in Logical
      BY <2>2, Layout DEF Missing
    <3>2. Full(frame'[current], Heap)
      BY <1>3, <1>4, <1>5, <3>1 DEF Full
    <3> QED BY <1>1, <2>2, <3>2 DEF Goto, Return, Op
  <2> QED BY <2>1, <2>2
<1>7. PICK s \in {"heap", "area", "user"} :
        /\ stage'[current] = s /\ \A p \in Pid : p # current => stage'[p] = stage[p]
        /\ \A p \in Pid : p # current => call'[p] = call[p]
        /\ s # "heap" <=> Full(frame'[current], Heap)
        /\ s # "user" => call'[current] = call[current]
        /\ call'[current].op # "exec"
  <2>1. CASE ~Full(frame'[current], Heap)
    BY <1>2, <1>3, <1>6, <2>1
  <2>2. CASE Full(frame'[current], Heap)
    BY <1>3, <1>6, <2>2, CurrentFacts, CallTypes
  <2> QED BY <2>1, <2>2
<1>8. \A p \in Pid : Made(p)' <=> Made(p)
  BY <1>2, <1>3, <1>7 DEF Made
<1>9. \A m \in Stack : frame'[current][m] = frame[current][m]
  BY <1>1, <1>3, <1>5, Layout
<1>10. \A p \in Pid : p = current => PlaceOK(p)'
  <2>1. Full(frame'[current], Stack)
    BY <1>3, <1>9 DEF PlaceOK, Full
  <2> QED BY <1>7, <2>1 DEF PlaceOK
<1>11. ASSUME NEW p \in Pid, p # current
       PROVE  PlaceOK(p)'
  <2>1. PlaceOK(p) /\ Working(p)
    BY DEF SpacesInv, ProcessesInv, ProcsOK
  <2>2. stage[p] = "loaded" /\ status'[p] # "WAIT_DISK" =>
            page'[frame[p][Loading]] = call[p].block
    BY <1>2, LoadedStays
  <2>3. call[p].op = "fork" => frame'[call[p].child] = frame[call[p].child]
    BY <1>5, ChildFacts
  <2> QED BY <1>2, <1>5, <1>7, <1>8, <1>11, <2>1, <2>2, <2>3, PlaceKept
<1>12. SpacesInv'
  BY <1>2, <1>5, <1>10, <1>11 DEF SpacesInv
<1>13. ~Full(frame[current], Heap)
  BY <1>3 DEF Full
<1>14. \A p \in Pid : p # current => SameSpace(p)
  BY <1>2, <1>5, <1>8 DEF SameSpace
<1>15. CASE ~Full(frame'[current], Heap)
  <2>1. Shape(diskMap[current], frame'[current], page) = Shape(diskMap[current], frame[current], page)
    BY <1>9, <1>13, <1>15, ShapeBare
  <2>2. \A p \in Pid : p = current => SameSpace(p)
    BY <1>2, <1>8, <2>1 DEF SameSpace
  <2>3. SpaceTable' = SpaceTable
    BY <1>5, <1>14, <2>2, TableSame DEF SpacesInv
  <2> QED BY <1>12, <2>3 DEF Simulated
<1>16. CASE Full(frame'[current], Heap)
  <2>1. PICK x : x = current
    OBVIOUS
  <2>2. PICK h : h = HeapOf(frame'[x], page)
    OBVIOUS
  <2>3. /\ SpaceTable[x] = Shape(diskMap[x], frame[x], page)
        /\ Spaces!Live(x) /\ ~Spaces!HasHeap(x)
    BY <1>3, <1>13, <2>1, SpaceEntries
  <2>4. /\ SpaceTable' = [SpaceTable EXCEPT ![x] = SpaceTable'[x]]
        /\ SpaceTable'[x] = Shape(diskMap[x], frame'[x], page)
    <3>1. \A p \in Pid : p # x => SameSpace(p)
      BY <1>14, <2>1
    <3>2. Made(x)' /\ x \in Pid
      BY <1>3, <1>8, <2>1
    <3> QED BY <1>2, <1>5, <3>1, <3>2, TableExcept DEF SpacesInv
  <2>5. SpaceTable'[x] = [SpaceTable[x] EXCEPT !.heap = h]
    BY <1>9, <2>1, <2>2, <2>3, <2>4, ShapeNewHeap
  <2>6. SpaceTable'[x].heap = h
    BY <2>2, <2>4, ShapeParts
  <2>7. /\ h # [id |-> -1] /\ h.id = frame'[x][2]
        /\ frame'[x][2] # None /\ frame'[x][2] \in Page
    <3>1. 2 \in Heap /\ 2 \in Logical
      BY Layout DEF Parameters, Heap
    <3>2. frame' \in [Pid -> [Logical -> Page \cup {None}]]
      BY FillHeapKeeps DEF ProcessesInv, MemoryOK, MemTypes
    <3>3. frame'[x] \in [Logical -> Page \cup {None}] /\ Full(frame'[x], Heap)
      BY <1>3, <1>16, <2>1, <3>2
    <3> QED BY <2>2, <3>1, <3>3, HeapParts DEF Full
  <2>8. ASSUME NEW q \in Pid, Spaces!Live(q)
        PROVE  SpaceTable[q].heap.id # h.id
    <3>1. /\ SpaceTable[q].heap.id = HeapOf(frame[q], page).id
          /\ HeapOf(frame[q], page).id = IF Full(frame[q], Heap) THEN frame[q][2] ELSE -1
      BY <2>8, SpaceEntries, HeapParts, CurrentFacts
    <3>2. CASE ~Full(frame[q], Heap)
      BY <2>7, <3>1, <3>2 DEF None
    <3>3. CASE Full(frame[q], Heap)
      <4>0. 2 \in Heap /\ 2 \in Logical
        BY Layout, SMTT(30) DEF Parameters, Heap
      <4>1. q # current
        BY <1>13, <3>3
      <4>2. CASE l = 2
        BY <1>4, <2>1, <2>7, <3>1, <3>3, <4>0, <4>2
      <4>3. CASE l # 2
        <5>1. frame'[x][2] = frame[x][2]
          BY <1>3, <1>5, <2>1, <4>0, <4>3
        <5>2. frame[q][2] # frame[x][2]
          BY <1>3, <2>1, <2>7, <4>0, <4>1, <5>1 DEF SpacesInv, HeapsShared
        <5> QED BY <2>7, <3>1, <3>3, <5>1, <5>2
      <4> QED BY <4>2, <4>3
    <3> QED BY <3>2, <3>3
  <2>9. SpaceTable' = [SpaceTable EXCEPT ![x].heap = h]
    BY <2>4, <2>5
  <2>10. Spaces!NewHeap(x)
    BY <2>3, <2>6, <2>7, <2>8, <2>9 DEF Spaces!NewHeap, Spaces!NoHeap
  <2> QED BY <1>3, <1>12, <2>1, <2>10 DEF Simulated, Spaces!Next
<1> QED BY <1>15, <1>16

\* A word is written: what the pages g hold becomes what h say.
StackWritten(f, g, h, l, w) ==
    /\ \A m \in Stack : h[f[m]] = IF m = l THEN w ELSE g[f[m]]
    /\ \A m \in Heap : Full(f, Heap) => h[f[m]] = g[f[m]]
HeapWritten(f, g, h, l, w) ==
    /\ Full(f, Heap)
    /\ \A m \in Heap : h[f[m]] = IF m = l THEN w ELSE g[f[m]]
    /\ \A m \in Stack : h[f[m]] = g[f[m]]

WithStack(r, l, w) == [r EXCEPT !.stack[l] = w]
WithHeap(r, l, w)  == [r EXCEPT !.heap.words[l] = w]

LEMMA ShapeWriteStack ==
    ASSUME NEW d, NEW f, NEW g, NEW h, NEW l \in Stack, NEW w,
           NEW r, r = Shape(d, f, g), StackWritten(f, g, h, l, w)
    PROVE  Shape(d, f, h) = WithStack(r, l, w)
<1>1. HeapOf(f, h) = HeapOf(f, g)
  BY DEF HeapOf, StackWritten
<1>2. PICK c, s, t, i :
        /\ c = [k \in Code |-> CodeOf(d[k])] /\ i = HeapOf(f, g)
        /\ s = [m \in Stack |-> g[f[m]]] /\ t = [m \in Stack |-> h[f[m]]]
  OBVIOUS
<1>3. t = [s EXCEPT ![l] = w]
  BY <1>2 DEF StackWritten
<1>4. /\ r = [code |-> c, stack |-> s, heap |-> i]
      /\ Shape(d, f, h) = [code |-> c, stack |-> t, heap |-> i]
  BY <1>1, <1>2 DEF Shape
<1> QED BY <1>3, <1>4 DEF WithStack

LEMMA ShapeWriteHeap ==
    ASSUME NEW d, NEW f, NEW g, NEW h, NEW l \in Heap, NEW w,
           NEW r, r = Shape(d, f, g), HeapWritten(f, g, h, l, w)
    PROVE  Shape(d, f, h) = WithHeap(r, l, w)
<1>1. [m \in Stack |-> h[f[m]]] = [m \in Stack |-> g[f[m]]]
  BY DEF HeapWritten
<1>2. PICK c, s, v, u :
        /\ c = [k \in Code |-> CodeOf(d[k])] /\ s = [m \in Stack |-> g[f[m]]]
        /\ v = [m \in Heap |-> g[f[m]]] /\ u = [m \in Heap |-> h[f[m]]]
  OBVIOUS
<1>3. u = [v EXCEPT ![l] = w]
  BY <1>2 DEF HeapWritten
<1>4. /\ HeapOf(f, g) = [id |-> f[2], words |-> v]
      /\ HeapOf(f, h) = [id |-> f[2], words |-> u]
  BY <1>2 DEF HeapOf, HeapWritten
<1>5. /\ r = [code |-> c, stack |-> s, heap |-> [id |-> f[2], words |-> v]]
      /\ Shape(d, f, h) = [code |-> c, stack |-> s, heap |-> [id |-> f[2], words |-> u]]
  BY <1>1, <1>2, <1>4 DEF Shape
<1> QED BY <1>3, <1>5 DEF WithHeap

LEMMA WriteSpaces ==
    ASSUME Parameters, ProcessesInv, SpacesInv, NEW l \in Heap \cup Stack, NEW w \in Word, Write(l, w)
    PROVE  Simulated
<1>1. PICK x, g :
        /\ x = current /\ g = frame[x][l] /\ stage[x] = "user" /\ x # Idle
        /\ g # None /\ page' = [page EXCEPT ![g] = w]
        /\ status' = status /\ frame' = frame /\ diskMap' = diskMap
        /\ stage' = stage /\ call' = call
  BY DEF Write, User, calls, schedVars
<1>2. x \in Pid /\ l \in Logical \ Code /\ l # Loading /\ g \in Page
  <2>1. x \in Pid /\ l \in Logical \ Code /\ l # Loading
    BY <1>1, CurrentFacts, Layout
  <2> QED BY <1>1, <2>1, CurrentFacts
<1>3. /\ page' \in [Page -> Int \cup Word]
      /\ \A h \in Page : page'[h] = IF h = g THEN w ELSE page[h]
  BY <1>1, <1>2 DEF SpacesInv
<1>4. \A q \in Pid, m \in Logical : frame[q][m] = g => m = l /\ (q = x \/ l \in Heap)
  BY <1>1, <1>2 DEF ProcessesInv, MemoryOK, PagesApart
<1>5. \A q \in Pid, m \in Logical : frame[q][m] \in Page \cup {None}
  BY CurrentFacts
<1>6. CodeHeld' /\ HeapsShared'
  <2>1. \A p \in Pid, k \in Code : frame[p][k] # None => page'[frame[p][k]] = page[frame[p][k]]
    BY <1>2, <1>3, <1>4, <1>5, Layout
  <2> QED BY <1>1, <2>1, HeldSame
<1>7. (\A p \in Pid : Made(p)' <=> Made(p)) /\ Made(x)
  BY <1>1, CurrentMade DEF Made
<1>8. ASSUME NEW p \in Pid
      PROVE  PlaceOK(p)'
  <2>1. PlaceOK(p) /\ Working(p)
    BY DEF SpacesInv, ProcessesInv, ProcsOK
  <2>2. stage[p] = "loaded" => page'[frame[p][Loading]] = page[frame[p][Loading]]
    <3>1. stage[p] = "loaded" => frame[p][Loading] # None
      BY DEF ProcessesInv, ProcsOK, EntriesOK
    <3> QED BY <1>2, <1>3, <1>4, <1>5, <3>1, Layout
  <2>3. stage[p] = "loaded" /\ status'[p] # "WAIT_DISK" =>
            page'[frame[p][Loading]] = call[p].block
    BY <1>1, <2>2, LoadedStays
  <2> QED BY <1>1, <1>7, <2>1, <2>3, PlaceKept
<1>9. SpacesInv'
  BY <1>3, <1>6, <1>8 DEF SpacesInv
<1>10. ASSUME NEW p \in Pid, Made(p)
       PROVE  /\ \A m \in Stack : frame[p][m] \in Page /\ m \in Logical
              /\ Full(frame[p], Heap) => \A m \in Heap : frame[p][m] \in Page /\ m \in Logical
  <2>1. Full(frame[p], Stack)
    BY <1>10 DEF SpacesInv, PlaceOK
  <2> QED BY <1>5, <2>1, Layout DEF Full
<1>11. CASE l \in Stack
  <2>0. l \notin Heap
    BY <1>11, Layout
  <2>1. ASSUME NEW p \in Pid, p # x, Made(p)
        PROVE  Shape(diskMap[p], frame[p], page') = Shape(diskMap[p], frame[p], page)
    <3>1. /\ \A m \in Stack : page'[frame[p][m]] = page[frame[p][m]]
          /\ Full(frame[p], Heap) => \A m \in Heap : page'[frame[p][m]] = page[frame[p][m]]
      BY <1>3, <1>4, <1>10, <2>0, <2>1
    <3> QED BY <3>1, ShapeSame
  <2>2. /\ SpaceTable' = [SpaceTable EXCEPT ![x] = SpaceTable'[x]]
        /\ SpaceTable'[x] = Shape(diskMap[x], frame[x], page')
    <3>1. \A p \in Pid : p # x => SameSpace(p)
      BY <1>1, <1>7, <2>1 DEF SameSpace
    <3> QED BY <1>1, <1>2, <1>6, <1>7, <3>1, TableExcept DEF SpacesInv
  <2>3. PICK r : /\ r = Shape(diskMap[x], frame[x], page)
                 /\ Shape(diskMap[x], frame[x], page') = [r EXCEPT !.stack[l] = w]
    <3>1. \A m \in Stack : page'[frame[x][m]] = IF m = l THEN w ELSE page[frame[x][m]]
      BY <1>1, <1>2, <1>3, <1>4, <1>7, <1>10
    <3>2. \A m \in Heap : Full(frame[x], Heap) => page'[frame[x][m]] = page[frame[x][m]]
      BY <1>2, <1>3, <1>4, <1>7, <1>10, <2>0
    <3>3. StackWritten(frame[x], page, page', l, w)
      BY <3>1, <3>2 DEF StackWritten
    <3>4. PICK r : r = Shape(diskMap[x], frame[x], page)
      OBVIOUS
    <3>5. Shape(diskMap[x], frame[x], page') = WithStack(r, l, w)
      BY <1>11, <3>3, <3>4, ShapeWriteStack
    <3> QED BY <3>4, <3>5 DEF WithStack
  <2>4. SpaceTable[x] = Shape(diskMap[x], frame[x], page) /\ Spaces!Live(x)
    BY <1>2, <1>7, SpaceEntries
  <2>5. SpaceTable' = [SpaceTable EXCEPT ![x].stack[l] = w]
    BY <2>2, <2>3, <2>4
  <2>6. Spaces!WriteStack(x, l, w)
    BY <2>4, <2>5 DEF Spaces!WriteStack
  <2> QED BY <1>2, <1>9, <1>11, <2>6 DEF Simulated, Spaces!Next
<1>12. CASE l \in Heap
  <2>0. l \notin Stack /\ 2 \in Heap /\ 2 \in Logical
    <3>1. 2 \in Heap
      BY DEF Parameters, Heap
    <3> QED BY <1>12, <3>1, Layout
  <2>1. Full(frame[x], Heap)
    BY <1>1, <1>2, <1>12 DEF SpacesInv, PlaceOK, Bare
  <2>2. /\ Spaces!Live(x) /\ Spaces!HasHeap(x) /\ SpaceTable[x].heap.id = frame[x][2]
        /\ frame[x][2] \in Page
    BY <1>2, <1>7, <1>10, <2>0, <2>1, SpaceEntries
  <2>3. ASSUME NEW p \in Pid, Made(p)
        PROVE  /\ SpaceTable[p] = Shape(diskMap[p], frame[p], page) /\ Spaces!Live(p)
               /\ SpaceTable'[p] = Shape(diskMap[p], frame[p], page')
               /\ SpaceTable[p].heap.id = IF Full(frame[p], Heap) THEN frame[p][2] ELSE -1
    <3>1. SpaceTable[p] = Shape(diskMap[p], frame[p], page) /\ Spaces!Live(p)
      BY <2>3, SpaceEntries
    <3>2. SpaceTable'[p] = Shape(diskMap[p], frame[p], page')
      <4>1. SpaceOf(p)' = Shape(diskMap[p], frame[p], page')
        BY <1>1, <1>6, SpaceShapeNext
      <4> QED BY <1>7, <2>3, <4>1 DEF SpaceTable
    <3> QED BY <2>3, <3>1, <3>2, SpaceEntries
  <2>4. ASSUME NEW p \in Pid, Made(p), SpaceTable[p].heap.id = SpaceTable[x].heap.id
        PROVE  SpaceTable'[p] = [SpaceTable[p] EXCEPT !.heap.words[l] = w]
    <3>1. Full(frame[p], Heap) /\ frame[p][2] = frame[x][2] /\ frame[p][2] # None
      <4>1. frame[x][2] # -1 /\ frame[x][2] # None
        BY <2>0, <2>1 DEF Full, None
      <4> QED BY <2>2, <2>3, <2>4, <4>1
    <3>2. \A m \in Heap : frame[p][m] = frame[x][m]
      BY <1>2, <2>0, <3>1 DEF SpacesInv, HeapsShared
    <3>3. \A m \in Heap : page'[frame[p][m]] = IF m = l THEN w ELSE page[frame[p][m]]
      BY <1>1, <1>2, <1>3, <1>4, <1>10, <2>4, <3>1, <3>2
    <3>4. \A m \in Stack : page'[frame[p][m]] = page[frame[p][m]]
      BY <1>3, <1>4, <1>10, <2>0, <2>4
    <3>5. PICK r : /\ r = Shape(diskMap[p], frame[p], page)
                   /\ Shape(diskMap[p], frame[p], page') = [r EXCEPT !.heap.words[l] = w]
      <4>1. HeapWritten(frame[p], page, page', l, w)
        BY <3>1, <3>3, <3>4 DEF HeapWritten
      <4>2. PICK r : r = Shape(diskMap[p], frame[p], page)
        OBVIOUS
      <4>3. Shape(diskMap[p], frame[p], page') = WithHeap(r, l, w)
        BY <1>12, <4>1, <4>2, ShapeWriteHeap
      <4> QED BY <4>2, <4>3 DEF WithHeap
    <3> QED BY <2>3, <2>4, <3>5
  <2>5. ASSUME NEW p \in Pid, Made(p), SpaceTable[p].heap.id # SpaceTable[x].heap.id
        PROVE  SpaceTable'[p] = SpaceTable[p]
    <3>1. p # x
      BY <2>5
    <3>2. Full(frame[p], Heap) => \A m \in Heap : frame[p][m] # g
      <4> SUFFICES ASSUME Full(frame[p], Heap), NEW m \in Heap, frame[p][m] = g PROVE FALSE
        OBVIOUS
      <4>1. m = l
        BY <1>4, <1>10, <2>5
      <4>2. frame[p][2] = frame[x][2]
        BY <1>1, <1>2, <2>0, <3>1, <4>1 DEF SpacesInv, HeapsShared
      <4> QED BY <2>2, <2>3, <2>5, <4>2
    <3>3. /\ \A m \in Stack : page'[frame[p][m]] = page[frame[p][m]]
          /\ Full(frame[p], Heap) => \A m \in Heap : page'[frame[p][m]] = page[frame[p][m]]
      BY <1>3, <1>4, <1>10, <2>0, <2>5, <3>2
    <3>4. Shape(diskMap[p], frame[p], page') = Shape(diskMap[p], frame[p], page)
      BY <3>3, ShapeSame
    <3> QED BY <2>3, <2>5, <3>4
  <2>6. ASSUME NEW p \in Pid, ~Made(p)
        PROVE  SpaceTable'[p] = SpaceTable[p] /\ ~Spaces!Live(p)
    BY <1>7, <2>6, SpaceEntries DEF SpaceTable
  <2>7. ASSUME NEW p \in Pid
        PROVE  SpaceTable'[p] = IF Spaces!Live(p) /\ SpaceTable[p].heap.id = SpaceTable[x].heap.id
                                THEN [SpaceTable[p] EXCEPT !.heap.words[l] = w] ELSE SpaceTable[p]
    BY <2>3, <2>4, <2>5, <2>6
  <2>8. SpaceTable' = [q \in Pid |-> SpaceTable'[q]]
    BY DEF SpaceTable
  <2>9. Spaces!WriteHeap(x, l, w)
    BY <2>2, <2>7, <2>8 DEF Spaces!WriteHeap
  <2> QED BY <1>2, <1>9, <1>12, <2>9 DEF Simulated, Spaces!Next
<1> QED BY <1>11, <1>12

LEMMA DiskInterruptSpaces ==
    ASSUME Parameters, ProcessesInv, SpacesInv, DiskInterrupt
    PROVE  Simulated
<1>1. PICK x \in Pid :
        /\ status[x] = "WAIT_DISK" /\ status' = [status EXCEPT ![x] = "READY"]
        /\ page' = [page EXCEPT ![frame[x][Loading]] = call[x].block]
  BY DEF DiskInterrupt
<1>2. UNCHANGED <<frame, diskMap, stage, call>>
  BY DEF DiskInterrupt, calls
<1>3. /\ \A q \in Pid, m \in Logical : frame[q][m] \in Page \cup {None}
      /\ None \notin Page /\ Loading \in Logical
  <2>1. None \notin Page /\ Loading \in Logical
    BY Layout
  <2> QED BY <2>1, CurrentFacts
<1>4. /\ page' \in [Page -> Int \cup Word]
      /\ \A q \in Pid, m \in Logical : frame[q][m] \in Page /\ ~(q = x /\ m = Loading) =>
            page'[frame[q][m]] = page[frame[q][m]]
      /\ stage[x] = "loaded" => page'[frame[x][Loading]] = call[x].block
  <2>1. CASE stage[x] = "loaded"
    <3>1. PICK g \in Page : g = frame[x][Loading] /\ g # None
      BY <1>3, <2>1 DEF ProcessesInv, ProcsOK, EntriesOK
    <3>2. \A q \in Pid, m \in Logical : frame[q][m] = g => q = x /\ m = Loading
      BY <3>1, Layout DEF ProcessesInv, MemoryOK, PagesApart
    <3>3. call[x].block \in Int
      <4>1. call[x] \in Call /\ Working(x)
        BY DEF ProcessesInv, ProcsOK, ProcTypes
      <4> QED BY <2>1, <4>1, CallFields DEF Working
    <3> QED BY <1>1, <3>1, <3>2, <3>3 DEF SpacesInv
  <2>2. CASE stage[x] # "loaded"
    <3>1. frame[x][Loading] = None
      BY <2>2 DEF ProcessesInv, ProcsOK, EntriesOK
    <3>2. page' = page
      BY <1>1, <1>3, <3>1 DEF SpacesInv
    <3> QED BY <2>2, <3>2 DEF SpacesInv
  <2> QED BY <2>1, <2>2
<1>5. \A p \in Pid : status'[p] = IF p = x THEN "READY" ELSE status[p]
  BY <1>1, CurrentFacts
<1>6. \A p \in Pid : Made(p)' <=> Made(p)
  BY <1>1, <1>2, <1>5 DEF Made
<1>7. CodeHeld' /\ HeapsShared'
  <2>1. \A p \in Pid, k \in Code : frame[p][k] # None => page'[frame[p][k]] = page[frame[p][k]]
    BY <1>3, <1>4, Layout
  <2> QED BY <1>2, <2>1, HeldSame
<1>8. ASSUME NEW p \in Pid
      PROVE  PlaceOK(p)'
  <2>1. PlaceOK(p) /\ Working(p)
    BY DEF SpacesInv, ProcessesInv, ProcsOK
  <2>2. stage[p] = "loaded" /\ status'[p] # "WAIT_DISK" =>
            page'[frame[p][Loading]] = call[p].block
    <3>1. CASE p = x
      BY <1>4, <3>1
    <3>2. CASE p # x /\ stage[p] = "loaded"
      <4>1. frame[p][Loading] # None
        BY <3>2 DEF ProcessesInv, ProcsOK, EntriesOK
      <4>2. page'[frame[p][Loading]] = page[frame[p][Loading]]
        BY <1>3, <1>4, <3>2, <4>1
      <4> QED BY <1>5, <3>2, <4>2, LoadedStays
    <3> QED BY <3>1, <3>2
  <2> QED BY <1>2, <1>6, <2>1, <2>2, PlaceKept
<1>9. SpacesInv'
  BY <1>4, <1>7, <1>8 DEF SpacesInv
<1>10. \A p \in Pid : SameSpace(p)
  <2> SUFFICES ASSUME NEW p \in Pid PROVE SameSpace(p)
    OBVIOUS
  <2>1. ASSUME Made(p)
        PROVE  Shape(diskMap[p], frame[p], page') = Shape(diskMap[p], frame[p], page)
    <3>1. Full(frame[p], Stack)
      BY <2>1 DEF SpacesInv, PlaceOK
    <3>2. /\ \A m \in Stack : page'[frame[p][m]] = page[frame[p][m]]
          /\ Full(frame[p], Heap) => \A m \in Heap : page'[frame[p][m]] = page[frame[p][m]]
      BY <1>3, <1>4, <3>1, Layout DEF Full
    <3> QED BY <3>2, ShapeSame
  <2> QED BY <1>2, <1>6, <2>1 DEF SameSpace
<1>11. SpaceTable' = SpaceTable
  BY <1>7, <1>10, TableSame DEF SpacesInv
<1> QED BY <1>9, <1>11 DEF Simulated

LEMMA TakeAreaSpaces ==
    ASSUME Parameters, ProcessesInv, SpacesInv, TakeArea
    PROVE  Simulated
<1>1. PICK c, x : c = call[current].child /\ x = current
  OBVIOUS
<1>2. PICK g \in Page :
        frame' = [frame EXCEPT ![c] = [l \in Logical |->
                    IF l = Area THEN g
                    ELSE IF l \in Heap \cup Code THEN frame[x][l] ELSE None]]
  BY <1>1 DEF TakeArea
<1>3. /\ stage[x] = "area" /\ status' = status /\ page' = page /\ call' = call
      /\ stage' = [stage EXCEPT ![x] = "stack"] /\ diskMap' = [diskMap EXCEPT ![c] = diskMap[x]]
  BY <1>1 DEF TakeArea, At, Goto, schedVars
<1>4. /\ x \in Pid /\ c \in Pid /\ c # x /\ call[x].op = "fork" /\ call[x].child = c
      /\ stage[c] = "user" /\ call[c].op = "none" /\ ~Made(c)
      /\ Full(frame[x], Heap)
      /\ Made(x) => Full(frame[x], Stack)
  <2>1. call[x].op = "fork" /\ PlaceOK(x) /\ x \in Pid
    BY <1>1, <1>3, CurrentFacts DEF Working, SpacesInv
  <2> QED BY <1>1, <1>3, <2>1, ChildFacts DEF PlaceOK
<1>5. /\ \A l \in Heap \cup Code : frame'[c][l] = frame[x][l]
      /\ \A q \in Pid : q # c => frame'[q] = frame[q] /\ diskMap'[q] = diskMap[q]
      /\ diskMap'[c] = diskMap[x]
      /\ stage'[x] = "stack" /\ \A p \in Pid : p # x => stage'[p] = stage[p]
  BY <1>2, <1>3, <1>4, CurrentFacts, Layout
<1>6. \A p \in Pid : Made(p)' <=> Made(p)
  BY <1>3 DEF Made
<1>7. CodeHeld'
  <2> SUFFICES ASSUME NEW p \in Pid, NEW k \in Code
               PROVE  /\ frame'[p][k] # None => page[frame'[p][k]] = CodeOf(diskMap'[p][k])
                      /\ diskMap'[p][k] \in InitBlocks => frame'[p][k] # None
    BY <1>3 DEF CodeHeld
  <2>1. PICK q \in Pid : frame'[p][k] = frame[q][k] /\ diskMap'[p][k] = diskMap[q][k]
    BY <1>4, <1>5
  <2> QED BY <2>1 DEF SpacesInv, CodeHeld
<1>8. HeapsShared'
  <2> SUFFICES ASSUME NEW p \in Pid, NEW q \in Pid, NEW j \in Heap, p # q,
                      frame'[p][j] = frame'[q][j], frame'[p][j] # None, NEW m \in Heap
               PROVE  frame'[p][m] = frame'[q][m] /\ frame'[p][m] # None
    BY DEF HeapsShared
  <2>1. PICK a, b : /\ a = IF p = c THEN x ELSE p
                    /\ b = IF q = c THEN x ELSE q
    OBVIOUS
  <2>2. a \in Pid /\ b \in Pid /\ \A i \in Heap : frame'[p][i] = frame[a][i] /\ frame'[q][i] = frame[b][i]
    BY <1>4, <1>5, <2>1
  <2>3. CASE a = b
    <3>1. a = x
      BY <2>1, <2>3
    <3> QED BY <1>4, <2>2, <2>3, <3>1 DEF Full
  <2>4. CASE a # b
    BY <2>2, <2>4 DEF SpacesInv, HeapsShared
  <2> QED BY <2>3, <2>4
<1>9. PlaceOK(x)'
  <2>1. ChildOf(x, c)'
    BY <1>4, <1>5 DEF ChildOf
  <2> QED BY <1>3, <1>4, <1>5, <1>6, <2>1 DEF PlaceOK
<1>10. PlaceOK(c)'
  <2>1. Full(frame'[c], Heap)
    BY <1>4, <1>5 DEF Full
  <2> QED BY <1>3, <1>4, <1>5, <1>6, <2>1 DEF PlaceOK
<1>11. \A p \in Pid : p # current /\ ~MyChild(p) => PlaceOK(p)'
  <2>1. ASSUME NEW p \in Pid, p # current
        PROVE  stage[p] = "loaded" /\ status'[p] # "WAIT_DISK" =>
                   page'[frame[p][Loading]] = call[p].block
    BY <1>3, LoadedStays
  <2>2. \A p \in Pid : p # current /\ ~MyChild(p) =>
            frame'[p] = frame[p] /\ diskMap'[p] = diskMap[p]
    BY <1>1, <1>4, <1>5 DEF MyChild, Op
  <2> QED BY <1>1, <1>3, <1>5, <1>6, <2>1, <2>2, OthersPlaced
<1>12. \A p \in Pid : p # x /\ p # c => PlaceOK(p)'
  BY <1>1, <1>11 DEF MyChild
<1>13. \A p \in Pid : SameSpace(p)
  BY <1>3, <1>4, <1>5, <1>6 DEF SameSpace
<1>14. SpaceTable' = SpaceTable
  BY <1>7, <1>13, TableSame DEF SpacesInv
<1> QED BY <1>3, <1>7, <1>8, <1>9, <1>10, <1>12, <1>14 DEF SpacesInv, Simulated

LEMMA CopyStackSpaces ==
    ASSUME Parameters, ProcessesInv, SpacesInv, CopyStack
    PROVE  Simulated
<1>1. PICK c, x : c = call[current].child /\ x = current
  OBVIOUS
<1>2. /\ page' = [g \in Page |-> IF \E l \in Stack : frame[c][l] = g
                                 THEN page[frame[x][CHOOSE l \in Stack : frame[c][l] = g]]
                                 ELSE page[g]]
      /\ stage[x] = "copy" /\ frame' = frame /\ diskMap' = diskMap
      /\ status' = [status EXCEPT ![c] = "CREATED"]
      /\ stage' = [stage EXCEPT ![x] = "user"] /\ call' = [call EXCEPT ![x] = NoCall]
  BY <1>1 DEF CopyStack, At, Return, Goto
<1>3. /\ x \in Pid /\ c \in Pid /\ c # x /\ call[x].op = "fork" /\ x # Idle /\ c # Idle
      /\ stage[c] = "user" /\ call[c].op = "none" /\ ~Made(c) /\ Made(x)
      /\ ChildOf(x, c) /\ Full(frame[x], Stack) /\ Full(frame[c], Stack)
  <2>1. call[x].op = "fork" /\ PlaceOK(x) /\ x \in Pid /\ x # Idle
    BY <1>1, <1>2, CurrentFacts DEF Working, SpacesInv
  <2>2. /\ c \in Pid /\ c # x /\ status[c] = "ALLOCATED"
        /\ stage[c] = "user" /\ call[c].op = "none" /\ ~Made(c)
    BY <1>1, <2>1, ChildFacts
  <2>3. c # Idle
    BY <2>2 DEF ProcessesInv, ProcsOK, ProcTypes, OneRunning
  <2>4. Made(x)
    BY <1>1, <2>1, CurrentMade
  <2> QED BY <1>1, <1>2, <2>1, <2>2, <2>3, <2>4 DEF PlaceOK
<1>4. /\ \A q \in Pid, m \in Logical : frame[q][m] \in Page \cup {None}
      /\ \A m \in Stack : m \in Logical /\ frame[c][m] \in Page /\ frame[x][m] \in Page
  <2>1. \A q \in Pid, m \in Logical : frame[q][m] \in Page \cup {None}
    BY CurrentFacts
  <2> QED BY <1>3, <2>1, Layout DEF Full
<1>5. \A m \in Stack : page'[frame[c][m]] = page[frame[x][m]]
  <2> SUFFICES ASSUME NEW m \in Stack PROVE page'[frame[c][m]] = page[frame[x][m]]
    OBVIOUS
  <2>1. \A l \in Stack : frame[c][l] = frame[c][m] => l = m
    BY <1>3, <1>4, OncePerProcess, Layout DEF ProcessesInv
  <2>2. PICK i : i = CHOOSE l \in Stack : frame[c][l] = frame[c][m]
    OBVIOUS
  <2>3. i = m
    BY <2>1, <2>2
  <2> QED BY <1>2, <1>4, <2>2, <2>3
<1>6. \A q \in Pid, m \in Logical : frame[q][m] \in Page /\ ~(q = c /\ m \in Stack) =>
          page'[frame[q][m]] = page[frame[q][m]]
  <2> SUFFICES ASSUME NEW q \in Pid, NEW m \in Logical, frame[q][m] \in Page,
                      ~(q = c /\ m \in Stack)
               PROVE  page'[frame[q][m]] = page[frame[q][m]]
    OBVIOUS
  <2>1. frame[q][m] # None
    BY Layout
  <2>2. \A l \in Stack : frame[c][l] # frame[q][m]
    BY <1>3, <2>1, Layout DEF ProcessesInv, MemoryOK, PagesApart
  <2> QED BY <1>2, <2>2
<1>7. page' \in [Page -> Int \cup Word]
  <2> SUFFICES ASSUME NEW g \in Page PROVE page'[g] \in Int \cup Word
    BY <1>2
  <2>1. CASE \E l \in Stack : frame[c][l] = g
    BY <1>4, <1>5, <2>1 DEF SpacesInv
  <2>2. CASE ~ \E l \in Stack : frame[c][l] = g
    BY <1>2, <2>2 DEF SpacesInv
  <2> QED BY <2>1, <2>2
<1>8. CodeHeld' /\ HeapsShared'
  <2>1. \A p \in Pid, k \in Code : frame[p][k] # None => page'[frame[p][k]] = page[frame[p][k]]
    BY <1>4, <1>6, Layout
  <2> QED BY <1>2, <2>1, HeldSame
<1>9. /\ \A p \in Pid : p # x => stage'[p] = stage[p] /\ call'[p] = call[p]
      /\ stage'[x] = "user" /\ call'[x].op = "none"
      /\ \A p \in Pid : status'[p] = IF p = c THEN "CREATED" ELSE status[p]
  BY <1>2, <1>3, CurrentFacts, CallTypes
<1>10. (\A p \in Pid : p # c => (Made(p)' <=> Made(p))) /\ Made(c)'
  BY <1>3, <1>9 DEF Made
<1>11. PlaceOK(x)'
  BY <1>2, <1>3, <1>9 DEF PlaceOK, ChildOf
<1>12. PlaceOK(c)'
  <2>1. Full(frame[c], Heap) \/ Bare(frame[c], Heap)
    BY <1>3 DEF SpacesInv, PlaceOK
  <2> QED BY <1>2, <1>3, <1>9, <2>1 DEF PlaceOK
<1>13. ASSUME NEW p \in Pid, p # x, p # c
       PROVE  PlaceOK(p)'
  <2>1. PlaceOK(p) /\ Working(p)
    BY DEF SpacesInv, ProcessesInv, ProcsOK
  <2>2. stage[p] = "loaded" /\ status'[p] # "WAIT_DISK" =>
            page'[frame[p][Loading]] = call[p].block
    <3>1. ASSUME stage[p] = "loaded"
          PROVE  page'[frame[p][Loading]] = page[frame[p][Loading]]
      <4>1. frame[p][Loading] # None
        BY <3>1 DEF ProcessesInv, ProcsOK, EntriesOK
      <4> QED BY <1>4, <1>6, <1>13, <4>1, Layout
    <3> QED BY <1>9, <1>13, <3>1, LoadedStays
  <2> QED BY <1>2, <1>9, <1>10, <1>13, <2>1, <2>2, PlaceKept
<1>14. SpacesInv'
  BY <1>7, <1>8, <1>11, <1>12, <1>13 DEF SpacesInv
<1>15. ASSUME NEW p \in Pid, p # c
       PROVE  SameSpace(p)
  <2>1. ASSUME Made(p)
        PROVE  Shape(diskMap[p], frame[p], page') = Shape(diskMap[p], frame[p], page)
    <3>1. Full(frame[p], Stack)
      BY <2>1 DEF SpacesInv, PlaceOK
    <3>2. /\ \A m \in Stack : page'[frame[p][m]] = page[frame[p][m]]
          /\ Full(frame[p], Heap) => \A m \in Heap : page'[frame[p][m]] = page[frame[p][m]]
      BY <1>4, <1>6, <1>15, <3>1, Layout DEF Full
    <3> QED BY <3>2, ShapeSame
  <2> QED BY <1>2, <1>10, <1>15, <2>1 DEF SameSpace
<1>16. /\ SpaceTable' = [SpaceTable EXCEPT ![c] = SpaceTable'[c]]
       /\ SpaceTable'[c] = Shape(diskMap[c], frame[c], page')
  BY <1>2, <1>3, <1>8, <1>10, <1>15, TableExcept DEF SpacesInv
<1>17. Shape(diskMap[c], frame[c], page') = Shape(diskMap[x], frame[x], page)
  <2>1. diskMap[c] = diskMap[x] /\ \A l \in Heap : frame[c][l] = frame[x][l]
    BY <1>3 DEF ChildOf
  <2>2. Full(frame[x], Heap) => \A l \in Heap : page'[frame[x][l]] = page[frame[x][l]]
    BY <1>3, <1>4, <1>6, Layout DEF Full
  <2>3. Shape(diskMap[x], frame[c], page') = Shape(diskMap[x], frame[x], page)
    BY <1>5, <2>1, <2>2, ShapeSame
  <2> QED BY <2>1, <2>3
<1>18. /\ SpaceTable[x] = Shape(diskMap[x], frame[x], page)
       /\ Spaces!Live(x) /\ Spaces!HasHeap(x) /\ ~Spaces!Live(c)
  BY <1>3, SpaceEntries DEF ChildOf
<1>19. Spaces!Fork(x, c)
  BY <1>16, <1>17, <1>18 DEF Spaces!Fork
<1> QED BY <1>3, <1>14, <1>19 DEF Simulated, Spaces!Next
-----------------------------------------------------------------------------
\* A page that is given back is nobody else's, or stays as it is.
LEMMA ReleaseSpaces ==
    ASSUME Parameters, ProcessesInv, SpacesInv, NEW S \in SUBSET Pages(current), Release(S)
    PROVE  /\ page' \in [Page -> Int \cup Word]
           /\ \A q \in Pid, m \in Logical : q # current /\ frame[q][m] \in Page =>
                 page'[frame[q][m]] = page[frame[q][m]]
<1>1. page' = [g \in Page |-> IF g \in S /\ users[g] = 1 THEN None ELSE page[g]]
  BY DEF Release
<1>2. page' \in [Page -> Int \cup Word]
  BY <1>1 DEF SpacesInv, None
<1>3. ASSUME NEW q \in Pid, NEW m \in Logical, q # current, frame[q][m] \in Page,
             frame[q][m] \in S
      PROVE  users[frame[q][m]] # 1
  <2>1. PICK g \in Page : g = frame[q][m]
    BY <1>3
  <2>2. PICK l \in Logical : frame[current][l] = g
    BY <1>3, <2>1 DEF Pages
  <2>3. <<q, m>> \in Owners(g) /\ <<current, l>> \in Owners(g)
    BY <2>1, <2>2, OwnersEntries, CurrentFacts
  <2>4. users[g] = Cardinality(Owners(g)) /\ IsFiniteSet(Owners(g))
    BY OwnersCount DEF ProcessesInv
  <2>5. \A y : Owners(g) # {y}
    BY <1>3, <2>3
  <2> QED BY <2>1, <2>4, <2>5, FS_Singleton
<1> QED BY <1>1, <1>2, <1>3

\* The process that runs gives its memory back, in exit or exec.
LEMMA EndSpaces ==
    ASSUME Parameters, ProcessesInv, SpacesInv, NEW S \in SUBSET Pages(current), Release(S),
           stage[current] = "user", current # Idle,
           \A p \in Pid : p # current =>
               /\ frame'[p] = frame[p] /\ diskMap'[p] = diskMap[p]
               /\ stage'[p] = stage[p] /\ call'[p] = call[p]
               /\ Made(p)' <=> Made(p)
               /\ status[p] = "WAIT_DISK" => status'[p] = "WAIT_DISK",
           diskMap'[current] = NoMap, \A m \in Heap \cup Code : frame'[current][m] = None,
           \A p \in Pid : p = current => PlaceOK(p)' /\ ~Made(p)'
    PROVE  Simulated
<1>1. /\ page' \in [Page -> Int \cup Word]
      /\ \A q \in Pid, m \in Logical : q # current /\ frame[q][m] \in Page =>
            page'[frame[q][m]] = page[frame[q][m]]
  BY ReleaseSpaces
<1>2. \A q \in Pid, m \in Logical : frame[q][m] \in Page \cup {None}
  BY CurrentFacts
<1>3. CodeHeld'
  <2> SUFFICES ASSUME NEW p \in Pid, NEW k \in Code
               PROVE  /\ frame'[p][k] # None => page'[frame'[p][k]] = CodeOf(diskMap'[p][k])
                      /\ diskMap'[p][k] \in InitBlocks => frame'[p][k] # None
    BY DEF CodeHeld
  <2>1. CASE p = current
    BY <2>1 DEF NoMap, None, InitBlocks
  <2>2. CASE p # current
    <3>1. /\ frame[p][k] # None => page[frame[p][k]] = CodeOf(diskMap[p][k])
          /\ diskMap[p][k] \in InitBlocks => frame[p][k] # None
      BY DEF SpacesInv, CodeHeld
    <3> QED BY <1>1, <1>2, <2>2, <3>1, Layout
  <2> QED BY <2>1, <2>2
<1>4. HeapsShared'
  BY DEF HeapsShared, SpacesInv
<1>5. ASSUME NEW p \in Pid, p # current
      PROVE  stage[p] = "loaded" /\ status'[p] # "WAIT_DISK" =>
                 page'[frame[p][Loading]] = call[p].block
  <2>1. ASSUME stage[p] = "loaded"
        PROVE  page'[frame[p][Loading]] = page[frame[p][Loading]]
    <3>1. frame[p][Loading] # None
      BY <2>1 DEF ProcessesInv, ProcsOK, EntriesOK
    <3> QED BY <1>1, <1>2, <1>5, <3>1, Layout
  <2> QED BY <1>5, <2>1, LoadedStays
<1>6. \A p \in Pid : ~MyChild(p)
  BY CurrentFacts DEF MyChild, Op, Working
<1>7. \A p \in Pid : p # current /\ ~MyChild(p) => PlaceOK(p)'
  BY <1>5, OthersPlaced
<1>8. SpacesInv'
  BY <1>1, <1>3, <1>4, <1>6, <1>7 DEF SpacesInv
<1>9. PICK x \in Pid : x = current
  BY CurrentFacts
<1>10. \A p \in Pid : p # x => SameSpace(p)
  <2> SUFFICES ASSUME NEW p \in Pid, p # x PROVE SameSpace(p)
    OBVIOUS
  <2>1. ASSUME Made(p)
        PROVE  Shape(diskMap[p], frame[p], page') = Shape(diskMap[p], frame[p], page)
    <3>1. Full(frame[p], Stack)
      BY <2>1 DEF SpacesInv, PlaceOK
    <3>2. /\ \A m \in Stack : page'[frame[p][m]] = page[frame[p][m]]
          /\ Full(frame[p], Heap) => \A m \in Heap : page'[frame[p][m]] = page[frame[p][m]]
      BY <1>1, <1>2, <1>9, <3>1, Layout DEF Full
    <3> QED BY <3>2, ShapeSame
  <2> QED BY <1>9, <2>1 DEF SameSpace
<1>11. /\ SpaceTable' = [SpaceTable EXCEPT ![x] = SpaceTable'[x]]
       /\ SpaceTable'[x] = [live |-> FALSE]
  BY <1>3, <1>9, <1>10, TableExcept DEF SpacesInv
<1>12. Spaces!Live(x)
  BY <1>9, CurrentMade, SpaceEntries
<1>13. Spaces!End(x)
  BY <1>11, <1>12 DEF Spaces!End, Spaces!Gone
<1> QED BY <1>8, <1>13 DEF Simulated, Spaces!Next

\* Who sleeps for memory is woken when a page becomes free.
LEMMA WokenStatus ==
    ASSUME NEW S
    PROVE  \A p \in Pid : \/ Woken(status, S)[p] = status[p]
                          \/ status[p] = "WAIT_MEM" /\ Woken(status, S)[p] = "READY"
<1>1. CASE \E g \in S : users[g] = 1
  BY <1>1 DEF Woken, WakeAll
<1>2. CASE ~ \E g \in S : users[g] = 1
  BY <1>2 DEF Woken
<1> QED BY <1>1, <1>2

LEMMA ExecSpaces ==
    ASSUME Parameters, ProcessesInv, SpacesInv, NEW prog \in Programs, Exec(prog)
    PROVE  Simulated
<1>1. PICK S : S = Pages(current) \ {frame[current][Area]}
  OBVIOUS
<1>2. PICK c : c = [op |-> "exec", prog |-> prog, child |-> current,
                    block |-> prog[FirstCode], part |-> FirstCode]
  OBVIOUS
<1>3. /\ stage[current] = "user" /\ current # Idle /\ Release(S)
      /\ frame' = [frame EXCEPT ![current] = [NoPages EXCEPT ![Area] = frame[current][Area]]]
      /\ diskMap' = [diskMap EXCEPT ![current] = NoMap]
      /\ status' = Woken(status, Pages(current))
      /\ stage' = [stage EXCEPT ![current] = "stack"]
      /\ call' = [call EXCEPT ![current] = c]
  BY <1>1, <1>2 DEF Exec, User, Enter, Goto
<1>4. S \in SUBSET Pages(current) /\ c.op = "exec" /\ current \in Pid
  BY <1>1, <1>2, CurrentFacts
<1>5. \A p \in Pid : \/ status'[p] = status[p]
                     \/ status[p] = "WAIT_MEM" /\ status'[p] = "READY"
  BY <1>3, WokenStatus
<1>6. /\ \A p \in Pid : p # current =>
            /\ frame'[p] = frame[p] /\ diskMap'[p] = diskMap[p]
            /\ stage'[p] = stage[p] /\ call'[p] = call[p]
      /\ diskMap'[current] = NoMap /\ stage'[current] = "stack" /\ call'[current].op = "exec"
  BY <1>3, <1>4, CurrentFacts
<1>7. \A m \in Heap \cup Code : frame'[current][m] = None
  <2>1. frame'[current] = [NoPages EXCEPT ![Area] = frame[current][Area]]
    BY <1>3, <1>4, CurrentFacts
  <2> QED BY <2>1, Layout DEF NoPages
<1>8. \A p \in Pid : p # current => /\ Made(p)' <=> Made(p)
                                    /\ status[p] = "WAIT_DISK" => status'[p] = "WAIT_DISK"
  BY <1>5, <1>6 DEF Made
<1>9. \A p \in Pid : p = current => PlaceOK(p)' /\ ~Made(p)'
  <2>1. Bare(frame'[current], Heap)
    BY <1>7 DEF Bare
  <2>2. \A p \in Pid : p = current => ~Made(p)'
    BY <1>6 DEF Made
  <2> QED BY <1>6, <2>1, <2>2 DEF PlaceOK
<1> QED BY <1>3, <1>4, <1>6, <1>7, <1>8, <1>9, EndSpaces

LEMMA ExitSpaces ==
    ASSUME Parameters, ProcessesInv, SpacesInv, Exit
    PROVE  Simulated
<1>1. PICK S, w, st :
      /\ S = Pages(current) /\ w = Woken(status, S)
      /\ stage[current] = "user" /\ current # Idle
      /\ stage' = stage /\ call' = call
      /\ Release(S)
      /\ frame' = [frame EXCEPT ![current] = NoPages]
      /\ diskMap' = [diskMap EXCEPT ![current] = NoMap]
      /\ st = [Wake(w, "WAIT_PROCESS", current) EXCEPT ![current] = "TERMINATED"]
      /\ SwitchFrom(st)
  BY DEF Exit, User, calls
<1>2. call[current].op = "none" /\ current \in Pid
  BY <1>1, CurrentFacts DEF Working
<1>3. \A p \in Pid : \/ w[p] = status[p]
                     \/ status[p] = "WAIT_MEM" /\ w[p] = "READY"
  BY <1>1, WokenStatus
<1>4. /\ st \in [Pid -> State] /\ st[current] = "TERMINATED"
      /\ \A p \in Pid : p # current =>
            \/ st[p] = status[p]
            \/ status[p] \in {"WAIT_MEM", "WAIT_PROCESS"} /\ st[p] = "READY"
  <2>1. \A p \in Pid : Wake(w, "WAIT_PROCESS", current)[p] \in {w[p], "READY"}
                       /\ (w[p] # "WAIT_PROCESS" => Wake(w, "WAIT_PROCESS", current)[p] = w[p])
    BY DEF Wake
  <2>2. \A p \in Pid : w[p] \in State
    BY <1>3, CurrentFacts DEF State
  <2>0. "READY" \in State
    BY DEF State
  <2>6. Wake(w, "WAIT_PROCESS", current) \in [Pid -> State]
    BY <2>0, <2>2 DEF Wake
  <2>3. PICK v : v = Wake(w, "WAIT_PROCESS", current) /\ v \in [Pid -> State]
    BY <2>6
  <2>4. st = [v EXCEPT ![current] = "TERMINATED"] /\ "TERMINATED" \in State
    BY <1>1, <2>3 DEF State
  <2>5. /\ st \in [Pid -> State] /\ st[current] = "TERMINATED"
        /\ \A p \in Pid : p # current => st[p] = v[p]
    BY <1>2, <2>3, <2>4
  <2> QED BY <1>3, <2>1, <2>3, <2>5
<1>5. \A p \in Pid : \/ status'[p] = st[p]
                     \/ status'[p] = "RUNNING" /\ Runnable(st[p])
  BY <1>1, <1>4, SwitchRuns
<1>6. /\ status'[current] = "TERMINATED"
      /\ \A p \in Pid : p # current =>
            /\ status'[p] = "TERMINATED" <=> status[p] = "TERMINATED"
            /\ status'[p] = "ALLOCATED" <=> status[p] = "ALLOCATED"
            /\ status[p] = "WAIT_DISK" => status'[p] = "WAIT_DISK"
  BY <1>2, <1>4, <1>5, CurrentFacts DEF Runnable
<1>7. /\ \A p \in Pid : p # current => frame'[p] = frame[p] /\ diskMap'[p] = diskMap[p]
      /\ diskMap'[current] = NoMap /\ frame'[current] = NoPages
      /\ \A m \in Logical : frame'[current][m] = None
  BY <1>1, <1>2, CurrentFacts DEF NoPages
<1>8. \A m \in Heap \cup Code : frame'[current][m] = None
  BY <1>7, Layout
<1>9. \A p \in Pid : p # current => (Made(p)' <=> Made(p))
  BY <1>1, <1>6 DEF Made
<1>10. \A p \in Pid : p = current => PlaceOK(p)' /\ ~Made(p)'
  <2>1. Bare(frame'[current], Heap)
    BY <1>8 DEF Bare
  <2>2. \A p \in Pid : p = current => ~Made(p)'
    BY <1>6 DEF Made
  <2> QED BY <1>1, <1>2, <2>1, <2>2 DEF PlaceOK
<1>11. S \in SUBSET Pages(current)
  BY <1>1
<1> QED BY <1>1, <1>6, <1>7, <1>8, <1>9, <1>10, <1>11, EndSpaces
-----------------------------------------------------------------------------
\* What a program's code is in memory is what it is in its file.
LEMMA ShapeProgram ==
    ASSUME Parameters, BlocksKnown, NEW prog \in Programs, NEW f \in [Logical -> Page \cup {None}], NEW g,
           Bare(f, Heap)
    PROVE  /\ Shape(prog, f, g).code = prog
           /\ Shape(prog, f, g).heap = [id |-> -1]
<1>1. prog \in [Code -> Int] /\ \A k \in Code : prog[k] \notin InitBlocks
  BY DEF Parameters, BlocksKnown
<1>2. [k \in Code |-> CodeOf(prog[k])] = prog
  BY <1>1 DEF CodeOf
<1>3. 2 \in Heap
  BY DEF Parameters, Heap
<1>4. ~Full(f, Heap)
  BY <1>3 DEF Full, Bare
<1> QED BY <1>2, <1>4 DEF Shape, HeapOf

\* A page that holds the block is mapped: exec has made its process with that.
LEMMA InstallSpaces ==
    ASSUME Parameters, BlocksKnown, ProcessesInv, ProcessesInv', SpacesInv,
           stage[current] \in {"code", "loaded"}, current # Idle,
           NEW g \in Page, Install(g), UNCHANGED schedVars, page' = page,
           page[g] = CodeOf(call[current].block)
    PROVE  Simulated
<1>1. PICK x, k, b, e : /\ x = current /\ k = call[current].part /\ b = call[current].block
                        /\ e = call[current].prog
  OBVIOUS
<1>2. /\ x \in Pid /\ call[x].op \in {"code", "exec"} /\ k \in Code
      /\ call[x].op = "exec" => e \in Programs /\ k = FirstCode /\ b = e[FirstCode]
                                /\ \A j \in Code : frame[x][j] = None
      /\ call[x].op = "code" => frame[x][k] = None /\ diskMap[x][k] = b
      /\ status[x] = "RUNNING" /\ x # Idle /\ stage[x] \in {"code", "loaded"}
  BY <1>1, CurrentFacts, CallFields DEF Working
<1>3. /\ frame' = [frame EXCEPT ![x][k] = g, ![x][Loading] = None]
      /\ diskMap' = IF call[x].op = "exec" THEN [diskMap EXCEPT ![x] = e] ELSE diskMap
      /\ stage' = [stage EXCEPT ![x] = "user"]
      /\ call' = [call EXCEPT ![x] = NoCall]
      /\ status' = status /\ current' = current
  BY <1>1 DEF Install, Return, Goto, Op, schedVars
<1>4. k \in Logical /\ k # Loading /\ g # None /\ k \notin Heap \cup Stack
  BY <1>2, Layout
<1>5. \A q \in Pid, m \in Logical :
         frame'[q][m] = IF q = x /\ m = k THEN g
                        ELSE IF q = x /\ m = Loading THEN None ELSE frame[q][m]
  BY <1>2, <1>3, <1>4, CurrentFacts, Layout
<1>6. /\ \A q \in Pid : q # x => /\ frame'[q] = frame[q] /\ diskMap'[q] = diskMap[q]
                                 /\ stage'[q] = stage[q] /\ call'[q] = call[q]
      /\ stage'[x] = "user" /\ call'[x].op = "none"
  BY <1>2, <1>3, CurrentFacts, CallTypes
<1>7. /\ call[x].op = "exec" => diskMap'[x] = e
      /\ call[x].op = "code" => diskMap'[x] = diskMap[x]
  BY <1>2, <1>3, CurrentFacts
<1>8. diskMap'[x][k] = b
  BY <1>2, <1>7
<1>9. /\ \A m \in Heap \cup Stack, q \in Pid : frame'[q][m] = frame[q][m]
      /\ \A j \in Code, q \in Pid : q # x \/ j # k => frame'[q][j] = frame[q][j]
      /\ frame'[x][k] = g
  BY <1>2, <1>4, <1>5, Layout
<1>10. CodeHeld'
  <2> SUFFICES ASSUME NEW p \in Pid, NEW j \in Code
               PROVE  /\ frame'[p][j] # None => page'[frame'[p][j]] = CodeOf(diskMap'[p][j])
                      /\ diskMap'[p][j] \in InitBlocks => frame'[p][j] # None
    BY DEF CodeHeld
  <2>1. /\ frame[p][j] # None => page[frame[p][j]] = CodeOf(diskMap[p][j])
        /\ diskMap[p][j] \in InitBlocks => frame[p][j] # None
    BY DEF SpacesInv, CodeHeld
  <2>2. CASE p # x
    BY <1>6, <2>1, <2>2
  <2>3. CASE p = x /\ j = k
    BY <1>1, <1>4, <1>8, <1>9, <2>3
  <2>4. CASE p = x /\ j # k /\ call[x].op = "code"
    BY <1>7, <1>9, <2>1, <2>4
  <2>5. CASE p = x /\ j # k /\ call[x].op = "exec"
    <3>1. e[j] \notin InitBlocks
      BY <1>2, <2>5 DEF BlocksKnown
    <3>2. frame'[p][j] = None /\ diskMap'[p][j] = e[j]
      BY <1>2, <1>7, <1>9, <2>5
    <3> QED BY <3>1, <3>2
  <2> QED BY <1>2, <2>2, <2>3, <2>4, <2>5
<1>11. HeapsShared'
  BY <1>9 DEF HeapsShared, SpacesInv
<1>12. PlaceOK(x)
  BY <1>2 DEF SpacesInv
<1>13. PlaceOK(x)'
  <2>1. Full(frame'[x], Stack) /\ (Full(frame'[x], Heap) \/ Bare(frame'[x], Heap))
    BY <1>2, <1>9, <1>12 DEF PlaceOK, Full, Bare
  <2> QED BY <1>6, <2>1 DEF PlaceOK
<1>14. \A p \in Pid : ~MyChild(p)
  BY <1>1, <1>2 DEF MyChild, Op
<1>15. \A p \in Pid : p # current =>
          /\ Made(p)' <=> Made(p)
          /\ stage[p] = "loaded" /\ status'[p] # "WAIT_DISK" =>
                    page'[frame[p][Loading]] = call[p].block
  BY <1>1, <1>3, <1>6 DEF Made, SpacesInv, PlaceOK
<1>16. \A p \in Pid : p # current /\ ~MyChild(p) => PlaceOK(p)'
  BY <1>1, <1>6, <1>15, OthersPlaced
<1>17. SpacesInv'
  BY <1>1, <1>10, <1>11, <1>13, <1>14, <1>16 DEF SpacesInv
<1>18. \A p \in Pid : p # x => SameSpace(p)
  BY <1>1, <1>6, <1>15 DEF SameSpace
<1>19. Made(x)' /\ (Made(x) <=> call[x].op = "code")
  BY <1>2, <1>3, <1>6 DEF Made
<1>20. CASE call[x].op = "code"
  <2>1. Shape(diskMap'[x], frame'[x], page') = Shape(diskMap[x], frame[x], page)
    <3>1. /\ \A l \in Stack : page'[frame'[x][l]] = page[frame[x][l]]
          /\ \A l \in Heap : frame'[x][l] = frame[x][l]
          /\ Full(frame[x], Heap) => \A l \in Heap : page'[frame[x][l]] = page[frame[x][l]]
      BY <1>2, <1>9
    <3> QED BY <1>7, <1>20, <3>1, ShapeSame
  <2>2. \A p \in Pid : SameSpace(p)
    BY <1>18, <1>19, <1>20, <2>1 DEF SameSpace
  <2>3. SpaceTable' = SpaceTable
    BY <1>10, <2>2, TableSame DEF SpacesInv
  <2> QED BY <1>17, <2>3 DEF Simulated
<1>21. CASE call[x].op = "exec"
  <2>1. PICK s : s = Shape(e, frame'[x], page')
    OBVIOUS
  <2>2. /\ SpaceTable' = [SpaceTable EXCEPT ![x] = SpaceTable'[x]]
        /\ SpaceTable'[x] = s
    BY <1>2, <1>7, <1>10, <1>18, <1>19, <1>21, <2>1, TableExcept DEF SpacesInv
  <2>3. frame'[x] \in [Logical -> Page \cup {None}] /\ Bare(frame'[x], Heap)
    <3>1. frame' \in [Pid -> [Logical -> Page \cup {None}]]
      BY DEF ProcessesInv, MemoryOK, MemTypes
    <3>2. Bare(frame'[x], Heap)
      BY <1>2, <1>9, <1>12, <1>21 DEF PlaceOK, Bare
    <3> QED BY <1>2, <3>1, <3>2
  <2>4. s.code = e /\ s.heap = [id |-> -1]
    BY <1>2, <1>21, <2>1, <2>3, ShapeProgram
  <2>5. s # [live |-> FALSE]
    BY <2>1, ShapeParts
  <2>6. ~Spaces!Live(x)
    BY <1>2, <1>19, <1>21, SpaceEntries
  <2>7. Spaces!Start(x)
    BY <1>2, <1>21, <2>2, <2>4, <2>5, <2>6 DEF Spaces!Start, Spaces!Gone, Spaces!NoHeap
  <2> QED BY <1>2, <1>17, <2>7 DEF Simulated, Spaces!Next
<1> QED BY <1>2, <1>20, <1>21

LEMMA ShareCodeSpaces ==
    ASSUME Parameters, BlocksKnown, ProcessesInv, ProcessesInv', SpacesInv, ShareCode
    PROVE  Simulated
<1>1. PICK q \in Pid, j \in Code :
        /\ diskMap[q][j] = call[current].block /\ frame[q][j] # None
        /\ Install(frame[q][j])
  BY DEF ShareCode
<1>2. PICK g : g = frame[q][j]
  OBVIOUS
<1>3. stage[current] = "code" /\ UNCHANGED schedVars /\ page' = page
  BY DEF ShareCode, At
<1>4. current # Idle
  BY <1>3, CurrentFacts
<1>5. g \in Page
  <2>1. j \in Logical
    BY Layout
  <2> QED BY <1>1, <1>2, <2>1, CurrentFacts
<1>6. page[g] = CodeOf(call[current].block)
  BY <1>1, <1>2 DEF SpacesInv, CodeHeld
<1>7. Install(g)
  BY <1>1, <1>2
<1> QED BY <1>3, <1>4, <1>5, <1>6, <1>7, InstallSpaces

LEMMA CodeLoadedSpaces ==
    ASSUME Parameters, BlocksKnown, ProcessesInv, ProcessesInv', SpacesInv, CodeLoaded
    PROVE  Simulated
<1>1. PICK g, b : g = frame[current][Loading] /\ b = call[current].block
  OBVIOUS
<1>2. /\ stage[current] = "loaded" /\ UNCHANGED schedVars /\ page' = page /\ Install(g)
  BY <1>1 DEF CodeLoaded, At
<1>3. current # Idle /\ status[current] # "WAIT_DISK" /\ PlaceOK(current) /\ Working(current)
  BY <1>2, CurrentFacts DEF SpacesInv
<1>4. g \in Page
  <2>1. Loading \in Logical /\ current \in Pid
    BY CurrentFacts, Layout
  <2>2. frame[current][Loading] \in Page \cup {None}
    BY <2>1, CurrentFacts
  <2>3. frame[current][Loading] # None
    BY <1>2, <2>1 DEF ProcessesInv, ProcsOK, EntriesOK
  <2> QED BY <1>1, <2>2, <2>3
<1>5. page[g] = b
  BY <1>1, <1>2, <1>3 DEF PlaceOK
<1>6. b \notin InitBlocks
  <2>1. /\ call[current].op \in {"code", "exec"} /\ call[current].part \in Code
        /\ call[current].op = "exec" => call[current].prog \in Programs
    BY <1>2, <1>3, CurrentFacts, CallFields DEF Working
  <2>2. CASE call[current].op = "code"
    <3>1. /\ frame[current][call[current].part] = None
          /\ diskMap[current][call[current].part] = b
      BY <1>1, <1>3, <2>2 DEF Working
    <3> QED BY <2>1, <3>1, CurrentFacts DEF SpacesInv, CodeHeld
  <2>3. CASE call[current].op = "exec"
    <3>1. b = call[current].prog[FirstCode] /\ FirstCode \in Code
      BY <1>1, <1>3, <2>3, Layout DEF Working
    <3> QED BY <2>1, <2>3, <3>1 DEF BlocksKnown
  <2> QED BY <2>1, <2>2, <2>3
<1>7. page[g] = CodeOf(b)
  BY <1>5, <1>6 DEF CodeOf
<1> QED BY <1>1, <1>2, <1>3, <1>4, <1>7, InstallSpaces
-----------------------------------------------------------------------------
LEMMA InitSpaces ==
    ASSUME Parameters, Init
    PROVE  SpacesInv /\ Spaces!Init
<1>1. \A p \in Pid, l \in Logical :
          frame[p][l] = IF p = Root /\ l \in Booted THEN l - 1 ELSE None
  BY DEF Init, Booted
<1>2. /\ Heap \cup Stack \subseteq Booted /\ Booted \subseteq Logical
      /\ \A l \in Booted : l \in Int /\ l - 1 \in Page /\ l - 1 # None /\ (l - 1) + 1 = l
  BY DEF Booted, Parameters, Logical, Loading, Area, Heap, Code, Stack, FirstCode, Page, None
<1>3. \A p \in Pid, k \in Code :
          diskMap[p][k] = IF p = Root THEN InitPart(k, 65) ELSE None
  BY DEF Init, NoMap
<1>4. \A g \in Page : page[g] = IF g + 1 \in Code THEN InitPart(g + 1, 7) ELSE None
  BY DEF Init
<1>5. \A k \in Code : /\ k \in Booted => InitPart(k, 7) = CodeOf(InitPart(k, 65))
                      /\ k \notin Booted => InitPart(k, 65) = None
                      /\ InitPart(k, 7) \in Int
  BY DEF Booted, Parameters, Logical, Loading, Code, FirstCode, InitPart, None, CodeOf, InitBlocks
<1>6. page \in [Page -> Int \cup Word]
  <2>1. page = [g \in Page |-> IF g + 1 \in Code THEN InitPart(g + 1, 7) ELSE None]
    BY DEF Init
  <2> QED BY <1>5, <2>1 DEF None
<1>7. CodeHeld
  <2> SUFFICES ASSUME NEW p \in Pid, NEW k \in Code
               PROVE  /\ frame[p][k] # None => page[frame[p][k]] = CodeOf(diskMap[p][k])
                      /\ diskMap[p][k] \in InitBlocks => frame[p][k] # None
    BY DEF CodeHeld
  <2>1. k \in Logical
    BY Layout
  <2>2. CASE p = Root /\ k \in Booted
    <3>1. frame[p][k] = k - 1 /\ k - 1 \in Page /\ k - 1 # None /\ (k - 1) + 1 = k
      BY <1>1, <1>2, <2>1, <2>2
    <3>2. page[k - 1] = InitPart(k, 7)
      BY <1>4, <3>1
    <3> QED BY <1>3, <1>5, <2>2, <3>1, <3>2
  <2>3. CASE ~(p = Root /\ k \in Booted)
    <3>1. frame[p][k] = None /\ diskMap[p][k] = None
      BY <1>1, <1>3, <1>5, <2>1, <2>3
    <3> QED BY <3>1 DEF InitBlocks, None
  <2> QED BY <2>2, <2>3
<1>8. HeapsShared
  BY <1>1, Layout DEF HeapsShared
<1>9. /\ \A p \in Pid : /\ stage[p] = "user" /\ call[p].op = "none"
                        /\ p # Root => ~Made(p)
      /\ Made(Root)
  BY CallTypes, Layout DEF Init, BootProcessTable, Made
<1>10. ASSUME NEW p \in Pid
       PROVE  PlaceOK(p)
  <2>1. CASE p = Root
    <3>1. \A l \in Heap \cup Stack : frame[p][l] # None
      BY <1>1, <1>2, <2>1
    <3> QED BY <1>9, <3>1 DEF PlaceOK, Full
  <2>2. CASE p # Root
    <3>1. Bare(frame[p], Heap)
      BY <1>1, <2>2, Layout DEF Bare
    <3> QED BY <1>9, <2>2, <3>1 DEF PlaceOK
  <2> QED BY <2>1, <2>2
<1>11. SpacesInv
  BY <1>6, <1>7, <1>8, <1>10 DEF SpacesInv
<1>12. ProcessesInv
  BY InitKeeps
<1>13. \A p \in Pid : Spaces!Live(p) <=> Made(p)
  BY <1>11, <1>12, SpaceEntries
<1>14. Spaces!Init
  BY <1>9, <1>13, Layout DEF Spaces!Init, Spaces!Live
<1> QED BY <1>11, <1>14

LEMMA NextSpaces ==
    ASSUME Parameters, BlocksKnown, ProcessesInv, SpacesInv, [Next]_vars
    PROVE  Simulated
<1>1. CASE Exit
  BY <1>1, ExitSpaces
<1>2. CASE Fork
  BY <1>2, ForkSpaces
<1>3. CASE HeapFault
  BY <1>3, HeapFaultSpaces
<1>4. CASE Signal
  BY <1>4, SignalSpaces
<1>5. CASE Timer
  BY <1>5, TimerSpaces
<1>6. CASE \E prog \in Programs : Exec(prog)
  BY <1>6, ExecSpaces
<1>7. CASE \E k \in Code : CodeFault(k)
  BY <1>7, CodeFaultSpaces
<1>8. CASE \E q \in Pid : WaitFor(q)
  BY <1>8, WaitForSpaces
<1>9. CASE \E l \in Heap \cup Stack, w \in Word : Write(l, w)
  BY <1>9, WriteSpaces
<1>10. CASE WaitForPage
  BY <1>10, WaitForPageSpaces
<1>11. CASE FillHeap
  BY <1>11, FillHeapSpaces
<1>12. CASE TakeArea
  BY <1>12, TakeAreaSpaces
<1>13. CASE FillStack
  BY <1>13, FillStackSpaces
<1>14. CASE CopyStack
  BY <1>14, CopyStackSpaces
<1>15. CASE ShareCode
  <2>1. ProcessesInv'
    BY NextKeeps
  <2> QED BY <1>15, <2>1, ShareCodeSpaces
<1>16. CASE LoadCode
  BY <1>16, LoadCodeSpaces
<1>17. CASE StartLoad
  BY <1>17, StartLoadSpaces
<1>18. CASE CodeLoaded
  <2>1. ProcessesInv'
    BY NextKeeps
  <2> QED BY <1>18, <2>1, CodeLoadedSpaces
<1>19. CASE DiskInterrupt
  BY <1>19, DiskInterruptSpaces
<1>20. CASE UNCHANGED vars
  <2>1. UNCHANGED <<page, frame, diskMap, stage, call>> /\ status' = status
    BY <1>20 DEF vars, schedVars, memory, calls
  <2> QED BY <2>1, TableSpaces DEF Simulated
<1> QED BY <1>1, <1>2, <1>3, <1>4, <1>5, <1>6, <1>7, <1>8, <1>9, <1>10, <1>11, <1>12,
           <1>13, <1>14, <1>15, <1>16, <1>17, <1>18, <1>19, <1>20 DEF Next

(* Whatever the number of processes, the size of memory, the programs and the
   layout of the address space, each process has the code of the program it was
   started with, a stack of its own, and a heap that it shares with those it has
   forked and nobody else: page tables, copies, loads that race with each other
   and pages shared until their last user has gone do not show (int_8.spl,
   int_9.spl, exhandler.spl, memory_manager.spl). *)
THEOREM SpacesImplemented ==
    ASSUME Parameters, BlocksKnown
    PROVE  Spec => ImplementsSpaces
<1>1. Init => ProcessesInv /\ SpacesInv /\ Spaces!Init
  BY InitKeeps, InitSpaces
<1>2. ProcessesInv /\ SpacesInv /\ [Next]_vars =>
        ProcessesInv' /\ SpacesInv' /\ [Spaces!Next]_SpaceTable
  BY NextKeeps, NextSpaces DEF Simulated
<1> QED BY <1>1, <1>2, PTL DEF Spec, ImplementsSpaces, Spaces!Spec
=============================================================================
