----------------------------- MODULE DebugTables -----------------------------
(* The debugger's displays of the kernel's tables (src/xsm/debug.c).  Each walks
   a table with one pointer, entry after entry and field after field, and prints
   words under the labels it knows.  The labels and strides are the debugger's;
   where the kernel keeps what the labels name is read off the kernel's own code
   (src/code): the two are kept in agreement by nothing but care. *)
EXTENDS Integers, Sequences

VARIABLES table,   \* the table shown
          entry,   \* the entry the walk is at
          field,   \* the field it is about to show
          ptr      \* the pointer

vars == <<table, entry, field, ptr>>

\* The debugger's layouts: base address, entries, and the fields in display
\* order as <<label, words>>; "Unused" fields are skipped.
F(label) == <<label, 1>>
\* Mutant: one word is skipped, however many are unused.
UnusedOne(n) == <<"Unused", 1>>
Unused(n) == <<"Unused", n>>
L(base, count, fields) == [base |-> base, count |-> count, fields |-> fields]

Pcb == L(28672, 16, <<F("Tick"), F("PID"), F("PPID"), F("UserID"), <<"State", 2>>,
    F("SwapFlag"), F("InodeIndex"), F("InputBuffer"), F("ModeFlag"), F("SwapStatus"),
    F("UserAreaPage"), F("KPTR"), F("UPTR"), F("PTBR"), F("PTLR")>>)
FileTable == L(28928, 32, <<F("InodeIndex"), F("OpenCount"), F("Lseek"), Unused(1)>>)
SemTable == L(29056, 32, <<F("LockingPID"), F("ProcessCount"), Unused(2)>>)
MemFreeList == L(29184, 128, <<F("Users")>>)
FileStatus == L(29312, 60, <<F("LockingPID"), F("FileOpenCount"), Unused(2)>>)
DiskStatus == L(29552, 1, <<F("Status"), F("Load/Store"), F("Page"), F("Block"),
    F("PID"), Unused(3)>>)
SystemStatus == L(29560, 1, <<F("UserID"), F("PID"), F("MemoryFree"), F("WaitMemory"),
    F("Swapped"), F("Paging"), Unused(2)>>)
TerminalStatus == L(29568, 1, <<F("Status"), F("PID"), Unused(2)>>)
PageTable == L(29696, 16 * 10, <<F("PHY"), F("AUX")>>)
Buffer == L(30016, 4, <<F("BlockNumber"), F("DirtyBit"), F("LockingPID"), Unused(1)>>)
DiskMap == L(30032, 16, <<Unused(2), F("Heap1"), F("Heap2"), F("Code1"), F("Code2"),
    F("Code3"), F("Code4"), F("Stack1"), F("Stack2")>>)
InodeTable == L(30208, 60, <<F("Type"), F("Name"), F("Size"), F("UID"),
    F("Perm"), Unused(3), F("D1"), F("D2"), F("D3"), F("D4"), Unused(4)>>)
UserTable == L(31168, 16, <<F("UserName"), F("Password")>>)
DiskFreeList == L(31232, 512, <<F("Used")>>)
RootFile == L(31744, 60, <<F("Name"), F("Size"), F("Type"), F("User"), F("Perm"), Unused(3)>>)
ResourceTable == L(512 + 496, 8, <<F("ResourceIdentifier"), F("Index")>>)

Layout ==
  [ pcb |-> Pcb,
    filetable |-> FileTable,
    semtable |-> SemTable,
    memfreelist |-> MemFreeList,
    filestatus |-> FileStatus,
    diskstatus |-> DiskStatus,
    system |-> SystemStatus,
    terminal |-> TerminalStatus,
    pagetable |-> PageTable,
    buffer |-> Buffer,
    diskmap |-> DiskMap,
    inode |-> InodeTable,
    usertable |-> UserTable,
    diskfree |-> DiskFreeList,
    rootfile |-> RootFile,
    resource |-> ResourceTable ]

Tables == DOMAIN Layout
Fields == Layout[table].fields
Done   == entry = Layout[table].count

Init == /\ table \in Tables
        /\ entry = 0 /\ field = 1
        /\ ptr = Layout[table].base

\* The words of the field are shown, or skipped, and the pointer moves on.
Show ==
  /\ ~Done
  /\ ptr' = ptr + Fields[field][2]
  /\ IF field < Len(Fields)
     THEN field' = field + 1 /\ entry' = entry
     ELSE field' = 1 /\ entry' = entry + 1
  /\ UNCHANGED table

Next == Show

Spec == Init /\ [][Next]_vars
-----------------------------------------------------------------------------
(* Where the kernel keeps what the labels name: the base and the stride of each
   table and the offsets its code uses. *)
Kernel(base, size, words) == [base |-> base, size |-> size, words |-> words]

KernelTable ==
  [ pcb |-> Kernel(28672, 16, {<<"Tick", 0>>, <<"PID", 1>>, <<"PPID", 2>>, <<"UserID", 3>>,
              <<"State", 4>>, <<"InodeIndex", 7>>, <<"InputBuffer", 8>>, <<"ModeFlag", 9>>,
              <<"UserAreaPage", 11>>, <<"KPTR", 12>>, <<"UPTR", 13>>, <<"PTBR", 14>>}),
    filetable   |-> Kernel(28928, 4, {<<"InodeIndex", 0>>, <<"OpenCount", 1>>, <<"Lseek", 2>>}),
    semtable    |-> Kernel(29056, 4, {<<"LockingPID", 0>>, <<"ProcessCount", 1>>}),
    memfreelist |-> Kernel(29184, 1, {<<"Users", 0>>}),
    filestatus  |-> Kernel(29312, 4, {<<"LockingPID", 0>>, <<"FileOpenCount", 1>>}),
    diskstatus  |-> Kernel(29552, 8, {<<"Status", 0>>, <<"Load/Store", 1>>, <<"Page", 2>>,
                                      <<"Block", 3>>, <<"PID", 4>>}),
    system      |-> Kernel(29560, 8, {<<"UserID", 0>>, <<"PID", 1>>, <<"MemoryFree", 2>>,
                                      <<"WaitMemory", 3>>}),
    terminal    |-> Kernel(29568, 4, {<<"Status", 0>>, <<"PID", 1>>}),
    pagetable   |-> Kernel(29696, 2, {<<"PHY", 0>>, <<"AUX", 1>>}),
    buffer      |-> Kernel(30016, 4, {<<"BlockNumber", 0>>, <<"DirtyBit", 1>>, <<"LockingPID", 2>>}),
    diskmap     |-> Kernel(30032, 10, {<<"Heap1", 2>>, <<"Heap2", 3>>, <<"Code1", 4>>,
                                       <<"Code4", 7>>, <<"Stack1", 8>>, <<"Stack2", 9>>}),
    inode       |-> Kernel(30208, 16, {<<"Type", 0>>, <<"Name", 1>>, <<"Size", 2>>, <<"UID", 3>>,
                                       <<"Perm", 4>>, <<"D1", 8>>, <<"D4", 11>>}),
    usertable   |-> Kernel(31168, 2, {<<"UserName", 0>>}),
    diskfree    |-> Kernel(31232, 1, {<<"Used", 0>>}),
    rootfile    |-> Kernel(31744, 8, {<<"Name", 0>>, <<"Size", 1>>, <<"Type", 2>>, <<"User", 3>>,
                                      <<"Perm", 4>>}),
    resource    |-> Kernel(512 + 496, 2, {<<"ResourceIdentifier", 0>>, <<"Index", 1>>}) ]

(* Each word is shown under the label of what the kernel keeps in it, in every
   entry of the table (debug.c displays; splconstants.cfg; int_4.spl:48-66,
   resource_manager.spl, device_manager.spl, boot.spl). *)
LabelsRight ==
  \A w \in KernelTable[table].words :
    ~Done /\ Fields[field][1] = w[1] =>
      ptr = KernelTable[table].base + entry * KernelTable[table].size + w[2]

(* A display ends where the table does: before any other table, and with no
   entry left out of those the kernel has. *)
EndsWithTable ==
  Done => /\ ptr = KernelTable[table].base + Layout[table].count * KernelTable[table].size
          /\ \A t \in Tables : KernelTable[t].base > KernelTable[table].base
                                 => ptr <= KernelTable[t].base
=============================================================================
