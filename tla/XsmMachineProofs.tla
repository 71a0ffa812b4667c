--------------------------- MODULE XsmMachineProofs ---------------------------
(* What holds of the machine for every page size, memory layout, choice of clocks
   and set of programs: first of its devices, for any programs, those that fill
   their stack included; then of the programs it runs. *)
EXTENDS XsmMachine, TLAPS

DeviceOK ==
  /\ disk \in [busy : BOOLEAN, wait : Nat, op : {"load", "store"}]
  /\ console \in [busy : BOOLEAN, wait : Nat]
  /\ due \in [{DiskInt, ConsoleInt} -> -1 .. 1]

(* A device that waits owes a transfer; one that was released owes none. *)
Owes(d, n) == /\ d.wait > 0 => d.busy /\ due[n] = 1
              /\ ~d.busy => due[n] <= 0

DeviceInv == DeviceOK /\ Owes(disk, DiskInt) /\ Owes(console, ConsoleInt)

(* No request is lost: the machine releases a device only after it has carried out
   the request it took, though the timer or the other device be due at the same
   instruction and though the dispatch fault (machine.c:341-384). *)
NeverLost == /\ ~disk.busy => due[DiskInt] <= 0
             /\ ~console.busy => due[ConsoleInt] <= 0

Requested ==
  \/ /\ ~disk.busy
     /\ \E op \in {"load", "store"} :
          disk' = [busy |-> TRUE, wait |-> DiskOption, op |-> op]
     /\ due' = [due EXCEPT ![DiskInt] = 1]
     /\ console' = console
  \/ /\ ~console.busy
     /\ console' = [busy |-> TRUE, wait |-> ConsoleOption]
     /\ due' = [due EXCEPT ![ConsoleInt] = 1]
     /\ disk' = disk

\* What a USER instruction does to the devices, d and e telling which one may be
\* released.
ClocksRun ==
  \E d, e \in BOOLEAN :
    /\ Due = DiskInt \/ d
    /\ Due = ConsoleInt \/ e
    /\ disk' = [disk EXCEPT !.wait = Left(@), !.busy = @ /\ d]
    /\ console' = [console EXCEPT !.wait = Left(@), !.busy = @ /\ e]
    /\ due' = [n \in {DiskInt, ConsoleInt} |->
                 IF Due = n /\ due[n] >= 0 THEN due[n] - 1 ELSE due[n]]

LEMMA RetireDevices ==
  ASSUME NEW c, Retire(c)
  PROVE  UNCHANGED <<disk, console, due>> \/ ClocksRun
<1>1. CASE PostExecute(c)
  <2> DEFINE v    == IF Due = 0 THEN c ELSE InterruptDo(c, Due)
             d(n) == ~(Due = n /\ v.fault = NoFault)
  <2>1. /\ disk' = [disk EXCEPT !.wait = Left(@), !.busy = @ /\ d(DiskInt)]
        /\ console' = [console EXCEPT !.wait = Left(@), !.busy = @ /\ d(ConsoleInt)]
        /\ due' = [n \in {DiskInt, ConsoleInt} |->
                     IF Due = n /\ due[n] >= 0 THEN due[n] - 1 ELSE due[n]]
    BY <1>1 DEF PostExecute
  <2>2. /\ d(DiskInt) \in BOOLEAN /\ d(ConsoleInt) \in BOOLEAN
        /\ Due = DiskInt \/ d(DiskInt)
        /\ Due = ConsoleInt \/ d(ConsoleInt)
    OBVIOUS
  <2> HIDE DEF d
  <2> QED BY <2>1, <2>2 DEF ClocksRun
<1>2. CASE ~PostExecute(c)
  BY <1>2 DEF Retire
<1> QED BY <1>1, <1>2

(* A step leaves the devices alone, or is a request to an idle one, or runs the
   clocks. *)
LEMMA DeviceSteps ==
  ASSUME [Next]_vars
  PROVE  UNCHANGED <<disk, console, due>> \/ Requested \/ ClocksRun
<1>1. CASE Execute
  BY <1>1, RetireDevices
     DEF Execute, FetchFault, NullInstruction, Illegal, Alu, AddSp, Divide, Mov, Jump,
         Stack, Call, Ret, Trap
<1>2. CASE Iret
  BY <1>2, RetireDevices DEF Iret
<1>3. CASE RequestDisk \/ RequestConsole
  BY <1>3 DEF RequestDisk, RequestConsole, Requested
<1>4. CASE HandlerDone \/ Boot \/ Kill \/ PageIn
  BY <1>4 DEF HandlerDone, Boot, Kill, PageIn, Load
<1>5. CASE UNCHANGED vars
  BY <1>5 DEF vars
<1> QED BY <1>1, <1>2, <1>3, <1>4, <1>5 DEF Next, Kernel

(* What the clocks do, with the records taken apart. *)
LEMMA ClockEffect ==
  ASSUME DeviceOK, ClocksRun
  PROVE  /\ DeviceOK'
         /\ disk'.wait = Left(disk.wait) /\ disk'.op = disk.op
         /\ disk'.busy => disk.busy
         /\ Due # DiskInt => disk'.busy = disk.busy /\ due'[DiskInt] = due[DiskInt]
         /\ Due = DiskInt => due'[DiskInt] <= 0
         /\ console'.wait = Left(console.wait)
         /\ console'.busy => console.busy
         /\ Due # ConsoleInt => console'.busy = console.busy /\ due'[ConsoleInt] = due[ConsoleInt]
         /\ Due = ConsoleInt => due'[ConsoleInt] <= 0
<1>1. PICK d \in BOOLEAN, e \in BOOLEAN : ClocksRun!(d, e)
  BY DEF ClocksRun
<1>2. /\ disk.busy \in BOOLEAN /\ console.busy \in BOOLEAN
      /\ disk.wait \in Nat /\ console.wait \in Nat
  BY DEF DeviceOK
<1>3. /\ Left(disk.wait) \in Nat /\ Left(console.wait) \in Nat
  BY <1>2 DEF Left
<1>4. /\ disk' \in [busy : BOOLEAN, wait : Nat, op : {"load", "store"}]
      /\ disk'.wait = Left(disk.wait) /\ disk'.op = disk.op
      /\ disk'.busy = (disk.busy /\ d)
  BY <1>1, <1>2, <1>3 DEF DeviceOK
<1>5. /\ console' \in [busy : BOOLEAN, wait : Nat]
      /\ console'.wait = Left(console.wait)
      /\ console'.busy = (console.busy /\ e)
  BY <1>1, <1>2, <1>3 DEF DeviceOK
<1>6. \A n \in {DiskInt, ConsoleInt} :
        /\ due[n] \in -1 .. 1
        /\ due'[n] = IF Due = n /\ due[n] >= 0 THEN due[n] - 1 ELSE due[n]
  BY <1>1 DEF DeviceOK
<1>7. \A n \in {DiskInt, ConsoleInt} :
        /\ due'[n] \in -1 .. 1
        /\ Due # n => due'[n] = due[n]
        /\ Due = n => due'[n] <= 0
  BY <1>6
<1>8. due' \in [{DiskInt, ConsoleInt} -> -1 .. 1]
  BY <1>1, <1>7
<1>9. (Due # DiskInt => d) /\ (Due # ConsoleInt => e)
  BY <1>1
<1>10. /\ disk'.busy => disk.busy
       /\ Due # DiskInt => disk'.busy = disk.busy
       /\ console'.busy => console.busy
       /\ Due # ConsoleInt => console'.busy = console.busy
  BY <1>2, <1>4, <1>5, <1>9
<1> QED BY <1>4, <1>5, <1>7, <1>8, <1>10 DEF DeviceOK

LEMMA RequestEffect ==
  ASSUME DeviceOK, Requested
  PROVE  /\ DeviceOK'
         /\ \/ ~disk.busy /\ disk'.busy /\ due'[DiskInt] = 1
            \/ disk' = disk /\ due'[DiskInt] = due[DiskInt]
         /\ \/ ~console.busy /\ console'.busy /\ due'[ConsoleInt] = 1
            \/ console' = console /\ due'[ConsoleInt] = due[ConsoleInt]
<1>1. DiskOption \in Nat /\ ConsoleOption \in Nat /\ DiskInt # ConsoleInt
  BY MachineAssumption DEF DiskInt, ConsoleInt
<1>2. ASSUME ~disk.busy, console' = console, due' = [due EXCEPT ![DiskInt] = 1],
             NEW op \in {"load", "store"},
             disk' = [busy |-> TRUE, wait |-> DiskOption, op |-> op]
      PROVE  /\ DeviceOK' /\ disk'.busy /\ due'[DiskInt] = 1
             /\ due'[ConsoleInt] = due[ConsoleInt]
  BY <1>1, <1>2 DEF DeviceOK
<1>3. ASSUME ~console.busy, disk' = disk, due' = [due EXCEPT ![ConsoleInt] = 1],
             console' = [busy |-> TRUE, wait |-> ConsoleOption]
      PROVE  /\ DeviceOK' /\ console'.busy /\ due'[ConsoleInt] = 1
             /\ due'[DiskInt] = due[DiskInt]
  BY <1>1, <1>3 DEF DeviceOK
<1>4. CASE Requested!1
  BY <1>2, <1>4
<1>5. CASE Requested!2
  BY <1>3, <1>5
<1> QED BY <1>4, <1>5 DEF Requested

LEMMA NextDevices == DeviceInv /\ [Next]_vars => DeviceInv'
<1> SUFFICES ASSUME DeviceInv, [Next]_vars PROVE DeviceInv'
  OBVIOUS
<1> USE DEF DeviceInv
<1>1. CASE UNCHANGED <<disk, console, due>>
  BY <1>1 DEF DeviceOK, Owes
<1>2. CASE Requested
  BY <1>2, RequestEffect DEF Owes
<1>3. CASE ClocksRun
  <2>1. /\ disk.wait \in Nat /\ console.wait \in Nat
        /\ disk.busy \in BOOLEAN /\ console.busy \in BOOLEAN
    BY DEF DeviceOK
  <2>2. /\ Due = DiskInt => Left(disk.wait) = 0
        /\ Due = ConsoleInt => Left(console.wait) = 0
    BY DEF Due, TimerInt, DiskInt, ConsoleInt
  <2>3. \A w \in Nat : Left(w) > 0 => w > 0
    BY DEF Left
  <2>4. Owes(disk, DiskInt)'
    BY <1>3, <2>1, <2>2, <2>3, ClockEffect DEF Owes
  <2>5. Owes(console, ConsoleInt)'
    BY <1>3, <2>1, <2>2, <2>3, ClockEffect DEF Owes
  <2> QED BY <1>3, <2>4, <2>5, ClockEffect
<1> QED BY <1>1, <1>2, <1>3, DeviceSteps

LEMMA InitDevices == Init => DeviceInv
BY DEF Init, DeviceInv, DeviceOK, Owes

(* No program, kernel or clock setting makes the machine lose a request of a
   device. *)
THEOREM NoRequestLost == Spec => []NeverLost
<1>1. DeviceInv => NeverLost
  BY DEF DeviceInv, Owes, NeverLost
<1> QED BY <1>1, InitDevices, NextDevices, PTL DEF Spec

(* A device at work keeps the request it took, and its clock never goes back,
   whatever the programs, the kernel and the other device do (machine.c:1112-1125,
   1228-1238, 341-384). *)
THEOREM RequestsKept == Spec => RequestKept
<1>1. ASSUME DeviceInv, [Next]_vars
      PROVE  /\ (disk.busy /\ disk'.busy) => (disk'.op = disk.op /\ disk'.wait <= disk.wait)
             /\ (console.busy /\ console'.busy) => console'.wait <= console.wait
  <2>1. DeviceOK /\ disk.wait \in Nat /\ console.wait \in Nat
    BY <1>1 DEF DeviceInv, DeviceOK
  <2>2. CASE UNCHANGED <<disk, console, due>>
    BY <2>1, <2>2
  <2>3. CASE Requested
    BY <2>1, <2>3, RequestEffect
  <2>4. CASE ClocksRun
    <3>1. Left(disk.wait) <= disk.wait /\ Left(console.wait) <= console.wait
      BY <2>1 DEF Left
    <3> QED BY <2>1, <2>4, <3>1, ClockEffect
  <2> QED BY <1>1, <2>2, <2>3, <2>4, DeviceSteps
<1>2. DeviceInv /\ [Next]_vars =>
        [/\ (disk.busy /\ disk'.busy) => (disk'.op = disk.op /\ disk'.wait <= disk.wait)
         /\ (console.busy /\ console'.busy) => console'.wait <= console.wait]_vars
  BY <1>1
<1> QED BY <1>2, InitDevices, NextDevices, PTL DEF Spec, RequestKept
-----------------------------------------------------------------------------
(***************************************************************************)
(* Addresses and pages.                                                    *)
(***************************************************************************)
LEMMA DivFacts ==
  ASSUME NEW B \in Nat \ {0}, NEW n \in Nat
  PROVE  /\ n \div B \in Nat /\ n % B \in 0 .. B - 1
         /\ n = ((n \div B) * B) + (n % B)
OBVIOUS

LEMMA DivUnique ==
  ASSUME NEW B \in Nat \ {0}, NEW n \in Nat, NEW m \in Nat, m * B <= n, n < m * B + B
  PROVE  n \div B = m /\ n % B = n - m * B
<1>1. PICK d \in Nat, r \in 0 .. B - 1 : d = n \div B /\ n = d * B + r /\ r = n % B
  BY DivFacts
<1>2. ~(d >= m + 1)
  <2>1. SUFFICES ASSUME d >= m + 1 PROVE FALSE
    OBVIOUS
  <2>2. d * B >= (m + 1) * B /\ (m + 1) * B = m * B + B
    BY <2>1
  <2> QED BY <1>1, <2>2
<1>3. ~(m >= d + 1)
  <2>1. SUFFICES ASSUME m >= d + 1 PROVE FALSE
    OBVIOUS
  <2>2. m * B >= (d + 1) * B /\ (d + 1) * B = d * B + B
    BY <2>1
  <2> QED BY <1>1, <2>2
<1> QED BY <1>1, <1>2, <1>3

LastWord == StackBase + PageSize - 1

LEMMA Sizes ==
  /\ PageSize \in Nat \ {0} /\ PageSize >= 2
  /\ StackPage \in Nat /\ StackPage \notin CodePages /\ StackPage \notin HeapPages
  /\ StackPage \in Pages /\ HeapCount \in Pages
  /\ Pages = 0 .. StackPage /\ HeapPages \subseteq Pages
  /\ StackBase \in Nat /\ StackBase >= PageSize /\ Entry \in Nat /\ LastWord \in Nat
<1>1. PageSize \in Nat \ {0} /\ PageSize % 2 = 0 /\ HeapCount \in Nat /\ CodeCount \in Nat \ {0}
  BY MachineAssumption
<1>2. PageSize >= 2
  BY <1>1
<1>3. StackPage \in Nat /\ StackPage >= 1 /\ StackPage \notin CodePages
      /\ StackPage \notin HeapPages /\ HeapCount \in Pages /\ StackPage \in Pages
      /\ Pages = 0 .. StackPage /\ HeapPages \subseteq Pages
  BY <1>1 DEF StackPage, CodePages, HeapPages, Pages
<1>4. StackBase \in Nat /\ StackBase >= PageSize
  <2>1. PICK s \in Nat : s = StackPage /\ s >= 1
    BY <1>3
  <2>2. s * PageSize >= 1 * PageSize /\ s * PageSize \in Nat
    BY <1>1, <2>1
  <2> QED BY <1>1, <2>1, <2>2 DEF StackBase
<1>5. Entry \in Nat
  BY <1>1 DEF Entry
<1> QED BY <1>1, <1>2, <1>3, <1>4, <1>5 DEF LastWord

LEMMA InPage ==
  ASSUME NEW a \in Nat
  PROVE  /\ PageOf(a) \in Nat /\ a % PageSize \in 0 .. PageSize - 1
         /\ a = (PageOf(a) * PageSize) + (a % PageSize)
BY Sizes, DivFacts DEF PageOf

\* The page of the stack, and the words of its frame.
LEMMA InStackPage ==
  ASSUME NEW a \in Nat
  PROVE  /\ StackBase <= a /\ a <= LastWord => PageOf(a) = StackPage /\ a % PageSize = a - StackBase
         /\ a < StackBase => PageOf(a) < StackPage
         /\ a > LastWord => PageOf(a) > StackPage
<1>1. StackBase <= a /\ a <= LastWord => PageOf(a) = StackPage /\ a % PageSize = a - StackBase
  <2> SUFFICES ASSUME StackBase <= a, a <= LastWord
               PROVE  PageOf(a) = StackPage /\ a % PageSize = a - StackBase
    OBVIOUS
  <2>1. StackPage * PageSize <= a /\ a < StackPage * PageSize + PageSize
    BY Sizes DEF StackBase, LastWord
  <2> QED BY <2>1, Sizes, DivUnique DEF PageOf, StackBase
<1>2. PICK d \in Nat, r \in 0 .. PageSize - 1 : d = PageOf(a) /\ a = d * PageSize + r
  BY InPage
<1>3. ASSUME d >= StackPage PROVE a >= StackBase
  <2>1. d * PageSize >= StackPage * PageSize
    BY <1>3, Sizes
  <2> QED BY <1>2, <2>1, Sizes DEF StackBase
<1>4. ASSUME d <= StackPage PROVE a <= LastWord
  <2>1. d * PageSize <= StackPage * PageSize
    BY <1>4, Sizes
  <2> QED BY <1>2, <2>1, Sizes DEF StackBase, LastWord
<1> QED BY <1>1, <1>2, <1>3, <1>4, Sizes

Memory == Frame(0) * PageSize .. (Frame(StackPage) + 1) * PageSize - 1
Cell(a) == Frame(StackPage) * PageSize + (a - StackBase)

LEMMA FrameWords ==
  /\ \A a \in StackBase .. LastWord : Address(Frame(StackPage), a) = Cell(a) /\ Cell(a) \in Memory
  /\ \A a \in Nat : PageOf(a) \in Pages =>
       /\ Address(Frame(PageOf(a)), a) \in Memory
       /\ PageOf(a) # StackPage =>
            \A b \in StackBase .. LastWord : Cell(b) # Address(Frame(PageOf(a)), a)
<1> DEFINE F == (StackPage + 1) * PageSize
<1>1. F \in Nat /\ \A p \in Nat : Frame(p) \in Nat /\ Frame(p) * PageSize = F + (p * PageSize)
                                  /\ p * PageSize \in Nat
                                  /\ (Frame(p) + 1) * PageSize = (F + (p * PageSize)) + PageSize
  <2>1. PICK t \in Nat, B \in Nat : t = StackPage + 1 /\ B = PageSize
    BY Sizes
  <2>2. \A p \in Nat : (t + p) * B = (t * B) + (p * B) /\ p * B \in Nat /\ t * B \in Nat
                       /\ ((t + p) + 1) * B = ((t + p) * B) + B
    <3>1. \A p \in Nat : p * B \in Nat /\ t * B \in Nat
      OBVIOUS
    <3>2. \A p \in Nat : (t + p) * B = (t * B) + (p * B)
      OBVIOUS
    <3>3. \A q \in Nat : (q + 1) * B = (q * B) + B
      OBVIOUS
    <3>4. \A p \in Nat : t + p \in Nat
      OBVIOUS
    <3> QED BY <3>1, <3>2, <3>3, <3>4
  <2>3. \A p \in Nat : Frame(p) = t + p /\ Frame(p) \in Nat
    BY <2>1 DEF Frame
  <2>4. F = t * B
    BY <2>1
  <2>5. PageSize = B
    BY <2>1
  <2> HIDE DEF F
  <2> QED BY <2>2, <2>3, <2>4, <2>5
<1> HIDE DEF F
<1>2. ASSUME NEW p \in Pages
      PROVE  /\ Frame(p) * PageSize = F + (p * PageSize) /\ p * PageSize \in Nat
             /\ p * PageSize <= StackBase /\ (p # StackPage => (p * PageSize) + PageSize <= StackBase)
  <2>1. p \in Nat /\ p <= StackPage
    BY Sizes
  <2>3. p * PageSize <= StackPage * PageSize
    BY <2>1, Sizes
  <2>4. ASSUME p # StackPage PROVE (p + 1) * PageSize <= StackPage * PageSize
    BY <2>1, <2>4, Sizes
  <2>5. (p + 1) * PageSize = (p * PageSize) + PageSize
    BY <2>1, Sizes
  <2> QED BY <1>1, <2>1, <2>3, <2>4, <2>5, Sizes DEF StackBase
<1>3. /\ Frame(StackPage) * PageSize = F + StackBase
      /\ (Frame(StackPage) + 1) * PageSize = (F + StackBase) + PageSize
      /\ Frame(0) * PageSize = F
  <2>1. 0 * PageSize = 0
    BY Sizes
  <2> QED BY <1>1, <2>1, Sizes DEF StackBase
<1>4. Memory = F .. ((F + StackBase) + PageSize) - 1
  BY <1>3 DEF Memory
<1>0. F \in Nat
  BY <1>1
<1>5. ASSUME NEW a \in StackBase .. LastWord
      PROVE  Address(Frame(StackPage), a) = Cell(a) /\ Cell(a) \in Memory
             /\ Cell(a) \in Nat /\ Cell(a) >= F + StackBase
  <2>0. a \in Nat /\ StackBase <= a /\ a <= (StackBase + PageSize) - 1
    BY Sizes DEF LastWord
  <2>1. a % PageSize = a - StackBase
    BY <2>0, InStackPage DEF LastWord
  <2>2. Cell(a) = (F + StackBase) + (a - StackBase)
    BY <1>3 DEF Cell
  <2>3. Address(Frame(StackPage), a) = (F + StackBase) + (a - StackBase)
    BY <1>3, <2>1 DEF Address
  <2> QED BY <1>0, <1>4, <2>0, <2>2, <2>3, Sizes
<1>6. ASSUME NEW a \in Nat, PageOf(a) \in Pages
      PROVE  /\ Address(Frame(PageOf(a)), a) \in Memory /\ Address(Frame(PageOf(a)), a) \in Nat
             /\ PageOf(a) # StackPage => Address(Frame(PageOf(a)), a) < F + StackBase
  <2>1. PICK p \in Pages, r \in 0 .. PageSize - 1 : p = PageOf(a) /\ r = a % PageSize
    BY <1>6, InPage
  <2>2. Address(Frame(p), a) = (F + (p * PageSize)) + r
    BY <1>2, <2>1 DEF Address
  <2>3. PICK k \in Nat : k = p * PageSize /\ k <= StackBase /\ (p # StackPage => k + PageSize <= StackBase)
    BY <1>2
  <2>4. Address(Frame(PageOf(a)), a) = (F + k) + r
    BY <2>1, <2>2, <2>3
  <2>5. PageOf(a) # StackPage => k + PageSize <= StackBase
    BY <2>1, <2>3
  <2>6. k <= StackBase
    BY <2>3
  <2>7. PageSize \in Nat /\ StackBase \in Nat
    BY Sizes
  <2> QED BY <1>0, <1>4, <2>4, <2>5, <2>6, <2>7
<1>7. ASSUME NEW a \in Nat, PageOf(a) \in Pages, PageOf(a) # StackPage, NEW b \in StackBase .. LastWord
      PROVE  Cell(b) # Address(Frame(PageOf(a)), a)
  BY <1>0, <1>5, <1>6, <1>7, Sizes
<1> QED BY <1>5, <1>6, <1>7
-----------------------------------------------------------------------------
(***************************************************************************)
(* The cpu that runs a program, and the table the kernel gave it.          *)
(***************************************************************************)
Cpu(m, i, s, M, f) ==
  [mode |-> m, ip |-> i, sp |-> s, ptlr |-> StackPage + 1, mem |-> M, fault |-> f]

Put(M, a, w) == [M EXCEPT ![a] = w]

TableOK ==
  /\ pt \in [Pages -> [frame : Nat, write : BOOLEAN, valid : BOOLEAN]]
  /\ \A p \in Pages : pt[p].frame = Frame(p) /\ (pt[p].write <=> p \notin CodePages)
  /\ pt[StackPage].valid

LEMMA Faults ==
  /\ \A a, p \in Int : /\ BadAddress(a) # NoFault /\ BadAddress(a).code = IllMem
                       /\ MissingPage(p) # NoFault /\ MissingPage(p).code = PageFault
                       /\ MissingPage(p).epn = p /\ MissingPage(p) # BadAddress(a)
  /\ \A x \in {IllInstr, Arith} : Raise(x) # NoFault /\ Raise(x).code = x
  /\ IllMem # PageFault /\ IllInstr # PageFault /\ Arith # PageFault
<1>1. NoFault.code = -1
  BY DEF NoFault
<1>2. \A a, p \in Int : BadAddress(a).code = 2 /\ MissingPage(p).code = 0 /\ MissingPage(p).epn = p
  BY DEF BadAddress, MissingPage, NoFault, IllMem, PageFault
<1>3. \A x \in {IllInstr, Arith} : Raise(x).code = x /\ x \in {1, 3}
  BY DEF Raise, NoFault, IllInstr, Arith
<1> QED BY <1>1, <1>2, <1>3 DEF IllMem, PageFault, IllInstr, Arith

\* What translation finds at an address that is no negative number.
LEMMA Translation ==
  ASSUME TableOK, NEW c, c.ptlr = StackPage + 1, NEW a \in Nat, NEW w \in BOOLEAN
  PROVE  /\ PageOf(a) \notin Pages => Translated(c, a, w) = BadAddress(a)
         /\ PageOf(a) \in Pages =>
              /\ Physical(a) \in Memory
              /\ Translated(c, a, w) \in {NoFault, BadAddress(a), MissingPage(PageOf(a))}
              /\ Translated(c, a, w) = BadAddress(a) => w /\ PageOf(a) \in CodePages
              /\ Translated(c, a, w) = NoFault => ~(w /\ PageOf(a) \in CodePages)
         /\ Translated(c, a, w) = MissingPage(PageOf(a)) => PageOf(a) # StackPage
         /\ PageOf(a) # StackPage /\ PageOf(a) \in Pages =>
              \A b \in StackBase .. LastWord : Cell(b) # Physical(a)
<1>1. PICK p \in Nat : p = PageOf(a)
  BY InPage
<1>2. Pages = 0 .. c.ptlr - 1
  BY Sizes
<1>3. Translated(c, a, w) =
        IF p \notin Pages THEN BadAddress(a)
        ELSE IF ~pt[p].valid THEN MissingPage(p)
        ELSE IF w /\ ~pt[p].write THEN BadAddress(a)
        ELSE NoFault
  BY <1>1, <1>2 DEF Translated
<1>4. p \in Pages => (pt[p].write <=> p \notin CodePages) /\ (p = StackPage => pt[p].valid)
                     /\ pt[p].frame = Frame(p)
  BY DEF TableOK
<1>5. p \in Pages => Physical(a) = Address(Frame(p), a)
  BY <1>1, <1>4 DEF Physical
<1>6. /\ BadAddress(a) # NoFault /\ MissingPage(p) # NoFault
      /\ MissingPage(p) # BadAddress(a)
  BY Faults
<1>7. p \in Pages => Physical(a) \in Memory
  BY <1>1, <1>5, FrameWords
<1>8. p \in Pages /\ p # StackPage => \A b \in StackBase .. LastWord : Cell(b) # Physical(a)
  BY <1>1, <1>5, FrameWords
<1>9. StackPage \in Pages
  BY Sizes
<1> QED BY <1>1, <1>3, <1>4, <1>6, <1>7, <1>8, <1>9

\* The words of the stack are always there.
LEMMA OnStack ==
  ASSUME TableOK, NEW c, c.ptlr = StackPage + 1, NEW a \in StackBase .. LastWord, NEW w \in BOOLEAN
  PROVE  Translated(c, a, w) = NoFault /\ Physical(a) = Cell(a) /\ Cell(a) \in Memory
         /\ PageOf(a) = StackPage
<1>1. a \in Nat /\ StackBase <= a /\ a <= LastWord
  BY Sizes
<1>2. PageOf(a) = StackPage
  BY <1>1, InStackPage
<1>3. Translated(c, a, w) \in {NoFault, BadAddress(a), MissingPage(PageOf(a))}
      /\ (Translated(c, a, w) = BadAddress(a) => PageOf(a) \in CodePages)
      /\ Translated(c, a, w) # MissingPage(PageOf(a))
  BY <1>1, <1>2, Translation, Sizes
<1>4. Physical(a) = Address(Frame(StackPage), a)
  BY <1>2, Sizes DEF Physical, TableOK
<1> QED BY <1>2, <1>3, <1>4, FrameWords, Sizes

LEMMA PastStack ==
  ASSUME TableOK, NEW c, c.ptlr = StackPage + 1, NEW a \in Int, a > LastWord, NEW w \in BOOLEAN
  PROVE  Translated(c, a, w) = BadAddress(a) /\ PageOf(a) \notin Pages
<1>1. a \in Nat /\ PageOf(a) \notin Pages
  BY Sizes, InStackPage
<1> QED BY <1>1, Translation

LEMMA Pushing ==
  ASSUME TableOK, NEW m, NEW i, NEW s \in Int, s >= StackBase - 1, NEW M, NEW w
  PROVE  /\ s < LastWord => PushDo(Cpu(m, i, s, M, NoFault), w)
                              = Cpu(m, i, s + 1, Put(M, Cell(s + 1), w), NoFault)
         /\ s >= LastWord => PushDo(Cpu(m, i, s, M, NoFault), w)
                              = Cpu(m, i, s + 1, M, BadAddress(s + 1))
<1> DEFINE d == Cpu(m, i, s + 1, M, NoFault)
<1>1. [Cpu(m, i, s, M, NoFault) EXCEPT !.sp = @ + 1] = d
  BY DEF Cpu
<1>2. d.sp = s + 1 /\ d.ptlr = StackPage + 1
  BY DEF Cpu
<1>3. PushDo(Cpu(m, i, s, M, NoFault), w) =
        IF Translated(d, s + 1, TRUE) = NoFault
        THEN [d EXCEPT !.mem[Physical(s + 1)] = w]
        ELSE [d EXCEPT !.fault = Translated(d, s + 1, TRUE)]
  <2> DEFINE c == Cpu(m, i, s, M, NoFault)
  <2>1. [c EXCEPT !.sp = @ + 1] = d
    BY <1>1
  <2> HIDE DEF c, d
  <2>2. PushDo(c, w) = Access(d, d.sp, TRUE, [d EXCEPT !.mem[Physical(d.sp)] = w])
    BY ONLY <2>1, Zenon DEF PushDo
  <2>3. \A x : Access(d, d.sp, TRUE, x) =
               IF Translated(d, d.sp, TRUE) = NoFault THEN x
               ELSE [d EXCEPT !.fault = Translated(d, d.sp, TRUE)]
    BY DEF Access
  <2> QED BY ONLY <1>2, <2>2, <2>3, Zenon DEF c
<1>4. ASSUME s < LastWord
      PROVE  PushDo(Cpu(m, i, s, M, NoFault), w)
               = Cpu(m, i, s + 1, Put(M, Cell(s + 1), w), NoFault)
  <2>1. s + 1 \in StackBase .. LastWord
    BY <1>4, Sizes
  <2>2. Translated(d, s + 1, TRUE) = NoFault /\ Physical(s + 1) = Cell(s + 1)
    BY <1>2, <2>1, OnStack
  <2>3. [d EXCEPT !.mem[Cell(s + 1)] = w]
          = Cpu(m, i, s + 1, Put(M, Cell(s + 1), w), NoFault)
    BY DEF Cpu, Put
  <2> QED BY ONLY <1>3, <2>2, <2>3, Zenon
<1>5. ASSUME s >= LastWord
      PROVE  PushDo(Cpu(m, i, s, M, NoFault), w) = Cpu(m, i, s + 1, M, BadAddress(s + 1))
  <2>1. Translated(d, s + 1, TRUE) = BadAddress(s + 1)
    <3>1. PICK a \in Int : a = s + 1 /\ a > LastWord
      BY <1>5, Sizes
    <3> QED BY <1>2, <3>1, PastStack
  <2>2. BadAddress(s + 1) # NoFault
    BY <1>5, Faults, Sizes
  <2>3. [d EXCEPT !.fault = BadAddress(s + 1)] = Cpu(m, i, s + 1, M, BadAddress(s + 1))
    BY DEF Cpu
  <2> QED BY ONLY <1>3, <2>1, <2>2, <2>3, Zenon
<1> QED BY ONLY <1>4, <1>5, Zenon

LEMMA Popping ==
  ASSUME TableOK, NEW m, NEW i, NEW s \in StackBase .. LastWord, NEW M
  PROVE  /\ PopDo(Cpu(m, i, s, M, NoFault)) = Cpu(m, i, s - 1, M, NoFault)
         /\ RetDo(Cpu(m, i, s, M, NoFault)) = Cpu(m, M[Cell(s)], s - 1, M, NoFault)
<1> DEFINE c == Cpu(m, i, s, M, NoFault)
<1>1. c.sp = s /\ c.ptlr = StackPage + 1 /\ c.mem = M
  BY DEF Cpu
<1>2. Translated(c, s, FALSE) = NoFault /\ Physical(s) = Cell(s)
  BY <1>1, OnStack
<1>3. Top(c) = M[Cell(s)]
  BY <1>1, <1>2 DEF Top
<1>4. [c EXCEPT !.sp = @ - 1] = Cpu(m, i, s - 1, M, NoFault)
  BY DEF Cpu
<1>5. [c EXCEPT !.sp = @ - 1, !.ip = M[Cell(s)]] = Cpu(m, M[Cell(s)], s - 1, M, NoFault)
  <2>1. \A x, y : [c EXCEPT !.sp = x, !.ip = y] = [[c EXCEPT !.sp = x] EXCEPT !.ip = y]
    BY DEF Cpu
  <2>2. \A x : [c EXCEPT !.sp = x] = Cpu(m, i, x, M, NoFault)
    BY DEF Cpu
  <2>3. \A x, y : [Cpu(m, i, x, M, NoFault) EXCEPT !.ip = y] = Cpu(m, y, x, M, NoFault)
    BY DEF Cpu
  <2> HIDE DEF c
  <2>4. [c EXCEPT !.sp = @ - 1, !.ip = M[Cell(s)]]
          = [[c EXCEPT !.sp = s - 1] EXCEPT !.ip = M[Cell(s)]]
    BY ONLY <1>1, <2>1, Zenon
  <2> QED BY ONLY <2>2, <2>3, <2>4, Zenon
<1>6. PopDo(c) = [c EXCEPT !.sp = @ - 1] /\ RetDo(c) = [c EXCEPT !.sp = @ - 1, !.ip = Top(c)]
  <2> HIDE DEF c
  <2> QED BY <1>1, <1>2 DEF PopDo, RetDo, Access
<1> QED BY <1>3, <1>4, <1>5, <1>6

LEMMA PoppingPast ==
  ASSUME TableOK, NEW m, NEW i, NEW M
  PROVE  RetDo(Cpu(m, i, LastWord + 1, M, NoFault))
           = Cpu(m, i, LastWord + 1, M, BadAddress(LastWord + 1))
<1> DEFINE c == Cpu(m, i, LastWord + 1, M, NoFault)
<1>1. c.sp = LastWord + 1 /\ c.ptlr = StackPage + 1
  BY DEF Cpu
<1>2. Translated(c, LastWord + 1, FALSE) = BadAddress(LastWord + 1)
  <2>1. PICK a \in Int : a = LastWord + 1 /\ a > LastWord
    BY Sizes
  <2> QED BY <1>1, <2>1, PastStack
<1>3. BadAddress(LastWord + 1) # NoFault
  BY Faults, Sizes
<1>4. [c EXCEPT !.fault = BadAddress(LastWord + 1)]
        = Cpu(m, i, LastWord + 1, M, BadAddress(LastWord + 1))
  BY DEF Cpu
<1>5. RetDo(c) = [c EXCEPT !.fault = BadAddress(LastWord + 1)]
  <2> HIDE DEF c
  <2> QED BY <1>1, <1>2, <1>3 DEF RetDo, Access
<1> QED BY <1>4, <1>5

LEMMA Calling ==
  ASSUME TableOK, NEW m, NEW i, NEW s \in Int, s >= StackBase - 1, NEW M, NEW t
  PROVE  /\ s < LastWord => CallDo(Cpu(m, i, s, M, NoFault), t)
                              = Cpu(m, t, s + 1, Put(M, Cell(s + 1), i), NoFault)
         /\ s >= LastWord => CallDo(Cpu(m, i, s, M, NoFault), t)
                              = Cpu(m, i, s + 1, M, BadAddress(s + 1))
<1>1. Cpu(m, i, s, M, NoFault).ip = i
  BY DEF Cpu
<1>2. \A N, f : Cpu(m, i, s + 1, N, f).fault = f
      /\ [Cpu(m, i, s + 1, N, f) EXCEPT !.ip = t] = Cpu(m, t, s + 1, N, f)
  BY DEF Cpu
<1>3. s >= LastWord => BadAddress(s + 1) # NoFault
  BY Faults, Sizes
<1> QED BY <1>1, <1>2, <1>3, Pushing DEF CallDo

LEMMA Interrupting ==
  ASSUME TableOK, NEW m, NEW i, NEW s \in Int, s >= StackBase - 1, NEW M, NEW n
  PROVE  /\ s < LastWord => InterruptDo(Cpu(m, i, s, M, NoFault), n)
                              = Cpu("kernel", Vector(n), s + 1, Put(M, Cell(s + 1), i), NoFault)
         /\ s >= LastWord => InterruptDo(Cpu(m, i, s, M, NoFault), n)
                              = Cpu(m, i, s + 1, M, BadAddress(s + 1))
<1>1. \A j, N, f : Cpu(m, j, s + 1, N, f).fault = f
      /\ [Cpu(m, j, s + 1, N, f) EXCEPT !.mode = "kernel"] = Cpu("kernel", j, s + 1, N, f)
  BY DEF Cpu
<1>2. s >= LastWord => BadAddress(s + 1) # NoFault
  BY Faults, Sizes
<1>3. PICK t : t = Vector(n)
  OBVIOUS
<1>4. PICK d : d = CallDo(Cpu(m, i, s, M, NoFault), t)
  OBVIOUS
<1>5. /\ s < LastWord => d = Cpu(m, t, s + 1, Put(M, Cell(s + 1), i), NoFault)
      /\ s >= LastWord => d = Cpu(m, i, s + 1, M, BadAddress(s + 1))
  BY <1>4, Calling
<1>6. InterruptDo(Cpu(m, i, s, M, NoFault), n) =
        IF d.fault = NoFault THEN [d EXCEPT !.mode = "kernel"] ELSE d
  BY <1>3, <1>4 DEF InterruptDo
<1>7. ASSUME s < LastWord
      PROVE  InterruptDo(Cpu(m, i, s, M, NoFault), n)
               = Cpu("kernel", Vector(n), s + 1, Put(M, Cell(s + 1), i), NoFault)
  <2>1. d = Cpu(m, t, s + 1, Put(M, Cell(s + 1), i), NoFault)
    BY <1>5, <1>7
  <2>2. d.fault = NoFault /\ [d EXCEPT !.mode = "kernel"]
                               = Cpu("kernel", t, s + 1, Put(M, Cell(s + 1), i), NoFault)
    BY <1>1, <2>1
  <2> QED BY ONLY <1>3, <1>6, <2>2, Zenon
<1>8. ASSUME s >= LastWord
      PROVE  InterruptDo(Cpu(m, i, s, M, NoFault), n) = Cpu(m, i, s + 1, M, BadAddress(s + 1))
  <2>1. d = Cpu(m, i, s + 1, M, BadAddress(s + 1))
    BY <1>5, <1>8
  <2>2. d.fault # NoFault
    BY <1>1, <1>2, <1>8, <2>1
  <2> QED BY ONLY <1>6, <2>1, <2>2, Zenon
<1> QED BY ONLY <1>7, <1>8, Zenon
-----------------------------------------------------------------------------
(***************************************************************************)
(* What the program sees of it.                                            *)
(***************************************************************************)
StackOf(M, s) == [j \in 1 .. s - StackBase + 1 |-> M[Cell(StackBase + j - 1)]]

Runs(i, s, M)   == /\ cpu = Cpu("user", i, s, M, NoFault)
                   /\ i \in Nat /\ s \in StackBase - 1 .. LastWord
Faulted(s, M)   == /\ cpu = Cpu("kernel", Vector(0), s, M, NoFault)
                   /\ ~Fatal => s \in StackBase - 1 .. LastWord /\ ex.eip \in Nat
Waits(k, s, M)  == /\ cpu = Cpu("kernel", k, s, M, NoFault)
                   /\ k \notin {0, Vector(0)} /\ s \in StackBase .. LastWord + 1
Booting(M)      == cpu = [mode |-> "kernel", ip |-> 0, sp |-> 0, ptlr |-> 0,
                          mem |-> M, fault |-> NoFault]

Shows(u, st) == ~Dead /\ SeenIp = u /\ SeenStack = st

LEMMA Vectors ==
  /\ Vector(0) # 0 /\ Vector(0) \in Nat /\ PageSize \in Nat
  /\ \A n \in Nat : Return(n) \notin {0, Vector(0)} /\ (n # 0 => Vector(n) \notin {0, Vector(0)})
<1>1. ASSUME NEW n \in Nat PROVE Vector(n) = (2 * (n * PageSize)) + (2 * PageSize) /\ n * PageSize \in Nat
                                 /\ (n # 0 => n * PageSize >= PageSize)
  <2>1. PICK B \in Nat : B = PageSize
    BY Sizes
  <2>2. (2 * n + 2) * B = (2 * (n * B)) + (2 * B) /\ n * B \in Nat
    OBVIOUS
  <2>3. n # 0 => n * B >= 1 * B
    OBVIOUS
  <2> QED BY <2>1, <2>2, <2>3 DEF Vector
<1>2. 0 * PageSize = 0 /\ PageSize \in Nat /\ PageSize >= 2
  BY Sizes
<1>3. Vector(0) = 2 * PageSize
  BY <1>1, <1>2
<1>4. ASSUME NEW n \in Nat
      PROVE  Return(n) \notin {0, Vector(0)} /\ (n # 0 => Vector(n) \notin {0, Vector(0)})
  <2>1. PICK k \in Nat : k = n * PageSize /\ Vector(n) = (2 * k) + (2 * PageSize) /\ (n # 0 => k >= PageSize)
    BY <1>1
  <2> QED BY <1>2, <1>3, <2>1 DEF Return, InstructionSize
<1> QED BY <1>2, <1>3, <1>4

\* The frame of the stack's page holds its words, T being a page table.
LEMMA StackFrame ==
  ASSUME NEW T, \A p \in Pages : T[p].frame = Frame(p), NEW a \in StackBase .. LastWord
  PROVE  Address(T[PageOf(a)].frame, a) = Cell(a) /\ PageOf(a) \in Pages
<1>1. a \in Nat /\ StackBase <= a /\ a <= LastWord
  BY Sizes
<1>2. PageOf(a) = StackPage /\ StackPage \in Pages
  BY <1>1, InStackPage, Sizes
<1> QED BY <1>2, FrameWords

LEMMA StackFrames ==
  ASSUME NEW T, \A p \in Pages : T[p].frame = Frame(p), NEW M, NEW s \in StackBase - 1 .. LastWord
  PROVE  [j \in 1 .. s - StackBase + 1 |-> M[Address(T[PageOf(StackBase + j - 1)].frame, StackBase + j - 1)]]
           = StackOf(M, s)
<1>1. ASSUME NEW j \in 1 .. s - StackBase + 1
      PROVE  Address(T[PageOf(StackBase + j - 1)].frame, StackBase + j - 1) = Cell(StackBase + j - 1)
  <2>1. StackBase + j - 1 \in StackBase .. LastWord
    BY Sizes
  <2> QED BY <2>1, StackFrame
<1> QED BY <1>1 DEF StackOf

LEMMA Running ==
  ASSUME TableOK, NEW i, NEW s, NEW M, Runs(i, s, M)
  PROVE  Shows(i, StackOf(M, s))
<1>1. cpu.mode = "user" /\ cpu.ip = i /\ cpu.sp = s /\ cpu.mem = M
  BY DEF Runs, Cpu
<1>2. ~AtFault /\ ~Pushed /\ ~Dead
  BY <1>1 DEF AtFault, InHandler, Pushed, Dead
<1>3. SeenIp = i /\ SeenSp = s
  BY <1>1, <1>2 DEF SeenIp, SeenSp
<1>4. SeenStack = StackOf(M, s)
  BY <1>1, <1>3, StackFrames DEF SeenStack, TableOK, Physical, Runs
<1> QED BY <1>2, <1>3, <1>4 DEF Shows

LEMMA RunningNext ==
  ASSUME TableOK', NEW i, NEW s, NEW M, Runs(i, s, M)'
  PROVE  Shows(i, StackOf(M, s))'
<1>1. cpu'.mode = "user" /\ cpu'.ip = i /\ cpu'.sp = s /\ cpu'.mem = M
  BY DEF Runs, Cpu
<1>2. ~AtFault' /\ ~Pushed' /\ ~Dead'
  BY <1>1 DEF AtFault, InHandler, Pushed, Dead
<1>3. SeenIp' = i /\ SeenSp' = s
  BY <1>1, <1>2 DEF SeenIp, SeenSp
<1>4. SeenStack' = StackOf(M, s)
  BY <1>1, <1>3, StackFrames DEF SeenStack, TableOK, Physical, Runs
<1> QED BY <1>2, <1>3, <1>4 DEF Shows

LEMMA Faulting ==
  ASSUME TableOK, NEW s, NEW M, Faulted(s, M)
  PROVE  IF Fatal THEN Dead ELSE Shows(ex.eip, StackOf(M, s))
<1>1. cpu.mode = "kernel" /\ cpu.ip = Vector(0) /\ cpu.sp = s /\ cpu.mem = M
  BY DEF Faulted, Cpu
<1>2. AtFault /\ ~Pushed /\ (Dead <=> Fatal)
  BY <1>1, Vectors DEF AtFault, InHandler, Pushed, Dead
<1>3. SeenIp = ex.eip /\ SeenSp = s
  BY <1>1, <1>2 DEF SeenIp, SeenSp
<1>4. ~Fatal => SeenStack = StackOf(M, s)
  BY <1>1, <1>3, StackFrames DEF SeenStack, TableOK, Physical, Faulted
<1> QED BY <1>2, <1>3, <1>4 DEF Shows

LEMMA FaultingNext ==
  ASSUME TableOK', NEW s, NEW M, Faulted(s, M)'
  PROVE  IF Fatal' THEN Dead' ELSE Shows(ex.eip, StackOf(M, s))'
<1>1. cpu'.mode = "kernel" /\ cpu'.ip = Vector(0) /\ cpu'.sp = s /\ cpu'.mem = M
  BY DEF Faulted, Cpu
<1>2. AtFault' /\ ~Pushed' /\ (Dead' <=> Fatal')
  BY <1>1, Vectors DEF AtFault, InHandler, Pushed, Dead
<1>3. SeenIp' = ex'.eip /\ SeenSp' = s
  BY <1>1, <1>2 DEF SeenIp, SeenSp
<1>4. ~Fatal' => SeenStack' = StackOf(M, s)
  BY <1>1, <1>3, StackFrames DEF SeenStack, TableOK, Physical, Faulted
<1> QED BY <1>2, <1>3, <1>4 DEF Shows

LEMMA Waiting ==
  ASSUME TableOK, NEW k, NEW s, NEW M, Waits(k, s, M)
  PROVE  IF s = LastWord + 1 THEN Dead ELSE Shows(M[Cell(s)], StackOf(M, s - 1))
<1>1. cpu.mode = "kernel" /\ cpu.ip = k /\ cpu.sp = s /\ cpu.mem = M
      /\ k \notin {0, Vector(0)} /\ s \in StackBase .. LastWord + 1
  BY DEF Waits, Cpu
<1>2. ~AtFault /\ Pushed /\ SeenSp = s - 1 /\ SeenIp = Top(cpu)
  BY <1>1 DEF AtFault, InHandler, Pushed, SeenIp, SeenSp
<1>3. CASE s = LastWord + 1
  <2>1. PageOf(LastWord + 1) \notin Pages
    BY Sizes, InStackPage
  <2> QED BY <1>1, <1>2, <1>3, <2>1 DEF Dead
<1>4. CASE s # LastWord + 1
  <2>1. s \in StackBase .. LastWord /\ s - 1 \in StackBase - 1 .. LastWord
    BY <1>1, <1>4, Sizes
  <2>2. Physical(s) = Cell(s) /\ PageOf(s) \in Pages
    BY <2>1, StackFrame DEF TableOK, Physical
  <2>3. ~Dead /\ SeenIp = M[Cell(s)]
    BY <1>1, <1>2, <2>2 DEF Dead, Top
  <2>4. PICK r \in StackBase - 1 .. LastWord : r = s - 1
    BY <2>1
  <2>6. SeenSp = r /\ cpu.mem = M
    BY <1>1, <1>2, <2>4
  <2>5. SeenStack = StackOf(M, r)
    BY <2>6, StackFrames DEF SeenStack, TableOK, Physical
  <2> QED BY <1>4, <2>3, <2>4, <2>5 DEF Shows
<1> QED BY <1>3, <1>4

LEMMA WaitingNext ==
  ASSUME TableOK', NEW k, NEW s, NEW M, Waits(k, s, M)'
  PROVE  IF s = LastWord + 1 THEN Dead' ELSE Shows(M[Cell(s)], StackOf(M, s - 1))'
<1>1. cpu'.mode = "kernel" /\ cpu'.ip = k /\ cpu'.sp = s /\ cpu'.mem = M
      /\ k \notin {0, Vector(0)} /\ s \in StackBase .. LastWord + 1
  BY DEF Waits, Cpu
<1>2. ~AtFault' /\ Pushed' /\ SeenSp' = s - 1 /\ SeenIp' = Top(cpu)'
  BY <1>1 DEF AtFault, InHandler, Pushed, SeenIp, SeenSp
<1>3. CASE s = LastWord + 1
  <2>1. PageOf(LastWord + 1) \notin Pages
    BY Sizes, InStackPage
  <2> QED BY <1>1, <1>2, <1>3, <2>1 DEF Dead
<1>4. CASE s # LastWord + 1
  <2>1. s \in StackBase .. LastWord /\ s - 1 \in StackBase - 1 .. LastWord
    BY <1>1, <1>4, Sizes
  <2>2. Physical(s)' = Cell(s) /\ PageOf(s) \in Pages
    BY <2>1, StackFrame DEF TableOK, Physical
  <2>3. ~Dead' /\ SeenIp' = M[Cell(s)]
    BY <1>1, <1>2, <2>2 DEF Dead, Top
  <2>4. PICK r \in StackBase - 1 .. LastWord : r = s - 1
    BY <2>1
  <2>6. SeenSp' = r /\ cpu'.mem = M
    BY <1>1, <1>2, <2>4
  <2>5. SeenStack' = StackOf(M, r)
    BY <2>6, StackFrames DEF SeenStack, TableOK, Physical
  <2> QED BY <1>4, <2>3, <2>4, <2>5 DEF Shows
<1> QED BY <1>3, <1>4
-----------------------------------------------------------------------------
(***************************************************************************)
(* The words of the stack.                                                 *)
(***************************************************************************)
LEMMA LongerByOne ==
  ASSUME NEW n \in Nat, NEW u \in Seq(Nat), NEW t \in Seq(Nat), NEW w \in Nat,
         Len(u) = n, Len(t) = n + 1, \A j \in 1 .. n : t[j] = u[j]
  PROVE  /\ t[n + 1] = w => t = Append(u, w)
         /\ u = SubSeq(t, 1, n)
<1>1. ASSUME t[n + 1] = w PROVE t = Append(u, w)
  <2>1. Append(u, w) \in Seq(Nat) /\ Len(Append(u, w)) = n + 1
    OBVIOUS
  <2>2. \A j \in 1 .. n + 1 : Append(u, w)[j] = t[j]
    BY <1>1
  <2> QED BY <2>1, <2>2
<1>2. u = SubSeq(t, 1, n)
  <2>1. SubSeq(t, 1, n) \in Seq(Nat) /\ Len(SubSeq(t, 1, n)) = n
    OBVIOUS
  <2>2. \A j \in 1 .. n : SubSeq(t, 1, n)[j] = u[j]
    OBVIOUS
  <2> QED BY <2>1, <2>2
<1> QED BY <1>1, <1>2

LEMMA CellsDiffer ==
  \A a, b \in StackBase .. LastWord : a # b => Cell(a) # Cell(b)
<1>1. ASSUME NEW a \in StackBase .. LastWord
      PROVE  a - StackBase \in Int /\ a \in Int /\ Frame(StackPage) * PageSize \in Int
  BY Sizes DEF Frame
<1> QED BY <1>1, Sizes DEF Cell

LEMMA StackIs ==
  ASSUME NEW M \in [Memory -> Nat], NEW s \in StackBase - 1 .. LastWord
  PROVE  /\ StackOf(M, s) \in Seq(Nat) /\ Len(StackOf(M, s)) = s - StackBase + 1
         /\ DOMAIN StackOf(M, s) = 1 .. s - StackBase + 1
         /\ \A j \in 1 .. s - StackBase + 1 : StackOf(M, s)[j] = M[Cell(StackBase + j - 1)]
                                               /\ StackBase + j - 1 \in StackBase .. LastWord
<1>1. ASSUME NEW j \in 1 .. s - StackBase + 1
      PROVE  M[Cell(StackBase + j - 1)] \in Nat /\ StackBase + j - 1 \in StackBase .. LastWord
  <2>1. StackBase + j - 1 \in StackBase .. LastWord
    BY Sizes
  <2> QED BY <2>1, FrameWords
<1>2. s - StackBase + 1 \in Nat
  BY Sizes
<1>3. /\ DOMAIN StackOf(M, s) = 1 .. s - StackBase + 1
      /\ \A j \in 1 .. s - StackBase + 1 : StackOf(M, s)[j] = M[Cell(StackBase + j - 1)]
      /\ StackOf(M, s) = [j \in 1 .. s - StackBase + 1 |-> M[Cell(StackBase + j - 1)]]
  BY DEF StackOf
<1>4. StackOf(M, s) \in [1 .. s - StackBase + 1 -> Nat]
  BY <1>1, <1>3
<1> QED BY <1>1, <1>2, <1>3, <1>4

\* A write that leaves the words up to SP alone.
LEMMA StackPut ==
  ASSUME NEW M \in [Memory -> Nat], NEW s \in StackBase - 1 .. LastWord, NEW a \in Memory,
         \A b \in StackBase .. s : Cell(b) # a, NEW w
  PROVE  StackOf(Put(M, a, w), s) = StackOf(M, s)
<1>1. ASSUME NEW j \in 1 .. s - StackBase + 1
      PROVE  Put(M, a, w)[Cell(StackBase + j - 1)] = M[Cell(StackBase + j - 1)]
  <2>1. StackBase + j - 1 \in StackBase .. s /\ StackBase + j - 1 \in StackBase .. LastWord
    BY Sizes
  <2>2. Cell(StackBase + j - 1) \in Memory /\ Cell(StackBase + j - 1) # a
    BY <2>1, FrameWords
  <2> QED BY <2>2 DEF Put
<1> QED BY <1>1 DEF StackOf

LEMMA PutIs ==
  ASSUME NEW M \in [Memory -> Nat], NEW a \in Memory, NEW w \in Nat
  PROVE  Put(M, a, w) \in [Memory -> Nat] /\ Put(M, a, w)[a] = w
         /\ \A b \in Memory : b # a => Put(M, a, w)[b] = M[b]
BY DEF Put

LEMMA Above ==
  ASSUME NEW M \in [Memory -> Nat], NEW s \in StackBase - 1 .. LastWord - 1, NEW w \in Nat
  PROVE  /\ s + 1 \in StackBase .. LastWord /\ Cell(s + 1) \in Memory
         /\ Put(M, Cell(s + 1), w) \in [Memory -> Nat]
         /\ Put(M, Cell(s + 1), w)[Cell(s + 1)] = w
         /\ StackOf(Put(M, Cell(s + 1), w), s) = StackOf(M, s)
<1>1. s + 1 \in StackBase .. LastWord /\ s \in StackBase - 1 .. LastWord
  BY Sizes
<1>2. Cell(s + 1) \in Memory
  BY <1>1, FrameWords
<1>3. ASSUME NEW b \in StackBase .. s PROVE Cell(b) # Cell(s + 1)
  <2>1. b \in StackBase .. LastWord /\ b # s + 1
    BY <1>1, Sizes
  <2> QED BY <1>1, <2>1, CellsDiffer
<1>4. PICK a \in Memory : a = Cell(s + 1)
  BY <1>2
<1>5. StackOf(Put(M, a, w), s) = StackOf(M, s)
  <2>1. \A b \in StackBase .. s : Cell(b) # a
    BY <1>3, <1>4
  <2> QED BY <1>1, <2>1, StackPut
<1> QED BY <1>1, <1>4, <1>5, PutIs

LEMMA StackPushed ==
  ASSUME NEW M \in [Memory -> Nat], NEW s \in StackBase - 1 .. LastWord - 1, NEW w \in Nat
  PROVE  StackOf(Put(M, Cell(s + 1), w), s + 1) = Append(StackOf(M, s), w)
<1>1. PICK t \in StackBase .. LastWord : t = s + 1
  BY Above
<1>2. PICK N \in [Memory -> Nat] : N = Put(M, Cell(t), w) /\ N[Cell(t)] = w /\ StackOf(N, s) = StackOf(M, s)
  BY Above, <1>1
<1>3. s \in StackBase - 1 .. LastWord /\ t \in StackBase - 1 .. LastWord
  BY <1>1, Sizes
<1>4. /\ StackOf(N, t) \in Seq(Nat) /\ Len(StackOf(N, t)) = t - StackBase + 1
      /\ \A j \in 1 .. t - StackBase + 1 : StackOf(N, t)[j] = N[Cell(StackBase + j - 1)]
  BY <1>3, StackIs
<1>5. /\ StackOf(N, s) \in Seq(Nat) /\ Len(StackOf(N, s)) = s - StackBase + 1
      /\ \A j \in 1 .. s - StackBase + 1 : StackOf(N, s)[j] = N[Cell(StackBase + j - 1)]
  BY <1>3, StackIs
<1>6. PICK n \in Nat : n = s - StackBase + 1 /\ t - StackBase + 1 = n + 1 /\ StackBase + (n + 1) - 1 = t
  BY <1>1, Sizes
<1>7. \A j \in 1 .. n : StackOf(N, t)[j] = StackOf(N, s)[j]
  <2>1. \A j \in 1 .. n : j \in 1 .. t - StackBase + 1 /\ j \in 1 .. s - StackBase + 1
    BY <1>6
  <2> QED BY <1>4, <1>5, <2>1
<1>8. StackOf(N, t)[n + 1] = w /\ Len(StackOf(N, t)) = n + 1 /\ Len(StackOf(N, s)) = n
  <2>1. n + 1 \in 1 .. t - StackBase + 1
    BY <1>6
  <2> QED BY <1>2, <1>4, <1>5, <1>6, <2>1
<1>9. StackOf(N, t) = Append(StackOf(N, s), w)
  BY <1>4, <1>5, <1>7, <1>8, LongerByOne
<1> QED BY <1>1, <1>2, <1>9

LEMMA StackPopped ==
  ASSUME NEW M \in [Memory -> Nat], NEW s \in StackBase .. LastWord
  PROVE  /\ StackOf(M, s) # <<>> /\ StackOf(M, s)[Len(StackOf(M, s))] = M[Cell(s)]
         /\ StackOf(M, s - 1) = SubSeq(StackOf(M, s), 1, Len(StackOf(M, s)) - 1)
         /\ M[Cell(s)] \in Nat
<1>1. PICK r \in StackBase - 1 .. LastWord : r = s - 1
  BY Sizes
<1>2. s \in StackBase - 1 .. LastWord /\ M[Cell(s)] \in Nat
  BY Sizes, FrameWords
<1>3. /\ StackOf(M, s) \in Seq(Nat) /\ Len(StackOf(M, s)) = s - StackBase + 1
      /\ \A j \in 1 .. s - StackBase + 1 : StackOf(M, s)[j] = M[Cell(StackBase + j - 1)]
  BY <1>2, StackIs
<1>4. /\ StackOf(M, r) \in Seq(Nat) /\ Len(StackOf(M, r)) = r - StackBase + 1
      /\ \A j \in 1 .. r - StackBase + 1 : StackOf(M, r)[j] = M[Cell(StackBase + j - 1)]
  BY StackIs
<1>5. PICK n \in Nat : n = r - StackBase + 1 /\ s - StackBase + 1 = n + 1 /\ StackBase + (n + 1) - 1 = s
  BY <1>1, Sizes
<1>6. StackOf(M, s) # <<>> /\ StackOf(M, s)[n + 1] = M[Cell(s)] /\ Len(StackOf(M, s)) = n + 1
  BY <1>3, <1>5
<1>7. \A j \in 1 .. n : StackOf(M, s)[j] = StackOf(M, r)[j]
  <2>1. \A j \in 1 .. n : j \in 1 .. s - StackBase + 1 /\ j \in 1 .. r - StackBase + 1
    BY <1>5
  <2> QED BY <1>3, <1>4, <2>1
<1>9. Len(StackOf(M, r)) = n
  BY <1>4, <1>5
<1>8. StackOf(M, r) = SubSeq(StackOf(M, s), 1, n)
  BY <1>2, <1>3, <1>4, <1>6, <1>7, <1>9, LongerByOne
<1> QED BY <1>1, <1>2, <1>6, <1>8
-----------------------------------------------------------------------------
(***************************************************************************)
(* The end of an instruction.                                              *)
(***************************************************************************)
Held(i, s, M) == Runs(i, s, M) \/ Faulted(s, M) \/ Waits(i, s, M) \/ Booting(M)

MachineInv == /\ prog \in Programs /\ TableOK
              /\ \E i, s \in Int, M \in [Memory -> Nat] : Held(i, s, M)

\* A step that serves the devices: it leaves them alone, starts one that is idle,
\* or runs the clocks and releases the one that is due.
Served ==
  \/ UNCHANGED <<disk, console, due>>
  \/ Requested
  \/ /\ disk' = [disk EXCEPT !.wait = Left(@), !.busy = @ /\ Due # DiskInt]
     /\ console' = [console EXCEPT !.wait = Left(@), !.busy = @ /\ Due # ConsoleInt]
     /\ due' = [n \in {DiskInt, ConsoleInt} |->
                  IF Due = n /\ due[n] >= 0 THEN due[n] - 1 ELSE due[n]]

Good == MachineInv' /\ (InStack' => Served)

LEMMA EnterIs ==
  ASSUME NEW m, NEW i, NEW s, NEW M, NEW f, Enter(Cpu(m, i, s, M, f))
  PROVE  /\ f = NoFault => cpu' = Cpu(m, i, s, M, f) /\ ex' = ex
         /\ f # NoFault => /\ cpu' = Cpu("kernel", Vector(0), s, M, NoFault)
                           /\ ex' = [eip |-> i - InstructionSize, ec |-> f.code,
                                     epn |-> f.epn, ema |-> f.ema]
<1> DEFINE c == Cpu(m, i, s, M, f)
<1>1. c.fault = f /\ c.ip = i
  BY DEF Cpu
<1>2. [c EXCEPT !.mode = "kernel", !.ip = Vector(0), !.fault = NoFault]
        = Cpu("kernel", Vector(0), s, M, NoFault)
  <2>1. [c EXCEPT !.mode = "kernel", !.ip = Vector(0), !.fault = NoFault]
          = [[[c EXCEPT !.mode = "kernel"] EXCEPT !.ip = Vector(0)] EXCEPT !.fault = NoFault]
    BY DEF Cpu
  <2>2. [c EXCEPT !.mode = "kernel"] = Cpu("kernel", i, s, M, f)
    BY DEF Cpu
  <2>3. [Cpu("kernel", i, s, M, f) EXCEPT !.ip = Vector(0)] = Cpu("kernel", Vector(0), s, M, f)
    BY DEF Cpu
  <2>4. [Cpu("kernel", Vector(0), s, M, f) EXCEPT !.fault = NoFault]
          = Cpu("kernel", Vector(0), s, M, NoFault)
    BY DEF Cpu
  <2> HIDE DEF c
  <2> QED BY ONLY <2>1, <2>2, <2>3, <2>4, Zenon
<1>3. Enter(c)
  OBVIOUS
<1> HIDE DEF c
<1>4. f = NoFault => cpu' = c /\ ex' = ex
  BY ONLY <1>1, <1>3 DEF Enter
<1>5. f # NoFault => /\ cpu' = [c EXCEPT !.mode = "kernel", !.ip = Vector(0), !.fault = NoFault]
                     /\ ex' = [eip |-> c.ip - InstructionSize, ec |-> c.fault.code,
                               epn |-> c.fault.epn, ema |-> c.fault.ema]
  BY ONLY <1>1, <1>3, Zenon DEF Enter
<1>6. f # NoFault => /\ cpu' = Cpu("kernel", Vector(0), s, M, NoFault)
                     /\ ex' = [eip |-> i - InstructionSize, ec |-> f.code,
                               epn |-> f.epn, ema |-> f.ema]
  BY ONLY <1>1, <1>2, <1>5
<1>7. f = NoFault => cpu' = Cpu(m, i, s, M, f) /\ ex' = ex
  BY ONLY <1>4 DEF c
<1> QED BY ONLY <1>6, <1>7

\* An instruction that ends well: the program sees it, or an interrupt has found
\* the stack full.
LEMMA RetireWell ==
  ASSUME MachineInv, NEW i \in Nat, NEW s \in StackBase - 1 .. LastWord, NEW M \in [Memory -> Nat],
         Retire(Cpu("user", i, s, M, NoFault))
  PROVE  /\ Good /\ prog' = prog
         /\ Shows(i, StackOf(M, s))' \/ (Dead' /\ s = LastWord)
<1> DEFINE c == Cpu("user", i, s, M, NoFault)
           d == IF Due = 0 THEN c ELSE InterruptDo(c, Due)
<1>1. c.fault = NoFault /\ c.mode = "user"
  BY DEF Cpu
<1>2. prog' = prog /\ pt' = pt /\ PostExecute(c)
  BY <1>1 DEF Retire
<1>3. Enter(d)
  BY <1>2 DEF PostExecute
<1>9. ASSUME Due = 0 \/ d.fault = NoFault PROVE Served
  <2> HIDE DEF c
  <2>1. /\ disk' = [disk EXCEPT !.wait = Left(@), !.busy = @ /\ ~(Due = DiskInt /\ d.fault = NoFault)]
        /\ console' = [console EXCEPT !.wait = Left(@),
                                      !.busy = @ /\ ~(Due = ConsoleInt /\ d.fault = NoFault)]
        /\ due' = [n \in {DiskInt, ConsoleInt} |->
                     IF Due = n /\ due[n] >= 0 THEN due[n] - 1 ELSE due[n]]
    BY <1>2 DEF PostExecute
  <2>2. /\ (~(Due = DiskInt /\ d.fault = NoFault)) = (Due # DiskInt)
        /\ (~(Due = ConsoleInt /\ d.fault = NoFault)) = (Due # ConsoleInt)
    BY <1>9 DEF DiskInt, ConsoleInt
  <2> HIDE DEF d
  <2> QED BY <2>1, <2>2 DEF Served
<1>4. TableOK /\ TableOK' /\ (prog \in Programs)'
  BY <1>2 DEF MachineInv, TableOK
<1>5. Due \in {0, TimerInt, DiskInt, ConsoleInt} /\ s \in Int /\ i \in Int
  BY Sizes DEF Due
<1>6. CASE Due = 0
  <2>1. cpu' = c
    BY <1>3, <1>6, EnterIs
  <2>2. Runs(i, s, M)'
    BY <2>1 DEF Runs
  <2>3. Shows(i, StackOf(M, s))'
    BY <1>4, <2>2, RunningNext
  <2>4. MachineInv'
    BY <1>4, <1>5, <2>2 DEF MachineInv, Held
  <2> QED BY <1>2, <1>6, <1>9, <2>3, <2>4 DEF Good
<1>7. CASE Due # 0 /\ s < LastWord
  <2>1. PICK N : N = Put(M, Cell(s + 1), i)
    OBVIOUS
  <2>2. s \in StackBase - 1 .. LastWord - 1
    BY <1>7, Sizes
  <2>3. N \in [Memory -> Nat] /\ N[Cell(s + 1)] = i /\ StackOf(N, s) = StackOf(M, s)
        /\ s + 1 \in StackBase .. LastWord
    BY <2>1, <2>2, Above
  <2>4. d = Cpu("kernel", Vector(Due), s + 1, N, NoFault)
    BY <1>4, <1>7, <2>1, Interrupting
  <2>5. cpu' = Cpu("kernel", Vector(Due), s + 1, N, NoFault)
    <3> HIDE DEF d
    <3> QED BY <1>3, <2>4, EnterIs
  <2>6. PICK k \in Int : k = Vector(Due) /\ k \notin {0, Vector(0)}
    BY <1>5, <1>7, Vectors, Sizes DEF TimerInt, DiskInt, ConsoleInt, Vector
  <2>7. PICK t \in StackBase .. LastWord : t = s + 1 /\ t - 1 = s /\ t \in Int /\ t # LastWord + 1
                                           /\ t \in StackBase .. LastWord + 1
    BY <2>3, Sizes
  <2>8. Waits(k, t, N)'
    BY <2>5, <2>6, <2>7 DEF Waits
  <2>9. Shows(N[Cell(t)], StackOf(N, t - 1))'
    BY <1>4, <2>7, <2>8, WaitingNext
  <2>10. MachineInv'
    BY <1>4, <2>3, <2>6, <2>7, <2>8 DEF MachineInv, Held
  <2>11. d.fault = NoFault
    BY <2>4 DEF Cpu
  <2>12. Shows(i, StackOf(M, s))'
    BY <2>3, <2>7, <2>9 DEF Shows
  <2> QED BY <1>2, <1>9, <2>10, <2>11, <2>12 DEF Good
<1>8. CASE Due # 0 /\ s = LastWord
  <2>1. d = Cpu("user", i, s + 1, M, BadAddress(s + 1))
    BY <1>4, <1>8, Interrupting
  <2>2. BadAddress(s + 1) # NoFault /\ BadAddress(s + 1).code # PageFault
    BY <1>8, Faults, Sizes
  <2>3. cpu' = Cpu("kernel", Vector(0), s + 1, M, NoFault) /\ ex'.ec # PageFault
    <3> HIDE DEF d
    <3> QED BY <1>3, <2>1, <2>2, EnterIs
  <2>4. Fatal' /\ s + 1 \in Int
    BY <1>5, <2>3 DEF Fatal
  <2>5. Faulted(s + 1, M)'
    BY <2>3, <2>4 DEF Faulted
  <2>6. Dead'
    BY <1>4, <2>4, <2>5, FaultingNext
  <2>7. MachineInv'
    BY <1>4, <1>5, <2>4, <2>5 DEF MachineInv, Held
  <2>8. ~InStack'
    <3>1. cpu'.sp = s + 1 /\ cpu'.ip # 0
      BY <2>3, Vectors DEF Cpu
    <3> QED BY <1>8, <3>1, Sizes DEF InStack, LastWord
  <2> QED BY <1>2, <1>8, <2>6, <2>7, <2>8 DEF Good
<1> QED BY <1>6, <1>7, <1>8, Sizes

LEMMA RetireFaulted ==
  ASSUME NEW m, NEW i, NEW s, NEW M, NEW f, f # NoFault, Retire(Cpu(m, i, s, M, f))
  PROVE  /\ prog' = prog /\ pt' = pt /\ Served
         /\ cpu' = Cpu("kernel", Vector(0), s, M, NoFault)
         /\ ex'.eip = i - InstructionSize /\ ex'.ec = f.code /\ ex'.epn = f.epn
<1> DEFINE c == Cpu(m, i, s, M, f)
<1>1. c.fault = f
  BY DEF Cpu
<1>2. prog' = prog /\ pt' = pt /\ Enter(c) /\ Served
  BY <1>1 DEF Retire, Served
<1> QED BY <1>2, EnterIs

\* An instruction that is illegal, or whose access is.
LEMMA RetireFatal ==
  ASSUME MachineInv, NEW m, NEW i, NEW s \in Int, NEW M \in [Memory -> Nat],
         NEW f, f # NoFault, f.code # PageFault, Retire(Cpu(m, i, s, M, f))
  PROVE  Good /\ prog' = prog /\ Dead'
<1>1. /\ prog' = prog /\ pt' = pt /\ Served
      /\ cpu' = Cpu("kernel", Vector(0), s, M, NoFault)
      /\ ex'.ec # PageFault
  BY RetireFaulted
<1>2. TableOK' /\ (prog \in Programs)' /\ Fatal'
  BY <1>1 DEF MachineInv, TableOK, Fatal
<1>3. Faulted(s, M)'
  BY <1>1, <1>2 DEF Faulted
<1>4. Dead'
  BY <1>2, <1>3, FaultingNext
<1>5. Held(0, s, M)' /\ 0 \in Int
  BY <1>3 DEF Held, Faulted
<1> QED BY <1>1, <1>2, <1>4, <1>5 DEF MachineInv, Good

\* One that waits for a page: it is as if it had not begun, or the page is none of
\* the program's.
LEMMA RetirePage ==
  ASSUME MachineInv, NEW m, NEW i \in Nat, NEW s \in StackBase - 1 .. LastWord, NEW M \in [Memory -> Nat],
         NEW p \in Int, Retire(Cpu(m, i + InstructionSize, s, M, MissingPage(p)))
  PROVE  /\ Good /\ prog' = prog
         /\ \/ Shows(i, StackOf(M, s))'
            \/ Dead' /\ p \notin HeapPages /\ p * PageSize \notin DOMAIN prog
<1>1. /\ prog' = prog /\ pt' = pt /\ Served
      /\ cpu' = Cpu("kernel", Vector(0), s, M, NoFault)
      /\ ex'.eip = (i + InstructionSize) - InstructionSize /\ ex'.ec = PageFault /\ ex'.epn = p
  BY Faults, RetireFaulted
<1>2. TableOK' /\ (prog \in Programs)' /\ ex'.eip = i /\ s \in Int /\ i \in Int
  BY <1>1, Sizes DEF MachineInv, TableOK, InstructionSize
<1>3. Fatal' <=> p \notin HeapPages /\ p * PageSize \notin DOMAIN prog
  BY <1>1 DEF Fatal
<1>4. Faulted(s, M)'
  BY <1>1, <1>2 DEF Faulted
<1>5. IF Fatal' THEN Dead' ELSE Shows(ex.eip, StackOf(M, s))'
  BY <1>2, <1>4, FaultingNext
<1>6. ~Fatal' => Shows(i, StackOf(M, s))'
  BY <1>2, <1>5 DEF Shows
<1>7. Good
  BY <1>1, <1>2, <1>4 DEF MachineInv, Held, Good
<1> QED BY <1>1, <1>3, <1>5, <1>6, <1>7
-----------------------------------------------------------------------------
(***************************************************************************)
(* The steps of UserProgram.                                               *)
(***************************************************************************)
Step == Good /\ [Alone!Next]_(Alone!uvars)

LEMMA Unseen ==
  ASSUME Good, NEW u, NEW st, Shows(u, st), Shows(u, st)', prog' = prog
  PROVE  Step
BY DEF Step, Shows, Alone!uvars

LEMMA UnseenDead ==
  ASSUME Good, Dead, Dead', prog' = prog
  PROVE  Step
BY DEF Step, Alone!uvars

LEMMA Dies ==
  ASSUME Good, NEW u, NEW st, Shows(u, st), Dead', prog' = prog,
         \/ u \notin DOMAIN prog
         \/ /\ u \in DOMAIN prog
            /\ \/ prog[u].op \in {"BAD", "PRIV", "DIV"}
               \/ prog[u].op = "ST" /\ prog[u].arg \notin {a \in 0 .. LastWord : PageOf(a) \notin CodePages}
               \/ prog[u].op = "LD" /\ prog[u].arg \notin 0 .. LastWord
               \/ prog[u].op = "ALU" /\ prog[u].arg # "gen"
               \/ Len(st) = PageSize - 1 /\ prog[u].op \in {"PUSH", "CALL", "ADDSP"}
         \/ Len(st) = PageSize
  PROVE  Step
<1>1. Alone!Die
  BY DEF Shows, Alone!Die, Alone!At, Alone!Instr, Alone!Goto, LastWord
<1> QED BY <1>1 DEF Step, Alone!Next

LEMMA PlainStep ==
  ASSUME Good, NEW u, NEW st, Shows(u, st), Shows(u + InstructionSize, st)', prog' = prog,
         u \in DOMAIN prog, prog[u].op \in {"ALU", "DIV", "LD", "NOP", "INT"}
  PROVE  Step
<1>1. Alone!Plain
  BY DEF Shows, Alone!Plain, Alone!At, Alone!Instr, Alone!Advance, Alone!Goto, Alone!Continues,
         Alone!InstructionSize, InstructionSize
<1> QED BY <1>1 DEF Step, Alone!Next

LEMMA StoreStep ==
  ASSUME Good, NEW u, NEW st, NEW t, Shows(u, st), Shows(u + InstructionSize, t)', prog' = prog,
         u \in DOMAIN prog, prog[u].op = "ST",
         prog[u].arg \in {a \in 0 .. LastWord : PageOf(a) \notin CodePages},
         t = [i \in DOMAIN st |-> IF StackBase + i - 1 = prog[u].arg THEN 1 ELSE st[i]]
  PROVE  Step
<1>1. Alone!Store
  BY DEF Shows, Alone!Store, Alone!At, Alone!Instr, Alone!Advance, Alone!Goto, Alone!Continues,
         Alone!InstructionSize, InstructionSize, LastWord
<1> QED BY <1>1 DEF Step, Alone!Next

LEMMA JumpStep ==
  ASSUME Good, NEW u, NEW st, NEW v, Shows(u, st), Shows(v, st)', prog' = prog,
         u \in DOMAIN prog, prog[u].op \in {"JMP", "JZ"},
         v = prog[u].arg \/ (prog[u].op = "JZ" /\ v = u + InstructionSize)
  PROVE  Step
<1>1. Alone!Jump
  BY DEF Shows, Alone!Jump, Alone!At, Alone!Instr, Alone!Advance, Alone!Goto, Alone!Continues,
         Alone!InstructionSize, InstructionSize
<1> QED BY <1>1 DEF Step, Alone!Next

LEMMA PushStep ==
  ASSUME Good, NEW u, NEW st, Shows(u, st), Shows(u + InstructionSize, Append(st, 0))', prog' = prog,
         u \in DOMAIN prog, prog[u].op = "PUSH", Len(st) < PageSize
  PROVE  Step
<1>1. Alone!Push
  BY DEF Shows, Alone!Push, Alone!At, Alone!Instr, Alone!Advance, Alone!Goto, Alone!Continues,
         Alone!InstructionSize, InstructionSize
<1> QED BY <1>1 DEF Step, Alone!Next

LEMMA GrowStep ==
  ASSUME Good, NEW u, NEW st, NEW t, Shows(u, st), Shows(u + InstructionSize, t)', prog' = prog,
         u \in DOMAIN prog, prog[u].op = "ADDSP", Len(st) < PageSize,
         Len(t) = Len(st) + 1, SubSeq(t, 1, Len(st)) = st
  PROVE  Step
<1>1. Alone!Grow
  BY DEF Shows, Alone!Grow, Alone!At, Alone!Instr, Alone!Advance, Alone!Goto, Alone!Continues,
         Alone!InstructionSize, InstructionSize
<1> QED BY <1>1 DEF Step, Alone!Next

LEMMA PopStep ==
  ASSUME Good, NEW u, NEW st, NEW t, Shows(u, st), Shows(u + InstructionSize, t)', prog' = prog,
         u \in DOMAIN prog, prog[u].op = "POP", st # <<>>, t = SubSeq(st, 1, Len(st) - 1)
  PROVE  Step
<1>1. Alone!Pop
  BY DEF Shows, Alone!Pop, Alone!At, Alone!Instr, Alone!Advance, Alone!Goto, Alone!Continues,
         Alone!InstructionSize, InstructionSize
<1> QED BY <1>1 DEF Step, Alone!Next

LEMMA CallStep ==
  ASSUME Good, NEW u, NEW st, Shows(u, st), prog' = prog,
         Shows(prog[u].arg, Append(st, u + InstructionSize))',
         u \in DOMAIN prog, prog[u].op = "CALL", Len(st) < PageSize
  PROVE  Step
<1>1. Alone!Call
  BY DEF Shows, Alone!Call, Alone!At, Alone!Instr, Alone!Goto, Alone!Continues,
         Alone!InstructionSize, InstructionSize
<1> QED BY <1>1 DEF Step, Alone!Next

LEMMA RetStep ==
  ASSUME Good, NEW u, NEW st, NEW t, NEW v, Shows(u, st), Shows(v, t)', prog' = prog,
         u \in DOMAIN prog, prog[u].op = "RET", st # <<>>, v = st[Len(st)],
         t = SubSeq(st, 1, Len(st) - 1)
  PROVE  Step
<1>1. Alone!Ret
  BY DEF Shows, Alone!Ret, Alone!At, Alone!Instr, Alone!Goto, Alone!Continues
<1> QED BY <1>1 DEF Step, Alone!Next
-----------------------------------------------------------------------------
(***************************************************************************)
(* The instructions.                                                       *)
(***************************************************************************)
\* A program that runs: at address i, the next one being j.
Executes(i, j, s, M) ==
  /\ cpu = Cpu("user", i, s, M, NoFault) /\ cpu.ip = i /\ cpu.sp = s
  /\ cpu.ptlr = StackPage + 1 /\ TableOK
  /\ j = i + InstructionSize /\ Ahead = Cpu("user", j, s, M, NoFault)
  /\ Shows(i, StackOf(M, s)) /\ Len(StackOf(M, s)) = s - StackBase + 1
  /\ Instr = prog[i] /\ s \in Int /\ i \in Int /\ j \in Int

LEMMA Executing ==
  ASSUME MachineInv, User
  PROVE  \E i, j \in Nat, s \in StackBase - 1 .. LastWord, M \in [Memory -> Nat] :
           Executes(i, j, s, M)
<1>1. PICK i, s \in Int, M \in [Memory -> Nat] : Held(i, s, M)
  BY DEF MachineInv
<1>2. ~Faulted(s, M) /\ ~Waits(i, s, M) /\ ~Booting(M)
  BY DEF Faulted, Waits, Booting, User, Cpu
<1>3. Runs(i, s, M)
  BY <1>1, <1>2 DEF Held
<1>4. i \in Nat /\ s \in StackBase - 1 .. LastWord /\ cpu = Cpu("user", i, s, M, NoFault)
  BY <1>3 DEF Runs
<1>5. cpu.ip = i /\ cpu.sp = s /\ cpu.ptlr = StackPage + 1
  BY <1>4 DEF Cpu
<1>6. Ahead = Cpu("user", i + InstructionSize, s, M, NoFault)
  <2>1. \A x : [cpu EXCEPT !.ip = x] = Cpu("user", x, s, M, NoFault)
    BY <1>4 DEF Cpu
  <2> QED BY <1>5, <2>1 DEF Ahead
<1>7. Shows(i, StackOf(M, s))
  BY <1>3, Running DEF MachineInv
<1>8. Len(StackOf(M, s)) = s - StackBase + 1
  BY <1>4, StackIs
<1>9. Instr = prog[i] /\ i + InstructionSize \in Nat
  BY <1>4, <1>5 DEF Instr, InstructionSize
<1>10. Executes(i, i + InstructionSize, s, M)
  BY <1>4, <1>5, <1>6, <1>7, <1>8, <1>9, Sizes DEF Executes, MachineInv
<1> QED BY <1>4, <1>9, <1>10

\* The stack is full when SP is at its last word.
LEMMA Full ==
  \A s \in StackBase - 1 .. LastWord :
    /\ s = LastWord <=> s - StackBase + 1 = PageSize
    /\ s < LastWord <=> s - StackBase + 1 < PageSize
    /\ s + 1 = LastWord => s - StackBase + 1 = PageSize - 1
BY Sizes DEF LastWord

Allowed == \A p \in Programs : WellFormed(p)

LEMMA CodeAt ==
  ASSUME Allowed, MachineInv, NEW a \in DOMAIN prog
  PROVE  /\ a \in Nat /\ PageOf(a) \in Pages /\ PageOf(a) * PageSize \in DOMAIN prog
         /\ prog[a].op \in {"LD", "ST", "JMP", "JZ", "CALL"} => prog[a].arg \in Nat
         /\ prog[a].op = "LD" /\ PageOf(prog[a].arg) \in CodePages =>
              PageOf(prog[a].arg) * PageSize \in DOMAIN prog
         /\ prog[a].op = "INT" => prog[a].arg \in 1 .. 18
         /\ prog[a].op = "ALU" => prog[a].arg # "PTLR"
<1>1. WellFormed(prog)
  BY DEF Allowed, MachineInv
<1>2. a \in Nat /\ a < StackBase
  BY <1>1, Sizes DEF WellFormed
<1>3. PageOf(a) \in Nat /\ PageOf(a) < StackPage
  BY <1>2, InPage, InStackPage
<1>4. PageOf(a) \in Pages
  BY <1>3, Sizes
<1> QED BY <1>1, <1>2, <1>4 DEF WellFormed

LEMMA StepFetchFault ==
  ASSUME Allowed, MachineInv, FetchFault
  PROVE  Step
<1>0. User
  BY DEF FetchFault
<1>1. PICK i, j \in Nat, s \in StackBase - 1 .. LastWord, M \in [Memory -> Nat] : Executes(i, j, s, M)
  BY <1>0, Executing
<1> USE DEF Executes
<1>2. PICK f : f = Translated(cpu, i, FALSE) /\ f # NoFault
  BY <1>1 DEF FetchFault, Fetched
<1>3. Retire(Cpu("user", j, s, M, f))
  <2>1. [Ahead EXCEPT !.fault = f] = Cpu("user", j, s, M, f)
    BY <1>1 DEF Cpu
  <2> QED BY <1>1, <1>2, <2>1 DEF FetchFault
<1>4. PICK p \in Nat : p = PageOf(i)
  BY InPage
<1>6. CASE p \notin Pages
  <2>1. f = BadAddress(i) /\ i \notin DOMAIN prog
    BY <1>1, <1>2, <1>4, <1>6, Translation, CodeAt
  <2>2. f.code # PageFault
    BY <2>1, Faults
  <2>3. Good /\ prog' = prog /\ Dead'
    BY <1>1, <1>2, <1>3, <2>2, RetireFatal
  <2> QED BY <1>1, <2>1, <2>3, Dies
<1>7. CASE p \in Pages
  <2>1. f = MissingPage(p)
    BY <1>1, <1>2, <1>4, <1>7, Translation
  <2>2. Good /\ prog' = prog
        /\ \/ Shows(i, StackOf(M, s))'
           \/ Dead' /\ p * PageSize \notin DOMAIN prog
    BY <1>1, <1>3, <2>1, RetirePage
  <2>3. CASE Shows(i, StackOf(M, s))'
    BY <1>1, <2>2, <2>3, Unseen
  <2>4. CASE Dead' /\ p * PageSize \notin DOMAIN prog
    <3>1. i \notin DOMAIN prog
      BY <1>4, <2>4, CodeAt
    <3> QED BY <1>1, <2>2, <2>4, <3>1, Dies
  <2> QED BY <2>2, <2>3, <2>4
<1> QED BY <1>6, <1>7

LEMMA StepNullInstruction ==
  ASSUME Allowed, MachineInv, NullInstruction
  PROVE  Step
<1>0. User
  BY DEF NullInstruction
<1>1. PICK i, j \in Nat, s \in StackBase - 1 .. LastWord, M \in [Memory -> Nat] : Executes(i, j, s, M)
  BY <1>0, Executing
<1> USE DEF Executes
<1>2. PICK x : x = Physical(cpu.ip) + InstructionSize
  OBVIOUS
<1>3. PICK f : f = Raise(IllInstr)
  OBVIOUS
<1>4. f # NoFault /\ f.code # PageFault
  BY <1>3, Faults
<1>5. [cpu EXCEPT !.ip = x, !.fault = f] = Cpu("user", x, s, M, f)
  <2>1. [cpu EXCEPT !.ip = x, !.fault = f] = [[cpu EXCEPT !.ip = x] EXCEPT !.fault = f]
    BY <1>1 DEF Cpu
  <2>2. [cpu EXCEPT !.ip = x] = Cpu("user", x, s, M, NoFault)
    BY <1>1 DEF Cpu
  <2>3. [Cpu("user", x, s, M, NoFault) EXCEPT !.fault = f] = Cpu("user", x, s, M, f)
    BY DEF Cpu
  <2> QED BY ONLY <2>1, <2>2, <2>3, Zenon
<1>6. Retire(Cpu("user", x, s, M, f)) /\ i \notin DOMAIN prog
  BY <1>1, <1>2, <1>3, <1>5 DEF NullInstruction
<1>7. Good /\ prog' = prog /\ Dead'
  BY <1>1, <1>4, <1>6, RetireFatal
<1> QED BY <1>1, <1>6, <1>7, Dies

LEMMA StepIllegal ==
  ASSUME Allowed, MachineInv, Illegal
  PROVE  Step
<1>0. User /\ cpu.ip \in DOMAIN prog /\ Instr.op \in {"BAD", "PRIV"}
  BY DEF Illegal, Is
<1>1. PICK i, j \in Nat, s \in StackBase - 1 .. LastWord, M \in [Memory -> Nat] : Executes(i, j, s, M)
  BY <1>0, Executing
<1> USE DEF Executes
<1>2. PICK f : f = Raise(IllInstr)
  OBVIOUS
<1>3. f # NoFault /\ f.code # PageFault
  BY <1>2, Faults
<1>4. [Ahead EXCEPT !.fault = f] = Cpu("user", j, s, M, f)
  BY <1>1 DEF Cpu
<1>5. Retire(Cpu("user", j, s, M, f))
  BY <1>2, <1>4 DEF Illegal
<1>6. Good /\ prog' = prog /\ Dead'
  BY <1>1, <1>3, <1>5, RetireFatal
<1> QED BY <1>0, <1>1, <1>6, Dies

\* An instruction that moves nothing on the stack, well ended.
LEMMA StepPlain ==
  ASSUME MachineInv, NEW i \in Nat, NEW j \in Nat, NEW s \in StackBase - 1 .. LastWord,
         NEW M \in [Memory -> Nat], Executes(i, j, s, M), i \in DOMAIN prog,
         prog[i].op \in {"ALU", "DIV", "LD", "NOP", "INT"},
         Retire(Cpu("user", j, s, M, NoFault))
  PROVE  Step
<1> USE DEF Executes
<1>1. /\ Good /\ prog' = prog
      /\ Shows(j, StackOf(M, s))' \/ (Dead' /\ s = LastWord)
  BY RetireWell
<1>2. CASE Shows(j, StackOf(M, s))'
  BY <1>1, <1>2, PlainStep
<1>3. CASE Dead' /\ s = LastWord
  BY <1>1, <1>3, Full, Dies
<1> QED BY <1>1, <1>2, <1>3

LEMMA StepAlu ==
  ASSUME Allowed, MachineInv, Alu
  PROVE  Step
<1>0. User /\ cpu.ip \in DOMAIN prog /\ Instr.op \in {"ALU", "NOP"}
  BY DEF Alu, Is
<1>1. PICK i, j \in Nat, s \in StackBase - 1 .. LastWord, M \in [Memory -> Nat] : Executes(i, j, s, M)
  BY <1>0, Executing
<1> USE DEF Executes
<1>2. i \in DOMAIN prog /\ prog[i].op \in {"ALU", "NOP"}
  BY <1>0, <1>1
<1>3. CASE prog[i].op = "ALU" /\ ~UserRegister(prog[i].arg)
  <2>1. PICK f : f = Raise(IllInstr)
    OBVIOUS
  <2>2. f # NoFault /\ f.code # PageFault
    BY <2>1, Faults
  <2>3. [Ahead EXCEPT !.fault = f] = Cpu("user", j, s, M, f)
    BY <1>1 DEF Cpu
  <2>4. Retire(Cpu("user", j, s, M, f))
    BY <1>1, <1>3, <2>1, <2>3 DEF Alu
  <2>5. Good /\ prog' = prog /\ Dead'
    BY <1>1, <2>2, <2>4, RetireFatal
  <2>6. prog[i].arg # "gen"
    BY <1>3 DEF UserRegister
  <2> QED BY <1>1, <1>2, <1>3, <2>5, <2>6, Dies
<1>4. CASE ~(prog[i].op = "ALU" /\ ~UserRegister(prog[i].arg))
  <2>1. prog[i] # [op |-> "ALU", arg |-> "PTLR"]
    BY <1>2, CodeAt
  <2>2. Retire(Cpu("user", j, s, M, NoFault))
    BY <1>1, <1>4, <2>1 DEF Alu
  <2> QED BY <1>1, <1>2, <2>2, StepPlain
<1> QED BY <1>3, <1>4

LEMMA StepAddSp ==
  ASSUME MachineInv, AddSp, cpu.sp < LastWord
  PROVE  Step
<1>0. User /\ cpu.ip \in DOMAIN prog /\ Instr.op = "ADDSP" /\ cpu.sp < LastWord
  BY DEF AddSp, Is
<1>1. PICK i, j \in Nat, s \in StackBase - 1 .. LastWord, M \in [Memory -> Nat] : Executes(i, j, s, M)
  BY <1>0, Executing
<1> USE DEF Executes
<1>2. i \in DOMAIN prog /\ prog[i].op = "ADDSP" /\ s < LastWord
  BY <1>0, <1>1
<1>3. PICK r \in StackBase .. LastWord : r = s + 1 /\ r - 1 = s
  BY <1>2, Sizes
<1>4. [Ahead EXCEPT !.sp = @ + 1] = Cpu("user", j, r, M, NoFault)
  BY <1>1, <1>3 DEF Cpu
<1>5. Retire(Cpu("user", j, r, M, NoFault)) /\ r \in StackBase - 1 .. LastWord
  BY <1>4, Sizes DEF AddSp
<1>6. /\ Good /\ prog' = prog
      /\ Shows(j, StackOf(M, r))' \/ (Dead' /\ r = LastWord)
  BY <1>5, RetireWell
<1>7. CASE Shows(j, StackOf(M, r))'
  <2>1. PICK t : t = StackOf(M, r)
    OBVIOUS
  <2>2. Len(t) = r - StackBase + 1 /\ StackOf(M, s) = SubSeq(t, 1, Len(t) - 1)
    BY <1>3, <1>5, <2>1, StackIs, StackPopped
  <2>3. Len(t) = Len(StackOf(M, s)) + 1 /\ Len(t) - 1 = Len(StackOf(M, s))
    BY <1>1, <1>3, <2>2, Sizes
  <2>4. Len(StackOf(M, s)) < PageSize
    BY <1>1, <1>2, Full
  <2>5. SubSeq(t, 1, Len(StackOf(M, s))) = StackOf(M, s)
    BY <2>2, <2>3
  <2>6. Shows(j, t)'
    BY <1>7, <2>1
  <2> QED BY <1>1, <1>2, <1>6, <2>3, <2>4, <2>5, <2>6, GrowStep
<1>8. CASE Dead' /\ r = LastWord
  <2>1. Len(StackOf(M, s)) = PageSize - 1
    BY <1>1, <1>3, <1>8, Full
  <2> QED BY <1>1, <1>2, <1>6, <1>8, <2>1, Dies
<1> QED BY <1>6, <1>7, <1>8

LEMMA StepDivide ==
  ASSUME Allowed, MachineInv, Divide
  PROVE  Step
<1>0. User /\ cpu.ip \in DOMAIN prog /\ Instr.op = "DIV"
  BY DEF Divide, Is
<1>1. PICK i, j \in Nat, s \in StackBase - 1 .. LastWord, M \in [Memory -> Nat] : Executes(i, j, s, M)
  BY <1>0, Executing
<1> USE DEF Executes
<1>2. i \in DOMAIN prog /\ prog[i].op = "DIV"
  BY <1>0, <1>1
<1>3. CASE Retire(Ahead)
  BY <1>1, <1>2, <1>3, StepPlain
<1>4. CASE Retire([Ahead EXCEPT !.fault = Raise(Arith)])
  <2>1. PICK f : f = Raise(Arith)
    OBVIOUS
  <2>2. f # NoFault /\ f.code # PageFault
    BY <2>1, Faults
  <2>3. [Ahead EXCEPT !.fault = f] = Cpu("user", j, s, M, f)
    BY <1>1 DEF Cpu
  <2>4. Retire(Cpu("user", j, s, M, f))
    BY <1>4, <2>1, <2>3
  <2>5. Good /\ prog' = prog /\ Dead'
    BY <1>1, <2>2, <2>4, RetireFatal
  <2> QED BY <1>1, <1>2, <2>5, Dies
<1> QED BY <1>3, <1>4 DEF Divide

\* What a store leaves of the stack, q being the physical address of a.
LEMMA StackStored ==
  ASSUME NEW M \in [Memory -> Nat], NEW s \in StackBase - 1 .. LastWord, NEW a \in Nat, NEW q \in Memory,
         a \in StackBase .. LastWord => q = Cell(a),
         a \notin StackBase .. LastWord => \A b \in StackBase .. LastWord : Cell(b) # q
  PROVE  /\ Put(M, q, 1) \in [Memory -> Nat]
         /\ StackOf(Put(M, q, 1), s) =
              [k \in DOMAIN StackOf(M, s) |-> IF StackBase + k - 1 = a THEN 1 ELSE StackOf(M, s)[k]]
<1>1. PICK N \in [Memory -> Nat] : N = Put(M, q, 1) /\ N[q] = 1 /\ \A b \in Memory : b # q => N[b] = M[b]
  BY PutIs
<1>2. ASSUME NEW k \in 1 .. s - StackBase + 1
      PROVE  N[Cell(StackBase + k - 1)] = IF StackBase + k - 1 = a THEN 1 ELSE StackOf(M, s)[k]
  <2>1. PICK b \in StackBase .. LastWord : b = StackBase + k - 1 /\ StackOf(M, s)[k] = M[Cell(b)]
    BY StackIs
  <2>2. Cell(b) \in Memory
    BY FrameWords
  <2>3. CASE b = a
    BY <1>1, <2>1, <2>3
  <2>4. CASE b # a
    <3>1. Cell(b) # q
      BY <2>4, CellsDiffer
    <3> QED BY <1>1, <2>1, <2>2, <2>4, <3>1
  <2> QED BY <2>3, <2>4
<1>3. DOMAIN StackOf(M, s) = 1 .. s - StackBase + 1
  BY StackIs
<1>4. StackOf(N, s) = [k \in 1 .. s - StackBase + 1 |->
                         IF StackBase + k - 1 = a THEN 1 ELSE StackOf(M, s)[k]]
  BY <1>2 DEF StackOf
<1> QED BY <1>1, <1>3, <1>4

LEMMA StepMov ==
  ASSUME Allowed, MachineInv, Mov
  PROVE  Step
<1>0. User /\ cpu.ip \in DOMAIN prog /\ Instr.op \in {"LD", "ST"}
  BY DEF Mov, Is
<1>1. PICK i, j \in Nat, s \in StackBase - 1 .. LastWord, M \in [Memory -> Nat] : Executes(i, j, s, M)
  BY <1>0, Executing
<1> USE DEF Executes
<1>2. i \in DOMAIN prog /\ prog[i].op \in {"LD", "ST"}
  BY <1>0, <1>1
<1>3. PICK a \in Nat, w \in BOOLEAN : a = prog[i].arg /\ (w <=> prog[i].op = "ST")
  BY <1>2, CodeAt
<1>4. PICK f : f = Translated(Ahead, a, w)
  OBVIOUS
<1>5. PICK p \in Nat : p = PageOf(a)
  BY InPage
<1>6. Ahead.ptlr = StackPage + 1
  BY <1>1 DEF Cpu
<1>7. PICK e : e = IF w THEN [Ahead EXCEPT !.mem[Physical(a)] = 1] ELSE Ahead
  OBVIOUS
<1>8. Retire(IF f = NoFault THEN e ELSE [Ahead EXCEPT !.fault = f])
  <2>1. Retire(Access(Ahead, a, w, e))
    BY <1>1, <1>3, <1>7 DEF Mov
  <2> QED BY <1>4, <2>1 DEF Access
<1>9. /\ a \in 0 .. LastWord <=> p \in Pages
      /\ p = StackPage <=> a \in StackBase .. LastWord
      /\ p \in Pages => p \in HeapPages \/ p \in CodePages \/ p = StackPage
  <2>1. p \in Pages <=> p <= StackPage
    BY Sizes
  <2>2. a \in 0 .. LastWord <=> p \in Pages
    BY <1>5, <2>1, InStackPage, Sizes
  <2>3. p = StackPage <=> a \in StackBase .. LastWord
    BY <1>5, InStackPage, Sizes
  <2>4. p \in Pages => p \in HeapPages \/ p \in CodePages \/ p = StackPage
    BY MachineAssumption DEF Pages, HeapPages, CodePages, StackPage
  <2> QED BY <2>2, <2>3, <2>4
<1>10. CASE f # NoFault
  <2>1. Retire(Cpu("user", j, s, M, f))
    <3>1. [Ahead EXCEPT !.fault = f] = Cpu("user", j, s, M, f)
      BY <1>1 DEF Cpu
    <3> QED BY <1>8, <1>10, <3>1
  <2>2. CASE f = MissingPage(p)
    <3>1. Good /\ prog' = prog
          /\ \/ Shows(i, StackOf(M, s))'
             \/ Dead' /\ p \notin HeapPages /\ p * PageSize \notin DOMAIN prog
      BY <1>1, <2>1, <2>2, RetirePage
    <3>2. CASE Shows(i, StackOf(M, s))'
      BY <1>1, <3>1, <3>2, Unseen
    <3>3. CASE Dead' /\ p \notin HeapPages /\ p * PageSize \notin DOMAIN prog
      <4>0. p # StackPage
        BY <1>1, <1>4, <1>5, <1>6, <2>2, Translation
      <4>1. CASE p \in CodePages
        <5>1. prog[i].op # "LD"
          BY <1>2, <1>3, <1>5, <3>3, <4>1, CodeAt
        <5>2. prog[i].op = "ST" /\ prog[i].arg \notin {x \in 0 .. LastWord : PageOf(x) \notin CodePages}
          BY <1>2, <1>3, <1>5, <4>1, <5>1
        <5> QED BY <1>1, <1>2, <3>1, <3>3, <5>2, Dies
      <4>2. CASE p \notin Pages
        <5>1. prog[i].arg \notin 0 .. LastWord
          BY <1>3, <1>9, <4>2
        <5>2. prog[i].arg \notin {x \in 0 .. LastWord : PageOf(x) \notin CodePages}
          BY <5>1
        <5> QED BY <1>1, <1>2, <3>1, <3>3, <5>1, <5>2, Dies
      <4> QED BY <1>9, <3>3, <4>0, <4>1, <4>2
    <3> QED BY <3>1, <3>2, <3>3
  <2>3. CASE f # MissingPage(p)
    <3>1. f = BadAddress(a) /\ (p \notin Pages \/ (w /\ p \in CodePages))
      BY <1>1, <1>4, <1>5, <1>6, <1>10, <2>3, Translation
    <3>2. f.code # PageFault
      BY <3>1, Faults
    <3>3. Good /\ prog' = prog /\ Dead'
      BY <1>1, <1>10, <2>1, <3>2, RetireFatal
    <3>4. \/ prog[i].op = "ST" /\ prog[i].arg \notin {x \in 0 .. LastWord : PageOf(x) \notin CodePages}
          \/ prog[i].op = "LD" /\ prog[i].arg \notin 0 .. LastWord
      BY <1>2, <1>3, <1>5, <1>9, <3>1
    <3> QED BY <1>1, <1>2, <3>3, <3>4, Dies
  <2> QED BY <2>2, <2>3
<1>11. CASE f = NoFault
  <2>0. p \in Pages /\ ~(w /\ p \in CodePages) /\ Physical(a) \in Memory
        /\ (p # StackPage => \A b \in StackBase .. LastWord : Cell(b) # Physical(a))
    <3>1. BadAddress(a) # NoFault
      BY Faults
    <3>2. p \in Pages
      BY <1>1, <1>4, <1>5, <1>6, <1>11, <3>1, Translation
    <3> QED BY <1>1, <1>4, <1>5, <1>6, <1>11, <3>2, Translation
  <2>1. CASE ~w
    <3>1. Retire(Cpu("user", j, s, M, NoFault))
      BY <1>1, <1>7, <1>8, <1>11, <2>1
    <3>2. prog[i].op = "LD"
      BY <1>2, <1>3, <2>1
    <3> QED BY <1>1, <1>2, <3>1, <3>2, StepPlain
  <2>2. CASE w
    <3>1. PICK q \in Memory : q = Physical(a)
      BY <2>0
    <3>2. a \in StackBase .. LastWord => q = Cell(a)
      BY <1>1, <1>6, <3>1, OnStack
    <3>3. a \notin StackBase .. LastWord => \A b \in StackBase .. LastWord : Cell(b) # q
      BY <1>9, <2>0, <3>1
    <3>4. PICK N \in [Memory -> Nat] :
            /\ N = Put(M, q, 1)
            /\ StackOf(N, s) = [k \in DOMAIN StackOf(M, s) |->
                                  IF StackBase + k - 1 = a THEN 1 ELSE StackOf(M, s)[k]]
      BY <3>2, <3>3, StackStored
    <3>5. e = Cpu("user", j, s, N, NoFault)
      <4>1. [Ahead EXCEPT !.mem[q] = 1] = Cpu("user", j, s, Put(M, q, 1), NoFault)
        <5>1. [Cpu("user", j, s, M, NoFault) EXCEPT !.mem[q] = 1]
                = Cpu("user", j, s, Put(M, q, 1), NoFault)
          BY DEF Cpu, Put
        <5>2. PICK A : A = Ahead /\ A = Cpu("user", j, s, M, NoFault)
          BY <1>1
        <5> QED BY ONLY <5>1, <5>2, Zenon
      <4> QED BY <1>7, <2>2, <3>1, <3>4, <4>1
    <3>6. Retire(Cpu("user", j, s, N, NoFault))
      BY <1>8, <1>11, <3>5
    <3>7. /\ Good /\ prog' = prog
          /\ Shows(j, StackOf(N, s))' \/ (Dead' /\ s = LastWord)
      BY <3>6, RetireWell
    <3>8. CASE Shows(j, StackOf(N, s))'
      <4>1. PICK t : t = StackOf(N, s)
        OBVIOUS
      <4>2. t = [k \in DOMAIN StackOf(M, s) |->
                   IF StackBase + k - 1 = prog[i].arg THEN 1 ELSE StackOf(M, s)[k]]
        BY <1>3, <3>4, <4>1
      <4>3. prog[i].op = "ST" /\ prog[i].arg \in {x \in 0 .. LastWord : PageOf(x) \notin CodePages}
        BY <1>2, <1>3, <1>5, <1>9, <2>0, <2>2
      <4>4. Shows(j, t)'
        BY <3>8, <4>1
      <4> QED BY <1>1, <1>2, <3>7, <4>2, <4>3, <4>4, StoreStep
    <3>9. CASE Dead' /\ s = LastWord
      BY <1>1, <3>7, <3>9, Full, Dies
    <3> QED BY <3>7, <3>8, <3>9
  <2> QED BY <2>1, <2>2
<1> QED BY <1>10, <1>11

LEMMA StepJump ==
  ASSUME Allowed, MachineInv, Jump
  PROVE  Step
<1>0. User /\ cpu.ip \in DOMAIN prog /\ Instr.op \in {"JMP", "JZ"}
  BY DEF Jump, Is
<1>1. PICK i, j \in Nat, s \in StackBase - 1 .. LastWord, M \in [Memory -> Nat] : Executes(i, j, s, M)
  BY <1>0, Executing
<1> USE DEF Executes
<1>2. i \in DOMAIN prog /\ prog[i].op \in {"JMP", "JZ"} /\ prog[i].arg \in Nat
  BY <1>0, <1>1, CodeAt
<1>3. \A x : [Ahead EXCEPT !.ip = x] = Cpu("user", x, s, M, NoFault)
  BY <1>1 DEF Cpu
<1>4. PICK v \in Nat : /\ v = prog[i].arg \/ (prog[i].op = "JZ" /\ v = i + InstructionSize)
                       /\ Retire(Cpu("user", v, s, M, NoFault))
  <2>1. CASE Retire([Ahead EXCEPT !.ip = Instr.arg])
    BY <1>1, <1>2, <1>3, <2>1
  <2>2. CASE Instr.op = "JZ" /\ Retire(Ahead)
    BY <1>1, <2>2
  <2> QED BY <2>1, <2>2 DEF Jump
<1>5. /\ Good /\ prog' = prog
      /\ Shows(v, StackOf(M, s))' \/ (Dead' /\ s = LastWord)
  BY <1>4, RetireWell
<1>6. CASE Shows(v, StackOf(M, s))'
  BY <1>1, <1>2, <1>4, <1>5, <1>6, JumpStep
<1>7. CASE Dead' /\ s = LastWord
  BY <1>1, <1>5, <1>7, Full, Dies
<1> QED BY <1>5, <1>6, <1>7

\* A push on a full stack ends the program.
LEMMA StepOverflow ==
  ASSUME MachineInv, NEW i \in Nat, NEW j \in Nat, NEW s \in StackBase - 1 .. LastWord,
         NEW M \in [Memory -> Nat], Executes(i, j, s, M), s = LastWord,
         Retire(Cpu("user", j, s + 1, M, BadAddress(s + 1)))
  PROVE  Step
<1> USE DEF Executes
<1>1. PICK r \in Int : r = s + 1
  OBVIOUS
<1>2. PICK f : f = BadAddress(r) /\ f # NoFault /\ f.code # PageFault
  BY Faults
<1>3. Good /\ prog' = prog /\ Dead'
  BY <1>1, <1>2, RetireFatal
<1> QED BY <1>3, Full, Dies

LEMMA StepPush ==
  ASSUME MachineInv, Is({"PUSH"}), Retire(PushDo(Ahead, 0))
  PROVE  Step
<1>0. User /\ cpu.ip \in DOMAIN prog /\ Instr.op = "PUSH"
  BY DEF Is
<1>1. PICK i, j \in Nat, s \in StackBase - 1 .. LastWord, M \in [Memory -> Nat] : Executes(i, j, s, M)
  BY <1>0, Executing
<1> USE DEF Executes
<1>2. i \in DOMAIN prog /\ prog[i].op = "PUSH"
  BY <1>0, <1>1
<1>3. CASE s = LastWord
  <2>1. Retire(Cpu("user", j, s + 1, M, BadAddress(s + 1)))
    BY <1>1, <1>3, Pushing
  <2> QED BY <1>1, <1>3, <2>1, StepOverflow
<1>4. CASE s < LastWord
  <2>1. s \in StackBase - 1 .. LastWord - 1
    BY <1>4, Sizes
  <2>2. PICK r \in StackBase - 1 .. LastWord, N \in [Memory -> Nat] :
          r = s + 1 /\ N = Put(M, Cell(s + 1), 0) /\ StackOf(N, r) = Append(StackOf(M, s), 0)
    <3>1. s + 1 \in StackBase - 1 .. LastWord
      BY <1>4, Sizes
    <3>2. PICK N \in [Memory -> Nat] : N = Put(M, Cell(s + 1), 0)
      BY <2>1, Above
    <3> QED BY <2>1, <3>1, <3>2, StackPushed
  <2>3. Retire(Cpu("user", j, r, N, NoFault))
    BY <1>1, <1>4, <2>2, Pushing
  <2>4. /\ Good /\ prog' = prog
        /\ Shows(j, StackOf(N, r))' \/ (Dead' /\ r = LastWord)
    BY <2>3, RetireWell
  <2>5. CASE Shows(j, StackOf(N, r))'
    <3>1. Shows(i + InstructionSize, Append(StackOf(M, s), 0))'
      BY <1>1, <2>2, <2>5
    <3>2. Len(StackOf(M, s)) < PageSize
      BY <1>1, <1>4, Full
    <3> QED BY <1>1, <1>2, <2>4, <3>1, <3>2, PushStep
  <2>6. CASE Dead' /\ r = LastWord
    <3>1. Len(StackOf(M, s)) = PageSize - 1
      BY <1>1, <2>2, <2>6, Full
    <3> QED BY <1>1, <1>2, <2>4, <2>6, <3>1, Dies
  <2> QED BY <2>4, <2>5, <2>6
<1> QED BY <1>3, <1>4, Sizes

LEMMA StepCall ==
  ASSUME Allowed, MachineInv, Call
  PROVE  Step
<1>0. User /\ cpu.ip \in DOMAIN prog /\ Instr.op = "CALL" /\ Retire(CallDo(Ahead, Instr.arg))
  BY DEF Call, Is
<1>1. PICK i, j \in Nat, s \in StackBase - 1 .. LastWord, M \in [Memory -> Nat] : Executes(i, j, s, M)
  BY <1>0, Executing
<1> USE DEF Executes
<1>2. i \in DOMAIN prog /\ prog[i].op = "CALL"
  BY <1>0, <1>1
<1>5. PICK v \in Nat : v = prog[i].arg
  BY <1>2, CodeAt
<1>6. Retire(CallDo(Cpu("user", j, s, M, NoFault), v))
  BY <1>0, <1>1, <1>5
<1>3. CASE s = LastWord
  <2>1. Retire(Cpu("user", j, s + 1, M, BadAddress(s + 1)))
    BY <1>1, <1>3, <1>6, Calling
  <2> QED BY <1>1, <1>3, <2>1, StepOverflow
<1>4. CASE s < LastWord
  <2>1. s \in StackBase - 1 .. LastWord - 1
    BY <1>4, Sizes
  <2>2. PICK r \in StackBase - 1 .. LastWord, N \in [Memory -> Nat] :
          r = s + 1 /\ N = Put(M, Cell(s + 1), j) /\ StackOf(N, r) = Append(StackOf(M, s), j)
    <3>1. s + 1 \in StackBase - 1 .. LastWord
      BY <1>4, Sizes
    <3>2. PICK N \in [Memory -> Nat] : N = Put(M, Cell(s + 1), j)
      BY <2>1, Above
    <3> QED BY <2>1, <3>1, <3>2, StackPushed
  <2>3. Retire(Cpu("user", v, r, N, NoFault))
    BY <1>1, <1>4, <1>6, <2>2, Calling
  <2>4. /\ Good /\ prog' = prog
        /\ Shows(v, StackOf(N, r))' \/ (Dead' /\ r = LastWord)
    BY <2>3, RetireWell
  <2>5. CASE Shows(v, StackOf(N, r))'
    <3>1. Shows(prog[i].arg, Append(StackOf(M, s), i + InstructionSize))'
      BY <1>1, <1>5, <2>2, <2>4, <2>5 DEF Shows
    <3>2. Len(StackOf(M, s)) < PageSize
      BY <1>1, <1>4, Full
    <3> QED BY <1>1, <1>2, <2>4, <3>1, <3>2, CallStep
  <2>6. CASE Dead' /\ r = LastWord
    <3>1. Len(StackOf(M, s)) = PageSize - 1
      BY <1>1, <2>2, <2>6, Full
    <3> QED BY <1>1, <1>2, <2>4, <2>6, <3>1, Dies
  <2> QED BY <2>4, <2>5, <2>6
<1> QED BY <1>3, <1>4, Sizes

LEMMA StepPop ==
  ASSUME OwnStack, MachineInv, Is({"POP"}), Retire(PopDo(Ahead))
  PROVE  Step
<1>0. User /\ cpu.ip \in DOMAIN prog /\ Instr.op = "POP" /\ cpu.sp >= StackBase
  BY DEF Is, OwnStack
<1>1. PICK i, j \in Nat, s \in StackBase - 1 .. LastWord, M \in [Memory -> Nat] : Executes(i, j, s, M)
  BY <1>0, Executing
<1> USE DEF Executes
<1>2. i \in DOMAIN prog /\ prog[i].op = "POP" /\ s \in StackBase .. LastWord
  BY <1>0, <1>1, Sizes
<1>3. PICK r \in StackBase - 1 .. LastWord : r = s - 1 /\ r # LastWord
  BY <1>2, Sizes
<1>4. Retire(Cpu("user", j, r, M, NoFault))
  BY <1>1, <1>2, <1>3, Popping
<1>5. Good /\ prog' = prog /\ Shows(j, StackOf(M, r))'
  BY <1>3, <1>4, RetireWell
<1>6. PICK t : t = StackOf(M, r) /\ StackOf(M, s) # <<>>
               /\ t = SubSeq(StackOf(M, s), 1, Len(StackOf(M, s)) - 1)
  BY <1>2, <1>3, StackPopped
<1>7. Shows(i + InstructionSize, t)'
  BY <1>1, <1>5, <1>6
<1> QED BY <1>1, <1>2, <1>5, <1>6, <1>7, PopStep

LEMMA StepRet ==
  ASSUME OwnStack, MachineInv, Ret
  PROVE  Step
<1>0. User /\ cpu.ip \in DOMAIN prog /\ Instr.op = "RET" /\ cpu.sp >= StackBase
      /\ Retire(RetDo(Ahead))
  BY DEF Ret, Is, OwnStack
<1>1. PICK i, j \in Nat, s \in StackBase - 1 .. LastWord, M \in [Memory -> Nat] : Executes(i, j, s, M)
  BY <1>0, Executing
<1> USE DEF Executes
<1>2. i \in DOMAIN prog /\ prog[i].op = "RET" /\ s \in StackBase .. LastWord
  BY <1>0, <1>1, Sizes
<1>3. PICK r \in StackBase - 1 .. LastWord : r = s - 1 /\ r # LastWord
  BY <1>2, Sizes
<1>4. PICK v \in Nat : v = M[Cell(s)] /\ v = StackOf(M, s)[Len(StackOf(M, s))]
  BY <1>2, StackPopped
<1>5. Retire(Cpu("user", v, r, M, NoFault))
  <2>1. RetDo(Cpu("user", j, s, M, NoFault)) = Cpu("user", M[Cell(s)], s - 1, M, NoFault)
    BY <1>1, <1>2, Popping
  <2>2. RetDo(Ahead) = Cpu("user", v, r, M, NoFault)
    BY <1>1, <1>3, <1>4, <2>1
  <2> QED BY <1>0, <2>2
<1>6. Good /\ prog' = prog /\ Shows(v, StackOf(M, r))'
  BY <1>3, <1>5, RetireWell
<1>7. PICK t : t = StackOf(M, r) /\ StackOf(M, s) # <<>>
               /\ t = SubSeq(StackOf(M, s), 1, Len(StackOf(M, s)) - 1)
  BY <1>2, <1>3, StackPopped
<1>8. Shows(v, t)'
  BY <1>6, <1>7
<1> QED BY <1>1, <1>2, <1>4, <1>6, <1>7, <1>8, RetStep

LEMMA StepStack ==
  ASSUME OwnStack, MachineInv, Stack
  PROVE  Step
<1>1. CASE Instr.op = "PUSH"
  <2>1. Is({"PUSH"}) /\ Retire(PushDo(Ahead, 0))
    BY <1>1 DEF Stack, Is
  <2> QED BY <2>1, StepPush
<1>2. CASE Instr.op # "PUSH"
  <2>1. Is({"POP"}) /\ Retire(PopDo(Ahead))
    BY <1>2 DEF Stack, Is
  <2> QED BY <2>1, StepPop
<1> QED BY <1>1, <1>2

LEMMA RetireKernel ==
  ASSUME NEW k, NEW s, NEW M, Retire(Cpu("kernel", k, s, M, NoFault))
  PROVE  /\ prog' = prog /\ pt' = pt /\ ex' = ex /\ cpu' = Cpu("kernel", k, s, M, NoFault)
         /\ Served
<1> DEFINE c == Cpu("kernel", k, s, M, NoFault)
<1>1. c.fault = NoFault /\ c.mode = "kernel"
  BY DEF Cpu
<1>2. prog' = prog /\ pt' = pt /\ Enter(c) /\ Served
  BY <1>1 DEF Retire, Served
<1> QED BY <1>2, EnterIs

LEMMA StepTrap ==
  ASSUME Allowed, MachineInv, Trap
  PROVE  Step
<1>0. User /\ cpu.ip \in DOMAIN prog /\ Instr.op = "INT" /\ Retire(InterruptDo(Ahead, Instr.arg))
  BY DEF Trap, Is
<1>1. PICK i, j \in Nat, s \in StackBase - 1 .. LastWord, M \in [Memory -> Nat] : Executes(i, j, s, M)
  BY <1>0, Executing
<1> USE DEF Executes
<1>2. i \in DOMAIN prog /\ prog[i].op = "INT"
  BY <1>0, <1>1
<1>5. PICK n \in Nat : n = prog[i].arg /\ n # 0
  BY <1>2, CodeAt
<1>6. Retire(InterruptDo(Cpu("user", j, s, M, NoFault), n))
  BY <1>0, <1>1, <1>5
<1>3. CASE s = LastWord
  <2>1. Retire(Cpu("user", j, s + 1, M, BadAddress(s + 1)))
    BY <1>1, <1>3, <1>6, Interrupting
  <2> QED BY <1>1, <1>3, <2>1, StepOverflow
<1>4. CASE s < LastWord
  <2>1. s \in StackBase - 1 .. LastWord - 1
    BY <1>4, Sizes
  <2>2. PICK r \in StackBase .. LastWord, N \in [Memory -> Nat] :
          /\ r = s + 1 /\ r - 1 = s /\ r # LastWord + 1 /\ r \in StackBase .. LastWord + 1 /\ r \in Int
          /\ N = Put(M, Cell(s + 1), j) /\ N[Cell(r)] = j /\ StackOf(N, s) = StackOf(M, s)
    <3>1. s + 1 \in StackBase .. LastWord
      BY <2>1, Above
    <3>2. PICK r \in StackBase .. LastWord : r = s + 1 /\ r - 1 = s /\ r # LastWord + 1
                                             /\ r \in StackBase .. LastWord + 1 /\ r \in Int
      BY <3>1, Sizes
    <3> QED BY <2>1, <3>2, Above
  <2>3. PICK k \in Int : k = Vector(n) /\ k \notin {0, Vector(0)}
    BY <1>5, Vectors DEF Vector
  <2>4. Retire(Cpu("kernel", k, r, N, NoFault))
    BY <1>1, <1>4, <1>6, <2>2, <2>3, Interrupting
  <2>5. prog' = prog /\ pt' = pt /\ Served /\ cpu' = Cpu("kernel", k, r, N, NoFault)
    BY <2>4, RetireKernel
  <2>6. TableOK' /\ (prog \in Programs)'
    BY <2>5 DEF MachineInv, TableOK
  <2>7. Waits(k, r, N)'
    BY <2>2, <2>3, <2>5 DEF Waits
  <2>8. Shows(N[Cell(r)], StackOf(N, r - 1))'
    BY <2>2, <2>6, <2>7, WaitingNext
  <2>9. Shows(i + InstructionSize, StackOf(M, s))'
    BY <1>1, <2>2, <2>8 DEF Shows
  <2>10. Good
    BY <2>2, <2>5, <2>6, <2>7 DEF MachineInv, Held, Good
  <2> QED BY <1>1, <1>2, <2>5, <2>9, <2>10, PlainStep
<1> QED BY <1>3, <1>4, Sizes
-----------------------------------------------------------------------------
(***************************************************************************)
(* The kernel.                                                             *)
(***************************************************************************)
LEMMA SameView ==
  ASSUME MachineInv, Served, UNCHANGED <<prog, cpu, ex, pt>>
  PROVE  Step
<1>1. TableOK'
  BY DEF MachineInv, TableOK
<1>2. PICK i, s \in Int, M \in [Memory -> Nat] : Held(i, s, M)
  BY DEF MachineInv
<1>3. Fatal' <=> Fatal
  BY DEF Fatal
<1>4. Held(i, s, M)'
  BY <1>2, <1>3 DEF Held, Runs, Faulted, Waits, Booting
<1>5. Good
  BY <1>1, <1>4 DEF MachineInv, Good
<1>6. UNCHANGED Alone!uvars
  BY DEF Alone!uvars, Dead, SeenIp, SeenStack, SeenSp, AtFault, Pushed, InHandler, Fatal, Top, Physical
<1> QED BY <1>5, <1>6 DEF Step

\* The kernel takes the program's state as the machine left it.
LEMMA Entered ==
  ASSUME MachineInv, NEW n \in Nat, InHandler(n)
  PROVE  \E s \in Int, M \in [Memory -> Nat] :
           /\ cpu = Cpu("kernel", Vector(n), s, M, NoFault) /\ cpu.sp = s /\ cpu.mem = M
           /\ IF n = 0 THEN Faulted(s, M) ELSE Waits(Vector(n), s, M)
<1>1. PICK i, s \in Int, M \in [Memory -> Nat] : Held(i, s, M)
  BY DEF MachineInv
<1>2. cpu.mode = "kernel" /\ cpu.ip = Vector(n)
  BY DEF InHandler
<1>3. Vector(n) # 0 /\ (n # 0 => Vector(n) # Vector(0))
  BY Vectors
<1>4. ~Runs(i, s, M) /\ ~Booting(M)
  BY <1>2, <1>3 DEF Runs, Booting, Cpu
<1>5. CASE Faulted(s, M)
  <2>1. cpu.ip = Vector(0) /\ cpu.sp = s /\ cpu.mem = M
    BY <1>5 DEF Faulted, Cpu
  <2>2. n = 0
    BY <1>2, <1>3, <2>1
  <2> QED BY <1>5, <2>1, <2>2 DEF Faulted
<1>6. CASE Waits(i, s, M)
  <2>1. cpu.ip = i /\ i # Vector(0) /\ cpu.sp = s /\ cpu.mem = M
    BY <1>6 DEF Waits, Cpu
  <2>2. n # 0 /\ i = Vector(n)
    BY <1>2, <2>1
  <2> QED BY <1>6, <2>1, <2>2 DEF Waits
<1> QED BY <1>1, <1>4, <1>5, <1>6 DEF Held

LEMMA StepHandlerDone ==
  ASSUME MachineInv, HandlerDone
  PROVE  Step
<1>1. PICK n \in Nat : n # 0 /\ InHandler(n) /\ KernelAt(n)
  BY DEF HandlerDone, TimerInt, DiskInt, ConsoleInt, Software
<1>2. PICK s \in Int, M \in [Memory -> Nat] :
           /\ cpu = Cpu("kernel", Vector(n), s, M, NoFault) /\ cpu.sp = s /\ cpu.mem = M
           /\ Waits(Vector(n), s, M)
  BY <1>1, Entered
<1>3. PICK k \in Int : k = Return(n) /\ k \notin {0, Vector(0)}
  BY <1>1, Vectors, Sizes DEF Return, Vector, InstructionSize
<1>4. cpu' = Cpu("kernel", k, s, M, NoFault)
  BY <1>1, <1>2, <1>3 DEF KernelAt, Cpu
<1>5. prog' = prog /\ TableOK' /\ TableOK /\ Served
  BY DEF HandlerDone, MachineInv, TableOK, Served
<1>6. Waits(k, s, M)'
  BY <1>2, <1>3, <1>4 DEF Waits
<1>7. Good
  BY <1>5, <1>6 DEF MachineInv, Held, Good
<1>8. CASE s = LastWord + 1
  BY <1>2, <1>5, <1>6, <1>7, <1>8, Waiting, WaitingNext, UnseenDead
<1>9. CASE s # LastWord + 1
  <2>1. PICK u, st : u = M[Cell(s)] /\ st = StackOf(M, s - 1)
    OBVIOUS
  <2>2. Shows(u, st) /\ Shows(u, st)'
    BY <1>2, <1>5, <1>6, <1>9, <2>1, Waiting, WaitingNext
  <2> QED BY <1>5, <1>7, <2>2, Unseen
<1> QED BY <1>8, <1>9

LEMMA FreshOK ==
  /\ FreshTable \in [Pages -> [frame : Nat, write : BOOLEAN, valid : BOOLEAN]]
  /\ \A p \in Pages : FreshTable[p].frame = Frame(p) /\ (FreshTable[p].write <=> p \notin CodePages)
  /\ FreshTable[StackPage].valid
<1>1. ASSUME NEW p \in Pages
      PROVE  /\ FreshTable[p] \in [frame : Nat, write : BOOLEAN, valid : BOOLEAN]
             /\ FreshTable[p].frame = Frame(p) /\ FreshTable[p].write = (p \notin CodePages)
             /\ FreshTable[p].valid = (~DemandPaging \/ p \in {HeapCount, StackPage})
  <2>1. Frame(p) \in Nat
    BY Sizes DEF Frame
  <2>2. PICK w \in BOOLEAN, v \in BOOLEAN :
          w = (p \notin CodePages) /\ v = (~DemandPaging \/ p \in {HeapCount, StackPage})
    OBVIOUS
  <2>3. FreshTable[p] = [frame |-> Frame(p), write |-> w, valid |-> v]
    BY <2>2 DEF FreshTable
  <2>4. [frame |-> Frame(p), write |-> w, valid |-> v] \in [frame : Nat, write : BOOLEAN, valid : BOOLEAN]
    BY <2>1
  <2> QED BY <2>2, <2>3, <2>4
<1>2. FreshTable = [p \in Pages |-> FreshTable[p]]
  BY DEF FreshTable
<1>3. FreshTable[StackPage].valid
  BY <1>1, Sizes
<1> QED BY <1>1, <1>2, <1>3

LEMMA EntryPushed ==
  ASSUME NEW M \in [Memory -> Nat]
  PROVE  /\ Put(M, Cell(StackBase), Entry) \in [Memory -> Nat]
         /\ Put(M, Cell(StackBase), Entry)[Cell(StackBase)] = Entry
<1>1. StackBase \in StackBase .. LastWord
  BY Sizes DEF LastWord
<1>2. Cell(StackBase) \in Memory
  BY <1>1, FrameWords
<1>3. Entry \in Nat
  BY Sizes
<1> QED BY <1>2, <1>3, PutIs

\* A program is loaded where the last one is dead.
LEMMA Loading ==
  ASSUME MachineInv, Dead, NEW p \in Programs, Load(p), NEW m, NEW i, NEW s, NEW q, NEW M \in [Memory -> Nat],
         cpu = [mode |-> m, ip |-> i, sp |-> s, ptlr |-> q, mem |-> M, fault |-> NoFault], m = "kernel"
  PROVE  Step
<1>1. PICK N \in [Memory -> Nat] : N = Put(M, Cell(StackBase), Entry) /\ N[Cell(StackBase)] = Entry
  BY EntryPushed
<1>2. Address(Frame(StackPage), StackBase) = Cell(StackBase) /\ StackBase \in StackBase .. LastWord + 1
      /\ StackBase \in Int /\ StackBase # LastWord + 1
  <2>1. StackBase \in StackBase .. LastWord
    BY Sizes DEF LastWord
  <2> QED BY <2>1, FrameWords, Sizes
<1>3. PICK k \in Int : k = Return(0) /\ k \notin {0, Vector(0)}
  BY Vectors, Sizes DEF Return, Vector, InstructionSize
<1>4. cpu' = Cpu("kernel", k, StackBase, N, NoFault)
  <2>1. cpu' = [cpu EXCEPT !.ip = Return(0), !.sp = StackBase, !.ptlr = StackPage + 1,
                          !.mem[Cell(StackBase)] = Entry]
    BY <1>2 DEF Load
  <2>2. [cpu EXCEPT !.ip = Return(0), !.sp = StackBase, !.ptlr = StackPage + 1,
                    !.mem[Cell(StackBase)] = Entry]
          = Cpu("kernel", k, StackBase, N, NoFault)
    <3>1. PICK t, a, w : t = StackPage + 1 /\ a = Cell(StackBase) /\ w = Entry
      OBVIOUS
    <3>2. [cpu EXCEPT !.ip = k, !.sp = StackBase, !.ptlr = t, !.mem[a] = w]
            = [[[[cpu EXCEPT !.ip = k] EXCEPT !.sp = StackBase] EXCEPT !.ptlr = t] EXCEPT !.mem[a] = w]
      OBVIOUS
    <3>3. [[[cpu EXCEPT !.ip = k] EXCEPT !.sp = StackBase] EXCEPT !.ptlr = t]
            = Cpu("kernel", k, StackBase, M, NoFault)
      <4> DEFINE C(x, y, z) == [mode |-> m, ip |-> x, sp |-> y, ptlr |-> z, mem |-> M, fault |-> NoFault]
      <4>1. /\ [C(i, s, q) EXCEPT !.ip = k] = C(k, s, q)
            /\ [C(k, s, q) EXCEPT !.sp = StackBase] = C(k, StackBase, q)
            /\ [C(k, StackBase, q) EXCEPT !.ptlr = t] = C(k, StackBase, t)
        OBVIOUS
      <4>2. cpu = C(i, s, q)
        OBVIOUS
      <4>3. C(k, StackBase, t) = Cpu("kernel", k, StackBase, M, NoFault)
        BY <3>1 DEF Cpu
      <4> HIDE DEF C
      <4> QED BY ONLY <4>1, <4>2, <4>3, Zenon
    <3>4. [Cpu("kernel", k, StackBase, M, NoFault) EXCEPT !.mem[a] = w]
            = Cpu("kernel", k, StackBase, Put(M, a, w), NoFault)
      BY DEF Cpu, Put
    <3> QED BY ONLY <1>1, <1>3, <3>1, <3>2, <3>3, <3>4, Zenon
  <2> QED BY ONLY <2>1, <2>2, Zenon
<1>5. prog' = p /\ pt' = FreshTable /\ Served
  BY DEF Load, Served
<1>6. TableOK'
  BY <1>5, FreshOK DEF TableOK
<1>7. Waits(k, StackBase, N)'
  BY <1>2, <1>3, <1>4 DEF Waits
<1>8. Shows(Entry, StackOf(N, StackBase - 1))'
  BY <1>1, <1>2, <1>6, <1>7, WaitingNext
<1>9. StackOf(N, StackBase - 1) = <<>>
  <2>1. PICK r \in StackBase - 1 .. LastWord : r = StackBase - 1 /\ r - StackBase + 1 = 0
    BY Sizes DEF LastWord
  <2>2. StackOf(N, r) \in Seq(Nat) /\ Len(StackOf(N, r)) = 0
    BY <2>1, StackIs
  <2> QED BY <2>1, <2>2
<1>10. Good
  BY <1>2, <1>5, <1>6, <1>7 DEF MachineInv, Held, Good
<1>11. Alone!Exec
  BY <1>5, <1>8, <1>9 DEF Alone!Exec, Alone!Goto, Shows
<1> QED BY <1>10, <1>11 DEF Step, Alone!Next

LEMMA StepBoot ==
  ASSUME MachineInv, Boot
  PROVE  Step
<1>1. cpu.mode = "kernel" /\ cpu.ip = 0
  BY DEF Boot
<1>2. PICK i, s \in Int, M \in [Memory -> Nat] : Held(i, s, M)
  BY DEF MachineInv
<1>3. ~Runs(i, s, M) /\ ~Faulted(s, M) /\ ~Waits(i, s, M)
  BY <1>1, Vectors DEF Runs, Faulted, Waits, Cpu
<1>4. Booting(M)
  BY <1>2, <1>3 DEF Held
<1>5. Dead
  BY <1>1 DEF Dead
<1> QED BY <1>4, <1>5, Loading DEF Boot, Booting

LEMMA StepKill ==
  ASSUME MachineInv, Kill
  PROVE  Step
<1>1. InHandler(0) /\ Fatal
  BY DEF Kill
<1>2. PICK s \in Int, M \in [Memory -> Nat] : cpu = Cpu("kernel", Vector(0), s, M, NoFault)
  BY <1>1, Entered
<1>3. Dead
  BY <1>1 DEF Dead, AtFault
<1> QED BY <1>2, <1>3, Loading DEF Kill, Cpu

LEMMA StepPageIn ==
  ASSUME MachineInv, PageIn, KernelIndex(cpu.sp + 1) = MachineIndex(cpu.sp + 1)
  PROVE  Step
<1>1. InHandler(0) /\ ~Fatal
  BY DEF PageIn
<1>2. PICK s \in Int, M \in [Memory -> Nat] :
           cpu = Cpu("kernel", Vector(0), s, M, NoFault) /\ cpu.sp = s /\ cpu.mem = M /\ Faulted(s, M)
  BY <1>1, Entered
<1>3. s \in StackBase - 1 .. LastWord /\ ex.eip \in Nat
  BY <1>1, <1>2 DEF Faulted
<1>4. Shows(ex.eip, StackOf(M, s)) /\ TableOK
  BY <1>1, <1>2, Faulting DEF MachineInv
<1>5. KernelIndex(s + 1) = MachineIndex(s + 1)
  BY <1>2
<1>6. prog' = prog /\ ex' = ex /\ (prog \in Programs)' /\ Served
  BY DEF PageIn, MachineInv, Served
<1>7. TableOK'
  <2>1. pt' = [p \in Pages |->
              IF p = ex.epn \/ {p, ex.epn} \subseteq HeapPages
              THEN [pt[p] EXCEPT !.valid = TRUE] ELSE pt[p]]
    BY DEF PageIn
  <2>2. ASSUME NEW p \in Pages
        PROVE  /\ pt[p] \in [frame : Nat, write : BOOLEAN, valid : BOOLEAN]
               /\ pt'[p] = [pt[p] EXCEPT !.valid = TRUE] \/ pt'[p] = pt[p]
    BY <1>4, <2>1 DEF TableOK
  <2>3. ASSUME NEW p \in Pages
        PROVE  /\ pt'[p] \in [frame : Nat, write : BOOLEAN, valid : BOOLEAN]
               /\ pt'[p].frame = pt[p].frame /\ pt'[p].write = pt[p].write
               /\ pt[p].valid => pt'[p].valid
    BY <2>2
  <2>4. pt' \in [Pages -> [frame : Nat, write : BOOLEAN, valid : BOOLEAN]]
    BY <2>1, <2>3
  <2> QED BY <1>4, <2>3, <2>4, Sizes DEF TableOK
<1>8. PICK k \in Int : k = Return(0) /\ k \notin {0, Vector(0)}
  BY Vectors, Sizes DEF Return, Vector, InstructionSize
<1>9. PICK r \in Int : r = s + 1 /\ r \in StackBase .. LastWord + 1 /\ r - 1 = s
  BY <1>3, Sizes
<1>10. cpu' = IF PageOf(r) \notin Pages THEN [cpu EXCEPT !.sp = r, !.ip = k]
              ELSE [cpu EXCEPT !.sp = r, !.ip = k, !.mem[Physical(r)] = ex.eip]
  BY <1>2, <1>5, <1>8, <1>9 DEF PageIn
<1>11. CASE r = LastWord + 1
  <2>1. cpu' = [cpu EXCEPT !.sp = r, !.ip = k]
    <3>1. PageOf(r) \notin Pages
      BY <1>11, InStackPage, Sizes
    <3> QED BY <1>10, <3>1
  <2>2. cpu' = Cpu("kernel", k, r, M, NoFault)
    BY <1>2, <2>1 DEF Cpu
  <2>3. Waits(k, r, M)'
    BY <1>8, <1>9, <2>2 DEF Waits
  <2>4. Good /\ Dead'
    BY <1>6, <1>7, <1>11, <2>3, WaitingNext DEF MachineInv, Held, Good
  <2>5. Len(StackOf(M, s)) = PageSize
    <3>1. s = LastWord
      BY <1>3, <1>9, <1>11, Sizes
    <3>2. s - StackBase + 1 = PageSize
      BY <1>3, <3>1, Full
    <3> QED BY <1>3, <3>2, StackIs
  <2> QED BY <1>4, <1>6, <2>4, <2>5, Dies
<1>12. CASE r # LastWord + 1
  <2>1. r \in StackBase .. LastWord /\ s \in StackBase - 1 .. LastWord - 1
    BY <1>9, <1>12, Sizes
  <2>2. PageOf(r) \in Pages /\ Physical(r) = Cell(r)
    BY <1>4, <2>1, StackFrame DEF TableOK, Physical
  <2>3. PICK N \in [Memory -> Nat] :
          N = Put(M, Cell(r), ex.eip) /\ N[Cell(r)] = ex.eip /\ StackOf(N, s) = StackOf(M, s)
    BY <1>3, <1>9, <2>1, Above
  <2>4. cpu' = [cpu EXCEPT !.sp = r, !.ip = k, !.mem[Cell(r)] = ex.eip]
    BY <1>10, <2>2
  <2>5. cpu' = Cpu("kernel", k, r, N, NoFault)
    BY <1>2, <2>3, <2>4 DEF Cpu, Put
  <2>6. Waits(k, r, N)'
    BY <1>8, <1>9, <2>5 DEF Waits
  <2>7. Shows(N[Cell(r)], StackOf(N, r - 1))'
    BY <1>7, <1>12, <2>6, WaitingNext
  <2>8. PICK u, st : u = ex.eip /\ st = StackOf(M, s)
    OBVIOUS
  <2>9. Shows(u, st) /\ Shows(u, st)'
    BY <1>4, <1>9, <2>3, <2>7, <2>8
  <2>10. Good
    BY <1>6, <1>7, <2>6 DEF MachineInv, Held, Good
  <2> QED BY <1>6, <2>9, <2>10, Unseen
<1> QED BY <1>11, <1>12

LEMMA StepIret ==
  ASSUME MachineInv, Iret
  PROVE  Step
<1>1. PICK n \in Nat : Leaving(n)
  BY DEF Iret
<1>2. PICK i, s \in Int, M \in [Memory -> Nat] : Held(i, s, M)
  BY DEF MachineInv
<1>3. cpu.mode = "kernel" /\ cpu.ip = Return(n) /\ Return(n) \notin {0, Vector(0)}
  BY <1>1, Vectors DEF Leaving
<1>4. Waits(i, s, M)
  <2>1. ~Runs(i, s, M) /\ ~Faulted(s, M) /\ ~Booting(M)
    BY <1>3 DEF Runs, Faulted, Booting, Cpu
  <2> QED BY <1>2, <2>1 DEF Held
<1>5. cpu = Cpu("kernel", i, s, M, NoFault) /\ s \in StackBase .. LastWord + 1 /\ TableOK
  BY <1>4 DEF Waits, MachineInv
<1>6. Retire(RetDo(Cpu("user", i, s, M, NoFault)))
  <2>1. [cpu EXCEPT !.mode = "user"] = Cpu("user", i, s, M, NoFault)
    BY <1>5 DEF Cpu
  <2> QED BY <2>1 DEF Iret
<1>7. CASE s = LastWord + 1
  <2>1. PICK f : f = BadAddress(s) /\ f # NoFault /\ f.code # PageFault
    BY Faults
  <2>2. Retire(Cpu("user", i, s, M, f))
    BY <1>5, <1>6, <1>7, <2>1, PoppingPast
  <2>3. Good /\ prog' = prog /\ Dead'
    BY <2>1, <2>2, RetireFatal
  <2>4. Dead
    BY <1>4, <1>5, <1>7, Waiting
  <2> QED BY <2>3, <2>4, UnseenDead
<1>8. CASE s # LastWord + 1
  <2>1. s \in StackBase .. LastWord
    BY <1>5, <1>8, Sizes
  <2>2. PICK r \in StackBase - 1 .. LastWord : r = s - 1 /\ r # LastWord
    BY <2>1, Sizes
  <2>3. PICK v \in Nat : v = M[Cell(s)]
    BY <2>1, StackPopped
  <2>4. RetDo(Cpu("user", i, s, M, NoFault)) = Cpu("user", M[Cell(s)], s - 1, M, NoFault)
    BY <1>5, <2>1, Popping
  <2>5. Retire(Cpu("user", v, r, M, NoFault))
    BY <1>6, <2>2, <2>3, <2>4
  <2>6. Good /\ prog' = prog /\ Shows(v, StackOf(M, r))'
    BY <2>2, <2>5, RetireWell
  <2>7. Shows(M[Cell(s)], StackOf(M, s - 1))
    BY <1>4, <1>5, <1>8, Waiting
  <2>8. PICK st : st = StackOf(M, r)
    OBVIOUS
  <2>9. Shows(v, st) /\ Shows(v, st)'
    BY <2>2, <2>3, <2>6, <2>7, <2>8
  <2> QED BY <2>6, <2>9, Unseen
<1> QED BY <1>7, <1>8

LEMMA MachineSteps ==
  ASSUME Allowed, MachineInv, OwnStack, [Next]_vars,
         AddSp => cpu.sp < LastWord,
         PageIn => KernelIndex(cpu.sp + 1) = MachineIndex(cpu.sp + 1)
  PROVE  Step
<1>1. CASE Execute
  BY <1>1, StepFetchFault, StepNullInstruction, StepIllegal, StepAlu, StepAddSp, StepDivide,
     StepMov, StepJump, StepStack, StepCall, StepRet, StepTrap DEF Execute
<1>2. CASE RequestDisk \/ RequestConsole
  BY <1>2, SameView DEF RequestDisk, RequestConsole, Requested, Served
<1>3. CASE HandlerDone \/ Boot \/ Kill \/ PageIn \/ Iret
  BY <1>3, StepHandlerDone, StepBoot, StepKill, StepPageIn, StepIret
<1>4. CASE UNCHANGED vars
  BY <1>4, SameView DEF vars, Served
<1> QED BY <1>1, <1>2, <1>3, <1>4 DEF Next, Kernel

LEMMA TameSteps == Allowed /\ Tame /\ MachineInv /\ [Next]_vars => Step
<1> SUFFICES ASSUME Allowed, Tame, MachineInv, [Next]_vars PROVE Step
  OBVIOUS
<1>1. AddSp => cpu.sp < LastWord
  BY DEF AddSp, Is, Tame, LastWord
<1>2. PageIn => KernelIndex(cpu.sp + 1) = MachineIndex(cpu.sp + 1)
  BY DEF PageIn, Tame, AtFault
<1> QED BY <1>1, <1>2, MachineSteps DEF Tame

LEMMA MachineInit == Init => MachineInv /\ Alone!Init
<1> SUFFICES ASSUME Init PROVE MachineInv /\ Alone!Init
  OBVIOUS
<1>1. PICK M \in [Memory -> Nat] :
        cpu = [mode |-> "kernel", ip |-> 0, sp |-> 0, ptlr |-> 0, mem |-> M, fault |-> NoFault]
  BY DEF Init, Memory
<1>2. Booting(M) /\ prog \in Programs /\ pt = FreshTable
  BY <1>1 DEF Booting, Init
<1>3. TableOK
  BY <1>2, FreshOK DEF TableOK
<1>4. MachineInv
  BY <1>2, <1>3 DEF MachineInv, Held
<1>5. Dead
  BY <1>1 DEF Dead
<1>6. Alone!Init
  BY <1>2, <1>5 DEF Alone!Init
<1> QED BY <1>4, <1>6

(* Whatever the memory layout, the clocks and the programs, so long as those are
   what the compilers make and keep to their own stack: the machine and the kernel
   run them as if each were alone, every instruction once and in order, with its own
   stack, whatever interrupts, system calls and page faults come between
   (machine.c:241-268, 341-384; exhandler.spl). *)
THEOREM RunsImplemented ==
  ASSUME Allowed
  PROVE  Spec /\ []Tame => RunsAlone
<1>1. Tame /\ MachineInv /\ [Next]_vars => MachineInv' /\ [Alone!Next]_(Alone!uvars)
  BY TameSteps DEF Step, Good
<1> QED BY <1>1, MachineInit, PTL DEF Spec, RunsAlone, Alone!Spec

(***************************************************************************)
(* The devices, as long as SP stays in the stack.                          *)
(***************************************************************************)
LEMMA PushedPast ==
  ASSUME MachineInv, AddSp, cpu.sp >= LastWord
  PROVE  ~InStack'
<1>0. User
  BY DEF AddSp, Is
<1>1. PICK i, j \in Nat, s \in StackBase - 1 .. LastWord, M \in [Memory -> Nat] : Executes(i, j, s, M)
  BY <1>0, Executing
<1> USE DEF Executes
<1>2. PICK r \in Int : r = s + 1 /\ r > LastWord /\ r >= StackBase - 1 /\ r + 1 > LastWord
  BY <1>1, Sizes
<1>3. [Ahead EXCEPT !.sp = @ + 1] = Cpu("user", j, r, M, NoFault)
  BY <1>1, <1>2 DEF Cpu
<1>4. PICK c : c = Cpu("user", j, r, M, NoFault)
  OBVIOUS
<1>5. Retire(c) /\ c.fault = NoFault /\ c.mode = "user"
  BY <1>3, <1>4 DEF AddSp, Cpu
<1>6. PICK d : d = (IF Due = 0 THEN c ELSE InterruptDo(c, Due)) /\ Enter(d)
  BY <1>5 DEF Retire, PostExecute
<1>7. CASE Due = 0
  <2>1. cpu' = Cpu("user", j, r, M, NoFault)
    BY <1>4, <1>6, <1>7, EnterIs
  <2>2. cpu'.sp = r /\ cpu'.mode = "user"
    BY <2>1 DEF Cpu
  <2> QED BY <1>2, <2>2, Sizes DEF InStack, LastWord
<1>8. CASE Due # 0
  <2>1. r >= LastWord
    BY <1>2, Sizes
  <2>2. d = Cpu("user", j, r + 1, M, BadAddress(r + 1))
    BY <1>1, <1>2, <1>4, <1>6, <1>8, <2>1, Interrupting
  <2>3. PICK f : f = BadAddress(r + 1) /\ f # NoFault
    BY <1>2, Faults
  <2>4. cpu' = Cpu("kernel", Vector(0), r + 1, M, NoFault)
    BY <1>6, <2>2, <2>3, EnterIs
  <2>5. cpu'.sp = r + 1 /\ cpu'.ip # 0
    BY <2>4, Vectors DEF Cpu
  <2> QED BY <1>2, <2>5, Sizes DEF InStack, LastWord
<1> QED BY <1>7, <1>8

LEMMA Halting ==
  ASSUME MachineInv, PageIn, KernelIndex(cpu.sp + 1) # MachineIndex(cpu.sp + 1)
  PROVE  cpu'.mode = "halted" /\ Served
<1>1. cpu' = [cpu EXCEPT !.mode = "halted"] /\ InHandler(0) /\ Served
  BY DEF PageIn, Served
<1>2. PICK s \in Int, M \in [Memory -> Nat] : cpu = Cpu("kernel", Vector(0), s, M, NoFault)
  BY <1>1, Entered
<1> QED BY <1>1, <1>2 DEF Cpu

LEMMA Halted ==
  ASSUME cpu.mode = "halted", [Next]_vars
  PROVE  cpu'.mode = "halted" /\ Served
<1>1. ~User /\ \A n : ~InHandler(n) /\ ~Leaving(n)
  BY DEF User, InHandler, Leaving
<1>2. ~Next
  BY <1>1 DEF Next, Execute, Kernel, FetchFault, NullInstruction, Illegal, Alu, AddSp, Divide, Mov,
     Jump, Stack, Call, Ret, Trap, Is, RequestDisk, RequestConsole, HandlerDone, Boot, Kill, PageIn, Iret
<1> QED BY <1>2 DEF vars, Served

LEMMA ServedSteps ==
  ASSUME DeviceInv, ServedOnce, Served
  PROVE  ServedOnce'
<1>1. /\ disk \in [busy : BOOLEAN, wait : Nat, op : {"load", "store"}]
      /\ console \in [busy : BOOLEAN, wait : Nat]
      /\ DiskInt # ConsoleInt /\ DiskInt # 0 /\ ConsoleInt # 0
  BY DEF DeviceInv, DeviceOK, DiskInt, ConsoleInt
<1>2. /\ due[DiskInt] = IF disk.busy THEN 1 ELSE 0
      /\ due[ConsoleInt] = IF console.busy THEN 1 ELSE 0
      /\ DOMAIN due = {DiskInt, ConsoleInt}
  BY <1>1 DEF ServedOnce
<1>3. SUFFICES /\ due' = [n \in {DiskInt, ConsoleInt} |-> due'[n]]
               /\ due'[DiskInt] = IF disk'.busy THEN 1 ELSE 0
               /\ due'[ConsoleInt] = IF console'.busy THEN 1 ELSE 0
  BY <1>1 DEF ServedOnce
<1>4. CASE UNCHANGED <<disk, console, due>>
  BY <1>1, <1>2, <1>4 DEF ServedOnce
<1>5. CASE Requested
  <2>1. DeviceOK
    BY DEF DeviceInv
  <2> QED BY <1>1, <1>2, <1>5, <2>1, RequestEffect DEF DeviceOK
<1>6. CASE Served!3
  <2>1. /\ disk'.busy = (disk.busy /\ Due # DiskInt)
        /\ console'.busy = (console.busy /\ Due # ConsoleInt)
    BY <1>1, <1>6
  <2>2. \A n \in {DiskInt, ConsoleInt} :
          due'[n] = IF Due = n /\ due[n] >= 0 THEN due[n] - 1 ELSE due[n]
    BY <1>6
  <2>3. (Due = DiskInt => disk.busy) /\ (Due = ConsoleInt => console.busy)
    BY DEF Due, DiskInt, ConsoleInt, TimerInt
  <2>4. due' = [n \in {DiskInt, ConsoleInt} |-> due'[n]]
    BY <1>6
  <2>5. due'[DiskInt] = IF disk'.busy THEN 1 ELSE 0
    <3>1. due'[DiskInt] = IF Due = DiskInt /\ due[DiskInt] >= 0 THEN due[DiskInt] - 1 ELSE due[DiskInt]
      BY <2>2
    <3>2. CASE disk.busy /\ Due = DiskInt
      <4>1. due[DiskInt] = 1 /\ ~disk'.busy
        BY <1>2, <2>1, <3>2
      <4> QED BY <3>1, <3>2, <4>1
    <3>3. CASE disk.busy /\ Due # DiskInt
      <4>1. due[DiskInt] = 1 /\ disk'.busy
        BY <1>2, <2>1, <3>3
      <4> QED BY <3>1, <3>3, <4>1
    <3>4. CASE ~disk.busy
      <4>1. due[DiskInt] = 0 /\ ~disk'.busy /\ Due # DiskInt
        BY <1>2, <2>1, <2>3, <3>4
      <4> QED BY <3>1, <4>1
    <3> QED BY <3>2, <3>3, <3>4
  <2>6. due'[ConsoleInt] = IF console'.busy THEN 1 ELSE 0
    <3>1. due'[ConsoleInt] = IF Due = ConsoleInt /\ due[ConsoleInt] >= 0 THEN due[ConsoleInt] - 1 ELSE due[ConsoleInt]
      BY <2>2
    <3>2. CASE console.busy /\ Due = ConsoleInt
      <4>1. due[ConsoleInt] = 1 /\ ~console'.busy
        BY <1>2, <2>1, <3>2
      <4> QED BY <3>1, <3>2, <4>1
    <3>3. CASE console.busy /\ Due # ConsoleInt
      <4>1. due[ConsoleInt] = 1 /\ console'.busy
        BY <1>2, <2>1, <3>3
      <4> QED BY <3>1, <3>3, <4>1
    <3>4. CASE ~console.busy
      <4>1. due[ConsoleInt] = 0 /\ ~console'.busy /\ Due # ConsoleInt
        BY <1>2, <2>1, <2>3, <3>4
      <4> QED BY <3>1, <4>1
    <3> QED BY <3>2, <3>3, <3>4
  <2> QED BY <2>4, <2>5, <2>6
<1> QED BY <1>4, <1>5, <1>6 DEF Served

(* Each request a device takes is carried out once and the device then released, as
   long as SP stays in the page of the stack, whatever the memory layout, the clocks,
   the requests of the kernel and the programs of the compilers, one that makes the
   kernel stop the machine among them (machine.c:341-384). *)
THEOREM RequestsServedOnce ==
  ASSUME Allowed
  PROVE  Spec => ServedOnceInStack
<1> DEFINE I == (cpu.mode = "halted" \/ MachineInv) /\ DeviceInv /\ ServedOnce
<1>1. Init => I
  <2>1. Init => ServedOnce
    BY DEF Init, ServedOnce
  <2> QED BY <2>1, MachineInit, InitDevices
<1>2. I /\ InStack /\ InStack' /\ [Next]_vars => I'
  <2> SUFFICES ASSUME I, InStack, InStack', [Next]_vars PROVE I'
    OBVIOUS
  <2>1. (cpu'.mode = "halted" \/ MachineInv') /\ Served
    <3>1. CASE cpu.mode = "halted"
      BY <3>1, Halted
    <3>2. CASE MachineInv /\ PageIn /\ KernelIndex(cpu.sp + 1) # MachineIndex(cpu.sp + 1)
      BY <3>2, Halting
    <3>3. CASE MachineInv /\ ~(PageIn /\ KernelIndex(cpu.sp + 1) # MachineIndex(cpu.sp + 1))
      <4>1. AddSp => cpu.sp < LastWord
        <5>1. ASSUME AddSp PROVE cpu.sp \in Int
          <6>1. User
            BY <5>1 DEF AddSp, Is
          <6>2. PICK i, j \in Nat, s \in StackBase - 1 .. LastWord, M \in [Memory -> Nat] :
                  Executes(i, j, s, M)
            BY <3>3, <6>1, Executing
          <6> QED BY <6>2 DEF Executes
        <5>2. ~(AddSp /\ cpu.sp >= LastWord)
          BY <3>3, PushedPast
        <5> QED BY <5>1, <5>2, Sizes
      <4>2. Step
        BY <3>3, <4>1, MachineSteps DEF InStack
      <4> QED BY <4>2 DEF Step, Good
    <3> QED BY <3>1, <3>2, <3>3
  <2>2. DeviceInv'
    BY NextDevices
  <2>3. ServedOnce'
    BY <2>1, ServedSteps
  <2> QED BY <2>1, <2>2, <2>3
<1>3. I => ServedOnce
  OBVIOUS
<1> HIDE DEF I
<1> QED BY <1>1, <1>2, <1>3, PTL DEF Spec, ServedOnceInStack
================================================================================
