----------------------------- MODULE XsmMachine -----------------------------
(* The XSM machine (src/xsm): its modes, address translation, exceptions,
   interrupts, timer and devices, executing a user program one instruction at a
   time, together with what the kernel does when the machine enters it.

   Instructions are records [op, arg]; the opcodes that only touch registers
   are one kind, "ALU", whose argument is the class of the register it names.
   Registers R and BP hold data nothing here depends on; SP, IP, PTLR and the
   exception registers are modelled.  Addresses, pages and the page table are
   the machine's, with PageSize words to a page. *)
EXTENDS Integers, Sequences

CONSTANTS PageSize,        \* XSM_PAGE_SIZE
          HeapCount,       \* pages of heap, before the code
          CodeCount,       \* pages of code; one page of stack follows
          TimerOption, DiskOption, ConsoleOption,   \* _theoptions
          Programs,        \* the programs the kernel may load
          DemandPaging     \* are pages brought in by page faults?

ASSUME MachineAssumption ==
  /\ PageSize \in Nat \ {0} /\ PageSize % 2 = 0
  /\ HeapCount \in Nat /\ CodeCount \in Nat \ {0}
  /\ TimerOption \in Nat /\ DiskOption \in Nat \ {0} /\ ConsoleOption \in Nat \ {0}
  /\ DemandPaging \in BOOLEAN

VARIABLES prog,     \* the program in the code pages
          cpu,      \* [mode, ip, sp, ptlr, mem, fault]
          ex,       \* the exception registers [eip, ec, epn, ema]
          pt,       \* the page table PTBR points to
          timer,    \* _thecpu.timer
          disk,     \* [busy, wait, op]
          console,  \* [busy, wait]
          due       \* ghost: device requests taken and not yet carried out

vars == <<prog, cpu, ex, pt, timer, disk, console, due>>

InstructionSize == 2

HeapPages == 0 .. HeapCount - 1
CodePages == HeapCount .. HeapCount + CodeCount - 1
StackPage == HeapCount + CodeCount
Pages     == 0 .. StackPage
Frame(p)  == StackPage + 1 + p
PageOf(a) == a \div PageSize
Address(f, a) == f * PageSize + (a % PageSize)
Entry     == HeapCount * PageSize
StackBase == StackPage * PageSize

\* exception.h: the exception codes
PageFault == 0
IllInstr  == 1
IllMem    == 2
Arith     == 3

NoFault        == [code |-> -1, epn |-> -1, ema |-> -1]
Raise(code)    == [NoFault EXCEPT !.code = code]
MissingPage(p) == [NoFault EXCEPT !.code = PageFault, !.epn = p]
BadAddress(a)  == [NoFault EXCEPT !.code = IllMem, !.ema = a]

Vector(n) == (2 * n + 2) * PageSize
Return(n) == Vector(n) + InstructionSize   \* the handler's IRET

TimerInt   == 1
DiskInt    == 2
ConsoleInt == 3
Software   == 4 .. 18

User   == cpu.mode = "user"
InHandler(n) == cpu.mode = "kernel" /\ cpu.ip = Vector(n)
Leaving(n)   == cpu.mode = "kernel" /\ cpu.ip = Return(n)
-----------------------------------------------------------------------------
(* Address translation, for a cpu in user mode. *)
Translated(c, a, write) ==
  LET p == PageOf(a)
  IN  IF p \notin 0 .. c.ptlr - 1 THEN BadAddress(a)
      ELSE IF ~pt[p].valid THEN MissingPage(p)
      ELSE IF write /\ ~pt[p].write THEN BadAddress(a)
      ELSE NoFault

Physical(a) == Address(pt[PageOf(a)].frame, a)

\* An access to address a, then the effect: or the exception it raises.
Access(c, a, write, effect) ==
  LET f == Translated(c, a, write)
  IN  IF f = NoFault THEN effect ELSE [c EXCEPT !.fault = f]

\* SP is incremented before the address is translated.
PushDo(c, w) ==
  LET d == [c EXCEPT !.sp = @ + 1]
  IN  Access(d, d.sp, TRUE, [d EXCEPT !.mem[Physical(d.sp)] = w])

PopDo(c) == Access(c, c.sp, FALSE, [c EXCEPT !.sp = @ - 1])

Top(c) == c.mem[Physical(c.sp)]

RetDo(c) == Access(c, c.sp, FALSE, [c EXCEPT !.sp = @ - 1, !.ip = Top(c)])

CallDo(c, target) ==
  LET d == PushDo(c, c.ip)
  IN  IF d.fault = NoFault THEN [d EXCEPT !.ip = target] ELSE d

InterruptDo(c, n) ==
  LET d == CallDo(c, Vector(n))
  IN  IF d.fault = NoFault THEN [d EXCEPT !.mode = "kernel"] ELSE d

\* Mutant: EIP is past the instruction, too.
EnterPast(c) ==
  IF c.fault = NoFault
  THEN cpu' = c /\ UNCHANGED ex
  ELSE /\ cpu' = [c EXCEPT !.mode = "kernel", !.ip = Vector(0), !.fault = NoFault]
       /\ ex' = [eip |-> c.ip, ec |-> c.fault.code,
                 epn |-> c.fault.epn, ema |-> c.fault.ema]

\* The exception handler is entered without a push; ip is past the instruction.
Enter(c) ==
  IF c.fault = NoFault
  THEN cpu' = c /\ UNCHANGED ex
  ELSE /\ cpu' = [c EXCEPT !.mode = "kernel", !.ip = Vector(0), !.fault = NoFault]
       /\ ex' = [eip |-> c.ip - InstructionSize, ec |-> c.fault.code,
                 epn |-> c.fault.epn, ema |-> c.fault.ema]

(* After an instruction that ends in user mode: the clocks run, and at most one
   interrupt is dispatched.  A device's transfer is done, and the timer set
   again or the device released, around the dispatch, which may itself fault. *)
Left(w) == IF w > 0 THEN w - 1 ELSE w
Ticked  == IF timer >= 0 THEN timer - 1 ELSE timer

\* Mutant: a device is looked at only in the instant its wait ends.
DueInstantly == IF Ticked = 0 THEN TimerInt
                ELSE IF disk.wait = 1 THEN DiskInt
                ELSE IF console.wait = 1 THEN ConsoleInt ELSE 0

Due == IF Ticked = 0 THEN TimerInt
       ELSE IF disk.busy
       THEN IF Left(disk.wait) = 0 THEN DiskInt ELSE 0
       ELSE IF console.busy /\ Left(console.wait) = 0 THEN ConsoleInt ELSE 0

\* Mutants: the timer is not set again; the devices are not released.
PostExecuteOnce(c) ==
  LET d    == IF Due = 0 THEN c ELSE InterruptDo(c, Due)
      done(n) == Due = n /\ d.fault = NoFault
  IN  /\ timer' = Ticked
      /\ disk' = [disk EXCEPT !.wait = Left(@), !.busy = @ /\ ~done(DiskInt)]
      /\ console' = [console EXCEPT !.wait = Left(@), !.busy = @ /\ ~done(ConsoleInt)]
      /\ due' = [n \in {DiskInt, ConsoleInt} |->
                   IF Due = n /\ due[n] >= 0 THEN due[n] - 1 ELSE due[n]]
      /\ Enter(d)
PostExecuteKeeps(c) ==
  LET d    == IF Due = 0 THEN c ELSE InterruptDo(c, Due)
      done(n) == Due = n /\ d.fault = NoFault
  IN  /\ timer' = IF done(TimerInt) THEN TimerOption ELSE Ticked
      /\ disk' = [disk EXCEPT !.wait = Left(@)]
      /\ console' = [console EXCEPT !.wait = Left(@)]
      /\ due' = [n \in {DiskInt, ConsoleInt} |->
                   IF Due = n /\ due[n] >= 0 THEN due[n] - 1 ELSE due[n]]
      /\ Enter(d)

PostExecute(c) ==
  LET d    == IF Due = 0 THEN c ELSE InterruptDo(c, Due)
      done(n) == Due = n /\ d.fault = NoFault
  IN  /\ timer' = IF done(TimerInt) THEN TimerOption ELSE Ticked
      /\ disk' = [disk EXCEPT !.wait = Left(@), !.busy = @ /\ ~done(DiskInt)]
      /\ console' = [console EXCEPT !.wait = Left(@), !.busy = @ /\ ~done(ConsoleInt)]
      /\ due' = [n \in {DiskInt, ConsoleInt} |->
                   IF Due = n /\ due[n] >= 0 THEN due[n] - 1 ELSE due[n]]
      /\ Enter(d)

\* One turn of machine_run's loop, the instruction's effect on the cpu given.
Retire(c) ==
  /\ IF c.fault = NoFault /\ c.mode = "user"
     THEN PostExecute(c)
     ELSE Enter(c) /\ UNCHANGED <<timer, disk, console, due>>
  /\ UNCHANGED <<prog, pt>>
-----------------------------------------------------------------------------
(* The instructions of a user program.  cpu.ip is advanced first. *)
Fetched == Translated(cpu, cpu.ip, FALSE) = NoFault
Ahead   == [cpu EXCEPT !.ip = @ + InstructionSize]
Instr   == prog[cpu.ip]
Is(ops) == User /\ Fetched /\ cpu.ip \in DOMAIN prog /\ Instr.op \in ops

FetchFault ==
  /\ User /\ ~Fetched
  /\ Retire([Ahead EXCEPT !.fault = Translated(cpu, cpu.ip, FALSE)])

\* An empty word where the instruction should be: ip is set to the physical one.
NullInstruction ==
  /\ User /\ Fetched /\ cpu.ip \notin DOMAIN prog
  /\ Retire([cpu EXCEPT !.ip = Physical(cpu.ip) + InstructionSize,
                        !.fault = Raise(IllInstr)])

Illegal == Is({"BAD", "PRIV"}) /\ Retire([Ahead EXCEPT !.fault = Raise(IllInstr)])

\* Registers a user program may name: not the ports, and of PTBR, PTLR, EIP, EC,
\* EPN and EMA all but the first ("PTLR" stands for these).
UserRegister(class) == class \in {"gen", "PTLR"}

Alu ==
  /\ Is({"ALU", "NOP"})
  /\ IF Instr.op = "ALU" /\ ~UserRegister(Instr.arg)
     THEN Retire([Ahead EXCEPT !.fault = Raise(IllInstr)])
     ELSE IF Instr = [op |-> "ALU", arg |-> "PTLR"]
     THEN Retire([Ahead EXCEPT !.ptlr = @ - 1])
     ELSE Retire(Ahead)

AddSp == Is({"ADDSP"}) /\ Retire([Ahead EXCEPT !.sp = @ + 1])

Divide == /\ Is({"DIV"})
          /\ \/ Retire(Ahead)
             \/ Retire([Ahead EXCEPT !.fault = Raise(Arith)])

Mov ==
  /\ Is({"LD", "ST"})
  /\ LET store == Instr.op = "ST"
     IN  Retire(Access(Ahead, Instr.arg, store,
                       IF store THEN [Ahead EXCEPT !.mem[Physical(Instr.arg)] = 1]
                                ELSE Ahead))

Jump == /\ Is({"JMP", "JZ"})
        /\ \/ Retire([Ahead EXCEPT !.ip = Instr.arg])
           \/ Instr.op = "JZ" /\ Retire(Ahead)

Stack == /\ Is({"PUSH", "POP"})
         /\ Retire(IF Instr.op = "PUSH" THEN PushDo(Ahead, 0) ELSE PopDo(Ahead))

Call == Is({"CALL"}) /\ Retire(CallDo(Ahead, Instr.arg))
Ret  == Is({"RET"}) /\ Retire(RetDo(Ahead))
Trap == Is({"INT"}) /\ Retire(InterruptDo(Ahead, Instr.arg))
-----------------------------------------------------------------------------
(* The kernel, once entered at a vector.  It runs without translation, clocks
   and interrupts; its own stack and tables are other modules' subject. *)
KernelAt(n) == UNCHANGED <<timer, ex>> /\ cpu' = [cpu EXCEPT !.ip = Return(n)]

\* Mutant: the disk takes a request while it is at work.
RequestDiskBusy ==
  /\ \E n \in {0, TimerInt} \cup Software : InHandler(n)
  /\ \E op \in {"load", "store"} :
       disk' = [busy |-> TRUE, wait |-> DiskOption, op |-> op]
  /\ due' = [due EXCEPT ![DiskInt] = 1]
  /\ UNCHANGED <<prog, cpu, ex, pt, timer, console>>

\* LOAD, STORE: ignored while the disk is busy.  Not from a device's handler.
RequestDisk ==
  /\ \E n \in {0, TimerInt} \cup Software : InHandler(n)
  /\ ~disk.busy
  /\ \E op \in {"load", "store"} :
       disk' = [busy |-> TRUE, wait |-> DiskOption, op |-> op]
  /\ due' = [due EXCEPT ![DiskInt] = 1]
  /\ UNCHANGED <<prog, cpu, ex, pt, timer, console>>

\* IN, likewise.
RequestConsole ==
  /\ \E n \in {0, TimerInt} \cup Software : InHandler(n)
  /\ ~console.busy
  /\ console' = [busy |-> TRUE, wait |-> ConsoleOption]
  /\ due' = [due EXCEPT ![ConsoleInt] = 1]
  /\ UNCHANGED <<prog, cpu, ex, pt, timer, disk>>

HandlerDone ==
  /\ \E n \in {TimerInt, DiskInt, ConsoleInt} \cup Software : InHandler(n) /\ KernelAt(n)
  /\ UNCHANGED <<prog, pt, disk, console, due>>

\* The table of a new program: its first code page and its stack.
FreshTable == [p \in Pages |->
                 [frame |-> Frame(p), write |-> p \notin CodePages,
                  valid |-> ~DemandPaging \/ p \in {HeapCount, StackPage}]]

\* The next program, entered through an IRET from its own stack.
Load(p) ==
  /\ prog' = p
  /\ pt' = FreshTable
  /\ cpu' = [cpu EXCEPT !.ip = Return(0), !.sp = StackBase, !.ptlr = StackPage + 1,
                        !.mem[Address(Frame(StackPage), StackBase)] = Entry]
  /\ UNCHANGED <<ex, timer, disk, console, due>>

Boot == /\ cpu.mode = "kernel" /\ cpu.ip = 0
        /\ \E p \in Programs : Load(p)

\* exhandler.spl: a page fault outside heap and code, or any other exception.
Fatal == \/ ex.ec # PageFault
         \/ ex.epn \notin HeapPages /\ ex.epn * PageSize \notin DOMAIN prog

Kill == /\ InHandler(0) /\ Fatal
        /\ \E p \in Programs : Load(p)

\* The index of the table entry the kernel computes for a logical address, as
\* 2*SP/512, and the one the machine uses.
KernelIndex(a)  == (2 * a) \div PageSize
MachineIndex(a) == 2 * PageOf(a)

(* The page is mapped, EIP is stored above the top of the user's stack through
   the entry KernelIndex finds, and an IRET follows.  An odd index reads the
   entry's flags for a frame: no such memory, and the machine stops.  Above a
   full stack it is an entry after the table, and the IRET faults. *)
PageIn ==
  /\ InHandler(0) /\ ~Fatal
  /\ pt' = [p \in Pages |->
              IF p = ex.epn \/ {p, ex.epn} \subseteq HeapPages
              THEN [pt[p] EXCEPT !.valid = TRUE] ELSE pt[p]]
  /\ LET sp == cpu.sp + 1
     IN  cpu' = IF KernelIndex(sp) # MachineIndex(sp) THEN [cpu EXCEPT !.mode = "halted"]
                ELSE IF PageOf(sp) \notin Pages THEN [cpu EXCEPT !.sp = sp, !.ip = Return(0)]
                ELSE [cpu EXCEPT !.sp = sp, !.ip = Return(0), !.mem[Physical(sp)] = ex.eip]
  /\ UNCHANGED <<prog, ex, timer, disk, console, due>>

\* IRET changes the mode first, so it pops, and is counted, as user code.
Iret ==
  /\ \E n \in 0 .. 18 : Leaving(n)
  /\ Retire(RetDo([cpu EXCEPT !.mode = "user"]))

Init ==
  /\ prog \in Programs
  /\ pt = FreshTable
  /\ cpu = [mode |-> "kernel", ip |-> 0, sp |-> 0, ptlr |-> 0, fault |-> NoFault,
            mem |-> [a \in Frame(0) * PageSize .. (Frame(StackPage) + 1) * PageSize - 1 |-> 0]]
  /\ ex = [eip |-> 0, ec |-> 0, epn |-> -1, ema |-> -1]
  /\ timer = TimerOption
  /\ disk = [busy |-> FALSE, wait |-> 0, op |-> "load"]
  /\ console = [busy |-> FALSE, wait |-> 0]
  /\ due = [n \in {DiskInt, ConsoleInt} |-> 0]

Execute == \/ FetchFault \/ NullInstruction \/ Illegal \/ Alu \/ AddSp \/ Divide
           \/ Mov \/ Jump \/ Stack \/ Call \/ Ret \/ Trap

Kernel == \/ RequestDisk \/ RequestConsole \/ HandlerDone
          \/ Boot \/ Kill \/ PageIn \/ Iret

Next == Execute \/ Kernel

Spec == Init /\ [][Next]_vars

\* machine_run's loop takes the next instruction as long as the machine is on.
FairSpec == Spec /\ WF_vars(Next)
-----------------------------------------------------------------------------
TypeOK ==
  /\ prog \in Programs
  /\ cpu.mode \in {"user", "kernel", "halted"}
  /\ cpu.fault = NoFault
  /\ cpu.sp \in Int /\ cpu.ip \in Int /\ cpu.ptlr \in Int
  /\ timer \in -1 .. TimerOption
  /\ disk.wait \in 0 .. DiskOption /\ console.wait \in 0 .. ConsoleOption

(* What the program sees.  Interrupted or in a system call, its ip is the word
   on top of its stack; stopped at a page fault, it is EIP until the kernel has
   stored it there. *)
AtFault == InHandler(0)
Pushed  == cpu.mode = "kernel" /\ ~AtFault
Dead    == \/ cpu.mode = "halted"
           \/ cpu.mode = "kernel" /\ cpu.ip = 0
           \/ AtFault /\ Fatal
           \/ Pushed /\ PageOf(cpu.sp) \notin Pages
SeenSp  == IF Pushed THEN cpu.sp - 1 ELSE cpu.sp
SeenIp  == IF Pushed THEN Top(cpu) ELSE IF AtFault THEN ex.eip ELSE cpu.ip
SeenStack == [i \in 1 .. SeenSp - StackBase + 1 |->
                cpu.mem[Physical(StackBase + i - 1)]]

(* Programs of the compilers: code in whole pages, from the first on; addresses
   are no negative numbers; PTLR, which is the kernel's, is not written. *)
WellFormed(p) ==
  /\ DOMAIN p \subseteq Entry .. StackBase - 1
  /\ \A a \in DOMAIN p :
       /\ PageOf(a) * PageSize \in DOMAIN p
       /\ p[a].op \in {"LD", "ST", "JMP", "JZ", "CALL"} => p[a].arg \in Nat
       /\ p[a].op = "LD" /\ PageOf(p[a].arg) \in CodePages => PageOf(p[a].arg) * PageSize \in DOMAIN p
       /\ p[a].op = "INT" => p[a].arg \in 1 .. 18
       /\ p[a].op = "ALU" => p[a].arg # "PTLR"

\* A program pops only what it has pushed.
OwnStack == Is({"POP", "RET"}) => cpu.sp >= StackBase

\* And does not move SP past its stack; the kernel finds the entry of the stack
\* where the machine does (findings, SameEntry).
Tame == /\ OwnStack
        /\ Is({"ADDSP"}) => cpu.sp < StackBase + PageSize - 1
        /\ AtFault /\ ~Fatal => KernelIndex(cpu.sp + 1) = MachineIndex(cpu.sp + 1)

(* The machine and the kernel run a program as if it were alone: every
   instruction once, in order, on its own stack, whatever interrupts and page
   faults come between (machine.c post_execute, handle_exception,
   exhandler.spl). *)
Alone == INSTANCE UserProgram WITH
           StackSize <- PageSize,
           Readable <- 0 .. StackBase + PageSize - 1,
           Writable <- {a \in 0 .. StackBase + PageSize - 1 : PageOf(a) \notin CodePages},
           uip <- IF Dead THEN Entry ELSE SeenIp,
           stack <- IF Dead THEN <<>> ELSE SeenStack,
           alive <- ~Dead
RunsAlone == Alone!Spec

(* Each request a device has taken is carried out exactly once: never lost when
   the timer or the other device is due at the same instruction, and never
   repeated (machine.c:341-384).  That is so until a dispatch finds the stack
   full, which leaves the device busy after the transfer. *)
ServedOnce == due = [n \in {DiskInt, ConsoleInt} |->
                       IF (IF n = DiskInt THEN disk.busy ELSE console.busy)
                       THEN 1 ELSE 0]

\* SP stays in the page of the stack; not even an interrupt finds it full.
InStack == /\ OwnStack
           /\ ~(cpu.mode = "kernel" /\ cpu.ip = 0) =>
                cpu.sp \in StackBase - 1 .. StackBase + PageSize - 1

ServedOnceInStack == []InStack => []ServedOnce

(* A device that is at work keeps the request it took: no later one replaces it
   or puts it off (machine.c:1112-1125, 1228-1238). *)
RequestKept ==
  [][/\ (disk.busy /\ disk'.busy) => (disk'.op = disk.op /\ disk'.wait <= disk.wait)
     /\ (console.busy /\ console'.busy) => console'.wait <= console.wait]_vars

(* EIP tells the kernel where the program stood, in the program's own addresses
   (machine.c:254-268, stage_6.md:23). *)
EipLogical == AtFault => PageOf(ex.eip) \in CodePages

(* Every request of either device is answered (machine.c post_execute). *)
ConsoleServed == console.busy ~> ~console.busy
DevicesServed == (disk.busy ~> ~disk.busy) /\ ConsoleServed

(* The timer interrupts user programs for ever (stage_5.md:11). *)
TimerGoesOn == []<>User => []<>InHandler(TimerInt)

(* PTLR is the kernel's: a program does not change it (stage_6.md:11-13). *)
KernelRegistersKept == [][User => cpu'.ptlr = cpu.ptlr]_vars

(* The kernel finds an address's entry where the machine does (stage_6.md:28). *)
SameEntry == AtFault => KernelIndex(cpu.sp + 1) = MachineIndex(cpu.sp + 1)
=============================================================================
