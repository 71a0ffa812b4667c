---------------------------- MODULE UserProgram ----------------------------
(* What the machine and the kernel promise a user program: to run it as if it
   were alone.  Its instructions are executed one after the other, each once,
   on its own instruction pointer and stack; interrupts, page faults and system
   calls do not show.  A program is a function from the addresses of its code
   to its instructions.  It ends only by an instruction that is illegal or
   faults, or because its stack is full. *)
EXTENDS Integers, Sequences

CONSTANTS Programs,     \* the programs that may be loaded
          Entry,        \* the address a program starts at
          StackBase,    \* the address of the first word of the stack
          StackSize,    \* words of stack
          Readable,     \* the addresses a program may read
          Writable      \* and those it may write

VARIABLES prog, uip, stack, alive

uvars == <<prog, uip, stack, alive>>

InstructionSize == 2

Instr == prog[uip]

\* The program holds an instruction at uip and it is one of ops.
At(ops) == /\ alive
           /\ uip \in DOMAIN prog
           /\ Instr.op \in ops

Goto(a) == uip' = a
Advance == Goto(uip + InstructionSize)
Continues == UNCHANGED <<prog, alive>>

Init == /\ prog \in Programs
        /\ uip = Entry
        /\ stack = <<>>
        /\ alive = FALSE

Exec == /\ ~alive
        /\ prog' \in Programs
        /\ Goto(Entry)
        /\ stack' = <<>>
        /\ alive' = TRUE

Plain == /\ At({"ALU", "DIV", "LD", "NOP", "INT"})
         /\ Advance /\ Continues /\ UNCHANGED stack

Store == /\ At({"ST"})
         /\ Instr.arg \in Writable
         /\ Advance /\ Continues
         /\ stack' = [i \in DOMAIN stack |->
                        IF StackBase + i - 1 = Instr.arg THEN 1 ELSE stack[i]]

Jump == /\ At({"JMP", "JZ"})
        /\ Goto(Instr.arg) \/ (Instr.op = "JZ" /\ Advance)
        /\ Continues /\ UNCHANGED stack

Push == /\ At({"PUSH"})
        /\ Len(stack) < StackSize
        /\ stack' = Append(stack, 0)
        /\ Advance /\ Continues

\* What a word above the top of the stack holds is nobody's promise.
Grow == /\ At({"ADDSP"})
        /\ Len(stack) < StackSize
        /\ Len(stack') = Len(stack) + 1
        /\ SubSeq(stack', 1, Len(stack)) = stack
        /\ Advance /\ Continues

Pop == /\ At({"POP"})
       /\ stack # <<>>
       /\ stack' = SubSeq(stack, 1, Len(stack) - 1)
       /\ Advance /\ Continues

Call == /\ At({"CALL"})
        /\ Len(stack) < StackSize
        /\ stack' = Append(stack, uip + InstructionSize)
        /\ Goto(Instr.arg) /\ Continues

Ret == /\ At({"RET"})
       /\ stack # <<>>
       /\ Goto(stack[Len(stack)])
       /\ stack' = SubSeq(stack, 1, Len(stack) - 1)
       /\ Continues

Die == /\ alive
       /\ \/ uip \notin DOMAIN prog
          \/ At({"BAD", "PRIV", "DIV"})
          \/ At({"ST"}) /\ Instr.arg \notin Writable
          \/ At({"LD"}) /\ Instr.arg \notin Readable
          \/ At({"ALU"}) /\ Instr.arg # "gen"
          \/ Len(stack) = StackSize
          \/ Len(stack) = StackSize - 1 /\ At({"PUSH", "CALL", "ADDSP"})
       /\ alive' = FALSE
       /\ Goto(Entry)
       /\ stack' = <<>>
       /\ UNCHANGED prog

Next == Exec \/ Plain \/ Store \/ Jump \/ Push \/ Grow \/ Pop \/ Call \/ Ret \/ Die

Spec == Init /\ [][Next]_uvars
=============================================================================
