---------------------------- MODULE MCXsmMachine ----------------------------
(* Small programs for the machine: eight words to a page, one page of heap
   (0 .. 7), two of code (8 .. 23) and one of stack (24 .. 31). *)
EXTENDS XsmMachine

I(op, arg) == [op |-> op, arg |-> arg]
Code(is)   == [a \in {Entry + 2 * (i - 1) : i \in DOMAIN is} |-> is[(a - Entry) \div 2 + 1]]
Gen        == I("ALU", "gen")

\* Calls across the page of code that is not there yet, and returns.
Caller == Code(<<I("CALL", 16), I("ST", 1), I("INT", 4), I("JMP", 8),
                 I("PUSH", 0), I("LD", 2), I("POP", 0), I("RET", 0)>>)
\* A loop with a system call, heap and stack accesses, and ways to die.
Worker == Code(<<I("PUSH", 0), I("ST", 24), I("JZ", 14), I("DIV", 0),
                 I("POP", 0), I("INT", 5), I("JMP", 8)>>)
Wild   == Code(<<I("ST", 9), Gen>>)
Beyond == Code(<<I("LD", 32), Gen>>)
Straight == Code(<<I("ADDSP", 1)>>)
Bad    == Code(<<Gen, I("BAD", 0)>>)
Port   == Code(<<I("ALU", "port")>>)

Modest == {Caller, Worker, Wild, Beyond, Straight, Bad, Port}

\* Push until the stack is full.
Deep == {Code(<<I("PUSH", 0), I("JMP", 8)>>)}

Everything == Modest \cup Deep

\* For README section 6: faults on its heap with more than half its stack in
\* use; changes PTLR.
HalfFull == {Code(<<I("PUSH", 0), I("PUSH", 0), I("PUSH", 0), I("PUSH", 0), I("LD", 1), Gen>>)}
Meddler  == {Code(<<I("ALU", "PTLR"), I("JMP", 8)>>)}

(* As long as no program fills its stack, the timer interrupts user programs for
   ever (machine.c:341-345; stage_5.md:11). *)
TimerOutlivesModest == [](prog \in Modest) => TimerGoesOn
=============================================================================
