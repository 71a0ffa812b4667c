------------------------------- MODULE SplCode -------------------------------
(* The SPL compiler (src/spl/spl.c codegen, label.c, the tree of splparser.y) and
   the machine running the code it makes.  A program is a tree; codegen walks it
   with the number of compiler registers in use, regcount, and the labels of the
   loops it is in.  Compiler registers are R16 to R19; the program's are below.
   Instructions are <<op, left, right>>; operands are <<"r", n>> (register),
   <<"n", n>> (number), <<"m", n>> ([Rn]), <<"d", n>> ([n]), <<"l", n>> (label). *)
EXTENDS Integers, Sequences

CONSTANTS Programs,      \* the trees to compile
          Filled,        \* the program's registers that hold something
          Memory         \* the addresses that hold something

VARIABLES prog,    \* the program
          made,    \* the compiler's state after it
          doing,   \* "compile", then "run" and "halted", or "rejected"
          pc, m,   \* the machine
          meant    \* what the program means, for the properties

codeVars == <<prog, made, doing, pc, m, meant>>

C_REG_BASE == 16
C(i) == <<"r", C_REG_BASE + i>>

\* The compiler's state: the code so far, regcount, labels made, the stack of
\* while labels, and whether it has given up.
Start == [code |-> <<>>, rc |-> 0, labels |-> 0, whiles |-> <<>>, ok |-> TRUE]

Emit(s, op, a, b)  == [s EXCEPT !.code = Append(@, <<op, a, b>>)]
Nothing            == <<"-", 0>>
Emit0(s, op)       == Emit(s, op, Nothing, Nothing)
Take(s) == [s EXCEPT !.rc = @ + 1, !.ok = @ /\ s.rc + 1 # 5]
Drop(s) == [s EXCEPT !.rc = @ - 1]
Label(s, l) == Emit(s, "LABEL", <<"l", l>>, Nothing)
NewLabels(s) == [s EXCEPT !.labels = @ + 2]
PushWhile(s, start, end) == [s EXCEPT !.whiles = <<<<start, end>>>> \o @]
PopWhile(s) == [s EXCEPT !.whiles = Tail(@)]

IsReg(n) == n.t = "REG"
Operand(n) == CASE n.t = "REG"  -> <<"r", n.v>>
                [] n.t = "NUM"  -> <<"n", n.v>>
                [] n.t = "PORT" -> <<"r", n.v>>

\* The value in the register last taken, and in the one before it.
Top(s)   == C(s.rc - 1)
Below(s) == C(s.rc - 2)

\* F(x), with x evaluated once.
Let(x, F(_)) == CHOOSE result \in {F(y) : y \in {x}} : TRUE

RECURSIVE Codegen(_, _)

LoadFirst(s, n)      == Take(Emit(s, "MOV", C(s.rc), Operand(n)))
WithOperand(s, op, n) == Emit(s, op, Top(s), Operand(n))
OnTop(s, op)         == Drop(Emit(s, op, Below(s), Top(s)))

\* A binary operation.  A register on the left and an expression on the right are
\* done the other way round with the mirrored operation, when there is one.
Binary(op, mirror, operands, n, s) ==
  LET direct == n.r.t \in operands
  IN  CASE IsReg(n.l) /\ direct  -> WithOperand(LoadFirst(s, n.l), op, n.r)
        [] ~IsReg(n.l) /\ direct -> WithOperand(Codegen(n.l, s), op, n.r)
        [] IsReg(n.l) /\ ~direct /\ mirror # "none" -> WithOperand(Codegen(n.r, s), mirror, n.l)
        [] IsReg(n.l) /\ ~direct /\ mirror = "none" -> OnTop(Codegen(n.r, LoadFirst(s, n.l)), op)
        [] OTHER -> OnTop(Codegen(n.r, Codegen(n.l, s)), op)

Direct == {"REG", "NUM"}
\* Mutant: the comparison is not turned round.
GtSameWay(n, s)  == Binary("GT", "GT", {"REG"}, n, s)
Lt(n, s)  == Binary("LT", "GT", {"REG"}, n, s)
Gt(n, s)  == Binary("GT", "LT", {"REG"}, n, s)
Eq(n, s)  == Binary("EQ", "EQ", {"REG"}, n, s)
Le(n, s)  == Binary("LE", "GE", {"REG"}, n, s)
Ge(n, s)  == Binary("GE", "LE", {"REG"}, n, s)
Ne(n, s)  == Binary("NE", "NE", {"REG"}, n, s)
And(n, s) == Binary("MUL", "MUL", {"REG"}, n, s)
Or(n, s)  == Binary("ADD", "ADD", {"REG"}, n, s)
Add(n, s) == Binary("ADD", "ADD", Direct, n, s)
Sub(n, s) == Binary("SUB", "none", Direct, n, s)
Mul(n, s) == Binary("MUL", "MUL", Direct, n, s)
Div(n, s) == Binary("DIV", "none", Direct, n, s)
Mod(n, s) == Binary("MOD", "none", Direct, n, s)

\* 1 - x
Not(n, s) ==
  LET one == Take(Emit(s, "MOV", C(s.rc), <<"n", 1>>))
  IN  IF IsReg(n.l) THEN WithOperand(one, "SUB", n.l)
      ELSE OnTop(Codegen(n.l, one), "SUB")

Fetch(n, s) == LET d == Codegen(n.l, s) IN Emit(d, "MOV", Top(d), <<"m", Top(d)[2]>>)

Leaf(n, s) == Take(Emit(s, "MOV", C(s.rc), Operand(n)))

\* dst = n.r; a port is read through the next register, which is not counted.
AssignTo(dst, n, s) ==
  CASE n.r.t \in Direct -> Emit(s, "MOV", dst, Operand(n.r))
    [] n.r.t = "PORT"   -> Emit(Emit(s, "PORT", C(s.rc), Operand(n.r)), "MOV", dst, C(s.rc))
    [] OTHER            -> LET d == Codegen(n.r, s) IN Drop(Emit(d, "MOV", dst, Top(d)))

AssignMemory(n, s) ==
  LET a == n.l.l
  IN  CASE a.t = "NUM" -> AssignTo(<<"d", a.v>>, n, s)
        [] a.t = "REG" -> AssignTo(<<"m", a.v>>, n, s)
        [] OTHER       -> LET d == Codegen(a, s)
                          IN  Drop(AssignTo(<<"m", Top(d)[2]>>, n, d))

Assign(n, s) == IF n.l.t = "MEM" THEN AssignMemory(n, s)
                ELSE AssignTo(Operand(n.l), n, s)

\* A condition, tested: jump to the label if it is 0.
JumpIfNot(n, l, s) ==
  IF IsReg(n) THEN Emit(s, "JZ", Operand(n), <<"l", l>>)
  ELSE LET d == Codegen(n, s) IN Drop(Emit(d, "JZ", Top(d), <<"l", l>>))

JumpTo(l, s) == Emit(s, "JMP", <<"l", l>>, Nothing)

If(n, s) ==
  LET else == s.labels + 1
      end  == s.labels + 2
      then == Codegen(n.then, JumpIfNot(n.cond, else, NewLabels(s)))
  IN  Label(Codegen(n.else, Label(JumpTo(end, then), else)), end)

\* Mutant: the end of the loop is put before the jump back.
WhileEndInside(n, s) ==
  LET start == s.labels + 1
      end   == s.labels + 2
      in    == Label(PushWhile(NewLabels(s), start, end), start)
      body  == Codegen(n.body, JumpIfNot(n.cond, end, in))
  IN  JumpTo(start, Label(PopWhile(body), end))

While(n, s) ==
  LET start == s.labels + 1
      end   == s.labels + 2
      in    == Label(PushWhile(NewLabels(s), start, end), start)
      body  == Codegen(n.body, JumpIfNot(n.cond, end, in))
  IN  Label(PopWhile(JumpTo(start, body)), end)

BreakLoop(s)    == JumpTo(Head(s.whiles)[2], s)
ContinueLoop(s) == JumpTo(Head(s.whiles)[1], s)

\* loadi, load, store: two arguments.
Second(op, left, n, s) ==
  IF n.r.t \in Direct THEN Emit(s, op, left, Operand(n.r))
  ELSE LET d == Codegen(n.r, s) IN Drop(Emit(d, op, left, Top(d)))

Transfer(op, n, s) ==
  IF IsReg(n.l) THEN Second(op, Operand(n.l), n, s)
  ELSE LET d == Codegen(n.l, s) IN Drop(Second(op, Top(d), n, d))

Loadi(n, s) == Transfer("LOADI", n, s)
Load(n, s)  == Transfer("LOAD", n, s)
Store(n, s) == Transfer("STORE", n, s)

RECURSIVE EmitEach(_, _, _)
EmitEach(op, regs, s) ==
  IF regs = <<>> THEN s ELSE EmitEach(op, Tail(regs), Emit(s, op, <<"r", Head(regs)>>, Nothing))

Reversed(seq) == [i \in DOMAIN seq |-> seq[Len(seq) + 1 - i]]

MultiPush(n, s) == EmitEach("PUSH", n.regs, s)
MultiPop(n, s)  == EmitEach("POP", Reversed(n.regs), s)

\* Statements that are one instruction, and the one that reads from the console.
Leaving == {"HALT", "RETURN", "IRETURN"}
Bare == Leaving \union {"BACKUP", "RESTORE", "BREAKPOINT", "READ", "ENCRYPT"}
Single(n, s) == Emit(s, n.t, IF n.t = "ENCRYPT" THEN Operand(n.l) ELSE Nothing, Nothing)
Readi(n, s)  == Emit(Emit0(s, "INI"), "PORT", Operand(n.l), <<"r", 20>>)

PrintValue(n, s) == LET d == Codegen(n.l, s)
               IN  Drop(Emit0(Emit(d, "PORT", <<"r", 21>>, Top(d)), "OUT"))

Translate(n, s) ==
  CASE ~s.ok -> s
    [] n.t = "NULL" -> s
    [] n.t \in {"REG", "NUM"} -> Leaf(n, s)
    [] n.t = "MEM" -> Fetch(n, s)
    [] n.t = "LT" -> Lt(n, s)   [] n.t = "GT" -> Gt(n, s)   [] n.t = "EQ" -> Eq(n, s)
    [] n.t = "LE" -> Le(n, s)   [] n.t = "GE" -> Ge(n, s)   [] n.t = "NE" -> Ne(n, s)
    [] n.t = "AND" -> And(n, s) [] n.t = "OR" -> Or(n, s)   [] n.t = "NOT" -> Not(n, s)
    [] n.t = "ADD" -> Add(n, s) [] n.t = "SUB" -> Sub(n, s) [] n.t = "MUL" -> Mul(n, s)
    [] n.t = "DIV" -> Div(n, s) [] n.t = "MOD" -> Mod(n, s)
    [] n.t = "LIST" -> Codegen(n.r, Codegen(n.l, s))
    [] n.t = "ASSIGN" -> Assign(n, s)
    [] n.t = "IF" -> If(n, s)
    [] n.t = "WHILE" -> While(n, s)
    [] n.t = "BREAK" -> BreakLoop(s)
    [] n.t = "CONTINUE" -> ContinueLoop(s)
    [] n.t = "LOADI" -> Loadi(n, s) [] n.t = "LOAD" -> Load(n, s) [] n.t = "STORE" -> Store(n, s)
    [] n.t = "MULTIPUSH" -> MultiPush(n, s)
    [] n.t = "MULTIPOP" -> MultiPop(n, s)
    [] n.t = "PRINT" -> PrintValue(n, s)
    [] n.t = "READI" -> Readi(n, s)
    [] n.t \in Bare -> Single(n, s)

Codegen(n, s) == Let(s, LAMBDA t : Translate(n, t))

\* body: the statements, then HALT.
Compiled(p) == LET s == Codegen(p, Start) IN [s EXCEPT !.code = Append(@, <<"HALT", Nothing, Nothing>>)]
-----------------------------------------------------------------------------
(* The machine's instructions: machine_execute_mov, _arith, _logical, _jump,
   _stack.  Devices are a log of what they are asked. *)
Bit(b)  == IF b THEN 1 ELSE 0
Magnitude(a) == IF a < 0 THEN -a ELSE a
Quotient(a, b) == LET q == Magnitude(a) \div Magnitude(b) IN IF (a < 0) # (b < 0) THEN -q ELSE q

Apply(op, a, b) ==
  CASE op = "ADD" -> a + b  [] op = "SUB" -> a - b  [] op = "MUL" -> a * b
    [] op = "DIV" -> Quotient(a, b)  [] op = "MOD" -> a - b * Quotient(a, b)
    [] op = "LT" -> Bit(a < b)  [] op = "GT" -> Bit(a > b)  [] op = "EQ" -> Bit(a = b)
    [] op = "LE" -> Bit(a <= b) [] op = "GE" -> Bit(a >= b) [] op = "NE" -> Bit(a # b)

Value(o) == CASE o[1] = "r" -> m.reg[o[2]]
              [] o[1] = "n" -> o[2]
              [] o[1] = "m" -> m.mem[m.reg[o[2]]]
              [] o[1] = "d" -> m.mem[o[2]]

Put(o, v) == CASE o[1] = "r" -> [m EXCEPT !.reg[o[2]] = v]
               [] o[1] = "m" -> [m EXCEPT !.mem[m.reg[o[2]]] = v]
               [] o[1] = "d" -> [m EXCEPT !.mem[o[2]] = v]

code == made.code

Target(l) == CHOOSE i \in DOMAIN code : code[i][1] = "LABEL" /\ code[i][2] = l

Instr == code[pc]
Executing(ops) == doing = "run" /\ Instr[1] \in ops
Continues == UNCHANGED <<prog, made, doing, meant>>
Advance == pc' = pc + 1

Move == /\ Executing({"MOV", "PORT"})
        /\ m' = Put(Instr[2], Value(Instr[3]))
        /\ Advance /\ Continues

Compute == /\ Executing({"ADD", "SUB", "MUL", "DIV", "MOD", "LT", "GT", "EQ", "LE", "GE", "NE"})
           /\ m' = Put(Instr[2], Apply(Instr[1], Value(Instr[2]), Value(Instr[3])))
           /\ Advance /\ Continues

Jump == /\ Executing({"JMP", "JZ", "LABEL"})
        /\ pc' = CASE Instr[1] = "JMP" -> Target(Instr[2])
                   [] Instr[1] = "JZ" /\ Value(Instr[2]) = 0 -> Target(Instr[3])
                   [] OTHER -> pc + 1
        /\ Continues /\ UNCHANGED m

Push == /\ Executing({"PUSH"})
        /\ m' = [m EXCEPT !.stack = Append(@, Value(Instr[2]))]
        /\ Advance /\ Continues

Pop == /\ Executing({"POP"})
       /\ m.stack # <<>>
       /\ m' = [Put(Instr[2], m.stack[Len(m.stack)]) EXCEPT !.stack = SubSeq(@, 1, Len(@) - 1)]
       /\ Advance /\ Continues

Device == /\ Executing({"LOADI", "LOAD", "STORE", "OUT", "INI"})
          /\ m' = [m EXCEPT !.log = Append(@, CASE Instr[1] = "OUT" -> <<"OUT", m.reg[21], 0>>
                                                [] Instr[1] = "INI" -> <<"INI", 0, 0>>
                                                [] OTHER -> <<Instr[1], Value(Instr[2]), Value(Instr[3])>>)]
          /\ Advance /\ Continues

\* What the other instructions do belongs to the machine's own module.
Other == /\ Executing(Bare \ Leaving)
         /\ m' = [m EXCEPT !.log = Append(@, <<Instr[1], Instr[2][2], 0>>)]
         /\ Advance /\ Continues

Halt == /\ Executing(Leaving)
        /\ doing' = "halted"
        /\ UNCHANGED <<prog, made, pc, m, meant>>
-----------------------------------------------------------------------------
(* What a program means: the values of expressions, and the state a statement
   leaves with the way it ends. *)
Truth(v) == v # 0

RECURSIVE Eval(_, _)
Eval(n, e) ==
  CASE n.t \in {"REG", "PORT"} -> e.reg[n.v]
    [] n.t = "NUM" -> n.v
    [] n.t = "MEM" -> e.mem[Eval(n.l, e)]
    [] n.t = "AND" -> Bit(Truth(Eval(n.l, e)) /\ Truth(Eval(n.r, e)))
    [] n.t = "OR"  -> Bit(Truth(Eval(n.l, e)) \/ Truth(Eval(n.r, e)))
    [] n.t = "NOT" -> Bit(~Truth(Eval(n.l, e)))
    [] OTHER -> Apply(n.t, Eval(n.l, e), Eval(n.r, e))

Ends(e, how) == [env |-> e, how |-> how]

RECURSIVE Meaning(_, _), PopInto(_, _)
PopInto(regs, e) ==
  IF regs = <<>> THEN e
  ELSE PopInto(SubSeq(regs, 1, Len(regs) - 1),
               [e EXCEPT !.reg[regs[Len(regs)]] = e.stack[Len(e.stack)],
                         !.stack = SubSeq(@, 1, Len(@) - 1)])

Outcome(n, e) ==
  CASE n.t = "NULL" -> Ends(e, "next")
    [] n.t = "LIST" -> Let(Meaning(n.l, e), LAMBDA first :
                         IF first.how = "next" THEN Meaning(n.r, first.env) ELSE first)
    [] n.t = "ASSIGN" /\ n.l.t = "REG" -> Ends([e EXCEPT !.reg[n.l.v] = Eval(n.r, e)], "next")
    [] n.t = "ASSIGN" /\ n.l.t = "MEM" -> Ends([e EXCEPT !.mem[Eval(n.l.l, e)] = Eval(n.r, e)], "next")
    [] n.t = "IF" -> Meaning(IF Truth(Eval(n.cond, e)) THEN n.then ELSE n.else, e)
    [] n.t = "WHILE" -> IF ~Truth(Eval(n.cond, e)) THEN Ends(e, "next")
                        ELSE Let(Meaning(n.body, e), LAMBDA once :
                               CASE once.how = "break" -> Ends(once.env, "next")
                                 [] once.how = "halt"  -> once
                                 [] OTHER -> Meaning(n, once.env))
    [] n.t = "BREAK" -> Ends(e, "break")
    [] n.t = "CONTINUE" -> Ends(e, "continue")
    [] n.t \in Leaving -> Ends(e, "halt")
    [] n.t = "READI" -> Ends([e EXCEPT !.reg[n.l.v] = e.reg[20], !.log = Append(@, <<"INI", 0, 0>>)], "next")
    [] n.t \in Bare \ Leaving ->
         Ends([e EXCEPT !.log = Append(@, <<n.t, IF n.t = "ENCRYPT" THEN n.l.v ELSE 0, 0>>)], "next")
    [] n.t \in {"LOADI", "LOAD", "STORE"} ->
         Ends([e EXCEPT !.log = Append(@, <<n.t, Eval(n.l, e), Eval(n.r, e)>>)], "next")
    [] n.t = "PRINT" -> Ends([e EXCEPT !.log = Append(@, <<"OUT", Eval(n.l, e), 0>>)], "next")
    [] n.t = "MULTIPUSH" -> Ends([e EXCEPT !.stack = @ \o [i \in DOMAIN n.regs |-> e.reg[n.regs[i]]]], "next")
    [] n.t = "MULTIPOP" -> Ends(PopInto(n.regs, e), "next")

Meaning(n, e) == Let(e, LAMBDA x : Outcome(n, x))
-----------------------------------------------------------------------------
Before == [reg |-> [r \in 0 .. 23 |-> IF r \in DOMAIN Filled THEN Filled[r] ELSE 0],
           mem |-> Memory, stack |-> <<>>, log |-> <<>>]

Starts(p) == /\ prog = p
             /\ made = Start /\ doing = "compile" /\ pc = 1
             /\ m = Before /\ meant = Before

CodeInit == \E p \in Programs : Starts(p)

Compile ==
  /\ doing = "compile"
  /\ made' = Compiled(prog)
  /\ doing' = IF made'.ok THEN "run" ELSE "rejected"
  /\ meant' = Meaning(prog, Before).env
  /\ UNCHANGED <<prog, pc, m>>

CodeNext == Compile \/ Move \/ Compute \/ Jump \/ Push \/ Pop \/ Device \/ Other \/ Halt

CodeSpec == CodeInit /\ [][CodeNext]_codeVars /\ WF_codeVars(CodeNext)
-----------------------------------------------------------------------------
\* The registers of the program; those of the compiler and P1 are scratch.
Seen(e) == [e EXCEPT !.reg = [r \in 0 .. 15 |-> e.reg[r]]]

(* Code that was compiled ends, with the registers, the memory, the stack and
   the requests to devices that the program means (spl.c codegen). *)
RunsAsWritten == doing = "halted" => Seen(m) = Seen(meant)

(* Nothing is left of a statement: no register stays taken, or statements would
   run out of them, and no loop stays on the stack of labels. *)
NothingLeftOver ==
  doing = "run" => made.rc = 0 /\ made.whiles = <<>>

(* What the compiler makes is right, and it has given back what it took for it
   (spl.c:188-1388). *)
CompiledRight == RunsAsWritten /\ NothingLeftOver

(* The code of a program that ends, ends: no jump goes astray. *)
Terminates == doing = "run" ~> doing = "halted"
=============================================================================
