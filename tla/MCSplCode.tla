------------------------------ MODULE MCSplCode ------------------------------
(* Programs for the compiler: expressions of every operation over registers,
   numbers and memory, one and two levels deep, chains that use up the compiler's
   registers, and statements around them. *)
EXTENDS SplCode

R(r) == [t |-> "REG", v |-> r]
N(n) == [t |-> "NUM", v |-> n]
Port == [t |-> "PORT", v |-> 20]
Null == [t |-> "NULL"]
Break1    == [t |-> "BREAK"]
Continue1 == [t |-> "CONTINUE"]
At(e)     == [t |-> "MEM", l |-> e]
Not1(e)   == [t |-> "NOT", l |-> e]
Op(o, l, r)   == [t |-> o, l |-> l, r |-> r]
Set(l, r)     == Op("ASSIGN", l, r)
If1(c, a, b)  == [t |-> "IF", cond |-> c, then |-> a, else |-> b]
While1(c, b)  == [t |-> "WHILE", cond |-> c, body |-> b]
Regs1(o, s)   == [t |-> o, regs |-> s]
Print1(e)     == [t |-> "PRINT", l |-> e]
Both(a, b)    == Op("LIST", a, b)

Arithmetic == {"ADD", "SUB", "MUL", "DIV", "MOD"}
Relations  == {"LT", "GT", "EQ", "LE", "GE", "NE"}
Leaves     == {R(0), R(1), N(-2), At(N(3)), At(R(0))}
Inner      == {Op(o, l, r) : o \in {"SUB", "LT"}, l \in {R(1), N(3)}, r \in {R(0), At(R(0))}}
Operands   == Leaves \union Inner

\* Nothing is divided by 0.
Expressions == {e \in {Op(o, l, r) : o \in Arithmetic \union Relations, l \in Operands, r \in Operands} :
                  e.t \in {"DIV", "MOD"} => Eval(e.r, Before) # 0}

\* NOT and AND of truth values, OR only where it is asked whether it is 0.
Truths == {Op(o, l, r) : o \in Relations, l \in {R(0), At(N(3))}, r \in {N(2), R(1)}}
Conditions == Truths \union {Not1(c) : c \in Truths} \union {R(0), At(N(1))}
              \union {Op(o, a, b) : o \in {"AND", "OR"}, a \in {Not1(c) : c \in Truths} \union {R(0)},
                                    b \in {At(N(1)), R(1)} \union Truths}

\* n operations, each the right operand of the one before.
Chain(o, n) == LET c[i \in 0 .. n] == IF i = 0 THEN At(N(3)) ELSE Op(o, N(i), c[i - 1]) IN c[n]

Left1 == {R(1), At(N(2)), At(R(0)), At(Op("ADD", R(0), N(1)))}
Right1 == {R(1), N(4), Port, Op("SUB", R(1), R(0)), At(R(1)), Not1(At(N(2)))}
Assignments == {Set(l, r) : l \in Left1, r \in Right1}

Calls == {Op(o, l, r) : o \in {"LOADI", "LOAD", "STORE"},
                        l \in {R(0), N(1), Op("ADD", R(0), R(1))}, r \in {R(1), N(9), At(N(0)), Op("SUB", R(1), N(1))}}

Add1(r, n) == Set(R(r), Op("ADD", R(r), N(n)))
Stacks == Both(Regs1("MULTIPUSH", <<0, 1>>), Both(Both(Set(R(0), N(9)), Add1(1, 1)), Regs1("MULTIPOP", <<0, 1>>)))
Singles == {[t |-> o, l |-> R(1)] : o \in {"BACKUP", "RESTORE", "IRETURN", "BREAKPOINT", "READ", "ENCRYPT", "READI"}}
Ends1 == {Null, Break1, Continue1, [t |-> "HALT"], [t |-> "RETURN"]}

\* A loop in a loop; the inner one may end its turn or itself early, and so may
\* the outer one after it.
Loops ==
  {While1(Op("LT", R(0), N(bound)),
     Both(Add1(0, 1),
     Both(While1(Op("LT", R(1), N(8)), Both(Add1(1, 1), If1(c, inner, Print1(R(1))))),
          If1(Op("EQ", R(0), N(4)), outer, Add1(2, 1))))) :
     bound \in {2, 5}, c \in {Op("EQ", R(1), N(7)), Op("GT", R(1), R(0))},
     inner \in Ends1, outer \in Ends1}

Everything ==
  {Set(R(0), e) : e \in Expressions}
  \union {If1(c, Set(R(1), N(1)), b) : c \in Conditions, b \in {Null, If1(R(1), Stacks, Null)}}
  \union {Set(l, Chain(o, n)) : l \in {R(2), At(N(0))}, o \in {"SUB", "ADD"}, n \in 2 .. 4}
  \union Assignments \union Calls \union {Stacks, Both(Stacks, Print1(At(N(0))))} \union {Both(x, Print1(R(1))) : x \in Singles} \union Loops

\* The negation of a disjunction both of whose sides hold.
NotOfOr == {Both(If1(Not1(Op("OR", Op("GT", R(0), N(0)), Op("GT", R(1), N(0)))),
                     Set(R(2), N(1)), Set(R(2), N(2))), e) : e \in {Set(R(3), x) : x \in Expressions}}
=============================================================================
