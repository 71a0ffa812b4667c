------------------------------ MODULE SplScope ------------------------------
(* The names of an SPL program as the parser meets them (src/spl/spl.c:
   push_alias, pop_alias, substitute_id; splparser.y: ifpad, elsepad, whilepad;
   label.c).  The parser reads one statement or one bracket of a block at a time;
   any program of at most Limit of them is read. *)
EXTENDS Integers, Sequences, FiniteSets

CONSTANTS Names,         \* of aliases
          Registers,
          Labels,
          Limit          \* statements and brackets in a program

NoReg == "none"

VARIABLES aliases,       \* root_alias: newest first
          depth,
          flag_break,
          blocks,        \* the parser's stack: "if", "else" or "while"
          scopes,        \* for the properties: the names of each open block
          labels, jumps, \* label_add so far; the labels of gotos and of calls
          read,          \* statements and brackets so far
          compiler       \* "parses", "stopped" by an error, or "done"

vars == <<aliases, depth, flag_break, blocks, scopes, labels, jumps, read, compiler>>
names == <<aliases, depth, flag_break, blocks, scopes>>

\* The first alias of the list that is among these, or 0.
First(found) == IF found = {} THEN 0 ELSE CHOOSE i \in found : \A j \in found : i <= j

lookup_alias(name)    == First({i \in DOMAIN aliases : aliases[i].name = name})
lookup_alias_reg(reg) == First({i \in DOMAIN aliases : aliases[i].reg = reg})

InBlock(i) == i # 0 /\ aliases[i].depth = depth

\* The aliases after one more: a register that has a name in this block gets a
\* new name, otherwise the alias is added.
\* Mutant: the register's name is looked for in every block.
RenamedAnywhere(name, reg) ==
  LET i == lookup_alias_reg(reg)
  IN  IF i # 0 THEN [aliases EXCEPT ![i].name = name]
      ELSE <<[name |-> name, reg |-> reg, depth |-> depth]>> \o aliases

push_alias(name, reg) ==
  LET i == lookup_alias_reg(reg)
  IN  IF InBlock(i) THEN [aliases EXCEPT ![i].name = name]
      ELSE <<[name |-> name, reg |-> reg, depth |-> depth]>> \o aliases

\* Aliases go as long as the first of the list is of this block.
pop_alias ==
  LET i == First({j \in DOMAIN aliases : aliases[j].depth # depth})
  IN  IF i = 0 THEN <<>> ELSE SubSeq(aliases, i, Len(aliases))

\* What the block says now.
Declared(scope, name, reg) ==
  [n \in Names |-> IF n = name THEN reg ELSE IF scope[n] = reg THEN NoReg ELSE scope[n]]
Empty == [n \in Names |-> NoReg]

Reads == compiler = "parses" /\ read < Limit /\ read' = read + 1
Top == blocks[Len(blocks)]
Stops == compiler' = "stopped" /\ UNCHANGED <<names, labels, jumps>>
Goes(v) == compiler' = compiler /\ UNCHANGED <<labels, jumps, v>>

Alias(name, reg) ==
  /\ Reads
  /\ IF InBlock(lookup_alias(name)) THEN Stops
     ELSE /\ aliases' = push_alias(name, reg)
          /\ scopes' = [scopes EXCEPT ![Len(scopes)] = Declared(@, name, reg)]
          /\ Goes(<<depth, flag_break, blocks>>)

Open(kind) ==
  /\ Reads
  /\ depth' = depth + 1
  /\ flag_break' = IF kind = "while" THEN flag_break + 1 ELSE flag_break
  /\ blocks' = Append(blocks, kind)
  /\ scopes' = Append(scopes, Empty)
  /\ Goes(aliases)

Else ==
  /\ Reads /\ blocks # <<>> /\ Top = "if"
  /\ aliases' = pop_alias
  /\ blocks' = [blocks EXCEPT ![Len(blocks)] = "else"]
  /\ scopes' = [scopes EXCEPT ![Len(scopes)] = Empty]
  /\ Goes(<<depth, flag_break>>)

Close ==
  /\ Reads /\ blocks # <<>>
  /\ depth' = depth - 1
  /\ aliases' = pop_alias
  /\ flag_break' = IF Top = "while" THEN flag_break - 1 ELSE flag_break
  /\ blocks' = SubSeq(blocks, 1, Len(blocks) - 1)
  /\ scopes' = SubSeq(scopes, 1, Len(scopes) - 1)
  /\ Goes(<<>>)

BreakOrContinue ==
  /\ Reads
  /\ IF flag_break = 0 THEN Stops ELSE Goes(names)

\* ids: an identifier that is no alias stops the compiler.
UseId(name) ==
  /\ Reads
  /\ IF lookup_alias(name) = 0 THEN Stops ELSE Goes(names)

LabelDef(l) ==
  /\ Reads
  /\ IF l \in labels THEN Stops
     ELSE labels' = labels \union {l} /\ UNCHANGED <<names, jumps, compiler>>

JumpTo(kind, l) ==
  /\ Reads
  /\ jumps' = jumps \union {<<kind, l>>}
  /\ UNCHANGED <<names, labels, compiler>>

\* The program has ended: codegen.  A call of a label nobody declared stops the
\* compiler; a goto leaves no instruction.
Finish ==
  /\ compiler = "parses" /\ blocks = <<>> /\ read > 0
  /\ compiler' = IF \E l \in Labels \ labels : <<"call", l>> \in jumps THEN "stopped" ELSE "done"
  /\ UNCHANGED <<names, labels, jumps, read>>

Init ==
  /\ aliases = <<>> /\ depth = 0 /\ flag_break = 0 /\ blocks = <<>>
  /\ scopes = <<Empty>>
  /\ labels = {} /\ jumps = {} /\ read = 0 /\ compiler = "parses"

Next ==
  \/ \E n \in Names : UseId(n) \/ \E r \in Registers : Alias(n, r)
  \/ \E kind \in {"if", "while"} : Open(kind)
  \/ Else \/ Close \/ BreakOrContinue \/ Finish
  \/ \E l \in Labels : LabelDef(l) \/ \E kind \in {"goto", "call"} : JumpTo(kind, l)

Spec == Init /\ [][Next]_vars
-----------------------------------------------------------------------------
(* A name stands for the register that the innermost open block declaring it
   gives it, and for none once that block has been closed (substitute_id reads
   the list that push_alias and pop_alias keep). *)
NamesResolve ==
  \A name \in Names :
    LET i  == lookup_alias(name)
        declaring == {k \in DOMAIN scopes : scopes[k][name] # NoReg}
    IN  IF declaring = {} THEN i = 0
        ELSE i # 0 /\ \E k \in declaring : /\ \A j \in declaring : j <= k
                                    /\ aliases[i].reg = scopes[k][name]

(* break and continue are taken in a loop and nowhere else: codegen reads the top
   of the stack of loops without looking whether there is one. *)
BreakInLoop == flag_break > 0 <=> \E i \in DOMAIN blocks : blocks[i] = "while"

(* A program that was compiled declares the labels it jumps to: "Label '%s' is
   not declared" (spl.c, NODE_GOTO and NODE_CALL). *)
JumpsDeclared == compiler = "done" => \A j \in jumps : j[2] \in labels
=============================================================================
