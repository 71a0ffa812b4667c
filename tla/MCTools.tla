------------------------------- MODULE MCTools -------------------------------
(* Three tools that a user of the system has at hand: the debugger at work on a
   program, the debugger showing one of the kernel's tables, and the parser of the
   SPL compiler reading the names of a program.  A display reads the machine's
   memory and changes nothing the debugger keeps, and the parser is another
   program, so that each is explored by itself. *)
EXTENDS Debugger

CONSTANTS Names, Registers, Labels, Limit   \* of SplScope

VARIABLES at,                               \* which of the three is explored
          table, entry, field, ptr,         \* of DebugTables
          aliases, depth, flag_break, blocks, scopes, labels, jumps, read, compiler

Display == INSTANCE DebugTables
Scope   == INSTANCE SplScope

\* There is a value for a name that has no register.
ASSUME RegistersAssumption == Scope!NoReg \notin Registers

AtRest == table = "pcb" /\ entry = 0 /\ field = 1 /\ ptr = Display!Layout["pcb"].base

MCInit == /\ Init /\ Scope!Init
          /\ \/ at \in {"debugger", "parser"} /\ AtRest
             \/ at = "display" /\ Display!Init

displayVars == <<table, entry, field, ptr>>
scopeVars   == <<aliases, depth, flag_break, blocks, scopes, labels, jumps, read, compiler>>

MCNext == \/ at = "debugger" /\ Next /\ UNCHANGED <<at, displayVars, scopeVars>>
          \/ at = "display" /\ Display!Next /\ UNCHANGED <<at, vars, scopeVars>>
          \/ at = "parser" /\ Scope!Next /\ UNCHANGED <<at, vars, displayVars>>

MCSpec == MCInit /\ [][MCNext]_<<at, vars, displayVars, scopeVars>>

(* Every display shows each word of a kernel table under the label of what the
   kernel keeps there, and ends where the table does (debug.c:592-1082). *)
TablesShown == Display!LabelsRight /\ Display!EndsWithTable

(* A name stands for the register of the innermost open block that declares it,
   and break is taken in loops only (spl.c:36-109, splparser.y:88-139). *)
NamesResolve == Scope!NamesResolve /\ Scope!BreakInLoop
=============================================================================
