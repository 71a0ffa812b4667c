------------------------------ MODULE XfsLabels ------------------------------
(* xfs-interface replaces the labels of system code by addresses before it loads
   it (src/xfs-interface/labels.c): phase one reads the file in pieces as long as
   an instruction and notes where labels are, phase two reads it line by line
   and writes it without labels.  Blank lines, whose test for a colon reads the
   character before the line, are not in the files. *)
EXTENDS Integers, Sequences, FiniteSets, SequencesExt

CONSTANTS LabelNames,   \* names of labels
          Base,         \* base_address: where the code will be
          MaxLines,     \* bound on the lines of a file
          LongLines     \* may a line be longer than ins_length?

VARIABLES file, phase, pos, address, labels, out

vars == <<file, phase, pos, address, labels, out>>

InstructionSize == 2
Unresolved == -1

Line(kind, name) == [kind |-> kind, name |-> name]
Lines == [kind : {"label", "jump"}, name : LabelNames]
         \cup {Line("plain", "-")} \cup (IF LongLines THEN {Line("long", "-")} ELSE {})

\* Every label is defined once (label_add in the SPL compiler).
DefinedOnce(f) ==
  \A i, j \in DOMAIN f : f[i].kind = "label" /\ f[i] = f[j] => i = j

\* fgets(instruction, ins_length, fp) reads a long line in two.
Pieces(line) == IF line.kind = "long" THEN 2 ELSE 1

Starts(f) == /\ file = f /\ phase = "one"
             /\ pos = 0 /\ address = 0
             /\ labels = [n \in LabelNames |-> Unresolved]
             /\ out = <<>>

Init == \E f \in BoundedSeq(Lines, MaxLines) : DefinedOnce(f) /\ Starts(f)

AtEnd   == pos = Len(file)
Current == file[pos + 1]

\* Mutant: a label takes the place of an instruction.
PhaseOneCounts ==
  /\ phase = "one" /\ ~AtEnd
  /\ labels' = IF Current.kind = "label" THEN [labels EXCEPT ![Current.name] = address] ELSE labels
  /\ address' = address + InstructionSize * Pieces(Current)
  /\ pos' = pos + 1
  /\ UNCHANGED <<file, phase, out>>

PhaseOne ==
  /\ phase = "one" /\ ~AtEnd
  /\ IF Current.kind = "label"
     THEN labels' = [labels EXCEPT ![Current.name] = address] /\ address' = address
     ELSE labels' = labels /\ address' = address + InstructionSize * Pieces(Current)
  /\ pos' = pos + 1
  /\ UNCHANGED <<file, phase, out>>

Rewind == /\ phase = "one" /\ AtEnd
          /\ phase' = "two" /\ pos' = 0
          /\ UNCHANGED <<file, address, labels, out>>

\* An unknown label ends phase two; what was written is loaded all the same.
PhaseTwo ==
  /\ phase = "two" /\ ~AtEnd
  /\ pos' = pos + 1
  /\ IF Current.kind = "jump" /\ labels[Current.name] < 0
     THEN phase' = "cut" /\ out' = out
     ELSE /\ phase' = phase
          /\ out' = CASE Current.kind = "label" -> out
                      [] Current.kind = "jump"  -> Append(out, labels[Current.name] + Base)
                      [] OTHER                  -> Append(out, Unresolved)
  /\ UNCHANGED <<file, address, labels>>

Finish == /\ phase = "two" /\ AtEnd
          /\ phase' = "done"
          /\ UNCHANGED <<file, pos, address, labels, out>>

Next == PhaseOne \/ Rewind \/ PhaseTwo \/ Finish

Spec == Init /\ [][Next]_vars
-----------------------------------------------------------------------------
\* The instructions in the first n lines.
Instructions(n) == Cardinality({i \in 1 .. n : file[i].kind # "label"})

(* In the code that is loaded every jump goes to the instruction its label was
   put before, and every instruction has its place (diskUtility.c:517, "after
   replacing labels"). *)
JumpsResolved ==
  phase = "done" =>
    /\ Len(out) = Instructions(Len(file))
    /\ \A i \in DOMAIN file : file[i].kind = "jump" =>
         \E j \in DOMAIN file :
           /\ file[j] = Line("label", file[i].name)
           /\ out[Instructions(i)] = Base + InstructionSize * Instructions(j)
=============================================================================
