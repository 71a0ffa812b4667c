-------------------------------- MODULE MCXfs --------------------------------
(* The four models of xfs-interface: the files of a disk (XfsDisk), the contents
   of a file that is loaded (XfsLoad), the regions of system code up to the start
   of the machine (XfsLayout), and the labels of that code (XfsLabels).  They
   share nothing that the models keep; at says which of them is explored, and
   the others stay in an initial state of theirs. *)
EXTENDS XfsDisk

CONSTANTS BlockWords, RegionBlocks, MaxFileLines, Terminations,
          ModuleNumbers, MaxLoads, LabelNames, Base, MaxCodeLines, LongLines

\* BLOCK_SIZE is even, as an instruction is two words; with less than six words
\* to a block, counting lines would give code more blocks than BlocksAllWritten
\* says.  A region has a block at least.
ASSUME BlockAssumption == /\ BlockWords \in Nat /\ BlockWords >= 6 /\ BlockWords % 2 = 0
                          /\ RegionBlocks \in Nat \ {0}

\* The address of the first instruction.
ASSUME BaseIsAddress == Base \in Int

VARIABLES at,
          file, stage, pos, part, block, blocks, need, shown,
          image, ram, job, loads, pc,
          text, phase, line, address, labels, out

Contents == INSTANCE XfsLoad WITH MaxLines <- MaxFileLines
Layout   == INSTANCE XfsLayout WITH disk <- image, mem <- ram
Code     == INSTANCE XfsLabels WITH MaxLines <- MaxCodeLines, file <- text, pos <- line

contentsVars == <<file, stage, pos, part, block, blocks, need, shown>>
layoutVars   == <<image, ram, job, loads, pc>>
codeVars     == <<text, phase, line, address, labels, out>>
all          == <<at, vars, contentsVars, layoutVars, codeVars>>

\* One of the models starts in any of its initial states, the others in one.
MCInit ==
  /\ Init /\ Layout!Init
  /\ \/ /\ at \in {"disk", "layout"}
        /\ Contents!Starts([kind |-> "data", lines |-> <<>>, terminated |-> TRUE])
        /\ Code!Starts(<<>>)
     \/ at = "contents" /\ Contents!Init /\ Code!Starts(<<>>)
     \/ /\ at = "code" /\ Code!Init
        /\ Contents!Starts([kind |-> "data", lines |-> <<>>, terminated |-> TRUE])

MCNext ==
  \/ at = "disk" /\ Next /\ UNCHANGED <<at, contentsVars, layoutVars, codeVars>>
  \/ at = "contents" /\ Contents!Next /\ UNCHANGED <<at, vars, layoutVars, codeVars>>
  \/ at = "layout" /\ Layout!Next /\ UNCHANGED <<at, vars, contentsVars, codeVars>>
  \/ at = "code" /\ Code!Next /\ UNCHANGED <<at, vars, contentsVars, layoutVars>>

MCSpec == MCInit /\ [][MCNext]_all

\* File names are compared, never ordered.
Symmetry == Permutations(Names)

(* A file that is loaded is on the disk whole, in exactly the blocks it takes,
   and data that fits is not refused (diskUtility.c:231-397, 635-739). *)
LoadedWhole ==
  at = "contents" => /\ Contents!LoadedWhole
                     /\ Contents!BlocksAllWritten
                     /\ Contents!DataFitsIsLoaded

(* Regions of system code do not overlap, and each runs in the pages its labels
   were resolved for (fileSystem.h, memOrg.h, os_startup.spl, boot.spl). *)
CodeInPlace == at = "layout" => Layout!RegionsKept /\ Layout!RunsWhereResolved

(* Every jump goes to the instruction its label was put before (labels.c). *)
JumpsResolved == at = "code" => Code!JumpsResolved
=============================================================================
