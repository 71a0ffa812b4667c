------------------------------- MODULE XfsLoad -------------------------------
(* How xfs-interface puts a file of the host into blocks of the disk, line by
   line (writeFileToDisk), how many blocks it takes a file to need, and what it
   reads back (export, cat).  A word on the disk is <<line, part>>. *)
EXTENDS Integers, Sequences, FiniteSets, SequencesExt

CONSTANTS BlockWords,   \* BLOCK_SIZE
          MaxBlocks,    \* INODE_MAX_BLOCK_NUM
          RegionBlocks, \* blocks of a region of system code
          MaxLines,     \* bound on the lines of a file
          Terminations  \* does the last line end in a newline?

VARIABLES file,    \* [kind, lines, terminated]
          stage,   \* "size", "write", "done", "refused", "cleared", "shown"
          pos,     \* the lines read
          part,    \* the words read of the line after them
          block,   \* the words of the block being filled
          blocks,  \* the blocks written
          need,    \* the blocks allocated
          shown    \* the blocks export and cat have shown

vars == <<file, stage, pos, part, block, blocks, need, shown>>

\* Lines of data are short, or too long for a word: fgets reads them in pieces.
\* Lines of code are instructions, blank, or, in a header, numbers.
DataLines == {"word", "long"}
CodeLines == {"instr", "blank"}
Header    == {<<>>, <<"number", "number">>}
Empty     == <<0, 0>>

DataTexts == BoundedSeq(DataLines, MaxLines)
CodeTexts == {h \o l : h \in Header, l \in BoundedSeq(CodeLines, MaxLines - 2)}

Files == [kind : {"data"}, lines : DataTexts, terminated : Terminations]
         \cup [kind : {"exec", "region"}, lines : CodeTexts, terminated : Terminations]

\* The last line may be without its newline.
Valid(f) == f.terminated \/ (f.lines # <<>> /\ Last(f.lines) # "blank")

Parts(line) == IF line = "blank" THEN 0 ELSE IF line \in {"word", "number"} THEN 1 ELSE 2

\* The number of words of the first n lines, and of the file.
WordsOf(f, n) == Cardinality({w \in (1 .. n) \X (1 .. 2) : w[2] <= Parts(f.lines[w[1]])})
Size(f)       == WordsOf(f, Len(f.lines))

\* One fgets reads a word of data, and a line of code.
Current     == file.lines[pos + 1]
EndsLine    == file.kind # "data" \/ part + 1 = Parts(Current)
Read        == IF file.kind = "data" THEN <<<<pos + 1, part + 1>>>>
               ELSE [p \in 1 .. Parts(Current) |-> <<pos + 1, p>>]

\* Reading on from here meets the end of the file: it is past the last line, or
\* at the end of it and no newline ends it.
MeetsEnd == \/ pos = Len(file.lines)
            \/ pos + 1 = Len(file.lines) /\ EndsLine /\ ~file.terminated

Ceiling(n, d) == (n + d - 1) \div d

\* Mutant: without the last word.
DataFileSizeShort(f) == IF Size(f) = 0 THEN 0 ELSE Size(f) - 1
\* getDataFileSize: one less than the reads it takes to meet the end.
DataFileSize(f) == IF f.terminated \/ f.lines = <<>> THEN Size(f) ELSE Size(f) - 1

\* loadExecutableToDisk counts newlines and the end of the file.
NumOfLines(f) == IF f.terminated THEN Len(f.lines) + 1 ELSE Len(f.lines)

BlocksRequired(f) ==
  CASE f.kind = "data"   -> (DataFileSize(f) \div BlockWords)
                            + (IF DataFileSize(f) % BlockWords = 0 THEN 0 ELSE 1)
    [] f.kind = "exec"   -> (NumOfLines(f) \div (BlockWords \div 2)) + 1
    [] f.kind = "region" -> RegionBlocks

Limit(f) == IF f.kind = "region" THEN RegionBlocks ELSE MaxBlocks

Starts(f) == /\ file = f /\ stage = "size"
             /\ pos = 0 /\ part = 0 /\ block = <<>> /\ blocks = <<>> /\ need = 0 /\ shown = 0

Init == \E f \in Files : Valid(f) /\ Starts(f)

Measure ==
  /\ stage = "size"
  /\ need' = BlocksRequired(file)
  /\ stage' = IF BlocksRequired(file) > Limit(file) THEN "refused"
              ELSE IF BlocksRequired(file) = 0 THEN "done" ELSE "write"
  /\ UNCHANGED <<file, pos, part, block, blocks, shown>>

Padded(b) == b \o [i \in 1 .. BlockWords - Len(b) |-> Empty]

\* A block is written; the next is filled, or the load is over.  A region's load
\* stops at the first block that met the end of the file; if none did, the code
\* is said to exceed its blocks, and they are cleared.
Flush(met) ==
  /\ blocks' = Append(blocks, Padded(block))
  /\ block' = <<>>
  /\ LET last == Len(blocks) + 1 = need
     IN  stage' = IF file.kind = "region"
                  THEN IF met THEN "done" ELSE IF last THEN "cleared" ELSE "write"
                  ELSE IF last THEN "done" ELSE "write"

ReadPiece ==
  /\ stage = "write" /\ Len(block) < BlockWords /\ ~MeetsEnd
  /\ block' = block \o Read
  /\ IF EndsLine THEN pos' = pos + 1 /\ part' = 0 ELSE pos' = pos /\ part' = part + 1
  /\ UNCHANGED <<file, stage, blocks, need, shown>>

\* What the read that meets the end has read is not stored.
ReadEnd ==
  /\ stage = "write" /\ Len(block) < BlockWords /\ MeetsEnd
  /\ Flush(TRUE)
  /\ pos' = Len(file.lines) /\ part' = 0
  /\ UNCHANGED <<file, need, shown>>

BlockFull ==
  /\ stage = "write" /\ Len(block) = BlockWords
  /\ Flush(FALSE)
  /\ UNCHANGED <<file, pos, part, need, shown>>

\* export, cat: while (blk[k] > 0).  With MaxBlocks blocks the loop reads on, past
\* the array: what is there may pass for a block number.
Export ==
  /\ stage = "done" /\ file.kind # "region"
  /\ stage' = "shown"
  /\ \E extra \in 0 .. (IF need = MaxBlocks THEN 1 ELSE 0) : shown' = need + extra
  /\ UNCHANGED <<file, pos, part, block, blocks, need>>

Next == Export \/ Measure \/ ReadPiece \/ ReadEnd \/ BlockFull

Spec == Init /\ [][Next]_vars
-----------------------------------------------------------------------------
Room(f) == Limit(f) * BlockWords

\* Word k of the blocks written is w.
StoredAt(k, w) ==
  \E b \in DOMAIN blocks : \E i \in DOMAIN blocks[b] :
    k = (b - 1) * BlockWords + i /\ blocks[b][i] = w

(* A file that is loaded is loaded whole: its words, in order, and nothing after
   them, whatever multiple of a block it fills (diskUtility.c:216-376). *)
LoadedWhole ==
  stage = "done" =>
    /\ \A n \in DOMAIN file.lines : \A p \in 1 .. Parts(file.lines[n]) :
         StoredAt(WordsOf(file, n - 1) + p, <<n, p>>)
    /\ \A b \in DOMAIN blocks :
         /\ Len(blocks[b]) = BlockWords
         /\ \A i \in 1 .. BlockWords :
              (b - 1) * BlockWords + i > Size(file) => blocks[b][i] = Empty

Blanks(f) == Cardinality({n \in DOMAIN f.lines : f.lines[n] = "blank"})

(* Every block allocated is written before the inode names it, and at most one
   block has no word of the file. *)
BlocksAllWritten ==
  stage = "done" /\ file.kind # "region" =>
    /\ Len(blocks) = need
    /\ need <= Ceiling(Size(file), BlockWords) + 1 + Blanks(file)

(* A file is refused only when it is larger than the room there is
   (diskUtility.c:737, "The size of file exceeds %d blocks"). *)
FitsIsLoaded ==
  stage = "refused" /\ file.kind = "exec" => Size(file) > Room(file)

(* The same of system code (diskUtility.c:509, "Code exceeds %d block"). *)
FitsRegionIsLoaded == stage = "cleared" => Size(file) > Room(file)

(* Likewise a data file (diskUtility.c:641-646). *)
DataFitsIsLoaded == stage = "refused" /\ file.kind = "data" => Size(file) > Room(file)

(* Export and cat show the blocks of the file and no others
   (diskUtility.c:111-122, 154-164; interface.c:85). *)
ShowsFile == stage = "shown" => shown = Len(blocks)
=============================================================================
