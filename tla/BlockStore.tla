------------------------------ MODULE BlockStore ------------------------------
(***************************************************************************)
(* What the file manager promises the read and write system calls: words   *)
(* of disk blocks that are read and written one at a time, with no trace   *)
(* of the four buffers, the disk and the interrupts in between.            *)
(***************************************************************************)
CONSTANTS Block, Offset, Word

VARIABLES store,       \* the words, block by block
          delivered,   \* block, offset and word of a read, until the next call
          spared       \* shutdown has spared a process, and stores under it

vars == <<store, delivered, spared>>

Init ==
    /\ store \in [Block -> [Offset -> Word]]
    /\ delivered = <<>>
    /\ spared = FALSE

Read(b, o) ==
    /\ delivered' = <<b, o, store[b][o]>>
    /\ UNCHANGED <<store, spared>>

Write(b, o, w) ==
    /\ store' = [store EXCEPT ![b][o] = w]
    /\ UNCHANGED <<delivered, spared>>

(* A call begins: the answer of the last one is gone. *)
Begin ==
    /\ delivered' = <<>>
    /\ UNCHANGED <<store, spared>>

Spare ==
    /\ spared' = TRUE
    /\ UNCHANGED <<store, delivered>>

(***************************************************************************)
(* Shutdown stores a page under the number of the block that was in it     *)
(* before it waited for the disk.  A process it has spared may have put    *)
(* another block there.                                                    *)
(***************************************************************************)
Overwrite(b, c) ==
    /\ spared
    /\ store' = [store EXCEPT ![b] = store[c]]
    /\ UNCHANGED <<delivered, spared>>

Next ==
    \/ Begin \/ Spare
    \/ \E b \in Block, o \in Offset : Read(b, o)
    \/ \E b \in Block, o \in Offset, w \in Word : Write(b, o, w)
    \/ \E b, c \in Block : Overwrite(b, c)

Spec == Init /\ [][Next]_vars
=============================================================================
