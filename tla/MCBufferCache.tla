---------------------------- MODULE MCBufferCache ----------------------------
(* BufferCache with two blocks that compete for one buffer. *)
EXTENDS BufferCache

MCDiskImage == [b \in Block |-> [o \in Offset |-> 0]]
MCEmptyPage == [o \in Offset |-> 0]
MCFileOf    == [b \in Block |-> b % NumInodes]

(* While there are three user processes, block 5 is only read and has never been
   written. *)
ThreeWriteFour ==
    status[3] # "TERMINATED" =>
        /\ \A p \in Pid : call[p].op = "write" => call[p].block = 4
        /\ disk[5] = DiskImage[5] /\ Content(5) = DiskImage[5]

(* Nobody reads what a process that is awake has waited for, the last process that
   had the disk when it is free, or the number of a block that shutdown has stored. *)
MCView == <<status, [p \in Pid |-> IF status[p] \in Sleeping THEN waitingOn[p] ELSE None],
            current, pc, call, lockVars, dataVars, diskBusy,
            IF diskBusy THEN diskPid ELSE None, device, sweep,
            IF pc[Root] = "flush" THEN flushBlock ELSE None, spared, halted>>
=============================================================================
