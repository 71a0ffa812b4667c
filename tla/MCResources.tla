----------------------------- MODULE MCResources -----------------------------
(* Resources with the directory and one ordinary file, whose inode is the number
   of no process: FileOpenCounts needs that where "NONE" is Releasable. *)
EXTENDS Resources

CONSTANTS MaxShares,   \* bound: how far forks may raise a share count
          MaxStrays    \* bound: how far a share count may fall below that of a free entry

MCFile == {InodeRoot, 7}

(* What fork finds at an index word: 0 in a page that is new, -1 in one that exit left. *)
MCFresh == {0}
MCStray == {None}
MCLeft  == MCFresh \cup MCStray

Named(k) == References(FileEntry(k)) # {}

(* Uncounted and miscounted shares drive the counts away from zero without end. *)
CountsBounded ==
    /\ \A s \in Sem : count[s] \in -MaxStrays .. MaxShares
    /\ \A k \in OpenFile : Named(k) => openCount[k] \in None - MaxStrays .. MaxShares

(* Nobody reads the count of an open file that no resource table names, as open
   sets it, nor what a process that is awake has waited for. *)
MCView == <<status, [p \in Pid |-> IF status[p] \in Sleeping THEN waitingOn[p] ELSE None],
            current, semVars, openInode, fileOpens, resource, pc, slot, miscounted,
            [k \in OpenFile |-> IF Named(k) THEN openCount[k] ELSE None]>>
=============================================================================
