----------------------------- MODULE MCProcesses -----------------------------
(* The memory of processes, with two programs: one of two blocks, one of a single
   block whose second page of code has none. *)
EXTENDS Processes

FirstBlock == 70
MCPrograms == {[k \in Code |-> FirstBlock + k],
               [k \in Code |-> IF k = FirstCode THEN FirstBlock ELSE None]}

(* Only which entries share a page, not its number, makes a difference: of all the
   free pages any other would do as well as the first.  Nor does what a process
   that is not waiting last waited for. *)
Nameless == {<<Owners(g), users[g], page[g]>> : g \in Page}
View == <<Nameless, free, status, current, diskMap, ppid, stage, call,
          [p \in Pid |-> IF status[p] = "WAIT_PROCESS" THEN waitingOn[p] ELSE None]>>
=============================================================================
