---------------------------- MODULE MCFileSystem ----------------------------
(* One instance, looked at in four directions, each with few states.
   wide: two files besides the root file compete for blocks and the buffer, with
   one word each.  deep: one file grows over two blocks.  full: one process at a
   time has calls or open files, and the files and the disk may be full.
   many: the root file is open several times, and the table of open files may be
   full. *)
EXTENDS FileSystem, TLC

VARIABLE at

MCDeltas == {-1}

\* Processes and names are compared, never ordered.
Symmetry == Permutations(Pid) \cup Permutations(Names)

OneWord == \A p \in Pid : call[p].op = "write" => oft[call[p].file].lseek = 0
OneFile == inode[2] = Unlinked
NoFile  == \A i \in Inode \ {Root} : inode[i] = Unlinked
OneOpen == \A p \in Pid : MyFiles(p) \subseteq {0} /\ (call[p].op = "open" => call[p].slot = 0)
Alone   == \E p \in Pid : \A q \in Pid \ {p} : pc[q] = "user" /\ MyFiles(q) = {}

MCInit == at \in {"wide", "deep", "full", "many"} /\ Init

MCNext == /\ Next
          /\ at = "wide" => OneWord'
          /\ at = "deep" => OneFile'
          /\ at = "many" => NoFile'
          /\ at = "full" => Alone'
          /\ at # "many" => OneOpen'
          /\ UNCHANGED at

MCSpec == MCInit /\ [][MCNext]_<<vars, at>>
=============================================================================
