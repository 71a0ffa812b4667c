----------------------------- MODULE MCToolchain -----------------------------
(* The tools of MCTools, and the code the SPL compiler makes, which shares nothing
   with them: as there, each is explored by itself. *)
EXTENDS MCTools, MCSplCode

VARIABLE side                                \* "tools", or "code"

Regs == 0 :> 2 @@ 1 :> 5 @@ 20 :> 7
Mem  == 0 :> 3 @@ 1 :> 0 @@ 2 :> 1 @@ 3 :> 4 @@ 5 :> 2

toolVars == <<at, vars, displayVars, scopeVars>>

AllInit == \/ side = "tools" /\ MCInit /\ Starts(Null)
           \/ side = "code" /\ MCInit /\ at = "parser" /\ CodeInit

AllNext == \/ side = "tools" /\ MCNext /\ UNCHANGED <<side, codeVars>>
           \/ side = "code" /\ CodeNext /\ UNCHANGED <<side, toolVars>>

AllSpec == AllInit /\ [][AllNext]_<<side, toolVars, codeVars>>
                   /\ WF_codeVars(side = "code" /\ CodeNext)
=============================================================================
