----------------------------- MODULE ToolsProofs -----------------------------
(***************************************************************************)
(* The promises of the tools around the machine: the debugger's, for every *)
(* program, every number of watch points and every count of steps or       *)
(* breakpoints, and for the tables it shows; and those of the SPL parser,  *)
(* for every program it reads.                                             *)
(***************************************************************************)
EXTENDS MCTools, FiniteSetTheorems, WellFoundedInduction, TLAPS

Phases   == {"run", "check", "prompt", "fault", "stopped"}
Commands == {"step", "continue"}
Status   == [state : BOOLEAN, skip : Nat, command : Commands, wp : Seq(Watchable)]

TypeOK ==
  /\ phase \in Phases
  /\ db \in Status
  /\ memLeft \in Addresses \cup {-1}
  /\ hit \in BOOLEAN
  /\ asked \in [command : Commands, count : 1 .. MaxCount]
  /\ steps \in Nat /\ brkps \in Nat

\* At a prompt nothing is left to skip, and the debugger is on.
AtPrompt == phase = "prompt" => db.state = TRUE /\ db.skip = 0

\* What is left to skip is what is left of the steps asked for.
Stepping ==
  asked.command = "step" =>
    /\ phase = "run" => steps + db.skip + 1 = asked.count
    /\ phase = "check" => steps + db.skip = asked.count
    /\ phase = "prompt" => steps = asked.count
    /\ phase \in {"run", "check"} =>
         db.state = TRUE /\ (db.skip > 0 => db.command = "step")

\* The same for breakpoints: the debugger is off until the next one.
Continuing ==
  asked.command = "continue" /\ db.wp = <<>> =>
    /\ phase = "run" => db.state = FALSE /\ brkps + db.skip + 1 = asked.count
    /\ phase = "check" => \/ db.state = TRUE /\ brkps + db.skip = asked.count
                          \/ db.state = FALSE /\ brkps + db.skip + 1 = asked.count
    /\ phase \in {"run", "check"} => (db.skip > 0 => db.command = "continue")

CountInv == TypeOK /\ AtPrompt /\ Stepping /\ Continuing

LEMMA StatusFields ==
    ASSUME NEW d \in Status
    PROVE  /\ d.state \in BOOLEAN /\ d.skip \in Nat
           /\ d.command \in Commands /\ d.wp \in Seq(Watchable)
BY DEF Status

LEMMA StatusUpdates ==
    ASSUME NEW d \in Status, NEW x \in BOOLEAN, NEW n \in Nat, NEW c \in Commands
    PROVE  /\ [d EXCEPT !.state = x] \in Status
           /\ [d EXCEPT !.skip = n, !.state = x] \in Status
           /\ [d EXCEPT !.skip = n, !.command = c] \in Status
           /\ [d EXCEPT !.skip = n, !.command = c, !.state = x] \in Status
BY DEF Status

LEMMA OneMore ==
    ASSUME NEW w \in Seq(Watchable), NEW a \in Watchable, NEW full \in BOOLEAN
    PROVE  (IF full THEN w ELSE Append(w, a)) \in Seq(Watchable)
OBVIOUS

LEMMA PointsUpdate ==
    ASSUME NEW d \in Status, NEW w \in Seq(Watchable)
    PROVE  /\ [d EXCEPT !.wp = w] \in Status
           /\ [d EXCEPT !.wp = w].skip = d.skip /\ [d EXCEPT !.wp = w].state = d.state
BY DEF Status

LEMMA SkipUpdate ==
    ASSUME NEW d \in Status, NEW x \in BOOLEAN, NEW n \in Nat
    PROVE  LET e == [d EXCEPT !.skip = n, !.state = x]
           IN  e.skip = n /\ e.state = x /\ e.command = d.command /\ e.wp = d.wp
BY DEF Status

\* A pending skip: one less, and the debugger stays on for steps only.
LEMMA ShownEffect ==
    ASSUME NEW d \in Status, d.skip # 0
    PROVE  /\ Shown(d) \in Status
           /\ Shown(d).skip = d.skip - 1 /\ d.skip > 0
           /\ Shown(d).command = d.command /\ Shown(d).wp = d.wp
           /\ Shown(d).state = (d.state /\ d.command # "continue")
<1>1. d.skip > 0 /\ d.skip - 1 \in Nat
  BY StatusFields
<1>2. PICK n \in Nat : n = d.skip - 1
  BY <1>1
<1>3. PICK x \in BOOLEAN : x = (d.state /\ d.command # "continue")
  OBVIOUS
<1>4. Shown(d) = [d EXCEPT !.skip = n, !.state = x]
  BY <1>1, <1>2, <1>3 DEF Shown
<1>5. "step" \in Commands
  BY DEF Commands
<1>6. Shown(d) \in Status
  BY <1>4, <1>5, StatusUpdates, ZenonT(40)
<1>7. /\ Shown(d).skip = n /\ Shown(d).state = x
      /\ Shown(d).command = d.command /\ Shown(d).wp = d.wp
  BY <1>4, SkipUpdate
<1> QED BY <1>1, <1>2, <1>3, <1>6, <1>7

LEMMA InitCount == Init => CountInv
<1> SUFFICES ASSUME Init PROVE CountInv
  OBVIOUS
<1>1. <<>> \in Seq(Watchable)
  OBVIOUS
<1>2. db \in Status
  BY <1>1 DEF Init, Status, Commands
<1>3. asked \in [command : Commands, count : 1 .. MaxCount]
  BY DebuggerAssumption DEF Init, Commands
<1>4. db.state = FALSE /\ db.skip = 0 /\ asked.command = "continue" /\ asked.count = 1
  BY DEF Init
<1>5. phase = "run" /\ memLeft = -1 /\ hit = FALSE /\ steps = 0 /\ brkps = 0
  BY DEF Init
<1>6. TypeOK
  BY <1>2, <1>3, <1>5 DEF TypeOK, Phases
<1> QED BY <1>4, <1>5, <1>6 DEF CountInv, AtPrompt, Stepping, Continuing

\* An instruction: it takes one from the steps, and a BRKP one from the breakpoints.
LEMMA ExecuteCount ==
    ASSUME CountInv, NEW w \in Seq(Addresses), NEW b \in BOOLEAN, Execute(w, b)
    PROVE  CountInv'
<1> USE DebuggerAssumption
<1>1. memLeft' \in Addresses \cup {-1}
  BY DEF Execute, CountInv, TypeOK, Last
<1>2. /\ db' = IF b THEN [db EXCEPT !.state = TRUE] ELSE db
      /\ phase = "run" /\ phase' = "check"
      /\ steps' = Counted(steps) /\ brkps' = IF b THEN Counted(brkps) ELSE brkps
      /\ UNCHANGED <<watched, hit, asked>>
  BY DEF Execute
<1>3. db' \in Status
  BY <1>2, StatusUpdates DEF CountInv, TypeOK, Commands
<1>4. TypeOK'
  BY <1>1, <1>2, <1>3 DEF CountInv, TypeOK, Counted, Phases
<1>5. AtPrompt'
  BY <1>2 DEF AtPrompt
<1>6. /\ db'.skip = db.skip /\ db'.command = db.command /\ db'.wp = db.wp
      /\ db'.state = IF b THEN TRUE ELSE db.state
  BY <1>2, StatusFields DEF CountInv, TypeOK, Status
<1>7. db.skip \in Nat /\ asked.count \in 1 .. MaxCount /\ steps \in Nat /\ brkps \in Nat
  BY StatusFields DEF CountInv, TypeOK
<1>8. Stepping'
  BY <1>2, <1>6, <1>7 DEF CountInv, Stepping, Counted
<1>9. Continuing'
  BY <1>2, <1>6, <1>7 DEF CountInv, Continuing, Counted
<1> QED BY <1>4, <1>5, <1>8, <1>9 DEF CountInv

\* Between two instructions: a pending skip is used up, or the user is asked.
LEMMA NextStepCount ==
    ASSUME CountInv, NextStep
    PROVE  CountInv'
<1> DEFINE found == memLeft > 0 /\ WatchTest
           on == [db EXCEPT !.state = @ \/ found]
<1>1. /\ phase = "check"
      /\ hit' = found
      /\ db' = IF on.state THEN Shown(on) ELSE on
      /\ phase' = IF on.state /\ on.skip = 0 THEN "prompt" ELSE "run"
      /\ memLeft' = -1
      /\ UNCHANGED <<watched, asked, steps, brkps>>
  BY DEF NextStep
<1>2. TypeOK /\ AtPrompt /\ Stepping /\ Continuing
  BY DEF CountInv
<1>3. found \in BOOLEAN /\ (db.wp = <<>> => ~found)
  BY DEF WatchTest
<1> HIDE DEF found
<1>4. /\ on \in Status
      /\ on.skip = db.skip /\ on.command = db.command /\ on.wp = db.wp
      /\ on.state = (db.state \/ found)
  <2>1. on = [db EXCEPT !.state = (db.state \/ found)]
    OBVIOUS
  <2>2. (db.state \/ found) \in BOOLEAN
    BY <1>3
  <2>3. on \in Status
    BY <1>2, <2>1, <2>2, StatusUpdates DEF TypeOK, Commands
  <2>4. DOMAIN db = {"state", "skip", "command", "wp"}
    BY <1>2 DEF TypeOK, Status
  <2> QED BY <2>1, <2>3, <2>4
<1> HIDE DEF on
<1>5. CASE on.state = FALSE
  <2>1. db' = on /\ phase' = "run"
    BY <1>1, <1>5
  <2>2. TypeOK'
    BY <1>1, <1>2, <1>3, <1>4, <2>1 DEF TypeOK, Phases
  <2>3. AtPrompt' /\ Stepping'
    BY <1>1, <1>2, <1>4, <1>5, <2>1 DEF AtPrompt, Stepping
  <2>4. Continuing'
    BY <1>1, <1>2, <1>3, <1>4, <1>5, <2>1 DEF Continuing
  <2> QED BY <2>2, <2>3, <2>4 DEF CountInv
<1>6. CASE on.state = TRUE /\ on.skip = 0
  <2>1. db' = on /\ phase' = "prompt"
    BY <1>1, <1>6 DEF Shown
  <2>2. TypeOK'
    BY <1>1, <1>2, <1>3, <1>4, <2>1 DEF TypeOK, Phases
  <2>3. AtPrompt' /\ Continuing'
    BY <1>6, <2>1 DEF AtPrompt, Continuing
  <2>4. Stepping'
    BY <1>1, <1>2, <1>4, <1>6, <2>1 DEF Stepping, TypeOK
  <2> QED BY <2>2, <2>3, <2>4 DEF CountInv
<1>7. CASE on.state = TRUE /\ on.skip # 0
  <2>1. db' = Shown(on) /\ phase' = "run"
    BY <1>1, <1>7
  <2>2. /\ db' \in Status /\ db'.skip = db.skip - 1 /\ db.skip > 0
        /\ db'.command = db.command /\ db'.wp = db.wp
        /\ db'.state = (on.state /\ db.command # "continue")
    BY <1>4, <1>7, <2>1, ShownEffect
  <2>0. db.skip \in Nat /\ db.state \in BOOLEAN
    BY <1>2, StatusFields DEF TypeOK
  <2>3. TypeOK'
    BY <1>1, <1>2, <1>3, <2>1, <2>2 DEF TypeOK, Phases
  <2>4. AtPrompt' /\ Stepping'
    BY <1>1, <1>2, <1>7, <2>0, <2>1, <2>2 DEF AtPrompt, Stepping, TypeOK
  <2>5. Continuing'
    BY <1>1, <1>2, <1>3, <1>4, <1>7, <2>0, <2>1, <2>2 DEF Continuing, TypeOK
  <2> QED BY <2>3, <2>4, <2>5 DEF CountInv
<1> QED BY <1>4, <1>5, <1>6, <1>7, StatusFields

\* Step n and continue n leave n - 1 to be skipped.
LEMMA ResumeCount ==
    ASSUME CountInv, NEW n \in 1 .. MaxCount, Step(n) \/ Continue(n)
    PROVE  CountInv'
<1> USE DebuggerAssumption
<1>1. TypeOK /\ AtPrompt
  BY DEF CountInv
<1>2. /\ phase \in {"prompt", "fault"}
      /\ phase' = IF phase = "prompt" THEN "run" ELSE "stopped"
      /\ steps' = 0 /\ brkps' = 0
      /\ UNCHANGED <<memLeft, written, watched, hit>>
  BY DEF Step, Continue, Prompt, Resume
<1>3. CASE Step(n)
  <2>1. /\ asked' = [command |-> "step", count |-> n]
        /\ db' = IF n - 1 > 0 THEN [db EXCEPT !.skip = n - 1, !.command = "step"] ELSE db
    BY <1>3 DEF Step, SkipN
  <2>0. db \in Status /\ n - 1 \in Nat /\ "step" \in Commands
    BY <1>1 DEF TypeOK, Commands
  <2>2. db' \in Status
    <3>1. CASE n - 1 > 0
      BY <3>1, <2>0, <2>1, StatusUpdates
    <3>2. CASE ~(n - 1 > 0)
      BY <3>2, <2>0, <2>1, StatusUpdates
    <3> QED BY <3>1, <3>2
  <2>3. asked' \in [command : Commands, count : 1 .. MaxCount]
    BY <2>1 DEF Commands
  <2>4. TypeOK'
    BY <1>1, <1>2, <2>2, <2>3 DEF TypeOK, Phases
  <2>5. phase = "prompt" => /\ db'.skip = n - 1 /\ db'.state = TRUE
                             /\ (n - 1 > 0 => db'.command = "step")
    BY <1>1, <1>2, <2>1 DEF TypeOK, Status, AtPrompt
  <2>6. AtPrompt' /\ Stepping' /\ Continuing'
    BY <1>1, <1>2, <2>1, <2>5 DEF AtPrompt, Stepping, Continuing
  <2> QED BY <2>4, <2>6 DEF CountInv
<1>4. CASE Continue(n)
  <2>1. /\ asked' = [command |-> "continue", count |-> n]
        /\ db' = IF n - 1 > 0
                 THEN [db EXCEPT !.skip = n - 1, !.command = "continue", !.state = FALSE]
                 ELSE [db EXCEPT !.state = FALSE]
    BY <1>1, <1>4 DEF Continue, SkipN, TypeOK
  <2>0. db \in Status /\ n - 1 \in Nat /\ "continue" \in Commands
    BY <1>1 DEF TypeOK, Commands
  <2>2. db' \in Status
    <3>1. CASE n - 1 > 0
      BY <3>1, <2>0, <2>1, StatusUpdates
    <3>2. CASE ~(n - 1 > 0)
      BY <3>2, <2>0, <2>1, StatusUpdates
    <3> QED BY <3>1, <3>2
  <2>3. asked' \in [command : Commands, count : 1 .. MaxCount]
    BY <2>1 DEF Commands
  <2>4. TypeOK'
    BY <1>1, <1>2, <2>2, <2>3 DEF TypeOK, Phases
  <2>5. phase = "prompt" => /\ db'.skip = n - 1 /\ db'.state = FALSE
                             /\ (n - 1 > 0 => db'.command = "continue")
    BY <1>1, <1>2, <2>1 DEF TypeOK, Status, AtPrompt
  <2>6. AtPrompt' /\ Stepping' /\ Continuing'
    BY <1>1, <1>2, <2>1, <2>5 DEF AtPrompt, Stepping, Continuing
  <2> QED BY <2>4, <2>6 DEF CountInv
<1> QED BY <1>3, <1>4

LEMMA NextCount ==
    ASSUME CountInv, Next
    PROVE  CountInv'
<1> USE DEF CountInv, TypeOK, AtPrompt, Stepping, Continuing, Phases
<1>1. CASE Plain \/ Brkp
  <2>1. <<>> \in Seq(Addresses)
    OBVIOUS
  <2> QED BY <1>1, <2>1, ExecuteCount DEF Plain, Brkp
<1>2. CASE Write
  <2>1. PICK a \in Addresses : Execute(<<a>>, FALSE)
    BY <1>2 DEF Write
  <2>2. <<a>> \in Seq(Addresses)
    OBVIOUS
  <2> QED BY <2>1, <2>2, ExecuteCount
<1>3. CASE DoubleWrite
  <2>1. PICK a, b \in Addresses : Execute(<<a, b>>, FALSE)
    BY <1>3 DEF DoubleWrite
  <2>2. <<a, b>> \in Seq(Addresses)
    OBVIOUS
  <2> QED BY <2>1, <2>2, ExecuteCount
<1>4. CASE NextStep
  BY <1>4, NextStepCount
<1>5. CASE KernelFault
  <2>1. /\ phase = "run" /\ phase' \in {"fault", "stopped"}
        /\ db' = Shown(db)
        /\ UNCHANGED <<memLeft, hit, asked, steps, brkps>>
    BY <1>5 DEF KernelFault
  <2>2. db' \in Status
    <3>1. CASE db.skip # 0
      BY <3>1, <2>1, ShownEffect
    <3>2. CASE db.skip = 0
      BY <3>2, <2>1 DEF Shown
    <3> QED BY <3>1, <3>2
  <2> QED BY <2>1, <2>2
<1>6. ASSUME NEW n \in 1 .. MaxCount, Step(n) \/ Continue(n) PROVE CountInv'
  BY <1>6, ResumeCount
<1>7. ASSUME NEW a \in Watchable, Watch(a) PROVE CountInv'
  <2>1. /\ phase \in {"prompt", "fault"}
        /\ db' = [db EXCEPT !.wp = IF Len(db.wp) >= MaxWatch THEN db.wp ELSE Append(db.wp, a)]
        /\ UNCHANGED <<phase, memLeft, hit, asked, steps, brkps>>
    BY <1>7 DEF Watch, Prompt
  <2>0. db \in Status
    OBVIOUS
  <2>2. PICK w \in Seq(Watchable) :
          w = IF Len(db.wp) >= MaxWatch THEN db.wp ELSE Append(db.wp, a)
    BY <2>0, StatusFields, OneMore
  <2>3. db' \in Status /\ db'.skip = db.skip /\ db'.state = db.state
    BY <2>0, <2>1, <2>2, PointsUpdate
  <2> QED BY <2>1, <2>3
<1>8. CASE WatchClear
  <2>1. <<>> \in Seq(Watchable)
    OBVIOUS
  <2>2. db' \in Status /\ db'.skip = db.skip /\ db'.state = db.state
    BY <1>8, <2>1 DEF WatchClear, Status
  <2> QED BY <1>8, <2>2 DEF WatchClear, Prompt
<1>9. CASE Exit
  <2>1. db' \in Status
    BY <1>9, StatusUpdates DEF Exit, Commands
  <2> QED BY <1>9, <2>1 DEF Exit, Prompt
<1> QED BY <1>1, <1>2, <1>3, <1>4, <1>5, <1>6, <1>7, <1>8, <1>9 DEF Next

(***************************************************************************)
(* What is left to skip is what is left of the last command, at every      *)
(* moment and for every program.                                           *)
(***************************************************************************)
THEOREM CountSafety == Spec => []CountInv
<1>1. CountInv /\ UNCHANGED vars => CountInv'
  BY DEF CountInv, TypeOK, AtPrompt, Stepping, Continuing, vars
<1> QED BY <1>1, InitCount, NextCount, PTL DEF Spec

(***************************************************************************)
(* A prompt after step N comes after exactly N instructions, whatever      *)
(* breakpoints, watch points and skips lie between (debug.c:1194).         *)
(***************************************************************************)
THEOREM StepsAreExact == Spec => []StepExact
<1>1. CountInv => StepExact
  BY DEF CountInv, Stepping, StepExact
<1> QED BY <1>1, CountSafety, PTL

(***************************************************************************)
(* Without watch points, a prompt after continue N comes at the N'th BRKP  *)
(* (debug.c:1196).                                                         *)
(***************************************************************************)
THEOREM ContinuesAreExact == Spec => ContinueExact
<1>1. ASSUME CountInv, Next, phase = "check", phase' = "prompt",
             asked.command = "continue", db.wp = <<>>
      PROVE  brkps = asked.count
  <2>1. NextStep
    BY <1>1 DEF Next, Plain, Brkp, Write, DoubleWrite, Execute, KernelFault, Step, Continue,
                Watch, WatchClear, Exit, Prompt
  <2>2. ~WatchTest
    BY <1>1 DEF WatchTest
  <2> DEFINE on == [db EXCEPT !.state = @ \/ (memLeft > 0 /\ WatchTest)]
  <2>4. db \in Status /\ on.state /\ on.skip = 0
    BY <1>1, <2>1 DEF NextStep, CountInv, TypeOK
  <2>5. on.state = db.state /\ on.skip = db.skip
    BY <2>2, <2>4 DEF Status
  <2>3. db.state = TRUE /\ db.skip = 0
    BY <2>4, <2>5, StatusFields
  <2> QED BY <1>1, <2>3 DEF CountInv, Continuing, TypeOK
<1>2. CountInv /\ [Next]_vars =>
        [phase = "check" /\ phase' = "prompt" /\ asked.command = "continue" /\ db.wp = <<>>
           => brkps = asked.count]_vars
  BY <1>1
<1> QED BY <1>2, CountSafety, PTL DEF Spec, ContinueExact

(***************************************************************************)
(* Reporting writes.  Where no watch command is refused, the addresses the *)
(* user was told of are the ones in the table; before the check memLeft is *)
(* the last of the words the instruction wrote, and otherwise it is empty. *)
(***************************************************************************)
ReportInv ==
  /\ db \in Status
  /\ watched = {db.wp[i] : i \in DOMAIN db.wp}
  /\ IF phase = "check"
     THEN \/ memLeft = -1 /\ written = {}
          \/ memLeft \in Addresses /\ memLeft \in written
     ELSE memLeft = -1 /\ written = {}

\* Shown and SkipN touch neither the table nor the type.
LEMMA SameTable ==
    ASSUME NEW d \in Status, NEW n \in 1 .. MaxCount, NEW c \in Commands
    PROVE  /\ Shown(d) \in Status /\ Shown(d).wp = d.wp
           /\ SkipN(d, n, c) \in Status /\ SkipN(d, n, c).wp = d.wp
<1>1. Shown(d) \in Status /\ Shown(d).wp = d.wp
  <2>1. CASE d.skip # 0
    BY <2>1, ShownEffect
  <2>2. CASE d.skip = 0
    BY <2>2 DEF Shown
  <2> QED BY <2>1, <2>2
<1>2. n - 1 \in Nat
  BY DebuggerAssumption
<1>3. CASE n - 1 > 0
  <2>1. PICK m \in Nat : m = n - 1
    BY <1>2
  <2>2. SkipN(d, n, c) = [d EXCEPT !.skip = m, !.command = c]
    BY <1>3, <2>1 DEF SkipN
  <2>3. [d EXCEPT !.skip = m, !.command = c] \in Status
    BY TRUE \in BOOLEAN, StatusUpdates
  <2>4. [d EXCEPT !.skip = m, !.command = c].wp = d.wp
    BY DEF Status
  <2> QED BY <1>1, <2>2, <2>3, <2>4
<1>4. CASE ~(n - 1 > 0)
  BY <1>1, <1>4 DEF SkipN
<1> QED BY <1>3, <1>4

LEMMA StateUpdate ==
    ASSUME NEW d \in Status, NEW x \in BOOLEAN
    PROVE  [d EXCEPT !.state = x] \in Status /\ [d EXCEPT !.state = x].wp = d.wp
BY DEF Status

LEMMA AddedPoint ==
    ASSUME NEW w \in Seq(Watchable), NEW a \in Watchable
    PROVE  LET v == Append(w, a)
           IN  /\ v \in Seq(Watchable)
               /\ {v[i] : i \in DOMAIN v} = {w[i] : i \in DOMAIN w} \cup {a}
<1> DEFINE v == Append(w, a)
<1>1. /\ v \in Seq(Watchable) /\ Len(v) = Len(w) + 1 /\ Len(w) \in Nat
      /\ v[Len(w) + 1] = a
      /\ DOMAIN v = 1 .. Len(w) + 1 /\ DOMAIN w = 1 .. Len(w)
  OBVIOUS
<1>2. \A i \in 1 .. Len(w) : v[i] = w[i]
  OBVIOUS
<1>3. 1 .. Len(w) + 1 = (1 .. Len(w)) \cup {Len(w) + 1}
  BY <1>1
<1> QED BY <1>1, <1>2, <1>3

LEMMA InitReport == Init => ReportInv
<1> SUFFICES ASSUME Init PROVE ReportInv
  OBVIOUS
<1>1. db \in Status
  BY InitCount DEF CountInv, TypeOK
<1> QED BY <1>1 DEF Init, ReportInv

LEMMA ExecuteReport ==
    ASSUME ReportInv, NEW w \in Seq(Addresses), NEW b \in BOOLEAN, Execute(w, b)
    PROVE  ReportInv'
<1>1. db' \in Status /\ db'.wp = db.wp
  BY StateUpdate DEF Execute, ReportInv
<1>2. phase = "run" /\ phase' = "check" /\ watched' = watched
  BY DEF Execute
<1>3. CASE w = <<>>
  <2>1. memLeft' = -1 /\ written' = {}
    BY <1>2, <1>3 DEF Execute, ReportInv, ToSet
  <2> QED BY <1>1, <1>2, <2>1 DEF ReportInv
<1>4. CASE w # <<>>
  <2>1. Len(w) \in DOMAIN w /\ w[Len(w)] \in Addresses
    BY <1>4
  <2>2. memLeft' = w[Len(w)] /\ written' = {w[i] : i \in DOMAIN w}
    BY <1>4 DEF Execute, ToSet, Last
  <2> QED BY <1>1, <1>2, <2>1, <2>2 DEF ReportInv
<1> QED BY <1>3, <1>4

LEMMA NextReport ==
    ASSUME WatchLimit =< MaxWatch, ReportInv, Next
    PROVE  ReportInv'
<1>1. CASE Plain \/ Brkp
  <2>1. <<>> \in Seq(Addresses)
    OBVIOUS
  <2> QED BY <1>1, <2>1, ExecuteReport DEF Plain, Brkp
<1>2. CASE Write
  <2>1. PICK a \in Addresses : Execute(<<a>>, FALSE)
    BY <1>2 DEF Write
  <2>2. <<a>> \in Seq(Addresses)
    OBVIOUS
  <2> QED BY <2>1, <2>2, ExecuteReport
<1>3. CASE DoubleWrite
  <2>1. PICK a, b \in Addresses : Execute(<<a, b>>, FALSE)
    BY <1>3 DEF DoubleWrite
  <2>2. <<a, b>> \in Seq(Addresses)
    OBVIOUS
  <2> QED BY <2>1, <2>2, ExecuteReport
<1>d. db \in Status
  BY DEF ReportInv
<1>n. 1 \in 1 .. MaxCount /\ "step" \in Commands /\ "continue" \in Commands
  BY DebuggerAssumption DEF Commands
<1>4. CASE NextStep
  <2>1. PICK x \in BOOLEAN : x = (db.state \/ (memLeft > 0 /\ WatchTest))
    BY StatusFields, <1>d
  <2> DEFINE on == [db EXCEPT !.state = x]
  <2>2. on \in Status /\ on.wp = db.wp
    BY <1>d, StateUpdate
  <2>3. db' = IF on.state THEN Shown(on) ELSE on
    BY <1>4, <2>1 DEF NextStep
  <2>4. db' \in Status /\ db'.wp = db.wp
    BY <1>n, <2>2, <2>3, SameTable
  <2>5. /\ phase' \in {"prompt", "run"} /\ memLeft' = -1 /\ written' = {}
        /\ watched' = watched
    BY <1>4 DEF NextStep
  <2> QED BY <2>4, <2>5 DEF ReportInv
<1>5. CASE KernelFault
  <2>1. db' \in Status /\ db'.wp = db.wp
    BY <1>5, <1>d, <1>n, SameTable DEF KernelFault
  <2> QED BY <1>5, <2>1 DEF KernelFault, ReportInv
<1>6. ASSUME NEW n \in 1 .. MaxCount, Step(n) \/ Continue(n) PROVE ReportInv'
  <2>1. SkipN(db, n, "continue") \in Status /\ SkipN(db, n, "continue").wp = db.wp
    BY <1>d, <1>n, SameTable
  <2>2. db' \in Status /\ db'.wp = db.wp
    <3>1. CASE Step(n)
      BY <1>d, <1>n, <3>1, SameTable DEF Step
    <3>2. CASE Continue(n)
      BY <2>1, <3>2, StateUpdate DEF Continue
    <3> QED BY <1>6, <3>1, <3>2
  <2>3. phase # "check" /\ phase' # "check" /\ UNCHANGED <<memLeft, written, watched>>
    BY <1>6 DEF Step, Continue, Prompt, Resume
  <2> QED BY <2>2, <2>3 DEF ReportInv
<1>7. ASSUME NEW a \in Watchable, Watch(a) PROVE ReportInv'
  <2>1. db.wp \in Seq(Watchable) /\ Len(db.wp) < WatchLimit
    BY <1>7, <1>d, StatusFields DEF Watch
  <2>2. ~(Len(db.wp) >= MaxWatch)
    BY <2>1, DebuggerAssumption
  <2>3. PICK v \in Seq(Watchable) :
          v = Append(db.wp, a) /\ {v[i] : i \in DOMAIN v} = watched \cup {a}
    BY <2>1, AddedPoint DEF ReportInv
  <2>4. db' = [db EXCEPT !.wp = v]
    BY <1>7, <2>2, <2>3 DEF Watch
  <2>5. db' \in Status /\ db'.wp = v
    BY <1>d, <2>4 DEF Status
  <2> QED BY <1>7, <2>3, <2>5 DEF Watch, Prompt, ReportInv
<1>8. CASE WatchClear
  <2>1. <<>> \in Seq(Watchable)
    OBVIOUS
  <2>2. db' \in Status /\ db'.wp = <<>>
    BY <1>8, <1>d, <2>1 DEF WatchClear, Status
  <2> QED BY <1>8, <2>2 DEF WatchClear, Prompt, ReportInv
<1>9. CASE Exit
  <2>1. db' \in Status /\ db'.wp = db.wp
    BY <1>9, <1>d, StateUpdate DEF Exit
  <2> QED BY <1>9, <2>1 DEF Exit, Prompt, ReportInv
<1> QED BY <1>1, <1>2, <1>3, <1>4, <1>5, <1>6, <1>7, <1>8, <1>9 DEF Next

(***************************************************************************)
(* With room in the table and no watch on address 0, a write to a watched  *)
(* address is reported before the next instruction and nothing else is,    *)
(* also where one instruction writes two words (debug.c:1223).             *)
(***************************************************************************)
THEOREM WritesAreReported ==
    ASSUME WatchLimit =< MaxWatch, 0 \notin Addresses \cup Watchable
    PROVE  Spec => WritesReported
<1>1. ReportInv /\ UNCHANGED vars => ReportInv'
  BY DEF ReportInv, vars
<1>2. Spec => []ReportInv
  BY <1>1, InitReport, NextReport, PTL DEF Spec
<1>3. ASSUME ReportInv, Next, phase = "check"
      PROVE  /\ hit' => written \cap watched # {}
             /\ written # {} /\ written \subseteq watched => hit'
  <2>1. hit' = (memLeft > 0 /\ WatchTest)
    BY <1>3 DEF Next, Plain, Brkp, Write, DoubleWrite, Execute, NextStep, KernelFault,
                Step, Continue, Watch, WatchClear, Exit, Prompt
  <2>2. \A i \in DOMAIN db.wp : db.wp[i] # 0
    BY <1>3, StatusFields DEF ReportInv
  <2>3. WatchTest <=> memLeft \in watched
    BY <1>3, <2>2 DEF WatchTest, ReportInv
  <2>4. memLeft \in Addresses => memLeft > 0
    BY DebuggerAssumption
  <2>5. CASE memLeft = -1 /\ written = {}
    <3>0. ~(memLeft > 0)
      BY <2>5
    <3>1. ~hit'
      BY <2>1, <3>0
    <3> QED BY <2>5, <3>1
  <2>6. CASE memLeft \in Addresses /\ memLeft \in written
    <3>1. CASE memLeft \in watched
      <4>1. hit'
        BY <2>1, <2>3, <2>4, <2>6, <3>1
      <4> QED BY <2>6, <3>1, <4>1
    <3>2. CASE memLeft \notin watched
      <4>1. ~hit'
        BY <2>1, <2>3, <3>2
      <4> QED BY <2>6, <3>2, <4>1
    <3> QED BY <3>1, <3>2
  <2> QED BY <1>3, <2>5, <2>6 DEF ReportInv
<1>4. ReportInv /\ [Next]_vars =>
        [phase = "check" => /\ hit' => written \cap watched # {}
                            /\ written # {} /\ written \subseteq watched => hit']_vars
  BY <1>3
<1> QED BY <1>2, <1>4, PTL DEF Spec, WritesReported

-----------------------------------------------------------------------------
(* The tables the debugger shows. *)

\* Where each field of an entry is: what the fields before it take.
Offset ==
  [ pcb |-> <<0, 1, 2, 3, 4, 6, 7, 8, 9, 10, 11, 12, 13, 14, 15>>,
    filetable |-> <<0, 1, 2, 3>>,
    semtable |-> <<0, 1, 2>>,
    memfreelist |-> <<0>>,
    filestatus |-> <<0, 1, 2>>,
    diskstatus |-> <<0, 1, 2, 3, 4, 5>>,
    system |-> <<0, 1, 2, 3, 4, 5, 6>>,
    terminal |-> <<0, 1, 2>>,
    pagetable |-> <<0, 1>>,
    buffer |-> <<0, 1, 2, 3>>,
    diskmap |-> <<0, 2, 3, 4, 5, 6, 7, 8, 9>>,
    inode |-> <<0, 1, 2, 3, 4, 5, 8, 9, 10, 11, 12>>,
    usertable |-> <<0, 1>>,
    diskfree |-> <<0>>,
    rootfile |-> <<0, 1, 2, 3, 4, 5>>,
    resource |-> <<0, 1>> ]

\* A table of the debugger is the kernel's: same base, same stride, and the
\* kernel keeps what a label names where the fields before it end.
Agrees(t, base, count, size) ==
  /\ Display!Layout[t].base = base /\ Display!Layout[t].count = count
  /\ Display!KernelTable[t].base = base /\ Display!KernelTable[t].size = size
  /\ LET f == Display!Layout[t].fields
         n == Len(f)
     IN  /\ n \in Nat \ {0} /\ Offset[t][1] = 0
         /\ \A i \in 1 .. n : Offset[t][i] \in Nat /\ f[i][2] \in Nat
         /\ \A i \in 1 .. n - 1 : Offset[t][i + 1] = Offset[t][i] + f[i][2]
         /\ Offset[t][n] + f[n][2] = size
         /\ \A w \in Display!KernelTable[t].words : \A i \in 1 .. n :
              f[i][1] = w[1] => Offset[t][i] = w[2]

LEMMA TablesAgree ==
  /\ Agrees("pcb", 28672, 16, 16)
  /\ Agrees("filetable", 28928, 32, 4)
  /\ Agrees("semtable", 29056, 32, 4)
  /\ Agrees("memfreelist", 29184, 128, 1)
  /\ Agrees("filestatus", 29312, 60, 4)
  /\ Agrees("diskstatus", 29552, 1, 8)
  /\ Agrees("system", 29560, 1, 8)
  /\ Agrees("terminal", 29568, 1, 4)
  /\ Agrees("pagetable", 29696, 160, 2)
  /\ Agrees("buffer", 30016, 4, 4)
  /\ Agrees("diskmap", 30032, 16, 10)
  /\ Agrees("inode", 30208, 60, 16)
  /\ Agrees("usertable", 31168, 16, 2)
  /\ Agrees("diskfree", 31232, 512, 1)
  /\ Agrees("rootfile", 31744, 60, 8)
  /\ Agrees("resource", 1008, 8, 2)
<1>1. Agrees("pcb", 28672, 16, 16)
  <2> DEFINE f == Display!Pcb.fields
             K == Display!KernelTable["pcb"]
  <2>1. /\ Display!Layout["pcb"] = Display!Pcb /\ Display!Pcb.base = 28672 /\ Display!Pcb.count = 16
        /\ K.base = 28672 /\ K.size = 16 /\ Len(f) = 15
    BY DEF Display!Layout, Display!Pcb, Display!L, Display!F, Display!Unused, Display!KernelTable, Display!Kernel
  <2>2. /\ \A i \in 1 .. 15 : Offset["pcb"][i] \in Nat /\ f[i][2] \in Nat
        /\ \A i \in 1 .. 14 : Offset["pcb"][i + 1] = Offset["pcb"][i] + f[i][2]
        /\ Offset["pcb"][15] + f[15][2] = 16 /\ Offset["pcb"][1] = 0
    BY DEF Offset, Display!Pcb, Display!L, Display!F, Display!Unused
  <2>3. \A w \in K.words : \A i \in 1 .. 15 : f[i][1] = w[1] => Offset["pcb"][i] = w[2]
    BY DEF Offset, Display!KernelTable, Display!Kernel, Display!Pcb, Display!L, Display!F, Display!Unused
  <2>4. /\ Display!Layout["pcb"].fields = f /\ Display!KernelTable["pcb"] = K
        /\ Display!Layout["pcb"].base = Display!Pcb.base /\ Display!Layout["pcb"].count = Display!Pcb.count
    BY <2>1
  <2> HIDE DEF f, K
  <2>5. Len(f) \in Nat \ {0} /\ Len(f) - 1 = 14
    BY <2>1
  <2>6. /\ Display!Layout["pcb"].fields = f /\ Display!KernelTable["pcb"].words = K.words
        /\ \A i \in 1 .. Len(f) : Offset["pcb"][i] \in Nat /\ f[i][2] \in Nat
        /\ \A i \in 1 .. Len(f) - 1 : Offset["pcb"][i + 1] = Offset["pcb"][i] + f[i][2]
        /\ Offset["pcb"][Len(f)] + f[Len(f)][2] = 16 /\ Offset["pcb"][1] = 0
        /\ \A w \in K.words : \A i \in 1 .. Len(f) : f[i][1] = w[1] => Offset["pcb"][i] = w[2]
    BY <2>1, <2>2, <2>3, <2>4, <2>5
  <2>7. /\ Display!Layout["pcb"].base = 28672 /\ Display!Layout["pcb"].count = 16
        /\ Display!KernelTable["pcb"].base = 28672 /\ Display!KernelTable["pcb"].size = 16
    BY <2>1, <2>4
  <2>8. Len(f) \in Nat \ {0} /\ Display!Layout["pcb"].fields = f
    BY <2>5, <2>6
  <2> QED BY <2>6, <2>7, <2>8, SMTT(60) DEF Agrees
<1>2. Agrees("filetable", 28928, 32, 4)
  <2> DEFINE f == Display!FileTable.fields
             K == Display!KernelTable["filetable"]
  <2>1. /\ Display!Layout["filetable"] = Display!FileTable /\ Display!FileTable.base = 28928 /\ Display!FileTable.count = 32
        /\ K.base = 28928 /\ K.size = 4 /\ Len(f) = 4
    BY DEF Display!Layout, Display!FileTable, Display!L, Display!F, Display!Unused, Display!KernelTable, Display!Kernel
  <2>2. /\ \A i \in 1 .. 4 : Offset["filetable"][i] \in Nat /\ f[i][2] \in Nat
        /\ \A i \in 1 .. 3 : Offset["filetable"][i + 1] = Offset["filetable"][i] + f[i][2]
        /\ Offset["filetable"][4] + f[4][2] = 4 /\ Offset["filetable"][1] = 0
    BY DEF Offset, Display!FileTable, Display!L, Display!F, Display!Unused
  <2>3. \A w \in K.words : \A i \in 1 .. 4 : f[i][1] = w[1] => Offset["filetable"][i] = w[2]
    BY DEF Offset, Display!KernelTable, Display!Kernel, Display!FileTable, Display!L, Display!F, Display!Unused
  <2> HIDE DEF f, K
  <2> QED BY <2>1, <2>2, <2>3 DEF Agrees, f, K
<1>3. Agrees("semtable", 29056, 32, 4)
  <2> DEFINE f == Display!SemTable.fields
             K == Display!KernelTable["semtable"]
  <2>1. /\ Display!Layout["semtable"] = Display!SemTable /\ Display!SemTable.base = 29056 /\ Display!SemTable.count = 32
        /\ K.base = 29056 /\ K.size = 4 /\ Len(f) = 3
    BY DEF Display!Layout, Display!SemTable, Display!L, Display!F, Display!Unused, Display!KernelTable, Display!Kernel
  <2>2. /\ \A i \in 1 .. 3 : Offset["semtable"][i] \in Nat /\ f[i][2] \in Nat
        /\ \A i \in 1 .. 2 : Offset["semtable"][i + 1] = Offset["semtable"][i] + f[i][2]
        /\ Offset["semtable"][3] + f[3][2] = 4 /\ Offset["semtable"][1] = 0
    BY DEF Offset, Display!SemTable, Display!L, Display!F, Display!Unused
  <2>3. \A w \in K.words : \A i \in 1 .. 3 : f[i][1] = w[1] => Offset["semtable"][i] = w[2]
    BY DEF Offset, Display!KernelTable, Display!Kernel, Display!SemTable, Display!L, Display!F, Display!Unused
  <2> HIDE DEF f, K
  <2> QED BY <2>1, <2>2, <2>3 DEF Agrees, f, K
<1>4. Agrees("memfreelist", 29184, 128, 1)
  <2> DEFINE f == Display!MemFreeList.fields
             K == Display!KernelTable["memfreelist"]
  <2>1. /\ Display!Layout["memfreelist"] = Display!MemFreeList /\ Display!MemFreeList.base = 29184 /\ Display!MemFreeList.count = 128
        /\ K.base = 29184 /\ K.size = 1 /\ Len(f) = 1
    BY DEF Display!Layout, Display!MemFreeList, Display!L, Display!F, Display!Unused, Display!KernelTable, Display!Kernel
  <2>2. /\ \A i \in 1 .. 1 : Offset["memfreelist"][i] \in Nat /\ f[i][2] \in Nat
        /\ \A i \in 1 .. 0 : Offset["memfreelist"][i + 1] = Offset["memfreelist"][i] + f[i][2]
        /\ Offset["memfreelist"][1] + f[1][2] = 1 /\ Offset["memfreelist"][1] = 0
    BY DEF Offset, Display!MemFreeList, Display!L, Display!F, Display!Unused
  <2>3. \A w \in K.words : \A i \in 1 .. 1 : f[i][1] = w[1] => Offset["memfreelist"][i] = w[2]
    BY DEF Offset, Display!KernelTable, Display!Kernel, Display!MemFreeList, Display!L, Display!F, Display!Unused
  <2> HIDE DEF f, K
  <2> QED BY <2>1, <2>2, <2>3 DEF Agrees, f, K
<1>5. Agrees("filestatus", 29312, 60, 4)
  <2> DEFINE f == Display!FileStatus.fields
             K == Display!KernelTable["filestatus"]
  <2>1. /\ Display!Layout["filestatus"] = Display!FileStatus /\ Display!FileStatus.base = 29312 /\ Display!FileStatus.count = 60
        /\ K.base = 29312 /\ K.size = 4 /\ Len(f) = 3
    BY DEF Display!Layout, Display!FileStatus, Display!L, Display!F, Display!Unused, Display!KernelTable, Display!Kernel
  <2>2. /\ \A i \in 1 .. 3 : Offset["filestatus"][i] \in Nat /\ f[i][2] \in Nat
        /\ \A i \in 1 .. 2 : Offset["filestatus"][i + 1] = Offset["filestatus"][i] + f[i][2]
        /\ Offset["filestatus"][3] + f[3][2] = 4 /\ Offset["filestatus"][1] = 0
    BY DEF Offset, Display!FileStatus, Display!L, Display!F, Display!Unused
  <2>3. \A w \in K.words : \A i \in 1 .. 3 : f[i][1] = w[1] => Offset["filestatus"][i] = w[2]
    BY DEF Offset, Display!KernelTable, Display!Kernel, Display!FileStatus, Display!L, Display!F, Display!Unused
  <2> HIDE DEF f, K
  <2> QED BY <2>1, <2>2, <2>3 DEF Agrees, f, K
<1>6. Agrees("diskstatus", 29552, 1, 8)
  <2> DEFINE f == Display!DiskStatus.fields
             K == Display!KernelTable["diskstatus"]
  <2>1. /\ Display!Layout["diskstatus"] = Display!DiskStatus /\ Display!DiskStatus.base = 29552 /\ Display!DiskStatus.count = 1
        /\ K.base = 29552 /\ K.size = 8 /\ Len(f) = 6
    BY DEF Display!Layout, Display!DiskStatus, Display!L, Display!F, Display!Unused, Display!KernelTable, Display!Kernel
  <2>2. /\ \A i \in 1 .. 6 : Offset["diskstatus"][i] \in Nat /\ f[i][2] \in Nat
        /\ \A i \in 1 .. 5 : Offset["diskstatus"][i + 1] = Offset["diskstatus"][i] + f[i][2]
        /\ Offset["diskstatus"][6] + f[6][2] = 8 /\ Offset["diskstatus"][1] = 0
    BY DEF Offset, Display!DiskStatus, Display!L, Display!F, Display!Unused
  <2>3. \A w \in K.words : \A i \in 1 .. 6 : f[i][1] = w[1] => Offset["diskstatus"][i] = w[2]
    BY DEF Offset, Display!KernelTable, Display!Kernel, Display!DiskStatus, Display!L, Display!F, Display!Unused
  <2> HIDE DEF f, K
  <2> QED BY <2>1, <2>2, <2>3 DEF Agrees, f, K
<1>7. Agrees("system", 29560, 1, 8)
  <2> DEFINE f == Display!SystemStatus.fields
             K == Display!KernelTable["system"]
  <2>1. /\ Display!Layout["system"] = Display!SystemStatus /\ Display!SystemStatus.base = 29560 /\ Display!SystemStatus.count = 1
        /\ K.base = 29560 /\ K.size = 8 /\ Len(f) = 7
    BY DEF Display!Layout, Display!SystemStatus, Display!L, Display!F, Display!Unused, Display!KernelTable, Display!Kernel
  <2>2. /\ \A i \in 1 .. 7 : Offset["system"][i] \in Nat /\ f[i][2] \in Nat
        /\ \A i \in 1 .. 6 : Offset["system"][i + 1] = Offset["system"][i] + f[i][2]
        /\ Offset["system"][7] + f[7][2] = 8 /\ Offset["system"][1] = 0
    BY DEF Offset, Display!SystemStatus, Display!L, Display!F, Display!Unused
  <2>3. \A w \in K.words : \A i \in 1 .. 7 : f[i][1] = w[1] => Offset["system"][i] = w[2]
    BY DEF Offset, Display!KernelTable, Display!Kernel, Display!SystemStatus, Display!L, Display!F, Display!Unused
  <2> HIDE DEF f, K
  <2> QED BY <2>1, <2>2, <2>3 DEF Agrees, f, K
<1>8. Agrees("terminal", 29568, 1, 4)
  <2> DEFINE f == Display!TerminalStatus.fields
             K == Display!KernelTable["terminal"]
  <2>1. /\ Display!Layout["terminal"] = Display!TerminalStatus /\ Display!TerminalStatus.base = 29568 /\ Display!TerminalStatus.count = 1
        /\ K.base = 29568 /\ K.size = 4 /\ Len(f) = 3
    BY DEF Display!Layout, Display!TerminalStatus, Display!L, Display!F, Display!Unused, Display!KernelTable, Display!Kernel
  <2>2. /\ \A i \in 1 .. 3 : Offset["terminal"][i] \in Nat /\ f[i][2] \in Nat
        /\ \A i \in 1 .. 2 : Offset["terminal"][i + 1] = Offset["terminal"][i] + f[i][2]
        /\ Offset["terminal"][3] + f[3][2] = 4 /\ Offset["terminal"][1] = 0
    BY DEF Offset, Display!TerminalStatus, Display!L, Display!F, Display!Unused
  <2>3. \A w \in K.words : \A i \in 1 .. 3 : f[i][1] = w[1] => Offset["terminal"][i] = w[2]
    BY DEF Offset, Display!KernelTable, Display!Kernel, Display!TerminalStatus, Display!L, Display!F, Display!Unused
  <2> HIDE DEF f, K
  <2> QED BY <2>1, <2>2, <2>3 DEF Agrees, f, K
<1>9. Agrees("pagetable", 29696, 160, 2)
  <2> DEFINE f == Display!PageTable.fields
             K == Display!KernelTable["pagetable"]
  <2>1. /\ Display!Layout["pagetable"] = Display!PageTable /\ Display!PageTable.base = 29696 /\ Display!PageTable.count = 160
        /\ K.base = 29696 /\ K.size = 2 /\ Len(f) = 2
    BY DEF Display!Layout, Display!PageTable, Display!L, Display!F, Display!Unused, Display!KernelTable, Display!Kernel
  <2>2. /\ \A i \in 1 .. 2 : Offset["pagetable"][i] \in Nat /\ f[i][2] \in Nat
        /\ \A i \in 1 .. 1 : Offset["pagetable"][i + 1] = Offset["pagetable"][i] + f[i][2]
        /\ Offset["pagetable"][2] + f[2][2] = 2 /\ Offset["pagetable"][1] = 0
    BY DEF Offset, Display!PageTable, Display!L, Display!F, Display!Unused
  <2>3. \A w \in K.words : \A i \in 1 .. 2 : f[i][1] = w[1] => Offset["pagetable"][i] = w[2]
    BY DEF Offset, Display!KernelTable, Display!Kernel, Display!PageTable, Display!L, Display!F, Display!Unused
  <2> HIDE DEF f, K
  <2> QED BY <2>1, <2>2, <2>3 DEF Agrees, f, K
<1>10. Agrees("buffer", 30016, 4, 4)
  <2> DEFINE f == Display!Buffer.fields
             K == Display!KernelTable["buffer"]
  <2>1. /\ Display!Layout["buffer"] = Display!Buffer /\ Display!Buffer.base = 30016 /\ Display!Buffer.count = 4
        /\ K.base = 30016 /\ K.size = 4 /\ Len(f) = 4
    BY DEF Display!Layout, Display!Buffer, Display!L, Display!F, Display!Unused, Display!KernelTable, Display!Kernel
  <2>2. /\ \A i \in 1 .. 4 : Offset["buffer"][i] \in Nat /\ f[i][2] \in Nat
        /\ \A i \in 1 .. 3 : Offset["buffer"][i + 1] = Offset["buffer"][i] + f[i][2]
        /\ Offset["buffer"][4] + f[4][2] = 4 /\ Offset["buffer"][1] = 0
    BY DEF Offset, Display!Buffer, Display!L, Display!F, Display!Unused
  <2>3. \A w \in K.words : \A i \in 1 .. 4 : f[i][1] = w[1] => Offset["buffer"][i] = w[2]
    BY DEF Offset, Display!KernelTable, Display!Kernel, Display!Buffer, Display!L, Display!F, Display!Unused
  <2> HIDE DEF f, K
  <2> QED BY <2>1, <2>2, <2>3 DEF Agrees, f, K
<1>11. Agrees("diskmap", 30032, 16, 10)
  <2> DEFINE f == Display!DiskMap.fields
             K == Display!KernelTable["diskmap"]
  <2>1. /\ Display!Layout["diskmap"] = Display!DiskMap /\ Display!DiskMap.base = 30032 /\ Display!DiskMap.count = 16
        /\ K.base = 30032 /\ K.size = 10 /\ Len(f) = 9
    BY DEF Display!Layout, Display!DiskMap, Display!L, Display!F, Display!Unused, Display!KernelTable, Display!Kernel
  <2>2. /\ \A i \in 1 .. 9 : Offset["diskmap"][i] \in Nat /\ f[i][2] \in Nat
        /\ \A i \in 1 .. 8 : Offset["diskmap"][i + 1] = Offset["diskmap"][i] + f[i][2]
        /\ Offset["diskmap"][9] + f[9][2] = 10 /\ Offset["diskmap"][1] = 0
    BY DEF Offset, Display!DiskMap, Display!L, Display!F, Display!Unused
  <2>3. \A w \in K.words : \A i \in 1 .. 9 : f[i][1] = w[1] => Offset["diskmap"][i] = w[2]
    BY DEF Offset, Display!KernelTable, Display!Kernel, Display!DiskMap, Display!L, Display!F, Display!Unused
  <2> HIDE DEF f, K
  <2> QED BY <2>1, <2>2, <2>3 DEF Agrees, f, K
<1>12. Agrees("inode", 30208, 60, 16)
  <2> DEFINE f == Display!InodeTable.fields
             K == Display!KernelTable["inode"]
  <2>1. /\ Display!Layout["inode"] = Display!InodeTable /\ Display!InodeTable.base = 30208 /\ Display!InodeTable.count = 60
        /\ K.base = 30208 /\ K.size = 16 /\ Len(f) = 11
    BY DEF Display!Layout, Display!InodeTable, Display!L, Display!F, Display!Unused, Display!KernelTable, Display!Kernel
  <2>2. /\ \A i \in 1 .. 11 : Offset["inode"][i] \in Nat /\ f[i][2] \in Nat
        /\ \A i \in 1 .. 10 : Offset["inode"][i + 1] = Offset["inode"][i] + f[i][2]
        /\ Offset["inode"][11] + f[11][2] = 16 /\ Offset["inode"][1] = 0
    BY DEF Offset, Display!InodeTable, Display!L, Display!F, Display!Unused
  <2>3. \A w \in K.words : \A i \in 1 .. 11 : f[i][1] = w[1] => Offset["inode"][i] = w[2]
    BY DEF Offset, Display!KernelTable, Display!Kernel, Display!InodeTable, Display!L, Display!F, Display!Unused
  <2>4. /\ Display!Layout["inode"].fields = f /\ Display!KernelTable["inode"] = K
        /\ Display!Layout["inode"].base = Display!InodeTable.base /\ Display!Layout["inode"].count = Display!InodeTable.count
    BY <2>1
  <2> HIDE DEF f, K
  <2>5. Len(f) \in Nat \ {0} /\ Len(f) - 1 = 10
    BY <2>1
  <2>6. /\ Display!Layout["inode"].fields = f /\ Display!KernelTable["inode"].words = K.words
        /\ \A i \in 1 .. Len(f) : Offset["inode"][i] \in Nat /\ f[i][2] \in Nat
        /\ \A i \in 1 .. Len(f) - 1 : Offset["inode"][i + 1] = Offset["inode"][i] + f[i][2]
        /\ Offset["inode"][Len(f)] + f[Len(f)][2] = 16 /\ Offset["inode"][1] = 0
        /\ \A w \in K.words : \A i \in 1 .. Len(f) : f[i][1] = w[1] => Offset["inode"][i] = w[2]
    BY <2>1, <2>2, <2>3, <2>4, <2>5
  <2>7. /\ Display!Layout["inode"].base = 30208 /\ Display!Layout["inode"].count = 60
        /\ Display!KernelTable["inode"].base = 30208 /\ Display!KernelTable["inode"].size = 16
    BY <2>1, <2>4
  <2>8. Len(f) \in Nat \ {0} /\ Display!Layout["inode"].fields = f
    BY <2>5, <2>6
  <2> QED BY <2>6, <2>7, <2>8, SMTT(60) DEF Agrees
<1>13. Agrees("usertable", 31168, 16, 2)
  <2> DEFINE f == Display!UserTable.fields
             K == Display!KernelTable["usertable"]
  <2>1. /\ Display!Layout["usertable"] = Display!UserTable /\ Display!UserTable.base = 31168 /\ Display!UserTable.count = 16
        /\ K.base = 31168 /\ K.size = 2 /\ Len(f) = 2
    BY DEF Display!Layout, Display!UserTable, Display!L, Display!F, Display!Unused, Display!KernelTable, Display!Kernel
  <2>2. /\ \A i \in 1 .. 2 : Offset["usertable"][i] \in Nat /\ f[i][2] \in Nat
        /\ \A i \in 1 .. 1 : Offset["usertable"][i + 1] = Offset["usertable"][i] + f[i][2]
        /\ Offset["usertable"][2] + f[2][2] = 2 /\ Offset["usertable"][1] = 0
    BY DEF Offset, Display!UserTable, Display!L, Display!F, Display!Unused
  <2>3. \A w \in K.words : \A i \in 1 .. 2 : f[i][1] = w[1] => Offset["usertable"][i] = w[2]
    BY DEF Offset, Display!KernelTable, Display!Kernel, Display!UserTable, Display!L, Display!F, Display!Unused
  <2> HIDE DEF f, K
  <2> QED BY <2>1, <2>2, <2>3 DEF Agrees, f, K
<1>14. Agrees("diskfree", 31232, 512, 1)
  <2> DEFINE f == Display!DiskFreeList.fields
             K == Display!KernelTable["diskfree"]
  <2>1. /\ Display!Layout["diskfree"] = Display!DiskFreeList /\ Display!DiskFreeList.base = 31232 /\ Display!DiskFreeList.count = 512
        /\ K.base = 31232 /\ K.size = 1 /\ Len(f) = 1
    BY DEF Display!Layout, Display!DiskFreeList, Display!L, Display!F, Display!Unused, Display!KernelTable, Display!Kernel
  <2>2. /\ \A i \in 1 .. 1 : Offset["diskfree"][i] \in Nat /\ f[i][2] \in Nat
        /\ \A i \in 1 .. 0 : Offset["diskfree"][i + 1] = Offset["diskfree"][i] + f[i][2]
        /\ Offset["diskfree"][1] + f[1][2] = 1 /\ Offset["diskfree"][1] = 0
    BY DEF Offset, Display!DiskFreeList, Display!L, Display!F, Display!Unused
  <2>3. \A w \in K.words : \A i \in 1 .. 1 : f[i][1] = w[1] => Offset["diskfree"][i] = w[2]
    BY DEF Offset, Display!KernelTable, Display!Kernel, Display!DiskFreeList, Display!L, Display!F, Display!Unused
  <2> HIDE DEF f, K
  <2> QED BY <2>1, <2>2, <2>3 DEF Agrees, f, K
<1>15. Agrees("rootfile", 31744, 60, 8)
  <2> DEFINE f == Display!RootFile.fields
             K == Display!KernelTable["rootfile"]
  <2>1. /\ Display!Layout["rootfile"] = Display!RootFile /\ Display!RootFile.base = 31744 /\ Display!RootFile.count = 60
        /\ K.base = 31744 /\ K.size = 8 /\ Len(f) = 6
    BY DEF Display!Layout, Display!RootFile, Display!L, Display!F, Display!Unused, Display!KernelTable, Display!Kernel
  <2>2. /\ \A i \in 1 .. 6 : Offset["rootfile"][i] \in Nat /\ f[i][2] \in Nat
        /\ \A i \in 1 .. 5 : Offset["rootfile"][i + 1] = Offset["rootfile"][i] + f[i][2]
        /\ Offset["rootfile"][6] + f[6][2] = 8 /\ Offset["rootfile"][1] = 0
    BY DEF Offset, Display!RootFile, Display!L, Display!F, Display!Unused
  <2>3. \A w \in K.words : \A i \in 1 .. 6 : f[i][1] = w[1] => Offset["rootfile"][i] = w[2]
    BY DEF Offset, Display!KernelTable, Display!Kernel, Display!RootFile, Display!L, Display!F, Display!Unused
  <2> HIDE DEF f, K
  <2> QED BY <2>1, <2>2, <2>3 DEF Agrees, f, K
<1>16. Agrees("resource", 1008, 8, 2)
  <2> DEFINE f == Display!ResourceTable.fields
             K == Display!KernelTable["resource"]
  <2>1. /\ Display!Layout["resource"] = Display!ResourceTable /\ Display!ResourceTable.base = 1008 /\ Display!ResourceTable.count = 8
        /\ K.base = 1008 /\ K.size = 2 /\ Len(f) = 2
    BY DEF Display!Layout, Display!ResourceTable, Display!L, Display!F, Display!Unused, Display!KernelTable, Display!Kernel
  <2>2. /\ \A i \in 1 .. 2 : Offset["resource"][i] \in Nat /\ f[i][2] \in Nat
        /\ \A i \in 1 .. 1 : Offset["resource"][i + 1] = Offset["resource"][i] + f[i][2]
        /\ Offset["resource"][2] + f[2][2] = 2 /\ Offset["resource"][1] = 0
    BY DEF Offset, Display!ResourceTable, Display!L, Display!F, Display!Unused
  <2>3. \A w \in K.words : \A i \in 1 .. 2 : f[i][1] = w[1] => Offset["resource"][i] = w[2]
    BY DEF Offset, Display!KernelTable, Display!Kernel, Display!ResourceTable, Display!L, Display!F, Display!Unused
  <2> HIDE DEF f, K
  <2> QED BY <2>1, <2>2, <2>3 DEF Agrees, f, K
<1> QED BY <1>1, <1>2, <1>3, <1>4, <1>5, <1>6, <1>7, <1>8, <1>9, <1>10, <1>11, <1>12, <1>13, <1>14, <1>15, <1>16

\* From where to where each table is.
Extents ==
  { <<28672, 28928>>, <<28928, 29056>>, <<29056, 29184>>, <<29184, 29312>>, <<29312, 29552>>,
    <<29552, 29560>>, <<29560, 29568>>, <<29568, 29572>>, <<29696, 30016>>, <<30016, 30032>>,
    <<30032, 30192>>, <<30208, 31168>>, <<31168, 31200>>, <<31232, 31744>>, <<31744, 32224>>,
    <<1008, 1024>> }

LEMMA ExtentsApart ==
  ASSUME NEW p \in Extents, NEW q \in Extents, q[1] > p[1]
  PROVE  p[2] <= q[1]
BY DEF Extents

\* What is known of every table: its layout, and the words it takes.
LEMMA TableFacts ==
  ASSUME NEW t \in Display!Tables
  PROVE  \E base, count, size \in Nat :
           Agrees(t, base, count, size) /\ count # 0 /\ <<base, base + count * size>> \in Extents
<1> DEFINE Known == \E base, count, size \in Nat :
             Agrees(t, base, count, size) /\ count # 0 /\ <<base, base + count * size>> \in Extents
<1>18. ASSUME NEW b \in Nat, NEW c \in Nat, NEW s \in Nat, c # 0,
              Agrees(t, b, c, s), <<b, b + c * s>> \in Extents
       PROVE  Known
  BY <1>18
<1> HIDE DEF Known, Agrees
<1>1. Display!Tables = {"pcb", "filetable", "semtable", "memfreelist", "filestatus",
                         "diskstatus", "system", "terminal", "pagetable", "buffer", "diskmap",
                         "inode", "usertable", "diskfree", "rootfile", "resource"}
  BY DEF Display!Tables, Display!Layout
<1>2. ASSUME t = "pcb" PROVE Known
  <2>1. Agrees(t, 28672, 16, 16) /\ <<28672, 28672 + 16 * 16>> \in Extents
    BY <1>2, TablesAgree DEF Extents
  <2> QED BY <1>18, <2>1
<1>3. ASSUME t = "filetable" PROVE Known
  <2>1. Agrees(t, 28928, 32, 4) /\ <<28928, 28928 + 32 * 4>> \in Extents
    BY <1>3, TablesAgree DEF Extents
  <2> QED BY <1>18, <2>1
<1>4. ASSUME t = "semtable" PROVE Known
  <2>1. Agrees(t, 29056, 32, 4) /\ <<29056, 29056 + 32 * 4>> \in Extents
    BY <1>4, TablesAgree DEF Extents
  <2> QED BY <1>18, <2>1
<1>5. ASSUME t = "memfreelist" PROVE Known
  <2>1. Agrees(t, 29184, 128, 1) /\ <<29184, 29184 + 128 * 1>> \in Extents
    BY <1>5, TablesAgree DEF Extents
  <2> QED BY <1>18, <2>1
<1>6. ASSUME t = "filestatus" PROVE Known
  <2>1. Agrees(t, 29312, 60, 4) /\ <<29312, 29312 + 60 * 4>> \in Extents
    BY <1>6, TablesAgree DEF Extents
  <2> QED BY <1>18, <2>1
<1>7. ASSUME t = "diskstatus" PROVE Known
  <2>1. Agrees(t, 29552, 1, 8) /\ <<29552, 29552 + 1 * 8>> \in Extents
    BY <1>7, TablesAgree DEF Extents
  <2> QED BY <1>18, <2>1
<1>8. ASSUME t = "system" PROVE Known
  <2>1. Agrees(t, 29560, 1, 8) /\ <<29560, 29560 + 1 * 8>> \in Extents
    BY <1>8, TablesAgree DEF Extents
  <2> QED BY <1>18, <2>1
<1>9. ASSUME t = "terminal" PROVE Known
  <2>1. Agrees(t, 29568, 1, 4) /\ <<29568, 29568 + 1 * 4>> \in Extents
    BY <1>9, TablesAgree DEF Extents
  <2> QED BY <1>18, <2>1
<1>10. ASSUME t = "pagetable" PROVE Known
  <2>1. Agrees(t, 29696, 160, 2) /\ <<29696, 29696 + 160 * 2>> \in Extents
    BY <1>10, TablesAgree DEF Extents
  <2> QED BY <1>18, <2>1
<1>11. ASSUME t = "buffer" PROVE Known
  <2>1. Agrees(t, 30016, 4, 4) /\ <<30016, 30016 + 4 * 4>> \in Extents
    BY <1>11, TablesAgree DEF Extents
  <2> QED BY <1>18, <2>1
<1>12. ASSUME t = "diskmap" PROVE Known
  <2>1. Agrees(t, 30032, 16, 10) /\ <<30032, 30032 + 16 * 10>> \in Extents
    BY <1>12, TablesAgree DEF Extents
  <2> QED BY <1>18, <2>1
<1>13. ASSUME t = "inode" PROVE Known
  <2>1. Agrees(t, 30208, 60, 16) /\ <<30208, 30208 + 60 * 16>> \in Extents
    BY <1>13, TablesAgree DEF Extents
  <2> QED BY <1>18, <2>1
<1>14. ASSUME t = "usertable" PROVE Known
  <2>1. Agrees(t, 31168, 16, 2) /\ <<31168, 31168 + 16 * 2>> \in Extents
    BY <1>14, TablesAgree DEF Extents
  <2> QED BY <1>18, <2>1
<1>15. ASSUME t = "diskfree" PROVE Known
  <2>1. Agrees(t, 31232, 512, 1) /\ <<31232, 31232 + 512 * 1>> \in Extents
    BY <1>15, TablesAgree DEF Extents
  <2> QED BY <1>18, <2>1
<1>16. ASSUME t = "rootfile" PROVE Known
  <2>1. Agrees(t, 31744, 60, 8) /\ <<31744, 31744 + 60 * 8>> \in Extents
    BY <1>16, TablesAgree DEF Extents
  <2> QED BY <1>18, <2>1
<1>17. ASSUME t = "resource" PROVE Known
  <2>1. Agrees(t, 1008, 8, 2) /\ <<1008, 1008 + 8 * 2>> \in Extents
    BY <1>17, TablesAgree DEF Extents
  <2> QED BY <1>18, <2>1
<1>19. Known
  BY <1>1, <1>2, <1>3, <1>4, <1>5, <1>6, <1>7, <1>8, <1>9, <1>10, <1>11, <1>12, <1>13, <1>14,
     <1>15, <1>16, <1>17
<1> QED BY <1>19 DEF Known

\* The walk has passed the entries and the fields before those it is at.
WalkInv ==
  LET t == Display!Layout[table]
  IN  /\ table \in Display!Tables
      /\ entry \in 0 .. t.count /\ field \in 1 .. Len(t.fields)
      /\ entry = t.count => field = 1
      /\ ptr = t.base + entry * Display!KernelTable[table].size + Offset[table][field]

LEMMA WalkStarts ==
  ASSUME table \in Display!Tables, entry = 0, field = 1, ptr = Display!Layout[table].base
  PROVE  WalkInv
<1>1. PICK base \in Nat, count \in Nat, size \in Nat : Agrees(table, base, count, size) /\ count # 0
  BY TableFacts
<1>2. /\ Display!Layout[table].base = base /\ Display!Layout[table].count = count
      /\ Display!KernelTable[table].size = size
      /\ Len(Display!Layout[table].fields) \in Nat \ {0} /\ Offset[table][1] = 0
  BY <1>1 DEF Agrees
<1> QED BY <1>1, <1>2 DEF WalkInv

LEMMA WalkStep ==
  ASSUME WalkInv, [Display!Next]_(Display!vars)
  PROVE  WalkInv'
<1>1. PICK base \in Nat, count \in Nat, size \in Nat : Agrees(table, base, count, size)
  BY TableFacts DEF WalkInv
<1> DEFINE f == Display!Layout[table].fields
           n == Len(f)
<1>2. /\ Display!Layout[table].base = base /\ Display!Layout[table].count = count
      /\ Display!KernelTable[table].size = size
      /\ n \in Nat \ {0} /\ Offset[table][1] = 0
      /\ \A i \in 1 .. n : Offset[table][i] \in Nat /\ f[i][2] \in Nat
      /\ \A i \in 1 .. n - 1 : Offset[table][i + 1] = Offset[table][i] + f[i][2]
      /\ Offset[table][n] + f[n][2] = size
  BY <1>1 DEF Agrees
<1> HIDE DEF f, n
<1>3. /\ table \in Display!Tables /\ entry \in 0 .. count /\ field \in 1 .. n
      /\ entry = count => field = 1
      /\ ptr = base + entry * size + Offset[table][field]
  BY <1>2 DEF WalkInv, f, n
<1>4. ASSUME NEW e \in Nat
      PROVE  e * size \in Nat /\ (e + 1) * size = e * size + size
  OBVIOUS
<1>5. CASE Display!Show
  <2>1. /\ entry # count /\ ptr' = ptr + f[field][2] /\ table' = table
        /\ IF field < n THEN field' = field + 1 /\ entry' = entry
           ELSE field' = 1 /\ entry' = entry + 1
    BY <1>2, <1>5 DEF Display!Show, Display!Done, Display!Fields, f, n
  <2>2. entry \in Nat /\ entry * size \in Nat /\ (entry + 1) * size = entry * size + size
    BY <1>3, <1>4
  <2>3. CASE field < n
    <3>1. Offset[table][field + 1] = Offset[table][field] + f[field][2]
      <4>1. field \in 1 .. n - 1
        BY <1>2, <1>3, <2>3
      <4> QED BY <1>2, <4>1
    <3>2. Offset[table][field] \in Nat /\ f[field][2] \in Nat
      BY <1>2, <1>3
    <3>3. ptr' = base + entry * size + Offset[table][field + 1]
      BY <1>3, <2>1, <2>2, <3>1, <3>2
    <3>4. field' = field + 1 /\ entry' = entry /\ field + 1 \in 1 .. n
      BY <1>2, <1>3, <2>1, <2>3
    <3> QED BY <1>2, <1>3, <2>1, <3>3, <3>4 DEF WalkInv, f, n
  <2>4. CASE ~(field < n)
    <3>1. field = n /\ field' = 1 /\ entry' = entry + 1 /\ entry + 1 \in 0 .. count
      <4>1. field = n
        <5>1. n \in Nat
          BY <1>2
        <5>2. field \in 1 .. n
          BY <1>3
        <5> QED BY <2>4, <5>1, <5>2
      <4>2. field' = 1 /\ entry' = entry + 1
        BY <2>1, <2>4
      <4>3. entry + 1 \in 0 .. count
        <5>1. count \in Nat /\ entry \in 0 .. count /\ entry # count
          BY <1>1, <1>3, <2>1
        <5> QED BY <5>1
      <4> QED BY <4>1, <4>2, <4>3
    <3>2. Offset[table][n] \in Nat /\ f[n][2] \in Nat
      BY <1>2
    <3>3. ptr' = base + (entry + 1) * size + Offset[table][1]
      BY <1>2, <1>3, <2>1, <2>2, <3>1, <3>2
    <3>4. ptr' = base + entry' * size + Offset[table][field']
      BY <3>1, <3>3
    <3>5. field' \in 1 .. n /\ entry' \in 0 .. count /\ (entry' = count => field' = 1)
      BY <1>2, <3>1
    <3> QED BY <1>2, <1>3, <2>1, <3>4, <3>5 DEF WalkInv, f, n
  <2> QED BY <2>3, <2>4
<1>6. CASE UNCHANGED Display!vars
  BY <1>6 DEF WalkInv, Display!vars
<1> QED BY <1>5, <1>6 DEF Display!Next

LEMMA WalkShows ==
  ASSUME WalkInv
  PROVE  TablesShown
<1>1. PICK base \in Nat, count \in Nat, size \in Nat :
        Agrees(table, base, count, size) /\ count # 0 /\ <<base, base + count * size>> \in Extents
  BY TableFacts DEF WalkInv
<1>2. /\ Display!Layout[table].base = base /\ Display!Layout[table].count = count
      /\ Display!KernelTable[table].base = base /\ Display!KernelTable[table].size = size
      /\ Offset[table][1] = 0
      /\ \A w \in Display!KernelTable[table].words :
           \A i \in 1 .. Len(Display!Layout[table].fields) :
             Display!Layout[table].fields[i][1] = w[1] => Offset[table][i] = w[2]
  BY <1>1 DEF Agrees
<1>3. /\ entry \in 0 .. count /\ field \in 1 .. Len(Display!Layout[table].fields)
      /\ entry = count => field = 1
      /\ ptr = base + entry * size + Offset[table][field]
  BY <1>2 DEF WalkInv
<1>4. Display!LabelsRight
  <2>1. ASSUME NEW w \in Display!KernelTable[table].words,
               Display!Layout[table].fields[field][1] = w[1]
        PROVE  ptr = base + entry * size + w[2]
    <3>1. Offset[table][field] = w[2]
      BY <1>2, <1>3, <2>1
    <3> QED BY <1>3, <3>1
  <2> QED BY <1>2, <2>1 DEF Display!LabelsRight, Display!Fields
<1>5. ASSUME Display!Done
      PROVE  /\ ptr = base + count * size
             /\ \A t \in Display!Tables : Display!KernelTable[t].base > base
                                            => ptr <= Display!KernelTable[t].base
  <2>1. ptr = base + count * size
    <3>1. entry = count /\ Offset[table][field] = 0
      BY <1>2, <1>3, <1>5 DEF Display!Done
    <3>2. count * size \in Nat
      OBVIOUS
    <3> QED BY <1>3, <3>1, <3>2
  <2>2. ASSUME NEW t \in Display!Tables, Display!KernelTable[t].base > base
        PROVE  ptr <= Display!KernelTable[t].base
    <3>1. PICK b \in Nat, c \in Nat, s \in Nat :
            Agrees(t, b, c, s) /\ <<b, b + c * s>> \in Extents
      BY TableFacts
    <3>2. Display!KernelTable[t].base = b
      BY <3>1 DEF Agrees
    <3> DEFINE p == <<base, base + count * size>>
               q == <<b, b + c * s>>
    <3>3. p \in Extents /\ q \in Extents /\ p[1] = base /\ p[2] = base + count * size /\ q[1] = b
      BY <1>1, <3>1
    <3> HIDE DEF p, q
    <3>4. p[2] <= q[1]
      BY <2>2, <3>2, <3>3, ExtentsApart
    <3> QED BY <2>1, <3>2, <3>3, <3>4
  <2> QED BY <2>1, <2>2
<1>6. Display!EndsWithTable
  BY <1>2, <1>5 DEF Display!EndsWithTable
<1> QED BY <1>4, <1>6 DEF TablesShown

(* Whatever table is shown, every word of it is under the label of what the
   kernel keeps there, and the display ends where the table does, before the
   next one (debug.c:592-1082). *)
THEOREM TablesAreShown == MCSpec => []TablesShown
<1>1. MCInit => WalkInv
  <2>1. ASSUME AtRest
        PROVE  WalkInv
    <3>1. "pcb" \in Display!Tables
      BY DEF Display!Tables, Display!Layout
    <3> QED BY <2>1, <3>1, WalkStarts DEF AtRest
  <2>2. Display!Init => WalkInv
    BY WalkStarts DEF Display!Init
  <2> QED BY <2>1, <2>2 DEF MCInit
<1>2. WalkInv /\ [MCNext]_<<at, vars, displayVars, scopeVars>> => WalkInv'
  <2> SUFFICES ASSUME WalkInv, [MCNext]_<<at, vars, displayVars, scopeVars>>
               PROVE  WalkInv'
    OBVIOUS
  <2>1. Display!Next \/ UNCHANGED <<table, entry, field, ptr>>
    BY DEF MCNext, displayVars
  <2> QED BY <2>1, WalkStep DEF Display!vars
<1>3. WalkInv => TablesShown
  BY WalkShows
<1> QED BY <1>1, <1>2, <1>3, PTL DEF MCSpec

-----------------------------------------------------------------------------
(* The names of an SPL program. *)

LEMMA LeastOne ==
  ASSUME NEW S \in SUBSET Nat, S # {}
  PROVE  \E x \in S : \A y \in S : x <= y
<1> DEFINE R == {ss \in Nat \X Nat : ss[1] < ss[2]}
<1>1. IsWellFoundedOn(R, Nat)
  <2>1. R = OpToRel(<, Nat)
    BY DEF OpToRel
  <2> QED BY <2>1, NatLessThanWellFounded
<1>2. PICK x \in S : \A y \in S : ~ (<<y, x>> \in R)
  <2> HIDE DEF R
  <2> QED BY <1>1, WFMin
<1>3. \A y \in S : ~ (y < x)
  BY <1>2
<1> QED BY <1>3

LEMMA FirstIs ==
  ASSUME NEW S \in SUBSET (Nat \ {0})
  PROVE  /\ S = {} => Scope!First(S) = 0
         /\ S # {} => /\ Scope!First(S) \in S /\ Scope!First(S) # 0
                      /\ \A j \in S : Scope!First(S) <= j
<1>1. CASE S = {}
  BY <1>1 DEF Scope!First
<1>2. CASE S # {}
  <2>1. \E x \in S : \A y \in S : x <= y
    BY <1>2, LeastOne
  <2>2. Scope!First(S) = CHOOSE i \in S : \A j \in S : i <= j
    BY <1>2 DEF Scope!First
  <2> QED BY <1>2, <2>1, <2>2
<1> QED BY <1>1, <1>2

-----------------------------------------------------------------------------
\* The aliases of the open blocks: those of inner blocks first, in each block one
\* for a name and one for a register.
Alias(n, r, d) == [name |-> n, reg |-> r, depth |-> d]
AliasSet == [name : Names, reg : Registers, depth : Nat]

Nested(al, d) == /\ \A i, j \in DOMAIN al : i < j => al[j].depth <= al[i].depth
                 /\ \A i \in DOMAIN al : al[i].depth <= d

OneEach(al) == \A i, j \in DOMAIN al :
                 /\ al[i].depth = al[j].depth
                 /\ al[i].name = al[j].name \/ al[i].reg = al[j].reg
                 => i = j

\* The list has the aliases that the open blocks declare.
Listed(al, sc) ==
  \A k \in DOMAIN sc, n \in Names, r \in Registers :
    sc[k][n] = r <=> \E i \in DOMAIN al : al[i] = Alias(n, r, k - 1)

Scopes == [Names -> Registers \cup {Scope!NoReg}]

Lists(al, d, sc) == /\ al \in Seq(AliasSet)
                    /\ d \in Nat /\ sc \in Seq(Scopes) /\ Len(sc) = d + 1
                    /\ Nested(al, d) /\ OneEach(al) /\ Listed(al, sc)

LEMMA AliasFields ==
  ASSUME NEW al \in Seq(AliasSet), NEW i \in DOMAIN al
  PROVE  /\ al[i].name \in Names /\ al[i].reg \in Registers /\ al[i].depth \in Nat
         /\ al[i] = Alias(al[i].name, al[i].reg, al[i].depth)
         /\ i \in Nat \ {0}
<1>1. al[i] \in AliasSet
  OBVIOUS
<1> QED BY <1>1 DEF AliasSet, Alias

\* The first alias of a name is that of the innermost block that declares it.
LEMMA ListResolves ==
  ASSUME Scope!NoReg \notin Registers, Lists(aliases, depth, scopes)
  PROVE  Scope!NamesResolve
<1> SUFFICES ASSUME NEW name \in Names
             PROVE  LET i  == Scope!lookup_alias(name)
                        declaring == {k \in DOMAIN scopes : scopes[k][name] # Scope!NoReg}
                    IN  IF declaring = {} THEN i = 0
                        ELSE i # 0 /\ \E k \in declaring : /\ \A j \in declaring : j <= k
                                                    /\ aliases[i].reg = scopes[k][name]
  BY DEF Scope!NamesResolve
<1> DEFINE hits == {i \in DOMAIN aliases : aliases[i].name = name}
           declaring == {k \in DOMAIN scopes : scopes[k][name] # Scope!NoReg}
           i == Scope!First(hits)
<1>1. Scope!lookup_alias(name) = i
  BY DEF Scope!lookup_alias
<1>2. hits \in SUBSET (Nat \ {0})
  BY DEF Lists
<1>3. /\ hits = {} => i = 0
      /\ hits # {} => i \in hits /\ i # 0 /\ \A j \in hits : i <= j
  <2> HIDE DEF hits
  <2> QED BY <1>2, FirstIs
<1>4. \A k \in declaring : \E j \in hits : aliases[j] = Alias(name, scopes[k][name], k - 1)
  BY DEF Lists, Listed, Scopes, Alias
<1>5. \A j \in hits : /\ aliases[j].depth + 1 \in declaring
                      /\ scopes[aliases[j].depth + 1][name] = aliases[j].reg
  <2> SUFFICES ASSUME NEW j \in hits
               PROVE  /\ aliases[j].depth + 1 \in declaring
                      /\ scopes[aliases[j].depth + 1][name] = aliases[j].reg
    OBVIOUS
  <2> DEFINE k == aliases[j].depth + 1
  <2>1. /\ aliases[j].depth <= depth /\ aliases[j].depth \in Nat
        /\ aliases[j].reg \in Registers
    BY AliasFields DEF Lists, Nested
  <2>2. k \in DOMAIN scopes /\ k - 1 = aliases[j].depth
    BY <2>1 DEF Lists
  <2>3. aliases[j] = Alias(name, aliases[j].reg, aliases[j].depth)
    BY AliasFields DEF Lists
  <2>4. scopes[k][name] = aliases[j].reg
    BY <2>1, <2>2, <2>3 DEF Lists, Listed
  <2> QED BY <2>1, <2>2, <2>4
<1>6. CASE declaring = {}
  BY <1>1, <1>3, <1>5, <1>6
<1>7. CASE declaring # {}
  <2>1. i \in hits /\ i # 0 /\ \A j \in hits : i <= j
    BY <1>3, <1>4, <1>7
  <2> DEFINE k == aliases[i].depth + 1
  <2>2. k \in declaring /\ aliases[i].reg = scopes[k][name]
    BY <1>5, <2>1
  <2>3. ASSUME NEW m \in declaring PROVE m <= k
    <3>1. PICK j \in hits : aliases[j] = Alias(name, scopes[m][name], m - 1)
      BY <1>4
    <3>2. aliases[j].depth = m - 1 /\ m \in Nat
      BY <3>1 DEF Alias, Lists
    <3>3. PICK h \in DOMAIN aliases : h = i /\ h <= j
      BY <2>1
    <3>4. h \in Nat /\ j \in Nat /\ j \in DOMAIN aliases /\ aliases[h].depth \in Nat
      BY AliasFields DEF Lists
    <3>5. aliases[j].depth <= aliases[h].depth
      BY <3>2, <3>3, <3>4 DEF Lists, Nested
    <3> QED BY <3>2, <3>3, <3>4, <3>5
  <2> QED BY <1>1, <1>7, <2>1, <2>2, <2>3
<1> QED BY <1>6, <1>7

LEMMA OpenKeeps ==
  ASSUME Scope!NoReg \notin Registers, NEW al, NEW d, NEW sc, Lists(al, d, sc)
  PROVE  Lists(al, d + 1, Append(sc, Scope!Empty))
<1> DEFINE t == Append(sc, Scope!Empty)
<1>1. d \in Nat /\ sc \in Seq(Scopes) /\ Len(sc) = d + 1 /\ al \in Seq(AliasSet)
  BY DEF Lists
<1>2. Scope!Empty \in Scopes /\ \A n \in Names : Scope!Empty[n] = Scope!NoReg
  BY DEF Scope!Empty, Scopes
<1>3. /\ t \in Seq(Scopes) /\ Len(t) = d + 2
      /\ \A k \in DOMAIN sc : t[k] = sc[k]
      /\ t[d + 2] = Scope!Empty /\ DOMAIN t = DOMAIN sc \cup {d + 2}
  BY <1>1, <1>2
<1>4. Nested(al, d + 1)
  <2>1. \A i \in DOMAIN al : al[i].depth \in Nat /\ al[i].depth <= d
    BY <1>1, AliasFields DEF Lists, Nested
  <2> QED BY <1>1, <2>1 DEF Lists, Nested
<1>5. Listed(al, t)
  <2> SUFFICES ASSUME NEW k \in DOMAIN t, NEW n \in Names, NEW r \in Registers
               PROVE  t[k][n] = r <=> \E i \in DOMAIN al : al[i] = Alias(n, r, k - 1)
    BY DEF Listed
  <2>1. CASE k \in DOMAIN sc
    BY <1>3, <2>1 DEF Lists, Listed
  <2>2. CASE k = d + 2
    <3>1. t[k][n] # r
      BY <1>2, <1>3, <2>2
    <3>2. \A i \in DOMAIN al : al[i].depth <= d
      BY DEF Lists, Nested
    <3>3. Alias(n, r, k - 1).depth = d + 1
      BY <1>1, <2>2 DEF Alias
    <3> QED BY <1>1, <3>1, <3>2, <3>3
  <2> QED BY <1>3, <2>1, <2>2
<1> QED BY <1>1, <1>3, <1>4, <1>5 DEF Lists

\* What is popped are the aliases of the block, which are first in the list.
LEMMA PopFacts ==
  ASSUME Lists(aliases, depth, scopes)
  PROVE  \E off \in Nat :
           LET p == Scope!pop_alias
           IN  /\ p \in Seq(AliasSet)
               /\ \A j \in DOMAIN p : /\ j + off \in DOMAIN aliases
                                      /\ p[j] = aliases[j + off]
                                      /\ p[j].depth <= depth - 1
               /\ \A i \in DOMAIN aliases : aliases[i].depth # depth =>
                    i - off \in DOMAIN p
<1> DEFINE S == {j \in DOMAIN aliases : aliases[j].depth # depth}
           i == Scope!First(S)
<1>1. aliases \in Seq(AliasSet) /\ depth \in Nat
  BY DEF Lists
<1>2. S \in SUBSET (Nat \ {0})
  BY <1>1
<1>3. /\ S = {} => i = 0
      /\ S # {} => i \in S /\ i # 0 /\ \A j \in S : i <= j
  <2> HIDE DEF S
  <2> QED BY <1>2, FirstIs
<1>4. Scope!pop_alias = IF i = 0 THEN <<>> ELSE SubSeq(aliases, i, Len(aliases))
  BY DEF Scope!pop_alias
<1>5. CASE S = {}
  <2>1. Scope!pop_alias = <<>>
    BY <1>3, <1>4, <1>5
  <2> QED BY <1>5, <2>1
<1>6. CASE S # {}
  <2>1. PICK h \in Nat : h = i /\ h \in S /\ h # 0 /\ \A j \in S : h <= j
    BY <1>2, <1>3, <1>6
  <2>2. Scope!pop_alias = SubSeq(aliases, h, Len(aliases)) /\ h \in 1 .. Len(aliases)
    <3>1. h \in DOMAIN aliases
      BY <2>1
    <3>2. Scope!pop_alias = SubSeq(aliases, i, Len(aliases))
      BY <1>4, <2>1
    <3> QED BY <1>1, <2>1, <3>1, <3>2
  <2> HIDE DEF i
  <2> DEFINE p == SubSeq(aliases, h, Len(aliases))
  <2>3. /\ p \in Seq(AliasSet) /\ Len(p) = Len(aliases) - h + 1
        /\ \A j \in 1 .. Len(p) : p[j] = aliases[j + (h - 1)]
    BY <1>1, <2>2
  <2> HIDE DEF p
  <2>4. ASSUME NEW j \in DOMAIN p
        PROVE  j + (h - 1) \in DOMAIN aliases /\ p[j] = aliases[j + (h - 1)] /\ p[j].depth <= depth - 1
    <3>1. PICK m \in DOMAIN aliases : m = j + (h - 1) /\ p[j] = aliases[m] /\ h <= m
      <4>1. /\ j \in 1 .. Len(p) /\ Len(aliases) \in Nat
            /\ DOMAIN aliases = 1 .. Len(aliases)
        BY <1>1, <2>3
      <4>2. p[j] = aliases[j + (h - 1)]
        BY <2>3, <4>1
      <4>3. j + (h - 1) \in 1 .. Len(aliases) /\ h <= j + (h - 1)
        BY <2>2, <2>3, <4>1
      <4> QED BY <4>1, <4>2, <4>3
    <3>2. h \in DOMAIN aliases /\ aliases[h].depth # depth
      BY <2>1
    <3>3. aliases[h].depth <= depth /\ aliases[m].depth <= aliases[h].depth
      <4>1. h = m \/ h < m
        BY <1>1, <3>1, <3>2
      <4>2. aliases[h].depth \in Nat
        BY <3>2, <1>1, AliasFields
      <4> QED BY <3>2, <4>1, <4>2 DEF Lists, Nested
    <3>4. aliases[h].depth \in Nat /\ aliases[m].depth \in Nat
      BY <3>1, <3>2, <1>1, AliasFields
    <3>5. aliases[m].depth <= depth - 1
      BY <1>1, <3>2, <3>3, <3>4
    <3> QED BY <3>1, <3>5
  <2>5. ASSUME NEW m \in DOMAIN aliases, aliases[m].depth # depth
        PROVE  m - (h - 1) \in DOMAIN p
    BY <1>1, <2>1, <2>2, <2>3, <2>5
  <2>6. h - 1 \in Nat
    BY <2>1
  <2> HIDE DEF S
  <2> QED BY <2>2, <2>3, <2>4, <2>5, <2>6 DEF p
<1> QED BY <1>5, <1>6

\* What the list is after that.
Popped(p) == /\ p \in Seq(AliasSet) /\ Nested(p, depth - 1) /\ OneEach(p)
             /\ \A i \in DOMAIN p : \E j \in DOMAIN aliases : p[i] = aliases[j]
             /\ \A j \in DOMAIN aliases : aliases[j].depth # depth =>
                  \E i \in DOMAIN p : p[i] = aliases[j]

LEMMA PopLeaves ==
  ASSUME Lists(aliases, depth, scopes)
  PROVE  Popped(Scope!pop_alias)
<1> DEFINE p == Scope!pop_alias
<1>1. PICK off \in Nat :
        /\ p \in Seq(AliasSet)
        /\ \A j \in DOMAIN p : /\ j + off \in DOMAIN aliases
                               /\ p[j] = aliases[j + off]
                               /\ p[j].depth <= depth - 1
        /\ \A i \in DOMAIN aliases : aliases[i].depth # depth => i - off \in DOMAIN p
  BY PopFacts
<1>2. aliases \in Seq(AliasSet) /\ depth \in Nat
  BY DEF Lists
<1> HIDE DEF p
<1>3. Nested(p, depth - 1)
  <2>1. ASSUME NEW i \in DOMAIN p, NEW j \in DOMAIN p, i < j
        PROVE  p[j].depth <= p[i].depth
    <3>1. i + off \in DOMAIN aliases /\ j + off \in DOMAIN aliases /\ i + off < j + off
      BY <1>1, <2>1
    <3> QED BY <1>1, <3>1 DEF Lists, Nested
  <2> QED BY <1>1, <2>1 DEF Nested
<1>4. OneEach(p)
  <2>1. ASSUME NEW i \in DOMAIN p, NEW j \in DOMAIN p, p[i].depth = p[j].depth,
               p[i].name = p[j].name \/ p[i].reg = p[j].reg
        PROVE  i = j
    <3>1. i + off = j + off
      BY <1>1, <2>1, SMTT(60) DEF Lists, OneEach
    <3> QED BY <1>1, <3>1
  <2> QED BY <2>1 DEF OneEach
<1>5. ASSUME NEW j \in DOMAIN aliases, aliases[j].depth # depth
      PROVE  \E i \in DOMAIN p : p[i] = aliases[j]
  <2>1. PICK i \in DOMAIN p : i = j - off
    BY <1>1, <1>5
  <2>2. i + off = j
    BY <1>1, <1>2, <2>1
  <2> QED BY <1>1, <2>2
<1> QED BY <1>1, <1>3, <1>4, <1>5 DEF Popped, p

LEMMA CloseKeeps ==
  ASSUME Scope!NoReg \notin Registers, Lists(aliases, depth, scopes), depth # 0
  PROVE  Lists(Scope!pop_alias, depth - 1, SubSeq(scopes, 1, Len(scopes) - 1))
<1> DEFINE p == Scope!pop_alias
           t == SubSeq(scopes, 1, Len(scopes) - 1)
<1>1. Popped(p)
  BY PopLeaves
<1>2. /\ aliases \in Seq(AliasSet) /\ depth \in Nat
      /\ scopes \in Seq(Scopes) /\ Len(scopes) = depth + 1
  BY DEF Lists
<1>3. /\ t \in Seq(Scopes) /\ Len(t) = depth /\ depth - 1 \in Nat
      /\ DOMAIN t = 1 .. depth
      /\ \A k \in DOMAIN t : t[k] = scopes[k] /\ k \in DOMAIN scopes
  BY <1>2
<1> HIDE DEF p, t
<1>4. Listed(p, t)
  <2> SUFFICES ASSUME NEW k \in DOMAIN t, NEW n \in Names, NEW r \in Registers
               PROVE  t[k][n] = r <=> \E i \in DOMAIN p : p[i] = Alias(n, r, k - 1)
    BY DEF Listed
  <2>1. t[k][n] = r <=> \E i \in DOMAIN aliases : aliases[i] = Alias(n, r, k - 1)
    BY <1>3 DEF Lists, Listed
  <2>2. Alias(n, r, k - 1).depth # depth
    BY <1>2, <1>3 DEF Alias
  <2> QED BY <1>1, <2>1, <2>2 DEF Popped
<1> QED BY <1>1, <1>3, <1>4 DEF Popped, Lists, p, t

LEMMA ElseKeeps ==
  ASSUME Scope!NoReg \notin Registers, Lists(aliases, depth, scopes)
  PROVE  Lists(Scope!pop_alias, depth, [scopes EXCEPT ![Len(scopes)] = Scope!Empty])
<1> DEFINE p == Scope!pop_alias
           t == [scopes EXCEPT ![Len(scopes)] = Scope!Empty]
<1>1. Popped(p)
  BY PopLeaves
<1>2. /\ aliases \in Seq(AliasSet) /\ depth \in Nat
      /\ scopes \in Seq(Scopes) /\ Len(scopes) = depth + 1
  BY DEF Lists
<1>3. Scope!Empty \in Scopes /\ \A n \in Names : Scope!Empty[n] = Scope!NoReg
  BY DEF Scope!Empty, Scopes
<1>4. /\ t \in Seq(Scopes) /\ Len(t) = depth + 1 /\ DOMAIN t = 1 .. depth + 1
      /\ \A k \in 1 .. depth : t[k] = scopes[k] /\ k \in DOMAIN scopes
      /\ t[depth + 1] = Scope!Empty
  BY <1>2, <1>3
<1> HIDE DEF p, t
<1>5. \A i \in DOMAIN p : p[i].depth \in Nat /\ p[i].depth <= depth - 1
  BY <1>1, AliasFields DEF Popped, Nested
<1>6. Nested(p, depth)
  BY <1>1, <1>2, <1>5 DEF Popped, Nested
<1>7. Listed(p, t)
  <2> SUFFICES ASSUME NEW k \in DOMAIN t, NEW n \in Names, NEW r \in Registers
               PROVE  t[k][n] = r <=> \E i \in DOMAIN p : p[i] = Alias(n, r, k - 1)
    BY DEF Listed
  <2>1. CASE k \in 1 .. depth
    <3>1. t[k][n] = r <=> \E i \in DOMAIN aliases : aliases[i] = Alias(n, r, k - 1)
      BY <1>4, <2>1 DEF Lists, Listed
    <3>2. Alias(n, r, k - 1).depth # depth
      BY <1>2, <2>1 DEF Alias
    <3> QED BY <1>1, <3>1, <3>2 DEF Popped
  <2>2. CASE k = depth + 1
    <3>1. t[k][n] # r
      BY <1>3, <1>4, <2>2
    <3>2. Alias(n, r, k - 1).depth = depth
      BY <1>2, <2>2 DEF Alias
    <3>3. \A i \in DOMAIN p : p[i].depth # depth
      BY <1>2, <1>5
    <3> QED BY <3>1, <3>2, <3>3
  <2> QED BY <1>2, <1>4, <2>1, <2>2
<1> QED BY <1>1, <1>2, <1>4, <1>6, <1>7 DEF Popped, Lists, p, t

\* A new alias: the first of the list.
LEMMA AddKeeps ==
  ASSUME Scope!NoReg \notin Registers, Lists(aliases, depth, scopes),
         NEW name \in Names, NEW reg \in Registers,
         \A i \in DOMAIN aliases : aliases[i].depth = depth =>
           aliases[i].name # name /\ aliases[i].reg # reg
  PROVE  Lists(<<Alias(name, reg, depth)>> \o aliases, depth,
               [scopes EXCEPT ![Len(scopes)] = Scope!Declared(@, name, reg)])
<1> DEFINE a == Alias(name, reg, depth)
           p == <<a>> \o aliases
           top == scopes[depth + 1]
           t == [scopes EXCEPT ![Len(scopes)] = Scope!Declared(@, name, reg)]
<1>1. /\ aliases \in Seq(AliasSet) /\ depth \in Nat
      /\ scopes \in Seq(Scopes) /\ Len(scopes) = depth + 1 /\ top \in Scopes
  BY DEF Lists
<1>2. /\ a \in AliasSet /\ a.depth = depth /\ a.name = name /\ a.reg = reg
  BY <1>1 DEF Alias, AliasSet
<1>3. /\ p \in Seq(AliasSet) /\ Len(p) = Len(aliases) + 1 /\ p[1] = a
      /\ \A i \in DOMAIN p : i # 1 => i - 1 \in DOMAIN aliases /\ p[i] = aliases[i - 1]
      /\ \A i \in DOMAIN aliases : i + 1 \in DOMAIN p /\ p[i + 1] = aliases[i]
  BY <1>1, <1>2
<1>4. Scope!Declared(top, name, reg) \in Scopes
  BY <1>1 DEF Scope!Declared, Scopes
<1>5. /\ t \in Seq(Scopes) /\ Len(t) = depth + 1 /\ DOMAIN t = 1 .. depth + 1
      /\ \A k \in 1 .. depth : t[k] = scopes[k] /\ k \in DOMAIN scopes
      /\ t[depth + 1] = Scope!Declared(top, name, reg)
  BY <1>1, <1>4
<1>6. 1 \in DOMAIN p /\ DOMAIN p = 1 .. Len(p)
  BY <1>1, <1>3
<1> HIDE DEF p, t, a
<1>7. Nested(p, depth)
  <2>1. \A i \in DOMAIN p : p[i].depth <= depth
    BY <1>1, <1>2, <1>3 DEF Lists, Nested
  <2>2. ASSUME NEW i \in DOMAIN p, NEW j \in DOMAIN p, i < j
        PROVE  p[j].depth <= p[i].depth
    <3>1. CASE i = 1
      BY <1>2, <1>3, <2>1, <3>1
    <3>2. CASE i # 1
      <4>1. j # 1 /\ i - 1 < j - 1
        BY <1>6, <2>2, <3>2
      <4>2. /\ i - 1 \in DOMAIN aliases /\ p[i] = aliases[i - 1]
            /\ j - 1 \in DOMAIN aliases /\ p[j] = aliases[j - 1]
        BY <1>3, <3>2, <4>1
      <4> QED BY <4>1, <4>2 DEF Lists, Nested
    <3> QED BY <3>1, <3>2
  <2> QED BY <2>1, <2>2 DEF Nested
<1>8. OneEach(p)
  <2>1. ASSUME NEW i \in DOMAIN p, NEW j \in DOMAIN p, p[i].depth = p[j].depth,
               p[i].name = p[j].name \/ p[i].reg = p[j].reg
        PROVE  i = j
    <3>1. CASE i = 1 \/ j = 1
      BY <1>2, <1>3, <2>1, <3>1
    <3>2. CASE i # 1 /\ j # 1
      <4>1. /\ i - 1 \in DOMAIN aliases /\ p[i] = aliases[i - 1]
            /\ j - 1 \in DOMAIN aliases /\ p[j] = aliases[j - 1]
        BY <1>3, <3>2
      <4>2. i - 1 = j - 1
        BY <2>1, <4>1 DEF Lists, OneEach
      <4> QED BY <1>6, <4>2
    <3> QED BY <3>1, <3>2
  <2> QED BY <2>1 DEF OneEach
<1>9. Listed(p, t)
  <2> SUFFICES ASSUME NEW k \in DOMAIN t, NEW n \in Names, NEW r \in Registers
               PROVE  t[k][n] = r <=> \E i \in DOMAIN p : p[i] = Alias(n, r, k - 1)
    BY DEF Listed
  <2> DEFINE b == Alias(n, r, k - 1)
  <2>1. (\E i \in DOMAIN p : p[i] = b) <=> (a = b \/ \E i \in DOMAIN aliases : aliases[i] = b)
    BY <1>3, <1>6
  <2>2. b.name = n /\ b.reg = r /\ b.depth = k - 1 /\ k \in Nat
    BY <1>5, <1>1 DEF Alias
  <2>3. CASE k \in 1 .. depth
    <3>1. t[k][n] = r <=> \E i \in DOMAIN aliases : aliases[i] = b
      BY <1>5, <2>3 DEF Lists, Listed
    <3>2. a # b
      BY <1>1, <1>2, <2>2, <2>3
    <3> QED BY <2>1, <3>1, <3>2
  <2>4. CASE k = depth + 1
    <3>1. top[n] = r <=> \E i \in DOMAIN aliases : aliases[i] = b
      BY <1>1, <2>4 DEF Lists, Listed
    <3>2. t[k][n] = (IF n = name THEN reg ELSE IF top[n] = reg THEN Scope!NoReg ELSE top[n])
      BY <1>5, <2>4 DEF Scope!Declared
    <3>3. a = b <=> n = name /\ r = reg
      BY <1>1, <1>2, <2>2, <2>4 DEF Alias, a
    <3>4. (\E i \in DOMAIN aliases : aliases[i] = b) => n # name /\ r # reg
      BY <1>1, <2>2, <2>4
    <3> QED BY <2>1, <3>1, <3>2, <3>3, <3>4
  <2> QED BY <1>1, <1>5, <2>3, <2>4
<1> QED BY <1>1, <1>3, <1>5, <1>7, <1>8, <1>9 DEF Lists, p, t, a

\* The register of an alias of the block gets a new name.
LEMMA RenameKeeps ==
  ASSUME Scope!NoReg \notin Registers, Lists(aliases, depth, scopes),
         NEW name \in Names, NEW reg \in Registers, NEW i \in DOMAIN aliases,
         aliases[i].reg = reg, aliases[i].depth = depth,
         \A j \in DOMAIN aliases : aliases[j].depth = depth => aliases[j].name # name
  PROVE  Lists([aliases EXCEPT ![i].name = name], depth,
               [scopes EXCEPT ![Len(scopes)] = Scope!Declared(@, name, reg)])
<1> DEFINE p == [aliases EXCEPT ![i].name = name]
           top == scopes[depth + 1]
           t == [scopes EXCEPT ![Len(scopes)] = Scope!Declared(@, name, reg)]
<1>1. /\ aliases \in Seq(AliasSet) /\ depth \in Nat
      /\ scopes \in Seq(Scopes) /\ Len(scopes) = depth + 1 /\ top \in Scopes
  BY DEF Lists
<1>2. [aliases[i] EXCEPT !.name = name] = Alias(name, reg, depth)
  <2>1. aliases[i] = Alias(aliases[i].name, reg, depth)
    BY <1>1, AliasFields
  <2> QED BY <2>1 DEF Alias
<1>3. /\ p \in Seq(AliasSet) /\ DOMAIN p = DOMAIN aliases
      /\ p[i] = Alias(name, reg, depth)
      /\ \A j \in DOMAIN aliases : j # i => p[j] = aliases[j]
  <2>1. Alias(name, reg, depth) \in AliasSet
    BY <1>1 DEF Alias, AliasSet
  <2>2. /\ DOMAIN p = DOMAIN aliases /\ p[i] = [aliases[i] EXCEPT !.name = name]
        /\ \A j \in DOMAIN aliases : j # i => p[j] = aliases[j]
    OBVIOUS
  <2>3. p = [aliases EXCEPT ![i] = Alias(name, reg, depth)]
    BY <1>1, <1>2
  <2> HIDE DEF p
  <2> QED BY <1>1, <1>2, <2>1, <2>2, <2>3
<1>4. Scope!Declared(top, name, reg) \in Scopes
  BY <1>1 DEF Scope!Declared, Scopes
<1>5. /\ t \in Seq(Scopes) /\ Len(t) = depth + 1 /\ DOMAIN t = 1 .. depth + 1
      /\ \A k \in 1 .. depth : t[k] = scopes[k] /\ k \in DOMAIN scopes
      /\ t[depth + 1] = Scope!Declared(top, name, reg)
  BY <1>1, <1>4
<1> HIDE DEF p, t
<1>6. \A j \in DOMAIN p : /\ p[j].depth = aliases[j].depth
                          /\ p[j].reg = aliases[j].reg
                          /\ p[j].name = IF j = i THEN name ELSE aliases[j].name
  BY <1>3 DEF Alias
<1>7. Nested(p, depth)
  BY <1>3, <1>6 DEF Lists, Nested
<1>8. OneEach(p)
  <2>1. ASSUME NEW j \in DOMAIN p, NEW k \in DOMAIN p, p[j].depth = p[k].depth,
               p[j].name = p[k].name \/ p[j].reg = p[k].reg
        PROVE  j = k
    <3>1. aliases[j].depth = aliases[k].depth /\ j \in DOMAIN aliases /\ k \in DOMAIN aliases
      BY <1>3, <1>6, <2>1
    <3>2. aliases[j].reg = aliases[k].reg \/ aliases[j].name = aliases[k].name
            \/ (j = i /\ k = i)
      BY <1>6, <2>1, <3>1
    <3> QED BY <3>1, <3>2 DEF Lists, OneEach
  <2> QED BY <2>1 DEF OneEach
<1>9. Listed(p, t)
  <2> SUFFICES ASSUME NEW k \in DOMAIN t, NEW n \in Names, NEW r \in Registers
               PROVE  t[k][n] = r <=> \E j \in DOMAIN p : p[j] = Alias(n, r, k - 1)
    BY DEF Listed
  <2> DEFINE b == Alias(n, r, k - 1)
  <2>1. b.name = n /\ b.reg = r /\ b.depth = k - 1 /\ k \in Nat
    BY <1>5, <1>1 DEF Alias
  <2>2. (\E j \in DOMAIN p : p[j] = b) <=>
          (p[i] = b \/ \E j \in DOMAIN aliases : j # i /\ aliases[j] = b)
    BY <1>3
  <2>3. CASE k \in 1 .. depth
    <3>1. t[k][n] = r <=> \E j \in DOMAIN aliases : aliases[j] = b
      BY <1>5, <2>3 DEF Lists, Listed
    <3>2. p[i] # b /\ aliases[i] # b
      BY <1>1, <1>3, <1>6, <2>1, <2>3
    <3> QED BY <2>2, <3>1, <3>2
  <2>4. CASE k = depth + 1
    <3>1. top[n] = r <=> \E j \in DOMAIN aliases : aliases[j] = b
      BY <1>1, <2>4 DEF Lists, Listed
    <3>2. t[k][n] = (IF n = name THEN reg ELSE IF top[n] = reg THEN Scope!NoReg ELSE top[n])
      BY <1>5, <2>4 DEF Scope!Declared
    <3>3. p[i] = b <=> n = name /\ r = reg
      BY <1>1, <1>3, <1>6, <2>1, <2>4 DEF Alias
    <3>4. ASSUME NEW j \in DOMAIN aliases, aliases[j] = b
          PROVE  n # name /\ (r = reg => j = i)
      <4>1. aliases[j].depth = depth
        BY <1>1, <2>1, <2>4, <3>4
      <4> QED BY <2>1, <3>4, <4>1 DEF Lists, OneEach
    <3>5. aliases[i] = b => r = reg
      BY <2>1
    <3> QED BY <2>2, <3>1, <3>2, <3>3, <3>4, <3>5
  <2> QED BY <1>1, <1>5, <2>3, <2>4
<1> QED BY <1>1, <1>3, <1>5, <1>7, <1>8, <1>9 DEF Lists, p, t

\* The first of the list is of this block if any is.
LEMMA InBlockIs ==
  ASSUME Lists(aliases, depth, scopes), NEW S \in SUBSET DOMAIN aliases
  PROVE  /\ Scope!InBlock(Scope!First(S)) =>
               /\ Scope!First(S) \in S
               /\ aliases[Scope!First(S)].depth = depth
         /\ ~Scope!InBlock(Scope!First(S)) => \A i \in S : aliases[i].depth # depth
<1>1. aliases \in Seq(AliasSet) /\ depth \in Nat
  BY DEF Lists
<1>2. S \in SUBSET (Nat \ {0})
  BY <1>1
<1>3. /\ S = {} => Scope!First(S) = 0
      /\ S # {} => /\ Scope!First(S) \in S /\ Scope!First(S) # 0
                   /\ \A j \in S : Scope!First(S) <= j
  BY <1>2, FirstIs
<1>4. Scope!InBlock(Scope!First(S)) <=> Scope!First(S) # 0 /\ aliases[Scope!First(S)].depth = depth
  BY DEF Scope!InBlock
<1>5. CASE S = {}
  BY <1>3, <1>4, <1>5
<1>6. CASE S # {}
  <2>1. PICK h \in S : h = Scope!First(S) /\ h # 0 /\ \A j \in S : h <= j
    BY <1>3, <1>6
  <2>2. ASSUME NEW j \in S, aliases[j].depth = depth
        PROVE  aliases[h].depth = depth
    <3>1. h = j \/ h < j
      BY <1>2, <2>1
    <3>2. aliases[h].depth \in Nat /\ aliases[h].depth <= depth
      BY <1>1, AliasFields DEF Lists, Nested
    <3>3. aliases[j].depth <= aliases[h].depth
      BY <1>1, <2>2, <3>1, <3>2 DEF Lists, Nested
    <3> QED BY <1>1, <2>2, <3>2, <3>3
  <2> QED BY <1>4, <2>1, <2>2
<1> QED BY <1>5, <1>6

\* The loops among the open blocks.
Whiles(b) == {i \in DOMAIN b : b[i] = "while"}

Kinds == {"if", "else", "while"}

ScopeInv == /\ Lists(aliases, depth, scopes)
            /\ blocks \in Seq(Kinds) /\ Len(blocks) = depth
            /\ flag_break = Cardinality(Whiles(blocks))

LEMMA WhilesFinite ==
  ASSUME NEW b \in Seq(Kinds)
  PROVE  IsFiniteSet(Whiles(b)) /\ Cardinality(Whiles(b)) \in Nat
<1>1. Whiles(b) \subseteq 1 .. Len(b) /\ Len(b) \in Nat
  BY DEF Whiles
<1>2. IsFiniteSet(1 .. Len(b))
  BY <1>1, FS_Interval
<1>3. IsFiniteSet(Whiles(b))
  BY <1>1, <1>2, FS_Subset
<1> QED BY <1>3, FS_CardinalityType

LEMMA ScopeInit ==
  ASSUME Scope!NoReg \notin Registers, Scope!Init
  PROVE  ScopeInv
<1>1. /\ aliases = <<>> /\ depth = 0 /\ flag_break = 0 /\ blocks = <<>>
      /\ scopes = <<Scope!Empty>>
  BY DEF Scope!Init
<1>2. Scope!Empty \in Scopes /\ \A n \in Names : Scope!Empty[n] = Scope!NoReg
  BY DEF Scope!Empty, Scopes
<1>3. Lists(aliases, depth, scopes)
  BY <1>1, <1>2 DEF Lists, Nested, OneEach, Listed
<1>4. Whiles(blocks) = {}
  BY <1>1 DEF Whiles
<1>5. Cardinality(Whiles(blocks)) = 0
  BY <1>4, FS_EmptySet
<1>6. blocks \in Seq(Kinds) /\ Len(blocks) = depth
  BY <1>1
<1> QED BY <1>1, <1>3, <1>5, <1>6 DEF ScopeInv

\* Alias: refused, or the alias is added or renamed.
LEMMA AliasKeeps ==
  ASSUME Scope!NoReg \notin Registers, ScopeInv,
         NEW name \in Names, NEW reg \in Registers, Scope!Alias(name, reg)
  PROVE  ScopeInv'
<1>1. Lists(aliases, depth, scopes) /\ depth \in Nat /\ aliases \in Seq(AliasSet)
  BY DEF ScopeInv, Lists
<1> DEFINE N == {i \in DOMAIN aliases : aliases[i].name = name}
           R == {i \in DOMAIN aliases : aliases[i].reg = reg}
<1>2. CASE Scope!InBlock(Scope!lookup_alias(name))
  <2>1. UNCHANGED <<aliases, depth, flag_break, blocks, scopes>>
    BY <1>2 DEF Scope!Alias, Scope!Stops, Scope!names
  <2> QED BY <2>1 DEF ScopeInv
<1>3. CASE ~Scope!InBlock(Scope!lookup_alias(name))
  <2>1. /\ aliases' = Scope!push_alias(name, reg)
        /\ scopes' = [scopes EXCEPT ![Len(scopes)] = Scope!Declared(@, name, reg)]
        /\ depth' = depth /\ flag_break' = flag_break /\ blocks' = blocks
    BY <1>3 DEF Scope!Alias, Scope!Goes
  <2>2. \A i \in DOMAIN aliases : aliases[i].depth = depth => aliases[i].name # name
    <3>1. \A i \in N : aliases[i].depth # depth
      <4>1. ~Scope!InBlock(Scope!First(N))
        BY <1>3 DEF Scope!lookup_alias
      <4>2. N \in SUBSET DOMAIN aliases
        OBVIOUS
      <4> HIDE DEF N
      <4> QED BY <1>1, <4>1, <4>2, InBlockIs
    <3> QED BY <3>1
  <2> DEFINE h == Scope!First(R)
  <2>3. Scope!push_alias(name, reg) = IF Scope!InBlock(h) THEN [aliases EXCEPT ![h].name = name]
                                      ELSE <<Alias(name, reg, depth)>> \o aliases
    BY DEF Scope!push_alias, Scope!lookup_alias_reg, Alias
  <2>4. /\ Scope!InBlock(h) => h \in R /\ aliases[h].depth = depth
        /\ ~Scope!InBlock(h) => \A i \in R : aliases[i].depth # depth
    <3>1. R \in SUBSET DOMAIN aliases
      OBVIOUS
    <3> HIDE DEF R
    <3> QED BY <1>1, <3>1, InBlockIs
  <2>5. Lists(aliases', depth, scopes')
    <3>1. CASE Scope!InBlock(h)
      <4>1. PICK g \in DOMAIN aliases : g = h /\ aliases[g].reg = reg /\ aliases[g].depth = depth
        BY <2>4, <3>1
      <4>2. aliases' = [aliases EXCEPT ![g].name = name]
        BY <2>1, <2>3, <3>1, <4>1
      <4> HIDE DEF h, R, N
      <4>3. Lists([aliases EXCEPT ![g].name = name], depth,
                  [scopes EXCEPT ![Len(scopes)] = Scope!Declared(@, name, reg)])
        BY <1>1, <2>2, <4>1, RenameKeeps
      <4> QED BY <2>1, <4>2, <4>3
    <3>2. CASE ~Scope!InBlock(h)
      <4>1. \A i \in DOMAIN aliases : aliases[i].depth = depth =>
              aliases[i].name # name /\ aliases[i].reg # reg
        BY <2>2, <2>4, <3>2
      <4>2. aliases' = <<Alias(name, reg, depth)>> \o aliases
        BY <2>1, <2>3, <3>2
      <4> HIDE DEF h, R, N
      <4> QED BY <1>1, <2>1, <4>1, <4>2, AddKeeps
    <3> QED BY <3>1, <3>2
  <2> QED BY <2>1, <2>5 DEF ScopeInv
<1> QED BY <1>2, <1>3

LEMMA OpenStep ==
  ASSUME Scope!NoReg \notin Registers, ScopeInv,
         NEW kind \in {"if", "while"}, Scope!Open(kind)
  PROVE  ScopeInv'
<1>1. /\ aliases' = aliases /\ depth' = depth + 1
      /\ flag_break' = (IF kind = "while" THEN flag_break + 1 ELSE flag_break)
      /\ blocks' = Append(blocks, kind) /\ scopes' = Append(scopes, Scope!Empty)
  BY DEF Scope!Open, Scope!Goes
<1>2. Lists(aliases', depth', scopes')
  BY <1>1, OpenKeeps DEF ScopeInv
<1>3. blocks \in Seq(Kinds) /\ Len(blocks) \in Nat /\ Len(blocks) = depth
  BY DEF ScopeInv
<1>4. blocks' \in Seq(Kinds) /\ Len(blocks') = depth'
  BY <1>1, <1>3 DEF Kinds
<1>5. Whiles(blocks') = IF kind = "while" THEN Whiles(blocks) \cup {Len(blocks) + 1} ELSE Whiles(blocks)
  BY <1>1, <1>3 DEF Whiles
<1>6. Len(blocks) + 1 \notin Whiles(blocks)
  BY <1>3 DEF Whiles
<1>7. flag_break' = Cardinality(Whiles(blocks'))
  <2>1. IsFiniteSet(Whiles(blocks)) /\ flag_break = Cardinality(Whiles(blocks))
    BY <1>3, WhilesFinite DEF ScopeInv
  <2>2. Cardinality(Whiles(blocks) \cup {Len(blocks) + 1}) = Cardinality(Whiles(blocks)) + 1
    BY <1>6, <2>1, FS_AddElement
  <2> QED BY <1>1, <1>5, <2>1, <2>2
<1> QED BY <1>2, <1>4, <1>7 DEF ScopeInv

LEMMA ElseStep ==
  ASSUME Scope!NoReg \notin Registers, ScopeInv, Scope!Else
  PROVE  ScopeInv'
<1>1. /\ aliases' = Scope!pop_alias /\ depth' = depth /\ flag_break' = flag_break
      /\ blocks # <<>> /\ blocks[Len(blocks)] = "if"
      /\ blocks' = [blocks EXCEPT ![Len(blocks)] = "else"]
      /\ scopes' = [scopes EXCEPT ![Len(scopes)] = Scope!Empty]
  BY DEF Scope!Else, Scope!Goes, Scope!Top
<1>2. Lists(aliases', depth', scopes')
  BY <1>1, ElseKeeps DEF ScopeInv
<1>3. blocks \in Seq(Kinds) /\ Len(blocks) \in Nat /\ Len(blocks) = depth
  BY DEF ScopeInv
<1>4. blocks' \in Seq(Kinds) /\ Len(blocks') = depth' /\ DOMAIN blocks' = DOMAIN blocks
  BY <1>1, <1>3 DEF Kinds
<1>5. Whiles(blocks') = Whiles(blocks)
  BY <1>1, <1>3, <1>4 DEF Whiles
<1> QED BY <1>1, <1>2, <1>4, <1>5 DEF ScopeInv

LEMMA CloseStep ==
  ASSUME Scope!NoReg \notin Registers, ScopeInv, Scope!Close
  PROVE  ScopeInv'
<1>1. /\ aliases' = Scope!pop_alias /\ depth' = depth - 1 /\ blocks # <<>>
      /\ flag_break' = (IF blocks[Len(blocks)] = "while" THEN flag_break - 1 ELSE flag_break)
      /\ blocks' = SubSeq(blocks, 1, Len(blocks) - 1)
      /\ scopes' = SubSeq(scopes, 1, Len(scopes) - 1)
  BY DEF Scope!Close, Scope!Goes, Scope!Top
<1>2. blocks \in Seq(Kinds) /\ Len(blocks) \in Nat /\ Len(blocks) = depth /\ Len(blocks) # 0
  BY <1>1 DEF ScopeInv
<1>3. Lists(aliases', depth', scopes')
  BY <1>1, <1>2, CloseKeeps DEF ScopeInv
<1>4. /\ blocks' \in Seq(Kinds) /\ Len(blocks') = depth'
      /\ DOMAIN blocks' = 1 .. Len(blocks) - 1
      /\ \A i \in DOMAIN blocks' : blocks'[i] = blocks[i]
  <2>1. Len(blocks) - 1 \in Nat /\ Len(blocks) - 1 <= Len(blocks)
    BY <1>2
  <2> QED BY <1>1, <1>2, <2>1
<1>5. Whiles(blocks') = Whiles(blocks) \ {Len(blocks)}
  BY <1>2, <1>4 DEF Whiles
<1>6. Len(blocks) \in Whiles(blocks) <=> blocks[Len(blocks)] = "while"
  BY <1>2 DEF Whiles
<1>7. flag_break' = Cardinality(Whiles(blocks'))
  <2>1. IsFiniteSet(Whiles(blocks)) /\ flag_break = Cardinality(Whiles(blocks))
    BY <1>2, WhilesFinite DEF ScopeInv
  <2>2. CASE Len(blocks) \in Whiles(blocks)
    <3>1. Cardinality(Whiles(blocks) \ {Len(blocks)}) = Cardinality(Whiles(blocks)) - 1
      BY <2>1, <2>2, FS_RemoveElement
    <3> QED BY <1>1, <1>5, <1>6, <2>1, <2>2, <3>1
  <2>3. CASE Len(blocks) \notin Whiles(blocks)
    <3>1. Whiles(blocks') = Whiles(blocks)
      BY <1>5, <2>3
    <3> QED BY <1>1, <1>6, <2>1, <2>3, <3>1
  <2> QED BY <2>2, <2>3
<1> QED BY <1>3, <1>4, <1>7 DEF ScopeInv

LEMMA ScopeStep ==
  ASSUME Scope!NoReg \notin Registers, ScopeInv, [Scope!Next]_(Scope!vars)
  PROVE  ScopeInv'
<1>1. CASE UNCHANGED <<aliases, depth, flag_break, blocks, scopes>>
  BY <1>1 DEF ScopeInv
<1>2. ASSUME NEW name \in Names, NEW reg \in Registers, Scope!Alias(name, reg)
      PROVE  ScopeInv'
  BY <1>2, AliasKeeps
<1>3. ASSUME NEW kind \in {"if", "while"}, Scope!Open(kind)
      PROVE  ScopeInv'
  BY <1>3, OpenStep
<1>4. CASE Scope!Else
  BY <1>4, ElseStep
<1>5. CASE Scope!Close
  BY <1>5, CloseStep
<1>6. ASSUME NEW name \in Names, Scope!UseId(name)
      PROVE  UNCHANGED <<aliases, depth, flag_break, blocks, scopes>>
  BY <1>6 DEF Scope!UseId, Scope!Stops, Scope!Goes, Scope!names
<1>7. CASE Scope!BreakOrContinue
  BY <1>1, <1>7 DEF Scope!BreakOrContinue, Scope!Stops, Scope!Goes, Scope!names
<1>8. CASE Scope!Finish
  BY <1>1, <1>8 DEF Scope!Finish, Scope!names
<1>9. ASSUME NEW l \in Labels, Scope!LabelDef(l) \/ \E kind \in {"goto", "call"} : Scope!JumpTo(kind, l)
      PROVE  UNCHANGED <<aliases, depth, flag_break, blocks, scopes>>
  BY <1>9 DEF Scope!LabelDef, Scope!JumpTo, Scope!Stops, Scope!names
<1>10. CASE UNCHANGED Scope!vars
  BY <1>1, <1>10 DEF Scope!vars
<1> QED BY <1>1, <1>2, <1>3, <1>4, <1>5, <1>6, <1>7, <1>8, <1>9, <1>10 DEF Scope!Next

LEMMA ScopeHolds ==
  ASSUME ScopeInv
  PROVE  NamesResolve
<1>1. Scope!NamesResolve
  BY RegistersAssumption, ListResolves DEF ScopeInv
<1>2. /\ IsFiniteSet(Whiles(blocks)) /\ Cardinality(Whiles(blocks)) \in Nat
      /\ flag_break = Cardinality(Whiles(blocks))
  BY WhilesFinite DEF ScopeInv
<1>3. Cardinality(Whiles(blocks)) = 0 <=> Whiles(blocks) = {}
  BY <1>2, FS_EmptySet
<1>4. Whiles(blocks) = {} <=> ~ \E i \in DOMAIN blocks : blocks[i] = "while"
  BY DEF Whiles
<1>5. (flag_break > 0) <=> \E i \in DOMAIN blocks : blocks[i] = "while"
  BY <1>2, <1>3, <1>4
<1>6. Scope!BreakInLoop
  BY <1>5 DEF Scope!BreakInLoop
<1> QED BY <1>1, <1>6 DEF NamesResolve

(* A name stands for the register of the innermost open block that declares it,
   and break and continue are taken in loops only, in every program, however deep
   its blocks are (spl.c push_alias, pop_alias, flag_break). *)
THEOREM AliasesResolve == MCSpec => []NamesResolve
<1>1. MCInit => ScopeInv
  BY RegistersAssumption, ScopeInit DEF MCInit
<1>2. ScopeInv /\ [MCNext]_<<at, vars, displayVars, scopeVars>> => ScopeInv'
  <2> SUFFICES ASSUME ScopeInv, [MCNext]_<<at, vars, displayVars, scopeVars>>
               PROVE  ScopeInv'
    OBVIOUS
  <2>1. [Scope!Next]_(Scope!vars)
    BY DEF MCNext, scopeVars, Scope!vars, Scope!names
  <2> QED BY <2>1, RegistersAssumption, ScopeStep
<1>3. ScopeInv => NamesResolve
  BY ScopeHolds
<1> QED BY <1>1, <1>2, <1>3, PTL DEF MCSpec
=============================================================================
