---------------------------- MODULE ConfigLanguage ----------------------------
(***************************************************************************)
(* What the lines of a configuration mean: FilterEngine::loadConfigFile    *)
(* offers each line to the factories in the order of their priorities -    *)
(* Device, If, Include, Stage, the filters - until one of them takes it or *)
(* empties its command.  A line with no effect (one that an earlier        *)
(* factory empties, a comment, an unknown command) is a stutter.           *)
(*                                                                         *)
(* The text is chosen line by line; an expression is its value, or an      *)
(* error; a Device or Stage line is whether it matches.  Filters are added *)
(* to the FilterGraph of the load.  The ghosts chains and outside say what *)
(* the lines mean to a reader: every If opens a chain of branches that its *)
(* EndIf closes, file by file.                                             *)
(***************************************************************************)
EXTENDS FilterGraph

CONSTANTS
  Texts,     \* kinds of text: their commands, their filters and how many of those
  MaxChains, \* bound: open Ifs in one file
  Unclosed   \* whether an included file may end inside an If

VARIABLES
  text,                                     \* the kind of this text
  deviceMatches,                            \* DeviceFilterFactory
  trueCount, falseCount, executeElse, trueCountStack, \* IfFilterFactory
  stageMatches, stageMatchesStack,          \* StageFilterFactory
  recursionDepth,                           \* IncludeFilterFactory
  chains,  \* ghost: the open If chains of each open file
  outside  \* ghost: what each Include line left behind

ifVars == <<trueCount, falseCount, executeElse, trueCountStack>>
stageVars == <<stageMatches, stageMatchesStack>>
factoryVars == <<deviceMatches, ifVars, stageVars, recursionDepth>>
ghosts == <<text, chains, outside>>
vars == <<graphVars, factoryVars, ghosts>>

ASSUME TextAssumption == \A t \in Texts : t.filters \subseteq Filters /\ t.max <= MaxFilters

\* startOfConfiguration and startOfFile of the top file.  The stage the
\* lines start in depends on the engine.
Init ==
  /\ GraphInit
  /\ text \in Texts
  /\ deviceMatches = TRUE
  /\ trueCount = 0 /\ falseCount = 0 /\ executeElse = FALSE
  /\ trueCountStack = <<0>>
  /\ stageMatches \in BOOLEAN
  /\ stageMatchesStack = <<stageMatches>>
  /\ recursionDepth = 0
  /\ chains = <<<<>>>>
  /\ outside = <<>>

-----------------------------------------------------------------------------
(* Ghosts.                                                                 *)

\* A chain: whether one of its branches runs, and whether one has run or
\* none may any more.
Chain(runs, decided) == [runs |-> runs, decided |-> decided]

InFile == Last(chains)

\* Every enclosing branch of the file runs.
Runs == \A i \in 1..Len(InFile) : InFile[i].runs

SetInFile(file) == chains' = Append(Front(chains), file)

Opened(value) == Chain(Runs /\ value = "true", ~Runs \/ value # "false")

Continued(value) ==
  IF Last(InFile).decided THEN Chain(FALSE, TRUE) ELSE Chain(value = "true", value = "true")

\* What a line of the including file can see of the load.
State ==
  [device |-> deviceMatches, trueCount |-> trueCount, falseCount |-> falseCount,
   executeElse |-> executeElse, stage |-> stageMatches, selected |-> current]

-----------------------------------------------------------------------------
(* Lines.                                                                  *)

\* The line reaches the If factory: Device does not empty its command.
ReachesIf(command) == phase = "loading" /\ command \in text.commands /\ deviceMatches

Device ==
  /\ phase = "loading" /\ "Device" \in text.commands
  /\ deviceMatches' \in BOOLEAN
  /\ UNCHANGED <<graphVars, ifVars, stageVars, recursionDepth, ghosts>>

\* Inside a branch that does not run the expression is never looked at.
If(value) ==
  /\ ReachesIf("If") /\ Len(InFile) < MaxChains
  /\ CASE falseCount > 0 -> falseCount' = falseCount + 1 /\ UNCHANGED <<trueCount, executeElse>>
       [] falseCount = 0 /\ value = "true" ->
            trueCount' = trueCount + 1 /\ UNCHANGED <<falseCount, executeElse>>
       [] falseCount = 0 /\ value = "false" ->
            falseCount' = 1 /\ executeElse' = TRUE /\ UNCHANGED trueCount
       [] falseCount = 0 /\ value = "error" ->
            falseCount' = 1 /\ UNCHANGED <<trueCount, executeElse>>
  /\ SetInFile(Append(InFile, Opened(value)))
  /\ UNCHANGED <<graphVars, deviceMatches, trueCountStack, stageVars, recursionDepth, text, outside>>

\* Mutant: executeElse is not taken back.
ElseIfAgain(value) ==
  /\ ReachesIf("ElseIf")
  /\ CASE falseCount = 0 /\ trueCount > 0 -> falseCount' = 1 /\ trueCount' = trueCount - 1
       [] falseCount = 1 /\ executeElse /\ value = "true" ->
            falseCount' = 0 /\ trueCount' = trueCount + 1
       [] OTHER -> UNCHANGED <<falseCount, trueCount>>
  /\ chains' = IF InFile = <<>> THEN chains
                ELSE Append(Front(chains), Append(Front(InFile), Continued(value)))
  /\ UNCHANGED <<graphVars, deviceMatches, executeElse, trueCountStack, stageVars,
                 recursionDepth, text, outside>>

\* Else is an ElseIf whose expression is always true.
ElseIf(value) ==
  /\ ReachesIf("ElseIf")
  /\ CASE falseCount = 0 /\ trueCount > 0 ->
            falseCount' = 1 /\ trueCount' = trueCount - 1 /\ UNCHANGED executeElse
       [] falseCount = 1 /\ executeElse /\ value = "true" ->
            falseCount' = 0 /\ trueCount' = trueCount + 1 /\ executeElse' = FALSE
       [] OTHER -> UNCHANGED <<falseCount, trueCount, executeElse>>
  /\ chains' = IF InFile = <<>> THEN chains
                ELSE Append(Front(chains), Append(Front(InFile), Continued(value)))
  /\ UNCHANGED <<graphVars, deviceMatches, trueCountStack, stageVars, recursionDepth, text, outside>>

EndIf ==
  /\ ReachesIf("EndIf")
  /\ falseCount' = IF falseCount > 0 THEN falseCount - 1 ELSE 0
  /\ trueCount' = IF falseCount = 0 /\ trueCount > 0 THEN trueCount - 1 ELSE trueCount
  /\ executeElse' = (executeElse /\ falseCount' > 0)
  /\ chains' = IF InFile = <<>> THEN chains ELSE Append(Front(chains), Front(InFile))
  /\ UNCHANGED <<graphVars, deviceMatches, trueCountStack, stageVars, recursionDepth, text, outside>>

\* The line reaches the Include and Stage factories.
Executed == phase = "loading" /\ deviceMatches /\ falseCount = 0

Stage ==
  /\ Executed /\ "Stage" \in text.commands
  /\ stageMatches' \in BOOLEAN
  /\ UNCHANGED <<graphVars, deviceMatches, ifVars, stageMatchesStack, recursionDepth, ghosts>>

FilterLine(f) ==
  /\ Executed /\ stageMatches
  /\ f \in text.filters /\ Len(infos) < text.max
  /\ AddFilter(f)
  /\ UNCHANGED <<factoryVars, ghosts>>

\* Include comes before Stage: a file is included in any stage.  The
\* factories' startOfFile.
Include ==
  /\ Executed
  /\ recursionDepth < RECURSION_LIMIT
  /\ StartOfFile
  /\ recursionDepth' = recursionDepth + 1
  /\ trueCountStack' = Append(trueCountStack, trueCount)
  /\ trueCount' = 0
  /\ executeElse' = FALSE
  /\ falseCount' = 0
  /\ stageMatchesStack' = Append(stageMatchesStack, stageMatches)
  /\ UNCHANGED <<deviceMatches, stageMatches>>
  /\ UNCHANGED text
  /\ chains' = Append(chains, <<>>)
  /\ outside' = Append(outside, State)

\* Mutant: an unclosed If is forgotten at the end of the file only in part.
EndOfIncludedKeeping ==
  /\ (~Unclosed => InFile = <<>>)
  /\ EndOfFile
  /\ deviceMatches' = TRUE
  /\ trueCount' = Last(trueCountStack)
  /\ trueCountStack' = Front(trueCountStack)
  /\ UNCHANGED <<falseCount, executeElse>>
  /\ UNCHANGED stageMatches
  /\ stageMatchesStack' = Front(stageMatchesStack)
  /\ recursionDepth' = recursionDepth - 1
  /\ UNCHANGED text
  /\ chains' = Front(chains)
  /\ outside' = Front(outside)

\* The factories' endOfFile.
EndOfIncluded ==
  /\ (~Unclosed => InFile = <<>>)
  /\ EndOfFile
  /\ deviceMatches' = TRUE
  /\ falseCount' = 0
  /\ trueCount' = Last(trueCountStack)
  /\ trueCountStack' = Front(trueCountStack)
  /\ UNCHANGED executeElse
  /\ stageMatches' = Last(stageMatchesStack)
  /\ stageMatchesStack' = Front(stageMatchesStack)
  /\ recursionDepth' = recursionDepth - 1
  /\ UNCHANGED text
  /\ chains' = Front(chains)
  /\ outside' = Front(outside)

\* The exception ends an included file without endOfFile.
FilterThrows(f) ==
  /\ Executed /\ stageMatches
  /\ f \in text.filters
  /\ AddFilterThrows(f)
  /\ UNCHANGED factoryVars
  /\ UNCHANGED text
  /\ IF phase' = "failed" THEN UNCHANGED <<chains, outside>>
     ELSE chains' = Front(chains) /\ outside' = Front(outside)

Process == (Publish \/ ProcessStep) /\ UNCHANGED <<factoryVars, ghosts>>

-----------------------------------------------------------------------------
IfFamily ==
  \/ \E value \in {"true", "false", "error"} : If(value) \/ ElseIf(value)
  \/ EndIf

Next ==
  \/ IfFamily
  \/ Device \/ Stage \/ Include \/ EndOfIncluded
  \/ \E f \in Filters : FilterLine(f) \/ FilterThrows(f)
  \/ Process

Spec == Init /\ [][Next]_vars

-----------------------------------------------------------------------------
(* Properties.                                                             *)

(* The two counters and the flag of the If factory, shared by all nesting  *)
(* levels, say what nested chains of branches say: lines run exactly when  *)
(* every enclosing branch of the file runs, and a branch of the innermost  *)
(* chain that does not run may still be taken only if none has been.       *)
BranchesAsNested ==
  phase = "loading" =>
    /\ falseCount = 0 <=> Runs
    /\ trueCount + falseCount = Len(InFile)
    /\ falseCount = 1 => executeElse = ~Last(InFile).decided

(* An included file leaves no trace in the factories: the lines below the  *)
(* Include see the device, the stage, the branches and the channels that   *)
(* the lines above it saw.                                                 *)
IncludeLeavesNoTrace ==
  [][Len(outside') < Len(outside) => State' = Last(outside)]_vars

=============================================================================
