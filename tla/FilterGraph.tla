----------------------------- MODULE FilterGraph -----------------------------
(***************************************************************************)
(* How FilterEngine::addFilters builds a configuration and how             *)
(* FilterConfiguration::process runs it.                                   *)
(*                                                                         *)
(* Every filter gets the indexes of the channels it reads and writes, or   *)
(* an empty list, which means: the pointers the previous filter has left.  *)
(* addFilters decides that by comparing names; process then moves sample   *)
(* pointers, and swaps them after a filter that does not work in place.    *)
(* The two sides share no data but the lists.                              *)
(*                                                                         *)
(* A load ends with the top file (publish), with an exception outside      *)
(* every included file (rollback), and goes on after one inside: the       *)
(* Include line that reads the file catches it, and everything that        *)
(* loadConfigFile does at the end of a file is left out.                   *)
(***************************************************************************)
EXTENDS ChannelFilters, FiniteSets

CONSTANTS
  MaxFilters,      \* bound: filters of a configuration
  RECURSION_LIMIT, \* of IncludeFilterFactory (100 in the code)
  MaxBlocks,       \* bound: blocks processed
  IncludedThrows,  \* whether initialize may throw in an included file
  Null             \* a pointer of currentSamples before its first use

ASSUME ChannelAssumption ==
  /\ Channels \in Seq(Range(Channels)) /\ Len(Channels) >= 1
  /\ realChannelCount \in 1..Len(Channels)
  /\ \A i, j \in 1..Len(Channels) : Channels[i] = Channels[j] => i = j

ASSUME CopyAssumption ==
  \A f \in Filters : f.kind = "copy" =>
    /\ f.assignments \in Seq(Range(f.assignments))
    /\ \A i, j \in 1..Len(f.assignments) :
         f.assignments[i].target = f.assignments[j].target => i = j

ASSUME NullAssumption == Null \notin {"data", "data2"} \X Nat

VARIABLES
  infos,       \* load.filterInfos, then the configuration's
  current,     \* load.currentChannelNames
  last,        \* load.lastChannelNames
  lastNew,     \* load.lastNewChannelNames
  allNames,    \* load.allChannelNames
  lastInPlace, \* load.lastInPlace
  saved,       \* savedChannelNames of each open loadConfigFile
  phase,       \* "loading", "idle", "running" or "failed"
  allSamples, allSamples2,         \* FilterConfiguration's pointers by channel
  currentSamples, currentSamples2, \* those the next filter may inherit
  samples,     \* the buffers' contents
  position,    \* the filter that runs next
  blocks       \* blocks processed (bounded)

loadVars == <<infos, current, last, lastNew, allNames, lastInPlace, saved>>
processVars == <<allSamples, allSamples2, currentSamples, currentSamples2, samples, position>>
graphVars == <<loadVars, phase, processVars, blocks>>

\* loadConfig up to the startOfFile of the top file; lastInPlace is what
\* the previous load has left.
GraphInit ==
  /\ infos = <<>>
  /\ current = Channels
  /\ last = <<>>
  /\ lastNew = <<>>
  /\ allNames = Channels
  /\ lastInPlace \in BOOLEAN
  /\ saved = <<Channels>>
  /\ phase = "loading"
  /\ allSamples = <<>> /\ allSamples2 = <<>>
  /\ currentSamples = <<>> /\ currentSamples2 = <<>>
  /\ samples = <<>>
  /\ position = 0
  /\ blocks = 0

-----------------------------------------------------------------------------
(* Loading.                                                                *)

Selection(f) == IF getAllChannels(f) THEN allNames ELSE current

Positions(all, names) == [j \in 1..Len(names) |-> Position(all, names[j])]

InheritsInput(f) == last = Selection(f)

\* Mutant: pointers are inherited from a filter that has swapped them.
InheritsOutputSwapped(f) ==
  getInPlace(f) /\ lastNew = initialize(f, Selection(f))

\* Only between two filters in place, with the same names.
InheritsOutput(f) ==
  getInPlace(f) /\ lastInPlace /\ lastNew = initialize(f, Selection(f))

\* Mutant: what the next filter may inherit is recorded before the swap.
AddFilterUnswapped(f) ==
  LET given == Selection(f)
      out == initialize(f, given)
      all == IF InheritsOutput(f) THEN allNames ELSE Extend(allNames, out)
      info == [filter |-> f, given |-> given,
               inChannels |-> IF InheritsInput(f) THEN <<>> ELSE Positions(allNames, given),
               outChannels |-> IF InheritsOutput(f) THEN <<>> ELSE Positions(all, out)]
  IN /\ phase = "loading" /\ Len(infos) < MaxFilters
     /\ infos' = Append(infos, info)
     /\ last' = given
     /\ lastNew' = out
     /\ lastInPlace' = getInPlace(f)
     /\ allNames' = all
     /\ current' = IF getSelectChannels(f) THEN out ELSE current
     /\ UNCHANGED <<saved, phase, processVars, blocks>>

\* addFilters for one filter.  Selected names are always in allNames.
AddFilter(f) ==
  LET given == Selection(f)
      out == initialize(f, given)
      all == IF InheritsOutput(f) THEN allNames ELSE Extend(allNames, out)
      info == [filter |-> f, given |-> given,
               inChannels |-> IF InheritsInput(f) THEN <<>> ELSE Positions(allNames, given),
               outChannels |-> IF InheritsOutput(f) THEN <<>> ELSE Positions(all, out)]
  IN /\ phase = "loading" /\ Len(infos) < MaxFilters
     /\ infos' = Append(infos, info)
     /\ last' = IF getInPlace(f) THEN given ELSE out
     /\ lastNew' = IF getInPlace(f) THEN out ELSE given
     /\ lastInPlace' = getInPlace(f)
     /\ allNames' = all
     /\ current' = IF getSelectChannels(f) THEN out ELSE current
     /\ UNCHANGED <<saved, phase, processVars, blocks>>

\* initialize throws halfway through addFilters.  In the top file the whole
\* load is rolled back; in an included one the frame of the file is gone,
\* and what was assigned so far stays.
AddFilterThrows(f) ==
  /\ phase = "loading" /\ Len(infos) < MaxFilters
  /\ Len(saved) > 1 => IncludedThrows
  /\ IF Len(saved) = 1
       THEN phase' = "failed" /\ UNCHANGED loadVars
       ELSE /\ current' = Selection(f)
            /\ last' = Selection(f)
            /\ saved' = Front(saved)
            /\ UNCHANGED <<infos, lastNew, allNames, lastInPlace, phase>>
  /\ UNCHANGED <<processVars, blocks>>

\* loadConfigFile of a file that can be read.
StartOfFile ==
  /\ phase = "loading" /\ Len(saved) <= RECURSION_LIMIT
  /\ saved' = Append(saved, current)
  /\ UNCHANGED <<infos, current, last, lastNew, allNames, lastInPlace, phase, processVars, blocks>>

EndOfFile ==
  /\ phase = "loading" /\ Len(saved) > 1
  /\ current' = Last(saved)
  /\ saved' = Front(saved)
  /\ UNCHANGED <<infos, last, lastNew, allNames, lastInPlace, phase, processVars, blocks>>

\* The top file ends: the FilterConfiguration is constructed and published.
Publish ==
  /\ phase = "loading" /\ Len(saved) = 1
  /\ phase' = "idle"
  /\ LET count == 1..Len(allNames)
     IN /\ allSamples' = [c \in count |-> <<"data", c>>]
        /\ allSamples2' = [c \in count |-> <<"data2", c>>]
        /\ currentSamples' = [c \in count |-> Null]
        /\ currentSamples2' = [c \in count |-> Null]
        /\ samples' = [b \in {"data", "data2"} \X count |-> Silence]
  /\ UNCHANGED <<loadVars, position, blocks>>

-----------------------------------------------------------------------------
(* Processing.                                                             *)

\* read, and the zero fill at the start of process.
Read ==
  /\ phase = "idle" /\ blocks < MaxBlocks
  /\ phase' = "running"
  /\ position' = 1
  /\ samples' = [b \in DOMAIN samples |->
       IF b \in Range(allSamples) THEN Arriving(Position(allSamples, b)) ELSE samples[b]]
  /\ UNCHANGED <<loadVars, allSamples, allSamples2, currentSamples, currentSamples2, blocks>>

Filter == infos[position].filter

\* The pointers refilled from a list, or left as they are.
Refilled(pointers, list, from) ==
  [j \in 1..Len(pointers) |-> IF j <= Len(list) THEN from[list[j]] ELSE pointers[j]]

Input == Refilled(currentSamples, infos[position].inChannels, allSamples)

Output ==
  Refilled(currentSamples2, infos[position].outChannels,
           IF getInPlace(Filter) THEN allSamples ELSE allSamples2)

\* How many pointers the filter follows on each side.
InputCount == IF Produces(Filter) THEN Len(infos[position].given) ELSE 0
OutputCount == IF Produces(Filter) THEN Len(initialize(Filter, infos[position].given)) ELSE 0

\* The filter would follow a pointer that was never set.
Wild ==
  \/ \E j \in 1..InputCount : Input[j] = Null
  \/ \E j \in 1..OutputCount : Output[j] = Null

\* What the filter leaves in the buffers.
Processed ==
  LET input == [j \in 1..InputCount |-> samples[Input[j]]]
      written == {Output[j] : j \in 1..OutputCount}
  IN [b \in DOMAIN samples |->
       IF b \in written
         THEN Product(position, Filter, infos[position].given, input,
                      CHOOSE j \in 1..OutputCount : Output[j] = b)
         ELSE samples[b]]

\* The pointers of the channels in a list, taken from the other array.
Swapped(pointers, others) ==
  [c \in 1..Len(pointers) |->
     IF c \in Range(infos[position].outChannels) THEN others[c] ELSE pointers[c]]

\* One turn of process' loop.
RunFilter ==
  /\ phase = "running" /\ position <= Len(infos) /\ ~Wild
  /\ samples' = Processed
  /\ IF getInPlace(Filter)
       THEN /\ currentSamples' = Input /\ currentSamples2' = Output
            /\ UNCHANGED <<allSamples, allSamples2>>
       ELSE /\ currentSamples' = Output /\ currentSamples2' = Input
            /\ allSamples' = Swapped(allSamples, allSamples2)
            /\ allSamples2' = Swapped(allSamples2, allSamples)
  /\ position' = position + 1
  /\ UNCHANGED <<loadVars, phase, blocks>>

\* write: the block leaves from allSamples.
Write ==
  /\ phase = "running" /\ position = Len(infos) + 1
  /\ phase' = "idle"
  /\ position' = 0
  /\ blocks' = blocks + 1
  /\ UNCHANGED <<loadVars, allSamples, allSamples2, currentSamples, currentSamples2, samples>>

-----------------------------------------------------------------------------
LoadStep ==
  \/ \E f \in Filters : AddFilter(f) \/ AddFilterThrows(f)
  \/ StartOfFile \/ EndOfFile \/ Publish

ProcessStep == Read \/ RunFilter \/ Write

GraphNext == LoadStep \/ ProcessStep

GraphSpec == GraphInit /\ [][GraphNext]_graphVars

-----------------------------------------------------------------------------
(* Properties.                                                             *)

(* What comes out of a configuration is what its lines say: channel by     *)
(* channel the samples that ChannelFlow computes by name, whatever the     *)
(* filters inherit from each other and however often the buffers have been *)
(* swapped, in this block and in those before it.                          *)
Flow == INSTANCE ChannelFlow WITH
  program <- [k \in 1..Len(infos) |-> [filter |-> infos[k].filter, names |-> infos[k].given]],
  names <- allNames,
  selected <- Append(Tail(saved), current),
  flow <- IF position = 0 THEN <<>> ELSE [c \in 1..Len(allSamples) |-> samples[allSamples[c]]],
  step <- position

ImplementsChannelFlow == Flow!Spec

(* No filter follows a pointer that no filter before it has set: an empty  *)
(* list of channels is handed out only when there is something to inherit. *)
InheritsOnlyWhatIsThere ==
  phase = "running" /\ position <= Len(infos) => ~Wild

=============================================================================
