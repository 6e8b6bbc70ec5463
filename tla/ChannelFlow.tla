----------------------------- MODULE ChannelFlow -----------------------------
(***************************************************************************)
(* What a configuration promises about channels: every filter line works   *)
(* on the channels selected where it stands, a selection made in an        *)
(* included file ends with that file, and a block of audio flows through   *)
(* the filters in the order of their lines, channel by channel, by name.   *)
(* No buffers and no pointers: FilterGraph shows how they implement this.  *)
(***************************************************************************)
EXTENDS ChannelFilters

VARIABLES
  program,   \* the filters added so far, with the names each was given
  names,     \* every channel name so far, in order
  selected,  \* the selection in each open file, the innermost last
  flow,      \* the sample values of a block, by channel
  step       \* the filter that runs next; 0 between blocks

vars == <<program, names, selected, flow, step>>

Init ==
  /\ program = <<>>
  /\ names = Channels
  /\ selected = <<Channels>>
  /\ flow = <<>>
  /\ step = 0

Line(f) ==
  LET given == IF getAllChannels(f) THEN names ELSE Last(selected)
      out == initialize(f, given)
  IN /\ program' = Append(program, [filter |-> f, names |-> given])
     /\ names' = Extend(names, out)
     /\ selected' = IF getSelectChannels(f)
                      THEN Append(Front(selected), out) ELSE selected
     /\ UNCHANGED <<flow, step>>

Include == selected' = Append(selected, Last(selected)) /\ UNCHANGED <<program, names, flow, step>>

EndOfFile ==
  /\ Len(selected) > 1
  /\ selected' = Front(selected)
  /\ UNCHANGED <<program, names, flow, step>>

\* A block arrives: the channels the device does not have start silent.
Block ==
  /\ step = 0
  /\ step' = 1
  /\ flow' = [i \in 1..Len(names) |-> Arriving(i)]
  /\ UNCHANGED <<program, names, selected>>

\* The values of the filter's channels before it, and what it makes of them.
Run ==
  /\ step \in 1..Len(program)
  /\ LET p == program[step]
         out == initialize(p.filter, p.names)
         input == [j \in 1..Len(p.names) |-> flow[Position(names, p.names[j])]]
     IN flow' = [i \in 1..Len(names) |->
          IF names[i] \in Range(out) /\ Produces(p.filter)
            THEN Product(step, p.filter, p.names, input, Position(out, names[i]))
            ELSE flow[i]]
  /\ step' = step + 1
  /\ UNCHANGED <<program, names, selected>>

Done ==
  /\ step = Len(program) + 1
  /\ step' = 0
  /\ flow' = <<>>
  /\ UNCHANGED <<program, names, selected>>

Next == (\E f \in Filters : Line(f)) \/ Include \/ EndOfFile \/ Block \/ Run \/ Done

Spec == Init /\ [][Next]_vars

=============================================================================
