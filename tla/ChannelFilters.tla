---------------------------- MODULE ChannelFilters ----------------------------
(***************************************************************************)
(* The filters as the engine's graph sees them (IFilter.h): which channels *)
(* a filter asks for, whether it writes where it reads, whether it selects *)
(* channels, the names initialize returns, and what process makes of a     *)
(* block.  A sample value is the term of the filters it went through:      *)
(* equal terms are equal samples.                                          *)
(*                                                                         *)
(*   preamp  in place on the selection (BiQuad, IIR, Convolution)          *)
(*   delay   from input to output buffers (Velvet, VST)                    *)
(*   select  the Channel command: no samples, a new selection              *)
(*   copy    on every channel, to old or new channels                      *)
(***************************************************************************)
EXTENDS Integers, Sequences, SequencesExt

CONSTANTS
  Channels,      \* the names of the device's channels, in order
  realChannelCount,    \* how many of them carry input
  Filters        \* the filters that lines may make

Silence == <<"silence">>

\* What read, the zero fill and the mono upmix put into channel i.  Two
\* channels of the device with one input: the second is an output.
Arriving(i) ==
  IF i <= realChannelCount THEN <<"input", i>>
  ELSE IF realChannelCount = 1 /\ i = 2 /\ Len(Channels) >= 2 THEN <<"input", 1>>
  ELSE Silence

Position(names, n) == CHOOSE i \in 1..Len(names) : names[i] = n

\* The names that are in a set, in their order: SelectSeq, by a recursive
\* function that can be reasoned about.
Kept(names, set) ==
  LET kept[i \in 0..Len(names)] ==
        IF i = 0 THEN <<>>
        ELSE IF names[i] \in set THEN Append(kept[i - 1], names[i])
        ELSE kept[i - 1]
  IN kept[Len(names)]

\* push_back of the names that are not there yet.
Extend(all, names) == all \o Kept(names, Range(names) \ Range(all))

getAllChannels(f) == f.kind \in {"select", "copy"}
getInPlace(f) == f.kind \in {"preamp", "select"}
getSelectChannels(f) == f.kind = "select"
Produces(f) == f.kind # "select"

Targets(f) == [i \in 1..Len(f.assignments) |-> f.assignments[i].target]

\* The names a filter publishes, given the names it was initialized with.
initialize(f, names) ==
  CASE f.kind = "select" -> Kept(names, f.words)
    [] f.kind = "copy" -> Extend(<<>>, Targets(f))
    [] OTHER -> names

\* The value of output j of the filter at a position in the configuration.
Product(position, f, names, input, j) ==
  IF f.kind = "copy"
    THEN LET sources == f.assignments[j].sources
         IN [i \in 1..Len(sources) |-> input[Position(names, sources[i])]]
    ELSE <<"filter", position, input[j]>>

=============================================================================
