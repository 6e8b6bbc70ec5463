-------------------------- MODULE SubwooferRouting --------------------------
(***************************************************************************)
(* The subwoofer routing of SubwooferRoutingCore, as the engine's filter   *)
(* uses it: a state (paths from physical inputs through gains, a delay and *)
(* equalizers, and a matrix of outputs) is validated against the device,   *)
(* compiled to a graph of indices and coefficients, prepared, and then     *)
(* processes blocks of whatever length, on planes that may be each other's.*)
(* What a block is filtered with in between - merged gains, rings of       *)
(* delayed samples, two numbers per equalizer - has to add up to what the  *)
(* state declares of the whole stream.                                     *)
(*                                                                         *)
(* Samples are multiples of four, and a rate is counted in half samples    *)
(* per millisecond, so that half a sample of delay and half of a trim stay *)
(* exact.  Frequencies are counted such that the rate is Nyquist's.        *)
(***************************************************************************)
EXTENDS Integers, FiniteSets, SequencesExt

CONSTANTS
  States,           \* the SubwooferRoutingStates that a command may hold
  Layouts,          \* the channels of a device, in their order
  Rates,            \* half samples per millisecond
  maximumBlockSize, \* PrepareSpec's
  Signals,          \* the samples of one frame: one for each channel
  MaxFrames,        \* bound: the frames that are played
  MaximumDelay,     \* kMaximumDelaySeconds, in milliseconds
  LinearGain,       \* decibelsToLinear, on the gains of the states
  LinearTrim,       \* decibelsToLinear in halves, on the trims
  Coefficients,     \* makeBiquad, on the names of the filters
  NotFinite         \* a number that is infinite or none

ASSUME Sizes == maximumBlockSize \in Nat \ {0} /\ MaxFrames \in Nat

\* What the C++ types say of a state, whether it is valid or not.
Vector(v) == v \in Seq(Range(v))

Gains == DOMAIN LinearGain \cup {NotFinite}

TypedFilter(filter) == filter.name \in DOMAIN Coefficients

TypedStage(stage) ==
  \/ stage.kind = "Gain" /\ stage.gain \in Gains
  \/ stage.kind = "Polarity" /\ stage.inverted \in BOOLEAN
  \/ stage.kind = "Delay" /\ stage.ms \in Int \cup {NotFinite}
  \/ stage.kind = "Biquad" /\ TypedFilter(stage.filter)
  \/ stage.kind = "Slots" /\ Vector(stage.filters) /\ \A filter \in Range(stage.filters) : TypedFilter(filter)

TypedPath(path) ==
  /\ Vector(path.mix) /\ \A term \in Range(path.mix) : term.gain \in Int \cup {NotFinite}
  /\ Vector(path.chain) /\ \A stage \in Range(path.chain) : TypedStage(stage)
  /\ path.pre \in Gains /\ path.post \in Gains

TypedState(s) ==
  /\ Vector(s.paths) /\ \A path \in Range(s.paths) : TypedPath(path)
  /\ Vector(s.matrix)
  /\ \A output \in Range(s.matrix) :
       Vector(output.terms) /\ \A term \in Range(output.terms) : term.gain \in Gains

ASSUME StatesTyped == \A s \in States : TypedState(s)

ASSUME DevicesTyped ==
  /\ Rates \subseteq Nat
  /\ \A l \in Layouts : Vector(l) /\ \A frame \in Signals : \A c \in DOMAIN l : c \in DOMAIN frame /\ frame[c] \in Int

ASSUME NumbersTyped ==
  /\ NotFinite \notin Int
  /\ LinearGain \in [DOMAIN LinearGain -> Int \cup {NotFinite}]
  /\ Coefficients \in [DOMAIN Coefficients -> [b0 : Int, b1 : Int, b2 : Int, a1 : Int, a2 : Int]]

\* What n turns of a loop make of what it begins with.
Loop(Turn(_, _), first, n) ==
  LET after[i \in 0..n] == IF i = 0 THEN first ELSE Turn(after[i - 1], i)
  IN  after[n]

-----------------------------------------------------------------------------
(* Validation.  A state's identifiers are any names.                       *)

Ids(items) == [i \in DOMAIN items |-> items[i].id]

Filters(path) == UNION {CASE stage.kind = "Biquad" -> {stage.filter}
                          [] stage.kind = "Slots"  -> Range(stage.filters)
                          [] OTHER                 -> {} : stage \in Range(path.chain)}

\* A slope of a shelf is at most one, counted in hundredths.
ValidFilter(filter) ==
  /\ filter.hz # NotFinite /\ filter.hz > 0
  /\ filter.q # NotFinite /\ filter.q > 0 /\ (filter.shelf => filter.q =< 100)
  /\ filter.gain # NotFinite

ValidStage(stage) ==
  CASE stage.kind = "Gain"  -> stage.gain # NotFinite
    [] stage.kind = "Delay" -> stage.ms # NotFinite /\ stage.ms >= 0
    [] OTHER                -> TRUE

\* Once each: a polarity, a delay and the slots of the equalizer.
WholeChain(chain) ==
  \A kind \in {"Polarity", "Delay", "Slots"} : Cardinality({i \in DOMAIN chain : chain[i].kind = kind}) = 1

ValidPath(s, path) ==
  /\ path.pre # NotFinite /\ path.post # NotFinite
  /\ path.mix # <<>>
  /\ \A term \in Range(path.mix) : term.gain # NotFinite /\ term.channel \in Range(s.layout)
  /\ WholeChain(path.chain)
  /\ \A stage \in Range(path.chain) : ValidStage(stage)
  /\ \A filter \in Filters(path) : ValidFilter(filter)

\* A path that a group counts among its mains, or has for its bass.
OfKind(s, id, kind) ==
  \E i \in DOMAIN s.paths : /\ s.paths[i].id = id /\ s.paths[i].kind = kind
                            /\ \A j \in 1..i - 1 : s.paths[j].id # id

ValidGroup(s, group) ==
  /\ group.mains # <<>> \/ group.bass # {}
  /\ IsInjective(group.mains) /\ group.bass \cap Range(group.mains) = {}
  /\ \A id \in Range(group.mains) : OfKind(s, id, "Main")
  /\ \A id \in group.bass : OfKind(s, id, "Bass")

\* Mutant: nobody looks whether the terms' paths exist.
ValidOutputDangling(s, output) ==
  /\ output.target \in Range(s.layout)
  /\ output.terms # <<>>
  /\ \A term \in Range(output.terms) : term.gain # NotFinite

ValidOutput(s, output) ==
  /\ output.target \in Range(s.layout)
  /\ output.terms # <<>>
  /\ \A term \in Range(output.terms) : term.gain # NotFinite /\ term.path \in Range(Ids(s.paths))

ValidHeadroom(headroom) ==
  headroom.trim # NotFinite /\ (headroom.mode = "Manual" => headroom.trim =< 0)

\* On its own, as the factory asks it of a command.
ValidState(s) ==
  /\ s.layout # <<>> /\ IsInjective(s.layout)
  /\ s.paths # <<>> /\ IsInjective(Ids(s.paths))
  /\ \A path \in Range(s.paths) : ValidPath(s, path)
  /\ IsInjective(Ids(s.groups))
  /\ \A group \in Range(s.groups) : ValidGroup(s, group)
  /\ s.matrix # <<>> /\ IsInjective([i \in DOMAIN s.matrix |-> s.matrix[i].target])
  /\ \A output \in Range(s.matrix) : ValidOutput(s, output)
  /\ ValidHeadroom(s.headroom)

\* On a device, as the filter asks it.
ValidOn(s, layout, rate) ==
  /\ ValidState(s)
  /\ IsInjective(layout) /\ Range(s.layout) \subseteq Range(layout)
  /\ \A path \in Range(s.paths) :
       /\ \A filter \in Filters(path) : filter.hz < rate
       /\ \A stage \in Range(path.chain) : stage.kind = "Delay" => stage.ms =< MaximumDelay

-----------------------------------------------------------------------------
(* Compilation.                                                            *)

\* Neighbouring gains become one.
appendGainStage(stages, gain) ==
  IF stages # <<>> /\ Last(stages).kind = "Gain"
    THEN [stages EXCEPT ![Len(stages)].gain =
            IF @ = NotFinite \/ gain = NotFinite THEN NotFinite ELSE @ * gain]
    ELSE Append(stages, [kind |-> "Gain", gain |-> gain])

appendDelayStage(stages, halves) ==
  IF halves = 0
    THEN stages
    ELSE Append(stages, [kind |-> "Delay", integer |-> halves \div 2, fraction |-> halves % 2])

appendBiquadStage(stages, filter) ==
  Append(stages, [kind |-> "Biquad", biquad |-> Coefficients[filter.name]])

appendBiquadStages(stages, filters) ==
  LET turn(grown, i) == appendBiquadStage(grown, filters[i])
  IN  Loop(turn, stages, Len(filters))

appendStage(stages, stage, rate) ==
  CASE stage.kind = "Gain"     -> appendGainStage(stages, LinearGain[stage.gain])
    [] stage.kind = "Polarity" -> IF stage.inverted THEN appendGainStage(stages, -1) ELSE stages
    [] stage.kind = "Delay"    -> appendDelayStage(stages, stage.ms * rate)
    [] stage.kind = "Biquad"   -> appendBiquadStage(stages, stage.filter)
    [] stage.kind = "Slots"    -> appendBiquadStages(stages, stage.filters)

CompiledStages(path, rate) ==
  LET turn(grown, i) == appendStage(grown, path.chain[i], rate)
  IN  appendGainStage(Loop(turn, appendGainStage(<<>>, LinearGain[path.pre]), Len(path.chain)),
                      LinearGain[path.post])

\* The maps from names to indices keep the first; asking for a name that
\* they do not have throws.
IndexOf(ids, id) == SelectInSeq(ids, LAMBDA other : other = id)

CompiledPath(path, layout, rate) ==
  [mix    |-> [i \in DOMAIN path.mix |-> [channel |-> IndexOf(layout, path.mix[i].channel), gain |-> path.mix[i].gain]],
   stages |-> CompiledStages(path, rate)]

CompiledOutput(s, output, layout) ==
  [target |-> IndexOf(layout, output.target), mode |-> output.mode,
   terms  |-> [i \in DOMAIN output.terms |-> [path |-> IndexOf(Ids(s.paths), output.terms[i].path),
                                              gain |-> LinearGain[output.terms[i].gain]]]]

\* The headroom's analysis predicts some peak, and trims by that or by hand.
Trims(s) == IF s.headroom.mode = "Manual" THEN {LinearTrim[s.headroom.trim]} ELSE {1, 2}

Graph(s, layout, rate, trim) ==
  [paths   |-> [i \in DOMAIN s.paths |-> CompiledPath(s.paths[i], layout, rate)],
   outputs |-> [i \in DOMAIN s.matrix |-> CompiledOutput(s, s.matrix[i], layout)],
   trim    |-> trim]

Resolved(graph) ==
  /\ \A path \in Range(graph.paths) : \A term \in Range(path.mix) : term.channel # 0
  /\ \A output \in Range(graph.outputs) : output.target # 0 /\ \A term \in Range(output.terms) : term.path # 0

\* What prepare asks for again; gains that were finite in decibels may not be now.
Preparable(graph) ==
  /\ \A path \in Range(graph.paths) : \A stage \in Range(path.stages) : stage.kind = "Gain" => stage.gain # NotFinite
  /\ \A output \in Range(graph.outputs) : \A term \in Range(output.terms) : term.gain # NotFinite
  /\ IsInjective([i \in DOMAIN graph.outputs |-> graph.outputs[i].target])

-----------------------------------------------------------------------------
VARIABLES
  state, layout, rate, \* what the filter was made of and initialized for
  phase,               \* "fresh", "prepared", "passthrough" or "threw"
  graph,               \* the processor's, once prepared
  memory,              \* of each stage of each path: a delay line or an equalizer's state
  heard,               \* the frames since preparation or reset
  played               \* and what became of them

vars == <<state, layout, rate, phase, graph, memory, heard, played>>

Cleared(stage) ==
  CASE stage.kind = "Delay"  -> [line |-> [i \in 0..stage.integer + 1 |-> 0], write |-> 0]
    [] stage.kind = "Biquad" -> <<0, 0>>
    [] OTHER                 -> <<>>

ClearedMemory(prepared) ==
  [p \in DOMAIN prepared.paths |->
     [i \in DOMAIN prepared.paths[p].stages |-> Cleared(prepared.paths[p].stages[i])]]

\* SubwooferRoutingFilter::initialize, once the engine knows the device.
\* Only the preparation catches what is thrown.
Initialize ==
  /\ phase = "fresh"
  /\ \E trim \in Trims(state) :
       LET compiled == Graph(state, layout, rate, trim)
       IN  /\ phase' = IF ~ValidOn(state, layout, rate)   THEN "passthrough"
                       ELSE IF ~Resolved(compiled)        THEN "threw"
                       ELSE IF ~Preparable(compiled)      THEN "passthrough" ELSE "prepared"
           /\ IF phase' = "prepared"
                THEN graph' = compiled /\ memory' = ClearedMemory(compiled)
                ELSE UNCHANGED <<graph, memory>>
  /\ UNCHANGED <<state, layout, rate, heard, played>>

-----------------------------------------------------------------------------
(* One block.                                                              *)

\* A sample through a stage: [sample, memory].
DelayedSample(stage, m, x) ==
  LET size       == Cardinality(DOMAIN m.line)
      line       == [m.line EXCEPT ![m.write] = x]
      Back(ago)  == IF m.write >= ago THEN m.write - ago ELSE m.write + size - ago
      current    == line[Back(stage.integer)]
      previous   == line[Back(stage.integer + 1)]
  IN  [sample |-> ((2 - stage.fraction) * current + stage.fraction * previous) \div 2,
       memory |-> [line |-> line, write |-> IF m.write + 1 = size THEN 0 ELSE m.write + 1]]

EqualizedSample(b, m, x) ==
  LET y == b.b0 * x + m[1]
  IN  [sample |-> y, memory |-> <<b.b1 * x - b.a1 * y + m[2], b.b2 * x - b.a2 * y>>]

StagedSample(stage, m, x) ==
  CASE stage.kind = "Gain"   -> [sample |-> stage.gain * x, memory |-> m]
    [] stage.kind = "Delay"  -> DelayedSample(stage, m, x)
    [] stage.kind = "Biquad" -> EqualizedSample(stage.biquad, m, x)

StagedBlock(stage, m, block) ==
  LET turn(done, t) ==
        LET r == StagedSample(stage, done.memory, block[t])
        IN  [block |-> Append(done.block, r.sample), memory |-> r.memory]
  IN  Loop(turn, [block |-> <<>>, memory |-> m], Len(block))

Total(terms) ==
  LET turn(sum, i) == sum + terms[i]
  IN  Loop(turn, 0, Len(terms))

\* A path's scratch: the mix of the preserved inputs, through every stage.
PathBlock(path, m, preserved) ==
  LET mixed == [t \in DOMAIN preserved[1] |->
                  Total([i \in DOMAIN path.mix |-> path.mix[i].gain * preserved[path.mix[i].channel][t]])]
      turn(done, i) ==
        LET r == StagedBlock(path.stages[i], m[i], done.block)
        IN  [block |-> r.block, memory |-> Append(done.memory, r.memory)]
  IN  Loop(turn, [block |-> mixed, memory |-> <<>>], Len(path.stages))

Channels == DOMAIN layout

\* The planes of a call: input c in plane c, output c in plane place[c].
Places == {place \in [Channels -> 1..2 * Len(layout)] : IsInjective(place)}

\* Mutant: an output that is added to reads its input where it was handed in.
OriginalTargetUnpreserved(preserved, planes, channel) == planes[channel]

OriginalTarget(preserved, planes, channel) == preserved[channel]

\* An output of the matrix, onto its plane.
WrittenBy(output, planes, preserved, scratch, place) ==
  LET original == OriginalTarget(preserved, planes, output.target)
  IN  [planes EXCEPT ![place[output.target]] =
         [t \in DOMAIN original |->
            (((IF output.mode = "Add" THEN original[t] ELSE 0)
             + Total([i \in DOMAIN output.terms |->
                        scratch[output.terms[i].path].block[t] * output.terms[i].gain]))
            * graph.trim) \div 2]]

\* All of them, one after the other.
Written(planes, preserved, scratch, place) ==
  LET turn(now, k) == WrittenBy(graph.outputs[k], now, preserved, scratch, place)
  IN  Loop(turn, planes, Len(graph.outputs))

Targeted(channel) == \E output \in Range(graph.outputs) : output.target = channel

\* What no output writes is copied before any output is written.
Copied(planes, preserved, place) ==
  [plane \in DOMAIN planes |->
     IF \E c \in Channels : place[c] = plane /\ ~Targeted(c)
       THEN preserved[CHOOSE c \in Channels : place[c] = plane]
       ELSE planes[plane]]

\* Frames and planes of one block; the output planes hold no samples yet.
PlanesOf(frames) ==
  [plane \in 1..2 * Len(layout) |->
     [t \in DOMAIN frames |-> IF plane \in Channels THEN frames[t][plane] ELSE 0]]

FramesOf(planes, place, frames) ==
  [t \in DOMAIN frames |-> [c \in Channels |-> planes[place[c]][t]]]

\* Processor::process.  Its input planes are preserved first.
Process(frames, place) ==
  /\ phase = "prepared"
  /\ LET preserved == PlanesOf(frames)
         scratch   == [p \in DOMAIN graph.paths |-> PathBlock(graph.paths[p], memory[p], preserved)]
         copied    == Copied(PlanesOf(frames), preserved, place)
         written   == Written(copied, preserved, scratch, place)
     IN  /\ memory' = [p \in DOMAIN memory |-> scratch[p].memory]
         /\ played' = played \o FramesOf(written, place, frames)
  /\ heard' = heard \o frames
  /\ UNCHANGED <<state, layout, rate, phase, graph>>

\* The filter's own copy, one channel after the other; the engine hands
\* planes that are apart, as the filter does not ask for its own.
PassThrough(frames) ==
  /\ phase = "passthrough"
  /\ heard' = heard \o frames
  /\ played' = played \o frames
  /\ UNCHANGED <<state, layout, rate, phase, graph, memory>>

\* Processor::reset.
Reset ==
  /\ phase = "prepared"
  /\ memory' = ClearedMemory(graph)
  /\ heard' = <<>> /\ played' = <<>>
  /\ UNCHANGED <<state, layout, rate, phase, graph>>

Blocks ==
  UNION {[1..n -> Signals] : n \in 1..(IF maximumBlockSize < MaxFrames - Len(heard)
                                        THEN maximumBlockSize ELSE MaxFrames - Len(heard))}

Init ==
  /\ state \in States /\ ValidState(state)
  /\ layout \in Layouts /\ rate \in Rates
  /\ phase = "fresh" /\ graph = <<>> /\ memory = <<>>
  /\ heard = <<>> /\ played = <<>>

Next ==
  \/ Initialize
  \/ \E frames \in Blocks, place \in Places : Process(frames, place)
  \/ \E frames \in Blocks : PassThrough(frames)
  \/ Reset

Spec == Init /\ [][Next]_vars

-----------------------------------------------------------------------------
(* What a state declares of a whole stream, in State.h's and Graph.h's     *)
(* words: nothing here is compiled, merged, preserved or kept in a ring.   *)

At(stream, t) == IF t >= 1 THEN stream[t] ELSE 0

DeclaredDelay(stream, halves) ==
  [t \in DOMAIN stream |->
     LET whole == halves \div 2
         half  == halves % 2
     IN  ((2 - half) * At(stream, t - whole) + half * At(stream, t - whole - 1)) \div 2]

DeclaredEqualizer(stream, b) ==
  LET Y[t \in -1..Len(stream)] ==
        IF t < 1 THEN 0
        ELSE b.b0 * At(stream, t) + b.b1 * At(stream, t - 1) + b.b2 * At(stream, t - 2)
             - b.a1 * Y[t - 1] - b.a2 * Y[t - 2]
  IN  [t \in DOMAIN stream |-> Y[t]]

Scaled(stream, gain) == [t \in DOMAIN stream |-> gain * stream[t]]

DeclaredSlots(stream, filters) ==
  LET turn(y, i) == DeclaredEqualizer(y, Coefficients[filters[i].name])
  IN  Loop(turn, stream, Len(filters))

DeclaredStage(stream, stage, r) ==
  CASE stage.kind = "Gain"     -> Scaled(stream, LinearGain[stage.gain])
    [] stage.kind = "Polarity" -> Scaled(stream, IF stage.inverted THEN -1 ELSE 1)
    [] stage.kind = "Delay"    -> DeclaredDelay(stream, stage.ms * r)
    [] stage.kind = "Biquad"   -> DeclaredEqualizer(stream, Coefficients[stage.filter.name])
    [] stage.kind = "Slots"    -> DeclaredSlots(stream, stage.filters)

Heard(stream, channel, t) == stream[t][IndexOf(layout, channel)]

DeclaredMix(stream, path) ==
  [t \in DOMAIN stream |->
     Total([i \in DOMAIN path.mix |-> path.mix[i].gain * Heard(stream, path.mix[i].channel, t)])]

DeclaredPath(path, mixed, r) ==
  LET turn(y, i) == DeclaredStage(y, path.chain[i], r)
  IN  Scaled(Loop(turn, Scaled(mixed, LinearGain[path.pre]), Len(path.chain)), LinearGain[path.post])

DeclaredOutput(stream, output, t) ==
  LET Named(id)     == CHOOSE path \in Range(state.paths) : path.id = id
      Through(path) == DeclaredPath(path, DeclaredMix(stream, path), rate)
  IN  (((IF output.mode = "Add" THEN Heard(stream, output.target, t) ELSE 0)
        + Total([i \in DOMAIN output.terms |->
                   Through(Named(output.terms[i].path))[t] * LinearGain[output.terms[i].gain]]))
       * graph.trim) \div 2

DeclaredChannel(stream, channel, t) ==
  LET outputs == {output \in Range(state.matrix) : output.target = channel}
  IN  IF outputs = {}
        THEN Heard(stream, channel, t)
        ELSE DeclaredOutput(stream, CHOOSE output \in outputs : TRUE, t)

\* However a stream is cut into blocks, and whichever planes the outputs
\* share with the inputs, what is played is what the state declares of all
\* that was heard since preparation or reset; a routing that was refused
\* changes nothing (Processor.h, "all source mixes read original input
\* even for in-place processing").
BlocksAsDeclared ==
  played = IF phase = "prepared"
             THEN [t \in DOMAIN heard |-> [c \in Channels |-> DeclaredChannel(heard, layout[c], t)]]
             ELSE heard

\* A state that the factory and the filter have found valid can be
\* compiled: nothing it names is missing, which compile() would throw for,
\* in a call that nothing catches.
ValidatedCompiles == phase # "threw"

=============================================================================
