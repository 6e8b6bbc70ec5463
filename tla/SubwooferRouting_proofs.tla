---------------------- MODULE SubwooferRouting_proofs ----------------------
(***************************************************************************)
(* Two results, for every set of states, devices and rates.                *)
(*                                                                         *)
(* The validation of a routing asks for everything its compilation relies  *)
(* on: whatever is initialized compiles without an exception.              *)
(*                                                                         *)
(* What is played is what the state declares of the whole stream, however  *)
(* that is cut into blocks.  The argument goes from the inside out:        *)
(*   - each loop of the program is a run: a function from the turns to     *)
(*     what they have made, with a first value and a step.  Every loop has *)
(*     its own lemma, for a lemma about a loop in general would take its   *)
(*     turn as an operator;                                                *)
(*   - a memory carries a stage at frame n (Carries): a line holds the     *)
(*     last samples wherever it writes next, an equalizer's two numbers    *)
(*     are what its recursion still needs.  One more sample keeps that,    *)
(*     so a block does, and a block through every stage of a path;         *)
(*   - compiled stages make of a stream what is declared of it (Makes),    *)
(*     merged gains included;                                              *)
(*   - the outputs are written to planes of their own, once each, out of   *)
(*     what was preserved;                                                 *)
(*   - the inductive invariant speaks of every stream that goes on from    *)
(*     what was heard, so that a block more is an instance of it.          *)
(***************************************************************************)
EXTENDS SubwooferRouting, SequenceTheorems, FiniteSetTheorems, WellFoundedInduction, TLAPS

\* A set of numbers has a least one.
LEMMA LeastNumber ==
  ASSUME NEW T, T \subseteq Nat, T # {}
  PROVE  /\ Min(T) \in T
         /\ \E m \in T : \A k \in T : m =< k
<1>1. IsWellFoundedOn(OpToRel(<, Nat), Nat)
  BY NatLessThanWellFounded
<1>2. PICK m \in T : \A k \in T : ~ (<<k, m>> \in OpToRel(<, Nat))
  BY <1>1, WFMin
<1>3. \A k \in T : k < m => <<k, m>> \in OpToRel(<, Nat)
  BY DEF OpToRel
<1>4. \A k \in T : ~(k < m)
  BY <1>2, <1>3
<1>5. \A k \in T : m =< k
  BY <1>4
<1>. QED  BY <1>5 DEF Min

\* What 0 is in, and the successor of what is in, holds all numbers to n.
LEMMA InductionUpTo ==
  ASSUME NEW S, NEW n \in Nat, 0 \in S, \A k \in 0..n - 1 : k \in S => k + 1 \in S
  PROVE  0..n \subseteq S
<1>. SUFFICES ASSUME NEW x \in 0..n, x \notin S PROVE FALSE
  OBVIOUS
<1>. DEFINE T == {k \in 0..n : k \notin S}
<1>1. T \subseteq Nat /\ T # {}
  OBVIOUS
<1>2. PICK m \in T : \A k \in T : m =< k
  BY <1>1, LeastNumber
<1>3. m # 0 /\ m - 1 \in 0..n - 1 /\ m - 1 \notin T
  BY <1>2
<1>. QED  BY <1>3

\* A name that is there has an index, and the index has the name.
LEMMA IndexIs ==
  ASSUME NEW ids, ids \in Seq(Range(ids)), NEW id \in Range(ids)
  PROVE  /\ IndexOf(ids, id) \in 1 .. Len(ids)
         /\ ids[IndexOf(ids, id)] = id
         /\ IndexOf(ids, id) # 0
<1>. DEFINE I == {i \in 1 .. Len(ids) : ids[i] = id}
<1>1. IndexOf(ids, id) = IF I # {} THEN Min(I) ELSE 0
  BY DEF IndexOf, SelectInSeq
<1>2. I # {}
  BY LenProperties DEF Range
<1>3. I \subseteq Nat
  OBVIOUS
<1>4. Min(I) \in I
  BY <1>2, <1>3, LeastNumber
<1>. QED  BY <1>1, <1>2, <1>4

\* The names of a vector are a vector.
LEMMA IdsAre ==
  ASSUME NEW items, items \in Seq(Range(items))
  PROVE  Ids(items) \in Seq(Range(Ids(items)))
<1>1. DOMAIN items = 1 .. Len(items) /\ Len(items) \in Nat
  BY LenProperties
<1>2. Ids(items) \in [1 .. Len(items) -> Range(Ids(items))]
  BY <1>1 DEF Ids, Range
<1>. QED  BY <1>1, <1>2, IsASeq

\* What the filter has found valid resolves.
LEMMA ValidResolves ==
  ASSUME NEW s \in States, NEW l \in Layouts, NEW r \in Rates, NEW trim, ValidOn(s, l, r)
  PROVE  Resolved(Graph(s, l, r, trim))
<1>. DEFINE g == Graph(s, l, r, trim)
<1>1. /\ l \in Seq(Range(l)) /\ s.paths \in Seq(Range(s.paths)) /\ s.matrix \in Seq(Range(s.matrix))
      /\ Ids(s.paths) \in Seq(Range(Ids(s.paths)))
  BY StatesTyped, DevicesTyped, IdsAre DEF TypedState, Vector
<1>2. \A channel \in Range(s.layout) : IndexOf(l, channel) # 0
  <2>1. Range(s.layout) \subseteq Range(l)
    BY DEF ValidOn
  <2>. QED  BY <1>1, <2>1, IndexIs
<1>3. \A i \in DOMAIN s.paths : ValidPath(s, s.paths[i])
  BY DEF ValidOn, ValidState, Range
<1>4. \A i \in DOMAIN s.matrix : ValidOutput(s, s.matrix[i])
  BY DEF ValidOn, ValidState, Range
<1>5. ASSUME NEW path \in Range(g.paths), NEW term \in Range(path.mix) PROVE term.channel # 0
  <2>1. PICK i \in DOMAIN s.paths : path = CompiledPath(s.paths[i], l, r)
    BY DEF Graph, Range
  <2>2. PICK j \in DOMAIN s.paths[i].mix : term.channel = IndexOf(l, s.paths[i].mix[j].channel)
    BY <2>1 DEF CompiledPath, Range
  <2>3. s.paths[i].mix[j].channel \in Range(s.layout)
    BY <1>3 DEF ValidPath, Range
  <2>. QED  BY <1>2, <2>2, <2>3
<1>6. ASSUME NEW output \in Range(g.outputs)
      PROVE  output.target # 0 /\ \A term \in Range(output.terms) : term.path # 0
  <2>1. PICK i \in DOMAIN s.matrix : output = CompiledOutput(s, s.matrix[i], l)
    BY DEF Graph, Range
  <2>2. output.target # 0
    <3>1. s.matrix[i].target \in Range(s.layout)
      BY <1>4 DEF ValidOutput
    <3>2. output.target = IndexOf(l, s.matrix[i].target)
      BY <2>1 DEF CompiledOutput
    <3>. QED  BY <1>2, <3>1, <3>2
  <2>3. ASSUME NEW term \in Range(output.terms) PROVE term.path # 0
    <3>1. PICK j \in DOMAIN s.matrix[i].terms :
            term.path = IndexOf(Ids(s.paths), s.matrix[i].terms[j].path)
      BY <2>1 DEF CompiledOutput, Range
    <3>2. s.matrix[i].terms[j].path \in Range(Ids(s.paths))
      BY <1>4 DEF ValidOutput, Range
    <3>. QED  BY <1>1, <3>1, <3>2, IndexIs
  <2>. QED  BY <2>2, <2>3
<1>. QED  BY <1>5, <1>6 DEF Resolved

RoutingInv ==
  /\ state \in States /\ layout \in Layouts /\ rate \in Rates
  /\ phase # "threw"

(* A routing that the filter's initialize has found valid for the device   *)
(* compiles: the maps from names to indices have every name asked of them  *)
(* (Compiler.cpp, compile; SubwooferRoutingFilter::initialize catches      *)
(* nothing there).                                                         *)
THEOREM ValidRoutingsCompile == Spec => []ValidatedCompiles
<1>1. Init => RoutingInv
  BY DEF Init, RoutingInv
<1>2. RoutingInv /\ [Next]_vars => RoutingInv'
  <2>. SUFFICES ASSUME RoutingInv, [Next]_vars PROVE RoutingInv'
    OBVIOUS
  <2>1. CASE Initialize
    <3>1. PICK trim \in Trims(state) :
            phase' = IF ~ValidOn(state, layout, rate) THEN "passthrough"
                     ELSE IF ~Resolved(Graph(state, layout, rate, trim)) THEN "threw"
                     ELSE IF ~Preparable(Graph(state, layout, rate, trim)) THEN "passthrough"
                     ELSE "prepared"
      BY <2>1 DEF Initialize
    <3>2. ValidOn(state, layout, rate) => Resolved(Graph(state, layout, rate, trim))
      BY ValidResolves DEF RoutingInv
    <3>3. phase' # "threw"
      BY <3>1, <3>2
    <3>. QED  BY <2>1, <3>3 DEF Initialize, RoutingInv
  <2>2. CASE UNCHANGED <<state, layout, rate, phase>>
    BY <2>2 DEF RoutingInv
  <2>3. Initialize \/ UNCHANGED <<state, layout, rate, phase>>
    BY DEF Next, Process, PassThrough, Reset, vars
  <2>. QED  BY <2>1, <2>2, <2>3
<1>3. RoutingInv => ValidatedCompiles
  BY DEF RoutingInv, ValidatedCompiles
<1>. QED  BY <1>1, <1>2, <1>3, PTL DEF Spec
-----------------------------------------------------------------------------
(* The loops of the program: what their functions are.                     *)

\* The filters of an equalizer's slots.
BiquadsStep(stages, filters, prev, i) ==
  appendBiquadStage(prev, filters[i])

BiquadsTo(stages, filters, run, m) ==
  run = [i \in 0..m |-> IF i = 0 THEN stages ELSE BiquadsStep(stages, filters, run[i - 1], i)]

LEMMA BiquadsExists ==
  ASSUME NEW stages, NEW filters, NEW n \in Nat
  PROVE  \E run : BiquadsTo(stages, filters, run, n)
<1>. DEFINE S == {m \in Nat : \E run : BiquadsTo(stages, filters, run, m)}
<1>1. 0 \in S
  <2>. DEFINE run == [i \in 0..0 |-> stages]
  <2>1. run = [i \in 0..0 |-> IF i = 0 THEN stages ELSE BiquadsStep(stages, filters, run[i - 1], i)]
    OBVIOUS
  <2>2. BiquadsTo(stages, filters, run, 0)
    BY <2>1 DEF BiquadsTo
  <2>. QED  BY <2>2
<1>2. ASSUME NEW m \in 0..n - 1, m \in S PROVE m + 1 \in S
  <2>1. PICK run : BiquadsTo(stages, filters, run, m)
    BY <1>2
  <2>. DEFINE next == BiquadsStep(stages, filters, run[m], m + 1)
              more == [i \in 0..m + 1 |-> IF i = m + 1 THEN next ELSE run[i]]
  <2>2. more = [i \in 0..m + 1 |-> IF i = 0 THEN stages ELSE BiquadsStep(stages, filters, more[i - 1], i)]
    <3>1. ASSUME NEW i \in 0..m
          PROVE  more[i] = IF i = 0 THEN stages ELSE BiquadsStep(stages, filters, more[i - 1], i)
      <4>1. run[i] = IF i = 0 THEN stages ELSE BiquadsStep(stages, filters, run[i - 1], i)
        BY <2>1 DEF BiquadsTo
      <4>2. more[i] = run[i] /\ (i # 0 => more[i - 1] = run[i - 1])
        OBVIOUS
      <4>. QED  BY <4>1, <4>2
    <3>2. more[m + 1] = BiquadsStep(stages, filters, more[m], m + 1)
      OBVIOUS
    <3>3. \A i \in 0..m + 1 : i \in 0..m \/ (i = m + 1 /\ i # 0 /\ i - 1 = m)
      OBVIOUS
    <3>4. \A i \in 0..m + 1 :
            more[i] = IF i = 0 THEN stages ELSE BiquadsStep(stages, filters, more[i - 1], i)
      BY <3>1, <3>2, <3>3
    <3>. HIDE DEF next
    <3>. QED  BY <3>4
  <2>3. BiquadsTo(stages, filters, more, m + 1)
    BY <2>2 DEF BiquadsTo
  <2>. QED  BY <2>3
<1>3. 0..n \subseteq S
  <2>. HIDE DEF S
  <2>. QED  BY <1>1, <1>2, InductionUpTo
<1>. QED  BY <1>3

LEMMA BiquadsRun ==
  ASSUME NEW stages, NEW filters, Len(filters) \in Nat
  PROVE  \E run :
           /\ run[0] = stages
           /\ \A i \in 1..Len(filters) : run[i] = BiquadsStep(stages, filters, run[i - 1], i)
           /\ appendBiquadStages(stages, filters) = run[Len(filters)]
<1>. DEFINE run == CHOOSE run : BiquadsTo(stages, filters, run, Len(filters))
<1>1. BiquadsTo(stages, filters, run, Len(filters))
  BY BiquadsExists
<1>2. appendBiquadStages(stages, filters) = run[Len(filters)]
  BY DEF Loop, appendBiquadStages, BiquadsTo, BiquadsStep
<1>. HIDE DEF run
<1>3. run[0] = stages
  BY <1>1 DEF BiquadsTo
<1>4. ASSUME NEW i \in 1..Len(filters) PROVE run[i] = BiquadsStep(stages, filters, run[i - 1], i)
  BY <1>1 DEF BiquadsTo
<1>. QED  BY <1>2, <1>3, <1>4

\* The stages of a chain.
ChainStep(path, r, prev, i) ==
  appendStage(prev, path.chain[i], r)

ChainTo(path, r, run, m) ==
  run = [i \in 0..m |-> IF i = 0 THEN appendGainStage(<<>>, LinearGain[path.pre]) ELSE ChainStep(path, r, run[i - 1], i)]

LEMMA ChainExists ==
  ASSUME NEW path, NEW r, NEW n \in Nat
  PROVE  \E run : ChainTo(path, r, run, n)
<1>. DEFINE S == {m \in Nat : \E run : ChainTo(path, r, run, m)}
<1>1. 0 \in S
  <2>. DEFINE run == [i \in 0..0 |-> appendGainStage(<<>>, LinearGain[path.pre])]
  <2>1. run = [i \in 0..0 |-> IF i = 0 THEN appendGainStage(<<>>, LinearGain[path.pre]) ELSE ChainStep(path, r, run[i - 1], i)]
    OBVIOUS
  <2>2. ChainTo(path, r, run, 0)
    BY <2>1 DEF ChainTo
  <2>. QED  BY <2>2
<1>2. ASSUME NEW m \in 0..n - 1, m \in S PROVE m + 1 \in S
  <2>1. PICK run : ChainTo(path, r, run, m)
    BY <1>2
  <2>. DEFINE next == ChainStep(path, r, run[m], m + 1)
              more == [i \in 0..m + 1 |-> IF i = m + 1 THEN next ELSE run[i]]
  <2>2. more = [i \in 0..m + 1 |-> IF i = 0 THEN appendGainStage(<<>>, LinearGain[path.pre]) ELSE ChainStep(path, r, more[i - 1], i)]
    <3>1. ASSUME NEW i \in 0..m
          PROVE  more[i] = IF i = 0 THEN appendGainStage(<<>>, LinearGain[path.pre]) ELSE ChainStep(path, r, more[i - 1], i)
      <4>1. run[i] = IF i = 0 THEN appendGainStage(<<>>, LinearGain[path.pre]) ELSE ChainStep(path, r, run[i - 1], i)
        BY <2>1 DEF ChainTo
      <4>2. more[i] = run[i] /\ (i # 0 => more[i - 1] = run[i - 1])
        OBVIOUS
      <4>. QED  BY <4>1, <4>2
    <3>2. more[m + 1] = ChainStep(path, r, more[m], m + 1)
      OBVIOUS
    <3>3. \A i \in 0..m + 1 : i \in 0..m \/ (i = m + 1 /\ i # 0 /\ i - 1 = m)
      OBVIOUS
    <3>4. \A i \in 0..m + 1 :
            more[i] = IF i = 0 THEN appendGainStage(<<>>, LinearGain[path.pre]) ELSE ChainStep(path, r, more[i - 1], i)
      BY <3>1, <3>2, <3>3
    <3>. HIDE DEF next
    <3>. QED  BY <3>4
  <2>3. ChainTo(path, r, more, m + 1)
    BY <2>2 DEF ChainTo
  <2>. QED  BY <2>3
<1>3. 0..n \subseteq S
  <2>. HIDE DEF S
  <2>. QED  BY <1>1, <1>2, InductionUpTo
<1>. QED  BY <1>3

LEMMA ChainRun ==
  ASSUME NEW path, NEW r, Len(path.chain) \in Nat
  PROVE  \E run :
           /\ run[0] = appendGainStage(<<>>, LinearGain[path.pre])
           /\ \A i \in 1..Len(path.chain) : run[i] = ChainStep(path, r, run[i - 1], i)
           /\ CompiledStages(path, r) = appendGainStage(run[Len(path.chain)], LinearGain[path.post])
<1>. DEFINE run == CHOOSE run : ChainTo(path, r, run, Len(path.chain))
<1>1. ChainTo(path, r, run, Len(path.chain))
  BY ChainExists
<1>2. CompiledStages(path, r) = appendGainStage(run[Len(path.chain)], LinearGain[path.post])
  BY DEF Loop, CompiledStages, ChainTo, ChainStep
<1>. HIDE DEF run
<1>3. run[0] = appendGainStage(<<>>, LinearGain[path.pre])
  BY <1>1 DEF ChainTo
<1>4. ASSUME NEW i \in 1..Len(path.chain) PROVE run[i] = ChainStep(path, r, run[i - 1], i)
  BY <1>1 DEF ChainTo
<1>. QED  BY <1>2, <1>3, <1>4

\* The samples of a block.
StagedStep(stage, m0, block, prev, i) ==
  LET r == StagedSample(stage, prev.memory, block[i])
  IN  [block |-> Append(prev.block, r.sample), memory |-> r.memory]

StagedTo(stage, m0, block, run, m) ==
  run = [i \in 0..m |-> IF i = 0 THEN [block |-> <<>>, memory |-> m0] ELSE StagedStep(stage, m0, block, run[i - 1], i)]

LEMMA StagedExists ==
  ASSUME NEW stage, NEW m0, NEW block, NEW n \in Nat
  PROVE  \E run : StagedTo(stage, m0, block, run, n)
<1>. DEFINE S == {m \in Nat : \E run : StagedTo(stage, m0, block, run, m)}
<1>1. 0 \in S
  <2>. DEFINE run == [i \in 0..0 |-> [block |-> <<>>, memory |-> m0]]
  <2>1. run = [i \in 0..0 |-> IF i = 0 THEN [block |-> <<>>, memory |-> m0] ELSE StagedStep(stage, m0, block, run[i - 1], i)]
    OBVIOUS
  <2>2. StagedTo(stage, m0, block, run, 0)
    BY <2>1 DEF StagedTo
  <2>. QED  BY <2>2
<1>2. ASSUME NEW m \in 0..n - 1, m \in S PROVE m + 1 \in S
  <2>1. PICK run : StagedTo(stage, m0, block, run, m)
    BY <1>2
  <2>. DEFINE next == StagedStep(stage, m0, block, run[m], m + 1)
              more == [i \in 0..m + 1 |-> IF i = m + 1 THEN next ELSE run[i]]
  <2>2. more = [i \in 0..m + 1 |-> IF i = 0 THEN [block |-> <<>>, memory |-> m0] ELSE StagedStep(stage, m0, block, more[i - 1], i)]
    <3>1. ASSUME NEW i \in 0..m
          PROVE  more[i] = IF i = 0 THEN [block |-> <<>>, memory |-> m0] ELSE StagedStep(stage, m0, block, more[i - 1], i)
      <4>1. run[i] = IF i = 0 THEN [block |-> <<>>, memory |-> m0] ELSE StagedStep(stage, m0, block, run[i - 1], i)
        BY <2>1 DEF StagedTo
      <4>2. more[i] = run[i] /\ (i # 0 => more[i - 1] = run[i - 1])
        OBVIOUS
      <4>. QED  BY <4>1, <4>2
    <3>2. more[m + 1] = StagedStep(stage, m0, block, more[m], m + 1)
      OBVIOUS
    <3>3. \A i \in 0..m + 1 : i \in 0..m \/ (i = m + 1 /\ i # 0 /\ i - 1 = m)
      OBVIOUS
    <3>4. \A i \in 0..m + 1 :
            more[i] = IF i = 0 THEN [block |-> <<>>, memory |-> m0] ELSE StagedStep(stage, m0, block, more[i - 1], i)
      BY <3>1, <3>2, <3>3
    <3>. HIDE DEF next
    <3>. QED  BY <3>4
  <2>3. StagedTo(stage, m0, block, more, m + 1)
    BY <2>2 DEF StagedTo
  <2>. QED  BY <2>3
<1>3. 0..n \subseteq S
  <2>. HIDE DEF S
  <2>. QED  BY <1>1, <1>2, InductionUpTo
<1>. QED  BY <1>3

LEMMA StagedRun ==
  ASSUME NEW stage, NEW m0, NEW block, Len(block) \in Nat
  PROVE  \E run :
           /\ run[0] = [block |-> <<>>, memory |-> m0]
           /\ \A i \in 1..Len(block) : run[i] = StagedStep(stage, m0, block, run[i - 1], i)
           /\ StagedBlock(stage, m0, block) = run[Len(block)]
<1>. DEFINE run == CHOOSE run : StagedTo(stage, m0, block, run, Len(block))
<1>1. StagedTo(stage, m0, block, run, Len(block))
  BY StagedExists
<1>2. StagedBlock(stage, m0, block) = run[Len(block)]
  BY DEF Loop, StagedBlock, StagedTo, StagedStep
<1>. HIDE DEF run
<1>3. run[0] = [block |-> <<>>, memory |-> m0]
  BY <1>1 DEF StagedTo
<1>4. ASSUME NEW i \in 1..Len(block) PROVE run[i] = StagedStep(stage, m0, block, run[i - 1], i)
  BY <1>1 DEF StagedTo
<1>. QED  BY <1>2, <1>3, <1>4

\* The terms of a sum.
SumStep(terms, prev, i) ==
  prev + terms[i]

SumTo(terms, run, m) ==
  run = [i \in 0..m |-> IF i = 0 THEN 0 ELSE SumStep(terms, run[i - 1], i)]

LEMMA SumExists ==
  ASSUME NEW terms, NEW n \in Nat
  PROVE  \E run : SumTo(terms, run, n)
<1>. DEFINE S == {m \in Nat : \E run : SumTo(terms, run, m)}
<1>1. 0 \in S
  <2>. DEFINE run == [i \in 0..0 |-> 0]
  <2>1. run = [i \in 0..0 |-> IF i = 0 THEN 0 ELSE SumStep(terms, run[i - 1], i)]
    OBVIOUS
  <2>2. SumTo(terms, run, 0)
    BY <2>1 DEF SumTo
  <2>. QED  BY <2>2
<1>2. ASSUME NEW m \in 0..n - 1, m \in S PROVE m + 1 \in S
  <2>1. PICK run : SumTo(terms, run, m)
    BY <1>2
  <2>. DEFINE next == SumStep(terms, run[m], m + 1)
              more == [i \in 0..m + 1 |-> IF i = m + 1 THEN next ELSE run[i]]
  <2>2. more = [i \in 0..m + 1 |-> IF i = 0 THEN 0 ELSE SumStep(terms, more[i - 1], i)]
    <3>1. ASSUME NEW i \in 0..m
          PROVE  more[i] = IF i = 0 THEN 0 ELSE SumStep(terms, more[i - 1], i)
      <4>1. run[i] = IF i = 0 THEN 0 ELSE SumStep(terms, run[i - 1], i)
        BY <2>1 DEF SumTo
      <4>2. more[i] = run[i] /\ (i # 0 => more[i - 1] = run[i - 1])
        OBVIOUS
      <4>. QED  BY <4>1, <4>2
    <3>2. more[m + 1] = SumStep(terms, more[m], m + 1)
      OBVIOUS
    <3>3. \A i \in 0..m + 1 : i \in 0..m \/ (i = m + 1 /\ i # 0 /\ i - 1 = m)
      OBVIOUS
    <3>4. \A i \in 0..m + 1 :
            more[i] = IF i = 0 THEN 0 ELSE SumStep(terms, more[i - 1], i)
      BY <3>1, <3>2, <3>3
    <3>. HIDE DEF next
    <3>. QED  BY <3>4
  <2>3. SumTo(terms, more, m + 1)
    BY <2>2 DEF SumTo
  <2>. QED  BY <2>3
<1>3. 0..n \subseteq S
  <2>. HIDE DEF S
  <2>. QED  BY <1>1, <1>2, InductionUpTo
<1>. QED  BY <1>3

LEMMA SumRun ==
  ASSUME NEW terms, Len(terms) \in Nat
  PROVE  \E run :
           /\ run[0] = 0
           /\ \A i \in 1..Len(terms) : run[i] = SumStep(terms, run[i - 1], i)
           /\ Total(terms) = run[Len(terms)]
<1>. DEFINE run == CHOOSE run : SumTo(terms, run, Len(terms))
<1>1. SumTo(terms, run, Len(terms))
  BY SumExists
<1>2. Total(terms) = run[Len(terms)]
  BY DEF Loop, Total, SumTo, SumStep
<1>. HIDE DEF run
<1>3. run[0] = 0
  BY <1>1 DEF SumTo
<1>4. ASSUME NEW i \in 1..Len(terms) PROVE run[i] = SumStep(terms, run[i - 1], i)
  BY <1>1 DEF SumTo
<1>. QED  BY <1>2, <1>3, <1>4

\* The stages of a path.
PathStep(stages, m0, mixed, prev, i) ==
  LET r == StagedBlock(stages[i], m0[i], prev.block)
  IN  [block |-> r.block, memory |-> Append(prev.memory, r.memory)]

PathTo(stages, m0, mixed, run, m) ==
  run = [i \in 0..m |-> IF i = 0 THEN [block |-> mixed, memory |-> <<>>] ELSE PathStep(stages, m0, mixed, run[i - 1], i)]

LEMMA PathExists ==
  ASSUME NEW stages, NEW m0, NEW mixed, NEW n \in Nat
  PROVE  \E run : PathTo(stages, m0, mixed, run, n)
<1>. DEFINE S == {m \in Nat : \E run : PathTo(stages, m0, mixed, run, m)}
<1>1. 0 \in S
  <2>. DEFINE run == [i \in 0..0 |-> [block |-> mixed, memory |-> <<>>]]
  <2>1. run = [i \in 0..0 |-> IF i = 0 THEN [block |-> mixed, memory |-> <<>>] ELSE PathStep(stages, m0, mixed, run[i - 1], i)]
    OBVIOUS
  <2>2. PathTo(stages, m0, mixed, run, 0)
    BY <2>1 DEF PathTo
  <2>. QED  BY <2>2
<1>2. ASSUME NEW m \in 0..n - 1, m \in S PROVE m + 1 \in S
  <2>1. PICK run : PathTo(stages, m0, mixed, run, m)
    BY <1>2
  <2>. DEFINE next == PathStep(stages, m0, mixed, run[m], m + 1)
              more == [i \in 0..m + 1 |-> IF i = m + 1 THEN next ELSE run[i]]
  <2>2. more = [i \in 0..m + 1 |-> IF i = 0 THEN [block |-> mixed, memory |-> <<>>] ELSE PathStep(stages, m0, mixed, more[i - 1], i)]
    <3>1. ASSUME NEW i \in 0..m
          PROVE  more[i] = IF i = 0 THEN [block |-> mixed, memory |-> <<>>] ELSE PathStep(stages, m0, mixed, more[i - 1], i)
      <4>1. run[i] = IF i = 0 THEN [block |-> mixed, memory |-> <<>>] ELSE PathStep(stages, m0, mixed, run[i - 1], i)
        BY <2>1 DEF PathTo
      <4>2. more[i] = run[i] /\ (i # 0 => more[i - 1] = run[i - 1])
        OBVIOUS
      <4>. QED  BY <4>1, <4>2
    <3>2. more[m + 1] = PathStep(stages, m0, mixed, more[m], m + 1)
      OBVIOUS
    <3>3. \A i \in 0..m + 1 : i \in 0..m \/ (i = m + 1 /\ i # 0 /\ i - 1 = m)
      OBVIOUS
    <3>4. \A i \in 0..m + 1 :
            more[i] = IF i = 0 THEN [block |-> mixed, memory |-> <<>>] ELSE PathStep(stages, m0, mixed, more[i - 1], i)
      BY <3>1, <3>2, <3>3
    <3>. HIDE DEF next
    <3>. QED  BY <3>4
  <2>3. PathTo(stages, m0, mixed, more, m + 1)
    BY <2>2 DEF PathTo
  <2>. QED  BY <2>3
<1>3. 0..n \subseteq S
  <2>. HIDE DEF S
  <2>. QED  BY <1>1, <1>2, InductionUpTo
<1>. QED  BY <1>3

\* What is mixed of the preserved inputs.
MixedBlock(path, preserved) ==
  [t \in DOMAIN preserved[1] |->
     Total([i \in DOMAIN path.mix |-> path.mix[i].gain * preserved[path.mix[i].channel][t]])]

LEMMA PathRun ==
  ASSUME NEW stages, NEW m0, NEW mixed, NEW path, NEW preserved,
         stages = path.stages, mixed = MixedBlock(path, preserved), Len(stages) \in Nat
  PROVE  \E run :
           /\ run[0] = [block |-> mixed, memory |-> <<>>]
           /\ \A i \in 1..Len(stages) : run[i] = PathStep(stages, m0, mixed, run[i - 1], i)
           /\ PathBlock(path, m0, preserved) = run[Len(stages)]
<1>. DEFINE run == CHOOSE run : PathTo(stages, m0, mixed, run, Len(stages))
<1>1. PathTo(stages, m0, mixed, run, Len(stages))
  BY PathExists
<1>2. PathBlock(path, m0, preserved) = run[Len(stages)]
  BY DEF Loop, PathBlock, MixedBlock, PathTo, PathStep
<1>. HIDE DEF run
<1>3. run[0] = [block |-> mixed, memory |-> <<>>]
  BY <1>1 DEF PathTo
<1>4. ASSUME NEW i \in 1..Len(stages) PROVE run[i] = PathStep(stages, m0, mixed, run[i - 1], i)
  BY <1>1 DEF PathTo
<1>. QED  BY <1>2, <1>3, <1>4

\* The outputs of the matrix.
OutputsStep(outputs, planes, preserved, scratch, place, prev, i) ==
  WrittenBy(outputs[i], prev, preserved, scratch, place)

OutputsTo(outputs, planes, preserved, scratch, place, run, m) ==
  run = [i \in 0..m |-> IF i = 0 THEN planes ELSE OutputsStep(outputs, planes, preserved, scratch, place, run[i - 1], i)]

LEMMA OutputsExists ==
  ASSUME NEW outputs, NEW planes, NEW preserved, NEW scratch, NEW place, NEW n \in Nat
  PROVE  \E run : OutputsTo(outputs, planes, preserved, scratch, place, run, n)
<1>. DEFINE S == {m \in Nat : \E run : OutputsTo(outputs, planes, preserved, scratch, place, run, m)}
<1>1. 0 \in S
  <2>. DEFINE run == [i \in 0..0 |-> planes]
  <2>1. run = [i \in 0..0 |-> IF i = 0 THEN planes ELSE OutputsStep(outputs, planes, preserved, scratch, place, run[i - 1], i)]
    OBVIOUS
  <2>2. OutputsTo(outputs, planes, preserved, scratch, place, run, 0)
    BY <2>1 DEF OutputsTo
  <2>. QED  BY <2>2
<1>2. ASSUME NEW m \in 0..n - 1, m \in S PROVE m + 1 \in S
  <2>1. PICK run : OutputsTo(outputs, planes, preserved, scratch, place, run, m)
    BY <1>2
  <2>. DEFINE next == OutputsStep(outputs, planes, preserved, scratch, place, run[m], m + 1)
              more == [i \in 0..m + 1 |-> IF i = m + 1 THEN next ELSE run[i]]
  <2>2. more = [i \in 0..m + 1 |-> IF i = 0 THEN planes ELSE OutputsStep(outputs, planes, preserved, scratch, place, more[i - 1], i)]
    <3>1. ASSUME NEW i \in 0..m
          PROVE  more[i] = IF i = 0 THEN planes ELSE OutputsStep(outputs, planes, preserved, scratch, place, more[i - 1], i)
      <4>1. run[i] = IF i = 0 THEN planes ELSE OutputsStep(outputs, planes, preserved, scratch, place, run[i - 1], i)
        BY <2>1 DEF OutputsTo
      <4>2. more[i] = run[i] /\ (i # 0 => more[i - 1] = run[i - 1])
        OBVIOUS
      <4>. QED  BY <4>1, <4>2
    <3>2. more[m + 1] = OutputsStep(outputs, planes, preserved, scratch, place, more[m], m + 1)
      OBVIOUS
    <3>3. \A i \in 0..m + 1 : i \in 0..m \/ (i = m + 1 /\ i # 0 /\ i - 1 = m)
      OBVIOUS
    <3>4. \A i \in 0..m + 1 :
            more[i] = IF i = 0 THEN planes ELSE OutputsStep(outputs, planes, preserved, scratch, place, more[i - 1], i)
      BY <3>1, <3>2, <3>3
    <3>. HIDE DEF next
    <3>. QED  BY <3>4
  <2>3. OutputsTo(outputs, planes, preserved, scratch, place, more, m + 1)
    BY <2>2 DEF OutputsTo
  <2>. QED  BY <2>3
<1>3. 0..n \subseteq S
  <2>. HIDE DEF S
  <2>. QED  BY <1>1, <1>2, InductionUpTo
<1>. QED  BY <1>3

LEMMA OutputsRun ==
  ASSUME NEW outputs, NEW planes, NEW preserved, NEW scratch, NEW place, outputs = graph.outputs, Len(outputs) \in Nat
  PROVE  \E run :
           /\ run[0] = planes
           /\ \A i \in 1..Len(outputs) : run[i] = OutputsStep(outputs, planes, preserved, scratch, place, run[i - 1], i)
           /\ Written(planes, preserved, scratch, place) = run[Len(outputs)]
<1>. DEFINE run == CHOOSE run : OutputsTo(outputs, planes, preserved, scratch, place, run, Len(outputs))
<1>1. OutputsTo(outputs, planes, preserved, scratch, place, run, Len(outputs))
  BY OutputsExists
<1>2. Written(planes, preserved, scratch, place) = run[Len(outputs)]
  BY DEF Loop, Written, OutputsTo, OutputsStep
<1>. HIDE DEF run
<1>3. run[0] = planes
  BY <1>1 DEF OutputsTo
<1>4. ASSUME NEW i \in 1..Len(outputs) PROVE run[i] = OutputsStep(outputs, planes, preserved, scratch, place, run[i - 1], i)
  BY <1>1 DEF OutputsTo
<1>. QED  BY <1>2, <1>3, <1>4

\* The declared slots.
SlotsStep(stream, filters, prev, i) ==
  DeclaredEqualizer(prev, Coefficients[filters[i].name])

SlotsTo(stream, filters, run, m) ==
  run = [i \in 0..m |-> IF i = 0 THEN stream ELSE SlotsStep(stream, filters, run[i - 1], i)]

LEMMA SlotsExists ==
  ASSUME NEW stream, NEW filters, NEW n \in Nat
  PROVE  \E run : SlotsTo(stream, filters, run, n)
<1>. DEFINE S == {m \in Nat : \E run : SlotsTo(stream, filters, run, m)}
<1>1. 0 \in S
  <2>. DEFINE run == [i \in 0..0 |-> stream]
  <2>1. run = [i \in 0..0 |-> IF i = 0 THEN stream ELSE SlotsStep(stream, filters, run[i - 1], i)]
    OBVIOUS
  <2>2. SlotsTo(stream, filters, run, 0)
    BY <2>1 DEF SlotsTo
  <2>. QED  BY <2>2
<1>2. ASSUME NEW m \in 0..n - 1, m \in S PROVE m + 1 \in S
  <2>1. PICK run : SlotsTo(stream, filters, run, m)
    BY <1>2
  <2>. DEFINE next == SlotsStep(stream, filters, run[m], m + 1)
              more == [i \in 0..m + 1 |-> IF i = m + 1 THEN next ELSE run[i]]
  <2>2. more = [i \in 0..m + 1 |-> IF i = 0 THEN stream ELSE SlotsStep(stream, filters, more[i - 1], i)]
    <3>1. ASSUME NEW i \in 0..m
          PROVE  more[i] = IF i = 0 THEN stream ELSE SlotsStep(stream, filters, more[i - 1], i)
      <4>1. run[i] = IF i = 0 THEN stream ELSE SlotsStep(stream, filters, run[i - 1], i)
        BY <2>1 DEF SlotsTo
      <4>2. more[i] = run[i] /\ (i # 0 => more[i - 1] = run[i - 1])
        OBVIOUS
      <4>. QED  BY <4>1, <4>2
    <3>2. more[m + 1] = SlotsStep(stream, filters, more[m], m + 1)
      OBVIOUS
    <3>3. \A i \in 0..m + 1 : i \in 0..m \/ (i = m + 1 /\ i # 0 /\ i - 1 = m)
      OBVIOUS
    <3>4. \A i \in 0..m + 1 :
            more[i] = IF i = 0 THEN stream ELSE SlotsStep(stream, filters, more[i - 1], i)
      BY <3>1, <3>2, <3>3
    <3>. HIDE DEF next
    <3>. QED  BY <3>4
  <2>3. SlotsTo(stream, filters, more, m + 1)
    BY <2>2 DEF SlotsTo
  <2>. QED  BY <2>3
<1>3. 0..n \subseteq S
  <2>. HIDE DEF S
  <2>. QED  BY <1>1, <1>2, InductionUpTo
<1>. QED  BY <1>3

LEMMA SlotsRun ==
  ASSUME NEW stream, NEW filters, Len(filters) \in Nat
  PROVE  \E run :
           /\ run[0] = stream
           /\ \A i \in 1..Len(filters) : run[i] = SlotsStep(stream, filters, run[i - 1], i)
           /\ DeclaredSlots(stream, filters) = run[Len(filters)]
<1>. DEFINE run == CHOOSE run : SlotsTo(stream, filters, run, Len(filters))
<1>1. SlotsTo(stream, filters, run, Len(filters))
  BY SlotsExists
<1>2. DeclaredSlots(stream, filters) = run[Len(filters)]
  BY DEF Loop, DeclaredSlots, SlotsTo, SlotsStep
<1>. HIDE DEF run
<1>3. run[0] = stream
  BY <1>1 DEF SlotsTo
<1>4. ASSUME NEW i \in 1..Len(filters) PROVE run[i] = SlotsStep(stream, filters, run[i - 1], i)
  BY <1>1 DEF SlotsTo
<1>. QED  BY <1>2, <1>3, <1>4

\* The declared chain.
DeclaredStep(path, mixed, r, prev, i) ==
  DeclaredStage(prev, path.chain[i], r)

DeclaredTo(path, mixed, r, run, m) ==
  run = [i \in 0..m |-> IF i = 0 THEN Scaled(mixed, LinearGain[path.pre]) ELSE DeclaredStep(path, mixed, r, run[i - 1], i)]

LEMMA DeclaredExists ==
  ASSUME NEW path, NEW mixed, NEW r, NEW n \in Nat
  PROVE  \E run : DeclaredTo(path, mixed, r, run, n)
<1>. DEFINE S == {m \in Nat : \E run : DeclaredTo(path, mixed, r, run, m)}
<1>1. 0 \in S
  <2>. DEFINE run == [i \in 0..0 |-> Scaled(mixed, LinearGain[path.pre])]
  <2>1. run = [i \in 0..0 |-> IF i = 0 THEN Scaled(mixed, LinearGain[path.pre]) ELSE DeclaredStep(path, mixed, r, run[i - 1], i)]
    OBVIOUS
  <2>2. DeclaredTo(path, mixed, r, run, 0)
    BY <2>1 DEF DeclaredTo
  <2>. QED  BY <2>2
<1>2. ASSUME NEW m \in 0..n - 1, m \in S PROVE m + 1 \in S
  <2>1. PICK run : DeclaredTo(path, mixed, r, run, m)
    BY <1>2
  <2>. DEFINE next == DeclaredStep(path, mixed, r, run[m], m + 1)
              more == [i \in 0..m + 1 |-> IF i = m + 1 THEN next ELSE run[i]]
  <2>2. more = [i \in 0..m + 1 |-> IF i = 0 THEN Scaled(mixed, LinearGain[path.pre]) ELSE DeclaredStep(path, mixed, r, more[i - 1], i)]
    <3>1. ASSUME NEW i \in 0..m
          PROVE  more[i] = IF i = 0 THEN Scaled(mixed, LinearGain[path.pre]) ELSE DeclaredStep(path, mixed, r, more[i - 1], i)
      <4>1. run[i] = IF i = 0 THEN Scaled(mixed, LinearGain[path.pre]) ELSE DeclaredStep(path, mixed, r, run[i - 1], i)
        BY <2>1 DEF DeclaredTo
      <4>2. more[i] = run[i] /\ (i # 0 => more[i - 1] = run[i - 1])
        OBVIOUS
      <4>. QED  BY <4>1, <4>2
    <3>2. more[m + 1] = DeclaredStep(path, mixed, r, more[m], m + 1)
      OBVIOUS
    <3>3. \A i \in 0..m + 1 : i \in 0..m \/ (i = m + 1 /\ i # 0 /\ i - 1 = m)
      OBVIOUS
    <3>4. \A i \in 0..m + 1 :
            more[i] = IF i = 0 THEN Scaled(mixed, LinearGain[path.pre]) ELSE DeclaredStep(path, mixed, r, more[i - 1], i)
      BY <3>1, <3>2, <3>3
    <3>. HIDE DEF next
    <3>. QED  BY <3>4
  <2>3. DeclaredTo(path, mixed, r, more, m + 1)
    BY <2>2 DEF DeclaredTo
  <2>. QED  BY <2>3
<1>3. 0..n \subseteq S
  <2>. HIDE DEF S
  <2>. QED  BY <1>1, <1>2, InductionUpTo
<1>. QED  BY <1>3

LEMMA DeclaredRun ==
  ASSUME NEW path, NEW mixed, NEW r, Len(path.chain) \in Nat
  PROVE  \E run :
           /\ run[0] = Scaled(mixed, LinearGain[path.pre])
           /\ \A i \in 1..Len(path.chain) : run[i] = DeclaredStep(path, mixed, r, run[i - 1], i)
           /\ DeclaredPath(path, mixed, r) = Scaled(run[Len(path.chain)], LinearGain[path.post])
<1>. DEFINE run == CHOOSE run : DeclaredTo(path, mixed, r, run, Len(path.chain))
<1>1. DeclaredTo(path, mixed, r, run, Len(path.chain))
  BY DeclaredExists
<1>2. DeclaredPath(path, mixed, r) = Scaled(run[Len(path.chain)], LinearGain[path.post])
  BY DEF Loop, DeclaredPath, DeclaredTo, DeclaredStep
<1>. HIDE DEF run
<1>3. run[0] = Scaled(mixed, LinearGain[path.pre])
  BY <1>1 DEF DeclaredTo
<1>4. ASSUME NEW i \in 1..Len(path.chain) PROVE run[i] = DeclaredStep(path, mixed, r, run[i - 1], i)
  BY <1>1 DEF DeclaredTo
<1>. QED  BY <1>2, <1>3, <1>4

-----------------------------------------------------------------------------
(* Sequences as functions.                                                 *)

LEMMA FunctionIsSeq ==
  ASSUME NEW n \in Nat, NEW T, NEW f \in [1..n -> T]
  PROVE  f \in Seq(T) /\ Len(f) = n /\ DOMAIN f = 1..n
<1>1. f \in Seq(T)
  BY IsASeq
<1>2. DOMAIN f = 1..n /\ DOMAIN f = 1..Len(f) /\ Len(f) \in Nat
  BY <1>1, LenProperties
<1>3. Len(f) = n
  BY <1>2
<1>. QED  BY <1>1, <1>2, <1>3

LEMMA VectorIs ==
  ASSUME NEW v, Vector(v)
  PROVE  Len(v) \in Nat /\ DOMAIN v = 1..Len(v) /\ \A i \in 1..Len(v) : v[i] \in Range(v)
BY LenProperties DEF Vector, Range

\* A vector with one more.
LEMMA VectorAppend ==
  ASSUME NEW v, Vector(v), NEW e
  PROVE  /\ Vector(Append(v, e)) /\ Len(Append(v, e)) = Len(v) + 1
         /\ Append(v, e)[Len(v) + 1] = e
         /\ \A i \in 1..Len(v) : Append(v, e)[i] = v[i]
<1>. DEFINE T == Range(v) \cup {e}
            w == Append(v, e)
<1>1. v \in Seq(T) /\ e \in T
  <2>1. Len(v) \in Nat /\ v \in [1..Len(v) -> T]
    BY VectorIs, LenProperties DEF Vector, Range
  <2>. QED  BY <2>1, IsASeq
<1>2. /\ w \in Seq(T) /\ Len(w) = Len(v) + 1
      /\ \A i \in 1..Len(v) : w[i] = v[i]
      /\ w[Len(v) + 1] = e
  <2>. HIDE DEF T
  <2>. QED  BY <1>1, AppendProperties
<1>3. Vector(w)
  <2>. HIDE DEF w
  <2>1. Len(w) \in Nat /\ w \in [1..Len(w) -> Range(w)]
    BY <1>2, LenProperties DEF Range
  <2>. QED  BY <2>1, IsASeq DEF Vector
<1>. QED  BY <1>2, <1>3

\* Lists of what is in a set, and one more.
LEMMA SeqAppend ==
  ASSUME NEW T, NEW n \in Nat, NEW v \in [1..n -> T], NEW e \in T
  PROVE  /\ Append(v, e) \in [1..n + 1 -> T] /\ Append(v, e)[n + 1] = e
         /\ \A i \in 1..n : Append(v, e)[i] = v[i]
<1>1. v \in Seq(T) /\ Len(v) = n
  BY FunctionIsSeq
<1>2. /\ Append(v, e) \in Seq(T) /\ Len(Append(v, e)) = n + 1
      /\ \A i \in 1..n : Append(v, e)[i] = v[i]
      /\ Append(v, e)[n + 1] = e
  BY <1>1, AppendProperties
<1>3. Append(v, e) \in [1..n + 1 -> T]
  BY <1>2, LenProperties
<1>. QED  BY <1>2, <1>3

\* A sum of numbers is one.
LEMMA TotalIsInt ==
  ASSUME NEW n \in Nat, NEW terms \in [1..n -> Int]
  PROVE  Total(terms) \in Int
<1>1. Len(terms) = n
  BY FunctionIsSeq
<1>2. PICK run : /\ run[0] = 0
                 /\ \A i \in 1..n : run[i] = SumStep(terms, run[i - 1], i)
                 /\ Total(terms) = run[n]
  BY <1>1, SumRun
<1>. DEFINE S == {i \in Nat : run[i] \in Int}
<1>3. 0 \in S
  BY <1>2
<1>4. ASSUME NEW k \in 0..n - 1, k \in S PROVE k + 1 \in S
  <2>1. k + 1 \in 1..n /\ k + 1 - 1 = k
    OBVIOUS
  <2>2. run[k + 1] = run[k] + terms[k + 1]
    BY <1>2, <2>1 DEF SumStep
  <2>3. terms[k + 1] \in Int /\ run[k] \in Int
    BY <1>4, <2>1
  <2>. QED  BY <2>2, <2>3
<1>5. 0..n \subseteq S
  <2>. HIDE DEF S
  <2>. QED  BY <1>3, <1>4, InductionUpTo
<1>. QED  BY <1>2, <1>5

-----------------------------------------------------------------------------
(* What a compiled stage makes of a whole stream, and what its memory      *)
(* holds after the first n samples of one.                                 *)

Streams(N) == [1..N -> Int]

GainStages == [kind : {"Gain"}, gain : Int \cup {NotFinite}]

DelayStages == [kind : {"Delay"}, integer : Nat, fraction : 0..1]

Biquad == [b0 : Int, b1 : Int, b2 : Int, a1 : Int, a2 : Int]

BiquadStages == [kind : {"Biquad"}, biquad : Biquad]

Stages == GainStages \cup DelayStages \cup BiquadStages

Finite(stages) == \A i \in DOMAIN stages : stages[i].kind = "Gain" => stages[i].gain # NotFinite

StageOf(stage, X) ==
  CASE stage.kind = "Gain"   -> Scaled(X, stage.gain)
    [] stage.kind = "Delay"  -> DeclaredDelay(X, 2 * stage.integer + stage.fraction)
    [] stage.kind = "Biquad" -> DeclaredEqualizer(X, stage.biquad)

\* Where a line has the sample so many before the next.
BackIn(m, size, ago) == IF m.write >= ago THEN m.write - ago ELSE m.write + size - ago

HoldsLine(stage, m, X, n) ==
  LET size == stage.integer + 2
  IN  /\ m = [line |-> m.line, write |-> m.write]
      /\ m.line \in [0..size - 1 -> Int] /\ m.write \in 0..size - 1
      /\ \A ago \in 1..size : m.line[BackIn(m, size, ago)] = At(X, n + 1 - ago)

HoldsBiquad(b, m, X, n) ==
  LET Y == DeclaredEqualizer(X, b)
  IN  /\ m[1] = b.b1 * At(X, n) - b.a1 * At(Y, n) + b.b2 * At(X, n - 1) - b.a2 * At(Y, n - 1)
      /\ m[2] = b.b2 * At(X, n) - b.a2 * At(Y, n)

Carries(stage, m, X, n) ==
  /\ stage.kind = "Delay" => HoldsLine(stage, m, X, n)
  /\ stage.kind = "Biquad" => HoldsBiquad(stage.biquad, m, X, n)

LEMMA StageKinds ==
  ASSUME NEW stage \in Stages
  PROVE  \/ stage.kind = "Gain" /\ stage.gain \in Int \cup {NotFinite}
         \/ stage.kind = "Delay" /\ stage.integer \in Nat /\ stage.fraction \in 0..1
         \/ stage.kind = "Biquad" /\ stage.biquad \in Biquad
BY DEF Stages, GainStages, DelayStages, BiquadStages

LEMMA AtIsInt ==
  ASSUME NEW N \in Nat, NEW X \in Streams(N), NEW t \in Int, t =< N
  PROVE  At(X, t) \in Int
BY DEF At, Streams

\* Products by whole and half samples.
LEMMA Halves ==
  ASSUME NEW f \in 0..1, NEW x \in Int, NEW y \in Int
  PROVE  /\ ((2 - f) * x + f * y) \div 2 \in Int
         /\ f = 0 => ((2 - f) * x + f * y) \div 2 = x
<1>1. CASE f = 0
  <2>1. (2 - f) * x + f * y = 2 * x
    BY <1>1
  <2>2. (2 * x) \div 2 = x
    OBVIOUS
  <2>. QED  BY <1>1, <2>1, <2>2
<1>2. CASE f = 1
  <2>1. (2 - f) * x + f * y = x + y
    BY <1>2
  <2>2. (x + y) \div 2 \in Int
    OBVIOUS
  <2>. QED  BY <1>2, <2>1, <2>2
<1>. QED  BY <1>1, <1>2

LEMMA TwiceAndOne ==
  ASSUME NEW i \in Nat, NEW f \in 0..1
  PROVE  (2 * i + f) \div 2 = i /\ (2 * i + f) % 2 = f
OBVIOUS

LEMMA DelayIs ==
  ASSUME NEW i \in Nat, NEW f \in 0..1, NEW N \in Nat, NEW X \in Streams(N)
  PROVE  /\ DeclaredDelay(X, 2 * i + f) \in Streams(N)
         /\ \A t \in 1..N : DeclaredDelay(X, 2 * i + f)[t] =
              ((2 - f) * At(X, t - i) + f * At(X, t - i - 1)) \div 2
<1>1. DOMAIN X = 1..N
  BY DEF Streams
<1>2. DeclaredDelay(X, 2 * i + f)
        = [t \in 1..N |-> ((2 - f) * At(X, t - i) + f * At(X, t - i - 1)) \div 2]
  BY <1>1, TwiceAndOne, Zenon DEF DeclaredDelay
<1>3. ASSUME NEW t \in 1..N
      PROVE  ((2 - f) * At(X, t - i) + f * At(X, t - i - 1)) \div 2 \in Int
  <2>1. t - i \in Int /\ t - i - 1 \in Int /\ t - i =< N /\ t - i - 1 =< N
    OBVIOUS
  <2>2. At(X, t - i) \in Int /\ At(X, t - i - 1) \in Int
    BY <2>1, AtIsInt
  <2>. QED  BY <2>2, Halves
<1>. QED  BY <1>2, <1>3 DEF Streams

-----------------------------------------------------------------------------
(* An equalizer, whose samples each depend on the two before.              *)

EqualizerStep(X, b, one, two, t) ==
  b.b0 * At(X, t) + b.b1 * At(X, t - 1) + b.b2 * At(X, t - 2) - b.a1 * one - b.a2 * two

EqualizerTo(X, b, run, n) ==
  run = [t \in -1..n |-> IF t < 1 THEN 0 ELSE EqualizerStep(X, b, run[t - 1], run[t - 2], t)]

LEMMA EqualizerExists ==
  ASSUME NEW X, NEW b, NEW n \in Nat
  PROVE  \E run : EqualizerTo(X, b, run, n)
<1>. DEFINE S == {m \in Nat : \E run : EqualizerTo(X, b, run, m)}
<1>1. 0 \in S
  <2>. DEFINE run == [t \in -1..0 |-> 0]
  <2>1. run = [t \in -1..0 |-> IF t < 1 THEN 0 ELSE EqualizerStep(X, b, run[t - 1], run[t - 2], t)]
    OBVIOUS
  <2>2. EqualizerTo(X, b, run, 0)
    BY <2>1 DEF EqualizerTo
  <2>. QED  BY <2>2
<1>2. ASSUME NEW m \in 0..n - 1, m \in S PROVE m + 1 \in S
  <2>1. PICK run : EqualizerTo(X, b, run, m)
    BY <1>2
  <2>. DEFINE next == EqualizerStep(X, b, run[m], run[m - 1], m + 1)
              more == [t \in -1..m + 1 |-> IF t = m + 1 THEN next ELSE run[t]]
              Turn(of, t) == IF t < 1 THEN 0 ELSE EqualizerStep(X, b, of[t - 1], of[t - 2], t)
  <2>2. \A t \in -1..m : more[t] = Turn(more, t)
    <3>. SUFFICES ASSUME NEW t \in -1..m PROVE more[t] = Turn(more, t)
      OBVIOUS
    <3>1. run[t] = Turn(run, t)
      BY <2>1 DEF EqualizerTo
    <3>2. more[t] = run[t] /\ (t >= 1 => more[t - 1] = run[t - 1] /\ more[t - 2] = run[t - 2])
      <4>. HIDE DEF next
      <4>. QED  OBVIOUS
    <3>. HIDE DEF more
    <3>. QED  BY <3>1, <3>2
  <2>3. more[m + 1] = Turn(more, m + 1)
    <3>1. more[m + 1] = next /\ more[m] = run[m] /\ more[m - 1] = run[m - 1]
      <4>. HIDE DEF next
      <4>. QED  OBVIOUS
    <3>2. ~(m + 1 < 1) /\ m + 1 - 1 = m /\ m + 1 - 2 = m - 1
      OBVIOUS
    <3>. HIDE DEF more
    <3>. QED  BY <3>1, <3>2
  <2>4. more = [t \in -1..m + 1 |-> Turn(more, t)]
    <3>1. \A t \in -1..m + 1 : t \in -1..m \/ t = m + 1
      OBVIOUS
    <3>2. \A t \in -1..m + 1 : more[t] = Turn(more, t)
      BY <2>2, <2>3, <3>1
    <3>3. DOMAIN more = -1..m + 1 /\ more = [t \in -1..m + 1 |-> more[t]]
      <4>. HIDE DEF next
      <4>. QED  OBVIOUS
    <3>. HIDE DEF more, Turn
    <3>. QED  BY <3>2, <3>3
  <2>5. EqualizerTo(X, b, more, m + 1)
    <3>. HIDE DEF more
    <3>. QED  BY <2>4 DEF EqualizerTo
  <2>. QED  BY <2>5
<1>3. 0..n \subseteq S
  <2>. HIDE DEF S
  <2>. QED  BY <1>1, <1>2, InductionUpTo
<1>. QED  BY <1>3

LEMMA ProductIsInt ==
  ASSUME NEW x \in Int, NEW y \in Int
  PROVE  x * y \in Int
OBVIOUS

LEMMA EqualizerStepIsInt ==
  ASSUME NEW b \in Biquad, NEW N \in Nat, NEW X \in Streams(N), NEW t \in 1..N,
         NEW one \in Int, NEW two \in Int
  PROVE  EqualizerStep(X, b, one, two, t) \in Int
<1>1. t \in Int /\ t - 1 \in Int /\ t - 2 \in Int /\ t =< N /\ t - 1 =< N /\ t - 2 =< N
  OBVIOUS
<1>2. At(X, t) \in Int /\ At(X, t - 1) \in Int /\ At(X, t - 2) \in Int
  BY <1>1, AtIsInt
<1>3. b.b0 \in Int /\ b.b1 \in Int /\ b.b2 \in Int /\ b.a1 \in Int /\ b.a2 \in Int
  BY DEF Biquad
<1>4. /\ b.b0 * At(X, t) \in Int /\ b.b1 * At(X, t - 1) \in Int /\ b.b2 * At(X, t - 2) \in Int
      /\ b.a1 * one \in Int /\ b.a2 * two \in Int
  BY <1>2, <1>3, ProductIsInt
<1>. QED  BY <1>4 DEF EqualizerStep

LEMMA EqualizerIs ==
  ASSUME NEW b \in Biquad, NEW N \in Nat, NEW X \in Streams(N)
  PROVE  /\ DeclaredEqualizer(X, b) \in Streams(N)
         /\ \A t \in 1..N : DeclaredEqualizer(X, b)[t] =
              EqualizerStep(X, b, At(DeclaredEqualizer(X, b), t - 1), At(DeclaredEqualizer(X, b), t - 2), t)
<1>. DEFINE Y == DeclaredEqualizer(X, b)
            run == CHOOSE run : EqualizerTo(X, b, run, N)
<1>1. Len(X) = N /\ DOMAIN X = 1..N
  BY FunctionIsSeq DEF Streams
<1>2. EqualizerTo(X, b, run, N)
  BY EqualizerExists
<1>3. Y = [t \in 1..N |-> run[t]]
  BY <1>1 DEF DeclaredEqualizer, EqualizerTo, EqualizerStep
<1>. HIDE DEF run
<1>4. /\ run[-1] = 0 /\ run[0] = 0
      /\ \A t \in 1..N : run[t] = EqualizerStep(X, b, run[t - 1], run[t - 2], t)
  BY <1>2 DEF EqualizerTo
<1>. DEFINE S == {k \in Nat : run[k] \in Int /\ run[k - 1] \in Int}
<1>5. 0 \in S
  BY <1>4
<1>6. ASSUME NEW k \in 0..N - 1, k \in S PROVE k + 1 \in S
  <2>1. k + 1 \in 1..N /\ k + 1 - 1 = k /\ k + 1 - 2 = k - 1
    OBVIOUS
  <2>2. run[k + 1] = EqualizerStep(X, b, run[k], run[k - 1], k + 1)
    BY <1>4, <2>1
  <2>3. run[k + 1] \in Int
    BY <1>6, <2>1, <2>2, EqualizerStepIsInt
  <2>. QED  BY <1>6, <2>1, <2>3
<1>7. 0..N \subseteq S
  <2>. HIDE DEF S
  <2>. QED  BY <1>5, <1>6, InductionUpTo
<1>8. Y \in Streams(N)
  <2>1. \A t \in 1..N : run[t] \in Int
    BY <1>7
  <2>. QED  BY <1>3, <2>1 DEF Streams
<1>. HIDE DEF Y
<1>9. ASSUME NEW t \in 1..N PROVE run[t - 1] = At(Y, t - 1) /\ run[t - 2] = At(Y, t - 2)
  BY <1>3, <1>4 DEF At
<1>10. \A t \in 1..N : Y[t] = EqualizerStep(X, b, At(Y, t - 1), At(Y, t - 2), t)
  BY <1>3, <1>4, <1>9
<1>. QED  BY <1>8, <1>10 DEF Y

-----------------------------------------------------------------------------
(* One sample through a stage.                                             *)

LEMMA ScaledIs ==
  ASSUME NEW N \in Nat, NEW X \in Streams(N), NEW g \in Int
  PROVE  /\ Scaled(X, g) \in Streams(N)
         /\ \A t \in 1..N : Scaled(X, g)[t] = g * X[t]
<1>1. DOMAIN X = 1..N /\ \A t \in 1..N : X[t] \in Int
  BY DEF Streams
<1>2. \A t \in 1..N : g * X[t] \in Int
  BY <1>1, ProductIsInt
<1>. QED  BY <1>1, <1>2 DEF Scaled, Streams

\* A stage whose gain is finite makes a stream of a stream.
LEMMA StageOfIs ==
  ASSUME NEW N \in Nat, NEW X \in Streams(N), NEW stage \in Stages,
         stage.kind = "Gain" => stage.gain # NotFinite
  PROVE  StageOf(stage, X) \in Streams(N)
<1>1. CASE stage.kind = "Gain"
  <2>1. StageOf(stage, X) = Scaled(X, stage.gain) /\ stage.gain \in Int
    BY <1>1, StageKinds DEF StageOf
  <2>. QED  BY <2>1, ScaledIs
<1>2. CASE stage.kind = "Delay"
  <2>1. /\ StageOf(stage, X) = DeclaredDelay(X, 2 * stage.integer + stage.fraction)
        /\ stage.integer \in Nat /\ stage.fraction \in 0..1
    BY <1>2, StageKinds DEF StageOf
  <2>. QED  BY <2>1, DelayIs
<1>3. CASE stage.kind = "Biquad"
  <2>1. StageOf(stage, X) = DeclaredEqualizer(X, stage.biquad) /\ stage.biquad \in Biquad
    BY <1>3, StageKinds DEF StageOf
  <2>. QED  BY <2>1, EqualizerIs
<1>. QED  BY <1>1, <1>2, <1>3, StageKinds

\* A ring of delayed samples.
LEMMA LineIs ==
  ASSUME NEW stage \in Stages, stage.kind = "Delay", NEW N \in Nat, NEW X \in Streams(N),
         NEW n \in 0..N - 1, NEW m, HoldsLine(stage, m, X, n)
  PROVE  /\ DelayedSample(stage, m, X[n + 1]).sample = StageOf(stage, X)[n + 1]
         /\ HoldsLine(stage, DelayedSample(stage, m, X[n + 1]).memory, X, n + 1)
<1>. DEFINE size == stage.integer + 2
            x    == X[n + 1]
            line == [m.line EXCEPT ![m.write] = x]
            i    == stage.integer
            f    == stage.fraction
            next == [line |-> line, write |-> IF m.write + 1 = size THEN 0 ELSE m.write + 1]
<1>1. /\ i \in Nat /\ f \in 0..1 /\ size \in Nat /\ size >= 2
      /\ n + 1 \in 1..N /\ x \in Int
  BY StageKinds DEF Streams
<1>2. /\ m.line \in [0..size - 1 -> Int] /\ m.write \in 0..size - 1
      /\ \A ago \in 1..size : m.line[BackIn(m, size, ago)] = At(X, n + 1 - ago)
  BY DEF HoldsLine
<1>. DEFINE w == m.write
<1>9. w \in Int /\ 0 =< w /\ w =< size - 1 /\ size \in Int /\ size >= 2
  BY <1>1, <1>2
<1>3. Cardinality(DOMAIN m.line) = size
  <2>1. DOMAIN m.line = 0..size - 1
    BY <1>2
  <2>2. 0 \in Int /\ size - 1 \in Int /\ 0 =< size - 1 /\ (size - 1) - 0 + 1 = size
    BY <1>1
  <2>3. Cardinality(0..size - 1) = size
    <3>. HIDE DEF size
    <3>. QED  BY <2>2, FS_Interval
  <2>. QED  BY <2>1, <2>3
<1>4. /\ line \in [0..size - 1 -> Int] /\ line[m.write] = x
      /\ \A k \in 0..size - 1 : k # m.write => line[k] = m.line[k]
  BY <1>1, <1>2
<1>5. ASSUME NEW ago \in 0..size - 1
      PROVE  line[BackIn(m, size, ago)] = At(X, n + 1 - ago)
  <2>1. CASE ago = 0
    <3>1. BackIn(m, size, ago) = m.write
      BY <1>2, <2>1 DEF BackIn
    <3>2. At(X, n + 1 - ago) = x
      BY <1>1, <2>1 DEF At
    <3>. QED  BY <1>4, <3>1, <3>2
  <2>2. CASE ago # 0
    <3>. DEFINE k == BackIn(m, size, ago)
    <3>1. k = IF w >= ago THEN w - ago ELSE w + size - ago
      BY DEF BackIn
    <3>2. k \in 0..size - 1 /\ k # w
      <4>. HIDE DEF w, size, k
      <4>. QED  BY <1>9, <2>2, <3>1
    <3>3. line[k] = m.line[k]
      <4>. HIDE DEF line, k
      <4>. QED  BY <1>4, <3>2
    <3>4. m.line[k] = At(X, n + 1 - ago)
      <4>1. ago \in 1..size
        BY <1>1, <2>2
      <4>. HIDE DEF size
      <4>. QED  BY <1>2, <4>1
    <3>. QED  BY <3>3, <3>4
  <2>. QED  BY <2>1, <2>2
<1>. HIDE DEF line
<1>6. DelayedSample(stage, m, x)
        = [sample |-> ((2 - f) * line[BackIn(m, size, i)] + f * line[BackIn(m, size, i + 1)]) \div 2,
           memory |-> next]
  BY <1>3 DEF DelayedSample, BackIn, line
<1>7. DelayedSample(stage, m, x).sample = StageOf(stage, X)[n + 1]
  <2>1. /\ line[BackIn(m, size, i)] = At(X, n + 1 - i)
        /\ line[BackIn(m, size, i + 1)] = At(X, n + 1 - i - 1)
    <3>1. i \in 0..size - 1 /\ i + 1 \in 0..size - 1 /\ n + 1 - (i + 1) = n + 1 - i - 1
      BY <1>1
    <3>. QED  BY <1>5, <3>1
  <2>2. StageOf(stage, X) = DeclaredDelay(X, 2 * i + f)
    BY DEF StageOf
  <2>3. DeclaredDelay(X, 2 * i + f)[n + 1]
          = ((2 - f) * At(X, n + 1 - i) + f * At(X, n + 1 - i - 1)) \div 2
    <3>. HIDE DEF i, f
    <3>. QED  BY <1>1, DelayIs
  <2>4. DelayedSample(stage, m, x).sample
          = ((2 - f) * line[BackIn(m, size, i)] + f * line[BackIn(m, size, i + 1)]) \div 2
    BY <1>6
  <2>. QED  BY <2>1, <2>2, <2>3, <2>4
<1>8. HoldsLine(stage, next, X, n + 1)
  <2>1. next.write \in 0..size - 1 /\ next.line = line
    <3>1. (IF w + 1 = size THEN 0 ELSE w + 1) \in 0..size - 1
      <4>. HIDE DEF w, size
      <4>. QED  BY <1>9
    <3>2. next.write = (IF w + 1 = size THEN 0 ELSE w + 1) /\ next.line = line
      OBVIOUS
    <3>. QED  BY <3>1, <3>2
  <2>2. ASSUME NEW ago \in 1..size
        PROVE  next.line[BackIn(next, size, ago)] = At(X, n + 1 + 1 - ago)
    <3>. DEFINE v == next.write
    <3>1. v = IF w + 1 = size THEN 0 ELSE w + 1
      OBVIOUS
    <3>2. BackIn(next, size, ago) = IF v >= ago THEN v - ago ELSE v + size - ago
      BY DEF BackIn
    <3>3. BackIn(m, size, ago - 1) = IF w >= ago - 1 THEN w - (ago - 1) ELSE w + size - (ago - 1)
      BY DEF BackIn
    <3>4. BackIn(next, size, ago) = BackIn(m, size, ago - 1)
      <4>. HIDE DEF v, w, size, next
      <4>. QED  BY <1>9, <3>1, <3>2, <3>3
    <3>5. ago - 1 \in 0..size - 1 /\ n + 1 - (ago - 1) = n + 1 + 1 - ago
      BY <1>1
    <3>6. line[BackIn(m, size, ago - 1)] = At(X, n + 1 - (ago - 1))
      BY <1>5, <3>5
    <3>. QED  BY <2>1, <3>4, <3>5, <3>6
  <2>3. next = [line |-> next.line, write |-> next.write]
    OBVIOUS
  <2>. HIDE DEF next
  <2>. QED  BY <1>4, <2>1, <2>2, <2>3 DEF HoldsLine
<1>. QED  BY <1>6, <1>7, <1>8

\* Two numbers of an equalizer.
LEMMA BiquadIs ==
  ASSUME NEW b \in Biquad, NEW N \in Nat, NEW X \in Streams(N),
         NEW n \in 0..N - 1, NEW m, HoldsBiquad(b, m, X, n)
  PROVE  /\ EqualizedSample(b, m, X[n + 1]).sample = DeclaredEqualizer(X, b)[n + 1]
         /\ HoldsBiquad(b, EqualizedSample(b, m, X[n + 1]).memory, X, n + 1)
<1>. DEFINE Y == DeclaredEqualizer(X, b)
            x == X[n + 1]
            y == b.b0 * x + m[1]
<1>1. n + 1 \in 1..N /\ n + 1 - 1 = n /\ n + 1 - 2 = n - 1 /\ Y \in Streams(N)
  BY EqualizerIs
<1>2. /\ At(X, n) \in Int /\ At(X, n - 1) \in Int /\ At(X, n + 1) \in Int
      /\ At(Y, n) \in Int /\ At(Y, n - 1) \in Int /\ At(Y, n + 1) \in Int
  BY <1>1, AtIsInt
<1>3. At(X, n + 1) = x /\ At(Y, n + 1) = Y[n + 1]
  BY DEF At
<1>4. Y[n + 1] = EqualizerStep(X, b, At(Y, n), At(Y, n - 1), n + 1)
  BY <1>1, EqualizerIs
<1>. HIDE DEF Y
<1>5. b.b0 \in Int /\ b.b1 \in Int /\ b.b2 \in Int /\ b.a1 \in Int /\ b.a2 \in Int
  BY DEF Biquad
<1>6. /\ m[1] = b.b1 * At(X, n) - b.a1 * At(Y, n) + b.b2 * At(X, n - 1) - b.a2 * At(Y, n - 1)
      /\ m[2] = b.b2 * At(X, n) - b.a2 * At(Y, n)
  BY DEF HoldsBiquad, Y
<1>7. /\ b.b0 * x \in Int /\ b.b1 * At(X, n) \in Int /\ b.a1 * At(Y, n) \in Int
      /\ b.b2 * At(X, n - 1) \in Int /\ b.a2 * At(Y, n - 1) \in Int
      /\ b.b2 * At(X, n) \in Int /\ b.a2 * At(Y, n) \in Int
      /\ b.b1 * x \in Int /\ b.a1 * Y[n + 1] \in Int
  BY <1>2, <1>3, <1>5, ProductIsInt
<1>8. y = Y[n + 1]
  <2>1. Y[n + 1] = b.b0 * x + b.b1 * At(X, n) + b.b2 * At(X, n - 1) - b.a1 * At(Y, n) - b.a2 * At(Y, n - 1)
    BY <1>1, <1>3, <1>4 DEF EqualizerStep
  <2>. QED  BY <1>6, <1>7, <2>1
<1>9. EqualizedSample(b, m, x)
        = [sample |-> y, memory |-> <<b.b1 * x - b.a1 * y + m[2], b.b2 * x - b.a2 * y>>]
  BY DEF EqualizedSample
<1>. DEFINE next == <<b.b1 * x - b.a1 * y + m[2], b.b2 * x - b.a2 * y>>
<1>10. next[1] = b.b1 * x - b.a1 * Y[n + 1] + m[2] /\ next[2] = b.b2 * x - b.a2 * Y[n + 1]
  BY <1>8
<1>11. next[1] = b.b1 * x - b.a1 * Y[n + 1] + b.b2 * At(X, n) - b.a2 * At(Y, n)
  BY <1>6, <1>7, <1>10
<1>. HIDE DEF next, y
<1>12. HoldsBiquad(b, next, X, n + 1)
  BY <1>1, <1>3, <1>10, <1>11 DEF HoldsBiquad, Y
<1>. QED  BY <1>8, <1>9, <1>12 DEF next, Y

LEMMA SampleIs ==
  ASSUME NEW stage \in Stages, stage.kind = "Gain" => stage.gain # NotFinite,
         NEW N \in Nat, NEW X \in Streams(N),
         NEW n \in 0..N - 1, NEW m, Carries(stage, m, X, n)
  PROVE  /\ StagedSample(stage, m, X[n + 1]).sample = StageOf(stage, X)[n + 1]
         /\ Carries(stage, StagedSample(stage, m, X[n + 1]).memory, X, n + 1)
<1>1. CASE stage.kind = "Gain"
  <2>1. stage.gain \in Int /\ n + 1 \in 1..N
    BY <1>1, StageKinds
  <2>2. StageOf(stage, X) = Scaled(X, stage.gain)
    BY <1>1 DEF StageOf
  <2>3. StagedSample(stage, m, X[n + 1]) = [sample |-> stage.gain * X[n + 1], memory |-> m]
    BY <1>1 DEF StagedSample
  <2>. QED  BY <1>1, <2>1, <2>2, <2>3, ScaledIs DEF Carries
<1>2. CASE stage.kind = "Delay"
  <2>1. StagedSample(stage, m, X[n + 1]) = DelayedSample(stage, m, X[n + 1])
    BY <1>2 DEF StagedSample
  <2>2. HoldsLine(stage, m, X, n)
    BY <1>2 DEF Carries
  <2>. QED  BY <1>2, <2>1, <2>2, LineIs DEF Carries
<1>3. CASE stage.kind = "Biquad"
  <2>1. /\ StagedSample(stage, m, X[n + 1]) = EqualizedSample(stage.biquad, m, X[n + 1])
        /\ StageOf(stage, X) = DeclaredEqualizer(X, stage.biquad)
    BY <1>3 DEF StagedSample, StageOf
  <2>2. HoldsBiquad(stage.biquad, m, X, n) /\ stage.biquad \in Biquad
    BY <1>3, StageKinds DEF Carries
  <2>. QED  BY <1>3, <2>1, <2>2, BiquadIs DEF Carries
<1>. QED  BY <1>1, <1>2, <1>3, StageKinds

\* A stage that has heard nothing.
LEMMA ClearedCarries ==
  ASSUME NEW stage \in Stages, NEW N \in Nat, NEW X \in Streams(N)
  PROVE  Carries(stage, Cleared(stage), X, 0)
<1>1. CASE stage.kind = "Delay"
  <2>. DEFINE m == Cleared(stage)
              size == stage.integer + 2
  <2>1. stage.integer \in Nat
    BY <1>1, StageKinds
  <2>2. m = [line |-> [i \in 0..stage.integer + 1 |-> 0], write |-> 0]
    BY <1>1 DEF Cleared
  <2>3. ASSUME NEW ago \in 1..size
        PROVE  m.line[BackIn(m, size, ago)] = At(X, 0 + 1 - ago)
    <3>1. BackIn(m, size, ago) \in 0..stage.integer + 1
      BY <2>1, <2>2 DEF BackIn
    <3>2. At(X, 0 + 1 - ago) = 0
      BY DEF At
    <3>. QED  BY <2>2, <3>1, <3>2
  <2>4. HoldsLine(stage, m, X, 0)
    <3>1. m = [line |-> m.line, write |-> m.write]
      BY <2>2
    <3>2. m.line \in [0..size - 1 -> Int] /\ m.write \in 0..size - 1
      BY <2>1, <2>2
    <3>. HIDE DEF m
    <3>. QED  BY <2>3, <3>1, <3>2 DEF HoldsLine
  <2>. QED  BY <1>1, <2>4 DEF Carries
<1>2. CASE stage.kind = "Biquad"
  <2>1. stage.biquad \in Biquad /\ Cleared(stage) = <<0, 0>>
    BY <1>2, StageKinds DEF Cleared
  <2>. DEFINE b == stage.biquad
  <2>2. b.b1 \in Int /\ b.b2 \in Int /\ b.a1 \in Int /\ b.a2 \in Int
    BY <2>1 DEF Biquad
  <2>3. \A S : At(S, 0) = 0 /\ At(S, 0 - 1) = 0
    BY DEF At
  <2>4. b.b1 * 0 - b.a1 * 0 + b.b2 * 0 - b.a2 * 0 = 0 /\ b.b2 * 0 - b.a2 * 0 = 0
    BY <2>2
  <2>5. HoldsBiquad(b, <<0, 0>>, X, 0)
    BY <2>3, <2>4 DEF HoldsBiquad
  <2>. QED  BY <1>2, <2>1, <2>5 DEF Carries
<1>3. CASE stage.kind = "Gain"
  BY <1>3 DEF Carries
<1>. QED  BY <1>1, <1>2, <1>3, StageKinds

-----------------------------------------------------------------------------
(* A block through a stage, and through the stages of a path.              *)

\* The samples n + 1 to n + k of a stream.
Stretch(X, n, k) == [t \in 1..k |-> X[n + t]]

LEMMA StretchIs ==
  ASSUME NEW N \in Nat, NEW X \in Streams(N), NEW n \in Nat, NEW k \in Nat, n + k =< N
  PROVE  Stretch(X, n, k) \in [1..k -> Int] /\ Len(Stretch(X, n, k)) = k
<1>1. \A t \in 1..k : n + t \in 1..N
  OBVIOUS
<1>2. Stretch(X, n, k) \in [1..k -> Int]
  BY <1>1 DEF Stretch, Streams
<1>. QED  BY <1>2, FunctionIsSeq

LEMMA StretchAppend ==
  ASSUME NEW N \in Nat, NEW X \in Streams(N), NEW n \in Nat, NEW k \in Nat, n + k + 1 =< N
  PROVE  Append(Stretch(X, n, k), X[n + k + 1]) = Stretch(X, n, k + 1)
<1>1. PICK v \in [1..k -> Int] : v = Stretch(X, n, k)
  <2>1. n + k =< N
    OBVIOUS
  <2>. QED  BY <2>1, StretchIs
<1>2. PICK x \in Int : x = X[n + k + 1]
  <2>1. n + k + 1 \in 1..N
    OBVIOUS
  <2>. QED  BY <2>1 DEF Streams
<1>3. PICK w : w = Append(v, x)
  OBVIOUS
<1>4. /\ w \in [1..k + 1 -> Int] /\ w[k + 1] = x
      /\ \A u \in 1..k : w[u] = v[u]
  <2>1. Append(v, x) \in [1..k + 1 -> Int]
    BY SeqAppend
  <2>2. Append(v, x)[k + 1] = x
    BY SeqAppend
  <2>3. \A u \in 1..k : Append(v, x)[u] = v[u]
    BY SeqAppend
  <2>. QED  BY <1>3, <2>1, <2>2, <2>3
<1>5. \A u \in 1..k : v[u] = X[n + u]
  BY <1>1 DEF Stretch
<1>6. \A u \in 1..k + 1 : w[u] = X[n + u]
  <2>1. \A u \in 1..k + 1 : u \in 1..k \/ u = k + 1
    OBVIOUS
  <2>. QED  BY <1>2, <1>4, <1>5, <2>1
<1>7. w = [u \in 1..k + 1 |-> X[n + u]]
  BY <1>4, <1>6
<1>. QED  BY <1>1, <1>2, <1>3, <1>7 DEF Stretch

LEMMA BlockIs ==
  ASSUME NEW stage \in Stages, stage.kind = "Gain" => stage.gain # NotFinite,
         NEW N \in Nat, NEW X \in Streams(N), NEW n \in Nat, NEW k \in Nat, n + k =< N,
         NEW m, Carries(stage, m, X, n)
  PROVE  LET R == StagedBlock(stage, m, Stretch(X, n, k))
         IN  R.block = Stretch(StageOf(stage, X), n, k) /\ Carries(stage, R.memory, X, n + k)
<1>. DEFINE block == Stretch(X, n, k)
            Y     == StageOf(stage, X)
<1>1. block \in [1..k -> Int] /\ Len(block) = k
  BY StretchIs
<1>2. PICK run : /\ run[0] = [block |-> <<>>, memory |-> m]
                 /\ \A i \in 1..k : run[i] = StagedStep(stage, m, block, run[i - 1], i)
                 /\ StagedBlock(stage, m, block) = run[k]
  <2>. HIDE DEF block
  <2>1. Len(block) \in Nat
    BY <1>1
  <2>2. \E run : /\ run[0] = [block |-> <<>>, memory |-> m]
                 /\ \A i \in 1..Len(block) : run[i] = StagedStep(stage, m, block, run[i - 1], i)
                 /\ StagedBlock(stage, m, block) = run[Len(block)]
    BY <2>1, StagedRun
  <2>. QED  BY <1>1, <2>2
<1>3. Y \in Streams(N)
  BY StageOfIs
<1>. DEFINE S == {t \in Nat : run[t].block = Stretch(Y, n, t) /\ Carries(stage, run[t].memory, X, n + t)}
<1>4. 0 \in S
  <2>1. Stretch(Y, n, 0) = <<>>
    BY DEF Stretch
  <2>. QED  BY <1>2, <2>1
<1>5. ASSUME NEW t \in 0..k - 1, t \in S PROVE t + 1 \in S
  <2>. DEFINE r == StagedSample(stage, run[t].memory, X[n + t + 1])
  <2>1. /\ t + 1 \in 1..k /\ t + 1 - 1 = t /\ t \in Nat /\ n + t \in 0..N - 1
        /\ n + t + 1 = n + (t + 1) /\ n + t + 1 \in 1..N
    OBVIOUS
  <2>2. block[t + 1] = X[n + t + 1]
    BY <2>1 DEF Stretch
  <2>3. run[t + 1] = StagedStep(stage, m, block, run[t], t + 1)
    BY <1>2, <2>1
  <2>4. run[t + 1] = [block |-> Append(run[t].block, r.sample), memory |-> r.memory]
    BY <2>2, <2>3 DEF StagedStep
  <2>5. Carries(stage, run[t].memory, X, n + t)
    BY <1>5
  <2>6. r.sample = Y[n + t + 1] /\ Carries(stage, r.memory, X, n + t + 1)
    <3>. DEFINE q == n + t
    <3>1. q \in 0..N - 1 /\ Carries(stage, run[t].memory, X, q)
      BY <2>1, <2>5
    <3>. HIDE DEF q, Y
    <3>2. /\ StagedSample(stage, run[t].memory, X[q + 1]).sample = StageOf(stage, X)[q + 1]
          /\ Carries(stage, StagedSample(stage, run[t].memory, X[q + 1]).memory, X, q + 1)
      BY <3>1, SampleIs
    <3>. QED  BY <3>2 DEF q, Y
  <2>. HIDE DEF Y, r
  <2>7. Append(Stretch(Y, n, t), Y[n + t + 1]) = Stretch(Y, n, t + 1)
    <3>1. n + t + 1 =< N
      BY <2>1
    <3>. QED  BY <1>3, <2>1, <3>1, StretchAppend
  <2>8. run[t + 1].block = Stretch(Y, n, t + 1)
    BY <1>5, <2>4, <2>6, <2>7
  <2>9. Carries(stage, run[t + 1].memory, X, n + (t + 1))
    BY <2>1, <2>4, <2>6
  <2>. QED  BY <2>1, <2>8, <2>9
<1>6. 0..k \subseteq S
  <2>. HIDE DEF S
  <2>. QED  BY <1>4, <1>5, InductionUpTo
<1>7. k \in S
  BY <1>6
<1>. QED  BY <1>2, <1>7

\* A stream through all stages, one after the other.
Runs(stages, S, N) ==
  /\ S \in [0..Len(stages) -> Streams(N)]
  /\ \A i \in 1..Len(stages) : S[i] = StageOf(stages[i], S[i - 1])

AllCarry(stages, m, S, n) == \A i \in 1..Len(stages) : Carries(stages[i], m[i], S[i - 1], n)

LEMMA PathIs ==
  ASSUME NEW path, path.stages \in Seq(Stages), Finite(path.stages),
         NEW N \in Nat, NEW S, Runs(path.stages, S, N),
         NEW n \in Nat, NEW k \in Nat, n + k =< N,
         NEW preserved, MixedBlock(path, preserved) = Stretch(S[0], n, k),
         NEW m, AllCarry(path.stages, m, S, n)
  PROVE  LET R == PathBlock(path, m, preserved)
         IN  /\ R.block = Stretch(S[Len(path.stages)], n, k)
             /\ AllCarry(path.stages, R.memory, S, n + k)
<1>. DEFINE stages == path.stages
            L      == Len(stages)
            mixed  == MixedBlock(path, preserved)
<1>1. L \in Nat /\ stages \in [1..L -> Stages] /\ DOMAIN stages = 1..L
  BY LenProperties
<1>2. PICK run : /\ run[0] = [block |-> mixed, memory |-> <<>>]
                 /\ \A i \in 1..L : run[i] = PathStep(stages, m, mixed, run[i - 1], i)
                 /\ PathBlock(path, m, preserved) = run[L]
  <2>. HIDE DEF mixed
  <2>. QED  BY <1>1, PathRun DEF mixed
<1>3. /\ S \in [0..L -> Streams(N)] /\ \A i \in 1..L : S[i] = StageOf(stages[i], S[i - 1])
  BY DEF Runs
<1>. DEFINE T == {i \in Nat : /\ run[i].block = Stretch(S[i], n, k)
                              /\ Vector(run[i].memory) /\ Len(run[i].memory) = i
                              /\ \A j \in 1..i : Carries(stages[j], run[i].memory[j], S[j - 1], n + k)}
<1>4. 0 \in T
  <2>1. Vector(<<>>) /\ Len(<<>>) = 0
    BY DEF Vector
  <2>. HIDE DEF mixed
  <2>2. run[0].block = Stretch(S[0], n, k) /\ run[0].memory = <<>>
    BY <1>2 DEF mixed
  <2>. QED  BY <2>1, <2>2
<1>5. ASSUME NEW i \in 0..L - 1, i \in T PROVE i + 1 \in T
  <2>. DEFINE stage == stages[i + 1]
              r     == StagedBlock(stage, m[i + 1], run[i].block)
              v     == run[i].memory
              w     == Append(v, r.memory)
  <2>1. i + 1 \in 1..L /\ i + 1 - 1 = i /\ i \in Nat /\ i \in 0..L
    BY <1>1
  <2>2. run[i + 1] = PathStep(stages, m, mixed, run[i], i + 1)
    <3>. HIDE DEF mixed, stages, L
    <3>1. run[i + 1] = PathStep(stages, m, mixed, run[i + 1 - 1], i + 1)
      BY <1>2, <2>1
    <3>. QED  BY <2>1, <3>1
  <2>3. run[i + 1] = [block |-> r.block, memory |-> w]
    <3>. HIDE DEF mixed, stages
    <3>. QED  BY <2>2 DEF PathStep
  <2>4. stage \in Stages /\ (stage.kind = "Gain" => stage.gain # NotFinite)
    BY <1>1, <2>1 DEF Finite
  <2>5. S[i] \in Streams(N) /\ S[i + 1] = StageOf(stage, S[i]) /\ Carries(stage, m[i + 1], S[i], n)
    BY <1>3, <2>1 DEF AllCarry
  <2>6. r.block = Stretch(S[i + 1], n, k) /\ Carries(stage, r.memory, S[i], n + k)
    <3>1. run[i].block = Stretch(S[i], n, k)
      BY <1>5
    <3>. HIDE DEF stage
    <3>. QED  BY <2>4, <2>5, <3>1, BlockIs
  <2>. HIDE DEF r
  <2>7. Vector(v) /\ Len(v) = i
    BY <1>5
  <2>8. /\ Vector(w) /\ Len(w) = i + 1 /\ w[i + 1] = r.memory
        /\ \A j \in 1..i : w[j] = v[j]
    <3>. HIDE DEF v
    <3>. QED  BY <2>7, VectorAppend
  <2>9. ASSUME NEW j \in 1..i + 1 PROVE Carries(stages[j], w[j], S[j - 1], n + k)
    <3>1. CASE j \in 1..i
      <4>1. w[j] = v[j] /\ Carries(stages[j], v[j], S[j - 1], n + k)
        BY <1>5, <2>8, <3>1
      <4>. HIDE DEF w, v
      <4>. QED  BY <4>1
    <3>2. CASE j = i + 1
      <4>. HIDE DEF w
      <4>. QED  BY <2>1, <2>6, <2>8, <3>2
    <3>3. j \in 1..i \/ j = i + 1
      BY <2>1
    <3>. HIDE DEF w, stages
    <3>. QED  BY <3>1, <3>2, <3>3
  <2>. HIDE DEF w, stages
  <2>10. run[i + 1].memory = w /\ run[i + 1].block = r.block
    BY <2>3
  <2>. QED  BY <2>1, <2>6, <2>8, <2>9, <2>10
<1>6. 0..L \subseteq T
  <2>. HIDE DEF T, L
  <2>. QED  BY <1>1, <1>4, <1>5, InductionUpTo
<1>7. L \in T
  BY <1>1, <1>6
<1>. HIDE DEF stages
<1>. QED  BY <1>2, <1>7 DEF AllCarry, stages

\* Rings and numbers of a path that has heard nothing.
LEMMA ClearedAllCarry ==
  ASSUME NEW stages \in Seq(Stages), NEW N \in Nat, NEW S, Runs(stages, S, N),
         NEW m, \A i \in 1..Len(stages) : m[i] = Cleared(stages[i])
  PROVE  AllCarry(stages, m, S, 0)
<1>1. Len(stages) \in Nat /\ stages \in [1..Len(stages) -> Stages]
  BY LenProperties
<1>2. ASSUME NEW i \in 1..Len(stages) PROVE Carries(stages[i], m[i], S[i - 1], 0)
  <2>1. S[i - 1] \in Streams(N) /\ stages[i] \in Stages
    BY <1>1 DEF Runs
  <2>. QED  BY <2>1, ClearedCarries
<1>. QED  BY <1>2 DEF AllCarry

-----------------------------------------------------------------------------
(* What the stages that compilation appends make of a stream.              *)

Makes(stages, X, Y, N) ==
  \E S : Runs(stages, S, N) /\ S[0] = X /\ S[Len(stages)] = Y

\* Stages compiled so far make Y of X, if no gain among them has overflowed.
Grown(stages, X, Y, N) ==
  stages \in Seq(Stages) /\ (Finite(stages) => Makes(stages, X, Y, N))

LEMMA StagesAppend ==
  ASSUME NEW stages \in Seq(Stages), NEW stage \in Stages
  PROVE  /\ Append(stages, stage) \in Seq(Stages)
         /\ Len(Append(stages, stage)) = Len(stages) + 1
         /\ Append(stages, stage)[Len(stages) + 1] = stage
         /\ \A i \in 1..Len(stages) : Append(stages, stage)[i] = stages[i]
         /\ Finite(Append(stages, stage)) => Finite(stages) /\ (stage.kind = "Gain" => stage.gain # NotFinite)
<1>. DEFINE L == Len(stages)
<1>1. PICK more : more = Append(stages, stage)
  OBVIOUS
<1>2. /\ more \in Seq(Stages) /\ Len(more) = L + 1 /\ more[L + 1] = stage
      /\ \A i \in 1..L : more[i] = stages[i]
  BY <1>1, AppendProperties
<1>3. L \in Nat /\ DOMAIN stages = 1..L /\ DOMAIN more = 1..L + 1
  BY <1>2, LenProperties
<1>. HIDE DEF L
<1>4. Finite(more) => Finite(stages) /\ (stage.kind = "Gain" => stage.gain # NotFinite)
  <2>. SUFFICES ASSUME Finite(more) PROVE Finite(stages) /\ (stage.kind = "Gain" => stage.gain # NotFinite)
    OBVIOUS
  <2>1. \A i \in 1..L : i \in 1..L + 1
    BY <1>3
  <2>2. L + 1 \in 1..L + 1
    BY <1>3
  <2>. QED  BY <1>2, <1>3, <2>1, <2>2 DEF Finite
<1>. QED  BY <1>1, <1>2, <1>4 DEF L

LEMMA NothingMakes ==
  ASSUME NEW N \in Nat, NEW X \in Streams(N)
  PROVE  Grown(<<>>, X, X, N)
<1>. DEFINE S == [i \in 0..0 |-> X]
<1>1. Len(<<>>) = 0
  OBVIOUS
<1>2. Runs(<<>>, S, N) /\ S[0] = X
  BY <1>1 DEF Runs
<1>3. Makes(<<>>, X, X, N)
  <2>. HIDE DEF S
  <2>. QED  BY <1>1, <1>2 DEF Makes
<1>. QED  BY <1>3 DEF Grown

LEMMA MakesStreams ==
  ASSUME NEW stages \in Seq(Stages), NEW X, NEW Y, NEW N, Makes(stages, X, Y, N)
  PROVE  X \in Streams(N) /\ Y \in Streams(N)
<1>1. Len(stages) \in Nat
  BY LenProperties
<1>2. 0 \in 0..Len(stages) /\ Len(stages) \in 0..Len(stages)
  BY <1>1
<1>. QED  BY <1>2 DEF Makes, Runs

\* One more stage.
LEMMA AppendGrows ==
  ASSUME NEW N \in Nat, NEW stages, NEW X, NEW Y, Grown(stages, X, Y, N), NEW stage \in Stages
  PROVE  Grown(Append(stages, stage), X, StageOf(stage, Y), N)
<1>. DEFINE L == Len(stages)
            Z == StageOf(stage, Y)
<1>1. PICK more : more = Append(stages, stage)
  OBVIOUS
<1>2. stages \in Seq(Stages)
  BY DEF Grown
<1>3. /\ more \in Seq(Stages) /\ Len(more) = L + 1 /\ more[L + 1] = stage
      /\ \A i \in 1..L : more[i] = stages[i]
      /\ Finite(more) => Finite(stages) /\ (stage.kind = "Gain" => stage.gain # NotFinite)
  BY <1>1, <1>2, StagesAppend
<1>4. L \in Nat
  BY <1>2, LenProperties
<1>5. ASSUME Finite(more) PROVE Makes(more, X, Z, N)
  <2>1. PICK S : Runs(stages, S, N) /\ S[0] = X /\ S[L] = Y
    BY <1>3, <1>5 DEF Grown, Makes
  <2>2. /\ S \in [0..L -> Streams(N)] /\ \A i \in 1..L : S[i] = StageOf(stages[i], S[i - 1])
    BY <2>1 DEF Runs
  <2>3. Y \in Streams(N)
    BY <1>4, <2>1, <2>2
  <2>4. Z \in Streams(N)
    BY <1>3, <1>5, <2>3, StageOfIs
  <2>. HIDE DEF L, Z
  <2>5. PICK R : R = [i \in 0..L + 1 |-> IF i = L + 1 THEN Z ELSE S[i]]
    OBVIOUS
  <2>6. R \in [0..L + 1 -> Streams(N)] /\ R[0] = X /\ R[L + 1] = Z
    BY <1>4, <2>1, <2>2, <2>4, <2>5
  <2>7. ASSUME NEW i \in 1..L + 1 PROVE R[i] = StageOf(more[i], R[i - 1])
    <3>1. CASE i = L + 1
      <4>1. R[i] = Z /\ R[i - 1] = Y /\ more[i] = stage
        BY <1>3, <1>4, <2>1, <2>5, <3>1
      <4>. QED  BY <4>1 DEF Z
    <3>2. CASE i \in 1..L
      <4>1. R[i] = S[i] /\ R[i - 1] = S[i - 1] /\ more[i] = stages[i]
        BY <1>3, <1>4, <2>5, <3>2
      <4>. QED  BY <2>2, <3>2, <4>1
    <3>. QED  BY <1>4, <3>1, <3>2
  <2>8. Runs(more, R, N)
    BY <1>3, <2>6, <2>7 DEF Runs
  <2>. QED  BY <1>3, <2>6, <2>8 DEF Makes
<1>. QED  BY <1>1, <1>3, <1>5 DEF Grown

LEMMA ScaledTwice ==
  ASSUME NEW N \in Nat, NEW X \in Streams(N), NEW g \in Int, NEW h \in Int
  PROVE  Scaled(Scaled(X, g), h) = Scaled(X, g * h)
<1>1. PICK Y \in Streams(N) : Y = Scaled(X, g) /\ \A t \in 1..N : Y[t] = g * X[t]
  BY ScaledIs
<1>2. g * h \in Int
  BY ProductIsInt
<1>3. \A t \in 1..N : h * Y[t] = (g * h) * X[t]
  <2>. SUFFICES ASSUME NEW t \in 1..N PROVE h * Y[t] = (g * h) * X[t]
    OBVIOUS
  <2>1. PICK x \in Int : x = X[t]
    BY DEF Streams
  <2>2. h * (g * x) = (g * h) * x
    OBVIOUS
  <2>. QED  BY <1>1, <2>1, <2>2
<1>4. DOMAIN X = 1..N /\ DOMAIN Y = 1..N
  BY DEF Streams
<1>5. Scaled(Y, h) = [t \in 1..N |-> h * Y[t]] /\ Scaled(X, g * h) = [t \in 1..N |-> (g * h) * X[t]]
  BY <1>4 DEF Scaled
<1>. QED  BY <1>1, <1>3, <1>5

LEMMA ScaledByOne ==
  ASSUME NEW N \in Nat, NEW X \in Streams(N)
  PROVE  Scaled(X, 1) = X
<1>1. X = [t \in 1..N |-> X[t]] /\ DOMAIN X = 1..N /\ \A t \in 1..N : 1 * X[t] = X[t]
  BY DEF Streams
<1>. QED  BY <1>1 DEF Scaled

\* Neighbouring gains become one, which is none if one of them is.
LEMMA GainGrows ==
  ASSUME NEW N \in Nat, NEW stages, NEW X, NEW Y, Grown(stages, X, Y, N),
         NEW gain \in Int \cup {NotFinite}
  PROVE  Grown(appendGainStage(stages, gain), X, Scaled(Y, gain), N)
<1>. DEFINE L == Len(stages)
            merged == stages # <<>> /\ Last(stages).kind = "Gain"
<1>1. stages \in Seq(Stages)
  BY DEF Grown
<1>2. L \in Nat /\ stages \in [1..L -> Stages] /\ DOMAIN stages = 1..L
  BY <1>1, LenProperties
<1>3. CASE ~merged
  <2>. DEFINE stage == [kind |-> "Gain", gain |-> gain]
  <2>1. stage \in Stages
    BY DEF Stages, GainStages
  <2>2. StageOf(stage, Y) = Scaled(Y, gain)
    BY DEF StageOf
  <2>3. appendGainStage(stages, gain) = Append(stages, stage)
    BY <1>3 DEF appendGainStage
  <2>. HIDE DEF stage
  <2>. QED  BY <2>1, <2>2, <2>3, AppendGrows
<1>4. CASE merged
  <2>1. L # 0
    BY <1>1, <1>4, EmptySeq
  <2>2. L \in 1..L /\ L - 1 \in 0..L /\ L \in 0..L
    BY <1>2, <2>1
  <2>3. Last(stages) = stages[L]
    BY DEF Last
  <2>. DEFINE k == stages[L].gain
              h == IF k = NotFinite \/ gain = NotFinite THEN NotFinite ELSE k * gain
  <2>4. stages[L].kind = "Gain" /\ stages[L] \in Stages
    BY <1>2, <1>4, <2>2, <2>3
  <2>5. k \in Int \cup {NotFinite} /\ stages[L] = [kind |-> "Gain", gain |-> k]
    BY <2>4 DEF Stages, GainStages, DelayStages, BiquadStages
  <2>6. h \in Int \cup {NotFinite} /\ (h # NotFinite => k \in Int /\ gain \in Int /\ h = k * gain)
    <3>. HIDE DEF k
    <3>. QED  BY <2>5, ProductIsInt
  <2>7. PICK more : more = appendGainStage(stages, gain)
    OBVIOUS
  <2>8. more = [stages EXCEPT ![L] = [kind |-> "Gain", gain |-> h]]
    <3>1. more = [stages EXCEPT ![L].gain = h]
      BY <1>4, <2>7 DEF appendGainStage
    <3>2. [stages[L] EXCEPT !.gain = h] = [kind |-> "Gain", gain |-> h]
      <4>. HIDE DEF h
      <4>. QED  BY <2>5
    <3>. HIDE DEF h
    <3>. QED  BY <3>1, <3>2
  <2>. HIDE DEF h
  <2>9. [kind |-> "Gain", gain |-> h] \in Stages
    BY <2>6 DEF Stages, GainStages
  <2>. HIDE DEF L, k
  <2>10. /\ more \in [1..L -> Stages] /\ more[L] = [kind |-> "Gain", gain |-> h]
         /\ \A i \in 1..L : i # L => more[i] = stages[i]
    BY <1>2, <2>2, <2>8, <2>9
  <2>11. more \in Seq(Stages) /\ Len(more) = L /\ DOMAIN more = 1..L
    BY <1>2, <2>10, FunctionIsSeq
  <2>12. ASSUME Finite(more) PROVE Makes(more, X, Scaled(Y, gain), N)
    <3>1. h # NotFinite
      BY <2>2, <2>10, <2>11, <2>12 DEF Finite
    <3>2. k \in Int /\ gain \in Int /\ h = k * gain /\ h \in Int
      BY <2>6, <3>1
    <3>3. Finite(stages)
      <4>1. \A i \in 1..L : i # L => (stages[i].kind = "Gain" => stages[i].gain # NotFinite)
        BY <2>10, <2>11, <2>12 DEF Finite
      <4>2. stages[L].gain # NotFinite
        BY <2>5, <3>2, NumbersTyped DEF k
      <4>. QED  BY <1>2, <4>1, <4>2 DEF Finite
    <3>4. PICK S : Runs(stages, S, N) /\ S[0] = X /\ S[L] = Y
      BY <3>3 DEF Grown, Makes, L
    <3>5. /\ S \in [0..L -> Streams(N)] /\ \A i \in 1..L : S[i] = StageOf(stages[i], S[i - 1])
      BY <3>4 DEF Runs, L
    <3>. DEFINE before == S[L - 1]
    <3>6. before \in Streams(N) /\ Y = StageOf(stages[L], before)
      BY <2>2, <3>4, <3>5
    <3>7. Y = Scaled(before, k)
      BY <2>5, <3>6 DEF StageOf
    <3>8. Scaled(Y, gain) = Scaled(before, h)
      <4>. HIDE DEF before
      <4>. QED  BY <3>2, <3>6, <3>7, ScaledTwice
    <3>9. Scaled(Y, gain) \in Streams(N)
      <4>. HIDE DEF before
      <4>. QED  BY <3>2, <3>6, <3>8, ScaledIs
    <3>10. PICK R : R = [S EXCEPT ![L] = Scaled(Y, gain)]
      OBVIOUS
    <3>11. /\ R \in [0..L -> Streams(N)] /\ R[L] = Scaled(Y, gain)
           /\ \A i \in 0..L : i # L => R[i] = S[i]
      BY <2>2, <3>5, <3>9, <3>10
    <3>12. L \in Nat /\ L # 0
      BY <1>2, <2>1 DEF L
    <3>13. R[0] = X /\ R[L - 1] = before
      <4>1. 0 \in 0..L /\ 0 # L /\ L - 1 \in 0..L /\ L - 1 # L
        BY <3>12
      <4>. QED  BY <3>4, <3>11, <4>1
    <3>14. R[L] = StageOf(more[L], R[L - 1])
      <4>1. StageOf(more[L], before) = Scaled(before, h)
        BY <2>10 DEF StageOf
      <4>. QED  BY <3>8, <3>11, <3>13, <4>1
    <3>15. ASSUME NEW i \in 1..L, i # L PROVE R[i] = StageOf(more[i], R[i - 1])
      <4>1. i \in 0..L /\ i - 1 \in 0..L /\ i - 1 # L
        BY <3>12, <3>15
      <4>2. R[i] = S[i] /\ R[i - 1] = S[i - 1] /\ more[i] = stages[i]
        BY <2>10, <3>11, <3>15, <4>1
      <4>. QED  BY <3>5, <4>2
    <3>16. Runs(more, R, N)
      BY <2>11, <3>11, <3>14, <3>15 DEF Runs
    <3>. QED  BY <2>11, <3>11, <3>13, <3>16 DEF Makes
  <2>. QED  BY <2>7, <2>11, <2>12 DEF Grown
<1>. QED  BY <1>3, <1>4

\* A number of half samples, in whole ones and the rest.
LEMMA WholeAndHalf ==
  ASSUME NEW halves \in Nat
  PROVE  \E whole \in Nat, half \in 0..1 :
           whole = halves \div 2 /\ half = halves % 2 /\ 2 * whole + half = halves
<1>1. PICK whole \in Nat : whole = halves \div 2
  OBVIOUS
<1>2. PICK half \in 0..1 : half = halves % 2
  OBVIOUS
<1>3. 2 * whole + half = halves
  BY <1>1, <1>2
<1>. QED  BY <1>1, <1>2, <1>3

LEMMA DelayGrows ==
  ASSUME NEW N \in Nat, NEW stages, NEW X, NEW Y, Grown(stages, X, Y, N), NEW halves \in Nat
  PROVE  Grown(appendDelayStage(stages, halves), X, DeclaredDelay(Y, halves), N)
<1>1. CASE halves = 0
  <2>1. stages \in Seq(Stages)
    BY DEF Grown
  <2>2. ASSUME Finite(stages) PROVE DeclaredDelay(Y, 0) = Y
    <3>1. Y \in Streams(N)
      BY <2>1, <2>2, MakesStreams DEF Grown
    <3>2. PICK D \in Streams(N) :
            /\ D = DeclaredDelay(Y, 0)
            /\ \A t \in 1..N : D[t] = ((2 - 0) * At(Y, t - 0) + 0 * At(Y, t - 0 - 1)) \div 2
      <4>1. 2 * 0 + 0 = 0
        OBVIOUS
      <4>2. /\ DeclaredDelay(Y, 2 * 0 + 0) \in Streams(N)
            /\ \A t \in 1..N : DeclaredDelay(Y, 2 * 0 + 0)[t] =
                 ((2 - 0) * At(Y, t - 0) + 0 * At(Y, t - 0 - 1)) \div 2
        BY <3>1, DelayIs
      <4>. QED  BY <4>1, <4>2
    <3>3. \A t \in 1..N : D[t] = Y[t]
      <4>. SUFFICES ASSUME NEW t \in 1..N PROVE D[t] = Y[t]
        OBVIOUS
      <4>1. t - 0 = t /\ t - 0 - 1 = t - 1 /\ t - 1 \in Int /\ t - 1 =< N
        OBVIOUS
      <4>2. At(Y, t) = Y[t] /\ At(Y, t) \in Int /\ At(Y, t - 1) \in Int
        BY <3>1, <4>1, AtIsInt DEF At
      <4>3. ((2 - 0) * At(Y, t) + 0 * At(Y, t - 1)) \div 2 = At(Y, t)
        BY <4>2, Halves
      <4>. QED  BY <3>2, <4>1, <4>2, <4>3
    <3>. QED  BY <3>1, <3>2, <3>3 DEF Streams
  <2>3. appendDelayStage(stages, halves) = stages
    BY <1>1 DEF appendDelayStage
  <2>. QED  BY <1>1, <2>2, <2>3 DEF Grown
<1>2. CASE halves # 0
  <2>1. PICK whole \in Nat, half \in 0..1 :
          whole = halves \div 2 /\ half = halves % 2 /\ 2 * whole + half = halves
    BY WholeAndHalf
  <2>. DEFINE stage == [kind |-> "Delay", integer |-> whole, fraction |-> half]
  <2>2. stage \in Stages
    BY DEF Stages, DelayStages
  <2>3. StageOf(stage, Y) = DeclaredDelay(Y, halves)
    BY <2>1 DEF StageOf
  <2>4. appendDelayStage(stages, halves) = Append(stages, stage)
    BY <1>2, <2>1 DEF appendDelayStage
  <2>. HIDE DEF stage
  <2>. QED  BY <2>2, <2>3, <2>4, AppendGrows
<1>. QED  BY <1>1, <1>2

LEMMA BiquadGrows ==
  ASSUME NEW N \in Nat, NEW stages, NEW X, NEW Y, Grown(stages, X, Y, N),
         NEW filter, TypedFilter(filter)
  PROVE  Grown(appendBiquadStage(stages, filter), X, DeclaredEqualizer(Y, Coefficients[filter.name]), N)
<1>. DEFINE stage == [kind |-> "Biquad", biquad |-> Coefficients[filter.name]]
<1>1. Coefficients[filter.name] \in Biquad
  BY NumbersTyped DEF TypedFilter, Biquad
<1>2. stage \in Stages
  BY <1>1 DEF Stages, BiquadStages
<1>3. StageOf(stage, Y) = DeclaredEqualizer(Y, Coefficients[filter.name])
  BY DEF StageOf
<1>4. appendBiquadStage(stages, filter) = Append(stages, stage)
  BY DEF appendBiquadStage
<1>. HIDE DEF stage
<1>. QED  BY <1>2, <1>3, <1>4, AppendGrows

\* An equalizer's slots, one after the other.
LEMMA SlotsGrow ==
  ASSUME NEW N \in Nat, NEW stages, NEW X, NEW Y, Grown(stages, X, Y, N),
         NEW filters, Vector(filters), \A filter \in Range(filters) : TypedFilter(filter)
  PROVE  Grown(appendBiquadStages(stages, filters), X, DeclaredSlots(Y, filters), N)
<1>. DEFINE L == Len(filters)
<1>1. L \in Nat /\ \A i \in 1..L : TypedFilter(filters[i])
  BY VectorIs
<1>2. PICK c : /\ c[0] = stages
               /\ \A i \in 1..L : c[i] = BiquadsStep(stages, filters, c[i - 1], i)
               /\ appendBiquadStages(stages, filters) = c[L]
  BY <1>1, BiquadsRun
<1>3. PICK d : /\ d[0] = Y
               /\ \A i \in 1..L : d[i] = SlotsStep(Y, filters, d[i - 1], i)
               /\ DeclaredSlots(Y, filters) = d[L]
  BY <1>1, SlotsRun
<1>. HIDE DEF L
<1>. DEFINE T == {i \in Nat : Grown(c[i], X, d[i], N)}
<1>4. 0 \in T
  BY <1>2, <1>3
<1>5. ASSUME NEW i \in 0..L - 1, i \in T PROVE i + 1 \in T
  <2>1. i + 1 \in 1..L /\ i + 1 - 1 = i
    BY <1>1
  <2>2. /\ c[i + 1] = appendBiquadStage(c[i], filters[i + 1])
        /\ d[i + 1] = DeclaredEqualizer(d[i], Coefficients[filters[i + 1].name])
    BY <1>2, <1>3, <2>1 DEF BiquadsStep, SlotsStep
  <2>3. Grown(c[i], X, d[i], N) /\ TypedFilter(filters[i + 1])
    BY <1>1, <1>5, <2>1
  <2>4. Grown(c[i + 1], X, d[i + 1], N)
    BY <2>2, <2>3, BiquadGrows
  <2>. QED  BY <1>1, <2>4
<1>6. 0..L \subseteq T
  <2>. HIDE DEF T
  <2>. QED  BY <1>1, <1>4, <1>5, InductionUpTo
<1>7. L \in T
  BY <1>1, <1>6
<1>. QED  BY <1>2, <1>3, <1>7

LEMMA LinearGainIs ==
  ASSUME NEW gain \in Gains, gain # NotFinite
  PROVE  LinearGain[gain] \in Int \cup {NotFinite}
BY NumbersTyped DEF Gains

LEMMA StageGrows ==
  ASSUME NEW N \in Nat, NEW stages, NEW X, NEW Y, Grown(stages, X, Y, N),
         NEW stage, TypedStage(stage), ValidStage(stage), NEW r \in Nat
  PROVE  Grown(appendStage(stages, stage, r), X, DeclaredStage(Y, stage, r), N)
<1>1. CASE stage.kind = "Gain"
  <2>1. stage.gain \in Gains /\ stage.gain # NotFinite
    BY <1>1 DEF TypedStage, ValidStage
  <2>2. /\ appendStage(stages, stage, r) = appendGainStage(stages, LinearGain[stage.gain])
        /\ DeclaredStage(Y, stage, r) = Scaled(Y, LinearGain[stage.gain])
    BY <1>1 DEF appendStage, DeclaredStage
  <2>. QED  BY <2>1, <2>2, LinearGainIs, GainGrows
<1>2. CASE stage.kind = "Polarity" /\ stage.inverted
  <2>1. /\ appendStage(stages, stage, r) = appendGainStage(stages, -1)
        /\ DeclaredStage(Y, stage, r) = Scaled(Y, -1)
    BY <1>2 DEF appendStage, DeclaredStage
  <2>. QED  BY <2>1, GainGrows
<1>3. CASE stage.kind = "Polarity" /\ ~stage.inverted
  <2>1. /\ appendStage(stages, stage, r) = stages
        /\ DeclaredStage(Y, stage, r) = Scaled(Y, 1)
    BY <1>3 DEF appendStage, DeclaredStage
  <2>2. Finite(stages) => Scaled(Y, 1) = Y
    BY MakesStreams, ScaledByOne DEF Grown
  <2>. QED  BY <2>1, <2>2 DEF Grown
<1>4. CASE stage.kind = "Delay"
  <2>1. stage.ms \in Int /\ stage.ms >= 0
    BY <1>4 DEF TypedStage, ValidStage
  <2>2. stage.ms * r \in Nat
    <3>1. PICK ms \in Nat : ms = stage.ms
      BY <2>1
    <3>2. ms * r \in Nat
      OBVIOUS
    <3>. QED  BY <3>1, <3>2
  <2>3. /\ appendStage(stages, stage, r) = appendDelayStage(stages, stage.ms * r)
        /\ DeclaredStage(Y, stage, r) = DeclaredDelay(Y, stage.ms * r)
    BY <1>4 DEF appendStage, DeclaredStage
  <2>. QED  BY <2>2, <2>3, DelayGrows
<1>5. CASE stage.kind = "Biquad"
  <2>1. TypedFilter(stage.filter)
    BY <1>5 DEF TypedStage
  <2>2. /\ appendStage(stages, stage, r) = appendBiquadStage(stages, stage.filter)
        /\ DeclaredStage(Y, stage, r) = DeclaredEqualizer(Y, Coefficients[stage.filter.name])
    BY <1>5 DEF appendStage, DeclaredStage
  <2>. QED  BY <2>1, <2>2, BiquadGrows
<1>6. CASE stage.kind = "Slots"
  <2>1. Vector(stage.filters) /\ \A filter \in Range(stage.filters) : TypedFilter(filter)
    BY <1>6 DEF TypedStage
  <2>2. /\ appendStage(stages, stage, r) = appendBiquadStages(stages, stage.filters)
        /\ DeclaredStage(Y, stage, r) = DeclaredSlots(Y, stage.filters)
    BY <1>6 DEF appendStage, DeclaredStage
  <2>. QED  BY <2>1, <2>2, SlotsGrow
<1>. QED  BY <1>1, <1>2, <1>3, <1>4, <1>5, <1>6 DEF TypedStage

\* A compiled path makes of every stream what the path declares of it.
LEMMA CompiledMakes ==
  ASSUME NEW path, TypedPath(path), path.pre # NotFinite, path.post # NotFinite,
         \A stage \in Range(path.chain) : ValidStage(stage),
         NEW r \in Nat, NEW N \in Nat, NEW X \in Streams(N)
  PROVE  Grown(CompiledStages(path, r), X, DeclaredPath(path, X, r), N)
<1>. DEFINE L == Len(path.chain)
            first == appendGainStage(<<>>, LinearGain[path.pre])
<1>1. L \in Nat /\ \A i \in 1..L : TypedStage(path.chain[i]) /\ ValidStage(path.chain[i])
  BY VectorIs DEF TypedPath
<1>2. PICK c : /\ c[0] = first
               /\ \A i \in 1..L : c[i] = ChainStep(path, r, c[i - 1], i)
               /\ CompiledStages(path, r) = appendGainStage(c[L], LinearGain[path.post])
  BY <1>1, ChainRun
<1>3. PICK d : /\ d[0] = Scaled(X, LinearGain[path.pre])
               /\ \A i \in 1..L : d[i] = DeclaredStep(path, X, r, d[i - 1], i)
               /\ DeclaredPath(path, X, r) = Scaled(d[L], LinearGain[path.post])
  BY <1>1, DeclaredRun
<1>4. LinearGain[path.pre] \in Int \cup {NotFinite} /\ LinearGain[path.post] \in Int \cup {NotFinite}
  BY LinearGainIs DEF TypedPath
<1>. HIDE DEF L, first
<1>. DEFINE T == {i \in Nat : Grown(c[i], X, d[i], N)}
<1>5. 0 \in T
  <2>. DEFINE gain == LinearGain[path.pre]
  <2>1. Grown(<<>>, X, X, N) /\ gain \in Int \cup {NotFinite}
    BY <1>4, NothingMakes
  <2>2. Grown(appendGainStage(<<>>, gain), X, Scaled(X, gain), N)
    <3>. HIDE DEF gain
    <3>. QED  BY <2>1, GainGrows
  <2>. QED  BY <1>2, <1>3, <2>2 DEF first
<1>6. ASSUME NEW i \in 0..L - 1, i \in T PROVE i + 1 \in T
  <2>1. i + 1 \in 1..L /\ i + 1 - 1 = i
    BY <1>1
  <2>2. /\ c[i + 1] = appendStage(c[i], path.chain[i + 1], r)
        /\ d[i + 1] = DeclaredStage(d[i], path.chain[i + 1], r)
    BY <1>2, <1>3, <2>1 DEF ChainStep, DeclaredStep
  <2>3. Grown(c[i], X, d[i], N) /\ TypedStage(path.chain[i + 1]) /\ ValidStage(path.chain[i + 1])
    BY <1>1, <1>6, <2>1
  <2>4. Grown(c[i + 1], X, d[i + 1], N)
    BY <2>2, <2>3, StageGrows
  <2>. QED  BY <1>1, <2>4
<1>7. 0..L \subseteq T
  <2>. HIDE DEF T
  <2>. QED  BY <1>1, <1>5, <1>6, InductionUpTo
<1>8. Grown(c[L], X, d[L], N)
  BY <1>1, <1>7
<1>9. Grown(appendGainStage(c[L], LinearGain[path.post]), X, Scaled(d[L], LinearGain[path.post]), N)
  BY <1>4, <1>8, GainGrows
<1>. QED  BY <1>2, <1>3, <1>9

-----------------------------------------------------------------------------
(* The outputs, onto planes that may be the inputs'.                       *)

OutputBlock(output, preserved, scratch) ==
  [t \in DOMAIN preserved[output.target] |->
     (((IF output.mode = "Add" THEN preserved[output.target][t] ELSE 0)
      + Total([i \in DOMAIN output.terms |->
                 scratch[output.terms[i].path].block[t] * output.terms[i].gain]))
     * graph.trim) \div 2]

LEMMA WrittenByIs ==
  ASSUME NEW output, NEW planes, NEW preserved, NEW scratch, NEW place,
         place[output.target] \in DOMAIN planes
  PROVE  LET now == WrittenBy(output, planes, preserved, scratch, place)
         IN  /\ DOMAIN now = DOMAIN planes
             /\ now[place[output.target]] = OutputBlock(output, preserved, scratch)
             /\ \A q \in DOMAIN planes : q # place[output.target] => now[q] = planes[q]
<1>. DEFINE now == WrittenBy(output, planes, preserved, scratch, place)
            block == OutputBlock(output, preserved, scratch)
<1>1. now = [planes EXCEPT ![place[output.target]] = block]
  BY DEF WrittenBy, OutputBlock, OriginalTarget
<1>. HIDE DEF now, block
<1>2. /\ DOMAIN now = DOMAIN planes /\ now[place[output.target]] = block
      /\ \A q \in DOMAIN planes : q # place[output.target] => now[q] = planes[q]
  BY <1>1
<1>. QED  BY <1>2 DEF now, block

\* Outputs on the planes of their targets, and the rest as it was.
OutputsOn(now, planes, preserved, scratch, place) ==
  /\ \A k \in 1..Len(graph.outputs) :
       now[place[graph.outputs[k].target]] = OutputBlock(graph.outputs[k], preserved, scratch)
  /\ \A c \in Channels : (\A k \in 1..Len(graph.outputs) : graph.outputs[k].target # c)
                           => now[place[c]] = planes[place[c]]

\* Every output on the plane of its target, whatever was written before.
LEMMA WrittenIs ==
  ASSUME Len(graph.outputs) \in Nat,
         NEW planes, NEW preserved, NEW scratch, NEW place,
         \A c \in Channels : place[c] \in DOMAIN planes,
         \A c \in Channels, d \in Channels : place[c] = place[d] => c = d,
         \A k \in 1..Len(graph.outputs) : graph.outputs[k].target \in Channels,
         \A j \in 1..Len(graph.outputs), k \in 1..Len(graph.outputs) :
           graph.outputs[j].target = graph.outputs[k].target => j = k
  PROVE  OutputsOn(Written(planes, preserved, scratch, place), planes, preserved, scratch, place)
<1>. DEFINE M == Len(graph.outputs)
            C == Channels
<1>1. PICK run : /\ run[0] = planes
                 /\ \A i \in 1..M :
                      run[i] = OutputsStep(graph.outputs, planes, preserved, scratch, place, run[i - 1], i)
                 /\ Written(planes, preserved, scratch, place) = run[M]
  BY OutputsRun, SMTT(30)
<1>. HIDE DEF C
<1>. DEFINE Target(k) == graph.outputs[k].target
            Block(k)  == OutputBlock(graph.outputs[k], preserved, scratch)
            T == {i \in Nat :
                    /\ DOMAIN run[i] = DOMAIN planes
                    /\ \A k \in 1..i : run[i][place[Target(k)]] = Block(k)
                    /\ \A c \in C : (\A k \in 1..i : Target(k) # c) => run[i][place[c]] = planes[place[c]]}
<1>2. 0 \in T
  BY <1>1
<1>3. ASSUME NEW i \in 0..M - 1, i \in T PROVE i + 1 \in T
  <2>1. i + 1 \in 1..M /\ i + 1 - 1 = i /\ i \in Nat /\ 1..i \subseteq 1..M
    OBVIOUS
  <2>2. run[i + 1] = WrittenBy(graph.outputs[i + 1], run[i], preserved, scratch, place)
    BY <1>1, <2>1 DEF OutputsStep
  <2>3. Target(i + 1) \in C
    BY <2>1 DEF C
  <2>4. DOMAIN run[i] = DOMAIN planes
    BY <1>3
  <2>5. place[Target(i + 1)] \in DOMAIN run[i]
    BY <2>3, <2>4 DEF C
  <2>6. /\ DOMAIN run[i + 1] = DOMAIN planes
        /\ run[i + 1][place[Target(i + 1)]] = Block(i + 1)
        /\ \A q \in DOMAIN planes : q # place[Target(i + 1)] => run[i + 1][q] = run[i][q]
    BY <2>2, <2>4, <2>5, WrittenByIs
  <2>7. ASSUME NEW k \in 1..i + 1 PROVE run[i + 1][place[Target(k)]] = Block(k)
    <3>1. CASE k = i + 1
      BY <2>6, <3>1
    <3>2. CASE k \in 1..i
      <4>1. k \in 1..M /\ k # i + 1
        BY <2>1, <3>2
      <4>2. Target(k) \in C /\ Target(k) # Target(i + 1)
        BY <2>1, <4>1 DEF C
      <4>3. place[Target(k)] \in DOMAIN planes /\ place[Target(k)] # place[Target(i + 1)]
        BY <2>3, <4>2 DEF C
      <4>4. run[i][place[Target(k)]] = Block(k)
        BY <1>3, <3>2
      <4>. HIDE DEF Target, Block
      <4>. QED  BY <2>6, <4>3, <4>4
    <3>. QED  BY <2>1, <3>1, <3>2
  <2>8. ASSUME NEW c \in C, \A k \in 1..i + 1 : Target(k) # c
        PROVE  run[i + 1][place[c]] = planes[place[c]]
    <3>1. Target(i + 1) # c /\ \A k \in 1..i : Target(k) # c
      BY <2>1, <2>8
    <3>2. place[c] \in DOMAIN planes /\ place[c] # place[Target(i + 1)]
      BY <2>3, <3>1 DEF C
    <3>3. run[i][place[c]] = planes[place[c]]
      BY <1>3, <3>1
    <3>. HIDE DEF Target, Block
    <3>. QED  BY <2>6, <3>2, <3>3
  <2>. HIDE DEF Target, Block
  <2>. QED  BY <2>1, <2>6, <2>7, <2>8
<1>4. 0..M \subseteq T
  <2>. HIDE DEF T
  <2>. QED  BY <1>2, <1>3, InductionUpTo
<1>5. M \in T
  BY <1>4
<1>. QED  BY <1>1, <1>5 DEF C, OutputsOn

\* Channels that no output writes.
LEMMA CopiedIs ==
  ASSUME NEW planes, NEW preserved, NEW place, IsInjective(place), DOMAIN place = Channels,
         NEW c \in Channels, ~Targeted(c), place[c] \in DOMAIN planes
  PROVE  Copied(planes, preserved, place)[place[c]] = preserved[c]
<1>1. \A d \in Channels : place[d] = place[c] => d = c
  BY DEF IsInjective
<1>2. (CHOOSE d \in Channels : place[d] = place[c]) = c
  BY <1>1
<1>3. \E d \in Channels : place[d] = place[c] /\ ~Targeted(d)
  OBVIOUS
<1>. QED  BY <1>2, <1>3 DEF Copied

\* Two lists of frames, as functions.
LEMMA ConcatIs ==
  ASSUME NEW T, NEW n \in Nat, NEW k \in Nat, NEW f \in [1..n -> T], NEW g \in [1..k -> T]
  PROVE  /\ f \o g \in [1..n + k -> T]
         /\ \A t \in 1..n : (f \o g)[t] = f[t]
         /\ \A t \in 1..k : (f \o g)[n + t] = g[t]
<1>1. f \in Seq(T) /\ g \in Seq(T) /\ Len(f) = n /\ Len(g) = k
  BY FunctionIsSeq
<1>2. PICK h : h = f \o g
  OBVIOUS
<1>3. /\ h \in Seq(T) /\ Len(h) = n + k
      /\ \A i \in 1..n + k : h[i] = IF i <= n THEN f[i] ELSE g[i - n]
  BY <1>1, <1>2, ConcatProperties
<1>4. h \in [1..n + k -> T]
  BY <1>3, LenProperties
<1>5. ASSUME NEW t \in 1..n PROVE h[t] = f[t]
  BY <1>3
<1>6. ASSUME NEW t \in 1..k PROVE h[n + t] = g[t]
  <2>1. n + t \in 1..n + k /\ ~(n + t <= n) /\ n + t - n = t
    OBVIOUS
  <2>. QED  BY <1>3, <2>1
<1>. QED  BY <1>2, <1>4, <1>5, <1>6

-----------------------------------------------------------------------------
(* One block of a prepared routing.                                        *)

\* The graph is what has been compiled of a valid state.
Compiled ==
  /\ state \in States /\ layout \in Layouts /\ rate \in Rates
  /\ ValidOn(state, layout, rate)
  /\ \E trim \in Trims(state) : graph = Graph(state, layout, rate, trim)
  /\ Preparable(graph)

LEMMA CompiledIs ==
  ASSUME Compiled
  PROVE  /\ rate \in Nat
         /\ Len(layout) \in Nat \ {0} /\ DOMAIN layout = 1..Len(layout) /\ IsInjective(layout)
         /\ Len(state.paths) \in Nat /\ DOMAIN state.paths = 1..Len(state.paths)
         /\ Len(state.matrix) \in Nat /\ DOMAIN state.matrix = 1..Len(state.matrix)
         /\ DOMAIN graph.paths = 1..Len(state.paths) /\ Len(graph.outputs) = Len(state.matrix)
         /\ DOMAIN graph.outputs = 1..Len(state.matrix)
         /\ \A p \in 1..Len(state.paths) : graph.paths[p] = CompiledPath(state.paths[p], layout, rate)
         /\ \A k \in 1..Len(state.matrix) : graph.outputs[k] = CompiledOutput(state, state.matrix[k], layout)
<1>1. rate \in Nat /\ Vector(layout) /\ Vector(state.paths) /\ Vector(state.matrix)
  BY StatesTyped, DevicesTyped DEF Compiled, TypedState
<1>2. /\ Len(layout) \in Nat /\ DOMAIN layout = 1..Len(layout)
      /\ Len(state.paths) \in Nat /\ DOMAIN state.paths = 1..Len(state.paths)
      /\ Len(state.matrix) \in Nat /\ DOMAIN state.matrix = 1..Len(state.matrix)
  BY <1>1, VectorIs
<1>3. IsInjective(layout) /\ Range(state.layout) \subseteq Range(layout) /\ ValidState(state)
  BY DEF Compiled, ValidOn
<1>4. Len(layout) # 0
  <2>1. PICK i \in DOMAIN state.matrix : TRUE
    <3>1. state.matrix # <<>> /\ state.matrix \in Seq(Range(state.matrix))
      BY <1>1, <1>3 DEF ValidState, Vector
    <3>2. Len(state.matrix) # 0
      BY <3>1, EmptySeq
    <3>3. 1 \in DOMAIN state.matrix
      BY <1>2, <3>2
    <3>. QED  BY <3>3
  <2>2. state.matrix[i].target \in Range(layout)
    BY <1>3 DEF ValidState, ValidOutput, Range
  <2>. QED  BY <1>2, <2>2 DEF Range
<1>5. PICK trim \in Trims(state) : graph = Graph(state, layout, rate, trim)
  BY DEF Compiled
<1>6. /\ graph.paths = [p \in 1..Len(state.paths) |-> CompiledPath(state.paths[p], layout, rate)]
      /\ graph.outputs = [k \in 1..Len(state.matrix) |-> CompiledOutput(state, state.matrix[k], layout)]
  BY <1>2, <1>5 DEF Graph
<1>7. Len(graph.outputs) = Len(state.matrix)
  <2>. DEFINE of(k) == CompiledOutput(state, state.matrix[k], layout)
  <2>1. graph.outputs \in [1..Len(state.matrix) -> {of(k) : k \in 1..Len(state.matrix)}]
    BY <1>6
  <2>. HIDE DEF of
  <2>. QED  BY <1>2, <2>1, FunctionIsSeq
<1>. QED  BY <1>1, <1>2, <1>3, <1>4, <1>6, <1>7

\* An index in the layout has its channel's name, and no other index has.
LEMMA IndexInLayout ==
  ASSUME Compiled
  PROVE  /\ \A channel \in Range(state.layout) :
              IndexOf(layout, channel) \in Channels /\ layout[IndexOf(layout, channel)] = channel
         /\ \A c \in Channels : IndexOf(layout, layout[c]) = c
<1>1. layout \in Seq(Range(layout)) /\ IsInjective(layout) /\ Range(state.layout) \subseteq Range(layout)
  BY DevicesTyped DEF Compiled, ValidOn, Vector
<1>2. Channels = 1..Len(layout)
  BY CompiledIs DEF Channels
<1>3. \A channel \in Range(layout) :
        IndexOf(layout, channel) \in Channels /\ layout[IndexOf(layout, channel)] = channel
  BY <1>1, <1>2, IndexIs
<1>4. ASSUME NEW c \in Channels PROVE IndexOf(layout, layout[c]) = c
  <2>1. layout[c] \in Range(layout)
    BY DEF Channels, Range
  <2>2. /\ IndexOf(layout, layout[c]) \in DOMAIN layout /\ c \in DOMAIN layout
        /\ layout[IndexOf(layout, layout[c])] = layout[c]
    BY <1>3, <2>1 DEF Channels
  <2>. QED  BY <1>1, <2>2 DEF IsInjective
<1>. QED  BY <1>1, <1>3, <1>4

\* What a path asks of its inputs and its stages.
LEMMA PathIsTyped ==
  ASSUME Compiled, NEW p \in 1..Len(state.paths)
  PROVE  LET path == state.paths[p]
         IN  /\ TypedPath(path) /\ path.pre # NotFinite /\ path.post # NotFinite
             /\ \A stage \in Range(path.chain) : ValidStage(stage)
             /\ Len(path.mix) \in Nat /\ DOMAIN path.mix = 1..Len(path.mix)
             /\ \A i \in 1..Len(path.mix) :
                  path.mix[i].gain \in Int /\ path.mix[i].channel \in Range(state.layout)
<1>. DEFINE path == state.paths[p]
<1>1. path \in Range(state.paths)
  BY CompiledIs DEF Range
<1>2. TypedPath(path)
  BY <1>1, StatesTyped DEF Compiled, TypedState
<1>3. ValidPath(state, path)
  BY <1>1 DEF Compiled, ValidOn, ValidState
<1>. HIDE DEF path
<1>4. Vector(path.mix) /\ \A term \in Range(path.mix) : term.gain \in Int \cup {NotFinite}
  BY <1>2 DEF TypedPath
<1>5. \A term \in Range(path.mix) : term.gain # NotFinite /\ term.channel \in Range(state.layout)
  BY <1>3 DEF ValidPath
<1>6. Len(path.mix) \in Nat /\ DOMAIN path.mix = 1..Len(path.mix)
      /\ \A i \in 1..Len(path.mix) : path.mix[i] \in Range(path.mix)
  BY <1>4, VectorIs
<1>7. /\ path.pre # NotFinite /\ path.post # NotFinite
      /\ \A stage \in Range(path.chain) : ValidStage(stage)
  BY <1>3 DEF ValidPath
<1>. QED  BY <1>2, <1>4, <1>5, <1>6, <1>7 DEF path

Frames(N) == [1..N -> Signals]

LEMMA SampleIsInt ==
  ASSUME Compiled, NEW N \in Nat, NEW F \in Frames(N), NEW t \in 1..N, NEW c \in Channels
  PROVE  F[t][c] \in Int
BY DevicesTyped DEF Frames, Compiled, Channels

\* The mix of a path's inputs is a stream.
LEMMA MixIs ==
  ASSUME Compiled, NEW p \in 1..Len(state.paths), NEW N \in Nat, NEW F \in Frames(N)
  PROVE  /\ DeclaredMix(F, state.paths[p]) \in Streams(N)
         /\ \A t \in 1..N : DeclaredMix(F, state.paths[p])[t] =
              Total([i \in 1..Len(state.paths[p].mix) |->
                       state.paths[p].mix[i].gain * F[t][IndexOf(layout, state.paths[p].mix[i].channel)]])
<1>. DEFINE path == state.paths[p]
            L == Len(path.mix)
            terms(t) == [i \in 1..L |-> path.mix[i].gain * F[t][IndexOf(layout, path.mix[i].channel)]]
<1>1. /\ L \in Nat /\ DOMAIN path.mix = 1..L
      /\ \A i \in 1..L : path.mix[i].gain \in Int /\ path.mix[i].channel \in Range(state.layout)
  BY PathIsTyped
<1>2. ASSUME NEW t \in 1..N PROVE Total(terms(t)) \in Int
  <2>1. ASSUME NEW i \in 1..L
        PROVE  path.mix[i].gain * F[t][IndexOf(layout, path.mix[i].channel)] \in Int
    <3>. DEFINE c == IndexOf(layout, path.mix[i].channel)
    <3>1. c \in Channels
      BY <1>1, IndexInLayout
    <3>2. F[t][c] \in Int
      <4>. HIDE DEF c
      <4>. QED  BY <3>1, SampleIsInt
    <3>3. path.mix[i].gain \in Int
      BY <1>1
    <3>. QED  BY <3>2, <3>3, ProductIsInt
  <2>2. terms(t) \in [1..L -> Int]
    BY <2>1
  <2>. HIDE DEF terms, L
  <2>. QED  BY <1>1, <2>2, TotalIsInt DEF L
<1>3. DeclaredMix(F, path) = [t \in 1..N |-> Total(terms(t))]
  <2>1. DOMAIN F = 1..N
    BY DEF Frames
  <2>. QED  BY <1>1, <2>1 DEF DeclaredMix, Heard
<1>. HIDE DEF terms
<1>4. DeclaredMix(F, path) \in Streams(N)
  BY <1>2, <1>3 DEF Streams
<1>5. \A t \in 1..N : DeclaredMix(F, path)[t] = Total(terms(t))
  BY <1>3
<1>. QED  BY <1>4, <1>5 DEF terms

\* A compiled path is what is declared, on every stream.
LEMMA PathMakes ==
  ASSUME Compiled, NEW p \in 1..Len(state.paths), NEW N \in Nat, NEW X \in Streams(N)
  PROVE  LET stages == graph.paths[p].stages
         IN  /\ stages \in Seq(Stages) /\ Finite(stages)
             /\ Makes(stages, X, DeclaredPath(state.paths[p], X, rate), N)
<1>. DEFINE stages == graph.paths[p].stages
<1>1. stages = CompiledStages(state.paths[p], rate)
  <2>1. graph.paths[p] = CompiledPath(state.paths[p], layout, rate)
    BY CompiledIs
  <2>. QED  BY <2>1 DEF CompiledPath
<1>2. Grown(stages, X, DeclaredPath(state.paths[p], X, rate), N)
  <2>1. rate \in Nat
    BY CompiledIs
  <2>. QED  BY <1>1, <2>1, PathIsTyped, CompiledMakes
<1>3. Finite(stages)
  <2>1. graph.paths[p] \in Range(graph.paths)
    BY CompiledIs DEF Range
  <2>2. \A stage \in Range(stages) : stage.kind = "Gain" => stage.gain # NotFinite
    BY <2>1 DEF Compiled, Preparable
  <2>. QED  BY <2>2 DEF Finite, Range
<1>. QED  BY <1>2, <1>3 DEF Grown

\* F goes on from H.
Continues(F, H) ==
  F \in Seq(Signals) /\ H \in Seq(Signals) /\ Len(H) =< Len(F) /\ \A t \in 1..Len(H) : F[t] = H[t]

\* The memory of path p after n frames of F.
Remembers(p, m, F, n) ==
  \A S : Runs(graph.paths[p].stages, S, Len(F)) /\ S[0] = DeclaredMix(F, state.paths[p])
           => AllCarry(graph.paths[p].stages, m, S, n)

\* A block of what path p declares, from after frame n of F.
PlaysBlock(p, block, F, n, k) ==
  block = Stretch(DeclaredPath(state.paths[p], DeclaredMix(F, state.paths[p]), rate), n, k)

\* A block of k frames through a path.
LEMMA PathPlays ==
  ASSUME Compiled, NEW p \in 1..Len(state.paths), NEW N \in Nat, NEW F \in Frames(N),
         NEW n \in Nat, NEW k \in Nat, n + k =< N, NEW frames \in Frames(k),
         \A t \in 1..k : F[n + t] = frames[t],
         NEW m, Remembers(p, m, F, n)
  PROVE  LET R == PathBlock(graph.paths[p], m, PlanesOf(frames))
         IN  /\ PlaysBlock(p, R.block, F, n, k)
             /\ Remembers(p, R.memory, F, n + k)
<1>. DEFINE path == graph.paths[p]
            stages == path.stages
            X == DeclaredMix(F, state.paths[p])
            Y == DeclaredPath(state.paths[p], X, rate)
            preserved == PlanesOf(frames)
            R == PathBlock(path, m, preserved)
<1>1. X \in Streams(N) /\ Len(F) = N
  BY MixIs, FunctionIsSeq DEF Frames
<1>2. stages \in Seq(Stages) /\ Finite(stages) /\ Makes(stages, X, Y, N)
  <2>. HIDE DEF X
  <2>. QED  BY <1>1, PathMakes
<1>3. MixedBlock(path, preserved) = Stretch(X, n, k)
  <2>. DEFINE L == Len(state.paths[p].mix)
              index(i) == IndexOf(layout, state.paths[p].mix[i].channel)
              gain(i) == state.paths[p].mix[i].gain
  <2>1. DOMAIN state.paths[p].mix = 1..L /\ \A i \in 1..L : index(i) \in Channels
    BY PathIsTyped, IndexInLayout
  <2>2. path.mix = [i \in 1..L |-> [channel |-> index(i), gain |-> gain(i)]]
    <3>1. path = CompiledPath(state.paths[p], layout, rate)
      BY CompiledIs
    <3>. QED  BY <2>1, <3>1 DEF CompiledPath
  <2>3. /\ DOMAIN preserved[1] = 1..k
        /\ \A c \in Channels, t \in 1..k : preserved[c][t] = frames[t][c]
    <3>1. 1 \in 1..2 * Len(layout) /\ Channels \subseteq 1..2 * Len(layout) /\ DOMAIN frames = 1..k
      BY CompiledIs DEF Channels, Frames
    <3>. QED  BY <3>1 DEF PlanesOf
  <2>. HIDE DEF preserved, index, gain
  <2>4. ASSUME NEW t \in 1..k
        PROVE  Total([i \in DOMAIN path.mix |-> path.mix[i].gain * preserved[path.mix[i].channel][t]])
                 = X[n + t]
    <3>1. DOMAIN path.mix = 1..L /\ \A i \in 1..L : path.mix[i].gain = gain(i) /\ path.mix[i].channel = index(i)
      BY <2>2
    <3>2. \A i \in 1..L : preserved[path.mix[i].channel][t] = F[n + t][index(i)]
      BY <2>1, <2>3, <3>1
    <3>3. [i \in DOMAIN path.mix |-> path.mix[i].gain * preserved[path.mix[i].channel][t]]
            = [i \in 1..L |-> gain(i) * F[n + t][index(i)]]
      <4>. HIDE DEF path, L
      <4>. QED  BY <3>1, <3>2
    <3>4. X[n + t] = Total([i \in 1..L |-> gain(i) * F[n + t][index(i)]])
      <4>1. n + t \in 1..N
        OBVIOUS
      <4>. QED  BY <4>1, MixIs DEF gain, index
    <3>. QED  BY <3>3, <3>4
  <2>. HIDE DEF X, path
  <2>. QED  BY <2>3, <2>4 DEF MixedBlock, Stretch
<1>. HIDE DEF X, Y, preserved
<1>4. ASSUME NEW S, Runs(stages, S, N), S[0] = X
      PROVE  R.block = Stretch(S[Len(stages)], n, k) /\ AllCarry(stages, R.memory, S, n + k)
  <2>1. AllCarry(stages, m, S, n)
    BY <1>1, <1>4 DEF Remembers, X
  <2>2. MixedBlock(path, preserved) = Stretch(S[0], n, k)
    BY <1>3, <1>4
  <2>. HIDE DEF path
  <2>. QED  BY <1>2, <1>4, <2>1, <2>2, PathIs
<1>5. R.block = Stretch(Y, n, k)
  <2>1. PICK S : Runs(stages, S, N) /\ S[0] = X /\ S[Len(stages)] = Y
    BY <1>2 DEF Makes
  <2>. QED  BY <1>4, <2>1
<1>6. Remembers(p, R.memory, F, n + k)
  <2>. HIDE DEF R
  <2>. QED  BY <1>1, <1>4 DEF Remembers, X
<1>. QED  BY <1>5, <1>6 DEF X, Y, preserved, PlaysBlock

-----------------------------------------------------------------------------
(* What is played.                                                         *)

LEMMA OutputIsTyped ==
  ASSUME Compiled, NEW k \in 1..Len(state.matrix)
  PROVE  LET output == state.matrix[k]
         IN  /\ output \in Range(state.matrix) /\ output.target \in Range(state.layout)
             /\ DOMAIN output.terms = 1..Len(output.terms) /\ Len(output.terms) \in Nat
             /\ \A i \in 1..Len(output.terms) : output.terms[i].path \in Range(Ids(state.paths))
<1>. DEFINE output == state.matrix[k]
<1>1. output \in Range(state.matrix)
  BY CompiledIs DEF Range
<1>2. Vector(output.terms)
  BY <1>1, StatesTyped DEF Compiled, TypedState
<1>3. ValidOutput(state, output)
  BY <1>1 DEF Compiled, ValidOn, ValidState
<1>. HIDE DEF output
<1>4. \A term \in Range(output.terms) : term.path \in Range(Ids(state.paths))
  BY <1>3 DEF ValidOutput
<1>. QED  BY <1>1, <1>2, <1>3, <1>4, VectorIs DEF ValidOutput, output

\* The targets of the compiled outputs.
LEMMA TargetsAre ==
  ASSUME Compiled
  PROVE  /\ \A k \in 1..Len(state.matrix) :
              /\ graph.outputs[k].target \in Channels
              /\ layout[graph.outputs[k].target] = state.matrix[k].target
         /\ \A j \in 1..Len(state.matrix), k \in 1..Len(state.matrix) :
              graph.outputs[j].target = graph.outputs[k].target => j = k
<1>1. ASSUME NEW k \in 1..Len(state.matrix)
      PROVE  graph.outputs[k].target \in Channels /\ layout[graph.outputs[k].target] = state.matrix[k].target
  <2>1. graph.outputs[k] = CompiledOutput(state, state.matrix[k], layout)
    BY CompiledIs
  <2>2. graph.outputs[k].target = IndexOf(layout, state.matrix[k].target)
    BY <2>1 DEF CompiledOutput
  <2>. QED  BY <2>2, OutputIsTyped, IndexInLayout
<1>2. \A j \in 1..Len(state.matrix), k \in 1..Len(state.matrix) :
        graph.outputs[j].target = graph.outputs[k].target => j = k
  BY CompiledIs DEF Compiled, Preparable, IsInjective
<1>. QED  BY <1>1, <1>2

\* A path that is named is the one at its index.
LEMMA NamedIs ==
  ASSUME Compiled, NEW id \in Range(Ids(state.paths))
  PROVE  /\ IndexOf(Ids(state.paths), id) \in 1..Len(state.paths)
         /\ (CHOOSE path \in Range(state.paths) : path.id = id) = state.paths[IndexOf(Ids(state.paths), id)]
<1>. DEFINE q == IndexOf(Ids(state.paths), id)
            ids == Ids(state.paths)
<1>1. Vector(state.paths) /\ IsInjective(ids)
  BY StatesTyped DEF Compiled, ValidOn, ValidState, TypedState
<1>2. DOMAIN state.paths = 1..Len(state.paths) /\ DOMAIN ids = DOMAIN state.paths
      /\ \A i \in DOMAIN state.paths : ids[i] = state.paths[i].id
  BY CompiledIs DEF Ids
<1>3. ids \in Seq(Range(ids))
  BY <1>1, IdsAre DEF Vector
<1>4. DOMAIN ids = 1..Len(ids)
  BY <1>3, LenProperties
<1>5. q \in DOMAIN ids /\ ids[q] = id
  <2>. HIDE DEF ids
  <2>1. IndexOf(ids, id) \in 1..Len(ids) /\ ids[IndexOf(ids, id)] = id
    BY <1>3, IndexIs DEF ids
  <2>. QED  BY <1>4, <2>1 DEF ids
<1>. HIDE DEF q, ids
<1>6. state.paths[q] \in Range(state.paths) /\ state.paths[q].id = id
  BY <1>2, <1>5 DEF Range
<1>7. \A path \in Range(state.paths) : path.id = id => path = state.paths[q]
  BY <1>1, <1>2, <1>5 DEF Range, IsInjective
<1>8. (CHOOSE path \in Range(state.paths) : path.id = id) = state.paths[q]
  BY <1>6, <1>7
<1>. QED  BY <1>2, <1>5, <1>8 DEF q

\* A channel that no output writes hears itself.
LEMMA UntargetedIs ==
  ASSUME Compiled, NEW c \in Channels, ~Targeted(c), NEW F, NEW t
  PROVE  DeclaredChannel(F, layout[c], t) = F[t][c]
<1>1. {output \in Range(state.matrix) : output.target = layout[c]} = {}
  <2>. SUFFICES ASSUME NEW k \in 1..Len(state.matrix), state.matrix[k].target = layout[c] PROVE FALSE
    BY CompiledIs DEF Range
  <2>1. layout[graph.outputs[k].target] = layout[c] /\ graph.outputs[k].target \in Channels
    BY TargetsAre
  <2>2. graph.outputs[k].target = c
    BY <2>1, CompiledIs DEF Channels, IsInjective
  <2>3. graph.outputs[k] \in Range(graph.outputs)
    BY CompiledIs DEF Range
  <2>. QED  BY <2>2, <2>3 DEF Targeted
<1>2. DeclaredChannel(F, layout[c], t) = Heard(F, layout[c], t)
  BY <1>1 DEF DeclaredChannel
<1>. QED  BY <1>2, IndexInLayout DEF Heard

\* The terms of an output, by the paths' indices.
TermsOf(output, F, t) ==
  [i \in 1..Len(output.terms) |->
     LET path == state.paths[IndexOf(Ids(state.paths), output.terms[i].path)]
     IN  DeclaredPath(path, DeclaredMix(F, path), rate)[t] * LinearGain[output.terms[i].gain]]

\* A channel that an output writes is what the output is declared to be.
LEMMA TargetedIs ==
  ASSUME Compiled, NEW k \in 1..Len(state.matrix), NEW c, c = graph.outputs[k].target,
         NEW F, NEW t
  PROVE  DeclaredChannel(F, layout[c], t)
           = (((IF state.matrix[k].mode = "Add" THEN F[t][c] ELSE 0)
               + Total(TermsOf(state.matrix[k], F, t)))
              * graph.trim) \div 2
<1>. DEFINE output == state.matrix[k]
            outputs == {o \in Range(state.matrix) : o.target = layout[c]}
            Named(id) == CHOOSE path \in Range(state.paths) : path.id = id
            Indexed(id) == state.paths[IndexOf(Ids(state.paths), id)]
            Through(path) == DeclaredPath(path, DeclaredMix(F, path), rate)
<1>1. c \in Channels /\ output.target = layout[c]
  BY TargetsAre
<1>2. outputs = {output}
  <2>1. output \in outputs
    BY <1>1, OutputIsTyped
  <2>2. ASSUME NEW o \in outputs PROVE o = output
    <3>1. PICK j \in 1..Len(state.matrix) : o = state.matrix[j] /\ o.target = layout[c]
      BY <2>2, CompiledIs DEF Range
    <3>2. j = k
      <4>1. IsInjective([i \in DOMAIN state.matrix |-> state.matrix[i].target])
        BY DEF Compiled, ValidOn, ValidState
      <4>. QED  BY <1>1, <3>1, <4>1, CompiledIs DEF IsInjective
    <3>. QED  BY <3>1, <3>2
  <2>. HIDE DEF outputs, output
  <2>. QED  BY <2>1, <2>2
<1>3. outputs # {} /\ (CHOOSE o \in outputs : TRUE) = output
  <2>. HIDE DEF outputs, output
  <2>. QED  BY <1>2
<1>4. DeclaredChannel(F, layout[c], t) = DeclaredOutput(F, output, t)
  <2>. HIDE DEF output
  <2>. QED  BY <1>3 DEF DeclaredChannel
<1>5. DOMAIN output.terms = 1..Len(output.terms)
      /\ \A i \in 1..Len(output.terms) : Named(output.terms[i].path) = Indexed(output.terms[i].path)
  BY OutputIsTyped, NamedIs
<1>6. Heard(F, output.target, t) = F[t][c]
  BY <1>1, IndexInLayout DEF Heard
<1>7. [i \in DOMAIN output.terms |->
         Through(Named(output.terms[i].path))[t] * LinearGain[output.terms[i].gain]]
        = TermsOf(output, F, t)
  <2>1. TermsOf(output, F, t)
          = [i \in 1..Len(output.terms) |->
               Through(Indexed(output.terms[i].path))[t] * LinearGain[output.terms[i].gain]]
    BY DEF TermsOf
  <2>. HIDE DEF Named, Indexed, output, Through
  <2>. QED  BY <1>5, <2>1
<1>8. DeclaredOutput(F, output, t)
        = (((IF output.mode = "Add" THEN F[t][c] ELSE 0)
            + Total(TermsOf(output, F, t)))
           * graph.trim) \div 2
  <2>. HIDE DEF output
  <2>. QED  BY <1>6, <1>7 DEF DeclaredOutput
<1>. QED  BY <1>4, <1>8

\* What a block of frames leaves on the planes.
PlanesAfter(frames, scratch, place) ==
  Written(Copied(PlanesOf(frames), PlanesOf(frames), place), PlanesOf(frames), scratch, place)

PlaysChannels(planes, place, F, n, k) ==
  \A t \in 1..k, c \in Channels : planes[place[c]][t] = DeclaredChannel(F, layout[c], n + t)

LEMMA ChannelsPlay ==
  ASSUME Compiled, NEW N \in Nat, NEW F \in Frames(N),
         NEW n \in Nat, NEW k \in Nat, n + k =< N, NEW frames \in Frames(k),
         \A t \in 1..k : F[n + t] = frames[t],
         NEW scratch,
         \A p \in 1..Len(state.paths) : PlaysBlock(p, scratch[p].block, F, n, k),
         NEW place \in Places
  PROVE  PlaysChannels(PlanesAfter(frames, scratch, place), place, F, n, k)
<1>. SUFFICES ASSUME NEW c \in Channels, NEW t \in 1..k
              PROVE  PlanesAfter(frames, scratch, place)[place[c]][t] = DeclaredChannel(F, layout[c], n + t)
  BY DEF PlaysChannels
<1>. DEFINE M == Len(state.matrix)
            preserved == PlanesOf(frames)
            copied    == Copied(preserved, preserved, place)
            written   == Written(copied, preserved, scratch, place)
<1>1. /\ IsInjective(place) /\ DOMAIN place = Channels /\ Channels = 1..Len(layout)
      /\ \A d \in Channels : place[d] \in 1..2 * Len(layout)
  BY CompiledIs DEF Places, Channels
<1>2. DOMAIN preserved = 1..2 * Len(layout) /\ DOMAIN copied = 1..2 * Len(layout)
  BY DEF PlanesOf, Copied
<1>3. \A d \in Channels : DOMAIN preserved[d] = 1..k /\ \A u \in 1..k : preserved[d][u] = frames[u][d]
  <2>1. Channels \subseteq 1..2 * Len(layout) /\ DOMAIN frames = 1..k
    BY <1>1, CompiledIs DEF Frames
  <2>. QED  BY <2>1 DEF PlanesOf
<1>. HIDE DEF preserved, copied
<1>4. /\ \A j \in 1..M : written[place[graph.outputs[j].target]] = OutputBlock(graph.outputs[j], preserved, scratch)
      /\ \A d \in Channels : (\A j \in 1..M : graph.outputs[j].target # d) => written[place[d]] = copied[place[d]]
  <2>1. Len(graph.outputs) = M /\ M \in Nat
    BY CompiledIs
  <2>2. \A d \in Channels : place[d] \in DOMAIN copied
    BY <1>1, <1>2
  <2>3. \A d \in Channels, e \in Channels : place[d] = place[e] => d = e
    BY <1>1 DEF IsInjective
  <2>4. /\ \A j \in 1..M : graph.outputs[j].target \in Channels
        /\ \A i \in 1..M, j \in 1..M : graph.outputs[i].target = graph.outputs[j].target => i = j
    BY TargetsAre
  <2>. HIDE DEF M
  <2>5. OutputsOn(written, copied, preserved, scratch, place)
    BY <2>1, <2>2, <2>3, <2>4, WrittenIs
  <2>. HIDE DEF written
  <2>. QED  BY <2>1, <2>5 DEF OutputsOn
<1>. HIDE DEF written
<1>5. CASE ~Targeted(c)
  <2>1. \A j \in 1..M : graph.outputs[j].target # c
    BY <1>5, CompiledIs DEF Targeted, Range
  <2>2. written[place[c]] = copied[place[c]]
    BY <1>4, <2>1
  <2>3. copied[place[c]] = preserved[c]
    <3>1. place[c] \in DOMAIN preserved
      BY <1>1, <1>2
    <3>. QED  BY <1>1, <1>5, <3>1, CopiedIs DEF copied
  <2>4. preserved[c][t] = F[n + t][c]
    BY <1>3
  <2>. QED  BY <1>5, <2>2, <2>3, <2>4, UntargetedIs DEF PlanesAfter, written, copied, preserved
<1>6. CASE Targeted(c)
  <2>1. PICK j \in 1..M : graph.outputs[j].target = c
    BY <1>6, CompiledIs DEF Targeted, Range
  <2>. DEFINE compiled == graph.outputs[j]
              output == state.matrix[j]
              L == Len(output.terms)
              index(i) == IndexOf(Ids(state.paths), output.terms[i].path)
              gain(i) == LinearGain[output.terms[i].gain]
              Through(path) == DeclaredPath(path, DeclaredMix(F, path), rate)
              sample == IF output.mode = "Add" THEN F[n + t][c] ELSE 0
              terms == TermsOf(output, F, n + t)
  <2>2. /\ DOMAIN output.terms = 1..L
        /\ \A i \in 1..L : index(i) \in 1..Len(state.paths)
    BY OutputIsTyped, NamedIs
  <2>3. /\ compiled.mode = output.mode
        /\ compiled.terms = [i \in 1..L |-> [path |-> index(i), gain |-> gain(i)]]
    <3>1. compiled = CompiledOutput(state, output, layout)
      BY CompiledIs
    <3>. HIDE DEF output, compiled
    <3>. QED  BY <2>2, <3>1 DEF CompiledOutput
  <2>4. [i \in DOMAIN compiled.terms |-> scratch[compiled.terms[i].path].block[t] * compiled.terms[i].gain] = terms
    <3>1. \A i \in 1..L : scratch[index(i)].block[t] = Through(state.paths[index(i)])[n + t]
      <4>. HIDE DEF index, L, output
      <4>. QED  BY <2>2 DEF Stretch, PlaysBlock
    <3>2. terms = [i \in 1..L |-> Through(state.paths[index(i)])[n + t] * gain(i)]
      BY DEF TermsOf
    <3>. HIDE DEF index, gain, Through, compiled, L, terms
    <3>. QED  BY <2>3, <3>1, <3>2
  <2>5. written[place[c]][t] = ((sample + Total(terms)) * graph.trim) \div 2
    <3>1. written[place[c]] = OutputBlock(compiled, preserved, scratch) /\ compiled.target = c
      BY <1>4, <2>1
    <3>2. /\ DOMAIN preserved[c] = 1..k /\ preserved[c][t] = F[n + t][c]
      BY <1>3
    <3>. HIDE DEF compiled, output, terms
    <3>3. OutputBlock(compiled, preserved, scratch)[t] = ((sample + Total(terms)) * graph.trim) \div 2
      BY <2>3, <2>4, <3>1, <3>2 DEF OutputBlock
    <3>. QED  BY <3>1, <3>3
  <2>6. DeclaredChannel(F, layout[c], n + t) = ((sample + Total(terms)) * graph.trim) \div 2
    BY <2>1, TargetedIs, SMTT(30)
  <2>. HIDE DEF sample, terms
  <2>. QED  BY <2>5, <2>6 DEF PlanesAfter, written, copied, preserved
<1>. QED  BY <1>5, <1>6

PlayedOf(F, n) == [t \in 1..n |-> [c \in Channels |-> DeclaredChannel(F, layout[c], t)]]

\* What a block leaves to play and to remember, after n frames of F.
PlaysOn(frames, place, F, n, k) ==
  LET preserved == PlanesOf(frames)
      scratch   == [p \in DOMAIN graph.paths |-> PathBlock(graph.paths[p], memory[p], preserved)]
      copied    == Copied(PlanesOf(frames), preserved, place)
      written   == Written(copied, preserved, scratch, place)
  IN  /\ played \o FramesOf(written, place, frames) = PlayedOf(F, n + k)
      /\ \A p \in DOMAIN graph.paths : Remembers(p, scratch[p].memory, F, n + k)

\* A block is played as what follows what has been played.
LEMMA BlockPlays ==
  ASSUME Compiled, NEW F, heard \in Seq(Signals), NEW k \in Nat, NEW frames \in Frames(k),
         Continues(F, heard \o frames), NEW place \in Places,
         \A p \in DOMAIN graph.paths : Remembers(p, memory[p], F, Len(heard)),
         played = PlayedOf(F, Len(heard))
  PROVE  PlaysOn(frames, place, F, Len(heard), k)
<1>. DEFINE n == Len(heard)
            N == Len(F)
            preserved == PlanesOf(frames)
            scratch   == [p \in DOMAIN graph.paths |-> PathBlock(graph.paths[p], memory[p], preserved)]
            copied    == Copied(preserved, preserved, place)
            written   == Written(copied, preserved, scratch, place)
<1>1. n \in Nat /\ heard \in Frames(n)
  BY LenProperties DEF Frames
<1>2. N \in Nat /\ F \in Frames(N)
  BY LenProperties DEF Continues, Frames
<1>3. n + k =< N /\ \A t \in 1..k : F[n + t] = frames[t]
  <2>1. PICK more : more = heard \o frames
    OBVIOUS
  <2>2. more \in [1..n + k -> Signals] /\ \A t \in 1..k : more[n + t] = frames[t]
    <3>. HIDE DEF n
    <3>1. heard \in [1..n -> Signals] /\ frames \in [1..k -> Signals]
      BY <1>1 DEF Frames
    <3>2. heard \o frames \in [1..n + k -> Signals]
      BY <1>1, <3>1, ConcatIs
    <3>3. \A t \in 1..k : (heard \o frames)[n + t] = frames[t]
      BY <1>1, <3>1, ConcatIs
    <3>. QED  BY <2>1, <3>2, <3>3
  <2>3. Len(more) = n + k
    <3>. HIDE DEF n
    <3>. QED  BY <1>1, <2>2, FunctionIsSeq
  <2>4. Len(more) =< N /\ \A t \in 1..n + k : F[t] = more[t]
    BY <2>1, <2>3 DEF Continues
  <2>5. \A t \in 1..k : n + t \in 1..n + k
    BY <1>1
  <2>. HIDE DEF n, N
  <2>. QED  BY <2>2, <2>3, <2>4, <2>5
<1>. HIDE DEF n, N
<1>4. \A p \in 1..Len(state.paths) :
        PlaysBlock(p, scratch[p].block, F, n, k) /\ Remembers(p, scratch[p].memory, F, n + k)
  <2>. SUFFICES ASSUME NEW p \in 1..Len(state.paths)
                PROVE  PlaysBlock(p, scratch[p].block, F, n, k) /\ Remembers(p, scratch[p].memory, F, n + k)
    OBVIOUS
  <2>1. p \in DOMAIN graph.paths
    BY CompiledIs
  <2>2. scratch[p] = PathBlock(graph.paths[p], memory[p], preserved)
    BY <2>1
  <2>3. Remembers(p, memory[p], F, n)
    BY <2>1 DEF n
  <2>. HIDE DEF scratch
  <2>4. PlaysBlock(p, PathBlock(graph.paths[p], memory[p], PlanesOf(frames)).block, F, n, k)
    BY <1>1, <1>2, <1>3, <2>3, PathPlays
  <2>5. Remembers(p, PathBlock(graph.paths[p], memory[p], PlanesOf(frames)).memory, F, n + k)
    BY <1>1, <1>2, <1>3, <2>3, PathPlays
  <2>. QED  BY <2>2, <2>4, <2>5
<1>. HIDE DEF scratch
<1>5. ASSUME NEW t \in 1..k, NEW c \in Channels
      PROVE  written[place[c]][t] = DeclaredChannel(F, layout[c], n + t)
  <2>1. \A p \in 1..Len(state.paths) : PlaysBlock(p, scratch[p].block, F, n, k)
    BY <1>4
  <2>2. PlaysChannels(PlanesAfter(frames, scratch, place), place, F, n, k)
    BY <1>1, <1>2, <1>3, <2>1, ChannelsPlay
  <2>3. PlanesAfter(frames, scratch, place) = written
    BY DEF PlanesAfter
  <2>. QED  BY <2>2, <2>3 DEF PlaysChannels
<1>. HIDE DEF written
<1>6. FramesOf(written, place, frames) = [t \in 1..k |-> [c \in Channels |-> DeclaredChannel(F, layout[c], n + t)]]
  <2>1. DOMAIN frames = 1..k
    BY DEF Frames
  <2>. QED  BY <1>5, <2>1 DEF FramesOf
<1>7. played \o FramesOf(written, place, frames) = PlayedOf(F, n + k)
  <2>. DEFINE Row(t) == [c \in Channels |-> DeclaredChannel(F, layout[c], t)]
              T == {Row(t) : t \in 1..n + k}
  <2>1. PICK f : f = played
    OBVIOUS
  <2>2. PICK g : g = FramesOf(written, place, frames)
    OBVIOUS
  <2>3. f = [t \in 1..n |-> Row(t)] /\ g = [t \in 1..k |-> Row(n + t)]
    BY <1>6, <2>1, <2>2 DEF PlayedOf, n
  <2>. HIDE DEF Row
  <2>4. f \in [1..n -> T] /\ g \in [1..k -> T]
    <3>1. \A t \in 1..n : t \in 1..n + k
      BY <1>1
    <3>2. \A t \in 1..k : n + t \in 1..n + k
      BY <1>1
    <3>. QED  BY <2>3, <3>1, <3>2
  <2>. HIDE DEF T
  <2>5. PICK h : h = f \o g
    OBVIOUS
  <2>6. /\ h \in [1..n + k -> T] /\ \A t \in 1..n : h[t] = f[t]
        /\ \A t \in 1..k : h[n + t] = g[t]
    <3>1. f \o g \in [1..n + k -> T]
      BY <1>1, <2>4, ConcatIs
    <3>2. \A t \in 1..n : (f \o g)[t] = f[t]
      BY <1>1, <2>4, ConcatIs
    <3>3. \A t \in 1..k : (f \o g)[n + t] = g[t]
      BY <1>1, <2>4, ConcatIs
    <3>. QED  BY <2>5, <3>1, <3>2, <3>3
  <2>7. ASSUME NEW t \in 1..n + k PROVE h[t] = Row(t)
    <3>1. CASE t \in 1..n
      BY <2>3, <2>6, <3>1
    <3>2. CASE t \notin 1..n
      <4>1. t - n \in 1..k /\ n + (t - n) = t
        BY <1>1, <3>2
      <4>2. h[n + (t - n)] = g[t - n] /\ g[t - n] = Row(n + (t - n))
        BY <2>3, <2>6, <4>1
      <4>. QED  BY <4>1, <4>2
    <3>. QED  BY <3>1, <3>2
  <2>8. h = [t \in 1..n + k |-> Row(t)]
    BY <2>6, <2>7
  <2>. QED  BY <2>1, <2>2, <2>5, <2>8 DEF PlayedOf, Row
<1>8. \A p \in DOMAIN graph.paths : Remembers(p, scratch[p].memory, F, n + k)
  BY <1>4, CompiledIs
<1>. QED  BY <1>7, <1>8 DEF PlaysOn, n, written, scratch

-----------------------------------------------------------------------------
(* All that is played.                                                     *)

\* What a routing has played and what its memories hold, of every stream
\* that goes on from what was heard.
Playing ==
  /\ Compiled
  /\ DOMAIN memory = DOMAIN graph.paths
  /\ \A F : Continues(F, heard) =>
       /\ played = PlayedOf(F, Len(heard))
       /\ \A p \in DOMAIN graph.paths : Remembers(p, memory[p], F, Len(heard))

BlocksInv ==
  /\ state \in States /\ layout \in Layouts /\ rate \in Rates
  /\ phase \in {"fresh", "passthrough", "prepared"}
  /\ heard \in Seq(Signals)
  /\ phase = "fresh" => heard = <<>> /\ played = <<>>
  /\ phase = "passthrough" => played = heard
  /\ phase = "prepared" => Playing

\* A path whose memory is cleared remembers nothing, of any stream.
LEMMA ClearedRemembers ==
  Compiled => \A p \in DOMAIN graph.paths, F \in Seq(Signals) :
                Remembers(p, ClearedMemory(graph)[p], F, 0)
<1>. SUFFICES ASSUME Compiled, NEW p \in DOMAIN graph.paths, NEW F \in Seq(Signals)
              PROVE  Remembers(p, ClearedMemory(graph)[p], F, 0)
  OBVIOUS
<1>. DEFINE N == Len(F)
            stages == graph.paths[p].stages
            m == ClearedMemory(graph)[p]
<1>1. p \in 1..Len(state.paths) /\ N \in Nat /\ F \in Frames(N)
  BY CompiledIs, LenProperties DEF Frames
<1>2. stages \in Seq(Stages)
  <2>1. DeclaredMix(F, state.paths[p]) \in Streams(N)
    <3>. HIDE DEF N
    <3>. QED  BY <1>1, MixIs
  <2>. HIDE DEF N
  <2>. QED  BY <1>1, <2>1, PathMakes
<1>3. \A i \in 1..Len(stages) : m[i] = Cleared(stages[i])
  <2>1. DOMAIN stages = 1..Len(stages)
    BY <1>2, LenProperties
  <2>. QED  BY <2>1 DEF ClearedMemory
<1>4. ASSUME NEW S, Runs(stages, S, N) PROVE AllCarry(stages, m, S, 0)
  <2>. HIDE DEF stages, m, N
  <2>. QED  BY <1>1, <1>2, <1>3, <1>4, ClearedAllCarry
<1>. HIDE DEF m
<1>. QED  BY <1>4 DEF Remembers, m

LEMMA ClearedPlays ==
  Compiled /\ memory = ClearedMemory(graph) /\ heard = <<>> /\ played = <<>> => Playing
<1>. SUFFICES ASSUME Compiled, memory = ClearedMemory(graph), heard = <<>>, played = <<>>
              PROVE  Playing
  OBVIOUS
<1>1. DOMAIN memory = DOMAIN graph.paths
  BY DEF ClearedMemory
<1>2. Len(heard) = 0
  BY EmptySeq
<1>3. ASSUME NEW F, Continues(F, heard)
      PROVE  /\ played = PlayedOf(F, Len(heard))
             /\ \A p \in DOMAIN graph.paths : Remembers(p, memory[p], F, Len(heard))
  <2>1. PlayedOf(F, 0) = <<>>
    BY DEF PlayedOf
  <2>2. \A p \in DOMAIN graph.paths : Remembers(p, memory[p], F, 0)
    BY <1>3, ClearedRemembers DEF Continues
  <2>. QED  BY <1>2, <2>1, <2>2
<1>. QED  BY <1>1, <1>3 DEF Playing

\* What is declared stays declared.
LEMMA DeclaredStays ==
  ASSUME UNCHANGED <<state, layout, rate, graph>>
  PROVE  /\ \A F, n : PlayedOf(F, n)' = PlayedOf(F, n)
         /\ \A p, m, F, n : Remembers(p, m, F, n)' <=> Remembers(p, m, F, n)
         /\ Compiled' <=> Compiled
<1>1. state' = state /\ layout' = layout /\ rate' = rate /\ graph' = graph
  OBVIOUS
<1>2. Compiled' <=> Compiled
  BY <1>1 DEF Compiled
<1>3. ASSUME NEW F, NEW channel, NEW t PROVE Heard(F, channel, t)' = Heard(F, channel, t)
  BY <1>1 DEF Heard
<1>4. ASSUME NEW F, NEW path PROVE DeclaredMix(F, path)' = DeclaredMix(F, path)
  BY <1>1 DEF Heard, DeclaredMix
<1>5. ASSUME NEW F, NEW output, NEW t PROVE DeclaredOutput(F, output, t)' = DeclaredOutput(F, output, t)
  BY <1>1 DEF DeclaredOutput, Heard, DeclaredMix
<1>6. ASSUME NEW F, NEW channel, NEW t PROVE DeclaredChannel(F, channel, t)' = DeclaredChannel(F, channel, t)
  BY <1>1, <1>3, <1>5 DEF DeclaredChannel
<1>7. ASSUME NEW F, NEW n PROVE PlayedOf(F, n)' = PlayedOf(F, n)
  BY <1>1, <1>6 DEF PlayedOf, Channels
<1>8. ASSUME NEW p, NEW m, NEW F, NEW n PROVE Remembers(p, m, F, n)' <=> Remembers(p, m, F, n)
  BY <1>1, <1>4 DEF Remembers
<1>. QED  BY <1>2, <1>7, <1>8

\* Every step keeps the invariant.
LEMMA InitializeKeeps ==
  ASSUME BlocksInv, Initialize
  PROVE  BlocksInv'
<1>1. /\ state' = state /\ layout' = layout /\ rate' = rate /\ heard' = heard /\ played' = played
      /\ phase = "fresh" /\ heard = <<>> /\ played = <<>>
  BY DEF Initialize, BlocksInv
<1>2. PICK trim \in Trims(state) :
        LET compiled == Graph(state, layout, rate, trim)
        IN  /\ phase' = IF ~ValidOn(state, layout, rate)   THEN "passthrough"
                        ELSE IF ~Resolved(compiled)        THEN "threw"
                        ELSE IF ~Preparable(compiled)      THEN "passthrough" ELSE "prepared"
            /\ phase' = "prepared" => graph' = compiled /\ memory' = ClearedMemory(compiled)
  BY DEF Initialize
<1>. DEFINE compiled == Graph(state, layout, rate, trim)
<1>3. ValidOn(state, layout, rate) => Resolved(compiled)
  BY ValidResolves DEF BlocksInv
<1>. HIDE DEF compiled
<1>4. /\ phase' \in {"passthrough", "prepared"}
      /\ phase' = "prepared" => /\ ValidOn(state, layout, rate) /\ Preparable(compiled)
                                /\ graph' = compiled /\ memory' = ClearedMemory(compiled)
  BY <1>2, <1>3 DEF compiled
<1>5. ASSUME phase' = "prepared" PROVE Playing'
  <2>1. Compiled'
    BY <1>1, <1>4, <1>5 DEF Compiled, BlocksInv, compiled
  <2>2. memory' = ClearedMemory(graph')
    BY <1>4, <1>5
  <2>3. (Compiled /\ memory = ClearedMemory(graph) /\ heard = <<>> /\ played = <<>> => Playing)'
    BY ClearedPlays, PTL
  <2>. QED  BY <1>1, <2>1, <2>2, <2>3
<1>. QED  BY <1>1, <1>4, <1>5 DEF BlocksInv

LEMMA ProcessKeeps ==
  ASSUME BlocksInv, NEW frames \in Blocks, NEW place \in Places, Process(frames, place)
  PROVE  BlocksInv'
<1>. DEFINE preserved == PlanesOf(frames)
            scratch   == [p \in DOMAIN graph.paths |-> PathBlock(graph.paths[p], memory[p], preserved)]
            copied    == Copied(PlanesOf(frames), preserved, place)
            written   == Written(copied, preserved, scratch, place)
            n         == Len(heard)
<1>1. /\ phase = "prepared" /\ phase' = "prepared" /\ Playing /\ Compiled
      /\ UNCHANGED <<state, layout, rate, graph>>
      /\ heard \in Seq(Signals) /\ n \in Nat
  BY LenProperties DEF Process, BlocksInv, Playing
<1>2. PICK k \in Nat : frames \in Frames(k)
  BY DEF Blocks, Frames
<1>3. /\ memory' = [p \in DOMAIN memory |-> scratch[p].memory]
      /\ played' = played \o FramesOf(written, place, frames)
      /\ heard' = heard \o frames
  BY DEF Process
<1>4. /\ heard' \in Seq(Signals) /\ Len(heard') = n + k /\ \A t \in 1..n : heard'[t] = heard[t]
  <2>1. heard \in [1..n -> Signals] /\ frames \in [1..k -> Signals]
    BY <1>1, <1>2, LenProperties DEF Frames
  <2>2. PICK more : more = heard \o frames
    OBVIOUS
  <2>. HIDE DEF n
  <2>3. more \in [1..n + k -> Signals]
    BY <1>1, <2>1, <2>2, ConcatIs
  <2>4. \A t \in 1..n : more[t] = heard[t]
    BY <1>1, <2>1, <2>2, ConcatIs
  <2>5. more \in Seq(Signals) /\ Len(more) = n + k
    BY <1>1, <2>3, FunctionIsSeq
  <2>. QED  BY <1>3, <2>2, <2>4, <2>5
<1>5. ASSUME NEW F, Continues(F, heard')
      PROVE  /\ played' = PlayedOf(F, n + k)
             /\ \A p \in DOMAIN graph.paths : Remembers(p, memory'[p], F, n + k)
  <2>1. Continues(F, heard)
    <3>1. F \in Seq(Signals) /\ Len(F) \in Nat /\ n + k =< Len(F) /\ \A t \in 1..n + k : F[t] = heard'[t]
      BY <1>4, <1>5, LenProperties DEF Continues
    <3>2. \A t \in 1..n : t \in 1..n + k
      BY <1>1
    <3>. HIDE DEF n
    <3>3. n =< Len(F) /\ \A t \in 1..n : F[t] = heard[t]
      BY <1>1, <1>4, <3>1, <3>2
    <3>. QED  BY <1>1, <3>1, <3>3 DEF Continues, n
  <2>2. Continues(F, heard \o frames)
    BY <1>3, <1>5
  <2>3. /\ played = PlayedOf(F, n)
        /\ \A p \in DOMAIN graph.paths : Remembers(p, memory[p], F, n)
    BY <1>1, <2>1 DEF Playing
  <2>. HIDE DEF n
  <2>4. PlaysOn(frames, place, F, n, k)
    BY <1>1, <1>2, <2>2, <2>3, BlockPlays DEF n
  <2>5. played \o FramesOf(written, place, frames) = PlayedOf(F, n + k)
    BY <2>4 DEF PlaysOn
  <2>6. \A p \in DOMAIN graph.paths : Remembers(p, scratch[p].memory, F, n + k)
    BY <2>4 DEF PlaysOn
  <2>7. DOMAIN memory = DOMAIN graph.paths
    BY <1>1 DEF Playing
  <2>. HIDE DEF scratch, written
  <2>. QED  BY <1>3, <2>5, <2>6, <2>7
<1>6. DOMAIN memory' = DOMAIN graph.paths
  BY <1>1, <1>3 DEF Playing
<1>. HIDE DEF scratch, written, n
<1>7. ASSUME NEW F, Continues(F, heard')
      PROVE  /\ (played = PlayedOf(F, Len(heard)))'
             /\ (\A p \in DOMAIN graph.paths : Remembers(p, memory[p], F, Len(heard)))'
  <2>1. PlayedOf(F, Len(heard))' = PlayedOf(F, Len(heard'))
    BY <1>1, DeclaredStays
  <2>2. ASSUME NEW p \in DOMAIN graph.paths PROVE Remembers(p, memory[p], F, Len(heard))'
    <3>1. Remembers(p, memory'[p], F, Len(heard'))
      BY <1>4, <1>5, <1>7
    <3>. QED  BY <1>1, <3>1, DeclaredStays
  <2>3. played' = PlayedOf(F, Len(heard'))
    BY <1>4, <1>5, <1>7
  <2>. QED  BY <1>1, <2>1, <2>2, <2>3
<1>8. Playing'
  <2>1. Compiled'
    BY <1>1, DeclaredStays
  <2>2. \A F : Continues(F, heard)' <=> Continues(F, heard')
    BY DEF Continues
  <2>. QED  BY <1>1, <1>6, <1>7, <2>1, <2>2 DEF Playing
<1>. QED  BY <1>1, <1>4, <1>8 DEF BlocksInv


LEMMA PassThroughKeeps ==
  ASSUME BlocksInv, NEW frames \in Blocks, PassThrough(frames)
  PROVE  BlocksInv'
<1>1. /\ phase = "passthrough" /\ phase' = "passthrough" /\ played = heard
      /\ state' = state /\ layout' = layout /\ rate' = rate
      /\ heard' = heard \o frames /\ played' = played \o frames
  BY DEF PassThrough, BlocksInv
<1>2. heard \o frames \in Seq(Signals)
  <2>1. PICK k \in Nat : frames \in [1..k -> Signals]
    BY DEF Blocks
  <2>2. frames \in Seq(Signals)
    BY <2>1, FunctionIsSeq
  <2>. QED  BY <2>2, ConcatProperties DEF BlocksInv
<1>3. heard' \in Seq(Signals) /\ played' = heard'
  BY <1>1, <1>2
<1>. QED  BY <1>1, <1>3 DEF BlocksInv

LEMMA ResetKeeps ==
  ASSUME BlocksInv, Reset
  PROVE  BlocksInv'
<1>1. /\ phase = "prepared" /\ phase' = "prepared" /\ Compiled
      /\ UNCHANGED <<state, layout, rate, graph>>
      /\ memory' = ClearedMemory(graph) /\ heard' = <<>> /\ played' = <<>>
  BY DEF Reset, BlocksInv, Playing
<1>2. Compiled'
  BY <1>1, DeclaredStays
<1>3. (Compiled /\ memory = ClearedMemory(graph) /\ heard = <<>> /\ played = <<>> => Playing)'
  BY ClearedPlays, PTL
<1>4. ClearedMemory(graph)' = ClearedMemory(graph)
  BY <1>1 DEF ClearedMemory
<1>5. Playing'
  BY <1>1, <1>2, <1>3, <1>4
<1>6. heard' \in Seq(Signals)
  BY <1>1, EmptySeq
<1>. QED  BY <1>1, <1>5, <1>6 DEF BlocksInv

LEMMA StutterKeeps ==
  ASSUME BlocksInv, UNCHANGED vars
  PROVE  BlocksInv'
<1>1. UNCHANGED <<state, layout, rate, phase, graph, memory, heard, played>>
  BY DEF vars
<1>2. Playing => Playing'
  <2>1. ASSUME NEW F PROVE PlayedOf(F, Len(heard))' = PlayedOf(F, Len(heard))
    BY <1>1, DeclaredStays
  <2>2. ASSUME NEW F, NEW p
        PROVE  Remembers(p, memory[p], F, Len(heard))' <=> Remembers(p, memory[p], F, Len(heard))
    BY <1>1, DeclaredStays
  <2>3. \A F : Continues(F, heard)' <=> Continues(F, heard)
    BY <1>1 DEF Continues
  <2>4. Compiled' <=> Compiled
    BY <1>1, DeclaredStays
  <2>. QED  BY <1>1, <2>1, <2>2, <2>3, <2>4 DEF Playing
<1>. QED  BY <1>1, <1>2 DEF BlocksInv

(* Whatever the states, the devices and the rates, and however a stream is *)
(* cut into blocks: what Processor::process has played since preparation   *)
(* or reset is what the state declares of everything that was heard, and a *)
(* refused routing passes it through (Compiler.cpp, Processor.cpp).        *)
THEOREM BlocksPlayAsDeclared == Spec => []BlocksAsDeclared
<1>1. Init => BlocksInv
  <2>. SUFFICES ASSUME Init PROVE BlocksInv
    OBVIOUS
  <2>1. heard \in Seq(Signals)
    BY EmptySeq DEF Init
  <2>. QED  BY <2>1 DEF Init, BlocksInv
<1>2. BlocksInv /\ [Next]_vars => BlocksInv'
  <2>. SUFFICES ASSUME BlocksInv, [Next]_vars PROVE BlocksInv'
    OBVIOUS
  <2>1. CASE Initialize
    BY <2>1, InitializeKeeps
  <2>2. ASSUME NEW frames \in Blocks, NEW place \in Places, Process(frames, place) PROVE BlocksInv'
    BY <2>2, ProcessKeeps
  <2>3. ASSUME NEW frames \in Blocks, PassThrough(frames) PROVE BlocksInv'
    BY <2>3, PassThroughKeeps
  <2>4. CASE Reset
    BY <2>4, ResetKeeps
  <2>5. CASE UNCHANGED vars
    BY <2>5, StutterKeeps
  <2>. QED  BY <2>1, <2>2, <2>3, <2>4, <2>5 DEF Next
<1>3. BlocksInv => BlocksAsDeclared
  <2>. SUFFICES ASSUME BlocksInv PROVE BlocksAsDeclared
    OBVIOUS
  <2>1. CASE phase = "prepared"
    <3>1. Continues(heard, heard)
      BY LenProperties DEF Continues, BlocksInv
    <3>2. played = PlayedOf(heard, Len(heard))
      BY <2>1, <3>1 DEF BlocksInv, Playing
    <3>3. DOMAIN heard = 1..Len(heard)
      BY LenProperties DEF BlocksInv
    <3>. QED  BY <2>1, <3>2, <3>3 DEF BlocksAsDeclared, PlayedOf
  <2>2. CASE phase # "prepared"
    <3>1. played = heard
      BY <2>2 DEF BlocksInv
    <3>. QED  BY <2>2, <3>1 DEF BlocksAsDeclared
  <2>. QED  BY <2>1, <2>2
<1>. QED  BY <1>1, <1>2, <1>3, PTL DEF Spec
=============================================================================
