---------------------------- MODULE ConfigLanguage_proofs ----------------------------
(***************************************************************************)
(* What reading a configuration and running it promise, for every set of   *)
(* channels and filters, every length of a configuration and every nesting *)
(* of files and If blocks.                                                 *)
(*                                                                         *)
(* First the filter graph by itself, whatever lines it is built from       *)
(* (GraphSpec): a filter reads and writes the buffers of its own channels, *)
(* by the pointers the filter before has left too, and what comes out of a *)
(* block is what the lines of the configuration say of the channels        *)
(* (ChannelFlow). Then the text: the two counters and the flag of          *)
(* IfFilterFactory decide for each line what the nesting of the blocks     *)
(* around it says, an included file leaves no trace but its filters, and   *)
(* the filters that come of the lines do what the lines say.               *)
(*                                                                         *)
(* The first is about configurations whose included files no exception     *)
(* leaves (NoThrow): the run ConfigLanguage_thrown shows what such a file  *)
(* leaves behind. For the counters every included file also closes the If  *)
(* blocks it opens (ClosedFiles): the configuration                        *)
(* ConfigLanguage_unclosed shows what becomes of one that does not.        *)
(***************************************************************************)
EXTENDS ConfigLanguage, SequenceTheorems, FiniteSetTheorems, WellFoundedInduction, TLAPS

-----------------------------------------------------------------------------
(* Induction over the natural numbers, for sets instead of predicates.     *)

\* A set of numbers has a least one.
LEMMA LeastNumber ==
  ASSUME NEW T, T \subseteq Nat, T # {}
  PROVE  \E m \in T : \A k \in T : m <= k
<1>1. IsWellFoundedOn(OpToRel(<, Nat), Nat)
  BY NatLessThanWellFounded
<1>2. PICK m \in T : \A k \in T : ~ (<<k, m>> \in OpToRel(<, Nat))
  BY <1>1, WFMin
<1>3. \A k \in T : k < m => <<k, m>> \in OpToRel(<, Nat)
  BY DEF OpToRel
<1>4. \A k \in T : ~(k < m)
  BY <1>2, <1>3
<1>. QED  BY <1>4

\* What 0 is in, and the successor of what is in, holds all numbers to n.
LEMMA InductionUpTo ==
  ASSUME NEW S, NEW n \in Nat, 0 \in S, \A k \in 0 .. n - 1 : k \in S => k + 1 \in S
  PROVE  0 .. n \subseteq S
<1>. SUFFICES ASSUME NEW x \in 0 .. n, x \notin S PROVE FALSE
  OBVIOUS
<1>. DEFINE T == {k \in 0 .. n : k \notin S}
<1>1. T \subseteq Nat /\ T # {}
  OBVIOUS
<1>2. PICK m \in T : \A k \in T : m <= k
  BY <1>1, LeastNumber
<1>3. m # 0 /\ m - 1 \in 0 .. n - 1 /\ m - 1 \notin T
  BY <1>2
<1>. QED  BY <1>3

-----------------------------------------------------------------------------
(* The names that are kept.                                                *)

\* What has been kept after each of the first m names.
KeptSoFar(kept, names, set, m) ==
  kept = [i \in 0 .. m |->
            IF i = 0 THEN <<>>
            ELSE IF names[i] \in set THEN Append(kept[i - 1], names[i])
            ELSE kept[i - 1]]

\* The recursive function of Kept exists.
LEMMA KeptExists ==
  ASSUME NEW names, Len(names) \in Nat, NEW set
  PROVE  \E kept : KeptSoFar(kept, names, set, Len(names))
<1>. DEFINE S == {m \in Nat : \E kept : KeptSoFar(kept, names, set, m)}
<1>1. 0 \in S
  <2>1. KeptSoFar([i \in 0 .. 0 |-> <<>>], names, set, 0)
    BY DEF KeptSoFar
  <2>. QED  BY <2>1
<1>2. ASSUME NEW m \in 0 .. Len(names) - 1, m \in S PROVE m + 1 \in S
  <2>1. PICK kept : KeptSoFar(kept, names, set, m)
    BY <1>2
  <2>. DEFINE more == [i \in 0 .. m + 1 |->
                 IF i <= m THEN kept[i]
                 ELSE IF names[i] \in set THEN Append(kept[i - 1], names[i]) ELSE kept[i - 1]]
  <2>2. \A i \in 0 .. m : more[i] = kept[i]
    OBVIOUS
  <2>3. ASSUME NEW i \in 0 .. m + 1
        PROVE  more[i] = IF i = 0 THEN <<>>
                         ELSE IF names[i] \in set THEN Append(more[i - 1], names[i])
                         ELSE more[i - 1]
    <3>1. CASE i <= m
      <4>1. kept[i] = IF i = 0 THEN <<>>
                      ELSE IF names[i] \in set THEN Append(kept[i - 1], names[i])
                      ELSE kept[i - 1]
        <5>1. i \in 0 .. m
          BY <3>1
        <5>. QED  BY <2>1, <5>1 DEF KeptSoFar
      <4>2. more[i] = kept[i] /\ (i # 0 => more[i - 1] = kept[i - 1])
        BY <2>2, <3>1
      <4>. QED  BY <4>1, <4>2
    <3>2. CASE i = m + 1
      BY <2>2, <3>2
    <3>. QED  BY <3>1, <3>2
  <2>4. KeptSoFar(more, names, set, m + 1)
    BY <2>3 DEF KeptSoFar
  <2>. QED  BY <2>4
<1>3. 0 .. Len(names) \subseteq S
  <2>. HIDE DEF S
  <2>. QED  BY <1>1, <1>2, InductionUpTo
<1>. QED  BY <1>3

\* Kept is the last value of that function.
LEMMA KeptFunction ==
  ASSUME NEW names, Len(names) \in Nat, NEW set
  PROVE  \E kept : KeptSoFar(kept, names, set, Len(names)) /\ Kept(names, set) = kept[Len(names)]
<1>. DEFINE kept == CHOOSE kept : KeptSoFar(kept, names, set, Len(names))
<1>1. KeptSoFar(kept, names, set, Len(names))
  BY KeptExists
<1>2. Kept(names, set) = kept[Len(names)]
  BY DEF Kept, KeptSoFar
<1>. QED  BY <1>1, <1>2

\* Names without a repetition.
Distinct(names) == \A i, j \in 1 .. Len(names) : names[i] = names[j] => i = j

\* A function on 1 .. n is a sequence of length n.
LEMMA OfLength ==
  ASSUME NEW n \in Nat, NEW N, NEW names \in [1 .. n -> N]
  PROVE  names \in Seq(N) /\ Len(names) = n
<1>1. names \in Seq(N)
  BY IsASeq
<1>2. DOMAIN names = 1 .. Len(names) /\ Len(names) \in Nat
  BY <1>1, LenProperties
<1>3. 1 .. Len(names) = 1 .. n
  BY <1>2
<1>4. Len(names) = n
  BY <1>2, <1>3
<1>. QED  BY <1>1, <1>4

\* What a sequence holds, what the empty one and a longer one do.
LEMMA RangeIs ==
  ASSUME NEW N, NEW names \in Seq(N)
  PROVE  /\ Range(names) \subseteq N
         /\ \A i \in 1 .. Len(names) : names[i] \in Range(names)
         /\ \A name \in Range(names) : \E i \in 1 .. Len(names) : names[i] = name
<1>1. DOMAIN names = 1 .. Len(names) /\ \A i \in 1 .. Len(names) : names[i] \in N
  BY LenProperties, ElementOfSeq
<1>. QED  BY <1>1 DEF Range

\* No names.
LEMMA EmptyNames ==
  ASSUME NEW N
  PROVE  <<>> \in Seq(N) /\ Len(<<>>) = 0 /\ Distinct(<<>>) /\ Range(<<>>) = {}
<1>1. <<>> \in Seq(N) /\ Len(<<>>) = 0
  OBVIOUS
<1>2. ASSUME NEW name \in Range(<<>>) PROVE FALSE
  <2>1. PICK i \in 1 .. Len(<<>>) : <<>>[i] = name
    BY <1>1, RangeIs
  <2>. QED  BY <1>1, <2>1
<1>. QED  BY <1>1, <1>2 DEF Distinct

\* One name more.
LEMMA AppendedRange ==
  ASSUME NEW N, NEW names \in Seq(N), NEW name \in N
  PROVE  Range(Append(names, name)) = Range(names) \cup {name}
<1>. DEFINE longer == Append(names, name)
<1>1. /\ longer \in Seq(N) /\ Len(longer) = Len(names) + 1 /\ Len(names) \in Nat
      /\ \A i \in 1 .. Len(names) : longer[i] = names[i]
      /\ longer[Len(names) + 1] = name
  BY AppendProperties, LenProperties
<1>. HIDE DEF longer
<1>2. ASSUME NEW x \in Range(longer) PROVE x \in Range(names) \cup {name}
  <2>1. PICK i \in 1 .. Len(names) + 1 : longer[i] = x
    BY <1>1, RangeIs
  <2>2. CASE i = Len(names) + 1
    BY <1>1, <2>1, <2>2
  <2>3. CASE i \in 1 .. Len(names)
    BY <1>1, <2>1, <2>3, RangeIs
  <2>. QED  BY <1>1, <2>2, <2>3
<1>3. ASSUME NEW x \in Range(names) PROVE x \in Range(longer)
  <2>1. PICK i \in 1 .. Len(names) : names[i] = x
    BY RangeIs
  <2>2. i \in 1 .. Len(longer) /\ longer[i] = x
    BY <1>1, <2>1
  <2>. QED  BY <1>1, <2>2, RangeIs
<1>4. name \in Range(longer)
  <2>1. Len(names) + 1 \in 1 .. Len(longer)
    BY <1>1
  <2>. QED  BY <1>1, <2>1, RangeIs
<1>5. Range(longer) = Range(names) \cup {name}
  BY <1>2, <1>3, <1>4
<1>. QED  BY <1>5 DEF longer

\* What is kept are the names that are in the set, once each when the names
\* were given once each.
LEMMA KeptNames ==
  ASSUME NEW N, NEW names \in Seq(N), Distinct(names), NEW set
  PROVE  /\ Kept(names, set) \in Seq(N)
         /\ Distinct(Kept(names, set))
         /\ Range(Kept(names, set)) = Range(names) \cap set
<1>. DEFINE n == Len(names)
            Upto(m) == {names[i] : i \in 1 .. m} \cap set
<1>0. n \in Nat
  BY LenProperties
<1>1. PICK kept : KeptSoFar(kept, names, set, n) /\ Kept(names, set) = kept[n]
  BY <1>0, KeptFunction
<1>. DEFINE S == {m \in 0 .. n : /\ kept[m] \in Seq(N)
                                 /\ Distinct(kept[m])
                                 /\ Range(kept[m]) = Upto(m)}
<1>2. 0 \in S
  <2>1. kept[0] = <<>>
    BY <1>0, <1>1 DEF KeptSoFar
  <2>2. Upto(0) = {}
    OBVIOUS
  <2>3. <<>> \in Seq(N) /\ Len(<<>>) = 0 /\ Range(<<>>) = {} /\ Distinct(<<>>)
    BY EmptyNames
  <2>4. kept[0] \in Seq(N) /\ Distinct(kept[0]) /\ Range(kept[0]) = Upto(0)
    BY <2>1, <2>2, <2>3
  <2>. QED  BY <1>0, <2>4
<1>3. ASSUME NEW m \in 0 .. n - 1, m \in S PROVE m + 1 \in S
  <2>1. /\ kept[m + 1] = IF names[m + 1] \in set THEN Append(kept[m], names[m + 1]) ELSE kept[m]
        /\ names[m + 1] \in N
    <3>1. m + 1 \in 0 .. n /\ m + 1 \in 1 .. n /\ m + 1 # 0 /\ (m + 1) - 1 = m
      BY <1>0
    <3>2. names[m + 1] \in N
      BY <3>1, ElementOfSeq
    <3>. QED  BY <1>1, <3>1, <3>2 DEF KeptSoFar
  <2>2. /\ kept[m] \in Seq(N) /\ Distinct(kept[m]) /\ Range(kept[m]) = Upto(m)
    BY <1>3
  <2>3. Upto(m + 1) = Upto(m) \cup ({names[m + 1]} \cap set)
    <3>1. 1 .. m + 1 = (1 .. m) \cup {m + 1}
      OBVIOUS
    <3>. QED  BY <3>1
  <2>4. names[m + 1] \notin Upto(m)
    BY <1>0 DEF Distinct
  <2>5. CASE names[m + 1] \in set
    <3>. DEFINE longer == Append(kept[m], names[m + 1])
    <3>1. /\ longer \in Seq(N) /\ Len(longer) = Len(kept[m]) + 1
          /\ \A i \in 1 .. Len(kept[m]) : longer[i] = kept[m][i]
          /\ longer[Len(kept[m]) + 1] = names[m + 1]
      BY <2>1, <2>2, AppendProperties
    <3>2. \A i \in 1 .. Len(kept[m]) : kept[m][i] \in Upto(m)
      BY <2>2, RangeIs
    <3>3. Range(longer) = Range(kept[m]) \cup {names[m + 1]}
      BY <2>1, <2>2, AppendedRange
    <3>4. kept[m + 1] = longer
      BY <2>1, <2>5
    <3>5. Len(kept[m]) \in Nat
      BY <2>2, LenProperties
    <3>. HIDE DEF longer
    <3>6. Distinct(longer)
      <4>. SUFFICES ASSUME NEW i \in 1 .. Len(longer), NEW j \in 1 .. Len(longer),
                           longer[i] = longer[j], i < j
           PROVE  FALSE
        BY <3>1, <3>5 DEF Distinct
      <4>1. i \in 1 .. Len(kept[m]) /\ longer[i] = kept[m][i]
        BY <3>1, <3>5
      <4>2. CASE j \in 1 .. Len(kept[m])
        <5>1. kept[m][i] = kept[m][j]
          BY <3>1, <4>1, <4>2
        <5>2. \A k, l \in 1 .. Len(kept[m]) : kept[m][k] = kept[m][l] => k = l
          BY <2>2 DEF Distinct
        <5>3. i = j
          BY <4>1, <4>2, <5>1, <5>2
        <5>. QED  BY <5>3
      <4>3. CASE j = Len(kept[m]) + 1
        BY <2>4, <3>1, <3>2, <4>1, <4>3
      <4>. QED  BY <3>1, <3>5, <4>2, <4>3
    <3>7. Range(longer) = Upto(m + 1)
      BY <2>2, <2>3, <2>5, <3>3
    <3>. QED  BY <1>0, <3>1, <3>4, <3>6, <3>7
  <2>6. CASE names[m + 1] \notin set
    BY <2>1, <2>2, <2>3, <2>6
  <2>. QED  BY <2>5, <2>6
<1>4. n \in S
  <2>. HIDE DEF S
  <2>1. 0 .. n \subseteq S
    BY <1>0, <1>2, <1>3, InductionUpTo
  <2>. QED  BY <1>0, <2>1
<1>5. Upto(n) = Range(names) \cap set
  BY <1>0 DEF Range
<1>. QED  BY <1>1, <1>4, <1>5

-----------------------------------------------------------------------------
(* Names and their positions.                                              *)

\* The names a channel can have in any configuration.
Names ==
  Range(Channels) \cup
  UNION {Range(Targets(f)) : f \in {g \in Filters : g.kind = "copy"}}

\* New names follow the old ones, and every name is there once.
LEMMA ExtendNames ==
  ASSUME NEW N, NEW all \in Seq(N), NEW names \in Seq(N), Distinct(all), Distinct(names)
  PROVE  /\ Extend(all, names) \in Seq(N)
         /\ Distinct(Extend(all, names))
         /\ Range(Extend(all, names)) = Range(all) \cup Range(names)
         /\ Len(all) <= Len(Extend(all, names))
         /\ \A i \in 1 .. Len(all) : Extend(all, names)[i] = all[i]
<1>. DEFINE new == Kept(names, Range(names) \ Range(all))
            longer == all \o new
<1>1. /\ new \in Seq(N) /\ Distinct(new)
      /\ Range(new) = Range(names) \cap (Range(names) \ Range(all))
  BY KeptNames
<1>. HIDE DEF new
<1>2. Extend(all, names) = longer
  BY DEF Extend, new
<1>3. /\ longer \in Seq(N) /\ Len(longer) = Len(all) + Len(new)
      /\ Len(all) \in Nat /\ Len(new) \in Nat
      /\ \A i \in 1 .. Len(longer) :
           longer[i] = IF i <= Len(all) THEN all[i] ELSE new[i - Len(all)]
  BY <1>1, ConcatProperties, LenProperties
<1>4. Range(longer) = Range(all) \cup Range(new)
  BY <1>1, RangeConcatenation
<1>. HIDE DEF longer
<1>5. Distinct(longer)
  <2>. SUFFICES ASSUME NEW i \in 1 .. Len(longer), NEW j \in 1 .. Len(longer),
                       longer[i] = longer[j], i < j
       PROVE  FALSE
    BY <1>3 DEF Distinct
  <2>1. CASE j <= Len(all)
    <3>1. all[i] = all[j] /\ i \in 1 .. Len(all) /\ j \in 1 .. Len(all)
      BY <1>3, <2>1
    <3>. QED  BY <3>1 DEF Distinct
  <2>2. CASE i > Len(all)
    <3>. DEFINE k == i - Len(all)  l == j - Len(all)
    <3>1. new[k] = new[l] /\ k \in 1 .. Len(new) /\ l \in 1 .. Len(new) /\ k # l
      BY <1>3, <2>2
    <3>. HIDE DEF k, l
    <3>. QED  BY <1>1, <3>1 DEF Distinct
  <2>3. CASE i <= Len(all) /\ j > Len(all)
    <3>. DEFINE l == j - Len(all)
    <3>1. all[i] = new[l] /\ i \in 1 .. Len(all) /\ l \in 1 .. Len(new)
      BY <1>3, <2>3
    <3>. HIDE DEF l
    <3>2. all[i] \in Range(all) /\ new[l] \in Range(new)
      BY <1>1, <3>1, RangeIs
    <3>. QED  BY <1>1, <3>1, <3>2
  <2>. QED  BY <1>3, <2>1, <2>2, <2>3
<1>. QED  BY <1>1, <1>2, <1>3, <1>4, <1>5

\* Names that are there already are not added.
LEMMA NothingToAdd ==
  ASSUME NEW N, NEW all \in Seq(N), NEW names \in Seq(N), Distinct(names),
         Range(names) \subseteq Range(all)
  PROVE  Extend(all, names) = all
<1>. DEFINE new == Kept(names, Range(names) \ Range(all))
<1>1. new \in Seq(N) /\ Range(new) = {}
  BY KeptNames
<1>. HIDE DEF new
<1>2. new = <<>>
  <2>1. ~ (1 \in 1 .. Len(new))
    BY <1>1, RangeIs
  <2>2. Len(new) \in Nat
    BY <1>1, LenProperties
  <2>3. Len(new) = 0
    BY <2>1, <2>2
  <2>. QED  BY <1>1, <2>3, EmptySeq
<1>3. Extend(all, names) = all \o new
  BY DEF Extend, new
<1>. QED  BY <1>2, <1>3, ConcatEmptySeq

\* Where a name is.
LEMMA PositionIs ==
  ASSUME NEW N, NEW names \in Seq(N), Distinct(names), NEW name \in Range(names)
  PROVE  /\ Position(names, name) \in 1 .. Len(names)
         /\ names[Position(names, name)] = name
         /\ \A i \in 1 .. Len(names) : names[i] = name => i = Position(names, name)
<1>1. \E i \in 1 .. Len(names) : names[i] = name
  BY RangeIs
<1>2. Position(names, name) \in 1 .. Len(names) /\ names[Position(names, name)] = name
  BY <1>1 DEF Position
<1>. QED  BY <1>2 DEF Distinct

\* New names leave the old ones where they are.
LEMMA PositionStays ==
  ASSUME NEW N, NEW all \in Seq(N), NEW names \in Seq(N), Distinct(all), Distinct(names),
         NEW name \in Range(all)
  PROVE  Position(Extend(all, names), name) = Position(all, name)
<1>. DEFINE longer == Extend(all, names)  p == Position(all, name)
<1>1. /\ longer \in Seq(N) /\ Distinct(longer) /\ Range(all) \subseteq Range(longer)
      /\ Len(all) <= Len(longer) /\ Len(all) \in Nat /\ Len(longer) \in Nat
      /\ \A i \in 1 .. Len(all) : longer[i] = all[i]
  BY ExtendNames, LenProperties
<1>2. p \in 1 .. Len(all) /\ all[p] = name
  BY PositionIs
<1>. HIDE DEF longer, p
<1>3. p \in 1 .. Len(longer) /\ longer[p] = name /\ name \in Range(longer)
  BY <1>1, <1>2
<1>4. p = Position(longer, name)
  BY <1>1, <1>3, PositionIs
<1>. QED  BY <1>4 DEF longer, p

\* The positions of names.
LEMMA PositionsAre ==
  ASSUME NEW N, NEW all \in Seq(N), Distinct(all), NEW names \in Seq(N),
         Range(names) \subseteq Range(all)
  PROVE  /\ Positions(all, names) \in Seq(1 .. Len(all))
         /\ Len(Positions(all, names)) = Len(names)
         /\ \A j \in 1 .. Len(names) :
              /\ Positions(all, names)[j] = Position(all, names[j])
              /\ Position(all, names[j]) \in 1 .. Len(all)
              /\ all[Position(all, names[j])] = names[j]
<1>. DEFINE n == Len(names)  positions == Positions(all, names)
<1>1. \A j \in 1 .. n : names[j] \in Range(all)
  BY RangeIs
<1>2. \A j \in 1 .. n :
        /\ Position(all, names[j]) \in 1 .. Len(all)
        /\ all[Position(all, names[j])] = names[j]
  BY <1>1, PositionIs
<1>3. positions = [j \in 1 .. n |-> Position(all, names[j])]
  BY DEF Positions
<1>4. positions \in [1 .. n -> 1 .. Len(all)]
  BY <1>2, <1>3
<1>5. n \in Nat
  BY LenProperties
<1>6. positions \in Seq(1 .. Len(all)) /\ Len(positions) = n
  <2>. HIDE DEF positions, n
  <2>. QED  BY <1>4, <1>5, OfLength
<1>. QED  BY <1>2, <1>3, <1>6

\* Distinct names of a configuration are no more than it has.
LEMMA NoMoreNames ==
  ASSUME NEW N, NEW all \in Seq(N), NEW names \in Seq(N), Distinct(all), Distinct(names),
         Range(names) \subseteq Range(all)
  PROVE  Len(names) <= Len(all)
<1>. DEFINE S == 1 .. Len(names)
            T == 1 .. Len(all)
            f == [i \in S |-> Position(all, names[i])]
<1>1. Len(names) \in Nat /\ Len(all) \in Nat
  BY LenProperties
<1>2. \A i \in S : names[i] \in Range(all) /\ f[i] \in T /\ all[f[i]] = names[i]
  BY RangeIs, PositionIs
<1>3. f \in Injection(S, T)
  <2>1. f \in [S -> T]
    BY <1>2
  <2>2. \A i, j \in S : f[i] = f[j] => i = j
    BY <1>2 DEF Distinct
  <2>. QED  BY <2>1, <2>2 DEF Injection, IsInjective
<1>4. /\ IsFiniteSet(T) /\ Cardinality(T) = Len(all)
      /\ IsFiniteSet(S) /\ Cardinality(S) = Len(names)
  <2>1. ASSUME NEW n \in Nat PROVE IsFiniteSet(1 .. n) /\ Cardinality(1 .. n) = n
    <3>1. IsFiniteSet(1 .. n) /\ Cardinality(1 .. n) = IF 1 > n THEN 0 ELSE n - 1 + 1
      BY FS_Interval
    <3>. QED  BY <3>1
  <2>. QED  BY <1>1, <2>1
<1>. HIDE DEF S, T, f
<1>5. Cardinality(S) <= Cardinality(T)
  BY <1>3, <1>4, FS_Injection
<1>. QED  BY <1>4, <1>5

-----------------------------------------------------------------------------
(* What a load builds.                                                     *)

\* An exception never leaves a file that another one includes.
NoThrow == IncludedThrows = FALSE

\* A list of names a filter may be given: each once, all of them known.
KnownIn(all, names) ==
  names \in Seq(Names) /\ Distinct(names) /\ Range(names) \subseteq Range(all)

Known(names) == KnownIn(allNames, names)

\* The names a filter publishes.
OutOf(info) == initialize(info.filter, info.given)

\* The names whose pointers the filters before position k have left.
Before(k) ==
  IF k = 1 THEN <<>>
  ELSE IF getInPlace(infos[k - 1].filter) THEN infos[k - 1].given ELSE OutOf(infos[k - 1])

\* The names whose pointers they have left for the output.
BeforeNew(k) ==
  IF k = 1 THEN <<>>
  ELSE IF getInPlace(infos[k - 1].filter) THEN OutOf(infos[k - 1]) ELSE infos[k - 1].given

\* Every name is there once, and every selection is of names that are.
NamesInv ==
  /\ allNames \in Seq(Names) /\ Distinct(allNames)
  /\ Known(current)
  /\ \A i \in 1 .. Len(saved) : Known(saved[i])

\* Every filter is given names that are there, and publishes such names.
InfosInv ==
  \A k \in 1 .. Len(infos) :
    /\ infos[k].filter \in Filters
    /\ Known(infos[k].given)
    /\ Known(OutOf(infos[k]))

\* What addFilters remembers of the filter before.
MemoryInv ==
  /\ last = Before(Len(infos) + 1)
  /\ lastNew = BeforeNew(Len(infos) + 1)
  /\ infos # <<>> => lastInPlace = getInPlace(infos[Len(infos)].filter)

\* A filter has the positions of its channels, or the filter before has
\* left the pointers to them.
LinksInv ==
  \A k \in 1 .. Len(infos) :
    /\ \/ infos[k].inChannels = Positions(allNames, infos[k].given)
       \/ infos[k].inChannels = <<>> /\ Before(k) = infos[k].given
    /\ \/ infos[k].outChannels = Positions(allNames, OutOf(infos[k]))
       \/ /\ infos[k].outChannels = <<>> /\ BeforeNew(k) = OutOf(infos[k])
          /\ k > 1 /\ getInPlace(infos[k].filter) /\ getInPlace(infos[k - 1].filter)

Infos == [filter : Filters, given : Seq(Names), inChannels : Seq(Nat), outChannels : Seq(Nat)]

LoadTypeOK ==
  /\ infos \in Seq(Infos)
  /\ saved \in Seq(Seq(Names)) /\ saved # <<>>
  /\ phase \in {"loading", "idle", "running", "failed"}

LoadInv == LoadTypeOK /\ NamesInv /\ InfosInv /\ MemoryInv /\ LinksInv

\* A filter publishes known names once it has added the new ones.
LEMMA InitializeNames ==
  ASSUME NEW f \in Filters, NEW names \in Seq(Names), Distinct(names)
  PROVE  /\ initialize(f, names) \in Seq(Names) /\ Distinct(initialize(f, names))
         /\ getSelectChannels(f) => Range(initialize(f, names)) \subseteq Range(names)
<1>1. CASE f.kind = "select"
  <2>1. initialize(f, names) = Kept(names, f.words)
    BY <1>1 DEF initialize
  <2>. QED  BY <2>1, KeptNames
<1>2. CASE f.kind = "copy"
  <2>. DEFINE targets == Targets(f)
  <2>1. /\ f.assignments \in Seq(Range(f.assignments)) /\ Len(f.assignments) \in Nat
        /\ \A i, j \in 1 .. Len(f.assignments) :
             f.assignments[i].target = f.assignments[j].target => i = j
    BY <1>2, CopyAssumption, LenProperties
  <2>2. targets = [i \in 1 .. Len(f.assignments) |-> f.assignments[i].target]
    BY DEF Targets
  <2>3. \A i \in 1 .. Len(f.assignments) : targets[i] \in Names
    <3>1. \A i \in 1 .. Len(f.assignments) : targets[i] \in Range(targets)
      BY <2>2 DEF Range
    <3>. QED  BY <1>2, <3>1 DEF Names
  <2>. DEFINE n == Len(f.assignments)
  <2>4. targets \in Seq(Names) /\ Len(targets) = n
    <3>1. n \in Nat
      BY <2>1
    <3>2. DOMAIN targets = 1 .. n
      BY <2>2
    <3>3. targets \in [1 .. n -> Names]
      BY <2>2, <2>3
    <3>. HIDE DEF targets, n
    <3>. QED  BY <3>1, <3>3, OfLength
  <2>5. Distinct(targets)
    BY <2>1, <2>2, <2>4 DEF Distinct
  <2>6. initialize(f, names) = Extend(<<>>, targets)
    BY <1>2 DEF initialize
  <2>7. <<>> \in Seq(Names) /\ Distinct(<<>>)
    BY EmptyNames
  <2>8. ~getSelectChannels(f)
    BY <1>2 DEF getSelectChannels
  <2>. HIDE DEF targets, n
  <2>9. Extend(<<>>, targets) \in Seq(Names) /\ Distinct(Extend(<<>>, targets))
    BY <2>4, <2>5, <2>7, ExtendNames
  <2>. QED  BY <2>6, <2>8, <2>9
<1>3. CASE f.kind \notin {"select", "copy"}
  BY <1>3 DEF initialize, getSelectChannels
<1>. QED  BY <1>1, <1>2, <1>3

\* The load begins with the channels of the device.
LEMMA LoadInvInit == GraphInit => LoadInv
<1>. SUFFICES ASSUME GraphInit PROVE LoadInv
  OBVIOUS
<1>1. Channels \in Seq(Names) /\ Distinct(Channels)
  <2>1. Range(Channels) \subseteq Names
    BY DEF Names
  <2>. QED  BY <2>1, ChannelAssumption, SeqMonotonic DEF Distinct
<1>2. infos = <<>> /\ infos \in Seq(Infos) /\ Len(infos) = 0
  BY DEF GraphInit
<1>3. saved \in Seq(Seq(Names)) /\ saved # <<>> /\ Len(saved) = 1 /\ saved[1] = Channels
  BY <1>1 DEF GraphInit
<1>4. LoadTypeOK
  BY <1>2, <1>3 DEF GraphInit, LoadTypeOK
<1>5. NamesInv
  BY <1>1, <1>3 DEF GraphInit, NamesInv, Known, KnownIn
<1>6. InfosInv /\ MemoryInv /\ LinksInv
  BY <1>2 DEF GraphInit, InfosInv, MemoryInv, LinksInv, Before, BeforeNew
<1>. QED  BY <1>4, <1>5, <1>6 DEF LoadInv

\* What a filter line finds and publishes.
LEMMA LineNames ==
  ASSUME LoadInv, NEW f \in Filters
  PROVE  LET out == initialize(f, Selection(f))
         IN /\ Known(Selection(f))
            /\ out \in Seq(Names) /\ Distinct(out)
            /\ getSelectChannels(f) => Known(out)
            /\ InheritsOutput(f) => Known(out)
<1>. DEFINE out == initialize(f, Selection(f))
<1>1. Known(Selection(f))
  BY DEF Selection, LoadInv, NamesInv, Known, KnownIn
<1>2. /\ out \in Seq(Names) /\ Distinct(out)
      /\ getSelectChannels(f) => Range(out) \subseteq Range(Selection(f))
  BY <1>1, InitializeNames DEF Known, KnownIn
<1>3. getSelectChannels(f) => Known(out)
  <2>. HIDE DEF out
  <2>. QED  BY <1>1, <1>2 DEF Known, KnownIn
<1>4. ASSUME InheritsOutput(f) PROVE Known(out)
  <2>1. out = BeforeNew(Len(infos) + 1)
    BY <1>4 DEF InheritsOutput, LoadInv, MemoryInv
  <2>2. infos \in Seq(Infos) /\ Len(infos) \in Nat
    BY LenProperties DEF LoadInv, LoadTypeOK
  <2>3. CASE Len(infos) = 0
    <3>1. BeforeNew(Len(infos) + 1) = <<>>
      BY <2>3 DEF BeforeNew
    <3>. QED  BY <2>1, <3>1, EmptyNames DEF Known, KnownIn
  <2>4. CASE Len(infos) # 0
    <3>1. Len(infos) \in 1 .. Len(infos) /\ Len(infos) + 1 # 1 /\ (Len(infos) + 1) - 1 = Len(infos)
      BY <2>2, <2>4
    <3>2. Known(infos[Len(infos)].given) /\ Known(OutOf(infos[Len(infos)]))
      BY <3>1 DEF LoadInv, InfosInv
    <3>3. BeforeNew(Len(infos) + 1) \in {infos[Len(infos)].given, OutOf(infos[Len(infos)])}
      BY <3>1 DEF BeforeNew
    <3>. QED  BY <2>1, <3>2, <3>3
  <2>. QED  BY <2>3, <2>4
<1>. QED  BY <1>1, <1>2, <1>3, <1>4

\* A filter is added.
LEMMA AddFilterExtends ==
  ASSUME LoadInv, NEW f \in Filters, AddFilter(f)
  PROVE  LET out == initialize(f, Selection(f))
         IN /\ allNames' = Extend(allNames, out)
            /\ allNames' \in Seq(Names) /\ Distinct(allNames')
            /\ Range(allNames) \subseteq Range(allNames')
            /\ Range(out) \subseteq Range(allNames')
            /\ \A name \in Range(allNames) : Position(allNames', name) = Position(allNames, name)
<1>. DEFINE out == initialize(f, Selection(f))
<1>1. /\ out \in Seq(Names) /\ Distinct(out)
      /\ InheritsOutput(f) => Known(out)
  BY LineNames
<1>2. allNames' = IF InheritsOutput(f) THEN allNames ELSE Extend(allNames, out)
  BY DEF AddFilter
<1>3. allNames \in Seq(Names) /\ Distinct(allNames)
  BY DEF LoadInv, NamesInv
<1>. HIDE DEF out
<1>4. allNames' = Extend(allNames, out)
  BY <1>1, <1>2, <1>3, NothingToAdd DEF Known, KnownIn
<1>5. /\ Extend(allNames, out) \in Seq(Names) /\ Distinct(Extend(allNames, out))
      /\ Range(Extend(allNames, out)) = Range(allNames) \cup Range(out)
  BY <1>1, <1>3, ExtendNames
<1>6. \A name \in Range(allNames) : Position(Extend(allNames, out), name) = Position(allNames, name)
  BY <1>1, <1>3, PositionStays
<1>7. /\ allNames' = Extend(allNames, out)
      /\ allNames' \in Seq(Names) /\ Distinct(allNames')
      /\ Range(allNames) \subseteq Range(allNames')
      /\ Range(out) \subseteq Range(allNames')
      /\ \A name \in Range(allNames) : Position(allNames', name) = Position(allNames, name)
  BY <1>4, <1>5, <1>6
<1>. QED  BY <1>7 DEF out

\* What was known stays known, where it was.
LEMMA StaysKnown ==
  ASSUME LoadInv, NEW f \in Filters, AddFilter(f), NEW names, Known(names)
  PROVE  /\ KnownIn(allNames', names)
         /\ Positions(allNames', names) = Positions(allNames, names)
<1>1. /\ Range(allNames) \subseteq Range(allNames')
      /\ \A name \in Range(allNames) : Position(allNames', name) = Position(allNames, name)
  BY AddFilterExtends
<1>2. names \in Seq(Names) /\ Distinct(names) /\ Range(names) \subseteq Range(allNames)
  BY DEF Known, KnownIn
<1>3. \A j \in 1 .. Len(names) : names[j] \in Range(allNames)
  BY <1>2, RangeIs
<1>4. \A j \in 1 .. Len(names) : Position(allNames', names[j]) = Position(allNames, names[j])
  BY <1>1, <1>3
<1>5. Positions(allNames', names) = Positions(allNames, names)
  BY <1>4 DEF Positions
<1>. QED  BY <1>1, <1>2, <1>5 DEF KnownIn

\* A filter line leaves the links right.
LEMMA AddFilterLoad ==
  ASSUME LoadInv, NEW f \in Filters, AddFilter(f)
  PROVE  LoadInv'
<1>. DEFINE given == Selection(f)
            out == initialize(f, given)
            n == Len(infos)
            in == IF InheritsInput(f) THEN <<>> ELSE Positions(allNames, given)
            outs == IF InheritsOutput(f) THEN <<>> ELSE Positions(allNames', out)
            info == [filter |-> f, given |-> given, inChannels |-> in, outChannels |-> outs]
<1>1. /\ Known(given)
      /\ out \in Seq(Names) /\ Distinct(out)
      /\ getSelectChannels(f) => Known(out)
      /\ InheritsOutput(f) => Known(out)
  BY LineNames
<1>2. /\ allNames' \in Seq(Names) /\ Distinct(allNames')
      /\ Range(out) \subseteq Range(allNames')
  BY AddFilterExtends
<1>3. \A names : Known(names) => KnownIn(allNames', names)
                             /\ Positions(allNames', names) = Positions(allNames, names)
  BY StaysKnown
<1>4. KnownIn(allNames', given) /\ KnownIn(allNames', out)
  BY <1>1, <1>2, <1>3 DEF KnownIn
<1>5. n \in Nat /\ infos \in Seq(Infos)
  BY LenProperties DEF LoadInv, LoadTypeOK
<1>6. info \in Infos
  <2>1. in \in Seq(Nat)
    <3>1. Positions(allNames, given) \in Seq(1 .. Len(allNames))
      BY <1>1, PositionsAre DEF LoadInv, NamesInv, Known, KnownIn
    <3>2. 1 .. Len(allNames) \subseteq Nat
      OBVIOUS
    <3>3. Seq(1 .. Len(allNames)) \subseteq Seq(Nat)
      BY <3>2, SeqMonotonic
    <3>. QED  BY <3>1, <3>3, EmptyNames
  <2>2. outs \in Seq(Nat)
    <3>. HIDE DEF out, given
    <3>1. Positions(allNames', out) \in Seq(1 .. Len(allNames'))
      BY <1>2, <1>4, PositionsAre DEF KnownIn
    <3>2. 1 .. Len(allNames') \subseteq Nat
      OBVIOUS
    <3>3. Seq(1 .. Len(allNames')) \subseteq Seq(Nat)
      BY <3>2, SeqMonotonic
    <3>. QED  BY <3>1, <3>3, EmptyNames
  <2>3. given \in Seq(Names)
    BY <1>1 DEF Known, KnownIn
  <2>. HIDE DEF given, in, outs
  <2>. QED  BY <2>1, <2>2, <2>3 DEF Infos
<1>7. infos' = Append(infos, info)
  BY DEF AddFilter
<1>8. /\ infos' \in Seq(Infos) /\ Len(infos') = n + 1
      /\ \A k \in 1 .. n : infos'[k] = infos[k]
      /\ infos'[n + 1] = info
  <2>. HIDE DEF info, n
  <2>. QED  BY <1>5, <1>6, <1>7, AppendProperties DEF n
<1>9. /\ infos'[n + 1].filter = f /\ infos'[n + 1].given = given
      /\ infos'[n + 1].inChannels = in /\ infos'[n + 1].outChannels = outs
  BY <1>8
<1>10. OutOf(infos'[n + 1]) = out
  BY <1>9 DEF OutOf
<1>11. /\ last' = IF getInPlace(f) THEN given ELSE out
       /\ lastNew' = IF getInPlace(f) THEN out ELSE given
       /\ lastInPlace' = getInPlace(f)
       /\ current' = IF getSelectChannels(f) THEN out ELSE current
       /\ saved' = saved /\ phase' = phase
  BY DEF AddFilter
<1>12. /\ InheritsInput(f) => last = given
       /\ InheritsOutput(f) => getInPlace(f) /\ lastInPlace /\ lastNew = out
  BY DEF InheritsInput, InheritsOutput
<1>. HIDE DEF given, out, in, outs, info, n
<1>13. \A k \in 1 .. n + 1 : Before(k)' = Before(k) /\ BeforeNew(k)' = BeforeNew(k)
  <2>. SUFFICES ASSUME NEW k \in 1 .. n + 1
       PROVE  Before(k)' = Before(k) /\ BeforeNew(k)' = BeforeNew(k)
    OBVIOUS
  <2>1. k # 1 => infos'[k - 1] = infos[k - 1]
    BY <1>5, <1>8
  <2>. QED  BY <2>1 DEF Before, BeforeNew, OutOf
<1>14. LoadTypeOK'
  BY <1>8, <1>11 DEF LoadInv, LoadTypeOK
<1>15. NamesInv'
  <2>1. KnownIn(allNames', current')
    BY <1>3, <1>4, <1>11 DEF LoadInv, NamesInv
  <2>2. \A i \in 1 .. Len(saved') : KnownIn(allNames', saved'[i])
    BY <1>3, <1>11 DEF LoadInv, NamesInv
  <2>. QED  BY <1>2, <2>1, <2>2 DEF NamesInv, Known
<1>16. InfosInv'
  <2>. SUFFICES ASSUME NEW k \in 1 .. n + 1
       PROVE  /\ infos'[k].filter \in Filters
              /\ KnownIn(allNames', infos'[k].given)
              /\ KnownIn(allNames', OutOf(infos'[k]))
    BY <1>8 DEF InfosInv, Known, OutOf
  <2>1. CASE k = n + 1
    BY <1>4, <1>9, <1>10, <2>1
  <2>2. CASE k \in 1 .. n
    <3>1. infos'[k] = infos[k]
      BY <1>8, <2>2
    <3>2. infos[k].filter \in Filters /\ Known(infos[k].given) /\ Known(OutOf(infos[k]))
      BY <2>2 DEF LoadInv, InfosInv, n
    <3>. QED  BY <1>3, <3>1, <3>2
  <2>. QED  BY <1>5, <2>1, <2>2
<1>17. MemoryInv'
  <2>1. (n + 1) + 1 # 1 /\ ((n + 1) + 1) - 1 = n + 1
    BY <1>5
  <2>2. /\ Before(Len(infos) + 1)' = last' /\ BeforeNew(Len(infos) + 1)' = lastNew'
    BY <1>8, <1>9, <1>10, <1>11, <2>1 DEF Before, BeforeNew
  <2>. QED  BY <1>8, <1>9, <1>11, <2>2 DEF MemoryInv
<1>18. LinksInv'
  <2>. SUFFICES ASSUME NEW k \in 1 .. n + 1
       PROVE  /\ \/ infos'[k].inChannels = Positions(allNames', infos'[k].given)
                 \/ infos'[k].inChannels = <<>> /\ Before(k) = infos'[k].given
              /\ \/ infos'[k].outChannels = Positions(allNames', OutOf(infos'[k]))
                 \/ /\ infos'[k].outChannels = <<>> /\ BeforeNew(k) = OutOf(infos'[k])
                    /\ k > 1 /\ getInPlace(infos'[k].filter) /\ getInPlace(infos'[k - 1].filter)
    BY <1>8, <1>13 DEF LinksInv, OutOf
  <2>1. CASE k = n + 1
    <3>1. infos'[k].inChannels = in /\ infos'[k].outChannels = outs
      BY <1>9, <2>1
    <3>2. infos'[k].given = given /\ OutOf(infos'[k]) = out /\ infos'[k].filter = f
      BY <1>9, <1>10, <2>1
    <3>3. last = Before(k) /\ lastNew = BeforeNew(k)
      BY <2>1 DEF LoadInv, MemoryInv, n
    <3>4. \/ in = Positions(allNames', given)
          \/ in = <<>> /\ Before(k) = given
      BY <1>1, <1>3, <1>12, <3>3 DEF in
    <3>5. CASE ~InheritsOutput(f)
      BY <3>1, <3>2, <3>4, <3>5 DEF outs
    <3>6. CASE InheritsOutput(f) /\ n = 0
      <4>1. outs = <<>> /\ out = <<>>
        BY <1>12, <2>1, <3>3, <3>6 DEF outs, BeforeNew
      <4>2. Positions(allNames', <<>>) = <<>>
        BY EmptySeq DEF Positions
      <4>. QED  BY <3>1, <3>2, <3>4, <4>1, <4>2
    <3>7. CASE InheritsOutput(f) /\ n # 0
      <4>1. outs = <<>> /\ BeforeNew(k) = out /\ getInPlace(f) /\ lastInPlace
        BY <1>12, <3>3, <3>7 DEF outs
      <4>2. infos'[k - 1] = infos[n] /\ k > 1
        BY <1>5, <1>8, <2>1, <3>7
      <4>3. infos # <<>>
        BY <1>5, <3>7 DEF n
      <4>4. getInPlace(infos[n].filter)
        BY <4>1, <4>3 DEF LoadInv, MemoryInv, n
      <4>. QED  BY <3>1, <3>2, <3>4, <4>1, <4>2, <4>4
    <3>. QED  BY <3>5, <3>6, <3>7
  <2>2. CASE k \in 1 .. n
    <3>1. infos'[k] = infos[k] /\ (k > 1 => infos'[k - 1] = infos[k - 1])
      BY <1>5, <1>8, <2>2
    <3>2. Known(infos[k].given) /\ Known(OutOf(infos[k]))
      BY <2>2 DEF LoadInv, InfosInv, n
    <3>3. /\ Positions(allNames', infos[k].given) = Positions(allNames, infos[k].given)
          /\ Positions(allNames', OutOf(infos[k])) = Positions(allNames, OutOf(infos[k]))
      BY <1>3, <3>2
    <3>. QED  BY <2>2, <3>1, <3>3 DEF LoadInv, LinksInv, n
  <2>. QED  BY <1>5, <2>1, <2>2
<1>. QED  BY <1>14, <1>15, <1>16, <1>17, <1>18 DEF LoadInv

\* A file is opened or closed, and the configuration published.
LEMMA FileLoad ==
  ASSUME LoadInv, StartOfFile \/ EndOfFile \/ Publish
  PROVE  LoadInv'
<1>1. /\ saved \in Seq(Seq(Names)) /\ saved # <<>> /\ Len(saved) \in Nat
      /\ current \in Seq(Names)
  BY LenProperties DEF LoadInv, LoadTypeOK, NamesInv, Known, KnownIn
<1>2. Known(current) /\ \A i \in 1 .. Len(saved) : Known(saved[i])
  BY DEF LoadInv, NamesInv
<1>3. UNCHANGED <<infos, last, lastNew, allNames, lastInPlace>>
  BY DEF StartOfFile, EndOfFile, Publish, loadVars
<1>4. /\ saved' \in Seq(Seq(Names)) /\ saved' # <<>>
      /\ Known(current') /\ \A i \in 1 .. Len(saved') : Known(saved'[i])
  <2>1. CASE StartOfFile
    <3>1. saved' = Append(saved, current) /\ current' = current
      BY <2>1 DEF StartOfFile
    <3>2. /\ saved' \in Seq(Seq(Names)) /\ Len(saved') = Len(saved) + 1
          /\ \A i \in 1 .. Len(saved) : saved'[i] = saved[i]
          /\ saved'[Len(saved) + 1] = current
      BY <1>1, <3>1, AppendProperties
    <3>3. ASSUME NEW i \in 1 .. Len(saved') PROVE Known(saved'[i])
      <4>1. i \in 1 .. Len(saved) \/ i = Len(saved) + 1
        BY <1>1, <3>2
      <4>. QED  BY <1>2, <3>2, <4>1
    <3>4. saved' # <<>>
      BY <1>1, <3>2
    <3>. QED  BY <1>2, <3>1, <3>2, <3>3, <3>4
  <2>2. CASE EndOfFile
    <3>1. saved' = Front(saved) /\ current' = saved[Len(saved)] /\ Len(saved) > 1
      BY <2>2 DEF EndOfFile, Last
    <3>2. /\ saved' \in Seq(Seq(Names)) /\ Len(saved') = Len(saved) - 1
          /\ \A i \in 1 .. Len(saved') : saved'[i] = saved[i]
      BY <1>1, <3>1 DEF Front
    <3>. QED  BY <1>1, <1>2, <3>1, <3>2
  <2>3. CASE Publish
    BY <1>1, <1>2, <2>3 DEF Publish, loadVars
  <2>. QED  BY <2>1, <2>2, <2>3
<1>5. phase' \in {"loading", "idle", "running", "failed"}
  BY DEF LoadInv, LoadTypeOK, StartOfFile, EndOfFile, Publish
<1>. QED
  BY <1>3, <1>4, <1>5 DEF LoadInv, LoadTypeOK, NamesInv, InfosInv, MemoryInv, LinksInv,
    Known, Before, BeforeNew, OutOf

\* When initialize never throws in an included file, what it throws rolls
\* the load back.
LEMMA ThrownIsRolledBack ==
  ASSUME NoThrow, LoadInv, NEW f \in Filters, AddFilterThrows(f)
  PROVE  UNCHANGED <<loadVars, processVars, blocks>> /\ phase' = "failed"
<1>1. Len(saved) \in Nat /\ Len(saved) # 0
  <2>1. saved \in Seq(Seq(Names)) /\ saved # <<>>
    BY DEF LoadInv, LoadTypeOK
  <2>2. Len(saved) \in Nat \ {0}
    BY <2>1, EmptySeq
  <2>. QED  BY <2>2
<1>2. ~ (Len(saved) > 1)
  BY Zenon DEF AddFilterThrows, NoThrow
<1>3. Len(saved) = 1
  <2>1. \A k \in Nat : k # 0 /\ ~ (k > 1) => k = 1
    OBVIOUS
  <2>. QED  BY <1>1, <1>2, <2>1, Zenon
<1>. QED  BY <1>3 DEF AddFilterThrows

\* Loading and running keep what a load has built.
LEMMA LoadInvStep == NoThrow /\ LoadInv /\ [GraphNext]_graphVars => LoadInv'
<1>. SUFFICES ASSUME NoThrow, LoadInv, [GraphNext]_graphVars PROVE LoadInv'
  OBVIOUS
<1>1. CASE UNCHANGED loadVars /\ phase' \in {"loading", "idle", "running", "failed"}
  BY <1>1 DEF loadVars, LoadInv, LoadTypeOK, NamesInv, InfosInv, MemoryInv, LinksInv,
    Known, Before, BeforeNew, OutOf
<1>2. CASE UNCHANGED graphVars
  BY <1>1, <1>2 DEF graphVars, LoadInv, LoadTypeOK
<1>3. ASSUME NEW f \in Filters, AddFilter(f) PROVE LoadInv'
  BY <1>3, AddFilterLoad
<1>4. ASSUME NEW f \in Filters, AddFilterThrows(f) PROVE LoadInv'
  BY <1>1, <1>4, ThrownIsRolledBack
<1>5. CASE StartOfFile \/ EndOfFile \/ Publish
  BY <1>5, FileLoad
<1>6. CASE ProcessStep
  BY <1>1, <1>6 DEF ProcessStep, Read, RunFilter, Write, LoadInv, LoadTypeOK
<1>. QED  BY <1>2, <1>3, <1>4, <1>5, <1>6 DEF GraphNext, LoadStep

-----------------------------------------------------------------------------
(* The pointers.                                                           *)

\* The two buffers of channel c.
Buffer(c) == <<"data", c>>
Buffer2(c) == <<"data2", c>>
Buffers(n) == {"data", "data2"} \X (1 .. n)

\* Every channel points at one of its buffers with each array, whichever.
Paired(n, pointers, others) ==
  /\ pointers \in [1 .. n -> Buffers(n)]
  /\ others \in [1 .. n -> Buffers(n)]
  /\ \A c \in 1 .. n :
       \/ pointers[c] = Buffer(c) /\ others[c] = Buffer2(c)
       \/ pointers[c] = Buffer2(c) /\ others[c] = Buffer(c)

\* A configuration that runs has two buffers for every channel.
BufferInv ==
  phase \in {"idle", "running"} =>
    /\ Paired(Len(allNames), allSamples, allSamples2)
    /\ DOMAIN samples = Buffers(Len(allNames))
    /\ currentSamples \in [1 .. Len(allNames) -> Buffers(Len(allNames)) \cup {Null}]
    /\ currentSamples2 \in [1 .. Len(allNames) -> Buffers(Len(allNames)) \cup {Null}]

\* The pointer of a name in an array.
PointerOf(pointers, name) == pointers[Position(allNames, name)]

\* While a block runs, the pointers left for the next filter are those of
\* the channels the filter before has left, and of those it has written if
\* it works in place.
PointerInv ==
  /\ phase # "running" => position = 0
  /\ phase = "running" =>
       /\ position \in 1 .. Len(infos) + 1
       /\ \A j \in 1 .. Len(Before(position)) :
            currentSamples[j] = PointerOf(allSamples, Before(position)[j])
       /\ position > 1 /\ getInPlace(infos[position - 1].filter) =>
            \A j \in 1 .. Len(BeforeNew(position)) :
              currentSamples2[j] = PointerOf(allSamples, BeforeNew(position)[j])

GraphInv == LoadInv /\ BufferInv /\ PointerInv

\* A filter reads where the names it was given are, and writes where those
\* it publishes are: in the buffers of the input when it works in place, in
\* the other ones when it does not.
LEMMA InputIs ==
  ASSUME GraphInv, phase = "running", position <= Len(infos)
  PROVE  LET given == infos[position].given
         IN /\ Known(given)
            /\ \A j \in 1 .. Len(given) :
                 /\ j <= Len(allNames)
                 /\ Input[j] = PointerOf(allSamples, given[j])
            /\ Input \in [1 .. Len(allNames) -> Buffers(Len(allNames)) \cup {Null}]
<1>. DEFINE given == infos[position].given
            list == infos[position].inChannels
            n == Len(allNames)
<1>0. position \in 1 .. Len(infos) /\ n \in Nat
  BY LenProperties DEF GraphInv, PointerInv, LoadInv, NamesInv
<1>1. Known(given) /\ given \in Seq(Names) /\ Distinct(given) /\ Range(given) \subseteq Range(allNames)
  BY <1>0 DEF GraphInv, LoadInv, InfosInv, Known, KnownIn
<1>2. allNames \in Seq(Names) /\ Distinct(allNames)
  BY DEF GraphInv, LoadInv, NamesInv
<1>3. \/ list = Positions(allNames, given)
      \/ list = <<>> /\ Before(position) = given
  BY <1>0 DEF GraphInv, LoadInv, LinksInv
<1>4. /\ allSamples \in [1 .. n -> Buffers(n)]
      /\ currentSamples \in [1 .. n -> Buffers(n) \cup {Null}]
      /\ \A j \in 1 .. Len(Before(position)) :
           currentSamples[j] = PointerOf(allSamples, Before(position)[j])
  BY DEF GraphInv, BufferInv, Paired, PointerInv
<1>5. Input = [j \in 1 .. n |-> IF j <= Len(list) THEN allSamples[list[j]] ELSE currentSamples[j]]
  <2>1. Len(currentSamples) = n
    <3>. HIDE DEF n
    <3>. QED  BY <1>0, <1>4, OfLength
  <2>. QED  BY <2>1 DEF Input, Refilled
<1>. HIDE DEF given, list, n
<1>6. Len(given) \in Nat /\ Len(given) <= n
  BY <1>1, <1>2, LenProperties, NoMoreNames DEF n
<1>7. ASSUME list = Positions(allNames, given)
      PROVE  /\ \A j \in 1 .. Len(given) : Input[j] = PointerOf(allSamples, given[j])
             /\ Input \in [1 .. n -> Buffers(n) \cup {Null}]
  <2>1. /\ Len(list) = Len(given)
        /\ \A j \in 1 .. Len(given) :
             list[j] = Position(allNames, given[j]) /\ list[j] \in 1 .. n
    <3>1. /\ Len(Positions(allNames, given)) = Len(given)
          /\ \A j \in 1 .. Len(given) :
               /\ Positions(allNames, given)[j] = Position(allNames, given[j])
               /\ Position(allNames, given[j]) \in 1 .. Len(allNames)
      BY <1>1, <1>2, PositionsAre
    <3>. QED  BY <1>7, <3>1 DEF n
  <2>2. \A j \in 1 .. n : Input[j] \in Buffers(n) \cup {Null}
    BY <1>4, <1>5, <1>6, <2>1
  <2>3. ASSUME NEW j \in 1 .. Len(given) PROVE Input[j] = PointerOf(allSamples, given[j])
    <3>1. j \in 1 .. n /\ j <= Len(list) /\ list[j] = Position(allNames, given[j])
      BY <1>0, <1>6, <2>1
    <3>. QED  BY <1>5, <3>1 DEF PointerOf
  <2>4. Input \in [1 .. n -> Buffers(n) \cup {Null}]
    BY <1>5, <2>2
  <2>. QED  BY <2>3, <2>4
<1>8. ASSUME list = <<>>, Before(position) = given
      PROVE  /\ \A j \in 1 .. Len(given) : Input[j] = PointerOf(allSamples, given[j])
             /\ Input \in [1 .. n -> Buffers(n) \cup {Null}]
  <2>1. Len(list) = 0
    BY <1>8
  <2>2. \A j \in 1 .. n : Input[j] = currentSamples[j]
    BY <1>5, <2>1
  <2>3. ASSUME NEW j \in 1 .. Len(given) PROVE Input[j] = PointerOf(allSamples, given[j])
    <3>1. j \in 1 .. n
      BY <1>0, <1>6
    <3>. QED  BY <1>4, <1>8, <2>2, <3>1
  <2>4. \A j \in 1 .. n : Input[j] \in Buffers(n) \cup {Null}
    BY <1>4, <2>2
  <2>5. Input \in [1 .. n -> Buffers(n) \cup {Null}]
    BY <1>5, <2>4
  <2>. QED  BY <2>3, <2>5
<1>9. \A j \in 1 .. Len(given) : j <= n
  BY <1>0, <1>6
<1>. QED  BY <1>1, <1>3, <1>7, <1>8, <1>9 DEF given, n

\* A filter writes to buffers of its own channels.
LEMMA OutputIs ==
  ASSUME GraphInv, phase = "running", position <= Len(infos)
  PROVE  LET out == OutOf(infos[position])
             to == IF getInPlace(Filter) THEN allSamples ELSE allSamples2
         IN /\ Known(out)
            /\ \A j \in 1 .. Len(out) :
                 /\ j <= Len(allNames)
                 /\ Output[j] = PointerOf(to, out[j])
            /\ Output \in [1 .. Len(allNames) -> Buffers(Len(allNames)) \cup {Null}]
            /\ ~getInPlace(Filter) => infos[position].outChannels = Positions(allNames, out)
<1>. DEFINE out == OutOf(infos[position])
            to == IF getInPlace(Filter) THEN allSamples ELSE allSamples2
            list == infos[position].outChannels
            n == Len(allNames)
<1>0. position \in 1 .. Len(infos) /\ n \in Nat
  BY LenProperties DEF GraphInv, PointerInv, LoadInv, NamesInv
<1>1. Known(out) /\ out \in Seq(Names) /\ Distinct(out) /\ Range(out) \subseteq Range(allNames)
  BY <1>0 DEF GraphInv, LoadInv, InfosInv, Known, KnownIn
<1>2. allNames \in Seq(Names) /\ Distinct(allNames)
  BY DEF GraphInv, LoadInv, NamesInv
<1>3. \/ list = Positions(allNames, out)
      \/ /\ list = <<>> /\ BeforeNew(position) = out
         /\ position > 1 /\ getInPlace(Filter) /\ getInPlace(infos[position - 1].filter)
  BY <1>0 DEF GraphInv, LoadInv, LinksInv, Filter
<1>4. /\ to \in [1 .. n -> Buffers(n)]
      /\ currentSamples2 \in [1 .. n -> Buffers(n) \cup {Null}]
      /\ position > 1 /\ getInPlace(infos[position - 1].filter) =>
            \A j \in 1 .. Len(BeforeNew(position)) :
              currentSamples2[j] = PointerOf(allSamples, BeforeNew(position)[j])
  BY DEF GraphInv, BufferInv, Paired, PointerInv
<1>5. Output = [j \in 1 .. n |-> IF j <= Len(list) THEN to[list[j]] ELSE currentSamples2[j]]
  <2>1. Len(currentSamples2) = n
    <3>. HIDE DEF n, to
    <3>. QED  BY <1>0, <1>4, OfLength
  <2>. QED  BY <2>1 DEF Output, Refilled
<1>6. Len(out) \in Nat /\ Len(out) <= n
  <2>. HIDE DEF out
  <2>. QED  BY <1>1, <1>2, LenProperties, NoMoreNames
<1>7. getInPlace(Filter) => to = allSamples
  OBVIOUS
<1>. HIDE DEF out, list, n, to
<1>8. ASSUME list = Positions(allNames, out)
      PROVE  /\ \A j \in 1 .. Len(out) : Output[j] = PointerOf(to, out[j])
             /\ Output \in [1 .. n -> Buffers(n) \cup {Null}]
  <2>1. /\ Len(list) = Len(out)
        /\ \A j \in 1 .. Len(out) :
             list[j] = Position(allNames, out[j]) /\ list[j] \in 1 .. n
    <3>1. /\ Len(Positions(allNames, out)) = Len(out)
          /\ \A j \in 1 .. Len(out) :
               /\ Positions(allNames, out)[j] = Position(allNames, out[j])
               /\ Position(allNames, out[j]) \in 1 .. Len(allNames)
      BY <1>1, <1>2, PositionsAre
    <3>. QED  BY <1>8, <3>1 DEF n
  <2>2. \A j \in 1 .. n : Output[j] \in Buffers(n) \cup {Null}
    BY <1>4, <1>5, <1>6, <2>1
  <2>3. ASSUME NEW j \in 1 .. Len(out) PROVE Output[j] = PointerOf(to, out[j])
    <3>1. j \in 1 .. n /\ j <= Len(list) /\ list[j] = Position(allNames, out[j])
      BY <1>0, <1>6, <2>1
    <3>. QED  BY <1>5, <3>1 DEF PointerOf
  <2>4. Output \in [1 .. n -> Buffers(n) \cup {Null}]
    BY <1>5, <2>2
  <2>. QED  BY <2>3, <2>4
<1>9. ASSUME list = <<>>, BeforeNew(position) = out, position > 1,
             getInPlace(Filter), getInPlace(infos[position - 1].filter)
      PROVE  /\ \A j \in 1 .. Len(out) : Output[j] = PointerOf(to, out[j])
             /\ Output \in [1 .. n -> Buffers(n) \cup {Null}]
  <2>1. Len(list) = 0
    BY <1>9
  <2>2. \A j \in 1 .. n : Output[j] = currentSamples2[j]
    BY <1>5, <2>1
  <2>3. ASSUME NEW j \in 1 .. Len(out) PROVE Output[j] = PointerOf(to, out[j])
    <3>1. j \in 1 .. n
      BY <1>0, <1>6
    <3>. QED  BY <1>4, <1>7, <1>9, <2>2, <3>1
  <2>4. \A j \in 1 .. n : Output[j] \in Buffers(n) \cup {Null}
    BY <1>4, <2>2
  <2>5. Output \in [1 .. n -> Buffers(n) \cup {Null}]
    BY <1>5, <2>4
  <2>. QED  BY <2>3, <2>5
<1>10. \A j \in 1 .. Len(out) : j <= n
  BY <1>0, <1>6
<1>11. ~getInPlace(Filter) => list = Positions(allNames, out)
  BY <1>3
<1>. QED  BY <1>1, <1>3, <1>8, <1>9, <1>10, <1>11 DEF out, n, to, list

\* No buffer is the missing one.
LEMMA NoBufferIsNull == \A n \in Nat : Null \notin Buffers(n)
<1>. SUFFICES ASSUME NEW n \in Nat PROVE Null \notin Buffers(n)
  OBVIOUS
<1>1. Buffers(n) \subseteq {"data", "data2"} \X Nat
  BY DEF Buffers
<1>. QED  BY <1>1, NullAssumption

\* Where a known name is.
LEMMA PointerOfIs ==
  ASSUME LoadInv, NEW name \in Range(allNames)
  PROVE  /\ Len(allNames) \in Nat
         /\ Position(allNames, name) \in 1 .. Len(allNames)
         /\ allNames[Position(allNames, name)] = name
<1>1. allNames \in Seq(Names) /\ Distinct(allNames)
  BY DEF LoadInv, NamesInv
<1>. QED  BY <1>1, PositionIs, LenProperties

\* Every pointer a filter is given is to a buffer.
LEMMA NotWild ==
  ASSUME GraphInv, phase = "running", position <= Len(infos)
  PROVE  ~Wild
<1>. DEFINE n == Len(allNames)
            given == infos[position].given
            out == OutOf(infos[position])
<1>0. n \in Nat /\ LoadInv
  BY LenProperties DEF GraphInv, LoadInv, NamesInv
<1>1. Null \notin Buffers(n)
  <2>. HIDE DEF n
  <2>. QED  BY <1>0, NoBufferIsNull
<1>2. allSamples \in [1 .. n -> Buffers(n)] /\ allSamples2 \in [1 .. n -> Buffers(n)]
  BY DEF GraphInv, BufferInv, Paired
<1>3. ASSUME NEW names, Known(names), NEW j \in 1 .. Len(names),
             NEW pointers \in [1 .. n -> Buffers(n)]
      PROVE  PointerOf(pointers, names[j]) \in Buffers(n)
  <2>1. names[j] \in Range(allNames)
    BY <1>3, RangeIs DEF Known, KnownIn
  <2>2. Position(allNames, names[j]) \in 1 .. n
    BY <1>0, <2>1, PointerOfIs
  <2>. QED  BY <2>2 DEF PointerOf
<1>4. ASSUME NEW j \in 1 .. InputCount PROVE Input[j] # Null
  <2>1. j \in 1 .. Len(given)
    BY DEF InputCount
  <2>2. Known(given) /\ Input[j] = PointerOf(allSamples, given[j])
    BY <2>1, InputIs
  <2>. HIDE DEF given, n
  <2>3. PointerOf(allSamples, given[j]) \in Buffers(n)
    BY <1>2, <1>3, <2>1, <2>2
  <2>. QED  BY <1>1, <2>2, <2>3
<1>5. ASSUME NEW j \in 1 .. OutputCount PROVE Output[j] # Null
  <2>1. j \in 1 .. Len(out)
    BY DEF OutputCount, Filter, OutOf
  <2>. DEFINE to == IF getInPlace(Filter) THEN allSamples ELSE allSamples2
  <2>2. Known(out) /\ Output[j] = PointerOf(to, out[j])
    BY <2>1, OutputIs
  <2>3. to \in [1 .. n -> Buffers(n)]
    BY <1>2
  <2>. HIDE DEF out, n, to
  <2>4. PointerOf(to, out[j]) \in Buffers(n)
    BY <1>3, <2>1, <2>2, <2>3
  <2>. QED  BY <1>1, <2>2, <2>4
<1>. QED  BY <1>4, <1>5 DEF Wild

\* A filter that runs swaps the buffers of channels, if anything.
LEMMA BufferInvRun ==
  ASSUME GraphInv, RunFilter
  PROVE  BufferInv'
<1>. DEFINE n == Len(allNames)
<1>0. /\ phase = "running" /\ position <= Len(infos) /\ n \in Nat
      /\ UNCHANGED <<phase, allNames>>
  BY LenProperties DEF RunFilter, loadVars, GraphInv, LoadInv, NamesInv
<1>1. Paired(n, allSamples, allSamples2) /\ DOMAIN samples = Buffers(n)
  BY <1>0 DEF GraphInv, BufferInv
<1>2. /\ Input \in [1 .. n -> Buffers(n) \cup {Null}]
      /\ Output \in [1 .. n -> Buffers(n) \cup {Null}]
  BY <1>0, InputIs, OutputIs
<1>. HIDE DEF n
<1>3. DOMAIN samples' = Buffers(n)
  <2>1. samples' = Processed
    BY DEF RunFilter
  <2>. QED  BY <1>1, <2>1 DEF Processed
<1>4. /\ currentSamples' \in [1 .. n -> Buffers(n) \cup {Null}]
      /\ currentSamples2' \in [1 .. n -> Buffers(n) \cup {Null}]
  BY <1>2 DEF RunFilter
<1>5. Paired(n, allSamples', allSamples2')
  <2>1. CASE getInPlace(Filter)
    BY <1>1, <2>1 DEF RunFilter
  <2>2. CASE ~getInPlace(Filter)
    <3>1. allSamples \in [1 .. n -> Buffers(n)] /\ allSamples2 \in [1 .. n -> Buffers(n)]
      BY <1>1 DEF Paired
    <3>2. Len(allSamples) = n /\ Len(allSamples2) = n
      BY <1>0, <3>1, OfLength
    <3>3. /\ allSamples' = Swapped(allSamples, allSamples2)
          /\ allSamples2' = Swapped(allSamples2, allSamples)
      BY <2>2 DEF RunFilter
    <3>. DEFINE swapped == Range(infos[position].outChannels)
    <3>4. /\ allSamples' = [c \in 1 .. n |-> IF c \in swapped THEN allSamples2[c] ELSE allSamples[c]]
          /\ allSamples2' = [c \in 1 .. n |-> IF c \in swapped THEN allSamples[c] ELSE allSamples2[c]]
      BY <3>2, <3>3 DEF Swapped
    <3>. HIDE DEF swapped
    <3>5. allSamples' \in [1 .. n -> Buffers(n)] /\ allSamples2' \in [1 .. n -> Buffers(n)]
      BY <3>1, <3>4
    <3>6. ASSUME NEW c \in 1 .. n
          PROVE  \/ allSamples'[c] = Buffer(c) /\ allSamples2'[c] = Buffer2(c)
                 \/ allSamples'[c] = Buffer2(c) /\ allSamples2'[c] = Buffer(c)
      <4>1. \/ allSamples[c] = Buffer(c) /\ allSamples2[c] = Buffer2(c)
            \/ allSamples[c] = Buffer2(c) /\ allSamples2[c] = Buffer(c)
        BY <1>1 DEF Paired
      <4>. QED  BY <3>4, <4>1
    <3>. QED  BY <3>5, <3>6 DEF Paired
  <2>. QED  BY <2>1, <2>2
<1>. QED  BY <1>0, <1>3, <1>4, <1>5 DEF BufferInv, n

\* A configuration begins with the buffers of its channels.
LEMMA BufferInvPublish ==
  ASSUME GraphInv, Publish
  PROVE  BufferInv'
<1>. DEFINE n == Len(allNames)
<1>1. /\ allSamples' = [c \in 1 .. n |-> Buffer(c)]
      /\ allSamples2' = [c \in 1 .. n |-> Buffer2(c)]
      /\ currentSamples' = [c \in 1 .. n |-> Null]
      /\ currentSamples2' = [c \in 1 .. n |-> Null]
      /\ samples' = [b \in Buffers(n) |-> Silence]
      /\ allNames' = allNames
  BY DEF Publish, Buffers, Buffer, Buffer2, loadVars
<1>2. \A c \in 1 .. n : Buffer(c) \in Buffers(n) /\ Buffer2(c) \in Buffers(n)
  BY DEF Buffer, Buffer2, Buffers
<1>. HIDE DEF n
<1>3. Paired(n, allSamples', allSamples2')
  <2>1. allSamples' \in [1 .. n -> Buffers(n)] /\ allSamples2' \in [1 .. n -> Buffers(n)]
    BY <1>1, <1>2
  <2>2. \A c \in 1 .. n : allSamples'[c] = Buffer(c) /\ allSamples2'[c] = Buffer2(c)
    BY <1>1
  <2>. QED  BY <2>1, <2>2 DEF Paired
<1>4. /\ DOMAIN samples' = Buffers(n)
      /\ currentSamples' \in [1 .. n -> Buffers(n) \cup {Null}]
      /\ currentSamples2' \in [1 .. n -> Buffers(n) \cup {Null}]
  BY <1>1
<1>. QED  BY <1>1, <1>3, <1>4 DEF BufferInv, n

\* A filter leaves the pointers the next one may inherit.
LEMMA PointerInvRun ==
  ASSUME GraphInv, RunFilter
  PROVE  PointerInv'
<1>. DEFINE given == infos[position].given
            out == OutOf(infos[position])
            list == infos[position].outChannels
            n == Len(allNames)
<1>0. /\ phase = "running" /\ position \in 1 .. Len(infos)
      /\ UNCHANGED <<phase, infos, allNames>> /\ position' = position + 1
  <2>1. /\ phase = "running" /\ position <= Len(infos)
        /\ UNCHANGED <<phase, infos, allNames>> /\ position' = position + 1
    BY DEF RunFilter, loadVars
  <2>2. position \in 1 .. Len(infos) + 1 /\ Len(infos) \in Nat
    BY <2>1, LenProperties DEF GraphInv, PointerInv, LoadInv, LoadTypeOK
  <2>. QED  BY <2>1, <2>2
<1>a. Len(infos) \in Nat /\ position \in Nat
  BY <1>0, LenProperties DEF GraphInv, LoadInv, LoadTypeOK
<1>1. /\ position <= Len(infos) /\ position + 1 # 1 /\ (position + 1) - 1 = position
      /\ position' \in 1 .. Len(infos') + 1
  BY <1>0, <1>a
<1>2. /\ Known(given)
      /\ \A j \in 1 .. Len(given) : Input[j] = PointerOf(allSamples, given[j])
  BY <1>0, <1>1, InputIs
<1>3. /\ Known(out)
      /\ \A j \in 1 .. Len(out) :
           Output[j] = PointerOf(IF getInPlace(Filter) THEN allSamples ELSE allSamples2, out[j])
      /\ ~getInPlace(Filter) => list = Positions(allNames, out)
  BY <1>0, <1>1, OutputIs
<1>4. /\ Before(position)' = IF getInPlace(Filter) THEN given ELSE out
      /\ BeforeNew(position)' = IF getInPlace(Filter) THEN out ELSE given
      /\ infos'[position' - 1].filter = Filter
  BY <1>0, <1>1 DEF Before, BeforeNew, Filter, OutOf
<1>5. ASSUME \A j \in 1 .. Len(Before(position)') :
               currentSamples'[j] = allSamples'[Position(allNames, Before(position)'[j])],
             getInPlace(Filter) =>
               \A j \in 1 .. Len(BeforeNew(position)') :
                 currentSamples2'[j] = allSamples'[Position(allNames, BeforeNew(position)'[j])]
      PROVE  PointerInv'
  BY <1>0, <1>1, <1>4, <1>5 DEF PointerInv, PointerOf
<1>6. CASE getInPlace(Filter)
  <2>1. currentSamples' = Input /\ currentSamples2' = Output /\ allSamples' = allSamples
    BY <1>6 DEF RunFilter
  <2>2. Before(position)' = given /\ BeforeNew(position)' = out
    BY <1>4, <1>6
  <2>. HIDE DEF given, out
  <2>3. \A j \in 1 .. Len(given) : currentSamples'[j] = allSamples'[Position(allNames, given[j])]
    BY <1>2, <2>1 DEF PointerOf
  <2>4. \A j \in 1 .. Len(out) : currentSamples2'[j] = allSamples'[Position(allNames, out[j])]
    BY <1>3, <1>6, <2>1 DEF PointerOf
  <2>. QED  BY <1>5, <2>2, <2>3, <2>4
<1>7. CASE ~getInPlace(Filter)
  <2>1. currentSamples' = Output /\ allSamples' = Swapped(allSamples, allSamples2)
    BY <1>7 DEF RunFilter
  <2>2. Before(position)' = out
    BY <1>4, <1>7
  <2>3. allSamples \in [1 .. n -> Buffers(n)] /\ n \in Nat
    BY <1>0, LenProperties DEF GraphInv, LoadInv, NamesInv, BufferInv, Paired
  <2>4. Len(allSamples) = n
    <3>. HIDE DEF n
    <3>. QED  BY <2>3, OfLength
  <2>5. \A j \in 1 .. Len(out) : Output[j] = allSamples2[Position(allNames, out[j])]
    BY <1>3, <1>7 DEF PointerOf
  <2>6. list = Positions(allNames, out)
    BY <1>3, <1>7
  <2>. HIDE DEF given, out, list, n
  <2>7. ASSUME NEW j \in 1 .. Len(out)
        PROVE  allSamples'[Position(allNames, out[j])] = allSamples2[Position(allNames, out[j])]
    <3>1. /\ list \in Seq(1 .. n) /\ Len(list) = Len(out)
          /\ list[j] = Position(allNames, out[j]) /\ Position(allNames, out[j]) \in 1 .. n
      <4>1. /\ allNames \in Seq(Names) /\ Distinct(allNames)
            /\ out \in Seq(Names) /\ Range(out) \subseteq Range(allNames)
        BY <1>3 DEF GraphInv, LoadInv, NamesInv, Known, KnownIn
      <4>2. /\ Positions(allNames, out) \in Seq(1 .. Len(allNames))
            /\ Len(Positions(allNames, out)) = Len(out)
            /\ Positions(allNames, out)[j] = Position(allNames, out[j])
            /\ Position(allNames, out[j]) \in 1 .. Len(allNames)
        BY <4>1, PositionsAre
      <4>. QED  BY <2>6, <4>2 DEF n
    <3>2. list[j] \in Range(list)
      BY <3>1, RangeIs
    <3>3. Position(allNames, out[j]) \in Range(infos[position].outChannels)
      BY <3>1, <3>2 DEF list
    <3>. QED  BY <2>1, <2>4, <3>1, <3>3 DEF Swapped
  <2>. QED  BY <1>5, <1>7, <2>1, <2>2, <2>5, <2>7
<1>. QED  BY <1>6, <1>7

\* A block begins with nothing to inherit.
LEMMA PointerInvRead ==
  ASSUME GraphInv, Read
  PROVE  PointerInv'
<1>1. Len(infos) \in Nat /\ infos' = infos /\ position' = 1 /\ phase' = "running"
  BY LenProperties DEF GraphInv, LoadInv, LoadTypeOK, Read, loadVars
<1>2. Before(position)' = <<>> /\ Len(<<>>) = 0
  BY <1>1 DEF Before
<1>. QED  BY <1>1, <1>2 DEF PointerInv

\* Before anything is loaded there is nothing to run.
LEMMA GraphInvInit == GraphInit => GraphInv
<1>1. GraphInit => BufferInv /\ PointerInv
  BY DEF GraphInit, BufferInv, PointerInv
<1>. QED  BY <1>1, LoadInvInit DEF GraphInv

\* Every step keeps the invariant.
LEMMA GraphInvStep == NoThrow /\ GraphInv /\ [GraphNext]_graphVars => GraphInv'
<1>. SUFFICES ASSUME NoThrow, GraphInv, [GraphNext]_graphVars PROVE GraphInv'
  OBVIOUS
<1>1. LoadInv'
  BY LoadInvStep DEF GraphInv
<1>2. CASE UNCHANGED graphVars
  BY <1>1, <1>2 DEF graphVars, loadVars, processVars, GraphInv, BufferInv, PointerInv,
    Before, BeforeNew, PointerOf
<1>3. CASE \/ \E f \in Filters : AddFilter(f) \/ AddFilterThrows(f)
           \/ StartOfFile \/ EndOfFile
  <2>1. phase = "loading" /\ phase' \in {"loading", "failed"} /\ UNCHANGED position
    BY <1>3 DEF AddFilter, AddFilterThrows, StartOfFile, EndOfFile, processVars
  <2>. QED  BY <1>1, <2>1 DEF GraphInv, BufferInv, PointerInv
<1>4. CASE Publish
  <2>1. PointerInv'
    BY <1>4 DEF Publish, GraphInv, PointerInv
  <2>. QED  BY <1>1, <1>4, <2>1, BufferInvPublish DEF GraphInv
<1>5. CASE Read
  <2>1. BufferInv'
    BY <1>5 DEF Read, loadVars, GraphInv, BufferInv
  <2>. QED  BY <1>1, <1>5, <2>1, PointerInvRead DEF GraphInv
<1>6. CASE RunFilter
  BY <1>1, <1>6, BufferInvRun, PointerInvRun DEF GraphInv
<1>7. CASE Write
  <2>1. BufferInv' /\ PointerInv'
    BY <1>7 DEF Write, loadVars, GraphInv, BufferInv, PointerInv
  <2>. QED  BY <1>1, <2>1 DEF GraphInv
<1>. QED  BY <1>2, <1>3, <1>4, <1>5, <1>6, <1>7 DEF GraphNext, LoadStep, ProcessStep

\* The graph that addFilters and initialize build, and the pointers that process
\* hands on from filter to filter, stay as the invariant says.
THEOREM GraphInvariant == ASSUME NoThrow PROVE GraphSpec => []GraphInv
<1>1. GraphInit => GraphInv
  BY GraphInvInit
<1>2. GraphInv /\ [GraphNext]_graphVars => GraphInv'
  BY GraphInvStep
<1>. QED  BY <1>1, <1>2, PTL DEF GraphSpec

\* A filter that inherits the pointers of the filter before (inChannels or
\* outChannels left empty by addFilters) finds as many as it reads or writes,
\* and each is to a buffer of the configuration.
THEOREM GraphInherits == ASSUME NoThrow PROVE GraphSpec => []InheritsOnlyWhatIsThere
<1>1. GraphInv => InheritsOnlyWhatIsThere
  BY NotWild DEF InheritsOnlyWhatIsThere
<1>. QED  BY <1>1, GraphInvariant, PTL

-----------------------------------------------------------------------------
(* What comes out is what the lines say.                                   *)

\* The state of ChannelFlow.
Program == [k \in 1 .. Len(infos) |-> [filter |-> infos[k].filter, names |-> infos[k].given]]
Selected == Append(Tail(saved), current)
FlowOf ==
  IF position = 0 THEN <<>> ELSE [c \in 1 .. Len(allSamples) |-> samples[allSamples[c]]]

flowVars == <<Program, allNames, Selected, FlowOf, position>>

\* The operators of ChannelFlow are those of FilterGraph.
LEMMA SameOperators ==
  /\ Flow!vars = flowVars
  /\ \A f :
       /\ Flow!getAllChannels(f) = getAllChannels(f)
       /\ Flow!getSelectChannels(f) = getSelectChannels(f)
       /\ Flow!Produces(f) = Produces(f)
  /\ \A f, names : Flow!initialize(f, names) = initialize(f, names)
  /\ \A all, names : Flow!Extend(all, names) = Extend(all, names)
  /\ \A names, name : Flow!Position(names, name) = Position(names, name)
  /\ \A i : Flow!Arriving(i) = Arriving(i)
  /\ \A k, f, names, input, j :
       Flow!Product(k, f, names, input, j) = Product(k, f, names, input, j)
  /\ \A s : Flow!Front(s) = Front(s) /\ Flow!Last(s) = Last(s)
  /\ \A s : Flow!Range(s) = Range(s)
<1>1. Flow!vars = flowVars
  BY DEF Flow!vars, flowVars, Program, Selected, FlowOf
<1>2. \A f :
        /\ Flow!getAllChannels(f) = getAllChannels(f)
        /\ Flow!getSelectChannels(f) = getSelectChannels(f)
        /\ Flow!Produces(f) = Produces(f)
  BY Zenon DEF Flow!getAllChannels, getAllChannels, Flow!getSelectChannels, getSelectChannels,
    Flow!Produces, Produces
<1>3. \A s : Flow!Range(s) = Range(s)
  BY DEF Flow!Range, Range
<1>4. \A names, set : Flow!Kept(names, set) = Kept(names, set)
  BY Zenon DEF Flow!Kept, Kept
<1>5. \A all, names : Flow!Extend(all, names) = Extend(all, names)
  BY <1>3, <1>4 DEF Flow!Extend, Extend
<1>6. \A f : Flow!Targets(f) = Targets(f)
  BY DEF Flow!Targets, Targets
<1>7. \A f, names : Flow!initialize(f, names) = initialize(f, names)
  BY <1>4, <1>5, <1>6 DEF Flow!initialize, initialize
<1>8. \A names, name : Flow!Position(names, name) = Position(names, name)
  BY Zenon DEF Flow!Position, Position
<1>9. \A i : Flow!Arriving(i) = Arriving(i)
  BY DEF Flow!Arriving, Arriving, Flow!Silence, Silence
<1>10. \A k, f, names, input, j :
       Flow!Product(k, f, names, input, j) = Product(k, f, names, input, j)
  BY Zenon DEF Flow!Product, Product, Flow!Position, Position
<1>11. \A s : Flow!Front(s) = Front(s) /\ Flow!Last(s) = Last(s)
  BY DEF Flow!Front, Front, Flow!Last, Last
<1>. QED  BY <1>1, <1>2, <1>3, <1>5, <1>7, <1>8, <1>9, <1>10, <1>11

\* At the beginning no line has been read.
LEMMA FlowInit == GraphInit => Flow!Init
<1>. SUFFICES ASSUME GraphInit PROVE Flow!Init
  OBVIOUS
<1>1. Program = <<>>
  BY DEF GraphInit, Program
<1>2. Selected = <<Channels>>
  BY DEF GraphInit, Selected
<1>. QED  BY <1>1, <1>2 DEF GraphInit, Flow!Init, Program, Selected

\* The ends of sequences.
LEMMA FrontLast ==
  ASSUME NEW S, NEW t \in Seq(S), NEW x \in S
  PROVE  Front(Append(t, x)) = t /\ Last(Append(t, x)) = x
<1>. DEFINE u == Append(t, x)
<1>1. /\ u \in Seq(S) /\ Len(u) = Len(t) + 1 /\ Len(t) \in Nat
      /\ \A i \in 1 .. Len(t) : u[i] = t[i]
      /\ u[Len(t) + 1] = x
  BY AppendProperties, LenProperties
<1>. HIDE DEF u
<1>2. /\ Front(u) \in Seq(S) /\ Len(Front(u)) = Len(t)
      /\ \A i \in 1 .. Len(t) : Front(u)[i] = t[i]
  BY <1>1 DEF Front
<1>3. Front(u) = t
  BY <1>2, SeqEqual
<1>. QED  BY <1>1, <1>3 DEF u, Last

\* A sequence without its last element.
LEMMA FrontIs ==
  ASSUME NEW S, NEW s \in Seq(S), Len(s) > 0
  PROVE  /\ Front(s) \in Seq(S) /\ Len(Front(s)) = Len(s) - 1
         /\ \A i \in 1 .. Len(s) - 1 : Front(s)[i] = s[i]
         /\ Last(s) = s[Len(s)] /\ Last(s) \in S
<1>1. Len(s) \in Nat /\ Len(s) \in 1 .. Len(s) /\ s[Len(s)] \in S
  BY LenProperties, ElementOfSeq
<1>2. /\ Front(s) \in Seq(S) /\ Len(Front(s)) = Len(s) - 1
      /\ \A i \in 1 .. Len(s) - 1 : Front(s)[i] = s[i]
  <2>1. \A i \in 1 .. Len(s) - 1 : s[i] \in S
    BY <1>1, ElementOfSeq
  <2>2. /\ SubSeq(s, 1, Len(s) - 1) \in Seq(S)
        /\ Len(SubSeq(s, 1, Len(s) - 1)) = IF 1 <= Len(s) - 1 THEN Len(s) - 1 - 1 + 1 ELSE 0
        /\ \A i \in 1 .. Len(s) - 1 - 1 + 1 : SubSeq(s, 1, Len(s) - 1)[i] = s[1 + i - 1]
    BY <1>1, <2>1, SubSeqProperties
  <2>3. Len(SubSeq(s, 1, Len(s) - 1)) = Len(s) - 1
    <3>1. \A m \in Nat : m > 0 => (IF 1 <= m - 1 THEN m - 1 - 1 + 1 ELSE 0) = m - 1
      OBVIOUS
    <3>. QED  BY <1>1, <2>2, <3>1, Zenon
  <2>4. ASSUME NEW i \in 1 .. Len(s) - 1 PROVE SubSeq(s, 1, Len(s) - 1)[i] = s[i]
    <3>1. i \in 1 .. Len(s) - 1 - 1 + 1 /\ 1 + i - 1 = i
      BY <1>1
    <3>. QED  BY <2>2, <3>1
  <2>. QED  BY <2>2, <2>3, <2>4 DEF Front
<1>. QED  BY <1>1, <1>2 DEF Last

\* Sequences that grow at one end and are cut at the other.
LEMMA TailAppend ==
  ASSUME NEW S, NEW s \in Seq(S), s # <<>>, NEW x \in S
  PROVE  Tail(Append(s, x)) = Append(Tail(s), x)
<1>. DEFINE u == Append(s, x)  t == Tail(s)
<1>1. /\ u \in Seq(S) /\ Len(u) = Len(s) + 1 /\ Len(s) \in Nat /\ u # <<>>
      /\ \A i \in 1 .. Len(s) : u[i] = s[i]
      /\ u[Len(s) + 1] = x
  BY AppendProperties, LenProperties, EmptySeq
<1>2. /\ t \in Seq(S) /\ Len(t) = Len(s) - 1 /\ Len(t) \in Nat
      /\ \A i \in 1 .. Len(t) : t[i] = s[i + 1]
  BY HeadTailProperties, LenProperties
<1>. HIDE DEF u, t
<1>3. /\ Append(t, x) \in Seq(S) /\ Len(Append(t, x)) = Len(s)
      /\ \A i \in 1 .. Len(t) : Append(t, x)[i] = t[i]
      /\ Append(t, x)[Len(t) + 1] = x
  BY <1>1, <1>2, AppendProperties
<1>4. /\ Tail(u) \in Seq(S) /\ Len(Tail(u)) = Len(s)
      /\ \A i \in 1 .. Len(s) : Tail(u)[i] = u[i + 1]
  BY <1>1, HeadTailProperties
<1>5. ASSUME NEW i \in 1 .. Len(s) PROVE Tail(u)[i] = Append(t, x)[i]
  <2>1. CASE i = Len(s)
    BY <1>1, <1>2, <1>3, <1>4, <2>1
  <2>2. CASE i # Len(s)
    <3>1. i \in 1 .. Len(t) /\ i + 1 \in 1 .. Len(s)
      BY <1>1, <1>2, <2>2
    <3>. QED  BY <1>1, <1>2, <1>3, <1>4, <3>1
  <2>. QED  BY <2>1, <2>2
<1>6. Tail(u) = Append(t, x)
  BY <1>3, <1>4, <1>5, SeqEqual
<1>. QED  BY <1>6 DEF u, t

\* Cutting at both ends.
LEMMA TailFront ==
  ASSUME NEW S, NEW s \in Seq(S), Len(s) > 1
  PROVE  Append(Tail(Front(s)), Last(s)) = Tail(s)
<1>1. /\ Front(s) \in Seq(S) /\ Len(Front(s)) = Len(s) - 1 /\ Len(s) \in Nat
      /\ \A i \in 1 .. Len(s) - 1 : Front(s)[i] = s[i]
      /\ Last(s) = s[Len(s)] /\ Last(s) \in S
  BY FrontIs, LenProperties
<1>2. s = Append(Front(s), Last(s))
  <2>1. /\ Append(Front(s), Last(s)) \in Seq(S) /\ Len(Append(Front(s), Last(s))) = Len(s)
        /\ \A i \in 1 .. Len(s) - 1 : Append(Front(s), Last(s))[i] = s[i]
        /\ Append(Front(s), Last(s))[Len(s)] = s[Len(s)]
    BY <1>1, AppendProperties
  <2>2. \A i \in 1 .. Len(s) : s[i] = Append(Front(s), Last(s))[i]
    BY <1>1, <2>1
  <2>. QED  BY <2>1, <2>2, SeqEqual
<1>3. Front(s) # <<>>
  BY <1>1
<1>. QED  BY <1>1, <1>2, <1>3, TailAppend

\* The program is the filters and the names they were given.
LEMMA ProgramIs ==
  ASSUME LoadInv
  PROVE  /\ Len(infos) \in Nat
         /\ Program \in Seq([filter : Filters, names : Seq(Names)])
         /\ Len(Program) = Len(infos)
<1>1. Len(infos) \in Nat
  BY LenProperties DEF LoadInv, LoadTypeOK
<1>2. Program \in [1 .. Len(infos) -> [filter : Filters, names : Seq(Names)]]
  BY DEF Program, LoadInv, InfosInv, Known, KnownIn
<1>. QED  BY <1>1, <1>2, OfLength

\* A filter line adds itself to the program.
LEMMA FlowLine ==
  ASSUME GraphInv, GraphInv', NEW f \in Filters, AddFilter(f)
  PROVE  Flow!Line(f)
<1>. DEFINE given == Selection(f)
            out == initialize(f, given)
            line == [filter |-> f, names |-> given]
            L == [filter : Filters, names : Seq(Names)]
<1>0. LoadInv /\ LoadInv' /\ Len(infos) \in Nat /\ infos \in Seq(Infos)
  BY LenProperties DEF GraphInv, LoadInv, LoadTypeOK
<1>1. /\ given \in Seq(Names)
      /\ out \in Seq(Names)
  BY <1>0, LineNames DEF Known, KnownIn
<1>2. /\ Len(infos') = Len(infos) + 1
      /\ \A k \in 1 .. Len(infos) : infos'[k] = infos[k]
      /\ infos'[Len(infos) + 1].filter = f /\ infos'[Len(infos) + 1].given = given
  BY <1>0 DEF AddFilter
<1>3. Program' = Append(Program, line)
  <2>1. Program \in Seq(L) /\ Len(Program) = Len(infos) /\ line \in L
    BY <1>0, <1>1, ProgramIs
  <2>2. Program' \in Seq(L) /\ Len(Program') = Len(infos) + 1
    <3>1. LoadInv' => (Program \in Seq(L) /\ Len(Program) = Len(infos))'
      BY ProgramIs, PTL
    <3>. QED  BY <1>0, <1>2, <3>1
  <2>3. /\ Append(Program, line) \in Seq(L) /\ Len(Append(Program, line)) = Len(infos) + 1
        /\ \A k \in 1 .. Len(infos) : Append(Program, line)[k] = Program[k]
        /\ Append(Program, line)[Len(infos) + 1] = line
    <3>. HIDE DEF L, line
    <3>. QED  BY <2>1, AppendProperties
  <2>4. ASSUME NEW k \in 1 .. Len(infos) + 1
        PROVE  Program'[k] = Append(Program, line)[k]
    <3>1. Program'[k] = [filter |-> infos'[k].filter, names |-> infos'[k].given]
      BY <1>2 DEF Program
    <3>2. CASE k = Len(infos) + 1
      BY <1>2, <2>3, <3>1, <3>2
    <3>3. CASE k \in 1 .. Len(infos)
      <4>1. Program[k] = [filter |-> infos[k].filter, names |-> infos[k].given]
        BY <3>3 DEF Program
      <4>. QED  BY <1>2, <2>3, <3>1, <3>3, <4>1
    <3>4. k = Len(infos) + 1 \/ k \in 1 .. Len(infos)
      BY <1>0
    <3>. QED  BY <3>2, <3>3, <3>4
  <2>. HIDE DEF L, line
  <2>. QED  BY <1>0, <2>2, <2>3, <2>4, SeqEqual
<1>4. /\ Tail(saved) \in Seq(Seq(Names))
      /\ Front(Selected) = Tail(saved) /\ Last(Selected) = current
  <2>1. saved \in Seq(Seq(Names)) /\ saved # <<>> /\ current \in Seq(Names)
    BY <1>0 DEF LoadInv, LoadTypeOK, NamesInv, Known, KnownIn
  <2>2. Tail(saved) \in Seq(Seq(Names))
    BY <2>1, HeadTailProperties
  <2>. QED  BY <2>1, <2>2, FrontLast DEF Selected
<1>5. Selected' = IF getSelectChannels(f) THEN Append(Front(Selected), out) ELSE Selected
  BY <1>4 DEF AddFilter, Selected
<1>6. given = IF getAllChannels(f) THEN allNames ELSE Last(Selected)
  BY <1>4 DEF Selection
<1>7. FlowOf' = FlowOf /\ position' = position
  BY DEF AddFilter, processVars, FlowOf
<1>8. allNames' = Extend(allNames, out)
  BY <1>0, AddFilterExtends
<1>. HIDE DEF given
<1>9. LET given_ == IF Flow!getAllChannels(f) THEN allNames ELSE Flow!Last(Selected)
          out_ == Flow!initialize(f, given_)
      IN /\ Program' = Append(Program, [filter |-> f, names |-> given_])
         /\ allNames' = Flow!Extend(allNames, out_)
         /\ Selected' = IF Flow!getSelectChannels(f)
                        THEN Append(Flow!Front(Selected), out_) ELSE Selected
  BY <1>3, <1>5, <1>6, <1>8, SameOperators
<1>. QED  BY <1>7, <1>9 DEF Flow!Line, Program, Selected, FlowOf

\* A file that is included selects as the including one; its end selects as before.
LEMMA FlowFile ==
  ASSUME GraphInv, StartOfFile \/ EndOfFile
  PROVE  Flow!Include \/ Flow!EndOfFile
<1>1. saved \in Seq(Seq(Names)) /\ saved # <<>> /\ current \in Seq(Names) /\ Len(saved) \in Nat
  BY LenProperties DEF GraphInv, LoadInv, LoadTypeOK, NamesInv, Known, KnownIn
<1>2. /\ Tail(saved) \in Seq(Seq(Names)) /\ Len(Tail(saved)) = Len(saved) - 1
      /\ Front(Selected) = Tail(saved) /\ Last(Selected) = current
      /\ Len(Selected) = Len(saved)
  <2>1. Tail(saved) \in Seq(Seq(Names)) /\ Len(Tail(saved)) = Len(saved) - 1
    BY <1>1, HeadTailProperties
  <2>2. Len(Selected) = Len(Tail(saved)) + 1
    BY <1>1, <2>1, AppendProperties DEF Selected
  <2>3. Front(Selected) = Tail(saved) /\ Last(Selected) = current
    BY <1>1, <2>1, FrontLast DEF Selected
  <2>4. Len(Selected) = Len(saved)
    BY <1>1, <2>1, <2>2
  <2>. QED  BY <2>1, <2>3, <2>4
<1>3. UNCHANGED <<Program, allNames, FlowOf, position>>
  BY DEF StartOfFile, EndOfFile, processVars, Program, FlowOf
<1>4. CASE StartOfFile
  <2>1. Selected' = Append(Selected, Last(Selected))
    <3>1. Selected' = Append(Tail(Append(saved, current)), current)
      BY <1>4 DEF StartOfFile, Selected
    <3>2. Tail(Append(saved, current)) = Selected
      BY <1>1, TailAppend DEF Selected
    <3>. QED  BY <1>2, <3>1, <3>2
  <2>. QED  BY <1>3, <2>1, SameOperators DEF Flow!Include, Program, Selected, FlowOf
<1>5. CASE EndOfFile
  <2>1. Len(saved) > 1
    BY <1>5 DEF EndOfFile
  <2>2. Selected' = Append(Tail(Front(saved)), Last(saved))
    BY <1>5 DEF EndOfFile, Selected
  <2>3. Selected' = Front(Selected)
    BY <1>1, <1>2, <2>1, <2>2, TailFront
  <2>4. Len(Selected) > 1
    BY <1>2, <2>1
  <2>. QED  BY <1>3, <2>3, <2>4, SameOperators DEF Flow!EndOfFile, Program, Selected, FlowOf
<1>. QED  BY <1>4, <1>5

\* What has no meaning for the program leaves it alone.
LEMMA FlowOther ==
  ASSUME NoThrow, GraphInv,
         \/ \E f \in Filters : AddFilterThrows(f)
         \/ Publish \/ UNCHANGED graphVars
  PROVE  UNCHANGED flowVars
<1>1. ASSUME NEW f \in Filters, AddFilterThrows(f) PROVE UNCHANGED flowVars
  <2>1. UNCHANGED <<loadVars, processVars, blocks>>
    BY <1>1, ThrownIsRolledBack DEF GraphInv
  <2>. QED  BY <2>1 DEF loadVars, processVars, flowVars, Program, Selected, FlowOf
<1>2. CASE Publish
  <2>1. position = 0 /\ position' = 0
    BY <1>2 DEF GraphInv, PointerInv, Publish
  <2>. QED  BY <1>2, <2>1 DEF Publish, loadVars, flowVars, Program, Selected, FlowOf
<1>3. CASE UNCHANGED graphVars
  BY <1>3 DEF graphVars, loadVars, processVars, flowVars, Program, Selected, FlowOf
<1>. QED  BY <1>1, <1>2, <1>3

\* A block begins with the samples it reads.
LEMMA FlowBlock ==
  ASSUME GraphInv, Read
  PROVE  Flow!Block
<1>. DEFINE n == Len(allNames)
<1>0. /\ n \in Nat /\ position = 0 /\ position' = 1
      /\ UNCHANGED <<infos, allNames, saved, current, allSamples, allSamples2>>
  BY LenProperties DEF Read, loadVars, GraphInv, PointerInv, LoadInv, NamesInv
<1>1. Paired(n, allSamples, allSamples2) /\ DOMAIN samples = Buffers(n)
  BY DEF Read, GraphInv, BufferInv
<1>. HIDE DEF n
<1>2. allSamples \in [1 .. n -> Buffers(n)] /\ Len(allSamples) = n /\ allSamples \in Seq(Buffers(n))
  BY <1>0, <1>1, OfLength DEF Paired
<1>3. Distinct(allSamples)
  BY <1>1, <1>2 DEF Paired, Distinct, Buffer, Buffer2
<1>4. ASSUME NEW c \in 1 .. n PROVE samples'[allSamples[c]] = Arriving(c)
  <2>1. allSamples[c] \in Range(allSamples) /\ allSamples[c] \in DOMAIN samples
    BY <1>1, <1>2, RangeIs
  <2>2. Position(allSamples, allSamples[c]) = c
    BY <1>2, <1>3, <2>1, PositionIs
  <2>. QED  BY <2>1, <2>2 DEF Read
<1>5. FlowOf' = [c \in 1 .. n |-> Arriving(c)]
  BY <1>0, <1>2, <1>4 DEF FlowOf
<1>6. FlowOf' = [c \in 1 .. Len(allNames) |-> Flow!Arriving(c)]
  BY <1>5, SameOperators DEF n
<1>7. UNCHANGED <<Program, allNames, Selected>>
  BY <1>0 DEF Program, Selected
<1>. QED  BY <1>0, <1>6, <1>7 DEF Flow!Block, Program, Selected, FlowOf

\* A block ends when every filter has run.
LEMMA FlowDone ==
  ASSUME GraphInv, Write
  PROVE  Flow!Done
<1>1. Len(Program) = Len(infos)
  BY ProgramIs DEF GraphInv
<1>2. UNCHANGED <<Program, allNames, Selected>> /\ position = Len(infos) + 1 /\ position' = 0
  BY DEF Write, loadVars, Program, Selected
<1>3. FlowOf' = <<>>
  BY <1>2 DEF FlowOf
<1>. QED  BY <1>1, <1>2, <1>3 DEF Flow!Done, Program, Selected, FlowOf

\* Different channels never share a buffer.
LEMMA BuffersApart ==
  ASSUME NEW n, NEW pointers, NEW others, Paired(n, pointers, others),
         NEW c \in 1 .. n, NEW d \in 1 .. n
  PROVE  /\ pointers[c] = pointers[d] => c = d
         /\ others[c] = others[d] => c = d
         /\ pointers[c] = others[d] => c = d
<1>1. ASSUME NEW k \in 1 .. n
      PROVE  /\ pointers[k] \in {<<"data", k>>, <<"data2", k>>}
             /\ others[k] \in {<<"data", k>>, <<"data2", k>>}
  BY DEF Paired, Buffer, Buffer2
<1>2. ASSUME NEW x \in {<<"data", c>>, <<"data2", c>>}, NEW y \in {<<"data", d>>, <<"data2", d>>}, x = y
      PROVE  c = d
  BY <1>2
<1>. QED  BY <1>1, <1>2

\* Where the channels point after a filter.
LEMMA NextPointers ==
  ASSUME GraphInv, RunFilter, NEW c \in 1 .. Len(allNames)
  PROVE  LET out == OutOf(infos[position])
         IN allSamples'[c] = IF allNames[c] \in Range(out) /\ ~getInPlace(Filter)
                               THEN allSamples2[c] ELSE allSamples[c]
<1>. DEFINE out == OutOf(infos[position])
            list == infos[position].outChannels
            n == Len(allNames)
<1>1. /\ phase = "running" /\ position <= Len(infos) /\ LoadInv
  BY DEF RunFilter, GraphInv
<1>2. Known(out) /\ (~getInPlace(Filter) => list = Positions(allNames, out))
  BY <1>1, OutputIs
<1>3. n \in Nat /\ allNames \in Seq(Names) /\ Distinct(allNames)
  BY <1>1, LenProperties DEF LoadInv, NamesInv
<1>4. CASE getInPlace(Filter)
  BY <1>4 DEF RunFilter
<1>5. CASE ~getInPlace(Filter)
  <2>1. allSamples' = Swapped(allSamples, allSamples2)
    BY <1>5 DEF RunFilter
  <2>2. allSamples \in [1 .. n -> Buffers(n)]
    BY <1>1 DEF GraphInv, BufferInv, Paired
  <2>. HIDE DEF out, n
  <2>3. Len(allSamples) = n
    BY <1>3, <2>2, OfLength
  <2>4. /\ list \in Seq(1 .. n) /\ Len(list) = Len(out)
        /\ \A j \in 1 .. Len(out) :
             /\ list[j] = Position(allNames, out[j])
             /\ Position(allNames, out[j]) \in 1 .. n
             /\ allNames[Position(allNames, out[j])] = out[j]
    <3>1. out \in Seq(Names) /\ Range(out) \subseteq Range(allNames)
      BY <1>2 DEF Known, KnownIn
    <3>2. list = Positions(allNames, out)
      BY <1>2, <1>5
    <3>3. /\ Positions(allNames, out) \in Seq(1 .. Len(allNames))
          /\ Len(Positions(allNames, out)) = Len(out)
          /\ \A j \in 1 .. Len(out) :
               /\ Positions(allNames, out)[j] = Position(allNames, out[j])
               /\ Position(allNames, out[j]) \in 1 .. Len(allNames)
               /\ allNames[Position(allNames, out[j])] = out[j]
      <4>1. allNames \in Seq(Names) /\ Distinct(allNames)
        BY <1>3
      <4>. QED  BY <3>1, <4>1, PositionsAre, SMTT(30)
    <3>. HIDE DEF list
    <3>. QED  BY <3>2, <3>3 DEF n
  <2>. HIDE DEF list
  <2>5. c \in 1 .. n
    BY DEF n
  <2>6. c \in Range(list) <=> allNames[c] \in Range(out)
    <3>1. ASSUME c \in Range(list) PROVE allNames[c] \in Range(out)
      <4>1. PICK j \in 1 .. Len(list) : list[j] = c
        BY <2>4, <3>1, RangeIs
      <4>2. allNames[c] = out[j] /\ j \in 1 .. Len(out)
        BY <2>4, <4>1
      <4>3. out \in Seq(Names)
        BY <1>2 DEF Known, KnownIn
      <4>. QED  BY <4>2, <4>3, RangeIs
    <3>2. ASSUME allNames[c] \in Range(out) PROVE c \in Range(list)
      <4>1. out \in Seq(Names) /\ Range(out) \subseteq Range(allNames)
        BY <1>2 DEF Known, KnownIn
      <4>2. PICK j \in 1 .. Len(out) : out[j] = allNames[c]
        BY <3>2, <4>1, RangeIs
      <4>3. Position(allNames, allNames[c]) = c
        <5>1. allNames[c] \in Range(allNames)
          BY <3>2, <4>1
        <5>. QED  BY <1>3, <2>5, <5>1, PositionIs DEF n
      <4>4. list[j] = c /\ j \in 1 .. Len(list)
        BY <2>4, <4>2, <4>3
      <4>. QED  BY <2>4, <4>4, RangeIs
    <3>. QED  BY <3>1, <3>2
  <2>7. allSamples'[c] = IF c \in Range(list) THEN allSamples2[c] ELSE allSamples[c]
    BY <2>1, <2>3, <2>5 DEF Swapped, list
  <2>. QED  BY <1>5, <2>6, <2>7 DEF out
<1>. QED  BY <1>4, <1>5

\* A filter changes the samples of its own channels as its line says.
LEMMA FlowRun ==
  ASSUME GraphInv, GraphInv', RunFilter
  PROVE  Flow!Run
<1>. DEFINE n == Len(allNames)
            given == infos[position].given
            out == OutOf(infos[position])
            to == IF getInPlace(Filter) THEN allSamples ELSE allSamples2
            input == [j \in 1 .. InputCount |-> samples[Input[j]]]
            written == {Output[j] : j \in 1 .. OutputCount}
<1>0. /\ phase = "running" /\ position <= Len(infos) /\ position' = position + 1 /\ LoadInv
      /\ UNCHANGED <<infos, allNames, saved, current, phase>>
  BY DEF RunFilter, loadVars, GraphInv
<1>1. n \in Nat /\ allNames \in Seq(Names) /\ Distinct(allNames) /\ Len(infos) \in Nat
  BY <1>0, LenProperties DEF LoadInv, LoadTypeOK, NamesInv
<1>2. position \in 1 .. Len(infos) /\ position # 0 /\ position' # 0
  BY <1>0, <1>1 DEF GraphInv, PointerInv
<1>3. /\ Paired(n, allSamples, allSamples2) /\ DOMAIN samples = Buffers(n)
      /\ allSamples \in [1 .. n -> Buffers(n)] /\ allSamples2 \in [1 .. n -> Buffers(n)]
      /\ allSamples' \in [1 .. n -> Buffers(n)]
  BY <1>0 DEF GraphInv, BufferInv, Paired
<1>4. Len(allSamples) = n /\ Len(allSamples') = n
  <2>. HIDE DEF n
  <2>. QED  BY <1>1, <1>3, OfLength
<1>5. /\ FlowOf = [c \in 1 .. n |-> samples[allSamples[c]]]
      /\ FlowOf' = [c \in 1 .. n |-> samples'[allSamples'[c]]]
  <2>. HIDE DEF n
  <2>. QED  BY <1>2, <1>4 DEF FlowOf
<1>6. /\ Known(given)
      /\ \A j \in 1 .. Len(given) : Input[j] = PointerOf(allSamples, given[j])
  BY <1>0, InputIs
<1>7. /\ Known(out)
      /\ \A j \in 1 .. Len(out) : Output[j] = PointerOf(to, out[j])
  BY <1>0, OutputIs
<1>8. /\ InputCount = IF Produces(Filter) THEN Len(given) ELSE 0
      /\ OutputCount = IF Produces(Filter) THEN Len(out) ELSE 0
  BY DEF InputCount, OutputCount, OutOf, Filter
<1>9. \A b \in Buffers(n) : samples'[b] =
        IF b \in written
          THEN Product(position, Filter, given, input, CHOOSE j \in 1 .. OutputCount : Output[j] = b)
          ELSE samples[b]
  <2>1. samples' = Processed
    BY DEF RunFilter
  <2>. QED  BY <1>3, <2>1 DEF Processed
<1>10. \A c \in 1 .. n : allSamples'[c] = IF allNames[c] \in Range(out) THEN to[c] ELSE allSamples[c]
  <2>1. \A c \in 1 .. n : allSamples'[c] = IF allNames[c] \in Range(out) /\ ~getInPlace(Filter)
                                            THEN allSamples2[c] ELSE allSamples[c]
    BY NextPointers
  <2>. HIDE DEF out, n
  <2>. QED  BY <2>1
<1>11. \A c, d \in 1 .. n :
         /\ to[c] = to[d] => c = d
         /\ allSamples[c] = to[d] => c = d
  <2>. SUFFICES ASSUME NEW c \in 1 .. n, NEW d \in 1 .. n
       PROVE  /\ to[c] = to[d] => c = d
              /\ allSamples[c] = to[d] => c = d
    OBVIOUS
  <2>. HIDE DEF n
  <2>1. /\ allSamples[c] = allSamples[d] => c = d
        /\ allSamples2[c] = allSamples2[d] => c = d
        /\ allSamples[c] = allSamples2[d] => c = d
    <3>1. Paired(n, allSamples, allSamples2)
      BY <1>3
    <3>. QED  BY <3>1, BuffersApart
  <2>. QED  BY <2>1
<1>12. to \in [1 .. n -> Buffers(n)]
  BY <1>3
<1>. HIDE DEF n, given, out, to
\* The names and their places.
<1>13. \A j \in 1 .. Len(out) :
         /\ Position(allNames, out[j]) \in 1 .. n
         /\ allNames[Position(allNames, out[j])] = out[j]
         /\ out[j] \in Range(out)
         /\ Output[j] = to[Position(allNames, out[j])]
  <2>1. out \in Seq(Names) /\ Range(out) \subseteq Range(allNames)
    BY <1>7 DEF Known, KnownIn
  <2>2. \A j \in 1 .. Len(out) : out[j] \in Range(out)
    BY <2>1, RangeIs
  <2>3. \A j \in 1 .. Len(out) :
         /\ Position(allNames, out[j]) \in 1 .. n
         /\ allNames[Position(allNames, out[j])] = out[j]
    BY <1>1, <2>1, PositionsAre DEF n
  <2>. QED  BY <1>7, <2>2, <2>3 DEF PointerOf
\* The samples of every channel.
<1>14. ASSUME NEW c \in 1 .. n
       PROVE  FlowOf'[c] = IF allNames[c] \in Range(out) /\ Produces(Filter)
                             THEN Product(position, Filter, given, input, Position(out, allNames[c]))
                             ELSE FlowOf[c]
  <2>0. /\ FlowOf'[c] = samples'[allSamples'[c]] /\ FlowOf[c] = samples[allSamples[c]]
        /\ allSamples[c] \in Buffers(n) /\ to[c] \in Buffers(n)
    BY <1>3, <1>5, <1>12
  <2>1. CASE ~Produces(Filter)
    <3>1. to = allSamples
      BY <2>1 DEF Produces, getInPlace, to
    <3>2. written = {}
      BY <1>8, <2>1
    <3>3. allSamples'[c] = allSamples[c]
      BY <1>10, <3>1
    <3>. HIDE DEF written, input
    <3>. QED  BY <1>9, <2>0, <2>1, <3>2, <3>3
  <2>2. CASE allNames[c] \notin Range(out)
    <3>1. allSamples'[c] = allSamples[c]
      BY <1>10, <2>2
    <3>2. ASSUME allSamples[c] \in written PROVE FALSE
      <4>1. PICK j \in 1 .. OutputCount : Output[j] = allSamples[c]
        BY <3>2
      <4>2. j \in 1 .. Len(out)
        BY <1>8, <4>1
      <4>3. c = Position(allNames, out[j])
        BY <1>11, <1>13, <4>1, <4>2
      <4>. QED  BY <1>13, <2>2, <4>2, <4>3
    <3>. HIDE DEF written, input
    <3>. QED  BY <1>9, <2>0, <2>2, <3>1, <3>2
  <2>3. CASE allNames[c] \in Range(out) /\ Produces(Filter)
    <3>. DEFINE j == Position(out, allNames[c])
    <3>1. j \in 1 .. Len(out) /\ out[j] = allNames[c]
      BY <1>7, <2>3, PositionIs DEF Known, KnownIn
    <3>. HIDE DEF j
    <3>2. OutputCount = Len(out) /\ allSamples'[c] = to[c]
      BY <1>8, <1>10, <2>3
    <3>3. \A i \in 1 .. Len(out) : Output[i] = to[c] <=> i = j
      <4>. SUFFICES ASSUME NEW i \in 1 .. Len(out) PROVE Output[i] = to[c] <=> i = j
        OBVIOUS
      <4>0. \A k \in 1 .. n : allNames[k] = allNames[c] => k = c
        BY <1>1 DEF Distinct, n
      <4>1. Position(allNames, out[j]) = c
        BY <1>13, <3>1, <4>0
      <4>2. ASSUME i = j PROVE Output[i] = to[c]
        BY <1>13, <3>1, <4>1, <4>2
      <4>3. ASSUME Output[i] = to[c] PROVE i = j
        <5>1. Position(allNames, out[i]) = c
          BY <1>11, <1>13, <4>3
        <5>2. out[i] = out[j]
          BY <1>13, <3>1, <5>1
        <5>. QED  BY <1>7, <3>1, <5>2 DEF Known, KnownIn, Distinct
      <4>. QED  BY <4>2, <4>3
    <3>4. (CHOOSE i \in 1 .. OutputCount : Output[i] = to[c]) = j
      BY <3>1, <3>2, <3>3
    <3>5. to[c] \in written
      BY <3>1, <3>2, <3>3
    <3>. HIDE DEF written, input
    <3>6. samples'[to[c]] = Product(position, Filter, given, input, j)
      BY <1>9, <2>0, <3>4, <3>5
    <3>. QED  BY <2>0, <2>3, <3>2, <3>6 DEF j
  <2>. QED  BY <2>1, <2>2, <2>3
<1>15. Produces(Filter) => input = [j \in 1 .. Len(given) |-> FlowOf[Position(allNames, given[j])]]
  <2>. SUFFICES ASSUME Produces(Filter)
       PROVE  input = [j \in 1 .. Len(given) |-> FlowOf[Position(allNames, given[j])]]
    OBVIOUS
  <2>1. InputCount = Len(given)
    BY <1>8
  <2>2. ASSUME NEW j \in 1 .. Len(given)
        PROVE  samples[Input[j]] = FlowOf[Position(allNames, given[j])]
    <3>1. given \in Seq(Names) /\ Range(given) \subseteq Range(allNames)
      BY <1>6 DEF Known, KnownIn
    <3>2. Position(allNames, given[j]) \in 1 .. n
      BY <1>1, <3>1, PositionsAre DEF n
    <3>. QED  BY <1>5, <1>6, <3>2 DEF PointerOf
  <2>. QED  BY <2>1, <2>2
<1>16. FlowOf' = [c \in 1 .. n |->
          IF allNames[c] \in Range(out) /\ Produces(Filter)
            THEN Product(position, Filter, given, input, Position(out, allNames[c]))
            ELSE FlowOf[c]]
  <2>. HIDE DEF input
  <2>. QED  BY <1>5, <1>14
<1>17. Program[position] = [filter |-> Filter, names |-> given]
  BY <1>2 DEF Program, Filter, given
<1>18. out = initialize(Filter, given)
  BY DEF out, OutOf, Filter, given
<1>19. FlowOf' = [c \in 1 .. n |->
          IF allNames[c] \in Range(out) /\ Produces(Filter)
            THEN Product(position, Filter, given,
                         [j \in 1 .. Len(given) |-> FlowOf[Position(allNames, given[j])]],
                         Position(out, allNames[c]))
            ELSE FlowOf[c]]
  <2>1. CASE Produces(Filter)
    <3>. HIDE DEF input
    <3>. QED  BY <1>15, <1>16, <2>1
  <2>2. CASE ~Produces(Filter)
    <3>. HIDE DEF input
    <3>. QED  BY <1>16, <2>2
  <2>. QED  BY <2>1, <2>2
<1>20. FlowOf' =
        LET p == Program[position]
            out_ == Flow!initialize(p.filter, p.names)
            input_ == [j \in 1 .. Len(p.names) |-> FlowOf[Flow!Position(allNames, p.names[j])]]
        IN [c \in 1 .. Len(allNames) |->
             IF allNames[c] \in Flow!Range(out_) /\ Flow!Produces(p.filter)
               THEN Flow!Product(position, p.filter, p.names, input_, Flow!Position(out_, allNames[c]))
               ELSE FlowOf[c]]
  BY <1>17, <1>18, <1>19, SameOperators DEF n
<1>21. position \in 1 .. Len(Program)
  BY <1>0, <1>2, ProgramIs
<1>22. UNCHANGED <<Program, allNames, Selected>>
  BY <1>0 DEF Program, Selected
<1>. QED  BY <1>0, <1>20, <1>21, <1>22 DEF Flow!Run, Program, Selected, FlowOf

\* Every step is one of the program, or none.
LEMMA FlowStep ==
  NoThrow /\ GraphInv /\ GraphInv' /\ [GraphNext]_graphVars => [Flow!Next]_(Flow!vars)
<1>. SUFFICES ASSUME NoThrow, GraphInv, GraphInv', [GraphNext]_graphVars
     PROVE  [Flow!Next]_(Flow!vars)
  OBVIOUS
<1>0. (UNCHANGED flowVars) => UNCHANGED Flow!vars
  BY DEF Flow!vars, flowVars, Program, Selected, FlowOf
<1>1. ASSUME NEW f \in Filters, AddFilter(f) PROVE Flow!Next
  BY <1>1, FlowLine DEF Flow!Next
<1>2. CASE StartOfFile \/ EndOfFile
  BY <1>2, FlowFile DEF Flow!Next
<1>3. CASE (\E f \in Filters : AddFilterThrows(f)) \/ Publish \/ UNCHANGED graphVars
  BY <1>0, <1>3, FlowOther
<1>4. CASE Read
  BY <1>4, FlowBlock DEF Flow!Next
<1>5. CASE RunFilter
  BY <1>5, FlowRun DEF Flow!Next
<1>6. CASE Write
  BY <1>6, FlowDone DEF Flow!Next
<1>. QED  BY <1>1, <1>2, <1>3, <1>4, <1>5, <1>6 DEF GraphNext, LoadStep, ProcessStep

\* The engine does what the lines say: each block's samples pass through the
\* filters in the order of their lines, each over the channels selected at its
\* line, with nothing mixed up by the sharing and swapping of buffers.
THEOREM GraphImplementsFlow == ASSUME NoThrow PROVE GraphSpec => ImplementsChannelFlow
<1>1. GraphInit => Flow!Init
  BY FlowInit
<1>2. GraphInv /\ GraphInv' /\ [GraphNext]_graphVars => [Flow!Next]_(Flow!vars)
  BY FlowStep
<1>. QED  BY <1>1, <1>2, GraphInvariant, PTL DEF GraphSpec, ImplementsChannelFlow, Flow!Spec


-----------------------------------------------------------------------------
(* What the counters and the flag say of a file F that is being read: the  *)
(* first t of its chains run, the next one may still be taken exactly when *)
(* the flag e is up, the f - 1 chains inside it are not looked at.         *)

ChainSet == [runs : BOOLEAN, decided : BOOLEAN]

OpenFile(F, t, f, e) ==
  /\ F \in Seq(ChainSet) /\ t \in Nat /\ f \in Nat /\ e \in BOOLEAN
  /\ Len(F) = t + f
  /\ \A i \in 1 .. Len(F) : F[i].runs <=> i <= t
  /\ \A i \in 1 .. Len(F) : i # t + 1 => F[i].decided
  /\ f = 0 => ~e
  /\ f > 0 => (e <=> ~F[t + 1].decided)

\* An If opens a chain in a branch that runs, or in one that does not.
LEMMA ChainOpened ==
  ASSUME NEW F, NEW t, NEW f, NEW e, OpenFile(F, t, f, e), NEW c \in ChainSet
  PROVE  /\ f = 0 /\ c.runs /\ c.decided => OpenFile(Append(F, c), t + 1, 0, e)
         /\ f = 0 /\ ~c.runs => OpenFile(Append(F, c), t, 1, ~c.decided)
         /\ f > 0 /\ ~c.runs /\ c.decided => OpenFile(Append(F, c), t, f + 1, e)
<1>. DEFINE G == Append(F, c)
<1>1. /\ F \in Seq(ChainSet) /\ t \in Nat /\ f \in Nat /\ e \in BOOLEAN /\ Len(F) = t + f
      /\ \A i \in 1 .. Len(F) : F[i].runs <=> i <= t
      /\ \A i \in 1 .. Len(F) : i # t + 1 => F[i].decided
      /\ f = 0 => ~e
      /\ f > 0 => (e <=> ~F[t + 1].decided)
  BY DEF OpenFile
<1>2. /\ G \in Seq(ChainSet) /\ Len(G) = t + f + 1
      /\ \A i \in 1 .. t + f : G[i] = F[i]
      /\ G[t + f + 1] = c
  BY <1>1, AppendProperties
<1>3. \A i \in 1 .. Len(G) : i \in 1 .. t + f \/ i = t + f + 1
  BY <1>1, <1>2
<1>. HIDE DEF G
<1>4. ASSUME f = 0, c.runs, c.decided PROVE OpenFile(G, t + 1, 0, e)
  <2>1. Len(G) = t + 1 + 0 /\ t + 1 \in Nat /\ 0 \in Nat
    BY <1>1, <1>2, <1>4
  <2>2. \A i \in 1 .. Len(G) : (G[i].runs <=> i <= t + 1) /\ (i # t + 1 + 1 => G[i].decided)
    BY <1>1, <1>2, <1>3, <1>4
  <2>. QED  BY <1>1, <1>2, <1>4, <2>1, <2>2 DEF OpenFile
<1>5. ASSUME f = 0, ~c.runs PROVE OpenFile(G, t, 1, ~c.decided)
  <2>1. Len(G) = t + 1 /\ 1 \in Nat
    BY <1>1, <1>2, <1>5
  <2>a. (~c.decided) \in BOOLEAN
    OBVIOUS
  <2>2. \A i \in 1 .. Len(G) : (G[i].runs <=> i <= t) /\ (i # t + 1 => G[i].decided)
    BY <1>1, <1>2, <1>3, <1>5
  <2>3. G[t + 1] = c
    BY <1>1, <1>2, <1>5
  <2>. QED  BY <1>1, <1>2, <2>1, <2>a, <2>2, <2>3 DEF OpenFile
<1>6. ASSUME f > 0, ~c.runs, c.decided PROVE OpenFile(G, t, f + 1, e)
  <2>1. Len(G) = t + (f + 1) /\ f + 1 \in Nat /\ f + 1 # 0
    BY <1>1, <1>2
  <2>2. \A i \in 1 .. Len(G) : (G[i].runs <=> i <= t) /\ (i # t + 1 => G[i].decided)
    <3>. SUFFICES ASSUME NEW i \in 1 .. Len(G)
         PROVE  (G[i].runs <=> i <= t) /\ (i # t + 1 => G[i].decided)
      OBVIOUS
    <3>1. CASE i \in 1 .. t + f
      <4>1. (F[i].runs <=> i <= t) /\ (i # t + 1 => F[i].decided)
        BY <1>1, <3>1
      <4>. QED  BY <1>2, <3>1, <4>1
    <3>2. CASE i = t + f + 1
      <4>1. ~(i <= t) /\ G[i] = c
        BY <1>1, <1>2, <1>6, <3>2
      <4>. QED  BY <1>6, <4>1
    <3>. QED  BY <1>3, <3>1, <3>2
  <2>3. G[t + 1] = F[t + 1]
    BY <1>1, <1>2, <1>6
  <2>. QED  BY <1>1, <1>2, <1>6, <2>1, <2>2, <2>3 DEF OpenFile
<1>. QED  BY <1>4, <1>5, <1>6 DEF G

\* Every branch of the file runs, or some do not.
LEMMA FileRuns ==
  ASSUME NEW F, NEW t, NEW f, NEW e, OpenFile(F, t, f, e)
  PROVE  (\A i \in 1 .. Len(F) : F[i].runs) <=> f = 0
<1>1. /\ t \in Nat /\ f \in Nat /\ Len(F) = t + f
      /\ \A i \in 1 .. Len(F) : F[i].runs <=> i <= t
  BY DEF OpenFile
<1>2. CASE f = 0
  BY <1>1, <1>2
<1>3. CASE f # 0
  <2>1. t + 1 \in 1 .. Len(F) /\ ~(t + 1 <= t)
    BY <1>1, <1>3
  <2>. QED  BY <1>1, <1>3, <2>1
<1>. QED  BY <1>2, <1>3

\* The last chain of a file, and the file without it.
LEMMA FileEnd ==
  ASSUME NEW F, NEW t, NEW f, NEW e, OpenFile(F, t, f, e), F # <<>>
  PROVE  /\ t + f > 0 /\ Len(F) = t + f
         /\ Front(F) \in Seq(ChainSet) /\ Len(Front(F)) = t + f - 1
         /\ \A i \in 1 .. t + f - 1 : Front(F)[i] = F[i]
         /\ Last(F) = F[t + f]
<1>1. F \in Seq(ChainSet) /\ t \in Nat /\ f \in Nat /\ Len(F) = t + f
  BY DEF OpenFile
<1>2. Len(F) > 0
  BY <1>1, EmptySeq
<1>. QED  BY <1>1, <1>2, FrontIs

\* An EndIf closes the last chain.
LEMMA ChainClosed ==
  ASSUME NEW F, NEW t, NEW f, NEW e, OpenFile(F, t, f, e), F # <<>>
  PROVE  /\ f = 0 => OpenFile(Front(F), t - 1, 0, FALSE)
         /\ f = 1 => OpenFile(Front(F), t, 0, FALSE)
         /\ f > 1 => OpenFile(Front(F), t, f - 1, e)
<1>. DEFINE G == Front(F)
<1>1. /\ t \in Nat /\ f \in Nat /\ e \in BOOLEAN
      /\ \A i \in 1 .. t + f : F[i].runs <=> i <= t
      /\ \A i \in 1 .. t + f : i # t + 1 => F[i].decided
      /\ f > 0 => (e <=> ~F[t + 1].decided)
  BY DEF OpenFile
<1>2. /\ t + f > 0
      /\ G \in Seq(ChainSet) /\ Len(G) = t + f - 1
      /\ \A i \in 1 .. t + f - 1 : G[i] = F[i]
  BY FileEnd
<1>. HIDE DEF G
<1>3. ASSUME f = 0 PROVE OpenFile(G, t - 1, 0, FALSE)
  <2>1. Len(G) = (t - 1) + 0 /\ t - 1 \in Nat
    BY <1>1, <1>2, <1>3
  <2>2. \A i \in 1 .. Len(G) : (G[i].runs <=> i <= t - 1) /\ (i # t - 1 + 1 => G[i].decided)
    BY <1>1, <1>2, <1>3
  <2>. QED  BY <1>1, <1>2, <2>1, <2>2 DEF OpenFile
<1>4. ASSUME f = 1 PROVE OpenFile(G, t, 0, FALSE)
  <2>1. Len(G) = t + 0
    BY <1>1, <1>2, <1>4
  <2>2. \A i \in 1 .. Len(G) : (G[i].runs <=> i <= t) /\ (i # t + 1 => G[i].decided)
    BY <1>1, <1>2, <1>4
  <2>. QED  BY <1>1, <1>2, <2>1, <2>2 DEF OpenFile
<1>5. ASSUME f > 1 PROVE OpenFile(G, t, f - 1, e)
  <2>1. Len(G) = t + (f - 1) /\ f - 1 \in Nat /\ f - 1 # 0
    BY <1>1, <1>2, <1>5
  <2>2. \A i \in 1 .. Len(G) : (G[i].runs <=> i <= t) /\ (i # t + 1 => G[i].decided)
    BY <1>1, <1>2, <1>5
  <2>3. G[t + 1] = F[t + 1]
    BY <1>1, <1>2, <1>5
  <2>. QED  BY <1>1, <1>2, <1>5, <2>1, <2>2, <2>3 DEF OpenFile
<1>. QED  BY <1>3, <1>4, <1>5 DEF G

\* A branch that runs ends, or one that may still be taken begins.
LEMMA ChainContinued ==
  ASSUME NEW F, NEW t, NEW f, NEW e, OpenFile(F, t, f, e), F # <<>>, NEW c \in ChainSet
  PROVE  /\ f = 0 /\ ~c.runs /\ c.decided => OpenFile(Append(Front(F), c), t - 1, 1, e)
         /\ f = 1 /\ c.runs /\ c.decided => OpenFile(Append(Front(F), c), t + 1, 0, FALSE)
         /\ f > 0 /\ c = Last(F) => OpenFile(Append(Front(F), c), t, f, e)
<1>1. ASSUME f = 0, ~c.runs, c.decided PROVE OpenFile(Append(Front(F), c), t - 1, 1, e)
  <2>1. OpenFile(Front(F), t - 1, 0, FALSE)
    BY <1>1, ChainClosed
  <2>2. ~e /\ e \in BOOLEAN
    BY <1>1 DEF OpenFile
  <2>3. OpenFile(Append(Front(F), c), t - 1, 1, ~c.decided)
    BY <1>1, <2>1, ChainOpened
  <2>4. e = ~c.decided
    BY <1>1, <2>2
  <2>. QED  BY <2>3, <2>4
<1>2. ASSUME f = 1, c.runs, c.decided PROVE OpenFile(Append(Front(F), c), t + 1, 0, FALSE)
  <2>1. OpenFile(Front(F), t, 0, FALSE)
    BY <1>2, ChainClosed
  <2>. QED  BY <1>2, <2>1, ChainOpened
<1>3. ASSUME f > 0, c = Last(F) PROVE OpenFile(Append(Front(F), c), t, f, e)
  <2>1. /\ F \in Seq(ChainSet) /\ Len(F) = t + f /\ t \in Nat /\ f \in Nat
        /\ Front(F) \in Seq(ChainSet) /\ Len(Front(F)) = t + f - 1
        /\ \A i \in 1 .. t + f - 1 : Front(F)[i] = F[i]
        /\ Last(F) = F[t + f]
    <3>1. F \in Seq(ChainSet) /\ Len(F) = t + f /\ t \in Nat /\ f \in Nat
      BY DEF OpenFile
    <3>2. /\ Front(F) \in Seq(ChainSet) /\ Len(Front(F)) = t + f - 1
          /\ \A i \in 1 .. t + f - 1 : Front(F)[i] = F[i]
          /\ Last(F) = F[t + f]
      BY FileEnd
    <3>. QED  BY <3>1, <3>2, Zenon
  <2>2. /\ Append(Front(F), c) \in Seq(ChainSet) /\ Len(Append(Front(F), c)) = t + f
        /\ \A i \in 1 .. t + f - 1 : Append(Front(F), c)[i] = Front(F)[i]
        /\ Append(Front(F), c)[t + f] = c
    BY <2>1, AppendProperties
  <2>3. \A i \in 1 .. t + f : F[i] = Append(Front(F), c)[i]
    <3>1. \A i \in 1 .. t + f : i \in 1 .. t + f - 1 \/ i = t + f
      BY <2>1
    <3>. QED  BY <1>3, <2>1, <2>2, <3>1
  <2>4. Append(Front(F), c) = F
    BY <2>1, <2>2, <2>3, SeqEqual
  <2>. QED  BY <2>4
<1>. QED  BY <1>1, <1>2, <1>3

-----------------------------------------------------------------------------
(* The files that are open.                                                *)

\* A file that waits for the end of the one it includes: all its branches
\* run, and what the factories will restore is what its line has left.
WaitingFile(k) ==
  /\ \A i \in 1 .. Len(chains[k]) : chains[k][i].runs /\ chains[k][i].decided
  /\ trueCountStack[k + 1] = Len(chains[k])
  /\ outside[k] = [device |-> TRUE, trueCount |-> Len(chains[k]), falseCount |-> 0,
                   executeElse |-> FALSE, stage |-> stageMatchesStack[k + 1],
                   selected |-> saved[k + 1]]

\* What an included file must leave as it was.
StateSet ==
  [device : BOOLEAN, trueCount : Nat, falseCount : Nat, executeElse : BOOLEAN,
   stage : BOOLEAN, selected : Seq(Names)]

\* The stacks of the factories are as deep as the files.
FactoryTypeOK ==
  /\ deviceMatches \in BOOLEAN /\ stageMatches \in BOOLEAN
  /\ chains \in Seq(Seq(ChainSet)) /\ Len(chains) > 0
  /\ outside \in Seq(StateSet) /\ Len(outside) = Len(chains) - 1
  /\ trueCountStack \in Seq(Nat) /\ Len(trueCountStack) = Len(chains)
  /\ stageMatchesStack \in Seq(BOOLEAN) /\ Len(stageMatchesStack) = Len(chains)
  /\ Len(saved) = Len(chains)

\* The file that is read, and those that wait.
NestedInv ==
  /\ FactoryTypeOK
  /\ OpenFile(InFile, trueCount, falseCount, executeElse)
  /\ \A k \in 1 .. Len(chains) - 1 : WaitingFile(k)

Inv == GraphInv /\ NestedInv

\* Every included file closes its If blocks.
ClosedFiles == Unclosed = FALSE

\* A file begins outside every block.
LEMMA EmptyFile == OpenFile(<<>>, 0, 0, FALSE)
<1>1. <<>> \in Seq(ChainSet) /\ Len(<<>>) = 0
  BY EmptySeq
<1>. QED  BY <1>1 DEF OpenFile

\* So does the configuration.
LEMMA NestedInvInit == Init => NestedInv
<1>. SUFFICES ASSUME Init PROVE NestedInv
  OBVIOUS
<1>1. <<>> \in Seq(ChainSet) /\ <<>> \in Seq(StateSet) /\ Len(<<>>) = 0
  BY EmptySeq
<1>2. /\ chains = <<<<>>>> /\ chains \in Seq(Seq(ChainSet)) /\ Len(chains) = 1 /\ chains[1] = <<>>
      /\ trueCountStack \in Seq(Nat) /\ Len(trueCountStack) = 1
      /\ Len(saved) = 1
  BY <1>1 DEF Init, GraphInit
<1>3. stageMatchesStack \in Seq(BOOLEAN) /\ Len(stageMatchesStack) = 1
  BY DEF Init
<1>4. InFile = <<>>
  BY <1>2 DEF InFile, Last
<1>5. FactoryTypeOK
  BY <1>1, <1>2, <1>3 DEF Init, FactoryTypeOK
<1>6. trueCount = 0 /\ falseCount = 0 /\ executeElse = FALSE
  BY DEF Init
<1>7. OpenFile(InFile, trueCount, falseCount, executeElse)
  BY <1>4, <1>6, EmptyFile, Zenon
<1>8. 1 .. Len(chains) - 1 = {}
  BY <1>2
<1>. QED  BY <1>5, <1>7, <1>8 DEF NestedInv

\* A line that changes the chains of the innermost file at most.
LEMMA InnermostChanges ==
  ASSUME NestedInv, NEW F \in Seq(ChainSet), chains' = Append(Front(chains), F),
         UNCHANGED <<trueCountStack, stageMatchesStack, outside, saved>>,
         deviceMatches' \in BOOLEAN, stageMatches' \in BOOLEAN
  PROVE  /\ FactoryTypeOK'
         /\ \A k \in 1 .. Len(chains') - 1 : WaitingFile(k)'
         /\ InFile' = F
<1>. DEFINE d == Len(chains)
<1>1. chains \in Seq(Seq(ChainSet)) /\ d > 0 /\ d \in Nat
  BY LenProperties DEF NestedInv, FactoryTypeOK
<1>2. /\ Front(chains) \in Seq(Seq(ChainSet)) /\ Len(Front(chains)) = d - 1
      /\ \A k \in 1 .. d - 1 : Front(chains)[k] = chains[k]
  BY <1>1, FrontIs
<1>3. /\ chains' \in Seq(Seq(ChainSet)) /\ Len(chains') = d /\ chains'[d] = F
      /\ \A k \in 1 .. d - 1 : chains'[k] = chains[k]
  <2>. HIDE DEF d
  <2>. QED  BY <1>1, <1>2, AppendProperties
<1>4. FactoryTypeOK'
  BY <1>1, <1>3 DEF NestedInv, FactoryTypeOK
<1>5. ASSUME NEW k \in 1 .. Len(chains') - 1 PROVE WaitingFile(k)'
  <2>1. WaitingFile(k) /\ chains'[k] = chains[k]
    BY <1>3 DEF NestedInv
  <2>. QED  BY <2>1 DEF WaitingFile
<1>. QED  BY <1>3, <1>4, <1>5 DEF InFile, Last

\* A line that changes nothing of the files.
LEMMA FilesUnchanged ==
  ASSUME NestedInv,
         UNCHANGED <<chains, trueCount, falseCount, executeElse, trueCountStack,
                     stageMatchesStack, outside, saved>>,
         deviceMatches' \in BOOLEAN, stageMatches' \in BOOLEAN
  PROVE  NestedInv'
<1>1. FactoryTypeOK'
  BY DEF NestedInv, FactoryTypeOK
<1>2. OpenFile(InFile, trueCount, falseCount, executeElse)'
  BY DEF NestedInv, InFile
<1>3. \A k \in 1 .. Len(chains') - 1 : WaitingFile(k)'
  BY DEF NestedInv, WaitingFile
<1>. QED  BY <1>1, <1>2, <1>3 DEF NestedInv

\* Chains.
LEMMA ChainIs ==
  ASSUME NEW runs \in BOOLEAN, NEW decided \in BOOLEAN
  PROVE  /\ Chain(runs, decided) \in ChainSet
         /\ Chain(runs, decided).runs <=> runs
         /\ Chain(runs, decided).decided <=> decided
BY DEF Chain, ChainSet

\* If.
LEMMA NestedIf ==
  ASSUME NestedInv, NEW value \in {"true", "false", "error"}, If(value)
  PROVE  NestedInv'
<1>. DEFINE c == Opened(value)
<1>1. OpenFile(InFile, trueCount, falseCount, executeElse) /\ InFile \in Seq(ChainSet)
  BY DEF NestedInv, OpenFile
<1>2. /\ trueCount \in Nat /\ falseCount \in Nat /\ executeElse \in BOOLEAN
      /\ falseCount = 0 => ~executeElse
  BY <1>1 DEF OpenFile
<1>3. Runs <=> falseCount = 0
  BY <1>1, FileRuns DEF Runs
<1>4. c \in ChainSet
  BY ChainIs DEF Opened
<1>5. /\ c.runs <=> (Runs /\ value = "true")
      /\ c.decided <=> (~Runs \/ value # "false")
  BY ChainIs DEF Opened
<1>6. /\ chains' = Append(Front(chains), Append(InFile, c))
      /\ UNCHANGED <<trueCountStack, stageMatchesStack, outside, saved, deviceMatches, stageMatches>>
  BY DEF If, SetInFile, graphVars, loadVars, stageVars
<1>. HIDE DEF c
<1>7. Append(InFile, c) \in Seq(ChainSet)
  BY <1>1, <1>4, AppendProperties
<1>8. /\ FactoryTypeOK' /\ InFile' = Append(InFile, c)
      /\ \A k \in 1 .. Len(chains') - 1 : WaitingFile(k)'
  <2>1. deviceMatches' \in BOOLEAN /\ stageMatches' \in BOOLEAN
    BY <1>6 DEF NestedInv, FactoryTypeOK
  <2>. QED  BY <1>6, <1>7, <2>1, InnermostChanges
<1>9. OpenFile(Append(InFile, c), trueCount', falseCount', executeElse')
  <2>1. CASE falseCount > 0
    <3>1. falseCount' = falseCount + 1 /\ trueCount' = trueCount /\ executeElse' = executeElse
      <4>1. falseCount # 0
        BY <2>1
      <4>. QED  BY <2>1, <4>1, Zenon DEF If
    <3>2. ~c.runs /\ c.decided
      BY <1>2, <1>3, <1>5, <2>1
    <3>3. OpenFile(Append(InFile, c), trueCount, falseCount + 1, executeElse)
      BY <1>1, <1>4, <2>1, <3>2, ChainOpened
    <3>. QED  BY <3>1, <3>3
  <2>2. CASE falseCount = 0 /\ value = "true"
    <3>1. falseCount' = 0 /\ trueCount' = trueCount + 1 /\ executeElse' = executeElse
      BY <1>2, <2>2 DEF If
    <3>2. c.runs /\ c.decided
      BY <1>3, <1>5, <2>2
    <3>3. OpenFile(Append(InFile, c), trueCount + 1, 0, executeElse)
      BY <1>1, <1>4, <2>2, <3>2, ChainOpened
    <3>. QED  BY <3>1, <3>3
  <2>3. CASE falseCount = 0 /\ value = "false"
    <3>1. falseCount' = 1 /\ trueCount' = trueCount /\ executeElse' = TRUE
      BY <1>2, <2>3 DEF If
    <3>2. ~c.runs /\ ~c.decided
      BY <1>3, <1>5, <2>3
    <3>3. OpenFile(Append(InFile, c), trueCount, 1, ~c.decided)
      BY <1>1, <1>4, <2>3, <3>2, ChainOpened
    <3>4. (~c.decided) = TRUE
      BY <3>2
    <3>. QED  BY <3>1, <3>3, <3>4
  <2>4. CASE falseCount = 0 /\ value = "error"
    <3>1. falseCount' = 1 /\ trueCount' = trueCount /\ executeElse' = executeElse
      BY <1>2, <2>4 DEF If
    <3>2. ~c.runs /\ c.decided
      BY <1>3, <1>5, <2>4
    <3>3. OpenFile(Append(InFile, c), trueCount, 1, ~c.decided)
      BY <1>1, <1>4, <2>4, <3>2, ChainOpened
    <3>4. (~c.decided) = executeElse
      BY <1>2, <2>4, <3>2
    <3>. QED  BY <3>1, <3>3, <3>4
  <2>. QED  BY <1>2, <2>1, <2>2, <2>3, <2>4
<1>. QED  BY <1>8, <1>9 DEF NestedInv

\* Outside every If an ElseIf or EndIf line finds both counters at zero.
LEMMA NoOpenChain ==
  ASSUME NestedInv
  PROVE  /\ InFile \in Seq(ChainSet)
         /\ trueCount \in Nat /\ falseCount \in Nat /\ executeElse \in BOOLEAN
         /\ Len(InFile) = trueCount + falseCount
         /\ falseCount = 0 => ~executeElse
         /\ InFile = <<>> <=> (trueCount = 0 /\ falseCount = 0)
<1>1. /\ InFile \in Seq(ChainSet)
      /\ trueCount \in Nat /\ falseCount \in Nat /\ executeElse \in BOOLEAN
      /\ Len(InFile) = trueCount + falseCount
      /\ falseCount = 0 => ~executeElse
  BY DEF NestedInv, OpenFile
<1>2. InFile = <<>> <=> Len(InFile) = 0
  BY <1>1, EmptySeq
<1>. QED  BY <1>1, <1>2

\* ElseIf and Else.
LEMMA NestedElseIf ==
  ASSUME NestedInv, NEW value \in {"true", "false", "error"}, ElseIf(value)
  PROVE  NestedInv'
<1>1. /\ InFile \in Seq(ChainSet)
      /\ trueCount \in Nat /\ falseCount \in Nat /\ executeElse \in BOOLEAN
      /\ Len(InFile) = trueCount + falseCount
      /\ falseCount = 0 => ~executeElse
      /\ InFile = <<>> <=> (trueCount = 0 /\ falseCount = 0)
  BY NoOpenChain
<1>2. /\ UNCHANGED <<trueCountStack, stageMatchesStack, outside, saved, deviceMatches, stageMatches>>
      /\ chains' = IF InFile = <<>> THEN chains
                   ELSE Append(Front(chains), Append(Front(InFile), Continued(value)))
  BY DEF ElseIf, graphVars, loadVars, stageVars
<1>3. deviceMatches' \in BOOLEAN /\ stageMatches' \in BOOLEAN
  BY <1>2 DEF NestedInv, FactoryTypeOK
<1>4. CASE InFile = <<>>
  <2>1. UNCHANGED <<falseCount, trueCount, executeElse>>
    BY <1>1, <1>4 DEF ElseIf
  <2>. QED  BY <1>2, <1>3, <1>4, <2>1, FilesUnchanged
<1>5. CASE InFile # <<>>
  <2>. DEFINE c == Continued(value)
              F == Append(Front(InFile), c)
  <2>1. OpenFile(InFile, trueCount, falseCount, executeElse)
    BY DEF NestedInv
  <2>2. /\ Len(InFile) = trueCount + falseCount /\ trueCount + falseCount > 0
        /\ Front(InFile) \in Seq(ChainSet)
        /\ Last(InFile) = InFile[trueCount + falseCount]
    BY <1>5, <2>1, FileEnd
  <2>3. /\ Last(InFile) \in ChainSet
        /\ Last(InFile).runs <=> trueCount + falseCount <= trueCount
        /\ falseCount # 1 => Last(InFile).decided
        /\ falseCount = 1 => (executeElse <=> ~Last(InFile).decided)
    <3>1. trueCount + falseCount \in 1 .. Len(InFile)
      BY <1>1, <2>2
    <3>2. InFile[trueCount + falseCount] \in ChainSet
      BY <1>1, <3>1, ElementOfSeq
    <3>3. /\ \A i \in 1 .. Len(InFile) : InFile[i].runs <=> i <= trueCount
          /\ \A i \in 1 .. Len(InFile) : i # trueCount + 1 => InFile[i].decided
          /\ falseCount > 0 => (executeElse <=> ~InFile[trueCount + 1].decided)
      BY <2>1 DEF OpenFile
    <3>. QED  BY <1>1, <2>2, <3>1, <3>2, <3>3
  <2>4. /\ c \in ChainSet
        /\ Last(InFile).decided => ~c.runs /\ c.decided
        /\ ~Last(InFile).decided =>
             (c.runs <=> value = "true") /\ (c.decided <=> value = "true")
    BY ChainIs DEF Continued
  <2>5. F \in Seq(ChainSet) /\ chains' = Append(Front(chains), F)
    BY <1>2, <1>5, <2>2, <2>4, AppendProperties
  <2>. HIDE DEF c
  <2>6. /\ FactoryTypeOK' /\ InFile' = F
        /\ \A k \in 1 .. Len(chains') - 1 : WaitingFile(k)'
    BY <1>2, <1>3, <2>5, InnermostChanges
  <2>7. OpenFile(F, trueCount', falseCount', executeElse')
    <3>1. CASE falseCount = 0
      <4>1. trueCount > 0
        BY <1>1, <2>2, <3>1
      <4>2. falseCount' = 1 /\ trueCount' = trueCount - 1 /\ executeElse' = executeElse
        BY <3>1, <4>1 DEF ElseIf
      <4>3. ~c.runs /\ c.decided
        BY <2>3, <2>4, <3>1
      <4>4. OpenFile(F, trueCount - 1, 1, executeElse)
        BY <1>5, <2>1, <2>4, <3>1, <4>3, ChainContinued
      <4>. QED  BY <4>2, <4>4
    <3>2. CASE falseCount = 1 /\ executeElse /\ value = "true"
      <4>1. falseCount' = 0 /\ trueCount' = trueCount + 1 /\ executeElse' = FALSE
        BY <3>2 DEF ElseIf
      <4>2. c.runs /\ c.decided
        BY <2>3, <2>4, <3>2
      <4>3. OpenFile(F, trueCount + 1, 0, FALSE)
        BY <1>5, <2>1, <2>4, <3>2, <4>2, ChainContinued
      <4>. QED  BY <4>1, <4>3
    <3>3. CASE falseCount # 0 /\ ~(falseCount = 1 /\ executeElse /\ value = "true")
      <4>1. UNCHANGED <<falseCount, trueCount, executeElse>>
        BY <3>3 DEF ElseIf
      <4>2. /\ c.runs <=> Last(InFile).runs
            /\ c.decided <=> Last(InFile).decided
        <5>1. ~Last(InFile).runs
          BY <1>1, <2>3, <3>3
        <5>2. ~Last(InFile).decided => falseCount = 1 /\ executeElse
          BY <2>3
        <5>. QED  BY <2>4, <3>3, <5>1, <5>2
      <4>3. c = Last(InFile)
        BY <2>3, <2>4, <4>2 DEF ChainSet
      <4>4. falseCount > 0
        BY <1>1, <3>3
      <4>5. OpenFile(F, trueCount, falseCount, executeElse)
        BY <1>5, <2>1, <2>4, <4>3, <4>4, ChainContinued
      <4>. QED  BY <4>1, <4>5
    <3>. QED  BY <3>1, <3>2, <3>3
  <2>. QED  BY <2>6, <2>7 DEF NestedInv
<1>. QED  BY <1>4, <1>5

\* EndIf.
LEMMA NestedEndIf ==
  ASSUME NestedInv, EndIf
  PROVE  NestedInv'
<1>1. /\ InFile \in Seq(ChainSet)
      /\ trueCount \in Nat /\ falseCount \in Nat /\ executeElse \in BOOLEAN
      /\ Len(InFile) = trueCount + falseCount
      /\ falseCount = 0 => ~executeElse
      /\ InFile = <<>> <=> (trueCount = 0 /\ falseCount = 0)
  BY NoOpenChain
<1>2. /\ UNCHANGED <<trueCountStack, stageMatchesStack, outside, saved, deviceMatches, stageMatches>>
      /\ chains' = IF InFile = <<>> THEN chains ELSE Append(Front(chains), Front(InFile))
      /\ falseCount' = IF falseCount > 0 THEN falseCount - 1 ELSE 0
      /\ trueCount' = IF falseCount = 0 /\ trueCount > 0 THEN trueCount - 1 ELSE trueCount
      /\ executeElse' = (executeElse /\ falseCount' > 0)
  BY DEF EndIf, graphVars, loadVars, stageVars
<1>3. deviceMatches' \in BOOLEAN /\ stageMatches' \in BOOLEAN
  BY <1>2 DEF NestedInv, FactoryTypeOK
<1>4. CASE InFile = <<>>
  <2>1. falseCount' = falseCount /\ trueCount' = trueCount
    BY <1>1, <1>2, <1>4
  <2>2. executeElse' = executeElse
    BY <1>1, <1>2, <1>4
  <2>. QED  BY <1>2, <1>3, <1>4, <2>1, <2>2, FilesUnchanged
<1>5. CASE InFile # <<>>
  <2>1. OpenFile(InFile, trueCount, falseCount, executeElse)
    BY DEF NestedInv
  <2>2. trueCount + falseCount > 0 /\ Front(InFile) \in Seq(ChainSet)
    BY <1>5, <2>1, FileEnd
  <2>3. /\ FactoryTypeOK' /\ InFile' = Front(InFile)
        /\ \A k \in 1 .. Len(chains') - 1 : WaitingFile(k)'
    BY <1>2, <1>3, <1>5, <2>2, InnermostChanges
  <2>4. /\ falseCount = 0 => OpenFile(Front(InFile), trueCount - 1, 0, FALSE)
        /\ falseCount = 1 => OpenFile(Front(InFile), trueCount, 0, FALSE)
        /\ falseCount > 1 => OpenFile(Front(InFile), trueCount, falseCount - 1, executeElse)
    BY <1>5, <2>1, ChainClosed
  <2>5. OpenFile(Front(InFile), trueCount', falseCount', executeElse')
    <3>1. CASE falseCount = 0
      <4>1. trueCount' = trueCount - 1 /\ falseCount' = 0
        BY <1>1, <1>2, <2>2, <3>1
      <4>2. executeElse' = FALSE
        <5>1. ~(falseCount' > 0)
          BY <4>1
        <5>. QED  BY <1>2, <5>1, Zenon
      <4>. QED  BY <2>4, <3>1, <4>1, <4>2
    <3>2. CASE falseCount = 1
      <4>1. trueCount' = trueCount /\ falseCount' = 0
        BY <1>1, <1>2, <3>2
      <4>2. executeElse' = FALSE
        <5>1. ~(falseCount' > 0)
          BY <4>1
        <5>. QED  BY <1>2, <5>1, Zenon
      <4>. QED  BY <2>4, <3>2, <4>1, <4>2
    <3>3. CASE falseCount > 1
      <4>1. trueCount' = trueCount /\ falseCount' = falseCount - 1 /\ falseCount' > 0
        BY <1>1, <1>2, <3>3
      <4>2. executeElse' = executeElse
        BY <1>1, <1>2, <4>1
      <4>. QED  BY <2>4, <3>3, <4>1, <4>2
    <3>. QED  BY <1>1, <3>1, <3>2, <3>3
  <2>. QED  BY <2>3, <2>5 DEF NestedInv
<1>. QED  BY <1>4, <1>5

\* A file is included only from branches that all run.
LEMMA NestedInclude ==
  ASSUME Inv, Include
  PROVE  NestedInv'
<1>. DEFINE d == Len(chains)
<1>1. /\ deviceMatches = TRUE /\ falseCount = 0
      /\ saved' = Append(saved, current) /\ current' = current
      /\ trueCountStack' = Append(trueCountStack, trueCount)
      /\ trueCount' = 0 /\ falseCount' = 0 /\ executeElse' = FALSE
      /\ stageMatchesStack' = Append(stageMatchesStack, stageMatches)
      /\ UNCHANGED <<deviceMatches, stageMatches>>
      /\ chains' = Append(chains, <<>>)
      /\ outside' = Append(outside, State)
  <2>1. deviceMatches = TRUE
    BY DEF Include, Executed, Inv, NestedInv, FactoryTypeOK
  <2>. QED  BY <2>1 DEF Include, Executed, StartOfFile
<1>2. /\ chains \in Seq(Seq(ChainSet)) /\ d > 0 /\ d \in Nat
      /\ outside \in Seq(StateSet) /\ Len(outside) = d - 1
      /\ trueCountStack \in Seq(Nat) /\ Len(trueCountStack) = d
      /\ stageMatchesStack \in Seq(BOOLEAN) /\ Len(stageMatchesStack) = d
      /\ Len(saved) = d
      /\ deviceMatches \in BOOLEAN /\ stageMatches \in BOOLEAN
      /\ \A k \in 1 .. d - 1 : WaitingFile(k)
  BY LenProperties DEF Inv, NestedInv, FactoryTypeOK
<1>3. /\ saved \in Seq(Seq(Names)) /\ current \in Seq(Names)
  BY DEF Inv, GraphInv, LoadInv, LoadTypeOK, NamesInv, Known, KnownIn
<1>4. /\ InFile = chains[d]
      /\ InFile \in Seq(ChainSet)
      /\ trueCount = Len(InFile) /\ trueCount \in Nat
      /\ executeElse = FALSE
      /\ \A i \in 1 .. Len(InFile) : InFile[i].runs /\ InFile[i].decided
  <2>1. OpenFile(InFile, trueCount, falseCount, executeElse)
    BY DEF Inv, NestedInv
  <2>2. /\ InFile \in Seq(ChainSet) /\ trueCount \in Nat /\ executeElse \in BOOLEAN
        /\ Len(InFile) = trueCount + 0
        /\ \A i \in 1 .. Len(InFile) : InFile[i].runs <=> i <= trueCount
        /\ \A i \in 1 .. Len(InFile) : i # trueCount + 1 => InFile[i].decided
        /\ ~executeElse
    BY <1>1, <2>1 DEF OpenFile
  <2>3. trueCount = Len(InFile)
    BY <2>2
  <2>4. ASSUME NEW i \in 1 .. Len(InFile) PROVE InFile[i].runs /\ InFile[i].decided
    BY <2>2, <2>3
  <2>. QED  BY <2>2, <2>3, <2>4 DEF InFile, Last
<1>5. /\ State = [device |-> TRUE, trueCount |-> Len(InFile), falseCount |-> 0,
                  executeElse |-> FALSE, stage |-> stageMatches, selected |-> current]
      /\ State \in StateSet
  <2>1. State = [device |-> TRUE, trueCount |-> Len(InFile), falseCount |-> 0,
                 executeElse |-> FALSE, stage |-> stageMatches, selected |-> current]
    BY <1>1, <1>4, Zenon DEF State
  <2>2. Len(InFile) \in Nat
    BY <1>4
  <2>. QED  BY <1>2, <1>3, <2>1, <2>2 DEF StateSet
<1>. HIDE DEF d
<1>6. /\ chains' \in Seq(Seq(ChainSet)) /\ Len(chains') = d + 1 /\ chains'[d + 1] = <<>>
      /\ \A k \in 1 .. d : chains'[k] = chains[k]
  <2>1. <<>> \in Seq(ChainSet)
    BY EmptySeq
  <2>. QED  BY <1>1, <1>2, <2>1, AppendProperties DEF d
<1>7. /\ outside' \in Seq(StateSet) /\ Len(outside') = d /\ outside'[d] = State
      /\ \A k \in 1 .. d - 1 : outside'[k] = outside[k]
  <2>1. /\ outside' \in Seq(StateSet) /\ Len(outside') = d - 1 + 1 /\ outside'[d - 1 + 1] = State
        /\ \A k \in 1 .. d - 1 : outside'[k] = outside[k]
    BY <1>1, <1>2, <1>5, AppendProperties
  <2>2. d - 1 + 1 = d
    BY <1>2
  <2>. QED  BY <2>1, <2>2
<1>8. /\ trueCountStack' \in Seq(Nat) /\ Len(trueCountStack') = d + 1
      /\ trueCountStack'[d + 1] = trueCount
      /\ \A k \in 1 .. d : trueCountStack'[k] = trueCountStack[k]
  BY <1>1, <1>2, <1>4, AppendProperties
<1>9. /\ stageMatchesStack' \in Seq(BOOLEAN) /\ Len(stageMatchesStack') = d + 1
      /\ stageMatchesStack'[d + 1] = stageMatches
      /\ \A k \in 1 .. d : stageMatchesStack'[k] = stageMatchesStack[k]
  BY <1>1, <1>2, AppendProperties
<1>10. /\ Len(saved') = d + 1 /\ saved'[d + 1] = current
       /\ \A k \in 1 .. d : saved'[k] = saved[k]
  BY <1>1, <1>2, <1>3, AppendProperties
<1>11. FactoryTypeOK'
  BY <1>1, <1>2, <1>6, <1>7, <1>8, <1>9, <1>10 DEF FactoryTypeOK
<1>12. OpenFile(InFile, trueCount, falseCount, executeElse)'
  <2>1. InFile' = <<>>
    BY <1>6 DEF InFile, Last
  <2>. QED  BY <1>1, <2>1, EmptyFile, Zenon
<1>13. ASSUME NEW k \in 1 .. Len(chains') - 1 PROVE WaitingFile(k)'
  <2>0. k \in 1 .. d
    BY <1>2, <1>6
  <2>1. CASE k = d
    <3>1. chains'[k] = InFile /\ outside'[k] = State /\ trueCountStack'[k + 1] = trueCount
      BY <1>4, <1>6, <1>7, <1>8, <2>0, <2>1
    <3>2. stageMatchesStack'[k + 1] = stageMatches /\ saved'[k + 1] = current
      BY <1>9, <1>10, <2>1
    <3>. QED  BY <1>4, <1>5, <3>1, <3>2 DEF WaitingFile
  <2>2. CASE k \in 1 .. d - 1
    <3>1. /\ chains'[k] = chains[k] /\ outside'[k] = outside[k]
          /\ trueCountStack'[k + 1] = trueCountStack[k + 1]
          /\ stageMatchesStack'[k + 1] = stageMatchesStack[k + 1]
          /\ saved'[k + 1] = saved[k + 1]
      <4>1. k \in 1 .. d /\ k + 1 \in 1 .. d
        BY <1>2, <2>2
      <4>. QED  BY <1>6, <1>7, <1>8, <1>9, <1>10, <2>2, <4>1
    <3>2. WaitingFile(k)
      BY <1>2, <2>2
    <3>. QED  BY <3>1, <3>2 DEF WaitingFile
  <2>. QED  BY <1>2, <2>0, <2>1, <2>2
<1>. QED  BY <1>11, <1>12, <1>13 DEF NestedInv

\* The end of an included file restores what its line has left.
LEMMA IncludedEnds ==
  ASSUME ClosedFiles, Inv, EndOfIncluded
  PROVE  LET d == Len(chains)
         IN /\ d - 1 \in 1 .. Len(chains) - 1
            /\ chains' = Front(chains) /\ outside' = Front(outside)
            /\ trueCountStack' = Front(trueCountStack)
            /\ stageMatchesStack' = Front(stageMatchesStack)
            /\ saved' = Front(saved)
            /\ deviceMatches' = TRUE /\ falseCount' = 0 /\ executeElse' = FALSE
            /\ trueCount' = Len(chains[d - 1])
            /\ stageMatches' = stageMatchesStack[d]
            /\ current' = saved[d]
<1>. DEFINE d == Len(chains)
<1>1. /\ chains' = Front(chains) /\ outside' = Front(outside)
      /\ trueCountStack' = Front(trueCountStack)
      /\ stageMatchesStack' = Front(stageMatchesStack)
      /\ saved' = Front(saved) /\ Len(saved) > 1
      /\ deviceMatches' = TRUE /\ falseCount' = 0 /\ executeElse' = executeElse
      /\ trueCount' = trueCountStack[Len(trueCountStack)]
      /\ stageMatches' = stageMatchesStack[Len(stageMatchesStack)]
      /\ current' = saved[Len(saved)]
  BY DEF EndOfIncluded, EndOfFile, Last
<1>2. /\ d \in Nat /\ Len(saved) = d /\ Len(trueCountStack) = d /\ Len(stageMatchesStack) = d
  BY LenProperties DEF Inv, NestedInv, FactoryTypeOK
<1>3. d - 1 \in 1 .. d - 1 /\ (d - 1) + 1 = d
  BY <1>1, <1>2
<1>4. WaitingFile(d - 1)
  BY <1>3 DEF Inv, NestedInv
<1>5. trueCountStack[d] = Len(chains[d - 1])
  <2>. HIDE DEF d
  <2>. QED  BY <1>3, <1>4 DEF WaitingFile
<1>6. executeElse = FALSE
  <2>1. InFile = <<>>
    BY Zenon DEF ClosedFiles, EndOfIncluded
  <2>2. falseCount = 0 /\ executeElse \in BOOLEAN /\ (falseCount = 0 => ~executeElse)
    BY <2>1, NoOpenChain DEF Inv
  <2>. QED  BY <2>2
<1>. QED  BY <1>1, <1>2, <1>3, <1>5, <1>6

\* So the including file is read on as it was left.
LEMMA NestedEndOfIncluded ==
  ASSUME ClosedFiles, Inv, EndOfIncluded
  PROVE  NestedInv'
<1>. DEFINE d == Len(chains)
<1>1. /\ d - 1 \in 1 .. d - 1
      /\ chains' = Front(chains) /\ outside' = Front(outside)
      /\ trueCountStack' = Front(trueCountStack)
      /\ stageMatchesStack' = Front(stageMatchesStack)
      /\ saved' = Front(saved)
      /\ deviceMatches' = TRUE /\ falseCount' = 0 /\ executeElse' = FALSE
      /\ trueCount' = Len(chains[d - 1])
      /\ stageMatches' = stageMatchesStack[d]
  BY IncludedEnds
<1>2. /\ chains \in Seq(Seq(ChainSet)) /\ d \in Nat
      /\ outside \in Seq(StateSet) /\ Len(outside) = d - 1
      /\ trueCountStack \in Seq(Nat) /\ Len(trueCountStack) = d
      /\ stageMatchesStack \in Seq(BOOLEAN) /\ Len(stageMatchesStack) = d
      /\ Len(saved) = d
      /\ \A k \in 1 .. d - 1 : WaitingFile(k)
  BY LenProperties DEF Inv, NestedInv, FactoryTypeOK
<1>3. saved \in Seq(Seq(Names))
  BY DEF Inv, GraphInv, LoadInv, LoadTypeOK
<1>. HIDE DEF d
<1>4. d > 1 /\ d \in 1 .. d
  BY <1>1, <1>2
<1>5. /\ chains' \in Seq(Seq(ChainSet)) /\ Len(chains') = d - 1
      /\ \A k \in 1 .. d - 1 : chains'[k] = chains[k]
  <2>1. chains \in Seq(Seq(ChainSet)) /\ Len(chains) > 0
    BY <1>2, <1>3, <1>4 DEF d
  <2>2. /\ Front(chains) \in Seq(Seq(ChainSet)) /\ Len(Front(chains)) = Len(chains) - 1
        /\ \A k \in 1 .. Len(chains) - 1 : Front(chains)[k] = chains[k]
    BY <2>1, FrontIs
  <2>. QED  BY <1>1, <1>2, <2>2 DEF d
<1>6. /\ outside' \in Seq(StateSet) /\ Len(outside') = d - 1 - 1
      /\ \A k \in 1 .. d - 1 - 1 : outside'[k] = outside[k]
  <2>1. outside \in Seq(StateSet) /\ Len(outside) > 0
    BY <1>2, <1>3, <1>4
  <2>2. /\ Front(outside) \in Seq(StateSet) /\ Len(Front(outside)) = Len(outside) - 1
        /\ \A k \in 1 .. Len(outside) - 1 : Front(outside)[k] = outside[k]
    BY <2>1, FrontIs
  <2>. QED  BY <1>1, <1>2, <2>2
<1>7. /\ trueCountStack' \in Seq(Nat) /\ Len(trueCountStack') = d - 1
      /\ \A k \in 1 .. d - 1 : trueCountStack'[k] = trueCountStack[k]
  <2>1. trueCountStack \in Seq(Nat) /\ Len(trueCountStack) > 0
    BY <1>2, <1>3, <1>4
  <2>2. /\ Front(trueCountStack) \in Seq(Nat) /\ Len(Front(trueCountStack)) = Len(trueCountStack) - 1
        /\ \A k \in 1 .. Len(trueCountStack) - 1 : Front(trueCountStack)[k] = trueCountStack[k]
    BY <2>1, FrontIs
  <2>. QED  BY <1>1, <1>2, <2>2
<1>8. /\ stageMatchesStack' \in Seq(BOOLEAN) /\ Len(stageMatchesStack') = d - 1
      /\ \A k \in 1 .. d - 1 : stageMatchesStack'[k] = stageMatchesStack[k]
  <2>1. stageMatchesStack \in Seq(BOOLEAN) /\ Len(stageMatchesStack) > 0
    BY <1>2, <1>3, <1>4
  <2>2. /\ Front(stageMatchesStack) \in Seq(BOOLEAN) /\ Len(Front(stageMatchesStack)) = Len(stageMatchesStack) - 1
        /\ \A k \in 1 .. Len(stageMatchesStack) - 1 : Front(stageMatchesStack)[k] = stageMatchesStack[k]
    BY <2>1, FrontIs
  <2>. QED  BY <1>1, <1>2, <2>2
<1>9. Len(saved') = d - 1 /\ \A k \in 1 .. d - 1 : saved'[k] = saved[k]
  <2>1. saved \in Seq(Seq(Names)) /\ Len(saved) > 0
    BY <1>2, <1>3, <1>4
  <2>2. /\ Front(saved) \in Seq(Seq(Names)) /\ Len(Front(saved)) = Len(saved) - 1
        /\ \A k \in 1 .. Len(saved) - 1 : Front(saved)[k] = saved[k]
    BY <2>1, FrontIs
  <2>. QED  BY <1>1, <1>2, <2>2
<1>10. stageMatches' \in BOOLEAN
  BY <1>1, <1>2, <1>4, ElementOfSeq
<1>11. FactoryTypeOK'
  BY <1>1, <1>2, <1>4, <1>5, <1>6, <1>7, <1>8, <1>9, <1>10 DEF FactoryTypeOK
<1>12. OpenFile(InFile, trueCount, falseCount, executeElse)'
  <2>. DEFINE F == chains[d - 1]
  <2>1. InFile' = F
    BY <1>1, <1>5 DEF InFile, Last
  <2>2. F \in Seq(ChainSet)
    <3>1. d - 1 \in 1 .. Len(chains)
      BY <1>2, <1>4 DEF d
    <3>. QED  BY <1>2, <3>1, ElementOfSeq
  <2>3. \A i \in 1 .. Len(F) : F[i].runs /\ F[i].decided
    BY <1>1, <1>2 DEF WaitingFile
  <2>4. Len(F) \in Nat /\ Len(F) = Len(F) + 0
    BY <2>2, LenProperties
  <2>. HIDE DEF F
  <2>5. OpenFile(F, Len(F), 0, FALSE)
    <3>1. \A i \in 1 .. Len(F) : F[i].runs <=> i <= Len(F)
      BY <2>3, <2>4
    <3>. QED  BY <2>2, <2>3, <2>4, <3>1 DEF OpenFile
  <2>. QED  BY <1>1, <2>1, <2>5, Zenon DEF F
<1>13. ASSUME NEW k \in 1 .. Len(chains') - 1 PROVE WaitingFile(k)'
  <2>0. /\ k \in 1 .. d - 1 - 1 /\ k \in 1 .. d - 1 /\ k + 1 \in 1 .. d - 1
    BY <1>2, <1>5
  <2>1. WaitingFile(k)
    BY <1>2, <2>0
  <2>2. /\ chains'[k] = chains[k] /\ outside'[k] = outside[k]
        /\ trueCountStack'[k + 1] = trueCountStack[k + 1]
        /\ stageMatchesStack'[k + 1] = stageMatchesStack[k + 1]
        /\ saved'[k + 1] = saved[k + 1]
    BY <1>5, <1>6, <1>7, <1>8, <1>9, <2>0
  <2>. QED  BY <2>1, <2>2 DEF WaitingFile
<1>. QED  BY <1>11, <1>12, <1>13 DEF NestedInv

\* A filter that throws rolls the load back and leaves the counters.
LEMMA ThrownLine ==
  ASSUME NoThrow, Inv, NEW f \in Filters, FilterThrows(f)
  PROVE  UNCHANGED <<loadVars, processVars, blocks, factoryVars, ghosts>>
<1>1. UNCHANGED <<loadVars, processVars, blocks>> /\ phase' = "failed"
  BY ThrownIsRolledBack DEF FilterThrows, Inv, GraphInv
<1>. QED  BY <1>1 DEF FilterThrows, ghosts

\* Whatever the lines say, the graph makes its own steps.
LEMMA StepOfGraph == [Next]_vars => [GraphNext]_graphVars
<1>. SUFFICES ASSUME [Next]_vars PROVE [GraphNext]_graphVars
  OBVIOUS
<1>1. CASE IfFamily \/ Device \/ Stage \/ UNCHANGED vars
  BY <1>1 DEF IfFamily, If, ElseIf, EndIf, Device, Stage, vars
<1>2. CASE Include \/ EndOfIncluded
  BY <1>2 DEF Include, EndOfIncluded, GraphNext, LoadStep
<1>3. ASSUME NEW f \in Filters, FilterLine(f) \/ FilterThrows(f) PROVE GraphNext
  BY <1>3 DEF FilterLine, FilterThrows, GraphNext, LoadStep
<1>4. CASE Process
  BY <1>4 DEF Process, GraphNext, LoadStep
<1>. QED  BY <1>1, <1>2, <1>3, <1>4 DEF Next

\* Every step keeps the counters as the nesting says.
LEMMA NestedInvStep == NoThrow /\ ClosedFiles /\ Inv /\ [Next]_vars => NestedInv'
<1>. SUFFICES ASSUME NoThrow, ClosedFiles, Inv, [Next]_vars PROVE NestedInv'
  OBVIOUS
<1>0. NestedInv /\ deviceMatches \in BOOLEAN /\ stageMatches \in BOOLEAN
  BY DEF Inv, NestedInv, FactoryTypeOK
<1>1. CASE IfFamily
  BY <1>0, <1>1, NestedIf, NestedElseIf, NestedEndIf DEF IfFamily
<1>2. CASE Device
  BY <1>0, <1>2, FilesUnchanged DEF Device, graphVars, loadVars, ifVars, stageVars, ghosts
<1>3. CASE Stage
  BY <1>0, <1>3, FilesUnchanged DEF Stage, graphVars, loadVars, ifVars, ghosts
<1>4. CASE Include
  BY <1>4, NestedInclude
<1>5. CASE EndOfIncluded
  BY <1>5, NestedEndOfIncluded
<1>6. ASSUME NEW f \in Filters, FilterLine(f) PROVE NestedInv'
  <2>1. UNCHANGED <<saved, factoryVars, ghosts>>
    BY <1>6 DEF FilterLine, AddFilter
  <2>. QED  BY <1>0, <2>1, FilesUnchanged DEF factoryVars, ifVars, stageVars, ghosts
<1>7. ASSUME NEW f \in Filters, FilterThrows(f) PROVE NestedInv'
  <2>1. UNCHANGED <<loadVars, factoryVars, ghosts>>
    BY <1>7, ThrownLine
  <2>. QED  BY <1>0, <2>1, FilesUnchanged DEF loadVars, factoryVars, ifVars, stageVars, ghosts
<1>8. CASE Process
  <2>1. UNCHANGED <<saved, factoryVars, ghosts>>
    BY <1>8 DEF Process, Publish, ProcessStep, Read, RunFilter, Write, loadVars
  <2>. QED  BY <1>0, <2>1, FilesUnchanged DEF factoryVars, ifVars, stageVars, ghosts
<1>9. CASE UNCHANGED vars
  BY <1>0, <1>9, FilesUnchanged DEF vars, graphVars, loadVars, factoryVars, ifVars, stageVars, ghosts
<1>. QED  BY <1>1, <1>2, <1>3, <1>4, <1>5, <1>6, <1>7, <1>8, <1>9 DEF Next

\* Both invariants hold at the beginning.
LEMMA InvInit == Init => Inv
<1>1. Init => GraphInit
  BY DEF Init
<1>. QED  BY <1>1, GraphInvInit, NestedInvInit DEF Inv

\* Every step keeps both.
LEMMA InvStep == NoThrow /\ ClosedFiles /\ Inv /\ [Next]_vars => Inv'
  BY StepOfGraph, GraphInvStep, NestedInvStep DEF Inv

\* The graph's invariant and the counters' hold throughout a load and the blocks
\* after it.
THEOREM InvHolds == ASSUME NoThrow, ClosedFiles PROVE Spec => []Inv
<1>1. Init => Inv
  BY InvInit
<1>2. Inv /\ [Next]_vars => Inv'
  BY InvStep
<1>. QED  BY <1>1, <1>2, PTL DEF Spec

\* Reading lines only builds graphs that the engine may build: what is proved
\* of the graph holds for every text.
THEOREM LanguageBuildsGraphs == Spec => GraphSpec
<1>1. Init => GraphInit
  BY DEF Init
<1>2. [Next]_vars => [GraphNext]_graphVars
  BY StepOfGraph
<1>. QED  BY <1>1, <1>2, PTL DEF Spec, GraphSpec

\* Whatever Device, Stage, If and Include lines skip or reorder, a filter that
\* inherits pointers finds the ones it needs.
THEOREM FiltersInheritOnlyWhatIsThere ==
  ASSUME NoThrow PROVE Spec => []InheritsOnlyWhatIsThere
  BY LanguageBuildsGraphs, GraphInherits, PTL

\* Whatever Device, Stage, If and Include lines skip or reorder, the blocks pass
\* through the filters of the lines that are left as these say.
THEOREM LinesDoWhatTheySay == ASSUME NoThrow PROVE Spec => ImplementsChannelFlow
  BY LanguageBuildsGraphs, GraphImplementsFlow, PTL

\* trueCount, falseCount and executeElse of IfFilterFactory together say exactly
\* which If blocks are open around the line and whether all of their branches
\* run.
THEOREM CountersNest == ASSUME NoThrow, ClosedFiles PROVE Spec => []BranchesAsNested
<1>1. Inv => BranchesAsNested
  <2>. SUFFICES ASSUME Inv PROVE BranchesAsNested
    OBVIOUS
  <2>1. OpenFile(InFile, trueCount, falseCount, executeElse)
    BY DEF Inv, NestedInv
  <2>2. falseCount = 0 <=> Runs
    BY <2>1, FileRuns DEF Runs
  <2>3. /\ Len(InFile) = trueCount + falseCount /\ trueCount \in Nat /\ falseCount \in Nat
        /\ executeElse \in BOOLEAN
        /\ falseCount > 0 => (executeElse <=> ~InFile[trueCount + 1].decided)
    BY <2>1 DEF OpenFile
  <2>4. falseCount = 1 => executeElse = ~Last(InFile).decided
    BY <2>3 DEF Last
  <2>. QED  BY <2>2, <2>3, <2>4 DEF BranchesAsNested
<1>. QED  BY <1>1, InvHolds, PTL

\* After an included file the selected channels, the device and stage that match
\* and the counters are those before it.
THEOREM FilesLeaveNoTrace == ASSUME NoThrow, ClosedFiles PROVE Spec => IncludeLeavesNoTrace
<1>1. ASSUME Inv, [Next]_vars, Len(outside') < Len(outside)
      PROVE  State' = Last(outside)
  <2>0. outside \in Seq(StateSet) /\ Len(outside) \in Nat
    BY <1>1, LenProperties DEF Inv, NestedInv, FactoryTypeOK
  <2>1. CASE EndOfIncluded
    <3>. DEFINE d == Len(chains)
    <3>1. /\ d - 1 \in 1 .. d - 1
          /\ deviceMatches' = TRUE /\ falseCount' = 0 /\ executeElse' = FALSE
          /\ trueCount' = Len(chains[d - 1])
          /\ stageMatches' = stageMatchesStack[d]
          /\ current' = saved[d]
      BY <1>1, <2>1, IncludedEnds
    <3>2. d \in Nat /\ Len(outside) = d - 1 /\ WaitingFile(d - 1)
      BY <1>1, <3>1, LenProperties DEF Inv, NestedInv, FactoryTypeOK
    <3>. HIDE DEF d
    <3>3. (d - 1) + 1 = d
      BY <3>2
    <3>4. outside[d - 1] = [device |-> TRUE, trueCount |-> Len(chains[d - 1]), falseCount |-> 0,
             executeElse |-> FALSE, stage |-> stageMatchesStack[d], selected |-> saved[d]]
      BY <3>2, <3>3 DEF WaitingFile
    <3>. QED  BY <3>1, <3>2, <3>4, Zenon DEF State, Last
  <2>2. CASE ~EndOfIncluded
    <3>. SUFFICES Len(outside') >= Len(outside)
      BY <1>1, <2>0
    <3>1. CASE UNCHANGED outside
      BY <2>0, <3>1
    <3>2. CASE Include
      <4>1. outside' = Append(outside, State)
        BY <3>2 DEF Include
      <4>. QED  BY <2>0, <4>1
    <3>3. ASSUME NEW f \in Filters, FilterThrows(f) PROVE UNCHANGED outside
      BY <1>1, <3>3, ThrownLine DEF ghosts
    <3>4. CASE IfFamily \/ Device \/ Stage \/ Process \/ UNCHANGED vars \/ \E f \in Filters : FilterLine(f)
      BY <3>1, <3>4 DEF IfFamily, If, ElseIf, EndIf, Device, Stage, Process, FilterLine, vars, ghosts
    <3>. QED  BY <1>1, <2>2, <3>1, <3>2, <3>3, <3>4 DEF Next
  <2>. QED  BY <2>1, <2>2
<1>. QED  BY <1>1, InvHolds, PTL DEF Spec, IncludeLeavesNoTrace
=============================================================================
