-------------------------- MODULE StreamRing_proofs --------------------------
(***************************************************************************)
(* Proofs about StreamRing for every set of lanes, either mode and any     *)
(* bound on the calls, as long as the stream is shorter than a sequence    *)
(* number can count (NoWrap).                                              *)
(***************************************************************************)
EXTENDS StreamRing, SequenceTheorems, TLAPS

NoWrap == MaxBlocks < Modulus

\* The signed difference of two numbers close to each other is exact.
LEMMA SignedSmall ==
  ASSUME NEW d \in -3..3 PROVE Signed(d) = d
BY StreamRingAssumption DEF Signed

\* Neighbouring sequence numbers use different slots, the next but one the same.
LEMMA Parity ==
  ASSUME NEW n \in Nat
  PROVE  /\ SlotOf(n) \in {0, 1}
         /\ SlotOf(n + 1) # SlotOf(n)
         /\ SlotOf(n + 2) = SlotOf(n)
BY DEF SlotOf

\* Three numbers in a row: the slots tell neighbours apart.
LEMMA SlotsApart ==
  ASSUME NEW m \in Nat, NEW n \in Nat, m <= n, n <= m + 2, SlotOf(m) = SlotOf(n)
  PROVE  n = m \/ n = m + 2
BY DEF SlotOf

\* What a lane's guards mean in terms of the blocks counted.
LEMMA CanPublishMeans ==
  ASSUME NoWrap, TypeOK, CountersAgree, NEW l \in Lanes, pc[l] = "check"
  PROVE  /\ Succ(sequence[l]) = sent[l] + 1
         /\ CanPublish(l, Succ(sequence[l])) <=> sent[l] <= served[l] + 1
<1>. DEFINE s == sent[l]  c == served[l]
<1>1. /\ s \in Nat /\ c \in Nat /\ c <= s /\ s <= c + 2 /\ s < MaxBlocks
      /\ sequence[l] = s /\ completed[l] = c
  BY StreamRingAssumption DEF TypeOK, CountersAgree
<1>2. Succ(sequence[l]) = s + 1
  BY <1>1, StreamRingAssumption DEF Succ, NoWrap
<1>3. SequenceAtLeast(completed[l], s + 1 - 2) <=> s <= c + 1
  <2>1. c - (s + 1 - 2) \in -3..3
    BY <1>1
  <2>2. SequenceAtLeast(completed[l], s + 1 - 2) <=> c - (s + 1 - 2) >= 0
    BY <1>1, <2>1, SignedSmall DEF SequenceAtLeast
  <2>. QED BY <1>1, <2>2
<1>. QED BY <1>1, <1>2, <1>3 DEF CanPublish

LEMMA PendingMeans ==
  ASSUME NoWrap, TypeOK, CountersAgree, NEW l, Pending(l)
  PROVE  /\ l \in Lanes /\ served[l] < sent[l]
         /\ Succ(completed[l]) = served[l] + 1
<1>1. l \in Lanes
  BY DEF Pending
<1>2. /\ sent[l] \in Nat /\ served[l] \in Nat /\ served[l] <= sent[l]
      /\ sent[l] <= MaxBlocks
      /\ published[l] = sent[l] /\ completed[l] = served[l]
  BY <1>1, StreamRingAssumption DEF TypeOK, CountersAgree
<1>3. served[l] < sent[l]
  BY <1>2 DEF Pending
<1>. QED BY <1>1, <1>2, <1>3, StreamRingAssumption DEF Succ, NoWrap

LEMMA AwaitMeans ==
  ASSUME NoWrap, TypeOK, CountersAgree, NEW l \in Lanes,
         Target(l) \in 1..sent[l], pc[l] = "await",
         SequenceAtLeast(completed[l], Target(l))
  PROVE  Target(l) <= served[l]
<1>1. /\ sent[l] \in Nat /\ served[l] \in Nat /\ served[l] <= sent[l]
      /\ sent[l] <= served[l] + 2 /\ completed[l] = served[l]
      /\ sequence[l] = sent[l]
  BY DEF TypeOK, CountersAgree
<1>2. Target(l) = sent[l] \/ Target(l) = sent[l] - 1
  BY <1>1, StreamRingAssumption DEF Target, Pred
<1>3. served[l] - Target(l) \in -3..3
  BY <1>1, <1>2
<1>. QED BY <1>1, <1>2, <1>3, SignedSmall DEF SequenceAtLeast

-----------------------------------------------------------------------------
(* The invariant is inductive.                                             *)

\* A block renumbered or filtered is a block that differs in nothing else.
LEMMA BlockUpdate ==
  ASSUME NEW b \in Block, NEW n \in 0..MaxBlocks
  PROVE  /\ [b EXCEPT !.nth = n] \in Block
         /\ [b EXCEPT !.stage = "filtered"] \in Block
<1>1. /\ b = [call |-> b.call, nth |-> b.nth, stage |-> b.stage]
      /\ b.call \in 0..MaxBlocks /\ b.nth \in 0..MaxBlocks
      /\ b.stage \in {"raw", "filtered"}
  BY DEF Block
<1>2. [b EXCEPT !.nth = n]
        = [call |-> b.call, nth |-> n, stage |-> b.stage]
  BY <1>1
<1>3. [b EXCEPT !.stage = "filtered"]
        = [call |-> b.call, nth |-> b.nth, stage |-> "filtered"]
  BY <1>1
<1>. QED BY <1>1, <1>2, <1>3 DEF Block

\* A block put into a slot, or filtered there, leaves slots holding blocks.
LEMMA SlotsType ==
  ASSUME NEW S \in [Lanes -> [{0, 1} -> Block]], NEW l \in Lanes,
         NEW s \in {0, 1}, NEW b \in Block
  PROVE  /\ [S EXCEPT ![l][s] = b] \in [Lanes -> [{0, 1} -> Block]]
         /\ [S EXCEPT ![l][s].stage = "filtered"]
              \in [Lanes -> [{0, 1} -> Block]]
<1>. DEFINE old == S[l][s]
<1>1. old \in Block /\ 0 \in 0..MaxBlocks
  BY StreamRingAssumption
<1>2. [old EXCEPT !.stage = "filtered"] \in Block
  <2>. HIDE DEF old
  <2>. QED BY <1>1, BlockUpdate
<1>. QED BY <1>2

\* Returning from a call keeps the lane's variables in their sets.
LEMMA ReturnType ==
  ASSUME TypeOK, NEW l \in Lanes, NEW what \in Outcomes, Return(l, what)
  PROVE  /\ pc' \in [Lanes -> LaneStates]
         /\ outcome' \in [Lanes -> Outcomes]
         /\ gone' \in [Lanes -> BOOLEAN]
BY DEF TypeOK, Return, LaneStates

LEMMA ReturnLateType ==
  ASSUME TypeOK, NEW l \in Lanes, ReturnLate(l)
  PROVE  /\ pc' \in [Lanes -> LaneStates]
         /\ outcome' \in [Lanes -> Outcomes]
         /\ gone' \in [Lanes -> BOOLEAN]
         /\ late' \in [Lanes -> Nat]
<1>1. late' \in [Lanes -> Nat]
  BY DEF TypeOK, ReturnLate
<1>2. PICK what \in {"Gone", "Late"} : Return(l, what)
  BY DEF ReturnLate
<1>. QED BY <1>1, <1>2, ReturnType DEF Outcomes

\* Each action keeps every variable in its set.
LEMMA TypeStep ==
  ASSUME NoWrap, RingInv, [Next]_vars PROVE TypeOK'
<1>. USE StreamRingAssumption
         DEF ringVars, laneVars, hostVars, history
<1>. TypeOK
  BY DEF RingInv
<1>1. CASE OpenLink \/ Announce \/ WaitReady \/ Close \/ DawDies
  <2>1. CASE OpenLink
    BY <2>1 DEF TypeOK, OpenLink, DawStates, HostStates
  <2>2. CASE Announce
    BY <2>2 DEF TypeOK, Announce, RingStates, DawStates
  <2>3. CASE WaitReady
    BY <2>3 DEF TypeOK, WaitReady, DawStates
  <2>4. CASE Close
    BY <2>4 DEF TypeOK, Close, RingStates, DawStates
  <2>5. CASE DawDies
    BY <2>5 DEF TypeOK, DawDies, DawStates
  <2>. QED BY <1>1, <2>1, <2>2, <2>3, <2>4, <2>5
<1>2. CASE HostPoll \/ HostBuild \/ HostWake \/ HostSeesDeath \/ HostDies
  <2>1. CASE HostPoll
    BY <2>1 DEF TypeOK, HostPoll, RingStates, HostStates
  <2>2. CASE HostBuild
    BY <2>2 DEF TypeOK, HostBuild, RingStates, HostStates
  <2>3. CASE HostWake
    BY <2>3 DEF TypeOK, HostWake, HostStates
  <2>4. CASE HostSeesDeath
    BY <2>4 DEF TypeOK, HostSeesDeath, HostStates
  <2>5. CASE HostDies
    BY <2>5 DEF TypeOK, HostDies, HostStates
  <2>. QED BY <1>2, <2>1, <2>2, <2>3, <2>4, <2>5
<1>3. CASE HostLook \/ HostLookInput \/ HostDrain
  <2>1. ASSUME NEW l, Pending(l), Take(l)
        PROVE  acquired' \in [lane : {"output", "input"}, seq : 0..(Modulus - 1)]
               /\ host' \in HostStates
    BY <2>1 DEF TypeOK, Pending, Take, Succ, HostStates
  <2>2. /\ host' \in HostStates
        /\ acquired' \in [lane : {"output", "input"}, seq : 0..(Modulus - 1)]
    <3>1. CASE HostLook
      BY <3>1, <2>1 DEF HostLook, TypeOK, HostStates
    <3>2. CASE HostLookInput
      BY <3>2, <2>1 DEF HostLookInput, TypeOK, HostStates
    <3>3. CASE HostDrain
      BY <3>3, <2>1 DEF HostDrain, TypeOK, HostStates
    <3>. QED BY <1>3, <3>1, <3>2, <3>3
  <2>3. UNCHANGED <<ringVars, daw, peers, laneVars, peerGone_, calls, sent, served,
                    afterDeath>>
    BY <1>3 DEF HostLook, HostLookInput, HostDrain
  <2>. QED BY <2>2, <2>3 DEF TypeOK
<1>4. CASE HostProcess
  <2>1. acquired.lane \in Lanes /\ SlotOf(acquired.seq) \in {0, 1}
    <3>1. acquired.lane \in Lanes
      BY <1>4 DEF HostProcess, RingInv, HostOnNext
    <3>2. acquired.seq \in Nat
      BY DEF TypeOK
    <3>. QED BY <3>1, <3>2, Parity
  <2>2. slots' \in [Lanes -> [{0, 1} -> Block]]
    BY <1>4, <2>1, SlotsType, Zenon DEF HostProcess, TypeOK
  <2>. QED BY <1>4, <2>2 DEF HostProcess, TypeOK, HostStates
<1>5. CASE HostRelease
  BY <1>5 DEF RingInv, TypeOK, CountersAgree, HostRelease, HostOnNext,
              HostStates
<1>6. ASSUME NEW l \in Lanes, Call(l) PROVE TypeOK'
  BY <1>6 DEF TypeOK, Call, Block, LaneStates
<1>7. ASSUME NEW l \in Lanes, Check(l) PROVE TypeOK'
  BY <1>7 DEF TypeOK, Check, Succ, LaneStates
<1>8. ASSUME NEW l \in Lanes, Refused(l) PROVE TypeOK'
  <2>1. CASE ReturnLate(l)
    BY <1>8, <2>1, ReturnLateType DEF TypeOK, Refused
  <2>2. CASE \E what \in {"Gone", "Late"} : Return(l, what) /\ UNCHANGED late
    BY <1>8, <2>2, ReturnType DEF TypeOK, Refused, Outcomes
  <2>. QED BY <1>8, <2>1, <2>2 DEF Refused
<1>9. ASSUME NEW l \in Lanes, Fill(l) PROVE TypeOK'
  <2>1. sent[l] + 1 \in 0..MaxBlocks
    BY <1>9 DEF Fill, RingInv, CountersAgree, TypeOK
  <2>2. [staging[l] EXCEPT !.nth = sent[l] + 1] \in Block
    BY <2>1, BlockUpdate DEF TypeOK
  <2>3. SlotOf(sequence[l]) \in {0, 1}
    BY DEF TypeOK, SlotOf
  <2>4. slots' \in [Lanes -> [{0, 1} -> Block]]
    BY <1>9, <2>2, <2>3, SlotsType, Zenon DEF Fill, TypeOK
  <2>. QED BY <1>9, <2>4 DEF Fill, TypeOK, LaneStates
<1>10. ASSUME NEW l \in Lanes, Publish(l) PROVE TypeOK'
  <2>1. published' \in [Lanes -> 0..(Modulus - 1)]
        /\ sent' \in [Lanes -> 0..MaxBlocks]
    BY <1>10 DEF Publish, RingInv, CountersAgree, TypeOK
  <2>2. /\ pc' \in [Lanes -> LaneStates] /\ staging' \in [Lanes -> Block]
        /\ outcome' \in [Lanes -> Outcomes] /\ gone' \in [Lanes -> BOOLEAN]
    <3>1. CASE Return(l, "Processed") /\ staging' = [staging EXCEPT ![l] = Silence]
      BY <3>1, ReturnType DEF TypeOK, Outcomes, Block, Silence
    <3>2. CASE /\ pc' = [pc EXCEPT ![l] = "await"]
               /\ UNCHANGED <<staging, outcome, gone>>
      BY <3>2 DEF TypeOK, LaneStates
    <3>. QED BY <1>10, <3>1, <3>2 DEF Publish
  <2>. QED BY <1>10, <2>1, <2>2 DEF Publish, TypeOK
<1>11. ASSUME NEW l \in Lanes, Await(l) PROVE TypeOK'
  BY <1>11 DEF TypeOK, Await, LaneStates
<1>12. ASSUME NEW l \in Lanes, Missed(l) PROVE TypeOK'
  <2>1. CASE ReturnLate(l)
    BY <1>12, <2>1, ReturnLateType DEF TypeOK, Missed
  <2>2. CASE \E what \in {"Gone", "Late"} : Return(l, what) /\ UNCHANGED late
    BY <1>12, <2>2, ReturnType DEF TypeOK, Missed, Outcomes
  <2>3. CASE pc' = [pc EXCEPT ![l] = "await"] /\ UNCHANGED <<outcome, gone, late>>
    BY <1>12, <2>3 DEF TypeOK, Missed, LaneStates
  <2>. QED BY <1>12, <2>1, <2>2, <2>3 DEF Missed
<1>13. ASSUME NEW l \in Lanes, Copy(l) PROVE TypeOK'
  <2>1. staging' \in [Lanes -> Block]
    BY <1>13 DEF Copy, TypeOK, SlotOf, Target, Pred
  <2>. QED BY <1>13, <2>1, ReturnType DEF TypeOK, Copy, Outcomes
<1>14. CASE UNCHANGED vars
  BY <1>14 DEF TypeOK, vars
<1>. QED
  BY <1>1, <1>2, <1>3, <1>4, <1>5, <1>6, <1>7, <1>8, <1>9, <1>10, <1>11, <1>12,
     <1>13, <1>14 DEF Next, DawStep, HostStep, LaneStep

\* No step but these moves a counter, a program counter or a slot.
LEMMA QuietStep ==
  ASSUME DawStep \/ HostPoll \/ HostBuild \/ HostLook \/ HostLookInput
           \/ HostWake \/ HostSeesDeath \/ HostDrain \/ HostDies
           \/ UNCHANGED vars
  PROVE  UNCHANGED <<published, completed, slots, laneVars, history>>
BY DEF DawStep, OpenLink, Announce, WaitReady, Close, DawDies, HostPoll,
       HostBuild, HostLook, HostLookInput, HostWake, HostSeesDeath, HostDrain,
       HostDies, vars, ringVars, laneVars, hostVars, history

\* The counters are moved by Publish and HostRelease, and by Check the
\* sequence, under guards that keep them within two of each other.
LEMMA CountersStep ==
  ASSUME NoWrap, RingInv, [Next]_vars PROVE CountersAgree'
<1>. USE DEF ringVars, laneVars, hostVars, history
<1>. TypeOK /\ CountersAgree /\ HostOnNext
  BY DEF RingInv
<1>1. CASE DawStep \/ HostPoll \/ HostBuild \/ HostLook \/ HostLookInput
             \/ HostWake \/ HostSeesDeath \/ HostDrain \/ HostDies
             \/ UNCHANGED vars
  BY <1>1, QuietStep DEF CountersAgree
<1>2. CASE HostProcess
  BY <1>2 DEF HostProcess, CountersAgree
<1>3. CASE HostRelease
  BY <1>3 DEF HostRelease, HostOnNext, CountersAgree, TypeOK
<1>4. ASSUME NEW l \in Lanes, Call(l) PROVE CountersAgree'
  BY <1>4 DEF Call, CountersAgree, TypeOK
<1>5. ASSUME NEW l \in Lanes, Check(l) PROVE CountersAgree'
  BY <1>5, CanPublishMeans DEF Check, CountersAgree, TypeOK
<1>6. ASSUME NEW l \in Lanes, Refused(l) \/ Missed(l) \/ Copy(l) \/ Await(l)
      PROVE  CountersAgree'
  <2>1. \E where \in {"idle", "await", "missed", "copy"} :
          pc' = [pc EXCEPT ![l] = where]
    BY <1>6 DEF Refused, Missed, Copy, Await, ReturnLate, Return
  <2>2. UNCHANGED <<published, completed, sequence, sent, served, calls>>
    BY <1>6 DEF Refused, Missed, Copy, Await
  <2>3. pc[l] \notin {"fill", "publish"}
    BY <1>6 DEF Refused, Missed, Copy, Await
  <2>. QED BY <2>1, <2>2, <2>3 DEF CountersAgree, TypeOK
<1>7. ASSUME NEW l \in Lanes, Fill(l) PROVE CountersAgree'
  BY <1>7 DEF Fill, CountersAgree, TypeOK
<1>8. ASSUME NEW l \in Lanes, Publish(l) PROVE CountersAgree'
  <2>1. \E where \in {"idle", "await"} : pc' = [pc EXCEPT ![l] = where]
    BY <1>8 DEF Publish, Return
  <2>2. /\ published' = [published EXCEPT ![l] = sequence[l]]
        /\ sent' = [sent EXCEPT ![l] = @ + 1] /\ pc[l] = "publish"
        /\ UNCHANGED <<completed, sequence, served, calls>>
    BY <1>8 DEF Publish
  <2>. QED BY <2>1, <2>2 DEF CountersAgree, TypeOK
<1>. QED
  BY <1>1, <1>2, <1>3, <1>4, <1>5, <1>6, <1>7, <1>8
     DEF Next, HostStep, LaneStep

\* The host takes the next block only where one is pending; nobody else moves
\* what it holds.
LEMMA HostOnNextStep ==
  ASSUME NoWrap, RingInv, [Next]_vars PROVE HostOnNext'
<1>. USE DEF ringVars, laneVars, hostVars, history
<1>. TypeOK /\ CountersAgree /\ HostOnNext
  BY DEF RingInv
<1>1. CASE DawStep \/ HostPoll \/ HostBuild \/ HostWake \/ HostSeesDeath
             \/ HostDies \/ UNCHANGED vars
  <2>1. UNCHANGED <<acquired, sent, served>>
    BY <1>1 DEF DawStep, OpenLink, Announce, WaitReady, Close, DawDies,
                HostPoll, HostBuild, HostWake, HostSeesDeath, HostDies, vars
  <2>2. host' = host \/ host' \notin {"process", "release"}
    BY <1>1 DEF DawStep, OpenLink, Announce, WaitReady, Close, DawDies,
                HostPoll, HostBuild, HostWake, HostSeesDeath, HostDies, vars
  <2>3. daw' = "closed" => daw = "closed" /\ (host = "absent" => host' = host)
    BY <1>1 DEF DawStep, OpenLink, Announce, WaitReady, Close, DawDies,
                HostPoll, HostBuild, HostWake, HostSeesDeath, HostDies, vars
  <2>. QED BY <2>1, <2>2, <2>3 DEF HostOnNext
<1>2. CASE HostLook \/ HostLookInput \/ HostDrain
  <2>1. UNCHANGED <<sent, served, daw>> /\ host # "absent"
    BY <1>2 DEF HostLook, HostLookInput, HostDrain
  <2>2. \/ host' \notin {"process", "release"}
        \/ \E l \in {"output", "input"} : Pending(l) /\ Take(l)
    BY <1>2 DEF HostLook, HostLookInput, HostDrain
  <2>3. ASSUME NEW l, Pending(l), Take(l) PROVE HostOnNext'
    BY <2>1, <2>3, PendingMeans DEF Take, HostOnNext, TypeOK
  <2>. QED BY <2>1, <2>2, <2>3 DEF HostOnNext
<1>3. CASE HostProcess
  BY <1>3 DEF HostProcess, HostOnNext
<1>4. CASE HostRelease
  BY <1>4 DEF HostRelease, HostOnNext
<1>5. ASSUME NEW l \in Lanes, Call(l) \/ Check(l) \/ Refused(l) \/ Fill(l)
                                \/ Await(l) \/ Missed(l) \/ Copy(l)
      PROVE  HostOnNext'
  BY <1>5 DEF Call, Check, Refused, Fill, Await, Missed, Copy, HostOnNext
<1>6. ASSUME NEW l \in Lanes, Publish(l) PROVE HostOnNext'
  BY <1>6 DEF Publish, HostOnNext, TypeOK
<1>. QED
  BY <1>1, <1>2, <1>3, <1>4, <1>5, <1>6 DEF Next, HostStep, LaneStep

\* A call comes to await a block by publishing its own, and to copy one by
\* finding it completed.
LEMMA CallAwaitsStep ==
  ASSUME NoWrap, RingInv, [Next]_vars PROVE CallAwaits'
<1>. USE DEF ringVars, laneVars, hostVars, history
<1>. TypeOK /\ CountersAgree /\ HostOnNext /\ CallAwaits
  BY DEF RingInv
<1>1. CASE DawStep \/ HostPoll \/ HostBuild \/ HostLook \/ HostLookInput
             \/ HostWake \/ HostSeesDeath \/ HostDrain \/ HostDies
             \/ UNCHANGED vars
  BY <1>1, QuietStep DEF CallAwaits, Target
<1>2. CASE HostProcess
  BY <1>2 DEF HostProcess, CallAwaits, Target
<1>3. CASE HostRelease
  BY <1>3 DEF HostRelease, HostOnNext, CallAwaits, Target, TypeOK, Pred
<1>4. ASSUME NEW l \in Lanes, Call(l) \/ Check(l) \/ Fill(l)
      PROVE  CallAwaits'
  <2>1. \E where \in {"check", "fill", "refused", "publish"} :
          pc' = [pc EXCEPT ![l] = where]
    BY <1>4 DEF Call, Check, Fill
  <2>2. UNCHANGED <<sent, served>>
    BY <1>4 DEF Call, Check, Fill
  <2>3. \A k \in Lanes \ {l} :
          sequence'[k] = sequence[k] /\ staging'[k] = staging[k]
    BY <1>4 DEF Call, Check, Fill, TypeOK
  <2>4. pc'[l] \in {"check", "fill"} => staging'[l].stage = "raw"
    BY <1>4 DEF Call, Check, Fill, TypeOK, CallAwaits
  <2>. QED BY <2>1, <2>2, <2>3, <2>4 DEF CallAwaits, Target, TypeOK
<1>5. ASSUME NEW l \in Lanes, Refused(l) \/ Missed(l) \/ Copy(l)
      PROVE  CallAwaits'
  <2>1. \/ pc' = [pc EXCEPT ![l] = "idle"]
        \/ pc[l] = "missed" /\ pc' = [pc EXCEPT ![l] = "await"]
    BY <1>5 DEF Refused, Missed, Copy, ReturnLate, Return
  <2>2. UNCHANGED <<sent, served, sequence>>
    BY <1>5 DEF Refused, Missed, Copy
  <2>3. \A k \in Lanes \ {l} : staging'[k] = staging[k]
    BY <1>5 DEF Refused, Missed, Copy, TypeOK
  <2>. QED BY <2>1, <2>2, <2>3 DEF CallAwaits, Target, TypeOK
<1>6. ASSUME NEW l \in Lanes, Await(l) PROVE CallAwaits'
  <2>1. UNCHANGED <<sent, served, sequence, staging>> /\ pc[l] = "await"
    BY <1>6 DEF Await
  <2>2. CASE SequenceAtLeast(completed[l], Target(l))
    <3>1. Target(l) <= served[l]
      BY <2>1, <2>2, AwaitMeans DEF CallAwaits
    <3>2. pc' = [pc EXCEPT ![l] = "copy"]
      BY <1>6, <2>2 DEF Await
    <3>. QED BY <2>1, <3>1, <3>2 DEF CallAwaits, Target, TypeOK
  <2>3. CASE ~SequenceAtLeast(completed[l], Target(l))
    <3>1. pc' = [pc EXCEPT ![l] = "missed"]
      BY <1>6, <2>3 DEF Await
    <3>. QED BY <2>1, <3>1 DEF CallAwaits, Target, TypeOK
  <2>. QED BY <2>2, <2>3
<1>7. ASSUME NEW l \in Lanes, Publish(l) PROVE CallAwaits'
  <2>1. /\ sent' = [sent EXCEPT ![l] = @ + 1] /\ pc[l] = "publish"
        /\ UNCHANGED <<sequence, served>>
        /\ \A k \in Lanes \ {l} : staging'[k] = staging[k]
    BY <1>7 DEF Publish, TypeOK
  <2>2. sequence[l] = sent[l] + 1 /\ sent[l] \in Nat
    BY <2>1 DEF CountersAgree, TypeOK
  <2>3. CASE pc' = [pc EXCEPT ![l] = "idle"]
    BY <2>1, <2>3 DEF CallAwaits, Target, TypeOK
  <2>4. CASE /\ pc' = [pc EXCEPT ![l] = "await"]
             /\ Mode # "Pipelined" \/ sequence[l] # 1
    <3>1. Target(l) \in 1..(sent[l] + 1)
      BY <2>2, <2>4, StreamRingAssumption DEF Target, Pred
    <3>. QED BY <2>1, <2>4, <3>1 DEF CallAwaits, Target, TypeOK
  <2>. QED BY <1>7, <2>3, <2>4 DEF Publish, Return
<1>. QED
  BY <1>1, <1>2, <1>3, <1>4, <1>5, <1>6, <1>7 DEF Next, HostStep, LaneStep

\* Only Fill and HostProcess write a slot, and neither the slot of another
\* block under way.
LEMMA UnderWayStep ==
  ASSUME NoWrap, RingInv, [Next]_vars PROVE UnderWay'
<1>. USE DEF ringVars, laneVars, hostVars, history
<1>. TypeOK /\ CountersAgree /\ HostOnNext /\ UnderWay
  BY DEF RingInv
<1>1. CASE DawStep \/ HostPoll \/ HostBuild \/ HostLook \/ HostLookInput
             \/ HostWake \/ HostSeesDeath \/ HostDrain \/ HostDies
             \/ UNCHANGED vars
  <2>1. UNCHANGED <<slots, pc, sent, served>>
    BY <1>1, QuietStep
  <2>2. \/ UNCHANGED <<host, acquired>>
        \/ host # "release" /\ host' # "release" /\ host # "dead"
        \/ host' = "dead"
    <3>1. CASE DawStep
      BY <3>1 DEF DawStep, OpenLink, Announce, WaitReady, Close, DawDies,
                  HostOnNext
    <3>2. CASE HostPoll \/ HostBuild \/ HostWake \/ HostSeesDeath
      BY <3>2 DEF HostPoll, HostBuild, HostWake, HostSeesDeath
    <3>3. CASE HostLook \/ HostLookInput \/ HostDrain
      BY <3>3 DEF HostLook, HostLookInput, HostDrain, Take
    <3>. QED BY <1>1, <3>1, <3>2, <3>3 DEF HostDies, vars
  <2>. QED BY <2>1, <2>2 DEF UnderWay, Releasing
<1>2. CASE HostProcess
  <2>. DEFINE l == acquired.lane  s == acquired.seq
  <2>1. l \in Lanes /\ s = served[l] + 1 /\ s <= sent[l] /\ s \in Nat
    BY <1>2 DEF HostProcess, HostOnNext, TypeOK
  <2>2. /\ slots' = [slots EXCEPT ![l][SlotOf(s)].stage = "filtered"]
        /\ host = "process" /\ host' = "release"
        /\ UNCHANGED <<pc, sent, served, acquired>>
    BY <1>2 DEF HostProcess
  <2>. SUFFICES ASSUME NEW k \in Lanes, NEW n \in 1..MaxBlocks,
                       n > served[k],
                       n <= sent[k] \/ (pc[k] = "publish" /\ n = sent[k] + 1)
                PROVE  /\ slots'[k][SlotOf(n)].nth = n
                       /\ Releasing(k, n)' =>
                            slots'[k][SlotOf(n)].stage = "filtered"
                       /\ \/ slots'[k][SlotOf(n)].stage = "raw"
                          \/ Releasing(k, n)'
    BY <2>2 DEF UnderWay
  <2>3. /\ slots[k][SlotOf(n)].nth = n
        /\ slots[k][SlotOf(n)].stage = "raw"
    BY <2>2 DEF UnderWay, Releasing
  <2>4. SlotOf(n) \in {0, 1} /\ SlotOf(s) \in {0, 1}
    BY <2>1, Parity
  <2>5. CASE k = l /\ n = s
    BY <2>1, <2>2, <2>3, <2>4, <2>5 DEF Releasing, TypeOK, Block
  <2>6. CASE k # l \/ n # s
    <3>1. k # l \/ SlotOf(n) # SlotOf(s)
      <4>1. CASE k = l
        <5>1. n \in Nat /\ s <= n /\ n <= s + 1 /\ n # s
          BY <2>1, <2>6, <4>1 DEF CountersAgree, TypeOK
        <5>. QED BY <2>1, <5>1, SlotsApart
      <4>. QED BY <4>1
    <3>2. slots'[k][SlotOf(n)] = slots[k][SlotOf(n)]
      BY <2>1, <2>2, <2>4, <3>1 DEF TypeOK
    <3>. QED BY <2>2, <2>3, <2>6, <3>2 DEF Releasing
  <2>. QED BY <2>5, <2>6
<1>3. CASE HostRelease
  <2>1. /\ UNCHANGED <<slots, pc, sent, acquired>>
        /\ served' = [served EXCEPT ![acquired.lane] = @ + 1]
        /\ host = "release" /\ host' = "look"
    BY <1>3 DEF HostRelease
  <2>2. acquired.lane \in Lanes /\ acquired.seq = served[acquired.lane] + 1
    BY <2>1 DEF HostOnNext
  <2>. QED BY <2>1, <2>2 DEF UnderWay, Releasing, TypeOK
<1>4. ASSUME NEW l \in Lanes, Call(l) \/ Check(l) \/ Refused(l) \/ Await(l)
                                \/ Missed(l) \/ Copy(l)
      PROVE  UnderWay'
  <2>1. UNCHANGED <<slots, sent, served, host, acquired>>
    BY <1>4 DEF Call, Check, Refused, Await, Missed, Copy
  <2>2. \E where \in LaneStates \ {"publish"} : pc' = [pc EXCEPT ![l] = where]
    BY <1>4 DEF Call, Check, Refused, Await, Missed, Copy, ReturnLate, Return,
                LaneStates
  <2>. QED BY <2>1, <2>2 DEF UnderWay, Releasing, TypeOK
<1>5. ASSUME NEW l \in Lanes, Fill(l) PROVE UnderWay'
  <2>. DEFINE s == sent[l] + 1
              b == [staging[l] EXCEPT !.nth = s]
  <2>1. /\ sequence[l] = s /\ s \in Nat /\ sent[l] \in Nat /\ served[l] \in Nat
        /\ sent[l] <= served[l] + 1 /\ s <= MaxBlocks
    BY <1>5, StreamRingAssumption DEF Fill, CountersAgree, TypeOK
  <2>2. /\ slots' = [slots EXCEPT ![l][SlotOf(s)] = b]
        /\ pc' = [pc EXCEPT ![l] = "publish"] /\ pc[l] = "fill"
        /\ UNCHANGED <<sent, served, host, acquired>>
    BY <1>5, <2>1 DEF Fill
  <2>3. SlotOf(s) \in {0, 1}
    BY <2>1, Parity
  <2>4. b.nth = s /\ b.stage = "raw" /\ s \in 0..MaxBlocks
    BY <1>5, <2>1 DEF Fill, RingInv, CallAwaits, TypeOK, Block
  <2>. SUFFICES ASSUME NEW k \in Lanes, NEW n \in 1..MaxBlocks,
                       n > served[k],
                       n <= sent[k] \/ (pc'[k] = "publish" /\ n = sent[k] + 1)
                PROVE  /\ slots'[k][SlotOf(n)].nth = n
                       /\ Releasing(k, n) =>
                            slots'[k][SlotOf(n)].stage = "filtered"
                       /\ \/ slots'[k][SlotOf(n)].stage = "raw"
                          \/ Releasing(k, n)
                          \/ host = "dead"
    BY <2>2 DEF UnderWay, Releasing
  <2>5. SlotOf(n) \in {0, 1}
    BY Parity
  <2>6. CASE k = l /\ n = s
    <3>1. slots'[k][SlotOf(n)] = b
      BY <2>2, <2>3, <2>6 DEF TypeOK
    <3>2. ~Releasing(k, n)
      BY <2>1, <2>6 DEF Releasing, HostOnNext, TypeOK
    <3>. QED BY <2>4, <2>6, <3>1, <3>2
  <2>7. CASE k # l \/ n # s
    <3>1. n <= sent[k] \/ (pc[k] = "publish" /\ n = sent[k] + 1)
      BY <2>2, <2>7 DEF TypeOK
    <3>2. k # l \/ SlotOf(n) # SlotOf(s)
      <4>1. CASE k = l
        <5>1. n \in Nat /\ n + 1 = s
          BY <2>1, <2>2, <2>7, <3>1, <4>1
        <5>. QED BY <5>1, Parity
      <4>. QED BY <4>1
    <3>3. slots'[k][SlotOf(n)] = slots[k][SlotOf(n)]
      BY <2>2, <2>3, <2>5, <3>2 DEF TypeOK
    <3>. QED BY <3>1, <3>3 DEF UnderWay
  <2>. QED BY <2>6, <2>7
<1>6. ASSUME NEW l \in Lanes, Publish(l) PROVE UnderWay'
  <2>1. /\ UNCHANGED <<slots, served, host, acquired>>
        /\ sent' = [sent EXCEPT ![l] = @ + 1] /\ pc[l] = "publish"
    BY <1>6 DEF Publish
  <2>2. \E where \in {"idle", "await"} : pc' = [pc EXCEPT ![l] = where]
    BY <1>6 DEF Publish, Return
  <2>3. ASSUME NEW k \in Lanes, NEW n \in 1..MaxBlocks,
               n <= sent'[k] \/ (pc'[k] = "publish" /\ n = sent'[k] + 1)
        PROVE  n <= sent[k] \/ (pc[k] = "publish" /\ n = sent[k] + 1)
    <3>1. CASE k = l
      <4>1. pc'[l] # "publish" /\ sent'[l] = sent[l] + 1 /\ sent[l] \in Nat
        BY <2>1, <2>2 DEF TypeOK
      <4>. QED BY <2>1, <2>3, <3>1, <4>1, StreamRingAssumption
    <3>2. CASE k # l
      BY <2>1, <2>2, <2>3, <3>2 DEF TypeOK
    <3>. QED BY <3>1, <3>2
  <2>. QED BY <2>1, <2>3 DEF UnderWay, Releasing
<1>. QED
  BY <1>1, <1>2, <1>3, <1>4, <1>5, <1>6 DEF Next, HostStep, LaneStep

\* A completed block is overwritten only by the next but one: by then no call
\* will return it.
LEMMA ReturnedStep ==
  ASSUME NoWrap, RingInv, [Next]_vars PROVE Returned'
<1>. USE DEF ringVars, laneVars, hostVars, history
<1>. TypeOK /\ CountersAgree /\ HostOnNext /\ UnderWay /\ Returned
  BY DEF RingInv
<1>1. CASE DawStep \/ HostPoll \/ HostBuild \/ HostLook \/ HostLookInput
             \/ HostWake \/ HostSeesDeath \/ HostDrain \/ HostDies
             \/ UNCHANGED vars
  BY <1>1, QuietStep DEF Returned
<1>2. CASE HostProcess
  <2>. DEFINE l == acquired.lane  s == acquired.seq
  <2>1. l \in Lanes /\ s = served[l] + 1 /\ s <= sent[l] /\ s \in Nat
    BY <1>2 DEF HostProcess, HostOnNext, TypeOK
  <2>2. /\ slots' = [slots EXCEPT ![l][SlotOf(s)].stage = "filtered"]
        /\ UNCHANGED <<pc, sent, served>>
    BY <1>2 DEF HostProcess
  <2>. SUFFICES ASSUME NEW k \in Lanes, NEW n \in 1..MaxBlocks,
                       n <= served[k],
                       n = sent[k] \/ (n = sent[k] - 1 /\ pc[k] # "publish")
                PROVE  /\ slots'[k][SlotOf(n)].nth = n
                       /\ slots'[k][SlotOf(n)].stage = "filtered"
    BY <2>2 DEF Returned
  <2>3. SlotOf(n) \in {0, 1} /\ SlotOf(s) \in {0, 1}
    BY <2>1, Parity
  <2>4. k # l \/ SlotOf(n) # SlotOf(s)
    <3>1. CASE k = l
      <4>1. n \in Nat /\ n + 1 = s
        BY <2>1, <3>1 DEF TypeOK
      <4>. QED BY <4>1, Parity
    <3>. QED BY <3>1
  <2>5. slots'[k][SlotOf(n)] = slots[k][SlotOf(n)]
    BY <2>1, <2>2, <2>3, <2>4 DEF TypeOK
  <2>. QED BY <2>5 DEF Returned
<1>3. CASE HostRelease
  <2>. DEFINE l == acquired.lane  s == acquired.seq
  <2>1. /\ UNCHANGED <<slots, pc, sent>> /\ host = "release"
        /\ served' = [served EXCEPT ![l] = @ + 1]
    BY <1>3 DEF HostRelease
  <2>2. l \in Lanes /\ s = served[l] + 1 /\ s <= sent[l] /\ s \in Nat
    BY <2>1 DEF HostOnNext, TypeOK
  <2>3. Releasing(l, s)
    BY <2>1 DEF Releasing
  <2>4. s \in 1..MaxBlocks
    <3>1. served[l] \in 0..MaxBlocks /\ sent[l] \in 0..MaxBlocks
      BY <2>2 DEF TypeOK
    <3>. HIDE DEF l, s
    <3>. QED BY <2>2, <3>1, StreamRingAssumption
  <2>5. slots[l][SlotOf(s)].nth = s /\ slots[l][SlotOf(s)].stage = "filtered"
    BY <2>2, <2>3, <2>4 DEF UnderWay, TypeOK
  <2>6. ASSUME NEW k \in Lanes, NEW n \in 1..MaxBlocks, n <= served'[k]
        PROVE  n <= served[k] \/ (k = l /\ n = s)
    <3>. HIDE DEF l, s
    <3>. QED BY <2>1, <2>2, <2>6 DEF TypeOK
  <2>. QED BY <2>1, <2>5, <2>6 DEF Returned
<1>4. ASSUME NEW l \in Lanes, Call(l) \/ Check(l) \/ Refused(l) \/ Await(l)
                                \/ Missed(l) \/ Copy(l)
      PROVE  Returned'
  <2>1. UNCHANGED <<slots, sent, served>> /\ pc[l] # "publish"
    BY <1>4 DEF Call, Check, Refused, Await, Missed, Copy
  <2>2. \A k \in Lanes \ {l} : pc'[k] = pc[k]
    BY <1>4 DEF Call, Check, Refused, Await, Missed, Copy, ReturnLate, Return,
                TypeOK
  <2>. QED BY <2>1, <2>2 DEF Returned
<1>5. ASSUME NEW l \in Lanes, Fill(l) PROVE Returned'
  <2>. DEFINE s == sent[l] + 1
  <2>1. /\ sequence[l] = s /\ s \in Nat /\ sent[l] \in Nat
    BY <1>5 DEF Fill, CountersAgree, TypeOK
  <2>2. /\ slots' = [slots EXCEPT ![l][SlotOf(s)] =
                        [staging[l] EXCEPT !.nth = s]]
        /\ pc' = [pc EXCEPT ![l] = "publish"]
        /\ UNCHANGED <<sent, served>>
    BY <1>5, <2>1 DEF Fill
  <2>. SUFFICES ASSUME NEW k \in Lanes, NEW n \in 1..MaxBlocks,
                       n <= served[k],
                       n = sent[k] \/ (n = sent[k] - 1 /\ pc'[k] # "publish")
                PROVE  /\ slots'[k][SlotOf(n)].nth = n
                       /\ slots'[k][SlotOf(n)].stage = "filtered"
    BY <2>2 DEF Returned
  <2>3. SlotOf(n) \in {0, 1} /\ SlotOf(s) \in {0, 1}
    BY <2>1, Parity
  <2>4. k # l \/ SlotOf(n) # SlotOf(s)
    <3>1. CASE k = l
      <4>1. n \in Nat /\ n + 1 = s
        BY <2>1, <2>2, <3>1 DEF TypeOK
      <4>. QED BY <4>1, Parity
    <3>. QED BY <3>1
  <2>5. slots'[k][SlotOf(n)] = slots[k][SlotOf(n)]
    BY <2>2, <2>3, <2>4 DEF TypeOK
  <2>6. k = l \/ pc'[k] = pc[k]
    BY <2>2 DEF TypeOK
  <2>7. n = sent[k] \/ (n = sent[k] - 1 /\ pc[k] # "publish")
    BY <2>2, <2>6 DEF TypeOK
  <2>. QED BY <2>5, <2>7 DEF Returned
<1>6. ASSUME NEW l \in Lanes, Publish(l) PROVE Returned'
  <2>1. /\ UNCHANGED <<slots, served>>
        /\ sent' = [sent EXCEPT ![l] = @ + 1]
    BY <1>6 DEF Publish
  <2>2. \A k \in Lanes \ {l} : pc'[k] = pc[k]
    BY <1>6 DEF Publish, Return, TypeOK
  <2>. QED BY <2>1, <2>2 DEF Returned, CountersAgree, TypeOK
<1>. QED
  BY <1>1, <1>2, <1>3, <1>4, <1>5, <1>6 DEF Next, HostStep, LaneStep

-----------------------------------------------------------------------------
(* How a dead host shows.                                                  *)

\* DeathCounted and HangCounted of one lane.
DeathCountedIn(l) ==
  /\ host # "dead" => afterDeath[l] = 0
  /\ "daw" \in peers \/ sent[l] < served[l] + 2 =>
       afterDeath[l] <=
         sent[l] - served[l]
           + IF gone[l] \/ pc[l] \in {"check", "refused", "fill", "publish"}
               THEN 1 ELSE 0
  /\ pc[l] = "refused" /\ afterDeath[l] # 0 => sent[l] = served[l] + 2

HangCountedIn(l) ==
  /\ pc[l] # "idle" => ~gone[l]
  /\ Mode = "Pipelined" =>
       IF gone[l]
         THEN afterDeath[l] <= HangLateCount + 1
         ELSE /\ late[l] < HangLateCount
              /\ afterDeath[l] <= late[l] + (IF pc[l] = "idle" THEN 1 ELSE 2)

LEMMA CountedInLanes ==
  /\ DeathCounted <=> \A l \in Lanes : DeathCountedIn(l)
  /\ HangCounted <=> \A l \in Lanes : HangCountedIn(l)
BY DEF DeathCounted, HangCounted, DeathCountedIn, HangCountedIn

\* A step of one lane leaves the others and the host where they are.
LEMMA LaneMoves ==
  ASSUME TypeOK, NEW l \in Lanes, Call(l) \/ LaneStep(l)
  PROVE  /\ host' = host /\ peers' = peers /\ served' = served
         /\ \A k \in Lanes \ {l} :
              /\ pc'[k] = pc[k] /\ gone'[k] = gone[k] /\ late'[k] = late[k]
              /\ sent'[k] = sent[k] /\ afterDeath'[k] = afterDeath[k]
<1>. USE DEF TypeOK, ringVars, laneVars, hostVars, history
<1>1. CASE Call(l)
  BY <1>1 DEF Call
<1>2. CASE Check(l) \/ Fill(l) \/ Await(l)
  BY <1>2 DEF Check, Fill, Await
<1>3. CASE Refused(l)
  BY <1>3 DEF Refused, ReturnLate, Return
<1>4. CASE Missed(l)
  BY <1>4 DEF Missed, ReturnLate, Return
<1>5. CASE Publish(l) \/ Copy(l)
  BY <1>5 DEF Publish, Copy, Return
<1>. QED BY <1>1, <1>2, <1>3, <1>4, <1>5 DEF LaneStep

\* What a lane's counters are.
LEMMA LaneNumbers ==
  ASSUME TypeOK, CountersAgree, NEW l \in Lanes
  PROVE  /\ sent[l] \in Nat /\ served[l] \in Nat /\ afterDeath[l] \in Nat
         /\ late[l] \in Nat /\ gone[l] \in BOOLEAN
         /\ served[l] <= sent[l] /\ sent[l] <= served[l] + 2
BY StreamRingAssumption DEF TypeOK, CountersAgree

\* A host step, or an opening or closing one, moves no lane; a dead host stays
\* dead, and handles are opened while there is no host yet.
LEMMA DeathSteps ==
  ASSUME HostOnNext,
         DawStep \/ HostPoll \/ HostBuild \/ HostLook \/ HostLookInput
           \/ HostWake \/ HostSeesDeath \/ HostDrain \/ HostDies \/ HostProcess
           \/ UNCHANGED vars
  PROVE  /\ UNCHANGED <<pc, gone, late, sent, served, afterDeath>>
         /\ host = "dead" => host' = "dead" /\ peers' = peers
         /\ host' = "dead" /\ host # "dead" => peers' = peers
<1>. USE DEF ringVars, laneVars, hostVars, history
<1>1. UNCHANGED <<pc, gone, late, sent, served, afterDeath>>
  BY QuietStep DEF HostProcess
<1>2. CASE DawStep
  BY <1>1, <1>2 DEF DawStep, OpenLink, Announce, WaitReady, Close, DawDies,
       HostOnNext
<1>3. CASE ~DawStep
  BY <1>1, <1>3 DEF HostPoll, HostBuild, HostLook, HostLookInput, HostWake,
       HostSeesDeath, HostDrain, HostDies, HostProcess, vars
<1>. QED BY <1>2, <1>3

\* After the host's death a call publishes a block nobody completes, or finds
\* two of them, and then the host gone if it can see that.
LEMMA DeathCountedStep ==
  ASSUME NoWrap, RingInv, [Next]_vars PROVE DeathCounted'
<1>. TypeOK /\ CountersAgree /\ HostOnNext /\ DeathCounted
  BY DEF RingInv
<1>. SUFFICES ASSUME NEW k \in Lanes PROVE DeathCountedIn(k)'
  BY DEF DeathCounted, DeathCountedIn
<1>0. DeathCountedIn(k)
  BY CountedInLanes
<1>1. CASE DawStep \/ HostPoll \/ HostBuild \/ HostLook \/ HostLookInput
             \/ HostWake \/ HostSeesDeath \/ HostDrain \/ HostDies \/ HostProcess
             \/ UNCHANGED vars
  <2>1. /\ UNCHANGED <<pc, gone, sent, served, afterDeath>>
        /\ host = "dead" => host' = "dead" /\ peers' = peers
        /\ host' = "dead" /\ host # "dead" => peers' = peers
    BY <1>1, DeathSteps
  <2>. QED BY <1>0, <2>1, LaneNumbers DEF DeathCountedIn
<1>2. CASE HostRelease
  <2>1. afterDeath[k] = 0 /\ afterDeath'[k] = 0 /\ host # "dead"
    BY <1>0, <1>2 DEF HostRelease, DeathCountedIn
  <2>2. served'[k] <= sent'[k] /\ served'[k] \in Nat /\ sent'[k] \in Nat
    BY <1>2, CountersStep, TypeStep DEF CountersAgree, TypeOK
  <2>. QED BY <2>1, <2>2 DEF DeathCountedIn
<1>3. ASSUME NEW l \in Lanes, Call(l) \/ LaneStep(l), k # l
      PROVE  DeathCountedIn(k)'
  BY <1>0, <1>3, LaneMoves DEF DeathCountedIn
<1>. USE DEF ringVars, laneVars, hostVars, history
<1>4. CASE Call(k)
  <2>1. /\ pc[k] = "idle" /\ ~gone[k] /\ pc'[k] = "check"
        /\ afterDeath'[k] = IF host = "dead" THEN afterDeath[k] + 1 ELSE afterDeath[k]
        /\ UNCHANGED <<host, peers, sent, served, gone>>
    BY <1>4 DEF Call, TypeOK
  <2>. QED BY <1>0, <2>1, LaneNumbers DEF DeathCountedIn
<1>5. CASE Check(k)
  <2>1. /\ pc[k] = "check" /\ UNCHANGED <<host, peers, sent, served, gone, afterDeath>>
        /\ \/ pc'[k] = "fill"
           \/ pc'[k] = "refused" /\ ~CanPublish(k, Succ(sequence[k]))
    BY <1>5 DEF Check, TypeOK
  <2>2. pc'[k] = "refused" => sent[k] = served[k] + 2
    BY <2>1, CanPublishMeans, LaneNumbers
  <2>. QED BY <1>0, <2>1, <2>2 DEF DeathCountedIn
<1>6. CASE Refused(k)
  <2>1. /\ pc[k] = "refused" /\ pc'[k] = "idle"
        /\ UNCHANGED <<host, peers, sent, served, afterDeath>>
    BY <1>6 DEF Refused, ReturnLate, Return, TypeOK
  <2>2. gone'[k] \/ host # "dead" \/ "daw" \notin peers
    BY <1>6 DEF Refused, HostDead, Return, TypeOK
  <2>. QED BY <1>0, <2>1, <2>2, LaneNumbers DEF DeathCountedIn
<1>7. CASE Fill(k)
  <2>1. /\ pc[k] = "fill" /\ pc'[k] = "publish"
        /\ UNCHANGED <<host, peers, sent, served, gone, afterDeath>>
    BY <1>7 DEF Fill, TypeOK
  <2>. QED BY <1>0, <2>1 DEF DeathCountedIn
<1>8. CASE Publish(k)
  <2>1. /\ pc[k] = "publish" /\ pc'[k] \in {"idle", "await"}
        /\ sent'[k] = sent[k] + 1
        /\ UNCHANGED <<host, peers, served, afterDeath>>
    BY <1>8 DEF Publish, Return, TypeOK
  <2>. QED BY <1>0, <2>1, LaneNumbers DEF DeathCountedIn
<1>9. CASE Await(k) \/ Missed(k) \/ Copy(k)
  <2>1. /\ pc[k] \in {"await", "missed", "copy"}
        /\ pc'[k] \in {"idle", "await", "missed", "copy"}
        /\ UNCHANGED <<host, peers, sent, served, afterDeath>>
        /\ gone[k] => gone'[k]
    BY <1>9 DEF Await, Missed, Copy, ReturnLate, Return, TypeOK
  <2>. QED BY <1>0, <2>1, LaneNumbers DEF DeathCountedIn
<1>. QED
  BY <1>1, <1>2, <1>3, <1>4, <1>5, <1>6, <1>7, <1>8, <1>9
     DEF Next, HostStep, LaneStep

\* A pipeline's call that comes back late counts; one that comes back processed
\* found its target completed, so at most one block was published since the
\* host's death.
LEMMA HangCountedStep ==
  ASSUME NoWrap, RingInv, [Next]_vars PROVE HangCounted'
<1>. TypeOK /\ CountersAgree /\ HostOnNext /\ DeathCounted /\ HangCounted
  BY DEF RingInv
<1>. SUFFICES ASSUME NEW k \in Lanes PROVE HangCountedIn(k)'
  BY DEF HangCounted, HangCountedIn
<1>0. /\ HangCountedIn(k) /\ DeathCountedIn(k)
      /\ HangLateCount \in Nat /\ HangLateCount >= 1
  BY CountedInLanes, StreamRingAssumption
<1>. USE DEF ringVars, laneVars, hostVars, history
<1>1. CASE DawStep \/ HostPoll \/ HostBuild \/ HostLook \/ HostLookInput
             \/ HostWake \/ HostSeesDeath \/ HostDrain \/ HostDies \/ HostProcess
             \/ UNCHANGED vars
  BY <1>0, <1>1, DeathSteps DEF HangCountedIn
<1>2. CASE HostRelease
  BY <1>0, <1>2 DEF HostRelease, HangCountedIn
<1>3. ASSUME NEW l \in Lanes, Call(l) \/ LaneStep(l), k # l
      PROVE  HangCountedIn(k)'
  BY <1>0, <1>3, LaneMoves DEF HangCountedIn
<1>4. CASE Call(k)
  <2>1. /\ pc[k] = "idle" /\ ~gone[k] /\ pc'[k] = "check"
        /\ afterDeath'[k] <= afterDeath[k] + 1 /\ afterDeath'[k] \in Nat
        /\ UNCHANGED <<gone, late>>
    BY <1>4 DEF Call, TypeOK
  <2>. QED BY <1>0, <2>1, LaneNumbers DEF HangCountedIn
<1>5. CASE Check(k) \/ Fill(k) \/ Await(k)
  <2>1. /\ pc[k] # "idle" /\ pc'[k] # "idle" /\ UNCHANGED <<gone, late, afterDeath>>
    BY <1>5 DEF Check, Fill, Await, TypeOK
  <2>. QED BY <1>0, <2>1 DEF HangCountedIn
<1>6. CASE Refused(k) \/ Missed(k)
  <2>0. pc[k] # "idle" /\ afterDeath' = afterDeath /\ ~gone[k]
    BY <1>0, <1>6 DEF Refused, Missed, HangCountedIn
  <2>1. \/ pc'[k] = "idle" /\ gone'[k] /\ late'[k] \in Nat
        \/ /\ Mode = "Pipelined" /\ pc'[k] = "idle" /\ late'[k] = late[k] + 1
           /\ late[k] + 1 >= HangLateCount => gone'[k]
           /\ late[k] + 1 < HangLateCount => ~gone'[k]
        \/ Mode # "Pipelined" /\ pc'[k] = "idle"
        \/ pc'[k] # "idle" /\ UNCHANGED <<gone, late>>
    <3>. late[k] \in Nat /\ HangLateCount \in Nat
      BY <1>0 DEF TypeOK
    <3>1. ASSUME NEW what \in {"Late", "Gone"}, Return(k, what)
          PROVE  /\ pc'[k] = "idle"
                 /\ what = "Gone" => gone'[k]
                 /\ what = "Late" => ~gone'[k]
      BY <2>0, <3>1, Zenon DEF Return, TypeOK
    <3>2. ASSUME ReturnLate(k)
          PROVE  /\ pc'[k] = "idle" /\ late'[k] = late[k] + 1
                 /\ late[k] + 1 >= HangLateCount => gone'[k]
                 /\ late[k] + 1 < HangLateCount => ~gone'[k]
      <4>1. late'[k] = late[k] + 1
        BY <3>2 DEF ReturnLate, TypeOK
      <4>2. CASE late[k] + 1 >= HangLateCount
        <5>1. Return(k, "Gone")
          BY <3>2, <4>2 DEF ReturnLate
        <5>. QED BY <3>1, <4>1, <4>2, <5>1
      <4>3. CASE ~(late[k] + 1 >= HangLateCount)
        <5>1. Return(k, "Late")
          BY <3>2, <4>3 DEF ReturnLate
        <5>. QED BY <3>1, <4>1, <4>3, <5>1
      <4>. QED BY <4>2, <4>3
    <3>3. \/ Return(k, "Gone") /\ UNCHANGED late
          \/ Mode = "Pipelined" /\ ReturnLate(k)
          \/ Mode # "Pipelined" /\ Return(k, "Late")
          \/ pc'[k] # "idle" /\ UNCHANGED <<gone, late>>
      <4>1. CASE Refused(k)
        BY <4>1 DEF Refused
      <4>2. CASE Missed(k)
        BY <4>2 DEF Missed, TypeOK
      <4>. QED BY <1>6, <4>1, <4>2
    <3>4. CASE Return(k, "Gone") /\ UNCHANGED late
      BY <3>1, <3>4
    <3>5. CASE Mode = "Pipelined" /\ ReturnLate(k)
      BY <3>2, <3>5
    <3>6. CASE Mode # "Pipelined" /\ Return(k, "Late")
      BY <3>1, <3>6
    <3>. QED BY <3>3, <3>4, <3>5, <3>6
  <2>2. Mode = "Pipelined" =>
          late[k] < HangLateCount /\ afterDeath[k] <= late[k] + 2
    BY <1>0, <2>0 DEF HangCountedIn
  <2>3. ASSUME Mode = "Pipelined"
        PROVE  IF gone'[k]
                 THEN afterDeath'[k] <= HangLateCount + 1
                 ELSE /\ late'[k] < HangLateCount
                      /\ afterDeath'[k]
                           <= late'[k] + (IF pc'[k] = "idle" THEN 1 ELSE 2)
    <3>1. afterDeath[k] <= HangLateCount + 1
      BY <1>0, <2>2, <2>3, LaneNumbers
    <3>2. CASE pc'[k] = "idle" /\ gone'[k]
      BY <2>0, <3>1, <3>2
    <3>3. CASE pc'[k] = "idle" /\ ~gone'[k] /\ late'[k] = late[k] + 1
                 /\ late[k] + 1 < HangLateCount
      BY <1>0, <2>0, <2>2, <2>3, <3>3, LaneNumbers
    <3>4. CASE pc'[k] # "idle" /\ UNCHANGED <<gone, late>>
      BY <2>0, <2>2, <2>3, <3>4
    <3>. QED
      BY <1>0, <2>1, <2>3, <3>2, <3>3, <3>4, LaneNumbers
  <2>4. pc'[k] # "idle" => ~gone'[k]
    BY <2>0, <2>1
  <2>. QED BY <2>3, <2>4 DEF HangCountedIn
<1>7. CASE Publish(k)
  <2>1. /\ pc[k] = "publish" /\ UNCHANGED <<late, afterDeath>>
        /\ \/ pc'[k] = "await" /\ UNCHANGED gone
           \/ pc'[k] = "idle" /\ gone'[k] = gone[k] /\ sequence[k] = 1
    BY <1>7 DEF Publish, Return, TypeOK
  <2>2. sequence[k] = sent[k] + 1
    BY <2>1 DEF CountersAgree
  <2>3. sequence[k] = 1 => afterDeath[k] <= 1
    BY <1>0, <2>1, <2>2, LaneNumbers DEF DeathCountedIn, HangCountedIn
  <2>. QED BY <1>0, <2>1, <2>3, LaneNumbers DEF HangCountedIn
<1>8. CASE Copy(k)
  <2>1. /\ pc[k] = "copy" /\ pc'[k] = "idle" /\ late'[k] = 0
        /\ gone'[k] = gone[k] /\ afterDeath' = afterDeath
    BY <1>8 DEF Copy, Return, TypeOK
  <2>2. Target(k) \in 1..sent[k] /\ Target(k) <= served[k] /\ sequence[k] = sent[k]
    BY <2>1 DEF RingInv, CallAwaits, CountersAgree
  <2>3. Target(k) = sent[k] \/ Target(k) = sent[k] - 1
    BY <2>2, LaneNumbers, StreamRingAssumption DEF Target, Pred
  <2>4. afterDeath[k] <= 1
    <3>1. sent[k] < served[k] + 2 /\ sent[k] - served[k] <= 1
      BY <2>2, <2>3, LaneNumbers
    <3>. QED BY <1>0, <2>1, <3>1, LaneNumbers DEF DeathCountedIn, HangCountedIn
  <2>. QED BY <1>0, <2>1, <2>4, LaneNumbers DEF HangCountedIn
<1>. QED
  BY <1>1, <1>2, <1>3, <1>4, <1>5, <1>6, <1>7, <1>8
     DEF Next, HostStep, LaneStep

-----------------------------------------------------------------------------
(* The theorems.                                                           *)

\* Before anything is published every part of the invariant holds.
LEMMA RingInit ==
  ASSUME Init PROVE RingInv
<1>. USE StreamRingAssumption DEF Init
<1>1. TypeOK
  <2>1. Silence \in Block
    BY DEF Silence, Block
  <2>2. /\ slots \in [Lanes -> [{0, 1} -> Block]]
        /\ staging \in [Lanes -> Block]
    BY <2>1
  <2>3. /\ acquired \in [lane : {"output", "input"}, seq : 0..(Modulus - 1)]
        /\ gone \in [Lanes -> BOOLEAN]
    OBVIOUS
  <2>4. peerGone_ \in BOOLEAN
    BY Zenon
  <2>5. /\ published \in [Lanes -> 0..(Modulus - 1)]
        /\ completed \in [Lanes -> 0..(Modulus - 1)]
        /\ sequence \in [Lanes -> 0..(Modulus - 1)]
        /\ late \in [Lanes -> Nat] /\ afterDeath \in [Lanes -> Nat]
        /\ calls \in [Lanes -> 0..MaxBlocks]
        /\ sent \in [Lanes -> 0..MaxBlocks]
        /\ served \in [Lanes -> 0..MaxBlocks]
    OBVIOUS
  <2>6. /\ pc \in [Lanes -> LaneStates] /\ outcome \in [Lanes -> Outcomes]
        /\ state \in RingStates /\ daw \in DawStates /\ host \in HostStates
        /\ peers \subseteq {"daw", "host"}
    BY DEF RingStates, DawStates, HostStates, LaneStates, Outcomes
  <2>. QED BY <2>2, <2>3, <2>4, <2>5, <2>6 DEF TypeOK
<1>2. CountersAgree /\ HostOnNext /\ CallAwaits /\ DeathCounted /\ HangCounted
  BY DEF CountersAgree, HostOnNext, CallAwaits, DeathCounted, HangCounted
<1>3. UnderWay /\ Returned
  BY DEF UnderWay, Returned
<1>. QED BY <1>1, <1>2, <1>3 DEF RingInv

\* Every step keeps every part of the invariant.
LEMMA RingStep ==
  ASSUME NoWrap, RingInv, [Next]_vars PROVE RingInv'
BY TypeStep, CountersStep, HostOnNextStep, UnderWayStep, ReturnedStep,
   CallAwaitsStep, DeathCountedStep, HangCountedStep DEF RingInv

\* The two ends, whatever the order in which they read and write the region
\* and whichever of them dies, keep the ring's counters, slots and calls
\* related as RingInv says, for as long as no sequence number wraps.
THEOREM RingInvariant == ASSUME NoWrap PROVE Spec => []RingInv
<1>1. Init => RingInv
  BY RingInit
<1>2. RingInv /\ [Next]_vars => RingInv'
  BY RingStep
<1>. QED BY <1>1, <1>2, PTL DEF Spec

\* Every variable of the ring, the wrapper and the host stays in its set.
THEOREM TypeCorrect == ASSUME NoWrap PROVE Spec => []TypeOK
<1>1. RingInv => TypeOK
  BY DEF RingInv
<1>. QED BY <1>1, RingInvariant, PTL

\* The wrapper's guard on seq - 2 (RingProducer::canPublish) keeps it out of
\* the slot the engine filters in place.
THEOREM SlotsExclusive == ASSUME NoWrap PROVE Spec => []SlotExclusive
<1>1. RingInv => SlotExclusive
  <2>. SUFFICES ASSUME RingInv, NEW l \in Lanes,
                       host = "process", acquired.lane = l
                PROVE  /\ pc[l] \in {"fill", "publish"} =>
                            SlotOf(sequence[l]) # SlotOf(acquired.seq)
                       /\ pc[l] = "copy" =>
                            SlotOf(Target(l)) # SlotOf(acquired.seq)
    BY DEF SlotExclusive
  <2>1. /\ sent[l] \in Nat /\ served[l] \in Nat
        /\ acquired.seq = served[l] + 1 /\ acquired.seq <= sent[l]
        /\ sent[l] <= served[l] + 2
    BY DEF RingInv, TypeOK, HostOnNext, CountersAgree
  <2>2. CASE pc[l] \in {"fill", "publish"}
    <3>1. sequence[l] = acquired.seq + 1 /\ acquired.seq \in Nat
      BY <2>1, <2>2 DEF RingInv, CountersAgree
    <3>. QED BY <2>2, <3>1, Parity
  <2>3. CASE pc[l] = "copy"
    <3>1. /\ Target(l) \in 1..sent[l] /\ Target(l) <= served[l]
          /\ sequence[l] = sent[l]
      BY <2>3 DEF RingInv, CallAwaits, CountersAgree
    <3>2. Target(l) = sent[l] \/ Target(l) = sent[l] - 1
      BY <2>1, <3>1, StreamRingAssumption DEF Target, Pred
    <3>3. acquired.seq = Target(l) + 1 /\ Target(l) \in Nat
      BY <2>1, <3>1, <3>2
    <3>. QED BY <2>3, <3>3, Parity
  <2>. QED BY <2>2, <2>3
<1>. QED BY <1>1, RingInvariant, PTL

\* RingConsumer::acquire and release take the blocks one after the other, none
\* twice and none left out.
THEOREM InOrder == ASSUME NoWrap PROVE Spec => []TakenInOrder
<1>1. RingInv => TakenInOrder
  <2>. SUFFICES ASSUME RingInv, host = "process"
                PROVE  LET l == acquired.lane
                           b == slots[l][SlotOf(acquired.seq)]
                       IN  b.nth = served[l] + 1 /\ b.stage = "raw"
    BY DEF TakenInOrder
  <2>. DEFINE l == acquired.lane  s == acquired.seq
  <2>1. l \in Lanes /\ s = served[l] + 1 /\ s <= sent[l]
    BY DEF RingInv, HostOnNext
  <2>2. served[l] \in 0..MaxBlocks /\ sent[l] \in 0..MaxBlocks
    BY <2>1 DEF RingInv, TypeOK
  <2>3. s \in 1..MaxBlocks /\ s > served[l]
    <3>. HIDE DEF l, s
    <3>. QED BY <2>1, <2>2, StreamRingAssumption
  <2>4. ~Releasing(l, s) /\ host # "dead"
    BY DEF Releasing
  <2>5. slots[l][SlotOf(s)].nth = s /\ slots[l][SlotOf(s)].stage = "raw"
    BY <2>1, <2>3, <2>4 DEF RingInv, UnderWay
  <2>. QED BY <2>1, <2>5
<1>. QED BY <1>1, RingInvariant, PTL

\* However the calls and the host's death interleave, a lane whose wrapper has
\* the host's process handle learns of it in three calls at most, and a pipeline
\* without it by its count of late blocks.  In Sync mode without the handle
\* nothing is claimed.
THEOREM DeathIsFoundOut == ASSUME NoWrap PROVE Spec => []DeathFoundOut
<1>1. RingInv => DeathFoundOut
  <2>. SUFFICES ASSUME RingInv, NEW l \in Lanes
                PROVE  /\ "daw" \in peers => FoundWithin(l, 3)
                       /\ Mode = "Pipelined" => FoundWithin(l, HangLateCount + 1)
    BY DEF DeathFoundOut
  <2>. TypeOK /\ CountersAgree /\ DeathCountedIn(l) /\ HangCountedIn(l)
    BY CountedInLanes DEF RingInv
  <2>1. ASSUME "daw" \in peers PROVE FoundWithin(l, 3)
    <3>1. \/ afterDeath[l] <= sent[l] - served[l]
          \/ /\ afterDeath[l] <= sent[l] - served[l] + 1
             /\ gone[l] \/ pc[l] # "idle"
      BY <2>1, LaneNumbers DEF DeathCountedIn
    <3>. QED BY <3>1, LaneNumbers DEF FoundWithin
  <2>2. ASSUME Mode = "Pipelined" PROVE FoundWithin(l, HangLateCount + 1)
    BY <2>2, LaneNumbers, StreamRingAssumption DEF HangCountedIn, FoundWithin
  <2>. QED BY <2>1, <2>2
<1>. QED BY <1>1, RingInvariant, PTL

\* What DaemonProcessor::process copies back is filtered, and is the block it
\* has just published (Sync) or the one published before it (Pipelined).
THEOREM FilteredBlockReturned ==
  ASSUME NoWrap PROVE Spec => ReturnsFilteredBlock
<1>. DEFINE Copied ==
       \A l \in Lanes :
         pc[l] = "copy" /\ pc'[l] = "idle" =>
           /\ staging'[l].stage = "filtered"
           /\ staging'[l].nth = IF Mode = "Sync" THEN sent[l] ELSE sent[l] - 1
<1>1. RingInv /\ [Next]_vars => Copied
  <2>. SUFFICES ASSUME RingInv, [Next]_vars, NEW l \in Lanes,
                       pc[l] = "copy", pc'[l] = "idle"
                PROVE  /\ staging'[l].stage = "filtered"
                       /\ staging'[l].nth = IF Mode = "Sync" THEN sent[l]
                                                             ELSE sent[l] - 1
    OBVIOUS
  <2>1. Copy(l)
    <3>. USE DEF ringVars, laneVars, hostVars, history
    <3>1. ASSUME DawStep \/ HostStep \/ HostDies \/ UNCHANGED vars
          PROVE  FALSE
      <4>1. pc' = pc
        BY <3>1, QuietStep DEF HostStep, HostProcess, HostRelease
      <4>. QED BY <4>1
    <3>2. ASSUME NEW k \in Lanes, Call(k) \/ LaneStep(k) PROVE k = l
      <4>1. \E where \in LaneStates : pc' = [pc EXCEPT ![k] = where]
        BY <3>2 DEF Call, LaneStep, Check, Refused, Fill, Publish, Await,
                    Missed, Copy, ReturnLate, Return, LaneStates
      <4>. QED BY <4>1 DEF RingInv, TypeOK
    <3>3. Call(l) \/ LaneStep(l)
      BY <3>1, <3>2 DEF Next
    <3>. QED
      BY <3>3 DEF Call, LaneStep, Check, Refused, Fill, Publish, Await, Missed
  <2>2. /\ Target(l) \in 1..sent[l] /\ Target(l) <= served[l]
        /\ sequence[l] = sent[l] /\ sent[l] \in 0..MaxBlocks
    BY DEF RingInv, CallAwaits, CountersAgree, TypeOK
  <2>3. Target(l) = IF Mode = "Sync" THEN sent[l] ELSE sent[l] - 1
    BY <2>2, StreamRingAssumption DEF Target, Pred
  <2>4. Target(l) \in 1..MaxBlocks
    BY <2>2, StreamRingAssumption
  <2>5. /\ slots[l][SlotOf(Target(l))].nth = Target(l)
        /\ slots[l][SlotOf(Target(l))].stage = "filtered"
    BY <2>2, <2>3, <2>4 DEF RingInv, Returned
  <2>6. staging'[l] = slots[l][SlotOf(Target(l))]
    BY <2>1 DEF Copy, RingInv, TypeOK
  <2>. QED BY <2>3, <2>5, <2>6
<1>2. RingInv /\ [Next]_vars => [Copied]_vars
  BY <1>1
<1>. QED BY <1>2, RingInvariant, PTL DEF Spec, ReturnsFilteredBlock
-----------------------------------------------------------------------------
(* The ring implements bounded queues.                                     *)

\* The block has been stored and is not completed.
OnTheWay(l, n) ==
  /\ n > served[l]
  /\ n <= sent[l] \/ (pc[l] = "publish" /\ n = sent[l] + 1)

\* Filtering a block keeps the call it belongs to, and storing one writes a slot
\* that no block on the way stands in.
LEMMA CallsKept ==
  ASSUME NoWrap, RingInv, [Next]_vars, NEW k \in Lanes, NEW n \in 1..MaxBlocks,
         OnTheWay(k, n)
  PROVE  slots'[k][SlotOf(n)].call = slots[k][SlotOf(n)].call
<1>. USE DEF ringVars, laneVars, hostVars, history
<1>. TypeOK /\ CountersAgree /\ HostOnNext
  BY DEF RingInv
<1>1. CASE HostProcess
  <2>. DEFINE l == acquired.lane  s == SlotOf(acquired.seq)
  <2>1. l \in Lanes /\ s \in {0, 1} /\ SlotOf(n) \in {0, 1}
    <3>1. acquired.seq \in Nat /\ l \in Lanes
      BY <1>1 DEF HostProcess, HostOnNext, TypeOK
    <3>. QED BY <3>1, Parity
  <2>2. slots' = [slots EXCEPT ![l][s].stage = "filtered"]
    BY <1>1 DEF HostProcess
  <2>3. slots[k][SlotOf(n)] \in Block
    BY <2>1 DEF TypeOK
  <2>. QED BY <2>1, <2>2, <2>3 DEF TypeOK, Block
<1>2. ASSUME NEW l \in Lanes, Fill(l)
      PROVE  slots'[k][SlotOf(n)].call = slots[k][SlotOf(n)].call
  <2>. DEFINE s == sent[l] + 1
  <2>1. /\ sequence[l] = s /\ s \in Nat /\ sent[l] \in Nat
        /\ served[l] \in Nat /\ sent[l] <= served[l] + 1
        /\ pc[l] = "fill"
    BY <1>2 DEF Fill, CountersAgree, TypeOK
  <2>2. SlotOf(s) \in {0, 1} /\ SlotOf(n) \in {0, 1}
    BY <2>1, Parity
  <2>3. k # l \/ SlotOf(n) # SlotOf(s)
    <3>1. CASE k = l
      <4>1. n \in Nat /\ n + 1 = s
        BY <2>1, <3>1 DEF OnTheWay
      <4>. QED BY <4>1, Parity
    <3>. QED BY <3>1
  <2>4. slots'[k][SlotOf(n)] = slots[k][SlotOf(n)]
    BY <1>2, <2>1, <2>2, <2>3 DEF Fill, TypeOK
  <2>. QED BY <2>4
<1>3. ASSUME NEW l \in Lanes, Call(l) \/ Check(l) \/ Refused(l) \/ Publish(l)
                                \/ Await(l) \/ Missed(l) \/ Copy(l)
      PROVE  slots' = slots
  BY <1>3 DEF Call, Check, Refused, Publish, Await, Missed, Copy
<1>4. CASE HostRelease
  BY <1>4 DEF HostRelease
<1>5. CASE DawStep \/ HostPoll \/ HostBuild \/ HostLook \/ HostLookInput
             \/ HostWake \/ HostSeesDeath \/ HostDrain \/ HostDies
             \/ UNCHANGED vars
  BY <1>5, QuietStep
<1>. QED
  BY <1>1, <1>2, <1>3, <1>4, <1>5 DEF Next, HostStep, LaneStep

\* A call hands its block from the staging planes to the slot it stands in.
LEMMA BroughtStep ==
  ASSUME NoWrap, RingInv, BroughtByCalls, [Next]_vars PROVE BroughtByCalls'
<1>. USE DEF ringVars, laneVars, hostVars, history
<1>. TypeOK /\ CountersAgree /\ HostOnNext
  BY DEF RingInv
<1>1. ASSUME NEW k \in Lanes, NEW n \in 1..MaxBlocks, OnTheWay(k, n)'
      PROVE  OnTheWay(k, n) \/ (Fill(k) /\ n = sent[k] + 1)
  <2>1. CASE DawStep \/ HostPoll \/ HostBuild \/ HostLook \/ HostLookInput
               \/ HostWake \/ HostSeesDeath \/ HostDrain \/ HostDies
               \/ UNCHANGED vars
    BY <1>1, <2>1, QuietStep DEF OnTheWay
  <2>2. CASE HostProcess
    BY <1>1, <2>2 DEF HostProcess, OnTheWay
  <2>3. CASE HostRelease
    BY <1>1, <2>3 DEF HostRelease, HostOnNext, OnTheWay, TypeOK
  <2>4. ASSUME NEW l \in Lanes, Call(l) \/ Check(l) \/ Refused(l) \/ Await(l)
                                  \/ Missed(l) \/ Copy(l)
        PROVE  OnTheWay(k, n)
    <3>1. UNCHANGED <<sent, served>>
      BY <2>4 DEF Call, Check, Refused, Await, Missed, Copy
    <3>2. \E where \in LaneStates \ {"publish"} :
            pc' = [pc EXCEPT ![l] = where]
      BY <2>4 DEF Call, Check, Refused, Await, Missed, Copy, ReturnLate,
                  Return, LaneStates
    <3>. QED BY <1>1, <3>1, <3>2 DEF OnTheWay, TypeOK
  <2>5. ASSUME NEW l \in Lanes, Publish(l) PROVE OnTheWay(k, n)
    <3>1. /\ sent' = [sent EXCEPT ![l] = @ + 1] /\ pc[l] = "publish"
          /\ UNCHANGED served
      BY <2>5 DEF Publish
    <3>2. \E where \in {"idle", "await"} : pc' = [pc EXCEPT ![l] = where]
      BY <2>5 DEF Publish, Return
    <3>3. CASE k = l
      <4>1. sent[l] \in Nat /\ sent'[l] = sent[l] + 1 /\ pc'[l] # "publish"
        BY <3>1, <3>2 DEF TypeOK
      <4>. QED BY <1>1, <3>1, <3>3, <4>1 DEF OnTheWay
    <3>4. CASE k # l
      BY <1>1, <3>1, <3>2, <3>4 DEF OnTheWay, TypeOK
    <3>. QED BY <3>3, <3>4
  <2>6. ASSUME NEW l \in Lanes, Fill(l)
        PROVE  OnTheWay(k, n) \/ (l = k /\ n = sent[k] + 1)
    BY <1>1, <2>6 DEF Fill, OnTheWay, TypeOK
  <2>. QED
    BY <2>1, <2>2, <2>3, <2>4, <2>5, <2>6 DEF Next, HostStep, LaneStep
<1>2. ASSUME NEW k \in Lanes, NEW n \in 1..MaxBlocks, OnTheWay(k, n)'
      PROVE  slots'[k][SlotOf(n)].call # 0
  <2>1. CASE OnTheWay(k, n)
    BY <2>1, CallsKept DEF BroughtByCalls, OnTheWay
  <2>2. CASE Fill(k) /\ n = sent[k] + 1
    <3>1. sequence[k] = n /\ SlotOf(n) \in {0, 1} /\ staging[k].call # 0
      BY <2>2, Parity DEF Fill, CountersAgree, BroughtByCalls
    <3>2. slots'[k][SlotOf(n)] = [staging[k] EXCEPT !.nth = n]
      BY <2>2, <3>1 DEF Fill, TypeOK
    <3>. QED BY <3>1, <3>2 DEF TypeOK, Block
  <2>. QED BY <1>1, <1>2, <2>1, <2>2
<1>3. ASSUME NEW k \in Lanes, pc'[k] \in {"check", "fill"}
      PROVE  staging'[k].call # 0
  <2>1. CASE DawStep \/ HostPoll \/ HostBuild \/ HostLook \/ HostLookInput
               \/ HostWake \/ HostSeesDeath \/ HostDrain \/ HostDies
               \/ UNCHANGED vars
    BY <1>3, <2>1, QuietStep DEF BroughtByCalls
  <2>2. CASE HostProcess \/ HostRelease
    BY <1>3, <2>2 DEF HostProcess, HostRelease, BroughtByCalls
  <2>3. ASSUME NEW l \in Lanes, Refused(l) \/ Fill(l) \/ Publish(l)
                                  \/ Await(l) \/ Missed(l) \/ Copy(l)
        PROVE  staging'[k].call # 0
    <3>1. /\ \A m \in Lanes \ {l} : staging'[m] = staging[m]
          /\ \E where \in LaneStates \ {"check", "fill"} :
               pc' = [pc EXCEPT ![l] = where]
      BY <2>3 DEF Refused, Fill, Publish, Await, Missed, Copy, ReturnLate,
                  Return, TypeOK, LaneStates
    <3>. QED BY <1>3, <3>1 DEF BroughtByCalls, TypeOK
  <2>4. ASSUME NEW l \in Lanes, Check(l) PROVE staging'[k].call # 0
    BY <1>3, <2>4 DEF Check, BroughtByCalls, TypeOK
  <2>5. ASSUME NEW l \in Lanes, Call(l) PROVE staging'[k].call # 0
    BY <1>3, <2>5 DEF Call, BroughtByCalls, TypeOK
  <2>. QED
    BY <2>1, <2>2, <2>3, <2>4, <2>5 DEF Next, HostStep, LaneStep
<1>. QED BY <1>2, <1>3 DEF BroughtByCalls, OnTheWay
\* Functions are equal when their values are.
LEMMA SameFunction ==
  ASSUME NEW S, NEW T, NEW f \in [S -> T], NEW g \in [S -> T],
         \A x \in S : f[x] = g[x]
  PROVE  f = g
OBVIOUS

\* A sequence with one more element at its end.
LEMMA AppendIs ==
  ASSUME NEW T, NEW n \in Nat, NEW f \in [1..n -> T], NEW g \in [1..(n + 1) -> T],
         \A i \in 1..n : g[i] = f[i]
  PROVE  /\ Len(f) = n
         /\ g = Append(f, g[n + 1])
<1>1. f \in Seq(T) /\ g \in Seq(T) /\ Len(f) = n /\ Len(g) = n + 1
  BY SeqDef
<1>2. g[n + 1] \in T
  OBVIOUS
<1>3. /\ Append(f, g[n + 1]) \in Seq(T)
      /\ Len(Append(f, g[n + 1])) = n + 1
      /\ \A i \in 1..(n + 1) : Append(f, g[n + 1])[i] = g[i]
  BY <1>1, <1>2
<1>. QED BY <1>1, <1>3, SeqEqual

\* A sequence without its first element.
LEMMA TailIs ==
  ASSUME NEW T, NEW n \in Nat, NEW f \in [1..(n + 1) -> T], NEW g \in [1..n -> T],
         \A i \in 1..n : g[i] = f[i + 1]
  PROVE  f # << >> /\ g = Tail(f)
<1>1. f \in Seq(T) /\ g \in Seq(T) /\ Len(f) = n + 1 /\ Len(g) = n
  BY SeqDef
<1>2. f # << >>
  BY <1>1
<1>3. /\ Tail(f) \in Seq(T) /\ Len(Tail(f)) = n
      /\ \A i \in 1..n : Tail(f)[i] = f[i + 1]
  BY <1>1, <1>2, HeadTailProperties
<1>. QED BY <1>1, <1>2, <1>3, SeqEqual

\* The outstanding blocks are a sequence of the calls' numbers, at most two.
QueuesHold ==
  \A l \in Lanes :
    /\ sent[l] - served[l] \in 0..2
    /\ Outstanding(l) \in [1..(sent[l] - served[l]) -> 1..MaxBlocks]
    /\ \A i \in 1..(sent[l] - served[l]) :
         /\ served[l] + i \in 1..MaxBlocks /\ OnTheWay(l, served[l] + i)
         /\ Outstanding(l)[i] = slots[l][SlotOf(served[l] + i)].call

LEMMA OutstandingIs == RingInv /\ BroughtByCalls => QueuesHold
<1>. SUFFICES ASSUME RingInv, BroughtByCalls, NEW l \in Lanes
              PROVE  /\ sent[l] - served[l] \in 0..2
                     /\ Outstanding(l)
                          \in [1..(sent[l] - served[l]) -> 1..MaxBlocks]
                     /\ \A i \in 1..(sent[l] - served[l]) :
                          /\ served[l] + i \in 1..MaxBlocks
                          /\ OnTheWay(l, served[l] + i)
                          /\ Outstanding(l)[i]
                               = slots[l][SlotOf(served[l] + i)].call
  BY DEF QueuesHold
<1>1. /\ sent[l] \in 0..MaxBlocks /\ served[l] \in 0..MaxBlocks
      /\ served[l] <= sent[l] /\ sent[l] <= served[l] + 2
      /\ completed[l] = served[l]
  BY DEF RingInv, TypeOK, CountersAgree
<1>2. sent[l] - served[l] \in 0..2
  BY <1>1, StreamRingAssumption
<1>3. ASSUME NEW i \in 1..(sent[l] - served[l])
      PROVE  /\ served[l] + i \in 1..MaxBlocks /\ OnTheWay(l, served[l] + i)
             /\ slots[l][SlotOf(served[l] + i)].call \in 1..MaxBlocks
  <2>1. served[l] + i \in 1..MaxBlocks /\ OnTheWay(l, served[l] + i)
    BY <1>1, StreamRingAssumption DEF OnTheWay
  <2>2. SlotOf(served[l] + i) \in {0, 1}
    BY <2>1, Parity
  <2>3. slots[l][SlotOf(served[l] + i)] \in Block
    BY <2>2 DEF RingInv, TypeOK
  <2>4. slots[l][SlotOf(served[l] + i)].call # 0
    BY <2>1 DEF BroughtByCalls, OnTheWay
  <2>5. slots[l][SlotOf(served[l] + i)].call \in 0..MaxBlocks
    BY <2>3 DEF Block
  <2>. QED BY <2>1, <2>4, <2>5, StreamRingAssumption
<1>. QED BY <1>1, <1>2, <1>3 DEF Outstanding

\* So they are before a step and after it.
LEMMA OutstandingAround ==
  ASSUME NoWrap, RingInv, BroughtByCalls, [Next]_vars
  PROVE  QueuesHold /\ QueuesHold'
<1>1. RingInv' /\ BroughtByCalls'
  BY RingStep, BroughtStep
<1>2. (RingInv /\ BroughtByCalls => QueuesHold)'
  BY OutstandingIs, PTL
<1>. QED BY <1>1, <1>2, OutstandingIs

\* A step that publishes nothing and completes nothing leaves the queues alone.
LEMMA QueueKept ==
  ASSUME NoWrap, RingInv, BroughtByCalls, [Next]_vars, NEW l \in Lanes,
         sent'[l] = sent[l], served'[l] = served[l]
  PROVE  Outstanding(l)' = Outstanding(l)
<1>. DEFINE n == sent[l] - served[l]
<1>1. QueuesHold /\ QueuesHold'
  BY OutstandingAround
<1>2. /\ n \in 0..2 /\ Outstanding(l) \in [1..n -> 1..MaxBlocks]
      /\ Outstanding(l)' \in [1..n -> 1..MaxBlocks]
      /\ \A i \in 1..n :
           /\ Outstanding(l)[i] = slots[l][SlotOf(served[l] + i)].call
           /\ Outstanding(l)'[i] = slots'[l][SlotOf(served[l] + i)].call
           /\ served[l] + i \in 1..MaxBlocks /\ OnTheWay(l, served[l] + i)
  BY <1>1 DEF QueuesHold
<1>3. \A i \in 1..n : Outstanding(l)'[i] = Outstanding(l)[i]
  BY <1>2, CallsKept
<1>. QED BY <1>2, <1>3, SameFunction


\* Publishing appends the call whose block was stored to the lane's queue.
LEMMA PublishSends ==
  ASSUME NoWrap, RingInv, BroughtByCalls, [Next]_vars, NEW l \in Lanes, Publish(l)
  PROVE  Abstract!Next
<1>. DEFINE n == sent[l] - served[l]
            b == Outstanding(l)'[n + 1]
<1>1. QueuesHold /\ QueuesHold'
  BY OutstandingAround
<1>2. /\ sent' = [sent EXCEPT ![l] = @ + 1] /\ served' = served
      /\ pc[l] = "publish"
  BY DEF Publish
<1>3. /\ sent[l] \in Nat /\ served[l] \in Nat /\ sent'[l] = sent[l] + 1
      /\ served'[l] = served[l] /\ sent[l] <= served[l] + 1
  BY <1>2 DEF RingInv, TypeOK, CountersAgree
<1>4. /\ n \in 0..1
      /\ Outstanding(l) \in [1..n -> 1..MaxBlocks]
      /\ \A i \in 1..n :
           /\ Outstanding(l)[i] = slots[l][SlotOf(served[l] + i)].call
           /\ served[l] + i \in 1..MaxBlocks /\ OnTheWay(l, served[l] + i)
  <2>1. QueuesHold
    BY <1>1
  <2>2. /\ sent[l] - served[l] \in 0..2
        /\ Outstanding(l) \in [1..(sent[l] - served[l]) -> 1..MaxBlocks]
        /\ \A i \in 1..(sent[l] - served[l]) :
             /\ served[l] + i \in 1..MaxBlocks /\ OnTheWay(l, served[l] + i)
             /\ Outstanding(l)[i] = slots[l][SlotOf(served[l] + i)].call
    BY <2>1, Zenon DEF QueuesHold
  <2>3. n \in 0..1
    BY <1>3, <2>2
  <2>. QED BY <2>2, <2>3, Zenon
<1>5. /\ sent'[l] - served'[l] = n + 1
      /\ Outstanding(l)' \in [1..(n + 1) -> 1..MaxBlocks]
      /\ \A i \in 1..(n + 1) :
           Outstanding(l)'[i] = slots'[l][SlotOf(served[l] + i)].call
  <2>1. sent'[l] - served'[l] = n + 1
    BY <1>3
  <2>. QED BY <1>1, <1>3, <2>1 DEF QueuesHold
<1>6. \A i \in 1..n : Outstanding(l)'[i] = Outstanding(l)[i]
  BY <1>4, <1>5, CallsKept
<1>7. Len(Outstanding(l)) = n /\ Outstanding(l)' = Append(Outstanding(l), b)
  BY <1>4, <1>5, <1>6, AppendIs
<1>8. b \in 1..MaxBlocks
  BY <1>4, <1>5
<1>9. \A k \in Lanes \ {l} : Outstanding(k)' = Outstanding(k)
  BY <1>2, QueueKept DEF RingInv, TypeOK
<1>. HIDE DEF n, b
<1>10. [k \in Lanes |-> Outstanding(k)']
         = [[k \in Lanes |-> Outstanding(k)] EXCEPT
              ![l] = Append(Outstanding(l), b)]
  BY <1>7, <1>9
<1>11. Abstract!Send(l, b)
  BY <1>4, <1>7, <1>10 DEF Abstract!Send
<1>. QED BY <1>8, <1>11 DEF Abstract!Next, Abstract!Blocks

\* Releasing a block takes the oldest call from the lane's queue.
LEMMA ReleaseServes ==
  ASSUME NoWrap, RingInv, BroughtByCalls, [Next]_vars, HostRelease,
         NEW l, l = acquired.lane
  PROVE  Abstract!Next
<1>. DEFINE n == sent'[l] - served'[l]
<1>1. QueuesHold /\ QueuesHold'
  BY OutstandingAround
<1>2. /\ l \in Lanes /\ sent' = sent
      /\ served' = [served EXCEPT ![l] = @ + 1]
  BY DEF HostRelease, RingInv, HostOnNext
<1>3. /\ sent[l] \in Nat /\ served[l] \in Nat /\ served'[l] = served[l] + 1
      /\ sent'[l] = sent[l]
  BY <1>2 DEF RingInv, TypeOK
<1>4. /\ n \in 0..2
      /\ Outstanding(l)' \in [1..n -> 1..MaxBlocks]
      /\ \A i \in 1..n :
           Outstanding(l)'[i] = slots'[l][SlotOf(served[l] + 1 + i)].call
  BY <1>1, <1>2, <1>3 DEF QueuesHold
<1>5. /\ sent[l] - served[l] = n + 1
      /\ Outstanding(l) \in [1..(n + 1) -> 1..MaxBlocks]
      /\ \A i \in 1..(n + 1) :
           Outstanding(l)[i] = slots[l][SlotOf(served[l] + i)].call
  <2>1. sent[l] - served[l] = n + 1
    BY <1>3
  <2>. QED BY <1>1, <1>2, <2>1 DEF QueuesHold
<1>6. slots' = slots
  BY DEF HostRelease
<1>7. \A i \in 1..n : Outstanding(l)'[i] = Outstanding(l)[i + 1]
  <2>. TAKE i \in 1..n
  <2>1. n \in Nat
    BY <1>4
  <2>2. i \in Int /\ 1 <= i /\ i <= n
    BY <2>1
  <2>3. i + 1 \in 1..(n + 1) /\ served[l] + (i + 1) = served[l] + 1 + i
    BY <1>3, <2>1, <2>2
  <2>4. Outstanding(l)[i + 1] = slots[l][SlotOf(served[l] + (i + 1))].call
    BY <1>5, <2>3, Zenon
  <2>5. Outstanding(l)'[i] = slots'[l][SlotOf(served[l] + 1 + i)].call
    BY <1>4, Zenon
  <2>. QED BY <1>6, <2>3, <2>4, <2>5, Zenon
<1>8. Outstanding(l) # << >> /\ Outstanding(l)' = Tail(Outstanding(l))
  BY <1>4, <1>5, <1>7, TailIs
<1>9. \A k \in Lanes \ {l} : Outstanding(k)' = Outstanding(k)
  BY <1>2, QueueKept DEF RingInv, TypeOK
<1>. HIDE DEF n
<1>10. [k \in Lanes |-> Outstanding(k)']
         = [[k \in Lanes |-> Outstanding(k)] EXCEPT ![l] = Tail(Outstanding(l))]
  BY <1>2, <1>8, <1>9
<1>11. Abstract!Serve(l)
  BY <1>2, <1>8, <1>10 DEF Abstract!Serve
<1>. QED BY <1>2, <1>11 DEF Abstract!Next

\* Each lane of the ring is a bounded queue (StreamRing.h:17-28): whichever way
\* the ends interleave and whatever is dropped or late, the host completes the
\* blocks that were published, each once, in order, never more than two behind.
THEOREM RingIsBlockFifo == ASSUME NoWrap PROVE Spec => ImplementsBlockFifo
<1>. DEFINE Inv == RingInv /\ BroughtByCalls
            queue == [l \in Lanes |-> Outstanding(l)]
<1>1. Init => Inv /\ Abstract!Init
  <2>. SUFFICES ASSUME Init PROVE Inv /\ Abstract!Init
    OBVIOUS
  <2>1. /\ sent = [l \in Lanes |-> 0] /\ served = [l \in Lanes |-> 0]
        /\ pc = [l \in Lanes |-> "idle"]
    BY DEF Init
  <2>2. BroughtByCalls
    <3>1. ASSUME NEW l \in Lanes
          PROVE  /\ pc[l] = "idle" /\ sent[l] = 0 /\ served[l] = 0
                 /\ pc[l] \notin {"check", "fill"}
      BY <2>1
    <3>2. ASSUME NEW l \in Lanes, NEW n \in 1..MaxBlocks
          PROVE  ~(n <= sent[l]) /\ pc[l] # "publish"
      BY <3>1, StreamRingAssumption
    <3>. QED BY <3>1, <3>2, Zenon DEF BroughtByCalls
  <2>3. ASSUME NEW l \in Lanes PROVE Outstanding(l) = << >>
    <3>1. 1..(sent[l] - served[l]) = {}
      BY <2>1
    <3>2. Outstanding(l) = [i \in {} |-> slots[l][SlotOf(completed[l] + i)].call]
      BY <3>1 DEF Outstanding
    <3>. QED BY <3>2
  <2>. QED BY <2>2, <2>3, RingInit DEF Abstract!Init
<1>2. Inv /\ [Next]_vars => Inv'
  BY RingStep, BroughtStep
<1>3. Inv /\ [Next]_vars => [Abstract!Next]_queue
  <2>. SUFFICES ASSUME Inv, [Next]_vars PROVE Abstract!Next \/ queue' = queue
    OBVIOUS
  <2>1. ASSUME UNCHANGED <<sent, served>> PROVE queue' = queue
    BY <2>1, QueueKept
  <2>2. CASE HostRelease
    BY <2>2, ReleaseServes
  <2>3. ASSUME NEW l \in Lanes, Publish(l) PROVE Abstract!Next
    BY <2>3, PublishSends
  <2>4. ASSUME NEW l \in Lanes, Call(l) \/ Check(l) \/ Refused(l) \/ Fill(l)
                                  \/ Await(l) \/ Missed(l) \/ Copy(l)
        PROVE  UNCHANGED <<sent, served>>
    BY <2>4 DEF Call, Check, Refused, Fill, Await, Missed, Copy, history
  <2>5. ASSUME DawStep \/ HostPoll \/ HostBuild \/ HostLook \/ HostLookInput
                 \/ HostWake \/ HostSeesDeath \/ HostDrain \/ HostDies
                 \/ HostProcess \/ UNCHANGED vars
        PROVE  UNCHANGED <<sent, served>>
    BY <2>5, QuietStep DEF HostProcess, history
  <2>. QED
    BY <2>1, <2>2, <2>3, <2>4, <2>5 DEF Next, HostStep, LaneStep
<1>. QED
  BY <1>1, <1>2, <1>3, PTL DEF Spec, ImplementsBlockFifo, Abstract!Spec
=============================================================================
