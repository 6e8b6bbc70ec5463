----------------------------- MODULE AsioWrapper_proofs -----------------------------
(***************************************************************************)
(* What the callback pool and the buffer lifecycle of the ASIO wrappers    *)
(* promise, for any number of wrappers, callback slots and driver threads: *)
(* first the pool by itself, for every use that keeps to its rules         *)
(* (PoolSpec); then that every wrapper keeps to these rules, so that what  *)
(* the pool promises holds for the wrappers too, and that no callback in   *)
(* switchBuffers loses the buffers it works with before it has outlasted a *)
(* whole wait.                                                             *)
(*                                                                         *)
(* A call reaches the gate before its slot is claimed again (NoStall; the  *)
(* run CallbackTrampolines_stalled shows why that is needed).              *)
(***************************************************************************)
EXTENDS AsioWrapper, FiniteSetTheorems, TLAPS

-----------------------------------------------------------------------------
(* The callback pool.                                                      *)

NoStall == StalledCalls = FALSE

\* A set that is held is bound to its holder, or to nobody once released.
HeldOrReleased ==
  \A w \in Sinks : held[w] # 0 => sinks[held[w]] \in {w, NoSink}

\* While a slot is claimed every set that is held is bound, the claimant
\* holds none, and nobody is on the way to the slot it tries.
ClaimState ==
  control.at \in {"retired", "free", "bind", "open", "return"} =>
    /\ control.sink \in Sinks /\ held[control.sink] = 0
    /\ \A w \in Sinks : held[w] # 0 => sinks[held[w]] = w

\* The slot the claim works on, after the look at its sink.
ClaimedSlot ==
  /\ control.at \in {"free", "bind"} => sinks[control.slot] = NoSink
  /\ control.at \in {"open", "return"} => sinks[control.slot] = control.sink
  /\ control.at \in {"free", "bind", "open", "return"} => AllArrived(control.slot)
  /\ control.at \in {"bind", "open", "return"} => Leases(control.slot) = {}
  /\ control.at = "return" => gates[control.slot] = 1

\* No bound slot belongs to two wrappers or to none.
BoundIsHeld ==
  \A s \in Slots : sinks[s] # NoSink =>
    \/ held[sinks[s]] = s
    \/ control.at \in {"open", "return"} /\ control.slot = s

\* The slot that release works on.
ReleasedSlot ==
  /\ control.at \in {"close", "unbind", "released"} =>
       control.sink \in Sinks /\ held[control.sink] # 0
  /\ control.at \in {"close", "unbind"} => sinks[held[control.sink]] = control.sink
  /\ control.at \in {"unbind", "released"} =>
       /\ control.slot = held[control.sink]
       /\ Closed(gates[control.slot])
       /\ control.drained = "yes" => Within(control.slot) = {}
  /\ control.at = "released" => sinks[control.slot] = NoSink

\* A callback's slot is bound to the wrapper it was called for, or to nobody.
CallersSlot ==
  \A t \in Threads :
    /\ lease[t].at # "out" => sinks[lease[t].slot] \in {lease[t].caller, NoSink}
    /\ lease[t].sink \in {lease[t].caller, NoSink}

PoolInv ==
  /\ PoolTypeOK
  /\ CountsLeases
  /\ HeldOrReleased
  /\ ClaimState
  /\ ClaimedSlot
  /\ BoundIsHeld
  /\ ReleasedSlot
  /\ CallersSlot
  /\ OpenWhileHeld

-----------------------------------------------------------------------------
(* Facts the steps share.                                                  *)

\* The leases on a slot are finitely many, no more than there are threads.
LEMMA LeasesBounded ==
  ASSUME NEW s
  PROVE  /\ IsFiniteSet(Leases(s))
         /\ Cardinality(Leases(s)) \in Nat
         /\ Cardinality(Leases(s)) <= Cardinality(Threads)
         /\ Cardinality(Leases(s)) = 0 <=> Leases(s) = {}
<1>1. Leases(s) \subseteq Threads /\ IsFiniteSet(Threads)
  BY TrampolinesAssumption DEF Leases
<1>2. IsFiniteSet(Leases(s)) /\ Cardinality(Leases(s)) <= Cardinality(Threads)
  BY <1>1, FS_Subset
<1>. QED  BY <1>2, FS_CardinalityType, FS_EmptySet

\* What the operations on a gate do to its count and its closed bit.
LEMMA GateWords ==
  ASSUME NEW g \in Words
  PROVE  /\ Entrants(g) \in 0 .. Half - 1
         /\ FetchAdd(g) \in Words /\ FetchSub(g) \in Words
         /\ Entrants(g) < Half - 1 =>
              /\ Entrants(FetchAdd(g)) = Entrants(g) + 1
              /\ Closed(FetchAdd(g)) <=> Closed(g)
         /\ Entrants(g) > 0 =>
              /\ Entrants(FetchSub(g)) = Entrants(g) - 1
              /\ Closed(FetchSub(g)) <=> Closed(g)
         /\ Half + Entrants(g) \in Words
         /\ Closed(Half + Entrants(g))
         /\ Entrants(Half + Entrants(g)) = Entrants(g)
<1>. Half \in Nat /\ Half > 1
  <2>1. Cardinality(Threads) \in Nat
    BY TrampolinesAssumption, FS_CardinalityType
  <2>. QED  BY <2>1, TrampolinesAssumption
<1>. QED  BY DEF Words, Entrants, Closed, FetchAdd, FetchSub

\* A gate never counts up to its closed bit.
LEMMA GateBounded ==
  ASSUME PoolTypeOK, CountsLeases, NEW s \in Slots
  PROVE  /\ Entrants(gates[s]) \in Nat
         /\ Entrants(gates[s]) <= Cardinality(Threads) + 1
         /\ ~Claiming(s) => Entrants(gates[s]) < Half - 1
<1>1. Cardinality(Threads) \in Nat /\ Half \in Nat /\ Half > Cardinality(Threads) + 1
  BY TrampolinesAssumption, FS_CardinalityType
<1>2. Cardinality(Leases(s)) \in Nat /\ Cardinality(Leases(s)) <= Cardinality(Threads)
  BY LeasesBounded
<1>3. Entrants(gates[s]) = Cardinality(Leases(s)) + (IF Claiming(s) THEN 1 ELSE 0)
  BY DEF CountsLeases
<1>. QED  BY <1>1, <1>2, <1>3

\* Constants.
LEMMA Numbers ==
  /\ SlotCount \in Nat \ {0} /\ 1 \in Slots /\ 0 \notin Slots
  /\ Half \in Nat /\ Half > 1
  /\ 0 \in Words /\ 1 \in Words /\ Half \in Words /\ Half + 1 \in Words
  /\ Closed(Half) /\ Closed(Half + 1) /\ ~Closed(0) /\ ~Closed(1)
  /\ Entrants(0) = 0 /\ Entrants(1) = 1
  /\ Entrants(Half) = 0 /\ Entrants(Half + 1) = 1
  /\ FetchSub(1) = 0
<1>1. Cardinality(Threads) \in Nat
  BY TrampolinesAssumption, FS_CardinalityType
<1>2. SlotCount \in Nat \ {0} /\ Half \in Nat /\ Half > 1
  BY <1>1, TrampolinesAssumption
<1>. QED  BY <1>2 DEF Slots, Words, Closed, Entrants, FetchSub

-----------------------------------------------------------------------------
(* The inductive invariant.                                                *)

LEMMA PoolInvInit == PoolInit => PoolInv
<1>. SUFFICES ASSUME PoolInit PROVE PoolInv
  OBVIOUS
<1>. USE Numbers
<1>1. PoolTypeOK
  BY DEF PoolInit, PoolTypeOK, Outside, Idle
<1>2. CountsLeases
  <2>. SUFFICES ASSUME NEW s \in Slots
       PROVE  Entrants(gates[s]) = Cardinality(Leases(s)) + (IF Claiming(s) THEN 1 ELSE 0)
    BY DEF CountsLeases
  <2>1. Leases(s) = {}
    BY DEF PoolInit, Leases, Outside
  <2>2. Cardinality(Leases(s)) = 0
    BY <2>1, LeasesBounded
  <2>3. ~Claiming(s) /\ gates[s] = 0
    BY DEF PoolInit, Claiming, Idle
  <2>. QED  BY <2>2, <2>3
<1>3. HeldOrReleased /\ ClaimState /\ ClaimedSlot /\ BoundIsHeld /\ ReleasedSlot /\ OpenWhileHeld
  BY DEF PoolInit, Idle, HeldOrReleased, ClaimState, ClaimedSlot, BoundIsHeld,
         ReleasedSlot, OpenWhileHeld
<1>4. CallersSlot
  BY DEF PoolInit, CallersSlot, Outside
<1>. QED  BY <1>1, <1>2, <1>3, <1>4 DEF PoolInv

\* A driver calls: nothing on the slots changes.
LEMMA CallKeeps ==
  ASSUME PoolInv, NEW t \in Threads, NEW w \in Sinks, Call(t, w)
  PROVE  PoolInv'
<1>. USE DEF PoolInv
<1>1. held[w] \in Slots /\ lease[t].at = "out"
  BY DEF Call, PoolTypeOK
<1>2. PoolTypeOK'
  BY <1>1 DEF Call, PoolTypeOK
<1>3. \A s : Leases(s)' = Leases(s) /\ Within(s)' = Within(s)
  <2>. TAKE s
  <2>1. Leases(s)' = Leases(s)
    BY <1>1 DEF Call, Leases, PoolTypeOK
  <2>2. \A u \in Leases(s) : lease'[u] = lease[u]
    BY <1>1 DEF Call, Leases, PoolTypeOK
  <2>. QED  BY <2>1, <2>2 DEF Within
<1>4. CountsLeases'
  BY <1>3 DEF Call, CountsLeases, Claiming
<1>5. HeldOrReleased' /\ ClaimState' /\ BoundIsHeld' /\ OpenWhileHeld'
  BY DEF Call, HeldOrReleased, ClaimState, BoundIsHeld, OpenWhileHeld
<1>6. ClaimedSlot'
  <2>1. ASSUME control.at \in {"free", "bind", "open", "return"}
        PROVE  held[w] # control.slot
    <3>1. sinks[held[w]] = w /\ w # control.sink /\ w # NoSink
      BY <1>1, <2>1, Numbers, TrampolinesAssumption DEF ClaimState
    <3>. QED  BY <3>1, <2>1 DEF ClaimedSlot
  <2>2. control.at \in {"free", "bind", "open", "return"} => AllArrived(control.slot)'
    BY <2>1 DEF Call, ClaimedSlot, AllArrived, PoolTypeOK
  <2>. QED  BY <2>2, <1>3 DEF Call, ClaimedSlot
<1>7. ReleasedSlot'
  BY <1>3 DEF Call, ReleasedSlot
<1>8. CallersSlot'
  <2>1. sinks[held[w]] \in {w, NoSink}
    BY <1>1, Numbers DEF HeldOrReleased
  <2>. QED  BY <2>1 DEF Call, CallersSlot, PoolTypeOK
<1>. QED  BY <1>2, <1>4, <1>5, <1>6, <1>7, <1>8

\* A thread comes to the gate: its count goes up with its lease.
LEMMA EnterKeeps ==
  ASSUME PoolInv, NEW t \in Threads, Enter(t)
  PROVE  PoolInv'
<1>0. PICK slot \in Slots : slot = lease[t].slot
  BY DEF PoolInv, PoolTypeOK
<1>1. lease[t].slot = slot /\ slot \in Slots /\ lease[t].at = "called" /\ gates[slot] \in Words
  BY <1>0 DEF PoolInv, PoolTypeOK, Enter
<1>2. ~Claiming(slot)
  BY <1>1 DEF PoolInv, ClaimedSlot, Claiming, AllArrived
<1>3. Entrants(gates[slot]) < Half - 1
  BY <1>1, <1>2, GateBounded DEF PoolInv
<1>4. /\ gates' = [gates EXCEPT ![slot] = FetchAdd(gates[slot])]
      /\ gates'[slot] \in Words
      /\ Entrants(gates'[slot]) = Entrants(gates[slot]) + 1
      /\ Closed(gates'[slot]) <=> Closed(gates[slot])
  <2>1. gates' = [gates EXCEPT ![slot] = FetchAdd(gates[slot])] /\ gates'[slot] = FetchAdd(gates[slot])
    BY <1>1 DEF Enter, PoolInv, PoolTypeOK
  <2>. QED  BY <2>1, <1>1, <1>3, GateWords
<1>5. PoolTypeOK'
  BY <1>1, <1>4 DEF Enter, PoolInv, PoolTypeOK
<1>6. /\ Leases(slot)' = Leases(slot) \cup {t} /\ t \notin Leases(slot)
      /\ \A s : s # slot => Leases(s)' = Leases(s)
  BY <1>1 DEF Enter, Leases, PoolInv, PoolTypeOK
<1>7. CountsLeases'
  <2>. SUFFICES ASSUME NEW s \in Slots
       PROVE  Entrants(gates'[s]) = Cardinality(Leases(s)') + (IF Claiming(s)' THEN 1 ELSE 0)
    BY DEF CountsLeases
  <2>1. Claiming(s)' = Claiming(s)
    BY DEF Enter, Claiming
  <2>2. Entrants(gates[s]) = Cardinality(Leases(s)) + (IF Claiming(s) THEN 1 ELSE 0)
    BY DEF PoolInv, CountsLeases
  <2>3. CASE s = slot
    <3>1. Cardinality(Leases(slot) \cup {t}) = Cardinality(Leases(slot)) + 1
      BY <1>6, LeasesBounded, FS_AddElement
    <3>. QED  BY <3>1, <2>1, <2>2, <2>3, <1>2, <1>4, <1>6, LeasesBounded
  <2>4. CASE s # slot
    <3>1. gates'[s] = gates[s] /\ Leases(s)' = Leases(s)
      BY <2>4, <1>4, <1>6 DEF PoolInv, PoolTypeOK
    <3>. QED  BY <3>1, <2>1, <2>2
  <2>. QED  BY <2>3, <2>4
<1>8. HeldOrReleased' /\ ClaimState' /\ BoundIsHeld'
  BY DEF Enter, PoolInv, HeldOrReleased, ClaimState, BoundIsHeld
<1>9. ClaimedSlot'
  <2>1. control.at \in {"free", "bind", "open", "return"} => control.slot # slot
    BY <1>1 DEF PoolInv, ClaimedSlot, AllArrived
  <2>2. control.at \in {"free", "bind", "open", "return"} =>
          AllArrived(control.slot)' /\ gates'[control.slot] = gates[control.slot]
    BY <2>1, <1>1, <1>4 DEF PoolInv, ClaimedSlot, AllArrived, Enter, PoolTypeOK
  <2>. QED  BY <2>1, <2>2, <1>6 DEF Enter, PoolInv, ClaimedSlot
<1>10. ReleasedSlot'
  <2>1. ASSUME control.at \in {"unbind", "released"}
        PROVE  /\ Closed(gates'[control.slot])
               /\ Within(control.slot)' \subseteq Within(control.slot)
    <3>1. Closed(gates[control.slot])
      BY <2>1 DEF PoolInv, ReleasedSlot
    <3>2. Closed(gates'[control.slot])
      BY <3>1, <1>1, <1>4 DEF PoolInv, PoolTypeOK
    <3>3. slot = control.slot => lease'[t].at = "refused"
      BY <3>1, <1>1 DEF Enter, PoolInv, PoolTypeOK
    <3>4. \A u \in Threads : u # t => lease'[u] = lease[u]
      BY DEF Enter, PoolInv, PoolTypeOK
    <3>5. control.slot # slot => t \notin Leases(control.slot)'
      BY <1>1 DEF Leases, Enter, PoolInv, PoolTypeOK
    <3>6. t \notin Within(control.slot)'
      BY <3>3, <3>5 DEF Within
    <3>7. control' = control
      BY DEF Enter
    <3>. QED  BY <3>2, <3>4, <3>6, <3>7 DEF Within, Leases
  <2>. QED  BY <2>1 DEF Enter, PoolInv, ReleasedSlot
<1>11. CallersSlot'
  BY <1>1 DEF Enter, PoolInv, CallersSlot, PoolTypeOK
<1>12. OpenWhileHeld'
  BY <1>1, <1>4 DEF Enter, PoolInv, OpenWhileHeld, PoolTypeOK
<1>. QED  BY <1>5, <1>7, <1>8, <1>9, <1>10, <1>11, <1>12 DEF PoolInv

\* A thread that gives its lease back, refused or done, takes its own count.
LEMMA GiveBackKeeps ==
  ASSUME PoolInv, NEW t \in Threads, Refuse(t) \/ Leave(t)
  PROVE  PoolInv'
<1>0. PICK slot \in Slots : slot = lease[t].slot
  BY DEF PoolInv, PoolTypeOK
<1>1. lease[t].slot = slot /\ slot \in Slots /\ gates[slot] \in Words /\ t \in Leases(slot)
  BY <1>0 DEF PoolInv, PoolTypeOK, Refuse, Leave, Leases
<1>2. /\ gates' = [gates EXCEPT ![slot] = FetchSub(gates[slot])]
      /\ lease' = [lease EXCEPT ![t] = Outside]
      /\ UNCHANGED <<sinks, control, held>>
  BY <1>1 DEF Refuse, Leave
<1>3. Cardinality(Leases(slot)) > 0 /\ Entrants(gates[slot]) > 0
  <2>1. Cardinality(Leases(slot)) \in Nat /\ Cardinality(Leases(slot)) # 0
    BY <1>1, LeasesBounded
  <2>2. Entrants(gates[slot]) = Cardinality(Leases(slot)) + (IF Claiming(slot) THEN 1 ELSE 0)
    BY <1>1 DEF PoolInv, CountsLeases
  <2>. QED  BY <2>1, <2>2
<1>4. /\ gates'[slot] \in Words
      /\ Entrants(gates'[slot]) = Entrants(gates[slot]) - 1
      /\ Closed(gates'[slot]) <=> Closed(gates[slot])
  <2>1. gates'[slot] = FetchSub(gates[slot])
    BY <1>1, <1>2 DEF PoolInv, PoolTypeOK
  <2>. QED  BY <2>1, <1>1, <1>3, GateWords
<1>5. PoolTypeOK'
  BY <1>1, <1>2, <1>4, Numbers DEF PoolInv, PoolTypeOK, Outside
<1>6. /\ Leases(slot)' = Leases(slot) \ {t}
      /\ \A s : s # slot => Leases(s)' = Leases(s)
      /\ \A s : Within(s)' \subseteq Within(s)
  <2>1. /\ lease'[t].at = "out"
        /\ \A u \in Threads : u # t => lease'[u] = lease[u]
    BY <1>2 DEF PoolInv, PoolTypeOK, Outside
  <2>2. \A s : Leases(s)' = Leases(s) \ {t}
    BY <2>1 DEF Leases
  <2>3. \A s : s # slot => t \notin Leases(s)
    BY <1>1 DEF Leases
  <2>4. \A s : Within(s)' \subseteq Within(s)
    BY <2>1, <2>2 DEF Within, Leases
  <2>. QED  BY <2>2, <2>3, <2>4
<1>7. CountsLeases'
  <2>. SUFFICES ASSUME NEW s \in Slots
       PROVE  Entrants(gates'[s]) = Cardinality(Leases(s)') + (IF Claiming(s)' THEN 1 ELSE 0)
    BY DEF CountsLeases
  <2>1. Claiming(s)' = Claiming(s)
    BY <1>2 DEF Claiming
  <2>2. Entrants(gates[s]) = Cardinality(Leases(s)) + (IF Claiming(s) THEN 1 ELSE 0)
    BY DEF PoolInv, CountsLeases
  <2>3. CASE s = slot
    <3>1. Cardinality(Leases(slot) \ {t}) = Cardinality(Leases(slot)) - 1
      BY <1>1, LeasesBounded, FS_RemoveElement
    <3>. QED  BY <3>1, <2>1, <2>2, <2>3, <1>4, <1>6, LeasesBounded
  <2>4. CASE s # slot
    <3>1. gates'[s] = gates[s] /\ Leases(s)' = Leases(s)
      BY <2>4, <1>2, <1>6 DEF PoolInv, PoolTypeOK
    <3>. QED  BY <3>1, <2>1, <2>2
  <2>. QED  BY <2>3, <2>4
<1>8. HeldOrReleased' /\ ClaimState' /\ BoundIsHeld'
  BY <1>2 DEF PoolInv, HeldOrReleased, ClaimState, BoundIsHeld
<1>9. ClaimedSlot'
  <2>1. control.at \in {"bind", "open", "return"} => control.slot # slot
    BY <1>1 DEF PoolInv, ClaimedSlot
  <2>2. control.at = "return" => gates'[control.slot] = gates[control.slot]
    BY <2>1, <1>2 DEF PoolInv, PoolTypeOK
  <2>3. \A s : AllArrived(s) => AllArrived(s)'
    BY <1>2 DEF AllArrived, PoolInv, PoolTypeOK, Outside
  <2>. QED  BY <1>2, <1>6, <2>1, <2>2, <2>3 DEF PoolInv, ClaimedSlot
<1>10. ReleasedSlot'
  <2>1. \A s \in Slots : Closed(gates[s]) => Closed(gates'[s])
    BY <1>2, <1>4 DEF PoolInv, PoolTypeOK
  <2>2. control.slot \in Slots
    BY DEF PoolInv, PoolTypeOK
  <2>. QED  BY <1>2, <1>6, <2>1, <2>2 DEF PoolInv, ReleasedSlot
<1>11. CallersSlot'
  BY <1>2 DEF PoolInv, CallersSlot, PoolTypeOK, Outside
<1>12. OpenWhileHeld'
  BY <1>2, <1>4 DEF PoolInv, OpenWhileHeld, PoolTypeOK
<1>. QED  BY <1>5, <1>7, <1>8, <1>9, <1>10, <1>11, <1>12 DEF PoolInv

\* A thread that was let in reads the sink.
LEMMA LoadSinkKeeps ==
  ASSUME PoolInv, NEW t \in Threads, LoadSink(t)
  PROVE  PoolInv'
<1>. USE DEF PoolInv
<1>1. lease[t].slot \in Slots
  BY DEF PoolTypeOK
<1>2. PoolTypeOK'
  BY <1>1 DEF LoadSink, PoolTypeOK
<1>3. \A s : Leases(s)' = Leases(s) /\ Within(s)' = Within(s) /\ (AllArrived(s) => AllArrived(s)')
  BY DEF LoadSink, Leases, Within, AllArrived, PoolTypeOK
<1>4. CountsLeases' /\ ClaimedSlot' /\ ReleasedSlot'
  BY <1>3 DEF LoadSink, CountsLeases, Claiming, ClaimedSlot, ReleasedSlot
<1>5. HeldOrReleased' /\ ClaimState' /\ BoundIsHeld' /\ OpenWhileHeld'
  BY DEF LoadSink, HeldOrReleased, ClaimState, BoundIsHeld, OpenWhileHeld
<1>6. CallersSlot'
  BY DEF LoadSink, CallersSlot, PoolTypeOK
<1>. QED  BY <1>2, <1>4, <1>5, <1>6

-----------------------------------------------------------------------------
(* The control thread's steps.                                             *)

\* A claim begins.
LEMMA ClaimBeginsKeeps ==
  ASSUME PoolInv, NEW w \in Sinks, Claim(w)
  PROVE  PoolInv'
<1>. USE DEF PoolInv, Claim, Idle
<1>1. PoolTypeOK'
  BY Numbers DEF PoolTypeOK
<1>2. \A s : Leases(s)' = Leases(s)
  BY DEF Leases
<1>3. CountsLeases'
  BY <1>2 DEF CountsLeases, Claiming
<1>4. ClaimState'
  BY DEF ClaimState, PoolTypeOK
<1>5. HeldOrReleased' /\ ClaimedSlot' /\ BoundIsHeld' /\ ReleasedSlot' /\ OpenWhileHeld' /\ CallersSlot'
  BY DEF HeldOrReleased, ClaimedSlot, BoundIsHeld, ReleasedSlot, OpenWhileHeld, CallersSlot
<1>. QED  BY <1>1, <1>3, <1>4, <1>5

\* Where the scan goes next.
LEMMA AdvanceType ==
  ASSUME PoolTypeOK
  PROVE  /\ Advance.at \in {"retired", "idle"}
         /\ Advance \in [at : {"retired", "idle"}, sink : Sinks \cup {NoSink},
                         slot : Slots, drained : {"yes", "no"}]
         /\ Advance.at = "retired" => Advance.sink = control.sink
<1>1. SlotCount \in Nat \ {0} /\ control.slot \in Nat /\ control.slot >= 1
  BY Numbers DEF PoolTypeOK, Slots
<1>2. CASE control.slot < SlotCount
  <2>1. Advance = [control EXCEPT !.at = "retired", !.slot = control.slot + 1]
    BY <1>2 DEF Advance
  <2>2. control.slot + 1 \in Slots
    BY <1>1, <1>2 DEF Slots
  <2>. QED  BY <2>1, <2>2 DEF PoolTypeOK
<1>3. CASE ~(control.slot < SlotCount)
  BY <1>3, Numbers DEF Advance, Idle
<1>. QED  BY <1>2, <1>3

\* The scan passes a slot by, with its gate as it was.
LEMMA PassKeeps ==
  ASSUME PoolInv, control.at \in {"retired", "free"}, control' = Advance,
         UNCHANGED <<sinks, gates, lease, held>>
  PROVE  PoolInv'
<1>. USE DEF PoolInv
<1>1. /\ control'.at \in {"retired", "idle"}
      /\ control' \in [at : {"retired", "idle"}, sink : Sinks \cup {NoSink},
                       slot : Slots, drained : {"yes", "no"}]
      /\ control'.at = "retired" => control'.sink = control.sink
  BY AdvanceType
<1>2. PoolTypeOK'
  BY <1>1 DEF PoolTypeOK
<1>3. \A s : Leases(s)' = Leases(s)
  BY DEF Leases
<1>4. CountsLeases'
  BY <1>1, <1>3 DEF CountsLeases, Claiming
<1>5. HeldOrReleased' /\ ClaimState' /\ ClaimedSlot' /\ BoundIsHeld' /\ ReleasedSlot'
  BY <1>1 DEF HeldOrReleased, ClaimState, ClaimedSlot, BoundIsHeld, ReleasedSlot
<1>6. OpenWhileHeld' /\ CallersSlot'
  BY <1>1 DEF OpenWhileHeld, CallersSlot
<1>. QED  BY <1>2, <1>4, <1>5, <1>6

\* A compare-exchange succeeds on a slot without entrants.
LEMMA TakeKeeps ==
  ASSUME PoolInv, NEW slot \in Slots, slot = control.slot,
         control.at \in {"retired", "free"},
         sinks[slot] = NoSink, AllArrived(slot), Entrants(gates[slot]) = 0,
         gates' = [gates EXCEPT ![slot] = Half + 1],
         control' = [control EXCEPT !.at = "bind"],
         UNCHANGED <<sinks, lease, held>>
  PROVE  PoolInv'
<1>. USE DEF PoolInv
<1>1. /\ control'.at = "bind" /\ control'.sink = control.sink /\ control'.slot = slot
      /\ control'.drained = control.drained
  BY DEF PoolTypeOK
<1>2. PoolTypeOK'
  BY Numbers DEF PoolTypeOK
<1>3. \A s : Leases(s)' = Leases(s) /\ AllArrived(s)' = AllArrived(s)
  BY DEF Leases, AllArrived
<1>4. Leases(slot) = {} /\ Cardinality(Leases(slot)) = 0
  <2>1. Cardinality(Leases(slot)) = 0
    BY LeasesBounded DEF CountsLeases, Claiming
  <2>. QED  BY <2>1, LeasesBounded
<1>5. CountsLeases'
  <2>. SUFFICES ASSUME NEW s \in Slots
       PROVE  Entrants(gates'[s]) = Cardinality(Leases(s)) + (IF Claiming(s)' THEN 1 ELSE 0)
    BY <1>3 DEF CountsLeases
  <2>1. CASE s = slot
    BY <2>1, <1>1, <1>4, Numbers DEF Claiming, PoolTypeOK
  <2>2. CASE s # slot
    BY <2>2, <1>1 DEF CountsLeases, Claiming, PoolTypeOK
  <2>. QED  BY <2>1, <2>2
<1>6. HeldOrReleased' /\ ClaimState' /\ BoundIsHeld' /\ ReleasedSlot' /\ CallersSlot'
  BY <1>1 DEF HeldOrReleased, ClaimState, BoundIsHeld, ReleasedSlot, CallersSlot
<1>7. ClaimedSlot'
  BY <1>1, <1>3, <1>4 DEF ClaimedSlot
<1>8. OpenWhileHeld'
  <2>1. \A w \in Sinks : held[w] # 0 => held[w] # slot
    BY TrampolinesAssumption DEF ClaimState
  <2>. QED  BY <1>1, <2>1 DEF OpenWhileHeld, PoolTypeOK
<1>. QED  BY <1>2, <1>5, <1>6, <1>7, <1>8

LEMMA ScanKeeps ==
  ASSUME NoStall, PoolInv, SkipBound \/ TakeRetired \/ TakeFree
  PROVE  PoolInv'
<1>0. PICK slot \in Slots : slot = control.slot
  BY DEF PoolInv, PoolTypeOK
<1>1. CASE SkipBound
  BY <1>1, PassKeeps DEF SkipBound
<1>2. CASE TakeRetired /\ gates[slot] = Half
  <2>1. AllArrived(slot) /\ sinks[slot] = NoSink /\ Entrants(gates[slot]) = 0
    BY <1>0, <1>2, Numbers DEF TakeRetired, NoStall
  <2>. QED  BY <1>0, <1>2, <2>1, TakeKeeps DEF TakeRetired
<1>3. CASE TakeRetired /\ gates[slot] # Half
  <2>1. control' = [control EXCEPT !.at = "free"] /\ UNCHANGED <<sinks, gates, lease, held>>
    BY <1>0, <1>3 DEF TakeRetired
  <2>2. /\ control'.at = "free" /\ control'.sink = control.sink
        /\ control'.slot = slot /\ control'.drained = control.drained
        /\ control.at = "retired"
    BY <1>0, <1>3, <2>1 DEF PoolInv, PoolTypeOK, TakeRetired
  <2>3. AllArrived(slot) /\ sinks[slot] = NoSink
    BY <1>0, <1>3 DEF TakeRetired, NoStall
  <2>4. PoolTypeOK'
    BY <2>1 DEF PoolInv, PoolTypeOK
  <2>5. \A s : Leases(s)' = Leases(s) /\ AllArrived(s)' = AllArrived(s)
    BY <2>1 DEF Leases, AllArrived
  <2>6. CountsLeases'
    BY <2>1, <2>2, <2>5 DEF PoolInv, CountsLeases, Claiming
  <2>7. HeldOrReleased' /\ ClaimState' /\ BoundIsHeld' /\ ReleasedSlot' /\ CallersSlot'
    BY <2>1, <2>2 DEF PoolInv, HeldOrReleased, ClaimState, BoundIsHeld, ReleasedSlot, CallersSlot
  <2>8. ClaimedSlot' /\ OpenWhileHeld'
    BY <2>1, <2>2, <2>3, <2>5 DEF PoolInv, ClaimedSlot, OpenWhileHeld
  <2>. QED  BY <2>4, <2>6, <2>7, <2>8 DEF PoolInv
<1>4. CASE TakeFree /\ gates[slot] = 0
  <2>1. AllArrived(slot) /\ sinks[slot] = NoSink /\ Entrants(gates[slot]) = 0
    BY <1>0, <1>4, Numbers DEF TakeFree, PoolInv, ClaimedSlot
  <2>. QED  BY <1>0, <1>4, <2>1, TakeKeeps DEF TakeFree
<1>5. CASE TakeFree /\ gates[slot] # 0
  BY <1>0, <1>5, PassKeeps DEF TakeFree
<1>. QED  BY <1>1, <1>2, <1>3, <1>4, <1>5

\* The slot gets its sink: nobody is in its trampolines.
LEMMA BindKeeps ==
  ASSUME PoolInv, Bind
  PROVE  PoolInv'
<1>. USE DEF PoolInv
<1>0. PICK slot \in Slots, w \in Sinks : slot = control.slot /\ w = control.sink
  BY DEF PoolTypeOK, Bind, ClaimState
<1>1. /\ control.at = "bind" /\ control' = [control EXCEPT !.at = "open"]
      /\ sinks' = [sinks EXCEPT ![slot] = w]
      /\ UNCHANGED <<gates, lease, held>>
      /\ w # NoSink
  BY <1>0, TrampolinesAssumption DEF Bind
<1>2. /\ control'.at = "open" /\ control'.sink = w /\ control'.slot = slot
      /\ control'.drained = control.drained
  BY <1>0, <1>1 DEF PoolTypeOK
<1>3. PoolTypeOK'
  BY <1>0, <1>1 DEF PoolTypeOK
<1>4. \A s : Leases(s)' = Leases(s) /\ AllArrived(s)' = AllArrived(s)
  BY <1>1 DEF Leases, AllArrived
<1>5. CountsLeases'
  BY <1>0, <1>1, <1>2, <1>4 DEF CountsLeases, Claiming
<1>6. /\ held[w] = 0 /\ sinks[slot] = NoSink
      /\ \A v \in Sinks : held[v] # 0 => sinks[held[v]] = v /\ held[v] # slot
  BY <1>0, <1>1, TrampolinesAssumption DEF ClaimState, ClaimedSlot
<1>7. \A v \in Sinks : held[v] # 0 => sinks'[held[v]] = v
  BY <1>1, <1>6 DEF PoolTypeOK
<1>8. HeldOrReleased' /\ ClaimState' /\ BoundIsHeld'
  <2>1. HeldOrReleased' /\ ClaimState'
    BY <1>0, <1>1, <1>2, <1>6, <1>7 DEF HeldOrReleased, ClaimState
  <2>2. BoundIsHeld'
    BY <1>1, <1>2 DEF BoundIsHeld, PoolTypeOK
  <2>. QED  BY <2>1, <2>2
<1>9. ClaimedSlot'
  BY <1>0, <1>1, <1>2, <1>4 DEF ClaimedSlot, PoolTypeOK
<1>10. ReleasedSlot'
  BY <1>2 DEF ReleasedSlot
<1>11. CallersSlot'
  <2>1. \A t \in Threads : lease[t].at # "out" => lease[t].slot # slot
    <3>1. AllArrived(slot) /\ Leases(slot) = {}
      BY <1>0, <1>1 DEF ClaimedSlot
    <3>2. \A t \in Threads : lease[t].at \in {"refused", "entered", "inside"} => lease[t].slot # slot
      BY <3>1 DEF Leases
    <3>3. \A t \in Threads : lease[t].at \in {"out", "called", "refused", "entered", "inside"}
      BY DEF PoolTypeOK
    <3>. QED  BY <3>1, <3>2, <3>3 DEF AllArrived
  <2>. QED  BY <1>1, <2>1 DEF CallersSlot, PoolTypeOK
<1>12. OpenWhileHeld'
  BY <1>1, <1>6 DEF OpenWhileHeld
<1>. QED  BY <1>3, <1>5, <1>8, <1>9, <1>10, <1>11, <1>12

\* The plain store of the gate wipes nothing, because nobody is there.
LEMMA OpenKeeps ==
  ASSUME PoolInv, Open
  PROVE  PoolInv'
<1>. USE DEF PoolInv
<1>0. PICK slot \in Slots : slot = control.slot
  BY DEF PoolTypeOK
<1>1. /\ control.at = "open" /\ control' = [control EXCEPT !.at = "return"]
      /\ gates' = [gates EXCEPT ![slot] = 1]
      /\ UNCHANGED <<sinks, lease, held>>
  BY <1>0 DEF Open
<1>2. /\ control'.at = "return" /\ control'.sink = control.sink /\ control'.slot = slot
      /\ control'.drained = control.drained
  BY <1>0, <1>1 DEF PoolTypeOK
<1>3. PoolTypeOK'
  BY <1>1, Numbers DEF PoolTypeOK
<1>4. \A s : Leases(s)' = Leases(s) /\ AllArrived(s)' = AllArrived(s)
  BY <1>1 DEF Leases, AllArrived
<1>5. CountsLeases'
  <2>. SUFFICES ASSUME NEW s \in Slots
       PROVE  Entrants(gates'[s]) = Cardinality(Leases(s)) + (IF Claiming(s)' THEN 1 ELSE 0)
    BY <1>4 DEF CountsLeases
  <2>1. CASE s = slot
    <3>1. Cardinality(Leases(slot)) = 0
      BY <1>0, <1>1, LeasesBounded DEF ClaimedSlot
    <3>. QED  BY <2>1, <3>1, <1>1, <1>2, Numbers DEF Claiming, PoolTypeOK
  <2>2. CASE s # slot
    BY <2>2, <1>0, <1>1, <1>2 DEF CountsLeases, Claiming, PoolTypeOK
  <2>. QED  BY <2>1, <2>2
<1>6. HeldOrReleased' /\ ClaimState' /\ BoundIsHeld' /\ ReleasedSlot' /\ CallersSlot'
  BY <1>0, <1>1, <1>2 DEF HeldOrReleased, ClaimState, BoundIsHeld, ReleasedSlot, CallersSlot
<1>7. ClaimedSlot'
  BY <1>0, <1>1, <1>2, <1>4 DEF ClaimedSlot, PoolTypeOK
<1>8. OpenWhileHeld'
  BY <1>1, <1>2, Numbers DEF OpenWhileHeld, PoolTypeOK
<1>. QED  BY <1>3, <1>5, <1>6, <1>7, <1>8

\* The claim takes back its own count and returns.
LEMMA ReturnKeeps ==
  ASSUME PoolInv, Return
  PROVE  PoolInv'
<1>. USE DEF PoolInv
<1>0. PICK slot \in Slots, w \in Sinks : slot = control.slot /\ w = control.sink
  BY DEF PoolTypeOK, Return, ClaimState
<1>1. /\ control.at = "return" /\ control' = Idle
      /\ held' = [held EXCEPT ![w] = slot]
      /\ gates[slot] = 1 /\ sinks[slot] = w /\ w # NoSink
      /\ gates' = [gates EXCEPT ![slot] = 0]
      /\ UNCHANGED <<sinks, lease>>
  BY <1>0, Numbers, TrampolinesAssumption DEF Return, ClaimedSlot
<1>2. control'.at = "idle"
  BY <1>1 DEF Idle
<1>3. PoolTypeOK'
  BY <1>1, Numbers DEF PoolTypeOK, Idle
<1>4. \A s : Leases(s)' = Leases(s)
  BY <1>1 DEF Leases
<1>5. CountsLeases'
  <2>. SUFFICES ASSUME NEW s \in Slots
       PROVE  Entrants(gates'[s]) = Cardinality(Leases(s)) + (IF Claiming(s)' THEN 1 ELSE 0)
    BY <1>4 DEF CountsLeases
  <2>1. CASE s = slot
    <3>1. Cardinality(Leases(slot)) = 0
      BY <1>0, <1>1, LeasesBounded DEF ClaimedSlot
    <3>. QED  BY <2>1, <3>1, <1>1, <1>2, Numbers DEF Claiming, PoolTypeOK
  <2>2. CASE s # slot
    BY <2>2, <1>0, <1>1, <1>2 DEF CountsLeases, Claiming, PoolTypeOK
  <2>. QED  BY <2>1, <2>2
<1>6. held[w] = 0 /\ \A v \in Sinks : held[v] # 0 => sinks[held[v]] = v
  BY <1>0, <1>1 DEF ClaimState
<1>7. \A v \in Sinks : held'[v] # 0 => sinks[held'[v]] = v
  BY <1>1, <1>6 DEF PoolTypeOK
<1>8. HeldOrReleased'
  BY <1>1, <1>7 DEF HeldOrReleased
<1>9. BoundIsHeld'
  <2>. SUFFICES ASSUME NEW s \in Slots, sinks[s] # NoSink
       PROVE  held'[sinks[s]] = s
    BY <1>1 DEF BoundIsHeld
  <2>1. CASE s = slot
    BY <2>1, <1>1 DEF PoolTypeOK
  <2>2. CASE s # slot
    <3>1. sinks[s] \in Sinks /\ held[sinks[s]] = s
      BY <2>2, <1>0, <1>1 DEF BoundIsHeld, PoolTypeOK
    <3>2. sinks[s] # w
      BY <3>1, <1>6, Numbers
    <3>. QED  BY <3>1, <3>2, <1>1 DEF PoolTypeOK
  <2>. QED  BY <2>1, <2>2
<1>10. ClaimState' /\ ClaimedSlot' /\ ReleasedSlot'
  BY <1>2 DEF ClaimState, ClaimedSlot, ReleasedSlot
<1>11. CallersSlot'
  BY <1>1 DEF CallersSlot
<1>12. OpenWhileHeld'
  <2>. SUFFICES ASSUME NEW v \in Sinks, held'[v] # 0
       PROVE  ~Closed(gates'[held'[v]])
    BY <1>1 DEF OpenWhileHeld
  <2>1. CASE v = w
    BY <2>1, <1>1, Numbers DEF PoolTypeOK
  <2>2. CASE v # w
    <3>1. held'[v] = held[v] /\ sinks[held[v]] = v /\ held[v] \in Slots
      BY <2>2, <1>1, <1>6 DEF PoolTypeOK
    <3>2. held[v] # slot
      BY <3>1, <2>2, <1>1
    <3>. QED  BY <3>1, <3>2, <1>1 DEF OpenWhileHeld, PoolTypeOK
  <2>. QED  BY <2>1, <2>2
<1>. QED  BY <1>3, <1>5, <1>8, <1>9, <1>10, <1>11, <1>12

\* Steps that move the control thread between calls and touch no slot.
LEMMA ReleaseBeginsOrEndsKeeps ==
  ASSUME PoolInv, NEW w \in Sinks,
         (Release(w) /\ sinks[held[w]] = w) \/ Released
  PROVE  PoolInv'
<1>. USE DEF PoolInv
<1>1. /\ UNCHANGED <<sinks, gates, lease, held>>
      /\ control.at \in {"idle", "released"}
      /\ \/ control' = Idle
         \/ /\ control' = [at |-> "close", sink |-> w, slot |-> 1, drained |-> "yes"]
            /\ held[w] # 0 /\ sinks[held[w]] = w
  BY DEF Release, Released, Idle
<1>2. /\ control'.at \in {"idle", "close"}
      /\ control'.at = "close" => control'.sink = w /\ held[w] # 0 /\ sinks[held[w]] = w
      /\ control' \in [at : {"idle", "close"}, sink : Sinks \cup {NoSink},
                       slot : Slots, drained : {"yes", "no"}]
  <2>1. CASE control' = Idle
    BY <2>1, Numbers DEF Idle
  <2>2. CASE control' # Idle
    BY <2>2, <1>1, Numbers
  <2>. QED  BY <2>1, <2>2
<1>3. PoolTypeOK'
  BY <1>1, <1>2 DEF PoolTypeOK
<1>4. \A s : Leases(s)' = Leases(s)
  BY <1>1 DEF Leases
<1>5. CountsLeases'
  BY <1>1, <1>2, <1>4 DEF CountsLeases, Claiming
<1>6. HeldOrReleased' /\ ClaimState' /\ ClaimedSlot' /\ ReleasedSlot' /\ CallersSlot'
  BY <1>1, <1>2 DEF HeldOrReleased, ClaimState, ClaimedSlot, ReleasedSlot, CallersSlot
<1>7. BoundIsHeld' /\ OpenWhileHeld'
  BY <1>1, <1>2 DEF BoundIsHeld, OpenWhileHeld
<1>. QED  BY <1>3, <1>5, <1>6, <1>7

\* The gate closes, and the count it had tells who is inside.
LEMMA CloseKeeps ==
  ASSUME PoolInv, NEW slot \in Slots, Close(slot)
  PROVE  PoolInv'
<1>. USE DEF PoolInv
<1>1. /\ control.at = "close" /\ sinks[slot] = control.sink
      /\ gates' = [gates EXCEPT ![slot] = Half + Entrants(gates[slot])]
      /\ UNCHANGED <<sinks, lease, held>>
      /\ control.sink \in Sinks /\ control.sink # NoSink
  BY TrampolinesAssumption DEF Close, ReleasedSlot
<1>2. /\ control'.at = "unbind" /\ control'.sink = control.sink /\ control'.slot = slot
      /\ control'.drained \in {"yes", "no"}
      /\ control'.drained = "yes" => Entrants(gates[slot]) = 0
      /\ control' \in [at : {"unbind"}, sink : Sinks, slot : Slots, drained : {"yes", "no"}]
  BY <1>1 DEF Close, PoolTypeOK
<1>3. /\ gates'[slot] \in Words /\ Closed(gates'[slot])
      /\ Entrants(gates'[slot]) = Entrants(gates[slot])
  BY <1>1, GateWords DEF PoolTypeOK
<1>4. PoolTypeOK'
  BY <1>1, <1>2, <1>3 DEF PoolTypeOK
<1>5. \A s : Leases(s)' = Leases(s) /\ Within(s)' = Within(s)
  BY <1>1 DEF Leases, Within
<1>6. CountsLeases'
  BY <1>1, <1>2, <1>3, <1>5 DEF CountsLeases, Claiming, PoolTypeOK
<1>7. held[control.sink] = slot
  BY <1>1 DEF BoundIsHeld
<1>8. control'.drained = "yes" => Within(slot) = {}
  <2>. SUFFICES ASSUME Entrants(gates[slot]) = 0 PROVE Within(slot) = {}
    BY <1>2
  <2>1. Cardinality(Leases(slot)) = 0
    BY <1>1, LeasesBounded DEF CountsLeases, Claiming
  <2>. QED  BY <2>1, LeasesBounded DEF Within
<1>9. ReleasedSlot'
  BY <1>1, <1>2, <1>3, <1>5, <1>7, <1>8 DEF ReleasedSlot
<1>10. HeldOrReleased' /\ ClaimState' /\ ClaimedSlot' /\ BoundIsHeld' /\ CallersSlot'
  BY <1>1, <1>2 DEF HeldOrReleased, ClaimState, ClaimedSlot, BoundIsHeld, CallersSlot
<1>11. OpenWhileHeld'
  BY <1>1, <1>2 DEF OpenWhileHeld, PoolTypeOK
<1>. QED  BY <1>4, <1>6, <1>9, <1>10, <1>11

LEMMA UnbindKeeps ==
  ASSUME PoolInv, Unbind
  PROVE  PoolInv'
<1>. USE DEF PoolInv
<1>0. PICK slot \in Slots, w \in Sinks : slot = control.slot /\ w = control.sink
  BY DEF PoolTypeOK, Unbind, ReleasedSlot
<1>1. /\ control.at = "unbind" /\ control' = [control EXCEPT !.at = "released"]
      /\ sinks' = [sinks EXCEPT ![slot] = NoSink]
      /\ UNCHANGED <<gates, lease, held>>
      /\ held[w] = slot /\ sinks[slot] = w
  BY <1>0 DEF Unbind, ReleasedSlot
<1>2. /\ control'.at = "released" /\ control'.sink = w /\ control'.slot = slot
      /\ control'.drained = control.drained
  BY <1>0, <1>1 DEF PoolTypeOK
<1>3. PoolTypeOK'
  BY <1>1 DEF PoolTypeOK
<1>4. \A s : Leases(s)' = Leases(s) /\ Within(s)' = Within(s)
  BY <1>1 DEF Leases, Within
<1>5. CountsLeases'
  BY <1>1, <1>2, <1>4 DEF CountsLeases, Claiming
<1>6. HeldOrReleased' /\ ClaimState' /\ ClaimedSlot' /\ BoundIsHeld' /\ CallersSlot'
  BY <1>1, <1>2 DEF HeldOrReleased, ClaimState, ClaimedSlot, BoundIsHeld, CallersSlot, PoolTypeOK
<1>7. ReleasedSlot'
  BY <1>0, <1>1, <1>2, <1>4 DEF ReleasedSlot, PoolTypeOK
<1>8. OpenWhileHeld'
  <2>. SUFFICES ASSUME NEW v \in Sinks, held[v] # 0, sinks'[held[v]] = v
       PROVE  ~Closed(gates[held[v]])
    BY <1>1 DEF OpenWhileHeld
  <2>1. held[v] \in Slots /\ held[v] # slot /\ sinks[held[v]] = v
    BY <1>1, TrampolinesAssumption DEF PoolTypeOK
  <2>. QED  BY <2>1, <1>0 DEF OpenWhileHeld
<1>. QED  BY <1>3, <1>5, <1>6, <1>7, <1>8

LEMMA ForgetKeeps ==
  ASSUME PoolInv, NEW w \in Sinks, Forget(w)
  PROVE  PoolInv'
<1>. USE DEF PoolInv
<1>1. /\ control.at = "idle" /\ held[w] # 0 /\ sinks[held[w]] # w
      /\ held' = [held EXCEPT ![w] = 0]
      /\ UNCHANGED <<sinks, gates, lease, control>>
  BY DEF Forget
<1>2. PoolTypeOK'
  BY <1>1, Numbers DEF PoolTypeOK
<1>3. \A s : Leases(s)' = Leases(s)
  BY <1>1 DEF Leases
<1>4. CountsLeases'
  BY <1>1, <1>3 DEF CountsLeases, Claiming
<1>5. \A v \in Sinks : v # w => held'[v] = held[v]
  BY <1>1 DEF PoolTypeOK
<1>6. HeldOrReleased' /\ ClaimState' /\ ClaimedSlot' /\ ReleasedSlot' /\ CallersSlot' /\ OpenWhileHeld'
  BY <1>1, <1>5 DEF HeldOrReleased, ClaimState, ClaimedSlot, ReleasedSlot, CallersSlot,
                    OpenWhileHeld, PoolTypeOK
<1>7. BoundIsHeld'
  <2>. SUFFICES ASSUME NEW s \in Slots, sinks[s] # NoSink PROVE held'[sinks[s]] = s
    BY <1>1 DEF BoundIsHeld
  <2>1. held[sinks[s]] = s /\ sinks[s] \in Sinks
    BY <1>1 DEF BoundIsHeld, PoolTypeOK
  <2>2. sinks[s] # w
    BY <2>1, <1>1
  <2>. QED  BY <2>1, <2>2, <1>5
<1>. QED  BY <1>2, <1>4, <1>6, <1>7

LEMMA PoolInvNext == NoStall /\ PoolInv /\ [PoolNext]_poolVars => PoolInv'
<1>. SUFFICES ASSUME NoStall, PoolInv, [PoolNext]_poolVars PROVE PoolInv'
  OBVIOUS
<1>1. CASE \E t \in Threads, w \in Sinks : Call(t, w)
  BY <1>1, CallKeeps
<1>2. CASE \E t \in Threads : EnterOrLeave(t)
  BY <1>2, EnterKeeps, GiveBackKeeps, LoadSinkKeeps DEF EnterOrLeave
<1>3. CASE \E w \in Sinks : Claim(w) \/ (Release(w) /\ sinks[held[w]] = w) \/ Forget(w)
  BY <1>3, ClaimBeginsKeeps, ReleaseBeginsOrEndsKeeps, ForgetKeeps
<1>4. CASE ClaimStep
  BY <1>4, ScanKeeps, BindKeeps, OpenKeeps, ReturnKeeps DEF ClaimStep
<1>5. CASE ReleaseStep
  <2>1. Released => \E w \in Sinks : TRUE
    BY DEF Released, PoolInv, ReleasedSlot
  <2>. QED  BY <1>5, <2>1, CloseKeeps, UnbindKeeps, ReleaseBeginsOrEndsKeeps DEF ReleaseStep
<1>6. CASE UNCHANGED poolVars
  <2>1. UNCHANGED <<sinks, gates, lease, control, held>>
    BY <1>6 DEF poolVars
  <2>2. \A s : Leases(s)' = Leases(s)
    BY <2>1 DEF Leases
  <2>3. \A s : Within(s)' = Within(s) /\ AllArrived(s)' = AllArrived(s)
    BY <2>1, <2>2 DEF Within, AllArrived
  <2>4. PoolTypeOK' /\ CountsLeases' /\ ClaimedSlot' /\ ReleasedSlot'
    BY <2>1, <2>2, <2>3 DEF PoolInv, PoolTypeOK, CountsLeases, Claiming, ClaimedSlot, ReleasedSlot
  <2>5. HeldOrReleased' /\ ClaimState' /\ BoundIsHeld' /\ CallersSlot' /\ OpenWhileHeld'
    BY <2>1 DEF PoolInv, HeldOrReleased, ClaimState, BoundIsHeld, CallersSlot, OpenWhileHeld
  <2>. QED  BY <2>4, <2>5 DEF PoolInv
<1>. QED  BY <1>1, <1>2, <1>3, <1>4, <1>5, <1>6 DEF PoolNext

-----------------------------------------------------------------------------
(* The invariant behind the pool: while calls reach the gate in time, it   *)
(* holds in every reachable state.                                         *)
THEOREM PoolInvariant == ASSUME NoStall PROVE PoolSpec => []PoolInv
<1>1. PoolInv /\ [PoolNext]_poolVars => PoolInv'
  BY PoolInvNext
<1>. QED  BY PoolInvInit, <1>1, PTL DEF PoolSpec

(* Every word, record and slot number keeps its type; no gate overflows.   *)
THEOREM PoolTypeCorrect == ASSUME NoStall PROVE PoolSpec => []PoolTypeOK
<1>1. PoolInv => PoolTypeOK
  BY DEF PoolInv
<1>. QED  BY PoolInvariant, <1>1, PTL

(* A gate counts exactly the callbacks that hold a lease and the claim.    *)
THEOREM GatesCount == ASSUME NoStall PROVE PoolSpec => []CountsLeases
<1>1. PoolInv => CountsLeases
  BY DEF PoolInv
<1>. QED  BY PoolInvariant, <1>1, PTL

(* When release returns true, no callback is inside the slot.              *)
THEOREM ReleaseIsRight == ASSUME NoStall PROVE PoolSpec => []ReleaseTellsTruth
<1>1. PoolInv => ReleaseTellsTruth
  BY DEF PoolInv, ReleasedSlot, ReleaseTellsTruth
<1>. QED  BY PoolInvariant, <1>1, PTL

(* A callback reaches the wrapper whose driver called, or nobody.          *)
THEOREM CallbacksReachTheirWrapper == ASSUME NoStall PROVE PoolSpec => []ReachesItsWrapper
<1>1. PoolInv => ReachesItsWrapper
  BY DEF PoolInv, CallersSlot, ReachesItsWrapper
<1>. QED  BY PoolInvariant, <1>1, PTL

(* The set a claim returned lets callbacks in until it is released.        *)
THEOREM StaysOpen == ASSUME NoStall PROVE PoolSpec => []OpenWhileHeld
<1>1. PoolInv => OpenWhileHeld
  BY DEF PoolInv
<1>. QED  BY PoolInvariant, <1>1, PTL

(* A slot gets a sink only when no callback is inside it.                  *)
THEOREM NeverReusedUnderACallback == ASSUME NoStall PROVE PoolSpec => ReusedOnlyWhenEmpty
<1>1. ASSUME PoolInv, [PoolNext]_poolVars
      PROVE  [\A s \in Slots : sinks[s] = NoSink /\ sinks'[s] # NoSink => Within(s) = {}]_poolVars
  <2>. SUFFICES ASSUME PoolNext, NEW s \in Slots, sinks[s] = NoSink, sinks'[s] # NoSink
       PROVE  Within(s) = {}
    BY <1>1
  <2>1. CASE Bind
    <3>1. s = control.slot
      BY <2>1, <1>1 DEF Bind, PoolInv, PoolTypeOK
    <3>. QED  BY <2>1, <3>1, <1>1 DEF Bind, PoolInv, ClaimedSlot, Within
  <2>2. CASE Unbind
    BY <2>2, <1>1 DEF Unbind, PoolInv, PoolTypeOK
  <2>3. CASE sinks' = sinks
    BY <2>3
  <2>4. Bind \/ Unbind \/ sinks' = sinks
    BY DEF PoolNext, Call, EnterOrLeave, Enter, Refuse, LoadSink, Leave, Claim, Release,
           Forget, ClaimStep, SkipBound, TakeRetired, TakeFree, Open, Return, ReleaseStep,
           Close, Released
  <2>. QED  BY <2>1, <2>2, <2>3, <2>4
<1>. QED  BY PoolInvariant, <1>1, PTL DEF PoolSpec, ReusedOnlyWhenEmpty

-----------------------------------------------------------------------------
(* The wrappers.                                                           *)

\* A driver thread short of the gate finds it closed, or finds the set its
\* wrapper still holds.
CalledSlot ==
  \A t \in Threads : lease[t].at = "called" =>
    /\ lease[t].caller \in Sinks
    /\ Closed(gates[lease[t].slot]) \/ held[lease[t].caller] = lease[t].slot

\* A set that is released and not yet forgotten lets nobody in.
ReleasedIsClosed ==
  \A w \in Sinks : held[w] # 0 /\ sinks[held[w]] # w => Closed(gates[held[w]])

GateInv == CalledSlot /\ ReleasedIsClosed

Claims == {"retired", "free", "bind", "open", "return"}
Releases == {"close", "unbind", "released"}

\* The control thread claims in createBuffers and releases in its error
\* paths and in disposeBuffers, and nowhere else.
ControlInCall ==
  /\ control.at \in Claims =>
       api.at = "claiming" /\ control.sink = api.wrapper
  /\ control.at \in Releases =>
       api.at \in {"refused", "waiting"} /\ control.sink = api.wrapper

\* A wrapper's set stays bound until the wrapper itself releases it.
BoundUntilReleased ==
  \A w \in Sinks : held[w] # 0 =>
    sinks[held[w]] = w \/ (api.at \in {"refused", "waiting"} /\ api.wrapper = w)

\* What the wrapper's state says while a call on it is under way.
CallState ==
  LET w == api.wrapper IN
  /\ api.at # "idle" => w \in Sinks
  /\ api.at \in {"claiming", "refused", "opening", "disposing", "waiting"} =>
       state[w] = "Initialized"
  /\ api.at \in {"claiming", "opening"} => channels[w] = "allocated"
  /\ api.at \in {"starting", "stopping"} => state[w] = "Running"
  /\ api.at = "prepared" => state[w] = "Prepared"

\* A prepared wrapper has what a switch works with; only a target that has
\* buffers calls back.
WrapperState ==
  \A w \in Sinks :
    /\ state[w] \in {"Prepared", "Running"} =>
         channels[w] = "allocated" /\ processor[w] = "open"
    /\ target[w] # "closed" =>
         \/ state[w] \in {"Prepared", "Running"}
         \/ api.wrapper = w /\ api.at \in {"opening", "disposing"}

\* A thread that was let in is in the set its wrapper holds, until a wait
\* gives up on it.
WithinItsSlot ==
  \A t \in Threads \ overdue : lease[t].at \in {"entered", "inside"} =>
    lease[t].caller \in Sinks /\ held[lease[t].caller] = lease[t].slot

SwitchersAreInside ==
  /\ \A t \in overdue : lease[t].at \in {"entered", "inside"}
  /\ \A t \in switching : lease[t].at = "inside" /\ lease[t].sink # NoSink

\* Until the target is asked for buffers it calls nothing of the new set.
NobodyInTheNewSet ==
  api.at \in {"claiming", "refused"} =>
    \A t \in Threads \ overdue :
      lease[t].at \in {"called", "entered", "inside"} /\ lease[t].caller = api.wrapper =>
        lease[t].slot # held[api.wrapper]

CallInv == ControlInCall /\ BoundUntilReleased /\ CallState /\ WrapperState
ThreadInv == WithinItsSlot /\ SwitchersAreInside /\ NobodyInTheNewSet

WrapperInv ==
  TypeOK /\ PoolInv /\ GateInv /\ CallInv /\ ThreadInv /\ SwitchKeepsItsBuffers

-----------------------------------------------------------------------------
(* More about the pool.                                                    *)

\* Only the store at the end of a claim opens a closed gate.
LEMMA StaysClosed ==
  ASSUME PoolInv, PoolNext, NEW s \in Slots, Closed(gates[s]),
         ~(Open /\ control.slot = s)
  PROVE  Closed(gates'[s])
<1>. USE DEF PoolInv
<1>1. CASE gates' = gates
  BY <1>1
<1>2. CASE \E t \in Threads : Enter(t)
  <2>1. PICK t \in Threads : Enter(t)
    BY <1>2
  <2>2. PICK slot \in Slots : slot = lease[t].slot
    BY DEF PoolTypeOK
  <2>3. /\ gates' = [gates EXCEPT ![slot] = FetchAdd(gates[slot])]
        /\ lease[t].at = "called" /\ gates[slot] \in Words
    BY <2>1, <2>2 DEF Enter, PoolTypeOK
  <2>4. ~Claiming(slot)
    BY <2>2, <2>3 DEF ClaimedSlot, Claiming, AllArrived
  <2>5. Entrants(gates[slot]) < Half - 1
    BY <2>4, GateBounded
  <2>6. Closed(FetchAdd(gates[slot])) <=> Closed(gates[slot])
    BY <2>3, <2>5, GateWords
  <2>. QED  BY <2>3, <2>6 DEF PoolTypeOK
<1>3. CASE \E t \in Threads : Refuse(t) \/ Leave(t)
  <2>1. PICK t \in Threads : Refuse(t) \/ Leave(t)
    BY <1>3
  <2>2. PICK slot \in Slots : slot = lease[t].slot
    BY DEF PoolTypeOK
  <2>3. /\ gates' = [gates EXCEPT ![slot] = FetchSub(gates[slot])]
        /\ t \in Leases(slot) /\ gates[slot] \in Words
    BY <2>1, <2>2 DEF Refuse, Leave, Leases, PoolTypeOK
  <2>4. Cardinality(Leases(slot)) \in Nat /\ Cardinality(Leases(slot)) # 0
    BY <2>3, LeasesBounded
  <2>5. Entrants(gates[slot]) > 0
    BY <2>4 DEF CountsLeases
  <2>6. Closed(FetchSub(gates[slot])) <=> Closed(gates[slot])
    BY <2>3, <2>5, GateWords
  <2>. QED  BY <2>3, <2>6 DEF PoolTypeOK
<1>4. CASE TakeRetired \/ TakeFree
  BY <1>4, Numbers DEF TakeRetired, TakeFree, PoolTypeOK
<1>5. CASE Open
  BY <1>5 DEF Open, PoolTypeOK
<1>6. CASE Return
  BY <1>6, Numbers DEF Return, ClaimedSlot, PoolTypeOK
<1>7. CASE \E c \in Slots : Close(c)
  <2>1. PICK c \in Slots : Close(c)
    BY <1>7
  <2>2. gates' = [gates EXCEPT ![c] = Half + Entrants(gates[c])] /\ gates[c] \in Words
    BY <2>1 DEF Close, PoolTypeOK
  <2>3. Closed(Half + Entrants(gates[c]))
    BY <2>2, GateWords
  <2>. QED  BY <2>2, <2>3 DEF PoolTypeOK
<1>8. \/ gates' = gates
      \/ \E t \in Threads : Enter(t) \/ Refuse(t) \/ Leave(t)
      \/ TakeRetired \/ TakeFree \/ Open \/ Return
      \/ \E c \in Slots : Close(c)
  BY DEF PoolNext, Call, EnterOrLeave, LoadSink, Claim, Release, Forget, ClaimStep,
         SkipBound, Bind, ReleaseStep, Unbind, Released
<1>. QED  BY <1>1, <1>2, <1>3, <1>4, <1>5, <1>6, <1>7, <1>8

\* How a driver thread moves.
LEMMA LeaseSteps ==
  ASSUME PoolTypeOK, PoolNext, NEW t \in Threads
  PROVE  \/ lease'[t] = lease[t]
         \/ \E w \in Sinks : Call(t, w)
         \/ Enter(t) \/ Refuse(t) \/ LoadSink(t) \/ Leave(t)
<1>1. ASSUME NEW u \in Threads, u # t,
             EnterOrLeave(u) \/ \E w \in Sinks : Call(u, w)
      PROVE  lease'[t] = lease[t]
  BY <1>1 DEF EnterOrLeave, Enter, Refuse, LoadSink, Leave, Call, PoolTypeOK
<1>2. ASSUME \/ \E w \in Sinks : Claim(w) \/ (Release(w) /\ sinks[held[w]] = w) \/ Forget(w)
             \/ ClaimStep \/ ReleaseStep
      PROVE  lease' = lease
  BY <1>2 DEF Claim, Release, Forget, ClaimStep, SkipBound, TakeRetired, TakeFree, Bind,
              Open, Return, ReleaseStep, Close, Unbind, Released
<1>. QED  BY <1>1, <1>2 DEF PoolNext, EnterOrLeave

LEMMA CalledStep ==
  ASSUME PoolInv, GateInv, PoolNext
  PROVE  CalledSlot'
<1>. USE DEF PoolInv, GateInv
<1>. SUFFICES ASSUME NEW t \in Threads, lease'[t].at = "called"
     PROVE  /\ lease'[t].caller \in Sinks
            /\ Closed(gates'[lease'[t].slot]) \/ held'[lease'[t].caller] = lease'[t].slot
  BY DEF CalledSlot
<1>1. CASE \E w \in Sinks : Call(t, w)
  BY <1>1 DEF Call, PoolTypeOK
<1>2. CASE ~\E w \in Sinks : Call(t, w)
  <2>1. lease'[t] = lease[t]
    <3>1. Enter(t) \/ LoadSink(t) => lease'[t].at \in {"refused", "entered", "inside"}
      BY DEF Enter, LoadSink, PoolTypeOK
    <3>2. Refuse(t) \/ Leave(t) => lease'[t].at = "out"
      BY DEF Refuse, Leave, Outside, PoolTypeOK
    <3>. QED  BY <1>2, <3>1, <3>2, LeaseSteps
  <2>2. PICK s \in Slots, w \in Sinks : s = lease[t].slot /\ w = lease[t].caller
    BY <2>1 DEF PoolTypeOK, CalledSlot
  <2>3. Closed(gates[s]) \/ held[w] = s
    BY <2>1, <2>2 DEF CalledSlot
  <2>4. ~(Open /\ control.slot = s)
    BY <2>1, <2>2 DEF Open, ClaimedSlot, AllArrived
  <2>5. Closed(gates[s]) => Closed(gates'[s])
    BY <2>4, StaysClosed
  <2>6. ASSUME held[w] = s, held'[w] # s PROVE Closed(gates[s])
    <3>1. Return \/ \E v \in Sinks : Forget(v)
      BY <2>6 DEF PoolNext, Call, EnterOrLeave, Enter, Refuse, LoadSink, Leave, Claim,
                  Release, ClaimStep, SkipBound, TakeRetired, TakeFree, Bind, Open,
                  ReleaseStep, Close, Unbind, Released
    <3>2. CASE Return
      BY <3>2, <2>6, Numbers DEF Return, ClaimState, PoolTypeOK
    <3>3. ASSUME NEW v \in Sinks, Forget(v) PROVE Closed(gates[s])
      BY <3>3, <2>6 DEF Forget, ReleasedIsClosed, PoolTypeOK
    <3>. QED  BY <3>1, <3>2, <3>3
  <2>. QED  BY <2>1, <2>2, <2>3, <2>5, <2>6
<1>. QED  BY <1>1, <1>2

LEMMA ReleasedIsClosedStep ==
  ASSUME PoolInv, GateInv, PoolNext
  PROVE  ReleasedIsClosed'
<1>. USE DEF PoolInv, GateInv
<1>. SUFFICES ASSUME NEW w \in Sinks, held'[w] # 0, sinks'[held'[w]] # w
     PROVE  Closed(gates'[held'[w]])
  BY DEF ReleasedIsClosed
<1>1. CASE sinks' = sinks /\ held'[w] = held[w]
  <2>1. held[w] \in Slots /\ Closed(gates[held[w]])
    BY <1>1 DEF ReleasedIsClosed, PoolTypeOK
  <2>2. ~Open
    BY <1>1 DEF Open, ClaimState
  <2>. QED  BY <1>1, <2>1, <2>2, StaysClosed
<1>2. CASE Bind
  <2>1. sinks[held[w]] = w /\ held'[w] = held[w] /\ held[w] \in Slots
    BY <1>2 DEF Bind, ClaimState, PoolTypeOK
  <2>2. sinks[control.slot] = NoSink /\ sinks' = [sinks EXCEPT ![control.slot] = control.sink]
    BY <1>2 DEF Bind, ClaimedSlot
  <2>. QED  BY <2>1, <2>2, TrampolinesAssumption DEF PoolTypeOK
<1>3. CASE Return
  <2>1. sinks[control.slot] = control.sink /\ control.sink \in Sinks
    BY <1>3 DEF Return, ClaimedSlot, ClaimState
  <2>. QED  BY <1>3, <2>1 DEF Return, ClaimState, PoolTypeOK
<1>4. CASE Unbind
  BY <1>4 DEF Unbind, ReleasedSlot, ReleasedIsClosed, PoolTypeOK
<1>5. ASSUME NEW v \in Sinks, Forget(v) PROVE sinks' = sinks /\ held'[w] = held[w]
  BY <1>5 DEF Forget, PoolTypeOK
<1>6. \/ sinks' = sinks /\ held' = held
      \/ Bind \/ Return \/ Unbind \/ \E v \in Sinks : Forget(v)
  BY DEF PoolNext, Call, EnterOrLeave, Enter, Refuse, LoadSink, Leave, Claim,
         Release, ClaimStep, SkipBound, TakeRetired, TakeFree, Open, ReleaseStep,
         Close, Released
<1>. QED  BY <1>1, <1>2, <1>3, <1>4, <1>5, <1>6

-----------------------------------------------------------------------------
(* The initial states.                                                     *)

LEMMA WrapperInvInit == Init => WrapperInv
<1>. SUFFICES ASSUME Init PROVE WrapperInv
  OBVIOUS
<1>1. PoolInv
  BY PoolInvInit DEF Init
<1>2. TypeOK
  BY <1>1 DEF Init, NoCall, TypeOK, PoolInv
<1>3. GateInv
  BY DEF Init, PoolInit, Outside, GateInv, CalledSlot, ReleasedIsClosed
<1>4. CallInv
  BY DEF Init, PoolInit, Idle, NoCall, CallInv, Claims, Releases, ControlInCall,
         BoundUntilReleased, CallState, WrapperState
<1>5. ThreadInv /\ SwitchKeepsItsBuffers
  BY DEF Init, PoolInit, Outside, NoCall, ThreadInv, WithinItsSlot, SwitchersAreInside,
         NobodyInTheNewSet, SwitchKeepsItsBuffers
<1>. QED  BY <1>1, <1>2, <1>3, <1>4, <1>5 DEF WrapperInv

-----------------------------------------------------------------------------
(* Every step of a wrapper is a step of the pool, or none.                 *)

\* Until the call that releases it has begun, the wrapper's set is bound.
LEMMA ReleasesItsOwn ==
  ASSUME CallInv, NEW w \in Sinks, NEW place \in {"claiming", "opening", "disposing"},
         At(w, place), held[w] # 0
  PROVE  sinks[held[w]] = w
<1>. QED  BY DEF CallInv, BoundUntilReleased, At

LEMMA StepIsPool ==
  ASSUME CallInv, Next
  PROVE  PoolNext \/ UNCHANGED poolVars
<1>1. CASE PoolStep
  BY <1>1 DEF PoolStep, PoolNext
<1>2. ASSUME NEW w \in Sinks, CreateBuffers(w) PROVE PoolNext
  BY <1>2 DEF CreateBuffers, PoolNext
<1>3. ASSUME NEW w \in Sinks, TargetRefuses(w) \/ Unwind(w) \/ TargetDisposes(w)
      PROVE  PoolNext
  <2>1. Release(w) /\ held[w] # 0
    BY <1>3 DEF TargetRefuses, Unwind, TargetDisposes, Release
  <2>2. sinks[held[w]] = w
    BY <1>3, <2>1, ReleasesItsOwn DEF TargetRefuses, Unwind, TargetDisposes
  <2>. QED  BY <2>1, <2>2 DEF PoolNext
<1>4. ASSUME NEW w \in Sinks, AfterRefusal(w) \/ Waited(w) PROVE PoolNext
  BY <1>4 DEF AfterRefusal, Waited, PoolNext
<1>5. ASSUME NEW t \in Threads, NEW w \in Sinks, DriverCalls(t, w) PROVE PoolNext
  BY <1>5 DEF DriverCalls, PoolNext
<1>6. ASSUME NEW t \in Threads, Trampoline(t) PROVE PoolNext
  BY <1>6 DEF Trampoline, PoolNext, EnterOrLeave
<1>7. ASSUME NEW t \in Threads, SwitchBuffers(t) PROVE UNCHANGED poolVars
  BY <1>7 DEF SwitchBuffers
<1>8. ASSUME NEW w \in Sinks,
             \/ NoSlot(w) \/ TargetCreates(w) \/ ProcessorOpens(w) \/ TargetStarts(w)
             \/ Stopped(w) \/ DisposeStopped(w)
      PROVE  UNCHANGED poolVars
  BY <1>8 DEF NoSlot, TargetCreates, ProcessorOpens, TargetStarts, Stopped, DisposeStopped,
              RefuseSwitches
<1>9. ASSUME NEW w \in Sinks, NEW then,
             InitDriver(w) \/ Start(w) \/ Destroy(w) \/ Stop(w, then) \/ Dispose(w, then)
      PROVE  UNCHANGED poolVars
  BY <1>9 DEF InitDriver, Start, Destroy, Stop, Dispose, RefuseSwitches
<1>. QED
  BY <1>1, <1>2, <1>3, <1>4, <1>5, <1>6, <1>7, <1>8, <1>9 DEF Next, InCall, NewCall

LEMMA PoolInvStep ==
  ASSUME NoStall, PoolInv, GateInv, CallInv, [Next]_vars
  PROVE  PoolInv' /\ GateInv'
<1>1. PoolNext \/ UNCHANGED poolVars
  BY StepIsPool DEF vars
<1>2. PoolInv'
  BY <1>1, PoolInvNext
<1>3. CASE PoolNext
  BY <1>3, <1>2, CalledStep, ReleasedIsClosedStep DEF GateInv
<1>4. CASE UNCHANGED poolVars
  BY <1>4, <1>2 DEF poolVars, GateInv, CalledSlot, ReleasedIsClosed
<1>. QED  BY <1>1, <1>2, <1>3, <1>4

-----------------------------------------------------------------------------
(* The calls of the control thread.                                        *)

LEMMA ControlStep ==
  ASSUME TypeOK, PoolInv, CallInv, [Next]_vars
  PROVE  ControlInCall'
<1>. USE DEF CallInv, ControlInCall, Claims, Releases
<1>1. CASE PoolStep
  <2>1. api' = api
    BY <1>1 DEF PoolStep, wrapperVars
  <2>2. CASE ClaimStep
    <3>1. \/ control' = Advance \/ control' = Idle
          \/ control'.at \in Claims /\ control'.sink = control.sink
      <4>1. SkipBound \/ Return => control' = Advance \/ control' = Idle
        BY DEF SkipBound, Return
      <4>2. TakeRetired \/ Bind \/ Open => control'.at \in Claims /\ control'.sink = control.sink
        BY DEF TakeRetired, Bind, Open, PoolInv, PoolTypeOK
      <4>3. TakeFree => control' = Advance \/ (control'.at \in Claims /\ control'.sink = control.sink)
        BY DEF TakeFree, PoolInv, PoolTypeOK
      <4>. QED  BY <2>2, <4>1, <4>2, <4>3 DEF ClaimStep
    <3>2. control'.at \in Claims => control'.sink = control.sink
      BY <3>1, AdvanceType DEF Idle, PoolInv
    <3>3. control'.at \notin Releases
      BY <3>1, AdvanceType DEF Idle, PoolInv
    <3>4. control.at \in Claims
      BY <2>2 DEF ClaimStep, SkipBound, TakeRetired, TakeFree, Bind, Open, Return
    <3>. QED  BY <2>1, <3>2, <3>3, <3>4
  <2>3. CASE ReleaseStep
    <3>1. control.at \in Releases
      BY <2>3 DEF ReleaseStep, Close, Unbind, Released
    <3>2. \/ control'.at \in Releases /\ control'.sink = control.sink
          \/ control'.at = "idle"
      <4>1. ASSUME NEW slot \in Slots, Close(slot)
            PROVE  control'.at \in Releases /\ control'.sink = control.sink
        BY <4>1 DEF Close, PoolInv, PoolTypeOK
      <4>2. Unbind => control'.at \in Releases /\ control'.sink = control.sink
        BY DEF Unbind, PoolInv, PoolTypeOK
      <4>3. Released => control'.at = "idle"
        BY DEF Released, Idle
      <4>. QED  BY <2>3, <4>1, <4>2, <4>3 DEF ReleaseStep
    <3>. QED  BY <2>1, <3>1, <3>2
  <2>. QED  BY <1>1, <2>2, <2>3 DEF PoolStep
<1>2. ASSUME NEW w \in Sinks, CreateBuffers(w) PROVE ControlInCall'
  BY <1>2 DEF CreateBuffers, NoCall, Claim, Idle
<1>3. ASSUME NEW w \in Sinks, TargetRefuses(w) \/ Unwind(w) \/ TargetDisposes(w)
      PROVE  ControlInCall'
  <2>1. /\ api.wrapper = w /\ api'.at \in {"refused", "waiting"} /\ api'.wrapper = api.wrapper
    BY <1>3 DEF TargetRefuses, Unwind, TargetDisposes, At, Goto, TypeOK
  <2>2. control'.at = "close" /\ control'.sink = w
    BY <1>3 DEF TargetRefuses, Unwind, TargetDisposes, Release, Idle
  <2>. QED  BY <2>1, <2>2
<1>4. CASE control.at = "idle" /\ control' = control
  BY <1>4
<1>5. CASE api' = api /\ control' = control
  BY <1>5
<1>6. ASSUME NEW t \in Threads, Trampoline(t) \/ SwitchBuffers(t) \/ \E w \in Sinks : DriverCalls(t, w)
      PROVE  api' = api /\ control' = control
  BY <1>6 DEF Trampoline, SwitchBuffers, DriverCalls, wrapperVars, poolVars, Call, Enter,
              Refuse, LoadSink, Leave
<1>7. ASSUME NEW w \in Sinks,
             \/ NoSlot(w) \/ TargetCreates(w) \/ AfterRefusal(w) \/ ProcessorOpens(w)
             \/ TargetStarts(w) \/ Stopped(w) \/ DisposeStopped(w) \/ Waited(w)
      PROVE  control.at = "idle" /\ control' = control
  BY <1>7 DEF NoSlot, TargetCreates, AfterRefusal, ProcessorOpens, TargetStarts, Stopped,
              DisposeStopped, RefuseSwitches, Waited, Forget, At, poolVars
<1>8. ASSUME NEW w \in Sinks, NEW then,
             InitDriver(w) \/ Start(w) \/ Destroy(w) \/ Stop(w, then) \/ Dispose(w, then)
      PROVE  control.at = "idle" /\ control' = control
  <2>1. api.at = "idle" /\ control' = control
    BY <1>8 DEF InitDriver, Start, Destroy, Stop, Dispose, RefuseSwitches, poolVars
  <2>. QED  BY <2>1 DEF TypeOK, PoolTypeOK
<1>9. UNCHANGED vars => api' = api /\ control' = control
  BY DEF vars, poolVars, wrapperVars
<1>. QED
  BY <1>1, <1>2, <1>3, <1>4, <1>5, <1>6, <1>7, <1>8, <1>9 DEF Next, InCall, NewCall

LEMMA BoundStep ==
  ASSUME TypeOK, PoolInv, CallInv, [Next]_vars
  PROVE  BoundUntilReleased'
<1>. USE DEF CallInv, BoundUntilReleased
<1>1. CASE PoolStep
  <2>. SUFFICES ASSUME NEW w \in Sinks, held'[w] # 0
       PROVE  sinks'[held'[w]] = w \/ (api.at \in {"refused", "waiting"} /\ api.wrapper = w)
    BY <1>1 DEF PoolStep, wrapperVars
  <2>1. CASE sinks' = sinks /\ held' = held
    BY <2>1
  <2>2. CASE Bind
    <3>1. held' = held /\ sinks[held[w]] = w /\ held[w] \in Slots
      BY <2>2 DEF Bind, ClaimState, PoolInv, PoolTypeOK
    <3>2. sinks[control.slot] = NoSink
      BY <2>2 DEF Bind, ClaimedSlot, PoolInv
    <3>. QED  BY <2>2, <3>1, <3>2, TrampolinesAssumption DEF Bind, PoolInv, PoolTypeOK
  <2>3. CASE Return
    <3>1. /\ sinks[control.slot] = control.sink
          /\ held[w] # 0 => sinks[held[w]] = w
      BY <2>3 DEF Return, ClaimedSlot, ClaimState, PoolInv
    <3>. QED  BY <2>3, <3>1 DEF Return, PoolInv, PoolTypeOK
  <2>4. CASE Unbind
    <3>1. /\ held' = held /\ sinks' = [sinks EXCEPT ![control.slot] = NoSink]
          /\ control.sink = api.wrapper /\ api.at \in {"refused", "waiting"}
          /\ sinks[control.slot] = control.sink
      BY <2>4 DEF Unbind, ControlInCall, Releases, ReleasedSlot, PoolInv
    <3>. QED  BY <3>1 DEF PoolInv, PoolTypeOK
  <2>5. (sinks' = sinks /\ held' = held) \/ Bind \/ Return \/ Unbind
    BY <1>1 DEF PoolStep, ClaimStep, SkipBound, TakeRetired, TakeFree, Open, ReleaseStep,
                Close, Released
  <2>. QED  BY <2>1, <2>2, <2>3, <2>4, <2>5
<1>2. ASSUME NEW w \in Sinks, AfterRefusal(w) \/ Waited(w) PROVE BoundUntilReleased'
  <2>1. /\ sinks' = sinks /\ held' = [held EXCEPT ![w] = 0] /\ api.wrapper = w
    BY <1>2 DEF AfterRefusal, Waited, Forget, At
  <2>. QED  BY <2>1 DEF PoolInv, PoolTypeOK
<1>3. CASE /\ sinks' = sinks /\ held' = held
           /\ \/ api.at \notin {"refused", "waiting"}
              \/ api' = api
  BY <1>3
<1>4. ASSUME NEW w \in Sinks, NEW then,
             \/ NoSlot(w) \/ TargetCreates(w) \/ TargetRefuses(w) \/ ProcessorOpens(w)
             \/ Unwind(w) \/ TargetStarts(w) \/ Stopped(w) \/ DisposeStopped(w)
             \/ TargetDisposes(w) \/ InitDriver(w) \/ CreateBuffers(w) \/ Start(w)
             \/ Destroy(w) \/ Stop(w, then) \/ Dispose(w, then)
      PROVE  sinks' = sinks /\ held' = held /\ api.at \notin {"refused", "waiting"}
  BY <1>4 DEF NoSlot, TargetCreates, TargetRefuses, ProcessorOpens, Unwind, TargetStarts,
              Stopped, DisposeStopped, RefuseSwitches, TargetDisposes, InitDriver,
              CreateBuffers, Start, Destroy, Stop, Dispose, Release, Claim, At, poolVars
<1>5. ASSUME NEW t \in Threads, Trampoline(t) \/ SwitchBuffers(t) \/ \E w \in Sinks : DriverCalls(t, w)
      PROVE  sinks' = sinks /\ held' = held /\ api' = api
  BY <1>5 DEF Trampoline, SwitchBuffers, DriverCalls, wrapperVars, poolVars, Call, Enter,
              Refuse, LoadSink, Leave
<1>6. UNCHANGED vars => sinks' = sinks /\ held' = held /\ api' = api
  BY DEF vars, poolVars, wrapperVars
<1>. QED
  BY <1>1, <1>2, <1>3, <1>4, <1>5, <1>6 DEF Next, InCall, NewCall

LEMMA TypeStep ==
  ASSUME TypeOK, CallInv, PoolTypeOK', [Next]_vars
  PROVE  TypeOK'
<1>. SUFFICES /\ state' \in [Sinks -> {"Loaded", "Initialized", "Prepared", "Running", "Destroyed"}]
              /\ target' \in [Sinks -> {"closed", "open", "started"}]
              /\ channels' \in [Sinks -> {"allocated", "freed"}]
              /\ processor' \in [Sinks -> {"open", "closed"}]
              /\ switching' \subseteq Threads
              /\ overdue' \subseteq Threads
              /\ api' \in [at : {"idle", "claiming", "refused", "opening", "starting", "stopping",
                                 "prepared", "disposing", "waiting"},
                           wrapper : Sinks \cup {NoSink},
                           then : {"return", "dispose", "destroy"}]
  BY DEF TypeOK
<1>. USE DEF TypeOK
<1>1. ASSUME NEW w \in Sinks,
             \/ NoSlot(w) \/ AfterRefusal(w) \/ TargetRefuses(w) \/ CreateBuffers(w)
             \/ InitDriver(w) \/ Destroy(w)
      PROVE  TypeOK'
  <2>1. CASE NoSlot(w) \/ AfterRefusal(w)
    BY <2>1 DEF NoSlot, AfterRefusal, NoCall
  <2>2. CASE TargetRefuses(w)
    BY <2>2 DEF TargetRefuses, Goto
  <2>3. CASE CreateBuffers(w)
    BY <2>3 DEF CreateBuffers, NoCall
  <2>4. CASE InitDriver(w) \/ Destroy(w)
    BY <2>4 DEF InitDriver, Destroy
  <2>. QED  BY <1>1, <2>1, <2>2, <2>3, <2>4
<1>2. ASSUME NEW w \in Sinks,
             TargetCreates(w) \/ ProcessorOpens(w) \/ Unwind(w) \/ TargetDisposes(w)
      PROVE  TypeOK'
  BY <1>2 DEF TargetCreates, ProcessorOpens, Unwind, TargetDisposes, NoCall, Goto
<1>3. ASSUME NEW w \in Sinks, Waited(w)
      PROVE  TypeOK'
  BY <1>3 DEF Waited, NoCall, Within, Leases
<1>4. ASSUME NEW w \in Sinks, NEW then \in {"return", "dispose", "destroy"},
             \/ Start(w) \/ TargetStarts(w) \/ Stop(w, then) \/ Stopped(w)
             \/ Dispose(w, then) \/ DisposeStopped(w)
      PROVE  TypeOK'
  <2>1. CASE Start(w)
    BY <2>1 DEF Start, NoCall
  <2>2. CASE TargetStarts(w)
    BY <2>2 DEF TargetStarts, NoCall
  <2>3. CASE Stop(w, then)
    BY <2>3 DEF Stop
  <2>4. CASE Stopped(w)
    BY <2>4 DEF Stopped, NoCall, Goto
  <2>5. CASE Dispose(w, then) \/ DisposeStopped(w)
    BY <2>5 DEF Dispose, DisposeStopped, RefuseSwitches
  <2>. QED  BY <1>4, <2>1, <2>2, <2>3, <2>4, <2>5
<1>5. ASSUME NEW t \in Threads, Trampoline(t) \/ SwitchBuffers(t) \/ \E w \in Sinks : DriverCalls(t, w)
      PROVE  TypeOK'
  BY <1>5 DEF Trampoline, SwitchBuffers, DriverCalls, wrapperVars
<1>6. CASE PoolStep \/ UNCHANGED vars
  BY <1>6 DEF PoolStep, vars, wrapperVars
<1>. QED
  BY <1>1, <1>2, <1>3, <1>4, <1>5, <1>6 DEF Next, InCall, NewCall

LEMMA CallsStep ==
  ASSUME TypeOK, CallInv, [Next]_vars
  PROVE  CallState' /\ WrapperState'
<1>. USE DEF TypeOK, CallInv, CallState, WrapperState
<1>1. ASSUME NEW w \in Sinks, InitDriver(w) \/ Destroy(w)
      PROVE  CallState' /\ WrapperState'
  BY <1>1 DEF InitDriver, Destroy
<1>2. ASSUME NEW w \in Sinks, CreateBuffers(w)
      PROVE  CallState' /\ WrapperState'
  BY <1>2 DEF CreateBuffers, NoCall
<1>3. ASSUME NEW w \in Sinks, NoSlot(w) \/ AfterRefusal(w)
      PROVE  CallState' /\ WrapperState'
  BY <1>3 DEF NoSlot, AfterRefusal, NoCall, At
<1>4. ASSUME NEW w \in Sinks, TargetCreates(w) \/ TargetRefuses(w)
      PROVE  CallState' /\ WrapperState'
  BY <1>4 DEF TargetCreates, TargetRefuses, Goto, At
<1>5. ASSUME NEW w \in Sinks, ProcessorOpens(w) \/ Unwind(w)
      PROVE  CallState' /\ WrapperState'
  BY <1>5 DEF ProcessorOpens, Unwind, Goto, At, NoCall
<1>6. ASSUME NEW w \in Sinks, Start(w) \/ TargetStarts(w)
      PROVE  CallState' /\ WrapperState'
  <2>1. CASE Start(w)
    BY <2>1 DEF Start, NoCall
  <2>2. CASE TargetStarts(w)
    BY <2>2 DEF TargetStarts, At, NoCall
  <2>. QED  BY <1>6, <2>1, <2>2
<1>7. ASSUME NEW w \in Sinks, NEW then \in {"return", "dispose", "destroy"}, Stop(w, then) \/ Stopped(w)
      PROVE  CallState' /\ WrapperState'
  BY <1>7 DEF Stop, Stopped, Goto, At, NoCall
<1>8. ASSUME NEW w \in Sinks, NEW then \in {"dispose", "destroy"}, Dispose(w, then) \/ DisposeStopped(w)
      PROVE  CallState' /\ WrapperState'
  BY <1>8 DEF Dispose, DisposeStopped, RefuseSwitches, At
<1>9. ASSUME NEW w \in Sinks, TargetDisposes(w) \/ Waited(w)
      PROVE  CallState' /\ WrapperState'
  BY <1>9 DEF TargetDisposes, Waited, Goto, At, NoCall
<1>10. ASSUME UNCHANGED <<state, target, channels, processor, api>>
       PROVE  CallState' /\ WrapperState'
  BY <1>10
<1>11. ASSUME NEW t \in Threads, Trampoline(t) \/ SwitchBuffers(t) \/ \E w \in Sinks : DriverCalls(t, w)
       PROVE  UNCHANGED <<state, target, channels, processor, api>>
  BY <1>11 DEF Trampoline, SwitchBuffers, DriverCalls, wrapperVars
<1>12. PoolStep \/ UNCHANGED vars => UNCHANGED <<state, target, channels, processor, api>>
  BY DEF PoolStep, vars, wrapperVars
<1>. QED
  BY <1>1, <1>2, <1>3, <1>4, <1>5, <1>6, <1>7, <1>8, <1>9, <1>10, <1>11, <1>12
  DEF Next, InCall, NewCall

-----------------------------------------------------------------------------
(* The driver threads.                                                     *)

\* Which steps touch what the invariant says of the threads: the others
\* leave the threads and the sets alone.
LEMMA ThreadsSee ==
  ASSUME [Next]_vars
  PROVE  \/ UNCHANGED <<lease, held, switching, overdue>>
         \/ PoolStep /\ Return
         \/ \E w \in Sinks : AfterRefusal(w) \/ Waited(w)
         \/ \E t \in Threads, w \in Sinks : DriverCalls(t, w)
         \/ \E t \in Threads : Trampoline(t) \/ SwitchBuffers(t)
<1>1. PoolStep => UNCHANGED <<lease, held, switching, overdue>> \/ (PoolStep /\ Return)
  BY DEF PoolStep, wrapperVars, ClaimStep, SkipBound, TakeRetired, TakeFree, Bind, Open,
         ReleaseStep, Close, Unbind, Released
<1>2. ASSUME NEW w \in Sinks, NEW then,
             \/ NoSlot(w) \/ TargetCreates(w) \/ TargetRefuses(w) \/ ProcessorOpens(w)
             \/ Unwind(w) \/ TargetStarts(w) \/ Stopped(w) \/ DisposeStopped(w)
             \/ TargetDisposes(w) \/ InitDriver(w) \/ CreateBuffers(w) \/ Start(w)
             \/ Destroy(w) \/ Stop(w, then) \/ Dispose(w, then)
      PROVE  UNCHANGED <<lease, held, switching, overdue>>
  BY <1>2 DEF NoSlot, TargetCreates, TargetRefuses, ProcessorOpens, Unwind, TargetStarts,
              Stopped, DisposeStopped, RefuseSwitches, TargetDisposes, InitDriver,
              CreateBuffers, Start, Destroy, Stop, Dispose, Release, Claim, poolVars
<1>3. UNCHANGED vars => UNCHANGED <<lease, held, switching, overdue>>
  BY DEF vars, poolVars, wrapperVars
<1>. QED  BY <1>1, <1>2, <1>3 DEF Next, InCall, NewCall

\* How a trampoline step moves its thread, and only its thread.
LEMMA TrampolineMoves ==
  ASSUME TypeOK, NEW t \in Threads, Trampoline(t)
  PROVE  /\ \A u \in Threads : u # t => lease'[u] = lease[u]
         /\ held' = held /\ api' = api
         /\ lease'[t].at = "out" =>
              switching' = switching \ {t} /\ overdue' = overdue \ {t}
         /\ lease'[t].at # "out" =>
              /\ UNCHANGED <<switching, overdue>>
              /\ lease'[t].slot = lease[t].slot /\ lease'[t].caller = lease[t].caller
              /\ Enter(t) \/ LoadSink(t)
<1>1. lease'[t].at # "out" => Enter(t) \/ LoadSink(t)
  BY DEF Trampoline, Refuse, Leave, Outside, TypeOK, PoolTypeOK
<1>2. /\ held' = held /\ api' = api
      /\ \A u \in Threads : u # t => lease'[u] = lease[u]
  BY DEF Trampoline, Enter, LoadSink, Refuse, Leave, TypeOK, PoolTypeOK
<1>3. Enter(t) \/ LoadSink(t) =>
        lease'[t].slot = lease[t].slot /\ lease'[t].caller = lease[t].caller
  BY DEF Enter, LoadSink, TypeOK, PoolTypeOK
<1>. QED  BY <1>1, <1>2, <1>3 DEF Trampoline

\* A thread that is let in finds its wrapper still holding the set.
LEMMA LetInIsHeld ==
  ASSUME PoolInv, GateInv, NEW t \in Threads, Enter(t), lease'[t].at = "entered"
  PROVE  lease[t].caller \in Sinks /\ held[lease[t].caller] = lease[t].slot
<1>1. lease[t].at = "called" /\ ~Closed(gates[lease[t].slot])
  BY DEF Enter, PoolInv, PoolTypeOK
<1>. QED  BY <1>1 DEF GateInv, CalledSlot

\* Who is within the slot a wait ends for has left it, or is overdue.
LEMMA WaitedFor ==
  ASSUME TypeOK, PoolInv, NEW w \in Sinks, Waited(w)
  PROVE  /\ held' = [held EXCEPT ![w] = 0] /\ held[w] # 0 /\ lease' = lease
         /\ overdue \subseteq overdue' /\ overdue' \subseteq overdue \cup Within(held[w])
         /\ switching' = switching /\ api'.at = "idle"
         /\ \A t \in Threads \ overdue' :
              lease[t].at \in {"entered", "inside"} => lease[t].slot # held[w]
<1>1. /\ held' = [held EXCEPT ![w] = 0] /\ held[w] # 0 /\ lease' = lease
      /\ switching' = switching /\ api'.at = "idle" /\ control.at = "idle"
      /\ overdue' = IF Drained(w) THEN overdue ELSE overdue \cup Within(held[w])
  BY DEF Waited, Forget, NoCall
<1>2. held[w] \in Slots
  BY <1>1 DEF TypeOK, PoolTypeOK
<1>3. Drained(w) => Within(held[w]) = {}
  <2>1. ~Claiming(held[w])
    BY <1>1 DEF Claiming
  <2>2. Drained(w) => Cardinality(Leases(held[w])) = 0
    <3>1. Cardinality(Leases(held[w])) \in Nat
      BY LeasesBounded
    <3>. QED  BY <2>1, <1>2, <3>1 DEF Drained, PoolInv, CountsLeases
  <2>. QED  BY <2>2, LeasesBounded DEF Within
<1>4. Within(held[w]) \subseteq overdue'
  BY <1>1, <1>3
<1>. QED  BY <1>1, <1>4 DEF Within, Leases

LEMMA WithinStep ==
  ASSUME TypeOK, PoolInv, GateInv, CallInv, ThreadInv, [Next]_vars
  PROVE  WithinItsSlot'
<1>. USE DEF ThreadInv, WithinItsSlot
<1>1. CASE UNCHANGED <<lease, held, switching, overdue>>
  BY <1>1
<1>2. CASE PoolStep /\ Return
  <2>1. /\ lease' = lease /\ overdue' = overdue
        /\ held' = [held EXCEPT ![control.sink] = control.slot] /\ held[control.sink] = 0
    BY <1>2 DEF PoolStep, wrapperVars, Return, PoolInv, ClaimState
  <2>2. \A t \in Threads : lease[t].slot # 0
    BY Numbers DEF PoolInv, PoolTypeOK
  <2>. QED  BY <2>1, <2>2 DEF PoolInv, PoolTypeOK
<1>3. ASSUME NEW w \in Sinks, AfterRefusal(w)
      PROVE  WithinItsSlot'
  <2>1. /\ lease' = lease /\ overdue' = overdue /\ held' = [held EXCEPT ![w] = 0]
        /\ api.at = "refused" /\ api.wrapper = w
    BY <1>3 DEF AfterRefusal, Forget, At
  <2>. QED  BY <2>1 DEF NobodyInTheNewSet, PoolInv, PoolTypeOK
<1>4. ASSUME NEW w \in Sinks, Waited(w)
      PROVE  WithinItsSlot'
  BY <1>4, WaitedFor DEF PoolInv, PoolTypeOK
<1>5. ASSUME NEW t \in Threads, NEW w \in Sinks, DriverCalls(t, w)
      PROVE  WithinItsSlot'
  BY <1>5 DEF DriverCalls, Call, wrapperVars, PoolInv, PoolTypeOK
<1>6. ASSUME NEW t \in Threads, Trampoline(t)
      PROVE  WithinItsSlot'
  <2>. SUFFICES ASSUME NEW u \in Threads \ overdue', lease'[u].at \in {"entered", "inside"}
       PROVE  lease'[u].caller \in Sinks /\ held'[lease'[u].caller] = lease'[u].slot
    OBVIOUS
  <2>1. CASE u # t
    BY <1>6, <2>1, TrampolineMoves
  <2>2. CASE u = t
    <3>1. /\ lease'[t].slot = lease[t].slot /\ lease'[t].caller = lease[t].caller
          /\ held' = held /\ overdue' = overdue
          /\ Enter(t) \/ LoadSink(t)
      BY <1>6, <2>2, TrampolineMoves
    <3>2. CASE LoadSink(t)
      BY <2>2, <3>1, <3>2 DEF LoadSink
    <3>3. CASE Enter(t)
      <4>1. lease'[t].at = "entered"
        BY <2>2, <3>3 DEF Enter, PoolInv, PoolTypeOK
      <4>. QED  BY <2>2, <3>1, <3>3, <4>1, LetInIsHeld
    <3>. QED  BY <3>1, <3>2, <3>3
  <2>. QED  BY <2>1, <2>2
<1>7. ASSUME NEW t \in Threads, SwitchBuffers(t)
      PROVE  WithinItsSlot'
  BY <1>7 DEF SwitchBuffers, poolVars
<1>. QED  BY <1>1, <1>2, <1>3, <1>4, <1>5, <1>6, <1>7, ThreadsSee

LEMMA SwitchersStep ==
  ASSUME TypeOK, PoolInv, ThreadInv, [Next]_vars
  PROVE  SwitchersAreInside'
<1>. USE DEF ThreadInv, SwitchersAreInside
<1>1. CASE UNCHANGED <<lease, held, switching, overdue>> \/ (PoolStep /\ Return)
  BY <1>1 DEF PoolStep, wrapperVars, Return
<1>2. ASSUME NEW w \in Sinks, AfterRefusal(w)
      PROVE  SwitchersAreInside'
  BY <1>2 DEF AfterRefusal, Forget
<1>3. ASSUME NEW w \in Sinks, Waited(w)
      PROVE  SwitchersAreInside'
  <2>1. \A t \in Within(held[w]) : lease[t].at \in {"entered", "inside"}
    BY DEF Within, Leases
  <2>. QED  BY <1>3, <2>1, WaitedFor
<1>4. ASSUME NEW t \in Threads, NEW w \in Sinks, DriverCalls(t, w)
      PROVE  SwitchersAreInside'
  <2>1. lease[t].at = "out" /\ switching' = switching /\ overdue' = overdue
    BY <1>4 DEF DriverCalls, Call, wrapperVars
  <2>2. \A u \in Threads : u # t => lease'[u] = lease[u]
    BY <1>4 DEF DriverCalls, Call, TypeOK, PoolTypeOK
  <2>. QED  BY <2>1, <2>2 DEF TypeOK
<1>5. ASSUME NEW t \in Threads, Trampoline(t)
      PROVE  SwitchersAreInside'
  <2>1. CASE lease'[t].at = "out"
    BY <1>5, <2>1, TrampolineMoves DEF TypeOK
  <2>2. CASE lease'[t].at # "out"
    <3>1. UNCHANGED <<switching, overdue>> /\ (Enter(t) \/ LoadSink(t))
      BY <1>5, <2>2, TrampolineMoves
    <3>2. CASE Enter(t)
      <4>1. lease[t].at = "called"
        BY <3>2 DEF Enter
      <4>. QED  BY <1>5, <3>1, <4>1, TrampolineMoves DEF TypeOK
    <3>3. CASE LoadSink(t)
      <4>1. lease[t].at = "entered" /\ lease'[t].at = "inside"
        BY <3>3 DEF LoadSink, TypeOK, PoolTypeOK
      <4>. QED  BY <1>5, <3>1, <4>1, TrampolineMoves DEF TypeOK
    <3>. QED  BY <3>1, <3>2, <3>3
  <2>. QED  BY <2>1, <2>2
<1>6. ASSUME NEW t \in Threads, SwitchBuffers(t)
      PROVE  SwitchersAreInside'
  BY <1>6 DEF SwitchBuffers, poolVars
<1>. QED  BY <1>1, <1>2, <1>3, <1>4, <1>5, <1>6, ThreadsSee

LEMMA NobodyStep ==
  ASSUME TypeOK, PoolInv, CallInv, ThreadInv, [Next]_vars
  PROVE  NobodyInTheNewSet'
<1>. USE DEF ThreadInv, NobodyInTheNewSet
<1>1. CASE UNCHANGED <<lease, held, switching, overdue>>
  <2>1. CASE api'.at \in {"claiming", "refused"} => api.at = "claiming" /\ api'.wrapper = api.wrapper
    BY <1>1, <2>1
  <2>2. CASE api' = api
    BY <1>1, <2>2
  <2>3. ASSUME NEW w \in Sinks, CreateBuffers(w) PROVE NobodyInTheNewSet'
    <3>1. held[w] = 0 /\ api'.wrapper = w
      BY <2>3 DEF CreateBuffers, Claim, NoCall
    <3>2. \A t \in Threads : lease[t].slot # 0
      BY Numbers DEF PoolInv, PoolTypeOK
    <3>. QED  BY <1>1, <3>1, <3>2
  <2>4. ASSUME NEW w \in Sinks, NEW then,
               \/ NoSlot(w) \/ TargetCreates(w) \/ ProcessorOpens(w) \/ Unwind(w)
               \/ TargetStarts(w) \/ Stopped(w) \/ DisposeStopped(w) \/ TargetDisposes(w)
               \/ AfterRefusal(w) \/ Waited(w) \/ Start(w) \/ Stop(w, then) \/ Dispose(w, then)
        PROVE  api'.at \notin {"claiming", "refused"}
    <3>1. CASE TargetCreates(w) \/ Unwind(w) \/ Stopped(w) \/ TargetDisposes(w)
      BY <3>1 DEF TargetCreates, Unwind, Stopped, TargetDisposes, Goto, NoCall, TypeOK
    <3>2. CASE \/ NoSlot(w) \/ ProcessorOpens(w) \/ TargetStarts(w) \/ AfterRefusal(w)
               \/ Waited(w) \/ Start(w)
      <4>1. api' = NoCall \/ api' = [NoCall EXCEPT !.at = "starting", !.wrapper = w]
        BY <3>2 DEF NoSlot, ProcessorOpens, TargetStarts, AfterRefusal, Waited, Start
      <4>2. NoCall.at = "idle" /\ [NoCall EXCEPT !.at = "starting", !.wrapper = w].at = "starting"
        BY DEF NoCall
      <4>. QED  BY <4>1, <4>2
    <3>3. CASE DisposeStopped(w) \/ Stop(w, then) \/ Dispose(w, then)
      BY <3>3 DEF DisposeStopped, RefuseSwitches, Stop, Dispose
    <3>. QED  BY <2>4, <3>1, <3>2, <3>3
  <2>5. ASSUME NEW w \in Sinks, TargetRefuses(w)
        PROVE  api.at = "claiming" /\ api'.wrapper = api.wrapper
    BY <2>5 DEF TargetRefuses, At, Goto, TypeOK
  <2>6. ASSUME \/ PoolStep \/ UNCHANGED vars
               \/ \E w \in Sinks : InitDriver(w) \/ Destroy(w)
               \/ \E t \in Threads, w \in Sinks : DriverCalls(t, w)
               \/ \E t \in Threads : Trampoline(t) \/ SwitchBuffers(t)
        PROVE  api' = api
    BY <2>6 DEF PoolStep, vars, wrapperVars, InitDriver, Destroy, DriverCalls, Trampoline,
                SwitchBuffers
  <2>. QED  BY <2>1, <2>2, <2>3, <2>4, <2>5, <2>6 DEF Next, InCall, NewCall
<1>2. CASE PoolStep /\ Return
  <2>1. PICK s \in Slots, w \in Sinks : s = control.slot /\ w = control.sink
    BY <1>2 DEF Return, PoolInv, ClaimState, PoolTypeOK
  <2>2. /\ lease' = lease /\ overdue' = overdue /\ api' = api
        /\ held' = [held EXCEPT ![w] = s] /\ api.wrapper = w
    BY <1>2, <2>1 DEF PoolStep, wrapperVars, Return, CallInv, ControlInCall, Claims
  <2>3. AllArrived(s) /\ Leases(s) = {}
    BY <1>2, <2>1 DEF Return, PoolInv, ClaimedSlot
  <2>4. \A t \in Threads :
          lease[t].at \in {"called", "entered", "inside"} => lease[t].slot # s
    BY <2>3 DEF AllArrived, Leases
  <2>5. held'[api'.wrapper] = s
    BY <2>2 DEF PoolInv, PoolTypeOK
  <2>. QED  BY <2>2, <2>4, <2>5
<1>3. ASSUME NEW w \in Sinks, AfterRefusal(w) \/ Waited(w)
      PROVE  NobodyInTheNewSet'
  BY <1>3 DEF AfterRefusal, Waited, NoCall
<1>4. ASSUME NEW t \in Threads, NEW w \in Sinks, DriverCalls(t, w)
      PROVE  NobodyInTheNewSet'
  <2>1. api' = api /\ held' = held /\ overdue' = overdue /\ target[w] # "closed"
    BY <1>4 DEF DriverCalls, Call, wrapperVars
  <2>2. lease'[t].caller = w /\ \A u \in Threads : u # t => lease'[u] = lease[u]
    BY <1>4 DEF DriverCalls, Call, TypeOK, PoolTypeOK
  <2>3. api.at \in {"claiming", "refused"} => api.wrapper # w
    BY <2>1 DEF CallInv, CallState, WrapperState
  <2>. QED  BY <2>1, <2>2, <2>3
<1>5. ASSUME NEW t \in Threads, Trampoline(t)
      PROVE  NobodyInTheNewSet'
  <2>1. CASE lease'[t].at = "out"
    BY <1>5, <2>1, TrampolineMoves
  <2>2. CASE lease'[t].at # "out"
    <3>1. /\ held' = held /\ api' = api /\ overdue' = overdue
          /\ lease'[t].slot = lease[t].slot /\ lease'[t].caller = lease[t].caller
          /\ \A u \in Threads : u # t => lease'[u] = lease[u]
          /\ lease[t].at \in {"called", "entered"}
      BY <1>5, <2>2, TrampolineMoves DEF Enter, LoadSink
    <3>. QED  BY <3>1
  <2>. QED  BY <2>1, <2>2
<1>6. ASSUME NEW t \in Threads, SwitchBuffers(t)
      PROVE  NobodyInTheNewSet'
  BY <1>6 DEF SwitchBuffers, poolVars
<1>. QED  BY <1>1, <1>2, <1>3, <1>4, <1>5, <1>6, ThreadsSee

-----------------------------------------------------------------------------
(* The buffers.                                                            *)

\* Whose buffers a switch works with: those of the wrapper that holds the set.
LEMMA SwitchersWrapper ==
  ASSUME TypeOK, PoolInv, ThreadInv, NEW t \in switching \ overdue
  PROVE  /\ t \in Threads /\ lease[t].at = "inside"
         /\ lease[t].sink \in Sinks /\ lease[t].caller = lease[t].sink
         /\ held[lease[t].sink] = lease[t].slot
<1>1. t \in Threads /\ lease[t].at = "inside" /\ lease[t].sink # NoSink
  BY DEF TypeOK, ThreadInv, SwitchersAreInside
<1>2. lease[t].sink = lease[t].caller
  BY <1>1 DEF PoolInv, CallersSlot
<1>. QED  BY <1>1, <1>2 DEF ThreadInv, WithinItsSlot

\* Freeing and closing happen in the steps that end a call.
LEMMA Taken ==
  ASSUME TypeOK, [Next]_vars, NEW w \in Sinks,
         channels[w] = "allocated", processor[w] = "open",
         ~(channels'[w] = "allocated" /\ processor'[w] = "open")
  PROVE  NoSlot(w) \/ AfterRefusal(w) \/ Waited(w)
<1>. USE DEF TypeOK
<1>1. ASSUME NEW v \in Sinks, NoSlot(v) \/ AfterRefusal(v) \/ Waited(v) PROVE v = w
  BY <1>1 DEF NoSlot, AfterRefusal, Waited
<1>2. ASSUME NEW v \in Sinks, CreateBuffers(v) \/ ProcessorOpens(v) PROVE FALSE
  BY <1>2 DEF CreateBuffers, ProcessorOpens
<1>3. ASSUME NEW v \in Sinks, NEW then,
             \/ TargetCreates(v) \/ TargetRefuses(v) \/ Unwind(v) \/ TargetStarts(v)
             \/ Stopped(v) \/ DisposeStopped(v) \/ TargetDisposes(v) \/ InitDriver(v)
             \/ Start(v) \/ Destroy(v) \/ Stop(v, then) \/ Dispose(v, then)
      PROVE  FALSE
  BY <1>3 DEF TargetCreates, TargetRefuses, Unwind, TargetStarts, Stopped, DisposeStopped,
              RefuseSwitches, TargetDisposes, InitDriver, Start, Destroy, Stop, Dispose
<1>4. ASSUME \/ PoolStep \/ UNCHANGED vars
             \/ \E t \in Threads, v \in Sinks : DriverCalls(t, v)
             \/ \E t \in Threads : Trampoline(t) \/ SwitchBuffers(t)
      PROVE  FALSE
  BY <1>4 DEF PoolStep, vars, wrapperVars, DriverCalls, Trampoline, SwitchBuffers
<1>. QED  BY <1>1, <1>2, <1>3, <1>4 DEF Next, InCall, NewCall

LEMMA KeepsStep ==
  ASSUME TypeOK, PoolInv, CallInv, ThreadInv, SwitchKeepsItsBuffers, [Next]_vars,
         TypeOK', PoolInv', ThreadInv'
  PROVE  SwitchKeepsItsBuffers'
<1>. SUFFICES ASSUME NEW t \in switching' \ overdue'
     PROVE  channels'[lease'[t].sink] = "allocated" /\ processor'[lease'[t].sink] = "open"
  BY DEF SwitchKeepsItsBuffers
<1>1. CASE t \in switching /\ t \notin overdue /\ lease'[t] = lease[t]
  <2>1. PICK w \in Sinks : w = lease[t].sink
    BY <1>1, SwitchersWrapper
  <2>2. /\ channels[w] = "allocated" /\ processor[w] = "open"
        /\ lease[t].at = "inside" /\ lease[t].caller = w /\ held[w] = lease[t].slot
        /\ t \in Threads
    BY <1>1, <2>1, SwitchersWrapper DEF SwitchKeepsItsBuffers
  <2>3. ~NoSlot(w)
    <3>1. held[w] # 0
      BY <2>2, Numbers DEF PoolInv, PoolTypeOK
    <3>. QED  BY <3>1 DEF NoSlot
  <2>4. ~AfterRefusal(w)
    BY <1>1, <2>2 DEF AfterRefusal, At, ThreadInv, NobodyInTheNewSet
  <2>5. ~Waited(w)
    BY <2>2, WaitedFor
  <2>. QED  BY <1>1, <2>1, <2>2, <2>3, <2>4, <2>5, Taken
<1>2. CASE SwitchBuffers(t) /\ t \in Threads
  <2>1. PICK w \in Sinks : w = lease[t].sink
    BY <1>2 DEF SwitchBuffers, TypeOK, PoolTypeOK
  <2>2. state[w] = "Running" /\ UNCHANGED <<lease, channels, processor>>
    BY <1>2, <2>1 DEF SwitchBuffers, poolVars
  <2>. QED  BY <2>1, <2>2 DEF CallInv, WrapperState
<1>3. (t \in switching /\ t \notin overdue /\ lease'[t] = lease[t]) \/ (SwitchBuffers(t) /\ t \in Threads)
  <2>1. t \in Threads /\ t \in switching' /\ t \notin overdue' /\ lease'[t].at = "inside"
    BY DEF TypeOK, ThreadInv, SwitchersAreInside
  <2>2. CASE UNCHANGED <<lease, held, switching, overdue>> \/ (PoolStep /\ Return)
    BY <2>1, <2>2 DEF PoolStep, wrapperVars, Return
  <2>3. ASSUME NEW w \in Sinks, AfterRefusal(w) \/ Waited(w)
        PROVE  t \in switching /\ t \notin overdue /\ lease'[t] = lease[t]
    <3>1. AfterRefusal(w) => switching' = switching /\ overdue' = overdue /\ lease' = lease
      BY DEF AfterRefusal, Forget
    <3>. QED  BY <2>1, <2>3, <3>1, WaitedFor
  <2>4. ASSUME NEW u \in Threads, NEW w \in Sinks, DriverCalls(u, w)
        PROVE  t \in switching /\ t \notin overdue /\ lease'[t] = lease[t]
    BY <2>1, <2>4 DEF DriverCalls, Call, wrapperVars, TypeOK, PoolTypeOK
  <2>5. ASSUME NEW u \in Threads, Trampoline(u)
        PROVE  t \in switching /\ t \notin overdue /\ lease'[t] = lease[t]
    <3>1. CASE u # t
      BY <2>1, <2>5, <3>1, TrampolineMoves
    <3>2. CASE u = t
      <4>1. t \in switching /\ t \notin overdue /\ (Enter(t) \/ LoadSink(t))
        BY <2>1, <2>5, <3>2, TrampolineMoves
      <4>2. lease[t].at = "inside"
        BY <4>1 DEF ThreadInv, SwitchersAreInside
      <4>. QED  BY <4>1, <4>2 DEF Enter, LoadSink
    <3>. QED  BY <3>1, <3>2
  <2>6. ASSUME NEW u \in Threads, SwitchBuffers(u), u # t
        PROVE  t \in switching /\ t \notin overdue /\ lease'[t] = lease[t]
    BY <2>1, <2>6 DEF SwitchBuffers, poolVars
  <2>. QED  BY <2>1, <2>2, <2>3, <2>4, <2>5, <2>6, ThreadsSee
<1>. QED  BY <1>1, <1>2, <1>3

-----------------------------------------------------------------------------
(* The inductive invariant.                                                *)

LEMMA WrapperInvNext == NoStall /\ WrapperInv /\ [Next]_vars => WrapperInv'
<1>. SUFFICES ASSUME NoStall, WrapperInv, [Next]_vars PROVE WrapperInv'
  OBVIOUS
<1>. USE DEF WrapperInv
<1>1. PoolInv' /\ GateInv'
  BY PoolInvStep
<1>2. TypeOK'
  BY <1>1, TypeStep DEF PoolInv
<1>3. CallInv'
  BY ControlStep, BoundStep, CallsStep DEF CallInv
<1>4. ThreadInv'
  BY WithinStep, SwitchersStep, NobodyStep DEF ThreadInv
<1>5. SwitchKeepsItsBuffers'
  BY <1>1, <1>2, <1>4, KeepsStep
<1>. QED  BY <1>1, <1>2, <1>3, <1>4, <1>5

(* The invariant behind the wrappers: while calls reach the gate in time,  *)
(* it holds in every reachable state.                                      *)
THEOREM WrapperInvariant == ASSUME NoStall PROVE Spec => []WrapperInv
<1>1. WrapperInv /\ [Next]_vars => WrapperInv'
  BY WrapperInvNext
<1>. QED  BY WrapperInvInit, <1>1, PTL DEF Spec

(* Every wrapper keeps its state, its call and its buffers in their types. *)
THEOREM WrapperTypeCorrect == ASSUME NoStall PROVE Spec => []TypeOK
<1>1. WrapperInv => TypeOK
  BY DEF WrapperInv
<1>. QED  BY WrapperInvariant, <1>1, PTL

(* No callback in switchBuffers loses the buffers or the processor it      *)
(* works with, unless it has outlasted the whole wait of a disposeBuffers  *)
(* (AsioWrapper.cpp, disposeBuffers and the error paths of createBuffers). *)
THEOREM BuffersStay == ASSUME NoStall PROVE Spec => []SwitchKeepsItsBuffers
<1>1. WrapperInv => SwitchKeepsItsBuffers
  BY DEF WrapperInv
<1>. QED  BY WrapperInvariant, <1>1, PTL

(* The wrappers use the pool as the pool must be used: a set is released   *)
(* by its holder and once, claimed by a wrapper that has none, and         *)
(* forgotten only after its release.                                       *)
THEOREM WrappersUseThePool == ASSUME NoStall PROVE Spec => UsesPool
<1>1. Init => PoolInit
  BY DEF Init
<1>2. WrapperInv /\ [Next]_vars => [PoolNext]_poolVars
  <2>. SUFFICES ASSUME WrapperInv, [Next]_vars PROVE PoolNext \/ UNCHANGED poolVars
    OBVIOUS
  <2>1. CASE Next
    BY <2>1, StepIsPool DEF WrapperInv
  <2>2. CASE UNCHANGED vars
    BY <2>2 DEF vars
  <2>. QED  BY <2>1, <2>2
<1>. QED  BY WrapperInvariant, <1>1, <1>2, PTL DEF Spec, UsesPool, PoolSpec

(* So release tells a wrapper the truth: when it returns true, no callback *)
(* is inside the slot.                                                     *)
THEOREM WrapperMayFree == ASSUME NoStall PROVE Spec => []ReleaseTellsTruth
<1>. QED  BY WrappersUseThePool, ReleaseIsRight, PTL DEF UsesPool

(* A callback reaches the wrapper whose driver called, or nobody, however  *)
(* many wrappers of the process create and dispose buffers meanwhile.      *)
THEOREM NoWrapperGetsAnothersCalls == ASSUME NoStall PROVE Spec => []ReachesItsWrapper
<1>. QED  BY WrappersUseThePool, CallbacksReachTheirWrapper, PTL DEF UsesPool

(* A wrapper gets a slot only when no callback is inside it.               *)
THEOREM WrapperGetsAnEmptySlot == ASSUME NoStall PROVE Spec => ReusedOnlyWhenEmpty
<1>. QED  BY WrappersUseThePool, NeverReusedUnderACallback, PTL DEF UsesPool
=============================================================================
