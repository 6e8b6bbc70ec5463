-------------------------- MODULE CallbackTrampolines --------------------------
(***************************************************************************)
(* The pool of callback sets that routes a target driver's callbacks,      *)
(* which carry no context pointer, to one wrapper: an array of sinks and   *)
(* an array of gates.  A gate is one word, the closed bit and a count of   *)
(* the callbacks that hold a lease on the slot.                            *)
(*                                                                         *)
(* Driver threads enter and leave at any time; claim and release run on    *)
(* the one control thread, which is the only writer of the sinks.  The     *)
(* loop of release is one step per slot it matches, since a sink is bound  *)
(* to at most one.                                                         *)
(***************************************************************************)
EXTENDS Integers, FiniteSets

CONSTANTS Sinks,       \* the wrappers of the process
          NoSink,      \* nullptr
          SlotCount,   \* CallbackTrampolines::slotCount
          Threads,     \* threads of the target drivers
          Half,        \* closedBit; a gate counts modulo 2 * Half
          StalledCalls \* TRUE: a call may stall before it reaches the gate
                       \* until its slot is claimed again

ASSUME TrampolinesAssumption ==
  /\ NoSink \notin Sinks
  /\ SlotCount \in Nat \ {0}
  /\ IsFiniteSet(Threads)
  /\ Half \in Nat /\ Half > Cardinality(Threads) + 1
  /\ StalledCalls \in BOOLEAN

VARIABLES
  sinks,   \* the wrapper bound to each slot
  gates,   \* the gate of each slot
  lease,   \* where each driver thread stands in a trampoline
  control, \* where the control thread stands in claim or release
  held     \* AsioWrapper::trampolines_, as the number of a slot; 0: nullptr

poolVars == <<sinks, gates, lease, control, held>>

Slots == 1 .. SlotCount
Words == 0 .. 2 * Half - 1

Closed(word) == word >= Half
Entrants(word) == IF Closed(word) THEN word - Half ELSE word
FetchAdd(word) == IF word = 2 * Half - 1 THEN 0 ELSE word + 1
FetchSub(word) == IF word = 0 THEN 2 * Half - 1 ELSE word - 1

Outside == [at |-> "out", slot |-> 1, caller |-> NoSink, sink |-> NoSink]
Idle == [at |-> "idle", sink |-> NoSink, slot |-> 1, drained |-> "yes"]

PoolInit ==
  /\ sinks = [s \in Slots |-> NoSink]
  /\ gates = [s \in Slots |-> 0]
  /\ lease = [t \in Threads |-> Outside]
  /\ control = Idle
  /\ held = [w \in Sinks |-> 0]

-----------------------------------------------------------------------------
(* Driver threads.                                                         *)

\* The driver of wrapper w calls a function of the set it was given.
Call(t, w) ==
  /\ lease[t].at = "out" /\ held[w] # 0
  /\ lease' = [lease EXCEPT ![t] = [at |-> "called", slot |-> held[w],
                                    caller |-> w, sink |-> NoSink]]
  /\ UNCHANGED <<sinks, gates, control, held>>

\* enter: one fetch_add, whose previous value decides.
Enter(t) ==
  LET s == lease[t].slot IN
  /\ lease[t].at = "called"
  /\ gates' = [gates EXCEPT ![s] = FetchAdd(@)]
  /\ lease' = [lease EXCEPT ![t].at = IF Closed(gates[s]) THEN "refused" ELSE "entered"]
  /\ UNCHANGED <<sinks, control, held>>

\* The refused entrant takes its count back and returns to the driver.
Refuse(t) ==
  /\ lease[t].at = "refused"
  /\ gates' = [gates EXCEPT ![lease[t].slot] = FetchSub(@)]
  /\ lease' = [lease EXCEPT ![t] = Outside]
  /\ UNCHANGED <<sinks, control, held>>

\* The trampoline reads its sink, and calls it unless it is null.
LoadSink(t) ==
  /\ lease[t].at = "entered"
  /\ lease' = [lease EXCEPT ![t].at = "inside", ![t].sink = sinks[lease[t].slot]]
  /\ UNCHANGED <<sinks, gates, control, held>>

Leave(t) ==
  /\ lease[t].at = "inside"
  /\ gates' = [gates EXCEPT ![lease[t].slot] = FetchSub(@)]
  /\ lease' = [lease EXCEPT ![t] = Outside]
  /\ UNCHANGED <<sinks, control, held>>

-----------------------------------------------------------------------------
(* claim, slot by slot.                                                    *)

\* Only a wrapper without a set asks for one, and one that waits for its
\* released set to drain keeps the control thread meanwhile.
Claim(w) ==
  /\ control.at = "idle" /\ held[w] = 0
  /\ \A v \in Sinks : held[v] # 0 => sinks[held[v]] = v
  /\ control' = [Idle EXCEPT !.at = "retired", !.sink = w]
  /\ UNCHANGED <<sinks, gates, lease, held>>

\* The next slot; past the last one claim returns nullptr.
Advance == IF control.slot < SlotCount
             THEN [control EXCEPT !.at = "retired", !.slot = @ + 1]
             ELSE Idle

\* No call of an earlier owner's driver is still short of the gate.
AllArrived(s) == \A t \in Threads : lease[t].at = "called" => lease[t].slot # s

\* The slot is bound to a wrapper.
SkipBound ==
  /\ control.at = "retired" /\ sinks[control.slot] # NoSink
  /\ control' = Advance
  /\ UNCHANGED <<sinks, gates, lease, held>>

\* Mutant: any closed slot is taken, entrants or not.
TakeClosed ==
  LET s == control.slot IN
  /\ control.at = "retired" /\ sinks[s] = NoSink
  /\ StalledCalls \/ AllArrived(s)
  /\ IF Closed(gates[s])
       THEN /\ gates' = [gates EXCEPT ![s] = @ + 1]
            /\ control' = [control EXCEPT !.at = "bind"]
       ELSE /\ control' = [control EXCEPT !.at = "free"]
            /\ UNCHANGED gates
  /\ UNCHANGED <<sinks, lease, held>>

\* The first compare-exchange: a retired slot with no entrant.
TakeRetired ==
  LET s == control.slot IN
  /\ control.at = "retired" /\ sinks[s] = NoSink
  /\ StalledCalls \/ AllArrived(s)
  /\ IF gates[s] = Half
       THEN /\ gates' = [gates EXCEPT ![s] = Half + 1]
            /\ control' = [control EXCEPT !.at = "bind"]
       ELSE /\ control' = [control EXCEPT !.at = "free"]
            /\ UNCHANGED gates
  /\ UNCHANGED <<sinks, lease, held>>

\* The second compare-exchange: a slot never claimed.
TakeFree ==
  LET s == control.slot IN
  /\ control.at = "free"
  /\ IF gates[s] = 0
       THEN /\ gates' = [gates EXCEPT ![s] = Half + 1]
            /\ control' = [control EXCEPT !.at = "bind"]
       ELSE /\ control' = Advance
            /\ UNCHANGED gates
  /\ UNCHANGED <<sinks, lease, held>>

\* The sink's compare-exchange, which no other writer can make fail.
Bind ==
  /\ control.at = "bind"
  /\ sinks' = [sinks EXCEPT ![control.slot] = control.sink]
  /\ control' = [control EXCEPT !.at = "open"]
  /\ UNCHANGED <<gates, lease, held>>

\* The gate opens with a plain store of the claim's own count.
Open ==
  /\ control.at = "open"
  /\ gates' = [gates EXCEPT ![control.slot] = 1]
  /\ control' = [control EXCEPT !.at = "return"]
  /\ UNCHANGED <<sinks, lease, held>>

\* The claim gives its count back and returns the callback set.
Return ==
  /\ control.at = "return"
  /\ gates' = [gates EXCEPT ![control.slot] = FetchSub(@)]
  /\ held' = [held EXCEPT ![control.sink] = control.slot]
  /\ control' = Idle
  /\ UNCHANGED <<sinks, lease>>

-----------------------------------------------------------------------------
(* release.                                                                *)

Release(w) ==
  /\ control.at = "idle" /\ held[w] # 0
  /\ control' = [Idle EXCEPT !.at = "close", !.sink = w]
  /\ UNCHANGED <<sinks, gates, lease, held>>

\* Mutant: the closed bit is stored over the count.
CloseByStore(s) ==
  /\ control.at = "close" /\ sinks[s] = control.sink
  /\ gates' = [gates EXCEPT ![s] = Half]
  /\ control' = [control EXCEPT !.at = "unbind", !.slot = s,
                   !.drained = IF Entrants(gates[s]) = 0 THEN @ ELSE "no"]
  /\ UNCHANGED <<sinks, lease, held>>

\* Mutant: the previous word is masked with the wrong half.
CloseMaskingWrong(s) ==
  /\ control.at = "close" /\ sinks[s] = control.sink
  /\ gates' = [gates EXCEPT ![s] = Half + Entrants(@)]
  /\ control' = [control EXCEPT !.at = "unbind", !.slot = s,
                   !.drained = IF Closed(gates[s]) THEN "no" ELSE @]
  /\ UNCHANGED <<sinks, lease, held>>

\* fetch_or of the closed bit in the slot bound to the sink.
Close(s) ==
  /\ control.at = "close" /\ sinks[s] = control.sink
  /\ gates' = [gates EXCEPT ![s] = Half + Entrants(@)]
  /\ control' = [control EXCEPT !.at = "unbind", !.slot = s,
                   !.drained = IF Entrants(gates[s]) = 0 THEN @ ELSE "no"]
  /\ UNCHANGED <<sinks, lease, held>>

Unbind ==
  /\ control.at = "unbind"
  /\ sinks' = [sinks EXCEPT ![control.slot] = NoSink]
  /\ control' = [control EXCEPT !.at = "released"]
  /\ UNCHANGED <<gates, lease, held>>

\* release returns control.drained.
Released ==
  /\ control.at = "released"
  /\ control' = Idle
  /\ UNCHANGED <<sinks, gates, lease, held>>

\* drained: what the caller of release polls.
Drained(w) == Entrants(gates[held[w]]) = 0

\* The caller forgets a released set, drained or given up waiting for.
Forget(w) ==
  /\ control.at = "idle" /\ held[w] # 0 /\ sinks[held[w]] # w
  /\ held' = [held EXCEPT ![w] = 0]
  /\ UNCHANGED <<sinks, gates, lease, control>>

-----------------------------------------------------------------------------
EnterOrLeave(t) == Enter(t) \/ Refuse(t) \/ LoadSink(t) \/ Leave(t)

ClaimStep == SkipBound \/ TakeRetired \/ TakeFree \/ Bind \/ Open \/ Return

ReleaseStep == (\E s \in Slots : Close(s)) \/ Unbind \/ Released

PoolNext ==
  \/ \E t \in Threads, w \in Sinks : Call(t, w)
  \/ \E t \in Threads : EnterOrLeave(t)
  \/ \E w \in Sinks : Claim(w) \/ (Release(w) /\ sinks[held[w]] = w) \/ Forget(w)
  \/ ClaimStep
  \/ ReleaseStep

PoolSpec == PoolInit /\ [][PoolNext]_poolVars

-----------------------------------------------------------------------------
(* Properties.                                                             *)

PoolTypeOK ==
  /\ sinks \in [Slots -> Sinks \cup {NoSink}]
  /\ gates \in [Slots -> Words]
  /\ lease \in [Threads -> [at : {"out", "called", "refused", "entered", "inside"},
                            slot : Slots,
                            caller : Sinks \cup {NoSink},
                            sink : Sinks \cup {NoSink}]]
  /\ control \in [at : {"idle", "retired", "free", "bind", "open", "return",
                        "close", "unbind", "released"},
                  sink : Sinks \cup {NoSink},
                  slot : Slots,
                  drained : {"yes", "no"}]
  /\ held \in [Sinks -> Slots \cup {0}]

\* The threads whose fetch_add on the slot has not been taken back.
Leases(s) ==
  {t \in Threads : lease[t].at \in {"refused", "entered", "inside"} /\ lease[t].slot = s}

\* Those that were let in.
Within(s) == {t \in Leases(s) : lease[t].at # "refused"}

\* The claim holds a count of its own from its compare-exchange to its return.
Claiming(s) == control.at \in {"bind", "open", "return"} /\ control.slot = s

(* A gate's count is the number of callbacks that hold a lease, and the    *)
(* claim's own count while it binds the slot: no store may wipe what an    *)
(* entrant added.                                                          *)
CountsLeases ==
  \A s \in Slots :
    Entrants(gates[s]) = Cardinality(Leases(s)) + (IF Claiming(s) THEN 1 ELSE 0)

(* When release returns true no callback holds a lease on the slot, so the *)
(* caller may free what the callbacks use.                                 *)
ReleaseTellsTruth ==
  control.at = "released" /\ control.drained = "yes" => Within(control.slot) = {}

(* A slot gets a sink only when no callback is inside it: one that stalled *)
(* beyond the wait keeps the slot out of use.                              *)
ReusedOnlyWhenEmpty ==
  [][\A s \in Slots : sinks[s] = NoSink /\ sinks'[s] # NoSink => Within(s) = {}]_poolVars

(* A callback that is let in reaches the wrapper whose driver called, or   *)
(* nobody: never the next owner of the slot.                               *)
ReachesItsWrapper ==
  \A t \in Threads : lease[t].at = "inside" => lease[t].sink \in {NoSink, lease[t].caller}

(* The set that claim returned lets callbacks in until it is released: a   *)
(* gate that stays closed is a stream that never runs.                     *)
OpenWhileHeld ==
  \A w \in Sinks :
    held[w] # 0 /\ sinks[held[w]] = w /\ Closed(gates[held[w]]) =>
      control.at = "unbind" /\ control.slot = held[w]

=============================================================================
