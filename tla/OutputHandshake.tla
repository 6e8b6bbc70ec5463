--------------------------- MODULE OutputHandshake ---------------------------
(***************************************************************************)
(* Who commits a period's output: AsioWrapper::switchBuffers, on the       *)
(* target driver's thread, once the DAW's callback has returned, or        *)
(* AsioWrapper::outputReady, when the DAW says so itself, from inside its  *)
(* callback or later from a thread of its own.                             *)
(*                                                                         *)
(* A period is a number; a buffer holds the number of the period whose     *)
(* output was written to it last.  Samples and the input are left out.     *)
(***************************************************************************)
EXTENDS Integers, Sequences

CONSTANTS
  Habits,     \* the ways a DAW may deliver its output
  MaxPeriods  \* bound: periods that are switched

ASSUME HandshakeAssumption ==
  /\ Habits \subseteq {"returns", "announces", "announces later"}
  /\ Habits # {}
  /\ MaxPeriods \in Nat

Halves == {0, 1}

None == -1

VARIABLES
  habit,        \* how this DAW delivers
  state,        \* AsioWrapper::state_
  usesReady,    \* hostUsesOutputReady_
  pending,      \* pendingOutputIndex_
  hostOut,      \* the DAW's output buffers
  targetOut,    \* the target's output buffers
  switch,       \* the target's thread in switchBuffers
  ready,        \* the call of outputReady that is under way
  job,          \* the half that the DAW's own thread has yet to fill
  period        \* the number of the period that was switched last

handshake == <<habit, state, usesReady, pending, hostOut, targetOut, switch, ready, job, period>>

NoSwitch == [at |-> "none", half |-> 0]
NotReady == [at |-> "away", by |-> "daw", half |-> 0]
NoJob    == [half |-> None, period |-> 0]

HandshakeInit ==
  /\ habit \in Habits
  /\ state = "Initialized"
  /\ usesReady = FALSE
  /\ pending = None
  /\ hostOut = [h \in Halves |-> 0]
  /\ targetOut = [h \in Halves |-> 0]
  /\ switch = NoSwitch
  /\ ready = NotReady
  /\ job = NoJob
  /\ period = 0

-----------------------------------------------------------------------------
(* createBuffers, start and stop, as far as the handshake goes.            *)

Prepare ==
  /\ state' = "Prepared"
  /\ usesReady' = FALSE
  /\ pending' = None
  /\ hostOut' = [h \in Halves |-> 0]
  /\ targetOut' = [h \in Halves |-> 0]
  /\ UNCHANGED <<habit, switch, ready, job, period>>

Run ==
  /\ state' = "Running"
  /\ pending' = None
  /\ UNCHANGED <<habit, usesReady, hostOut, targetOut, switch, ready, job, period>>

Become(s) ==
  /\ state' = s
  /\ UNCHANGED <<habit, usesReady, pending, hostOut, targetOut, switch, ready, job, period>>

-----------------------------------------------------------------------------
(* The buffer switch, on the target's thread.                              *)

\* The DAW is called only while the state says Running.
SwitchBuffers(half) ==
  /\ switch.at = "none"
  /\ IF state = "Running"
       THEN /\ switch' = [at |-> "host", half |-> half]
            /\ pending' = half
            /\ period' = period + 1
       ELSE switch' = [at |-> "done", half |-> half] /\ UNCHANGED <<pending, period>>
  /\ UNCHANGED <<habit, state, usesReady, hostOut, targetOut, ready, job>>

\* The DAW fills its buffer in the callback and leaves the rest to the wrapper.
HostFills ==
  /\ switch.at = "host" /\ habit = "returns"
  /\ hostOut' = [hostOut EXCEPT ![switch.half] = period]
  /\ switch' = [switch EXCEPT !.at = "returned"]
  /\ UNCHANGED <<habit, state, usesReady, pending, targetOut, ready, job, period>>

\* The DAW hands the period to a thread of its own, unless that one is late.
HostPostpones ==
  /\ switch.at = "host" /\ habit = "announces later"
  /\ job' = IF job = NoJob THEN [half |-> switch.half, period |-> period] ELSE job
  /\ switch' = [switch EXCEPT !.at = "returned"]
  /\ UNCHANGED <<habit, state, usesReady, pending, hostOut, targetOut, ready, period>>

\* Mutant: the exchange alone decides.
HostReturnedAlways ==
  /\ switch.at = "returned"
  /\ switch' = [switch EXCEPT !.at = "taking"]
  /\ UNCHANGED <<habit, state, usesReady, pending, hostOut, targetOut, ready, job, period>>

\* Did the DAW ever announce its output?
HostReturned ==
  /\ switch.at = "returned"
  /\ switch' = [switch EXCEPT !.at = IF usesReady THEN "done" ELSE "taking"]
  /\ UNCHANGED <<habit, state, usesReady, pending, hostOut, targetOut, ready, job, period>>

TakeSwitched ==
  /\ switch.at = "taking"
  /\ switch' = [switch EXCEPT !.at = IF pending = switch.half THEN "committing" ELSE "done"]
  /\ pending' = None
  /\ UNCHANGED <<habit, state, usesReady, hostOut, targetOut, ready, job, period>>

CommitSwitched ==
  /\ switch.at = "committing"
  /\ targetOut' = [targetOut EXCEPT ![switch.half] = hostOut[switch.half]]
  /\ switch' = [switch EXCEPT !.at = "done"]
  /\ UNCHANGED <<habit, state, usesReady, pending, hostOut, ready, job, period>>

SwitchStep == HostFills \/ HostPostpones \/ HostReturned \/ TakeSwitched \/ CommitSwitched

-----------------------------------------------------------------------------
(* outputReady.                                                            *)

\* The DAW's last write to its buffer, and the call that announces it: from
\* now on switches do not commit by themselves.
Announce(by, half, number) ==
  /\ hostOut' = [hostOut EXCEPT ![half] = number]
  /\ usesReady' = TRUE
  /\ ready' = [at |-> "taking", by |-> by, half |-> half]
  /\ UNCHANGED <<habit, state, pending, targetOut, period>>

AnnounceInside ==
  /\ switch.at = "host" /\ habit = "announces"
  /\ switch' = [switch EXCEPT !.at = "announcing"]
  /\ Announce("target", switch.half, period)
  /\ UNCHANGED job

AnnounceOutside ==
  /\ job # NoJob /\ ready.at = "away"
  /\ job' = NoJob
  /\ Announce("daw", job.half, job.period)
  /\ UNCHANGED switch

TakeAnnounced ==
  /\ ready.at = "taking"
  /\ ready' = [ready EXCEPT !.at = IF pending # None THEN "taken" ELSE "target",
                            !.half = IF pending # None THEN pending ELSE @]
  /\ pending' = None
  /\ UNCHANGED <<habit, state, usesReady, hostOut, targetOut, switch, job, period>>

\* A stop in between makes the wrapper drop what it has taken.
LookAtState ==
  /\ ready.at = "taken"
  /\ ready' = [ready EXCEPT !.at = IF state = "Running" THEN "committing" ELSE "target"]
  /\ UNCHANGED <<habit, state, usesReady, pending, hostOut, targetOut, switch, job, period>>

CommitAnnounced ==
  /\ ready.at = "committing"
  /\ targetOut' = [targetOut EXCEPT ![ready.half] = hostOut[ready.half]]
  /\ ready' = [ready EXCEPT !.at = "target"]
  /\ UNCHANGED <<habit, state, usesReady, pending, hostOut, switch, job, period>>

ReadyStep == AnnounceInside \/ AnnounceOutside \/ TakeAnnounced \/ LookAtState \/ CommitAnnounced

\* Back from the target's own outputReady.
ReadyReturns ==
  /\ ready.at = "target"
  /\ ready' = NotReady
  /\ switch' = IF ready.by = "target" THEN [switch EXCEPT !.at = "returned"] ELSE switch
  /\ UNCHANGED <<habit, state, usesReady, pending, hostOut, targetOut, job, period>>

HandshakeTypeOK ==
  /\ habit \in Habits
  /\ state \in {"Initialized", "Prepared", "Running"}
  /\ usesReady \in BOOLEAN
  /\ pending \in Halves \cup {None}
  /\ hostOut \in [Halves -> Nat]
  /\ targetOut \in [Halves -> Nat]
  /\ switch \in [at : {"none", "host", "announcing", "returned", "taking", "committing", "done"}, half : Halves]
  /\ ready \in [at : {"away", "taking", "taken", "committing", "target"}, by : {"target", "daw"}, half : Halves]
  /\ job \in [half : Halves, period : Nat] \cup {NoJob}
  /\ period \in Nat

=============================================================================
