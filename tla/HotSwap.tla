------------------------------- MODULE HotSwap -------------------------------
(***************************************************************************)
(* What the configuration handoff of the filter engine promises, without   *)
(* its threads: one configuration is active, at most one successor is      *)
(* queued behind it, a queued successor is replaced by nothing but its own *)
(* promotion or a restart of the engine, and nothing is promoted that was  *)
(* not queued.  ConfigSwap refines this module.                            *)
(***************************************************************************)
CONSTANTS Configs,   \* configurations the engine can own
          Null       \* no configuration

VARIABLES active, queued, playing

vars == <<active, queued, playing>>

Init == active = Null /\ queued = Null /\ ~playing

\* (Re)initialisation or teardown of an engine whose stream is stopped: what
\* was active or queued is dropped.
Restart ==
  /\ ~playing
  /\ active' \in Configs \cup {Null} /\ queued' = Null
  /\ playing' \in BOOLEAN

\* A loaded configuration is queued, and only into an empty place.
Queue(c) == queued = Null /\ queued' = c /\ UNCHANGED <<active, playing>>

\* The queued configuration takes over, in a running stream.
Promote ==
  /\ playing /\ queued # Null
  /\ active' = queued /\ queued' = Null
  /\ UNCHANGED playing

StartStop == playing' = ~playing /\ UNCHANGED <<active, queued>>

Next == Restart \/ (\E c \in Configs : Queue(c)) \/ Promote \/ StartStop

Spec == Init /\ [][Next]_vars
=============================================================================
