---------------------------- MODULE ConfigWatcher ----------------------------
(***************************************************************************)
(* The engine's configuration watcher: a thread that waits for a change    *)
(* in the configuration directory or in a registry key that the            *)
(* configuration reads, takes the publish permit and loads again.          *)
(*                                                                         *)
(* Somebody edits files and registry values meanwhile.  Their contents are *)
(* left out: an edit is news until a load has had it.  One registry key   *)
(* stands for all; the text says whether it is read.                       *)
(***************************************************************************)
EXTENDS Naturals

CONSTANTS
  CloseSignals,   \* whether closing a key sets the event that waits for it:
                  \* the outcomes a close may have
  MaxEdits,       \* bound: edits of files
  MaxChanges,     \* bound: changes of the registry value
  MaxFaults       \* bound: failures of the system and of loads

ASSUME WatcherAssumption ==
  /\ CloseSignals \subseteq BOOLEAN /\ CloseSignals # {}
  /\ {MaxEdits, MaxChanges, MaxFaults} \subseteq Nat

VARIABLES
  at,             \* where the watcher's thread is
  directory,      \* the engine's configPath: "first", or "second" once initialised again
  watched,        \* watchedDirectory, or "none"
  armed,          \* whether directoryNotification is a handle
  signalled,      \* whether that handle is signalled
  recorded,       \* a change that the system keeps for the next re-arming
  wanted,         \* whether the snapshot has the key
  registered,     \* whether the key is open with a notification under way
  registryEvent,
  permit,         \* the publish permit
  shutdown,
  playing,        \* whether the audio thread still processes blocks
  readsKey,       \* whether the text on disk reads the value of the key
  readable,       \* whether that value is there and of the type that is read
  keysRead,       \* load.watchRegistryKeys of the load under way
  keys,           \* load.watchRegistryKeys, as the last load left it
  fileNews, valueNews,  \* history: changes that no load has read
  fileLost, valueLost,  \* history: nothing will tell the watcher of them
  edits, changes, faults

watch     == <<watched, armed, signalled, recorded>>
registry  == <<wanted, registered, registryEvent>>
load      == <<keysRead, keys>>
engine    == <<directory, permit, shutdown, playing>>
news      == <<fileNews, fileLost, valueNews, valueLost, readsKey, readable>>
bounds    == <<edits, changes, faults>>
vars == <<at, watch, registry, load, engine, news, bounds>>

\* initialize has loaded before it starts the thread.
Init ==
  /\ at = "top"
  /\ directory = "first" /\ watched = "none" /\ armed = FALSE /\ signalled = FALSE /\ recorded = FALSE
  /\ wanted = FALSE /\ registered = FALSE /\ registryEvent = FALSE
  /\ permit = TRUE /\ shutdown = FALSE /\ playing = TRUE
  /\ readsKey \in BOOLEAN /\ readable \in BOOLEAN
  /\ keys = (readsKey /\ readable) /\ keysRead = FALSE
  /\ fileNews = FALSE /\ valueNews = FALSE /\ fileLost = FALSE /\ valueLost = FALSE
  /\ edits = 0 /\ changes = 0 /\ faults = 0

Fault == faults < MaxFaults /\ faults' = faults + 1
NoFault == UNCHANGED faults

-----------------------------------------------------------------------------
(* The watcher's thread.                                                   *)

Disarmed == armed' = FALSE /\ signalled' = FALSE /\ recorded' = FALSE

\* Mutant: the notification is made anew on every turn, as the keys are.
ArmAnew ==
  /\ at = "top"
  /\ wanted' = keys
  /\ watched' = directory
  /\ NoFault /\ armed' = TRUE /\ signalled' = FALSE /\ recorded' = FALSE
  /\ at' = "keys"
  /\ UNCHANGED <<registered, registryEvent, load, engine, news, edits, changes>>

\* The snapshot; a new directory needs a new notification, and a missing one
\* is tried again on every turn.
Arm ==
  /\ at = "top"
  /\ wanted' = keys
  /\ watched' = directory
  /\ IF armed /\ watched = directory
       THEN NoFault /\ UNCHANGED <<armed, signalled, recorded>>
       ELSE \/ NoFault /\ armed' = TRUE /\ signalled' = FALSE /\ recorded' = FALSE
            \/ Fault /\ Disarmed
  /\ at' = "keys"
  /\ UNCHANGED <<registered, registryEvent, load, engine, news, edits, changes>>

OpenKeys ==
  /\ at = "keys"
  /\ \/ NoFault /\ registered' = wanted
     \/ wanted /\ Fault /\ registered' = FALSE
  /\ at' = "waiting"
  /\ UNCHANGED <<wanted, registryEvent, watch, load, engine, news, edits, changes>>

\* The keys of this turn go out of scope.
CloseKeys ==
  /\ registered' = FALSE
  /\ \E signals \in CloseSignals :
       registryEvent' = (registryEvent \/ (signals /\ registered))

End ==
  /\ CloseKeys
  /\ at' = "ended"

ShutdownSeen ==
  /\ at = "waiting" /\ shutdown
  /\ End
  /\ UNCHANGED <<wanted, watch, load, engine, news, bounds>>

RegistrySeen ==
  /\ at = "waiting" /\ ~shutdown /\ registryEvent
  /\ at' = "permit"
  /\ UNCHANGED <<watch, registry, load, engine, news, bounds>>

\* FindNextChangeNotification: what was recorded meanwhile signals at once.
Rearm ==
  \/ NoFault /\ signalled' = recorded /\ recorded' = FALSE /\ UNCHANGED armed
  \/ Fault /\ Disarmed

DirectorySeen ==
  /\ at = "waiting" /\ ~shutdown /\ ~registryEvent /\ armed /\ signalled
  /\ Rearm
  /\ at' = IF armed' THEN "debounce" ELSE "permit"
  /\ UNCHANGED <<watched, registry, load, engine, news, edits, changes>>

\* Ten milliseconds for the rest of a burst.
Debounce ==
  /\ at = "debounce"
  /\ IF signalled THEN Rearm ELSE NoFault /\ UNCHANGED <<armed, signalled, recorded>>
  /\ at' = "permit"
  /\ UNCHANGED <<watched, registry, load, engine, news, edits, changes>>

TimedOut ==
  /\ at = "waiting" /\ ~shutdown /\ ~registryEvent /\ ~(armed /\ signalled)
  /\ CloseKeys
  /\ at' = "top"
  /\ UNCHANGED <<wanted, watch, load, engine, news, bounds>>

WaitFails ==
  /\ at = "waiting"
  /\ Fault
  /\ IF shutdown THEN End ELSE CloseKeys /\ at' = "top"
  /\ UNCHANGED <<wanted, watch, load, engine, news, edits, changes>>

\* acquirePublishPermit gives up on a shutdown, and the thread ends.
Acquire ==
  /\ at = "permit"
  /\ IF shutdown
       THEN End /\ UNCHANGED permit
       ELSE permit /\ permit' = FALSE /\ at' = "reading" /\ UNCHANGED <<registered, registryEvent>>
  /\ UNCHANGED <<wanted, directory, shutdown, playing, watch, load, news, bounds>>

ReadFiles ==
  /\ at = "reading"
  /\ fileNews' = FALSE /\ fileLost' = FALSE
  /\ valueNews' = (valueNews /\ readsKey) /\ valueLost' = (valueLost /\ readsKey)
  /\ keysRead' = FALSE
  /\ at' = IF readsKey THEN "evaluating" ELSE "publishing"
  /\ UNCHANGED <<keys, readsKey, readable, watch, registry, engine, bounds>>

\* A value that cannot be read is an error of the one line: the load goes on,
\* and the key is not among those to watch.
ReadKey ==
  /\ at = "evaluating"
  /\ valueNews' = FALSE /\ valueLost' = FALSE
  /\ keysRead' = readable
  /\ at' = "publishing"
  /\ UNCHANGED <<keys, fileNews, fileLost, readsKey, readable, watch, registry, engine, bounds>>

\* The audio thread gives the permit back.
Publish ==
  /\ at = "publishing"
  /\ keys' = keysRead
  /\ at' = "reset"
  /\ UNCHANGED <<keysRead, watch, registry, engine, news, bounds>>

\* An exception: the session before is back, and so is the permit.
LoadFails ==
  /\ at \in {"reading", "evaluating", "publishing"}
  /\ Fault
  /\ permit' = TRUE
  /\ fileNews' = (fileNews /\ at # "reading") /\ fileLost' = (fileLost /\ at # "reading")
  /\ valueNews' = (valueNews /\ at = "publishing") /\ valueLost' = (valueLost /\ at = "publishing")
  /\ at' = "reset"
  /\ UNCHANGED <<load, readsKey, readable, watch, registry, directory, shutdown, playing, edits, changes>>

ResetEvent ==
  /\ at = "reset"
  /\ registryEvent' = FALSE
  /\ at' = "closing"
  /\ UNCHANGED <<wanted, registered, watch, load, engine, news, bounds>>

\* Mutant: the event is cleared after the keys are closed.
TurnEndsClearing ==
  /\ at = "closing"
  /\ registered' = FALSE /\ registryEvent' = FALSE
  /\ at' = "top"
  /\ UNCHANGED <<wanted, watch, load, engine, news, bounds>>

TurnEnds ==
  /\ at = "closing"
  /\ CloseKeys
  /\ at' = "top"
  /\ UNCHANGED <<wanted, watch, load, engine, news, bounds>>

Watcher ==
  \/ Arm \/ OpenKeys \/ ShutdownSeen \/ RegistrySeen \/ DirectorySeen \/ Debounce \/ TimedOut
  \/ Acquire \/ ReadFiles \/ ReadKey \/ Publish \/ ResetEvent \/ TurnEnds

Failures == WaitFails \/ LoadFails

-----------------------------------------------------------------------------
(* Everybody else.                                                         *)

\* Files are edited; nobody hears of it while no notification watches them.
Edit ==
  /\ edits < MaxEdits
  /\ edits' = edits + 1
  /\ readsKey' \in BOOLEAN
  /\ fileNews' = TRUE
  /\ IF armed /\ watched = directory
       THEN /\ signalled' = TRUE
            /\ recorded' = (recorded \/ signalled)
            /\ fileLost' = FALSE
       ELSE fileLost' = TRUE /\ UNCHANGED <<signalled, recorded>>
  /\ UNCHANGED <<at, watched, armed, registry, load, engine, valueNews, valueLost, readable, changes, faults>>

\* A notification of a key is good for one change; the event that it sets is
\* cleared after the load, also when the load had read the key before.
ChangeValue ==
  /\ changes < MaxChanges
  /\ changes' = changes + 1
  /\ readable' \in BOOLEAN
  /\ valueNews' = TRUE
  /\ registryEvent' = (registryEvent \/ registered)
  /\ registered' = FALSE
  /\ valueLost' = (at \in {"publishing", "reset"} \/ ~(registered \/ registryEvent))
  /\ UNCHANGED <<at, watch, wanted, load, engine, fileNews, fileLost, readsKey, edits, faults>>

\* The audio thread has installed what was published.
Installed ==
  /\ playing /\ ~permit /\ at \notin {"reading", "evaluating", "publishing"}
  /\ permit' = TRUE
  /\ UNCHANGED <<at, watch, registry, load, directory, shutdown, playing, news, bounds>>

PlayingStops ==
  /\ playing /\ playing' = FALSE
  /\ UNCHANGED <<at, watch, registry, load, directory, permit, shutdown, news, bounds>>

\* The engine is initialised once more and loads from another directory; a
\* load of the watcher and this one exclude each other.
Reinitialize ==
  /\ directory = "first" /\ ~shutdown /\ at \notin {"reading", "evaluating", "publishing"}
  /\ directory' = "second"
  /\ permit' = TRUE
  /\ keys' = (readsKey /\ readable)
  /\ fileNews' = FALSE /\ fileLost' = FALSE /\ valueNews' = FALSE /\ valueLost' = FALSE
  /\ UNCHANGED <<at, watch, registry, keysRead, shutdown, playing, readsKey, readable, bounds>>

Shutdown ==
  /\ ~shutdown /\ shutdown' = TRUE
  /\ UNCHANGED <<at, watch, registry, load, directory, permit, playing, news, bounds>>

Others == Edit \/ ChangeValue \/ Installed \/ PlayingStops \/ Reinitialize \/ Shutdown

Next == Watcher \/ Failures \/ Others

Spec == Init /\ [][Next]_vars

\* The thread runs and its loads end; a playing audio thread installs what
\* was published.
Fairness == WF_vars(Watcher) /\ WF_vars(Installed)

FairSpec == Spec /\ Fairness

-----------------------------------------------------------------------------
(* Properties.                                                             *)

GivenUp == ~playing \/ at = "ended"

(* An edit that a notification was watching for is followed by a load,     *)
(* whatever fails afterwards, however many edits one signal stands for,    *)
(* and also when the edit comes in the middle of a load.                   *)
EditIsLoaded == (fileNews /\ ~fileLost) ~> (~fileNews \/ fileLost \/ GivenUp)

(* So is a change of a registry value that the configuration read and the *)
(* watcher has a notification or a set event for, without help from what a *)
(* close of the key may set.  Left out is a change between a load's read   *)
(* and the reset of the event, whose signal that reset takes away.         *)
ValueIsLoaded == (valueNews /\ ~valueLost) ~> (~valueNews \/ valueLost \/ GivenUp)

(* "Monitors the key and reloads on change"                                *)
(* (Configuration-reference.md:438): a change of a value that the text     *)
(* reads is followed by a load.  Not so where the read before it failed:   *)
(* the key is then not watched.  (A signal that the reset took away is     *)
(* made up for where a close of the key sets the event.)                   *)
ChangeReloads == (valueNews /\ readsKey) ~> (~valueNews \/ ~readsKey \/ GivenUp)

(* When nothing changes any more, nothing is loaded any more: not so.      *)
LoadsOnChange == <>[](at # "reading")

=============================================================================
