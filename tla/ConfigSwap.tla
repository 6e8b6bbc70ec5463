------------------------------ MODULE ConfigSwap ------------------------------
(***************************************************************************)
(* The hot swap of the filter configuration: ConfigSwapChannel and the     *)
(* three threads of FilterEngine that meet in it.                          *)
(*                                                                         *)
(*  - ctl, the client thread (LockForProcess, UnlockForProcess, release of *)
(*    the APO): FilterEngine::initialize and ~FilterEngine;                *)
(*  - wt, the notification worker: ConfigWatcher::run, its callback, and   *)
(*    the loadConfig it runs;                                              *)
(*  - rt, the audio thread: processImpl and finishTransitionIfReady.       *)
(*                                                                         *)
(* A step is a piece of a thread no other thread can see the middle of.    *)
(* The channel's three pointers are unique_ptrs, so a configuration is     *)
(* alive exactly while one of them (or the loader's local) holds it.       *)
(***************************************************************************)
EXTENDS Naturals

CONSTANTS Configs,          \* identities of FilterConfiguration objects
          EmptyConfigs,     \* those that hold no filter
          StatelessConfigs, \* those whose filters keep no state and no tail
          Null,             \* an empty unique_ptr
          TransitionLength, \* crossfade length, in blocks' frame units
          MaxVersion,       \* bound: edits of the configuration file
          CalmStart         \* TRUE: no edit and no reload is in flight from
                            \* an initialize until its configuration is
                            \* active, nor before the watch is first armed

ASSUME ConfigSwapAssumption ==
  /\ StatelessConfigs \subseteq Configs
  /\ EmptyConfigs \subseteq StatelessConfigs
  /\ EmptyConfigs # {}
  /\ Null \notin Configs
  /\ TransitionLength \in Nat \ {0}
  /\ MaxVersion \in Nat
  /\ CalmStart \in BOOLEAN

VARIABLES
  current, pending, previous, \* the channel's pointers
  building,                   \* the loader's local, not yet published
  pendingReady,               \* the release/acquire flag
  permit, permitHeld,         \* the semaphore's count and who must give it back
  shutdown,                   \* the manual-reset shutdown event
  loadMutex,                  \* TRUE while a thread holds it across steps
  counter,                    \* transitionCounter, saturated at the length
  ctl, wt, rt,                \* where each thread stands
  rtCurrent, rtNext,          \* the objects the audio thread is inside of
  silent,                     \* the stream carries BUFFER_SILENT blocks
  file, armed, changed,       \* the file's version; the watch and its signal
  attempted,                  \* history: the version the last load read
  loaded,                     \* initialize's local: what loadConfig returned
  initial, mixed              \* history: the swap under way is initialize's;
                              \* frames of the pending object blended so far

channelVars == <<current, pending, previous, building, pendingReady>>
permitVars  == <<permit, permitHeld>>
rtVars      == <<rt, rtCurrent, rtNext, counter, mixed>>
watchVars   == <<file, armed, changed, attempted>>

vars == <<current, pending, previous, building, pendingReady, permit,
          permitHeld, shutdown, loadMutex, counter, ctl, wt, rt, rtCurrent,
          rtNext, silent, file, armed, changed, attempted, loaded, initial,
          mixed>>

Owned == {current, pending, previous, building} \ {Null}

CtlStates == {"unlocked", "reset", "seed", "load", "start", "running",
              "joining", "destroyed"}
\* The watcher between winning the permit and giving up its right to publish.
Publishing == {"held", "lock", "load", "retire", "store", "ready", "giveUp"}
WtStates == {"off", "scan", "wait", "permit", "exited"} \cup Publishing
RtStates == {"idle", "current", "next", "finish", "clear", "release", "rewind"}

Init ==
  /\ current = Null /\ pending = Null /\ previous = Null /\ building = Null
  /\ pendingReady = FALSE
  /\ permit = 1 /\ permitHeld = FALSE
  /\ shutdown = FALSE
  /\ loadMutex = FALSE
  /\ counter = 0
  /\ ctl = "unlocked" /\ wt = "off" /\ rt = "idle"
  /\ rtCurrent = Null /\ rtNext = Null
  /\ silent = FALSE
  /\ file = 0 /\ armed = FALSE /\ changed = FALSE /\ attempted = 0
  /\ loaded = FALSE
  /\ initial = FALSE /\ mixed = 0

-----------------------------------------------------------------------------
(* ConfigSwapChannel.                                                      *)

\* Only the flag's owner returns the permit: the exchange makes a second
\* release, and a release of a permit nobody holds, do nothing.
ReleasePublishPermit ==
  /\ permitHeld' = FALSE
  /\ permit' = IF permitHeld THEN 1 ELSE permit

\* reset(seed): every pointer is dropped, the flag cleared, the permit freed.
Reset(seed) ==
  /\ current' = seed /\ pending' = Null /\ previous' = Null
  /\ pendingReady' = FALSE
  /\ ReleasePublishPermit

-----------------------------------------------------------------------------
(* Plausible slips, none of them a step of the program: each stands for a  *)
(* later operation in a mutation of the module that some property must     *)
(* notice.                                                                 *)

\* A permit whose wait polls instead of consuming the count.
PeekPermit ==
  /\ wt = "permit"
  /\ \/ shutdown /\ wt' = "exited"
     \/ ~shutdown /\ wt' = "held"
  /\ UNCHANGED <<channelVars, permitVars, shutdown, loadMutex, ctl,
                 rtVars, silent, watchVars, loaded, initial>>

\* A wait on the semaphore alone.
PermitDeafToShutdown ==
  /\ wt = "permit"
  /\ permit = 1 /\ permit' = 0 /\ wt' = "held"
  /\ UNCHANGED <<channelVars, permitHeld, shutdown, loadMutex, ctl, rtVars,
                 silent, watchVars, loaded, initial>>

\* publish with its flag raised before the pointer is stored.
ReadyBeforeStore ==
  /\ wt = "retire"
  /\ wt' = "store"
  /\ previous' = Null /\ pendingReady' = TRUE
  /\ UNCHANGED <<current, pending, building, permitVars,
                 shutdown, loadMutex, ctl, rtVars, silent, watchVars, loaded,
                 initial>>

\* publish without its first line.
KeepPrevious ==
  /\ wt = "retire"
  /\ wt' = "store"
  /\ UNCHANGED <<channelVars, permitVars, shutdown, loadMutex, ctl, rtVars,
                 silent, watchVars, loaded, initial>>

\* A completed transition that leaves the counter where it is.
ForgetRewind ==
  /\ rt = "rewind"
  /\ rt' = "idle"
  /\ UNCHANGED <<channelVars, permitVars, shutdown, loadMutex, rtCurrent,
                 rtNext, counter, mixed, ctl, wt, silent, watchVars, loaded,
                 initial>>

\* A silence test that looks at the active configuration only.
StatefulNow == current = Null \/ current \notin StatelessConfigs

-----------------------------------------------------------------------------
(* The client thread.  The audio engine calls APOProcess only between a    *)
(* LockForProcess that succeeded and the UnlockForProcess that follows.    *)

\* LockForProcess -> initialize: loadMutex is taken and the channel emptied.
\* Under CalmStart no reload is in flight when it happens.
Lock ==
  /\ ctl = "unlocked" /\ ~loadMutex
  /\ CalmStart => ~changed /\ wt \notin Publishing \cup {"permit"}
  /\ loadMutex' = TRUE
  /\ ctl' = "seed"
  /\ Reset(Null)
  /\ counter' = 0
  /\ initial' = FALSE /\ mixed' = 0
  /\ UNCHANGED <<building, shutdown, wt, rt, rtCurrent, rtNext, silent,
                 watchVars, loaded>>

\* The stream is seeded with an empty configuration.  An unreadable or empty
\* ConfigPath ends initialize here, with the stream locked and no watcher.
Seed ==
  /\ ctl = "seed"
  /\ \E c \in EmptyConfigs \ {building} : Reset(c)
  /\ loadMutex' = FALSE
  /\ ctl' \in {"load", "running"}
  /\ UNCHANGED <<building, shutdown, wt, rtVars, silent, watchVars, loaded,
                 initial>>

\* The seed cannot be allocated: initialize throws and the lock is rejected.
SeedThrows ==
  /\ ctl = "seed"
  /\ loadMutex' = FALSE
  /\ ctl' = "unlocked"
  /\ UNCHANGED <<channelVars, permitVars, shutdown, wt, rtVars, silent,
                 watchVars, loaded, initial>>

\* initialize's own loadConfig, under loadMutex.  It publishes without having
\* taken the permit; no audio block runs yet, so nobody sees its middle.
InitialLoad ==
  /\ ctl = "load" /\ ~loadMutex
  /\ ctl' = "start"
  /\ attempted' = file
  /\ \/ \E c \in Configs \ {current} :
          /\ previous' = Null /\ pending' = c /\ pendingReady' = TRUE
          /\ loaded' = TRUE /\ initial' = TRUE
     \/ /\ loaded' = FALSE
        /\ UNCHANGED <<previous, pending, pendingReady, initial>>
  /\ UNCHANGED <<current, building, permitVars, shutdown, loadMutex, wt,
                 rtVars, silent, file, armed, changed>>

\* The initial configuration starts at full weight; the watcher is started
\* once in the engine's life.
StartStream ==
  /\ ctl = "start" /\ ~loadMutex
  /\ ctl' = "running"
  /\ counter' = IF loaded THEN TransitionLength ELSE counter
  /\ wt' = IF wt = "off" THEN "scan" ELSE wt
  /\ UNCHANGED <<channelVars, permitVars, shutdown, loadMutex, rt, rtCurrent,
                 rtNext, mixed, silent, watchVars, loaded, initial>>

Unlock ==
  /\ ctl = "running" /\ rt = "idle"
  /\ ctl' = "unlocked"
  /\ UNCHANGED <<channelVars, permitVars, shutdown, loadMutex, wt, rtVars,
                 silent, watchVars, loaded, initial>>

\* ~FilterEngine: the shutdown event, then the join.
Destroy ==
  /\ ctl = "unlocked"
  /\ ctl' = "joining"
  /\ shutdown' = (wt # "off")
  /\ UNCHANGED <<channelVars, permitVars, loadMutex, wt, rtVars, silent,
                 watchVars, loaded, initial>>

Joined ==
  /\ ctl = "joining" /\ wt \in {"off", "exited"}
  /\ ctl' = "destroyed"
  /\ Reset(Null)
  /\ initial' = FALSE
  /\ UNCHANGED <<building, shutdown, loadMutex, wt, rtVars, silent, watchVars,
                 loaded>>

-----------------------------------------------------------------------------
(* The notification worker.                                                *)

\* Loop top: the snapshot is taken under loadMutex and the directory watch is
\* armed if it is not.  Edits before the first arming signal nothing.
Scan ==
  /\ wt = "scan" /\ ~loadMutex
  /\ wt' = "wait"
  /\ armed' = TRUE
  /\ UNCHANGED <<channelVars, permitVars, shutdown, loadMutex, ctl, rtVars,
                 silent, file, changed, attempted, loaded, initial>>

\* The wait for shutdown and for the directory; shutdown is first in the
\* handle array, so it wins.  The watch is re-armed before the callback.
Wake ==
  /\ wt = "wait"
  /\ \/ shutdown /\ wt' = "exited" /\ UNCHANGED changed
     \/ ~shutdown /\ changed /\ wt' = "permit" /\ changed' = FALSE
     \/ ~shutdown /\ ~changed /\ wt' = "scan" /\ UNCHANGED changed
  /\ UNCHANGED <<channelVars, permitVars, shutdown, loadMutex, ctl, rtVars,
                 silent, file, armed, attempted, loaded, initial>>

\* acquirePublishPermit: the wait on shutdown and semaphore ...
AcquirePermit ==
  /\ wt = "permit"
  /\ \/ shutdown /\ wt' = "exited" /\ UNCHANGED permit
     \/ ~shutdown /\ permit = 1 /\ permit' = 0 /\ wt' = "held"
  /\ UNCHANGED <<channelVars, permitHeld, shutdown, loadMutex, ctl, rtVars,
                 silent, watchVars, loaded, initial>>

\* ... and, separately, the flag that says the permit is out.
MarkHeld ==
  /\ wt = "held"
  /\ wt' = "lock"
  /\ permitHeld' = TRUE
  /\ UNCHANGED <<channelVars, permit, shutdown, loadMutex, ctl, rtVars, silent,
                 watchVars, loaded, initial>>

LockLoad ==
  /\ wt = "lock" /\ ~loadMutex
  /\ wt' = "load"
  /\ loadMutex' = TRUE
  /\ UNCHANGED <<channelVars, permitVars, shutdown, ctl, rtVars, silent,
                 watchVars, loaded, initial>>

\* loadConfig reads the file and builds a configuration, or throws: then the
\* session is rolled back and the active configuration stays.
Load ==
  /\ wt = "load"
  /\ attempted' = file
  /\ \/ \E c \in Configs \ (Owned \cup {rtCurrent, rtNext}) :
          building' = c /\ wt' = "retire" /\ UNCHANGED loadMutex
     \/ wt' = "giveUp" /\ loadMutex' = FALSE /\ UNCHANGED building
  /\ UNCHANGED <<current, pending, previous, pendingReady, permitVars,
                 shutdown, ctl, rtVars, silent, file, armed, changed, loaded,
                 initial>>

\* publish, in its three stores.
Retire ==
  /\ wt = "retire"
  /\ wt' = "store"
  /\ previous' = Null
  /\ UNCHANGED <<current, pending, building, pendingReady, permitVars,
                 shutdown, loadMutex, ctl, rtVars, silent, watchVars, loaded,
                 initial>>

StorePending ==
  /\ wt = "store"
  /\ wt' = "ready"
  /\ pending' = building /\ building' = Null
  /\ initial' = FALSE /\ mixed' = 0
  /\ UNCHANGED <<current, previous, pendingReady, permitVars, shutdown,
                 loadMutex, ctl, rt, rtCurrent, rtNext, counter, silent,
                 watchVars, loaded>>

SetReady ==
  /\ wt = "ready"
  /\ wt' = "scan"
  /\ pendingReady' = TRUE
  /\ loadMutex' = FALSE
  /\ UNCHANGED <<current, pending, previous, building, permitVars, shutdown,
                 ctl, rtVars, silent, watchVars, loaded, initial>>

\* The callback's answer to a failed load.
GiveUp ==
  /\ wt = "giveUp"
  /\ wt' = "scan"
  /\ ReleasePublishPermit
  /\ UNCHANGED <<channelVars, shutdown, loadMutex, ctl, rtVars, silent,
                 watchVars, loaded, initial>>

-----------------------------------------------------------------------------
(* The audio thread.                                                       *)

\* What APOProcess asks before it skips a silent block: a pending swap always
\* counts, so that silence cannot hold a reload back.
HasStatefulOrTailFilters ==
  pendingReady \/ current = Null \/ current \notin StatelessConfigs

\* A block reaches the engine and is not a bypass.
BeginBlock ==
  /\ rt = "idle" /\ ctl = "running"
  /\ silent => HasStatefulOrTailFilters
  /\ current # Null
  /\ current \notin EmptyConfigs \/ pendingReady
  /\ rt' = "current" /\ rtCurrent' = current
  /\ UNCHANGED <<channelVars, permitVars, shutdown, loadMutex, counter, mixed,
                 ctl, wt, rtNext, silent, watchVars, loaded, initial>>

\* The second look at the flag: is there a next configuration to run too?
CheckPending ==
  /\ rt = "current"
  /\ IF pendingReady THEN rt' = "next" /\ rtNext' = pending
                     ELSE rt' = "finish" /\ UNCHANGED rtNext
  /\ UNCHANGED <<channelVars, permitVars, shutdown, loadMutex, counter, mixed,
                 ctl, wt, rtCurrent, silent, watchVars, loaded, initial>>

\* doTransition: the crossfade advances by the block's frames.
Saturate(n) == IF n > TransitionLength THEN TransitionLength ELSE n

DoTransition ==
  /\ rt = "next"
  /\ rt' = "finish" /\ rtNext' = Null
  /\ \E frames \in 1..TransitionLength :
        /\ counter' = Saturate(counter + frames)
        /\ mixed' = Saturate(mixed + frames)
  /\ UNCHANGED <<channelVars, permitVars, shutdown, loadMutex, ctl, wt,
                 rtCurrent, silent, watchVars, loaded, initial>>

\* finishTransitionIfReady, up to the two pointer moves of completeTransition.
Finish ==
  /\ rt = "finish"
  /\ rtCurrent' = Null
  /\ IF pendingReady /\ counter >= TransitionLength
       THEN /\ rt' = "clear"
            /\ previous' = current /\ current' = pending /\ pending' = Null
       ELSE rt' = "idle" /\ UNCHANGED <<previous, current, pending>>
  /\ UNCHANGED <<building, pendingReady, permitVars, shutdown, loadMutex,
                 counter, mixed, ctl, wt, rtNext, silent, watchVars, loaded,
                 initial>>

ClearReady ==
  /\ rt = "clear"
  /\ rt' = "release"
  /\ pendingReady' = FALSE
  /\ UNCHANGED <<current, pending, previous, building, permitVars, shutdown,
                 loadMutex, counter, mixed, ctl, wt, rtCurrent, rtNext, silent,
                 watchVars, loaded, initial>>

\* The permit goes back before the counter is rewound.
ReleaseOnRt ==
  /\ rt = "release"
  /\ rt' = "rewind"
  /\ ReleasePublishPermit
  /\ initial' = FALSE
  /\ UNCHANGED <<channelVars, shutdown, loadMutex, counter, mixed, ctl, wt,
                 rtCurrent, rtNext, silent, watchVars, loaded>>

Rewind ==
  /\ rt = "rewind"
  /\ rt' = "idle"
  /\ counter' = 0
  /\ UNCHANGED <<channelVars, permitVars, shutdown, loadMutex, mixed, ctl, wt,
                 rtCurrent, rtNext, silent, watchVars, loaded, initial>>

-----------------------------------------------------------------------------
(* The environment.                                                        *)

\* Somebody saves a configuration file.  An armed watch is signalled.
Edit ==
  /\ file < MaxVersion
  /\ CalmStart => armed /\ ~initial /\ ctl \in {"running", "unlocked"}
  /\ file' = file + 1
  /\ changed' = (changed \/ armed)
  /\ UNCHANGED <<channelVars, permitVars, shutdown, loadMutex, ctl, wt, rtVars,
                 silent, armed, attempted, loaded, initial>>

\* The stream turns silent or audible between two blocks.
Silence ==
  /\ rt = "idle" /\ ctl = "running"
  /\ silent' = ~silent
  /\ UNCHANGED <<channelVars, permitVars, shutdown, loadMutex, ctl, wt, rtVars,
                 watchVars, loaded, initial>>

-----------------------------------------------------------------------------
CtlStep == Lock \/ Seed \/ SeedThrows \/ InitialLoad \/ StartStream
             \/ Unlock \/ Destroy \/ Joined
WtStep == Scan \/ Wake \/ AcquirePermit \/ MarkHeld \/ LockLoad \/ Load
             \/ Retire \/ StorePending \/ SetReady \/ GiveUp
RtStep == BeginBlock \/ CheckPending \/ DoTransition \/ Finish \/ ClearReady
             \/ ReleaseOnRt \/ Rewind

Next == CtlStep \/ WtStep \/ RtStep \/ Edit \/ Silence

Spec == Init /\ [][Next]_vars

\* The worker is an ordinary thread and runs.  The audio engine keeps calling
\* while the stream is locked.  The client is free to lock, unlock or release
\* when it likes, but finishes an initialize or a destructor it has entered.
FairSpec ==
  /\ Spec
  /\ WF_vars(WtStep)
  /\ WF_vars(RtStep)
  /\ WF_vars(Seed \/ SeedThrows) /\ WF_vars(InitialLoad)
  /\ WF_vars(StartStream) /\ WF_vars(Joined)

-----------------------------------------------------------------------------
(* Properties.                                                             *)

FlagsOK ==
  /\ pendingReady \in BOOLEAN /\ permitHeld \in BOOLEAN
  /\ shutdown \in BOOLEAN /\ loadMutex \in BOOLEAN /\ silent \in BOOLEAN
  /\ armed \in BOOLEAN /\ changed \in BOOLEAN
  /\ loaded \in BOOLEAN /\ initial \in BOOLEAN

\* Every variable stays in its set; in particular the semaphore never counts
\* past the one permit it was created with, whoever resets the channel when.
TypeOK ==
  /\ FlagsOK
  /\ current \in Configs \cup {Null} /\ pending \in Configs \cup {Null}
  /\ previous \in Configs \cup {Null} /\ building \in Configs \cup {Null}
  /\ rtCurrent \in Configs \cup {Null} /\ rtNext \in Configs \cup {Null}
  /\ permit \in {0, 1}
  /\ counter \in 0..TransitionLength /\ mixed \in 0..TransitionLength
  /\ file \in 0..MaxVersion /\ attempted \in 0..MaxVersion
  /\ ctl \in CtlStates /\ wt \in WtStates /\ rt \in RtStates

\* The configuration a block is being filtered with stays alive for the whole
\* block, whatever the worker and the client do meanwhile (processImpl holds a
\* reference to configChannel.current() across the block).
CurrentStable == rtCurrent # Null => rtCurrent = current

\* So does the configuration a block fades into: the audio thread is never
\* inside an object that was destroyed, nor behind an empty pointer.
NextStable == rt = "next" => rtNext \in Owned

\* "The producer permit prevents a pending config from being overwritten"
\* (ConfigSwapChannel.h:20): a ready configuration leaves the pending slot
\* only when the audio thread installs it or the stopped engine is reset.
PendingNotOverwritten ==
  [][pendingReady /\ pending' # pending =>
       rt' = "clear" \/ (ctl # "running" /\ ctl' # ctl)]_vars

\* publish retires the old configuration "on the producer thread, never in the
\* audio callback" (ConfigSwapChannel.h:65): no step of the audio thread drops
\* the last pointer to a configuration.
NoFreeInCallback == [][rt' # rt => Owned \subseteq Owned']_vars

\* A permit that is out is always on its way back: to the worker that is going
\* to publish or give up, or to the audio thread that will finish the swap.  If
\* it were ever lost, no later edit could be published.
PermitAccounted ==
  permit = 0 => wt \in Publishing \/ pendingReady \/ rt = "release"

\* The worker publishes alone: while it is between taking the permit and
\* giving up its right to publish, no configuration waits to be swapped in.
PublishesIntoEmptySlot ==
  wt \in Publishing => ~pendingReady /\ permit = 0

\* A reload is heard only after its whole crossfade: the audio thread installs
\* a configuration the worker published when every frame of the transition has
\* been mixed from that configuration, never with a counter left over.
FullCrossfade ==
  [][rt' = "clear" /\ rt # "clear" /\ ~initial => mixed = TransitionLength]_vars

\* A published configuration becomes the active one if the stream keeps
\* running, however silent it is.
PendingBecomesCurrent ==
  \A c \in Configs :
    (pendingReady /\ pending = c /\ ctl = "running")
       ~> (current = c \/ ctl # "running")

\* The destructor ends: the worker is never stuck waiting for a permit, a
\* mutex or a notification that will not come.
DestroyTerminates == ctl = "joining" ~> ctl = "destroyed"

-----------------------------------------------------------------------------
(* The argument for the properties above, as an inductive invariant.       *)

\* The audio thread is inside the engine only while the stream is locked, and
\* holds a configuration only until it finishes the block.
BlockBracket ==
  /\ ctl # "running" => rt = "idle"
  /\ rt \notin {"current", "next", "finish"} => rtCurrent = Null
  /\ CurrentStable

\* The flag and the semaphore agree, but for the instant between the wait that
\* wins the permit and the store that records it.
FlagMatchesPermit ==
  /\ permitHeld <=> permit = 0 /\ wt # "held"
  /\ wt = "held" => permit = 0

\* From an initialize until its configuration is active no reload is under way.
InitialAlone ==
  /\ initial \/ ctl \in {"seed", "load", "start"}
       => ~changed /\ wt \notin Publishing \cup {"permit"}
  /\ ctl \in {"seed", "load"} => ~initial /\ ~pendingReady
  /\ ctl = "start" /\ loaded => initial

\* Who may touch the pending slot: the worker from its permit to its flag, the
\* audio thread from the flag to the release of the permit, never both.
HandoffTurns ==
  /\ PermitAccounted
  /\ PublishesIntoEmptySlot
  /\ wt \in Publishing => rt \notin {"next", "clear", "release"}
  /\ pendingReady \/ rt = "release" => initial \/ permit = 0
  /\ rt = "release" => ~pendingReady
  /\ rt \in {"next", "clear"} => pendingReady

\* What each pointer holds at each point of a handoff.
SlotContents ==
  /\ wt \in {"retire", "store"} => building # Null
  /\ wt \in {"store", "ready"} => previous = Null
  /\ wt = "ready" => pending # Null
  /\ pendingReady /\ rt # "clear" => pending # Null /\ previous = Null
  /\ rt = "clear" => pending = Null
  /\ rt = "next" => rtNext = pending

\* Outside a swap the counter is rewound; inside a reload's swap it counts the
\* frames mixed from the pending configuration, and nothing else.
CounterFollowsMix ==
  ~initial /\ ctl # "destroyed" /\ rt \notin {"clear", "release"} =>
    IF pendingReady \/ wt = "ready"
      THEN IF rt = "rewind" THEN mixed = 0 ELSE counter = mixed
      ELSE rt = "rewind" \/ counter = 0

\* All of it holds when no edit races an initialize, and is inductive.
HandoffInv ==
  /\ TypeOK /\ BlockBracket /\ FlagMatchesPermit
  /\ InitialAlone /\ HandoffTurns /\ SlotContents /\ CounterFollowsMix

-----------------------------------------------------------------------------
\* The channel implements the abstract hot swap.  A configuration is queued
\* from the moment the flag is raised until the pointer has moved.
Abstract == INSTANCE HotSwap WITH
  active  <- current,
  queued  <- IF pendingReady THEN pending ELSE Null,
  playing <- ctl = "running"

ImplementsHotSwap == Abstract!Spec
=============================================================================
