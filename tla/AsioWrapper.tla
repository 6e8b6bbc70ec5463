------------------------------ MODULE AsioWrapper ------------------------------
(***************************************************************************)
(* The buffer lifecycle of the ASIO wrappers of a process, composed with   *)
(* the callback pool: createBuffers and its error paths, start, stop,      *)
(* disposeBuffers and the destructor on the control thread, against        *)
(* callbacks on the target drivers' threads.                               *)
(*                                                                         *)
(* A switch is abstracted to what it uses, the channels' buffers and the   *)
(* processor; the samples, the host's own callbacks and the outputReady    *)
(* handshake are left out.                                                 *)
(***************************************************************************)
EXTENDS CallbackTrampolines

VARIABLES
  state,     \* AsioWrapper::state_, or "Destroyed"
  target,    \* the target driver's buffers: "closed", "open" or "started"
  channels,  \* whether the host's buffers are "allocated" or "freed"
  processor, \* whether processor_ is "open" or "closed"
  switching, \* the driver threads past switchBuffers' look at the state
  api,       \* the call the control thread is in
  overdue    \* history: the driver threads a wait has given up on

wrapperVars == <<state, target, channels, processor, switching, api, overdue>>
vars == <<poolVars, wrapperVars>>

\* then: the call that a stop or a disposeBuffers is part of.
NoCall == [at |-> "idle", wrapper |-> NoSink, then |-> "return"]

Init ==
  /\ PoolInit
  /\ state = [w \in Sinks |-> "Loaded"]
  /\ target = [w \in Sinks |-> "closed"]
  /\ channels = [w \in Sinks |-> "freed"]
  /\ processor = [w \in Sinks |-> "closed"]
  /\ switching = {}
  /\ api = NoCall
  /\ overdue = {}

\* The control thread is in this call and not inside the pool.
At(w, place) == api.at = place /\ api.wrapper = w /\ control.at = "idle"

Goto(place) == api' = [api EXCEPT !.at = place]

-----------------------------------------------------------------------------
(* createBuffers.                                                          *)

InitDriver(w) ==
  /\ api.at = "idle" /\ state[w] = "Loaded"
  /\ state' = [state EXCEPT ![w] = "Initialized"]
  /\ UNCHANGED <<poolVars, target, channels, processor, switching, api, overdue>>

\* prepareChannels succeeds; when it fails nothing has changed.
CreateBuffers(w) ==
  /\ api.at = "idle" /\ state[w] = "Initialized"
  /\ channels' = [channels EXCEPT ![w] = "allocated"]
  /\ api' = [NoCall EXCEPT !.at = "claiming", !.wrapper = w]
  /\ Claim(w)
  /\ UNCHANGED <<state, target, processor, switching, overdue>>

NoSlot(w) ==
  /\ At(w, "claiming") /\ held[w] = 0
  /\ channels' = [channels EXCEPT ![w] = "freed"]
  /\ api' = NoCall
  /\ UNCHANGED <<poolVars, state, target, processor, switching, overdue>>

TargetCreates(w) ==
  /\ At(w, "claiming") /\ held[w] # 0
  /\ target' = [target EXCEPT ![w] = "open"]
  /\ Goto("opening")
  /\ UNCHANGED <<poolVars, state, channels, processor, switching, overdue>>

\* Mutant: the error path forgets the set without releasing it.
TargetRefusesKeeping(w) ==
  /\ At(w, "claiming") /\ held[w] # 0
  /\ channels' = [channels EXCEPT ![w] = "freed"]
  /\ held' = [held EXCEPT ![w] = 0]
  /\ api' = NoCall
  /\ UNCHANGED <<sinks, gates, lease, control, state, target, processor, switching, overdue>>

\* The set is released without a wait: the target never had buffers.
TargetRefuses(w) ==
  /\ At(w, "claiming") /\ held[w] # 0
  /\ Goto("refused")
  /\ Release(w)
  /\ UNCHANGED <<state, target, channels, processor, switching, overdue>>

AfterRefusal(w) ==
  /\ At(w, "refused")
  /\ channels' = [channels EXCEPT ![w] = "freed"]
  /\ api' = NoCall
  /\ Forget(w)
  /\ UNCHANGED <<state, target, processor, switching, overdue>>

ProcessorOpens(w) ==
  /\ At(w, "opening")
  /\ processor' = [processor EXCEPT ![w] = "open"]
  /\ state' = [state EXCEPT ![w] = "Prepared"]
  /\ api' = NoCall
  /\ UNCHANGED <<poolVars, target, channels, switching, overdue>>

\* fillFormat or open fails: unwind takes the target down and waits.
Unwind(w) ==
  /\ At(w, "opening")
  /\ target' = [target EXCEPT ![w] = "closed"]
  /\ Goto("waiting")
  /\ Release(w)
  /\ UNCHANGED <<state, channels, processor, switching, overdue>>

-----------------------------------------------------------------------------
(* start, stop, disposeBuffers and the destructor.                         *)

\* The state says Running before the target starts.
Start(w) ==
  /\ api.at = "idle" /\ state[w] = "Prepared"
  /\ state' = [state EXCEPT ![w] = "Running"]
  /\ api' = [NoCall EXCEPT !.at = "starting", !.wrapper = w]
  /\ UNCHANGED <<poolVars, target, channels, processor, switching, overdue>>

TargetStarts(w) ==
  /\ At(w, "starting")
  /\ \/ target' = [target EXCEPT ![w] = "started"] /\ UNCHANGED state
     \/ state' = [state EXCEPT ![w] = "Prepared"] /\ UNCHANGED target
  /\ api' = NoCall
  /\ UNCHANGED <<poolVars, channels, processor, switching, overdue>>

\* stop, alone or as the first part of disposeBuffers or the destructor.
Stop(w, then) ==
  /\ api.at = "idle" /\ state[w] = "Running"
  /\ target' = [target EXCEPT ![w] = "open"]
  /\ api' = [at |-> "stopping", wrapper |-> w, then |-> then]
  /\ UNCHANGED <<poolVars, state, channels, processor, switching, overdue>>

Stopped(w) ==
  /\ At(w, "stopping")
  /\ state' = [state EXCEPT ![w] = "Prepared"]
  /\ IF api.then = "return" THEN api' = NoCall ELSE Goto("prepared")
  /\ UNCHANGED <<poolVars, target, channels, processor, switching, overdue>>

\* disposeBuffers, alone or from the destructor, refuses new switches first.
RefuseSwitches(w, then) ==
  /\ state' = [state EXCEPT ![w] = "Initialized"]
  /\ api' = [at |-> "disposing", wrapper |-> w, then |-> then]
  /\ UNCHANGED <<poolVars, target, channels, processor, switching, overdue>>

Dispose(w, then) ==
  /\ api.at = "idle" /\ state[w] = "Prepared"
  /\ RefuseSwitches(w, then)

DisposeStopped(w) ==
  /\ At(w, "prepared")
  /\ RefuseSwitches(w, api.then)

TargetDisposes(w) ==
  /\ At(w, "disposing")
  /\ target' = [target EXCEPT ![w] = "closed"]
  /\ Goto("waiting")
  /\ Release(w)
  /\ UNCHANGED <<state, channels, processor, switching, overdue>>

\* Mutant: nobody waits for the slot to drain.
WaitedNever(w) ==
  /\ At(w, "waiting")
  /\ Forget(w)
  /\ processor' = [processor EXCEPT ![w] = "closed"]
  /\ channels' = [channels EXCEPT ![w] = "freed"]
  /\ state' = [state EXCEPT ![w] = IF api.then = "destroy" THEN "Destroyed" ELSE @]
  /\ api' = NoCall
  /\ UNCHANGED <<target, switching, overdue>>

\* Mutant: the wait has no limit.
WaitedForEver(w) ==
  /\ At(w, "waiting") /\ Drained(w)
  /\ Forget(w)
  /\ processor' = [processor EXCEPT ![w] = "closed"]
  /\ channels' = [channels EXCEPT ![w] = "freed"]
  /\ state' = [state EXCEPT ![w] = IF api.then = "destroy" THEN "Destroyed" ELSE @]
  /\ api' = NoCall
  /\ UNCHANGED <<target, switching, overdue>>

\* The wait ends when the slot has drained, or after 2000 polls; then the
\* set is forgotten and what the callbacks used is closed and freed, also
\* under those who have outlasted the wait.
Waited(w) ==
  /\ At(w, "waiting")
  /\ Forget(w)
  /\ processor' = [processor EXCEPT ![w] = "closed"]
  /\ channels' = [channels EXCEPT ![w] = "freed"]
  /\ state' = [state EXCEPT ![w] = IF api.then = "destroy" THEN "Destroyed" ELSE @]
  /\ api' = NoCall
  /\ overdue' = IF Drained(w) THEN overdue ELSE overdue \cup Within(held[w])
  /\ UNCHANGED <<target, switching>>

\* The destructor of a wrapper without buffers.
Destroy(w) ==
  /\ api.at = "idle" /\ state[w] \in {"Loaded", "Initialized"}
  /\ state' = [state EXCEPT ![w] = "Destroyed"]
  /\ UNCHANGED <<poolVars, target, channels, processor, switching, api, overdue>>

-----------------------------------------------------------------------------
(* Driver threads.                                                         *)

DriverCalls(t, w) ==
  /\ target[w] # "closed"
  /\ Call(t, w)
  /\ UNCHANGED wrapperVars

\* switchBuffers goes on only when the state says Running.
SwitchBuffers(t) ==
  /\ lease[t].at = "inside" /\ lease[t].sink # NoSink
  /\ state[lease[t].sink] = "Running"
  /\ switching' = switching \cup {t}
  /\ UNCHANGED <<poolVars, state, target, channels, processor, api, overdue>>

\* The trampoline's own steps; leaving it ends the switch.
Trampoline(t) ==
  /\ Enter(t) \/ Refuse(t) \/ LoadSink(t) \/ Leave(t)
  /\ IF lease'[t].at = "out"
       THEN switching' = switching \ {t} /\ overdue' = overdue \ {t}
       ELSE UNCHANGED <<switching, overdue>>
  /\ UNCHANGED <<state, target, channels, processor, api>>

-----------------------------------------------------------------------------
PoolStep == (ClaimStep \/ ReleaseStep) /\ UNCHANGED wrapperVars

\* What the control thread does once it is in a call.
InCall ==
  \/ PoolStep
  \/ \E w \in Sinks :
       \/ NoSlot(w) \/ TargetCreates(w) \/ TargetRefuses(w) \/ AfterRefusal(w)
       \/ ProcessorOpens(w) \/ Unwind(w)
       \/ TargetStarts(w) \/ Stopped(w) \/ DisposeStopped(w)
       \/ TargetDisposes(w) \/ Waited(w)

\* The calls a DAW makes.
NewCall ==
  \E w \in Sinks :
    \/ InitDriver(w) \/ CreateBuffers(w) \/ Start(w) \/ Destroy(w)
    \/ \E then \in {"return", "dispose", "destroy"} : Stop(w, then)
    \/ \E then \in {"dispose", "destroy"} : Dispose(w, then)

Next ==
  \/ InCall
  \/ NewCall
  \/ \E t \in Threads, w \in Sinks : DriverCalls(t, w)
  \/ \E t \in Threads : Trampoline(t) \/ SwitchBuffers(t)

Spec == Init /\ [][Next]_vars

\* The control thread is never descheduled for ever inside a call, nor a
\* driver thread on its way to the gate; inside it may stay for ever.
Fairness ==
  /\ WF_vars(InCall)
  /\ \A t \in Threads : WF_vars(Enter(t) /\ UNCHANGED wrapperVars)

FairSpec == Spec /\ Fairness

-----------------------------------------------------------------------------
(* Properties.                                                             *)

TypeOK ==
  /\ PoolTypeOK
  /\ state \in [Sinks -> {"Loaded", "Initialized", "Prepared", "Running", "Destroyed"}]
  /\ target \in [Sinks -> {"closed", "open", "started"}]
  /\ channels \in [Sinks -> {"allocated", "freed"}]
  /\ processor \in [Sinks -> {"open", "closed"}]
  /\ switching \subseteq Threads
  /\ overdue \subseteq Threads
  /\ api \in [at : {"idle", "claiming", "refused", "opening", "starting", "stopping",
                    "prepared", "disposing", "waiting"},
              wrapper : Sinks \cup {NoSink},
              then : {"return", "dispose", "destroy"}]

(* No callback that is still in switchBuffers loses the buffers or the     *)
(* processor it works with: they are freed only after it has left, unless  *)
(* it has outlasted the whole wait of a disposeBuffers.                    *)
SwitchKeepsItsBuffers ==
  \A t \in switching \ overdue :
    LET w == lease[t].sink IN channels[w] = "allocated" /\ processor[w] = "open"

(* Every call of the DAW returns, disposeBuffers too, even when a callback *)
(* never leaves: the wait for the slot is bounded.                         *)
CallsReturn == []<>(api.at = "idle")

(* The wrappers use the pool as it must be used.                           *)
UsesPool == PoolSpec

=============================================================================
