----------------------------- MODULE WasapiTarget -----------------------------
(***************************************************************************)
(* The WASAPI exclusive target under an ASIO wrapper: its stream thread,   *)
(* which calls the wrapper once per period and hands the output to the     *)
(* device, against start, stop and disposeBuffers on the control thread    *)
(* and the DAW's outputReady.                                              *)
(*                                                                         *)
(* The device takes one block per event.  A device that signals at a       *)
(* coarser cycle than it promised gets a block of several periods: the     *)
(* stream thread finds out and opens the device anew (rebridge).  The      *)
(* capture side, the formats, the clock and the counters are left out.     *)
(***************************************************************************)
EXTENDS OutputHandshake

CONSTANTS
  Factors,     \* the numbers of periods that a device may want at a time
  StartRefused, \* whether a device that was opened anew may refuse to start
  MaxStreams   \* bound: streams that are started

ASSUME TargetAssumption ==
  /\ Factors \subseteq 2..8
  /\ StartRefused \in BOOLEAN
  /\ MaxStreams \in Nat

VARIABLES
  forced,     \* the factor EAPO_WASAPI_FORCE_BRIDGE asks for, or 0
  control,    \* where the control thread is: "idle", "starting" or "stopping"
  stopRequested, running,
  startResult, \* startResult_, and whether startAckEvent_ is set
  stream,     \* the stream thread
  half,       \* the half that is its turn
  served,     \* the periods of this event that are done
  calibrated, \* whether the device's cycle is known
  opened,     \* whether the port has a device stream
  bridge,     \* bridge_
  portBridge, \* Port::bridge
  block,      \* Port::block, its first Port::staged periods
  pendingHalf, committed,
  device,     \* what the device was handed last
  due,        \* history: the first period the device has not had
  asked,      \* whether the host was asked for a reset
  streams     \* the streams started so far

portVars   == <<opened, bridge, portBridge>>
outputVars == <<block, pendingHalf, committed, device, due>>
threadVars == <<stream, half, served, calibrated, startResult, asked>>
clientVars == <<control, stopRequested, running, streams>>
vars == <<handshake, forced, clientVars, threadVars, portVars, outputVars>>

Init ==
  /\ HandshakeInit
  /\ forced \in {0} \cup Factors
  /\ control = "idle" /\ stopRequested = FALSE /\ running = FALSE /\ streams = 0
  /\ startResult = "none"
  /\ stream = "none" /\ half = 0 /\ served = 0 /\ calibrated = FALSE /\ asked = FALSE
  /\ opened = FALSE /\ bridge = 1 /\ portBridge = 1
  /\ block = <<>> /\ pendingHalf = None /\ committed = FALSE /\ device = <<>> /\ due = 1

-----------------------------------------------------------------------------
(* The control thread, through the wrapper.                                *)

\* When the device refuses its stream nothing has changed.
CreateBuffers ==
  /\ control = "idle" /\ state = "Initialized"
  /\ Prepare
  /\ opened' = TRUE /\ bridge' = 1 /\ portBridge' = 1
  /\ block' = <<>>
  /\ asked' = FALSE
  /\ UNCHANGED <<forced, clientVars, stream, half, served, calibrated, startResult,
                 pendingHalf, committed, device, due>>

\* The wrapper says Running, and the target starts its thread and waits.  A
\* DAW that was asked for a reset creates its buffers anew first.
Start ==
  /\ control = "idle" /\ state = "Prepared" /\ ~asked /\ streams < MaxStreams
  /\ Run
  /\ control' = "starting" /\ stopRequested' = FALSE /\ streams' = streams + 1
  /\ stream' = "begin" /\ startResult' = "none"
  /\ UNCHANGED <<forced, running, half, served, calibrated, asked, portVars, outputVars>>

Started ==
  /\ control = "starting" /\ startResult = "ok"
  /\ control' = "idle" /\ running' = TRUE /\ startResult' = "none"
  /\ UNCHANGED <<handshake, forced, stopRequested, streams, stream, half, served, calibrated, asked, portVars, outputVars>>

\* The thread says that it failed, and is joined.
StartFailed ==
  /\ control = "starting" /\ startResult = "failed" /\ stream = "ended"
  /\ Become("Prepared")
  /\ control' = "idle" /\ running' = FALSE /\ startResult' = "none" /\ stream' = "none"
  /\ UNCHANGED <<forced, stopRequested, streams, half, served, calibrated, asked, portVars, outputVars>>

\* Mutant: the thread is joined without having been asked to end.
StopUnasked ==
  /\ control = "idle" /\ state = "Running"
  /\ control' = "stopping"
  /\ UNCHANGED <<handshake, forced, stopRequested, running, streams, threadVars, portVars, outputVars>>

Stop ==
  /\ control = "idle" /\ state = "Running"
  /\ control' = "stopping" /\ stopRequested' = TRUE
  /\ UNCHANGED <<handshake, forced, running, streams, threadVars, portVars, outputVars>>

\* The target joins its thread; then the wrapper says Prepared.
Stopped ==
  /\ control = "stopping" /\ stream = "ended"
  /\ Become("Prepared")
  /\ control' = "idle" /\ running' = FALSE /\ stream' = "none"
  /\ UNCHANGED <<forced, stopRequested, streams, half, served, calibrated, startResult, asked, portVars, outputVars>>

\* The DAW does not dispose of buffers that it still works on.
DisposeBuffers ==
  /\ control = "idle" /\ state = "Prepared" /\ ready.at = "away" /\ job = NoJob
  /\ Become("Initialized")
  /\ opened' = FALSE
  /\ block' = <<>>
  /\ UNCHANGED <<forced, clientVars, threadVars, bridge, portBridge, pendingHalf, committed, device, due>>

ControlStep == CreateBuffers \/ Start \/ Started \/ StartFailed \/ Stop \/ Stopped \/ DisposeBuffers

-----------------------------------------------------------------------------
(* The stream thread.                                                      *)

\* Mutant: the thread goes on with as many periods per event as before.
RebridgeKeepingBridge(factor, next) ==
  /\ opened' = TRUE /\ portBridge' = factor /\ block' = <<>>
  /\ stream' = next
  /\ UNCHANGED bridge

\* The device stream is closed and opened anew with blocks of this many periods.
Rebridge(factor, next) ==
  /\ opened' = TRUE /\ portBridge' = factor /\ bridge' = factor /\ block' = <<>>
  /\ stream' = next

\* The device refuses to open, or opens and refuses to start; bridge_ has
\* not followed the port then.
RebridgeFails(factor, next) ==
  /\ \/ opened' = FALSE /\ UNCHANGED portBridge
     \/ StartRefused /\ opened' = TRUE /\ portBridge' = factor
  /\ block' = <<>>
  /\ stream' = next
  /\ UNCHANGED bridge

\* The device starts, or does not, or has to be opened anew at once.  A
\* port that a failed rebridge left closed has nothing to start.
Begin ==
  /\ stream = "begin"
  /\ half' = 0 /\ served' = 0 /\ calibrated' = (forced # 0)
  /\ due' = period + 1
  /\ \/ /\ forced = 0
        /\ stream' = "waiting" /\ startResult' = "ok"
        /\ UNCHANGED <<portVars, block>>
     \/ /\ opened
        /\ stream' = "ended" /\ startResult' = "failed"
        /\ UNCHANGED <<portVars, block>>
     \/ /\ forced # 0
        /\ \/ Rebridge(forced, "waiting") /\ startResult' = "ok"
           \/ RebridgeFails(forced, "ended") /\ startResult' = "failed"
  /\ UNCHANGED <<handshake, forced, clientVars, asked, pendingHalf, committed, device>>

\* The device signals: one call of the wrapper for each period of the block.
Event ==
  /\ stream = "waiting" /\ ~stopRequested /\ opened
  /\ period + bridge <= MaxPeriods
  /\ stream' = "serving" /\ served' = 0
  /\ UNCHANGED <<handshake, forced, clientVars, half, calibrated, startResult, asked, portVars, outputVars>>

\* There is no event to wait for: the wait fails.
WaitFails ==
  /\ stream = "waiting" /\ ~opened
  /\ stream' = "ending"
  /\ UNCHANGED <<handshake, forced, clientVars, half, served, calibrated, startResult, asked, portVars, outputVars>>

StopSeen ==
  /\ stream = "waiting" /\ stopRequested
  /\ stream' = "ending"
  /\ UNCHANGED <<handshake, forced, clientVars, half, served, calibrated, startResult, asked, portVars, outputVars>>

ServePeriod ==
  /\ stream = "serving"
  /\ SwitchBuffers(half)
  /\ stream' = "switching"
  /\ pendingHalf' = half /\ committed' = FALSE
  /\ UNCHANGED <<forced, clientVars, half, served, calibrated, startResult, asked, portVars, block, device, due>>

\* Mutant: nobody remembers that the period was committed.
CommitForgetting(h) ==
  LET staged == Append(block, targetOut[h])
  IN /\ UNCHANGED committed
     /\ IF Len(staged) < portBridge
          THEN block' = staged /\ UNCHANGED <<device, due>>
          ELSE /\ block' = <<>>
               /\ due' = due + portBridge
               /\ device' = staged \/ UNCHANGED device

\* The target's commitOutput: a full block goes to the device, which may
\* not have room for it.
CommitOutput(h) ==
  LET staged == Append(block, targetOut[h])
  IN /\ committed' = TRUE
     /\ IF Len(staged) < portBridge
          THEN block' = staged /\ UNCHANGED <<device, due>>
          ELSE /\ block' = <<>>
               /\ due' = due + portBridge
               /\ device' = staged \/ UNCHANGED device

\* The target's outputReady; only the stream thread may commit here.
TargetReady ==
  /\ ReadyReturns
  /\ IF pendingHalf # None /\ ~committed /\ ready.by = "target"
       THEN CommitOutput(pendingHalf)
       ELSE UNCHANGED <<block, committed, device, due>>
  /\ UNCHANGED <<forced, clientVars, threadVars, portVars, pendingHalf>>

\* The wrapper's callback is back; when the event's last period is done
\* the thread may look at what it has measured.
Served ==
  /\ stream = "switching" /\ switch.at = "done"
  /\ switch' = NoSwitch
  /\ IF committed THEN UNCHANGED <<block, committed, device, due>> ELSE CommitOutput(half)
  /\ pendingHalf' = None
  /\ half' = 1 - half
  /\ served' = served + 1
  /\ stream' = IF served + 1 < bridge THEN "serving" ELSE IF calibrated THEN "waiting" ELSE "measuring"
  /\ UNCHANGED <<habit, state, usesReady, pending, hostOut, targetOut, ready, job, period,
                 forced, clientVars, calibrated, startResult, asked, portVars>>

\* Too few events yet; or the device's cycle is the block; or it is coarser.
Calibrate ==
  /\ stream = "measuring"
  /\ \/ stream' = "waiting" /\ UNCHANGED <<calibrated, portVars, block>>
     \/ stream' = "waiting" /\ calibrated' = TRUE /\ UNCHANGED <<portVars, block>>
     \/ /\ calibrated' = TRUE
        /\ \E factor \in Factors : Rebridge(factor, "waiting") \/ RebridgeFails(factor, "ending")
  /\ UNCHANGED <<handshake, forced, clientVars, half, served, startResult, asked, pendingHalf, committed, device, due>>

\* A thread that nobody has stopped asks the host for a reset.
End ==
  /\ stream = "ending"
  /\ stream' = "ended"
  /\ asked' = (asked \/ ~stopRequested)
  /\ UNCHANGED <<handshake, forced, clientVars, half, served, calibrated, startResult, portVars, outputVars>>

StreamStep ==
  \/ Begin \/ Event \/ WaitFails \/ StopSeen \/ ServePeriod \/ Served \/ Calibrate \/ End
  \/ SwitchStep /\ UNCHANGED <<forced, clientVars, threadVars, portVars, outputVars>>

DawStep ==
  \/ TargetReady
  \/ ReadyStep /\ UNCHANGED <<forced, clientVars, threadVars, portVars, outputVars>>

Next == ControlStep \/ StreamStep \/ DawStep

Spec == Init /\ [][Next]_vars

\* Neither the stream thread nor a DAW's callback hangs, and the control
\* thread goes on once what it waits for has happened.
Fairness ==
  /\ WF_vars(StreamStep)
  /\ WF_vars(DawStep)
  /\ WF_vars(Started \/ StartFailed \/ Stopped)

FairSpec == Spec /\ Fairness

-----------------------------------------------------------------------------
(* Properties.                                                             *)

TypeOK ==
  /\ HandshakeTypeOK
  /\ forced \in {0} \cup Factors
  /\ control \in {"idle", "starting", "stopping"}
  /\ stopRequested \in BOOLEAN /\ running \in BOOLEAN
  /\ startResult \in {"none", "ok", "failed"}
  /\ stream \in {"none", "begin", "waiting", "serving", "switching", "measuring", "ending", "ended"}
  /\ half \in Halves /\ served \in Nat /\ calibrated \in BOOLEAN
  /\ opened \in BOOLEAN /\ bridge \in {1} \cup Factors /\ portBridge \in {1} \cup Factors
  /\ block \in Seq(Nat)
  /\ pendingHalf \in Halves \cup {None} /\ committed \in BOOLEAN
  /\ device \in Seq(Nat) /\ due \in Nat /\ asked \in BOOLEAN /\ streams \in Nat

(* The output of a period is committed by one thread at a time, the        *)
(* stream's or the DAW's: commitOutput and the processor's output lane     *)
(* take no lock.                                                           *)
OneCommits == ~(switch.at = "committing" /\ ready.at = "committing")

(* What the device is handed is what the DAW has made, every period once   *)
(* and in order, whatever the device's block is and however often it was   *)
(* opened anew; a DAW that announces from a thread of its own is excepted. *)
DevicePlaysTheDaw ==
  [][device' # device /\ habit # "announces later" =>
       device' = [i \in 1..portBridge |-> due + i - 1]]_vars

(* While a stream runs each event serves exactly one block of the device.  *)
EventServesABlock ==
  stream = "waiting" /\ opened => bridge = portBridge /\ block = <<>>

(* start and stop return, whatever the device answers.                     *)
ControlReturns == []<>(control = "idle")

=============================================================================
