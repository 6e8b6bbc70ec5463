------------------------- MODULE WasapiTarget_proofs -------------------------
(***************************************************************************)
(* Who commits a period, and what the device gets, for any number of       *)
(* periods and streams and for any blocks a device may want.               *)
(***************************************************************************)
EXTENDS WasapiTarget, TLAPS

----------------------------------------------------------------------------
(* Types                                                                   *)

LEMMA HandshakeTypes ==
  ASSUME HandshakeTypeOK, SwitchStep \/ ReadyStep \/ ReadyReturns
  PROVE  HandshakeTypeOK'
<1> USE DEF HandshakeTypeOK, Halves, NoSwitch, NotReady, NoJob, None
<1>1. CASE HostFills
  BY <1>1 DEF HostFills
<1>2. CASE HostPostpones
  BY <1>2 DEF HostPostpones
<1>3. CASE HostReturned
  BY <1>3 DEF HostReturned
<1>4. CASE TakeSwitched
  BY <1>4 DEF TakeSwitched
<1>5. CASE CommitSwitched
  BY <1>5 DEF CommitSwitched
<1>6. CASE AnnounceInside
  BY <1>6 DEF AnnounceInside, Announce
<1>7. CASE AnnounceOutside
  BY <1>7 DEF AnnounceOutside, Announce
<1>8. CASE TakeAnnounced
  BY <1>8 DEF TakeAnnounced
<1>9. CASE LookAtState
  BY <1>9 DEF LookAtState
<1>10. CASE CommitAnnounced
  BY <1>10 DEF CommitAnnounced
<1>11. CASE ReadyReturns
  BY <1>11 DEF ReadyReturns
<1> QED
  BY <1>1, <1>2, <1>3, <1>4, <1>5, <1>6, <1>7, <1>8, <1>9, <1>10, <1>11 DEF SwitchStep, ReadyStep

(* Zenon sees to the flags, SMT to the rest.                                *)
Flags ==
  /\ stopRequested \in BOOLEAN /\ running \in BOOLEAN /\ calibrated \in BOOLEAN
  /\ opened \in BOOLEAN /\ committed \in BOOLEAN /\ asked \in BOOLEAN

Places ==
  /\ forced \in {0} \cup Factors
  /\ control \in {"idle", "starting", "stopping"}
  /\ startResult \in {"none", "ok", "failed"}
  /\ stream \in {"none", "begin", "waiting", "serving", "switching", "measuring", "ending", "ended"}
  /\ half \in Halves /\ served \in Nat
  /\ bridge \in {1} \cup Factors /\ portBridge \in {1} \cup Factors
  /\ pendingHalf \in Halves \cup {None}
  /\ streams \in Nat

Output ==
  /\ block \in Seq(Nat) /\ device \in Seq(Nat) /\ due \in Nat

LEMMA Empty == <<>> \in Seq(Nat)
<1> QED
  OBVIOUS

LEMMA TypeParts == TypeOK <=> HandshakeTypeOK /\ Flags /\ Places /\ Output
<1> QED
  BY Zenon DEF TypeOK, Flags, Places, Output

LEMMA TypePartsPrimed == TypeOK' <=> HandshakeTypeOK' /\ Flags' /\ Places' /\ Output'
<1> QED
  BY Zenon DEF TypeOK, Flags, Places, Output

LEMMA TypeInit == Init => TypeOK
<1>1. Init => HandshakeTypeOK
  <2>1. Init => hostOut \in [Halves -> Nat] /\ targetOut \in [Halves -> Nat]
    BY DEF Init, HandshakeInit
  <2>2. Init => /\ switch = [at |-> "none", half |-> 0]
                /\ ready = [at |-> "away", by |-> "daw", half |-> 0]
                /\ job = NoJob
                /\ pending = None /\ usesReady = FALSE /\ state = "Initialized" /\ period = 0
                /\ habit \in Habits
    BY DEF Init, HandshakeInit, NoSwitch, NotReady
  <2>3. Init => switch \in [at : {"none", "host", "announcing", "returned", "taking", "committing", "done"}, half : Halves]
    BY <2>2 DEF Halves
  <2>4. Init => ready \in [at : {"away", "taking", "taken", "committing", "target"}, by : {"target", "daw"}, half : Halves]
    BY <2>2 DEF Halves
  <2>5. Init => period \in Nat
    BY <2>2
  <2> QED
    BY <2>1, <2>2, <2>3, <2>4, <2>5, Zenon DEF HandshakeTypeOK
<1>2. Init => Flags
  BY DEF Init, Flags
<1>3. Init => Places
  BY TargetAssumption DEF Init, Places, Halves, None
<1>4. Init => Output
  BY DEF Init, Output
<1> QED
  BY <1>1, <1>2, <1>3, <1>4, TypeParts

LEMMA Commits ==
  ASSUME HandshakeTypeOK, Places, Output, NEW h \in Halves, CommitOutput(h)
  PROVE  Output' /\ committed' = TRUE
<1>1. targetOut[h] \in Nat /\ portBridge \in Nat
  BY TargetAssumption DEF HandshakeTypeOK, Places
<1>2. Append(block, targetOut[h]) \in Seq(Nat)
  BY <1>1 DEF Output
<1>3. due + portBridge \in Nat
  BY <1>1 DEF Output
<1>4. committed' = TRUE
  BY Zenon DEF CommitOutput
<1>5. block' \in Seq(Nat)
  <2>1. block' = Append(block, targetOut[h]) \/ block' = <<>>
    BY Zenon DEF CommitOutput
  <2> QED
    BY <1>2, <2>1, Empty
<1>6. device' \in Seq(Nat)
  <2>1. device' = Append(block, targetOut[h]) \/ device' = device
    BY Zenon DEF CommitOutput
  <2> QED
    BY <1>2, <2>1 DEF Output
<1>7. due' \in Nat
  BY <1>3 DEF CommitOutput, Output
<1> QED
  BY <1>4, <1>5, <1>6, <1>7 DEF Output

LEMMA ControlTypes ==
  ASSUME TypeOK, ControlStep
  PROVE  TypeOK'
<1> USE TypeParts, TypePartsPrimed
<1>1. HandshakeTypeOK'
  <2>1. CASE CreateBuffers
    BY <2>1 DEF CreateBuffers, Prepare, HandshakeTypeOK, None
  <2>2. CASE Start
    BY <2>2 DEF Start, Run, HandshakeTypeOK, None
  <2>3. CASE Started \/ Stop
    BY <2>3 DEF Started, Stop, handshake, HandshakeTypeOK
  <2>4. CASE StartFailed \/ Stopped \/ DisposeBuffers
    BY <2>4 DEF StartFailed, Stopped, DisposeBuffers, Become, HandshakeTypeOK
  <2> QED
    BY <2>1, <2>2, <2>3, <2>4 DEF ControlStep
<1>2. Flags'
  BY Zenon DEF ControlStep, CreateBuffers, Start, Started, StartFailed, Stop, Stopped,
         DisposeBuffers, Flags, threadVars, clientVars, portVars, outputVars
<1>3. Places'
  BY DEF ControlStep, CreateBuffers, Start, Started, StartFailed, Stop, Stopped,
         DisposeBuffers, Places, threadVars, clientVars, portVars, outputVars
<1>4. Output'
  <2>1. CASE CreateBuffers \/ DisposeBuffers
    <3>1. block' = <<>> /\ device' = device /\ due' = due
      BY <2>1, Zenon DEF CreateBuffers, DisposeBuffers
    <3> QED
      BY <3>1, Empty DEF Output
  <2>2. CASE Start \/ Started \/ StartFailed \/ Stop \/ Stopped
    BY <2>2 DEF Start, Started, StartFailed, Stop, Stopped, outputVars, Output
  <2> QED
    BY <2>1, <2>2 DEF ControlStep
<1> QED
  BY <1>1, <1>2, <1>3, <1>4

LEMMA StreamTypes ==
  ASSUME TypeOK, StreamStep
  PROVE  TypeOK'
<1> USE TypeParts, TypePartsPrimed
<1>1. CASE Served
  <2>1. Output' /\ Flags'
    <3>1. CASE committed
      BY <1>1, <3>1 DEF Served, Output, Flags, clientVars, portVars
    <3>2. CASE ~committed
      BY <1>1, <3>2, Commits DEF Served, Places, Flags, clientVars, portVars
    <3> QED
      BY <3>1, <3>2
  <2>2. Places'
    BY <1>1 DEF Served, Places, Halves, None, clientVars, portVars
  <2>3. HandshakeTypeOK'
    BY <1>1 DEF Served, HandshakeTypeOK, NoSwitch, Halves
  <2> QED
    BY <2>1, <2>2, <2>3
<1>2. CASE SwitchStep /\ UNCHANGED <<forced, clientVars, threadVars, portVars, outputVars>>
  <2>1. HandshakeTypeOK'
    BY <1>2, HandshakeTypes
  <2>2. Flags'
    BY <1>2, Zenon DEF Flags, clientVars, threadVars, portVars, outputVars
  <2>3. Places' /\ Output'
    BY <1>2 DEF Places, Output, clientVars, threadVars, portVars, outputVars
  <2> QED
    BY <2>1, <2>2, <2>3
<1>3. CASE ServePeriod
  <2>1. HandshakeTypeOK'
    BY <1>3 DEF ServePeriod, SwitchBuffers, HandshakeTypeOK, Places, Halves, None
  <2>2. Flags'
    BY <1>3, Zenon DEF ServePeriod, Flags, clientVars, portVars
  <2>3. Places' /\ Output'
    BY <1>3 DEF ServePeriod, Places, Output, clientVars, portVars
  <2> QED
    BY <2>1, <2>2, <2>3
<1>4. CASE Begin \/ Calibrate
  <2>1. HandshakeTypeOK'
    BY <1>4 DEF Begin, Calibrate, HandshakeTypeOK, handshake
  <2>2. Flags'
    BY <1>4, Zenon DEF Begin, Calibrate, Rebridge, RebridgeFails, Flags, clientVars, portVars
  <2>3. Places'
    BY <1>4 DEF Begin, Calibrate, Rebridge, RebridgeFails, Places, clientVars, portVars, Halves
  <2>4. Output'
    <3>1. due' \in Nat
      BY <1>4 DEF Begin, Calibrate, Output, HandshakeTypeOK
    <3>2. block' = block \/ block' = <<>>
      BY <1>4, Zenon DEF Begin, Calibrate, Rebridge, RebridgeFails
    <3>3. device' = device
      BY <1>4, Zenon DEF Begin, Calibrate
    <3> QED
      BY <3>1, <3>2, <3>3, Empty DEF Output
  <2> QED
    BY <2>1, <2>2, <2>3, <2>4
<1>5. CASE Event \/ WaitFails \/ StopSeen \/ End
  <2>1. HandshakeTypeOK'
    BY <1>5 DEF Event, WaitFails, StopSeen, End, HandshakeTypeOK, handshake
  <2>2. Flags'
    BY <1>5, Zenon DEF Event, WaitFails, StopSeen, End, Flags, clientVars, portVars, outputVars
  <2>3. Places' /\ Output'
    BY <1>5 DEF Event, WaitFails, StopSeen, End, Places, Output, clientVars, portVars, outputVars
  <2> QED
    BY <2>1, <2>2, <2>3
<1> QED
  BY <1>1, <1>2, <1>3, <1>4, <1>5 DEF StreamStep

LEMMA DawTypes ==
  ASSUME TypeOK, DawStep
  PROVE  TypeOK'
<1> USE TypeParts, TypePartsPrimed
<1>1. HandshakeTypeOK'
  BY HandshakeTypes DEF DawStep, TargetReady
<1>2. CASE TargetReady
  <2>1. Places'
    BY <1>2 DEF TargetReady, Places, clientVars, threadVars, portVars
  <2>2. CASE pendingHalf # None /\ ~committed /\ ready.by = "target"
    <3>1. pendingHalf \in Halves
      BY <2>2 DEF Places
    <3>2. Output' /\ committed' = TRUE
      BY <1>2, <2>2, <3>1, Commits DEF TargetReady
    <3>3. Flags'
      BY <1>2, <3>2, Zenon DEF TargetReady, Flags, clientVars, threadVars, portVars
    <3> QED
      BY <1>1, <2>1, <3>2, <3>3
  <2>3. CASE ~(pendingHalf # None /\ ~committed /\ ready.by = "target")
    <3>1. UNCHANGED <<block, committed, device, due>>
      BY <1>2, <2>3, Zenon DEF TargetReady
    <3>2. Output'
      BY <3>1 DEF Output
    <3>3. Flags'
      BY <1>2, <3>1, Zenon DEF TargetReady, Flags, clientVars, threadVars, portVars
    <3> QED
      BY <1>1, <2>1, <3>2, <3>3
  <2> QED
    BY <2>2, <2>3
<1>3. CASE ReadyStep /\ UNCHANGED <<forced, clientVars, threadVars, portVars, outputVars>>
  <2>1. Flags'
    BY <1>3, Zenon DEF Flags, clientVars, threadVars, portVars, outputVars
  <2>2. Places' /\ Output'
    BY <1>3 DEF Places, Output, clientVars, threadVars, portVars, outputVars
  <2> QED
    BY <1>1, <2>1, <2>2
<1> QED
  BY <1>2, <1>3 DEF DawStep

LEMMA Stutters ==
  ASSUME TypeOK, UNCHANGED vars
  PROVE  TypeOK'
<1>1. HandshakeTypeOK'
  BY TypeParts DEF vars, HandshakeTypeOK, handshake
<1>2. Flags'
  BY TypeParts, Zenon DEF vars, Flags, clientVars, threadVars, portVars, outputVars
<1>3. Places' /\ Output'
  BY TypeParts DEF vars, Places, Output, clientVars, threadVars, portVars, outputVars
<1> QED
  BY <1>1, <1>2, <1>3, TypePartsPrimed

(* Types of the wrapper's handshake and of the target, for any number of   *)
(* periods and streams.                                                    *)
THEOREM TypeCorrect == Spec => []TypeOK
<1>1. TypeOK /\ [Next]_vars => TypeOK'
  BY ControlTypes, StreamTypes, DawTypes, Stutters DEF Next
<1> QED
  BY TypeInit, <1>1, PTL DEF Spec

----------------------------------------------------------------------------
(* Who commits                                                             *)

StreamRuns == stream # "none" => state = "Running"

SwitchIsServed ==
  /\ switch.at # "none" <=> stream = "switching"
  /\ switch.at = "announcing" <=> ready.at # "away" /\ ready.by = "target"

NothingBeforeBuffers == state = "Initialized" => ready.at = "away" /\ job = NoJob

AnnouncedIsKnown == ready.at # "away" => usesReady = TRUE

(* A period is pending until one of the two has taken it.                   *)
TakenOnce ==
  /\ switch.at = "committing" => pending = None /\ ready.at \notin {"taken", "committing"}
  /\ switch.at = "taking" /\ ready.at \in {"taken", "committing"} => pending = None

HandshakeInv == StreamRuns /\ SwitchIsServed /\ NothingBeforeBuffers /\ AnnouncedIsKnown /\ TakenOnce

LEMMA HandshakeInvInit == Init => HandshakeInv
<1> QED
  BY DEF Init, HandshakeInit, NoSwitch, NotReady, NoJob, HandshakeInv, StreamRuns, SwitchIsServed,
         NothingBeforeBuffers, AnnouncedIsKnown, TakenOnce

LEMMA HandshakeInvStep ==
  ASSUME HandshakeTypeOK, HandshakeInv, Next
  PROVE  HandshakeInv'
<1>1. /\ switch = [at |-> switch.at, half |-> switch.half]
      /\ ready = [at |-> ready.at, by |-> ready.by, half |-> ready.half]
      /\ switch.half \in Halves /\ ready.half \in Halves
  BY DEF HandshakeTypeOK
<1> USE DEF HandshakeInv, StreamRuns, SwitchIsServed, NothingBeforeBuffers, AnnouncedIsKnown, TakenOnce,
            NoSwitch, NotReady, clientVars, threadVars, handshake, None, Halves
<1>2. CASE CreateBuffers
  BY <1>1, <1>2 DEF CreateBuffers, Prepare
<1>3. CASE Start
  BY <1>1, <1>3 DEF Start, Run
<1>4. CASE Started
  BY <1>1, <1>4 DEF Started
<1>5. CASE StartFailed
  BY <1>1, <1>5 DEF StartFailed, Become
<1>6. CASE Stop
  BY <1>1, <1>6 DEF Stop
<1>7. CASE Stopped
  BY <1>1, <1>7 DEF Stopped, Become
<1>8. CASE DisposeBuffers
  BY <1>1, <1>8 DEF DisposeBuffers, Become
<1>9. CASE Begin
  BY <1>1, <1>9 DEF Begin, Rebridge, RebridgeFails
<1>10. CASE Event
  BY <1>1, <1>10 DEF Event
<1>11. CASE WaitFails
  BY <1>1, <1>11 DEF WaitFails
<1>12. CASE StopSeen
  BY <1>1, <1>12 DEF StopSeen
<1>13. CASE ServePeriod
  BY <1>1, <1>13 DEF ServePeriod, SwitchBuffers
<1>14. CASE Served
  BY <1>1, <1>14 DEF Served
<1>15. CASE Calibrate
  BY <1>1, <1>15 DEF Calibrate, Rebridge, RebridgeFails
<1>16. CASE End
  BY <1>1, <1>16 DEF End
<1>17. CASE HostFills /\ UNCHANGED <<forced, clientVars, threadVars, portVars, outputVars>>
  BY <1>1, <1>17 DEF HostFills
<1>18. CASE HostPostpones /\ UNCHANGED <<forced, clientVars, threadVars, portVars, outputVars>>
  BY <1>1, <1>18 DEF HostPostpones
<1>19. CASE HostReturned /\ UNCHANGED <<forced, clientVars, threadVars, portVars, outputVars>>
  BY <1>1, <1>19 DEF HostReturned
<1>20. CASE TakeSwitched /\ UNCHANGED <<forced, clientVars, threadVars, portVars, outputVars>>
  BY <1>1, <1>20 DEF TakeSwitched
<1>21. CASE CommitSwitched /\ UNCHANGED <<forced, clientVars, threadVars, portVars, outputVars>>
  BY <1>1, <1>21 DEF CommitSwitched
<1>22. CASE AnnounceInside /\ UNCHANGED <<forced, clientVars, threadVars, portVars, outputVars>>
  BY <1>1, <1>22 DEF AnnounceInside, Announce
<1>23. CASE AnnounceOutside /\ UNCHANGED <<forced, clientVars, threadVars, portVars, outputVars>>
  BY <1>1, <1>23 DEF AnnounceOutside, Announce
<1>24. CASE TakeAnnounced /\ UNCHANGED <<forced, clientVars, threadVars, portVars, outputVars>>
  BY <1>1, <1>24 DEF TakeAnnounced
<1>25. CASE LookAtState /\ UNCHANGED <<forced, clientVars, threadVars, portVars, outputVars>>
  BY <1>1, <1>25 DEF LookAtState
<1>26. CASE CommitAnnounced /\ UNCHANGED <<forced, clientVars, threadVars, portVars, outputVars>>
  BY <1>1, <1>26 DEF CommitAnnounced
<1>27. CASE TargetReady
  BY <1>1, <1>27 DEF TargetReady, ReadyReturns
<1> QED
  BY <1>2, <1>3, <1>4, <1>5, <1>6, <1>7, <1>8, <1>9, <1>10, <1>11, <1>12, <1>13, <1>14,
     <1>15, <1>16, <1>17, <1>18, <1>19, <1>20, <1>21, <1>22, <1>23, <1>24, <1>25, <1>26, <1>27
  DEF Next, ControlStep, StreamStep, SwitchStep, DawStep, ReadyStep

(* One thread at a time commits the output of a period, although neither   *)
(* the wrapper nor the processor takes a lock.                             *)
THEOREM OneThreadCommits == Spec => []OneCommits
<1>1. TypeOK /\ HandshakeInv /\ [Next]_vars => HandshakeInv'
  <2>1. ASSUME HandshakeInv, UNCHANGED vars PROVE HandshakeInv'
    BY <2>1 DEF vars, handshake, threadVars, HandshakeInv, StreamRuns, SwitchIsServed,
       NothingBeforeBuffers, AnnouncedIsKnown, TakenOnce
  <2> QED
    BY <2>1, HandshakeInvStep DEF TypeOK
<1>2. HandshakeInv => OneCommits
  BY DEF HandshakeInv, TakenOnce, OneCommits
<1> QED
  BY TypeCorrect, HandshakeInvInit, <1>1, <1>2, PTL DEF Spec

----------------------------------------------------------------------------
(* Blocks                                                                  *)

BridgesAgree == bridge = portBridge

(* The periods staged are those of the event under way.                     *)
Staged ==
  /\ stream = "serving" => served < portBridge /\ Len(block) = served
  /\ stream = "switching" =>
       /\ served < portBridge
       /\ ~committed => Len(block) = served
       /\ committed => Len(block) = IF served + 1 = portBridge THEN 0 ELSE served + 1
  /\ stream \notin {"serving", "switching"} => block = <<>>

BlockInv == BridgesAgree /\ Staged

LEMMA Lengths ==
  ASSUME HandshakeTypeOK, Places, Output, NEW h \in Halves, CommitOutput(h)
  PROVE  /\ Len(block) + 1 < portBridge => Len(block') = Len(block) + 1
         /\ Len(block) + 1 >= portBridge => block' = <<>>
<1>1. targetOut[h] \in Nat /\ block \in Seq(Nat)
  BY DEF HandshakeTypeOK, Output
<1>2. portBridge \in Nat /\ Len(block) \in Nat
  BY <1>1, TargetAssumption DEF Places
<1>3. Len(Append(block, targetOut[h])) = Len(block) + 1
  BY <1>1
<1>4. Len(Append(block, targetOut[h])) < portBridge => block' = Append(block, targetOut[h])
  BY Zenon DEF CommitOutput
<1>5. ~(Len(Append(block, targetOut[h])) < portBridge) => block' = <<>>
  BY Zenon DEF CommitOutput
<1> QED
  BY <1>2, <1>3, <1>4, <1>5

LEMMA BridgeIsPositive ==
  ASSUME Places
  PROVE  portBridge \in Nat /\ portBridge > 0 /\ served \in Nat /\ half \in Halves
<1>1. portBridge \in {1} \cup Factors
  BY DEF Places
<1>2. portBridge = 1 \/ portBridge \in 2..8
  BY <1>1, TargetAssumption
<1>3. served \in Nat /\ half \in Halves
  BY DEF Places
<1> QED
  BY <1>2, <1>3

LEMMA BlockInvStep ==
  ASSUME TypeOK, HandshakeInv, BlockInv, StartRefused = FALSE, Next
  PROVE  BlockInv'
<1>0. HandshakeTypeOK /\ Places /\ Output
  BY TypeParts
<1> USE TypeParts DEF BlockInv, BridgesAgree, Staged, clientVars, threadVars, portVars, outputVars
<1>1. portBridge \in Nat /\ portBridge > 0 /\ served \in Nat /\ half \in Halves
  BY <1>0, BridgeIsPositive
<1>e. Len(<<>>) = 0
  OBVIOUS
<1>2. CASE Served
  <2>1. CASE committed
    BY <1>1, <1>2, <2>1 DEF Served, Output
  <2>2. CASE ~committed
    <3>1. CommitOutput(half)
      BY <1>2, <2>2, Zenon DEF Served
    <3>2. /\ Len(block) + 1 < portBridge => Len(block') = Len(block) + 1
          /\ Len(block) + 1 >= portBridge => block' = <<>>
      BY <1>0, <1>1, <3>1, Lengths
    <3>3. /\ served' = served + 1 /\ UNCHANGED portVars /\ stream = "switching"
          /\ stream' = IF served + 1 < bridge THEN "serving" ELSE IF calibrated THEN "waiting" ELSE "measuring"
      BY <1>2 DEF Served
    <3>4. Len(block) = served /\ served < portBridge /\ bridge = portBridge
      BY <2>2, <3>3
    <3> QED
      BY <1>1, <3>2, <3>3, <3>4
  <2> QED
    BY <2>1, <2>2
<1>3. CASE TargetReady
  <2>1. stream' = stream /\ served' = served /\ UNCHANGED portVars
    BY <1>3 DEF TargetReady
  <2>2. CASE pendingHalf # None /\ ~committed /\ ready.by = "target"
    <3>1. stream = "switching"
      BY <1>3, <2>2 DEF TargetReady, ReadyReturns, HandshakeInv, SwitchIsServed
    <3>2. pendingHalf \in Halves /\ CommitOutput(pendingHalf)
      <4>1. CommitOutput(pendingHalf)
        BY <1>3, <2>2, Zenon DEF TargetReady
      <4>2. pendingHalf \in Halves \cup {None}
        BY <1>0 DEF Places
      <4> QED
        BY <2>2, <4>1, <4>2
    <3>3. /\ Len(block) + 1 < portBridge => Len(block') = Len(block) + 1
          /\ Len(block) + 1 >= portBridge => block' = <<>>
      BY <1>0, <3>2, Lengths
    <3>4. committed'
      BY <3>2, Zenon DEF CommitOutput
    <3>5. Len(block) = served /\ served < portBridge
      BY <2>2, <3>1
    <3> QED
      BY <1>1, <1>e, <2>1, <3>1, <3>3, <3>4, <3>5
  <2>3. CASE ~(pendingHalf # None /\ ~committed /\ ready.by = "target")
    BY <1>3, <2>1, <2>3 DEF TargetReady
  <2> QED
    BY <2>2, <2>3
<1>4. CASE ServePeriod
  BY <1>4 DEF ServePeriod
<1>5. CASE Begin \/ Calibrate
  BY <1>5 DEF Begin, Calibrate, Rebridge, RebridgeFails
<1>6. CASE Event
  BY <1>1, <1>6 DEF Event
<1>7. CASE WaitFails \/ StopSeen \/ End
  BY <1>7 DEF WaitFails, StopSeen, End
<1>8. CASE CreateBuffers \/ Start \/ DisposeBuffers
  <2>1. stream \notin {"serving", "switching"}
    BY <1>8 DEF CreateBuffers, Start, DisposeBuffers, HandshakeInv, StreamRuns
  <2> QED
    BY <1>8, <2>1 DEF CreateBuffers, Start, DisposeBuffers
<1>9. CASE Started \/ StartFailed \/ Stop \/ Stopped
  BY <1>9 DEF Started, StartFailed, Stop, Stopped
<1>10. CASE UNCHANGED <<forced, clientVars, threadVars, portVars, outputVars>>
  BY <1>10
<1> QED
  BY <1>2, <1>3, <1>4, <1>5, <1>6, <1>7, <1>8, <1>9, <1>10
  DEF Next, ControlStep, StreamStep, DawStep

(* While a stream waits for the device, the periods of an event are those  *)
(* of the device's block, and none is left over.                           *)
THEOREM EventsServeBlocks == StartRefused = FALSE => (Spec => []EventServesABlock)
<1> SUFFICES ASSUME StartRefused = FALSE PROVE Spec => []EventServesABlock
  OBVIOUS
<1>1. Init => HandshakeInv /\ BlockInv
  BY HandshakeInvInit DEF Init, BlockInv, BridgesAgree, Staged
<1>2. TypeOK /\ HandshakeInv /\ BlockInv /\ [Next]_vars => (HandshakeInv /\ BlockInv)'
  <2>1. ASSUME HandshakeInv, BlockInv, UNCHANGED vars PROVE (HandshakeInv /\ BlockInv)'
    <3>1. HandshakeInv'
      BY <2>1 DEF vars, handshake, threadVars, HandshakeInv, StreamRuns, SwitchIsServed,
         NothingBeforeBuffers, AnnouncedIsKnown, TakenOnce
    <3>2. BlockInv'
      BY <2>1 DEF vars, threadVars, portVars, outputVars, BlockInv, BridgesAgree, Staged
    <3> QED
      BY <3>1, <3>2
  <2> QED
    BY <2>1, HandshakeInvStep, BlockInvStep DEF TypeOK
<1>3. BlockInv => EventServesABlock
  BY DEF BlockInv, BridgesAgree, Staged, EventServesABlock
<1> QED
  BY TypeCorrect, <1>1, <1>2, <1>3, PTL DEF Spec

----------------------------------------------------------------------------
(* What the device plays: a DAW that delivers in its callback or announces *)
(* from inside it.                                                         *)

HabitKept ==
  /\ job = NoJob
  /\ habit = "returns" => usesReady = FALSE
  /\ ready.at # "away" => ready.by = "target"

(* Where the output of the period that is being switched has got to.       *)
SwitchedOutput ==
  /\ stream = "switching" => switch.half = half /\ pendingHalf = half
  /\ switch.at = "host" => pending = switch.half /\ ready.at = "away"
  /\ switch.at = "announcing" =>
       /\ habit = "announces"
       /\ hostOut[switch.half] = period
       /\ ready.at = "taking" => pending = switch.half
       /\ ready.at \in {"taken", "committing"} => ready.half = switch.half
       /\ ready.at = "target" => targetOut[switch.half] = period
  /\ switch.at = "returned" =>
       /\ usesReady = TRUE => targetOut[switch.half] = period
       /\ usesReady = FALSE => hostOut[switch.half] = period /\ pending = switch.half
  /\ switch.at = "taking" => hostOut[switch.half] = period /\ pending = switch.half
  /\ switch.at = "committing" => hostOut[switch.half] = period
  /\ switch.at = "done" => targetOut[switch.half] = period

SwitchInv == HabitKept /\ SwitchedOutput

LEMMA HabitKeptStep ==
  ASSUME HandshakeTypeOK, HandshakeInv, habit # "announces later", HabitKept, Next
  PROVE  HabitKept' /\ habit' = habit
<1>1. ready = [at |-> ready.at, by |-> ready.by, half |-> ready.half]
  BY DEF HandshakeTypeOK
<1> USE DEF HabitKept, HandshakeInv, SwitchIsServed, NoSwitch, NotReady, handshake
<1>2. CASE CreateBuffers
  BY <1>1, <1>2 DEF CreateBuffers, Prepare
<1>3. CASE Start
  BY <1>1, <1>3 DEF Start, Run
<1>4. CASE Started
  BY <1>1, <1>4 DEF Started
<1>5. CASE StartFailed
  BY <1>1, <1>5 DEF StartFailed, Become
<1>6. CASE Stop
  BY <1>1, <1>6 DEF Stop
<1>7. CASE Stopped
  BY <1>1, <1>7 DEF Stopped, Become
<1>8. CASE DisposeBuffers
  BY <1>1, <1>8 DEF DisposeBuffers, Become
<1>9. CASE Begin
  BY <1>1, <1>9 DEF Begin, Rebridge, RebridgeFails
<1>10. CASE Event
  BY <1>1, <1>10 DEF Event
<1>11. CASE WaitFails
  BY <1>1, <1>11 DEF WaitFails
<1>12. CASE StopSeen
  BY <1>1, <1>12 DEF StopSeen
<1>13. CASE ServePeriod
  BY <1>1, <1>13 DEF ServePeriod, SwitchBuffers
<1>14. CASE Served
  BY <1>1, <1>14 DEF Served
<1>15. CASE Calibrate
  BY <1>1, <1>15 DEF Calibrate, Rebridge, RebridgeFails
<1>16. CASE End
  BY <1>1, <1>16 DEF End
<1>17. CASE HostFills /\ UNCHANGED <<forced, clientVars, threadVars, portVars, outputVars>>
  BY <1>1, <1>17 DEF HostFills
<1>18. CASE HostPostpones /\ UNCHANGED <<forced, clientVars, threadVars, portVars, outputVars>>
  BY <1>1, <1>18 DEF HostPostpones
<1>19. CASE HostReturned /\ UNCHANGED <<forced, clientVars, threadVars, portVars, outputVars>>
  BY <1>1, <1>19 DEF HostReturned
<1>20. CASE TakeSwitched /\ UNCHANGED <<forced, clientVars, threadVars, portVars, outputVars>>
  BY <1>1, <1>20 DEF TakeSwitched
<1>21. CASE CommitSwitched /\ UNCHANGED <<forced, clientVars, threadVars, portVars, outputVars>>
  BY <1>1, <1>21 DEF CommitSwitched
<1>22. CASE AnnounceInside /\ UNCHANGED <<forced, clientVars, threadVars, portVars, outputVars>>
  BY <1>1, <1>22 DEF AnnounceInside, Announce
<1>23. CASE AnnounceOutside /\ UNCHANGED <<forced, clientVars, threadVars, portVars, outputVars>>
  BY <1>1, <1>23 DEF AnnounceOutside, Announce
<1>24. CASE TakeAnnounced /\ UNCHANGED <<forced, clientVars, threadVars, portVars, outputVars>>
  BY <1>1, <1>24 DEF TakeAnnounced
<1>25. CASE LookAtState /\ UNCHANGED <<forced, clientVars, threadVars, portVars, outputVars>>
  BY <1>1, <1>25 DEF LookAtState
<1>26. CASE CommitAnnounced /\ UNCHANGED <<forced, clientVars, threadVars, portVars, outputVars>>
  BY <1>1, <1>26 DEF CommitAnnounced
<1>27. CASE TargetReady
  BY <1>1, <1>27 DEF TargetReady, ReadyReturns
<1> QED
  BY <1>2, <1>3, <1>4, <1>5, <1>6, <1>7, <1>8, <1>9, <1>10, <1>11, <1>12, <1>13, <1>14,
     <1>15, <1>16, <1>17, <1>18, <1>19, <1>20, <1>21, <1>22, <1>23, <1>24, <1>25, <1>26, <1>27
  DEF Next, ControlStep, StreamStep, SwitchStep, DawStep, ReadyStep

LEMMA SwitchedOutputStep ==
  ASSUME HandshakeTypeOK, HandshakeInv, habit # "announces later", SwitchInv, Next
  PROVE  SwitchedOutput'
<1>1. /\ switch = [at |-> switch.at, half |-> switch.half]
      /\ ready = [at |-> ready.at, by |-> ready.by, half |-> ready.half]
      /\ switch.half \in Halves /\ ready.half \in Halves
      /\ hostOut \in [Halves -> Nat] /\ targetOut \in [Halves -> Nat]
      /\ usesReady \in BOOLEAN
      /\ habit \in {"returns", "announces", "announces later"}
  BY HandshakeAssumption DEF HandshakeTypeOK
<1> USE DEF SwitchInv, HabitKept, SwitchedOutput, HandshakeInv, StreamRuns, SwitchIsServed, AnnouncedIsKnown,
            NoSwitch, NotReady, clientVars, threadVars, outputVars, handshake, None, Halves
<1>2. CASE CreateBuffers
  BY <1>1, <1>2 DEF CreateBuffers, Prepare
<1>3. CASE Start
  BY <1>1, <1>3 DEF Start, Run
<1>4. CASE Started
  BY <1>1, <1>4 DEF Started
<1>5. CASE StartFailed
  BY <1>1, <1>5 DEF StartFailed, Become
<1>6. CASE Stop
  BY <1>1, <1>6 DEF Stop
<1>7. CASE Stopped
  BY <1>1, <1>7 DEF Stopped, Become
<1>8. CASE DisposeBuffers
  BY <1>1, <1>8 DEF DisposeBuffers, Become
<1>9. CASE Begin
  BY <1>1, <1>9 DEF Begin, Rebridge, RebridgeFails
<1>10. CASE Event
  BY <1>1, <1>10 DEF Event
<1>11. CASE WaitFails
  BY <1>1, <1>11 DEF WaitFails
<1>12. CASE StopSeen
  BY <1>1, <1>12 DEF StopSeen
<1>13. CASE ServePeriod
  <2>1. state = "Running" /\ ready.at = "away" /\ stream' = "switching" /\ half' = half /\ pendingHalf' = half
    BY <1>13 DEF ServePeriod, SwitchBuffers
  <2>2. switch' = [at |-> "host", half |-> half] /\ pending' = half /\ ready' = ready
    BY <1>13, <2>1 DEF ServePeriod, SwitchBuffers
  <2> QED
    BY <2>1, <2>2
<1>14. CASE Served
  BY <1>1, <1>14 DEF Served
<1>15. CASE Calibrate
  BY <1>1, <1>15 DEF Calibrate, Rebridge, RebridgeFails
<1>16. CASE End
  BY <1>1, <1>16 DEF End
<1>17. CASE HostFills /\ UNCHANGED <<forced, clientVars, threadVars, portVars, outputVars>>
  BY <1>1, <1>17 DEF HostFills
<1>18. CASE HostPostpones /\ UNCHANGED <<forced, clientVars, threadVars, portVars, outputVars>>
  BY <1>1, <1>18 DEF HostPostpones
<1>19. CASE HostReturned /\ UNCHANGED <<forced, clientVars, threadVars, portVars, outputVars>>
  BY <1>1, <1>19 DEF HostReturned
<1>20. CASE TakeSwitched /\ UNCHANGED <<forced, clientVars, threadVars, portVars, outputVars>>
  BY <1>1, <1>20 DEF TakeSwitched
<1>21. CASE CommitSwitched /\ UNCHANGED <<forced, clientVars, threadVars, portVars, outputVars>>
  BY <1>1, <1>21 DEF CommitSwitched
<1>22. CASE AnnounceInside /\ UNCHANGED <<forced, clientVars, threadVars, portVars, outputVars>>
  BY <1>1, <1>22 DEF AnnounceInside, Announce
<1>23. CASE AnnounceOutside /\ UNCHANGED <<forced, clientVars, threadVars, portVars, outputVars>>
  BY <1>1, <1>23 DEF AnnounceOutside, Announce
<1>24. CASE TakeAnnounced /\ UNCHANGED <<forced, clientVars, threadVars, portVars, outputVars>>
  <2>0. ready.at = "taking" /\ ready.by = "target"
    BY <1>24 DEF TakeAnnounced
  <2>1. switch.at = "announcing" /\ ready.at = "taking" /\ pending = switch.half /\ pending # None
    BY <1>1, <2>0
  <2>2. ready' = [[ready EXCEPT !.at = "taken"] EXCEPT !.half = pending]
    BY <1>24, <2>1 DEF TakeAnnounced
  <2>3. ready'.at = "taken" /\ ready'.half = switch.half
    BY <1>1, <2>1, <2>2
  <2> QED
    BY <1>24, <2>1, <2>3 DEF TakeAnnounced
<1>25. CASE LookAtState /\ UNCHANGED <<forced, clientVars, threadVars, portVars, outputVars>>
  <2>1. switch.at = "announcing" /\ state = "Running" /\ ready.at = "taken"
    BY <1>25 DEF LookAtState
  <2>2. ready' = [ready EXCEPT !.at = "committing"]
    BY <1>25, <2>1 DEF LookAtState
  <2>3. ready'.at = "committing" /\ ready'.half = ready.half
    BY <1>1, <2>2
  <2> QED
    BY <1>25, <2>1, <2>3 DEF LookAtState
<1>26. CASE CommitAnnounced /\ UNCHANGED <<forced, clientVars, threadVars, portVars, outputVars>>
  BY <1>1, <1>26 DEF CommitAnnounced
<1>27. CASE TargetReady
  BY <1>1, <1>27 DEF TargetReady, ReadyReturns
<1> QED
  BY <1>2, <1>3, <1>4, <1>5, <1>6, <1>7, <1>8, <1>9, <1>10, <1>11, <1>12, <1>13, <1>14,
     <1>15, <1>16, <1>17, <1>18, <1>19, <1>20, <1>21, <1>22, <1>23, <1>24, <1>25, <1>26, <1>27
  DEF Next, ControlStep, StreamStep, SwitchStep, DawStep, ReadyStep

(* Periods are numbered in the order in which they reach the device.       *)
InOrder ==
  /\ \A i \in 1..Len(block) : block[i] = due + i - 1
  /\ stream = "serving" => period + 1 = due + Len(block)
  /\ stream = "switching" /\ committed => period + 1 = due + Len(block)
  /\ stream = "switching" /\ ~committed => period = due + Len(block)
  /\ stream \in {"waiting", "measuring"} => period + 1 = due

LEMMA CommitsInOrder ==
  ASSUME HandshakeTypeOK, Places, Output, NEW h \in Halves, CommitOutput(h),
         \A i \in 1..Len(block) : block[i] = due + i - 1,
         targetOut[h] = due + Len(block),
         Len(block) < portBridge
  PROVE  /\ \A i \in 1..Len(block') : block'[i] = due' + i - 1
         /\ due' + Len(block') = due + Len(block) + 1
         /\ device' # device => device' = [i \in 1..portBridge |-> due + i - 1]
<1> DEFINE staged == Append(block, targetOut[h])
<1>1. targetOut[h] \in Nat /\ block \in Seq(Nat) /\ due \in Nat /\ portBridge \in Nat /\ Len(block) \in Nat
  BY BridgeIsPositive DEF HandshakeTypeOK, Output
<1>2. Len(staged) = Len(block) + 1
  BY <1>1
<1>3. \A i \in 1..Len(staged) : staged[i] = due + i - 1
  BY <1>1
<1>4. staged \in Seq(Nat)
  BY <1>1
<1>5. CASE Len(staged) < portBridge
  <2>1. block' = staged /\ due' = due /\ device' = device
    BY <1>5, Zenon DEF CommitOutput
  <2> QED
    BY <1>1, <1>2, <1>3, <2>1
<1>6. CASE ~(Len(staged) < portBridge)
  <2>1. block' = <<>> /\ due' = due + portBridge /\ (device' = staged \/ device' = device)
    BY <1>6, Zenon DEF CommitOutput
  <2>2. Len(staged) = portBridge
    BY <1>1, <1>2, <1>6
  <2>3. staged = [i \in 1..portBridge |-> due + i - 1]
    <3>1. staged = [i \in 1..Len(staged) |-> staged[i]]
      BY <1>4
    <3> HIDE DEF staged
    <3> QED
      BY <1>3, <2>2, <3>1
  <2> HIDE DEF staged
  <2>4. Len(<<>>) = 0 /\ \A i \in 1..0 : FALSE
    OBVIOUS
  <2> QED
    BY <1>1, <1>2, <2>1, <2>2, <2>3, <2>4
<1> QED
  BY <1>5, <1>6

LEMMA EmptyIsEmpty == Len(<<>>) = 0 /\ \A i \in 1..Len(<<>>) : FALSE
<1>1. Len(<<>>) = 0
  OBVIOUS
<1>2. \A i \in 1..0 : FALSE
  OBVIOUS
<1> QED
  BY <1>1, <1>2

LEMMA NothingToAdd == \A d \in Nat : \A l : l = 0 => d + l = d
<1> QED
  OBVIOUS

LEMMA LengthIsNat ==
  ASSUME Output
  PROVE  Len(block) \in Nat
<1>1. block \in Seq(Nat)
  BY DEF Output
<1> QED
  BY <1>1

LEMMA InOrderStep ==
  ASSUME TypeOK, HandshakeInv, BlockInv, StartRefused = FALSE, SwitchInv, InOrder, habit # "announces later", Next
  PROVE  /\ InOrder'
         /\ device' # device => device' = [i \in 1..portBridge |-> due + i - 1]
<1>1. HandshakeTypeOK /\ Places /\ Output
  BY TypeParts
<1>2. /\ portBridge \in Nat /\ portBridge > 0 /\ served \in Nat /\ half \in Halves
      /\ period \in Nat /\ due \in Nat /\ Len(block) \in Nat
  <2>1. block \in Seq(Nat) /\ period \in Nat /\ due \in Nat
    BY <1>1 DEF HandshakeTypeOK, Output
  <2>2. Len(block) \in Nat
    BY <1>1, LengthIsNat
  <2>3. portBridge \in Nat /\ portBridge > 0 /\ served \in Nat /\ half \in Halves
    BY <1>1, BridgeIsPositive
  <2> QED
    BY <2>1, <2>2, <2>3
<1>3. Len(<<>>) = 0 /\ \A i \in 1..Len(<<>>) : FALSE
  BY EmptyIsEmpty
<1>e. (block = <<>> => Len(block) = 0) /\ (block' = <<>> => Len(block') = 0)
  BY EmptyIsEmpty
<1>4. CASE Served
  <2>1. /\ stream = "switching" /\ switch.at = "done" /\ period' = period
        /\ stream' \in {"serving", "waiting", "measuring"}
    BY <1>4 DEF Served
  <2>2. stream' \in {"waiting", "measuring"} => block' = <<>>
    BY BlockInvStep DEF BlockInv, Staged
  <2>e. stream' \in {"waiting", "measuring"} => Len(block') = 0
    BY <1>e, <2>2, Zenon
  <2>3. CASE committed
    <3>1. block' = block /\ due' = due /\ device' = device
      BY <1>4, <2>3, Zenon DEF Served
    <3>2. period + 1 = due + Len(block)
      BY <2>1, <2>3 DEF InOrder
    <3>3. \A i \in 1..Len(block') : block'[i] = due' + i - 1
      BY <3>1 DEF InOrder
    <3>4. period' + 1 = due' + Len(block')
      BY <2>1, <3>1, <3>2
    <3>5. stream' \in {"waiting", "measuring"} => period' + 1 = due'
      <4>1. due' \in Nat
        BY <1>2, <3>1
      <4> QED
        BY <2>e, <3>4, <4>1, NothingToAdd, Zenon
    <3> QED
      BY <2>1, <3>1, <3>3, <3>4, <3>5 DEF InOrder
  <2>4. CASE ~committed
    <3>1. CommitOutput(half)
      BY <1>4, <2>4, Zenon DEF Served
    <3>2. period = due + Len(block)
      BY <1>2, <2>1, <2>4 DEF InOrder
    <3>3. targetOut[half] = period
      BY <2>1 DEF SwitchInv, SwitchedOutput
    <3>4. Len(block) < portBridge
      BY <2>1, <2>4 DEF BlockInv, Staged
    <3>5. \A i \in 1..Len(block) : block[i] = due + i - 1
      BY DEF InOrder
    <3>6. /\ \A i \in 1..Len(block') : block'[i] = due' + i - 1
          /\ due' + Len(block') = due + Len(block) + 1
          /\ device' # device => device' = [i \in 1..portBridge |-> due + i - 1]
      BY <1>1, <1>2, <3>1, <3>2, <3>3, <3>4, <3>5, CommitsInOrder
    <3>7. due' \in Nat
      BY <1>1, <1>2, <3>1, Commits DEF Output
    <3>8. stream' = "serving" => period' + 1 = due' + Len(block')
      BY <2>1, <3>2, <3>6
    <3>9. stream' \in {"waiting", "measuring"} => period' + 1 = due'
      <4>1. period' + 1 = due' + Len(block')
        BY <2>1, <3>2, <3>6
      <4> QED
        BY <2>e, <3>7, <4>1, NothingToAdd, Zenon
    <3> QED
      BY <2>1, <3>6, <3>8, <3>9 DEF InOrder
  <2> QED
    BY <2>3, <2>4
<1>5. CASE TargetReady
  <2>1. period' = period /\ stream' = stream /\ ready.at = "target"
    BY <1>5 DEF TargetReady, ReadyReturns, threadVars
  <2>2. CASE pendingHalf # None /\ ~committed /\ ready.by = "target"
    <3>1. stream = "switching" /\ switch.at = "announcing"
      BY <2>1, <2>2 DEF HandshakeInv, SwitchIsServed
    <3>2. switch.half = half /\ pendingHalf = half
      BY <3>1 DEF SwitchInv, SwitchedOutput
    <3>3. CommitOutput(half)
      <4>1. CommitOutput(pendingHalf)
        BY <1>5, <2>2, Zenon DEF TargetReady
      <4> QED
        BY <3>2, <4>1
    <3>4. period = due + Len(block)
      BY <1>2, <2>2, <3>1 DEF InOrder
    <3>5. targetOut[half] = period
      BY <2>1, <3>1, <3>2 DEF SwitchInv, SwitchedOutput
    <3>6. Len(block) < portBridge
      BY <2>2, <3>1 DEF BlockInv, Staged
    <3>7. \A i \in 1..Len(block) : block[i] = due + i - 1
      BY DEF InOrder
    <3>8. /\ \A i \in 1..Len(block') : block'[i] = due' + i - 1
          /\ due' + Len(block') = due + Len(block) + 1
          /\ device' # device => device' = [i \in 1..portBridge |-> due + i - 1]
      BY <1>1, <1>2, <3>3, <3>4, <3>5, <3>6, <3>7, CommitsInOrder
    <3>9. committed'
      BY <3>3, Zenon DEF CommitOutput
    <3>10. period' + 1 = due' + Len(block')
      BY <2>1, <3>4, <3>8
    <3> QED
      BY <2>1, <3>1, <3>8, <3>9, <3>10 DEF InOrder
  <2>3. CASE ~(pendingHalf # None /\ ~committed /\ ready.by = "target")
    <3>1. UNCHANGED <<block, committed, device, due>>
      BY <1>5, <2>3, Zenon DEF TargetReady
    <3> QED
      BY <2>1, <3>1 DEF InOrder
  <2> QED
    BY <2>2, <2>3
<1>6. CASE ServePeriod
  <2>1. state = "Running" /\ stream = "serving"
    BY <1>6 DEF ServePeriod, HandshakeInv, StreamRuns
  <2>2. /\ period' = period + 1 /\ stream' = "switching" /\ committed' = FALSE
        /\ UNCHANGED <<block, device, due>>
    BY <1>6, <2>1 DEF ServePeriod, SwitchBuffers
  <2> QED
    BY <1>2, <2>1, <2>2 DEF InOrder
<1>7. CASE Begin
  <2>1. stream = "begin" /\ block = <<>>
    BY <1>7 DEF Begin, BlockInv, Staged
  <2>2. /\ period' = period /\ due' = period + 1 /\ device' = device
        /\ stream' \in {"waiting", "ended"} /\ block' = <<>>
    BY <1>7, <2>1 DEF Begin, Rebridge, RebridgeFails, handshake
  <2> QED
    BY <1>3, <2>2 DEF InOrder
<1>8. CASE Calibrate
  <2>1. stream = "measuring" /\ block = <<>>
    BY <1>8 DEF Calibrate, BlockInv, Staged
  <2>2. /\ period' = period /\ due' = due /\ device' = device
        /\ stream' \in {"waiting", "ending"} /\ block' = <<>>
    BY <1>8, <2>1 DEF Calibrate, Rebridge, RebridgeFails, handshake
  <2> QED
    BY <1>3, <2>1, <2>2 DEF InOrder
<1>9. CASE Event
  <2>1. stream = "waiting" /\ block = <<>>
    BY <1>9 DEF Event, BlockInv, Staged
  <2>2. period' = period /\ stream' = "serving" /\ UNCHANGED <<block, device, due>>
    BY <1>9 DEF Event, handshake, outputVars
  <2>3. \A i \in 1..Len(block') : block'[i] = due' + i - 1
    BY <2>2 DEF InOrder
  <2>4. Len(block) = 0 /\ Len(block') = 0
    BY <1>e, <2>1, <2>2, Zenon
  <2>5. period + 1 = due
    BY <2>1 DEF InOrder
  <2>6. period' + 1 = due' + Len(block')
    <3>1. due' \in Nat /\ period' + 1 = due'
      BY <1>2, <2>2, <2>5
    <3> QED
      BY <2>4, <3>1, NothingToAdd, Zenon
  <2> QED
    BY <2>2, <2>3, <2>6 DEF InOrder
<1>10. CASE WaitFails \/ StopSeen \/ End
  <2>1. period' = period /\ stream' \in {"ending", "ended"} /\ UNCHANGED <<block, device, due>>
    BY <1>10 DEF WaitFails, StopSeen, End, handshake, outputVars
  <2> QED
    BY <2>1 DEF InOrder
<1>11. CASE CreateBuffers \/ Start \/ DisposeBuffers
  <2>1. \/ stream = "none" /\ block = <<>>
        \/ stream \in {"begin", "waiting", "serving", "switching", "measuring", "ending", "ended"}
    BY <1>1 DEF Places, BlockInv, Staged
  <2>2. stream = "none"
    BY <1>1, <1>11 DEF CreateBuffers, Start, DisposeBuffers, HandshakeInv, StreamRuns
  <2>3. /\ stream' \in {"none", "begin"} /\ block' = <<>> /\ due' = due /\ device' = device
    BY <1>11, <2>1, <2>2 DEF CreateBuffers, Start, DisposeBuffers, threadVars, outputVars
  <2> QED
    BY <1>3, <2>3 DEF InOrder
<1>12. CASE Started \/ StartFailed \/ Stop \/ Stopped
  <2>1. /\ stream' \in {stream, "none"} /\ period' = period
        /\ UNCHANGED <<block, committed, device, due>>
    BY <1>12 DEF Started, StartFailed, Stop, Stopped, Become, handshake, threadVars, outputVars
  <2> QED
    BY <2>1 DEF InOrder
<1>13. CASE (SwitchStep \/ ReadyStep) /\ UNCHANGED <<forced, clientVars, threadVars, portVars, outputVars>>
  <2>1. period' = period
    BY <1>13 DEF SwitchStep, HostFills, HostPostpones, HostReturned, TakeSwitched, CommitSwitched,
                 ReadyStep, AnnounceInside, AnnounceOutside, Announce, TakeAnnounced, LookAtState, CommitAnnounced
  <2>2. UNCHANGED <<stream, block, committed, device, due>>
    BY <1>13 DEF threadVars, outputVars
  <2> QED
    BY <2>1, <2>2 DEF InOrder
<1> QED
  BY <1>4, <1>5, <1>6, <1>7, <1>8, <1>9, <1>10, <1>11, <1>12, <1>13
  DEF Next, ControlStep, StreamStep, DawStep

LEMMA HabitStays ==
  ASSUME Next
  PROVE  habit' = habit
<1> QED
  BY DEF Next, ControlStep, CreateBuffers, Prepare, Start, Run, Started, StartFailed, Stop, Stopped, DisposeBuffers, Become,
         StreamStep, Begin, Event, WaitFails, StopSeen, ServePeriod, SwitchBuffers, Served, Calibrate, End, SwitchStep,
         HostFills, HostPostpones, HostReturned, TakeSwitched, CommitSwitched, DawStep, TargetReady, ReadyReturns, ReadyStep,
         AnnounceInside, AnnounceOutside, Announce, TakeAnnounced, LookAtState, CommitAnnounced, handshake

OutputInv == habit # "announces later" => SwitchInv /\ InOrder

LEMMA OutputInvStep ==
  ASSUME TypeOK, HandshakeInv, BlockInv, OutputInv, StartRefused = FALSE, [Next]_vars
  PROVE  /\ (HandshakeInv /\ BlockInv /\ OutputInv)'
         /\ [device' # device /\ habit # "announces later" =>
                device' = [i \in 1..portBridge |-> due + i - 1]]_vars
<1>1. CASE Next
  <2>1. HandshakeTypeOK
    BY TypeParts
  <2>2. HandshakeInv'
    BY <1>1, <2>1, HandshakeInvStep
  <2>3. BlockInv'
    BY <1>1, BlockInvStep
  <2>4. CASE habit # "announces later"
    <3>1. SwitchInv /\ InOrder
      BY <2>4 DEF OutputInv
    <3>2. HabitKept' /\ habit' = habit
      BY <1>1, <2>1, <2>4, <3>1, HabitKeptStep DEF SwitchInv
    <3>3. SwitchedOutput'
      BY <1>1, <2>1, <2>4, <3>1, SwitchedOutputStep
    <3>4. /\ InOrder'
          /\ device' # device => device' = [i \in 1..portBridge |-> due + i - 1]
      BY <1>1, <2>4, <3>1, InOrderStep
    <3>5. OutputInv'
      BY <3>2, <3>3, <3>4 DEF OutputInv, SwitchInv
    <3> QED
      BY <2>2, <2>3, <3>4, <3>5
  <2>5. CASE habit = "announces later"
    <3>1. habit' = habit
      BY <1>1, HabitStays
    <3>2. OutputInv'
      BY <2>5, <3>1 DEF OutputInv
    <3> QED
      BY <2>2, <2>3, <2>5, <3>2
  <2> QED
    BY <2>4, <2>5
<1>2. CASE UNCHANGED vars
  <2>1. HandshakeInv'
    BY <1>2 DEF vars, handshake, threadVars, HandshakeInv, StreamRuns, SwitchIsServed,
       NothingBeforeBuffers, AnnouncedIsKnown, TakenOnce
  <2>2. BlockInv'
    BY <1>2 DEF vars, threadVars, portVars, outputVars, BlockInv, BridgesAgree, Staged
  <2>3. UNCHANGED <<habit, usesReady, pending, hostOut, targetOut, switch, ready, job, period,
                    stream, half, pendingHalf, block, committed, due>>
    BY <1>2 DEF vars, handshake, threadVars, outputVars
  <2>4. SwitchInv' <=> SwitchInv
    BY <2>3 DEF SwitchInv, HabitKept, SwitchedOutput
  <2>5. InOrder' <=> InOrder
    BY <2>3 DEF InOrder
  <2>6. OutputInv'
    BY <2>3, <2>4, <2>5 DEF OutputInv
  <2> QED
    BY <1>2, <2>1, <2>2, <2>6
<1> QED
  BY <1>1, <1>2

(* What the device is handed is what the DAW has made, every period once   *)
(* and in order, for any number of periods, streams and rebridges.         *)
THEOREM DeviceIsHandedEveryPeriod == StartRefused = FALSE => (Spec => DevicePlaysTheDaw)
<1> SUFFICES ASSUME StartRefused = FALSE PROVE Spec => DevicePlaysTheDaw
  OBVIOUS
<1>1. Init => HandshakeInv /\ BlockInv /\ OutputInv
  <2>1. Init => BlockInv
    BY DEF Init, BlockInv, BridgesAgree, Staged
  <2>2. Init => SwitchInv
    BY DEF Init, HandshakeInit, NoSwitch, NotReady, SwitchInv, HabitKept, SwitchedOutput
  <2>3. Init => InOrder
    <3>1. Len(<<>>) = 0 /\ \A i \in 1..Len(<<>>) : FALSE
      BY EmptyIsEmpty
    <3> QED
      BY <3>1 DEF Init, InOrder
  <2> QED
    BY <2>1, <2>2, <2>3, HandshakeInvInit DEF OutputInv
<1>2. TypeOK /\ HandshakeInv /\ BlockInv /\ OutputInv /\ [Next]_vars => (HandshakeInv /\ BlockInv /\ OutputInv)'
  BY OutputInvStep
<1>3. TypeOK /\ HandshakeInv /\ BlockInv /\ OutputInv /\ [Next]_vars =>
        [device' # device /\ habit # "announces later" => device' = [i \in 1..portBridge |-> due + i - 1]]_vars
  BY OutputInvStep
<1> QED
  BY TypeCorrect, <1>1, <1>2, <1>3, PTL DEF Spec, DevicePlaysTheDaw

=============================================================================
