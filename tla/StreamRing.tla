------------------------------ MODULE StreamRing ------------------------------
(***************************************************************************)
(* One stream of audio blocks between a DAW process and the engine host:   *)
(* the shared ring (RingProducer, RingConsumer), the wrapper's end of it   *)
(* (DaemonProcessor) and the host's (EngineHostCore::serveStream).         *)
(*                                                                         *)
(* Each direction is a lane with two slots; block n uses slot n & 1.  The  *)
(* host filters a slot in place.  Both processes may die at any moment.    *)
(* Every kernel wait here has a time limit and every waiter looks again at *)
(* shared memory when it wakes, so the wake-up events are not modelled:    *)
(* a waiter may look at any time.                                          *)
(***************************************************************************)
EXTENDS Integers

CONSTANTS Lanes,         \* the enabled directions, of "output" and "input"
          Mode,          \* "Sync" or "Pipelined"
          HangLateCount, \* late blocks in a row that mean a hung host
          Modulus,       \* number of values of a sequence number (2^32)
          MaxBlocks,     \* bound: process() calls per lane
          Patient        \* TRUE: while it opens, neither end gives a living
                         \* other end up

ASSUME StreamRingAssumption ==
  /\ Lanes \subseteq {"output", "input"}
  /\ Mode \in {"Sync", "Pipelined"}
  /\ HangLateCount \in Nat \ {0}
  /\ Modulus \in Nat /\ Modulus % 2 = 0 /\ Modulus >= 8
  /\ MaxBlocks \in Nat
  /\ Patient \in BOOLEAN

VARIABLES
  \* The shared region.
  state,      \* RingHeader::state
  published,  \* RingLane::sequence
  completed,  \* RingLane::completed
  slots,      \* the two slots of each lane
  \* The wrapper: a process, and a thread per lane (Input runs on the target's
  \* callback, Output there or in the DAW's outputReady).
  daw,        \* the stream as DaemonProcessor sees it
  peers,      \* the ends whose RingSync::peer is a handle on the other process
  pc,         \* where process() stands in each lane
  sequence,   \* Lane::sequence
  staging,    \* Lane::staging, what the DAW reads and writes
  late, gone, \* Lane::consecutiveLate, Lane::gone
  outcome,    \* what the last process() returned
  \* The host's serve thread.
  host,       \* where it stands
  acquired,   \* the lane and sequence it acquired
  peerGone_,  \* RingConsumer::peerGone_
  \* History.
  calls,      \* process() calls
  sent,       \* blocks published
  served,     \* blocks completed
  afterDeath  \* calls begun since the host died

ringVars == <<state, published, completed, slots>>
laneVars == <<pc, sequence, staging, late, gone, outcome>>
hostVars == <<host, acquired, peerGone_>>
history  == <<calls, sent, served, afterDeath>>

vars == <<ringVars, daw, peers, laneVars, hostVars, history>>

RingStates == {"Empty", "Announced", "Ready", "Closing", "Fault"}
DawStates  == {"closed", "linked", "waiting", "refused", "open", "left", "dead"}
LaneStates == {"idle", "check", "refused", "fill", "publish", "await",
               "missed", "copy"}
HostStates == {"absent", "polling", "building", "look", "lookInput", "sleep",
               "drain", "process", "release", "done", "dead"}
Outcomes   == {"none", "Processed", "Late", "Gone"}

\* A block: the call that brought it, its place in the order of publication,
\* and whether the engine has filtered it.
Block == [call : 0..MaxBlocks, nth : 0..MaxBlocks, stage : {"raw", "filtered"}]
Silence == [call |-> 0, nth |-> 0, stage |-> "raw"]

Init ==
  /\ state = "Empty"
  /\ published = [l \in Lanes |-> 0]
  /\ completed = [l \in Lanes |-> 0]
  /\ slots = [l \in Lanes |-> [s \in {0, 1} |-> Silence]]
  /\ daw = "closed" /\ peers = {}
  /\ pc = [l \in Lanes |-> "idle"]
  /\ sequence = [l \in Lanes |-> 0]
  /\ staging = [l \in Lanes |-> Silence]
  /\ late = [l \in Lanes |-> 0]
  /\ gone = [l \in Lanes |-> FALSE]
  /\ outcome = [l \in Lanes |-> "none"]
  /\ host = "absent" /\ acquired = [lane |-> "output", seq |-> 0]
  /\ peerGone_ = FALSE
  /\ calls = [l \in Lanes |-> 0]
  /\ sent = [l \in Lanes |-> 0]
  /\ served = [l \in Lanes |-> 0]
  /\ afterDeath = [l \in Lanes |-> 0]

-----------------------------------------------------------------------------
(* Sequence numbers.                                                       *)

Succ(s) == IF s = Modulus - 1 THEN 0 ELSE s + 1
Pred(s) == IF s = 0 THEN Modulus - 1 ELSE s - 1
SlotOf(s) == s % 2

\* The difference as a signed number of the same width.
Signed(d) == IF d >= Modulus \div 2 THEN d - Modulus
             ELSE IF d < -(Modulus \div 2) THEN d + Modulus ELSE d

SequenceAtLeast(value, reference) == Signed(value - reference) >= 0

\* Definitions named ...Slip are mistakes the properties must notice: they are
\* used by mutations of this module only, never by the specification.

\* Three slots assumed where there are two.
CanPublishSlip(l, seq) == seq <= 3 \/ SequenceAtLeast(completed[l], seq - 3)

CanPublish(l, seq) == seq <= 2 \/ SequenceAtLeast(completed[l], seq - 2)

\* A block is taken only when the one after it is there.
PendingPairSlip(l) ==
  /\ l \in Lanes
  /\ SequenceAtLeast(published[l], Succ(Succ(completed[l])))

Pending(l) ==
  /\ l \in Lanes
  /\ published[l] # completed[l]
  /\ SequenceAtLeast(published[l], Succ(completed[l]))

\* A process handle signals when its process has died.  Either end may be
\* without one: OpenProcess failed, and the ring is used all the same.
HostDead == host = "dead" /\ "daw" \in peers
ProducerDead == daw = "dead" /\ "host" \in peers

-----------------------------------------------------------------------------
(* The wrapper opens and closes the stream.                                *)

\* The host serves a ring, and each process opens the other, or fails to.
OpenLink ==
  /\ daw = "closed"
  /\ daw' = "linked"
  /\ peers' \in SUBSET {"daw", "host"}
  /\ host' = "polling"
  /\ UNCHANGED <<ringVars, laneVars, acquired, peerGone_, history>>

\* The header is formatted over whatever the region held.
Announce ==
  /\ daw = "linked"
  /\ daw' = "waiting"
  /\ state' = "Announced"
  /\ UNCHANGED <<published, completed, slots, peers, laneVars, hostVars,
                 history>>

\* waitReady ends with the host's answer, its death, or the time limit; a
\* death that no handle tells of shows in the time limit.
WaitReady ==
  /\ daw = "waiting"
  /\ \/ state = "Ready" /\ daw' = "open"
     \/ state = "Fault" /\ daw' = "refused"
     \/ state = "Announced" /\ (host = "dead" \/ ~Patient) /\ daw' = "refused"
  /\ UNCHANGED <<ringVars, peers, laneVars, hostVars, history>>

\* close() after a failed open, or by the DAW between buffer switches.
Close ==
  /\ \/ daw = "refused"
     \/ daw = "open" /\ \A l \in Lanes : pc[l] = "idle"
  /\ daw' = "left"
  /\ state' = "Closing"
  /\ UNCHANGED <<published, completed, slots, peers, laneVars, hostVars,
                 history>>

DawDies ==
  /\ daw \in {"linked", "waiting", "refused", "open"}
  /\ daw' = "dead"
  /\ UNCHANGED <<ringVars, peers, laneVars, hostVars, history>>

-----------------------------------------------------------------------------
(* DaemonProcessor::process in one lane.                                   *)

Return(l, what) ==
  /\ pc' = [pc EXCEPT ![l] = "idle"]
  /\ outcome' = [outcome EXCEPT ![l] = what]
  /\ gone' = [gone EXCEPT ![l] = @ \/ what = "Gone"]

\* The answer to a late block where a count of them means a hung host.
ReturnLate(l) ==
  /\ late' = [late EXCEPT ![l] = @ + 1]
  /\ Return(l, IF late[l] + 1 >= HangLateCount THEN "Gone" ELSE "Late")

\* The DAW puts a block in the staging planes and calls.
Call(l) ==
  /\ daw = "open" /\ pc[l] = "idle" /\ ~gone[l]
  /\ calls[l] < MaxBlocks
  /\ calls' = [calls EXCEPT ![l] = @ + 1]
  /\ staging' = [staging EXCEPT ![l] =
                   [call |-> calls'[l], nth |-> 0, stage |-> "raw"]]
  /\ pc' = [pc EXCEPT ![l] = "check"]
  /\ afterDeath' = IF host = "dead" THEN [afterDeath EXCEPT ![l] = @ + 1]
                                    ELSE afterDeath
  /\ UNCHANGED <<ringVars, daw, peers, sequence, late, gone, outcome, hostVars,
                 sent, served>>

Check(l) ==
  /\ daw = "open" /\ pc[l] = "check"
  /\ IF CanPublish(l, Succ(sequence[l]))
       THEN /\ sequence' = [sequence EXCEPT ![l] = Succ(@)]
            /\ pc' = [pc EXCEPT ![l] = "fill"]
       ELSE pc' = [pc EXCEPT ![l] = "refused"] /\ UNCHANGED sequence
  /\ UNCHANGED <<ringVars, daw, peers, staging, late, gone, outcome, hostVars,
                 history>>

\* A dropped block does not count as late.
RefusedUncountedSlip(l) ==
  /\ daw = "open" /\ pc[l] = "refused"
  /\ Return(l, IF HostDead \/ state # "Ready" THEN "Gone" ELSE "Late")
  /\ UNCHANGED <<ringVars, daw, peers, sequence, staging, late, hostVars,
                 history>>

\* The host is two blocks behind: the block is dropped.
Refused(l) ==
  /\ daw = "open" /\ pc[l] = "refused"
  /\ \/ /\ HostDead \/ state # "Ready"
        /\ Return(l, "Gone") /\ UNCHANGED late
     \/ /\ ~HostDead /\ state = "Ready"
        /\ IF Mode = "Pipelined" THEN ReturnLate(l)
                                 ELSE Return(l, "Late") /\ UNCHANGED late
  /\ UNCHANGED <<ringVars, daw, peers, sequence, staging, hostVars, history>>

\* The block is copied into its slot ...
Fill(l) ==
  /\ daw = "open" /\ pc[l] = "fill"
  /\ slots' = [slots EXCEPT ![l][SlotOf(sequence[l])] =
                 [staging[l] EXCEPT !.nth = sent[l] + 1]]
  /\ pc' = [pc EXCEPT ![l] = "publish"]
  /\ UNCHANGED <<state, published, completed, daw, peers, sequence, staging,
                 late, gone, outcome, hostVars, history>>

\* ... and published.  The first block of a pipeline has nothing before it:
\* silence goes out.
Publish(l) ==
  /\ daw = "open" /\ pc[l] = "publish"
  /\ published' = [published EXCEPT ![l] = sequence[l]]
  /\ sent' = [sent EXCEPT ![l] = @ + 1]
  /\ IF Mode = "Pipelined" /\ sequence[l] = 1
       THEN /\ staging' = [staging EXCEPT ![l] = Silence]
            /\ Return(l, "Processed")
       ELSE /\ pc' = [pc EXCEPT ![l] = "await"]
            /\ UNCHANGED <<staging, outcome, gone>>
  /\ UNCHANGED <<state, completed, slots, daw, peers, sequence, late, hostVars,
                 calls, served, afterDeath>>

\* The block this call returns: its own, or the one before it.
Target(l) == IF Mode = "Sync" THEN sequence[l] ELSE Pred(sequence[l])

\* The publication taken for the completion.
AwaitSlip(l) ==
  /\ daw = "open" /\ pc[l] = "await"
  /\ pc' = [pc EXCEPT ![l] =
              IF SequenceAtLeast(published[l], Target(l)) THEN "copy"
                                                          ELSE "missed"]
  /\ UNCHANGED <<ringVars, daw, peers, sequence, staging, late, gone, outcome,
                 hostVars, history>>

\* wait and poll look for the completion first ...
Await(l) ==
  /\ daw = "open" /\ pc[l] = "await"
  /\ pc' = [pc EXCEPT ![l] =
              IF SequenceAtLeast(completed[l], Target(l)) THEN "copy"
                                                          ELSE "missed"]
  /\ UNCHANGED <<ringVars, daw, peers, sequence, staging, late, gone, outcome,
                 hostVars, history>>

\* ... then at the state and the peer, then at the clock; poll asks for the
\* peer each time round, wait only where it sleeps.
Missed(l) ==
  /\ daw = "open" /\ pc[l] = "missed"
  /\ \/ /\ HostDead \/ state # "Ready"
        /\ Return(l, "Gone") /\ UNCHANGED late
     \/ /\ state = "Ready"
        /\ IF Mode = "Pipelined"
             THEN ~HostDead /\ ReturnLate(l)
             ELSE Return(l, "Late") /\ UNCHANGED late
     \/ /\ state = "Ready" /\ (Mode = "Pipelined" => ~HostDead)
        /\ pc' = [pc EXCEPT ![l] = "await"]
        /\ UNCHANGED <<outcome, gone, late>>
  /\ UNCHANGED <<ringVars, daw, peers, sequence, staging, hostVars, history>>

Copy(l) ==
  /\ daw = "open" /\ pc[l] = "copy"
  /\ staging' = [staging EXCEPT ![l] = slots[l][SlotOf(Target(l))]]
  /\ late' = [late EXCEPT ![l] = 0]
  /\ Return(l, "Processed")
  /\ UNCHANGED <<ringVars, daw, peers, sequence, hostVars, history>>

-----------------------------------------------------------------------------
(* The host: EngineHostApp::serve, then serveStream over RingConsumer.     *)

\* The header appears, and validates; or the producer dies or takes too long
\* to write it, and what is there does not.
HostPoll ==
  /\ host = "polling"
  /\ \/ state # "Empty" /\ host' = "building" /\ UNCHANGED state
     \/ /\ state = "Empty" /\ (daw = "dead" \/ ~Patient)
        /\ host' = "done" /\ state' = "Fault"
  /\ UNCHANGED <<published, completed, slots, daw, peers, laneVars, acquired,
                 peerGone_, history>>

\* The engines are built, or that throws.  The answer is written over whatever
\* the state is by then.
HostBuild ==
  /\ host = "building"
  /\ \/ host' = "look" /\ state' = "Ready"
     \/ host' = "done" /\ state' = "Fault"
  /\ UNCHANGED <<published, completed, slots, daw, peers, laneVars, acquired,
                 peerGone_, history>>

\* The newest block rather than the next.
TakeSlip(l) ==
  /\ host' = "process"
  /\ acquired' = [lane |-> l, seq |-> published[l]]

Take(l) ==
  /\ host' = "process"
  /\ acquired' = [lane |-> l, seq |-> Succ(completed[l])]

\* An acquire that does not look at the state.
HostLookSlip ==
  /\ host = "look"
  /\ \/ Pending("output") /\ Take("output")
     \/ /\ ~Pending("output")
        /\ host' = "lookInput" /\ UNCHANGED acquired
  /\ UNCHANGED <<ringVars, daw, peers, laneVars, peerGone_, history>>

\* acquire: the closing state, then output, then input, then sleep.
HostLook ==
  /\ host = "look"
  /\ \/ state = "Closing" /\ host' = "done" /\ UNCHANGED acquired
     \/ state # "Closing" /\ Pending("output") /\ Take("output")
     \/ /\ state # "Closing" /\ ~Pending("output")
        /\ host' = "lookInput" /\ UNCHANGED acquired
  /\ UNCHANGED <<ringVars, daw, peers, laneVars, peerGone_, history>>

HostLookInput ==
  /\ host = "lookInput"
  /\ \/ Pending("input") /\ Take("input")
     \/ /\ ~Pending("input")
        /\ host' = IF peerGone_ THEN "done" ELSE "sleep"
        /\ UNCHANGED acquired
  /\ UNCHANGED <<ringVars, daw, peers, laneVars, peerGone_, history>>

\* Woken by a work event, or by the idle time limit.
HostWake ==
  /\ host = "sleep"
  /\ host' \in {"look", "drain"}
  /\ UNCHANGED <<ringVars, daw, peers, laneVars, acquired, peerGone_, history>>

\* Woken by the producer's process handle.
HostSeesDeath ==
  /\ host = "sleep" /\ ProducerDead
  /\ host' = "drain" /\ peerGone_' = TRUE
  /\ UNCHANGED <<ringVars, daw, peers, laneVars, acquired, history>>

\* After the time limit, or the producer's death, what is pending is still
\* taken, whatever the state.
HostDrain ==
  /\ host = "drain"
  /\ \/ Pending("output") /\ Take("output")
     \/ ~Pending("output") /\ Pending("input") /\ Take("input")
     \/ /\ ~Pending("output") /\ ~Pending("input")
        /\ host' = IF peerGone_ THEN "done" ELSE "look"
        /\ UNCHANGED acquired
  /\ UNCHANGED <<ringVars, daw, peers, laneVars, peerGone_, history>>

\* The engine filters the slot in place.
HostProcess ==
  /\ host = "process"
  /\ slots' = [slots EXCEPT ![acquired.lane][SlotOf(acquired.seq)].stage
                              = "filtered"]
  /\ host' = "release"
  /\ UNCHANGED <<state, published, completed, daw, peers, laneVars, acquired,
                 peerGone_, history>>

\* Everything published so far is called completed.
HostReleaseSlip ==
  /\ host = "release"
  /\ completed' = [completed EXCEPT ![acquired.lane] = published[acquired.lane]]
  /\ served' = [served EXCEPT ![acquired.lane] = @ + 1]
  /\ host' = "look"
  /\ UNCHANGED <<state, published, slots, daw, peers, laneVars, acquired,
                 peerGone_, calls, sent, afterDeath>>

HostRelease ==
  /\ host = "release"
  /\ completed' = [completed EXCEPT ![acquired.lane] = acquired.seq]
  /\ served' = [served EXCEPT ![acquired.lane] = @ + 1]
  /\ host' = "look"
  /\ UNCHANGED <<state, published, slots, daw, peers, laneVars, acquired,
                 peerGone_, calls, sent, afterDeath>>

\* The host process crashes, or abandons its streams and exits.
HostDies ==
  /\ host \notin {"absent", "done", "dead"}
  /\ host' = "dead"
  /\ UNCHANGED <<ringVars, daw, peers, laneVars, acquired, peerGone_, history>>

-----------------------------------------------------------------------------
DawStep  == OpenLink \/ Announce \/ WaitReady \/ Close \/ DawDies
LaneStep(l) == Check(l) \/ Refused(l) \/ Fill(l) \/ Publish(l) \/ Await(l)
                 \/ Missed(l) \/ Copy(l)
HostStep == HostPoll \/ HostBuild \/ HostLook \/ HostLookInput \/ HostWake
              \/ HostSeesDeath \/ HostDrain \/ HostProcess \/ HostRelease

Next == DawStep \/ HostStep \/ HostDies
          \/ \E l \in Lanes : Call(l) \/ LaneStep(l)

Spec == Init /\ [][Next]_vars

\* Threads of both processes run.  The DAW is free to open, call and close
\* when it likes, but an open it has begun ends.  The producer's handle stays
\* signalled once it is, and work events are not set again after its death, so
\* a host that keeps falling asleep comes to see it.
FairSpec ==
  /\ Spec
  /\ WF_vars(HostStep) /\ SF_vars(HostSeesDeath)
  /\ WF_vars(Announce) /\ WF_vars(WaitReady)
  /\ WF_vars(daw = "refused" /\ Close)
  /\ \A l \in Lanes : WF_vars(LaneStep(l))
-----------------------------------------------------------------------------
(* Properties.                                                             *)

\* Every variable stays in its set.
TypeOK ==
  /\ state \in RingStates /\ daw \in DawStates /\ host \in HostStates
  /\ peers \subseteq {"daw", "host"}
  /\ published \in [Lanes -> 0..(Modulus - 1)]
  /\ completed \in [Lanes -> 0..(Modulus - 1)]
  /\ sequence \in [Lanes -> 0..(Modulus - 1)]
  /\ slots \in [Lanes -> [{0, 1} -> Block]]
  /\ staging \in [Lanes -> Block]
  /\ pc \in [Lanes -> LaneStates]
  /\ late \in [Lanes -> Nat]
  /\ gone \in [Lanes -> BOOLEAN]
  /\ outcome \in [Lanes -> Outcomes]
  /\ acquired \in [lane : {"output", "input"}, seq : 0..(Modulus - 1)]
  /\ peerGone_ \in BOOLEAN
  /\ calls \in [Lanes -> 0..MaxBlocks]
  /\ sent \in [Lanes -> 0..MaxBlocks]
  /\ served \in [Lanes -> 0..MaxBlocks]
  /\ afterDeath \in [Lanes -> Nat]

\* "The producer may publish seq only when the consumer has completed seq - 2
\* or later, i.e. the slot seq & 1 is no longer being read" (StreamRing.h:18):
\* the wrapper never writes or reads a slot while the engine filters it.
SlotExclusive ==
  \A l \in Lanes :
    host = "process" /\ acquired.lane = l =>
      /\ pc[l] \in {"fill", "publish"} =>
           SlotOf(sequence[l]) # SlotOf(acquired.seq)
      /\ pc[l] = "copy" => SlotOf(Target(l)) # SlotOf(acquired.seq)

\* "The consumer takes every published sequence in order, never skips"
\* (StreamRing.h:28): the slot the engine filters holds the block published
\* right after the last one it finished, still unfiltered.
TakenInOrder ==
  host = "process" =>
    LET l == acquired.lane
        b == slots[l][SlotOf(acquired.seq)]
    IN  b.nth = served[l] + 1 /\ b.stage = "raw"

\* process() gives back a block only after the engine filtered it, and it is
\* the one published by this call (Sync) or right before it (Pipelined).
ReturnsFilteredBlock ==
  [][\A l \in Lanes :
       pc[l] = "copy" /\ pc'[l] = "idle" =>
         /\ staging'[l].stage = "filtered"
         /\ staging'[l].nth = IF Mode = "Sync" THEN sent[l] ELSE sent[l] - 1]_vars

\* A lane answers Gone within n calls of the host's death.
FoundWithin(l, n) ==
  /\ afterDeath[l] <= n
  /\ afterDeath[l] = n /\ pc[l] = "idle" => gone[l]

\* A dead host is found out, although a short wait does not look for it.  With
\* its process handle a lane takes at most two more blocks, and the third call
\* answers Gone if no earlier one did.  Without it "the wrapper just learns of
\* a crash through the deadline" (Win32HostLink.cpp:189): a pipeline's count of
\* late blocks ends it, though one block was done already and resets the count.
\* A Sync lane counts nothing, and nothing is promised of it without the handle.
DeathFoundOut ==
  \A l \in Lanes :
    /\ "daw" \in peers => FoundWithin(l, 3)
    /\ Mode = "Pipelined" => FoundWithin(l, HangLateCount + 1)

\* The same, of a wrapper that has no handle and runs in Sync mode: not so.
SyncDeathFoundOut == \A l \in Lanes : FoundWithin(l, HangLateCount + 1)

\* The serve thread cannot hear of the end: a DAW that has announced its ring
\* died, and the host could not open its process.
Unheard == daw = "dead" /\ "host" \notin peers /\ state # "Empty"

\* "close() writes Closing and wakes the consumer so it can tear down"
\* (StreamRing.h:32), and the producer's death ends a stream too where the host
\* has its handle: the serve thread returns once the wrapper is gone, unless it
\* cannot hear of it.
ServeEnds ==
  daw \in {"left", "dead"} /\ host # "absent" ~>
    host \in {"done", "dead"} \/ Unheard

\* The same, of every host: not so.
EveryServeEnds ==
  daw \in {"left", "dead"} /\ host # "absent" ~> host \in {"done", "dead"}

\* "A late block is still processed by the consumer in order" (StreamRing.h:26):
\* every block published is filtered while both ends stay.
EveryBlockServed ==
  \A l \in Lanes : \A n \in 1..MaxBlocks :
    sent[l] >= n ~> served[l] >= n \/ daw # "open" \/ host = "dead"

-----------------------------------------------------------------------------
(* The argument for the safety properties, as an inductive invariant. It   *)
(* holds until a sequence number wraps.                                    *)

\* The ring's numbers count the blocks; at most two are under way.
CountersAgree ==
  \A l \in Lanes :
    /\ published[l] = sent[l] /\ completed[l] = served[l]
    /\ served[l] <= sent[l] /\ sent[l] <= served[l] + 2
    /\ sequence[l] = IF pc[l] \in {"fill", "publish"} THEN sent[l] + 1
                                                      ELSE sent[l]
    /\ pc[l] \in {"fill", "publish"} => sent[l] <= served[l] + 1
    /\ sent[l] <= calls[l]
    /\ pc[l] \in {"check", "refused", "fill", "publish"} => sent[l] < calls[l]

\* The host, once there is one, works on the block right after the last one it
\* completed.
HostOnNext ==
  /\ daw = "closed" => host = "absent"
  /\ host \in {"process", "release"} =>
       /\ acquired.lane \in Lanes
       /\ acquired.seq = served[acquired.lane] + 1
       /\ acquired.seq <= sent[acquired.lane]

Releasing(l, n) ==
  host = "release" /\ acquired.lane = l /\ acquired.seq = n

\* Blocks under way stand in their slots, unfiltered but for the one the host
\* is about to release (or died with); so does a block stored and not yet
\* published.
UnderWay ==
  \A l \in Lanes : \A n \in 1..MaxBlocks :
    /\ n > served[l]
    /\ n <= sent[l] \/ (pc[l] = "publish" /\ n = sent[l] + 1)
    =>
      /\ slots[l][SlotOf(n)].nth = n
      /\ Releasing(l, n) => slots[l][SlotOf(n)].stage = "filtered"
      /\ \/ slots[l][SlotOf(n)].stage = "raw"
         \/ Releasing(l, n)
         \/ host = "dead"

\* A completed block stays in its slot, filtered, until the next but one is
\* stored there.
Returned ==
  \A l \in Lanes : \A n \in 1..MaxBlocks :
    /\ n <= served[l]
    /\ n = sent[l] \/ (n = sent[l] - 1 /\ pc[l] # "publish")
    =>
      /\ slots[l][SlotOf(n)].nth = n
      /\ slots[l][SlotOf(n)].stage = "filtered"

\* A call that awaits a block awaits one that was published, and copies one
\* that was completed; the block it is about to store is unfiltered.
CallAwaits ==
  \A l \in Lanes :
    /\ pc[l] \in {"check", "fill"} => staging[l].stage = "raw"
    /\ pc[l] \in {"await", "missed", "copy"} => Target(l) \in 1..sent[l]
    /\ pc[l] = "copy" => Target(l) <= served[l]

\* Once the host is dead every call but one leaves a block under way: the
\* exception is about to, or has found the host gone.  Calls that find two
\* blocks under way leave none; they are Gone where the host's death shows.
DeathCounted ==
  \A l \in Lanes :
    /\ host # "dead" => afterDeath[l] = 0
    /\ "daw" \in peers \/ sent[l] < served[l] + 2 =>
         afterDeath[l] <=
           sent[l] - served[l]
             + IF gone[l] \/ pc[l] \in {"check", "refused", "fill", "publish"}
                 THEN 1 ELSE 0
    /\ pc[l] = "refused" /\ afterDeath[l] # 0 => sent[l] = served[l] + 2

\* In a pipeline every call after the death but one is late, and a lane whose
\* late blocks reach the count is gone.
HangCounted ==
  \A l \in Lanes :
    /\ pc[l] # "idle" => ~gone[l]
    /\ Mode = "Pipelined" =>
         IF gone[l]
           THEN afterDeath[l] <= HangLateCount + 1
           ELSE /\ late[l] < HangLateCount
                /\ afterDeath[l] <= late[l] + (IF pc[l] = "idle" THEN 1 ELSE 2)

RingInv ==
  /\ TypeOK /\ CountersAgree /\ HostOnNext /\ UnderWay /\ Returned
  /\ CallAwaits /\ DeathCounted /\ HangCounted

\* The block in a lane's hands, on its way to the ring or in it, is one that a
\* call brought.
BroughtByCalls ==
  \A l \in Lanes :
    /\ pc[l] \in {"check", "fill"} => staging[l].call # 0
    /\ \A n \in 1..MaxBlocks :
         /\ n > served[l]
         /\ n <= sent[l] \/ (pc[l] = "publish" /\ n = sent[l] + 1)
         => slots[l][SlotOf(n)].call # 0

-----------------------------------------------------------------------------
\* The calls whose blocks are published and not completed, oldest first.
Outstanding(l) ==
  [i \in 1..(sent[l] - served[l]) |-> slots[l][SlotOf(completed[l] + i)].call]

\* The lanes implement bounded queues: the blocks between the two counters.
Abstract == INSTANCE BlockFifo WITH queue <- [l \in Lanes |-> Outstanding(l)]

ImplementsBlockFifo == Abstract!Spec
=============================================================================
