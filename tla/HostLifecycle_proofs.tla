------------------------- MODULE HostLifecycle_proofs -------------------------
(***************************************************************************)
(* Theorems of HostLifecycle, for any number of processes and opens and    *)
(* any lingers, with and without crashes.                                  *)
(***************************************************************************)
EXTENDS HostLifecycle, FiniteSetTheorems, TLAPS

-----------------------------------------------------------------------------
(* The inductive invariant.                                                *)

\* The streams that a host has accepted and not yet counted down.
Counted(h) ==
  {s \in Streams : server[s] = h /\ worker[s] \in {"serving", "ended", "stored"}}

\* A process has a handle on the mutex exactly while it owns the endpoint or
\* is about to find out that it does not; an owner is alone.
MutexHeld ==
  /\ \A h \in Hosts : h \in mutex <=> host[h] \in Owning \cup {"second"}
  /\ OneHostOwns

\* A pipe instance exists only while its host listens or talks to a client.
PipeFollowsHost ==
  \A h \in Hosts :
    /\ host[h] \in {"handling", "accepting", "refusing"} => pipe[h] = "connected"
    /\ host[h] \notin {"offering", "listening", "timedOut", "handling", "accepting",
                       "refusing", "cancelled"}
         => pipe[h] = "none"
    /\ pipe[h] = "connected" <=> client[h] # NoStream

\* The client of a pipe is a stream of this host, which no thread serves
\* before the host has accepted it.
ClientOfHost ==
  \A h \in Hosts : client[h] # NoStream =>
    /\ server[client[h]] = h
    /\ host[h] # "accepting" => worker[client[h]] = "none"

\* A stream has a host once it has connected, and then one that has owned the
\* endpoint; its serve thread comes later.
StreamHasHost ==
  \A s \in Streams :
    /\ stream[s] \in {"unopened", "connecting"} => server[s] = NoHost
    /\ server[s] = NoHost => worker[s] = "none"
    /\ server[s] # NoHost => host[server[s]] \in Owning \cup {"gone"}
    /\ worker[s] # "none" => asked[s] <= linger[server[s]]

\* The count is right until the process is gone, and zero from the decision to
\* leave; a gone process has no thread left.
CountsStreams ==
  \A h \in Hosts :
    /\ host[h] # "gone" => active[h] = Cardinality(Counted(h))
    /\ host[h] \in {"cancelled", "leaving", "gone"} => Counted(h) = {}

\* The host's clock runs behind the last stream's end, unless a thread has yet
\* to set it.
ClockIsLate ==
  \A h \in Hosts :
    host[h] # "gone" /\ (\A s \in Streams : server[s] = h => worker[s] # "ended")
      => idle[h] <= quiet[h]

HostInv ==
  /\ TypeOK /\ MutexHeld /\ PipeFollowsHost /\ ClientOfHost /\ StreamHasHost
  /\ CountsStreams /\ ClockIsLate /\ LingerKept

-----------------------------------------------------------------------------
(* Every step keeps it.                                                    *)

LEMMA Longest ==
  /\ MaxLinger \in Lingers /\ MaxLinger \in Nat /\ Lingers \subseteq Nat
  /\ \A l \in Lingers : l <= MaxLinger
BY HostLifecycleAssumption DEF MaxLinger

LEMMA Numbers ==
  ASSUME TypeOK
  PROVE  /\ linger \in [Hosts -> Nat] /\ asked \in [Streams -> Nat]
         /\ idle \in [Hosts -> 0 .. MaxLinger] /\ idle \in [Hosts -> Nat]
         /\ quiet \in [Hosts -> 0 .. MaxLinger] /\ quiet \in [Hosts -> Nat]
         /\ 0 \in 0 .. MaxLinger
<1>1. Lingers \cup {0} \subseteq Nat /\ 0 .. MaxLinger \subseteq Nat /\ 0 \in 0 .. MaxLinger
  BY Longest
<1>2. /\ linger \in [Hosts -> Lingers \cup {0}] /\ asked \in [Streams -> Lingers \cup {0}]
      /\ idle \in [Hosts -> 0 .. MaxLinger] /\ quiet \in [Hosts -> 0 .. MaxLinger]
  BY DEF TypeOK
<1>. QED  BY <1>1, <1>2

LEMMA CountedFinite ==
  ASSUME NEW h \in Hosts
  PROVE  IsFiniteSet(Counted(h)) /\ Cardinality(Counted(h)) \in Nat
BY HostLifecycleAssumption, FS_Subset, FS_CardinalityType DEF Counted

\* What an accepted client is: a connected stream of this host, not yet served.
LEMMA AcceptFacts ==
  ASSUME TypeOK, PipeFollowsHost, ClientOfHost, NEW h \in Hosts, Accept(h)
  PROVE  \E s \in Streams :
           /\ client[h] = s /\ server[s] = h /\ worker[s] = "none"
           /\ host[h] = "handling" /\ stream[s] = "connected"
           /\ linger' = [linger EXCEPT ![h] = IF asked[s] > @ THEN asked[s] ELSE @]
           /\ active' = [active EXCEPT ![h] = @ + 1]
           /\ worker' = [worker EXCEPT ![s] = "serving"]
           /\ host' = [host EXCEPT ![h] = "accepting"]
           /\ UNCHANGED <<mutex, pipe, client, idle, streamVars, quiet>>
<1>1. client[h] \in Streams /\ server[client[h]] = h /\ worker[client[h]] = "none"
  BY HostLifecycleAssumption DEF Accept, TypeOK, PipeFollowsHost, ClientOfHost
<1>. QED  BY <1>1 DEF Accept, Goto

\* A serve thread that has not been counted down belongs to a host that counts it.
LEMMA ServedFacts ==
  ASSUME TypeOK, StreamHasHost, CountsStreams, NEW s \in Streams,
         worker[s] \in {"serving", "ended", "stored"}
  PROVE  \E h \in Hosts :
           /\ server[s] = h /\ s \in Counted(h)
           /\ host[h] \notin {"cancelled", "leaving", "gone"}
<1>1. server[s] \in Hosts
  BY DEF TypeOK, StreamHasHost
<1>. QED  BY <1>1 DEF CountsStreams, Counted

LEMMA IdleFacts ==
  ASSUME CountsStreams, NEW h \in Hosts, host[h] # "gone", active[h] = 0
  PROVE  Counted(h) = {}
BY CountedFinite, FS_EmptySet DEF CountsStreams

\* Who has a handle on the mutex follows from where each process stands.
LEMMA MutexStep ==
  ASSUME TypeOK, MutexHeld, [Next]_vars
  PROVE  MutexHeld'
<1>1. ASSUME NEW s \in Streams, Open(s) \/ TimeOut(s) \/ Broken(s) \/ End(s) \/ DawLeaves(s)
      \/ StreamEnds(s) \/ StoreIdleSince(s) \/ CountDown(s)
      PROVE  UNCHANGED <<host, mutex>>
  BY <1>1 DEF Open, TimeOut, Broken, End, DawLeaves, StreamEnds, StoreIdleSince,
       CountDown, hostVars, streamVars
<1>2. ASSUME NEW s \in Streams, NEW h \in Hosts, Connect(s, h)
      PROVE  UNCHANGED <<host, mutex>>
  BY <1>2 DEF Connect
<1>3. Tick => UNCHANGED <<host, mutex>>
  BY DEF Tick, hostVars, streamVars
<1>4. UNCHANGED vars => UNCHANGED <<host, mutex>>
  BY DEF vars, hostVars, streamVars
<1>. USE DEF TypeOK, MutexHeld, OneHostOwns, Owning, Goto, hostVars,
        streamVars
<1>5. CASE UNCHANGED <<host, mutex>>
  BY <1>5
<1>6. ASSUME NEW s \in Streams, NEW h \in Hosts, SpawnHost(s, h) PROVE
      MutexHeld'
  BY <1>6 DEF SpawnHost
<1>7. ASSUME NEW h \in Hosts, Start(h) PROVE MutexHeld'
  BY <1>7 DEF Start
<1>8. ASSUME NEW h \in Hosts, SecondLeaves(h) PROVE MutexHeld'
  BY <1>8 DEF SecondLeaves
<1>9. ASSUME NEW h \in Hosts, CreatePipe(h) PROVE MutexHeld'
  BY <1>9 DEF CreatePipe
<1>10. ASSUME NEW h \in Hosts, ClientCame(h) PROVE MutexHeld'
  BY <1>10 DEF ClientCame
<1>11. ASSUME NEW h \in Hosts, NoClientCame(h) PROVE MutexHeld'
  BY <1>11 DEF NoClientCame
<1>12. ASSUME NEW h \in Hosts, IdleCheck(h) PROVE MutexHeld'
  BY <1>12 DEF IdleCheck
<1>13. ASSUME NEW h \in Hosts, ReadFails(h) PROVE MutexHeld'
  BY <1>13 DEF ReadFails
<1>14. ASSUME NEW h \in Hosts, Accept(h) PROVE MutexHeld'
  BY <1>14 DEF Accept
<1>15. ASSUME NEW h \in Hosts, Refuse(h) PROVE MutexHeld'
  BY <1>15 DEF Refuse
<1>16. ASSUME NEW h \in Hosts, Reply(h) PROVE MutexHeld'
  BY <1>16 DEF Reply
<1>17. ASSUME NEW h \in Hosts, Disconnect(h) PROVE MutexHeld'
  BY <1>17 DEF Disconnect
<1>18. ASSUME NEW h \in Hosts, Leave(h) PROVE MutexHeld'
  BY <1>18 DEF Leave
<1>19. ASSUME NEW h \in Hosts, Crash(h) PROVE MutexHeld'
  BY <1>19 DEF Crash
<1>20. ASSUME NEW h \in Hosts, CreatePipeFails(h) PROVE MutexHeld'
  BY <1>20 DEF CreatePipeFails
<1>21. ASSUME NEW h \in Hosts, ConnectPipe(h) PROVE MutexHeld'
  BY <1>21 DEF ConnectPipe
<1>. QED
  BY <1>1, <1>2, <1>3, <1>4, <1>5, <1>6, <1>7, <1>8, <1>9, <1>10, <1>11,
     <1>12, <1>13, <1>14, <1>15, <1>16, <1>17, <1>18, <1>19, <1>20, <1>21
  DEF Next, LinkStep, MainStep, ServeStep

\* An instance comes and goes with its host's steps.
LEMMA PipeStep ==
  ASSUME TypeOK, PipeFollowsHost, [Next]_vars
  PROVE  PipeFollowsHost'
<1>1. ASSUME NEW s \in Streams, Open(s) \/ TimeOut(s) \/ Broken(s) \/ End(s) \/ DawLeaves(s)
      \/ StreamEnds(s) \/ StoreIdleSince(s) \/ CountDown(s)
      PROVE  UNCHANGED <<host, pipe, client>>
  BY <1>1 DEF Open, TimeOut, Broken, End, DawLeaves, StreamEnds, StoreIdleSince,
       CountDown, hostVars, streamVars
<1>2. Tick => UNCHANGED <<host, pipe, client>>
  BY DEF Tick, hostVars, streamVars
<1>3. UNCHANGED vars => UNCHANGED <<host, pipe, client>>
  BY DEF vars, hostVars, streamVars
<1>. USE HostLifecycleAssumption DEF TypeOK, PipeFollowsHost, Goto, ClosePipe,
        hostVars, streamVars
<1>4. CASE UNCHANGED <<host, pipe, client>>
  BY <1>4
<1>5. ASSUME NEW s \in Streams, NEW h \in Hosts, Connect(s, h) PROVE
      PipeFollowsHost'
  BY <1>5 DEF Connect
<1>6. ASSUME NEW s \in Streams, NEW h \in Hosts, SpawnHost(s, h) PROVE
      PipeFollowsHost'
  BY <1>6 DEF SpawnHost
<1>7. ASSUME NEW h \in Hosts, Start(h) PROVE PipeFollowsHost'
  BY <1>7 DEF Start
<1>8. ASSUME NEW h \in Hosts, SecondLeaves(h) PROVE PipeFollowsHost'
  BY <1>8 DEF SecondLeaves
<1>9. ASSUME NEW h \in Hosts, CreatePipe(h) PROVE PipeFollowsHost'
  BY <1>9 DEF CreatePipe
<1>10. ASSUME NEW h \in Hosts, ClientCame(h) PROVE PipeFollowsHost'
  BY <1>10 DEF ClientCame
<1>11. ASSUME NEW h \in Hosts, NoClientCame(h) PROVE PipeFollowsHost'
  BY <1>11 DEF NoClientCame
<1>12. ASSUME NEW h \in Hosts, IdleCheck(h) PROVE PipeFollowsHost'
  BY <1>12 DEF IdleCheck
<1>13. ASSUME NEW h \in Hosts, ReadFails(h) PROVE PipeFollowsHost'
  BY <1>13 DEF ReadFails
<1>14. ASSUME NEW h \in Hosts, Accept(h) PROVE PipeFollowsHost'
  BY <1>14 DEF Accept
<1>15. ASSUME NEW h \in Hosts, Refuse(h) PROVE PipeFollowsHost'
  BY <1>15 DEF Refuse
<1>16. ASSUME NEW h \in Hosts, Reply(h) PROVE PipeFollowsHost'
  BY <1>16 DEF Reply
<1>17. ASSUME NEW h \in Hosts, Disconnect(h) PROVE PipeFollowsHost'
  BY <1>17 DEF Disconnect
<1>18. ASSUME NEW h \in Hosts, Leave(h) PROVE PipeFollowsHost'
  BY <1>18 DEF Leave
<1>19. ASSUME NEW h \in Hosts, Crash(h) PROVE PipeFollowsHost'
  BY <1>19 DEF Crash
<1>20. ASSUME NEW h \in Hosts, CreatePipeFails(h) PROVE PipeFollowsHost'
  BY <1>20 DEF CreatePipeFails
<1>21. ASSUME NEW h \in Hosts, ConnectPipe(h) PROVE PipeFollowsHost'
  BY <1>21 DEF ConnectPipe
<1>. QED
  BY <1>1, <1>2, <1>3, <1>4, <1>5, <1>6, <1>7, <1>8, <1>9, <1>10, <1>11,
     <1>12, <1>13, <1>14, <1>15, <1>16, <1>17, <1>18, <1>19, <1>20, <1>21
  DEF Next, LinkStep, MainStep, ServeStep

\* A host's client stays the one that connected until the instance is closed.
LEMMA ClientStep ==
  ASSUME TypeOK, PipeFollowsHost, ClientOfHost, StreamHasHost, [Next]_vars
  PROVE  ClientOfHost'
<1>1. ASSUME NEW s \in Streams, Open(s) \/ TimeOut(s) \/ Broken(s) \/ End(s) \/ DawLeaves(s)
      PROVE  UNCHANGED <<host, client, server, worker>>
  BY <1>1 DEF Open, TimeOut, Broken, End, DawLeaves, hostVars
<1>2. Tick => UNCHANGED <<host, client, server, worker>>
  BY DEF Tick, hostVars, streamVars
<1>3. UNCHANGED vars => UNCHANGED <<host, client, server, worker>>
  BY DEF vars, hostVars, streamVars
<1>. USE HostLifecycleAssumption DEF TypeOK, ClientOfHost, PipeFollowsHost,
        StreamHasHost, Goto, ClosePipe, hostVars, streamVars
<1>4. CASE UNCHANGED <<host, client, server, worker>>
  BY <1>4
<1>5. ASSUME NEW s \in Streams, StreamEnds(s) PROVE ClientOfHost'
  BY <1>5 DEF StreamEnds
<1>6. ASSUME NEW s \in Streams, StoreIdleSince(s) PROVE ClientOfHost'
  BY <1>6 DEF StoreIdleSince
<1>7. ASSUME NEW s \in Streams, CountDown(s) PROVE ClientOfHost'
  BY <1>7 DEF CountDown
<1>8. ASSUME NEW s \in Streams, NEW h \in Hosts, Connect(s, h) PROVE
      ClientOfHost'
  BY <1>8 DEF Connect
<1>9. ASSUME NEW s \in Streams, NEW h \in Hosts, SpawnHost(s, h) PROVE
      ClientOfHost'
  BY <1>9 DEF SpawnHost
<1>10. ASSUME NEW h \in Hosts, Start(h) PROVE ClientOfHost'
  BY <1>10 DEF Start
<1>11. ASSUME NEW h \in Hosts, SecondLeaves(h) PROVE ClientOfHost'
  BY <1>11 DEF SecondLeaves
<1>12. ASSUME NEW h \in Hosts, CreatePipe(h) PROVE ClientOfHost'
  BY <1>12 DEF CreatePipe
<1>13. ASSUME NEW h \in Hosts, ClientCame(h) PROVE ClientOfHost'
  BY <1>13 DEF ClientCame
<1>14. ASSUME NEW h \in Hosts, NoClientCame(h) PROVE ClientOfHost'
  BY <1>14 DEF NoClientCame
<1>15. ASSUME NEW h \in Hosts, IdleCheck(h) PROVE ClientOfHost'
  BY <1>15 DEF IdleCheck
<1>16. ASSUME NEW h \in Hosts, ReadFails(h) PROVE ClientOfHost'
  BY <1>16 DEF ReadFails
<1>17. ASSUME NEW h \in Hosts, Accept(h) PROVE ClientOfHost'
  BY <1>17 DEF Accept
<1>18. ASSUME NEW h \in Hosts, Refuse(h) PROVE ClientOfHost'
  BY <1>18 DEF Refuse
<1>19. ASSUME NEW h \in Hosts, Reply(h) PROVE ClientOfHost'
  BY <1>19 DEF Reply
<1>20. ASSUME NEW h \in Hosts, Disconnect(h) PROVE ClientOfHost'
  BY <1>20 DEF Disconnect
<1>21. ASSUME NEW h \in Hosts, Leave(h) PROVE ClientOfHost'
  BY <1>21 DEF Leave
<1>22. ASSUME NEW h \in Hosts, Crash(h) PROVE ClientOfHost'
  BY <1>22 DEF Crash
<1>23. ASSUME NEW h \in Hosts, CreatePipeFails(h) PROVE ClientOfHost'
  BY <1>23 DEF CreatePipeFails
<1>24. ASSUME NEW h \in Hosts, ConnectPipe(h) PROVE ClientOfHost'
  BY <1>24 DEF ConnectPipe
<1>. QED
  BY <1>1, <1>2, <1>3, <1>4, <1>5, <1>6, <1>7, <1>8, <1>9, <1>10, <1>11,
     <1>12, <1>13, <1>14, <1>15, <1>16, <1>17, <1>18, <1>19, <1>20, <1>21,
     <1>22, <1>23, <1>24
  DEF Next, LinkStep, MainStep, ServeStep

\* A stream keeps its host, whose linger only grows.
LEMMA StreamStep ==
  ASSUME TypeOK, PipeFollowsHost, ClientOfHost, StreamHasHost, [Next]_vars
  PROVE  StreamHasHost'
<1>1. Tick => UNCHANGED <<host, linger, worker, stream, asked, server>>
  BY DEF Tick, hostVars, streamVars
<1>2. ASSUME NEW h \in Hosts, Accept(h) PROVE StreamHasHost'
  <2>. PICK s \in Streams :
         /\ client[h] = s /\ server[s] = h /\ worker[s] = "none"
         /\ linger' = [linger EXCEPT ![h] = IF asked[s] > @ THEN asked[s] ELSE @]
         /\ worker' = [worker EXCEPT ![s] = "serving"]
         /\ host' = [host EXCEPT ![h] = "accepting"]
         /\ UNCHANGED streamVars
    BY <1>2, AcceptFacts
  <2>1. /\ \A t \in Streams : asked[t] \in Nat
        /\ linger \in [Hosts -> Nat]
    BY Numbers
  <2>2. /\ linger' \in [Hosts -> Nat] /\ asked[s] <= linger'[h]
        /\ \A g \in Hosts : linger[g] <= linger'[g]
    BY <2>1
  <2>3. /\ \A t \in Streams \ {s} : worker'[t] = worker[t]
        /\ \A g \in Hosts \ {h} : host'[g] = host[g]
        /\ host'[h] = "accepting"
    BY DEF TypeOK
  <2>4. ASSUME NEW t \in Streams, worker'[t] # "none"
        PROVE  asked[t] <= linger'[server[t]]
    <3>1. CASE t = s
      BY <3>1, <2>2
    <3>2. CASE t # s
      <4>1. server[t] \in Hosts /\ asked[t] <= linger[server[t]]
        BY <3>2, <2>3, <2>4 DEF StreamHasHost, TypeOK
      <4>. QED  BY <4>1, <2>1, <2>2
    <3>. QED  BY <3>1, <3>2
  <2>. QED
    BY <2>3, <2>4, HostLifecycleAssumption DEF TypeOK, StreamHasHost, Owning, streamVars
<1>3. UNCHANGED vars => UNCHANGED <<host, linger, worker, stream, asked,
      server>>
  BY DEF vars, hostVars, streamVars
<1>. USE HostLifecycleAssumption DEF TypeOK, StreamHasHost, PipeFollowsHost,
        ClientOfHost, Owning, Goto, ClosePipe, hostVars, streamVars
<1>4. CASE UNCHANGED <<host, linger, worker, stream, asked, server>>
  BY <1>4
<1>5. ASSUME NEW s \in Streams, Open(s) PROVE StreamHasHost'
  BY <1>5 DEF Open
<1>6. ASSUME NEW s \in Streams, TimeOut(s) PROVE StreamHasHost'
  BY <1>6 DEF TimeOut
<1>7. ASSUME NEW s \in Streams, Broken(s) PROVE StreamHasHost'
  BY <1>7 DEF Broken
<1>8. ASSUME NEW s \in Streams, End(s) PROVE StreamHasHost'
  BY <1>8 DEF End
<1>9. ASSUME NEW s \in Streams, StreamEnds(s) PROVE StreamHasHost'
  BY <1>9 DEF StreamEnds
<1>10. ASSUME NEW s \in Streams, StoreIdleSince(s) PROVE StreamHasHost'
  BY <1>10 DEF StoreIdleSince
<1>11. ASSUME NEW s \in Streams, CountDown(s) PROVE StreamHasHost'
  BY <1>11 DEF CountDown
<1>12. ASSUME NEW s \in Streams, NEW h \in Hosts, Connect(s, h) PROVE
      StreamHasHost'
  BY <1>12 DEF Connect
<1>13. ASSUME NEW s \in Streams, NEW h \in Hosts, SpawnHost(s, h) PROVE
      StreamHasHost'
  BY <1>13 DEF SpawnHost
<1>14. ASSUME NEW h \in Hosts, Start(h) PROVE StreamHasHost'
  BY <1>14 DEF Start
<1>15. ASSUME NEW h \in Hosts, SecondLeaves(h) PROVE StreamHasHost'
  BY <1>15 DEF SecondLeaves
<1>16. ASSUME NEW h \in Hosts, CreatePipe(h) PROVE StreamHasHost'
  BY <1>16 DEF CreatePipe
<1>17. ASSUME NEW h \in Hosts, ClientCame(h) PROVE StreamHasHost'
  BY <1>17 DEF ClientCame
<1>18. ASSUME NEW h \in Hosts, NoClientCame(h) PROVE StreamHasHost'
  BY <1>18 DEF NoClientCame
<1>19. ASSUME NEW h \in Hosts, IdleCheck(h) PROVE StreamHasHost'
  BY <1>19 DEF IdleCheck
<1>20. ASSUME NEW h \in Hosts, ReadFails(h) PROVE StreamHasHost'
  BY <1>20 DEF ReadFails
<1>21. ASSUME NEW h \in Hosts, Refuse(h) PROVE StreamHasHost'
  BY <1>21 DEF Refuse
<1>22. ASSUME NEW h \in Hosts, Reply(h) PROVE StreamHasHost'
  BY <1>22 DEF Reply
<1>23. ASSUME NEW h \in Hosts, Disconnect(h) PROVE StreamHasHost'
  BY <1>23 DEF Disconnect
<1>24. ASSUME NEW h \in Hosts, Leave(h) PROVE StreamHasHost'
  BY <1>24 DEF Leave
<1>25. ASSUME NEW h \in Hosts, Crash(h) PROVE StreamHasHost'
  BY <1>25 DEF Crash
<1>26. ASSUME NEW h \in Hosts, CreatePipeFails(h) PROVE StreamHasHost'
  BY <1>26 DEF CreatePipeFails
<1>27. ASSUME NEW h \in Hosts, ConnectPipe(h) PROVE StreamHasHost'
  BY <1>27 DEF ConnectPipe
<1>28. ASSUME NEW s \in Streams, DawLeaves(s) PROVE StreamHasHost'
  BY <1>28 DEF DawLeaves
<1>. QED
  BY <1>1, <1>2, <1>3, <1>4, <1>5, <1>6, <1>7, <1>8, <1>9, <1>10, <1>11,
     <1>12, <1>13, <1>14, <1>15, <1>16, <1>17, <1>18, <1>19, <1>20, <1>21,
     <1>22, <1>23, <1>24, <1>25, <1>26, <1>27, <1>28
  DEF Next, LinkStep, MainStep, ServeStep

\* Each change of the count comes with the stream it counts.
LEMMA CountStep ==
  ASSUME TypeOK, PipeFollowsHost, ClientOfHost, StreamHasHost, CountsStreams,
       [Next]_vars
  PROVE  CountsStreams'
<1>1. ASSUME NEW s \in Streams, Open(s) \/ TimeOut(s) \/ Broken(s) \/ End(s) \/ DawLeaves(s)
      PROVE  UNCHANGED <<host, active, worker, server>>
  BY <1>1 DEF Open, TimeOut, Broken, End, DawLeaves, hostVars
<1>2. Tick => UNCHANGED <<host, active, worker, server>>
  BY DEF Tick, hostVars, streamVars
<1>3. ASSUME NEW s \in Streams, CountDown(s) PROVE CountsStreams'
  <2>. PICK h \in Hosts :
         server[s] = h /\ s \in Counted(h) /\ host[h] \notin {"cancelled", "leaving", "gone"}
    BY <1>3, ServedFacts DEF CountDown
  <2>1. /\ active' = [active EXCEPT ![h] = @ - 1]
        /\ worker' = [worker EXCEPT ![s] = "finished"]
        /\ UNCHANGED <<host, server>>
    BY <1>3 DEF CountDown, streamVars
  <2>2. \A g \in Hosts \ {h} : Counted(g)' = Counted(g)
    BY <2>1 DEF Counted, TypeOK
  <2>3. Counted(h)' = Counted(h) \ {s}
    BY <2>1 DEF Counted, TypeOK
  <2>4. Cardinality(Counted(h)') = Cardinality(Counted(h)) - 1
    BY <2>3, CountedFinite, FS_RemoveElement
  <2>. QED
    BY <2>1, <2>2, <2>4 DEF TypeOK, CountsStreams
<1>4. ASSUME NEW s \in Streams, NEW h \in Hosts, SpawnHost(s, h) PROVE
      CountsStreams'
  <2>1. \A g \in Hosts : Counted(g)' = Counted(g)
    BY <1>4 DEF SpawnHost, Counted, StreamHasHost, hostVars, streamVars, TypeOK
  <2>. QED
    BY <1>4, <2>1 DEF SpawnHost, Goto, TypeOK, CountsStreams
<1>5. ASSUME NEW h \in Hosts, IdleCheck(h) PROVE CountsStreams'
  <2>1. \A g \in Hosts : Counted(g)' = Counted(g)
    BY <1>5 DEF IdleCheck, Counted, StreamHasHost, hostVars, streamVars, TypeOK
  <2>2. active[h] = 0 => Counted(h) = {}
    BY <1>5, IdleFacts DEF IdleCheck
  <2>. QED
    BY <1>5, <2>1, <2>2 DEF IdleCheck, Goto, TypeOK, CountsStreams
<1>6. ASSUME NEW h \in Hosts, Accept(h) PROVE CountsStreams'
  <2>. PICK s \in Streams :
         /\ server[s] = h /\ worker[s] = "none" /\ host[h] = "handling"
         /\ active' = [active EXCEPT ![h] = @ + 1]
         /\ worker' = [worker EXCEPT ![s] = "serving"]
         /\ host' = [host EXCEPT ![h] = "accepting"]
         /\ server' = server
    BY <1>6, AcceptFacts DEF streamVars
  <2>1. \A g \in Hosts \ {h} : Counted(g)' = Counted(g)
    BY DEF Counted, TypeOK
  <2>2. Counted(h)' = Counted(h) \cup {s} /\ s \notin Counted(h)
    BY DEF Counted, TypeOK
  <2>3. Cardinality(Counted(h)') = Cardinality(Counted(h)) + 1
    BY <2>2, CountedFinite, FS_AddElement
  <2>. QED
    BY <2>1, <2>3 DEF TypeOK, CountsStreams
<1>7. ASSUME NEW h \in Hosts, Crash(h) PROVE CountsStreams'
  <2>1. \A g \in Hosts \ {h} : Counted(g)' = Counted(g)
    BY <1>7 DEF Crash, Counted, streamVars, TypeOK
  <2>2. Counted(h)' = {}
    BY <1>7 DEF Crash, Counted, streamVars, TypeOK
  <2>. QED
    BY <1>7, <2>1, <2>2 DEF Crash, Goto, TypeOK, CountsStreams
<1>8. UNCHANGED vars => UNCHANGED <<host, active, worker, server>>
  BY DEF vars, hostVars, streamVars
<1>9. CASE UNCHANGED <<host, active, worker, server>>
  <2>1. \A h \in Hosts : Counted(h)' = Counted(h)
    BY <1>9 DEF Counted
  <2>. QED BY <1>9, <2>1 DEF CountsStreams
<1>. USE CountedFinite DEF TypeOK, CountsStreams, Counted, StreamHasHost,
        Owning, Goto, ClosePipe, hostVars, streamVars
<1>10. ASSUME NEW s \in Streams, StreamEnds(s) PROVE CountsStreams'
  BY <1>10 DEF StreamEnds
<1>11. ASSUME NEW s \in Streams, StoreIdleSince(s) PROVE CountsStreams'
  BY <1>11 DEF StoreIdleSince
<1>12. ASSUME NEW s \in Streams, NEW h \in Hosts, Connect(s, h) PROVE
      CountsStreams'
  BY <1>12 DEF Connect
<1>13. ASSUME NEW h \in Hosts, Start(h) PROVE CountsStreams'
  BY <1>13 DEF Start
<1>14. ASSUME NEW h \in Hosts, SecondLeaves(h) PROVE CountsStreams'
  BY <1>14 DEF SecondLeaves
<1>15. ASSUME NEW h \in Hosts, CreatePipe(h) PROVE CountsStreams'
  BY <1>15 DEF CreatePipe
<1>16. ASSUME NEW h \in Hosts, ClientCame(h) PROVE CountsStreams'
  BY <1>16 DEF ClientCame
<1>17. ASSUME NEW h \in Hosts, NoClientCame(h) PROVE CountsStreams'
  BY <1>17 DEF NoClientCame
<1>18. ASSUME NEW h \in Hosts, ReadFails(h) PROVE CountsStreams'
  BY <1>18 DEF ReadFails
<1>19. ASSUME NEW h \in Hosts, Refuse(h) PROVE CountsStreams'
  BY <1>19 DEF Refuse
<1>20. ASSUME NEW h \in Hosts, Reply(h) PROVE CountsStreams'
  BY <1>20 DEF Reply
<1>21. ASSUME NEW h \in Hosts, Disconnect(h) PROVE CountsStreams'
  BY <1>21 DEF Disconnect
<1>22. ASSUME NEW h \in Hosts, Leave(h) PROVE CountsStreams'
  BY <1>22 DEF Leave
<1>23. ASSUME NEW h \in Hosts, CreatePipeFails(h) PROVE CountsStreams'
  BY <1>23 DEF CreatePipeFails
<1>24. ASSUME NEW h \in Hosts, ConnectPipe(h) PROVE CountsStreams'
  BY <1>24 DEF ConnectPipe
<1>. QED
  BY <1>1, <1>2, <1>3, <1>4, <1>5, <1>6, <1>7, <1>8, <1>9, <1>10, <1>11,
     <1>12, <1>13, <1>14, <1>15, <1>16, <1>17, <1>18, <1>19, <1>20, <1>21,
     <1>22, <1>23, <1>24
  DEF Next, LinkStep, MainStep, ServeStep

\* A stream's end is stored before it is counted down, so the clock is never ahead.
LEMMA ClockStep ==
  ASSUME TypeOK, PipeFollowsHost, ClientOfHost, StreamHasHost, CountsStreams,
       ClockIsLate, [Next]_vars
  PROVE  ClockIsLate'
<1>1. ASSUME NEW s \in Streams, Open(s) \/ TimeOut(s) \/ Broken(s) \/ End(s) \/ DawLeaves(s)
      PROVE  UNCHANGED <<host, worker, server, idle, quiet>>
  BY <1>1 DEF Open, TimeOut, Broken, End, DawLeaves, hostVars
<1>2. ASSUME NEW h \in Hosts, Accept(h) PROVE ClockIsLate'
  <2>. PICK s \in Streams :
         /\ worker[s] = "none" /\ worker' = [worker EXCEPT ![s] = "serving"]
         /\ host[h] = "handling" /\ host' = [host EXCEPT ![h] = "accepting"]
         /\ UNCHANGED <<idle, quiet, server>>
    BY <1>2, AcceptFacts DEF streamVars
  <2>. QED
    BY DEF TypeOK, ClockIsLate
<1>3. UNCHANGED vars => UNCHANGED <<host, worker, server, idle, quiet>>
  BY DEF vars, hostVars, streamVars
<1>. USE Longest DEF TypeOK, ClockIsLate, StreamHasHost, Goto, ClosePipe,
        hostVars, streamVars
<1>4. CASE UNCHANGED <<host, worker, server, idle, quiet>>
  BY <1>4
<1>5. ASSUME NEW s \in Streams, StreamEnds(s) PROVE ClockIsLate'
  BY <1>5 DEF StreamEnds
<1>6. ASSUME NEW s \in Streams, StoreIdleSince(s) PROVE ClockIsLate'
  BY <1>6 DEF StoreIdleSince
<1>7. ASSUME NEW s \in Streams, CountDown(s) PROVE ClockIsLate'
  BY <1>7 DEF CountDown
<1>8. ASSUME NEW s \in Streams, NEW h \in Hosts, Connect(s, h) PROVE
      ClockIsLate'
  BY <1>8 DEF Connect
<1>9. ASSUME NEW s \in Streams, NEW h \in Hosts, SpawnHost(s, h) PROVE
      ClockIsLate'
  BY <1>9 DEF SpawnHost
<1>10. ASSUME NEW h \in Hosts, Start(h) PROVE ClockIsLate'
  BY <1>10 DEF Start
<1>11. ASSUME NEW h \in Hosts, SecondLeaves(h) PROVE ClockIsLate'
  BY <1>11 DEF SecondLeaves
<1>12. ASSUME NEW h \in Hosts, CreatePipe(h) PROVE ClockIsLate'
  BY <1>12 DEF CreatePipe
<1>13. ASSUME NEW h \in Hosts, ClientCame(h) PROVE ClockIsLate'
  BY <1>13 DEF ClientCame
<1>14. ASSUME NEW h \in Hosts, NoClientCame(h) PROVE ClockIsLate'
  BY <1>14 DEF NoClientCame
<1>15. ASSUME NEW h \in Hosts, IdleCheck(h) PROVE ClockIsLate'
  BY <1>15 DEF IdleCheck
<1>16. ASSUME NEW h \in Hosts, ReadFails(h) PROVE ClockIsLate'
  BY <1>16 DEF ReadFails
<1>17. ASSUME NEW h \in Hosts, Refuse(h) PROVE ClockIsLate'
  BY <1>17 DEF Refuse
<1>18. ASSUME NEW h \in Hosts, Reply(h) PROVE ClockIsLate'
  BY <1>18 DEF Reply
<1>19. ASSUME NEW h \in Hosts, Disconnect(h) PROVE ClockIsLate'
  BY <1>19 DEF Disconnect
<1>20. ASSUME NEW h \in Hosts, Leave(h) PROVE ClockIsLate'
  BY <1>20 DEF Leave
<1>21. ASSUME NEW h \in Hosts, Crash(h) PROVE ClockIsLate'
  BY <1>21 DEF Crash
<1>22. CASE Tick
  BY <1>22 DEF Tick
<1>23. ASSUME NEW h \in Hosts, CreatePipeFails(h) PROVE ClockIsLate'
  BY <1>23 DEF CreatePipeFails
<1>24. ASSUME NEW h \in Hosts, ConnectPipe(h) PROVE ClockIsLate'
  BY <1>24 DEF ConnectPipe
<1>. QED
  BY <1>1, <1>2, <1>3, <1>4, <1>5, <1>6, <1>7, <1>8, <1>9, <1>10, <1>11,
     <1>12, <1>13, <1>14, <1>15, <1>16, <1>17, <1>18, <1>19, <1>20, <1>21,
     <1>22, <1>23, <1>24
  DEF Next, LinkStep, MainStep, ServeStep

\* The decision to leave reads a clock that runs behind and a linger that no
\* wrapper's exceeds.
LEMMA LingerStep ==
  ASSUME TypeOK, PipeFollowsHost, ClientOfHost, StreamHasHost, CountsStreams,
       ClockIsLate, LingerKept, [Next]_vars
  PROVE  LingerKept'
<1>1. ASSUME NEW s \in Streams, TimeOut(s) \/ Broken(s) \/ End(s) \/ DawLeaves(s)
      PROVE  UNCHANGED <<host, worker, server, quiet, asked>>
  BY <1>1 DEF TimeOut, Broken, End, DawLeaves, hostVars
<1>2. ASSUME NEW s \in Streams, StreamEnds(s) PROVE LingerKept'
  <2>. PICK h \in Hosts : server[s] = h /\ host[h] \notin {"cancelled", "leaving", "gone"}
    BY <1>2, ServedFacts DEF StreamEnds
  <2>1. /\ quiet' = [quiet EXCEPT ![h] = 0]
        /\ worker' = [worker EXCEPT ![s] = "ended"]
        /\ UNCHANGED <<host, server, asked>>
    BY <1>2 DEF StreamEnds, hostVars, streamVars
  <2>. QED
    BY <2>1 DEF TypeOK, LingerKept
<1>3. ASSUME NEW h \in Hosts, IdleCheck(h) PROVE LingerKept'
  <2>1. CASE ~(active[h] = 0 /\ idle[h] >= linger[h])
    BY <1>3, <2>1 DEF IdleCheck, Goto, TypeOK, LingerKept, streamVars
  <2>2. CASE active[h] = 0 /\ idle[h] >= linger[h]
    <3>1. Counted(h) = {}
      BY <1>3, <2>2, IdleFacts DEF IdleCheck
    <3>2. idle[h] <= quiet[h]
      BY <1>3, <3>1 DEF IdleCheck, ClockIsLate, Counted
    <3>3. ASSUME NEW s \in Streams, worker[s] # "none", server[s] = h
          PROVE  quiet[h] >= asked[s]
      <4>1. asked[s] <= linger[h]
        BY <3>3 DEF StreamHasHost
      <4>2. {asked[s], linger[h], idle[h], quiet[h]} \subseteq Nat
        BY Numbers
      <4>. QED  BY <4>1, <4>2, <2>2, <3>2
    <3>. QED
      BY <1>3, <3>3 DEF IdleCheck, Goto, TypeOK, LingerKept, streamVars
  <2>. QED  BY <2>1, <2>2
<1>4. ASSUME NEW h \in Hosts, Accept(h) PROVE LingerKept'
  <2>. PICK s \in Streams :
         /\ server[s] = h /\ worker' = [worker EXCEPT ![s] = "serving"]
         /\ host' = [host EXCEPT ![h] = "accepting"]
         /\ UNCHANGED <<quiet, server, asked>>
    BY <1>4, AcceptFacts DEF streamVars
  <2>. QED
    BY DEF TypeOK, LingerKept
<1>5. CASE Tick
  <2>1. \A h \in Hosts : quiet[h] \in Nat /\ quiet'[h] \in Nat /\ quiet'[h] >= quiet[h]
    BY <1>5, Longest DEF Tick, TypeOK
  <2>2. \A s \in Streams : asked[s] \in Nat
    BY Numbers
  <2>3. UNCHANGED <<host, worker, server, asked>>
    BY <1>5 DEF Tick, streamVars
  <2>4. ASSUME NEW s \in Streams, worker[s] # "none", host[server[s]] \in {"cancelled", "leaving"}
        PROVE  quiet'[server[s]] >= asked[s]
    <3>1. server[s] \in Hosts
      BY <2>4 DEF StreamHasHost, TypeOK
    <3>2. quiet[server[s]] >= asked[s]
      BY <2>4 DEF LingerKept
    <3>. QED  BY <3>1, <3>2, <2>1, <2>2
  <2>. QED  BY <2>3, <2>4 DEF LingerKept
<1>6. UNCHANGED vars => UNCHANGED <<host, worker, server, quiet, asked>>
  BY DEF vars, hostVars, streamVars
<1>. USE Longest DEF TypeOK, LingerKept, StreamHasHost, Owning, Goto,
        ClosePipe, hostVars, streamVars
<1>7. CASE UNCHANGED <<host, worker, server, quiet, asked>>
  BY <1>7
<1>8. ASSUME NEW s \in Streams, Open(s) PROVE LingerKept'
  BY <1>8 DEF Open
<1>9. ASSUME NEW s \in Streams, StoreIdleSince(s) PROVE LingerKept'
  BY <1>9 DEF StoreIdleSince
<1>10. ASSUME NEW s \in Streams, CountDown(s) PROVE LingerKept'
  BY <1>10 DEF CountDown
<1>11. ASSUME NEW s \in Streams, NEW h \in Hosts, Connect(s, h) PROVE
      LingerKept'
  BY <1>11 DEF Connect
<1>12. ASSUME NEW s \in Streams, NEW h \in Hosts, SpawnHost(s, h) PROVE
      LingerKept'
  BY <1>12 DEF SpawnHost
<1>13. ASSUME NEW h \in Hosts, Start(h) PROVE LingerKept'
  BY <1>13 DEF Start
<1>14. ASSUME NEW h \in Hosts, SecondLeaves(h) PROVE LingerKept'
  BY <1>14 DEF SecondLeaves
<1>15. ASSUME NEW h \in Hosts, CreatePipe(h) PROVE LingerKept'
  BY <1>15 DEF CreatePipe
<1>16. ASSUME NEW h \in Hosts, ClientCame(h) PROVE LingerKept'
  BY <1>16 DEF ClientCame
<1>17. ASSUME NEW h \in Hosts, NoClientCame(h) PROVE LingerKept'
  BY <1>17 DEF NoClientCame
<1>18. ASSUME NEW h \in Hosts, ReadFails(h) PROVE LingerKept'
  BY <1>18 DEF ReadFails
<1>19. ASSUME NEW h \in Hosts, Refuse(h) PROVE LingerKept'
  BY <1>19 DEF Refuse
<1>20. ASSUME NEW h \in Hosts, Reply(h) PROVE LingerKept'
  BY <1>20 DEF Reply
<1>21. ASSUME NEW h \in Hosts, Disconnect(h) PROVE LingerKept'
  BY <1>21 DEF Disconnect
<1>22. ASSUME NEW h \in Hosts, Leave(h) PROVE LingerKept'
  BY <1>22 DEF Leave
<1>23. ASSUME NEW h \in Hosts, Crash(h) PROVE LingerKept'
  BY <1>23 DEF Crash
<1>24. ASSUME NEW h \in Hosts, CreatePipeFails(h) PROVE LingerKept'
  BY <1>24 DEF CreatePipeFails
<1>25. ASSUME NEW h \in Hosts, ConnectPipe(h) PROVE LingerKept'
  BY <1>25 DEF ConnectPipe
<1>. QED
  BY <1>1, <1>2, <1>3, <1>4, <1>5, <1>6, <1>7, <1>8, <1>9, <1>10, <1>11,
     <1>12, <1>13, <1>14, <1>15, <1>16, <1>17, <1>18, <1>19, <1>20, <1>21,
     <1>22, <1>23, <1>24, <1>25
  DEF Next, LinkStep, MainStep, ServeStep

\* The types follow from the rest: the count's range needs CountsStreams.
LEMMA TypeStep ==
  ASSUME TypeOK, PipeFollowsHost, ClientOfHost, StreamHasHost, CountsStreams,
       [Next]_vars
  PROVE  TypeOK'
<1>1. ASSUME NEW s \in Streams, StreamEnds(s) PROVE TypeOK'
  <2>1. quiet' \in [Hosts -> 0 .. MaxLinger]
    BY <1>1, Numbers DEF StreamEnds
  <2>. QED  BY <1>1, <2>1 DEF StreamEnds, TypeOK, hostVars, streamVars
<1>2. ASSUME NEW s \in Streams, StoreIdleSince(s) PROVE TypeOK'
  <2>1. idle' \in [Hosts -> 0 .. MaxLinger]
    BY <1>2, Numbers DEF StoreIdleSince
  <2>. QED  BY <1>2, <2>1 DEF StoreIdleSince, TypeOK, streamVars
<1>3. ASSUME NEW s \in Streams, CountDown(s) PROVE TypeOK'
  <2>. PICK h \in Hosts : server[s] = h /\ s \in Counted(h) /\ host[h] # "gone"
    BY <1>3, ServedFacts DEF CountDown
  <2>1. Cardinality(Counted(h)) # 0
    BY CountedFinite, FS_EmptySet
  <2>2. active[h] \in 1 .. Cardinality(Streams)
    BY <2>1, CountedFinite DEF CountsStreams, TypeOK
  <2>3. active \in [Hosts -> 0 .. Cardinality(Streams)] /\ Cardinality(Streams) \in Nat
    BY HostLifecycleAssumption, FS_CardinalityType DEF TypeOK
  <2>4. active' \in [Hosts -> 0 .. Cardinality(Streams)]
    BY <1>3, <2>2, <2>3 DEF CountDown
  <2>. QED  BY <1>3, <2>4 DEF CountDown, TypeOK, streamVars
<1>4. ASSUME NEW h \in Hosts, Accept(h) PROVE TypeOK'
  <2>. PICK s \in Streams :
         /\ server[s] = h /\ worker[s] = "none" /\ host[h] = "handling"
         /\ linger' = [linger EXCEPT ![h] = IF asked[s] > @ THEN asked[s] ELSE @]
         /\ active' = [active EXCEPT ![h] = @ + 1]
         /\ worker' = [worker EXCEPT ![s] = "serving"]
         /\ host' = [host EXCEPT ![h] = "accepting"]
         /\ UNCHANGED <<mutex, pipe, client, idle, streamVars, quiet>>
    BY <1>4, AcceptFacts
  <2>1. /\ Counted(h) \cup {s} \subseteq Streams /\ s \notin Counted(h)
        /\ IsFiniteSet(Streams)
    BY HostLifecycleAssumption DEF Counted
  <2>2. Cardinality(Counted(h) \cup {s}) = Cardinality(Counted(h)) + 1
    BY <2>1, CountedFinite, FS_AddElement
  <2>3. /\ Cardinality(Counted(h) \cup {s}) <= Cardinality(Streams)
        /\ Cardinality(Streams) \in Nat
    BY <2>1, FS_Subset, FS_CardinalityType
  <2>4. active[h] + 1 \in 0 .. Cardinality(Streams)
    BY <2>2, <2>3, CountedFinite DEF CountsStreams
  <2>5. active' \in [Hosts -> 0 .. Cardinality(Streams)]
    BY <2>4 DEF TypeOK
  <2>6. linger' \in [Hosts -> Lingers \cup {0}]
    BY DEF TypeOK
  <2>. QED
    BY <2>5, <2>6 DEF TypeOK, Owning, streamVars
<1>5. UNCHANGED vars => UNCHANGED <<vars>>
  OBVIOUS
<1>. USE Longest DEF TypeOK, Owning, Goto, ClosePipe, vars, hostVars,
        streamVars
<1>6. CASE UNCHANGED <<vars>>
  BY <1>6
<1>7. ASSUME NEW s \in Streams, Open(s) PROVE TypeOK'
  BY <1>7 DEF Open
<1>8. ASSUME NEW s \in Streams, TimeOut(s) PROVE TypeOK'
  BY <1>8 DEF TimeOut
<1>9. ASSUME NEW s \in Streams, Broken(s) PROVE TypeOK'
  BY <1>9 DEF Broken
<1>10. ASSUME NEW s \in Streams, End(s) PROVE TypeOK'
  BY <1>10 DEF End
<1>11. ASSUME NEW s \in Streams, NEW h \in Hosts, Connect(s, h) PROVE TypeOK'
  BY <1>11 DEF Connect
<1>12. ASSUME NEW s \in Streams, NEW h \in Hosts, SpawnHost(s, h) PROVE
      TypeOK'
  BY <1>12 DEF SpawnHost
<1>13. ASSUME NEW h \in Hosts, Start(h) PROVE TypeOK'
  BY <1>13 DEF Start
<1>14. ASSUME NEW h \in Hosts, SecondLeaves(h) PROVE TypeOK'
  BY <1>14 DEF SecondLeaves
<1>15. ASSUME NEW h \in Hosts, CreatePipe(h) PROVE TypeOK'
  BY <1>15 DEF CreatePipe
<1>16. ASSUME NEW h \in Hosts, ClientCame(h) PROVE TypeOK'
  BY <1>16 DEF ClientCame
<1>17. ASSUME NEW h \in Hosts, NoClientCame(h) PROVE TypeOK'
  BY <1>17 DEF NoClientCame
<1>18. ASSUME NEW h \in Hosts, IdleCheck(h) PROVE TypeOK'
  BY <1>18 DEF IdleCheck
<1>19. ASSUME NEW h \in Hosts, ReadFails(h) PROVE TypeOK'
  BY <1>19 DEF ReadFails
<1>20. ASSUME NEW h \in Hosts, Refuse(h) PROVE TypeOK'
  BY <1>20 DEF Refuse
<1>21. ASSUME NEW h \in Hosts, Reply(h) PROVE TypeOK'
  BY <1>21 DEF Reply
<1>22. ASSUME NEW h \in Hosts, Disconnect(h) PROVE TypeOK'
  BY <1>22 DEF Disconnect
<1>23. ASSUME NEW h \in Hosts, Leave(h) PROVE TypeOK'
  BY <1>23 DEF Leave
<1>24. ASSUME NEW h \in Hosts, Crash(h) PROVE TypeOK'
  BY <1>24 DEF Crash
<1>25. CASE Tick
  BY <1>25 DEF Tick
<1>26. ASSUME NEW h \in Hosts, CreatePipeFails(h) PROVE TypeOK'
  BY <1>26 DEF CreatePipeFails
<1>27. ASSUME NEW h \in Hosts, ConnectPipe(h) PROVE TypeOK'
  BY <1>27 DEF ConnectPipe
<1>28. ASSUME NEW s \in Streams, DawLeaves(s) PROVE TypeOK'
  BY <1>28 DEF DawLeaves
<1>. QED
  BY <1>1, <1>2, <1>3, <1>4, <1>5, <1>6, <1>7, <1>8, <1>9, <1>10, <1>11,
     <1>12, <1>13, <1>14, <1>15, <1>16, <1>17, <1>18, <1>19, <1>20, <1>21,
     <1>22, <1>23, <1>24, <1>25, <1>26, <1>27, <1>28
  DEF Next, LinkStep, MainStep, ServeStep

-----------------------------------------------------------------------------
(* The theorems.                                                            *)

LEMMA HostInit == Init => HostInv
<1>. SUFFICES ASSUME Init PROVE HostInv
  OBVIOUS
<1>. USE HostLifecycleAssumption DEF Init
<1>1. TypeOK
  BY Longest, FS_CardinalityType DEF TypeOK, Owning
<1>2. MutexHeld /\ PipeFollowsHost /\ ClientOfHost /\ StreamHasHost
  BY DEF MutexHeld, OneHostOwns, Owning, PipeFollowsHost, ClientOfHost, StreamHasHost
<1>3. CountsStreams
  BY FS_EmptySet DEF CountsStreams, Counted
<1>4. ClockIsLate /\ LingerKept
  BY DEF ClockIsLate, LingerKept
<1>. QED  BY <1>1, <1>2, <1>3, <1>4 DEF HostInv

\* In every state any number of hosts, opens, ticks and crashes can reach, who
\* holds the mutex, what a pipe's ends know of each other, the count of streams
\* and the clock agree as HostInv says.
THEOREM HostInvariant == Spec => []HostInv
<1>1. HostInv /\ [Next]_vars => HostInv'
  BY MutexStep, PipeStep, ClientStep, StreamStep, CountStep, ClockStep, LingerStep, TypeStep
  DEF HostInv
<1>. QED  BY <1>1, HostInit, PTL DEF Spec

\* The variables keep their types; above all the count of streams never drops
\* below zero.
THEOREM TypeCorrect == Spec => []TypeOK
<1>1. HostInv => TypeOK
  BY DEF HostInv
<1>. QED  BY <1>1, HostInvariant, PTL

\* The named mutex lets one process at a time own the endpoint, however starts,
\* exits and crashes interleave.
THEOREM OneOwner == Spec => []OneHostOwns
<1>1. HostInv => OneHostOwns
  BY DEF HostInv, MutexHeld
<1>. QED  BY <1>1, HostInvariant, PTL

\* The idle exit of Server::serveLoop is never taken with a stream accepted and
\* not yet over, although the count is read without a lock.
THEOREM AcceptedNeverAbandoned == Spec => []NoStreamAbandoned
<1>1. HostInv => NoStreamAbandoned
  <2>. SUFFICES ASSUME HostInv, NEW s \in Streams, worker[s] = "serving"
                PROVE  host[server[s]] \notin {"cancelled", "leaving"}
    BY DEF NoStreamAbandoned
  <2>. QED  BY ServedFacts DEF HostInv
<1>. QED  BY <1>1, HostInvariant, PTL

\* A host that decides to leave has been without a stream for the longest linger
\* that any wrapper it served asked for: handleClient's maximum and the order of
\* the serve thread's two stores are enough.
THEOREM LingerIsKept == Spec => []LingerKept
<1>1. HostInv => LingerKept
  BY DEF HostInv
<1>. QED  BY <1>1, HostInvariant, PTL
===============================================================================
