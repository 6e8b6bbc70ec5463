----------------------------- MODULE HostLifecycle -----------------------------
(***************************************************************************)
(* The engine host's processes around the streams they serve: a start that *)
(* finds another host and leaves, one pipe instance at a time, a serve     *)
(* thread per stream, the idle exit, and the wrappers' link that connects, *)
(* starts a host once and asks it to serve a ring.                         *)
(*                                                                         *)
(* What flows through a ring is StreamRing's matter: here a stream is      *)
(* open or over.  Time is the number of ticks since a moment, counted no   *)
(* further than the longest linger.  A host is never resident.             *)
(***************************************************************************)
EXTENDS Integers, FiniteSets

CONSTANTS Hosts,    \* bound: the processes that may ever be started
          Streams,  \* bound: the opens that may ever be tried
          Lingers,  \* the lingerMs of the wrappers' options, in ticks
          NoStream, \* no client on a pipe
          NoHost,   \* a stream no host has answered
          Crashes   \* TRUE: a host may crash at any time

ASSUME HostLifecycleAssumption ==
  /\ Lingers \subseteq Nat /\ \E l \in Lingers : \A m \in Lingers : m <= l
  /\ IsFiniteSet(Streams)
  /\ NoStream \notin Streams /\ NoHost \notin Hosts
  /\ Crashes \in BOOLEAN

VARIABLES
  host,      \* where the main thread of each process stands
  mutex,     \* the processes with a handle on the owner mutex
  pipe,      \* each process' pipe instance; "broken" by a client that left
             \* before the host looked
  client,    \* the stream on the other end of it
  linger,    \* Arguments::lingerMs
  active,    \* Server::activeStreams
  idle,      \* ticks since Server::idleSince
  worker,    \* where the serve thread of each stream stands
  stream,    \* what the wrapper's open has come to
  asked,     \* StreamOptions::lingerMs of each open
  spawned,   \* the opens that have started a host
  server,    \* the host each stream is connected to or served by
  unheard,   \* the streams whose end no event tells their serve thread
  quiet      \* history: ticks since a host's last stream ended

hostVars == <<host, mutex, pipe, client, linger, active, idle>>
streamVars == <<stream, asked, spawned, server, unheard>>
vars == <<hostVars, worker, streamVars, quiet>>

MaxLinger == CHOOSE l \in Lingers : \A m \in Lingers : m <= l

Init ==
  /\ host = [h \in Hosts |-> "unborn"]
  /\ mutex = {}
  /\ pipe = [h \in Hosts |-> "none"]
  /\ client = [h \in Hosts |-> NoStream]
  /\ linger = [h \in Hosts |-> 0]
  /\ active = [h \in Hosts |-> 0]
  /\ idle = [h \in Hosts |-> 0]
  /\ worker = [s \in Streams |-> "none"]
  /\ stream = [s \in Streams |-> "unopened"]
  /\ asked = [s \in Streams |-> 0]
  /\ spawned = {}
  /\ server = [s \in Streams |-> NoHost]
  /\ unheard = {}
  /\ quiet = [h \in Hosts |-> 0]

\* The owner of the endpoint, from its start to its exit.
Owning == {"create", "offering", "listening", "timedOut", "handling", "accepting",
           "refusing", "cancelled", "leaving", "failing"}

\* An owner that can still answer a wrapper.
Serving == Owning \ {"cancelled", "leaving", "failing"}

Goto(h, place) == host' = [host EXCEPT ![h] = place]

\* The instance is closed; its client finds the pipe broken.
ClosePipe(h) ==
  /\ pipe' = [pipe EXCEPT ![h] = "none"]
  /\ client' = [client EXCEPT ![h] = NoStream]

-----------------------------------------------------------------------------
(* The wrapper's link.                                                     *)

Open(s) ==
  /\ stream[s] = "unopened"
  /\ stream' = [stream EXCEPT ![s] = "connecting"]
  /\ \E l \in Lingers : asked' = [asked EXCEPT ![s] = l]
  /\ UNCHANGED <<hostVars, worker, spawned, server, unheard, quiet>>

\* CreateFile finds an instance that waits for a client.
Connect(s, h) ==
  /\ stream[s] = "connecting" /\ pipe[h] = "waiting"
  /\ pipe' = [pipe EXCEPT ![h] = "connected"]
  /\ client' = [client EXCEPT ![h] = s]
  /\ stream' = [stream EXCEPT ![s] = "connected"]
  /\ server' = [server EXCEPT ![s] = h]
  /\ UNCHANGED <<host, mutex, linger, active, idle, worker, asked, spawned, unheard, quiet>>

\* There is no instance: the link starts a host, once.
SpawnHost(s, h) ==
  /\ stream[s] = "connecting" /\ s \notin spawned
  /\ \A g \in Hosts : pipe[g] = "none"
  /\ host[h] = "unborn"
  /\ Goto(h, "starting")
  /\ linger' = [linger EXCEPT ![h] = asked[s]]
  /\ spawned' = spawned \cup {s}
  /\ UNCHANGED <<mutex, pipe, client, active, idle, worker, stream, asked, server, unheard, quiet>>

\* readyTimeoutMs has passed.
TimeOut(s) ==
  /\ stream[s] = "connecting"
  /\ stream' = [stream EXCEPT ![s] = "timedOut"]
  /\ UNCHANGED <<hostVars, worker, asked, spawned, server, unheard, quiet>>

\* The host closed its end before it answered.
Broken(s) ==
  /\ stream[s] = "connected" /\ client[server[s]] # s
  /\ stream' = [stream EXCEPT ![s] = "broken"]
  /\ UNCHANGED <<hostVars, worker, asked, spawned, server, unheard, quiet>>

\* The wrapper closes its stream, or its process dies at any point.  Of an open
\* stream the serve thread may not hear: it wrote Ready over Closing as it had
\* built its engines, or it has no handle on the process that died.  Before, it
\* waits for the ring's header and gives it a time limit.
End(s) ==
  /\ stream[s] \in {"connecting", "connected", "open"}
  /\ stream' = [stream EXCEPT ![s] = "over"]
  /\ \/ UNCHANGED unheard
     \/ stream[s] = "open" /\ unheard' = unheard \cup {s}
  /\ UNCHANGED <<hostVars, worker, asked, spawned, server, quiet>>

\* A process that had closed its stream dies in its turn: its handle tells.
DawLeaves(s) ==
  /\ s \in unheard
  /\ unheard' = unheard \ {s}
  /\ UNCHANGED <<hostVars, worker, stream, asked, spawned, server, quiet>>

-----------------------------------------------------------------------------
(* The host's main thread.                                                 *)

\* Mutant: a start that opens the mutex takes it for its own.
StartRegardless(h) ==
  /\ host[h] = "starting"
  /\ mutex' = mutex \cup {h}
  /\ Goto(h, "create")
  /\ idle' = [idle EXCEPT ![h] = 0]
  /\ quiet' = [quiet EXCEPT ![h] = 0]
  /\ UNCHANGED <<pipe, client, linger, active, worker, streamVars>>

\* The mutex exists as long as any process has a handle on it.
Start(h) ==
  /\ host[h] = "starting"
  /\ mutex' = mutex \cup {h}
  /\ Goto(h, IF mutex = {} THEN "create" ELSE "second")
  /\ idle' = [idle EXCEPT ![h] = 0]
  /\ quiet' = [quiet EXCEPT ![h] = 0]
  /\ UNCHANGED <<pipe, client, linger, active, worker, streamVars>>

SecondLeaves(h) ==
  /\ host[h] = "second"
  /\ mutex' = mutex \ {h}
  /\ Goto(h, "gone")
  /\ UNCHANGED <<pipe, client, linger, active, idle, worker, streamVars, quiet>>

CreatePipe(h) ==
  /\ host[h] = "create"
  /\ pipe' = [pipe EXCEPT ![h] = "waiting"]
  /\ Goto(h, "offering")
  /\ UNCHANGED <<mutex, client, linger, active, idle, worker, streamVars, quiet>>

\* Windows gives no instance: the host abandons its streams and leaves.
CreatePipeFails(h) ==
  /\ host[h] = "create"
  /\ Goto(h, "failing")
  /\ UNCHANGED <<mutex, pipe, client, linger, active, idle, worker, streamVars, quiet>>

\* ConnectNamedPipe: a client is there already, or is waited for.  One that has
\* come and gone makes it fail, and the wait is then for an event that nothing
\* will set.
ConnectPipe(h) ==
  LET left == pipe[h] = "connected" /\ stream[client[h]] # "connected" IN
  /\ host[h] = "offering"
  /\ IF left THEN /\ pipe' = [pipe EXCEPT ![h] = "broken"]
                  /\ client' = [client EXCEPT ![h] = NoStream]
             ELSE UNCHANGED <<pipe, client>>
  /\ Goto(h, IF pipe[h] = "connected" /\ ~left THEN "handling" ELSE "listening")
  /\ UNCHANGED <<mutex, linger, active, idle, worker, streamVars, quiet>>

\* The wait for a client ends with a client, or after a second without.
ClientCame(h) ==
  /\ host[h] = "listening" /\ pipe[h] = "connected"
  /\ Goto(h, "handling")
  /\ UNCHANGED <<mutex, pipe, client, linger, active, idle, worker, streamVars, quiet>>

NoClientCame(h) ==
  /\ host[h] = "listening" /\ pipe[h] \in {"waiting", "broken"}
  /\ Goto(h, "timedOut")
  /\ UNCHANGED <<mutex, pipe, client, linger, active, idle, worker, streamVars, quiet>>

\* Mutant: idleness is judged by the time alone.
IdleCheckByTime(h) ==
  /\ host[h] = "timedOut"
  /\ Goto(h, IF idle[h] >= linger[h] THEN "cancelled" ELSE "listening")
  /\ UNCHANGED <<mutex, pipe, client, linger, active, idle, worker, streamVars, quiet>>

\* The idle check, on the thread that accepts streams; a client that comes
\* between the wait and CancelIo is not looked at again.
IdleCheck(h) ==
  /\ host[h] = "timedOut"
  /\ Goto(h, IF active[h] = 0 /\ idle[h] >= linger[h] THEN "cancelled" ELSE "listening")
  /\ UNCHANGED <<mutex, pipe, client, linger, active, idle, worker, streamVars, quiet>>

\* The request could not be read: the client is gone.
ReadFails(h) ==
  /\ host[h] = "handling" /\ stream[client[h]] # "connected"
  /\ ClosePipe(h)
  /\ Goto(h, "create")
  /\ UNCHANGED <<mutex, linger, active, idle, worker, streamVars, quiet>>

\* Mutant: the last wrapper's linger replaces a longer one.
AcceptLastLinger(h) ==
  LET s == client[h] IN
  /\ host[h] = "handling" /\ stream[s] = "connected"
  /\ linger' = [linger EXCEPT ![h] = asked[s]]
  /\ active' = [active EXCEPT ![h] = @ + 1]
  /\ worker' = [worker EXCEPT ![s] = "serving"]
  /\ Goto(h, "accepting")
  /\ UNCHANGED <<mutex, pipe, client, idle, streamVars, quiet>>

\* The stream is counted and its thread started before the answer goes out.
Accept(h) ==
  LET s == client[h] IN
  /\ host[h] = "handling" /\ stream[s] = "connected"
  /\ linger' = [linger EXCEPT ![h] = IF asked[s] > @ THEN asked[s] ELSE @]
  /\ active' = [active EXCEPT ![h] = @ + 1]
  /\ worker' = [worker EXCEPT ![s] = "serving"]
  /\ Goto(h, "accepting")
  /\ UNCHANGED <<mutex, pipe, client, idle, streamVars, quiet>>

\* Another protocol version, or no usable ring.
Refuse(h) ==
  /\ host[h] = "handling" /\ stream[client[h]] = "connected"
  /\ Goto(h, "refusing")
  /\ UNCHANGED <<mutex, pipe, client, linger, active, idle, worker, streamVars, quiet>>

\* Mutant: the answer waits for the stream to be over.
ReplyAfterServing(h) ==
  LET s == client[h] IN
  /\ host[h] \in {"accepting", "refusing"} /\ worker[s] # "serving"
  /\ stream' = [stream EXCEPT ![s] =
       IF @ # "connected" THEN @ ELSE IF host[h] = "accepting" THEN "open" ELSE "refused"]
  /\ ClosePipe(h)
  /\ Goto(h, "create")
  /\ UNCHANGED <<mutex, linger, active, idle, worker, asked, spawned, server, unheard, quiet>>

\* The answer is written and flushed, and the instance closed.
Reply(h) ==
  LET s == client[h] IN
  /\ host[h] \in {"accepting", "refusing"}
  /\ stream' = [stream EXCEPT ![s] =
       IF @ # "connected" THEN @ ELSE IF host[h] = "accepting" THEN "open" ELSE "refused"]
  /\ ClosePipe(h)
  /\ Goto(h, "create")
  /\ UNCHANGED <<mutex, linger, active, idle, worker, asked, spawned, server, unheard, quiet>>

\* The idle exit closes the pipe, joins the serve threads and, as the
\* process ends, drops the mutex.
Disconnect(h) ==
  /\ host[h] = "cancelled"
  /\ ClosePipe(h)
  /\ Goto(h, "leaving")
  /\ UNCHANGED <<mutex, linger, active, idle, worker, streamVars, quiet>>

Leave(h) ==
  /\ host[h] \in {"leaving", "failing"}
  /\ \A s \in Streams : server[s] = h => worker[s] \in {"none", "finished"}
  /\ mutex' = mutex \ {h}
  /\ Goto(h, "gone")
  /\ UNCHANGED <<pipe, client, linger, active, idle, worker, streamVars, quiet>>

Crash(h) ==
  /\ Crashes /\ host[h] \notin {"unborn", "gone"}
  /\ mutex' = mutex \ {h}
  /\ ClosePipe(h)
  /\ worker' = [s \in Streams |-> IF server[s] = h /\ worker[s] # "none" THEN "finished" ELSE worker[s]]
  /\ Goto(h, "gone")
  /\ UNCHANGED <<linger, active, idle, streamVars, quiet>>

-----------------------------------------------------------------------------
(* The serve threads.                                                      *)

\* serveStream returns once it sees that the wrapper has closed the ring or died,
\* or that its own host leaves.
StreamEnds(s) ==
  /\ worker[s] = "serving"
  /\ \/ stream[s] \notin {"connected", "open"} /\ s \notin unheard
     \/ host[server[s]] \in {"leaving", "failing"}
  /\ worker' = [worker EXCEPT ![s] = "ended"]
  /\ quiet' = [quiet EXCEPT ![server[s]] = 0]
  /\ UNCHANGED <<hostVars, streamVars>>

StoreIdleSince(s) ==
  /\ worker[s] = "ended"
  /\ worker' = [worker EXCEPT ![s] = "stored"]
  /\ idle' = [idle EXCEPT ![server[s]] = 0]
  /\ UNCHANGED <<host, mutex, pipe, client, linger, active, streamVars, quiet>>

\* Mutant: a stream that has ended stays counted.
CountDownNever(s) ==
  /\ worker[s] = "stored"
  /\ worker' = [worker EXCEPT ![s] = "finished"]
  /\ UNCHANGED <<hostVars, streamVars, quiet>>

CountDown(s) ==
  /\ worker[s] = "stored"
  /\ worker' = [worker EXCEPT ![s] = "finished"]
  /\ active' = [active EXCEPT ![server[s]] = @ - 1]
  /\ UNCHANGED <<host, mutex, pipe, client, linger, idle, streamVars, quiet>>

Tick ==
  LET Later(age) == [h \in Hosts |-> IF age[h] < MaxLinger THEN age[h] + 1 ELSE age[h]] IN
  /\ idle' = Later(idle) /\ quiet' = Later(quiet)
  /\ UNCHANGED <<host, mutex, pipe, client, linger, active, worker, streamVars>>

-----------------------------------------------------------------------------
LinkStep(s) == TimeOut(s) \/ Broken(s) \/ \E h \in Hosts : Connect(s, h) \/ SpawnHost(s, h)

MainStep(h) ==
  \/ Start(h) \/ SecondLeaves(h)
  \/ CreatePipe(h) \/ CreatePipeFails(h) \/ ConnectPipe(h)
  \/ ClientCame(h) \/ NoClientCame(h) \/ IdleCheck(h)
  \/ ReadFails(h) \/ Accept(h) \/ Refuse(h) \/ Reply(h)
  \/ Disconnect(h) \/ Leave(h)

ServeStep(s) == StreamEnds(s) \/ StoreIdleSince(s) \/ CountDown(s)

Next ==
  \/ \E s \in Streams : Open(s) \/ LinkStep(s) \/ End(s) \/ DawLeaves(s) \/ ServeStep(s)
  \/ \E h \in Hosts : MainStep(h) \/ Crash(h)
  \/ Tick

Spec == Init /\ [][Next]_vars

\* Processes and threads are scheduled, the ready timeout comes, and time
\* passes; nobody has to open or to close a stream.
Fairness ==
  /\ \A s \in Streams : WF_vars(TimeOut(s)) /\ WF_vars(Broken(s)) /\ WF_vars(ServeStep(s))
  /\ \A h \in Hosts : WF_vars(MainStep(h))
  /\ WF_vars(Tick)

FairSpec == Spec /\ Fairness

-----------------------------------------------------------------------------
(* Properties.                                                             *)

TypeOK ==
  /\ host \in [Hosts -> Owning \cup {"unborn", "starting", "second", "gone"}]
  /\ mutex \subseteq Hosts
  /\ pipe \in [Hosts -> {"none", "waiting", "connected", "broken"}]
  /\ client \in [Hosts -> Streams \cup {NoStream}]
  /\ linger \in [Hosts -> Lingers \cup {0}]
  /\ active \in [Hosts -> 0 .. Cardinality(Streams)]
  /\ idle \in [Hosts -> 0 .. MaxLinger]
  /\ worker \in [Streams -> {"none", "serving", "ended", "stored", "finished"}]
  /\ stream \in [Streams -> {"unopened", "connecting", "connected", "open", "over",
                             "timedOut", "broken", "refused"}]
  /\ asked \in [Streams -> Lingers \cup {0}]
  /\ spawned \subseteq Streams
  /\ server \in [Streams -> Hosts \cup {NoHost}]
  /\ unheard \subseteq Streams
  /\ quiet \in [Hosts -> 0 .. MaxLinger]

(* Two hosts never own the endpoint at once, however many are started and  *)
(* whenever one leaves or crashes.                                         *)
OneHostOwns == \A g, h \in Hosts : host[g] \in Owning /\ host[h] \in Owning => g = h

(* The idle exit never leaves a stream it has accepted: not one that is    *)
(* being opened, and not one that came while it was making up its mind.    *)
NoStreamAbandoned ==
  \A s \in Streams :
    worker[s] = "serving" => host[server[s]] \notin {"cancelled", "leaving"}

(* A host outlives its last stream by the longest linger that any of its   *)
(* wrappers asked for.                                                     *)
LingerKept ==
  \A s \in Streams :
    worker[s] # "none" /\ host[server[s]] \in {"cancelled", "leaving"} =>
      quiet[server[s]] >= asked[s]

(* Every open ends: no wrapper waits for ever for an answer on the pipe.   *)
OpenReturns ==
  \A s \in Streams : (stream[s] \in {"connecting", "connected"}) ~>
                       (stream[s] \notin {"connecting", "connected"})

(* When the wrappers have gone for good, so do the hosts, except one that  *)
(* still serves a stream whose end it cannot hear of.                      *)
Kept(h) == \E s \in unheard : server[s] = h /\ worker[s] = "serving"

AllOver == \A s \in Streams : stream[s] \notin {"connecting", "connected", "open"}

HostsLeave ==
  <>[]AllOver => <>[]\A h \in Hosts : host[h] \in {"unborn", "gone"} \/ Kept(h)

(* The same, of every host: not so.                                        *)
EveryHostLeaves == <>[]AllOver => <>[]\A h \in Hosts : host[h] \in {"unborn", "gone"}

(* A start that finds another host leaves, since that one keeps serving:   *)
(* not so.                                                                 *)
SecondLeavesToAServer ==
  \A h \in Hosts : host[h] = "second" => \E g \in Hosts : host[g] \in Serving

(* A host that waits for clients can be reached by one: not so.            *)
ListenerHears ==
  \A h \in Hosts : host[h] \in {"listening", "timedOut"} => pipe[h] # "broken"
=============================================================================
