# EqualizerAPO-XT: a verification project

TLA+ models of EqualizerAPO-XT: its concurrent core, its configuration
language and filter graph, its device installation and its subwoofer routing,
model-checked with TLC and, most of it, proved with TLAPS.

## The system

EqualizerAPO-XT filters every sound Windows plays or records. A *filter
engine* reads a text configuration, builds a chain of filters from it, and
swaps it into the running stream whenever the file changes. The engine is
reached in three ways: as an audio processing object inside the Windows audio
service (`EqualizerAPO/`), from Voicemeeter (`VoicemeeterClient/`), and as an
ASIO driver that wraps another driver (`asio/`, `EqualizerAPOAsio/`) and sends
the audio to a separate *engine host* process (`EqualizerAPOHost/`) over
shared memory (`runtime/ipc/`).

### Components, their state, and what makes them correct

| component | state | operations | hard behaviour | correct when |
|---|---|---|---|---|
| `engine/ConfigSwapChannel`, `FilterEngine` | three pointers, a ready flag, a one-permit semaphore, a crossfade counter, the load mutex | initialize, loadConfig, process, destructor | client, worker and audio thread interleave without a lock on the audio side | a configuration in use is alive; a reload is never overwritten or lost, and is heard after a whole crossfade; the destructor ends |
| `engine/ConfigWatcher` | directory notification, registry event, snapshot | run | edits during a reload; failures of the watch | every edit that is watched for is followed by a load |
| `engine/FilterEngine.Configuration`, `filters/*Factory` | load session, stacks of conditions, stages, channels | loadConfig, loadConfigFile | a load that fails in the middle; nested includes and conditions | conditions nest; an included file leaves no trace in the lines after it |
| `addFilters`, `engine/FilterConfiguration` | filters with lists of channels, or empty lists that stand for "as before"; four arrays of pointers | addFilters, process | lists left out in one place, pointers moved in another; filters that do not work in place | a block flows through the lines, channel by channel, as they are written |
| `runtime/ipc/StreamRing` | header state, two sequences and two slots per lane | publish, wait, poll; acquire, release; close | two processes on shared memory, either may die; late blocks; wrap-around | slots are exclusive, blocks in order, both ends find out about the other's end |
| `asio/DaemonProcessor`, `EngineHostCore` | lane sequence, staging planes, late count; the engines | open, process, close; serveStream | time limits racing answers; a host two blocks behind | what goes back to the DAW is filtered and is the right block |
| `asio/CallbackTrampolines` | per slot a sink pointer and a gate of entrants | claim, release, drained, callbacks | a callback already inside while its slot is released and claimed again | a callback never reaches a sink that was destroyed |
| `asio/AsioWrapper` | Loaded, Initialized, Prepared, Running; pending output index | init, createBuffers, start, stop, disposeBuffers, buffer switches | the DAW's and the driver's threads | buffers outlive the callbacks that use them; each output is committed once |
| `asio/WasapiExclusiveTarget` | stream thread, port, device block (bridge) | start, stop, disposeBuffers, streamLoop, rebridge, outputReady | two threads may commit a period; a device that wants coarser blocks than it promised | the device is handed every period of the DAW once and in order; start and stop return |
| `asio/Win32HostLink`, `EqualizerAPOHost` | pipe, owner mutex, serve threads, stream count, idle clock | connect or spawn, accept, serve, linger, leave | two wrappers start hosts at once; a host leaves while one connects | one host serves; no stream is dropped by an idle exit; an open is answered |
| `services/registry/RegistryTransaction` | journal of inverse operations | set, delete, create, commit, rollback | failure at any operation, and during the rollback itself | a transaction that does not commit leaves the registry as it was |
| `devices/DeviceAPOInfo` | registry values of a device | load, install, uninstall, reinstall | a refused operation half way; Windows writing to the same keys | a failed operation leaves nothing behind; uninstall gives the driver its chain back; what is installed is what is read |
| `SubwooferRoutingCore`, `filters/subwooferRouting` | a compiled graph; delay lines and equalizer states | validate, compile, prepare, process, reset | a stream cut into blocks; outputs that are other channels' inputs | what is played is what the state declares of the stream |
| `services/update/UpdateSession` | phase, worker thread | startDownload, shutdown | completion racing shutdown | one download, one outcome, the join ends |
| `runtime/concurrency`, `filters/IrCache` | task counters; weak references | run, get | the last reference dropped while another thread asks | each index runs once; one live value per key |
| `vst/`, `VoicemeeterClient`, `UpdateChecker` | - | - | third-party code, callbacks | not modelled |
| `Editor/`, `DeviceSelector/`, `Installer/`, `dsp/`, `filters/*Filter` | - | - | user interface, packaging, floating-point arithmetic | not modelled |

The engine, watcher and audio thread share memory; the wrapper and the host
share one mapped region per stream and a control pipe per endpoint; the
wrapper's threads are the target driver's callbacks and the DAW's calls. The
WASAPI target is one such driver, in the wrapper's own process. The
configuration's lines end in filters, of which the subwoofer routing is one;
installing a device is registry operations under one transaction.

## Modules

| module | models | role |
|---|---|---|
| `HotSwap` | what the configuration handoff promises | abstract specification |
| `ConfigSwap` | `ConfigSwapChannel`, `FilterEngine`'s client and audio side, the worker's reload | refines `HotSwap` |
| `MC_ConfigSwap` | - | the configurations of the runs |
| `ConfigSwap_proofs` | - | theorems of `ConfigSwap` |
| `BlockFifo` | what one stream of blocks promises | abstract specification |
| `StreamRing` | `RingProducer`, `RingConsumer`, `DaemonProcessor`, `EngineHostCore::serveStream` | refines `BlockFifo` |
| `StreamRing_proofs` | - | theorems of `StreamRing` |
| `CallbackTrampolines` | the pool of callback sets and its gates | used by `AsioWrapper` |
| `AsioWrapper` | the wrappers' buffer lifecycle, composed with the pool | extends `CallbackTrampolines` |
| `AsioWrapper_proofs` | - | theorems of `CallbackTrampolines`, then of `AsioWrapper` from them |
| `HostLifecycle` | the engine host's processes, the control pipe, `Win32HostLink` | |
| `HostLifecycle_proofs` | - | theorems of `HostLifecycle` |
| `ConfigWatcher` | the watcher's loop, the keys and files it watches | the worker of `ConfigSwap`, in full |
| `ChannelFilters` | what a filter is to the graph | operators |
| `ChannelFlow` | what lines promise about channels | abstract specification |
| `FilterGraph` | `addFilters`, `FilterConfiguration` | refines `ChannelFlow` |
| `ConfigLanguage` | `loadConfigFile`, the factories of `If`, `Device`, `Stage`, `Include` | extends `FilterGraph` |
| `ConfigLanguage_proofs` | - | theorems of `FilterGraph`, then of `ConfigLanguage` from them |
| `MC_ConfigLanguage` | - | the filters and texts of its runs |
| `OutputHandshake` | `AsioWrapper::switchBuffers` and `outputReady` | used by `WasapiTarget` |
| `WasapiTarget` | `WasapiExclusiveTarget`'s stream thread, control calls and rebridge | extends `OutputHandshake` |
| `WasapiTarget_proofs` | - | theorems of `WasapiTarget` and `OutputHandshake` |
| `RegistryTransaction` | the journal, its rollback, a registry others write to | |
| `DeviceInstall` | `DeviceAPOInfo` and the records of ASIO endpoints | extends `RegistryTransaction` |
| `MC_DeviceInstall` | - | the endpoints and selections of its runs |
| `DeviceInstall_proofs` | - | theorems of `RegistryTransaction`, then of `DeviceInstall` from them |
| `SubwooferRouting` | `Compiler.cpp`, `Processor.cpp`, the routing's filter and factory | |
| `MC_SubwooferRouting` | - | the states, devices and numbers of its run |
| `SubwooferRouting_proofs` | - | theorems of `SubwooferRouting` |

Definitions whose comment calls them a mutant or a slip are not steps of the
program. Each is the form another definition takes when somebody makes a
plausible mistake, and is there to show that some property notices it.

### ConfigSwap

Three threads meet in `ConfigSwapChannel`: the *client* (`ctl`), which locks,
unlocks and destroys the engine; the *notification worker* (`wt`), which
watches the directory and reloads; and the *audio thread* (`rt`). Each of
these variables says where its thread stands; an action is what the thread
does between two points at which another thread can see the difference. The
channel's `unique_ptr`s are `current`, `pending`, `previous`, and the loader's
local is `building`: a configuration is alive while one of the four holds it,
which is how "used after it was destroyed" becomes a statement about states.
The audio thread's references are `rtCurrent` and `rtNext`. The semaphore is
`permit`, the flag that says who must give it back `permitHeld`; winning the
one and setting the other are two steps in the code and two actions here
(`AcquirePermit`, `MarkHeld`). `publish` is three stores and three actions
(`Retire`, `StorePending`, `SetReady`), and so is `completeTransition`, with
the rewinding of the crossfade counter after it (`Finish`, `ClearReady`,
`ReleaseOnRt`, `Rewind`).

`file`, `armed` and `changed` are the directory and its watch, `attempted`
the version the last load read. A load ends with any configuration not in use
or fails. `mixed` and `initial` are history variables for the properties.

Abstracted: samples, channel copies and dither; what a configuration says;
registry keys in the watcher and its failure paths (`ConfigWatcher` has them).

### StreamRing

Both processes of one stream. The shared region is `state`, `published`,
`completed` and `slots`; block *n* uses slot *n* mod 2. In the wrapper, `pc`
says where `process()` stands in each lane, with `sequence`, `staging`,
`late` and `gone` as in the code; `daw` is the stream's opening and closing. In
the host, `host` says where the serve thread stands, with the lane and
sequence it acquired. Sequence numbers count modulo `Modulus`, and
`SequenceAtLeast` compares them by signed difference as the code does. A block
is the call that brought it, its place in the order of publication, and
whether the engine has filtered it, which is all that the properties tell
apart. Both processes may die at any step.

Either process may fail to open the other and then uses the ring without a
handle on it (`asio/Win32HostLink.cpp:187`, `EqualizerAPOHost/main.cpp:134`).
`peers` is the ends that have one, chosen when the stream is linked; `HostDead`
and `ProducerDead` are what such a handle shows. Without it a death shows in
missed deadlines, or not at all: `DeathFoundOut` and `ServeEnds` say what is
promised in each case.

Every wait in this code has a time limit and looks again at shared memory
after it, so a waiter here may look at any time, and a limit may pass at any
time: that includes every lost, late and spurious wake-up.

Abstracted: geometry and layout checks, tick stamps, thread priorities, the
facts published to the registry.

### CallbackTrampolines and AsioWrapper

An ASIO driver's callbacks carry no context, so each wrapper claims one of
four sets of trampolines. Per slot, `sinks` is the wrapper and `gates` the
atomic word that counts entrants and holds the closed bit in its top bit
(`Half`, 2^31 in the code). `claim`, `release` and a trampoline's way in and out
are modelled atomic operation by atomic operation. There is one control thread,
as the header demands.

`AsioWrapper` extends it with `init`, `createBuffers` and its error paths,
`start`, `stop`, `disposeBuffers` and the destructor; `api` is the call the
control thread is in. A buffer switch is what it uses: the channels' buffers
and the processor, from the look at the state to the return (`switching`). The
wait of `disposeBuffers` ends when the slot has drained or after 2000 polls;
`overdue` remembers the callbacks it gave up on, from which the code promises
nothing.

Abstracted: the queries, the samples, stale formats and the host's own
callbacks; the target's `disposeBuffers` succeeds. The `outputReady` handshake
is `OutputHandshake`.

### HostLifecycle

Several processes run `EqualizerAPOHost`, each with a main thread (`host`), a
handle on the owner mutex (`mutex`), one pipe instance at a time (`pipe` and
the `client` at its other end), the longest linger it was asked for, the count
of its streams and the time since the last one ended (`active`, `idle`), and a
serve thread per stream (`worker`). `unheard` is the streams whose end no event
tells the serve thread: the host wrote `Ready` over the wrapper's `Closing`
(`asio/EngineHostCore.cpp:174`), or has no handle on a DAW that died. `stream` is what a wrapper's open has come
to: it connects, or starts a host once and keeps trying, times out, sends its
request, and is answered, refused or cut off. The idle check, `CancelIo`, and the
closing of the pipe are three steps, between which a client may connect; so are
`CreateNamedPipe` and `ConnectNamedPipe` (`CreatePipe`, `ConnectPipe`), between
which one may come and go again. A pipe that cannot be created makes the host
abandon its streams and leave (`CreatePipeFails`). A
crash takes a process' mutex, pipe and threads at any point, and a wrapper's
process may die at any point (`End`).

Abstracted: resident hosts, a mutex that cannot be created, the five-second limits on pipe I/O, a bad version
against a bad ring, the reaping of finished threads, and the ring (what happens
in it is `StreamRing`). Time is ticks since the last stream, no further than
the longest linger.

### ConfigWatcher

The worker's loop statement by statement: `at` is where it stands, the
directory's notification is `armed`, `signalled` and what the system keeps
for the next re-arming (`recorded`), the registry event and one key stand for
all keys. A change of a file or of a value is *news* until a load has read it;
`fileLost` and `valueLost` remember the changes nothing will ever signal,
which the code accepts: edits while no notification watches the directory
(between `initialize`'s own load and the first arming, after a failed arming,
and in a new directory until the next turn of at most a second), and values
changed between a load's look at them and the reset of the event, or while the
key has no notification. A value may be missing or of another type
(`readable`): the line that reads it is then left out and its key not watched. A load that fails counts as having had its
edit, since the code does not try again.

`CloseSignals` is what closing a key may do to the event that waits for it.
Windows documents that it sets it, and then every turn with a key open is
followed by another (finding 10), which would hide a change that was never
signalled. `ConfigWatcher_news` lets each close set the event or not, so that
its properties rest on the changes' own signals.

### ChannelFilters, ChannelFlow, FilterGraph, ConfigLanguage

`ChannelFilters` says what `IFilter` says of a filter, in four kinds: *preamp*
works in place (BiQuad, IIR, Convolution and Preamp do), *delay* does not
(Velvet and VST), *select* is the Channel command, *copy* is Copy. A sample is the term
of the filters it went through, so that equal terms are equal sound.

`ChannelFlow` is the promise: lines in order, channels by name. `FilterGraph`
is the two halves that implement it. `AddFilter` compares names and stores
lists of indices, or an empty list for "what the last filter had" (`infos`,
`last`, `lastNew`, `lastInPlace`); `Read`, `RunFilter` and `Write` move the
pointers (`allSamples`, `currentSamples` and their second halves) and swap
them after a filter that is not in place. `lastInPlace` is never reset by the
code between loads, so it starts with any value.

`ConfigLanguage` adds the text: `If`, `ElseIf`, `Else` (an `ElseIf` that is true), `EndIf`, `Device`, `Stage`,
`Include` and filter lines, each with every change its factory makes, and the
two ways for a load to end early. The ghosts `chains` and `outside` are the
reader's view: a chain of branches per open If, and the state that each open
file was included in.

Abstracted: an expression is its value or an error; a Device or Stage line is
whether it matches; inline expressions and Eval change no state; an include
that cannot be read is no step; recursion stops at two files instead of a
hundred. A Copy line whose source does not exist writes a constant, and a gate
keeps silence silent: both left out. A false Device line hides If lines too,
since its factory comes first; the model has that as the code does.

### OutputHandshake and WasapiTarget

A target's thread calls `switchBuffers`; when a DAW has shown that it calls
`outputReady`, the period's output is committed there and no longer after the
callback, and both sides take the pending half with one exchange (`pending`).
Buffers hold the number of the period that wrote them. A DAW returns with its
output, announces it within the callback, or announces it from another thread
after it (`habit`).

`WasapiTarget` is the stream thread around that: it waits for the device, serves
a period or several, fills the device's block, measures the cycle of the
events and opens the device anew when that is coarser than a block
(`Calibrate`, `Rebridge`); `control` is `start` and `stop` as the wrapper calls
them, and `device`, `due` what the device was handed against what it should be.

Abstracted: capture, formats, the clock, counters, the numbers of the
calibration; a DAW that was asked for a reset creates its buffers anew before
it starts again. Hosts that try `outputReady` once after `createBuffers` on a
target that refuses it are not modelled.

### RegistryTransaction and DeviceInstall

The registry is a function from keys to their values (`reg`), with what the
journal and the rollback do to it step by step: `Look` prepares an inverse,
`Change` makes the change and journals it, `Refuse` and `Throw` leave, `undo`
takes back one entry, `undoFails` and `rollbackEndsEarly` are a rollback that
itself fails. Others write between any two steps (`Elsewhere`).

`DeviceInstall` runs install, uninstall, reinstall and the device test as
sequences of instructions, each the operation the code asks of the
transaction, computed where the code computes it: a call is replaced by the
called function's instructions when it is reached. `info` is what `load` read.

Abstracted: value types and security; only Windows' own subkey as somebody
else's change; `AllowSilentBuffer` is written together with `Version`; other
versions, several APOs in a slot, Windows before 8.1 and drivers with an empty
string in a slot are left out; a rollback step that fails is in
`RegistryTransaction`'s theorems only.

### SubwooferRouting

`state` is the routing a command holds, `layout` and `rate` the device.
`ValidState` and `ValidOn` are the two validations, `Graph` the compilation, `Resolved`
and `Preparable` what the compilation and the preparation throw for,
`memory` the delay lines and equalizer states. A `Process` step is one block
with every frame loop of it; its outputs may share planes with inputs as
`Processor.h` allows, although the engine itself keeps them apart. A `Reset`
clears what the code clears.

The reference is declarative: the delay's formula and the equalizer's
difference equation of `Graph.h`, in the order of `State.h`, on the whole
stream. Samples are small multiples of four and gains integers, so that
both sides are exact. The loops of the code, over stages, samples, terms and
outputs, are all `Loop(turn, first, n)`: what n turns make of what they begin with.

The constants are assumed to have the types of `State.h` (`StatesTyped`: vectors
of paths, stages, filters and terms, whether valid or not), a device to have a
sample for each channel (`DevicesTyped`), and coefficients and gains to be whole
numbers, a gain possibly `NotFinite` (`NumbersTyped`).

Abstracted: coefficients that are not finite, which the preparation refuses
(`Processor.cpp:612`; the input then passes through); names are any, so their
syntax and encoding are left out, and so
are schema and version; the design of the filters (coefficients are given by
name) and the prediction of headroom (an automatic trim is any); the check for
cycles, since paths do not feed paths; a block of a shape that `process`
refuses.

## Runs

| run | what it shows | bounds |
|---|---|---|
| `ConfigSwap_calm` | Nothing is overwritten or freed in a callback, every crossfade is whole, reloads are heard, the destructor ends, and the handoff refines `HotSwap`, when no edit races an initialize (`CalmStart`). | four configurations (one empty, one stateless, two filtering), a crossfade of two units, two edits. Three pointers and a loader can hold four configurations at once; two units tell a started crossfade from a finished one; two edits give a reload behind a reload. |
| `ConfigSwap_early` | Violation: finding 1. | as above, edits at any time |
| `StreamRing_sync` | Slot ownership, order and results in Sync mode, two lanes, whoever dies and with or without handles. | four calls per lane: the third reuses the first's slot, the fourth the second's, also after late blocks and a death |
| `StreamRing_pipelined` | A dead host is found out in Pipelined mode, with a handle on it or by the count of late blocks; the ring refines `BlockFifo`; under fairness published blocks are filtered and serve threads end unless they cannot hear of the end. | one lane, six calls: two in flight, a drop, and the hang count of three |
| `AsioWrapper_lifecycle` | The pool and two wrappers on it: gates tell the truth, callbacks reach their own wrapper, slots are reused only when empty, buffers outlive the switches that use them, error paths give their slot back, every call of the DAW returns. | two wrappers, two slots, two driver threads, a gate of eight: more entrants than threads never occur |
| `HostLifecycle_idle` | One owner, no accepted stream abandoned, lingers kept under crashes; opens end, unneeded hosts leave unless they serve a stream whose end they cannot hear of. | two hosts, two opens (an open starts at most one host), lingers 0 and 1 |
| `ConfigWatcher_news` | What a notification covers is loaded, under failures of loads, waits, notifications and keys, a second initialize and a shutdown, whether closing a key sets the event or not. | two edits, two changes of a value, two faults: one during a load and one after it, and a fault in between |
| `ConfigLanguage_text` | Branches run as they are nested, included files leave no trace, the graph inherits only what is there and plays what the lines say (`ChannelFlow`). | two kinds of text: any nesting of two branches per file in two files with hardly a filter, and any four filters; two blocks. Four filters are a filter, two that inherit from it and one that ends the chain |
| `ConfigLanguage_thrown` | Violation: finding 2. | as above, two filters |
| `WasapiTarget_stream` | One thread commits a period, an event serves the device's block, the device gets every period once and in order, start and stop return. | five periods (a block of two before and after a rebridge), two streams, every habit of a DAW |
| `DeviceInstall_any` | Failed operations are undone, the driver's chain comes back, uninstalling leaves only what is others', what was installed is what is read. | five endpoints and four selections, chosen to reach every branch of install and load; operations follow each other without bound |
| `SubwooferRouting_blocks` | However a stream is cut and its planes shared, what is played is what the state declares; valid states compile. | 27 states, eight of which the factory lets through, four devices, two rates, blocks of up to two of five frames: delay lines of three to seven samples, at whole and half delays, the shorter of which wrap |

Deadlock is not checked where the system may rightly come to rest, with the
engine destroyed, both processes dead, every open tried or the last period
played; a state where somebody waits for ever shows up in the liveness
properties instead. `DeviceInstall` never rests, and there it is checked.

The runs are small enough to interleave every step. What they share is that
the interesting conflict is between two parties over one or two places: two
slots per lane, one pending pointer, one mutex, one gate, one pending half. A
third party repeats the roles of the first two; the theorems, which have no
bounds, say so for the safety properties of the components. The bounds of the configuration language are the
length and the nesting of a text; its theorems have neither.

Thirteen more configurations are counterexamples that no run of `PROJECT.json` names:
`CallbackTrampolines_stalled`, `StreamRing_wrap`, `StreamRing_overwritten`,
`StreamRing_unseen`, `StreamRing_unheard`, `HostLifecycle_second`,
`HostLifecycle_stays`, `HostLifecycle_deaf`, `ConfigLanguage_unclosed`,
`DeviceInstall_leftover`, `WasapiTarget_refused`, `ConfigWatcher_endless` and
`ConfigWatcher_unread`. Each fails by one property, see the findings below.
`StreamRing_ends` holds: it checks the liveness properties of
`StreamRing_pipelined` again in Sync mode on two lanes, where the serve thread
has to choose between lanes.

### Fairness

- *ConfigSwap*: the worker's steps and the audio thread's steps within a block
  are weakly fair, as is the next block of a running stream (the audio engine
  calls at its period). Nobody is obliged to edit, lock or destroy. A destructor,
  once begun, goes on.
- *ConfigWatcher*: the worker runs and its loads end; a playing audio thread
  installs what was published, which gives the permit back. Playing may stop
  for ever, and then nothing is promised.
- *StreamRing*: each process' steps are weakly fair while it lives. It need not
  make another call, and nobody has to die. `Patient`, TRUE where fairness is
  assumed, keeps the opening limits (20 s) from passing, since a limit that has
  passed makes an open fail; in `StreamRing_sync` they pass at any time.
- *AsioWrapper*: the control thread goes on within a call, and a driver thread
  that has called reaches the gate. A callback that is inside may stay for
  ever, which is why `CallsReturn` says something about the bounded wait.
- *WasapiTarget*: the stream thread runs, its waits for the device being
  bounded, and so does the DAW's thread, whose callbacks do not hang; `start` and `stop` go on when
  what they wait for has happened. The DAW need not start or stop.
- *HostLifecycle*: main threads, serve threads and time go on, the ready
  timeout comes (`GetTickCount64` against a deadline in a loop of bounded
  waits), a broken pipe is noticed. Nobody has to open or to close, and a
  process that closed its stream need not exit.

All of them are threads of the operating system, which are not descheduled for
ever. Strong fairness is used in one place: the host's sleeping wait covers the
wrapper's process handle, which stays signalled once it is, while nothing sets
a work event any more; a host that falls asleep again and again therefore sees
the death, although each of its looks at the ring disables that step.

`DeviceInstall`, `ConfigLanguage` and `SubwooferRouting` are sequential: their
operations end because their lists of instructions, lines and frames do.

## Findings

Findings 1 and 2 have runs in `PROJECT.json`; the others are counterexamples of
the configurations above.

1. `ConfigSwap_early`: `initialize` publishes without the permit
   (`engine/FilterEngine.cpp:195`), so an edit before its configuration is
   installed is published over it, possibly under the audio thread's reading.
   `ConfigSwapChannel.h:20` says the permit prevents it. `CalmStart`, which the
   other run and most theorems assume, is the absence of this race.
2. `ConfigLanguage_thrown`: an exception of a filter's `initialize` in an
   included file is caught by the Include line of the file above, and the load
   goes on (`engine/FilterEngine.Configuration.cpp:192`). The names of the
   filter that was never added are kept, so the next filter with the same
   channels inherits pointers nobody has set; the outer selection is not
   restored either. `FilterConfiguration.h:47` says that the list is left out
   only when the reuse is "proven" sound.

3. `CallbackTrampolines_stalled` (`ReleaseTellsTruth`): `claim` opens the gate
   with a plain store (`asio/CallbackTrampolines.cpp:123`), which loses the
   count of a late entrant that is about to be refused; a later `release` then
   says "drained" with a callback inside, although `CallbackTrampolines.h:41`
   promises that "no callback still holds the slot lease". `NoStall`, which
   the theorems assume, says that a call reaches the gate before its slot is
   claimed again.
4. `StreamRing_wrap` (`SlotExclusive`): `canPublish` lets the sequence numbers
   0, 1 and 2 pass without looking at what was completed
   (`runtime/ipc/StreamRing.cpp:147`); after the 32-bit wrap they come again, and
   a block may be written into the slot the host is filtering.
   `StreamRing.cpp:28` says that the comparison "survives wrap-around".
   `NoWrap`, which the theorems assume, excludes it.
5. `StreamRing_overwritten` (`ServeEnds`): the host writes `Ready` over the
   `Closing` of a wrapper that stopped waiting (`asio/EngineHostCore.cpp:174`);
   the serve thread then waits on a ring nobody uses until the DAW exits.
   `StreamRing.h:32` says that closing wakes the consumer to tear down. The
   stream stays counted, so the host does not idle out either
   (`HostLifecycle_stays`, `EveryHostLeaves`).
6. `HostLifecycle_second` (`SecondLeavesToAServer`): a start that meets a host
   on its way out leaves too (`EqualizerAPOHost/main.cpp:330`), nobody serves,
   and the wrapper that started it waits out its ready timeout; the comment at
   line 326 has "the first keeps serving".
7. `ConfigLanguage_unclosed` (`BranchesAsNested`): `endOfFile` takes back the
   count of false branches of an included file that ends inside an If, but not
   `executeElse` (`filters/IfFilterFactory.cpp:239`), so a branch of the outer
   file may run after another one has. The manual
   (`Wiki/Configuration reference.txt:355`) says that the commands after a
   branch that ran are skipped until EndIf.
8. `DeviceInstall_leftover` (`OwnValuesGone`): on an endpoint whose driver had
   an FxProperties key, uninstalling puts the five slots back and leaves the
   lists of processing modes that installing wrote
   (`devices/DeviceAPOInfo.Uninstall.cpp:68`). `DeviceAPOInfoKeys.h:14` speaks
   of ownership made "symmetric".
9. `WasapiTarget_refused` (`EventServesABlock`): a rebridge whose new device
   refuses to start leaves the port with its new block and `bridge_` with the
   old count (`asio/WasapiExclusiveTarget.cpp:1135`). When a stop comes before
   the thread's end is heard of, no reset is asked for, and after the next
   start an event serves fewer periods than the device takes, where
   `WasapiExclusiveTarget.h` promises a host that is "called that many times per
   event, gap-free".
10. `ConfigWatcher_endless` (`LoadsOnChange`): keys are closed at the end of a
    turn, after the event was reset (`engine/ConfigWatcher.cpp:128`), and
    closing a key with a notification pending sets the event again. A
    configuration that reads a registry value is loaded at every turn for ever;
    the manual (`Wiki/github-wiki/Configuration-reference.md:438`) says that it
    reloads "on change". With `CloseSignals = {FALSE}` the property holds.
11. `ConfigWatcher_unread` (`ChangeReloads`): `readRegString` and `readRegDWORD`
    watch a key after they have read its value
    (`parser/RegistryFunctions.cpp:54`). Where the value is missing or of another
    type they throw before that, the load goes on without the line, and creating
    or correcting the value is never noticed. The manual
    (`Wiki/github-wiki/Configuration-reference.md:438`): "Monitors the key and
    reloads on change".
12. `HostLifecycle_deaf` (`ListenerHears`): a client that connects and leaves
    between `CreateNamedPipe` and `ConnectNamedPipe` makes the latter fail at
    once (`EqualizerAPOHost/main.cpp:283`). The loop takes that for a wait that
    has begun: until the idle exit the host has an instance that nobody can
    connect to, and opens wait out their ready timeout.

Where a process could not open the other one, less is promised, as a comment of
the code says in part (`asio/Win32HostLink.cpp:187`). In Sync mode a wrapper
without a handle on its host answers `Late` for ever when that dies, since only
a pipeline counts late blocks (`StreamRing_unseen`, `SyncDeathFoundOut`). A host
without a handle on the DAW serves the ring of one that died until the host
itself exits (`StreamRing_unheard`, `EveryServeEnds`).

Two smaller ones have no configuration: a wrapper that connects between the host's last
wait and its `CancelIo` is cut off and its open fails at once
(`asio/Win32HostLink.cpp:172`; `HostOpenStatus::ShuttingDown`, meant for it, is
never sent); and after a dropped block a pipelined call returns the block of
two calls before (`asio/DaemonProcessor.cpp:186`).

Documented exceptions are not findings: a DAW that announces its output from a
thread of its own may be a period late on a WASAPI target
(`docs/features/asio.md:193`), and `DevicePlaysTheDaw` excepts it; an
installation of SFX and EFX with nothing in EFX reads back as SFX and MFX, which
the tests know, and `ReadsBack` excepts it.

## Proofs

Each proof follows one pattern: an inductive invariant that names who may
touch what at each point of each thread, one lemma per part of it or per group of actions,
and the properties as consequences. Type correctness is proved with each
invariant, so no run spends a property on it.

The assumptions are few, and each is the negation of a finding or of a
documented limit: `CalmStart` (finding 1), `NoThrow` (2), `NoStall` (3),
`NoWrap` (4), `ClosedFiles` (7) and `StartRefused = FALSE` (9). A
counterexample configuration shows for each what happens without it. One more,
`DriversOwn`, is about what a driver may have written, and explained below.

- `ConfigSwap_proofs`. `TypeCorrect` and `CurrentStaysAlive` hold whatever
  races (from `TypeOK` and `BlockBracket`: the audio thread is inside the
  engine only while the stream is locked). The rest assumes `CalmStart` and
  rests on `HandoffInv`: flag and permit agree but for one instant; the
  pending slot is the worker's from its permit to its flag and the audio
  thread's from the flag to the release of the permit; each pointer holds what
  it must at each point; the counter equals the frames mixed.
  "No overwriting" is not inductive without these turns, since it says
  nothing of who holds the permit. `Refinement` proves that every step of
  `ConfigSwap` is a step or a stutter of `HotSwap`.
- `StreamRing_proofs`. All theorems assume `NoWrap` (fewer calls than sequence
  numbers). `RingInv` ties the sequence numbers to the history counters:
  published minus completed is at most two, the slots between hold exactly the
  blocks in flight, in their stage. Slot exclusion, order, the result of a
  call and the detection of a dead host follow, in both modes and for any
  number of calls below the wrap. `DeathIsFoundOut` is two bounds on the calls
  after the host's death. With a handle on it a lane makes at most three: each
  leaves a block under way, or finds two of them and then the host gone
  (`DeathCounted`). A pipeline without one makes at most one more than the late
  blocks that mean a hung host: one call may still come back with a block that was
  completed, and every other is late (`HangCounted`). Nothing is claimed of a Sync
  lane without a handle. `RingIsBlockFifo` is the refinement of `BlockFifo`: the lane's queue is
  the calls of the blocks from `served` to `sent` (`Outstanding`). It takes one
  more invariant, `BroughtByCalls`: a block on its way to the ring or in it is
  one that a call brought. A publication then appends to the
  queue, a release takes its head, and every other step of both processes,
  their deaths included, leaves it alone.
- `AsioWrapper_proofs`, the pool. All theorems assume `NoStall`. `PoolInv` says
  that a gate's word is the number of leases on it plus the claim's own, with
  the closed bit exactly when released; that a thread inside a slot belongs
  to the wrapper the slot is bound to; and where the control thread may be.
  The counting part needs the cardinality of the set of leases, so its lemmas
  say how that set changes at each step.
- `AsioWrapper_proofs`, the wrappers. `WrappersUseThePool` says that every step
  of any number of wrappers is a step or a stutter of the pool, so what holds
  of the pool holds of them (`WrapperMayFree`, `NoWrapperGetsAnothersCalls`,
  `WrapperGetsAnEmptySlot`). `WrapperInv` ties the call the control thread is in
  to the wrapper's state and to the set it holds: a set is bound until the
  wrapper itself releases it, and a released one is closed. `BuffersStay` rests on
  that: who is inside `switchBuffers` after the set is closed counts in the
  gate that `disposeBuffers` waits for, or is `overdue`.
- `HostLifecycle_proofs`. No assumption beyond the constants': crashes and any
  number of processes are included. `HostInv` says that a process has a handle
  on the mutex exactly while it owns the endpoint or is a second start on its
  way out; that a pipe's client and its host agree on each other; that `active`
  is the number of accepted streams not yet counted down, and zero from the
  decision to leave; that `idle` runs behind the last stream's end unless a
  serve thread has yet to store it; and that a host's linger is at least each
  of its wrappers'. That the idle exit abandons no stream rests on the count;
  that the linger is kept rests on the order of the serve thread's stores,
  clock before count.
- `WasapiTarget_proofs`. `OneThreadCommits` holds for every habit of a DAW and
  any number of periods and streams. `EventsServeBlocks` and
  `DeviceIsHandedEveryPeriod` assume that a device which was opened anew starts
  (`StartRefused = FALSE`, see finding 9). The invariant follows a period
  from the switch to the device: whose turn the pending half is, which periods
  of the block are staged, and that they are consecutive from `due`.
- `DeviceInstall_proofs`, the transaction. `TxTypeCorrect` says that the registry stays a
  tree. `RolledBackIsRestored` says that a rollback which nobody disturbs and
  which does not itself fail restores the start. The invariant keeps, as history, the registry before each
  journalled change: undoing the last entry in the registry after it gives the
  one before it. That needs the look and the change to see the same registry,
  which is why changes by others are part of the condition. `OthersAreLeft` is
  what holds when others do write: `OthersInv` says that undoing the entries
  that are left, of which each leads from one remembered registry to the next,
  would give the start back in every key that nobody else has touched, but for
  created keys that have become parents of foreign ones, and that a key
  somebody else put below one of ours is never orphaned.
- `DeviceInstall_proofs`, the operations. Every step of an operation is a step or a stutter
  of `RegistryTransaction` (`OperationsAreTransactions`), for any endpoint and any
  selection, which takes an invariant about the instructions still to do: each
  is well formed for the keys and names it writes. That a failed operation is
  undone, and undone around what Windows wrote, follows from the transaction's
  two theorems.
- `DeviceInstall_proofs`, the driver's chain. `DriverChainComesBack` and
  `InstalledReadsBack` hold for any driver's values, any selection and any
  number of operations in a row, each of which may fail at any instruction.
  Between two operations the registry is `AtRest`: either no slot differs from
  what the driver left (`Clean`), or one of ours is in a slot and the record in
  the child key tells the driver's values (`Installed`), in one of the two forms
  that installing writes. Within an operation the registry is neither, so the
  invariant speaks of what is left to do: a value is `Owed` when it is there and
  no instruction to come disturbs it, or when one to come sets it for good.
  `Work` says which values are owed in each stage of install, uninstall and
  reinstall; an instruction that is carried out, or whose condition does not
  hold, keeps what is owed (`Through`), a call is replaced by instructions that
  owe the same, and when nothing is left to do what is owed is there. A
  rollback ends at rest because the start was, but for a `FxProperties` left empty
  above Windows' key, which is clean too (`LeftAtRest`). The assumption
  `DriversOwn` says that a driver's slots hold neither our two CLSIDs nor the
  three words that the record gives a meaning of its own (`"!KEY"`, `"!VALUE"`, and
  the empty string, which is listed under what is abstracted): a driver's slots
  hold CLSIDs of its own objects.
- `ConfigLanguage_proofs`, the graph. For any set of channels and filters and any number of
  lines. `LoadInv` says that every name is there once and every selection is of
  such names, that `last`, `lastNew` and `lastInPlace` remember the filter before, and that
  a filter has either the positions of its channels or none because the filter
  before it has left exactly these. `BufferInv` says that each channel's two
  pointers are its own two buffers, in either order; `PointerInv` that while a
  block runs the inherited pointers are those of the names that `LoadInv`
  promised to the next filter. `GraphInherits` is one consequence. `GraphImplementsFlow`
  is the refinement: the program is the filters with their names, the flow what
  the channels' pointers point at; a filter's step changes it as the filter's
  line says, since channels never share a buffer (`BuffersApart`) and a filter that is
  not in place swaps exactly its outputs. What recursion there is over a list
  of names (`Kept`) is proved by an induction in set form: the least number that
  is not in a set of numbers does not exist (`InductionUpTo`).
- `ConfigLanguage_proofs`, the text. Every step of reading a text is a step or a stutter
  of the graph (`LanguageBuildsGraphs`), which carries both theorems over.
  `NestedInv` explains the counters: of the chains open in the file
  that is read the first `trueCount` run, the next may still be taken exactly
  when `executeElse` is up, and the `falseCount - 1` inside it are not looked at
  (`OpenFile`); a file that waits for the end of another runs in all its
  branches, and the stacks hold what its line has left (`WaitingFile`).
  `BranchesAsNested` alone is not inductive, since it says nothing of the
  chains below the innermost nor of the files below. `CountersNest` and
  `FilesLeaveNoTrace` follow, for nesting of any depth.
- `SubwooferRouting_proofs`. `ValidRoutingsCompile` needs no induction: the
  names that the two validations look for are all those the compilation asks its
  maps for.
- `SubwooferRouting_proofs`, the blocks. `BlocksPlayAsDeclared` holds for any
  states, devices, rates, coefficients and gains of the types assumed, any length
  of blocks and any stream. From the inside out: each loop is a run from its first
  value by its step, by an induction in set form (`InductionUpTo`). A memory
  *carries* a stage at frame n (`Carries`) when a line has the last samples at their
  distances from wherever it writes next, or when an equalizer's two numbers are
  what its difference equation still needs of the past. One sample keeps that and
  yields the declared one (`LineIs`, `BiquadIs`), so a block does (`BlockIs`) and so
  does a block through the stages of a path (`PathIs`). What is compiled of a
  chain *makes* of a stream what is declared of it (`CompiledMakes`), merged gains, polarities
  and left-out delays included, unless a gain overflowed, which `Preparable` refuses.
  The outputs have planes of their own and read what was preserved, so each plane has its own
  output at the end, in whatever order they were written (`WrittenIs`), and
  what nothing targets has its input (`CopiedIs`). `BlocksAsDeclared` alone is not
  inductive: it says nothing of the memories, and it compares with a stream that
  the next block makes longer. `BlocksInv` therefore speaks of every stream that goes on from
  what was heard: what is played is the beginning of what is declared of that
  stream, and every memory carries its stage on it.

Not proved, and why. Liveness needs `ENABLED`, which the prover does not have:
TLC checks it (`DestroyTerminates`, `ServeEnds`, `CallsReturn` and the like). The
two properties of `ConfigWatcher` are of that kind. Every invariant that a
passing run checks is a theorem. `BlocksInv` quantifies over streams of any
length and is proved without having been a run's invariant; its consequence
`BlocksAsDeclared` is checked by `SubwooferRouting_blocks`.

## Plan

Done: everything the first plan named in its points 1 to 8, and of points 9
and 10 the WASAPI target, the filter chain and the subwoofer routing. What is left, in order of importance:

1. `UpdateSession` (completion against shutdown), `ParallelExecutor` (each
   index once), `WeakValueCache` (insert against expiry): small modules.
2. VST library references, `VoicemeeterClient`, the codec of the routing's
   states against its validation.

## Not modelled

`PROJECT.json` lists every part. Signal processing (`dsp/`, `filters/*Filter`)
is floating-point arithmetic; the editor, the device selector and the
installers, most of the repository's lines, are user interface and packaging;
registration, security descriptors, logging, JSON and sample conversion are I/O
or pure formatting; third-party interfaces (`vst/aeffectx.h`,
`libHybridConv`) are vendored; the test adapters of the ASIO link repeat the protocol
of the production link. Hazards that a property covers in part only, or not
at all, are listed with their reason, among them edits before the watch is armed, a
registry value changed during its reload, and a callback that outlasts the two-second
wait.

## Running

```
tlc -config ConfigSwap_calm.cfg MC_ConfigSwap
tlc -config StreamRing_sync.cfg StreamRing
tlapm ConfigSwap_proofs.tla
```

The table of runs names each configuration's module in `PROJECT.json`.
