# ArkMesh: a verification project in TLA+

ArkMesh is a Tailscale/Headscale client for HarmonyOS. An ArkTS user interface
starts a VPN extension process, the extension loads a Go library
(`go/arkmesh-core`), and the library runs `tsnet` and `wireguard-go` on top of
the VPN descriptor the system hands out. This directory holds TLA+ models of
that code, the TLC configurations that check them on small instances, and
theorems about them that TLAPS checks for every instance.

All paths below are relative to the repository; `ets/` stands for
`ohos/entry/src/main/ets/` and `cpp/` for `ohos/entry/src/main/cpp/`.

| module | of what |
|---|---|
| `ControlPlane` | the Go control plane: sessions, goroutines, ping rounds |
| `GoCore` | what the Go core promises the process that hosts it: an abstract specification |
| `OhosTun` | the tun device the engine reads and writes, and the DNS probe |
| `VpnAbility` | the extension process, built on `GoCore`, and its snapshot file |
| `VpnSession` | `VpnAbility` with the home page, the switch of the exit node and `TunnelControl` |
| `GoBridge`, `LogTail` | the native bridge to the Go libraries, and the replay of the last log |
| `LegacyCore` | the retired C++ core: sessions, threads, keys |
| `WireGuardTunnel`, `HeadscaleHttp`, `NodeList`, `StunClient` | the parts of the retired core |
| `LimbArithmetic`, `FieldElements`, `FieldOperations`, `X25519`, `Inversion`, `Aead`, `Sha256` | its cryptographic primitives, at scaled widths |
| `MCControlPlane`, `MCOhosTun`, `MCNativeModule`, `MCAlgorithms`, `MCCrypto`, `MCDiscovery` | the instances for TLC (`VpnSession` is checked as it is) |
| `ControlPlaneProofs` | theorems: safety of the control plane; it implements `GoCore` |
| `OhosTunProofs` | theorems: safety of the tun device |
| `VpnSessionProofs` | theorems: the extension process and the pages |
| `LegacyCoreProofs`, `NativeModuleProofs` | theorems: the C++ code |
| `CryptoProofs`, `AlgorithmProofs` | theorems: its algorithms |
| `NaturalsLemmas` | induction and division on the naturals, for those proofs |

`PROJECT.json` lists components, runs, mutants, the map to the code, findings,
hazards and theorems. An operator introduced as a mutant is a definition with a
plausible bug in it, kept next to the definition it stands for; put in its
place, it makes a property fail.

To check a model: `tlc -config MCOhosTun.cfg MCOhosTun`; to check the proofs:
`tlapm OhosTunProofs.tla`.

## 1. Inventory

Two processes matter. The *UI process* shows pages and starts and stops the
extension. The *extension process* owns the tunnel: one main thread of ArkTS,
which calls Go synchronously through a native bridge, and inside Go the
goroutines those calls leave behind and the threads of `wireguard-go`. The
processes share nothing but files: the extension writes a status snapshot, the
UI reads it; the UI writes a DNS probe request, the extension reads it.

```
 UI process                    files                 extension process
 HomeView  NodesView   <-- status snapshot (2 s) --  ArkMeshVpnAbility
 SettingsView          --  probe request file   -->     | synchronous calls
     |                                                  v
 TunnelControl --- start / stop extension --->   control.go (ctlMu, goroutines)
                                                        | tsnet.Server
                                                        v
                                                 ohostun.go <--> VPN descriptor
```

### Go core: control plane (`go/arkmesh-core/control.go`, `main.go`)

* State: the package variables under `ctlMu` -- `ctlState`, `ctlErr`,
  `ctlParams`, `ctlSrv`, `ctlTun`, `ctlTunFD`, the ping lists and
  `ctlPingBusy`, a ring of log lines.
* Operations: `controlUp`, `controlAttachTun`, `controlDown`,
  `controlStatusJSON`, `controlDnsProbe`, `controlPingPeers`,
  `controlPingJSON`; the goroutines `bringUp`, the attach goroutine, the ping
  goroutine and `probePaths`.
* Hard: a session needs two servers, one without and one with a tun device, and
  the second replaces the first while its goroutine may still be running. No
  goroutine can be cancelled. `ctlMu` is left before every blocking call and
  taken again after it.
* Correct when: every server is closed once, by one thread, and not while a
  query uses it; a tun is built only after the old server is gone; every
  attempt is settled; `up` is reported for the current server only, with the
  exit node in place; rounds of pings do not mix; what has been taken down
  stays down.

### Go core: tun device (`go/arkmesh-core/ohostun.go`)

* State: `closed`, `closeOnce`, `events`, the read deadline of the file,
  `probeArmed`, the channels `inj` (4 packets) and `probeReply` (1).
* Operations: `Read`, `Write`, `Close`, `runDNSProbe`, and the codecs of the
  probe packet (IP, UDP, DNS).
* Hard: no lock. Close and the probe wake a blocked reader by moving the
  deadline into the past, and the reader itself clears and sets that deadline.
* Correct when: neither wakeup is lost, `events` is closed once, a probe reports
  the answer to its own query, and ordinary traffic is not disturbed.

### Go core: diagnostics (`probe.go`, `ifprobe.go`, `ifgetter.go`, `netcheck.go`, `dialdiag.go`)

Sequential probes that format text, and the replacement of the interface
getter. They keep no state of the tunnel. `probe_test.go` is the only test.

### VPN extension ability (`ets/vpn/ArkMeshVpnAbility.ets`)

* State: the VPN connection and its descriptor, the last published status, two
  timers (2 s heartbeat, 10 s statistics), the number of the last handled probe
  request.
* Operations: `onCreate`, `onDestroy`, `runGoTunnel` (up, poll, create the VPN,
  attach, poll, tick), `pollGoCore`, `publishStatus`, `publishFailure`,
  `handleDnsProbeRequest`, `runAutoDnsProbe`.
* Hard: `runGoTunnel` is suspended in awaits while `onDestroy`, the timers and
  their file writes run; nothing tells a resumed `runGoTunnel` that it is late.
* Correct when: nothing is created, attached or restarted after `onDestroy`, a
  failure leaves nothing running, and the last snapshot tells the truth.

### Status channel (`ets/core/TunnelStatusStore.ts`)

* State: the snapshot (temporary file and rename), the request file (in place),
  sequence numbers.
* Correct when: a reader sees a whole snapshot or none, a request is handled
  once, and an old answer is not taken for a new one.

### Tunnel control and pages (`ets/core/TunnelControl.ts`, `ets/view/*.ets`)

* `TunnelControl`: stop, wait 2 s, start; `stop` does not cancel a waiting
  `start`.
* `HomeView`: the snapshot is stale after 8 s, two stale reads flip the page, a
  pending start is forgiven for 60 s.
* `NodesView`: choosing an exit node restarts the tunnel and watches the
  snapshot for "left up, came back", at most 120 s.
* `SettingsView`: forms, and the poll for the answer of a DNS probe.
* Correct when: what a page shows follows the tunnel in bounded time and a user's
  last wish wins.

### Monitors and keys (`NetworkMonitor.ets`, `PowerManager.ets`, `KeyManager.ets`)

Callbacks of the system against flags set across awaits; get-or-create of keys
over asynchronous storage.

### Native bridge (`cpp/napi_init.cpp`, `cpp/src/bridge/go_probe.cpp`, `ets/core/ArkMeshNative.ts`)

Loads the Go library, resolves its symbols, copies strings, runs probes on
threads of its own. Correct when the library is loaded once and every promise
is settled once.

### Retired C++ core (`cpp/arkmesh_core.cpp` and `wireguard`, `api`, `stun`, `noise`, `key`, `utils`)

Superseded by the Go core but compiled and exported: threads, a mutex per class
and hand-written cryptography.

## 2. Plan and where it stands

| # | module | of what | status |
|---|---|---|---|
| 1 | `ControlPlane`, `ControlPlaneProofs` | sessions of the Go core | done |
| 2 | `OhosTun`, `OhosTunProofs` | the tun device | done, except the codecs |
| 3 | `GoCore`, `Refinement` in `ControlPlaneProofs` | the abstract core; the control plane implements it | done, safety proved |
| 4 | `VpnAbility` | the extension ability on the abstract core | done |
| 5 | `VpnSession` | snapshot, home page, restart: the composition | done, except the busy poll of the nodes page |
| 6 | `LegacyCore`, `GoBridge` and the modules of the C++ code | threads, mutexes, resources, algorithms | done, except Noise |
| 7 | `VpnSessionProofs`; `OwnWhenSettled` of `MCOhosTun` | theorems | done |
| 8 | what does hold of `ControlPlane` in place of `DownStaysDown` | theorem `DownEnds` | done |
| 9 | `LegacyCoreProofs`, `NativeModuleProofs` | theorems: the invariants of `native` | done |
| 10 | `CryptoProofs` | theorems: field arithmetic, seal | done |
| 11 | `AlgorithmProofs` | theorems: hash, STUN client, log replay | done |
| 12 | proofs about the ladder, the inversion and the list of nodes | theorems | not done, see section 5 |

The abstract specification sits between two detailed ones: `ControlPlane`
implements it from below, by refinement, and `VpnAbility` uses it from above,
by calling its actions. What is shown for the session is therefore shown for
the session with the real control plane, as far as a status query can tell.

## 3. What is modelled

### `ControlPlane`

One step is one critical section of `ctlMu` with the local or external work
that leads to it. The exported calls come one after the other, because their
only caller is the main thread of the extension (`control.go:206`, `:427`). A
call that leaves the lock before it is through (`controlUp` while it builds the
server, `controlDown` while it closes one, a query while it talks to one) is
two steps, with `caller` in between, so all goroutines interleave with it.

| in the module | in the code |
|---|---|
| `ctlState` ... `ctlPingBusy` | the variables of the same names; `ctlTun` and `ctlTunFD` name the attach they belong to |
| `ctlPings[r]`, `ctlPathPings[r]` | how many entries of the list come from round `r` |
| `life[s]` | a `*tsnet.Server`: not constructed, live, inside `Close`, closed |
| `applied[s]` | the exit node in the server's prefs |
| `job[s]` | the goroutine that brings `s` up: where it is, its exit node, and the server it closes first |
| `ControlUp`, `ControlUpPublish` | the two critical sections of `controlUp` |
| `ControlAttachTun` | `controlAttachTun` up to its `go` statement |
| `CloseOldReturns`, `TunWrapped`, `TunFails`, `AttachPublish` | the attach goroutine |
| `UpFails`, `UpSucceeds`, `ExitNodeFails`, `ExitNodeApplied`, `Commit` | `bringUp` and `applyExitNode` |
| `ControlDown`, `ControlDownReturns` | `controlDown` |
| `ControlStatus`, `ControlDnsProbe`, `QueryReturns` | the parts of the two queries that use a server outside the lock |
| `ControlPingPeers`, `PingRound` | `controlPingPeers` and its goroutine |
| `ProbePaths` | `probePaths` |

Two things of the code are visible in this model and easily overlooked.
`controlUp` only checks for a running state, so after `failed` a second
`controlUp` overwrites `ctlSrv` without closing the server in it. And a goroutine
never asks whether it is still wanted: only `Report` (the guard `ctlSrv == srv` of
`bringUp`) does.

`tsnet` is external: `Up`, `EditPrefs` and the wrapping of the descriptor
succeed or fail whatever has happened to the server. The parameters of a
session are reduced to the exit node, the only one whose place in the order of
steps matters. The log ring and the JSON of the answers are left out.

### `OhosTun`

One step is one access to an atomic flag, a channel or the deadline. `reader`
is a program counter with a value for each point of `Read` between two
accesses; `probe` does the same for `runDNSProbe`, `closer` for each caller of
`Close`, and `query[q]` follows one query from `inj` through the engine to the
`Write` of its answer.

| in the module | in the code |
|---|---|
| `ReadCalled` ... `ReadDataClears` | `Read`, in order |
| `WriteCalled`, `WriteFails`, `WriteSucceeds`, `Capture` | `Write` and `captureProbeReply` |
| `ProbeStarts` ... `ProbeReturns` | `runDNSProbe`, with its deferred disarm |
| `CloseCalled` ... `CloseReturns` | `Close` and `closeOnce.Do` |

The descriptor, the engine and the clock are external: a packet or an error may
come at any time, a query may be answered late or never, a deadline in the
future may expire at any time. The order "an expired deadline is reported before
any packet" is that of Go's poller. Counters of traffic are left out.

### `GoCore`

Three variables: the state a status query returns, the attempts (accepted calls
of `controlUp` and `controlAttachTun`) whose server is not published yet, and
the published attempt that has still to report. The mapping of `ControlPlane`:

| in `GoCore` | in `ControlPlane` |
|---|---|
| `state` | `ctlState` |
| `building` | the servers whose goroutine is constructing, closing the old one, wrapping the descriptor or about to publish |
| `current` | `ctlSrv`, while its `bringUp` is under way |
| `Up`, `Attach`, `Down` | the accepted calls (a refused call is a stutter) |
| `Publish`, `AttachFails` | `ControlUpPublish` and `AttachPublish`; `TunFails` |
| `Report` | the last step of `bringUp` when its server is still `ctlSrv`; a stutter when it is not |

The abstract core is larger than the real one in one respect: a failed wrap may
also end the attempt of a `controlUp`, which has no descriptor to wrap.

### `VpnAbility`

One step is what the single JavaScript thread of the extension does between two
suspensions. `run` names the await in which `runGoTunnel` is suspended.

| in the module | in `ets/vpn/ArkMeshVpnAbility.ets` |
|---|---|
| `run` | `loading` the native library, `registering` and `reattaching` in the two `pollGoCore`, `creating` in `vpnConnection.create`, `peers` in `awaitPeers`, `pings` in `awaitPings` |
| `timers` | `statusTimer`, `goStatsTimer` |
| `snapshot`, `fresh` | the state in `arkmesh_status.json`, and whether it is younger than `SNAPSHOT_STALE_MS` |
| `OnCreate` ... `PingsAwaited` | `onCreate` and `runGoTunnel`, in order, each failure with `publishFailure` |
| `Heartbeat` | `publishStatus` on its timer |
| `OnDestroy`, `VpnDestroyed` | `onDestroy`, and `cleanupVpn` after its await |
| `ProcessEnds` | the end of the process: after `onDestroy`, or killed at any step |
| `CoreMoves` | the goroutines of the core |

`onDestroy` does not tell a suspended `runGoTunnel`: the model lets it resume
until the process ends, as the code does. How long anything takes is left open,
so an awaited poll may reach its deadline in any state of the core. `coreControlUp`
blocks the thread until the first server is constructed. The VPN service is
external: `create` yields a descriptor or fails, `destroy` closes an interface
that is there. Left out: `runGoCoreSpike`, a test mode that nothing launches; the
probe request file; what a snapshot carries besides its state.

### `VpnSession`

The UI process: `TapConnect`, `TapStop`, `Refresh` and `GraceEnds` are `HomeView`
(`connect`, `stopTunnel`, `refreshTunnelStatus` with `showNoTunnel`, the 60 s of
`START_GRACE_MS`); `SwitchExitNode` is `chooseExit` of `NodesView`; `BeginStart`,
`Launch`, `LaunchFails` and `AskStop` are `TunnelControl`. The nodes page acts on
what it read last (`tunnelUp`, set by `NodesRefresh` at any time), however old that
is. It may switch again at once; the real one waits until its busy poll ends, by
success, failure or deadline.

Three assumptions on the system come from comments in the code and are named
where they are used: a request to start that finds a process is an `onRequest`
and does nothing (`TunnelControl.ts:125-129`); a request to stop without a process
is refused (`TunnelControl.ts:131`); `onDestroy` runs on the JavaScript thread and
hence not while that is inside a synchronous call.

### The C++ code

`cpp/` is compiled into one library. The bridge is in use; of the rest, `ets/`
still reaches some calls. What the retired core does is modelled because it is
exported, with the reductions each module names in its head comment. Two facts
limit what can happen in the build: the core never initializes its `StunClient`
(`arkmesh_core.cpp:200-202`), and nothing assigns the session key of the tunnel,
so no packet is ever encrypted.

In `GoBridge` a handle that is set counts as loaded, whatever the build of the
library lacks. In `StunClient` a new socket may get the port to which an answer to
an older one is still on its way: the kernel may reuse ports, and `recvfrom` compares
neither the sender nor the transaction id. In `LogTail` each of `stat`, `fopen` and
the seeks may fail.

Arithmetic is checked at scaled widths that keep the relations of the code:

| | in the code | in the run |
|---|---|---|
| X25519 limbs, prime | 5 of 51 bits, 2^255 - 19 | 5 of 3 bits, 2^15 - 19 |
| words of the encoding | 4 of 64 bits | 4 of 4 bits |
| scalar | 255 bits, 3 low bits cleared | 7 bits, 3 low bits cleared |
| Poly1305 limbs, prime | 5 of 26 bits, 2^130 - 5 | 5 of 4 bits, 2^20 - 5 |
| Poly1305 block | 16 bytes | 3 bytes of 6 bits |
| length in its last block | 8 bytes | 1 byte |
| SHA-256 block, word, length | 64, 4, 8 bytes | 8, 2, 2 bytes |
| inversion chain | 254 squarings, 11 products | the same: exponents are sets of bits |
| log tail | 192 KiB, 110 lines | 5 bytes, 2 lines |

In the models the radix of the limbs is a constant, assumed to be a power of two
(2^`LimbBits`, 2^`LimbWidth`) where the encoding or the joining of the limbs needs
it, so that the arithmetic can be reasoned about for any radix; or and xor of words
are defined on their bits (`LimbArithmetic`). Powers, bits and polynomials are
recursive functions, which the proofs can unfold.
2^15 - 19 and 2^20 - 5 are primes, five limbs are one bit short of the words, and
a block with its high bit fits the limbs, as in the code.

`MCNativeModule` and `MCAlgorithms` each check several parts in one run. The
parts share no state, so it is enough that one of them moves: `part` says which,
and the others stay as they began (or are `Off`). Each property is about one part,
or is a conjunction of one of each. `MCCrypto` and `MCDiscovery` let two parts move,
as their property relates the results of both.

## 4. What the runs check

Sizes are distinct states.

| run | instance | checks | size |
|---|---|---|---|
| `lifecycle` | 3 servers, 1 exit node, no pings | `QueriesHitOpenServers`, `OneCloser`, `TunAfterOldClosed`, `SomeoneWillReport`, `ExitNodeBeforeUp`, `AttemptsSettle`, `RetiredServersClose`, `ImplementsGoCoreFairly` | 121 569 |
| `pings` | 2 servers, 2 rounds, 2 peers | `TypeOK`, `PingRoundsDoNotMix`, `PingRoundsEnd` | 646 527 |
| `down` | 2 servers, contract of `main.go` | `DownStaysDown`: **violated** | |
| `tun` | 2 probes, 2 closers, `Capacity` 1 | `TypeOK`, `CloseIsNotLost`, `InjectionIsNotLost`, `EventsClosedOnce`, `OwnWhenSettled`, `CloseStopsReader`, `InjectionIsRead` | 237 155 |
| `tun_late` | 2 probes, 1 closer, `Capacity` 4 | `AnswersAreOwn`: **violated** | |
| `session` | 3 calls of `TunnelControl.start` | `SessionTypeOK`, `SilenceIsExplained`, `AttachWhenUp`, `StoppedStays`, `ConnectingEnds`, `ConnectionsFade` | 208 157 |
| `session_stopped` | 1 start | `StoppedIsLast`: **violated** | |
| `session_restart` | 2 starts | `RestartWaitsForStop`: **violated** | |
| `native` | core: 2 sessions, 2 keys; tunnel: 2 threads, 2 keys; one HTTP request; bridge: 1 probe, builds that lack no, one or two functions | `ThreadsAreSafe`, `SessionIsComplete`, `IdentityIsKept`, `EverythingEnds`, `TunnelIsSound`, `HttpIsSound`, `BridgeIsSound`, `BlockingCallsReturn` | 210 000 |
| `algorithms` | the widths of section 3 | `LogIsReplayed`, `HashIsFramed`, `SealIsSound`, `FieldIsModP`, `LadderMultiplies`, `ChainInverts`, `ListIsRead`, `StunFindsTheAddress` | 860 000 |
| `crypto` | the same widths; a key of each kind, messages of one byte | `OneFollowsItsRfc`: **violated** | |
| `discovery` | 1 node, 1 server, 1 attribute | `OneReadsWhatItShould`: **violated** | |

What they show:

* `lifecycle` lets `controlAttachTun` be called in every state the code accepts
  it in, which is more than the extension does. Even then the hand-over of
  servers is sound: taking the pointer out under the lock is enough for one
  closer, no query meets a server being closed, and whenever the extension
  polls, somebody is left who may report.
* `pings` shows that `ctlPingBusy` excludes rounds from each other although a
  session change does not reset it (resetting it, as everything else is reset,
  would break the exclusion: that is the mutant).
* `tun` shows that the deadline works as a wakeup although three threads write
  it: the reader only waits without a deadline after having looked at the
  flags, and every clear is followed by another look.
* `ImplementsGoCoreFairly` (the steps of `ImplementsGoCore`, which is proved, and the
  fairness) shows that the extension needs to know nothing of servers and
  goroutines: every attempt gets built, and a published attempt reports. It would
  fail if the attach goroutine had to wait for somebody else.
* `session` shows that a page that has nothing to go by but a file and its age
  recovers from everything: `ConnectingEnds` and `ConnectionsFade` hold although the
  process may be killed at any step, starts overlap, and snapshots age while the
  extension is merely slow. `SilenceIsExplained` says that a heartbeat that has
  stopped has been stopped by a failure that is on disk, `AttachWhenUp` that a
  `runGoTunnel` which resumes after `onDestroy` cannot bring the core back: the
  refusal of `controlAttachTun` (`control.go:323`) is what saves it.
* `native` follows threads of the core that nobody joins through two sessions: loops
  of the first see the flags of the second, and still each ends, the keepalive loop
  and the STUN loop (`EverythingEnds`), after a session that has ended for good. That
  loops of two sessions may run side by side, and that a keepalive of the first may
  cut the second, is how the code behaves and not excluded. Every early return of an
  HTTP request releases what it holds (`HttpIsSound`); every path of a probe settles
  its promise once, its waiter is answered by the probe or by its timer, and a null
  pointer is called only in a library that lacks a mandatory function
  (`BridgeIsSound`; section 7); `stop` of the tunnel returns and leaves no thread
  behind. The invariants of a run over several parts are conjunctions, part by part,
  of type correctness and the properties the modules state.
* `algorithms`: results equal their reference definitions, computed in another
  way (numbers modulo the prime, the padded message, the last lines of a file).
  `LadderMultiplies` says what holds of the ladder whatever its swaps select: the two
  points stay neighbouring multiples, projectively, and the result is a multiple.
  `SealIsSound` says that a sealed message opens to its text and that no two messages
  share their blocks; `ListIsRead` that no node is read twice or, in the expected
  format, lost, and `StunFindsTheAddress` that the walk finds the first address and
  no socket is left.
* `crypto` and `discovery` show what does not hold of the same models. Each checks a
  disjunction of two statements of the sources, weaker than either, so that its one
  counterexample refutes both (section 7).
* `OwnWhenSettled` of `tun` and the run `tun_late` together locate the defect of
  section 7: the answer to a probe may be taken for the answer to the next one
  exactly when a probe starts before the queries of earlier ones are settled.

### Bounds

* *Servers.* Every bad order in the lifecycle is about one server, the one that
  replaces it and at most one more attempt that overlaps both: three. The
  theorems of section 6 hold for any number.
* *Rounds and peers.* Two rounds are the fewest that can mix. `maxPingPeers` (3)
  and `maxPathPeers` (8) become 2: a loop of two has a first,
  a last and a step between. Three rounds add nothing: a third can only start
  when the second has reset the flag.
* *Probes and closers.* Two closers are the fewest that can race. `Capacity` (4)
  is 1 in `tun`, so that the queue is full after one stale query, and 4 in
  `tun_late`.
* *Starts.* A process is made by a start; three allow one that is running, one
  that meets it and one that follows. Taps that stop are not bounded, nor are
  crashes: each process has at most one.
* *Sessions and keys of the C++ core.* Two sessions overlap in every way two can;
  two keys are a machine key and a node key, and a further generation fails.
* *Tunnel.* One thread inside each call and one that waits for the mutex; two keys,
  so that a list has a peer to keep when another is removed. `MaxPeers` bounds the
  lists.
* *Bridge.* One probe is enough: tasks share nothing but the loaded library.
* *STUN.* Two requests, two ports the kernel may choose from and one fixed one: a
  late answer finds a socket on its port, or not.
* Nothing else is bounded: there are no state constraints. Every server, round
  and probe is used once, so behaviours are finite up to the reader's loop;
  `ControlDown` and the queries can go on for ever, so `ControlPlane` never
  deadlocks and TLC checks that. `OhosTun` does stop, once the reader has
  returned `os.ErrClosed` and probes and closers are used up; its configurations
  say so.
* *Symmetry* is used nowhere: nearly every run has a temporal property, for which
  it is not sound.
* *Deadlock* is checked in `lifecycle`, `pings`, `down` and the three session runs. The
  parts of `native`, `algorithms`, `crypto` and `discovery` come to an end by nature,
  and their configurations say so, as those of `OhosTun` do.

### Fairness

`ControlPlane`: goroutines and calls in progress go on. Every wait of the code
has a timeout (`Up` 90 s, `EditPrefs` 20 s, status 2 to 12 s, a ping 6 s), with
one exception: `Server.Close` is assumed to return. No call has to be made.

`OhosTun`: the threads inside the code go on, and `Read` is called again after
it has returned a packet, as `wireguard-go`'s reader does. Nothing is assumed
of the descriptor, the engine or the timeout of a probe, so `CloseStopsReader`
says that the wakeup alone stops the reader, without a packet to help.

`VpnSession`: awaits end (each has a deadline in the code), timers fire and the
home page polls (its timer re-arms itself), delays and the grace window pass, a
request to stop is delivered, a process whose `onDestroy` has run ends, a snapshot
that nobody writes grows old, and the core is fair as `GoCore` says, which is what
`ImplementsGoCoreFairly` shows of it. Nobody has to tap, and no process has to
start or to survive.

`LegacyCore`, `HeadscaleHttp`: a request ends, by the 10 s timeout of its socket; a
sleeping loop wakes. `WireGuardTunnel`: weak fairness of the threads and strong
fairness of the mutex, which `std::mutex` does not promise but every scheduler of
the platform gives; calls are exempt from `BlockingCallsReturn` while somebody
is in `addPeer` (section 7). `GoBridge`: timers fire; a probe itself may never return.

## 5. Properties left to the model checker

* *Liveness* (`AttemptsSettle`, `RetiredServersClose`, `PingRoundsEnd`,
  `CloseStopsReader`, `InjectionIsRead`, `ImplementsGoCoreFairly`, `ConnectingEnds`,
  `ConnectionsFade`, `EverythingEnds`, `BlockingCallsReturn`): leads-to under fairness is
  out of the prover's reach.
* *`LadderMultiplies`*: what each step of the ladder keeps is an equality of
  projective points, and for it one needs that the formulas of doubling and
  addition are homogeneous and correct on the curve, polynomial identities of a
  degree that the SMT solver does not decide; the division at the end needs
  Fermat's theorem for `P`, which has to be a prime.
* *`ListIsRead`*: the fields of a node are found by searches in a text that is
  itself a concatenation over a list of any length.
* *`ChainInverts`*: the chain has no constants and one behaviour per line of it,
  so the model checker has seen all there is.
* The violated properties are shown by their counterexamples; `DownEnds`,
  `OwnAnswers`, `LastWordStays`, `TagComputed` and `StunFinds` prove what does hold next
  to five of them.

An induction on the length of a sequence is possible where it can be put as a set
of numbers that contains 0 and the successor of each of its members
(`NaturalsLemmas`). The proofs about the lists of peers of the tunnel, the
attributes of a STUN answer, the bits of a word and the blocks of a message are of
that form. That a recursive function exists at all is proved once, in
`RecursiveExists`.

## 6. What is proved

Every theorem is of the form `Spec => []P`, `Spec => [][A]_vars` or, for the
refinement, `Spec => AbstractSpec`, for all values of the constants that satisfy
the assumptions of the modules: any set of servers, rounds, exit nodes, probes,
closers, starts, sessions, keys, threads and tasks, any bounds, capacities, radixes
and widths of a block. `ConstantsAssumption` (of `ControlPlane` and `OhosTun`),
`LegacyAssumption` and `StatusAssumption` say that values which stand for "none"
are not members of the sets, and that bounds are numbers; `TunnelAssumption` that
the thread which starts and stops the tunnel is one of its threads;
`PartsAssumption` collects what the algorithms assume of their widths, as the
numbers of the code satisfy it (limbs and words fit, a block is whole words, the
length fits a block).

`ControlPlaneProofs`: `TypeCorrect`, `QueriesAreSafe`, `CloseIsExclusive`,
`TunWaitsForClose`, `ReportsRemain`, `RoundsAreExclusive`, `ExitNodeFirst`. The
inductive invariant `IInv` is the conjunction of

* `TypeOK`;
* `Ownership`: at each point of its life a server belongs to somebody -- its
  builder, then `ctlSrv`, then one closer -- and what the main thread took with it
  out of the lock is still as it was. Without it, "one closer" cannot be
  maintained by an attach, which needs to know that the server it takes is not
  in anybody's hands;
* `TunAfterOldClosed` and `SomeoneWillReport`, which are inductive given
  `Ownership`;
* `ExitInv`: no prefs are written before `applyExitNode`, and at the last step
  they are those of the session. `ExitNodeBeforeUp`, an action property, follows
  from it for each step;
* `PingInv`: a round that is active owns the flag and the list, and what it has
  recorded plus what it has left is bounded.

The proof has one lemma per conjunct and, in each, one step per action.

`DownEnds` is the other half of the finding about `controlDown`: one that finds no
attempt under construction takes the node offline, and no result, retry or event
of what it ended brings it back before the next `controlUp`. The finding is hence
exactly the attach in progress.

In the same module, `Refinement`: `Spec => ImplementsGoCore`. Under `IInv`,
which says whose server is being built and which is published, each action is a
step of `GoCore` or leaves the mapped variables unchanged (`StepMaps`, one step per
action). Four lemmas say what a change of one goroutine's program counter does to
`building` and `current`; `ReportMaps` is the one place where the guard
`ctlSrv == srv` decides between a step and a stutter. That the fairness of
`ControlPlane` implies that of `GoCore` is left to the run `lifecycle`.

`VpnSessionProofs`: `TypeCorrect`, `SilenceExplained`, `AttachesWhenUp`,
`LastWordStays`, for the session with any number of starts. `SessionStep` says that
a page moves nothing of the extension except by starting it, so that everything
about the extension is proved with `Next` of `VpnAbility`. `SilenceIsExplained` is
not inductive: that the heartbeat runs needs to be known at every await before
`runGoTunnel` ends (`HeartbeatInv`). For `AttachWhenUp` one has to know the core at
each await (`CoreInv`): nothing is built or awaited once the first poll has seen
`up`, so the core stays up until `onDestroy` takes it down, and after that nothing
is left that could report it up again. The argument uses that a process
calls `coreControlUp` once.

`OhosTunProofs`: `TypeCorrect`, `CloseWakes`, `ProbeWakes`, `EventsOnce`. That
a wakeup is not lost cannot be said of the reader inside `file.Read` alone: it
may have looked at the flags long before. `CloseInv` therefore says of the
whole stretch of `Read` between the look at `closed` and the wait (`Committed`)
that, once a Close has set its deadline, a deadline is set; the clear that ends
the stretch leads back to the look. `OnceInv` says who is inside `closeOnce`.
`OwnAnswers`: as long as every probe starts on settled queries, at most one query is
on its way and it is that of the probe in progress (`OwnInv`), so a captured answer
can only be its own, and what is captured between two probes is drained by the next
one. The history variable `settled` makes this a theorem of all behaviours.

`LegacyCoreProofs`: `ThreadsSafe`, `SessionComplete`, `IdentityKept`, for any number
of sessions and keys. None of the three is inductive: each needs to know, at
every place inside `connect` and `disconnect`, which call is under way (`CallInv`),
what `running`, `connected` and the joinable threads say about each other
(`SessionInv`) and how far the tunnel is ahead or behind (`TunnelInv`). A loop of an
old session may still run and report an error; `LoopStep` says that this is all
it may do.

`NativeModuleProofs`: `HttpSafe`, `BridgeSafe`, `TunnelSafe`. `HttpInv` says for
every place in `sendHttpRequest` what is held there and what has been answered,
`TaskInv` ties a task of a probe to its promise and a crash to a library that is
loaded although it is not complete, for any set of missing functions (`Gaps` is
any set of sets), and `WireInv` says that the two
lists of peers have the same keys, whatever call is under way, and which threads
there are at each place of `stop`. The removal from a list is a recursive function of the
length; that it exists, and that it leaves two lists with the same keys with the
same keys, is the induction of `WithoutIsKept` and `WithoutAgrees`.
`NaturalsLemmas` proves the induction they use from the well-foundedness of strict
inclusion on finite sets.

`CryptoProofs`, on the instance of `MCAlgorithms`:

* `FieldArithmetic`, `FieldSafe`: `fe_add`, `fe_sub`, `fe_mul`, `fe_sq` and
  `fe_mul121666` compute modulo `P`, on any five limbs, negative and wide ones
  included. The radix and the fold are arbitrary, so this is about the 51-bit
  limbs and 19 of the code, not only the 3-bit limbs of the run, as long as no
  intermediate sum overflows: the limbs of the model are integers without a
  width. The argument: carrying keeps the number up to a multiple of `P`
  (`CarriedIsCongruent`), and the folded convolution of the limbs is the product up
  to one (`ProductIsCongruent`).
* `SealOpens`: `chacha20poly1305_encrypt` and `_decrypt` with their
  Poly1305, for any widths, one-time keys and messages whose lengths fit the
  block of lengths (one byte each in the model). `SealInv` says at each stage
  of a seal or an opening which of the blocks the accumulator has taken (`Taking`:
  a chain of `ProcessBlock` over the first of them, whose rest is still to be
  processed), how far the keystream has turned one text into the other (`Turned`),
  and that the tag is that of the chain over all blocks, or another if it was
  altered (`Tagged`). So the opening sees the same chain and decides by the tag
  alone; and the keystream, applied twice, gives the text back (`XorTwice`,
  `TurnedBack`). That different messages have different blocks (`AllApart`): the
  last block gives both lengths, and then equal blocks have equal bytes
  (`BlocksOfApart`), zeros at the end included. None of this needs to know what the
  limbs hold, so `SealOpens` holds for any radix and fold.
* `TagComputed`: the tag is the polynomial modulo `P` of the blocks as the code takes
  them, which lack the high bit of RFC 8439. A step keeps every
  limb but limb 1 below the radix and bounds limb 1 (`StepKeeps`), and multiplies
  modulo `P` (`StepValue`), so that the chain is the polynomial (`FedIs`). At the end,
  one more carry puts all five limbs below the radix (`CarriedOnIs`), one conditional
  subtraction puts the number below `P` (`ReducedIs`), and the OR of limbs that do
  not overlap is their sum (`OrIsSum`, `JoinedIs`). One carry is enough only if limb 1
  cannot be much too large: that is `LimbsAreWide`, 11 times the square of the fold
  below the radix. For the code it says that 275 is below 2^26. The model has no
  width for the intermediate sums, which the code keeps in 64 bits.

`AlgorithmProofs`, on the same instance:

* `HashSafe`: what has been compressed and what is in the buffer, one after the
  other, is a prefix of the padded message (`Framed`), whatever the two calls of
  `update` cut; at the end it is all of it. `PaddedBytes` says what each position
  of the padded message holds, `ZerosEnd` that the loop over the zeros stops where
  the length fits.
* `StunFinds`, whatever ports the kernel chooses or the caller fixes: on every path
  of a request its one socket is closed (`SocketInv`), and the walk over the
  attributes reports the first IPv4 address (`WalkFinds`), for any number of
  attributes of any length: the offset steps from the start of one attribute to
  that of the next (`StartIs`, `WalkStep`), padding included, and no two attributes
  start at one offset (`StartsApart`). That this is an endpoint of the device is
  said, and holds, of a MAPPED-ADDRESS only.
* `LogSafe`: a slice of the newest log is scanned, beginning where a line does
  (`CutAt`). Up to the place the scan has reached (`KeptAre`), the lines that begin
  after the cut have been kept, in order and each once, and the last `KeepLines` of
  them are in the ring where their number modulo its size says (`ApartInRing`: two
  of them are never in one place). When the ring is replayed this gives the lines
  the property asks for; a line before the cut begins before the tail (`CutOff`).

## 7. Findings

* **A controlDown during an attach is undone** (run `down`,
  `control.go:386-390`). The attach goroutine has taken the old server out of
  `ctlSrv`; a `controlDown` that comes while it closes that server finds nothing
  to close and sets `idle`; the goroutine then publishes its server, brings the
  node up and reports `up`. `onDestroy` of the extension calls `controlDown` so
  that the node does not stay online (`ArkMeshVpnAbility.ets:109`). The run
  respects the contract of `main.go:86`. Nothing else undoes a `controlDown`
  (theorem `DownEnds`).
* **A late DNS answer is credited to the next probe** (run `tun_late`,
  `ohostun.go:312`). `captureProbeReply` compares neither id nor name, and the
  drain at the start of a probe (`ohostun.go:328`) only removes answers that have
  already arrived. The query of a probe that timed out may be answered late, or
  may still be in `inj` and be sent by the next probe.
* **The last word of a session may be overwritten** (run `session_stopped`,
  `ArkMeshVpnAbility.ets:331`). `onDestroy` writes `stopped` and does not stop a
  `runGoTunnel` that polls; its deadline then writes `failed`, if the system lets
  the process live that long. `HomeView.ets:171` relies on `stopped` being last.
  `StoppedStays` is what does hold: once `runGoTunnel` has ended nothing follows.
* **A restart does not wait for the stop** (run `session_restart`,
  `TunnelControl.ts:151`). Two seconds stand in for "the extension has gone through
  onDestroy" (`TunnelControl.ts:14`); while its thread is inside a synchronous call
  of the core, the request to start meets the old process and is lost. The page
  recovers (`ConnectingEnds`), the tunnel does not come up.

* **The AEAD is not that of RFC 8439, nor the key agreement that of RFC 7748** (run
  `crypto`; `portable_crypto.h:6-14`). No block of Poly1305 has its high bit, which
  the comment at `portable_crypto.cpp:474` takes for what the RFC asks (`:479`,
  `:485`). The conditional swap swaps on 0 (`:673`), so that the ladder multiplies by
  the scalar with every second bit complemented, and the encoding carries 26 and 25
  bits out of limbs of 51 (`:630`). Both sides of a tunnel that run this code agree on
  the messages (`SealIsSound`); with another implementation they do not.
* **A node's strings and a xored address are misread** (run `discovery`). The first
  quote after a field's name opens its value; the code takes that for the end of the
  name and reads from the next one, so that what is stored is the text between two
  fields (`headscale_client.cpp:437-444`, against the format at `:419-421`). The value
  of an XOR-MAPPED-ADDRESS is reported without the xor (`stun_client.cpp:152-162`,
  against `stun_client.h:29`).

### Divergences seen while modelling

These have no run of their own; the models follow the code.

* *Home page.* A fresh `failed` of the last process, read after the tap, clears
  `pendingStartAt` (`HomeView.ets:191`), and the `stopped` that follows then shows
  "disconnected" in the middle of a start. A tap that stops during the delay of
  `TunnelControl.start` does not cancel it.
* *Bridge* (`go_probe.cpp:190-193`, `:218`). A library that opens but lacks a
  mandatory symbol is an error once; from then on loading reports success, and
  the asynchronous probes call the missing function unchecked. `NoNullCall` of
  `GoBridge` says that nothing else makes the process call a null pointer.
* *Retired core.* A registration by auth key sends whatever keys are loaded, none
  included (`arkmesh_core.cpp:300`, against `:100-101`). A failed keepalive says
  "reconnecting" and nothing connects again (`:48`). `addPeer` locks a non-recursive
  mutex twice, for any key (`wireguard_tunnel.cpp:337`), and `updatePeerEndpoint`
  leaves the endpoint in the configuration behind (`:401`).
* *HTTP.* An answer cut by an error or timeout counts as a whole one
  (`headscale_client.cpp:269`), so that a register answer cut before its AuthURL is
  a success (against `:388`).
* *Node list.* A field a node lacks is read from a later node, and a closing bracket
  inside a value ends the list (`headscale_client.cpp:425`); both are outside the
  format the code expects.
* *STUN.* An answer is taken from whoever sends one to the port, and for whichever
  request (`stun_client.cpp:120`).
* *SHA-256.* The words of a block are read little-endian (`portable_crypto.cpp:134`,
  against FIPS 180-4).

The models describe this code; the passing properties are what holds of it.

## 8. What is not modelled

* *Noise* (`noise_protocol.cpp`): declared in the core, never created.
* *Network monitor, background task* (`NetworkMonitor.ets`, `PowerManager.ets`): no
  caller, except for an initialization.
* *The probe request file and the settings page's poll*: text for one page; no state
  of the tunnel depends on them.
* *The busy poll of the nodes page*: decides when a notice is shown.
* *The codecs* of the DNS probe, of packets and URLs, Base64, HKDF, HMAC, the rounds
  of SHA-256 and ChaCha20, the random source: pure functions without an
  interesting boundary, or out of TLC's reach.
* *TLS probe and diagnostics* (`probe.go`, `ifprobe.go`, `ifgetter.go`, `netcheck.go`,
  `dialdiag.go`): sequential I/O that reports text.
* *Keys and preferences* (`KeyManager.ets`, `StorageUtils.ts`), *widgets, layout and
  wording*.
