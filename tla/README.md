# TON-Tunnel: models and proofs

TON-Tunnel carries TCP connections over ADNL, the datagram layer of the TON
network. A client (Windows or Android) offers a local SOCKS5 server; for every
connection it opens a *stream* to an egress node, which makes the TCP
connection and relays bytes both ways. The frames are OPEN, DATA, CLOSE and
ERROR, each with a `stream_id` (`PROTOCOL.md`).

This directory models the system in TLA+, checks the models with TLC on small
instances and proves the most important results with TLAPS for every instance.

## Inventory

| Part | Source | State | Operations | Hard behaviour |
|---|---|---|---|---|
| Egress node | `ton-egress-node/src/egress_node.cpp` | `streams_`, `streams_per_client_`, `recently_closed_streams_ms_`, `Stream` objects with socket and thread | `handleOpen`, `handleData`, `handleClose`, `closeStream`, the rx threads, `monitorIdleTimeoutLoop`, `start`, `stop` | four kinds of threads close the same stream; checks and updates in different critical sections; joins between threads; descriptor numbers that come back |
| Egress transport glue | `ton_transport_factory.cpp` | backend handle, message callback | `start`, `stop`, `sendToClient`, `onMessageBridge` | the handle is destroyed while rx threads send |
| Egress ADNL backend | `ton_adnl_backend.cpp` | `running_`, `known_clients_`, `pending_query_promises_` | `start`, `stop`, `sendToClient`, `on_adnl_message`, `on_adnl_query` | which frame answers which query; queries that no frame answers |
| Egress policy | `egress_node.cpp:641-686`, `config.cpp` | none | `isClientAllowed`, `isPortAllowed`, `isHostBlocked`, `isAddressBlocked` | address ranges |
| Frame codecs | `protocol.cpp`, `TonProtocol.cpp`, the Kotlin decoder | none | encode, decode, split into frames | an OPEN of the egress has no payload, one of the client has |
| Windows client core | `TON-Tunnel/TonClientCore.cpp` | `streamQueues_`, `pendingOpenMs_`, `running_` | `openStream`, `sendStreamData`, `closeStream`, `awaitStreamFrame`, `receiverLoop` | frames after unregistration, a timeout racing the ACK, CLOSE before the ACK |
| Windows SOCKS server | `TON-Tunnel/LocalSocks5Server.cpp` | workers, `nextStreamId_` | `start`, `stop`, `acceptLoop`, `handleClient` | two directions end each other; stop while workers run |
| Windows application | `TON-Tunnel/TON-Tunnel.cpp` | tunnel state, saved system proxy | `startTunnel`, `stopCore`, capture, apply, restore, recover | a crash between saving and restoring the proxy |
| Windows TUN bridge | `TON-Tunnel/WintunLwipBridge.cpp` | DLL, adapter, session, netif, read thread | `start`, `stop` | a start that fails half way |
| Android transport | `NativeTonTransport.kt` | stream queues | as the client core | as the client core; unknown frames |
| ADNL client | `app/src/main/cpp/ton_adnl_client_backend.cpp`, `ton_transport.cpp`, `DirectAdnlBackend` | the runtime with its scheduler thread, the published handle, the receive queue | `initialize`, `initAdnlContext`, the C API, `init_adnl_udp`, `send`, `receivePacket` | two threads initialise at once; an initialisation that fails half way; a runtime destroyed while others send |
| Android SOCKS server | `vpn/LocalSocks5Server.kt` | `closeIssued` | `handleClient`, `pipeToTon`, `pipeFromTon`, `closeStreamOnce` | CLOSE sent once by two pipes |
| Android VPN service | `vpn/TonShieldVpnService.kt` | `vpnEnabled`, jobs, sockets | `onStartCommand`, `stopVpnService`, `runVpnTunnelLoop` | a quick stop and start; a start that fails |
| Android screen | `ui/VpnViewModel.kt`, `ui/VpnServiceController.kt` | `isVpnEnabled` | tap, broadcasts | answers to earlier commands arrive later |
| DNS, configuration, rendering | remaining files | little or none | - | not modelled (see the end) |

`src/server/ton-egress-node/` is a copy of `ton-egress-node/`.

## Modules

* `EgressNode` - the egress node: its tables, `Stream` objects and threads.
* `MCEgressNode` - for the runs `MCEgressNode_*.cfg`: the symmetry set, and for the
  liveness run, where symmetry is unsound, constraints that fix which id and which
  stream come first and leave out the ageing of `recent`, on which nobody waits.
* `FrameFormat`, `Frames` - integers, encoders and the three decoders, over
  bytes. `FrameFormat` has no recursion, so that modules with proofs can use it.
* `QueryPromise` - what the ADNL backend owes a query, as a specification of
  its own; `AdnlBackend` - the backend, which implements it; `MCWire` - the
  instance for TLC, with the codecs.
* `SocksClient` - the Windows client: `TonClientCore` and the relay workers of
  `LocalSocks5Server`, against the egress as its frames show it and a network
  that loses and reorders.
* `DesktopTunnel` - the Windows application around it: sessions, the system
  proxy, the inbound queue, the bridge, and how a process ends; `MCDesktopTunnel` -
  the constraint for TLC.
* `AndroidStream` - the Android client: `LocalSocks5Server.kt` and the stream
  queues of `NativeTonTransport.kt`.
* `VpnService` - the Android service around it, with the screen.
* `AdnlClient` - the ADNL runtime of both clients with its two users, the JNI
  layer and the Windows program; `MCAdnlClient` - the configurations for TLC.

The theorems about a module `M` are in `MProofs`; those about `EgressNode` that
assume ids are used once are in `EgressFreshIdProofs`, on top of
`EgressNodeProofs`.

The modules meet at the frames: `EgressNode` says what the egress does with
them, `SocksClient` and `AndroidStream` contain the egress as one stream sees
it (its steps are named after the handlers they stand for), and `AdnlBackend`
has the node as its caller. `DesktopTunnel` and `VpnService` have the client as
one component that is started and stopped. `AdnlClient` is the layer below
`SocksClient` and `AndroidStream`: their workers are its senders, and
`receiverLoop` is the one that calls `receivePacket`.

### EgressNode and the code

Threads: `"handler"` is the ADNL scheduler thread inside `onAdnlMessage`
(`onMessageBridge` holds one mutex for the whole call, so requests are handled
one at a time); `"idle"` is `idle_thread_`; `"main"` runs `stop()`; and each
`Stream` object `s` names its own `rx_thread`. `pc[t]` is where thread `t` is.

| Variable | Code |
|---|---|
| `streams`, `perClient`, `recent` | `streams_`, `streams_per_client_`, the fresh keys of `recently_closed_streams_ms_` |
| `keyOf`, `fd`, `closed`, `stale`, `handle` | the fields of `Stream`; `stale` says that `last_activity_ms` is longer ago than `idle_timeout_sec` |
| `sock` | the kernel's descriptor table: whose connection a number denotes |
| `arg`, `held`, `local`, `rxFd`, `sweep`, `snapshot` | locals of the functions, per thread |
| `acked`, `closes`, `reply` | what was handed to `sendToClient` |

An action is one critical section of `mu_`, or one access to a `Stream`, a
socket or the transport between two of them. `closeStream` is written once
(`CloseAbsent`, `CloseErase`, `CloseMark`, `CloseShut`, `CloseJoin`), with the
calling thread as its parameter. `handleOpen` is `OpenRefuse`, `OpenAdmit`,
`OpenFail`, `OpenRegister`, `OpenAck`, `OpenSpawn`, `OpenSpawnThrows`.
`sendToClient` fails exactly from the moment the runtime's `running_` is
cleared (`Up`). The policy, DNS and connect are nondeterministic outcomes. `send` on
a connection that was reset raises SIGPIPE, which nothing catches (no `MSG_NOSIGNAL`,
no handler): `DataSendKills` ends the process.

Three constants say what the environment may do, so that each result names the
assumptions it needs:

* `IdReuse` - a client opens a `stream_id` it has opened before. Clients number
  streams upwards, so it takes a client restart under the same ADNL key.
* `SlowOpen` - `idle_timeout_sec` passes between registering a stream and the
  end of `handleOpen`. It takes a configured timeout of about 0, or a stall.
* `FdRace` - the kernel hands out a number while an rx thread has loaded it and
  not yet entered `recv`.

### SocksClient and the code

A worker thread (`pc[w]`) serves one accepted connection; `nextStreamId_` only
counts up, so `w` is its stream id too. While it relays it has a second thread
(`uplink[w]`). `alive`, `remoteEnded` are the locals the two share, `client` is
the accepted socket, `queues` is `streamQueues_`, `main` is where
`LocalSocks5Server::stop` is. `up` and `down` are the frames between client and
egress, `egress`, `rx`, `pushed` what the egress does with the stream: it is
registered and acknowledged, its rx thread reads and pushes, some thread takes
it from the table (`"ending"`) and then sends CLOSE (`"gone"`); a chunk the rx
thread has read goes out even after the CLOSE. `before`, `established`,
`disturbed` and `lost` are history variables for the properties. `OpenFrame` and
`OpenTimeout` are the loop of `openStream` with its deadline and the grace
period after a CLOSE; `Receive` is one frame of `receiverLoop`.

The egress's rx thread is assumed to start, and `max_payload_bytes` to be at
least one segment (1200); otherwise an ERROR can come for a live stream, for
which this client sends no CLOSE.

### AdnlBackend, Frames and the code

`main` is where `TonTransportAdnl::start` or `stop` is, `handle` its pointer,
`sched` the scheduler thread, `call` the callback it is in, `send[t]` where
thread `t` is in `sendToClient`; `pending` is `pending_query_promises_`, `log`
what each promise was settled with. `ReceiveMessage`, `ReceiveQuery`,
`RefuseQuery` are the callbacks up to the call of the node, `Dispatch` is one
turn of the frame loop of `EgressNode::onAdnlMessage`, of which only matters
whether it replies on this thread. `sendToClient` is four steps, because its
parts take different locks: the test of `running_` and `adnl_`, the promise,
the client's address, the post to the scheduler. Relay threads are the rx
threads and the monitor. `EgressNode::stop` stops the transport before it joins
them, so a relay can be inside `sendToClient` when the runtime is deleted
(`UseAfterDelete`); from there on the program is undefined and the model stops.

Byte sequences are modelled as they are, lengths included. `FramesOf`, the
frames of a datagram, is a constant of `AdnlBackend`; `MCWire` gives it the
decoder of `Frames`.

### DesktopTunnel and the code

`reg` and `file` are the three registry values and `ton-proxy-state.txt`; they
and the user's wish outlive a process. `pc["main"]` is the window thread inside
`WM_CREATE`, `startTunnel` or `stopCore`, `pc["filter"]` a thread in
`unhandledExceptionFilter` or `onTerminate`. Each `RegSetValueExW` is a step
(`WriteNext`), the state file is truncated and written in two, and `Kill` can
fall between any of them. `held` is what the bridge has acquired; `inq` has for
each packet the session in which it was received. The user's proxies are model
values; `Lookalikes` are those whose text contains `127.0.0.1:1080`, which recovery
takes for the program's own. A port is found by recovery when its digits begin with
1080 (`FoundPorts`), since the code searches for a substring. The history variable
`marred` collects what the code cannot make good:

| `marred` | What happened |
|---|---|
| `denied` | Windows refused a call that save, restore or recovery needs |
| `stray` | a process died with the proxy at a port recovery does not find |
| `torn` | a process died between registry writes that belong together, and the next one cannot see it |
| `unsaved` | a process died in a later session, for which `captureSystemProxyState` writes no file |
| `raced` | the exception filter restored while the window thread was applying the proxy |
| `outdated` | the user changed the settings after `g_prevProxy` was captured |
| `mistaken` | the user's own proxy was taken for one left by an earlier run |

### AndroidStream and the code

A session is one `LocalSocks5Server` object with its first connection, whose
threads are `"h"` (`handleClient`), `"up"` (`pipeToTon`) and `"down"`
(`pipeFromTon`). `queue` is the entry of `streamQueues` for the stream id,
`content` the queue objects: a thread polls the object it looked up (`hold`),
also after the entry has gone. `guard` is `closeIssued[streamId]`, `intr` the
interrupt flags, `lostIntr` an interrupt of a thread that was not yet started,
which Java allows to be lost. `wire` and `air` are the frames under way, in no
order, and a frame that is never taken is lost. A frame carries its session,
which the code does not see.

### VpnService and the code

`pc[k]` is `runVpnTunnelLoop` of the k-th start, `owner[k]` its service object,
`field` what the nullable fields of an object hold, `up` the interfaces and
servers that exist. `main` is the main thread in `stopVpnService`, which is
split where it releases things, since the loop stores into the same fields on
another thread. `cancel()` takes effect in `delay` only. `hurried` marks the
objects that were stopped during the set-up of a loop, or started again before
an earlier loop had ended.

`Reopen` closes the screen and opens it again: the new `VpnViewModel` starts with
`VpnUiState()`, off, and the service broadcasts its state only when it changes or is
asked to start. `ProcessDies` stands for a kill and for an exception that nothing
catches (a DNS gateway that cannot bind, `SecureDnsGateway.kt:24`); the kernel then
closes what was open, and the system may start a service whose last command returned
`START_STICKY` with a null intent, which `onStartCommand` takes for a start.

### AdnlClient and the code

`host` says, from the first state on, which program this is. `rt[h]` is the h-th
`TonAdnlClientRuntime` of the process: `cfg` and `callback` are what it was made
with, `thread` is where its scheduler thread is in `init_adnl_udp`, its loop or
its end, `running`, `ready` and `adnl` are `running_`, `ready_` and whether `adnl_`
is set, and `deleted` says that `ton_adnl_client_destroy` has run. `box[h]` is the
mailbox of its Adnl actor and `done[h]` the calls that actor has carried out. `ctx`
and `started` are `gContext` with `gNativeReady`, or `g_adnlHandle` with
`g_adnlStarted`; `ptr`, `runtimeConfig` and `lock` are `nativeContextPtr`, the
configuration with the token, and the monitor of `NativeTonTransport`.

A configuration is what becomes of its strings: whether `parse_egress` accepts the
address, whether its host has to be resolved, whether the key can be imported, and
whether the host to advertise is usable, a name or refused. Which address is advertised
in the end is left out: no other step depends on it. `pending` has the strings that
`configureAdnlPeer` leaves for `initAdnlContext`. The scheduler thread tests `running_`
between slices of `run(0.05)`: at `"loop"` it is at the test, at `"run"` inside a slice,
in which packets arrive although `running_` may be cleared already.

On Windows a worker (`at[s]`) is the thread of a connection: it begins while the SOCKS
server accepts and ends when its connection does. `stopCore` is followed step by step:
`JoinSenders` (the SOCKS server waits for all workers, the core for its receiver),
`Clear` (the backend's `stop()` clears the queue), `StopHandle`, `Join` (the scheduler
thread has ended, the runtime is deleted), and `ClearAgain` (`stopCore` clears the queue
once more, of what came during the join).

A step of `init_adnl_udp` that fails leaves `ready_` false and the thread in its
loop, so a runtime that never gets ready is kept, and refuses every frame, until
the process ends (Android) or the session does (Windows). `initialize` stores the
pointer before the configuration (`NativeTonTransport.kt:99`, `:101`), so a second
thread can return from it a moment before the token is there; `TokenOfPeer` speaks
about the token once it is. The branch of `initAdnlContext` that replaces an earlier
context is in `Configure` and `Replace`, and the proof shows that it is never taken.

## Runs

The egress runs have one client; the node keeps no state that relates two clients
except the serialisation of requests. Deadlock is not an error: the node may be
stopped, and the environment may stay silent.

| Run | Bounds | Checks | Result |
|---|---|---|---|
| `egress_safety` | 2 ids, 2 streams, 2 descriptors, `max_streams` 2, `FdRace` | `TypeOK`, `CountExact`, `NoTerminate`, `NoFdLeak`, `CloseNotifiedOnce`, `AckPrecedesClose`, `OnlyDetachingOutlive` | holds |
| `egress_anyclient` | 2 ids, 2 streams, `max_streams` 1, all three | `OneCloser`, `RequestsAnswered`, `StreamLimit`, `OwnWhileOpen` | holds |
| `egress_liveness` | 2 ids, 2 streams, 1 descriptor, `max_streams` 1, `FdRace`, `FairSpec` | `JoinWakes`, `IdleEventuallyClosed`, `RequestReturns`, `StopReturns` | holds |
| `egress_reopen` | 1 id, 2 streams, `IdReuse` | `NoTerminate` | violated |
| `egress_fdreuse` | as `egress_safety` | `OwnConnection` | violated |
| `client_relay` | 1 worker, 2 DATA frames down, 2 frames in flight, `ReadingSpec` | `TypeOK`, `InOrder`, `NoStreamLeftBehind`, `CompleteBeforeClose`, `CloseIsLast`, `StopReturns`, `RelayEnds` | holds |
| `client_blocked` | 1 worker, 1 DATA frame, `FairSpec` | `StopReturns` | violated |
| `wire` | 2 clients, 2 queries, 1 message, 1 relay thread, 2 sends, 6 datagrams; all pairs of short frames and pairs with a long second one, cut by up to 12 bytes | `RequestQueriesAnswered`, `FramesKept`, `PromisesKept` | holds |
| `desktop` | 3 processes, 2 sessions each, ports 1080, 10801 and 9050, 2 user proxies of which 1 is a lookalike, 1 queued packet | `ProxyHasListener`, `RestoredUnlessLost`, `PacketsOfThisSession`, `BridgeReleased` | holds |
| `android_stream` | 1 session, 2 DATA frames each way | `ClosedOnce`, `EveryStreamClosed`, `RelayEnds` | holds |
| `vpn_service` | 3 taps or deaths of the process | `CleanAfterStop`, `DestroyedLoopsEnd`, `ScreenSettles` | holds |
| `adnl_client` | 2 callers or the window thread, 2 workers, 2 runtimes, 2 packets of which 1 is queued, configurations of every kind | `PeerKnownFirst`, `UsesLiveRuntime`, `PacketsOfRuntime`, `TokenOfPeer`, `StopEnds` | holds |

Why these bounds: two streams are the fewest for a closer of one to meet the
open of another, for a key to be registered twice, and for a number to change
hands; with `max_streams` 1 the second OPEN is at the limit, with 2 it can be
admitted while the first is live. The liveness run has one descriptor for its two
streams, so the second stream gets the number of the first as soon as that is closed,
also while the first one's rx thread is on its way into `recv`. `Streams` bounds the
successful OPENs of a run; descriptors, ids and stream objects are interchangeable,
which makes the symmetry sound (it is not used for liveness).

Workers share nothing but `stop` and the receiver thread, which files every frame
under its own stream, so one worker has all the races of a relay. Two DATA frames
are the fewest that can be swapped; with two frames in flight the uplink's DATA
can cross a CLOSE of the egress. `MaxInFlight` only holds back new DATA of the
local side, never an answer.

`wire`: two queries and one relay thread are the fewest for a query to take the
place of another while a relay answers; the datagrams include a request, two
frames in one, a cut one and one too short for a stream id. In the samples, cuts
of up to 12 bytes reach through the second frame into the first. `desktop`:
three processes are a crash, a recovery that is itself killed, and a last one
that must be right; the ports are the default, one whose text contains it, and one
that recovery does not find. States after a refused call or a stray death are reached
but not followed further: from there on no property speaks of the proxy, and the other
two do not depend on it (they are proved without this bound). `android_stream`: two
pushed frames let one be under way while the other is in the queue. `vpn_service`:
three events are start, stop, start (or a stop before the first start is handled), or a
death between two taps; every event makes at most one service object and one loop.
`adnl_client`: two callers are the fewest that can both find no context, two runtimes
are a session and the one after it, and of two workers one can be inside `send` while
the other has ended; the mailbox has room for the three calls and a frame behind them.

What the properties say is in the comments of the modules. The violations:

* **`egress_reopen`**. `handleOpen` puts the new stream over a live entry
  (`egress_node.cpp:420`). The old rx thread's `closeStream` then finds the new
  stream under its key and tears *that* down; the old `Stream` goes away with a
  joinable thread, which is `std::terminate`, against the comment at
  `egress_node.cpp:589`.
* **`egress_fdreuse`**. `stream->fd` is read, then `recv` is called
  (`egress_node.cpp:442`). If another thread closes the stream in between and
  the next OPEN gets the same number, the old rx thread reads the new stream's
  bytes and labels them with its own id, against `PROTOCOL.md:138`.
* **`client_blocked`**. `recv` on the accepted socket has a timeout, `send` has
  none. A local program that stops reading keeps the worker in `sendAll`
  (`LocalSocks5Server.cpp:176`), and `stop()` joins it for ever, against the
  comment at line 189, "to avoid hanging forever".

### Fairness

`EgressNode`: `FairSpec` says that the node's threads keep running: weak fairness of the
handler inside a request, of the monitor, of `stop`, and of each rx thread
outside `recv`. `recv` is only sure to return once its descriptor has been shut
down. `stop` joins the scheduler thread, which tests `running_` between two
calls of `run(0.05)`, so a steady stream of requests cannot keep it from
ending: strong fairness of `StopTransport`. Requests, incoming bytes, the
shutdown signal and time get no fairness, and neither do `getaddrinfo`, `connect` and
`send`, which nothing in the code bounds as a whole. The liveness properties name what
then can hold a thread up: `HandlerStuck`, the handler stays in such a call, and
`MonitorStuck`, the monitor joins an rx thread that waits on another stream's
connection.

`AndroidStream`: weak fairness of every thread, except that a `read` of an open
socket and the handshake may block for ever. The deadline of `openStream` passes
(strong fairness, because polling alternates with the test of the deadline).
The network and the egress get none. `VpnService`: weak fairness of the main
thread, of each loop and of the delivery of broadcasts; the user need not tap
and tun2socks need not end. `AdnlClient`: weak fairness of each scheduler thread
outside the resolver (its other waits have a timeout of 50 ms) and of the window thread
inside Start or Stop. A worker need not end, so `StopEnds` begins after the join of the
workers (`client_blocked` shows that this join may last for ever), and it assumes that
the resolver answers. `AdnlBackend` and `DesktopTunnel` have no liveness properties and
no fairness.

`SocksClient`: `FairSpec` is weak fairness of the client's threads. It is
justified where a thread waits by the timeouts of the code: `SO_RCVTIMEO` for
the handshake and the uplink, the deadline of `openStream`, 100 ms in the relay.
The network, the egress and the local program get none; `ReadingSpec` adds that
the local program reads what it is sent or closes its end.

## Proofs

Every theorem holds for all values of the constants that satisfy the named
assumptions of its module: they say that bounds are numbers, that the sets of
clients and ids are finite, that names of threads are not stream names, and that
`None` is no other value. Each follows the same plan: a strengthening of the
property is shown to hold initially and to be kept by every action. The
strengthenings were checked with TLC before they were proved. Further hypotheses
are named with the theorem.

Most leaves name Zenon: they are propositional or substitute in functions and
records, and SMT, which tlapm tries first, spends seconds on encoding them in
modules of this size. The leaves without a backend need arithmetic or sequences.
`SocksClient` defines `RemoveAt` itself because the community module that has it
would put all of its definitions into the context of every leaf.

**Egress node, any client** (`EgressNodeProofs`).

* `TypeCorrect`: `TypeOK`. The invariant adds `Locals`: a thread that is about to
  look up, erase or start has the local it uses.
* `SingleTeardown`: `OneCloser`. `Ownership` adds that an entry of the table carries
  its own key and that the snapshot holds only unregistered streams; then erasing
  an entry moves a stream from the table to exactly one thread, and `StopSnapshot`
  from the table to the snapshot.
* `AlwaysAnswered`: `RequestsAnswered`. `Replying` says at which places of the
  handler a frame is still owed.
* `LimitHolds`: `StreamLimit`. The check and the increment are separated by DNS and
  connect; `Counted` carries the room found by the check to the increment. It holds
  because only the handler adds to the count. With reopened ids the count is not
  exact, so the invariant has "at most" where `CountExact` has equality.
* `ReceivesOwn`: `OwnWhileOpen`, and `JoinsEnd`: `JoinWakes`, with no assumption about
  the kernel's choice of numbers. `Phases` says what each place of a thread tells about
  the stream it holds, `Closing` that `closed` is set once and before the join,
  `Descriptors` that `Stream::fd` and the kernel's table agree while the stream is open.
  For `JoinsEnd` one more fact is needed: only the handler makes connections, and it
  makes none while it or `stop()` joins. `egress_fdreuse` shows that `OwnConnection`,
  without "while open", does not hold.

**Egress node, ids used once** (`EgressFreshIdProofs`, all with `~IdReuse`).

* `RxThreadEnded` (`~SlowOpen` too): `NoTerminate`. `FreshKeys` says a key belongs to
  one stream ever, `Opening` that nobody else closes a stream until its rx thread
  has been assigned, `Owned` that a joinable thread's stream is in the table, in the
  snapshot or with its closer. `egress_reopen` shows that `~IdReuse` is necessary.
  So is `~SlowOpen`: without it TLC finds the monitor closing a stream between its
  ACK and the assignment of its rx thread, which then nobody joins.
* `SocketsOwned`: `NoFdLeak`, and `NotifiedOnce`: `CloseNotifiedOnce`. A stream is
  `Pending` while somebody still has to shut it down; it has its descriptor only
  while pending, and has had its CLOSE exactly when it no longer is.
* `CapacityExact`: `CountExact`.
* `AckFirst` (`~SlowOpen`): `AckPrecedesClose`, and `StopWaitsForReaders`
  (`~SlowOpen`): `OnlyDetachingOutlive`.

**Egress ADNL backend** (`AdnlBackendProofs`).

* `PromisesRefined`: the backend implements `QueryPromise`. The mapping takes
  `pending` for the set of waiting queries, the length of `log[q]` for the number of
  times `q` was settled, and says the backend is open until `ton_adnl_destroy`. The
  invariant `IInv` is needed to see that a step of the backend is one of the abstract
  specification: `Waiting` says that a query waits under at most one stream, has not
  been settled and has arrived, so that a new one is new for `QueryPromise` too;
  `Phases` says that callbacks run only while the runtime exists, so that no query
  begins to wait after the table is gone.
* `RequestsSettled`: `RequestQueriesAnswered`. `Answering` follows the one query that
  can be unanswered: its frame is the next to be dispatched, or the reply is on its
  way to the table, where no other thread can have taken the promise.
* `TypeCorrect`: `TypeOK`.

**Windows client** (`SocksClientProofs`): `TypeCorrect`; `BytesInOrder`: `InOrder`;
`StreamEnds`: `NoStreamLeftBehind`; and the action properties `ClosesComplete`:
`CompleteBeforeClose` and `NothingAfterClose`: `CloseIsLast`. The invariant follows
the frames of one stream through the network and the queue to the worker (`Pipe`):
as long as the network has kept the order, the DATA in it are the next ones, in
order (`Order`), a CLOSE has the DATA sent before it in front of it (`Behind`), and
`openStream` finds the ACK first. `ClosedInv` says that after `closeStream` the
egress has ended the stream or will.

**Windows application** (`DesktopTunnelProofs`): `TypeCorrect`; `BridgeAllOrNothing`:
`BridgeReleased`, from what each step of the bridge's start has acquired;
`OwnPackets`: `PacketsOfThisSession`, because between the end of `stopCore` and the
next start there is nobody to bring a packet; `SettingsRestored`: `RestoredUnlessLost`,
and `ListenerBehindProxy`: `ProxyHasListener`, both for any ports. The first rests on
`Kept`: at every point of a session the settings are the user's, or they are in the
state file and either a write is pending or the next process will recognise what it
finds as left behind, or one of `Losses` has happened. The second rests on `Foreign`:
the program's own address is never saved as the user's.

**Android client** (`AndroidStreamProofs`): `TypeCorrect`; `OneClose`: `ClosedOnce`,
from the number of CLOSE frames each place of the three threads and the once-flag
stand for (`Counted`); `OpenedAreClosed`, the first half of `EveryStreamClosed`, for
any number of sessions.

**Android service** (`VpnServiceProofs`): `TypeCorrect`; `NothingLeftBehind`:
`CleanAfterStop`, since an object that was not hurried refers to everything its
loops have made (`FoundInv`, `MakingInv`); `ScreenAgrees`: `ScreenSettles`, from what
the screen will show once it has received every broadcast under way (`Shown`), which is
the state of the service unless the screen is `fresh`.

**ADNL client** (`AdnlClientProofs`), for any number of callers, senders, runtimes
and any configurations: `TypeCorrect`; `PeerBeforeFrames`: `PeerKnownFirst`;
`RuntimesLive`: `UsesLiveRuntime`; `QueueOfSession`: `PacketsOfRuntime`;
`TokenMatchesPeer`: `TokenOfPeer`. They share one invariant. `RuntimeInv` says that a
runtime has its callback from its creation on, that its calls are posted in order
and that it is ready only after them; `CallerInv`, that only the holder of the
monitor is past the second look at the pointer, and that nothing is published then
but what it made; `DesktopInv`, that no sender is under way from the join of the
workers until the next session is up; `SenderInv`, that a sender works on the
published runtime; `QueueInv`, that outside a stop every queued packet is of the
published runtime, the only one whose thread is in a slice (`Owned`).

Only model-checked are: all liveness, because fairness and `ENABLED` are out of the
prover's reach (`IdleEventuallyClosed`, `RequestReturns`, `StopReturns`, `RelayEnds`,
`DestroyedLoopsEnd`, `StopEnds`); what the recursive decoders compute (`FramesKept`),
which takes induction over data; and the second half of `EveryStreamClosed`, which holds
for one session only (with a second one the frames of the first reach its queues, see
below).

## Known limits of what holds

Some invariants hold only with an exclusion that the code makes necessary:

* `RestoredUnlessLost` holds unless one of `Losses` has happened; each of them has a
  cause in the code: `captured` is never reset, so a later session restores the first
  capture and writes no file (`TON-Tunnel.cpp:413`, `:304`); recovery looks for the text
  `127.0.0.1:1080` (`:362`), which misses other ports and may hit a proxy of the user;
  the writes of a group are separate; the exception filter takes no lock (`:258`).
* `ProxyHasListener` leaves out a death at a port recovery does not look for.
* `IdleEventuallyClosed` and `StopReturns` name a monitor that joins an rx thread whose
  number went to another connection (`egress_node.cpp:442`): it waits until that
  connection has bytes or ends. All liveness of the node ends with a SIGPIPE.
* `FramesKept` names the datagrams in which an OPEN of the egress can also be read as a
  request, because enough bytes follow it (`TonProtocol.cpp:91`): there the Windows
  decoder loses the frames behind it, while `PROTOCOL.md:29` says that "Multiple frames
  MAY be concatenated in a single ADNL payload". The egress sends one frame per
  datagram, so with this egress the case does not arise.
* `EstablishedIsOpen` and `OwnData` of `AndroidStream` hold for one session and
  fail for two: ids begin again at 1 (`LocalSocks5Server.kt:24`) while the
  queues belong to a singleton, so the ACK of an OPEN sent before a restart of
  the VPN establishes the first stream after it, which the egress may not have.
* `CleanAfterStop` leaves out a service stopped while a loop sets up
  (`hurried`): the loop then stores an interface or a server that nobody
  releases.
* `ScreenSettles` names the case that `establish` gave no interface: the loop
  returns at once and the service stays on (`TonShieldVpnService.kt:207`). It also
  names a screen made while the service is on: it shows off until the next broadcast,
  which a tap on the button brings about.
* `RelayEnds` of `AndroidStream` names an interrupt that Java loses because the pipe
  has not been started yet (`LocalSocks5Server.kt:102`).

TLC finds each of them without its exclusion. Some outcomes end a behaviour: a
connection accepted while `stop()` shuts the pool down (`LocalSocks5Server.kt:45`,
`crashed` in `AndroidStream`), the SIGPIPE above, and `UseAfterDelete` in `AdnlBackend`.
In `SocksClient`, a control frame that comes after `unregisterStream` makes a queue
nobody reads (`TonClientCore.cpp:217`); stream ids do not come back within one server,
so it is never taken.

## Not modelled

* Counters, logging, message texts and metrics, and payload bytes outside
  `Frames`; exceptions from failed allocations.
* Configuration files and command lines: read once, each is one outcome.
* The egress policy (`isPortAllowed`, `isAddressBlocked` and the like): predicates
  on strings and addresses without state; the verdict is a nondeterministic choice.
* The ADNL library (key import, its actors, sockets), lwIP, Wintun and tun2socks.
  Their effects on the code are steps of the models.
* The TCP relay of `WintunLwipBridge.cpp`: the code makes no listening pcb, so
  its callbacks never run.
* The DNS filter of the VPN service (`DNS_FILTER_ENABLED = false`) with
  `DnsPacketHandler`, the inbound loop that is never launched, and DNS over
  HTTPS, which forwards one query and keeps no state.
* Rendering of both user interfaces.
* `src/server/ton-egress-node/`, the same code again.
