# TLA+ models of CxxServer

These are TLA+ specifications of the asynchronous TCP core of CxxServer
(`src/source/core`), checked with TLC. Every module is translated from the C++
source. `PROJECT.json` maps each definition to the lines it models and lists
the runs, mutants, findings and hazards.

## 1. The system

| Component | Source | State it keeps | Operations |
|---|---|---|---|
| Service | `service.cxx:12-169`, `service.hxx` | `_services` (io_services), `_threads`, `_strand`, `_started`, `_polling`, `_rr_idx` | ctor, `start(polling)`, `stop`, `restart`, `serviceThread` (run or poll loop), `getIoService` (round-robin), `dispatch`/`post` |
| Session | `tcp_session.cxx` | `_connected`, `_sending`, `_receiving`, `_send_buff_main`, `_send_buff_flush`, `_send_flush_offset`, `_receive_buff`, `_bytes_*` counters, `_send_lock` | `connect`, `disconnect(dispatch)`, `sendAsync`, `trySend`, `tryReceive`, `clearBuffs`, sync `send`/`receive` with timer race |
| Server | `tcp_server.cxx` | `_started`, `_acceptor`, `_session` (accept slot), `_sessions` map + `_sessions_lock` (shared_mutex) | `start`, `stop`, `restart`, `accept`, `multicast`, `disconnectAll`, `findSession`, `registerSession`, `unregisterSession` |
| Client | `tcp_client.cxx:1-514` (the rest of the file is an older copy), `unnamed/part_004` | as Session plus `_connecting`, endpoint | `connect[Async]`, `disconnect[Async]`, `reconnect[Async]`, `sendAsync`, `trySend`, `tryReceive`, sync `send`/`receive` with a timer race |
| TLS Session / Server | `ssl_session.cxx`, `unnamed/part_002`, `part_005` | `_stream`, `_handshaked`, `_handshaking` | `connect` (+ handshake), `disconnect` (+ async shutdown) |
| TLS Client | `service.cxx:171-424` (concatenated), `unnamed/part_008` | `_stream`, `_handshaked`, `_handshaking`, `_connecting_storage` | `connect` (+ blocking handshake), `connectAsync` + `connectEndpoint` + handshake, `disconnect`, `disconnectAsync` (+ async shutdown), `isReady` |
| HandlerMemory | `unnamed/part_011` | one in-place slot and a `_used` flag | `allocate`, `deallocate` |
| Timer | `timer.cxx` | asio timer, `_action` | `setup`, `waitAsync`, `waitSync`, `cancel` |

**How the components interact.** A Service owns one or more io_services and
the threads that drive them. A Server and every Session it creates take an
io_service from `getIoService`. A handler queued with `post` always waits in
the FIFO queue of its io_service. A handler sent with `dispatch` runs inline
when the caller is already on that io_service's thread, and is queued
otherwise.

User threads call `start`, `stop`, `multicast`, `sendAsync` and `disconnect`
concurrently with the io threads. Each of these calls checks some state, then
queues a handler. The handler re-checks the state when it runs.

The parts interact in these ways:
- The Server's accept completion registers the Session and calls its
  `connect`.
- A Session's disconnect handler queues `unregisterSession` on the Server's io.
- `stop` disconnects every registered Session.
- `multicast` calls `sendAsync` on every Session while holding the registry's
  shared lock.

**Hard behaviours.** These come from the code, not from tests:
- a check made on a user thread goes stale before the handler acts on it
  (`sendAsync` against disconnect; `restart` polling `isStarted`);
- completions already queued run after a handler that invalidated them (accept
  after stop);
- a buffer is cleared without its lock (line 380);
- a map is modified without its lock (`unregisterSession`);
- partial writes;
- several disconnect requests for one Session;
- the receive buffer doubling against its limit;
- starvation of a writer on the shared_mutex;
- completions of a closed connection that run after a blocking reconnect;
- the TLS classes inheriting code that uses the plain socket;
- a blocking call racing its own operation against a timer, with locals read
  before they are set.

## 2. Modules

| Module | Models | State and actions |
|---|---|---|
| `ByteStream` | the spec's promise (§5) for one connection's outgoing bytes | `submitted` (count), `delivered` (sequence), `phase`. Delivered bytes are always a prefix of the submitted ones, in order. |
| `TcpSession` | Session data path, Tcp::Session and SSL::Session | See below. |
| `TcpServer` | Server + Session lifecycle | See below. |
| `Service` | Service | See below. |
| `ServiceTimer` | Timer composed with the Service (`EXTENDS Service`) | See below. |
| `TcpClient` | Tcp::Client and SSL::Client | See below. |
| `MC_TcpSession`, `MC_TcpServer`, `MC_Service`, `MC_ServiceTimer`, `MC_TcpClient` | instantiation for TLC | constant values |

### TcpSession

`ses` is one record holding the Session's fields, with the same names as in
the code (see `SessionInit`). `wops` and `rops` are the socket operations that
have been issued and have not completed. `ioq` is the io_service queue. `upc`
is where each user thread is inside `sendAsync`. `wire` holds the bytes the
peer has received.

The code's operations become helpers and actions:
- Its handlers are helpers of the form Session -> Session: `TrySend`,
  `TryReceive`, `OnWritten`, `OnRead`, `DisconnectHandler`, `ClearBuffs`,
  `ConnectSession`.
- Each action applies a whole handler, including the calls the handler makes.
- `sendAsync` is split at its real interleaving points:
  - `SendAsyncBegin` is the unlocked `isConnected()` check;
  - `SendAsyncLocked` is the section under `_send_lock`;
  - `SendAsyncDispatch` queues `trySend`.
- The data race between line 198 and line 380 is modelled as a free choice of
  the value of `flush.empty()` while a write is in flight.
- `WriteComplete` transfers any prefix of the buffer handed to `write_some`
  (a partial write), or fails.
- `ReadComplete` returns some of the bytes the peer has written, or fails
  (eof, reset or abort).

`ReadCompleteSend` is a read completion whose `onReceived` calls the blocking
`send()` without a timeout, as a server that answers each request does. It runs
on the io thread, so the write completion of `sendAsync` cannot update
`_bytes_sent` at the same time. `asio::write` transfers all `n` bytes or fails
after `w` of them; a failure posts `disconnect()`. `SendBlocking` is the
accounting after the write (`tcp_session.cxx:168-182`).

The bytes of `sendAsync` are their own sequence numbers, so their order can
be checked; bytes of `send()` are 0 on the wire. `Stream == INSTANCE
ByteStream WITH submitted <- nextByte - 1, delivered <- SelectSeq(wire, ...
b > 0), phase <- Phase` is the refinement mapping: the stream of `sendAsync`
stays in order even with the blocking writes interleaved.

**SSL::Session.** `ses.tls`, chosen in `Init` from `TlsModes`, makes the
Session an SSL::Session. The SSL constructor closes the member `_socket`
(`ssl_session.cxx:10`), and the acceptor connects the peer to the stream's own
socket (`ses.streamOpen`). `SSL::Session::connect` sets the socket options
on that socket, then sizes the receive buffer with the non-virtual
`receiveBufferSize()` (`tcp_session.cxx:32-36`), which queries the closed
`_socket` and throws (`ssl_session.cxx:31`). `SslConnectSession` is that
throw: the peer is bound, and `_connected`, the first `tryReceive` and the
`async_handshake` (line 78) are never reached. The handshake completion
(lines 47-77) is unreachable and is not modelled. Neither are the overrides
`asyncReadSome`/`asyncWriteSome`, which nothing calls, since the inherited
data path uses `_socket` directly (`tcp_session.cxx:339, 397`). The exception
leaves the Server's accept completion before `accept()` is re-issued
(`tcp_server.cxx:196`), and `serviceThread` ends the io thread
(`service.cxx:29-40`). `PeerOpen` is the socket the peer is really connected
to.

### TcpServer

| Variable | Code |
|---|---|
| `started` | `_started` |
| `acceptorOpen` | `_acceptor` is open |
| `slot` | `_session` |
| `aops` | sockets with an `async_accept` outstanding |
| `registry` | keys of `_sessions` |
| `readers` | shared holders of `_sessions_lock` |
| `conn[s]` | each Session's `_connected` |
| `srvq` | the Server io_service's queue |
| `sq[s]` | each Session io_service's queue |

History variables `connects`, `disconnects` and `restartRefused` count
callbacks and refused restarts. `crashed` records a null dereference.

User calls are actions:
- `Start`, `Stop` and `DisconnectAll` queue their handler;
- `RestartBegin`, `RestartWait` and `RestartStart` are the three steps of
  `restart`;
- `MulticastBegin`, `MulticastStep` and `MulticastEnd` take the shared lock,
  visit each map entry, and release the lock;
- `UserDisconnect` is `Session::disconnect`.

The io threads run queued handlers:
- `RunServerHandler` runs the start, stop, disconnectAll, accept-completion
  and unregister handlers. `accept()` runs inline as part of the handler that
  calls it, because it is dispatched from the Server's own io.
- `RunSessionHandler` runs a Session's queued disconnect handler.
- `SessionIoError` is an I/O error whose handler calls `disconnect(true)`
  inline.
- `PeerConnects` is the acceptor completing an accept successfully.

Handlers are always queued when the caller is on another io_service. The
model also queues the unregister even when the Session shares the Server's
io. That only adds interleavings, so every property checked here also holds
for the single-io configuration.

### Service

The constants are the constructor's arguments (`NThreads`, the `OwnIoModes`
it is chosen from) and the modes passed to `start` (`PollModes`). `NIos` and
`IoOf` translate how the constructor lays out io_services and how each worker
picks its io_service.

| Variable | Code |
|---|---|
| `q[i]` | handlers ready on io_service i |
| `halted[i]` | `io_service::stop()` has been called on it |
| `tpc[t]` | whether worker t is running its loop or has exited |
| `tcur[t]` | the handler worker t is executing |
| `upc` | where the owner thread is inside `start`/`stop` |
| `rr` | `_rr_idx` |

A worker takes a handler (`Take`) and executes it (`Execute`) in two steps.
While one worker executes a strand handler, the others find nothing ready;
this is how `poll()` returns early on a shared io_service. `RunReturn` and
`PollReturn` are the two exits of the worker loop. `Start`, `StartReturn`,
`Stop`, `StopJoin` and `StopReturn` are the blocking phases of `start` and
`stop`. `RestartRebuild` replaces the io_services, and its `start` is `Start`.
Like the code, `Start` does not need a restart after a plain `stop()`: the
io_services stay stopped, the start handler queued there never runs, and the
user thread spins in `StartReturn`'s wait for ever (`service.cxx:117`).
`PostJob` is a component posting to `getIoService()`. `PostService` is
`Service::post` or `Service::dispatch` from outside the workers
(`service.hxx:98-117`), which queue on `_services[0]`.

### ServiceTimer

One Timer (`timer.cxx`) used by one thread, composed with the Service. The
Timer's handlers are queued on the io_service it took from `getIoService` in
its constructor, and the Service's workers run them.

| Variable | Code |
|---|---|
| `tio` | `_io`, the index of the Timer's io_service |
| `tstale` | `_io` has been replaced in the Service by `restart` |
| `armed` | the expiry of `_timer` is in the future |
| `pend` | `async_wait` calls not yet completed |
| `tupc` | the Timer's thread is blocked in `waitSync` |
| `issued`, `notified`, `orphaned`, `setups` | history counters |

- `TimerCreate` is every constructor (`timer.cxx:9-82`).
- `Setup` is every `setup` overload (92-137). It aborts the pending waits.
- `WaitAsync` is `waitAsync` (139-159).
- `WaitSync` and `WaitSyncReturn` are the two halves of `waitSync` (161-176).
- `Cancel` is `cancel` (178-189).
- `Expire` is the clock passing the expiry.
- `Fire` is the timer service queueing the completions.
- `ExecuteAny` is a worker running a Service handler or the wait handler
  (`AsyncWaitHandler`, 141-151).
- `Rebuild` is `Service::restart`'s rebuild. Completions still queued on the
  old io_services are lost with them.

`timerNotify` (`timer.hxx`, line 349 of the concatenated file) is declared and
defined nowhere, so a program that uses Timer does not link. The model counts
its calls. The Timer's own strand is serialized with the Service's strand; the
wait handler touches only the Timer, so no property tells the two apart.

### TcpClient

`cl` is one record with the Client's fields, named after the code
(`ClientInit`). It also holds two parts of the machinery:
- `cl.ops`: the operations outstanding on the socket;
- `cl.q`: the io_service queue, which holds posted handlers and the
  completions of finished operations.

The other variables:
- `upc`: where the user thread is;
- `wire`: the bytes the current peer has received;
- `inbound`: the bytes the peer has written and the client has not read;
- the history counters `attempts` and `peerSent`.

How the asio behaviours are modelled:
- **Operations finish.** `ConnectDone`, `WriteDone`, `ReadDone` and
  `SecureDone` finish an operation: the kernel's result is queued as a
  completion handler.
- **close() and cancel().** `Abort` finishes every outstanding operation at
  once, with operation_aborted (k = 0). Its completions still run later, in
  FIFO order, possibly after a new connect.
- **Queued handlers.** `RunHandler` runs the head of the queue.
- **dispatch.** From the io thread it runs the handler inline
  (`DisconnectAsyncInline`); from the user thread it queues it.

**SSL::Client** is the same record with `cl.tls` TRUE, chosen in `Init`. It
overrides `connect`, `connectAsync`, `disconnect`, `disconnectAsync` and
`isReady`. The virtual calls are operators resolved on `cl.tls`: `Ready`,
`Disconnect`, `DisconnectAsyncInline`, `DisconnectAsyncPost`,
`ConnectAsyncCall` and `ConnectSyncV`.
- The blocking `connect` runs in three steps: `CallConnect`, then
  `HandshakeSync` and `HandshakeSyncReturn`. In between, the io thread can
  run stale completions.
- `connectEndpoint` is `ConnectEndpoint`, and the async handshake completion
  is `OnHandshake`.
- `SslDisconnectHandler` cancels the socket and starts the TLS shutdown,
  whose completion calls `disconnect()`.

**Blocking send and receive.**
- Without a timeout, a call is one step (`CallSendBlocking`,
  `CallReceiveBlocking`).
- With a timeout, the call's stack frame lives in `cl`: `call`, `done`,
  `err`, `ret` (the local `sent` / `received`, -1 while uninitialised),
  `store` and `timer`. The steps are:
  - `CallTimed` arms the timer. `done` starts at a value from `DoneInits`,
    since the code leaves it uninitialised.
  - `SyncIssue` issues the operation (`sw` or `sr`).
  - `TimerExpire` is the timer firing.
  - The completions run `SyncHandler`, the shared lambda. The first one
    cancels the socket (all its operations) and the timer. When the socket
    is already closed, `socket().cancel()` throws. The exception ends the
    io thread (`cl.ioDead`), and the call never returns.
  - `OnSyncDone` is the op's lambda. Its `sent = s` is a separate io-thread
    step, `StoreResult`.
  - `SyncReturn` is the caller waking once `done == 2`. It reads an
    indeterminate value when the store has not happened.

## 3. Runs

| Run | cfg | Expect | States | Properties |
|---|---|---|---|---|
| session_core | `MC_TcpSession.cfg` | pass | 878k, 1 min 30 s | TypeOK, AtMostOneOp, Accounting, DisconnectOnce, ReceiveBufferSafe, StreamSpec, PeerBytesRead |
| session_tls | `MC_TcpSession_tls.cfg` | violation | 2 steps | PeerClosedOnDisconnect |
| server | `MC_TcpServer.cfg` | pass | 119k, 24 s | TypeOK, RegistryConsistent, LifecycleOnce, AcceptChainSingle, NoStaleSession, StopDisconnectsAll |
| server_null_session | `MC_TcpServer_NoNullSessionAccept.cfg` | violation | | NoNullSessionAccept |
| server_unlocked_unregister | `MC_TcpServer_RegistryWriteExclusive.cfg` | violation | | RegistryWriteExclusive |
| service | `MC_ServiceTimer.cfg` | pass | 141k, 17 s | WorkerPerIo, WaitsConserved, IoDriven, StopReturns |
| service_stale_timer | `MC_ServiceTimer_stale.cfg` | violation | | WaitNotified |
| client_async | `MC_TcpClient_async.cfg` | pass | 572k, 1 min 20 s | AtMostOneOp, Accounting, DisconnectNotifiedOnce, HandshakeBeforeData, ConnectSettles, ReconnectAsyncReturns, PeerBytesRead |
| client_sync | `MC_TcpClient_sync.cfg` | pass | 128k, 2 s | NoOrphanCompletion |
| client_offset | `MC_TcpClient_offset.cfg` | violation | | InOrder |
| client_timed_done | `MC_TcpClient_timed_done.cfg` | violation | | NoOrphanCompletion |
| client_stale_reconnect | `MC_TcpClient_stale_reconnect.cfg` | violation | | AtMostOneOp |

**session_core.** A Tcp::Session (an SSL::Session never gets past
`connect`; see session_tls), two users, partial writes, read errors,
disconnects, and an `onReceived` that answers
with a blocking `send()`. These hold:
- at most one write and one read are outstanding (`AtMostOneOp`);
- `_bytes_pending`, `_bytes_sending` and `_bytes_sent` match the buffers and
  the wire (`Accounting`);
- onDisconnect fires once (`DisconnectOnce`);
- the receive buffer never passes the limit (`ReceiveBufferSafe`);
- the Session refines ByteStream (`StreamSpec`);
- the receive loop reads every byte the peer writes, unless the Session
  disconnects (`PeerBytesRead`). Only the read completion issues the next
  read (`tcp_session.cxx:330`), so each of its paths that keeps the Session
  connected must end in `tryReceive`.

**session_tls.** `PeerClosedOnDisconnect` says that a Session bound to a
peer is either connected, so that its disconnect handler will close the
peer's socket, or has closed it. On an SSL::Session, `connect()` throws at
`ssl_session.cxx:31` before `_connected` is set. The stream's socket, which
the peer is connected to, stays open, and `disconnect()` refuses because
`isConnected()` is false. The same exception ends the Server's io thread and
its accept chain.

**server.** One user thread, two client connections. The run covers start,
stop, restart, disconnectAll, multicast and disconnects. These hold:
- the registry is exact up to the unregisters still queued
  (`RegistryConsistent`);
- onConnect and onDisconnect each fire at most once (`LifecycleOnce`);
- the accept chain is never duplicated (`AcceptChainSingle`);
- under fair io threads, disconnected Sessions leave the registry
  (`NoStaleSession`);
- stop disconnects every Session (`StopDisconnectsAll`).

**server_null_session.** An accept completion queued behind the stop handler
dereferences the reset `_session` (`tcp_server.cxx:193`).

**server_unlocked_unregister.** `unregisterSession` modifies the map while
`multicast` holds the shared lock (`tcp_server.cxx:268`).

**service.** The Service with a Timer. The Service's constructor
configuration is chosen in `Init`: two workers share one io_service through
the strand (run or polling mode), or each has its own io_service (run mode).
The run goes across a restart, with timer waits, setups and cancels. These
hold:
- a worker stays in its loop while the Service is started (`WorkerPerIo`);
- every wait is pending, queued, running, lost with a replaced io_service,
  blocked in `waitSync`, or notified exactly once (`WaitsConserved`);
- every handler queued on an io_service runs while the Service is started
  (`IoDriven`);
- `stop()` returns (`StopReturns`).

**service_stale_timer.** A Timer is created, which takes an io_service from
`getIoService`. It then calls `waitAsync`. `Service::restart` replaces every
io_service (`service.cxx:163`). The Timer keeps the old one, which no worker
runs, so the wait is never notified while the Service is started. Spec.md says
restart reaches the same configuration; a component created before it is cut
off.

**client_async.** The asynchronous API of both Client classes, over two
connection attempts. The run includes partial writes, peer data, and failures
of reads, writes, handshakes and shutdowns. These hold:
- one outstanding operation per kind;
- counters that match the buffers and the wire;
- no more onDisconnect calls than connection attempts;
- no read or write is pending on an SSL::Client's open stream before its
  handshake has completed (`HandshakeBeforeData`). `receiveAsync` calls
  `tryReceive` in any state, and stale completions reach `trySend` and
  `tryReceive`; the `isReady()` test inside both is what keeps data off the
  stream during `connectAsync`'s handshake;
- connectAsync and the handshake settle;
- reconnectAsync returns;
- the receive loop reads every byte the peer writes to a ready client
  (`PeerBytesRead`). It is started by the connect or handshake completion
  and continued by each read completion (`tcp_client.cxx:392`).

**client_sync.** Both Client classes, with the blocking connect, disconnect
and reconnect, and blocking send and receive with and without a timeout, and
`done` initialised to 0. A timed call returns only once its operation and
its timer have resolved (`NoOrphanCompletion`).

**client_offset.** After a partial write, `trySend` writes the flush buffer
from its start again (`tcp_client.cxx:494`), so the peer receives the first
bytes twice.

**client_timed_done.** `int done;` is not initialised in `Client::send` and
`Client::receive` (`tcp_client.cxx:258, 314`). With `done` starting at 2, the
wait returns before the write has finished. The write's lambda then runs
against a dead frame.

**client_stale_reconnect.** `reconnect()` closes the socket and connects it
again at once (`tcp_client.cxx:230`). The trace is: connect, `receiveAsync`,
blocking reconnect, `receiveAsync`. The close aborts the first read and
queues its completion, and `disconnect()` clears `_receiving`. On the new
connection `receiveAsync` therefore issues a second read beside that queued
completion. When the stale completion runs, `isReady()` is true, so it clears
`_receiving` under the new read and calls `disconnectAsync(true)` on the new
connection for the old read's `operation_aborted`.

Every property of a passing run has a mutant in `PROJECT.json`. A mutant is a
plausible bug in the code, and TLC finds the property violated when the mutant
replaces the real definition. Examples:
- a dropped re-check;
- a write restarted at offset 0;
- a read completion that does not issue the next read;
- a lock not released;
- `_started` cleared before `disconnectAll`;
- a timed call tested with `isConnected()` instead of `isReady()`;
- a wait predicate satisfied by the first lambda.

**Bounds.**

TcpSession:
- two user threads and chunks of 1 or 2 bytes;
- `MaxBytes = 4` bytes sent in all, and `SendLimit = 3`, so both the limit
  refusal and a two-chunk main buffer occur;
- `RecvInit = 1` and `RecvLimit = 2`, so both a doubling and the limit
  disconnect occur;
- the peer writes at most 3 bytes;
- at most 3 handlers queued: two `trySend` and a disconnect;
- `onReceived` makes one blocking `send()` of one byte, which can be partial
  or can fail.

With these bounds, a partial write followed by a swap happens, as do two
`sendAsync` calls racing a write completion and a disconnect.

TcpServer:
- two Session ids, each used once;
- at most 3 handlers per queue, and a user call is made only while every
  queue has room (`Room`);
- one user thread. It can still call `start()` twice and multicast while the
  io thread unregisters. The violation configurations use two users, so that
  a multicast overlaps a restart or a second start. The liveness graph with
  two users takes almost four minutes to check.

Service and Timer: two workers, one posted handler, two starts (so that a
restart occurs), two timer waits and one setup. With these, a wait is aborted
by a setup or a cancel, and it completes both before and after a restart.

TcpClient:
- two connection attempts, so a connection follows a closed one;
- chunks of 1 or 2 bytes and 2 bytes in all for both classes, so a two-byte
  write can be partial;
- a receive buffer of 1 byte that doubles once;
- the peer writes 2 bytes;
- two handlers queued by the user;
- one-byte blocking calls.

In client_sync the receive loop is not started. With both classes and timed
calls it adds ten million states, and its interaction with a timed call is
the subject of `MC_TcpClient_timed_cancel.cfg` (section 4).

**Fairness.** It follows from the code's scheduling:
- Every io thread runs the handlers queued on it. This is weak fairness on
  `RunHandler`, `RunSessionHandler` and `WriteComplete`. The peer keeps
  reading, so a write completes.
- The operating system finishes every connect, handshake and shutdown, and
  expires every timer. A read finishes once the peer has written bytes, or at
  once on a closed socket (weak fairness on the read completion restricted
  to those states); a read on an idle connection may wait forever. In ServiceTimer, time passes (`Expire`). The timer
  service of the io_service that a worker runs queues the expired waits
  (`Fire`). A `waitSync` returns once its expiry has passed.
- The Server's io thread can block in `registerSession` on the unique lock.
  It gets strong fairness: a lock that is free infinitely often is eventually
  taken.
- A user thread inside a call finishes it.
- Users calling, clients connecting, peers writing and I/O errors happening
  are never forced.

The Server's liveness properties assume `ReadersLetGo`: multicast readers
leave the lock free infinitely often. With a reader-preferring lock, overlapping
multicasts could starve the writer forever. That case is listed as a hazard
and is not checked.

Most runs turn deadlock checking off, for a real reason: an idle Session whose
peer is silent, a started Server with no client and no caller, and a
disconnected Client whose user stops calling all wait forever.

## 4. Configurations beyond the runs

The project is limited to twelve runs. These configurations find further
violations. They are kept beside the runs and can be checked the same way
(`tlc -config <cfg> <MC module>`). Each is listed as a hazard in
`PROJECT.json`.

| cfg | Property | What TLC finds |
|---|---|---|
| `MC_TcpSession_stranded.cfg` | NoStrandedBytes | `sendAsync` checks `isConnected()` before taking `_send_lock`. A disconnect in between leaves the appended bytes in a dead Session (`tcp_session.cxx:185`). |
| `MC_TcpServer_RegistryCountMatches.cfg` | RegistryCountMatches | The registry size differs from onConnect minus onDisconnect until the queued unregister runs (`tcp_session.cxx:95`). The spec does not say whether the registry may lag. |
| `MC_TcpServer_RestartStarts.cfg` | RestartStarts | `restart()` spins on `while (!isStarted())` after `stop()`. It leaves at once, before the stop handler ran, and calls `start()` on a started Server, which refuses (`tcp_server.cxx:173`). |
| `MC_Service_zero_threads.cfg` | StartReturns | `Service(0)` has one io_service and no worker. `start()` spins until a start handler runs that nobody runs (`service.cxx:117`). |
| `MC_TcpClient_stranded.cfg` | NoStrandedBytes | `Client::sendAsync` has the same check-then-lock race. Bytes stranded there are written to the next connection (`tcp_client.cxx:406`). |
| `MC_TcpClient_double_connect.cfg` | ConnectNotifiedOnce | The connectAsync completion calls `onConnect()` twice on success (`tcp_client.cxx:152, 156`). |
| `MC_TcpClient_tls_handshake.cfg` | DisconnectNotifiedOnce | A failed blocking handshake reports onDisconnect but leaves `_connected` set. The next disconnect or reconnect reports it again (`service.cxx:306`). |
| `MC_TcpClient_tls_stale_shutdown.cfg` | HandshakedConnected | A TLS shutdown completion queued before a blocking reconnect closes the new connection while its handshake runs. `_handshaked` is then left set on a closed client, and `connect()` refuses for ever (`service.cxx:249`). |
| `MC_Service_poll_exit.cfg` | IoDriven | With one io_service per worker in polling mode, worker 1 polls its empty io_service before the start handler has run on io_service 0. It sees `_started` false and exits, and handlers posted later to io_service 1 never run (`service.cxx:36`). Spec §4.1 says a polling worker loops until the service is stopped. |
| `MC_ServiceTimer_stale_expiry.cfg` | ExpiryCurrent | `setup` after the timer service has queued a success handler, but before a worker runs it, sets a future expiry. The handler still reports success, for the old expiry (`timer.cxx:142`). |
| `MC_ServiceTimer_live.cfg` | WaitNotified (holds) | With one `start` and no restart, every wait is notified: the stale io_service of service_stale_timer is the only cause. |
| `MC_TcpClient_timed_cancel.cfg` | TimedCallSparesOthers | The first lambda of a timed send or receive calls `socket().cancel()`. That aborts the receive loop's read too, whose completion disconnects the client (`tcp_client.cxx:268`). Spec §3 speaks of cancelling "the socket's outstanding op". |

## 5. Not modelled

- **HandlerMemory** (`unnamed/part_011`): the single-slot allocator tests and
  sets `_used` without synchronisation. Its one real race is the TLS Client's
  `_connecting_storage`, used on the user thread by `disconnectAsync` and on
  the io thread by the handshake and shutdown handlers. Showing it needs the
  Client's handlers split at every allocation, a state space beyond the
  client runs. It is listed as a hazard.
- **Session `send()` from a user thread, `send()` with a timeout, and
  `receive()`** (`tcp_session.cxx:138-166, 227-294`). From a user thread,
  `_bytes_sent += n` races with the write completion (a lost update), and
  `receive()` calls `onReceived` while the io thread may run it too. The timed
  calls, made from the io thread, wait for completions that only that thread
  runs. Each would make session_core fail on a known race, and every run slot
  is taken. Only the race-free use is modelled (`ReadCompleteSend`). The lost update
  is listed as a hazard.
- **`receiveAsync()` on a user thread** (`tcp_session.cxx:296`,
  `tcp_client.cxx:440`). It runs `tryReceive` on the user thread. The test
  and set of `_receiving` there races with the read completion, which clears
  the flag at its start and calls `tryReceive` at its end. Two reads can then
  be outstanding into one buffer. The models run the read completion as one
  step, so this window is not represented. The Client's `CallReceiveAsync`
  is atomic, and the Session model does not call `receiveAsync`. Splitting
  both would make session_core fail `AtMostOneOp`, and no run slot is left.
  It is listed as a hazard.

These are out of scope:
- utilities (`fastItoa`, `CacheView`) and the uuid and enum headers, which are
  pure data formatting;
- the examples, benchmarks, tests and CMake files;
- the byte counters of Server and Service, which are only statistics;
- the second, older copy of the Client after `tcp_client.cxx:514`. It is an
  earlier version of the same class (it uses `_socket` directly and
  `isConnected` instead of `isReady`), concatenated after the first;
- the Service constructor that takes an external io_service
  (`service.cxx:82-90`), and exceptions thrown in the worker loop.
