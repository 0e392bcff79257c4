------------------------------ MODULE TcpClient ------------------------------
(***************************************************************************)
(* One Client of src/source/core/tcp/tcp_client.cxx: the synchronous and   *)
(* asynchronous connect / disconnect / reconnect, the double-buffered      *)
(* sendAsync / trySend with its write completion, the receive loop        *)
(* (tryReceive and its read completion), and the blocking send and receive *)
(* with and without a timeout, whose timer and operation race on the io    *)
(* thread while the user thread waits on a condition variable.             *)
(*                                                                         *)
(* Actors.  One user thread calls the Client's API; the io thread runs     *)
(* the Client's io_service queue cl.q in FIFO order.  The socket holds    *)
(* the operations issued on it (cl.ops); when one finishes, the kernel     *)
(* result is queued on cl.q as a completion handler, and close() or        *)
(* cancel() finish every outstanding operation at once with               *)
(* operation_aborted (k = 0).                                              *)
(* A completion queued before a close therefore still runs after it, and  *)
(* after a later connect.  Bytes are numbered as in TcpSession.            *)
(*                                                                         *)
(* The same module models SSL::Client (src/source/core/service.cxx:171-   *)
(* 402), chosen by cl.tls in Init: it overrides connect, connectAsync,     *)
(* disconnect, disconnectAsync and isReady, adds the handshake ("h") and  *)
(* the TLS shutdown ("s") operations, and inherits everything else.  The   *)
(* operators Ready, Disconnect, DisconnectAsyncInline, DisconnectAsyncPost *)
(* and ConnectAsyncCall are the virtual calls, resolved on cl.tls.         *)
(***************************************************************************)
EXTENDS Integers, Sequences, SequencesExt

CONSTANTS
    Calls,       \* the API functions the user thread calls
    ChunkSizes,  \* sizes of the buffers handed to sendAsync
    MaxBytes,    \* bound: total bytes submitted to sendAsync
    SendLimit,   \* _send_buff_limit (0 = unlimited)
    RecvInit,    \* receive buffer size read from the socket option
    RecvLimit,   \* _receive_buff_limit (0 = unlimited)
    MaxInbound,  \* bound: total bytes the peers write to the client
    MaxWire,     \* bound: bytes one peer connection accepts
    MaxConns,    \* bound: connect, connectAsync and reconnect calls
    MaxQueue,    \* bound: handlers the user thread has queued on q
    TlsModes,    \* the Client classes: FALSE Tcp::Client, TRUE SSL::Client
    SyncSizes,   \* sizes of the buffers handed to send and receive
    DoneInits    \* values the uninitialised `int done` of a timed call holds

VARIABLES
    cl,        \* the Client object's fields, its socket and its io queue
    upc,       \* the user thread: "idle", inside sendAsync, or spinning
    usize,     \* size of the buffer the user thread is sending
    nextByte,  \* history: the next byte number sendAsync will append
    wire,      \* bytes the peer of the current connection has received
    inbound,   \* bytes the peer has written that the client has not read
    peerSent,  \* history: bytes written by all peers (bounded)
    attempts   \* history: connection attempts of the user (bounded)

vars == <<cl, upc, usize, nextByte, wire, inbound, peerSent, attempts>>

-----------------------------------------------------------------------------
ClientInit ==
    [ tls          |-> FALSE,   \* the object is an SSL::Client
      sockOpen     |-> FALSE,
      connecting   |-> FALSE,   \* _connecting
      connected    |-> FALSE,   \* _connected
      sending      |-> FALSE,   \* _sending
      receiving    |-> FALSE,   \* _receiving
      handshaking  |-> FALSE,   \* _handshaking (SSL)
      handshaked   |-> FALSE,   \* _handshaked (SSL)
      main         |-> <<>>,    \* _send_buff_main
      flush        |-> <<>>,    \* _send_buff_flush
      offset       |-> 0,       \* _send_flush_offset
      pending      |-> 0,       \* _bytes_pending
      inflight     |-> 0,       \* _bytes_sending
      sent         |-> 0,       \* _bytes_sent
      received     |-> 0,       \* _bytes_received
      rbuf         |-> 0,       \* _receive_buff.size()
      ops          |-> <<>>,    \* operations outstanding on the socket
      q            |-> <<>>,    \* io_service queue: handlers, completions
      established  |-> 0,       \* history: times _connected was set
      onConnects   |-> 0,       \* history: onConnect calls
      onDisconnects |-> 0,      \* history: onDisconnect calls
      \* The frame of the send() or receive() with a timeout that the user
      \* thread is inside (tcp_client.cxx:257-283, 313-342).
      call         |-> "none",  \* "send", "receive" or "none"
      done         |-> 0,       \* done
      err          |-> "none",  \* err: "none", "timeout" or "error"
      ret          |-> 0,       \* sent / received; -1 while uninitialised
      store        |-> -1,      \* bytes the op's lambda has still to store
      timer        |-> FALSE,   \* the call's timer is armed
      collateral   |-> FALSE,   \* history: a cancel() aborted another op
      ioDead       |-> FALSE ]  \* an exception ended the io thread

(* The completion handler that an operation of each kind queues.           *)
DoneOf == [c |-> "cdone", w |-> "wdone", r |-> "rdone",
           h |-> "hdone", s |-> "sdone", sw |-> "swdone", sr |-> "srdone"]

Handler(h, k) == [h |-> h, k |-> k]

(* An operation that carries no user data: connect, handshake, shutdown.   *)
ControlOp(kind) == [op |-> kind, buf |-> <<>>, cap |-> 0]

(* isReady(): connected, and for an SSL::Client also handshaked           *)
(* (ssl_client.hxx, part_008:79; tcp_client.hxx isConnected).              *)
Ready(c) == c.connected /\ (c.tls => c.handshaked)

(* The guard of SSL::Client connect and connectAsync (service.cxx:277,    *)
(* 375, 383, 322); for a Tcp::Client the two SSL flags stay FALSE and it   *)
(* is the guard of Tcp::Client::connectAsync.                              *)
Busy(c) == c.connected \/ c.connecting \/ c.handshaked \/ c.handshaking

(* socket().close() or socket().cancel(): every outstanding operation      *)
(* finishes with operation_aborted and its completion is queued.           *)
Abort(c) ==
    [c EXCEPT !.ops = <<>>,
              !.q = @ \o [i \in 1..Len(c.ops) |-> Handler(DoneOf[c.ops[i].op], 0)]]

(* Client::clearBuffs (tcp_client.cxx:497-504).                            *)
ClearBuffs(c) ==
    [c EXCEPT !.main = <<>>, !.flush = <<>>,
              !.offset = 0, !.pending = 0, !.inflight = 0]

(* Mutant: disconnect() that forgets to clear _connected.                 *)
DisconnectBodyNoClear(c) ==
    IF ~c.connected THEN c
    ELSE ClearBuffs([Abort(c) EXCEPT !.sockOpen = FALSE, !.connecting = FALSE,
                                     !.receiving = FALSE, !.sending = FALSE,
                                     !.onDisconnects = c.onDisconnects + 1])

(* Mutant: disconnect() without its isConnected() early return.          *)
DisconnectBodyUnguarded(c) ==
    ClearBuffs([Abort(c) EXCEPT !.sockOpen = FALSE, !.connecting = FALSE,
                                !.connected = FALSE, !.receiving = FALSE,
                                !.sending = FALSE,
                                !.onDisconnects = c.onDisconnects + 1])

(* Client::disconnect (tcp_client.cxx:183-199).                            *)
DisconnectBody(c) ==
    IF ~c.connected THEN c
    ELSE ClearBuffs([Abort(c) EXCEPT !.sockOpen = FALSE, !.connecting = FALSE,
                                     !.connected = FALSE, !.receiving = FALSE,
                                     !.sending = FALSE,
                                     !.onDisconnects = c.onDisconnects + 1])

(* SSL::Client::disconnect (service.cxx:225-235): refused while a connect *)
(* or a handshake is in progress; otherwise clears the handshake flags and *)
(* runs Tcp::Client::disconnect.                                           *)
SslDisconnect(c) ==
    IF ~c.connected \/ c.connecting \/ c.handshaking THEN c
    ELSE DisconnectBody([c EXCEPT !.handshaked = FALSE, !.handshaking = FALSE])

(* The virtual disconnect().                                               *)
Disconnect(c) == IF c.tls THEN SslDisconnect(c) ELSE DisconnectBody(c)

(* The disconnect handler of SSL::Client::disconnectAsync (service.cxx:    *)
(* 242-257): re-check, cancel the socket, and start the TLS shutdown,      *)
(* whose completion calls disconnect().                                    *)
SslDisconnectHandler(c) ==
    IF ~c.connected \/ c.connecting \/ c.handshaking THEN c
    ELSE LET a == Abort(c) IN [a EXCEPT !.ops = Append(@, ControlOp("s"))]

(* disconnectAsync(true) called from a handler on the io thread: dispatch  *)
(* runs the disconnect handler inline.  Tcp::Client (tcp_client.cxx:201-   *)
(* 224) cancels the socket and disconnects; SSL::Client (service.cxx:237-  *)
(* 272) starts the shutdown.                                               *)
DisconnectAsyncInline(c) ==
    IF ~c.connected \/ c.connecting \/ c.handshaking THEN c
    ELSE IF c.tls THEN SslDisconnectHandler(c)
    ELSE DisconnectBody(Abort(c))

(* disconnectAsync() from the user thread posts the disconnect handler.    *)
(* Tcp::Client cancels the socket first, so the handler runs behind the    *)
(* aborted completions; SSL::Client cancels inside its handler.            *)
DisconnectAsyncPost(c) ==
    IF ~c.connected \/ c.connecting \/ c.handshaking THEN c
    ELSE IF c.tls THEN [c EXCEPT !.q = Append(@, Handler("sslDisconnect", 0))]
    ELSE LET a == Abort(c)
         IN  [a EXCEPT !.q = Append(a.q, Handler("disconnect", 0))]

(* SSL::Client replaces its stream on every connect (service.cxx:281,     *)
(* 379): the old socket is destroyed, its operations aborted.              *)
NewStream(c) == [Abort(c) EXCEPT !.sockOpen = FALSE]

(* connectAsync (tcp_client.cxx:125-181; service.cxx:374-402): post the    *)
(* connect handler.                                                        *)
ConnectAsyncCall(c) ==
    IF Busy(c) THEN c
    ELSE LET c1 == IF c.tls THEN NewStream(c) ELSE c
         IN  [c1 EXCEPT !.q = Append(@, Handler("connect", 0))]

(* The posted connect handler (tcp_client.cxx:129-170; service.cxx:382-    *)
(* 395, the same steps): set _connecting and issue async_connect.          *)
ConnectHandler(c) ==
    IF Busy(c) THEN c
    ELSE [c EXCEPT !.connecting = TRUE, !.ops = Append(@, ControlOp("c"))]

(* Mutant: tryReceive tests isConnected() where it should test isReady(). *)
TryReceiveConnectedOnly(c) ==
    IF c.receiving \/ ~c.connected THEN c
    ELSE [c EXCEPT !.receiving = TRUE,
                   !.ops = Append(@, [op |-> "r", buf |-> <<>>, cap |-> c.rbuf])]

(* Client::tryReceive (tcp_client.cxx:363-367, 401): issue one read of the *)
(* whole receive buffer.                                                   *)
TryReceive(c) ==
    IF c.receiving \/ ~Ready(c) THEN c
    ELSE [c EXCEPT !.receiving = TRUE,
                   !.ops = Append(@, [op |-> "r", buf |-> <<>>, cap |-> c.rbuf])]

(* Mutant: trySend without the _sending check.                            *)
TrySendUnguarded(c) ==
    IF ~Ready(c) THEN c
    ELSE LET c1 == IF c.flush = <<>>
                   THEN [c EXCEPT !.flush = c.main, !.main = <<>>,
                                  !.offset = 0, !.pending = 0,
                                  !.inflight = c.inflight + Len(c.main)]
                   ELSE c
         IN  IF c1.flush = <<>> THEN c1
             ELSE [c1 EXCEPT !.sending = TRUE,
                             !.ops = Append(@, [op |-> "w", buf |-> c1.flush,
                                                cap |-> 0])]

(* Client::trySend (tcp_client.cxx:444-463, 494).  The write is issued on  *)
(* the whole flush buffer, from its start whatever _send_flush_offset is.  *)
TrySend(c) ==
    IF c.sending \/ ~Ready(c) THEN c
    ELSE LET c1 == IF c.flush = <<>>
                   THEN [c EXCEPT !.flush = c.main, !.main = <<>>,
                                  !.offset = 0, !.pending = 0,
                                  !.inflight = c.inflight + Len(c.main)]
                   ELSE c
         IN  IF c1.flush = <<>> THEN c1          \* onEmpty()
             ELSE [c1 EXCEPT !.sending = TRUE,
                             !.ops = Append(@, [op |-> "w", buf |-> c1.flush,
                                                cap |-> 0])]

(* The fields connect() and the connect completion set once the socket is  *)
(* connected (tcp_client.cxx:107-117 and 142-150), with its onConnect.     *)
Established(c) ==
    [c EXCEPT !.rbuf = RecvInit, !.pending = 0, !.inflight = 0,
              !.received = 0, !.sent = 0, !.connected = TRUE,
              !.established = c.established + 1,
              !.onConnects = c.onConnects + 1]

(* Mutant: connect() calling onConnect twice, as the async completion does. *)
ConnectSyncNotifyTwice(c, ok) ==
    IF ~ok THEN [c EXCEPT !.onDisconnects = c.onDisconnects + 1]
    ELSE LET e == Established([c EXCEPT !.sockOpen = TRUE])
         IN  [e EXCEPT !.onConnects = e.onConnects + 1]

(* Client::connect (tcp_client.cxx:91-123) when not connected: the         *)
(* blocking connect either fails (err, onDisconnect) or connects.  It does *)
(* not start the receive loop.                                             *)
ConnectSync(c, ok) ==
    IF ~ok THEN [c EXCEPT !.onDisconnects = c.onDisconnects + 1]
    ELSE Established([c EXCEPT !.sockOpen = TRUE])

(* Mutant: the connect completion that does not clear _connecting.        *)
OnConnectedKeepsConnecting(c, ok) ==
    LET e == TryReceive(Established(c))
    IN  IF c.connected \/ c.connecting THEN c
        ELSE IF ok THEN [e EXCEPT !.onConnects = e.onConnects + 1]
        ELSE [c EXCEPT !.onDisconnects = c.onDisconnects + 1]

(* The async_connect completion (tcp_client.cxx:135-163).  On success it   *)
(* calls onConnect, starts the receive loop, and calls onConnect again.    *)
OnConnected(c, ok) ==
    LET c1 == [c EXCEPT !.connecting = FALSE]
        e  == TryReceive(Established(c1))
    IN  IF c1.connected \/ c1.connecting THEN c1
        ELSE IF ok THEN [e EXCEPT !.onConnects = e.onConnects + 1]
        ELSE [c1 EXCEPT !.onDisconnects = c1.onDisconnects + 1]

(* SSL::Client::connect (service.cxx:274-301), up to the blocking          *)
(* handshake: a new stream, the blocking connect, and on success the       *)
(* connected state with onConnect.                                         *)
SslConnectSync(c, ok) ==
    LET c1 == NewStream(c)
    IN  IF ~ok THEN [c1 EXCEPT !.onDisconnects = c1.onDisconnects + 1]
        ELSE Established([c1 EXCEPT !.sockOpen = TRUE])

(* The virtual connect() of a client that is not connected.                *)
ConnectSyncV(c, ok) == IF c.tls THEN SslConnectSync(c, ok) ELSE ConnectSync(c, ok)

(* The end of SSL::Client::connect (service.cxx:302-316): a failed         *)
(* handshake reports err and onDisconnect and returns false, leaving the   *)
(* socket open and _connected set; a successful one sets _handshaked.      *)
SslHandshakeSync(c, ok) ==
    IF ~ok THEN [c EXCEPT !.onDisconnects = c.onDisconnects + 1]
    ELSE [c EXCEPT !.handshaked = TRUE]

(* SSL::Client::connectEndpoint (service.cxx:319-372), the async_connect   *)
(* completion: on success the connected state, one onConnect, and the      *)
(* async_handshake.                                                        *)
ConnectEndpoint(c, ok) ==
    LET c1 == [c EXCEPT !.connecting = FALSE]
    IN  IF Busy(c1) THEN c1
        ELSE IF ~ok THEN [c1 EXCEPT !.onDisconnects = c1.onDisconnects + 1]
        ELSE [Established(c1) EXCEPT !.handshaking = TRUE,
                                     !.ops = Append(@, ControlOp("h"))]

(* The async_handshake completion (service.cxx:347-365): on failure         *)
(* disconnectAsync(true); on success _handshaked and the receive loop.     *)
OnHandshake(c, ok) ==
    LET c1 == [c EXCEPT !.handshaking = FALSE]
    IN  IF c1.handshaked THEN c1
        ELSE IF ~ok THEN DisconnectAsyncInline(c1)
        ELSE TryReceive([c1 EXCEPT !.handshaked = TRUE])

(* Mutant: the write completion subtracts the size of the buffer it wrote  *)
(* from _bytes_sending instead of the bytes transferred.                   *)
OnWrittenSubtractsRequested(c, k) ==
    LET c1 == [c EXCEPT !.sending = FALSE]
        c2 == LET c3 == [c1 EXCEPT !.inflight = c1.inflight - Len(c1.flush),
                                   !.sent = c1.sent + k,
                                   !.offset = c1.offset + k]
              IN  IF c3.offset = Len(c3.flush)
                  THEN [c3 EXCEPT !.flush = <<>>, !.offset = 0]
                  ELSE c3
    IN  IF ~Ready(c) THEN c1
        ELSE IF k > 0 THEN TrySend(c2)
        ELSE DisconnectAsyncInline(c1)

(* The write completion (tcp_client.cxx:465-492) of a write that           *)
(* transferred k bytes, or failed when k = 0.                              *)
OnWritten(c, k) ==
    LET c1 == [c EXCEPT !.sending = FALSE]
        c2 == LET c3 == [c1 EXCEPT !.inflight = c1.inflight - k,
                                   !.sent = c1.sent + k,
                                   !.offset = c1.offset + k]
              IN  IF c3.offset = Len(c3.flush)
                  THEN [c3 EXCEPT !.flush = <<>>, !.offset = 0]
                  ELSE c3
    IN  IF ~Ready(c) THEN c1
        ELSE IF k > 0 THEN TrySend(c2)
        ELSE DisconnectAsyncInline(c1)

(* Mutant: a successful read does not issue the next one.                 *)
OnReadNoRearm(c, k) ==
    LET c1 == [c EXCEPT !.receiving = FALSE]
        c2 == [c1 EXCEPT !.received = c1.received + k]
        overLimit == c1.rbuf = k /\ k * 2 > RecvLimit /\ RecvLimit > 0
    IN  IF ~Ready(c) THEN c1
        ELSE IF k = 0 THEN DisconnectAsyncInline(c1)
        ELSE IF overLimit THEN DisconnectAsyncInline(c2)
        ELSE IF c1.rbuf = k THEN [c2 EXCEPT !.rbuf = k * 2] ELSE c2

(* The read completion (tcp_client.cxx:369-399) of a read that returned k  *)
(* bytes, or failed when k = 0.  A read that fills the buffer doubles it,  *)
(* unless doubling exceeds the receive limit.                              *)
OnRead(c, k) ==
    LET c1 == [c EXCEPT !.receiving = FALSE]
        c2 == [c1 EXCEPT !.received = c1.received + k]
        overLimit == c1.rbuf = k /\ k * 2 > RecvLimit /\ RecvLimit > 0
    IN  IF ~Ready(c) THEN c1
        ELSE IF k = 0 THEN DisconnectAsyncInline(c1)
        ELSE IF overLimit THEN DisconnectAsyncInline(c2)
        ELSE TryReceive(IF c1.rbuf = k THEN [c2 EXCEPT !.rbuf = k * 2] ELSE c2)

(* The handler lambda of a send() or receive() with a timeout             *)
(* (tcp_client.cxx:264-272, 320-328), run by the timer's and by the op's   *)
(* completion with error e.  The first to run (done++ == 0) records e,     *)
(* cancels the socket, which aborts every operation on it and not only the *)
(* call's own, and cancels the timer, whose completion is then queued with *)
(* operation_aborted.  Once the call has returned its frame is gone and    *)
(* the lambda is taken to change nothing.  socket().cancel() on a closed   *)
(* socket throws after done++: the exception leaves the handler, and       *)
(* serviceThread (service.cxx:29-40) ends the io thread.                   *)
SyncHandler(c, e) ==
    IF c.call = "none" THEN c
    ELSE IF c.done # 0 THEN [c EXCEPT !.done = @ + 1]
    ELSE IF ~c.sockOpen THEN [c EXCEPT !.done = 1, !.ioDead = TRUE]
    ELSE LET a == Abort(c)
             others == \E i \in 1..Len(c.ops): c.ops[i].op \notin {"sw", "sr"}
         IN  [a EXCEPT !.done = 1, !.err = e, !.timer = FALSE,
                       !.q = IF c.timer THEN Append(@, Handler("tdone", 0)) ELSE @,
                       !.collateral = @ \/ others]

(* The op's lambda: handler(e), then sent = s (received = read) as a       *)
(* separate step of the io thread, unless handler(e) threw; k = 0 is an    *)
(* error.                                                                  *)
OnSyncDone(c, k) ==
    LET h == SyncHandler(c, IF k > 0 THEN "none" ELSE "error")
    IN  IF h.ioDead THEN h ELSE [h EXCEPT !.store = k]

(* The io thread runs a handler taken from the head of the queue.          *)
RunAt(c, hd) ==
    CASE hd.h = "connect"       -> ConnectHandler(c)
      [] hd.h = "disconnect"    -> Disconnect(c)
      [] hd.h = "sslDisconnect" -> SslDisconnectHandler(c)
      [] hd.h = "trySend"       -> TrySend(c)
      [] hd.h = "cdone" /\ c.tls  -> ConnectEndpoint(c, hd.k = 1)
      [] hd.h = "cdone" /\ ~c.tls -> OnConnected(c, hd.k = 1)
      [] hd.h = "hdone"         -> OnHandshake(c, hd.k = 1)
      [] hd.h = "sdone"         -> Disconnect(c)   \* shutdown_handler
      [] hd.h = "wdone"         -> OnWritten(c, hd.k)
      [] hd.h = "rdone"         -> OnRead(c, hd.k)
      [] hd.h \in {"swdone", "srdone"} -> OnSyncDone(c, hd.k)
      [] hd.h = "tdone"         -> SyncHandler(c, IF hd.k = 1 THEN "timeout"
                                                 ELSE "error")

-----------------------------------------------------------------------------
Init ==
    /\ \E tls \in TlsModes: cl = [ClientInit EXCEPT !.tls = tls]
    /\ upc = "idle"
    /\ usize = 0
    /\ nextByte = 1
    /\ wire = <<>>
    /\ inbound = 0
    /\ peerSent = 0
    /\ attempts = 0

(* Room for one more handler posted by the user thread.                    *)
Room == Len(cl.q) < MaxQueue

(* The socket connects to a new peer: the peer has received nothing yet.   *)
NewPeer == wire' = <<>> /\ inbound' = 0

(* The user thread blocks in SSL::Client::connect's handshake after a     *)
(* successful socket connect.                                              *)
AfterConnect(ok) == upc' = IF cl.tls /\ ok THEN "handshake" ELSE "idle"

(* The guard of the virtual disconnect() (tcp_client.cxx:184;              *)
(* service.cxx:226).                                                       *)
Disconnectable(c) == c.connected /\ ~(c.tls /\ (c.connecting \/ c.handshaking))

(* connect() from the user thread.                                         *)
CallConnect(ok) ==
    /\ "connect" \in Calls /\ upc = "idle"
    /\ IF cl.tls THEN ~Busy(cl) ELSE ~cl.connected
    /\ attempts < MaxConns
    /\ cl' = ConnectSyncV(cl, ok)
    /\ AfterConnect(ok)
    /\ IF ok THEN NewPeer ELSE UNCHANGED <<wire, inbound>>
    /\ attempts' = attempts + 1
    /\ UNCHANGED <<usize, nextByte, peerSent>>

(* The blocking handshake of SSL::Client::connect finishes on the socket: *)
(* it fails (also when the socket was closed under it), or it succeeds and *)
(* the user thread is about to set _handshaked.                            *)
HandshakeSync(ok) ==
    /\ upc = "handshake"
    /\ ok => cl.sockOpen
    /\ cl' = IF ok THEN cl ELSE SslHandshakeSync(cl, FALSE)
    /\ upc' = IF ok THEN "handshaked" ELSE "idle"
    /\ UNCHANGED <<usize, nextByte, wire, inbound, peerSent, attempts>>

(* ... and connect() sets _handshaked and returns true.                    *)
HandshakeSyncReturn ==
    /\ upc = "handshaked"
    /\ cl' = SslHandshakeSync(cl, TRUE)
    /\ upc' = "idle"
    /\ UNCHANGED <<usize, nextByte, wire, inbound, peerSent, attempts>>

(* connectAsync() from the user thread.                                    *)
CallConnectAsync ==
    /\ "connectAsync" \in Calls /\ upc = "idle"
    /\ ~cl.connected /\ ~cl.connecting
    /\ attempts < MaxConns /\ Room
    /\ cl' = ConnectAsyncCall(cl)
    /\ attempts' = attempts + 1
    /\ UNCHANGED <<upc, usize, nextByte, wire, inbound, peerSent>>

(* disconnect() from the user thread.                                      *)
CallDisconnect ==
    /\ "disconnect" \in Calls /\ upc = "idle"
    /\ Disconnectable(cl)
    /\ cl' = Disconnect(cl)
    /\ UNCHANGED <<upc, usize, nextByte, wire, inbound, peerSent, attempts>>

(* disconnectAsync() from the user thread.                                 *)
CallDisconnectAsync ==
    /\ "disconnectAsync" \in Calls /\ upc = "idle"
    /\ cl.connected /\ ~cl.connecting /\ ~cl.handshaking /\ Room
    /\ cl' = DisconnectAsyncPost(cl)
    /\ UNCHANGED <<upc, usize, nextByte, wire, inbound, peerSent, attempts>>

(* Client::reconnect (tcp_client.cxx:226-231): disconnect(), then          *)
(* connect().                                                              *)
CallReconnect(ok) ==
    /\ "reconnect" \in Calls /\ upc = "idle"
    /\ Disconnectable(cl)
    /\ attempts < MaxConns
    /\ cl' = ConnectSyncV(Disconnect(cl), ok)
    /\ AfterConnect(ok)
    /\ IF ok THEN NewPeer ELSE UNCHANGED <<wire, inbound>>
    /\ attempts' = attempts + 1
    /\ UNCHANGED <<usize, nextByte, peerSent>>

(* Client::reconnectAsync (tcp_client.cxx:233-241): disconnectAsync(),     *)
(* then yield while isConnected() ...                                      *)
CallReconnectAsync ==
    /\ "reconnectAsync" \in Calls /\ upc = "idle"
    /\ cl.connected /\ ~cl.connecting /\ ~cl.handshaking
    /\ attempts < MaxConns /\ Room
    /\ cl' = DisconnectAsyncPost(cl)
    /\ upc' = "spin"
    /\ attempts' = attempts + 1
    /\ UNCHANGED <<usize, nextByte, wire, inbound, peerSent>>

(* ... and connectAsync() once the disconnect handler has run.             *)
ReconnectAsyncResume ==
    /\ upc = "spin"
    /\ ~cl.connected /\ Room
    /\ cl' = ConnectAsyncCall(cl)
    /\ upc' = "idle"
    /\ UNCHANGED <<usize, nextByte, wire, inbound, peerSent, attempts>>

(* receiveAsync() from the user thread calls tryReceive directly           *)
(* (tcp_client.cxx:440-442), whatever state the client is in.             *)
CallReceiveAsync ==
    /\ "receiveAsync" \in Calls /\ upc = "idle"
    /\ cl' = TryReceive(cl)
    /\ UNCHANGED <<upc, usize, nextByte, wire, inbound, peerSent, attempts>>

(* The bytes the next send() or sendAsync() of n bytes hands over.        *)
Chunk(n) == [i \in 1..n |-> nextByte + i - 1]

(* sendAsync (tcp_client.cxx:404-438), first step: the isReady() check.    *)
SendAsyncBegin(n) ==
    /\ "sendAsync" \in Calls /\ upc = "idle"
    /\ Ready(cl)
    /\ nextByte - 1 + n <= MaxBytes
    /\ upc' = "lock"
    /\ usize' = n
    /\ UNCHANGED <<cl, nextByte, wire, inbound, peerSent, attempts>>

(* sendAsync, the section under _send_lock (tcp_client.cxx:409-424).       *)
(* The write completion clears _send_buff_flush without the lock, so      *)
(* while a write is outstanding flush.empty() may read either value.       *)
SendAsyncLocked ==
    LET chunk == Chunk(usize)
        writing == \E i \in 1..Len(cl.ops): cl.ops[i].op = "w"
    IN
    /\ upc = "lock"
    /\ \E flushEmpty \in IF writing THEN BOOLEAN ELSE {cl.flush = <<>>}:
         IF Len(cl.main) + usize > SendLimit /\ SendLimit > 0
         THEN /\ upc' = "idle"                     \* no_buffer_space
              /\ UNCHANGED <<cl, nextByte>>
         ELSE /\ cl' = [cl EXCEPT !.main = cl.main \o chunk,
                                  !.pending = Len(cl.main) + usize]
              /\ nextByte' = nextByte + usize
              /\ upc' = IF cl.main = <<>> \/ flushEmpty THEN "dispatch"
                        ELSE "idle"
    /\ UNCHANGED <<usize, wire, inbound, peerSent, attempts>>

(* sendAsync, last step (tcp_client.cxx:427-438): dispatch trySend, which  *)
(* from the user thread queues it.                                         *)
SendAsyncDispatch ==
    /\ upc = "dispatch" /\ Room
    /\ cl' = [cl EXCEPT !.q = Append(@, Handler("trySend", 0))]
    /\ upc' = "idle"
    /\ UNCHANGED <<usize, nextByte, wire, inbound, peerSent, attempts>>

(* send() with no timeout (tcp_client.cxx:243-256, 286-296): writeSome,   *)
(* asio::write of the whole buffer on the blocking socket, transfers k     *)
(* bytes and fails if k < n; then _bytes_sent and onSend, and on an error  *)
(* err and disconnect().                                                   *)
CallSendBlocking(n) ==
    /\ "send" \in Calls /\ upc = "idle"
    /\ Ready(cl)
    /\ nextByte - 1 + n <= MaxBytes
    /\ \E k \in 0..n:
         /\ k > 0 => cl.sockOpen /\ Len(wire) + k <= MaxWire
         /\ wire' = wire \o SubSeq(Chunk(n), 1, k)
         /\ LET c1 == [cl EXCEPT !.sent = @ + k]
            IN  cl' = IF k < n THEN Disconnect(c1) ELSE c1
    /\ nextByte' = nextByte + n
    /\ UNCHANGED <<upc, usize, inbound, peerSent, attempts>>

(* receive() with no timeout (tcp_client.cxx:299-312, 344-354): readSome  *)
(* blocks for 1..n of the bytes the peer has written, or fails (k = 0).   *)
(* The failure stands for a connection error (reset, end of stream),      *)
(* which the model lets happen at any time, as for every socket           *)
(* operation; a read that would block for ever is not a step.             *)
CallReceiveBlocking(n) ==
    /\ "receive" \in Calls /\ upc = "idle"
    /\ Ready(cl)
    /\ \E k \in 0..n:
         /\ k <= inbound
         /\ k > 0 => cl.sockOpen
         /\ inbound' = inbound - k
         /\ LET c1 == [cl EXCEPT !.received = @ + k]
            IN  cl' = IF k = 0 THEN Disconnect(c1) ELSE c1
    /\ UNCHANGED <<upc, usize, nextByte, wire, peerSent, attempts>>

(* Mutant: a timed call that tests isConnected() instead of isReady().    *)
CallTimedConnectedOnly(kind, n) ==
    /\ kind \in Calls /\ upc = "idle"
    /\ cl.connected
    /\ kind = "send" => nextByte - 1 + n <= MaxBytes
    /\ \E d \in DoneInits:
         cl' = [cl EXCEPT !.call = kind, !.done = d, !.err = "none",
                          !.ret = -1, !.timer = TRUE]
    /\ upc' = "issue"
    /\ usize' = n
    /\ UNCHANGED <<nextByte, wire, inbound, peerSent, attempts>>

(* send() or receive() with a timeout, first step (tcp_client.cxx:257-   *)
(* 278, 313-336): the frame's locals, with done uninitialised, and the     *)
(* timer armed.                                                            *)
CallTimed(kind, n) ==
    /\ kind \in Calls /\ upc = "idle"
    /\ Ready(cl)
    /\ kind = "send" => nextByte - 1 + n <= MaxBytes
    /\ \E d \in DoneInits:
         cl' = [cl EXCEPT !.call = kind, !.done = d, !.err = "none",
                          !.ret = -1, !.timer = TRUE]
    /\ upc' = "issue"
    /\ usize' = n
    /\ UNCHANGED <<nextByte, wire, inbound, peerSent, attempts>>

(* ... then asyncWriteSome of the buffer, or received = 0 and             *)
(* asyncReadSome (tcp_client.cxx:280, 337-338), and the wait on the        *)
(* condition variable.                                                     *)
SyncIssue ==
    /\ upc = "issue"
    /\ cl' = IF cl.call = "send"
             THEN [cl EXCEPT !.ops = Append(@, [op |-> "sw", buf |-> Chunk(usize),
                                                cap |-> 0])]
             ELSE [cl EXCEPT !.ret = 0,
                             !.ops = Append(@, [op |-> "sr", buf |-> <<>>,
                                                cap |-> usize])]
    /\ nextByte' = IF cl.call = "send" THEN nextByte + usize ELSE nextByte
    /\ upc' = "wait"
    /\ UNCHANGED <<usize, wire, inbound, peerSent, attempts>>

(* The user thread wakes once done == 2 (checked before the first wait)   *)
(* and reads sent / received, an indeterminate value if the lambda has not *)
(* stored it yet; it counts the bytes and on an error that is not          *)
(* timed_out calls err and disconnect() (tcp_client.cxx:282-296, 340-354). *)
(* The frame's locals die with it: the model resets them.                  *)
SyncReturnAt(c, v) ==
    LET c1 == IF c.call = "send" THEN [c EXCEPT !.sent = @ + v]
              ELSE [c EXCEPT !.received = @ + v]
        c2 == [c1 EXCEPT !.call = "none", !.done = 0, !.err = "none", !.ret = 0]
    IN  IF c.err = "error" THEN Disconnect(c2) ELSE c2

(* Mutant: a wait predicate satisfied by the first lambda.                *)
SyncReturnEarly ==
    /\ upc = "wait" /\ cl.done >= 1
    /\ \E v \in IF cl.ret = -1 THEN 0..usize ELSE {cl.ret}:
         cl' = SyncReturnAt(cl, v)
    /\ upc' = "idle"
    /\ UNCHANGED <<usize, nextByte, wire, inbound, peerSent, attempts>>

SyncReturn ==
    /\ upc = "wait" /\ cl.done = 2
    /\ \E v \in IF cl.ret = -1 THEN 0..usize ELSE {cl.ret}:
         cl' = SyncReturnAt(cl, v)
    /\ upc' = "idle"
    /\ UNCHANGED <<usize, nextByte, wire, inbound, peerSent, attempts>>

(* The io thread finishes the op's lambda: sent = s (received = read).    *)
StoreResult ==
    /\ cl.store >= 0
    /\ cl' = [cl EXCEPT !.ret = IF cl.call = "none" THEN @ ELSE cl.store,
                        !.store = -1]
    /\ UNCHANGED <<upc, usize, nextByte, wire, inbound, peerSent, attempts>>

(* The call's timer expires and queues its completion.                     *)
TimerExpire ==
    /\ cl.timer
    /\ cl' = [cl EXCEPT !.timer = FALSE, !.q = Append(@, Handler("tdone", 1))]
    /\ UNCHANGED <<upc, usize, nextByte, wire, inbound, peerSent, attempts>>

(* The io thread runs the handler at the head of the queue, once it has   *)
(* finished the lambda it was in.                                          *)
RunHandler ==
    /\ cl.q # <<>> /\ cl.store = -1 /\ ~cl.ioDead
    /\ cl' = RunAt([cl EXCEPT !.q = Tail(@)], Head(cl.q))
    /\ UNCHANGED <<upc, usize, nextByte, wire, inbound, peerSent, attempts>>

(* Finishing operation i of the socket queues its completion with k.       *)
Finish(i, k) ==
    [cl EXCEPT !.ops = RemoveAt(@, i),
               !.q = Append(@, Handler(DoneOf[cl.ops[i].op], k))]

(* async_connect finishes: it connects a closed socket to a new peer      *)
(* (k = 1), or fails.                                                      *)
ConnectDone(i) ==
    /\ cl.ops[i].op = "c"
    /\ \E k \in IF cl.sockOpen THEN {0} ELSE {0, 1}:
         /\ cl' = [Finish(i, k) EXCEPT !.sockOpen = (k = 1)]
         /\ IF k = 1 THEN NewPeer ELSE UNCHANGED <<wire, inbound>>
    /\ UNCHANGED <<upc, usize, nextByte, peerSent, attempts>>

(* A write finishes: its first k bytes reach the peer, or it fails (k=0).  *)
WriteDone(i) ==
    /\ cl.ops[i].op \in {"w", "sw"}
    /\ \E k \in 0..Len(cl.ops[i].buf):
         /\ k > 0 => cl.sockOpen /\ Len(wire) + k <= MaxWire
         /\ wire' = wire \o SubSeq(cl.ops[i].buf, 1, k)
         /\ cl' = Finish(i, k)
    /\ UNCHANGED <<upc, usize, nextByte, inbound, peerSent, attempts>>

(* A read finishes with k of the bytes the peer has written, or fails      *)
(* (k = 0: eof or reset).                                                  *)
ReadDone(i) ==
    /\ cl.ops[i].op \in {"r", "sr"}
    /\ \E k \in 0..cl.ops[i].cap:
         /\ k <= inbound
         /\ k > 0 => cl.sockOpen
         /\ inbound' = inbound - k
         /\ cl' = Finish(i, k)
    /\ UNCHANGED <<upc, usize, nextByte, wire, peerSent, attempts>>

(* A handshake finishes, successful (k = 1) only on an open socket, or a   *)
(* TLS shutdown finishes; shutdown_handler ignores its error code, so its  *)
(* completion carries none.                                                *)
SecureDone(i) ==
    /\ cl.ops[i].op \in {"h", "s"}
    /\ \E k \in IF cl.ops[i].op = "h" /\ cl.sockOpen THEN {0, 1} ELSE {0}:
         cl' = Finish(i, k)
    /\ UNCHANGED <<upc, usize, nextByte, wire, inbound, peerSent, attempts>>

(* The peer writes one byte towards the client.                            *)
PeerWrite ==
    /\ cl.sockOpen
    /\ peerSent < MaxInbound
    /\ inbound' = inbound + 1
    /\ peerSent' = peerSent + 1
    /\ UNCHANGED <<cl, upc, usize, nextByte, wire, attempts>>

Next ==
    \/ \E ok \in BOOLEAN: CallConnect(ok) \/ CallReconnect(ok) \/ HandshakeSync(ok)
    \/ HandshakeSyncReturn
    \/ CallConnectAsync \/ CallDisconnect \/ CallDisconnectAsync
    \/ CallReconnectAsync \/ ReconnectAsyncResume \/ CallReceiveAsync
    \/ \E n \in ChunkSizes: SendAsyncBegin(n)
    \/ SendAsyncLocked \/ SendAsyncDispatch
    \/ \E n \in SyncSizes: \/ CallSendBlocking(n) \/ CallReceiveBlocking(n)
                           \/ \E kind \in {"send", "receive"}: CallTimed(kind, n)
    \/ SyncIssue \/ SyncReturn \/ StoreResult \/ TimerExpire
    \/ RunHandler
    \/ \E i \in 1..Len(cl.ops): ConnectDone(i) \/ WriteDone(i) \/ ReadDone(i)
                              \/ SecureDone(i)
    \/ PeerWrite

(* The io thread runs every queued handler and finishes a lambda; the    *)
(* operating system finishes every connect, write, handshake and shutdown *)
(* (the peer answers, or the operation fails) and expires every timer;    *)
(* the user thread finishes a call it is inside.  Nothing obliges the user *)
(* to call, the peer to write, or a read on an idle connection to finish;  *)
(* a read does finish once the peer has written bytes, or at once on a     *)
(* closed socket.                                                          *)
Fairness ==
    /\ WF_vars(RunHandler)
    /\ WF_vars(\E i \in 1..Len(cl.ops): ConnectDone(i))
    /\ WF_vars(\E i \in 1..Len(cl.ops): WriteDone(i))
    /\ WF_vars(\E i \in 1..Len(cl.ops): SecureDone(i))
    /\ WF_vars((inbound > 0 \/ ~cl.sockOpen) /\ \E i \in 1..Len(cl.ops): ReadDone(i))
    /\ WF_vars(SendAsyncLocked) /\ WF_vars(SendAsyncDispatch)
    /\ WF_vars(ReconnectAsyncResume)
    /\ WF_vars(SyncIssue) /\ WF_vars(SyncReturn) /\ WF_vars(StoreResult)
    /\ WF_vars(TimerExpire)

Spec == Init /\ [][Next]_vars /\ Fairness

-----------------------------------------------------------------------------
(* The operations of each kind on the socket, issued or finished with      *)
(* their completion still queued.                                          *)
OpsOf(kind) ==
    Len(SelectSeq(cl.ops, LAMBDA o: o.op = kind))
    + Len(SelectSeq(cl.q, LAMBDA hd: hd.h = DoneOf[kind]))

(* Spec section 3: at most one write and one read (and one connect, one   *)
(* handshake) are outstanding per Client.  The _sending / _receiving /     *)
(* _connecting / _handshaking flags must not be cleared while an operation *)
(* they stand for is still in flight, whether by a completion, by          *)
(* disconnect() or by connect().                                           *)
AtMostOneOp == \A kind \in {"c", "w", "r", "h"}: OpsOf(kind) <= 1

(* Bytes written by finished writes whose completion has not run yet.      *)
WrittenUnhandled ==
    FoldFunction(LAMBDA hd, acc: hd.k + acc, 0,
                 SelectSeq(cl.q, LAMBDA hd: hd.h = "wdone"))

(* The byte counters agree with the buffers: _bytes_sending is the        *)
(* unwritten part of the flush buffer, and, while connected, _bytes_sent   *)
(* with the writes whose completion is still queued is what this          *)
(* connection's peer has received.                                         *)
Accounting ==
    /\ cl.inflight = Len(cl.flush) - cl.offset
    /\ cl.connected => cl.sent + WrittenUnhandled = Len(wire)

(* Spec section 8: a send accepted before a disconnect is either written  *)
(* or dropped by clearBuffs; none is left in the main buffer of a         *)
(* disconnected client, to be written to the next peer it connects to.    *)
NoStrandedBytes == (~cl.connected /\ upc = "idle") => cl.main = <<>>

(* onConnect is called once for every connection the client establishes   *)
(* (spec section 4.4: connect_async "fires on_connect").                   *)
ConnectNotifiedOnce == cl.onConnects = cl.established

(* Spec section 8: the peer of a connection receives the bytes sendAsync   *)
(* accepted in order, each once: consecutive bytes on one connection are   *)
(* consecutive accepted bytes.                                             *)
InOrder == \A i \in 1..(Len(wire) - 1): wire[i + 1] = wire[i] + 1

(* A connection attempt started by connectAsync eventually settles: the   *)
(* connect completion clears _connecting, and for an SSL::Client the       *)
(* handshake completion clears _handshaking, whether they succeeded or not.*)
ConnectSettles ==
    (cl.connecting \/ cl.handshaking) ~> ~(cl.connecting \/ cl.handshaking)

(* The receive loop keeps reading: bytes the peer has written to a ready  *)
(* client are eventually all read, unless the client stops being ready.   *)
(* The connect completion, the handshake completion and every read        *)
(* completion issue the next read (tryReceive, tcp_client.cxx:392).        *)
PeerBytesRead == (Ready(cl) /\ inbound > 0) ~> (inbound = 0 \/ ~Ready(cl))

(* reconnectAsync returns: the disconnect handler it posted runs, so the   *)
(* spin on isConnected() ends.                                             *)
ReconnectAsyncReturns == (upc = "spin") ~> (upc = "idle")

(* There are never more onDisconnect calls than connection attempts: each *)
(* attempt is reported at most once, when it fails or when its connection  *)
(* ends (spec section 5: on_disconnect is invoked exactly once per         *)
(* lifecycle pass).  The bound is on the totals; a second report of one    *)
(* attempt shows up as soon as no later attempt makes up for it.           *)
DisconnectNotifiedOnce == cl.onDisconnects <= attempts

(* Spec section 2: an SSL::Client emits and reads user data only when     *)
(* ready: no write or read, asynchronous or of a send() or receive() with  *)
(* a timeout, is pending on the open TLS stream before the                 *)
(* handshake has completed, e.g. by a trySend or a read completion queued  *)
(* for an earlier connection.                                              *)
HandshakeBeforeData ==
    cl.tls => \A i \in 1..Len(cl.ops):
                (cl.ops[i].op \in {"w", "r", "sw", "sr"} /\ cl.sockOpen)
                    => cl.handshaked

(* SSL::Client sets _handshaked only on a connected client: disconnect()   *)
(* clears it (service.cxx:229), and connect() and connectAsync() refuse    *)
(* while it is set (service.cxx:277, 375), so a _handshaked left on a      *)
(* closed client would refuse every later connect.                         *)
HandshakedConnected == cl.handshaked => cl.connected

(* Spec section 3 (cancellation and timeouts): a send() or receive() with  *)
(* a timeout returns only once "the loser resolves as cancelled": when the *)
(* call has returned, neither its operation nor its timer is pending and   *)
(* no completion of theirs is queued, since their lambdas use the call's   *)
(* stack frame by reference (tcp_client.cxx:264-283, 320-342).             *)
NoOrphanCompletion ==
    cl.call = "none" =>
        /\ ~cl.timer
        /\ \A i \in 1..Len(cl.ops): cl.ops[i].op \notin {"sw", "sr"}
        /\ \A i \in 1..Len(cl.q): cl.q[i].h \notin {"swdone", "srdone", "tdone"}

(* Spec section 3: a send() or receive() with a timeout cancels "the       *)
(* socket's outstanding op", its own, and the timer.  Its handler's        *)
(* socket().cancel() (tcp_client.cxx:268, 324) must not abort the receive  *)
(* loop's read or a trySend write, whose failed completions disconnect     *)
(* the client.                                                             *)
TimedCallSparesOthers == ~cl.collateral

=============================================================================
