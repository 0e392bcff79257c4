----------------------------- MODULE TcpSession -----------------------------
(***************************************************************************)
(* The data path of one server-side Session (src/source/core/tcp/          *)
(* tcp_session.cxx): the double-buffered asynchronous send (sendAsync,     *)
(* trySend and the write completion), the receive loop with buffer         *)
(* doubling and its limit (tryReceive and the read completion), connect    *)
(* and the posted disconnect handler.                                      *)
(*                                                                         *)
(* Actors.  User threads call sendAsync and disconnect from outside the    *)
(* Session's io_service; the io thread (or the strand) runs posted         *)
(* handlers in FIFO order and socket completions, one at a time.  A byte   *)
(* is a natural number: the k-th byte ever appended to the send buffer is  *)
(* k, so the byte stream the user submitted is 1..nextByte-1.              *)
(*                                                                         *)
(* ses.tls selects SSL::Session (ssl_session.cxx), which overrides only    *)
(* the constructor and connect.  Its accepted connection lives in _stream  *)
(* (socket() returns _stream.next_layer()), while the inherited tryReceive,*)
(* trySend and disconnect handler use the member _socket, which its        *)
(* constructor closed: sockOpen is _socket, streamOpen the TLS stream's.   *)
(* Its connect() therefore throws before it marks the Session connected.   *)
(***************************************************************************)
EXTENDS Integers, Sequences, SequencesExt

CONSTANTS
    Users,       \* user threads that call sendAsync / disconnect
    ChunkSizes,  \* sizes of the buffers handed to sendAsync
    MaxBytes,    \* bound: total bytes submitted by all users
    SendLimit,   \* _send_limit (0 = unlimited)
    RecvInit,    \* receive buffer size read from the socket option at connect
    RecvLimit,   \* _receive_limit (0 = unlimited)
    MaxInbound,  \* bound: total bytes the peer sends to the session
    MaxQueue,    \* bound: posted handlers waiting in the io queue
    SyncSizes,   \* sizes handed to send() by onReceived
    MaxSyncSends,\* bound: send() calls made by onReceived
    TlsModes     \* the Session classes: FALSE Tcp::Session, TRUE SSL::Session

VARIABLES
    ses,       \* the Session object's fields (a record, see SessionInit)
    ioq,       \* handlers posted to the Session's io_service, FIFO
    upc,       \* per user thread: where it is inside sendAsync
    usize,     \* per user thread: size of the buffer it is sending
    nextByte,  \* history: the next byte number sendAsync will append
    wire,      \* bytes the peer has received, in order
    inbound    \* bytes the peer has written that the session has not read

vars == <<ses, ioq, upc, usize, nextByte, wire, inbound>>

-----------------------------------------------------------------------------
(* The record of Session fields.  wops and rops are the socket operations  *)
(* issued and not yet completed: the buffer handed to async_write_some and *)
(* the capacity handed to async_read_some.                                 *)
SessionInit ==
    [ tls          |-> FALSE,   \* the object is an SSL::Session
      accepted     |-> FALSE,   \* the acceptor has bound a peer to socket()
      sockOpen     |-> FALSE,   \* _socket is open
      streamOpen   |-> FALSE,   \* the TLS stream's socket is open (SSL)
      connected    |-> FALSE,   \* _connected
      sending      |-> FALSE,   \* _sending
      receiving    |-> FALSE,   \* _receiving
      main         |-> <<>>,    \* _send_buff_main
      flush        |-> <<>>,    \* _send_buff_flush
      offset       |-> 0,       \* _send_flush_offset
      pending      |-> 0,       \* _bytes_pending
      inflight     |-> 0,       \* _bytes_sending
      sent         |-> 0,       \* _bytes_sent
      received     |-> 0,       \* _bytes_received
      rbuf         |-> 0,       \* _receive_buff.size()
      wops         |-> <<>>,
      rops         |-> <<>>,
      syncs        |-> 0,       \* send() calls made by onReceived (history)
      disconnects  |-> 0 ]      \* onDisconnect calls (history)

(* Mutant: the write restarts at the beginning of the flush buffer, as     *)
(* Client::trySend does (tcp_client.cxx:494).                              *)
WriteBufFromStart(s) == s.flush

(* The unwritten tail of the flush buffer, which trySend hands to          *)
(* async_write_some (tcp_session.cxx:396-405).                             *)
WriteBuf(s) == SubSeq(s.flush, s.offset + 1, Len(s.flush))

(* Mutant: trySend without the _sending check.                            *)
TrySendUnguarded(s) ==
    IF ~s.connected THEN s
    ELSE LET s1 == IF s.flush = <<>>
                   THEN [s EXCEPT !.flush = s.main, !.main = <<>>,
                                  !.offset = 0, !.pending = 0,
                                  !.inflight = s.inflight + Len(s.main)]
                   ELSE s
         IN  IF s1.flush = <<>> THEN s1
             ELSE [s1 EXCEPT !.sending = TRUE,
                             !.wops = Append(s1.wops, WriteBuf(s1))]

(* Session::trySend (tcp_session.cxx:344-406).  When the flush buffer is   *)
(* empty, swap it with the main buffer under the lock; when there is       *)
(* something to write, set _sending and issue one write_some.              *)
TrySend(s) ==
    IF s.sending \/ ~s.connected THEN s
    ELSE LET s1 == IF s.flush = <<>>
                   THEN [s EXCEPT !.flush = s.main, !.main = <<>>,
                                  !.offset = 0, !.pending = 0,
                                  !.inflight = s.inflight + Len(s.main)]
                   ELSE s
         IN  IF s1.flush = <<>> THEN s1          \* onEmpty()
             ELSE [s1 EXCEPT !.sending = TRUE,
                             !.wops = Append(s1.wops, WriteBuf(s1))]

(* Session::tryReceive (tcp_session.cxx:300-342).                          *)
TryReceive(s) ==
    IF s.receiving \/ ~s.connected THEN s
    ELSE [s EXCEPT !.receiving = TRUE, !.rops = Append(s.rops, s.rbuf)]

(* Mutant: clearBuffs that forgets _bytes_sending.                        *)
ClearBuffsKeepInflight(s) ==
    [s EXCEPT !.main = <<>>, !.flush = <<>>, !.offset = 0, !.pending = 0]

(* Session::clearBuffs (tcp_session.cxx:408-415).                          *)
ClearBuffs(s) ==
    [s EXCEPT !.main = <<>>, !.flush = <<>>,
              !.offset = 0, !.pending = 0, !.inflight = 0]

(* Mutant: the disconnect handler without its isConnected() re-check.     *)
DisconnectHandlerNoRecheck(s) ==
    ClearBuffs([s EXCEPT !.sockOpen = FALSE, !.connected = FALSE,
                         !.receiving = FALSE, !.sending = FALSE,
                         !.disconnects = s.disconnects + 1])

(* The handler posted or dispatched by Session::disconnect                 *)
(* (tcp_session.cxx:81-103): close the socket, clear the flags and the     *)
(* buffers, call onDisconnect.  Unregistering from the Server is modelled  *)
(* in TcpServer.                                                           *)
DisconnectHandler(s) ==
    IF ~s.connected THEN s
    ELSE ClearBuffs([s EXCEPT !.sockOpen = FALSE, !.connected = FALSE,
                              !.receiving = FALSE, !.sending = FALSE,
                              !.disconnects = s.disconnects + 1])

(* Session::connect (tcp_session.cxx:54-74), called by the Server's accept *)
(* completion: size the receive buffer, zero the counters, mark connected  *)
(* and arm the first read.                                                 *)
ConnectSession(s) ==
    TryReceive([s EXCEPT !.accepted = TRUE, !.sockOpen = TRUE,
                         !.rbuf = RecvInit, !.inflight = 0, !.sent = 0,
                         !.pending = 0, !.received = 0, !.connected = TRUE])

(* SSL::Session::connect (ssl_session.cxx:27-31) on the connection the     *)
(* acceptor bound to _stream: the socket options are set on socket(), the  *)
(* stream's socket, and then the non-virtual receiveBufferSize()           *)
(* (tcp_session.cxx:32-36) queries the member _socket, closed by the       *)
(* constructor, and throws.  _connected is never set, no read is armed and *)
(* async_handshake (line 78) is never reached; the exception leaves the    *)
(* Server's accept completion (TcpServer, Service).                        *)
SslConnectSession(s) == [s EXCEPT !.accepted = TRUE, !.streamOpen = TRUE]

(* Mutant: the write completion subtracts the size of the buffer it wrote  *)
(* from _bytes_sending instead of the bytes transferred.                   *)
OnWrittenSubtractsRequested(s, k) ==
    LET s1 == [s EXCEPT !.sending = FALSE, !.wops = Tail(s.wops)]
        s2 == IF k = 0 THEN s1
              ELSE LET s3 == [s1 EXCEPT !.inflight = s1.inflight - Len(Head(s.wops)),
                                        !.sent = s1.sent + k,
                                        !.offset = s1.offset + k]
                   IN  IF s3.offset = Len(s3.flush)
                       THEN [s3 EXCEPT !.flush = <<>>, !.offset = 0]
                       ELSE s3
    IN  IF ~s.connected THEN s1
        ELSE IF k > 0 THEN TrySend(s2)
        ELSE DisconnectHandler(s2)

(* The write completion handler (tcp_session.cxx:365-394) for a write of   *)
(* buffer b that transferred k bytes, or failed when k = 0.                *)
OnWritten(s, k) ==
    LET s1 == [s EXCEPT !.sending = FALSE, !.wops = Tail(s.wops)]
        s2 == IF k = 0 THEN s1
              ELSE LET s3 == [s1 EXCEPT !.inflight = s1.inflight - k,
                                        !.sent = s1.sent + k,
                                        !.offset = s1.offset + k]
                   IN  IF s3.offset = Len(s3.flush)
                       THEN [s3 EXCEPT !.flush = <<>>, !.offset = 0]
                       ELSE s3
    IN  IF ~s.connected THEN s1
        ELSE IF k > 0 THEN TrySend(s2)
        ELSE DisconnectHandler(s2)          \* err(); disconnect(true)

(* Mutant: the read completion doubles the buffer without the limit check. *)
OnReadNoLimit(s, k) ==
    LET s1 == [s EXCEPT !.receiving = FALSE, !.rops = Tail(s.rops)]
        s2 == [s1 EXCEPT !.received = s1.received + k]
    IN  IF ~s.connected THEN s1
        ELSE IF k = 0 THEN DisconnectHandler(s1)
        ELSE TryReceive(IF s1.rbuf = k THEN [s2 EXCEPT !.rbuf = k * 2] ELSE s2)

(* Mutant: a successful read does not issue the next one.                 *)
OnReadNoRearm(s, k) ==
    LET s1 == [s EXCEPT !.receiving = FALSE, !.rops = Tail(s.rops)]
        s2 == [s1 EXCEPT !.received = s1.received + k]
        overLimit == s1.rbuf = k /\ k * 2 > RecvLimit /\ RecvLimit > 0
    IN  IF ~s.connected THEN s1
        ELSE IF k = 0 THEN DisconnectHandler(s1)
        ELSE IF overLimit THEN DisconnectHandler(s2)
        ELSE IF s1.rbuf = k THEN [s2 EXCEPT !.rbuf = k * 2] ELSE s2

(* The read completion handler (tcp_session.cxx:306-336) for a read that   *)
(* returned k bytes, or failed when k = 0.  A read that fills the buffer   *)
(* doubles it, unless doubling exceeds the receive limit.                  *)
OnRead(s, k) ==
    LET s1 == [s EXCEPT !.receiving = FALSE, !.rops = Tail(s.rops)]
        s2 == [s1 EXCEPT !.received = s1.received + k]
        overLimit == s1.rbuf = k /\ k * 2 > RecvLimit /\ RecvLimit > 0
    IN  IF ~s.connected THEN s1
        ELSE IF k = 0 THEN DisconnectHandler(s1)
        ELSE IF overLimit THEN DisconnectHandler(s2)
        ELSE TryReceive(IF s1.rbuf = k THEN [s2 EXCEPT !.rbuf = k * 2] ELSE s2)

(* send(buffer, n) without a timeout (tcp_session.cxx:121-137 and        *)
(* 168-182) called by onReceived, so on the io thread: asio::write blocks  *)
(* until the n bytes are written or the socket fails after w of them.      *)
(* Byte 0 stands for bytes of send(), which bypass the send buffers.       *)
(* A failure posts disconnect().  The read completion is still running, so *)
(* no other write completion updates _bytes_sent meanwhile.                *)
SendBlocking(s, n, w) ==
    [s EXCEPT !.sent = s.sent + w, !.syncs = s.syncs + 1]

-----------------------------------------------------------------------------
Init ==
    /\ \E tls \in TlsModes: ses = [SessionInit EXCEPT !.tls = tls]
    /\ ioq = <<>>
    /\ upc = [u \in Users |-> "idle"]
    /\ usize = [u \in Users |-> 0]
    /\ nextByte = 1
    /\ wire = <<>>
    /\ inbound = 0

(* Server::accept's completion registers the session and calls connect().  *)
Connect ==
    /\ ~ses.accepted
    /\ ses' = IF ses.tls THEN SslConnectSession(ses) ELSE ConnectSession(ses)
    /\ UNCHANGED <<ioq, upc, usize, nextByte, wire, inbound>>

(* Bytes of the sendAsync calls that have passed the connected check and   *)
(* not yet appended; they count against MaxBytes.                          *)
Reserved == SumFunctionOnSet(usize, {u \in Users: upc[u] = "lock"})

(* sendAsync, first step (tcp_session.cxx:185-193): the unlocked           *)
(* isConnected() check.                                                    *)
SendAsyncBegin(u, n) ==
    /\ upc[u] = "idle"
    /\ ses.connected
    /\ nextByte - 1 + Reserved + n <= MaxBytes
    /\ upc' = [upc EXCEPT ![u] = "lock"]
    /\ usize' = [usize EXCEPT ![u] = n]
    /\ UNCHANGED <<ses, ioq, nextByte, wire, inbound>>

(* sendAsync, the section under _send_lock (tcp_session.cxx:195-212).      *)
(* _send_buff_flush is cleared by the write completion without the lock    *)
(* (line 380), so while a write is outstanding the read of                 *)
(* flush.empty() races with it and may see either value.                   *)
SendAsyncLocked(u) ==
    LET n == usize[u]
        chunk == [i \in 1..n |-> nextByte + i - 1]
    IN
    /\ upc[u] = "lock"
    /\ \E flushEmpty \in IF ses.wops # <<>> THEN BOOLEAN
                         ELSE {ses.flush = <<>>}:
         LET multipleSends == ses.main = <<>> \/ flushEmpty IN
         IF Len(ses.main) + n > SendLimit /\ SendLimit > 0
         THEN /\ upc' = [upc EXCEPT ![u] = "idle"]   \* no_buffer_space
              /\ UNCHANGED <<ses, nextByte>>
         ELSE /\ ses' = [ses EXCEPT !.main = ses.main \o chunk,
                                    !.pending = Len(ses.main) + n]
              /\ nextByte' = nextByte + n
              /\ upc' = [upc EXCEPT ![u] = IF multipleSends THEN "dispatch"
                                                             ELSE "idle"]
    /\ UNCHANGED <<ioq, usize, wire, inbound>>

(* sendAsync, last step (tcp_session.cxx:214-222): dispatch trySend.  The  *)
(* caller is not on the io thread, so the handler is queued.               *)
SendAsyncDispatch(u) ==
    /\ upc[u] = "dispatch"
    /\ Len(ioq) < MaxQueue
    /\ ioq' = Append(ioq, "trySend")
    /\ upc' = [upc EXCEPT ![u] = "idle"]
    /\ UNCHANGED <<ses, usize, nextByte, wire, inbound>>

(* Session::disconnect() from a user thread (tcp_session.cxx:76-119):      *)
(* when connected, post the disconnect handler.                            *)
Disconnect ==
    /\ ses.connected
    /\ Len(ioq) < MaxQueue
    /\ ioq' = Append(ioq, "disconnect")
    /\ UNCHANGED <<ses, upc, usize, nextByte, wire, inbound>>

(* The io thread runs the handler at the head of its queue.                *)
RunHandler ==
    /\ ioq # <<>>
    /\ ses' = IF Head(ioq) = "trySend" THEN TrySend(ses)
              ELSE DisconnectHandler(ses)
    /\ ioq' = Tail(ioq)
    /\ UNCHANGED <<upc, usize, nextByte, wire, inbound>>

(* The outstanding write completes: k bytes reach the peer, or it fails    *)
(* (k = 0); once the socket is closed it can only be aborted.              *)
WriteComplete ==
    /\ ses.wops # <<>>
    /\ \E k \in 0..Len(Head(ses.wops)):
         /\ ses.sockOpen \/ k = 0
         /\ wire' = wire \o SubSeq(Head(ses.wops), 1, k)
         /\ ses' = OnWritten(ses, k)
    /\ UNCHANGED <<ioq, upc, usize, nextByte, inbound>>

(* The outstanding read completes with k of the bytes the peer has         *)
(* written, or fails (k = 0: eof, reset, or aborted by close).             *)
ReadComplete ==
    /\ ses.rops # <<>>
    /\ \E k \in 0..Head(ses.rops):
         /\ k <= inbound
         /\ ses.sockOpen \/ k = 0
         /\ inbound' = inbound - k
         /\ ses' = OnRead(ses, k)
    /\ UNCHANGED <<ioq, upc, usize, nextByte, wire>>

(* The read completion of k > 0 bytes, whose onReceived (line 316) calls  *)
(* send(buffer, n) before the buffer is resized and the next read issued:  *)
(* the _socket the peer is connected to takes w of the n bytes.            *)
ReadCompleteSend ==
    /\ ses.rops # <<>>
    /\ ses.connected
    /\ ses.syncs < MaxSyncSends
    /\ \E k \in 1..Head(ses.rops), n \in SyncSizes: \E w \in 0..n:
         /\ k <= inbound
         /\ ses.sockOpen
         /\ w < n => Len(ioq) < MaxQueue
         /\ inbound' = inbound - k
         /\ wire' = wire \o [i \in 1..w |-> 0]
         /\ ioq' = IF w < n THEN Append(ioq, "disconnect") ELSE ioq
         /\ ses' = OnRead(SendBlocking(ses, n, w), k)
    /\ UNCHANGED <<upc, usize, nextByte>>

(* The socket the acceptor bound to the Session: _socket for a             *)
(* Tcp::Session, the stream's for an SSL::Session.                         *)
PeerOpen(s) == IF s.tls THEN s.streamOpen ELSE s.sockOpen

(* The peer writes one byte towards the session.                           *)
PeerWrite(total) ==
    /\ PeerOpen(ses)
    /\ total < MaxInbound
    /\ inbound' = inbound + 1
    /\ UNCHANGED <<ses, ioq, upc, usize, nextByte, wire>>

Next ==
    \/ Connect
    \/ \E u \in Users, n \in ChunkSizes: SendAsyncBegin(u, n)
    \/ \E u \in Users: SendAsyncLocked(u) \/ SendAsyncDispatch(u)
    \/ Disconnect
    \/ RunHandler
    \/ WriteComplete
    \/ ReadComplete
    \/ ReadCompleteSend
    \/ PeerWrite(ses.received + inbound)

(* The io thread runs every queued handler and a user thread inside        *)
(* sendAsync finishes the call; the peer keeps reading, so an issued write *)
(* completes.                                                              *)
(* Nothing obliges a user to call, the peer to write, or a read on an     *)
(* idle connection to complete.  An outstanding read does complete once   *)
(* the peer has written bytes, or at once when its socket is closed: the *)
(* operating system finishes it.                                           *)
Fairness ==
    /\ WF_vars(RunHandler)
    /\ WF_vars(ReadComplete /\ (inbound > 0 \/ ~ses.sockOpen))
    /\ WF_vars(WriteComplete)
    /\ \A u \in Users: WF_vars(SendAsyncLocked(u)) /\ WF_vars(SendAsyncDispatch(u))

Spec == Init /\ [][Next]_vars /\ Fairness

-----------------------------------------------------------------------------
TypeOK ==
    /\ ses.connected \in BOOLEAN /\ ses.sending \in BOOLEAN
    /\ ses.main \in Seq(1..MaxBytes) /\ ses.flush \in Seq(1..MaxBytes)
    /\ ses.offset \in 0..MaxBytes /\ ses.rbuf \in Nat
    /\ ses.pending \in 0..MaxBytes /\ ses.inflight \in 0..MaxBytes
    /\ ioq \in Seq({"trySend", "disconnect"})
    /\ upc \in [Users -> {"idle", "lock", "dispatch"}]
    /\ nextByte \in 1..(MaxBytes + 1)
    /\ wire \in Seq(0..MaxBytes)
    /\ inbound \in 0..MaxInbound

(* At most one write and one read are outstanding on the socket: the       *)
(* _sending and _receiving flags, set before trySend / tryReceive issue an *)
(* operation and cleared by its completion or by disconnect, keep a        *)
(* second trySend queued by sendAsync from issuing a concurrent write.     *)
AtMostOneOp ==
    /\ Len(ses.wops) <= 1
    /\ Len(ses.rops) <= 1

(* The byte counters agree with the buffers: _bytes_pending is the size of *)
(* the main buffer, _bytes_sending the unwritten tail of the flush buffer, *)
(* and _bytes_sent what the peer has received.  sendAsync, the swap in     *)
(* trySend, the write completion and clearBuffs each update a part of it.  *)
Accounting ==
    /\ ses.pending = Len(ses.main)
    /\ ses.inflight = Len(ses.flush) - ses.offset
    /\ ses.sent = Len(wire)

(* onDisconnect runs at most once, although the user, a failed write and a *)
(* failed read may each queue or dispatch a disconnect handler.            *)
DisconnectOnce == ses.disconnects <= 1

(* Every outstanding read targets the buffer as it is now (the completion  *)
(* resizes it only after the read has returned), and doubling never makes  *)
(* the buffer larger than the configured receive limit.                    *)
ReceiveBufferSafe ==
    /\ \A i \in 1..Len(ses.rops): ses.rops[i] = ses.rbuf
    /\ RecvLimit > 0 => ses.rbuf <= Max({RecvInit, RecvLimit})

(* Spec section 8: a send issued before a disconnect is either transmitted *)
(* or dropped by clearBuffs.  Once the session is disconnected and no user *)
(* is inside sendAsync, nothing is left in the main buffer.                *)
NoStrandedBytes ==
    (ses.accepted /\ ~ses.connected /\ \A u \in Users: upc[u] = "idle")
        => ses.main = <<>>

(* The receive loop keeps reading: bytes the peer has written to the      *)
(* Session are eventually all read, unless the Session disconnects.  The   *)
(* read completion issues the next async_read_some (tryReceive, line 330) after *)
(* onReceived, a blocking send() and the buffer doubling.                  *)
PeerBytesRead ==
    (ses.connected /\ inbound > 0) ~> (inbound = 0 \/ ~ses.connected)

-----------------------------------------------------------------------------
(* The Session implements an ordered byte stream (ByteStream): what the    *)
(* peer receives is always a prefix of what sendAsync accepted, and while  *)
(* the session stays connected every accepted byte is eventually written.  *)
Phase == IF ~ses.accepted THEN "new"
         ELSE IF ses.connected THEN "open" ELSE "closed"

Stream == INSTANCE ByteStream WITH
    submitted <- nextByte - 1, delivered <- SelectSeq(wire, LAMBDA b: b > 0),
    phase <- Phase

StreamSpec == Stream!Spec

-----------------------------------------------------------------------------
(* Spec section 4.5: a Session the acceptor has bound a peer to is either  *)
(* connected, so that its disconnect handler will close that peer's        *)
(* socket, or has already closed it: no accepted connection is left open   *)
(* by a Session that disconnect() refuses (isConnected() false).           *)
PeerClosedOnDisconnect == (ses.accepted /\ ~ses.connected) => ~PeerOpen(ses)

=============================================================================
