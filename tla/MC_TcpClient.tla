---------------------------- MODULE MC_TcpClient ----------------------------
(* Model-checking instance of TcpClient.  Chunks of one and two bytes so   *)
(* that a flush buffer holds several bytes and a write can be partial; a   *)
(* one-byte receive buffer that doubles once to the two-byte limit; two    *)
(* connection attempts so that a connection follows a disconnected one.    *)
EXTENDS TcpClient, TLC

(* The asynchronous API, as the echo examples and the stress test use it. *)
MCAsyncCalls == {"connectAsync", "disconnectAsync", "reconnectAsync",
                 "sendAsync", "receiveAsync"}
(* The blocking connect / disconnect / reconnect and send / receive, with *)
(* and without a timeout; receiving is started by receiveAsync, since the *)
(* blocking connect does not start it.                                     *)
MCSyncCalls  == {"connect", "disconnect", "reconnect", "send", "receive"}
(* ... with the receive loop started by receiveAsync.                     *)
MCSyncCallsR == {"connect", "disconnect", "reconnect",
                 "receiveAsync", "send", "receive"}
(* The blocking connect / disconnect / reconnect with sendAsync and       *)
(* receiveAsync.                                                           *)
MCSyncAsyncCalls == {"connect", "disconnect", "reconnect", "sendAsync",
                     "receiveAsync"}

MCChunkSizes == {1, 2}
MCMaxBytes   == 3
(* One-byte buffers for send and receive.                                 *)
MCSyncSizes  == {1}
(* Two bytes for the runs with both client classes: still a two-byte       *)
(* chunk that can be written partially.                                    *)
MCMaxBytesSmall == 2
MCSendLimit  == 0
MCRecvInit   == 1
MCRecvLimit  == 2
MCMaxInbound == 2
MCMaxWire    == 4
MCMaxConns   == 2
MCMaxQueue   == 2

(* Tcp::Client and SSL::Client objects, or one class alone.                *)
MCTlsBoth == {FALSE, TRUE}
MCTcpOnly == {FALSE}
MCTlsOnly == {TRUE}

(* done of a timed call as the session's copy of the code initialises it, *)
(* or holding what an uninitialised int can: 0, 1, 2 (the wait predicate  *)
(* already true) or any other value (3: done never reaches 2).             *)
MCDoneInit == {0}
MCDoneAny  == {0, 1, 2, 3}

=============================================================================
