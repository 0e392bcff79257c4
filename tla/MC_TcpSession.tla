--------------------------- MODULE MC_TcpSession ---------------------------
(* Model-checking instance of TcpSession: two user threads, chunks of one  *)
(* and two bytes so that a write can be partial and a send can overflow a  *)
(* three-byte send limit, and a receive buffer of one byte that doubles    *)
(* once to the two-byte limit and then overflows it.                       *)
EXTENDS TcpSession, TLC

MCChunkSizes == {1, 2}
MCMaxBytes   == 4
MCSendLimit  == 3
MCRecvInit   == 1
MCRecvLimit  == 2
MCMaxInbound == 3
MCMaxQueue   == 3

(* onReceived sends one byte back with send(), once.                       *)
MCSyncSizes    == {1}
MCMaxSyncSends == 1

(* Tcp::Session or SSL::Session objects.  The data path is checked on      *)
(* Tcp::Session: an SSL::Session's connect() throws before it is connected. *)
MCTcpOnly == {FALSE}
MCTlsOnly == {TRUE}

=============================================================================
