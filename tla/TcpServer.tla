----------------------------- MODULE TcpServer ------------------------------
(***************************************************************************)
(* The Server of src/source/core/tcp/tcp_server.cxx with the lifecycle of  *)
(* its Sessions: start and stop handlers, the accept chain, the session    *)
(* registry and its shared_mutex, multicast, disconnectAll, restart, and   *)
(* each Session's connect / disconnect / unregister (tcp_session.cxx).     *)
(* A Session's data path is modelled in TcpSession; here a Session is its  *)
(* _connected flag and the queue of its io_service.                        *)
(*                                                                         *)
(* Actors.  User threads call start, stop, restart, multicast,             *)
(* disconnectAll and Session::disconnect.  The Server's io thread (or      *)
(* strand) runs the handlers queued on it in FIFO order; the acceptor's    *)
(* completion is queued there too.  Each Session's io thread runs the      *)
(* disconnect handlers queued on it.  Handlers that the code dispatches    *)
(* from a thread not running that io_service are queued; a dispatch from   *)
(* the same io_service runs inline and is part of the calling action.      *)
(***************************************************************************)
EXTENDS Integers, Sequences, SequencesExt, FiniteSets

CONSTANTS
    Sids,      \* Session ids newSession can hand out (each used once)
    Users,     \* user threads
    NULL,      \* the empty _session slot
    MaxQueue   \* bound: handlers waiting in one io queue

VARIABLES
    started,       \* _started
    acceptorOpen,  \* _acceptor is open and listening
    slot,          \* _session: the Session the next accept binds, or NULL
    aops,          \* Sessions whose socket an async_accept is outstanding on
    registry,      \* keys of _sessions
    readers,       \* threads holding _sessions_lock shared
    made,          \* Sessions newSession has created (ids are fresh)
    conn,          \* per Session: _connected
    srvq,          \* handlers queued on the Server's io_service
    sq,            \* per Session: handlers queued on its io_service
    upc,           \* per user thread: where it is in a call
    todo,          \* per user thread: sessions multicast has still to visit
    connects,      \* per Session: onConnect calls (history)
    disconnects,   \* per Session: onDisconnect calls (history)
    restartRefused,\* history: a restart had its stop() accepted and start() refused
    crashed        \* the process dereferenced a null _session

vars == <<started, acceptorOpen, slot, aops, registry, readers, made, conn,
          srvq, sq, upc, todo, connects, disconnects, restartRefused, crashed>>

Handler(h, s) == [h |-> h, sid |-> s]
(* Bound: a user call is made only while every io queue has room, since   *)
(* one call (stop, disconnectAll) queues at most one handler per queue.    *)
Room == Len(srvq) < MaxQueue /\ \A s \in Sids: Len(sq[s]) < MaxQueue

IsAcceptDone(x) == x.h \in {"acceptOk", "acceptErr"}

-----------------------------------------------------------------------------
(* Server::accept and the handler it dispatches (tcp_server.cxx:179-212),  *)
(* inline on the Server's io thread: construct a fresh Session with        *)
(* newSession and start async_accept on its socket.  When Sids is          *)
(* exhausted the chain ends (the bound of the model).                      *)
AcceptWith(isStarted) ==
    IF ~isStarted \/ made = Sids
    THEN UNCHANGED <<slot, aops, made>>
    ELSE \E s \in Sids \ made:
           /\ slot' = s
           /\ made' = made \cup {s}
           /\ aops' = aops \cup {s}

AcceptBody == AcceptWith(started)

(* Session::disconnect(false) as called by the disconnectAll closure: when *)
(* the Session is connected, post the disconnect handler to its io.        *)
PostDisconnects(ss) ==
    sq' = [s \in Sids |-> IF s \in ss /\ conn[s] THEN Append(sq[s], "disconnect")
                                                  ELSE sq[s]]

(* Mutant: the start handler without its isStarted() re-check.           *)
StartHandlerNoRecheck ==
    /\ started' = TRUE
    /\ acceptorOpen' = TRUE
    /\ AcceptWith(TRUE)

(* The start handler (tcp_server.cxx:105-130): open and bind the acceptor, *)
(* zero the counters, mark started, call onStart, accept.                  *)
StartHandler ==
    IF started THEN UNCHANGED <<started, acceptorOpen, slot, aops, made>>
    ELSE /\ started' = TRUE
         /\ acceptorOpen' = TRUE
         /\ AcceptWith(TRUE)

(* Mutant: the stop handler clears _started before disconnectAll().       *)
StopHandlerClearsFirst ==
    IF ~started THEN /\ srvq' = Tail(srvq)
                     /\ UNCHANGED <<started, acceptorOpen, slot, aops, sq>>
    ELSE /\ acceptorOpen' = FALSE
         /\ aops' = {}
         /\ srvq' = Tail(srvq) \o [i \in 1..Cardinality(aops) |->
                                      Handler("acceptErr", NULL)]
         /\ slot' = NULL
         /\ UNCHANGED sq                    \* the closure sees !isStarted()
         /\ started' = FALSE

(* The stop handler (tcp_server.cxx:145-159): close the acceptor (its      *)
(* outstanding accept completes with operation_aborted), reset _session,   *)
(* disconnectAll() -- whose closure is dispatched inline and still sees    *)
(* _started -- then clear _started and call onStop.                        *)
StopHandler ==
    IF ~started THEN /\ srvq' = Tail(srvq)
                     /\ UNCHANGED <<started, acceptorOpen, slot, aops, sq>>
    ELSE /\ acceptorOpen' = FALSE
         /\ aops' = {}
         /\ srvq' = Tail(srvq) \o [i \in 1..Cardinality(aops) |->
                                      Handler("acceptErr", NULL)]
         /\ slot' = NULL
         /\ PostDisconnects(registry)
         /\ started' = FALSE

(* The disconnectAll closure (tcp_server.cxx:238-245) queued by a user.    *)
DisconnectAllHandler ==
    IF ~started THEN UNCHANGED sq ELSE PostDisconnects(registry)

(* The accept completion (tcp_server.cxx:190-200): on success register     *)
(* _session under the unique lock and call its connect(), then accept      *)
(* again.  It does not look at _started or at _session.                    *)
AcceptOk ==
    IF slot = NULL
    THEN /\ crashed' = TRUE                 \* _session->id() on nullptr
         /\ UNCHANGED <<registry, conn, connects, slot, aops, made>>
    ELSE /\ readers = 0                     \* unique_lock(_sessions_lock)
         /\ registry' = registry \cup {slot}
         /\ conn' = [conn EXCEPT ![slot] = TRUE]
         /\ connects' = [connects EXCEPT ![slot] = @ + 1]
         /\ AcceptBody
         /\ UNCHANGED crashed

(* Mutant: unregister erases the id of _session instead of its own.       *)
UnregisterWrongKey(s) == registry' = registry \ {slot}

(* Server::unregisterSession (tcp_server.cxx:268-272): erase the entry,    *)
(* without taking _sessions_lock.                                          *)
Unregister(s) == registry' = registry \ {s}

-----------------------------------------------------------------------------
Init ==
    /\ started = FALSE
    /\ acceptorOpen = FALSE
    /\ slot = NULL
    /\ aops = {}
    /\ registry = {}
    /\ readers = 0
    /\ made = {}
    /\ conn = [s \in Sids |-> FALSE]
    /\ srvq = <<>>
    /\ sq = [s \in Sids |-> <<>>]
    /\ upc = [u \in Users |-> "idle"]
    /\ todo = [u \in Users |-> {}]
    /\ connects = [s \in Sids |-> 0]
    /\ disconnects = [s \in Sids |-> 0]
    /\ restartRefused = FALSE
    /\ crashed = FALSE

(* Server::start (tcp_server.cxx:99-138) from a user: post the handler.    *)
Start(u) ==
    /\ upc[u] = "idle"
    /\ ~started
    /\ Room
    /\ srvq' = Append(srvq, Handler("start", NULL))
    /\ UNCHANGED <<started, acceptorOpen, slot, aops, registry, readers, made,
                   conn, sq, upc, todo, connects, disconnects, restartRefused, crashed>>

(* Server::stop (tcp_server.cxx:140-167) from a user: post the handler.    *)
Stop(u) ==
    /\ upc[u] = "idle"
    /\ started
    /\ Room
    /\ srvq' = Append(srvq, Handler("stop", NULL))
    /\ UNCHANGED <<started, acceptorOpen, slot, aops, registry, readers, made,
                   conn, sq, upc, todo, connects, disconnects, restartRefused, crashed>>

(* Server::disconnectAll (tcp_server.cxx:233-253) from a user.             *)
DisconnectAll(u) ==
    /\ upc[u] = "idle"
    /\ started
    /\ Room
    /\ srvq' = Append(srvq, Handler("disconnectAll", NULL))
    /\ UNCHANGED <<started, acceptorOpen, slot, aops, registry, readers, made,
                   conn, sq, upc, todo, connects, disconnects, restartRefused, crashed>>

(* Server::restart (tcp_server.cxx:169-177): stop(); then                  *)
(* while (!isStarted()) yield; then start().                               *)
RestartBegin(u) ==
    /\ upc[u] = "idle"
    /\ started                              \* else stop() returns false
    /\ Room
    /\ srvq' = Append(srvq, Handler("stop", NULL))
    /\ upc' = [upc EXCEPT ![u] = "restartWait"]
    /\ UNCHANGED <<started, acceptorOpen, slot, aops, registry, readers, made,
                   conn, sq, todo, connects, disconnects, restartRefused, crashed>>

RestartWait(u) ==
    /\ upc[u] = "restartWait"
    /\ started                              \* the loop exits once started
    /\ upc' = [upc EXCEPT ![u] = "restartStart"]
    /\ UNCHANGED <<started, acceptorOpen, slot, aops, registry, readers, made,
                   conn, srvq, sq, todo, connects, disconnects, restartRefused, crashed>>

RestartStart(u) ==
    /\ upc[u] = "restartStart"
    /\ upc' = [upc EXCEPT ![u] = "idle"]
    /\ IF started
       THEN /\ restartRefused' = TRUE        \* start() asserts / returns false
            /\ UNCHANGED srvq
       ELSE /\ Room
            /\ srvq' = Append(srvq, Handler("start", NULL))
            /\ UNCHANGED restartRefused
    /\ UNCHANGED <<started, acceptorOpen, slot, aops, registry, readers, made,
                   conn, sq, todo, connects, disconnects, crashed>>

(* Server::multicast (tcp_server.cxx:214-231): take _sessions_lock shared, *)
(* call sendAsync on each entry of the map, release the lock.              *)
MulticastBegin(u) ==
    /\ upc[u] = "idle"
    /\ started
    /\ readers' = readers + 1
    /\ todo' = [todo EXCEPT ![u] = registry]
    /\ upc' = [upc EXCEPT ![u] = "multicast"]
    /\ UNCHANGED <<started, acceptorOpen, slot, aops, registry, made, conn,
                   srvq, sq, connects, disconnects, restartRefused, crashed>>

MulticastStep(u) ==
    /\ upc[u] = "multicast"
    /\ \E s \in todo[u]: todo' = [todo EXCEPT ![u] = @ \ {s}]   \* sendAsync
    /\ UNCHANGED <<started, acceptorOpen, slot, aops, registry, readers, made,
                   conn, srvq, sq, upc, connects, disconnects, restartRefused, crashed>>

(* Mutant: multicast returns without releasing the shared lock.           *)
MulticastEndNoUnlock(u) ==
    /\ upc[u] = "multicast"
    /\ todo[u] = {}
    /\ upc' = [upc EXCEPT ![u] = "idle"]
    /\ UNCHANGED <<started, acceptorOpen, slot, aops, registry, readers, made,
                   conn, srvq, sq, todo, connects, disconnects, restartRefused,
                   crashed>>

MulticastEnd(u) ==
    /\ upc[u] = "multicast"
    /\ todo[u] = {}
    /\ readers' = readers - 1
    /\ upc' = [upc EXCEPT ![u] = "idle"]
    /\ UNCHANGED <<started, acceptorOpen, slot, aops, registry, made, conn,
                   srvq, sq, todo, connects, disconnects, restartRefused, crashed>>

(* Session::disconnect() from a user (tcp_session.cxx:76-119).             *)
UserDisconnect(u, s) ==
    /\ upc[u] = "idle"
    /\ conn[s]
    /\ Room
    /\ sq' = [sq EXCEPT ![s] = Append(@, "disconnect")]
    /\ UNCHANGED <<started, acceptorOpen, slot, aops, registry, readers, made,
                   conn, srvq, upc, todo, connects, disconnects, restartRefused, crashed>>

(* A client connects: the outstanding accept completes with success and    *)
(* its handler is queued on the Server's io.                               *)
PeerConnects(s) ==
    /\ s \in aops
    /\ acceptorOpen
    /\ aops' = aops \ {s}
    /\ srvq' = Append(srvq, Handler("acceptOk", s))
    /\ UNCHANGED <<started, acceptorOpen, slot, registry, readers, made, conn,
                   sq, upc, todo, connects, disconnects, restartRefused, crashed>>

(* The Server's io thread runs the handler at the head of its queue.       *)
RunServerHandler ==
    /\ srvq # <<>>
    /\ LET x == Head(srvq) IN
       CASE x.h = "start" ->
              /\ StartHandler
              /\ srvq' = Tail(srvq)
              /\ UNCHANGED <<registry, conn, sq, connects, crashed>>
         [] x.h = "stop" ->
              /\ StopHandler
              /\ UNCHANGED <<made, registry, conn, connects, crashed>>
         [] x.h = "disconnectAll" ->
              /\ DisconnectAllHandler
              /\ srvq' = Tail(srvq)
              /\ UNCHANGED <<started, acceptorOpen, slot, aops, made, registry,
                             conn, connects, crashed>>
         [] x.h = "acceptOk" ->
              /\ AcceptOk
              /\ srvq' = Tail(srvq)
              /\ UNCHANGED <<started, acceptorOpen, sq>>
         [] x.h = "acceptErr" ->            \* err(); accept()
              /\ AcceptBody
              /\ srvq' = Tail(srvq)
              /\ UNCHANGED <<started, acceptorOpen, registry, conn, sq,
                             connects, crashed>>
         [] x.h = "unregister" ->
              /\ Unregister(x.sid)
              /\ srvq' = Tail(srvq)
              /\ UNCHANGED <<started, acceptorOpen, slot, aops, made, conn, sq,
                             connects, crashed>>
    /\ UNCHANGED <<readers, upc, todo, disconnects, restartRefused>>

(* Mutant: the disconnect handler does not queue the unregister.          *)
SessionDisconnectNoUnregister(s) ==
    IF ~conn[s] THEN UNCHANGED <<conn, disconnects, srvq>>
    ELSE /\ conn' = [conn EXCEPT ![s] = FALSE]
         /\ disconnects' = [disconnects EXCEPT ![s] = @ + 1]
         /\ UNCHANGED srvq

(* Mutant: the disconnect handler without its isConnected() re-check.     *)
SessionDisconnectNoRecheck(s) ==
    /\ conn' = [conn EXCEPT ![s] = FALSE]
    /\ disconnects' = [disconnects EXCEPT ![s] = @ + 1]
    /\ srvq' = Append(srvq, Handler("unregister", s))

(* The disconnect handler of a Session (tcp_session.cxx:81-103): when      *)
(* still connected, close, call onDisconnect and the Server's              *)
(* onDisconnect, and queue the unregister on the Server's io.              *)
SessionDisconnect(s) ==
    IF ~conn[s] THEN UNCHANGED <<conn, disconnects, srvq>>
    ELSE /\ conn' = [conn EXCEPT ![s] = FALSE]
         /\ disconnects' = [disconnects EXCEPT ![s] = @ + 1]
         /\ srvq' = Append(srvq, Handler("unregister", s))

RunSessionHandler(s) ==
    /\ sq[s] # <<>>
    /\ SessionDisconnect(s)
    /\ sq' = [sq EXCEPT ![s] = Tail(@)]
    /\ UNCHANGED <<started, acceptorOpen, slot, aops, registry, readers, made,
                   upc, todo, connects, restartRefused, crashed>>

(* A read or write of the Session fails on its io thread, which calls      *)
(* disconnect(true): the handler runs inline.                              *)
SessionIoError(s) ==
    /\ conn[s]
    /\ SessionDisconnect(s)
    /\ UNCHANGED <<started, acceptorOpen, slot, aops, registry, readers, made,
                   sq, upc, todo, connects, restartRefused, crashed>>

Next ==
    /\ ~crashed
    /\ \/ \E u \in Users: \/ Start(u) \/ Stop(u) \/ DisconnectAll(u)
                          \/ RestartBegin(u) \/ RestartWait(u) \/ RestartStart(u)
                          \/ MulticastBegin(u) \/ MulticastStep(u) \/ MulticastEnd(u)
       \/ \E u \in Users, s \in Sids: UserDisconnect(u, s)
       \/ \E s \in Sids: PeerConnects(s)
       \/ RunServerHandler
       \/ \E s \in Sids: RunSessionHandler(s) \/ SessionIoError(s)

(* The io threads run every queued handler; a user thread inside multicast *)
(* or restart keeps running.  No fairness for user calls, for clients      *)
(* connecting, or for I/O errors.  The Server's io thread may block in     *)
(* registerSession on the unique lock; strong fairness says a lock that is *)
(* free infinitely often is eventually taken by the writer waiting on it.  *)
Fairness ==
    /\ SF_vars(~crashed /\ RunServerHandler)
    /\ \A s \in Sids: WF_vars(~crashed /\ RunSessionHandler(s))
    /\ \A u \in Users: /\ WF_vars(~crashed /\ MulticastStep(u))
                       /\ WF_vars(~crashed /\ MulticastEnd(u))
                       /\ WF_vars(~crashed /\ RestartStart(u))

Spec == Init /\ [][Next]_vars /\ Fairness

-----------------------------------------------------------------------------
TypeOK ==
    /\ started \in BOOLEAN /\ acceptorOpen \in BOOLEAN
    /\ slot \in Sids \cup {NULL}
    /\ aops \subseteq Sids /\ registry \subseteq Sids /\ made \subseteq Sids
    /\ readers \in 0..Cardinality(Users)
    /\ conn \in [Sids -> BOOLEAN]
    /\ upc \in [Users -> {"idle", "multicast", "restartWait", "restartStart"}]
    /\ todo \in [Users -> SUBSET Sids]
    /\ connects \in [Sids -> Nat] /\ disconnects \in [Sids -> Nat]


(* Every connected Session is in _sessions, and a registered Session that  *)
(* has disconnected has its unregisterSession queued on the Server's io:   *)
(* registerSession before connect() in the accept completion, and the      *)
(* unregister dispatched by the disconnect handler, keep the map exact.    *)
RegistryConsistent ==
    \A s \in Sids:
        /\ conn[s] => s \in registry
        /\ (s \in registry /\ ~conn[s]) =>
               \E i \in 1..Len(srvq): srvq[i] = Handler("unregister", s)

(* onConnect is called at most once per Session, and onDisconnect at most  *)
(* once and only after it, however many disconnect handlers stop,          *)
(* disconnectAll, users and I/O errors queue.                              *)
LifecycleOnce ==
    \A s \in Sids: connects[s] <= 1 /\ disconnects[s] <= connects[s]

(* At most one accept is in flight -- outstanding on the acceptor or its   *)
(* completion queued -- across start, stop, restart and concurrent start() *)
(* calls: the accept chain is never duplicated.                            *)
AcceptChainSingle ==
    Cardinality(aops) + Len(SelectSeq(srvq, IsAcceptDone)) <= 1

(* std::shared_mutex may let overlapping readers starve a writer forever;   *)
(* the liveness properties assume the multicasting users leave the lock    *)
(* free from time to time.                                                 *)
ReadersLetGo == []<>(readers = 0)

(* A Session that has disconnected is eventually removed from _sessions    *)
(* (unless the process crashed), when multicast users let the lock go.     *)
NoStaleSession ==
    ReadersLetGo =>
    \A s \in Sids: (s \in registry /\ ~conn[s]) ~> (s \notin registry \/ crashed)

(* After the stop handler has run, every Session still connected is        *)
(* eventually disconnected: the disconnectAll closure runs while _started  *)
(* is still true.                                                          *)
StopDisconnectsAll ==
    ReadersLetGo =>
    \A s \in Sids: (~started /\ conn[s]) ~> (~conn[s] \/ crashed)

(* The registry holds as many Sessions as onConnect calls minus           *)
(* onDisconnect calls, at any observation point.                           *)
RegistryCountMatches ==
    Cardinality(registry) =
        SumFunctionOnSet(connects, Sids) - SumFunctionOnSet(disconnects, Sids)

(* The accept completion never registers and connects a null _session: a  *)
(* client connecting after stop() was called but before its handler ran.   *)
NoNullSessionAccept == ~crashed

(* _sessions is never modified while a thread iterates it under the shared *)
(* lock (multicast): writers take the lock exclusively.                    *)
RegistryWriteExclusive == [][registry' # registry => readers = 0]_vars

(* restart() of a running Server starts it again: the start() after the    *)
(* wait for the stop is never refused because the Server is still started. *)
RestartStarts == ~restartRefused

=============================================================================
