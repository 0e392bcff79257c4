------------------------------- MODULE Service -------------------------------
(***************************************************************************)
(* Service of src/source/core/service.cxx: its io_services, the worker     *)
(* threads that drive them in run or polling mode, start / stop / restart  *)
(* called by the owning user thread, and components posting work to the   *)
(* io_service getIoService hands out (round-robin).                        *)
(*                                                                         *)
(* A worker takes the handler at the head of its io_service's queue and    *)
(* then executes it, in two steps: with one io_service shared by all      *)
(* threads (own_io) the handlers are serialized by the strand, so while    *)
(* one worker executes a handler the others find nothing ready.            *)
(***************************************************************************)
EXTENDS Integers, Sequences, FiniteSets

CONSTANTS
    NThreads,      \* num_threads given to the constructor
    OwnIoModes,    \* values of own_io given to the constructor
    PollModes(_),  \* values of polling passed to start, for a given own_io
    MaxJobs,       \* bound: handlers components post in all
    MaxStarts      \* bound: calls of start (first start and restarts)

VARIABLES
    ownIo,     \* _own_io, fixed by the constructor
    started,   \* _started
    polling,   \* _polling
    q,         \* per io_service: handlers ready to run
    halted,    \* per io_service: io_service::stop() has been called
    tpc,       \* per worker thread: "none" (not running), "loop", "exited"
    tcur,      \* per worker thread: the handler it is executing, or "none"
    upc,       \* the owning user thread inside start / stop / restart
    rr,        \* _rr_idx
    posted,    \* handlers posted by components (history, bounded)
    starts     \* calls of start (history, bounded)

vars == <<ownIo, started, polling, q, halted, tpc, tcur, upc, rr, posted, starts>>

(* The constructor (service.cxx:55-80): no threads gives one io_service;   *)
(* own_io gives one io_service shared through a strand; otherwise one      *)
(* io_service per thread.                                                  *)
NIos == IF NThreads = 0 \/ ownIo THEN 1 ELSE NThreads
Ios == 0..(NIos - 1)

(* Every io_service a configuration can have; those beyond Ios stay empty. *)
AllIos == 0..(IF NThreads = 0 THEN 0 ELSE NThreads - 1)
Threads == 0..(NThreads - 1)

(* serviceThread(self, _services[i % _services.size()]) (service.cxx:110)  *)
IoOf(t) == t % NIos

(* The io_service of worker t has a handler being executed by a worker.   *)
Busy(i) == \E t \in Threads: IoOf(t) = i /\ tcur[t] # "none"

-----------------------------------------------------------------------------
(* Mutant: the stop handler stops only the first io_service.               *)
ExecStopFirstOnly(h) ==
    CASE h = "start" -> /\ started' = TRUE      \* unchanged when already set
                        /\ UNCHANGED halted
      [] h = "stop"  -> IF ~started THEN UNCHANGED <<started, halted>>
                        ELSE /\ halted' = [halted EXCEPT ![0] = TRUE]
                             /\ started' = FALSE
      [] OTHER       -> UNCHANGED <<started, halted>>

(* Executing handler h.  The start handler (service.cxx:101-107) and the   *)
(* stop handler (service.cxx:129-138) re-check _started; a component's    *)
(* handler does not touch the Service.                                     *)
Exec(h) ==
    CASE h = "start" -> /\ started' = TRUE      \* unchanged when already set
                        /\ UNCHANGED halted
      [] h = "stop"  -> IF ~started THEN UNCHANGED <<started, halted>>
                        ELSE /\ halted' = [i \in AllIos |-> i \in Ios]
                             /\ started' = FALSE
      [] OTHER       -> UNCHANGED <<started, halted>>

Init ==
    /\ ownIo \in OwnIoModes
    /\ started = FALSE
    /\ polling = FALSE
    /\ q = [i \in AllIos |-> <<>>]
    /\ halted = [i \in AllIos |-> FALSE]
    /\ tpc = [t \in Threads |-> "none"]
    /\ tcur = [t \in Threads |-> "none"]
    /\ upc = "idle"
    /\ rr = 0
    /\ posted = 0
    /\ starts = 0

(* Service::start (service.cxx:92-121), up to the spin: post the start     *)
(* handler through the strand or to _services[0], and spawn the workers.   *)
(* Nothing resets a stopped io_service here: after a stop() without a      *)
(* restart() the start handler is queued on a halted io_service, never     *)
(* runs, and the spin below does not end.                                  *)
Start(p) ==
    /\ upc = "idle"
    /\ ~started
    /\ starts < MaxStarts
    /\ polling' = p
    /\ rr' = 0
    /\ q' = [q EXCEPT ![0] = Append(@, "start")]
    /\ tpc' = [t \in Threads |-> "loop"]
    /\ upc' = "startSpin"
    /\ starts' = starts + 1
    /\ UNCHANGED <<ownIo, started, halted, tcur, posted>>

(* while (!isStarted()) yield; return true.                                *)
StartReturn ==
    /\ upc = "startSpin"
    /\ started
    /\ upc' = "idle"
    /\ UNCHANGED <<ownIo, started, polling, q, halted, tpc, tcur, rr, posted, starts>>

(* Service::stop (service.cxx:123-154), first part: post the stop handler. *)
Stop ==
    /\ upc = "idle"
    /\ started
    /\ q' = [q EXCEPT ![0] = Append(@, "stop")]
    /\ upc' = "stopJoin"
    /\ UNCHANGED <<ownIo, started, polling, halted, tpc, tcur, rr, posted, starts>>

(* thread.join() for every worker, then _polling = false.                  *)
StopJoin ==
    /\ upc = "stopJoin"
    /\ \A t \in Threads: tpc[t] = "exited"
    /\ tpc' = [t \in Threads |-> "none"]
    /\ polling' = FALSE
    /\ upc' = "stopSpin"
    /\ UNCHANGED <<ownIo, started, q, halted, tcur, rr, posted, starts>>

(* while (isStarted()) yield; return true.                                 *)
StopReturn ==
    /\ upc = "stopSpin"
    /\ ~started
    /\ upc' = "idle"
    /\ UNCHANGED <<ownIo, started, polling, q, halted, tpc, tcur, rr, posted, starts>>

(* Service::restart (service.cxx:156-169) after its stop(): new            *)
(* io_services (and strand); its start(polling) is then Start.            *)
RestartRebuild ==
    /\ upc = "idle"
    /\ ~started
    /\ \E i \in Ios: halted[i]
    /\ q' = [i \in AllIos |-> <<>>]
    /\ halted' = [i \in AllIos |-> FALSE]
    /\ UNCHANGED <<ownIo, started, polling, tpc, tcur, upc, rr, posted, starts>>

(* A component posts a handler to the io_service getIoService returns:    *)
(* _services[++_rr_idx % _services.size()] (service.hxx:87-89).            *)
PostJob ==
    /\ started
    /\ posted < MaxJobs
    /\ rr' = rr + 1
    /\ q' = [q EXCEPT ![(rr + 1) % NIos] = Append(@, "job")]
    /\ posted' = posted + 1
    /\ UNCHANGED <<ownIo, started, polling, halted, tpc, tcur, upc, starts>>

(* Service::post, and Service::dispatch called from outside the workers    *)
(* (service.hxx:98-117): the handler goes through the strand, or to        *)
(* _services[0].  Both queue it on the first io_service.                   *)
PostService ==
    /\ started
    /\ posted < MaxJobs
    /\ q' = [q EXCEPT ![0] = Append(@, "job")]
    /\ posted' = posted + 1
    /\ UNCHANGED <<ownIo, started, polling, halted, tpc, tcur, upc, rr, starts>>

(* A worker (run() or poll(), service.cxx:20-27) takes the next ready      *)
(* handler: none is ready while the strand executes another one.          *)
Take(t) ==
    /\ tpc[t] = "loop"
    /\ tcur[t] = "none"
    /\ ~halted[IoOf(t)]
    /\ q[IoOf(t)] # <<>>
    /\ ~Busy(IoOf(t))
    /\ tcur' = [tcur EXCEPT ![t] = Head(q[IoOf(t)])]
    /\ q' = [q EXCEPT ![IoOf(t)] = Tail(@)]
    /\ UNCHANGED <<ownIo, started, polling, halted, tpc, upc, rr, posted, starts>>

Execute(t) ==
    /\ tcur[t] # "none"
    /\ Exec(tcur[t])
    /\ tcur' = [tcur EXCEPT ![t] = "none"]
    /\ UNCHANGED <<ownIo, polling, q, tpc, upc, rr, posted, starts>>

(* Mutant: run() without the work guard returns when no handler is ready. *)
RunReturnNoWork(t) ==
    /\ tpc[t] = "loop" /\ ~polling
    /\ tcur[t] = "none"
    /\ halted[IoOf(t)] \/ q[IoOf(t)] = <<>>
    /\ tpc' = [tpc EXCEPT ![t] = "exited"]
    /\ UNCHANGED <<ownIo, started, polling, q, halted, tcur, upc, rr, posted, starts>>

(* run() returns only once its io_service is stopped (the work guard       *)
(* keeps it from running out of work); the loop breaks and the thread      *)
(* exits.                                                                  *)
RunReturn(t) ==
    /\ tpc[t] = "loop" /\ ~polling
    /\ tcur[t] = "none"
    /\ halted[IoOf(t)]
    /\ tpc' = [tpc EXCEPT ![t] = "exited"]
    /\ UNCHANGED <<ownIo, started, polling, q, halted, tcur, upc, rr, posted, starts>>

(* Mutant: the polling loop condition inverted, while (!isStarted()).      *)
PollReturnInverted(t) ==
    /\ tpc[t] = "loop" /\ polling
    /\ tcur[t] = "none"
    /\ halted[IoOf(t)] \/ q[IoOf(t)] = <<>> \/ Busy(IoOf(t))
    /\ started
    /\ tpc' = [tpc EXCEPT ![t] = "exited"]
    /\ UNCHANGED <<ownIo, started, polling, q, halted, tcur, upc, rr, posted, starts>>

(* poll() returns when no handler is ready; onIdle(); the do-while loop    *)
(* continues while isStarted() (service.cxx:21-36) and the thread exits    *)
(* otherwise.  Continuing is a step that changes nothing.                  *)
PollReturn(t) ==
    /\ tpc[t] = "loop" /\ polling
    /\ tcur[t] = "none"
    /\ halted[IoOf(t)] \/ q[IoOf(t)] = <<>> \/ Busy(IoOf(t))
    /\ ~started
    /\ tpc' = [tpc EXCEPT ![t] = "exited"]
    /\ UNCHANGED <<ownIo, started, polling, q, halted, tcur, upc, rr, posted, starts>>

Next ==
    \/ \E p \in PollModes(ownIo): Start(p)
    \/ StartReturn \/ Stop \/ StopJoin \/ StopReturn \/ RestartRebuild
    \/ PostJob \/ PostService
    \/ \E t \in Threads: Take(t) \/ Execute(t) \/ RunReturn(t) \/ PollReturn(t)

(* Every worker keeps taking and executing ready handlers and leaves its   *)
(* loop when it may; the user thread spinning in start or stop, or joining *)
(* the workers, proceeds once it can.  Nothing obliges the user to call.   *)
Fairness ==
    /\ \A t \in Threads: /\ WF_vars(Take(t)) /\ WF_vars(Execute(t))
                         /\ WF_vars(RunReturn(t)) /\ WF_vars(PollReturn(t))
    /\ WF_vars(StartReturn) /\ WF_vars(StopJoin) /\ WF_vars(StopReturn)

Spec == Init /\ [][Next]_vars /\ Fairness

-----------------------------------------------------------------------------
(* While the Service is started and not being stopped, every io_service    *)
(* has a worker in its loop: no worker leaves before stop.                 *)
WorkerPerIo ==
    (started /\ upc \in {"idle", "startSpin"} /\ NThreads > 0) =>
        \A i \in Ios: \E t \in Threads: IoOf(t) = i /\ tpc[t] = "loop"

(* A handler queued on an io_service while the Service is started is       *)
(* eventually run, unless that io_service is stopped.  While the Service   *)
(* is not started (before start, or between restart's rebuild and start)   *)
(* no worker need exist to run what a component queues.                    *)
IoDriven ==
    \A i \in AllIos: (q[i] # <<>> /\ started) ~> (q[i] = <<>> \/ halted[i])

(* Service::stop returns: the workers exit, the joins finish and the stop  *)
(* handler has cleared _started.                                           *)
StopReturns == (upc = "stopJoin") ~> (upc = "idle")

(* Service::start returns: some thread runs the start handler.            *)
StartReturns == (upc = "startSpin") ~> (upc = "idle")

=============================================================================
