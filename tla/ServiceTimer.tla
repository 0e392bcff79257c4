---------------------------- MODULE ServiceTimer ----------------------------
(***************************************************************************)
(* A Timer of src/source/core/timer.cxx composed with the Service that     *)
(* hands it its io_service.                                                *)
(*                                                                         *)
(* The Timer keeps the io_service getIoService returned when it was        *)
(* constructed.  Its asynchronous waits complete through that io_service:  *)
(* the timer service queues the wait handler there with success once the   *)
(* expiry has passed, or with operation_aborted when the wait is cancelled *)
(* (cancel, or a new expiry set by setup).  A worker of the Service then   *)
(* runs the handler.  Service::restart replaces every io_service; a Timer  *)
(* created before keeps the old one, which no worker runs any more.        *)
(*                                                                         *)
(* One Timer and one thread calling it.  The expiry time is abstracted to  *)
(* whether it lies in the future (armed); time passing is the action       *)
(* Expire.  timerNotify (timer.cxx:349) is declared but defined nowhere,   *)
(* so what it does is abstracted to counting its calls.                    *)
(*                                                                         *)
(* The Service model serializes the handlers of a shared io_service as its *)
(* strand does; the Timer binds its handler to a strand of its own, which  *)
(* the model serializes with the Service's too.  The timer handler touches *)
(* only the Timer, so no property tells the two apart.                     *)
(***************************************************************************)
EXTENDS Service

CONSTANTS
    MaxWaits,      \* bound: waitAsync and waitSync calls in all
    MaxSetups      \* bound: setup calls

VARIABLES
    tio,       \* _io: index of the io_service of the Timer, NoTimer before it exists
    tstale,    \* _io has been replaced in the Service by restart
    armed,     \* the expiry of _timer lies in the future
    pend,      \* async waits registered with _timer, not yet completed
    tupc,      \* the thread using the Timer: "idle" or blocked in waitSync
    issued,    \* waits issued (history)
    notified,  \* timerNotify calls (history)
    orphaned,  \* completions queued on a replaced io_service (history)
    setups     \* setup calls (history, bounded)

timerVars == <<tio, tstale, armed, pend, tupc, issued, notified, orphaned, setups>>
allVars == <<vars, timerVars>>

(* The Service's variables but its queues.                                 *)
svcButQ == <<ownIo, started, polling, halted, tpc, tcur, upc, rr, posted, starts>>

NoTimer == -1

(* The completions of async_wait: success and operation_aborted.           *)
Fired == "fired"
Aborted == "aborted"
TimerHandlers == {Fired, Aborted}

(* Timer completions waiting in the queues of the current io_services, and  *)
(* being executed by a worker.                                              *)
Queued ==
    Cardinality(UNION {{<<i, k>> : k \in {k \in 1..Len(q[i]) : q[i][k] \in TimerHandlers}}
                        : i \in AllIos})
Running == Cardinality({t \in Threads : tcur[t] \in TimerHandlers})

(* n completions of kind h queued on the Timer's io_service, or on the     *)
(* replaced one that no worker runs.                                        *)
Complete(h, n) ==
    IF tstale
    THEN /\ orphaned' = orphaned + n
         /\ UNCHANGED q
    ELSE /\ q' = [q EXCEPT ![tio] = @ \o [k \in 1..n |-> h]]
         /\ UNCHANGED orphaned

(* Setting the expiry or cancelling aborts every pending async wait.       *)
AbortWaits ==
    /\ Complete(Aborted, pend)
    /\ pend' = 0

-----------------------------------------------------------------------------
(* Mutant: the aborted branch of the handler without its return, so that   *)
(* timerNotify(false) follows timerNotify(true).                           *)
AsyncWaitHandlerNoReturn(h) ==
    CASE h = Aborted -> notified' = notified + 2
      [] h = Fired   -> notified' = notified + 1
      [] OTHER       -> UNCHANGED notified

(* The handler of waitAsync (timer.cxx:141-151): operation_aborted calls    *)
(* timerNotify(true), err() filters the error and the handler returns;     *)
(* success calls timerNotify(false).  No other error reaches a wait.        *)
AsyncWaitHandler(h) ==
    CASE h = Aborted -> notified' = notified + 1
      [] h = Fired   -> notified' = notified + 1
      [] OTHER       -> UNCHANGED notified

TimerInit ==
    /\ tio = NoTimer
    /\ tstale = FALSE
    /\ armed = FALSE
    /\ pend = 0
    /\ tupc = "idle"
    /\ issued = 0
    /\ notified = 0
    /\ orphaned = 0
    /\ setups = 0

(* The constructors (timer.cxx:9-82): _io = service->getIoService(), so     *)
(* _rr_idx is advanced; _timer(io) expires at the epoch (already         *)
(* expired), _timer(io, time or timespan) at a time past or future.      *)
(* The action, when given, is kept for timerNotify.                         *)
TimerCreate ==
    /\ tio = NoTimer
    /\ rr' = rr + 1
    /\ tio' = (rr + 1) % NIos
    /\ armed' \in BOOLEAN
    /\ UNCHANGED <<ownIo, started, polling, q, halted, tpc, tcur, upc, posted, starts>>
    /\ UNCHANGED <<tstale, pend, tupc, issued, notified, orphaned, setups>>

(* setup(time), setup(timespan), and setup(action, time or timespan)       *)
(* once its action is valid (timer.cxx:92-137): expires_at or              *)
(* expires_from_now sets the new expiry, past or future, and aborts the    *)
(* pending waits; neither reports an error, so the error path is not      *)
(* taken.  An invalid action returns false before anything changes.        *)
Setup ==
    /\ tio # NoTimer
    /\ tupc = "idle"
    /\ setups < MaxSetups
    /\ armed' \in BOOLEAN
    /\ AbortWaits
    /\ setups' = setups + 1
    /\ UNCHANGED svcButQ
    /\ UNCHANGED <<tio, tstale, tupc, issued, notified>>

(* waitAsync (timer.cxx:139-159): async_wait registers the handler, bound   *)
(* to the Timer's strand when the Service needs strands, and returns true. *)
WaitAsync ==
    /\ tio # NoTimer
    /\ tupc = "idle"
    /\ issued < MaxWaits
    /\ pend' = pend + 1
    /\ issued' = issued + 1
    /\ UNCHANGED vars
    /\ UNCHANGED <<tio, tstale, armed, tupc, notified, orphaned, setups>>

(* waitSync (timer.cxx:161-176), first part: _timer.wait blocks the caller  *)
(* until the expiry has passed; it is not an asynchronous operation, so    *)
(* cancel does not end it and its operation_aborted branch is not taken.   *)
WaitSync ==
    /\ tio # NoTimer
    /\ tupc = "idle"
    /\ issued < MaxWaits
    /\ tupc' = "sync"
    /\ issued' = issued + 1
    /\ UNCHANGED vars
    /\ UNCHANGED <<tio, tstale, armed, pend, notified, orphaned, setups>>

(* _timer.wait returns once the clock reaches the expiry: timerNotify(false) *)
(* and return true.  It does not involve the io_service.                    *)
WaitSyncReturn ==
    /\ tupc = "sync"
    /\ ~armed
    /\ tupc' = "idle"
    /\ notified' = notified + 1
    /\ UNCHANGED vars
    /\ UNCHANGED <<tio, tstale, armed, pend, issued, orphaned, setups>>

(* cancel (timer.cxx:178-189): _timer.cancel aborts the pending waits and   *)
(* reports no error.                                                        *)
Cancel ==
    /\ tio # NoTimer
    /\ tupc = "idle"
    /\ AbortWaits
    /\ UNCHANGED svcButQ
    /\ UNCHANGED <<tio, tstale, armed, tupc, issued, notified, setups>>

(* The clock passes the expiry.                                             *)
Expire ==
    /\ armed
    /\ armed' = FALSE
    /\ UNCHANGED vars
    /\ UNCHANGED <<tio, tstale, pend, tupc, issued, notified, orphaned, setups>>

(* The timer service of the Timer's io_service finds the expiry passed and *)
(* queues the pending waits' handlers with success.  A stopped io_service, *)
(* or one replaced by restart, is not run and does not do this.            *)
Fire ==
    /\ tio # NoTimer
    /\ ~armed
    /\ pend > 0
    /\ ~tstale
    /\ ~halted[tio]
    /\ Complete(Fired, pend)
    /\ pend' = 0
    /\ UNCHANGED svcButQ
    /\ UNCHANGED <<tio, tstale, armed, tupc, issued, notified, setups>>

(* A worker executes a handler: the Service's, or the Timer's wait handler. *)
ExecuteAny(t) ==
    /\ Execute(t)
    /\ AsyncWaitHandler(tcur[t])
    /\ UNCHANGED <<tio, tstale, armed, pend, tupc, issued, orphaned, setups>>

(* Service::restart replaces the io_services: the Timer's completions still *)
(* queued on the old one are never run, and the Timer keeps the old one.    *)
Rebuild ==
    /\ RestartRebuild
    /\ tstale' = (tio # NoTimer)
    /\ orphaned' = orphaned + Queued
    /\ UNCHANGED <<tio, armed, pend, tupc, issued, notified, setups>>

(* The Service's own steps leave the Timer alone.                           *)
ServiceStep ==
    /\ \/ \E p \in PollModes(ownIo): Start(p)
       \/ StartReturn \/ Stop \/ StopJoin \/ StopReturn
       \/ PostJob \/ PostService
       \/ \E t \in Threads: Take(t) \/ RunReturn(t) \/ PollReturn(t)
    /\ UNCHANGED timerVars

STInit == Init /\ TimerInit

STNext ==
    \/ ServiceStep
    \/ Rebuild
    \/ \E t \in Threads: ExecuteAny(t)
    \/ TimerCreate \/ Setup \/ WaitAsync \/ WaitSync \/ WaitSyncReturn \/ Cancel
    \/ Expire \/ Fire

(* The Service's workers and user thread as in Service; time passes, the   *)
(* timer service of a running io_service completes expired waits, and a    *)
(* blocked waitSync returns once the expiry has passed.  The thread using  *)
(* the Timer is not obliged to call it.                                    *)
STFairness ==
    /\ \A t \in Threads: /\ WF_allVars(Take(t) /\ UNCHANGED timerVars)
                         /\ WF_allVars(ExecuteAny(t))
                         /\ WF_allVars(RunReturn(t) /\ UNCHANGED timerVars)
                         /\ WF_allVars(PollReturn(t) /\ UNCHANGED timerVars)
    /\ WF_allVars(StartReturn /\ UNCHANGED timerVars)
    /\ WF_allVars(StopJoin /\ UNCHANGED timerVars)
    /\ WF_allVars(StopReturn /\ UNCHANGED timerVars)
    /\ WF_allVars(Expire) /\ WF_allVars(Fire) /\ WF_allVars(WaitSyncReturn)

STSpec == STInit /\ [][STNext]_allVars /\ STFairness

-----------------------------------------------------------------------------
(* Every wait the Timer was asked for is accounted for exactly once: it is  *)
(* pending in _timer, its handler is queued or running on a worker, it was *)
(* orphaned on a replaced io_service, a thread is blocked in waitSync, or  *)
(* timerNotify has been called for it, once: the aborted branch of the     *)
(* wait handler returns after timerNotify(true).                            *)
WaitsConserved ==
    issued = notified + pend + Queued + Running + orphaned
                      + (IF tupc = "sync" THEN 1 ELSE 0)

(* Every wait is eventually notified, or the Service is stopped: the       *)
(* io_service the Timer took from getIoService keeps being run while the   *)
(* Service is started (spec.md: restart reaches the same configuration).   *)
WaitNotified ==
    \A n \in 1..MaxWaits: (issued >= n) ~> (notified >= n \/ ~started)

(* A handler run with success reports an expiry that has passed: the       *)
(* Timer is not armed for a later expiry when timerNotify(false) is called *)
(* from the wait handler.                                                   *)
ExpiryCurrent ==
    [][\A t \in Threads: tcur[t] = Fired /\ tcur'[t] = "none" => ~armed]_allVars

=============================================================================
