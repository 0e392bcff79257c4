----------------------------- MODULE MC_Service -----------------------------
(* Two worker threads, two posted handlers, a start and a restart.         *)
EXTENDS Service, TLC

MCMaxJobs == 2
MCMaxStarts == 2

(* Both constructor configurations.  The shared io_service is started in   *)
(* run or polling mode; one io_service per worker only in run mode, its    *)
(* polling mode being the subject of MC_Service_poll_exit.cfg.             *)
MCOwnIoModes == {FALSE, TRUE}
MCPollModes(own) == IF own THEN {FALSE, TRUE} ELSE {FALSE}

(* Polling mode with one io_service per worker.                            *)
MCPerThreadOnly == {FALSE}
MCPollOnly(own) == {TRUE}

=============================================================================
