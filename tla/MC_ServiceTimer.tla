--------------------------- MODULE MC_ServiceTimer ---------------------------
(* The Service of MC_Service with one Timer: two waits and one setup.      *)
EXTENDS ServiceTimer, TLC

MCMaxJobs == 1
MCMaxStarts == 2
MCMaxWaits == 2
MCMaxSetups == 1

(* Both constructor configurations, as in MC_Service.                      *)
MCOwnIoModes == {FALSE, TRUE}
MCPollModes(own) == IF own THEN {FALSE, TRUE} ELSE {FALSE}

(* A single start: no restart.                                             *)
MCOneStart == 1

=============================================================================
