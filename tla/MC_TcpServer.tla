---------------------------- MODULE MC_TcpServer ----------------------------
(* Two Sessions, two user threads, three queued handlers per io.           *)
EXTENDS TcpServer, TLC

MCMaxQueue == 3
=============================================================================
