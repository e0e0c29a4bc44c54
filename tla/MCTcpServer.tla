----------------------------- MODULE MCTcpServer -----------------------------
(* TcpServer for TLC.                                                        *)
EXTENDS TcpServer
==============================================================================
