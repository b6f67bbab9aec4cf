------------------------------ MODULE MCServer ------------------------------
(* Model checking of EasyTcpServer.                                        *)
EXTENDS EasyTcpServer
=============================================================================
