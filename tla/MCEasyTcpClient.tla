--------------------------- MODULE MCEasyTcpClient ---------------------------
(* Model checking of EasyTcpClient.  With select, enough messages to fill a *)
(* buffer while the kernel holds one more, and one that does not fit; less  *)
(* for the others, of which epoll differs little and completion ports       *)
(* interleave much more.                                                    *)
EXTENDS EasyTcpClient

MCMaxMsgs == [k \in Kinds |-> IF k = "select" THEN 4 ELSE 2]

=============================================================================
