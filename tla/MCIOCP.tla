------------------------------- MODULE MCIOCP -------------------------------
(* Model checking of IOCPConnection.                                       *)
EXTENDS IOCPConnectionProofs
=============================================================================
