---------------------------- MODULE MCCellServer ----------------------------
(* Model checking of CellServer: one peer sends two messages, the other    *)
(* none.                                                                   *)
EXTENDS CellServer

MCMaxSent == <<2, 0>>

=============================================================================
