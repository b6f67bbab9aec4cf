------------------------------ MODULE MCThread ------------------------------
(***************************************************************************)
(* Model checking of CELLThread: one or two workers, two or three          *)
(* callers, any number of Close calls.  IInv and RunningInv are the        *)
(* inductive invariant of CELLThreadProofs.                                *)
(***************************************************************************)
EXTENDS CELLThreadProofs

MCCallers2 == {"main", "owner"}
MCCallers3 == {"main", "owner", "other"}

=============================================================================
