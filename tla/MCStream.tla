------------------------------ MODULE MCStream ------------------------------
(* Model checking of CELLStream.                                           *)
EXTENDS CELLStreamProofs
=============================================================================
