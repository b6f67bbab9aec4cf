-------------------------------- MODULE MCLog --------------------------------
(* Model checking of CELLLog, and of the CellTaskServer in it.              *)
EXTENDS CELLLog
=============================================================================
