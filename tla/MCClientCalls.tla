---------------------------- MODULE MCClientCalls ----------------------------
(* ClientCalls on small sets of callers and readers.                      *)
EXTENDS ClientCalls
=============================================================================
