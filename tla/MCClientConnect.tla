--------------------------- MODULE MCClientConnect ---------------------------
(* ClientConnect on small sets of callers and connections.                *)
EXTENDS ClientConnect, TLC

\* Callers are interchangeable: sound for the run without liveness.
Symmetry == Permutations(Callers)
=============================================================================
