----------------------------- MODULE MCChatUsers -----------------------------
(* ChatUsers on small sets of sessions, names and requests.               *)
EXTENDS ChatUsers, TLC

Symmetry == Permutations(Sessions) \cup Permutations(Names) \cup Permutations(Tasks)
=============================================================================
