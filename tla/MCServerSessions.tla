-------------------------- MODULE MCServerSessions --------------------------
(* ServerSessions on small sets of connections, sessions and tasks.       *)
EXTENDS ServerSessions, MCOrder

ByName ==
    /\ InOrder(Conns, {c \in Conns : pc[c] # "idle"})
    /\ InOrder(Sessions, issued)
=============================================================================
