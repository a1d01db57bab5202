---------------------------- MODULE MCTokenCalls ----------------------------
(* TokenCalls on small sets of tokens, calls and connections.             *)
EXTENDS TokenCalls, MCOrder

ByName ==
    /\ InOrder(Calls, {c \in Calls : pc[c] # "idle"})
    /\ InOrder(Conns, {d \in Conns : conn[d] # "idle"})
=============================================================================
