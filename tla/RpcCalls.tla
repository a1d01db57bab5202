------------------------------ MODULE RpcCalls ------------------------------
(***************************************************************************)
(* What a caller of netx may rely on, for each remote call.  A call gets  *)
(* one outcome and keeps it.  An answer means that the other side ran the *)
(* call; a timeout or an abandoned call says nothing of the sort: the     *)
(* other side may have run it, and may still run it.                      *)
(***************************************************************************)
CONSTANT Calls
VARIABLES outcome,  \* what became of each call
          executed  \* the calls the other side has run, each once

Outcomes == {"none", "pending", "answered", "timedout", "abandoned"}

Init ==
    /\ outcome = [c \in Calls |-> "none"]
    /\ executed = {}

Issue(c) ==
    /\ outcome[c] = "none"
    /\ outcome' = [outcome EXCEPT ![c] = "pending"]
    /\ UNCHANGED executed

Execute(c) ==
    /\ outcome[c] # "none"
    /\ c \notin executed
    /\ executed' = executed \cup {c}
    /\ UNCHANGED outcome

Answer(c) ==
    /\ outcome[c] = "pending"
    /\ c \in executed
    /\ outcome' = [outcome EXCEPT ![c] = "answered"]
    /\ UNCHANGED executed

\* One look at the clock may end several calls.
GiveUp(C) ==
    /\ \A c \in C : outcome[c] = "pending"
    /\ \E o \in {"timedout", "abandoned"} :
          outcome' = [c \in Calls |-> IF c \in C THEN o ELSE outcome[c]]
    /\ UNCHANGED executed

Next ==
    \/ \E c \in Calls : Issue(c) \/ Execute(c) \/ Answer(c)
    \/ \E C \in SUBSET Calls : GiveUp(C)

Spec == Init /\ [][Next]_<<outcome, executed>>
=============================================================================
