-------------------------- MODULE SessionLifecycle --------------------------
(***************************************************************************)
(* What the session manager promises about one session, whatever its      *)
(* connections do: it is created once, stays usable until it is removed,  *)
(* its Closed function runs exactly once after the removal, one session   *)
(* at a time, and the id is never used again.                             *)
(***************************************************************************)
CONSTANT Sessions
VARIABLE life

Stages == {"none", "live", "closing", "closed"}

Init == life = [s \in Sessions |-> "none"]

Create(s) ==
    /\ life[s] = "none"
    /\ life' = [life EXCEPT ![s] = "live"]

Remove(s) ==
    /\ life[s] = "live"
    /\ \A t \in Sessions : life[t] # "closing"
    /\ life' = [life EXCEPT ![s] = "closing"]

RunClosed(s) ==
    /\ life[s] = "closing"
    /\ life' = [life EXCEPT ![s] = "closed"]

Next == \E s \in Sessions : Create(s) \/ Remove(s) \/ RunClosed(s)

Spec == Init /\ [][Next]_life
=============================================================================
