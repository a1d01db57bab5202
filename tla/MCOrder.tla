------------------------------- MODULE MCOrder -------------------------------
(***************************************************************************)
(* The members of a set of model values are interchangeable: any behaviour*)
(* is, up to their names, one that uses them in a fixed order.  A run that *)
(* looks at those behaviours only loses none, and unlike SYMMETRY this is *)
(* sound for liveness.                                                     *)
(***************************************************************************)
EXTENDS Naturals, Sequences
LOCAL INSTANCE SequencesExt

\* The members of S are used in order.
InOrder(S, used) ==
    LET order == SetToSeq(S)
    IN  \A i \in 2 .. Len(order) : order[i] \in used => order[i - 1] \in used
=============================================================================
