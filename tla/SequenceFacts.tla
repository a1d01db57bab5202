---------------------------- MODULE SequenceFacts ----------------------------
(* Facts about sets of numbers and about the sets that sequences hold,    *)
(* which the proofs of several modules rest on.                            *)
EXTENDS Integers, SequencesExt, SequenceTheorems, WellFoundedInduction, TLAPS

-----------------------------------------------------------------------------
(* Sets of numbers                                                         *)

\* A set of numbers that is not empty has a least element, which is the one Min chooses.
LEMMA LeastNatural ==
    ASSUME NEW T, T \subseteq Nat, T # {}
    PROVE  \E x \in T : \A y \in T : x <= y
<1>1. \E R : R = {ss \in Nat \X Nat : ss[1] < ss[2]} /\ IsWellFoundedOn(R, Nat)
  BY NatLessThanWellFounded DEF OpToRel
<1>2. PICK R : R = {ss \in Nat \X Nat : ss[1] < ss[2]} /\ IsWellFoundedOn(R, Nat)
  BY <1>1
<1>3. PICK x \in T : \A y \in T : ~(<<y, x>> \in R) BY <1>2, WFMin
<1>4. ASSUME NEW y \in T PROVE x <= y
  <2>1. y \in Nat /\ x \in Nat OBVIOUS
  <2>2. y < x => <<y, x>> \in R BY <1>2, <2>1
  <2>3. QED BY <1>3, <2>1, <2>2
<1>5. QED BY <1>4

LEMMA MinIn ==
    ASSUME NEW T, T \subseteq Nat, T # {}
    PROVE  Min(T) \in T /\ \A y \in T : Min(T) <= y
BY LeastNatural DEF Min

-----------------------------------------------------------------------------
(* What a sequence holds                                                   *)

LEMMA ToSetIn == ASSUME NEW S, NEW q \in Seq(S) PROVE ToSet(q) \subseteq S
BY LenProperties, ElementOfSeq DEF ToSet

LEMMA ToSetAppend ==
    ASSUME NEW S, NEW q \in Seq(S), NEW e \in S
    PROVE  ToSet(Append(q, e)) = ToSet(q) \cup {e}
<1>1. PICK r \in Seq(S) : r = Append(q, e) BY AppendProperties
<1>2. /\ Len(r) = Len(q) + 1 /\ Len(q) \in Nat /\ r[Len(q) + 1] = e
      /\ \A i \in 1 .. Len(q) : r[i] = q[i]
      /\ DOMAIN r = 1 .. Len(r) /\ DOMAIN q = 1 .. Len(q)
  BY <1>1, AppendProperties, LenProperties
<1>3. \A i : i \in 1 .. Len(r) <=> i \in 1 .. Len(q) \/ i = Len(q) + 1 BY <1>2
<1>4. QED BY <1>1, <1>2, <1>3 DEF ToSet

LEMMA ToSetTail ==
    ASSUME NEW S, NEW q \in Seq(S), q # << >>
    PROVE  ToSet(q) = ToSet(Tail(q)) \cup {Head(q)}
<1>1. PICK r \in Seq(S) : r = Tail(q) BY HeadTailProperties
<1>2. /\ Len(r) = Len(q) - 1 /\ Len(q) \in Nat /\ Len(q) > 0 /\ Len(r) \in Nat
      /\ \A i \in 1 .. Len(r) : r[i] = q[i + 1]
      /\ DOMAIN r = 1 .. Len(r) /\ DOMAIN q = 1 .. Len(q)
  BY <1>1, HeadTailProperties, LenProperties, EmptySeq
<1>3. Head(q) = q[1] OBVIOUS
<1>4. \A i \in 1 .. Len(r) : i + 1 \in 1 .. Len(q) BY <1>2
<1>5. \A i \in 1 .. Len(q) : i = 1 \/ (i - 1 \in 1 .. Len(r) /\ r[i - 1] = q[i])
  BY <1>2
<1>6. ToSet(r) \cup {Head(q)} \subseteq ToSet(q) BY <1>2, <1>3, <1>4 DEF ToSet
<1>7. ASSUME NEW x \in ToSet(q) PROVE x \in ToSet(r) \cup {Head(q)}
  <2>1. PICK i \in 1 .. Len(q) : q[i] = x BY <1>2, <1>7 DEF ToSet
  <2>2. CASE i = 1 BY <1>3, <2>1, <2>2
  <2>3. CASE i # 1 BY <1>2, <1>5, <2>1, <2>3 DEF ToSet
  <2>4. QED BY <2>2, <2>3
<1>8. QED BY <1>1, <1>6, <1>7

LEMMA ToSetConcat ==
    ASSUME NEW S, NEW a \in Seq(S), NEW b \in Seq(S)
    PROVE  ToSet(a \o b) = ToSet(a) \cup ToSet(b)
<1>1. PICK c \in Seq(S) : c = a \o b BY ConcatProperties
<1>2. /\ Len(c) = Len(a) + Len(b) /\ Len(a) \in Nat /\ Len(b) \in Nat
      /\ \A i \in 1 .. Len(a) + Len(b) : c[i] = IF i <= Len(a) THEN a[i] ELSE b[i - Len(a)]
      /\ DOMAIN a = 1 .. Len(a) /\ DOMAIN b = 1 .. Len(b) /\ DOMAIN c = 1 .. Len(c)
  BY <1>1, ConcatProperties, LenProperties
<1>3. ASSUME NEW x \in ToSet(c) PROVE x \in ToSet(a) \cup ToSet(b)
  <2>1. PICK i \in 1 .. Len(c) : c[i] = x BY <1>2, <1>3 DEF ToSet
  <2>2. CASE i <= Len(a)
    <3>1. i \in 1 .. Len(a) /\ a[i] = x BY <1>2, <2>1, <2>2
    <3>2. QED BY <1>2, <3>1 DEF ToSet
  <2>3. CASE ~(i <= Len(a))
    <3>1. i - Len(a) \in 1 .. Len(b) /\ b[i - Len(a)] = x BY <1>2, <2>1, <2>3
    <3>2. QED BY <1>2, <3>1 DEF ToSet
  <2>4. QED BY <2>2, <2>3
<1>4. \A i \in 1 .. Len(a) : i \in 1 .. Len(c) /\ c[i] = a[i] BY <1>2
<1>5. \A i \in 1 .. Len(b) : i + Len(a) \in 1 .. Len(c) /\ c[i + Len(a)] = b[i] BY <1>2
<1>6. ToSet(a) \cup ToSet(b) \subseteq ToSet(c)
  <2>1. ASSUME NEW x \in ToSet(a) PROVE x \in ToSet(c)
    <3>1. PICK i \in 1 .. Len(a) : a[i] = x BY <1>2, <2>1 DEF ToSet
    <3>2. QED BY <1>2, <1>4, <3>1 DEF ToSet
  <2>2. ASSUME NEW x \in ToSet(b) PROVE x \in ToSet(c)
    <3>1. PICK i \in 1 .. Len(b) : b[i] = x BY <1>2, <2>2 DEF ToSet
    <3>2. QED BY <1>2, <1>5, <3>1 DEF ToSet
  <2>3. QED BY <2>1, <2>2
<1>7. QED BY <1>1, <1>3, <1>6

\* The end of a sequence, from the place after the d-th.
LEMMA EndMeans ==
    ASSUME NEW S, NEW q \in Seq(S), NEW d \in 0 .. Len(q)
    PROVE  /\ SubSeq(q, d + 1, Len(q)) \in Seq(S)
           /\ Len(SubSeq(q, d + 1, Len(q))) = Len(q) - d
           /\ \A i \in 1 .. Len(q) - d : SubSeq(q, d + 1, Len(q))[i] = q[d + i]
<1>1. Len(q) \in Nat /\ \A i \in 1 .. Len(q) : q[i] \in S BY LenProperties, ElementOfSeq
<1>2. d + 1 \in Int /\ Len(q) \in Int /\ \A i \in d + 1 .. Len(q) : q[i] \in S BY <1>1
<1>3. /\ SubSeq(q, d + 1, Len(q)) \in Seq(S)
      /\ Len(SubSeq(q, d + 1, Len(q))) = IF d + 1 <= Len(q) THEN Len(q) - (d + 1) + 1 ELSE 0
      /\ \A i \in 1 .. Len(q) - (d + 1) + 1 :
            SubSeq(q, d + 1, Len(q))[i] = q[(d + 1) + i - 1]
  BY <1>2, SubSeqProperties
<1>4. QED BY <1>1, <1>3
=============================================================================
