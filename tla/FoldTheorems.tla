---------------------------- MODULE FoldTheorems ----------------------------
(***************************************************************************)
(* Induction for the loops that the models write as FoldLeft or SelectSeq. *)
(* A theorem cannot be given an operator, but a module can: who needs the  *)
(* theorems INSTANCEs this module with the body of the loop for Op and     *)
(* what the loop maintains for Inv.  The first parameter of either is      *)
(* whatever they need of the context.                                      *)
(***************************************************************************)
EXTENDS SequencesExt, Integers, WellFoundedInduction, TLAPS

CONSTANTS
    Op(_, _, _),   \* context, result so far, element |-> next result
    Inv(_, _, _)   \* context, number of elements done, result so far

-----------------------------------------------------------------------------
(* A set of naturals without a least element is empty.                     *)
LEMMA NoLeastElement ==
    ASSUME NEW T \in SUBSET Nat, 0 \notin T,
           \A n \in Nat : n + 1 \in T => n \in T
    PROVE  T = {}
<1> SUFFICES ASSUME T # {} PROVE FALSE
  OBVIOUS
<1>1. PICK n \in T : \A k \in T : ~(<<k, n>> \in OpToRel(<, Nat))
  BY NatLessThanWellFounded, WFMin
<1>2. n - 1 \in Nat /\ n - 1 < n /\ (n - 1) + 1 = n
  OBVIOUS
<1>3. <<n - 1, n>> \in OpToRel(<, Nat)
  BY <1>2 DEF OpToRel
<1>4. n - 1 \in T
  BY <1>2
<1>5. QED
  BY <1>1, <1>3, <1>4

(* The element that FoldLeft takes from the indices up to k + 1.           *)
LEMMA MaxOfInitial ==
    ASSUME NEW k \in Nat, NEW s \in SUBSET (1 .. k + 1), k + 1 \in s
    PROVE  Max(s) = k + 1
<1>1. \A y \in s : k + 1 >= y
  OBVIOUS
<1>2. \A x \in s : (\A y \in s : x >= y) => x = k + 1
  OBVIOUS
<1>3. QED
  BY <1>1, <1>2 DEF Max

-----------------------------------------------------------------------------
(* Steps of a fold                                                         *)

Fold(e, base, seq) == FoldLeft(LAMBDA x, v : Op(e, x, v), base, seq)

(* h is what the loop has after each element.                              *)
IsFold(h, e, base, seq) ==
    /\ h[0] = base
    /\ \A k \in 0 .. Len(seq) - 1 : h[k + 1] = Op(e, h[k], seq[k + 1])

(* The definition of FoldLeft goes through a function on sets of indices:  *)
(* that there is such a function, and what it is for the first k indices.  *)
THEOREM FoldSteps ==
    ASSUME NEW e, NEW S, NEW seq \in Seq(S), NEW base
    PROVE  \E h : IsFold(h, e, base, seq) /\ Fold(e, base, seq) = h[Len(seq)]
<1> DEFINE Step(g, s) == IF s = {} THEN base
                         ELSE Op(e, g[s \ {Max(s)}], seq[Max(s)])
           Good(g, k) == g = [s \in SUBSET (1 .. k) |-> Step(g, s)]
           Iter == CHOOSE g : g = [s \in SUBSET (DOMAIN seq) |-> Step(g, s)]
<1>1. Fold(e, base, seq) = Iter[DOMAIN seq]
  BY DEF Fold, FoldLeft, MapThenFoldSet
<1>2. DOMAIN seq = 1 .. Len(seq) /\ Len(seq) \in Nat
  OBVIOUS
<1>3. 1 .. 0 = {}
  OBVIOUS
<1>4. \E g : Good(g, 0)
  <2> DEFINE g == [s \in SUBSET (1 .. 0) |-> base]
  <2>1. Good(g, 0)
    BY <1>3
  <2>2. QED
    BY <2>1
<1>5. ASSUME NEW k \in Nat, NEW g, Good(g, k)
      PROVE  \E gg : Good(gg, k + 1)
  <2> DEFINE gg == [s \in SUBSET (1 .. k + 1) |->
                       IF k + 1 \in s THEN Op(e, g[s \ {k + 1}], seq[k + 1])
                       ELSE g[s]]
  <2>1. ASSUME NEW s \in SUBSET (1 .. k + 1)
        PROVE  gg[s] = Step(gg, s)
    <3>1. CASE k + 1 \in s
      <4>1. Max(s) = k + 1
        BY <3>1, MaxOfInitial
      <4>2. s \ {k + 1} \in SUBSET (1 .. k)
        OBVIOUS
      <4>3. gg[s \ {k + 1}] = g[s \ {k + 1}]
        BY <4>2
      <4>4. QED
        BY <3>1, <4>1, <4>3
    <3>2. CASE k + 1 \notin s
      <4>1. s \in SUBSET (1 .. k)
        BY <3>2
      <4>2. g[s] = Step(g, s)
        BY <4>1, <1>5
      <4>3. CASE s # {}
        <5>1. /\ s \ {Max(s)} \in SUBSET (1 .. k + 1)
              /\ k + 1 \notin s \ {Max(s)}
          BY <4>1, <3>2
        <5>2. gg[s \ {Max(s)}] = g[s \ {Max(s)}]
          BY <5>1
        <5>3. QED
          BY <3>2, <4>2, <5>2
      <4>4. QED
        BY <3>2, <4>2, <4>3
    <3>3. QED
      BY <3>1, <3>2
  <2>2. Good(gg, k + 1)
    <3> HIDE DEF Step
    <3>1. QED
      BY <2>1
  <2>3. QED
    BY <2>2
<1>6. \A k \in Nat : \E g : Good(g, k)
  <2> HIDE DEF Good
  <2> DEFINE T == {k \in Nat : ~\E g : Good(g, k)}
  <2>1. 0 \notin T
    BY <1>4
  <2>2. \A n \in Nat : n + 1 \in T => n \in T
    BY <1>5
  <2>3. T \in SUBSET Nat
    OBVIOUS
  <2>4. T = {}
    <3> HIDE DEF T
    <3>1. QED
      BY <2>1, <2>2, <2>3, NoLeastElement
  <2>5. QED
    BY <2>4
<1>7. Iter = [s \in SUBSET (1 .. Len(seq)) |-> Step(Iter, s)]
  <2>1. \E g : Good(g, Len(seq))
    BY <1>6, <1>2
  <2>2. QED
    BY <2>1, <1>2
<1> HIDE DEF Iter
<1> DEFINE h == [k \in 0 .. Len(seq) |-> Iter[1 .. k]]
<1>8. h[0] = base
  BY <1>3, <1>7
<1>9. ASSUME NEW k \in 0 .. Len(seq) - 1
      PROVE  h[k + 1] = Op(e, h[k], seq[k + 1])
  <2>1. /\ k \in Nat /\ k \in 0 .. Len(seq)
        /\ k + 1 \in 0 .. Len(seq) /\ k + 1 \in 1 .. Len(seq)
    BY <1>2
  <2>2. /\ 1 .. k + 1 \in SUBSET (1 .. Len(seq)) /\ 1 .. k + 1 # {}
        /\ (1 .. k + 1) \ {k + 1} = 1 .. k
    BY <2>1
  <2>3. Max(1 .. k + 1) = k + 1
    <3>1. 1 .. k + 1 \in SUBSET (1 .. k + 1) /\ k + 1 \in 1 .. k + 1
      BY <2>1
    <3>2. QED
      BY <2>1, <3>1, MaxOfInitial
  <2>4. Iter[1 .. k + 1] = Step(Iter, 1 .. k + 1)
    BY <1>7, <2>2, Zenon
  <2>5. Iter[1 .. k + 1] = Op(e, Iter[1 .. k], seq[k + 1])
    BY <2>2, <2>3, <2>4, Zenon
  <2>6. h[k] = Iter[1 .. k] /\ h[k + 1] = Iter[1 .. k + 1]
    BY <2>1
  <2>7. QED
    BY <2>5, <2>6, Zenon
<1>10. h[Len(seq)] = Iter[DOMAIN seq]
  BY <1>2
<1>11. QED
  BY <1>1, <1>8, <1>9, <1>10, Zenon DEF IsFold

(* What holds of the loop at its beginning, and after each element if it   *)
(* did before, holds at its end.                                           *)
LEMMA StepsInvariant ==
    ASSUME NEW e, NEW S, NEW seq \in Seq(S), NEW base, NEW h,
           IsFold(h, e, base, seq), Inv(e, 0, base),
           \A i \in 1 .. Len(seq) : \A x :
               Inv(e, i - 1, x) => Inv(e, i, Op(e, x, seq[i]))
    PROVE  \A k \in 0 .. Len(seq) : Inv(e, k, h[k])
<1> DEFINE T == {k \in Nat : k <= Len(seq) /\ ~Inv(e, k, h[k])}
<1>1. 0 \notin T
  BY DEF IsFold
<1>2. ASSUME NEW n \in Nat, n + 1 \in T
      PROVE  n \in T
  <2>1. /\ n + 1 \in 1 .. Len(seq) /\ n \in 0 .. Len(seq) - 1
        /\ (n + 1) - 1 = n /\ n <= Len(seq)
    BY <1>2
  <2>2. h[n + 1] = Op(e, h[n], seq[n + 1])
    BY <2>1 DEF IsFold
  <2>3. SUFFICES ASSUME Inv(e, n, h[n]) PROVE FALSE
    BY <2>1
  <2>4. Inv(e, n + 1, Op(e, h[n], seq[n + 1]))
    BY <2>1, <2>3
  <2>5. QED
    BY <1>2, <2>2, <2>4
<1>3. T \in SUBSET Nat
  OBVIOUS
<1>4. T = {}
  <2> HIDE DEF T
  <2>1. QED
    BY <1>1, <1>2, <1>3, NoLeastElement
<1>5. Len(seq) \in Nat
  OBVIOUS
<1>6. QED
  BY <1>4, <1>5

THEOREM FoldInvariant ==
    ASSUME NEW e, NEW S, NEW seq \in Seq(S), NEW base,
           Inv(e, 0, base),
           \A i \in 1 .. Len(seq) : \A x :
               Inv(e, i - 1, x) => Inv(e, i, Op(e, x, seq[i]))
    PROVE  Inv(e, Len(seq), Fold(e, base, seq))
<1>1. PICK h : IsFold(h, e, base, seq) /\ Fold(e, base, seq) = h[Len(seq)]
  BY FoldSteps
<1>2. \A k \in 0 .. Len(seq) : Inv(e, k, h[k])
  BY <1>1, StepsInvariant
<1>3. Len(seq) \in 0 .. Len(seq)
  OBVIOUS
<1>4. QED
  BY <1>1, <1>2, <1>3

=============================================================================
