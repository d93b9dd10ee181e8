----------------------------- MODULE FoldTheorems -----------------------------
(***************************************************************************)
(* What a fold over a sequence is, step by step, for any operator Op: the  *)
(* module is instantiated with the operator of the fold it is needed for,  *)
(* whose last argument is what does not change in the course of the fold.  *)
(* A property of the result is then shown by induction on the steps.       *)
(***************************************************************************)
EXTENDS Integers, WellFoundedInduction, TLAPS

CONSTANT Op(_, _, _)   \* of the result so far, an element, and what is fixed

Top(S) == CHOOSE x \in S : \A y \in S : x >= y

\* FoldLeft of the community modules, from the first element to the last.
Fold(base, seq, fixed) ==
  LET iter[s \in SUBSET DOMAIN seq] ==
        IF s = {} THEN base ELSE Op(iter[s \ {Top(s)}], seq[Top(s)], fixed)
  IN  iter[DOMAIN seq]

-----------------------------------------------------------------------------
(* Induction.                                                              *)

\* Natural numbers are well ordered: what an induction rests on.
LEMMA LeastNumber ==
  ASSUME NEW T, T \subseteq Nat, T # {}
  PROVE  \E n \in T : \A m \in T : n <= m
<1> DEFINE R == { ss \in Nat \X Nat : ss[1] < ss[2] }
<1>1. IsWellFoundedOn(R, Nat)
  BY NatLessThanWellFounded, Zenon DEF OpToRel
<1> HIDE DEF R
<1>2. PICK n \in T : \A m \in T : ~ (<<m, n>> \in R)
  BY <1>1, WFMin
<1>3. \A m \in T : ~ (m < n)
  BY <1>2 DEF R
<1>4. QED
  BY <1>3

\* A set of numbers to n that holds 0 and the next of each holds them all.
LEMMA UpTo ==
  ASSUME NEW n \in Nat, NEW S, 0 \in S, \A k \in 0 .. n - 1 : k \in S => k + 1 \in S
  PROVE  \A k \in 0 .. n : k \in S
<1> DEFINE T == { k \in 0 .. n : k \notin S }
<1> SUFFICES ASSUME T # {} PROVE FALSE
  OBVIOUS
<1>1. PICK m \in T : \A k \in T : m <= k
  <2>1. T \subseteq Nat
    OBVIOUS
  <2>2. QED
    BY <2>1, LeastNumber
<1>2. m \in 0 .. n /\ m \notin S /\ m # 0
  BY <1>1
<1>3. m - 1 \in 0 .. n - 1 /\ m - 1 \in 0 .. n /\ (m - 1) + 1 = m
  BY <1>2
<1>4. m - 1 \in S
  BY <1>1, <1>3
<1>5. QED
  BY <1>2, <1>3, <1>4

\* The largest of a set of numbers.
LEMMA MaxIsLargest ==
  ASSUME NEW S, S \subseteq Int, NEW m \in S, \A x \in S : x <= m
  PROVE  Top(S) = m
<1>1. Top(S) \in S /\ \A x \in S : Top(S) >= x
  BY DEF Top
<1>2. m \in Int /\ Top(S) \in Int /\ Top(S) >= m /\ Top(S) <= m
  BY <1>1
<1>3. QED
  BY <1>2

LEMMA SomeIsLargest ==
  ASSUME NEW S, S \subseteq Nat, S # {}, NEW n \in Nat, \A x \in S : x <= n
  PROVE  Top(S) \in S /\ \A x \in S : x <= Top(S)
<1> DEFINE T == { k \in Nat : n - k \in S }
<1>1. T # {}
  <2>1. PICK x \in S : TRUE
    OBVIOUS
  <2>2. n - x \in Nat /\ n - (n - x) = x
    BY <2>1
  <2>3. QED
    BY <2>1, <2>2
<1>2. PICK k \in T : \A m \in T : k <= m
  BY <1>1, LeastNumber
<1>3. n - k \in S /\ k \in Nat
  BY <1>2
<1>4. ASSUME NEW x \in S PROVE x <= n - k
  <2>1. x \in Nat /\ n - x \in Nat /\ n - (n - x) = x
    BY <1>4
  <2>2. k <= n - x
    BY <1>2, <2>1
  <2>3. QED
    BY <1>3, <2>1, <2>2
<1>5. S \subseteq Int /\ n - k \in Int
  BY <1>3
<1>6. Top(S) = n - k
  BY <1>3, <1>4, <1>5, MaxIsLargest
<1>7. QED
  BY <1>3, <1>4, <1>6

-----------------------------------------------------------------------------
(* The recursion of a fold, on the positions that are left.                *)

Iterates(iter, D, base, seq, fixed) ==
  iter = [ s \in SUBSET D |->
             IF s = {} THEN base ELSE Op(iter[s \ {Top(s)}], seq[Top(s)], fixed) ]

LEMMA FoldIterates ==
  ASSUME NEW base, NEW seq, NEW fixed
  PROVE  Fold(base, seq, fixed) = (CHOOSE iter : Iterates(iter, DOMAIN seq, base, seq, fixed))[DOMAIN seq]
BY DEF Fold, Iterates

LEMMA NextIterate ==
  ASSUME NEW base, NEW seq, NEW fixed, NEW k \in Nat, NEW g, Iterates(g, 1 .. k, base, seq, fixed)
  PROVE  \E h : Iterates(h, 1 .. k + 1, base, seq, fixed)
<1> DEFINE D == 1 .. k
           E == 1 .. k + 1
           h == [ s \in SUBSET E |-> IF s \subseteq D THEN g[s]
                                     ELSE Op(g[s \ {k + 1}], seq[k + 1], fixed) ]
           next(s) == IF s = {} THEN base ELSE Op(h[s \ {Top(s)}], seq[Top(s)], fixed)
<1>1. E = D \cup {k + 1} /\ k + 1 \notin D /\ D \subseteq E
  OBVIOUS
<1>2. \A s \in SUBSET D : g[s] = IF s = {} THEN base ELSE Op(g[s \ {Top(s)}], seq[Top(s)], fixed)
  BY DEF Iterates
<1>3. \A s \in SUBSET D : s \in SUBSET E /\ h[s] = g[s] /\ h[s \ {Top(s)}] = g[s \ {Top(s)}]
  BY <1>1
<1>4. ASSUME NEW s \in SUBSET E PROVE h[s] = next(s)
  <2>1. CASE s \subseteq D
    BY <1>2, <1>3, <2>1
  <2>2. CASE ~ (s \subseteq D)
    <3>1. k + 1 \in s
      BY <1>1, <2>2
    <3>2. Top(s) = k + 1
      <4>1. s \subseteq Int /\ \A x \in s : x <= k + 1
        OBVIOUS
      <4>2. QED
        BY <3>1, <4>1, MaxIsLargest
    <3>3. s \ {k + 1} \in SUBSET D
      BY <1>1
    <3>4. h[s \ {k + 1}] = g[s \ {k + 1}]
      BY <1>3, <3>3
    <3>5. h[s] = Op(g[s \ {k + 1}], seq[k + 1], fixed)
      BY <2>2
    <3>6. QED
      BY <3>1, <3>2, <3>4, <3>5
  <2>3. QED
    BY <2>1, <2>2
<1>5. h = [ s \in SUBSET E |-> h[s] ]
  OBVIOUS
<1> HIDE DEF h, D, E
<1>6. h = [ s \in SUBSET E |-> next(s) ]
  BY <1>4, <1>5
<1>7. Iterates(h, E, base, seq, fixed)
  BY <1>6 DEF Iterates
<1>8. QED
  BY <1>7 DEF E

LEMMA IterateExists ==
  ASSUME NEW base, NEW seq, NEW fixed, NEW n \in Nat
  PROVE  \E g : Iterates(g, 1 .. n, base, seq, fixed)
<1> DEFINE S == { k \in Nat : \E g : Iterates(g, 1 .. k, base, seq, fixed) }
<1>1. 0 \in S
  <2> DEFINE g == [ s \in SUBSET (1 .. 0) |-> base ]
  <2>1. \A s \in SUBSET (1 .. 0) : s = {}
    OBVIOUS
  <2>2. Iterates(g, 1 .. 0, base, seq, fixed)
    BY <2>1 DEF Iterates
  <2>3. QED
    BY <2>2
<1>2. \A k \in 0 .. n - 1 : k \in S => k + 1 \in S
  BY NextIterate
<1> HIDE DEF S
<1>3. n \in S
  BY <1>1, <1>2, UpTo
<1>4. QED
  BY <1>3 DEF S

\* The steps of a fold: it starts with the base, and each element takes the
\* result so far to the next.
THEOREM FoldSteps ==
  ASSUME NEW base, NEW seq, NEW fixed, NEW n \in Nat, DOMAIN seq = 1 .. n
  PROVE  \E r : /\ r[0] = base /\ r[n] = Fold(base, seq, fixed)
                /\ \A k \in 0 .. n - 1 : r[k + 1] = Op(r[k], seq[k + 1], fixed)
<1> DEFINE iter == CHOOSE g : Iterates(g, DOMAIN seq, base, seq, fixed)
           r == [ k \in 0 .. n |-> iter[1 .. k] ]
<1>1. Iterates(iter, 1 .. n, base, seq, fixed)
  BY IterateExists
<1> HIDE DEF iter
<1>2. \A s \in SUBSET (1 .. n) :
        iter[s] = IF s = {} THEN base ELSE Op(iter[s \ {Top(s)}], seq[Top(s)], fixed)
  BY <1>1 DEF Iterates
<1>3. r[0] = base
  <2>1. 1 .. 0 = {} /\ {} \in SUBSET (1 .. n)
    OBVIOUS
  <2>2. r[0] = iter[1 .. 0]
    OBVIOUS
  <2>3. QED
    BY <1>2, <2>1, <2>2
<1>4. r[n] = Fold(base, seq, fixed)
  BY FoldIterates DEF iter
<1>5. ASSUME NEW k \in 0 .. n - 1 PROVE r[k + 1] = Op(r[k], seq[k + 1], fixed)
  <2> DEFINE s == 1 .. k + 1
  <2>1. s \in SUBSET (1 .. n) /\ s # {} /\ s \ {k + 1} = 1 .. k /\ k + 1 \in s
    OBVIOUS
  <2>2. Top(s) = k + 1
    <3>1. s \subseteq Int /\ \A x \in s : x <= k + 1
      OBVIOUS
    <3> HIDE DEF s
    <3>2. QED
      BY <2>1, <3>1, MaxIsLargest
  <2>3. r[k + 1] = iter[s] /\ r[k] = iter[1 .. k]
    OBVIOUS
  <2> HIDE DEF s, r
  <2>4. QED
    BY <1>2, <2>1, <2>2, <2>3
<1>6. QED
  BY <1>3, <1>4, <1>5
=============================================================================
