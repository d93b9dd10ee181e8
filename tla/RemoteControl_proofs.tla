------------------------- MODULE RemoteControl_proofs -------------------------
(***************************************************************************)
(* Why the finger ids of the TUIO client are small numbers dealt once, for *)
(* any number of fingers, while the list of free ids has not outlived the  *)
(* last cursor; why a bundle that comes after two in order is applied,     *)
(* whatever was lost, late or doubled before; and why the pose does not    *)
(* jump while the cursors are a first and a second finger.                 *)
(***************************************************************************)
EXTENDS RemoteControl, FiniteSetTheorems, SequenceTheorems, TLAPS

-----------------------------------------------------------------------------
(* The removal of cursors in turn as a fold, and the largest of a set.     *)

\* What RemovedInTurn does with each of the cursors.
RemovedNext(r, s) ==
  IF s \notin Listed(r.fingers) THEN r
  ELSE [ fingers |-> Removed(r.fingers, s),
         leftover |-> r.leftover \/ LeavesIdsBehind(Removed(r.fingers, s)) ]

\* The same as an operator of a fold; nothing else is fixed.
RemovedStep(r, s, x) == RemovedNext(r, s)

Removals == INSTANCE FoldTheorems WITH Op <- RemovedStep

LEMMA RemovedInTurnFolds ==
  ASSUME NEW order
  PROVE  RemovedInTurn(order)
           = Removals!Fold([ fingers |-> fingers, leftover |-> leftover ], order, 0)
BY DEF RemovedInTurn, RemovedNext, RemovedStep, Removals!Fold, FoldLeft, MapThenFoldSet, Max, Removals!Top

LEMMA MaxIsLargest ==
  ASSUME NEW S, S \subseteq Nat, S # {}, NEW n \in Nat, \A x \in S : x <= n
  PROVE  Max(S) \in S /\ \A x \in S : x <= Max(S)
BY Removals!SomeIsLargest DEF Max, Removals!Top

LEMMA IdsAreNumbers ==
  /\ MaxFingers \in Nat /\ MaxFingers > 0
  /\ \A i \in Ids : i \in Nat /\ i < MaxFingers /\ i <= MaxFingers - 1
  /\ \A i \in Nat : i < MaxFingers => i \in Ids
BY MaxFingersAssumption DEF Ids

LEMMA LargestOfSome ==
  ASSUME NEW S, S \subseteq Ids
  PROVE  /\ S = {} => LargestOf(S) = -1
         /\ S # {} => LargestOf(S) \in S
         /\ LargestOf(S) \in Int /\ -1 <= LargestOf(S) /\ LargestOf(S) < MaxFingers
         /\ \A x \in S : x <= LargestOf(S)
<1>1. CASE S = {}
  <2>1. LargestOf(S) = -1
    BY <1>1 DEF LargestOf
  <2>2. QED
    BY <1>1, <2>1, IdsAreNumbers
<1>2. CASE S # {}
  <2>1. S \subseteq Nat /\ (\A x \in S : x <= MaxFingers - 1) /\ MaxFingers - 1 \in Nat
    BY IdsAreNumbers
  <2>2. Max(S) \in S /\ \A x \in S : x <= Max(S)
    BY <1>2, <2>1, MaxIsLargest
  <2>3. LargestOf(S) = Max(S)
    BY <1>2 DEF LargestOf
  <2>4. LargestOf(S) \in Nat /\ LargestOf(S) < MaxFingers
    BY <2>2, <2>3, IdsAreNumbers
  <2>5. QED
    BY <1>2, <2>2, <2>3, <2>4
<1>3. QED
  BY <1>1, <1>2

LEMMA LargestOfKnown ==
  ASSUME NEW S, S \subseteq Ids, NEW m \in S, \A x \in S : x <= m
  PROVE  LargestOf(S) = m
<1>1. LargestOf(S) \in S /\ m <= LargestOf(S)
  BY LargestOfSome
<1>2. LargestOf(S) <= m /\ LargestOf(S) \in Int /\ m \in Int
  BY <1>1, IdsAreNumbers
<1>3. QED
  BY <1>1, <1>2

-----------------------------------------------------------------------------
(* Adding and removing a finger.                                           *)

\* The lists of the client, well typed, ...
WellTyped(f) ==
  /\ f = [ cursors |-> f.cursors, free |-> f.free, maxFingerID |-> f.maxFingerID ]
  /\ Listed(f) \subseteq Sessions
  /\ f.cursors \in [ Listed(f) -> Ids ]
  /\ f.free \in [ Ids -> Nat ]
  /\ f.maxFingerID \in Ids \cup {-1}

\* ... with no id given twice, ...
OneEach(f) == \A s, t \in Listed(f) : f.cursors[s] = f.cursors[t] => s = t

\* ... and the used and free ids the numbers to the largest.
Dense(f) ==
  /\ f.maxFingerID = LargestOf(Used(f))
  /\ Used(f) \cap Free(f) = {}
  /\ Used(f) \cup Free(f) = 0 .. f.maxFingerID
  /\ \A i \in Ids : f.free[i] <= 1

Dealt(f) == WellTyped(f) /\ OneEach(f) /\ Dense(f)

LEMMA UsedIsImage ==
  ASSUME NEW f, WellTyped(f)
  PROVE  /\ Used(f) \subseteq Ids /\ Free(f) \subseteq Ids
         /\ IsFiniteSet(Listed(f)) /\ IsFiniteSet(Used(f))
         /\ Cardinality(Listed(f)) \in Nat /\ Cardinality(Used(f)) \in Nat
         /\ Cardinality(Used(f)) = Cardinality(Listed(f)) <=> OneEach(f)
<1>1. Used(f) \subseteq Ids /\ Free(f) \subseteq Ids
  BY DEF WellTyped, Used, Free
<1>2. IsFiniteSet(Listed(f))
  BY SessionsAssumption, FS_Subset DEF WellTyped
<1>3. f.cursors \in Surjection(Listed(f), Used(f))
  BY DEF WellTyped, Used, Surjection
<1>4. /\ IsFiniteSet(Used(f))
      /\ Cardinality(Used(f)) = Cardinality(Listed(f))
           <=> f.cursors \in Injection(Listed(f), Used(f))
  BY <1>2, <1>3, FS_Surjection
<1>5. f.cursors \in Injection(Listed(f), Used(f)) <=> OneEach(f)
  <2>1. f.cursors \in [ Listed(f) -> Used(f) ] /\ DOMAIN f.cursors = Listed(f)
    BY <1>3 DEF Surjection, Listed
  <2>2. QED
    BY <2>1 DEF Injection, IsInjective, OneEach
<1>6. QED
  BY <1>1, <1>2, <1>4, <1>5, FS_CardinalityType

LEMMA FillsInterval ==
  ASSUME NEW m \in Int, -1 <= m, NEW U, U \subseteq 0 .. m
  PROVE  Cardinality(U) <= m + 1 /\ (Cardinality(U) = m + 1 => U = 0 .. m)
<1> DEFINE I == 0 .. m
<1>1. IsFiniteSet(I) /\ Cardinality(I) = IF 0 > m THEN 0 ELSE m - 0 + 1
  BY FS_Interval
<1>2. Cardinality(I) = m + 1
  BY <1>1
<1> HIDE DEF I
<1>3. U \in SUBSET I
  BY DEF I
<1>4. Cardinality(U) <= Cardinality(I) /\ (Cardinality(I) = Cardinality(U) => I = U)
  BY <1>1, <1>3, FS_Subset
<1>5. QED
  BY <1>2, <1>4 DEF I

\* Where the largest id is smaller than the number of the cursors, every id to
\* the largest is in use: the next one is their number.
LEMMA NextIdIsNumber ==
  ASSUME NEW f, Dealt(f), Cardinality(Listed(f)) > f.maxFingerID
  PROVE  /\ Cardinality(Listed(f)) = f.maxFingerID + 1
         /\ Used(f) = 0 .. f.maxFingerID
<1> DEFINE m == f.maxFingerID
           n == Cardinality(Listed(f))
<1>1. m \in Int /\ -1 <= m
  BY IdsAreNumbers DEF Dealt, WellTyped
<1>2. Used(f) \subseteq 0 .. m
  BY DEF Dealt, Dense
<1>3. n \in Nat /\ Cardinality(Used(f)) = n
  BY UsedIsImage DEF Dealt
<1>4. n > m
  OBVIOUS
<1> HIDE DEF m, n
<1>5. n <= m + 1 /\ (n = m + 1 => Used(f) = 0 .. m)
  BY <1>1, <1>2, <1>3, FillsInterval
<1>6. n = m + 1
  BY <1>1, <1>3, <1>4, <1>5
<1>7. QED
  BY <1>5, <1>6 DEF m, n

LEMMA AddedKeepsTypes ==
  ASSUME NEW f, WellTyped(f), NEW s \in Sessions, s \notin Listed(f),
         Cardinality(Listed(f)) < MaxFingers, NEW g \in Added(f, s)
  PROVE  WellTyped(g)
<1> DEFINE n == Cardinality(Listed(f))
<1>1. n \in Nat /\ n \in Ids
  BY UsedIsImage, IdsAreNumbers
<1>2. ASSUME NEW i \in Ids
      PROVE  With(f, s, i) \in [ Listed(f) \cup {s} -> Ids ]
  BY <1>2 DEF WellTyped, Listed, With
<1>3. CASE n > f.maxFingerID
  <2>1. g = [ f EXCEPT !.cursors = With(f, s, n), !.maxFingerID = n ]
    BY <1>3 DEF Added
  <2>2. /\ g.cursors = With(f, s, n) /\ g.maxFingerID = n /\ g.free = f.free
        /\ g = [ cursors |-> g.cursors, free |-> g.free, maxFingerID |-> g.maxFingerID ]
    BY <2>1 DEF WellTyped
  <2> HIDE DEF n
  <2>3. g.cursors \in [ Listed(f) \cup {s} -> Ids ]
    BY <1>1, <1>2, <2>2
  <2>4. QED
    BY <1>1, <2>2, <2>3 DEF WellTyped, Listed
<1>4. CASE ~ (n > f.maxFingerID)
  <2>1. PICK i \in Free(f) :
          g = [ f EXCEPT !.cursors = With(f, s, i), !.free[i] = @ - 1 ]
    BY <1>4 DEF Added
  <2>2. /\ g.cursors = With(f, s, i) /\ g.maxFingerID = f.maxFingerID
        /\ g.free = [ f.free EXCEPT ![i] = @ - 1 ]
        /\ g = [ cursors |-> g.cursors, free |-> g.free, maxFingerID |-> g.maxFingerID ]
    BY <2>1 DEF WellTyped
  <2>3. i \in Ids /\ f.free[i] > 0 /\ f.free[i] - 1 \in Nat
    BY DEF Free, WellTyped
  <2>4. g.cursors \in [ Listed(f) \cup {s} -> Ids ]
    BY <1>2, <2>2, <2>3
  <2>5. g.free \in [ Ids -> Nat ]
    BY <2>2, <2>3 DEF WellTyped
  <2>6. QED
    BY <2>2, <2>4, <2>5 DEF WellTyped, Listed
<1>5. QED
  BY <1>3, <1>4

LEMMA AddedLists ==
  ASSUME NEW f, WellTyped(f), NEW s, NEW g \in Added(f, s)
  PROVE  Listed(g) = Listed(f) \cup {s}
<1>1. \E i : g.cursors = With(f, s, i)
  BY DEF Added, WellTyped
<1>2. QED
  BY <1>1 DEF With, Listed

\* A new cursor takes the next number, or a number that is free.
LEMMA AddedKeepsDealt ==
  ASSUME NEW f, Dealt(f), NEW s \in Sessions, s \notin Listed(f),
         Cardinality(Listed(f)) < MaxFingers, NEW g \in Added(f, s)
  PROVE  Dealt(g)
<1> DEFINE n == Cardinality(Listed(f))
           m == f.maxFingerID
<1>1. WellTyped(f) /\ WellTyped(g) /\ OneEach(f) /\ Dense(f)
  BY AddedKeepsTypes DEF Dealt
<1>2. /\ n \in Nat /\ n \in Ids /\ m \in Int /\ -1 <= m /\ Used(f) \subseteq Ids
      /\ m \in Ids \cup {-1}
  BY <1>1, UsedIsImage, IdsAreNumbers DEF WellTyped
<1>3. ASSUME NEW i \in Ids, i \notin Used(f), g.cursors = With(f, s, i)
      PROVE  OneEach(g) /\ Used(g) = Used(f) \cup {i}
  <2>1. Listed(g) = Listed(f) \cup {s} /\ \A t \in Listed(f) : g.cursors[t] = f.cursors[t]
    BY <1>3 DEF With, Listed
  <2>2. g.cursors[s] = i
    BY <1>3 DEF With
  <2>3. \A t \in Listed(f) : f.cursors[t] # i
    BY <1>3 DEF Used
  <2>4. OneEach(g)
    BY <1>1, <2>1, <2>2, <2>3 DEF OneEach
  <2>5. QED
    BY <2>1, <2>2, <2>4 DEF Used
<1>4. CASE n > m
  <2>1. g = [ f EXCEPT !.cursors = With(f, s, n), !.maxFingerID = n ]
    BY <1>4 DEF Added
  <2>2. g.cursors = With(f, s, n) /\ g.maxFingerID = n /\ g.free = f.free
    BY <1>1, <2>1 DEF WellTyped
  <2>3. n = m + 1 /\ Used(f) = 0 .. m
    BY <1>4, NextIdIsNumber
  <2> HIDE DEF n, m
  <2>4. n \notin Used(f) /\ 0 .. n = (0 .. m) \cup {n}
    BY <1>2, <2>3
  <2>5. OneEach(g) /\ Used(g) = 0 .. n
    BY <1>2, <1>3, <2>2, <2>3, <2>4
  <2>6. Free(g) = {}
    <3>1. Free(f) \subseteq 0 .. m /\ Used(f) \cap Free(f) = {}
      BY <1>1 DEF Dense, m
    <3>2. QED
      BY <2>2, <2>3, <3>1 DEF Free
  <2>7. LargestOf(Used(g)) = n
    <3>1. Used(g) \subseteq Ids /\ n \in Used(g) /\ \A x \in Used(g) : x <= n
      BY <1>1, <1>2, <2>5, UsedIsImage
    <3>2. QED
      BY <3>1, LargestOfKnown
  <2>8. \A i \in Ids : g.free[i] <= 1
    BY <1>1, <2>2 DEF Dense
  <2>9. Dense(g)
    BY <2>2, <2>5, <2>6, <2>7, <2>8 DEF Dense
  <2>10. QED
    BY <1>1, <2>5, <2>9 DEF Dealt
<1>5. CASE ~ (n > m)
  <2>1. PICK i \in Free(f) :
          g = [ f EXCEPT !.cursors = With(f, s, i), !.free[i] = @ - 1 ]
    BY <1>5 DEF Added
  <2>2. /\ g.cursors = With(f, s, i) /\ g.maxFingerID = m
        /\ g.free = [ f.free EXCEPT ![i] = @ - 1 ]
    BY <1>1, <2>1 DEF WellTyped
  <2>3. i \in Ids /\ i \notin Used(f) /\ f.free[i] = 1
    <3>1. i \in Ids /\ f.free[i] > 0 /\ f.free[i] <= 1 /\ f.free[i] \in Nat /\ i \notin Used(f)
      BY <1>1 DEF Free, Dense, WellTyped
    <3>2. QED
      BY <3>1
  <2>4. OneEach(g) /\ Used(g) = Used(f) \cup {i}
    BY <1>3, <2>2, <2>3
  <2>5. /\ Free(g) = Free(f) \ {i}
        /\ \A j \in Ids : g.free[j] <= 1
    <3>1. \A j \in Ids : g.free[j] = IF j = i THEN 0 ELSE f.free[j]
      BY <1>1, <2>2, <2>3 DEF WellTyped
    <3>2. \A j \in Ids : f.free[j] <= 1
      BY <1>1 DEF Dense
    <3>3. \A j \in Ids : g.free[j] > 0 <=> f.free[j] > 0 /\ j # i
      BY <3>1
    <3>4. QED
      BY <3>1, <3>2, <3>3 DEF Free
  <2>6. /\ Used(f) \cap Free(f) = {} /\ Used(f) \cup Free(f) = 0 .. m
        /\ m = LargestOf(Used(f))
    BY <1>1 DEF Dense
  <2>7. m \in Used(f)
    <3>1. Used(f) # {}
      <4>1. SUFFICES ASSUME Used(f) = {} PROVE FALSE
        OBVIOUS
      <4>2. m = -1
        BY <1>2, <2>6, <4>1, LargestOfSome
      <4>3. i \in 0 .. m
        BY <2>6
      <4>4. QED
        BY <4>2, <4>3
    <3>2. QED
      BY <1>2, <2>6, <3>1, LargestOfSome
  <2>8. LargestOf(Used(g)) = m
    <3>1. Used(g) \subseteq Ids /\ m \in Used(g)
      BY <1>1, <2>4, <2>7, UsedIsImage
    <3>2. Used(g) \subseteq 0 .. m
      BY <2>4, <2>6
    <3>3. \A x \in Used(g) : x <= m
      BY <3>2
    <3>4. QED
      BY <3>1, <3>3, LargestOfKnown
  <2> HIDE DEF m
  <2>9. Used(g) \cap Free(g) = {} /\ Used(g) \cup Free(g) = 0 .. m
    BY <2>4, <2>5, <2>6
  <2>10. Dense(g)
    BY <2>2, <2>5, <2>8, <2>9 DEF Dense
  <2>11. QED
    BY <1>1, <2>4, <2>10 DEF Dealt
<1>6. QED
  BY <1>4, <1>5

\* What is left of the lists when a cursor is removed.
LEMMA RemovedFields ==
  ASSUME NEW f, WellTyped(f), NEW s \in Listed(f)
  PROVE  LET g == Removed(f, s)
             id == f.cursors[s]
         IN  /\ g = [ cursors |-> g.cursors, free |-> g.free, maxFingerID |-> g.maxFingerID ]
             /\ g.cursors = Without(f, s)
             /\ id = f.maxFingerID =>
                  /\ g.maxFingerID = LargestOf(Used(g))
                  /\ g.free = IF Used(g) = {} THEN f.free
                              ELSE [ i \in Ids |-> IF i > LargestOf(Used(g)) THEN 0
                                                   ELSE f.free[i] ]
             /\ id # f.maxFingerID => g.maxFingerID = f.maxFingerID
             /\ id # f.maxFingerID /\ id < f.maxFingerID =>
                  g.free = [ f.free EXCEPT ![id] = @ + 1 ]
             /\ id # f.maxFingerID /\ ~ (id < f.maxFingerID) => g.free = f.free
<1> DEFINE rest == [ f EXCEPT !.cursors = Without(f, s) ]
           largest == LargestOf(Used(rest))
           id == f.cursors[s]
           kept == IF Used(rest) = {} THEN rest.free
                   ELSE [ i \in Ids |-> IF i > largest THEN 0 ELSE rest.free[i] ]
           g == Removed(f, s)
<1>1. rest = [ cursors |-> Without(f, s), free |-> f.free, maxFingerID |-> f.maxFingerID ]
  BY DEF WellTyped
<1>2. /\ id = f.maxFingerID => g = [ rest EXCEPT !.maxFingerID = largest, !.free = kept ]
      /\ id # f.maxFingerID /\ id < f.maxFingerID => g = [ rest EXCEPT !.free[id] = @ + 1 ]
      /\ id # f.maxFingerID /\ ~ (id < f.maxFingerID) => g = rest
  BY DEF Removed
<1>3. ASSUME g.cursors = Without(f, s) PROVE Used(rest) = Used(g)
  BY <1>1, <1>3 DEF Used, Listed
<1>4. rest.free = f.free
  BY <1>1
<1>5. Used(rest) = Used(g) =>
        /\ largest = LargestOf(Used(g))
        /\ kept = IF Used(g) = {} THEN f.free
                  ELSE [ i \in Ids |-> IF i > LargestOf(Used(g)) THEN 0 ELSE f.free[i] ]
  BY <1>4
<1> HIDE DEF rest, largest, id, kept, g
<1>6. CASE id = f.maxFingerID
  <2>1. g = [ cursors |-> Without(f, s), free |-> kept, maxFingerID |-> largest ]
    BY <1>1, <1>2, <1>6
  <2>2. QED
    BY <1>3, <1>5, <1>6, <2>1 DEF id, g
<1>7. CASE id # f.maxFingerID /\ id < f.maxFingerID
  <2>1. g = [ cursors |-> Without(f, s), free |-> [ f.free EXCEPT ![id] = @ + 1 ],
              maxFingerID |-> f.maxFingerID ]
    BY <1>1, <1>2, <1>7
  <2>2. QED
    BY <1>7, <2>1 DEF id, g
<1>8. CASE id # f.maxFingerID /\ ~ (id < f.maxFingerID)
  BY <1>1, <1>2, <1>8 DEF id, g
<1>9. QED
  BY <1>6, <1>7, <1>8

LEMMA RemovedKeepsTypes ==
  ASSUME NEW f, WellTyped(f), NEW s \in Listed(f)
  PROVE  WellTyped(Removed(f, s))
<1> DEFINE g == Removed(f, s)
           id == f.cursors[s]
<1>1. id \in Ids
  BY DEF WellTyped
<1>2. Without(f, s) \in [ Listed(f) \ {s} -> Ids ]
  BY DEF WellTyped, Without
<1>3. g.cursors = Without(f, s)
  BY RemovedFields
<1>4. Used(g) \subseteq Ids /\ Listed(g) = Listed(f) \ {s}
  BY <1>2, <1>3 DEF Used, Listed
<1>5. LargestOf(Used(g)) \in Ids \cup {-1}
  BY <1>4, LargestOfSome
<1>6. /\ [ f.free EXCEPT ![id] = @ + 1 ] \in [ Ids -> Nat ]
      /\ f.free \in [ Ids -> Nat ]
      /\ [ i \in Ids |-> IF i > LargestOf(Used(g)) THEN 0 ELSE f.free[i] ] \in [ Ids -> Nat ]
  BY <1>1 DEF WellTyped
<1>7. g.maxFingerID \in Ids \cup {-1}
  BY <1>5, RemovedFields DEF WellTyped
<1>8. g.free \in [ Ids -> Nat ]
  BY <1>6, RemovedFields
<1>9. g = [ cursors |-> g.cursors, free |-> g.free, maxFingerID |-> g.maxFingerID ]
  BY RemovedFields
<1> HIDE DEF g
<1>10. WellTyped(g)
  BY <1>2, <1>3, <1>4, <1>7, <1>8, <1>9 DEF WellTyped
<1>11. QED
  BY <1>10 DEF g

\* A cursor that goes leaves its id free, or lowers the largest; the last one
\* lowers it below the ids that are free, and these are left behind.
LEMMA RemovedKeepsDealt ==
  ASSUME NEW f, Dealt(f), NEW s \in Listed(f)
  PROVE  Dealt(Removed(f, s)) \/ LeavesIdsBehind(Removed(f, s))
<1> DEFINE g == Removed(f, s)
           id == f.cursors[s]
           m == f.maxFingerID
<1>1. WellTyped(f) /\ WellTyped(g) /\ OneEach(f) /\ Dense(f) /\ g.cursors = Without(f, s)
  BY RemovedKeepsTypes, RemovedFields DEF Dealt
<1>2. /\ Used(f) \subseteq Ids /\ Used(g) \subseteq Ids /\ id \in Used(f)
      /\ m = LargestOf(Used(f)) /\ Used(f) \cap Free(f) = {}
      /\ Used(f) \cup Free(f) = 0 .. m
  BY <1>1, UsedIsImage DEF Used, Dense
<1>3. /\ id \in Nat /\ m \in Int /\ id <= m /\ m \in Used(f)
      /\ \A i \in Ids : f.free[i] \in Nat /\ f.free[i] <= 1
  <2>1. id \in Nat /\ m \in Used(f) /\ m \in Int /\ id <= m
    BY <1>2, IdsAreNumbers, LargestOfSome
  <2>2. QED
    BY <1>1, <2>1 DEF WellTyped, Dense
<1>4. Listed(g) = Listed(f) \ {s} /\ \A t \in Listed(g) : g.cursors[t] = f.cursors[t]
  BY <1>1 DEF Without, Listed
<1>5. OneEach(g)
  BY <1>1, <1>4 DEF OneEach
<1>6. Used(g) = Used(f) \ {id}
  <2>1. \A t \in Listed(f) : f.cursors[t] = id => t = s
    BY <1>1 DEF OneEach
  <2>2. QED
    BY <1>4, <2>1 DEF Used
<1>7. CASE id # m
  <2>1. id < m
    BY <1>3, <1>7
  <2>2. g.maxFingerID = m /\ g.free = [ f.free EXCEPT ![id] = @ + 1 ]
    BY <1>1, <1>7, <2>1, RemovedFields
  <2>3. \A j \in Ids : g.free[j] = IF j = id THEN f.free[id] + 1 ELSE f.free[j]
    BY <1>1, <2>2 DEF WellTyped
  <2>4. id \in Ids /\ f.free[id] = 0
    <3>1. id \in Ids /\ id \notin Free(f)
      BY <1>2
    <3>2. ~ (f.free[id] > 0)
      BY <3>1 DEF Free
    <3>3. QED
      BY <1>3, <3>1, <3>2
  <2> HIDE DEF g, id, m
  <2>5. \A j \in Ids : /\ g.free[j] > 0 <=> j = id \/ f.free[j] > 0
                       /\ g.free[j] <= 1
    BY <1>3, <2>3, <2>4
  <2>6. Free(g) = Free(f) \cup {id}
    BY <2>4, <2>5 DEF Free
  <2>7. LargestOf(Used(g)) = m
    <3>1. m \in Used(g) /\ Used(g) \subseteq 0 .. m
      BY <1>2, <1>3, <1>6, <1>7
    <3>2. \A x \in Used(g) : x <= m
      BY <3>1
    <3>3. QED
      BY <1>2, <3>1, <3>2, LargestOfKnown
  <2>8. Used(g) \cap Free(g) = {} /\ Used(g) \cup Free(g) = 0 .. m
    BY <1>2, <1>6, <2>6
  <2>9. Dense(g)
    BY <2>2, <2>5, <2>7, <2>8 DEF Dense
  <2>10. QED
    BY <1>1, <1>5, <2>9 DEF Dealt, g
<1>8. CASE id = m /\ Used(g) # {}
  <2> DEFINE l == LargestOf(Used(g))
  <2>1. /\ g.maxFingerID = l
        /\ g.free = [ i \in Ids |-> IF i > l THEN 0 ELSE f.free[i] ]
    BY <1>1, <1>8, RemovedFields
  <2>2. /\ l \in Used(g) /\ l \in Int /\ \A x \in Used(g) : x <= l
    BY <1>2, <1>8, LargestOfSome
  <2> HIDE DEF g, id, m, l
  <2>3. \A j \in Ids : /\ g.free[j] > 0 <=> f.free[j] > 0 /\ j <= l
                       /\ g.free[j] <= 1
    <3>1. \A j \in Ids : j \in Int
      BY IdsAreNumbers
    <3>2. QED
      BY <1>3, <2>1, <2>2, <3>1
  <2>4. Free(g) = { j \in Free(f) : j <= l }
    BY <2>3 DEF Free
  <2>5. l \in 0 .. m
    BY <1>2, <1>6, <2>2
  <2>6. Used(g) \cup Free(g) = 0 .. l
    <3>1. ASSUME NEW j \in 0 .. l PROVE j \in Used(g) \cup Free(g)
      <4>1. j \in 0 .. m /\ j <= l
        BY <1>3, <2>5
      <4>2. j \in Used(f) \/ j \in Free(f)
        BY <1>2, <4>1
      <4>3. j \in Used(f) => j \in Used(g)
        <5>1. m \notin Used(g) /\ m # l
          BY <1>6, <1>8, <2>2
        <5>2. j # m
          BY <1>3, <2>5, <4>1, <5>1
        <5>3. QED
          BY <1>6, <1>8, <5>2
      <4>4. QED
        BY <2>4, <4>1, <4>2, <4>3
    <3>2. ASSUME NEW j \in Used(g) \cup Free(g) PROVE j \in 0 .. l
      <4>1. j <= l
        BY <2>2, <2>4
      <4>2. j \in 0 .. m
        BY <1>2, <1>6, <2>4
      <4>3. QED
        BY <2>5, <4>1, <4>2
    <3>3. QED
      BY <3>1, <3>2
  <2>7. Used(g) \cap Free(g) = {}
    BY <1>2, <1>6, <2>4
  <2>8. Dense(g)
    BY <2>1, <2>3, <2>6, <2>7 DEF Dense, l
  <2>9. QED
    BY <1>1, <1>5, <2>8 DEF Dealt, g
<1>9. CASE id = m /\ Used(g) = {}
  <2>1. g.maxFingerID = LargestOf(Used(g)) /\ g.free = f.free
    BY <1>1, <1>9, RemovedFields
  <2>2. g.maxFingerID = -1
    BY <1>2, <1>9, <2>1, LargestOfSome
  <2>3. CASE Free(g) # {}
    BY <1>9, <2>3 DEF LeavesIdsBehind
  <2>4. CASE Free(g) = {}
    <3>1. \A j \in Ids : g.free[j] <= 1
      BY <1>3, <2>1
    <3>2. Used(g) \cup Free(g) = 0 .. g.maxFingerID
      BY <1>9, <2>2, <2>4
    <3>3. Dense(g)
      BY <1>9, <2>1, <3>1, <3>2 DEF Dense
    <3>4. QED
      BY <1>1, <1>5, <3>3 DEF Dealt
  <2>5. QED
    BY <2>3, <2>4
<1>10. QED
  BY <1>7, <1>8, <1>9

-----------------------------------------------------------------------------
(* The theorems on ids.                                                    *)

IdsInv ==
  /\ WellTyped(fingers) /\ leftover \in BOOLEAN
  /\ ~ leftover => Dealt(fingers)

LEMMA IdsInitInv == IdsInit => IdsInv
<1> SUFFICES ASSUME IdsInit PROVE IdsInv
  OBVIOUS
<1> DEFINE f == NoFingers
<1>1. fingers = f
  BY DEF IdsInit
<1>2. /\ f.cursors = [ s \in {} |-> 0 ] /\ f.free = [ i \in Ids |-> 0 ]
      /\ f.maxFingerID = -1
      /\ f = [ cursors |-> f.cursors, free |-> f.free, maxFingerID |-> f.maxFingerID ]
  BY DEF NoFingers
<1> HIDE DEF f
<1>3. Listed(f) = {} /\ Used(f) = {} /\ Free(f) = {}
  BY <1>2 DEF Listed, Used, Free
<1>4. f.cursors \in [ {} -> Ids ]
  BY <1>2
<1>5. WellTyped(f)
  BY <1>2, <1>3, <1>4 DEF WellTyped
<1>6. 0 .. -1 = {}
  OBVIOUS
<1>7. Dense(f)
  BY <1>2, <1>3, <1>6 DEF Dense, LargestOf
<1>8. leftover \in BOOLEAN
  BY DEF IdsInit
<1>9. QED
  BY <1>1, <1>3, <1>5, <1>7, <1>8 DEF IdsInv, Dealt, OneEach

LEMMA CursorAddedKeeps ==
  ASSUME IdsInv, NEW s \in Sessions, CursorAdded(s)
  PROVE  IdsInv'
<1>1. /\ s \notin Listed(fingers) /\ Cardinality(Listed(fingers)) < MaxFingers
      /\ fingers' \in Added(fingers, s) /\ leftover' = leftover
  BY DEF CursorAdded
<1>2. WellTyped(fingers')
  BY <1>1, AddedKeepsTypes DEF IdsInv
<1>3. ~ leftover => Dealt(fingers')
  BY <1>1, AddedKeepsDealt DEF IdsInv
<1>4. leftover' \in BOOLEAN
  BY <1>1 DEF IdsInv
<1>5. QED
  BY <1>1, <1>2, <1>3, <1>4 DEF IdsInv, Dealt, WellTyped, OneEach, Dense, Listed, Used, Free

LEMMA CursorRemovedKeeps ==
  ASSUME IdsInv, NEW s \in Sessions, CursorRemoved(s)
  PROVE  IdsInv'
<1>1. /\ s \in Listed(fingers) /\ fingers' = Removed(fingers, s)
      /\ leftover' = (leftover \/ LeavesIdsBehind(fingers'))
  BY DEF CursorRemoved
<1>2. WellTyped(fingers')
  BY <1>1, RemovedKeepsTypes DEF IdsInv
<1>3. ~ leftover' => Dealt(fingers')
  BY <1>1, RemovedKeepsDealt DEF IdsInv
<1>4. leftover' \in BOOLEAN
  BY <1>1
<1>5. QED
  BY <1>2, <1>3, <1>4 DEF IdsInv, Dealt, WellTyped, OneEach, Dense, Listed, Used, Free

LEMMA DealtIsOnce == IdsInv => IdsAreDealtOnce
<1> SUFFICES ASSUME WellTyped(fingers), Dealt(fingers)
             PROVE  /\ Cardinality(Used(fingers)) = Cardinality(Listed(fingers))
                    /\ Dense(fingers)
  BY DEF IdsInv, IdsAreDealtOnce, Dense
<1>1. QED
  BY UsedIsImage DEF Dealt

LEMMA IdsInvStep == ASSUME IdsInv, [IdsNext]_idVars PROVE IdsInv'
<1>1. CASE UNCHANGED idVars
  BY <1>1 DEF idVars, IdsInv, Dealt, WellTyped, OneEach, Dense, Listed, Used, Free
<1>2. QED
  BY <1>1, CursorAddedKeeps, CursorRemovedKeeps DEF IdsNext

LEMMA IdsInvHolds == IdsSpec => []IdsInv
BY IdsInvStep, IdsInitInv, PTL DEF IdsSpec

LEMMA FingersAreTyped == IdsInv => FingersTypeOK
BY UsedIsImage DEF IdsInv, WellTyped, FingersTypeOK

\* However many fingers come and go: until the free list has outlived the last
\* of them, two cursors have two ids, and the used and the free ids are the
\* numbers to the largest, each once.
THEOREM IdsStayDealtOnce == IdsSpec => []IdsAreDealtOnce
BY IdsInvHolds, DealtIsOnce, PTL

-----------------------------------------------------------------------------
(* The cursors that are removed in turn.                                   *)

LEMMA OrderHoldsAll ==
  ASSUME NEW S, IsFiniteSet(S), NEW order \in SetToSeqs(S)
  PROVE  /\ Cardinality(S) \in Nat /\ DOMAIN order = 1 .. Cardinality(S)
         /\ \A i \in DOMAIN order : order[i] \in S
         /\ ToSet(order) = S
<1> DEFINE n == Cardinality(S)
           D == 1 .. n
<1>1. n \in Nat
  BY FS_CardinalityType
<1>2. order \in [ D -> S ] /\ \A i, j \in D : i # j => order[i] # order[j]
  BY DEF SetToSeqs
<1>3. IsFiniteSet(D) /\ Cardinality(D) = n
  <2>1. Cardinality(D) = IF 1 > n THEN 0 ELSE n - 1 + 1
    BY <1>1, FS_Interval
  <2>2. QED
    BY <1>1, <2>1, FS_Interval
<1> HIDE DEF D
<1>4. order \in Injection(D, S)
  BY <1>2 DEF Injection, IsInjective
<1>5. order \in Surjection(D, S)
  BY <1>3, <1>4, FS_Injection
<1>6. \A x \in S : \E i \in D : order[i] = x
  BY <1>5 DEF Surjection
<1>7. ToSet(order) = S
  BY <1>2, <1>6 DEF ToSet
<1>8. QED
  BY <1>1, <1>2, <1>7 DEF D

\* What is left of the lists when some cursors have been removed.
LeftOf(r, gone) ==
  /\ WellTyped(r.fingers) /\ r.leftover \in BOOLEAN
  /\ r.leftover \/ Dealt(r.fingers)
  /\ Listed(r.fingers) = Listed(fingers) \ gone
  /\ \A s \in Listed(r.fingers) : r.fingers.cursors[s] = fingers.cursors[s]

LEMMA NextRemoval ==
  ASSUME NEW r, NEW gone, LeftOf(r, gone), NEW s
  PROVE  LeftOf(RemovedNext(r, s), gone \cup {s})
<1> DEFINE f == r.fingers
           g == Removed(f, s)
           next == RemovedNext(r, s)
<1>1. /\ WellTyped(f) /\ r.leftover \in BOOLEAN /\ (r.leftover \/ Dealt(f))
      /\ Listed(f) = Listed(fingers) \ gone
      /\ \A t \in Listed(f) : f.cursors[t] = fingers.cursors[t]
  BY DEF LeftOf
<1>2. CASE s \notin Listed(f)
  <2>1. next = r
    BY <1>2 DEF RemovedNext
  <2>2. QED
    BY <1>1, <1>2, <2>1 DEF LeftOf
<1>3. CASE s \in Listed(f)
  <2>1. next.fingers = g /\ next.leftover = (r.leftover \/ LeavesIdsBehind(g))
    BY <1>3 DEF RemovedNext
  <2>2. WellTyped(g)
    BY <1>1, <1>3, RemovedKeepsTypes
  <2>3. Dealt(f) => Dealt(g) \/ LeavesIdsBehind(g)
    BY <1>3, RemovedKeepsDealt
  <2>4. Listed(g) = Listed(f) \ {s} /\ \A t \in Listed(g) : g.cursors[t] = f.cursors[t]
    <3>1. g.cursors = Without(f, s)
      BY <1>1, <1>3, RemovedFields
    <3>2. QED
      BY <3>1 DEF Without, Listed
  <2> HIDE DEF f, g, next
  <2>5. next.leftover \in BOOLEAN /\ (next.leftover \/ Dealt(next.fingers))
    BY <1>1, <2>1, <2>3
  <2>6. Listed(next.fingers) = Listed(fingers) \ (gone \cup {s})
    BY <1>1, <2>1, <2>4
  <2>7. LeftOf(next, gone \cup {s})
    BY <1>1, <2>1, <2>2, <2>4, <2>5, <2>6 DEF LeftOf
  <2>8. QED
    BY <2>7 DEF next
<1>4. QED
  BY <1>2, <1>3

LEMMA RemovedInTurnKeeps ==
  ASSUME IdsInv, NEW order, NEW n \in Nat, DOMAIN order = 1 .. n
  PROVE  LeftOf(RemovedInTurn(order), ToSet(order))
<1> DEFINE base == [ fingers |-> fingers, leftover |-> leftover ]
           first(k) == { order[i] : i \in 1 .. k }
<1>1. PICK r : /\ r[0] = base /\ r[n] = Removals!Fold(base, order, 0)
               /\ \A k \in 0 .. n - 1 : r[k + 1] = RemovedNext(r[k], order[k + 1])
  BY Removals!FoldSteps DEF RemovedStep
<1> DEFINE K == { k \in 0 .. n : LeftOf(r[k], first(k)) }
<1>2. first(0) = {} /\ first(n) = ToSet(order)
  BY DEF ToSet
<1>3. ASSUME NEW k \in 0 .. n - 1 PROVE first(k + 1) = first(k) \cup {order[k + 1]}
  <2>1. 1 .. k + 1 = (1 .. k) \cup {k + 1}
    OBVIOUS
  <2>2. QED
    BY <2>1
<1>4. base.fingers = fingers /\ base.leftover = leftover
  OBVIOUS
<1> HIDE DEF first, base
<1>5. 0 \in K
  <2>1. LeftOf(base, {})
    BY <1>4 DEF LeftOf, IdsInv
  <2>2. LeftOf(r[0], first(0))
    BY <1>1, <1>2, <2>1
  <2>3. QED
    BY <2>2
<1>6. ASSUME NEW k \in 0 .. n - 1, k \in K PROVE k + 1 \in K
  <2>1. LeftOf(r[k], first(k))
    BY <1>6
  <2>2. LeftOf(RemovedNext(r[k], order[k + 1]), first(k) \cup {order[k + 1]})
    BY <2>1, NextRemoval
  <2>3. r[k + 1] = RemovedNext(r[k], order[k + 1])
    BY <1>1
  <2>4. first(k + 1) = first(k) \cup {order[k + 1]}
    BY <1>3
  <2>5. LeftOf(r[k + 1], first(k + 1))
    BY <2>2, <2>3, <2>4, Zenon
  <2>6. k + 1 \in 0 .. n
    OBVIOUS
  <2>7. QED
    BY <2>5, <2>6
<1> HIDE DEF K
<1>7. \A k \in 0 .. n : k \in K
  BY <1>5, <1>6, Removals!UpTo
<1>8. n \in K
  BY <1>7
<1>9. LeftOf(r[n], ToSet(order))
  BY <1>2, <1>8 DEF K
<1>10. QED
  BY <1>1, <1>9, RemovedInTurnFolds DEF base

-----------------------------------------------------------------------------
(* What the client keeps while bundles are lost, late, doubled or dropped. *)

\* The sessions of a bundle: the surface has room for so many fingers.
Alives == { S \in SUBSET Sessions : Cardinality(S) <= MaxFingers }

Numbers == 1 .. MaxFrame

Bundles ==
  [ profile : Profiles, frame : Numbers, alive : Alives, set : SUBSET Sessions, copies : Int ]

Messages ==
       [ kind : {"alive"}, profile : Profiles, alive : Alives ]
  \cup [ kind : {"set"}, profile : Profiles, sid : Sessions ]
  \cup [ kind : {"fseq"}, frame : Numbers ]

\* A bundle sets only what it has said to be alive.
NetworkOK ==
  /\ frame \in 0 .. MaxFrame
  /\ \A b \in network : b \in Bundles /\ b.set \subseteq b.alive

\* What is left of a bundle once its first message is handled: what it sets,
\* of its own profile and alive, and last its frame number.
Rest(q, profile, alive) ==
  \A i \in 1 .. Len(q) :
    /\ q[i].kind # "alive"
    /\ q[i].kind = "fseq" <=> i = Len(q)
    /\ q[i].kind = "set" => q[i].profile = profile /\ q[i].sid \in alive

\* The receiver's queue holds one bundle, or the rest of one.
InboxOK ==
  /\ inbox \in Seq(Messages)
  /\ bundle.alive \in Alives
  /\ \/ Rest(inbox, bundle.profile, bundle.alive)
     \/ /\ inbox # <<>> /\ Head(inbox).kind = "alive" /\ Tail(inbox) # <<>>
        /\ Rest(Tail(inbox), Head(inbox).profile, Head(inbox).alive)

\* After a bundle in order, the next is not taken for an old one.
FramesOK ==
  /\ currentFrame \in Numbers \cup {-1} /\ lastFrame \in Numbers \cup {-1}
  /\ currentFrame = -1 => lastFrame = -1
  /\ inOrder \in {0, 1, 2}
  /\ inOrder # 0 => ~ Outdated

Applied == aliveLists[bundle.profile] = bundle.alive

\* A bundle that is not an old one has been applied before it sets anything.
AppliedOK ==
  /\ aliveLists \in [ Profiles -> SUBSET Sessions ]
  /\ inbox # <<>> /\ Head(inbox).kind # "alive" /\ ~ Outdated => Applied
  /\ inbox = <<>> /\ inOrder = 2 => Applied

ListsOK ==
  /\ IdsInv
  /\ ListedIsAlive

TuioInv == NetworkOK /\ InboxOK /\ FramesOK /\ AppliedOK /\ ListsOK
LEMMA MessageFields ==
  ASSUME NEW m \in Messages
  PROVE  /\ m.kind \in {"alive", "set", "fseq"}
         /\ m.kind = "alive" => m.profile \in Profiles /\ m.alive \in Alives
         /\ m.kind = "set" => m.profile \in Profiles /\ m.sid \in Sessions
         /\ m.kind = "fseq" => m.frame \in Numbers
BY DEF Messages

LEMMA RestOfRest ==
  ASSUME NEW q \in Seq(Messages), q # <<>>, NEW profile, NEW alive, Rest(q, profile, alive)
  PROVE  /\ Rest(Tail(q), profile, alive)
         /\ Head(q).kind # "alive"
         /\ Head(q).kind = "fseq" => Tail(q) = <<>>
         /\ Head(q).kind = "set" => Head(q).profile = profile /\ Head(q).sid \in alive
<1>1. /\ Tail(q) \in Seq(Messages) /\ Len(q) \in Nat /\ Len(q) > 0
      /\ Len(Tail(q)) = Len(q) - 1 /\ \A i \in 1 .. Len(Tail(q)) : Tail(q)[i] = q[i + 1]
  BY HeadTailProperties, EmptySeq, LenProperties
<1>2. \A i \in 1 .. Len(q) :
        /\ q[i].kind # "alive"
        /\ q[i].kind = "fseq" <=> i = Len(q)
        /\ q[i].kind = "set" => q[i].profile = profile /\ q[i].sid \in alive
  BY DEF Rest
<1>3. Head(q) = q[1] /\ 1 \in 1 .. Len(q)
  BY <1>1
<1>4. Rest(Tail(q), profile, alive)
  <2>1. ASSUME NEW i \in 1 .. Len(Tail(q))
        PROVE  Tail(q)[i] = q[i + 1] /\ i + 1 \in 1 .. Len(q)
               /\ (i + 1 = Len(q) <=> i = Len(Tail(q)))
    BY <1>1
  <2>2. QED
    BY <1>2, <2>1 DEF Rest
<1>5. Head(q).kind = "fseq" => Tail(q) = <<>>
  <2>1. q[1].kind = "fseq" <=> 1 = Len(q)
    BY <1>2, <1>3
  <2>2. 1 = Len(q) => Len(Tail(q)) = 0
    <3> DEFINE k == Len(q)
               l == Len(Tail(q))
    <3>1. k \in Nat /\ l = k - 1
      BY <1>1
    <3> HIDE DEF k, l
    <3>2. 1 = k => l = 0
      BY <3>1
    <3>3. QED
      BY <3>2 DEF k, l
  <2>3. QED
    BY <1>1, <1>3, <2>1, <2>2, EmptySeq
<1>6. QED
  BY <1>2, <1>3, <1>4, <1>5

LEMMA TuioInitInv == TuioInit => TuioInv
<1> SUFFICES ASSUME TuioInit PROVE TuioInv
  OBVIOUS
<1>1. NetworkOK
  BY MaxFrameAssumption DEF TuioInit, NetworkOK
<1>2. InboxOK
  <2>1. inbox = <<>> /\ bundle.alive = {}
    BY DEF TuioInit
  <2>2. {} \in Alives
    BY FS_EmptySet, IdsAreNumbers DEF Alives
  <2>3. Len(inbox) = 0 /\ inbox \in Seq(Messages)
    BY <2>1, EmptySeq
  <2>4. Rest(inbox, bundle.profile, bundle.alive)
    BY <2>3 DEF Rest
  <2>5. QED
    BY <2>1, <2>2, <2>3, <2>4 DEF InboxOK
<1>3. FramesOK
  BY DEF TuioInit, FramesOK, Outdated
<1>4. AppliedOK
  BY DEF TuioInit, AppliedOK
<1>5. ListsOK
  <2>1. IdsInv
    BY IdsInitInv DEF TuioInit
  <2>2. Listed(fingers) = {} /\ objectList = {}
    BY DEF TuioInit, IdsInit, NoFingers, Listed
  <2>3. QED
    BY <2>1, <2>2 DEF ListsOK, ListedIsAlive
<1>6. QED
  BY <1>1, <1>2, <1>3, <1>4, <1>5 DEF TuioInv

-----------------------------------------------------------------------------
(* The steps of the tracker and of the network.                            *)

LEMMA ListsRest ==
  ASSUME ListsOK, UNCHANGED <<fingers, leftover, objectList, aliveLists>>
  PROVE  ListsOK'
BY DEF ListsOK, ListedIsAlive, IdsInv, Dealt, WellTyped, OneEach, Dense, Listed, Used, Free

LEMMA FramesRest ==
  ASSUME FramesOK, UNCHANGED <<currentFrame, lastFrame, inOrder>>
  PROVE  FramesOK'
BY DEF FramesOK, Outdated

LEMMA ClientRests ==
  ASSUME TuioInv, UNCHANGED <<inbox, fingers, leftover, objectList, aliveLists, currentFrame,
                              lastFrame, bundle, inOrder>>
  PROVE  InboxOK' /\ FramesOK' /\ AppliedOK' /\ ListsOK'
<1>1. InboxOK'
  BY DEF TuioInv, InboxOK, Rest
<1>2. FramesOK'
  BY FramesRest DEF TuioInv
<1>3. AppliedOK'
  BY DEF TuioInv, AppliedOK, Applied, Outdated
<1>4. ListsOK'
  BY ListsRest DEF TuioInv
<1>5. QED
  BY <1>1, <1>2, <1>3, <1>4

LEMMA SendKeeps ==
  ASSUME TuioInv, NEW p \in Profiles, NEW now \in SUBSET Sessions, NEW moved \in SUBSET now,
         NEW copies \in 1 .. 2, Send(p, now, moved, copies)
  PROVE  TuioInv'
<1> DEFINE b == [ profile |-> p, frame |-> frame', alive |-> now, set |-> moved,
                  copies |-> copies ]
<1>1. /\ UNCHANGED <<clientVars, bundle, inOrder>>
      /\ frame' = frame + 1 /\ network' = network \cup {b} /\ Cardinality(now) <= MaxSeen
      /\ frame < MaxFrame
  BY DEF Send
<1>2. frame \in 0 .. MaxFrame /\ \A c \in network : c \in Bundles /\ c.set \subseteq c.alive
  BY DEF TuioInv, NetworkOK
<1>3. b \in Bundles /\ b.set \subseteq b.alive
  <2>1. Cardinality(now) <= MaxFingers
    BY <1>1, MaxSeenAssumption, IdsAreNumbers, SessionsAssumption, FS_Subset, FS_CardinalityType
  <2>2. frame' \in Numbers /\ now \in Alives /\ moved \in SUBSET Sessions /\ copies \in Int
    BY <1>1, <1>2, <2>1, MaxFrameAssumption DEF Numbers, Alives
  <2>3. QED
    BY <2>2 DEF Bundles
<1> HIDE DEF b
<1>4. NetworkOK'
  <2>1. frame' \in 0 .. MaxFrame
    BY <1>1, <1>2, MaxFrameAssumption
  <2>2. QED
    BY <1>1, <1>2, <1>3, <2>1 DEF NetworkOK
<1>5. InboxOK' /\ FramesOK' /\ AppliedOK' /\ ListsOK'
  BY <1>1, ClientRests DEF clientVars
<1>6. QED
  BY <1>4, <1>5 DEF TuioInv

LEMMA RestartOrLoseKeeps ==
  ASSUME TuioInv, RestartTracker \/ \E b \in network : Lose(b)
  PROVE  TuioInv'
<1>1. UNCHANGED <<clientVars, bundle, inOrder>>
  BY DEF RestartTracker, Lose
<1>2. network' \subseteq network /\ frame' \in {0, frame}
  BY DEF RestartTracker, Lose
<1>3. NetworkOK'
  BY <1>2, MaxFrameAssumption DEF TuioInv, NetworkOK
<1>4. InboxOK' /\ FramesOK' /\ AppliedOK' /\ ListsOK'
  BY <1>1, ClientRests DEF clientVars
<1>5. QED
  BY <1>3, <1>4 DEF TuioInv
\* A bundle in the queue: its first message says what is alive, and the rest
\* is of it.
LEMMA MessagesAreABundle ==
  ASSUME NEW b \in Bundles, b.set \subseteq b.alive, NEW order \in SetToSeqs(b.set)
  PROVE  LET q == MessagesOf(b, order)
         IN  /\ q \in Seq(Messages) /\ q # <<>> /\ Tail(q) # <<>>
             /\ Head(q).kind = "alive"
             /\ Rest(Tail(q), Head(q).profile, Head(q).alive)
<1> DEFINE n == Cardinality(b.set)
           a == [ kind |-> "alive", profile |-> b.profile, alive |-> b.alive ]
           e(i) == [ kind |-> "set", profile |-> b.profile, sid |-> order[i] ]
           sets == [ i \in 1 .. n |-> e(i) ]
           z == [ kind |-> "fseq", frame |-> b.frame ]
           q == MessagesOf(b, order)
<1>1. b.profile \in Profiles /\ b.frame \in Numbers /\ b.alive \in Alives /\ b.set \in SUBSET Sessions
  BY DEF Bundles
<1>2. n \in Nat /\ DOMAIN order = 1 .. n /\ \A i \in 1 .. n : order[i] \in b.set
  <2>1. IsFiniteSet(b.set)
    BY <1>1, SessionsAssumption, FS_Subset
  <2>2. QED
    BY <2>1, OrderHoldsAll
<1>3. q = (<<a>> \o sets) \o <<z>>
  BY <1>2 DEF MessagesOf
<1>4. a \in Messages /\ z \in Messages
  BY <1>1 DEF Messages
<1>5. \A i \in 1 .. n : e(i) \in Messages
  <2>1. \A i \in 1 .. n : order[i] \in Sessions
    BY <1>1, <1>2
  <2>2. QED
    BY <1>1, <2>1 DEF Messages
<1>6. <<a>> \in Seq(Messages) /\ <<z>> \in Seq(Messages) /\ Len(<<a>>) = 1 /\ Len(<<z>>) = 1
  BY <1>4
<1>7. sets \in Seq(Messages) /\ Len(sets) = n
  <2>1. sets \in [ 1 .. n -> Messages ]
    BY <1>5
  <2> HIDE DEF sets
  <2>2. QED
    BY <1>2, <2>1
<1>8. \A i \in 1 .. n : sets[i] = e(i)
  OBVIOUS
<1>9. <<a>>[1] = a /\ <<z>>[1] = z
  OBVIOUS
<1> HIDE DEF sets, q, n
<1> DEFINE init == <<a>> \o sets
<1>10. /\ init \in Seq(Messages) /\ Len(init) = n + 1
       /\ init[1] = a /\ \A i \in 1 .. n : init[i + 1] = sets[i]
  <2>1. /\ init \in Seq(Messages) /\ Len(init) = Len(<<a>>) + Len(sets)
        /\ \A i \in 1 .. Len(<<a>>) + Len(sets) :
             init[i] = IF i <= Len(<<a>>) THEN <<a>>[i] ELSE sets[i - Len(<<a>>)]
    BY <1>6, <1>7, ConcatProperties
  <2>2. \A i \in 1 .. n + 1 : init[i] = IF i <= 1 THEN <<a>>[i] ELSE sets[i - 1]
    BY <1>2, <1>6, <1>7, <2>1
  <2> HIDE DEF init, a
  <2>3. Len(init) = n + 1
    BY <1>2, <1>6, <1>7, <2>1
  <2>4. init[1] = a
    BY <1>2, <1>9, <2>2
  <2>5. ASSUME NEW i \in 1 .. n PROVE init[i + 1] = sets[i]
    <3>1. i + 1 \in 1 .. n + 1 /\ ~ (i + 1 <= 1) /\ (i + 1) - 1 = i
      BY <1>2
    <3>2. QED
      BY <2>2, <3>1
  <2>6. QED
    BY <2>1, <2>3, <2>4, <2>5
<1> HIDE DEF init
<1>11. /\ q \in Seq(Messages) /\ Len(q) = n + 2
       /\ q[1] = a /\ q[n + 2] = z /\ \A i \in 1 .. n : q[i + 1] = sets[i]
  <2>1. /\ q \in Seq(Messages) /\ Len(q) = Len(init) + Len(<<z>>)
        /\ \A i \in 1 .. Len(init) + Len(<<z>>) :
             q[i] = IF i <= Len(init) THEN init[i] ELSE <<z>>[i - Len(init)]
    BY <1>3, <1>6, <1>10, ConcatProperties DEF init
  <2> HIDE DEF a, z
  <2>2. Len(q) = n + 2
    BY <1>2, <1>6, <1>10, <2>1
  <2>3. \A i \in 1 .. n + 2 : q[i] = IF i <= n + 1 THEN init[i] ELSE <<z>>[i - (n + 1)]
    BY <1>2, <1>6, <1>10, <2>1
  <2>4. q[1] = a
    <3>1. 1 \in 1 .. n + 2 /\ 1 <= n + 1
      BY <1>2
    <3>2. QED
      BY <1>10, <2>3, <3>1
  <2>5. q[n + 2] = z
    <3>1. n + 2 \in 1 .. n + 2 /\ ~ (n + 2 <= n + 1) /\ (n + 2) - (n + 1) = 1
      BY <1>2
    <3>2. QED
      BY <1>9, <2>3, <3>1
  <2>6. ASSUME NEW i \in 1 .. n PROVE q[i + 1] = sets[i]
    <3>1. i + 1 \in 1 .. n + 2 /\ i + 1 <= n + 1
      BY <1>2
    <3>2. QED
      BY <1>10, <2>3, <3>1
  <2>7. QED
    BY <2>1, <2>2, <2>4, <2>5, <2>6
<1>12. q # <<>>
  BY <1>2, <1>11, EmptySeq
<1>13. /\ Len(Tail(q)) = n + 1 /\ \A i \in 1 .. n + 1 : Tail(q)[i] = q[i + 1]
       /\ Tail(q) \in Seq(Messages) /\ Head(q) = q[1]
  BY <1>2, <1>11, <1>12, HeadTailProperties
<1>14. Tail(q) # <<>>
  <2>1. n + 1 # 0
    BY <1>2
  <2>2. Len(Tail(q)) # 0
    BY <1>13, <2>1
  <2>3. QED
    BY <2>2, EmptySeq
<1>15. Rest(Tail(q), b.profile, b.alive)
  <2>1. ASSUME NEW i \in 1 .. n
        PROVE  /\ Tail(q)[i].kind = "set" /\ Tail(q)[i].profile = b.profile
               /\ Tail(q)[i].sid \in b.alive
    <3>1. Tail(q)[i] = e(i)
      <4>1. i \in 1 .. n + 1
        BY <1>2
      <4>2. QED
        BY <1>8, <1>11, <1>13, <4>1
    <3>2. e(i).kind = "set" /\ e(i).profile = b.profile /\ e(i).sid = order[i]
      OBVIOUS
    <3>3. order[i] \in b.alive
      BY <1>2
    <3> HIDE DEF e
    <3>4. QED
      BY <3>1, <3>2, <3>3
  <2>2. Tail(q)[n + 1].kind = "fseq"
    <3>1. n + 1 \in 1 .. n + 1 /\ (n + 1) + 1 = n + 2
      BY <1>2
    <3>2. QED
      BY <1>11, <1>13, <3>1
  <2>3. ASSUME NEW i \in 1 .. n + 1 PROVE (i \in 1 .. n /\ i # n + 1) \/ i = n + 1
    BY <1>2
  <2>4. "set" # "alive" /\ "fseq" # "alive" /\ "set" # "fseq"
    OBVIOUS
  <2> DEFINE t == Tail(q)
  <2> HIDE DEF t
  <2>5. ASSUME NEW i \in 1 .. n + 1
        PROVE  /\ t[i].kind # "alive"
               /\ t[i].kind = "fseq" <=> i = n + 1
               /\ t[i].kind = "set" => t[i].profile = b.profile /\ t[i].sid \in b.alive
    <3>1. CASE i \in 1 .. n /\ i # n + 1
      BY <2>1, <2>4, <3>1 DEF t
    <3>2. CASE i = n + 1
      BY <2>2, <2>4, <3>2 DEF t
    <3>3. QED
      BY <2>3, <3>1, <3>2
  <2>6. Len(t) = n + 1
    BY <1>13 DEF t
  <2>7. Rest(t, b.profile, b.alive)
    BY <2>5, <2>6 DEF Rest
  <2>8. QED
    BY <2>7 DEF t
<1>16. Head(q).kind = "alive" /\ Head(q).profile = b.profile /\ Head(q).alive = b.alive
  BY <1>11, <1>13
<1>17. QED
  BY <1>11, <1>12, <1>14, <1>15, <1>16 DEF q

LEMMA DeliverKeeps ==
  ASSUME TuioInv, NEW b \in network, NEW order \in SetToSeqs(b.set), Deliver(b, order)
  PROVE  TuioInv'
<1>1. /\ inbox' = MessagesOf(b, order)
      /\ UNCHANGED <<frame, fingers, leftover, objectList, aliveLists, currentFrame, lastFrame,
                     bundle, inOrder>>
  BY DEF Deliver
<1>2. frame \in 0 .. MaxFrame /\ b \in Bundles /\ b.set \subseteq b.alive
  BY DEF TuioInv, NetworkOK
<1>3. NetworkOK'
  <2> DEFINE next == [ b EXCEPT !.copies = @ - 1 ]
  <2>1. network' = (network \ {b}) \cup { c \in {next} : c.copies > 0 }
    BY DEF Deliver
  <2>2. next \in Bundles /\ next.set \subseteq next.alive
    BY <1>2 DEF Bundles
  <2> HIDE DEF next
  <2>3. \A c \in network' : c \in network \/ c = next
    BY <2>1
  <2>4. QED
    BY <1>1, <2>2, <2>3 DEF TuioInv, NetworkOK
<1>4. /\ inbox' \in Seq(Messages) /\ inbox' # <<>> /\ Tail(inbox') # <<>>
      /\ Head(inbox').kind = "alive"
      /\ Rest(Tail(inbox'), Head(inbox').profile, Head(inbox').alive)
  BY <1>1, <1>2, MessagesAreABundle
<1>5. InboxOK'
  <2>1. bundle'.alive \in Alives
    BY <1>1 DEF TuioInv, InboxOK
  <2>2. QED
    BY <1>4, <2>1 DEF InboxOK, Rest
<1>6. FramesOK'
  BY <1>1, FramesRest DEF TuioInv
<1>7. AppliedOK'
  BY <1>1, <1>4 DEF TuioInv, AppliedOK
<1>8. ListsOK'
  BY <1>1, ListsRest DEF TuioInv
<1>9. QED
  BY <1>3, <1>5, <1>6, <1>7, <1>8 DEF TuioInv

-----------------------------------------------------------------------------
(* The messages that are handled.                                          *)

LEMMA CallKeeps ==
  ASSUME TuioInv, GetMessage \/ NoMoreMessages
  PROVE  TuioInv'
<1>1. UNCHANGED <<inbox, fingers, leftover, objectList, aliveLists, currentFrame, lastFrame,
                  trackerVars, bundle, inOrder>>
  BY DEF GetMessage, NoMoreMessages
<1>2. InboxOK' /\ FramesOK' /\ AppliedOK' /\ ListsOK'
  BY <1>1, ClientRests
<1>3. NetworkOK'
  BY <1>1 DEF TuioInv, NetworkOK, trackerVars
<1>4. QED
  BY <1>2, <1>3 DEF TuioInv

\* What the message at the head of the queue may be, and what is left.
LEMMA HeadOfBundle ==
  ASSUME InboxOK, inbox # <<>>
  PROVE  LET m == Head(inbox)
         IN  /\ m \in Messages /\ Tail(inbox) \in Seq(Messages) /\ bundle.alive \in Alives
             /\ m.kind = "alive" =>
                  Tail(inbox) # <<>> /\ Rest(Tail(inbox), m.profile, m.alive)
             /\ m.kind # "alive" => Rest(Tail(inbox), bundle.profile, bundle.alive)
             /\ m.kind = "fseq" => Tail(inbox) = <<>>
             /\ m.kind = "set" => m.profile = bundle.profile /\ m.sid \in bundle.alive
<1>1. inbox \in Seq(Messages) /\ bundle.alive \in Alives
  BY DEF InboxOK
<1>2. Head(inbox) \in Messages /\ Tail(inbox) \in Seq(Messages)
  BY <1>1, HeadTailProperties
<1>3. CASE Rest(inbox, bundle.profile, bundle.alive)
  BY <1>1, <1>2, <1>3, RestOfRest
<1>4. CASE /\ Head(inbox).kind = "alive" /\ Tail(inbox) # <<>>
           /\ Rest(Tail(inbox), Head(inbox).profile, Head(inbox).alive)
  <2>1. "alive" # "set" /\ "alive" # "fseq"
    OBVIOUS
  <2>2. QED
    BY <1>1, <1>2, <1>4, <2>1
<1>5. QED
  BY <1>3, <1>4 DEF InboxOK

LEMMA HandleInbox ==
  ASSUME InboxOK, Handle
  PROVE  InboxOK'
<1> DEFINE m == Head(inbox)
<1>1. /\ inbox # <<>> /\ inbox' = Tail(inbox)
      /\ bundle' = IF m.kind = "alive" THEN [ profile |-> m.profile, alive |-> m.alive ]
                   ELSE bundle
  BY DEF Handle
<1>2. /\ m \in Messages /\ Tail(inbox) \in Seq(Messages) /\ bundle.alive \in Alives
      /\ m.kind = "alive" => Rest(Tail(inbox), m.profile, m.alive)
      /\ m.kind # "alive" => Rest(Tail(inbox), bundle.profile, bundle.alive)
  BY <1>1, HeadOfBundle
<1>3. m.kind = "alive" => m.alive \in Alives
  BY <1>2, MessageFields
<1> HIDE DEF m
<1>4. bundle'.alive \in Alives
  BY <1>1, <1>2, <1>3
<1>5. Rest(inbox', bundle'.profile, bundle'.alive)
  <2>1. CASE m.kind = "alive"
    <3>1. bundle'.profile = m.profile /\ bundle'.alive = m.alive
      BY <1>1, <2>1
    <3>2. QED
      BY <1>1, <1>2, <2>1, <3>1
  <2>2. CASE m.kind # "alive"
    BY <1>1, <1>2, <2>2
  <2>3. QED
    BY <2>1, <2>2
<1>6. inbox' \in Seq(Messages)
  BY <1>1, <1>2
<1>7. QED
  BY <1>4, <1>5, <1>6 DEF InboxOK, Rest

\* The frame number ends a bundle, which has been applied if it was in order.
LEMMA HandleFseqKeepsInv ==
  ASSUME TuioInv, Handle, Head(inbox).kind = "fseq"
  PROVE  TuioInv'
<1> DEFINE m == Head(inbox)
<1>1. /\ inbox # <<>> /\ inbox' = Tail(inbox) /\ UNCHANGED trackerVars
      /\ bundle' = bundle /\ HandleFseq(m)
  BY DEF Handle
<1>2. m \in Messages /\ Tail(inbox) = <<>>
  BY <1>1, HeadOfBundle DEF TuioInv
<1>3. m.frame \in Numbers
  BY <1>2, MessageFields
<1>4. /\ lastFrame' = IF currentFrame > 0 THEN currentFrame ELSE lastFrame
      /\ currentFrame' = m.frame
      /\ inOrder' = IF m.frame > currentFrame THEN IF inOrder = 2 THEN 2 ELSE inOrder + 1
                    ELSE 0
      /\ UNCHANGED <<fingers, leftover, objectList, aliveLists>>
  BY <1>1 DEF HandleFseq
<1> HIDE DEF m
<1>5. /\ currentFrame \in Numbers \cup {-1} /\ lastFrame \in Numbers \cup {-1}
      /\ currentFrame = -1 => lastFrame = -1
      /\ inOrder \in {0, 1, 2}
      /\ inOrder # 0 => ~ Outdated
  BY DEF TuioInv, FramesOK
<1>6. FramesOK'
  <2>1. currentFrame' \in Numbers /\ lastFrame' \in Numbers \cup {-1}
    BY <1>3, <1>4, <1>5
  <2>2. inOrder' \in {0, 1, 2}
    BY <1>4, <1>5
  <2>3. inOrder' # 0 => m.frame > currentFrame
    BY <1>4
  <2>4. m.frame > currentFrame => ~ (currentFrame' < lastFrame')
    BY <1>3, <1>4, <1>5 DEF Numbers
  <2>5. currentFrame' # -1
    BY <2>1 DEF Numbers
  <2>6. QED
    BY <2>1, <2>2, <2>3, <2>4, <2>5 DEF FramesOK, Outdated
<1>7. AppliedOK'
  <2>1. aliveLists' \in [ Profiles -> SUBSET Sessions ] /\ inbox' = <<>>
    BY <1>1, <1>2, <1>4 DEF TuioInv, AppliedOK
  <2>2. inOrder' = 2 => inOrder # 0
    BY <1>4, <1>5
  <2>3. inOrder # 0 => Applied
    <3>1. m.kind # "alive"
      BY DEF m
    <3>2. QED
      BY <1>1, <1>5, <3>1 DEF TuioInv, AppliedOK, m
  <2>4. Applied => Applied'
    BY <1>1, <1>4 DEF Applied
  <2>5. QED
    BY <2>1, <2>2, <2>3, <2>4 DEF AppliedOK
<1>8. ListsOK'
  BY <1>4, ListsRest DEF TuioInv
<1>9. NetworkOK' /\ InboxOK'
  BY <1>1, HandleInbox DEF TuioInv, NetworkOK, trackerVars
<1>10. QED
  BY <1>6, <1>7, <1>8, <1>9 DEF TuioInv

\* A message of a bundle that is taken for an old one is dropped.
LEMMA HandleDroppedKeepsInv ==
  ASSUME TuioInv, Handle, Head(inbox).kind # "fseq", Outdated
  PROVE  TuioInv'
<1>1. /\ inbox # <<>> /\ UNCHANGED trackerVars
      /\ UNCHANGED <<currentFrame, lastFrame, inOrder>>
      /\ UNCHANGED <<fingers, leftover, objectList, aliveLists>>
  BY DEF Handle
<1>2. FramesOK' /\ ListsOK' /\ Outdated'
  BY <1>1, FramesRest, ListsRest DEF TuioInv, Outdated
<1>3. AppliedOK'
  <2>1. inOrder' = 0
    BY <1>1 DEF TuioInv, FramesOK
  <2>2. QED
    BY <1>1, <1>2, <2>1 DEF TuioInv, AppliedOK
<1>4. NetworkOK' /\ InboxOK'
  BY <1>1, HandleInbox DEF TuioInv, NetworkOK, trackerVars
<1>5. QED
  BY <1>2, <1>3, <1>4 DEF TuioInv

\* The sessions alive replace those that were, and what is gone is removed.
LEMMA HandleAliveKeepsInv ==
  ASSUME TuioInv, Handle, Head(inbox).kind = "alive", ~ Outdated
  PROVE  TuioInv'
<1> DEFINE m == Head(inbox)
<1>1. /\ inbox # <<>> /\ inbox' = Tail(inbox) /\ UNCHANGED trackerVars
      /\ bundle' = [ profile |-> m.profile, alive |-> m.alive ]
      /\ UNCHANGED <<currentFrame, lastFrame, inOrder>> /\ HandleAlive(m)
  BY DEF Handle
<1>2. m \in Messages /\ Tail(inbox) # <<>>
  BY <1>1, HeadOfBundle DEF TuioInv
<1>3. m.profile \in Profiles /\ m.alive \in Alives
  BY <1>2, MessageFields
<1>4. m.kind = "alive"
  OBVIOUS
<1> HIDE DEF m
<1> DEFINE gone == aliveLists[m.profile] \ m.alive
<1>5. PICK order \in SetToSeqs(gone) :
        /\ IF m.profile = "obj"
           THEN objectList' = objectList \ ToSet(order) /\ UNCHANGED <<fingers, leftover>>
           ELSE /\ fingers' = RemovedInTurn(order).fingers
                /\ leftover' = RemovedInTurn(order).leftover
                /\ UNCHANGED objectList
        /\ aliveLists' = [ aliveLists EXCEPT ![m.profile] = m.alive ]
  BY <1>1 DEF HandleAlive
<1>6. aliveLists \in [ Profiles -> SUBSET Sessions ]
  BY DEF TuioInv, AppliedOK
<1>7. /\ DOMAIN order = 1 .. Cardinality(gone) /\ Cardinality(gone) \in Nat
      /\ ToSet(order) = gone
  <2>1. IsFiniteSet(gone)
    BY <1>3, <1>6, SessionsAssumption, FS_Subset
  <2> HIDE DEF gone
  <2>2. QED
    BY <2>1, OrderHoldsAll
<1>8. aliveLists' \in [ Profiles -> SUBSET Sessions ]
  BY <1>3, <1>5, <1>6 DEF Alives
<1>9. AppliedOK'
  <2>1. inbox' # <<>>
    BY <1>1, <1>2
  <2>2. aliveLists'[m.profile] = m.alive
    BY <1>3, <1>5, <1>6
  <2>3. bundle'.profile = m.profile /\ bundle'.alive = m.alive
    BY <1>1
  <2>4. QED
    BY <1>8, <2>1, <2>2, <2>3 DEF AppliedOK, Applied
<1>10. ListsOK'
  <2>1. IdsInv /\ ListedIsAlive
    BY DEF TuioInv, ListsOK
  <2>2. CASE m.profile = "obj"
    <3>1. /\ objectList' = objectList \ gone
          /\ UNCHANGED <<fingers, leftover>>
      BY <1>5, <1>7, <2>2
    <3>2. IdsInv'
      BY <2>1, <3>1 DEF IdsInv, Dealt, WellTyped, OneEach, Dense, Listed, Used, Free
    <3>3. "cur" \in Profiles => Listed(fingers') \subseteq aliveLists'["cur"]
      BY <1>5, <1>6, <2>1, <2>2, <3>1 DEF ListedIsAlive, Listed
    <3>4. objectList' \subseteq aliveLists'["obj"]
      BY <1>3, <1>5, <1>6, <2>1, <2>2, <3>1 DEF ListedIsAlive
    <3>5. QED
      BY <3>2, <3>3, <3>4 DEF ListsOK, ListedIsAlive, Listed
  <2>3. CASE m.profile # "obj"
    <3>1. m.profile = "cur"
      BY <1>3, <2>3, ProfilesAssumption
    <3>2. /\ fingers' = RemovedInTurn(order).fingers /\ leftover' = RemovedInTurn(order).leftover
          /\ objectList' = objectList
      BY <1>5, <2>3
    <3>3. LeftOf(RemovedInTurn(order), gone)
      BY <1>7, <2>1, RemovedInTurnKeeps
    <3>4. /\ WellTyped(fingers') /\ leftover' \in BOOLEAN /\ (leftover' \/ Dealt(fingers'))
          /\ Listed(fingers') = Listed(fingers) \ gone
      BY <3>2, <3>3 DEF LeftOf
    <3>5. IdsInv'
      BY <3>4 DEF IdsInv, Dealt, WellTyped, OneEach, Dense, Listed, Used, Free
    <3>6. Listed(fingers') \subseteq aliveLists'["cur"]
      BY <1>3, <1>5, <1>6, <2>1, <3>1, <3>4 DEF ListedIsAlive
    <3>7. "obj" \in Profiles => objectList' \subseteq aliveLists'["obj"]
      BY <1>5, <1>6, <2>1, <3>1, <3>2 DEF ListedIsAlive
    <3>8. QED
      BY <3>5, <3>6, <3>7 DEF ListsOK, ListedIsAlive, Listed
  <2>4. QED
    BY <2>2, <2>3
<1>11. FramesOK'
  BY <1>1, FramesRest DEF TuioInv
<1>12. NetworkOK' /\ InboxOK'
  BY <1>1, HandleInbox DEF TuioInv, NetworkOK, trackerVars
<1>13. QED
  BY <1>9, <1>10, <1>11, <1>12 DEF TuioInv

\* What is set is alive, so that there is room for a new cursor.
LEMMA HandleSetKeepsInv ==
  ASSUME TuioInv, Handle, Head(inbox).kind = "set", ~ Outdated
  PROVE  TuioInv'
<1> DEFINE m == Head(inbox)
<1>1. /\ inbox # <<>> /\ inbox' = Tail(inbox) /\ UNCHANGED trackerVars /\ bundle' = bundle
      /\ UNCHANGED <<currentFrame, lastFrame, inOrder>> /\ HandleSet(m)
  BY DEF Handle
<1>2. /\ m \in Messages /\ m.profile = bundle.profile /\ m.sid \in bundle.alive
      /\ bundle.alive \in Alives
  BY <1>1, HeadOfBundle DEF TuioInv
<1>3. m.profile \in Profiles /\ m.sid \in Sessions
  BY <1>2, MessageFields
<1>4. Applied /\ aliveLists \in [ Profiles -> SUBSET Sessions ]
  BY <1>1 DEF TuioInv, AppliedOK
<1> HIDE DEF m
<1>5. /\ UNCHANGED <<aliveLists, leftover>>
      /\ m.profile = "obj" => objectList' = objectList \cup {m.sid} /\ UNCHANGED fingers
      /\ m.profile # "obj" =>
           /\ IF m.sid \in Listed(fingers) THEN UNCHANGED fingers
              ELSE fingers' \in Added(fingers, m.sid)
           /\ UNCHANGED objectList
  BY <1>1 DEF HandleSet
<1>6. aliveLists[m.profile] = bundle.alive
  BY <1>2, <1>4 DEF Applied
<1>7. ListsOK'
  <2>1. IdsInv /\ ListedIsAlive
    BY DEF TuioInv, ListsOK
  <2>2. CASE m.profile = "obj"
    <3>1. IdsInv'
      BY <1>5, <2>1, <2>2 DEF IdsInv, Dealt, WellTyped, OneEach, Dense, Listed, Used, Free
    <3>2. Listed(fingers') = Listed(fingers)
      BY <1>5, <2>2
    <3>3. objectList' \subseteq aliveLists'["obj"]
      BY <1>2, <1>3, <1>5, <1>6, <2>1, <2>2 DEF ListedIsAlive
    <3>4. QED
      BY <1>5, <2>1, <3>1, <3>2, <3>3 DEF ListsOK, ListedIsAlive, Listed
  <2>3. CASE m.profile # "obj" /\ m.sid \in Listed(fingers)
    <3>1. UNCHANGED <<fingers, leftover, objectList, aliveLists>>
      BY <1>5, <2>3
    <3>2. QED
      BY <3>1, ListsRest DEF TuioInv
  <2>4. CASE m.profile # "obj" /\ m.sid \notin Listed(fingers)
    <3>1. m.profile = "cur" /\ "cur" \in Profiles
      BY <1>3, <2>4, ProfilesAssumption
    <3>2. /\ fingers' \in Added(fingers, m.sid)
          /\ UNCHANGED <<leftover, objectList, aliveLists>>
      BY <1>5, <2>4
    <3>3. Listed(fingers) \subseteq bundle.alive
      BY <1>6, <2>1, <3>1 DEF ListedIsAlive
    <3>4. Cardinality(Listed(fingers)) < MaxFingers
      <4> DEFINE n == Cardinality(Listed(fingers))
                 k == Cardinality(bundle.alive)
      <4>1. IsFiniteSet(bundle.alive) /\ k <= MaxFingers
        BY <1>2, SessionsAssumption, FS_Subset DEF Alives
      <4>2. n <= k /\ n # k
        BY <1>2, <2>4, <3>3, <4>1, FS_Subset
      <4>3. n \in Nat /\ k \in Nat
        BY <2>1, <4>1, FS_CardinalityType, UsedIsImage DEF IdsInv
      <4> HIDE DEF n, k
      <4>4. n < MaxFingers
        BY <4>1, <4>2, <4>3, IdsAreNumbers
      <4>5. QED
        BY <4>4 DEF n
    <3>5. WellTyped(fingers')
      BY <1>3, <2>1, <2>4, <3>2, <3>4, AddedKeepsTypes DEF IdsInv
    <3>6. leftover' \in BOOLEAN /\ (leftover' \/ Dealt(fingers'))
      BY <1>3, <2>1, <2>4, <3>2, <3>4, AddedKeepsDealt DEF IdsInv
    <3>7. Listed(fingers') = Listed(fingers) \cup {m.sid}
      BY <2>1, <3>2, AddedLists DEF IdsInv
    <3>8. IdsInv'
      BY <3>2, <3>5, <3>6 DEF IdsInv, Dealt, WellTyped, OneEach, Dense, Listed, Used, Free
    <3>9. Listed(fingers') \subseteq aliveLists'["cur"]
      BY <1>2, <1>6, <3>1, <3>2, <3>3, <3>7
    <3>10. "obj" \in Profiles => objectList' \subseteq aliveLists'["obj"]
      BY <2>1, <3>2 DEF ListedIsAlive
    <3>11. QED
      BY <3>8, <3>9, <3>10 DEF ListsOK, ListedIsAlive, Listed
  <2>5. QED
    BY <2>2, <2>3, <2>4
<1>8. AppliedOK'
  <2>1. Applied'
    BY <1>1, <1>4, <1>5 DEF Applied
  <2>2. aliveLists' \in [ Profiles -> SUBSET Sessions ]
    BY <1>4, <1>5
  <2>3. QED
    BY <2>1, <2>2 DEF AppliedOK
<1>9. FramesOK'
  BY <1>1, FramesRest DEF TuioInv
<1>10. NetworkOK' /\ InboxOK'
  BY <1>1, HandleInbox DEF TuioInv, NetworkOK, trackerVars
<1>11. QED
  BY <1>7, <1>8, <1>9, <1>10 DEF TuioInv

LEMMA HandleKeeps ==
  ASSUME TuioInv, Handle
  PROVE  TuioInv'
<1>1. inbox # <<>> /\ Head(inbox) \in Messages
  BY HeadOfBundle DEF Handle, TuioInv
<1>2. Head(inbox).kind \in {"alive", "set", "fseq"}
  BY <1>1, MessageFields
<1>3. QED
  BY <1>2, HandleFseqKeepsInv, HandleDroppedKeepsInv, HandleAliveKeepsInv, HandleSetKeepsInv

LEMMA TuioInvStep == ASSUME TuioInv, [TuioNext]_tuioVars PROVE TuioInv'
<1>1. CASE UNCHANGED tuioVars
  <2>1. InboxOK' /\ FramesOK' /\ AppliedOK' /\ ListsOK'
    BY <1>1, ClientRests DEF tuioVars, clientVars
  <2>2. NetworkOK'
    BY <1>1 DEF TuioInv, NetworkOK, tuioVars, trackerVars
  <2>3. QED
    BY <2>1, <2>2 DEF TuioInv
<1>2. CASE Tracker
  BY <1>2, SendKeeps, RestartOrLoseKeeps, DeliverKeeps DEF Tracker
<1>3. QED
  BY <1>1, <1>2, CallKeeps, HandleKeeps DEF TuioNext

LEMMA TuioInvHolds == TuioSpec => []TuioInv
BY TuioInvStep, TuioInitInv, PTL DEF TuioSpec

-----------------------------------------------------------------------------
(* What is on its way, and the types of the rest.                          *)

\* The network never holds more than is let on it, and what is set are
\* sessions.
TrackerOK ==
  /\ surface \in [ Profiles -> SUBSET Sessions ]
  /\ restarts \in 0 .. MaxRestarts
  /\ IsFiniteSet(network) /\ Cardinality(network) <= MaxInFlight
  /\ draining \in BOOLEAN
  /\ objectList \subseteq Sessions

LEMMA TrackerInitOK == TuioInit => TrackerOK
<1> SUFFICES ASSUME TuioInit PROVE TrackerOK
  OBVIOUS
<1>1. /\ surface = [ p \in Profiles |-> {} ] /\ restarts = 0 /\ network = {}
      /\ draining \in BOOLEAN /\ objectList = {}
  BY DEF TuioInit
<1>2. IsFiniteSet(network) /\ Cardinality(network) = 0
  BY <1>1, FS_EmptySet
<1>3. restarts \in 0 .. MaxRestarts /\ 0 <= MaxInFlight
  BY <1>1, MaxRestartsAssumption, MaxInFlightAssumption
<1>4. QED
  BY <1>1, <1>2, <1>3 DEF TrackerOK

\* A bundle more, or one in the place of another.
LEMMA FitsOnNetwork ==
  ASSUME TrackerOK, NEW b
  PROVE  /\ Cardinality(network) < MaxInFlight =>
              IsFiniteSet(network \cup {b}) /\ Cardinality(network \cup {b}) <= MaxInFlight
         /\ \A c \in network :
              /\ IsFiniteSet(network \ {c}) /\ Cardinality(network \ {c}) <= MaxInFlight
              /\ IsFiniteSet((network \ {c}) \cup {b})
              /\ Cardinality((network \ {c}) \cup {b}) <= MaxInFlight
<1> DEFINE n == Cardinality(network)
<1>1. IsFiniteSet(network) /\ n \in Nat /\ n <= MaxInFlight /\ MaxInFlight \in Nat
  BY FS_CardinalityType, MaxInFlightAssumption DEF TrackerOK
<1>2. ASSUME n < MaxInFlight
      PROVE  IsFiniteSet(network \cup {b}) /\ Cardinality(network \cup {b}) <= MaxInFlight
  <2>1. /\ IsFiniteSet(network \cup {b})
        /\ Cardinality(network \cup {b}) = IF b \in network THEN n ELSE n + 1
    BY <1>1, FS_AddElement
  <2> HIDE DEF n
  <2>2. QED
    BY <1>1, <1>2, <2>1
<1>3. ASSUME NEW c \in network
      PROVE  /\ IsFiniteSet(network \ {c}) /\ Cardinality(network \ {c}) <= MaxInFlight
             /\ IsFiniteSet((network \ {c}) \cup {b})
             /\ Cardinality((network \ {c}) \cup {b}) <= MaxInFlight
  <2> DEFINE rest == network \ {c}
             k == Cardinality(rest)
  <2>1. IsFiniteSet(rest) /\ k = n - 1
    BY <1>1, <1>3, FS_RemoveElement
  <2>2. /\ IsFiniteSet(rest \cup {b})
        /\ Cardinality(rest \cup {b}) = IF b \in rest THEN k ELSE k + 1
    BY <2>1, FS_AddElement
  <2>3. k \in Nat
    BY <2>1, FS_CardinalityType
  <2> HIDE DEF n, k
  <2>4. Cardinality(rest \cup {b}) <= MaxInFlight /\ k <= MaxInFlight
    BY <1>1, <2>1, <2>2, <2>3
  <2>5. QED
    BY <2>1, <2>2, <2>4 DEF k
<1>4. QED
  BY <1>2, <1>3

LEMMA TrackerRests ==
  ASSUME TrackerOK, UNCHANGED <<surface, restarts, network>>, draining' \in BOOLEAN,
         objectList' \subseteq Sessions
  PROVE  TrackerOK'
BY DEF TrackerOK

\* What the application does to the list of the objects.
LEMMA ObjectsAreSessions ==
  ASSUME TuioInv, TrackerOK, Handle
  PROVE  objectList' \subseteq Sessions
<1> DEFINE m == Head(inbox)
<1>1. m \in Messages
  BY HeadOfBundle DEF TuioInv, Handle
<1>2. objectList \subseteq Sessions
  BY DEF TrackerOK
<1>3. \/ objectList' = objectList
      \/ m.kind = "alive" /\ HandleAlive(m)
      \/ m.kind = "set" /\ HandleSet(m)
  <2>1. m.kind \in {"alive", "set", "fseq"}
    BY <1>1, MessageFields
  <2>2. CASE m.kind = "fseq"
    BY <2>2 DEF Handle, HandleFseq
  <2>3. CASE m.kind # "fseq" /\ Outdated
    BY <2>3 DEF Handle
  <2>4. CASE m.kind # "fseq" /\ ~ Outdated
    <3>1. IF m.kind = "alive" THEN HandleAlive(m) ELSE HandleSet(m)
      BY <2>4 DEF Handle
    <3>2. QED
      BY <2>1, <2>4, <3>1
  <2>5. QED
    BY <2>2, <2>3, <2>4
<1>4. m.kind = "alive" /\ HandleAlive(m) => objectList' \subseteq objectList
  BY DEF HandleAlive
<1>5. m.kind = "set" /\ HandleSet(m) => objectList' \subseteq objectList \cup {m.sid}
  BY DEF HandleSet
<1>6. m.kind = "set" => m.sid \in Sessions
  BY <1>1, MessageFields
<1> HIDE DEF m
<1>7. QED
  BY <1>2, <1>3, <1>4, <1>5, <1>6

LEMMA TrackerStep == ASSUME TuioInv, TrackerOK, [TuioNext]_tuioVars PROVE TrackerOK'
<1>1. ASSUME NEW p \in Profiles, NEW now \in SUBSET Sessions, NEW copies \in 1 .. 2,
             NEW moved \in SUBSET now, Send(p, now, moved, copies)
      PROVE  TrackerOK'
  <2>1. /\ surface' = [ surface EXCEPT ![p] = now ] /\ Cardinality(network) < MaxInFlight
        /\ \E b : network' = network \cup {b}
        /\ UNCHANGED <<restarts, draining, objectList>>
    BY <1>1 DEF Send, clientVars
  <2>2. surface' \in [ Profiles -> SUBSET Sessions ]
    BY <2>1 DEF TrackerOK
  <2>3. IsFiniteSet(network') /\ Cardinality(network') <= MaxInFlight
    BY <2>1, FitsOnNetwork
  <2>4. QED
    BY <2>1, <2>2, <2>3 DEF TrackerOK
<1>2. CASE RestartTracker
  <2>1. /\ restarts < MaxRestarts /\ restarts' = restarts + 1
        /\ surface' = [ p \in Profiles |-> {} ]
        /\ UNCHANGED <<network, draining, objectList>>
    BY <1>2 DEF RestartTracker, clientVars
  <2>2. restarts' \in 0 .. MaxRestarts
    BY <2>1, MaxRestartsAssumption DEF TrackerOK
  <2>3. QED
    BY <2>1, <2>2 DEF TrackerOK
<1>3. ASSUME NEW b \in network, Lose(b) PROVE TrackerOK'
  <2>1. network' = network \ {b} /\ UNCHANGED <<surface, restarts, draining, objectList>>
    BY <1>3 DEF Lose, clientVars
  <2>2. IsFiniteSet(network') /\ Cardinality(network') <= MaxInFlight
    BY <2>1, FitsOnNetwork
  <2>3. QED
    BY <2>1, <2>2 DEF TrackerOK
<1>4. ASSUME NEW b \in network, NEW order \in SetToSeqs(b.set), Deliver(b, order)
      PROVE  TrackerOK'
  <2> DEFINE next == [ b EXCEPT !.copies = @ - 1 ]
  <2>1. /\ network' = (network \ {b}) \cup { c \in {next} : c.copies > 0 }
        /\ UNCHANGED <<surface, restarts, draining, objectList>>
    BY <1>4 DEF Deliver
  <2> HIDE DEF next
  <2>2. network' = network \ {b} \/ network' = (network \ {b}) \cup {next}
    BY <2>1
  <2>3. IsFiniteSet(network') /\ Cardinality(network') <= MaxInFlight
    BY <2>2, FitsOnNetwork
  <2>4. QED
    BY <2>1, <2>3 DEF TrackerOK
<1>5. CASE Handle
  <2>1. UNCHANGED <<surface, restarts, network>>
    BY <1>5 DEF Handle, trackerVars
  <2>2. draining' \in BOOLEAN
    BY <1>5 DEF Handle, TrackerOK
  <2>3. QED
    BY <1>5, <2>1, <2>2, TrackerRests, ObjectsAreSessions
<1>6. CASE GetMessage \/ NoMoreMessages \/ UNCHANGED tuioVars
  <2>1. UNCHANGED <<surface, restarts, network, objectList>> /\ draining' \in BOOLEAN
    BY <1>6 DEF GetMessage, NoMoreMessages, tuioVars, trackerVars, clientVars, TrackerOK
  <2>2. QED
    BY <2>1, TrackerRests DEF TrackerOK
<1>7. QED
  BY <1>1, <1>2, <1>3, <1>4, <1>5, <1>6 DEF TuioNext, Tracker

LEMMA ClientIsTyped == TuioInv /\ TrackerOK => TuioTypeOK
<1> SUFFICES ASSUME TuioInv, TrackerOK PROVE TuioTypeOK
  OBVIOUS
<1>1. FingersTypeOK
  BY FingersAreTyped DEF TuioInv, ListsOK
<1>2. {currentFrame, lastFrame} \subseteq {-1} \cup 1 .. MaxFrame /\ inOrder \in 0 .. 2
  BY DEF TuioInv, FramesOK, Numbers
<1>3. frame \in 0 .. MaxFrame /\ aliveLists \in [ Profiles -> SUBSET Sessions ]
  BY DEF TuioInv, NetworkOK, AppliedOK
<1>4. QED
  BY <1>1, <1>2, <1>3 DEF TrackerOK, TuioTypeOK

\* Whatever arrives, the lists of the client are of sessions and fingers that
\* there are, and no more bundles are on their way than the bound lets.
THEOREM TuioTypeCorrect == TuioSpec => []TuioTypeOK
BY TuioInitInv, TuioInvStep, TrackerInitOK, TrackerStep, ClientIsTyped, PTL DEF TuioSpec

\* Whatever the network loses, delays or doubles, and however often the tracker
\* starts again: a bundle that comes after two in order is applied.
THEOREM BundlesInOrderAreApplied == TuioSpec => []InOrderIsApplied
<1>1. TuioInv => InOrderIsApplied
  BY DEF TuioInv, AppliedOK, Applied, InOrderIsApplied
<1>2. QED
  BY <1>1, TuioInvHolds, PTL

\* No cursor and no object is listed that the client does not believe alive.
THEOREM ListedStaysAlive == TuioSpec => []ListedIsAlive
<1>1. TuioInv => ListedIsAlive
  BY DEF TuioInv, ListsOK
<1>2. QED
  BY <1>1, TuioInvHolds, PTL

\* The ids are dealt once by the client, too, whose handlers remove several
\* cursors in one step.
THEOREM ClientDealsOnce == TuioSpec => []IdsAreDealtOnce
<1>1. TuioInv => IdsAreDealtOnce
  BY DealtIsOnce DEF TuioInv, ListsOK
<1>2. QED
  BY <1>1, TuioInvHolds, PTL

-----------------------------------------------------------------------------
(* The gestures.                                                           *)

\* A session keeps its id for as long as it is listed.
LEMMA IdsStay ==
  ASSUME TuioInv, TuioNext
  PROVE  \A s \in Listed(fingers) \cap Listed(fingers') :
           fingers'.cursors[s] = fingers.cursors[s]
<1>1. CASE fingers' = fingers
  BY <1>1
<1>2. CASE Handle /\ fingers' # fingers
  <2> DEFINE m == Head(inbox)
  <2>1. /\ inbox # <<>>
        /\ \/ m.kind = "alive" /\ HandleAlive(m)
           \/ m.kind = "set" /\ HandleSet(m)
    <3>1. inbox # <<>> /\ m \in Messages
      BY <1>2, HeadOfBundle DEF Handle, TuioInv
    <3>2. m.kind \in {"alive", "set", "fseq"}
      BY <3>1, MessageFields
    <3>3. ~ (m.kind = "fseq")
      BY <1>2 DEF Handle, HandleFseq
    <3>4. ~ Outdated /\ IF m.kind = "alive" THEN HandleAlive(m) ELSE HandleSet(m)
      BY <1>2, <3>3 DEF Handle
    <3>5. CASE m.kind = "alive"
      BY <3>1, <3>4, <3>5
    <3>6. CASE m.kind = "set"
      <4>1. m.kind # "alive"
        BY <3>6
      <4>2. HandleSet(m)
        BY <3>4, <4>1
      <4>3. QED
        BY <3>1, <3>6, <4>2
    <3>7. QED
      BY <3>2, <3>3, <3>5, <3>6
  <2>2. m \in Messages /\ IdsInv /\ aliveLists \in [ Profiles -> SUBSET Sessions ]
    BY <2>1, HeadOfBundle DEF TuioInv, ListsOK, AppliedOK
  <2> HIDE DEF m
  <2>3. CASE m.kind = "alive" /\ HandleAlive(m)
    <3> DEFINE gone == aliveLists[m.profile] \ m.alive
    <3>1. m.profile \in Profiles
      BY <2>2, <2>3, MessageFields
    <3>2. PICK order \in SetToSeqs(gone) : fingers' = RemovedInTurn(order).fingers
      BY <1>2, <2>3 DEF HandleAlive
    <3>3. IsFiniteSet(gone)
      BY <2>2, <3>1, SessionsAssumption, FS_Subset
    <3> HIDE DEF gone
    <3>4. DOMAIN order = 1 .. Cardinality(gone) /\ Cardinality(gone) \in Nat
      BY <3>3, OrderHoldsAll
    <3>5. LeftOf(RemovedInTurn(order), ToSet(order))
      BY <2>2, <3>4, RemovedInTurnKeeps
    <3>6. QED
      BY <3>2, <3>5 DEF LeftOf
  <2>4. CASE m.kind = "set" /\ HandleSet(m)
    <3>1. m.sid \notin Listed(fingers) /\ fingers' \in Added(fingers, m.sid)
      BY <1>2, <2>4 DEF HandleSet
    <3>2. \E i : fingers'.cursors = With(fingers, m.sid, i)
      BY <2>2, <3>1 DEF Added, IdsInv, WellTyped
    <3>3. QED
      BY <3>1, <3>2 DEF With, Listed
  <2>5. QED
    BY <2>1, <2>3, <2>4
<1>3. QED
  <2>1. CASE Tracker
    BY <1>1, <2>1 DEF Tracker, Send, RestartTracker, Lose, Deliver, clientVars
  <2>2. QED
    BY <1>1, <1>2, <2>1 DEF TuioNext, GetMessage, NoMoreMessages

\* getMessage() returns with the cursors as they are.
LEMMA ReturnKeepsFingers ==
  ASSUME TuioNext, draining, ~ draining'
  PROVE  fingers' = fingers
<1>1. CASE Tracker
  BY <1>1 DEF Tracker, Send, RestartTracker, Lose, Deliver, clientVars
<1>2. CASE Handle
  BY <1>2 DEF Handle, HandleFseq
<1>3. QED
  BY <1>1, <1>2 DEF TuioNext, GetMessage, NoMoreMessages

\* Until a new cursor is reported, the first and the second finger are of the
\* pair that was last compared.
GestureInv ==
  /\ {newCursorDetected, jumped} \subseteq BOOLEAN
  /\ baseline = {} \/ Cardinality(baseline) = 2
  /\ baseline \subseteq Sessions
  /\ ~ newCursorDetected => \A s \in Cursors : fingers.cursors[s] < 2 => s \in baseline

LEMMA GestureKeeps ==
  ASSUME TuioInv, GestureInv, RemoteNext
  PROVE  GestureInv'
<1>1. TuioNext /\ Listen
  BY DEF RemoteNext
<1>2. CASE draining /\ ~ draining'
  <2>1. Gesture /\ fingers' = fingers
    BY <1>1, <1>2, ReturnKeepsFingers DEF Listen
  <2>2. CASE Cardinality(Cursors) = 2
    <3>1. newCursorDetected' = FALSE /\ baseline' = Cursors /\ jumped' \in BOOLEAN
      BY <2>1, <2>2 DEF Gesture
    <3>2. Cursors \subseteq Sessions /\ Cursors' = Cursors
      BY <2>1 DEF TuioInv, ListsOK, IdsInv, WellTyped, Cursors, Listed
    <3>3. QED
      BY <2>2, <3>1, <3>2 DEF GestureInv
  <2>3. CASE Cardinality(Cursors) # 2
    <3>1. UNCHANGED <<newCursorDetected, baseline>> /\ jumped' = FALSE
      BY <2>1, <2>3 DEF Gesture
    <3>2. QED
      BY <2>1, <3>1 DEF GestureInv, Cursors, Listed
  <2>4. QED
    BY <2>2, <2>3
<1>3. CASE ~ (draining /\ ~ draining')
  <2>1. /\ newCursorDetected' = (newCursorDetected \/ NewCursor) /\ baseline' = baseline
        /\ jumped' = FALSE
    BY <1>1, <1>3 DEF Listen
  <2>2. ASSUME ~ newCursorDetected', NEW s \in Listed(fingers'), fingers'.cursors[s] < 2
        PROVE  s \in baseline
    <3>1. ~ newCursorDetected /\ ~ NewCursor
      BY <2>1, <2>2
    <3>2. s \in Listed(fingers)
      BY <2>2, <3>1 DEF NewCursor, Cursors
    <3>3. fingers.cursors[s] = fingers'.cursors[s]
      BY <1>1, <2>2, <3>2, IdsStay
    <3>4. fingers.cursors[s] < 2
      BY <2>2, <3>3
    <3>5. QED
      BY <3>1, <3>2, <3>4 DEF GestureInv, Cursors
  <2>3. {newCursorDetected', jumped'} \subseteq BOOLEAN
    BY <2>1 DEF GestureInv
  <2>4. QED
    BY <2>1, <2>2, <2>3 DEF GestureInv, Cursors, Listed
<1>4. QED
  BY <1>2, <1>3

LEMMA JumpsOfThirdOnly ==
  ASSUME TuioInv, GestureInv, RemoteNext, jumped'
  PROVE  \E s \in Cursors : fingers.cursors[s] > 1
<1> SUFFICES ASSUME \A s \in Cursors : ~ (fingers.cursors[s] > 1) PROVE FALSE
  OBVIOUS
<1>1. /\ Cardinality(Cursors) = 2 /\ ~ newCursorDetected /\ baseline # Cursors
  BY DEF RemoteNext, Listen, Gesture
<1>2. \A s \in Cursors : fingers.cursors[s] \in Nat
  BY IdsAreNumbers DEF TuioInv, ListsOK, IdsInv, WellTyped, Cursors
<1>3. \A s \in Cursors : fingers.cursors[s] < 2
  BY <1>2
<1>4. Cursors \subseteq baseline
  BY <1>1, <1>3 DEF GestureInv
<1>5. baseline # {}
  <2>1. Cardinality({}) = 0
    BY FS_EmptySet
  <2>2. QED
    BY <1>1, <1>4, <2>1
<1>6. Cardinality(baseline) = 2 /\ IsFiniteSet(baseline)
  BY <1>5, SessionsAssumption, FS_Subset DEF GestureInv
<1>7. baseline = Cursors
  BY <1>1, <1>4, <1>6, FS_Subset
<1>8. QED
  BY <1>1, <1>7

LEMMA GestureInitInv == RemoteInit => GestureInv
<1> SUFFICES ASSUME RemoteInit PROVE GestureInv
  OBVIOUS
<1>1. Cursors = {}
  BY DEF RemoteInit, TuioInit, IdsInit, NoFingers, Cursors, Listed
<1>2. /\ newCursorDetected \in BOOLEAN /\ jumped \in BOOLEAN /\ baseline = {}
  BY DEF RemoteInit
<1>3. QED
  BY <1>1, <1>2 DEF GestureInv

LEMMA RemoteIsClient == [RemoteNext]_remoteVars => [TuioNext]_tuioVars
BY DEF RemoteNext, remoteVars

LEMMA GestureStep == ASSUME TuioInv, GestureInv, [RemoteNext]_remoteVars PROVE GestureInv'
<1>1. ASSUME UNCHANGED remoteVars PROVE GestureInv'
  BY <1>1 DEF remoteVars, gestureVars, tuioVars, clientVars, GestureInv, Cursors, Listed
<1>2. QED
  BY <1>1, GestureKeeps

LEMMA RemoteInvHolds == RemoteSpec => [](TuioInv /\ GestureInv)
<1>1. RemoteInit => TuioInit
  BY DEF RemoteInit
<1>2. QED
  BY <1>1, GestureInitInv, RemoteIsClient, GestureStep, TuioInvHolds, PTL
     DEF RemoteSpec, TuioSpec

LEMMA GestureIsTyped == GestureInv => RemoteTypeOK
BY FS_EmptySet DEF GestureInv, RemoteTypeOK

\* For any number of fingers, whatever comes and goes between two updates: the
\* pose jumps only where one of the two cursors has the id of a third finger.
THEOREM PosesOfTwoDoNotJump == RemoteSpec => PairsAreCompared
<1>1. TuioInv /\ GestureInv /\ [RemoteNext]_remoteVars
        => [jumped' => \E s \in Cursors : fingers.cursors[s] > 1]_remoteVars
  BY JumpsOfThirdOnly
<1>2. QED
  BY <1>1, RemoteInvHolds, PTL DEF RemoteSpec, PairsAreCompared
=============================================================================
