-------------------------- MODULE Recognition_proofs --------------------------
(***************************************************************************)
(* What the recognition promises for images of any size.                   *)
(*                                                                         *)
(* Fingers: a finger that is new in a frame is where a region is, until a  *)
(* second region within half the size of a finger moves it, and only then  *)
(* it outlives the frame.  If a finger is small that region moves it by so *)
(* little that a coordinate falls back on the one the constructor set, and *)
(* no region reaches it again.                                             *)
(*                                                                         *)
(* Regions: the lists of neighbours stay sound (Sound) whatever is added,  *)
(* merged or given up, for a set of pairs of regions that touch.  The      *)
(* references lead to the regions of the pixels (Pointed), a sequence m,   *)
(* of which the pairs that touch can be read off (Borders), and each pixel *)
(* changes lists and pairs alike.                                          *)
(***************************************************************************)
EXTENDS MCRecognition, FiniteSetTheorems, SequenceTheorems, TLAPS

-----------------------------------------------------------------------------
(* The folds of findFingers().                                             *)

\* The loop over the fingers, for region j.
ConsideredNext(best, i, for) == Considered(for.list, for.regions, for.j, best, i)
Matching == INSTANCE FoldTheorems WITH Op <- ConsideredNext

LEMMA MatchFolds ==
  ASSUME NEW list, NEW frameRegions, NEW j
  PROVE  Match(list, frameRegions, j) =
           Matching!Fold([ match |-> 0, closest |-> Farthest ], [ i \in DOMAIN list |-> i ],
                         [ list |-> list, regions |-> frameRegions, j |-> j ]).match
BY DEF Match, ConsideredNext, Matching!Fold, FoldLeft, MapThenFoldSet, Max, Matching!Top

\* The loop over the regions of a frame, ...
ProcessedNext(r, j, frameRegions) == Processed(r, frameRegions, j)
Finding == INSTANCE FoldTheorems WITH Op <- ProcessedNext

\* ... and the one that ages the list.
KeptNext(list, f, none) == Kept(list, f)
Ageing == INSTANCE FoldTheorems WITH Op <- KeptNext

\* The list and the next id when all regions were looked at.
FoundIn(frameRegions) ==
  Finding!Fold([ list |-> fingersList, next |-> finger_id ],
               [ j \in DOMAIN frameRegions |-> j ], frameRegions)

LEMMA FindFingersFolds ==
  ASSUME NEW frameRegions, FindFingers(frameRegions)
  PROVE  /\ FoundIn(frameRegions).next <= MaxFingers
         /\ fingersList' = Ageing!Fold(<<>>, FoundIn(frameRegions).list, 0)
         /\ finger_id' = FoundIn(frameRegions).next
         /\ frame' = frameRegions
BY DEF FindFingers, FoundIn, ProcessedNext, KeptNext, Finding!Fold, Ageing!Fold, FoldLeft,
       MapThenFoldSet, Max, Finding!Top, Ageing!Top

-----------------------------------------------------------------------------
(* Fingers and distances.                                                  *)

\* A place is a pair of integers, or the coordinates one by one.
Coordinates == (Int \X Int) \cup [ 1 .. 2 -> Int ]

Finger == [ id : Nat, current : Coordinates, last : Coordinates, updated : BOOLEAN, life : Int ]

\* A frame that findFingers() can be given.
IsFrame(rs) ==
  \E n \in 0 .. MaxRegions : rs \in [ 1 .. n -> Region ]

LEMMA CoordinatesAreIntegers ==
  ASSUME NEW p \in Coordinates
  PROVE  p[1] \in Int /\ p[2] \in Int
BY DEF Coordinates

LEMMA SquaresGrow ==
  ASSUME NEW a \in Int, NEW b \in Int, Abs(a) <= Abs(b)
  PROVE  Square(a) <= Square(b) /\ Square(a) \in Nat
<1>1. Abs(a) \in Nat /\ Abs(b) \in Nat /\ Square(a) = Abs(a) * Abs(a) /\ Square(b) = Abs(b) * Abs(b)
  BY DEF Abs, Square
<1>2. ASSUME NEW x \in Nat, NEW y \in Nat, x <= y PROVE x * x <= y * y /\ x * x \in Nat
  <2>1. PICK z \in Nat : y = x + z
    BY <1>2
  <2>2. y * y = x * x + 2 * (x * z) + z * z /\ x * x \in Nat /\ x * z \in Nat /\ z * z \in Nat
    BY <2>1
  <2>3. QED
    BY <2>2
<1>3. QED
  BY <1>1, <1>2

LEMMA DistanceIsNatural ==
  ASSUME NEW p \in Coordinates, NEW q \in Coordinates
  PROVE  /\ Distance2(p, q) \in Nat
         /\ Square(p[1] - q[1]) \in Nat /\ Square(p[1] - q[1]) <= Distance2(p, q)
         /\ Square(p[2] - q[2]) \in Nat /\ Square(p[2] - q[2]) <= Distance2(p, q)
<1>1. p[1] - q[1] \in Int /\ p[2] - q[2] \in Int
  BY CoordinatesAreIntegers
<1>2. Square(p[1] - q[1]) \in Nat /\ Square(p[2] - q[2]) \in Nat
  <2>1. \A n \in Int : Abs(n) <= Abs(n)
    BY DEF Abs
  <2>2. QED
    BY <1>1, <2>1, SquaresGrow
<1>3. Distance2(p, q) = Square(p[1] - q[1]) + Square(p[2] - q[2])
  BY DEF Distance2
<1>4. QED
  BY <1>2, <1>3

\* Distances are the same both ways.
LEMMA DistanceIsSymmetric ==
  ASSUME NEW p \in Coordinates, NEW q \in Coordinates
  PROVE  Distance2(p, q) = Distance2(q, p)
<1>1. \A a, b \in Int : Square(a - b) = Square(b - a)
  BY DEF Square
<1>2. QED
  BY <1>1, CoordinatesAreIntegers DEF Distance2

LEMMA RegionsAreInTheImage ==
  ASSUME NEW rs, IsFrame(rs), NEW j \in DOMAIN rs
  PROVE  /\ rs[j].at \in Coordinates /\ rs[j].at[1] \in Nat /\ rs[j].at[2] \in Nat
         /\ rs[j].finger \in BOOLEAN
<1>1. rs[j] \in Region
  BY DEF IsFrame
<1>2. rs[j].at \in Nat \X Nat /\ rs[j].finger \in BOOLEAN
  BY <1>1, PointsAssumption DEF Region
<1>3. QED
  BY <1>2 DEF Coordinates

-----------------------------------------------------------------------------
(* The finger a region is taken for.                                       *)

\* Finger f of the list is a match for region j: it is within reach, and
\* within half the size of a finger or has no rival.
IsMatch(f, rs, j) ==
  LET d == Distance2(f.current, rs[j].at)
  IN  /\ d < Square(MaxFingerSize * 2)
      /\ 4 * d <= Square(MaxFingerSize) \/ ~ HasRival(rs, j, d)

LEMMA MatchIsClose ==
  ASSUME NEW n \in Nat, NEW list \in [ 1 .. n -> Finger ], NEW rs, IsFrame(rs), NEW j \in DOMAIN rs
  PROVE  LET i == Match(list, rs, j)
         IN  i = 0 \/ (i \in 1 .. n /\ IsMatch(list[i], rs, j))
<1> DEFINE for == [ list |-> list, regions |-> rs, j |-> j ]
           none == [ match |-> 0, closest |-> Farthest ]
           order == [ i \in DOMAIN list |-> i ]
           Good(b) == b.match = 0 \/ (b.match \in 1 .. n /\ IsMatch(list[b.match], rs, j))
<1>1. DOMAIN order = 1 .. n /\ \A i \in 1 .. n : order[i] = i
  OBVIOUS
<1> HIDE DEF order, none, for
<1>2. PICK r : /\ r[0] = none /\ r[n] = Matching!Fold(none, order, for)
               /\ \A k \in 0 .. n - 1 : r[k + 1] = ConsideredNext(r[k], order[k + 1], for)
  BY <1>1, Matching!FoldSteps
<1>3. \A k \in 0 .. n - 1 : r[k + 1] = Considered(list, rs, j, r[k], k + 1)
  <2>1. \A k \in 0 .. n - 1 : k + 1 \in 1 .. n /\ order[k + 1] = k + 1
    BY <1>1
  <2>2. QED
    BY <1>2, <2>1 DEF ConsideredNext, for
<1> DEFINE K == { k \in 0 .. n : Good(r[k]) }
<1>4. 0 \in K
  BY <1>2 DEF none
<1>5. ASSUME NEW k \in 0 .. n - 1, k \in K PROVE k + 1 \in K
  <2> DEFINE best == r[k]
             d == Distance2(list[k + 1].current, rs[j].at)
  <2>1. r[k + 1] = Considered(list, rs, j, best, k + 1)
    BY <1>3
  <2>2. Good(best) /\ k + 1 \in 1 .. n /\ k + 1 \in 0 .. n
    BY <1>5
  <2>3. d \in Int /\ Square(MaxFingerSize * 2) \in Int
    <3>1. list[k + 1].current \in Coordinates /\ rs[j].at \in Coordinates
      BY <2>2, RegionsAreInTheImage DEF Finger
    <3>2. QED
      BY <3>1, DistanceIsNatural, SizesAssumption DEF Square
  <2> HIDE DEF best
  <2>4. CASE d >= Square(MaxFingerSize * 2) \/ d >= best.closest
    BY <2>1, <2>2, <2>4 DEF Considered
  <2>5. CASE ~ (d >= Square(MaxFingerSize * 2) \/ d >= best.closest)
    <3>1. d < Square(MaxFingerSize * 2)
      BY <2>3, <2>5
    <3>2. CASE 4 * d <= Square(MaxFingerSize) \/ ~ HasRival(rs, j, d)
      <4>1. r[k + 1].match = k + 1
        BY <2>1, <2>5, <3>2 DEF Considered
      <4>2. IsMatch(list[k + 1], rs, j)
        BY <3>1, <3>2 DEF IsMatch
      <4>3. QED
        BY <2>2, <4>1, <4>2
    <3>3. CASE ~ (4 * d <= Square(MaxFingerSize) \/ ~ HasRival(rs, j, d))
      <4>1. r[k + 1].match = 0
        BY <2>1, <2>5, <3>3 DEF Considered
      <4>2. QED
        BY <2>2, <4>1
    <3>4. QED
      BY <3>2, <3>3
  <2>6. QED
    BY <2>4, <2>5
<1> HIDE DEF K
<1>6. n \in K
  <2>1. \A k \in 0 .. n - 1 : k \in K => k + 1 \in K
    BY <1>5
  <2> HIDE DEF Good
  <2>2. \A k \in 0 .. n : k \in K
    BY <1>4, <2>1, Matching!UpTo
  <2>3. QED
    BY <2>2
<1>7. Match(list, rs, j) = r[n].match
  BY <1>2, MatchFolds DEF order, none, for
<1>8. QED
  BY <1>6, <1>7 DEF K

-----------------------------------------------------------------------------
(* One region after the other.                                             *)

\* A coordinate of the finger is the one the constructor set.
Strayed(f) == f.current[1] = Nowhere \/ f.current[2] = Nowhere

\* Two regions of a frame are within half the size of a finger.
TwoAreClose(rs) ==
  \E j, k \in DOMAIN rs :
    /\ j # k /\ rs[j].finger /\ rs[k].finger
    /\ 4 * Distance2(rs[j].at, rs[k].at) <= Square(MaxFingerSize)

\* The finger is where one of the first k regions is.
NewAt(f, rs, k) ==
  /\ f.last = <<Nowhere, Nowhere>>
  /\ \E m \in DOMAIN rs : m <= k /\ rs[m].finger /\ f.current = rs[m].at

LEMMA StrayedIsOutOfReach ==
  ASSUME NEW f \in Finger, Strayed(f), NEW rs, IsFrame(rs), NEW j \in DOMAIN rs,
         MaxFingerSize <= 4
  PROVE  ~ IsMatch(f, rs, j)
<1> DEFINE p == f.current
           q == rs[j].at
<1>1. p \in Coordinates /\ q \in Coordinates /\ q[1] \in Nat /\ q[2] \in Nat
  BY RegionsAreInTheImage DEF Finger
<1> HIDE DEF p, q
<1>2. p[1] \in Int /\ p[2] \in Int
  BY <1>1, CoordinatesAreIntegers
<1>3. ASSUME NEW c \in 1 .. 2, p[c] = Nowhere PROVE Square(p[c] - q[c]) >= 10000
  <2>1. Nowhere = -100 /\ q[c] \in Nat
    BY <1>1 DEF Nowhere
  <2>2. p[c] - q[c] \in Int /\ 100 \in Int /\ Abs(100) <= Abs(p[c] - q[c]) /\ Square(100) = 10000
    BY <1>3, <2>1 DEF Abs, Square
  <2>3. Square(p[c] - q[c]) \in Int
    BY <2>2 DEF Square
  <2>4. Square(100) <= Square(p[c] - q[c])
    BY <2>2, SquaresGrow
  <2>5. QED
    BY <2>2, <2>3, <2>4
<1>4. Distance2(p, q) >= 10000
  <2>1. /\ Distance2(p, q) \in Nat
        /\ Square(p[1] - q[1]) \in Nat /\ Square(p[1] - q[1]) <= Distance2(p, q)
        /\ Square(p[2] - q[2]) \in Nat /\ Square(p[2] - q[2]) <= Distance2(p, q)
    BY <1>1, DistanceIsNatural
  <2>2. p[1] = Nowhere \/ p[2] = Nowhere
    BY DEF Strayed, p
  <2>3. QED
    BY <1>3, <2>1, <2>2
<1>5. Square(MaxFingerSize * 2) <= 64
  <2>1. MaxFingerSize * 2 \in Int /\ Abs(MaxFingerSize * 2) <= Abs(8) /\ Square(8) = 64
    BY SizesAssumption DEF Abs, Square
  <2>2. QED
    BY <2>1, SquaresGrow
<1>6. QED
  <2>1. Square(MaxFingerSize * 2) \in Int /\ Distance2(p, q) \in Int
    BY <1>1, DistanceIsNatural, SizesAssumption DEF Square
  <2>2. ~ (Distance2(p, q) < Square(MaxFingerSize * 2))
    BY <1>4, <1>5, <2>1
  <2>3. QED
    BY <2>2 DEF IsMatch, p, q

\* An update by a region within two pixels leaves a new finger astray.
LEMMA CloseUpdateStrays ==
  ASSUME NEW f \in Finger, f.last = <<Nowhere, Nowhere>>, NEW q \in Coordinates,
         4 * Distance2(f.current, q) <= Square(MaxFingerSize), MaxFingerSize <= 4
  PROVE  Strayed(Updated(f, q))
<1> DEFINE p == f.current
<1>1. p \in Coordinates /\ f.last[1] = Nowhere /\ f.last[2] = Nowhere
  BY DEF Finger
<1> HIDE DEF p
<1>2. p[1] \in Int /\ p[2] \in Int /\ q[1] \in Int /\ q[2] \in Int
  BY <1>1, CoordinatesAreIntegers
<1>3. Distance2(p, q) <= 4
  <2>1. MaxFingerSize \in Int /\ Abs(MaxFingerSize) <= Abs(4) /\ Square(4) = 16
    BY SizesAssumption DEF Abs, Square
  <2>2. Square(MaxFingerSize) <= Square(4) /\ Square(MaxFingerSize) \in Nat
    BY <2>1, SquaresGrow
  <2>3. Distance2(p, q) \in Nat
    BY <1>1, DistanceIsNatural
  <2>4. 4 * Distance2(p, q) <= Square(MaxFingerSize)
    BY DEF p
  <2>5. QED
    BY <2>1, <2>2, <2>3, <2>4
<1>4. PICK c \in 1 .. 2 : Abs(p[c] - q[c]) <= 1
  <2> SUFFICES ASSUME \A c \in 1 .. 2 : ~ (Abs(p[c] - q[c]) <= 1) PROVE FALSE
    OBVIOUS
  <2>1. ASSUME NEW c \in 1 .. 2 PROVE Square(p[c] - q[c]) >= 4 /\ Square(p[c] - q[c]) \in Nat
    <3>1. p[c] - q[c] \in Int
      BY <1>2
    <3>2. ~ (Abs(p[c] - q[c]) <= 1)
      OBVIOUS
    <3>3. Abs(2) <= Abs(p[c] - q[c]) /\ Square(2) = 4
      BY <3>1, <3>2 DEF Abs, Square
    <3>4. Square(2) <= Square(p[c] - q[c])
      BY <3>1, <3>3, SquaresGrow
    <3>5. Abs(p[c] - q[c]) <= Abs(p[c] - q[c])
      BY <3>1 DEF Abs
    <3>6. Square(p[c] - q[c]) \in Nat
      BY <3>1, <3>5, SquaresGrow
    <3>7. QED
      BY <3>3, <3>4, <3>6
  <2>2. Distance2(p, q) = Square(p[1] - q[1]) + Square(p[2] - q[2])
    BY DEF Distance2
  <2>3. 1 \in 1 .. 2 /\ 2 \in 1 .. 2
    OBVIOUS
  <2>4. Square(p[1] - q[1]) >= 4 /\ Square(p[1] - q[1]) \in Nat
    BY <2>1, <2>3
  <2>5. Square(p[2] - q[2]) >= 4 /\ Square(p[2] - q[2]) \in Nat
    BY <2>1, <2>3
  <2>6. QED
    BY <1>3, <2>2, <2>4, <2>5
<1>5. Abs(q[c] - p[c]) = Abs(p[c] - q[c])
  BY <1>2 DEF Abs
<1>6. Filtered(f, q)[c] = Nowhere
  <2>1. ~ (Abs(q[c] - f.current[c]) > JitterThreshold)
    <3>1. Abs(p[c] - q[c]) \in Int
      BY <1>2 DEF Abs
    <3>2. QED
      BY <1>4, <1>5, <3>1 DEF p, JitterThreshold
  <2>2. f.last[c] = Nowhere
    BY <1>1
  <2>3. QED
    BY <2>1, <2>2 DEF Filtered
<1>7. Updated(f, q).current = Filtered(f, q)
  BY DEF Updated, Finger
<1>8. QED
  BY <1>6, <1>7 DEF Strayed

\* What an update leaves alone.
LEMMA UpdatedFields ==
  ASSUME NEW f \in Finger, NEW q \in Coordinates
  PROVE  /\ Updated(f, q) \in Finger
         /\ Updated(f, q).id = f.id /\ Updated(f, q).life = f.life /\ Updated(f, q).updated
<1>1. Filtered(f, q) \in Coordinates
  <2>1. f.last[1] \in Int /\ f.last[2] \in Int /\ q[1] \in Int /\ q[2] \in Int
    BY CoordinatesAreIntegers DEF Finger
  <2>2. Filtered(f, q) \in [ 1 .. 2 -> Int ]
    BY <2>1 DEF Filtered
  <2>3. QED
    BY <2>2 DEF Coordinates
<1>2. QED
  BY <1>1 DEF Updated, Finger

\* What is known of finger f of the list when k regions of a frame were
\* looked at: one of an earlier frame is astray, and a new one was moved by
\* a second region or is where it was found.
FingerInv(f, rs, k) ==
  /\ f.life = INITIAL_LIFE
  /\ f.id < finger_id =>
       f.id \in ListedIds /\ (MaxFingerSize <= 4 => Strayed(f) /\ ~ f.updated)
  /\ f.id >= finger_id =>
       IF f.updated THEN TwoAreClose(rs) /\ (MaxFingerSize <= 4 => Strayed(f))
       ELSE NewAt(f, rs, k)

InOrder(list) == \A x, y \in 1 .. Len(list) : x < y => list[x].id < list[y].id

WorkInv(w, rs, k) ==
  /\ w \in [ list : Seq(Finger), next : Nat ]
  /\ finger_id <= w.next
  /\ InOrder(w.list)
  /\ \A i \in 1 .. Len(w.list) : w.list[i].id < w.next /\ FingerInv(w.list[i], rs, k)

LEMMA NewFingerIsOne ==
  ASSUME NEW id \in Nat, NEW p \in Coordinates
  PROVE  /\ NewFinger(id, p) \in Finger
         /\ NewFinger(id, p).id = id /\ NewFinger(id, p).current = p
         /\ NewFinger(id, p).last = <<Nowhere, Nowhere>>
         /\ ~ NewFinger(id, p).updated /\ NewFinger(id, p).life = INITIAL_LIFE
<1>1. <<Nowhere, Nowhere>> \in Coordinates /\ INITIAL_LIFE \in Int
  BY DEF Coordinates, Nowhere, INITIAL_LIFE
<1>2. QED
  BY <1>1 DEF NewFinger, Finger

LEMMA MatchedFingerInv ==
  ASSUME NEW rs, IsFrame(rs), finger_id \in Nat, NEW k \in Nat, k + 1 \in DOMAIN rs, rs[k + 1].finger,
         NEW f \in Finger, FingerInv(f, rs, k), IsMatch(f, rs, k + 1)
  PROVE  FingerInv(Updated(f, rs[k + 1].at), rs, k + 1)
<1> DEFINE q == rs[k + 1].at
           g == Updated(f, q)
<1> SUFFICES FingerInv(g, rs, k + 1)
  OBVIOUS
<1>1. q \in Coordinates
  BY RegionsAreInTheImage
<1>2. g.life = INITIAL_LIFE /\ g.id = f.id /\ g.updated
  BY <1>1, UpdatedFields DEF FingerInv
<1>3. MaxFingerSize <= 4 => ~ Strayed(f)
  BY StrayedIsOutOfReach
<1>4. CASE f.id < finger_id
  <2>1. ~ (MaxFingerSize <= 4) /\ ~ (f.id >= finger_id) /\ f.id \in ListedIds
    BY <1>3, <1>4 DEF FingerInv, Finger
  <2> HIDE DEF g
  <2>2. QED
    BY <1>2, <2>1 DEF FingerInv
<1>5. CASE ~ (f.id < finger_id) /\ f.updated
  <2>1. TwoAreClose(rs) /\ ~ (MaxFingerSize <= 4)
    BY <1>3, <1>5 DEF FingerInv, Finger
  <2> HIDE DEF g
  <2>2. QED
    BY <1>2, <1>5, <2>1 DEF FingerInv
<1>6. CASE ~ (f.id < finger_id) /\ ~ f.updated
  <2>1. NewAt(f, rs, k)
    BY <1>6 DEF FingerInv, Finger
  <2>2. PICK m \in DOMAIN rs : m <= k /\ rs[m].finger /\ f.current = rs[m].at
    BY <2>1 DEF NewAt
  <2> DEFINE d == Distance2(f.current, q)
  <2>3. m # k + 1 /\ d = Distance2(rs[m].at, q) /\ d \in Nat
    <3>1. m # k + 1
      <4>1. m \in Int
        BY DEF IsFrame
      <4>2. QED
        BY <2>2, <4>1
    <3>2. f.current \in Coordinates
      BY DEF Finger
    <3>3. QED
      BY <1>1, <2>2, <3>1, <3>2, DistanceIsNatural
  <2>4. 4 * d <= Square(MaxFingerSize)
    <3>1. HasRival(rs, k + 1, d)
      <4>1. Distance2(rs[m].at, rs[k + 1].at) <= d
        BY <2>3
      <4>2. m \in DOMAIN rs \ {k + 1}
        BY <2>3
      <4> HIDE DEF d
      <4>3. QED
        BY <4>1, <4>2 DEF HasRival
    <3>2. QED
      BY <3>1 DEF IsMatch
  <2>5. TwoAreClose(rs)
    <3>1. 4 * Distance2(rs[m].at, rs[k + 1].at) <= Square(MaxFingerSize)
      BY <2>3, <2>4
    <3>2. QED
      BY <2>2, <2>3, <3>1 DEF TwoAreClose
  <2>6. MaxFingerSize <= 4 => Strayed(g)
    <3>1. f.last = <<Nowhere, Nowhere>>
      BY <2>1 DEF NewAt
    <3>2. QED
      BY <1>1, <2>4, <3>1, CloseUpdateStrays
  <2> HIDE DEF g
  <2>7. QED
    BY <1>2, <1>6, <2>5, <2>6 DEF FingerInv
<1>7. QED
  BY <1>4, <1>5, <1>6

LEMMA NextRegionKeeps ==
  ASSUME NEW f, NEW rs, NEW k \in Nat, FingerInv(f, rs, k), IsFrame(rs)
  PROVE  FingerInv(f, rs, k + 1)
<1>1. NewAt(f, rs, k) => NewAt(f, rs, k + 1)
  <2>1. \A m \in DOMAIN rs : m <= k => m <= k + 1
    BY DEF IsFrame
  <2>2. QED
    BY <2>1 DEF NewAt
<1>2. QED
  BY <1>1 DEF FingerInv

LEMMA ProcessedKeeps ==
  ASSUME NEW rs, IsFrame(rs), finger_id \in Nat, NEW k \in Nat, k + 1 \in DOMAIN rs,
         NEW w, WorkInv(w, rs, k)
  PROVE  WorkInv(Processed(w, rs, k + 1), rs, k + 1)
<1> DEFINE n == Len(w.list)
           q == rs[k + 1].at
           i == Match(w.list, rs, k + 1)
<1>1. /\ w.list \in Seq(Finger) /\ w.next \in Nat /\ n \in Nat /\ w.list \in [ 1 .. n -> Finger ]
      /\ q \in Coordinates
  BY RegionsAreInTheImage, LenProperties DEF WorkInv
<1>2. \A x \in 1 .. n : /\ w.list[x].id < w.next
                        /\ \A y \in 1 .. n : x < y => w.list[x].id < w.list[y].id
                        /\ FingerInv(w.list[x], rs, k) /\ FingerInv(w.list[x], rs, k + 1)
                        /\ w.list[x] \in Finger
  BY <1>1, NextRegionKeeps DEF WorkInv, InOrder
<1>3. i = 0 \/ (i \in 1 .. n /\ IsMatch(w.list[i], rs, k + 1))
  BY <1>1, MatchIsClose
<1> HIDE DEF n
<1>4. CASE ~ rs[k + 1].finger
  <2>1. Processed(w, rs, k + 1) = w
    BY <1>4 DEF Processed
  <2>2. QED
    BY <1>2, <2>1 DEF WorkInv, n
<1>5. CASE rs[k + 1].finger /\ i = 0
  <2> DEFINE new == NewFinger(w.next, q)
             list == Append(w.list, new)
             v == [ w EXCEPT !.list = list, !.next = @ + 1 ]
  <2>1. Processed(w, rs, k + 1) = v
    BY <1>5 DEF Processed
  <2>2. /\ new \in Finger /\ new.id = w.next /\ new.current = q
        /\ new.last = <<Nowhere, Nowhere>> /\ ~ new.updated /\ new.life = INITIAL_LIFE
    BY <1>1, NewFingerIsOne
  <2> HIDE DEF new
  <2>3. /\ list \in Seq(Finger) /\ Len(list) = n + 1 /\ list[n + 1] = new
        /\ \A x \in 1 .. n : list[x] = w.list[x]
    BY <1>1, <2>2, AppendProperties DEF n
  <2> HIDE DEF list
  <2>4. v \in [ list : Seq(Finger), next : Nat ] /\ v.list = list /\ v.next = w.next + 1
    <3>1. w \in [ list : Seq(Finger), next : Nat ] /\ w.next + 1 \in Nat
      BY <1>1 DEF WorkInv
    <3>2. QED
      BY <2>3, <3>1
  <2> HIDE DEF v
  <2>5. FingerInv(new, rs, k + 1)
    <3>1. NewAt(new, rs, k + 1)
      <4>1. k + 1 <= k + 1
        OBVIOUS
      <4>2. QED
        BY <1>5, <2>2, <4>1 DEF NewAt
    <3>2. ~ (new.id < finger_id)
      BY <1>1, <2>2 DEF WorkInv
    <3>3. QED
      BY <2>2, <3>1, <3>2 DEF FingerInv
  <2>6. ASSUME NEW x \in 1 .. n + 1
        PROVE  /\ list[x].id < w.next + 1 /\ FingerInv(list[x], rs, k + 1)
               /\ \A y \in 1 .. n + 1 : x < y => list[x].id < list[y].id
    <3>1. CASE x = n + 1
      <4>1. list[x].id < w.next + 1
        BY <1>1, <2>2, <2>3, <3>1
      <4>2. \A y \in 1 .. n + 1 : ~ (x < y)
        BY <1>1, <3>1
      <4>3. QED
        BY <2>3, <2>5, <3>1, <4>1, <4>2
    <3>2. CASE x \in 1 .. n
      <4>1. list[x] = w.list[x] /\ w.list[x].id \in Nat
        BY <1>2, <2>3, <3>2 DEF Finger
      <4>2. list[x].id < w.next + 1 /\ list[x].id < list[n + 1].id
        BY <1>1, <1>2, <2>2, <2>3, <3>2, <4>1
      <4>3. \A y \in 1 .. n : x < y => list[x].id < list[y].id
        BY <1>2, <2>3, <3>2, <4>1
      <4>4. \A y \in 1 .. n + 1 : y \in 1 .. n \/ y = n + 1
        BY <1>1
      <4>5. FingerInv(list[x], rs, k + 1)
        BY <1>2, <3>2, <4>1
      <4>6. QED
        BY <4>2, <4>3, <4>4, <4>5
    <3>3. QED
      BY <1>1, <3>1, <3>2
  <2>7. finger_id <= w.next + 1
    BY <1>1 DEF WorkInv
  <2>8. QED
    BY <2>1, <2>3, <2>4, <2>6, <2>7 DEF WorkInv, InOrder
<1>6. CASE rs[k + 1].finger /\ i # 0
  <2> DEFINE moved == Updated(w.list[i], q)
             list == [ w.list EXCEPT ![i] = moved ]
             v == [ w EXCEPT !.list = list ]
  <2>1. Processed(w, rs, k + 1) = [ w EXCEPT !.list[i] = Updated(@, q) ]
    BY <1>6 DEF Processed
  <2>2. Processed(w, rs, k + 1) = v
    BY <2>1 DEF WorkInv
  <2>3. i \in 1 .. n /\ IsMatch(w.list[i], rs, k + 1) /\ w.list[i] \in Finger
    BY <1>2, <1>3, <1>6
  <2>4. moved \in Finger /\ moved.id = w.list[i].id /\ FingerInv(moved, rs, k + 1)
    BY <1>1, <1>2, <1>6, <2>3, UpdatedFields, MatchedFingerInv
  <2> HIDE DEF moved, i
  <2>5. /\ list \in Seq(Finger) /\ Len(list) = n
        /\ \A x \in 1 .. n : list[x] = IF x = i THEN moved ELSE w.list[x]
    BY <1>1, <2>3, <2>4, ExceptSeq DEF n
  <2> HIDE DEF list
  <2>6. v \in [ list : Seq(Finger), next : Nat ] /\ v.list = list /\ v.next = w.next
    BY <1>1, <2>5 DEF WorkInv
  <2> HIDE DEF v
  <2>7. \A x \in 1 .. n : list[x].id = w.list[x].id /\ FingerInv(list[x], rs, k + 1)
    BY <1>2, <2>4, <2>5
  <2>8. finger_id <= w.next
    BY DEF WorkInv
  <2>9. QED
    BY <1>2, <2>2, <2>5, <2>6, <2>7, <2>8 DEF WorkInv, InOrder
<1>7. QED
  BY <1>4, <1>5, <1>6

\* The list and the next id when all regions were looked at.
LEMMA FoundKeeps ==
  ASSUME NEW rs, IsFrame(rs), finger_id \in Nat,
         WorkInv([ list |-> fingersList, next |-> finger_id ], rs, 0)
  PROVE  \E n \in Nat : WorkInv(FoundIn(rs), rs, n)
<1> DEFINE order == [ j \in DOMAIN rs |-> j ]
           start == [ list |-> fingersList, next |-> finger_id ]
<1>1. PICK n \in Nat : DOMAIN rs = 1 .. n
  BY SizesAssumption DEF IsFrame
<1>2. DOMAIN order = 1 .. n /\ \A j \in 1 .. n : order[j] = j
  BY <1>1
<1> HIDE DEF order, start
<1>3. PICK r : /\ r[0] = start /\ r[n] = Finding!Fold(start, order, rs)
               /\ \A k \in 0 .. n - 1 : r[k + 1] = ProcessedNext(r[k], order[k + 1], rs)
  BY <1>2, Finding!FoldSteps
<1> DEFINE K == { k \in 0 .. n : WorkInv(r[k], rs, k) }
<1>4. 0 \in K
  BY <1>3 DEF start
<1>5. \A k \in 0 .. n - 1 : k \in K => k + 1 \in K
  <2> TAKE k \in 0 .. n - 1
  <2> HAVE k \in K
  <2>1. k \in Nat /\ k + 1 \in 1 .. n /\ k + 1 \in 0 .. n
    OBVIOUS
  <2>2. r[k + 1] = Processed(r[k], rs, k + 1)
    BY <1>2, <1>3, <2>1 DEF ProcessedNext
  <2>3. WorkInv(Processed(r[k], rs, k + 1), rs, k + 1)
    BY <1>1, <2>1, ProcessedKeeps
  <2>4. QED
    BY <2>1, <2>2, <2>3
<1> HIDE DEF K
<1>6. n \in K
  <2>1. \A k \in 0 .. n : k \in K
    BY <1>4, <1>5, Finding!UpTo
  <2>2. QED
    BY <2>1
<1>7. r[n] = FoundIn(rs)
  BY <1>3 DEF FoundIn, order, start
<1>8. QED
  BY <1>6, <1>7 DEF K

\* What ageing makes of a finger that has one life.
LEMMA AgedFields ==
  ASSUME NEW f \in Finger, f.life = INITIAL_LIFE
  PROVE  /\ IsAlive(f) <=> f.updated
         /\ f.updated => /\ Aged(f) \in Finger
                         /\ Aged(f).id = f.id /\ Aged(f).life = INITIAL_LIFE
                         /\ ~ Aged(f).updated /\ Aged(f).current = f.current
<1>1. CASE f.updated
  <2>1. Aged(f) = [ f EXCEPT !.updated = FALSE ]
    BY <1>1 DEF Aged
  <2>2. /\ Aged(f) \in Finger /\ Aged(f).id = f.id /\ Aged(f).life = INITIAL_LIFE
        /\ ~ Aged(f).updated /\ Aged(f).current = f.current
    BY <2>1 DEF Finger
  <2>3. IsAlive(f)
    BY <2>2 DEF IsAlive, INITIAL_LIFE
  <2>4. QED
    BY <1>1, <2>2, <2>3
<1>2. CASE ~ f.updated
  <2>1. Aged(f) = [ f EXCEPT !.current = f.last, !.life = @ - 1 ]
    BY <1>2 DEF Aged
  <2>2. Aged(f).life = f.life - 1
    BY <2>1 DEF Finger
  <2>3. QED
    BY <1>2, <2>2 DEF IsAlive, INITIAL_LIFE
<1>3. QED
  BY <1>1, <1>2 DEF Finger

\* The list after the first k fingers were aged: those that were updated.
KeptInv(kept, list, k) ==
  /\ kept \in Seq(Finger)
  /\ InOrder(kept)
  /\ \A i \in 1 .. Len(kept) : \E x \in 1 .. k : list[x].updated /\ kept[i] = Aged(list[x])

LEMMA KeptKeeps ==
  ASSUME NEW n \in Nat, NEW list \in [ 1 .. n -> Finger ],
         \A x \in 1 .. n : list[x].life = INITIAL_LIFE,
         \A x, y \in 1 .. n : x < y => list[x].id < list[y].id,
         NEW k \in 0 .. n - 1, NEW kept, KeptInv(kept, list, k)
  PROVE  KeptInv(Kept(kept, list[k + 1]), list, k + 1)
<1> DEFINE f == list[k + 1]
           m == Len(kept)
<1>1. /\ k + 1 \in 1 .. n /\ f \in Finger /\ f.life = INITIAL_LIFE
      /\ kept \in Seq(Finger) /\ m \in Nat /\ \A x \in 1 .. k : x \in 1 .. k + 1 /\ x \in 1 .. n
  BY LenProperties DEF KeptInv
<1>2. \A i \in 1 .. m :
        /\ \A y \in 1 .. m : i < y => kept[i].id < kept[y].id
        /\ \E x \in 1 .. k : list[x].updated /\ kept[i] = Aged(list[x])
        /\ \E x \in 1 .. k + 1 : list[x].updated /\ kept[i] = Aged(list[x])
  BY <1>1 DEF KeptInv, InOrder
<1>3. CASE ~ f.updated
  <2>1. Kept(kept, f) = kept
    BY <1>1, <1>3, AgedFields DEF Kept
  <2> HIDE DEF f, m
  <2>2. QED
    BY <1>1, <1>2, <2>1 DEF KeptInv, f, m
<1>4. CASE f.updated
  <2> DEFINE new == Aged(f)
             more == Append(kept, new)
  <2>1. Kept(kept, f) = more
    BY <1>1, <1>4, AgedFields DEF Kept
  <2>2. new \in Finger /\ new.id = f.id
    BY <1>1, <1>4, AgedFields
  <2> HIDE DEF new
  <2>3. more \in Seq(Finger) /\ Len(more) = m + 1 /\ more[m + 1] = new /\ \A i \in 1 .. m : more[i] = kept[i]
    BY <1>1, <2>2, AppendProperties
  <2> HIDE DEF more, m
  <2>4. \E x \in 1 .. k + 1 : list[x].updated /\ new = Aged(list[x])
    <3>1. k + 1 \in 1 .. k + 1 /\ f = list[k + 1]
      OBVIOUS
    <3>2. QED
      BY <1>4, <3>1 DEF new
  <2>5. \A i \in 1 .. m : kept[i].id < new.id
    <3> TAKE i \in 1 .. m
    <3>1. PICK x \in 1 .. k : list[x].updated /\ kept[i] = Aged(list[x])
      BY <1>2
    <3>2. list[x].id < f.id /\ list[x] \in Finger /\ list[x].life = INITIAL_LIFE
      BY <1>1
    <3>3. kept[i].id = list[x].id
      BY <3>1, <3>2, AgedFields
    <3>4. QED
      BY <2>2, <3>2, <3>3
  <2>6. ASSUME NEW i \in 1 .. m + 1
        PROVE  /\ \A y \in 1 .. m + 1 : i < y => more[i].id < more[y].id
               /\ \E x \in 1 .. k + 1 : list[x].updated /\ more[i] = Aged(list[x])
    <3>1. CASE i = m + 1
      <4>1. \A y \in 1 .. m + 1 : ~ (i < y)
        BY <1>1, <3>1
      <4>2. QED
        BY <2>3, <2>4, <3>1, <4>1
    <3>2. CASE i \in 1 .. m
      <4>1. more[i] = kept[i] /\ more[i].id < more[m + 1].id
        BY <2>3, <2>5, <3>2
      <4>2. \A y \in 1 .. m : i < y => more[i].id < more[y].id
        BY <1>2, <2>3, <3>2
      <4>3. \A y \in 1 .. m + 1 : y \in 1 .. m \/ y = m + 1
        BY <1>1
      <4>4. \E x \in 1 .. k + 1 : list[x].updated /\ more[i] = Aged(list[x])
        BY <1>2, <3>2, <4>1
      <4>5. QED
        BY <4>1, <4>2, <4>3, <4>4
    <3>3. QED
      BY <1>1, <3>1, <3>2
  <2>7. KeptInv(more, list, k + 1)
    BY <2>3, <2>6 DEF KeptInv, InOrder
  <2>8. QED
    BY <2>1, <2>7
<1>5. QED
  BY <1>3, <1>4

LEMMA AllKept ==
  ASSUME NEW n \in Nat, NEW list \in [ 1 .. n -> Finger ],
         \A x \in 1 .. n : list[x].life = INITIAL_LIFE,
         \A x, y \in 1 .. n : x < y => list[x].id < list[y].id
  PROVE  KeptInv(Ageing!Fold(<<>>, list, 0), list, n)
<1> DEFINE none == <<>>
<1> HIDE DEF none
<1>1. PICK r : /\ r[0] = none /\ r[n] = Ageing!Fold(none, list, 0)
               /\ \A k \in 0 .. n - 1 : r[k + 1] = KeptNext(r[k], list[k + 1], 0)
  <2>1. DOMAIN list = 1 .. n
    OBVIOUS
  <2>2. QED
    BY <2>1, Ageing!FoldSteps
<1> DEFINE K == { k \in 0 .. n : KeptInv(r[k], list, k) }
<1>2. 0 \in K
  <2>1. <<>> \in Seq(Finger) /\ Len(<<>>) = 0
    BY EmptySeq
  <2>2. KeptInv(<<>>, list, 0)
    BY <2>1 DEF KeptInv, InOrder
  <2>3. QED
    BY <1>1, <2>2 DEF none
<1>3. \A k \in 0 .. n - 1 : k \in K => k + 1 \in K
  <2> TAKE k \in 0 .. n - 1
  <2> HAVE k \in K
  <2>1. r[k + 1] = Kept(r[k], list[k + 1]) /\ k + 1 \in 0 .. n
    BY <1>1 DEF KeptNext
  <2>2. KeptInv(Kept(r[k], list[k + 1]), list, k + 1)
    BY KeptKeeps
  <2>3. QED
    BY <2>1, <2>2
<1> HIDE DEF K
<1>4. \A k \in 0 .. n : k \in K
  BY <1>2, <1>3, Ageing!UpTo
<1>5. n \in K
  BY <1>4
<1>6. QED
  BY <1>1, <1>5 DEF K, none

\* All that is known between two frames.
FingersInv ==
  /\ finger_id \in 0 .. MaxFingers
  /\ fingersList \in Seq(Finger)
  /\ InOrder(fingersList)
  /\ \A i \in 1 .. Len(fingersList) :
       LET f == fingersList[i]
       IN  /\ f.life = INITIAL_LIFE /\ ~ f.updated /\ f.id < finger_id
           /\ MaxFingerSize <= 4 => Strayed(f)

\* What a frame does to the list: what is kept was updated in it.
LEMMA FrameKeeps ==
  ASSUME FingersInv, NEW rs, IsFrame(rs), FindFingers(rs)
  PROVE  /\ FingersInv' /\ frame' = rs
         /\ \A i \in 1 .. Len(fingersList') :
              LET f == fingersList'[i]
              IN  IF f.id < finger_id THEN f.id \in ListedIds /\ ~ (MaxFingerSize <= 4)
                  ELSE TwoAreClose(rs)
<1> DEFINE found == FoundIn(rs)
           list == found.list
           n == Len(list)
<1>1. /\ found.next <= MaxFingers /\ finger_id' = found.next /\ frame' = rs
      /\ fingersList' = Ageing!Fold(<<>>, list, 0)
  BY FindFingersFolds
<1>2. finger_id \in Nat
  BY SizesAssumption DEF FingersInv
<1>3. PICK m \in Nat : WorkInv(found, rs, m)
  <2>1. \A i \in 1 .. Len(fingersList) : FingerInv(fingersList[i], rs, 0) /\ fingersList[i].id < finger_id
    <3> TAKE i \in 1 .. Len(fingersList)
    <3>1. fingersList[i] \in Finger /\ fingersList[i].id \in Nat
      <4>1. fingersList[i] \in Finger
        BY ElementOfSeq DEF FingersInv
      <4>2. QED
        BY <4>1 DEF Finger
    <3>2. fingersList[i].id < finger_id /\ ~ (fingersList[i].id >= finger_id)
      BY <1>2, <3>1 DEF FingersInv
    <3>3. fingersList[i].id \in ListedIds
      <4>1. i \in DOMAIN fingersList
        BY LenProperties DEF FingersInv
      <4>2. QED
        BY <4>1 DEF ListedIds
    <3>4. QED
      BY <3>2, <3>3 DEF FingerInv, FingersInv
  <2> DEFINE start == [ list |-> fingersList, next |-> finger_id ]
  <2>2. start \in [ list : Seq(Finger), next : Nat ] /\ start.list = fingersList /\ start.next = finger_id
    BY <1>2 DEF FingersInv
  <2>3. InOrder(fingersList)
    BY DEF FingersInv
  <2>4. WorkInv(start, rs, 0)
    <3> HIDE DEF start
    <3>1. QED
      BY <1>2, <2>1, <2>2, <2>3 DEF WorkInv
  <2>5. QED
    BY <1>2, <2>4, FoundKeeps
<1> HIDE DEF found
<1>4. /\ list \in Seq(Finger) /\ n \in Nat /\ list \in [ 1 .. n -> Finger ] /\ DOMAIN list = 1 .. n
      /\ found.next \in Nat /\ finger_id <= found.next
  BY <1>3, LenProperties DEF WorkInv
<1>5. \A x \in 1 .. n : /\ list[x].id < found.next /\ FingerInv(list[x], rs, m)
                        /\ \A y \in 1 .. n : x < y => list[x].id < list[y].id
  BY <1>3 DEF WorkInv, InOrder
<1> HIDE DEF list, n
<1>6. KeptInv(fingersList', list, n)
  <2>1. \A x \in 1 .. n : list[x].life = INITIAL_LIFE
    BY <1>5 DEF FingerInv
  <2>2. KeptInv(Ageing!Fold(<<>>, list, 0), list, n)
    BY <1>4, <1>5, <2>1, AllKept
  <2>3. QED
    BY <1>1, <2>2
<1>7. ASSUME NEW i \in 1 .. Len(fingersList')
      PROVE  LET f == fingersList'[i]
             IN  /\ f.life = INITIAL_LIFE /\ ~ f.updated /\ f.id < finger_id'
                 /\ MaxFingerSize <= 4 => Strayed(f)
                 /\ IF f.id < finger_id THEN f.id \in ListedIds /\ ~ (MaxFingerSize <= 4)
                  ELSE TwoAreClose(rs)
  <2> DEFINE f == fingersList'[i]
  <2>1. PICK x \in 1 .. n : list[x].updated /\ f = Aged(list[x])
    BY <1>6 DEF KeptInv
  <2> DEFINE g == list[x]
  <2>2. g \in Finger /\ FingerInv(g, rs, m) /\ g.life = INITIAL_LIFE /\ g.id < found.next /\ g.updated
    BY <1>4, <1>5, <2>1 DEF FingerInv
  <2> HIDE DEF g
  <2>3. /\ f.id = g.id /\ f.life = INITIAL_LIFE /\ ~ f.updated /\ f.current = g.current
    BY <2>1, <2>2, AgedFields DEF g
  <2>4. g.id \in Nat
    BY <2>2 DEF Finger
  <2> HIDE DEF f
  <2>5. CASE g.id < finger_id
    <3>1. ~ (MaxFingerSize <= 4) /\ g.id \in ListedIds
      BY <2>2, <2>5 DEF FingerInv
    <3>2. QED
      BY <1>1, <2>2, <2>3, <2>5, <3>1 DEF f
  <2>6. CASE g.id >= finger_id
    <3>1. TwoAreClose(rs) /\ (MaxFingerSize <= 4 => Strayed(g))
      BY <2>2, <2>6 DEF FingerInv
    <3>2. Strayed(g) => Strayed(f)
      BY <2>3 DEF Strayed
    <3>3. ~ (f.id < finger_id)
      BY <1>2, <2>3, <2>4, <2>6
    <3>4. QED
      BY <1>1, <2>2, <2>3, <3>1, <3>2, <3>3 DEF f
  <2>7. QED
    BY <1>2, <2>4, <2>5, <2>6
<1>8. finger_id' \in 0 .. MaxFingers
  BY <1>1, <1>4, SizesAssumption
<1>9. FingersInv'
  <2>1. fingersList' \in Seq(Finger) /\ InOrder(fingersList)'
    BY <1>6 DEF KeptInv, InOrder
  <2>2. QED
    BY <1>7, <1>8, <2>1 DEF FingersInv, Strayed
<1>10. QED
  BY <1>1, <1>7, <1>9

LEMMA FingersInitInv == RecognitionInit => FingersInv
<1> SUFFICES ASSUME RecognitionInit PROVE FingersInv
  OBVIOUS
<1>1. fingersList = <<>> /\ finger_id = 0
  BY DEF RecognitionInit, FingersInit
<1>2. fingersList \in Seq(Finger) /\ Len(fingersList) = 0
  BY <1>1, EmptySeq
<1>3. QED
  BY <1>1, <1>2, SizesAssumption DEF FingersInv, InOrder

\* Each step of the recognition is a frame to the fingers, or none.
LEMMA FingersMove ==
  ASSUME [RecognitionNext]_mcVars
  PROVE  (\E rs : IsFrame(rs) /\ FindFingers(rs)) \/ UNCHANGED fingerVars
<1>1. CASE FingersStep
  BY <1>1 DEF FingersStep, FingersNext, IsFrame
<1>2. CASE ~ FingersStep
  BY <1>2 DEF RecognitionNext, ThinStep, WideStep, RootsStep, StringsStep, mcVars
<1>3. QED
  BY <1>1, <1>2

LEMMA FingersInvStep ==
  ASSUME FingersInv, [RecognitionNext]_mcVars
  PROVE  FingersInv'
<1>1. CASE UNCHANGED fingerVars
  BY <1>1 DEF fingerVars, FingersInv, InOrder, Strayed
<1>2. CASE \E rs : IsFrame(rs) /\ FindFingers(rs)
  BY <1>2, FrameKeeps
<1>3. QED
  BY <1>1, <1>2, FingersMove

LEMMA FingersInvHolds == RecognitionSpec => []FingersInv
BY FingersInitInv, FingersInvStep, PTL DEF RecognitionSpec

\* The list of fingers is in the order of their ids, none of them twice.
LEMMA FingersAreListed == FingersInv => ListTypeOK
<1> SUFFICES ASSUME FingersInv PROVE ListTypeOK
  OBVIOUS
<1> DEFINE n == Len(fingersList)
<1>1. fingersList \in Seq(Finger) /\ n \in Nat /\ DOMAIN fingersList = 1 .. n
  BY LenProperties DEF FingersInv
<1>2. ASSUME NEW i \in 1 .. n
      PROVE  /\ fingersList[i].id \in 0 .. finger_id - 1
             /\ fingersList[i].life = INITIAL_LIFE /\ ~ fingersList[i].updated
             /\ i > 1 => fingersList[i - 1].id < fingersList[i].id
  <2>1. fingersList[i].id \in Nat
    <3>1. fingersList[i] \in Finger
      BY <1>1, ElementOfSeq
    <3>2. QED
      BY <3>1 DEF Finger
  <2>2. fingersList[i].id < finger_id /\ finger_id \in Nat
    BY SizesAssumption DEF FingersInv
  <2>3. ASSUME i > 1 PROVE fingersList[i - 1].id < fingersList[i].id
    <3>1. i - 1 \in 1 .. n /\ i - 1 < i
      BY <1>1, <2>3
    <3> HIDE DEF n
    <3>2. QED
      BY <3>1 DEF FingersInv, InOrder, n
  <2>4. QED
    BY <2>1, <2>2, <2>3 DEF FingersInv
<1>3. QED
  BY <1>1, <1>2 DEF ListTypeOK, FingersInv

LEMMA FlickerStep ==
  ASSUME FingersInv, FingersInv', [RecognitionNext]_mcVars
  PROVE  [ /\ ListTypeOK'
           /\ ListedIds' \ ListedIds # {} =>
                \E j, k \in DOMAIN frame' :
                  /\ j # k /\ frame'[j].finger /\ frame'[k].finger
                  /\ 4 * Distance2(frame'[j].at, frame'[k].at) <= Square(MaxFingerSize)
           /\ MaxFingerSize <= 4 => ListedIds \cap ListedIds' = {} ]_fingerVars
<1> SUFFICES ASSUME ~ UNCHANGED fingerVars
             PROVE  /\ ListTypeOK'
                    /\ ListedIds' \ ListedIds # {} => TwoAreClose(frame')
                    /\ MaxFingerSize <= 4 => ListedIds \cap ListedIds' = {}
  BY DEF TwoAreClose
<1>1. PICK rs : IsFrame(rs) /\ FindFingers(rs)
  BY FingersMove
<1>2. /\ frame' = rs
      /\ \A i \in 1 .. Len(fingersList') :
           IF fingersList'[i].id < finger_id
           THEN fingersList'[i].id \in ListedIds /\ ~ (MaxFingerSize <= 4)
           ELSE TwoAreClose(rs)
  BY <1>1, FrameKeeps
<1>3. ListTypeOK'
  BY FingersAreListed, PTL
<1>4. /\ DOMAIN fingersList = 1 .. Len(fingersList)
      /\ DOMAIN fingersList' = 1 .. Len(fingersList')
      /\ finger_id \in Nat
      /\ \A i \in DOMAIN fingersList : fingersList[i].id < finger_id
  <2>1. fingersList \in Seq(Finger) /\ fingersList' \in Seq(Finger)
    BY DEF FingersInv
  <2>2. QED
    BY <2>1, LenProperties, SizesAssumption DEF FingersInv
<1>5. ASSUME ListedIds' \ ListedIds # {} PROVE TwoAreClose(rs)
  <2>1. PICK i \in DOMAIN fingersList' : fingersList'[i].id \notin ListedIds
    BY <1>5 DEF ListedIds
  <2>2. QED
    BY <1>2, <1>4, <2>1
<1>6. ASSUME MaxFingerSize <= 4 PROVE ListedIds \cap ListedIds' = {}
  <2>1. \A i \in DOMAIN fingersList : fingersList[i].id < finger_id
    BY <1>4
  <2>2. \A i \in DOMAIN fingersList' : ~ (fingersList'[i].id < finger_id)
    BY <1>2, <1>4, <1>6
  <2>3. QED
    BY <2>1, <2>2 DEF ListedIds
<1>7. QED
  BY <1>2, <1>3, <1>5, <1>6

\* Fingers flicker, wherever regions are found and however many of them: the
\* list is in the order of the ids, a new finger outlives its first frame only
\* if a second region is taken for it, and with fingers of up to four pixels
\* none is in two frames (FingersFlicker).
THEOREM NewFingersFlicker == RecognitionSpec => FingersFlicker
BY FingersInvHolds, FlickerStep, PTL DEF FingersFlicker, RecognitionSpec

-----------------------------------------------------------------------------
(* Lists of neighbours: how often a region is in one.                      *)

PlacesOf(list, a) == { i \in 1 .. Len(list) : list[i] = a }

LEMMA CountPlaces ==
  ASSUME NEW list \in Seq(Nat), NEW a
  PROVE  /\ Count(list, a) = Cardinality(PlacesOf(list, a))
         /\ IsFiniteSet(PlacesOf(list, a)) /\ Count(list, a) \in Nat
         /\ Count(list, a) > 0 <=> \E i \in 1 .. Len(list) : list[i] = a
<1>1. DOMAIN list = 1 .. Len(list) /\ Len(list) \in Nat
  BY LenProperties
<1>2. Count(list, a) = Cardinality(PlacesOf(list, a))
  BY <1>1 DEF Count, PlacesOf
<1>3. IsFiniteSet(PlacesOf(list, a))
  <2>1. IsFiniteSet(1 .. Len(list))
    BY <1>1, FS_Interval
  <2>2. PlacesOf(list, a) \in SUBSET (1 .. Len(list))
    BY DEF PlacesOf
  <2>3. QED
    BY <2>1, <2>2, FS_Subset
<1>4. Cardinality(PlacesOf(list, a)) \in Nat
  BY <1>3, FS_CardinalityType
<1>5. Cardinality(PlacesOf(list, a)) = 0 <=> PlacesOf(list, a) = {}
  BY <1>3, FS_EmptySet
<1>6. PlacesOf(list, a) = {} <=> ~ \E i \in 1 .. Len(list) : list[i] = a
  BY DEF PlacesOf
<1>7. QED
  BY <1>2, <1>3, <1>4, <1>5, <1>6

LEMMA ContainsCounts ==
  ASSUME NEW list \in Seq(Nat), NEW a
  PROVE  /\ Contains(list, a) <=> Count(list, a) > 0
         /\ a \in ToSet(list) <=> Count(list, a) > 0
         /\ Count(list, a) > 0 => a \in Nat
<1>1. DOMAIN list = 1 .. Len(list)
  BY LenProperties
<1>2. \A i \in 1 .. Len(list) : list[i] \in Nat
  BY ElementOfSeq
<1>3. QED
  BY <1>1, <1>2, CountPlaces DEF Contains, ToSet

\* A region that is added is in the list once more.
LEMMA AppendCounts ==
  ASSUME NEW list \in Seq(Nat), NEW b \in Nat
  PROVE  /\ Append(list, b) \in Seq(Nat) /\ Len(Append(list, b)) = Len(list) + 1
         /\ \A a : Count(Append(list, b), a) = IF a = b THEN Count(list, a) + 1 ELSE Count(list, a)
<1> DEFINE more == Append(list, b)
           n == Len(list)
<1>1. /\ n \in Nat /\ more \in Seq(Nat) /\ Len(more) = n + 1 /\ more[n + 1] = b
      /\ \A i \in 1 .. n : more[i] = list[i]
  BY AppendProperties, LenProperties
<1> HIDE DEF more, n
<1>2. ASSUME NEW a PROVE Count(more, a) = IF a = b THEN Count(list, a) + 1 ELSE Count(list, a)
  <2>1. PlacesOf(more, a) = IF a = b THEN PlacesOf(list, a) \cup {n + 1} ELSE PlacesOf(list, a)
    BY <1>1 DEF PlacesOf, n
  <2>2. n + 1 \notin PlacesOf(list, a)
    BY <1>1 DEF PlacesOf, n
  <2>3. Cardinality(PlacesOf(list, a) \cup {n + 1}) = Cardinality(PlacesOf(list, a)) + 1
    BY <2>2, CountPlaces, FS_AddElement
  <2>4. /\ Count(more, a) = Cardinality(PlacesOf(more, a))
        /\ Count(list, a) = Cardinality(PlacesOf(list, a))
    BY <1>1, CountPlaces
  <2>5. QED
    BY <2>1, <2>3, <2>4
<1>3. QED
  BY <1>1, <1>2 DEF more, n

\* One that is replaced is in it once less, and the other once more.
LEMMA ReplaceCounts ==
  ASSUME NEW list \in Seq(Nat), NEW i \in 1 .. Len(list), NEW b \in Nat, list[i] # b
  PROVE  LET other == [ list EXCEPT ![i] = b ]
         IN  /\ other \in Seq(Nat) /\ Len(other) = Len(list)
             /\ \A a : Count(other, a) = IF a = b THEN Count(list, a) + 1
                                         ELSE IF a = list[i] THEN Count(list, a) - 1
                                         ELSE Count(list, a)
<1> DEFINE other == [ list EXCEPT ![i] = b ]
<1>1. /\ other \in Seq(Nat) /\ Len(other) = Len(list) /\ Len(list) \in Nat
      /\ \A j \in 1 .. Len(list) : other[j] = IF j = i THEN b ELSE list[j]
  BY ExceptSeq, LenProperties
<1> HIDE DEF other
<1>2. ASSUME NEW a PROVE Count(other, a) = IF a = b THEN Count(list, a) + 1
                                           ELSE IF a = list[i] THEN Count(list, a) - 1
                                           ELSE Count(list, a)
  <2>1. CASE a = b
    <3>1. PlacesOf(other, a) = PlacesOf(list, a) \cup {i} /\ i \notin PlacesOf(list, a)
      BY <1>1, <2>1 DEF PlacesOf
    <3>2. Cardinality(PlacesOf(list, a) \cup {i}) = Cardinality(PlacesOf(list, a)) + 1
      BY <3>1, CountPlaces, FS_AddElement
    <3>3. QED
      BY <1>1, <2>1, <3>1, <3>2, CountPlaces
  <2>2. CASE a # b /\ a = list[i]
    <3>1. PlacesOf(other, a) = PlacesOf(list, a) \ {i} /\ i \in PlacesOf(list, a)
      BY <1>1, <2>2 DEF PlacesOf
    <3>2. Cardinality(PlacesOf(list, a) \ {i}) = Cardinality(PlacesOf(list, a)) - 1
      BY <3>1, CountPlaces, FS_RemoveElement
    <3>3. QED
      BY <1>1, <2>2, <3>1, <3>2, CountPlaces
  <2>3. CASE a # b /\ a # list[i]
    <3>1. PlacesOf(other, a) = PlacesOf(list, a)
      BY <1>1, <2>3 DEF PlacesOf
    <3>2. QED
      BY <1>1, <2>3, <3>1, CountPlaces
  <2>4. QED
    BY <2>1, <2>2, <2>3
<1>3. QED
  BY <1>1, <1>2 DEF other

\* One that is swapped out is in it once less.
LEMMA SwapCounts ==
  ASSUME NEW list \in Seq(Nat), NEW i \in 1 .. Len(list)
  PROVE  /\ SwappedOut(list, i) \in Seq(Nat) /\ Len(SwappedOut(list, i)) = Len(list) - 1
         /\ \A a : Count(SwappedOut(list, i), a) =
                     IF a = list[i] THEN Count(list, a) - 1 ELSE Count(list, a)
<1> DEFINE n == Len(list)
           other == [ list EXCEPT ![i] = Last(list) ]
           less == SwappedOut(list, i)
<1>1. n \in Nat /\ n > 0 /\ list[n] \in Nat /\ Last(list) = list[n] /\ i \in 1 .. n
  BY LenProperties, ElementOfSeq DEF Last
<1>2. /\ other \in Seq(Nat) /\ Len(other) = n
      /\ \A j \in 1 .. n : other[j] = IF j = i THEN list[n] ELSE list[j]
  BY <1>1, ExceptSeq
<1> HIDE DEF n, other
<1>3. less = SubSeq(other, 1, n - 1)
  BY <1>2 DEF SwappedOut, Front, other, n
<1>4. /\ less \in Seq(Nat) /\ Len(less) = n - 1
      /\ \A j \in 1 .. n - 1 : less[j] = other[j]
  <2>1. \A j \in 1 .. n - 1 : other[j] \in Nat
    <3>1. \A j \in 1 .. n - 1 : j \in 1 .. Len(other)
      BY <1>1, <1>2
    <3>2. QED
      BY <1>2, <3>1, ElementOfSeq
  <2>2. 1 \in Int /\ n - 1 \in Int
    BY <1>1
  <2>3. /\ SubSeq(other, 1, n - 1) \in Seq(Nat)
        /\ Len(SubSeq(other, 1, n - 1)) = IF 1 <= n - 1 THEN (n - 1) - 1 + 1 ELSE 0
        /\ \A j \in 1 .. (n - 1) - 1 + 1 : SubSeq(other, 1, n - 1)[j] = other[1 + j - 1]
    BY <2>1, <2>2, SubSeqProperties
  <2>4. QED
    BY <1>1, <1>3, <2>3
<1> HIDE DEF less
<1>5. \A j \in 1 .. n - 1 : less[j] = IF j = i THEN list[n] ELSE list[j]
  <2>1. \A j \in 1 .. n - 1 : j \in 1 .. n
    BY <1>1
  <2>2. QED
    BY <1>2, <1>4, <2>1
<1>6. ASSUME NEW a PROVE Count(less, a) = IF a = list[i] THEN Count(list, a) - 1 ELSE Count(list, a)
  <2> DEFINE S == PlacesOf(list, a)
  <2>1. /\ IsFiniteSet(S) /\ Cardinality(S) \in Nat /\ Count(list, a) = Cardinality(S)
        /\ Count(less, a) = Cardinality(PlacesOf(less, a))
    BY <1>4, CountPlaces, FS_CardinalityType
  <2>2. \A j : j \in S <=> j \in 1 .. n /\ list[j] = a
    BY DEF PlacesOf, n
  <2>3. \A j : j \in PlacesOf(less, a) <=> j \in 1 .. n - 1 /\ less[j] = a
    BY <1>4 DEF PlacesOf
  <2> HIDE DEF S
  <2>4. CASE a = list[n]
    <3>1. \A j : j \in PlacesOf(less, a) <=> j \in 1 .. n - 1 /\ (j = i \/ list[j] = a)
      BY <1>5, <2>3, <2>4
    <3>7. \A j : j \in 1 .. n - 1 <=> j \in 1 .. n /\ j # n
      BY <1>1
    <3>6. n \in S
      BY <1>1, <2>2, <2>4
    <3>2. IsFiniteSet(S \ {n}) /\ Cardinality(S \ {n}) = Cardinality(S) - 1
      BY <2>1, <3>6, FS_RemoveElement
    <3>3. CASE i = n
      <4>1. PlacesOf(less, a) = S \ {n}
        BY <2>2, <3>1, <3>3, <3>7
      <4>2. QED
        BY <2>1, <2>4, <3>2, <3>3, <4>1
    <3>4. CASE i # n /\ a = list[i]
      <4>1. PlacesOf(less, a) = S \ {n}
        BY <1>1, <2>2, <3>1, <3>4, <3>7
      <4>2. QED
        BY <2>1, <3>2, <3>4, <4>1
    <3>5. CASE i # n /\ a # list[i]
      <4>1. PlacesOf(less, a) = (S \ {n}) \cup {i} /\ i \notin S \ {n}
        BY <1>1, <2>2, <3>1, <3>5, <3>7
      <4>2. Cardinality((S \ {n}) \cup {i}) = Cardinality(S \ {n}) + 1
        BY <3>2, <4>1, FS_AddElement
      <4>3. QED
        BY <2>1, <3>2, <3>5, <4>1, <4>2
    <3>8. QED
      BY <3>3, <3>4, <3>5
  <2>5. CASE a # list[n]
    <3>1. PlacesOf(less, a) = S \ {i}
      BY <1>1, <1>5, <2>2, <2>3, <2>5
    <3>2. CASE a = list[i]
      <4>1. i \in S
        BY <1>1, <2>2, <3>2
      <4>2. Cardinality(S \ {i}) = Cardinality(S) - 1
        BY <2>1, <4>1, FS_RemoveElement
      <4>3. QED
        BY <2>1, <3>1, <3>2, <4>2
    <3>3. CASE a # list[i]
      <4>1. S \ {i} = S
        BY <2>2, <3>3
      <4>2. QED
        BY <2>1, <3>1, <3>3, <4>1
    <3>4. QED
      BY <3>2, <3>3
  <2>6. QED
    BY <2>4, <2>5
<1>7. QED
  BY <1>4, <1>6 DEF less, n

LEMMA EmptyCounts == <<>> \in Seq(Nat) /\ Len(<<>>) = 0 /\ \A a : Count(<<>>, a) = 0
<1> DEFINE none == <<>>
<1>1. none \in Seq(Nat) /\ Len(none) = 0
  BY EmptySeq
<1> HIDE DEF none
<1>2. ASSUME NEW a PROVE Count(none, a) = 0
  <2>1. Count(none, a) \in Nat /\ ~ (Count(none, a) > 0)
    <3>1. ~ \E i \in 1 .. Len(none) : none[i] = a
      BY <1>1
    <3>2. QED
      BY <1>1, <3>1, CountPlaces
  <2>2. QED
    BY <2>1
<1>3. QED
  BY <1>1, <1>2 DEF none

-----------------------------------------------------------------------------
(* The folds of the segmenter.                                             *)

\* Region a loses r1.
SaturatedNext(s, a, r1) == Flagged(RemovedFrom(s, a, r1), a, "fragmented")
Saturating == INSTANCE FoldTheorems WITH Op <- SaturatedNext

\* The i-th neighbour of one region is removed if another has it, ...
WithoutNext(s, i, pair) == WithoutShared(s, i, pair.into, pair.from)
Removing == INSTANCE FoldTheorems WITH Op <- WithoutNext

\* ... and region a becomes a neighbour of that one instead.
TransferredNext(s, a, pair) == Replaced(s, a, pair.into, pair.from)
Transferring == INSTANCE FoldTheorems WITH Op <- TransferredNext

\* The first n neighbours in the list lose r1 one after the other.
LoseInTurn(r, rs, list, n, r1, last) ==
  /\ r[0] = rs /\ r[n] = last
  /\ \A k \in 0 .. n - 1 : r[k + 1] = SaturatedNext(r[k], list[k + 1], r1)

LEMMA SaturatingSteps ==
  ASSUME NEW rs, NEW list, NEW r1, NEW n \in Nat, DOMAIN list = 1 .. n,
         NEW last, last = Saturating!Fold(rs, list, r1)
  PROVE  \E r : LoseInTurn(r, rs, list, n, r1, last)
<1>1. \E r : /\ r[0] = rs /\ r[n] = last
             /\ \A k \in 0 .. n - 1 : r[k + 1] = SaturatedNext(r[k], list[k + 1], r1)
  BY Saturating!FoldSteps
<1>2. QED
  BY <1>1 DEF LoseInTurn

LEMMA SaturatedFolds ==
  ASSUME NEW rs, NEW r1
  PROVE  Saturated(rs, r1) =
           [ Saturating!Fold(rs, rs[r1].adjacent, r1)
             EXCEPT ![r1].adjacent = <<>>, ![r1].flags = @ \cup {"saturated"} ]
BY DEF Saturated, SaturatedNext, Saturating!Fold, FoldLeft, MapThenFoldSet, Max, Saturating!Top

LEMMA WithoutCommonFolds ==
  ASSUME NEW rs, NEW r1, NEW r2
  PROVE  WithoutCommon(rs, r1, r2) =
           Removing!Fold(rs, [ i \in DOMAIN rs[r2].adjacent |-> i ], [ into |-> r1, from |-> r2 ])
BY DEF WithoutCommon, WithoutNext, Removing!Fold, FoldLeft, MapThenFoldSet, Max, Removing!Top

LEMMA TransferredFolds ==
  ASSUME NEW rs, NEW r1, NEW r2
  PROVE  Transferred(rs, r1, r2) =
           [ Transferring!Fold(rs, rs[r2].adjacent, [ into |-> r1, from |-> r2 ]) EXCEPT ![r2].adjacent = <<>> ]
BY DEF Transferred, TransferredNext, Transferring!Fold, FoldLeft, MapThenFoldSet, Max, Transferring!Top

-----------------------------------------------------------------------------
(* One entry of a list.                                                    *)

\* FirstOf() finds what is in the list.
LEMMA FirstOfFinds ==
  ASSUME NEW list \in Seq(Nat), NEW a, Count(list, a) > 0
  PROVE  FirstOf(list, a) \in 1 .. Len(list) /\ list[FirstOf(list, a)] = a
<1>1. DOMAIN list = 1 .. Len(list) /\ Len(list) \in Nat
  BY LenProperties
<1> DEFINE S == PlacesOf(list, a)
<1>2. S \subseteq Nat /\ S # {}
  <2>1. \E i \in 1 .. Len(list) : list[i] = a
    BY CountPlaces
  <2>2. QED
    BY <1>1, <2>1 DEF PlacesOf
<1>3. PICK i \in S : \A j \in S : i <= j
  <2> HIDE DEF S
  <2>1. QED
    BY <1>2, Removing!LeastNumber
<1>4. i \in DOMAIN list /\ list[i] = a /\ \A j \in 1 .. i - 1 : list[j] # a
  <2>1. i \in 1 .. Len(list) /\ list[i] = a
    BY <1>3 DEF PlacesOf
  <2>2. ASSUME NEW j \in 1 .. i - 1, list[j] = a PROVE FALSE
    <3>1. j \in S /\ j < i
      BY <1>1, <2>1, <2>2 DEF PlacesOf
    <3>2. QED
      BY <1>3, <2>1, <3>1
  <2>3. QED
    BY <1>1, <2>1, <2>2
<1>5. QED
  BY <1>1, <1>4 DEF FirstOf

\* The places of a region from the k-th on.
RestOf(list, k, a) == { i \in k + 1 .. Len(list) : list[i] = a }
Left(list, k, a) == Cardinality(RestOf(list, k, a))

LEMMA LeftCounts ==
  ASSUME NEW list \in Seq(Nat), NEW a
  PROVE  /\ Left(list, 0, a) = Count(list, a)
         /\ Left(list, Len(list), a) = 0
         /\ \A k \in 0 .. Len(list) : Left(list, k, a) \in Nat
         /\ \A k \in 0 .. Len(list) - 1 :
              Left(list, k, a) = IF list[k + 1] = a THEN Left(list, k + 1, a) + 1
                                 ELSE Left(list, k + 1, a)
<1> DEFINE n == Len(list)
<1>0. n \in Nat
  BY LenProperties
<1>1. RestOf(list, 0, a) = PlacesOf(list, a)
  BY DEF RestOf, PlacesOf
<1>2. RestOf(list, n, a) = {} /\ Cardinality({}) = 0
  BY <1>0, FS_EmptySet DEF RestOf
<1>3. ASSUME NEW k \in 0 .. n PROVE IsFiniteSet(RestOf(list, k, a)) /\ Left(list, k, a) \in Nat
  <2>1. RestOf(list, k, a) \in SUBSET (1 .. n)
    BY <1>0 DEF RestOf
  <2>2. IsFiniteSet(1 .. n)
    BY <1>0, FS_Interval
  <2>3. IsFiniteSet(RestOf(list, k, a))
    BY <2>1, <2>2, FS_Subset
  <2>4. QED
    BY <2>3, FS_CardinalityType DEF Left
<1>4. ASSUME NEW k \in 0 .. n - 1
      PROVE  Left(list, k, a) = IF list[k + 1] = a THEN Left(list, k + 1, a) + 1
                                ELSE Left(list, k + 1, a)
  <2> DEFINE S == RestOf(list, k + 1, a)
  <2>1. k \in 0 .. n /\ k + 1 \in 0 .. n /\ k \in Int
    BY <1>0
  <2>2. IsFiniteSet(S) /\ k + 1 \notin S
    BY <1>0, <1>3, <2>1 DEF RestOf
  <2>3. RestOf(list, k, a) = IF list[k + 1] = a THEN S \cup {k + 1} ELSE S
    BY <1>0, <2>1 DEF RestOf
  <2> HIDE DEF S
  <2>4. Cardinality(S \cup {k + 1}) = Cardinality(S) + 1
    BY <2>2, FS_AddElement
  <2>5. Left(list, k + 1, a) = Cardinality(S)
    BY DEF Left, S
  <2>6. QED
    BY <2>3, <2>4, <2>5 DEF Left
<1>5. QED
  BY <1>1, <1>2, <1>3, <1>4, CountPlaces DEF Left

-----------------------------------------------------------------------------
(* Regions and their lists.                                                *)

RegionRecord ==
  [ colour : {Black, White}, adjacent : Seq(Nat),
    flags : SUBSET {"root", "saturated", "fragmented"},
    left : Int, right : Int, top : Int, bottom : Int ]

\* How often region r lists q.
Times(rs, r, q) == Count(rs[r].adjacent, q)

\* The lists of the regions in V name each other.
Lists(rs, V) ==
  /\ \A r \in V : Len(rs[r].adjacent) <= MaxAdjacent /\ ToSet(rs[r].adjacent) \subseteq V \ {r}
  /\ \A r, q \in V : Times(rs, r, q) = Times(rs, q, r)

LEMMA ListOf ==
  ASSUME NEW D, NEW rs \in [ D -> RegionRecord ], NEW r \in D
  PROVE  /\ rs[r].adjacent \in Seq(Nat) /\ Len(rs[r].adjacent) \in Nat
         /\ DOMAIN rs[r].adjacent = 1 .. Len(rs[r].adjacent)
         /\ \A q : Times(rs, r, q) \in Nat
<1>1. rs[r].adjacent \in Seq(Nat)
  BY DEF RegionRecord
<1>2. QED
  BY <1>1, LenProperties, CountPlaces DEF Times

LEMMA ListsMean ==
  ASSUME NEW D, D \subseteq Nat, NEW V, V \subseteq D, NEW rs \in [ D -> RegionRecord ],
         Lists(rs, V), NEW r \in V
  PROVE  /\ \A i \in 1 .. Len(rs[r].adjacent) : rs[r].adjacent[i] \in V \ {r}
         /\ \A q : Times(rs, r, q) > 0 => q \in V \ {r}
         /\ Times(rs, r, r) = 0
<1>1. rs[r].adjacent \in Seq(Nat) /\ DOMAIN rs[r].adjacent = 1 .. Len(rs[r].adjacent)
  BY ListOf
<1>2. ToSet(rs[r].adjacent) \subseteq V \ {r}
  BY DEF Lists
<1>3. \A q : Times(rs, r, q) > 0 => q \in ToSet(rs[r].adjacent)
  BY <1>1, ContainsCounts DEF Times
<1>4. Times(rs, r, r) = 0
  <2>1. Times(rs, r, r) \in Nat
    BY ListOf
  <2>2. ~ (Times(rs, r, r) > 0)
    BY <1>2, <1>3
  <2>3. QED
    BY <2>1, <2>2
<1>5. QED
  BY <1>1, <1>2, <1>3, <1>4 DEF ToSet

LEMMA ListsFrom ==
  ASSUME NEW D, D \subseteq Nat, NEW V, V \subseteq D, NEW rs \in [ D -> RegionRecord ],
         \A r \in V : Len(rs[r].adjacent) <= MaxAdjacent,
         \A r \in V : \A q : Times(rs, r, q) > 0 => q \in V \ {r},
         \A r, q \in V : Times(rs, r, q) = Times(rs, q, r)
  PROVE  Lists(rs, V)
<1>1. ASSUME NEW r \in V PROVE ToSet(rs[r].adjacent) \subseteq V \ {r}
  <2>1. rs[r].adjacent \in Seq(Nat)
    BY ListOf
  <2>2. \A q : q \in ToSet(rs[r].adjacent) => Times(rs, r, q) > 0
    BY <2>1, ContainsCounts DEF Times
  <2>3. QED
    BY <2>2
<1>2. QED
  BY <1>1 DEF Lists

\* s is rs with another list for region r, ...
HasList(s, rs, r, list, D) ==
  /\ s \in [ D -> RegionRecord ]
  /\ s[r].adjacent = list /\ s[r].flags = rs[r].flags
  /\ \A q \in D : q # r => s[q] = rs[q]

LEMMA ListReplaced ==
  ASSUME NEW D, NEW rs \in [ D -> RegionRecord ], NEW r \in D, NEW list \in Seq(Nat)
  PROVE  HasList([ rs EXCEPT ![r].adjacent = list ], rs, r, list, D)
BY DEF RegionRecord, HasList

\* ... with another flag, ...
HasFlag(s, rs, r, mark, D) ==
  /\ s \in [ D -> RegionRecord ]
  /\ \A q \in D : s[q].adjacent = rs[q].adjacent
  /\ s[r].flags = rs[r].flags \cup {mark}
  /\ \A q \in D : q # r => s[q].flags = rs[q].flags

LEMMA FlagSet ==
  ASSUME NEW D, NEW rs \in [ D -> RegionRecord ], NEW r \in D,
         NEW mark \in {"root", "saturated", "fragmented"}
  PROVE  HasFlag(Flagged(rs, r, mark), rs, r, mark, D)
BY DEF Flagged, RegionRecord, HasFlag

\* ... or with r2 once less in the list of r1, if it was there.
HasOneLess(s, rs, r1, r2, D) ==
  /\ s \in [ D -> RegionRecord ]
  /\ s[r1].flags = rs[r1].flags
  /\ Len(s[r1].adjacent) <= Len(rs[r1].adjacent)
  /\ \A q : Times(s, r1, q) = IF q = r2 /\ Times(rs, r1, q) > 0
                             THEN Times(rs, r1, q) - 1 ELSE Times(rs, r1, q)
  /\ \A q \in D : q # r1 => s[q] = rs[q]

LEMMA RemovedTakesOne ==
  ASSUME NEW D, D \subseteq Nat, NEW rs \in [ D -> RegionRecord ], NEW r1 \in D, NEW r2 \in Nat
  PROVE  HasOneLess(RemovedFrom(rs, r1, r2), rs, r1, r2, D)
<1> DEFINE list == rs[r1].adjacent
           i == FirstOf(list, r2)
           less == SwappedOut(list, i)
           s == RemovedFrom(rs, r1, r2)
<1>1. list \in Seq(Nat) /\ Len(list) \in Nat /\ (Contains(list, r2) <=> Count(list, r2) > 0)
  BY ListOf, ContainsCounts
<1>2. CASE ~ Contains(list, r2)
  <2>1. s = rs
    BY <1>2 DEF RemovedFrom
  <2>2. ~ (Times(rs, r1, r2) > 0)
    BY <1>1, <1>2 DEF Times
  <2>3. QED
    BY <1>1, <2>1, <2>2 DEF HasOneLess
<1>3. CASE Contains(list, r2)
  <2>1. s = [ rs EXCEPT ![r1].adjacent = less ]
    BY <1>3 DEF RemovedFrom
  <2>2. i \in 1 .. Len(list) /\ list[i] = r2
    BY <1>1, <1>3, FirstOfFinds
  <2>3. /\ less \in Seq(Nat) /\ Len(less) = Len(list) - 1
        /\ \A a : Count(less, a) = IF a = r2 THEN Count(list, a) - 1 ELSE Count(list, a)
    <3> HIDE DEF list, i
    <3>1. QED
      BY <1>1, <2>2, SwapCounts
  <2> HIDE DEF less, list, s
  <2>4. /\ s \in [ D -> RegionRecord ] /\ s[r1].adjacent = less /\ s[r1].flags = rs[r1].flags
        /\ \A q \in D : q # r1 => s[q] = rs[q]
    BY <2>1, <2>3, ListReplaced DEF HasList
  <2>5. Len(s[r1].adjacent) <= Len(rs[r1].adjacent)
    BY <1>1, <2>3, <2>4 DEF list
  <2>6. ASSUME NEW q
        PROVE  Times(s, r1, q) = IF q = r2 /\ Times(rs, r1, q) > 0
                                 THEN Times(rs, r1, q) - 1 ELSE Times(rs, r1, q)
    <3>1. Times(s, r1, q) = Count(less, q)
      BY <2>4, Zenon DEF Times
    <3>4. Times(rs, r1, q) = Count(list, q)
      BY DEF Times, list
    <3>2. q = r2 => Times(rs, r1, q) > 0
      BY <1>1, <1>3, <3>4
    <3>3. QED
      BY <2>3, <3>1, <3>2, <3>4
  <2>7. QED
    BY <2>4, <2>5, <2>6 DEF HasOneLess, s
<1>4. QED
  BY <1>2, <1>3

-----------------------------------------------------------------------------
(* make_saturated(): r1 is removed from the lists of its neighbours.       *)

\* After k of the neighbours in `list`, the list of r1 when it began.
SaturatedTo(s, k, rs, r1, list, D, V) ==
  /\ s \in [ D -> RegionRecord ]
  /\ s[r1].adjacent = list
  /\ \A a \in V : Len(s[a].adjacent) <= Len(rs[a].adjacent)
  /\ \A a \in V : \A q : q # r1 => Times(s, a, q) = Times(rs, a, q)
  /\ \A a \in V \ {r1} : Times(s, a, r1) = Left(list, k, a)
  /\ \A a \in V : rs[a].flags \subseteq s[a].flags
  /\ \A i \in 1 .. k : "fragmented" \in s[list[i]].flags

LEMMA SaturatedStep ==
  ASSUME NEW D, D \subseteq Nat, NEW V, V \subseteq D, NEW rs \in [ D -> RegionRecord ],
         NEW r1 \in V, NEW list \in Seq(Nat), NEW k \in 0 .. Len(list) - 1,
         \A i \in 1 .. Len(list) : list[i] \in V \ {r1},
         NEW s, SaturatedTo(s, k, rs, r1, list, D, V)
  PROVE  SaturatedTo(SaturatedNext(s, list[k + 1], r1), k + 1, rs, r1, list, D, V)
<1> DEFINE a == list[k + 1]
           t == RemovedFrom(s, a, r1)
           u == Flagged(t, a, "fragmented")
<1>1. Len(list) \in Nat /\ k \in Int /\ k + 1 \in 1 .. Len(list)
  BY LenProperties
<1>2. a \in V /\ a # r1 /\ a \in D /\ r1 \in D /\ r1 \in Nat
  BY <1>1
<1>3. s \in [ D -> RegionRecord ]
  BY DEF SaturatedTo
<1> HIDE DEF a
<1>16. HasOneLess(t, s, a, r1, D)
  BY <1>2, <1>3, RemovedTakesOne
<1> HIDE DEF t
<1>4. /\ t \in [ D -> RegionRecord ]
      /\ t[a].flags = s[a].flags
      /\ Len(t[a].adjacent) <= Len(s[a].adjacent)
      /\ \A q : Times(t, a, q) = IF q = r1 /\ Times(s, a, q) > 0
                                THEN Times(s, a, q) - 1 ELSE Times(s, a, q)
      /\ \A q \in D : q # a => t[q] = s[q]
  BY <1>16 DEF HasOneLess
<1>17. HasFlag(u, t, a, "fragmented", D)
  BY <1>2, <1>4, FlagSet
<1> HIDE DEF u
<1>5. /\ u \in [ D -> RegionRecord ]
      /\ \A q \in D : u[q].adjacent = t[q].adjacent
      /\ u[a].flags = t[a].flags \cup {"fragmented"}
      /\ \A q \in D : q # a => u[q].flags = t[q].flags
  BY <1>17 DEF HasFlag
<1>6. \A b \in D : \A q : Times(u, b, q) = Times(t, b, q)
  BY <1>5 DEF Times
<1>7. \A b \in D : b # a => \A q : Times(t, b, q) = Times(s, b, q)
  BY <1>4 DEF Times
<1>8. u[r1].adjacent = list
  BY <1>2, <1>4, <1>5 DEF SaturatedTo
<1>9. ASSUME NEW b \in V PROVE Len(u[b].adjacent) <= Len(rs[b].adjacent)
  <2>1. b \in D
    OBVIOUS
  <2>2. Len(t[b].adjacent) <= Len(s[b].adjacent)
    <3>1. CASE b = a
      BY <1>4, <3>1
    <3>2. CASE b # a
      <4>1. t[b] = s[b] /\ Len(s[b].adjacent) \in Nat
        BY <1>3, <1>4, <2>1, <3>2, ListOf
      <4>2. QED
        BY <4>1
    <3>3. QED
      BY <3>1, <3>2
  <2>3. Len(s[b].adjacent) <= Len(rs[b].adjacent)
    BY DEF SaturatedTo
  <2>4. Len(t[b].adjacent) \in Nat /\ Len(s[b].adjacent) \in Nat /\ Len(rs[b].adjacent) \in Nat
    BY <1>3, <1>4, <2>1, ListOf
  <2>5. u[b].adjacent = t[b].adjacent
    BY <1>5, <2>1
  <2>6. Len(u[b].adjacent) = Len(t[b].adjacent)
    BY <2>5
  <2> DEFINE start == Len(rs[b].adjacent)
             now == Len(s[b].adjacent)
             then == Len(t[b].adjacent)
  <2>7. then \in Nat /\ now \in Nat /\ start \in Nat /\ then <= now /\ now <= start
    BY <2>2, <2>3, <2>4
  <2> HIDE DEF start, now, then
  <2>8. then <= start
    BY <2>7
  <2>9. QED
    BY <2>6, <2>8 DEF then, start
<1>10. ASSUME NEW b \in V, NEW q, q # r1 PROVE Times(u, b, q) = Times(rs, b, q)
  <2>1. Times(s, b, q) = Times(rs, b, q)
    BY <1>10 DEF SaturatedTo
  <2>2. Times(t, b, q) = Times(s, b, q)
    BY <1>4, <1>7, <1>10
  <2>3. QED
    BY <1>6, <2>1, <2>2
<1>11. ASSUME NEW b \in V \ {r1} PROVE Times(u, b, r1) = Left(list, k + 1, b)
  <2>1. Times(s, b, r1) = Left(list, k, b)
    BY DEF SaturatedTo
  <2>2. /\ Left(list, k, b) = IF a = b THEN Left(list, k + 1, b) + 1 ELSE Left(list, k + 1, b)
        /\ Left(list, k + 1, b) \in Nat
    <3>1. /\ Left(list, k, b) = IF list[k + 1] = b THEN Left(list, k + 1, b) + 1
                                ELSE Left(list, k + 1, b)
          /\ \A m \in 0 .. Len(list) : Left(list, m, b) \in Nat
      BY LeftCounts
    <3>2. k + 1 \in 0 .. Len(list)
      BY <1>1
    <3>3. QED
      BY <3>1, <3>2 DEF a
  <2>3. CASE b = a
    <3>1. Times(s, a, r1) = Left(list, k + 1, b) + 1
      BY <2>1, <2>2, <2>3
    <3>2. Times(t, a, r1) = Left(list, k + 1, b)
      <4>1. Times(t, a, r1) = IF Times(s, a, r1) > 0 THEN Times(s, a, r1) - 1 ELSE Times(s, a, r1)
        BY <1>4
      <4>2. QED
        BY <2>2, <3>1, <4>1
    <3>3. QED
      BY <1>2, <1>6, <2>3, <3>2
  <2>4. CASE b # a
    BY <1>6, <1>7, <2>1, <2>2, <2>4
  <2>5. QED
    BY <2>3, <2>4
<1>12. ASSUME NEW b \in V PROVE rs[b].flags \subseteq u[b].flags /\ s[b].flags \subseteq u[b].flags
  <2>1. rs[b].flags \subseteq s[b].flags
    BY DEF SaturatedTo
  <2>2. s[b].flags \subseteq u[b].flags
    BY <1>4, <1>5
  <2>3. QED
    BY <2>1, <2>2
<1>13. ASSUME NEW i \in 1 .. k + 1 PROVE "fragmented" \in u[list[i]].flags
  <2>1. CASE i = k + 1
    BY <1>5, <2>1 DEF a
  <2>2. CASE i # k + 1
    <3>1. i \in 1 .. k /\ i \in 1 .. Len(list)
      BY <1>1, <2>2
    <3>2. "fragmented" \in s[list[i]].flags /\ list[i] \in V
      BY <3>1 DEF SaturatedTo
    <3>3. QED
      BY <1>12, <3>2
  <2>3. QED
    BY <2>1, <2>2
<1>14. SaturatedTo(u, k + 1, rs, r1, list, D, V)
  BY <1>5, <1>8, <1>9, <1>10, <1>11, <1>12, <1>13 DEF SaturatedTo
<1>15. QED
  BY <1>14 DEF SaturatedNext, u, t, a

\* s is rs without any neighbour of r1, and with the flags that say so.
IsGivenUp(s, rs, r1, D, V) ==
  /\ s \in [ D -> RegionRecord ]
  /\ Lists(s, V)
  /\ \A a, b \in V : Times(s, a, b) = IF a = r1 \/ b = r1 THEN 0 ELSE Times(rs, a, b)
  /\ \A a \in V : Len(s[a].adjacent) <= Len(rs[a].adjacent)
  /\ \A a \in V : rs[a].flags \subseteq s[a].flags
  /\ \A a \in V : Times(rs, a, r1) > 0 => "fragmented" \in s[a].flags
  /\ "saturated" \in s[r1].flags

LEMMA SaturatedGivesUp ==
  ASSUME NEW D, D \subseteq Nat, NEW V, V \subseteq D, NEW rs \in [ D -> RegionRecord ],
         Lists(rs, V), NEW r1 \in V
  PROVE  IsGivenUp(Saturated(rs, r1), rs, r1, D, V)
<1> DEFINE list == rs[r1].adjacent
           n == Len(list)
           last == Saturating!Fold(rs, list, r1)
           none == [ last EXCEPT ![r1].adjacent = <<>> ]
           s == Flagged(none, r1, "saturated")
<1>1. /\ list \in Seq(Nat) /\ n \in Nat /\ DOMAIN list = 1 .. n
      /\ \A i \in 1 .. n : list[i] \in V \ {r1}
      /\ r1 \in D
  <2>1. r1 \in D
    OBVIOUS
  <2>2. list \in Seq(Nat) /\ n \in Nat /\ DOMAIN list = 1 .. n
    BY <2>1, ListOf
  <2>3. \A i \in 1 .. n : list[i] \in V \ {r1}
    BY ListsMean
  <2>4. QED
    BY <2>1, <2>2, <2>3
<1>2. SaturatedTo(rs, 0, rs, r1, list, D, V)
  <2>1. ASSUME NEW a \in V \ {r1} PROVE Times(rs, a, r1) = Left(list, 0, a)
    <3>1. Left(list, 0, a) = Times(rs, r1, a)
      BY <1>1, LeftCounts DEF Times
    <3>2. QED
      BY <3>1 DEF Lists
  <2>2. \A a \in V : Len(rs[a].adjacent) \in Nat
    BY ListOf
  <2>3. QED
    BY <2>1, <2>2 DEF SaturatedTo
<1>22. last = Saturating!Fold(rs, list, r1)
  OBVIOUS
<1> HIDE DEF last
<1>3. SaturatedTo(last, n, rs, r1, list, D, V)
  <2>7. n \in Nat /\ DOMAIN list = 1 .. n /\ last = Saturating!Fold(rs, list, r1)
    BY <1>1, <1>22
  <2>8. list \in Seq(Nat) /\ n = Len(list) /\ \A i \in 1 .. Len(list) : list[i] \in V \ {r1}
    BY <1>1
  <2> HIDE DEF list, n, none, s
  <2>9. PICK r : LoseInTurn(r, rs, list, n, r1, last)
    BY <2>7, SaturatingSteps
  <2>1. /\ r[0] = rs /\ r[n] = last
        /\ \A k \in 0 .. n - 1 : r[k + 1] = SaturatedNext(r[k], list[k + 1], r1)
    BY <2>9 DEF LoseInTurn
  <2> DEFINE K == { k \in 0 .. n : SaturatedTo(r[k], k, rs, r1, list, D, V) }
  <2>2. 0 \in K
    BY <1>1, <1>2, <2>1
  <2>3. ASSUME NEW k \in 0 .. n - 1, k \in K PROVE k + 1 \in K
    <3>1. SaturatedTo(SaturatedNext(r[k], list[k + 1], r1), k + 1, rs, r1, list, D, V)
      <4>1. k \in 0 .. Len(list) - 1 /\ SaturatedTo(r[k], k, rs, r1, list, D, V)
        BY <2>3, <2>8
      <4>2. QED
        BY <2>8, <4>1, SaturatedStep
    <3>2. k + 1 \in 0 .. n
      BY <2>7
    <3>3. QED
      BY <2>1, <3>1, <3>2
  <2> HIDE DEF K
  <2>4. \A k \in 0 .. n : k \in K
    BY <1>1, <2>2, <2>3, Saturating!UpTo
  <2>5. n \in K
    BY <1>1, <2>4
  <2>6. QED
    BY <2>1, <2>5 DEF K
<1>4. last \in [ D -> RegionRecord ]
  BY <1>3 DEF SaturatedTo
<1>5. <<>> \in Seq(Nat) /\ Len(<<>>) = 0 /\ \A a : Count(<<>>, a) = 0
  BY EmptyCounts
<1>20. HasList(none, last, r1, <<>>, D)
  BY <1>1, <1>4, <1>5, ListReplaced
<1> HIDE DEF none
<1>6. /\ none \in [ D -> RegionRecord ]
      /\ none[r1].adjacent = <<>> /\ none[r1].flags = last[r1].flags
      /\ \A q \in D : q # r1 => none[q] = last[q]
  BY <1>20 DEF HasList
<1>21. HasFlag(s, none, r1, "saturated", D)
  BY <1>1, <1>6, FlagSet
<1>7. /\ s \in [ D -> RegionRecord ]
      /\ \A q \in D : s[q].adjacent = none[q].adjacent
      /\ s[r1].flags = none[r1].flags \cup {"saturated"}
      /\ \A q \in D : q # r1 => s[q].flags = none[q].flags
  BY <1>21 DEF HasFlag
<1>8. Saturated(rs, r1) = s
  BY <1>1, <1>4, SaturatedFolds DEF Flagged, last, none
<1> HIDE DEF s
<1>9. \A q : Times(s, r1, q) = 0
  BY <1>1, <1>5, <1>6, <1>7 DEF Times
<1>10. ASSUME NEW a \in V, a # r1
       PROVE  \A q : Times(s, a, q) = IF q = r1 THEN 0 ELSE Times(rs, a, q)
  <2>1. \A q : Times(s, a, q) = Times(last, a, q)
    BY <1>6, <1>7, <1>10 DEF Times
  <2>2. Times(last, a, r1) = 0
    BY <1>1, <1>3, <1>10, LeftCounts DEF SaturatedTo
  <2>3. QED
    BY <1>3, <2>1, <2>2 DEF SaturatedTo
<1>11. ASSUME NEW a \in V PROVE Len(s[a].adjacent) <= Len(rs[a].adjacent)
  <2>1. CASE a = r1
    BY <1>1, <1>5, <1>6, <1>7, <2>1
  <2>2. CASE a # r1
    BY <1>3, <1>6, <1>7, <2>2 DEF SaturatedTo
  <2>3. QED
    BY <2>1, <2>2
<1>12. ASSUME NEW a \in V PROVE last[a].flags \subseteq s[a].flags
  BY <1>1, <1>6, <1>7
<1>13. ASSUME NEW a \in V, Times(rs, a, r1) > 0 PROVE "fragmented" \in s[a].flags
  <2>1. Count(list, a) > 0
    BY <1>13 DEF Lists, Times
  <2>2. PICK i \in 1 .. n : list[i] = a
    BY <1>1, <2>1, CountPlaces
  <2>3. "fragmented" \in last[a].flags
    BY <1>3, <2>2 DEF SaturatedTo
  <2>4. QED
    BY <1>12, <2>3
<1>14. ASSUME NEW a \in V, NEW b \in V
       PROVE  Times(s, a, b) = IF a = r1 \/ b = r1 THEN 0 ELSE Times(rs, a, b)
  BY <1>9, <1>10
<1>15. Lists(s, V)
  <2>1. \A a \in V : Len(s[a].adjacent) <= MaxAdjacent
    <3> TAKE a \in V
    <3>1. /\ Len(s[a].adjacent) \in Nat /\ Len(rs[a].adjacent) \in Nat
          /\ Len(rs[a].adjacent) <= MaxAdjacent
      BY <1>7, ListOf DEF Lists
    <3>2. QED
      BY <1>11, <3>1, RoomAssumption
  <2>2. \A a \in V : \A q : Times(s, a, q) > 0 => q \in V \ {a}
    <3>1. \A a \in V : \A q : Times(rs, a, q) > 0 => q \in V \ {a}
      BY ListsMean
    <3>2. QED
      BY <1>9, <1>10, <3>1
  <2>3. \A a, b \in V : Times(rs, a, b) = Times(rs, b, a)
    BY DEF Lists
  <2>4. \A a, b \in V : Times(s, a, b) = Times(s, b, a)
    BY <1>14, <2>3
  <2>5. QED
    BY <1>7, <2>1, <2>2, <2>4, ListsFrom
<1>16. "saturated" \in s[r1].flags
  BY <1>7
<1>17. ASSUME NEW a \in V PROVE rs[a].flags \subseteq s[a].flags
  BY <1>3, <1>12 DEF SaturatedTo
<1>18. QED
  BY <1>7, <1>8, <1>11, <1>13, <1>14, <1>15, <1>16, <1>17 DEF IsGivenUp

-----------------------------------------------------------------------------
(* What the lists say of the image: N holds the pairs of regions that      *)
(* touch.                                                                  *)

Unflagged(rs, r) == rs[r].flags \cap {"saturated", "fragmented"} = {}

\* The lists hold regions that touch, and those without flags all of them.
Covers(rs, V, N) ==
  \A r, q \in V :
    /\ Times(rs, r, q) > 0 => <<r, q>> \in N
    /\ <<r, q>> \in N /\ Unflagged(rs, r) => Times(rs, r, q) > 0

Sound(rs, D, V, N) ==
  rs \in [ D -> RegionRecord ] /\ Lists(rs, V) /\ Covers(rs, V, N)

LEMMA IsAdjacentMeans ==
  ASSUME NEW D, D \subseteq Nat, NEW V, V \subseteq D, NEW rs \in [ D -> RegionRecord ],
         Lists(rs, V), NEW r1 \in V, NEW r2 \in V
  PROVE  IsAdjacent(rs, r1, r2) <=> Times(rs, r1, r2) > 0
<1>1. rs[r1].adjacent \in Seq(Nat) /\ rs[r2].adjacent \in Seq(Nat)
  BY ListOf
<1>2. /\ Contains(rs[r1].adjacent, r2) <=> Times(rs, r1, r2) > 0
      /\ Contains(rs[r2].adjacent, r1) <=> Times(rs, r2, r1) > 0
  BY <1>1, ContainsCounts DEF Times
<1>3. Times(rs, r1, r2) = Times(rs, r2, r1)
  BY DEF Lists
<1>4. QED
  BY <1>2, <1>3 DEF IsAdjacent

\* A list that is given up leaves the others sound.
LEMMA SaturatedIsSound ==
  ASSUME NEW D, D \subseteq Nat, NEW V, V \subseteq D, NEW N, NEW rs, Sound(rs, D, V, N),
         NEW r1 \in V
  PROVE  Sound(Saturated(rs, r1), D, V, N)
<1> DEFINE s == Saturated(rs, r1)
<1>1. rs \in [ D -> RegionRecord ] /\ Lists(rs, V) /\ Covers(rs, V, N)
  BY DEF Sound
<1>2. IsGivenUp(s, rs, r1, D, V)
  BY <1>1, SaturatedGivesUp
<1> HIDE DEF s
<1>3. ASSUME NEW a \in V, NEW b \in V, Times(s, a, b) > 0 PROVE <<a, b>> \in N
  <2>1. Times(rs, a, b) > 0
    BY <1>2, <1>3 DEF IsGivenUp
  <2>2. QED
    BY <1>1, <2>1 DEF Covers
<1>4. ASSUME NEW a \in V, NEW b \in V, <<a, b>> \in N, Unflagged(s, a)
      PROVE  Times(s, a, b) > 0
  <2>1. a # r1 /\ ~ (Times(rs, a, r1) > 0) /\ Unflagged(rs, a)
    BY <1>2, <1>4 DEF IsGivenUp, Unflagged
  <2>2. Times(rs, a, b) > 0
    BY <1>1, <1>4, <2>1 DEF Covers
  <2>3. b # r1
    BY <2>1, <2>2
  <2>4. QED
    BY <1>2, <2>1, <2>2, <2>3 DEF IsGivenUp
<1>5. Covers(s, V, N)
  BY <1>3, <1>4 DEF Covers
<1>6. QED
  BY <1>2, <1>5 DEF IsGivenUp, Sound, s

\* Flags never do harm.
LEMMA FlaggedIsSound ==
  ASSUME NEW D, D \subseteq Nat, NEW V, V \subseteq D, NEW N, NEW rs, Sound(rs, D, V, N),
         NEW r \in D, NEW mark \in {"root", "saturated", "fragmented"}
  PROVE  Sound(Flagged(rs, r, mark), D, V, N)
<1> DEFINE s == Flagged(rs, r, mark)
<1>1. rs \in [ D -> RegionRecord ] /\ Lists(rs, V) /\ Covers(rs, V, N)
  BY DEF Sound
<1>2. HasFlag(s, rs, r, mark, D)
  BY <1>1, FlagSet
<1> HIDE DEF s
<1>3. \A a \in V : s[a].adjacent = rs[a].adjacent
  BY <1>2 DEF HasFlag
<1>4. \A a, b \in V : Times(s, a, b) = Times(rs, a, b)
  BY <1>3 DEF Times
<1>5. \A a \in V : rs[a].flags \subseteq s[a].flags
  BY <1>2 DEF HasFlag
<1>6. Lists(s, V)
  BY <1>1, <1>3, <1>4 DEF Lists
<1>7. \A a \in V : Unflagged(s, a) => Unflagged(rs, a)
  BY <1>5 DEF Unflagged
<1>8. Covers(s, V, N)
  BY <1>1, <1>4, <1>7 DEF Covers
<1>9. QED
  BY <1>2, <1>6, <1>8 DEF HasFlag, Sound, s

\* The pairs of M are those of N and r1 and r2.
AlsoTouch(M, N, r1, r2, V) ==
  \A a, b \in V :
    <<a, b>> \in M <=> <<a, b>> \in N \/ (a = r1 /\ b = r2) \/ (a = r2 /\ b = r1)

\* Two regions that both have a flag may touch unlisted.
LEMMA FlaggedTouch ==
  ASSUME NEW D, NEW V, NEW N, NEW rs, Sound(rs, D, V, N),
         NEW r1 \in V, NEW r2 \in V, ~ Unflagged(rs, r1), ~ Unflagged(rs, r2),
         NEW M, AlsoTouch(M, N, r1, r2, V)
  PROVE  Sound(rs, D, V, M)
BY DEF Sound, Covers, AlsoTouch

\* A full list is given up, and both regions have a flag.
LEMMA FilledUpIsSound ==
  ASSUME NEW D, D \subseteq Nat, NEW V, V \subseteq D, NEW N, NEW rs, Sound(rs, D, V, N),
         NEW r \in V, NEW other \in V, r # other
  PROVE  LET s == Flagged(Saturated(rs, r), other, "fragmented")
         IN  Sound(s, D, V, N) /\ ~ Unflagged(s, r) /\ ~ Unflagged(s, other)
<1> DEFINE t == Saturated(rs, r)
           s == Flagged(t, other, "fragmented")
<1>1. Sound(t, D, V, N) /\ IsGivenUp(t, rs, r, D, V)
  BY SaturatedIsSound, SaturatedGivesUp DEF Sound
<1> HIDE DEF t
<1>2. Sound(s, D, V, N)
  BY <1>1, FlaggedIsSound
<1>3. HasFlag(s, t, other, "fragmented", D)
  BY <1>1, FlagSet DEF Sound
<1> HIDE DEF s
<1>4. "fragmented" \in s[other].flags /\ "saturated" \in s[r].flags
  BY <1>1, <1>3 DEF HasFlag, IsGivenUp
<1>5. ~ Unflagged(s, r) /\ ~ Unflagged(s, other)
  BY <1>4 DEF Unflagged
<1>6. QED
  BY <1>2, <1>5 DEF s, t

\* Two regions with room are entered into each other's list.
LEMMA ListedIsSound ==
  ASSUME NEW D, D \subseteq Nat, NEW V, V \subseteq D, NEW N, NEW rs, Sound(rs, D, V, N),
         NEW r1 \in V, NEW r2 \in V, r1 # r2,
         Len(rs[r1].adjacent) < MaxAdjacent, Len(rs[r2].adjacent) < MaxAdjacent,
         NEW M, AlsoTouch(M, N, r1, r2, V)
  PROVE  Sound([ rs EXCEPT ![r1].adjacent = Append(@, r2), ![r2].adjacent = Append(@, r1) ],
               D, V, M)
<1> DEFINE list1 == Append(rs[r1].adjacent, r2)
           list2 == Append(rs[r2].adjacent, r1)
           t == [ rs EXCEPT ![r1].adjacent = list1 ]
           s == [ t EXCEPT ![r2].adjacent = list2 ]
<1>1. rs \in [ D -> RegionRecord ] /\ Lists(rs, V) /\ Covers(rs, V, N)
  BY DEF Sound
<1>2. r1 \in D /\ r2 \in D /\ r1 \in Nat /\ r2 \in Nat
  OBVIOUS
<1>3. [ rs EXCEPT ![r1].adjacent = Append(@, r2), ![r2].adjacent = Append(@, r1) ] = s
  BY <1>1, <1>2
<1>4. /\ rs[r1].adjacent \in Seq(Nat) /\ Len(rs[r1].adjacent) \in Nat
      /\ rs[r2].adjacent \in Seq(Nat) /\ Len(rs[r2].adjacent) \in Nat
  BY <1>1, <1>2, ListOf
<1>5. /\ list1 \in Seq(Nat) /\ Len(list1) = Len(rs[r1].adjacent) + 1
      /\ \A q : Count(list1, q) = IF q = r2 THEN Times(rs, r1, q) + 1 ELSE Times(rs, r1, q)
  BY <1>2, <1>4, AppendCounts DEF Times
<1>6. /\ list2 \in Seq(Nat) /\ Len(list2) = Len(rs[r2].adjacent) + 1
      /\ \A q : Count(list2, q) = IF q = r1 THEN Times(rs, r2, q) + 1 ELSE Times(rs, r2, q)
  BY <1>2, <1>4, AppendCounts DEF Times
<1> HIDE DEF list1, list2
<1>7. HasList(t, rs, r1, list1, D)
  BY <1>1, <1>2, <1>5, ListReplaced
<1>8. HasList(s, t, r2, list2, D)
  <2> HIDE DEF t
  <2>1. t \in [ D -> RegionRecord ]
    BY <1>7 DEF HasList
  <2>2. QED
    BY <1>2, <1>6, <2>1, ListReplaced
<1> HIDE DEF s, t
<1>9. /\ s \in [ D -> RegionRecord ] /\ s[r1].adjacent = list1 /\ s[r2].adjacent = list2
      /\ \A q \in D : q # r1 /\ q # r2 => s[q].adjacent = rs[q].adjacent
      /\ \A q \in D : s[q].flags = rs[q].flags
  BY <1>2, <1>7, <1>8 DEF HasList
<1>10. \A a \in V : \A q : Times(rs, a, q) \in Nat
  BY <1>1, ListOf
<1>11. ASSUME NEW a \in V, NEW q
       PROVE  Times(s, a, q) = IF (a = r1 /\ q = r2) \/ (a = r2 /\ q = r1)
                               THEN Times(rs, a, q) + 1 ELSE Times(rs, a, q)
  <2>1. CASE a = r1
    BY <1>5, <1>9, <2>1 DEF Times
  <2>2. CASE a = r2
    BY <1>6, <1>9, <2>2 DEF Times
  <2>3. CASE a # r1 /\ a # r2
    BY <1>9, <2>3 DEF Times
  <2>4. QED
    BY <2>1, <2>2, <2>3
<1>12. Lists(s, V)
  <2>1. \A a \in V : Len(s[a].adjacent) <= MaxAdjacent
    <3>1. \A a \in V : Len(rs[a].adjacent) <= MaxAdjacent
      BY <1>1 DEF Lists
    <3>2. Len(list1) <= MaxAdjacent /\ Len(list2) <= MaxAdjacent
      BY <1>4, <1>5, <1>6, RoomAssumption
    <3>3. QED
      BY <1>9, <3>1, <3>2
  <2>2. ASSUME NEW a \in V, NEW q, Times(s, a, q) > 0 PROVE q \in V \ {a}
    <3>1. Times(rs, a, q) > 0 => q \in V \ {a}
      BY <1>1, ListsMean
    <3>2. QED
      BY <1>11, <2>2, <3>1
  <2>3. ASSUME NEW a \in V, NEW b \in V PROVE Times(s, a, b) = Times(s, b, a)
    <3>1. Times(rs, a, b) = Times(rs, b, a)
      BY <1>1 DEF Lists
    <3>2. QED
      BY <1>11, <3>1
  <2>4. QED
    BY <1>9, <2>1, <2>2, <2>3, ListsFrom
<1>13. Covers(s, V, M)
  <2>1. \A a \in V : Unflagged(s, a) <=> Unflagged(rs, a)
    BY <1>9 DEF Unflagged
  <2>2. ASSUME NEW a \in V, NEW b \in V
        PROVE  /\ Times(s, a, b) > 0 => <<a, b>> \in M
               /\ <<a, b>> \in M /\ Unflagged(s, a) => Times(s, a, b) > 0
    <3>1. CASE (a = r1 /\ b = r2) \/ (a = r2 /\ b = r1)
      <4>1. Times(s, a, b) > 0
        BY <1>10, <1>11, <3>1
      <4>2. QED
        BY <3>1, <4>1 DEF AlsoTouch
    <3>2. CASE ~ ((a = r1 /\ b = r2) \/ (a = r2 /\ b = r1))
      <4>1. Times(s, a, b) = Times(rs, a, b) /\ (<<a, b>> \in M <=> <<a, b>> \in N)
        BY <1>11, <3>2 DEF AlsoTouch
      <4>2. QED
        BY <1>1, <2>1, <4>1 DEF Covers
    <3>3. QED
      BY <3>1, <3>2
  <2>3. QED
    BY <2>2 DEF Covers
<1>14. Sound(s, D, V, M)
  BY <1>9, <1>12, <1>13 DEF Sound
<1>15. QED
  BY <1>3, <1>14

\* make_adjacent() leaves the lists sound when the two regions touch.
LEMMA MadeAdjacentIsSound ==
  ASSUME NEW D, D \subseteq Nat, NEW V, V \subseteq D, NEW N, NEW rs, Sound(rs, D, V, N),
         NEW r1 \in V, NEW r2 \in V, r1 # r2, NEW M, AlsoTouch(M, N, r1, r2, V)
  PROVE  Sound(MadeAdjacent(rs, r1, r2), D, V, M)
<1> DEFINE Full(r) == Len(rs[r].adjacent) = MaxAdjacent
           FillsUp(s, r, other) == Flagged(Saturated(s, r), other, "fragmented")
           made == MadeAdjacent(rs, r1, r2)
<1>1. rs \in [ D -> RegionRecord ] /\ Lists(rs, V) /\ Covers(rs, V, N)
  BY DEF Sound
<1>2. r1 \in D /\ r2 \in D
  OBVIOUS
<1>3. CASE IsAdjacent(rs, r1, r2)
  <2>1. Times(rs, r1, r2) > 0 /\ Times(rs, r2, r1) > 0
    <3>1. Times(rs, r1, r2) > 0
      BY <1>1, <1>3, IsAdjacentMeans
    <3>2. Times(rs, r1, r2) = Times(rs, r2, r1)
      BY <1>1 DEF Lists
    <3>3. QED
      BY <3>1, <3>2
  <2>2. Sound(rs, D, V, M)
    <3>1. ASSUME NEW a \in V, NEW b \in V
          PROVE  /\ Times(rs, a, b) > 0 => <<a, b>> \in M
                 /\ <<a, b>> \in M /\ Unflagged(rs, a) => Times(rs, a, b) > 0
      <4>1. /\ Times(rs, a, b) > 0 => <<a, b>> \in N
            /\ <<a, b>> \in N /\ Unflagged(rs, a) => Times(rs, a, b) > 0
        BY <1>1 DEF Covers
      <4>2. <<a, b>> \in M <=> <<a, b>> \in N \/ (a = r1 /\ b = r2) \/ (a = r2 /\ b = r1)
        BY DEF AlsoTouch
      <4>3. QED
        BY <2>1, <4>1, <4>2
    <3>2. QED
      BY <1>1, <3>1 DEF Sound, Covers
  <2>3. QED
    BY <1>3, <2>2 DEF MadeAdjacent
<1>4. ASSUME NEW r \in V, NEW other \in V, r # other, "saturated" \in rs[r].flags,
             AlsoTouch(M, N, r, other, V)
      PROVE  Sound(Flagged(rs, other, "fragmented"), D, V, M)
  <2> DEFINE s == Flagged(rs, other, "fragmented")
  <2>1. Sound(s, D, V, N) /\ HasFlag(s, rs, other, "fragmented", D)
    BY <1>1, FlaggedIsSound, FlagSet
  <2> HIDE DEF s
  <2>2. "saturated" \in s[r].flags /\ "fragmented" \in s[other].flags
    BY <1>4, <2>1 DEF HasFlag
  <2>3. ~ Unflagged(s, r) /\ ~ Unflagged(s, other)
    BY <2>2 DEF Unflagged
  <2>4. Sound(s, D, V, M)
    BY <1>4, <2>1, <2>3, FlaggedTouch
  <2>5. QED
    BY <2>4 DEF s
<1>5. AlsoTouch(M, N, r2, r1, V)
  BY DEF AlsoTouch
<1>6. Sound(FillsUp(rs, r1, r2), D, V, M) /\ Sound(FillsUp(rs, r2, r1), D, V, M)
  <2>5. r2 # r1
    OBVIOUS
  <2>1. /\ Sound(FillsUp(rs, r1, r2), D, V, N)
        /\ ~ Unflagged(FillsUp(rs, r1, r2), r1) /\ ~ Unflagged(FillsUp(rs, r1, r2), r2)
    BY FilledUpIsSound
  <2>6. /\ Sound(FillsUp(rs, r2, r1), D, V, N)
        /\ ~ Unflagged(FillsUp(rs, r2, r1), r1) /\ ~ Unflagged(FillsUp(rs, r2, r1), r2)
    BY <2>5, FilledUpIsSound
  <2> HIDE DEF FillsUp
  <2>2. Sound(FillsUp(rs, r1, r2), D, V, M)
    BY <2>1, FlaggedTouch
  <2>3. Sound(FillsUp(rs, r2, r1), D, V, M)
    BY <2>6, FlaggedTouch
  <2>4. QED
    BY <2>2, <2>3
<1>7. Sound(FillsUp(FillsUp(rs, r1, r2), r2, r1), D, V, M)
  <2> DEFINE s == FillsUp(rs, r1, r2)
  <2>1. Sound(s, D, V, M)
    BY <1>6
  <2> HIDE DEF s
  <2>2. Sound(FillsUp(s, r2, r1), D, V, M)
    BY <2>1, FilledUpIsSound
  <2>3. QED
    BY <2>2 DEF s
<1>8. ASSUME ~ Full(r1), ~ Full(r2)
      PROVE  Sound([ rs EXCEPT ![r1].adjacent = Append(@, r2), ![r2].adjacent = Append(@, r1) ],
                   D, V, M)
  <2>1. Len(rs[r1].adjacent) < MaxAdjacent /\ Len(rs[r2].adjacent) < MaxAdjacent
    <3>1. Len(rs[r1].adjacent) \in Nat /\ Len(rs[r2].adjacent) \in Nat
      BY <1>1, <1>2, ListOf
    <3>2. Len(rs[r1].adjacent) <= MaxAdjacent /\ Len(rs[r2].adjacent) <= MaxAdjacent
      BY <1>1 DEF Lists
    <3>3. QED
      BY <1>8, <3>1, <3>2, RoomAssumption
  <2>2. QED
    BY <2>1, ListedIsSound
<1>9. QED
  BY <1>3, <1>4, <1>5, <1>6, <1>7, <1>8 DEF MadeAdjacent

-----------------------------------------------------------------------------
(* merge_regions(): r2, which does not touch r1, is merged into r1.        *)

LEMMA NotItsOwn ==
  ASSUME NEW D, D \subseteq Nat, NEW V, V \subseteq D, NEW rs \in [ D -> RegionRecord ],
         Lists(rs, V), NEW r \in V
  PROVE  Times(rs, r, r) = 0
BY ListsMean

\* s is rs with some of the neighbours that r2 shares with r1 taken from it.
IsReduced(s, rs, r1, r2, D, V) ==
  /\ s \in [ D -> RegionRecord ] /\ Lists(s, V)
  /\ \A a \in V : s[a].flags = rs[a].flags
  /\ \A a, b \in V : a # r2 /\ b # r2 => Times(s, a, b) = Times(rs, a, b)
  /\ \A a \in V : /\ Times(s, a, r2) <= Times(rs, a, r2)
                  /\ Times(rs, a, r1) = 0 => Times(s, a, r2) = Times(rs, a, r2)

LEMMA SharedIsRemoved ==
  ASSUME NEW D, D \subseteq Nat, NEW V, V \subseteq D, NEW rs \in [ D -> RegionRecord ],
         NEW r1 \in V, NEW r2 \in V, r1 # r2,
         NEW s, IsReduced(s, rs, r1, r2, D, V), NEW i \in Nat \ {0}
  PROVE  IsReduced(WithoutShared(s, i, r1, r2), rs, r1, r2, D, V)
<1> DEFINE list == s[r2].adjacent
           a == list[i]
           less == SwappedOut(list, i)
           t == RemovedFrom(s, a, r2)
           u == [ t EXCEPT ![r2].adjacent = less ]
<1>1. s \in [ D -> RegionRecord ] /\ Lists(s, V)
  BY DEF IsReduced
<1>2. r1 \in D /\ r2 \in D /\ r2 \in Nat
  OBVIOUS
<1>3. list \in Seq(Nat) /\ Len(list) \in Nat
  BY <1>1, <1>2, ListOf
<1>4. CASE i > Len(list) \/ ~ IsAdjacent(s, list[i], r1)
  BY <1>4 DEF WithoutShared
<1>5. CASE i <= Len(list) /\ IsAdjacent(s, list[i], r1)
  <2>1. i \in 1 .. Len(list)
    BY <1>3, <1>5
  <2>2. a \in V /\ a # r2 /\ a \in D
    <3>1. list[i] \in V \ {r2}
      BY <1>1, <2>1, ListsMean
    <3>2. QED
      BY <3>1
  <2>3. Count(list, a) > 0
    BY <1>3, <2>1, CountPlaces
  <2>4. Times(s, r2, a) > 0 /\ Times(s, a, r2) = Times(s, r2, a)
    BY <1>1, <2>2, <2>3 DEF Lists, Times
  <2>5. Times(s, a, r1) > 0
    BY <1>1, <1>5, <2>2, IsAdjacentMeans
  <2>6. a # r1
    <3> HIDE DEF a
    <3>1. Times(s, r1, r1) = 0
      BY <1>1, NotItsOwn
    <3>2. QED
      BY <2>5, <3>1
  <2>7. Times(rs, a, r1) > 0
    BY <2>2, <2>5 DEF IsReduced
  <2>8. /\ less \in Seq(Nat) /\ Len(less) = Len(list) - 1
        /\ \A q : Count(less, q) = IF q = a THEN Count(list, q) - 1 ELSE Count(list, q)
    <3> HIDE DEF list
    <3>1. QED
      BY <1>3, <2>1, SwapCounts
  <2>20. Len(list) = Len(s[r2].adjacent) /\ \A q : Count(list, q) = Times(s, r2, q)
    BY DEF Times
  <2>9. WithoutShared(s, i, r1, r2) = [ t EXCEPT ![r2].adjacent = SwappedOut(t[r2].adjacent, i) ]
    <3>1. ~ (i > Len(list))
      BY <1>3, <2>1
    <3>2. QED
      BY <1>5, <3>1 DEF WithoutShared
  <2> HIDE DEF a
  <2>10. HasOneLess(t, s, a, r2, D)
    BY <1>1, <1>2, <2>2, RemovedTakesOne
  <2> HIDE DEF t
  <2>11. t[r2] = s[r2] /\ t \in [ D -> RegionRecord ]
    BY <1>2, <2>2, <2>10 DEF HasOneLess
  <2>12. WithoutShared(s, i, r1, r2) = u
    BY <2>9, <2>11
  <2> HIDE DEF less, list
  <2>13. HasList(u, t, r2, less, D)
    BY <1>2, <2>8, <2>11, ListReplaced
  <2> HIDE DEF u
  <2>14. /\ u \in [ D -> RegionRecord ] /\ u[r2].adjacent = less
         /\ u[a].adjacent = t[a].adjacent
         /\ \A q \in D : q # r2 /\ q # a => u[q].adjacent = s[q].adjacent
         /\ \A q \in D : u[q].flags = s[q].flags
    BY <1>2, <2>2, <2>10, <2>11, <2>13 DEF HasList, HasOneLess
  <2>15. \A b \in V : \A q : Times(s, b, q) \in Nat
    BY <1>1, ListOf
  <2>16. ASSUME NEW b \in V, NEW q
         PROVE  Times(u, b, q) = IF (b = a /\ q = r2) \/ (b = r2 /\ q = a)
                                 THEN Times(s, b, q) - 1 ELSE Times(s, b, q)
    <3>1. CASE b = r2
      <4>1. Times(u, b, q) = Count(less, q)
        BY <2>14, <3>1 DEF Times
      <4>2. QED
        BY <2>2, <2>8, <2>20, <3>1, <4>1
    <3>2. CASE b = a
      <4>1. Times(u, b, q) = Times(t, a, q)
        BY <2>14, <3>2 DEF Times
      <4>2. Times(t, a, q) = IF q = r2 /\ Times(s, a, q) > 0
                             THEN Times(s, a, q) - 1 ELSE Times(s, a, q)
        BY <2>10 DEF HasOneLess
      <4>3. Times(s, a, r2) > 0
        BY <2>4
      <4>4. QED
        BY <2>2, <3>2, <4>1, <4>2, <4>3
    <3>3. CASE b # r2 /\ b # a
      BY <2>14, <3>3 DEF Times
    <3>4. QED
      BY <3>1, <3>2, <3>3
  <2>17. Lists(u, V)
    <3>1. \A b \in V : Len(u[b].adjacent) <= MaxAdjacent
      <4> TAKE b \in V
      <4>1. Len(s[b].adjacent) \in Nat /\ Len(s[b].adjacent) <= MaxAdjacent
        BY <1>1, ListOf DEF Lists
      <4>2. CASE b = r2
        BY <2>8, <2>14, <2>20, <4>1, <4>2, RoomAssumption
      <4>3. CASE b = a
        <5>1. Len(t[a].adjacent) <= Len(s[a].adjacent) /\ Len(t[a].adjacent) \in Nat
          BY <2>2, <2>10, <2>11, ListOf DEF HasOneLess
        <5>2. Len(u[a].adjacent) = Len(t[a].adjacent)
          BY <2>14
        <5>3. QED
          BY <4>1, <4>3, <5>1, <5>2, RoomAssumption
      <4>4. CASE b # r2 /\ b # a
        BY <2>14, <4>1, <4>4
      <4>5. QED
        BY <4>2, <4>3, <4>4
    <3>2. ASSUME NEW b \in V, NEW q, Times(u, b, q) > 0 PROVE q \in V \ {b}
      <4>1. Times(s, b, q) > 0
        BY <2>15, <2>16, <3>2
      <4>2. QED
        BY <1>1, <4>1, ListsMean
    <3>3. ASSUME NEW b \in V, NEW q \in V PROVE Times(u, b, q) = Times(u, q, b)
      <4>1. Times(s, b, q) = Times(s, q, b)
        BY <1>1 DEF Lists
      <4>2. QED
        BY <2>16, <4>1
    <3>4. QED
      BY <2>14, <3>1, <3>2, <3>3, ListsFrom
  <2>18. ASSUME NEW b \in V
         PROVE  /\ Times(u, b, r2) <= Times(rs, b, r2)
                /\ Times(rs, b, r1) = 0 => Times(u, b, r2) = Times(rs, b, r2)
    <3>1. /\ Times(s, b, r2) <= Times(rs, b, r2)
          /\ Times(rs, b, r1) = 0 => Times(s, b, r2) = Times(rs, b, r2)
      BY DEF IsReduced
    <3>2. Times(s, b, r2) \in Nat /\ Times(rs, b, r2) \in Nat
      BY <2>15, ListOf
    <3>3. Times(u, b, r2) = IF b = a THEN Times(s, b, r2) - 1 ELSE Times(s, b, r2)
      BY <2>2, <2>16
    <3>4. b = a => Times(rs, b, r1) # 0
      BY <2>7
    <3>5. QED
      BY <3>1, <3>2, <3>3, <3>4
  <2>19. ASSUME NEW b \in V, NEW c \in V, b # r2, c # r2 PROVE Times(u, b, c) = Times(rs, b, c)
    BY <2>16, <2>19 DEF IsReduced
  <2>21. \A b \in V : u[b].flags = rs[b].flags
    BY <2>14 DEF IsReduced
  <2>22. IsReduced(u, rs, r1, r2, D, V)
    BY <2>14, <2>17, <2>18, <2>19, <2>21 DEF IsReduced
  <2>23. QED
    BY <2>12, <2>22
<1>6. QED
  BY <1>3, <1>4, <1>5

LEMMA WithoutCommonReduces ==
  ASSUME NEW D, D \subseteq Nat, NEW V, V \subseteq D, NEW rs \in [ D -> RegionRecord ],
         Lists(rs, V), NEW r1 \in V, NEW r2 \in V, r1 # r2
  PROVE  IsReduced(WithoutCommon(rs, r1, r2), rs, r1, r2, D, V)
<1> DEFINE order == [ i \in DOMAIN rs[r2].adjacent |-> i ]
           n == Len(rs[r2].adjacent)
           pair == [ into |-> r1, from |-> r2 ]
           last == Removing!Fold(rs, order, pair)
<1>1. n \in Nat /\ DOMAIN order = 1 .. n /\ \A k \in 0 .. n - 1 : order[k + 1] \in Nat \ {0}
  <2>1. n \in Nat /\ DOMAIN rs[r2].adjacent = 1 .. n
    BY ListOf
  <2>2. QED
    BY <2>1
<1>2. WithoutCommon(rs, r1, r2) = last
  BY WithoutCommonFolds
<1>3. pair.into = r1 /\ pair.from = r2
  OBVIOUS
<1>4. last = Removing!Fold(rs, order, pair)
  OBVIOUS
<1> HIDE DEF order, n, pair, last
<1>5. PICK r : /\ r[0] = rs /\ r[n] = last
               /\ \A k \in 0 .. n - 1 : r[k + 1] = WithoutNext(r[k], order[k + 1], pair)
  BY <1>1, <1>4, Removing!FoldSteps
<1> DEFINE K == { k \in 0 .. n : IsReduced(r[k], rs, r1, r2, D, V) }
<1>6. 0 \in K
  <2>1. \A a \in V : Times(rs, a, r2) \in Nat
    BY ListOf
  <2>2. IsReduced(rs, rs, r1, r2, D, V)
    BY <2>1 DEF IsReduced
  <2>3. QED
    BY <1>1, <1>5, <2>2
<1>7. ASSUME NEW k \in 0 .. n - 1, k \in K PROVE k + 1 \in K
  <2>1. IsReduced(r[k], rs, r1, r2, D, V) /\ order[k + 1] \in Nat \ {0}
    BY <1>1, <1>7
  <2>2. IsReduced(WithoutShared(r[k], order[k + 1], r1, r2), rs, r1, r2, D, V)
    BY <2>1, SharedIsRemoved
  <2>3. r[k + 1] = WithoutShared(r[k], order[k + 1], r1, r2)
    BY <1>3, <1>5 DEF WithoutNext
  <2>4. k + 1 \in 0 .. n
    BY <1>1
  <2>5. QED
    BY <2>2, <2>3, <2>4
<1> HIDE DEF K
<1>8. \A k \in 0 .. n : k \in K
  BY <1>1, <1>6, <1>7, Removing!UpTo
<1>9. n \in K
  BY <1>1, <1>8
<1>10. QED
  BY <1>2, <1>5, <1>9 DEF K

-----------------------------------------------------------------------------
(* The neighbours of r2 become neighbours of r1.                           *)

\* s is rs when the first k entries of the list of r2 are handed over.
TransferredTo(s, k, rs, r1, r2, list, D, V) ==
  /\ s \in [ D -> RegionRecord ]
  /\ s[r2].adjacent = list
  /\ \A q : Times(s, r1, q) = Times(rs, r1, q) + Count(list, q) - Left(list, k, q)
  /\ \A a \in V \ {r1, r2} :
       /\ Times(s, a, r2) = Left(list, k, a)
       /\ Times(s, a, r1) = Times(rs, a, r1) + Count(list, a) - Left(list, k, a)
       /\ \A q : q # r1 /\ q # r2 => Times(s, a, q) = Times(rs, a, q)
  /\ \A a \in V : Len(s[a].adjacent) = IF a = r1 THEN Len(rs[a].adjacent) + k ELSE Len(rs[a].adjacent)
  /\ \A a \in V : s[a].flags = rs[a].flags

LEMMA TransferredStep ==
  ASSUME NEW D, D \subseteq Nat, NEW V, V \subseteq D, NEW rs \in [ D -> RegionRecord ],
         NEW r1 \in V, NEW r2 \in V, r1 # r2, NEW list \in Seq(Nat),
         NEW k \in 0 .. Len(list) - 1,
         \A i \in 1 .. Len(list) : list[i] \in V \ {r1, r2},
         NEW s, TransferredTo(s, k, rs, r1, r2, list, D, V)
  PROVE  TransferredTo(Replaced(s, list[k + 1], r1, r2), k + 1, rs, r1, r2, list, D, V)
<1> DEFINE a == list[k + 1]
           i == FirstOf(s[a].adjacent, r2)
           other == [ s[a].adjacent EXCEPT ![i] = r1 ]
           more == Append(s[r1].adjacent, a)
           t == [ s EXCEPT ![a].adjacent = other ]
           u == [ t EXCEPT ![r1].adjacent = more ]
<1>1. Len(list) \in Nat /\ k \in Int /\ k + 1 \in 1 .. Len(list)
  BY LenProperties
<1>2. a \in V /\ a # r1 /\ a # r2 /\ a \in D /\ a \in Nat /\ r1 \in D /\ r1 \in Nat /\ r2 \in D
  BY <1>1
<1>3. s \in [ D -> RegionRecord ]
  BY DEF TransferredTo
<1>4. \A q : /\ Left(list, k, q) = IF q = a THEN Left(list, k + 1, q) + 1 ELSE Left(list, k + 1, q)
             /\ Left(list, k + 1, q) \in Nat /\ Count(list, q) \in Nat
  <2> TAKE q
  <2>1. /\ Left(list, k, q) = IF list[k + 1] = q THEN Left(list, k + 1, q) + 1
                              ELSE Left(list, k + 1, q)
        /\ \A m \in 0 .. Len(list) : Left(list, m, q) \in Nat
    BY LeftCounts
  <2>2. k + 1 \in 0 .. Len(list)
    BY <1>1
  <2>3. Count(list, q) \in Nat
    BY CountPlaces
  <2>4. QED
    BY <2>1, <2>2, <2>3
<1>5. Replaced(s, a, r1, r2) = u
  BY <1>2, <1>3 DEF Replaced
<1> HIDE DEF a
<1>6. Times(s, a, r2) = Left(list, k, a)
  BY <1>2 DEF TransferredTo
<1>7. /\ s[a].adjacent \in Seq(Nat) /\ s[r1].adjacent \in Seq(Nat)
      /\ Len(s[a].adjacent) \in Nat /\ Len(s[r1].adjacent) \in Nat
  BY <1>2, <1>3, ListOf
<1>8. i \in 1 .. Len(s[a].adjacent) /\ s[a].adjacent[i] = r2
  <2>1. Count(s[a].adjacent, r2) > 0
    BY <1>4, <1>6 DEF Times
  <2>2. QED
    BY <1>7, <2>1, FirstOfFinds
<1> HIDE DEF i
<1>9. /\ other \in Seq(Nat) /\ Len(other) = Len(s[a].adjacent)
      /\ \A q : Count(other, q) = IF q = r1 THEN Times(s, a, q) + 1
                                  ELSE IF q = r2 THEN Times(s, a, q) - 1 ELSE Times(s, a, q)
  <2> DEFINE old == s[a].adjacent
  <2>1. old \in Seq(Nat) /\ i \in 1 .. Len(old) /\ old[i] = r2 /\ old[i] # r1
    BY <1>7, <1>8
  <2>2. \A q : Times(s, a, q) = Count(old, q)
    BY DEF Times
  <2>3. other = [ old EXCEPT ![i] = r1 ]
    OBVIOUS
  <2> HIDE DEF old, other
  <2>6. /\ [ old EXCEPT ![i] = r1 ] \in Seq(Nat) /\ Len([ old EXCEPT ![i] = r1 ]) = Len(old)
        /\ \A q : Count([ old EXCEPT ![i] = r1 ], q) =
                    IF q = r1 THEN Count(old, q) + 1
                    ELSE IF q = old[i] THEN Count(old, q) - 1 ELSE Count(old, q)
    BY <1>2, <2>1, ReplaceCounts
  <2>4. /\ other \in Seq(Nat) /\ Len(other) = Len(old)
        /\ \A q : Count(other, q) = IF q = r1 THEN Count(old, q) + 1
                                    ELSE IF q = old[i] THEN Count(old, q) - 1 ELSE Count(old, q)
    BY <2>3, <2>6
  <2>5. QED
    BY <2>1, <2>2, <2>4 DEF old
<1>10. /\ more \in Seq(Nat) /\ Len(more) = Len(s[r1].adjacent) + 1
       /\ \A q : Count(more, q) = IF q = a THEN Times(s, r1, q) + 1 ELSE Times(s, r1, q)
  BY <1>2, <1>7, AppendCounts DEF Times
<1> HIDE DEF other, more
<1>11. HasList(t, s, a, other, D)
  BY <1>2, <1>3, <1>9, ListReplaced
<1>12. HasList(u, t, r1, more, D)
  <2> HIDE DEF t
  <2>1. t \in [ D -> RegionRecord ]
    BY <1>11 DEF HasList
  <2>2. QED
    BY <1>2, <1>10, <2>1, ListReplaced
<1> HIDE DEF t, u
<1>13. /\ u \in [ D -> RegionRecord ] /\ u[a].adjacent = other /\ u[r1].adjacent = more
       /\ \A q \in D : q # a /\ q # r1 => u[q].adjacent = s[q].adjacent
       /\ \A q \in D : u[q].flags = s[q].flags
  BY <1>2, <1>11, <1>12 DEF HasList
<1>14. u[r2].adjacent = list
  BY <1>2, <1>13 DEF TransferredTo
<1>15. \A b \in V : \A q : Times(s, b, q) \in Nat /\ Times(rs, b, q) \in Nat
  BY <1>3, ListOf
<1>16. ASSUME NEW q PROVE Times(u, r1, q) = Times(rs, r1, q) + Count(list, q) - Left(list, k + 1, q)
  <2>1. Times(u, r1, q) = IF q = a THEN Times(s, r1, q) + 1 ELSE Times(s, r1, q)
    BY <1>10, <1>13 DEF Times
  <2>2. Times(s, r1, q) = Times(rs, r1, q) + Count(list, q) - Left(list, k, q)
    BY DEF TransferredTo
  <2>3. QED
    BY <1>4, <1>15, <2>1, <2>2
<1>17. ASSUME NEW b \in V \ {r1, r2}
       PROVE  /\ Times(u, b, r2) = Left(list, k + 1, b)
              /\ Times(u, b, r1) = Times(rs, b, r1) + Count(list, b) - Left(list, k + 1, b)
              /\ \A q : q # r1 /\ q # r2 => Times(u, b, q) = Times(rs, b, q)
  <2>1. /\ Times(s, b, r2) = Left(list, k, b)
        /\ Times(s, b, r1) = Times(rs, b, r1) + Count(list, b) - Left(list, k, b)
        /\ \A q : q # r1 /\ q # r2 => Times(s, b, q) = Times(rs, b, q)
    BY DEF TransferredTo
  <2>2. CASE b = a
    <3>1. \A q : Times(u, b, q) = IF q = r1 THEN Times(s, b, q) + 1
                                  ELSE IF q = r2 THEN Times(s, b, q) - 1 ELSE Times(s, b, q)
      BY <1>9, <1>13, <2>2 DEF Times
    <3>2. Left(list, k, b) = Left(list, k + 1, b) + 1 /\ Left(list, k + 1, b) \in Nat
      BY <1>4, <2>2
    <3>6. Times(u, b, r2) = Times(s, b, r2) - 1
      BY <3>1
    <3>3. Times(u, b, r2) = Left(list, k + 1, b)
      BY <2>1, <3>2, <3>6
    <3>4. Times(u, b, r1) = Times(rs, b, r1) + Count(list, b) - Left(list, k + 1, b)
      BY <1>4, <1>15, <2>1, <3>1, <3>2
    <3>5. QED
      BY <2>1, <3>1, <3>3, <3>4
  <2>3. CASE b # a
    <3>1. \A q : Times(u, b, q) = Times(s, b, q)
      BY <1>13, <2>3 DEF Times
    <3>2. Left(list, k, b) = Left(list, k + 1, b)
      BY <1>4, <2>3
    <3>3. QED
      BY <2>1, <3>1, <3>2
  <2>4. QED
    BY <2>2, <2>3
<1>18. ASSUME NEW b \in V
       PROVE  Len(u[b].adjacent) = IF b = r1 THEN Len(rs[b].adjacent) + (k + 1) ELSE Len(rs[b].adjacent)
  <2>1. Len(s[b].adjacent) = IF b = r1 THEN Len(rs[b].adjacent) + k ELSE Len(rs[b].adjacent)
    BY DEF TransferredTo
  <2>2. Len(rs[b].adjacent) \in Nat
    BY ListOf
  <2>3. CASE b = r1
    <3> DEFINE now == Len(u[r1].adjacent)
               then == Len(s[r1].adjacent)
               start == Len(rs[r1].adjacent)
    <3>1. now = then + 1
      BY <1>10, <1>13
    <3>2. then = start + k /\ start \in Nat
      BY <2>1, <2>2, <2>3
    <3> HIDE DEF now, then, start
    <3>3. now = start + (k + 1)
      BY <1>1, <3>1, <3>2
    <3>4. QED
      BY <2>3, <3>3 DEF now, start
  <2>4. CASE b = a
    BY <1>2, <1>9, <1>13, <2>1, <2>4
  <2>5. CASE b # a /\ b # r1
    BY <1>13, <2>1, <2>5
  <2>6. QED
    BY <2>3, <2>4, <2>5
<1>19. \A b \in V : u[b].flags = rs[b].flags
  BY <1>13 DEF TransferredTo
<1>20. TransferredTo(u, k + 1, rs, r1, r2, list, D, V)
  BY <1>13, <1>14, <1>16, <1>17, <1>18, <1>19 DEF TransferredTo
<1>21. QED
  BY <1>5, <1>20 DEF a

\* s is rs when r1 has the neighbours of r2, and r2 none.
IsTransferred(s, rs, r1, r2, D, V) ==
  /\ s \in [ D -> RegionRecord ] /\ Lists(s, V)
  /\ \A a \in V : s[a].flags = rs[a].flags
  /\ \A a \in V : Times(s, a, r2) = 0
  /\ \A a \in V \ {r1, r2} :
       /\ Times(s, a, r1) = Times(rs, a, r1) + Times(rs, a, r2)
       /\ \A b \in V \ {r1, r2} : Times(s, a, b) = Times(rs, a, b)

LEMMA TransferredHandsOver ==
  ASSUME NEW D, D \subseteq Nat, NEW V, V \subseteq D, NEW rs \in [ D -> RegionRecord ],
         Lists(rs, V), NEW r1 \in V, NEW r2 \in V, r1 # r2, Times(rs, r1, r2) = 0,
         Len(rs[r1].adjacent) + Len(rs[r2].adjacent) <= MaxAdjacent
  PROVE  IsTransferred(Transferred(rs, r1, r2), rs, r1, r2, D, V)
<1> DEFINE list == rs[r2].adjacent
           n == Len(list)
           pair == [ into |-> r1, from |-> r2 ]
           last == Transferring!Fold(rs, list, pair)
           s == [ last EXCEPT ![r2].adjacent = <<>> ]
<1>1. r1 \in D /\ r2 \in D /\ list \in Seq(Nat) /\ n \in Nat /\ DOMAIN list = 1 .. n
  <2>1. r1 \in D /\ r2 \in D
    OBVIOUS
  <2>2. \A r \in D : /\ rs[r].adjacent \in Seq(Nat) /\ Len(rs[r].adjacent) \in Nat
                      /\ DOMAIN rs[r].adjacent = 1 .. Len(rs[r].adjacent)
    BY ListOf
  <2>3. QED
    BY <2>1, <2>2
<1>2. \A q : Times(rs, r2, q) = Count(list, q)
  BY DEF Times
<1>3. \A i \in 1 .. n : list[i] \in V \ {r1, r2}
  <2> TAKE i \in 1 .. n
  <2>1. list[i] \in V \ {r2}
    BY ListsMean
  <2>2. Count(list, list[i]) > 0
    BY <1>1, CountPlaces
  <2>3. Times(rs, r2, r1) = 0
    BY DEF Lists
  <2>4. ~ (Count(list, r1) > 0)
    BY <1>2, <2>3
  <2>5. QED
    BY <2>1, <2>2, <2>4
<1>4. \A a \in V : Times(rs, a, r2) = Count(list, a)
  BY <1>2 DEF Lists
<1>5. last = Transferring!Fold(rs, list, pair) /\ pair.into = r1 /\ pair.from = r2
  OBVIOUS
<1>6. Transferred(rs, r1, r2) = s
  BY TransferredFolds
<1> HIDE DEF last, pair
<1>7. TransferredTo(rs, 0, rs, r1, r2, list, D, V)
  <2>1. \A q : Left(list, 0, q) = Count(list, q) /\ Count(list, q) \in Nat
    <3> HIDE DEF list
    <3>1. QED
      BY <1>1, LeftCounts, CountPlaces
  <2>2. \A a \in V : \A q : Times(rs, a, q) \in Nat
    BY ListOf
  <2>3. \A a \in V : Len(rs[a].adjacent) \in Nat
    BY ListOf
  <2>4. rs[r2].adjacent = list
    OBVIOUS
  <2> HIDE DEF list
  <2>5. \A q : Times(rs, r1, q) = Times(rs, r1, q) + Count(list, q) - Left(list, 0, q)
    BY <2>1, <2>2
  <2>6. \A a \in V \ {r1, r2} :
       /\ Times(rs, a, r2) = Left(list, 0, a)
       /\ Times(rs, a, r1) = Times(rs, a, r1) + Count(list, a) - Left(list, 0, a)
    BY <1>4, <2>1, <2>2
  <2>7. QED
    BY <2>3, <2>4, <2>5, <2>6 DEF TransferredTo
<1>8. TransferredTo(last, n, rs, r1, r2, list, D, V)
  <2>1. n = Len(list)
    OBVIOUS
  <2>8. n \in Nat /\ DOMAIN list = 1 .. n /\ last = Transferring!Fold(rs, list, pair)
    BY <1>1, <1>5
  <2> HIDE DEF list, n
  <2>2. PICK r : /\ r[0] = rs /\ r[n] = last
                 /\ \A k \in 0 .. n - 1 : r[k + 1] = TransferredNext(r[k], list[k + 1], pair)
    BY <2>8, Transferring!FoldSteps
  <2> DEFINE K == { k \in 0 .. n : TransferredTo(r[k], k, rs, r1, r2, list, D, V) }
  <2>3. 0 \in K
    BY <1>1, <1>7, <2>2
  <2>4. ASSUME NEW k \in 0 .. n - 1, k \in K PROVE k + 1 \in K
    <3>1. k \in 0 .. Len(list) - 1 /\ TransferredTo(r[k], k, rs, r1, r2, list, D, V)
      BY <2>1, <2>4
    <3>2. TransferredTo(Replaced(r[k], list[k + 1], r1, r2), k + 1, rs, r1, r2, list, D, V)
      <4>1. \A i \in 1 .. Len(list) : list[i] \in V \ {r1, r2}
        BY <1>3, <2>1
      <4>2. QED
        BY <1>1, <3>1, <4>1, TransferredStep
    <3>3. r[k + 1] = Replaced(r[k], list[k + 1], r1, r2)
      BY <1>5, <2>2 DEF TransferredNext
    <3>4. k + 1 \in 0 .. n
      BY <1>1
    <3>5. QED
      BY <3>2, <3>3, <3>4
  <2> HIDE DEF K
  <2>5. \A k \in 0 .. n : k \in K
    BY <1>1, <2>3, <2>4, Transferring!UpTo
  <2>6. n \in K
    BY <1>1, <2>5
  <2>7. QED
    BY <2>2, <2>6 DEF K
<1>9. last \in [ D -> RegionRecord ]
  BY <1>8 DEF TransferredTo
<1>10. <<>> \in Seq(Nat) /\ Len(<<>>) = 0 /\ \A a : Count(<<>>, a) = 0
  BY EmptyCounts
<1>11. HasList(s, last, r2, <<>>, D)
  BY <1>1, <1>9, <1>10, ListReplaced
<1> HIDE DEF s
<1>12. /\ s \in [ D -> RegionRecord ]
       /\ s[r2].adjacent = <<>> /\ s[r2].flags = last[r2].flags
       /\ \A q \in D : q # r2 => s[q] = last[q]
  BY <1>11 DEF HasList
<1>13. \A q : Times(s, r2, q) = 0
  BY <1>10, <1>12 DEF Times
<1>14. \A a \in V \ {r2} : \A q : Times(s, a, q) = Times(last, a, q)
  BY <1>12 DEF Times
<1>15. \A q : Left(list, n, q) = 0 /\ Count(list, q) \in Nat
  <2>1. n = Len(list)
    OBVIOUS
  <2> HIDE DEF list, n
  <2>2. QED
    BY <1>1, <2>1, LeftCounts, CountPlaces
<1>16. \A a \in V : \A q : Times(rs, a, q) \in Nat
  BY ListOf
<1> HIDE DEF list, n
<1>17. \A q : Times(s, r1, q) = Times(rs, r1, q) + Times(rs, r2, q)
  <2> TAKE q
  <2>1. Times(last, r1, q) = Times(rs, r1, q) + Count(list, q) - Left(list, n, q)
    BY <1>8 DEF TransferredTo
  <2>2. Times(s, r1, q) = Times(last, r1, q)
    BY <1>14
  <2>3. QED
    BY <1>2, <1>15, <1>16, <2>1, <2>2
<1>18. ASSUME NEW a \in V \ {r1, r2}
       PROVE  /\ Times(s, a, r2) = 0 /\ Times(s, a, r1) = Times(rs, a, r1) + Times(rs, a, r2)
              /\ \A q : q # r1 /\ q # r2 => Times(s, a, q) = Times(rs, a, q)
  <2>1. /\ Times(last, a, r2) = Left(list, n, a)
        /\ Times(last, a, r1) = Times(rs, a, r1) + Count(list, a) - Left(list, n, a)
        /\ \A q : q # r1 /\ q # r2 => Times(last, a, q) = Times(rs, a, q)
    BY <1>8 DEF TransferredTo
  <2>2. \A q : Times(s, a, q) = Times(last, a, q)
    BY <1>14
  <2>3. QED
    BY <1>4, <1>15, <1>16, <2>1, <2>2
<1>19. Times(s, r1, r1) = 0 /\ Times(s, r1, r2) = 0
  <2>1. Times(rs, r1, r1) = 0 /\ Times(rs, r2, r2) = 0
    BY NotItsOwn
  <2>2. Times(rs, r2, r1) = 0
    BY DEF Lists
  <2>3. QED
    BY <1>17, <2>1, <2>2
<1>20. \A a \in V : Times(s, a, r2) = 0
  BY <1>13, <1>18, <1>19
<1>21. Lists(s, V)
  <2>1. ASSUME NEW a \in V PROVE Len(s[a].adjacent) <= MaxAdjacent
    <3>1. /\ Len(rs[a].adjacent) \in Nat /\ Len(rs[a].adjacent) <= MaxAdjacent
          /\ Len(last[a].adjacent) = IF a = r1 THEN Len(rs[a].adjacent) + n ELSE Len(rs[a].adjacent)
      BY <1>8, ListOf DEF Lists, TransferredTo
    <3>2. Len(rs[r1].adjacent) + n <= MaxAdjacent
      BY DEF n, list
    <3>3. CASE a = r2
      BY <1>10, <1>12, <3>3, RoomAssumption
    <3>4. CASE a # r2
      BY <1>12, <3>1, <3>2, <3>4
    <3>5. QED
      BY <3>3, <3>4
  <2>2. ASSUME NEW a \in V, NEW q, Times(s, a, q) > 0 PROVE q \in V \ {a}
    <3>1. \A c \in V : Times(rs, c, q) > 0 => q \in V \ {c}
      BY ListsMean
    <3>2. CASE a = r2
      BY <1>13, <2>2, <3>2
    <3>3. CASE a = r1
      <4>1. q # r1
        BY <1>19, <2>2, <3>3
      <4>2. Times(rs, r1, q) > 0 \/ Times(rs, r2, q) > 0
        BY <1>16, <1>17, <2>2, <3>3
      <4>3. QED
        BY <3>1, <3>3, <4>1, <4>2
    <3>4. CASE a # r1 /\ a # r2
      <4>1. CASE q = r1
        BY <3>4, <4>1
      <4>2. CASE q = r2
        BY <3>4, <4>2
      <4>3. CASE q # r1 /\ q # r2
        BY <1>18, <2>2, <3>1, <3>4, <4>3
      <4>4. QED
        BY <4>1, <4>2, <4>3
    <3>5. QED
      BY <3>2, <3>3, <3>4
  <2>3. ASSUME NEW a \in V, NEW b \in V PROVE Times(s, a, b) = Times(s, b, a)
    <3>1. Times(rs, a, b) = Times(rs, b, a)
      BY DEF Lists
    <3>2. \A c \in V : Times(rs, c, r1) = Times(rs, r1, c) /\ Times(rs, c, r2) = Times(rs, r2, c)
      BY DEF Lists
    <3>3. CASE a = r2 \/ b = r2
      BY <1>13, <1>20, <3>3
    <3>4. CASE a = r1 /\ b # r2
      BY <1>17, <1>18, <3>2, <3>4
    <3>5. CASE b = r1 /\ a # r2
      BY <1>17, <1>18, <3>2, <3>5
    <3>6. CASE a # r1 /\ a # r2 /\ b # r1 /\ b # r2
      BY <1>18, <3>1, <3>6
    <3>7. QED
      BY <3>3, <3>4, <3>5, <3>6
  <2>4. QED
    BY <1>12, <2>1, <2>2, <2>3, ListsFrom
<1>22. \A a \in V : s[a].flags = rs[a].flags
  BY <1>8, <1>12 DEF TransferredTo
<1>23. IsTransferred(s, rs, r1, r2, D, V)
  BY <1>12, <1>18, <1>20, <1>21, <1>22 DEF IsTransferred
<1>24. QED
  BY <1>6, <1>23

-----------------------------------------------------------------------------
(* Whichever way the lists are joined.                                     *)

\* s is rs when r2 is in no list, and r1 has its neighbours or flags say so.
IsJoined(s, rs, r1, r2, D, V) ==
  /\ s \in [ D -> RegionRecord ] /\ Lists(s, V)
  /\ \A a \in V : rs[a].flags \subseteq s[a].flags
  /\ \A a \in V : Times(s, a, r2) = 0
  /\ \A a \in V \ {r1, r2} :
       LET had == Times(rs, a, r1) > 0 \/ Times(rs, a, r2) > 0
       IN  /\ \A b \in V \ {r1, r2} : Times(s, a, b) = Times(rs, a, b)
           /\ Times(s, a, r1) > 0 => had
           /\ had => \/ Times(s, a, r1) > 0
                     \/ "fragmented" \in s[a].flags /\ "saturated" \in s[r1].flags

\* Two lists that are given up one after the other.
AreGivenUp(s, rs, p, q, D, V) ==
  /\ s \in [ D -> RegionRecord ] /\ Lists(s, V)
  /\ \A a \in V : rs[a].flags \subseteq s[a].flags
  /\ \A a, b \in V : Times(s, a, b) = IF a \in {p, q} \/ b \in {p, q} THEN 0 ELSE Times(rs, a, b)
  /\ \A a \in V : Times(rs, a, p) > 0 => "fragmented" \in s[a].flags
  /\ \A a \in V \ {p} : Times(rs, a, q) > 0 => "fragmented" \in s[a].flags
  /\ "saturated" \in s[p].flags /\ "saturated" \in s[q].flags

LEMMA BothAreGivenUp ==
  ASSUME NEW D, D \subseteq Nat, NEW V, V \subseteq D, NEW rs \in [ D -> RegionRecord ],
         Lists(rs, V), NEW p \in V, NEW q \in V, p # q
  PROVE  AreGivenUp(Saturated(Saturated(rs, p), q), rs, p, q, D, V)
<1> DEFINE t == Saturated(rs, p)
           s == Saturated(t, q)
<1>1. IsGivenUp(t, rs, p, D, V)
  BY SaturatedGivesUp
<1>2. t \in [ D -> RegionRecord ] /\ Lists(t, V)
  BY <1>1 DEF IsGivenUp
<1> HIDE DEF t
<1>3. IsGivenUp(s, t, q, D, V)
  BY <1>2, SaturatedGivesUp
<1> HIDE DEF s
<1>4. s \in [ D -> RegionRecord ] /\ Lists(s, V)
  BY <1>3 DEF IsGivenUp
<1>5. \A a \in V : rs[a].flags \subseteq t[a].flags /\ t[a].flags \subseteq s[a].flags
  BY <1>1, <1>3 DEF IsGivenUp
<1>6. ASSUME NEW a \in V, NEW b \in V
      PROVE  Times(s, a, b) = IF a \in {p, q} \/ b \in {p, q} THEN 0 ELSE Times(rs, a, b)
  <2>1. Times(t, a, b) = IF a = p \/ b = p THEN 0 ELSE Times(rs, a, b)
    BY <1>1 DEF IsGivenUp
  <2>2. Times(s, a, b) = IF a = q \/ b = q THEN 0 ELSE Times(t, a, b)
    BY <1>3 DEF IsGivenUp
  <2>3. QED
    BY <2>1, <2>2
<1>7. ASSUME NEW a \in V, Times(rs, a, p) > 0 PROVE "fragmented" \in s[a].flags
  BY <1>1, <1>5, <1>7 DEF IsGivenUp
<1>8. ASSUME NEW a \in V \ {p}, Times(rs, a, q) > 0 PROVE "fragmented" \in s[a].flags
  <2>1. Times(t, a, q) = Times(rs, a, q)
    BY <1>1, <1>8 DEF IsGivenUp
  <2>2. QED
    BY <1>3, <1>8, <2>1 DEF IsGivenUp
<1>9. "saturated" \in s[p].flags /\ "saturated" \in s[q].flags
  BY <1>1, <1>3, <1>5 DEF IsGivenUp
<1>10. AreGivenUp(s, rs, p, q, D, V)
  BY <1>4, <1>5, <1>6, <1>7, <1>8, <1>9 DEF AreGivenUp
<1>11. QED
  BY <1>10 DEF s, t

LEMMA GivenUpJoins ==
  ASSUME NEW D, D \subseteq Nat, NEW V, V \subseteq D, NEW rs \in [ D -> RegionRecord ],
         Lists(rs, V), NEW r1 \in V, NEW r2 \in V, r1 # r2
  PROVE  IsJoined(Saturated(Saturated(rs, r2), r1), rs, r1, r2, D, V)
<1> DEFINE s == Saturated(Saturated(rs, r2), r1)
<1>1. AreGivenUp(s, rs, r2, r1, D, V)
  <2>1. r2 # r1
    OBVIOUS
  <2>2. QED
    BY <2>1, BothAreGivenUp
<1> HIDE DEF s
<1>2. \A a \in V : Times(s, a, r2) = 0 /\ Times(s, a, r1) = 0
  BY <1>1 DEF AreGivenUp
<1>3. ASSUME NEW a \in V \ {r1, r2}
      PROVE  /\ \A b \in V \ {r1, r2} : Times(s, a, b) = Times(rs, a, b)
             /\ Times(rs, a, r1) > 0 \/ Times(rs, a, r2) > 0 =>
                  "fragmented" \in s[a].flags /\ "saturated" \in s[r1].flags
  BY <1>1 DEF AreGivenUp
<1>4. IsJoined(s, rs, r1, r2, D, V)
  BY <1>1, <1>2, <1>3 DEF IsJoined, AreGivenUp
<1>5. QED
  BY <1>4 DEF s

LEMMA ReducedJoins ==
  ASSUME NEW D, D \subseteq Nat, NEW V, V \subseteq D, NEW rs \in [ D -> RegionRecord ],
         Lists(rs, V), NEW r1 \in V, NEW r2 \in V, r1 # r2,
         NEW w, IsReduced(w, rs, r1, r2, D, V)
  PROVE  IsJoined(Saturated(Saturated(w, r1), r2), rs, r1, r2, D, V)
<1> DEFINE s == Saturated(Saturated(w, r1), r2)
<1>1. AreGivenUp(s, w, r1, r2, D, V)
  BY BothAreGivenUp DEF IsReduced
<1> HIDE DEF s
<1>2. \A a \in V : Times(s, a, r2) = 0 /\ Times(s, a, r1) = 0
  BY <1>1 DEF AreGivenUp
<1>3. ASSUME NEW a \in V \ {r1, r2}
      PROVE  \A b \in V \ {r1, r2} : Times(s, a, b) = Times(rs, a, b)
  BY <1>1 DEF AreGivenUp, IsReduced
<1>4. ASSUME NEW a \in V \ {r1, r2}, Times(rs, a, r1) > 0 \/ Times(rs, a, r2) > 0
      PROVE  "fragmented" \in s[a].flags /\ "saturated" \in s[r1].flags
  <2>1. CASE Times(rs, a, r1) > 0
    <3>1. Times(w, a, r1) > 0
      BY <2>1 DEF IsReduced
    <3>2. QED
      BY <1>1, <3>1 DEF AreGivenUp
  <2>2. CASE ~ (Times(rs, a, r1) > 0)
    <3>1. Times(rs, a, r1) \in Nat
      BY ListOf
    <3>2. Times(rs, a, r1) = 0 /\ Times(rs, a, r2) > 0
      BY <1>4, <2>2, <3>1
    <3>3. Times(w, a, r2) > 0
      BY <3>2 DEF IsReduced
    <3>4. QED
      BY <1>1, <3>3 DEF AreGivenUp
  <2>3. QED
    BY <2>1, <2>2
<1>5. ASSUME NEW a \in V PROVE rs[a].flags \subseteq s[a].flags
  BY <1>1 DEF AreGivenUp, IsReduced
<1>6. IsJoined(s, rs, r1, r2, D, V)
  BY <1>1, <1>2, <1>3, <1>4, <1>5 DEF IsJoined, AreGivenUp
<1>7. QED
  BY <1>6 DEF s

LEMMA TransferredJoins ==
  ASSUME NEW D, D \subseteq Nat, NEW V, V \subseteq D, NEW rs \in [ D -> RegionRecord ],
         Lists(rs, V), NEW r1 \in V, NEW r2 \in V, r1 # r2, Times(rs, r1, r2) = 0,
         NEW w, IsReduced(w, rs, r1, r2, D, V),
         Len(w[r1].adjacent) + Len(w[r2].adjacent) <= MaxAdjacent
  PROVE  IsJoined(Transferred(w, r1, r2), rs, r1, r2, D, V)
<1> DEFINE s == Transferred(w, r1, r2)
<1>1. w \in [ D -> RegionRecord ] /\ Lists(w, V)
  BY DEF IsReduced
<1>2. \A a \in V : \A q : Times(w, a, q) \in Nat /\ Times(rs, a, q) \in Nat
  BY <1>1, ListOf
<1>3. Times(w, r1, r2) = 0
  <2>1. Times(w, r1, r2) <= Times(rs, r1, r2)
    BY DEF IsReduced
  <2>2. QED
    BY <1>2, <2>1
<1>4. IsTransferred(s, w, r1, r2, D, V)
  BY <1>1, <1>3, TransferredHandsOver
<1> HIDE DEF s
<1>5. ASSUME NEW a \in V \ {r1, r2}
      PROVE  /\ \A b \in V \ {r1, r2} : Times(s, a, b) = Times(rs, a, b)
             /\ Times(s, a, r1) > 0 <=> Times(rs, a, r1) > 0 \/ Times(rs, a, r2) > 0
  <2>1. \A b \in V \ {r1, r2} : Times(s, a, b) = Times(rs, a, b)
    BY <1>4 DEF IsTransferred, IsReduced
  <2>2. Times(s, a, r1) = Times(w, a, r1) + Times(w, a, r2)
    BY <1>4 DEF IsTransferred
  <2>3. /\ Times(w, a, r1) = Times(rs, a, r1)
        /\ Times(w, a, r2) <= Times(rs, a, r2)
        /\ Times(rs, a, r1) = 0 => Times(w, a, r2) = Times(rs, a, r2)
    BY DEF IsReduced
  <2>4. QED
    BY <1>2, <2>1, <2>2, <2>3
<1>6. ASSUME NEW a \in V PROVE rs[a].flags \subseteq s[a].flags
  BY <1>4 DEF IsTransferred, IsReduced
<1>7. IsJoined(s, rs, r1, r2, D, V)
  BY <1>4, <1>5, <1>6 DEF IsJoined, IsTransferred
<1>8. QED
  BY <1>7 DEF s

LEMMA JoinedJoins ==
  ASSUME NEW D, D \subseteq Nat, NEW V, V \subseteq D, NEW rs \in [ D -> RegionRecord ],
         Lists(rs, V), NEW r1 \in V, NEW r2 \in V, r1 # r2, Times(rs, r1, r2) = 0
  PROVE  IsJoined(Joined(rs, r1, r2), rs, r1, r2, D, V)
<1> DEFINE w == WithoutCommon(rs, r1, r2)
<1>1. IsReduced(w, rs, r1, r2, D, V)
  BY WithoutCommonReduces
<1>2. Joined(rs, r1, r2) =
        IF "saturated" \in rs[r1].flags \cup rs[r2].flags
        THEN Saturated(Saturated(rs, r2), r1)
        ELSE IF Len(w[r1].adjacent) + Len(w[r2].adjacent) > MaxAdjacent
        THEN Saturated(Saturated(w, r1), r2)
        ELSE Transferred(w, r1, r2)
  BY DEF Joined
<1> HIDE DEF w
<1>3. Len(w[r1].adjacent) \in Nat /\ Len(w[r2].adjacent) \in Nat
  BY <1>1, ListOf DEF IsReduced
<1>4. IsJoined(Saturated(Saturated(rs, r2), r1), rs, r1, r2, D, V)
  BY GivenUpJoins
<1>5. IsJoined(Saturated(Saturated(w, r1), r2), rs, r1, r2, D, V)
  BY <1>1, ReducedJoins
<1>6. ASSUME ~ (Len(w[r1].adjacent) + Len(w[r2].adjacent) > MaxAdjacent)
      PROVE  IsJoined(Transferred(w, r1, r2), rs, r1, r2, D, V)
  <2>1. Len(w[r1].adjacent) + Len(w[r2].adjacent) <= MaxAdjacent
    <3> DEFINE len1 == Len(w[r1].adjacent)
               len2 == Len(w[r2].adjacent)
    <3>1. len1 \in Nat /\ len2 \in Nat /\ ~ (len1 + len2 > MaxAdjacent)
      BY <1>3, <1>6
    <3> HIDE DEF len1, len2
    <3>2. len1 + len2 <= MaxAdjacent
      BY <3>1, RoomAssumption
    <3>3. QED
      BY <3>2 DEF len1, len2
  <2>2. QED
    BY <1>1, <2>1, TransferredJoins
<1>7. QED
  BY <1>2, <1>4, <1>5, <1>6

-----------------------------------------------------------------------------
(* The region that takes the other over.                                   *)

\* The pairs of M are those of N with r1 for r2.
TouchFor(M, N, r1, r2, V) ==
  \A a, b \in V \ {r2} :
    <<a, b>> \in M <=> \/ <<a, b>> \in N
                       \/ a = r1 /\ b # r1 /\ <<r2, b>> \in N
                       \/ b = r1 /\ a # r1 /\ <<a, r2>> \in N

LEMMA JoinedIsSound ==
  ASSUME NEW D, D \subseteq Nat, NEW V, V \subseteq D, NEW N, NEW rs, Sound(rs, D, V, N),
         NEW r1 \in V, NEW r2 \in V, r1 # r2, <<r1, r1>> \notin N,
         NEW s, IsJoined(s, rs, r1, r2, D, V),
         NEW t, t \in [ D -> RegionRecord ],
         \A a \in V : t[a].adjacent = s[a].adjacent,
         \A a \in V : s[a].flags \subseteq t[a].flags,
         s[r2].flags \subseteq t[r1].flags,
         NEW M, TouchFor(M, N, r1, r2, V)
  PROVE  Sound(t, D, V \ {r2}, M)
<1>1. rs \in [ D -> RegionRecord ] /\ Lists(rs, V) /\ Covers(rs, V, N)
  BY DEF Sound
<1>2. s \in [ D -> RegionRecord ] /\ Lists(s, V)
  BY DEF IsJoined
<1>3. \A a \in V : \A q : Times(t, a, q) = Times(s, a, q)
  BY DEF Times
<1>4. Lists(t, V \ {r2})
  <2>1. V \ {r2} \subseteq D
    OBVIOUS
  <2>2. \A a \in V \ {r2} : Len(t[a].adjacent) <= MaxAdjacent
    BY <1>2 DEF Lists
  <2>3. ASSUME NEW a \in V \ {r2}, NEW q, Times(t, a, q) > 0 PROVE q \in (V \ {r2}) \ {a}
    <3>1. Times(s, a, q) > 0
      BY <1>3, <2>3
    <3>2. q \in V \ {a}
      BY <1>2, <3>1, ListsMean
    <3>3. Times(s, a, r2) = 0
      BY DEF IsJoined
    <3>4. QED
      BY <3>1, <3>2, <3>3
  <2>4. \A a, b \in V \ {r2} : Times(t, a, b) = Times(t, b, a)
    BY <1>2, <1>3 DEF Lists
  <2>5. QED
    BY <2>1, <2>2, <2>3, <2>4, ListsFrom
<1>5. ASSUME NEW a \in V PROVE Unflagged(t, a) => Unflagged(s, a) /\ Unflagged(rs, a)
  <2>1. rs[a].flags \subseteq s[a].flags /\ s[a].flags \subseteq t[a].flags
    BY DEF IsJoined
  <2>2. QED
    BY <2>1 DEF Unflagged
<1>6. Unflagged(t, r1) => Unflagged(rs, r1) /\ Unflagged(rs, r2) /\ "saturated" \notin s[r1].flags
  <2>1. rs[r2].flags \subseteq t[r1].flags /\ rs[r1].flags \subseteq t[r1].flags
    BY DEF IsJoined
  <2>2. "saturated" \in s[r1].flags => "saturated" \in t[r1].flags
    OBVIOUS
  <2>3. QED
    BY <2>1, <2>2 DEF Unflagged
<1>7. ASSUME NEW a \in V, NEW b \in V
      PROVE  /\ Times(rs, a, b) > 0 => <<a, b>> \in N
             /\ <<a, b>> \in N /\ Unflagged(rs, a) => Times(rs, a, b) > 0
             /\ Times(rs, a, b) = Times(rs, b, a)
             /\ Times(s, a, b) = Times(s, b, a)
  BY <1>1, <1>2 DEF Covers, Lists
<1>8. ASSUME NEW a \in V \ {r1, r2}
      PROVE  /\ \A b \in V \ {r1, r2} : Times(s, a, b) = Times(rs, a, b)
             /\ Times(s, a, r1) > 0 => Times(rs, a, r1) > 0 \/ Times(rs, a, r2) > 0
             /\ Times(rs, a, r1) > 0 \/ Times(rs, a, r2) > 0 =>
                  \/ Times(s, a, r1) > 0
                  \/ "fragmented" \in s[a].flags /\ "saturated" \in s[r1].flags
  BY DEF IsJoined
<1>9. ASSUME NEW a \in V \ {r2}, NEW b \in V \ {r2}
      PROVE  /\ Times(t, a, b) > 0 => <<a, b>> \in M
             /\ <<a, b>> \in M /\ Unflagged(t, a) => Times(t, a, b) > 0
  <2>1. <<a, b>> \in M <=> \/ <<a, b>> \in N
                           \/ a = r1 /\ b # r1 /\ <<r2, b>> \in N
                           \/ b = r1 /\ a # r1 /\ <<a, r2>> \in N
    BY DEF TouchFor
  <2>2. Times(t, a, b) = Times(s, a, b)
    BY <1>3
  <2>3. CASE a # r1 /\ b # r1
    BY <1>5, <1>7, <1>8, <2>1, <2>2, <2>3
  <2>4. CASE a = r1 /\ b = r1
    <3>1. Times(s, r1, r1) = 0
      BY <1>2, NotItsOwn
    <3>2. <<a, b>> \notin M
      BY <2>1, <2>4
    <3>3. QED
      BY <2>2, <2>4, <3>1, <3>2
  <2>5. CASE a # r1 /\ b = r1
    <3>1. Times(s, a, r1) > 0 => <<a, r1>> \in N \/ <<a, r2>> \in N
      BY <1>7, <1>8, <2>5
    <3>2. Unflagged(t, a) => Unflagged(rs, a) /\ "fragmented" \notin s[a].flags
      BY <1>5 DEF Unflagged
    <3>3. <<a, r1>> \in N \/ <<a, r2>> \in N => (Unflagged(t, a) => Times(s, a, r1) > 0)
      BY <1>7, <1>8, <2>5, <3>2
    <3>4. QED
      BY <2>1, <2>2, <2>5, <3>1, <3>3
  <2>6. CASE a = r1 /\ b # r1
    <3>1. Times(s, r1, b) = Times(s, b, r1)
      BY <1>7
    <3>2. /\ Times(rs, r1, b) = Times(rs, b, r1) /\ Times(rs, r2, b) = Times(rs, b, r2)
          /\ Times(rs, r1, b) > 0 => <<r1, b>> \in N
          /\ Times(rs, r2, b) > 0 => <<r2, b>> \in N
          /\ <<r1, b>> \in N /\ Unflagged(rs, r1) => Times(rs, r1, b) > 0
          /\ <<r2, b>> \in N /\ Unflagged(rs, r2) => Times(rs, r2, b) > 0
      BY <1>7
    <3>3. /\ Times(s, b, r1) > 0 => Times(rs, b, r1) > 0 \/ Times(rs, b, r2) > 0
          /\ Times(rs, b, r1) > 0 \/ Times(rs, b, r2) > 0 =>
               Times(s, b, r1) > 0 \/ "saturated" \in s[r1].flags
      BY <1>8, <2>6
    <3>4. <<a, b>> \in M <=> <<r1, b>> \in N \/ <<r2, b>> \in N
      BY <2>1, <2>6
    <3>5. QED
      BY <1>6, <2>2, <2>6, <3>1, <3>2, <3>3, <3>4
  <2>7. QED
    BY <2>3, <2>4, <2>5, <2>6
<1>10. QED
  BY <1>4, <1>9 DEF Sound, Covers

LEMMA BoxedIsTyped ==
  ASSUME NEW a \in RegionRecord, NEW b \in RegionRecord
  PROVE  /\ Boxed(a, b) \in RegionRecord
         /\ Boxed(a, b).adjacent = a.adjacent /\ Boxed(a, b).flags = a.flags
         /\ Boxed(a, b).colour = a.colour
BY DEF Boxed, RegionRecord, Least, Largest

\* merge_regions() leaves the lists sound when the two do not touch.
LEMMA MergedIsSound ==
  ASSUME NEW D, D \subseteq Nat, NEW V, V \subseteq D, NEW N, NEW rs, Sound(rs, D, V, N),
         NEW r1 \in V, NEW r2 \in V, r1 # r2, <<r1, r1>> \notin N, <<r1, r2>> \notin N,
         NEW M, TouchFor(M, N, r1, r2, V)
  PROVE  Sound(Merged(rs, r1, r2), D, V \ {r2}, M)
<1> DEFINE s == Joined(rs, r1, r2)
           both == s[r1].flags \cup s[r2].flags
           a == [ s[r1] EXCEPT !.flags = both ]
           t == [ s EXCEPT ![r1] = Boxed(a, s[r2]) ]
<1>1. rs \in [ D -> RegionRecord ] /\ Lists(rs, V) /\ Covers(rs, V, N)
  BY DEF Sound
<1>2. Times(rs, r1, r2) = 0
  <2>1. Times(rs, r1, r2) \in Nat
    BY <1>1, ListOf
  <2>2. ~ (Times(rs, r1, r2) > 0)
    BY <1>1 DEF Covers
  <2>3. QED
    BY <2>1, <2>2
<1>3. IsJoined(s, rs, r1, r2, D, V)
  BY <1>1, <1>2, JoinedJoins
<1>4. r1 \in D /\ r2 \in D
  OBVIOUS
<1>5. Merged(rs, r1, r2) = t
  BY DEF Merged
<1> HIDE DEF s
<1>6. s \in [ D -> RegionRecord ]
  BY <1>3 DEF IsJoined
<1>7. s[r1] \in RegionRecord /\ s[r2] \in RegionRecord
  BY <1>4, <1>6
<1>8. both \in SUBSET {"root", "saturated", "fragmented"}
  BY <1>7 DEF RegionRecord
<1>9. a \in RegionRecord /\ a.flags = both /\ a.adjacent = s[r1].adjacent
  <2> HIDE DEF both
  <2>1. QED
    BY <1>7, <1>8 DEF RegionRecord
<1> HIDE DEF a
<1>10. /\ Boxed(a, s[r2]) \in RegionRecord
       /\ Boxed(a, s[r2]).adjacent = a.adjacent /\ Boxed(a, s[r2]).flags = a.flags
  BY <1>7, <1>9, BoxedIsTyped
<1>11. t \in [ D -> RegionRecord ] /\ t[r1] = Boxed(a, s[r2]) /\ \A q \in D : q # r1 => t[q] = s[q]
  BY <1>4, <1>6, <1>10
<1> HIDE DEF t
<1>12. \A q \in V : t[q].adjacent = s[q].adjacent
  BY <1>9, <1>10, <1>11
<1>13. \A q \in V : s[q].flags \subseteq t[q].flags
  BY <1>9, <1>10, <1>11
<1>14. s[r2].flags \subseteq t[r1].flags
  BY <1>9, <1>10, <1>11
<1>15. Sound(t, D, V \ {r2}, M)
  BY <1>3, <1>11, <1>12, <1>13, <1>14, JoinedIsSound
<1>16. QED
  BY <1>5, <1>15

-----------------------------------------------------------------------------
(* The references.                                                         *)

Reference == [ redirect : Nat, region : Nat ]

\* f[x] is where the redirects from x end: each takes the rank down.
Leads(f, rank, rr) ==
  /\ f \in [ DOMAIN rr -> DOMAIN rr ] /\ rank \in [ DOMAIN rr -> Nat ]
  /\ \A x \in DOMAIN rr :
       /\ rr[x].redirect \in DOMAIN rr
       /\ rr[x].redirect = x => f[x] = x
       /\ rr[x].redirect # x => f[x] = f[rr[x].redirect] /\ rank[rr[x].redirect] < rank[x]
       /\ rr[f[x]].redirect = f[x]

LEMMA ResolvedLeads ==
  ASSUME NEW f, NEW rank, Leads(f, rank, refs), NEW x \in DOMAIN refs
  PROVE  Resolved(x) = f[x]
<1> DEFINE Solves(g) ==
             g = [ r \in DOMAIN refs |-> IF refs[r].redirect = r THEN r ELSE g[refs[r].redirect] ]
           g == CHOOSE g : Solves(g)
<1>1. Resolved(x) = g[x]
  BY DEF Resolved
<1>2. Solves(f)
  <2>1. f = [ r \in DOMAIN refs |-> f[r] ]
    BY DEF Leads
  <2>2. \A r \in DOMAIN refs : f[r] = IF refs[r].redirect = r THEN r ELSE f[refs[r].redirect]
    BY DEF Leads
  <2>3. QED
    BY <2>1, <2>2
<1>3. Solves(g)
  BY <1>2
<1> HIDE DEF g
<1>4. \A r \in DOMAIN refs : g[r] = IF refs[r].redirect = r THEN r ELSE g[refs[r].redirect]
  BY <1>3
<1> HIDE DEF Solves
<1> DEFINE Wrong == { r \in DOMAIN refs : g[r] # f[r] }
           Ranks == { rank[r] : r \in Wrong }
<1>5. Wrong = {}
  <2> SUFFICES ASSUME Wrong # {} PROVE FALSE
    OBVIOUS
  <2>1. Ranks \subseteq Nat /\ Ranks # {}
    BY DEF Leads
  <2> HIDE DEF Ranks
  <2>2. PICK k \in Ranks : \A l \in Ranks : k <= l
    BY <2>1, Saturating!LeastNumber
  <2>3. PICK r \in Wrong : rank[r] = k
    BY DEF Ranks
  <2>4. refs[r].redirect # r
    BY <1>4 DEF Leads
  <2>5. /\ f[r] = f[refs[r].redirect] /\ g[r] = g[refs[r].redirect]
        /\ refs[r].redirect \in DOMAIN refs /\ rank[refs[r].redirect] < rank[r]
        /\ rank[refs[r].redirect] \in Nat /\ rank[r] \in Nat
    BY <1>4, <2>4 DEF Leads
  <2>6. refs[r].redirect \in Wrong
    BY <2>5
  <2>7. k <= rank[refs[r].redirect]
    BY <2>2, <2>6 DEF Ranks
  <2>8. QED
    BY <2>3, <2>5, <2>7
<1>6. QED
  BY <1>1, <1>5

\* The west reference is redirected to the north one.
Redirected(rr, w, n) == [ rr EXCEPT ![w] = [ redirect |-> n, region |-> 0 ] ]

MergedEnds(f, rr, w, n) == [ x \in DOMAIN rr |-> IF f[x] = w THEN n ELSE f[x] ]

MergedRank(f, rank, rr, w, n) ==
  [ x \in DOMAIN rr |-> IF f[x] = w THEN rank[x] + rank[n] + 1 ELSE rank[x] ]

LEMMA MergedLeads ==
  ASSUME NEW f, NEW rank, NEW rr \in Seq(Reference), Leads(f, rank, rr),
         NEW w \in DOMAIN rr, NEW n \in DOMAIN rr, w # n,
         rr[w].redirect = w, rr[n].redirect = n
  PROVE  Leads(MergedEnds(f, rr, w, n), MergedRank(f, rank, rr, w, n), Redirected(rr, w, n))
<1> DEFINE S == DOMAIN rr
           f1 == MergedEnds(f, rr, w, n)
           rank1 == MergedRank(f, rank, rr, w, n)
           rr1 == Redirected(rr, w, n)
<1> USE DEF MergedEnds, MergedRank, Redirected
<1>1. DOMAIN rr1 = S /\ rr1[w].redirect = n /\ \A x \in S : x # w => rr1[x] = rr[x]
  <2>1. rr \in [ 1 .. Len(rr) -> Reference ]
    BY LenProperties
  <2>2. rr \in [ S -> Reference ]
    BY <2>1
  <2> HIDE DEF S
  <2>3. w \in S
    BY DEF S
  <2>4. QED
    BY <2>2, <2>3
<1>2. f[w] = w /\ f[n] = n
  BY DEF Leads
<1>3. f1 \in [ S -> S ]
  BY DEF Leads
<1>4. rank1 \in [ S -> Nat ]
  <2>4. rank1 = [ x \in S |-> IF f[x] = w THEN rank[x] + rank[n] + 1 ELSE rank[x] ]
    OBVIOUS
  <2>1. \A x \in S : rank[x] \in Nat
    BY DEF Leads
  <2>2. rank[n] \in Nat
    BY <2>1
  <2>5. n \in S
    OBVIOUS
  <2> HIDE DEF S, rank1
  <2>6. \A x \in S : rank[x] + rank[n] + 1 \in Nat
    BY <2>1, <2>2
  <2>3. QED
    BY <2>1, <2>4, <2>6
<1> HIDE DEF rr1
<1>5. ASSUME NEW x \in S
      PROVE  /\ rr1[x].redirect \in S
             /\ rr1[x].redirect = x => f1[x] = x
             /\ rr1[x].redirect # x => f1[x] = f1[rr1[x].redirect] /\ rank1[rr1[x].redirect] < rank1[x]
             /\ rr1[f1[x]].redirect = f1[x]
  <2>1. rr1[f1[x]].redirect = f1[x]
    <3>1. f[x] \in S /\ rr[f[x]].redirect = f[x]
      BY DEF Leads
    <3>2. QED
      BY <1>1, <3>1
  <2>2. CASE x = w
    <3>1. rank1[n] = rank[n] /\ rank1[w] = rank[w] + rank[n] + 1 /\ rank[n] \in Nat /\ rank[w] \in Nat
      BY <1>2 DEF Leads
    <3>2. f1[w] = n /\ f1[n] = n
      BY <1>2
    <3>3. QED
      BY <1>1, <2>1, <2>2, <3>1, <3>2
  <2>3. CASE x # w
    <3> DEFINE y == rr[x].redirect
    <3>1. rr1[x].redirect = y /\ y \in S
      BY <1>1, <2>3 DEF Leads
    <3>2. CASE y = x
      <4>1. f1[x] = x
        BY <2>3, <3>2 DEF Leads
      <4>2. QED
        BY <2>1, <3>1, <3>2, <4>1
    <3>3. CASE y # x
      <4>1. f[x] = f[y] /\ rank[y] < rank[x] /\ rank[y] \in Nat /\ rank[x] \in Nat /\ rank[n] \in Nat
        BY <3>1, <3>3 DEF Leads
      <4> HIDE DEF y
      <4>2. f1[x] = f1[y] /\ rank1[y] < rank1[x]
        BY <3>1, <4>1
      <4>3. QED
        BY <2>1, <3>1, <3>3, <4>2
    <3>4. QED
      BY <3>2, <3>3
  <2>4. QED
    BY <2>2, <2>3
<1>6. Leads(f1, rank1, rr1)
  <2> HIDE DEF f1, rank1
  <2>1. QED
    BY <1>1, <1>3, <1>4, <1>5 DEF Leads
<1>7. QED
  BY <1>6 DEF rr1

\* A new reference is its own end.
LEMMA NewLeads ==
  ASSUME NEW f, NEW rank, NEW rr \in Seq(Reference), Leads(f, rank, rr), NEW r \in Nat
  PROVE  LET ref == Len(rr) + 1
         IN  Leads([ x \in 1 .. ref |-> IF x = ref THEN ref ELSE f[x] ],
                   [ x \in 1 .. ref |-> IF x = ref THEN 0 ELSE rank[x] ],
                   Append(rr, [ redirect |-> ref, region |-> r ]))
<1> DEFINE ref == Len(rr) + 1
           S == 1 .. ref
           f1 == [ x \in S |-> IF x = ref THEN ref ELSE f[x] ]
           rank1 == [ x \in S |-> IF x = ref THEN 0 ELSE rank[x] ]
           rr1 == Append(rr, [ redirect |-> ref, region |-> r ])
<1>1. Len(rr) \in Nat /\ DOMAIN rr = 1 .. Len(rr)
  BY LenProperties
<1>2. /\ DOMAIN rr1 = S /\ rr1[ref].redirect = ref
      /\ \A x \in 1 .. Len(rr) : rr1[x] = rr[x]
  <2>1. [ redirect |-> ref, region |-> r ] \in Reference
    BY <1>1 DEF Reference
  <2>2. /\ rr1 \in Seq(Reference) /\ Len(rr1) = Len(rr) + 1
        /\ \A x \in 1 .. Len(rr) : rr1[x] = rr[x]
        /\ rr1[Len(rr) + 1] = [ redirect |-> ref, region |-> r ]
    BY <2>1, AppendProperties
  <2>3. DOMAIN rr1 = 1 .. Len(rr1)
    BY <2>2, LenProperties
  <2>4. QED
    BY <2>2, <2>3
<1>3. S = (1 .. Len(rr)) \cup {ref} /\ ref \notin 1 .. Len(rr)
  BY <1>1
<1>4. f1 \in [ S -> S ]
  <2>1. \A x \in 1 .. Len(rr) : f[x] \in 1 .. Len(rr)
    BY <1>1 DEF Leads
  <2>2. QED
    BY <1>3, <2>1
<1>5. rank1 \in [ S -> Nat ]
  <2>1. \A x \in 1 .. Len(rr) : rank[x] \in Nat
    BY <1>1 DEF Leads
  <2>2. QED
    BY <1>3, <2>1
<1> HIDE DEF rr1, S
<1>6. ASSUME NEW x \in S
      PROVE  /\ rr1[x].redirect \in S
             /\ rr1[x].redirect = x => f1[x] = x
             /\ rr1[x].redirect # x => f1[x] = f1[rr1[x].redirect] /\ rank1[rr1[x].redirect] < rank1[x]
             /\ rr1[f1[x]].redirect = f1[x]
  <2>1. CASE x = ref
    BY <1>2, <1>3, <2>1
  <2>2. CASE x # ref
    <3>1. x \in 1 .. Len(rr) /\ x \in DOMAIN rr /\ rr1[x] = rr[x]
      BY <1>1, <1>2, <1>3, <2>2
    <3> DEFINE y == rr[x].redirect
    <3>2. /\ y \in DOMAIN rr /\ f[x] \in DOMAIN rr
          /\ y = x => f[x] = x
          /\ y # x => f[x] = f[y] /\ rank[y] < rank[x]
          /\ rr[f[x]].redirect = f[x]
      BY <3>1 DEF Leads
    <3>3. /\ y \in S /\ f[x] \in S /\ y # ref /\ f[x] # ref
          /\ f1[x] = f[x] /\ f1[y] = f[y] /\ rank1[x] = rank[x] /\ rank1[y] = rank[y]
          /\ rr1[f[x]] = rr[f[x]]
      BY <1>1, <1>2, <1>3, <2>2, <3>1, <3>2
    <3> HIDE DEF f1, rank1
    <3>4. QED
      BY <3>1, <3>2, <3>3
  <2>3. QED
    BY <2>1, <2>2
<1>7. Leads(f1, rank1, rr1)
  BY <1>2, <1>4, <1>5, <1>6 DEF Leads
<1>8. QED
  BY <1>7 DEF S, rr1

-----------------------------------------------------------------------------
(* The places of the pixels.                                               *)

LEMMA DividedBy ==
  ASSUME NEW k \in Nat
  PROVE  /\ k % Width \in 0 .. Width - 1 /\ k \div Width \in Nat
         /\ k = Width * (k \div Width) + (k % Width)
BY ImageAssumption

LEMMA OnePlace ==
  ASSUME NEW a \in Nat, NEW x \in 0 .. Width - 1, NEW b \in Nat, NEW y \in 0 .. Width - 1,
         Width * a + x = Width * b + y
  PROVE  a = b /\ x = y
<1>1. Width \in Nat /\ Width > 0
  BY ImageAssumption
<1>2. ASSUME NEW c \in Nat, NEW d \in Nat, c < d PROVE Width * c + Width <= Width * d
  <2>1. PICK e \in Nat : d = c + 1 + e
    <3>1. d - c - 1 \in Nat /\ d = c + 1 + (d - c - 1)
      BY <1>2
    <3>2. QED
      BY <3>1
  <2>2. Width * d = Width * c + Width + Width * e /\ Width * e \in Nat /\ Width * c \in Nat
    BY <1>1, <2>1
  <2>3. QED
    BY <1>1, <2>2
<1>3. Width * a \in Nat /\ Width * b \in Nat
  BY <1>1
<1>4. ~ (a < b)
  BY <1>1, <1>2, <1>3
<1>5. ~ (b < a)
  BY <1>1, <1>2, <1>3
<1>6. a = b
  BY <1>4, <1>5
<1>7. QED
  BY <1>3, <1>6

LEMMA PlaceOf ==
  ASSUME NEW i \in Nat \ {0}
  PROVE  X(i) \in 0 .. Width - 1 /\ Y(i) \in Nat /\ i - 1 = Width * Y(i) + X(i)
<1>1. i - 1 \in Nat
  OBVIOUS
<1>2. QED
  BY <1>1, DividedBy DEF X, Y

LEMMA PlaceIs ==
  ASSUME NEW i \in Nat \ {0}, NEW y \in Nat, NEW x \in 0 .. Width - 1, i - 1 = Width * y + x
  PROVE  X(i) = x /\ Y(i) = y
<1>1. X(i) \in 0 .. Width - 1 /\ Y(i) \in Nat /\ i - 1 = Width * Y(i) + X(i)
  BY PlaceOf
<1>2. Width * Y(i) + X(i) = Width * y + x
  BY <1>1
<1>3. QED
  BY <1>1, <1>2, OnePlace

\* The pixel to the left, and the one above.
LEMMA WestIs ==
  ASSUME NEW i \in Nat \ {0}, X(i) > 0
  PROVE  i - 1 \in Nat \ {0} /\ X(i - 1) = X(i) - 1 /\ Y(i - 1) = Y(i)
<1>1. X(i) \in 0 .. Width - 1 /\ Y(i) \in Nat /\ i - 1 = Width * Y(i) + X(i)
  BY PlaceOf
<1>2. Width * Y(i) \in Nat /\ Width \in Nat
  BY <1>1, ImageAssumption
<1>3. i - 1 \in Nat \ {0}
  BY <1>1, <1>2
<1>4. X(i) - 1 \in 0 .. Width - 1 /\ (i - 1) - 1 = Width * Y(i) + (X(i) - 1)
  BY <1>1, <1>2
<1>5. QED
  BY <1>1, <1>3, <1>4, PlaceIs

LEMMA NorthIs ==
  ASSUME NEW i \in Nat \ {0}
  PROVE  /\ Y(i) > 0 <=> i - Width \in Nat \ {0}
         /\ Y(i) > 0 => X(i - Width) = X(i) /\ Y(i - Width) = Y(i) - 1
<1>1. X(i) \in 0 .. Width - 1 /\ Y(i) \in Nat /\ i - 1 = Width * Y(i) + X(i)
  BY PlaceOf
<1>2. Width \in Nat
  BY ImageAssumption
<1>3. ASSUME Y(i) > 0
      PROVE  i - Width \in Nat \ {0} /\ X(i - Width) = X(i) /\ Y(i - Width) = Y(i) - 1
  <2>1. Y(i) - 1 \in Nat /\ Width * Y(i) = Width * (Y(i) - 1) + Width /\ Width * (Y(i) - 1) \in Nat
    BY <1>1, <1>2, <1>3
  <2>2. (i - Width) - 1 = Width * (Y(i) - 1) + X(i)
    BY <1>1, <1>2, <2>1
  <2>3. i - Width \in Nat \ {0}
    BY <1>1, <1>2, <2>1, <2>2
  <2>4. QED
    BY <1>1, <2>1, <2>2, <2>3, PlaceIs
<1>4. ASSUME i - Width \in Nat \ {0} PROVE Y(i) > 0
  <2>1. Y(i) = 0 => Width * Y(i) = 0
    BY <1>2
  <2>2. Y(i) # 0
    BY <1>1, <1>2, <1>4, <2>1
  <2>3. QED
    BY <1>1, <2>2
<1>5. QED
  BY <1>3, <1>4

LEMMA TouchIsSymmetric ==
  ASSUME NEW i, NEW j
  PROVE  Touch(i, j) <=> Touch(j, i)
BY DEF Touch

\* Of the pixels read so far the next one touches those two.
LEMMA TouchesHere ==
  ASSUME NEW n \in Nat, NEW j \in 1 .. n
  PROVE  LET h == n + 1
         IN  Touch(h, j) <=> (j = h - 1 /\ X(h) > 0) \/ (j = h - Width /\ Y(h) > 0)
<1> DEFINE h == n + 1
<1>1. h \in Nat \ {0} /\ j \in Nat \ {0} /\ j < h
  OBVIOUS
<1> HIDE DEF h
<1>2. Width \in Nat /\ Width > 0
  BY ImageAssumption
<1>3. /\ X(h) \in 0 .. Width - 1 /\ Y(h) \in Nat /\ h - 1 = Width * Y(h) + X(h)
      /\ X(j) \in 0 .. Width - 1 /\ Y(j) \in Nat /\ j - 1 = Width * Y(j) + X(j)
  BY <1>1, PlaceOf
<1>4. Width * Y(h) \in Nat /\ Width * Y(j) \in Nat
  BY <1>2, <1>3
<1>5. ASSUME Touch(h, j) PROVE (j = h - 1 /\ X(h) > 0) \/ (j = h - Width /\ Y(h) > 0)
  <2>1. CASE Y(h) = Y(j) /\ X(h) = X(j) + 1
    BY <1>1, <1>3, <1>4, <2>1
  <2>2. CASE Y(h) = Y(j) /\ X(j) = X(h) + 1
    <3>1. Width * Y(h) = Width * Y(j)
      BY <2>2
    <3>2. j - 1 = (h - 1) + 1
      BY <1>3, <1>4, <2>2, <3>1
    <3>3. QED
      BY <1>1, <3>2
  <2>3. CASE h = j + Width
    <3>1. h - Width = j
      BY <1>1, <1>2, <2>3
    <3>2. Y(h) > 0
      BY <1>1, <3>1, NorthIs
    <3>3. QED
      BY <3>1, <3>2
  <2>4. CASE j = h + Width
    BY <1>1, <1>2, <2>4
  <2>5. QED
    BY <1>5, <2>1, <2>2, <2>3, <2>4 DEF Touch
<1>6. ASSUME j = h - 1, X(h) > 0 PROVE Touch(h, j)
  <2>1. X(j) = X(h) - 1 /\ Y(j) = Y(h)
    BY <1>1, <1>6, WestIs
  <2>2. QED
    BY <1>3, <2>1 DEF Touch
<1>7. ASSUME j = h - Width PROVE Touch(h, j)
  <2>1. h = j + Width
    BY <1>1, <1>2, <1>7
  <2>2. QED
    BY <2>1 DEF Touch
<1>8. QED
  BY <1>5, <1>6, <1>7 DEF h

\* The one above the pixel to the left touches it and the one above.
LEMMA CornerTouches ==
  ASSUME NEW h \in Nat \ {0}, X(h) > 0, Y(h) > 0
  PROVE  LET corner == h - Width - 1
         IN  /\ corner \in Nat \ {0} /\ h - 1 \in Nat \ {0} /\ h - Width \in Nat \ {0}
             /\ Touch(h - 1, corner) /\ Touch(corner, h - Width)
<1>1. Width \in Nat
  BY ImageAssumption
<1>2. h - 1 \in Nat \ {0}
  BY WestIs
<1>3. h - Width \in Nat \ {0} /\ X(h - Width) = X(h)
  BY NorthIs
<1>4. /\ (h - Width) - 1 \in Nat \ {0}
      /\ X((h - Width) - 1) = X(h - Width) - 1 /\ Y((h - Width) - 1) = Y(h - Width)
  BY <1>3, WestIs
<1>5. X(h) \in Int /\ (h - Width) - 1 = h - Width - 1 /\ h - 1 = (h - Width - 1) + Width
  BY <1>1, PlaceOf
<1>6. X(h - Width) = X(h - Width - 1) + 1 /\ Y(h - Width) = Y(h - Width - 1)
  BY <1>3, <1>4, <1>5
<1>7. QED
  BY <1>2, <1>3, <1>4, <1>5, <1>6 DEF Touch

-----------------------------------------------------------------------------
(* Which regions touch: m is the region of each pixel, im its colour.      *)

Bordering(m, a, b) ==
  a # b /\ \E i, j \in 1 .. Len(m) : Touch(i, j) /\ m[i] = a /\ m[j] = b

Borders(m) == { p \in Nat \X Nat : Bordering(m, p[1], p[2]) }

\* A region has one colour, and pixels of one colour that touch one region.
Coloured(im, m) ==
  \A i, j \in 1 .. Len(m) :
    /\ m[i] = m[j] => im[i] = im[j]
    /\ Touch(i, j) /\ im[i] = im[j] => m[i] = m[j]

LEMMA BordersAre ==
  ASSUME NEW m, NEW a \in Nat, NEW b \in Nat
  PROVE  <<a, b>> \in Borders(m) <=> Bordering(m, a, b)
BY DEF Borders

LEMMA BorderingIsMutual ==
  ASSUME NEW m, NEW a, NEW b, Bordering(m, a, b)
  PROVE  Bordering(m, b, a)
BY TouchIsSymmetric DEF Bordering

LEMMA OneMore ==
  ASSUME NEW S, NEW m \in Seq(S), NEW v \in S
  PROVE  /\ Append(m, v) \in Seq(S) /\ Len(m) \in Nat /\ Len(Append(m, v)) = Len(m) + 1
         /\ DOMAIN m = 1 .. Len(m)
         /\ Append(m, v)[Len(m) + 1] = v
         /\ \A i \in 1 .. Len(m) : i # Len(m) + 1 /\ Append(m, v)[i] = m[i] /\ m[i] \in S
         /\ 1 .. Len(m) + 1 = (1 .. Len(m)) \cup {Len(m) + 1}
<1>1. Len(m) \in Nat /\ DOMAIN m = 1 .. Len(m) /\ m \in [ 1 .. Len(m) -> S ]
  BY LenProperties
<1>2. /\ Append(m, v) \in Seq(S) /\ Len(Append(m, v)) = Len(m) + 1
      /\ \A i \in 1 .. Len(m) : Append(m, v)[i] = m[i]
      /\ Append(m, v)[Len(m) + 1] = v
  BY AppendProperties
<1>3. /\ 1 .. Len(m) + 1 = (1 .. Len(m)) \cup {Len(m) + 1}
      /\ \A i \in 1 .. Len(m) : i # Len(m) + 1
  BY <1>1
<1>4. QED
  BY <1>1, <1>2, <1>3

\* A pixel does not touch itself.
LEMMA TouchesOther ==
  ASSUME NEW i \in Nat \ {0}
  PROVE  ~ Touch(i, i)
<1>1. X(i) \in Int /\ Width \in Nat \ {0}
  BY PlaceOf, ImageAssumption
<1>2. QED
  BY <1>1 DEF Touch

LEMMA MoreBorders ==
  ASSUME NEW m \in Seq(Nat), NEW v \in Nat, NEW a, NEW b
  PROVE  Bordering(Append(m, v), a, b) <=>
           \/ Bordering(m, a, b)
           \/ /\ a # b
              /\ \E j \in 1 .. Len(m) :
                   Touch(Len(m) + 1, j) /\ ((a = v /\ b = m[j]) \/ (b = v /\ a = m[j]))
<1> DEFINE n == Len(m)
           more == Append(m, v)
<1>1. /\ n \in Nat /\ Len(more) = n + 1 /\ more[n + 1] = v
      /\ \A i \in 1 .. n : i # n + 1 /\ more[i] = m[i]
      /\ 1 .. n + 1 = (1 .. n) \cup {n + 1}
  BY OneMore
<1>2. ~ Touch(n + 1, n + 1)
  BY <1>1, TouchesOther
<1> HIDE DEF n, more
<1>3. ASSUME NEW i \in 1 .. n + 1, NEW j \in 1 .. n + 1, Touch(i, j), more[i] = a, more[j] = b, a # b
      PROVE  \/ \E k, l \in 1 .. n : Touch(k, l) /\ m[k] = a /\ m[l] = b
             \/ \E k \in 1 .. n : Touch(n + 1, k) /\ ((a = v /\ b = m[k]) \/ (b = v /\ a = m[k]))
  <2>1. CASE i \in 1 .. n /\ j \in 1 .. n
    BY <1>1, <1>3, <2>1
  <2>2. CASE i = n + 1 /\ j \in 1 .. n
    BY <1>1, <1>3, <2>2
  <2>3. CASE j = n + 1 /\ i \in 1 .. n
    BY <1>1, <1>3, <2>3, TouchIsSymmetric
  <2>4. CASE i = n + 1 /\ j = n + 1
    BY <1>2, <1>3, <2>4
  <2>5. QED
    BY <1>1, <2>1, <2>2, <2>3, <2>4
<1>4. ASSUME NEW i \in 1 .. n, NEW j \in 1 .. n, Touch(i, j), m[i] = a, m[j] = b, a # b
      PROVE  Bordering(more, a, b)
  BY <1>1, <1>4 DEF Bordering
<1>5. ASSUME NEW k \in 1 .. n, Touch(n + 1, k), (a = v /\ b = m[k]) \/ (b = v /\ a = m[k]), a # b
      PROVE  Bordering(more, a, b)
  <2>1. Touch(k, n + 1) /\ n + 1 \in 1 .. n + 1 /\ k \in 1 .. n + 1
    BY <1>1, <1>5, TouchIsSymmetric
  <2>2. QED
    BY <1>1, <1>5, <2>1 DEF Bordering
<1>6. Bordering(more, a, b) =>
        a # b /\ \E i, j \in 1 .. n + 1 : Touch(i, j) /\ more[i] = a /\ more[j] = b
  BY <1>1 DEF Bordering
<1>7. QED
  BY <1>3, <1>4, <1>5, <1>6 DEF Bordering, n, more

\* A pixel whose neighbours are of its region, or of one that touches it
\* already, moves no border.
LEMMA SameBorders ==
  ASSUME NEW m \in Seq(Nat), NEW v \in Nat,
         \A j \in 1 .. Len(m) : Touch(Len(m) + 1, j) => m[j] = v \/ Bordering(m, v, m[j])
  PROVE  Borders(Append(m, v)) = Borders(m)
<1>1. ASSUME NEW a, NEW b PROVE Bordering(Append(m, v), a, b) <=> Bordering(m, a, b)
  <2>1. ASSUME NEW j \in 1 .. Len(m), Touch(Len(m) + 1, j), a # b,
               (a = v /\ b = m[j]) \/ (b = v /\ a = m[j])
        PROVE  Bordering(m, a, b)
    BY <2>1, BorderingIsMutual
  <2>2. QED
    BY <2>1, MoreBorders
<1>2. QED
  BY <1>1 DEF Borders

\* What the neighbours of a pixel are if both are there and differ: the one
\* between them is like one of them.
LEMMA CornerBorders ==
  ASSUME NEW m \in Seq(Nat), NEW im \in Seq({Black, White}), Len(im) = Len(m), Coloured(im, m),
         NEW h, h = Len(m) + 1, X(h) > 0, Y(h) > 0, im[h - 1] # im[h - Width]
  PROVE  Bordering(m, m[h - 1], m[h - Width])
<1> DEFINE n == Len(m)
           west == h - 1
           north == h - Width
           corner == h - Width - 1
<1>1. n \in Nat /\ h \in Nat \ {0}
  BY LenProperties
<1>2. X(h) > 0 /\ Y(h) > 0
  OBVIOUS
<1>3. /\ corner \in Nat \ {0} /\ west \in Nat \ {0} /\ north \in Nat \ {0}
      /\ Touch(west, corner) /\ Touch(corner, north)
  BY <1>1, <1>2, CornerTouches
<1>4. west \in 1 .. n /\ north \in 1 .. n /\ corner \in 1 .. n
  BY <1>1, <1>3, ImageAssumption
<1>5. im[west] # im[north]
  OBVIOUS
<1>6. im[west] \in {Black, White} /\ im[north] \in {Black, White} /\ im[corner] \in {Black, White}
  BY <1>4, ElementOfSeq
<1> HIDE DEF west, north, corner, n
<1>7. im[corner] = im[west] \/ im[corner] = im[north]
  BY <1>5, <1>6
<1>8. /\ m[west] # m[north]
      /\ im[corner] = im[west] => m[corner] = m[west]
      /\ im[corner] = im[north] => m[corner] = m[north]
  BY <1>3, <1>4, <1>5 DEF Coloured, n
<1>9. Bordering(m, m[west], m[north])
  BY <1>3, <1>4, <1>7, <1>8 DEF Bordering, n
<1>10. QED
  BY <1>9 DEF west, north

\* A pixel in the region of the ones like it that it touches.
LEMMA ColouredMore ==
  ASSUME NEW m \in Seq(Nat), NEW im \in Seq({Black, White}), Len(im) = Len(m), Coloured(im, m),
         NEW colour \in {Black, White}, NEW v \in Nat,
         \A j \in 1 .. Len(m) : m[j] = v => im[j] = colour,
         \A j \in 1 .. Len(m) : Touch(Len(m) + 1, j) /\ im[j] = colour => m[j] = v
  PROVE  Coloured(Append(im, colour), Append(m, v))
<1> DEFINE n == Len(m)
           more == Append(m, v)
           im1 == Append(im, colour)
<1>1. /\ n \in Nat /\ Len(more) = n + 1 /\ more[n + 1] = v
      /\ \A i \in 1 .. n : i # n + 1 /\ more[i] = m[i]
      /\ 1 .. n + 1 = (1 .. n) \cup {n + 1}
  BY OneMore
<1>2. im1[n + 1] = colour /\ \A i \in 1 .. n : im1[i] = im[i]
  BY OneMore
<1>3. \A j \in 1 .. n : /\ m[j] = v => im[j] = colour
                        /\ Touch(n + 1, j) /\ im[j] = colour => m[j] = v
  OBVIOUS
<1>4. \A i, j \in 1 .. n : /\ m[i] = m[j] => im[i] = im[j]
                           /\ Touch(i, j) /\ im[i] = im[j] => m[i] = m[j]
  BY DEF Coloured
<1> HIDE DEF n, more, im1
<1>5. ASSUME NEW i \in 1 .. n + 1, NEW j \in 1 .. n + 1
      PROVE  /\ more[i] = more[j] => im1[i] = im1[j]
             /\ Touch(i, j) /\ im1[i] = im1[j] => more[i] = more[j]
  <2>1. CASE i \in 1 .. n /\ j \in 1 .. n
    BY <1>1, <1>2, <1>4, <2>1
  <2>2. CASE i = n + 1 /\ j \in 1 .. n
    BY <1>1, <1>2, <1>3, <2>2
  <2>3. CASE j = n + 1 /\ i \in 1 .. n
    BY <1>1, <1>2, <1>3, <2>3, TouchIsSymmetric
  <2>4. CASE i = n + 1 /\ j = n + 1
    BY <2>4
  <2>5. QED
    BY <1>1, <2>1, <2>2, <2>3, <2>4
<1>6. Coloured(im1, more)
  BY <1>1, <1>5 DEF Coloured
<1>7. QED
  BY <1>6 DEF im1, more

-----------------------------------------------------------------------------
(* Region r2 becomes r1.                                                   *)

Renamed(m, r1, r2) == [ i \in DOMAIN m |-> IF m[i] = r2 THEN r1 ELSE m[i] ]

LEMMA RenamedIs ==
  ASSUME NEW m \in Seq(Nat), NEW r1 \in Nat, NEW r2
  PROVE  /\ Renamed(m, r1, r2) \in Seq(Nat) /\ Len(Renamed(m, r1, r2)) = Len(m)
         /\ \A i \in 1 .. Len(m) : Renamed(m, r1, r2)[i] = IF m[i] = r2 THEN r1 ELSE m[i]
<1> DEFINE n == Len(m)
           s == Renamed(m, r1, r2)
<1>1. n \in Nat /\ DOMAIN m = 1 .. n /\ \A i \in 1 .. n : m[i] \in Nat
  BY OneMore
<1> HIDE DEF n
<1>2. s = [ i \in 1 .. n |-> IF m[i] = r2 THEN r1 ELSE m[i] ]
  BY <1>1 DEF Renamed
<1>3. s \in [ 1 .. n -> Nat ]
  BY <1>1, <1>2
<1>4. s \in Seq(Nat) /\ Len(s) = n
  <2> HIDE DEF s
  <2>1. s \in Seq(Nat)
    BY <1>1, <1>3, SeqDef
  <2>2. DOMAIN s = 1 .. n
    BY <1>3
  <2>3. QED
    BY <1>1, <2>1, <2>2, LenProperties
<1>5. QED
  BY <1>2, <1>4 DEF n

LEMMA RenamedColours ==
  ASSUME NEW m \in Seq(Nat), NEW im, Coloured(im, m), NEW r1 \in Nat, NEW r2, NEW colour,
         \A j \in 1 .. Len(m) : m[j] = r1 \/ m[j] = r2 => im[j] = colour
  PROVE  Coloured(im, Renamed(m, r1, r2))
<1> DEFINE n == Len(m)
           s == Renamed(m, r1, r2)
<1>1. Len(s) = n /\ \A i \in 1 .. n : s[i] = IF m[i] = r2 THEN r1 ELSE m[i]
  BY RenamedIs
<1>2. \A i, j \in 1 .. n : /\ m[i] = m[j] => im[i] = im[j]
                           /\ Touch(i, j) /\ im[i] = im[j] => m[i] = m[j]
                           /\ m[j] = r1 \/ m[j] = r2 => im[j] = colour
  BY DEF Coloured
<1> HIDE DEF n, s
<1>3. \A i, j \in 1 .. n : /\ s[i] = s[j] => im[i] = im[j]
                           /\ Touch(i, j) /\ im[i] = im[j] => s[i] = s[j]
  BY <1>1, <1>2
<1>4. Coloured(im, s)
  BY <1>1, <1>3 DEF Coloured
<1>5. QED
  BY <1>4 DEF s

LEMMA RenamedBorders ==
  ASSUME NEW m \in Seq(Nat), NEW V, V \subseteq Nat, NEW r1 \in V, NEW r2 \in V, r1 # r2
  PROVE  TouchFor(Borders(Renamed(m, r1, r2)), Borders(m), r1, r2, V)
<1> DEFINE n == Len(m)
           s == Renamed(m, r1, r2)
<1>1. Len(s) = n /\ \A i \in 1 .. n : s[i] = IF m[i] = r2 THEN r1 ELSE m[i]
  BY RenamedIs
<1> HIDE DEF s
<1>2. ASSUME NEW a \in V \ {r2}, NEW b \in V \ {r2}
      PROVE  Bordering(s, a, b) <=> \/ Bordering(m, a, b)
                                    \/ a = r1 /\ b # r1 /\ Bordering(m, r2, b)
                                    \/ b = r1 /\ a # r1 /\ Bordering(m, a, r2)
  <2>1. ASSUME Bordering(s, a, b)
        PROVE  \/ Bordering(m, a, b)
               \/ a = r1 /\ b # r1 /\ Bordering(m, r2, b)
               \/ b = r1 /\ a # r1 /\ Bordering(m, a, r2)
    <3>1. PICK i \in 1 .. n, j \in 1 .. n : Touch(i, j) /\ s[i] = a /\ s[j] = b /\ a # b
      BY <1>1, <2>1 DEF Bordering
    <3>2. CASE m[i] = r2
      BY <1>1, <3>1, <3>2 DEF Bordering
    <3>3. CASE m[j] = r2
      BY <1>1, <3>1, <3>3 DEF Bordering
    <3>4. CASE m[i] # r2 /\ m[j] # r2
      BY <1>1, <3>1, <3>4 DEF Bordering
    <3>5. QED
      BY <3>2, <3>3, <3>4
  <2>2. ASSUME Bordering(m, a, b) PROVE Bordering(s, a, b)
    BY <1>1, <2>2 DEF Bordering
  <2>3. ASSUME a = r1, b # r1, Bordering(m, r2, b) PROVE Bordering(s, a, b)
    BY <1>1, <2>3 DEF Bordering
  <2>4. ASSUME b = r1, a # r1, Bordering(m, a, r2) PROVE Bordering(s, a, b)
    BY <1>1, <2>4 DEF Bordering
  <2>5. QED
    BY <2>1, <2>2, <2>3, <2>4
<1>3. \A a, b \in V : /\ <<a, b>> \in Borders(s) <=> Bordering(s, a, b)
                      /\ <<a, b>> \in Borders(m) <=> Bordering(m, a, b)
  BY BordersAre
<1>4. TouchFor(Borders(s), Borders(m), r1, r2, V)
  BY <1>2, <1>3 DEF TouchFor
<1>5. QED
  BY <1>4 DEF s

-----------------------------------------------------------------------------
(* The pixels, their references, and the regions m that these lead to.     *)

IsRoot(rr, x) == rr[x].redirect = x

Pointed(im, cc, rr, m) ==
  /\ im \in Seq({Black, White}) /\ cc \in Seq(Nat) /\ m \in Seq(Nat) /\ rr \in Seq(Reference)
  /\ Len(cc) = Len(im) /\ Len(m) = Len(im)
  /\ \A i \in 1 .. Len(im) : cc[i] \in DOMAIN rr
  /\ \E f, rank : Leads(f, rank, rr) /\ \A i \in 1 .. Len(im) : m[i] = rr[f[cc[i]]].region
  /\ \A x, y \in DOMAIN rr :
       IsRoot(rr, x) /\ IsRoot(rr, y) /\ rr[x].region = rr[y].region => x = y
  /\ \A x \in DOMAIN rr : IsRoot(rr, x) => \E i \in 1 .. Len(im) : m[i] = rr[x].region
  /\ Len(im) > 0 => IsRoot(rr, cc[Len(im)])

LEMMA PointedFrom ==
  ASSUME NEW im \in Seq({Black, White}), NEW cc \in Seq(Nat), NEW m \in Seq(Nat),
         NEW rr \in Seq(Reference), NEW n \in Nat, Len(im) = n, Len(cc) = n, Len(m) = n,
         NEW f, NEW rank, Leads(f, rank, rr),
         \A i \in 1 .. n : cc[i] \in DOMAIN rr /\ m[i] = rr[f[cc[i]]].region,
         \A x, y \in DOMAIN rr :
           IsRoot(rr, x) /\ IsRoot(rr, y) /\ rr[x].region = rr[y].region => x = y,
         \A x \in DOMAIN rr : IsRoot(rr, x) => \E i \in 1 .. n : m[i] = rr[x].region,
         IsRoot(rr, cc[n])
  PROVE  Pointed(im, cc, rr, m)
<1>1. \E g, rank1 : Leads(g, rank1, rr) /\ \A i \in 1 .. Len(im) : m[i] = rr[g[cc[i]]].region
  OBVIOUS
<1>2. QED
  BY <1>1, Zenon DEF Pointed

\* What the module calls the region of a pixel.
LEMMA PointedRegions ==
  ASSUME NEW m, Pointed(image, cells, refs, m)
  PROVE  RegionOf = m
<1>1. PICK f, rank : Leads(f, rank, refs) /\ \A i \in 1 .. Len(image) : m[i] = refs[f[cells[i]]].region
  BY DEF Pointed
<1>2. /\ DOMAIN image = 1 .. Len(image) /\ DOMAIN m = 1 .. Len(image)
      /\ \A i \in 1 .. Len(image) : cells[i] \in DOMAIN refs
      /\ m \in [ 1 .. Len(image) -> Nat ]
  BY LenProperties DEF Pointed
<1>3. \A i \in 1 .. Len(image) : Resolved(cells[i]) = f[cells[i]]
  BY <1>1, <1>2, ResolvedLeads
<1>4. \A i \in Pixels : RegionOf[i] = m[i]
  BY <1>1, <1>2, <1>3 DEF RegionOf, Pixels
<1>5. RegionOf = [ i \in 1 .. Len(image) |-> RegionOf[i] ]
  BY <1>2 DEF RegionOf, Pixels
<1>6. m = [ i \in 1 .. Len(image) |-> m[i] ]
  BY <1>2
<1>7. QED
  BY <1>2, <1>4, <1>5, <1>6 DEF Pixels

\* The root above a pixel holds the region of that pixel.
LEMMA PointedAbove ==
  ASSUME NEW m, Pointed(image, cells, refs, m), NEW j \in 1 .. Len(image)
  PROVE  LET x == Resolved(cells[j])
         IN  x \in DOMAIN refs /\ IsRoot(refs, x) /\ refs[x].region = m[j]
<1>1. PICK f, rank : Leads(f, rank, refs) /\ \A i \in 1 .. Len(image) : m[i] = refs[f[cells[i]]].region
  BY DEF Pointed
<1>2. cells[j] \in DOMAIN refs
  BY DEF Pointed
<1>3. Resolved(cells[j]) = f[cells[j]]
  BY <1>1, <1>2, ResolvedLeads
<1>4. QED
  BY <1>1, <1>2, <1>3 DEF Leads, IsRoot

\* The pixel before is of a root.
LEMMA PointedBefore ==
  ASSUME NEW m, Pointed(image, cells, refs, m), Len(image) > 0
  PROVE  LET x == cells[Len(image)]
         IN  x \in DOMAIN refs /\ IsRoot(refs, x) /\ refs[x].region = m[Len(image)]
<1>1. PICK f, rank : Leads(f, rank, refs) /\ \A i \in 1 .. Len(image) : m[i] = refs[f[cells[i]]].region
  BY DEF Pointed
<1>2. Len(image) \in 1 .. Len(image)
  BY LenProperties DEF Pointed
<1>3. cells[Len(image)] \in DOMAIN refs /\ IsRoot(refs, cells[Len(image)])
  BY <1>2 DEF Pointed
<1>4. f[cells[Len(image)]] = cells[Len(image)]
  BY <1>1, <1>3 DEF Leads, IsRoot
<1>5. QED
  BY <1>1, <1>2, <1>3, <1>4

\* One pixel more, of a root.
LEMMA PointedMore ==
  ASSUME NEW im, NEW cc, NEW rr, NEW m, Pointed(im, cc, rr, m), NEW colour \in {Black, White},
         NEW x \in DOMAIN rr, IsRoot(rr, x)
  PROVE  Pointed(Append(im, colour), Append(cc, x), rr, Append(m, rr[x].region))
<1> DEFINE n == Len(im)
           im1 == Append(im, colour)
           cc1 == Append(cc, x)
           v == rr[x].region
           m1 == Append(m, v)
<1>1. /\ im \in Seq({Black, White}) /\ cc \in Seq(Nat) /\ m \in Seq(Nat) /\ rr \in Seq(Reference)
      /\ Len(cc) = n /\ Len(m) = n
  BY DEF Pointed
<1>2. x \in Nat /\ v \in Nat
  <2>1. Len(rr) \in Nat /\ DOMAIN rr = 1 .. Len(rr)
    BY <1>1, LenProperties
  <2>2. rr[x] \in Reference
    BY <1>1, <2>1, ElementOfSeq
  <2>3. QED
    BY <2>1, <2>2 DEF Reference
<1> HIDE DEF v
<1>3. /\ n \in Nat /\ im1 \in Seq({Black, White}) /\ Len(im1) = n + 1
      /\ 1 .. n + 1 = (1 .. n) \cup {n + 1}
  BY <1>1, OneMore
<1>4. cc1 \in Seq(Nat) /\ Len(cc1) = n + 1 /\ cc1[n + 1] = x /\ \A i \in 1 .. n : cc1[i] = cc[i]
  BY <1>1, <1>2, OneMore
<1>5. m1 \in Seq(Nat) /\ Len(m1) = n + 1 /\ m1[n + 1] = v /\ \A i \in 1 .. n : m1[i] = m[i]
  BY <1>1, <1>2, OneMore
<1>6. PICK f, rank : Leads(f, rank, rr) /\ \A i \in 1 .. n : m[i] = rr[f[cc[i]]].region
  BY DEF Pointed
<1>7. /\ \A i \in 1 .. n : cc[i] \in DOMAIN rr
      /\ \A y \in DOMAIN rr : IsRoot(rr, y) => \E i \in 1 .. n : m[i] = rr[y].region
      /\ \A y, z \in DOMAIN rr :
           IsRoot(rr, y) /\ IsRoot(rr, z) /\ rr[y].region = rr[z].region => y = z
  BY DEF Pointed
<1> HIDE DEF n, im1, cc1, m1
<1>8. f[x] = x
  BY <1>6 DEF Leads, IsRoot
<1>9. \A i \in 1 .. n + 1 : cc1[i] \in DOMAIN rr /\ m1[i] = rr[f[cc1[i]]].region
  BY <1>3, <1>4, <1>5, <1>6, <1>7, <1>8 DEF v
<1>10. \A y \in DOMAIN rr : IsRoot(rr, y) => \E i \in 1 .. n + 1 : m1[i] = rr[y].region
  BY <1>3, <1>5, <1>7
<1>11. IsRoot(rr, cc1[n + 1])
  BY <1>4
<1>12. Pointed(im1, cc1, rr, m1)
  <2>1. n + 1 \in Nat
    BY <1>3
  <2>2. QED
    BY <2>1, <1>1, <1>3, <1>4, <1>5, <1>6, <1>7, <1>9, <1>10, <1>11, PointedFrom
<1>13. QED
  BY <1>12 DEF im1, cc1, m1, v

\* A root more, with a region of its own, for one pixel.
LEMMA PointedNew ==
  ASSUME NEW im, NEW cc, NEW rr, NEW m, Pointed(im, cc, rr, m), NEW colour \in {Black, White},
         NEW r \in Nat, \A i \in 1 .. Len(im) : m[i] # r,
         NEW ref, ref = Len(rr) + 1
  PROVE  Pointed(Append(im, colour), Append(cc, ref),
                 Append(rr, [ redirect |-> ref, region |-> r ]), Append(m, r))
<1> DEFINE n == Len(im)
           im1 == Append(im, colour)
           cc1 == Append(cc, ref)
           new == [ redirect |-> ref, region |-> r ]
           rr1 == Append(rr, new)
           m1 == Append(m, r)
<1>1. /\ im \in Seq({Black, White}) /\ cc \in Seq(Nat) /\ m \in Seq(Nat) /\ rr \in Seq(Reference)
      /\ Len(cc) = n /\ Len(m) = n
  BY DEF Pointed
<1>2. ref \in Nat /\ new \in Reference
  BY <1>1, LenProperties DEF Reference
<1>3. /\ n \in Nat /\ im1 \in Seq({Black, White}) /\ Len(im1) = n + 1
      /\ 1 .. n + 1 = (1 .. n) \cup {n + 1}
  BY <1>1, OneMore
<1>4. cc1 \in Seq(Nat) /\ Len(cc1) = n + 1 /\ cc1[n + 1] = ref /\ \A i \in 1 .. n : cc1[i] = cc[i]
  BY <1>1, <1>2, OneMore
<1>5. m1 \in Seq(Nat) /\ Len(m1) = n + 1 /\ m1[n + 1] = r /\ \A i \in 1 .. n : m1[i] = m[i]
  BY <1>1, OneMore
<1>6. /\ rr1 \in Seq(Reference) /\ rr1[ref] = new
      /\ \A y \in DOMAIN rr : y # ref /\ rr1[y] = rr[y]
      /\ DOMAIN rr1 = DOMAIN rr \cup {ref} /\ DOMAIN rr1 = 1 .. ref
  <2> HIDE DEF new
  <2>1. /\ rr1 \in Seq(Reference) /\ Len(rr) \in Nat /\ Len(rr1) = Len(rr) + 1
        /\ DOMAIN rr = 1 .. Len(rr) /\ rr1[Len(rr) + 1] = new
        /\ \A i \in 1 .. Len(rr) : i # Len(rr) + 1 /\ rr1[i] = rr[i]
        /\ 1 .. Len(rr) + 1 = (1 .. Len(rr)) \cup {Len(rr) + 1}
    BY <1>1, <1>2, OneMore
  <2>2. DOMAIN rr1 = 1 .. Len(rr1)
    BY <2>1, LenProperties
  <2>3. QED
    BY <2>1, <2>2
<1>7. PICK f, rank : Leads(f, rank, rr) /\ \A i \in 1 .. n : m[i] = rr[f[cc[i]]].region
  BY DEF Pointed
<1> DEFINE f1 == [ x \in 1 .. ref |-> IF x = ref THEN ref ELSE f[x] ]
           rank1 == [ x \in 1 .. ref |-> IF x = ref THEN 0 ELSE rank[x] ]
<1>8. Leads(f1, rank1, rr1)
  BY <1>1, <1>7, NewLeads
<1>9. /\ \A i \in 1 .. n : cc[i] \in DOMAIN rr /\ m[i] # r
      /\ \A y \in DOMAIN rr : IsRoot(rr, y) => \E i \in 1 .. n : m[i] = rr[y].region
      /\ \A y, z \in DOMAIN rr :
           IsRoot(rr, y) /\ IsRoot(rr, z) /\ rr[y].region = rr[z].region => y = z
  BY DEF Pointed
<1>10. f1[ref] = ref /\ \A y \in DOMAIN rr : f1[y] = f[y] /\ f[y] \in DOMAIN rr
  BY <1>2, <1>6, <1>7 DEF Leads
<1>11. rr1[ref].redirect = ref /\ rr1[ref].region = r
  BY <1>6
<1> HIDE DEF n, im1, cc1, m1, rr1, f1, rank1, new
<1>12. ASSUME NEW i \in 1 .. n + 1
       PROVE  cc1[i] \in DOMAIN rr1 /\ m1[i] = rr1[f1[cc1[i]]].region
  <2>1. CASE i = n + 1
    BY <1>4, <1>5, <1>6, <1>10, <1>11, <2>1
  <2>2. CASE i \in 1 .. n
    <3>1. cc1[i] = cc[i] /\ m1[i] = m[i] /\ m[i] = rr[f[cc[i]]].region /\ cc[i] \in DOMAIN rr
      BY <1>4, <1>5, <1>7, <1>9, <2>2
    <3>2. f1[cc[i]] = f[cc[i]] /\ f[cc[i]] \in DOMAIN rr
      BY <1>10, <3>1
    <3>3. QED
      BY <1>6, <3>1, <3>2
  <2>3. QED
    BY <1>3, <2>1, <2>2
<1>13. ASSUME NEW y \in DOMAIN rr1, IsRoot(rr1, y)
       PROVE  \E i \in 1 .. n + 1 : m1[i] = rr1[y].region
  BY <1>3, <1>5, <1>6, <1>9, <1>11, <1>13 DEF IsRoot
<1>14. ASSUME NEW y \in DOMAIN rr1, NEW z \in DOMAIN rr1, IsRoot(rr1, y), IsRoot(rr1, z),
              rr1[y].region = rr1[z].region
       PROVE  y = z
  <2>1. \A x \in DOMAIN rr : IsRoot(rr1, x) => IsRoot(rr, x) /\ rr1[x].region # r
    BY <1>6, <1>9 DEF IsRoot
  <2>2. CASE y = ref \/ z = ref
    BY <1>6, <1>11, <1>14, <2>1, <2>2
  <2>3. CASE y # ref /\ z # ref
    BY <1>6, <1>9, <1>14, <2>1, <2>3
  <2>4. QED
    BY <2>2, <2>3
<1>15. IsRoot(rr1, cc1[n + 1])
  BY <1>4, <1>11 DEF IsRoot
<1>16. Pointed(im1, cc1, rr1, m1)
  <2>1. n + 1 \in Nat
    BY <1>3
  <2>2. QED
    BY <1>3, <1>4, <1>5, <1>6, <1>8, <1>12, <1>13, <1>14, <1>15, <2>1, PointedFrom
<1>17. QED
  BY <1>16 DEF im1, cc1, rr1, m1, new

\* The root w is redirected to n, and its pixels are those of that one.
LEMMA PointedMerged ==
  ASSUME NEW im, NEW cc, NEW rr, NEW m, Pointed(im, cc, rr, m), NEW colour \in {Black, White},
         NEW w \in DOMAIN rr, NEW n \in DOMAIN rr, w # n, IsRoot(rr, w), IsRoot(rr, n)
  PROVE  Pointed(Append(im, colour), Append(cc, n),
                 Redirected(rr, w, n),
                 Append(Renamed(m, rr[n].region, rr[w].region), rr[n].region))
<1> DEFINE size == Len(im)
           im1 == Append(im, colour)
           cc1 == Append(cc, n)
           gone == [ redirect |-> n, region |-> 0 ]
           rr1 == Redirected(rr, w, n)
           v == rr[n].region
           old == rr[w].region
           same == Renamed(m, v, old)
           m1 == Append(same, v)
<1>1. /\ im \in Seq({Black, White}) /\ cc \in Seq(Nat) /\ m \in Seq(Nat) /\ rr \in Seq(Reference)
      /\ Len(cc) = size /\ Len(m) = size
  BY DEF Pointed
<1>2. /\ DOMAIN rr = 1 .. Len(rr) /\ Len(rr) \in Nat /\ n \in Nat /\ v \in Nat
      /\ gone \in Reference /\ rr \in [ DOMAIN rr -> Reference ]
  <2>1. DOMAIN rr = 1 .. Len(rr) /\ Len(rr) \in Nat /\ rr \in [ 1 .. Len(rr) -> Reference ]
    BY <1>1, LenProperties
  <2>2. rr[n] \in Reference /\ n \in Nat
    BY <1>1, <2>1, ElementOfSeq
  <2>3. QED
    BY <2>1, <2>2 DEF Reference
<1>3. /\ rr1 \in Seq(Reference) /\ DOMAIN rr1 = DOMAIN rr /\ rr1[w] = gone
      /\ \A x \in DOMAIN rr : x # w => rr1[x] = rr[x]
  <2> HIDE DEF gone
  <2>4. rr1 = [ rr EXCEPT ![w] = gone ]
    BY DEF Redirected, gone
  <2> HIDE DEF rr1
  <2>1. rr1 \in [ DOMAIN rr -> Reference ] /\ rr1[w] = gone /\ \A x \in DOMAIN rr : x # w => rr1[x] = rr[x]
    BY <1>2, <2>4
  <2>2. rr1 \in Seq(Reference)
    BY <1>2, <2>1, SeqDef
  <2>3. QED
    BY <2>1, <2>2
<1>4. rr1[w].redirect = n /\ w # n
  BY <1>3
<1> HIDE DEF v, old
<1>5. /\ size \in Nat /\ im1 \in Seq({Black, White}) /\ Len(im1) = size + 1
      /\ 1 .. size + 1 = (1 .. size) \cup {size + 1}
  BY <1>1, OneMore
<1>6. /\ cc1 \in Seq(Nat) /\ Len(cc1) = size + 1 /\ cc1[size + 1] = n
      /\ \A i \in 1 .. size : cc1[i] = cc[i]
  BY <1>1, <1>2, OneMore
<1>7. /\ same \in Seq(Nat) /\ Len(same) = size
      /\ \A i \in 1 .. size : same[i] = IF m[i] = old THEN v ELSE m[i]
  BY <1>1, <1>2, RenamedIs
<1> HIDE DEF same
<1>8. /\ m1 \in Seq(Nat) /\ Len(m1) = size + 1 /\ m1[size + 1] = v
      /\ \A i \in 1 .. size : m1[i] = same[i]
  BY <1>2, <1>7, OneMore
<1>9. PICK f, rank : Leads(f, rank, rr) /\ \A i \in 1 .. size : m[i] = rr[f[cc[i]]].region
  BY DEF Pointed
<1> DEFINE f1 == MergedEnds(f, rr, w, n)
           rank1 == MergedRank(f, rank, rr, w, n)
<1>10. Leads(f1, rank1, rr1)
  <2>1. rr[w].redirect = w /\ rr[n].redirect = n
    BY DEF IsRoot
  <2>2. rr \in Seq(Reference) /\ Leads(f, rank, rr)
    BY <1>1, <1>9
  <2> HIDE DEF f1, rank1, rr1
  <2>3. QED
    BY <2>1, <2>2, MergedLeads DEF f1, rank1, rr1
<1>11. /\ \A i \in 1 .. size : cc[i] \in DOMAIN rr
       /\ \A y \in DOMAIN rr : IsRoot(rr, y) => \E i \in 1 .. size : m[i] = rr[y].region
       /\ \A y, z \in DOMAIN rr :
            IsRoot(rr, y) /\ IsRoot(rr, z) /\ rr[y].region = rr[z].region => y = z
  BY DEF Pointed
<1>12. \A y \in DOMAIN rr : /\ f1[y] = (IF f[y] = w THEN n ELSE f[y])
                            /\ f[y] \in DOMAIN rr /\ IsRoot(rr, f[y])
  BY <1>9 DEF Leads, IsRoot, MergedEnds
<1>13. \A y \in DOMAIN rr : IsRoot(rr, y) => (rr[y].region = old <=> y = w)
  BY <1>11 DEF old
<1>14. f1[n] = n
  BY <1>9 DEF Leads, IsRoot, MergedEnds
<1> HIDE DEF size, im1, cc1, m1, rr1, f1, rank1, gone
<1>15. ASSUME NEW i \in 1 .. size + 1
       PROVE  cc1[i] \in DOMAIN rr1 /\ m1[i] = rr1[f1[cc1[i]]].region
  <2>1. rr1[n].region = v
    BY <1>3, <1>4 DEF v
  <2>2. CASE i = size + 1
    BY <1>3, <1>6, <1>8, <1>14, <2>1, <2>2
  <2>3. CASE i \in 1 .. size
    <3> DEFINE y == f[cc[i]]
    <3>1. cc[i] \in DOMAIN rr /\ y \in DOMAIN rr /\ m[i] = rr[y].region /\ IsRoot(rr, y)
      BY <1>9, <1>11, <1>12, <2>3
    <3>2. f1[cc[i]] = IF y = w THEN n ELSE y
      BY <1>12, <3>1
    <3>3. m1[i] = IF m[i] = old THEN v ELSE m[i]
      BY <1>7, <1>8, <2>3
    <3> HIDE DEF y
    <3>4. m[i] = old <=> y = w
      BY <1>13, <3>1
    <3>5. m1[i] = rr1[f1[cc[i]]].region
      BY <1>3, <2>1, <3>1, <3>2, <3>3, <3>4
    <3>6. QED
      BY <1>3, <1>6, <2>3, <3>1, <3>5
  <2>4. QED
    BY <1>5, <2>2, <2>3
<1>16. ASSUME NEW y \in DOMAIN rr1, IsRoot(rr1, y)
       PROVE  y \in DOMAIN rr /\ y # w /\ IsRoot(rr, y) /\ rr1[y] = rr[y]
  BY <1>3, <1>4, <1>16 DEF IsRoot
<1>17. ASSUME NEW y \in DOMAIN rr1, IsRoot(rr1, y)
       PROVE  \E i \in 1 .. size + 1 : m1[i] = rr1[y].region
  <2>1. y \in DOMAIN rr /\ y # w /\ IsRoot(rr, y) /\ rr1[y] = rr[y]
    BY <1>16, <1>17
  <2>2. PICK i \in 1 .. size : m[i] = rr[y].region
    BY <1>11, <2>1
  <2>3. m[i] # old
    BY <1>13, <2>1, <2>2
  <2>4. m1[i] = rr1[y].region
    BY <1>7, <1>8, <2>1, <2>2, <2>3
  <2>5. QED
    BY <1>5, <2>4
<1>18. ASSUME NEW y \in DOMAIN rr1, NEW z \in DOMAIN rr1, IsRoot(rr1, y), IsRoot(rr1, z),
              rr1[y].region = rr1[z].region
       PROVE  y = z
  BY <1>11, <1>16, <1>18
<1>19. IsRoot(rr1, cc1[size + 1])
  BY <1>3, <1>4, <1>6 DEF IsRoot
<1>20. Pointed(im1, cc1, rr1, m1)
  <2>1. size + 1 \in Nat
    BY <1>5
  <2>2. QED
    BY <1>3, <1>5, <1>6, <1>8, <1>10, <1>15, <1>17, <1>18, <1>19, <2>1, PointedFrom
<1>21. QED
  BY <1>20 DEF im1, cc1, rr1, m1, gone, same, v, old

-----------------------------------------------------------------------------
(* Steps that leave the lists alone.                                       *)

LEMMA OnlyBoxes ==
  ASSUME NEW D, D \subseteq Nat, NEW V, V \subseteq D, NEW N, NEW rs, Sound(rs, D, V, N),
         NEW s \in [ D -> RegionRecord ],
         \A a \in V : s[a].adjacent = rs[a].adjacent /\ s[a].flags = rs[a].flags
  PROVE  Sound(s, D, V, N)
<1>1. \A a, b \in V : Times(s, a, b) = Times(rs, a, b)
  BY DEF Times
<1>2. Lists(s, V)
  BY <1>1 DEF Sound, Lists
<1>3. \A a \in V : Unflagged(s, a) <=> Unflagged(rs, a)
  BY DEF Unflagged
<1>4. Covers(s, V, N)
  BY <1>1, <1>3 DEF Sound, Covers
<1>5. QED
  BY <1>2, <1>4 DEF Sound

LEMMA RightIsSound ==
  ASSUME NEW D, D \subseteq Nat, NEW V, V \subseteq D, NEW N, NEW rs, Sound(rs, D, V, N),
         NEW r \in D, NEW x \in Int
  PROVE  Sound([ rs EXCEPT ![r].right = Largest(@, x) ], D, V, N)
<1> DEFINE s == [ rs EXCEPT ![r].right = Largest(@, x) ]
<1>1. rs \in [ D -> RegionRecord ]
  BY DEF Sound
<1>2. s \in [ D -> RegionRecord ]
  BY <1>1 DEF RegionRecord, Largest
<1>3. \A a \in V : s[a].adjacent = rs[a].adjacent /\ s[a].flags = rs[a].flags
  BY <1>1 DEF RegionRecord
<1> HIDE DEF s
<1>4. Sound(s, D, V, N)
  BY <1>2, <1>3, OnlyBoxes
<1>5. QED
  BY <1>4 DEF s

LEMMA BottomIsSound ==
  ASSUME NEW D, D \subseteq Nat, NEW V, V \subseteq D, NEW N, NEW rs, Sound(rs, D, V, N),
         NEW r \in D, NEW y \in Int
  PROVE  Sound([ rs EXCEPT ![r].bottom = y ], D, V, N)
<1> DEFINE s == [ rs EXCEPT ![r].bottom = y ]
<1>1. rs \in [ D -> RegionRecord ]
  BY DEF Sound
<1>2. s \in [ D -> RegionRecord ]
  BY <1>1 DEF RegionRecord
<1>3. \A a \in V : s[a].adjacent = rs[a].adjacent /\ s[a].flags = rs[a].flags
  BY <1>1 DEF RegionRecord
<1> HIDE DEF s
<1>4. Sound(s, D, V, N)
  BY <1>2, <1>3, OnlyBoxes
<1>5. QED
  BY <1>4 DEF s

LEMMA SameTouch ==
  ASSUME NEW D, NEW V, NEW N, NEW M, NEW rs, Sound(rs, D, V, N),
         \A a, b \in V : <<a, b>> \in M <=> <<a, b>> \in N
  PROVE  Sound(rs, D, V, M)
BY DEF Sound, Covers

\* A new region has no neighbours yet.
LEMMA AllocatedIsSound ==
  ASSUME NEW D, NEW k \in Nat, D = 1 .. k, NEW V, V \subseteq D, NEW N, NEW rs \in Seq(RegionRecord),
         Sound(rs, D, V, N), NEW r, r \in 1 .. k + 1, r \notin V, Len(rs) = k,
         \A a \in V : <<a, r>> \notin N /\ <<r, a>> \notin N, <<r, r>> \notin N,
         NEW colour \in {Black, White}, NEW h \in Nat \ {0}, h = Here
  PROVE  Sound(Allocated(rs, r, colour), D \cup {r}, V \cup {r}, N)
<1> DEFINE new == [ colour |-> colour, adjacent |-> <<>>, flags |-> {},
                    left |-> X(Here), right |-> X(Here), top |-> Y(Here), bottom |-> Y(Here) ]
           s == Allocated(rs, r, colour)
           E == D \cup {r}
           W == V \cup {r}
<1>1. <<>> \in Seq(Nat) /\ Len(<<>>) = 0 /\ \A a : Count(<<>>, a) = 0
  BY EmptyCounts
<1>2. new \in RegionRecord /\ new.adjacent = <<>> /\ new.flags = {}
  <2>1. X(Here) \in Int /\ Y(Here) \in Int
    BY PlaceOf
  <2>2. QED
    BY <1>1, <2>1 DEF RegionRecord
<1>3. rs \in [ D -> RegionRecord ] /\ Lists(rs, V) /\ Covers(rs, V, N)
  BY DEF Sound
<1>4. s = IF r > Len(rs) THEN Append(rs, new) ELSE [ rs EXCEPT ![r] = new ]
  BY DEF Allocated
<1> HIDE DEF new
<1>5. s \in [ E -> RegionRecord ] /\ s[r] = new /\ \A a \in D : a # r => s[a] = rs[a]
  <2>1. CASE r = k + 1
    <3>1. s = Append(rs, new)
      BY <1>4, <2>1
    <3>2. /\ Append(rs, new) \in Seq(RegionRecord) /\ Len(Append(rs, new)) = k + 1
          /\ Append(rs, new)[k + 1] = new
          /\ \A i \in 1 .. k : Append(rs, new)[i] = rs[i]
          /\ 1 .. k + 1 = (1 .. k) \cup {k + 1}
      BY <1>2, OneMore
    <3>3. Append(rs, new) \in [ 1 .. k + 1 -> RegionRecord ]
      BY <3>2, LenProperties
    <3>4. QED
      BY <2>1, <3>1, <3>2, <3>3
  <2>2. CASE r \in 1 .. k
    <3>1. s = [ rs EXCEPT ![r] = new ] /\ E = D
      BY <1>4, <2>2
    <3>2. QED
      BY <1>2, <1>3, <2>2, <3>1
  <2>3. QED
    BY <2>1, <2>2
<1> HIDE DEF s
<1>6. \A q : Times(s, r, q) = 0
  BY <1>1, <1>2, <1>5 DEF Times
<1>7. \A a \in V : s[a] = rs[a] /\ a # r
  BY <1>5
<1>8. \A a \in V : \A q : Times(s, a, q) = Times(rs, a, q)
  BY <1>7 DEF Times
<1>9. D \subseteq Nat
  OBVIOUS
<1>10. ASSUME NEW a \in V, NEW q, Times(s, a, q) > 0 PROVE q \in V \ {a}
  <2>1. Times(rs, a, q) > 0
    BY <1>8, <1>10
  <2>2. QED
    BY <1>3, <1>9, <2>1, ListsMean
<1>11. \A a \in V : Times(s, a, r) = 0
  <2> TAKE a \in V
  <2>1. ~ (Times(s, a, r) > 0)
    BY <1>10
  <2>2. Times(rs, a, r) \in Nat
    BY <1>3, ListOf
  <2>3. QED
    BY <1>8, <2>1, <2>2
<1>12. Lists(s, W)
  <2>1. E \subseteq Nat /\ W \subseteq E
    BY <1>9
  <2>2. ASSUME NEW a \in W PROVE Len(s[a].adjacent) <= MaxAdjacent
    <3>1. CASE a = r
      BY <1>1, <1>2, <1>5, <3>1, RoomAssumption
    <3>2. CASE a \in V
      BY <1>3, <1>7, <3>2 DEF Lists
    <3>3. QED
      BY <3>1, <3>2
  <2>3. ASSUME NEW a \in W, NEW q, Times(s, a, q) > 0 PROVE q \in W \ {a}
    BY <1>6, <1>10, <2>3
  <2>4. ASSUME NEW a \in W, NEW b \in W PROVE Times(s, a, b) = Times(s, b, a)
    <3>1. CASE a = r \/ b = r
      BY <1>6, <1>11, <3>1
    <3>2. CASE a \in V /\ b \in V
      BY <1>3, <1>8, <3>2 DEF Lists
    <3>3. QED
      BY <3>1, <3>2
  <2> HIDE DEF E, W
  <2>5. QED
    BY <1>5, <2>1, <2>2, <2>3, <2>4, ListsFrom
<1>13. Covers(s, W, N)
  <2>1. ASSUME NEW a \in W, NEW b \in W
        PROVE  /\ Times(s, a, b) > 0 => <<a, b>> \in N
               /\ <<a, b>> \in N /\ Unflagged(s, a) => Times(s, a, b) > 0
    <3>1. CASE a = r \/ b = r
      <4>1. Times(s, a, b) = 0
        BY <1>6, <1>11, <3>1
      <4>2. <<a, b>> \notin N
        BY <3>1
      <4>3. QED
        BY <4>1, <4>2
    <3>2. CASE a \in V /\ b \in V
      <4>1. Unflagged(s, a) <=> Unflagged(rs, a)
        BY <1>7, <3>2 DEF Unflagged
      <4>2. QED
        BY <1>3, <1>8, <3>2, <4>1 DEF Covers
    <3>3. QED
      BY <3>1, <3>2
  <2>2. QED
    BY <2>1 DEF Covers
<1>14. QED
  BY <1>5, <1>12, <1>13 DEF Sound, s

-----------------------------------------------------------------------------
(* The invariant of the segmenter, with m for the regions of the pixels.   *)

LiveIn(m) == { m[i] : i \in 1 .. Len(m) }
FreedIn(fr) == { fr[i] : i \in 1 .. Len(fr) }

\* No region is freed twice, or while it is used.
FreedOnce(fr, V) ==
  /\ fr \in Seq(Nat)
  /\ \A i, j \in 1 .. Len(fr) : fr[i] \notin V /\ (fr[i] = fr[j] => i = j)

SegState(im, cc, rr, rs, fr, m) ==
  /\ Pointed(im, cc, rr, m) /\ Coloured(im, m)
  /\ rs \in Seq(RegionRecord) /\ FreedOnce(fr, LiveIn(m))
  /\ DOMAIN rs = LiveIn(m) \cup FreedIn(fr)
  /\ Sound(rs, DOMAIN rs, LiveIn(m), Borders(m))

-----------------------------------------------------------------------------
(* The pixel that is read.                                                 *)

LEMMA StateFacts ==
  ASSUME NEW m, SegState(image, cells, refs, regions, freed, m)
  PROVE  /\ image \in Seq({Black, White}) /\ m \in Seq(Nat)
         /\ Len(image) \in Nat /\ Len(m) = Len(image) /\ Here = Len(m) + 1 /\ Here \in Nat \ {0}
         /\ \A i \in 1 .. Len(image) : image[i] \in {Black, White} /\ m[i] \in Nat /\ m[i] \in LiveIn(m)
         /\ LiveIn(m) \subseteq Nat /\ LiveIn(m) \subseteq DOMAIN regions
         /\ DOMAIN regions = 1 .. Len(regions) /\ Len(regions) \in Nat /\ DOMAIN regions \subseteq Nat
<1>1. image \in Seq({Black, White}) /\ m \in Seq(Nat) /\ Len(m) = Len(image)
  BY DEF SegState, Pointed
<1>2. Len(image) \in Nat
  BY <1>1, LenProperties
<1>3. \A i \in 1 .. Len(image) : image[i] \in {Black, White} /\ m[i] \in Nat
  BY <1>1, ElementOfSeq
<1>4. DOMAIN regions = 1 .. Len(regions) /\ Len(regions) \in Nat /\ LiveIn(m) \subseteq DOMAIN regions
  BY LenProperties DEF SegState
<1>5. LiveIn(m) \subseteq Nat /\ \A i \in 1 .. Len(image) : m[i] \in LiveIn(m)
  BY <1>1, <1>3 DEF LiveIn
<1>6. QED
  BY <1>1, <1>2, <1>3, <1>4, <1>5 DEF Here

LEMMA WestFacts ==
  ASSUME NEW m, SegState(image, cells, refs, regions, freed, m), HasWest
  PROVE  /\ Here - 1 \in 1 .. Len(image) /\ Here - 1 = Len(image)
         /\ West \in DOMAIN refs /\ IsRoot(refs, West) /\ WestRegion = m[Here - 1]
<1>1. Here = Len(image) + 1 /\ Len(image) \in Nat /\ Here \in Nat \ {0} /\ X(Here) > 0
  BY StateFacts DEF Here, HasWest
<1>2. Here - 1 \in Nat \ {0}
  BY <1>1, WestIs
<1>3. Here - 1 = Len(image) /\ Len(image) > 0
  BY <1>1, <1>2
<1>4. Pointed(image, cells, refs, m)
  BY DEF SegState
<1>5. QED
  BY <1>1, <1>3, <1>4, PointedBefore DEF West, WestRegion

LEMMA NorthFacts ==
  ASSUME NEW m, SegState(image, cells, refs, regions, freed, m), HasNorth
  PROVE  /\ Here - Width \in 1 .. Len(image)
         /\ North \in DOMAIN refs /\ IsRoot(refs, North) /\ NorthRegion = m[Here - Width]
<1>1. Here = Len(image) + 1 /\ Len(image) \in Nat /\ Here \in Nat \ {0} /\ Y(Here) > 0
  BY StateFacts, PlaceOf DEF Here, HasNorth
<1>2. Here - Width \in Nat \ {0}
  BY <1>1, NorthIs
<1>3. Here - Width \in 1 .. Len(image)
  BY <1>1, <1>2, ImageAssumption
<1>4. Pointed(image, cells, refs, m)
  BY DEF SegState
<1>5. QED
  BY <1>3, <1>4, PointedAbove DEF North, NorthRegion

LEMMA TouchedHere ==
  ASSUME NEW m, SegState(image, cells, refs, regions, freed, m), NEW j \in 1 .. Len(m)
  PROVE  Touch(Len(m) + 1, j) <=> (HasWest /\ j = Here - 1) \/ (HasNorth /\ j = Here - Width)
<1>1. Here = Len(m) + 1 /\ Len(m) \in Nat
  BY StateFacts
<1>2. QED
  BY <1>1, TouchesHere DEF HasWest, HasNorth

\* Two neighbours of different colours touch.
LEMMA NeighboursBorder ==
  ASSUME NEW m, SegState(image, cells, refs, regions, freed, m), HasWest, HasNorth,
         image[Here - 1] # image[Here - Width]
  PROVE  /\ Bordering(m, m[Here - 1], m[Here - Width])
         /\ Bordering(m, m[Here - Width], m[Here - 1])
<1>1. /\ image \in Seq({Black, White}) /\ m \in Seq(Nat) /\ Len(image) = Len(m)
      /\ Here = Len(m) + 1 /\ X(Here) > 0 /\ Y(Here) > 0 /\ Coloured(image, m)
  BY StateFacts DEF HasWest, HasNorth, SegState
<1> DEFINE h == Here
<1>2. h = Len(m) + 1 /\ X(h) > 0 /\ Y(h) > 0 /\ image[h - 1] # image[h - Width]
  BY <1>1
<1> HIDE DEF h
<1>3. Bordering(m, m[h - 1], m[h - Width])
  BY <1>1, <1>2, CornerBorders
<1>4. QED
  BY <1>3, BorderingIsMutual DEF h

LEMMA SpanIsSound ==
  ASSUME NEW m, SegState(image, cells, refs, regions, freed, m)
  PROVE  /\ Sound(SpanEnded, DOMAIN regions, LiveIn(m), Borders(m))
         /\ SpanEnded \in Seq(RegionRecord) /\ Len(SpanEnded) = Len(regions)
<1>1. Sound(regions, DOMAIN regions, LiveIn(m), Borders(m)) /\ regions \in Seq(RegionRecord)
  BY DEF SegState
<1>2. CASE ~ (HasWest /\ HasNorth)
  BY <1>1, <1>2 DEF SpanEnded
<1>3. CASE HasWest /\ HasNorth
  <2>1. WestRegion \in DOMAIN regions
    BY <1>3, StateFacts, WestFacts
  <2>2. X(Here) - 1 \in Int
    <3>1. Here \in Nat \ {0}
      BY StateFacts
    <3>2. QED
      BY <3>1, PlaceOf
  <2>3. SpanEnded = [ regions EXCEPT ![WestRegion].right = Largest(@, X(Here) - 1) ]
    BY <1>3 DEF SpanEnded
  <2>4. LiveIn(m) \subseteq DOMAIN regions /\ DOMAIN regions \subseteq Nat
    BY StateFacts
  <2>5. Sound(SpanEnded, DOMAIN regions, LiveIn(m), Borders(m))
    BY <1>1, <2>1, <2>2, <2>3, <2>4, RightIsSound
  <2>6. SpanEnded \in [ 1 .. Len(regions) -> RegionRecord ] /\ Len(regions) \in Nat
    BY <2>5, StateFacts DEF Sound
  <2>7. SpanEnded \in Seq(RegionRecord)
    BY <2>6, SeqDef
  <2>8. DOMAIN SpanEnded = 1 .. Len(regions)
    BY <2>6
  <2>9. QED
    BY <2>5, <2>6, <2>7, <2>8, LenProperties
<1>4. QED
  BY <1>2, <1>3

\* A pixel at the edge sets a flag of its region.
LEMMA EdgeIsSound ==
  ASSUME NEW D, D \subseteq Nat, NEW V, V \subseteq D, NEW N, NEW rs, Sound(rs, D, V, N),
         NEW r \in D, NEW edge, NEW s, s = IF edge THEN Flagged(rs, r, "root") ELSE rs
  PROVE  Sound(s, D, V, N)
<1>1. Sound(Flagged(rs, r, "root"), D, V, N)
  BY FlaggedIsSound
<1>2. QED
  BY <1>1

LEMMA SoundSequence ==
  ASSUME NEW n \in Nat, NEW V, NEW N, NEW s, Sound(s, 1 .. n, V, N)
  PROVE  s \in Seq(RegionRecord) /\ DOMAIN s = 1 .. n /\ Len(s) = n
<1>1. s \in [ 1 .. n -> RegionRecord ]
  BY DEF Sound
<1>2. s \in Seq(RegionRecord) /\ DOMAIN s = 1 .. n
  BY <1>1, SeqDef
<1>3. QED
  BY <1>2, LenProperties

-----------------------------------------------------------------------------
(* A pixel in a region that is there.                                      *)

LEMMA LiveMore ==
  ASSUME NEW m \in Seq(Nat), NEW v \in Nat
  PROVE  LiveIn(Append(m, v)) = LiveIn(m) \cup {v}
<1> DEFINE n == Len(m)
           more == Append(m, v)
<1>1. /\ n \in Nat /\ Len(more) = n + 1 /\ more[n + 1] = v
      /\ \A i \in 1 .. n : more[i] = m[i]
      /\ 1 .. n + 1 = (1 .. n) \cup {n + 1}
  BY OneMore
<1> HIDE DEF n, more
<1>2. LiveIn(more) = { more[i] : i \in (1 .. n) \cup {n + 1} }
  BY <1>1 DEF LiveIn
<1>3. LiveIn(m) = { m[i] : i \in 1 .. n }
  BY DEF LiveIn, n
<1>4. QED
  BY <1>1, <1>2, <1>3 DEF more

LEMMA MoreKeeps ==
  ASSUME NEW m, SegState(image, cells, refs, regions, freed, m),
         NEW colour \in {Black, White}, NEW x \in DOMAIN refs, IsRoot(refs, x),
         NEW k \in 1 .. Len(image), refs[x].region = m[k], image[k] = colour,
         SameAsWest(colour) => m[Here - 1] = m[k],
         SameAsNorth(colour) => m[Here - Width] = m[k],
         HasWest /\ ~ SameAsWest(colour) => Bordering(m, m[k], m[Here - 1]),
         HasNorth /\ ~ SameAsNorth(colour) => Bordering(m, m[k], m[Here - Width]),
         NEW s, Sound(s, DOMAIN regions, LiveIn(m), Borders(m)),
         Becomes(colour, x, refs[x].region, s), UNCHANGED <<refs, freed>>
  PROVE  SegState(image', cells', refs', regions', freed', Append(m, m[k]))
<1> DEFINE v == m[k]
           n == Len(m)
<1>1. /\ image \in Seq({Black, White}) /\ m \in Seq(Nat) /\ n \in Nat /\ n = Len(image)
      /\ v \in Nat /\ v \in LiveIn(m)
      /\ DOMAIN regions \subseteq Nat /\ LiveIn(m) \subseteq DOMAIN regions
      /\ DOMAIN regions = 1 .. Len(regions) /\ Len(regions) \in Nat
  BY StateFacts
<1>2. /\ Pointed(image, cells, refs, m) /\ Coloured(image, m)
      /\ FreedOnce(freed, LiveIn(m)) /\ DOMAIN regions = LiveIn(m) \cup FreedIn(freed)
  BY DEF SegState
<1>3. /\ image' = Append(image, colour) /\ cells' = Append(cells, x) /\ refs' = refs /\ freed' = freed
      /\ regions' = IF AtEdge THEN Flagged(s, v, "root") ELSE s
  BY DEF Becomes
<1>4. Pointed(image', cells', refs', Append(m, v))
  BY <1>2, <1>3, PointedMore
<1>5. \A j \in 1 .. n : m[j] = v => image[j] = colour
  BY <1>1, <1>2 DEF Coloured
<1>6. ASSUME NEW j \in 1 .. n, Touch(n + 1, j)
      PROVE  /\ image[j] = colour => m[j] = v
             /\ m[j] = v \/ Bordering(m, v, m[j])
  <2>1. (HasWest /\ j = Here - 1) \/ (HasNorth /\ j = Here - Width)
    BY <1>6, TouchedHere
  <2>2. CASE HasWest /\ j = Here - 1
    BY <2>2 DEF SameAsWest
  <2>3. CASE HasNorth /\ j = Here - Width
    BY <2>3 DEF SameAsNorth
  <2>4. QED
    BY <2>1, <2>2, <2>3
<1> HIDE DEF v
<1>7. Coloured(image', Append(m, v))
  BY <1>1, <1>2, <1>3, <1>5, <1>6, ColouredMore
<1>8. Borders(Append(m, v)) = Borders(m)
  BY <1>1, <1>6, SameBorders
<1>9. LiveIn(Append(m, v)) = LiveIn(m)
  <2>1. LiveIn(Append(m, v)) = LiveIn(m) \cup {v}
    BY <1>1, LiveMore
  <2>2. QED
    BY <1>1, <2>1
<1>10. Sound(regions', DOMAIN regions, LiveIn(m), Borders(m))
  BY <1>1, <1>3, EdgeIsSound
<1>11. regions' \in Seq(RegionRecord) /\ DOMAIN regions' = DOMAIN regions
  BY <1>1, <1>10, SoundSequence
<1>12. SegState(image', cells', refs', regions', freed', Append(m, v))
  BY <1>2, <1>3, <1>4, <1>7, <1>8, <1>9, <1>10, <1>11 DEF SegState
<1>13. QED
  BY <1>12 DEF v

LEMMA ContinueKeeps ==
  ASSUME NEW m, SegState(image, cells, refs, regions, freed, m),
         NEW colour \in {Black, White}, Continue(colour)
  PROVE  \E m1 : SegState(image', cells', refs', regions', freed', m1)
<1> DEFINE k == Here - 1
<1>1. HasWest /\ image[k] = colour /\ SameAsWest(colour)
  BY DEF Continue, SameAsWest
<1>2. k \in 1 .. Len(image) /\ West \in DOMAIN refs /\ IsRoot(refs, West) /\ WestRegion = m[k]
  BY <1>1, WestFacts
<1>3. SameAsNorth(colour) => m[Here - Width] = m[k]
  <2> SUFFICES ASSUME SameAsNorth(colour) PROVE m[Here - Width] = m[k]
    OBVIOUS
  <2>1. North = West /\ HasNorth
    BY DEF Continue, SameAsNorth
  <2>2. NorthRegion = m[Here - Width]
    BY <2>1, NorthFacts
  <2>3. QED
    BY <1>2, <2>1, <2>2 DEF NorthRegion, WestRegion
<1>4. HasNorth /\ ~ SameAsNorth(colour) => Bordering(m, m[k], m[Here - Width])
  <2> SUFFICES ASSUME HasNorth, ~ SameAsNorth(colour) PROVE Bordering(m, m[k], m[Here - Width])
    OBVIOUS
  <2>1. image[Here - 1] # image[Here - Width]
    BY <1>1 DEF SameAsNorth
  <2>2. QED
    BY <1>1, <2>1, NeighboursBorder
<1>5. Sound(regions, DOMAIN regions, LiveIn(m), Borders(m))
  BY DEF SegState
<1>6. /\ Becomes(colour, West, WestRegion, regions) /\ UNCHANGED <<refs, freed>>
      /\ refs[West].region = m[k] /\ refs[West].region = WestRegion
  BY <1>2 DEF Continue, WestRegion
<1>7. SegState(image', cells', refs', regions', freed', Append(m, m[k]))
  <2>1. m[Here - 1] = m[k]
    OBVIOUS
  <2> HIDE DEF k
  <2>2. QED
    BY <1>1, <1>2, <1>3, <1>4, <1>5, <1>6, <2>1, MoreKeeps
<1>8. QED
  BY <1>7

LEMMA JoinKeeps ==
  ASSUME NEW m, SegState(image, cells, refs, regions, freed, m),
         NEW colour \in {Black, White}, Join(colour)
  PROVE  \E m1 : SegState(image', cells', refs', regions', freed', m1)
<1> DEFINE k == Here - Width
           s == IF HasWest THEN [ SpanEnded EXCEPT ![NorthRegion].bottom = Y(Here) ] ELSE regions
<1>1. HasNorth /\ image[k] = colour /\ SameAsNorth(colour) /\ ~ SameAsWest(colour)
  BY DEF Join, SameAsNorth
<1>2. k \in 1 .. Len(image) /\ North \in DOMAIN refs /\ IsRoot(refs, North) /\ NorthRegion = m[k]
  BY <1>1, NorthFacts
<1>3. HasWest => Bordering(m, m[k], m[Here - 1])
  <2> SUFFICES ASSUME HasWest PROVE Bordering(m, m[k], m[Here - 1])
    OBVIOUS
  <2>1. image[Here - 1] # image[Here - Width]
    BY <1>1 DEF SameAsWest
  <2>2. QED
    BY <1>1, <2>1, NeighboursBorder
<1>4. Sound(s, DOMAIN regions, LiveIn(m), Borders(m))
  <2>1. CASE HasWest
    <3>1. /\ Sound(SpanEnded, DOMAIN regions, LiveIn(m), Borders(m))
          /\ LiveIn(m) \subseteq DOMAIN regions /\ DOMAIN regions \subseteq Nat
      BY SpanIsSound, StateFacts
    <3>2. NorthRegion \in DOMAIN regions
      BY <1>2, StateFacts
    <3>3. Y(Here) \in Int
      <4>1. Here \in Nat \ {0}
        BY StateFacts
      <4>2. QED
        BY <4>1, PlaceOf
    <3>4. Sound([ SpanEnded EXCEPT ![NorthRegion].bottom = Y(Here) ],
                DOMAIN regions, LiveIn(m), Borders(m))
      BY <3>1, <3>2, <3>3, BottomIsSound
    <3>5. QED
      BY <2>1, <3>4
  <2>2. CASE ~ HasWest
    BY <2>2 DEF SegState
  <2>3. QED
    BY <2>1, <2>2
<1>5. /\ Becomes(colour, North, NorthRegion, s) /\ UNCHANGED <<refs, freed>>
      /\ refs[North].region = m[k] /\ refs[North].region = NorthRegion
  BY <1>2 DEF Join, NorthRegion
<1>6. SegState(image', cells', refs', regions', freed', Append(m, m[k]))
  <2>1. m[Here - Width] = m[k]
    OBVIOUS
  <2> HIDE DEF k, s
  <2>2. QED
    BY <1>1, <1>2, <1>3, <1>4, <1>5, <2>1, MoreKeeps
<1>7. QED
  BY <1>6

-----------------------------------------------------------------------------
(* A region that meets another one.                                        *)

LEMMA LiveRenamed ==
  ASSUME NEW m \in Seq(Nat), NEW r1 \in LiveIn(m), NEW r2 \in LiveIn(m), r1 # r2
  PROVE  LiveIn(Append(Renamed(m, r1, r2), r1)) = LiveIn(m) \ {r2}
<1> DEFINE n == Len(m)
           s == Renamed(m, r1, r2)
<1>1. r1 \in Nat
  BY ElementOfSeq DEF LiveIn
<1>2. s \in Seq(Nat) /\ Len(s) = n /\ \A i \in 1 .. n : s[i] = IF m[i] = r2 THEN r1 ELSE m[i]
  BY <1>1, RenamedIs
<1> HIDE DEF s
<1>3. LiveIn(Append(s, r1)) = LiveIn(s) \cup {r1}
  BY <1>1, <1>2, LiveMore
<1>4. \A a \in LiveIn(s) : a \in LiveIn(m) /\ a # r2
  BY <1>2 DEF LiveIn
<1>5. \A a \in LiveIn(m) : a # r2 => a \in LiveIn(s)
  BY <1>2 DEF LiveIn
<1>6. QED
  BY <1>3, <1>4, <1>5 DEF s

LEMMA FreedFirst ==
  ASSUME NEW fr, NEW V, V \subseteq Nat, FreedOnce(fr, V), NEW r \in V
  PROVE  FreedOnce(<<r>> \o fr, V \ {r}) /\ FreedIn(<<r>> \o fr) = FreedIn(fr) \cup {r}
<1> DEFINE n == Len(fr)
           more == <<r>> \o fr
<1>1. fr \in Seq(Nat) /\ n \in Nat /\ r \in Nat /\ \A i \in 1 .. n : fr[i] \in Nat
  BY LenProperties, ElementOfSeq DEF FreedOnce
<1>2. /\ more \in Seq(Nat) /\ Len(more) = n + 1 /\ more[1] = r
      /\ \A i \in 1 .. n + 1 : i # 1 => i - 1 \in 1 .. n /\ more[i] = fr[i - 1]
  <2>1. <<r>> \in Seq(Nat) /\ Len(<<r>>) = 1 /\ <<r>>[1] = r
    BY <1>1
  <2>2. more \in Seq(Nat) /\ Len(more) = 1 + n
    BY <1>1, <2>1, ConcatProperties
  <2>3. \A i \in 1 .. 1 + n : more[i] = IF i <= 1 THEN <<r>>[i] ELSE fr[i - 1]
    BY <1>1, <2>1, ConcatProperties
  <2> HIDE DEF more
  <2>4. QED
    BY <1>1, <2>1, <2>2, <2>3
<1>3. \A i, j \in 1 .. n : fr[i] \notin V /\ (fr[i] = fr[j] => i = j)
  BY DEF FreedOnce
<1> HIDE DEF n, more
<1>4. ASSUME NEW i \in 1 .. n + 1, NEW j \in 1 .. n + 1
      PROVE  more[i] \notin V \ {r} /\ (more[i] = more[j] => i = j)
  <2>1. CASE i = 1 /\ j = 1
    BY <1>2, <2>1
  <2>2. CASE i = 1 /\ j # 1
    BY <1>2, <1>3, <2>2
  <2>3. CASE i # 1 /\ j = 1
    BY <1>2, <1>3, <2>3
  <2>4. CASE i # 1 /\ j # 1
    <3>1. i - 1 \in 1 .. n /\ j - 1 \in 1 .. n /\ more[i] = fr[i - 1] /\ more[j] = fr[j - 1]
      BY <1>2, <2>4
    <3>2. more[i] = more[j] => i - 1 = j - 1
      BY <1>3, <3>1
    <3>3. QED
      BY <1>3, <3>1, <3>2
  <2>5. QED
    BY <2>1, <2>2, <2>3, <2>4
<1>5. FreedOnce(more, V \ {r})
  BY <1>2, <1>4 DEF FreedOnce
<1>6. FreedIn(more) = FreedIn(fr) \cup {r}
  <2>1. \A i \in 1 .. n : i + 1 \in 1 .. n + 1 /\ i + 1 # 1 /\ (i + 1) - 1 = i
    BY <1>1
  <2>2. \A i \in 1 .. n : fr[i] \in FreedIn(more)
    <3>1. FreedIn(more) = { more[i] : i \in 1 .. n + 1 }
      BY <1>2 DEF FreedIn
    <3>2. \A i \in 1 .. n : more[i + 1] = fr[i]
      BY <1>2, <2>1
    <3>3. QED
      BY <2>1, <3>1, <3>2
  <2>3. r \in FreedIn(more)
    <3>1. 1 \in 1 .. n + 1
      BY <1>1
    <3>2. QED
      BY <1>2, <3>1 DEF FreedIn
  <2>4. \A a \in FreedIn(more) : a = r \/ a \in FreedIn(fr)
    BY <1>2 DEF FreedIn, n
  <2>5. QED
    BY <2>2, <2>3, <2>4 DEF FreedIn, n
<1>7. QED
  BY <1>5, <1>6 DEF more

LEMMA MergeKeeps ==
  ASSUME NEW m, SegState(image, cells, refs, regions, freed, m),
         NEW colour \in {Black, White}, Merge(colour)
  PROVE  \E m1 : SegState(image', cells', refs', regions', freed', m1)
<1> DEFINE V == LiveIn(m)
           n == Len(m)
           D == DOMAIN regions
           r1 == NorthRegion
           r2 == WestRegion
           same == Renamed(m, r1, r2)
           m1 == Append(same, r1)
<1>1. /\ HasWest /\ image[Here - 1] = colour
      /\ HasNorth /\ image[Here - Width] = colour /\ North # West
  BY DEF Merge, SameAsWest, SameAsNorth
<1>2. /\ Here - 1 \in 1 .. n /\ West \in DOMAIN refs /\ IsRoot(refs, West) /\ r2 = m[Here - 1]
      /\ Here - Width \in 1 .. n /\ North \in DOMAIN refs /\ IsRoot(refs, North)
      /\ r1 = m[Here - Width]
  <2>1. Len(m) = Len(image)
    BY StateFacts
  <2>2. QED
    BY <1>1, <2>1, WestFacts, NorthFacts
<1>3. /\ image \in Seq({Black, White}) /\ m \in Seq(Nat) /\ n \in Nat /\ n = Len(image)
      /\ V \subseteq Nat /\ V \subseteq D /\ D \subseteq Nat
      /\ D = 1 .. Len(regions) /\ Len(regions) \in Nat
      /\ \A i \in 1 .. n : m[i] \in V
  BY StateFacts
<1>4. /\ Pointed(image, cells, refs, m) /\ Coloured(image, m)
      /\ FreedOnce(freed, V) /\ D = V \cup FreedIn(freed)
      /\ Sound(regions, D, V, Borders(m))
  BY DEF SegState
<1>5. r1 \in V /\ r2 \in V
  BY <1>2, <1>3
<1>6. r1 # r2
  BY <1>1, <1>2, <1>4 DEF Pointed, NorthRegion, WestRegion
<1>7. \A j \in 1 .. n : m[j] = r1 \/ m[j] = r2 => image[j] = colour
  BY <1>1, <1>2, <1>4 DEF Coloured
<1>8. /\ image' = Append(image, colour) /\ cells' = Append(cells, North)
      /\ refs' = Redirected(refs, West, North)
      /\ freed' = <<r2>> \o freed
      /\ regions' = IF AtEdge THEN Flagged(Merged(regions, r1, r2), r1, "root")
                    ELSE Merged(regions, r1, r2)
  BY DEF Merge, Becomes, Redirected
<1>9. Pointed(image', cells', refs', m1)
  <2>1. refs[North].region = r1 /\ refs[West].region = r2 /\ West # North
    BY <1>1 DEF NorthRegion, WestRegion
  <2> HIDE DEF r1, r2
  <2>2. Pointed(Append(image, colour), Append(cells, North), Redirected(refs, West, North),
                Append(Renamed(m, refs[North].region, refs[West].region), refs[North].region))
    BY <1>2, <1>4, <2>1, PointedMerged
  <2>3. QED
    BY <1>8, <2>1, <2>2
<1> HIDE DEF r1, r2, V, D
<1>10. /\ same \in Seq(Nat) /\ Len(same) = n
       /\ \A i \in 1 .. n : same[i] = IF m[i] = r2 THEN r1 ELSE m[i]
       /\ r1 \in Nat /\ r2 \in Nat
  BY <1>3, <1>5, RenamedIs
<1>11. Coloured(image, same)
  BY <1>3, <1>4, <1>7, <1>10, RenamedColours
<1>12. TouchFor(Borders(same), Borders(m), r1, r2, V)
  BY <1>3, <1>5, <1>6, RenamedBorders
<1> HIDE DEF same
<1>13. \A j \in 1 .. n : same[j] = r1 => image[j] = colour
  BY <1>7, <1>10
<1>14. \A j \in 1 .. n : Touch(n + 1, j) => same[j] = r1
  BY <1>2, <1>10, TouchedHere
<1>15. Coloured(image', m1)
  <2>1. Coloured(Append(image, colour), Append(same, r1))
    BY <1>3, <1>10, <1>11, <1>13, <1>14, ColouredMore
  <2>2. QED
    BY <1>8, <2>1
<1>16. Borders(m1) = Borders(same)
  BY <1>10, <1>14, SameBorders
<1>17. <<r1, r1>> \notin Borders(m) /\ <<r1, r2>> \notin Borders(m)
  <2>1. ~ Bordering(m, r1, r1)
    BY DEF Bordering
  <2>2. ~ Bordering(m, r1, r2)
    BY <1>4, <1>7 DEF Bordering, Coloured
  <2>3. QED
    BY <1>10, <2>1, <2>2, BordersAre
<1>18. Sound(Merged(regions, r1, r2), D, V \ {r2}, Borders(same))
  BY <1>3, <1>4, <1>5, <1>6, <1>12, <1>17, MergedIsSound
<1>19. Sound(regions', D, V \ {r2}, Borders(same))
  <2>1. V \ {r2} \subseteq D /\ r1 \in D
    BY <1>3, <1>5
  <2>2. QED
    BY <1>3, <1>8, <1>18, <2>1, EdgeIsSound
<1>20. LiveIn(m1) = V \ {r2}
  BY <1>3, <1>5, <1>6, LiveRenamed DEF same, V
<1>21. FreedOnce(freed', V \ {r2}) /\ FreedIn(freed') = FreedIn(freed) \cup {r2}
  BY <1>3, <1>4, <1>5, <1>8, FreedFirst
<1>22. regions' \in Seq(RegionRecord) /\ DOMAIN regions' = D
  BY <1>3, <1>19, SoundSequence
<1>23. D = (V \ {r2}) \cup FreedIn(freed')
  BY <1>4, <1>5, <1>21
<1> HIDE DEF m1
<1>24. SegState(image', cells', refs', regions', freed', m1)
  BY <1>9, <1>15, <1>16, <1>19, <1>20, <1>21, <1>22, <1>23 DEF SegState
<1>25. QED
  BY <1>24

-----------------------------------------------------------------------------
(* A pixel that starts a region.                                           *)

\* The region that is taken is not in use, and the freed ones stay as they are.
Taken == IF freed = <<>> THEN Len(regions) + 1 ELSE Head(freed)

LEMMA FreedButFirstIs ==
  ASSUME NEW V, V \subseteq Nat, FreedOnce(freed, V), freed # <<>>
  PROVE  /\ Head(freed) \in Nat \ V /\ FreedIn(freed) = FreedIn(Tail(freed)) \cup {Head(freed)}
         /\ FreedOnce(Tail(freed), V \cup {Head(freed)})
<1> DEFINE n == Len(freed)
           r == Head(freed)
           rest == Tail(freed)
<1>1. freed \in Seq(Nat) /\ n \in Nat /\ \A i, j \in 1 .. n : freed[i] \notin V /\ (freed[i] = freed[j] => i = j)
  BY LenProperties DEF FreedOnce
<1>2. /\ n > 0 /\ r = freed[1] /\ r \in Nat /\ rest \in Seq(Nat) /\ Len(rest) = n - 1
      /\ \A i \in 1 .. n - 1 : rest[i] = freed[i + 1]
  <2>1. n # 0
    BY <1>1, EmptySeq
  <2>2. n > 0
    BY <1>1, <2>1
  <2>3. r = freed[1]
    BY <1>1, HeadTailProperties
  <2>4. r \in Nat
    BY <1>1, <2>2, <2>3, ElementOfSeq
  <2>5. rest \in Seq(Nat) /\ Len(rest) = n - 1 /\ \A i \in 1 .. Len(rest) : rest[i] = freed[i + 1]
    BY <1>1, HeadTailProperties
  <2>6. QED
    BY <2>2, <2>3, <2>4, <2>5
<1> HIDE DEF n, r, rest
<1>3. ASSUME NEW i \in 1 .. n - 1, NEW j \in 1 .. n - 1
      PROVE  rest[i] \notin V \cup {r} /\ (rest[i] = rest[j] => i = j)
  <2>1. /\ i + 1 \in 1 .. n /\ j + 1 \in 1 .. n /\ 1 \in 1 .. n
        /\ i + 1 # 1 /\ (i + 1 = j + 1 => i = j)
    BY <1>1, <1>2
  <2>2. rest[i] = freed[i + 1] /\ rest[j] = freed[j + 1] /\ r = freed[1]
    BY <1>2
  <2>3. rest[i] \notin V /\ (freed[i + 1] = freed[j + 1] => i + 1 = j + 1)
    BY <1>1, <2>1, <2>2
  <2>4. rest[i] # r
    BY <1>1, <2>1, <2>2
  <2>5. QED
    BY <2>1, <2>2, <2>3, <2>4
<1>4. FreedOnce(rest, V \cup {r})
  BY <1>2, <1>3 DEF FreedOnce
<1>5. r \in Nat \ V
  <2>1. 1 \in 1 .. n
    BY <1>1, <1>2
  <2>2. QED
    BY <1>1, <1>2, <2>1
<1>6. FreedIn(freed) = FreedIn(rest) \cup {r}
  <2>1. \A i \in 1 .. n - 1 : i + 1 \in 1 .. n
    BY <1>1
  <2>2. \A i \in 1 .. n : i # 1 => i - 1 \in 1 .. n - 1 /\ (i - 1) + 1 = i
    BY <1>1
  <2>3. 1 \in 1 .. n
    BY <1>1, <1>2
  <2>4. FreedIn(freed) = { freed[i] : i \in 1 .. n } /\ FreedIn(rest) = { rest[i] : i \in 1 .. n - 1 }
    BY <1>2 DEF FreedIn, n
  <2>5. \A a \in FreedIn(rest) : a \in FreedIn(freed)
    BY <1>2, <2>1, <2>4
  <2>6. \A a \in FreedIn(freed) : a = r \/ a \in FreedIn(rest)
    BY <1>2, <2>2, <2>4
  <2>7. r \in FreedIn(freed)
    BY <1>2, <2>3, <2>4
  <2>8. QED
    BY <2>5, <2>6, <2>7
<1>7. QED
  BY <1>4, <1>5, <1>6 DEF r, rest

\* What is taken, and what is left.
LEMMA TakenIs ==
  ASSUME NEW m, SegState(image, cells, refs, regions, freed, m)
  PROVE  /\ Taken \in 1 .. Len(regions) + 1 /\ Taken \in Nat /\ Taken \notin LiveIn(m)
         /\ FreedOnce(FreedButFirst, LiveIn(m) \cup {Taken})
         /\ DOMAIN regions \cup {Taken} = (LiveIn(m) \cup {Taken}) \cup FreedIn(FreedButFirst)
         /\ \E n \in Nat : DOMAIN regions \cup {Taken} = 1 .. n
<1> DEFINE D == DOMAIN regions
           V == LiveIn(m)
           k == Len(regions)
<1>1. V \subseteq Nat /\ V \subseteq D /\ D = 1 .. k /\ k \in Nat
  BY StateFacts
<1>2. FreedOnce(freed, V) /\ D = V \cup FreedIn(freed)
  BY DEF SegState
<1> HIDE DEF D, V, k
<1>3. CASE freed = <<>>
  <2>1. Taken = k + 1 /\ FreedButFirst = <<>>
    BY <1>3 DEF Taken, FreedButFirst, k
  <2>2. k + 1 \in 1 .. k + 1 /\ k + 1 \in Nat /\ k + 1 \notin 1 .. k
        /\ (1 .. k) \cup {k + 1} = 1 .. k + 1
    BY <1>1
  <2>3. Len(freed) = 0 /\ freed \in Seq(Nat)
    BY <1>3 DEF FreedOnce
  <2>4. FreedIn(freed) = {} /\ 1 .. 0 = {}
    BY <2>3 DEF FreedIn
  <2>5. FreedOnce(freed, V \cup {Taken})
    BY <2>3, <2>4 DEF FreedOnce
  <2>6. D \cup {Taken} = (V \cup {Taken}) \cup FreedIn(FreedButFirst)
    BY <1>2, <1>3, <2>1, <2>4
  <2>7. QED
    BY <1>1, <1>3, <2>1, <2>2, <2>5, <2>6 DEF D, V, k
<1>4. CASE freed # <<>>
  <2>1. Taken = Head(freed) /\ FreedButFirst = Tail(freed)
    BY <1>4 DEF Taken, FreedButFirst
  <2>2. /\ Taken \in Nat \ V /\ FreedIn(freed) = FreedIn(FreedButFirst) \cup {Taken}
        /\ FreedOnce(FreedButFirst, V \cup {Taken})
    BY <1>1, <1>2, <1>4, <2>1, FreedButFirstIs
  <2>3. Taken \in D
    BY <1>2, <2>2
  <2>4. Taken \in 1 .. k + 1
    BY <1>1, <2>3
  <2>5. D \cup {Taken} = D
    BY <2>3
  <2>6. D \cup {Taken} = (V \cup {Taken}) \cup FreedIn(FreedButFirst)
    BY <1>2, <2>2
  <2>7. \E n \in Nat : D \cup {Taken} = 1 .. n
    BY <1>1, <2>5
  <2>8. QED
    BY <2>2, <2>4, <2>6, <2>7 DEF D, V, k
<1>5. QED
  BY <1>3, <1>4

\* The region of a neighbour is listed, and nothing else touches.
AlsoTouching(N, a, b) == N \cup {<<a, b>>, <<b, a>>}

LEMMA AlsoTouchingIs ==
  ASSUME NEW N, NEW a, NEW b, NEW V
  PROVE  AlsoTouch(AlsoTouching(N, a, b), N, a, b, V)
BY DEF AlsoTouch, AlsoTouching

\* What NewRegion writes into the regions.
NewRegions(colour) ==
  LET s == Allocated(SpanEnded, Taken, colour)
      t == IF HasNorth THEN MadeAdjacent(s, Taken, NorthRegion) ELSE s
  IN  IF HasWest /\ ~ (HasNorth /\ WestRegion = NorthRegion)
      THEN MadeAdjacent(t, Taken, WestRegion) ELSE t

LEMMA NewIs ==
  ASSUME NEW colour, NewRegion(colour)
  PROVE  /\ ~ SameAsWest(colour) /\ ~ SameAsNorth(colour)
         /\ Becomes(colour, Len(refs) + 1, Taken, NewRegions(colour))
         /\ refs' = Append(refs, [ redirect |-> Len(refs) + 1, region |-> Taken ])
         /\ freed' = FreedButFirst
BY DEF NewRegion, NewRegions, Taken

\* One more neighbour, in a list that may be full.
LEMMA NextTo ==
  ASSUME NEW D, D \subseteq Nat, NEW V, V \subseteq D, NEW N, NEW s, Sound(s, D, V, N),
         NEW a \in V, NEW b \in V, a # b, NEW wanted \in BOOLEAN,
         NEW t, t = IF wanted THEN MadeAdjacent(s, a, b) ELSE s,
         NEW M, M = IF wanted THEN AlsoTouching(N, a, b) ELSE N
  PROVE  Sound(t, D, V, M)
<1>1. CASE wanted
  BY <1>1, AlsoTouchingIs, MadeAdjacentIsSound
<1>2. CASE ~ wanted
  BY <1>2
<1>3. QED
  BY <1>1, <1>2

LEMMA AlsoTouchingPairs ==
  ASSUME NEW N, NEW wanted \in BOOLEAN, NEW a, NEW b, NEW x, NEW y
  PROVE  <<x, y>> \in (IF wanted THEN AlsoTouching(N, a, b) ELSE N) <=>
           <<x, y>> \in N \/ (wanted /\ ((x = a /\ y = b) \/ (x = b /\ y = a)))
<1>1. <<x, y>> \in AlsoTouching(N, a, b) <=>
        <<x, y>> \in N \/ (x = a /\ y = b) \/ (x = b /\ y = a)
  <2>1. <<x, y>> \in {<<a, b>>, <<b, a>>} <=> (x = a /\ y = b) \/ (x = b /\ y = a)
    OBVIOUS
  <2>2. QED
    BY <2>1 DEF AlsoTouching
<1>2. CASE wanted
  BY <1>1, <1>2
<1>3. CASE ~ wanted
  BY <1>3
<1>4. QED
  BY <1>2, <1>3

\* The pairs of the new region r, which touches the regions n and w.
NewBorders(N, r, north, n, west, w) ==
  LET above == IF north THEN AlsoTouching(N, r, n) ELSE N
  IN  IF west THEN AlsoTouching(above, r, w) ELSE above

LEMMA NewBordersAre ==
  ASSUME NEW N, NEW r, NEW north \in BOOLEAN, NEW n, NEW west \in BOOLEAN, NEW w, NEW a, NEW b
  PROVE  <<a, b>> \in NewBorders(N, r, north, n, west, w) <=>
           \/ <<a, b>> \in N
           \/ north /\ ((a = r /\ b = n) \/ (a = n /\ b = r))
           \/ west /\ ((a = r /\ b = w) \/ (a = w /\ b = r))
<1> DEFINE above == IF north THEN AlsoTouching(N, r, n) ELSE N
           all == IF west THEN AlsoTouching(above, r, w) ELSE above
<1>1. <<a, b>> \in above <=> <<a, b>> \in N \/ (north /\ ((a = r /\ b = n) \/ (a = n /\ b = r)))
  BY AlsoTouchingPairs
<1> HIDE DEF above
<1>2. <<a, b>> \in all <=> <<a, b>> \in above \/ (west /\ ((a = r /\ b = w) \/ (a = w /\ b = r)))
  BY AlsoTouchingPairs
<1>3. all = NewBorders(N, r, north, n, west, w)
  BY DEF NewBorders, above
<1> HIDE DEF all
<1>4. QED
  BY <1>1, <1>2, <1>3

\* The regions around the pixel are in use, and the new one is none of them.
LEMMA AroundIs ==
  ASSUME NEW m, SegState(image, cells, refs, regions, freed, m)
  PROVE  /\ HasNorth => NorthRegion \in LiveIn(m) /\ NorthRegion # Taken
         /\ HasWest => WestRegion \in LiveIn(m) /\ WestRegion # Taken
<1>1. Taken \notin LiveIn(m) /\ Len(m) = Len(image) /\ \A i \in 1 .. Len(image) : m[i] \in LiveIn(m)
  BY TakenIs, StateFacts
<1>2. ASSUME HasNorth PROVE NorthRegion \in LiveIn(m) /\ NorthRegion # Taken
  BY <1>1, <1>2, NorthFacts
<1>3. ASSUME HasWest PROVE WestRegion \in LiveIn(m) /\ WestRegion # Taken
  BY <1>1, <1>3, WestFacts
<1>4. QED
  BY <1>2, <1>3

LEMMA NewRegionsAreSound ==
  ASSUME NEW m, SegState(image, cells, refs, regions, freed, m),
         NEW colour \in {Black, White}
  PROVE  Sound(NewRegions(colour), DOMAIN regions \cup {Taken}, LiveIn(m) \cup {Taken},
               NewBorders(Borders(m), Taken, HasNorth, NorthRegion,
                          HasWest /\ ~ (HasNorth /\ WestRegion = NorthRegion), WestRegion))
<1> DEFINE D == DOMAIN regions
           V == LiveIn(m)
           N == Borders(m)
           k == Len(regions)
           r == Taken
           n == NorthRegion
           w == WestRegion
           west == HasWest /\ ~ (HasNorth /\ w = n)
           E == D \cup {r}
           W == V \cup {r}
           s == Allocated(SpanEnded, r, colour)
           t == IF HasNorth THEN MadeAdjacent(s, r, n) ELSE s
           u == IF west THEN MadeAdjacent(t, r, w) ELSE t
           above == IF HasNorth THEN AlsoTouching(N, r, n) ELSE N
           M == IF west THEN AlsoTouching(above, r, w) ELSE above
<1>1. V \subseteq Nat /\ V \subseteq D /\ D = 1 .. k /\ k \in Nat /\ Here \in Nat \ {0}
  BY StateFacts
<1>2. r \in 1 .. k + 1 /\ r \in Nat /\ r \notin V
  BY TakenIs
<1>3. Sound(SpanEnded, D, V, N) /\ SpanEnded \in Seq(RegionRecord) /\ Len(SpanEnded) = k
  BY SpanIsSound
<1>4. \A a \in Nat : <<a, r>> \in N \/ <<r, a>> \in N => r \in V
  <2> SUFFICES ASSUME NEW a \in Nat, <<a, r>> \in N \/ <<r, a>> \in N PROVE r \in V
    OBVIOUS
  <2>1. Bordering(m, a, r) \/ Bordering(m, r, a)
    BY <1>2, BordersAre
  <2>2. QED
    BY <2>1 DEF Bordering, LiveIn
<1>5. \A a \in V : <<a, r>> \notin N /\ <<r, a>> \notin N
  BY <1>1, <1>2, <1>4
<1>6. <<r, r>> \notin N
  BY <1>2, <1>4
<1>7. HasNorth => n \in V /\ n # r
  BY AroundIs
<1>8. HasWest => w \in V /\ w # r
  BY AroundIs
<1>9. HasNorth \in BOOLEAN /\ west \in BOOLEAN /\ (west => HasWest)
  BY DEF HasNorth
<1>10. NewRegions(colour) = u
  BY DEF NewRegions
<1>11. NewBorders(N, r, HasNorth, n, west, w) = M
  BY DEF NewBorders
<1> HIDE DEF D, V, N, k, r, n, w, west
<1>12. Sound(s, E, W, N)
  BY <1>1, <1>2, <1>3, <1>5, <1>6, AllocatedIsSound
<1>13. E \subseteq Nat /\ W \subseteq E /\ r \in W
  <2>1. D \subseteq Nat
    BY <1>1
  <2>2. QED
    BY <1>1, <1>2, <2>1
<1>14. (HasNorth => n \in W) /\ (west => w \in W /\ w # r)
  BY <1>7, <1>8, <1>9
<1> HIDE DEF E, W, s
<1>15. Sound(t, E, W, above)
  <2>1. CASE HasNorth
    BY <1>7, <1>9, <1>12, <1>13, <1>14, <2>1, NextTo
  <2>2. CASE ~ HasNorth
    BY <1>12, <2>2
  <2>3. QED
    BY <2>1, <2>2
<1> HIDE DEF t, above
<1>16. Sound(u, E, W, M)
  <2>1. CASE west
    BY <1>9, <1>13, <1>14, <1>15, <2>1, NextTo
  <2>2. CASE ~ west
    BY <1>15, <2>2
  <2>3. QED
    BY <2>1, <2>2
<1>17. Sound(NewRegions(colour), E, W, NewBorders(N, r, HasNorth, n, west, w))
  BY <1>10, <1>11, <1>16
<1>18. QED
  BY <1>17 DEF D, V, N, k, r, n, w, west, E, W

\* The pairs of the new region are those of its pixel.
LEMMA NewBordersAreThose ==
  ASSUME NEW m, SegState(image, cells, refs, regions, freed, m),
         NEW a \in LiveIn(m) \cup {Taken}, NEW b \in LiveIn(m) \cup {Taken}
  PROVE  <<a, b>> \in Borders(Append(m, Taken)) <=>
           <<a, b>> \in NewBorders(Borders(m), Taken, HasNorth, NorthRegion,
                          HasWest /\ ~ (HasNorth /\ WestRegion = NorthRegion), WestRegion)
<1> DEFINE r == Taken
           n == NorthRegion
           w == WestRegion
           west == HasWest /\ ~ (HasNorth /\ w = n)
<1>1. m \in Seq(Nat) /\ LiveIn(m) \subseteq Nat /\ Len(m) = Len(image)
  BY StateFacts
<1>2. r \in Nat
  BY TakenIs
<1>3. a \in Nat /\ b \in Nat
  BY <1>1, <1>2
<1>4. /\ HasNorth => Here - Width \in 1 .. Len(m) /\ m[Here - Width] = n /\ n # r
      /\ HasWest => Here - 1 \in 1 .. Len(m) /\ m[Here - 1] = w /\ w # r
  BY <1>1, WestFacts, NorthFacts, AroundIs
<1>5. \A j \in 1 .. Len(m) : Touch(Len(m) + 1, j) <=>
        (HasWest /\ j = Here - 1) \/ (HasNorth /\ j = Here - Width)
  BY TouchedHere
<1>6. HasNorth \in BOOLEAN /\ west \in BOOLEAN /\ (west <=> HasWest /\ ~ (HasNorth /\ w = n))
  BY DEF HasNorth
<1> HIDE DEF r, n, w, west
<1>7. <<a, b>> \in NewBorders(Borders(m), r, HasNorth, n, west, w) <=>
        \/ <<a, b>> \in Borders(m)
        \/ HasNorth /\ ((a = r /\ b = n) \/ (a = n /\ b = r))
        \/ west /\ ((a = r /\ b = w) \/ (a = w /\ b = r))
  BY <1>6, NewBordersAre
<1>8. <<a, b>> \in Borders(m) <=> Bordering(m, a, b)
  BY <1>3, BordersAre
<1>9. <<a, b>> \in Borders(Append(m, r)) <=> Bordering(Append(m, r), a, b)
  BY <1>3, BordersAre
<1>10. Bordering(Append(m, r), a, b) <=>
         \/ Bordering(m, a, b)
         \/ /\ a # b
            /\ \E j \in 1 .. Len(m) :
                 Touch(Len(m) + 1, j) /\ ((a = r /\ b = m[j]) \/ (b = r /\ a = m[j]))
  BY <1>1, <1>2, MoreBorders
<1>11. (\E j \in 1 .. Len(m) :
          Touch(Len(m) + 1, j) /\ ((a = r /\ b = m[j]) \/ (b = r /\ a = m[j]))) <=>
         \/ HasNorth /\ ((a = r /\ b = n) \/ (a = n /\ b = r))
         \/ HasWest /\ ((a = r /\ b = w) \/ (a = w /\ b = r))
  BY <1>4, <1>5
<1>12. <<a, b>> \in Borders(Append(m, r)) <=>
           <<a, b>> \in NewBorders(Borders(m), r, HasNorth, n, west, w)
  BY <1>4, <1>6, <1>7, <1>8, <1>9, <1>10, <1>11
<1>13. QED
  BY <1>12 DEF r, n, w, west

LEMMA NewKeeps ==
  ASSUME NEW m, SegState(image, cells, refs, regions, freed, m),
         NEW colour \in {Black, White}, NewRegion(colour)
  PROVE  \E m1 : SegState(image', cells', refs', regions', freed', m1)
<1> DEFINE r == Taken
           more == Append(m, r)
           D == DOMAIN regions \cup {r}
           V == LiveIn(m) \cup {r}
           s == NewRegions(colour)
           ref == Len(refs) + 1
           N == NewBorders(Borders(m), r, HasNorth, NorthRegion,
                           HasWest /\ ~ (HasNorth /\ WestRegion = NorthRegion), WestRegion)
<1>1. /\ ~ SameAsWest(colour) /\ ~ SameAsNorth(colour)
      /\ image' = Append(image, colour) /\ cells' = Append(cells, ref)
      /\ refs' = Append(refs, [ redirect |-> ref, region |-> r ])
      /\ regions' = IF AtEdge THEN Flagged(s, r, "root") ELSE s
      /\ freed' = FreedButFirst
  BY NewIs DEF Becomes
<1>2. /\ image \in Seq({Black, White}) /\ m \in Seq(Nat) /\ Len(m) \in Nat /\ Len(image) = Len(m)
      /\ LiveIn(m) \subseteq Nat /\ LiveIn(m) \subseteq DOMAIN regions
      /\ DOMAIN regions = 1 .. Len(regions) /\ Len(regions) \in Nat
      /\ \A i \in 1 .. Len(image) : m[i] \in LiveIn(m)
  BY StateFacts
<1>3. Pointed(image, cells, refs, m) /\ Coloured(image, m)
  BY DEF SegState
<1>4. /\ r \in Nat /\ r \notin LiveIn(m) /\ FreedOnce(FreedButFirst, V)
      /\ D = V \cup FreedIn(FreedButFirst)
  BY TakenIs
<1>5. PICK k \in Nat : D = 1 .. k
  BY TakenIs
<1>6. Sound(s, D, V, N)
  BY NewRegionsAreSound
<1>7. \A a, b \in V : <<a, b>> \in Borders(more) <=> <<a, b>> \in N
  BY NewBordersAreThose
<1>8. V \subseteq D /\ D \subseteq Nat /\ r \in D
  <2>1. D \subseteq Nat
    BY <1>5
  <2>2. QED
    BY <1>2, <2>1
<1>9. LiveIn(more) = V
  BY <1>2, <1>4, LiveMore
<1>10. \A i \in 1 .. Len(image) : m[i] # r
  BY <1>2, <1>4
<1> HIDE DEF r, D, V, s, ref, N
<1>11. Pointed(image', cells', refs', more)
  BY <1>1, <1>3, <1>4, <1>10, PointedNew DEF ref
<1>12. Coloured(image', more)
  <2>1. \A j \in 1 .. Len(m) : Touch(Len(m) + 1, j) => image[j] # colour
    BY <1>1, TouchedHere DEF SameAsWest, SameAsNorth
  <2>2. Coloured(Append(image, colour), Append(m, r))
    BY <1>2, <1>3, <1>4, <1>10, <2>1, ColouredMore
  <2>3. QED
    BY <1>1, <2>2
<1> HIDE DEF more
<1>13. Sound(s, D, V, Borders(more))
  BY <1>6, <1>7, SameTouch
<1>14. Sound(regions', D, V, Borders(more))
  BY <1>1, <1>8, <1>13, EdgeIsSound
<1>15. regions' \in Seq(RegionRecord) /\ DOMAIN regions' = D
  BY <1>5, <1>14, SoundSequence
<1>16. SegState(image', cells', refs', regions', freed', more)
  BY <1>1, <1>4, <1>9, <1>11, <1>12, <1>14, <1>15 DEF SegState
<1>17. QED
  BY <1>16

-----------------------------------------------------------------------------
(* The invariant holds.                                                    *)

SegInv == \E m : SegState(image, cells, refs, regions, freed, m)

LEMMA NothingReadYet == SegState(<<>>, <<>>, <<>>, <<>>, <<>>, <<>>)
<1> DEFINE e == <<>>
<1>1. \A S : e \in Seq(S)
  BY EmptySeq
<1>2. Len(e) = 0 /\ DOMAIN e = {} /\ 1 .. 0 = {}
  BY EmptySeq
<1>3. LiveIn(e) = {} /\ FreedIn(e) = {}
  BY <1>2 DEF LiveIn, FreedIn
<1> HIDE DEF e
<1>4. Leads(e, e, e)
  BY <1>2 DEF Leads
<1>5. Pointed(e, e, e, e)
  BY <1>1, <1>2, <1>4 DEF Pointed
<1>6. Coloured(e, e) /\ FreedOnce(e, {})
  BY <1>1, <1>2 DEF Coloured, FreedOnce
<1>7. Sound(e, {}, {}, Borders(e))
  <2>1. e \in [ {} -> RegionRecord ]
    BY <1>1, <1>2, SeqDef
  <2>2. Lists(e, {}) /\ Covers(e, {}, Borders(e))
    BY DEF Lists, Covers
  <2>3. QED
    BY <2>1, <2>2 DEF Sound
<1>8. SegState(e, e, e, e, e, e)
  BY <1>1, <1>2, <1>3, <1>5, <1>6, <1>7 DEF SegState
<1>9. QED
  BY <1>8 DEF e

LEMMA SegInitInv == SegInit => SegInv
BY NothingReadYet DEF SegInit, SegInv

LEMMA SegNextInv ==
  ASSUME SegInv, SegNext
  PROVE  SegInv'
<1>1. PICK m : SegState(image, cells, refs, regions, freed, m)
  BY DEF SegInv
<1>2. CASE NextImage
  BY <1>2, NothingReadYet DEF NextImage, SegInv
<1>3. CASE ReadPixel
  <2>1. PICK colour \in {Black, White} :
          Continue(colour) \/ Merge(colour) \/ Join(colour) \/ NewRegion(colour)
    BY <1>3 DEF ReadPixel
  <2>2. \E m1 : SegState(image', cells', refs', regions', freed', m1)
    BY <1>1, <2>1, ContinueKeeps, MergeKeeps, JoinKeeps, NewKeeps
  <2>3. QED
    BY <2>2 DEF SegInv
<1>4. QED
  BY <1>2, <1>3 DEF SegNext

LEMMA SegRestInv ==
  ASSUME SegInv, UNCHANGED segVars
  PROVE  SegInv'
BY DEF SegInv, segVars

-----------------------------------------------------------------------------
(* What it says of the properties.                                         *)

LEMMA InUse ==
  ASSUME NEW m, SegState(image, cells, refs, regions, freed, m)
  PROVE  /\ RegionOf = m /\ Pixels = 1 .. Len(m) /\ Live = LiveIn(m)
         /\ \A r \in Live : Neighbours(r) = { q \in Live : Bordering(m, r, q) }
<1>1. Pointed(image, cells, refs, m) /\ image \in Seq({Black, White}) /\ Len(m) = Len(image)
  BY StateFacts DEF SegState
<1>2. RegionOf = m
  BY <1>1, PointedRegions
<1>3. Pixels = 1 .. Len(m)
  BY <1>1, LenProperties DEF Pixels
<1>4. Live = LiveIn(m)
  BY <1>2, <1>3 DEF Live, LiveIn
<1>5. ASSUME NEW r \in Live
      PROVE  Neighbours(r) = { q \in Live : Bordering(m, r, q) }
  <2>1. Neighbours(r) = { m[j] : j \in { j \in 1 .. Len(m) :
                             \E i \in 1 .. Len(m) : m[i] = r /\ Touch(i, j) } } \ {r}
    BY <1>2, <1>3 DEF Neighbours, PixelsOf
  <2>2. \A q : q \in Neighbours(r) <=> Bordering(m, r, q)
    BY <2>1 DEF Bordering
  <2>3. \A q : Bordering(m, r, q) => q \in Live
    BY <1>4 DEF Bordering, LiveIn
  <2>4. QED
    BY <2>2, <2>3
<1>6. QED
  BY <1>2, <1>3, <1>4, <1>5

LEMMA SegInvIsRight == SegInv => SegTypeOK /\ AdjacencyIsMutual /\ LossesAreFlagged
<1> SUFFICES ASSUME SegInv PROVE SegTypeOK /\ AdjacencyIsMutual /\ LossesAreFlagged
  OBVIOUS
<1>1. PICK m : SegState(image, cells, refs, regions, freed, m)
  BY DEF SegInv
<1> DEFINE D == DOMAIN regions
           V == LiveIn(m)
<1>2. /\ Pointed(image, cells, refs, m) /\ FreedOnce(freed, V)
      /\ D = V \cup FreedIn(freed) /\ Sound(regions, D, V, Borders(m))
  BY <1>1 DEF SegState
<1>3. /\ Pixels = 1 .. Len(m) /\ Live = V /\ Len(m) = Len(image) /\ image \in Seq({Black, White})
      /\ \A r \in V : Neighbours(r) = { q \in V : Bordering(m, r, q) }
      /\ V \subseteq D /\ V \subseteq Nat
  BY <1>1, InUse, StateFacts
<1>4. regions \in [ D -> RegionRecord ] /\ Lists(regions, V) /\ Covers(regions, V, Borders(m))
  BY <1>2 DEF Sound
<1> HIDE DEF D, V
<1>5. DOMAIN freed = 1 .. Len(freed)
  BY <1>2, LenProperties DEF FreedOnce
<1>6. SegTypeOK
  <2>1. Len(cells) = Len(image) /\ \A i \in Pixels : cells[i] \in DOMAIN refs
    BY <1>2, <1>3 DEF Pointed
  <2>2. \A i, j \in DOMAIN freed : freed[i] \notin Live /\ (freed[i] = freed[j] => i = j)
    BY <1>2, <1>3, <1>5 DEF FreedOnce
  <2>3. DOMAIN regions = Live \cup { freed[i] : i \in DOMAIN freed }
    BY <1>2, <1>3, <1>5 DEF FreedIn, D
  <2>4. \A r \in Live : Len(regions[r].adjacent) <= MaxAdjacent
    BY <1>3, <1>4 DEF Lists
  <2>5. QED
    BY <1>3, <2>1, <2>2, <2>3, <2>4 DEF SegTypeOK
<1>7. ASSUME NEW r \in V
      PROVE  /\ regions[r].adjacent \in Seq(Nat) /\ ToSet(regions[r].adjacent) \subseteq V \ {r}
             /\ \A q : q \in ToSet(regions[r].adjacent) <=> Times(regions, r, q) > 0
  <2>1. regions[r].adjacent \in Seq(Nat)
    BY <1>3, <1>4, ListOf
  <2>2. \A q : q \in ToSet(regions[r].adjacent) <=> Times(regions, r, q) > 0
    BY <2>1, ContainsCounts DEF Times
  <2>3. ToSet(regions[r].adjacent) \subseteq V \ {r}
    BY <1>4 DEF Lists
  <2>4. QED
    BY <2>1, <2>2, <2>3
<1>8. AdjacencyIsMutual
  <2> SUFFICES ASSUME NEW r \in V, NEW q \in ToSet(regions[r].adjacent)
               PROVE  Count(regions[r].adjacent, q) = Count(regions[q].adjacent, r)
    BY <1>3 DEF AdjacencyIsMutual
  <2>1. q \in V
    BY <1>7
  <2>2. QED
    BY <1>4, <2>1 DEF Lists, Times
<1>9. LossesAreFlagged
  <2> SUFFICES ASSUME NEW r \in V
               PROVE  LET listed == ToSet(regions[r].adjacent)
                      IN  /\ listed \subseteq Neighbours(r)
                          /\ regions[r].flags \cap {"saturated", "fragmented"} = {}
                               => listed = Neighbours(r)
    BY <1>3 DEF LossesAreFlagged
  <2>1. \A q \in V : <<r, q>> \in Borders(m) <=> q \in Neighbours(r)
    BY <1>3, BordersAre
  <2>2. \A q : q \in Neighbours(r) => q \in V
    BY <1>3
  <2>3. \A q \in ToSet(regions[r].adjacent) : q \in Neighbours(r)
    BY <1>4, <1>7, <2>1 DEF Covers
  <2>4. ASSUME Unflagged(regions, r)
        PROVE  \A q \in Neighbours(r) : q \in ToSet(regions[r].adjacent)
    BY <1>4, <1>7, <2>1, <2>2, <2>4 DEF Covers
  <2>5. QED
    BY <2>3, <2>4 DEF Unflagged
<1>10. QED
  BY <1>6, <1>8, <1>9

-----------------------------------------------------------------------------
(* The regions of the wide image.                                          *)

WideInv == part = "wide" => SegInv

LEMMA WideInvInit == RecognitionInit => WideInv
BY SegInitInv DEF RecognitionInit, WideInv

LEMMA WideInvStep ==
  ASSUME WideInv, [RecognitionNext]_mcVars
  PROVE  WideInv'
<1> SUFFICES ASSUME part' = "wide" PROVE SegInv'
  BY DEF WideInv
<1>1. part = "wide" /\ (SegNext \/ UNCHANGED segVars)
  BY DEF RecognitionNext, ThinStep, WideStep, RootsStep, StringsStep, FingersStep, mcVars
<1>2. SegInv
  BY <1>1 DEF WideInv
<1>3. QED
  BY <1>1, <1>2, SegNextInv, SegRestInv

LEMMA WideInvIsRight == WideInv => AdjacencyIsSound
BY SegInvIsRight DEF WideInv, AdjacencyIsSound

\* For images of any size, and lists of any length: after every pixel no
\* region is freed while it is used or freed twice, two regions list each other
\* equally often, the lists hold regions that touch, and a region that is
\* neither saturated nor fragmented lists all of them (AdjacencyIsSound).
THEOREM AdjacencyStaysSound == RecognitionSpec => []AdjacencyIsSound
BY WideInvInit, WideInvStep, WideInvIsRight, PTL DEF RecognitionSpec

=============================================================================
