----------------------------- MODULE FingerTracker -----------------------------
(***************************************************************************)
(* The list of fingers that ofxFiducialTracker keeps next to the fiducials *)
(* when detectFinger is set: findFingers matches the bright regions of a   *)
(* frame to the fingers of the list by their distance, and then ages the   *)
(* list.                                                                   *)
(*                                                                         *)
(* A region has integer coordinates.  Whether it has the size of a finger, *)
(* lies outside the fiducials, is round and passes check_finger() is one   *)
(* flag of the input; a region that has only the size may keep others from *)
(* a match.                                                                *)
(***************************************************************************)
EXTENDS Integers, Sequences, SequencesExt

CONSTANTS
  Points,         \* where regions are found, as pairs
  MaxFingerSize,  \* maxFingerSize, 4 unless the application changes it
  MaxRegions,     \* regions of a frame
  MaxFingers      \* fingers ever found

\* Pixels are counted from the corner of the image.
ASSUME PointsAssumption == Points \subseteq Nat \X Nat
ASSUME SizesAssumption == MaxFingerSize \in Nat /\ MaxFingers \in Nat /\ MaxRegions \in Nat

JitterThreshold == 1
Nowhere == -100       \* the coordinates the constructor sets
INITIAL_LIFE == 1

VARIABLES
  fingersList,  \* a sequence of fingers
  finger_id,    \* the id of the next one
  frame         \* history: the regions of the last frame

fingerVars == <<fingersList, finger_id, frame>>

-----------------------------------------------------------------------------
(* The methods of ofxFinger.                                               *)

\* ofxFinger() and operator=(RegionX): `last` is left at the constructor's.
NewFinger(id, p) ==
  [ id |-> id, current |-> p, last |-> <<Nowhere, Nowhere>>,
    updated |-> FALSE, life |-> INITIAL_LIFE ]

Abs(n) == IF n < 0 THEN - n ELSE n
Square(n) == n * n
Distance2(p, q) == Square(p[1] - q[1]) + Square(p[2] - q[2])

\* Mutation: jitter is measured from the last frame, and leaves the finger
\* where it is.
FilteredInPlace(f, p) ==
  [ c \in 1 .. 2 |-> IF Abs(p[c] - f.last[c]) > JitterThreshold THEN p[c] ELSE f.current[c] ]

\* Each coordinate that has moved by no more than the threshold falls back
\* on the last frame's.
Filtered(f, p) ==
  [ c \in 1 .. 2 |-> IF Abs(p[c] - f.current[c]) > JitterThreshold THEN p[c] ELSE f.last[c] ]

Updated(f, p) ==
  [ f EXCEPT !.current = Filtered(f, p), !.last = Filtered(f, p), !.updated = TRUE ]

\* isAlive(), which ages the finger.
Aged(f) ==
  IF f.updated THEN [ f EXCEPT !.updated = FALSE ]
  ELSE [ f EXCEPT !.current = f.last, !.life = @ - 1 ]

IsAlive(f) == Aged(f).life # 0

-----------------------------------------------------------------------------
(* findFingers().                                                          *)

\* Another region that is as close to region j as the finger is.
HasRival(regions, j, distance2) ==
  \E k \in DOMAIN regions \ {j} : Distance2(regions[k].at, regions[j].at) <= distance2

\* One round of the loop over the fingers: finger i is taken if it is close
\* enough and closer than the best one so far, but a rival beyond half the
\* size of a finger leaves the region without a match.
Considered(list, regions, j, best, i) ==
  LET d == Distance2(list[i].current, regions[j].at)
  IN  IF d >= Square(MaxFingerSize * 2) \/ d >= best.closest THEN best
      ELSE IF 4 * d <= Square(MaxFingerSize) THEN [ match |-> i, closest |-> d ]
      ELSE IF ~ HasRival(regions, j, d) THEN [ match |-> i, closest |-> d ]
      ELSE [ match |-> 0,
             closest |-> LET k == CHOOSE k \in DOMAIN regions \ {j} :
                               /\ Distance2(regions[k].at, regions[j].at) <= d
                               /\ \A l \in 1 .. k - 1 :
                                    l = j \/ Distance2(regions[l].at, regions[j].at) > d
                         IN  Distance2(regions[k].at, regions[j].at) ]

Farthest == 1000000   \* `closest` starts at the width of the image

Match(list, regions, j) ==
  FoldLeft(LAMBDA best, i : Considered(list, regions, j, best, i),
           [ match |-> 0, closest |-> Farthest ],
           [ i \in DOMAIN list |-> i ]).match

\* One region: it updates the finger it matches or becomes a new one, which
\* the regions behind it may match.
Processed(r, regions, j) ==
  IF ~ regions[j].finger THEN r
  ELSE LET i == Match(r.list, regions, j)
       IN  IF i = 0
           THEN [ r EXCEPT !.list = Append(@, NewFinger(r.next, regions[j].at)),
                           !.next = @ + 1 ]
           ELSE [ r EXCEPT !.list[i] = Updated(@, regions[j].at) ]

\* A finger of the list is aged, and stays if it is alive.
Kept(list, f) == IF IsAlive(f) THEN Append(list, Aged(f)) ELSE list

FindFingers(regions) ==
  LET r == FoldLeft(LAMBDA a, j : Processed(a, regions, j),
                    [ list |-> fingersList, next |-> finger_id ],
                    [ j \in DOMAIN regions |-> j ])
  IN  /\ r.next <= MaxFingers
      /\ fingersList' = FoldLeft(Kept, <<>>, r.list)
      /\ finger_id' = r.next
      /\ frame' = regions

Region == [ at : Points, finger : BOOLEAN ]

FingersInit ==
  /\ fingersList = <<>> /\ finger_id = 0 /\ frame = <<>>

FingersNext ==
  \E n \in 0 .. MaxRegions : \E regions \in [1 .. n -> Region] : FindFingers(regions)

FingersSpec == FingersInit /\ [][FingersNext]_fingerVars

-----------------------------------------------------------------------------
(* Properties.                                                             *)

ListedIds == { fingersList[i].id : i \in DOMAIN fingersList }

\* Types; the list is in the order of the ids, none of them twice.
ListTypeOK ==
  /\ \A i \in DOMAIN fingersList :
       /\ fingersList[i].id \in 0 .. finger_id - 1
       /\ fingersList[i].life = INITIAL_LIFE /\ ~ fingersList[i].updated
       /\ i > 1 => fingersList[i - 1].id < fingersList[i].id
  /\ finger_id \in 0 .. MaxFingers

\* The list stays in the order of the ids, without an id twice, and a new finger
\* is only kept if a second region of its first frame is taken
\* for it: it is aged in the frame it was found in, and has one life.  And
\* with fingers of four pixels it is not found in the frame after: the second
\* region has moved it to the coordinate the constructor set, out of the
\* reach of every region.
FingersFlicker ==
  [][ /\ ListTypeOK'
      /\ ListedIds' \ ListedIds # {} =>
           \E j, k \in DOMAIN frame' :
             /\ j # k /\ frame'[j].finger /\ frame'[k].finger
             /\ 4 * Distance2(frame'[j].at, frame'[k].at) <= Square(MaxFingerSize)
      /\ MaxFingerSize <= 4 => ListedIds \cap ListedIds' = {} ]_fingerVars
=============================================================================
