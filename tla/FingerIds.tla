------------------------------- MODULE FingerIds -------------------------------
(***************************************************************************)
(* How msaRemoteClient gives the cursors of a TUIO session their finger    *)
(* ids: the cursors on the surface, the ids that cursors lifted from below *)
(* the largest id left behind, and the largest id.  The ids are to be      *)
(* small numbers that start at 0, so that an application can tell the      *)
(* first finger from the second.                                           *)
(*                                                                         *)
(* TuioClient calls these operators from its message handlers.             *)
(***************************************************************************)
EXTENDS Integers, FiniteSets, FiniteSetsExt

CONSTANTS
  Sessions,    \* session ids of cursors; one that is gone may come back
  MaxFingers,  \* cursors on the surface at the same time
  MaxCopies    \* copies of an id in the free list; the code has no bound

ASSUME SessionsAssumption == IsFiniteSet(Sessions)
ASSUME MaxFingersAssumption == MaxFingers \in Nat \ {0}
ASSUME MaxCopiesAssumption == MaxCopies \in Nat \ {0}

Ids == 0 .. MaxFingers - 1

\* cursorList as the finger id of each session, freeCursorList as the number
\* of copies of each id: which of them is taken depends on where they are.
NoFingers ==
  [ cursors |-> [ s \in {} |-> 0 ], free |-> [ i \in Ids |-> 0 ], maxFingerID |-> -1 ]

Listed(f) == DOMAIN f.cursors
Used(f) == { f.cursors[s] : s \in Listed(f) }
Free(f) == { i \in Ids : f.free[i] > 0 }
LargestOf(ids) == IF ids = {} THEN -1 ELSE Max(ids)

With(f, s, i) == [ t \in Listed(f) \cup {s} |-> IF t = s THEN i ELSE f.cursors[t] ]
Without(f, s) == [ t \in Listed(f) \ {s} |-> f.cursors[t] ]

\* A new cursor takes the id of the free entry closest to it, any of them
\* here, or one more than the largest.  Without an entry the code follows
\* an iterator past the end of the list: nothing is said of what it does.
Added(f, s) ==
  LET n == Cardinality(Listed(f))
  IN  IF n > f.maxFingerID
      THEN { [ f EXCEPT !.cursors = With(f, s, n), !.maxFingerID = n ] }
      ELSE { [ f EXCEPT !.cursors = With(f, s, i), !.free[i] = @ - 1 ] : i \in Free(f) }

\* Mutation: the free ids above the new largest id are kept.
RemovedKeepsFree(f, s) ==
  LET rest == [ f EXCEPT !.cursors = Without(f, s) ]
  IN  IF f.cursors[s] = f.maxFingerID
      THEN [ rest EXCEPT !.maxFingerID = LargestOf(Used(rest)) ]
      ELSE IF f.cursors[s] < f.maxFingerID
      THEN [ rest EXCEPT !.free[f.cursors[s]] = @ + 1 ]
      ELSE rest

\* The cursor with the largest id takes the free ids above the new largest
\* one with it, but only if there is another cursor; one with a smaller id
\* leaves it free.
Removed(f, s) ==
  LET rest == [ f EXCEPT !.cursors = Without(f, s) ]
      largest == LargestOf(Used(rest))
  IN  IF f.cursors[s] = f.maxFingerID
      THEN [ rest EXCEPT
               !.maxFingerID = largest,
               !.free = IF Used(rest) = {} THEN @
                        ELSE [ i \in Ids |-> IF i > largest THEN 0 ELSE @[i] ] ]
      ELSE IF f.cursors[s] < f.maxFingerID
      THEN [ rest EXCEPT !.free[f.cursors[s]] = @ + 1 ]
      ELSE rest

\* The free list outlives the last cursor.
LeavesIdsBehind(f) == Used(f) = {} /\ Free(f) # {}

-----------------------------------------------------------------------------

VARIABLES
  fingers,
  leftover    \* history: the free list has outlived the last cursor

idVars == <<fingers, leftover>>

CursorAdded(s) ==
  /\ s \notin Listed(fingers)
  /\ Cardinality(Listed(fingers)) < MaxFingers
  /\ fingers' \in Added(fingers, s)
  /\ UNCHANGED leftover

CursorRemoved(s) ==
  /\ s \in Listed(fingers)
  /\ fingers.free[fingers.cursors[s]] < MaxCopies
  /\ fingers' = Removed(fingers, s)
  /\ leftover' = (leftover \/ LeavesIdsBehind(fingers'))

IdsInit == fingers = NoFingers /\ leftover = FALSE

IdsNext == \E s \in Sessions : CursorAdded(s) \/ CursorRemoved(s)

IdsSpec == IdsInit /\ [][IdsNext]_idVars

-----------------------------------------------------------------------------
(* Properties.                                                             *)

\* Types.
FingersTypeOK ==
  /\ Listed(fingers) \subseteq Sessions
  /\ Used(fingers) \subseteq Ids
  /\ fingers.free \in [Ids -> Nat]
  /\ fingers.maxFingerID \in Ids \cup {-1}
  /\ leftover \in BOOLEAN

\* Two cursors have two ids, and the used and the free ids are the numbers
\* up to the largest, each of them once: a new cursor finds a free entry
\* wherever the code takes one without looking (msaRemoteClient.h:133-141).
\* It holds for as long as the free list has not outlived the last cursor.
IdsAreDealtOnce ==
  ~ leftover =>
    /\ Cardinality(Used(fingers)) = Cardinality(Listed(fingers))
    /\ fingers.maxFingerID = LargestOf(Used(fingers))
    /\ Used(fingers) \cap Free(fingers) = {}
    /\ Used(fingers) \cup Free(fingers) = 0 .. fingers.maxFingerID
    /\ \A i \in Ids : fingers.free[i] <= 1
=============================================================================
