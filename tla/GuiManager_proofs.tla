--------------------------- MODULE GuiManager_proofs ---------------------------
(***************************************************************************)
(* What the tracker and the engine promise for any set of ids, positions   *)
(* and sizes, and what the handlers of a GuiGraph and of the GuiManager do *)
(* to pages and segments, whatever is added, removed and set up in between.*)
(*                                                                         *)
(* Of the tracker everything follows from one invariant on single          *)
(* entries, EntryInv, which relates the life of an entry to the frames     *)
(* that missed it.  The engine never loses sight of a fiducial it has      *)
(* announced: when it records one as found, the entry has a life of three  *)
(* at least, and each frame takes one.  With at most two frames between    *)
(* two updates the entry is still in the list when the engine looks        *)
(* again.  What is recorded, the edges and the corners are sound at any    *)
(* rate of updates.  And the engine implements Presence: the event an      *)
(* update sends is decided by the state of the entry and the one recorded  *)
(* before, and is a sensible one because a recorded state is one of two,   *)
(* and a fiducial recorded as found is still there to be looked at.        *)
(*                                                                         *)
(* A segment is there because a ray of its fiducial terminated when that   *)
(* was found; the fiducial is looked at by every update that follows, and  *)
(* takes its segment with it when it is lost.  GuiManager only listens: it *)
(* runs the engine as it is, and its pages repeat what the engine has      *)
(* recorded.  That the page of an erased marker does not stay is then the  *)
(* engine's own promise, FoundIsListed, and that a page is where its       *)
(* marker is follows from the tracker's jitter filter.                     *)
(*                                                                         *)
(* SimpleGuiToo, the GUI without markers, has its own pages, at the end:   *)
(* the page it shows is one of the application's, whatever the file says   *)
(* that an application with other pages left behind, and while it is       *)
(* shown the file says what its controls say, because showing it saves     *)
(* what it did not hear.                                                   *)
(***************************************************************************)
EXTENDS GuiManager, SimpleGuiToo, TLAPS

-----------------------------------------------------------------------------
(* The tracker.                                                            *)

\* An entry f between two frames, missed in the last m and measured at x in
\* the one before these.  An entry with a single sighting is its own case: it
\* was aged in the very frame that appended it.
EntryInv(f, m, x) ==
  /\ f \in Fiducial
  /\ f.life > 0
  /\ ~ f.updated
  /\ f.state # Uninitialised
  /\ m \in Nat
  /\ x \in Positions
  /\ f.current = f.last
  /\ \/ f.life + m \in {MAX_FIDUCIAL_LIFE, MAX_FIDUCIAL_LIFE + 1}
     \/ f.life = 1 /\ m = 0 /\ f.state = FIDUCIAL_LOST /\ ~ Confirmed(f)
  /\ f.state = FIDUCIAL_FOUND => m = 0
  /\ Confirmed(f) => Distance(f.last, x) <= JitterThreshold

ListInv ==
  /\ Listed \subseteq FidIds
  /\ fiducialsList = [ i \in Listed |-> fiducialsList[i] ]
  /\ measured = [ i \in Listed |-> measured[i] ]
  /\ missed = [ i \in Listed |-> missed[i] ]
  /\ \A i \in Listed : EntryInv(fiducialsList[i], missed[i], measured[i])

TrackerInv ==
  /\ ListInv
  /\ initialized \in BOOLEAN
  /\ frameSize \in Sizes \cup {NoSize}

-----------------------------------------------------------------------------
(* The methods of an entry.                                                *)

LEMMA PositionFacts ==
  ASSUME NEW x \in Positions
  PROVE  x \in Int /\ x >= 0 /\ x \in Coordinates
BY PositionsAssumption DEF Coordinates

LEMMA FiducialFields ==
  ASSUME NEW f \in Fiducial
  PROVE  /\ f.life \in 0 .. MAX_FIDUCIAL_LIFE + 1
         /\ f.current \in Coordinates /\ f.last \in Coordinates
         /\ f.updated \in BOOLEAN
BY DEF Fiducial

LEMMA CoordinateIsInt ==
  ASSUME NEW c \in Coordinates
  PROVE  c \in Int
BY PositionsAssumption DEF Coordinates, FIDUCIAL_INVALID_COORDS

\* update() on an entry that may have been updated in this frame already.
LEMMA UpdateType ==
  ASSUME NEW f \in Fiducial, f.life > 0, NEW x \in Positions
  PROVE  /\ Update(f, x) \in Fiducial
         /\ Update(f, x).life \in {MAX_FIDUCIAL_LIFE, MAX_FIDUCIAL_LIFE + 1}
         /\ Update(f, x).state = FIDUCIAL_FOUND
         /\ Update(f, x).updated
         /\ Update(f, x).current = Filtered(f, x)
         /\ Update(f, x).last = Filtered(f, x)
         /\ Filtered(f, x) \in Coordinates
<1>1. x \in Coordinates
  BY PositionFacts
<1>2. Filtered(f, x) \in Coordinates
  BY <1>1, FiducialFields DEF Filtered
<1>3. f.life \in 1 .. MAX_FIDUCIAL_LIFE + 1
  BY FiducialFields DEF MAX_FIDUCIAL_LIFE
<1> DEFINE life == IF f.life < MAX_FIDUCIAL_LIFE THEN f.life + 2 ELSE f.life
           corners == IF f.updateCorners THEN Filtered(f, x) ELSE f.corners
<1>4. life \in {MAX_FIDUCIAL_LIFE, MAX_FIDUCIAL_LIFE + 1}
  BY <1>3 DEF MAX_FIDUCIAL_LIFE
<1>5. life \in 0 .. MAX_FIDUCIAL_LIFE + 1
  BY <1>4 DEF MAX_FIDUCIAL_LIFE
<1>6. corners \in Coordinates \cup {NoCorners}
  BY <1>2 DEF Fiducial
<1>7. Update(f, x) =
        [ f EXCEPT !.current = Filtered(f, x), !.last = Filtered(f, x),
                   !.state = FIDUCIAL_FOUND, !.updated = TRUE,
                   !.corners = corners, !.life = life ]
  BY DEF Update
<1> HIDE DEF life, corners
<1>8. QED
  BY <1>2, <1>4, <1>5, <1>6, <1>7 DEF Fiducial

LEMMA AgedUpdated ==
  ASSUME NEW f \in Fiducial, f.updated
  PROVE  /\ Aged(f) = [ f EXCEPT !.updated = FALSE ]
         /\ Aged(f) \in Fiducial
         /\ ~ Aged(f).updated
         /\ Aged(f).life = f.life
         /\ Aged(f).state = f.state
         /\ Aged(f).current = f.current
         /\ Aged(f).last = f.last
BY DEF Aged, Fiducial

\* The filter applied where the entry is at its last position, or has none.
LEMMA FilteredIsNear ==
  ASSUME NEW f \in Fiducial, f.current = f.last, NEW x \in Positions
  PROVE  /\ Filtered(f, x) # FIDUCIAL_INVALID_COORDS
         /\ Distance(Filtered(f, x), x) <= JitterThreshold
<1>1. f.last \in Int
  BY FiducialFields, CoordinateIsInt
<1>2. x \in Int /\ x >= 0
  BY PositionFacts
<1>3. CASE Distance(x, f.current) > JitterThreshold
  BY <1>2, <1>3 DEF Filtered, Distance, JitterThreshold, FIDUCIAL_INVALID_COORDS
<1>4. CASE ~ Distance(x, f.current) > JitterThreshold
  BY <1>1, <1>2, <1>4 DEF Filtered, Distance, JitterThreshold, FIDUCIAL_INVALID_COORDS
<1>5. QED
  BY <1>3, <1>4

\* A frame that reports an entry that is at its last position.
LEMMA SightedEntry ==
  ASSUME NEW f \in Fiducial, f.life > 0, f.current = f.last, NEW x \in Positions
  PROVE  IsAlive(Update(f, x)) /\ EntryInv(Aged(Update(f, x)), 0, x)
<1> DEFINE u == Update(f, x)
<1>1. /\ u \in Fiducial /\ u.updated /\ u.state = FIDUCIAL_FOUND
      /\ u.life \in {MAX_FIDUCIAL_LIFE, MAX_FIDUCIAL_LIFE + 1}
      /\ u.current = Filtered(f, x) /\ u.last = Filtered(f, x)
  BY UpdateType
<1>2. Distance(u.last, x) <= JitterThreshold
  BY <1>1, FilteredIsNear
<1> HIDE DEF u
<1>3. /\ Aged(u) \in Fiducial /\ ~ Aged(u).updated /\ Aged(u).life = u.life
      /\ Aged(u).state = u.state /\ Aged(u).current = u.current
      /\ Aged(u).last = u.last
  BY <1>1, AgedUpdated
<1>4. IsAlive(u)
  BY <1>1, <1>3 DEF IsAlive, MAX_FIDUCIAL_LIFE
<1>5. EntryInv(Aged(u), 0, x)
  BY <1>1, <1>2, <1>3
     DEF EntryInv, MAX_FIDUCIAL_LIFE, FIDUCIAL_FOUND, FIDUCIAL_LOST, Uninitialised
<1>6. QED
  BY <1>4, <1>5 DEF u

\* A frame that does not report an entry.
LEMMA MissedEntry ==
  ASSUME NEW f, NEW m, NEW x, EntryInv(f, m, x), IsAlive(f)
  PROVE  EntryInv(Aged(f), m + 1, x)
<1>1. f \in Fiducial /\ ~ f.updated /\ f.life > 0 /\ f.current = f.last /\ m \in Nat
  BY DEF EntryInv
<1>2. Aged(f) = [ f EXCEPT !.state = FIDUCIAL_LOST, !.current = f.last,
                           !.life = f.life - 1 ]
  BY <1>1 DEF Aged
<1>3. f.life \in 1 .. MAX_FIDUCIAL_LIFE + 1
  BY <1>1 DEF Fiducial, MAX_FIDUCIAL_LIFE
<1>4. /\ Aged(f) \in Fiducial /\ ~ Aged(f).updated /\ Aged(f).life = f.life - 1
      /\ Aged(f).state = FIDUCIAL_LOST /\ Aged(f).current = f.last
      /\ Aged(f).last = f.last
  <2>1. f.life - 1 \in 0 .. MAX_FIDUCIAL_LIFE + 1
    BY <1>3 DEF MAX_FIDUCIAL_LIFE
  <2>2. Aged(f) \in Fiducial
    BY <1>1, <1>2, <2>1 DEF Fiducial
  <2>3. QED
    BY <1>1, <1>2, <2>2 DEF Fiducial
<1>5. f.life > 1
  BY <1>3, <1>4 DEF IsAlive, MAX_FIDUCIAL_LIFE
<1>6. f.life + m \in {MAX_FIDUCIAL_LIFE, MAX_FIDUCIAL_LIFE + 1}
  BY <1>5 DEF EntryInv
<1>7. Confirmed(Aged(f)) => Confirmed(f)
  BY <1>4 DEF Confirmed
<1>8. QED
  BY <1>1, <1>3, <1>4, <1>5, <1>6, <1>7
     DEF EntryInv, MAX_FIDUCIAL_LIFE, FIDUCIAL_FOUND, FIDUCIAL_LOST, Uninitialised

LEMMA NewEntryType ==
  ASSUME NEW x \in Positions
  PROVE  /\ NewFiducial(x) \in Fiducial
         /\ NewFiducial(x).life > 0
BY PositionFacts
   DEF NewFiducial, Fiducial, MIN_FIDUCIAL_LIFE, MAX_FIDUCIAL_LIFE, Coordinates

\* A frame that reports an id for the first time, once.
LEMMA AppendedEntry ==
  ASSUME NEW x \in Positions
  PROVE  IsAlive(NewFiducial(x)) /\ EntryInv(Aged(NewFiducial(x)), 0, x)
<1> DEFINE n == NewFiducial(x)
           a == Aged(n)
<1>1. n = [ life |-> 2, state |-> Uninitialised,
            current |-> x, last |-> FIDUCIAL_INVALID_COORDS,
            updated |-> FALSE, updateCorners |-> FALSE, corners |-> NoCorners ]
  BY DEF NewFiducial, MIN_FIDUCIAL_LIFE
<1>2. n \in Fiducial
  BY NewEntryType
<1>3. /\ ~ n.updated /\ n.life = 2
      /\ n.last = FIDUCIAL_INVALID_COORDS
  BY <1>1
<1> HIDE DEF n
<1>4. a = [ n EXCEPT !.state = FIDUCIAL_LOST, !.current = n.last,
                     !.life = n.life - 1 ]
  BY <1>3 DEF Aged
<1>5. n.life - 1 \in 0 .. MAX_FIDUCIAL_LIFE + 1
  BY <1>3 DEF MAX_FIDUCIAL_LIFE
<1>6. a \in Fiducial
  BY <1>2, <1>4, <1>5 DEF Fiducial
<1>7. /\ ~ a.updated /\ a.life = 1 /\ a.state = FIDUCIAL_LOST
      /\ a.current = FIDUCIAL_INVALID_COORDS /\ a.last = FIDUCIAL_INVALID_COORDS
  BY <1>2, <1>3, <1>4 DEF Fiducial
<1> HIDE DEF a
<1>8. IsAlive(n) /\ EntryInv(a, 0, x)
  <2>1. IsAlive(n)
    BY <1>7 DEF IsAlive, a
  <2>2. ~ Confirmed(a)
    BY <1>7 DEF Confirmed
  <2>3. QED
    BY <1>6, <1>7, <2>1, <2>2
       DEF EntryInv, FIDUCIAL_LOST, FIDUCIAL_FOUND, Uninitialised
<1>9. QED
  BY <1>8 DEF n, a

\* A frame that reports an id for the first time, twice.  It is the one case
\* in which the filter can fall back on a position that was never measured.
LEMMA AppendedTwiceEntry ==
  ASSUME NEW x \in Positions, NEW y \in Positions
  PROVE  /\ IsAlive(Update(NewFiducial(x), y))
         /\ EntryInv(Aged(Update(NewFiducial(x), y)), 0, y)
<1> DEFINE n == NewFiducial(x)
           u == Update(n, y)
<1>1. /\ u \in Fiducial /\ u.updated /\ u.state = FIDUCIAL_FOUND
      /\ u.life \in {MAX_FIDUCIAL_LIFE, MAX_FIDUCIAL_LIFE + 1}
      /\ u.current = Filtered(n, y) /\ u.last = Filtered(n, y)
  BY NewEntryType, UpdateType
<1>2. Filtered(n, y) \in {y, FIDUCIAL_INVALID_COORDS}
  BY DEF Filtered, NewFiducial
<1>3. Confirmed(u) => Distance(u.last, y) <= JitterThreshold
  BY <1>1, <1>2, PositionFacts DEF Confirmed, Distance, JitterThreshold
<1> HIDE DEF u
<1>4. /\ Aged(u) \in Fiducial /\ ~ Aged(u).updated /\ Aged(u).life = u.life
      /\ Aged(u).state = u.state /\ Aged(u).current = u.current
      /\ Aged(u).last = u.last
  BY <1>1, AgedUpdated
<1>5. IsAlive(u)
  BY <1>1, <1>4 DEF IsAlive, MAX_FIDUCIAL_LIFE
<1>6. EntryInv(Aged(u), 0, y)
  BY <1>1, <1>3, <1>4
     DEF EntryInv, Confirmed, MAX_FIDUCIAL_LIFE, FIDUCIAL_FOUND, FIDUCIAL_LOST,
         Uninitialised
<1>7. QED
  BY <1>5, <1>6 DEF u
-----------------------------------------------------------------------------
(* One frame, on the list.                                                 *)

LEMMA SightingsCases ==
  ASSUME NEW s \in Sightings
  PROVE  \/ s = <<>>
         \/ \E x \in Positions : s = <<x>>
         \/ \E x, y \in Positions : s = <<x, y>>
BY DEF Sightings

\* A frame in which an id is reported.
LEMMA ReportedId ==
  ASSUME ListInv, NEW i \in FidIds, NEW s \in Sightings, s # <<>>
  PROVE  /\ IsAlive(Matched(i, s))
         /\ EntryInv(Aged(Matched(i, s)), 0, s[Len(s)])
<1>1. i \in Listed => /\ fiducialsList[i] \in Fiducial /\ fiducialsList[i].life > 0
                      /\ fiducialsList[i].current = fiducialsList[i].last
  BY DEF ListInv, EntryInv
<1>2. CASE \E x \in Positions : s = <<x>>
  <2>1. PICK x \in Positions : s = <<x>>
    BY <1>2
  <2>2. Len(s) = 1 /\ s[1] = x /\ s # <<>>
    BY <2>1
  <2>3. Matched(i, s) = FirstSighting(i, x)
    BY <2>2 DEF Matched
  <2>4. CASE i \in Listed
    BY <1>1, <2>2, <2>3, <2>4, SightedEntry DEF FirstSighting
  <2>5. CASE i \notin Listed
    BY <2>2, <2>3, <2>5, AppendedEntry DEF FirstSighting
  <2>6. QED
    BY <2>4, <2>5
<1>3. CASE \E x, y \in Positions : s = <<x, y>>
  <2>1. PICK x \in Positions, y \in Positions : s = <<x, y>>
    BY <1>3
  <2>2. Len(s) = 2 /\ s[1] = x /\ s[2] = y /\ s # <<>>
    BY <2>1
  <2>3. Matched(i, s) = Update(FirstSighting(i, x), y)
    BY <2>2 DEF Matched
  <2>4. CASE i \in Listed
    <3>1. FirstSighting(i, x) = Update(fiducialsList[i], x)
      BY <2>4 DEF FirstSighting
    <3>2. /\ Update(fiducialsList[i], x) \in Fiducial
          /\ Update(fiducialsList[i], x).life > 0
          /\ Update(fiducialsList[i], x).current = Update(fiducialsList[i], x).last
      BY <1>1, <2>4, UpdateType DEF MAX_FIDUCIAL_LIFE
    <3>3. QED
      BY <2>2, <2>3, <3>1, <3>2, SightedEntry
  <2>5. CASE i \notin Listed
    BY <2>2, <2>3, <2>5, AppendedTwiceEntry DEF FirstSighting
  <2>6. QED
    BY <2>4, <2>5
<1>4. QED
  BY <1>2, <1>3, SightingsCases

\* A frame in which a listed id is not reported and lives on.
LEMMA UnreportedId ==
  ASSUME ListInv, NEW i \in Listed, IsAlive(Matched(i, <<>>))
  PROVE  /\ Matched(i, <<>>) = fiducialsList[i]
         /\ EntryInv(Aged(Matched(i, <<>>)), missed[i] + 1, measured[i])
<1>1. Matched(i, <<>>) = fiducialsList[i]
  BY DEF Matched
<1>2. EntryInv(fiducialsList[i], missed[i], measured[i])
  BY DEF ListInv
<1>3. QED
  BY <1>1, <1>2, MissedEntry

\* findFingers() can compute the corners of an entry, which changes no other
\* member of it.
LEMMA ComputedCorners ==
  ASSUME NEW f \in Fiducial
  PROVE  LET g == ComputeCorners(f)
         IN  /\ g \in Fiducial /\ g.corners = f.current
             /\ g.life = f.life /\ g.state = f.state /\ g.updated = f.updated
             /\ g.current = f.current /\ g.last = f.last
             /\ g.updateCorners = f.updateCorners
<1>1. f.current \in Coordinates \cup {NoCorners}
  BY DEF Fiducial
<1>2. QED
  BY <1>1 DEF ComputeCorners, Fiducial

LEMMA ComputedKeepsEntry ==
  ASSUME NEW f, NEW m, NEW x, EntryInv(f, m, x)
  PROVE  EntryInv(ComputeCorners(f), m, x)
BY ComputedCorners DEF EntryInv, Confirmed

\* The entries a frame leaves in the list.
LEMMA FramedEntries ==
  ASSUME NEW size, NEW frame, NEW asked, ProcessFrame(size, frame, asked)
  PROVE  /\ Listed' = Survivors(frame)
         /\ \A i \in Survivors(frame) :
              LET a == Aged(Matched(i, frame[i]))
              IN  fiducialsList'[i] = IF i \in asked THEN ComputeCorners(a) ELSE a
BY DEF ProcessFrame, Listed

LEMMA FramedFields ==
  ASSUME NEW size, NEW frame, NEW asked, ProcessFrame(size, frame, asked),
         NEW i \in Survivors(frame), NEW f \in Fiducial, Aged(Matched(i, frame[i])) = f
  PROVE  /\ fiducialsList'[i].life = f.life /\ fiducialsList'[i].state = f.state
         /\ fiducialsList'[i].last = f.last
BY FramedEntries, ComputedCorners

LEMMA ProcessFrameKeepsListInv ==
  ASSUME TrackerInv, NEW size \in Sizes, NEW frame \in Frames,
         NEW asked, ProcessFrame(size, frame, asked)
  PROVE  TrackerInv'
<1> USE DEF TrackerInv
<1>1. /\ Listed' = Survivors(frame)
      /\ \A i \in Survivors(frame) :
           /\ \/ fiducialsList'[i] = Aged(Matched(i, frame[i]))
              \/ fiducialsList'[i] = ComputeCorners(Aged(Matched(i, frame[i])))
           /\ measured'[i] = IF i \in Sighted(frame) THEN frame[i][Len(frame[i])]
                             ELSE measured[i]
           /\ missed'[i] = IF i \in Sighted(frame) THEN 0 ELSE missed[i] + 1
  BY FramedEntries DEF ProcessFrame
<1>2. /\ fiducialsList' = [ i \in Listed' |-> fiducialsList'[i] ]
      /\ measured' = [ i \in Listed' |-> measured'[i] ]
      /\ missed' = [ i \in Listed' |-> missed'[i] ]
  BY <1>1 DEF ProcessFrame
<1>3. Survivors(frame) \subseteq FidIds
  BY DEF Survivors, Sighted, ListInv
<1>4. ASSUME NEW i \in Survivors(frame)
      PROVE  EntryInv(fiducialsList'[i], missed'[i], measured'[i])
  <2>1. i \in FidIds /\ frame[i] \in Sightings /\ IsAlive(Matched(i, frame[i]))
    BY <1>3 DEF Frames, Survivors
  <2>2. CASE i \in Sighted(frame)
    <3>1. frame[i] # <<>>
      BY <2>2 DEF Sighted
    <3>2. EntryInv(Aged(Matched(i, frame[i])), 0, frame[i][Len(frame[i])])
      BY <2>1, <3>1, ReportedId
    <3>3. QED
      BY <1>1, <2>2, <3>2, ComputedKeepsEntry
  <2>3. CASE i \notin Sighted(frame)
    <3>1. frame[i] = <<>> /\ i \in Listed
      BY <2>1, <2>3 DEF Sighted, Survivors
    <3>2. EntryInv(Aged(Matched(i, frame[i])), missed[i] + 1, measured[i])
      BY <2>1, <3>1, UnreportedId
    <3>3. QED
      BY <1>1, <2>3, <3>2, ComputedKeepsEntry
  <2>4. QED
    BY <2>2, <2>3
<1>5. initialized' \in BOOLEAN /\ frameSize' \in Sizes \cup {NoSize}
  BY DEF ProcessFrame
<1>6. QED
  BY <1>1, <1>2, <1>3, <1>4, <1>5 DEF ListInv

-----------------------------------------------------------------------------
(* The specification.                                                      *)

LEMMA TrackerInitInv ==
  ASSUME TrackerInit
  PROVE  TrackerInv
BY DEF TrackerInit, TrackerInv, ListInv, Listed

LEMMA RejectFrameKeepsInv ==
  ASSUME TrackerInv, NEW size \in Sizes, RejectFrame(size)
  PROVE  TrackerInv'
BY DEF RejectFrame, TrackerInv, ListInv, Listed

LEMMA ReloadTreesKeepsInv ==
  ASSUME TrackerInv, ReloadTrees
  PROVE  TrackerInv'
BY DEF ReloadTrees, TrackerInv, ListInv, Listed

LEMMA TrackerStutterKeepsInv ==
  ASSUME TrackerInv, UNCHANGED trackerVars
  PROVE  TrackerInv'
BY DEF trackerVars, TrackerInv, ListInv, Listed

LEMMA TrackerNextInv ==
  ASSUME TrackerInv, [TrackerNext]_trackerVars
  PROVE  TrackerInv'
<1>1. ASSUME NEW size \in Sizes, RejectFrame(size)
      PROVE  TrackerInv'
  BY <1>1, RejectFrameKeepsInv
<1>2. ASSUME NEW size \in Sizes, NEW frame \in Frames, NEW asked,
             ProcessFrame(size, frame, asked)
      PROVE  TrackerInv'
  BY <1>2, ProcessFrameKeepsListInv
<1>3. CASE ReloadTrees
  BY <1>3, ReloadTreesKeepsInv
<1>4. CASE UNCHANGED trackerVars
  BY <1>4, TrackerStutterKeepsInv
<1>5. QED
  BY <1>1, <1>2, <1>3, <1>4 DEF TrackerNext

\* The strengthening of all the invariants below is itself an invariant.
THEOREM TrackerInvHolds == TrackerSpec => []TrackerInv
<1>1. TrackerInit => TrackerInv
  BY TrackerInitInv
<1>2. TrackerInv /\ [TrackerNext]_trackerVars => TrackerInv'
  BY TrackerNextInv
<1>3. QED
  BY <1>1, <1>2, PTL DEF TrackerSpec

LEMMA TrackerInvImplies ==
  ASSUME TrackerInv
  PROVE  TrackerTypeOK /\ GoneAfterFourMisses /\ JitterIsBounded
<1>1. TrackerTypeOK
  BY DEF TrackerInv, ListInv, EntryInv, TrackerTypeOK
<1>2. GoneAfterFourMisses
  BY DEF TrackerInv, ListInv, EntryInv, GoneAfterFourMisses, Fiducial, MAX_FIDUCIAL_LIFE
<1>3. JitterIsBounded
  BY DEF TrackerInv, ListInv, EntryInv, JitterIsBounded, NearMeasurement
<1>4. QED
  BY <1>1, <1>2, <1>3

\* The list stays well typed, and no member of an entry is read unset.
THEOREM TrackerTypeCorrect == TrackerSpec => []TrackerTypeOK
BY TrackerInvHolds, TrackerInvImplies, PTL

\* An entry of a marker that is gone is erased by the fourth missed frame.
THEOREM TrackerForgets == TrackerSpec => []GoneAfterFourMisses
BY TrackerInvHolds, TrackerInvImplies, PTL

\* The jitter filter is off by the threshold at most, however many jitters
\* follow one another.
THEOREM TrackerFollows == TrackerSpec => []JitterIsBounded
BY TrackerInvHolds, TrackerInvImplies, PTL

LEMMA ErasedWasMissed ==
  ASSUME TrackerInv, NEW size \in Sizes, NEW frame \in Frames,
         NEW asked, ProcessFrame(size, frame, asked),
         NEW i \in Listed \ Listed', Confirmed(fiducialsList[i])
  PROVE  missed[i] >= 2
<1>1. i \in FidIds /\ EntryInv(fiducialsList[i], missed[i], measured[i])
  BY DEF TrackerInv, ListInv
<1>2. i \notin Survivors(frame)
  BY DEF ProcessFrame, Listed
<1>3. ~ IsAlive(Matched(i, frame[i]))
  BY <1>2 DEF Survivors
<1>4. frame[i] = <<>>
  BY <1>1, <1>3, ReportedId DEF TrackerInv, Frames
<1>5. ~ IsAlive(fiducialsList[i])
  BY <1>3, <1>4 DEF Matched
<1>6. fiducialsList[i].life = 1
  <2>1. /\ fiducialsList[i] \in Fiducial /\ ~ fiducialsList[i].updated
        /\ fiducialsList[i].life > 0
    BY <1>1 DEF EntryInv
  <2>2. Aged(fiducialsList[i]).life = fiducialsList[i].life - 1
    BY <2>1 DEF Aged, Fiducial
  <2>3. QED
    BY <1>5, <2>1, <2>2, FiducialFields DEF IsAlive
<1>7. QED
  BY <1>1, <1>6 DEF EntryInv, MAX_FIDUCIAL_LIFE

\* A confirmed fiducial is never erased before a third missed frame.
THEOREM TrackerKeeps == TrackerSpec => ConfirmedSurvivesTwoMisses
<1> DEFINE Kept == \A i \in Listed \ Listed' :
                     Confirmed(fiducialsList[i]) => missed[i] >= 2
<1>1. ASSUME TrackerInv, [TrackerNext]_trackerVars
      PROVE  [Kept]_trackerVars
  <2>1. ASSUME NEW size \in Sizes, RejectFrame(size)
        PROVE  Kept
    BY <2>1 DEF RejectFrame, Listed
  <2>2. ASSUME NEW size \in Sizes, NEW frame \in Frames, NEW asked,
             ProcessFrame(size, frame, asked)
        PROVE  Kept
    BY <1>1, <2>2, ErasedWasMissed
  <2>3. CASE ReloadTrees
    BY <2>3 DEF ReloadTrees, Listed
  <2>4. QED
    BY <1>1, <2>1, <2>2, <2>3 DEF TrackerNext
<1>2. QED
  BY <1>1, TrackerInvHolds, PTL DEF TrackerSpec, ConfirmedSurvivesTwoMisses

-----------------------------------------------------------------------------
(* The engine.                                                             *)

EngineInv ==
  /\ TrackerInv
  /\ lag \in Nat
  /\ lag <= MaxLag
  /\ Reported \cap IgnoreFiducialIds = {}
  /\ fiducialStates = [ i \in Reported |-> fiducialStates[i] ]
  /\ \A i \in Reported :
       fiducialStates[i] = FIDUCIAL_FOUND =>
         /\ i \in Listed
         /\ fiducialsList[i].life + lag >= MAX_FIDUCIAL_LIFE

-----------------------------------------------------------------------------
(* The tracker under the engine.                                           *)

LEMMA ForcedCorners ==
  ASSUME NEW f \in Fiducial
  PROVE  LET g == ForceCorners(f)
         IN  /\ g \in Fiducial /\ g.updateCorners
             /\ g.corners = IF f.updateCorners THEN f.corners ELSE f.current
             /\ g.life = f.life /\ g.state = f.state /\ g.updated = f.updated
             /\ g.current = f.current /\ g.last = f.last
<1> DEFINE c == ComputeCorners(f)
<1>1. /\ c \in Fiducial /\ c.corners = f.current
      /\ c.life = f.life /\ c.state = f.state /\ c.updated = f.updated
      /\ c.current = f.current /\ c.last = f.last
  BY ComputedCorners
<1>2. ForceCorners(f) = IF f.updateCorners THEN f ELSE [ c EXCEPT !.updateCorners = TRUE ]
  BY DEF ForceCorners
<1> HIDE DEF c
<1>3. QED
  BY <1>1, <1>2 DEF Fiducial

LEMMA ForceCornersKeepsEntry ==
  ASSUME NEW f, NEW m, NEW x, EntryInv(f, m, x)
  PROVE  EntryInv(ForceCorners(f), m, x)
<1>1. f \in Fiducial
  BY DEF EntryInv
<1>2. /\ ForceCorners(f) \in Fiducial
      /\ ForceCorners(f).life = f.life /\ ForceCorners(f).updated = f.updated
      /\ ForceCorners(f).state = f.state
      /\ ForceCorners(f).current = f.current /\ ForceCorners(f).last = f.last
  BY <1>1, ForcedCorners
<1>3. QED
  BY <1>2 DEF EntryInv, Confirmed

LEMMA ScanKeepsTrackerInv ==
  ASSUME TrackerInv, EngineUpdate
  PROVE  TrackerInv'
<1>1. /\ fiducialsList' = [ i \in Listed |->
            IF i \in Scanned THEN ForceCorners(fiducialsList[i]) ELSE fiducialsList[i] ]
      /\ UNCHANGED <<initialized, frameSize, measured, missed>>
  BY DEF EngineUpdate, ScanStatus
<1>2. Listed' = Listed
  BY <1>1 DEF Listed
<1>3. ASSUME NEW i \in Listed
      PROVE  EntryInv(fiducialsList'[i], missed'[i], measured'[i])
  <2>1. EntryInv(fiducialsList[i], missed[i], measured[i])
    BY DEF TrackerInv, ListInv
  <2>2. EntryInv(ForceCorners(fiducialsList[i]), missed[i], measured[i])
    BY <2>1, ForceCornersKeepsEntry
  <2>3. QED
    BY <1>1, <2>1, <2>2
<1>4. fiducialsList' = [ i \in Listed' |-> fiducialsList'[i] ]
  BY <1>1, <1>2
<1>5. /\ measured' = [ i \in Listed' |-> measured'[i] ]
      /\ missed' = [ i \in Listed' |-> missed'[i] ]
  BY <1>1, <1>2 DEF TrackerInv, ListInv
<1>6. QED
  BY <1>1, <1>2, <1>3, <1>4, <1>5 DEF TrackerInv, ListInv

\* A frame that reports a listed id fills its life up.
LEMMA SightingRestoresLife ==
  ASSUME ListInv, NEW i \in Listed, NEW s \in Sightings, s # <<>>
  PROVE  Aged(Matched(i, s)).life >= MAX_FIDUCIAL_LIFE
<1>1. fiducialsList[i] \in Fiducial /\ fiducialsList[i].life > 0
  BY DEF ListInv, EntryInv
<1>2. ASSUME NEW f \in Fiducial, f.updated,
             f.life \in {MAX_FIDUCIAL_LIFE, MAX_FIDUCIAL_LIFE + 1}
      PROVE  Aged(f).life >= MAX_FIDUCIAL_LIFE
  BY <1>2, AgedUpdated DEF MAX_FIDUCIAL_LIFE
<1>3. CASE \E x \in Positions : s = <<x>>
  <2>1. PICK x \in Positions : s = <<x>>
    BY <1>3
  <2>2. Matched(i, s) = Update(fiducialsList[i], x)
    BY <2>1 DEF Matched, FirstSighting
  <2>3. QED
    BY <1>1, <1>2, <2>2, UpdateType
<1>4. CASE \E x, y \in Positions : s = <<x, y>>
  <2>1. PICK x \in Positions, y \in Positions : s = <<x, y>>
    BY <1>4
  <2>2. Matched(i, s) = Update(Update(fiducialsList[i], x), y)
    BY <2>1 DEF Matched, FirstSighting
  <2> DEFINE u == Update(fiducialsList[i], x)
  <2>3. u \in Fiducial /\ u.life > 0
    BY <1>1, UpdateType DEF MAX_FIDUCIAL_LIFE
  <2> HIDE DEF u
  <2>4. /\ Update(u, y) \in Fiducial /\ Update(u, y).updated
        /\ Update(u, y).life \in {MAX_FIDUCIAL_LIFE, MAX_FIDUCIAL_LIFE + 1}
    BY <2>3, UpdateType
  <2>5. QED
    BY <1>2, <2>2, <2>4 DEF u
<1>5. QED
  BY <1>3, <1>4, SightingsCases

\* An entry with two lives left survives a frame, and loses one at most.
LEMMA FrameTakesOneLife ==
  ASSUME TrackerInv, NEW size \in Sizes, NEW frame \in Frames,
         NEW asked, ProcessFrame(size, frame, asked),
         NEW i \in Listed, fiducialsList[i].life >= 2
  PROVE  /\ i \in Listed'
         /\ \/ fiducialsList'[i].life >= MAX_FIDUCIAL_LIFE
            \/ fiducialsList'[i].life = fiducialsList[i].life - 1
<1>1. /\ i \in FidIds /\ frame[i] \in Sightings
      /\ EntryInv(fiducialsList[i], missed[i], measured[i])
  BY DEF TrackerInv, ListInv, Frames
<1>2. CASE frame[i] # <<>>
  <2>1. IsAlive(Matched(i, frame[i]))
    BY <1>1, <1>2, ReportedId DEF TrackerInv
  <2>2. i \in Survivors(frame)
    BY <1>1, <2>1 DEF Survivors
  <2>3. Aged(Matched(i, frame[i])).life >= MAX_FIDUCIAL_LIFE
    BY <1>1, <1>2, SightingRestoresLife DEF TrackerInv
  <2>4. Aged(Matched(i, frame[i])) \in Fiducial
    BY <1>1, <1>2, ReportedId DEF TrackerInv, EntryInv
  <2>5. QED
    BY <2>2, <2>3, <2>4, FramedEntries, FramedFields
<1>3. CASE frame[i] = <<>>
  <2>1. /\ fiducialsList[i] \in Fiducial /\ ~ fiducialsList[i].updated
        /\ fiducialsList[i].life \in 0 .. MAX_FIDUCIAL_LIFE + 1
    BY <1>1, FiducialFields DEF EntryInv
  <2>2. Aged(fiducialsList[i]).life = fiducialsList[i].life - 1
    BY <2>1 DEF Aged, Fiducial
  <2>3. Matched(i, frame[i]) = fiducialsList[i]
    BY <1>3 DEF Matched
  <2>4. IsAlive(Matched(i, frame[i]))
    BY <2>1, <2>2, <2>3 DEF IsAlive, MAX_FIDUCIAL_LIFE
  <2>5. i \in Survivors(frame)
    BY <1>1, <2>4 DEF Survivors
  <2>6. Aged(Matched(i, frame[i])) \in Fiducial
    BY <1>1, <1>3, <2>3, <2>4, MissedEntry DEF EntryInv
  <2>7. QED
    BY <2>2, <2>3, <2>5, <2>6, FramedEntries, FramedFields
<1>4. QED
  BY <1>2, <1>3

-----------------------------------------------------------------------------
(* The steps of the engine.                                                *)

LEMMA EngineInitInv ==
  ASSUME EngineInit
  PROVE  EngineInv
<1>1. TrackerInv
  BY TrackerInitInv DEF EngineInit
<1>2. QED
  BY <1>1, MaxLagAssumption DEF EngineInit, EngineInv, Reported

LEMMA EngineUpdateKeepsInv ==
  ASSUME EngineInv, EngineUpdate
  PROVE  EngineInv'
<1>1. TrackerInv'
  BY ScanKeepsTrackerInv DEF EngineInv
<1>2. /\ fiducialStates' = [ i \in Reported \cup Scanned |->
            IF i \in Scanned THEN fiducialsList[i].state ELSE fiducialStates[i] ]
      /\ fiducialsList' = [ i \in Listed |->
            IF i \in Scanned THEN ForceCorners(fiducialsList[i]) ELSE fiducialsList[i] ]
      /\ lag' = 0
  BY DEF EngineUpdate, ScanStatus
<1>3. Reported' = Reported \cup Scanned /\ Listed' = Listed
  BY <1>2 DEF Reported, Listed
<1>4. Reported' \cap IgnoreFiducialIds = {}
  BY <1>3 DEF EngineInv, Scanned
<1>5. fiducialStates' = [ i \in Reported' |-> fiducialStates'[i] ]
  BY <1>2, <1>3
<1>6. ASSUME NEW i \in Reported', fiducialStates'[i] = FIDUCIAL_FOUND
      PROVE  i \in Listed' /\ fiducialsList'[i].life + lag' >= MAX_FIDUCIAL_LIFE
  <2>1. CASE i \in Scanned
    <3>1. i \in Listed /\ fiducialsList[i].state = FIDUCIAL_FOUND
      BY <1>2, <1>3, <1>6, <2>1 DEF Scanned
    <3>2. /\ EntryInv(fiducialsList[i], missed[i], measured[i])
          /\ fiducialsList[i] \in Fiducial
      BY <3>1 DEF EngineInv, TrackerInv, ListInv, EntryInv
    <3>3. fiducialsList[i].life \in {MAX_FIDUCIAL_LIFE, MAX_FIDUCIAL_LIFE + 1}
      <4>1. missed[i] = 0 /\ fiducialsList[i].life \in 0 .. MAX_FIDUCIAL_LIFE + 1
        BY <3>1, <3>2, FiducialFields DEF EntryInv
      <4>2. fiducialsList[i].life + missed[i]
              \in {MAX_FIDUCIAL_LIFE, MAX_FIDUCIAL_LIFE + 1}
        BY <3>1, <3>2 DEF EntryInv, FIDUCIAL_FOUND, FIDUCIAL_LOST
      <4>3. QED
        BY <4>1, <4>2 DEF MAX_FIDUCIAL_LIFE
    <3>4. fiducialsList'[i].life = fiducialsList[i].life
      BY <1>2, <2>1, <3>1, <3>2, ForcedCorners
    <3>5. QED
      BY <1>2, <1>3, <3>1, <3>3, <3>4 DEF MAX_FIDUCIAL_LIFE
  <2>2. CASE i \notin Scanned
    <3>1. i \in Reported /\ fiducialStates[i] = FIDUCIAL_FOUND
      BY <1>2, <1>3, <1>6, <2>2
    <3>2. i \in Listed /\ i \notin IgnoreFiducialIds
      BY <3>1 DEF EngineInv
    <3>3. QED
      BY <2>2, <3>2 DEF Scanned
  <2>3. QED
    BY <2>1, <2>2
<1>7. lag' \in Nat /\ lag' <= MaxLag
  BY <1>2, MaxLagAssumption
<1>8. QED
  BY <1>1, <1>4, <1>5, <1>6, <1>7 DEF EngineInv

LEMMA TrackFrameKeepsInv ==
  ASSUME MaxLag <= 2, EngineInv, NEW size \in Sizes, NEW frame \in Frames,
         NEW asked, TrackFrame(size, frame, asked)
  PROVE  EngineInv'
<1>1. /\ ProcessFrame(size, frame, asked) /\ lag < MaxLag /\ lag' = lag + 1
      /\ fiducialStates' = fiducialStates
  BY DEF TrackFrame, EngineIdle
<1>2. TrackerInv'
  BY <1>1, ProcessFrameKeepsListInv DEF EngineInv
<1>3. lag \in 0 .. 1 /\ lag' \in Nat /\ lag' <= MaxLag
  BY <1>1, MaxLagAssumption DEF EngineInv
<1>4. Reported' = Reported
  BY <1>1 DEF Reported
<1>5. ASSUME NEW i \in Reported, fiducialStates[i] = FIDUCIAL_FOUND
      PROVE  i \in Listed' /\ fiducialsList'[i].life + lag' >= MAX_FIDUCIAL_LIFE
  <2>1. i \in Listed /\ fiducialsList[i].life + lag >= MAX_FIDUCIAL_LIFE
    BY <1>5 DEF EngineInv
  <2>2. fiducialsList[i].life \in 0 .. MAX_FIDUCIAL_LIFE + 1
    BY <2>1, FiducialFields DEF EngineInv, TrackerInv, ListInv, EntryInv
  <2>3. fiducialsList[i].life >= 2
    BY <1>3, <2>1, <2>2 DEF MAX_FIDUCIAL_LIFE
  <2>4. /\ i \in Listed'
        /\ \/ fiducialsList'[i].life >= MAX_FIDUCIAL_LIFE
           \/ fiducialsList'[i].life = fiducialsList[i].life - 1
    BY <1>1, <2>1, <2>3, FrameTakesOneLife DEF EngineInv
  <2>5. fiducialsList'[i].life \in 0 .. MAX_FIDUCIAL_LIFE + 1
    BY <1>2, <2>4, FiducialFields DEF TrackerInv, ListInv, EntryInv
  <2>6. QED
    BY <1>1, <1>3, <2>1, <2>2, <2>4, <2>5 DEF MAX_FIDUCIAL_LIFE
<1>6. QED
  BY <1>1, <1>2, <1>3, <1>4, <1>5 DEF EngineInv

\* A step that leaves the entries, the records and the lag alone.
LEMMA QuietStepKeepsInv ==
  ASSUME EngineInv, TrackerInv', UNCHANGED <<fiducialsList, fiducialStates, lag>>
  PROVE  EngineInv'
BY DEF EngineInv, Reported, Listed

LEMMA EngineNextInv ==
  ASSUME MaxLag <= 2, EngineInv, [EngineNext]_pipelineVars
  PROVE  EngineInv'
<1>1. TrackerInv
  BY DEF EngineInv
<1>2. CASE EngineUpdate
  BY <1>2, EngineUpdateKeepsInv
<1>3. ASSUME NEW size \in Sizes, NEW frame \in Frames, NEW asked,
             TrackFrame(size, frame, asked)
      PROVE  EngineInv'
  BY <1>3, TrackFrameKeepsInv
<1>4. ASSUME NEW size \in Sizes, SkipFrame(size)
      PROVE  EngineInv'
  <2>1. TrackerInv'
    BY <1>1, <1>4, RejectFrameKeepsInv DEF SkipFrame
  <2>2. QED
    BY <1>4, <2>1, QuietStepKeepsInv DEF SkipFrame, RejectFrame, EngineIdle
<1>5. CASE Reload
  <2>1. TrackerInv'
    BY <1>1, <1>5, ReloadTreesKeepsInv DEF Reload
  <2>2. QED
    BY <1>5, <2>1, QuietStepKeepsInv DEF Reload, ReloadTrees, EngineIdle
<1>6. CASE UNCHANGED pipelineVars
  <2>1. UNCHANGED trackerVars /\ UNCHANGED <<fiducialsList, fiducialStates, lag>>
    BY <1>6 DEF pipelineVars, trackerVars, engineVars
  <2>2. TrackerInv'
    BY <1>1, <2>1, TrackerStutterKeepsInv
  <2>3. QED
    BY <2>1, <2>2, QuietStepKeepsInv
<1>7. QED
  BY <1>2, <1>3, <1>4, <1>5, <1>6 DEF EngineNext, TrackerSteps

\* The engine's strengthening is an invariant as long as the application
\* updates the engine at least once in every two processed frames.
THEOREM EngineInvHolds == MaxLag <= 2 => (EngineSpec => []EngineInv)
<1> SUFFICES ASSUME MaxLag <= 2
             PROVE  EngineSpec => []EngineInv
  OBVIOUS
<1>1. EngineInit => EngineInv
  BY EngineInitInv
<1>2. EngineInv /\ [EngineNext]_pipelineVars => EngineInv'
  BY EngineNextInv
<1>3. QED
  BY <1>1, <1>2, PTL DEF EngineSpec

\* An announced fiducial stays where the engine will find it again: none is
\* erased between two updates, which would leave it found forever.
THEOREM FoundStaysListed == MaxLag <= 2 => (EngineSpec => []FoundIsListed)
<1>1. EngineInv => FoundIsListed
  BY DEF EngineInv, FoundIsListed
<1>2. QED
  BY <1>1, EngineInvHolds, PTL

-----------------------------------------------------------------------------
(* What the engine records, whatever the rates are.                        *)

RecordsInv ==
  /\ Reported \subseteq FidIds
  /\ fiducialStates = [ i \in Reported |-> fiducialStates[i] ]
  /\ \A i \in Reported : fiducialStates[i] \in {FIDUCIAL_LOST, FIDUCIAL_FOUND}

LEMMA ListedEntries ==
  ASSUME TrackerInv
  PROVE  /\ Listed \subseteq FidIds
         /\ \A i \in Listed : fiducialsList[i].state \in {FIDUCIAL_LOST, FIDUCIAL_FOUND}
<1>1. TrackerTypeOK
  BY TrackerInvImplies
<1>2. ASSUME NEW i \in Listed
      PROVE  fiducialsList[i].state \in {FIDUCIAL_LOST, FIDUCIAL_FOUND}
  <2>1. fiducialsList[i] \in Fiducial /\ fiducialsList[i].state # Uninitialised
    BY <1>1 DEF TrackerTypeOK
  <2>2. QED
    BY <2>1 DEF Fiducial
<1>3. QED
  BY <1>1, <1>2 DEF TrackerTypeOK

LEMMA ScanRecordsStates ==
  ASSUME TrackerInv, RecordsInv, EngineUpdate
  PROVE  /\ RecordsInv'
         /\ Reported' = Reported \cup Scanned
         /\ \A i \in Reported' : fiducialStates'[i] =
              IF i \in Scanned THEN fiducialsList[i].state ELSE fiducialStates[i]
<1>1. fiducialStates' = [ i \in Reported \cup Scanned |->
        IF i \in Scanned THEN fiducialsList[i].state ELSE fiducialStates[i] ]
  BY DEF EngineUpdate, ScanStatus
<1>2. Reported' = Reported \cup Scanned
  BY <1>1 DEF Reported
<1>3. Scanned \subseteq Listed
  BY DEF Scanned
<1>4. QED
  BY <1>1, <1>2, <1>3, ListedEntries DEF RecordsInv

LEMMA RecordsNextInv ==
  ASSUME TrackerInv, RecordsInv, [EngineNext]_pipelineVars
  PROVE  RecordsInv'
<1>1. CASE EngineUpdate
  BY <1>1, ScanRecordsStates
<1>2. CASE UNCHANGED fiducialStates
  BY <1>2 DEF RecordsInv, Reported
<1>3. CASE TrackerSteps
  BY <1>2, <1>3 DEF TrackerSteps, TrackFrame, SkipFrame, Reload, EngineIdle
<1>4. CASE UNCHANGED pipelineVars
  BY <1>2, <1>4 DEF pipelineVars, engineVars
<1>5. QED
  BY <1>1, <1>3, <1>4 DEF EngineNext

LEMMA EngineKeepsTrackerInv ==
  ASSUME TrackerInv, [EngineNext]_pipelineVars
  PROVE  TrackerInv'
<1>1. CASE EngineUpdate
  BY <1>1, ScanKeepsTrackerInv
<1>2. CASE TrackerSteps
  BY <1>2, ProcessFrameKeepsListInv, RejectFrameKeepsInv, ReloadTreesKeepsInv
     DEF TrackerSteps, TrackFrame, SkipFrame, Reload
<1>3. CASE UNCHANGED pipelineVars
  BY <1>3, TrackerStutterKeepsInv DEF pipelineVars
<1>4. QED
  BY <1>1, <1>2, <1>3 DEF EngineNext

\* Under the engine the tracker's list keeps its invariant, and the engine
\* records nothing but lost and found.
THEOREM RecordsInvHolds == EngineSpec => [](TrackerInv /\ RecordsInv)
<1>1. EngineInit => TrackerInv /\ RecordsInv
  BY TrackerInitInv DEF EngineInit, RecordsInv, Reported
<1>2. TrackerInv /\ RecordsInv /\ [EngineNext]_pipelineVars => TrackerInv' /\ RecordsInv'
  BY RecordsNextInv, EngineKeepsTrackerInv
<1>3. QED
  BY <1>1, <1>2, PTL DEF EngineSpec

-----------------------------------------------------------------------------
(* The ray scan.                                                           *)

\* The edges that are left after a ray scan, and their ends.
LEMMA EdgesAfterScan ==
  ASSUME NEW hit \in Hits, CastRays(hit), NEW i \in DOMAIN fiducialEdges'
  PROVE  \/ /\ i \in Reported \cup Scanned
            /\ fiducialEdges'[i] \in Shaped /\ fiducialEdges'[i] # i
         \/ i \in DOMAIN fiducialEdges /\ fiducialEdges'[i] = fiducialEdges[i]
<1>1. /\ DOMAIN fiducialEdges' = (DOMAIN fiducialEdges \ Sources) \cup Connected(hit)
      /\ fiducialEdges'[i] =
           IF i \in Sources THEN EdgeAfterFound(i, hit[i]) ELSE fiducialEdges[i]
  BY DEF CastRays
<1>2. CASE i \in Sources
  <2>1. hit[i] \in Shaped \cup {NoFiducial} /\ hit[i] # i
    BY <1>2 DEF Hits
  <2>2. hit[i] # NoFiducial
    BY <1>1, <1>2 DEF Connected, RayIsLost
  <2>3. i \in Reported \cup Scanned
    BY <1>2 DEF Sources
  <2>4. QED
    BY <1>1, <1>2, <2>1, <2>2, <2>3 DEF EdgeAfterFound
<1>3. CASE i \notin Sources
  BY <1>1, <1>3 DEF Connected
<1>4. QED
  BY <1>2, <1>3

\* No corners, and none wanted.
Bare(f) == f.corners = NoCorners /\ ~ f.updateCorners

LEMMA BareMethods ==
  ASSUME NEW f \in Fiducial, NEW x, Bare(f)
  PROVE  Bare(Update(f, x)) /\ Bare(Aged(f))
BY DEF Bare, Update, Aged, Fiducial

\* If no fingers are looked for, an ignored fiducial never gets corners, and
\* no ray meets it.
ShapesInv ==
  ~ DetectFinger => \A i \in Listed \cap IgnoreFiducialIds : Bare(fiducialsList[i])

LEMMA FrameKeepsBare ==
  ASSUME TrackerInv, ShapesInv, ~ DetectFinger,
         NEW i \in FidIds \cap IgnoreFiducialIds, NEW s \in Sightings,
         s = <<>> => i \in Listed
  PROVE  Bare(Aged(Matched(i, s)))
<1>1. i \in Listed =>
        /\ fiducialsList[i] \in Fiducial /\ fiducialsList[i].life > 0
        /\ Bare(fiducialsList[i])
  BY DEF TrackerInv, ListInv, EntryInv, ShapesInv
<1>2. ASSUME NEW x \in Positions
      PROVE  /\ FirstSighting(i, x) \in Fiducial /\ FirstSighting(i, x).life > 0
             /\ Bare(FirstSighting(i, x))
  <2>1. NewFiducial(x) \in Fiducial /\ NewFiducial(x).life > 0 /\ Bare(NewFiducial(x))
    BY NewEntryType DEF NewFiducial, Bare
  <2>2. QED
    BY <1>1, <2>1, UpdateType, BareMethods DEF FirstSighting, MAX_FIDUCIAL_LIFE
<1>3. CASE s = <<>>
  BY <1>1, <1>3, BareMethods DEF Matched
<1>4. CASE \E x \in Positions : s = <<x>>
  <2>1. PICK x \in Positions : s = <<x>>
    BY <1>4
  <2>2. Matched(i, s) = FirstSighting(i, x)
    BY <2>1 DEF Matched
  <2>3. QED
    BY <1>2, <2>2, BareMethods
<1>5. CASE \E x, y \in Positions : s = <<x, y>>
  <2>1. PICK x \in Positions, y \in Positions : s = <<x, y>>
    BY <1>5
  <2>2. Matched(i, s) = Update(FirstSighting(i, x), y)
    BY <2>1 DEF Matched
  <2> DEFINE u == Update(FirstSighting(i, x), y)
  <2>3. u \in Fiducial /\ Bare(u)
    BY <1>2, UpdateType, BareMethods
  <2> HIDE DEF u
  <2>4. QED
    BY <2>2, <2>3, BareMethods DEF u
<1>6. QED
  BY <1>3, <1>4, <1>5, SightingsCases

LEMMA ShapesNextInv ==
  ASSUME TrackerInv, ShapesInv, [EngineNext]_pipelineVars
  PROVE  ShapesInv'
<1> SUFFICES ASSUME ~ DetectFinger, NEW i \in Listed' \cap IgnoreFiducialIds
             PROVE  Bare(fiducialsList'[i])
  BY DEF ShapesInv
<1>1. CASE EngineUpdate
  BY <1>1 DEF EngineUpdate, ScanStatus, Listed, Scanned, ShapesInv
<1>2. ASSUME NEW size \in Sizes, NEW frame \in Frames, NEW asked \in Asked(frame),
             TrackFrame(size, frame, asked)
      PROVE  Bare(fiducialsList'[i])
  <2>1. i \in Survivors(frame) /\ fiducialsList'[i] = Aged(Matched(i, frame[i]))
    BY <1>2, FramedEntries DEF TrackFrame, Asked
  <2>2. i \in FidIds /\ (frame[i] = <<>> => i \in Listed)
    BY <2>1, IgnoreAssumption DEF Survivors, Sighted
  <2>3. frame[i] \in Sightings
    BY <2>2 DEF Frames
  <2>4. QED
    BY <2>1, <2>2, <2>3, FrameKeepsBare
<1>3. CASE UNCHANGED fiducialsList
  BY <1>3 DEF ShapesInv, Listed
<1>4. QED
  BY <1>1, <1>2, <1>3
     DEF EngineNext, TrackerSteps, SkipFrame, RejectFrame, Reload, ReloadTrees,
         pipelineVars, trackerVars

EdgesInv ==
  /\ EdgesStartReported
  /\ fiducialEdges = [ i \in DOMAIN fiducialEdges |-> fiducialEdges[i] ]
  /\ statusEvt \in [FidIds -> StatusEvents]
  /\ rayEvt \in [FidIds -> SUBSET RayEvents]
  /\ lag \in 0 .. MaxLag

LEMMA UpdateKeepsEdges ==
  ASSUME TrackerInv, RecordsInv, ShapesInv, EdgesInv, EngineUpdate
  PROVE  EdgesInv'
<1>1. PICK hit \in Hits : CastRays(hit)
  BY DEF EngineUpdate
<1>2. Reported' = Reported \cup Scanned
  BY ScanRecordsStates
<1>3. Shaped \subseteq Reported' \cup MayBeMet
  BY <1>2 DEF Shaped, Scanned, ShapesInv, Bare, MayBeMet
<1>4. EdgesStartReported'
  <2>1. ASSUME NEW i \in DOMAIN fiducialEdges'
        PROVE  /\ i \in Reported' /\ fiducialEdges'[i] # i
               /\ fiducialEdges'[i] \in Reported' \cup MayBeMet
    BY <1>1, <1>2, <1>3, EdgesAfterScan DEF EdgesInv, EdgesStartReported
  <2>2. QED
    BY <2>1 DEF EdgesStartReported
<1>5. fiducialEdges' = [ i \in DOMAIN fiducialEdges' |-> fiducialEdges'[i] ]
  BY <1>1 DEF CastRays
<1>6. statusEvt' \in [FidIds -> StatusEvents]
  BY DEF EngineUpdate, ScanStatus, StatusEvent, StatusEvents
<1>7. rayEvt' \in [FidIds -> SUBSET RayEvents]
  BY <1>1 DEF CastRays, RayEvent
<1>8. lag' \in 0 .. MaxLag
  BY MaxLagAssumption DEF EngineUpdate
<1>9. QED
  BY <1>4, <1>5, <1>6, <1>7, <1>8 DEF EdgesInv

LEMMA EdgesNextInv ==
  ASSUME TrackerInv, RecordsInv, ShapesInv, EdgesInv, [EngineNext]_pipelineVars
  PROVE  EdgesInv'
<1>1. CASE EngineUpdate
  BY <1>1, UpdateKeepsEdges
<1>2. CASE TrackerSteps
  <2>1. /\ statusEvt' = NoStatusEvents /\ rayEvt' = NoRayEvents
        /\ UNCHANGED <<fiducialStates, fiducialEdges>>
    BY <1>2 DEF TrackerSteps, TrackFrame, SkipFrame, Reload, EngineIdle
  <2>2. lag' = lag \/ (lag < MaxLag /\ lag' = lag + 1)
    BY <1>2 DEF TrackerSteps, TrackFrame, SkipFrame, Reload
  <2>3. lag' \in 0 .. MaxLag
    BY <2>2, MaxLagAssumption DEF EdgesInv
  <2>4. /\ statusEvt' \in [FidIds -> StatusEvents]
        /\ rayEvt' \in [FidIds -> SUBSET RayEvents]
    BY <2>1 DEF NoStatusEvents, NoRayEvents, StatusEvents
  <2>5. EdgesStartReported'
    BY <2>1 DEF EdgesInv, EdgesStartReported, Reported
  <2>6. QED
    BY <2>1, <2>3, <2>4, <2>5 DEF EdgesInv
<1>3. CASE UNCHANGED pipelineVars
  BY <1>3 DEF pipelineVars, engineVars, EdgesInv, EdgesStartReported, Reported
<1>4. QED
  BY <1>1, <1>2, <1>3 DEF EngineNext

\* Whatever the rates of the tracker and the engine are, the engine's maps and
\* events are well typed, and the rays it remembers go from a fiducial it has
\* reported to another one: a reported one too, unless fingers are looked for,
\* and it was told to ignore the other.
THEOREM EngineTypeCorrect == EngineSpec => []EngineTypeOK
<1>1. EngineInit => ShapesInv /\ EdgesInv
  BY MaxLagAssumption
     DEF EngineInit, TrackerInit, ShapesInv, EdgesInv, EdgesStartReported, Listed,
         NoStatusEvents, NoRayEvents, StatusEvents
<1>2. /\ TrackerInv /\ RecordsInv /\ ShapesInv /\ EdgesInv /\ [EngineNext]_pipelineVars
      => ShapesInv' /\ EdgesInv'
  BY EdgesNextInv, ShapesNextInv
<1>3. TrackerInv /\ RecordsInv /\ EdgesInv => EngineTypeOK
  <2> SUFFICES ASSUME TrackerInv, RecordsInv, EdgesInv
               PROVE  EngineTypeOK
    OBVIOUS
  <2>1. TrackerTypeOK
    BY TrackerInvImplies
  <2>2. fiducialStates \in [Reported -> {FIDUCIAL_LOST, FIDUCIAL_FOUND}]
    BY DEF RecordsInv
  <2>3. /\ DOMAIN fiducialEdges \subseteq FidIds
        /\ fiducialEdges \in [DOMAIN fiducialEdges -> FidIds]
    BY IgnoreAssumption DEF RecordsInv, EdgesInv, EdgesStartReported, MayBeMet
  <2>4. QED
    BY <2>1, <2>2, <2>3 DEF RecordsInv, EdgesInv, EngineTypeOK
<1>4. QED
  BY <1>1, <1>2, <1>3, RecordsInvHolds, PTL DEF EngineSpec

\* Every edge is stored before it is compared again: a ray that has moved to
\* another fiducial sends Found for it, and no Lost.
THEOREM LostOnlyWhenMissed == EngineSpec => []LostOnlyOnMiss
<1>1. EngineInit => LostOnlyOnMiss
  BY DEF EngineInit, NoRayEvents, LostOnlyOnMiss
<1>2. LostOnlyOnMiss /\ [EngineNext]_pipelineVars => LostOnlyOnMiss'
  <2> SUFFICES ASSUME LostOnlyOnMiss, [EngineNext]_pipelineVars
               PROVE  LostOnlyOnMiss'
    OBVIOUS
  <2>1. CASE EngineUpdate
    <3>1. PICK hit \in Hits : CastRays(hit)
      BY <2>1 DEF EngineUpdate
    <3>2. ASSUME NEW i \in Sources, "Lost" \in RayEvent(i, hit[i])
          PROVE  hit[i] = NoFiducial
      BY <3>2 DEF RayEvent, RayIsLost, EdgeAfterFound
    <3>3. ASSUME NEW i \in Sources, "Lost" \in RayEvent(i, hit[i])
          PROVE  RayEvent(i, hit[i]) \cap {"Found", "Updated"} = {}
      BY <3>2, <3>3 DEF RayEvent
    <3>4. QED
      BY <3>1, <3>3 DEF CastRays, LostOnlyOnMiss
  <2>2. CASE TrackerSteps
    <3>1. rayEvt' = NoRayEvents
      BY <2>2 DEF TrackerSteps, TrackFrame, SkipFrame, Reload, EngineIdle
    <3>2. QED
      BY <3>1 DEF NoRayEvents, LostOnlyOnMiss
  <2>3. CASE UNCHANGED pipelineVars
    BY <2>3 DEF pipelineVars, engineVars, LostOnlyOnMiss
  <2>4. QED
    BY <2>1, <2>2, <2>3 DEF EngineNext
<1>3. QED
  BY <1>1, <1>2, PTL DEF EngineSpec

-----------------------------------------------------------------------------
(* The corners.                                                            *)

CornersFollow(f) == f.updateCorners => f.corners = f.current

LEMMA UpdateMovesCorners ==
  ASSUME NEW f \in Fiducial, f.life > 0, NEW x \in Positions
  PROVE  CornersFollow(Update(f, x))
<1> DEFINE life == IF f.life < MAX_FIDUCIAL_LIFE THEN f.life + 2 ELSE f.life
           corners == IF f.updateCorners THEN Filtered(f, x) ELSE f.corners
<1>1. Update(f, x) =
        [ f EXCEPT !.current = Filtered(f, x), !.last = Filtered(f, x),
                   !.state = FIDUCIAL_FOUND, !.updated = TRUE,
                   !.corners = corners, !.life = life ]
  BY DEF Update
<1>2. f.updateCorners => corners = Filtered(f, x)
  OBVIOUS
<1> HIDE DEF life, corners
<1>3. /\ Update(f, x).updateCorners = f.updateCorners
      /\ Update(f, x).corners = corners
      /\ Update(f, x).current = Filtered(f, x)
  BY <1>1 DEF Fiducial
<1>4. QED
  BY <1>2, <1>3 DEF CornersFollow

\* Ageing puts an entry that was not updated back to where it was.
LEMMA AgedKeepsCorners ==
  ASSUME NEW f \in Fiducial, f.updated \/ f.current = f.last, CornersFollow(f)
  PROVE  CornersFollow(Aged(f))
BY DEF Aged, Fiducial, CornersFollow

LEMMA NewHasNoCorners ==
  ASSUME NEW x \in Positions
  PROVE  CornersFollow(Aged(NewFiducial(x)))
<1>1. NewFiducial(x) \in Fiducial /\ ~ NewFiducial(x).updateCorners
  BY NewEntryType DEF NewFiducial
<1>2. ~ Aged(NewFiducial(x)).updateCorners
  BY <1>1 DEF Aged, Fiducial
<1>3. QED
  BY <1>2 DEF CornersFollow

LEMMA FrameKeepsCorners ==
  ASSUME TrackerInv, CornersAreCurrent, NEW i \in FidIds, NEW s \in Sightings,
         s = <<>> => i \in Listed
  PROVE  CornersFollow(Aged(Matched(i, s)))
<1>1. i \in Listed =>
        /\ fiducialsList[i] \in Fiducial /\ fiducialsList[i].life > 0
        /\ fiducialsList[i].current = fiducialsList[i].last
        /\ CornersFollow(fiducialsList[i])
  BY DEF TrackerInv, ListInv, EntryInv, CornersAreCurrent, CornersFollow
<1>2. ASSUME NEW f \in Fiducial, f.life > 0, NEW x \in Positions
      PROVE  CornersFollow(Aged(Update(f, x)))
  BY <1>2, UpdateType, UpdateMovesCorners, AgedKeepsCorners
<1>3. CASE s = <<>>
  BY <1>1, <1>3, AgedKeepsCorners DEF Matched
<1>4. CASE \E x \in Positions : s = <<x>>
  <2>1. PICK x \in Positions : s = <<x>>
    BY <1>4
  <2>2. Matched(i, s) = FirstSighting(i, x)
    BY <2>1 DEF Matched
  <2>3. QED
    BY <1>1, <1>2, <2>2, NewHasNoCorners DEF FirstSighting
<1>5. CASE \E x, y \in Positions : s = <<x, y>>
  <2>1. PICK x \in Positions, y \in Positions : s = <<x, y>>
    BY <1>5
  <2>2. Matched(i, s) = Update(FirstSighting(i, x), y)
    BY <2>1 DEF Matched
  <2>3. FirstSighting(i, x) \in Fiducial /\ FirstSighting(i, x).life > 0
    BY <1>1, UpdateType, NewEntryType DEF FirstSighting, MAX_FIDUCIAL_LIFE
  <2>4. QED
    BY <1>2, <2>2, <2>3
<1>6. QED
  BY <1>3, <1>4, <1>5, SightingsCases

LEMMA CornersNextInv ==
  ASSUME TrackerInv, CornersAreCurrent, [EngineNext]_pipelineVars
  PROVE  CornersAreCurrent'
<1>1. CASE EngineUpdate
  <2>1. /\ Listed' = Listed
        /\ \A i \in Listed : fiducialsList'[i] =
             IF i \in Scanned THEN ForceCorners(fiducialsList[i]) ELSE fiducialsList[i]
    BY <1>1 DEF EngineUpdate, ScanStatus, Listed
  <2>2. ASSUME NEW i \in Listed
        PROVE  CornersFollow(ForceCorners(fiducialsList[i]))
    <3>1. fiducialsList[i] \in Fiducial /\ CornersFollow(fiducialsList[i])
      BY DEF TrackerInv, ListInv, EntryInv, CornersAreCurrent, CornersFollow
    <3>2. QED
      BY <3>1, ForcedCorners DEF CornersFollow
  <2>3. QED
    BY <2>1, <2>2 DEF CornersAreCurrent, CornersFollow
<1>2. ASSUME NEW size \in Sizes, NEW frame \in Frames, NEW asked,
             TrackFrame(size, frame, asked)
      PROVE  CornersAreCurrent'
  <2>1. /\ Listed' = Survivors(frame)
        /\ \A i \in Survivors(frame) : fiducialsList'[i] =
             IF i \in asked THEN ComputeCorners(Aged(Matched(i, frame[i])))
             ELSE Aged(Matched(i, frame[i]))
    BY <1>2, FramedEntries DEF TrackFrame
  <2>2. ASSUME NEW i \in Survivors(frame)
        PROVE  CornersFollow(fiducialsList'[i])
    <3>1. i \in FidIds /\ (frame[i] = <<>> => i \in Listed)
      BY DEF Survivors, Sighted, TrackerInv, ListInv
    <3>2. frame[i] \in Sightings
      BY <3>1 DEF Frames
    <3>3. CornersFollow(Aged(Matched(i, frame[i])))
      BY <3>1, <3>2, FrameKeepsCorners
    <3>4. ASSUME NEW f PROVE CornersFollow(ComputeCorners(f)) \/ f \notin Fiducial
      BY ComputedCorners DEF CornersFollow
    <3>5. Aged(Matched(i, frame[i])) \in Fiducial
      BY <3>1, <3>2, ReportedId, UnreportedId DEF TrackerInv, Survivors, EntryInv
    <3>6. QED
      BY <2>1, <3>3, <3>4, <3>5
  <2>3. QED
    BY <2>1, <2>2 DEF CornersAreCurrent, CornersFollow
<1>3. CASE UNCHANGED fiducialsList
  BY <1>3 DEF CornersAreCurrent, Listed
<1>4. QED
  BY <1>1, <1>2, <1>3
     DEF EngineNext, TrackerSteps, SkipFrame, RejectFrame, Reload, ReloadTrees,
         pipelineVars, trackerVars

\* The corners of an entry, once they are computed, move with it.
THEOREM CornersFollowPositions == EngineSpec => []CornersAreCurrent
<1>1. EngineInit => CornersAreCurrent
  BY DEF EngineInit, TrackerInit, CornersAreCurrent, Listed
<1>2. TrackerInv /\ CornersAreCurrent /\ [EngineNext]_pipelineVars => CornersAreCurrent'
  BY CornersNextInv
<1>3. QED
  BY <1>1, <1>2, RecordsInvHolds, PTL DEF EngineSpec

-----------------------------------------------------------------------------
(* The events of the engine.                                               *)

LEMMA EventIsSensible ==
  ASSUME EngineInv, RecordsInv, NEW i \in FidIds
  PROVE  /\ StatusEvent(i) \in Promise!Sensible(PresenceOf(i))
         /\ StatusEvent(i) # "none" => i \in Listed
<1>1. TrackerInv
  BY DEF EngineInv
<1>2. CASE i \notin Scanned
  <2>1. StatusEvent(i) = "none"
    BY <1>2 DEF StatusEvent, NoEvent
  <2>2. PresenceOf(i) \in {"unseen", "lost"}
    BY <1>2 DEF PresenceOf, EngineInv, Scanned
  <2>3. QED
    BY <2>1, <2>2 DEF Promise!Sensible
<1>3. CASE i \in Scanned
  <2>1. i \in Listed /\ fiducialsList[i].state \in {FIDUCIAL_LOST, FIDUCIAL_FOUND}
    BY <1>1, <1>3, ListedEntries DEF Scanned
  <2>2. /\ i \notin Reported => StatePrev(i) = FIDUCIAL_INVALID
        /\ i \in Reported => /\ StatePrev(i) = fiducialStates[i]
                             /\ fiducialStates[i] \in {FIDUCIAL_LOST, FIDUCIAL_FOUND}
    BY DEF StatePrev, RecordsInv
  <2>3. CASE i \notin Reported
    <3>1. PresenceOf(i) = "unseen" /\ StatusEvent(i) \in {"none", "Found", "Lost"}
      BY <1>3, <2>1, <2>2, <2>3
         DEF PresenceOf, StatusEvent, NoEvent, FIDUCIAL_LOST, FIDUCIAL_FOUND, FIDUCIAL_INVALID
    <3>2. QED
      BY <2>1, <3>1 DEF Promise!Sensible
  <2>4. CASE i \in Reported /\ fiducialStates[i] = FIDUCIAL_FOUND
    <3>1. PresenceOf(i) = "found" /\ StatusEvent(i) \in {"Updated", "Lost"}
      BY <1>3, <2>1, <2>2, <2>4
         DEF PresenceOf, StatusEvent, NoEvent, FIDUCIAL_LOST, FIDUCIAL_FOUND
    <3>2. QED
      BY <2>1, <3>1 DEF Promise!Sensible
  <2>5. CASE i \in Reported /\ fiducialStates[i] = FIDUCIAL_LOST
    <3>1. PresenceOf(i) = "lost" /\ StatusEvent(i) \in {"none", "Found"}
      BY <1>3, <2>1, <2>2, <2>5
         DEF PresenceOf, StatusEvent, NoEvent, FIDUCIAL_LOST, FIDUCIAL_FOUND
    <3>2. QED
      BY <2>1, <3>1 DEF Promise!Sensible
  <2>6. QED
    BY <2>2, <2>3, <2>4, <2>5
<1>4. QED
  BY <1>2, <1>3

\* What is recorded of a fiducial is what its event tells.
LEMMA RecordFollowsEvent ==
  ASSUME EngineInv, RecordsInv, EngineUpdate, NEW i \in FidIds
  PROVE  PresenceOf(i)' = Promise!After(PresenceOf(i), StatusEvent(i))
<1>1. TrackerInv
  BY DEF EngineInv
<1>2. /\ Reported' = Reported \cup Scanned
      /\ \A j \in Reported' : fiducialStates'[j] =
           IF j \in Scanned THEN fiducialsList[j].state ELSE fiducialStates[j]
  BY <1>1, ScanRecordsStates
<1>3. CASE i \notin Scanned
  <2>1. StatusEvent(i) = "none"
    BY <1>3 DEF StatusEvent, NoEvent
  <2>2. (i \in Reported' <=> i \in Reported)
        /\ (i \in Reported => fiducialStates'[i] = fiducialStates[i])
    BY <1>2, <1>3
  <2>3. PresenceOf(i)' = PresenceOf(i)
    BY <2>2 DEF PresenceOf
  <2>4. QED
    BY <2>1, <2>3 DEF Promise!After
<1>4. CASE i \in Scanned /\ fiducialsList[i].state = FIDUCIAL_FOUND
  <2>1. StatusEvent(i) \in {"Found", "Updated"}
    BY <1>4 DEF StatusEvent
  <2>2. PresenceOf(i)' = "found"
    BY <1>2, <1>4 DEF PresenceOf
  <2>3. QED
    BY <2>1, <2>2 DEF Promise!After
<1>5. CASE i \in Scanned /\ fiducialsList[i].state = FIDUCIAL_LOST
  <2>1. PresenceOf(i)' = "lost"
    BY <1>2, <1>5 DEF PresenceOf, FIDUCIAL_LOST, FIDUCIAL_FOUND
  <2>2. CASE StatePrev(i) # FIDUCIAL_LOST
    <3>1. StatusEvent(i) = "Lost"
      BY <1>5, <2>2 DEF StatusEvent, FIDUCIAL_LOST, FIDUCIAL_FOUND
    <3>2. QED
      BY <2>1, <3>1 DEF Promise!After
  <2>3. CASE StatePrev(i) = FIDUCIAL_LOST
    <3>1. StatusEvent(i) = "none"
      BY <1>5, <2>3 DEF StatusEvent, NoEvent, FIDUCIAL_LOST, FIDUCIAL_FOUND
    <3>2. PresenceOf(i) = "lost"
      BY <2>3 DEF StatePrev, PresenceOf, FIDUCIAL_LOST, FIDUCIAL_FOUND, FIDUCIAL_INVALID
    <3>3. QED
      BY <2>1, <3>1, <3>2 DEF Promise!After
  <2>4. QED
    BY <2>2, <2>3
<1>6. QED
  BY <1>1, <1>3, <1>4, <1>5, ListedEntries DEF Scanned

LEMMA UpdateReports ==
  ASSUME EngineInv, RecordsInv, EngineUpdate
  PROVE  Promise!Report
<1>1. statusEvt' = [ i \in FidIds |-> StatusEvent(i) ]
  BY DEF EngineUpdate, ScanStatus
<1>2. statusEvt' \in [FidIds -> {"none", "Found", "Updated", "Lost"}]
  BY <1>1 DEF StatusEvent, NoEvent
<1>3. ASSUME NEW i \in FidIds
      PROVE  /\ statusEvt'[i] \in Promise!Sensible([ j \in FidIds |-> PresenceOf(j) ][i])
             /\ statusEvt'[i] # "none" => i \in Listed
  BY <1>1, EventIsSensible
<1>4. ASSUME NEW i \in FidIds
      PROVE  PresenceOf(i)' =
               Promise!After([ j \in FidIds |-> PresenceOf(j) ][i], statusEvt'[i])
  BY <1>1, RecordFollowsEvent
<1>5. [ i \in FidIds |-> PresenceOf(i)' ] =
        [ i \in FidIds |->
            Promise!After([ j \in FidIds |-> PresenceOf(j) ][i], statusEvt'[i]) ]
  BY <1>4
<1>6. Listed' = Listed
  BY DEF EngineUpdate, ScanStatus, Listed
<1>7. QED
  BY <1>2, <1>3, <1>5, <1>6 DEF Promise!Report

LEMMA TrackerWatches ==
  ASSUME EngineInv', TrackerSteps
  PROVE  Promise!Watch
<1>1. statusEvt' = NoStatusEvents /\ UNCHANGED fiducialStates
  BY DEF TrackerSteps, TrackFrame, SkipFrame, Reload, EngineIdle
<1>2. UNCHANGED [ i \in FidIds |-> PresenceOf(i) ]
  BY <1>1 DEF PresenceOf, Reported
<1>3. Listed' \in SUBSET FidIds
  BY DEF EngineInv, TrackerInv, ListInv
<1>4. ASSUME NEW i \in FidIds, [ j \in FidIds |-> PresenceOf(j) ][i] = "found"
      PROVE  i \in Listed'
  <2>1. i \in Reported' /\ fiducialStates'[i] = FIDUCIAL_FOUND
    BY <1>1, <1>4 DEF PresenceOf, Reported
  <2>2. QED
    BY <2>1 DEF EngineInv
<1>5. statusEvt' = Promise!Silence
  BY <1>1 DEF NoStatusEvents, NoEvent, Promise!Silence
<1>6. QED
  BY <1>2, <1>3, <1>4, <1>5 DEF Promise!Watch

\* The tracker and the engine keep what Presence promises an application: no
\* marker it holds for there is forgotten, and Found, Updated and Lost come in
\* an order that makes sense, as long as the application updates the engine at
\* least once in every two processed frames.
THEOREM EngineKeepsPromise == MaxLag <= 2 => (EngineSpec => EngineImplementsPresence)
<1> SUFFICES ASSUME MaxLag <= 2
             PROVE  EngineSpec => EngineImplementsPresence
  OBVIOUS
<1>1. EngineInit => Promise!PresenceInit
  BY DEF EngineInit, TrackerInit, NoStatusEvents, NoEvent, Listed, Reported, PresenceOf,
         Promise!PresenceInit, Promise!Silence
<1>2. ASSUME EngineInv, EngineInv', RecordsInv, [EngineNext]_pipelineVars
      PROVE  [Promise!Report \/ Promise!Watch]_(Promise!presenceVars)
  <2>1. CASE EngineUpdate
    BY <1>2, <2>1, UpdateReports
  <2>2. CASE TrackerSteps
    BY <1>2, <2>2, TrackerWatches
  <2>3. CASE UNCHANGED pipelineVars
    <3>1. UNCHANGED <<fiducialsList, fiducialStates, statusEvt>>
      BY <2>3 DEF pipelineVars, trackerVars, engineVars
    <3>2. QED
      BY <3>1 DEF Promise!presenceVars, Listed, PresenceOf, Reported
  <2>4. QED
    BY <1>2, <2>1, <2>2, <2>3 DEF EngineNext
<1>3. EngineSpec => []EngineInv /\ []RecordsInv
  BY EngineInvHolds, RecordsInvHolds, PTL
<1>4. QED
  BY <1>1, <1>2, <1>3, PTL DEF EngineSpec, EngineImplementsPresence, Promise!PresenceSpec

-----------------------------------------------------------------------------
(* The graph.                                                              *)

(* The handlers on one page.                                               *)

LEMMA ActivatedPage ==
  ASSUME NEW page \in Page, page.listeners = 0
  PROVE  /\ Activate(page, TRUE) \in Page
         /\ Activate(page, TRUE).enabled
         /\ Activate(page, TRUE).listeners = 1
<1> DEFINE n == AddListener(page.listeners)
<1>1. n = 1
  BY DEF AddListener
<1>2. Activate(page, TRUE) = [ page EXCEPT !.enabled = TRUE, !.listeners = n ]
  BY DEF Activate
<1> HIDE DEF n
<1>3. Activate(page, TRUE) = [ page EXCEPT !.enabled = TRUE, !.listeners = 1 ]
  BY <1>1, <1>2
<1>4. [ page EXCEPT !.enabled = TRUE, !.listeners = 1 ] \in Page
  BY DEF Page
<1>5. /\ [ page EXCEPT !.enabled = TRUE, !.listeners = 1 ].enabled
      /\ [ page EXCEPT !.enabled = TRUE, !.listeners = 1 ].listeners = 1
  BY DEF Page
<1>6. QED
  BY <1>3, <1>4, <1>5

LEMMA DeactivatedPage ==
  ASSUME NEW page \in Page, page.listeners \in {0, 1}
  PROVE  /\ Activate(page, FALSE) \in Page
         /\ ~ Activate(page, FALSE).enabled
         /\ Activate(page, FALSE).listeners = 0
<1> DEFINE n == RemoveListener(page.listeners)
<1>1. n = 0
  BY DEF RemoveListener
<1>2. Activate(page, FALSE) = [ page EXCEPT !.enabled = FALSE, !.listeners = n ]
  BY DEF Activate
<1> HIDE DEF n
<1>3. Activate(page, FALSE) = [ page EXCEPT !.enabled = FALSE, !.listeners = 0 ]
  BY <1>1, <1>2
<1>4. [ page EXCEPT !.enabled = FALSE, !.listeners = 0 ] \in Page
  BY DEF Page
<1>5. /\ ~ [ page EXCEPT !.enabled = FALSE, !.listeners = 0 ].enabled
      /\ [ page EXCEPT !.enabled = FALSE, !.listeners = 0 ].listeners = 0
  BY DEF Page
<1>6. QED
  BY <1>3, <1>4, <1>5

LEMMA FoundActivates ==
  ASSUME NEW page \in Page, page.listeners = 0, NEW pos \in Coordinates
  PROVE  /\ Handled(page, "Found", pos) \in Page
         /\ Handled(page, "Found", pos).enabled
         /\ Handled(page, "Found", pos).listeners = 1
<1> DEFINE movedPage == [ page EXCEPT !.pos = pos ]
<1>1. movedPage \in Page /\ movedPage.listeners = 0
  BY DEF Page
<1>2. Handled(page, "Found", pos) = Activate(movedPage, TRUE)
  BY DEF Handled
<1> HIDE DEF movedPage
<1>3. QED
  BY <1>1, <1>2, ActivatedPage

LEMMA LostDeactivates ==
  ASSUME NEW page \in Page, page.listeners \in {0, 1}, NEW pos
  PROVE  /\ Handled(page, "Lost", pos) \in Page
         /\ ~ Handled(page, "Lost", pos).enabled
         /\ Handled(page, "Lost", pos).listeners = 0
<1>1. Handled(page, "Lost", pos) = Activate(page, FALSE)
  BY DEF Handled
<1>2. QED
  BY <1>1, DeactivatedPage

LEMMA UpdatedMoves ==
  ASSUME NEW page \in Page, NEW pos \in Coordinates
  PROVE  /\ Handled(page, "Updated", pos) \in Page
         /\ Handled(page, "Updated", pos).enabled = page.enabled
         /\ Handled(page, "Updated", pos).listeners = page.listeners
BY DEF Handled, Page

\* Activations of any page, however often it listens.
LEMMA ActivateType ==
  ASSUME NEW page \in Page, NEW isActivated \in BOOLEAN
  PROVE  Activate(page, isActivated) \in Page
<1> DEFINE n == IF isActivated THEN AddListener(page.listeners)
                ELSE RemoveListener(page.listeners)
<1>1. page.listeners \in Nat
  BY DEF Page
<1>2. n \in Nat
  BY <1>1 DEF AddListener, RemoveListener
<1>3. Activate(page, isActivated) = [ page EXCEPT !.enabled = isActivated, !.listeners = n ]
  BY DEF Activate
<1> HIDE DEF n
<1>4. QED
  BY <1>2, <1>3 DEF Page

LEMMA HandledType ==
  ASSUME NEW page \in Page, NEW evt \in {"Found", "Updated", "Lost"}, NEW pos \in Coordinates
  PROVE  Handled(page, evt, pos) \in Page
<1> DEFINE movedPage == [ page EXCEPT !.pos = pos ]
<1>1. movedPage \in Page
  BY DEF Page
<1> HIDE DEF movedPage
<1>2. CASE evt = "Found"
  <2>1. Handled(page, evt, pos) = Activate(movedPage, TRUE)
    BY <1>2 DEF Handled, movedPage
  <2>2. QED
    BY <1>1, <2>1, ActivateType
<1>3. CASE evt = "Lost"
  <2>1. Handled(page, evt, pos) = Activate(page, FALSE)
    BY <1>3 DEF Handled
  <2>2. QED
    BY <2>1, ActivateType
<1>4. CASE evt = "Updated"
  <2>1. Handled(page, evt, pos) = movedPage
    BY <1>4 DEF Handled, movedPage
  <2>2. QED
    BY <1>1, <2>1
<1>5. QED
  BY <1>2, <1>3, <1>4

-----------------------------------------------------------------------------
(* What an update of the engine tells the handlers.                        *)

\* What the scan finds for a listed fiducial, and the event it sends.
LEMMA ScannedEvent ==
  ASSUME TrackerInv, NEW i \in Scanned
  PROVE  /\ fiducialsList[i].current \in Coordinates
         /\ \/ /\ fiducialsList[i].state = FIDUCIAL_FOUND
               /\ StatusEvent(i) = IF HeldForFound(i) THEN "Updated" ELSE "Found"
            \/ /\ fiducialsList[i].state = FIDUCIAL_LOST
               /\ StatusEvent(i) = "Lost" \/ (StatusEvent(i) = NoEvent /\ ~ HeldForFound(i))
<1>1. /\ fiducialsList[i] \in Fiducial
      /\ fiducialsList[i].state # Uninitialised
  BY DEF Scanned, TrackerInv, ListInv, EntryInv
<1>2. /\ fiducialsList[i].current \in Coordinates
      /\ fiducialsList[i].state \in {FIDUCIAL_FOUND, FIDUCIAL_LOST}
  BY <1>1 DEF Fiducial
<1>3. StatePrev(i) = FIDUCIAL_FOUND <=> HeldForFound(i)
  BY DEF StatePrev, HeldForFound, FIDUCIAL_FOUND, FIDUCIAL_INVALID
<1>4. CASE fiducialsList[i].state = FIDUCIAL_FOUND
  BY <1>2, <1>3, <1>4 DEF StatusEvent
<1>5. CASE fiducialsList[i].state = FIDUCIAL_LOST
  BY <1>2, <1>3, <1>5 DEF StatusEvent, FIDUCIAL_FOUND, FIDUCIAL_LOST
<1>6. QED
  BY <1>2, <1>4, <1>5

\* What an update records: only a scanned fiducial can change.
LEMMA UpdateRecords ==
  ASSUME EngineUpdate, NEW i \in FidIds
  PROVE  /\ statusEvt'[i] = StatusEvent(i)
         /\ i \notin Scanned => (HeldForFound(i)' <=> HeldForFound(i)) /\ StatusEvent(i) = NoEvent
         /\ i \in Scanned => (HeldForFound(i)' <=> fiducialsList[i].state = FIDUCIAL_FOUND)
<1>1. /\ statusEvt' = [ j \in FidIds |-> StatusEvent(j) ]
      /\ fiducialStates' = [ j \in Reported \cup Scanned |->
            IF j \in Scanned THEN fiducialsList[j].state ELSE fiducialStates[j] ]
  BY DEF EngineUpdate, ScanStatus
<1>2. Reported' = Reported \cup Scanned
  BY <1>1 DEF Reported
<1>3. QED
  BY <1>1, <1>2 DEF HeldForFound, StatusEvent

-----------------------------------------------------------------------------
(* The graph beside the engine.                                            *)

\* Every run of a graph is a run of the engine.
THEOREM GraphIsEngine == GraphSpec => EngineSpec
<1>1. GuiInit => EngineInit
  BY DEF GuiInit
<1>2. [GraphNext]_vars => [EngineNext]_pipelineVars
  BY DEF GraphNext, GraphTrack, GraphUpdate, AddPage, RemovePage, SetUp, EngineNext, vars
<1>3. QED
  BY <1>1, <1>2, PTL DEF GraphSpec, EngineSpec

GraphInv ==
  /\ DOMAIN pages \subseteq FidIds
  /\ pages \in [DOMAIN pages -> Page]
  /\ selfMade \subseteq DOMAIN pages
  /\ ~ started => selfMade = {}

\* activate() adds one listener at most, and takes one off if there is one.
LEMMA ActivateCounts ==
  ASSUME NEW page \in Page
  PROVE  /\ Activate(page, TRUE).listeners <= page.listeners + 1
         /\ Activate(page, FALSE).listeners <= page.listeners
         /\ page.listeners = 0 \/ Activate(page, FALSE).listeners = page.listeners - 1
         /\ Activate(page, TRUE).listeners \in Nat
         /\ Activate(page, FALSE).listeners \in Nat
<1>1. page.listeners \in Nat
  BY DEF Page
<1> DEFINE n == AddListener(page.listeners)
           m == RemoveListener(page.listeners)
<1>2. /\ n \in Nat /\ n <= page.listeners + 1
      /\ m \in Nat /\ m <= page.listeners /\ (page.listeners = 0 \/ m = page.listeners - 1)
  BY <1>1, KeepsDuplicatesAssumption DEF AddListener, RemoveListener
<1>3. /\ Activate(page, TRUE) = [ page EXCEPT !.enabled = TRUE, !.listeners = n ]
      /\ Activate(page, FALSE) = [ page EXCEPT !.enabled = FALSE, !.listeners = m ]
  BY DEF Activate
<1> HIDE DEF n, m
<1>4. Activate(page, TRUE).listeners = n /\ Activate(page, FALSE).listeners = m
  BY <1>3 DEF Page
<1>5. QED
  BY <1>2, <1>4

\* Found comes when the fiducial is not held, and a Lost takes back what the
\* Found before it gave.  The page has `more` listeners beside that one.
LEMMA HandledCounts ==
  ASSUME NEW page \in Page, NEW pos \in Coordinates, NEW evt, NEW one \in {0, 1},
         NEW more \in Nat, page.listeners <= one + more
  PROVE  /\ evt = "Found" /\ one = 0 => Handled(page, evt, pos).listeners <= 1 + more
         /\ evt = "Lost" => Handled(page, evt, pos).listeners <= more
         /\ evt = "Updated" => Handled(page, evt, pos).listeners <= one + more
<1>1. page.listeners \in Nat
  BY DEF Page
<1>2. CASE evt = "Found" /\ one = 0
  <2> DEFINE moved == [ page EXCEPT !.pos = pos ]
             n == Activate(moved, TRUE).listeners
  <2>1. moved \in Page /\ moved.listeners = page.listeners
    BY DEF Page
  <2>2. Handled(page, evt, pos) = Activate(moved, TRUE)
    BY <1>2 DEF Handled
  <2> HIDE DEF moved
  <2>3. n <= page.listeners + 1 /\ n \in Nat
    BY <2>1, ActivateCounts
  <2> HIDE DEF n
  <2>4. n <= 1 + more
    BY <1>1, <1>2, <2>3
  <2>5. QED
    BY <1>2, <2>2, <2>4 DEF n
<1>3. CASE evt = "Lost"
  <2> DEFINE n == Activate(page, FALSE).listeners
  <2>1. Handled(page, evt, pos) = Activate(page, FALSE)
    BY <1>3 DEF Handled
  <2>2. n \in Nat /\ n <= page.listeners /\ (page.listeners = 0 \/ n = page.listeners - 1)
    BY ActivateCounts
  <2> HIDE DEF n
  <2>3. n <= more
    BY <1>1, <2>2
  <2>4. QED
    BY <1>3, <2>1, <2>3 DEF n
<1>4. CASE evt = "Updated"
  BY <1>4, UpdatedMoves
<1>5. QED
  BY <1>2, <1>3, <1>4

\* What an update does to one page.
LEMMA UpdateKeepsPage ==
  ASSUME TrackerInv, GraphInv, ListenersAreBalanced, GraphUpdate, NEW i \in DOMAIN pages
  PROVE  /\ pages'[i] \in Page
         /\ pages'[i].listeners <= (IF HeldForFound(i)' THEN 1 ELSE 0)
                                    + (IF i \in selfMade THEN 1 ELSE 0)
<1> DEFINE pos == fiducialsList[i].current
           evt == StatusEvent(i)
           one == IF HeldForFound(i) THEN 1 ELSE 0
           more == IF i \in selfMade THEN 1 ELSE 0
<1>1. i \in FidIds /\ pages[i] \in Page
  BY DEF GraphInv
<1>2. /\ pages'[i] = IF evt = NoEvent THEN pages[i] ELSE Handled(pages[i], evt, pos)
      /\ i \notin Scanned => (HeldForFound(i)' <=> HeldForFound(i)) /\ evt = NoEvent
      /\ i \in Scanned => (HeldForFound(i)' <=> fiducialsList[i].state = FIDUCIAL_FOUND)
  BY <1>1, UpdateRecords DEF GraphUpdate, HandleStatus
<1>3. pages[i].listeners <= one + more /\ one \in {0, 1} /\ more \in Nat
  BY DEF ListenersAreBalanced
<1>4. one = IF HeldForFound(i) THEN 1 ELSE 0
  OBVIOUS
<1> HIDE DEF one
<1> SUFFICES /\ pages'[i] \in Page
             /\ pages'[i].listeners <= (IF HeldForFound(i)' THEN 1 ELSE 0) + more
  OBVIOUS
<1> HIDE DEF more
<1>5. CASE i \notin Scanned
  BY <1>1, <1>2, <1>3, <1>4, <1>5
<1>6. CASE i \in Scanned /\ fiducialsList[i].state = FIDUCIAL_FOUND
  <2>1. /\ pos \in Coordinates /\ HeldForFound(i)'
        /\ evt = IF HeldForFound(i) THEN "Updated" ELSE "Found"
    BY <1>2, <1>6, ScannedEvent DEF FIDUCIAL_FOUND, FIDUCIAL_LOST
  <2>2. pages'[i] = Handled(pages[i], evt, pos) /\ pages'[i] \in Page
    BY <1>1, <1>2, <2>1, HandledType DEF NoEvent
  <2>3. pages'[i].listeners <= 1 + more
    BY <1>1, <1>3, <1>4, <2>1, <2>2, HandledCounts
  <2>4. QED
    BY <2>1, <2>2, <2>3
<1>7. CASE i \in Scanned /\ fiducialsList[i].state = FIDUCIAL_LOST
  <2>1. /\ pos \in Coordinates /\ ~ HeldForFound(i)'
        /\ evt = "Lost" \/ (evt = NoEvent /\ ~ HeldForFound(i))
    BY <1>2, <1>7, ScannedEvent DEF FIDUCIAL_FOUND, FIDUCIAL_LOST
  <2>2. CASE evt = "Lost"
    <3>1. pages'[i] = Handled(pages[i], evt, pos) /\ pages'[i] \in Page
      BY <1>1, <1>2, <2>1, <2>2, HandledType DEF NoEvent
    <3>2. pages'[i].listeners <= more /\ more = 0 + more
      BY <1>1, <1>3, <2>1, <2>2, <3>1, HandledCounts
    <3>3. QED
      BY <2>1, <3>1, <3>2
  <2>3. CASE evt = NoEvent /\ ~ HeldForFound(i)
    <3>1. pages'[i] = pages[i] /\ one = 0
      BY <1>2, <1>4, <2>3
    <3>2. QED
      BY <1>1, <1>3, <2>1, <3>1
  <2>4. QED
    BY <2>1, <2>2, <2>3
<1>8. QED
  BY <1>5, <1>6, <1>7, ScannedEvent

LEMMA GraphUpdateKeepsBalance ==
  ASSUME TrackerInv, GraphInv, ListenersAreBalanced, GraphUpdate
  PROVE  GraphInv' /\ ListenersAreBalanced'
<1>1. /\ pages' = [ i \in DOMAIN pages |->
            IF statusEvt'[i] = NoEvent THEN pages[i]
            ELSE Handled(pages[i], statusEvt'[i], fiducialsList[i].current) ]
      /\ UNCHANGED <<started, selfMade>>
  BY DEF GraphUpdate, HandleStatus
<1>2. DOMAIN pages' = DOMAIN pages /\ pages' \in [DOMAIN pages -> Page]
  BY <1>1, UpdateKeepsPage
<1>3. QED
  BY <1>1, <1>2, UpdateKeepsPage DEF GraphInv, ListenersAreBalanced

\* At the setup event no page has activated itself before.
LEMMA SetUpKeepsBalance ==
  ASSUME GraphInv, ListenersAreBalanced, NEW before \in SUBSET DOMAIN pages, SetUp(before)
  PROVE  GraphInv' /\ ListenersAreBalanced'
<1> DEFINE P(i) == IF i \in before /\ pages[i].enabled THEN Activate(pages[i], TRUE)
                   ELSE pages[i]
<1>1. ASSUME NEW page \in Page
      PROVE  /\ [ page EXCEPT !.enabled = FALSE ] \in Page
             /\ [ page EXCEPT !.enabled = FALSE ].listeners = page.listeners
  BY DEF Page
<1>2. ASSUME NEW i \in DOMAIN pages
      PROVE  /\ P(i) \in Page
             /\ P(i).listeners <= (IF HeldForFound(i) THEN 1 ELSE 0)
                                  + (IF i \in before /\ pages[i].enabled THEN 1 ELSE 0)
  <2>1. pages[i] \in Page /\ pages[i].listeners \in Nat
    BY DEF GraphInv, Page
  <2> DEFINE one == IF HeldForFound(i) THEN 1 ELSE 0
  <2>2. pages[i].listeners <= one /\ one \in Nat
    BY DEF SetUp, GraphInv, ListenersAreBalanced
  <2> HIDE DEF one
  <2>3. Activate(pages[i], TRUE) \in Page
    BY <2>1, ActivateType
  <2>4. /\ Activate(pages[i], TRUE).listeners <= pages[i].listeners + 1
        /\ Activate(pages[i], TRUE).listeners \in Nat
    BY <2>1, <2>3, ActivateCounts DEF Page
  <2> DEFINE self == i \in before /\ pages[i].enabled
  <2>5. CASE self
    <3> DEFINE n == Activate(pages[i], TRUE).listeners
               m == pages[i].listeners
    <3>1. n <= m + 1 /\ n \in Nat /\ m \in Nat /\ m <= one /\ one \in Nat
      BY <2>1, <2>2, <2>4
    <3> HIDE DEF n, m
    <3>2. n <= one + 1
      BY <3>1
    <3>3. QED
      BY <2>3, <2>5, <3>2 DEF one, n
  <2>6. CASE ~ self
    <3>1. pages[i].listeners <= one + 0
      BY <2>1, <2>2
    <3>2. QED
      BY <2>1, <2>6, <3>1 DEF one
  <2>7. QED
    BY <2>5, <2>6
<1>3. pages' = [ i \in DOMAIN pages |-> [ P(i) EXCEPT !.enabled = FALSE ] ]
  BY DEF SetUp
<1> HIDE DEF P
<1>4. /\ DOMAIN pages' = DOMAIN pages /\ pages' \in [DOMAIN pages -> Page]
      /\ \A i \in DOMAIN pages : pages'[i].listeners = P(i).listeners
  BY <1>1, <1>2, <1>3
<1>5. /\ selfMade' = { i \in before : pages[i].enabled } /\ started'
      /\ UNCHANGED fiducialStates
  BY DEF SetUp, pipelineVars, engineVars
<1>6. GraphInv'
  BY <1>4, <1>5 DEF GraphInv
<1>7. ASSUME NEW i \in DOMAIN pages
      PROVE  pages'[i].listeners <= (IF HeldForFound(i)' THEN 1 ELSE 0)
                                    + (IF i \in selfMade' THEN 1 ELSE 0)
  <2>1. i \in selfMade' <=> i \in before /\ pages[i].enabled
    BY <1>5
  <2>2. HeldForFound(i)' <=> HeldForFound(i)
    BY <1>5 DEF HeldForFound, Reported
  <2>3. QED
    BY <1>2, <1>4, <2>1, <2>2
<1>8. QED
  BY <1>4, <1>6, <1>7 DEF ListenersAreBalanced

LEMMA GraphNextKeepsBalance ==
  ASSUME TrackerInv, GraphInv, ListenersAreBalanced, [GraphNext]_vars
  PROVE  GraphInv' /\ ListenersAreBalanced'
<1>1. CASE GraphUpdate
  BY <1>1, GraphUpdateKeepsBalance
<1>2. ASSUME NEW i \in FidIds, AddPage(i)
      PROVE  GraphInv' /\ ListenersAreBalanced'
  <2>1. NewPage \in Page /\ NewPage.listeners = 0
    BY DEF NewPage, Page
  <2>2. UNCHANGED <<fiducialStates, selfMade>>
    BY <1>2 DEF AddPage, pipelineVars, engineVars
  <2>3. /\ DOMAIN pages' = DOMAIN pages \cup {i}
        /\ \A j \in DOMAIN pages : pages'[j] = pages[j]
        /\ pages'[i] = NewPage
    BY <1>2 DEF AddPage
  <2>4. ListenersAreBalanced'
    BY <2>1, <2>2, <2>3 DEF ListenersAreBalanced, HeldForFound, Reported
  <2>5. QED
    BY <1>2, <2>1, <2>4 DEF AddPage, GraphInv
<1>3. ASSUME NEW i \in FidIds, RemovePage(i)
      PROVE  GraphInv' /\ ListenersAreBalanced'
  <2>1. UNCHANGED fiducialStates
    BY <1>3 DEF RemovePage, pipelineVars, engineVars
  <2>2. QED
    BY <1>3, <2>1 DEF RemovePage, GraphInv, ListenersAreBalanced, HeldForFound, Reported
<1>4. ASSUME NEW before \in SUBSET DOMAIN pages, SetUp(before)
      PROVE  GraphInv' /\ ListenersAreBalanced'
  BY <1>4, SetUpKeepsBalance
<1>5. CASE UNCHANGED <<guiVars, fiducialStates>>
  BY <1>5 DEF guiVars, GraphInv, ListenersAreBalanced, HeldForFound, Reported
<1>6. CASE GraphTrack
  BY <1>5, <1>6 DEF GraphTrack, TrackerSteps, TrackFrame, SkipFrame, Reload, EngineIdle
<1>7. CASE UNCHANGED vars
  BY <1>5, <1>7 DEF vars, pipelineVars, engineVars
<1>8. QED
  BY <1>1, <1>2, <1>3, <1>4, <1>6, <1>7 DEF GraphNext

\* No listener is left over: however markers flicker, and whatever pages the
\* application adds, removes and sets up in between, a page has at most one
\* for its fiducial being held for found and one it gave itself at the setup
\* event.  That holds at any rate of updates, and whether or not the event
\* library keeps a listener added twice as two.
THEOREM ListenersStayBalanced == GraphSpec => []ListenersAreBalanced
<1>1. GuiInit => GraphInv /\ ListenersAreBalanced
  BY DEF GuiInit, GraphInv, ListenersAreBalanced
<1>2. TrackerInv /\ GraphInv /\ ListenersAreBalanced /\ [GraphNext]_vars
        => GraphInv' /\ ListenersAreBalanced'
  BY GraphNextKeepsBalance
<1>3. GraphSpec => []TrackerInv
  BY GraphIsEngine, RecordsInvHolds, PTL
<1>4. QED
  BY <1>1, <1>2, <1>3, PTL DEF GraphSpec

-----------------------------------------------------------------------------
(* The segments.                                                           *)

SegmentsInv == \A i \in segments : i \in FidIds /\ HeldForFound(i)

LEMMA GraphUpdateKeepsSegments ==
  ASSUME EngineInv, SegmentsInv, GraphUpdate
  PROVE  SegmentsInv'
<1>1. EngineUpdate /\ TrackerInv
  BY DEF GraphUpdate, EngineInv
<1>2. PICK hit \in Hits : CastRays(hit)
  BY <1>1 DEF EngineUpdate
<1>3. ASSUME NEW i \in segments, statusEvt'[i] # "Lost"
      PROVE  i \in FidIds /\ HeldForFound(i)'
  <2>1. i \in FidIds /\ HeldForFound(i)
    BY DEF SegmentsInv
  <2>2. i \in Scanned
    BY <2>1 DEF HeldForFound, EngineInv, Scanned
  <2>3. StatusEvent(i) # "Lost"
    BY <1>1, <1>3, <2>1, UpdateRecords
  <2>4. fiducialsList[i].state = FIDUCIAL_FOUND
    BY <1>1, <2>1, <2>2, <2>3, ScannedEvent
  <2>5. QED
    BY <1>1, <2>1, <2>2, <2>4, UpdateRecords
<1>4. ASSUME NEW i \in FidIds, "Terminated" \in rayEvt'[i]
      PROVE  HeldForFound(i)'
  <2>1. i \in Sources /\ fiducialsList[i].state = FIDUCIAL_FOUND
    BY <1>2, <1>4 DEF CastRays, RayEvent
  <2>2. i \in Scanned
    BY <2>1 DEF Sources, Scanned, EngineInv
  <2>3. QED
    BY <1>1, <2>1, <2>2, UpdateRecords
<1>5. QED
  BY <1>3, <1>4 DEF GraphUpdate, HandleRays, SegmentsInv

LEMMA GraphNextKeepsSegments ==
  ASSUME EngineInv, SegmentsInv, [GraphNext]_vars
  PROVE  SegmentsInv'
<1>1. CASE GraphUpdate
  BY <1>1, GraphUpdateKeepsSegments
<1>2. CASE UNCHANGED <<fiducialStates, segments>>
  BY <1>2 DEF SegmentsInv, HeldForFound, Reported
<1>3. CASE GraphTrack
  BY <1>2, <1>3
     DEF GraphTrack, TrackerSteps, TrackFrame, SkipFrame, Reload, EngineIdle, guiVars
<1>4. CASE UNCHANGED pipelineVars /\ UNCHANGED segments
  BY <1>2, <1>4 DEF pipelineVars, engineVars
<1>5. QED
  BY <1>1, <1>3, <1>4 DEF GraphNext, AddPage, RemovePage, SetUp, vars, guiVars

\* No ray is left on the screen after its fiducial was lost or erased, if the
\* engine is updated at least once in every two processed frames.
THEOREM SegmentsStayLive == MaxLag <= 2 => (GraphSpec => []SegmentsAreLive)
<1> SUFFICES ASSUME MaxLag <= 2
             PROVE  GraphSpec => []SegmentsAreLive
  OBVIOUS
<1>1. GuiInit => SegmentsInv
  BY DEF GuiInit, SegmentsInv
<1>2. EngineInv /\ SegmentsInv /\ [GraphNext]_vars => SegmentsInv'
  BY GraphNextKeepsSegments
<1>3. EngineInv /\ SegmentsInv => SegmentsAreLive
  BY DEF EngineInv, SegmentsInv, SegmentsAreLive, HeldForFound
<1>4. GraphSpec => []EngineInv
  BY GraphIsEngine, EngineInvHolds, PTL
<1>5. QED
  BY <1>1, <1>2, <1>3, <1>4, PTL DEF GraphSpec

-----------------------------------------------------------------------------
(* The manager.                                                            *)

PagesInv ==
  /\ TrackerInv
  /\ DOMAIN pages \subseteq FidIds
  /\ pages \in [DOMAIN pages -> Page]
  /\ PageMirrorsState

\* Every run of the manager is a run of the engine.
THEOREM ManagerIsEngine == ManagerSpec => EngineSpec
<1>1. ManagerInit => EngineInit
  BY DEF ManagerInit
<1>2. [ManagerNext]_vars => [EngineNext]_pipelineVars
  BY DEF ManagerNext, ManagerTrack, ManagerSkip, ManagerReload, ManagerUpdate,
         EngineNext, TrackerSteps, vars
<1>3. QED
  BY <1>1, <1>2, PTL DEF ManagerSpec, EngineSpec

-----------------------------------------------------------------------------
(* The steps.                                                              *)

LEMMA ManagerInitInv ==
  ASSUME ManagerInit
  PROVE  PagesInv
<1>1. TrackerInv
  BY TrackerInitInv DEF ManagerInit, EngineInit
<1>2. QED
  BY <1>1 DEF ManagerInit, PagesInv, PageMirrorsState

LEMMA ManagerUpdateKeepsInv ==
  ASSUME PagesInv, NEW answers \in SUBSET FidIds, ManagerUpdate(answers)
  PROVE  PagesInv'
<1> DEFINE known == KnownPages(answers)
<1>1. EngineUpdate
  BY DEF ManagerUpdate
<1>2. TrackerInv /\ TrackerInv'
  BY <1>1, ScanKeepsTrackerInv DEF PagesInv
<1>3. pages' = [ i \in DOMAIN known |->
            IF statusEvt'[i] = NoEvent THEN known[i]
            ELSE Handled(known[i], statusEvt'[i], fiducialsList[i].current) ]
  BY DEF ManagerUpdate, HandleStatus
<1>4. DOMAIN known \subseteq FidIds
  BY DEF KnownPages, Fetched, PagesInv
\* a page of before mirrors the state of before; a new one comes with a Found
<1>5. ASSUME NEW i \in DOMAIN known
      PROVE  /\ known[i] \in Page
             /\ \/ /\ known[i].enabled <=> HeldForFound(i)
                   /\ known[i].listeners = IF HeldForFound(i) THEN 1 ELSE 0
                \/ /\ known[i].listeners = 0
                   /\ StatusEvent(i) = "Found"
  <2>1. CASE i \in DOMAIN pages
    <3>1. known[i] = pages[i]
      BY <2>1 DEF KnownPages
    <3>2. pages[i] \in Page
      BY <2>1 DEF PagesInv
    <3>3. /\ pages[i].enabled <=> HeldForFound(i)
          /\ pages[i].listeners = IF HeldForFound(i) THEN 1 ELSE 0
      BY <2>1 DEF PagesInv, PageMirrorsState, HeldForFound
    <3>4. QED
      BY <3>1, <3>2, <3>3
  <2>2. CASE i \notin DOMAIN pages
    <3>1. known[i] = NewPage /\ statusEvt'[i] = "Found"
      BY <2>2 DEF KnownPages, Fetched
    <3>2. NewPage \in Page /\ NewPage.listeners = 0
      BY DEF NewPage, Page
    <3>3. i \in FidIds
      BY <1>4
    <3>4. QED
      BY <1>1, <3>1, <3>2, <3>3, UpdateRecords
  <2>3. QED
    BY <2>1, <2>2
<1> HIDE DEF known
<1>6. ASSUME NEW i \in DOMAIN known
      PROVE  /\ pages'[i] \in Page
             /\ pages'[i].enabled <=> HeldForFound(i)'
             /\ pages'[i].listeners = IF HeldForFound(i)' THEN 1 ELSE 0
  <2> DEFINE pos == fiducialsList[i].current
             evt == StatusEvent(i)
  <2>1. /\ pages'[i] = IF evt = NoEvent THEN known[i] ELSE Handled(known[i], evt, pos)
        /\ i \notin Scanned => (HeldForFound(i)' <=> HeldForFound(i)) /\ evt = NoEvent
        /\ i \in Scanned => (HeldForFound(i)' <=> fiducialsList[i].state = FIDUCIAL_FOUND)
    BY <1>1, <1>3, <1>4, UpdateRecords
  <2>2. CASE i \notin Scanned
    <3>1. evt = NoEvent /\ evt # "Found"
      BY <2>1, <2>2 DEF NoEvent
    <3>2. QED
      BY <1>5, <2>1, <2>2, <3>1
  <2>3. CASE i \in Scanned /\ evt = "Found"
    <3>1. pos \in Coordinates /\ ~ HeldForFound(i) /\ HeldForFound(i)'
      BY <1>2, <2>1, <2>3, ScannedEvent DEF NoEvent
    <3>2. known[i] \in Page /\ known[i].listeners = 0
      BY <1>5, <3>1
    <3>3. pages'[i] = Handled(known[i], "Found", pos)
      BY <2>1, <2>3 DEF NoEvent
    <3>4. QED
      BY <3>1, <3>2, <3>3, FoundActivates
  <2>4. CASE i \in Scanned /\ evt = "Updated"
    <3>1. pos \in Coordinates /\ HeldForFound(i) /\ HeldForFound(i)'
      BY <1>2, <2>1, <2>4, ScannedEvent DEF NoEvent
    <3>2. known[i] \in Page /\ known[i].enabled /\ known[i].listeners = 1
      BY <1>5, <2>4, <3>1
    <3>3. pages'[i] = Handled(known[i], "Updated", pos)
      BY <2>1, <2>4 DEF NoEvent
    <3>4. QED
      BY <3>1, <3>2, <3>3, UpdatedMoves
  <2>5. CASE i \in Scanned /\ evt = "Lost"
    <3>1. ~ HeldForFound(i)'
      BY <1>2, <2>1, <2>5, ScannedEvent DEF FIDUCIAL_FOUND, FIDUCIAL_LOST
    <3>2. known[i] \in Page /\ known[i].listeners \in {0, 1}
      BY <1>5, <2>5
    <3>3. pages'[i] = Handled(known[i], "Lost", pos)
      BY <2>1, <2>5 DEF NoEvent
    <3>4. QED
      BY <3>1, <3>2, <3>3, LostDeactivates
  <2>6. CASE i \in Scanned /\ evt = NoEvent
    <3>1. ~ HeldForFound(i) /\ ~ HeldForFound(i)'
      BY <1>2, <2>1, <2>6, ScannedEvent DEF NoEvent, FIDUCIAL_FOUND, FIDUCIAL_LOST
    <3>2. pages'[i] = known[i] /\ evt # "Found"
      BY <2>1, <2>6 DEF NoEvent
    <3>3. QED
      BY <1>5, <3>1, <3>2
  <2>7. QED
    BY <1>2, <2>2, <2>3, <2>4, <2>5, <2>6, ScannedEvent
<1>7. DOMAIN pages' = DOMAIN known /\ pages' \in [DOMAIN known -> Page]
  BY <1>3, <1>6
<1>8. PageMirrorsState'
  BY <1>6, <1>7 DEF PageMirrorsState, HeldForFound
<1>9. QED
  BY <1>2, <1>4, <1>7, <1>8 DEF PagesInv

LEMMA ManagerNextInv ==
  ASSUME PagesInv, [ManagerNext]_vars
  PROVE  PagesInv'
<1>1. ASSUME NEW answers \in SUBSET FidIds, ManagerUpdate(answers)
      PROVE  PagesInv'
  BY <1>1, ManagerUpdateKeepsInv
\* every other step leaves the pages and the engine's records alone
<1>2. ASSUME TrackerInv', UNCHANGED <<pages, fiducialStates>>
      PROVE  PagesInv'
  BY <1>2 DEF PagesInv, PageMirrorsState, HeldForFound, Reported
<1>3. ASSUME NEW size \in Sizes, NEW frame \in Frames, NEW asked,
             ManagerTrack(size, frame, asked)
      PROVE  PagesInv'
  <2>1. TrackerInv'
    BY <1>3, ProcessFrameKeepsListInv DEF PagesInv, ManagerTrack, TrackFrame
  <2>2. QED
    BY <1>2, <1>3, <2>1 DEF ManagerTrack, TrackFrame, EngineIdle, guiVars
<1>4. ASSUME NEW size \in Sizes, ManagerSkip(size)
      PROVE  PagesInv'
  <2>1. TrackerInv'
    BY <1>4, RejectFrameKeepsInv DEF PagesInv, ManagerSkip, SkipFrame
  <2>2. QED
    BY <1>2, <1>4, <2>1 DEF ManagerSkip, SkipFrame, EngineIdle, guiVars
<1>5. CASE ManagerReload
  <2>1. TrackerInv'
    BY <1>5, ReloadTreesKeepsInv DEF PagesInv, ManagerReload, Reload
  <2>2. QED
    BY <1>2, <1>5, <2>1 DEF ManagerReload, Reload, EngineIdle, guiVars
<1>6. CASE UNCHANGED vars
  <2>1. UNCHANGED trackerVars /\ UNCHANGED <<pages, fiducialStates>>
    BY <1>6 DEF vars, pipelineVars, engineVars, guiVars
  <2>2. TrackerInv'
    BY <2>1, TrackerStutterKeepsInv DEF PagesInv
  <2>3. QED
    BY <1>2, <2>1, <2>2
<1>7. QED
  BY <1>1, <1>3, <1>4, <1>5, <1>6 DEF ManagerNext

\* A page is active exactly while the engine holds its fiducial for found,
\* and never listens twice, whether or not the event library keeps duplicates.
THEOREM PagesMirrorTheEngine == ManagerSpec => []PageMirrorsState
<1>1. ManagerInit => PagesInv
  BY ManagerInitInv
<1>2. PagesInv /\ [ManagerNext]_vars => PagesInv'
  BY ManagerNextInv
<1>3. PagesInv => PageMirrorsState
  BY DEF PagesInv
<1>4. QED
  BY <1>1, <1>2, <1>3, PTL DEF ManagerSpec

\* No page stays on the screen after the tracker has erased its marker, if
\* the engine is updated at least once in every two processed frames.
THEOREM NoPageOutlivesItsMarker == MaxLag <= 2 => (ManagerSpec => []ActivePageIsListed)
<1>1. PageMirrorsState /\ FoundIsListed => ActivePageIsListed
  BY DEF PageMirrorsState, FoundIsListed, ActivePageIsListed, HeldForFound
<1>2. QED
  BY <1>1, ManagerIsEngine, FoundStaysListed, PagesMirrorTheEngine, PTL

-----------------------------------------------------------------------------
(* Where the pages are.  A page is placed where its fiducial is reported;  *)
(* with a single copy of each marker that is near where it was measured:   *)
(* a fiducial that is found has a last position, which two reports in the  *)
(* frame that appends an entry would not give it.                          *)

FoundIsConfirmed ==
  \A i \in Listed :
     fiducialsList[i].state = FIDUCIAL_FOUND => Confirmed(fiducialsList[i])

LEMMA SingleSightings ==
  ASSUME MaxCopies = 1, NEW s \in Sightings
  PROVE  s = <<>> \/ \E x \in Positions : s = <<x>>
<1>1. Len(s) <= 1
  BY DEF Sightings
<1>2. ASSUME NEW x \in Positions, NEW y \in Positions, s = <<x, y>>
      PROVE  FALSE
  BY <1>1, <1>2
<1>3. QED
  BY <1>2, SightingsCases

LEMMA UnreportedIsLost ==
  ASSUME NEW f \in Fiducial, ~ f.updated
  PROVE  Aged(f).state # FIDUCIAL_FOUND
<1>1. Aged(f).state = FIDUCIAL_LOST
  BY DEF Aged, Fiducial
<1>2. QED
  BY <1>1 DEF FIDUCIAL_LOST, FIDUCIAL_FOUND

LEMMA FrameKeepsConfirmed ==
  ASSUME MaxCopies = 1, TrackerInv, NEW size \in Sizes, NEW frame \in Frames,
         NEW asked, ProcessFrame(size, frame, asked)
  PROVE  FoundIsConfirmed'
<1>1. Listed' = Survivors(frame)
  BY FramedEntries
<1>2. ASSUME NEW i \in Survivors(frame), fiducialsList'[i].state = FIDUCIAL_FOUND
      PROVE  Confirmed(fiducialsList'[i])
  <2>1. i \in FidIds /\ frame[i] \in Sightings /\ IsAlive(Matched(i, frame[i]))
    BY DEF Survivors, Sighted, Frames, TrackerInv, ListInv
  <2>2. /\ Aged(Matched(i, frame[i])).state = FIDUCIAL_FOUND
        /\ Confirmed(fiducialsList'[i]) <=> Confirmed(Aged(Matched(i, frame[i])))
    <3>1. Aged(Matched(i, frame[i])) \in Fiducial
      <4>1. frame[i] = <<>> => i \in Listed
        BY DEF Survivors, Sighted
      <4>2. QED
        BY <2>1, <4>1, ReportedId, UnreportedId DEF TrackerInv, EntryInv
    <3>2. QED
      BY <1>2, <3>1, FramedFields DEF Confirmed
  <2>3. i \in Listed => /\ fiducialsList[i] \in Fiducial /\ fiducialsList[i].life > 0
                        /\ ~ fiducialsList[i].updated
                        /\ fiducialsList[i].current = fiducialsList[i].last
    BY DEF TrackerInv, ListInv, EntryInv
  <2>4. frame[i] # <<>>
    <3>1. SUFFICES ASSUME frame[i] = <<>>
                   PROVE  FALSE
      OBVIOUS
    <3>2. i \in Listed
      BY <3>1 DEF Survivors, Sighted
    <3>3. Matched(i, frame[i]) = fiducialsList[i]
      BY <3>1 DEF Matched
    <3>4. QED
      BY <2>2, <2>3, <3>2, <3>3, UnreportedIsLost
  <2>5. PICK x \in Positions : frame[i] = <<x>>
    BY <2>1, <2>4, SingleSightings
  <2>6. Matched(i, frame[i]) = FirstSighting(i, x)
    BY <2>5 DEF Matched
  <2>7. i \in Listed
    <3>1. SUFFICES ASSUME i \notin Listed
                   PROVE  FALSE
      OBVIOUS
    <3>2. Matched(i, frame[i]) = NewFiducial(x)
      BY <2>6, <3>1 DEF FirstSighting
    <3>3. NewFiducial(x) \in Fiducial /\ ~ NewFiducial(x).updated
      BY NewEntryType DEF NewFiducial
    <3>4. QED
      BY <2>2, <3>2, <3>3, UnreportedIsLost
  <2> DEFINE u == Update(fiducialsList[i], x)
  <2>8. /\ u \in Fiducial /\ u.updated
        /\ u.last = Filtered(fiducialsList[i], x)
        /\ Filtered(fiducialsList[i], x) # FIDUCIAL_INVALID_COORDS
    BY <2>3, <2>7, UpdateType, FilteredIsNear
  <2>9. Matched(i, frame[i]) = u
    BY <2>6, <2>7 DEF FirstSighting
  <2> HIDE DEF u
  <2>10. QED
    BY <2>2, <2>8, <2>9, AgedUpdated DEF Confirmed
<1>3. QED
  BY <1>1, <1>2 DEF FoundIsConfirmed

LEMMA ScanKeepsEntries ==
  ASSUME TrackerInv, EngineUpdate
  PROVE  /\ Listed' = Listed
         /\ measured' = measured
         /\ \A i \in Listed : /\ fiducialsList'[i].state = fiducialsList[i].state
                              /\ fiducialsList'[i].current = fiducialsList[i].current
                              /\ fiducialsList'[i].last = fiducialsList[i].last
<1>1. /\ fiducialsList' = [ i \in Listed |->
            IF i \in Scanned THEN ForceCorners(fiducialsList[i]) ELSE fiducialsList[i] ]
      /\ measured' = measured
  BY DEF EngineUpdate, ScanStatus
<1>2. Listed' = Listed
  BY <1>1 DEF Listed
<1>3. ASSUME NEW f \in Fiducial
      PROVE  /\ ForceCorners(f).state = f.state
             /\ ForceCorners(f).current = f.current
             /\ ForceCorners(f).last = f.last
  BY ForcedCorners
<1>4. \A i \in Listed : fiducialsList[i] \in Fiducial
  BY DEF TrackerInv, ListInv, EntryInv
<1>5. QED
  BY <1>1, <1>2, <1>3, <1>4

LEMMA EngineKeepsConfirmed ==
  ASSUME MaxCopies = 1, TrackerInv, FoundIsConfirmed, [EngineNext]_pipelineVars
  PROVE  FoundIsConfirmed'
<1>1. CASE EngineUpdate
  BY <1>1, ScanKeepsEntries DEF FoundIsConfirmed, Confirmed
<1>2. ASSUME NEW size \in Sizes, NEW frame \in Frames, NEW asked,
             TrackFrame(size, frame, asked)
      PROVE  FoundIsConfirmed'
  BY <1>2, FrameKeepsConfirmed DEF TrackFrame
<1>3. CASE UNCHANGED fiducialsList
  BY <1>3 DEF FoundIsConfirmed, Listed
<1>4. CASE \E size \in Sizes : SkipFrame(size)
  BY <1>3, <1>4 DEF SkipFrame, RejectFrame
<1>5. CASE Reload
  BY <1>3, <1>5 DEF Reload, ReloadTrees
<1>6. CASE UNCHANGED pipelineVars
  BY <1>3, <1>6 DEF pipelineVars, trackerVars
<1>7. QED
  BY <1>1, <1>2, <1>4, <1>5, <1>6 DEF EngineNext, TrackerSteps

\* Where an event puts a page.
LEMMA HandledPlaces ==
  ASSUME NEW page \in Page, NEW pos \in Coordinates, NEW evt \in {"Found", "Updated"}
  PROVE  Handled(page, evt, pos).pos = pos
<1> DEFINE movedPage == [ page EXCEPT !.pos = pos ]
<1>1. movedPage \in Page /\ movedPage.pos = pos
  BY DEF Page
<1>2. CASE evt = "Found"
  <2>1. Handled(page, evt, pos) = Activate(movedPage, TRUE)
    BY <1>2 DEF Handled
  <2> HIDE DEF movedPage
  <2>2. Activate(movedPage, TRUE).pos = movedPage.pos
    BY <1>1 DEF Activate, Page
  <2>3. QED
    BY <1>1, <2>1, <2>2
<1>3. CASE evt = "Updated"
  <2>1. Handled(page, evt, pos) = movedPage
    BY <1>3 DEF Handled
  <2>2. QED
    BY <1>1, <2>1
<1>4. QED
  BY <1>2, <1>3

LEMMA UpdatePlacesPages ==
  ASSUME EngineInv, PagesInv, FoundIsConfirmed,
         NEW answers \in SUBSET FidIds, ManagerUpdate(answers),
         NEW i \in DOMAIN pages', pages'[i].enabled
  PROVE  /\ i \in Listed'
         /\ Distance(pages'[i].pos, measured'[i]) <= JitterThreshold
<1> DEFINE known == KnownPages(answers)
           pos == fiducialsList[i].current
<1>1. EngineUpdate /\ TrackerInv
  BY DEF ManagerUpdate, EngineInv
<1>2. /\ DOMAIN pages' = DOMAIN known
      /\ pages'[i] = IF statusEvt'[i] = NoEvent THEN known[i]
                     ELSE Handled(known[i], statusEvt'[i], pos)
  BY DEF ManagerUpdate, HandleStatus
<1>3. i \in FidIds /\ known[i] \in Page
  BY <1>2 DEF KnownPages, Fetched, PagesInv, NewPage, Page
<1> HIDE DEF known
<1>4. HeldForFound(i)'
  BY ManagerUpdateKeepsInv DEF PagesInv, PageMirrorsState, HeldForFound
<1>5. i \in Scanned
  <2>1. SUFFICES ASSUME i \notin Scanned
                 PROVE  FALSE
    OBVIOUS
  <2>2. HeldForFound(i)
    BY <1>1, <1>3, <1>4, <2>1, UpdateRecords
  <2>3. i \in Listed /\ i \notin IgnoreFiducialIds
    BY <2>2 DEF HeldForFound, EngineInv
  <2>4. QED
    BY <2>1, <2>3 DEF Scanned
<1>6. fiducialsList[i].state = FIDUCIAL_FOUND
  BY <1>1, <1>3, <1>4, <1>5, UpdateRecords
<1>7. /\ pos \in Coordinates
      /\ StatusEvent(i) \in {"Found", "Updated"}
  BY <1>1, <1>5, <1>6, ScannedEvent DEF FIDUCIAL_FOUND, FIDUCIAL_LOST
<1>8. pages'[i].pos = pos
  <2>1. statusEvt'[i] = StatusEvent(i) /\ StatusEvent(i) # NoEvent
    BY <1>1, <1>3, <1>7, UpdateRecords DEF NoEvent
  <2>2. pages'[i] = Handled(known[i], StatusEvent(i), pos)
    BY <1>2, <2>1
  <2>3. QED
    BY <1>3, <1>7, <2>2, HandledPlaces
<1>9. Distance(pos, measured[i]) <= JitterThreshold
  <2>1. i \in Listed /\ Confirmed(fiducialsList[i])
    BY <1>5, <1>6 DEF Scanned, FoundIsConfirmed
  <2>2. QED
    BY <1>1, <1>6, <2>1, TrackerInvImplies DEF JitterIsBounded, NearMeasurement
<1>10. i \in Listed' /\ measured'[i] = measured[i]
  BY <1>1, <1>5, ScanKeepsEntries DEF Scanned
<1>11. QED
  BY <1>8, <1>9, <1>10

LEMMA ManagerPlacesPages ==
  ASSUME EngineInv, PagesInv, FoundIsConfirmed, ActivePageIsAtMarker, [ManagerNext]_vars
  PROVE  ActivePageIsAtMarker'
<1>1. ASSUME NEW answers \in SUBSET FidIds, ManagerUpdate(answers)
      PROVE  ActivePageIsAtMarker'
  BY <1>1, UpdatePlacesPages DEF ActivePageIsAtMarker
<1>2. ASSUME NEW size \in Sizes, NEW frame \in Frames, NEW asked,
             ManagerTrack(size, frame, asked)
      PROVE  ActivePageIsAtMarker'
  <2>1. lag \in Nat /\ lag' = lag + 1
    BY <1>2 DEF ManagerTrack, TrackFrame, EngineInv
  <2>2. lag' # 0
    BY <2>1
  <2>3. QED
    BY <2>2 DEF ActivePageIsAtMarker
<1>3. CASE UNCHANGED <<fiducialsList, measured, lag, pages>>
  BY <1>3 DEF ActivePageIsAtMarker, Listed
<1>4. CASE \E size \in Sizes : ManagerSkip(size)
  BY <1>3, <1>4 DEF ManagerSkip, SkipFrame, RejectFrame, guiVars
<1>5. CASE ManagerReload
  BY <1>3, <1>5 DEF ManagerReload, Reload, ReloadTrees, guiVars
<1>6. CASE UNCHANGED vars
  BY <1>3, <1>6 DEF vars, pipelineVars, trackerVars, engineVars, guiVars
<1>7. QED
  BY <1>1, <1>2, <1>4, <1>5, <1>6 DEF ManagerNext

\* If each marker is there once, and the engine is updated at least once in
\* every two processed frames, an update leaves every active page within the
\* jitter threshold of where its marker was measured last.
THEOREM PagesAreAtTheirMarkers ==
  MaxCopies = 1 /\ MaxLag <= 2 => (ManagerSpec => []ActivePageIsAtMarker)
<1> SUFFICES ASSUME MaxCopies = 1, MaxLag <= 2
             PROVE  ManagerSpec => []ActivePageIsAtMarker
  OBVIOUS
<1>1. ManagerInit => PagesInv /\ FoundIsConfirmed /\ ActivePageIsAtMarker
  BY ManagerInitInv
     DEF ManagerInit, EngineInit, TrackerInit, Listed, FoundIsConfirmed, ActivePageIsAtMarker
<1>2. PagesInv /\ [ManagerNext]_vars => PagesInv'
  BY ManagerNextInv
<1>3. TrackerInv /\ FoundIsConfirmed /\ [EngineNext]_pipelineVars => FoundIsConfirmed'
  BY EngineKeepsConfirmed
<1>4. EngineInv /\ PagesInv /\ FoundIsConfirmed /\ ActivePageIsAtMarker /\ [ManagerNext]_vars
        => ActivePageIsAtMarker'
  BY ManagerPlacesPages
<1>5. EngineInv => TrackerInv
  BY DEF EngineInv
<1>6. ManagerSpec => EngineSpec /\ []EngineInv
  BY ManagerIsEngine, EngineInvHolds, PTL
<1>7. QED
  BY <1>1, <1>2, <1>3, <1>4, <1>5, <1>6, PTL DEF ManagerSpec, EngineSpec

-----------------------------------------------------------------------------
(* The GUI of SimpleGuiToo.                                                *)

Names == {"changePage", "doAutoSave", "doSave", "doSaveBackup"}

LEMMA NamesOfLabels == LabelSet = Names
BY LabelsAssumption DEF LabelSet, Names

-----------------------------------------------------------------------------
(* Pages.                                                                  *)

\* The pages there can be, and the file that knows one of them.
GuiTooPagesInv ==
  /\ pageCount \in Nat /\ (pageCount = 0 \/ 3 <= pageCount) /\ pageCount <= MaxPages
  /\ pageCount > 0 => currentPage \in UserPages
  /\ file # NoFile => file.page \in 2 .. MaxPages - 1

\* setPage() ends at a page of the application.
LEMMA WrappedIsAPage ==
  ASSUME NEW i \in Int, NEW n \in Nat, 3 <= n
  PROVE  Wrapped(i, n) \in 2 .. n - 1
BY DEF Wrapped

\* What is saved names the page it is given.
LEMMA ContentNamesPage ==
  ASSUME NEW d, NEW a, NEW p, NEW v
  PROVE  Content(d, a, p, v).page = p
BY DEF Content

LEMMA PagesStep ==
  ASSUME GuiTooPagesInv, [GuiTooNext]_guiTooVars
  PROVE  GuiTooPagesInv'
<1>1. MaxPages \in Nat
  BY MaxPagesAssumption
<1>2. ASSUME pageCount > 0, pageCount' = pageCount, NEW q \in 2 .. pageCount - 1, currentPage' = q,
             file' = file \/ \E d, a, v : file' = Content(d, a, q, v)
      PROVE  GuiTooPagesInv'
  <2>1. file' # NoFile => file'.page \in 2 .. MaxPages - 1
    BY <1>1, <1>2, ContentNamesPage DEF GuiTooPagesInv
  <2>2. QED
    BY <1>2, <2>1 DEF GuiTooPagesInv, UserPages
<1>3. ASSUME pageCount > 0, NEW b, NEW q, SetDraw(b, q)
      PROVE  file' = file \/ \E d, a, v : file' = Content(d, a, q, v)
  BY <1>3 DEF SetDraw, Saved
<1>4. ASSUME pageCount > 0, NEW i \in Int PROVE Wrapped(i, pageCount) \in 2 .. pageCount - 1
  BY <1>4, WrappedIsAPage DEF GuiTooPagesInv
<1>5. pageCount > 0 => currentPage \in 2 .. pageCount - 1 /\ currentPage \in Int
  BY DEF GuiTooPagesInv, UserPages
<1>6. CASE pageCount > 0 /\ ToggleDraw
  <2>1. SetDraw(~ doDraw, currentPage) /\ currentPage' = currentPage /\ pageCount' = pageCount
    BY <1>6 DEF ToggleDraw, MouseAndControls
  <2>2. QED
    BY <1>2, <1>3, <1>5, <1>6, <2>1
<1>7. CASE pageCount > 0 /\ NextPageWithBlank
  <2> DEFINE next == Wrapped(currentPage + 1, pageCount)
  <2>1. /\ pageCount' = pageCount
        /\ \/ currentPage' = next /\ SetDraw(next # 2, next)
           \/ SetDraw(TRUE, currentPage) /\ currentPage' = Wrapped(2, pageCount)
    BY <1>7 DEF NextPageWithBlank, MouseAndControls
  <2>2. next \in 2 .. pageCount - 1
    BY <1>4, <1>5, <1>7
  <2> HIDE DEF next
  <2>3. CASE currentPage' = next /\ SetDraw(next # 2, next)
    <3>1. file' = file \/ \E d, a, v : file' = Content(d, a, next, v)
      BY <1>3, <1>7, <2>3
    <3>2. QED
      BY <1>2, <1>7, <2>1, <2>2, <2>3, <3>1
  <2>4. CASE SetDraw(TRUE, currentPage) /\ currentPage' = Wrapped(2, pageCount)
    <3>1. file' = file \/ \E d, a, v : file' = Content(d, a, currentPage, v)
      BY <1>3, <1>7, <2>4
    <3>2. file' # NoFile => file'.page \in 2 .. MaxPages - 1
      BY <1>1, <1>5, <1>7, <3>1, ContentNamesPage DEF GuiTooPagesInv
    <3>3. currentPage' \in 2 .. pageCount - 1
      BY <1>4, <1>7, <2>4
    <3>4. QED
      BY <1>7, <2>1, <3>2, <3>3 DEF GuiTooPagesInv, UserPages
  <2>5. QED
    BY <2>1, <2>3, <2>4
<1>8. CASE pageCount > 0 /\ \E i \in 0 .. MaxPages : SetPage(i)
  <2>1. PICK i \in 0 .. MaxPages : SetPage(i)
    BY <1>8
  <2>2. currentPage' = Wrapped(i, pageCount) /\ file' = file /\ pageCount' = pageCount /\ i \in Int
    BY <2>1 DEF SetPage, MouseAndControls, NotSaved
  <2>3. QED
    BY <1>2, <1>4, <1>8, <2>2
<1>9. CASE pageCount > 0 /\ UpdateGui
  <2> DEFINE page == IF flag["changePage"] THEN Wrapped(currentPage + 1, pageCount)
                     ELSE currentPage
  <2>1. /\ currentPage' = page /\ pageCount' = pageCount
        /\ file' = file \/ \E d, a, v : file' = Content(d, a, page, v)
    BY <1>9 DEF UpdateGui, MouseAndControls, Saved
  <2>2. page \in 2 .. pageCount - 1
    BY <1>4, <1>5, <1>9
  <2> HIDE DEF page
  <2>3. QED
    BY <1>2, <1>9, <2>1, <2>2
<1>10. CASE pageCount > 0 /\ \E place \in Places : Release(place)
  <2>1. /\ UNCHANGED <<pageCount, currentPage>>
        /\ file' = file \/ \E d, a, v : file' = Content(d, a, currentPage, v)
    BY <1>10 DEF Release, Saved
  <2>2. QED
    BY <1>2, <1>5, <1>10, <2>1
<1>11. CASE pageCount > 0 /\ \/ Draw \/ \E b \in BOOLEAN : SetAutoSave(b)
                             \/ \E place \in Places : Press(place)
  <2>1. UNCHANGED <<pageCount, currentPage, file>>
    BY <1>11 DEF Draw, SetAutoSave, Press, MouseAndControls, NotSaved
  <2>2. QED
    BY <1>2, <1>5, <1>11, <2>1
<1>12. CASE End
  BY <1>1, <1>12 DEF End, GuiTooPagesInv
<1>13. CASE \E n \in 3 .. MaxPages : Start(n)
  <2>1. PICK n \in 3 .. MaxPages : Start(n)
    BY <1>13
  <2>2. /\ n \in Nat /\ 3 <= n /\ n <= MaxPages /\ pageCount' = n /\ file' = file
        /\ currentPage' = n - 1 \/ (file # NoFile /\ currentPage' = Wrapped(file.page, n))
    BY <1>1, <2>1 DEF Start
  <2>3. currentPage' \in 2 .. n - 1
    BY <1>1, <2>2, WrappedIsAPage DEF GuiTooPagesInv
  <2>4. QED
    BY <1>1, <2>2, <2>3 DEF GuiTooPagesInv, UserPages
<1>14. CASE UNCHANGED guiTooVars
  BY <1>14 DEF guiTooVars, GuiTooPagesInv, UserPages
<1>15. QED
  BY <1>6, <1>7, <1>8, <1>9, <1>10, <1>11, <1>12, <1>13, <1>14 DEF GuiTooNext, Running
-----------------------------------------------------------------------------
(* Flags and controls.                                                     *)

FlagsInv ==
  /\ doDraw \in BOOLEAN /\ listening \in BOOLEAN /\ held \in BOOLEAN
  /\ guiFirst \in BOOLEAN /\ kept \in BOOLEAN
  /\ flag \in [ LabelSet -> BOOLEAN ] /\ oldValue \in [ LabelSet -> BOOLEAN ]
  /\ ShownIsListening

ControlsInv ==
  /\ value \in [ UserPages -> BOOLEAN ] /\ placed \subseteq UserPages
  /\ stale \subseteq Momentary \cap UserPages

LEMMA LabelsKeepTypes ==
  ASSUME NEW S, NEW b \in BOOLEAN,
         flag \in [ LabelSet -> BOOLEAN ], oldValue \in [ LabelSet -> BOOLEAN ]
  PROVE  /\ LabelsSet(S, b) \in [ LabelSet -> BOOLEAN ]
         /\ LabelsWrote(S, b) \in [ LabelSet -> BOOLEAN ]
BY DEF LabelsSet, LabelsWrote

\* Clearing a flag that was saved.
LEMMA ClearedFlag ==
  ASSUME NEW f \in [ LabelSet -> BOOLEAN ], NEW w \in BOOLEAN
  PROVE  /\ [ f EXCEPT !["doSave"] = @ /\ ~ w ] \in [ LabelSet -> BOOLEAN ]
         /\ [ f EXCEPT !["doSave"] = @ /\ ~ w ]["doSave"] = (f["doSave"] /\ ~ w)
         /\ [ f EXCEPT !["doSave"] = @ /\ ~ w ]["doAutoSave"] = f["doAutoSave"]
BY NamesOfLabels DEF Names

\* setDraw() shows the GUI and adds its handlers at once.
LEMMA SetDrawKeeps ==
  ASSUME FlagsInv, NEW b \in BOOLEAN, NEW q, SetDraw(b, q)
  PROVE  /\ doDraw' \in BOOLEAN /\ listening' \in BOOLEAN /\ ShownIsListening'
         /\ flag' \in [ LabelSet -> BOOLEAN ]
         /\ guiFirst' \in BOOLEAN /\ kept' \in BOOLEAN
<1>1. /\ doDraw' = b /\ listening' \in {listening, b} /\ (doDraw # b => listening' = b)
      /\ doDraw = b => listening' = listening
  BY DEF SetDraw
<1>2. doDraw' \in BOOLEAN /\ listening' \in BOOLEAN /\ ShownIsListening'
  BY <1>1 DEF FlagsInv, ShownIsListening
<1>3. flag["doAutoSave"] \in BOOLEAN
  BY NamesOfLabels DEF FlagsInv, Names
<1>4. flag' \in [ LabelSet -> BOOLEAN ]
  BY <1>3, ClearedFlag DEF SetDraw, FlagsInv
<1>5. guiFirst' \in BOOLEAN
  BY DEF SetDraw, FlagsInv
<1>6. kept' \in BOOLEAN
  BY DEF SetDraw, Saved
<1>7. QED
  BY <1>2, <1>4, <1>5, <1>6

LEMMA FlagsStep ==
  ASSUME FlagsInv, [GuiTooNext]_guiTooVars
  PROVE  FlagsInv'
<1>1. "doAutoSave" \in LabelSet /\ "changePage" \in LabelSet /\ "doSave" \in LabelSet
  BY NamesOfLabels DEF Names
<1>2. ASSUME NEW b \in BOOLEAN, NEW q, SetDraw(b, q), UNCHANGED <<oldValue, held>>
      PROVE  FlagsInv'
  BY <1>2, SetDrawKeeps DEF FlagsInv
<1>3. CASE ToggleDraw
  <2>1. SetDraw(~ doDraw, currentPage) /\ UNCHANGED <<oldValue, held>>
    BY <1>3 DEF ToggleDraw, MouseAndControls
  <2>2. (~ doDraw) \in BOOLEAN
    OBVIOUS
  <2>3. QED
    BY <1>2, <2>1, <2>2
<1>4. CASE NextPageWithBlank
  <2>1. /\ UNCHANGED <<oldValue, held>>
        /\ \E b \in BOOLEAN : \E q : SetDraw(b, q)
    BY <1>4 DEF NextPageWithBlank, MouseAndControls
  <2>2. QED
    BY <1>2, <2>1
<1>5. ASSUME NEW b \in BOOLEAN, SetAutoSave(b) PROVE FlagsInv'
  BY <1>1, <1>5 DEF SetAutoSave, MouseAndControls, NotSaved, FlagsInv, ShownIsListening
<1>6. ASSUME NEW i, SetPage(i) PROVE FlagsInv'
  BY <1>6 DEF SetPage, MouseAndControls, NotSaved, FlagsInv, ShownIsListening
<1>7. CASE UpdateGui
  BY <1>1, <1>7 DEF UpdateGui, MouseAndControls, Saved, FlagsInv, ShownIsListening
<1>8. CASE Draw
  BY <1>8 DEF Draw, NotSaved, FlagsInv, ShownIsListening
<1>9. ASSUME NEW place, Press(place) PROVE FlagsInv'
  <2>1. flag' \in [ LabelSet -> BOOLEAN ] /\ oldValue' \in [ LabelSet -> BOOLEAN ]
    BY <1>9, LabelsKeepTypes DEF Press, FlagsInv
  <2>2. QED
    BY <1>9, <2>1 DEF Press, NotSaved, FlagsInv, ShownIsListening
<1>10. ASSUME NEW place, Release(place) PROVE FlagsInv'
  <2> DEFINE after == LabelsSet(LabelsAt(place), FALSE)
             saves == listening /\ after["doAutoSave"]
  <2>1. /\ flag' = [ after EXCEPT !["doSave"] = @ /\ ~ saves ]
        /\ oldValue' = LabelsWrote(LabelsAt(place), FALSE)
        /\ held' = FALSE /\ UNCHANGED <<doDraw, listening, guiFirst>>
        /\ kept' \in BOOLEAN
    BY <1>10 DEF Release, Saved
  <2>2. /\ after \in [ LabelSet -> BOOLEAN ] /\ saves \in BOOLEAN
        /\ oldValue' \in [ LabelSet -> BOOLEAN ]
    BY <2>1, LabelsKeepTypes DEF FlagsInv
  <2> HIDE DEF after, saves
  <2>3. flag' \in [ LabelSet -> BOOLEAN ]
    BY <2>1, <2>2, ClearedFlag
  <2>4. QED
    BY <2>1, <2>2, <2>3 DEF FlagsInv, ShownIsListening
<1>11. ASSUME NEW n, Start(n) PROVE FlagsInv'
  <2>1. /\ doDraw' \in BOOLEAN /\ listening' = TRUE /\ held' = FALSE
        /\ guiFirst' = TRUE /\ kept' = FALSE
        /\ oldValue' \in [ LabelSet -> BOOLEAN ]
    BY <1>11 DEF Start
  <2>2. flag' \in [ LabelSet -> BOOLEAN ]
    BY <1>11 DEF Start
  <2>3. QED
    BY <2>1, <2>2 DEF FlagsInv, ShownIsListening
<1>12. CASE End
  BY <1>12 DEF End, FlagsInv, ShownIsListening
<1>13. CASE UNCHANGED guiTooVars
  BY <1>13 DEF guiTooVars, FlagsInv, ShownIsListening
<1>14. QED
  BY <1>3, <1>4, <1>5, <1>6, <1>7, <1>8, <1>9, <1>10, <1>11, <1>12, <1>13
     DEF GuiTooNext, Running

LEMMA NoControls == 2 .. 0 - 1 = {} /\ <<>> \in [ {} -> BOOLEAN ]
OBVIOUS

\* Controls that have the press or the release have a value still.
LEMMA PressedType ==
  ASSUME ControlsInv, NEW place
  PROVE  /\ Pressed(place) \in [ UserPages -> BOOLEAN ]
         /\ Released(place) \in [ UserPages -> BOOLEAN ]
BY DEF Pressed, Released, ControlsInv

LEMMA ControlsStep ==
  ASSUME GuiTooPagesInv, ControlsInv, [GuiTooNext]_guiTooVars
  PROVE  ControlsInv'
<1>1. ASSUME pageCount' = pageCount, value' \in [ UserPages -> BOOLEAN ],
             placed' \subseteq UserPages, stale' \subseteq stale
      PROVE  ControlsInv'
  BY <1>1 DEF ControlsInv, UserPages
<1>2. CASE MouseAndControls
  BY <1>1, <1>2 DEF MouseAndControls, ControlsInv
<1>3. CASE \/ ToggleDraw \/ NextPageWithBlank \/ UpdateGui
           \/ \E b \in BOOLEAN : SetAutoSave(b)
           \/ \E i \in 0 .. MaxPages : SetPage(i)
  <2>1. MouseAndControls
    BY <1>3 DEF ToggleDraw, NextPageWithBlank, UpdateGui, SetAutoSave, SetPage
  <2>2. QED
    BY <1>2, <2>1
<1>4. CASE pageCount > 0 /\ Draw
  BY <1>1, <1>4 DEF Draw, GuiTooPagesInv, ControlsInv
<1>5. ASSUME NEW place, Press(place) \/ Release(place) PROVE ControlsInv'
  <2>1. value' \in [ UserPages -> BOOLEAN ]
    BY <1>5, PressedType DEF Press, Release
  <2>2. pageCount' = pageCount /\ placed' = placed /\ stale' \subseteq stale
    BY <1>5 DEF Press, Release
  <2>3. QED
    BY <1>1, <2>1, <2>2 DEF ControlsInv
<1>6. ASSUME NEW n, Start(n) PROVE ControlsInv'
  <2>1. pageCount' = n /\ value' \in [ 2 .. n - 1 -> BOOLEAN ] /\ placed' = {}
    BY <1>6 DEF Start
  <2>2. stale' \subseteq Momentary \cap 2 .. n - 1
    BY <1>6 DEF Start, SavedOn
  <2>3. QED
    BY <2>1, <2>2 DEF ControlsInv, UserPages
<1>7. CASE End
  <2>1. pageCount' = 0 /\ value' = <<>> /\ placed' = {} /\ stale' = {}
    BY <1>7 DEF End
  <2>2. QED
    BY <2>1, NoControls DEF ControlsInv, UserPages
<1>8. CASE UNCHANGED guiTooVars
  BY <1>1, <1>8 DEF guiTooVars, ControlsInv
<1>9. QED
  BY <1>3, <1>4, <1>5, <1>6, <1>7, <1>8 DEF GuiTooNext, Running

GuiTooInv == GuiTooPagesInv /\ FlagsInv /\ ControlsInv

LEMMA GuiTooInitInv == GuiTooInit => GuiTooInv
<1> SUFFICES ASSUME GuiTooInit PROVE GuiTooInv
  OBVIOUS
<1>1. GuiTooPagesInv
  BY MaxPagesAssumption DEF GuiTooInit, GuiTooPagesInv
<1>2. FlagsInv
  BY DEF GuiTooInit, FlagsInv, ShownIsListening
<1>3. ControlsInv
  <2>1. pageCount = 0 /\ value = <<>> /\ placed = {} /\ stale = {}
    BY DEF GuiTooInit
  <2>2. QED
    BY <2>1, NoControls DEF ControlsInv, UserPages
<1>4. QED
  BY <1>1, <1>2, <1>3 DEF GuiTooInv

LEMMA GuiTooInvHolds == GuiTooSpec => []GuiTooInv
<1>1. GuiTooInv /\ [GuiTooNext]_guiTooVars => GuiTooInv'
  BY PagesStep, FlagsStep, ControlsStep DEF GuiTooInv
<1>2. QED
  BY <1>1, GuiTooInitInv, PTL DEF GuiTooSpec

-----------------------------------------------------------------------------
(* The theorems.                                                           *)

\* The current page is one of the application's, also after it has loaded the
\* file of a version with more pages or fewer, and a GUI that is shown has its
\* handlers, in whatever order it is hidden, turned, saved and started again.
THEOREM GuiTooTypeCorrect == GuiTooSpec => []GuiTooTypeOK
<1>1. GuiTooInv => GuiTooTypeOK
  <2> SUFFICES ASSUME GuiTooInv PROVE GuiTooTypeOK
    OBVIOUS
  <2>1. pageCount \in {0} \cup 3 .. MaxPages
    BY MaxPagesAssumption DEF GuiTooInv, GuiTooPagesInv
  <2>2. QED
    BY <2>1 DEF GuiTooInv, GuiTooPagesInv, FlagsInv, ControlsInv, GuiTooTypeOK
<1>2. QED
  BY <1>1, GuiTooInvHolds, PTL

\* What was saved with the controls as they are says of each what it is.
LEMMA SavedMatches ==
  ASSUME ControlsInv', pageCount' = pageCount,
         NEW d, NEW a, NEW q, file' = Content(d, a, q, value')
  PROVE  SavedWhileShown'
BY DEF SavedWhileShown, ControlsInv, Content, UserPages

\* The shown GUI and its file, over hiding and showing.
LEMMA SetDrawSaves ==
  ASSUME SavedWhileShown, FlagsInv, ControlsInv', NEW b \in BOOLEAN, NEW q,
         SetDraw(b, q), MouseAndControls
  PROVE  SavedWhileShown'
<1> DEFINE changes == doDraw # b
           saves == changes /\ flag["doAutoSave"]
<1>1. /\ pageCount' = pageCount /\ value' = value /\ held' = held /\ doDraw' = b
      /\ file' = IF saves THEN Content(b, flag["doAutoSave"], q, value) ELSE file
      /\ kept' = (flag["doAutoSave"] /\ (saves \/ kept))
      /\ ~ changes => guiFirst' = guiFirst
  BY DEF SetDraw, Saved, MouseAndControls
<1> HIDE DEF saves
<1>2. CASE saves
  BY <1>1, <1>2, SavedMatches
<1>3. CASE ~ saves
  <2>1. CASE ~ kept'
    BY <2>1 DEF SavedWhileShown
  <2>2. CASE kept'
    <3>1. ~ changes
      BY <1>1, <1>3, <2>2 DEF saves
    <3>2. /\ kept /\ file' = file /\ guiFirst' = guiFirst /\ doDraw' = doDraw
          /\ value' = value /\ held' = held /\ UserPages' = UserPages
      BY <1>1, <1>3, <2>2, <3>1 DEF saves, FlagsInv, UserPages
    <3>3. QED
      BY <3>2 DEF SavedWhileShown
  <2>3. QED
    BY <2>1, <2>2
<1>4. QED
  BY <1>2, <1>3

\* The GUI that is shown has the release, and saves what the labels let it.
LEMMA ReleaseSaves ==
  ASSUME FlagsInv, ControlsInv, NEW place, Release(place)
  PROVE  SavedWhileShown'
<1> DEFINE after == LabelsSet(LabelsAt(place), FALSE)
           saves == listening /\ after["doAutoSave"]
           heard == IF guiFirst THEN value ELSE Released(place)
<1>1. /\ kept' = (after["doAutoSave"] /\ (saves \/ kept))
      /\ file' = IF saves THEN Content(doDraw, after["doAutoSave"], currentPage, heard)
                 ELSE file
      /\ value' = Released(place)
      /\ UNCHANGED <<pageCount, doDraw, listening, guiFirst>>
  BY DEF Release, Saved
<1> SUFFICES ASSUME kept', doDraw'
             PROVE  \A p \in UserPages' :
                      /\ p \in DOMAIN file'.value
                      /\ value'[p] => file'.value[p]
                      /\ p \notin Momentary \/ ~ guiFirst' => value'[p] = file'.value[p]
  BY DEF SavedWhileShown
<1>2. saves
  BY <1>1 DEF FlagsInv, ShownIsListening
<1> HIDE DEF saves, after
<1>3. file'.value = heard
  BY <1>1, <1>2 DEF Content
<1>4. /\ value \in [ UserPages -> BOOLEAN ]
      /\ Released(place) \in [ UserPages -> BOOLEAN ]
  BY PressedType DEF ControlsInv
<1>5. ASSUME NEW p \in UserPages
      PROVE  /\ Released(place)[p] => value[p]
             /\ p \notin Momentary => Released(place)[p] = value[p]
  BY <1>4, <1>5 DEF Released
<1>6. UserPages' = UserPages
  BY <1>1 DEF UserPages
<1>7. QED
  BY <1>1, <1>3, <1>4, <1>5, <1>6

\* The file of a GUI that is shown follows its controls, if auto save is on:
\* over clicks on pages that are shown and on pages that are not, turned
\* pages, and clicks that were made while the GUI was hidden.
THEOREM FileFollowsControls == GuiTooSpec => []SavedWhileShown
<1>1. GuiTooInit => SavedWhileShown
  BY DEF GuiTooInit, SavedWhileShown
<1>2. ASSUME GuiTooInv, GuiTooInv', SavedWhileShown, [GuiTooNext]_guiTooVars
      PROVE  SavedWhileShown'
  <2> USE DEF GuiTooInv
  <2>1. ASSUME UNCHANGED <<pageCount, value, held, doDraw, guiFirst, file>>, kept' => kept
        PROVE  SavedWhileShown'
    BY <1>2, <2>1 DEF SavedWhileShown, UserPages
  <2>2. CASE ToggleDraw
    <3>1. SetDraw(~ doDraw, currentPage) /\ MouseAndControls /\ (~ doDraw) \in BOOLEAN
      BY <2>2 DEF ToggleDraw
    <3>2. QED
      BY <1>2, <3>1, SetDrawSaves
  <2>3. CASE NextPageWithBlank
    <3>1. MouseAndControls /\ \E b \in BOOLEAN : \E q : SetDraw(b, q)
      BY <2>3 DEF NextPageWithBlank
    <3>2. QED
      BY <1>2, <3>1, SetDrawSaves
  <2>4. CASE \/ \E b \in BOOLEAN : SetAutoSave(b)
             \/ \E i \in 0 .. MaxPages : SetPage(i)
             \/ Draw
    <3>1. /\ UNCHANGED <<pageCount, value, held, doDraw, guiFirst, file>>
          /\ kept' => kept
      BY <2>4 DEF SetAutoSave, SetPage, Draw, MouseAndControls, NotSaved
    <3>2. QED
      BY <2>1, <3>1
  <2>5. CASE UpdateGui
    <3> DEFINE page == IF flag["changePage"] THEN Wrapped(currentPage + 1, pageCount)
                       ELSE currentPage
               saves == flag["doSave"] \/ flag["doSaveBackup"]
    <3>1. /\ UNCHANGED <<pageCount, value, held, doDraw, guiFirst>>
          /\ kept' = (flag["doAutoSave"] /\ (saves \/ kept))
          /\ file' = IF saves THEN Content(doDraw, flag["doAutoSave"], page, value) ELSE file
      BY <2>5 DEF UpdateGui, Saved, MouseAndControls
    <3> HIDE DEF saves, page
    <3>2. CASE saves
      BY <1>2, <3>1, <3>2, SavedMatches
    <3>3. CASE ~ saves
      BY <2>1, <3>1, <3>3
    <3>4. QED
      BY <3>2, <3>3
  <2>6. ASSUME NEW place, Press(place) PROVE SavedWhileShown'
    BY <2>6 DEF Press, SavedWhileShown
  <2>7. ASSUME NEW place, Release(place) PROVE SavedWhileShown'
    BY <1>2, <2>7, ReleaseSaves
  <2>8. ASSUME NEW n, Start(n) PROVE SavedWhileShown'
    BY <2>8 DEF Start, SavedWhileShown
  <2>9. CASE End
    BY <2>9 DEF End, SavedWhileShown
  <2>10. CASE UNCHANGED guiTooVars
    BY <2>1, <2>10 DEF guiTooVars
  <2>11. QED
    BY <1>2, <2>2, <2>3, <2>4, <2>5, <2>6, <2>7, <2>8, <2>9, <2>10 DEF GuiTooNext, Running
<1>3. QED
  BY <1>1, <1>2, GuiTooInvHolds, PTL DEF GuiTooSpec
=============================================================================
