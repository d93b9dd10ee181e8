--------------------------- MODULE FiducialTracker ---------------------------
(***************************************************************************)
(* The list of fiducials that ofxFiducialTracker keeps from one camera     *)
(* frame to the next (ofxFiducialFinder/src): findFiducials matches the    *)
(* markers the recogniser reports in a frame against the list, and then    *)
(* ages the entries and erases the dead ones.                              *)
(*                                                                         *)
(* What the recogniser (libfidtrack) sees in a frame is an input: for each *)
(* id the measured positions, in the order reported.  The same id is       *)
(* reported twice when two copies of a marker lie on the table; a third    *)
(* report takes the branches of the second.  A position is one integer     *)
(* coordinate: update() filters x, y and the angle separately and alike.   *)
(***************************************************************************)
EXTENDS Integers, Sequences

CONSTANTS
  FidIds,     \* the marker ids in the tree map
  Positions,  \* the coordinates a marker can be measured at
  Sizes,      \* the frame sizes, named by the width, the camera can deliver
  MaxCopies,  \* how many copies of one marker can be on the table
  DetectFinger  \* whether the application ever looks for fingers

ASSUME PositionsAssumption == Positions \subseteq Nat

\* findFiducials returns at once when a frame has no width or no height.
ASSUME SizesAssumption == Sizes \subseteq Nat \ {0}

ASSUME MaxCopiesAssumption == MaxCopies \in 1 .. 2

ASSUME DetectFingerAssumption == DetectFinger \in BOOLEAN

FIDUCIAL_LOST    == 0
FIDUCIAL_FOUND   == 1
FIDUCIAL_INVALID == 2
Uninitialised    == 3    \* the constructor leaves ofxFiducial::state unset

MAX_FIDUCIAL_LIFE == 3
MIN_FIDUCIAL_LIFE == 2
JitterThreshold   == 1
FIDUCIAL_INVALID_COORDS == -100
NoCorners == -1          \* cornerPoints not computed yet: four zero points
NoSize    == 0           \* m_width and m_height before the first frame

VARIABLES
  fiducialsList,  \* the list, as a function from the listed ids to entries
  initialized,    \* the segmenter is allocated
  frameSize,      \* m_width and m_height
  measured,       \* history: the last measured position of each listed id
  missed          \* history: frames processed since a listed id was sighted

trackerVars == <<fiducialsList, initialized, frameSize, measured, missed>>

Listed == DOMAIN fiducialsList

Coordinates == Positions \cup {FIDUCIAL_INVALID_COORDS}

Fiducial ==
  [ life          : 0 .. MAX_FIDUCIAL_LIFE + 1,
    state         : {FIDUCIAL_LOST, FIDUCIAL_FOUND, Uninitialised},
    current       : Coordinates,
    last          : Coordinates,
    updated       : BOOLEAN,
    updateCorners : BOOLEAN,
    corners       : Coordinates \cup {NoCorners} ]

-----------------------------------------------------------------------------
(* The methods of ofxFiducial.                                             *)

Distance(p, q) == IF p >= q THEN p - q ELSE q - p

\* ofxFiducial() followed by operator=(FiducialX): `last` keeps the invalid
\* coordinates of the constructor and `updated` stays false.
NewFiducial(x) ==
  [ life          |-> MIN_FIDUCIAL_LIFE,
    state         |-> Uninitialised,
    current       |-> x,
    last          |-> FIDUCIAL_INVALID_COORDS,
    updated       |-> FALSE,
    updateCorners |-> FALSE,
    corners       |-> NoCorners ]

\* A movement within the threshold is jitter: the coordinate falls back on
\* the last frame's.
Filtered(f, x) == IF Distance(x, f.current) > JitterThreshold THEN x ELSE f.last

\* Mutation: the cap on life is off by one.
UpdateCapOffByOne(f, x) ==
  [ f EXCEPT !.current = Filtered(f, x),
             !.last    = Filtered(f, x),
             !.state   = FIDUCIAL_FOUND,
             !.updated = TRUE,
             !.corners = IF f.updateCorners THEN Filtered(f, x) ELSE @,
             !.life    = IF @ <= MAX_FIDUCIAL_LIFE THEN @ + 2 ELSE @ ]

\* Mutation: saveLastFrame() is called before the filter.
UpdateSavesFirst(f, x) ==
  [ f EXCEPT !.current = Filtered(f, x),
             !.last    = f.current,
             !.state   = FIDUCIAL_FOUND,
             !.updated = TRUE,
             !.corners = IF f.updateCorners THEN Filtered(f, x) ELSE @,
             !.life    = IF @ < MAX_FIDUCIAL_LIFE THEN @ + 2 ELSE @ ]

\* Mutation: the `++life` that is commented out in update().
UpdateOneLife(f, x) ==
  [ f EXCEPT !.current = Filtered(f, x),
             !.last    = Filtered(f, x),
             !.state   = FIDUCIAL_FOUND,
             !.updated = TRUE,
             !.corners = IF f.updateCorners THEN Filtered(f, x) ELSE @,
             !.life    = IF @ < MAX_FIDUCIAL_LIFE THEN @ + 1 ELSE @ ]

\* Mutation: update() leaves the corners where they were.
UpdateStaleCorners(f, x) ==
  [ f EXCEPT !.current = Filtered(f, x),
             !.last    = Filtered(f, x),
             !.state   = FIDUCIAL_FOUND,
             !.updated = TRUE,
             !.life    = IF @ < MAX_FIDUCIAL_LIFE THEN @ + 2 ELSE @ ]

Update(f, x) ==
  [ f EXCEPT !.current = Filtered(f, x),
             !.last    = Filtered(f, x),
             !.state   = FIDUCIAL_FOUND,
             !.updated = TRUE,
             !.corners = IF f.updateCorners THEN Filtered(f, x) ELSE @,
             !.life    = IF @ < MAX_FIDUCIAL_LIFE THEN @ + 2 ELSE @ ]

\* isAlive() has a side effect: an entry without an update in this frame is
\* marked lost, put back to its last position and loses one life.
Aged(f) ==
  IF f.updated
  THEN [ f EXCEPT !.updated = FALSE ]
  ELSE [ f EXCEPT !.state   = FIDUCIAL_LOST,
                  !.current = f.last,
                  !.life    = @ - 1 ]

\* Mutation: an entry dies below zero.
IsAliveAtZero(f) == Aged(f).life >= 0

IsAlive(f) == Aged(f).life # 0

ComputeCorners(f) == [ f EXCEPT !.corners = f.current ]

-----------------------------------------------------------------------------
(* ofxFiducialTracker.                                                     *)

Sightings ==
  { s \in {<<>>} \cup { <<p>> : p \in Positions }
                \cup { <<p, q>> : p \in Positions, q \in Positions } :
      Len(s) <= MaxCopies }

Frames == [FidIds -> Sightings]

\* The first report of id i in a frame: update the entry or append a new one.
FirstSighting(i, x) ==
  IF i \in Listed THEN Update(fiducialsList[i], x) ELSE NewFiducial(x)

\* The entry of id i after the matching loop has seen the reports s.
Matched(i, s) ==
  IF s = <<>> THEN fiducialsList[i]
  ELSE IF Len(s) = 1 THEN FirstSighting(i, s[1])
  ELSE Update(FirstSighting(i, s[1]), s[2])

Sighted(frame) == { i \in FidIds : frame[i] # <<>> }

Survivors(frame) ==
  { i \in Listed \cup Sighted(frame) : IsAlive(Matched(i, frame[i])) }

\* findFingers() asks of every region whether it is inside a fiducial, down
\* the list until one says yes, and isPointInside() computes the corners of
\* those it asks that have none of this position: whichever they are.
Asked(frame) == IF DetectFinger THEN SUBSET Survivors(frame) ELSE {{}}

\* A frame of another size, or the first one, finds no segmenter.
NeedsSegmenter(size) == ~ initialized \/ size # frameSize

\* The pixel probed before the segmenter is allocated is not black: the frame
\* is given up, and the list is neither matched nor aged.
RejectFrame(size) ==
  /\ NeedsSegmenter(size)
  /\ initialized' = FALSE
  /\ frameSize' = size
  /\ UNCHANGED <<fiducialsList, measured, missed>>

\* The fiducials `asked` are in Asked(frame).
ProcessFrame(size, frame, asked) ==
  /\ initialized' = TRUE
  /\ frameSize' = size
  /\ fiducialsList' =
       [ i \in Survivors(frame) |->
           IF i \in asked THEN ComputeCorners(Aged(Matched(i, frame[i])))
           ELSE Aged(Matched(i, frame[i])) ]
  /\ measured' =
       [ i \in Survivors(frame) |->
           IF i \in Sighted(frame) THEN frame[i][Len(frame[i])] ELSE measured[i] ]
  /\ missed' =
       [ i \in Survivors(frame) |->
           IF i \in Sighted(frame) THEN 0 ELSE missed[i] + 1 ]

\* initTree and initDefaultTree drop the segmenter and keep the list.
ReloadTrees ==
  /\ initialized' = FALSE
  /\ UNCHANGED <<fiducialsList, frameSize, measured, missed>>

TrackerInit ==
  /\ fiducialsList = [ i \in {} |-> NewFiducial(0) ]
  /\ initialized = FALSE
  /\ frameSize = NoSize
  /\ measured = [ i \in {} |-> 0 ]
  /\ missed = [ i \in {} |-> 0 ]

TrackerNext ==
  \/ \E size \in Sizes : RejectFrame(size)
  \/ \E size \in Sizes, frame \in Frames :
       \E asked \in Asked(frame) : ProcessFrame(size, frame, asked)
  \/ ReloadTrees

TrackerSpec == TrackerInit /\ [][TrackerNext]_trackerVars

-----------------------------------------------------------------------------
(* Properties.                                                             *)

\* The entry has a last position: it was updated after it had been appended.
Confirmed(f) == f.last # FIDUCIAL_INVALID_COORDS

\* Between frames every entry is typed, alive, not waiting for isAlive() and
\* has a state that was written: nobody reads the unset member.
TrackerTypeOK ==
  /\ Listed \subseteq FidIds
  /\ fiducialsList \in [Listed -> Fiducial]
  /\ \A i \in Listed : /\ fiducialsList[i].life > 0
                       /\ ~ fiducialsList[i].updated
                       /\ fiducialsList[i].state # Uninitialised
  /\ initialized \in BOOLEAN
  /\ frameSize \in Sizes \cup {NoSize}
  /\ measured \in [Listed -> Positions]
  /\ missed \in [Listed -> Nat]

\* isAlive(), "this is done to make sure is survives for 2 frames if found
\* missing" (ofxFiducial.h:133), for a confirmed fiducial: it is erased only
\* by a frame that comes after two others that missed it.
ConfirmedSurvivesTwoMisses ==
  [][ \A i \in Listed \ Listed' :
        Confirmed(fiducialsList[i]) => missed[i] >= 2 ]_trackerVars

\* The cap on life keeps a marker that left the table from lingering: no
\* entry stays in the list over more than three missed frames, however long
\* it was visible before.
GoneAfterFourMisses == \A i \in Listed : missed[i] <= 3

\* The reported position is within the threshold of where the id was
\* measured last.
NearMeasurement(i) ==
  Distance(fiducialsList[i].current, measured[i]) <= JitterThreshold

\* The jitter filter does not let errors add up: a confirmed fiducial that is
\* reported as found is near where it was measured last.
JitterIsBounded ==
  \A i \in Listed :
     fiducialsList[i].state = FIDUCIAL_FOUND /\ Confirmed(fiducialsList[i])
       => NearMeasurement(i)

\* What the comment at ofxFiducial.h:133 says of every fiducial in the list.
\* One that was sighted in a single frame is erased by the first miss.
SurvivesTwoMisses ==
  [][ \A i \in Listed \ Listed' : missed[i] >= 2 ]_trackerVars
=============================================================================
