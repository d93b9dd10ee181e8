---------------------------- MODULE PhysicsEngine ----------------------------
(***************************************************************************)
(* ofxFiducialBacked::physics::Engine over the tracker's list.  Each       *)
(* update() first compares the state of every fiducial with the one it     *)
(* recorded in the update before and notifies Found, Updated and Lost, and *)
(* then casts a ray from every valid fiducial and notifies which other     *)
(* fiducial the ray meets.                                                 *)
(*                                                                         *)
(* The application calls findFiducials() for a new camera frame and        *)
(* update() in its own loop, in one thread but at rates of their own.      *)
(* Which fiducial a ray meets first is geometry: here it is any other      *)
(* listed fiducial whose corners have been computed.                       *)
(***************************************************************************)
EXTENDS FiducialTracker

CONSTANTS
  IgnoreFiducialIds,  \* ids the application asked the engine to skip
  MaxLag              \* frames the tracker may process between two updates

ASSUME IgnoreAssumption == IgnoreFiducialIds \subseteq FidIds
ASSUME MaxLagAssumption == MaxLag \in Nat \ {0}

NoFiducial == "no fiducial"   \* hit_fiducial == NULL
NoEvent == "none"

VARIABLES
  fiducialStates,  \* the state recorded for each id by the last update
  fiducialEdges,   \* the fiducial each id's ray meets
  statusEvt,       \* the status event an update has just sent for each id
  rayEvt,          \* the ray events an update has just sent for each id
  lag              \* frames processed since the last update

engineVars == <<fiducialStates, fiducialEdges, statusEvt, rayEvt, lag>>
pipelineVars == <<trackerVars, engineVars>>

Reported == DOMAIN fiducialStates

StatusEvents == {NoEvent, "Found", "Updated", "Lost"}
RayEvents == {"Found", "Updated", "Terminated", "Lost"}

-----------------------------------------------------------------------------
(* The status scan.                                                        *)

Scanned == Listed \ IgnoreFiducialIds

\* computeCorners() and setUpdateCorners(true), once for each entry.
ForceCorners(f) ==
  IF f.updateCorners THEN f
  ELSE [ ComputeCorners(f) EXCEPT !.updateCorners = TRUE ]

StatePrev(i) == IF i \in Reported THEN fiducialStates[i] ELSE FIDUCIAL_INVALID

\* Mutation: Found is sent only the first time an id is seen.
StatusEventFoundOnce(i) ==
  IF i \notin Scanned THEN NoEvent
  ELSE IF fiducialsList[i].state = FIDUCIAL_FOUND
       THEN IF StatePrev(i) = FIDUCIAL_INVALID THEN "Found" ELSE "Updated"
       ELSE IF StatePrev(i) # FIDUCIAL_LOST THEN "Lost" ELSE NoEvent

\* Mutation: Lost is compared with the wrong previous state.
StatusEventLostUnseen(i) ==
  IF i \notin Scanned THEN NoEvent
  ELSE IF fiducialsList[i].state = FIDUCIAL_FOUND
       THEN IF StatePrev(i) = FIDUCIAL_FOUND THEN "Updated" ELSE "Found"
       ELSE IF StatePrev(i) = FIDUCIAL_INVALID THEN "Lost" ELSE NoEvent

StatusEvent(i) ==
  IF i \notin Scanned THEN NoEvent
  ELSE IF fiducialsList[i].state = FIDUCIAL_FOUND
       THEN IF StatePrev(i) = FIDUCIAL_FOUND THEN "Updated" ELSE "Found"
       ELSE IF fiducialsList[i].state = FIDUCIAL_LOST /\ StatePrev(i) # FIDUCIAL_LOST
            THEN "Lost"
            ELSE NoEvent

ScanStatus ==
  /\ fiducialsList' =
       [ i \in Listed |->
           IF i \in Scanned THEN ForceCorners(fiducialsList[i]) ELSE fiducialsList[i] ]
  /\ statusEvt' = [ i \in FidIds |-> StatusEvent(i) ]
  /\ fiducialStates' =
       [ i \in Reported \cup Scanned |->
           IF i \in Scanned THEN fiducialsList[i].state ELSE fiducialStates[i] ]

-----------------------------------------------------------------------------
(* The ray scan.  It runs after the status scan, on what that one recorded. *)

\* Mutation: nobody asks for the status event.
SourcesUnreported ==
  { i \in Listed : fiducialsList[i].current # FIDUCIAL_INVALID_COORDS }

\* validOutputFiducial: the fiducial has a position and has been reported.
Sources ==
  { i \in Listed : /\ fiducialsList[i].current # FIDUCIAL_INVALID_COORDS
                   /\ i \in Reported \cup Scanned }

\* The routine tests the rays against every listed fiducial: nothing there
\* looks at IgnoreFiducialIds.  Without corners it is a point, which no ray
\* meets, and the scan computes those of the fiducials that are not ignored;
\* an ignored one has them if findFingers() asked it.
Shaped == Scanned \cup { i \in Listed : fiducialsList[i].corners # NoCorners }

\* The default routine casts one ray.
Hits ==
  { hit \in [Sources -> Shaped \cup {NoFiducial}] :
      \A i \in Sources : hit[i] # i }

\* Mutation: the second comparison is made with the edge of before.
EdgeAsBefore(i, h) ==
  IF i \in DOMAIN fiducialEdges THEN fiducialEdges[i] ELSE h

\* fiducialEdges[id] = hit id, unless the ray still meets the same fiducial.
\* The iterator into the map (fiducialEdgePrev) refers to the element
\* assigned here, not to the value it had.
EdgeAfterFound(i, h) ==
  IF h # NoFiducial THEN h ELSE fiducialEdges[i]

\* The second comparison is made with the element as it is by then.
RayIsLost(i, h) ==
  /\ i \in DOMAIN fiducialEdges
  /\ h = NoFiducial \/ h # EdgeAfterFound(i, h)

\* Mutation: the rays of lost fiducials terminate too.
RayEventUnchecked(i, h) ==
  { e \in RayEvents :
      \/ /\ e = "Updated" /\ h # NoFiducial
         /\ i \in DOMAIN fiducialEdges /\ fiducialEdges[i] = h
      \/ /\ e = "Found" /\ h # NoFiducial
         /\ i \in DOMAIN fiducialEdges => fiducialEdges[i] # h
      \/ e = "Terminated"
      \/ e = "Lost" /\ RayIsLost(i, h) }

RayEvent(i, h) ==
  { e \in RayEvents :
      \/ /\ e = "Updated" /\ h # NoFiducial
         /\ i \in DOMAIN fiducialEdges /\ fiducialEdges[i] = h
      \/ /\ e = "Found" /\ h # NoFiducial
         /\ i \in DOMAIN fiducialEdges => fiducialEdges[i] # h
      \/ e = "Terminated" /\ fiducialsList[i].state = FIDUCIAL_FOUND
      \/ e = "Lost" /\ RayIsLost(i, h) }

\* The sources whose edge is in the map once their ray has been handled.
Connected(hit) ==
  { i \in Sources : /\ i \in DOMAIN fiducialEdges \/ hit[i] # NoFiducial
                    /\ ~ RayIsLost(i, hit[i]) }

CastRays(hit) ==
  /\ rayEvt' = [ i \in FidIds |-> IF i \in Sources THEN RayEvent(i, hit[i]) ELSE {} ]
  /\ fiducialEdges' =
       [ i \in (DOMAIN fiducialEdges \ Sources) \cup Connected(hit) |->
           IF i \in Sources THEN EdgeAfterFound(i, hit[i]) ELSE fiducialEdges[i] ]

EngineUpdate ==
  /\ ScanStatus
  /\ \E hit \in Hits : CastRays(hit)
  /\ lag' = 0
  /\ UNCHANGED <<initialized, frameSize, measured, missed>>

-----------------------------------------------------------------------------
(* The tracker beside the engine: the application updates the engine at    *)
(* least once in every MaxLag processed frames.                            *)

NoStatusEvents == [ i \in FidIds |-> NoEvent ]
NoRayEvents == [ i \in FidIds |-> {} ]

EngineIdle ==
  /\ statusEvt' = NoStatusEvents
  /\ rayEvt' = NoRayEvents
  /\ UNCHANGED <<fiducialStates, fiducialEdges>>

TrackFrame(size, frame, asked) ==
  /\ lag < MaxLag
  /\ ProcessFrame(size, frame, asked)
  /\ lag' = lag + 1
  /\ EngineIdle

SkipFrame(size) ==
  /\ RejectFrame(size)
  /\ lag' = lag
  /\ EngineIdle

Reload ==
  /\ ReloadTrees
  /\ lag' = lag
  /\ EngineIdle

EngineInit ==
  /\ TrackerInit
  /\ fiducialStates = [ i \in {} |-> FIDUCIAL_INVALID ]
  /\ fiducialEdges = [ i \in {} |-> NoFiducial ]
  /\ statusEvt = NoStatusEvents
  /\ rayEvt = NoRayEvents
  /\ lag = 0

TrackerSteps ==
  \/ \E size \in Sizes, frame \in Frames :
       \E asked \in Asked(frame) : TrackFrame(size, frame, asked)
  \/ \E size \in Sizes : SkipFrame(size)
  \/ Reload

EngineNext == TrackerSteps \/ EngineUpdate

EngineSpec == EngineInit /\ [][EngineNext]_pipelineVars

-----------------------------------------------------------------------------
(* Properties.                                                             *)

\* The ids that can have corners without being reported.
MayBeMet == IF DetectFinger THEN IgnoreFiducialIds ELSE {}

\* An edge starts at a reported fiducial and leads to another one that was
\* reported, unless fingers are looked for: that gives ignored ones corners.
EdgesStartReported ==
  \A i \in DOMAIN fiducialEdges :
     /\ i \in Reported /\ fiducialEdges[i] # i
     /\ fiducialEdges[i] \in Reported \cup MayBeMet

\* Types, and the ends of edges.
EngineTypeOK ==
  /\ TrackerTypeOK
  /\ EdgesStartReported
  /\ Reported \subseteq FidIds
  /\ fiducialStates \in [Reported -> {FIDUCIAL_LOST, FIDUCIAL_FOUND}]
  /\ DOMAIN fiducialEdges \subseteq FidIds
  /\ fiducialEdges \in [DOMAIN fiducialEdges -> FidIds]
  /\ statusEvt \in [FidIds -> StatusEvents]
  /\ rayEvt \in [FidIds -> SUBSET RayEvents]
  /\ lag \in 0 .. MaxLag

\* Every Found is going to be followed by a Lost: a fiducial the engine holds
\* for found is still in the list, where the next update sees it.  One erased
\* between two updates would never be scanned again, and would stay found.
FoundIsListed ==
  \A i \in Reported : fiducialStates[i] = FIDUCIAL_FOUND => i \in Listed

\* The corners a ray starts from, and which the other rays are tested
\* against, are those of the position the fiducial is at.
CornersAreCurrent ==
  \A i \in Listed : fiducialsList[i].updateCorners =>
     fiducialsList[i].corners = fiducialsList[i].current

\* What the recorded states amount to for an application.
PresenceOf(i) ==
  IF i \notin Reported THEN "unseen"
  ELSE IF fiducialStates[i] = FIDUCIAL_FOUND THEN "found" ELSE "lost"

Promise == INSTANCE Presence WITH
  Markers  <- FidIds,
  held     <- Listed,
  presence <- [ i \in FidIds |-> PresenceOf(i) ],
  event    <- statusEvt

\* The tracker and the engine, at rates of their own, keep what Presence
\* promises: they are shown to implement it.
EngineImplementsPresence == Promise!PresenceSpec

\* A ray that moves from one fiducial to another notifies Found for the new
\* one and no Lost for the old one: Lost comes only when nothing is met.
LostOnlyOnMiss ==
  \A i \in FidIds : "Lost" \in rayEvt[i] => rayEvt[i] \cap {"Found", "Updated"} = {}
=============================================================================
