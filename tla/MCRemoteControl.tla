--------------------------- MODULE MCRemoteControl ---------------------------
(***************************************************************************)
(* The remote control over a TUIO client of cursors alone, the client with *)
(* both profiles, where one frame number is shared, and the finger ids     *)
(* under any sequence of cursors.  `part` says which of them a behaviour   *)
(* is about, and the variables that it does not have rest.                 *)
(***************************************************************************)
EXTENDS RemoteControl

VARIABLE part

mcVars == <<part, remoteVars>>

\* With two profiles and several bundles on their way, one session of each is
\* enough.  The ids are those of all: MaxFingers is not replaced, since TLC
\* evaluates Ids, which TuioClient extends, once for all instances.
Both == INSTANCE TuioClient WITH
  Profiles <- {"cur", "obj"}, MaxSeen <- 1, MaxFrame <- 3, MaxRestarts <- 1,
  MaxInFlight <- 2

GestureRests ==
  newCursorDetected = FALSE /\ baseline = {} /\ jumped = FALSE

ControlInit ==
  \/ part = "remote" /\ RemoteInit
  \/ part = "profiles" /\ Both!TuioInit /\ GestureRests
  \/ part = "ids" /\ TuioInit /\ GestureRests

RemoteStep == part = "remote" /\ RemoteNext /\ UNCHANGED part
BothStep == part = "profiles" /\ Both!TuioNext /\ UNCHANGED <<part, gestureVars>>

IdsStep ==
  /\ part = "ids" /\ IdsNext
  /\ UNCHANGED <<part, trackerVars, inbox, draining, objectList, aliveLists, currentFrame,
                 lastFrame, bundle, inOrder, gestureVars>>

ControlNext == RemoteStep \/ BothStep \/ IdsStep

ControlSpec == ControlInit /\ [][ControlNext]_mcVars

MCSymmetry == Permutations(Sessions)

-----------------------------------------------------------------------------
(* Properties: those of the modules, of the part they are about.           *)

\* The types of each part; no cursor and no object is listed that the client
\* does not believe alive.
ListsAreSound ==
  CASE part = "remote" -> RemoteTypeOK /\ TuioTypeOK /\ ListedIsAlive
    [] part = "profiles" -> Both!TuioTypeOK /\ Both!ListedIsAlive
    [] part = "ids" -> FingersTypeOK
=============================================================================
