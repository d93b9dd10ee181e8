----------------------------- MODULE RemoteControl -----------------------------
(***************************************************************************)
(* ofxRemoteControl: pinching and turning with two fingers, on top of the  *)
(* cursors of the TUIO client.  update() drains the client's messages and  *)
(* adds to the pose what the angle and the distance of the two cursors     *)
(* have changed by since it last saw two.                                  *)
(***************************************************************************)
EXTENDS TuioClient

VARIABLES
  newCursorDetected,
  baseline,   \* the cursors touchesAnglePrev and touchesDistPrev are those of
  jumped      \* this update added the difference between two pairs of cursors

gestureVars == <<newCursorDetected, baseline, jumped>>
remoteVars == <<tuioVars, gestureVars>>

Cursors == Listed(fingers)

\* Mutation: only the first cursor takes a new baseline.
NewCursorFirst == \E s \in Listed(fingers') \ Cursors : fingers'.cursors[s] < 1

\* _cursorAdded(), which the client calls from getMessage().
NewCursor == \E s \in Listed(fingers') \ Cursors : fingers'.cursors[s] < 2

\* update() when getMessage() has returned.
Gesture ==
  IF Cardinality(Cursors) = 2
  THEN /\ jumped' = (~ newCursorDetected /\ baseline # Cursors)
       /\ newCursorDetected' = FALSE
       /\ baseline' = Cursors
  ELSE jumped' = FALSE /\ UNCHANGED <<newCursorDetected, baseline>>

\* getMessage() returns when it is done or drops a message.
Listen ==
  IF draining /\ ~ draining' THEN Gesture
  ELSE /\ newCursorDetected' = (newCursorDetected \/ NewCursor)
       /\ jumped' = FALSE
       /\ UNCHANGED baseline

\* The constructor leaves newCursorDetected as it finds it.
RemoteInit ==
  /\ TuioInit
  /\ newCursorDetected \in BOOLEAN
  /\ baseline = {} /\ jumped = FALSE

RemoteNext == TuioNext /\ Listen

RemoteSpec == RemoteInit /\ [][RemoteNext]_remoteVars

-----------------------------------------------------------------------------
(* Properties.                                                             *)

\* Types.
RemoteTypeOK ==
  /\ {newCursorDetected, jumped} \subseteq BOOLEAN
  /\ baseline \subseteq Sessions
  /\ Cardinality(baseline) \in {0, 2}

\* The pose does not jump while the cursors are a first and a second finger:
\* what is added is what the same two cursors have moved, although the two may
\* be exchanged while update() is not looking.  A new pair is known by the
\* finger id of its new cursor; a pair with the id of a third finger need not
\* have been a pair before.
PairsAreCompared ==
  [][jumped' => \E s \in Cursors : fingers.cursors[s] > 1]_remoteVars
=============================================================================
