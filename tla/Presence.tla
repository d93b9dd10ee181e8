------------------------------- MODULE Presence -------------------------------
(***************************************************************************)
(* What the tracker and the engine together promise an application about   *)
(* the markers on the table: an update says something of every marker      *)
(* found so far, Found, Updated and Lost come in an order that makes       *)
(* sense, and no marker is forgotten while the application thinks it is    *)
(* there.  PhysicsEngine is shown to implement it.                         *)
(***************************************************************************)
CONSTANT Markers

VARIABLES
  held,      \* the markers the tracker keeps in its list
  presence,  \* what the application has been told of each marker
  event      \* what it is being told by the update of this step

presenceVars == <<held, presence, event>>

Silence == [ m \in Markers |-> "none" ]

\* What the application knows of a marker after an event.
After(p, e) ==
  CASE e \in {"Found", "Updated"} -> "found"
    [] e = "Lost" -> "lost"
    [] e = "none" -> p

\* The events that make sense for a marker known as p: one that is found is
\* never passed over in silence.
Sensible(p) ==
  CASE p = "unseen" -> {"none", "Found", "Lost"}
    [] p = "found" -> {"Updated", "Lost"}
    [] p = "lost" -> {"none", "Found"}

\* An update speaks of held markers only.
Report ==
  /\ event' \in [Markers -> {"none", "Found", "Updated", "Lost"}]
  /\ \A m \in Markers :
       /\ event'[m] \in Sensible(presence[m])
       /\ event'[m] # "none" => m \in held
  /\ presence' = [ m \in Markers |-> After(presence[m], event'[m]) ]
  /\ UNCHANGED held

\* Between updates markers come and go, but not the ones that are found.
Watch ==
  /\ held' \in SUBSET Markers
  /\ \A m \in Markers : presence[m] = "found" => m \in held'
  /\ event' = Silence
  /\ UNCHANGED presence

PresenceInit ==
  /\ held = {}
  /\ presence = [ m \in Markers |-> "unseen" ]
  /\ event = Silence

PresenceSpec == PresenceInit /\ [][Report \/ Watch]_presenceVars
=============================================================================
