------------------------------- MODULE GuiGraph -------------------------------
(***************************************************************************)
(* A GuiGraph whose handlers the application has connected to the engine's *)
(* events (ofxFiducialBacked/src/gui): a map from fiducial ids to pages of *)
(* controls, each shown at its fiducial while that is found, and the ray   *)
(* segments drawn from the fiducials.                                      *)
(*                                                                         *)
(* The engine notifies synchronously, so that an update and all handlers   *)
(* it reaches are one step.  activate() adds and removes a page's four     *)
(* mouse listeners together: they are one count.                           *)
(***************************************************************************)
EXTENDS PhysicsEngine

CONSTANT
  KeepsDuplicates  \* whether an event keeps a listener added twice as two

ASSUME KeepsDuplicatesAssumption == KeepsDuplicates \in BOOLEAN

NotPlaced == -2   \* the position of a page no event has placed yet

VARIABLES
  pages,     \* the pages by fiducial id
  segments,  \* the ids that have a ray segment
  started,   \* the setup event of the application has been sent
  selfMade   \* history: the pages that activated themselves at that event

guiVars == <<pages, segments, started, selfMade>>
vars == <<pipelineVars, guiVars>>

Page == [ enabled : BOOLEAN, listeners : Nat, pos : Coordinates \cup {NotPlaced} ]

\* GuiPage(name): an interactive object starts enabled and without listeners.
NewPage == [ enabled |-> TRUE, listeners |-> 0, pos |-> NotPlaced ]

-----------------------------------------------------------------------------
(* GuiPage.  The event library is Poco's: which of the two behaviours it   *)
(* has depends on its version.                                             *)

AddListener(n) == IF KeepsDuplicates THEN n + 1 ELSE 1
RemoveListener(n) == IF n = 0 THEN 0 ELSE n - 1

\* Mutation: the listeners are not removed.
ActivateForGood(page, isActivated) ==
  [ page EXCEPT !.enabled   = isActivated,
                !.listeners = IF isActivated THEN AddListener(@) ELSE @ ]

Activate(page, isActivated) ==
  [ page EXCEPT !.enabled   = isActivated,
                !.listeners = IF isActivated THEN AddListener(@) ELSE RemoveListener(@) ]

-----------------------------------------------------------------------------
(* GuiGraph.                                                               *)

\* Mutation: every update activates the page again.
HandledReactivates(page, evt, pos) ==
  CASE evt = "Lost" -> Activate(page, FALSE)
    [] OTHER        -> Activate([ page EXCEPT !.pos = pos ], TRUE)

\* Mutation: fiducialFound does not place the page.
HandledUnplaced(page, evt, pos) ==
  CASE evt = "Found"   -> Activate(page, TRUE)
    [] evt = "Lost"    -> Activate(page, FALSE)
    [] evt = "Updated" -> [ page EXCEPT !.pos = pos ]

\* fiducialFound, fiducialLost and fiducialUpdated on the page of a fiducial
\* that is at position pos.
Handled(page, evt, pos) ==
  CASE evt = "Found"   -> Activate([ page EXCEPT !.pos = pos ], TRUE)
    [] evt = "Lost"    -> Activate(page, FALSE)
    [] evt = "Updated" -> [ page EXCEPT !.pos = pos ]

\* The handlers on the pages `known`, for the status events just sent.
HandleStatus(known) ==
  pages' = [ i \in DOMAIN known |->
    IF statusEvt'[i] = NoEvent THEN known[i]
    ELSE Handled(known[i], statusEvt'[i], fiducialsList[i].current) ]

\* fiducialLost erases the segment, with or without a page;
\* fiducialRayTermination, which the engine sends later, sets it.
HandleRays ==
  segments' = { i \in segments : statusEvt'[i] # "Lost" }
              \cup { i \in FidIds : "Terminated" \in rayEvt'[i] }

GraphUpdate ==
  /\ EngineUpdate
  /\ HandleStatus(pages)
  /\ HandleRays
  /\ UNCHANGED <<started, selfMade>>

\* Both forms of add(): an id that has a page keeps it.
AddPage(i) ==
  /\ i \notin DOMAIN pages
  /\ pages' = [ j \in DOMAIN pages \cup {i} |-> IF j = i THEN NewPage ELSE pages[j] ]
  /\ UNCHANGED <<pipelineVars, segments, started, selfMade>>

\* remove() erases the map entry only: the page is not deactivated, and what
\* it listens to is nobody's any more.
RemovePage(i) ==
  /\ i \in DOMAIN pages
  /\ pages' = [ j \in DOMAIN pages \ {i} |-> pages[j] ]
  /\ selfMade' = selfMade \ {i}
  /\ UNCHANGED <<pipelineVars, segments, started>>

\* The setup event reaches the graph and its pages in an order the event
\* library chooses: the pages `before` the graph activate themselves first;
\* the graph then clears `enabled` of all its pages, and a page after it
\* ignores the event, as it is disabled.
SetUp(before) ==
  /\ ~ started
  /\ started' = TRUE
  /\ pages' = [ i \in DOMAIN pages |->
       [ (IF i \in before /\ pages[i].enabled THEN Activate(pages[i], TRUE) ELSE pages[i])
           EXCEPT !.enabled = FALSE ] ]
  /\ selfMade' = { i \in before : pages[i].enabled }
  /\ UNCHANGED <<pipelineVars, segments>>

GuiInit ==
  /\ EngineInit
  /\ pages = [ i \in {} |-> NewPage ]
  /\ segments = {}
  /\ started = FALSE
  /\ selfMade = {}

GraphTrack == TrackerSteps /\ UNCHANGED guiVars

GraphNext ==
  \/ GraphTrack
  \/ GraphUpdate
  \/ \E i \in FidIds : AddPage(i) \/ RemovePage(i)
  \/ \E before \in SUBSET DOMAIN pages : SetUp(before)

GraphSpec == GuiInit /\ [][GraphNext]_vars

-----------------------------------------------------------------------------
(* Properties.                                                             *)

\* Every listener has a reason, and no reason counts twice: a page gets each
\* mouse event at most once for its fiducial being held for found, and once
\* more if it activated itself at the setup event.  A marker that flickers,
\* a page that is added, removed or set up in between leave no more behind.
HeldForFound(i) == i \in Reported /\ fiducialStates[i] = FIDUCIAL_FOUND

ListenersAreBalanced ==
  \A i \in DOMAIN pages :
     pages[i].listeners <= (IF HeldForFound(i) THEN 1 ELSE 0)
                           + (IF i \in selfMade THEN 1 ELSE 0)

\* No ray is left on the screen: each segment starts at a fiducial that is
\* held for found, and that is still in the tracker's list.
SegmentsAreLive ==
  \A i \in segments : HeldForFound(i) /\ i \in Listed
=============================================================================
