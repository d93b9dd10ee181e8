------------------------------ MODULE GuiManager ------------------------------
(***************************************************************************)
(* ofxProtobufBacked's GuiManager: the graph is its own, and its pages are *)
(* built from descriptions fetched from memcached the first time an update *)
(* finds their fiducial.  No other operation adds or removes a page, and   *)
(* the ray events are not forwarded to the graph.                          *)
(***************************************************************************)
EXTENDS GuiGraph

-----------------------------------------------------------------------------
(* The fetch: `answers` are the ids for which memcached returns, in this   *)
(* update, a description that parses.  For the others the Found event goes *)
(* on to a graph without their page.                                       *)

Fetched(answers) ==
  { i \in answers : statusEvt'[i] = "Found" /\ i \notin DOMAIN pages }

KnownPages(answers) ==
  [ i \in DOMAIN pages \cup Fetched(answers) |->
      IF i \in DOMAIN pages THEN pages[i] ELSE NewPage ]

ManagerUpdate(answers) ==
  /\ EngineUpdate
  /\ HandleStatus(KnownPages(answers))
  /\ UNCHANGED <<segments, started, selfMade>>

ManagerTrack(size, frame, asked) == TrackFrame(size, frame, asked) /\ UNCHANGED guiVars
ManagerSkip(size) == SkipFrame(size) /\ UNCHANGED guiVars
ManagerReload == Reload /\ UNCHANGED guiVars

\* The setup event finds no page: setup() runs before the first update.
ManagerInit == EngineInit /\ pages = [ i \in {} |-> NewPage ]
                          /\ segments = {} /\ started = TRUE /\ selfMade = {}

ManagerNext ==
  \/ \E size \in Sizes, frame \in Frames :
       \E asked \in Asked(frame) : ManagerTrack(size, frame, asked)
  \/ \E size \in Sizes : ManagerSkip(size)
  \/ ManagerReload
  \/ \E answers \in SUBSET FidIds : ManagerUpdate(answers)

ManagerSpec == ManagerInit /\ [][ManagerNext]_vars

\* The camera keeps delivering frames that the tracker accepts, and the
\* application keeps updating the engine.
Fairness ==
  /\ WF_vars(\E size \in Sizes, frame \in Frames :
                \E asked \in Asked(frame) : ManagerTrack(size, frame, asked))
  /\ WF_vars(\E answers \in SUBSET FidIds : ManagerUpdate(answers))

FairManagerSpec == ManagerSpec /\ Fairness

-----------------------------------------------------------------------------
(* Properties.                                                             *)

\* A page is active exactly while its fiducial is held for found, and an
\* active page gets each mouse event once: activate() is never repeated.
PageMirrorsState ==
  \A i \in DOMAIN pages :
     /\ pages[i].enabled <=> HeldForFound(i)
     /\ pages[i].listeners = IF HeldForFound(i) THEN 1 ELSE 0

\* No page of a marker that was erased stays on the screen.
ActivePageIsListed ==
  \A i \in DOMAIN pages : pages[i].enabled => i \in Listed

\* The update leaves an active page near where its marker was measured last.
\* Two copies of a marker can leave it elsewhere.
ActivePageIsAtMarker ==
  lag = 0 => \A i \in DOMAIN pages : pages[i].enabled =>
    i \in Listed /\ Distance(pages[i].pos, measured[i]) <= JitterThreshold

Sight(i) == i \in Listed /\ missed[i] = 0

\* A marker that is taken off the table for good loses its page for good.
VanishedIsDeactivated ==
  \A i \in FidIds :
     []<> Sight(i) \/ <>[] (i \in DOMAIN pages => ~ pages[i].enabled)

\* The page of a marker that stays on the table is active in the end.
VisibleIsActivated ==
  \A i \in FidIds :
     []<> ~ Sight(i) \/ <>[] (i \in DOMAIN pages => pages[i].enabled)
=============================================================================
