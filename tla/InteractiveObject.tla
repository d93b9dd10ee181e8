--------------------------- MODULE InteractiveObject ---------------------------
(***************************************************************************)
(* One ofxMSAInteractiveObject between the mouse, which moves, presses and *)
(* releases buttons, and the application, which moves the object, clears   *)
(* and sets `enabled`, adds and removes its mouse listeners, and updates   *)
(* it once in every pass of the application's loop.                        *)
(***************************************************************************)
EXTENDS ObjectEvents

CONSTANTS
  Points,     \* the positions of the mouse
  Places,     \* the positions of the object
  Buttons,    \* the buttons of the mouse
  MaxMoves    \* how often the object is moved between two looks at oldRect

ASSUME PointsAssumption == Points \subseteq Nat
ASSUME PlacesAssumption == Places \subseteq Nat
ASSUME MaxMovesAssumption == MaxMoves \in Nat

NoPoint == -1

VARIABLES
  object,     \* the object
  listening,  \* its mouse listeners are registered
  mouse,      \* where the mouse is
  held,       \* the buttons that are held down
  moves,      \* how often the object was moved since it looked at oldRect
  pressedOn,  \* history: the held buttons that were pressed over the object
  missed,     \* history: a press or release did not reach the object
  told,       \* history: where the last motion of the mouse found the object
  open        \* history: an onPress whose release has not been called yet

objectVars ==
  <<object, listening, mouse, held, moves, pressedOn, missed, told, open>>

Hears == object.enabled /\ listening

\* The event library calls a handler only where it is registered.
Deliver(handler) == object' = IF listening THEN handler ELSE Quiet(object)

\* What the object's user has been told, by the callbacks alone.
Record ==
  open' = IF "onPress" \in object'.calls THEN TRUE
          ELSE IF {"onRelease", "onReleaseOutside"} \cap object'.calls # {} THEN FALSE
          ELSE open

-----------------------------------------------------------------------------
(* The mouse.  openFrameworks calls a motion a drag while a button is held. *)

Motion(p) ==
  /\ mouse' = p
  /\ Deliver(IF held = {} THEN MouseMoved(object, p) ELSE MouseDragged(object, p))
  /\ told' = IF Hears THEN p ELSE NoPoint
  /\ UNCHANGED <<listening, held, moves, pressedOn, missed>>

Press(b) ==
  /\ b \notin held
  /\ held' = held \cup {b}
  /\ Deliver(MousePressed(object, mouse))
  /\ pressedOn' = IF Hears /\ HitTest(object, mouse) THEN pressedOn \cup {b} ELSE pressedOn
  /\ missed' = (missed \/ ~ Hears)
  /\ UNCHANGED <<listening, mouse, moves, told>>

Release(b) ==
  /\ b \in held
  /\ held' = held \ {b}
  /\ Deliver(MouseReleased(object, mouse))
  /\ pressedOn' = pressedOn \ {b}
  /\ missed' = (missed \/ ~ Hears)
  /\ UNCHANGED <<listening, mouse, moves, told>>

-----------------------------------------------------------------------------
(* The application.                                                        *)

mouseVars == <<mouse, held, pressedOn, missed, told>>

SetPos(x) ==
  /\ moves < MaxMoves
  /\ object' = [Quiet(object) EXCEPT !.x = x]
  /\ moves' = moves + 1
  /\ UNCHANGED <<listening, mouseVars>>

SetEnabled(b) ==
  /\ object.enabled # b
  /\ object' = [Quiet(object) EXCEPT !.enabled = b]
  /\ UNCHANGED <<listening, moves, mouseVars>>

\* enableMouseEvents and disableMouseEvents, called in turns.
SetListening(b) ==
  /\ listening # b
  /\ listening' = b
  /\ object' = Quiet(object)
  /\ UNCHANGED <<moves, mouseVars>>

Update ==
  /\ object' = ObjectUpdated(object)
  /\ moves' = IF object.enabled THEN 0 ELSE moves
  /\ UNCHANGED <<listening, mouseVars>>

ObjectInit ==
  /\ \E x \in Places, garbage \in Points : object = NewObject(x, garbage)
  /\ listening = FALSE
  /\ mouse \in Points
  /\ held = {} /\ moves = 0
  /\ pressedOn = {} /\ missed = FALSE /\ told = NoPoint
  /\ open = FALSE

Step ==
  \/ \E p \in Points : Motion(p)
  \/ \E b \in Buttons : Press(b) \/ Release(b)
  \/ \E x \in Places : SetPos(x)
  \/ \E b \in BOOLEAN : SetEnabled(b) \/ SetListening(b)
  \/ Update

ObjectNext == Step /\ Record

ObjectSpec == ObjectInit /\ [][ObjectNext]_objectVars

-----------------------------------------------------------------------------
(* Properties.                                                             *)

\* Types, and a disabled object calls nobody (h:40).
ObjectTypeOK ==
  /\ object \in [ enabled : BOOLEAN, x : Places, oldRect : Places \cup {NoRect},
                  mouseX : Points, mouseOver : BOOLEAN, mouseDown : BOOLEAN,
                  calls : SUBSET Callbacks ]
  /\ ~ object.enabled => object.calls = {}
  /\ listening \in BOOLEAN
  /\ mouse \in Points
  /\ held \in SUBSET Buttons
  /\ moves \in 0 .. MaxMoves
  /\ pressedOn \in SUBSET held
  /\ missed \in BOOLEAN
  /\ told \in Points \cup {NoPoint}
  /\ open \in BOOLEAN

\* Whatever the application enables, disables and moves, onPress is not
\* called again before a release was, and the callbacks that happen outside
\* an object "after being pressed on object" (h:88, h:91) come after a press.
PressesPair ==
  [][ /\ "onPress" \in object'.calls => ~ open
      /\ {"onDragOutside", "onReleaseOutside"} \cap object'.calls # {} => open
    ]_objectVars

\* An object that got every press and release is down only while a button is
\* held that was pressed over it, with several buttons in any order.
DownIsHeld == ~ missed /\ object.mouseDown => pressedOn # {}

\* An object that was moved under a resting mouse has found out after an
\* update: the flag is that of the object's new place.
OverFollowsObject ==
  told = mouse /\ object.oldRect = object.x
    => (object.mouseOver <=> HitTest(object, mouse))

\* The two flags say no more than they can know.
FlagsAreSound == DownIsHeld /\ OverFollowsObject
=============================================================================
