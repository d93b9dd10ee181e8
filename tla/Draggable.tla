------------------------------- MODULE Draggable -------------------------------
(***************************************************************************)
(* Objects that the mouse drags: ofxDraggable, and ofxDraggableGui, a page *)
(* that is dragged where it shows none of its controls and only while      *)
(* bDraggable is set.  Both save where they were clicked in onPress and    *)
(* move in onDragOver, callbacks of the interactive object they are.       *)
(***************************************************************************)
EXTENDS ObjectEvents, FiniteSets

CONSTANTS
  Points,    \* the positions of the mouse
  Start,     \* where the object is put
  Buttons,   \* the buttons of the mouse
  Controls,  \* where inside the object, relative to it, its controls are drawn
  Updates    \* whether the object hears of updates: ofxDraggableGui does not

VARIABLES
  object,     \* the object, its place included
  saveX,      \* where it was clicked, relative to its place
  draggable,  \* bDraggable, always set for ofxDraggable
  mouse,      \* where the mouse is
  held,       \* the buttons that are held down
  drawn,      \* where the object was when its controls were drawn last
  grip        \* history: the point of the object the click took hold of

dragVars == <<object, saveX, draggable, mouse, held, drawn, grip>>

NoGrip == 0   \* no point of an object: its border does not belong to it

\* A control lies under the point p: it has its place from the last draw().
OnControl(p) == p - drawn \in Controls

\* onPress takes hold of the object, unless it returns early.
TakesHold(next, p) == "onPress" \in next.calls /\ draggable /\ ~ OnControl(p)

\* Mutation: the click is saved in the coordinates of the screen.
SavedClickOnScreen(next, p) == IF TakesHold(next, p) THEN p ELSE saveX

\* onPress, when _mousePressed calls it: `next` is the object it leaves.
SavedClick(next, p) == IF TakesHold(next, p) THEN p - object.x ELSE saveX

\* Mutation: the object is moved to the mouse by its corner.
DraggedByCorner(next, p) ==
  IF "onDragOver" \in next.calls /\ draggable /\ ~ OnControl(p)
  THEN [next EXCEPT !.x = p] ELSE next

\* onDragOver, when _mouseDragged calls it.
Dragged(next, p) ==
  IF "onDragOver" \in next.calls /\ draggable /\ ~ OnControl(p)
  THEN [next EXCEPT !.x = p - saveX] ELSE next

Motion(p) ==
  /\ mouse' = p
  /\ object' = IF held = {} THEN MouseMoved(object, p)
               ELSE Dragged(MouseDragged(object, p), p)
  /\ UNCHANGED <<saveX, draggable, held, drawn, grip>>

Press(b) ==
  /\ b \notin held
  /\ held' = held \cup {b}
  /\ object' = MousePressed(object, mouse)
  /\ saveX' = SavedClick(object', mouse)
  /\ grip' = IF TakesHold(object', mouse) THEN mouse - object.x ELSE grip
  /\ UNCHANGED <<draggable, mouse, drawn>>

Release(b) ==
  /\ b \in held
  /\ held' = held \ {b}
  /\ object' = MouseReleased(object, mouse)
  /\ grip' = NoGrip
  /\ UNCHANGED <<saveX, draggable, mouse, drawn>>

SetDraggable(b) ==
  /\ Controls # {} /\ draggable # b
  /\ draggable' = b
  /\ object' = Quiet(object)
  /\ UNCHANGED <<saveX, mouse, held, drawn, grip>>

\* draw() puts the controls where the object is by now.
Draw ==
  /\ Controls # {}
  /\ drawn' = object.x
  /\ object' = Quiet(object)
  /\ UNCHANGED <<saveX, draggable, mouse, held, grip>>

\* _update(): the object remembers where it is, and an object that moved is
\* told of the mouse again.  Its own handlers get that event.
Update ==
  /\ Updates
  /\ LET last == object.mouseX
         told == IF ~ NeedsMouseEvent(object) THEN Quiet(object)
                 ELSE IF object.mouseDown THEN Dragged(MouseDragged(object, last), last)
                 ELSE MouseMoved(object, last)
     IN  object' = [told EXCEPT !.oldRect = told.x]
  /\ UNCHANGED <<saveX, draggable, mouse, held, drawn, grip>>

\* The application adds the object's mouse listeners once, at the start.
\* Controls that were never drawn lie at the origin.
DragInit ==
  /\ \E garbage \in Points : object = NewObject(Start, garbage)
  /\ saveX \in Points
  /\ draggable = (Controls = {})
  /\ mouse \in Points
  /\ held = {} /\ drawn = 0 /\ grip = NoGrip

DragNext ==
  \/ \E p \in Points : Motion(p)
  \/ \E b \in Buttons : Press(b) \/ Release(b)
  \/ \E b \in BOOLEAN : SetDraggable(b)
  \/ Draw
  \/ Update

DragSpec == DragInit /\ [][DragNext]_dragVars

-----------------------------------------------------------------------------
(* Properties.                                                             *)

\* Types; an object that is held is down, and one that is down is under a
\* button.
DragTypeOK ==
  /\ object.x \in Int /\ object.mouseX \in Points /\ object.enabled
  /\ {saveX, drawn} \subseteq Int /\ draggable \in BOOLEAN
  /\ mouse \in Points /\ held \subseteq Buttons
  /\ grip # NoGrip => object.mouseDown
  /\ object.mouseDown => held # {}

\* An object dragged by a click on it stays under the mouse: each drag that
\* moves it leaves the clicked point under the mouse, also when bDraggable is
\* cleared and set during the drag or the mouse left the object and came back.
GripStaysUnderMouse ==
  [][ grip # NoGrip /\ grip' = grip /\ mouse' # mouse /\ object'.x # object.x
        => mouse' - object'.x = grip ]_dragVars

RestsWithMouse == mouse' = mouse /\ grip # NoGrip => object'.x = object.x

\* A resting mouse moves no object without controls: not when another button
\* goes down, not when the button is released, and not by the event that an
\* update makes up.
RestingMouseMovesNothing == [][RestsWithMouse]_dragVars
=============================================================================
