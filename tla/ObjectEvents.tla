----------------------------- MODULE ObjectEvents -----------------------------
(***************************************************************************)
(* The mouse handlers of ofxMSAInteractiveObject, as functions of the      *)
(* object they are called on.  Each returns the object as the handler      *)
(* leaves it, with the callbacks it made in the field `calls`.  The pages, *)
(* controls and draggables of the repository inherit these handlers.       *)
(*                                                                         *)
(* One integer coordinate stands for x and y, which are tested alike.      *)
(***************************************************************************)
EXTENDS Integers

CONSTANT Width   \* of an object, in the units mouse positions are given in

ASSUME WidthAssumption == Width \in Nat \ {0, 1}

Callbacks ==
  { "onRollOver", "onRollOut", "onMouseMove", "onPress", "onRelease",
    "onReleaseOutside", "onDragOver", "onDragOutside" }

NoRect == -1   \* oldRect of an object that was never updated, at no place

\* hitTest: the border does not belong to the object.
HitTest(o, p) == o.x < p /\ p < o.x + Width

\* The constructor leaves _mouseX as it finds it: an argument here.
NewObject(x, garbage) ==
  [ enabled |-> TRUE, x |-> x, oldRect |-> NoRect, mouseX |-> garbage,
    mouseOver |-> FALSE, mouseDown |-> FALSE, calls |-> {} ]

Quiet(o) == [ o EXCEPT !.calls = {} ]

MouseMoved(o, p) ==
  IF ~ o.enabled THEN Quiet(o)
  ELSE [ o EXCEPT
    !.mouseX = p,
    !.mouseOver = HitTest(o, p),
    !.calls = { c \in Callbacks :
      \/ c = "onRollOver"  /\ HitTest(o, p) /\ ~ o.mouseOver
      \/ c = "onMouseMove" /\ HitTest(o, p)
      \/ c = "onRollOut"   /\ ~ HitTest(o, p) /\ o.mouseOver } ]

MousePressed(o, p) ==
  IF ~ o.enabled THEN Quiet(o)
  ELSE [ o EXCEPT
    !.mouseX = p,
    !.mouseDown = @ \/ HitTest(o, p),
    !.calls = { c \in {"onPress"} : HitTest(o, p) /\ ~ o.mouseDown } ]

\* Mutation: a disabled object still hears drags.
MouseDraggedUnchecked(o, p) ==
  [ o EXCEPT
    !.mouseX = p,
    !.mouseOver = HitTest(o, p),
    !.calls = { c \in Callbacks :
      \/ c = "onDragOver"    /\ HitTest(o, p)
      \/ c = "onRollOut"     /\ ~ HitTest(o, p) /\ o.mouseOver
      \/ c = "onDragOutside" /\ ~ HitTest(o, p) /\ o.mouseDown } ]

\* Mutation: onDragOutside does not ask for a press.
MouseDraggedUnpressed(o, p) ==
  IF ~ o.enabled THEN Quiet(o)
  ELSE [ o EXCEPT
    !.mouseX = p,
    !.mouseOver = HitTest(o, p),
    !.calls = { c \in Callbacks :
      \/ c = "onDragOver"    /\ HitTest(o, p)
      \/ c = "onRollOut"     /\ ~ HitTest(o, p) /\ o.mouseOver
      \/ c = "onDragOutside" /\ ~ HitTest(o, p) } ]

\* A drag into the object sets the flag without onRollOver.
MouseDragged(o, p) ==
  IF ~ o.enabled THEN Quiet(o)
  ELSE [ o EXCEPT
    !.mouseX = p,
    !.mouseOver = HitTest(o, p),
    !.calls = { c \in Callbacks :
      \/ c = "onDragOver"    /\ HitTest(o, p)
      \/ c = "onRollOut"     /\ ~ HitTest(o, p) /\ o.mouseOver
      \/ c = "onDragOutside" /\ ~ HitTest(o, p) /\ o.mouseDown } ]

MouseReleased(o, p) ==
  IF ~ o.enabled THEN Quiet(o)
  ELSE [ o EXCEPT
    !.mouseX = p,
    !.mouseDown = FALSE,
    !.calls = { c \in Callbacks :
      \/ c = "onRelease"        /\ HitTest(o, p)
      \/ c = "onReleaseOutside" /\ ~ HitTest(o, p) /\ o.mouseDown } ]

\* _update() looks at oldRect to see that the object was moved.
NeedsMouseEvent(o) == o.enabled /\ o.oldRect # o.x

\* Mutation: only an object that is not pressed is told that it moved.
ObjectUpdatedUnpressed(o) ==
  IF ~ NeedsMouseEvent(o) THEN Quiet(o)
  ELSE [ (IF o.mouseDown THEN Quiet(o) ELSE MouseMoved(o, o.mouseX))
         EXCEPT !.oldRect = o.x ]

\* _update() of an object without handlers of its own: one that was moved
\* gets a mouse event at the last position it was told of.
ObjectUpdated(o) ==
  IF ~ NeedsMouseEvent(o) THEN Quiet(o)
  ELSE [ (IF o.mouseDown THEN MouseDragged(o, o.mouseX) ELSE MouseMoved(o, o.mouseX))
         EXCEPT !.oldRect = o.x ]
=============================================================================
