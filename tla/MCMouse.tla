------------------------------- MODULE MCMouse -------------------------------
(***************************************************************************)
(* What the mouse does to the objects of the repository, each alone: `part` *)
(* says which of them a behaviour is about, and the variables of the others *)
(* rest.  A plain object, a button and a slider share the variables of the  *)
(* interactive object they are.                                             *)
(***************************************************************************)
EXTENDS InteractiveObject

CONSTANTS b1, b2

VARIABLES
  part,
  value, oldValue, momentary, keyDown, notified, written, escaped,  \* button
  number, oldNumber, pct, lock, point, steady, behind,              \* slider
  thing, saveX, draggable, pointer, down, drawn, grip,              \* draggable
  page, content, offset, saveC, gripC, pressedIn, unheard           \* page

MCPoints == 1 .. 3
MCPlaces == 0 .. 1
Far == 0 .. 6

\* The controls of a page do not move.
Button == INSTANCE ButtonControl WITH
  Points <- 2 .. 3, Places <- {0}, MaxMoves <- 0

\* The mouse reaches beyond the right end of the slider, whose range has zero
\* inside.
Slider == INSTANCE SliderControl WITH
  Points <- Far, Places <- {1}, MaxMoves <- 0, Buttons <- {b1}, Low <- -1, High <- 2,
  value <- number, oldValue <- oldNumber

\* ofxDraggable, which the application updates.
Picture == INSTANCE Draggable WITH
  Points <- 0 .. 5, Start <- 1, Controls <- {}, Updates <- TRUE,
  object <- thing, mouse <- pointer, held <- down

\* ofxDraggableGui, with a control in its middle.
Panel == INSTANCE Draggable WITH
  Points <- 0 .. 5, Start <- 1, Controls <- {1}, Updates <- FALSE,
  object <- thing, mouse <- pointer, held <- down

\* The page can be dragged by 2 either way before the model stops.
Page == INSTANCE GuiPageMouse WITH
  Points <- 0 .. 3, Places <- 0 .. 1, RestOffset <- 0, MaxDrag <- 2, Reach <- 4,
  saveX <- saveC, mouse <- pointer, held <- down, grip <- gripC, pressedOn <- pressedIn,
  missed <- unheard

buttonVars == <<value, oldValue, momentary, keyDown, notified, written, escaped>>
sliderVars == <<number, oldNumber, pct, lock, point, steady, behind>>
dragVars == <<thing, saveX, draggable, drawn, grip>>
pageVars == <<page, content, offset, saveC, gripC, pressedIn, unheard>>
pointerVars == <<pointer, down>>
mcVars == <<part, objectVars, buttonVars, sliderVars, dragVars, pageVars, pointerVars>>

-----------------------------------------------------------------------------
(* The parts at rest.                                                      *)

ObjectRests ==
  /\ object = NewObject(0, 1) /\ listening = FALSE /\ mouse = 1 /\ held = {} /\ moves = 0
  /\ pressedOn = {} /\ missed = FALSE /\ told = NoPoint /\ open = FALSE

ButtonRests ==
  /\ value = FALSE /\ oldValue = FALSE /\ momentary = FALSE /\ keyDown = FALSE
  /\ notified = FALSE /\ written = FALSE /\ escaped = FALSE

SliderRests ==
  /\ number = 0 /\ oldNumber = 0 /\ pct = 0 /\ lock = FALSE /\ point = 1
  /\ steady = 0 /\ behind = FALSE

DragRests ==
  thing = NewObject(1, 1) /\ saveX = 1 /\ draggable = FALSE /\ drawn = 0 /\ grip = 0

PageRests ==
  /\ page = NewObject(0, 1) /\ content = NewObject(0, 1) /\ offset = 0 /\ saveC = 1
  /\ gripC = 0 /\ pressedIn = {} /\ unheard = FALSE

PointerRests == pointer = 1 /\ down = {}

MouseInit ==
  \/ /\ part = "object" /\ ObjectInit
     /\ ButtonRests /\ SliderRests /\ DragRests /\ PageRests /\ PointerRests
  \/ /\ part = "button" /\ Button!ButtonInit
     /\ SliderRests /\ DragRests /\ PageRests /\ PointerRests
  \/ /\ part = "slider" /\ Slider!SliderInit
     /\ ButtonRests /\ DragRests /\ PageRests /\ PointerRests
  \/ /\ part = "picture" /\ Picture!DragInit
     /\ ObjectRests /\ ButtonRests /\ SliderRests /\ PageRests
  \/ /\ part = "panel" /\ Panel!DragInit
     /\ ObjectRests /\ ButtonRests /\ SliderRests /\ PageRests
  \/ /\ part = "page" /\ Page!PageInit
     /\ ObjectRests /\ ButtonRests /\ SliderRests /\ DragRests

ObjectStep ==
  /\ part = "object" /\ ObjectNext
  /\ UNCHANGED <<part, buttonVars, sliderVars, dragVars, pageVars, pointerVars>>

ButtonStep ==
  /\ part = "button" /\ Button!ButtonNext
  /\ UNCHANGED <<part, sliderVars, dragVars, pageVars, pointerVars>>

SliderStep ==
  /\ part = "slider" /\ Slider!SliderNext
  /\ UNCHANGED <<part, buttonVars, dragVars, pageVars, pointerVars>>

PictureStep ==
  /\ part = "picture" /\ Picture!DragNext
  /\ UNCHANGED <<part, objectVars, buttonVars, sliderVars, pageVars>>

PanelStep ==
  /\ part = "panel" /\ Panel!DragNext
  /\ UNCHANGED <<part, objectVars, buttonVars, sliderVars, pageVars>>

PageStep ==
  /\ part = "page" /\ Page!PageNext
  /\ UNCHANGED <<part, objectVars, buttonVars, sliderVars, dragVars>>

MouseNext ==
  ObjectStep \/ ButtonStep \/ SliderStep \/ PictureStep \/ PanelStep \/ PageStep

MouseSpec == MouseInit /\ [][MouseNext]_mcVars

-----------------------------------------------------------------------------
(* Properties: those of the modules, of the part they are about.           *)

\* The types of each part.
MouseTypeOK ==
  CASE part = "object" -> ObjectTypeOK
    [] part = "button" -> Button!ObjectTypeOK /\ Button!ButtonTypeOK
    [] part = "slider" -> Slider!ObjectTypeOK /\ Slider!SliderTypeOK
    [] part = "picture" -> Picture!DragTypeOK
    [] part = "panel" -> Panel!DragTypeOK
    [] part = "page" -> Page!PageTypeOK

\* A control shows what the mouse did: a momentary button that nobody holds is
\* off, unless a release escaped it; a slider shows the place of the mouse
\* after two events there, and the point of the other one is at the mouse
\* while it is held.
ControlsFollowMouse ==
  CASE part = "button" -> Button!MomentaryLetsGo
    [] part = "slider" -> Slider!ValueFollowsMouse /\ Slider!HeldPointFollows
    [] OTHER -> TRUE

\* A press of a momentary button at rest switches it on and is notified.
PressTakesEffect == Button!PressTakesEffect

\* A resting mouse moves no picture that is held.
RestingMouseMovesNothing == [][ part = "picture" => Picture!RestsWithMouse ]_mcVars

\* A drag leaves the clicked point under the mouse.
GripStaysUnderMouse == Panel!GripStaysUnderMouse

\* The point where a page was clicked follows the mouse.
GripFollowsMouse == Page!GripFollowsMouse
=============================================================================
