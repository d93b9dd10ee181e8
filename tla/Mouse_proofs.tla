----------------------------- MODULE Mouse_proofs -----------------------------
(***************************************************************************)
(* The properties of the run of MCMouse, for objects of any width and any  *)
(* number of mouse buttons: each part keeps the invariant that             *)
(* Controls_proofs proves of it, with the positions that part has.         *)
(***************************************************************************)
EXTENDS MCMouse, TLAPS

\* The theorems about the interactive object, with the constants of MCMouse.
\* Those that the object does not have are the ones of other parts.
Plain == INSTANCE Controls_proofs WITH
  Low <- 0, High <- 3, Start <- 1, Controls <- {}, Updates <- TRUE,
  RestOffset <- 0, MaxDrag <- 2, Reach <- 4

Push == INSTANCE Controls_proofs WITH
  Points <- 2 .. 3, Places <- {0}, MaxMoves <- 0,
  Low <- 0, High <- 3, Start <- 1, Controls <- {}, Updates <- TRUE,
  RestOffset <- 0, MaxDrag <- 2, Reach <- 4

Bar == INSTANCE Controls_proofs WITH
  Points <- Far, Places <- {1}, MaxMoves <- 0, Buttons <- {b1}, Low <- -1, High <- 2,
  Start <- 1, Controls <- {}, Updates <- TRUE, RestOffset <- 0, MaxDrag <- 2, Reach <- 4

Alone == INSTANCE Controls_proofs WITH
  Points <- 0 .. 5, Start <- 1, Controls <- {}, Updates <- TRUE,
  object <- thing, mouse <- pointer, held <- down,
  Low <- 0, High <- 3, RestOffset <- 0, MaxDrag <- 2, Reach <- 4

Board == INSTANCE Controls_proofs WITH
  Points <- 0 .. 5, Start <- 1, Controls <- {1}, Updates <- FALSE,
  object <- thing, mouse <- pointer, held <- down,
  Low <- 0, High <- 3, RestOffset <- 0, MaxDrag <- 2, Reach <- 4

Sheet == INSTANCE Controls_proofs WITH
  Points <- 0 .. 3, Places <- 0 .. 1, RestOffset <- 0, MaxDrag <- 2, Reach <- 4,
  saveX <- saveC, mouse <- pointer, held <- down, grip <- gripC, pressedOn <- pressedIn,
  missed <- unheard, Low <- 0, High <- 3, Start <- 1, Controls <- {}, Updates <- TRUE

-----------------------------------------------------------------------------
(* Each instance speaks of the part it is named after: the definitions of  *)
(* both are those of the same module, with the same constants.             *)

LEMMA PlainIsObject ==
  /\ ObjectInit <=> Plain!ObjectInit
  /\ [ObjectNext]_objectVars <=> [Plain!ObjectNext]_(Plain!objectVars)
  /\ ObjectTypeOK <=> Plain!ObjectTypeOK
BY DEF ObjectInit, Plain!ObjectInit, NewObject, Plain!NewObject, ObjectNext, Plain!ObjectNext,
       Step, Plain!Step, Record, Plain!Record, Motion, Plain!Motion, Press, Plain!Press,
       Release, Plain!Release, SetPos, Plain!SetPos, SetEnabled, Plain!SetEnabled,
       SetListening, Plain!SetListening, Update, Plain!Update, Deliver, Plain!Deliver, Hears,
       Plain!Hears, MouseMoved, Plain!MouseMoved, MouseDragged, Plain!MouseDragged,
       MousePressed, Plain!MousePressed, MouseReleased, Plain!MouseReleased, ObjectUpdated,
       Plain!ObjectUpdated, NeedsMouseEvent, Plain!NeedsMouseEvent, HitTest, Plain!HitTest,
       Quiet, Plain!Quiet, Callbacks, Plain!Callbacks, NoRect, Plain!NoRect, NoPoint,
       Plain!NoPoint, mouseVars, Plain!mouseVars, objectVars, Plain!objectVars, ObjectTypeOK,
       Plain!ObjectTypeOK

LEMMA PushIsButton ==
  /\ Button!ButtonInit <=> Push!ButtonInit
  /\ [Button!ButtonNext]_(Button!buttonVars) <=> [Push!ButtonNext]_(Push!buttonVars)
  /\ Button!ObjectTypeOK <=> Push!ObjectTypeOK
  /\ Button!ButtonTypeOK <=> Push!ButtonTypeOK
  /\ Button!MomentaryLetsGo <=> Push!MomentaryLetsGo
BY DEF Button!ButtonInit, Push!ButtonInit, Button!ButtonNext, Push!ButtonNext,
       Button!MouseStep, Push!MouseStep, Button!KeyPressed, Push!KeyPressed,
       Button!KeyReleased, Push!KeyReleased, Button!Consume, Push!Consume, Button!KeysOnly,
       Push!KeysOnly, Button!Called, Push!Called, Button!Escapes, Push!Escapes, Button!OnPress,
       Push!OnPress, Button!OnRelease, Push!OnRelease, Button!Set, Push!Set, Button!Toggle,
       Push!Toggle, Button!Same, Push!Same, Button!buttonVars, Push!buttonVars,
       Button!ButtonTypeOK, Push!ButtonTypeOK, Button!MomentaryLetsGo, Push!MomentaryLetsGo,
       Button!ObjectInit, Push!ObjectInit, Button!NewObject, Push!NewObject, Button!ObjectNext,
       Push!ObjectNext, Button!Step, Push!Step, Button!Record, Push!Record, Button!Motion,
       Push!Motion, Button!Press, Push!Press, Button!Release, Push!Release, Button!SetPos,
       Push!SetPos, Button!SetEnabled, Push!SetEnabled, Button!SetListening, Push!SetListening,
       Button!Update, Push!Update, Button!Deliver, Push!Deliver, Button!Hears, Push!Hears,
       Button!MouseMoved, Push!MouseMoved, Button!MouseDragged, Push!MouseDragged,
       Button!MousePressed, Push!MousePressed, Button!MouseReleased, Push!MouseReleased,
       Button!ObjectUpdated, Push!ObjectUpdated, Button!NeedsMouseEvent, Push!NeedsMouseEvent,
       Button!HitTest, Push!HitTest, Button!Quiet, Push!Quiet, Button!Callbacks,
       Push!Callbacks, Button!NoRect, Push!NoRect, Button!NoPoint, Push!NoPoint,
       Button!mouseVars, Push!mouseVars, Button!objectVars, Push!objectVars,
       Button!ObjectTypeOK, Push!ObjectTypeOK

LEMMA BarIsSlider ==
  /\ Slider!SliderInit <=> Bar!Slider!SliderInit
  /\ [Slider!SliderNext]_(Slider!sliderVars) <=> [Bar!Slider!SliderNext]_(Bar!Slider!sliderVars)
  /\ Slider!ObjectTypeOK <=> Bar!ObjectTypeOK
  /\ Slider!SliderTypeOK <=> Bar!Slider!SliderTypeOK
  /\ Slider!ValueFollowsMouse <=> Bar!Slider!ValueFollowsMouse
  /\ Slider!HeldPointFollows <=> Bar!Slider!HeldPointFollows
BY DEF Slider!SliderInit, Bar!Slider!SliderInit, Slider!SliderNext, Bar!Slider!SliderNext,
       Slider!MouseStep, Bar!Slider!MouseStep, Slider!Write, Bar!Slider!Write, Slider!Slider,
       Bar!Slider!Slider, Slider!Grab, Bar!Slider!Grab, Slider!UpdateSlider,
       Bar!Slider!UpdateSlider, Slider!Heard, Bar!Slider!Heard, Slider!Mapped,
       Bar!Slider!Mapped, Slider!Clamped, Bar!Slider!Clamped, Slider!sliderVars,
       Bar!Slider!sliderVars, Slider!SliderTypeOK, Bar!Slider!SliderTypeOK,
       Slider!ValueFollowsMouse, Bar!Slider!ValueFollowsMouse, Slider!HeldPointFollows,
       Bar!Slider!HeldPointFollows, Slider!ObjectInit, Bar!Slider!ObjectInit, Slider!NewObject,
       Bar!Slider!NewObject, Slider!ObjectNext, Bar!Slider!ObjectNext, Slider!Step,
       Bar!Slider!Step, Slider!Record, Bar!Slider!Record, Slider!Motion, Bar!Slider!Motion,
       Slider!Press, Bar!Slider!Press, Slider!Release, Bar!Slider!Release, Slider!SetPos,
       Bar!Slider!SetPos, Slider!SetEnabled, Bar!Slider!SetEnabled, Slider!SetListening,
       Bar!Slider!SetListening, Slider!Update, Bar!Slider!Update, Slider!Deliver,
       Bar!Slider!Deliver, Slider!Hears, Bar!Slider!Hears, Slider!MouseMoved,
       Bar!Slider!MouseMoved, Slider!MouseDragged, Bar!Slider!MouseDragged,
       Slider!MousePressed, Bar!Slider!MousePressed, Slider!MouseReleased,
       Bar!Slider!MouseReleased, Slider!ObjectUpdated, Bar!Slider!ObjectUpdated,
       Slider!NeedsMouseEvent, Bar!Slider!NeedsMouseEvent, Slider!HitTest, Bar!Slider!HitTest,
       Slider!Quiet, Bar!Slider!Quiet, Slider!Callbacks, Bar!Slider!Callbacks, Slider!NoRect,
       Bar!Slider!NoRect, Slider!NoPoint, Bar!Slider!NoPoint, Slider!mouseVars,
       Bar!Slider!mouseVars, Slider!objectVars, Bar!Slider!objectVars,
       Slider!ObjectTypeOK, Bar!ObjectTypeOK, Bar!Callbacks, Bar!NoRect, Bar!NoPoint

LEMMA AloneIsPicture ==
  /\ Picture!DragInit <=> Alone!Drag!DragInit
  /\ [Picture!DragNext]_(Picture!dragVars) <=> [Alone!Drag!DragNext]_(Alone!Drag!dragVars)
  /\ Picture!DragTypeOK <=> Alone!Drag!DragTypeOK
BY DEF Picture!DragInit, Alone!Drag!DragInit, Picture!DragNext, Alone!Drag!DragNext,
       Picture!Draw, Alone!Drag!Draw, Picture!Motion, Alone!Drag!Motion, Picture!Press, Alone!Drag!Press, Picture!Release,
       Alone!Drag!Release, Picture!SetDraggable, Alone!Drag!SetDraggable, Picture!Update,
       Alone!Drag!Update, Picture!TakesHold, Alone!Drag!TakesHold, Picture!OnControl,
       Alone!Drag!OnControl, Picture!SavedClick, Alone!Drag!SavedClick, Picture!Dragged,
       Alone!Drag!Dragged, Picture!NoGrip, Alone!Drag!NoGrip, Picture!dragVars,
       Alone!Drag!dragVars, Picture!DragTypeOK, Alone!Drag!DragTypeOK, Picture!NewObject,
       Alone!Drag!NewObject, Picture!MouseMoved, Alone!Drag!MouseMoved, Picture!MouseDragged,
       Alone!Drag!MouseDragged, Picture!MousePressed, Alone!Drag!MousePressed,
       Picture!MouseReleased, Alone!Drag!MouseReleased, Picture!NeedsMouseEvent,
       Alone!Drag!NeedsMouseEvent, Picture!HitTest, Alone!Drag!HitTest, Picture!Quiet,
       Alone!Drag!Quiet, Picture!Callbacks, Alone!Drag!Callbacks, Picture!NoRect,
       Alone!Drag!NoRect

LEMMA BoardIsPanel ==
  /\ Panel!DragInit <=> Board!Drag!DragInit
  /\ [Panel!DragNext]_(Panel!dragVars) <=> [Board!Drag!DragNext]_(Board!Drag!dragVars)
  /\ Panel!DragTypeOK <=> Board!Drag!DragTypeOK
BY DEF Panel!DragInit, Board!Drag!DragInit, Panel!DragNext, Board!Drag!DragNext, Panel!Motion,
       Board!Drag!Motion, Panel!Draw, Board!Drag!Draw, Panel!Press, Board!Drag!Press, Panel!Release, Board!Drag!Release,
       Panel!SetDraggable, Board!Drag!SetDraggable, Panel!Update, Board!Drag!Update,
       Panel!TakesHold, Board!Drag!TakesHold, Panel!OnControl, Board!Drag!OnControl,
       Panel!SavedClick, Board!Drag!SavedClick, Panel!Dragged, Board!Drag!Dragged,
       Panel!NoGrip, Board!Drag!NoGrip, Panel!dragVars, Board!Drag!dragVars, Panel!DragTypeOK,
       Board!Drag!DragTypeOK, Panel!NewObject, Board!Drag!NewObject, Panel!MouseMoved,
       Board!Drag!MouseMoved, Panel!MouseDragged, Board!Drag!MouseDragged, Panel!MousePressed,
       Board!Drag!MousePressed, Panel!MouseReleased, Board!Drag!MouseReleased,
       Panel!NeedsMouseEvent, Board!Drag!NeedsMouseEvent, Panel!HitTest, Board!Drag!HitTest,
       Panel!Quiet, Board!Drag!Quiet, Panel!Callbacks, Board!Drag!Callbacks, Panel!NoRect,
       Board!Drag!NoRect

LEMMA SheetIsPage ==
  /\ Page!PageInit <=> Sheet!Page!PageInit
  /\ [Page!PageNext]_(Page!pageVars) <=> [Sheet!Page!PageNext]_(Sheet!Page!pageVars)
  /\ Page!PageTypeOK <=> Sheet!Page!PageTypeOK
BY DEF Page!PageInit, Sheet!Page!PageInit, Page!PageNext, Sheet!Page!PageNext, Page!Motion,
       Sheet!Page!Motion, Page!Press, Sheet!Page!Press, Page!Release, Sheet!Page!Release,
       Page!MarkerUpdated, Sheet!Page!MarkerUpdated, Page!MarkerFound, Sheet!Page!MarkerFound,
       Page!MarkerLost, Sheet!Page!MarkerLost, Page!PageUpdated, Sheet!Page!PageUpdated,
       Page!Unmoved, Sheet!Page!Unmoved, Page!ToldOfMove, Sheet!Page!ToldOfMove, Page!Heard,
       Sheet!Page!Heard, Page!PageMoved, Sheet!Page!PageMoved, Page!PageDragged,
       Sheet!Page!PageDragged, Page!PagePressed, Sheet!Page!PagePressed, Page!PageReleased,
       Sheet!Page!PageReleased, Page!Relocated, Sheet!Page!Relocated, Page!mouseVars,
       Sheet!Page!mouseVars, Page!pageVars, Sheet!Page!pageVars, Page!PageTypeOK,
       Sheet!Page!PageTypeOK, Page!NoGrip, Sheet!Page!NoGrip,
       Page!NewObject, Sheet!Page!NewObject, Page!MouseMoved, Sheet!Page!MouseMoved,
       Page!MouseDragged, Sheet!Page!MouseDragged, Page!MousePressed, Sheet!Page!MousePressed,
       Page!MouseReleased, Sheet!Page!MouseReleased, Page!NeedsMouseEvent,
       Sheet!Page!NeedsMouseEvent, Page!HitTest, Sheet!Page!HitTest, Page!Quiet,
       Sheet!Page!Quiet, Page!Callbacks, Sheet!Page!Callbacks, Page!NoRect, Sheet!Page!NoRect

LEMMA BarRange == Bar!IsRange
BY DEF Bar!IsRange

-----------------------------------------------------------------------------
(* The invariant.                                                          *)

Parts == {"object", "button", "slider", "picture", "panel", "page"}

\* Each part has its own, and the button rests while another part moves.
MouseInv ==
  /\ part \in Parts
  /\ part = "object" => Plain!ObjectInv
  /\ IF part = "button" THEN Push!ButtonInv ELSE momentary = FALSE
  /\ part = "slider" => Bar!SliderInv /\ Bar!FollowInv /\ Bar!LockInv /\ Bar!DownIsHeld
  /\ part = "picture" => Alone!DragInv /\ Alone!RestInv
  /\ part = "panel" => Board!DragInv
  /\ IF part = "page" THEN Sheet!PageInv /\ Sheet!Near ELSE gripC = 0

LEMMA MouseInitInv == MouseInit => MouseInv
<1> SUFFICES ASSUME MouseInit PROVE MouseInv
  OBVIOUS
<1>1. CASE part = "object"
  <2>1. Plain!ObjectInit /\ momentary = FALSE /\ gripC = 0
    BY <1>1, PlainIsObject DEF MouseInit, ButtonRests, PageRests
  <2>2. QED
    BY <1>1, <2>1, Plain!ObjectInitInv, WidthAssumption, PointsAssumption, PlacesAssumption,
       MaxMovesAssumption DEF MouseInv, Parts
<1>2. CASE part = "button"
  <2>1. Push!ButtonInit /\ gripC = 0
    BY <1>2, PushIsButton DEF MouseInit, PageRests
  <2>2. QED
    BY <1>2, <2>1, Push!ButtonInitInv, WidthAssumption DEF MouseInv, Parts
<1>3. CASE part = "slider"
  <2>1. Bar!Slider!SliderInit /\ momentary = FALSE /\ gripC = 0
    BY <1>3, BarIsSlider DEF MouseInit, ButtonRests, PageRests
  <2>2. Bar!SliderInv /\ Bar!FollowInv /\ Bar!LockInv /\ Bar!DownIsHeld
    BY <2>1, Bar!SliderInitInv, BarRange, WidthAssumption DEF Far
  <2>3. QED
    BY <1>3, <2>1, <2>2 DEF MouseInv, Parts
<1>4. CASE part = "picture"
  <2>1. Alone!Drag!DragInit /\ momentary = FALSE /\ gripC = 0
    BY <1>4, AloneIsPicture DEF MouseInit, ButtonRests, PageRests
  <2>2. Alone!DragInv /\ Alone!RestInv
    BY <2>1, Alone!DragInitInv, WidthAssumption, PlacesAssumption, MaxMovesAssumption
  <2>3. QED
    BY <1>4, <2>1, <2>2 DEF MouseInv, Parts
<1>5. CASE part = "panel"
  <2>1. Board!Drag!DragInit /\ momentary = FALSE /\ gripC = 0
    BY <1>5, BoardIsPanel DEF MouseInit, ButtonRests, PageRests
  <2>2. Board!DragInv
    BY <2>1, Board!DragInitInv, WidthAssumption, PlacesAssumption, MaxMovesAssumption
  <2>3. QED
    BY <1>5, <2>1, <2>2 DEF MouseInv, Parts
<1>6. CASE part = "page"
  <2>1. Sheet!Page!PageInit /\ momentary = FALSE
    BY <1>6, SheetIsPage DEF MouseInit, ButtonRests
  <2>2. Sheet!PageInv
    BY <2>1, Sheet!PageInitInv, WidthAssumption, MaxMovesAssumption
  <2>3. Sheet!Near
    BY <2>1, Sheet!NearInit, WidthAssumption, MaxMovesAssumption
  <2>4. QED
    BY <1>6, <2>1, <2>2, <2>3 DEF MouseInv, Parts
<1>7. QED
  BY <1>1, <1>2, <1>3, <1>4, <1>5, <1>6 DEF MouseInit

\* A step is one of the part the behaviour is about.
LEMMA EachPartSteps ==
  ASSUME [MouseNext]_mcVars
  PROVE  /\ part' = part
         /\ part = "object" => [Plain!ObjectNext]_(Plain!objectVars)
         /\ IF part = "button" THEN [Push!ButtonNext]_(Push!buttonVars)
                               ELSE UNCHANGED momentary
         /\ part = "slider" => [Bar!Slider!SliderNext]_(Bar!Slider!sliderVars)
         /\ part = "picture" => [Alone!Drag!DragNext]_(Alone!Drag!dragVars)
         /\ part = "panel" => [Board!Drag!DragNext]_(Board!Drag!dragVars)
         /\ IF part = "page" THEN [Sheet!Page!PageNext]_(Sheet!Page!pageVars)
                             ELSE UNCHANGED gripC
<1>1. /\ part' = part /\ (part # "button" => UNCHANGED momentary)
      /\ part # "page" => UNCHANGED gripC
  BY DEF MouseNext, ObjectStep, ButtonStep, SliderStep, PictureStep, PanelStep, PageStep,
         mcVars, buttonVars, pageVars
<1>2. ASSUME part = "object" PROVE [ObjectNext]_objectVars
  BY <1>2 DEF MouseNext, ObjectStep, ButtonStep, SliderStep, PictureStep, PanelStep, PageStep,
              mcVars
<1>3. ASSUME part = "button" PROVE [Button!ButtonNext]_(Button!buttonVars)
  BY <1>3 DEF MouseNext, ObjectStep, ButtonStep, SliderStep, PictureStep, PanelStep, PageStep,
              mcVars, objectVars, buttonVars, Button!buttonVars, Button!objectVars
<1>4. ASSUME part = "slider" PROVE [Slider!SliderNext]_(Slider!sliderVars)
  BY <1>4 DEF MouseNext, ObjectStep, ButtonStep, SliderStep, PictureStep, PanelStep, PageStep,
              mcVars, objectVars, sliderVars, Slider!sliderVars, Slider!objectVars
<1>5. ASSUME part = "picture" PROVE [Picture!DragNext]_(Picture!dragVars)
  BY <1>5 DEF MouseNext, ObjectStep, ButtonStep, SliderStep, PictureStep, PanelStep, PageStep,
              mcVars, dragVars, pointerVars, Picture!dragVars
<1>6. ASSUME part = "panel" PROVE [Panel!DragNext]_(Panel!dragVars)
  BY <1>6 DEF MouseNext, ObjectStep, ButtonStep, SliderStep, PictureStep, PanelStep, PageStep,
              mcVars, dragVars, pointerVars, Panel!dragVars
<1>7. ASSUME part = "page" PROVE [Page!PageNext]_(Page!pageVars)
  BY <1>7 DEF MouseNext, ObjectStep, ButtonStep, SliderStep, PictureStep, PanelStep, PageStep,
              mcVars, pageVars, pointerVars, Page!pageVars
<1>8. QED
  BY <1>1, <1>2, <1>3, <1>4, <1>5, <1>6, <1>7,
     PlainIsObject, PushIsButton, BarIsSlider, AloneIsPicture, BoardIsPanel, SheetIsPage

LEMMA MouseInvStep ==
  ASSUME MouseInv, [MouseNext]_mcVars
  PROVE  MouseInv'
<1>1. part' = part /\ part \in Parts
  BY EachPartSteps DEF MouseInv
<1>2. ASSUME part = "object" PROVE Plain!ObjectInv'
  <2>1. Plain!ObjectInv /\ [Plain!ObjectNext]_(Plain!objectVars)
    BY <1>2, EachPartSteps DEF MouseInv
  <2>2. QED
    BY <2>1, Plain!ObjectInvStep, WidthAssumption, PointsAssumption, PlacesAssumption,
       MaxMovesAssumption
<1>3. IF part = "button" THEN Push!ButtonInv' ELSE momentary' = FALSE
  <2>1. CASE part = "button"
    <3>1. Push!ButtonInv /\ [Push!ButtonNext]_(Push!buttonVars)
      BY <2>1, EachPartSteps DEF MouseInv
    <3>2. QED
      BY <2>1, <3>1, Push!ButtonStep, WidthAssumption
  <2>2. CASE part # "button"
    BY <2>2, EachPartSteps DEF MouseInv
  <2>3. QED
    BY <2>1, <2>2
<1>4. ASSUME part = "slider"
      PROVE  Bar!SliderInv' /\ Bar!FollowInv' /\ Bar!LockInv' /\ Bar!DownIsHeld'
  <2>1. /\ Bar!SliderInv /\ Bar!FollowInv /\ Bar!LockInv /\ Bar!DownIsHeld
        /\ [Bar!Slider!SliderNext]_(Bar!Slider!sliderVars)
    BY <1>4, EachPartSteps DEF MouseInv
  <2>2. Bar!SliderInv'
    BY <2>1, BarRange, Bar!SliderTypeStep, WidthAssumption DEF Far
  <2>3. Bar!FollowInv'
    BY <2>1, BarRange, Bar!FollowStep, WidthAssumption DEF Far
  <2>4. Bar!LockInv'
    BY <2>1, Bar!LockStep, WidthAssumption DEF Far
  <2>5. Bar!DownIsHeld'
    BY <2>1, Bar!SliderDownStep, WidthAssumption DEF Far
  <2>6. QED
    BY <2>2, <2>3, <2>4, <2>5
<1>5. ASSUME part = "picture" PROVE Alone!DragInv' /\ Alone!RestInv'
  <2>1. Alone!DragInv /\ Alone!RestInv /\ [Alone!Drag!DragNext]_(Alone!Drag!dragVars)
    BY <1>5, EachPartSteps DEF MouseInv
  <2>2. QED
    BY <2>1, Alone!DragInvStep, Alone!RestInvStep, WidthAssumption, PlacesAssumption,
       MaxMovesAssumption
<1>6. ASSUME part = "panel" PROVE Board!DragInv'
  <2>1. Board!DragInv /\ [Board!Drag!DragNext]_(Board!Drag!dragVars)
    BY <1>6, EachPartSteps DEF MouseInv
  <2>2. QED
    BY <2>1, Board!DragInvStep, WidthAssumption, PlacesAssumption, MaxMovesAssumption
<1>7. ASSUME part = "page" PROVE Sheet!PageInv' /\ Sheet!Near'
  <2>1. /\ Sheet!PageInv /\ Sheet!Near
        /\ [Sheet!Page!PageNext]_(Sheet!Page!pageVars)
    BY <1>7, EachPartSteps DEF MouseInv
  <2>2. Sheet!PageInv'
    BY <2>1, Sheet!PageInvStep, WidthAssumption, MaxMovesAssumption
  <2>3. Sheet!Near'
    BY <2>1, Sheet!NearStep, WidthAssumption, MaxMovesAssumption
  <2>4. QED
    BY <2>2, <2>3
<1>8. part # "page" => gripC' = 0
  BY EachPartSteps DEF MouseInv
<1>9. QED
  BY <1>1, <1>2, <1>3, <1>4, <1>5, <1>6, <1>7, <1>8 DEF MouseInv

LEMMA MouseInvHolds == MouseSpec => []MouseInv
BY MouseInitInv, MouseInvStep, PTL DEF MouseSpec

-----------------------------------------------------------------------------
(* The properties.                                                         *)

\* For objects of any width and any number of buttons, the types of each part.
THEOREM MouseTypeCorrect == MouseSpec => []MouseTypeOK
<1>1. ASSUME MouseInv PROVE MouseTypeOK
  <2>1. part = "object" => ObjectTypeOK
    BY <1>1, PlainIsObject DEF MouseInv, Plain!ObjectInv
  <2>2. part = "button" => Button!ObjectTypeOK /\ Button!ButtonTypeOK
    BY <1>1, PushIsButton, Push!ButtonIsTyped, WidthAssumption DEF MouseInv
  <2>3. part = "slider" => Slider!ObjectTypeOK /\ Slider!SliderTypeOK
    BY <1>1, BarIsSlider, Bar!SliderIsTyped, WidthAssumption DEF MouseInv, Far
  <2>4. part = "picture" => Picture!DragTypeOK
    BY <1>1, AloneIsPicture, Alone!DragIsTyped, WidthAssumption, PlacesAssumption,
       MaxMovesAssumption DEF MouseInv
  <2>5. part = "panel" => Panel!DragTypeOK
    BY <1>1, BoardIsPanel, Board!DragIsTyped, WidthAssumption, PlacesAssumption,
       MaxMovesAssumption DEF MouseInv
  <2>6. part = "page" => Page!PageTypeOK
    BY <1>1, SheetIsPage, Sheet!PageIsTyped, WidthAssumption, MaxMovesAssumption DEF MouseInv
  <2>7. part \in Parts
    BY <1>1 DEF MouseInv
  <2>8. QED
    BY <2>1, <2>2, <2>3, <2>4, <2>5, <2>6, <2>7 DEF MouseTypeOK, Parts
<1>2. QED
  BY <1>1, MouseInvHolds, PTL

\* A momentary button that nobody holds is off, unless a release escaped it; a
\* slider shows the place of the mouse after two events there, and the point of
\* the other one is at the mouse while it is held.
THEOREM ControlsFollow == MouseSpec => []ControlsFollowMouse
<1>1. ASSUME MouseInv PROVE ControlsFollowMouse
  <2>1. part = "button" => Button!MomentaryLetsGo
    BY <1>1, PushIsButton, Push!ButtonLetsGo, WidthAssumption DEF MouseInv
  <2>2. part = "slider" => Slider!ValueFollowsMouse
    BY <1>1, BarIsSlider, Bar!SliderFollows, WidthAssumption DEF MouseInv, Far
  <2>3. part = "slider" => Slider!HeldPointFollows
    BY <1>1, BarIsSlider, Bar!PointFollows, WidthAssumption DEF MouseInv, Far
  <2>4. QED
    BY <2>1, <2>2, <2>3 DEF ControlsFollowMouse
<1>2. QED
  BY <1>1, MouseInvHolds, PTL

\* A press of a momentary button at rest switches it on and is notified.
THEOREM PressesSwitchOn == MouseSpec => PressTakesEffect
<1>1. ASSUME MouseInv, [MouseNext]_mcVars
      PROVE  [ /\ written /\ ~ escaped /\ held = {} /\ ~ keyDown
               /\ momentary /\ "onPress" \in object'.calls
               => value' /\ notified' ]_(Button!buttonVars)
  <2>1. CASE part = "button"
    <3>1. Push!ButtonInv /\ [Push!ButtonNext]_(Push!buttonVars)
      BY <1>1, <2>1, EachPartSteps DEF MouseInv
    <3>2. UNCHANGED Button!buttonVars <=> UNCHANGED Push!buttonVars
      BY DEF Button!buttonVars, Push!buttonVars, Button!objectVars, Push!objectVars
    <3>3. QED
      BY <3>1, <3>2, Push!PressStepTakesEffect, WidthAssumption
  <2>2. CASE part # "button"
    BY <1>1, <2>2 DEF MouseInv
  <2>3. QED
    BY <2>1, <2>2
<1>2. QED
  BY <1>1, MouseInvHolds, PTL DEF MouseSpec, PressTakesEffect, Button!PressTakesEffect

\* A drag leaves the clicked point under the mouse, of the picture and of the
\* panel.
THEOREM DragsKeepGrip == MouseSpec => GripStaysUnderMouse
<1>1. ASSUME MouseInv, [MouseNext]_mcVars
      PROVE  [ /\ grip # Panel!NoGrip /\ grip' = grip /\ pointer' # pointer
               /\ thing'.x # thing.x
               => pointer' - thing'.x = grip ]_(Panel!dragVars)
  <2>1. CASE part = "picture"
    <3>1. Alone!DragInv /\ [Alone!Drag!DragNext]_(Alone!Drag!dragVars)
      BY <1>1, <2>1, EachPartSteps DEF MouseInv
    <3>2. /\ UNCHANGED Panel!dragVars <=> UNCHANGED Alone!Drag!dragVars
          /\ Panel!NoGrip = Alone!Drag!NoGrip
      BY DEF Panel!dragVars, Alone!Drag!dragVars, Panel!NoGrip, Alone!Drag!NoGrip
    <3>3. QED
      BY <3>1, <3>2, Alone!DragKeepsGrip, WidthAssumption, PlacesAssumption, MaxMovesAssumption
  <2>2. CASE part = "panel"
    <3>1. Board!DragInv /\ [Board!Drag!DragNext]_(Board!Drag!dragVars)
      BY <1>1, <2>2, EachPartSteps DEF MouseInv
    <3>2. /\ UNCHANGED Panel!dragVars <=> UNCHANGED Board!Drag!dragVars
          /\ Panel!NoGrip = Board!Drag!NoGrip
      BY DEF Panel!dragVars, Board!Drag!dragVars, Panel!NoGrip, Board!Drag!NoGrip
    <3>3. QED
      BY <3>1, <3>2, Board!DragKeepsGrip, WidthAssumption, PlacesAssumption, MaxMovesAssumption
  <2>3. CASE part \notin {"picture", "panel"}
    BY <1>1, <2>3 DEF MouseNext, ObjectStep, ButtonStep, SliderStep, PictureStep, PanelStep,
                      PageStep, mcVars, dragVars
  <2>4. QED
    BY <2>1, <2>2, <2>3
<1>2. QED
  BY <1>1, MouseInvHolds, PTL DEF MouseSpec, GripStaysUnderMouse, Panel!GripStaysUnderMouse

\* The point where a page was clicked is under the mouse after every drag.
THEOREM PagesAreHeld == MouseSpec => GripFollowsMouse
<1>1. ASSUME MouseInv, [MouseNext]_mcVars
      PROVE  [ pointer' # pointer /\ page.enabled /\ gripC # Page!NoGrip
                 => /\ pointer' - page'.x - offset' = gripC
                    /\ Page!HitTest(content', gripC) ]_(Page!pageVars)
  <2>1. CASE part = "page"
    <3>1. Sheet!PageInv /\ [Sheet!Page!PageNext]_(Sheet!Page!pageVars)
      BY <1>1, <2>1, EachPartSteps DEF MouseInv
    <3>2. /\ UNCHANGED Page!pageVars <=> UNCHANGED Sheet!Page!pageVars
          /\ Page!NoGrip = Sheet!Page!NoGrip
          /\ Page!HitTest(content', gripC) <=> Sheet!Page!HitTest(content', gripC)
      BY DEF Page!pageVars, Sheet!Page!pageVars, Page!NoGrip, Sheet!Page!NoGrip,
             Page!HitTest, Sheet!Page!HitTest
    <3>3. QED
      BY <3>1, <3>2, Sheet!PageKeepsGrip, WidthAssumption, MaxMovesAssumption
  <2>2. CASE part # "page"
    <3>1. gripC = 0
      BY <1>1, <2>2 DEF MouseInv
    <3>2. QED
      BY <3>1 DEF Page!NoGrip
  <2>3. QED
    BY <2>1, <2>2
<1>2. QED
  BY <1>1, MouseInvHolds, PTL DEF MouseSpec, GripFollowsMouse, Page!GripFollowsMouse

\* A resting mouse moves no picture that is held.
THEOREM PicturesRest == MouseSpec => RestingMouseMovesNothing
<1>1. ASSUME MouseInv, [MouseNext]_mcVars
      PROVE  [ part = "picture" => Picture!RestsWithMouse ]_mcVars
  <2>1. CASE part = "picture"
    <3>1. /\ Alone!DragInv /\ Alone!RestInv
          /\ [Alone!Drag!DragNext]_(Alone!Drag!dragVars)
      BY <1>1, <2>1, EachPartSteps DEF MouseInv
    <3>2. Picture!RestsWithMouse <=> Alone!Drag!RestsWithMouse
      BY DEF Picture!RestsWithMouse, Alone!Drag!RestsWithMouse, Picture!NoGrip,
             Alone!Drag!NoGrip
    <3>3. QED
      BY <3>1, <3>2, Alone!RestsStep, WidthAssumption, PlacesAssumption, MaxMovesAssumption
  <2>2. QED
    BY <2>1
<1>2. QED
  BY <1>1, MouseInvHolds, PTL DEF MouseSpec, RestingMouseMovesNothing
=============================================================================
