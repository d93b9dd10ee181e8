---------------------------- MODULE Controls_proofs ----------------------------
(***************************************************************************)
(* Why the interactive object can be relied on, whatever the application   *)
(* enables and moves: it is down exactly from an onPress to the release    *)
(* that answers it.  And why the controls follow the mouse: the button,    *)
(* the slider and the draggables over the object they are, and the page    *)
(* that passes its events on.  The button is extended, the others are      *)
(* instances, each with variables of its own besides those of the object.  *)
(***************************************************************************)
EXTENDS ButtonControl, TLAPS

-----------------------------------------------------------------------------
(* The handlers, field by field, of objects at any place.                  *)

Objects ==
  [ enabled : BOOLEAN, x : Int, oldRect : Int, mouseX : Int,
    mouseOver : BOOLEAN, mouseDown : BOOLEAN, calls : SUBSET Callbacks ]

LEMMA QuietFields ==
  ASSUME NEW o \in Objects
  PROVE  LET n == Quiet(o)
         IN  /\ n \in Objects /\ n.calls = {}
             /\ n.enabled = o.enabled /\ n.x = o.x /\ n.oldRect = o.oldRect
             /\ n.mouseX = o.mouseX /\ n.mouseOver = o.mouseOver /\ n.mouseDown = o.mouseDown
BY DEF Quiet, Objects

LEMMA HitTestIsBoolean ==
  ASSUME NEW o \in Objects, NEW p \in Int
  PROVE  HitTest(o, p) \in BOOLEAN
BY DEF HitTest

\* A motion without a button.
LEMMA MovedFields ==
  ASSUME NEW o \in Objects, NEW p \in Int
  PROVE  LET n == MouseMoved(o, p)
         IN  /\ n \in Objects
             /\ n.enabled = o.enabled /\ n.x = o.x /\ n.oldRect = o.oldRect
             /\ n.mouseDown = o.mouseDown
             /\ n.mouseX = IF o.enabled THEN p ELSE o.mouseX
             /\ n.mouseOver = IF o.enabled THEN HitTest(o, p) ELSE o.mouseOver
             /\ ~ o.enabled => n.calls = {}
             /\ n.calls \subseteq {"onRollOver", "onMouseMove", "onRollOut"}
<1> DEFINE hit == HitTest(o, p)
           called == { c \in Callbacks :
             \/ c = "onRollOver"  /\ hit /\ ~ o.mouseOver
             \/ c = "onMouseMove" /\ hit
             \/ c = "onRollOut"   /\ ~ hit /\ o.mouseOver }
<1>1. hit \in BOOLEAN
  BY HitTestIsBoolean
<1>2. called \in SUBSET Callbacks /\ called \subseteq {"onRollOver", "onMouseMove", "onRollOut"}
  OBVIOUS
<1>3. CASE ~ o.enabled
  BY <1>3, QuietFields DEF MouseMoved
<1>4. CASE o.enabled
  <2>1. MouseMoved(o, p) = [o EXCEPT !.mouseX = p, !.mouseOver = hit, !.calls = called]
    BY <1>4 DEF MouseMoved
  <2> HIDE DEF hit, called
  <2>2. QED
    BY <1>1, <1>2, <1>4, <2>1 DEF Objects, hit
<1>5. QED
  BY <1>3, <1>4

\* A button that goes down.
LEMMA PressedFields ==
  ASSUME NEW o \in Objects, NEW p \in Int
  PROVE  LET n == MousePressed(o, p)
         IN  /\ n \in Objects
             /\ n.enabled = o.enabled /\ n.x = o.x /\ n.oldRect = o.oldRect
             /\ n.mouseOver = o.mouseOver
             /\ n.mouseX = IF o.enabled THEN p ELSE o.mouseX
             /\ n.mouseDown = (o.mouseDown \/ (o.enabled /\ HitTest(o, p)))
             /\ n.calls \subseteq {"onPress"}
             /\ "onPress" \in n.calls <=> o.enabled /\ HitTest(o, p) /\ ~ o.mouseDown
<1> DEFINE hit == HitTest(o, p)
           called == { c \in {"onPress"} : hit /\ ~ o.mouseDown }
<1>1. hit \in BOOLEAN
  BY HitTestIsBoolean
<1>2. /\ called \in SUBSET Callbacks /\ called \subseteq {"onPress"}
      /\ "onPress" \in called <=> hit /\ ~ o.mouseDown
  BY DEF Callbacks
<1>3. CASE ~ o.enabled
  BY <1>3, QuietFields DEF MousePressed, Objects
<1>4. CASE o.enabled
  <2>1. MousePressed(o, p) = [o EXCEPT !.mouseX = p, !.mouseDown = @ \/ hit, !.calls = called]
    BY <1>4 DEF MousePressed
  <2> HIDE DEF hit, called
  <2>2. QED
    BY <1>1, <1>2, <1>4, <2>1 DEF Objects, hit
<1>5. QED
  BY <1>3, <1>4

\* A motion with a button.
LEMMA DraggedFields ==
  ASSUME NEW o \in Objects, NEW p \in Int
  PROVE  LET n == MouseDragged(o, p)
         IN  /\ n \in Objects
             /\ n.enabled = o.enabled /\ n.x = o.x /\ n.oldRect = o.oldRect
             /\ n.mouseDown = o.mouseDown
             /\ n.mouseX = IF o.enabled THEN p ELSE o.mouseX
             /\ n.mouseOver = IF o.enabled THEN HitTest(o, p) ELSE o.mouseOver
             /\ n.calls \subseteq {"onDragOver", "onRollOut", "onDragOutside"}
             /\ ~ o.enabled => n.calls = {}
             /\ "onDragOver" \in n.calls <=> o.enabled /\ HitTest(o, p)
             /\ "onDragOutside" \in n.calls <=> o.enabled /\ ~ HitTest(o, p) /\ o.mouseDown
<1> DEFINE hit == HitTest(o, p)
           called == { c \in Callbacks :
             \/ c = "onDragOver"    /\ hit
             \/ c = "onRollOut"     /\ ~ hit /\ o.mouseOver
             \/ c = "onDragOutside" /\ ~ hit /\ o.mouseDown }
<1>1. hit \in BOOLEAN
  BY HitTestIsBoolean
<1>2. /\ called \in SUBSET Callbacks
      /\ called \subseteq {"onDragOver", "onRollOut", "onDragOutside"}
      /\ "onDragOver" \in called <=> hit
      /\ "onDragOutside" \in called <=> ~ hit /\ o.mouseDown
  BY DEF Callbacks
<1>3. CASE ~ o.enabled
  BY <1>3, QuietFields DEF MouseDragged
<1>4. CASE o.enabled
  <2>1. MouseDragged(o, p) = [o EXCEPT !.mouseX = p, !.mouseOver = hit, !.calls = called]
    BY <1>4 DEF MouseDragged
  <2> HIDE DEF hit, called
  <2>2. QED
    BY <1>1, <1>2, <1>4, <2>1 DEF Objects, hit
<1>5. QED
  BY <1>3, <1>4

\* A button that goes up.
LEMMA ReleasedFields ==
  ASSUME NEW o \in Objects, NEW p \in Int
  PROVE  LET n == MouseReleased(o, p)
         IN  /\ n \in Objects
             /\ n.enabled = o.enabled /\ n.x = o.x /\ n.oldRect = o.oldRect
             /\ n.mouseOver = o.mouseOver
             /\ n.mouseX = IF o.enabled THEN p ELSE o.mouseX
             /\ n.mouseDown = (o.mouseDown /\ ~ o.enabled)
             /\ n.calls \subseteq {"onRelease", "onReleaseOutside"}
             /\ "onRelease" \in n.calls <=> o.enabled /\ HitTest(o, p)
             /\ "onReleaseOutside" \in n.calls <=> o.enabled /\ ~ HitTest(o, p) /\ o.mouseDown
<1> DEFINE hit == HitTest(o, p)
           called == { c \in Callbacks :
             \/ c = "onRelease"        /\ hit
             \/ c = "onReleaseOutside" /\ ~ hit /\ o.mouseDown }
<1>1. hit \in BOOLEAN
  BY HitTestIsBoolean
<1>2. /\ called \in SUBSET Callbacks
      /\ called \subseteq {"onRelease", "onReleaseOutside"}
      /\ "onRelease" \in called <=> hit
      /\ "onReleaseOutside" \in called <=> ~ hit /\ o.mouseDown
  BY DEF Callbacks
<1>3. CASE ~ o.enabled
  BY <1>3, QuietFields DEF MouseReleased, Objects
<1>4. CASE o.enabled
  <2>1. MouseReleased(o, p) = [o EXCEPT !.mouseX = p, !.mouseDown = FALSE, !.calls = called]
    BY <1>4 DEF MouseReleased
  <2> HIDE DEF hit, called
  <2>2. QED
    BY <1>1, <1>2, <1>4, <2>1 DEF Objects, hit
<1>5. QED
  BY <1>3, <1>4

\* The event an update makes up, at the last position the object heard of.
LEMMA ToldAgain ==
  ASSUME NEW o \in Objects, o.enabled, NEW p \in Int
  PROVE  LET m == IF o.mouseDown THEN MouseDragged(o, p) ELSE MouseMoved(o, p)
         IN  /\ m \in Objects
             /\ m.enabled /\ m.x = o.x /\ m.mouseDown = o.mouseDown
             /\ m.mouseX = p /\ m.mouseOver = HitTest(o, p)
             /\ {"onPress", "onRelease", "onReleaseOutside"} \cap m.calls = {}
             /\ "onDragOutside" \in m.calls => o.mouseDown
<1> DEFINE m == IF o.mouseDown THEN MouseDragged(o, p) ELSE MouseMoved(o, p)
<1>1. o.mouseDown \in BOOLEAN
  BY DEF Objects
<1>2. /\ m \in Objects
      /\ m.enabled /\ m.x = o.x /\ m.mouseDown = o.mouseDown
      /\ m.mouseX = p /\ m.mouseOver = HitTest(o, p)
  BY <1>1, DraggedFields, MovedFields
<1>3. /\ {"onPress", "onRelease", "onReleaseOutside"} \cap m.calls = {}
      /\ "onDragOutside" \in m.calls => o.mouseDown
  BY <1>1, DraggedFields, MovedFields
<1>5. QED
  BY <1>2, <1>3

\* An update presses and releases nothing, and leaves the flag of the mouse
\* as that of the object's place.
LEMMA UpdatedFields ==
  ASSUME NEW o \in Objects
  PROVE  LET n == ObjectUpdated(o)
         IN  /\ n \in Objects
             /\ n.enabled = o.enabled /\ n.x = o.x
             /\ n.mouseDown = o.mouseDown /\ n.mouseX = o.mouseX
             /\ n.oldRect = IF o.enabled THEN o.x ELSE o.oldRect
             /\ n.mouseOver = IF NeedsMouseEvent(o) THEN HitTest(o, o.mouseX) ELSE o.mouseOver
             /\ ~ o.enabled => n.calls = {}
             /\ {"onPress", "onRelease", "onReleaseOutside"} \cap n.calls = {}
             /\ "onDragOutside" \in n.calls => o.mouseDown
<1> DEFINE m == IF o.mouseDown THEN MouseDragged(o, o.mouseX) ELSE MouseMoved(o, o.mouseX)
<1>1. CASE ~ NeedsMouseEvent(o)
  <2>1. ObjectUpdated(o) = Quiet(o)
    BY <1>1 DEF ObjectUpdated
  <2>2. o.enabled => o.oldRect = o.x
    BY <1>1 DEF NeedsMouseEvent
  <2>3. o.enabled \in BOOLEAN
    BY DEF Objects
  <2>4. QED
    BY <1>1, <2>1, <2>2, <2>3, QuietFields
<1>2. CASE NeedsMouseEvent(o)
  <2>1. o.enabled /\ o.mouseX \in Int /\ o.x \in Int /\ o.mouseDown \in BOOLEAN
    BY <1>2 DEF NeedsMouseEvent, Objects
  <2>2. ObjectUpdated(o) = [m EXCEPT !.oldRect = o.x]
    BY <1>2 DEF ObjectUpdated
  <2>3. /\ m \in Objects
        /\ m.enabled /\ m.x = o.x /\ m.mouseDown = o.mouseDown
        /\ m.mouseX = o.mouseX /\ m.mouseOver = HitTest(o, o.mouseX)
        /\ {"onPress", "onRelease", "onReleaseOutside"} \cap m.calls = {}
        /\ "onDragOutside" \in m.calls => o.mouseDown
    BY <2>1, ToldAgain, Zenon
  <2> HIDE DEF m
  <2>4. QED
    BY <1>2, <2>1, <2>2, <2>3 DEF Objects
<1>3. QED
  BY <1>1, <1>2

-----------------------------------------------------------------------------
(* The invariants.                                                         *)

\* What the types of ObjectTypeOK say of the object.
IsTyped(o) ==
  /\ o \in Objects
  /\ o.x \in Places /\ o.oldRect \in Places \cup {NoRect} /\ o.mouseX \in Points
  /\ ~ o.enabled => o.calls = {}

\* The types of the rest.
RestTypeOK ==
  /\ listening \in BOOLEAN /\ mouse \in Points /\ held \in SUBSET Buttons
  /\ moves \in 0 .. MaxMoves /\ pressedOn \in SUBSET held /\ missed \in BOOLEAN
  /\ told \in Points \cup {NoPoint} /\ open \in BOOLEAN

\* The object is down from an onPress to the release that answers it, ...
OpenInv == open = object.mouseDown

\* ... and an object that was not moved since it looked is where it looked;
\* the mouse it was told of is the one it remembers.
PlaceInv ==
  /\ moves = 0 => object.oldRect \in {object.x, NoRect}
  /\ told = mouse => object.mouseX = mouse
  /\ OverFollowsObject

ObjectInv == ObjectTypeOK /\ OpenInv

LEMMA ObjectsByFields ==
  ASSUME NEW o
  PROVE  o \in [ enabled : BOOLEAN, x : Places, oldRect : Places \cup {NoRect},
                 mouseX : Points, mouseOver : BOOLEAN, mouseDown : BOOLEAN,
                 calls : SUBSET Callbacks ]
         <=> /\ o \in Objects /\ o.x \in Places
             /\ o.oldRect \in Places \cup {NoRect} /\ o.mouseX \in Points
<1>1. Points \subseteq Int /\ Places \subseteq Int /\ NoRect \in Int
  BY PointsAssumption, PlacesAssumption DEF NoRect
<1>2. QED
  BY <1>1 DEF Objects

LEMMA TypesByParts ==
  /\ ObjectTypeOK <=> IsTyped(object) /\ RestTypeOK
  /\ ObjectTypeOK' <=> IsTyped(object') /\ RestTypeOK'
BY ObjectsByFields DEF ObjectTypeOK, IsTyped, RestTypeOK

LEMMA ObjectInitInv == ObjectInit => ObjectInv /\ PlaceInv /\ DownIsHeld
<1> SUFFICES ASSUME ObjectInit PROVE ObjectInv /\ PlaceInv /\ DownIsHeld
  OBVIOUS
<1>1. PICK x \in Places, garbage \in Points : object = NewObject(x, garbage)
  BY DEF ObjectInit
<1>2. IsTyped(object) /\ ~ object.mouseDown /\ object.oldRect = NoRect /\ object.x = x
  BY <1>1, PointsAssumption, PlacesAssumption
     DEF NewObject, IsTyped, Objects, NoRect, Callbacks
<1>3. RestTypeOK
  <2>1. /\ listening = FALSE /\ missed = FALSE /\ open = FALSE
        /\ mouse \in Points /\ held = {} /\ pressedOn = {} /\ moves = 0 /\ told = NoPoint
    BY DEF ObjectInit
  <2>2. 0 \in 0 .. MaxMoves
    BY MaxMovesAssumption
  <2>3. QED
    BY <2>1, <2>2 DEF RestTypeOK
<1>4. told # mouse /\ open = FALSE
  BY PointsAssumption DEF ObjectInit, NoPoint
<1>5. QED
  BY <1>2, <1>3, <1>4, TypesByParts
     DEF ObjectInv, OpenInv, PlaceInv, OverFollowsObject, DownIsHeld, Objects, IsTyped

\* What the callbacks of a step say of the object before and after it.
CallsFit ==
  /\ "onPress" \in object'.calls => ~ object.mouseDown /\ object'.mouseDown
  /\ {"onRelease", "onReleaseOutside"} \cap object'.calls # {} => ~ object'.mouseDown
  /\ {"onDragOutside", "onReleaseOutside"} \cap object'.calls # {} => object.mouseDown
  /\ {"onPress", "onRelease", "onReleaseOutside"} \cap object'.calls = {}
       => object'.mouseDown = object.mouseDown

LEMMA CallsKeepOpen ==
  ASSUME OpenInv, object \in Objects, object' \in Objects, CallsFit, Record
  PROVE  OpenInv'
BY DEF OpenInv, Objects, CallsFit, Record

\* A step that leaves the object but for its place, and calls nobody.
LEMMA QuietStep ==
  ASSUME ObjectInv, object' \in Objects, object'.calls = {},
         UNCHANGED <<object.oldRect, object.mouseX, object.mouseDown>>, object'.x \in Places
  PROVE  IsTyped(object') /\ CallsFit
BY TypesByParts DEF ObjectInv, IsTyped, CallsFit

\* What a motion does, ...
LEMMA MotionStep ==
  ASSUME ObjectInv, NEW p \in Points, Motion(p)
  PROVE  /\ IsTyped(object') /\ CallsFit
         /\ UNCHANGED <<object.x, object.oldRect, object.mouseDown>>
         /\ Hears => object'.mouseX = p /\ object'.mouseOver = HitTest(object, p)
<1>1. /\ object \in Objects /\ IsTyped(object) /\ p \in Int
      /\ object' = IF listening THEN IF held = {} THEN MouseMoved(object, p)
                                     ELSE MouseDragged(object, p)
                   ELSE Quiet(object)
  BY TypesByParts, PointsAssumption DEF ObjectInv, IsTyped, Motion, Deliver
<1>2. CASE listening /\ held = {}
  <2>1. object' = MouseMoved(object, p)
    BY <1>1, <1>2
  <2>2. QED
    BY <1>1, <1>2, <2>1, MovedFields DEF IsTyped, CallsFit, Hears
<1>3. CASE listening /\ held # {}
  <2>1. object' = MouseDragged(object, p)
    BY <1>1, <1>3
  <2>2. QED
    BY <1>1, <1>3, <2>1, DraggedFields DEF IsTyped, CallsFit, Hears
<1>4. CASE ~ listening
  BY <1>1, <1>4, QuietFields DEF IsTyped, CallsFit, Hears
<1>5. QED
  BY <1>2, <1>3, <1>4

\* ... a button that goes down, ...
LEMMA PressStep ==
  ASSUME ObjectInv, NEW b \in Buttons, Press(b)
  PROVE  /\ IsTyped(object') /\ CallsFit
         /\ UNCHANGED <<object.x, object.oldRect, object.mouseOver>>
         /\ object'.mouseX = IF Hears THEN mouse ELSE object.mouseX
         /\ object'.mouseDown = (object.mouseDown \/ (Hears /\ HitTest(object, mouse)))
<1>1. /\ object \in Objects /\ IsTyped(object) /\ mouse \in Points /\ mouse \in Int
      /\ object.enabled \in BOOLEAN /\ object.mouseDown \in BOOLEAN
  <2>1. IsTyped(object) /\ mouse \in Points
    BY TypesByParts DEF ObjectInv, RestTypeOK
  <2>2. QED
    BY <2>1, PointsAssumption DEF IsTyped, Objects
<1>2. object' = IF listening THEN MousePressed(object, mouse) ELSE Quiet(object)
  BY DEF Press, Deliver
<1>3. CASE listening
  <2>1. object' = MousePressed(object, mouse)
    BY <1>2, <1>3
  <2>2. Hears = object.enabled
    BY <1>1, <1>3 DEF Hears
  <2>3. QED
    BY <1>1, <2>1, <2>2, PressedFields DEF IsTyped, CallsFit
<1>4. CASE ~ listening
  <2>1. object' = Quiet(object) /\ ~ Hears
    BY <1>2, <1>4 DEF Hears
  <2>2. QED
    BY <1>1, <2>1, QuietFields DEF IsTyped, CallsFit
<1>5. QED
  BY <1>3, <1>4

\* ... and one that goes up.
LEMMA ReleaseStep ==
  ASSUME ObjectInv, NEW b \in Buttons, Release(b)
  PROVE  /\ IsTyped(object') /\ CallsFit
         /\ UNCHANGED <<object.x, object.oldRect, object.mouseOver>>
         /\ object'.mouseX = IF Hears THEN mouse ELSE object.mouseX
         /\ object'.mouseDown = (object.mouseDown /\ ~ Hears)
<1>1. /\ object \in Objects /\ IsTyped(object) /\ mouse \in Points /\ mouse \in Int
      /\ object.enabled \in BOOLEAN /\ object.mouseDown \in BOOLEAN
  <2>1. IsTyped(object) /\ mouse \in Points
    BY TypesByParts DEF ObjectInv, RestTypeOK
  <2>2. QED
    BY <2>1, PointsAssumption DEF IsTyped, Objects
<1>2. object' = IF listening THEN MouseReleased(object, mouse) ELSE Quiet(object)
  BY DEF Release, Deliver
<1>3. CASE listening
  <2>1. object' = MouseReleased(object, mouse)
    BY <1>2, <1>3
  <2>2. Hears = object.enabled
    BY <1>1, <1>3 DEF Hears
  <2>3. /\ object'.mouseDown = (object.mouseDown /\ ~ Hears)
        /\ object'.calls \subseteq {"onRelease", "onReleaseOutside"}
        /\ "onRelease" \in object'.calls <=> Hears /\ HitTest(object, mouse)
        /\ "onReleaseOutside" \in object'.calls
             <=> Hears /\ ~ HitTest(object, mouse) /\ object.mouseDown
    BY <1>1, <2>1, <2>2, ReleasedFields
  <2>4. CallsFit
    BY <1>1, <2>2, <2>3 DEF CallsFit
  <2>5. ~ object.enabled => object'.calls = {}
    BY <2>2, <2>3
  <2>6. QED
    BY <1>1, <2>1, <2>2, <2>3, <2>4, <2>5, ReleasedFields DEF IsTyped
<1>4. CASE ~ listening
  <2>1. object' = Quiet(object) /\ ~ Hears
    BY <1>2, <1>4 DEF Hears
  <2>2. QED
    BY <1>1, <2>1, QuietFields DEF IsTyped, CallsFit
<1>5. QED
  BY <1>3, <1>4

\* What the application does calls nobody, except by an update.
LEMMA SetStep ==
  ASSUME ObjectInv,
         \/ \E x \in Places : SetPos(x)
         \/ \E b \in BOOLEAN : SetEnabled(b) \/ SetListening(b)
  PROVE  /\ IsTyped(object') /\ CallsFit
         /\ UNCHANGED <<object.oldRect, object.mouseX, object.mouseOver, object.mouseDown>>
         /\ moves' = moves => object'.x = object.x
<1>1. IsTyped(object) /\ object \in Objects /\ moves \in Nat /\ Places \subseteq Int
  BY TypesByParts, MaxMovesAssumption, PlacesAssumption DEF ObjectInv, IsTyped, RestTypeOK
<1>2. DEFINE q == Quiet(object)
<1>3. /\ q \in Objects /\ q.calls = {}
      /\ q.enabled = object.enabled /\ q.x = object.x /\ q.oldRect = object.oldRect
      /\ q.mouseX = object.mouseX /\ q.mouseOver = object.mouseOver
      /\ q.mouseDown = object.mouseDown
  BY <1>1, QuietFields
<1>4. CASE \E x \in Places : SetPos(x)
  <2>1. PICK x \in Places : object' = [q EXCEPT !.x = x] /\ moves' = moves + 1
    BY <1>4 DEF SetPos
  <2> HIDE DEF q
  <2>2. /\ object' \in Objects /\ object'.calls = {} /\ object'.x \in Places
        /\ UNCHANGED <<object.oldRect, object.mouseX, object.mouseOver, object.mouseDown>>
    BY <1>1, <1>3, <2>1 DEF Objects
  <2>3. moves' # moves
    BY <1>1, <2>1
  <2>4. QED
    BY <2>2, <2>3, QuietStep
<1>5. CASE \E b \in BOOLEAN : SetEnabled(b)
  <2>1. PICK b \in BOOLEAN : object' = [q EXCEPT !.enabled = b]
    BY <1>5 DEF SetEnabled
  <2> HIDE DEF q
  <2>2. /\ object' \in Objects /\ object'.calls = {} /\ object'.x = object.x
        /\ UNCHANGED <<object.oldRect, object.mouseX, object.mouseOver, object.mouseDown>>
    BY <1>1, <1>3, <2>1 DEF Objects
  <2>3. QED
    BY <1>1, <2>2, QuietStep DEF IsTyped
<1>6. CASE \E b \in BOOLEAN : SetListening(b)
  <2>1. object' = q
    BY <1>6 DEF SetListening
  <2> HIDE DEF q
  <2>2. QED
    BY <1>1, <1>3, <2>1, QuietStep DEF IsTyped
<1>7. QED
  BY <1>4, <1>5, <1>6

LEMMA UpdateStep ==
  ASSUME ObjectInv, Update
  PROVE  /\ IsTyped(object') /\ CallsFit
         /\ UNCHANGED <<object.x, object.mouseX, object.mouseDown, object.enabled>>
         /\ object'.oldRect = IF object.enabled THEN object.x ELSE object.oldRect
         /\ object'.mouseOver = IF NeedsMouseEvent(object) THEN HitTest(object, object.mouseX)
                                ELSE object.mouseOver
<1>1. object \in Objects /\ IsTyped(object)
  BY TypesByParts DEF ObjectInv, IsTyped
<1>2. object' = ObjectUpdated(object)
  BY DEF Update
<1>3. QED
  BY <1>1, <1>2, UpdatedFields DEF IsTyped, CallsFit

\* All steps.
LEMMA StepKeepsInv ==
  ASSUME ObjectInv, ObjectNext
  PROVE  ObjectInv' /\ CallsFit
<1>1. IsTyped(object') /\ CallsFit
  BY MotionStep, PressStep, ReleaseStep, SetStep, UpdateStep DEF ObjectNext, Step
<1>2. OpenInv'
  BY <1>1, CallsKeepOpen, TypesByParts DEF ObjectInv, IsTyped, ObjectNext
<1>3. RestTypeOK'
  <2>1. RestTypeOK /\ object.enabled \in BOOLEAN
    BY TypesByParts DEF ObjectInv, IsTyped, Objects
  <2>2. open' \in BOOLEAN
    BY <1>1, <1>2 DEF OpenInv, IsTyped, Objects
  <2>3. ASSUME NEW p \in Points, Motion(p) PROVE RestTypeOK'
    BY <2>1, <2>2, <2>3 DEF Motion, RestTypeOK
  <2>4. ASSUME NEW b \in Buttons, Press(b) PROVE RestTypeOK'
    BY <2>1, <2>2, <2>4 DEF Press, RestTypeOK, Hears
  <2>5. ASSUME NEW b \in Buttons, Release(b) PROVE RestTypeOK'
    BY <2>1, <2>2, <2>5 DEF Release, RestTypeOK, Hears
  <2>6. ASSUME NEW x \in Places, SetPos(x) PROVE RestTypeOK'
    BY <2>1, <2>2, <2>6, MaxMovesAssumption DEF SetPos, mouseVars, RestTypeOK
  <2>7. ASSUME NEW b \in BOOLEAN, SetEnabled(b) \/ SetListening(b) PROVE RestTypeOK'
    BY <2>1, <2>2, <2>7 DEF SetEnabled, SetListening, mouseVars, RestTypeOK
  <2>8. CASE Update
    BY <2>1, <2>2, <2>8, MaxMovesAssumption DEF Update, mouseVars, RestTypeOK
  <2>9. QED
    BY <2>3, <2>4, <2>5, <2>6, <2>7, <2>8 DEF ObjectNext, Step
<1>4. QED
  BY <1>1, <1>2, <1>3, TypesByParts DEF ObjectInv

LEMMA ObjectInvStep ==
  ASSUME ObjectInv, [ObjectNext]_objectVars
  PROVE  ObjectInv'
<1>1. CASE UNCHANGED objectVars
  BY <1>1 DEF ObjectInv, ObjectTypeOK, OpenInv, objectVars
<1>2. QED
  BY <1>1, StepKeepsInv

LEMMA ObjectInvHolds == ObjectSpec => []ObjectInv
BY ObjectInitInv, ObjectInvStep, PTL DEF ObjectSpec

\* For any number of buttons and places, the object stays well typed, and a
\* disabled one calls nobody.
THEOREM ObjectTypeCorrect == ObjectSpec => []ObjectTypeOK
BY ObjectInvHolds, PTL DEF ObjectInv

\* However the application enables, moves and disconnects an object and
\* whatever buttons are used, onPress is not called twice without a release
\* between, and the callbacks for a pressed object come after a press.
THEOREM PressesComeInPairs == ObjectSpec => PressesPair
<1>1. ASSUME ObjectInv, [ObjectNext]_objectVars
      PROVE  [ /\ "onPress" \in object'.calls => ~ open
               /\ {"onDragOutside", "onReleaseOutside"} \cap object'.calls # {} => open
             ]_objectVars
  <2>1. CASE ObjectNext
    BY <1>1, <2>1, StepKeepsInv DEF CallsFit, ObjectInv, OpenInv
  <2>2. QED
    BY <1>1, <2>1
<1>2. QED
  BY <1>1, ObjectInvHolds, PTL DEF ObjectSpec, PressesPair

-----------------------------------------------------------------------------
(* The two flags.                                                          *)

\* The object is down while a button is held that was pressed over it.
LEMMA DownStep ==
  ASSUME ObjectInv, DownIsHeld, [ObjectNext]_objectVars
  PROVE  DownIsHeld'
<1>1. /\ missed \in BOOLEAN /\ object.enabled \in BOOLEAN /\ object.mouseDown \in BOOLEAN
      /\ pressedOn \subseteq held
  BY TypesByParts DEF ObjectInv, IsTyped, Objects, RestTypeOK
<1>2. CASE \E b \in Buttons : Press(b)
  <2>1. PICK b \in Buttons : Press(b)
    BY <1>2
  <2>2. /\ object'.mouseDown = (object.mouseDown \/ (Hears /\ HitTest(object, mouse)))
        /\ missed' = (missed \/ ~ Hears)
        /\ pressedOn' = IF Hears /\ HitTest(object, mouse) THEN pressedOn \cup {b} ELSE pressedOn
    BY <2>1, PressStep DEF Press
  <2>3. QED
    BY <1>1, <2>2 DEF DownIsHeld
<1>3. CASE \E b \in Buttons : Release(b)
  <2>1. PICK b \in Buttons : Release(b)
    BY <1>3
  <2>2. object'.mouseDown = (object.mouseDown /\ ~ Hears) /\ missed' = (missed \/ ~ Hears)
    BY <2>1, ReleaseStep DEF Release
  <2>3. QED
    BY <1>1, <2>2 DEF DownIsHeld
<1>4. CASE \/ \E p \in Points : Motion(p)
           \/ \E x \in Places : SetPos(x)
           \/ \E b \in BOOLEAN : SetEnabled(b) \/ SetListening(b)
           \/ Update
  <2>1. UNCHANGED object.mouseDown
    BY <1>4, MotionStep, SetStep, UpdateStep
  <2>2. UNCHANGED <<missed, pressedOn>>
    BY <1>4 DEF Motion, SetPos, SetEnabled, SetListening, Update, mouseVars
  <2>3. QED
    BY <2>1, <2>2 DEF DownIsHeld
<1>5. CASE UNCHANGED objectVars
  BY <1>5 DEF DownIsHeld, objectVars
<1>6. QED
  BY <1>2, <1>3, <1>4, <1>5 DEF ObjectNext, Step

\* The flag of the mouse depends on the place of the object alone.
LEMMA HitTestByPlace ==
  ASSUME NEW o, NEW n, n.x = o.x, NEW p
  PROVE  HitTest(n, p) = HitTest(o, p)
BY DEF HitTest

\* An object is moved once at most before it looks again: moved away and back,
\* with a motion between, it would not notice.
LEMMA PlaceStep ==
  ASSUME MaxMoves <= 1, ObjectInv, PlaceInv, [ObjectNext]_objectVars
  PROVE  PlaceInv'
<1>1. /\ IsTyped(object) /\ mouse \in Points /\ moves \in 0 .. MaxMoves /\ MaxMoves \in Nat
      /\ Points \subseteq Nat /\ Places \subseteq Nat
      /\ object.enabled \in BOOLEAN /\ object.mouseOver \in BOOLEAN
  BY TypesByParts, MaxMovesAssumption, PointsAssumption, PlacesAssumption
     DEF ObjectInv, IsTyped, Objects, RestTypeOK
<1>2. ASSUME NEW p \in Points, Motion(p) PROVE PlaceInv'
  <2>1. /\ UNCHANGED <<object.x, object.oldRect, moves>> /\ mouse' = p
        /\ told' = IF Hears THEN p ELSE NoPoint
        /\ Hears => object'.mouseX = p /\ object'.mouseOver = HitTest(object, p)
    BY <1>2, MotionStep DEF Motion
  <2>2. Hears \/ told' # mouse'
    BY <1>1, <2>1 DEF NoPoint
  <2>3. HitTest(object', p) = HitTest(object, p)
    BY <2>1, HitTestByPlace
  <2>4. told' = mouse' => /\ object'.mouseX = mouse'
                          /\ object'.mouseOver = HitTest(object', mouse')
    BY <2>1, <2>2, <2>3
  <2>5. QED
    BY <2>1, <2>4 DEF PlaceInv, OverFollowsObject
<1>3. ASSUME NEW b \in Buttons, Press(b) \/ Release(b) PROVE PlaceInv'
  <2>1. /\ UNCHANGED <<object.x, object.oldRect, object.mouseOver, moves, mouse, told>>
        /\ object'.mouseX = IF Hears THEN mouse ELSE object.mouseX
    BY <1>3, PressStep, ReleaseStep DEF Press, Release
  <2>2. HitTest(object', mouse) = HitTest(object, mouse)
    BY <2>1, HitTestByPlace
  <2>3. QED
    BY <2>1, <2>2 DEF PlaceInv, OverFollowsObject
<1>4. CASE \/ \E x \in Places : SetPos(x)
           \/ \E b \in BOOLEAN : SetEnabled(b) \/ SetListening(b)
  <2>1. /\ UNCHANGED <<object.oldRect, object.mouseX, object.mouseOver, mouse, told>>
        /\ moves' = moves => object'.x = object.x
        /\ IsTyped(object')
        /\ moves' = moves \/ (moves = 0 /\ moves' = 1)
    BY <1>1, <1>4, SetStep DEF SetPos, SetEnabled, SetListening, mouseVars
  <2>2. object'.x = object.x => HitTest(object', mouse) = HitTest(object, mouse)
    BY HitTestByPlace
  <2>3. CASE moves' = moves
    BY <2>1, <2>2, <2>3 DEF PlaceInv, OverFollowsObject
  <2>4. CASE moves = 0 /\ moves' = 1
    <3>1. object'.oldRect = object'.x => object'.x = object.x
      <4>1. object'.x # NoRect
        BY <1>1, <2>1 DEF IsTyped, NoRect
      <4>2. QED
        BY <2>1, <2>4, <4>1 DEF PlaceInv
    <3>2. QED
      BY <2>1, <2>2, <2>4, <3>1 DEF PlaceInv, OverFollowsObject
  <2>5. QED
    BY <2>1, <2>3, <2>4
<1>5. CASE Update
  <2>1. /\ UNCHANGED <<object.x, object.mouseX, object.mouseDown, object.enabled, mouse, told>>
        /\ object'.oldRect = IF object.enabled THEN object.x ELSE object.oldRect
        /\ object'.mouseOver = IF NeedsMouseEvent(object) THEN HitTest(object, object.mouseX)
                               ELSE object.mouseOver
        /\ moves' = IF object.enabled THEN 0 ELSE moves
    BY <1>5, UpdateStep DEF Update, mouseVars
  <2>2. HitTest(object', mouse) = HitTest(object, mouse)
    BY <2>1, HitTestByPlace
  <2>3. told' = mouse' => object'.mouseX = mouse'
    BY <2>1 DEF PlaceInv
  <2>4. moves' = 0 => object'.oldRect \in {object'.x, NoRect}
    BY <1>1, <2>1 DEF PlaceInv
  <2>5. OverFollowsObject'
    BY <1>1, <2>1, <2>2 DEF PlaceInv, OverFollowsObject, NeedsMouseEvent
  <2>6. QED
    BY <2>3, <2>4, <2>5 DEF PlaceInv
<1>6. CASE UNCHANGED objectVars
  <2>1. UNCHANGED <<object, mouse, told, moves>>
    BY <1>6 DEF objectVars
  <2>2. QED
    BY <2>1 DEF PlaceInv, OverFollowsObject, HitTest
<1>7. QED
  BY <1>2, <1>3, <1>4, <1>5, <1>6 DEF ObjectNext, Step

\* An object that got every press and release is down only under a button that
\* was pressed over it, for any number of buttons in any order.
THEOREM DownOnlyUnderButton == ObjectSpec => []DownIsHeld
<1>1. ObjectInv /\ DownIsHeld /\ [ObjectNext]_objectVars => DownIsHeld'
  BY DownStep
<1>2. QED
  BY <1>1, ObjectInitInv, ObjectInvHolds, PTL DEF ObjectSpec

\* The flags say no more than they can know: the object is down only while it
\* is held, and the flag of the mouse is that of the place the object was
\* moved to under it, if it is moved once at most between two looks.
THEOREM FlagsStaySound == MaxMoves <= 1 => (ObjectSpec => []FlagsAreSound)
<1> SUFFICES ASSUME MaxMoves <= 1 PROVE ObjectSpec => []FlagsAreSound
  OBVIOUS
<1>1. ObjectInv /\ PlaceInv /\ [ObjectNext]_objectVars => PlaceInv'
  BY PlaceStep
<1>2. PlaceInv /\ DownIsHeld => FlagsAreSound
  BY DEF PlaceInv, FlagsAreSound
<1>3. QED
  BY <1>1, <1>2, ObjectInitInv, ObjectInvHolds, DownOnlyUnderButton, PTL DEF ObjectSpec

-----------------------------------------------------------------------------
(* The button.                                                             *)

ButtonTypes == {value, oldValue, momentary, keyDown, notified, written, escaped} \subseteq BOOLEAN

\* What is in the variable was written by the button, ...
WrittenInv == value => oldValue /\ written

\* ... and a momentary button that has written TRUE last is held by a button
\* of the mouse or by its key, unless a release escaped it.
HoldInv ==
  momentary /\ written /\ oldValue => escaped \/ held # {} \/ keyDown

ButtonInv == ObjectInv /\ ButtonTypes /\ WrittenInv /\ HoldInv

LEMMA ButtonInitInv == ButtonInit => ButtonInv
BY ObjectInitInv DEF ButtonInit, ButtonInv, ButtonTypes, WrittenInv, HoldInv

\* onPress is called by a button that goes down, and a release that was not
\* heard is one that escaped.
LEMMA MouseCalls ==
  ASSUME ObjectInv, ObjectNext
  PROVE  /\ "onPress" \in object'.calls => held' # {} /\ "onRelease" \notin object'.calls
         /\ held' = {} /\ held # {} => \/ "onRelease" \in object'.calls
                                       \/ \E b \in Buttons : Escapes(b)
<1>1. CallsFit
  BY StepKeepsInv
<1>2. "onPress" \in object'.calls => "onRelease" \notin object'.calls
  BY <1>1 DEF CallsFit
<1>3. ASSUME NEW b \in Buttons, Press(b) PROVE held' # {}
  BY <1>3 DEF Press
<1>4. ASSUME NEW b \in Buttons, Release(b)
      PROVE  /\ "onPress" \notin object'.calls
             /\ b \in held \ held'
  BY <1>1, <1>4, ReleaseStep DEF CallsFit, Release
<1>5. ASSUME \/ \E p \in Points : Motion(p)
             \/ \E x \in Places : SetPos(x)
             \/ \E b \in BOOLEAN : SetEnabled(b) \/ SetListening(b)
             \/ Update
      PROVE  /\ "onPress" \notin object'.calls
             /\ held' = held
  <2>1. UNCHANGED object.mouseDown
    BY <1>5, MotionStep, SetStep, UpdateStep
  <2>2. UNCHANGED held
    BY <1>5 DEF Motion, SetPos, SetEnabled, SetListening, Update, mouseVars
  <2>3. QED
    BY <1>1, <2>1, <2>2 DEF CallsFit
<1>6. QED
  BY <1>2, <1>3, <1>4, <1>5 DEF ObjectNext, Step, Escapes

\* set() and the toggle, on a button that is typed.
LEMMA WritesKeepTypes ==
  ASSUME ButtonTypes, WrittenInv, Same \/ OnPress \/ OnRelease
  PROVE  /\ {value', oldValue', notified', written'} \subseteq BOOLEAN
         /\ value' => oldValue' /\ written'
BY DEF ButtonTypes, WrittenInv, Same, OnPress, OnRelease, Set, Toggle

\* A step of the keys or the application leaves the object, and calls nobody.
LEMMA QuietKeeps ==
  ASSUME ObjectInv, object' = Quiet(object),
         UNCHANGED <<listening, mouse, held, moves, pressedOn, missed, told, open>>
  PROVE  ObjectInv' /\ object'.calls = {}
<1>1. IsTyped(object) /\ RestTypeOK /\ object \in Objects
  BY TypesByParts DEF ObjectInv, IsTyped
<1>2. IsTyped(object') /\ object'.mouseDown = object.mouseDown /\ object'.calls = {}
  BY <1>1, QuietFields DEF IsTyped
<1>3. RestTypeOK'
  BY <1>1 DEF RestTypeOK
<1>4. QED
  BY <1>2, <1>3, TypesByParts DEF ObjectInv, OpenInv

LEMMA ButtonStep ==
  ASSUME ButtonInv, [ButtonNext]_buttonVars
  PROVE  ButtonInv'
<1>1. ObjectInv /\ ButtonTypes /\ WrittenInv /\ HoldInv
  BY DEF ButtonInv
<1>2. CASE MouseStep
  <2>1. ObjectInv' /\ ObjectNext
    BY <1>1, <1>2, StepKeepsInv DEF MouseStep
  <2>2. Same \/ OnPress \/ OnRelease
    BY <1>2 DEF MouseStep, Called
  <2>3. ButtonTypes' /\ WrittenInv'
    BY <1>1, <1>2, <2>2, WritesKeepTypes DEF ButtonTypes, WrittenInv, MouseStep
  <2>4. HoldInv'
    <3>1. CASE "onPress" \in object'.calls
      <4>1. held' # {}
        BY <1>1, <2>1, <3>1, MouseCalls
      <4>2. QED
        BY <4>1 DEF HoldInv
    <3>2. CASE "onRelease" \in object'.calls
      <4>1. OnRelease
        BY <1>1, <1>2, <2>1, <3>2, MouseCalls DEF MouseStep, Called
      <4>2. momentary => ~ oldValue'
        BY <1>1, <4>1 DEF OnRelease, Set, Same, ButtonTypes
      <4>3. QED
        BY <1>2, <4>2 DEF HoldInv, MouseStep
    <3>3. CASE "onPress" \notin object'.calls /\ "onRelease" \notin object'.calls
      <4>1. Same /\ UNCHANGED <<momentary, keyDown>>
            /\ escaped' = (escaped \/ \E b \in Buttons : Escapes(b))
        BY <1>2, <3>3 DEF MouseStep, Called
      <4>2. held' # {} \/ held = {} \/ escaped'
        BY <1>1, <2>1, <3>3, <4>1, MouseCalls
      <4>3. QED
        BY <1>1, <4>1, <4>2 DEF HoldInv, Same
    <3>4. QED
      BY <3>1, <3>2, <3>3
  <2>5. QED
    BY <2>1, <2>3, <2>4 DEF ButtonInv
<1>3. CASE KeyPressed \/ KeyReleased \/ Consume
  <2>1. KeysOnly /\ ObjectInv'
    <3>1. KeysOnly
      BY <1>3 DEF KeyPressed, KeyReleased, Consume
    <3>2. QED
      BY <1>1, <3>1, QuietKeeps DEF KeysOnly
  <2>2. CASE Consume
    <3>1. /\ value' = FALSE /\ notified' = FALSE
          /\ UNCHANGED <<oldValue, keyDown, written, escaped, momentary, held>>
      BY <2>1, <2>2 DEF Consume, KeysOnly
    <3>2. ButtonTypes' /\ WrittenInv' /\ HoldInv'
      BY <1>1, <3>1 DEF ButtonTypes, WrittenInv, HoldInv
    <3>3. QED
      BY <2>1, <3>2 DEF ButtonInv
  <2>3. CASE KeyPressed
    <3>1. (Same \/ OnPress) /\ keyDown' = TRUE /\ UNCHANGED <<momentary, escaped>>
      BY <2>3 DEF KeyPressed, KeysOnly
    <3>2. ButtonTypes' /\ WrittenInv'
      BY <1>1, <3>1, WritesKeepTypes DEF ButtonTypes, WrittenInv
    <3>3. QED
      BY <2>1, <3>1, <3>2 DEF ButtonInv, HoldInv
  <2>4. CASE KeyReleased
    <3>1. /\ Same \/ OnRelease
          /\ keyDown' = FALSE /\ UNCHANGED momentary
          /\ escaped' \in BOOLEAN
          /\ ~ escaped' => OnRelease
      BY <2>4 DEF KeyReleased, KeysOnly
    <3>2. ButtonTypes' /\ WrittenInv'
      BY <1>1, <3>1, WritesKeepTypes DEF ButtonTypes, WrittenInv
    <3>3. momentary /\ ~ escaped' => ~ oldValue'
      BY <1>1, <3>1 DEF OnRelease, Set, Same, ButtonTypes
    <3>4. QED
      BY <2>1, <3>1, <3>2, <3>3 DEF ButtonInv, HoldInv
  <2>5. QED
    BY <1>3, <2>2, <2>3, <2>4
<1>4. CASE UNCHANGED buttonVars
  <2>1. ObjectInv' /\ UNCHANGED <<held, value, oldValue, momentary, keyDown, notified, written, escaped>>
    BY <1>1, <1>4 DEF buttonVars, objectVars, ObjectInv, ObjectTypeOK, OpenInv
  <2>2. QED
    BY <1>1, <2>1 DEF ButtonInv, ButtonTypes, WrittenInv, HoldInv
<1>5. QED
  BY <1>2, <1>3, <1>4 DEF ButtonNext

LEMMA ButtonInvHolds == ButtonSpec => []ButtonInv
BY ButtonInitInv, ButtonStep, PTL DEF ButtonSpec

LEMMA ButtonIsTyped == ButtonInv => ObjectTypeOK /\ ButtonTypeOK
BY DEF ButtonInv, ObjectInv, ButtonTypes, WrittenInv, ButtonTypeOK

LEMMA ButtonLetsGo == ButtonInv => MomentaryLetsGo
BY DEF ButtonInv, WrittenInv, HoldInv, MomentaryLetsGo

\* For any number of buttons, what a button has in the variable it wrote.
THEOREM ButtonTypeCorrect == ButtonSpec => [](ObjectTypeOK /\ ButtonTypeOK)
BY ButtonIsTyped, ButtonInvHolds, PTL

\* However the mouse, the key and the application take turns, a momentary
\* button that nobody holds is off, unless a release did not reach it.
THEOREM MomentaryButtonLetsGo == ButtonSpec => []MomentaryLetsGo
BY ButtonLetsGo, ButtonInvHolds, PTL

\* A momentary button at rest has not written TRUE last.
LEMMA PressStepTakesEffect ==
  ASSUME ButtonInv, [ButtonNext]_buttonVars
  PROVE  [ /\ written /\ ~ escaped /\ held = {} /\ ~ keyDown
           /\ momentary /\ "onPress" \in object'.calls
           => value' /\ notified' ]_buttonVars
<1> SUFFICES ASSUME ButtonNext, written, ~ escaped, held = {}, ~ keyDown, momentary,
                    "onPress" \in object'.calls
             PROVE  value' /\ notified'
  OBVIOUS
<1>1. MouseStep
  <2>1. ASSUME KeysOnly PROVE FALSE
    <3>1. object \in Objects
      BY TypesByParts DEF ButtonInv, ObjectInv, IsTyped
    <3>2. object'.calls = {}
      BY <2>1, <3>1, QuietFields DEF KeysOnly
    <3>3. QED
      BY <3>2
  <2>2. QED
    BY <2>1 DEF ButtonNext, KeyPressed, KeyReleased, Consume
<1>2. Set(TRUE)
  BY <1>1 DEF MouseStep, Called, OnPress
<1>3. ~ oldValue /\ oldValue \in BOOLEAN
  BY DEF ButtonInv, HoldInv, ButtonTypes
<1>4. QED
  BY <1>2, <1>3 DEF Set

\* A press of a momentary button at rest switches it on and is notified,
\* unless a release escaped the button before: it compares with what it wrote.
THEOREM PressesTakeEffect == ButtonSpec => PressTakesEffect
BY PressStepTakesEffect, ButtonInvHolds, PTL DEF ButtonSpec, PressTakesEffect

-----------------------------------------------------------------------------
(* The sliders.                                                            *)

CONSTANTS Low, High

VARIABLES number, oldNumber, pct, lock, point, steady, behind

Slider == INSTANCE SliderControl WITH value <- number, oldValue <- oldNumber

\* The interactive object of a slider is the interactive object.
LEMMA SliderIsObject ==
  /\ Slider!ObjectInit <=> ObjectInit
  /\ Slider!ObjectNext <=> ObjectNext
  /\ Slider!ObjectTypeOK <=> ObjectTypeOK
BY DEF Slider!ObjectInit, ObjectInit, Slider!NewObject, NewObject,
       Slider!ObjectNext, ObjectNext, Slider!Step, Step, Slider!Record, Record,
       Slider!Motion, Motion, Slider!Press, Press, Slider!Release, Release,
       Slider!SetPos, SetPos, Slider!SetEnabled, SetEnabled, Slider!SetListening, SetListening,
       Slider!Update, Update, Slider!Deliver, Deliver, Slider!Hears, Hears,
       Slider!MouseMoved, MouseMoved, Slider!MouseDragged, MouseDragged,
       Slider!MousePressed, MousePressed, Slider!MouseReleased, MouseReleased,
       Slider!ObjectUpdated, ObjectUpdated, Slider!NeedsMouseEvent, NeedsMouseEvent,
       Slider!HitTest, HitTest, Slider!Quiet, Quiet, Slider!Callbacks, Callbacks,
       Slider!NoRect, NoRect, Slider!NoPoint, NoPoint, Slider!mouseVars, mouseVars,
       Slider!ObjectTypeOK, ObjectTypeOK

\* The code's assumption on the range of a slider.
IsRange == Low \in Int /\ High \in Int /\ Low < High

SliderTypes ==
  /\ number \in Low .. High /\ oldNumber \in Low .. High
  /\ behind \in BOOLEAN /\ lock \in BOOLEAN
  /\ behind \/ number = oldNumber
  /\ pct \in Int /\ steady \in 0 .. 2 /\ point \in Points \cup Places

\* What a slider shows of the mouse.
Shown == Slider!Clamped(Slider!Mapped(object.mouseX - object.x))

\* An event that finds the bar in place shows the mouse; an event that does
\* not brings the bar back, so that the next one does.
FollowInv ==
  /\ steady >= 1 => pct <= Width \/ oldNumber = Shown
  /\ steady = 2 => oldNumber = Shown

\* The press locks the other slider, and under one button the mouse does not
\* move unheard while it is held.
LockInv ==
  /\ object.mouseDown => lock
  /\ object.mouseDown /\ ~ missed => point = object.mouseX

SliderInv == ObjectInv /\ SliderTypes

\* Division gives an integer, and the clamp one in the range.
LEMMA ShownInRange ==
  ASSUME IsRange, NEW p \in Int
  PROVE  Slider!Clamped(Slider!Mapped(p)) \in Low .. High
<1>1. /\ p * (High - Low) \in Int /\ Width \in Nat /\ Width > 0
      /\ Low \in Int /\ High \in Int /\ Low < High
  BY WidthAssumption DEF IsRange
<1>2. ASSUME NEW n \in Int PROVE n \div Width \in Int
  BY <1>1
<1> DEFINE pixels == Low * Width + p * (High - Low)
<1>3. pixels \in Int /\ - pixels \in Int
  BY <1>1
<1> HIDE DEF pixels
<1>4. (IF pixels >= 0 THEN pixels \div Width ELSE - (- pixels \div Width)) \in Int
  BY <1>2, <1>3
<1>5. QED
  BY <1>1, <1>4 DEF Slider!Clamped, Slider!Mapped, pixels

LEMMA SliderInitInv ==
  ASSUME IsRange, Slider!SliderInit
  PROVE  SliderInv /\ FollowInv /\ LockInv /\ DownIsHeld
<1>1. ObjectInit
  BY SliderIsObject DEF Slider!SliderInit
<1>2. ObjectInv /\ DownIsHeld /\ object.x \in Places
  BY <1>1, ObjectInitInv, TypesByParts DEF ObjectInv, IsTyped
<1>3. ~ object.mouseDown
  BY <1>1 DEF ObjectInit, NewObject
<1>4. pct \in Int
  <2>1. /\ pct = ((number - Low) * Width) \div (High - Low)
        /\ (number - Low) * Width \in Int /\ High - Low \in Nat /\ High - Low > 0
    BY WidthAssumption DEF Slider!SliderInit, IsRange
  <2>2. QED
    BY <2>1
<1>5. /\ number \in Low .. High /\ oldNumber = number /\ point = object.x
      /\ lock = FALSE /\ behind = FALSE /\ steady = 0
  BY DEF Slider!SliderInit
<1>6. SliderTypes
  <2>1. behind \in BOOLEAN /\ lock \in BOOLEAN
    BY <1>5
  <2>2. number \in Low .. High /\ oldNumber \in Low .. High /\ number = oldNumber
    BY <1>5
  <2>3. point \in Points \cup Places
    BY <1>2, <1>5
  <2>4. steady \in 0 .. 2
    BY <1>5
  <2>5. QED
    BY <1>4, <2>1, <2>2, <2>3, <2>4 DEF SliderTypes
<1>7. FollowInv /\ LockInv
  BY <1>3, <1>5 DEF FollowInv, LockInv
<1>8. QED
  BY <1>2, <1>6, <1>7 DEF SliderInv

\* An object that the application does not move stays where it is.
LEMMA StaysInPlace ==
  ASSUME MaxMoves = 0, ObjectInv, ObjectNext
  PROVE  object'.x = object.x
<1>1. moves = 0
  BY TypesByParts DEF ObjectInv, RestTypeOK
<1>2. ~ \E x \in Places : SetPos(x)
  BY <1>1 DEF SetPos
<1>3. ASSUME \E b \in BOOLEAN : SetEnabled(b) \/ SetListening(b)
      PROVE  object'.x = object.x
  BY <1>3, SetStep DEF SetEnabled, SetListening
<1>4. QED
  BY <1>2, <1>3, MotionStep, PressStep, ReleaseStep, UpdateStep DEF ObjectNext, Step

\* updateSlider(), on a bar that is in place and on one that is not.
LEMMA UpdateSliderKeeps ==
  ASSUME IsRange, SliderTypes, ObjectInv, NEW p \in Points, Slider!UpdateSlider(p)
  PROVE  LET shown == Slider!Clamped(Slider!Mapped(p - object.x))
         IN  /\ number' \in Low .. High /\ oldNumber' \in Low .. High
             /\ behind' \in BOOLEAN /\ pct' \in Int
             /\ behind' \/ number' = oldNumber'
             /\ pct > Width => pct' <= Width /\ oldNumber' = oldNumber
             /\ pct <= Width => oldNumber' = shown
<1> DEFINE shown == Slider!Clamped(Slider!Mapped(p - object.x))
<1>1. /\ object.x \in Int /\ p \in Int /\ p - object.x \in Int /\ Width \in Nat
      /\ pct \in Int /\ behind \in BOOLEAN
  BY WidthAssumption, PointsAssumption, TypesByParts
     DEF ObjectInv, IsTyped, Objects, SliderTypes
<1>2. shown \in Low .. High
  BY <1>1, ShownInRange
<1>3. CASE pct > Width
  BY <1>1, <1>3 DEF Slider!UpdateSlider, SliderTypes
<1>4. CASE pct <= Width
  <2>1. /\ pct' = p - object.x /\ oldNumber' = shown
        /\ number' = IF oldNumber # shown THEN shown ELSE number
        /\ behind' = (behind /\ oldNumber = shown)
    BY <1>1, <1>4 DEF Slider!UpdateSlider
  <2> HIDE DEF shown
  <2>2. QED
    BY <1>1, <1>2, <1>4, <2>1 DEF SliderTypes, shown
<1>5. QED
  BY <1>1, <1>3, <1>4

LEMMA SliderTypeStep ==
  ASSUME IsRange, SliderInv, [Slider!SliderNext]_(Slider!sliderVars)
  PROVE  SliderInv'
<1>1. ObjectInv /\ SliderTypes
  BY DEF SliderInv
<1>2. CASE Slider!MouseStep
  <2>1. ObjectInv' /\ object'.mouseX \in Points /\ lock \in BOOLEAN /\ steady \in 0 .. 2
    BY <1>1, <1>2, SliderIsObject, StepKeepsInv, TypesByParts
       DEF Slider!MouseStep, ObjectInv, IsTyped, SliderTypes
  <2>2. lock' \in BOOLEAN /\ point' \in Points \cup Places
    BY <1>1, <1>2, <2>1 DEF Slider!MouseStep, Slider!Grab, SliderTypes
  <2>3. CASE Slider!Heard \cap object'.calls = {}
    BY <1>1, <1>2, <2>1, <2>2, <2>3 DEF Slider!MouseStep, Slider!Slider, SliderInv, SliderTypes
  <2>4. CASE Slider!Heard \cap object'.calls # {}
    <3>1. Slider!UpdateSlider(object'.mouseX)
      BY <1>2, <2>4 DEF Slider!MouseStep, Slider!Slider
    <3>2. steady' \in 0 .. 2
      BY <1>2, <2>1, <2>4 DEF Slider!MouseStep, Slider!Slider
    <3>3. QED
      BY <1>1, <2>1, <2>2, <3>1, <3>2, UpdateSliderKeeps DEF SliderInv, SliderTypes
  <2>5. QED
    BY <2>3, <2>4
<1>3. CASE \E v \in Low .. High : Slider!Write(v)
  <2>1. ObjectInv'
    BY <1>1, <1>3, QuietKeeps DEF Slider!Write, Slider!Quiet, Quiet
  <2>2. QED
    BY <1>1, <1>3, <2>1 DEF Slider!Write, SliderInv, SliderTypes
<1>4. CASE UNCHANGED Slider!sliderVars
  <2>1. UNCHANGED <<objectVars, number, oldNumber, pct, lock, point, steady, behind>>
    BY <1>4 DEF Slider!sliderVars, Slider!objectVars, objectVars
  <2>2. ObjectInv'
    BY <1>1, <2>1 DEF objectVars, ObjectInv, ObjectTypeOK, OpenInv
  <2>3. QED
    BY <1>1, <2>1, <2>2 DEF SliderInv, SliderTypes
<1>5. QED
  BY <1>2, <1>3, <1>4 DEF Slider!SliderNext

LEMMA FollowStep ==
  ASSUME IsRange, MaxMoves = 0, SliderInv, FollowInv, [Slider!SliderNext]_(Slider!sliderVars)
  PROVE  FollowInv'
<1>1. ObjectInv /\ SliderTypes /\ steady \in 0 .. 2 /\ pct \in Int /\ Width \in Nat
  BY WidthAssumption DEF SliderInv, SliderTypes
<1>2. CASE Slider!MouseStep
  <2>1. ObjectNext /\ object'.x = object.x /\ object'.mouseX \in Points
    <3>1. ObjectNext
      BY <1>2, SliderIsObject DEF Slider!MouseStep
    <3>2. QED
      BY <1>1, <3>1, StaysInPlace, StepKeepsInv, TypesByParts DEF ObjectInv, IsTyped
  <2>2. CASE Slider!Heard \cap object'.calls = {}
    BY <1>2, <2>2 DEF Slider!MouseStep, Slider!Slider, FollowInv
  <2>3. CASE Slider!Heard \cap object'.calls # {}
    <3>1. /\ Slider!UpdateSlider(object'.mouseX)
          /\ steady' = IF object'.mouseX # object.mouseX THEN 1
                       ELSE IF steady < 2 THEN steady + 1 ELSE steady
      BY <1>2, <2>3 DEF Slider!MouseStep, Slider!Slider
    <3>2. Shown' = Slider!Clamped(Slider!Mapped(object'.mouseX - object.x))
      BY <2>1 DEF Shown, Slider!Clamped, Slider!Mapped
    <3>3. /\ pct > Width => pct' <= Width /\ oldNumber' = oldNumber
          /\ pct <= Width => oldNumber' = Shown'
      BY <1>1, <2>1, <3>1, <3>2, UpdateSliderKeeps
    <3>4. object'.mouseX = object.mouseX => Shown' = Shown
      BY <2>1 DEF Shown, Slider!Clamped, Slider!Mapped
    <3>5. steady' = 2 => steady >= 1 /\ object'.mouseX = object.mouseX
      BY <1>1, <3>1
    <3> HIDE DEF Shown
    <3>6. QED
      BY <1>1, <3>3, <3>4, <3>5 DEF FollowInv
  <2>4. QED
    BY <2>2, <2>3
<1>3. CASE \E v \in Low .. High : Slider!Write(v)
  <2>1. /\ object' = Quiet(object) /\ UNCHANGED <<oldNumber, pct, steady>>
    BY <1>3 DEF Slider!Write, Slider!Quiet, Quiet
  <2>2. UNCHANGED <<object.x, object.mouseX>>
    BY <1>1, <2>1, QuietFields, TypesByParts DEF ObjectInv, IsTyped
  <2>3. QED
    BY <2>1, <2>2 DEF FollowInv, Shown, Slider!Clamped, Slider!Mapped
<1>4. CASE UNCHANGED Slider!sliderVars
  <2>1. UNCHANGED <<object, oldNumber, pct, steady>>
    BY <1>4 DEF Slider!sliderVars, Slider!objectVars
  <2>2. QED
    BY <2>1 DEF FollowInv, Shown, Slider!Clamped, Slider!Mapped
<1>5. QED
  BY <1>2, <1>3, <1>4 DEF Slider!SliderNext

\* The other slider.  A second button would move the mouse of an object that
\* was disabled while the mouse moved, and call nobody.
LEMMA LockStep ==
  ASSUME \A b, c \in Buttons : b = c,
         SliderInv, LockInv, DownIsHeld, [Slider!SliderNext]_(Slider!sliderVars)
  PROVE  LockInv'
<1>1. /\ ObjectInv /\ lock \in BOOLEAN /\ missed \in BOOLEAN /\ pressedOn \subseteq held
      /\ held \subseteq Buttons /\ object.mouseDown \in BOOLEAN /\ object \in Objects
      /\ IsTyped(object) /\ mouse \in Points
  BY TypesByParts DEF SliderInv, SliderTypes, ObjectInv, RestTypeOK, IsTyped, Objects
<1>2. object.mouseDown /\ ~ missed => held # {}
  BY <1>1 DEF DownIsHeld
<1>3. CASE Slider!MouseStep
  <2>1. /\ ObjectNext
        /\ lock' = (lock \/ "onPress" \in object'.calls)
        /\ point' = IF lock' /\ {"onPress", "onDragOver", "onDragOutside"} \cap object'.calls # {}
                    THEN object'.mouseX ELSE point
    BY <1>3, SliderIsObject DEF Slider!MouseStep, Slider!Grab, Slider!Heard
  <2>2. CallsFit /\ object'.mouseDown \in BOOLEAN
    BY <1>1, <2>1, StepKeepsInv, TypesByParts DEF ObjectInv, IsTyped, Objects
  <2>3. object'.mouseDown => lock'
    BY <1>1, <2>1, <2>2 DEF LockInv, CallsFit
  <2>4. ASSUME object'.mouseDown, ~ missed' PROVE point' = object'.mouseX
    <3>1. CASE "onPress" \in object'.calls
      BY <2>1, <2>3, <2>4, <3>1
    <3>2. CASE "onPress" \notin object'.calls
      <4>1. object.mouseDown
        BY <2>2, <2>4, <3>2 DEF CallsFit
      <4>2. CASE \E p \in Points : Motion(p)
        <5>1. PICK p \in Points : Motion(p)
          BY <4>2
        <5>2. ~ missed /\ held # {} /\ point = object.mouseX
          BY <1>2, <2>4, <4>1, <5>1 DEF Motion, LockInv
        <5>3. CASE Hears
          <6>1. object' = MouseDragged(object, p)
            BY <5>1, <5>2, <5>3 DEF Motion, Deliver, Hears
          <6>2. {"onDragOver", "onDragOutside"} \cap object'.calls # {}
            BY <1>1, <4>1, <5>3, <6>1, DraggedFields, PointsAssumption DEF Hears
          <6>3. QED
            BY <2>1, <2>3, <2>4, <6>2
        <5>4. CASE ~ Hears
          <6>1. object'.mouseX = object.mouseX /\ object'.calls = {}
            <7>1. CASE listening
              BY <1>1, <5>1, <5>2, <5>4, <7>1, DraggedFields, PointsAssumption
                 DEF Motion, Deliver, Hears
            <7>2. CASE ~ listening
              BY <1>1, <5>1, <7>2, QuietFields DEF Motion, Deliver
            <7>3. QED
              BY <7>1, <7>2
          <6>2. QED
            BY <2>1, <5>2, <6>1
        <5>5. QED
          BY <5>3, <5>4
      <4>3. CASE \E b \in Buttons : Press(b)
        <5>1. PICK b \in Buttons : Press(b)
          BY <4>3
        <5>2. ~ missed
          BY <1>1, <2>4, <5>1 DEF Press
        <5>3. held # {} /\ b \notin held
          BY <1>2, <4>1, <5>1, <5>2 DEF Press
        <5>4. QED
          BY <1>1, <5>3
      <4>4. CASE \E b \in Buttons : Release(b)
        <5>1. PICK b \in Buttons : Release(b)
          BY <4>4
        <5>2. ~ Hears /\ missed'
          BY <1>1, <2>4, <5>1, ReleaseStep DEF Release
        <5>3. QED
          BY <2>4, <5>2
      <4>5. CASE \/ \E x \in Places : SetPos(x)
                 \/ \E b \in BOOLEAN : SetEnabled(b) \/ SetListening(b)
                 \/ Update
        <5>1. object'.mouseX = object.mouseX /\ missed' = missed
          BY <1>1, <4>5, SetStep, UpdateStep
             DEF SetPos, SetEnabled, SetListening, Update, mouseVars
        <5>2. QED
          BY <2>1, <2>4, <4>1, <5>1 DEF LockInv
      <4>6. QED
        BY <2>1, <4>2, <4>3, <4>4, <4>5 DEF ObjectNext, Step
    <3>3. QED
      BY <3>1, <3>2
  <2>5. QED
    BY <2>3, <2>4 DEF LockInv
<1>4. CASE \E v \in Low .. High : Slider!Write(v)
  <2>1. /\ object' = Quiet(object) /\ UNCHANGED <<lock, point, missed>>
    BY <1>4 DEF Slider!Write, Slider!Quiet, Quiet
  <2>2. UNCHANGED <<object.mouseDown, object.mouseX>>
    BY <1>1, <2>1, QuietFields
  <2>3. QED
    BY <2>1, <2>2 DEF LockInv
<1>5. CASE UNCHANGED Slider!sliderVars
  BY <1>5 DEF Slider!sliderVars, Slider!objectVars, LockInv
<1>6. QED
  BY <1>3, <1>4, <1>5 DEF Slider!SliderNext

\* The object of a slider makes the steps of an object, or calls nobody.
LEMMA SliderDownStep ==
  ASSUME SliderInv, DownIsHeld, [Slider!SliderNext]_(Slider!sliderVars)
  PROVE  DownIsHeld'
<1>1. CASE Slider!MouseStep
  BY <1>1, SliderIsObject, DownStep DEF SliderInv, Slider!MouseStep
<1>2. CASE \E v \in Low .. High : Slider!Write(v)
  <2>1. /\ object' = Quiet(object) /\ UNCHANGED <<missed, pressedOn>> /\ object \in Objects
    BY <1>2, TypesByParts
       DEF Slider!Write, Slider!Quiet, Quiet, SliderInv, ObjectInv, IsTyped
  <2>2. QED
    BY <2>1, QuietFields DEF DownIsHeld
<1>3. CASE UNCHANGED Slider!sliderVars
  BY <1>3 DEF Slider!sliderVars, Slider!objectVars, DownIsHeld
<1>4. QED
  BY <1>1, <1>2, <1>3 DEF Slider!SliderNext

\* What the invariants say of the properties.
LEMMA SliderIsTyped == SliderInv => ObjectTypeOK /\ Slider!SliderTypeOK
BY DEF SliderInv, ObjectInv, SliderTypes, Slider!SliderTypeOK

LEMMA SliderFollows == SliderInv /\ FollowInv => Slider!ValueFollowsMouse
BY DEF SliderInv, SliderTypes, FollowInv, Shown, Slider!ValueFollowsMouse

LEMMA PointFollows == LockInv => Slider!HeldPointFollows
BY DEF LockInv, Slider!HeldPointFollows

\* The value of a slider stays in its range, whatever is left or right of it,
\* and is what the slider wrote unless the application wrote it since.
THEOREM SliderTypeCorrect ==
  IsRange => (Slider!SliderSpec => [](ObjectTypeOK /\ Slider!SliderTypeOK))
<1> SUFFICES ASSUME IsRange
             PROVE  Slider!SliderSpec => [](ObjectTypeOK /\ Slider!SliderTypeOK)
  OBVIOUS
<1>1. Slider!SliderInit => SliderInv
  BY SliderInitInv
<1>2. SliderInv /\ [Slider!SliderNext]_(Slider!sliderVars) => SliderInv'
  BY SliderTypeStep
<1>3. QED
  BY <1>1, <1>2, SliderIsTyped, PTL DEF Slider!SliderSpec

\* A slider that does not move shows the place of the mouse after two events
\* there at the latest: one alone may be lost to the end of the last drag.
THEOREM SliderFollowsMouse ==
  IsRange /\ MaxMoves = 0 => (Slider!SliderSpec => []Slider!ValueFollowsMouse)
<1> SUFFICES ASSUME IsRange, MaxMoves = 0
             PROVE  Slider!SliderSpec => []Slider!ValueFollowsMouse
  OBVIOUS
<1>1. Slider!SliderInit => SliderInv /\ FollowInv
  BY SliderInitInv
<1>2. SliderInv /\ [Slider!SliderNext]_(Slider!sliderVars) => SliderInv'
  BY SliderTypeStep
<1>3. SliderInv /\ FollowInv /\ [Slider!SliderNext]_(Slider!sliderVars) => FollowInv'
  BY FollowStep
<1>4. QED
  BY <1>1, <1>2, <1>3, SliderFollows, PTL DEF Slider!SliderSpec

\* Under a mouse with one button the point of the other slider is where the
\* mouse is, as long as the press that took hold of it lasts.
THEOREM HeldPointStaysAtMouse ==
  IsRange /\ (\A b, c \in Buttons : b = c) => (Slider!SliderSpec => []Slider!HeldPointFollows)
<1> SUFFICES ASSUME IsRange, \A b, c \in Buttons : b = c
             PROVE  Slider!SliderSpec => []Slider!HeldPointFollows
  OBVIOUS
<1>1. Slider!SliderInit => SliderInv /\ LockInv /\ DownIsHeld
  BY SliderInitInv
<1>2. SliderInv /\ [Slider!SliderNext]_(Slider!sliderVars) => SliderInv'
  BY SliderTypeStep
<1>3. SliderInv /\ DownIsHeld /\ [Slider!SliderNext]_(Slider!sliderVars) => DownIsHeld'
  BY SliderDownStep
<1>4. SliderInv /\ LockInv /\ DownIsHeld /\ [Slider!SliderNext]_(Slider!sliderVars) => LockInv'
  BY LockStep
<1>5. QED
  BY <1>1, <1>2, <1>3, <1>4, PointFollows, PTL DEF Slider!SliderSpec

-----------------------------------------------------------------------------
(* The draggables.                                                         *)

CONSTANTS Start, Controls, Updates

VARIABLES saveX, draggable, drawn, grip

Drag == INSTANCE Draggable

LEMMA DragHandlers ==
  /\ Drag!Callbacks = Callbacks /\ Drag!NoRect = NoRect
  /\ \A x, g : Drag!NewObject(x, g) = NewObject(x, g)
  /\ \A o : /\ Drag!Quiet(o) = Quiet(o)
            /\ Drag!NeedsMouseEvent(o) = NeedsMouseEvent(o)
  /\ \A o, p : /\ Drag!HitTest(o, p) = HitTest(o, p)
               /\ Drag!MouseMoved(o, p) = MouseMoved(o, p)
               /\ Drag!MousePressed(o, p) = MousePressed(o, p)
               /\ Drag!MouseDragged(o, p) = MouseDragged(o, p)
               /\ Drag!MouseReleased(o, p) = MouseReleased(o, p)
BY DEF Drag!Callbacks, Callbacks, Drag!NoRect, NoRect, Drag!NewObject, NewObject,
       Drag!Quiet, Quiet, Drag!NeedsMouseEvent, NeedsMouseEvent, Drag!HitTest, HitTest,
       Drag!MouseMoved, MouseMoved, Drag!MousePressed, MousePressed,
       Drag!MouseDragged, MouseDragged, Drag!MouseReleased, MouseReleased

\* The click is saved where the hold is taken, and an object that is held is
\* down, which takes a button.
DragInv ==
  /\ object \in Objects /\ object.enabled /\ object.mouseX \in Points
  /\ saveX \in Int /\ draggable \in BOOLEAN /\ mouse \in Points /\ held \subseteq Buttons
  /\ grip \in Int /\ drawn \in Int
  /\ grip # 0 => object.mouseDown /\ saveX = grip
  /\ object.mouseDown => held # {}

\* Without controls a hold under the mouse has been carried out: another drag
\* to the same place would put the object where it is.
RestInv ==
  /\ draggable
  /\ grip # 0 => /\ object.mouseX = mouse
                 /\ HitTest(object, mouse) => object.x = mouse - saveX

\* What onDragOver does: the object is moved, or left where it is.
LEMMA DraggedMoves ==
  ASSUME NEW n \in Objects, NEW p \in Int, saveX \in Int
  PROVE  LET m == Drag!Dragged(n, p)
         IN  /\ m \in Objects
             /\ m.enabled = n.enabled /\ m.mouseX = n.mouseX /\ m.mouseDown = n.mouseDown
             /\ m.oldRect = n.oldRect
             /\ m.x = p - saveX \/ m.x = n.x
             /\ "onDragOver" \notin n.calls => m = n
             /\ "onDragOver" \in n.calls /\ draggable /\ Controls = {} => m.x = p - saveX
BY DEF Drag!Dragged, Drag!OnControl, Objects

\* A drag to p, by the mouse or made up by an update.
LEMMA DragStep ==
  ASSUME DragInv, NEW p \in Points
  PROVE  LET n == Drag!Dragged(MouseDragged(object, p), p)
         IN  /\ n \in Objects /\ n.enabled /\ n.mouseX = p /\ n.mouseDown = object.mouseDown
             /\ n.x = p - saveX \/ n.x = object.x
             /\ ~ HitTest(object, p) => n.x = object.x
             /\ HitTest(object, p) /\ draggable /\ Controls = {} => n.x = p - saveX
<1> DEFINE d == MouseDragged(object, p)
<1>1. object \in Objects /\ object.enabled /\ p \in Int /\ saveX \in Int
  BY PointsAssumption DEF DragInv
<1>2. /\ d \in Objects /\ d.enabled /\ d.x = object.x /\ d.mouseX = p
      /\ d.mouseDown = object.mouseDown
      /\ "onDragOver" \in d.calls <=> HitTest(object, p)
  BY <1>1, DraggedFields
<1> HIDE DEF d
<1>3. QED
  BY <1>1, <1>2, DraggedMoves DEF d

\* An update, with the event it makes up.
LEMMA DragUpdated ==
  ASSUME DragInv, Drag!Update
  PROVE  /\ object' \in Objects /\ object'.enabled /\ object'.mouseX = object.mouseX
         /\ object'.mouseDown = object.mouseDown
         /\ object'.x = object.mouseX - saveX \/ object'.x = object.x
         /\ object'.x # object.x => /\ object.mouseDown /\ HitTest(object, object.mouseX)
                                    /\ object'.x = object.mouseX - saveX
<1> DEFINE last == object.mouseX
           m == IF ~ NeedsMouseEvent(object) THEN Quiet(object)
                ELSE IF object.mouseDown THEN Drag!Dragged(MouseDragged(object, last), last)
                ELSE MouseMoved(object, last)
<1>1. object' = [m EXCEPT !.oldRect = m.x]
  BY DragHandlers DEF Drag!Update
<1>2. object \in Objects /\ object.enabled /\ last \in Points /\ last \in Int
      /\ object.mouseDown \in BOOLEAN
  BY PointsAssumption DEF DragInv, Objects
<1>3. /\ m \in Objects /\ m.enabled /\ m.mouseX = last /\ m.mouseDown = object.mouseDown
      /\ m.x = last - saveX \/ m.x = object.x
      /\ m.x # object.x => object.mouseDown /\ HitTest(object, last) /\ m.x = last - saveX
  <2>1. CASE ~ NeedsMouseEvent(object)
    BY <1>2, <2>1, QuietFields
  <2>2. CASE NeedsMouseEvent(object) /\ object.mouseDown
    <3>1. m = Drag!Dragged(MouseDragged(object, last), last)
      BY <2>2
    <3> HIDE DEF m, last
    <3>2. QED
      BY <1>2, <2>2, <3>1, DragStep
  <2>3. CASE NeedsMouseEvent(object) /\ ~ object.mouseDown
    <3>1. m = MouseMoved(object, last)
      BY <2>3
    <3> HIDE DEF m, last
    <3>2. QED
      BY <1>2, <2>3, <3>1, MovedFields
  <2>4. QED
    BY <2>1, <2>2, <2>3
<1> HIDE DEF m
<1>4. QED
  BY <1>1, <1>3 DEF Objects

LEMMA DragInitInv ==
  ASSUME Start \in Int, Drag!DragInit
  PROVE  DragInv /\ (Controls = {} => RestInv)
<1>1. PICK garbage \in Points : object = NewObject(Start, garbage)
  BY DragHandlers DEF Drag!DragInit
<1>2. object \in Objects /\ object.enabled /\ object.mouseX \in Points /\ ~ object.mouseDown
  BY <1>1, PointsAssumption DEF NewObject, Objects, NoRect, Callbacks
<1>3. /\ saveX \in Points /\ mouse \in Points /\ held = {} /\ drawn = 0 /\ grip = 0
      /\ draggable = (Controls = {})
  BY DEF Drag!DragInit, Drag!NoGrip
<1>4. draggable \in BOOLEAN /\ (Controls = {} => draggable)
  BY <1>3
<1>5. saveX \in Int /\ grip \in Int /\ drawn \in Int /\ held \subseteq Buttons
  BY <1>3, PointsAssumption
<1>6. QED
  BY <1>2, <1>3, <1>4, <1>5 DEF DragInv, RestInv

LEMMA DragInvStep ==
  ASSUME DragInv, [Drag!DragNext]_(Drag!dragVars)
  PROVE  DragInv'
<1>1. /\ object \in Objects /\ object.enabled /\ object.mouseX \in Points
      /\ saveX \in Int /\ draggable \in BOOLEAN /\ mouse \in Points /\ held \subseteq Buttons
      /\ mouse \in Int /\ object.x \in Int /\ object.mouseDown \in BOOLEAN
      /\ grip \in Int /\ drawn \in Int
  BY PointsAssumption DEF DragInv, Objects
<1>2. ASSUME NEW p \in Points, Drag!Motion(p) PROVE DragInv'
  <2>1. /\ object' = IF held = {} THEN MouseMoved(object, p)
                     ELSE Drag!Dragged(MouseDragged(object, p), p)
        /\ mouse' = p /\ UNCHANGED <<saveX, draggable, held, drawn, grip>> /\ p \in Int
    BY <1>2, DragHandlers, PointsAssumption DEF Drag!Motion
  <2>2. /\ object' \in Objects /\ object'.enabled /\ object'.mouseX = p
        /\ object'.mouseDown = object.mouseDown
    <3>1. CASE held = {}
      BY <1>1, <2>1, <3>1, MovedFields
    <3>2. CASE held # {}
      BY <2>1, <3>2, DragStep
    <3>3. QED
      BY <3>1, <3>2
  <2>3. QED
    BY <1>1, <2>1, <2>2 DEF DragInv
<1>3. ASSUME NEW b \in Buttons, Drag!Press(b) PROVE DragInv'
  <2>1. /\ object' = MousePressed(object, mouse) /\ held' = held \cup {b}
        /\ \/ saveX' = mouse - object.x /\ grip' = mouse - object.x
              /\ "onPress" \in object'.calls
           \/ UNCHANGED <<saveX, grip>>
        /\ UNCHANGED <<draggable, mouse, drawn>>
    BY <1>3, DragHandlers DEF Drag!Press, Drag!SavedClick, Drag!TakesHold
  <2>2. /\ object' \in Objects /\ object'.enabled /\ object'.mouseX = mouse
        /\ object'.mouseDown = (object.mouseDown \/ HitTest(object, mouse))
        /\ "onPress" \in object'.calls => HitTest(object, mouse)
    BY <1>1, <2>1, PressedFields
  <2>3. grip' # 0 => object'.mouseDown /\ saveX' = grip'
    BY <1>1, <2>1, <2>2 DEF DragInv
  <2>4. QED
    BY <1>1, <2>1, <2>2, <2>3 DEF DragInv
<1>4. ASSUME NEW b \in Buttons, Drag!Release(b) PROVE DragInv'
  <2>1. /\ object' = MouseReleased(object, mouse) /\ held' = held \ {b} /\ grip' = 0
        /\ UNCHANGED <<saveX, draggable, mouse, drawn>>
    BY <1>4, DragHandlers DEF Drag!Release, Drag!NoGrip
  <2>2. /\ object' \in Objects /\ object'.enabled /\ object'.mouseX = mouse
        /\ ~ object'.mouseDown
    BY <1>1, <2>1, ReleasedFields
  <2>3. QED
    BY <1>1, <2>1, <2>2 DEF DragInv
<1>5. ASSUME NEW b \in BOOLEAN, Drag!SetDraggable(b) PROVE DragInv'
  <2>1. /\ object' = Quiet(object) /\ draggable' = b
        /\ UNCHANGED <<saveX, mouse, held, drawn, grip>>
    BY <1>5, DragHandlers DEF Drag!SetDraggable
  <2>2. /\ object' \in Objects /\ object'.enabled /\ object'.mouseX = object.mouseX
        /\ object'.mouseDown = object.mouseDown
    BY <1>1, <2>1, QuietFields
  <2>3. QED
    BY <1>1, <2>1, <2>2 DEF DragInv
<1>6. CASE Drag!Draw
  <2>1. /\ object' = Quiet(object) /\ drawn' = object.x
        /\ UNCHANGED <<saveX, draggable, mouse, held, grip>>
    BY <1>6, DragHandlers DEF Drag!Draw
  <2>2. /\ object' \in Objects /\ object'.enabled /\ object'.mouseX = object.mouseX
        /\ object'.mouseDown = object.mouseDown
    BY <1>1, <2>1, QuietFields
  <2>3. QED
    BY <1>1, <2>1, <2>2 DEF DragInv
<1>7. CASE Drag!Update
  <2>1. UNCHANGED <<saveX, draggable, mouse, held, drawn, grip>>
    BY <1>7 DEF Drag!Update
  <2>2. /\ object' \in Objects /\ object'.enabled /\ object'.mouseX = object.mouseX
        /\ object'.mouseDown = object.mouseDown
    BY <1>7, DragUpdated
  <2>3. QED
    BY <1>1, <2>1, <2>2 DEF DragInv
<1>8. CASE UNCHANGED Drag!dragVars
  BY <1>8 DEF Drag!dragVars, DragInv
<1>9. QED
  BY <1>2, <1>3, <1>4, <1>5, <1>6, <1>7, <1>8 DEF Drag!DragNext

LEMMA RestInvStep ==
  ASSUME Controls = {}, DragInv, RestInv, [Drag!DragNext]_(Drag!dragVars)
  PROVE  RestInv'
<1>1. /\ object \in Objects /\ object.enabled /\ object.mouseX \in Points
      /\ saveX \in Int /\ draggable \in BOOLEAN /\ mouse \in Points /\ mouse \in Int
      /\ object.x \in Int /\ object.mouseDown \in BOOLEAN /\ grip \in Int
      /\ grip # 0 => object.mouseDown /\ held # {}
  BY PointsAssumption DEF DragInv, Objects
<1>2. ASSUME NEW p \in Points, Drag!Motion(p) PROVE RestInv'
  <2>1. /\ object' = IF held = {} THEN MouseMoved(object, p)
                     ELSE Drag!Dragged(MouseDragged(object, p), p)
        /\ mouse' = p /\ UNCHANGED <<saveX, draggable, held, grip>> /\ p \in Int
    BY <1>2, DragHandlers, PointsAssumption DEF Drag!Motion
  <2>2. CASE grip = 0
    BY <2>1, <2>2 DEF RestInv
  <2>3. CASE grip # 0
    <3>1. object' = Drag!Dragged(MouseDragged(object, p), p) /\ draggable
      BY <1>1, <2>1, <2>3 DEF RestInv
    <3>2. /\ object'.mouseX = p
          /\ HitTest(object, p) => object'.x = p - saveX
          /\ ~ HitTest(object, p) => object'.x = object.x
      BY <1>1, <3>1, DragStep
    <3>3. object'.x = object.x => HitTest(object', p) = HitTest(object, p)
      BY HitTestByPlace
    <3>4. QED
      BY <2>1, <3>1, <3>2, <3>3 DEF RestInv
  <2>4. QED
    BY <2>2, <2>3
<1>3. ASSUME NEW b \in Buttons, Drag!Press(b) PROVE RestInv'
  <2>1. /\ object' = MousePressed(object, mouse)
        /\ \/ saveX' = mouse - object.x
           \/ UNCHANGED <<saveX, grip>>
        /\ UNCHANGED <<draggable, mouse>>
    BY <1>3, DragHandlers DEF Drag!Press, Drag!SavedClick, Drag!TakesHold
  <2>2. object'.x = object.x /\ object'.mouseX = mouse
    BY <1>1, <2>1, PressedFields
  <2>3. HitTest(object', mouse) = HitTest(object, mouse)
    BY <2>2, HitTestByPlace
  <2>4. CASE saveX' = mouse - object.x
    BY <1>1, <2>1, <2>2, <2>4 DEF RestInv
  <2>5. CASE UNCHANGED <<saveX, grip>>
    BY <2>1, <2>2, <2>3, <2>5 DEF RestInv
  <2>6. QED
    BY <2>1, <2>4, <2>5
<1>4. ASSUME NEW b \in Buttons, Drag!Release(b) PROVE RestInv'
  BY <1>4 DEF Drag!Release, Drag!NoGrip, RestInv
<1>5. ASSUME NEW b \in BOOLEAN, Drag!SetDraggable(b) PROVE RestInv'
  BY <1>5 DEF Drag!SetDraggable
<1>6. CASE Drag!Draw
  BY <1>6 DEF Drag!Draw
<1>7. CASE Drag!Update
  <2>1. UNCHANGED <<saveX, draggable, mouse, held, grip>>
    BY <1>7 DEF Drag!Update
  <2>2. /\ object'.mouseX = object.mouseX
        /\ object'.x = object.mouseX - saveX \/ object'.x = object.x
    BY <1>7, DragUpdated
  <2>3. object'.x = object.x => HitTest(object', mouse) = HitTest(object, mouse)
    BY HitTestByPlace
  <2>4. QED
    BY <2>1, <2>2, <2>3 DEF RestInv
<1>8. CASE UNCHANGED Drag!dragVars
  BY <1>8 DEF Drag!dragVars, RestInv, HitTest
<1>9. QED
  BY <1>2, <1>3, <1>4, <1>5, <1>6, <1>7, <1>8 DEF Drag!DragNext

LEMMA DragIsTyped == DragInv => Drag!DragTypeOK
BY DEF DragInv, Drag!DragTypeOK, Drag!NoGrip, Objects

\* An object that is held is down, and one that is down is under a button.
THEOREM DragTypeCorrect == Start \in Int => (Drag!DragSpec => []Drag!DragTypeOK)
<1> SUFFICES ASSUME Start \in Int PROVE Drag!DragSpec => []Drag!DragTypeOK
  OBVIOUS
<1>1. Drag!DragInit => DragInv
  BY DragInitInv
<1>2. DragInv /\ [Drag!DragNext]_(Drag!dragVars) => DragInv'
  BY DragInvStep
<1>3. QED
  BY <1>1, <1>2, DragIsTyped, PTL DEF Drag!DragSpec

\* What moves a held object under a moving mouse is a motion of the mouse.
LEMMA DragKeepsGrip ==
  ASSUME DragInv, [Drag!DragNext]_(Drag!dragVars)
  PROVE  [ grip # Drag!NoGrip /\ grip' = grip /\ mouse' # mouse /\ object'.x # object.x
             => mouse' - object'.x = grip ]_(Drag!dragVars)
<1> SUFFICES ASSUME Drag!DragNext, grip # 0, mouse' # mouse, object'.x # object.x
             PROVE  mouse' - object'.x = grip
  BY DEF Drag!NoGrip
<1>1. PICK p \in Points : Drag!Motion(p)
  BY DEF Drag!DragNext, Drag!Press, Drag!Release, Drag!SetDraggable, Drag!Draw, Drag!Update
<1>2. /\ held # {} /\ saveX = grip /\ saveX \in Int /\ p \in Int
  BY PointsAssumption DEF DragInv
<1>3. /\ mouse' = p
      /\ object' = Drag!Dragged(MouseDragged(object, p), p)
  BY <1>1, <1>2, DragHandlers DEF Drag!Motion
<1>4. object'.x = p - saveX
  BY <1>3, DragStep
<1>5. QED
  BY <1>2, <1>3, <1>4

\* An object with controls, or without: each drag that moves it leaves the
\* clicked point under the mouse, whatever bDraggable and the other buttons do.
THEOREM GripStaysUnder == Start \in Int => (Drag!DragSpec => Drag!GripStaysUnderMouse)
<1> SUFFICES ASSUME Start \in Int PROVE Drag!DragSpec => Drag!GripStaysUnderMouse
  OBVIOUS
<1>1. Drag!DragInit => DragInv
  BY DragInitInv
<1>2. DragInv /\ [Drag!DragNext]_(Drag!dragVars) => DragInv'
  BY DragInvStep
<1>3. QED
  BY <1>1, <1>2, DragKeepsGrip, PTL DEF Drag!DragSpec, Drag!GripStaysUnderMouse

\* One step under a resting mouse, of an object without controls.
LEMMA RestsStep ==
  ASSUME Controls = {}, DragInv, RestInv, [Drag!DragNext]_(Drag!dragVars)
  PROVE  Drag!RestsWithMouse
<1> SUFFICES ASSUME mouse' = mouse, grip # 0 PROVE object'.x = object.x
  BY DEF Drag!RestsWithMouse, Drag!NoGrip
<1>1. /\ object \in Objects /\ object.enabled /\ mouse \in Int /\ held # {}
      /\ object.mouseX = mouse /\ draggable
      /\ HitTest(object, mouse) => object.x = mouse - saveX
  BY PointsAssumption DEF DragInv, RestInv
<1>2. ASSUME NEW p \in Points, Drag!Motion(p) PROVE object'.x = object.x
  <2>1. p = mouse /\ object' = Drag!Dragged(MouseDragged(object, p), p)
    BY <1>1, <1>2, DragHandlers DEF Drag!Motion
  <2>2. /\ ~ HitTest(object, p) => object'.x = object.x
        /\ HitTest(object, p) => object'.x = p - saveX
    BY <1>1, <2>1, DragStep
  <2>3. QED
    BY <1>1, <2>1, <2>2
<1>3. ASSUME NEW b \in Buttons, Drag!Press(b) \/ Drag!Release(b) PROVE object'.x = object.x
  <2>1. object' = MousePressed(object, mouse) \/ object' = MouseReleased(object, mouse)
    BY <1>3, DragHandlers DEF Drag!Press, Drag!Release
  <2>2. object \in Objects /\ mouse \in Int
    BY <1>1
  <2>3. MousePressed(object, mouse).x = object.x
    BY <2>2, PressedFields
  <2>4. MouseReleased(object, mouse).x = object.x
    BY <2>2, ReleasedFields
  <2>5. QED
    BY <2>1, <2>3, <2>4
<1>4. ASSUME NEW b \in BOOLEAN, Drag!SetDraggable(b) PROVE object'.x = object.x
  BY <1>1, <1>4, DragHandlers, QuietFields DEF Drag!SetDraggable
<1>5. CASE Drag!Draw
  BY <1>5 DEF Drag!Draw
<1>6. CASE Drag!Update
  BY <1>1, <1>6, DragUpdated
<1>7. CASE UNCHANGED Drag!dragVars
  BY <1>7 DEF Drag!dragVars
<1>8. QED
  BY <1>2, <1>3, <1>4, <1>5, <1>6, <1>7 DEF Drag!DragNext

\* What is dragged by all of itself stays where it is under a resting mouse:
\* when it is dragged to the same place again, when another button goes down,
\* when one is released, and when an update makes up a drag.
THEOREM RestingMouseMovesNone ==
  Start \in Int /\ Controls = {} => (Drag!DragSpec => Drag!RestingMouseMovesNothing)
<1> SUFFICES ASSUME Start \in Int, Controls = {}
             PROVE  Drag!DragSpec => Drag!RestingMouseMovesNothing
  OBVIOUS
<1>1. Drag!DragInit => DragInv /\ RestInv
  BY DragInitInv
<1>2. DragInv /\ [Drag!DragNext]_(Drag!dragVars) => DragInv'
  BY DragInvStep
<1>3. DragInv /\ RestInv /\ [Drag!DragNext]_(Drag!dragVars) => RestInv'
  BY RestInvStep
<1>4. QED
  BY <1>1, <1>2, <1>3, RestsStep, PTL DEF Drag!DragSpec, Drag!RestingMouseMovesNothing

-----------------------------------------------------------------------------
(* The page, and the content that drags it.                                *)

CONSTANTS RestOffset, MaxDrag, Reach

VARIABLES page, content, offset

Page == INSTANCE GuiPageMouse

LEMMA PageHandlers ==
  /\ Page!Callbacks = Callbacks /\ Page!NoRect = NoRect
  /\ \A x, g : Page!NewObject(x, g) = NewObject(x, g)
  /\ \A o : /\ Page!Quiet(o) = Quiet(o)
            /\ Page!NeedsMouseEvent(o) = NeedsMouseEvent(o)
  /\ \A o, p : /\ Page!HitTest(o, p) = HitTest(o, p)
               /\ Page!MouseMoved(o, p) = MouseMoved(o, p)
               /\ Page!MousePressed(o, p) = MousePressed(o, p)
               /\ Page!MouseDragged(o, p) = MouseDragged(o, p)
               /\ Page!MouseReleased(o, p) = MouseReleased(o, p)
BY DEF Page!Callbacks, Callbacks, Page!NoRect, NoRect, Page!NewObject, NewObject,
       Page!Quiet, Quiet, Page!NeedsMouseEvent, NeedsMouseEvent, Page!HitTest, HitTest,
       Page!MouseMoved, MouseMoved, Page!MousePressed, MousePressed,
       Page!MouseDragged, MouseDragged, Page!MouseReleased, MouseReleased

\* The page, wherever it is, ...
PagePlaceInv ==
  /\ page \in Objects /\ page.x \in Places /\ page.oldRect \in Places \cup {NoRect}
  /\ offset \in Int /\ saveX \in Int /\ mouse \in Int

\* ... its content, which stays where it is in the page, ...
ContentInv == content \in Objects /\ content.x = 0 /\ content.enabled

\* ... the buttons: the mouse went down on a content that is down, ...
ButtonsInv ==
  /\ held \subseteq Buttons /\ pressedOn \subseteq held
  /\ ~ missed /\ content.mouseDown => pressedOn # {}

\* ... and the hold of a press, which is the click that was saved.
GripInv ==
  grip # 0 => /\ content.mouseDown /\ held # {}
              /\ saveX = grip /\ HitTest(content, grip)

PageInv == PagePlaceInv /\ ContentInv /\ ButtonsInv /\ GripInv

\* What a step leaves of the content: all but presses and releases keep it as
\* far down as it was.
Lies(n) == n \in Objects /\ n.x = 0 /\ n.enabled

Kept(n) == Lies(n) /\ n.mouseDown = content.mouseDown

LEMMA ContentHandlers ==
  ASSUME ContentInv, NEW p \in Int
  PROVE  /\ Kept(Quiet(MouseMoved(content, p)))
         /\ Kept(Quiet(MouseDragged(content, p)))
         /\ Lies(Quiet(MouseReleased(content, p)))
         /\ ~ Quiet(MouseReleased(content, p)).mouseDown
         /\ Kept(MouseMoved(content, p)) /\ Kept(MouseDragged(content, p))
<1>1. content \in Objects /\ content.x = 0 /\ content.enabled
  BY DEF ContentInv
<1>2. Kept(MouseMoved(content, p))
  BY <1>1, MovedFields DEF Kept, Lies
<1>3. Kept(MouseDragged(content, p))
  BY <1>1, DraggedFields DEF Kept, Lies
<1>4. Lies(MouseReleased(content, p)) /\ ~ MouseReleased(content, p).mouseDown
  BY <1>1, ReleasedFields DEF Lies
<1>5. ASSUME NEW n, Lies(n) PROVE Lies(Quiet(n)) /\ Quiet(n).mouseDown = n.mouseDown
  BY <1>5, QuietFields DEF Lies
<1>6. ASSUME NEW n, Kept(n) PROVE Kept(Quiet(n))
  BY <1>5, <1>6 DEF Kept
<1>7. QED
  BY <1>2, <1>3, <1>4, <1>5, <1>6

LEMMA ContentPressed ==
  ASSUME ContentInv, NEW p \in Int
  PROVE  LET n == Quiet(MousePressed(content, p))
         IN  /\ n \in Objects /\ n.x = 0 /\ n.enabled
             /\ n.mouseDown = (content.mouseDown \/ HitTest(content, p))
<1>1. content \in Objects /\ content.x = 0 /\ content.enabled
  BY DEF ContentInv
<1>2. /\ MousePressed(content, p) \in Objects
      /\ MousePressed(content, p).x = 0 /\ MousePressed(content, p).enabled
      /\ MousePressed(content, p).mouseDown = (content.mouseDown \/ HitTest(content, p))
  BY <1>1, PressedFields
<1>3. QED
  BY <1>2, QuietFields

\* The handlers move neither the page nor what it remembers of its place.
SamePlace(n) == n \in Objects /\ n.x = page.x /\ n.enabled = page.enabled
                /\ n.oldRect = page.oldRect

LEMMA PagesHandlers ==
  ASSUME PagePlaceInv, NEW p \in Int
  PROVE  /\ SamePlace(Quiet(page))
         /\ SamePlace(MouseMoved(page, p)) /\ SamePlace(MouseDragged(page, p))
         /\ SamePlace(Quiet(MouseMoved(page, p)))
         /\ SamePlace(Quiet(MousePressed(page, p)))
         /\ SamePlace(Quiet(MouseDragged(page, p)))
         /\ SamePlace(Quiet(MouseReleased(page, p)))
<1>1. page \in Objects
  BY DEF PagePlaceInv
<1>2. SamePlace(MouseMoved(page, p))
  BY <1>1, MovedFields DEF SamePlace
<1>3. SamePlace(MousePressed(page, p))
  BY <1>1, PressedFields DEF SamePlace
<1>4. SamePlace(MouseDragged(page, p))
  BY <1>1, DraggedFields DEF SamePlace
<1>5. SamePlace(MouseReleased(page, p))
  BY <1>1, ReleasedFields DEF SamePlace
<1>6. ASSUME NEW n, SamePlace(n) PROVE SamePlace(Quiet(n))
  BY <1>6, QuietFields DEF SamePlace
<1>7. SamePlace(Quiet(page))
  BY <1>1, QuietFields DEF SamePlace
<1>8. QED
  BY <1>2, <1>3, <1>4, <1>5, <1>6, <1>7

LEMMA RelocatedIsInt ==
  ASSUME PagePlaceInv, NEW p \in Int
  PROVE  Page!Relocated(p) \in Int
BY PlacesAssumption DEF PagePlaceInv, Page!Relocated, Objects
\* What a motion does: the content is as far down as it was, and where it was
\* clicked stays.
LEMMA MotionKeeps ==
  ASSUME PageInv, NEW p \in Points, Page!Motion(p)
  PROVE  /\ SamePlace(page') /\ offset' \in Int /\ mouse' \in Int
         /\ Kept(content') /\ UNCHANGED <<saveX, held, grip, pressedOn, missed>>
<1>1. p \in Int /\ Page!Relocated(p) \in Int /\ PagePlaceInv /\ ContentInv
  BY PointsAssumption, RelocatedIsInt DEF PageInv
<1>2. mouse' = p /\ UNCHANGED <<saveX, held, grip, pressedOn, missed>>
  BY DEF Page!Motion, Page!Heard, Page!PageMoved, Page!PageDragged
<1>3. CASE ~ page.enabled
  <2>1. UNCHANGED <<page, content, offset>>
    BY <1>3 DEF Page!Motion, Page!Heard
  <2>2. QED
    BY <1>1, <1>2, <2>1 DEF PagePlaceInv, ContentInv, SamePlace, Kept, Lies
<1>4. CASE page.enabled /\ held = {}
  <2>1. /\ page' = Quiet(MouseMoved(page, Page!Relocated(p)))
        /\ content' = Quiet(MouseMoved(content, Page!Relocated(p))) /\ offset' = offset
    BY <1>4, PageHandlers DEF Page!Motion, Page!Heard, Page!PageMoved
  <2>2. SamePlace(page') /\ Kept(content')
    BY <1>1, <2>1, PagesHandlers, ContentHandlers
  <2>3. QED
    BY <1>1, <1>2, <2>1, <2>2 DEF PagePlaceInv
<1>5. CASE page.enabled /\ held # {}
  <2>1. /\ page' = Quiet(MouseDragged(page, Page!Relocated(p)))
        /\ content' = Quiet(MouseDragged(content, Page!Relocated(p)))
        /\ offset' = offset + (Page!Relocated(p) - saveX) \/ offset' = offset
    BY <1>5, PageHandlers DEF Page!Motion, Page!Heard, Page!PageDragged
  <2>2. SamePlace(page') /\ Kept(content')
    BY <1>1, <2>1, PagesHandlers, ContentHandlers
  <2>3. offset' \in Int
    BY <1>1, <2>1 DEF PagePlaceInv
  <2>4. QED
    BY <1>1, <1>2, <2>2, <2>3
<1>6. QED
  BY <1>3, <1>4, <1>5

\* A press that is heard saves where it clicked if the content is down then.
LEMMA PressKeeps ==
  ASSUME PageInv, NEW b \in Buttons, Page!Press(b)
  PROVE  /\ SamePlace(page') /\ UNCHANGED <<offset, mouse>> /\ saveX' \in Int
         /\ content' \in Objects /\ content'.x = 0 /\ content'.enabled
         /\ ~ page.enabled => missed'
         /\ missed => missed'
         /\ held' = held \cup {b}
         /\ grip' # 0 => /\ page.enabled /\ HitTest(content, Page!Relocated(mouse))
                         /\ grip' = Page!Relocated(mouse)
         /\ page.enabled =>
              LET q == Page!Relocated(mouse)
              IN  /\ q \in Int
                  /\ content'.mouseDown = (content.mouseDown \/ HitTest(content, q))
                  /\ content'.mouseDown => saveX' = q
                  /\ HitTest(content, q) => b \in pressedOn'
<1>1. /\ mouse \in Int /\ Page!Relocated(mouse) \in Int /\ PagePlaceInv /\ ContentInv
      /\ saveX \in Int
  BY RelocatedIsInt DEF PageInv, PagePlaceInv
<1>2. /\ UNCHANGED mouse /\ UNCHANGED offset /\ held' = held \cup {b}
      /\ missed' = (missed \/ ~ page.enabled)
      /\ grip' = IF page.enabled /\ HitTest(content, Page!Relocated(mouse))
                 THEN Page!Relocated(mouse) ELSE 0
  BY PageHandlers DEF Page!Press, Page!Heard, Page!PagePressed, Page!NoGrip
<1>3. CASE ~ page.enabled
  <2>1. UNCHANGED <<page, content, saveX>>
    BY <1>3 DEF Page!Press, Page!Heard
  <2>2. QED
    BY <1>1, <1>2, <1>3, <2>1 DEF PagePlaceInv, ContentInv, SamePlace
<1>4. CASE page.enabled
  <2>1. /\ page' = Quiet(MousePressed(page, Page!Relocated(mouse)))
        /\ content' = Quiet(MousePressed(content, Page!Relocated(mouse)))
        /\ saveX' = IF content'.mouseDown THEN Page!Relocated(mouse) ELSE saveX
        /\ HitTest(content, Page!Relocated(mouse)) => b \in pressedOn'
    BY <1>4, PageHandlers DEF Page!Press, Page!Heard, Page!PagePressed
  <2>2. SamePlace(page')
    BY <1>1, <2>1, PagesHandlers
  <2>3. /\ content' \in Objects /\ content'.x = 0 /\ content'.enabled
        /\ content'.mouseDown
             = (content.mouseDown \/ HitTest(content, Page!Relocated(mouse)))
    BY <1>1, <2>1, ContentPressed
  <2>4. QED
    BY <1>1, <1>2, <1>4, <2>1, <2>2, <2>3
<1>5. QED
  BY <1>3, <1>4

\* A release that is heard lets the content go, whichever button it is of.
LEMMA ReleaseKeeps ==
  ASSUME PageInv, NEW b \in Buttons, Page!Release(b)
  PROVE  /\ SamePlace(page') /\ UNCHANGED <<offset, mouse, saveX>> /\ Lies(content')
         /\ held' = held \ {b} /\ pressedOn' = pressedOn \ {b} /\ grip' = 0
         /\ missed' \/ ~ content'.mouseDown
<1>1. mouse \in Int /\ Page!Relocated(mouse) \in Int /\ PagePlaceInv /\ ContentInv
  BY RelocatedIsInt DEF PageInv, PagePlaceInv
<1>2. /\ held' = held \ {b} /\ pressedOn' = pressedOn \ {b} /\ grip' = 0
      /\ missed' = (missed \/ ~ page.enabled) /\ UNCHANGED <<offset, mouse, saveX>>
  BY DEF Page!Release, Page!Heard, Page!PageReleased, Page!NoGrip
<1>3. CASE ~ page.enabled
  <2>1. UNCHANGED <<page, content>>
    BY <1>3 DEF Page!Release, Page!Heard
  <2>2. QED
    BY <1>1, <1>2, <1>3, <2>1 DEF PagePlaceInv, ContentInv, SamePlace, Lies
<1>4. CASE page.enabled
  <2>1. /\ page' = Quiet(MouseReleased(page, Page!Relocated(mouse)))
        /\ content' = Quiet(MouseReleased(content, Page!Relocated(mouse)))
    BY <1>4, PageHandlers DEF Page!Release, Page!Heard, Page!PageReleased
  <2>2. SamePlace(page') /\ Lies(content') /\ ~ content'.mouseDown
    BY <1>1, <2>1, PagesHandlers, ContentHandlers
  <2>3. QED
    BY <1>2, <2>2
<1>5. QED
  BY <1>3, <1>4

\* The marker moves the page and leaves the content.
LEMMA MarkerKeeps ==
  ASSUME PageInv,
         \/ \E x \in Places : Page!MarkerUpdated(x) \/ Page!MarkerFound(x)
         \/ Page!MarkerLost
  PROVE  /\ page' \in Objects /\ page'.x \in Places /\ page'.oldRect = page.oldRect
         /\ UNCHANGED <<content, saveX, mouse, held, grip, pressedOn, missed>>
<1>1. page \in Objects /\ page.x \in Places /\ Places \subseteq Int
  BY PlacesAssumption DEF PageInv, PagePlaceInv
<1>2. UNCHANGED <<content, saveX, mouse, held, grip, pressedOn, missed>>
  BY DEF Page!MarkerUpdated, Page!MarkerFound, Page!MarkerLost, Page!mouseVars
<1>3. \/ \E x \in Places : \/ page' = [Quiet(page) EXCEPT !.x = x]
                           \/ page' = [Quiet(page) EXCEPT !.x = x, !.enabled = TRUE]
      \/ page' = [Quiet(page) EXCEPT !.enabled = FALSE]
  BY PageHandlers DEF Page!MarkerUpdated, Page!MarkerFound, Page!MarkerLost
<1>4. /\ Quiet(page) \in Objects /\ Quiet(page).x = page.x
      /\ Quiet(page).oldRect = page.oldRect
  BY <1>1, QuietFields
<1>5. page' \in Objects /\ page'.x \in Places /\ page'.oldRect = page.oldRect
  BY <1>1, <1>3, <1>4 DEF Objects
<1>6. QED
  BY <1>2, <1>5

\* The event an update makes up.
LEMMA UpdateKeeps ==
  ASSUME PageInv, Page!PageUpdated
  PROVE  /\ page' \in Objects /\ page'.x = page.x /\ page'.oldRect \in {page.oldRect, page.x}
         /\ offset' \in Int /\ Kept(content')
         /\ UNCHANGED <<saveX, mouse, held, grip, pressedOn, missed>>
<1> DEFINE last == Page!Relocated(page.mouseX)
<1>1. /\ page \in Objects /\ page.mouseX \in Int /\ last \in Int
      /\ PagePlaceInv /\ ContentInv /\ offset \in Int /\ saveX \in Int
  BY RelocatedIsInt DEF PageInv, PagePlaceInv, Objects
<1>2. UNCHANGED <<saveX, mouse, held, grip, pressedOn, missed>>
  BY DEF Page!PageUpdated, Page!Unmoved, Page!ToldOfMove, Page!mouseVars
<1>3. CASE Page!Unmoved
  <2>1. page' = Quiet(page) /\ UNCHANGED <<content, offset>>
    BY <1>3, PageHandlers DEF Page!Unmoved
  <2>2. QED
    BY <1>1, <1>2, <2>1, PagesHandlers DEF SamePlace, Kept, Lies, ContentInv
<1>4. CASE Page!ToldOfMove
  <2> DEFINE dragged == IF page.mouseDown THEN MouseDragged(page, last)
                     ELSE MouseMoved(page, last)
  <2>1. /\ content' = IF page.mouseDown THEN MouseDragged(content, last)
                      ELSE MouseMoved(content, last)
        /\ page' = [dragged EXCEPT !.oldRect = page.x]
        /\ offset' = offset + (last - saveX) \/ offset' = offset
    BY <1>4, PageHandlers DEF Page!ToldOfMove
  <2>2. SamePlace(dragged)
    BY <1>1, PagesHandlers
  <2>3. Kept(content')
    BY <1>1, <2>1, ContentHandlers
  <2>4. offset' \in Int
    BY <1>1, <2>1
  <2> HIDE DEF dragged
  <2>5. page' \in Objects /\ page'.x = page.x /\ page'.oldRect = page.x
    BY <1>1, <2>1, <2>2 DEF SamePlace, Objects
  <2>6. QED
    BY <1>2, <2>3, <2>4, <2>5
<1>5. QED
  BY <1>3, <1>4 DEF Page!PageUpdated
LEMMA NewFields ==
  ASSUME NEW x \in Int, NEW g \in Int
  PROVE  /\ NewObject(x, g) \in Objects /\ NewObject(x, g).enabled
         /\ NewObject(x, g).x = x /\ NewObject(x, g).oldRect = NoRect
         /\ ~ NewObject(x, g).mouseDown
BY DEF NewObject, Objects, NoRect, Callbacks

LEMMA PageInitInv == Page!PageInit => PageInv
<1> SUFFICES ASSUME Page!PageInit PROVE PageInv
  OBVIOUS
<1>1. PICK x \in Places, g \in Points : page = [NewObject(x, g) EXCEPT !.enabled = FALSE]
  BY PageHandlers DEF Page!PageInit
<1>2. PICK h \in Points : content = NewObject(0, h)
  BY PageHandlers DEF Page!PageInit
<1>3. Places \subseteq Int /\ Points \subseteq Int
  BY PlacesAssumption, PointsAssumption
<1>4. page \in Objects /\ page.x \in Places /\ page.oldRect = NoRect
  <2>1. x \in Int /\ g \in Int
    BY <1>3
  <2>2. /\ NewObject(x, g) \in Objects
        /\ NewObject(x, g).x = x /\ NewObject(x, g).oldRect = NoRect
    BY <2>1, NewFields
  <2>3. QED
    BY <1>1, <2>2 DEF Objects
<1>5. /\ content \in Objects /\ content.x = 0 /\ content.enabled
      /\ ~ content.mouseDown
  <2>1. h \in Int
    BY <1>3
  <2>2. QED
    BY <1>2, <2>1, NewFields
<1>6. /\ offset = 0 /\ saveX \in Int /\ mouse \in Int
      /\ held = {} /\ pressedOn = {} /\ grip = 0
  BY <1>3 DEF Page!PageInit, Page!NoGrip
<1>7. QED
  BY <1>4, <1>5, <1>6 DEF PageInv, PagePlaceInv, ContentInv, ButtonsInv, GripInv

LEMMA PagePlaceStep ==
  ASSUME PageInv, [Page!PageNext]_(Page!pageVars)
  PROVE  PagePlaceInv' /\ ContentInv'
<1>1. PagePlaceInv /\ ContentInv
  BY DEF PageInv
<1>2. ASSUME SamePlace(page'), offset' \in Int, saveX' \in Int, mouse' \in Int
      PROVE  PagePlaceInv'
  BY <1>1, <1>2 DEF PagePlaceInv, SamePlace
<1>3. Lies(content') \/ Kept(content') => ContentInv'
  BY DEF Kept, Lies, ContentInv
<1>4. ASSUME NEW p \in Points, Page!Motion(p) PROVE PagePlaceInv' /\ ContentInv'
  BY <1>1, <1>2, <1>3, <1>4, MotionKeeps DEF PagePlaceInv
<1>5. ASSUME NEW b \in Buttons, Page!Press(b) PROVE PagePlaceInv' /\ ContentInv'
  <2>1. PagePlaceInv'
    BY <1>1, <1>2, <1>5, PressKeeps DEF PagePlaceInv
  <2>2. ContentInv'
    BY <1>5, PressKeeps DEF ContentInv
  <2>3. QED
    BY <2>1, <2>2
<1>6. ASSUME NEW b \in Buttons, Page!Release(b) PROVE PagePlaceInv' /\ ContentInv'
  BY <1>1, <1>2, <1>3, <1>6, ReleaseKeeps DEF PagePlaceInv
<1>7. ASSUME \/ \E x \in Places : Page!MarkerUpdated(x) \/ Page!MarkerFound(x)
             \/ Page!MarkerLost,
             offset' \in Int
      PROVE  PagePlaceInv' /\ ContentInv'
  BY <1>1, <1>7, MarkerKeeps DEF PagePlaceInv, ContentInv
<1>8. CASE Page!PageUpdated
  <2>1. ContentInv'
    BY <1>3, <1>8, UpdateKeeps
  <2>2. PagePlaceInv'
    BY <1>1, <1>8, UpdateKeeps DEF PagePlaceInv
  <2>3. QED
    BY <2>1, <2>2
<1>9. CASE UNCHANGED Page!pageVars
  BY <1>1, <1>9 DEF Page!pageVars, PagePlaceInv, ContentInv
<1>10. Page!PageNext => offset' \in Int
  BY DEF Page!PageNext
<1>11. QED
  BY <1>4, <1>5, <1>6, <1>7, <1>8, <1>9, <1>10 DEF Page!PageNext

\* All but the presses and releases leave the buttons, and the content as far
\* down as it was.
LEMMA QuietButtons ==
  ASSUME PageInv, [Page!PageNext]_(Page!pageVars),
         ~ \E b \in Buttons : Page!Press(b) \/ Page!Release(b)
  PROVE  Kept(content') /\ UNCHANGED <<saveX, held, grip, pressedOn, missed>>
<1>1. PagePlaceInv /\ ContentInv
  BY DEF PageInv
<1>2. ASSUME UNCHANGED content PROVE Kept(content')
  BY <1>1, <1>2 DEF Kept, Lies, ContentInv
<1>3. QED
  BY <1>2, MotionKeeps, MarkerKeeps, UpdateKeeps DEF Page!PageNext, Page!pageVars

LEMMA ButtonsStep ==
  ASSUME PageInv, [Page!PageNext]_(Page!pageVars)
  PROVE  ButtonsInv' /\ GripInv'
<1>1. ContentInv /\ ButtonsInv /\ GripInv
  BY DEF PageInv
<1>2. ASSUME NEW b \in Buttons, Page!Press(b) PROVE ButtonsInv' /\ GripInv'
  <2> DEFINE q == Page!Relocated(mouse)
  <2>1. held' = held \cup {b} /\ pressedOn' \in {pressedOn, pressedOn \cup {b}}
    BY <1>2 DEF Page!Press
  <2>2. held' \subseteq Buttons /\ pressedOn' \subseteq held' /\ pressedOn \subseteq pressedOn'
    BY <1>1, <2>1 DEF ButtonsInv
  <2>3. /\ content'.x = content.x /\ (missed => missed') /\ (~ page.enabled => missed')
        /\ grip' # 0 => page.enabled /\ HitTest(content, q) /\ grip' = q
        /\ page.enabled =>
             /\ content'.mouseDown = (content.mouseDown \/ HitTest(content, q))
             /\ content'.mouseDown => saveX' = q
             /\ HitTest(content, q) => b \in pressedOn'
    BY <1>1, <1>2, PressKeeps DEF ContentInv
  <2> HIDE DEF q
  <2>4. ~ missed' /\ content'.mouseDown => pressedOn' # {}
    BY <1>1, <2>2, <2>3 DEF ButtonsInv
  <2>5. HitTest(content', q) = HitTest(content, q)
    BY <2>3, HitTestByPlace
  <2>6. GripInv'
    BY <2>1, <2>3, <2>5 DEF GripInv
  <2>7. QED
    BY <2>2, <2>4, <2>6 DEF ButtonsInv
<1>3. ASSUME NEW b \in Buttons, Page!Release(b) PROVE ButtonsInv' /\ GripInv'
  <2>1. /\ held' = held \ {b} /\ pressedOn' = pressedOn \ {b} /\ grip' = 0
        /\ missed' \/ ~ content'.mouseDown
    BY <1>3, ReleaseKeeps
  <2>2. QED
    BY <1>1, <2>1 DEF ButtonsInv, GripInv
<1>4. CASE ~ \E b \in Buttons : Page!Press(b) \/ Page!Release(b)
  <2>1. Kept(content') /\ UNCHANGED <<saveX, held, grip, pressedOn, missed>>
    BY <1>4, QuietButtons
  <2>2. content'.x = content.x /\ content'.mouseDown = content.mouseDown
    BY <1>1, <2>1 DEF Kept, Lies, ContentInv
  <2>3. ButtonsInv'
    BY <1>1, <2>1, <2>2 DEF ButtonsInv
  <2>4. HitTest(content', grip) = HitTest(content, grip)
    BY <2>2, HitTestByPlace
  <2>5. QED
    BY <1>1, <2>1, <2>2, <2>3, <2>4 DEF GripInv
<1>5. QED
  BY <1>2, <1>3, <1>4

LEMMA PageInvStep ==
  ASSUME PageInv, [Page!PageNext]_(Page!pageVars)
  PROVE  PageInv'
BY PagePlaceStep, ButtonsStep DEF PageInv

LEMMA PageInvHolds == Page!PageSpec => []PageInv
BY PageInitInv, PageInvStep, PTL DEF Page!PageSpec

\* What moves the mouse is a drag while a button has hold of the content, and
\* the drag puts the saved click under the mouse.
LEMMA PageKeepsGrip ==
  ASSUME PageInv, [Page!PageNext]_(Page!pageVars)
  PROVE  [ mouse' # mouse /\ page.enabled /\ grip # Page!NoGrip
             => /\ mouse' - page'.x - offset' = grip
                /\ Page!HitTest(content', grip) ]_(Page!pageVars)
<1> SUFFICES ASSUME Page!PageNext, mouse' # mouse, page.enabled, grip # 0
             PROVE  /\ mouse' - page'.x - offset' = grip
                    /\ HitTest(content', grip)
  BY PageHandlers DEF Page!NoGrip
<1>1. PICK p \in Points : Page!Motion(p)
  BY DEF Page!PageNext, Page!Press, Page!Release, Page!MarkerUpdated, Page!MarkerFound,
         Page!MarkerLost, Page!PageUpdated, Page!mouseVars
<1>2. /\ p \in Int /\ page.x \in Int /\ offset \in Int /\ saveX \in Int
      /\ held # {} /\ content.mouseDown /\ saveX = grip
      /\ HitTest(content, grip) /\ content.x = 0
  BY PointsAssumption DEF PageInv, PagePlaceInv, ContentInv, GripInv, Objects
<1>3. SamePlace(page') /\ Kept(content') /\ mouse' = p
  BY <1>1, MotionKeeps DEF Page!Motion
<1>4. offset' = offset + (Page!Relocated(p) - saveX)
  BY <1>1, <1>2, <1>3 DEF Page!Motion, Page!Heard, Page!PageDragged, Kept
<1>5. page'.x = page.x /\ content'.x = content.x
  BY <1>2, <1>3 DEF SamePlace, Kept, Lies
<1>6. mouse' - page'.x - offset' = grip
  BY <1>2, <1>3, <1>4, <1>5 DEF Page!Relocated
<1>7. QED
  BY <1>2, <1>5, <1>6, HitTestByPlace

\* The model stops before a page is dragged further.
Near == offset \in -MaxDrag .. MaxDrag

LEMMA NearInit == ASSUME MaxDrag \in Nat, Page!PageInit PROVE Near
BY DEF Page!PageInit, Near

LEMMA NearStep == ASSUME Near, [Page!PageNext]_(Page!pageVars) PROVE Near'
BY DEF Page!PageNext, Page!pageVars, Near

LEMMA PageIsTyped == PageInv /\ Near => Page!PageTypeOK
<1>1. PageInv => /\ {page.mouseX, content.mouseX, saveX} \subseteq Int
                 /\ page.x \in Places /\ page.oldRect \in Places \cup {Page!NoRect}
  BY PageHandlers DEF PageInv, PagePlaceInv, ContentInv, Objects
<1>2. QED
  BY <1>1 DEF PageInv, ContentInv, ButtonsInv, Page!PageTypeOK, Near

\* A content that is down has the mouse's button down that was pressed on it,
\* while the page has heard every press and release.
THEOREM PageTypeCorrect == MaxDrag \in Nat => (Page!PageSpec => []Page!PageTypeOK)
<1> SUFFICES ASSUME MaxDrag \in Nat PROVE Page!PageSpec => []Page!PageTypeOK
  OBVIOUS
<1>1. Page!PageInit => Near
  BY NearInit
<1>2. Near /\ [Page!PageNext]_(Page!pageVars) => Near'
  BY NearStep
<1>3. QED
  BY <1>1, <1>2, PageIsTyped, PageInvHolds, PTL DEF Page!PageSpec

\* The point that a press took hold of is under the mouse after every drag,
\* wherever the marker has put the page since, whatever other buttons did, and
\* however often the page was lost and found in between.
THEOREM GripFollows == Page!PageSpec => Page!GripFollowsMouse
BY PageInvHolds, PageKeepsGrip, PTL DEF Page!PageSpec, Page!GripFollowsMouse
=============================================================================
