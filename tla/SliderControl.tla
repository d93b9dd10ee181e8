----------------------------- MODULE SliderControl -----------------------------
(***************************************************************************)
(* Two controls of SimpleGuiToo under one mouse: a slider, which writes an *)
(* integer of the application, and a two-dimensional one, which takes hold *)
(* of a point when it is pressed.  SimpleGuiToo draws its controls and     *)
(* never updates them.                                                     *)
(***************************************************************************)
EXTENDS InteractiveObject

CONSTANTS Low, High   \* min and max of the slider, Low < High

VARIABLES
  value,     \* *value
  oldValue,  \* what the slider wrote last, at first the value itself
  pct,       \* the length of the bar in pixels
  lock,      \* the other slider was pressed
  point,     \* where it has its point
  steady,    \* history: events in a row that the slider heard in one place
  behind     \* history: the application wrote value after the slider did

sliderVars == <<objectVars, value, oldValue, pct, lock, point, steady, behind>>

-----------------------------------------------------------------------------
(* ofxSimpleGuiSliderBase.                                                 *)

\* ofMap() of p pixels, and the conversion to int, which cuts the fraction off.
Mapped(p) ==
  LET pixels == Low * Width + p * (High - Low)
  IN  IF pixels >= 0 THEN pixels \div Width ELSE - (- pixels \div Width)

Clamped(v) == IF v >= High THEN High ELSE IF v <= Low THEN Low ELSE v

\* Mutation: the bar is not brought back.
UpdateSliderStuck(p) ==
  IF pct > Width THEN UNCHANGED <<pct, value, oldValue, behind>>
  ELSE LET v == Clamped(Mapped(p - object.x))
       IN  /\ pct' = p - object.x
           /\ oldValue' = v
           /\ value' = IF oldValue # v THEN v ELSE value
           /\ behind' = (behind /\ oldValue = v)

\* updateSlider(): an event after one beyond the right end only brings the
\* bar back.
UpdateSlider(p) ==
  IF pct > Width THEN pct' = Width /\ UNCHANGED <<value, oldValue, behind>>
  ELSE LET v == Clamped(Mapped(p - object.x))
       IN  /\ pct' = p - object.x
           /\ oldValue' = v
           /\ value' = IF oldValue # v THEN v ELSE value
           /\ behind' = (behind /\ oldValue = v)

Heard == {"onPress", "onDragOver", "onDragOutside"}

Slider ==
  IF Heard \cap object'.calls = {}
  THEN UNCHANGED <<value, oldValue, pct, behind>> /\ steady' = 0
  ELSE /\ UpdateSlider(object'.mouseX)
       /\ steady' = IF object'.mouseX # object.mouseX THEN 1
                    ELSE IF steady < 2 THEN steady + 1 ELSE steady

-----------------------------------------------------------------------------
(* ofxSimpleGuiSlider2d.  Its onRelease(), like that of the movie slider,  *)
(* has other parameters than the one the object calls.                     *)

Grab ==
  /\ lock' = (lock \/ "onPress" \in object'.calls)
  /\ point' = IF lock' /\ Heard \cap object'.calls # {} THEN object'.mouseX ELSE point

-----------------------------------------------------------------------------

MouseStep == ObjectNext /\ Slider /\ Grab

\* The application writes its variable itself.
Write(v) ==
  /\ value' = v /\ behind' = TRUE
  /\ object' = Quiet(object)
  /\ UNCHANGED <<listening, mouse, held, moves, pressedOn, missed, told, open,
                 oldValue, pct, lock, point, steady>>

SliderInit ==
  /\ ObjectInit
  /\ value \in Low .. High /\ oldValue = value
  /\ pct = ((value - Low) * Width) \div (High - Low)
  /\ lock = FALSE /\ point = object.x /\ steady = 0 /\ behind = FALSE

SliderNext == MouseStep \/ \E v \in Low .. High : Write(v)

SliderSpec == SliderInit /\ [][SliderNext]_sliderVars

-----------------------------------------------------------------------------
(* Properties.                                                             *)

\* Types; the value stays in its range, and is what the slider wrote unless
\* the application wrote it since.
SliderTypeOK ==
  /\ value \in Low .. High /\ oldValue \in Low .. High
  /\ behind \/ value = oldValue
  /\ {lock, behind} \subseteq BOOLEAN /\ point \in Points \cup Places /\ steady \in 0 .. 2

\* A slider shows the place of the mouse after two events there at the
\* latest: one alone may be lost to the end of the last drag.
ValueFollowsMouse ==
  steady = 2 /\ ~ behind => value = Clamped(Mapped(object.mouseX - object.x))

\* As long as the press that took hold of it lasts, the point of the other
\* slider is where the mouse is, inside the slider and outside.
HeldPointFollows ==
  object.mouseDown /\ ~ missed => point = object.mouseX
=============================================================================
