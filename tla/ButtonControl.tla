----------------------------- MODULE ButtonControl -----------------------------
(***************************************************************************)
(* A button of SimpleGuiToo: an interactive object that writes a variable  *)
(* of the application when it is pressed and released by the mouse or by   *)
(* its keyboard shortcut.  A momentary button is a push button, the other  *)
(* kind a toggle.  Applications, SimpleGuiToo itself among them            *)
(* (changePage = false), write the variable too, behind the button's back. *)
(***************************************************************************)
EXTENDS InteractiveObject

VARIABLES
  value,     \* *value, the application's variable
  oldValue,  \* what the button wrote last, and anything before that
  momentary,
  keyDown,   \* the shortcut is held down
  notified,  \* valueChangedEvt was notified in this step
  written,   \* history: the button has written oldValue
  escaped    \* history: a release since the last press did not reach it

buttonVars == <<objectVars, value, oldValue, momentary, keyDown, notified, written, escaped>>

Same == UNCHANGED <<value, oldValue, written>> /\ notified' = FALSE

\* Mutation: only being switched on is remembered.
SetRemembersOn(b) ==
  IF oldValue = b THEN Same
  ELSE value' = b /\ oldValue' = (oldValue \/ b) /\ notified' = TRUE /\ written' = TRUE

\* set(): nothing happens when b is what was written last.
Set(b) ==
  IF oldValue = b THEN Same
  ELSE value' = b /\ oldValue' = b /\ notified' = TRUE /\ written' = TRUE

Toggle ==
  value' = ~ value /\ oldValue' = ~ value /\ notified' = TRUE /\ written' = TRUE

OnPress == IF momentary THEN Set(TRUE) ELSE Toggle

OnRelease == IF momentary THEN Set(FALSE) ELSE Same

\* The object's handlers call at most one of the two.
Called(calls) ==
  IF "onPress" \in calls THEN OnPress
  ELSE IF "onRelease" \in calls THEN OnRelease
  ELSE Same

Escapes(b) ==
  b \in held \ held' /\ "onRelease" \notin object'.calls

MouseStep ==
  /\ ObjectNext
  /\ Called(object'.calls)
  /\ escaped' = IF "onRelease" \in object'.calls THEN FALSE
                ELSE escaped \/ \E b \in Buttons : Escapes(b)
  /\ UNCHANGED <<momentary, keyDown>>

KeysOnly ==
  /\ object' = Quiet(object)
  /\ UNCHANGED <<listening, mouse, held, moves, pressedOn, missed, told, open>>
  /\ UNCHANGED momentary

\* A key that is held repeats.  addControl() enables key events for good.
KeyPressed ==
  /\ KeysOnly
  /\ IF object.enabled THEN OnPress ELSE Same
  /\ keyDown' = TRUE
  /\ UNCHANGED escaped

KeyReleased ==
  /\ keyDown
  /\ KeysOnly
  /\ IF object.enabled THEN OnRelease ELSE Same
  /\ keyDown' = FALSE
  /\ escaped' = IF object.enabled THEN FALSE ELSE TRUE

\* The application has seen the button pressed and takes it back.
Consume ==
  /\ value
  /\ KeysOnly
  /\ value' = FALSE
  /\ notified' = FALSE
  /\ UNCHANGED <<oldValue, keyDown, written, escaped>>

ButtonInit ==
  /\ ObjectInit
  /\ value = FALSE
  /\ oldValue \in BOOLEAN
  /\ momentary \in BOOLEAN
  /\ keyDown = FALSE /\ notified = FALSE /\ written = FALSE /\ escaped = FALSE

ButtonNext == MouseStep \/ KeyPressed \/ KeyReleased \/ Consume

ButtonSpec == ButtonInit /\ [][ButtonNext]_buttonVars

-----------------------------------------------------------------------------
(* Properties.                                                             *)

\* Types; what a button has written is in the variable, unless the
\* application took it back.
ButtonTypeOK ==
  /\ {value, oldValue, momentary, keyDown, notified, written, escaped} \subseteq BOOLEAN
  /\ value => oldValue

\* A momentary button that nobody holds is off, whatever the mouse, the key
\* and the application did in turns: unless a release did not reach it.
MomentaryLetsGo ==
  momentary /\ value /\ held = {} /\ ~ keyDown => escaped

\* A press of a button at rest takes effect.  It does not when the last
\* press was released outside and the application had taken it back: the
\* button still compares with what it wrote.
PressTakesEffect ==
  [][ /\ written /\ ~ escaped /\ held = {} /\ ~ keyDown
      /\ momentary /\ "onPress" \in object'.calls
      => value' /\ notified' ]_buttonVars
=============================================================================
