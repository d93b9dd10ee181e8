----------------------------- MODULE GuiPageMouse -----------------------------
(***************************************************************************)
(* The mouse on a GuiPage that shows one content at a marker.  The page    *)
(* hears the mouse while its marker is found, relocates each event into    *)
(* its own coordinates and passes it on to its controls, which have no     *)
(* listeners of their own; a content that is held down drags the offset    *)
(* of the page along.  Every update of the marker moves the page and sets  *)
(* its offset anew, and the page's own _update(), which it inherits, makes *)
(* up a mouse event when it finds the page moved.                          *)
(*                                                                         *)
(* The angle is zero and the scale one: relocating is a translation.  The  *)
(* page is as wide as its one control, which lies at its origin.           *)
(***************************************************************************)
EXTENDS ObjectEvents

CONSTANTS
  Points,      \* the positions of the mouse
  Places,      \* the positions of the marker
  Buttons,     \* the buttons of the mouse
  RestOffset,  \* the offset an update of the marker gives the page
  MaxDrag,     \* how far a page can be dragged, and
  Reach        \* how far the page thinks the mouse is, before the model stops

VARIABLES
  page,       \* the page as an interactive object
  content,    \* its control of type Content
  offset,     \* where the page is drawn, relative to the marker
  saveX,      \* where the content was clicked
  mouse,      \* where the mouse is
  held,       \* the buttons that are held down
  grip,       \* history: the point of the content the last press took hold of
  pressedOn,  \* history: the held buttons that were pressed over the content
  missed      \* history: a press or release did not reach the page

pageVars == <<page, content, offset, saveX, mouse, held, grip, pressedOn, missed>>

NoGrip == 0   \* no point of the content: its border does not belong to it

\* relocateMouseEvent
Relocated(p) == p - page.x - offset

\* Each handler calls the inherited one for the page and then the control's.
PageMoved(p) ==
  /\ page' = Quiet(MouseMoved(page, Relocated(p)))
  /\ content' = Quiet(MouseMoved(content, Relocated(p)))
  /\ UNCHANGED <<offset, saveX>>

PagePressed(p) ==
  /\ page' = Quiet(MousePressed(page, Relocated(p)))
  /\ content' = Quiet(MousePressed(content, Relocated(p)))
  /\ saveX' = IF content'.mouseDown THEN Relocated(p) ELSE saveX
  /\ UNCHANGED offset

\* Mutation: the page follows the way of the mouse since its last event.
PageDraggedByWay(p) ==
  /\ page' = Quiet(MouseDragged(page, Relocated(p)))
  /\ content' = Quiet(MouseDragged(content, Relocated(p)))
  /\ offset' = IF content'.mouseDown THEN offset + (p - mouse) ELSE offset
  /\ UNCHANGED saveX

PageDragged(p) ==
  /\ page' = Quiet(MouseDragged(page, Relocated(p)))
  /\ content' = Quiet(MouseDragged(content, Relocated(p)))
  /\ offset' = IF content'.mouseDown THEN offset + (Relocated(p) - saveX) ELSE offset
  /\ UNCHANGED saveX

PageReleased(p) ==
  /\ page' = Quiet(MouseReleased(page, Relocated(p)))
  /\ content' = Quiet(MouseReleased(content, Relocated(p)))
  /\ UNCHANGED <<offset, saveX>>

\* The mouse listeners are there while the page is active.
Heard(handler) ==
  \/ page.enabled /\ handler
  \/ ~ page.enabled /\ UNCHANGED <<page, content, offset, saveX>>

-----------------------------------------------------------------------------

Motion(p) ==
  /\ mouse' = p
  /\ Heard(IF held = {} THEN PageMoved(p) ELSE PageDragged(p))
  /\ UNCHANGED <<held, grip, pressedOn, missed>>

Press(b) ==
  /\ b \notin held
  /\ held' = held \cup {b}
  /\ Heard(PagePressed(mouse))
  /\ LET onContent == page.enabled /\ HitTest(content, Relocated(mouse))
     IN  /\ grip' = IF onContent THEN Relocated(mouse) ELSE NoGrip
         /\ pressedOn' = IF onContent THEN pressedOn \cup {b} ELSE pressedOn
  /\ missed' = (missed \/ ~ page.enabled)
  /\ UNCHANGED mouse

Release(b) ==
  /\ b \in held
  /\ held' = held \ {b}
  /\ Heard(PageReleased(mouse))
  /\ grip' = NoGrip /\ pressedOn' = pressedOn \ {b}
  /\ missed' = (missed \/ ~ page.enabled)
  /\ UNCHANGED mouse

mouseVars == <<mouse, held, grip, pressedOn, missed>>

\* Engine events: a Found moves the page as an Updated does.
MarkerUpdated(x) ==
  /\ page.enabled
  /\ page' = [Quiet(page) EXCEPT !.x = x]
  /\ offset' = RestOffset
  /\ UNCHANGED <<content, saveX, mouseVars>>

MarkerFound(x) ==
  /\ ~ page.enabled
  /\ page' = [Quiet(page) EXCEPT !.x = x, !.enabled = TRUE]
  /\ offset' = RestOffset
  /\ UNCHANGED <<content, saveX, mouseVars>>

MarkerLost ==
  /\ page.enabled
  /\ page' = [Quiet(page) EXCEPT !.enabled = FALSE]
  /\ UNCHANGED <<content, offset, saveX, mouseVars>>

Unmoved ==
  /\ ~ NeedsMouseEvent(page)
  /\ page' = Quiet(page)
  /\ UNCHANGED <<content, offset, saveX>>

\* The event made up is the last one the page heard of, which has been
\* relocated already, given to the page's own handlers, which relocate it.
ToldOfMove ==
  /\ NeedsMouseEvent(page)
  /\ LET last == page.mouseX
     IN  /\ content' = IF page.mouseDown
                       THEN MouseDragged(content, Relocated(last))
                       ELSE MouseMoved(content, Relocated(last))
         /\ page' = [ IF page.mouseDown THEN MouseDragged(page, Relocated(last))
                      ELSE MouseMoved(page, Relocated(last)) EXCEPT !.oldRect = page.x ]
         /\ offset' = IF page.mouseDown /\ content'.mouseDown
                      THEN offset + (Relocated(last) - saveX) ELSE offset
  /\ UNCHANGED saveX

PageUpdated ==
  /\ Unmoved \/ ToldOfMove
  /\ UNCHANGED mouseVars

PageInit ==
  /\ \E x \in Places, garbage \in Points :
       page = [NewObject(x, garbage) EXCEPT !.enabled = FALSE]
  /\ \E garbage \in Points : content = NewObject(0, garbage)
  /\ offset = 0
  /\ saveX \in Points
  /\ mouse \in Points
  /\ held = {} /\ grip = NoGrip /\ pressedOn = {} /\ missed = FALSE

PageNext ==
  /\ \/ \E p \in Points : Motion(p)
     \/ \E b \in Buttons : Press(b) \/ Release(b)
     \/ \E x \in Places : MarkerUpdated(x) \/ MarkerFound(x)
     \/ MarkerLost
     \/ PageUpdated
  /\ offset' \in -MaxDrag .. MaxDrag
  /\ page'.mouseX \in -Reach .. Reach

PageSpec == PageInit /\ [][PageNext]_pageVars

-----------------------------------------------------------------------------
(* Properties.                                                             *)

\* Types, and the control is down only if the mouse went down on it: it does
\* not know of a release the page did not hear.
PageTypeOK ==
  /\ page.x \in Places /\ page.oldRect \in Places \cup {NoRect}
  /\ {page.mouseX, content.mouseX, saveX} \subseteq Int
  /\ content.x = 0 /\ content.enabled
  /\ offset \in -MaxDrag .. MaxDrag
  /\ pressedOn \subseteq held /\ held \subseteq Buttons
  /\ ~ missed /\ content.mouseDown => pressedOn # {}

\* The point of the content that a press took hold of is the one under the
\* mouse after every drag that the content follows, whatever came in between:
\* updates of the marker that put the page and its offset back, a made-up
\* mouse event that moved them, a marker that was lost and found again.
GripFollowsMouse ==
  [][ mouse' # mouse /\ page.enabled /\ grip # NoGrip
        => /\ mouse' - page'.x - offset' = grip
           /\ HitTest(content', grip) ]_pageVars
=============================================================================
