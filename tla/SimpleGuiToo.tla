----------------------------- MODULE SimpleGuiToo -----------------------------
(***************************************************************************)
(* ofxSimpleGuiToo: a set of pages of which one is current, the flag that  *)
(* shows it, and the XML file that keeps both with the values of the       *)
(* controls.  Pages 0 and 1 are the header and the footer.  Their labels   *)
(* write flags of the GUI that its update() reads.                         *)
(*                                                                         *)
(* Every page has one control, a toggle or a momentary button.  It listens *)
(* to the mouse on its own from addControl() on and sits at (0, 0) until   *)
(* it is drawn; header and footer are never drawn.  The mouse is over the  *)
(* place where controls are drawn, in the corner at (0, 0), or elsewhere.  *)
(* The event library calls listeners in the order they were added in.      *)
(***************************************************************************)
EXTENDS Integers, Sequences, FiniteSets

CONSTANTS
  MaxPages,   \* the largest pages.size() of the application
  Momentary,  \* the pages whose control is a momentary button
  Labels      \* of header and footer by their width, the narrowest first,
              \* named for the flags they write: a sequence

ASSUME MaxPagesAssumption == MaxPages \in Nat /\ MaxPages > 2
ASSUME MomentaryAssumption == Momentary \subseteq 2 .. MaxPages - 1
ASSUME LabelsAssumption ==
  { Labels[i] : i \in DOMAIN Labels } = {"changePage", "doAutoSave", "doSave", "doSaveBackup"}

LabelSet == { Labels[i] : i \in DOMAIN Labels }

NoFile == [ doDraw |-> FALSE, doAutoSave |-> FALSE, page |-> 0, value |-> <<>> ]

VARIABLES
  pageCount,    \* pages.size()
  currentPage,
  doDraw,
  flag,         \* changePage, doAutoSave, doSave and doSaveBackup
  oldValue,     \* of the label of each flag
  value,        \* of the control of each page
  stale,        \* the momentary buttons whose oldValue is true, and their value not
  placed,       \* the pages whose controls were drawn
  listening,    \* the GUI's own handlers are registered
  guiFirst,     \* they were so before the controls of the pages
  held,         \* the mouse button is down
  file,         \* the XML file
  kept,         \* history: auto save has been on since this run saved last
  call          \* history: the last event or call, of those the properties name

guiTooVars ==
  <<pageCount, currentPage, doDraw, flag, oldValue, value, stale, placed, listening,
    guiFirst, held, file, kept, call>>

UserPages == 2 .. pageCount - 1

-----------------------------------------------------------------------------
(* Pages and the file.                                                     *)

\* Mutation: the test for the end is off by one.
WrappedLate(i, n) == IF i > n THEN 2 ELSE IF i < 2 THEN n - 1 ELSE i

\* setPage()
Wrapped(i, n) == IF i >= n THEN 2 ELSE IF i < 2 THEN n - 1 ELSE i

\* saveToXML()
Content(draw, auto, page, val) ==
  [ doDraw |-> draw, doAutoSave |-> auto, page |-> page, value |-> val ]

\* saveToXML() if it is called, which clears doSave.
Saved(called, draw, auto, page, val) ==
  /\ file' = IF called THEN Content(draw, auto, page, val) ELSE file
  /\ kept' = (auto /\ (called \/ kept))

NotSaved == file' = file /\ kept' = (flag'["doAutoSave"] /\ kept)

MouseAndControls == UNCHANGED <<pageCount, oldValue, value, stale, placed, held>>

\* setDraw(): nothing happens if doDraw has the value already.  Handlers that
\* are added come last; some that were registered may keep their place.
SetDraw(b, page) ==
  LET changes == doDraw # b
      saves == changes /\ flag["doAutoSave"]
  IN  /\ doDraw' = b
      /\ listening' = IF changes THEN b ELSE listening
      /\ guiFirst' \in IF changes /\ b THEN {FALSE, guiFirst /\ listening} ELSE {guiFirst}
      /\ flag' = [ flag EXCEPT !["doSave"] = @ /\ ~ saves ]
      /\ Saved(saves, b, flag["doAutoSave"], page, value)

ToggleDraw ==
  /\ SetDraw(~ doDraw, currentPage) /\ call' = "none"
  /\ UNCHANGED currentPage /\ MouseAndControls

SetAutoSave(b) ==
  /\ flag' = [ flag EXCEPT !["doAutoSave"] = b ] /\ call' = "none"
  /\ NotSaved /\ UNCHANGED <<currentPage, doDraw, listening, guiFirst>> /\ MouseAndControls

\* setPage(i), and with the neighbours of the current page nextPage() and
\* prevPage().
SetPage(i) ==
  /\ currentPage' = Wrapped(i, pageCount) /\ call' = "none"
  /\ UNCHANGED <<doDraw, flag, listening, guiFirst>> /\ NotSaved /\ MouseAndControls

\* The GUI that is opened again is saved with the page it was closed on.
NextPageWithBlank ==
  /\ call' = "none" /\ MouseAndControls
  /\ IF doDraw
     THEN LET next == Wrapped(currentPage + 1, pageCount)
          IN  /\ currentPage' = next
              /\ SetDraw(next # 2, next)
     ELSE SetDraw(TRUE, currentPage) /\ currentPage' = Wrapped(2, pageCount)

-----------------------------------------------------------------------------
(* The mouse.  A place is 0 where the controls are drawn, and i in the     *)
(* corner if the labels from the i-th on reach that far; past the last     *)
(* one there is nothing.                                                   *)

Places == 0 .. Len(Labels) + 1

LabelsAt(place) == { Labels[i] : i \in { i \in DOMAIN Labels : place > 0 /\ i >= place } }

\* The pages, shown or not, whose control is at the place.
ControlsAt(place) ==
  { p \in UserPages :
      \/ place = 0 /\ p \in placed
      \/ place \in DOMAIN Labels /\ p \notin placed }

\* The press flips a toggle and sets a button, which is set(true) ...
Pressed(place) ==
  [ p \in UserPages |->
      IF p \notin ControlsAt(place) THEN value[p]
      ELSE IF p \in Momentary THEN value[p] \/ p \notin stale
      ELSE ~ value[p] ]

\* ... and the release sets the button back.
Released(place) ==
  [ p \in UserPages |-> value[p] /\ p \notin ControlsAt(place) \cap Momentary ]

\* set(b) of the labels in S, the momentary buttons of ofxSimpleGuiTitle.
LabelsSet(S, b) ==
  [ l \in LabelSet |-> IF l \in S /\ oldValue[l] # b THEN b ELSE flag[l] ]

LabelsWrote(S, b) == [ l \in LabelSet |-> IF l \in S THEN b ELSE oldValue[l] ]

Press(place) ==
  /\ ~ held /\ held' = TRUE
  /\ flag' = LabelsSet(LabelsAt(place), TRUE)
  /\ oldValue' = LabelsWrote(LabelsAt(place), TRUE)
  /\ value' = Pressed(place)
  /\ NotSaved /\ call' = "none"
  /\ UNCHANGED <<pageCount, currentPage, doDraw, stale, placed, listening, guiFirst>>

\* Mutation: what is left is saved by the next update, as a line that is
\* commented out says.
ReleaseLeavesIt(place) ==
  /\ held /\ held' = FALSE
  /\ LET after == LabelsSet(LabelsAt(place), FALSE)
     IN  flag' = [ after EXCEPT !["doSave"] = @ \/ (listening /\ after["doAutoSave"]) ]
  /\ oldValue' = LabelsWrote(LabelsAt(place), FALSE)
  /\ value' = Released(place)
  /\ stale' = stale \ ControlsAt(place)
  /\ NotSaved /\ call' = "none"
  /\ UNCHANGED <<pageCount, currentPage, doDraw, placed, listening, guiFirst>>

\* The labels, registered before it, hear the release before the GUI does,
\* which saves if doAutoSave is still set then.  The controls of the pages,
\* which came after it, hear it later.
Release(place) ==
  /\ held /\ held' = FALSE
  /\ LET after == LabelsSet(LabelsAt(place), FALSE)
         saves == listening /\ after["doAutoSave"]
     IN  /\ flag' = [ after EXCEPT !["doSave"] = @ /\ ~ saves ]
         /\ Saved(saves, doDraw, after["doAutoSave"], currentPage,
                  IF guiFirst THEN value ELSE Released(place))
  /\ oldValue' = LabelsWrote(LabelsAt(place), FALSE)
  /\ value' = Released(place)
  /\ stale' = stale \ ControlsAt(place)
  /\ call' = "none"
  /\ UNCHANGED <<pageCount, currentPage, doDraw, placed, listening, guiFirst>>

UpdateGui ==
  /\ listening
  /\ LET page == IF flag["changePage"] THEN Wrapped(currentPage + 1, pageCount) ELSE currentPage
         saves == flag["doSave"] \/ flag["doSaveBackup"]
     IN  /\ currentPage' = page
         /\ Saved(saves, doDraw, flag["doAutoSave"], page, value)
  /\ flag' = [ flag EXCEPT !["changePage"] = FALSE, !["doSave"] = FALSE ]
  /\ call' = "none"
  /\ UNCHANGED <<doDraw, listening, guiFirst>> /\ MouseAndControls

Draw ==
  /\ doDraw
  /\ placed' = placed \cup {currentPage}
  /\ UNCHANGED <<pageCount, currentPage, doDraw, flag, oldValue, value, stale, listening,
                 guiFirst, held>>
  /\ NotSaved /\ call' = "none"

-----------------------------------------------------------------------------
(* The application ends at any time, and has no pages then.  It starts     *)
(* with setup(), its n pages and loadFromXML(), after which                *)
(* setDraw(doDraw) finds nothing to do.  The GUI is a static object, so    *)
(* that doDraw is false before setup().  A control that was saved on is    *)
(* not loaded if the oldValue it never set happens to say so: set(true)    *)
(* does nothing then.  Without a file nothing writes oldValue at all.      *)

\* The pages from 2 to n - 1 whose control was saved on.
SavedOn(n) == { p \in 2 .. n - 1 : p \in DOMAIN file.value /\ file.value[p] }

Start(n) ==
  /\ pageCount' = n
  /\ currentPage' = IF file = NoFile THEN n - 1 ELSE Wrapped(file.page, n)
  /\ doDraw' = (file = NoFile \/ file.doDraw)
  /\ flag' = [ l \in LabelSet |-> l = "doAutoSave" /\ file.doAutoSave ]
  /\ oldValue' \in [ LabelSet -> BOOLEAN ]
  /\ \E loaded \in SUBSET SavedOn(n) :
       /\ value' = [ p \in 2 .. n - 1 |-> p \in loaded ]
       /\ stale' \in IF file = NoFile THEN SUBSET (Momentary \cap 2 .. n - 1)
                     ELSE { (SavedOn(n) \ loaded) \cap Momentary }
  /\ placed' = {} /\ listening' = TRUE /\ guiFirst' = TRUE /\ held' = FALSE
  /\ kept' = FALSE /\ call' = "start"
  /\ UNCHANGED file

End ==
  /\ pageCount' = 0 /\ currentPage' = 0
  /\ doDraw' = FALSE /\ listening' = FALSE
  /\ flag' = [ l \in LabelSet |-> FALSE ] /\ oldValue' = [ l \in LabelSet |-> FALSE ]
  /\ value' = <<>> /\ stale' = {} /\ placed' = {} /\ guiFirst' = FALSE /\ held' = FALSE
  /\ kept' = FALSE /\ call' = "none"
  /\ UNCHANGED file

GuiTooInit ==
  /\ pageCount = 0 /\ currentPage = 0
  /\ doDraw = FALSE /\ listening = FALSE
  /\ flag = [ l \in LabelSet |-> FALSE ] /\ oldValue = [ l \in LabelSet |-> FALSE ]
  /\ value = <<>> /\ stale = {} /\ placed = {} /\ guiFirst = FALSE /\ held = FALSE
  /\ file = NoFile /\ kept = FALSE /\ call = "none"

Running ==
  \/ ToggleDraw \/ NextPageWithBlank \/ UpdateGui \/ Draw \/ End
  \/ \E b \in BOOLEAN : SetAutoSave(b)
  \/ \E i \in 0 .. MaxPages : SetPage(i)
  \/ \E place \in Places : Press(place) \/ Release(place)

GuiTooNext ==
  \/ pageCount = 0 /\ \E n \in 3 .. MaxPages : Start(n)
  \/ pageCount > 0 /\ Running

GuiTooSpec == GuiTooInit /\ [][GuiTooNext]_guiTooVars

-----------------------------------------------------------------------------
(* Properties.                                                             *)

\* A GUI that is shown has its handlers, whatever was loaded and toggled.  A
\* hidden one may have them too: loadFromXML() hides it behind setDraw().
ShownIsListening == doDraw => listening

\* Types; the current page is one of the application's, also after a file
\* that a version with more pages wrote, and what is shown can be clicked.
GuiTooTypeOK ==
  /\ ShownIsListening
  /\ pageCount \in {0} \cup 3 .. MaxPages
  /\ pageCount > 0 => currentPage \in UserPages
  /\ doDraw \in BOOLEAN /\ listening \in BOOLEAN /\ held \in BOOLEAN
  /\ guiFirst \in BOOLEAN /\ kept \in BOOLEAN
  /\ flag \in [ LabelSet -> BOOLEAN ] /\ oldValue \in [ LabelSet -> BOOLEAN ]
  /\ value \in [ UserPages -> BOOLEAN ] /\ placed \subseteq UserPages
  /\ stale \subseteq Momentary \cap UserPages
  /\ file # NoFile => file.page \in 2 .. MaxPages - 1

\* While the GUI is shown and auto save is on, the file has what the controls
\* say whenever no button is down: also after clicks that were made while it
\* was hidden, which the controls hear and the GUI does not.  A button can be
\* up and saved as pressed, as it hears the release that lets it up after the
\* GUI has saved; no longer so once the GUI was hidden and shown again.
SavedWhileShown ==
  kept /\ doDraw /\ ~ held =>
    \A p \in UserPages :
       /\ p \in DOMAIN file.value
       /\ value[p] => file.value[p]
       /\ p \notin Momentary \/ ~ guiFirst => value[p] = file.value[p]

\* What changelog.txt:15 says of the XML file: controls "still load values
\* correctly".  One that is in the file loads the value it was saved with.
SavedIsLoaded ==
  [][ call' = "start" =>
        \A p \in UserPages' \cap DOMAIN file.value : value'[p] = file.value[p] ]_guiTooVars
=============================================================================
