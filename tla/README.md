# A TLA+ verification of ofxPrimes

ofxPrimes is a set of openFrameworks addons for tangible interfaces: a camera
looks at markers ("fiducials") on a table, a tracker recognises them frame by
frame, an engine turns what the tracker sees into events, and pages of controls
appear at the markers. Around this pipeline are addons for mouse and touch
interaction, OSC and TUIO over the network, and a WebSocket server.

The project models the pipeline from the pixels of a frame to the pages on the
screen, what the mouse does to pages and controls, and the listeners of the
network; it checks them with TLC on small instances, and proves the main promises
of the pipeline with TLAPS for all instances.

## Inventory

Paths are relative to `src/`. "State" is what survives from one call to the next.

| component | source | state | operations | what makes it hard | what makes it correct |
|---|---|---|---|---|---|
| Fiducial tracker | `ofxFiducialFinder/src/ofxFiducialTracker.*`, `ofxFiducial.h` | list of entries (life, state, current and last position, corners), segmenter allocated or not, frame size | `findFiducials`, `initTree`, `initDefaultTree` | life goes up by two and down by one; `isAlive()` has side effects; the filter falls back on `last`; two copies of a marker share an entry | entries survive short gaps, do not linger, report positions near the measured ones |
| Physics engine | `ofxFiducialBacked/src/physics/PhysicsEngine.*` | last reported state per id, edge per id | `update` (status scan, ray scan) | runs at another rate than the tracker whose list it reads; iterator into a map it writes | Found and Lost alternate; no marker is lost silently; edges start at reported markers |
| Ray routines | `.../physics/PhysicsRoutines.*` | none | ray and segment intersection | real arithmetic | nearest fiducial is hit |
| GuiGraph, GuiPage | `ofxFiducialBacked/src/gui/` | pages by id (enabled, mouse listeners, position), ray segments | `add`, `remove`, `setup`, `fiducialFound/Lost/Updated`, `fiducialRayTermination`, `activate` | listener order; activations must be balanced | pages and segments follow the markers |
| GuiSet | `.../gui/GuiSet.*` | list of pages | as GuiGraph | | as GuiGraph |
| GuiManager | `ofxProtobufBacked/src/gui/GuiManager.*` | its graph | engine's events, fetch from memcached, OSC export | fetch can fail, once per Found | a page per found marker, once it was fetched |
| Segmenter | `ofxFiducialFinder/src/libfidtrack/segment.*` | references and regions of the rows read so far, free list | `step_segmenter` | regions merge while later pixels still point at them; adjacency lists of a fixed size | regions are the connected components; a lost neighbour is flagged |
| Marker recognition | `.../libfidtrack/fidtrackX.cpp` | levels, counts and depths of the regions, candidates | `find_roots`, `set_depth` | reached from any leaf, in any order | every symbol is a candidate; its name does not depend on the order of regions |
| Finger tracking | `ofxFiducialTracker.cpp:149-232`, `ofxFinger.h` | list of fingers | `findFingers` | regions are matched one at a time | a finger is where a region is |
| Interactive object | `ofxMSAInteractiveObject/src/` | `enabled`, mouse over, mouse down | mouse, key and app handlers | moves and disabling between press and release | press and release are paired |
| Draggables | `ofxDraggable/src/`, `ofxDraggableGui/src/` | saved click, draggable or not | `onPress`, `onDragOver` | the object follows events its own movement causes | the clicked point stays under the mouse |
| SimpleGuiToo controls | `ofxSimpleGuiToo/src/Controls/` | value, the value before, lock of the 2d slider | mouse and key callbacks | the application writes the same variable | the value is what the mouse or key made it |
| SimpleGuiToo pages | `ofxSimpleGuiToo/src/ofxSimpleGuiToo.cpp` | current page, drawing flag, listeners, labels, file | turning, showing, saving, loading | handlers of one event in no written order; controls hear the mouse when nothing shows them | the current page exists; what is shown listens; the file has what the controls say |
| TUIO client | `ofxRemoteControl/src/msaRemoteClient.h` | cursors, objects, alive lists, free finger ids, frame numbers | `set`, `alive`, `fseq` | loss and reordering on UDP | what is listed is alive; finger ids are unique |
| Remote control gestures | `ofxRemoteControl/src/ofxRemoteControl.*` | the last pair's angle and distance | `update`, cursor events | cursors come and go between two updates | the pose does not jump |
| OSC receiver, importer | `ofxOsc/src/ofxOscReceiver.cpp`, `ofxProtobufBacked/src/osc/OscImporter.cpp` | message queue, mutex | listening thread, `hasWaitingMessages`, `getNextMessage`, `update` | two threads | no message lost, doubled, reordered or held back |
| OSC sender, exporter | `ofxOsc/src/ofxOscSender.cpp`, ... | none | send | | |
| WebSocket | `ofxWebSocket/src/` | buffer, handshake flags, ready state | `onReadable`, `onShutdown` | frames split over reads; the byte that opens a frame in its text | what is delivered was sent; what is read whole is delivered |
| Renderer, sensor wrappers | `renderer/`, `ofxBtStack`, `ofxOpenCl`, ... | | drawing, wrappers of devices | | |

How they interact: the application's loop calls `findFiducials` when the camera
has a frame and `Engine::update` at its own rate; the engine reads the tracker's
list in place and notifies its listeners synchronously; the listeners are the
handlers of a `GuiGraph` the application owns, or of a `GuiManager`, which
forwards to a graph of its own. Mouse, setup and draw events reach pages through
the openFrameworks event objects. Everything is one thread, except for the OSC
receiver and the WebSocket server. What interleaves in the pipeline are
therefore whole calls: frames, updates, the setup event, pages added and removed.

`PROJECT.json` lists the hazards of the code at their lines, with the properties
that cover them.

## Plan

1. `FiducialTracker`, `PhysicsEngine`, `GuiGraph`, `GuiManager`, each over the
   one before - done.
2. Their proofs - done.
3. `Presence`, what the pipeline promises the application, implemented by
   `PhysicsEngine` - done.
4. `ObjectEvents`, and over it `InteractiveObject`, `GuiPageMouse`, `Draggable`,
   `ButtonControl`, `SliderControl`; `SimpleGuiToo` - done, and
   proved about.
5. `FingerIds`, `TuioClient`, `RemoteControl` - done, and proved about.
6. `MessageQueue` and `OscReceiver`, which implements it; `WebSocketHandler` -
   done; of the receiver the types and the refinement are proved.
7. `Segmenter`, `SymbolRoots`, `DepthStrings`, `FingerTracker` - done, as
   algorithms against reference definitions; of the fingers all is proved, of the
   segmenter that its lists are sound.

## Modules

The modules of the pipeline, `FiducialTracker` to `GuiManager`, each EXTEND the
one before, so that a step of a later module is a step of all earlier ones
together with its own effect. The others stand alone, or on a module of
operators they share. Five MC modules check several of them in one run
(`MCGuis`, `MCMouse`, `MCRecognition`, `MCRemoteControl`, `MCSockets`): a variable `part`
says which component a behaviour is about, and the variables of the others rest.

### FiducialTracker

One action per operation: `ProcessFrame` is `findFiducials` with a frame that is
segmented (matching, ageing and erasing are one step, as in the code),
`RejectFrame` is a frame given up because the pixel probed is not black,
`ReloadTrees` is `initTree` or `initDefaultTree`. With `DetectFinger`, the
frame also computes the corners of any of its entries (`Asked`): `findFingers`
asks the entries one by one whether a region is inside them, and `isPointInside()`
computes what was not computed yet, whatever the id.

| TLA+ | code |
|---|---|
| `fiducialsList` | `fiducialsList`, as a function from the listed ids to entries: `findFiducials` keeps one entry for each id |
| `life`, `state`, `current`, `last`, `updated`, `updateCorners` | the members of `ofxFiducial` |
| `corners` | `cornerPoints`, represented by the position they were computed at |
| `initialized`, `frameSize` | `initialized`, `m_width` and `m_height` |
| `Update`, `Aged`, `IsAlive`, `NewFiducial` | `update()`, the side effect and the result of `isAlive()`, the constructor followed by `operator=(FiducialX)` |
| `measured`, `missed` | history variables: the last measured position, the frames processed since |

A frame gives, for each id, the sequence of positions the recogniser reports. One
integer coordinate stands for x, y and the angle, which are filtered separately
and alike; "invalid" then means that this coordinate is invalid, where
`validFiducial` wants both to be. Speeds, sizes and time are left out: nothing in
the pipeline reads them. `ofxFiducial::state` is not set by the constructor; it is
the value `Uninitialised` until `isAlive()` writes it.

### PhysicsEngine

`EngineUpdate` is `Engine::update` (corners forced, status scan, ray scan).
`statusEvt` and `rayEvt` are the events the last update sent for each id; they are
reset by steps of the tracker. `fiducialStates` and `fiducialEdges` are the
engine's maps. The configuration is that of `config.h`: status and intersection
events are on, `NOTIFY_FIDUCIAL_INTERSECTION_STRICT` is off. What a ray meets is
any other listed fiducial that has corners (`Hits`): the geometry is abstracted.
The update computes those of the fiducials it reports; an ignored one has them
only from `findFingers` (`Shaped`).
The default routine casts one ray per fiducial; in it the iterator
`fiducialEdgePrev` and the element it points to are kept apart
(`EdgeAfterFound`), because the code writes the element between two reads.

`MaxLag` bounds the frames the tracker processes between two updates. It is an
assumption on the application: with 3 frames the list can drop a fiducial that
the engine has announced, and `FoundIsListed` fails; the runs and the theorems
use at most 2.

### GuiGraph

A page is `enabled`, the number of times its four mouse listeners are registered,
and its position. Handlers run inside the update that notifies them
(`GraphUpdate`). `SetUp` is the setup event of the application, in any order of
the listeners: pages that hear it before the graph activate themselves.
`KeepsDuplicates` is the one external choice: whether the event library keeps a
listener that is added twice as two. `selfMade` remembers the pages that
activated themselves at the setup event. A page that is removed while it listens
leaves the model with its map entry.

### GuiManager

The graph inside the manager: pages come from memcached at the first Found for
which the fetch succeeds (`answers`), none is removed, and ray events are not
forwarded. `setup()` runs before there are pages.

### Presence

Per marker: absent, found or lost, with the events that may be told in each. It
is what a listener of the engine has to know of the tracker and the engine, and
`EngineImplementsPresence` shows that `PhysicsEngine` implements it, with the
engine's recorded states as the state of a marker (`PresenceOf`).

### ObjectEvents and InteractiveObject

`ObjectEvents` has the mouse handlers of `ofxMSAInteractiveObject` as functions
from an object and an event to the object and the callbacks, so that every class
derived from it can be modelled over the same definitions. An object is an
interval on a line, the mouse a point; `InteractiveObject` lets the application
move, enable and take it off the mouse between any two events. `MaxMoves` bounds
its moves; with two of them `mouseOver` may also be stale between updates, with
one the interesting orders are all there.

### GuiPageMouse, Draggable

A page relocates mouse events to its own coordinates, hands them to its content,
and follows a drag of the content (`offset`) until the next update of its marker,
which puts the offset back (`GuiGraph.cpp:154`). `Draggable` is the base class,
which the application updates and which then hears of its own movement, and
`ofxDraggableGui`, which asks the controls under the mouse whether to move; they
are where they were drawn last (`drawn`). A history variable, `grip`, is the point
of the object or the content the last press took hold of.
`MaxDrag` and `Reach` bound how far a page is dragged and how far out coordinates
may be relocated.

### ButtonControl, SliderControl

A momentary button or a toggle, under the mouse, under its key and in an
application that resets the variable; `escaped` remembers that a release went
elsewhere. A slider without smoothing maps the mouse to a value and clamps it;
the point of the two-dimensional slider is modelled with its lock beside it. The
slider's `Slider2D` value is never written by the mouse, since nothing calls
`update()` of it, and the movie slider has the same lock problem
(`ofxSimpleGuiMovieSlider.cpp:101`).

### SimpleGuiToo

The current page, `doDraw`, the listeners, the labels of the header and the
footer with their values, and the settings file over restarts of the application
(`Start`, `End`). Each page has one control, a toggle or, on the pages of
`Momentary`, a momentary button. Header and footer are never drawn, so that their
labels and all controls that were not drawn yet sit at one place and react
together (`LabelsAt`, `ControlsAt`), shown or not. `set()` compares with `oldValue`,
which the constructors leave unwritten: it is any value at a start, of the labels
as a variable, of a control as the choice whether what was saved on is loaded
(`loaded`) and, for a momentary button, whether its next `set(true)` does anything
(`stale`).

Listeners of an event are called in the order they were added in. At a start the
GUI's own come before those of the pages' controls (`guiFirst`), so that a release
saves before a momentary button hears it and is let up: the file says it is
pressed. Hiding the GUI and showing it again adds its handlers anew, behind them;
an event library that keeps the place of a handler it knows would leave them
where they were, which is the other choice in `SetDraw`. The `.bak` file and the
other controls are left out.

### Segmenter

One action for each pixel of `build_regions()`, which continues the span to the
left, joins the region above, merges the two, or starts a region (`Continue`,
`Join`, `Merge`, `NewRegion`). The adjacency lists have `MaxAdjacent` places;
`initialize_segmenter` gives room for two more than it admits. The reference is
the connected components of the pixels read so far. `BoxesAreExact` leaves out
what the code leaves out: the right edge of a region at the right border or on
the top line, and the lower edge of one that reaches the left border.

### SymbolRoots, DepthStrings

`SymbolRoots` starts from any region graph (two colours, every region connected
to a flagged one) and takes the leaves in any order. The list of a region is a
bag, since the segmenter may leave a neighbour in it twice (see below) and the code
counts entries. `MaxSpoilt` bounds the flagged regions and the pairs that list each
other twice, taken together. Two regions that list each other twice wait for each
other to be counted first, so that the search reaches neither: what it does reach
lists nobody twice (`OneParentIsLeft`), no region is counted twice, and the assertion
that there is one parent (`fidtrackX.cpp:392`) holds. What is lost is the symbol
they belong to. More than two entries of one region are left out: that argument is
the same for them. `DepthStrings` compares the
names of any two trees with their isomorphism. The prefix with the colour of the
root is left out; it only tells more symbols apart.

### FingerTracker

`findFingers` with the size of a finger as `MaxFingerSize` (4 by default), over a
list that is matched, updated and aged in one step. Whether a region looks like a
finger is an input. `detectFinger` is off unless the application sets it.

### FingerIds, TuioClient, RemoteControl

`FingerIds` has the finger ids as operators on a record, and a specification of
its own under any sequence of cursors. `TuioClient` puts a tracker and a network
in front of `getMessage()`: bundles of an `alive`, some `set` and an `fseq`
message get lost, come late or twice, and the tracker may start again. The steps
of the tracker and the network wait for an empty queue; since neither sees the
client, this leaves out no state of the client. `RemoteControl` adds the gesture
of two fingers at the end of `getMessage()`. `MaxCopies` bounds copies in the
free list, which the code does not.

### MessageQueue and OscReceiver

`OscReceiver` has one action for each step of a thread between two others that
the other thread can see: taking and giving back the mutex, reading the queue,
writing it back. `MessageQueue` is the queue it promises, and `ReceiverIsQueue`
the refinement, with liveness.

### WebSocketHandler

A request of three bytes and frames of four, cut into reads of any length up to
`BUFFER_SIZE`. The text of a frame is two bytes; in the frames of `NulFrames` the
first of them is 0, the character U+0000, which is also the byte that opens a
frame: a read that begins between the two makes the handler take the rest of the
text for a frame (`Deliveries`). The buffer keeps old bytes, and what was never written is any of
`Garbage`. Sending, the parsing of headers and `onopen`, which is never called,
are left out.

## Runs

| run | instance | what it shows |
|---|---|---|
| `tracker` | 2 ids, positions 0, 1, 2, 2 sizes, 2 copies | `TrackerTypeOK`; `ConfirmedSurvivesTwoMisses`; `GoneAfterFourMisses`; `JitterIsBounded` |
| `engine` | 3 ids, one ignored, 1 position, fingers looked for, `MaxLag` 2 | `EngineTypeOK`, with edges that start at reported ids and end at reported or ignored ones; `FoundIsListed`; `CornersAreCurrent`; `LostOnlyOnMiss`; `EngineImplementsPresence`: Found, Updated and Lost come in an order that makes sense |
| `guis` | pages at markers: 2 ids, 1 position, pages added and removed freely, duplicates kept; pages of settings: up to 2, a toggle on the first and a momentary button on the second | of the markers `ListenersAreBalanced` (no listener without a reason), `SegmentsAreLive`; of the settings `GuiTooTypeOK`, with what is shown listening, and `SavedWhileShown` |
| `manager` | 1 id and an ignored one, 3 positions, failing fetches, duplicates kept, fairness | `PageMirrorsState`; `ActivePageIsListed`; `ActivePageIsAtMarker`; `VanishedIsDeactivated`; `VisibleIsActivated` |
| `mouse` | 2 buttons; an object on 3 points, controls, draggables, a page on up to 7 | `MouseTypeOK`; of the object `FlagsAreSound` (an object that is down is held, one under the mouse knows it), `PressesPair`; of the button `PressTakesEffect`; of all controls `ControlsFollowMouse` (a momentary button lets go, the values of both sliders follow); of the draggables `RestingMouseMovesNothing`, `GripStaysUnderMouse`; of the page `GripFollowsMouse` |
| `recognition` | images of 3x4 (10 neighbours) and 5x3 (2 neighbours), 6 regions, trees of 5, 3 regions a frame for fingers of 4 pixels | of the segmenter `RegionsAreExact` (they are the components, in their boxes) and `AdjacencyIsSound` (lists are mutual, and a loss is flagged); of the roots `SymbolsAreFound`, with one entry left to climb to and counts of whole subtrees, of symbols whose regions list nobody twice; `StringsTellTrees`; `FingersFlicker` |
| `remote` | 3 sessions and fingers, 4 frames, a restart; with both profiles a session of each and 2 bundles in flight | `ListsAreSound` (what is listed is alive); `IdsAreDealtOnce`; `InOrderIsApplied`; `PairsAreCompared` |
| `sockets` | 4 OSC messages; a buffer of 6 bytes and 3 frames, one with a U+0000 | `SocketsTypeOK`, with a queue that holds what the application tested for; of OSC `ReceiverIsQueue`; of the WebSocket `StreamIsRead` (a message is the text of a frame or what a cut left of one with a U+0000, a request is seen), `WholeFramesArrive` |
| `tracker_newcomer`, `pages_loaded`, `recognition_lists`, `osc_importer` | as `tracker` with 1 id, `guis` with the settings alone, images of 4x3 with room for 10 neighbours, `sockets` with one object | the disagreements below |

**Why the bounds are enough.** Ids interact in the tracker only by being in one
frame, so two of them are all interleavings of two entries; the ray scan needs
three for a ray to move from one to another. Positions 0, 1, 2 give a movement
within the threshold, one beyond it, and the chain 0, 1, 2 in which jitters could
add up; where a module does not compare positions, one of them against "invalid"
suffices. Two copies of a marker are the most that takes a path of its own: a
third report takes the branches of the second. No counter is cut off in the
pipeline: `life` is bounded by the code, `missed` by `life`, `lag` by `MaxLag`.

The mouse only ever asks whether a point is inside an interval, on a line; a
second dimension would ask the same again. Points on both sides of an object and
in it, and a move by one, give each answer before and after a move. Images of 3
by 4 pixels have regions around others, and merges of regions that share a
neighbour; those of 5 by 3 fill and overflow lists of two. Six regions are a
symbol with room around it, and two symbols that share a parent; two of them
spoilt are a root with a fragment, or one with a pair listed twice. Three cursors
are what the pair of a gesture can lose one of, and what leaves a hole in the
ids. Four frames are two in order after one that was late. Two threads at one
queue have all their orders with three messages. A buffer of 6 bytes cuts requests
and frames of 4 at every place, and holds a whole frame with a part of the next.
Bundles that repeat a state with the frame number -1, which TUIO allows, are not
sent. Frames, messages and restarts are cut off, so
that `recognition`, `remote` and `sockets` end: deadlock is not checked there
(the search for symbols ends in the code as well). The segmenter and the lists of
fingers never end, up to `MaxFingers`.

**Fairness.** In `manager`, weak fairness of processing a frame and of updating
the engine. The camera delivers frames and openFrameworks calls the application's
`update` as long as it runs; both steps are always possible in the end, a frame
after an update and an update at any time. No fairness is assumed of what the
frames show, of memcached, or of reloads. `VisibleIsActivated` speaks of pages
that exist: a fetch that always fails gives none. In `sockets`, strong fairness
of each of the two threads at the OSC queue: a thread that waits for a mutex the
other one takes again and again gets it in the end, which the scheduling of
threads gives and the mutex does not promise. Nobody has to send anything.
`MessageQueue` promises weak fairness of handing over.

### What the code does not do

Four runs show it, and TLC must find them violated.

- `SurvivesTwoMisses`: `ofxFiducial.h:133` says a fiducial "survives for 2 frames
  if found missing". One sighted in a single frame does not survive the first
  miss, because its first frame already costs it a life.
- `SavedIsLoaded`: `changelog.txt:15` of ofxSimpleGuiToo says that controls "still
  load values correctly". `set()` leaves a control as it is if `oldValue`, which
  nothing has written, happens to be what the file says.
- `CommonAdjacenciesAreRemoved`: `segment.cpp:281` says of `merge_regions()` that all
  common adjacencies are removed first. The loop passes over the entry it has just
  moved into the gap, which both regions then list twice. A leaf with such a list
  is not taken for one, and a symbol it belongs to is not found.
- `DetailsAreCopied` with the importer's one message object:
  `ofxOscReceiver.h:56` says a message's details are copied into the object. They
  are appended to what it has, so that from the second message of an update on
  `recv()` gets the arguments of all before it.

The models contain, without a run, other things a reader of the comments would
not expect:

- An entry of life 2 that is updated keeps 4, above `MAX_FIDUCIAL_LIFE`. A small
  movement puts the position back to `last`, which is -100 for an entry appended
  in the same frame. A finger starts with a life of 1, and the first frame that
  misses it erases it, where `ofxFinger.h:87` speaks of 2 frames; with the default
  size no finger lasts from one frame to the next (`FingersFlicker`).
- `PhysicsEngine.cpp:246` says "Do not do intersection tests on fiducials which have
  not sent a status event". The end a ray starts from is tested for that, the end
  it meets is not: `validInputFiducial()` is never called. Ignored fiducials have no
  corners to be met by, unless `detectFinger` is on; `EngineTypeOK` says which edges
  there are.
- `onRelease()` of the two-dimensional slider has no parameters and hides
  `onRelease(int, int, int)`: a release over the slider does not unlock it, and later
  drags over it move it (`ControlsFollowMouse`).
- `GuiGraph::setup` disables pages that may have added their mouse listeners, and
  `GuiPage` hands events to its content without looking at `enabled`.
- A release while an object is disabled leaves it down. A drag into an object
  sets the mouse over flag without `onRollOver`, and `onRollOut` follows. The
  first update of an object tests a mouse position that was never set.
- The event a moved page makes up for its content is relocated twice. An object
  that is entered by a drag jumps by the offset of some earlier click.
- `setPage(1)` shows the last page, though the index is "1 based". A press and a
  release between two updates loses the click; a GUI that was reopened is saved
  with the old page; hidden pages' controls go on reacting, and nothing saves what they did until the
  GUI is shown again; a momentary button is saved as pressed by the release that
  lets it up; `loadFromXML` hides
  the GUI without removing its handlers; the label of "Auto Save" is on only while
  it is pressed. The constructor of the title sets the application's variable to
  false (`ofxSimpleGuiTitle.cpp:14`).
- The climb for symbols enters a fragmented region once all of its neighbours were counted.
- The frame number of a bundle comes after what it should guard, so that the
  numbers of the two bundles before are compared: a late bundle is applied, and
  the good one after it dropped. The free list of finger ids outlives the last
  cursor (put two fingers down, lift the first, then the second); afterwards two
  cursors may share an id, and the code may take the front of an empty list. With
  three fingers, lifting the first leaves a pair without a new baseline, and the
  pose jumps by the difference of two pairs: a new cursor is only noticed by a
  finger id of 0 or 1 among two cursors. `newCursorDetected` is never
  initialised.
- The destructor of the OSC receiver does not stop its thread.
- WebSocket frames that are split over two reads are lost, and of one that is split
  before a U+0000 the rest is delivered as a frame of its own. A request whose blank
  line is split never opens the connection. The call that finds the request scans
  as many bytes behind it as it has read, some of which it has not. The answer is
  sent with the first bytes, before the request is complete.

## Proofs

| theorem | module | states, for all constants |
|---|---|---|
| `TrackerTypeCorrect` | `GuiManager_proofs` | `[]TrackerTypeOK` |
| `TrackerForgets` | | `[]GoneAfterFourMisses` |
| `TrackerFollows` | | `[]JitterIsBounded`, for any set of natural coordinates |
| `TrackerKeeps` | | `ConfirmedSurvivesTwoMisses` |
| `FoundStaysListed` | | `[]FoundIsListed`, if `MaxLag <= 2` |
| `EngineTypeCorrect` | | `[]EngineTypeOK` |
| `LostOnlyWhenMissed` | | `[]LostOnlyOnMiss` |
| `CornersFollowPositions` | | `[]CornersAreCurrent`, for any set of natural coordinates |
| `EngineKeepsPromise` | | `PhysicsEngine` implements `Presence`, if `MaxLag <= 2` |
| `ListenersStayBalanced` | | `[]ListenersAreBalanced`, whatever `KeepsDuplicates` says |
| `SegmentsStayLive` | | `[]SegmentsAreLive`, if `MaxLag <= 2` |
| `ManagerIsEngine` | | every run of the manager is a run of the engine |
| `PagesMirrorTheEngine` | | `[]PageMirrorsState` |
| `NoPageOutlivesItsMarker` | | `[]ActivePageIsListed`, if `MaxLag <= 2` |
| `PagesAreAtTheirMarkers` | | `[]ActivePageIsAtMarker`, if `MaxLag <= 2` and `MaxCopies = 1` |
| `ObjectTypeCorrect` | `Controls_proofs` | `[]ObjectTypeOK` |
| `PressesComeInPairs` | | `PressesPair`, for any buttons and moves |
| `DownOnlyUnderButton` | | `[]DownIsHeld` |
| `FlagsStaySound` | | `[]FlagsAreSound`, if `MaxMoves <= 1` |
| `ButtonTypeCorrect` | | `[]ButtonTypeOK` |
| `MomentaryButtonLetsGo` | | `[]MomentaryLetsGo`, the button's part of `ControlsFollowMouse` |
| `PressesTakeEffect` | | `PressTakesEffect` |
| `SliderTypeCorrect` | | `[]SliderTypeOK` |
| `SliderFollowsMouse` | | `[]ValueFollowsMouse`, if `MaxMoves = 0` |
| `HeldPointStaysAtMouse` | | `[]HeldPointFollows`, with one mouse button |
| `DragTypeCorrect` | | `[]DragTypeOK` |
| `GripStaysUnder` | | `GripStaysUnderMouse`, of both draggables |
| `RestingMouseMovesNone` | | `RestingMouseMovesNothing`, if there are no controls |
| `PageTypeCorrect` | | `[]PageTypeOK` |
| `GripFollows` | | `GripFollowsMouse` |
| `MouseTypeCorrect` | `Mouse_proofs` | `[]MouseTypeOK` |
| `ControlsFollow` | | `[]ControlsFollowMouse` |
| `PagesAreHeld` | | `GripFollowsMouse`, as the run has it |
| `PicturesRest` | | `RestingMouseMovesNothing`, as the run has it |
| `PressesSwitchOn` | | `PressTakesEffect`, as the run has it |
| `DragsKeepGrip` | | `GripStaysUnderMouse`, as the run has it |
| `GuiTooTypeCorrect` | `GuiManager_proofs` | `[]GuiTooTypeOK` |
| `FileFollowsControls` | | `[]SavedWhileShown` |
| `AdjacencyStaysSound` | `Recognition_proofs` | `[]AdjacencyIsSound`, for images of any size and lists of any length |
| `NewFingersFlicker` | | `FingersFlicker`, for frames of any regions in any places |
| `IdsStayDealtOnce` | `RemoteControl_proofs` | `[]IdsAreDealtOnce`, under any sequence of cursors |
| `ClientDealsOnce` | | the same of the client, whatever the network does |
| `TuioTypeCorrect` | | `[]TuioTypeOK` |
| `ListedStaysAlive` | | `[]ListedIsAlive` |
| `BundlesInOrderAreApplied` | | `[]InOrderIsApplied` |
| `PosesOfTwoDoNotJump` | | `PairsAreCompared` |
| `ListsStaySound` | `Remote_proofs` | `[]ListsAreSound`; `RunDealsOnce`, `RunAppliesInOrder` and `RunDoesNotJump` say the same of the other three properties of the run |
| `ReceiverTypeCorrect` | `Sockets_proofs` | `[]OscTypeOK` |
| `FreshObjectsAreExact` | | `[]DetailsAreCopied`, if each message gets an object of its own |
| `ReceiverImplementsQueue` | | `OscReceiver` implements the safety part of `MessageQueue` |
| `WebSocketTypeCorrect` | | `[]WsTypeOK` |
| `StreamIsReadRight` | | `[]StreamIsRead`, for any buffer, any `NulFrames` and any way to cut the bytes |
| `WholeFramesAreHeard` | | `WholeFramesArrive` |
| `SocketsTypeCorrect` | | `[]SocketsTypeOK` |

**The tracker.** None of the properties is inductive. `EntryInv` is: for an entry
that was sighted twice, the life and the frames that missed it add up to 3 or 4;
one sighted once has a life of 1; `current` and `last` agree between frames; and a
confirmed `last` is within the threshold of the last measurement. The last part
is why jitter cannot add up: the filter compares the new measurement with
`current = last`, so that a rejected movement is measured from where the marker
is reported and not from where it was measured before. A frame is proved to keep
the invariant entry by entry, for one report, two reports and none.

**The engine.** `EngineInv` adds that a fiducial recorded as found is listed with
a life of at least 3 less the frames since the update. A Found needs a sighting
in the last frame, which `EntryInv` turns into a life of 3 or 4; each missing
frame takes one; after two there is one left. This is where `MaxLag <= 2` comes
from, and why it cannot be weakened. What holds at any rate needs less:
`RecordsInv`, that nothing but lost and found is recorded, and `EdgesInv`, that
edges start at recorded fiducials and end at recorded or, with `DetectFinger`, ignored
ones. `ShapesInv` is why: only those have corners. The corners follow the position because an update
computes them before rays are cast, and every later frame moves them along.

**The promise.** An update sends the event of the pair of the recorded state and
the one it finds. With `EngineInv` a fiducial that is held for found is looked at
by every update, so that none of the events that `Presence` does not allow can
come, and none that it owes is left out. A frame is a stutter of `Presence`.

**The graph.** A segment exists because a ray of a fiducial that was found
terminated, and the event that says the fiducial is lost takes it away. With
`EngineInv` that event comes before the entry is erased. The listeners of a page are
counted against its reasons: a Found adds one and is told of a marker that was not
held for found, a Lost takes one away and is told of one that was, and the setup
event activates a page once.

**The manager.** `PagesInv` says that the pages mirror the recorded states, which
is inductive once entries are known to have no unset state: every change of a
recorded state comes with exactly the event that activates or deactivates the
page. That a page goes with its marker follows from this and `FoundStaysListed`,
through `ManagerIsEngine`. That an update leaves it at the marker takes
`FoundIsConfirmed` besides: with a single copy of each marker a fiducial that is
found was updated after it had been appended, so that the filter had a last
position to fall back on. Two copies in the frame that appends an entry break it.

**The object.** The handlers are first described field by field, for objects at
any integer place, so that the same lemmas serve the classes derived from it.
`OpenInv` says that an object is down exactly from an `onPress` to the release
that answers it; `DownIsHeld`, that while it heard everything it is down only
under a button that was pressed over it. `PlaceInv` relates the flag of the mouse
to the place the object had when it looked. An object that is moved away and back
between two updates finds itself where it was and does not look, which is why two
moves are one too many for `FlagsAreSound`.

**The controls.** The button, the slider and the draggables make steps of the
object, or none. `HoldInv`: a momentary button that has written TRUE last is held
by the mouse or by its key, unless a release escaped it. `FollowInv`: after one
event in a place the bar is inside the slider or the value is shown, after two it
is shown. `DragInv`: while there is a grip, the object is down and the saved
click is the grip, so that whatever drags it puts the grip under the mouse;
`RestInv`, that without controls this has already been done, which is why the
events a moved object makes up for itself move it no further. With controls it
need not have been, so the theorem leaves them out. Under two
buttons the mouse may move unheard over a disabled object that is down, hence the
one button of `HeldPointStaysAtMouse`; the sliders are not moved in the
repository.

**The page.** The content never moves in the page and is always enabled
(`ContentInv`), and while it is down there is a button that was pressed on it. The
grip, while there is one, is the saved click and a point of the content. A drag
adds the way from the grip to the relocated mouse to the offset, so that the mouse,
relocated with the new offset, is at the grip again: whatever moved the page or
the offset before. Nothing about how far the page goes is needed, except that
`PageTypeOK` speaks of the bound.

**The run of the mouse.** `MCMouse` composes six parts, one of which moves at a
time. `Mouse_proofs` takes an instance of `Controls_proofs` for each, with the
positions and constants that part has, and `MouseInv` says of the part that moves
its invariant, and of the button that it is not momentary while another part
moves. So the theorems above carry over to the properties of the run, for every width, number
of buttons and bound of the moves. `RestingMouseMovesNothing` is about the picture,
which has no controls; a panel that is drawn somewhere else than it was may find
itself without a control under the mouse that rests, and the next event moves it.

**SimpleGuiToo.** `GuiTooPagesInv`: the page shown is one of the application's, and
the file names one that some application had, so that loading it wraps it to a page
there is. `FlagsInv` says that a shown GUI listens, `ControlsInv` which controls there are.
With these `SavedWhileShown` is inductive: once this run has saved (`kept`), and while
no button is down, a shown GUI has in its file every control that is on, and of a
toggle also that it is off; of a momentary button too, unless the GUI hears the
release before the button does (`guiFirst`). A click the GUI hears ends in a release
that saves (`ReleaseSaves`), and showing it saves what was clicked while it was
hidden (`SetDrawSaves`).

**Fingers.** `FingersInv`: between two frames every finger of the list has its first
life and an id below the next one, in order, and with fingers of up to four pixels
it is astray (`Strayed`): one of its coordinates is the -100 the constructor set.
The loop over the regions, the search for a rival in it and the loop that ages
the list are folds. A finger that is new in a frame is where one of the regions
was, until a second region matches it, and without that it is aged away. The two
regions are then the witnesses that `FingersFlicker` asks for. If a finger has four
pixels they differ by at most one in some coordinate, which the jitter filter
resets to the last one, and that is -100 still: it is then out of reach of every
region, whose coordinates are natural (`PointsAssumption`).

**Finger ids.** `Dealt` says that used and free ids are disjoint and together all
numbers to the largest, each free once, two cursors never with one id. Adding
keeps it: the counts of a partition say that there is a free id exactly if fewer
cursors are listed than ids used. Removing the cursor of the largest id drops the
ids above the largest that is left, and what is dropped was free. It holds for
any number of fingers, while the free list has not outlived the last cursor
(`leftover`), after which the code itself does not keep it.

**Folds.** An `alive` message removes cursors one after the other, which the model
writes as a fold. `FoldTheorems` shows for any operator, as a constant of the
module, that a fold is what a sequence of steps leads to, and that numbers are
reached one by one; an instance with the operator of the fold then gives the
induction. This is how `Dealt` and `ListedIsAlive` get through a message that
removes any number of cursors.

**The regions.** `AdjacencyIsSound` says of every list what the assertions of
`merge_regions()` and `make_adjacent()` say of two at a time, and more. The proof has
three layers. `Sound` relates the lists to a set of pairs that touch: two regions
list each other equally often, nobody lists itself or a freed region, a listed
pair touches, and a pair that touches unlisted has cost both their flag. Equally
often, and not once, because the loop that removes shared neighbours does not
look at the one it moves into a gap, and so leaves some that are then listed
twice; counting is what survives that. `MadeAdjacentIsSound` and `MergedIsSound` take
`Sound` through the two functions, their loops as folds, with one more pair that
touches and with two regions that become one. `Pointed` is about the references:
each has a rank that the redirects take down, so they end, at a reference whose
region no other end has; a sequence `m` of the regions of the pixels is a witness,
of which `PointedRegions` shows that it is `RegionOf`. `Coloured` and `Borders` are the
geometry: pixels that touch and are of one colour are in one region, and a new
pixel touches only the one before and the one above. That the pixel before and
the one above touch by the corner between them is why a pixel that goes on or
joins adds no pair. `SegState` has all of it and says where the allocated regions
are, in use or freed once.

**The client.** `InboxOK`: the queue holds one bundle or the rest of one, in
which what is set is alive. `FramesOK`: after a bundle in order the numbers
compared do not make the next one look old, as long as the next comes in order.
`AppliedOK`: a bundle that does not look old has replaced the alive list before
it sets anything. TLC checked this invariant, with one and with two profiles,
before it was proved.

**The gesture.** `GestureInv`: as long as no new cursor was noticed, every cursor
with an id of 0 or 1 is in the baseline. If both cursors have such ids the pair
is the baseline. The proof needs no bound on the fingers. An earlier form of
`PairsAreCompared`, that a jump needs more than two cursors since the baseline was
taken, was not inductive for a good reason: it is false of four fingers, of which
two with the ids 2 and 3 may be left; after an update that takes them for the
baseline, the first may go and another come with the id 2, unnoticed. The run,
which has three fingers, did not show it.

**The run of the remote control.** `Remote_proofs` does for `MCRemoteControl` what
`Mouse_proofs` does for `MCMouse`: the plain theorems serve the remote control and
the ids, an instance of them the client with both profiles. `TrackerOK` adds the
types that the other invariants do not need, and that the network is finite. The
instance bounds the sessions of a bundle (`MaxSeen`) and not `MaxFingers`: TLC
evaluates the ids once for all instances, so that with another `MaxFingers` the
run would have had ids that the instance does not have, and the properties that
speak of them could not be stated for all of its parts.

**The OSC receiver.** `NumbersInv`: the messages in the queue and the one the
application holds are consecutive numbers, from the next to be handed over to the
last appended. `ReadInv`: what a thread has read of the queue is still true of
it, or, of the length that was tested outside the mutex, can only have grown. A
step that appends or hands over is a step of `MessageQueue`, the others change
nothing it sees.

**The WebSocket.** The stream is described by positions: `At` says what the byte
at a position is, of the request and of every frame, and `WireInv` that the bytes
on the wire are those behind the ones that were read. The loop of `onReadable()` is
a fold, and by `FoldTheorems` an induction over the bytes of a piece: `BegunOK` and
`FoundOK` say what it knows at each position, which depends only on where the
piece began. So it has found exactly the frames that lie whole in the piece.
`RequestInv` is why a cut blank line is the only thing that keeps a connection
closed: the second byte was the last of its piece. `AreFrames` orders what was
received by the positions it was read up to. The call that finds the request also
scans bytes it has not read; nothing but their type is claimed of what it finds,
here as in the run. A byte 0 inside a text opens nothing while a frame is begun, so
that it matters only to the piece that begins before it: `Heard` is what is left of
a frame whose opening byte was in the piece before, and of such a frame what is found may be the end of its text (`Deliveries`).
The one assumption is that the text of a frame has no closing byte, which no text
in UTF-8 has.

The assumptions are those on the constants, stated in the modules: positions,
points and places are naturals, frames are not empty, one or two copies of a
marker, ignored ids are ids, sessions are finite, `MaxLag` and `MaxFingers` are
positive, a bundle has no more sessions than there are fingers (`MaxSeen`),
objects are wider than 1, the text of a frame is below 255. Where a theorem of
`Controls_proofs` has a hypothesis of its own, it is on the constants of an
instance and holds in `MCMouse`: the range of the slider is not empty
(`IsRange`), an object starts at an integer.

**Only model-checked:**

- `RegionsAreExact`, `SymbolsAreFound` and `StringsTellTrees` of `recognition`. They
  compare what the code computes with the components of an image, sums over
  subtrees and isomorphic trees, which are recursive: what they are for every
  input is an induction over data. (That no region is freed while it is used, a
  part of `RegionsAreExact`, is proved with `AdjacencyIsSound`, of the same module
  with any constants.)
- Liveness, which is out of TLAPS's reach: the two properties of `manager`, and
  that the receiver does not hold messages back.

## Mutations

Definitions marked "Mutation" are not part of the specification. They are
variants of the definition that follows them, as a plausible mistake in the code
would make it (a check dropped, a line lost, the `++life` that the source has
commented out). With the definition replaced by its variant TLC finds the
property that `PROJECT.json` names with it violated.

## Not modelled

- `GuiSet`, a variant of `GuiGraph` that nothing uses, and the OSC sender and
  exporter, which keep no state.
- The contents of pages (`GuiManager::recv` and what it exports), the rotation and
  scale of pages, and their key handlers.
- Real arithmetic: the geometry of rays, positions and angles of symbols, speeds
  and accelerations, the pose of the remote control, smoothed sliders.
- The remaining SimpleGuiToo controls (colour, movie, content, frame rate) and all
  layout and drawing.
- The lookup of symbol names in the tree map, `find_regionsX` and `check_finger`.
- Wrappers of devices and libraries (`ofxBtStack`, `ofxOpenCl`, `ofxCvMarkers`,
  `ofxiPhoneVideoCapture`, `ofxCvd`) and vendored code (TooN, libcvd, libdtouch,
  oscpack, memcached and BTstack headers). They are by far the largest part of the
  repository's lines, so that the share of all lines the models cover stays small
  whatever is added of the program itself.
