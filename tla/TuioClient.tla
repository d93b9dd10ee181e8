------------------------------- MODULE TuioClient -------------------------------
(***************************************************************************)
(* msaRemoteClient between a TUIO tracker, whose bundles reach it over UDP *)
(* (lost, late or twice), and the application, which calls getMessage()    *)
(* once in every pass of its loop.  A bundle of one of the two profiles is *)
(* a message with the sessions that are alive, a message for each cursor   *)
(* or object that is set, and a message with its frame number, in this     *)
(* order; the listening thread appends all of them to the queue.           *)
(*                                                                         *)
(* Positions and speeds, and the accelerometer, which is a message of its  *)
(* own, are left out.                                                      *)
(***************************************************************************)
EXTENDS FingerIds, Sequences, SequencesExt

CONSTANTS
  Profiles,     \* what the tracker reports: "cur", "obj"
  MaxSeen,      \* sessions of a profile that it sees at the same time
  MaxFrame,     \* frames of the tracker
  MaxRestarts,  \* of the tracker
  MaxInFlight   \* bundles on their way

ASSUME ProfilesAssumption == Profiles \subseteq {"cur", "obj"}
ASSUME MaxSeenAssumption == MaxSeen \in 1 .. MaxFingers
ASSUME MaxFrameAssumption == MaxFrame \in Nat
ASSUME MaxRestartsAssumption == MaxRestarts \in Nat
ASSUME MaxInFlightAssumption == MaxInFlight \in Nat \ {0}

VARIABLES
  surface,       \* the sessions the tracker sees, for each profile
  frame,         \* the number of its last frame
  restarts,
  network,       \* the bundles on their way
  inbox,         \* the messages in the receiver's queue
  draining,      \* the application is in the loop of getMessage()
  objectList,    \* the sessions of the objects
  aliveLists,    \* aliveCursorList and aliveObjectList
  currentFrame,
  lastFrame,
  bundle,        \* history: the bundle that is being handled
  inOrder        \* history: its predecessors that came in order, up to two

clientVars ==
  <<inbox, draining, fingers, leftover, objectList, aliveLists, currentFrame, lastFrame>>
trackerVars == <<surface, frame, restarts, network>>
tuioVars == <<clientVars, trackerVars, bundle, inOrder>>

-----------------------------------------------------------------------------
(* The tracker and the network.  Neither sees the client: that a step of   *)
(* theirs waits for the client to have handled a bundle leaves out no      *)
(* state of the client.                                                    *)

\* Session ids are not used again: one that nobody remembers stands for a
\* new one.
Fresh(p, s) ==
  /\ s \notin surface[p] \cup aliveLists[p] \cup bundle.alive
  /\ s \notin (IF p = "cur" THEN Listed(fingers) ELSE objectList)
  /\ \A b \in network : s \notin b.alive
  /\ \A i \in DOMAIN inbox : inbox[i].kind = "alive" => s \notin inbox[i].alive

\* What is new is set, and what has moved.  The network may make two of it.
Send(p, now, moved, copies) ==
  /\ inbox = <<>> /\ ~ draining
  /\ frame < MaxFrame
  /\ Cardinality(network) < MaxInFlight
  /\ Cardinality(now) <= MaxSeen
  /\ \A s \in now \ surface[p] : Fresh(p, s)
  /\ now \ surface[p] \subseteq moved
  /\ surface' = [surface EXCEPT ![p] = now]
  /\ frame' = frame + 1
  /\ network' = network \cup
       {[ profile |-> p, frame |-> frame', alive |-> now, set |-> moved,
          copies |-> copies ]}
  /\ UNCHANGED <<restarts, clientVars, bundle, inOrder>>

\* A tracker that is started again counts from the beginning.
RestartTracker ==
  /\ inbox = <<>> /\ ~ draining
  /\ frame > 0 /\ network = {} /\ restarts < MaxRestarts
  /\ frame' = 0
  /\ restarts' = restarts + 1
  /\ surface' = [ p \in Profiles |-> {} ]
  /\ UNCHANGED <<network, clientVars, bundle, inOrder>>

Lose(b) ==
  /\ inbox = <<>> /\ ~ draining
  /\ network' = network \ {b}
  /\ UNCHANGED <<surface, frame, restarts, clientVars, bundle, inOrder>>

MessagesOf(b, order) ==
  <<[ kind |-> "alive", profile |-> b.profile, alive |-> b.alive ]>>
  \o [ i \in DOMAIN order |-> [ kind |-> "set", profile |-> b.profile, sid |-> order[i] ] ]
  \o <<[ kind |-> "fseq", frame |-> b.frame ]>>

Deliver(b, order) ==
  /\ inbox = <<>>
  /\ inbox' = MessagesOf(b, order)
  /\ network' = (network \ {b}) \cup
       { c \in {[b EXCEPT !.copies = @ - 1]} : c.copies > 0 }
  /\ UNCHANGED <<surface, frame, restarts, draining, fingers, leftover, objectList, aliveLists,
                 currentFrame, lastFrame, bundle, inOrder>>

-----------------------------------------------------------------------------
(* getMessage().                                                           *)

\* The frame number of the bundle itself comes last: what is compared here
\* are those of the two bundles before it.
Outdated == currentFrame < lastFrame /\ currentFrame > 0

\* The cursors of sessions that are not alive any more, in the order of the
\* list those sessions are in.
RemovedInTurn(order) ==
  FoldLeft(LAMBDA r, s :
             IF s \notin Listed(r.fingers) THEN r
             ELSE [ fingers |-> Removed(r.fingers, s),
                    leftover |-> r.leftover \/ LeavesIdsBehind(Removed(r.fingers, s)) ],
           [ fingers |-> fingers, leftover |-> leftover ], order)

\* Mutation: the list of the sessions alive is not replaced.
HandleAliveKeeps(m) ==
  \E order \in SetToSeqs(aliveLists[m.profile] \ m.alive) :
    /\ IF m.profile = "obj"
       THEN objectList' = objectList \ ToSet(order) /\ UNCHANGED <<fingers, leftover>>
       ELSE /\ fingers' = RemovedInTurn(order).fingers
            /\ leftover' = RemovedInTurn(order).leftover
            /\ UNCHANGED objectList
    /\ UNCHANGED aliveLists

HandleAlive(m) ==
  \E order \in SetToSeqs(aliveLists[m.profile] \ m.alive) :
    /\ IF m.profile = "obj"
       THEN objectList' = objectList \ ToSet(order) /\ UNCHANGED <<fingers, leftover>>
       ELSE /\ fingers' = RemovedInTurn(order).fingers
            /\ leftover' = RemovedInTurn(order).leftover
            /\ UNCHANGED objectList
    /\ aliveLists' = [aliveLists EXCEPT ![m.profile] = m.alive]

HandleSet(m) ==
  /\ IF m.profile = "obj"
     THEN objectList' = objectList \cup {m.sid} /\ UNCHANGED fingers
     ELSE /\ IF m.sid \in Listed(fingers) THEN UNCHANGED fingers
             ELSE fingers' \in Added(fingers, m.sid)
          /\ UNCHANGED objectList
  /\ UNCHANGED <<aliveLists, leftover>>

\* Mutation: the largest frame number of all is remembered as the last.
HandleFseqLargest(m) ==
  /\ lastFrame' = Max({currentFrame, lastFrame})
  /\ currentFrame' = m.frame
  /\ inOrder' = IF m.frame > currentFrame THEN IF inOrder = 2 THEN 2 ELSE inOrder + 1 ELSE 0
  /\ UNCHANGED <<fingers, leftover, objectList, aliveLists>>

HandleFseq(m) ==
  /\ lastFrame' = IF currentFrame > 0 THEN currentFrame ELSE lastFrame
  /\ currentFrame' = m.frame
  /\ inOrder' = IF m.frame > currentFrame THEN IF inOrder = 2 THEN 2 ELSE inOrder + 1 ELSE 0
  /\ UNCHANGED <<fingers, leftover, objectList, aliveLists>>

GetMessage ==
  /\ ~ draining /\ inbox # <<>>
  /\ draining' = TRUE
  /\ UNCHANGED <<inbox, fingers, leftover, objectList, aliveLists, currentFrame, lastFrame,
                 trackerVars, bundle, inOrder>>

\* A message that is dropped ends the call; what is left waits for the next.
Handle ==
  /\ draining /\ inbox # <<>>
  /\ inbox' = Tail(inbox)
  /\ LET m == Head(inbox)
     IN  /\ bundle' = IF m.kind = "alive" THEN [ profile |-> m.profile, alive |-> m.alive ]
                      ELSE bundle
         /\ IF m.kind = "fseq" THEN HandleFseq(m) /\ UNCHANGED draining
            ELSE /\ UNCHANGED <<currentFrame, lastFrame, inOrder>>
                 /\ IF Outdated
                    THEN draining' = FALSE /\ UNCHANGED <<fingers, leftover, objectList, aliveLists>>
                    ELSE /\ UNCHANGED draining
                         /\ IF m.kind = "alive" THEN HandleAlive(m) ELSE HandleSet(m)
  /\ UNCHANGED trackerVars

NoMoreMessages ==
  /\ draining /\ inbox = <<>>
  /\ draining' = FALSE
  /\ UNCHANGED <<inbox, fingers, leftover, objectList, aliveLists, currentFrame, lastFrame,
                 trackerVars, bundle, inOrder>>

TuioInit ==
  /\ surface = [ p \in Profiles |-> {} ]
  /\ frame = 0 /\ restarts = 0 /\ network = {}
  /\ inbox = <<>> /\ draining = FALSE
  /\ IdsInit
  /\ objectList = {}
  /\ aliveLists = [ p \in Profiles |-> {} ]
  /\ currentFrame = -1 /\ lastFrame = -1
  /\ bundle = [ profile |-> "none", alive |-> {} ] /\ inOrder = 0

Tracker ==
  \/ \E p \in Profiles, now \in SUBSET Sessions , copies \in 1 .. 2 :
        \E moved \in SUBSET now : Send(p, now, moved, copies)
  \/ RestartTracker
  \/ \E b \in network : Lose(b)
  \/ \E b \in network : \E order \in SetToSeqs(b.set) : Deliver(b, order)

TuioNext == Tracker \/ GetMessage \/ Handle \/ NoMoreMessages

TuioSpec == TuioInit /\ [][TuioNext]_tuioVars

-----------------------------------------------------------------------------
(* Properties.                                                             *)

\* Types.
TuioTypeOK ==
  /\ surface \in [Profiles -> SUBSET Sessions]
  /\ frame \in 0 .. MaxFrame /\ restarts \in 0 .. MaxRestarts
  /\ Cardinality(network) <= MaxInFlight
  /\ draining \in BOOLEAN
  /\ FingersTypeOK
  /\ objectList \subseteq Sessions
  /\ aliveLists \in [Profiles -> SUBSET Sessions]
  /\ {currentFrame, lastFrame} \subseteq {-1} \cup 1 .. MaxFrame
  /\ inOrder \in 0 .. 2

\* No cursor and no object is listed that the client does not believe alive,
\* whatever bundles were lost, late or dropped: it would never be removed,
\* since only sessions that were alive are looked for.
ListedIsAlive ==
  /\ "cur" \in Profiles => Listed(fingers) \subseteq aliveLists["cur"]
  /\ "obj" \in Profiles => objectList \subseteq aliveLists["obj"]

\* A bundle that comes after two in order is applied, whatever came before:
\* the drop of a good bundle after a late one does not last.
InOrderIsApplied ==
  inOrder = 2 /\ inbox = <<>> => aliveLists[bundle.profile] = bundle.alive
=============================================================================
