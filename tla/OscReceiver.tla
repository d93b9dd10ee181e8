------------------------------ MODULE OscReceiver ------------------------------
(***************************************************************************)
(* ofxOscReceiver: a thread that listens on a socket and appends what it   *)
(* hears to a queue, and the thread of the application, which drains the   *)
(* queue in its loop, under one mutex.  Appending and removing read the    *)
(* queue and write it back, so that they would go wrong without it.        *)
(*                                                                         *)
(* The application is OscImporter::update(), which reads into one message  *)
(* object for all of a pass, or msaRemoteClient::getMessage(), which makes *)
(* an object for each message.                                             *)
(***************************************************************************)
EXTENDS Naturals, Sequences

CONSTANTS
  MaxMessages,  \* messages sent to the socket
  FreshObject   \* the application makes an object for each message

ASSUME MaxMessagesAssumption == MaxMessages \in Nat
ASSUME FreshObjectAssumption == FreshObject \in BOOLEAN

VARIABLES
  messages,    \* the queue: the numbers of the messages, which stand for them
  mutex,       \* who holds it
  listener,    \* where the listening thread is
  heard,       \* the message it has converted last
  seen,        \* the queue as push_back() finds it
  app,         \* where the application is
  front,       \* the queue as pop_front() finds it
  object,      \* the arguments of the message object
  queueLength, \* what hasWaitingMessages() has read
  taken,       \* the message getNextMessage() has taken, 0 for none
  handed       \* how many messages recv() has been called with

listenerVars == <<listener, heard, seen>>
appVars == <<app, front, object, queueLength, taken, handed>>
oscVars == <<messages, mutex, listenerVars, appVars>>

-----------------------------------------------------------------------------
(* ProcessMessage(), in the listening thread.                              *)

Convert ==
  /\ listener = "listening" /\ heard < MaxMessages
  /\ heard' = heard + 1
  /\ listener' = "grab"
  /\ UNCHANGED <<messages, mutex, seen, appVars>>

\* Mutation: the listening thread does not wait for the mutex.
ListenerGrabsAnyway ==
  /\ listener = "grab"
  /\ listener' = "append"
  /\ seen' = messages
  /\ UNCHANGED <<messages, mutex, heard, appVars>>

ListenerGrabs ==
  /\ listener = "grab" /\ mutex = "free"
  /\ mutex' = "listener"
  /\ listener' = "append"
  /\ seen' = messages
  /\ UNCHANGED <<messages, heard, appVars>>

\* Mutation: the newest message goes first.
PushFront ==
  /\ listener = "append"
  /\ messages' = <<heard>> \o seen
  /\ listener' = "release"
  /\ UNCHANGED <<mutex, heard, seen, appVars>>

PushBack ==
  /\ listener = "append"
  /\ messages' = Append(seen, heard)
  /\ listener' = "release"
  /\ UNCHANGED <<mutex, heard, seen, appVars>>

ListenerReleases ==
  /\ listener = "release"
  /\ mutex' = "free"
  /\ listener' = "listening"
  /\ UNCHANGED <<messages, heard, seen, appVars>>

-----------------------------------------------------------------------------
(* The application: hasWaitingMessages(), getNextMessage(), recv().        *)

Grab(at, next) ==
  /\ app = at /\ mutex = "free"
  /\ mutex' = "app"
  /\ app' = next
  /\ UNCHANGED <<messages, listenerVars, front, object, queueLength, taken, handed>>

Release(at, next) ==
  /\ app = at
  /\ mutex' = "free"
  /\ app' = next
  /\ UNCHANGED <<messages, listenerVars, front, object, queueLength, taken, handed>>

\* update() starts with an object that has no arguments.
Update ==
  /\ app = "idle"
  /\ app' = "has"
  /\ object' = <<>>
  /\ UNCHANGED <<messages, mutex, listenerVars, front, queueLength, taken, handed>>

ReadLength ==
  /\ app = "length"
  /\ queueLength' = Len(messages)
  /\ app' = "has done"
  /\ UNCHANGED <<messages, mutex, listenerVars, front, object, taken, handed>>

\* The loop goes on while there are messages.
Loop ==
  /\ app = "loop"
  /\ app' = IF queueLength > 0 THEN "get" ELSE "idle"
  /\ object' = IF FreshObject THEN <<>> ELSE object
  /\ UNCHANGED <<messages, mutex, listenerVars, front, queueLength, taken, handed>>

\* copy() appends the arguments to those the object has.  Without a message
\* the object stays as it is, and recv() gets it again.
Take ==
  /\ app = "test"
  /\ IF messages = <<>>
     THEN app' = "got" /\ UNCHANGED <<object, taken, front>>
     ELSE /\ object' = Append(object, Head(messages))
          /\ taken' = Head(messages)
          /\ front' = messages
          /\ app' = "pop"
  /\ UNCHANGED <<messages, mutex, listenerVars, queueLength, handed>>

PopFront ==
  /\ app = "pop"
  /\ messages' = Tail(front)
  /\ app' = "got"
  /\ UNCHANGED <<mutex, listenerVars, front, object, queueLength, taken, handed>>

Recv ==
  /\ app = "recv"
  /\ handed' = handed + 1
  /\ taken' = 0
  /\ app' = "has"
  /\ UNCHANGED <<messages, mutex, listenerVars, front, object, queueLength>>

OscInit ==
  /\ messages = <<>> /\ mutex = "free"
  /\ listener = "listening" /\ heard = 0 /\ seen = <<>>
  /\ app = "idle" /\ front = <<>> /\ object = <<>> /\ queueLength = 0
  /\ taken = 0 /\ handed = 0

Listener == ListenerGrabs \/ PushBack \/ ListenerReleases

Application ==
  \/ Update
  \/ Grab("has", "length") \/ ReadLength \/ Release("has done", "loop")
  \/ Loop
  \/ Grab("get", "test") \/ Take \/ PopFront \/ Release("got", "recv")
  \/ Recv

OscNext == Convert \/ Listener \/ Application

\* Both threads run, and a thread that waits for the mutex, which the other
\* one takes again and again, gets it in the end.  Nobody has to send anything.
OscSpec ==
  /\ OscInit /\ [][OscNext]_oscVars
  /\ SF_oscVars(Listener) /\ SF_oscVars(Application)

-----------------------------------------------------------------------------
(* Properties.                                                             *)

\* What getNextMessage() is called for is there: with one reader a message
\* that hasWaitingMessages() has seen cannot go away.  The callers do not
\* look at the result, and would take the last message for a new one.
TestedIsThere == app = "recv" => taken # 0

\* Types, a thread that touches the queue has the mutex, and the message that
\* was tested for is there.
OscTypeOK ==
  /\ messages \in Seq(1 .. MaxMessages)
  /\ mutex \in {"free", "listener", "app"}
  /\ listener \in {"append", "release"} <=> mutex = "listener"
  /\ app \in {"length", "has done", "test", "pop", "got"} <=> mutex = "app"
  /\ {heard, taken, handed, queueLength} \subseteq 0 .. MaxMessages
  /\ TestedIsThere

\* "take the next message on the queue of received messages, copy its
\* details into message" (ofxOscReceiver.h:56): the object has the arguments
\* of that message.
DetailsAreCopied == app = "recv" => object = <<taken>>

\* The queue, and the message the application is about to be handed.
Queue == INSTANCE MessageQueue WITH
  arrived   <- IF listener \in {"grab", "append"} THEN heard - 1 ELSE heard,
  pending   <- CASE app \in {"got", "recv"} /\ taken # 0 -> <<taken>> \o messages
                 [] OTHER -> messages,
  delivered <- handed

\* The receiver implements the queue: nothing is lost, doubled, reordered or
\* held back, however the two threads take their turns.
ReceiverIsQueue == Queue!QueueSpec
=============================================================================
