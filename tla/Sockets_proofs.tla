----------------------------- MODULE Sockets_proofs -----------------------------
(***************************************************************************)
(* Why the OSC receiver is a queue, and what the WebSocket handler hears.  *)
(*                                                                         *)
(* The messages in the queue, and the one the application holds, are       *)
(* consecutive numbers from the next to be handed over to the last that    *)
(* was appended, and what a thread has read of the queue is still true of  *)
(* it, because the thread has the mutex.                                   *)
(*                                                                         *)
(* The bytes on the wire of a WebSocket are those that follow the ones the *)
(* handler has read, and the position of a byte says what it is: the       *)
(* request comes first, and frame k has the positions 4 * k to             *)
(* 4 * k + 3.  So where a piece begins and ends decides what the loop of   *)
(* onReadable(), a fold over the piece, makes of it.                       *)
(***************************************************************************)
EXTENDS MCSockets, SequenceTheorems, TLAPS

-----------------------------------------------------------------------------
(* The OSC receiver: where its threads are, and what the queue holds.      *)

\* Where the two threads can be.
ListenerPlaces == {"listening", "grab", "append", "release"}
AppPlaces ==
  {"idle", "has", "length", "has done", "loop", "get", "test", "pop", "got", "recv"}

\* The messages that are in the queue or were.
Arrived == IF listener \in {"grab", "append"} THEN heard - 1 ELSE heard

\* The messages that were in the queue and are not.
Removed == IF app \in {"got", "recv"} THEN handed + 1 ELSE handed

\* Each thread has the mutex where it touches the queue, ...
MutexInv ==
  /\ listener \in ListenerPlaces /\ app \in AppPlaces
  /\ mutex \in {"free", "listener", "app"}
  /\ listener \in {"append", "release"} <=> mutex = "listener"
  /\ app \in {"length", "has done", "test", "pop", "got"} <=> mutex = "app"

\* ... the queue holds consecutive numbers, ...
NumbersInv ==
  /\ heard \in Nat /\ heard <= MaxMessages
  /\ listener # "listening" => heard > 0
  /\ handed \in Nat
  /\ messages \in Seq(Nat)
  /\ Removed + Len(messages) = Arrived
  /\ \A i \in 1 .. Len(messages) : messages[i] = Removed + i

\* ... and what a thread has read of it is what it would read again.
ReadInv ==
  /\ listener = "append" => seen = messages
  /\ queueLength \in Nat
  /\ app \in {"has done", "loop", "get", "test"} => queueLength <= Len(messages)
  /\ app \in {"get", "test"} => queueLength > 0
  /\ app = "pop" => front = messages /\ messages # <<>>
  /\ app \in {"pop", "got", "recv"} => taken = handed + 1
  /\ app \notin {"pop", "got", "recv"} => taken = 0

OscInv == MutexInv /\ NumbersInv /\ ReadInv /\ queueLength <= MaxMessages

\* With an object for each message the object has the arguments of one.
ObjectInv ==
  /\ app \in {"get", "test"} => object = <<>>
  /\ app \in {"pop", "got", "recv"} => object = <<taken>>

-----------------------------------------------------------------------------
(* Sequences.                                                              *)

\* What Tail() leaves, by its indices.
LEMMA TailIndices ==
  ASSUME NEW S, NEW s \in Seq(S), s # <<>>
  PROVE  /\ Head(s) = s[1] /\ Head(s) \in S
         /\ Tail(s) \in Seq(S)
         /\ Len(s) \in Nat \ {0}
         /\ Len(Tail(s)) = Len(s) - 1
         /\ \A i \in 1 .. Len(s) - 1 : Tail(s)[i] = s[i + 1]
BY HeadTailProperties, LenProperties, EmptySeq

\* What Append() adds, by its indices.
LEMMA AppendIndices ==
  ASSUME NEW S, NEW s \in Seq(S), NEW x \in S
  PROVE  /\ Append(s, x) \in Seq(S)
         /\ Len(s) \in Nat
         /\ Len(Append(s, x)) = Len(s) + 1
         /\ \A i \in 1 .. Len(s) : Append(s, x)[i] = s[i]
         /\ Append(s, x)[Len(s) + 1] = x
BY AppendProperties, LenProperties

\* What the elements of a sequence are.
LEMMA ElementsDecide ==
  ASSUME NEW S, NEW T, NEW s \in Seq(S), \A i \in 1 .. Len(s) : s[i] \in T
  PROVE  s \in Seq(T)
<1>1. Len(s) \in Nat /\ s \in [1 .. Len(s) -> S]
  BY LenProperties
<1>2. s \in [1 .. Len(s) -> T]
  BY <1>1
<1>3. \E n \in Nat : s \in [1 .. n -> T]
  BY <1>1, <1>2
<1>4. QED
  BY <1>3, SeqDef

-----------------------------------------------------------------------------
(* The invariant.                                                          *)

LEMMA OscInitInv == OscInit => OscInv /\ ObjectInv
<1> SUFFICES ASSUME OscInit PROVE OscInv /\ ObjectInv
  OBVIOUS
<1>1. messages \in Seq(Nat) /\ Len(messages) = 0
  BY EmptySeq DEF OscInit
<1>2. MutexInv /\ ObjectInv
  BY DEF OscInit, MutexInv, ObjectInv, ListenerPlaces, AppPlaces
<1>3. NumbersInv
  <2>1. Removed = 0 /\ Arrived = 0
    BY DEF OscInit, Removed, Arrived
  <2>2. heard = 0 /\ handed = 0 /\ listener = "listening"
    BY DEF OscInit
  <2>3. QED
    BY <1>1, <2>1, <2>2, MaxMessagesAssumption DEF NumbersInv
<1>4. ReadInv /\ queueLength <= MaxMessages
  BY MaxMessagesAssumption DEF OscInit, ReadInv
<1>5. QED
  BY <1>2, <1>3, <1>4 DEF OscInv

\* Nobody touches the queue without the mutex, so that the two cannot both.
LEMMA MutexKept == MutexInv /\ [OscNext]_oscVars => MutexInv'
<1> SUFFICES ASSUME MutexInv, [OscNext]_oscVars PROVE MutexInv'
  OBVIOUS
<1> USE DEF MutexInv, ListenerPlaces, AppPlaces
<1>1. CASE Convert \/ Listener
  BY <1>1 DEF Convert, Listener, ListenerGrabs, PushBack, ListenerReleases, appVars
<1>2. CASE Application
  BY <1>2 DEF Application, Update, Grab, ReadLength, Release, Loop, Take, PopFront, Recv,
              listenerVars
<1>3. CASE UNCHANGED oscVars
  BY <1>3 DEF oscVars, listenerVars, appVars
<1>4. QED
  BY <1>1, <1>2, <1>3 DEF OscNext

\* The listening thread: only PushBack() changes the queue, and what it
\* writes back is the queue as it is, with the message behind it.
LEMMA ListenerKeepsInv == OscInv /\ (Convert \/ Listener) => OscInv'
<1> SUFFICES ASSUME OscInv, Convert \/ Listener PROVE NumbersInv' /\ ReadInv' /\ UNCHANGED queueLength
  BY MutexKept DEF OscInv, OscNext
<1>1. /\ MutexInv /\ NumbersInv /\ ReadInv
      /\ heard \in Nat /\ MaxMessages \in Nat /\ Len(messages) \in Nat
  BY MaxMessagesAssumption, LenProperties DEF OscInv, NumbersInv
<1>2. UNCHANGED appVars
  BY DEF Convert, Listener, ListenerGrabs, PushBack, ListenerReleases
<1>3. CASE ~ PushBack
  <2>1. UNCHANGED messages
    BY <1>3 DEF Convert, Listener, ListenerGrabs, ListenerReleases
  <2>2. /\ heard' \in Nat /\ heard' <= MaxMessages
        /\ listener' # "listening" => heard' > 0
        /\ Arrived' = Arrived
    BY <1>1, <1>3
       DEF Convert, Listener, ListenerGrabs, ListenerReleases, NumbersInv, Arrived
  <2>3. NumbersInv'
    BY <1>1, <1>2, <2>1, <2>2 DEF NumbersInv, Removed, appVars
  <2>4. listener' = "append" => seen' = messages'
    BY <1>3, <2>1 DEF Convert, Listener, ListenerGrabs, ListenerReleases
  <2>5. ReadInv'
    BY <1>1, <1>2, <2>1, <2>4 DEF ReadInv, appVars
  <2>6. QED
    BY <1>2, <2>3, <2>5 DEF appVars
<1>4. CASE PushBack
  <2>1. /\ listener = "append" /\ listener' = "release"
        /\ messages' = Append(messages, heard) /\ UNCHANGED heard
    BY <1>1, <1>4 DEF PushBack, ReadInv
  <2>2. /\ Append(messages, heard) \in Seq(Nat)
        /\ Len(messages') = Len(messages) + 1
        /\ \A i \in 1 .. Len(messages) : messages'[i] = messages[i]
        /\ messages'[Len(messages) + 1] = heard
    BY <1>1, <2>1, AppendIndices DEF NumbersInv
  <2>3. /\ Removed \in Nat /\ Removed' = Removed
        /\ Removed + Len(messages) = heard - 1 /\ Arrived' = heard
    BY <1>1, <1>2, <2>1 DEF NumbersInv, Removed, Arrived, appVars
  <2>4. \A i \in 1 .. Len(messages') : messages'[i] = Removed' + i
    BY <1>1, <2>2, <2>3 DEF NumbersInv
  <2>5. NumbersInv'
    BY <1>1, <1>2, <2>1, <2>2, <2>3, <2>4 DEF NumbersInv, appVars
  <2>6. app \notin {"pop", "test"}
    BY <1>1, <2>1 DEF MutexInv
  <2>7. ReadInv'
    <3>1. \A n \in Nat : n <= Len(messages) => n <= Len(messages')
      BY <1>1, <2>2
    <3>2. QED
      BY <1>1, <1>2, <2>1, <2>6, <3>1 DEF ReadInv, appVars
  <2>8. QED
    BY <1>2, <2>5, <2>7 DEF appVars
<1>5. QED
  BY <1>3, <1>4

\* The application: what it takes away is the message it has read.
LEMMA ApplicationKeepsInv == OscInv /\ Application => OscInv'
<1> SUFFICES ASSUME OscInv, Application PROVE NumbersInv' /\ ReadInv' /\ queueLength' <= MaxMessages
  BY MutexKept DEF OscInv, OscNext
<1>1. /\ MutexInv /\ NumbersInv /\ ReadInv /\ queueLength \in Nat /\ queueLength <= MaxMessages
      /\ heard \in Nat /\ MaxMessages \in Nat /\ Len(messages) \in Nat /\ handed \in Nat
      /\ heard <= MaxMessages
  BY MaxMessagesAssumption, LenProperties DEF OscInv, NumbersInv, ReadInv
<1>2. UNCHANGED listenerVars
  BY DEF Application, Update, Grab, ReadLength, Release, Loop, Take, PopFront, Recv
<1>3. Arrived' = Arrived /\ Arrived <= MaxMessages
  BY <1>1, <1>2 DEF Arrived, listenerVars
<1>4. CASE ~ PopFront
  <2>1. UNCHANGED messages
    BY <1>4 DEF Application, Update, Grab, ReadLength, Release, Loop, Take, Recv
  <2>2. app = "test" => messages # <<>>
    BY <1>1, EmptySeq DEF ReadInv
  <2>3. handed' \in Nat /\ Removed' = Removed
    <3>1. CASE Recv
      BY <1>1, <3>1 DEF Recv, Removed
    <3>2. CASE ~ Recv
      <4>1. UNCHANGED handed
        BY <1>4, <3>2 DEF Application, Update, Grab, ReadLength, Release, Loop, Take
      <4>2. app \in {"got", "recv"} <=> app' \in {"got", "recv"}
        BY <1>4, <2>2, <3>2
           DEF Application, Update, Grab, ReadLength, Release, Loop, Take
      <4>3. QED
        BY <1>1, <4>1, <4>2 DEF Removed
    <3>3. QED
      BY <3>1, <3>2
  <2>4. NumbersInv'
    BY <1>1, <1>2, <1>3, <2>1, <2>3 DEF NumbersInv, listenerVars
  <2>5. messages # <<>> /\ app \notin {"got", "recv"} => Head(messages) = handed + 1
    BY <1>1, TailIndices DEF NumbersInv, Removed
  <2>6. Len(messages) <= MaxMessages
    BY <1>1, <1>3 DEF NumbersInv, Removed
  <2>7. listener' = "append" => seen' = messages'
    BY <1>1, <1>2, <2>1 DEF ReadInv, listenerVars
  <2>8. ReadInv' /\ queueLength' <= MaxMessages
    <3>1. CASE Update \/ Loop \/ Recv
      BY <1>1, <2>1, <2>7, <3>1 DEF Update, Loop, Recv, ReadInv
    <3>2. CASE Grab("has", "length") \/ Grab("get", "test")
      BY <1>1, <2>1, <2>7, <3>2 DEF Grab, ReadInv
    <3>3. CASE Release("has done", "loop") \/ Release("got", "recv")
      BY <1>1, <2>1, <2>7, <3>3 DEF Release, ReadInv
    <3>4. CASE ReadLength
      <4>1. /\ app = "length" /\ app' = "has done" /\ queueLength' = Len(messages)
            /\ taken' = taken
        BY <3>4 DEF ReadLength
      <4>2. taken = 0
        BY <1>1, <4>1 DEF ReadInv
      <4>3. /\ Len(messages') \in Nat /\ queueLength' = Len(messages')
            /\ Len(messages') <= MaxMessages
        BY <1>1, <2>1, <2>6, <4>1, Zenon
      <4>4. \A n \in Nat : n <= n
        OBVIOUS
      <4>5. queueLength' \in Nat /\ queueLength' <= Len(messages') /\ queueLength' <= MaxMessages
        BY <4>3, <4>4, Zenon
      <4>6. QED
        BY <2>7, <4>1, <4>2, <4>5 DEF ReadInv
    <3>5. CASE Take
      BY <1>1, <2>1, <2>2, <2>5, <2>7, <3>5 DEF Take, ReadInv
    <3>6. QED
      BY <1>4, <3>1, <3>2, <3>3, <3>4, <3>5 DEF Application
  <2>9. QED
    BY <2>4, <2>8
<1>5. CASE PopFront
  <2>1. /\ messages # <<>> /\ messages' = Tail(messages)
        /\ app = "pop" /\ app' = "got"
        /\ UNCHANGED <<handed, queueLength, taken>>
    BY <1>1, <1>5 DEF PopFront, ReadInv
  <2>2. /\ Tail(messages) \in Seq(Nat) /\ Len(Tail(messages)) = Len(messages) - 1
        /\ \A i \in 1 .. Len(messages) - 1 : Tail(messages)[i] = messages[i + 1]
        /\ Len(messages) \in Nat \ {0}
    BY <1>1, <2>1, TailIndices DEF NumbersInv
  <2>3. Removed = handed /\ Removed' = handed + 1
    BY <1>1, <2>1 DEF Removed
  <2>4. \A i \in 1 .. Len(messages') : messages'[i] = Removed' + i
    <3>1. TAKE i \in 1 .. Len(messages')
    <3>2. i \in 1 .. Len(messages) - 1 /\ i + 1 \in 1 .. Len(messages)
      BY <2>1, <2>2
    <3>3. messages'[i] = handed + (i + 1)
      BY <1>1, <2>1, <2>2, <2>3, <3>2 DEF NumbersInv
    <3>4. QED
      BY <1>1, <2>3, <3>2, <3>3
  <2>5. NumbersInv'
    BY <1>1, <1>2, <1>3, <2>1, <2>2, <2>3, <2>4 DEF NumbersInv, listenerVars
  <2>6. listener # "append"
    BY <1>1, <2>1 DEF MutexInv
  <2>7. ReadInv'
    BY <1>1, <1>2, <2>1, <2>6 DEF ReadInv, listenerVars
  <2>8. QED
    BY <1>1, <2>1, <2>5, <2>7
<1>6. QED
  BY <1>4, <1>5

LEMMA OscStepKeepsInv == OscInv /\ [OscNext]_oscVars => OscInv'
<1>1. OscInv /\ UNCHANGED oscVars => OscInv'
  BY DEF OscInv, MutexInv, NumbersInv, ReadInv, Removed, Arrived, oscVars, listenerVars, appVars
<1>2. QED
  BY <1>1, ListenerKeepsInv, ApplicationKeepsInv DEF OscNext

LEMMA OscInvariant == OscSpec => []OscInv
BY OscInitInv, OscStepKeepsInv, PTL DEF OscSpec

-----------------------------------------------------------------------------
(* Types and mutual exclusion.                                             *)

LEMMA OscInvIsTyped == OscInv => OscTypeOK
<1> SUFFICES ASSUME OscInv PROVE OscTypeOK
  OBVIOUS
<1>1. /\ MutexInv /\ NumbersInv /\ ReadInv
      /\ queueLength \in Nat /\ queueLength <= MaxMessages /\ MaxMessages \in Nat
      /\ messages \in Seq(Nat) /\ Len(messages) \in Nat
      /\ heard \in Nat /\ heard <= MaxMessages /\ handed \in Nat
  BY MaxMessagesAssumption, LenProperties DEF OscInv, NumbersInv, ReadInv
<1>2. Removed \in Nat /\ Removed >= handed /\ Removed + Len(messages) <= MaxMessages
  BY <1>1 DEF NumbersInv, Removed, Arrived
<1>3. messages \in Seq(1 .. MaxMessages)
  <2>1. \A i \in 1 .. Len(messages) : messages[i] \in 1 .. MaxMessages
    BY <1>1, <1>2 DEF NumbersInv
  <2>2. QED
    BY <1>1, <2>1, ElementsDecide
<1>4. taken \in 0 .. MaxMessages
  <2>1. CASE app \notin {"pop", "got", "recv"}
    <3>1. taken = 0
      BY <1>1, <2>1 DEF ReadInv
    <3>2. QED
      BY <1>1, <3>1
  <2>2. CASE app = "pop"
    <3>1. taken = handed + 1 /\ messages # <<>>
      BY <1>1, <2>2 DEF ReadInv
    <3>2. Len(messages) > 0
      BY <1>1, <3>1, TailIndices
    <3>3. QED
      BY <1>1, <1>2, <3>1, <3>2
  <2>3. CASE app \in {"got", "recv"}
    <3>1. taken = handed + 1 /\ Removed = handed + 1
      BY <1>1, <2>3 DEF ReadInv, Removed
    <3>2. QED
      BY <1>1, <1>2, <3>1
  <2>4. QED
    BY <2>1, <2>2, <2>3
<1>5. {heard, taken, handed, queueLength} \subseteq 0 .. MaxMessages
  BY <1>1, <1>2, <1>4
<1>6. TestedIsThere
  BY <1>1 DEF TestedIsThere, ReadInv
<1>7. QED
  BY <1>1, <1>3, <1>5, <1>6 DEF OscTypeOK, MutexInv

\* However many messages come, the thread that touches the queue has the
\* mutex, and a message that hasWaitingMessages() has seen is there when
\* getNextMessage() is called for it, whose result the callers do not check.
THEOREM ReceiverTypeCorrect == OscSpec => []OscTypeOK
BY OscInvariant, OscInvIsTyped, PTL

-----------------------------------------------------------------------------
(* The message object.                                                     *)

LEMMA ObjectStep == FreshObject /\ OscInv /\ ObjectInv /\ [OscNext]_oscVars => ObjectInv'
<1> SUFFICES ASSUME FreshObject, OscInv, ObjectInv, [OscNext]_oscVars PROVE ObjectInv'
  OBVIOUS
<1>1. CASE Convert \/ Listener \/ UNCHANGED oscVars
  <2>1. UNCHANGED appVars
    BY <1>1 DEF oscVars, Convert, Listener, ListenerGrabs, PushBack, ListenerReleases
  <2>2. QED
    BY <2>1 DEF ObjectInv, appVars
<1>2. CASE Application /\ ~ Take
  BY <1>2 DEF Application, Update, Grab, ReadLength, Release, Loop, PopFront, Recv, ObjectInv
<1>3. CASE Take
  <2>1. /\ app = "test" /\ messages # <<>> /\ messages \in Seq(Nat)
        /\ object = <<>>
    <3>1. app = "test" /\ queueLength \in Nat /\ queueLength > 0 /\ queueLength <= Len(messages)
      BY <1>3 DEF Take, OscInv, ReadInv
    <3>2. messages # <<>>
      BY <3>1, EmptySeq
    <3>3. QED
      BY <3>1, <3>2 DEF OscInv, NumbersInv, ObjectInv
  <2>2. Append(<<>>, Head(messages)) = <<Head(messages)>>
    BY AppendIndices, EmptySeq
  <2>3. app' = "pop" /\ object' = <<taken'>>
    BY <1>3, <2>1, <2>2 DEF Take
  <2>4. QED
    BY <2>3 DEF ObjectInv
<1>4. QED
  BY <1>1, <1>2, <1>3 DEF OscNext

\* An application that makes an object for each message, as msaRemoteClient
\* does, is handed the arguments of that message and no others.
THEOREM FreshObjectsAreExact == FreshObject /\ OscSpec => []DetailsAreCopied
<1>1. ObjectInv => DetailsAreCopied
  BY DEF ObjectInv, DetailsAreCopied
<1>2. CASE FreshObject
  <2>1. OscInv /\ ObjectInv /\ [OscNext]_oscVars => ObjectInv'
    BY <1>2, ObjectStep
  <2>2. QED
    BY <1>1, <2>1, OscInitInv, OscInvariant, PTL DEF OscSpec
<1>3. QED
  BY <1>2

-----------------------------------------------------------------------------
(* The refinement.                                                         *)

\* What the mapping takes for the messages that are still to be handed over.
Pending ==
  CASE app \in {"got", "recv"} /\ taken # 0 -> <<taken>> \o messages
    [] OTHER -> messages

\* A message in front of others, and behind them.
LEMMA FrontOfQueue ==
  ASSUME NEW S, NEW s \in Seq(S), NEW x \in S
  PROVE  /\ <<x>> \o s # <<>> /\ Head(<<x>> \o s) = x /\ Tail(<<x>> \o s) = s
         /\ \A y \in S : <<x>> \o Append(s, y) = Append(<<x>> \o s, y)
         /\ s # <<>> => <<Head(s)>> \o Tail(s) = s
<1>1. /\ <<x>> \in Seq(S) /\ Len(<<x>>) = 1 /\ <<x>>[1] = x
      /\ <<x>> \o s \in Seq(S) /\ Len(s) \in Nat /\ Len(<<x>> \o s) = Len(s) + 1
      /\ (<<x>> \o s)[1] = x
      /\ \A i \in 1 .. Len(s) : (<<x>> \o s)[i + 1] = s[i]
  <2>1. <<x>> \in Seq(S) /\ Len(<<x>>) = 1 /\ <<x>>[1] = x /\ Len(s) \in Nat
    BY LenProperties
  <2>2. QED
    BY <2>1, ConcatProperties
<1>2. <<x>> \o s # <<>>
  BY <1>1, EmptySeq
<1>3. Head(<<x>> \o s) = x /\ Tail(<<x>> \o s) = s
  <2>1. /\ Head(<<x>> \o s) = x /\ Tail(<<x>> \o s) \in Seq(S)
        /\ Len(Tail(<<x>> \o s)) = Len(s)
        /\ \A i \in 1 .. Len(s) : Tail(<<x>> \o s)[i] = s[i]
    BY <1>1, <1>2, TailIndices
  <2>2. QED
    BY <2>1, SeqEqual
<1>4. \A y \in S : <<x>> \o Append(s, y) = Append(<<x>> \o s, y)
  <2>1. TAKE y \in S
  <2>2. <<y>> \in Seq(S)
    OBVIOUS
  <2>3. <<x>> \o (s \o <<y>>) = (<<x>> \o s) \o <<y>>
    BY <1>1, <2>2, ConcatAssociative
  <2>4. QED
    BY <1>1, <2>3, AppendIsConcat
<1>5. ASSUME s # <<>> PROVE <<Head(s)>> \o Tail(s) = s
  <2>1. /\ Head(s) = s[1] /\ Head(s) \in S /\ Tail(s) \in Seq(S)
        /\ Len(s) \in Nat \ {0} /\ Len(Tail(s)) = Len(s) - 1
        /\ \A i \in 1 .. Len(s) - 1 : Tail(s)[i] = s[i + 1]
    BY <1>5, TailIndices
  <2>2. <<Head(s)>> \in Seq(S) /\ Len(<<Head(s)>>) = 1 /\ <<Head(s)>>[1] = Head(s)
    BY <2>1
  <2>3. /\ <<Head(s)>> \o Tail(s) \in Seq(S)
        /\ Len(<<Head(s)>> \o Tail(s)) = Len(s)
        /\ \A i \in 1 .. Len(s) : (<<Head(s)>> \o Tail(s))[i] = s[i]
    BY <2>1, <2>2, ConcatProperties
  <2>4. QED
    BY <2>3, SeqEqual
<1>6. QED
  BY <1>2, <1>3, <1>4, <1>5

\* The parts of the mapping are what the invariant speaks of.
LEMMA MappedState ==
  ASSUME OscInv
  PROVE  /\ app \in {"got", "recv"} => taken = handed + 1 /\ Pending = <<taken>> \o messages
         /\ app \notin {"got", "recv"} => Pending = messages
         /\ messages \in Seq(Nat) /\ handed \in Nat /\ heard \in Nat
<1>1. messages \in Seq(Nat) /\ handed \in Nat /\ heard \in Nat
  BY DEF OscInv, NumbersInv
<1>2. app \in {"got", "recv"} => taken = handed + 1
  BY DEF OscInv, ReadInv
<1>3. app \in {"got", "recv"} => taken # 0
  BY <1>1, <1>2
<1>4. QED
  BY <1>1, <1>2, <1>3 DEF Pending

\* PushBack() is the arrival of a message, ...
LEMMA PushArrives ==
  ASSUME OscInv, OscInv', PushBack
  PROVE  Arrived' = Arrived + 1 /\ Pending' = Append(Pending, Arrived') /\ handed' = handed
<1>1. /\ listener = "append" /\ listener' = "release" /\ UNCHANGED <<heard, app, taken, handed>>
      /\ messages' = Append(messages, heard)
  BY DEF PushBack, appVars, OscInv, ReadInv
<1>2. Arrived = heard - 1 /\ Arrived' = heard /\ heard \in Nat
  BY <1>1 DEF Arrived, OscInv, NumbersInv
<1>3. CASE app \in {"got", "recv"}
  <2>1. /\ Pending = <<taken>> \o messages /\ Pending' = <<taken>> \o Append(messages, heard)
        /\ messages \in Seq(Nat) /\ taken \in Nat
    BY <1>1, <1>3, MappedState DEF Pending
  <2>2. QED
    BY <1>1, <1>2, <2>1, FrontOfQueue
<1>4. CASE app \notin {"got", "recv"}
  BY <1>1, <1>2, <1>4, MappedState DEF Pending
<1>5. QED
  BY <1>3, <1>4

\* ... recv() hands over the message that was taken, ...
LEMMA RecvHandsOver ==
  ASSUME OscInv, OscInv', Recv
  PROVE  /\ Pending # <<>> /\ Head(Pending) = handed + 1 /\ Pending' = Tail(Pending)
         /\ handed' = handed + 1 /\ Arrived' = Arrived
<1>1. /\ app = "recv" /\ app' = "has" /\ handed' = handed + 1
      /\ UNCHANGED <<messages, listener, heard>>
  BY DEF Recv, listenerVars
<1>2. Pending = <<handed + 1>> \o messages /\ Pending' = messages
      /\ messages \in Seq(Nat) /\ handed + 1 \in Nat
  BY <1>1, MappedState DEF Pending
<1>3. Arrived' = Arrived
  BY <1>1 DEF Arrived
<1>4. QED
  BY <1>1, <1>2, <1>3, FrontOfQueue

\* ... and no other step changes what arrived and what is pending: the
\* message that pop_front() removes is the one that was taken.
LEMMA OthersStutter ==
  ASSUME OscInv, OscInv', [OscNext]_oscVars, ~ PushBack, ~ Recv
  PROVE  UNCHANGED <<Arrived, Pending, handed>>
<1>1. CASE Convert \/ ListenerGrabs \/ ListenerReleases
  <2>1. /\ UNCHANGED <<messages, app, taken, handed>>
        /\ heard \in Nat
        /\ \/ listener = "listening" /\ listener' = "grab" /\ heard' = heard + 1
           \/ listener = "grab" /\ listener' = "append" /\ heard' = heard
           \/ listener = "release" /\ listener' = "listening" /\ heard' = heard
    BY <1>1 DEF Convert, ListenerGrabs, ListenerReleases, appVars, OscInv, NumbersInv
  <2>2. UNCHANGED Arrived
    BY <2>1 DEF Arrived
  <2>3. UNCHANGED Pending
    BY <2>1 DEF Pending
  <2>4. QED
    BY <2>1, <2>2, <2>3
<1>2. CASE Application /\ ~ PopFront
  <2>1. /\ UNCHANGED <<messages, listener, heard, handed>>
        /\ app \in {"got", "recv"} <=> app' \in {"got", "recv"}
        /\ app = "got" => taken' = taken
    <3>1. app = "test" => messages # <<>>
      <4>1. app = "test" => queueLength \in Nat /\ queueLength > 0 /\ queueLength <= Len(messages)
        BY DEF OscInv, ReadInv
      <4>2. QED
        BY <4>1, EmptySeq
    <3>2. QED
      BY <1>2, <3>1 DEF Application, Update, Grab, ReadLength, Release, Loop, Take, Recv,
                        listenerVars
  <2>2. UNCHANGED Arrived
    BY <2>1 DEF Arrived
  <2>3. UNCHANGED Pending
    <3>1. app # "recv"
      BY <1>2 DEF Application, Update, Grab, ReadLength, Release, Loop, Take, Recv
    <3>2. CASE app = "got"
      BY <2>1, <3>2 DEF Pending
    <3>3. CASE app \notin {"got", "recv"}
      BY <2>1, <3>3 DEF Pending
    <3>4. QED
      BY <3>1, <3>2, <3>3
  <2>4. QED
    BY <2>1, <2>2, <2>3
<1>3. CASE PopFront
  <2>1. /\ app = "pop" /\ app' = "got" /\ messages # <<>> /\ messages' = Tail(messages)
        /\ UNCHANGED <<listener, heard, taken, handed>> /\ taken = handed + 1
    BY <1>3 DEF PopFront, listenerVars, OscInv, ReadInv
  <2>2. Head(messages) = taken /\ messages \in Seq(Nat) /\ taken \in Nat \ {0}
    <3>1. messages \in Seq(Nat) /\ Len(messages) \in Nat \ {0} /\ Head(messages) = messages[1]
      BY <2>1, TailIndices DEF OscInv, NumbersInv
    <3>2. messages[1] = handed + 1 /\ handed \in Nat
      BY <2>1, <3>1 DEF OscInv, NumbersInv, Removed
    <3>3. QED
      BY <2>1, <3>1, <3>2
  <2>3. Pending = messages /\ Pending' = <<taken>> \o Tail(messages)
    BY <2>1, <2>2 DEF Pending
  <2>4. Pending' = Pending
    BY <2>1, <2>2, <2>3, FrontOfQueue
  <2>5. QED
    BY <2>1, <2>4 DEF Arrived
<1>4. CASE UNCHANGED oscVars
  BY <1>4 DEF oscVars, listenerVars, appVars, Arrived, Pending
<1>5. QED
  BY <1>1, <1>2, <1>3, <1>4 DEF OscNext, Listener

\* The receiver implements the queue: whatever turns the two threads take,
\* recv() is called with the messages that were sent, each of them once and
\* in the order they were sent in.
THEOREM ReceiverImplementsQueue == OscSpec => Queue!QueueSafety
<1>1. OscInit => Queue!QueueInit
  BY DEF OscInit, Queue!QueueInit
<1>2. OscInv /\ OscInv' /\ [OscNext]_oscVars => [Queue!Arrive \/ Queue!HandOver]_Queue!queueVars
  <2> SUFFICES ASSUME OscInv, OscInv', [OscNext]_oscVars
               PROVE  [Queue!Arrive \/ Queue!HandOver]_Queue!queueVars
    OBVIOUS
  <2>1. CASE PushBack
    BY <2>1, PushArrives DEF Queue!Arrive, Arrived, Pending
  <2>2. CASE Recv
    BY <2>2, RecvHandsOver DEF Queue!HandOver, Arrived, Pending
  <2>3. CASE ~ PushBack /\ ~ Recv
    BY <2>3, OthersStutter DEF Queue!queueVars, Arrived, Pending
  <2>4. QED
    BY <2>1, <2>2, <2>3
<1>3. QED
  BY <1>1, <1>2, OscInvariant, PTL DEF OscSpec, Queue!QueueSafety

-----------------------------------------------------------------------------
(* The bytes of the client.                                                *)

Bytes == 0 .. 302

\* The byte at position p of what the client sends: the request comes first,
\* and frame k has the positions 4 * k to 4 * k + 3.
At(b, p) ==
  /\ p = 1 => b = Header
  /\ p = 2 => b = 301
  /\ p = 3 => b = 302
  /\ \A k \in Nat \ {0} : /\ p = 4 * k => b = Opening
                          /\ p = 4 * k + 1 => b = Lead(k)
                          /\ p = 4 * k + 2 => b = k
                          /\ p = 4 * k + 3 => b = Closing

\* Every position is at one of four places of a frame.
LEMMA Fours ==
  ASSUME NEW p \in Nat
  PROVE  \E k \in Nat : p = 4 * k \/ p = 4 * k + 1 \/ p = 4 * k + 2 \/ p = 4 * k + 3
<1>1. p \div 4 \in Nat /\ 4 * (p \div 4) <= p /\ p < 4 * (p \div 4) + 4
  OBVIOUS
<1>2. QED
  BY <1>1

\* The bytes that mean something.
LEMMA ByteNumbers ==
  /\ Opening = 0 /\ Closing = 255 /\ Header = 300
  /\ BlankLine = <<301, 302>> /\ BlankLine[1] = 301 /\ BlankLine[2] = 302
  /\ Opening \in Bytes /\ Closing \in Bytes
BY DEF Opening, Closing, Header, BlankLine, Bytes

\* The first byte of a text closes no frame.
LEMMA LeadIsByte ==
  ASSUME NEW k \in Nat, k > 0, k < Closing
  PROVE  /\ Lead(k) \in Bytes /\ Lead(k) # Closing /\ (Lead(k) = Opening <=> k \in NulFrames)
         /\ k \in Bytes /\ k # Closing /\ k # Opening
<1>1. k \in Bytes /\ k # Closing /\ k # Opening
  BY ByteNumbers DEF Bytes
<1>2. Opening # Closing
  BY ByteNumbers
<1>3. QED
  BY <1>1, <1>2, ByteNumbers DEF Lead

-----------------------------------------------------------------------------
(* The loop that finds the frames, as a fold.                              *)

\* What it does with each of the bytes.
ScanNext(r, b) ==
  IF ~ r.begun /\ b = Opening THEN [ r EXCEPT !.begun = TRUE, !.frame = <<>> ]
  ELSE IF r.begun /\ b = Closing
  THEN [ r EXCEPT !.begun = FALSE, !.found = Append(@, r.frame) ]
  ELSE IF r.begun THEN [ r EXCEPT !.frame = Append(@, b) ]
  ELSE r

NothingFound == [ begun |-> FALSE, frame |-> <<>>, found |-> <<>> ]

\* The same as an operator of a fold; nothing else is fixed.
ScanStep(r, b, x) == ScanNext(r, b)

Scan == INSTANCE FoldTheorems WITH Op <- ScanStep

\* The model's fold is the one of FoldTheorems.
LEMMA FramesFold ==
  ASSUME NEW bytes
  PROVE  Frames(bytes) = Scan!Fold(NothingFound, bytes, 0).found
BY DEF Frames, NothingFound, ScanNext, ScanStep, Scan!Fold, FoldLeft, MapThenFoldSet, Max, Scan!Top

\* What the loop knows after any bytes, ...
ScanTypeOK(r) ==
  r \in [ begun : BOOLEAN, frame : Seq(Bytes), found : Seq(Seq(Bytes)) ]

\* What the loop does, field by field.
LEMMA ScanNextFields ==
  ASSUME NEW r, ScanTypeOK(r), NEW b \in Bytes
  PROVE  LET n == ScanNext(r, b)
         IN  /\ ScanTypeOK(n)
             /\ ~ r.begun /\ b = Opening => n.begun /\ n.frame = <<>> /\ n.found = r.found
             /\ r.begun /\ b = Closing => ~ n.begun /\ n.found = Append(r.found, r.frame)
             /\ r.begun /\ b # Closing =>
                  n.begun /\ n.frame = Append(r.frame, b) /\ n.found = r.found
             /\ ~ r.begun /\ b # Opening => n = r
<1> DEFINE more == Append(r.frame, b)
           one == Append(r.found, r.frame)
<1>1. r.begun \in BOOLEAN /\ r.frame \in Seq(Bytes) /\ r.found \in Seq(Seq(Bytes))
  BY DEF ScanTypeOK
<1>2. more \in Seq(Bytes) /\ one \in Seq(Seq(Bytes)) /\ <<>> \in Seq(Bytes)
  BY <1>1, AppendProperties, EmptySeq
<1> HIDE DEF more, one
<1>3. CASE ~ r.begun /\ b = Opening
  <2>1. ScanNext(r, b) = [ r EXCEPT !.begun = TRUE, !.frame = <<>> ]
    BY <1>3 DEF ScanNext
  <2>2. QED
    BY <1>2, <1>3, <2>1 DEF ScanTypeOK
<1>4. CASE r.begun /\ b = Closing
  <2>1. ScanNext(r, b) = [ r EXCEPT !.begun = FALSE, !.found = one ]
    BY <1>4 DEF ScanNext, one
  <2>2. /\ ScanTypeOK(ScanNext(r, b)) /\ ~ ScanNext(r, b).begun
        /\ ScanNext(r, b).found = one
    BY <1>2, <2>1 DEF ScanTypeOK
  <2>3. QED
    BY <1>4, <2>2 DEF one
<1>5. CASE r.begun /\ b # Closing
  <2>1. ScanNext(r, b) = [ r EXCEPT !.frame = more ]
    BY <1>5 DEF ScanNext, more
  <2>2. /\ ScanTypeOK(ScanNext(r, b)) /\ ScanNext(r, b).begun = r.begun
        /\ ScanNext(r, b).frame = more /\ ScanNext(r, b).found = r.found
    BY <1>2, <2>1 DEF ScanTypeOK
  <2>3. QED
    BY <1>5, <2>2 DEF more
<1>6. CASE ~ r.begun /\ b # Opening
  BY <1>6 DEF ScanNext
<1>7. QED
  BY <1>3, <1>4, <1>5, <1>6

\* What the loop knows after each byte.
ScansTo(r, bytes, n, last) ==
  /\ r[0] = NothingFound /\ r[n] = last
  /\ \A k \in 0 .. n - 1 : r[k + 1] = ScanNext(r[k], bytes[k + 1])

LEMMA ScanSteps ==
  ASSUME NEW bytes, NEW n \in Nat, DOMAIN bytes = 1 .. n,
         NEW last, last = Scan!Fold(NothingFound, bytes, 0)
  PROVE  \E r : ScansTo(r, bytes, n, last)
<1>1. \E r : /\ r[0] = NothingFound /\ r[n] = last
             /\ \A k \in 0 .. n - 1 : r[k + 1] = ScanNext(r[k], bytes[k + 1])
  BY Scan!FoldSteps DEF ScanStep
<1>2. QED
  BY <1>1 DEF ScansTo

\* It begins with nothing.
LEMMA NothingIsTyped == ScanTypeOK(NothingFound)
<1>1. <<>> \in Seq(Bytes) /\ <<>> \in Seq(Seq(Bytes))
  BY EmptySeq
<1>2. QED
  BY <1>1 DEF ScanTypeOK, NothingFound

\* What the loop finds in any bytes is texts.
LEMMA FramesAreTyped ==
  ASSUME NEW bytes, NEW n \in Nat, DOMAIN bytes = 1 .. n, \A i \in 1 .. n : bytes[i] \in Bytes
  PROVE  Frames(bytes) \in Seq(Seq(Bytes))
<1> DEFINE last == Scan!Fold(NothingFound, bytes, 0)
<1>0. last = Scan!Fold(NothingFound, bytes, 0)
  OBVIOUS
<1> HIDE DEF last
<1>9. PICK r : ScansTo(r, bytes, n, last)
  BY <1>0, ScanSteps
<1>1. /\ r[0] = NothingFound /\ r[n] = last
      /\ \A k \in 0 .. n - 1 : r[k + 1] = ScanNext(r[k], bytes[k + 1])
  BY <1>9 DEF ScansTo
<1> DEFINE K == { k \in Nat : ScanTypeOK(r[k]) }
<1>2. 0 \in K
  BY <1>1, NothingIsTyped
<1>3. ASSUME NEW k \in 0 .. n - 1, k \in K PROVE k + 1 \in K
  <2>1. k + 1 \in Nat /\ k + 1 \in 1 .. n
    OBVIOUS
  <2>2. bytes[k + 1] \in Bytes
    BY <2>1
  <2>3. ScanTypeOK(ScanNext(r[k], bytes[k + 1]))
    BY <1>3, <2>2, ScanNextFields
  <2>4. r[k + 1] = ScanNext(r[k], bytes[k + 1])
    BY <1>1
  <2>5. QED
    BY <2>1, <2>3, <2>4
<1> HIDE DEF K
<1>4. \A k \in 0 .. n : k \in K
  BY <1>2, <1>3, Scan!UpTo
<1>5. n \in K
  BY <1>4
<1>6. ScanTypeOK(last)
  BY <1>1, <1>5 DEF K
<1>7. QED
  BY <1>0, <1>6, FramesFold DEF ScanTypeOK

\* Of a frame, a scan that begins behind position c starts with its opening
\* byte or with a U+0000, and hears all of its text or what follows that.
Starts(c, k) == c < 4 * k \/ (c = 4 * k /\ k \in NulFrames)
Heard(c, k) == IF c < 4 * k THEN Text(k) ELSE <<k>>

\* The number of the frame that a text is of.
Number(text) == text[Len(text)]

\* The texts byte by byte.
LEMMA TextsGrow ==
  ASSUME NEW k
  PROVE  /\ Append(<<>>, Lead(k)) = <<Lead(k)>> /\ Append(<<Lead(k)>>, k) = Text(k)
         /\ Append(<<>>, k) = <<k>>
         /\ Number(Text(k)) = k /\ Number(<<k>>) = k
         /\ Len(Text(k)) = 2 /\ Len(<<k>>) = 1
<1>1. Append(<<>>, k) = <<k>> /\ Len(<<k>>) = 1 /\ <<k>>[1] = k
  OBVIOUS
<1>2. ASSUME NEW a PROVE Append(<<a>>, k) = <<a, k>> /\ Len(<<a, k>>) = 2 /\ <<a, k>>[2] = k
  <2> DEFINE S == {a, k}
             one == <<a>>
             two == <<a, k>>
             joined == Append(one, k)
  <2>1. k \in S /\ one \in Seq(S) /\ Len(one) = 1 /\ one[1] = a
    OBVIOUS
  <2>2. two \in Seq(S) /\ Len(two) = 2 /\ two[1] = a /\ two[2] = k
    OBVIOUS
  <2> HIDE DEF S, one, two
  <2>3. /\ joined \in Seq(S) /\ Len(joined) = Len(one) + 1 /\ joined[Len(one) + 1] = k
        /\ \A i \in 1 .. Len(one) : joined[i] = one[i]
    BY <2>1, AppendProperties
  <2> HIDE DEF joined
  <2>4. Len(joined) = 2 /\ joined[1] = a /\ joined[2] = k
    BY <2>1, <2>3
  <2>5. \A i \in 1 .. Len(joined) : joined[i] = two[i]
    BY <2>2, <2>4
  <2>6. joined = two
    BY <2>2, <2>3, <2>4, <2>5, SeqEqual
  <2>7. QED
    BY <2>2, <2>6 DEF joined, one, two
<1>3. Append(<<>>, Lead(k)) = <<Lead(k)>>
  OBVIOUS
<1>4. QED
  BY <1>1, <1>2, <1>3 DEF Text, Number

\* What is heard of a frame has its number.
LEMMA HeardHasNumber ==
  ASSUME NEW c, NEW k \in Nat, k > 0, k < Closing
  PROVE  /\ Number(Heard(c, k)) = k /\ Heard(c, k) \in Seq(Bytes)
         /\ Heard(c, k) = Text(k) \/ (Heard(c, k) = <<k>>)
<1>1. Text(k) \in Seq(Bytes) /\ <<k>> \in Seq(Bytes)
  BY LeadIsByte DEF Text
<1>2. QED
  BY <1>1, TextsGrow DEF Heard

\* ... and after those of the client that follow position c, to position p:
\* it has begun a frame exactly when its start is among them, ...
BegunOK(r, c, p) ==
  \A k \in Nat : /\ p = 4 * k => (r.begun <=> p > c) /\ (r.begun => r.frame = <<>>)
                 /\ p = 4 * k + 1 =>
                      /\ r.begun <=> Starts(c, k)
                      /\ r.begun => r.frame = IF c < 4 * k THEN <<Lead(k)>> ELSE <<>>
                 /\ p = 4 * k + 2 =>
                      (r.begun <=> Starts(c, k)) /\ (r.begun => r.frame = Heard(c, k))
                 /\ p = 4 * k + 3 => ~ r.begun

\* ... and has found the frames that start and end among them, in their order.
FoundHere(found, c, p, i) ==
  /\ Number(found[i]) \in Nat /\ Starts(c, Number(found[i]))
  /\ 4 * Number(found[i]) + 3 <= p
  /\ found[i] = Heard(c, Number(found[i]))
  /\ i > 1 => Number(found[i - 1]) < Number(found[i])

FoundOK(found, c, p) ==
  /\ \A i \in 1 .. Len(found) : FoundHere(found, c, p, i)
  /\ \A k \in Nat : Starts(c, k) /\ 4 * k + 3 <= p =>
       \E i \in 1 .. Len(found) : found[i] = Heard(c, k)

ScanOK(r, c, p) == ScanTypeOK(r) /\ BegunOK(r, c, p) /\ FoundOK(r.found, c, p)

\* FoundOK, for the steps that do not need all of it.
LEMMA FoundAt ==
  ASSUME NEW found, NEW c, NEW p, FoundOK(found, c, p)
  PROVE  /\ \A i \in 1 .. Len(found) : FoundHere(found, c, p, i)
         /\ \A k \in Nat : Starts(c, k) /\ 4 * k + 3 <= p =>
              \E i \in 1 .. Len(found) : found[i] = Heard(c, k)
BY DEF FoundOK

\* What was found up to a position was found up to a later one.
LEMMA FoundLater ==
  ASSUME NEW found, NEW c, NEW p \in Nat, NEW q \in Nat, p <= q, NEW i, FoundHere(found, c, p, i)
  PROVE  FoundHere(found, c, q, i)
<1>1. ASSUME NEW v \in Nat, 4 * v + 3 <= p PROVE 4 * v + 3 <= q
  BY <1>1
<1>2. QED
  BY <1>1 DEF FoundHere

\* A byte that closes no frame adds none to those that are found.
LEMMA FoundMoves ==
  ASSUME NEW found, NEW c \in Nat, NEW p \in Nat, FoundOK(found, c, p),
         NEW k \in Nat, p + 1 = 4 * k \/ p + 1 = 4 * k + 1 \/ p + 1 = 4 * k + 2
  PROVE  FoundOK(found, c, p + 1)
<1>1. ASSUME NEW i \in 1 .. Len(found) PROVE FoundHere(found, c, p + 1, i)
  <2>1. FoundHere(found, c, p, i) /\ p + 1 \in Nat /\ p <= p + 1
    BY FoundAt
  <2>2. QED
    BY <2>1, FoundLater
<1>2. ASSUME NEW j \in Nat, Starts(c, j), 4 * j + 3 <= p + 1
      PROVE  \E i \in 1 .. Len(found) : found[i] = Heard(c, j)
  <2>1. 4 * j + 3 <= p
    <3>1. CASE p + 1 = 4 * k
      BY <1>2, <3>1
    <3>2. CASE p + 1 = 4 * k + 1
      BY <1>2, <3>2
    <3>3. CASE p + 1 = 4 * k + 2
      BY <1>2, <3>3
    <3>4. QED
      BY <3>1, <3>2, <3>3
  <2>2. QED
    BY <1>2, <2>1, FoundAt
<1>3. QED
  BY <1>1, <1>2 DEF FoundOK

\* The byte at a place of a frame.
LEMMA ByteAt ==
  ASSUME NEW b, NEW p \in Nat, At(b, p), NEW k \in Nat, k > 0
  PROVE  /\ p = 4 * k => b = Opening
         /\ p = 4 * k + 1 => b = Lead(k)
         /\ p = 4 * k + 2 => b = k
         /\ p = 4 * k + 3 => b = Closing
BY DEF At

\* The places of a frame are different positions.
LEMMA Residues ==
  ASSUME NEW j \in Nat, NEW k \in Nat
  PROVE  /\ 4 * k # 4 * j + 1 /\ 4 * k # 4 * j + 2 /\ 4 * k # 4 * j + 3
         /\ 4 * k + 1 # 4 * j + 2 /\ 4 * k + 1 # 4 * j + 3 /\ 4 * k + 2 # 4 * j + 3
         /\ 4 * k = 4 * j => j = k
         /\ 4 * k + 1 = 4 * j + 1 => j = k
         /\ 4 * k + 2 = 4 * j + 2 => j = k
         /\ 4 * k + 3 = 4 * j + 3 => j = k
OBVIOUS

\* An opening byte begins a frame, ...
LEMMA ScanOpening ==
  ASSUME NEW r, NEW c \in Nat, NEW p \in Nat, c <= p, ScanOK(r, c, p),
         NEW k \in Nat, k > 0, p + 1 = 4 * k, NEW b, At(b, p + 1)
  PROVE  ScanOK(ScanNext(r, b), c, p + 1)
<1> DEFINE n == ScanNext(r, b)
<1>1. b = Opening /\ b \in Bytes /\ p + 1 \in Nat
  BY ByteAt, ByteNumbers
<1>2. ~ r.begun
  <2>1. k - 1 \in Nat /\ p = 4 * (k - 1) + 3
    OBVIOUS
  <2>2. QED
    BY <2>1 DEF ScanOK, BegunOK
<1>3. ScanTypeOK(n) /\ n.begun /\ n.frame = <<>> /\ n.found = r.found
  BY <1>1, <1>2, ScanNextFields DEF ScanOK
<1> HIDE DEF n
<1>4. BegunOK(n, c, p + 1)
  <2>1. p + 1 > c
    OBVIOUS
  <2>2. ASSUME NEW j \in Nat
        PROVE  p + 1 # 4 * j + 1 /\ p + 1 # 4 * j + 2 /\ p + 1 # 4 * j + 3
    BY Residues
  <2>3. QED
    BY <1>3, <2>1, <2>2 DEF BegunOK
<1>5. FoundOK(n.found, c, p + 1)
  BY <1>3, FoundMoves DEF ScanOK
<1>6. QED
  BY <1>3, <1>4, <1>5 DEF n, ScanOK

\* ... so does the U+0000 behind it, if the opening byte was not read, ...
LEMMA ScanLead ==
  ASSUME NEW r, NEW c \in Nat, NEW p \in Nat, c <= p, ScanOK(r, c, p),
         NEW k \in Nat, k > 0, k < Closing, p + 1 = 4 * k + 1, NEW b, At(b, p + 1)
  PROVE  ScanOK(ScanNext(r, b), c, p + 1)
<1> DEFINE n == ScanNext(r, b)
<1>1. b = Lead(k) /\ b \in Bytes /\ b # Closing /\ (b = Opening <=> k \in NulFrames)
  BY ByteAt, LeadIsByte
<1>2. p = 4 * k
  OBVIOUS
<1>3. (r.begun <=> p > c) /\ (r.begun => r.frame = <<>>)
  BY <1>2 DEF ScanOK, BegunOK
<1>4. ScanTypeOK(r)
  BY DEF ScanOK
<1>5. /\ ScanTypeOK(n) /\ n.found = r.found /\ (n.begun <=> Starts(c, k))
      /\ n.begun => n.frame = IF c < 4 * k THEN <<Lead(k)>> ELSE <<>>
  <2>1. CASE c < 4 * k
    <3>1. r.begun /\ r.frame = <<>> /\ Starts(c, k)
      BY <1>2, <1>3, <2>1 DEF Starts
    <3>2. ScanTypeOK(n) /\ n.begun /\ n.frame = Append(<<>>, b) /\ n.found = r.found
      BY <1>1, <1>4, <3>1, ScanNextFields
    <3>3. n.frame = <<Lead(k)>>
      BY <1>1, <3>2, TextsGrow
    <3>4. QED
      BY <2>1, <3>1, <3>2, <3>3
  <2>2. CASE c = 4 * k /\ k \in NulFrames
    <3>1. ~ r.begun /\ b = Opening /\ Starts(c, k) /\ ~ (c < 4 * k)
      BY <1>1, <1>2, <1>3, <2>2 DEF Starts
    <3>2. ScanTypeOK(n) /\ n.begun /\ n.frame = <<>> /\ n.found = r.found
      BY <1>1, <1>4, <3>1, ScanNextFields
    <3>3. QED
      BY <3>1, <3>2
  <2>3. CASE c = 4 * k /\ k \notin NulFrames
    <3>1. ~ r.begun /\ b # Opening /\ ~ Starts(c, k)
      BY <1>1, <1>2, <1>3, <2>3 DEF Starts
    <3>2. n = r
      BY <1>1, <1>4, <3>1, ScanNextFields
    <3>3. QED
      BY <1>4, <3>1, <3>2
  <2>4. c < 4 * k \/ c = 4 * k
    BY <1>2
  <2>5. QED
    BY <2>1, <2>2, <2>3, <2>4
<1> HIDE DEF n
<1>6. BegunOK(n, c, p + 1)
  <2>1. ASSUME NEW j \in Nat
        PROVE  /\ p + 1 # 4 * j /\ p + 1 # 4 * j + 2 /\ p + 1 # 4 * j + 3
               /\ p + 1 = 4 * j + 1 => j = k
    BY Residues
  <2>2. QED
    BY <1>5, <2>1 DEF BegunOK
<1>7. FoundOK(n.found, c, p + 1)
  BY <1>5, FoundMoves DEF ScanOK
<1>8. QED
  BY <1>5, <1>6, <1>7 DEF n, ScanOK

\* ... the number behind it belongs to its text, ...
LEMMA ScanText ==
  ASSUME NEW r, NEW c \in Nat, NEW p \in Nat, c <= p, ScanOK(r, c, p),
         NEW k \in Nat, k > 0, k < Closing, p + 1 = 4 * k + 2, NEW b, At(b, p + 1)
  PROVE  ScanOK(ScanNext(r, b), c, p + 1)
<1> DEFINE n == ScanNext(r, b)
<1>1. b = k /\ b \in Bytes /\ b # Closing /\ b # Opening
  BY ByteAt, LeadIsByte
<1>2. p = 4 * k + 1 /\ ScanTypeOK(r)
  BY DEF ScanOK
<1>3. /\ r.begun <=> Starts(c, k)
      /\ r.begun => r.frame = IF c < 4 * k THEN <<Lead(k)>> ELSE <<>>
  BY <1>2 DEF ScanOK, BegunOK
<1>4. ScanTypeOK(n) /\ n.found = r.found /\ (n.begun <=> r.begun)
  <2>1. CASE r.begun
    BY <1>1, <1>2, <2>1, ScanNextFields
  <2>2. CASE ~ r.begun
    BY <1>1, <1>2, <2>2, ScanNextFields
  <2>3. QED
    BY <2>1, <2>2
<1>5. ASSUME r.begun PROVE n.frame = Heard(c, k)
  <2>1. n.frame = Append(r.frame, k)
    BY <1>1, <1>2, <1>5, ScanNextFields
  <2>2. CASE c < 4 * k
    BY <1>3, <1>5, <2>1, <2>2, TextsGrow DEF Heard
  <2>3. CASE ~ (c < 4 * k)
    BY <1>3, <1>5, <2>1, <2>3, TextsGrow DEF Heard
  <2>4. QED
    BY <2>2, <2>3
<1> HIDE DEF n
<1>6. BegunOK(n, c, p + 1)
  <2>1. ASSUME NEW j \in Nat
        PROVE  /\ p + 1 # 4 * j /\ p + 1 # 4 * j + 1 /\ p + 1 # 4 * j + 3
               /\ p + 1 = 4 * j + 2 => j = k
    BY Residues
  <2>2. QED
    BY <1>3, <1>4, <1>5, <2>1 DEF BegunOK
<1>7. FoundOK(n.found, c, p + 1)
  BY <1>4, FoundMoves DEF ScanOK
<1>8. QED
  BY <1>4, <1>6, <1>7 DEF n, ScanOK

\* ... and the closing byte ends it, if its start was among them.
LEMMA ScanClosing ==
  ASSUME NEW r, NEW c \in Nat, NEW p \in Nat, c <= p, ScanOK(r, c, p),
         NEW k \in Nat, k > 0, k < Closing, p + 1 = 4 * k + 3, NEW b, At(b, p + 1)
  PROVE  ScanOK(ScanNext(r, b), c, p + 1)
<1> DEFINE n == ScanNext(r, b)
<1>1. b = Closing /\ b \in Bytes /\ b # Opening
  BY ByteAt, ByteNumbers
<1>2. p = 4 * k + 2 /\ ScanTypeOK(r) /\ FoundOK(r.found, c, p) /\ p + 1 \in Nat /\ p <= p + 1
  BY DEF ScanOK
<1>3. (r.begun <=> Starts(c, k)) /\ (r.begun => r.frame = Heard(c, k))
  BY <1>2 DEF ScanOK, BegunOK
<1>4. ScanTypeOK(n) /\ ~ n.begun
  <2>1. CASE r.begun
    BY <1>1, <1>2, <2>1, ScanNextFields
  <2>2. CASE ~ r.begun
    BY <1>1, <1>2, <2>2, ScanNextFields
  <2>3. QED
    BY <2>1, <2>2
<1>5. BegunOK(n, c, p + 1)
  <2> HIDE DEF n
  <2>1. ASSUME NEW j \in Nat
        PROVE  p + 1 # 4 * j /\ p + 1 # 4 * j + 1 /\ p + 1 # 4 * j + 2
    BY Residues
  <2>2. QED
    BY <1>4, <2>1 DEF BegunOK
<1>6. r.found \in Seq(Seq(Bytes)) /\ Len(r.found) \in Nat
  <2>1. r.found \in Seq(Seq(Bytes))
    BY <1>2 DEF ScanTypeOK
  <2>2. QED
    BY <2>1, LenProperties
<1> DEFINE l == Len(r.found)
<1>7. ASSUME NEW j \in Nat, Starts(c, j), 4 * j + 3 <= p + 1, j # k
      PROVE  \E i \in 1 .. l : r.found[i] = Heard(c, j)
  <2>1. 4 * j + 3 <= p
    BY <1>2, <1>7
  <2>2. QED
    BY <1>2, <1>7, <2>1, FoundAt
<1>8. CASE ~ r.begun
  <2>1. n.found = r.found /\ ~ Starts(c, k)
    BY <1>1, <1>2, <1>3, <1>8, ScanNextFields
  <2> HIDE DEF n
  <2>2. ASSUME NEW i \in 1 .. l PROVE FoundHere(r.found, c, p + 1, i)
    BY <1>2, FoundAt, FoundLater
  <2>3. FoundOK(r.found, c, p + 1)
    BY <1>7, <2>1, <2>2 DEF FoundOK
  <2>4. QED
    BY <1>4, <1>5, <2>1, <2>3 DEF n, ScanOK
<1>9. CASE r.begun
  <2> DEFINE h == Heard(c, k)
             one == n.found
  <2>1. one = Append(r.found, h) /\ Starts(c, k)
    BY <1>1, <1>2, <1>3, <1>9, ScanNextFields
  <2>2. Number(h) = k /\ h \in Seq(Bytes)
    BY HeardHasNumber
  <2> HIDE DEF h
  <2>3. /\ Len(one) = l + 1 /\ one[l + 1] = h
        /\ \A i \in 1 .. l : one[i] = r.found[i]
    BY <1>6, <2>1, <2>2, AppendProperties
  <2> HIDE DEF n, l, one
  <2>4. l \in Nat
    BY <1>6 DEF l
  <2>5. ASSUME NEW i \in 1 .. l PROVE FoundHere(one, c, p, i)
    <3>1. FoundHere(r.found, c, p, i)
      BY <1>2, FoundAt DEF l
    <3>2. one[i] = r.found[i] /\ (i > 1 => one[i - 1] = r.found[i - 1])
      BY <2>3, <2>4
    <3>3. QED
      BY <3>1, <3>2 DEF FoundHere
  <2>6. ASSUME NEW i \in 1 .. Len(one) PROVE FoundHere(one, c, p + 1, i)
    <3>1. CASE i \in 1 .. l
      BY <1>2, <2>5, <3>1, FoundLater
    <3>2. CASE i = l + 1
      <4>1. one[i] = Heard(c, k) /\ Number(one[i]) = k
        BY <2>2, <2>3, <3>2 DEF h
      <4>2. ASSUME i > 1 PROVE Number(one[i - 1]) < k
        <5>1. i - 1 \in 1 .. l
          BY <2>4, <3>2, <4>2
        <5>2. Number(one[i - 1]) \in Nat /\ 4 * Number(one[i - 1]) + 3 <= p
          BY <2>5, <5>1 DEF FoundHere
        <5> DEFINE v == Number(one[i - 1])
        <5>3. v \in Nat /\ 4 * v + 3 <= p
          BY <5>2
        <5> HIDE DEF v
        <5>4. v < k
          BY <1>2, <5>3
        <5>5. QED
          BY <5>4 DEF v
      <4>3. 4 * k + 3 <= p + 1
        BY <1>2
      <4>4. QED
        BY <2>1, <4>1, <4>2, <4>3 DEF FoundHere
    <3>3. i \in 1 .. l \/ i = l + 1
      BY <2>3, <2>4
    <3>4. QED
      BY <3>1, <3>2, <3>3
  <2>7. ASSUME NEW j \in Nat, Starts(c, j), 4 * j + 3 <= p + 1
        PROVE  \E i \in 1 .. Len(one) : one[i] = Heard(c, j)
    <3>1. CASE j = k
      <4>1. l + 1 \in 1 .. Len(one) /\ one[l + 1] = Heard(c, j)
        BY <2>3, <2>4, <3>1 DEF h
      <4>2. QED
        BY <4>1
    <3>2. CASE j # k
      <4>1. PICK i \in 1 .. l : r.found[i] = Heard(c, j)
        BY <1>7, <2>7, <3>2 DEF l
      <4>2. i \in 1 .. Len(one) /\ one[i] = Heard(c, j)
        BY <2>3, <2>4, <4>1
      <4>3. QED
        BY <4>2
    <3>3. QED
      BY <3>1, <3>2
  <2>8. FoundOK(one, c, p + 1)
    BY <2>6, <2>7 DEF FoundOK
  <2>9. QED
    BY <1>4, <1>5, <2>8 DEF n, one, ScanOK
<1>10. QED
  BY <1>8, <1>9

\* What the loop finds in the bytes that follow position c of the stream.
LEMMA FramesOfStream ==
  ASSUME NEW bytes, NEW n \in Nat, DOMAIN bytes = 1 .. n, NEW c \in Nat, c >= 3,
         NEW s \in Nat, s < Closing, c + n <= 4 * s + 3,
         \A i \in 1 .. n : At(bytes[i], c + i)
  PROVE  Frames(bytes) \in Seq(Seq(Bytes)) /\ FoundOK(Frames(bytes), c, c + n)
<1> DEFINE last == Scan!Fold(NothingFound, bytes, 0)
<1>1. last = Scan!Fold(NothingFound, bytes, 0)
  OBVIOUS
<1> HIDE DEF last
<1>10. PICK r : ScansTo(r, bytes, n, last)
  BY <1>1, ScanSteps
<1>2. /\ r[0] = NothingFound /\ r[n] = last
      /\ \A k \in 0 .. n - 1 : r[k + 1] = ScanNext(r[k], bytes[k + 1])
  BY <1>10 DEF ScansTo
<1> DEFINE K == { k \in Nat : ScanOK(r[k], c, c + k) }
<1>3. 0 \in K
  <2>1. ~ NothingFound.begun /\ NothingFound.found = <<>> /\ Len(<<>>) = 0
    BY DEF NothingFound
  <2>2. c + 0 = c /\ ~ (c > c)
    OBVIOUS
  <2>3. ASSUME NEW j \in Nat
        PROVE  /\ c = 4 * j + 1 \/ c = 4 * j + 2 => ~ Starts(c, j)
               /\ ~ (Starts(c, j) /\ 4 * j + 3 <= c)
    BY DEF Starts
  <2>4. BegunOK(NothingFound, c, c)
    BY <2>1, <2>2, <2>3 DEF BegunOK
  <2>5. FoundOK(<<>>, c, c)
    BY <2>1, <2>3 DEF FoundOK
  <2>6. ScanOK(r[0], c, c + 0)
    BY <1>2, <2>1, <2>2, <2>4, <2>5, NothingIsTyped DEF ScanOK
  <2>7. QED
    BY <2>6
<1>4. ASSUME NEW m \in 0 .. n - 1, m \in K PROVE m + 1 \in K
  <2> DEFINE q == r[m]
             b == bytes[m + 1]
             p == c + m
  <2>1. /\ m \in Nat /\ m + 1 \in Nat /\ m + 1 \in 1 .. n /\ p \in Nat /\ p + 1 \in Nat
        /\ c + (m + 1) = p + 1 /\ p >= 3 /\ c <= p /\ p + 1 <= 4 * s + 3
    OBVIOUS
  <2>2. r[m + 1] = ScanNext(q, b) /\ At(b, p + 1) /\ ScanOK(q, c, p)
    <3>1. r[m + 1] = ScanNext(q, b)
      BY <1>2
    <3>2. At(b, c + (m + 1))
      BY <2>1
    <3>3. ScanOK(q, c, p)
      BY <1>4
    <3>4. QED
      BY <2>1, <3>1, <3>2, <3>3
  <2> HIDE DEF q, b, p
  <2>3. PICK k \in Nat :
          p + 1 = 4 * k \/ p + 1 = 4 * k + 1 \/ p + 1 = 4 * k + 2 \/ p + 1 = 4 * k + 3
    BY <2>1, Fours
  <2>4. k > 0 /\ k <= s
    BY <2>1, <2>3
  <2>5. k < Closing
    BY <2>4, ByteNumbers
  <2>6. ScanOK(ScanNext(q, b), c, p + 1)
    <3>1. CASE p + 1 = 4 * k
      BY <2>1, <2>2, <2>4, <3>1, ScanOpening
    <3>2. CASE p + 1 = 4 * k + 1
      BY <2>1, <2>2, <2>4, <2>5, <3>2, ScanLead
    <3>3. CASE p + 1 = 4 * k + 2
      BY <2>1, <2>2, <2>4, <2>5, <3>3, ScanText
    <3>4. CASE p + 1 = 4 * k + 3
      BY <2>1, <2>2, <2>4, <2>5, <3>4, ScanClosing
    <3>5. QED
      BY <2>3, <3>1, <3>2, <3>3, <3>4
  <2>7. QED
    BY <2>1, <2>2, <2>6
<1> HIDE DEF K
<1>5. \A k \in 0 .. n : k \in K
  BY <1>3, <1>4, Scan!UpTo
<1>6. n \in K
  BY <1>5
<1>7. ScanOK(last, c, c + n)
  BY <1>2, <1>6 DEF K
<1>8. Frames(bytes) = last.found
  BY <1>1, FramesFold
<1>9. QED
  BY <1>7, <1>8 DEF ScanTypeOK, ScanOK

-----------------------------------------------------------------------------
(* What the client sends.                                                  *)

Total == IF asked THEN 3 + 4 * sent ELSE 0

\* How many bytes the handler has read.
Consumed == Total - Len(wire)

\* The bytes on the wire are those that follow the ones that were read.
WireInv ==
  /\ asked \in BOOLEAN /\ sent \in Nat /\ sent <= MaxFrames
  /\ ~ asked => sent = 0
  /\ wire \in Seq(Bytes) /\ Len(wire) <= Total
  /\ \A i \in 1 .. Len(wire) : At(wire[i], Consumed + i)

\* How many bytes there are, and where the wire begins.
LEMMA WireNumbers ==
  ASSUME WireInv
  PROVE  /\ Total \in Nat /\ Len(wire) \in Nat /\ Consumed \in Nat
         /\ Consumed + Len(wire) = Total /\ Total <= 4 * sent + 3
         /\ sent \in Nat /\ sent <= MaxFrames /\ MaxFrames \in Nat /\ MaxFrames < Closing
<1>1. Len(wire) \in Nat
  BY LenProperties DEF WireInv
<1>2. sent \in Nat /\ sent <= MaxFrames /\ Len(wire) <= Total
  BY DEF WireInv
<1>3. Total \in Nat /\ Total <= 4 * sent + 3
  <2>1. CASE asked
    BY <1>2, <2>1 DEF Total
  <2>2. CASE ~ asked
    BY <1>2, <2>2 DEF Total
  <2>3. QED
    BY <2>1, <2>2
<1>4. MaxFrames \in Nat /\ MaxFrames < Closing
  BY MaxFramesAssumption, ByteNumbers
<1>5. QED
  BY <1>1, <1>2, <1>3, <1>4 DEF Consumed

\* The request is where it should be, ...
LEMMA RequestAt ==
  /\ At(Header, 1) /\ At(301, 2) /\ At(302, 3)
<1>1. ASSUME NEW k \in Nat \ {0}
      PROVE  \A q \in {1, 2, 3} :
               q # 4 * k /\ q # 4 * k + 1 /\ q # 4 * k + 2 /\ q # 4 * k + 3
  OBVIOUS
<1>2. QED
  BY <1>1 DEF At

\* ... and so is each frame.
LEMMA FrameAt ==
  ASSUME NEW k \in Nat, k > 0
  PROVE  /\ At(Opening, 4 * k) /\ At(Lead(k), 4 * k + 1)
         /\ At(k, 4 * k + 2) /\ At(Closing, 4 * k + 3)
<1>1. \A q \in {1, 2, 3} : q # 4 * k /\ q # 4 * k + 1 /\ q # 4 * k + 2 /\ q # 4 * k + 3
  OBVIOUS
<1>2. QED
  BY <1>1, Residues DEF At

\* More bytes on the wire.
LEMMA MoreBytes ==
  ASSUME WireInv, NEW more \in Seq(Bytes), NEW w, w = wire \o more,
         \A j \in 1 .. Len(more) : At(more[j], Total + j)
  PROVE  /\ w \in Seq(Bytes) /\ Len(w) = Len(wire) + Len(more)
         /\ \A i \in 1 .. Len(w) : At(w[i], Consumed + i)
<1> DEFINE l == Len(wire)
           m == Len(more)
           c == Consumed
<1>1. l \in Nat /\ m \in Nat /\ c \in Nat /\ Total = c + l
  BY WireNumbers, LenProperties
<1>2. wire \in Seq(Bytes) /\ \A i \in 1 .. l : At(wire[i], c + i)
  BY DEF WireInv
<1>3. /\ w \in Seq(Bytes) /\ Len(w) = l + m
      /\ \A i \in 1 .. l + m : w[i] = IF i <= l THEN wire[i] ELSE more[i - l]
  BY <1>2, ConcatProperties
<1>4. \A j \in 1 .. m : At(more[j], Total + j)
  OBVIOUS
<1> HIDE DEF l, m, c
<1>5. ASSUME NEW i \in 1 .. l + m PROVE At(w[i], c + i)
  <2>1. CASE i <= l
    BY <1>1, <1>2, <1>3, <2>1
  <2>2. CASE ~ (i <= l)
    <3>1. i - l \in 1 .. m /\ Total + (i - l) = c + i
      BY <1>1, <2>2
    <3>2. w[i] = more[i - l]
      BY <1>3, <2>2
    <3>3. QED
      BY <1>4, <3>1, <3>2
  <2>3. QED
    BY <2>1, <2>2
<1>6. QED
  BY <1>3, <1>5 DEF l, m, c

\* The client sends its request, ...
LEMMA AskStep ==
  ASSUME WireInv, Ask
  PROVE  WireInv' /\ Consumed = 0 /\ Consumed' = 0 /\ ~ (Len(wire') < Len(wire))
<1>1. ~ asked /\ asked' = TRUE /\ wire' = wire \o Request /\ sent' = sent /\ sent = 0
  BY DEF Ask, WireInv
<1>2. Total = 0 /\ Consumed = 0 /\ Len(wire) = 0 /\ Total' = 3
  <2>1. Total = 0
    BY <1>1 DEF Total
  <2>2. Consumed = 0 /\ Len(wire) = 0
    BY <2>1, WireNumbers
  <2>3. Total' = 3
    BY <1>1 DEF Total
  <2>4. QED
    BY <2>1, <2>2, <2>3
<1>3. Request = <<Header, 301, 302>> /\ Header \in Bytes /\ 301 \in Bytes /\ 302 \in Bytes
  <2>1. Request = <<Header, 301, 302>>
    <3>1. <<Header>> \in Seq(Int) /\ <<301, 302>> \in Seq(Int) /\ <<Header, 301, 302>> \in Seq(Int)
      BY DEF Header
    <3>2. /\ Len(<<Header>>) = 1 /\ <<Header>>[1] = Header
          /\ Len(<<301, 302>>) = 2 /\ <<301, 302>>[1] = 301 /\ <<301, 302>>[2] = 302
      OBVIOUS
    <3> DEFINE h == <<Header>>
               e == <<301, 302>>
               t == <<Header, 301, 302>>
               q == h \o e
    <3>3. t \in Seq(Int) /\ Len(t) = 3 /\ t[1] = Header /\ t[2] = 301 /\ t[3] = 302
      BY <3>1
    <3>4. Request = q
      BY DEF Request, BlankLine
    <3> HIDE DEF h, e, t
    <3>5. /\ q \in Seq(Int) /\ Len(q) = Len(h) + Len(e)
          /\ \A i \in 1 .. Len(h) + Len(e) : q[i] = IF i <= Len(h) THEN h[i] ELSE e[i - Len(h)]
      BY <3>1, ConcatProperties DEF h, e
    <3> HIDE DEF q
    <3>6. Len(q) = 3 /\ q[1] = Header /\ q[2] = 301 /\ q[3] = 302
      BY <3>2, <3>5 DEF h, e
    <3>7. Len(q) = Len(t) /\ \A i \in 1 .. Len(q) : q[i] = t[i]
      BY <3>3, <3>6
    <3>8. q = t
      BY <3>3, <3>5, <3>7, SeqEqual
    <3>9. QED
      BY <3>4, <3>8 DEF t
  <2>2. Header \in Bytes /\ 301 \in Bytes /\ 302 \in Bytes
    BY DEF Header, Bytes
  <2>3. QED
    BY <2>1, <2>2
<1>4. /\ wire' \in Seq(Bytes) /\ Len(wire') = 3
      /\ \A i \in 1 .. Len(wire') : At(wire'[i], Consumed + i)
  <2> DEFINE t == <<Header, 301, 302>>
             w == wire'
  <2>1. t \in Seq(Bytes) /\ Len(t) = 3 /\ t[1] = Header /\ t[2] = 301 /\ t[3] = 302
    BY <1>3
  <2>2. w = wire \o t
    BY <1>1, <1>3
  <2> HIDE DEF t, w
  <2>3. \A j \in 1 .. 3 : At(t[j], Total + j)
    <3>1. \A j \in 1 .. 3 : j = 1 \/ j = 2 \/ j = 3
      OBVIOUS
    <3>2. Total + 1 = 1 /\ Total + 2 = 2 /\ Total + 3 = 3
      BY <1>2
    <3>3. QED
      BY <2>1, <3>1, <3>2, RequestAt
  <2>4. /\ w \in Seq(Bytes) /\ Len(w) = Len(wire) + Len(t)
        /\ \A i \in 1 .. Len(w) : At(w[i], Consumed + i)
    <3>1. t \in Seq(Bytes) /\ \A j \in 1 .. Len(t) : At(t[j], Total + j)
      BY <2>1, <2>3
    <3>2. QED
      BY <2>2, <3>1, MoreBytes
  <2>5. Len(w) = 3
    BY <1>2, <2>1, <2>4
  <2>6. QED
    BY <2>4, <2>5 DEF w
<1>5. Consumed' = 0
  BY <1>2, <1>4 DEF Consumed
<1>6. sent' \in Nat /\ sent' <= MaxFrames
  BY <1>1, WireNumbers
<1>7. asked' \in BOOLEAN /\ (~ asked' => sent' = 0)
  BY <1>1
<1>8. \A i \in 1 .. Len(wire') : At(wire'[i], Consumed' + i)
  BY <1>2, <1>4, <1>5
<1>9. Len(wire') <= Total' /\ ~ (Len(wire') < Len(wire))
  BY <1>2, <1>4
<1>10. QED
  BY <1>2, <1>4, <1>5, <1>6, <1>7, <1>8, <1>9 DEF WireInv

\* ... or a frame.
LEMMA SendStep ==
  ASSUME WireInv, SendFrame
  PROVE  WireInv' /\ Consumed' = Consumed /\ ~ (Len(wire') < Len(wire))
<1> DEFINE k == sent + 1
<1>1. /\ asked /\ asked' = asked /\ sent < MaxFrames /\ sent' = k
      /\ wire' = wire \o <<Opening, Lead(k), k, Closing>>
  BY DEF SendFrame, Frame
<1>2. k \in Nat /\ k > 0 /\ k <= MaxFrames /\ k \in Bytes
  <2>1. k \in Nat /\ k > 0 /\ k <= MaxFrames
    BY <1>1, WireNumbers
  <2>2. k < 255
    BY <2>1, WireNumbers, ByteNumbers
  <2>3. QED
    BY <2>1, <2>2 DEF Bytes
<1>3. Total + 1 = 4 * k /\ Total + 2 = 4 * k + 1 /\ Total + 3 = 4 * k + 2 /\ Total + 4 = 4 * k + 3
      /\ Total' = 4 * k + 3 /\ Total \in Nat
  <2>1. sent \in Nat
    BY WireNumbers
  <2>2. Total = 3 + 4 * sent /\ Total' = 3 + 4 * (sent + 1)
    BY <1>1 DEF Total
  <2>3. QED
    BY <2>1, <2>2
<1>4. /\ At(Opening, Total + 1) /\ At(Lead(k), Total + 2)
      /\ At(k, Total + 3) /\ At(Closing, Total + 4)
  BY <1>2, <1>3, FrameAt
<1> HIDE DEF k
<1>5. /\ wire' \in Seq(Bytes) /\ Len(wire') = Len(wire) + 4
      /\ \A i \in 1 .. Len(wire') : At(wire'[i], Consumed + i)
  <2>1. k < Closing
    BY <1>2, WireNumbers, ByteNumbers
  <2>2. Opening \in Bytes /\ Closing \in Bytes /\ k \in Bytes /\ Lead(k) \in Bytes
    BY <1>2, <2>1, ByteNumbers, LeadIsByte
  <2> DEFINE t == <<Opening, Lead(k), k, Closing>>
             w == wire'
  <2>3. /\ t \in Seq(Bytes) /\ Len(t) = 4
        /\ t[1] = Opening /\ t[2] = Lead(k) /\ t[3] = k /\ t[4] = Closing
    BY <2>2
  <2>4. w = wire \o t
    BY <1>1
  <2> HIDE DEF t, w
  <2>5. \A j \in 1 .. 4 : At(t[j], Total + j)
    <3>1. \A j \in 1 .. 4 : j = 1 \/ j = 2 \/ j = 3 \/ j = 4
      OBVIOUS
    <3>2. QED
      BY <1>4, <2>3, <3>1
  <2>6. /\ w \in Seq(Bytes) /\ Len(w) = Len(wire) + 4
        /\ \A i \in 1 .. Len(w) : At(w[i], Consumed + i)
    BY <2>3, <2>4, <2>5, MoreBytes
  <2>7. QED
    BY <2>6 DEF w
<1>6. Consumed' = Consumed /\ Len(wire') <= Total'
  <2>1. Total - Len(wire) = Total' - Len(wire')
    BY <1>2, <1>3, <1>5, WireNumbers
  <2>2. Len(wire') <= Total'
    BY <1>2, <1>3, <1>5, WireNumbers
  <2>3. QED
    BY <2>1, <2>2 DEF Consumed
<1>7. asked' \in BOOLEAN /\ (~ asked' => sent' = 0)
  BY <1>1 DEF WireInv
<1>8. \A i \in 1 .. Len(wire') : At(wire'[i], Consumed' + i)
  BY <1>5, <1>6
<1>9. sent' \in Nat /\ sent' <= MaxFrames
  BY <1>1, <1>2
<1>10. ~ (Len(wire') < Len(wire))
  BY <1>5, WireNumbers
<1>11. QED
  BY <1>5, <1>6, <1>7, <1>8, <1>9, <1>10 DEF WireInv

-----------------------------------------------------------------------------
(* What a call reads.                                                      *)

\* The handler takes n bytes from the wire.
LEMMA ReadWire ==
  ASSUME WireInv, NEW n \in 1 .. Len(wire), wire' = SubSeq(wire, n + 1, Len(wire)),
         UNCHANGED <<asked, sent>>
  PROVE  WireInv' /\ Consumed' = Consumed + n /\ Len(wire') = Len(wire) - n
<1> DEFINE l == Len(wire)
           c == Consumed
           w == wire'
<1>1. /\ wire \in Seq(Bytes) /\ l \in Nat /\ c \in Nat /\ c + l = Total /\ Total \in Nat
      /\ \A i \in 1 .. l : At(wire[i], c + i)
  BY WireNumbers DEF WireInv
<1>2. \A i \in n + 1 .. l : wire[i] \in Bytes
  BY <1>1, ElementOfSeq
<1>3. n \in 1 .. l /\ n + 1 \in Int /\ l \in Int /\ w = SubSeq(wire, n + 1, l)
  BY <1>1
<1>4. Total' = Total
  BY DEF Total
<1>5. Consumed' = Total - Len(w)
  BY <1>4 DEF Consumed
<1> HIDE DEF l, c, w
<1>6. /\ w \in Seq(Bytes) /\ Len(w) = IF n + 1 <= l THEN l - (n + 1) + 1 ELSE 0
      /\ \A i \in 1 .. l - (n + 1) + 1 : w[i] = wire[n + 1 + i - 1]
  BY <1>2, <1>3, SubSeqProperties
<1>7. Len(w) = l - n
  BY <1>1, <1>3, <1>6
<1>8. \A i \in 1 .. l - n : At(w[i], c + n + i)
  <2>1. TAKE i \in 1 .. l - n
  <2>2. n + i \in 1 .. l /\ i \in 1 .. l - (n + 1) + 1 /\ n + 1 + i - 1 = n + i
        /\ c + (n + i) = c + n + i
    BY <1>1, <1>3
  <2>3. w[i] = wire[n + i]
    BY <1>6, <2>2
  <2>4. QED
    BY <1>1, <2>2, <2>3
<1>9. Consumed' = c + n /\ Len(w) <= Total
  BY <1>1, <1>3, <1>5, <1>7
<1>10. WireInv'
  <2>1. asked' \in BOOLEAN /\ sent' \in Nat /\ sent' <= MaxFrames /\ (~ asked' => sent' = 0)
    BY DEF WireInv
  <2>2. \A i \in 1 .. Len(wire') : At(wire'[i], Consumed' + i)
    BY <1>7, <1>8, <1>9 DEF w
  <2>3. wire' \in Seq(Bytes) /\ Len(wire') <= Total'
    BY <1>4, <1>6, <1>9 DEF w
  <2>4. QED
    BY <2>1, <2>2, <2>3 DEF WireInv
<1>11. QED
  BY <1>7, <1>9, <1>10 DEF l, c, w

\* They are at the front of the buffer then.
LEMMA ReadBuffer ==
  ASSUME WireInv, buffer \in Seq(Bytes), Len(buffer) = BUFFER_SIZE,
         NEW n \in 1 .. BUFFER_SIZE, n <= Len(wire)
  PROVE  /\ Buffered(n) \in Seq(Bytes) /\ Len(Buffered(n)) = BUFFER_SIZE
         /\ \A i \in 1 .. n : Buffered(n)[i] = wire[i]
         /\ SubSeq(wire, 1, n) \in Seq(Bytes) /\ Len(SubSeq(wire, 1, n)) = n
         /\ \A i \in 1 .. n : SubSeq(wire, 1, n)[i] = wire[i]
<1> DEFINE piece == SubSeq(wire, 1, n)
           rest == SubSeq(buffer, n + 1, BUFFER_SIZE)
<1>1. /\ wire \in Seq(Bytes) /\ Len(wire) \in Nat /\ BUFFER_SIZE \in Nat /\ n \in Nat /\ n > 0
      /\ n <= BUFFER_SIZE
  BY BufferAssumption, WireNumbers DEF WireInv
<1>2. \A i \in 1 .. n : wire[i] \in Bytes
  <2>1. \A i \in 1 .. n : i \in 1 .. Len(wire)
    BY <1>1
  <2>2. QED
    BY <1>1, <2>1, ElementOfSeq
<1>3. \A i \in n + 1 .. BUFFER_SIZE : buffer[i] \in Bytes
  <2>1. \A i \in n + 1 .. BUFFER_SIZE : i \in 1 .. Len(buffer)
    BY <1>1
  <2>2. QED
    BY <2>1, ElementOfSeq
<1>4. /\ piece \in Seq(Bytes) /\ Len(piece) = IF 1 <= n THEN n - 1 + 1 ELSE 0
      /\ \A i \in 1 .. n - 1 + 1 : piece[i] = wire[1 + i - 1]
  BY <1>1, <1>2, SubSeqProperties
<1>5. /\ rest \in Seq(Bytes)
      /\ Len(rest) = IF n + 1 <= BUFFER_SIZE THEN BUFFER_SIZE - (n + 1) + 1 ELSE 0
  BY <1>1, <1>3, SubSeqProperties
<1> DEFINE read == Buffered(n)
<1>6. read = piece \o rest
  BY DEF Buffered
<1> HIDE DEF piece, rest, read
<1>7. /\ Len(piece) = n /\ \A i \in 1 .. n : piece[i] = wire[i]
      /\ Len(rest) = BUFFER_SIZE - n
  <2>1. Len(piece) = n /\ Len(rest) = BUFFER_SIZE - n
    BY <1>1, <1>4, <1>5
  <2>2. \A i \in 1 .. n : i \in 1 .. n - 1 + 1 /\ 1 + i - 1 = i
    BY <1>1
  <2>3. QED
    BY <1>4, <2>1, <2>2
<1>8. /\ read \in Seq(Bytes) /\ Len(read) = Len(piece) + Len(rest)
      /\ \A i \in 1 .. Len(piece) + Len(rest) :
           read[i] = IF i <= Len(piece) THEN piece[i] ELSE rest[i - Len(piece)]
  BY <1>4, <1>5, <1>6, ConcatProperties
<1>9. Len(read) = BUFFER_SIZE
  BY <1>1, <1>7, <1>8
<1>10. \A i \in 1 .. n : read[i] = wire[i]
  <2>1. \A i \in 1 .. n : i \in 1 .. Len(piece) + Len(rest) /\ i <= Len(piece)
    BY <1>1, <1>7
  <2>2. QED
    BY <1>7, <1>8, <2>1
<1>11. QED
  BY <1>4, <1>7, <1>8, <1>9, <1>10 DEF piece, read

\* What is at the third position is there only.
LEMMA OnlyThird ==
  ASSUME NEW b, NEW p \in Nat, p >= 1, NEW s \in Nat, s < Closing, p <= 4 * s + 3, At(b, p), b = 302
  PROVE  p = 3
<1>1. PICK k \in Nat : p = 4 * k \/ p = 4 * k + 1 \/ p = 4 * k + 2 \/ p = 4 * k + 3
  BY Fours
<1>2. CASE k > 0
  <2>1. k <= s
    BY <1>1, <1>2
  <2>2. k < Closing
    BY <2>1, ByteNumbers
  <2>3. b = Opening \/ b = Lead(k) \/ b = k \/ b = Closing
    BY <1>1, <1>2, ByteAt
  <2>4. Lead(k) = k \/ Lead(k) = Opening
    BY DEF Lead
  <2>5. Opening # 302 /\ Closing # 302 /\ k # 302
    BY <2>2, ByteNumbers
  <2>6. QED
    BY <2>3, <2>4, <2>5
<1>3. CASE k = 0
  <2>1. p = 1 \/ p = 2 \/ p = 3
    BY <1>1, <1>3
  <2>2. QED
    BY <2>1, ByteNumbers DEF At
<1>4. QED
  BY <1>2, <1>3

\* Where the blank line ends in the bytes of a call: at the third position,
\* if the call has read that and the one before it.
LEMMA RequestEnds ==
  ASSUME WireInv, NEW n \in 1 .. Len(wire), NEW piece \in Seq(Bytes), Len(piece) = n,
         \A i \in 1 .. n : piece[i] = wire[i]
  PROVE  /\ EndOfRequest(piece) \in 0 .. n
         /\ EndOfRequest(piece) # 0 => Consumed + EndOfRequest(piece) = 3
         /\ Consumed <= 1 /\ Consumed + n >= 3 => EndOfRequest(piece) # 0
<1> DEFINE c == Consumed
           ends == { i \in 2 .. Len(piece) : SubSeq(piece, i - 1, i) = BlankLine }
           e == EndOfRequest(piece)
<1>1. /\ c \in Nat /\ n \in Nat /\ Len(wire) \in Nat /\ c + Len(wire) <= 4 * sent + 3
      /\ sent \in Nat /\ sent < Closing
      /\ \A i \in 1 .. n : At(piece[i], c + i)
  <2>1. c \in Nat /\ n \in Nat /\ Len(wire) \in Nat /\ c + Len(wire) <= 4 * sent + 3 /\ sent \in Nat
    BY WireNumbers
  <2>2. sent < Closing
    BY WireNumbers, ByteNumbers
  <2>3. \A i \in 1 .. n : i \in 1 .. Len(wire)
    BY <2>1
  <2>4. QED
    BY <2>1, <2>2, <2>3 DEF WireInv
<1> HIDE DEF c
<1>2. ASSUME NEW i \in 2 .. n
      PROVE  SubSeq(piece, i - 1, i) = BlankLine <=> piece[i - 1] = 301 /\ piece[i] = 302
  <2> DEFINE two == SubSeq(piece, i - 1, i)
  <2>1. i - 1 \in Int /\ i \in Int /\ i - 1 \in 1 .. n /\ i \in 1 .. n
    BY <1>1
  <2>2. \A j \in i - 1 .. i : piece[j] \in Bytes
    <3>1. \A j \in i - 1 .. i : j \in 1 .. Len(piece)
      BY <2>1
    <3>2. QED
      BY <3>1, ElementOfSeq
  <2>3. /\ two \in Seq(Bytes) /\ Len(two) = IF i - 1 <= i THEN i - (i - 1) + 1 ELSE 0
        /\ \A j \in 1 .. i - (i - 1) + 1 : two[j] = piece[i - 1 + j - 1]
    BY <2>1, <2>2, SubSeqProperties
  <2> HIDE DEF two
  <2>4. Len(two) = 2
    BY <2>1, <2>3
  <2>5. two[1] = piece[i - 1] /\ two[2] = piece[i]
    <3>1. /\ 1 \in 1 .. i - (i - 1) + 1 /\ 2 \in 1 .. i - (i - 1) + 1
          /\ i - 1 + 1 - 1 = i - 1 /\ i - 1 + 2 - 1 = i
      BY <2>1
    <3>2. QED
      BY <2>3, <3>1
  <2>6. BlankLine \in Seq(Bytes) /\ Len(BlankLine) = 2 /\ BlankLine[1] = 301 /\ BlankLine[2] = 302
    BY DEF BlankLine, Bytes
  <2>7. ASSUME piece[i - 1] = 301, piece[i] = 302 PROVE two = BlankLine
    <3>1. \A j \in 1 .. 2 : two[j] = BlankLine[j]
      BY <2>5, <2>6, <2>7
    <3>2. QED
      BY <2>3, <2>4, <2>6, <3>1, SeqEqual
  <2>8. QED
    BY <2>5, <2>6, <2>7 DEF two
<1>3. e = IF ends = {} THEN 0 ELSE CHOOSE i \in ends : TRUE
  BY DEF EndOfRequest
<1>4. e = 0 \/ e \in ends
  BY <1>3
<1>5. ends # {} => e \in ends
  BY <1>3
<1>6. \A i \in ends : i \in 2 .. n /\ piece[i - 1] = 301 /\ piece[i] = 302
  BY <1>2
<1>7. \A i \in 2 .. n : piece[i - 1] = 301 /\ piece[i] = 302 => i \in ends
  BY <1>2
<1> HIDE DEF ends, e
<1>8. e \in 0 .. n
  BY <1>1, <1>4, <1>6
<1>9. ASSUME e # 0 PROVE c + e = 3
  <2>1. e \in 2 .. n /\ piece[e] = 302
    BY <1>4, <1>6, <1>9
  <2>2. e \in 1 .. n /\ c + e \in Nat /\ c + e >= 1 /\ c + e <= 4 * sent + 3
    BY <1>1, <2>1
  <2>3. QED
    BY <1>1, <2>1, <2>2, OnlyThird
<1>10. ASSUME c <= 1, c + n >= 3 PROVE e # 0
  <2> DEFINE i == 3 - c
  <2>1. i \in 2 .. n /\ i \in 1 .. n /\ i - 1 \in 1 .. n /\ c + i = 3 /\ c + (i - 1) = 2
    BY <1>1, <1>10
  <2> HIDE DEF i
  <2>2. At(piece[i], 3) /\ At(piece[i - 1], 2)
    <3>1. At(piece[i], c + i) /\ At(piece[i - 1], c + (i - 1))
      BY <1>1, <2>1
    <3>2. QED
      BY <2>1, <3>1
  <2>3. piece[i] = 302 /\ piece[i - 1] = 301
    BY <2>2 DEF At
  <2>4. i \in ends
    BY <1>7, <2>1, <2>3
  <2>5. e \in 2 .. n
    BY <1>5, <1>6, <2>4
  <2>6. QED
    BY <2>5
<1>11. QED
  BY <1>8, <1>9, <1>10 DEF c, e

-----------------------------------------------------------------------------
(* The invariant.                                                          *)

HandlerInv ==
  /\ buffer \in Seq(Bytes) /\ Len(buffer) = BUFFER_SIZE
  /\ gotHandshake \in BOOLEAN
  /\ gotHandshake => sentHandshake
  /\ readyState = "OPEN" => gotHandshake
  /\ received \in Seq(Seq(Bytes))
  /\ early \in Nat /\ early <= Len(received)

\* The connection is open when the third byte has been read, except when the
\* second ended a piece.
RequestInv ==
  /\ gotHandshake => Consumed >= 3
  /\ ~ gotHandshake /\ Consumed >= 2 => split

\* What a sequence of texts has behind index e is of frames that were sent
\* before position c, in their order.
FrameHere(texts, e, c, i) ==
  /\ Number(texts[i]) \in Nat /\ Number(texts[i]) >= 1 /\ 4 * Number(texts[i]) + 3 <= c
  /\ texts[i] \in Deliveries(Number(texts[i]))
  /\ i > e + 1 => Number(texts[i - 1]) < Number(texts[i])

AreFrames(texts, e, c) == \A i \in e + 1 .. Len(texts) : FrameHere(texts, e, c, i)

\* What was received since is frames that were read.
ReceivedInv == AreFrames(received, early, Consumed)

WsInv == WireInv /\ HandlerInv /\ RequestInv /\ ReceivedInv

\* A function on the first numbers is a sequence.
LEMMA FunctionIsSeq ==
  ASSUME NEW S, NEW n \in Nat, NEW f \in [1 .. n -> S]
  PROVE  f \in Seq(S) /\ Len(f) = n
<1>1. f \in Seq(S)
  BY SeqDef
<1>2. Len(f) \in Nat /\ DOMAIN f = 1 .. Len(f) /\ DOMAIN f = 1 .. n
  BY <1>1, LenProperties
<1>3. QED
  BY <1>1, <1>2

\* What was never written is bytes, too, ...
LEMMA GarbageIsBytes == Garbage \subseteq Bytes
<1>1. MaxFrames + 1 \in Bytes
  BY MaxFramesAssumption DEF Bytes
<1>2. QED
  BY <1>1, ByteNumbers DEF Garbage

\* ... wherever it lies.
LEMMA MemoryIsBytes ==
  ASSUME NEW f \in [1 .. BUFFER_SIZE -> Garbage]
  PROVE  f \in Seq(Bytes) /\ Len(f) = BUFFER_SIZE
<1>1. f \in [1 .. BUFFER_SIZE -> Bytes]
  BY GarbageIsBytes
<1>2. QED
  BY <1>1, BufferAssumption, FunctionIsSeq

\* The invariant holds at first.
LEMMA WsInitInv == WsInit => WsInv
<1> SUFFICES ASSUME WsInit PROVE WsInv
  OBVIOUS
<1>1. wire = <<>> /\ wire \in Seq(Bytes) /\ Len(wire) = 0 /\ asked = FALSE /\ sent = 0
  BY EmptySeq DEF WsInit
<1>2. Total = 0 /\ Consumed = 0
  <2>1. Total = 0
    BY <1>1 DEF Total
  <2>2. Consumed = Total - 0
    BY <1>1 DEF Consumed
  <2>3. QED
    BY <2>1, <2>2
<1>3. WireInv
  <2>1. 0 \in Nat /\ 0 <= MaxFrames /\ 0 <= 0
    BY MaxFramesAssumption
  <2>2. \A i \in 1 .. Len(wire) : FALSE
    BY <1>1
  <2>3. QED
    BY <1>1, <1>2, <2>1, <2>2 DEF WireInv
<1>4. received = <<>> /\ received \in Seq(Seq(Bytes)) /\ Len(received) = 0 /\ early = 0
  BY EmptySeq DEF WsInit
<1>5. buffer \in Seq(Bytes) /\ Len(buffer) = BUFFER_SIZE
  BY MemoryIsBytes DEF WsInit
<1>6. gotHandshake = FALSE /\ readyState = "CONNECTING"
  BY DEF WsInit
<1>7. HandlerInv
  <2>1. early \in Nat /\ early <= Len(received)
    BY <1>4
  <2>2. QED
    BY <1>4, <1>5, <1>6, <2>1 DEF HandlerInv
<1>8. RequestInv
  BY <1>2, <1>6 DEF RequestInv
<1>9. ReceivedInv
  BY <1>4 DEF ReceivedInv, AreFrames
<1>10. QED
  BY <1>3, <1>7, <1>8, <1>9 DEF WsInv

\* An open connection scans the bytes it has read.
LEMMA OpenReads ==
  ASSUME WireInv, HandlerInv, gotHandshake, Consumed >= 3,
         NEW n \in 1 .. BUFFER_SIZE, n <= Len(wire), buffer' = Buffered(n)
  PROVE  /\ Frames(Scanned(0, n, <<>>)) \in Seq(Seq(Bytes))
         /\ FoundOK(Frames(Scanned(0, n, <<>>)), Consumed, Consumed + n)
<1> DEFINE bytes == Scanned(0, n, <<>>)
           c == Consumed
           b == buffer'
<1>1. /\ c \in Nat /\ c >= 3 /\ n \in Nat /\ Len(wire) \in Nat /\ sent \in Nat /\ sent < Closing
      /\ c + n <= 4 * sent + 3 /\ n <= BUFFER_SIZE /\ n <= Len(wire)
  <2>1. /\ c \in Nat /\ Len(wire) \in Nat /\ c + Len(wire) <= 4 * sent + 3 /\ sent \in Nat
        /\ BUFFER_SIZE \in Nat
    BY WireNumbers, BufferAssumption
  <2>2. sent < Closing
    BY WireNumbers, ByteNumbers
  <2>3. QED
    BY <2>1, <2>2
<1>2. b \in Seq(Bytes) /\ \A i \in 1 .. n : b[i] = wire[i]
  BY ReadBuffer DEF HandlerInv
<1>3. b \o <<>> = b
  BY <1>2, ConcatEmptySeq
<1>4. bytes = [ i \in 1 .. n |-> (b \o <<>>)[0 + i] ]
  BY DEF Scanned
<1> HIDE DEF bytes, c, b
<1>5. DOMAIN bytes = 1 .. n /\ \A i \in 1 .. n : bytes[i] = b[i]
  <2>1. \A i \in 1 .. n : 0 + i = i
    BY <1>1
  <2>2. QED
    BY <1>3, <1>4, <2>1
<1>6. \A i \in 1 .. n : At(bytes[i], c + i)
  <2>1. \A i \in 1 .. n : i \in 1 .. Len(wire)
    BY <1>1
  <2>2. \A i \in 1 .. n : At(wire[i], c + i)
    BY <2>1 DEF WireInv, c
  <2>3. QED
    BY <1>2, <1>5, <2>2
<1>7. Frames(bytes) \in Seq(Seq(Bytes)) /\ FoundOK(Frames(bytes), c, c + n)
  BY <1>1, <1>5, <1>6, FramesOfStream
<1>8. QED
  BY <1>7 DEF bytes, c

\* The call that finds the request scans bytes, whoever wrote them.
LEMMA FirstReads ==
  ASSUME WireInv, HandlerInv, NEW n \in 1 .. BUFFER_SIZE, n <= Len(wire), buffer' = Buffered(n),
         NEW e \in 0 .. n, NEW beyond \in [1 .. BUFFER_SIZE -> Garbage]
  PROVE  Frames(Scanned(e, n, beyond)) \in Seq(Seq(Bytes))
<1> DEFINE bytes == Scanned(e, n, beyond)
           b == buffer'
           all == b \o beyond
<1>1. b \in Seq(Bytes) /\ Len(b) = BUFFER_SIZE /\ BUFFER_SIZE \in Nat
  BY BufferAssumption, ReadBuffer DEF HandlerInv
<1>2. beyond \in Seq(Bytes) /\ Len(beyond) = BUFFER_SIZE
  BY MemoryIsBytes
<1>3. bytes = [ i \in 1 .. n |-> all[e + i] ]
  BY DEF Scanned
<1>4. all \in Seq(Bytes) /\ Len(all) = BUFFER_SIZE + BUFFER_SIZE
  BY <1>1, <1>2, ConcatProperties
<1> HIDE DEF bytes, all
<1>5. \A i \in 1 .. n : bytes[i] \in Bytes
  <2>1. \A i \in 1 .. n : e + i \in 1 .. Len(all)
    BY <1>1, <1>4
  <2>2. \A i \in 1 .. n : bytes[i] = all[e + i]
    BY <1>3
  <2>3. QED
    BY <1>4, <2>1, <2>2, ElementOfSeq
<1>6. DOMAIN bytes = 1 .. n /\ n \in Nat
  BY <1>3
<1>7. Frames(bytes) \in Seq(Seq(Bytes))
  BY <1>5, <1>6, FramesAreTyped
<1>8. QED
  BY <1>7 DEF bytes

-----------------------------------------------------------------------------
(* The invariant is kept.                                                  *)

\* What a call finds.
FoundBy(n, beyond) ==
  LET start == IF gotHandshake THEN 0 ELSE EndOfRequest(SubSeq(wire, 1, n))
  IN  IF gotHandshake' THEN Frames(Scanned(start, n, beyond)) ELSE <<>>

\* The guards and assignments of a call.
Reads(n, beyond) ==
  /\ n \in 1 .. BUFFER_SIZE /\ n <= Len(wire)
  /\ beyond \in IF Opens(n) THEN [1 .. BUFFER_SIZE -> Garbage] ELSE {<<>>}
  /\ OnReadable(n, beyond)

\* A call, variable by variable.
LEMMA ReadFields ==
  ASSUME NEW n, NEW beyond, Reads(n, beyond)
  PROVE  /\ buffer' = Buffered(n) /\ wire' = SubSeq(wire, n + 1, Len(wire))
         /\ sentHandshake' = TRUE
         /\ gotHandshake' = (gotHandshake \/ Opens(n))
         /\ readyState' = IF Opens(n) THEN "OPEN" ELSE readyState
         /\ received' = received \o FoundBy(n, beyond)
         /\ early' = IF Opens(n) THEN Len(received') ELSE early
         /\ split' = (split \/ wire[n] = BlankLine[1])
         /\ UNCHANGED <<asked, sent>>
BY DEF Reads, OnReadable, FoundBy

\* Where a call that reads n bytes begins and ends in the stream.
LEMMA ReadNumbers ==
  ASSUME WsInv, NEW n, NEW beyond, Reads(n, beyond)
  PROVE  /\ n \in 1 .. BUFFER_SIZE /\ n \in 1 .. Len(wire) /\ n \in Nat /\ n > 0
         /\ WireInv' /\ Consumed \in Nat /\ Consumed' = Consumed + n
         /\ Len(wire') = Len(wire) - n
         /\ buffer' \in Seq(Bytes) /\ Len(buffer') = BUFFER_SIZE
<1>1. n \in 1 .. BUFFER_SIZE /\ n <= Len(wire)
  BY DEF Reads
<1>2. n \in 1 .. Len(wire) /\ n \in Nat /\ n > 0
  BY <1>1, WireNumbers, BufferAssumption DEF WsInv
<1>3. WireInv' /\ Consumed' = Consumed + n /\ Len(wire') = Len(wire) - n
  BY <1>2, ReadFields, ReadWire DEF WsInv
<1>4. buffer' \in Seq(Bytes) /\ Len(buffer') = BUFFER_SIZE
  <2>1. WireInv /\ buffer \in Seq(Bytes) /\ Len(buffer) = BUFFER_SIZE
    BY DEF WsInv, HandlerInv
  <2>2. Buffered(n) \in Seq(Bytes) /\ Len(Buffered(n)) = BUFFER_SIZE
    BY <1>1, <2>1, ReadBuffer
  <2>3. buffer' = Buffered(n)
    BY ReadFields
  <2>4. QED
    BY <2>2, <2>3
<1>5. QED
  BY <1>1, <1>2, <1>3, <1>4, WireNumbers DEF WsInv

\* Where the request ends in what a call reads.
LEMMA ReadRequest ==
  ASSUME WsInv, NEW n, NEW beyond, Reads(n, beyond),
         NEW e, e = EndOfRequest(SubSeq(wire, 1, n))
  PROVE  /\ e \in 0 .. n
         /\ e # 0 => Consumed + e = 3
         /\ Consumed <= 1 /\ Consumed + n >= 3 => e # 0
         /\ Opens(n) <=> ~ gotHandshake /\ e # 0
<1> DEFINE piece == SubSeq(wire, 1, n)
<1>1. n \in 1 .. BUFFER_SIZE /\ n <= Len(wire) /\ n \in 1 .. Len(wire) /\ WireInv
  BY ReadNumbers DEF Reads, WsInv
<1>2. piece \in Seq(Bytes) /\ Len(piece) = n /\ \A i \in 1 .. n : piece[i] = wire[i]
  BY <1>1, ReadBuffer DEF WsInv, HandlerInv
<1>3. e = EndOfRequest(piece) /\ (Opens(n) <=> ~ gotHandshake /\ e # 0)
  BY DEF Opens
<1> HIDE DEF piece
<1>4. QED
  BY <1>1, <1>2, <1>3, RequestEnds

\* What a call finds: whole frames, if the connection was open.
LEMMA ReadFinds ==
  ASSUME WsInv, NEW n, NEW beyond, Reads(n, beyond)
  PROVE  /\ FoundBy(n, beyond) \in Seq(Seq(Bytes))
         /\ gotHandshake => FoundOK(FoundBy(n, beyond), Consumed, Consumed + n)
         /\ ~ gotHandshake' => FoundBy(n, beyond) = <<>>
<1>1. /\ WireInv /\ HandlerInv /\ (gotHandshake => Consumed >= 3)
      /\ n \in 1 .. BUFFER_SIZE /\ n <= Len(wire) /\ buffer' = Buffered(n)
      /\ gotHandshake' = (gotHandshake \/ Opens(n))
  BY ReadFields DEF WsInv, RequestInv, Reads
<1>2. CASE gotHandshake
  <2>1. ~ Opens(n) /\ gotHandshake'
    BY <1>1, <1>2 DEF Opens
  <2>2. beyond = <<>>
    BY <2>1 DEF Reads
  <2>3. FoundBy(n, beyond) = Frames(Scanned(0, n, <<>>))
    BY <1>2, <2>1, <2>2 DEF FoundBy
  <2>4. QED
    BY <1>1, <1>2, <2>1, <2>3, OpenReads
<1>3. CASE ~ gotHandshake /\ Opens(n)
  <2> DEFINE e == EndOfRequest(SubSeq(wire, 1, n))
  <2>1. e \in 0 .. n
    BY ReadRequest
  <2>2. beyond \in [1 .. BUFFER_SIZE -> Garbage]
    BY <1>3 DEF Reads
  <2>3. FoundBy(n, beyond) = Frames(Scanned(e, n, beyond)) /\ gotHandshake'
    BY <1>1, <1>3 DEF FoundBy
  <2> HIDE DEF e
  <2>4. QED
    BY <1>1, <1>3, <2>1, <2>2, <2>3, FirstReads
<1>4. CASE ~ gotHandshake /\ ~ Opens(n)
  <2>1. ~ gotHandshake'
    BY <1>1, <1>4
  <2>2. FoundBy(n, beyond) = <<>>
    BY <2>1 DEF FoundBy
  <2>3. QED
    BY <1>4, <2>2, EmptySeq
<1>5. QED
  BY <1>2, <1>3, <1>4

\* What was sent before one position was sent before a later one.
LEMMA FramesStay ==
  ASSUME NEW texts, NEW e, NEW c \in Nat, NEW p \in Nat, c <= p, AreFrames(texts, e, c)
  PROVE  AreFrames(texts, e, p)
<1>1. ASSUME NEW v \in Nat, 4 * v + 3 <= c PROVE 4 * v + 3 <= p
  BY <1>1
<1>2. QED
  BY <1>1 DEF AreFrames, FrameHere

\* Frames that are found later are later frames.
LEMMA MoreReceived ==
  ASSUME NEW old \in Seq(Seq(Bytes)), NEW found \in Seq(Seq(Bytes)), NEW e \in Nat, e <= Len(old),
         NEW c \in Nat, NEW p \in Nat, c <= p, FoundOK(found, c, p),
         NEW all, all = old \o found, AreFrames(old, e, c), c >= 3
  PROVE  AreFrames(all, e, p)
<1> DEFINE l == Len(old)
           m == Len(found)
<1>1. l \in Nat /\ m \in Nat
  BY LenProperties
<1>2. /\ Len(all) = l + m
      /\ \A i \in 1 .. l + m : all[i] = IF i <= l THEN old[i] ELSE found[i - l]
  BY ConcatProperties
<1> HIDE DEF l
<1>3. ASSUME NEW i \in 1 .. m PROVE FoundHere(found, c, p, i)
  BY FoundAt
<1> HIDE DEF m
<1>4. ASSUME NEW i \in e + 1 .. l + m PROVE FrameHere(all, e, p, i)
  <2>1. CASE i <= l
    <3>1. i \in 1 .. l + m /\ i \in e + 1 .. Len(old)
      BY <1>1, <2>1 DEF l
    <3>2. all[i] = old[i]
      BY <1>2, <2>1, <3>1
    <3>3. i > e + 1 => all[i - 1] = old[i - 1]
      <4>1. i > e + 1 => i - 1 \in 1 .. l + m /\ i - 1 <= l
        BY <1>1, <2>1
      <4>2. QED
        BY <1>2, <4>1
    <3>4. FrameHere(old, e, p, i)
      BY <3>1, FramesStay DEF AreFrames
    <3>5. QED
      BY <3>2, <3>3, <3>4 DEF FrameHere
  <2>2. CASE i > l
    <3> DEFINE j == i - l
    <3>1. i \in 1 .. l + m /\ ~ (i <= l) /\ j \in 1 .. m /\ j \in Nat
      BY <1>1, <2>2
    <3>2. all[i] = found[j]
      BY <1>2, <3>1
    <3> HIDE DEF j
    <3> DEFINE v == Number(found[j])
    <3>3. /\ v \in Nat /\ Starts(c, v) /\ 4 * v + 3 <= p /\ found[j] = Heard(c, v)
          /\ j > 1 => Number(found[j - 1]) < v
      BY <1>3, <3>1 DEF FoundHere
    <3>4. v >= 1 /\ c <= 4 * v /\ found[j] \in Deliveries(v) /\ Number(all[i]) = v
      <4>1. Number(all[i]) = v
        BY <3>2
      <4> HIDE DEF v
      <4>2. v >= 1 /\ c <= 4 * v
        BY <3>3 DEF Starts
      <4>3. found[j] \in Deliveries(v)
        BY <3>3, <4>2 DEF Starts, Heard, Deliveries
      <4>4. QED
        BY <4>1, <4>2, <4>3
    <3> HIDE DEF v
    <3>5. CASE j > 1
      <4>1. i - 1 \in 1 .. l + m /\ ~ (i - 1 <= l) /\ i - 1 - l = j - 1
        BY <1>1, <3>1, <3>5 DEF j
      <4>2. all[i - 1] = found[j - 1]
        BY <1>2, <4>1
      <4>3. QED
        BY <3>2, <3>3, <3>4, <3>5, <4>2 DEF FrameHere
    <3>6. CASE j = 1 /\ i > e + 1
      <4>1. i - 1 = l /\ l \in 1 .. l + m /\ l \in e + 1 .. Len(old)
        BY <1>1, <3>1, <3>6 DEF j, l
      <4>2. all[i - 1] = old[l]
        BY <1>1, <1>2, <4>1
      <4> DEFINE u == Number(old[l])
      <4>3. u \in Nat /\ 4 * u + 3 <= c
        BY <4>1 DEF AreFrames, FrameHere
      <4> HIDE DEF u
      <4>4. u < v
        BY <3>3, <3>4, <4>3
      <4>5. Number(all[i - 1]) < Number(all[i])
        BY <3>4, <4>2, <4>4 DEF u
      <4>6. QED
        BY <3>2, <3>3, <3>4, <4>5 DEF FrameHere
    <3>7. CASE ~ (i > e + 1)
      BY <3>2, <3>3, <3>4, <3>7 DEF FrameHere
    <3>8. j > 1 \/ j = 1
      BY <3>1
    <3>9. QED
      BY <3>5, <3>6, <3>7, <3>8
  <2>3. i <= l \/ i > l
    BY <1>1
  <2>4. QED
    BY <2>1, <2>2, <2>3
<1>5. QED
  BY <1>2, <1>4 DEF AreFrames

\* A call keeps the parts of the invariant: the handler's own variables, ...
LEMMA ReadKeepsHandler ==
  ASSUME WsInv, NEW n, NEW beyond, Reads(n, beyond)
  PROVE  HandlerInv'
<1> DEFINE found == FoundBy(n, beyond)
<1>1. found \in Seq(Seq(Bytes)) /\ received \in Seq(Seq(Bytes))
  BY ReadFinds DEF WsInv, HandlerInv
<1>2. received' = received \o found
  BY ReadFields
<1> HIDE DEF found
<1>3. received' \in Seq(Seq(Bytes)) /\ Len(received') = Len(received) + Len(found)
  BY <1>1, <1>2, ConcatProperties
<1>4. Len(received) \in Nat /\ Len(found) \in Nat /\ Len(received') \in Nat
  BY <1>1, <1>3, LenProperties
<1>5. early \in Nat /\ early <= Len(received)
  BY DEF WsInv, HandlerInv
<1>6. early' \in Nat /\ early' <= Len(received')
  <2>1. early <= Len(received') /\ Len(received') <= Len(received')
    BY <1>3, <1>4, <1>5
  <2>2. early' = Len(received') \/ early' = early
    BY ReadFields
  <2>3. QED
    BY <1>4, <1>5, <2>1, <2>2
<1>7. buffer' \in Seq(Bytes) /\ Len(buffer') = BUFFER_SIZE
  BY ReadNumbers
<1>8. /\ gotHandshake' \in BOOLEAN /\ (gotHandshake' => sentHandshake')
      /\ readyState' = "OPEN" => gotHandshake'
  <2>1. gotHandshake \in BOOLEAN /\ (readyState = "OPEN" => gotHandshake)
    BY DEF WsInv, HandlerInv
  <2>2. /\ sentHandshake' /\ gotHandshake' = (gotHandshake \/ Opens(n))
        /\ readyState' = IF Opens(n) THEN "OPEN" ELSE readyState
    BY ReadFields
  <2>3. QED
    BY <2>1, <2>2
<1>9. QED
  BY <1>3, <1>6, <1>7, <1>8 DEF HandlerInv

\* ... when the connection opens, ...
LEMMA ReadKeepsRequest ==
  ASSUME WsInv, NEW n, NEW beyond, Reads(n, beyond)
  PROVE  RequestInv'
<1> DEFINE e == EndOfRequest(SubSeq(wire, 1, n))
           c == Consumed
           d == Consumed'
<1>1. /\ c \in Nat /\ n \in Nat /\ n > 0 /\ d = c + n
      /\ gotHandshake' = (gotHandshake \/ Opens(n))
      /\ split' = (split \/ wire[n] = 301)
  <2>1. c \in Nat /\ n \in Nat /\ n > 0 /\ d = c + n
    BY ReadNumbers
  <2>2. gotHandshake' = (gotHandshake \/ Opens(n)) /\ split' = (split \/ wire[n] = BlankLine[1])
    BY ReadFields
  <2>3. QED
    BY <2>1, <2>2, ByteNumbers
<1>2. /\ e \in 0 .. n /\ (e # 0 => c + e = 3) /\ (c <= 1 /\ c + n >= 3 => e # 0)
      /\ Opens(n) <=> ~ gotHandshake /\ e # 0
  BY ReadRequest
<1>3. (gotHandshake => c >= 3) /\ (~ gotHandshake /\ c >= 2 => split)
  BY DEF WsInv, RequestInv
<1> HIDE DEF e, c
<1>4. ASSUME gotHandshake' PROVE d >= 3
  <2>1. CASE gotHandshake
    <3>1. c >= 3
      BY <1>3, <2>1
    <3>2. QED
      BY <1>1, <3>1
  <2>2. CASE Opens(n)
    <3>1. c + e = 3 /\ e \in 0 .. n
      BY <1>2, <2>2
    <3>2. QED
      BY <1>1, <3>1
  <2>3. QED
    BY <1>1, <1>4, <2>1, <2>2
<1>5. ASSUME ~ gotHandshake', d >= 2 PROVE split'
  <2>1. ~ gotHandshake /\ ~ Opens(n) /\ e = 0
    BY <1>1, <1>2, <1>5
  <2>2. CASE c >= 2
    BY <1>1, <1>3, <2>1, <2>2
  <2>3. CASE c <= 1 /\ c + n >= 3
    BY <1>2, <2>1, <2>3
  <2>4. CASE c + n = 2
    <3>1. n \in 1 .. Len(wire)
      BY ReadNumbers
    <3>2. At(wire[n], c + n)
      BY <3>1 DEF WsInv, WireInv, c
    <3>3. wire[n] = 301
      BY <2>4, <3>2 DEF At
    <3>4. QED
      BY <1>1, <3>3
  <2>5. c >= 2 \/ (c <= 1 /\ c + n >= 3) \/ c + n = 2
    BY <1>1, <1>5
  <2>6. QED
    BY <2>2, <2>3, <2>4, <2>5
<1>6. QED
  BY <1>4, <1>5 DEF RequestInv

\* ... and what was received.
LEMMA ReadKeepsReceived ==
  ASSUME WsInv, NEW n, NEW beyond, Reads(n, beyond)
  PROVE  ReceivedInv'
<1> DEFINE found == FoundBy(n, beyond)
           c == Consumed
           p == Consumed + n
<1>1. /\ c \in Nat /\ n \in Nat /\ n > 0 /\ p \in Nat /\ c <= p /\ Consumed' = p
      /\ received \in Seq(Seq(Bytes)) /\ early \in Nat /\ early <= Len(received)
      /\ received' = received \o found
      /\ early' = IF Opens(n) THEN Len(received') ELSE early
      /\ gotHandshake' = (gotHandshake \/ Opens(n))
  <2>1. /\ c \in Nat /\ n \in Nat /\ n > 0 /\ Consumed' = p
    BY ReadNumbers
  <2>2. p \in Nat /\ c <= p
    BY <2>1
  <2>3. QED
    BY <2>1, <2>2, ReadFields DEF WsInv, HandlerInv
<1>2. /\ found \in Seq(Seq(Bytes)) /\ (gotHandshake => FoundOK(found, c, p) /\ c >= 3)
      /\ ~ gotHandshake' => found = <<>>
  BY ReadFinds DEF WsInv, RequestInv
<1>3. AreFrames(received, early, c)
  BY DEF WsInv, ReceivedInv
<1> DEFINE all == received'
<1>4. all = received \o found
  BY <1>1
<1> HIDE DEF found, c, p, all
<1>5. CASE Opens(n)
  <2>1. early' = Len(all) /\ Len(all) \in Nat
    <3>1. Len(all) \in Nat
      BY <1>1, <1>2, <1>4, ConcatProperties, LenProperties
    <3>2. QED
      BY <1>1, <1>5, <3>1 DEF all
  <2>2. ~ \E i \in early' + 1 .. Len(all) : TRUE
    BY <2>1
  <2>3. QED
    BY <1>1, <2>2 DEF ReceivedInv, AreFrames, all
<1>6. CASE ~ Opens(n) /\ gotHandshake
  <2>1. early' = early /\ FoundOK(found, c, p) /\ c >= 3
    BY <1>1, <1>2, <1>6
  <2>2. AreFrames(all, early, p)
    BY <1>1, <1>2, <1>3, <1>4, <2>1, MoreReceived
  <2>3. QED
    BY <1>1, <2>1, <2>2 DEF ReceivedInv, all
<1>7. CASE ~ Opens(n) /\ ~ gotHandshake
  <2>1. early' = early /\ found = <<>>
    BY <1>1, <1>2, <1>7
  <2>2. all = received
    BY <1>1, <1>4, <2>1, ConcatEmptySeq
  <2>3. AreFrames(received, early, p)
    BY <1>1, <1>3, FramesStay
  <2>4. QED
    BY <1>1, <2>1, <2>2, <2>3 DEF ReceivedInv, all
<1>8. QED
  BY <1>5, <1>6, <1>7

\* The client changes nothing the handler has.
LEMMA ClientKeepsRest ==
  ASSUME WsInv, UNCHANGED handlerVars, Consumed' = Consumed
  PROVE  HandlerInv' /\ RequestInv' /\ ReceivedInv'
<1>1. HandlerInv'
  BY DEF WsInv, HandlerInv, handlerVars
<1>2. RequestInv'
  BY DEF WsInv, RequestInv, handlerVars
<1>3. ReceivedInv'
  BY DEF WsInv, ReceivedInv, handlerVars
<1>4. QED
  BY <1>1, <1>2, <1>3

\* The steps.
LEMMA WsStepCases ==
  ASSUME [WsNext]_wsVars
  PROVE  \/ Ask \/ SendFrame \/ OnShutdown \/ UNCHANGED wsVars
         \/ \E n, beyond : Reads(n, beyond)
BY DEF WsNext, Reads

\* No step breaks the invariant.
LEMMA WsStepKeepsInv == WsInv /\ [WsNext]_wsVars => WsInv'
<1> SUFFICES ASSUME WsInv, [WsNext]_wsVars PROVE WsInv'
  OBVIOUS
<1>1. CASE Ask
  <2>1. WireInv' /\ Consumed' = Consumed /\ UNCHANGED handlerVars
    BY <1>1, AskStep DEF WsInv, Ask
  <2>2. QED
    BY <2>1, ClientKeepsRest DEF WsInv
<1>2. CASE SendFrame
  <2>1. WireInv' /\ Consumed' = Consumed /\ UNCHANGED handlerVars
    BY <1>2, SendStep DEF WsInv, SendFrame
  <2>2. QED
    BY <2>1, ClientKeepsRest DEF WsInv
<1>3. CASE OnShutdown \/ UNCHANGED wsVars
  <2>1. /\ UNCHANGED <<asked, sent, wire, buffer, sentHandshake, gotHandshake, received, early, split>>
        /\ readyState' = "CLOSED" \/ readyState' = readyState
    BY <1>3 DEF OnShutdown, wsVars, handlerVars
  <2>2. WireInv' /\ Consumed' = Consumed
    BY <2>1 DEF WsInv, WireInv, Consumed, Total
  <2>3. HandlerInv'
    BY <2>1 DEF WsInv, HandlerInv
  <2>4. RequestInv' /\ ReceivedInv'
    BY <2>1, <2>2 DEF WsInv, RequestInv, ReceivedInv
  <2>5. QED
    BY <2>2, <2>3, <2>4 DEF WsInv
<1>4. ASSUME NEW n, NEW beyond, Reads(n, beyond) PROVE WsInv'
  BY <1>4, ReadNumbers, ReadKeepsHandler, ReadKeepsRequest, ReadKeepsReceived DEF WsInv
<1>5. QED
  BY <1>1, <1>2, <1>3, <1>4, WsStepCases

\* So that it always holds.
LEMMA WsInvariant == WsSpec => []WsInv
BY WsInitInv, WsStepKeepsInv, PTL DEF WsSpec

-----------------------------------------------------------------------------
(* What follows from it.                                                   *)

\* The types, ...
LEMMA WsInvIsTyped == WsInv => WsTypeOK
<1> SUFFICES ASSUME WsInv PROVE WsTypeOK
  OBVIOUS
<1>1. sent \in 0 .. MaxFrames
  BY WireNumbers DEF WsInv
<1>2. early \in 0 .. Len(received)
  <2>1. early \in Nat /\ early <= Len(received) /\ Len(received) \in Nat
    BY LenProperties DEF WsInv, HandlerInv
  <2>2. QED
    BY <2>1
<1>3. QED
  BY <1>1, <1>2 DEF WsInv, HandlerInv, WsTypeOK, Bytes

\* ... and what the handler makes of the stream.
LEMMA WsInvIsRead == WsInv => StreamIsRead
<1> SUFFICES ASSUME WsInv PROVE RequestIsSeen /\ MessagesAreFrames
  BY DEF StreamIsRead
<1> DEFINE c == Consumed
<1>1. /\ c \in Nat /\ Len(wire) \in Nat /\ c + Len(wire) = Total /\ Total <= 4 * sent + 3
      /\ sent \in Nat
  BY WireNumbers DEF WsInv
<1>2. RequestIsSeen
  <2>1. SUFFICES ASSUME asked, ~ split, ~ \E i \in 1 .. Len(wire) : wire[i] = BlankLine[2]
                 PROVE  gotHandshake
    BY DEF RequestIsSeen
  <2>2. Total >= 3
    <3>1. Total = 3 + 4 * sent
      BY <2>1 DEF Total
    <3>2. QED
      BY <1>1, <3>1
  <2>3. (~ gotHandshake /\ c >= 2 => split)
    BY DEF WsInv, RequestInv
  <2> DEFINE i == 3 - c
  <2>4. CASE c < 3
    <3>1. i \in 1 .. Len(wire) /\ c + i = 3
      BY <1>1, <2>2, <2>4
    <3>2. At(wire[i], c + i)
      BY <3>1 DEF WsInv, WireInv
    <3> HIDE DEF i, c
    <3>3. wire[i] = 302
      BY <3>1, <3>2 DEF At
    <3>4. FALSE
      BY <2>1, <3>1, <3>3, ByteNumbers
    <3>5. QED
      BY <3>4
  <2>5. CASE c >= 3
    <3>1. c >= 2
      BY <1>1, <2>5
    <3>2. QED
      BY <2>1, <2>3, <3>1
  <2>6. QED
    BY <1>1, <2>4, <2>5
<1>3. MessagesAreFrames
  <2> SUFFICES ASSUME NEW i \in early + 1 .. Len(received)
               PROVE  \E k \in 1 .. sent :
                        /\ received[i] \in Deliveries(k)
                        /\ i > early + 1 => \E j \in 1 .. k - 1 : received[i - 1] \in Deliveries(j)
    BY DEF MessagesAreFrames
  <2> DEFINE v == Number(received[i])
             u == Number(received[i - 1])
  <2>1. /\ v \in Nat /\ v >= 1 /\ 4 * v + 3 <= c /\ received[i] \in Deliveries(v)
        /\ i > early + 1 => u < v
    BY DEF WsInv, ReceivedInv, AreFrames, FrameHere
  <2>2. ASSUME i > early + 1
        PROVE  u \in Nat /\ u >= 1 /\ received[i - 1] \in Deliveries(u)
    <3>1. i - 1 \in early + 1 .. Len(received)
      <4>1. early \in Nat /\ Len(received) \in Nat
        BY LenProperties DEF WsInv, HandlerInv
      <4>2. QED
        BY <2>2, <4>1
    <3>2. QED
      BY <3>1 DEF WsInv, ReceivedInv, AreFrames, FrameHere
  <2> HIDE DEF u, v, c
  <2>3. v \in 1 .. sent
    BY <1>1, <2>1
  <2>4. i > early + 1 => u \in 1 .. v - 1
    BY <2>1, <2>2
  <2>5. QED
    BY <2>1, <2>2, <2>3, <2>4
<1>4. QED
  BY <1>2, <1>3

\* A frame on the wire is where its number says.
LEMMA FrameIsAt ==
  ASSUME WsInv, gotHandshake, NEW k \in 1 .. MaxFrames, NEW i \in 1 .. Len(wire) - 3,
         SubSeq(wire, i, i + 3) = Frame(k)
  PROVE  Consumed + i = 4 * k
<1> DEFINE c == Consumed
           p == Consumed + i
           four == SubSeq(wire, i, i + 3)
<1>1. /\ c \in Nat /\ Len(wire) \in Nat /\ c >= 3 /\ k \in Nat /\ k > 0
      /\ c + Len(wire) <= 4 * sent + 3 /\ sent \in Nat /\ sent < 255
  <2>1. /\ c \in Nat /\ Len(wire) \in Nat /\ c + Len(wire) <= 4 * sent + 3 /\ sent \in Nat
        /\ sent <= MaxFrames /\ MaxFrames \in Nat /\ MaxFrames < 255
    BY WireNumbers, ByteNumbers DEF WsInv
  <2>2. c >= 3
    BY DEF WsInv, RequestInv
  <2>3. QED
    BY <2>1, <2>2
<1>2. i \in Int /\ \A j \in i .. i + 3 : j \in 1 .. Len(wire)
  BY <1>1
<1>3. wire[i + 2] = k /\ wire[i + 3] = Closing
  <2>1. \A j \in i .. i + 3 : wire[j] \in Bytes
    BY <1>2, ElementOfSeq DEF WsInv, WireInv
  <2>2. \A j \in 1 .. i + 3 - i + 1 : four[j] = wire[i + j - 1]
    BY <1>2, <2>1, SubSeqProperties
  <2>3. /\ 3 \in 1 .. i + 3 - i + 1 /\ i + 3 - 1 = i + 2
        /\ 4 \in 1 .. i + 3 - i + 1 /\ i + 4 - 1 = i + 3
    BY <1>2
  <2> HIDE DEF four
  <2>4. four[3] = wire[i + 2] /\ four[4] = wire[i + 3]
    BY <2>2, <2>3
  <2>5. Frame(k)[3] = k /\ Frame(k)[4] = Closing
    BY DEF Frame
  <2>6. QED
    BY <2>4, <2>5 DEF four
<1>4. At(wire[i + 2], c + (i + 2)) /\ At(wire[i + 3], c + (i + 3))
  <2>1. i + 2 \in 1 .. Len(wire) /\ i + 3 \in 1 .. Len(wire)
    BY <1>2
  <2>2. QED
    BY <2>1 DEF WsInv, WireInv
<1>5. /\ p \in Nat /\ p > 3 /\ c + (i + 2) = p + 2 /\ c + (i + 3) = p + 3
      /\ p + 3 <= 4 * sent + 3 /\ p + 2 \in Nat /\ p + 3 \in Nat
  BY <1>1, <1>2
<1>6. At(k, p + 2) /\ At(Closing, p + 3)
  BY <1>3, <1>4, <1>5
<1> HIDE DEF p
<1>7. PICK m \in Nat : p + 3 = 4 * m \/ p + 3 = 4 * m + 1 \/ p + 3 = 4 * m + 2 \/ p + 3 = 4 * m + 3
  BY <1>5, Fours
<1>8. m > 0 /\ m <= sent
  <2>1. sent \in Nat
    BY <1>1
  <2>2. QED
    BY <1>5, <1>7, <2>1
<1>9. m < Closing
  BY <1>1, <1>8, ByteNumbers
<1>10. Opening # Closing /\ Lead(m) # Closing /\ m # Closing
  BY <1>8, <1>9, ByteNumbers, LeadIsByte
<1>11. p + 3 = 4 * m + 3
  BY <1>5, <1>6, <1>7, <1>8, <1>10, ByteAt
<1>12. p + 2 = 4 * m + 2
  BY <1>5, <1>11
<1>13. k = m
  BY <1>5, <1>6, <1>8, <1>12, ByteAt
<1>14. p = 4 * k
  BY <1>5, <1>11, <1>13
<1>15. QED
  BY <1>14 DEF p

\* The loop finds it.
LEMMA WholeFrameIsFound ==
  ASSUME WsInv, NEW n, NEW beyond, Reads(n, beyond), gotHandshake,
         NEW k \in 1 .. MaxFrames, NEW i \in 1 .. n - 3, SubSeq(wire, i, i + 3) = Frame(k)
  PROVE  \E j \in Len(received) + 1 .. Len(received') : received'[j] = Text(k)
<1> DEFINE found == FoundBy(n, beyond)
           c == Consumed
           p == Consumed + n
<1>1. /\ c \in Nat /\ n \in Nat /\ Len(wire) \in Nat /\ n <= Len(wire) /\ k \in Nat
  BY ReadNumbers, WireNumbers DEF WsInv
<1>2. i \in 1 .. Len(wire) - 3
  BY <1>1
<1>3. c + i = 4 * k
  BY <1>2, FrameIsAt
<1>4. Starts(c, k) /\ Heard(c, k) = Text(k) /\ 4 * k + 3 <= p
  <2>1. c < 4 * k /\ 4 * k + 3 <= p
    BY <1>1, <1>3
  <2>2. QED
    BY <2>1 DEF Starts, Heard
<1>5. found \in Seq(Seq(Bytes)) /\ FoundOK(found, c, p)
  BY ReadFinds
<1>6. received' = received \o found /\ received \in Seq(Seq(Bytes))
  BY ReadFields DEF WsInv, HandlerInv
<1> HIDE DEF found, c, p
<1>7. PICK j \in 1 .. Len(found) : found[j] = Text(k)
  BY <1>1, <1>4, <1>5, FoundAt
<1>8. /\ Len(received') = Len(received) + Len(found)
      /\ \A h \in 1 .. Len(received) + Len(found) :
           received'[h] = IF h <= Len(received) THEN received[h] ELSE found[h - Len(received)]
  BY <1>5, <1>6, ConcatProperties
<1>9. Len(received) \in Nat /\ Len(found) \in Nat
  BY <1>5, <1>6, LenProperties
<1> DEFINE h == Len(received) + j
<1>10. /\ h \in Len(received) + 1 .. Len(received') /\ h \in 1 .. Len(received) + Len(found)
       /\ ~ (h <= Len(received)) /\ h - Len(received) = j
  BY <1>8, <1>9
<1> HIDE DEF h
<1>11. received'[h] = found[j]
  BY <1>8, <1>10
<1>12. QED
  BY <1>7, <1>10, <1>11

\* Whatever memory holds that the handler reads and did not write, the types
\* are right, and a connection is open only when it has been answered.
THEOREM WebSocketTypeCorrect == WsSpec => []WsTypeOK
BY WsInvariant, WsInvIsTyped, PTL

\* However the bytes are cut: a request that was read opens the connection
\* unless its blank line was cut, and then what onmessage() gets is texts of
\* frames of the client, in their order and each at most once; a cut may
\* take the beginning of a text that holds a U+0000, and of no other.
THEOREM StreamIsReadRight == WsSpec => []StreamIsRead
BY WsInvariant, WsInvIsRead, PTL

\* A frame that one call of onReadable() reads whole reaches onmessage().
THEOREM WholeFramesAreHeard == WsSpec => WholeFramesArrive
<1> DEFINE WholeFrames ==
             \A k \in 1 .. MaxFrames :
               /\ gotHandshake /\ Len(wire') < Len(wire)
               /\ \E i \in 1 .. Len(wire) - Len(wire') - 3 : SubSeq(wire, i, i + 3) = Frame(k)
               => \E i \in Len(received) + 1 .. Len(received') : received'[i] = Text(k)
<1>1. WsInv /\ [WsNext]_wsVars => [WholeFrames]_wsVars
  <2> SUFFICES ASSUME WsInv, [WsNext]_wsVars,
                      NEW k \in 1 .. MaxFrames, gotHandshake, Len(wire') < Len(wire),
                      NEW i \in 1 .. Len(wire) - Len(wire') - 3, SubSeq(wire, i, i + 3) = Frame(k)
               PROVE  \E j \in Len(received) + 1 .. Len(received') : received'[j] = Text(k)
    OBVIOUS
  <2>1. Len(wire) \in Nat
    BY WireNumbers DEF WsInv
  <2>2. ~ (OnShutdown \/ UNCHANGED wsVars)
    <3>1. ~ UNCHANGED wire
      BY <2>1
    <3>2. QED
      BY <3>1 DEF OnShutdown, wsVars
  <2>3. ~ Ask /\ ~ SendFrame
    BY <2>1, AskStep, SendStep DEF WsInv
  <2>4. PICK n, beyond : Reads(n, beyond)
    BY <2>2, <2>3, WsStepCases
  <2>5. Len(wire') = Len(wire) - n /\ n \in Nat
    BY <2>4, ReadNumbers
  <2>6. i \in 1 .. n - 3
    BY <2>1, <2>5
  <2>7. QED
    BY <2>4, <2>6, WholeFrameIsFound
<1>2. QED
  BY <1>1, WsInvariant, PTL DEF WsSpec, WholeFramesArrive

-----------------------------------------------------------------------------
(* Both, as they are run.                                                  *)

\* The handler that rests does what no handler forbids.
LEMMA SocketsAreBoth ==
  /\ SocketsInit => OscInit /\ WsInit
  /\ [OscStep \/ WsStep]_mcVars => [OscNext]_oscVars /\ [WsNext]_wsVars
<1>1. WsRests => WsInit
  BY DEF WsRests, WsInit, Garbage
<1>2. SocketsInit => OscInit /\ WsInit
  BY <1>1 DEF SocketsInit
<1>3. [OscStep \/ WsStep]_mcVars => [OscNext]_oscVars /\ [WsNext]_wsVars
  BY DEF OscStep, WsStep, mcVars
<1>4. QED
  BY <1>2, <1>3

\* The types of both, the mutual exclusion at the queue of the receiver, and
\* no open connection without an answer: for any number of messages and
\* frames, and any size of the buffer.
THEOREM SocketsTypeCorrect == SocketsSpec => []SocketsTypeOK
<1>1. OscInv /\ WsInv => SocketsTypeOK
  BY OscInvIsTyped, WsInvIsTyped DEF SocketsTypeOK
<1>2. OscInv /\ WsInv /\ [OscStep \/ WsStep]_mcVars => (OscInv /\ WsInv)'
  BY SocketsAreBoth, OscStepKeepsInv, WsStepKeepsInv
<1>3. SocketsInit => OscInv /\ WsInv
  BY SocketsAreBoth, OscInitInv, WsInitInv
<1>4. QED
  BY <1>1, <1>2, <1>3, PTL DEF SocketsSpec
=============================================================================
